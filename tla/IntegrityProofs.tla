--------------------------- MODULE IntegrityProofs --------------------------
(***************************************************************************)
(* What holds of components of MCIntegrity for every value of their        *)
(* constants: the GPU lock, the full-text index, the round of researchers, *)
(* the wait for a lock, the service container, the knowledge service, the  *)
(* embedding election, the writer queue, the state file, the embedder and  *)
(* the opening of the knowledge store.                                     *)
(***************************************************************************)
EXTENDS MCIntegrity, Sequences, FiniteSetTheorems, WellFoundedInduction, TLAPS

-----------------------------------------------------------------------------
(* The parameters of each.                                                 *)
LEMMA RoundSettingHolds == Run!RoundSetting
BY Parameters DEF Run!RoundSetting, Run!Researcher, IsFiniteSet, Run!IsFiniteSet

LEMMA WaitSettingHolds == Wait!WaitSetting
BY Parameters DEF Wait!WaitSetting, Wait!Config

LEMMA ContainerSettingHolds == Container!ContainerSetting
BY Parameters DEF Container!ContainerSetting, Container!Disposer

LEMMA ServiceSettingHolds == Service!ServiceSetting
BY Parameters DEF Service!ServiceSetting

LEMMA ElectionSettingHolds == Leader!ElectionSetting
BY Parameters DEF Leader!ElectionSetting

LEMMA IngestSettingHolds == Ingest!IngestSetting
BY Parameters DEF Ingest!IngestSetting

LEMMA FileSettingHolds == File!FileSetting
BY Parameters DEF File!FileSetting

LEMMA EmbedderSettingHolds == Embed!EmbedderSetting
BY Parameters DEF Embed!EmbedderSetting, IsFiniteSet, Embed!IsFiniteSet

LEMMA StoreSettingHolds == Store!StoreSetting
BY StoreParameters

(* Each instance has a Cardinality of its own; they are one.               *)
LEMMA FtsCounting ==
  \A S : Fts!Cardinality(S) = Cardinality(S) /\ (Fts!IsFiniteSet(S) <=> IsFiniteSet(S))
BY DEF Cardinality, IsFiniteSet, Fts!Cardinality, Fts!IsFiniteSet

LEMMA RunCounting ==
  \A S : Run!Cardinality(S) = Cardinality(S) /\ (Run!IsFiniteSet(S) <=> IsFiniteSet(S))
BY DEF Cardinality, IsFiniteSet, Run!Cardinality, Run!IsFiniteSet

LEMMA LeaderCounting ==
  \A S : Leader!Cardinality(S) = Cardinality(S) /\ (Leader!IsFiniteSet(S) <=> IsFiniteSet(S))
BY DEF Cardinality, IsFiniteSet, Leader!Cardinality, Leader!IsFiniteSet

LEMMA EmbedCounting ==
  \A S : Embed!Cardinality(S) = Cardinality(S) /\ (Embed!IsFiniteSet(S) <=> IsFiniteSet(S))
BY DEF Cardinality, IsFiniteSet, Embed!Cardinality, Embed!IsFiniteSet

LEMMA StoreCounting ==
  \A S : Store!Cardinality(S) = Cardinality(S) /\ (Store!IsFiniteSet(S) <=> IsFiniteSet(S))
BY DEF Cardinality, IsFiniteSet, Store!Cardinality, Store!IsFiniteSet

-----------------------------------------------------------------------------
(* What a run of all of them together shows of one, it shows of the        *)
(* component.                                                              *)
LEMMA IntegritySteps ==
  ASSUME [AllNext]_all
  PROVE  /\ [Store!Next]_Store!storeVars /\ [Ingest!Next]_Ingest!ingestVars
         /\ [Fts!Next]_Fts!ftsVars /\ [File!Next]_File!stateVars
         /\ [Next]_gpuVars /\ [Leader!Next]_Leader!electionVars
         /\ [Service!Next]_Service!serviceVars /\ [Container!Next]_Container!containerVars
         /\ [Run!Next]_Run!roundVars /\ [Wait!Next]_Wait!vars
         /\ [Embed!Next]_Embed!embedderVars
<1>1. /\ UNCHANGED storeVars => UNCHANGED Store!storeVars
      /\ UNCHANGED ingestVars => UNCHANGED Ingest!ingestVars
      /\ UNCHANGED ftsVars => UNCHANGED Fts!ftsVars
      /\ UNCHANGED fileVars => UNCHANGED File!stateVars
      /\ UNCHANGED leaderVars => UNCHANGED Leader!electionVars
      /\ UNCHANGED serviceVars => UNCHANGED Service!serviceVars
      /\ UNCHANGED containerVars => UNCHANGED Container!containerVars
      /\ UNCHANGED runVars => UNCHANGED Run!roundVars
      /\ UNCHANGED waitVars => UNCHANGED Wait!vars
      /\ UNCHANGED embedVars => UNCHANGED Embed!embedderVars
  BY DEF storeVars, Store!storeVars, ingestVars, Ingest!ingestVars, ftsVars, Fts!ftsVars,
     fileVars, File!stateVars, leaderVars, Leader!electionVars, serviceVars,
        Service!serviceVars, containerVars, Container!containerVars, runVars,
        Run!roundVars, waitVars, Wait!vars, Wait!env, Wait!wait, embedVars,
        Embed!embedderVars, Embed!loading, Embed!closing, Embed!calling
<1>2. CASE UNCHANGED all
  BY <1>1, <1>2 DEF all
<1>3. CASE AllNext
  <2> USE <1>1, <1>3
  <2>1. Store!Next \/ UNCHANGED storeVars
    BY DEF AllNext, Store!Next, Store!Step, IngestOnly, FtsOnly, FileOnly, GpuOnly,
       LeaderOnly, ServiceOnly, ContainerOnly, RunOnly, WaitOnly, EmbedOnly
  <2>2. Ingest!Next \/ UNCHANGED ingestVars
    BY DEF AllNext, Ingest!Next, Ingest!Loop, Ingest!Closing, StoreOnly, FtsOnly, FileOnly,
       GpuOnly, LeaderOnly, ServiceOnly, ContainerOnly, RunOnly, WaitOnly, EmbedOnly
  <2>3. Fts!Next \/ UNCHANGED ftsVars
    BY DEF AllNext, Fts!Next, Fts!Maintain, StoreOnly, IngestOnly, FileOnly, GpuOnly,
       LeaderOnly, ServiceOnly, ContainerOnly, RunOnly, WaitOnly, EmbedOnly
  <2>4. File!Next \/ UNCHANGED fileVars
    BY DEF AllNext, File!Next, File!Run, StoreOnly, IngestOnly, FtsOnly, GpuOnly,
       LeaderOnly, ServiceOnly, ContainerOnly, RunOnly, WaitOnly, EmbedOnly
  <2>5. Next \/ UNCHANGED gpuVars
    BY DEF AllNext, Next, StoreOnly, IngestOnly, FtsOnly, FileOnly, LeaderOnly,
       ServiceOnly, ContainerOnly, RunOnly, WaitOnly, EmbedOnly
  <2>6. Leader!Next \/ UNCHANGED leaderVars
    BY DEF AllNext, Leader!Next, Leader!Turn, StoreOnly, IngestOnly, FtsOnly, FileOnly,
       GpuOnly, ServiceOnly, ContainerOnly, RunOnly, WaitOnly, EmbedOnly
  <2>7. Service!Next \/ UNCHANGED serviceVars
    BY DEF AllNext, Service!Next, Service!Caller, StoreOnly, IngestOnly, FtsOnly, FileOnly,
       GpuOnly, LeaderOnly, ContainerOnly, RunOnly, WaitOnly, EmbedOnly
  <2>8. Container!Next \/ UNCHANGED containerVars
    BY DEF AllNext, Container!Next, StoreOnly, IngestOnly, FtsOnly, FileOnly, GpuOnly,
       LeaderOnly, ServiceOnly, RunOnly, WaitOnly, EmbedOnly
  <2>9. Run!Next \/ UNCHANGED runVars
    BY DEF AllNext, Run!Next, Run!Research, StoreOnly, IngestOnly, FtsOnly, FileOnly,
       GpuOnly, LeaderOnly, ServiceOnly, ContainerOnly, WaitOnly, EmbedOnly
  <2>10. Wait!Next \/ UNCHANGED waitVars
    BY DEF AllNext, Wait!Next, StoreOnly, IngestOnly, FtsOnly, FileOnly, GpuOnly,
       LeaderOnly, ServiceOnly, ContainerOnly, RunOnly, EmbedOnly
  <2>11. Embed!Next \/ UNCHANGED embedVars
    BY DEF AllNext, Embed!Next, Embed!Load, Embed!Disposal, StoreOnly, IngestOnly, FtsOnly,
       FileOnly, GpuOnly, LeaderOnly, ServiceOnly, ContainerOnly, RunOnly, WaitOnly
  <2> QED
    BY <2>1, <2>2, <2>3, <2>4, <2>5, <2>6, <2>7, <2>8, <2>9, <2>10, <2>11
<1> QED
  BY <1>2, <1>3

(* Each of the eleven components runs as its own specification says.       *)
THEOREM Components == AllSpec =>
  /\ Store!Spec /\ Ingest!Spec /\ Fts!Spec /\ File!Spec /\ Spec
  /\ Leader!Spec /\ Service!Spec /\ Container!Spec /\ Run!Spec /\ Wait!Spec
  /\ Embed!Spec
<1>1. AllInit => /\ Store!Init /\ Ingest!Init /\ Fts!Init /\ File!Init /\ Init
                 /\ Leader!Init /\ Service!Init /\ Container!Init /\ Run!Init /\ Wait!Init
                 /\ Embed!Init
  BY DEF AllInit
<1>2. [AllNext]_all =>
        /\ [Store!Next]_Store!storeVars /\ [Ingest!Next]_Ingest!ingestVars
        /\ [Fts!Next]_Fts!ftsVars /\ [File!Next]_File!stateVars
        /\ [Next]_gpuVars /\ [Leader!Next]_Leader!electionVars
        /\ [Service!Next]_Service!serviceVars /\ [Container!Next]_Container!containerVars
        /\ [Run!Next]_Run!roundVars /\ [Wait!Next]_Wait!vars
        /\ [Embed!Next]_Embed!embedderVars
  BY IntegritySteps
<1> QED
  BY <1>1, <1>2, PTL
     DEF AllSpec, Store!Spec, Ingest!Spec, Fts!Spec, File!Spec, Spec, Leader!Spec,
         Service!Spec, Container!Spec, Run!Spec, Wait!Spec, Embed!Spec

-----------------------------------------------------------------------------
(* The GPU lock.                                                           *)

LEMMA RecordTyped ==
  ASSUME Setting, GpuTypeOK, NEW p \in Pid, NEW n \in Nat
  PROVE  Record(p, n) \in Owner /\ Record(p, n) # None
<1>1. Record(p, n) \in Owner
  BY DEF Record, Owner, GpuTypeOK
<1>2. QED  BY <1>1 DEF Setting

LEMMA HoldingFinite ==
  ASSUME Setting, NEW p \in Pid
  PROVE  /\ IsFiniteSet(Holding(p)) /\ Cardinality(Holding(p)) \in Nat
         /\ Cardinality(Holding(p)) = 0 <=> Holding(p) = {}
<1>1. IsFiniteSet(Holding(p))
  BY FS_Subset DEF Setting, Holding, Calls
<1>2. QED  BY <1>1, FS_CardinalityType, FS_EmptySet

LEMMA GpuTyped ==
  ASSUME Setting, GpuTypeOK, [Next]_gpuVars  PROVE  GpuTypeOK'
<1> USE DEF GpuTypeOK, Setting, Owner
<1>1. ASSUME NEW c \in Call, Ask(c) \/ TimeOut(c) \/ ReleaseFails(c)  PROVE  GpuTypeOK'
  BY <1>1 DEF Ask, TimeOut, ReleaseFails
<1>2. ASSUME NEW c \in Call, Acquire(c)  PROVE  GpuTypeOK'
  <2>1. PidOf[c] \in Pid
    BY DEF Setting
  <2>2. gpuOwner # None => gpuOwner.holds + 1 \in Nat
    OBVIOUS
  <2>3. gpuOwner' \in Owner
    <3>1. \E n \in Nat : gpuOwner' = Record(PidOf[c], n)
      <4>1. 1 \in Nat
        OBVIOUS
      <4>2. QED  BY <4>1, <1>2, <2>2 DEF Acquire
    <3>2. QED  BY <2>1, <3>1, RecordTyped
  <2>4. QED  BY <1>2, <2>3 DEF Acquire
<1>3. \A p \in Pid : Decremented(p) \in {None} \cup Owner
  BY DEF Decremented
<1>4. ASSUME NEW c \in Call, Release(c)  PROVE  GpuTypeOK'
  BY <1>3, <1>4 DEF Release
<1>5. ASSUME NEW p \in Pid, DisposeEmbedder(p) \/ Die(p) \/ Born(p)  PROVE  GpuTypeOK'
  BY <1>3, <1>5 DEF DisposeEmbedder, Die, Born
<1>6. CASE Age
  BY <1>6 DEF Age
<1>7. CASE UNCHANGED gpuVars
  BY <1>7 DEF gpuVars
<1>8. QED  BY <1>1, <1>2, <1>4, <1>5, <1>6, <1>7 DEF Next

LEMMA AliveStep ==
  ASSUME Setting, GpuTypeOK, Alive, [Next]_gpuVars  PROVE  Alive'
<1> USE DEF GpuTypeOK, Setting, Alive
<1>1. ASSUME NEW c \in Call,
             Ask(c) \/ Acquire(c) \/ TimeOut(c) \/ Release(c) \/ ReleaseFails(c)
      PROVE  Alive'
  BY <1>1 DEF Ask, Acquire, TimeOut, Release, ReleaseFails
<1>2. ASSUME NEW p \in Pid, DisposeEmbedder(p) \/ Die(p) \/ Born(p)  PROVE  Alive'
  BY <1>2 DEF DisposeEmbedder, Die, Born
<1>3. CASE Age \/ UNCHANGED gpuVars
  BY <1>3 DEF Age, gpuVars
<1>4. QED  BY <1>1, <1>2, <1>3 DEF Next

(* Holding(p) after a call of it begins or ends to hold.                   *)
LEMMA HoldingGrows ==
  ASSUME Setting, GpuTypeOK, NEW c \in Call, stage[c] # "gpu",
         stage' = [stage EXCEPT ![c] = "gpu"]
  PROVE  /\ Holding(PidOf[c])' = Holding(PidOf[c]) \cup {c} /\ c \notin Holding(PidOf[c])
         /\ \A p \in Pid : p # PidOf[c] => Holding(p)' = Holding(p)
BY DEF Holding, Calls, GpuTypeOK, Setting

LEMMA HoldingShrinks ==
  ASSUME Setting, GpuTypeOK, NEW c \in Call, stage[c] = "gpu",
         stage' = [stage EXCEPT ![c] = "done"]
  PROVE  /\ Holding(PidOf[c])' = Holding(PidOf[c]) \ {c} /\ c \in Holding(PidOf[c])
         /\ \A p \in Pid : p # PidOf[c] => Holding(p)' = Holding(p)
BY DEF Holding, Calls, GpuTypeOK, Setting

LEMMA HoldingSame ==
  ASSUME Setting, GpuTypeOK, GpuTypeOK',
         \A c \in Call : stage[c] = "gpu" <=> stage'[c] = "gpu"
  PROVE  \A p \in Pid : Holding(p)' = Holding(p)
BY DEF Holding, Calls, GpuTypeOK, Setting

LEMMA RecordedStep ==
  ASSUME Setting, GpuInv, GpuTypeOK', [Next]_gpuVars, forfeited' = {}  PROVE  Recorded'
<1> USE DEF GpuInv
<1>1. forfeited = {}
  BY DEF Next, gpuVars, Ask, Acquire, TimeOut, Release, ReleaseFails, DisposeEmbedder, Die,
     Born, Age
<1>2. \A p \in Pid : Holding(p) # {} =>
        /\ gpuOwner # None /\ gpuOwner.pid = p /\ gpuOwner.start = birth[p]
        /\ gpuOwner.holds >= Cardinality(Holding(p))
  BY <1>1 DEF Recorded
<1>3. ASSUME NEW c \in Call, Acquire(c)  PROVE  Recorded'
  <2> DEFINE p == PidOf[c]
  <2>1. p \in Pid /\ birth' = birth
    BY <1>3 DEF Setting, Acquire
  <2>2. /\ Holding(p)' = Holding(p) \cup {c} /\ c \notin Holding(p)
        /\ \A q \in Pid : q # p => Holding(q)' = Holding(q)
    BY <1>3, HoldingGrows DEF Acquire
  <2>3. Cardinality(Holding(p) \cup {c}) = Cardinality(Holding(p)) + 1
    BY <2>1, <2>2, HoldingFinite, FS_AddElement
  <2>4. CASE gpuOwner # None /\ gpuOwner.pid = p /\ gpuOwner.start = birth[p]
    <3>1. gpuOwner' = Record(p, gpuOwner.holds + 1)
      BY <1>3, <2>4 DEF Acquire
    <3>2. \A q \in Pid : q # p => Holding(q) = {}
      BY <1>2, <2>4
    <3>3. gpuOwner.holds >= Cardinality(Holding(p))
      BY <1>2, <2>1, <2>4, HoldingFinite DEF GpuTypeOK, Owner
    <3>4. gpuOwner.holds \in Nat /\ Cardinality(Holding(p)) \in Nat
      BY <2>1, <2>4, HoldingFinite DEF GpuTypeOK, Owner
    <3>5. gpuOwner' = [pid |-> p, start |-> birth[p], holds |-> gpuOwner.holds + 1, old |-> FALSE]
      BY <3>1 DEF Record
    <3>6. gpuOwner' # None
      BY <3>1, <3>4, <2>1, RecordTyped
    <3>7. gpuOwner.holds + 1 >= Cardinality(Holding(p)')
      BY <2>2, <2>3, <3>3, <3>4
    <3>8. QED  BY <2>1, <2>2, <3>2, <3>5, <3>6, <3>7 DEF Recorded
  <2>5. CASE ~(gpuOwner # None /\ gpuOwner.pid = p /\ gpuOwner.start = birth[p])
    <3>1. gpuOwner' = Record(p, 1)
      BY <1>3, <2>5 DEF Acquire
    <3>2. \A q \in Pid : Holding(q) = {}
      BY <1>1, <1>2, <1>3, <2>5 DEF Acquire
    <3>3. Cardinality(Holding(p)') = 1
      BY <2>1, <2>2, <2>3, <3>2, FS_EmptySet
    <3>4. gpuOwner' = [pid |-> p, start |-> birth[p], holds |-> 1, old |-> FALSE]
      BY <3>1 DEF Record
    <3>5. gpuOwner' # None
      BY <3>1, <2>1, RecordTyped
    <3>6. QED  BY <2>1, <2>2, <3>2, <3>3, <3>4, <3>5 DEF Recorded
  <2>6. QED  BY <2>4, <2>5
<1>4. ASSUME NEW c \in Call, Release(c)  PROVE  Recorded'
  <2> DEFINE p == PidOf[c]
  <2>1. p \in Pid /\ birth' = birth /\ gpuOwner' = Decremented(p)
    BY <1>4 DEF Setting, Release
  <2>2. /\ Holding(p)' = Holding(p) \ {c} /\ c \in Holding(p)
        /\ \A q \in Pid : q # p => Holding(q)' = Holding(q)
    BY <1>4, HoldingShrinks DEF Release
  <2>3. /\ gpuOwner # None /\ gpuOwner.pid = p /\ gpuOwner.start = birth[p]
        /\ gpuOwner.holds >= Cardinality(Holding(p))
    BY <1>2, <2>1, <2>2
  <2>4. Cardinality(Holding(p) \ {c}) = Cardinality(Holding(p)) - 1
    BY <2>1, <2>2, HoldingFinite, FS_RemoveElement
  <2>5. \A q \in Pid : q # p => Holding(q)' = {}
    BY <1>2, <2>2, <2>3
  <2>6. gpuOwner.holds \in Nat /\ Cardinality(Holding(p)) \in Nat
    BY <2>1, <2>3, HoldingFinite DEF GpuTypeOK, Owner
  <2>7. CASE gpuOwner.holds <= 1
    <3>1. Cardinality(Holding(p) \ {c}) = 0
      <4>1. Cardinality(Holding(p)) # 0
        BY <2>1, <2>2, HoldingFinite
      <4>2. QED  BY <4>1, <2>3, <2>4, <2>6, <2>7
    <3>2. IsFiniteSet(Holding(p) \ {c})
      BY <2>1, HoldingFinite, FS_Subset
    <3>3. Holding(p)' = {}
      BY <2>2, <3>1, <3>2, FS_EmptySet
    <3>4. QED  BY <2>5, <3>3 DEF Recorded
  <2>8. CASE gpuOwner.holds > 1
    <3>1. gpuOwner' = [gpuOwner EXCEPT !.holds = @ - 1]
      BY <2>1, <2>3, <2>6, <2>8 DEF Decremented
    <3>2. /\ gpuOwner' # None /\ gpuOwner'.pid = p /\ gpuOwner'.start = birth[p]
          /\ gpuOwner'.holds = gpuOwner.holds - 1
      BY <2>3, <2>6, <2>8, <3>1 DEF GpuTypeOK, Setting, Owner
    <3>3. gpuOwner.holds - 1 >= Cardinality(Holding(p)')
      BY <2>2, <2>3, <2>4, <2>6
    <3>4. QED  BY <2>1, <2>5, <3>2, <3>3 DEF Recorded
  <2>9. QED  BY <2>6, <2>7, <2>8
<1>5. ASSUME NEW c \in Call, ReleaseFails(c)  PROVE  Recorded'
  <2>1. /\ Holding(PidOf[c])' = Holding(PidOf[c]) \ {c} /\ c \in Holding(PidOf[c])
        /\ \A q \in Pid : q # PidOf[c] => Holding(q)' = Holding(q)
    BY <1>5, HoldingShrinks DEF ReleaseFails
  <2>2. PidOf[c] \in Pid
    BY DEF Setting
  <2>3. Cardinality(Holding(PidOf[c])') = Cardinality(Holding(PidOf[c])) - 1
    BY <2>1, <2>2, HoldingFinite, FS_RemoveElement
  <2>4. gpuOwner.holds \in Nat /\ Cardinality(Holding(PidOf[c])) \in Nat
    BY <1>2, <2>1, <2>2, HoldingFinite DEF GpuTypeOK, Owner
  <2>5. gpuOwner.holds >= Cardinality(Holding(PidOf[c])')
    BY <1>2, <2>1, <2>2, <2>3, <2>4
  <2>6. gpuOwner' = gpuOwner /\ birth' = birth
    BY <1>5 DEF ReleaseFails
  <2>7. QED  BY <1>2, <2>1, <2>2, <2>5, <2>6 DEF Recorded
<1>6. ASSUME NEW p \in Pid, DisposeEmbedder(p)  PROVE  Recorded'
  <2>1. Holding(p) = {} /\ gpuOwner.pid = p
    BY <1>1, <1>6 DEF DisposeEmbedder
  <2>2. \A q \in Pid : Holding(q)' = Holding(q)
    BY <1>6, HoldingSame DEF DisposeEmbedder
  <2>3. QED  BY <1>2, <2>1, <2>2 DEF Recorded
<1>7. ASSUME NEW c \in Call, Ask(c) \/ TimeOut(c)  PROVE  Recorded'
  <2>1. \A d \in Call : stage[d] = "gpu" <=> stage'[d] = "gpu"
    BY <1>7 DEF Ask, TimeOut, GpuTypeOK
  <2>2. \A q \in Pid : Holding(q)' = Holding(q)
    BY <2>1, HoldingSame
  <2>3. gpuOwner' = gpuOwner /\ birth' = birth
    BY <1>7 DEF Ask, TimeOut
  <2>4. QED  BY <1>2, <2>2, <2>3 DEF Recorded
<1>8. ASSUME NEW p \in Pid, Die(p)  PROVE  Recorded'
  <2>1. Holding(p)' = {} /\ \A q \in Pid : q # p => Holding(q)' = Holding(q)
    BY <1>8 DEF Die, Holding, Calls, GpuTypeOK
  <2>2. gpuOwner' = gpuOwner /\ \A q \in Pid : q # p => birth'[q] = birth[q]
    BY <1>8 DEF Die, GpuTypeOK
  <2>3. QED  BY <1>2, <2>1, <2>2 DEF Recorded
<1>9. ASSUME NEW p \in Pid, Born(p)  PROVE  Recorded'
  <2>1. \A q \in Pid : Holding(q)' = Holding(q)
    BY <1>9, HoldingSame DEF Born
  <2>2. Holding(p) = {}
    BY <1>9 DEF Born, Alive, Holding, Calls
  <2>3. gpuOwner' = gpuOwner /\ \A q \in Pid : q # p => birth'[q] = birth[q]
    BY <1>9 DEF Born, GpuTypeOK
  <2>4. QED  BY <1>2, <2>1, <2>2, <2>3 DEF Recorded
<1>10. CASE Age
  <2>1. \A q \in Pid : Holding(q)' = Holding(q)
    BY <1>10, HoldingSame DEF Age
  <2>2. /\ gpuOwner' # None /\ gpuOwner'.pid = gpuOwner.pid
        /\ gpuOwner'.start = gpuOwner.start /\ gpuOwner'.holds = gpuOwner.holds
    BY <1>10 DEF Age, GpuTypeOK, Owner, Setting, Owner
  <2>3. birth' = birth
    BY <1>10 DEF Age
  <2>4. QED  BY <1>2, <2>1, <2>2, <2>3 DEF Recorded
<1>11. CASE UNCHANGED gpuVars
  <2>1. \A q \in Pid : Holding(q)' = Holding(q)
    BY <1>11, HoldingSame DEF gpuVars
  <2>2. QED  BY <1>2, <1>11, <2>1 DEF Recorded, gpuVars
<1>12. QED  BY <1>3, <1>4, <1>5, <1>6, <1>7, <1>8, <1>9, <1>10, <1>11 DEF Next

LEMMA GpuInvStep ==
  ASSUME Setting, GpuInv, [Next]_gpuVars  PROVE  GpuInv'
<1>1. GpuTypeOK' /\ Alive'
  BY GpuTyped, AliveStep DEF GpuInv
<1>2. Recorded'
  <2>1. CASE forfeited' = {}
    BY <1>1, <2>1, RecordedStep
  <2>2. CASE forfeited' # {}
    BY <2>2 DEF Recorded
  <2>3. QED  BY <2>1, <2>2
<1>3. QED  BY <1>1, <1>2 DEF GpuInv

(* The lock is exclusive, for any number of calls, processes and deaths,   *)
(* to the age limit and the extra release of a disposal.                   *)
THEOREM GpuExclusion == Spec => []GpuExclusive
<1> Setting
  BY Parameters
<1>1. Init => GpuInv
  BY DEF Init, GpuInv, GpuTypeOK, Alive, Recorded, Holding, Calls, Setting
<1>2. GpuInv /\ [Next]_gpuVars => GpuInv'
  BY GpuInvStep
<1>3. GpuInv => GpuExclusive
  BY DEF GpuInv, Recorded, GpuExclusive
<1>4. QED  BY <1>1, <1>2, <1>3, PTL DEF Spec

-----------------------------------------------------------------------------
(* The full-text index.                                                    *)

LEMMA FtsIdleTyped == Fts!Idle \in Fts!Pass /\ Fts!Idle.at = "idle"
BY DEF Fts!Idle, Fts!Pass

LEMMA FtsRowsTyped ==
  ASSUME Fts!FtsTypeOK
  PROVE  /\ Fts!version \in Nat /\ Fts!version >= 1
         /\ \A v \in 1 .. Fts!version : ftsDocs[v] \in SUBSET Nat /\ IsFiniteSet(ftsDocs[v])
         /\ Fts!rows \in SUBSET Nat /\ IsFiniteSet(Fts!rows)
<1>1. Fts!version \in Nat /\ Fts!version >= 1 /\ Fts!version \in 1 .. Fts!version
  BY FtsCounting DEF Fts!FtsTypeOK, Fts!version
<1>2. \A v \in 1 .. Fts!version : ftsDocs[v] \in SUBSET Nat
  BY FtsCounting DEF Fts!FtsTypeOK, Fts!version
<1>3. QED  BY FtsCounting, <1>1, <1>2 DEF Fts!FtsTypeOK, Fts!rows

(* A commit adds a version and leaves the others as they are.              *)
LEMMA FtsAppended ==
  ASSUME Fts!FtsTypeOK, NEW ds \in SUBSET Nat, IsFiniteSet(ds),
         ftsDocs' = Append(ftsDocs, ds)
  PROVE  /\ ftsDocs' \in Seq(SUBSET Nat) /\ Fts!version' = Fts!version + 1 /\ Fts!rows' = ds
         /\ \A v \in 1 .. Fts!version : ftsDocs'[v] = ftsDocs[v]
         /\ \A v \in 1 .. Fts!version' : IsFiniteSet(ftsDocs'[v])
<1>1. ftsDocs' \in Seq(SUBSET Nat) /\ Fts!version' = Fts!version + 1 /\ Fts!version \in Nat
  BY FtsCounting DEF Fts!FtsTypeOK, Fts!version
<1>2. \A v \in 1 .. Fts!version : ftsDocs'[v] = ftsDocs[v]
  BY FtsCounting DEF Fts!FtsTypeOK, Fts!version
<1>3. ftsDocs'[Fts!version + 1] = ds
  BY FtsCounting DEF Fts!FtsTypeOK, Fts!version
<1>4. Fts!rows' = ds
  BY <1>1, <1>3 DEF Fts!rows, Fts!version
<1>5. \A v \in 1 .. Fts!version' : IsFiniteSet(ftsDocs'[v])
  <2>1. ASSUME NEW v \in 1 .. Fts!version'  PROVE  IsFiniteSet(ftsDocs'[v])
    <3>1. v \in 1 .. Fts!version \/ v = Fts!version + 1
      BY <1>1
    <3>2. CASE v \in 1 .. Fts!version
      <4>1. ftsDocs'[v] = ftsDocs[v] /\ IsFiniteSet(ftsDocs[v])
        BY FtsCounting, <1>2, <3>2 DEF Fts!FtsTypeOK
      <4>2. QED  BY <4>1
    <3>3. CASE v = Fts!version + 1
      BY <1>3, <3>3
    <3>4. QED  BY <3>1, <3>2, <3>3
  <2>2. QED  BY <2>1
<1>6. QED  BY <1>1, <1>2, <1>4, <1>5

(* A step of one pass, while all others are idle.                          *)
LEMMA FtsStepped ==
  ASSUME Fts!FtsTypeOK, Fts!OnePass, NEW p \in Maintainer, ftsPass[p].at # "idle",
         NEW new \in Fts!Pass, Fts!Step(p, new)
  PROVE  /\ ftsPass' \in [Maintainer -> Fts!Pass] /\ ftsPass'[p] = new
         /\ \A q \in Maintainer : q # p => ftsPass'[q] = ftsPass[q] /\ ftsPass[q].at = "idle"
         /\ Fts!OnePass'
BY FtsCounting DEF Fts!FtsTypeOK, Fts!OnePass, Fts!Step, Fts!Pass

-----------------------------------------------------------------------------
LEMMA FtsBeginStep ==
  ASSUME Fts!FtsInv, NEW p \in Maintainer, NEW job \in {"rebuild", "optimize"},
         Fts!Begin(p, job)
  PROVE  Fts!FtsInv'
<1> USE DEF Fts!FtsInv
<1>1. /\ ftsDocs' = ftsDocs /\ ftsInText' = ftsInText /\ ftsInContent' = ftsInContent
            /\ ftsBaseline' = ftsBaseline
      /\ ftsWritten' = ftsWritten /\ ftsSwapped' = ftsSwapped /\ Fts!version' = Fts!version
            /\ Fts!rows' = Fts!rows
  BY DEF Fts!Begin, Fts!version, Fts!rows
<1>2. \A q \in Maintainer : ftsPass[q].at = "idle"
  BY DEF Fts!Begin, Fts!Free
<1>3. PICK v \in 1 .. Fts!version, cached \in BOOLEAN :
        Fts!Step(p, Fts!Opened(job, v, cached)) /\ (~cached => v = Fts!version)
  <2>1. CASE Fts!Step(p, Fts!Opened(job, Fts!version, FALSE))
    <3>1. Fts!version \in 1 .. Fts!version /\ FALSE \in BOOLEAN
      BY FtsRowsTyped
    <3>2. QED  BY <2>1, <3>1
  <2>2. ASSUME NEW v \in 1 .. Fts!version, Fts!Step(p, Fts!Opened(job, v, TRUE))
        PROVE  \E w \in 1 .. Fts!version, cached \in BOOLEAN :
                 Fts!Step(p, Fts!Opened(job, w, cached)) /\ (~cached => w = Fts!version)
    BY <2>2
  <2>3. QED  BY <2>1, <2>2 DEF Fts!Begin
<1> DEFINE new == [at |-> job, seen |-> v, docs |-> ftsDocs[v], from |-> 0, count |-> 0,
                   stale |-> cached]
<1>4. new \in Fts!Pass /\ ftsPass' = [ftsPass EXCEPT ![p] = new]
  BY <1>3, FtsRowsTyped DEF Fts!Opened, Fts!Step, Fts!Pass
<1>5. /\ ftsPass' \in [Maintainer -> Fts!Pass] /\ ftsPass'[p] = new
      /\ \A q \in Maintainer : q # p => ftsPass'[q].at = "idle"
  BY FtsCounting, <1>2, <1>4 DEF Fts!FtsTypeOK, Fts!Pass
<1> HIDE DEF new
<1>6. /\ new.at = job /\ new.seen = v /\ new.docs = ftsDocs[v] /\ new.from = 0
      /\ new.stale = cached
  BY DEF new
<1>7. ~cached => ftsDocs[v] = Fts!rows
  BY <1>3 DEF Fts!rows
<1>8. Fts!FtsTypeOK'
  BY FtsCounting, <1>1, <1>5 DEF Fts!FtsTypeOK, Fts!Pass
<1>9. Fts!OnePass' /\ Fts!InHand' /\ Fts!Rebuilt'
  BY <1>1, <1>5, <1>6 DEF Fts!OnePass, Fts!InHand, Fts!Rebuilt
<1>10. Fts!Vouched'
  BY <1>1, <1>3, <1>5, <1>6, <1>7 DEF Fts!Vouched, Fts!Covered
<1>11. Fts!Window'
  BY FtsCounting, <1>1, <1>5, <1>6, <1>7 DEF Fts!Window
<1>12. QED  BY <1>8, <1>9, <1>10, <1>11

(* Steps that commit nothing and touch no baseline.                        *)
LEMMA FtsCheckStep ==
  ASSUME Fts!FtsInv, NEW p \in Maintainer, Fts!CheckVersion(p) \/ Fts!Sample(p)
     PROVE  Fts!FtsInv'
<1> USE DEF Fts!FtsInv
<1>1. /\ ftsDocs' = ftsDocs /\ ftsInText' = ftsInText /\ ftsInContent' = ftsInContent
            /\ ftsBaseline' = ftsBaseline
      /\ ftsWritten' = ftsWritten /\ ftsSwapped' = ftsSwapped /\ Fts!version' = Fts!version
            /\ Fts!rows' = Fts!rows
  BY FtsCounting DEF Fts!CheckVersion, Fts!Sample, Fts!version, Fts!rows
<1>2. ftsPass[p].at \in {"rebuild", "optimize"} /\ ftsPass[p] \in Fts!Pass
  BY FtsCounting DEF Fts!CheckVersion, Fts!Sample, Fts!FtsTypeOK, Fts!Pass
<1>3. ftsPass[p].seen \in 1 .. Fts!version /\ ftsPass[p].docs = ftsDocs[ftsPass[p].seen]
  BY <1>2 DEF Fts!InHand
<1>4. IsFiniteSet(ftsPass[p].docs) /\ Cardinality(ftsPass[p].docs) \in Nat
  BY FtsCounting, <1>3, FS_CardinalityType DEF Fts!FtsTypeOK
<1>5. PICK new \in Fts!Pass :
        /\ Fts!Step(p, new)
        /\ \/ new.at = "idle"
           \/ /\ new.at = "text" /\ new.seen = ftsPass[p].seen /\ new.docs = ftsPass[p].docs
              /\ new.from = ftsPass[p].seen
           \/ /\ new.at = "compact" /\ new.seen = ftsPass[p].seen /\ new.docs = ftsPass[p].docs
              /\ new.count = Cardinality(ftsPass[p].docs) /\ ftsPass[p].at = "optimize"
              /\ new.from # 0 => ~ftsPass[p].stale /\ ftsBaseline[p] = ftsPass[p].seen
  <2>1. CASE Fts!CheckVersion(p)
    <3> DEFINE new == Fts!Marked(p, "text", ftsPass[p].seen, 0)
    <3>1. new \in Fts!Pass /\ new.at = "text" /\ new.seen = ftsPass[p].seen
             /\ new.docs = ftsPass[p].docs
          /\ new.from = ftsPass[p].seen
      BY <1>2 DEF Fts!Marked, Fts!Pass
    <3>2. Fts!Step(p, new) \/ Fts!Step(p, Fts!Idle)
      BY <2>1 DEF Fts!CheckVersion, Fts!End
    <3>3. QED  BY <3>1, <3>2, FtsIdleTyped
  <2>2. CASE Fts!Sample(p)
    <3> DEFINE from == IF ~ftsPass[p].stale /\ ftsBaseline[p] # 0
           /\ ftsBaseline[p] = ftsPass[p].seen
                       THEN ftsPass[p].seen ELSE 0
               new == Fts!Marked(p, "compact", from, Cardinality(ftsPass[p].docs))
    <3>1. new \in Fts!Pass /\ new.at = "compact" /\ new.seen = ftsPass[p].seen
             /\ new.docs = ftsPass[p].docs
          /\ new.from = from /\ new.count = Cardinality(ftsPass[p].docs)
      BY <1>2, <1>4 DEF Fts!Marked, Fts!Pass
    <3>2. Fts!Step(p, new) /\ ftsPass[p].at = "optimize"
      BY FtsCounting, <2>2 DEF Fts!Sample
    <3>3. QED  BY <3>1, <3>2
  <2>3. QED  BY <2>1, <2>2
<1>6. /\ ftsPass' \in [Maintainer -> Fts!Pass] /\ ftsPass'[p] = new
      /\ \A q \in Maintainer : q # p => ftsPass'[q] = ftsPass[q] /\ ftsPass[q].at = "idle"
      /\ Fts!OnePass'
  BY <1>2, <1>5, FtsStepped
<1>7. Fts!FtsTypeOK'
  BY FtsCounting, <1>1, <1>6 DEF Fts!FtsTypeOK, Fts!Pass
<1>8. Fts!InHand' /\ Fts!Rebuilt'
  BY <1>1, <1>3, <1>5, <1>6 DEF Fts!InHand, Fts!Rebuilt
<1>9. Fts!Vouched'
  BY <1>1, <1>5, <1>6 DEF Fts!Vouched, Fts!Covered
<1>10. Fts!Window'
  BY FtsCounting, <1>1, <1>5, <1>6 DEF Fts!Window, Fts!Vouched, Fts!Covered
<1>11. QED  BY <1>6, <1>7, <1>8, <1>9, <1>10

(* Giving up after a failure.                                              *)
LEMMA FtsEndStep ==
  ASSUME Fts!FtsInv, NEW p \in Maintainer, ftsPass[p].at # "idle", Fts!End(p),
         ftsDocs' = ftsDocs, ftsInText' = ftsInText, ftsInContent' = ftsInContent,
            ftsWritten' = ftsWritten,
         ftsSwapped' = ftsSwapped, ftsBaseline' \in [Maintainer -> Nat],
         \A q \in Maintainer : ftsBaseline'[q] <= Fts!version
            /\ (ftsBaseline'[q] = Fts!version => Fts!Covered(Fts!rows))
  PROVE  Fts!FtsInv'
<1> USE DEF Fts!FtsInv
<1>1. Fts!version' = Fts!version /\ Fts!rows' = Fts!rows
  BY DEF Fts!version, Fts!rows
<1>2. /\ ftsPass' \in [Maintainer -> Fts!Pass] /\ ftsPass'[p].at = "idle"
      /\ \A q \in Maintainer : q # p => ftsPass'[q].at = "idle"
      /\ Fts!OnePass'
  BY FtsIdleTyped, FtsStepped DEF Fts!End
<1>3. Fts!FtsTypeOK'
  BY FtsCounting, <1>1, <1>2 DEF Fts!FtsTypeOK, Fts!Pass
<1>4. Fts!InHand' /\ Fts!Rebuilt' /\ Fts!Window' /\ Fts!Vouched'
  BY FtsCounting, <1>1, <1>2 DEF Fts!InHand, Fts!Rebuilt, Fts!Window, Fts!Vouched, Fts!Covered
<1>5. QED  BY <1>2, <1>3, <1>4

(* Building an index commits: no baseline names the new version.           *)
LEMMA FtsIndexStep ==
  ASSUME Fts!FtsInv, NEW p \in Maintainer,
         Fts!IndexText(p) \/ Fts!IndexContent(p) \/ Fts!Compact(p)
  PROVE  Fts!FtsInv'
<1> USE DEF Fts!FtsInv
<1>1. ftsBaseline' = ftsBaseline /\ ftsWritten' = ftsWritten /\ ftsSwapped' = ftsSwapped
  BY FtsCounting DEF Fts!IndexText, Fts!IndexContent, Fts!Compact
<1>2. ftsPass[p].at \in {"text", "content", "compact"} /\ ftsPass[p] \in Fts!Pass
  BY FtsCounting DEF Fts!IndexText, Fts!IndexContent, Fts!Compact, Fts!FtsTypeOK, Fts!Pass
<1>3. CASE Fts!End(p) /\ UNCHANGED <<ftsDocs, ftsInText, ftsInContent>>
  BY FtsCounting, <1>1, <1>2, <1>3, FtsEndStep DEF Fts!Vouched, Fts!FtsTypeOK
<1>4. ASSUME NEW pc \in {"content", "record", "stamp"}, Fts!Committed(p, pc),
             pc = "content" => Fts!IndexText(p) /\ ftsInText' = ftsPass[p].docs
                /\ ftsInContent' = ftsInContent,
             pc = "record" => Fts!IndexContent(p) /\ ftsInText' = ftsInText
                /\ ftsInContent' = ftsPass[p].docs,
             pc = "stamp" => Fts!Compact(p) /\ ftsInText' = ftsInText
                /\ ftsInContent' = ftsInContent
      PROVE  Fts!FtsInv'
  <2> DEFINE new == Fts!Rebased(p, pc)
  <2>1. /\ ftsDocs' \in Seq(SUBSET Nat) /\ Fts!version' = Fts!version + 1 /\ Fts!rows' = Fts!rows
        /\ \A v \in 1 .. Fts!version : ftsDocs'[v] = ftsDocs[v]
        /\ \A v \in 1 .. Fts!version' : IsFiniteSet(ftsDocs'[v])
    BY <1>4, FtsRowsTyped, FtsAppended DEF Fts!Committed
  <2>2. /\ new \in Fts!Pass /\ new.at = pc /\ new.seen = Fts!version + 1 /\ new.docs = Fts!rows
        /\ new.from = ftsPass[p].from /\ new.count = ftsPass[p].count
    BY <1>2, FtsRowsTyped DEF Fts!Rebased, Fts!Pass
  <2> HIDE DEF new
  <2>3. /\ ftsPass' \in [Maintainer -> Fts!Pass] /\ ftsPass'[p] = new
        /\ \A q \in Maintainer : q # p => ftsPass'[q] = ftsPass[q] /\ ftsPass[q].at = "idle"
        /\ Fts!OnePass'
    BY <1>2, <1>4, <2>2, FtsStepped DEF Fts!Committed, new
  <2>4. Fts!FtsTypeOK'
    BY FtsCounting, <1>1, <2>1, <2>3, FtsRowsTyped DEF Fts!FtsTypeOK, Fts!Pass
  <2>5. ftsPass[p].seen \in 1 .. Fts!version /\ ftsPass[p].docs = ftsDocs[ftsPass[p].seen]
    BY <1>2 DEF Fts!InHand
  <2>6. ftsDocs'[Fts!version + 1] = Fts!rows
    BY <2>1 DEF Fts!rows, Fts!version
  <2>7. Fts!InHand'
    BY <2>1, <2>2, <2>3, <2>6, FtsRowsTyped DEF Fts!InHand
  <2>8. Fts!Vouched'
    <3>1. \A q \in Maintainer : ftsBaseline'[q] <= Fts!version' /\ ftsBaseline'[q] # Fts!version'
      BY FtsCounting, <1>1, <2>1, FtsRowsTyped DEF Fts!Vouched, Fts!FtsTypeOK
    <3>2. \A q \in Maintainer : ftsPass'[q].at \notin {"rebuild", "optimize"}
      BY <2>2, <2>3
    <3>3. QED  BY <3>1, <3>2 DEF Fts!Vouched
  <2>9. Fts!Rebuilt'
    <3>1. CASE pc = "content"
      <4>1. ftsPass[p].at = "text" /\ ftsPass[p].from = ftsPass[p].seen
        BY <1>4, <3>1 DEF Fts!IndexText, Fts!Rebuilt
      <4>2. Fts!version + 1 >= ftsPass[p].from + 1
               /\ (Fts!version + 1 = ftsPass[p].from + 1 => Fts!rows = ftsPass[p].docs)
        BY <2>5, <4>1, FtsRowsTyped DEF Fts!rows
      <4>3. QED  BY <1>4, <2>2, <2>3, <3>1, <4>2 DEF Fts!Rebuilt
    <3>2. CASE pc = "record"
      <4>1. /\ ftsPass[p].at = "content" /\ ftsPass[p].seen >= ftsPass[p].from + 1
            /\ ftsPass[p].seen = ftsPass[p].from + 1 => ftsInText = ftsPass[p].docs
        BY <1>4, <3>2 DEF Fts!IndexContent, Fts!Rebuilt
      <4>2. /\ Fts!version + 1 >= ftsPass[p].from + 2
            /\ Fts!version + 1 = ftsPass[p].from + 2 => Fts!rows = ftsPass[p].docs
                  /\ ftsInText = ftsPass[p].docs
        BY <1>2, <2>5, <4>1, FtsRowsTyped DEF Fts!rows, Fts!Pass
      <4>3. QED  BY <1>4, <2>2, <2>3, <3>2, <4>2 DEF Fts!Rebuilt
    <3>3. CASE pc = "stamp"
      BY <2>2, <2>3, <3>3 DEF Fts!Rebuilt
    <3>4. QED  BY <3>1, <3>2, <3>3
  <2>10. Fts!Window'
    <3>1. CASE pc \in {"content", "record"}
      BY FtsCounting, <2>2, <2>3, <3>1 DEF Fts!Window
    <3>2. CASE pc = "stamp"
      <4>1. ftsPass[p].at = "compact" /\ ftsInText' = ftsInText /\ ftsInContent' = ftsInContent
        BY FtsCounting, <1>4, <3>2 DEF Fts!Compact
      <4>2. ASSUME ftsPass[p].from # 0, ftsPass[p].count = Cardinality(Fts!rows),
                   ~ftsSwapped
            PROVE  Fts!rows \subseteq ftsInText \cap ftsInContent
        <5>1. /\ ftsPass[p].docs \subseteq Fts!rows
                    /\ ftsPass[p].count = Cardinality(ftsPass[p].docs)
              /\ ftsPass[p].docs \subseteq ftsInText \cap ftsInContent
          BY FtsCounting, <4>1, <4>2 DEF Fts!Window, Fts!Covered
        <5>2. ftsPass[p].docs = Fts!rows
          BY FtsCounting, <4>2, <5>1, FtsRowsTyped, FS_Subset
        <5>3. QED  BY <5>1, <5>2
      <4>3. QED  BY FtsCounting, <1>1, <2>2, <2>3, <3>2, <4>1, <4>2 DEF Fts!Window, Fts!Covered
    <3>3. QED  BY <3>1, <3>2
  <2>11. QED  BY <2>3, <2>4, <2>7, <2>8, <2>9, <2>10
<1>5. QED  BY FtsCounting, <1>3, <1>4 DEF Fts!IndexText, Fts!IndexContent, Fts!Compact

(* The baseline is moved.                                                  *)
LEMMA FtsRecordStep ==
  ASSUME Fts!FtsInv, NEW p \in Maintainer, Fts!Record(p) \/ Fts!Stamp(p)  PROVE  Fts!FtsInv'
<1> USE DEF Fts!FtsInv
<1>1. /\ ftsDocs' = ftsDocs /\ ftsInText' = ftsInText /\ ftsInContent' = ftsInContent
            /\ ftsWritten' = ftsWritten
      /\ ftsSwapped' = ftsSwapped /\ Fts!End(p) /\ ftsPass[p].at \in {"record", "stamp"}
            /\ ftsPass[p] \in Fts!Pass
  BY FtsCounting DEF Fts!Record, Fts!Stamp, Fts!FtsTypeOK, Fts!Pass
<1>2. ftsPass[p].seen \in 1 .. Fts!version /\ ftsPass[p].docs = ftsDocs[ftsPass[p].seen]
  BY <1>1 DEF Fts!InHand
<1>3. \E n \in Nat : /\ ftsBaseline' = [ftsBaseline EXCEPT ![p] = n]
                     /\ n <= Fts!version /\ (n = Fts!version => Fts!Covered(Fts!rows))
  <2>1. CASE Fts!Record(p)
    <3> DEFINE n == IF ftsPass[p].seen <= ftsPass[p].from + 2 THEN ftsPass[p].seen
           ELSE ftsPass[p].from
    <3>1. /\ ftsPass[p].at = "record" /\ ftsBaseline' = [ftsBaseline EXCEPT ![p] = n]
      BY <2>1 DEF Fts!Record
    <3>2. /\ ftsPass[p].seen >= ftsPass[p].from + 2
          /\ ftsPass[p].seen = ftsPass[p].from + 2 => ftsInText = ftsPass[p].docs
                /\ ftsInContent = ftsPass[p].docs
      BY <3>1 DEF Fts!Rebuilt
    <3>3. n \in Nat /\ n <= Fts!version
      BY <1>1, <1>2, <3>2, FtsRowsTyped DEF Fts!Pass
    <3>4. n = Fts!version => Fts!Covered(Fts!rows)
      BY <1>1, <1>2, <3>2, FtsRowsTyped DEF Fts!Pass, Fts!Covered, Fts!rows
    <3>5. QED  BY <3>1, <3>3, <3>4
  <2>2. CASE Fts!Stamp(p)
    <3>1. CASE ftsPass[p].from # 0 /\ Cardinality(ftsPass[p].docs) = ftsPass[p].count
      <4>1. ftsBaseline' = [ftsBaseline EXCEPT ![p] = ftsPass[p].seen] /\ ftsPass[p].at = "stamp"
        BY FtsCounting, <2>2, <3>1 DEF Fts!Stamp
      <4>2. Fts!Covered(ftsPass[p].docs)
        BY FtsCounting, <3>1, <4>1 DEF Fts!Window
      <4>3. ftsPass[p].seen = Fts!version => Fts!Covered(Fts!rows)
        BY <1>2, <4>2 DEF Fts!rows, Fts!Covered
      <4>4. ftsPass[p].seen \in Nat /\ ftsPass[p].seen <= Fts!version
        BY <1>2, FtsRowsTyped
      <4>5. QED  BY <4>1, <4>3, <4>4
    <3>2. CASE ~(ftsPass[p].from # 0 /\ Cardinality(ftsPass[p].docs) = ftsPass[p].count)
      <4>1. ftsBaseline' = [ftsBaseline EXCEPT ![p] = ftsBaseline[p]]
        BY FtsCounting, <2>2, <3>2 DEF Fts!Stamp
      <4>2. QED  BY FtsCounting, <4>1 DEF Fts!Vouched, Fts!FtsTypeOK
    <3>3. QED  BY <3>1, <3>2
  <2>3. QED  BY <1>1, <2>1, <2>2
<1>4. /\ ftsBaseline' \in [Maintainer -> Nat]
      /\ \A q \in Maintainer : ftsBaseline'[q] <= Fts!version
            /\ (ftsBaseline'[q] = Fts!version => Fts!Covered(Fts!rows))
  BY FtsCounting, <1>3 DEF Fts!Vouched, Fts!FtsTypeOK
<1>5. QED  BY <1>1, <1>4, FtsEndStep

(* Documents come and go without the lock.                                 *)
LEMMA FtsDocStep ==
  ASSUME Fts!FtsInv, Fts!AddDoc \/ Fts!DeleteDoc  PROVE  Fts!FtsInv'
<1> USE DEF Fts!FtsInv
<1>1. /\ ftsInText' = ftsInText /\ ftsInContent' = ftsInContent /\ ftsBaseline' = ftsBaseline
            /\ ftsPass' = ftsPass
      /\ ftsWritten' \in Nat /\ (ftsSwapped => ftsSwapped')
  <2>1. CASE Fts!AddDoc
    BY FtsCounting, <2>1 DEF Fts!AddDoc, Fts!FtsTypeOK
  <2>2. CASE Fts!DeleteDoc
    <3>1. /\ ftsInText' = ftsInText /\ ftsInContent' = ftsInContent /\ ftsBaseline' = ftsBaseline
                /\ ftsPass' = ftsPass
          /\ ftsWritten' = ftsWritten
      BY <2>2 DEF Fts!DeleteDoc
    <3>2. ftsSwapped => ftsSwapped'
      BY <2>2, Zenon DEF Fts!DeleteDoc
    <3>3. QED  BY FtsCounting, <3>1, <3>2 DEF Fts!FtsTypeOK
  <2>3. QED  BY <2>1, <2>2
<1>2. PICK ds \in SUBSET Nat :
        /\ IsFiniteSet(ds) /\ ftsDocs' = Append(ftsDocs, ds)
        /\ Fts!rows \subseteq ds
           \/ (ftsSwapped' = (ftsSwapped
                 \/ \E p \in Maintainer : ftsPass[p].at \in {"optimize", "compact"}))
  <2>1. CASE Fts!AddDoc
    <3>1. IsFiniteSet(Fts!rows \cup {ftsWritten + 1})
      BY FtsCounting, FtsRowsTyped, FS_AddElement
    <3>2. ftsWritten + 1 \in Nat
      BY FtsCounting DEF Fts!FtsTypeOK
    <3>3. Fts!rows \cup {ftsWritten + 1} \in SUBSET Nat
      BY <3>2, FtsRowsTyped
    <3>4. QED  BY <2>1, <3>1, <3>3 DEF Fts!AddDoc
  <2>2. CASE Fts!DeleteDoc
    <3>1. PICK d \in Fts!rows : ftsDocs' = Append(ftsDocs, Fts!rows \ {d})
      BY <2>2 DEF Fts!DeleteDoc
    <3>2. IsFiniteSet(Fts!rows \ {d}) /\ Fts!rows \ {d} \in SUBSET Nat
      BY FtsCounting, FtsRowsTyped, FS_Subset
    <3>3. QED  BY <2>2, <3>1, <3>2 DEF Fts!DeleteDoc
  <2>3. QED  BY <2>1, <2>2
<1>3. /\ ftsDocs' \in Seq(SUBSET Nat) /\ Fts!version' = Fts!version + 1 /\ Fts!rows' = ds
      /\ \A v \in 1 .. Fts!version : ftsDocs'[v] = ftsDocs[v]
      /\ \A v \in 1 .. Fts!version' : IsFiniteSet(ftsDocs'[v])
  BY <1>2, FtsAppended
<1>4. Fts!FtsTypeOK'
  <2>1. Fts!version' >= 1
    BY <1>3, FtsRowsTyped
  <2>2. ftsBaseline' \in [Maintainer -> Nat] /\ ftsPass' \in [Maintainer -> Fts!Pass]
    BY FtsCounting, <1>1 DEF Fts!FtsTypeOK
  <2>3. QED  BY FtsCounting, <1>1, <1>3, <2>1, <2>2 DEF Fts!FtsTypeOK
<1>5. Fts!OnePass' /\ Fts!Rebuilt'
  BY <1>1 DEF Fts!OnePass, Fts!Rebuilt
<1>6. Fts!InHand'
  BY <1>1, <1>3, FtsRowsTyped DEF Fts!InHand
<1>7. Fts!Vouched'
  <2>1. \A p \in Maintainer : ftsBaseline'[p] <= Fts!version' /\ ftsBaseline'[p] # Fts!version'
    <3>1. Fts!version \in Nat /\ ftsBaseline \in [Maintainer -> Nat]
      BY FtsCounting, FtsRowsTyped DEF Fts!FtsTypeOK
    <3>2. QED  BY <1>1, <1>3, <3>1 DEF Fts!Vouched
  <2>2. \A p \in Maintainer : Fts!Covered(ftsPass[p].docs) => Fts!Covered(ftsPass[p].docs)'
    BY <1>1 DEF Fts!Covered
  <2>3. QED  BY <1>1, <2>1, <2>2 DEF Fts!Vouched
<1>8. Fts!Window'
  BY FtsCounting, <1>1, <1>2, <1>3 DEF Fts!Window, Fts!Covered
<1>9. QED  BY <1>4, <1>5, <1>6, <1>7, <1>8

LEMMA FtsInvStep ==
  ASSUME Fts!FtsInv, [Fts!Next]_Fts!ftsVars  PROVE  Fts!FtsInv'
<1>1. CASE UNCHANGED Fts!ftsVars
  BY FtsCounting, <1>1
     DEF Fts!FtsInv, Fts!FtsTypeOK, Fts!OnePass, Fts!InHand, Fts!Vouched, Fts!Rebuilt,
         Fts!Window, Fts!Covered, Fts!ftsVars,
              Fts!version, Fts!rows
<1>2. QED  BY <1>1, FtsBeginStep, FtsCheckStep, FtsIndexStep, FtsRecordStep, FtsDocStep
   DEF Fts!Next, Fts!Maintain

LEMMA FtsInvInit ==
  ASSUME Fts!Init  PROVE  Fts!FtsInv
<1>1. Fts!version = 1 /\ Fts!rows = {1} /\ ftsDocs \in Seq(SUBSET Nat) /\ ftsDocs[1] = {1}
  BY DEF Fts!Init, Fts!version, Fts!rows
<1>2. IsFiniteSet({1})
  BY FtsCounting, FS_Singleton
<1>3. Fts!FtsTypeOK
  BY FtsCounting, <1>1, <1>2, FtsIdleTyped DEF Fts!Init, Fts!FtsTypeOK, Fts!Pass
<1>4. \A p \in Maintainer : ftsPass[p].at = "idle" /\ ftsBaseline[p] = 0
  BY FtsIdleTyped DEF Fts!Init
<1>5. QED  BY FtsCounting, <1>1, <1>3, <1>4
   DEF Fts!FtsInv, Fts!OnePass, Fts!InHand, Fts!Vouched, Fts!Rebuilt, Fts!Window

(* A rebuild that is skipped is skipped rightly, save for the swap that    *)
(* the row count cannot see.                                               *)
THEOREM SkippedRightly == Fts!Spec => SkipOnlyWhenCovered
<1>1. ASSUME Fts!FtsInv, [Fts!Next]_Fts!ftsVars
      PROVE  \A p \in Maintainer :
               /\ ftsPass[p].at = "rebuild" /\ ftsPass'[p].at = "idle"
               => ftsPass[p].docs \subseteq ftsInText \cap ftsInContent \/ ftsSwapped
  <2> SUFFICES ASSUME NEW p \in Maintainer, ftsPass[p].at = "rebuild",
     ftsPass'[p].at = "idle"
               PROVE  ftsPass[p].docs \subseteq ftsInText \cap ftsInContent \/ ftsSwapped
    OBVIOUS
  <2>1. Fts!CheckVersion(p)
    <3>1. ASSUME NEW q \in Maintainer, q # p, NEW new, Fts!Step(q, new)  PROVE  FALSE
      BY FtsCounting, <1>1, <3>1 DEF Fts!Step, Fts!FtsInv, Fts!FtsTypeOK
    <3>2. ~UNCHANGED ftsPass
      OBVIOUS
    <3>3. \A q \in Maintainer, job \in {"rebuild", "optimize"} : ~Fts!Begin(q, job)
      BY <1>1 DEF Fts!Begin, Fts!Free
    <3>4. \A q \in Maintainer : Fts!Maintain(q) => q = p
      BY FtsCounting, <3>1, <3>2
         DEF Fts!Maintain, Fts!CheckVersion, Fts!IndexText, Fts!IndexContent, Fts!Record,
             Fts!Sample, Fts!Compact,
                        Fts!Stamp, Fts!End, Fts!Committed
    <3>5. Fts!Maintain(p) => Fts!CheckVersion(p)
      BY FtsCounting DEF Fts!Maintain, Fts!CheckVersion, Fts!IndexText, Fts!IndexContent, Fts!Record,
         Fts!Sample, Fts!Compact, Fts!Stamp
    <3>6. QED  BY <1>1, <3>2, <3>3, <3>4, <3>5
       DEF Fts!Next, Fts!AddDoc, Fts!DeleteDoc, Fts!ftsVars
  <2>2. CASE ftsPass[p].docs = {}
    BY <2>2
  <2>3. CASE ~ftsPass[p].stale /\ ftsBaseline[p] = ftsPass[p].seen
    BY <1>1, <2>3 DEF Fts!FtsInv, Fts!Vouched, Fts!Covered
  <2>4. CASE ~(ftsPass[p].docs = {} \/ (~ftsPass[p].stale /\ ftsBaseline[p] = ftsPass[p].seen))
    <3>1. ftsPass'[p] = Fts!Marked(p, "text", ftsPass[p].seen, 0)
      BY FtsCounting, <1>1, <2>1, <2>4 DEF Fts!CheckVersion, Fts!Step, Fts!FtsInv, Fts!FtsTypeOK
    <3>2. QED  BY <3>1 DEF Fts!Marked
  <2>5. QED  BY <2>2, <2>3, <2>4
<1>2. Fts!Init => Fts!FtsInv
  BY FtsInvInit
<1>3. Fts!FtsInv /\ [Fts!Next]_Fts!ftsVars => Fts!FtsInv'
  BY FtsInvStep
<1>4. QED  BY <1>1, <1>2, <1>3, PTL DEF Fts!Spec, SkipOnlyWhenCovered, Fts!SkipOnlyWhenCovered

-----------------------------------------------------------------------------
(* A round of researchers.                                                 *)

LEMMA RunMoreFailures ==
  ASSUME Run!RoundTyped, runFailed' \subseteq Run!Researcher, runFailed \subseteq runFailed'
  PROVE  Run!Stop => Run!Stop'
<1>1. IsFiniteSet(runFailed') /\ IsFiniteSet(runFailed)
  BY RunCounting, RoundSettingHolds, FS_Subset DEF Run!RoundSetting, Run!RoundTyped
<1>2. Cardinality(runFailed) =< Cardinality(runFailed') BY RunCounting, <1>1, FS_Subset
<1>3. Cardinality(runFailed) \in Nat /\ Cardinality(runFailed') \in Nat
  BY RunCounting, <1>1, FS_CardinalityType
<1> QED BY RunCounting, <1>2, <1>3, RoundSettingHolds DEF Run!Stop, Run!RoundSetting

LEMMA RunMoveKeeps ==
  ASSUME NEW r \in Run!Researcher, Run!QuietInv,
         Run!Moves(r, Run!Stage \ {"prompting", "planned"}),
         runStage[r] \notin {"planned", "gone"},
         Run!LauncherIdle,
         runRegistered \ {r} \subseteq runRegistered',
            runRegistered' \subseteq runRegistered \cup {r},
         runAborted \ {r} \subseteq runAborted',
         runFailed' \subseteq Run!Researcher, runFailed \subseteq runFailed'
  PROVE  Run!QuietInv'
<1>1. Run!Stop => Run!Stop' BY RunMoreFailures DEF Run!QuietInv
<1>2. PICK to \in Run!Stage \ {"prompting", "planned"} : runStage' = [runStage EXCEPT ![r] = to]
  BY DEF Run!Moves, Run!Goes
<1>3. Run!RoundTyped' BY <1>2 DEF Run!QuietInv, Run!RoundTyped
<1>4. \A q \in Run!Researcher : runStage'[q] = IF q = r THEN to ELSE runStage[q]
  BY <1>2 DEF Run!QuietInv, Run!RoundTyped
<1>5. Run!Active # {} BY DEF Run!Active
<1>6. Run!StoppedFor' BY <1>1, <1>5 DEF Run!QuietInv, Run!StoppedFor, Run!LauncherIdle
<1>7. Run!Reached' BY <1>4 DEF Run!QuietInv, Run!Reached, Run!LauncherIdle
<1> QED BY <1>3, <1>6, <1>7 DEF Run!QuietInv

LEMMA RunRecordGrows ==
  ASSUME NEW r \in Run!Researcher, NEW c, Run!QuietInv, Run!Record(r, c)
  PROVE  runFailed' \subseteq Run!Researcher /\ runFailed \subseteq runFailed'
BY DEF Run!Record, Run!QuietInv, Run!RoundTyped

LEMMA RunBuiltKeeps ==
  ASSUME NEW r \in Run!Researcher, Run!QuietInv, Run!SessionBuilt(r)
  PROVE  Run!QuietInv'
<1>1. CASE Run!MayPrompt
  <2>1. /\ runStage' = [runStage EXCEPT ![r] = "prompting"]
              /\ runRegistered' = runRegistered \cup {r}
        /\ runAborted' = runAborted \ {r} /\ runFailed' = runFailed /\ runRound' = runRound
              /\ runDisposing' = runDisposing
        /\ runStage[r] = "building"
    BY <1>1 DEF Run!SessionBuilt, Run!Goes, Run!LauncherIdle
  <2>2. Run!RoundTyped' BY <2>1 DEF Run!QuietInv, Run!RoundTyped, Run!Stage
  <2>3. \A q \in Run!Researcher : runStage'[q] = IF q = r THEN "prompting" ELSE runStage[q]
    BY <2>1 DEF Run!QuietInv, Run!RoundTyped
  <2>4. r \in Run!Active /\ ~Run!Stop BY <1>1, <2>1 DEF Run!Active, Run!MayPrompt
  <2>5. runRound \notin {"stopping", "awaiting", "stopped", "returned", "told"}
    BY <2>4 DEF Run!QuietInv, Run!StoppedFor
  <2>6. Run!StoppedFor' BY <2>1, <2>5 DEF Run!StoppedFor
  <2>7. Run!Reached' BY <2>1, <2>3, <2>5 DEF Run!QuietInv, Run!Reached
  <2> QED BY <2>2, <2>6, <2>7 DEF Run!QuietInv
<1>2. CASE ~Run!MayPrompt
  <2>1. Run!Moves(r, Run!Stage \ {"prompting", "planned"}) /\ runStage[r] \notin {"planned", "gone"}
    BY <1>2 DEF Run!SessionBuilt, Run!Moves, Run!Stage
  <2> QED BY <2>1, RunMoveKeeps DEF Run!SessionBuilt, Run!QuietInv, Run!RoundTyped
<1> QED BY <1>1, <1>2

LEMMA RunResearchKeeps ==
  ASSUME NEW r \in Run!Researcher, Run!QuietInv, Run!Research(r)
  PROVE  Run!QuietInv'
<1> DEFINE On == Run!Stage \ {"prompting", "planned"}
<1>0. {"gone", "building", "pausing", "searching", "cleaning", "backoff"} \subseteq On
  BY DEF Run!Stage
<1>1. ASSUME runStage[r] \notin {"planned", "gone"}, Run!Moves(r, On), Run!LauncherIdle,
             Run!SessionsAsTheyWere, runFailed' \subseteq Run!Researcher,
             runFailed \subseteq runFailed'
      PROVE  Run!QuietInv'
  BY <1>1, RunMoveKeeps DEF Run!SessionsAsTheyWere
<1>2. CASE Run!LinksFound(r)
  BY <1>0, <1>1, <1>2
     DEF Run!LinksFound, Run!Leaves, Run!Moves, Run!QuietInv, Run!RoundTyped
<1>3. CASE Run!NoLinks(r)
  BY <1>0, <1>1, <1>3 DEF Run!NoLinks, Run!Leaves, Run!Moves, Run!QuietInv, Run!RoundTyped
<1>4. CASE Run!PauseEnds(r)
  BY <1>0, <1>1, <1>4 DEF Run!PauseEnds, Run!Leaves, Run!Moves, Run!QuietInv, Run!RoundTyped
<1>5. CASE Run!SessionBuilt(r) BY <1>5, RunBuiltKeeps
<1>6. CASE Run!BuildFails(r)
  BY <1>0, <1>1, <1>6, RunRecordGrows DEF Run!BuildFails, Run!Leaves, Run!Moves
<1>7. ASSUME runStage[r] = "prompting", Run!Goes(r, "cleaning"),
             UNCHANGED <<runRegistered, runAborted, runFailed>>, Run!LauncherIdle
      PROVE  Run!QuietInv'
  BY <1>0, <1>7, RunMoveKeeps DEF Run!Moves, Run!QuietInv, Run!RoundTyped
<1>8. CASE Run!Reported(r) BY <1>7, <1>8 DEF Run!Reported, Run!Cleans
<1>9. CASE Run!CameToNothing(r, TRUE) \/ Run!CameToNothing(r, FALSE)
  BY <1>7, <1>9 DEF Run!CameToNothing, Run!Cleans
<1>10. CASE Run!Unretriable(r) BY <1>7, <1>10 DEF Run!Unretriable, Run!Cleans
<1>11. CASE Run!Cleaned(r)
  <2>1. runFailed' \subseteq Run!Researcher /\ runFailed \subseteq runFailed'
    BY <1>11, RunRecordGrows DEF Run!Cleaned, Run!QuietInv, Run!RoundTyped
  <2>2. Run!Moves(r, On) BY <1>0, <1>11 DEF Run!Cleaned, Run!Leaves, Run!Moves
  <2> QED BY <1>11, <2>1, <2>2, RunMoveKeeps DEF Run!Cleaned
<1>12. CASE Run!BackoffEnds(r)
  BY <1>0, <1>1, <1>12
     DEF Run!BackoffEnds, Run!Leaves, Run!Moves, Run!QuietInv, Run!RoundTyped
<1> QED BY <1>2, <1>3, <1>4, <1>5, <1>6, <1>8, <1>9, <1>10, <1>11, <1>12 DEF Run!Research

(* The launcher starts a researcher, or only moves on.                     *)
LEMMA RunLaunchNextKeeps ==
  ASSUME Run!QuietInv, runRound \in {"launching", "full"}, Run!LaunchNext,
         Run!ResearchersAsTheyWere
  PROVE  Run!QuietInv'
<1> DEFINE r == Plan[runLaunched + 1]
<1>1. /\ runStage' = [runStage EXCEPT ![r] = Run!StartOf(r)]
            /\ Run!StartOf(r) \in Run!Stage \ {"prompting"}
      /\ runRound' \in {"draining", "staggering"}
      /\ UNCHANGED <<runRegistered, runAborted, runFailed, runDisposing>>
  BY DEF Run!LaunchNext, Run!Goes, Run!StartOf, Run!Stage, Run!ResearchersAsTheyWere
<1>2. Run!RoundTyped' BY <1>1 DEF Run!QuietInv, Run!RoundTyped
<1>3. \A q \in Run!Researcher : runStage'[q] = "prompting" => runStage[q] = "prompting"
  BY <1>1 DEF Run!QuietInv, Run!RoundTyped
<1>4. Run!StoppedFor' BY <1>1 DEF Run!StoppedFor
<1>5. Run!Reached' BY <1>1, <1>3 DEF Run!QuietInv, Run!Reached
<1> QED BY <1>2, <1>4, <1>5 DEF Run!QuietInv

LEMMA RunLauncherKeeps ==
  ASSUME Run!QuietInv, UNCHANGED <<runStage, runLaunched>>, Run!ResearchersAsTheyWere,
         \/ runRound' \in {"draining", "full", "staggering", "launching"}
         \/ runRound' = "stopping" /\ Run!Stop
         \/ runRound = "awaiting" /\ runRound' = "stopped"
         \/ runRound' = "returned" /\ Run!Active = {}
         \/ runRound \in {"stopped", "returned"} /\ runRound' = "told"
  PROVE  Run!QuietInv'
<1>1. UNCHANGED <<runStage, runRegistered, runAborted, runFailed, runDisposing>>
  BY DEF Run!ResearchersAsTheyWere
<1>2. (Run!Stop' <=> Run!Stop) /\ Run!Active' = Run!Active
  BY <1>1 DEF Run!Stop, Run!Active
<1>3. Run!RoundTyped' BY <1>1 DEF Run!QuietInv, Run!RoundTyped
<1>4. Run!StoppedFor' BY <1>2 DEF Run!QuietInv, Run!StoppedFor
<1>5. runRound = "returned" => \A r \in Run!Researcher : runStage[r] # "prompting"
  BY DEF Run!QuietInv, Run!StoppedFor, Run!Active
<1>6. Run!Reached' BY <1>1, <1>5 DEF Run!QuietInv, Run!Reached
<1> QED BY <1>3, <1>4, <1>6 DEF Run!QuietInv

LEMMA RunQuietStep == Run!QuietInv /\ [Run!Next]_Run!roundVars => Run!QuietInv'
<1> SUFFICES ASSUME Run!QuietInv, [Run!Next]_Run!roundVars PROVE Run!QuietInv' OBVIOUS
<1>1. CASE UNCHANGED Run!roundVars
  BY <1>1
     DEF Run!roundVars, Run!QuietInv, Run!RoundTyped, Run!StoppedFor, Run!Reached,
         Run!Stop, Run!Active
<1>2. ASSUME NEW r \in Run!Researcher, Run!Research(r) PROVE Run!QuietInv'
  BY <1>2, RunResearchKeeps
<1>3. CASE Run!Launch BY <1>3, RunLaunchNextKeeps, RunLauncherKeeps DEF Run!Launch
<1>4. CASE Run!SlotFrees BY <1>4, RunLaunchNextKeeps, RunLauncherKeeps DEF Run!SlotFrees
<1>5. CASE Run!StaggerEnds BY <1>5, RunLauncherKeeps DEF Run!StaggerEnds
<1>6. CASE Run!AbortSessions
  <2>1. UNCHANGED <<runStage, runRegistered, runFailed, runDisposing>>
    BY <1>6 DEF Run!AbortSessions
  <2>2. (Run!Stop' <=> Run!Stop) /\ Run!Active' = Run!Active
    BY <2>1 DEF Run!Stop, Run!Active
  <2>3. Run!RoundTyped' BY <2>1 DEF Run!QuietInv, Run!RoundTyped
  <2>4. Run!StoppedFor'
    BY <1>6, <2>2 DEF Run!AbortSessions, Run!QuietInv, Run!StoppedFor
  <2>5. Run!Reached' BY <1>6, <2>1 DEF Run!AbortSessions, Run!QuietInv, Run!Reached
  <2> QED BY <2>3, <2>4, <2>5 DEF Run!QuietInv
<1>7. CASE Run!GiveUp BY <1>7, RunLauncherKeeps DEF Run!GiveUp
<1>8. CASE Run!Drain BY <1>8, RunLauncherKeeps DEF Run!Drain
<1>9. CASE Run!Tell BY <1>9, RunLauncherKeeps DEF Run!Tell
<1>10. CASE Run!End
  BY <1>10 DEF Run!End, Run!QuietInv, Run!RoundTyped, Run!StoppedFor, Run!Reached
<1>11. CASE Run!Cancel
  <2>1. /\ UNCHANGED <<runRegistered, runAborted, runFailed, runRound, runDisposing>>
        /\ runStage' = [r \in Run!Researcher |-> IF runStage[r] = "prompting" THEN "cleaning"
              ELSE runStage[r]]
    BY <1>11 DEF Run!Cancel
  <2>2. Run!RoundTyped' BY <2>1 DEF Run!QuietInv, Run!RoundTyped, Run!Stage
  <2>3. (Run!Stop' <=> Run!Stop) /\ Run!Active' = Run!Active
    BY <2>1 DEF Run!Stop, Run!Active
  <2>4. Run!StoppedFor' BY <2>1, <2>3 DEF Run!QuietInv, Run!StoppedFor
  <2>5. Run!Reached' BY <2>1 DEF Run!QuietInv, Run!Reached
  <2> QED BY <2>2, <2>4, <2>5 DEF Run!QuietInv
<1>12. CASE Run!Dispose
  BY <1>12
     DEF Run!Dispose, Run!QuietInv, Run!RoundTyped, Run!StoppedFor, Run!Reached, Run!Stop,
         Run!Active
<1> QED
  BY <1>1, <1>2, <1>3, <1>4, <1>5, <1>6, <1>7, <1>8, <1>9, <1>10, <1>11, <1>12 DEF Run!Next

LEMMA RunQuietInit == Run!Init => Run!QuietInv
BY DEF Run!Init, Run!QuietInv, Run!RoundTyped, Run!StoppedFor, Run!Reached, Run!Stage

THEOREM Quiet == Run!Spec => []StoppedMeansQuiet
<1>1. Run!QuietInv => StoppedMeansQuiet
  BY DEF Run!QuietInv, Run!Reached, StoppedMeansQuiet, Run!StoppedMeansQuiet
<1> QED BY <1>1, RunQuietInit, RunQuietStep, PTL DEF Run!Spec

-----------------------------------------------------------------------------
(* The wait for a lock.                                                    *)

LEMMA WaitClassTyped ==
  ASSUME Wait!WaitTyped
  PROVE  /\ Wait!LockTimeout \in Nat /\ Wait!Ceiling \in Nat /\ Wait!StaleAfter \in Nat
         /\ Wait!LiveStale \in Nat /\ Wait!Beat \in Nat /\ Wait!UnidentifiedStaleThreshold \in Nat
BY WaitSettingHolds, SMTT(30)
   DEF Wait!WaitTyped, Wait!WaitSetting, Wait!LockTimeout, Wait!Ceiling, Wait!StaleAfter,
       Wait!LiveStale, Wait!Beat, Wait!UnidentifiedStaleThreshold

LEMMA WaitBounded == Wait!WaitTyped => Wait!Bounds
BY WaitClassTyped, WaitSettingHolds DEF Wait!WaitSetting, Wait!Bounds

(* The waiter's wait is over.                                              *)
LEMMA WaitOverKeeps ==
  ASSUME Wait!WaitInv, waitPc' \in {"got", "ceiling", "stalled"},
         waitPc' = "stalled" => /\ waitPc = "decide" /\ waitNow - waitProgress >= Wait!LockTimeout
            /\ ~waitAwaiting,
         UNCHANGED <<waitNow, Wait!env, waitSince, waitProgress, waitLast, waitAwaiting, waitDue,
                     waitMoved, waitFirst, waitBlind>>
  PROVE  Wait!WaitInv'
<1>1. Wait!LockTimeout' = Wait!LockTimeout /\ Wait!Ceiling' = Wait!Ceiling
  BY DEF Wait!env, Wait!LockTimeout, Wait!Ceiling
<1>2. Wait!WaitTyped' BY DEF Wait!WaitInv, Wait!WaitTyped, Wait!env
<1>3. Wait!Looked' BY <1>1 DEF Wait!WaitInv, Wait!Looked, Wait!Waiting
<1>4. Wait!Timely'
  <2>1. ~Wait!Waiting' BY DEF Wait!Waiting
  <2>2. Wait!LockTimeout > 0 /\ waitLast.uuid = "torn" /\ waitPc' = "stalled" => waitBlind
    BY DEF Wait!WaitInv, Wait!Looked
  <2> QED BY <1>1, <2>1, <2>2 DEF Wait!Timely
<1> QED BY <1>2, <1>3, <1>4 DEF Wait!WaitInv

LEMMA WaitObserveKeeps ==
  ASSUME Wait!WaitInv, Wait!Observe
  PROVE  Wait!WaitInv'
<1> DEFINE age == waitNow - waitMtime
<1>1. /\ waitPc = "try" /\ Wait!BelowCeiling /\ waitOwner # "free"
      /\ waitProgress' = (IF Wait!Moved THEN waitNow ELSE waitProgress)
            /\ waitLast' = [uuid |-> waitOwner, mtime |-> waitMtime]
      /\ waitMoved' = waitMtime /\ waitAwaiting' = Wait!AwaitingReclaim(waitOwner, age)
      /\ waitBlind' = FALSE
      /\ waitFirst' = (IF waitLast = Wait!Nobody THEN waitNow ELSE waitFirst)
      /\ waitDue' = waitNow /\ UNCHANGED <<waitClass, waitNow, waitMtime, waitSince>>
      /\ \/ /\ Wait!ShouldReclaim(waitOwner, age) /\ waitPc' = "try"
            /\ waitOwner' \in {"free", waitOwner}
         \/ ~Wait!ShouldReclaim(waitOwner, age) /\ waitOwner' = waitOwner /\ waitPc' = "decide"
  BY DEF Wait!Observe
<1>2. Wait!Bounds /\ Wait!UnidentifiedStaleThreshold \in Nat
  BY WaitBounded, WaitClassTyped DEF Wait!WaitInv
<1>3. Wait!LockTimeout' = Wait!LockTimeout /\ Wait!Ceiling' = Wait!Ceiling
  BY <1>1 DEF Wait!LockTimeout, Wait!Ceiling
<1>4. Wait!WaitTyped'
  <2>1. Wait!AwaitingReclaim(waitOwner, age) \in BOOLEAN BY DEF Wait!AwaitingReclaim
  <2>2. /\ waitProgress' \in waitSince' .. waitNow' /\ waitFirst' \in waitSince' .. waitNow'
        /\ waitMoved' \in Nat /\ waitDue' \in Nat
    BY <1>1 DEF Wait!WaitInv, Wait!WaitTyped
  <2>3. waitOwner' \in Peer \cup {"free", "torn"} /\ waitPc' \in {"try", "decide"}
    BY <1>1 DEF Wait!WaitInv, Wait!WaitTyped
  <2> QED BY <1>1, <2>1, <2>2, <2>3 DEF Wait!WaitInv, Wait!WaitTyped
<1>5. waitOwner # "none"
  BY WaitSettingHolds DEF Wait!WaitSetting, Wait!WaitInv, Wait!WaitTyped
<1>6. waitMoved' + waitSince' =< waitProgress' + waitFirst'
  <2>1. CASE Wait!Moved
    <3>1. waitProgress' = waitNow /\ waitFirst' = waitFirst
      BY <1>1, <2>1 DEF Wait!Moved, Wait!Nobody
    <3> QED BY <1>1, <3>1 DEF Wait!WaitInv, Wait!WaitTyped
  <2>2. CASE waitLast.uuid = "none"
    <3>1. waitProgress' = waitProgress /\ waitFirst' = waitNow
      BY <1>1, <2>2 DEF Wait!Moved, Wait!WaitInv, Wait!Looked
    <3> QED BY <1>1, <3>1 DEF Wait!WaitInv, Wait!WaitTyped
  <2>3. CASE ~Wait!Moved /\ waitLast.uuid # "none"
    <3>1. ~(waitMtime > waitLast.mtime) /\ waitLast.mtime = waitMoved
             /\ waitMoved + waitSince =< waitProgress + waitFirst
      BY <2>3 DEF Wait!Moved, Wait!WaitInv, Wait!Looked
    <3>2. waitProgress' = waitProgress /\ waitFirst' = waitFirst
      BY <1>1, <2>3 DEF Wait!Nobody
    <3> QED BY <1>1, <3>1, <3>2 DEF Wait!WaitInv, Wait!WaitTyped
  <2> QED BY <2>1, <2>2, <2>3
<1>7. waitPc' = "decide" /\ Wait!LockTimeout > 0 /\ waitOwner = "torn"
         => Wait!AwaitingReclaim(waitOwner, age)
  BY <1>1, <1>2 DEF Wait!AwaitingReclaim, Wait!ShouldReclaim, Wait!WaitInv, Wait!WaitTyped
<1>8. Wait!Looked'
  <2>1. waitLast'.uuid # "none" /\ waitLast'.mtime = waitMoved' /\ waitLast'.uuid = waitOwner
    BY <1>1, <1>5
  <2> QED BY <1>1, <1>3, <1>6, <1>7, <2>1 DEF Wait!Looked, Wait!AwaitingReclaim
<1>9. Wait!Timely'
  <2>1. Wait!LockTimeout > 0 => waitNow < waitSince + Wait!Ceiling
    BY <1>1, <1>2 DEF Wait!BelowCeiling, Wait!WaitInv, Wait!WaitTyped, Wait!Bounds
  <2>2. waitPc' # "stalled" BY <1>1
  <2> QED
    BY <1>1, <1>2, <1>3, <2>1, <2>2
       DEF Wait!Timely, Wait!WaitInv, Wait!WaitTyped, Wait!Bounds
<1> QED BY <1>4, <1>8, <1>9 DEF Wait!WaitInv

LEMMA WaitLookFailsKeeps ==
  ASSUME Wait!WaitInv, Wait!LookFails
  PROVE  Wait!WaitInv'
<1>1. /\ waitPc = "try" /\ Wait!BelowCeiling /\ waitPc' = "decide" /\ waitDue' = waitNow
      /\ waitAwaiting' = FALSE /\ waitBlind' = TRUE
      /\ UNCHANGED <<waitNow, Wait!env, waitSince, waitProgress, waitLast, waitMoved, waitFirst>>
  BY DEF Wait!LookFails
<1>2. Wait!Bounds BY WaitBounded DEF Wait!WaitInv
<1>3. Wait!LockTimeout' = Wait!LockTimeout /\ Wait!Ceiling' = Wait!Ceiling
  BY <1>1 DEF Wait!env, Wait!LockTimeout, Wait!Ceiling
<1>4. Wait!WaitTyped' BY <1>1 DEF Wait!WaitInv, Wait!WaitTyped, Wait!env
<1>5. Wait!Looked'
  BY <1>1, <1>3, Zenon DEF Wait!WaitInv, Wait!Looked, Wait!Nobody
<1>6. Wait!Timely'
  <2>1. Wait!LockTimeout > 0 => waitNow < waitSince + Wait!Ceiling
    BY <1>1, <1>2 DEF Wait!BelowCeiling, Wait!WaitInv, Wait!WaitTyped, Wait!Bounds
  <2> QED
    BY <1>1, <1>2, <1>3, <2>1
       DEF Wait!Timely, Wait!WaitInv, Wait!WaitTyped, Wait!Bounds
<1> QED BY <1>4, <1>5, <1>6 DEF Wait!WaitInv

LEMMA WaitDecideKeeps ==
  ASSUME Wait!WaitInv, Wait!Decide
  PROVE  Wait!WaitInv'
<1>1. Wait!Bounds BY WaitBounded DEF Wait!WaitInv
<1>2. CASE waitPc' = "ceiling" \/ waitPc' = "stalled"
  BY <1>2, WaitOverKeeps DEF Wait!Decide
<1>3. CASE waitPc' = "try"
  <2>1. /\ waitPc = "decide" /\ ~(waitNow - waitSince >= Wait!Ceiling)
              /\ ~(waitNow - waitProgress >= Wait!LockTimeout /\ ~waitAwaiting)
        /\ waitDue' = waitNow + Delay /\ waitAwaiting' = FALSE /\ waitBlind' = FALSE
        /\ UNCHANGED <<waitNow, Wait!env, waitSince, waitProgress, waitLast, waitMoved,
                       waitFirst>>
    BY <1>3 DEF Wait!Decide
  <2>2. Wait!LockTimeout' = Wait!LockTimeout /\ Wait!Ceiling' = Wait!Ceiling
    BY <2>1 DEF Wait!env, Wait!LockTimeout, Wait!Ceiling
  <2>3. Wait!WaitTyped'
    <3>1. waitDue' \in Nat /\ waitPc' \in {"try", "decide", "got", "ceiling", "stalled"}
      BY <1>1, <1>3, <2>1 DEF Wait!WaitInv, Wait!WaitTyped, Wait!Bounds
    <3>2. waitAwaiting' \in BOOLEAN /\ waitBlind' \in BOOLEAN BY <2>1
    <3> QED BY <2>1, <3>1, <3>2 DEF Wait!WaitInv, Wait!WaitTyped, Wait!env
  <2>4. Wait!Looked'
    <3>1. waitPc' # "decide" /\ ~waitAwaiting' BY <1>3, <2>1
    <3>2. waitLast.uuid = "none" => waitLast = Wait!Nobody /\ waitMoved = 0 /\ waitFirst = waitSince
      BY DEF Wait!WaitInv, Wait!Looked
    <3>3. /\ waitLast.uuid # "none" => waitLast.mtime = waitMoved
          /\ waitMoved + waitSince =< waitProgress + waitFirst
      BY DEF Wait!WaitInv, Wait!Looked
    <3>4. /\ waitLast' = waitLast /\ waitMoved' = waitMoved /\ waitFirst' = waitFirst
          /\ waitSince' = waitSince /\ waitProgress' = waitProgress
      BY <2>1
    <3>5. /\ waitLast'.uuid = "none" => waitLast' = Wait!Nobody /\ waitMoved' = 0
                                        /\ waitFirst' = waitSince'
          /\ waitLast'.uuid # "none" => waitLast'.mtime = waitMoved'
          /\ waitMoved' + waitSince' =< waitProgress' + waitFirst'
      BY ONLY <3>2, <3>3, <3>4
    <3> QED BY <3>1, <3>5, Zenon DEF Wait!Looked, Wait!Nobody
  <2>6. Wait!LockTimeout # 0
    <3>1. SUFFICES ASSUME Wait!LockTimeout = 0 PROVE FALSE OBVIOUS
    <3>2. ~waitAwaiting BY <1>1, <3>1 DEF Wait!WaitInv, Wait!Looked, Wait!Bounds
    <3> QED BY <2>1, <3>1, <3>2 DEF Wait!WaitInv, Wait!WaitTyped
  <2>7. waitNow < waitSince + Wait!Ceiling
    BY <1>1, <2>1 DEF Wait!WaitInv, Wait!WaitTyped, Wait!Bounds
  <2>8. Wait!Timely'
    BY <1>1, <1>3, <2>1, <2>2, <2>6, <2>7
       DEF Wait!Timely, Wait!WaitInv, Wait!WaitTyped, Wait!Bounds
  <2> QED BY <2>3, <2>4, <2>8 DEF Wait!WaitInv
<1> QED BY <1>2, <1>3 DEF Wait!Decide

(* Whoever else moves: the waiter stands where it stood.                   *)
LEMMA WaitOthersKeep ==
  ASSUME Wait!WaitInv, UNCHANGED <<waitClass, waitNow, Wait!wait>>,
         waitOwner' \in Peer \cup {"free", "torn"}, waitMtime' \in {waitMtime, waitNow}
  PROVE  Wait!WaitInv'
<1>1. Wait!LockTimeout' = Wait!LockTimeout /\ Wait!Ceiling' = Wait!Ceiling
  BY DEF Wait!LockTimeout, Wait!Ceiling
<1>2. Wait!WaitTyped' BY DEF Wait!WaitInv, Wait!WaitTyped, Wait!wait
<1>3. Wait!Looked' BY <1>1 DEF Wait!WaitInv, Wait!Looked, Wait!wait, Wait!Waiting
<1>4. Wait!Timely' BY <1>1 DEF Wait!WaitInv, Wait!Timely, Wait!wait, Wait!Waiting
<1> QED BY <1>2, <1>3, <1>4 DEF Wait!WaitInv

LEMMA WaitTickKeeps ==
  ASSUME Wait!WaitInv, Wait!Tick
  PROVE  Wait!WaitInv'
<1>1. Wait!Bounds BY WaitBounded DEF Wait!WaitInv
<1>2. /\ waitNow' = waitNow + 1 /\ UNCHANGED <<Wait!env, Wait!wait>>
            /\ (Wait!Waiting => waitNow < waitDue + Lag)
  BY DEF Wait!Tick
<1>3. Wait!LockTimeout' = Wait!LockTimeout /\ Wait!Ceiling' = Wait!Ceiling
  BY <1>2 DEF Wait!env, Wait!LockTimeout, Wait!Ceiling
<1>4. Wait!WaitTyped' BY <1>2 DEF Wait!WaitInv, Wait!WaitTyped, Wait!env, Wait!wait
<1>5. Wait!Looked' BY <1>2, <1>3 DEF Wait!WaitInv, Wait!Looked, Wait!wait, Wait!Waiting
<1>6. Wait!Waiting' <=> Wait!Waiting BY <1>2 DEF Wait!Waiting, Wait!wait
<1>7. Wait!Timely'
  BY <1>1, <1>2, <1>3, <1>6
     DEF Wait!WaitInv, Wait!WaitTyped, Wait!Timely, Wait!wait, Wait!Bounds
<1> QED BY <1>4, <1>5, <1>7 DEF Wait!WaitInv

LEMMA WaitWaitStep == Wait!WaitInv /\ [Wait!Next]_Wait!vars => Wait!WaitInv'
<1> SUFFICES ASSUME Wait!WaitInv, [Wait!Next]_Wait!vars PROVE Wait!WaitInv' OBVIOUS
<1>1. CASE UNCHANGED Wait!vars
  BY <1>1, WaitOthersKeep DEF Wait!vars, Wait!env, Wait!WaitInv, Wait!WaitTyped
<1>2. CASE Wait!CeilingReached BY <1>2, WaitOverKeeps DEF Wait!CeilingReached
<1>3. CASE Wait!Take BY <1>3, WaitOverKeeps DEF Wait!Take
<1>4. CASE Wait!Observe BY <1>4, WaitObserveKeeps
<1>5. CASE Wait!LookFails \/ Wait!Decide BY <1>5, WaitLookFailsKeeps, WaitDecideKeeps
<1>6. CASE Wait!Tick BY <1>6, WaitTickKeeps
<1>7. CASE Wait!Heartbeat
  BY <1>7, WaitOthersKeep DEF Wait!Heartbeat, Wait!WaitInv, Wait!WaitTyped
<1>8. CASE Wait!Wedge
  BY <1>8, WaitOthersKeep DEF Wait!Wedge, Wait!WaitInv, Wait!WaitTyped
<1>9. CASE Wait!PeerReleases BY <1>9, WaitOthersKeep DEF Wait!PeerReleases
<1>10. ASSUME NEW p \in Peer, Wait!PeerTakes(p) PROVE Wait!WaitInv'
  BY <1>10, WaitOthersKeep DEF Wait!PeerTakes
<1> QED BY <1>1, <1>2, <1>3, <1>4, <1>5, <1>6, <1>7, <1>8, <1>9, <1>10 DEF Wait!Next

LEMMA WaitWaitInit == Wait!Init => Wait!WaitInv
<1> SUFFICES ASSUME Wait!Init PROVE Wait!WaitInv OBVIOUS
<1>1. Wait!WaitTyped
  <2>1. waitNow \in Nat /\ waitMtime = 0 /\ waitSince = waitNow /\ waitProgress = waitNow
           /\ waitDue = waitNow /\ waitMoved = 0
    BY DEF Wait!Init
  <2>2. waitClass \in Classes /\ waitOwner \in Peer \cup {"free", "torn"} /\ waitAwaiting = FALSE
           /\ waitPc = "try"
    BY DEF Wait!Init
  <2>6. waitFirst = waitNow /\ waitBlind = FALSE BY DEF Wait!Init
  <2>3. waitLast \in [uuid : Peer \cup {"none", "free", "torn"}, mtime : Nat]
    BY DEF Wait!Init, Wait!Nobody
  <2>4. waitMtime \in 0 .. waitNow /\ waitSince \in 0 .. waitNow
           /\ waitProgress \in waitSince .. waitNow /\ waitFirst \in waitSince .. waitNow
           /\ waitDue \in Nat /\ waitMoved \in Nat
    BY <2>1, <2>6
  <2>5. waitAwaiting \in BOOLEAN /\ waitPc \in {"try", "decide", "got", "ceiling", "stalled"}
    BY <2>2
  <2> QED BY <2>1, <2>2, <2>3, <2>4, <2>5, <2>6 DEF Wait!WaitTyped
<1>2. Wait!Bounds BY <1>1, WaitBounded
<1>3. Wait!Looked BY DEF Wait!Init, Wait!Looked, Wait!Nobody, Wait!Waiting
<1>4. Wait!Timely BY <1>2 DEF Wait!Init, Wait!Timely, Wait!Waiting, Wait!Bounds
<1> QED BY <1>1, <1>3, <1>4 DEF Wait!WaitInv

THEOREM Waits == Wait!Spec => []WaitIsBounded
<1>1. Wait!WaitInv => WaitIsBounded
  <2> SUFFICES ASSUME Wait!WaitInv PROVE WaitIsBounded OBVIOUS
  <2>1. Wait!Bounds BY WaitBounded DEF Wait!WaitInv
  <2>2. waitPc = "stalled" =>
          /\ waitNow - waitMoved >= Wait!LockTimeout - (waitFirst - waitSince)
          /\ (Wait!LockTimeout > 0 /\ waitLast.uuid = "torn" => waitBlind)
    BY <2>1 DEF Wait!WaitInv, Wait!WaitTyped, Wait!Looked, Wait!Timely, Wait!Bounds
  <2>3. Wait!Waiting => IF Wait!LockTimeout > 0
           THEN waitNow - waitSince =< Wait!Ceiling + Delay + Lag ELSE waitDue =< waitNow
    BY <2>1 DEF Wait!WaitInv, Wait!WaitTyped, Wait!Timely, Wait!Bounds
  <2> QED BY <2>2, <2>3 DEF WaitIsBounded, Wait!WaitIsBounded
<1> QED BY <1>1, WaitWaitInit, WaitWaitStep, PTL DEF Wait!Spec

-----------------------------------------------------------------------------
(* The service container.                                                  *)

(* A call goes on to wait for something, or is done.                       *)
LEMMA ContLeaveKeeps ==
  ASSUME Container!ContainerInv, NEW c \in Container!Calls,
         NEW to \in Container!Places \ {"settling"}, NEW k \in Container!Instances,
         Container!Leave(c, to, k)
  PROVE  Container!ContainerInv'
<1>1. /\ containerStep' = [containerStep EXCEPT ![c] = to]
            /\ containerOn' = [containerOn EXCEPT ![c] = k] /\ UNCHANGED Container!registration
  BY DEF Container!Leave, Container!Move
<1>2. Container!ContainerTyped'
  BY <1>1
     DEF Container!ContainerInv, Container!ContainerTyped, Container!registration,
         Container!Places
<1>3. ASSUME Container!Orderly PROVE Container!Orderly'
  <2>1. \A d \in Container!Calls : containerStep'[d] = "settling" => containerStep[d] = "settling"
           /\ containerOn'[d] = containerOn[d]
    BY <1>1 DEF Container!ContainerInv, Container!ContainerTyped
  <2>2. Container!OneInit'
    BY <1>1, <1>3 DEF Container!Orderly, Container!OneInit, Container!registration
  <2>3. Container!OneClear'
    BY <1>1, <1>3, <2>1 DEF Container!Orderly, Container!OneClear, Container!registration
  <2>4. Container!OneTeardown'
    BY <1>1, <1>3 DEF Container!Orderly, Container!OneTeardown, Container!registration
  <2>5. Container!OneAlive'
    BY <1>1, <1>3 DEF Container!Orderly, Container!OneAlive, Container!registration
  <2> QED BY <2>2, <2>3, <2>4, <2>5 DEF Container!Orderly
<1>4. containerHurried' = containerHurried /\ containerLate' = containerLate
  BY <1>1 DEF Container!registration
<1> QED BY <1>2, <1>3, <1>4 DEF Container!ContainerInv

(* An initialization begins: alone, or late.                               *)
LEMMA ContInitializeKeeps ==
  ASSUME Container!ContainerInv, NEW c \in Getter, NEW again \in BOOLEAN,
         Container!Initialize(c, again),
         containerStep[c] # "settling",
         Container!Orderly => containerLate' \/ (containerInits = {} /\ containerClears = {}),
         again <=> containerInstance # 0
  PROVE  Container!ContainerInv'
<1> DEFINE r == [id |-> containerBegun + 1, of |-> IF again THEN containerInstance
       ELSE 0, again |-> again]
<1>1. /\ containerBegun < MaxContainerInits /\ containerBegun' = containerBegun + 1
            /\ containerPromised' = containerBegun + 1
      /\ containerInits' = containerInits \cup {r}
      /\ containerStep' = [containerStep EXCEPT ![c] = "started"]
            /\ containerOn' = [containerOn EXCEPT ![c] = containerBegun + 1]
      /\ UNCHANGED <<containerInstance, containerMarker, containerLife, containerClears,
                     containerTeardown, containerTeardowns, containerFailed, containerHurried>>
      /\ (containerLate \/ Container!isDisposing => containerLate')
  BY DEF Container!Initialize, Container!Move
<1>2. c \in Container!Calls BY DEF Container!Calls
<1>3. containerBegun + 1 \in 1 .. MaxContainerInits
  BY <1>1, ContainerSettingHolds
     DEF Container!ContainerInv, Container!ContainerTyped, Container!Instances,
         Container!ContainerSetting
<1>4. r \in [id : 1 .. MaxContainerInits, of : Container!Instances, again : BOOLEAN]
  BY <1>3, ContainerSettingHolds
     DEF Container!ContainerInv, Container!ContainerTyped, Container!Instances,
         Container!ContainerSetting
<1>5. containerBegun + 1 \in Container!Instances BY <1>3 DEF Container!Instances
<1>6. Container!ContainerTyped'
  BY <1>1, <1>4, <1>5 DEF Container!ContainerInv, Container!ContainerTyped
<1>7. ASSUME Container!Orderly, ~containerLate' PROVE Container!Orderly'
  <2>1. containerInits' = {r} /\ containerClears' = {} /\ containerInits = {}
           /\ containerClears = {} /\ containerTeardown' = Container!Idle
                 /\ containerTeardown = Container!Idle
    BY <1>1, <1>7 DEF Container!isDisposing
  <2>2. r.id = containerBegun + 1 /\ r.of = IF again THEN containerInstance ELSE 0 OBVIOUS
  <2>3. Container!OneInit' BY <1>1, <2>1, <2>2 DEF Container!OneInit
  <2>4. \A d \in Container!Calls : containerStep'[d] # "settling"
    BY <1>1, <1>2, <1>7, <2>1
       DEF Container!Orderly, Container!OneClear, Container!ContainerInv,
           Container!ContainerTyped
  <2>5. Container!OneClear' BY <2>1, <2>4 DEF Container!OneClear
  <2>6. Container!OneTeardown' BY <2>1 DEF Container!OneTeardown, Container!Idle
  <2>7. Container!OneAlive' BY <1>1, <1>7 DEF Container!Orderly, Container!OneAlive
  <2> QED BY <2>3, <2>5, <2>6, <2>7 DEF Container!Orderly
<1>8. Container!Bad => Container!Bad' BY <1>1 DEF Container!Bad
<1> QED BY <1>1, <1>6, <1>7 DEF Container!ContainerInv

LEMMA ContAloneWhenFree ==
  ASSUME Container!Orderly, "none" \notin Container!Disposer, Container!ContainerTyped
  PROVE  /\ containerPromised = 0 => containerInits = {}
         /\ containerMarker = "none" => containerClears = {}
<1>1. containerPromised = 0 => containerInits = {}
  BY DEF Container!Orderly, Container!OneInit, Container!ContainerTyped
<1>2. containerMarker = "none" => containerClears = {}
  BY DEF Container!Orderly, Container!OneClear, Container!ContainerTyped
<1> QED BY <1>1, <1>2

LEMMA ContServeKeeps ==
  ASSUME Container!ContainerInv, NEW c \in Getter, Container!Serve(c),
         containerMarker = "none", containerStep[c] # "settling"
  PROVE  Container!ContainerInv'
<1>1. c \in Container!Calls /\ {0, containerPromised} \subseteq Container!Instances
         /\ {"joining", "done"} \subseteq Container!Places \ {"settling"}
  BY ContainerSettingHolds
     DEF Container!Calls, Container!ContainerInv, Container!ContainerTyped,
         Container!Instances, Container!Places, Container!ContainerSetting
<1>2. Container!Orderly /\ containerPromised = 0 => containerInits = {} /\ containerClears = {}
  BY ContAloneWhenFree, ContainerSettingHolds
     DEF Container!ContainerSetting, Container!ContainerInv
<1>3. CASE containerInstance # 0 /\ containerPromised # 0
  BY <1>1, <1>3, ContLeaveKeeps DEF Container!Serve
<1>4. CASE containerInstance # 0 /\ containerPromised = 0
  <2>1. CASE c \in WithCtx
    BY <1>2, <1>4, <2>1, ContInitializeKeeps DEF Container!Serve, Container!Hand
  <2>2. CASE c \notin WithCtx
    BY <1>1, <1>4, <2>2, ContLeaveKeeps DEF Container!Serve, Container!Hand
  <2> QED BY <2>1, <2>2
<1>5. CASE containerInstance = 0 /\ containerPromised # 0
  BY <1>1, <1>5, ContLeaveKeeps DEF Container!Serve
<1>6. CASE containerInstance = 0 /\ containerPromised = 0
  BY <1>2, <1>6, ContInitializeKeeps DEF Container!Serve
<1> QED BY <1>3, <1>4, <1>5, <1>6

LEMMA ContGetsKeep ==
  ASSUME Container!ContainerInv, NEW c \in Getter,
         Container!Get(c) \/ Container!GetWaited(c) \/ Container!GetJoined(c)
  PROVE  Container!ContainerInv'
<1>1. c \in Container!Calls /\ 0 \in Container!Instances
         /\ {"waiting", "done"} \subseteq Container!Places \ {"settling"}
  BY ContainerSettingHolds
     DEF Container!Calls, Container!Instances, Container!Places, Container!ContainerSetting
<1>2. CASE Container!Get(c)
  BY <1>1, <1>2, ContServeKeeps, ContLeaveKeeps DEF Container!Get
<1>3. CASE Container!GetWaited(c) BY <1>3, ContServeKeeps DEF Container!GetWaited
<1>4. CASE Container!GetJoined(c)
  <2>1. containerStep[c] = "joining" BY <1>4 DEF Container!GetJoined
  <2>2. CASE containerInstance # 0 /\ c \in WithCtx
    <3>1. Container!Initialize(c, TRUE)
      BY <1>4, <2>2 DEF Container!GetJoined, Container!Hand
    <3>2. containerLate' \/ (containerInits = {} /\ containerClears = {})
      BY <2>1, <3>1 DEF Container!Initialize, Container!Busy
    <3> QED BY <2>1, <2>2, <3>1, <3>2, ContInitializeKeeps
  <2>3. CASE containerInstance # 0 /\ c \notin WithCtx
    BY <1>1, <1>4, <2>3, ContLeaveKeeps DEF Container!GetJoined, Container!Hand
  <2>4. CASE containerInstance = 0
    BY <1>1, <1>4, <2>1, <2>4, ContServeKeeps, ContLeaveKeeps DEF Container!GetJoined
  <2> QED BY <2>2, <2>3, <2>4
<1> QED BY <1>2, <1>3, <1>4

LEMMA ContConstructKeeps ==
  ASSUME Container!ContainerInv, NEW r \in containerInits, Container!Construct(r)
  PROVE  Container!ContainerInv'
<1> DEFINE made == [r EXCEPT !.of = r.id]
<1>1. /\ r.of = 0 /\ containerInstance' = r.id
            /\ containerLife' = [containerLife EXCEPT ![r.id] = "live"]
      /\ containerInits' = (containerInits \ {r}) \cup {made}
      /\ UNCHANGED <<containerPromised, containerMarker, containerBegun, containerClears,
                     containerTeardown, containerTeardowns, containerStep, containerOn, containerFailed, containerHurried, containerLate>>
  BY DEF Container!Construct
<1>2. r \in [id : 1 .. MaxContainerInits, of : Container!Instances, again : BOOLEAN]
         /\ r.id \in Container!Instances
  BY DEF Container!ContainerInv, Container!ContainerTyped, Container!Instances
<1>3. made \in [id : 1 .. MaxContainerInits, of : Container!Instances, again : BOOLEAN]
         /\ made.id = r.id /\ made.of = r.id
  BY <1>2
<1>4. Container!ContainerTyped'
  <2>1. containerInits' \subseteq [id : 1 .. MaxContainerInits, of : Container!Instances, again : BOOLEAN]
    BY <1>1, <1>3 DEF Container!ContainerInv, Container!ContainerTyped
  <2>2. containerLife' \in [1 .. MaxContainerInits -> {"none", "live", "gone"}]
    BY <1>1 DEF Container!ContainerInv, Container!ContainerTyped
  <2> QED BY <1>1, <1>2, <2>1, <2>2 DEF Container!ContainerInv, Container!ContainerTyped
<1>5. ASSUME Container!Orderly PROVE Container!Orderly'
  <2>1. r.id = containerPromised /\ containerInstance = 0
    BY <1>1, <1>5 DEF Container!Orderly, Container!OneInit
  <2>3. \A q \in containerInits : q = r BY <1>5 DEF Container!Orderly, Container!OneInit
  <2>4. containerInits' = {made} BY <1>1, <2>3
  <2>5. Container!OneInit' BY <1>1, <1>2, <1>3, <2>1, <2>4 DEF Container!OneInit
  <2>6. Container!OneClear'
    <3>1. \A q \in containerClears : q.of = 0
      BY <1>5 DEF Container!Orderly, Container!OneClear
    <3> QED BY <1>1, <1>3, <1>5, <2>4, <3>1 DEF Container!Orderly, Container!OneClear
  <2>7. Container!OneTeardown'
    BY <1>1, <1>3, <1>5, <2>4 DEF Container!Orderly, Container!OneTeardown
  <2>8. Container!OneAlive'
    BY <1>1, <1>2, <1>5, <2>1
       DEF Container!Orderly, Container!OneAlive, Container!ContainerInv,
           Container!ContainerTyped
  <2> QED BY <2>5, <2>6, <2>7, <2>8 DEF Container!Orderly
<1> QED BY <1>1, <1>4, <1>5 DEF Container!ContainerInv

(* An initialization ends, well or not.                                    *)
LEMMA ContInitEndsKeeps ==
  ASSUME Container!ContainerInv, NEW r \in containerInits,
         Container!Succeed(r) \/ Container!Fail(r)
  PROVE  Container!ContainerInv'
<1>1. /\ containerInits' = containerInits \ {r}
      /\ containerStep' = [c \in Container!Calls |-> IF containerStep[c] = "started"
            /\ containerOn[c] = r.id THEN "done" ELSE containerStep[c]]
      /\ UNCHANGED <<containerMarker, containerBegun, containerClears, containerTeardown,
                     containerTeardowns, containerOn, containerHurried, containerLate>>
      /\ containerPromised' \in {0, containerPromised}
  BY DEF Container!Succeed, Container!Fail
<1>2. /\ containerLife' = containerLife
      /\ \/ UNCHANGED <<containerInstance, containerFailed>>
         \/ /\ r.of # 0 /\ containerInstance' = 0
            /\ containerFailed' = containerFailed \cup {r.of}
  BY DEF Container!Succeed, Container!Fail
<1>3. Container!ContainerTyped'
  <2>1. containerStep' \in [Container!Calls -> Container!Places]
    BY <1>1 DEF Container!ContainerInv, Container!ContainerTyped, Container!Places
  <2>2. 0 \in Container!Instances
    BY ContainerSettingHolds DEF Container!Instances, Container!ContainerSetting
  <2>3. containerLife' \in [1 .. MaxContainerInits -> {"none", "live", "gone"}]
           /\ containerInstance' \in Container!Instances
                 /\ containerPromised' \in Container!Instances
    BY <1>1, <1>2, <2>2 DEF Container!ContainerInv, Container!ContainerTyped
  <2> QED
    BY <1>1, <2>1, <2>3
       DEF Container!ContainerInv, Container!ContainerTyped, Container!Places
<1>4. ASSUME Container!Orderly PROVE Container!Orderly'
  <2>1. containerInits' = {} BY <1>1, <1>4 DEF Container!Orderly, Container!OneInit
  <2>2. \A c \in Container!Calls : containerStep'[c] = "settling" => containerStep[c] = "settling"
           /\ containerOn'[c] = containerOn[c]
    BY <1>1
  <2>3. \A q \in containerClears : q.of = 0
    BY <1>4 DEF Container!Orderly, Container!OneClear
  <2>4. Container!OneInit' BY <2>1 DEF Container!OneInit
  <2>5. Container!OneClear'
    BY <1>1, <1>4, <2>1, <2>2, <2>3 DEF Container!Orderly, Container!OneClear
  <2>6. Container!OneTeardown'
    BY <1>1, <1>4, <2>1 DEF Container!Orderly, Container!OneTeardown
  <2>7. Container!OneAlive'
    <3>1. CASE UNCHANGED <<containerInstance, containerFailed>>
      BY <1>2, <1>4, <3>1 DEF Container!Orderly, Container!OneAlive
    <3>2. CASE r.of # 0 /\ containerFailed' = containerFailed \cup {r.of}
      <4>1. r.of = containerInstance
        BY <1>4, <3>2 DEF Container!Orderly, Container!OneInit
      <4> QED BY <1>2, <1>4, <3>2, <4>1 DEF Container!Orderly, Container!OneAlive
    <3> QED BY <1>2, <3>1, <3>2
  <2> QED BY <2>4, <2>5, <2>6, <2>7 DEF Container!Orderly
<1> QED BY <1>1, <1>3, <1>4 DEF Container!ContainerInv

(* What the registration holds after an instance was brought, or none.     *)
LEMMA ContInstalled ==
  ASSUME NEW k \in Container!Instances,
         NEW lives \in [1 .. MaxContainerInits -> {"none", "live", "gone"}]
  PROVE  /\ Container!Installed(k, lives) \in [1 .. MaxContainerInits -> {"none", "live", "gone"}]
         /\ \A i \in 1 .. MaxContainerInits :
              Container!Installed(k, lives)[i] = "live" => i = k \/ lives[i] = "live"
BY ContainerSettingHolds
   DEF Container!Installed, Container!Instances, Container!ContainerSetting

(* The body of a clear() or replace() begins: alone, or late.              *)
LEMMA ContDisposeKeeps ==
  ASSUME Container!ContainerInv, NEW c \in Container!Disposer, NEW k \in Container!Instances,
         Container!Dispose(c, k), containerBegun' \in Container!Instances
  PROVE  Container!ContainerInv'
<1> DEFINE r == [by |-> c, of |-> IF containerPromised = 0 THEN containerInstance ELSE 0,
                 brings |-> k]
           sync == containerPromised = 0 /\ containerInstance = 0
<1>1. /\ containerMarker' = c
      /\ containerLate' = (containerLate \/ Container!isDisposing \/ containerClears # {})
      /\ containerStep' = [containerStep EXCEPT ![c] = IF containerPromised = 0 THEN "done"
            ELSE "settling"]
      /\ containerOn' = [containerOn EXCEPT ![c] = containerPromised]
      /\ UNCHANGED <<containerPromised, containerInits, containerTeardown, containerTeardowns,
                     containerFailed, containerHurried>>
      /\ \/ /\ sync /\ containerInstance' = k /\ containerClears' = containerClears
            /\ containerLife' = Container!Installed(k, containerLife)
         \/ /\ ~sync /\ containerClears' = containerClears \cup {r}
            /\ UNCHANGED <<containerInstance, containerLife>>
  BY DEF Container!Dispose, Container!Move
<1>2. c \in Container!Calls /\ 0 \in Container!Instances
  BY ContainerSettingHolds
     DEF Container!Calls, Container!Instances, Container!ContainerSetting
<1>3. /\ r \in [by : Container!Disposer, of : Container!Instances, brings : Container!Instances]
      /\ r.by = c /\ r.of = IF containerPromised = 0 THEN containerInstance ELSE 0
  BY <1>2 DEF Container!ContainerInv, Container!ContainerTyped
<1>4. /\ containerLife' \in [1 .. MaxContainerInits -> {"none", "live", "gone"}]
      /\ \A i \in 1 .. MaxContainerInits :
           containerLife'[i] = "live" => containerLife[i] = "live" \/ (sync /\ i = k)
      /\ containerInstance' \in Container!Instances
  <2>1. /\ containerLife \in [1 .. MaxContainerInits -> {"none", "live", "gone"}]
        /\ containerInstance \in Container!Instances
    BY DEF Container!ContainerInv, Container!ContainerTyped
  <2> DEFINE lives == Container!Installed(k, containerLife)
  <2>2. /\ lives \in [1 .. MaxContainerInits -> {"none", "live", "gone"}]
        /\ \A i \in 1 .. MaxContainerInits :
             lives[i] = "live" => i = k \/ containerLife[i] = "live"
    BY <2>1, ContInstalled
  <2> HIDE DEF lives
  <2>3. CASE sync /\ containerInstance' = k /\ containerLife' = lives
    BY <2>2, <2>3
  <2>4. CASE UNCHANGED <<containerInstance, containerLife>>
    BY <2>1, <2>4
  <2> QED BY <1>1, <2>3, <2>4 DEF lives
<1>5. Container!ContainerTyped'
  <2>1. containerClears' \subseteq [by : Container!Disposer, of : Container!Instances,
                                    brings : Container!Instances]
    <3> HIDE DEF r, sync
    <3> QED BY <1>1, <1>3 DEF Container!ContainerInv, Container!ContainerTyped
  <2>2. /\ containerStep' \in [Container!Calls -> Container!Places]
        /\ containerOn' \in [Container!Calls -> Container!Instances]
    <3> HIDE DEF r, sync
    <3> QED BY <1>1, <1>2
            DEF Container!ContainerInv, Container!ContainerTyped, Container!Places
  <2>3. UNCHANGED <<containerPromised, containerInits, containerTeardown>>
    BY <1>1
  <2>4. Container!ContainerInv /\ containerInstance' \in Container!Instances
           /\ containerLife' \in [1 .. MaxContainerInits -> {"none", "live", "gone"}]
    BY <1>4
  <2> HIDE DEF r, sync
  <2> QED BY <2>1, <2>2, <2>3, <2>4
          DEF Container!ContainerInv, Container!ContainerTyped, Container!Places
<1>6. ASSUME Container!Orderly, ~containerLate' PROVE Container!Orderly'
  <2>1. /\ containerClears = {} /\ containerTeardown = Container!Idle
        /\ containerPromised = 0 => containerInits = {}
    BY <1>1, <1>6, ContAloneWhenFree, ContainerSettingHolds
       DEF Container!ContainerSetting, Container!ContainerInv, Container!isDisposing
  <2>2. containerClears' \subseteq {r} /\ (containerPromised # 0 => containerClears' = {r})
    BY <1>1, <2>1
  <2>3. \A d \in Container!Calls : containerStep[d] # "settling"
    BY <1>6, <2>1 DEF Container!Orderly, Container!OneClear
  <2>4. \A d \in Container!Calls : containerStep'[d] = "settling" => d = c
           /\ containerOn'[d] = containerPromised /\ containerPromised # 0
    BY <1>1, <1>2, <2>3 DEF Container!ContainerInv, Container!ContainerTyped
  <2>5. Container!OneInit'
    BY <1>1, <1>6, <2>1 DEF Container!Orderly, Container!OneInit
  <2>6. Container!OneClear'
    <3>1. \A q \in containerClears' : q.by = containerMarker'
             /\ (q.of # 0 => q.of = containerInstance' /\ containerInits' = {})
      BY <1>1, <1>3, <2>1, <2>2
    <3>2. \A p, q \in containerClears' : p = q BY <2>2
    <3>3. \A d \in Container!Calls : containerStep'[d] = "settling" =>
            (\E q \in containerClears' : q.by = d /\ q.of = 0)
               /\ \A q \in containerInits' : q.id = containerOn'[d]
      BY <1>1, <1>3, <1>6, <2>2, <2>4 DEF Container!Orderly, Container!OneInit
    <3> HIDE DEF r
    <3> QED BY <3>1, <3>2, <3>3 DEF Container!OneClear
  <2>7. Container!OneTeardown' BY <1>1, <2>1 DEF Container!OneTeardown, Container!Idle
  <2>8. Container!OneAlive'
    BY <1>1, <1>4, <1>6 DEF Container!Orderly, Container!OneAlive
  <2> QED BY <2>5, <2>6, <2>7, <2>8 DEF Container!Orderly
<1>7. Container!Bad => Container!Bad' BY <1>1 DEF Container!Bad
<1> QED BY <1>1, <1>5, <1>6, <1>7 DEF Container!ContainerInv, Container!Bad

LEMMA ContDisposersKeep ==
  ASSUME Container!ContainerInv,
         \/ \E c \in Clearer : Container!Clear(c)
         \/ \E c \in Replacer : Container!Replace(c) \/ Container!ReplaceJoined(c)
  PROVE  Container!ContainerInv'
<1>1. /\ Clearer \subseteq Container!Disposer /\ Replacer \subseteq Container!Disposer
      /\ Container!Disposer \subseteq Container!Calls /\ 0 \in Container!Instances
      /\ {"queued", "done"} \subseteq Container!Places \ {"settling"}
  BY ContainerSettingHolds
     DEF Container!Disposer, Container!Calls, Container!Instances, Container!Places,
         Container!ContainerSetting
<1>2. ASSUME NEW c \in Clearer, Container!Clear(c) PROVE Container!ContainerInv'
  <2>1. CASE containerMarker # "none" BY <1>1, <1>2, <2>1, ContLeaveKeeps DEF Container!Clear
  <2>2. CASE containerMarker = "none"
    <3>1. Container!Dispose(c, 0) /\ containerBegun' = containerBegun
      BY <1>2, <2>2 DEF Container!Clear
    <3> QED
      BY <1>1, <3>1, ContDisposeKeeps DEF Container!ContainerInv, Container!ContainerTyped
  <2> QED BY <2>1, <2>2
<1>3. ASSUME NEW c \in Replacer, Container!Replace(c) PROVE Container!ContainerInv'
  <2>1. containerBegun + 1 \in Container!Instances /\ containerBegun' = containerBegun + 1
    BY <1>3, ContainerSettingHolds
       DEF Container!Replace, Container!ContainerInv, Container!ContainerTyped,
           Container!Instances, Container!ContainerSetting
  <2>2. CASE containerMarker = "none"
    BY <1>1, <1>3, <2>1, <2>2, ContDisposeKeeps DEF Container!Replace
  <2>3. CASE containerMarker # "none"
    <3>1. /\ containerStep' = [containerStep EXCEPT ![c] = "queued"]
          /\ containerOn' = [containerOn EXCEPT ![c] = containerBegun + 1]
          /\ UNCHANGED <<containerInstance, containerPromised, containerMarker, containerLife,
                         containerInits, containerClears, containerTeardown,
                         containerTeardowns, containerFailed, containerHurried, containerLate>>
      BY <1>3, <2>3 DEF Container!Replace, Container!Move
    <3>2. Container!ContainerTyped'
      BY <1>1, <2>1, <3>1
         DEF Container!ContainerInv, Container!ContainerTyped, Container!Places
    <3>3. \A d \in Container!Calls : containerStep'[d] = "settling" =>
            containerStep[d] = "settling" /\ containerOn'[d] = containerOn[d]
      BY <3>1 DEF Container!ContainerInv, Container!ContainerTyped
    <3>4. Container!OneClear => Container!OneClear' BY <3>1, <3>3 DEF Container!OneClear
    <3>5. Container!Orderly => Container!Orderly'
      BY <3>1, <3>4
         DEF Container!Orderly, Container!OneInit, Container!OneTeardown, Container!OneAlive
    <3> QED BY <3>1, <3>2, <3>5 DEF Container!ContainerInv
  <2> QED BY <2>2, <2>3
<1>4. ASSUME NEW c \in Replacer, Container!ReplaceJoined(c) PROVE Container!ContainerInv'
  <2>1. containerOn[c] \in Container!Instances /\ containerBegun' \in Container!Instances
    BY <1>1, <1>4
       DEF Container!ReplaceJoined, Container!ContainerInv, Container!ContainerTyped
  <2> QED BY <1>1, <1>4, <2>1, ContDisposeKeeps DEF Container!ReplaceJoined
<1> QED BY <1>2, <1>3, <1>4

(* The one body that runs has disposed of the instance, if it found one.   *)
LEMMA ContClearedKeeps ==
  ASSUME Container!ContainerInv,
         NEW r \in [by : Container!Disposer, of : Container!Instances,
                    brings : Container!Instances],
         Container!ClearedRegistration(r),
         Container!Orderly => containerInits = {} /\ containerClears = {r}
            /\ r.of = containerInstance,
         containerStep' \in [Container!Calls -> Container!Places],
            containerOn' \in [Container!Calls -> Container!Instances],
         Container!Orderly => \A d \in Container!Calls : containerStep'[d] # "settling",
         UNCHANGED <<containerInits, containerBegun, containerTeardown, containerTeardowns,
                     containerFailed, containerHurried, containerLate>>
  PROVE  Container!ContainerInv'
<1> DEFINE lives == IF r.of = 0 THEN containerLife ELSE [containerLife EXCEPT ![r.of] = "gone"]
<1>1. /\ containerInstance' = r.brings /\ containerPromised' = 0 /\ containerMarker' = "none"
      /\ containerClears' = containerClears \ {r}
      /\ containerLife' = Container!Installed(r.brings, lives)
  BY DEF Container!ClearedRegistration
<1>2. 0 \in Container!Instances
  BY ContainerSettingHolds DEF Container!Instances, Container!ContainerSetting
<1>3. /\ lives \in [1 .. MaxContainerInits -> {"none", "live", "gone"}]
      /\ \A i \in 1 .. MaxContainerInits :
           lives[i] = "live" => containerLife[i] = "live" /\ (r.of # 0 => i # r.of)
  BY DEF Container!ContainerInv, Container!ContainerTyped
<1>4. /\ containerLife' \in [1 .. MaxContainerInits -> {"none", "live", "gone"}]
      /\ \A i \in 1 .. MaxContainerInits :
           containerLife'[i] = "live" => i = containerInstance' \/ lives[i] = "live"
  <2> HIDE DEF lives
  <2> QED BY <1>1, <1>3, ContInstalled
<1>5. Container!ContainerTyped'
  BY <1>1, <1>2, <1>4 DEF Container!ContainerInv, Container!ContainerTyped, Container!Places
<1>6. ASSUME Container!Orderly PROVE Container!Orderly'
  <2>1. containerInits' = {} /\ containerClears' = {} BY <1>1, <1>6
  <2>2. Container!OneInit' BY <2>1 DEF Container!OneInit
  <2>3. Container!OneClear' BY <1>6, <2>1 DEF Container!OneClear
  <2>4. Container!OneTeardown'
    BY <1>6, <2>1 DEF Container!Orderly, Container!OneTeardown
  <2>5. Container!OneAlive'
    <3>1. \A i \in 1 .. MaxContainerInits : lives[i] = "live" => i \in containerFailed
      <4> HIDE DEF lives
      <4> QED BY <1>3, <1>6 DEF Container!Orderly, Container!OneAlive
    <3> HIDE DEF lives
    <3> QED BY <1>4, <3>1 DEF Container!OneAlive
  <2> QED BY <2>2, <2>3, <2>4, <2>5 DEF Container!Orderly
<1> QED BY <1>5, <1>6 DEF Container!ContainerInv

LEMMA ContClearSettledKeeps ==
  ASSUME Container!ContainerInv, NEW c \in Container!Disposer, NEW r \in containerClears,
         Container!ClearSettled(c, r)
  PROVE  Container!ContainerInv'
<1> DEFINE new == [r EXCEPT !.of = containerInstance]
<1>1. /\ containerStep[c] = "settling" /\ ~Container!Running(containerOn[c])
      /\ r.by = c /\ r.of = 0
      /\ containerStep' = [containerStep EXCEPT ![c] = "done"]
            /\ containerOn' = [containerOn EXCEPT ![c] = 0]
      /\ UNCHANGED <<containerInits, containerBegun, containerTeardown, containerTeardowns,
                     containerFailed, containerHurried, containerLate>>
  BY DEF Container!ClearSettled, Container!Move, Container!Ready
<1>2. c \in Container!Calls /\ 0 \in Container!Instances
  BY ContainerSettingHolds
     DEF Container!Calls, Container!Instances, Container!ContainerSetting
<1>3. /\ r \in [by : Container!Disposer, of : Container!Instances, brings : Container!Instances]
      /\ new \in [by : Container!Disposer, of : Container!Instances, brings : Container!Instances]
      /\ new.by = r.by /\ new.of = containerInstance
  BY DEF Container!ContainerInv, Container!ContainerTyped
<1>4. containerStep' \in [Container!Calls -> Container!Places]
         /\ containerOn' \in [Container!Calls -> Container!Instances]
  BY <1>1, <1>2 DEF Container!ContainerInv, Container!ContainerTyped, Container!Places
<1>5. ASSUME Container!Orderly
   PROVE containerInits = {} /\ containerClears = {r}
            /\ \A d \in Container!Calls : containerStep'[d] # "settling"
  <2>1. \A q \in containerInits : q.id = containerOn[c]
    BY <1>1, <1>2, <1>5 DEF Container!Orderly, Container!OneClear
  <2>2. containerInits = {} BY <1>1, <2>1 DEF Container!Running
  <2>3. containerClears = {r} BY <1>5 DEF Container!Orderly, Container!OneClear
  <2>4. \A d \in Container!Calls : containerStep[d] = "settling" => d = c
    BY <1>1, <1>5, <2>3 DEF Container!Orderly, Container!OneClear
  <2> QED
    BY <1>1, <1>2, <2>2, <2>3, <2>4 DEF Container!ContainerInv, Container!ContainerTyped
<1>6. CASE containerInstance = 0
  <2>1. Container!ClearedRegistration(r) BY <1>6 DEF Container!ClearSettled
  <2>2. Container!Orderly => containerInits = {} /\ containerClears = {r}
           /\ r.of = containerInstance
    BY <1>1, <1>5, <1>6
  <2> QED BY <1>1, <1>3, <1>4, <1>5, <2>1, <2>2, ContClearedKeeps
<1>7. CASE containerInstance # 0
  <2>1. containerClears' = (containerClears \ {r}) \cup {new}
           /\ UNCHANGED <<containerInstance, containerPromised, containerMarker, containerLife>>
    BY <1>7 DEF Container!ClearSettled
  <2> HIDE DEF new
  <2>2. containerClears' \subseteq [by : Container!Disposer, of : Container!Instances,
                                    brings : Container!Instances]
    BY <1>3, <2>1 DEF Container!ContainerInv, Container!ContainerTyped
  <2>3. Container!ContainerTyped'
    BY <1>1, <1>4, <2>1, <2>2
       DEF Container!ContainerInv, Container!ContainerTyped, Container!Places
  <2>4. ASSUME Container!Orderly PROVE Container!Orderly'
    <3>1. containerClears' = {new} /\ containerInits' = {} /\ containerInits = {}
             /\ containerClears # {}
      BY <1>1, <1>5, <2>1, <2>4
    <3>2. containerMarker = c
      BY <1>1, <2>4 DEF Container!Orderly, Container!OneClear
    <3>3. Container!OneInit' BY <3>1 DEF Container!OneInit
    <3>4. Container!OneClear'
      BY <1>1, <1>3, <1>5, <2>1, <2>4, <3>1, <3>2 DEF Container!OneClear
    <3>5. Container!OneTeardown'
      BY <1>1, <2>1, <2>4, <3>1 DEF Container!Orderly, Container!OneTeardown
    <3>6. Container!OneAlive' BY <1>1, <2>1, <2>4 DEF Container!Orderly, Container!OneAlive
    <3> QED BY <3>3, <3>4, <3>5, <3>6 DEF Container!Orderly
  <2> QED BY <1>1, <2>3, <2>4 DEF Container!ContainerInv
<1> QED BY <1>6, <1>7

LEMMA ContClearEndsKeeps ==
  ASSUME Container!ContainerInv, NEW r \in containerClears, Container!ClearEnds(r)
  PROVE  Container!ContainerInv'
<1>1. r \in [by : Container!Disposer, of : Container!Instances, brings : Container!Instances]
  BY DEF Container!ContainerInv, Container!ContainerTyped
<1>2. /\ r.of # 0 /\ Container!ClearedRegistration(r)
      /\ UNCHANGED <<containerInits, containerBegun, containerTeardown, containerTeardowns,
                     containerStep, containerOn, containerFailed, containerHurried,
                     containerLate>>
  BY DEF Container!ClearEnds
<1>3. Container!Orderly => containerInits = {} /\ containerClears = {r} /\ r.of = containerInstance
  BY <1>2 DEF Container!Orderly, Container!OneClear
<1>4. Container!Orderly => \A d \in Container!Calls : containerStep'[d] # "settling"
  BY <1>2, <1>3 DEF Container!Orderly, Container!OneClear
<1>5. containerStep' \in [Container!Calls -> Container!Places]
         /\ containerOn' \in [Container!Calls -> Container!Instances]
  BY <1>2 DEF Container!ContainerInv, Container!ContainerTyped, Container!Places
<1> QED BY <1>1, <1>2, <1>3, <1>4, <1>5, ContClearedKeeps

(* The teardown goes on to what it found: nothing of the registration moves.*)
LEMMA ContTeardownMovesKeeps ==
  ASSUME Container!ContainerInv, Container!ContainerTyped',
         Container!OneTeardown' \/ containerLate' \/ containerHurried' \/ ~Container!Orderly,
         UNCHANGED <<containerInstance, containerPromised, containerMarker, containerLife,
                     containerInits, containerBegun, containerClears, containerStep, containerOn,
                     containerFailed>>,
         Container!Bad => Container!Bad'
  PROVE  Container!ContainerInv'
<1>1. Container!Orderly => Container!OneInit' /\ Container!OneClear' /\ Container!OneAlive'
  BY DEF Container!Orderly, Container!OneInit, Container!OneClear, Container!OneAlive
<1> QED BY <1>1 DEF Container!ContainerInv, Container!Orderly, Container!Bad

LEMMA ContAwaitTyped ==
  ASSUME Container!ContainerTyped, NEW next
  PROVE  Container!Await(next) \in [stage : {"none", "inits", "disposals", "disposing"}, of : Container!Instances]
BY ContainerSettingHolds
   DEF Container!Await, Container!Idle, Container!ContainerTyped,
       Container!ContainerSetting, Container!Instances

LEMMA ContDisposeAllKeeps ==
  ASSUME Container!ContainerInv, Container!DisposeAll
  PROVE  Container!ContainerInv'
<1>1. /\ containerTeardown' = Container!Await("inits")
      /\ UNCHANGED <<containerInstance, containerPromised, containerMarker, containerLife,
                     containerInits, containerBegun, containerClears, containerStep, containerOn, containerFailed, containerHurried, containerLate>>
  BY DEF Container!DisposeAll
<1>2. Container!ContainerTyped'
  BY <1>1, ContAwaitTyped DEF Container!ContainerInv, Container!ContainerTyped
<1>3. Container!Orderly => Container!OneTeardown'
  <2> SUFFICES ASSUME Container!Orderly PROVE Container!OneTeardown' OBVIOUS
  <2>1. \A q \in containerInits : q.id = containerPromised
    BY DEF Container!Orderly, Container!OneInit
  <2>2. containerPromised = 0 => containerInits = {}
    BY ContAloneWhenFree, ContainerSettingHolds
       DEF Container!ContainerSetting, Container!ContainerInv
  <2> QED BY <1>1, <2>1, <2>2 DEF Container!OneTeardown, Container!Await, Container!Idle
<1> QED BY <1>1, <1>2, <1>3, ContTeardownMovesKeeps DEF Container!Bad

LEMMA ContTeardownGoesOnKeeps ==
  ASSUME Container!ContainerInv, Container!TeardownGoesOn
  PROVE  Container!ContainerInv'
<1>1. /\ containerTeardown.stage \in {"inits", "disposals"}
      /\ containerTeardown' = Container!Await(IF containerTeardown.stage = "inits" THEN "disposals"
            ELSE "snapshot")
      /\ UNCHANGED <<containerInstance, containerPromised, containerMarker, containerLife,
                     containerInits, containerBegun, containerClears, containerTeardowns, containerStep, containerOn, containerFailed, containerLate>>
      /\ containerHurried' = (containerHurried \/ ~Container!Settled)
  BY DEF Container!TeardownGoesOn
<1>2. Container!ContainerTyped'
  BY <1>1, ContAwaitTyped DEF Container!ContainerInv, Container!ContainerTyped
<1>3. Container!Orderly /\ Container!Settled => Container!OneTeardown'
  <2> SUFFICES ASSUME Container!Orderly, Container!Settled
     PROVE Container!OneTeardown' OBVIOUS
  <2>1. containerInits = {}
    BY <1>1
       DEF Container!Orderly, Container!OneTeardown, Container!Settled, Container!Running
  <2>2. containerTeardown.stage = "disposals" => containerClears = {}
    BY DEF Container!Settled
  <2> QED BY <1>1, <2>1, <2>2 DEF Container!OneTeardown, Container!Await, Container!Idle
<1>4. ~Container!Settled => containerHurried' BY <1>1
<1>5. Container!Bad => Container!Bad' BY <1>1 DEF Container!Bad
<1> QED BY <1>1, <1>2, <1>3, <1>4, <1>5, ContTeardownMovesKeeps

LEMMA ContTeardownEndsKeeps ==
  ASSUME Container!ContainerInv, Container!TeardownEnds
  PROVE  Container!ContainerInv'
<1>1. /\ containerTeardown.stage = "disposing" /\ containerTeardown' = Container!Idle
            /\ containerInstance' = 0 /\ containerPromised' = 0
      /\ containerLife' = [containerLife EXCEPT ![containerTeardown.of] = "gone"]
      /\ UNCHANGED <<containerMarker, containerInits, containerBegun, containerClears,
                     containerTeardowns, containerStep, containerOn, containerFailed, containerHurried, containerLate>>
  BY DEF Container!TeardownEnds
<1>2. Container!ContainerTyped'
  <2>1. 0 \in Container!Instances
    BY ContainerSettingHolds DEF Container!Instances, Container!ContainerSetting
  <2>2. containerLife' \in [1 .. MaxContainerInits -> {"none", "live", "gone"}]
    BY <1>1 DEF Container!ContainerInv, Container!ContainerTyped
  <2>3. containerTeardown' \in [stage : {"none", "inits", "disposals", "disposing"}, of : Container!Instances]
    BY <1>1, <2>1 DEF Container!Idle
  <2> QED BY <1>1, <2>1, <2>2, <2>3 DEF Container!ContainerInv, Container!ContainerTyped
<1>3. ASSUME Container!Orderly PROVE Container!Orderly'
  <2>1. containerInits = {} /\ containerClears = {} /\ containerTeardown.of = containerInstance
    BY <1>1, <1>3 DEF Container!Orderly, Container!OneTeardown
  <2>2. \A i \in 1 .. MaxContainerInits : containerLife'[i] = "live" => containerLife[i] = "live"
           /\ i # containerTeardown.of
    BY <1>1 DEF Container!ContainerInv, Container!ContainerTyped
  <2>3. Container!OneInit' BY <1>1, <2>1 DEF Container!OneInit
  <2>4. Container!OneClear'
    BY <1>1, <1>3, <2>1 DEF Container!Orderly, Container!OneClear
  <2>5. Container!OneTeardown' BY <1>1, <2>1 DEF Container!OneTeardown, Container!Idle
  <2>6. Container!OneAlive'
    BY <1>1, <1>3, <2>1, <2>2 DEF Container!Orderly, Container!OneAlive
  <2> QED BY <2>3, <2>4, <2>5, <2>6 DEF Container!Orderly
<1> QED BY <1>1, <1>2, <1>3 DEF Container!ContainerInv

LEMMA ContContainerStep == Container!ContainerInv /\ [Container!Next]_Container!containerVars
   => Container!ContainerInv'
<1> SUFFICES ASSUME Container!ContainerInv, [Container!Next]_Container!containerVars
   PROVE Container!ContainerInv' OBVIOUS
<1>1. CASE UNCHANGED Container!containerVars
  BY <1>1
     DEF Container!containerVars, Container!ContainerInv, Container!ContainerTyped,
         Container!Orderly, Container!OneInit, Container!OneClear, Container!OneTeardown,
         Container!OneAlive
<1>2. ASSUME NEW c \in Getter,
             Container!Get(c) \/ Container!GetWaited(c) \/ Container!GetJoined(c)
                PROVE Container!ContainerInv'
  BY <1>2, ContGetsKeep
<1>3. ASSUME NEW r \in containerInits, Container!Construct(r) PROVE Container!ContainerInv'
  BY <1>3, ContConstructKeeps
<1>4. ASSUME NEW r \in containerInits, Container!Succeed(r) \/ Container!Fail(r)
   PROVE Container!ContainerInv'
  BY <1>4, ContInitEndsKeeps
<1>5. CASE \/ \E c \in Clearer : Container!Clear(c)
           \/ \E c \in Replacer : Container!Replace(c) \/ Container!ReplaceJoined(c)
  BY <1>5, ContDisposersKeep
<1>6. ASSUME NEW c \in Container!Disposer, NEW r \in containerClears,
             Container!ClearSettled(c, r)
      PROVE  Container!ContainerInv'
  BY <1>6, ContClearSettledKeeps
<1>7. ASSUME NEW r \in containerClears, Container!ClearEnds(r) PROVE Container!ContainerInv'
  BY <1>7, ContClearEndsKeeps
<1>8. CASE Container!DisposeAll BY <1>8, ContDisposeAllKeeps
<1>9. CASE Container!TeardownGoesOn BY <1>9, ContTeardownGoesOnKeeps
<1>10. CASE Container!TeardownEnds BY <1>10, ContTeardownEndsKeeps
<1> QED BY <1>1, <1>2, <1>3, <1>4, <1>5, <1>6, <1>7, <1>8, <1>9, <1>10 DEF Container!Next

LEMMA ContContainerInit == Container!Init => Container!ContainerInv
<1> SUFFICES ASSUME Container!Init PROVE Container!ContainerInv OBVIOUS
<1>1. Container!ContainerTyped
  BY ContainerSettingHolds
     DEF Container!Init, Container!ContainerTyped, Container!Instances,
         Container!ContainerSetting, Container!Idle
<1>2. Container!Orderly
  BY DEF Container!Init, Container!Orderly, Container!OneInit, Container!OneClear,
     Container!OneTeardown, Container!OneAlive, Container!Idle
<1> QED BY <1>1, <1>2 DEF Container!ContainerInv

THEOREM TornDown == Container!Spec => []TornDownOnce
<1>1. Container!ContainerInv => TornDownOnce
  BY DEF Container!ContainerInv, Container!ContainerTyped, Container!Orderly,
     Container!OneInit, Container!OneClear, Container!OneTeardown, Container!OneAlive,
     TornDownOnce, Container!TornDownOnce, Container!Sole
<1> QED BY <1>1, ContContainerInit, ContContainerStep, PTL DEF Container!Spec

-----------------------------------------------------------------------------
(* The knowledge service.                                                  *)

(* A call goes on to wait for something, or is done, and nothing else moves.*)
LEMMA ServGoKeeps ==
  ASSUME Service!ServiceInv, NEW c \in Service!Caller, NEW to \in Service!Steps,
         NEW k \in Nat, Service!Go(c, to, k), UNCHANGED Service!fields,
         serviceCollided \/
           /\ to \in {"settle", "settling"} /\ k \notin serviceUnderWay => serviceDisposal # 0
                 \/ serviceInitLock
           /\ to = "rebuild" => \E d \in serviceClosing : d.id = k
  PROVE  Service!ServiceInv'
<1>1. serviceAt' = [serviceAt EXCEPT ![c] = to] /\ serviceAwaits' = [serviceAwaits EXCEPT ![c] = k]
  BY DEF Service!Go
<1>2. Service!ServiceTyped' /\ Service!OneBuild'
  BY <1>1 DEF Service!ServiceInv, Service!ServiceTyped, Service!OneBuild, Service!fields
<1>3. ASSUME Service!Tidy, ~serviceCollided PROVE Service!Tidy'
  <2>1. Service!DisposalKnown' /\ Service!BuildKnown' /\ Service!Held'
    BY <1>3
       DEF Service!Tidy, Service!DisposalKnown, Service!BuildKnown, Service!Stuck, Service!Held,
           Service!fields
  <2>2. Service!Waits'
    <3> SUFFICES ASSUME NEW e \in Service!Caller
                 PROVE  /\ serviceAt'[e] \in {"settle", "settling"}
                              /\ serviceAwaits'[e] \notin serviceUnderWay'
                             => serviceDisposal' # 0 \/ serviceInitLock'
                        /\ serviceAt'[e] = "rebuild" /\ Service!Resumes(e)' => ~Service!Settled'
      BY DEF Service!Waits
    <3>1. UNCHANGED <<serviceUnderWay, serviceDisposal, serviceInitLock, serviceClosing,
                      serviceLifecycle>> /\ Service!Settled' = Service!Settled
      BY DEF Service!fields, Service!Settled
    <3>2. CASE e = c
      <4>1. serviceAt'[c] = to /\ serviceAwaits'[c] = k
        BY <1>1 DEF Service!ServiceInv, Service!ServiceTyped
      <4>2. to = "rebuild" => ~Service!Resumes(c)'
        BY <1>3, <3>1, <4>1 DEF Service!Resumes
      <4> QED BY <1>3, <3>1, <3>2, <4>1, <4>2
    <3>3. CASE e # c
      <4>1. serviceAt'[e] = serviceAt[e] /\ serviceAwaits'[e] = serviceAwaits[e]
        BY <1>1, <3>3 DEF Service!ServiceInv, Service!ServiceTyped
      <4>2. Service!Resumes(e)' <=> Service!Resumes(e) BY <3>1, <4>1 DEF Service!Resumes
      <4> QED BY <1>3, <3>1, <4>1, <4>2 DEF Service!Tidy, Service!Waits
    <3> QED BY <3>2, <3>3
  <2> QED BY <2>1, <2>2 DEF Service!Tidy
<1>4. serviceCollided' = serviceCollided BY DEF Service!fields
<1> QED BY <1>2, <1>3, <1>4 DEF Service!ServiceInv

(* A disposal begins, with something to dispose of.                        *)
LEMMA ServTearDownKeeps ==
  ASSUME Service!ServiceInv, NEW c \in Service!Caller, NEW to \in {"done", "rebuild"},
         Service!TearDown(c, to),
         serviceCollided \/ (serviceDisposal = 0 /\ serviceInitLock)
  PROVE  Service!ServiceInv'
<1> DEFINE d == [id |-> serviceTorn + 1, build |-> serviceHeld, lock |-> serviceInitLock]
           nothing == serviceHeld = 0 /\ ~serviceInitLock
<1>1. /\ serviceDisposal' = serviceTorn + 1 /\ serviceTorn' = serviceTorn + 1
      /\ serviceLifecycle' = (IF nothing THEN "disposed" ELSE "disposing")
      /\ serviceClosing' = (IF nothing THEN serviceClosing ELSE serviceClosing \cup {d})
      /\ serviceCollided' = (serviceCollided \/ serviceUnderWay # {})
      /\ serviceAt' = [serviceAt EXCEPT ![c] = to]
            /\ serviceAwaits' = [serviceAwaits EXCEPT ![c] = serviceTorn + 1]
      /\ UNCHANGED <<serviceScope, serviceWants, serviceParts, serviceHeld, serviceInitLock,
                     serviceBuilding, serviceBuilt, serviceUnderWay>>
  BY DEF Service!TearDown, Service!Go
<1>2. d \in Service!Disposal /\ d.id = serviceTorn + 1 /\ d.build = serviceHeld
         /\ d.lock = serviceInitLock
  BY DEF Service!ServiceInv, Service!ServiceTyped, Service!Disposal
<1>3. Service!ServiceTyped'
  BY <1>1, <1>2 DEF Service!ServiceInv, Service!ServiceTyped, Service!Steps
<1>4. Service!OneBuild' BY <1>1 DEF Service!ServiceInv, Service!OneBuild
<1>5. ASSUME Service!Tidy, ~serviceCollided' PROVE Service!Tidy'
  <2>1. ~serviceCollided /\ serviceDisposal = 0 /\ serviceInitLock /\ serviceUnderWay = {}
           /\ serviceBuilding = 0 /\ serviceClosing = {}
    BY <1>1, <1>5
       DEF Service!ServiceInv, Service!OneBuild, Service!Tidy, Service!DisposalKnown
  <2>2. serviceClosing' = {d} /\ serviceLifecycle' = "disposing" /\ serviceDisposal' # 0
    BY <1>1, <2>1 DEF Service!ServiceInv, Service!ServiceTyped
  <2>3. Service!DisposalKnown' BY <1>1, <1>2, <2>1, <2>2 DEF Service!DisposalKnown
  <2>4. Service!BuildKnown' BY <1>1, <2>1 DEF Service!BuildKnown
  <2>5. Service!Held' BY <1>1, <1>5, <2>2 DEF Service!Tidy, Service!Held, Service!Stuck
  <2>6. Service!Waits' BY <2>2 DEF Service!Waits, Service!Settled
  <2> QED BY <2>3, <2>4, <2>5, <2>6 DEF Service!Tidy
<1>6. serviceCollided => serviceCollided' BY <1>1
<1> QED BY <1>3, <1>4, <1>5, <1>6 DEF Service!ServiceInv

LEMMA ServDisposeKeeps ==
  ASSUME Service!ServiceInv, NEW c \in Service!Caller, NEW to \in {"done", "rebuild"},
         NEW wait \in {"settle", "settling"},
         Service!Dispose(c, to, wait), to = "rebuild" => Service!Settled
  PROVE  Service!ServiceInv'
<1>0. {"done", "rebuild", "settle", "settling"} \subseteq Service!Steps /\ serviceDisposal \in Nat
         /\ serviceBuilding \in Nat
  BY ServiceSettingHolds
     DEF Service!Steps, Service!ServiceInv, Service!ServiceTyped, Service!Builds,
         Service!ServiceSetting
<1>1. CASE serviceLifecycle \in {"disposed", "uninitialized"} \/ serviceDisposal # 0
  <2>1. Service!Go(c, to, serviceDisposal) /\ UNCHANGED Service!fields
    BY <1>1 DEF Service!Dispose
  <2>2. to = "rebuild" /\ ~serviceCollided => \E d \in serviceClosing : d.id = serviceDisposal
    BY <1>1 DEF Service!ServiceInv, Service!Tidy, Service!DisposalKnown, Service!Settled
  <2> QED BY <1>0, <2>1, <2>2, ServGoKeeps
<1>2. CASE serviceLifecycle \notin {"disposed", "uninitialized"} /\ serviceDisposal = 0
              /\ serviceBuilding # 0
  <2>1. Service!Go(c, wait, serviceBuilding) /\ UNCHANGED Service!fields
    BY <1>2 DEF Service!Dispose
  <2>2. serviceBuilding \in serviceUnderWay
    BY <1>2 DEF Service!ServiceInv, Service!OneBuild
  <2> QED BY <1>0, <2>1, <2>2, ServGoKeeps
<1>3. CASE serviceLifecycle \notin {"disposed", "uninitialized"} /\ serviceDisposal = 0
              /\ serviceBuilding = 0
  <2>1. Service!TearDown(c, to) BY <1>3 DEF Service!Dispose
  <2>2. serviceCollided \/ serviceInitLock
    BY <1>3
       DEF Service!ServiceInv, Service!ServiceTyped, Service!Tidy, Service!DisposalKnown,
           Service!Held
  <2> QED BY <1>3, <2>1, <2>2, ServTearDownKeeps
<1> QED BY <1>1, <1>2, <1>3

LEMMA ServBuildSettledKeeps ==
  ASSUME Service!ServiceInv, NEW c \in Service!Caller, Service!BuildSettled(c)
  PROVE  Service!ServiceInv'
<1>1. PICK to \in {"done", "rebuild"} : Service!DisposeNow(c, to)
         /\ serviceAt[c] \in {"settle", "settling"}
  BY DEF Service!BuildSettled
<1>2. serviceAwaits[c] \notin serviceUnderWay
  BY <1>1 DEF Service!DisposeNow, Service!Resumes
<1>3. CASE serviceDisposal # 0
  <2>1. Service!Go(c, to, serviceDisposal) /\ UNCHANGED Service!fields
    BY <1>1, <1>3 DEF Service!DisposeNow
  <2>2. ~serviceCollided => \E d \in serviceClosing : d.id = serviceDisposal
    BY <1>3 DEF Service!ServiceInv, Service!Tidy, Service!DisposalKnown
  <2>3. serviceDisposal \in Nat /\ to \in Service!Steps \ {"settle", "settling"}
    BY <1>1 DEF Service!ServiceInv, Service!ServiceTyped, Service!Steps
  <2> QED BY <2>1, <2>2, <2>3, ServGoKeeps
<1>4. CASE serviceDisposal = 0
  <2>1. Service!TearDown(c, to) BY <1>1, <1>4 DEF Service!DisposeNow
  <2>2. serviceCollided \/ serviceInitLock
    BY <1>1, <1>2, <1>4 DEF Service!ServiceInv, Service!Tidy, Service!Waits
  <2> QED BY <1>4, <2>1, <2>2, ServTearDownKeeps
<1> QED BY <1>3, <1>4

LEMMA ServStartKeeps ==
  ASSUME Service!ServiceInv, NEW c \in Service!Caller, Service!Start(c),
         serviceBuilding = 0,
         serviceCollided \/ serviceClosing # {} \/ serviceHeld = 0 \/ Service!Stuck
  PROVE  Service!ServiceInv'
<1>1. /\ serviceBuilt < MaxServiceBuilds /\ serviceBuilt' = serviceBuilt + 1
      /\ serviceLifecycle' = "initializing" /\ serviceInitLock' = TRUE
      /\ serviceBuilding' = serviceBuilt + 1
            /\ serviceUnderWay' = serviceUnderWay \cup {serviceBuilt + 1}
      /\ serviceCollided' = (serviceCollided \/ serviceClosing # {})
      /\ serviceAt' = [serviceAt EXCEPT ![c] = "done"]
            /\ serviceAwaits' = [serviceAwaits EXCEPT ![c] = 0]
      /\ UNCHANGED <<serviceWants, serviceParts, serviceHeld, serviceDisposal, serviceTorn,
                     serviceClosing>>
  BY DEF Service!Start, Service!Go
<1>2. serviceBuilt + 1 \in Service!Builds \ {0}
  BY <1>1, ServiceSettingHolds
     DEF Service!ServiceInv, Service!ServiceTyped, Service!Builds, Service!ServiceSetting
<1>3. Service!ServiceTyped'
  BY <1>1, <1>2 DEF Service!ServiceInv, Service!ServiceTyped, Service!Steps
<1>4. Service!OneBuild' BY <1>1, <1>2 DEF Service!ServiceInv, Service!OneBuild
<1>5. ASSUME Service!Tidy, ~serviceCollided' PROVE Service!Tidy'
  <2>1. ~serviceCollided /\ serviceClosing = {} /\ serviceDisposal = 0
           /\ (serviceHeld = 0 \/ Service!Stuck)
    BY <1>1, <1>5 DEF Service!Tidy, Service!DisposalKnown
  <2>2. Service!DisposalKnown' BY <1>1, <2>1 DEF Service!DisposalKnown
  <2>3. Service!BuildKnown' BY <1>1, <2>1 DEF Service!BuildKnown, Service!Stuck
  <2>4. Service!Held' BY <1>1, <1>5, <2>1 DEF Service!Tidy, Service!Held, Service!Stuck
  <2>5. Service!Waits' BY <1>1 DEF Service!Waits, Service!Settled
  <2> QED BY <2>2, <2>3, <2>4, <2>5 DEF Service!Tidy
<1>6. serviceCollided => serviceCollided' BY <1>1
<1> QED BY <1>3, <1>4, <1>5, <1>6 DEF Service!ServiceInv

LEMMA ServJoinOrStartKeeps ==
  ASSUME Service!ServiceInv, NEW c \in Service!Caller, Service!JoinOrStart(c),
         serviceCollided \/ ~Service!Settled
  PROVE  Service!ServiceInv'
<1>1. serviceBuilding \in Nat /\ 0 \in Nat /\ {"done", "outwait"} \subseteq Service!Steps
  BY ServiceSettingHolds
     DEF Service!Steps, Service!ServiceInv, Service!ServiceTyped, Service!Builds,
         Service!ServiceSetting
<1>2. CASE serviceBuilding = 0
  <2>1. serviceCollided \/ serviceClosing # {} \/ serviceHeld = 0 \/ Service!Stuck
    BY DEF Service!ServiceInv, Service!Tidy, Service!Held, Service!DisposalKnown,
       Service!Settled
  <2> QED BY <1>2, <2>1, ServStartKeeps DEF Service!JoinOrStart
<1>3. CASE serviceBuilding # 0 BY <1>1, <1>3, ServGoKeeps DEF Service!JoinOrStart
<1> QED BY <1>2, <1>3

LEMMA ServOpenersKeep ==
  ASSUME Service!ServiceInv, NEW c \in Opener,
         Service!Initialize(c) \/ Service!Rebuild(c) \/ Service!Outwaited(c)
  PROVE  Service!ServiceInv'
<1>1. c \in Service!Caller /\ "done" \in Service!Steps /\ 0 \in Nat
  BY DEF Service!Caller, Service!Steps
<1>2. CASE Service!Initialize(c)
  BY <1>1, <1>2, ServJoinOrStartKeeps, ServGoKeeps, ServDisposeKeeps DEF Service!Initialize
<1>3. CASE Service!Rebuild(c)
  <2>1. Service!JoinOrStart(c) /\ serviceAt[c] = "rebuild" /\ Service!Resumes(c)
    BY <1>3 DEF Service!Rebuild
  <2>2. serviceCollided \/ ~Service!Settled
    BY <1>1, <2>1 DEF Service!ServiceInv, Service!Tidy, Service!Waits
  <2> QED BY <1>1, <2>1, <2>2, ServJoinOrStartKeeps
<1>4. CASE Service!Outwaited(c)
  BY <1>1, <1>4, ServJoinOrStartKeeps, ServGoKeeps, ServDisposeKeeps DEF Service!Outwaited
<1> QED BY <1>2, <1>3, <1>4

(* A disposal ends, when no call has still to go on: it has closed what it *)
(* had in hand, or failed on it.                                           *)
LEMMA ServOverKeeps ==
  ASSUME Service!ServiceInv, NEW d \in serviceClosing,
         NEW outcome \in {"closed", "stuck"}, Service!Over(d, outcome),
         \/ /\ outcome = "closed"
            /\ serviceHeld' = (IF serviceHeld = d.build THEN 0 ELSE serviceHeld)
            /\ serviceInitLock' = (serviceInitLock /\ ~d.lock)
         \/ outcome = "stuck" /\ UNCHANGED <<serviceHeld, serviceInitLock>>
  PROVE  Service!ServiceInv'
<1>1. /\ Service!NoneResumes /\ serviceClosing' = serviceClosing \ {d}
            /\ serviceLifecycle' = "disposed"
      /\ serviceParts' = (IF d.build = 0 THEN serviceParts
            ELSE [serviceParts EXCEPT ![d.build] = outcome])
      /\ serviceDisposal' = (IF serviceDisposal = d.id THEN 0 ELSE serviceDisposal)
      /\ UNCHANGED <<serviceScope, serviceWants, serviceBuilding, serviceBuilt, serviceUnderWay,
                     serviceTorn, serviceAt, serviceAwaits, serviceCollided>>
  BY DEF Service!Over
<1>2. d \in Service!Disposal /\ 0 \in Service!Builds
  BY ServiceSettingHolds
     DEF Service!ServiceInv, Service!ServiceTyped, Service!Builds, Service!ServiceSetting
<1>3. Service!ServiceTyped'
  <2>1. serviceParts' \in [Service!Build -> {"none", "live", "stuck", "closed"}]
           /\ serviceHeld' \in Service!Builds /\ serviceDisposal' \in Nat
    BY <1>1, <1>2 DEF Service!ServiceInv, Service!ServiceTyped
  <2>2. serviceInitLock' \in BOOLEAN BY <1>1 DEF Service!ServiceInv, Service!ServiceTyped
  <2> QED BY <1>1, <2>1, <2>2 DEF Service!ServiceInv, Service!ServiceTyped
<1>4. Service!OneBuild' BY <1>1 DEF Service!ServiceInv, Service!OneBuild
<1>5. ASSUME Service!Tidy PROVE Service!Tidy'
  <2>1. serviceDisposal # 0 /\ serviceBuilding = 0 /\ serviceClosing = {d}
           /\ d.id = serviceDisposal /\ d.build = serviceHeld /\ d.lock = serviceInitLock
    BY <1>5 DEF Service!Tidy, Service!DisposalKnown
  <2>2. serviceClosing' = {} /\ serviceDisposal' = 0 BY <1>1, <2>1
  <2>3. serviceHeld' = 0 \/ (serviceHeld' # 0 /\ serviceParts'[serviceHeld'] = "stuck")
    BY <1>1, <1>2, <2>1
       DEF Service!ServiceInv, Service!ServiceTyped, Service!Builds, Service!Build
  <2>4. Service!DisposalKnown' BY <1>1, <2>2 DEF Service!DisposalKnown
  <2>5. Service!BuildKnown' BY <1>1, <2>1 DEF Service!BuildKnown
  <2>6. \A b \in Service!Build : serviceParts'[b] # "live"
    <3> SUFFICES ASSUME NEW b \in Service!Build, serviceParts'[b] = "live"
       PROVE FALSE OBVIOUS
    <3>1. serviceParts[b] = "live" /\ b # d.build
      BY <1>1, <1>2
         DEF Service!ServiceInv, Service!ServiceTyped, Service!Disposal, Service!Builds,
             Service!Build
    <3> QED BY <1>5, <2>1, <3>1 DEF Service!Tidy, Service!Held
  <2>7. Service!Held' BY <1>1, <2>3, <2>6 DEF Service!Held, Service!Stuck
  <2>8. Service!Waits'
    BY <1>1 DEF Service!Waits, Service!Settled, Service!NoneResumes, Service!Resumes
  <2> QED BY <2>4, <2>5, <2>7, <2>8 DEF Service!Tidy
<1> QED BY <1>1, <1>3, <1>4, <1>5 DEF Service!ServiceInv

(* A build ends, when no call has still to go on.                          *)
LEMMA ServPublishKeeps ==
  ASSUME Service!ServiceInv, NEW b \in serviceUnderWay,
         NEW o \in {"initialized", "disabled", "uninitialized"}, Service!Publish(b, o)
  PROVE  Service!ServiceInv'
<1>1. /\ Service!NoneResumes /\ serviceUnderWay' = serviceUnderWay \ {b}
      /\ serviceBuilding' = (IF serviceBuilding = b THEN 0 ELSE serviceBuilding)
            /\ serviceLifecycle' = o
      /\ serviceParts' = (IF o = "initialized" THEN [serviceParts EXCEPT ![b] = "live"]
            ELSE serviceParts)
      /\ UNCHANGED <<serviceScope, serviceWants, serviceInitLock, serviceBuilt, serviceDisposal,
                     serviceTorn, serviceClosing, serviceAt, serviceAwaits, serviceCollided>>
  BY DEF Service!Publish
<1>2. serviceHeld' = (IF o = "initialized" THEN b ELSE IF o = "disabled" THEN 0 ELSE serviceHeld)
  BY DEF Service!Publish
<1>3. b = serviceBuilding /\ b # 0 /\ b \in Service!Build /\ b \in Service!Builds
         /\ 0 \in Service!Builds
  BY ServiceSettingHolds
     DEF Service!ServiceInv, Service!OneBuild, Service!ServiceTyped, Service!Builds,
         Service!Build, Service!ServiceSetting
<1>4. Service!ServiceTyped'
  BY <1>1, <1>2, <1>3 DEF Service!ServiceInv, Service!ServiceTyped
<1>5. serviceUnderWay' = {} /\ serviceBuilding' = 0
  BY <1>1, <1>3 DEF Service!ServiceInv, Service!OneBuild
<1>6. Service!OneBuild' BY <1>5 DEF Service!OneBuild
<1>7. ASSUME Service!Tidy PROVE Service!Tidy'
  <2>1. /\ serviceHeld = 0 \/ Service!Stuck
        /\ serviceDisposal = 0 /\ serviceInitLock /\ serviceClosing = {}
    BY <1>3, <1>7 DEF Service!Tidy, Service!BuildKnown, Service!DisposalKnown
  <2>2. Service!DisposalKnown' BY <1>1, <2>1 DEF Service!DisposalKnown
  <2>3. Service!BuildKnown' BY <1>5 DEF Service!BuildKnown
  <2>4. \A e \in Service!Build : serviceParts'[e] = "live" => o = "initialized" /\ e = b
    <3> SUFFICES ASSUME NEW e \in Service!Build, serviceParts'[e] = "live",
       ~(o = "initialized" /\ e = b) PROVE FALSE OBVIOUS
    <3>1. serviceParts[e] = "live" BY <1>1 DEF Service!ServiceInv, Service!ServiceTyped
    <3>2. serviceHeld = e /\ e # 0
      BY <1>7, <3>1 DEF Service!Tidy, Service!Held, Service!Build
    <3> QED BY <2>1, <3>1, <3>2 DEF Service!Stuck
  <2>5. Service!Held'
    BY <1>1, <1>2, <1>3, <2>1, <2>4
       DEF Service!ServiceInv, Service!ServiceTyped, Service!Held, Service!Stuck
  <2>6. Service!Waits'
    BY <1>1, <2>1 DEF Service!Waits, Service!NoneResumes, Service!Resumes
  <2> QED BY <2>2, <2>3, <2>5, <2>6 DEF Service!Tidy
<1> QED BY <1>1, <1>4, <1>6, <1>7 DEF Service!ServiceInv

LEMMA ServServiceStep == Service!ServiceInv /\ [Service!Next]_Service!serviceVars
   => Service!ServiceInv'
<1> SUFFICES ASSUME Service!ServiceInv, [Service!Next]_Service!serviceVars
   PROVE Service!ServiceInv' OBVIOUS
<1>1. CASE UNCHANGED Service!serviceVars
  BY <1>1
     DEF Service!serviceVars, Service!ServiceInv, Service!ServiceTyped, Service!OneBuild,
         Service!Tidy, Service!DisposalKnown, Service!BuildKnown, Service!Held,
         Service!Waits,
     Service!Resumes, Service!Settled, Service!Stuck
<1>2. ASSUME NEW c \in Opener,
             Service!Initialize(c) \/ Service!Rebuild(c) \/ Service!Outwaited(c)
                PROVE Service!ServiceInv'
  BY <1>2, ServOpenersKeep
<1>3. ASSUME NEW c \in Closer, Service!Close(c) PROVE Service!ServiceInv'
  BY <1>3, ServDisposeKeeps DEF Service!Close, Service!Caller
<1>4. ASSUME NEW c \in Service!Caller, Service!BuildSettled(c) PROVE Service!ServiceInv'
  BY <1>4, ServBuildSettledKeeps
<1>5. ASSUME NEW d \in serviceClosing, Service!Closed(d) \/ Service!CloseFails(d)
      PROVE  Service!ServiceInv'
  BY <1>5, ServOverKeeps DEF Service!Closed, Service!CloseFails
<1>6. ASSUME NEW b \in serviceUnderWay,
             NEW o \in {"initialized", "disabled", "uninitialized"}, Service!Publish(b, o)
      PROVE  Service!ServiceInv'
  BY <1>6, ServPublishKeeps
<1> QED BY <1>1, <1>2, <1>3, <1>4, <1>5, <1>6 DEF Service!Next

LEMMA ServServiceInit == Service!Init => Service!ServiceInv
<1> SUFFICES ASSUME Service!Init PROVE Service!ServiceInv OBVIOUS
<1>1. Service!ServiceTyped
  <2>1. 0 \in Service!Builds
    BY ServiceSettingHolds DEF Service!Builds, Service!ServiceSetting
  <2>2. serviceAt \in [Service!Caller -> Service!Steps] /\ serviceAwaits \in [Service!Caller -> Nat]
    BY DEF Service!Init, Service!Steps
  <2>3. serviceParts \in [Service!Build -> {"none", "live", "stuck", "closed"}]
    BY DEF Service!Init
  <2>4. serviceHeld \in Service!Builds /\ serviceBuilding \in Service!Builds
           /\ serviceBuilt \in Service!Builds /\ serviceDisposal \in Nat /\ serviceTorn \in Nat
    BY <2>1 DEF Service!Init
  <2>5. serviceInitLock \in BOOLEAN /\ serviceCollided \in BOOLEAN
           /\ serviceClosing \subseteq Service!Disposal
    BY DEF Service!Init
  <2> QED BY <2>2, <2>3, <2>4, <2>5 DEF Service!Init, Service!ServiceTyped
<1>2. Service!OneBuild /\ Service!Tidy
  BY DEF Service!Init, Service!OneBuild, Service!Tidy, Service!DisposalKnown,
     Service!BuildKnown, Service!Held, Service!Waits
<1> QED BY <1>1, <1>2 DEF Service!ServiceInv

THEOREM NoLeaks == Service!Spec => []NoComponentsLeak
<1>1. Service!ServiceInv => NoComponentsLeak
  BY DEF Service!ServiceInv, Service!ServiceTyped, Service!Tidy, Service!DisposalKnown,
     Service!Held, Service!Stuck, NoComponentsLeak, Service!NoComponentsLeak
<1> QED BY <1>1, ServServiceInit, ServServiceStep, PTL DEF Service!Spec

-----------------------------------------------------------------------------
(* The embedding election.                                                 *)

(* Where a session neither loads a model to serve it nor serves it.        *)
LeadOff == Leader!Places \ (Leader!Loading \cup Leader!Serving \cup {"dead"})

LEMMA LeadOffPlaces ==
  /\ {"new", "joined", "outwait", "replacing", "claim", "local", "poll", "retry", "clear",
      "client", "failed", "closing", "wedged", "gone"} \subseteq LeadOff
  /\ LeadOff \subseteq Leader!Places
BY DEF LeadOff, Leader!Places, Leader!Loading, Leader!Serving

(* Sessions move aside, and the entry stays or, being of none that stays,  *)
(* goes.                                                                   *)
LEMMA LeadAsideKeeps ==
  ASSUME Leader!ElectionInv, leaderDead' = leaderDead,
         leaderPlace' \in [Session -> Leader!Places],
         \A t \in Session : \/ leaderPlace'[t] = leaderPlace[t]
                            \/ leaderPlace[t] # "dead" /\ leaderPlace'[t] \in LeadOff,
         leaderEntry' \in {leaderEntry, None},
         leaderExcuse' = {} => leaderExcuse = {}
            /\ (leaderEntry' # leaderEntry =>
                  \A t \in Leader!Active : leaderPlace'[t] \in LeadOff)
  PROVE  Leader!ElectionInv'
<1>1. Leader!ElectionTyped'
  BY DEF Leader!ElectionInv, Leader!ElectionTyped, Leader!Living, LeadOff
<1>2. ASSUME leaderExcuse' = {} PROVE Leader!Listed'
  <2> SUFFICES ASSUME NEW t \in Session,
     leaderPlace'[t] \in Leader!Loading \cup Leader!Serving PROVE Leader!Mine(t)'
    BY DEF Leader!Listed, Leader!Active
  <2>1. leaderPlace'[t] \notin LeadOff BY DEF LeadOff
  <2>2. t \in Leader!Active BY <2>1 DEF Leader!Active
  <2> QED BY <1>2, <2>1, <2>2 DEF Leader!ElectionInv, Leader!Listed, Leader!Mine
<1> QED BY <1>1, <1>2 DEF Leader!ElectionInv

(* One session moves aside, and the entry stays.                           *)
LEMMA LeadOneAsideKeeps ==
  ASSUME Leader!ElectionInv, NEW s \in Session, NEW to \in LeadOff, Leader!Go(s, to),
         leaderPlace[s] # "dead", UNCHANGED <<leaderEntry, leaderDead, leaderExcuse>>
  PROVE  Leader!ElectionInv'
<1>1. leaderPlace' = [leaderPlace EXCEPT ![s] = to] BY DEF Leader!Go
<1>2. \A t \in Session : leaderPlace'[t] = IF t = s THEN to ELSE leaderPlace[t]
  BY <1>1 DEF Leader!ElectionInv, Leader!ElectionTyped
<1>3. leaderPlace' \in [Session -> Leader!Places]
  BY <1>1, LeadOffPlaces DEF Leader!ElectionInv, Leader!ElectionTyped
<1> QED BY <1>2, <1>3, LeadAsideKeeps

(* While nothing is excused, the only session that may be active is the    *)
(* owner of the entry.                                                     *)
LEMMA LeadOnlyOwner ==
  ASSUME Leader!ElectionInv, leaderExcuse = {}
  PROVE  \A t \in Leader!Active : leaderEntry # None /\ t = leaderEntry.owner
BY DEF Leader!ElectionInv, Leader!Listed, Leader!Mine

(* One that was active, and whoever goes aside with it, stops being so,    *)
(* and its entry may go.                                                   *)
LEMMA LeadShutKeeps ==
  ASSUME Leader!ElectionInv, NEW k \in Leader!Active, leaderDead' = leaderDead,
         leaderExcuse' = leaderExcuse,
         leaderPlace' \in [Session -> Leader!Places], leaderPlace'[k] \in LeadOff,
         \A t \in Session : \/ leaderPlace'[t] = leaderPlace[t]
                            \/ leaderPlace[t] # "dead" /\ leaderPlace'[t] \in LeadOff,
         leaderEntry' \in {leaderEntry, None}
  PROVE  Leader!ElectionInv'
<1>1. leaderExcuse = {} => \A t \in Leader!Active : t = k BY LeadOnlyOwner
<1> QED BY <1>1, LeadAsideKeeps

(* One that loads or serves goes on doing so.                              *)
LEMMA LeadServesOnKeeps ==
  ASSUME Leader!ElectionInv, NEW s \in Leader!Active,
         NEW to \in Leader!Loading \cup Leader!Serving,
         leaderPlace' = [leaderPlace EXCEPT ![s] = to], leaderDead' = leaderDead,
            leaderExcuse' = leaderExcuse,
         \/ leaderEntry' = leaderEntry
         \/ Leader!Mine(s) /\ leaderEntry' = [leaderEntry EXCEPT !.up = TRUE]
  PROVE  Leader!ElectionInv'
<1>1. \A t \in Session : leaderPlace'[t] = IF t = s THEN to ELSE leaderPlace[t]
  BY DEF Leader!ElectionInv, Leader!ElectionTyped
<1>2. leaderEntry # None => leaderEntry.owner \in Session
  BY DEF Leader!ElectionInv, Leader!ElectionTyped
<1>3. Leader!Mine(s) => [leaderEntry EXCEPT !.up = TRUE] \in [owner : Session, up : BOOLEAN]
                 /\ [leaderEntry EXCEPT !.up = TRUE].owner = s
  BY DEF Leader!ElectionInv, Leader!ElectionTyped, Leader!Mine
<1>4. Leader!ElectionTyped'
  <2>1. to \in Leader!Places BY DEF Leader!Loading, Leader!Serving, Leader!Places
  <2>2. Leader!Living(s)
    BY DEF Leader!ElectionInv, Leader!ElectionTyped, Leader!Active, Leader!Loading,
       Leader!Serving
  <2> QED
    BY <1>1, <1>3, <2>1, <2>2 DEF Leader!ElectionInv, Leader!ElectionTyped, Leader!Living
<1>5. ASSUME leaderExcuse' = {} PROVE Leader!Listed'
  <2> SUFFICES ASSUME NEW t \in Session,
     leaderPlace'[t] \in Leader!Loading \cup Leader!Serving PROVE Leader!Mine(t)'
    BY DEF Leader!Listed, Leader!Active
  <2>1. t \in Leader!Active BY <1>1 DEF Leader!Active
  <2>2. Leader!Mine(t) BY <1>5, <2>1 DEF Leader!ElectionInv, Leader!Listed
  <2>3. leaderEntry' # None /\ leaderEntry'.owner = leaderEntry.owner
    BY <1>3, <2>2, ElectionSettingHolds DEF Leader!ElectionSetting, Leader!Mine
  <2> QED BY <2>2, <2>3 DEF Leader!Mine
<1> QED BY <1>4, <1>5 DEF Leader!ElectionInv

LEMMA LeadClaimKeeps ==
  ASSUME Leader!ElectionInv, NEW s \in Session, Leader!Claim(s)
  PROVE  Leader!ElectionInv'
<1>1. leaderPlace[s] = "claim" /\ leaderDead' = leaderDead /\ leaderExcuse' = leaderExcuse
  BY DEF Leader!Claim, Leader!world
<1>2. CASE leaderEntry # None /\ Leader!Living(leaderEntry.owner)
  BY <1>1, <1>2, LeadOneAsideKeeps, LeadOffPlaces DEF Leader!Claim
<1>3. CASE ~(leaderEntry # None /\ Leader!Living(leaderEntry.owner))
  <2>1. leaderEntry' = [owner |-> s, up |-> FALSE]
           /\ leaderPlace' = [leaderPlace EXCEPT ![s] = "init"]
    BY <1>3 DEF Leader!Claim, Leader!Go
  <2>2. \A t \in Session : leaderPlace'[t] = IF t = s THEN "init" ELSE leaderPlace[t]
    BY <2>1 DEF Leader!ElectionInv, Leader!ElectionTyped
  <2>3. Leader!ElectionTyped'
    BY <1>1, <2>1, <2>2
       DEF Leader!ElectionInv, Leader!ElectionTyped, Leader!Living, Leader!Places
  <2>4. ASSUME leaderExcuse' = {} PROVE Leader!Listed'
    <3> SUFFICES ASSUME NEW t \in Session,
       leaderPlace'[t] \in Leader!Loading \cup Leader!Serving PROVE Leader!Mine(t)'
      BY DEF Leader!Listed, Leader!Active
    <3>1. t = s
      <4> SUFFICES ASSUME t # s PROVE FALSE OBVIOUS
      <4>1. t \in Leader!Active /\ Leader!Living(t)
        BY <2>2
           DEF Leader!Active, Leader!ElectionInv, Leader!ElectionTyped, Leader!Loading,
               Leader!Serving
      <4>2. Leader!Mine(t) BY <1>1, <2>4, <4>1 DEF Leader!ElectionInv, Leader!Listed
      <4> QED BY <1>3, <4>1, <4>2 DEF Leader!Mine
    <3>2. leaderEntry' # None /\ leaderEntry'.owner = s
      <4>1. [owner |-> s, up |-> FALSE] \in [owner : Session, up : BOOLEAN] OBVIOUS
      <4> QED BY <2>1, <4>1, ElectionSettingHolds DEF Leader!ElectionSetting
    <3> QED BY <3>1, <3>2 DEF Leader!Mine
  <2> QED BY <2>3, <2>4 DEF Leader!ElectionInv
<1> QED BY <1>2, <1>3

(* The cached instance of another model is taken out.                      *)
LEMMA LeadReplaceKeeps ==
  ASSUME Leader!ElectionInv, Leader!CachedHere, NEW s \in Session, Leader!Replace(s),
         leaderPlace[s] \in {"new", "retry"}, UNCHANGED <<leaderDead, leaderExcuse>>
  PROVE  Leader!ElectionInv'
<1> DEFINE k == leaderInstance[HostOf[s]]
<1>1. CASE ~Leader!Goes(k)
  BY <1>1, LeadOneAsideKeeps, LeadOffPlaces DEF Leader!Replace
<1>2. CASE Leader!Goes(k)
  <2>1. leaderPlace' = [leaderPlace EXCEPT ![s] = "replacing", ![k] = "closing"]
           /\ leaderEntry' \in {leaderEntry, Leader!Without(k)}
    BY <1>2 DEF Leader!Replace, Leader!Unregister
  <2>2. k \in Leader!Active /\ k # s /\ leaderPlace[k] = "lead"
    BY <1>2, ElectionSettingHolds
       DEF Leader!Goes, Leader!CachedHere, Leader!Active, Leader!Serving,
           Leader!ElectionSetting
  <2>3. k \in Session BY <2>2 DEF Leader!Active
  <2> HIDE DEF k
  <2>4. \A t \in Session : leaderPlace'[t] = IF t = k THEN "closing"
           ELSE IF t = s THEN "replacing" ELSE leaderPlace[t]
    BY <2>1, <2>2, <2>3 DEF Leader!ElectionInv, Leader!ElectionTyped
  <2>5. leaderPlace' \in [Session -> Leader!Places]
    BY <2>1, LeadOffPlaces DEF Leader!ElectionInv, Leader!ElectionTyped
  <2>6. leaderEntry' \in {leaderEntry, None} BY <2>1 DEF Leader!Without
  <2> QED BY <2>2, <2>3, <2>4, <2>5, <2>6, LeadShutKeeps, LeadOffPlaces
<1> QED BY <1>1, <1>2

LEMMA LeadJoinKeeps ==
  ASSUME Leader!ElectionInv, NEW s \in Session, Leader!Join(s), leaderPlace[s] # "dead",
         UNCHANGED <<leaderEntry, leaderDead, leaderExcuse>>
  PROVE  Leader!ElectionInv'
BY LeadOneAsideKeeps, LeadOffPlaces DEF Leader!Join, Leader!Elect

LEMMA LeadClearKeeps ==
  ASSUME Leader!ElectionInv, NEW s \in Session, Leader!Clear(s)
  PROVE  Leader!ElectionInv'
<1>1. /\ leaderPlace' = [leaderPlace EXCEPT ![s] = "retry"] /\ leaderPlace[s] = "clear"
      /\ leaderDead' = leaderDead /\ leaderEntry' = Leader!Without(leaderTarget[s])
      /\ leaderExcuse' = (IF Leader!Mine(leaderTarget[s]) /\ leaderTarget[s] \in Leader!Active
            THEN leaderExcuse \cup {"unreachable"} ELSE leaderExcuse)
  BY DEF Leader!Clear, Leader!Go, Leader!world
<1>2. leaderEntry' \in {leaderEntry, None} BY <1>1 DEF Leader!Without
<1>3. \A t \in Session : leaderPlace'[t] = IF t = s THEN "retry" ELSE leaderPlace[t]
  BY <1>1 DEF Leader!ElectionInv, Leader!ElectionTyped
<1>4. leaderPlace' \in [Session -> Leader!Places]
  BY <1>1, LeadOffPlaces DEF Leader!ElectionInv, Leader!ElectionTyped
<1>5. ASSUME leaderExcuse' = {}, leaderEntry' # leaderEntry, NEW t \in Leader!Active
      PROVE  FALSE
  <2>1. Leader!Mine(leaderTarget[s]) BY <1>1, <1>5 DEF Leader!Without
  <2>2. Leader!Mine(t) BY <1>1, <1>5 DEF Leader!ElectionInv, Leader!Listed
  <2>3. t = leaderTarget[s] BY <2>1, <2>2 DEF Leader!Mine
  <2> QED BY <1>1, <1>5, <2>1, <2>3
<1>6. leaderExcuse' = {} => leaderExcuse = {} BY <1>1
<1> QED BY <1>1, <1>2, <1>3, <1>4, <1>5, <1>6, LeadAsideKeeps, LeadOffPlaces

LEMMA LeadPoisonedKeeps ==
  ASSUME Leader!ElectionInv, Leader!CachedHere, NEW s \in Session, Leader!Poisoned(s)
  PROVE  Leader!ElectionInv'
<1> DEFINE k == leaderInstance[HostOf[s]]
           another == k # s /\ Leader!Goes(k)
<1>1. /\ leaderPlace[s] = "lead" /\ UNCHANGED <<leaderDead, leaderExcuse>>
      /\ leaderPlace' = [t \in Session |-> IF t = s THEN "wedged"
                           ELSE IF another /\ t = k THEN "closing" ELSE leaderPlace[t]]
      /\ leaderEntry' \in {leaderEntry, Leader!Without(s), Leader!Without(k)}
  BY DEF Leader!Poisoned, Leader!world
<1>2. s \in Leader!Active BY <1>1 DEF Leader!Active, Leader!Serving
<1>3. another => leaderPlace[k] = "lead" BY DEF Leader!Goes
<1>4. leaderEntry' \in {leaderEntry, None} BY <1>1 DEF Leader!Without
<1> HIDE DEF k
<1>5. leaderPlace' \in [Session -> Leader!Places]
  BY <1>1, LeadOffPlaces DEF Leader!ElectionInv, Leader!ElectionTyped
<1>6. \A t \in Session : \/ leaderPlace'[t] = leaderPlace[t]
                         \/ leaderPlace[t] # "dead" /\ leaderPlace'[t] \in LeadOff
  BY <1>1, <1>3, LeadOffPlaces
<1> QED BY <1>1, <1>2, <1>4, <1>5, <1>6, LeadShutKeeps, LeadOffPlaces

LEMMA LeadTurnKeeps ==
  ASSUME Leader!ElectionInv, Leader!CachedHere, NEW s \in Session, Leader!Turn(s)
  PROVE  Leader!ElectionInv'
<1> USE LeadOffPlaces
<1>1. CASE Leader!Get(s)
  <2>1. leaderPlace[s] = "new" /\ UNCHANGED <<leaderDead, leaderExcuse>>
    BY <1>1 DEF Leader!Get, Leader!world
  <2> QED BY <1>1, <2>1, LeadJoinKeeps, LeadReplaceKeeps, LeadOneAsideKeeps DEF Leader!Get
<1>2. CASE Leader!Replaced(s)
  <2>1. leaderPlace[s] = "replacing" /\ UNCHANGED <<leaderEntry, leaderDead, leaderExcuse>>
    BY <1>2 DEF Leader!Replaced, Leader!world
  <2> QED BY <1>2, <2>1, LeadJoinKeeps, LeadOneAsideKeeps DEF Leader!Replaced, Leader!Elect
<1>3. CASE Leader!Outwaited(s)
  BY <1>3, LeadOneAsideKeeps DEF Leader!Outwaited, Leader!world
<1>4. CASE Leader!Claim(s) BY <1>4, LeadClaimKeeps
<1>5. CASE Leader!Poll(s) BY <1>5, LeadOneAsideKeeps DEF Leader!Poll, Leader!world
<1>6. CASE Leader!Clear(s) BY <1>6, LeadClearKeeps
<1>7. CASE Leader!Timeout(s) BY <1>7, LeadOneAsideKeeps DEF Leader!Timeout, Leader!world
<1>8. CASE Leader!Retry(s)
  <2>1. leaderPlace[s] = "retry" /\ UNCHANGED <<leaderDead, leaderExcuse>>
    BY <1>8 DEF Leader!Retry, Leader!world
  <2> QED BY <1>8, <2>1, LeadReplaceKeeps, LeadOneAsideKeeps
          DEF Leader!Retry, Leader!Again, Leader!Elect
<1>9. ASSUME s \in Leader!Active, leaderDead' = leaderDead, leaderExcuse' = leaderExcuse,
             NEW to \in LeadOff, Leader!Go(s, to),
             leaderEntry' \in {leaderEntry, Leader!Without(s)}
      PROVE  Leader!ElectionInv'
  <2>1. leaderPlace' = [leaderPlace EXCEPT ![s] = to] BY <1>9 DEF Leader!Go
  <2>2. \A t \in Session : leaderPlace'[t] = IF t = s THEN to ELSE leaderPlace[t]
    BY <2>1 DEF Leader!ElectionInv, Leader!ElectionTyped
  <2>3. leaderPlace' \in [Session -> Leader!Places]
    BY <2>1 DEF Leader!ElectionInv, Leader!ElectionTyped
  <2>4. leaderPlace[s] # "dead" /\ leaderEntry' \in {leaderEntry, None}
    BY <1>9 DEF Leader!Active, Leader!Loading, Leader!Serving, Leader!Without
  <2> QED BY <1>9, <2>2, <2>3, <2>4, LeadShutKeeps
<1>10. CASE Leader!Started(s)
  <2>1. s \in Leader!Active /\ UNCHANGED <<leaderDead, leaderExcuse>>
    BY <1>10 DEF Leader!Started, Leader!Active, Leader!Loading, Leader!world
  <2>2. CASE Leader!Go(s, "publish") /\ UNCHANGED leaderEntry
    BY <2>1, <2>2, LeadServesOnKeeps DEF Leader!Go, Leader!Loading
  <2>3. CASE Leader!Go(s, "failed") /\ leaderEntry' \in {leaderEntry, Leader!Without(s)}
    BY <1>9, <2>1, <2>3
  <2> QED BY <1>10, <2>2, <2>3 DEF Leader!Started, Leader!Unregister
<1>11. CASE Leader!Publish(s)
  <2>1. s \in Leader!Active /\ UNCHANGED <<leaderDead, leaderExcuse>>
    BY <1>11 DEF Leader!Publish, Leader!Active, Leader!Loading, Leader!world
  <2>2. \E to \in Leader!Loading \cup Leader!Serving : leaderPlace' = [leaderPlace EXCEPT ![s] = to]
    BY <1>11 DEF Leader!Publish, Leader!Go, Leader!Serving
  <2>3. leaderEntry' = leaderEntry \/ (Leader!Mine(s)
           /\ leaderEntry' = [leaderEntry EXCEPT !.up = TRUE])
    BY <1>11 DEF Leader!Publish
  <2> QED BY <2>1, <2>2, <2>3, LeadServesOnKeeps
<1>12. CASE Leader!CheckLeadership(s)
  <2>1. CASE Leader!Go(s, "closing")
    BY <1>9, <1>12, <2>1 DEF Leader!CheckLeadership, Leader!Active, Leader!Serving
  <2>2. CASE UNCHANGED leaderPlace
    BY <1>12, <2>2
       DEF Leader!CheckLeadership, Leader!ElectionInv, Leader!ElectionTyped, Leader!Living,
           Leader!Listed, Leader!Active, Leader!Mine
  <2> QED BY <1>12, <2>1, <2>2 DEF Leader!CheckLeadership
<1>13. CASE Leader!Freed(s) BY <1>13, LeadOneAsideKeeps DEF Leader!Freed, Leader!world
<1>14. CASE Leader!Poisoned(s) BY <1>14, LeadPoisonedKeeps
<1>15. CASE Leader!GoDeaf(s)
  BY <1>15
     DEF Leader!GoDeaf, Leader!ElectionInv, Leader!ElectionTyped, Leader!Living,
         Leader!Listed, Leader!Active, Leader!Mine
<1> QED BY <1>1, <1>2, <1>3, <1>4, <1>5, <1>6, <1>7, <1>8, <1>10, <1>11, <1>12, <1>13, <1>14,
           <1>15 DEF Leader!Turn

LEMMA LeadHostsKeep ==
  ASSUME Leader!ElectionInv, NEW h \in Host,
         Leader!ClearInstance(h) \/ Leader!Teardown(h) \/ Leader!Die(h), Leader!CachedHere
  PROVE  Leader!ElectionInv'
<1>1. CASE Leader!ClearInstance(h)
  <2> DEFINE k == leaderInstance[h]
  <2>1. CASE Leader!Goes(k)
    <3>1. k \in Session /\ k \in Leader!Active /\ leaderPlace[k] = "lead"
      BY <2>1 DEF Leader!Goes, Leader!Active, Leader!Serving, Leader!CachedHere
    <3>2. leaderPlace' = [leaderPlace EXCEPT ![k] = "closing"]
             /\ leaderEntry' \in {leaderEntry, Leader!Without(k)}
             /\ UNCHANGED <<leaderDead, leaderExcuse>>
      BY <1>1, <2>1 DEF Leader!ClearInstance, Leader!Go, Leader!Unregister, Leader!world
    <3> HIDE DEF k
    <3>3. \A t \in Session : leaderPlace'[t] = IF t = k THEN "closing" ELSE leaderPlace[t]
      BY <3>1, <3>2 DEF Leader!ElectionInv, Leader!ElectionTyped
    <3>4. leaderPlace' \in [Session -> Leader!Places] /\ leaderEntry' \in {leaderEntry, None}
      BY <3>2, LeadOffPlaces DEF Leader!ElectionInv, Leader!ElectionTyped, Leader!Without
    <3> QED BY <3>1, <3>2, <3>3, <3>4, LeadShutKeeps, LeadOffPlaces
  <2>2. CASE ~Leader!Goes(k)
    BY <1>1, <2>2
       DEF Leader!ClearInstance, Leader!ElectionInv, Leader!ElectionTyped, Leader!Living,
           Leader!Listed, Leader!Active, Leader!Mine, Leader!world
  <2> QED BY <2>1, <2>2
<1>2. CASE Leader!Teardown(h)
  <2>1. /\ leaderEntry # None /\ leaderEntry' = None
        /\ UNCHANGED <<leaderPlace, leaderDead>>
        /\ leaderExcuse' = (IF leaderEntry.owner \in Leader!Active
              THEN leaderExcuse \cup {"withdrawn"} ELSE leaderExcuse)
    BY <1>2 DEF Leader!Teardown, Leader!world
  <2>2. leaderExcuse' = {} => leaderExcuse = {} /\ Leader!Active = {}
    BY <2>1, LeadOnlyOwner
  <2> QED BY <2>1, <2>2, LeadAsideKeeps DEF Leader!ElectionInv, Leader!ElectionTyped
<1>3. CASE Leader!Die(h)
  <2>1. /\ leaderDead' = leaderDead \cup {h} /\ UNCHANGED <<leaderEntry, leaderExcuse>>
        /\ leaderPlace' = [s \in Session |-> IF HostOf[s] = h THEN "dead" ELSE leaderPlace[s]]
    BY <1>3 DEF Leader!Die
  <2>2. Leader!ElectionTyped'
    BY <2>1 DEF Leader!ElectionInv, Leader!ElectionTyped, Leader!Living, Leader!Places
  <2>3. \A s \in Session : leaderPlace'[s] \in Leader!Loading \cup Leader!Serving
           => leaderPlace[s] \in Leader!Loading \cup Leader!Serving
    BY <2>1 DEF Leader!Loading, Leader!Serving
  <2>4. leaderExcuse' = {} => Leader!Listed'
    BY <2>1, <2>3 DEF Leader!ElectionInv, Leader!Listed, Leader!Active, Leader!Mine
  <2> QED BY <2>2, <2>4 DEF Leader!ElectionInv
<1> QED BY <1>1, <1>2, <1>3

LEMMA LeadCachedStep == Leader!CachedHere /\ [Leader!Next]_Leader!electionVars => Leader!CachedHere'
<1> SUFFICES ASSUME Leader!CachedHere, [Leader!Next]_Leader!electionVars
   PROVE Leader!CachedHere' OBVIOUS
<1>1. ASSUME leaderInstance' = leaderInstance PROVE Leader!CachedHere'
  BY <1>1 DEF Leader!CachedHere
<1>2. ASSUME NEW h, leaderInstance' = [leaderInstance EXCEPT ![h] = None]
      PROVE  Leader!CachedHere'
  BY <1>2 DEF Leader!CachedHere
<1>3. ASSUME NEW s \in Session, Leader!Keep(s, s) PROVE Leader!CachedHere'
  BY <1>3 DEF Leader!CachedHere, Leader!Keep
<1>4. CASE UNCHANGED Leader!electionVars
  BY <1>1, <1>4 DEF Leader!electionVars
<1>5. ASSUME NEW s \in Session, Leader!Turn(s) PROVE Leader!CachedHere'
  <2>1. \/ leaderInstance' = leaderInstance \/ Leader!Keep(s, s)
        \/ leaderInstance' = [leaderInstance EXCEPT ![HostOf[s]] = None]
    <3>1. CASE Leader!Get(s) \/ Leader!Replaced(s) \/ Leader!Outwaited(s) \/ Leader!Retry(s)
      BY <3>1 DEF Leader!Get, Leader!Replaced, Leader!Outwaited, Leader!Retry, Leader!Again,
         Leader!Replace, Leader!perHost
    <3>2. CASE Leader!Claim(s) \/ Leader!Poll(s) \/ Leader!Clear(s) \/ Leader!Timeout(s)
      BY <3>2 DEF Leader!Claim, Leader!Poll, Leader!Clear, Leader!Timeout, Leader!perHost
    <3>3. CASE Leader!Started(s) \/ Leader!Publish(s) \/ Leader!CheckLeadership(s)
      BY <3>3 DEF Leader!Started, Leader!Publish, Leader!CheckLeadership, Leader!perHost
    <3>4. CASE Leader!Freed(s) \/ Leader!Poisoned(s) \/ Leader!GoDeaf(s)
      BY <3>4 DEF Leader!Freed, Leader!Poisoned, Leader!GoDeaf, Leader!Forget, Leader!perHost
    <3> QED BY <1>5, <3>1, <3>2, <3>3, <3>4 DEF Leader!Turn
  <2> QED BY <1>1, <1>2, <1>3, <2>1
<1>6. ASSUME NEW h \in Host,
             Leader!ClearInstance(h) \/ Leader!Teardown(h) \/ Leader!Die(h)
      PROVE  Leader!CachedHere'
  <2>1. leaderInstance' = leaderInstance \/ leaderInstance' = [leaderInstance EXCEPT ![h] = None]
    BY <1>6 DEF Leader!ClearInstance, Leader!Teardown, Leader!Die, Leader!Forget, Leader!perHost
  <2> QED BY <1>1, <1>2, <2>1
<1> QED BY <1>4, <1>5, <1>6 DEF Leader!Next

LEMMA LeadElectionStep == Leader!ElectionInv /\ Leader!CachedHere
   /\ [Leader!Next]_Leader!electionVars => Leader!ElectionInv'
<1> SUFFICES ASSUME Leader!ElectionInv, Leader!CachedHere, [Leader!Next]_Leader!electionVars
   PROVE Leader!ElectionInv' OBVIOUS
<1>1. CASE UNCHANGED Leader!electionVars
  BY <1>1
     DEF Leader!electionVars, Leader!ElectionInv, Leader!ElectionTyped,
         Leader!Living, Leader!Listed, Leader!Active, Leader!Mine
<1>2. ASSUME NEW s \in Session, Leader!Turn(s) PROVE Leader!ElectionInv'
  BY <1>2, LeadTurnKeeps
<1>3. ASSUME NEW h \in Host, Leader!ClearInstance(h) \/ Leader!Teardown(h) \/ Leader!Die(h)
   PROVE Leader!ElectionInv'
  BY <1>3, LeadHostsKeep
<1> QED BY <1>1, <1>2, <1>3 DEF Leader!Next

LEMMA LeadElectionInit == Leader!Init => Leader!ElectionInv /\ Leader!CachedHere
BY DEF Leader!Init, Leader!ElectionInv, Leader!ElectionTyped, Leader!Living, Leader!Listed,
   Leader!Active, Leader!Loading, Leader!Serving, Leader!CachedHere, Leader!Places

(* For any number of processes and sessions, of whatever models: one       *)
(* session at most loads the model to serve it or serves it, and it is the *)
(* registered one, unless the two events of the election's excuse came     *)
(* about.                                                                  *)
THEOREM OneServer == Leader!Spec => []OneLeader
<1>1. Leader!ElectionInv => OneLeader
  <2> SUFFICES ASSUME Leader!ElectionInv, leaderExcuse = {}
     PROVE Cardinality(Leader!Active) =< 1 /\ \A s \in Leader!Active : Leader!Mine(s)
    BY LeaderCounting DEF OneLeader, Leader!OneLeader
  <2>1. Leader!Active \subseteq {leaderEntry.owner} BY LeadOnlyOwner
  <2>2. IsFiniteSet({leaderEntry.owner}) /\ Cardinality({leaderEntry.owner}) = 1
    BY FS_Singleton
  <2>3. Cardinality(Leader!Active) \in Nat
           /\ Cardinality(Leader!Active) =< Cardinality({leaderEntry.owner})
    BY <2>1, <2>2, FS_Subset, FS_CardinalityType
  <2> QED BY <2>2, <2>3 DEF Leader!ElectionInv, Leader!Listed
<1> QED BY <1>1, LeadElectionInit, LeadElectionStep, LeadCachedStep, PTL DEF Leader!Spec

-----------------------------------------------------------------------------
(* The writer queue.                                                       *)

(* The job of p changes, the rows do not: one lemma for the steps of the   *)
(* loop that only read.                                                    *)
LEMMA IngestJobKeeps ==
  ASSUME Ingest!IngestInv, NEW p \in Writer, NEW to \in Ingest!Places, NEW j \in Ingest!Job,
         ingestAt' = [ingestAt EXCEPT ![p] = to], ingestJob' = [ingestJob EXCEPT ![p] = j],
         ingestLine' \in [Writer -> Seq(Content)],
         UNCHANGED <<ingestRows, ingestClock, ingestState, ingestRaced>>,
         j.ts =< ingestClock,
         to = "touch" => j.ts =< j.mark /\ j.mark =< ingestClock,
         to \in {"sweep", "prune"} /\ Ingest!Serving(p) => \E r \in ingestRows : r.ts >= j.ts,
         to \in {"add", "commit"} => \/ j.ts = ingestClock
                                     \/ ingestAt[p] \in {"add", "commit"} /\ j = ingestJob[p]
  PROVE  Ingest!IngestInv'
<1>1. Ingest!IngestTyped' BY DEF Ingest!IngestInv, Ingest!IngestTyped
<1>2. \A o \in Writer : /\ ingestAt'[o] = IF o = p THEN to ELSE ingestAt[o]
                        /\ ingestJob'[o] = IF o = p THEN j ELSE ingestJob[o]
  BY DEF Ingest!IngestInv, Ingest!IngestTyped
<1>3. Ingest!Stamped' BY <1>2 DEF Ingest!IngestInv, Ingest!Stamped
<1>4. Ingest!Kept' BY <1>2 DEF Ingest!IngestInv, Ingest!Kept, Ingest!Serving
<1>5. ASSUME Ingest!InOrder PROVE Ingest!InOrder'
  <2>1. \A r \in ingestRows : ~(r.ts > ingestClock)
    BY DEF Ingest!IngestInv, Ingest!Stamped, Ingest!IngestTyped, Ingest!Generation
  <2> QED BY <1>2, <1>5, <2>1 DEF Ingest!InOrder
<1> QED BY <1>1, <1>3, <1>4, <1>5 DEF Ingest!IngestInv

LEMMA IngestNoJobTyped == Ingest!NoJob \in Ingest!Job /\ Ingest!NoJob.ts = 0
BY IngestSettingHolds DEF Ingest!NoJob, Ingest!Job, Ingest!IngestSetting

LEMMA IngestDoneKeeps ==
  ASSUME Ingest!IngestInv, NEW p \in Writer, Ingest!Done(p),
         ingestLine' \in [Writer -> Seq(Content)],
         UNCHANGED <<ingestRows, ingestClock, ingestState, ingestRaced>>
  PROVE  Ingest!IngestInv'
<1>1. ingestAt' = [ingestAt EXCEPT ![p] = "idle"]
         /\ ingestJob' = [ingestJob EXCEPT ![p] = Ingest!NoJob]
  BY DEF Ingest!Done, Ingest!Goto
<1>2. "idle" \in Ingest!Places /\ 0 =< ingestClock
  BY DEF Ingest!Places, Ingest!IngestInv, Ingest!IngestTyped
<1> QED BY <1>1, <1>2, IngestNoJobTyped, IngestJobKeeps

LEMMA IngestTakeKeeps ==
  ASSUME Ingest!IngestInv, NEW p \in Writer, Ingest!Take(p)
  PROVE  Ingest!IngestInv'
<1>1. ingestLine[p] \in Seq(Content) /\ ingestLine[p] # << >>
  BY DEF Ingest!Take, Ingest!IngestInv, Ingest!IngestTyped
<1>2. Head(ingestLine[p]) \in Content /\ Tail(ingestLine[p]) \in Seq(Content) BY <1>1
<1>3. ingestLine' \in [Writer -> Seq(Content)]
  BY <1>2 DEF Ingest!Take, Ingest!IngestInv, Ingest!IngestTyped
<1>4. CASE Ingest!Serving(p)
  <2> DEFINE j == [ingestJob[p] EXCEPT !.content = Head(ingestLine[p])]
  <2>1. j \in Ingest!Job /\ j.ts = ingestJob[p].ts
    BY <1>2 DEF Ingest!IngestInv, Ingest!IngestTyped, Ingest!Job
  <2>2. ingestAt' = [ingestAt EXCEPT ![p] = "find"] /\ ingestJob' = [ingestJob EXCEPT ![p] = j]
    BY <1>4 DEF Ingest!Take, Ingest!Goto, Ingest!IngestInv, Ingest!IngestTyped
  <2>3. j.ts =< ingestClock BY <2>1 DEF Ingest!IngestInv, Ingest!Stamped
  <2> HIDE DEF j
  <2> QED BY <1>3, <2>1, <2>2, <2>3, IngestJobKeeps DEF Ingest!Take, Ingest!Places
<1>5. CASE ~Ingest!Serving(p)
  BY <1>3, <1>5
     DEF Ingest!Take, Ingest!IngestInv, Ingest!IngestTyped, Ingest!Stamped, Ingest!Kept,
         Ingest!InOrder, Ingest!Serving
<1> QED BY <1>4, <1>5

LEMMA IngestFindKeeps ==
  ASSUME Ingest!IngestInv, NEW p \in Writer, Ingest!Find(p)
  PROVE  Ingest!IngestInv'
<1> DEFINE gens == Ingest!Seen(p)
           old == [ingestJob[p] EXCEPT !.ts = Ingest!Top(gens)]
           new == [ingestJob[p] EXCEPT !.ts = ingestClock, !.same = gens # {}]
<1>1. UNCHANGED <<ingestRows, ingestClock, ingestLine, ingestState,
                  ingestRaced>> /\ ingestLine' \in [Writer -> Seq(Content)]
  BY DEF Ingest!Find, Ingest!quiet, Ingest!IngestInv, Ingest!IngestTyped
<1>2. gens \subseteq ingestRows BY DEF Ingest!Seen
<1>3. ASSUME ingestJob' = [ingestJob EXCEPT ![p].ts = Ingest!Top(gens)],
             \E g \in Ingest!Newest(gens) : g.content = ingestJob[p].content,
             NEW to \in {"sweep", "recheck"}, Ingest!Goto(p, to)
      PROVE  Ingest!IngestInv'
  <2>1. PICK g \in gens : g.ts = Ingest!Top(gens) BY <1>3 DEF Ingest!Newest
  <2>2. g \in ingestRows /\ g.ts \in Nat /\ g.ts =< ingestClock
    BY <1>2, <2>1
       DEF Ingest!IngestInv, Ingest!IngestTyped, Ingest!Generation, Ingest!Stamped
  <2>3. old \in Ingest!Job /\ old.ts = g.ts
    BY <2>1, <2>2 DEF Ingest!IngestInv, Ingest!IngestTyped, Ingest!Job
  <2>4. ingestJob' = [ingestJob EXCEPT ![p] = old]
    BY <1>3 DEF Ingest!IngestInv, Ingest!IngestTyped
  <2>5. ingestAt' = [ingestAt EXCEPT ![p] = to] /\ to \in Ingest!Places
    BY <1>3 DEF Ingest!Goto, Ingest!Places
  <2>6. (\E r \in ingestRows : r.ts >= old.ts) /\ old.ts =< ingestClock BY <2>2, <2>3
  <2>7. to \notin {"touch", "add", "commit"} BY <1>3
  <2> HIDE DEF old, gens
  <2> QED BY <1>1, <2>3, <2>4, <2>5, <2>6, <2>7, IngestJobKeeps
<1>4. ASSUME ingestJob' = [ingestJob EXCEPT ![p].ts = ingestClock, ![p].same = gens # {}],
             Ingest!Goto(p, "add")
      PROVE  Ingest!IngestInv'
  <2>1. new \in Ingest!Job /\ new.ts = ingestClock
    BY DEF Ingest!IngestInv, Ingest!IngestTyped, Ingest!Job
  <2>2. ingestJob' = [ingestJob EXCEPT ![p] = new]
    BY <1>4 DEF Ingest!IngestInv, Ingest!IngestTyped
  <2>3. ingestAt' = [ingestAt EXCEPT ![p] = "add"] /\ "add" \in Ingest!Places
           /\ ingestClock =< ingestClock
    BY <1>4 DEF Ingest!Goto, Ingest!Places, Ingest!IngestInv, Ingest!IngestTyped
  <2> HIDE DEF new
  <2> QED BY <1>1, <2>1, <2>2, <2>3, IngestJobKeeps
<1>5. CASE Ingest!Done(p) BY <1>1, <1>5, IngestDoneKeeps
<1> QED BY <1>3, <1>4, <1>5 DEF Ingest!Find

LEMMA IngestRecheckKeeps ==
  ASSUME Ingest!IngestInv, NEW p \in Writer, Ingest!Recheck(p)
  PROVE  Ingest!IngestInv'
<1> DEFINE j == [ingestJob[p] EXCEPT !.mark = ingestClock]
<1>1. UNCHANGED <<ingestRows, ingestClock, ingestLine, ingestState,
                  ingestRaced>> /\ ingestLine' \in [Writer -> Seq(Content)]
  BY DEF Ingest!Recheck, Ingest!quiet, Ingest!IngestInv, Ingest!IngestTyped
<1>2. CASE Ingest!Done(p) BY <1>1, <1>2, IngestDoneKeeps
<1>3. CASE Ingest!Goto(p, "touch") /\ ingestJob' = [ingestJob EXCEPT ![p].mark = ingestClock]
  <2>1. j \in Ingest!Job /\ j.ts = ingestJob[p].ts /\ j.mark = ingestClock
    BY DEF Ingest!IngestInv, Ingest!IngestTyped, Ingest!Job
  <2>2. ingestJob' = [ingestJob EXCEPT ![p] = j]
    BY <1>3 DEF Ingest!IngestInv, Ingest!IngestTyped
  <2>3. ingestAt' = [ingestAt EXCEPT ![p] = "touch"] /\ "touch" \in Ingest!Places
    BY <1>3 DEF Ingest!Goto, Ingest!Places
  <2>4. j.ts =< ingestClock /\ j.ts =< j.mark /\ j.mark =< ingestClock
    BY <2>1 DEF Ingest!IngestInv, Ingest!Stamped, Ingest!IngestTyped
  <2> HIDE DEF j
  <2> QED BY <1>1, <2>1, <2>2, <2>3, <2>4, IngestJobKeeps
<1> QED BY <1>2, <1>3 DEF Ingest!Recheck

LEMMA IngestAddKeeps ==
  ASSUME Ingest!IngestInv, NEW p \in Writer, Ingest!Add(p)
  PROVE  Ingest!IngestInv'
<1>1. UNCHANGED <<ingestRows, ingestClock, ingestLine, ingestState,
                  ingestRaced>> /\ ingestLine' \in [Writer -> Seq(Content)] /\ ingestAt[p] = "add"
  BY DEF Ingest!Add, Ingest!quiet, Ingest!IngestInv, Ingest!IngestTyped
<1>2. ingestJob[p] \in Ingest!Job /\ ingestJob[p].ts =< ingestClock
  BY DEF Ingest!IngestInv, Ingest!IngestTyped, Ingest!Stamped
<1>3. ASSUME ingestJob' = ingestJob, NEW to \in {"commit", "prune"}, Ingest!Goto(p, to),
             to = "prune" => ~Ingest!Serving(p)
      PROVE  Ingest!IngestInv'
  <2>1. ingestAt' = [ingestAt EXCEPT ![p] = to]
           /\ ingestJob' = [ingestJob EXCEPT ![p] = ingestJob[p]] /\ to \in Ingest!Places
    BY <1>3 DEF Ingest!Goto, Ingest!IngestInv, Ingest!IngestTyped, Ingest!Places
  <2> QED BY <1>1, <1>2, <1>3, <2>1, IngestJobKeeps
<1> QED BY <1>1, <1>3, IngestDoneKeeps DEF Ingest!Add

(* Rows are deleted below a stamp that something is at or above.           *)
LEMMA IngestPrunedKeeps ==
  ASSUME Ingest!IngestInv, NEW p \in Writer, ingestAt[p] \in {"sweep", "prune"},
         Ingest!PruneBelow(p, ingestJob[p].ts),
         NEW to \in {"recheck", "idle"}, ingestAt' = [ingestAt EXCEPT ![p] = to],
         NEW j \in {ingestJob[p], Ingest!NoJob}, ingestJob' = [ingestJob EXCEPT ![p] = j],
         UNCHANGED <<Ingest!quiet, ingestRaced>>
  PROVE  Ingest!IngestInv' /\ (ingestRows # {} => ingestRows' # {})
<1>1. ingestRows' = ingestRows \/ (Ingest!Serving(p)
         /\ ingestRows' = {r \in ingestRows : r.ts >= ingestJob[p].ts})
  BY DEF Ingest!PruneBelow
<1>2. ingestRows' \subseteq ingestRows BY <1>1
<1>3. \A r \in ingestRows : r.ts \in Nat
  BY DEF Ingest!IngestInv, Ingest!IngestTyped, Ingest!Generation
<1>4. j \in Ingest!Job /\ j.ts =< ingestClock
  BY IngestNoJobTyped DEF Ingest!IngestInv, Ingest!IngestTyped, Ingest!Stamped
<1>5. Ingest!IngestTyped'
  BY <1>2, <1>4 DEF Ingest!IngestInv, Ingest!IngestTyped, Ingest!quiet, Ingest!Places
<1>6. \A o \in Writer : /\ ingestAt'[o] = IF o = p THEN to ELSE ingestAt[o]
                        /\ ingestJob'[o] = IF o = p THEN j ELSE ingestJob[o]
  BY DEF Ingest!IngestInv, Ingest!IngestTyped
<1>7. Ingest!Stamped'
  BY <1>2, <1>4, <1>6 DEF Ingest!IngestInv, Ingest!Stamped, Ingest!quiet
<1>8. \A n \in Nat : (\E r \in ingestRows : r.ts >= n) => \E r \in ingestRows' : r.ts >= n
  <2> SUFFICES ASSUME NEW n \in Nat, NEW r \in ingestRows, r.ts >= n
     PROVE \E q \in ingestRows' : q.ts >= n OBVIOUS
  <2>1. CASE ingestRows' = ingestRows BY <2>1
  <2>2. CASE Ingest!Serving(p) /\ ingestRows' = {q \in ingestRows : q.ts >= ingestJob[p].ts}
    <3>1. ingestJob[p].ts \in Nat
      BY DEF Ingest!IngestInv, Ingest!IngestTyped, Ingest!Job
    <3>2. PICK q \in ingestRows : q.ts >= ingestJob[p].ts
      BY <2>2 DEF Ingest!IngestInv, Ingest!Kept
    <3>3. CASE r.ts >= ingestJob[p].ts BY <2>2, <3>3
    <3>4. CASE ~(r.ts >= ingestJob[p].ts)
      <4>1. q.ts >= n BY <1>3, <3>1, <3>2, <3>4
      <4> QED BY <2>2, <3>2, <4>1
    <3> QED BY <3>3, <3>4
  <2> QED BY <1>1, <2>1, <2>2
<1>9. Ingest!Kept'
  <2>1. \A o \in Writer : ingestJob[o].ts \in Nat
    BY DEF Ingest!IngestInv, Ingest!IngestTyped, Ingest!Job
  <2> QED
    BY <1>6, <1>8, <2>1 DEF Ingest!IngestInv, Ingest!Kept, Ingest!Serving, Ingest!quiet
<1>10. Ingest!InOrder => Ingest!InOrder' BY <1>2, <1>6 DEF Ingest!InOrder
<1>11. ingestRows # {} => ingestRows' # {}
  <2> SUFFICES ASSUME NEW r \in ingestRows PROVE \E q \in ingestRows' : TRUE OBVIOUS
  <2>1. r.ts >= 0 BY <1>3
  <2> QED BY <1>8, <2>1
<1> QED BY <1>5, <1>7, <1>9, <1>10, <1>11 DEF Ingest!IngestInv

LEMMA IngestSweepKeeps ==
  ASSUME Ingest!IngestInv, NEW p \in Writer, Ingest!Sweep(p) \/ Ingest!Prune(p)
  PROVE  Ingest!IngestInv' /\ (ingestRows # {} => ingestRows' # {})
<1>1. CASE Ingest!Sweep(p)
  <2>1. ingestAt' = [ingestAt EXCEPT ![p] = "recheck"]
           /\ ingestJob' = [ingestJob EXCEPT ![p] = ingestJob[p]]
    BY <1>1 DEF Ingest!Sweep, Ingest!Goto, Ingest!IngestInv, Ingest!IngestTyped
  <2> QED BY <1>1, <2>1, IngestPrunedKeeps DEF Ingest!Sweep
<1>2. CASE Ingest!Prune(p)
  BY <1>2, IngestPrunedKeeps DEF Ingest!Prune, Ingest!Done, Ingest!Goto
<1> QED BY <1>1, <1>2

LEMMA IngestTouchKeeps ==
  ASSUME Ingest!IngestInv, NEW p \in Writer, Ingest!Touch(p)
  PROVE  Ingest!IngestInv' /\ (ingestRows # {} => ingestRows' # {})
<1>1. ingestAt[p] = "touch" /\ Ingest!Done(p) /\ UNCHANGED Ingest!quiet
  BY DEF Ingest!Touch
<1>2. CASE UNCHANGED <<ingestRows, ingestRaced>>
  <2>1. ingestLine' \in [Writer -> Seq(Content)]
    BY <1>1 DEF Ingest!quiet, Ingest!IngestInv, Ingest!IngestTyped
  <2> QED BY <1>1, <1>2, <2>1, IngestDoneKeeps DEF Ingest!quiet
<1>3. CASE /\ ingestRows' = {IF r.ts = ingestJob[p].ts THEN [r EXCEPT !.ts = ingestJob[p].mark]
                 ELSE r : r \in ingestRows}
           /\ ingestRaced' = (ingestRaced \/ \E r \in ingestRows : r.ts > ingestJob[p].ts
                                          \/ \E o \in Writer \ {p} : ingestAt[o] \in {"add", "commit"})
  <2>1. ingestRows' = {Ingest!Moved(p, r) : r \in ingestRows} BY <1>3 DEF Ingest!Moved
  <2>2. ingestJob[p] \in Ingest!Job /\ ingestJob[p].ts =< ingestJob[p].mark
           /\ ingestJob[p].mark =< ingestClock /\ ingestClock \in Nat
        /\ ingestJob[p].ts \in Nat /\ ingestJob[p].mark \in Nat
    BY <1>1 DEF Ingest!IngestInv, Ingest!IngestTyped, Ingest!Stamped, Ingest!Job
  <2>3. \A r \in ingestRows : /\ Ingest!Moved(p, r) \in Ingest!Generation
                              /\ Ingest!Moved(p, r).born = r.born
                              /\ Ingest!Moved(p, r).ts = IF r.ts = ingestJob[p].ts
                                    THEN ingestJob[p].mark ELSE r.ts
                              /\ r.ts \in Nat /\ r.born \in Nat /\ r.born =< r.ts
                                    /\ r.ts =< ingestClock
    BY <2>2
       DEF Ingest!Moved, Ingest!IngestInv, Ingest!IngestTyped, Ingest!Generation,
           Ingest!Stamped
  <2>4. /\ ingestAt' = [ingestAt EXCEPT ![p] = "idle"]
              /\ ingestJob' = [ingestJob EXCEPT ![p] = Ingest!NoJob]
        /\ UNCHANGED <<ingestClock, ingestLine, ingestState, ingestItems>>
    BY <1>1 DEF Ingest!Done, Ingest!Goto, Ingest!quiet
  <2>5. Ingest!IngestTyped'
    BY <2>1, <2>3, <2>4, IngestNoJobTyped
       DEF Ingest!IngestInv, Ingest!IngestTyped, Ingest!Places
  <2>6. \A o \in Writer : /\ ingestAt'[o] = IF o = p THEN "idle" ELSE ingestAt[o]
                          /\ ingestJob'[o] = IF o = p THEN Ingest!NoJob ELSE ingestJob[o]
    BY <2>4 DEF Ingest!IngestInv, Ingest!IngestTyped
  <2>7. \A r \in ingestRows' : r.born =< r.ts /\ r.ts =< ingestClock BY <2>1, <2>2, <2>3
  <2>8. Ingest!Stamped'
    BY <2>4, <2>6, <2>7, IngestNoJobTyped
       DEF Ingest!IngestInv, Ingest!Stamped, Ingest!IngestTyped
  <2>9. Ingest!Kept'
    <3> SUFFICES ASSUME NEW o \in Writer, o # p, Ingest!Serving(o),
       ingestAt[o] \in {"sweep", "prune"}
                 PROVE  \E r \in ingestRows' : r.ts >= ingestJob[o].ts
      BY <2>4, <2>6 DEF Ingest!Kept, Ingest!Serving
    <3>1. PICK r \in ingestRows : r.ts >= ingestJob[o].ts
      BY DEF Ingest!IngestInv, Ingest!Kept
    <3>2. ingestJob[o].ts \in Nat
      BY DEF Ingest!IngestInv, Ingest!IngestTyped, Ingest!Job
    <3>3. Ingest!Moved(p, r) \in ingestRows' /\ Ingest!Moved(p, r).ts >= ingestJob[o].ts
      BY <2>1, <2>2, <2>3, <3>1, <3>2
    <3> QED BY <3>3
  <2>10. ASSUME Ingest!InOrder, ~ingestRaced' PROVE Ingest!InOrder'
    <3>1. \A r \in ingestRows : ~(r.ts > ingestJob[p].ts) BY <1>3, <2>10
    <3>2. ingestRows # {} => \A o \in Writer : ingestAt'[o] \notin {"add", "commit"}
      BY <1>3, <2>6, <2>10
    <3>5. ingestRows = {} => ingestRows' = {} BY <2>1
    <3>3. ASSUME NEW r \in ingestRows, NEW q \in ingestRows,
                 Ingest!Moved(p, r).ts > Ingest!Moved(p, q).ts
          PROVE  Ingest!Moved(p, r).born >= Ingest!Moved(p, q).born
      <4>1. r.ts > q.ts BY <2>2, <2>3, <3>1, <3>3
      <4> QED BY <2>3, <2>10, <4>1 DEF Ingest!InOrder
    <3>4. \A r, q \in ingestRows' : r.ts > q.ts => r.born >= q.born BY <2>1, <3>3
    <3> QED BY <3>2, <3>4, <3>5 DEF Ingest!InOrder
  <2>11. ingestRaced => ingestRaced' BY <1>3
  <2> QED BY <2>1, <2>5, <2>8, <2>9, <2>10, <2>11 DEF Ingest!IngestInv
<1> QED BY <1>2, <1>3 DEF Ingest!Touch

LEMMA IngestCommitKeeps ==
  ASSUME Ingest!IngestInv, NEW p \in Writer, Ingest!Commit(p)
  PROVE  Ingest!IngestInv' /\ (ingestRows # {} => ingestRows' # {})
<1> DEFINE x == [ts |-> ingestJob[p].ts, born |-> ingestJob[p].ts, content |-> ingestJob[p].content]
           again == [ingestJob[p] EXCEPT !.again = TRUE]
<1>1. ingestAt[p] = "commit" /\ UNCHANGED <<ingestClock, ingestLine, ingestState,
                                            ingestRaced>>
                                               /\ ingestLine' \in [Writer -> Seq(Content)]
  BY DEF Ingest!Commit, Ingest!quiet, Ingest!IngestInv, Ingest!IngestTyped
<1>2. ingestJob[p] \in Ingest!Job /\ ingestJob[p].ts \in Nat /\ ingestJob[p].ts =< ingestClock
         /\ ingestClock \in Nat
  BY DEF Ingest!IngestInv, Ingest!IngestTyped, Ingest!Stamped, Ingest!Job
<1>3. CASE Ingest!Done(p) /\ UNCHANGED ingestRows BY <1>1, <1>3, IngestDoneKeeps
<1>4. CASE Ingest!Goto(p, "find") /\ ingestJob' = [ingestJob EXCEPT ![p].again = TRUE]
              /\ UNCHANGED ingestRows
  <2>1. again \in Ingest!Job /\ again.ts = ingestJob[p].ts BY <1>2 DEF Ingest!Job
  <2>2. ingestAt' = [ingestAt EXCEPT ![p] = "find"] /\ ingestJob' = [ingestJob EXCEPT ![p] = again]
           /\ "find" \in Ingest!Places
    BY <1>4 DEF Ingest!Goto, Ingest!IngestInv, Ingest!IngestTyped, Ingest!Places
  <2> HIDE DEF again
  <2> QED BY <1>1, <1>2, <1>4, <2>1, <2>2, IngestJobKeeps
<1>5. ASSUME NEW to \in {"prune", "idle"}, NEW j \in {ingestJob[p], Ingest!NoJob},
             ingestAt' = [ingestAt EXCEPT ![p] = to],
                ingestJob' = [ingestJob EXCEPT ![p] = j], ingestRows' = ingestRows \cup {x},
             to = "prune" => j = ingestJob[p]
      PROVE  Ingest!IngestInv' /\ (ingestRows # {} => ingestRows' # {})
  <2>1. x \in Ingest!Generation /\ x.ts = ingestJob[p].ts /\ x.born = ingestJob[p].ts
    BY <1>2 DEF Ingest!Generation, Ingest!Job
  <2> HIDE DEF x
  <2>2. \A o \in Writer : /\ ingestAt'[o] = IF o = p THEN to ELSE ingestAt[o]
                          /\ ingestJob'[o] = IF o = p THEN j ELSE ingestJob[o]
    BY <1>5 DEF Ingest!IngestInv, Ingest!IngestTyped
  <2>3. j \in Ingest!Job /\ j.ts =< ingestClock BY <1>2, IngestNoJobTyped
  <2>4. Ingest!IngestTyped'
    BY <1>1, <1>5, <2>1, <2>3 DEF Ingest!IngestInv, Ingest!IngestTyped, Ingest!Places
  <2>5. Ingest!Stamped'
    BY <1>1, <1>2, <1>5, <2>1, <2>2, <2>3 DEF Ingest!IngestInv, Ingest!Stamped
  <2>6. Ingest!Kept'
    <3>1. x.ts >= ingestJob[p].ts BY <1>2, <2>1
    <3> QED BY <1>1, <1>5, <2>2, <3>1 DEF Ingest!IngestInv, Ingest!Kept, Ingest!Serving
  <2>7. ASSUME Ingest!InOrder PROVE Ingest!InOrder'
    <3>1. \A r \in ingestRows : r.ts > x.ts => r.born >= x.born
      BY <1>1, <2>1, <2>7 DEF Ingest!InOrder
    <3>2. \A r \in ingestRows : x.ts > r.ts => x.born >= r.born
      BY <1>2, <2>1
         DEF Ingest!IngestInv, Ingest!IngestTyped, Ingest!Generation, Ingest!Stamped
    <3>3. \A r, q \in ingestRows' : r.ts > q.ts => r.born >= q.born
      BY <1>2, <1>5, <2>1, <2>7, <3>1, <3>2 DEF Ingest!InOrder
    <3>4. \A o \in Writer : ingestAt'[o] \in {"add", "commit"}
             => \A r \in ingestRows' : r.ts > ingestJob'[o].ts => r.born >= ingestJob'[o].ts
      <4> SUFFICES ASSUME NEW o \in Writer, ingestAt'[o] \in {"add", "commit"},
         NEW r \in ingestRows', r.ts > ingestJob'[o].ts
                   PROVE  r.born >= ingestJob'[o].ts
        OBVIOUS
      <4>1. o # p /\ ingestAt[o] \in {"add", "commit"} /\ ingestJob'[o] = ingestJob[o]
        BY <2>2
      <4>2. ingestJob[o].ts \in Nat
        BY DEF Ingest!IngestInv, Ingest!IngestTyped, Ingest!Job
      <4>3. CASE r \in ingestRows BY <2>7, <4>1, <4>3 DEF Ingest!InOrder
      <4>4. CASE r = x BY <1>2, <2>1, <4>1, <4>2, <4>4
      <4> QED BY <1>5, <4>3, <4>4
    <3> QED BY <3>3, <3>4 DEF Ingest!InOrder
  <2> QED BY <1>1, <1>5, <2>4, <2>5, <2>6, <2>7 DEF Ingest!IngestInv
<1>6. CASE ingestRows' = ingestRows \cup {x} /\ Ingest!Goto(p, "prune") /\ UNCHANGED ingestJob
  <2>1. ingestAt' = [ingestAt EXCEPT ![p] = "prune"]
           /\ ingestJob' = [ingestJob EXCEPT ![p] = ingestJob[p]]
    BY <1>6 DEF Ingest!Goto, Ingest!IngestInv, Ingest!IngestTyped
  <2> HIDE DEF x
  <2> QED BY <1>5, <1>6, <2>1
<1>7. CASE ingestRows' = ingestRows \cup {x} /\ Ingest!Done(p)
  <2> HIDE DEF x
  <2> QED BY <1>5, <1>7 DEF Ingest!Done, Ingest!Goto
<1> QED BY <1>3, <1>4, <1>6, <1>7 DEF Ingest!Commit

(* What closes, dies, is handed in or passes.                              *)
LEMMA IngestAroundKeeps ==
  ASSUME Ingest!IngestInv, UNCHANGED <<ingestRows, ingestAt, ingestJob, ingestRaced>>,
         ingestLine' \in [Writer -> Seq(Content)],
         ingestClock' \in {ingestClock, ingestClock + 1},
            ingestState' \in [Writer -> {"open", "draining", "closing", "closed", "dead"}],
         \A o \in Writer : Ingest!Serving(o)' => Ingest!Serving(o)
  PROVE  Ingest!IngestInv'
<1>1. Ingest!IngestTyped' BY DEF Ingest!IngestInv, Ingest!IngestTyped
<1>2. Ingest!Stamped'
  BY DEF Ingest!IngestInv, Ingest!IngestTyped, Ingest!Stamped, Ingest!Generation, Ingest!Job
<1>3. Ingest!Kept' BY DEF Ingest!IngestInv, Ingest!Kept
<1>4. Ingest!InOrder => Ingest!InOrder' BY DEF Ingest!InOrder
<1> QED BY <1>1, <1>2, <1>3, <1>4 DEF Ingest!IngestInv

LEMMA IngestIngestStep == Ingest!IngestInv /\ [Ingest!Next]_Ingest!ingestVars => Ingest!IngestInv'
   /\ (ingestRows # {} => ingestRows' # {})
<1> SUFFICES ASSUME Ingest!IngestInv, [Ingest!Next]_Ingest!ingestVars
   PROVE Ingest!IngestInv' /\ (ingestRows # {} => ingestRows' # {}) OBVIOUS
<1>0. ingestClock \in {ingestClock, ingestClock + 1} /\ ingestLine \in [Writer -> Seq(Content)]
      /\ ingestState \in [Writer -> {"open", "draining", "closing", "closed", "dead"}]
  BY DEF Ingest!IngestInv, Ingest!IngestTyped
<1>1. CASE UNCHANGED Ingest!ingestVars
  BY <1>0, <1>1, IngestAroundKeeps DEF Ingest!ingestVars, Ingest!Serving
<1>2. ASSUME NEW p \in Writer,
             Ingest!Take(p) \/ Ingest!Find(p) \/ Ingest!Recheck(p) \/ Ingest!Add(p)
      PROVE  Ingest!IngestInv' /\ (ingestRows # {} => ingestRows' # {})
  BY <1>2, IngestTakeKeeps, IngestFindKeeps, IngestRecheckKeeps, IngestAddKeeps
     DEF Ingest!Take, Ingest!Find, Ingest!Recheck, Ingest!Add
<1>3. ASSUME NEW p \in Writer,
             Ingest!Sweep(p) \/ Ingest!Prune(p) \/ Ingest!Touch(p) \/ Ingest!Commit(p)
      PROVE  Ingest!IngestInv' /\ (ingestRows # {} => ingestRows' # {})
  BY <1>3, IngestSweepKeeps, IngestTouchKeeps, IngestCommitKeeps
<1>4. ASSUME NEW p \in Writer, NEW to \in {"draining", "closing", "closed"},
             ingestState' = [ingestState EXCEPT ![p] = to],
             ingestState[p] = "open" \/ to \in {"closing", "closed"},
                ingestState[p] # "closed" \/ to # "draining",
             UNCHANGED <<ingestRows, ingestClock, ingestLine, ingestAt, ingestJob, ingestRaced>>
      PROVE  Ingest!IngestInv' /\ (ingestRows # {} => ingestRows' # {})
  <2>1. ingestState' \in [Writer -> {"open", "draining", "closing", "closed", "dead"}]
    BY <1>0, <1>4
  <2>2. \A o \in Writer : Ingest!Serving(o)' => Ingest!Serving(o)
    BY <1>0, <1>4 DEF Ingest!Serving
  <2> QED BY <1>0, <1>4, <2>1, <2>2, IngestAroundKeeps
<1>5. ASSUME NEW p \in Writer, Ingest!Closing(p) \/ Ingest!Dispose(p)
   PROVE Ingest!IngestInv' /\ (ingestRows # {} => ingestRows' # {})
  BY <1>4, <1>5 DEF Ingest!Closing, Ingest!Drained, Ingest!Close, Ingest!Dispose
<1>6. ASSUME NEW p \in Writer, Ingest!Crash(p)
   PROVE Ingest!IngestInv' /\ (ingestRows # {} => ingestRows' # {})
  <2>1. /\ ingestState' = [ingestState EXCEPT ![p] = "dead"]
              /\ ingestLine' = [ingestLine EXCEPT ![p] = << >>]
        /\ ingestAt' = [ingestAt EXCEPT ![p] = "idle"]
              /\ ingestJob' = [ingestJob EXCEPT ![p] = Ingest!NoJob]
        /\ UNCHANGED <<ingestRows, ingestClock, ingestRaced>>
    BY <1>6 DEF Ingest!Crash, Ingest!Done, Ingest!Goto
  <2>2. << >> \in Seq(Content) OBVIOUS
  <2>3. ingestLine' \in [Writer -> Seq(Content)] BY <1>0, <2>1, <2>2
  <2>4. \A o \in Writer : /\ ingestAt'[o] = IF o = p THEN "idle" ELSE ingestAt[o]
                          /\ ingestJob'[o] = IF o = p THEN Ingest!NoJob ELSE ingestJob[o]
                          /\ ingestState'[o] = IF o = p THEN "dead" ELSE ingestState[o]
    BY <2>1 DEF Ingest!IngestInv, Ingest!IngestTyped
  <2>5. Ingest!IngestTyped'
    BY <2>1, <2>3, IngestNoJobTyped DEF Ingest!IngestInv, Ingest!IngestTyped, Ingest!Places
  <2>6. Ingest!Stamped'
    BY <2>1, <2>4, IngestNoJobTyped DEF Ingest!IngestInv, Ingest!Stamped, Ingest!IngestTyped
  <2>7. Ingest!Kept' BY <2>1, <2>4 DEF Ingest!IngestInv, Ingest!Kept, Ingest!Serving
  <2>8. Ingest!InOrder => Ingest!InOrder' BY <2>1, <2>4 DEF Ingest!InOrder
  <2> QED BY <2>1, <2>5, <2>6, <2>7, <2>8 DEF Ingest!IngestInv
<1>7. ASSUME NEW p \in Writer, NEW c \in Content, Ingest!Enqueue(p, c)
   PROVE Ingest!IngestInv' /\ (ingestRows # {} => ingestRows' # {})
  <2>1. Append(ingestLine[p], c) \in Seq(Content) BY <1>0
  <2>2. ingestLine' \in [Writer -> Seq(Content)] BY <1>0, <1>7, <2>1 DEF Ingest!Enqueue
  <2> QED BY <1>0, <1>7, <2>2, IngestAroundKeeps DEF Ingest!Enqueue, Ingest!Serving
<1>8. CASE Ingest!Tick BY <1>0, <1>8, IngestAroundKeeps DEF Ingest!Tick, Ingest!Serving
<1> QED BY <1>1, <1>2, <1>3, <1>5, <1>6, <1>7, <1>8 DEF Ingest!Next, Ingest!Loop

LEMMA IngestIngestInit == Ingest!Init => Ingest!IngestInv
<1> SUFFICES ASSUME Ingest!Init PROVE Ingest!IngestInv OBVIOUS
<1>1. << >> \in Seq(Content) OBVIOUS
<1>2. ingestRows \subseteq Ingest!Generation
         /\ (\A r \in ingestRows : r.born = r.ts /\ r.ts \in {0, 1})
  <2>1. Ingest!NoJob.content \in Content BY IngestNoJobTyped DEF Ingest!Job
  <2> QED BY <2>1 DEF Ingest!Init, Ingest!LeftOver, Ingest!Generation
<1>3. Ingest!IngestTyped
  BY <1>1, <1>2, IngestNoJobTyped DEF Ingest!Init, Ingest!IngestTyped, Ingest!Places
<1>4. Ingest!Stamped BY <1>2, IngestNoJobTyped DEF Ingest!Init, Ingest!Stamped
<1>5. Ingest!Kept /\ Ingest!InOrder BY <1>2 DEF Ingest!Init, Ingest!Kept, Ingest!InOrder
<1> QED BY <1>3, <1>4, <1>5 DEF Ingest!IngestInv

THEOREM PagesStay == Ingest!Spec => PageNeverVanishes
<1>1. Ingest!IngestInv => \A r, q \in ingestRows : r.ts > q.ts => r.born >= q.born \/ ingestRaced
  BY DEF Ingest!IngestInv, Ingest!InOrder
<1>2. Ingest!IngestInv /\ [Ingest!Next]_Ingest!ingestVars => [ingestRows # {}
         => ingestRows' # {}]_Ingest!ingestVars
  BY IngestIngestStep
<1> QED
  BY <1>1, <1>2, IngestIngestInit, IngestIngestStep, PTL
     DEF Ingest!Spec, PageNeverVanishes, Ingest!PageNeverVanishes

-----------------------------------------------------------------------------
(* The state file.                                                         *)

(* One process moves, and no other is at work: what the others rely on is  *)
(* nothing.                                                                *)
LEMMA FileAlone ==
  ASSUME File!FileInv, NEW p \in Proc, NEW to \in File!Steps,
         fileAt' = [fileAt EXCEPT ![p] = to],
         fileAt[p] # "idle" \/ \A q \in Proc : fileAt[q] = "idle"
  PROVE  /\ File!OneUpdate' /\ fileAt' \in [Proc -> File!Steps]
         /\ \A q \in Proc : fileAt'[q] = IF q = p THEN to ELSE "idle"
<1>1. \A q \in Proc : q # p => fileAt[q] = "idle" BY DEF File!FileInv, File!OneUpdate
<1>2. \A q \in Proc : fileAt'[q] = IF q = p THEN to ELSE "idle"
  BY <1>1 DEF File!FileInv, File!FileTyped
<1>3. fileAt' \in [Proc -> File!Steps] BY DEF File!FileInv, File!FileTyped
<1> QED BY <1>2, <1>3 DEF File!OneUpdate

(* An update gives up, or dies: the file is as it was.                     *)
LEMMA FileGivesUpKeeps ==
  ASSUME File!FileInv, NEW p \in Proc, fileAt' = [fileAt EXCEPT ![p] = "idle"],
         fileAt[p] # "idle" \/ UNCHANGED fileAt,
         UNCHANGED <<fileDisk, fileUpdates, fileAcked, fileWaived, fileBase, fileBare>>,
         fileReadOnly' \in [Proc -> BOOLEAN],
         \/ fileBackups' = fileBackups
         \/ fileBackups' \in Seq(File!File) /\ fileAt[p] = "backup"
  PROVE  File!FileInv'
<1>1. CASE fileAt[p] # "idle"
  <2>1. File!OneUpdate' /\ fileAt' \in [Proc -> File!Steps] /\ (\A q \in Proc : fileAt'[q] = "idle")
    BY <1>1, FileAlone DEF File!Steps
  <2>2. File!FileTyped' BY <2>1 DEF File!FileInv, File!FileTyped
  <2>3. File!UpdateKnows' BY <2>1 DEF File!UpdateKnows
  <2>4. fileWaived = {} /\ fileAt[p] = "backup" => fileDisk.whole
    BY DEF File!FileInv, File!UpdateKnows
  <2>5. fileWaived' = {} => File!Survives'
    BY <2>4 DEF File!FileInv, File!Survives, File!BackedUp
  <2> QED BY <2>1, <2>2, <2>3, <2>5 DEF File!FileInv
<1>2. CASE fileAt[p] = "idle"
  BY <1>2
     DEF File!FileInv, File!FileTyped, File!OneUpdate, File!Survives, File!BackedUp,
         File!UpdateKnows
<1> QED BY <1>1, <1>2

LEMMA FileUpdateKeeps ==
  ASSUME File!FileInv, NEW p \in Proc, File!Update(p)
  PROVE  File!FileInv'
<1>1. /\ \A q \in Proc : fileAt[q] = "idle"
      /\ fileAt' = [fileAt EXCEPT ![p] = "read"] /\ fileUpdates' = fileUpdates + 1
      /\ UNCHANGED <<fileDisk, fileBackups, fileBase, fileReadOnly, fileBare, fileFailed,
                     fileAcked, fileWaived>>
  BY DEF File!Update, File!Goto
<1>2. File!OneUpdate' /\ fileAt' \in [Proc -> File!Steps]
         /\ (\A q \in Proc : fileAt'[q] \in {"read", "idle"})
  BY <1>1, FileAlone DEF File!Steps
<1>3. File!FileTyped' BY <1>1, <1>2 DEF File!FileInv, File!FileTyped
<1>4. File!UpdateKnows' BY <1>2 DEF File!UpdateKnows
<1>5. fileWaived' = {} => File!Survives'
  BY <1>1 DEF File!FileInv, File!Survives, File!BackedUp
<1> QED BY <1>2, <1>3, <1>4, <1>5 DEF File!FileInv

LEMMA FileReadKeeps ==
  ASSUME File!FileInv, NEW p \in Proc, File!Read(p)
  PROVE  File!FileInv'
<1>1. fileAt[p] = "read" /\ UNCHANGED <<fileDisk, fileBackups, fileBare, fileUpdates, fileAcked,
                                        fileWaived>>
  BY DEF File!Read
<1>2. CASE File!Goto(p, "idle") /\ UNCHANGED fileBase
  <2>1. fileReadOnly' \in [Proc -> BOOLEAN]
    BY <1>2 DEF File!Read, File!Goto, File!FileInv, File!FileTyped, File!Legible
  <2> QED BY <1>1, <1>2, <2>1, FileGivesUpKeeps DEF File!Goto
<1>3. CASE File!Legible(p, fileDisk) /\ File!Goto(p, "backup") /\ File!Has(p, fileDisk.holds)
              /\ UNCHANGED fileReadOnly
  <2>1. fileAt' = [fileAt EXCEPT ![p] = "backup"]
           /\ fileBase' = [fileBase EXCEPT ![p] = fileDisk.holds]
        /\ fileDisk.whole /\ (fileDisk.newer => p \in Newer)
    BY <1>3 DEF File!Goto, File!Has, File!Legible
  <2>2. File!OneUpdate' /\ fileAt' \in [Proc -> File!Steps]
           /\ (\A q \in Proc : fileAt'[q] = IF q = p THEN "backup" ELSE "idle")
    BY <1>1, <2>1, FileAlone DEF File!Steps
  <2>3. File!FileTyped' /\ fileBase'[p] = fileDisk.holds
    BY <1>1, <1>3, <2>1, <2>2 DEF File!FileInv, File!FileTyped, File!File
  <2>4. fileWaived' = {} => File!Survives'
    BY <1>1 DEF File!FileInv, File!Survives, File!BackedUp
  <2>5. fileWaived' = {} => File!UpdateKnows'
    BY <1>1, <2>1, <2>2, <2>3 DEF File!FileInv, File!Survives, File!UpdateKnows
  <2> QED BY <2>2, <2>3, <2>4, <2>5 DEF File!FileInv
<1>4. CASE ~fileDisk.whole /\ File!Goto(p, "recover") /\ UNCHANGED <<fileBase, fileReadOnly>>
  <2>1. fileAt' = [fileAt EXCEPT ![p] = "recover"] BY <1>4 DEF File!Goto
  <2>2. File!OneUpdate' /\ fileAt' \in [Proc -> File!Steps]
           /\ (\A q \in Proc : fileAt'[q] = IF q = p THEN "recover" ELSE "idle")
    BY <1>1, <2>1, FileAlone DEF File!Steps
  <2>3. File!FileTyped' BY <1>1, <1>4, <2>2 DEF File!FileInv, File!FileTyped
  <2>4. fileWaived' = {} => File!Survives'
    BY <1>1 DEF File!FileInv, File!Survives, File!BackedUp
  <2>5. File!UpdateKnows' BY <1>1, <1>4, <2>2 DEF File!UpdateKnows
  <2> QED BY <2>2, <2>3, <2>4, <2>5 DEF File!FileInv
<1> QED BY <1>2, <1>3, <1>4 DEF File!Read

(* Numbers have a least one, and it is 1 if 1 is among them.               *)
LEMMA FileLeastIsThere ==
  ASSUME NEW U \in SUBSET (Nat \ {0}), U # {}
  PROVE  LET least == CHOOSE i \in U : \A j \in U : i =< j
         IN  least \in U /\ (1 \in U => least = 1)
<1>1. \E x \in U : \A y \in U : ~ (<<y, x>> \in OpToRel(<, Nat))
  <2>1. U \subseteq Nat OBVIOUS
  <2> QED BY <2>1, WFMin, NatLessThanWellFounded
<1>2. \A x, y \in U : <<y, x>> \in OpToRel(<, Nat) <=> y < x BY DEF OpToRel
<1>3. \E x \in U : \A y \in U : x =< y
  <2> DEFINE R == OpToRel(<, Nat)
  <2>1. \E x \in U : \A y \in U : ~ (<<y, x>> \in R) BY <1>1
  <2>2. \A x, y \in U : <<y, x>> \in R <=> y < x BY <1>2
  <2> HIDE DEF R
  <2>3. PICK x \in U : \A y \in U : ~ (<<y, x>> \in R) BY <2>1
  <2>4. \A y \in U : ~(y < x) BY <2>2, <2>3
  <2>5. \A y \in U : x =< y BY <2>4
  <2> QED BY <2>5
<1>4. 1 \in U => \A i \in U : (\A j \in U : i =< j) => i = 1 OBVIOUS
<1> QED BY <1>3, <1>4

LEMMA FileBuildMarked ==
  ASSUME NEW f \in File!File, NEW b \in BOOLEAN
  PROVE  LET g == [f EXCEPT !.newer = b]
         IN  g \in File!File /\ g.whole = f.whole /\ g.holds = f.holds /\ g.newer = b
BY DEF File!File

(* What a recovery restores from the copies it has seen.                   *)
LEMMA FileFoundTyped ==
  ASSUME File!FileInv, NEW p \in Proc, NEW seen \in SUBSET File!Usable(p)
  PROVE  LET found == File!Found(p, seen)
         IN  /\ found \in File!File /\ found.whole /\ found.holds \in SUBSET Nat
             /\ found.newer => p \in Newer
             /\ 1 \in seen => found.holds = fileBackups[1].holds
<1> DEFINE newest == File!NewestOf(seen)
           found  == File!Found(p, seen)
<1>1. seen \subseteq DOMAIN fileBackups /\ DOMAIN fileBackups = 1 .. Len(fileBackups)
         /\ Len(fileBackups) \in Nat
  BY DEF File!FileInv, File!FileTyped, File!Usable
<1>2. seen # {} => newest \in seen /\ (1 \in seen => newest = 1)
  <2>1. seen \in SUBSET (Nat \ {0}) BY <1>1
  <2> QED BY <2>1, FileLeastIsThere DEF File!NewestOf
<1>3. \A i \in seen : fileBackups[i] \in File!File /\ fileBackups[i].whole
  BY <1>1 DEF File!Usable, File!Legible, File!FileInv, File!FileTyped
<1>4. CASE seen = {} BY <1>4 DEF File!Found, File!Absent, File!File
<1>5. CASE seen # {}
  <2>1. fileBackups[newest] \in File!File /\ fileBackups[newest].whole
    BY <1>2, <1>3, <1>5
  <2>2. found = [fileBackups[newest] EXCEPT !.newer = p \in Newer] BY <1>5 DEF File!Found
  <2>3. 1 \in seen => newest = 1 BY <1>2, <1>5
  <2>4. found \in File!File /\ found.whole = fileBackups[newest].whole
        /\ found.holds = fileBackups[newest].holds /\ found.newer = (p \in Newer)
    <3>1. (p \in Newer) \in BOOLEAN OBVIOUS
    <3> HIDE DEF newest, found
    <3> QED BY <2>1, <2>2, <3>1, FileBuildMarked
  <2>5. found.holds \in SUBSET Nat BY <2>4 DEF File!File
  <2> HIDE DEF newest
  <2> QED BY <2>1, <2>3, <2>4, <2>5
<1> QED BY <1>4, <1>5

LEMMA FileRecoverKeeps ==
  ASSUME File!FileInv, NEW p \in Proc, File!Recover(p)
  PROVE  File!FileInv'
<1>1. /\ fileAt[p] = "recover" /\ fileAt' = [fileAt EXCEPT ![p] = "backup"]
      /\ UNCHANGED <<fileBackups, fileReadOnly, fileBare, fileUpdates, fileAcked>>
  BY DEF File!Recover, File!Goto
<1>2. File!OneUpdate' /\ fileAt' \in [Proc -> File!Steps]
         /\ (\A q \in Proc : fileAt'[q] = IF q = p THEN "backup" ELSE "idle")
  BY <1>1, FileAlone DEF File!Steps
<1>3. PICK seen \in SUBSET File!Usable(p) :
        \/ /\ fileDisk' = File!Found(p, seen) /\ File!Has(p, File!Found(p, seen).holds)
           /\ fileWaived' = fileWaived
                \cup {w \in {"newer build"} : ~fileDisk.whole /\ fileDisk.newer /\ p \notin Newer}
                \cup {w \in {"copy passed over"} : File!PassedOver(p, seen)}
        \/ /\ File!Has(p, {}) /\ fileDisk' \in {fileDisk, File!Found(p, seen)}
           /\ fileWaived' = fileWaived \cup {"recovery failed"}
  BY DEF File!Recover
<1> DEFINE found == File!Found(p, seen)
<1>4. /\ found \in File!File /\ found.whole /\ found.holds \in SUBSET Nat
      /\ found.newer => p \in Newer
      /\ 1 \in seen => found.holds = fileBackups[1].holds
  BY FileFoundTyped
<1> HIDE DEF found
<1>5. CASE /\ File!Has(p, {}) /\ fileDisk' \in {fileDisk, found}
           /\ fileWaived' = fileWaived \cup {"recovery failed"}
  <2>1. File!FileTyped'
    BY <1>1, <1>2, <1>4, <1>5 DEF File!Has, File!FileInv, File!FileTyped
  <2> QED BY <1>2, <1>5, <2>1 DEF File!FileInv
<1>6. CASE /\ fileDisk' = found /\ File!Has(p, found.holds)
           /\ fileWaived' = fileWaived
                \cup {w \in {"newer build"} : ~fileDisk.whole /\ fileDisk.newer /\ p \notin Newer}
                \cup {w \in {"copy passed over"} : File!PassedOver(p, seen)}
  <2>1. fileWaived' = {} /\ fileAcked # {} => 1 \in seen
           /\ fileAcked \subseteq fileBackups[1].holds
    <3> SUFFICES ASSUME fileWaived' = {}, fileAcked # {}
       PROVE 1 \in seen /\ fileAcked \subseteq fileBackups[1].holds
      OBVIOUS
    <3>1. /\ fileWaived = {} /\ ~(~fileDisk.whole /\ fileDisk.newer /\ p \notin Newer)
          /\ ~File!PassedOver(p, seen)
      BY <1>6
    <3>2. ~fileDisk.whole /\ File!Survives
      BY <1>1, <3>1 DEF File!FileInv, File!UpdateKnows
    <3>3. File!BackedUp BY <3>2 DEF File!Survives
    <3>4. DOMAIN fileBackups = 1 .. Len(fileBackups) /\ Len(fileBackups) \in Nat
      BY DEF File!FileInv, File!FileTyped
    <3>5. 1 \in File!Usable(p)
      BY <3>1, <3>2, <3>3, <3>4 DEF File!BackedUp, File!Legible, File!Usable
    <3>6. PICK j \in seen : ~(1 < j) BY <3>1, <3>5 DEF File!PassedOver
    <3>7. j = 1 BY <3>4, <3>6 DEF File!Usable
    <3> QED BY <3>3, <3>6, <3>7 DEF File!BackedUp
  <2>2. File!FileTyped' /\ fileBase'[p] = found.holds
    BY <1>1, <1>2, <1>4, <1>6 DEF File!Has, File!FileInv, File!FileTyped
  <2>3. fileWaived' = {} => fileAcked \subseteq found.holds BY <1>4, <2>1
  <2>4. fileWaived' = {} => File!Survives' BY <1>1, <1>4, <1>6, <2>3 DEF File!Survives
  <2>5. fileWaived' = {} => File!UpdateKnows'
    BY <1>1, <1>2, <1>4, <1>6, <2>2, <2>3, <2>4 DEF File!UpdateKnows, File!FileInv
  <2> QED BY <1>2, <2>2, <2>4, <2>5 DEF File!FileInv
<1> QED BY <1>3, <1>5, <1>6 DEF found

LEMMA FileBackupKeeps ==
  ASSUME File!FileInv, NEW p \in Proc, File!Backup(p)
  PROVE  File!FileInv'
<1>1. /\ fileAt[p] = "backup" /\ fileAt' = [fileAt EXCEPT ![p] = "replace"]
      /\ UNCHANGED <<fileDisk, fileBase, fileReadOnly, fileUpdates, fileAcked, fileWaived>>
  BY DEF File!Backup, File!Goto
<1>2. File!OneUpdate' /\ fileAt' \in [Proc -> File!Steps]
         /\ (\A q \in Proc : fileAt'[q] = IF q = p THEN "replace" ELSE "idle")
  BY <1>1, FileAlone DEF File!Steps
<1>3. fileWaived = {} => fileDisk.whole /\ fileAcked \subseteq fileDisk.holds
         /\ fileAcked \subseteq fileBase[p] /\ (fileDisk.newer => p \in Newer)
  BY <1>1 DEF File!FileInv, File!UpdateKnows, File!Survives
<1>4. File!Torn(fileDisk) \in File!File
  BY DEF File!Torn, File!File, File!FileInv, File!FileTyped
<1>5. \A f \in File!File : /\ <<f>> \o fileBackups \in Seq(File!File)
         /\ Len(<<f>> \o fileBackups) > 0
                           /\ (<<f>> \o fileBackups)[1] = f
  BY DEF File!FileInv, File!FileTyped
<1>6. fileBackups' \in Seq(File!File) /\ fileBare' \in BOOLEAN
  <2>1. fileDisk \in File!File /\ fileDisk.whole \in BOOLEAN /\ fileBackups \in Seq(File!File)
    BY DEF File!FileInv, File!FileTyped, File!File
  <2> QED BY <1>4, <1>5, <2>1 DEF File!Backup
<1>7. fileWaived = {} /\ ~fileBare' => File!BackedUp'
  <2> SUFFICES ASSUME fileWaived = {}, ~fileBare' PROVE File!BackedUp' OBVIOUS
  <2>1. CASE fileDisk = File!Absent BY <1>1, <1>3, <2>1 DEF File!BackedUp, File!Absent
  <2>2. CASE fileDisk # File!Absent /\ fileBackups' = <<fileDisk>> \o fileBackups
    <3>1. Len(fileBackups') > 0 /\ fileBackups'[1] = fileDisk
      BY <1>5, <2>2 DEF File!FileInv, File!FileTyped
    <3> QED BY <1>1, <1>3, <3>1 DEF File!BackedUp
  <2> QED BY <2>1, <2>2 DEF File!Backup
<1>8. File!FileTyped' BY <1>1, <1>2, <1>6 DEF File!FileInv, File!FileTyped
<1>9. fileWaived' = {} => File!Survives' BY <1>1, <1>3 DEF File!Survives
<1>10. fileWaived' = {} => File!UpdateKnows'
  BY <1>1, <1>2, <1>3, <1>7 DEF File!UpdateKnows
<1> QED BY <1>2, <1>8, <1>9, <1>10 DEF File!FileInv

LEMMA FileWrittenHolds ==
  ASSUME File!FileInv, NEW p \in Proc
  PROVE  /\ File!Written(p) \in File!File /\ File!Written(p).whole
               /\ File!Written(p).holds = fileBase[p] \cup {fileUpdates}
         /\ File!Written(p).newer = (p \in Newer)
         /\ File!Torn(File!Written(p)) \in File!File /\ ~File!Torn(File!Written(p)).whole
         /\ File!Torn(File!Written(p)).newer = (p \in Newer)
<1> DEFINE b == p \in Newer
           h == fileBase[p] \cup {fileUpdates}
           w == [holds |-> h, newer |-> b, whole |-> TRUE]
<1>1. h \in SUBSET Nat BY DEF File!FileInv, File!FileTyped
<1>2. b \in BOOLEAN OBVIOUS
<1>3. w = File!Written(p) BY DEF File!Written
<1>4. w.holds = h /\ w.newer = b /\ w.whole OBVIOUS
<1> HIDE DEF b, h
<1>5. w \in File!File BY <1>1, <1>2 DEF File!File
<1> HIDE DEF w
<1>6. LET t == [w EXCEPT !.whole = FALSE] IN t \in File!File /\ ~t.whole /\ t.newer = b
  BY <1>4, <1>5 DEF File!File
<1> QED BY <1>3, <1>4, <1>5, <1>6 DEF File!Torn, b, h

(* The file is written whole: what it holds is what the update read and its *)
(* own change.                                                             *)
LEMMA FileWriteKeeps ==
  ASSUME File!FileInv, NEW p \in Proc, fileAt[p] \in {"replace", "copy"},
         fileAt' = [fileAt EXCEPT ![p] = "cleanup"], fileDisk' = File!Written(p),
         UNCHANGED <<fileBackups, fileBase, fileReadOnly, fileBare, fileUpdates, fileAcked,
                     fileWaived>>
  PROVE  File!FileInv'
<1>1. File!OneUpdate' /\ fileAt' \in [Proc -> File!Steps]
         /\ (\A q \in Proc : fileAt'[q] = IF q = p THEN "cleanup" ELSE "idle")
  BY FileAlone DEF File!Steps
<1>2. File!FileTyped' BY <1>1, FileWrittenHolds DEF File!FileInv, File!FileTyped
<1>3. fileWaived = {} => fileAcked \subseteq fileBase[p]
  BY DEF File!FileInv, File!UpdateKnows
<1>4. fileWaived' = {} => File!Survives' BY <1>3, FileWrittenHolds DEF File!Survives
<1>5. fileWaived' = {} => File!UpdateKnows'
  BY <1>1, <1>3, FileWrittenHolds DEF File!UpdateKnows
<1> QED BY <1>1, <1>2, <1>4, <1>5 DEF File!FileInv

LEMMA FileReplaceKeeps ==
  ASSUME File!FileInv, NEW p \in Proc, File!Replace(p)
  PROVE  File!FileInv'
<1>1. fileAt[p] = "replace" /\ UNCHANGED <<fileBackups, fileBase, fileReadOnly, fileBare,
                                           fileUpdates, fileAcked>>
  BY DEF File!Replace
<1>2. CASE fileDisk' = File!Written(p) /\ File!Goto(p, "cleanup") /\ UNCHANGED fileWaived
  BY <1>1, <1>2, FileWriteKeeps DEF File!Goto
<1>3. CASE File!Goto(p, "idle") /\ UNCHANGED <<fileDisk, fileWaived>>
  BY <1>1, <1>3, FileGivesUpKeeps DEF File!Goto, File!FileInv, File!FileTyped
<1>4. CASE /\ fileDisk' = File!Torn(File!Written(p)) /\ File!Goto(p, "copy")
           /\ fileWaived' = IF fileBare THEN fileWaived \cup {"no backup"} ELSE fileWaived
  <2>1. fileAt' = [fileAt EXCEPT ![p] = "copy"] BY <1>4 DEF File!Goto
  <2>2. File!OneUpdate' /\ fileAt' \in [Proc -> File!Steps]
           /\ (\A q \in Proc : fileAt'[q] = IF q = p THEN "copy" ELSE "idle")
    BY <1>1, <2>1, FileAlone DEF File!Steps
  <2>3. File!FileTyped'
    BY <1>1, <1>4, <2>2, FileWrittenHolds DEF File!FileInv, File!FileTyped
  <2>4. fileWaived' = {} => fileWaived = {} /\ ~fileBare BY <1>4
  <2>5. fileWaived = {} /\ ~fileBare => File!BackedUp /\ (fileDisk.newer => p \in Newer)
           /\ fileAcked \subseteq fileBase[p]
    BY <1>1 DEF File!FileInv, File!UpdateKnows
  <2>6. ~fileDisk'.whole /\ fileDisk'.newer = (p \in Newer) BY <1>4, FileWrittenHolds
  <2>7. fileWaived' = {} => File!BackedUp' BY <1>1, <2>4, <2>5, <2>6 DEF File!BackedUp
  <2>8. fileWaived' = {} => File!Survives' BY <2>6, <2>7 DEF File!Survives
  <2>9. fileWaived' = {} => File!UpdateKnows'
    BY <1>1, <2>2, <2>4, <2>5, <2>6 DEF File!UpdateKnows
  <2> QED BY <2>2, <2>3, <2>8, <2>9 DEF File!FileInv
<1> QED BY <1>2, <1>3, <1>4 DEF File!Replace

LEMMA FileCopiedKeeps ==
  ASSUME File!FileInv, NEW p \in Proc, File!Copied(p)
  PROVE  File!FileInv'
<1>1. fileAt[p] = "copy" /\ UNCHANGED <<fileBackups, fileBase, fileReadOnly, fileBare, fileUpdates,
                                        fileAcked, fileWaived>>
  BY DEF File!Copied
<1>2. CASE fileDisk' = File!Written(p) /\ File!Goto(p, "cleanup")
  BY <1>1, <1>2, FileWriteKeeps DEF File!Goto
<1>3. CASE File!Goto(p, "idle") /\ UNCHANGED fileDisk
  BY <1>1, <1>3, FileGivesUpKeeps DEF File!Goto, File!FileInv, File!FileTyped
<1> QED BY <1>2, <1>3 DEF File!Copied

LEMMA FileCleanupKeeps ==
  ASSUME File!FileInv, NEW p \in Proc, File!Cleanup(p)
  PROVE  File!FileInv'
<1>1. /\ fileAt[p] = "cleanup" /\ fileAt' = [fileAt EXCEPT ![p] = "idle"]
            /\ fileAcked' = fileAcked \cup {fileUpdates}
      /\ UNCHANGED <<fileDisk, fileBase, fileReadOnly, fileBare, fileUpdates, fileWaived>>
  BY DEF File!Cleanup, File!Goto
<1>2. File!OneUpdate' /\ fileAt' \in [Proc -> File!Steps] /\ (\A q \in Proc : fileAt'[q] = "idle")
  BY <1>1, FileAlone DEF File!Steps
<1>3. fileBackups' \in Seq(File!File)
  <2>1. \A n \in 0 .. Len(fileBackups) : SubSeq(fileBackups, 1, n) \in Seq(File!File)
    BY DEF File!FileInv, File!FileTyped
  <2>2. (IF Len(fileBackups) < MaxBackups THEN Len(fileBackups)
           ELSE MaxBackups) \in 0 .. Len(fileBackups)
    BY FileSettingHolds DEF File!FileSetting, File!FileInv, File!FileTyped
  <2> QED BY <2>1, <2>2 DEF File!Cleanup, File!FileInv, File!FileTyped
<1>4. File!FileTyped' BY <1>1, <1>2, <1>3 DEF File!FileInv, File!FileTyped
<1>5. fileWaived' = {} => File!Survives'
  BY <1>1 DEF File!FileInv, File!UpdateKnows, File!Survives
<1>6. File!UpdateKnows' BY <1>2 DEF File!UpdateKnows
<1> QED BY <1>2, <1>4, <1>5, <1>6 DEF File!FileInv

LEMMA FileCrashKeeps ==
  ASSUME File!FileInv, NEW p \in Proc, File!Crash(p)
  PROVE  File!FileInv'
<1>1. /\ fileAt' = [fileAt EXCEPT ![p] = "idle"]
            /\ fileReadOnly' = [fileReadOnly EXCEPT ![p] = FALSE]
      /\ UNCHANGED <<fileDisk, fileBase, fileBare, fileUpdates, fileFailed, fileAcked, fileWaived>>
  BY DEF File!Crash, File!Goto
<1>2. fileAt[p] # "idle" \/ UNCHANGED fileAt BY <1>1 DEF File!FileInv, File!FileTyped
<1>3. fileReadOnly' \in [Proc -> BOOLEAN] BY <1>1 DEF File!FileInv, File!FileTyped
<1>4. \/ fileBackups' = fileBackups
      \/ fileBackups' \in Seq(File!File) /\ fileAt[p] = "backup"
  <2>1. File!Torn(fileDisk) \in File!File
    BY DEF File!Torn, File!File, File!FileInv, File!FileTyped
  <2>2. \A f \in File!File : <<f>> \o fileBackups \in Seq(File!File)
    BY DEF File!FileInv, File!FileTyped
  <2> QED BY <2>1, <2>2 DEF File!Crash
<1> QED BY <1>1, <1>2, <1>3, <1>4, FileGivesUpKeeps

LEMMA FileFileStep == File!FileInv /\ [File!Next]_File!stateVars => File!FileInv'
<1> SUFFICES ASSUME File!FileInv, [File!Next]_File!stateVars PROVE File!FileInv' OBVIOUS
<1>1. CASE UNCHANGED File!stateVars
  BY <1>1
     DEF File!stateVars, File!FileInv, File!FileTyped, File!OneUpdate, File!Survives,
         File!BackedUp, File!UpdateKnows
<1>2. ASSUME NEW p \in Proc, File!Update(p) PROVE File!FileInv' BY <1>2, FileUpdateKeeps
<1>3. ASSUME NEW p \in Proc, File!Run(p) PROVE File!FileInv'
  BY <1>3, FileReadKeeps, FileRecoverKeeps, FileBackupKeeps, FileReplaceKeeps,
     FileCopiedKeeps, FileCleanupKeeps DEF File!Run
<1>4. ASSUME NEW p \in Proc, File!Crash(p) PROVE File!FileInv' BY <1>4, FileCrashKeeps
<1> QED BY <1>1, <1>2, <1>3, <1>4 DEF File!Next

LEMMA FileFileInit == File!Init => File!FileInv
<1> SUFFICES ASSUME File!Init PROVE File!FileInv OBVIOUS
<1>1. fileDisk \in File!File BY DEF File!Init, File!Absent, File!File
<1>2. fileBackups \in Seq(File!File) /\ 0 \in Nat BY DEF File!Init
<1>3. File!FileTyped BY <1>1, <1>2 DEF File!Init, File!FileTyped, File!Steps
<1>4. File!Survives BY DEF File!Init, File!Survives, File!Absent
<1>5. File!OneUpdate /\ File!UpdateKnows
  BY DEF File!Init, File!OneUpdate, File!UpdateKnows
<1> QED BY <1>3, <1>4, <1>5 DEF File!FileInv

THEOREM Acknowledged == File!Spec => []AcknowledgedSurvives
<1>1. File!FileInv => AcknowledgedSurvives
  BY DEF File!FileInv, File!Survives, AcknowledgedSurvives, File!AcknowledgedSurvives
<1> QED BY <1>1, FileFileInit, FileFileStep, PTL DEF File!Spec

-----------------------------------------------------------------------------
(* The embedder.                                                           *)

(* Every step keeps the types.                                             *)
LEMMA EmbFlowMoves ==
  ASSUME NEW f \in Embed!Flow, NEW pc \in {"none", "load", "warm", "drain", "swap", "done"}
  PROVE  [f EXCEPT !.pc = pc] \in Embed!Flow /\ [f EXCEPT !.pc = pc].pc = pc
         /\ [f EXCEPT !.pc = pc].kind = f.kind
BY DEF Embed!Flow

LEMMA EmbFreshLoad ==
  ASSUME Embed!EmbedderTyped, NEW i \in Embed!Fresh(embedLoad, Embed!NoLoad)
  PROVE  i \in Embed!Load /\ i # 0 /\ embedLoad[i].pc = "none"
BY EmbedCounting, EmbedderSettingHolds
   DEF Embed!EmbedderSetting, Embed!EmbedderTyped, Embed!Fresh, Embed!NoLoad, Embed!Load

LEMMA EmbFreshDisposal ==
  ASSUME Embed!EmbedderTyped, NEW d \in Embed!Fresh(embedDisposal, "none")
  PROVE  d \in Embed!Disposal /\ embedDisposal[d] = "none"
BY EmbedCounting, EmbedderSettingHolds
   DEF Embed!EmbedderSetting, Embed!EmbedderTyped, Embed!Fresh, Embed!Disposal

LEMMA EmbNumbers ==
  /\ 0 \notin Embed!Load /\ 0 \in 0 .. MaxLoads /\ Embed!Load \subseteq 0 .. MaxLoads
        /\ Embed!Load \subseteq Nat
  /\ \A i \in 0 .. MaxLoads : i # 0 => i \in Embed!Load
  /\ 0 .. MaxDisposals \subseteq Nat /\ Embed!Disposal \subseteq 0 .. MaxDisposals
        /\ 0 \in 0 .. MaxDisposals
BY EmbedCounting, EmbedderSettingHolds DEF Embed!EmbedderSetting, Embed!Load, Embed!Disposal

LEMMA EmbStartFlows ==
  /\ [kind |-> "initialize", pc |-> "load", gpu |-> TRUE] \in Embed!Flow
  /\ [kind |-> "recover", pc |-> "drain", gpu |-> FALSE] \in Embed!Flow
BY DEF Embed!Flow

LEMMA EmbCallsTyped ==
  ASSUME Embed!EmbedderTyped, NEW c \in Requester, NEW pc \in Embed!Calls, NEW n \in Nat,
         Embed!Put(c, pc, n)
  PROVE  embedCall' \in [Requester -> Embed!Calls] /\ embedOn' \in [Requester -> Nat]
BY DEF Embed!EmbedderTyped, Embed!Put

LEMMA EmbSettledTyped ==
  ASSUME Embed!EmbedderTyped, NEW i \in Embed!Load, NEW ok \in BOOLEAN, Embed!Settled(i, ok)
  PROVE  /\ embedCall' \in [Requester -> Embed!Calls] /\ embedOn' \in [Requester -> Nat]
               /\ embedLoad' \in [Embed!Load -> Embed!Flow]
         /\ embedInitializing' \in 0 .. MaxLoads /\ embedRecovering' \in 0 .. MaxLoads
<1>1. embedCall' \in [Requester -> Embed!Calls]
  BY DEF Embed!EmbedderTyped, Embed!Settled, Embed!Calls
<1>2. embedOn' \in [Requester -> Nat]
  BY DEF Embed!EmbedderTyped, Embed!Settled
<1>3. embedLoad' \in [Embed!Load -> Embed!Flow]
  BY EmbFlowMoves DEF Embed!EmbedderTyped, Embed!Settled
<1> QED
  BY <1>1, <1>2, <1>3, EmbNumbers DEF Embed!EmbedderTyped, Embed!Settled

LEMMA EmbTypesKept ==
  ASSUME Embed!EmbedderTyped, [Embed!Next]_Embed!embedderVars
  PROVE  Embed!EmbedderTyped'
<1> USE EmbNumbers
<1>1. ASSUME NEW c \in Requester, NEW pc \in Embed!Calls, NEW n \in Nat,
             Embed!Put(c, pc, n),
             UNCHANGED <<embedState, embedPipeline, Embed!loading, embedDisposal, embedDisposing>>
      PROVE  Embed!EmbedderTyped'
  BY <1>1, EmbCallsTyped DEF Embed!EmbedderTyped, Embed!loading
<1>2. ASSUME UNCHANGED Embed!embedderVars  PROVE Embed!EmbedderTyped'
  BY <1>2 DEF Embed!EmbedderTyped, Embed!embedderVars
<1>3. ASSUME NEW c \in Requester, Embed!StartLoad(c)  PROVE Embed!EmbedderTyped'
  <2> PICK i \in Embed!Fresh(embedLoad, Embed!NoLoad) :
        /\ embedLoad' = [embedLoad EXCEPT ![i] = [kind |-> "initialize", pc |-> "load", gpu |-> TRUE]]
        /\ embedInitializing' = i /\ embedState' = "initializing" /\ Embed!Put(c, "join", i)
    BY <1>3 DEF Embed!StartLoad
  <2>1. i \in Embed!Load /\ i \in Nat /\ "join" \in Embed!Calls
    BY EmbFreshLoad DEF Embed!Calls
  <2>2. embedLoad' \in [Embed!Load -> Embed!Flow]
    BY <2>1, EmbStartFlows DEF Embed!EmbedderTyped
  <2> QED
    BY <1>3, <2>1, <2>2, EmbCallsTyped
       DEF Embed!EmbedderTyped, Embed!StartLoad, Embed!closing
<1>4. ASSUME NEW c \in Requester, Embed!Enter(c)  PROVE Embed!EmbedderTyped'
  <2>1. {"counting", "revive", "join"} \subseteq Embed!Calls /\ 0 \in Nat
    BY DEF Embed!Calls
  <2>2. ASSUME Embed!Put(c, "revive", embedDisposing), embedDisposing # 0,
               UNCHANGED <<embedState, embedPipeline, Embed!loading, Embed!closing>>
        PROVE  Embed!EmbedderTyped'
    BY <2>1, <2>2, <1>1 DEF Embed!EmbedderTyped, Embed!closing
  <2>3. embedInitializing \in Nat
    BY DEF Embed!EmbedderTyped
  <2> QED
    BY <1>1, <1>3, <1>4, <2>1, <2>2, <2>3 DEF Embed!Enter, Embed!closing
<1>5. ASSUME NEW c \in Requester,
             Embed!Refused(c) \/ Embed!Count(c) \/ Embed!RunInference(c) \/ Embed!Return(c)
                PROVE Embed!EmbedderTyped'
  <2>1. Embed!Calls = Embed!Calls \cup {"idle", "lock", "infer", "lost"} /\ 0 \in Nat
           /\ embedPipeline \in Nat
    BY DEF Embed!Calls, Embed!EmbedderTyped
  <2> QED
    BY <1>1, <1>5, <2>1
       DEF Embed!Refused, Embed!Count, Embed!RunInference, Embed!Return, Embed!Over,
           Embed!closing
<1>6. ASSUME NEW c \in Requester, Embed!Recover(c)  PROVE Embed!EmbedderTyped'
  <2>1. Embed!Calls = Embed!Calls \cup {"parked", "again", "recover"} /\ 0 \in Nat
           /\ embedRecovering \in Nat
    BY DEF Embed!Calls, Embed!EmbedderTyped
  <2>2. CASE embedRecovering # 0
    BY <1>1, <1>6, <2>1, <2>2 DEF Embed!Recover, Embed!closing
  <2>3. CASE embedRecovering = 0 /\ embedState \in {"disposing", "idle"}
    BY <1>1, <1>6, <2>1, <2>3 DEF Embed!Recover, Embed!closing
  <2>4. CASE embedRecovering = 0 /\ embedState \notin {"disposing", "idle"}
    <3> PICK i \in Embed!Fresh(embedLoad, Embed!NoLoad) :
          /\ embedLoad' = [embedLoad EXCEPT ![i] = [kind |-> "recover", pc |-> "drain", gpu |-> FALSE]]
          /\ embedInitializing' = i /\ embedRecovering' = i /\ Embed!Put(c, "recover", i)
      BY <1>6, <2>4 DEF Embed!Recover
    <3>1. i \in Embed!Load /\ i \in Nat
      BY EmbFreshLoad
    <3>2. embedLoad' \in [Embed!Load -> Embed!Flow]
      BY <3>1, EmbStartFlows DEF Embed!EmbedderTyped
    <3> QED
      BY <1>6, <2>1, <2>4, <3>1, <3>2, EmbCallsTyped
         DEF Embed!EmbedderTyped, Embed!Recover, Embed!closing
  <2> QED
    BY <2>2, <2>3, <2>4
<1>7. ASSUME NEW i \in Embed!Load, Embed!Succeed(i) \/ Embed!Fail(i)
   PROVE Embed!EmbedderTyped'
  <2>1. CASE Embed!Succeed(i)
    BY <2>1, EmbSettledTyped DEF Embed!Succeed, Embed!EmbedderTyped, Embed!closing
  <2>2. CASE Embed!Fail(i)
    BY <2>2, EmbSettledTyped DEF Embed!Fail, Embed!EmbedderTyped, Embed!closing, Embed!Fates
  <2> QED
    BY <1>7, <2>1, <2>2
<1>8. ASSUME NEW i \in Embed!Load,
             Embed!Loaded(i) \/ Embed!RecoveryDrained(i) \/ Embed!RecoverySwapped(i)
                PROVE Embed!EmbedderTyped'
  <2>0. ASSUME NEW pc \in {"warm", "swap", "load"},
               embedLoad' = [embedLoad EXCEPT ![i].pc = pc]
        PROVE  embedLoad' \in [Embed!Load -> Embed!Flow]
    BY <2>0, EmbFlowMoves DEF Embed!EmbedderTyped
  <2>1. embedLoad' \in [Embed!Load -> Embed!Flow]
    BY <1>8, <2>0 DEF Embed!Loaded, Embed!RecoveryDrained, Embed!RecoverySwapped
  <2>2. embedNative' \in [Embed!Load -> Embed!Fates] /\ embedPipeline' \in 0 .. MaxLoads
    BY <1>8
       DEF Embed!Loaded, Embed!RecoveryDrained, Embed!RecoverySwapped, Embed!EmbedderTyped,
           Embed!Fates
  <2> QED
    BY <1>8, <2>1, <2>2
       DEF Embed!Loaded, Embed!RecoveryDrained, Embed!RecoverySwapped, Embed!EmbedderTyped,
           Embed!closing, Embed!calling
<1>9. ASSUME NEW why \in {"terminal", "idle"}, Embed!Dispose(why)
   PROVE Embed!EmbedderTyped'
  BY <1>9, EmbFreshDisposal
     DEF Embed!Dispose, Embed!EmbedderTyped, Embed!loading, Embed!calling
<1>10. ASSUME NEW d \in Embed!Disposal, Embed!Drained(d) \/ Embed!LoadAwaited(d)
   PROVE Embed!EmbedderTyped'
  BY <1>10
     DEF Embed!Drained, Embed!LoadAwaited, Embed!EmbedderTyped, Embed!loading, Embed!calling
<1>11. ASSUME NEW d \in Embed!Disposal, Embed!TearDown(d) \/ Embed!Freed(d)
   PROVE Embed!EmbedderTyped'
  <2>1. embedNative' \in [Embed!Load -> Embed!Fates] /\ embedPipeline' \in 0 .. MaxLoads
    BY <1>11 DEF Embed!TearDown, Embed!Freed, Embed!EmbedderTyped, Embed!Fates
  <2> QED
    BY <1>11, <2>1 DEF Embed!TearDown, Embed!Freed, Embed!EmbedderTyped, Embed!calling
<1>12. ASSUME NEW d \in Embed!Disposal, Embed!TornDown(d)  PROVE Embed!EmbedderTyped'
  BY <1>12 DEF Embed!TornDown, Embed!EmbedderTyped, Embed!loading, Embed!Calls
<1>13. ASSUME Embed!Wedge  PROVE Embed!EmbedderTyped'
  BY <1>13 DEF Embed!Wedge, Embed!EmbedderTyped, Embed!loading, Embed!calling
<1> QED
  BY <1>2, <1>4, <1>5, <1>6, <1>7, <1>8, <1>9, <1>10, <1>11, <1>12, <1>13
     DEF Embed!Next, Embed!IdleFires

(* A load that runs is the one of the promise, and it runs in one place.   *)
LEMMA EmbTheLoad ==
  ASSUME Embed!EmbedderTyped, Embed!Orderly, NEW i \in Embed!Load, Embed!Running(i)
  PROVE  /\ embedInitializing = i /\ i # 0 /\ (embedRecovering # 0 => embedRecovering = i)
         /\ \A j \in Embed!Load : j # i => ~Embed!Running(j)
         /\ \A c \in Requester : Embed!Busy(c) => embedLoad[i].pc = "drain"
         /\ embedState \in {"initializing", "disposing"}
         /\ \A d \in Embed!Disposal : embedDisposal[d] \notin {"redrain", "free", "unlock"}
         /\ (\E d \in Embed!Disposal : Embed!Underway(d)) => embedState = "disposing"
BY EmbNumbers
   DEF Embed!Orderly, Embed!OneLoad, Embed!CallKnows, Embed!StateKnows,
       Embed!DisposalKnows, Embed!EmbedderTyped

LEMMA EmbNoLoadRuns ==
  ASSUME Embed!EmbedderTyped, Embed!Orderly, embedInitializing = 0
  PROVE  /\ \A j \in Embed!Load : ~Embed!Running(j)
         /\ embedRecovering = 0
         /\ \A c \in Requester : embedCall[c] \notin {"join", "parked", "recover"}
         /\ embedState # "initializing"
BY EmbNumbers
   DEF Embed!Orderly, Embed!OneLoad, Embed!CallKnows, Embed!StateKnows, Embed!EmbedderTyped

(* One call moves and nothing else does.                                   *)
LEMMA EmbCallMoves ==
  ASSUME Embed!EmbedderTyped, Embed!Orderly, NEW c \in Requester, NEW to \in Embed!Calls,
         NEW n \in Nat,
         Embed!Put(c, to, n),
         UNCHANGED <<embedState, embedPipeline, Embed!loading, embedDisposal>>,
         embedCall[c] # "recover", to # "recover",
         to = "join" => n = embedInitializing /\ embedInitializing # 0,
         to = "parked" => n = embedRecovering /\ embedRecovering # 0,
         to = "infer" => n = embedPipeline,
         to \in {"counting", "lock", "again", "infer", "lost"} => Embed!Busy(c)
            \/ embedState = "ready"
  PROVE  Embed!Orderly'
<1>1. embedCall' = [embedCall EXCEPT ![c] = to] /\ embedOn' = [embedOn EXCEPT ![c] = n]
  BY DEF Embed!Put
<1>2. \A e \in Requester : e # c => embedCall'[e] = embedCall[e] /\ embedOn'[e] = embedOn[e]
  BY <1>1 DEF Embed!EmbedderTyped
<1>3. embedCall'[c] = to /\ embedOn'[c] = n
  BY <1>1 DEF Embed!EmbedderTyped
<1>4. Embed!OneLoad'
  BY <1>2, <1>3 DEF Embed!Orderly, Embed!OneLoad, Embed!Running, Embed!loading
<1>5. Embed!LoadKnows' /\ Embed!StateKnows'
  BY DEF Embed!Orderly, Embed!LoadKnows, Embed!StateKnows, Embed!Running, Embed!Alive,
     Embed!Underway, Embed!loading
<1>6. Embed!Busy(c)' => Embed!Busy(c) \/ embedState = "ready"
  BY <1>3 DEF Embed!Busy
<1>7. Embed!Busy(c)' => Embed!Alive /\ (embedInitializing # 0
         => embedLoad[embedInitializing].pc = "drain")
                 /\ \A d \in Embed!Disposal : embedDisposal[d] \notin {"free", "unlock"}
  BY <1>6
     DEF Embed!Orderly, Embed!CallKnows, Embed!StateKnows, Embed!DisposalKnows,
         Embed!Underway
<1>8. \A e \in Requester : e # c => (Embed!Busy(e)' <=> Embed!Busy(e))
  BY <1>2 DEF Embed!Busy
<1>9. Embed!Alive' <=> Embed!Alive
  BY DEF Embed!Alive, Embed!loading
<1>10. Embed!DisposalKnows'
  BY <1>7, <1>8, <1>9 DEF Embed!Orderly, Embed!DisposalKnows, Embed!loading
<1>11. Embed!CallKnows'
  BY <1>2, <1>3, <1>7, <1>8, <1>9 DEF Embed!Orderly, Embed!CallKnows, Embed!loading
<1> QED
  BY <1>4, <1>5, <1>10, <1>11 DEF Embed!Orderly

LEMMA EmbStarts ==
  ASSUME Embed!EmbedderTyped, Embed!Orderly, NEW c \in Requester, Embed!StartLoad(c),
         embedExcuse' = {},
         embedState \notin {"ready", "disposing"}, embedCall[c] \in {"idle", "revived"}
  PROVE  Embed!Orderly'
<1> PICK i \in Embed!Fresh(embedLoad, Embed!NoLoad) :
      /\ embedLoad' = [embedLoad EXCEPT ![i] = [kind |-> "initialize", pc |-> "load", gpu |-> TRUE]]
      /\ embedInitializing' = i /\ embedState' = "initializing" /\ Embed!Put(c, "join", i)
  BY DEF Embed!StartLoad
<1>1. i \in Embed!Load /\ i # 0 /\ i \in Nat /\ embedLoad[i].pc = "none"
  BY EmbFreshLoad, EmbNumbers
<1>2. embedInitializing = 0 /\ embedPipeline = 0 /\ UNCHANGED <<embedPipeline, embedNative,
                                                                embedRecovering, embedDisposal>>
  BY DEF Embed!StartLoad, Embed!closing, Embed!EmbedderTyped, Embed!Orderly,
     Embed!StateKnows
<1>3. \A d \in Embed!Disposal : ~Embed!Underway(d)
  BY DEF Embed!StartLoad, Embed!Undone
<1>4. \A j \in Embed!Load : embedLoad'[j] = IF j = i
         THEN [kind |-> "initialize", pc |-> "load", gpu |-> TRUE] ELSE embedLoad[j]
  BY <1>1 DEF Embed!EmbedderTyped
<1>5. \A e \in Requester : /\ embedCall'[e] = IF e = c THEN "join" ELSE embedCall[e]
                           /\ embedOn'[e] = IF e = c THEN i ELSE embedOn[e]
  BY DEF Embed!Put, Embed!EmbedderTyped
<1>6. Embed!OneLoad'
  BY <1>1, <1>2, <1>4, EmbNoLoadRuns DEF Embed!OneLoad, Embed!Running
<1>7. Embed!LoadKnows'
  BY <1>1, <1>2, <1>4, EmbNoLoadRuns DEF Embed!Orderly, Embed!LoadKnows, Embed!Running
<1>8. Embed!StateKnows'
  BY <1>1, <1>2, <1>3 DEF Embed!StateKnows, Embed!Underway
<1>9. Embed!DisposalKnows'
  BY <1>2, <1>3 DEF Embed!DisposalKnows, Embed!Underway
<1>10. Embed!CallKnows'
  BY <1>1, <1>2, <1>5, EmbNoLoadRuns
     DEF Embed!Orderly, Embed!CallKnows, Embed!Busy, Embed!Alive
<1> QED
  BY <1>6, <1>7, <1>8, <1>9, <1>10 DEF Embed!Orderly

LEMMA EmbEnterKeeps ==
  ASSUME Embed!EmbedderTyped, Embed!Orderly, NEW c \in Requester, Embed!Enter(c),
         embedExcuse' = {}
  PROVE  Embed!Orderly'
<1>1. {"counting", "revive", "join"} \subseteq Embed!Calls /\ 0 \in Nat
         /\ embedInitializing \in Nat /\ embedDisposing \in Nat
  BY EmbNumbers DEF Embed!Calls, Embed!EmbedderTyped
<1>2. CASE embedState = "ready" /\ Embed!Put(c, "counting", 0)
              /\ UNCHANGED <<embedState, embedPipeline, Embed!loading, Embed!closing,
                             embedIdleTimer, embedExcuse>>
  BY <1>1, <1>2, EmbCallMoves DEF Embed!Enter, Embed!closing
<1>3. CASE Embed!Put(c, "revive", embedDisposing) /\ UNCHANGED <<embedState, embedPipeline,
                                                                 Embed!loading, Embed!closing, embedIdleTimer, embedExcuse>>
  BY <1>1, <1>3, EmbCallMoves DEF Embed!Enter, Embed!closing
<1>4. CASE embedInitializing # 0 /\ Embed!Put(c, "join", embedInitializing)
              /\ UNCHANGED <<embedState, embedPipeline, Embed!loading, Embed!closing,
                             embedIdleTimer, embedExcuse>>
  BY <1>1, <1>4, EmbCallMoves DEF Embed!Enter, Embed!closing
<1>5. CASE embedState \notin {"ready", "disposing"} /\ Embed!StartLoad(c)
  BY <1>5, EmbStarts DEF Embed!Enter
<1> QED
  BY <1>2, <1>3, <1>4, <1>5 DEF Embed!Enter

LEMMA EmbCallKeeps ==
  ASSUME Embed!EmbedderTyped, Embed!Orderly, NEW c \in Requester,
         Embed!Refused(c) \/ Embed!Count(c) \/ Embed!RunInference(c) \/ Embed!Return(c)
  PROVE  Embed!Orderly'
<1>1. {"idle", "lock", "infer", "lost"} \subseteq Embed!Calls /\ 0 \in Nat /\ embedPipeline \in Nat
  BY EmbNumbers DEF Embed!Calls, Embed!EmbedderTyped
<1>2. CASE Embed!Refused(c)
  BY <1>1, <1>2, EmbCallMoves DEF Embed!Refused, Embed!Over, Embed!closing
<1>3. CASE Embed!Count(c)
  BY <1>1, <1>3, EmbCallMoves DEF Embed!Count, Embed!closing, Embed!Busy
<1>4. CASE Embed!RunInference(c)
  <2>1. CASE Embed!Put(c, "infer", embedPipeline)
    BY <1>1, <1>4, <2>1, EmbCallMoves DEF Embed!RunInference, Embed!closing, Embed!Busy
  <2>2. CASE Embed!Over(c)
    BY <1>1, <1>4, <2>2, EmbCallMoves DEF Embed!RunInference, Embed!Over, Embed!closing
  <2> QED
    BY <1>4, <2>1, <2>2 DEF Embed!RunInference
<1>5. CASE Embed!Return(c)
  <2>1. CASE Embed!Over(c)
    BY <1>1, <1>5, <2>1, EmbCallMoves DEF Embed!Return, Embed!Over, Embed!closing
  <2>2. CASE Embed!Put(c, "lock", 0)
    BY <1>1, <1>5, <2>2, EmbCallMoves DEF Embed!Return, Embed!closing, Embed!Busy
  <2>3. CASE Embed!Put(c, "lost", 0)
    BY <1>1, <1>5, <2>3, EmbCallMoves DEF Embed!Return, Embed!closing, Embed!Busy
  <2> QED
    BY <1>5, <2>1, <2>2, <2>3 DEF Embed!Return
<1> QED
  BY <1>2, <1>3, <1>4, <1>5

LEMMA EmbRecoverKeeps ==
  ASSUME Embed!EmbedderTyped, Embed!Orderly, NEW c \in Requester, Embed!Recover(c),
         embedExcuse' = {}
  PROVE  Embed!Orderly'
<1>1. {"parked", "again"} \subseteq Embed!Calls /\ 0 \in Nat /\ embedRecovering \in Nat
         /\ embedCall[c] = "lost" /\ Embed!Busy(c)
  BY EmbNumbers DEF Embed!Calls, Embed!EmbedderTyped, Embed!Recover, Embed!Busy
<1>2. CASE embedRecovering # 0
  BY <1>1, <1>2, EmbCallMoves DEF Embed!Recover, Embed!closing
<1>3. CASE embedRecovering = 0 /\ embedState \in {"disposing", "idle"}
  BY <1>1, <1>3, EmbCallMoves DEF Embed!Recover, Embed!closing
<1>4. CASE embedRecovering = 0 /\ embedState \notin {"disposing", "idle"}
  <2> PICK i \in Embed!Fresh(embedLoad, Embed!NoLoad) :
        /\ embedLoad' = [embedLoad EXCEPT ![i] = [kind |-> "recover", pc |-> "drain", gpu |-> FALSE]]
        /\ embedInitializing' = i /\ embedRecovering' = i /\ Embed!Put(c, "recover", i)
    BY <1>4 DEF Embed!Recover
  <2>1. i \in Embed!Load /\ i # 0 /\ i \in Nat /\ embedLoad[i].pc = "none"
    BY EmbFreshLoad, EmbNumbers
  <2>2. embedState' = "initializing" /\ embedExcuse' = Embed!Undone
           /\ UNCHANGED <<embedPipeline, embedNative, embedDisposal>>
    BY <1>4 DEF Embed!Recover, Embed!closing
  <2>3. embedInitializing = 0
    BY <1>1, <1>4, EmbNumbers
       DEF Embed!Orderly, Embed!CallKnows, Embed!OneLoad, Embed!EmbedderTyped
  <2>4. \A d \in Embed!Disposal : ~Embed!Underway(d)
    BY <2>2 DEF Embed!Undone
  <2>5. \A j \in Embed!Load : embedLoad'[j] = IF j = i
           THEN [kind |-> "recover", pc |-> "drain", gpu |-> FALSE] ELSE embedLoad[j]
    BY <2>1 DEF Embed!EmbedderTyped
  <2>6. \A e \in Requester : /\ embedCall'[e] = IF e = c THEN "recover" ELSE embedCall[e]
                             /\ embedOn'[e] = IF e = c THEN i ELSE embedOn[e]
    BY DEF Embed!Put, Embed!EmbedderTyped
  <2>7. Embed!OneLoad'
    BY <2>1, <2>3, <2>5, <2>6, EmbNoLoadRuns DEF Embed!OneLoad, Embed!Running
  <2>8. Embed!LoadKnows'
    BY <2>1, <2>2, <2>3, <2>5, EmbNoLoadRuns
       DEF Embed!Orderly, Embed!LoadKnows, Embed!Running
  <2>9. Embed!StateKnows'
    BY <2>1, <2>2, <2>4 DEF Embed!StateKnows, Embed!Underway
  <2>10. Embed!DisposalKnows'
    BY <2>2, <2>4 DEF Embed!DisposalKnows, Embed!Underway
  <2>11. Embed!CallKnows'
    BY <2>1, <2>2, <2>3, <2>5, <2>6, EmbNoLoadRuns
       DEF Embed!Orderly, Embed!CallKnows, Embed!Busy, Embed!Alive
  <2> QED
    BY <2>7, <2>8, <2>9, <2>10, <2>11 DEF Embed!Orderly
<1> QED
  BY <1>2, <1>3, <1>4

(* A load ends: everyone who waits for one goes on, and none runs.         *)
LEMMA EmbSettlesOne ==
  ASSUME Embed!EmbedderTyped, Embed!Orderly, NEW i \in Embed!Load, NEW ok \in BOOLEAN,
         Embed!Running(i), Embed!Settled(i, ok)
  PROVE  /\ embedInitializing' = 0 /\ embedRecovering' = 0
         /\ \A j \in Embed!Load : embedLoad'[j].pc \in {"load", "warm", "drain", "swap"} => FALSE
         /\ \A c \in Requester : embedCall'[c] \notin {"join", "parked", "recover"}
         /\ \A c \in Requester : ~ok /\ Embed!Busy(c)' => Embed!Busy(c)
         /\ \A c \in Requester : embedCall'[c] = "infer" => embedCall[c] = "infer"
               /\ embedOn'[c] = embedOn[c]
<1>1. embedInitializing = i /\ i # 0 /\ (embedRecovering # 0 => embedRecovering = i)
         /\ \A j \in Embed!Load : j # i => ~Embed!Running(j)
  BY EmbTheLoad
<1>2. embedInitializing' = 0 /\ embedRecovering' = 0
  BY <1>1 DEF Embed!Settled
<1>3. \A j \in Embed!Load : j # i => embedLoad'[j] = embedLoad[j]
  BY DEF Embed!Settled, Embed!EmbedderTyped
<1>4. embedLoad'[i].pc = "done"
  BY EmbFlowMoves DEF Embed!Settled, Embed!EmbedderTyped
<1>5. \A c \in Requester : embedCall[c] \in {"join", "parked", "recover"} => embedOn[c] = i
  BY <1>1 DEF Embed!Orderly, Embed!CallKnows
<1>6. \A c \in Requester : embedCall[c] \in {"join", "parked", "recover"} =>
        embedCall'[c] = IF ~ok THEN "idle" ELSE IF embedCall[c] = "join" THEN "lock" ELSE "again"
  BY <1>5 DEF Embed!Settled
<1>7. \A c \in Requester : embedCall[c] \notin {"join", "parked", "recover"}
         => embedCall'[c] = embedCall[c] /\ embedOn'[c] = embedOn[c]
  BY DEF Embed!Settled
<1> QED
  BY <1>1, <1>2, <1>3, <1>4, <1>6, <1>7 DEF Embed!Running, Embed!Busy

LEMMA EmbSucceedKeeps ==
  ASSUME Embed!EmbedderTyped, Embed!Orderly, NEW i \in Embed!Load, Embed!Succeed(i)
  PROVE  Embed!Orderly'
<1>1. Embed!Running(i) /\ Embed!Settled(i, TRUE) /\ embedLoad[i].pc = "warm"
  BY DEF Embed!Succeed, Embed!Running
<1>2. embedPipeline = i /\ embedNative[i] = "live" /\ Embed!Alive
         /\ UNCHANGED <<embedPipeline, embedNative, embedDisposal>>
  BY <1>1, EmbTheLoad
     DEF Embed!Orderly, Embed!LoadKnows, Embed!Alive, Embed!Succeed, Embed!closing
<1>3. embedState \in {"initializing", "disposing"} /\ embedState' = IF embedState = "disposing"
         THEN embedState ELSE "ready"
  BY <1>1, EmbTheLoad DEF Embed!Succeed
<1>4. Embed!OneLoad'
  BY <1>1, EmbSettlesOne DEF Embed!OneLoad, Embed!Running
<1>5. Embed!LoadKnows'
  BY <1>1, <1>2, EmbSettlesOne DEF Embed!Orderly, Embed!LoadKnows
<1>6. Embed!StateKnows'
  BY <1>1, <1>2, <1>3, EmbSettlesOne, EmbTheLoad
     DEF Embed!StateKnows, Embed!Alive, Embed!Underway
<1>7. Embed!DisposalKnows'
  BY <1>1, <1>2, EmbTheLoad DEF Embed!DisposalKnows
<1>8. Embed!CallKnows'
  BY <1>1, <1>2, EmbSettlesOne DEF Embed!Orderly, Embed!CallKnows, Embed!Alive, Embed!Busy
<1> QED
  BY <1>4, <1>5, <1>6, <1>7, <1>8 DEF Embed!Orderly

LEMMA EmbFailKeeps ==
  ASSUME Embed!EmbedderTyped, Embed!Orderly, NEW i \in Embed!Load, Embed!Fail(i)
  PROVE  Embed!Orderly'
<1>1. Embed!Running(i) /\ Embed!Settled(i, FALSE) /\ embedLoad[i].pc \in {"load", "warm"}
  BY DEF Embed!Fail, Embed!Running
<1>2. UNCHANGED embedDisposal /\ embedState' = "failed" /\ embedPipeline' = 0
  BY DEF Embed!Fail, Embed!closing
<1>3. \A j \in Embed!Load : embedNative'[j] # "live"
  BY EmbNumbers DEF Embed!Fail, Embed!Orderly, Embed!LoadKnows, Embed!EmbedderTyped
<1>4. \A c \in Requester : ~Embed!Busy(c)
  BY <1>1, EmbTheLoad
<1>5. \A c \in Requester : ~Embed!Busy(c)'
  BY <1>1, <1>4, EmbSettlesOne
<1>6. Embed!OneLoad'
  BY <1>1, EmbSettlesOne DEF Embed!OneLoad, Embed!Running
<1>7. Embed!LoadKnows'
  BY <1>1, <1>3, EmbSettlesOne DEF Embed!Orderly, Embed!LoadKnows
<1>8. Embed!StateKnows'
  BY <1>1, <1>2, EmbSettlesOne DEF Embed!StateKnows
<1>9. Embed!DisposalKnows'
  BY <1>1, <1>2, EmbTheLoad DEF Embed!DisposalKnows
<1>10. Embed!CallKnows'
  BY <1>1, <1>5, EmbSettlesOne DEF Embed!CallKnows, Embed!Busy
<1> QED
  BY <1>6, <1>7, <1>8, <1>9, <1>10 DEF Embed!Orderly

(* A load goes on from one place to the next, while nobody infers.         *)
LEMMA EmbLoadMoves ==
  ASSUME Embed!EmbedderTyped, Embed!Orderly, NEW i \in Embed!Load, Embed!Running(i),
         NEW pc \in {"swap", "load", "warm"}, embedLoad' = [embedLoad EXCEPT ![i].pc = pc],
         UNCHANGED <<embedState, embedInitializing, embedRecovering, Embed!closing, Embed!calling>>,
         \A c \in Requester : ~Embed!Busy(c),
         pc = "swap" => embedLoad[i].kind = "recover",
         pc = "load" => embedPipeline' = 0,
         pc = "warm" => embedPipeline' = i /\ embedNative'[i] = "live",
         \A j \in Embed!Load : embedNative'[j] = "live" => embedPipeline' = j
  PROVE  Embed!Orderly'
<1>1. /\ embedInitializing = i /\ \A j \in Embed!Load : j # i => ~Embed!Running(j)
      /\ embedState \in {"initializing", "disposing"}
      /\ \A d \in Embed!Disposal : embedDisposal[d] \notin {"redrain", "free", "unlock"}
      /\ (\E d \in Embed!Disposal : Embed!Underway(d)) => embedState = "disposing"
  BY EmbTheLoad
<1>2. /\ \A j \in Embed!Load : j # i => embedLoad'[j] = embedLoad[j]
      /\ embedLoad'[i].kind = embedLoad[i].kind
  BY EmbFlowMoves DEF Embed!EmbedderTyped
<1>3. embedLoad'[i].pc = pc
  BY EmbFlowMoves DEF Embed!EmbedderTyped
<1>4. UNCHANGED <<embedDisposal, embedCall, embedOn>>
  BY DEF Embed!closing, Embed!calling
<1>5. Embed!OneLoad'
  BY <1>1, <1>2, <1>3, <1>4 DEF Embed!Orderly, Embed!OneLoad, Embed!Running
<1>6. Embed!LoadKnows'
  BY <1>1, <1>2, <1>3 DEF Embed!LoadKnows, Embed!Running
<1>7. Embed!StateKnows'
  BY <1>1, <1>4, EmbNumbers DEF Embed!StateKnows, Embed!Underway
<1>8. Embed!DisposalKnows'
  BY <1>1, <1>4 DEF Embed!DisposalKnows
<1>9. Embed!CallKnows'
  BY <1>4 DEF Embed!Orderly, Embed!CallKnows, Embed!Busy
<1> QED
  BY <1>5, <1>6, <1>7, <1>8, <1>9 DEF Embed!Orderly

LEMMA EmbLoadedKeeps ==
  ASSUME Embed!EmbedderTyped, Embed!Orderly, NEW i \in Embed!Load, Embed!Loaded(i)
  PROVE  Embed!Orderly'
<1>1. Embed!Running(i) /\ embedPipeline = 0 /\ \A c \in Requester : ~Embed!Busy(c)
  BY EmbTheLoad DEF Embed!Loaded, Embed!Running, Embed!Orderly, Embed!LoadKnows
<1>2. embedNative'[i] = "live" /\ embedPipeline' = i /\ \A j \in Embed!Load : j # i
         => embedNative'[j] # "live"
  BY <1>1, EmbNumbers DEF Embed!Loaded, Embed!Orderly, Embed!LoadKnows, Embed!EmbedderTyped
<1> QED
  BY <1>1, <1>2, EmbLoadMoves DEF Embed!Loaded

LEMMA EmbSwappedKeeps ==
  ASSUME Embed!EmbedderTyped, Embed!Orderly, NEW i \in Embed!Load, Embed!RecoverySwapped(i)
  PROVE  Embed!Orderly'
<1>1. Embed!Running(i) /\ \A c \in Requester : ~Embed!Busy(c)
  BY EmbTheLoad DEF Embed!RecoverySwapped, Embed!Running
<1>2. embedPipeline' = 0 /\ \A j \in Embed!Load : embedNative'[j] # "live"
  BY EmbNumbers
     DEF Embed!RecoverySwapped, Embed!Orderly, Embed!LoadKnows, Embed!EmbedderTyped
<1> QED
  BY <1>1, <1>2, EmbLoadMoves DEF Embed!RecoverySwapped

(* A drain that found its quiet: the one call that does not wait is the    *)
(* one that recovers.                                                      *)
LEMMA EmbQuietCounts ==
  ASSUME Embed!EmbedderTyped, Embed!Quiet, NEW e \in Requester, embedCall[e] = "recover",
         NEW c \in Requester, embedCall[c] # "counting"
  PROVE  ~Embed!Busy(c)
<1> SUFFICES ASSUME Embed!Busy(c)  PROVE FALSE
  OBVIOUS
<1>1. IsFiniteSet(Embed!Active) /\ IsFiniteSet(Embed!Waiting)
         /\ Embed!Waiting \subseteq Embed!Active
  BY EmbedCounting, EmbedderSettingHolds, FS_Subset DEF Embed!EmbedderSetting, Embed!Active, Embed!Waiting
<1>2. Cardinality(Embed!Active \ Embed!Waiting) = Cardinality(Embed!Active) - Cardinality(Embed!Waiting)
  <2>1. Embed!Active \cap Embed!Waiting = Embed!Waiting
    BY <1>1
  <2> QED
    BY EmbedCounting, <1>1, <2>1, FS_Difference
<1>3. c # e /\ {c, e} \subseteq Embed!Active \ Embed!Waiting
  BY DEF Embed!Busy, Embed!Active, Embed!Waiting
<1>4. IsFiniteSet(Embed!Active \ Embed!Waiting)
  BY EmbedCounting, <1>1, FS_Subset
<1>5. Cardinality({c, e}) = 2 /\ IsFiniteSet({c, e})
  <2>1. IsFiniteSet({c}) /\ Cardinality({c}) = 1 /\ e \notin {c}
    BY EmbedCounting, <1>3, FS_Singleton
  <2>2. {c, e} = {c} \cup {e}
    OBVIOUS
  <2> QED
    BY EmbedCounting, <2>1, <2>2, FS_AddElement
<1>6. Cardinality({c, e}) <= Cardinality(Embed!Active \ Embed!Waiting)
  BY EmbedCounting, <1>3, <1>4, FS_Subset
<1>7. Cardinality(Embed!Active) - Cardinality(Embed!Waiting) <= 1
  BY EmbedCounting DEF Embed!Quiet
<1> QED
  BY EmbedCounting, <1>1, <1>2, <1>4, <1>5, <1>6, <1>7, FS_CardinalityType

LEMMA EmbDrainedKeeps ==
  ASSUME Embed!EmbedderTyped, Embed!Orderly, NEW i \in Embed!Load,
         Embed!RecoveryDrained(i), embedExcuse' = {}
  PROVE  Embed!Orderly'
<1>1. Embed!Running(i) /\ embedLoad[i].kind = "recover"
  BY DEF Embed!RecoveryDrained, Embed!Running, Embed!Orderly, Embed!OneLoad
<1>2. Embed!Quiet
  BY DEF Embed!RecoveryDrained
<1>3. PICK e \in Requester : embedCall[e] = "recover"
  BY <1>1, EmbTheLoad DEF Embed!Orderly, Embed!OneLoad
<1>4. \A c \in Requester : ~Embed!Busy(c)
  BY <1>2, <1>3, EmbQuietCounts DEF Embed!RecoveryDrained
<1>5. \A j \in Embed!Load : embedNative'[j] # "live"
  BY EmbNumbers
     DEF Embed!RecoveryDrained, Embed!Orderly, Embed!LoadKnows, Embed!EmbedderTyped
<1> QED
  BY <1>1, <1>4, <1>5, EmbLoadMoves DEF Embed!RecoveryDrained, Embed!closing, Embed!calling

(* A disposal goes on.                                                     *)
LEMMA EmbDisposalMoves ==
  ASSUME Embed!EmbedderTyped, Embed!Orderly, NEW d \in Embed!Disposal,
         NEW to \in {"drain", "await", "redrain"},
         embedDisposal' = [embedDisposal EXCEPT ![d] = to],
         embedState' \in {embedState, "disposing"},
         ~Embed!Underway(d) => embedState' = "disposing",
         to = "redrain" => embedInitializing = 0,
         UNCHANGED <<embedPipeline, Embed!loading, Embed!calling>>
  PROVE  Embed!Orderly'
<1>1. \A e \in Embed!Disposal : embedDisposal'[e] = IF e = d THEN to ELSE embedDisposal[e]
  BY DEF Embed!EmbedderTyped
<1>2. Embed!OneLoad' /\ Embed!LoadKnows'
  BY DEF Embed!Orderly, Embed!OneLoad, Embed!LoadKnows, Embed!Running, Embed!loading,
     Embed!calling
<1>3. Embed!StateKnows'
  BY <1>1
     DEF Embed!Orderly, Embed!StateKnows, Embed!Underway, Embed!Alive, Embed!loading,
         Embed!EmbedderTyped
<1>4. Embed!DisposalKnows' /\ Embed!CallKnows'
  BY <1>1
     DEF Embed!Orderly, Embed!DisposalKnows, Embed!CallKnows, Embed!Busy, Embed!Alive,
         Embed!loading, Embed!calling
<1> QED
  BY <1>2, <1>3, <1>4 DEF Embed!Orderly

LEMMA EmbDisposeKeeps ==
  ASSUME Embed!EmbedderTyped, Embed!Orderly, NEW why, Embed!Dispose(why)
  PROVE  Embed!Orderly'
<1>1. CASE UNCHANGED <<embedState, embedDisposal, embedDisposing>>
  BY <1>1
     DEF Embed!Dispose, Embed!Orderly, Embed!OneLoad, Embed!LoadKnows, Embed!StateKnows,
         Embed!DisposalKnows, Embed!CallKnows, Embed!Running, Embed!Busy,
        Embed!Alive, Embed!Underway, Embed!loading, Embed!calling
<1>2. CASE embedState' = "disposing" /\ \E d \in Embed!Fresh(embedDisposal, "none") :
             embedDisposal' = [embedDisposal EXCEPT ![d] = "drain"] /\ embedDisposing' = d
  BY <1>2, EmbFreshDisposal, EmbDisposalMoves DEF Embed!Dispose
<1> QED
  BY <1>1, <1>2 DEF Embed!Dispose

LEMMA EmbAwaitKeeps ==
  ASSUME Embed!EmbedderTyped, Embed!Orderly, NEW d \in Embed!Disposal,
         Embed!Drained(d) \/ Embed!LoadAwaited(d)
  PROVE  Embed!Orderly'
<1>1. CASE Embed!Drained(d)
  BY <1>1, EmbDisposalMoves DEF Embed!Drained, Embed!Underway
<1>2. CASE Embed!LoadAwaited(d)
  BY <1>2, EmbDisposalMoves DEF Embed!LoadAwaited, Embed!Underway
<1> QED
  BY <1>1, <1>2

(* The pipeline goes, when no load runs and no call is under way.          *)
LEMMA EmbPipelineGoes ==
  ASSUME Embed!EmbedderTyped, Embed!Orderly, NEW d \in Embed!Disposal,
         NEW to \in {"free", "unlock"},
         embedDisposal' = [embedDisposal EXCEPT ![d] = to],
         embedDisposal[d] \in {"drain", "redrain", "free"}, embedInitializing = 0,
         UNCHANGED <<embedState, embedLoad, embedInitializing, embedRecovering, Embed!calling>>,
         \A c \in Requester : ~Embed!Busy(c), embedPipeline' \in {embedPipeline, 0},
         to = "unlock" => embedPipeline' = 0,
         \A i \in Embed!Load : embedNative'[i] # "live"
  PROVE  Embed!Orderly'
<1>1. \A e \in Embed!Disposal : embedDisposal'[e] = IF e = d THEN to ELSE embedDisposal[e]
  BY DEF Embed!EmbedderTyped
<1>2. ~Embed!Alive'
  BY EmbNumbers DEF Embed!Alive, Embed!EmbedderTyped
<1>3. (\A j \in Embed!Load : ~Embed!Running(j)) /\ embedRecovering = 0
  BY EmbNoLoadRuns
<1>4. Embed!OneLoad' /\ Embed!LoadKnows'
  BY <1>3 DEF Embed!OneLoad, Embed!LoadKnows, Embed!Running
<1>5. Embed!StateKnows'
  <2>1. embedState # "ready"
    BY DEF Embed!Orderly, Embed!StateKnows, Embed!Underway
  <2> QED
    BY <1>1, <1>2, <2>1 DEF Embed!Orderly, Embed!StateKnows, Embed!Underway
<1>6. \A c \in Requester : ~Embed!Busy(c)'
  BY DEF Embed!calling, Embed!Busy
<1>7. Embed!DisposalKnows'
  BY <1>1, <1>2, <1>6 DEF Embed!Orderly, Embed!DisposalKnows
<1>8. Embed!CallKnows'
  BY <1>6, EmbNoLoadRuns DEF Embed!CallKnows, Embed!Busy, Embed!calling
<1> QED
  BY <1>4, <1>5, <1>7, <1>8 DEF Embed!Orderly

LEMMA EmbTearDownKeeps ==
  ASSUME Embed!EmbedderTyped, Embed!Orderly, NEW d \in Embed!Disposal, Embed!TearDown(d),
         embedExcuse' = {}
  PROVE  Embed!Orderly'
<1>1. embedInitializing = 0 /\ embedDisposal[d] \in {"drain", "redrain"}
  BY DEF Embed!TearDown, Embed!Orderly, Embed!DisposalKnows
<1>2. \A c \in Requester : ~Embed!Busy(c)
  <2>1. Embed!Active = {} /\ \A c \in Requester : embedCall[c] # "counting"
    BY DEF Embed!TearDown
  <2> QED
    BY <2>1 DEF Embed!Busy, Embed!Active
<1>3. \A i \in Embed!Load : embedNative'[i] # "live"
  BY EmbNumbers DEF Embed!TearDown, Embed!Orderly, Embed!LoadKnows, Embed!EmbedderTyped
<1>4. \/ embedDisposal' = [embedDisposal EXCEPT ![d] = "unlock"] /\ embedPipeline' = 0
      \/ embedDisposal' = [embedDisposal EXCEPT ![d] = "free"] /\ embedPipeline' = embedPipeline
  BY DEF Embed!TearDown
<1> QED
  BY <1>1, <1>2, <1>3, <1>4, EmbPipelineGoes DEF Embed!TearDown

LEMMA EmbFreedKeeps ==
  ASSUME Embed!EmbedderTyped, Embed!Orderly, NEW d \in Embed!Disposal, Embed!Freed(d)
  PROVE  Embed!Orderly'
<1>1. embedInitializing = 0 /\ ~Embed!Alive /\ \A c \in Requester : ~Embed!Busy(c)
  BY DEF Embed!Freed, Embed!Orderly, Embed!DisposalKnows
<1>2. \A i \in Embed!Load : embedNative'[i] # "live"
  BY <1>1, EmbNumbers
     DEF Embed!Freed, Embed!Orderly, Embed!LoadKnows, Embed!EmbedderTyped, Embed!Alive
<1> QED
  BY <1>1, <1>2, EmbPipelineGoes DEF Embed!Freed

LEMMA EmbTornDownKeeps ==
  ASSUME Embed!EmbedderTyped, Embed!Orderly, NEW d \in Embed!Disposal, Embed!TornDown(d)
  PROVE  Embed!Orderly'
<1>1. embedPipeline = 0 /\ embedInitializing = 0 /\ ~Embed!Alive
         /\ \A c \in Requester : ~Embed!Busy(c)
  BY DEF Embed!TornDown, Embed!Orderly, Embed!DisposalKnows
<1>2. \A e \in Embed!Disposal : embedDisposal'[e] = IF e = d THEN "done" ELSE embedDisposal[e]
  BY DEF Embed!TornDown, Embed!EmbedderTyped
<1>3. \A c \in Requester : embedCall'[c] \in {embedCall[c], "revived"}
  BY DEF Embed!TornDown
<1>4. \A c \in Requester : ~Embed!Busy(c)' /\ embedCall'[c] \notin {"join", "parked", "recover"}
  BY <1>1, <1>3, EmbNoLoadRuns DEF Embed!Busy
<1>5. Embed!OneLoad' /\ Embed!LoadKnows'
  BY <1>1, EmbNoLoadRuns
     DEF Embed!Orderly, Embed!TornDown, Embed!OneLoad, Embed!LoadKnows, Embed!Running,
         Embed!loading
<1>6. Embed!StateKnows'
  BY <1>1 DEF Embed!TornDown, Embed!StateKnows, Embed!loading
<1>7. Embed!DisposalKnows'
  BY <1>1, <1>2, <1>4
     DEF Embed!Orderly, Embed!TornDown, Embed!DisposalKnows, Embed!Alive, Embed!loading
<1>8. Embed!CallKnows'
  BY <1>4 DEF Embed!CallKnows, Embed!Busy
<1> QED
  BY <1>5, <1>6, <1>7, <1>8 DEF Embed!Orderly

LEMMA EmbNothingMoves ==
  ASSUME Embed!Orderly,
         UNCHANGED <<embedState, embedPipeline, Embed!loading, embedDisposal, Embed!calling>>
  PROVE  Embed!Orderly'
BY DEF Embed!Orderly, Embed!OneLoad, Embed!LoadKnows, Embed!StateKnows,
   Embed!DisposalKnows, Embed!CallKnows, Embed!Running, Embed!Busy, Embed!Alive,
       Embed!Underway, Embed!loading, Embed!calling

LEMMA EmbInitial == Embed!Init => Embed!EmbedderInv
<1> SUFFICES ASSUME Embed!Init PROVE Embed!EmbedderInv
  OBVIOUS
<1> USE EmbNumbers DEF Embed!Init
<1>1. Embed!EmbedderTyped
  <2>1. embedLoad \in [Embed!Load -> Embed!Flow]
    BY DEF Embed!NoLoad, Embed!Flow
  <2> QED
    BY <2>1 DEF Embed!EmbedderTyped, Embed!Fates, Embed!Calls
<1>2. Embed!OneLoad /\ Embed!LoadKnows
  BY DEF Embed!OneLoad, Embed!LoadKnows, Embed!Running, Embed!NoLoad
<1>3. Embed!StateKnows /\ Embed!DisposalKnows /\ Embed!CallKnows
  BY DEF Embed!StateKnows, Embed!DisposalKnows, Embed!CallKnows, Embed!Underway, Embed!Busy
<1> QED
  BY <1>1, <1>2, <1>3 DEF Embed!EmbedderInv, Embed!Orderly

LEMMA EmbExcusesStay == [Embed!Next]_Embed!embedderVars => embedExcuse \subseteq embedExcuse'
<1> SUFFICES ASSUME [Embed!Next]_Embed!embedderVars PROVE embedExcuse \subseteq embedExcuse'
  OBVIOUS
<1>1. \A c \in Requester : Embed!Enter(c) \/ Embed!Refused(c) \/ Embed!Count(c)
         \/ Embed!RunInference(c) \/ Embed!Return(c) \/ Embed!Recover(c)
        => embedExcuse \subseteq embedExcuse'
  BY DEF Embed!Enter, Embed!StartLoad, Embed!Refused, Embed!Count, Embed!RunInference,
     Embed!Return, Embed!Recover, Embed!Undone
<1>2. \A i \in Embed!Load : Embed!Loaded(i) \/ Embed!Succeed(i) \/ Embed!Fail(i)
         \/ Embed!RecoveryDrained(i) \/ Embed!RecoverySwapped(i)
        => embedExcuse \subseteq embedExcuse'
  BY DEF Embed!Loaded, Embed!Succeed, Embed!Fail, Embed!RecoveryDrained,
     Embed!RecoverySwapped
<1>3. \A d \in Embed!Disposal : Embed!Drained(d) \/ Embed!LoadAwaited(d) \/ Embed!TearDown(d)
         \/ Embed!Freed(d) \/ Embed!TornDown(d)
        => embedExcuse \subseteq embedExcuse'
  BY DEF Embed!Drained, Embed!LoadAwaited, Embed!TearDown, Embed!Freed, Embed!TornDown
<1> QED
  BY <1>1, <1>2, <1>3
     DEF Embed!Next, Embed!Dispose, Embed!IdleFires, Embed!Wedge, Embed!embedderVars

LEMMA EmbStepKeeps == Embed!EmbedderInv /\ [Embed!Next]_Embed!embedderVars => Embed!EmbedderInv'
<1> SUFFICES ASSUME Embed!EmbedderInv, [Embed!Next]_Embed!embedderVars
   PROVE Embed!EmbedderInv'
  OBVIOUS
<1>1. Embed!EmbedderTyped /\ Embed!EmbedderTyped'
  BY EmbTypesKept DEF Embed!EmbedderInv
<1> SUFFICES ASSUME embedExcuse' = {} PROVE Embed!Orderly'
  BY <1>1 DEF Embed!EmbedderInv
<1>2. Embed!Orderly
  BY EmbExcusesStay DEF Embed!EmbedderInv
<1>3. ASSUME NEW c \in Requester,
             Embed!Enter(c) \/ Embed!Refused(c) \/ Embed!Count(c) \/ Embed!RunInference(c)
                \/ Embed!Return(c) \/ Embed!Recover(c)
      PROVE  Embed!Orderly'
  BY <1>1, <1>2, <1>3, EmbEnterKeeps, EmbCallKeeps, EmbRecoverKeeps
<1>4. ASSUME NEW i \in Embed!Load,
             Embed!Loaded(i) \/ Embed!Succeed(i) \/ Embed!Fail(i) \/ Embed!RecoveryDrained(i)
                \/ Embed!RecoverySwapped(i)
      PROVE  Embed!Orderly'
  BY <1>1, <1>2, <1>4, EmbLoadedKeeps, EmbSucceedKeeps, EmbFailKeeps, EmbDrainedKeeps,
     EmbSwappedKeeps
<1>5. ASSUME NEW d \in Embed!Disposal,
             Embed!Drained(d) \/ Embed!LoadAwaited(d) \/ Embed!TearDown(d) \/ Embed!Freed(d)
                \/ Embed!TornDown(d)
      PROVE  Embed!Orderly'
  BY <1>1, <1>2, <1>5, EmbAwaitKeeps, EmbTearDownKeeps, EmbFreedKeeps, EmbTornDownKeeps
<1>6. CASE Embed!Dispose("terminal") \/ Embed!IdleFires
  BY <1>1, <1>2, <1>6, EmbDisposeKeeps DEF Embed!IdleFires
<1>7. CASE Embed!Wedge
  BY <1>2, <1>7, EmbNothingMoves DEF Embed!Wedge, Embed!loading, Embed!calling
<1>8. CASE UNCHANGED Embed!embedderVars
  BY <1>2, <1>8, EmbNothingMoves DEF Embed!embedderVars, Embed!loading, Embed!calling
<1> QED
  BY <1>3, <1>4, <1>5, <1>6, <1>7, <1>8 DEF Embed!Next

(* No inference runs on a pipeline that is being disposed of or is gone,   *)
(* and no pipeline is overwritten alive, for any number of calls, loads    *)
(* and disposals.                                                          *)
THEOREM NoneDisturbed == Embed!Spec => []InferenceUndisturbed
<1>1. Embed!EmbedderInv => InferenceUndisturbed
  BY DEF Embed!EmbedderInv, Embed!Orderly, Embed!LoadKnows, Embed!CallKnows, Embed!Busy,
     Embed!Alive, Embed!Inferring, InferenceUndisturbed, Embed!InferenceUndisturbed
<1> QED
  BY EmbInitial, EmbStepKeeps, <1>1, PTL DEF Embed!Spec

-----------------------------------------------------------------------------
(* The opening of the knowledge store.                                     *)

LEMMA StoreNamesAreNames ==
  /\ Store!Plain("vector") \in Store!Name /\ Store!Plain("bm25") \in Store!Name
        /\ Store!NoName \in Store!Name
  /\ \A k \in Nat : Store!Temp(k) \in Store!Name /\ Store!Backup(k) \in Store!Name
BY DEF Store!Plain, Store!NoName, Store!Temp, Store!Backup, Store!Name

LEMMA StoreTheOtherMode == Store!Other("vector") = "bm25" /\ Store!Other("bm25") = "vector"
BY DEF Store!Other, Store!Mode

(* The helpers of the module, as facts.                                    *)
LEMMA StoreCreatedDirs ==
  ASSUME Store!StoreTyped, NEW name \in Store!Name, NEW model \in Model,
         storeDirs' = Store!Created(name, model)
  PROVE  /\ DOMAIN storeDirs' = DOMAIN storeDirs \cup {name}
         /\ storeDirs'[name] = [model |-> model, rows |-> {}, broken |-> FALSE]
         /\ \A n \in DOMAIN storeDirs : n # name => storeDirs'[n] = storeDirs[n]
         /\ DOMAIN storeDirs' \subseteq Store!Name
               /\ storeDirs' \in [DOMAIN storeDirs' -> Store!Directory]
BY DEF Store!Created, Store!StoreTyped, Store!Directory

LEMMA StoreMovedDirs ==
  ASSUME Store!StoreTyped, NEW from \in DOMAIN storeDirs, NEW to \in Store!Name, to # from,
         storeDirs' = Store!Moved(from, to)
  PROVE  /\ DOMAIN storeDirs' = (DOMAIN storeDirs \ {from}) \cup {to}
         /\ storeDirs'[to] = storeDirs[from]
         /\ \A n \in DOMAIN storeDirs : n # from /\ n # to => storeDirs'[n] = storeDirs[n]
         /\ DOMAIN storeDirs' \subseteq Store!Name
               /\ storeDirs' \in [DOMAIN storeDirs' -> Store!Directory]
BY DEF Store!Moved, Store!StoreTyped

LEMMA StoreRemovedDirs ==
  ASSUME Store!StoreTyped, NEW names, storeDirs' = Store!Removed(names)
  PROVE  /\ DOMAIN storeDirs' = DOMAIN storeDirs \ names
         /\ \A n \in DOMAIN storeDirs' : storeDirs'[n] = storeDirs[n]
         /\ DOMAIN storeDirs' \subseteq Store!Name
               /\ storeDirs' \in [DOMAIN storeDirs' -> Store!Directory]
BY DEF Store!Removed, Store!Restrict, Store!StoreTyped

LEMMA StoreRewrittenDirs ==
  ASSUME Store!StoreTyped, NEW t \in DOMAIN storeDirs,
         NEW R \in SUBSET (1 .. storeRowsUsed),
         storeDirs' = [storeDirs EXCEPT ![t].rows = R]
  PROVE  /\ DOMAIN storeDirs' = DOMAIN storeDirs
         /\ storeDirs'[t].rows = R /\ storeDirs'[t].broken = storeDirs[t].broken
         /\ \A n \in DOMAIN storeDirs : n # t => storeDirs'[n] = storeDirs[n]
         /\ DOMAIN storeDirs' \subseteq Store!Name
               /\ storeDirs' \in [DOMAIN storeDirs' -> Store!Directory]
BY DEF Store!StoreTyped, Store!Directory

LEMMA StoreBrokenDirs ==
  ASSUME Store!StoreTyped, NEW t \in DOMAIN storeDirs,
         storeDirs' = [storeDirs EXCEPT ![t].broken = TRUE]
  PROVE  /\ DOMAIN storeDirs' = DOMAIN storeDirs
         /\ storeDirs'[t].rows = storeDirs[t].rows
         /\ \A n \in DOMAIN storeDirs : n # t => storeDirs'[n] = storeDirs[n]
         /\ DOMAIN storeDirs' \subseteq Store!Name
               /\ storeDirs' \in [DOMAIN storeDirs' -> Store!Directory]
BY DEF Store!StoreTyped, Store!Directory

LEMMA StoreOpens ==
  ASSUME Store!StoreTyped
  PROVE  /\ storeOpening # None => storeOpening \in Store!Openings
         /\ storeOpening = None => storeOpening \notin Store!Openings
BY StoreSettingHolds DEF Store!StoreTyped, Store!StoreSetting

LEMMA StoreGoesTo ==
  ASSUME storeOpening \in Store!Openings, NEW pc \in Store!Places, Store!Go(pc)
  PROVE  /\ storeOpening' \in Store!Openings /\ storeOpening' # None /\ storeOpening'.pc = pc
         /\ storeOpening'.mode = storeOpening.mode /\ storeOpening'.read = storeOpening.read
         /\ storeOpening'.table = storeOpening.table /\ storeOpening'.other = storeOpening.other
         /\ storeOpening'.temp = storeOpening.temp /\ storeOpening'.todo = storeOpening.todo
<1>1. storeOpening' \in Store!Openings
  BY DEF Store!Go, Store!Openings
<1> QED
  BY <1>1, StoreSettingHolds DEF Store!Go, Store!Openings, Store!StoreSetting

LEMMA StoreGoesToAs ==
  ASSUME storeOpening \in Store!Openings, NEW pc \in Store!Places,
         NEW table \in Store!Name, Store!GoAs(pc, table)
  PROVE  /\ storeOpening' \in Store!Openings /\ storeOpening' # None /\ storeOpening'.pc = pc
         /\ storeOpening'.mode = storeOpening.mode /\ storeOpening'.read = storeOpening.read
         /\ storeOpening'.table = table /\ storeOpening'.other = storeOpening.other
         /\ storeOpening'.temp = storeOpening.temp /\ storeOpening'.todo = storeOpening.todo
<1>1. storeOpening' \in Store!Openings
  BY DEF Store!GoAs, Store!Openings
<1> QED
  BY <1>1, StoreSettingHolds DEF Store!GoAs, Store!Openings, Store!StoreSetting

LEMMA StoreSaves ==
  ASSUME storeOpening \in Store!Openings, NEW table \in Store!Name,
         storeManifest' = Store!Saved(table)
  PROVE  /\ storeManifest' \in [read : {"loaded", "corrupt"}, vector : Store!Name, bm25 : Store!Name]
         /\ storeManifest'.read = "loaded"
         /\ storeOpening.mode = "vector" => storeManifest'.vector = table
               /\ storeManifest'.bm25 = storeOpening.other
         /\ storeOpening.mode = "bm25" => storeManifest'.bm25 = table
               /\ storeManifest'.vector = storeOpening.other
BY DEF Store!Saved, Store!Openings, Store!Mode

LEMMA StoreRowsOf ==
  ASSUME Store!StoreTyped, NEW n
  PROVE  Store!RowsIn({n}) = IF n \in DOMAIN storeDirs THEN storeDirs[n].rows ELSE {}
BY DEF Store!RowsIn

LEMMA StoreRowsCount ==
  ASSUME Store!StoreTyped, NEW S \in SUBSET (1 .. storeRowsUsed)
  PROVE  Store!IsFiniteSet(S) /\ Store!Cardinality(S) \in Nat
<1>1. Store!IsFiniteSet(1 .. storeRowsUsed)
  <2>1. 1 \in Int /\ storeRowsUsed \in Int
    BY DEF Store!StoreTyped
  <2>2. IsFiniteSet(1 .. storeRowsUsed)
    BY <2>1, FS_Interval
  <2> QED
    BY <2>2, StoreCounting
<1> QED
  BY StoreCounting, <1>1, FS_Subset, FS_CardinalityType

LEMMA StoreRowsInRange ==
  ASSUME Store!StoreTyped, NEW n  PROVE  Store!RowsIn({n}) \subseteq 1 .. storeRowsUsed
BY DEF Store!RowsIn, Store!StoreTyped, Store!Directory

LEMMA StoreTypedInit == Store!Init => Store!StoreTyped
<1> SUFFICES ASSUME Store!Init PROVE Store!StoreTyped
  OBVIOUS
<1>1. storeParted \in BOOLEAN
  BY DEF Store!Init
<1>2. /\ DOMAIN storeDirs \subseteq Store!Name
      /\ storeDirs \in [DOMAIN storeDirs -> Store!Directory]
  BY StoreSettingHolds, StoreNamesAreNames DEF Store!Init, Store!StoreSetting, Store!Directory
<1>3. /\ storeManifest \in [read : {"loaded", "corrupt"}, vector : Store!Name, bm25 : Store!Name]
      /\ storeOpening \in Store!Openings \cup {None} /\ storeSessions \subseteq Store!Name
      /\ storeRowsUsed \in Nat /\ storeStamp \in Nat /\ storeTtl \in [rows : Nat, stamp : Nat]
  BY StoreNamesAreNames DEF Store!Init
<1> QED
  BY <1>1, <1>2, <1>3 DEF Store!StoreTyped

LEMMA StoreTypedStep == Store!StoreTyped /\ [Store!Next]_Store!storeVars => Store!StoreTyped'
<1> SUFFICES ASSUME Store!StoreTyped, [Store!Next]_Store!storeVars PROVE Store!StoreTyped'
  OBVIOUS
<1> USE StoreNamesAreNames
<1>0. storeOpening # None =>
        /\ storeOpening \in Store!Openings /\ storeOpening.table \in Store!Name
              /\ storeOpening.temp \in Store!Name
        /\ storeOpening.model \in Model
  BY StoreOpens DEF Store!Openings
<1> DEFINE Rest == /\ storeSessions' \subseteq Store!Name
                   /\ storeRowsUsed' \in Nat /\ storeStamp' \in Nat
                         /\ storeTtl' \in [rows : Nat, stamp : Nat]
           Dirs == DOMAIN storeDirs' \subseteq Store!Name
              /\ storeDirs' \in [DOMAIN storeDirs' -> Store!Directory]
           Man == storeManifest' \in [read : {"loaded", "corrupt"}, vector : Store!Name, bm25 : Store!Name]
           Ope == storeOpening' \in Store!Openings \cup {None}
<1>S. UNCHANGED storeDirs => Dirs
  BY DEF Store!StoreTyped
<1>M. UNCHANGED storeManifest => Man
  BY DEF Store!StoreTyped
<1>O. (UNCHANGED storeOpening => Ope) /\ (storeOpening' = None => Ope)
  BY DEF Store!StoreTyped
<1>R. /\ UNCHANGED storeSessions => storeSessions' \subseteq Store!Name
      /\ UNCHANGED storeRowsUsed => storeRowsUsed' \in Nat
      /\ UNCHANGED storeStamp => storeStamp' \in Nat
      /\ UNCHANGED storeTtl => storeTtl' \in [rows : Nat, stamp : Nat]
      /\ storeRowsUsed + 1 \in Nat /\ storeStamp + 1 \in Nat
  BY DEF Store!StoreTyped
<1>G. \A pc \in Store!Places : storeOpening # None /\ Store!Go(pc) => Ope
  BY <1>0, StoreGoesTo
<1>A. \A pc \in Store!Places, t \in Store!Name : storeOpening # None /\ Store!GoAs(pc, t) => Ope
  BY <1>0, StoreGoesToAs
<1>V. \A t \in Store!Name : storeOpening # None /\ storeManifest' = Store!Saved(t) => Man
  BY <1>0, StoreSaves
<1>C. \A n \in Store!Name : storeOpening # None
      /\ storeDirs' = Store!Created(n, storeOpening.model) => Dirs
  BY <1>0, StoreCreatedDirs
<1>D. \A n : storeDirs' = Store!Removed(n) => Dirs
  BY StoreRemovedDirs
<1>P. storeParted' \in BOOLEAN
  BY DEF Store!StoreTyped, Store!Next, Store!Step, Store!Open, Store!OpenTable,
         Store!NewTable, Store!BackupRename, Store!DropTable, Store!CreateAfter,
         Store!ReCreate, Store!Copy, Store!PointAtTemp, Store!DropOld, Store!RenameTemp,
         Store!PointAtPlain, Store!Reopen, Store!Revert, Store!Repair, Store!Evict,
         Store!Prune, Store!Opened, Store!Add, Store!ForceDelete, Store!Crash,
         Store!PowerLoss, Store!TtlPasses, Store!Moving, Store!storeVars
<1>W. \A f \in DOMAIN storeDirs, t \in Store!Name : f # t /\ storeDirs' = Store!Moved(f, t) => Dirs
  BY StoreMovedDirs
<1> HIDE DEF Rest, Dirs, Man, Ope
<1>F. Rest /\ Dirs /\ Man /\ Ope /\ storeRowsUsed' = storeRowsUsed => Store!StoreTyped'
  <2> SUFFICES ASSUME Rest, Dirs, Man, Ope, storeRowsUsed' = storeRowsUsed
     PROVE Store!StoreTyped'
    OBVIOUS
  <2> Store!Directory' = Store!Directory /\ Store!Openings' = Store!Openings
    BY DEF Store!Directory, Store!Openings
  <2> QED
    BY <1>P DEF Rest, Dirs, Man, Ope, Store!StoreTyped
<1>K. UNCHANGED <<Store!kept, storeStamp>> => Rest /\ storeRowsUsed' = storeRowsUsed
  BY <1>R DEF Store!kept, Rest
<1>1. ASSUME NEW c \in Store!Conf, Store!Open(c) PROVE Store!StoreTyped'
  <2>1. storeManifest.vector \in Store!Name /\ storeManifest.bm25 \in Store!Name
           /\ storeManifest.read \in {"loaded", "corrupt"}
    BY DEF Store!StoreTyped
  <2>2. c.mode \in Store!Mode /\ c.model \in Model /\ c.strategy \in {"backup", "drop", "re-embed"}
    BY StoreSettingHolds DEF Store!Conf, Store!StoreSetting, Store!Mode
  <2>3. \A m \in Store!Mode : Store!Plain(m) \in Store!Name /\ storeManifest[m] \in Store!Name
           /\ Store!Other(m) \in Store!Mode
    BY <2>1, StoreTheOtherMode DEF Store!Mode
  <2>4. storeOpening' \in Store!Openings
    BY <1>1, <2>1, <2>2, <2>3 DEF Store!Open, Store!Openings, Store!Places
  <2>5. Rest /\ Dirs /\ Man /\ storeRowsUsed' = storeRowsUsed
    BY <1>1, <1>R, <1>S, <1>M DEF Store!Open, Rest, Store!disk
  <2> QED
    BY <2>4, <2>5, <1>F DEF Ope
<1>2. ASSUME Store!OpenTable PROVE Store!StoreTyped'
  <2>1. storeOpening # None
    BY <1>2 DEF Store!OpenTable, Store!At
  <2>2. storeOpening.strategy \in Store!Places
    BY <1>0, <2>1 DEF Store!Openings, Store!Places
  <2>3. Ope
    BY <1>2, <2>1, <2>2, <1>G, <1>O DEF Store!OpenTable, Store!Abort, Store!Places
  <2> QED
    BY <1>2, <2>3, <1>F, <1>R, <1>S, <1>M DEF Store!OpenTable, Rest, Store!disk
<1>3. ASSUME Store!NewTable PROVE Store!StoreTyped'
  BY <1>3, <1>0, <1>F, <1>K, <1>S, <1>M, <1>O, <1>G, <1>C
     DEF Store!NewTable, Store!At, Store!Abort, Store!Places
<1>4. ASSUME Store!BackupRename PROVE Store!StoreTyped'
  <2>1. Rest /\ storeRowsUsed' = storeRowsUsed
    BY <1>4, <1>R DEF Store!BackupRename, Store!kept, Rest
  <2>2. Dirs
    <3>1. storeOpening.table = Store!Backup(storeStamp + 1) => Dirs
      <4> SUFFICES ASSUME storeOpening.table = Store!Backup(storeStamp + 1),
         storeOpening.table \in DOMAIN storeDirs,
                          storeDirs' = Store!Moved(storeOpening.table, Store!Backup(storeStamp + 1))
                   PROVE  Dirs
        BY <1>4, <1>S DEF Store!BackupRename
      <4> QED
        BY DEF Store!Moved, Dirs, Store!StoreTyped
    <3> QED
      BY <3>1, <1>4, <1>0, <1>R, <1>S, <1>W DEF Store!BackupRename, Store!At
  <2>3. Ope /\ Man
    BY <1>4, <1>0, <1>G, <1>M, <1>O
       DEF Store!BackupRename, Store!At, Store!Abort, Store!Places
  <2> QED
    BY <2>1, <2>2, <2>3, <1>F
<1>5. ASSUME Store!DropTable PROVE Store!StoreTyped'
  BY <1>5, <1>0, <1>F, <1>K, <1>S, <1>M, <1>O, <1>G, <1>D
     DEF Store!DropTable, Store!At, Store!Abort, Store!Places
<1>6. ASSUME Store!CreateAfter PROVE Store!StoreTyped'
  BY <1>6, <1>0, <1>F, <1>K, <1>S, <1>M, <1>O, <1>G, <1>C, <1>V
     DEF Store!CreateAfter, Store!At, Store!Abort, Store!Places, Store!disk
<1>7. ASSUME Store!ReCreate PROVE Store!StoreTyped'
  <2>1. Rest /\ Man /\ storeRowsUsed' = storeRowsUsed
    BY <1>7, <1>R, <1>M DEF Store!ReCreate, Store!kept, Rest
  <2>2. Dirs
    BY <1>7, <1>0, <1>R, <1>S, <1>C DEF Store!ReCreate, Store!At
  <2>3. Ope
    <3>1. CASE Store!Go("backup")
      BY <3>1, <1>7, <1>G DEF Store!ReCreate, Store!At, Store!Places
    <3>2. CASE /\ storeOpening.table \in DOMAIN storeDirs
               /\ storeOpening' = [storeOpening EXCEPT !.pc = "copy", !.temp = Store!Temp(storeStamp + 1),
                                            !.todo = Store!Cardinality(Store!RowsIn({storeOpening.table}))]
      <4>1. storeOpening \in Store!Openings
        BY <1>7, <1>0 DEF Store!ReCreate, Store!At
      <4>2. Store!Cardinality(Store!RowsIn({storeOpening.table})) \in Nat
        BY StoreRowsInRange, StoreRowsCount
      <4> QED
        BY <3>2, <4>1, <4>2, <1>R DEF Store!Openings, Store!Places, Ope
    <3> QED
      BY <3>1, <3>2, <1>7 DEF Store!ReCreate
  <2> QED
    BY <2>1, <2>2, <2>3, <1>F
<1>8. ASSUME Store!Copy PROVE Store!StoreTyped'
  <2>1. Rest /\ Man /\ storeRowsUsed' = storeRowsUsed
    BY <1>8, <1>R, <1>M DEF Store!Copy, Store!kept, Rest
  <2>2. Ope
    <3>1. storeOpening \in Store!Openings /\ storeOpening.todo \in Nat /\ storeOpening.todo > 0
      BY <1>8, <1>0 DEF Store!Copy, Store!At, Store!Openings
    <3>2. ASSUME storeOpening' = [storeOpening EXCEPT !.todo = @ - 1] PROVE Ope
      BY <3>1, <3>2 DEF Store!Openings, Ope
    <3> QED
      BY <3>2, <1>8, <1>G DEF Store!Copy, Store!At, Store!Places
  <2>3. Dirs
    <3>1. ASSUME NEW r \in Store!RowsIn({storeOpening.table}),
                 storeDirs' = [storeDirs EXCEPT ![storeOpening.temp].rows = @ \cup {r}]
          PROVE  Dirs
      <4>1. r \in 1 .. storeRowsUsed
        BY StoreRowsInRange
      <4>2. CASE storeOpening.temp \in DOMAIN storeDirs
        <5>1. storeDirs[storeOpening.temp].rows \cup {r} \in SUBSET (1 .. storeRowsUsed)
          BY <4>1, <4>2 DEF Store!StoreTyped, Store!Directory
        <5> QED
          BY <3>1, <4>2, <5>1, StoreRewrittenDirs DEF Dirs
      <4>3. CASE storeOpening.temp \notin DOMAIN storeDirs
        BY <3>1, <4>3 DEF Dirs, Store!StoreTyped
      <4> QED
        BY <4>2, <4>3
    <3> QED
      BY <3>1, <1>8, <1>S DEF Store!Copy
  <2> QED
    BY <2>1, <2>2, <2>3, <1>F
<1>9. ASSUME Store!PointAtTemp PROVE Store!StoreTyped'
  BY <1>9, <1>0, <1>F, <1>K, <1>S, <1>M, <1>G, <1>V
     DEF Store!PointAtTemp, Store!At, Store!Places
<1>10. ASSUME Store!DropOld PROVE Store!StoreTyped'
  BY <1>10, <1>0, <1>F, <1>K, <1>S, <1>M, <1>A, <1>D
     DEF Store!DropOld, Store!At, Store!Places
<1>11. ASSUME Store!RenameTemp PROVE Store!StoreTyped'
  BY <1>11, <1>0, <1>F, <1>K, <1>S, <1>M, <1>A, <1>G, <1>W
     DEF Store!RenameTemp, Store!At, Store!Places
<1>12. ASSUME Store!PointAtPlain PROVE Store!StoreTyped'
  BY <1>12, <1>0, <1>F, <1>K, <1>S, <1>M, <1>G, <1>V
     DEF Store!PointAtPlain, Store!At, Store!Places
<1>13. ASSUME Store!Reopen PROVE Store!StoreTyped'
  BY <1>13, <1>0, <1>F, <1>K, <1>S, <1>M, <1>G, <1>A, <1>V
     DEF Store!Reopen, Store!At, Store!Places
<1>14. ASSUME Store!Revert PROVE Store!StoreTyped'
  <2>1. Dirs
    <3>1. ASSUME Store!Plain("vector") \in DOMAIN storeDirs,
                 storeDirs' = Store!Moved(Store!Plain("vector"), storeOpening.temp),
                 storeOpening.temp = Store!Plain("vector")
          PROVE  Dirs
      BY <3>1 DEF Store!Moved, Dirs, Store!StoreTyped
    <3> QED
      BY <3>1, <1>14, <1>0, <1>S, <1>W DEF Store!Revert, Store!At
  <2> QED
    BY <2>1, <1>14, <1>0, <1>F, <1>K, <1>M, <1>G, <1>A
       DEF Store!Revert, Store!At, Store!Places
<1>15. ASSUME Store!Repair PROVE Store!StoreTyped'
  BY <1>15, <1>0, <1>F, <1>K, <1>S, <1>M, <1>G, <1>V
     DEF Store!Repair, Store!At, Store!Places
<1>16. ASSUME Store!Evict PROVE Store!StoreTyped'
  <2>1. Dirs
    <3>1. ASSUME storeOpening.table \in DOMAIN storeDirs,
                 storeDirs' = [storeDirs EXCEPT ![storeOpening.table].rows = @ \ 1 .. storeTtl.rows]
          PROVE  Dirs
      <4>1. storeDirs[storeOpening.table].rows \ (1 .. storeTtl.rows) \in SUBSET (1 .. storeRowsUsed)
        BY <3>1 DEF Store!StoreTyped, Store!Directory
      <4> QED
        BY <3>1, <4>1, StoreRewrittenDirs DEF Dirs
    <3> QED
      BY <3>1, <1>16, <1>S DEF Store!Evict
  <2> QED
    BY <2>1, <1>16, <1>F, <1>K, <1>M, <1>G, <1>O
       DEF Store!Evict, Store!At, Store!Abort, Store!Places
<1>17. ASSUME Store!Prune PROVE Store!StoreTyped'
  BY <1>17, <1>F, <1>K, <1>M, <1>G, <1>D DEF Store!Prune, Store!At, Store!Places
<1>18. ASSUME Store!Opened PROVE Store!StoreTyped'
  <2>1. Rest /\ storeRowsUsed' = storeRowsUsed
    BY <1>18, <1>R, <1>0 DEF Store!Opened, Store!At, Rest, Store!StoreTyped
  <2> QED
    BY <2>1, <1>18, <1>0, <1>F, <1>S, <1>M, <1>O, <1>V DEF Store!Opened, Store!At
<1>19. ASSUME NEW t \in storeSessions, Store!Add(t) PROVE Store!StoreTyped'
  <2>1. Rest /\ Man /\ Ope
    BY <1>19, <1>R, <1>M, <1>O DEF Store!Add, Rest
  <2>2. DOMAIN storeDirs' = DOMAIN storeDirs /\ DOMAIN storeDirs \subseteq Store!Name
    BY <1>19 DEF Store!Add, Store!StoreTyped
  <2>3. 1 .. storeRowsUsed \subseteq 1 .. storeRowsUsed'
           /\ storeRowsUsed + 1 \in 1 .. storeRowsUsed'
    BY <1>19 DEF Store!Add, Store!StoreTyped
  <2>4. storeDirs' \in [DOMAIN storeDirs' -> Store!Directory']
    <3>1. \A n \in DOMAIN storeDirs : storeDirs'[n] \in Store!Directory'
      BY <1>19, <2>3 DEF Store!Add, Store!StoreTyped, Store!Directory
    <3> QED
      BY <3>1, <2>2, <1>19 DEF Store!Add, Store!StoreTyped
  <2>5. Store!Openings' = Store!Openings
    BY DEF Store!Openings
  <2> QED
    BY <1>P, <2>1, <2>2, <2>4, <2>5 DEF Store!StoreTyped, Rest, Man, Ope
<1>20. ASSUME NEW m \in Store!Mode, Store!ForceDelete(m) PROVE Store!StoreTyped'
  <2>1. Rest /\ storeRowsUsed' = storeRowsUsed
    BY <1>20, <1>R DEF Store!ForceDelete, Rest
  <2> QED
    BY <2>1, <1>20, <1>F, <1>D, <1>M, <1>O DEF Store!ForceDelete
<1>21. ASSUME Store!Crash PROVE Store!StoreTyped'
  BY <1>21, <1>F, <1>K, <1>S, <1>M, <1>O DEF Store!Crash, Store!disk
<1>22. ASSUME Store!PowerLoss PROVE Store!StoreTyped'
  <2>1. Rest /\ storeRowsUsed' = storeRowsUsed
    BY <1>22, <1>R DEF Store!PowerLoss, Rest
  <2>2. storeManifest' = [storeManifest EXCEPT !.read = "corrupt"] => Man
    BY DEF Store!StoreTyped, Man
  <2>3. \A n \in DOMAIN storeDirs : storeDirs' = [storeDirs EXCEPT ![n].broken = TRUE] => Dirs
    BY StoreBrokenDirs DEF Dirs
  <2> QED
    BY <2>1, <2>2, <2>3, <1>22, <1>F, <1>S, <1>M, <1>O DEF Store!PowerLoss
<1>23. ASSUME Store!TtlPasses PROVE Store!StoreTyped'
  <2>1. Rest /\ storeRowsUsed' = storeRowsUsed
    BY <1>23, <1>R DEF Store!TtlPasses, Rest, Store!StoreTyped
  <2> QED
    BY <2>1, <1>23, <1>F, <1>S, <1>M, <1>O DEF Store!TtlPasses, Store!disk
<1>24. ASSUME UNCHANGED Store!storeVars PROVE Store!StoreTyped'
  BY <1>24, <1>F, <1>R, <1>S, <1>M, <1>O DEF Store!storeVars, Rest
<1> QED
  BY <1>1, <1>2, <1>3, <1>4, <1>5, <1>6, <1>7, <1>8, <1>9, <1>10, <1>11, <1>12, <1>13,
     <1>14,
     <1>15, <1>16, <1>17, <1>18, <1>19, <1>20, <1>21, <1>22, <1>23, <1>24 DEF Store!Next, Store!Step

LEMMA StorePromisedInit == Store!Init => Store!AsPromised
<1> SUFFICES ASSUME Store!Init PROVE Store!AsPromised
  OBVIOUS
<1>1. ~Store!At("copy") /\ ~Store!At("redrop") /\ ~Store!Moving
  BY DEF Store!Init, Store!At, Store!Moving
<1> QED
  BY <1>1
     DEF Store!Init, Store!AsPromised, Store!NamesKnow, Store!RowsKnow, Store!AllAtHome,
         Store!HomeOf, Store!LiveVector, Store!OpeningKnows,
              Store!CopyKnows, Store!Plain, Store!NoName, Store!OfVector

(* Rows that were at home still are, if every directory that was a home    *)
(* has handed them to one that is.                                         *)
LEMMA StoreHomesMove ==
  ASSUME Store!AllAtHome, storeRowsUsed' = storeRowsUsed,
         storeWrittenOff \subseteq storeWrittenOff',
         \A n \in DOMAIN storeDirs : Store!HomeOf(n) =>
           \/ storeDirs[n].rows \subseteq storeWrittenOff'
           \/ \E k \in DOMAIN storeDirs' : Store!HomeOf(k)'
                 /\ storeDirs[n].rows \subseteq storeDirs'[k].rows \cup storeWrittenOff'
  PROVE  Store!AllAtHome'
BY DEF Store!AllAtHome

(* An open ends and leaves everything where it is.                         *)
LEMMA StoreLeaves ==
  ASSUME Store!StoreTyped, Store!AsPromised, storeOpening' = None, Store!NamesKnow',
         Store!LiveVector \in DOMAIN storeDirs => Store!LiveVector' = Store!LiveVector,
         storeParted \/ Store!Moving => storeParted',
         DOMAIN storeDirs' = DOMAIN storeDirs, storeWrittenOff \subseteq storeWrittenOff',
         \A n \in DOMAIN storeDirs : /\ storeDirs'[n].rows = storeDirs[n].rows
                                     /\ storeDirs'[n].broken => \/ storeDirs[n].broken
                                                                \/ storeDirs[n].rows \subseteq storeWrittenOff',
         UNCHANGED <<storeRowsUsed, storeStamp, storeTtl>>
  PROVE  Store!AsPromised'
<1>1. Store!RowsKnow'
  BY DEF Store!AsPromised, Store!RowsKnow
<1>2. \A n \in DOMAIN storeDirs : Store!HomeOf(n) => Store!HomeOf(n)'
  BY DEF Store!HomeOf, Store!Moving
<1>3. Store!AllAtHome'
  BY <1>2, StoreHomesMove DEF Store!AsPromised
<1> QED
  BY <1>1, <1>3 DEF Store!AsPromised, Store!OpeningKnows, Store!CopyKnows, Store!At

(* An open moves on to a place that relies on no more.                     *)
LEMMA StoreMovesOn ==
  ASSUME Store!StoreTyped, Store!AsPromised, storeOpening # None, ~Store!Moving,
         storeOpening.pc # "redrop",
         storeOpening.pc = "evict" => storeOpening.table \in DOMAIN storeDirs,
         NEW pc \in {"evict", "backup", "drop", "re-embed", "prune", "save"}, Store!Go(pc),
         storeOpening.mode = "bm25" => pc \in {"evict", "prune", "save"},
         pc \in {"evict", "prune", "save"} \/ storeOpening.table = Store!LiveVector,
         UNCHANGED <<storeDirs, storeManifest, storeSessions, storeRowsUsed, storeStamp, storeTtl,
                     storeWrittenOff, storeParted>>
  PROVE  Store!AsPromised'
<1>1. /\ storeOpening' # None /\ storeOpening'.pc = pc /\ storeOpening' \in Store!Openings
      /\ storeOpening'.mode = storeOpening.mode /\ storeOpening'.read = storeOpening.read
      /\ storeOpening'.table = storeOpening.table /\ storeOpening'.other = storeOpening.other
      /\ storeOpening'.temp = storeOpening.temp
  BY StoreOpens, StoreGoesTo DEF Store!Places
<1>2. ~Store!Moving' /\ Store!LiveVector' = Store!LiveVector
  BY <1>1 DEF Store!Moving, Store!LiveVector
<1>3. Store!NamesKnow' /\ Store!RowsKnow'
  BY DEF Store!AsPromised, Store!NamesKnow, Store!RowsKnow
<1>4. \A n \in DOMAIN storeDirs : Store!HomeOf(n)' <=> Store!HomeOf(n)
  BY <1>2 DEF Store!HomeOf, Store!Moving
<1>5. Store!AllAtHome'
  BY <1>4, StoreHomesMove DEF Store!AsPromised
<1>6. Store!OpeningKnows'
  BY <1>1, <1>2 DEF Store!AsPromised, Store!OpeningKnows, Store!OfVector, Store!Moving
<1> QED
  BY <1>1, <1>3, <1>5, <1>6 DEF Store!AsPromised, Store!CopyKnows, Store!At

LEMMA StoreLeavesUnmoved ==
  ASSUME Store!StoreTyped, Store!AsPromised, ~Store!Moving, storeOpening' = None,
         UNCHANGED <<storeDirs, storeManifest, storeSessions, storeRowsUsed, storeStamp, storeTtl,
                     storeWrittenOff, storeParted>>
  PROVE  Store!AsPromised'
<1>1. Store!NamesKnow' /\ Store!LiveVector' = Store!LiveVector
  BY DEF Store!AsPromised, Store!NamesKnow, Store!LiveVector
<1> QED
  BY <1>1, StoreLeaves

LEMMA StorePromisedOpen ==
  ASSUME Store!StoreTyped, Store!AsPromised, storeExcuse' = {}, NEW c \in Store!Conf,
         Store!Open(c)
  PROVE  Store!AsPromised'
<1>1. storeManifest.read = "loaded"
  BY DEF Store!Open, Store!StoreTyped
<1>2. c.mode \in Store!Mode /\ c.model \in Model /\ c.strategy \in {"backup", "drop", "re-embed"}
  BY StoreSettingHolds DEF Store!Conf, Store!StoreSetting, Store!Mode
<1>3. /\ storeOpening'.pc = "table" /\ storeOpening'.mode = c.mode /\ storeOpening'.read = "loaded"
      /\ storeOpening'.table = IF storeManifest[c.mode] = Store!NoName THEN Store!Plain(c.mode)
            ELSE storeManifest[c.mode]
      /\ storeOpening'.other = storeManifest[Store!Other(c.mode)]
            /\ storeOpening'.temp = Store!NoName
  BY <1>1 DEF Store!Open
<1>4. ~Store!Moving /\ ~Store!Moving' /\ Store!LiveVector' = Store!LiveVector
  BY <1>3 DEF Store!Open, Store!Moving, Store!LiveVector, Store!disk
<1>5. Store!NamesKnow' /\ Store!RowsKnow'
  BY DEF Store!Open, Store!AsPromised, Store!NamesKnow, Store!RowsKnow, Store!disk
<1>6. \A n \in DOMAIN storeDirs : Store!HomeOf(n)' <=> Store!HomeOf(n)
  BY <1>4 DEF Store!HomeOf, Store!Open
<1>7. Store!AllAtHome'
  BY <1>6, StoreHomesMove DEF Store!AsPromised, Store!Open, Store!disk
<1>8. Store!OpeningKnows'
  <2>1. storeManifest' = storeManifest
    BY DEF Store!Open, Store!disk
  <2>2. Store!OfVector(Store!Plain("vector")) /\ Store!Plain("bm25") # Store!NoName
    BY DEF Store!OfVector, Store!Plain, Store!NoName
  <2>0. /\ Store!Plain("vector").ts = 0 /\ Store!Plain("bm25").ts = 0 /\ Store!NoName.ts = 0
              /\ storeStamp \in Nat
        /\ storeStamp' = storeStamp
    BY DEF Store!Plain, Store!NoName, Store!StoreTyped, Store!Open
  <2>3. CASE c.mode = "vector"
    BY <1>1, <1>3, <1>4, <2>0, <2>1, <2>2, <2>3, StoreTheOtherMode
       DEF Store!AsPromised, Store!NamesKnow, Store!OpeningKnows, Store!LiveVector,
           Store!OfVector
  <2>4. CASE c.mode = "bm25"
    BY <1>1, <1>3, <1>4, <2>0, <2>1, <2>2, <2>4, StoreTheOtherMode
       DEF Store!AsPromised, Store!NamesKnow, Store!OpeningKnows
  <2> QED
    BY <2>3, <2>4, <1>2 DEF Store!Mode
<1> QED
  BY <1>3, <1>5, <1>7, <1>8 DEF Store!AsPromised, Store!CopyKnows, Store!At

LEMMA StorePromisedOpenTable ==
  ASSUME Store!StoreTyped, Store!AsPromised, Store!OpenTable
  PROVE  Store!AsPromised'
<1>1. storeOpening # None /\ storeOpening \in Store!Openings /\ storeOpening.pc = "table"
         /\ ~Store!Moving
      /\ (storeOpening.mode = "vector" => storeOpening.table = Store!LiveVector)
  BY StoreOpens
     DEF Store!OpenTable, Store!At, Store!Moving, Store!AsPromised, Store!OpeningKnows
<1>2. UNCHANGED <<storeDirs, storeManifest, storeSessions, storeRowsUsed, storeStamp, storeTtl,
                  storeWrittenOff, storeParted>>
  BY DEF Store!OpenTable, Store!disk
<1>3. \/ storeOpening' = None \/ Store!Go("evict")
      \/ storeOpening.mode = "vector" /\ Store!Go(storeOpening.strategy)
  BY DEF Store!OpenTable, Store!Abort
<1>4. storeOpening.strategy \in {"backup", "drop", "re-embed"}
  BY <1>1 DEF Store!Openings
<1> QED
  BY <1>1, <1>2, <1>3, <1>4, StoreMovesOn, StoreLeavesUnmoved

(* A vector open alone is in a migration.                                  *)
LEMMA StoreVectorsOnly ==
  ASSUME Store!StoreTyped, Store!AsPromised, storeOpening # None,
         storeOpening.pc \notin {"table", "evict", "prune", "save"}
  PROVE  storeOpening.mode = "vector" /\ Store!OfVector(storeOpening.table)
            /\ storeOpening.other = storeManifest.bm25
BY StoreOpens DEF Store!AsPromised, Store!OpeningKnows, Store!Openings, Store!Mode

LEMMA StorePromisedNewTable ==
  ASSUME Store!StoreTyped, Store!AsPromised, Store!NewTable
  PROVE  Store!AsPromised'
<1>1. storeOpening # None /\ storeOpening \in Store!Openings /\ storeOpening.pc = "table"
         /\ ~Store!Moving
  BY StoreOpens DEF Store!NewTable, Store!At, Store!Moving
<1>2. CASE storeOpening' = None /\ UNCHANGED storeDirs
  BY <1>1, <1>2, StoreLeavesUnmoved DEF Store!NewTable, Store!kept
<1>3. CASE Store!Go("evict") /\ storeDirs' = Store!Created(storeOpening.table, storeOpening.model)
  <2>1. /\ storeOpening' # None /\ storeOpening'.pc = "evict"
        /\ storeOpening'.mode = storeOpening.mode /\ storeOpening'.read = storeOpening.read
        /\ storeOpening'.table = storeOpening.table /\ storeOpening'.other = storeOpening.other
      /\ storeOpening'.temp = storeOpening.temp
        /\ storeOpening'.temp = storeOpening.temp
    BY <1>1, <1>3, StoreGoesTo DEF Store!Places
  <2>2. /\ DOMAIN storeDirs' = DOMAIN storeDirs \cup {storeOpening.table}
        /\ storeDirs'[storeOpening.table] = [model |-> storeOpening.model, rows |-> {}, broken |-> FALSE]
        /\ \A n \in DOMAIN storeDirs : n # storeOpening.table => storeDirs'[n] = storeDirs[n]
    BY <1>1, <1>3, StoreCreatedDirs DEF Store!Openings
  <2>3. storeOpening.table \notin DOMAIN storeDirs
        /\ UNCHANGED <<storeManifest, storeSessions, storeRowsUsed, storeStamp, storeTtl,
                       storeWrittenOff, storeParted>>
    BY DEF Store!NewTable, Store!kept
  <2>4. ~Store!Moving' /\ Store!LiveVector' = Store!LiveVector
    BY <2>1, <2>3 DEF Store!Moving, Store!LiveVector
  <2>5. storeOpening.table.ts <= storeStamp /\ storeOpening.table.kind # "backup"
    BY <1>1
       DEF Store!AsPromised, Store!OpeningKnows, Store!OfVector, Store!Plain,
           Store!Openings, Store!Mode
  <2>6. Store!NamesKnow' /\ Store!RowsKnow'
    BY <2>2, <2>3, <2>5 DEF Store!AsPromised, Store!NamesKnow, Store!RowsKnow
  <2>7. Store!AllAtHome'
    BY <1>1, <2>2, <2>3, <2>4, StoreHomesMove DEF Store!AsPromised, Store!HomeOf
  <2>8. Store!OpeningKnows'
    BY <1>1, <2>1, <2>3, <2>4 DEF Store!AsPromised, Store!OpeningKnows, Store!OfVector
  <2> QED
    BY <2>1, <2>6, <2>7, <2>8 DEF Store!AsPromised, Store!CopyKnows, Store!At
<1> QED
  BY <1>2, <1>3 DEF Store!NewTable, Store!Abort

(* What holds of the vector open at a step of a migration.                 *)
LEMMA StoreMigrating ==
  ASSUME Store!StoreTyped, Store!AsPromised, storeOpening # None,
         storeOpening.pc \notin {"table", "evict", "prune", "save"}
  PROVE  /\ storeOpening \in Store!Openings /\ storeOpening.table \in Store!Name
               /\ storeOpening.temp \in Store!Name
         /\ storeOpening.mode = "vector" /\ storeOpening.read = "loaded"
               /\ storeManifest.read = "loaded"
         /\ Store!OfVector(storeOpening.table) /\ storeOpening.table # Store!Plain("bm25")
         /\ storeOpening.table.kind # "backup" /\ storeOpening.other = storeManifest.bm25
         /\ storeOpening.table.ts <= storeStamp /\ storeOpening.temp.ts <= storeStamp
               /\ storeStamp \in Nat
         /\ storeOpening.pc # "redrop" /\ ~Store!Moving => storeOpening.table = Store!LiveVector
<1>1. storeOpening \in Store!Openings /\ storeOpening.table \in Store!Name
         /\ storeOpening.temp \in Store!Name /\ storeStamp \in Nat
  BY StoreOpens DEF Store!Openings, Store!StoreTyped
<1>2. storeOpening.mode = "vector"
  BY <1>1 DEF Store!AsPromised, Store!OpeningKnows, Store!Openings, Store!Mode
<1>3. Store!OpeningKnows
  BY DEF Store!AsPromised
<1>4. Store!OfVector(storeOpening.table)
  BY <1>2, <1>3 DEF Store!OpeningKnows
<1>5. storeOpening.table # Store!Plain("bm25") /\ storeOpening.table.kind # "backup"
  BY <1>4 DEF Store!OfVector, Store!Plain
<1> QED
  BY <1>1, <1>2, <1>3, <1>4, <1>5 DEF Store!OpeningKnows

LEMMA StorePromisedBackup ==
  ASSUME Store!StoreTyped, Store!AsPromised, Store!BackupRename
  PROVE  Store!AsPromised'
<1>1. storeOpening # None /\ storeOpening.pc = "backup" /\ ~Store!Moving
         /\ storeOpening.table = Store!LiveVector
  BY StoreMigrating DEF Store!BackupRename, Store!At, Store!Moving
<1>2. CASE storeOpening' = None /\ UNCHANGED <<storeDirs, storeStamp>>
  BY <1>1, <1>2, StoreLeavesUnmoved DEF Store!BackupRename, Store!kept
<1>3. CASE Store!Go("create")
  <2>1. /\ storeOpening' # None /\ storeOpening'.pc = "create" /\ storeOpening'.mode = "vector"
        /\ storeOpening'.read = storeOpening.read /\ storeOpening'.temp = storeOpening.temp
        /\ storeOpening'.table = storeOpening.table /\ storeOpening'.other = storeOpening.other
    BY <1>1, <1>3, StoreGoesTo, StoreMigrating DEF Store!Places
  <2>2. UNCHANGED <<storeManifest, storeSessions, storeRowsUsed, storeTtl, storeWrittenOff, storeParted>>
    BY DEF Store!BackupRename, Store!kept
  <2>3. ~Store!Moving' /\ Store!LiveVector' = Store!LiveVector
    BY <2>1, <2>2 DEF Store!Moving, Store!LiveVector
  <2>4. CASE storeOpening.table \notin DOMAIN storeDirs
    <3>1. UNCHANGED <<storeDirs, storeStamp>>
      BY <1>3, <2>1, <2>4 DEF Store!BackupRename, Store!Abort
    <3>2. Store!NamesKnow' /\ Store!RowsKnow'
      BY <2>2, <3>1 DEF Store!AsPromised, Store!NamesKnow, Store!RowsKnow
    <3>3. Store!AllAtHome'
      BY <1>1, <2>2, <2>3, <3>1, StoreHomesMove DEF Store!AsPromised, Store!HomeOf
    <3>4. Store!OpeningKnows'
      BY <1>1, <2>1, <2>2, <2>3, <2>4, <3>1, StoreMigrating
         DEF Store!OpeningKnows, Store!OfVector
    <3> QED
      BY <2>1, <3>2, <3>3, <3>4 DEF Store!AsPromised, Store!CopyKnows, Store!At
  <2>5. CASE storeOpening.table \in DOMAIN storeDirs
    <3> DEFINE backup == Store!Backup(storeStamp + 1)
    <3>1. storeDirs' = Store!Moved(storeOpening.table, backup) /\ storeStamp' = storeStamp + 1
             /\ storeStamp \in Nat
      BY <1>3, <2>1, <2>5 DEF Store!BackupRename, Store!Abort, Store!StoreTyped
    <3>2. backup \in Store!Name /\ backup.kind = "backup" /\ backup.ts = storeStamp + 1
      BY <3>1 DEF Store!Backup, Store!Name
    <3>3. backup # storeOpening.table /\ backup \notin DOMAIN storeDirs
      BY <1>1, <3>1, <3>2, StoreMigrating
         DEF Store!AsPromised, Store!NamesKnow, Store!StoreTyped, Store!Name
    <3> HIDE DEF backup
    <3>4. /\ DOMAIN storeDirs' = (DOMAIN storeDirs \ {storeOpening.table}) \cup {backup}
          /\ storeDirs'[backup] = storeDirs[storeOpening.table]
          /\ \A n \in DOMAIN storeDirs : n # storeOpening.table /\ n # backup
                => storeDirs'[n] = storeDirs[n]
      BY <2>5, <3>1, <3>2, <3>3, StoreMovedDirs
    <3>5. \A n \in DOMAIN storeDirs : n.ts \in Nat
      BY DEF Store!StoreTyped, Store!Name
    <3>6. Store!NamesKnow' /\ Store!RowsKnow'
      <4>1. storeTtl.stamp \in Nat /\ storeManifest.vector.ts \in Nat
        BY DEF Store!StoreTyped, Store!Name
      <4>2. Store!NamesKnow'
        BY <2>2, <3>1, <3>2, <3>4, <3>5, <4>1 DEF Store!AsPromised, Store!NamesKnow
      <4> QED
        BY <2>2, <2>5, <3>1, <3>2, <3>4, <3>5, <4>1, <4>2
           DEF Store!AsPromised, Store!RowsKnow
    <3>7. Store!AllAtHome'
      <4>1. \A n \in DOMAIN storeDirs : Store!HomeOf(n) =>
              \E k \in DOMAIN storeDirs' : Store!HomeOf(k)'
                 /\ storeDirs[n].rows = storeDirs'[k].rows
        <5> TAKE n \in DOMAIN storeDirs
        <5>1. CASE n = storeOpening.table
          BY <3>2, <3>4, <5>1 DEF Store!HomeOf
        <5>2. CASE n # storeOpening.table
          BY <1>1, <2>2, <2>3, <3>3, <3>4, <5>2 DEF Store!HomeOf
        <5> QED
          BY <5>1, <5>2
      <4> QED
        BY <4>1, <2>2, StoreHomesMove DEF Store!AsPromised
    <3>8. Store!OpeningKnows'
      <4>1. storeOpening.table \in Store!Name /\ storeOpening.temp \in Store!Name
        BY <1>1, StoreMigrating
      <4>2. storeOpening.table.ts <= storeStamp' /\ storeOpening.temp.ts <= storeStamp'
        BY <1>1, <3>1, <4>1, StoreMigrating DEF Store!Name
      <4> QED
        BY <1>1, <2>1, <2>2, <2>3, <3>3, <3>4, <4>2, StoreMigrating
           DEF Store!OpeningKnows, Store!OfVector
    <3> QED
      BY <2>1, <3>6, <3>7, <3>8 DEF Store!AsPromised, Store!CopyKnows, Store!At
  <2> QED
    BY <2>4, <2>5
<1> QED
  BY <1>2, <1>3 DEF Store!BackupRename, Store!Abort

LEMMA StorePromisedDrop ==
  ASSUME Store!StoreTyped, Store!AsPromised, Store!DropTable
  PROVE  Store!AsPromised'
<1>1. storeOpening # None /\ storeOpening.pc = "drop" /\ ~Store!Moving
         /\ storeOpening.table = Store!LiveVector
  BY StoreMigrating DEF Store!DropTable, Store!At, Store!Moving
<1>2. CASE storeOpening' = None /\ UNCHANGED <<storeDirs, storeWrittenOff, storeParted>>
  BY <1>1, <1>2, StoreLeavesUnmoved DEF Store!DropTable, Store!kept
<1>3. CASE /\ storeOpening.table \in DOMAIN storeDirs /\ Store!Go("create")
           /\ storeDirs' = Store!Removed({storeOpening.table})
                 /\ Store!WriteOff(Store!RowsIn({storeOpening.table}))
  <2>1. /\ storeOpening' # None /\ storeOpening'.pc = "create" /\ storeOpening'.mode = "vector"
        /\ storeOpening'.read = storeOpening.read /\ storeOpening'.temp = storeOpening.temp
        /\ storeOpening'.table = storeOpening.table /\ storeOpening'.other = storeOpening.other
    BY <1>1, <1>3, StoreGoesTo, StoreMigrating DEF Store!Places
  <2>2. UNCHANGED <<storeManifest, storeSessions, storeRowsUsed, storeTtl, storeStamp, storeParted>>
    BY DEF Store!DropTable, Store!kept
  <2>3. ~Store!Moving' /\ Store!LiveVector' = Store!LiveVector
    BY <2>1, <2>2 DEF Store!Moving, Store!LiveVector
  <2>4. /\ DOMAIN storeDirs' = DOMAIN storeDirs \ {storeOpening.table}
        /\ \A n \in DOMAIN storeDirs' : storeDirs'[n] = storeDirs[n]
    BY <1>3, StoreRemovedDirs
  <2>5. storeWrittenOff' = storeWrittenOff \cup storeDirs[storeOpening.table].rows
    BY <1>3, StoreRowsOf DEF Store!WriteOff
  <2>6. Store!NamesKnow' /\ Store!RowsKnow'
    BY <2>2, <2>4, <2>5 DEF Store!AsPromised, Store!NamesKnow, Store!RowsKnow
  <2>7. Store!AllAtHome'
    <3>1. \A n \in DOMAIN storeDirs : Store!HomeOf(n) =>
            \/ storeDirs[n].rows \subseteq storeWrittenOff'
            \/ n \in DOMAIN storeDirs' /\ Store!HomeOf(n)' /\ storeDirs[n].rows = storeDirs'[n].rows
      BY <1>1, <2>2, <2>3, <2>4, <2>5 DEF Store!HomeOf
    <3> QED
      BY <3>1, <2>2, <2>5, StoreHomesMove DEF Store!AsPromised
  <2>8. Store!OpeningKnows'
    BY <1>1, <2>1, <2>2, <2>3, <2>4, StoreMigrating DEF Store!OpeningKnows, Store!OfVector
  <2> QED
    BY <2>1, <2>6, <2>7, <2>8 DEF Store!AsPromised, Store!CopyKnows, Store!At
<1> QED
  BY <1>2, <1>3 DEF Store!DropTable, Store!Abort

LEMMA StorePromisedCreate ==
  ASSUME Store!StoreTyped, Store!AsPromised, Store!CreateAfter
  PROVE  Store!AsPromised'
<1>1. /\ storeOpening # None /\ storeOpening.pc = "create" /\ ~Store!Moving
            /\ storeOpening.table = Store!LiveVector
      /\ storeOpening.table \notin DOMAIN storeDirs
  BY StoreMigrating
     DEF Store!CreateAfter, Store!At, Store!Moving, Store!AsPromised, Store!OpeningKnows
<1>2. CASE storeOpening' = None /\ UNCHANGED Store!disk
  BY <1>1, <1>2, StoreLeavesUnmoved DEF Store!CreateAfter, Store!kept, Store!disk
<1>3. CASE /\ Store!Go("evict")
                 /\ storeDirs' = Store!Created(storeOpening.table, storeOpening.model)
           /\ storeManifest' = Store!Saved(storeOpening.table) \/ UNCHANGED storeManifest
  <2>1. /\ storeOpening' # None /\ storeOpening'.pc = "evict" /\ storeOpening'.mode = "vector"
        /\ storeOpening'.read = storeOpening.read /\ storeOpening'.temp = storeOpening.temp
        /\ storeOpening'.table = storeOpening.table /\ storeOpening'.other = storeOpening.other
    BY <1>1, <1>3, StoreGoesTo, StoreMigrating DEF Store!Places
  <2>2. UNCHANGED <<storeSessions, storeRowsUsed, storeTtl, storeStamp, storeWrittenOff, storeParted>>
    BY DEF Store!CreateAfter, Store!kept
  <2>3. /\ storeManifest'.read = "loaded" /\ storeManifest'.bm25 = storeManifest.bm25
        /\ storeManifest'.vector \in {storeManifest.vector, storeOpening.table}
    BY <1>1, <1>3, StoreSaves, StoreMigrating
  <2>4. storeOpening.table # Store!NoName
    BY <1>1, StoreMigrating DEF Store!OfVector, Store!NoName
  <2>5. ~Store!Moving' /\ Store!LiveVector' = Store!LiveVector
    BY <1>1, <2>1, <2>3, <2>4 DEF Store!Moving, Store!LiveVector
  <2>6. /\ DOMAIN storeDirs' = DOMAIN storeDirs \cup {storeOpening.table}
        /\ storeDirs'[storeOpening.table] = [model |-> storeOpening.model, rows |-> {}, broken |-> FALSE]
        /\ \A n \in DOMAIN storeDirs : n # storeOpening.table => storeDirs'[n] = storeDirs[n]
    BY <1>1, <1>3, StoreMigrating, StoreCreatedDirs DEF Store!Openings
  <2>7. Store!NamesKnow' /\ Store!RowsKnow'
    BY <1>1, <2>2, <2>3, <2>6, StoreMigrating
       DEF Store!AsPromised, Store!NamesKnow, Store!RowsKnow, Store!OfVector
  <2>8. Store!AllAtHome'
    BY <1>1, <2>2, <2>5, <2>6, StoreHomesMove DEF Store!AsPromised, Store!HomeOf
  <2>9. Store!OpeningKnows'
    BY <1>1, <2>1, <2>2, <2>3, <2>5, StoreMigrating DEF Store!OpeningKnows, Store!OfVector
  <2> QED
    BY <2>1, <2>7, <2>8, <2>9 DEF Store!AsPromised, Store!CopyKnows, Store!At
<1> QED
  BY <1>2, <1>3 DEF Store!CreateAfter, Store!Abort

LEMMA StorePromisedReCreate ==
  ASSUME Store!StoreTyped, Store!AsPromised, Store!ReCreate
  PROVE  Store!AsPromised'
<1>1. storeOpening # None /\ storeOpening.pc = "re-embed" /\ ~Store!Moving
         /\ storeOpening.table = Store!LiveVector
  BY StoreMigrating DEF Store!ReCreate, Store!At, Store!Moving
<1>2. CASE Store!Go("backup") /\ UNCHANGED <<storeDirs, storeStamp>>
  BY <1>1, <1>2, StoreMovesOn, StoreMigrating DEF Store!ReCreate, Store!kept
<1>3. CASE /\ storeOpening.table \in DOMAIN storeDirs
           /\ storeStamp' = storeStamp + 1
                 /\ storeDirs' = Store!Created(Store!Temp(storeStamp + 1), storeOpening.model)
           /\ storeOpening' = [storeOpening EXCEPT !.pc = "copy", !.temp = Store!Temp(storeStamp + 1),
                                        !.todo = Store!Cardinality(Store!RowsIn({storeOpening.table}))]
  <2> DEFINE temp == Store!Temp(storeStamp + 1)
             count == Store!Cardinality(Store!RowsIn({storeOpening.table}))
  <2>0. storeStamp \in Nat /\ temp \in Store!Name /\ temp.kind = "migration"
           /\ temp.ts = storeStamp + 1
    BY DEF Store!StoreTyped, Store!Temp, Store!Name
  <2>1. storeOpening \in Store!Openings /\ count \in Nat
    BY <1>1, StoreMigrating, StoreRowsInRange, StoreRowsCount
  <2> HIDE DEF temp, count
  <2>2. storeOpening' = [storeOpening EXCEPT !.pc = "copy", !.temp = temp, !.todo = count]
    BY <1>3 DEF temp, count
  <2>3. storeOpening' \in Store!Openings
    BY <2>0, <2>1, <2>2 DEF Store!Openings, Store!Places
  <2>4. /\ storeOpening' # None /\ storeOpening'.pc = "copy" /\ storeOpening'.mode = "vector"
        /\ storeOpening'.read = storeOpening.read /\ storeOpening'.temp = temp
              /\ storeOpening'.todo = count
        /\ storeOpening'.table = storeOpening.table /\ storeOpening'.other = storeOpening.other
    BY <1>1, <2>1, <2>2, <2>3, StoreMigrating, StoreSettingHolds
       DEF Store!StoreSetting, Store!Openings
  <2>5. UNCHANGED <<storeManifest, storeSessions, storeRowsUsed, storeTtl, storeWrittenOff, storeParted>>
    BY DEF Store!ReCreate, Store!kept
  <2>6. ~Store!Moving' /\ Store!LiveVector' = Store!LiveVector
    BY <2>4, <2>5 DEF Store!Moving, Store!LiveVector
  <2>7. temp \notin DOMAIN storeDirs /\ temp # storeOpening.table
    BY <1>1, <1>3, <2>0 DEF Store!AsPromised, Store!NamesKnow, Store!StoreTyped, Store!Name
  <2>8. /\ DOMAIN storeDirs' = DOMAIN storeDirs \cup {temp}
        /\ storeDirs'[temp] = [model |-> storeOpening.model, rows |-> {}, broken |-> FALSE]
        /\ \A n \in DOMAIN storeDirs : n # temp => storeDirs'[n] = storeDirs[n]
    BY <1>3, <2>0, <2>1, StoreCreatedDirs DEF Store!Openings, temp
  <2>9. Store!NamesKnow' /\ Store!RowsKnow'
    <3>1. storeTtl.stamp \in Nat /\ storeManifest.vector.ts \in Nat
             /\ \A n \in DOMAIN storeDirs : n.ts \in Nat
      BY DEF Store!StoreTyped, Store!Name
    <3>2. Store!NamesKnow'
      BY <1>3, <2>0, <2>5, <2>8, <3>1 DEF Store!AsPromised, Store!NamesKnow
    <3> QED
      BY <1>3, <2>0, <2>5, <2>8, <3>1, <3>2 DEF Store!AsPromised, Store!RowsKnow
  <2>10. Store!AllAtHome'
    BY <1>1, <2>5, <2>6, <2>7, <2>8, StoreHomesMove DEF Store!AsPromised, Store!HomeOf
  <2>11. Store!OpeningKnows'
    <3>1. storeOpening.table.ts <= storeStamp' /\ temp.ts <= storeStamp'
      <4> storeOpening.table.ts \in Nat
        BY <1>1, StoreMigrating DEF Store!Name
      <4> QED
        BY <1>1, <1>3, <2>0, StoreMigrating
    <3> QED
      BY <1>1, <2>0, <2>4, <2>5, <2>6, <3>1, StoreMigrating
         DEF Store!OpeningKnows, Store!OfVector
  <2>12. Store!CopyKnows'
    <3>1. \A m : Store!Owed(m)' =
                   {r \in storeDirs'[storeOpening.table].rows \ storeDirs'[temp].rows : r <= m}
      BY <1>3, <2>4, <2>8 DEF Store!Owed, Store!RowsIn
    <3>2. storeDirs'[storeOpening.table].rows = storeDirs[storeOpening.table].rows
             /\ storeDirs'[temp].rows = {}
      BY <1>3, <2>7, <2>8
    <3>3. storeDirs[storeOpening.table].rows \subseteq 1 .. storeRowsUsed /\ storeRowsUsed \in Nat
      BY <1>3 DEF Store!StoreTyped, Store!Directory
    <3>6. \A m \in {storeRowsUsed} : Store!Owed(m)' = storeDirs[storeOpening.table].rows
      <4> SUFFICES ASSUME NEW m \in {storeRowsUsed}
         PROVE Store!Owed(m)' = storeDirs[storeOpening.table].rows
        OBVIOUS
      <4>1. Store!Owed(m)' = {r \in storeDirs[storeOpening.table].rows \ {} : r <= m}
        BY <3>1, <3>2
      <4>2. \A r \in storeDirs[storeOpening.table].rows : r <= m
        BY <3>3
      <4> QED
        BY <4>1, <4>2
    <3>7. count = Store!Cardinality(storeDirs[storeOpening.table].rows)
      BY <1>3, StoreRowsOf DEF count
    <3>8. \A m \in {storeRowsUsed} : Store!Cardinality(Store!Owed(m)') <= storeOpening'.todo
      BY <2>1, <2>4, <3>6, <3>7
    <3>4. storeRowsUsed \in 0 .. storeRowsUsed'
             /\ storeRowsUsed + 1 .. storeRowsUsed' \subseteq storeWrittenOff'
      BY <2>5 DEF Store!StoreTyped
    <3> QED
      BY <2>4, <2>5, <2>7, <2>8, <3>4, <3>8 DEF Store!CopyKnows, Store!At
  <2> QED
    BY <2>9, <2>10, <2>11, <2>12 DEF Store!AsPromised
<1> QED
  BY <1>2, <1>3 DEF Store!ReCreate

(* What a copy knows, of the rows themselves.                              *)
LEMMA StoreCopying ==
  ASSUME Store!StoreTyped, Store!AsPromised, storeOpening # None, storeOpening.pc = "copy"
  PROVE  /\ storeOpening.temp \in DOMAIN storeDirs /\ ~storeDirs[storeOpening.temp].broken
         /\ storeOpening.temp # storeOpening.table /\ storeOpening.temp.kind = "migration"
         /\ \E m \in 0 .. storeRowsUsed : /\ m + 1 .. storeRowsUsed \subseteq storeWrittenOff
                                          /\ Store!Cardinality(Store!Owed(m)) <= storeOpening.todo
BY DEF Store!AsPromised, Store!CopyKnows, Store!At, Store!OpeningKnows

LEMMA StoreOwedCounts ==
  ASSUME Store!StoreTyped, NEW m
  PROVE  /\ Store!Owed(m) \subseteq 1 .. storeRowsUsed
         /\ Store!IsFiniteSet(Store!Owed(m)) /\ Store!Cardinality(Store!Owed(m)) \in Nat
         /\ Store!Cardinality(Store!Owed(m)) = 0 <=> Store!Owed(m) = {}
         /\ \A r \in Store!Owed(m) : Store!Cardinality(Store!Owed(m) \ {r}) = Store!Cardinality(Store!Owed(m)) - 1
<1>1. Store!Owed(m) \subseteq 1 .. storeRowsUsed
  BY StoreRowsInRange DEF Store!Owed
<1>2. Store!IsFiniteSet(Store!Owed(m)) /\ Store!Cardinality(Store!Owed(m)) \in Nat
  BY <1>1, StoreRowsCount
<1>3. Store!Cardinality(Store!Owed(m)) = 0 <=> Store!Owed(m) = {}
  BY StoreCounting, <1>2, FS_EmptySet
<1>4. \A r \in Store!Owed(m) : Store!Cardinality(Store!Owed(m) \ {r}) = Store!Cardinality(Store!Owed(m)) - 1
  BY StoreCounting, <1>2, FS_RemoveElement
<1> QED
  BY <1>1, <1>2, <1>3, <1>4

LEMMA StorePromisedCopy ==
  ASSUME Store!StoreTyped, Store!AsPromised, Store!Copy
  PROVE  Store!AsPromised'
<1>1. /\ storeOpening # None /\ storeOpening.pc = "copy" /\ ~Store!Moving
            /\ storeOpening.table = Store!LiveVector
      /\ storeOpening \in Store!Openings /\ storeOpening.todo \in Nat /\ storeOpening.todo > 0
  BY StoreMigrating DEF Store!Copy, Store!At, Store!Moving, Store!Openings
<1>2. CASE Store!Go("backup") /\ UNCHANGED storeDirs
  BY <1>1, <1>2, StoreMovesOn, StoreMigrating DEF Store!Copy, Store!kept
<1>3. CASE storeOpening' = [storeOpening EXCEPT !.todo = @ - 1]
  <2> DEFINE left == Store!RowsIn({storeOpening.table}) \ Store!RowsIn({storeOpening.temp})
  <2>1. storeOpening' \in Store!Openings
    BY <1>1, <1>3 DEF Store!Openings
  <2>2. /\ storeOpening' # None /\ storeOpening'.pc = "copy"
              /\ storeOpening'.mode = storeOpening.mode
        /\ storeOpening'.read = storeOpening.read /\ storeOpening'.temp = storeOpening.temp
        /\ storeOpening'.todo = storeOpening.todo - 1
        /\ storeOpening'.table = storeOpening.table /\ storeOpening'.other = storeOpening.other
    BY <1>1, <1>3, <2>1, StoreSettingHolds DEF Store!StoreSetting, Store!Openings
  <2>3. UNCHANGED <<storeManifest, storeSessions, storeRowsUsed, storeStamp, storeTtl,
                    storeWrittenOff, storeParted>>
    BY DEF Store!Copy, Store!kept
  <2>4. ~Store!Moving' /\ Store!LiveVector' = Store!LiveVector
    BY <2>2, <2>3 DEF Store!Moving, Store!LiveVector
  <2>5. Store!OpeningKnows'
    <3>1. storeOpening' # None => storeOpening.pc # "create" /\ storeOpening.pc # "rename"
             /\ storeOpening.pc # "redrop"
                             /\ storeOpening.pc # "reopen"
      BY <1>1
    <3> QED
      BY <1>1, <2>2, <2>3, <2>4, <3>1, StoreMigrating, StoreCopying DEF Store!OpeningKnows
  <2>6. PICK m \in 0 .. storeRowsUsed : /\ m + 1 .. storeRowsUsed \subseteq storeWrittenOff
                                        /\ Store!Cardinality(Store!Owed(m)) <= storeOpening.todo
    BY <1>1, StoreCopying
  <2>7. CASE UNCHANGED storeDirs /\ left = {}
    <3>1. Store!NamesKnow' /\ Store!RowsKnow'
      BY <2>3, <2>7 DEF Store!AsPromised, Store!NamesKnow, Store!RowsKnow
    <3>2. Store!AllAtHome'
      BY <2>3, <2>4, <1>1, <2>7, StoreHomesMove DEF Store!AsPromised, Store!HomeOf
    <3>3. Store!Owed(m)' = {}
      BY <2>2, <2>7 DEF Store!Owed, Store!RowsIn
    <3>4. Store!Cardinality(Store!Owed(m)') <= storeOpening'.todo
      BY StoreCounting, <1>1, <2>2, <3>3, FS_EmptySet
    <3>5. Store!CopyKnows'
      BY <1>1, <2>2, <2>3, <2>6, <2>7, <3>4, StoreCopying DEF Store!CopyKnows, Store!At
    <3> QED
      BY <2>5, <3>1, <3>2, <3>5 DEF Store!AsPromised
  <2>8. ASSUME NEW r \in left, \A q \in left : r <= q,
               storeDirs' = [storeDirs EXCEPT ![storeOpening.temp].rows = @ \cup {r}]
        PROVE  Store!AsPromised'
    <3>0. storeOpening.temp \in DOMAIN storeDirs /\ ~storeDirs[storeOpening.temp].broken
             /\ storeOpening.temp # storeOpening.table
          /\ storeOpening.temp.kind = "migration"
      BY <1>1, StoreCopying
    <3>1. r \in 1 .. storeRowsUsed
      BY <2>8, StoreRowsInRange
    <3>2. storeDirs[storeOpening.temp].rows \cup {r} \in SUBSET (1 .. storeRowsUsed)
      BY <3>0, <3>1 DEF Store!StoreTyped, Store!Directory
    <3>3. /\ DOMAIN storeDirs' = DOMAIN storeDirs
          /\ storeDirs'[storeOpening.temp].rows = storeDirs[storeOpening.temp].rows \cup {r}
          /\ storeDirs'[storeOpening.temp].broken = storeDirs[storeOpening.temp].broken
          /\ \A n \in DOMAIN storeDirs : n # storeOpening.temp => storeDirs'[n] = storeDirs[n]
      BY <2>8, <3>0, <3>2, StoreRewrittenDirs
    <3>4. Store!NamesKnow' /\ Store!RowsKnow'
      BY <2>3, <3>0, <3>3 DEF Store!AsPromised, Store!NamesKnow, Store!RowsKnow
    <3>5. Store!AllAtHome'
      <4>1. \A n \in DOMAIN storeDirs : Store!HomeOf(n) => Store!HomeOf(n)'
               /\ storeDirs[n].rows \subseteq storeDirs'[n].rows
        BY <1>1, <2>3, <2>4, <3>3 DEF Store!HomeOf
      <4> QED
        BY <4>1, <2>3, <3>3, StoreHomesMove DEF Store!AsPromised
    <3>6. Store!Owed(m)' = Store!Owed(m) \ {r}
      <4>1. storeOpening.table \in DOMAIN storeDirs
        BY <2>8 DEF Store!RowsIn
      <4>2. Store!Owed(m)' = {q \in storeDirs'[storeOpening.table].rows \ storeDirs'[storeOpening.temp].rows : q <= m}
        BY <2>2, <3>0, <3>3, <4>1 DEF Store!Owed, Store!RowsIn
      <4>3. Store!Owed(m) = {q \in storeDirs[storeOpening.table].rows \ storeDirs[storeOpening.temp].rows : q <= m}
        BY <3>0, <4>1 DEF Store!Owed, Store!RowsIn
      <4> QED
        BY <3>0, <3>3, <4>1, <4>2, <4>3
    <3>7. Store!Owed(m) # {} => r \in Store!Owed(m)
      <4> SUFFICES ASSUME NEW q \in Store!Owed(m) PROVE r \in Store!Owed(m)
        OBVIOUS
      <4>1. q \in left /\ q <= m /\ q \in 1 .. storeRowsUsed
        BY StoreOwedCounts DEF Store!Owed
      <4>2. r <= m
        BY <2>8, <3>1, <4>1
      <4> QED
        BY <4>2 DEF Store!Owed
    <3>8. Store!Cardinality(Store!Owed(m)') <= storeOpening'.todo
      <4>1. CASE Store!Owed(m) = {}
        BY StoreCounting, <1>1, <2>2, <3>6, <4>1, FS_EmptySet
      <4>2. CASE Store!Owed(m) # {}
        BY <1>1, <2>2, <2>6, <3>6, <3>7, <4>2, StoreOwedCounts
      <4> QED
        BY <4>1, <4>2
    <3>9. Store!CopyKnows'
      BY <2>2, <2>3, <2>6, <3>0, <3>3, <3>8 DEF Store!CopyKnows, Store!At
    <3> QED
      BY <2>5, <3>4, <3>5, <3>9 DEF Store!AsPromised
  <2>9. \/ UNCHANGED storeDirs /\ left = {}
        \/ \E r \in left : /\ \A q \in left : r <= q
                           /\ storeDirs' = [storeDirs EXCEPT ![storeOpening.temp].rows = @ \cup {r}]
        \/ Store!Go("backup") /\ UNCHANGED storeDirs
    BY DEF Store!Copy
  <2>10. ~Store!Go("backup")
    BY <1>1, <2>2, StoreGoesTo DEF Store!Places
  <2> QED
    BY <2>7, <2>8, <2>9, <2>10
<1> QED
  BY <1>2, <1>3 DEF Store!Copy

LEMMA StorePromisedPoint ==
  ASSUME Store!StoreTyped, Store!AsPromised, Store!PointAtTemp
  PROVE  Store!AsPromised'
<1>1. /\ storeOpening # None /\ storeOpening.pc = "copy" /\ ~Store!Moving
            /\ storeOpening.table = Store!LiveVector
      /\ storeOpening \in Store!Openings /\ storeOpening.todo = 0
  BY StoreMigrating DEF Store!PointAtTemp, Store!At, Store!Moving
<1>2. CASE Store!Go("backup") /\ UNCHANGED storeManifest
  BY <1>1, <1>2, StoreMovesOn, StoreMigrating DEF Store!PointAtTemp, Store!kept
<1>3. CASE storeManifest' = Store!Saved(storeOpening.temp) /\ Store!Go("redrop")
  <2>1. /\ storeOpening' # None /\ storeOpening'.pc = "redrop" /\ storeOpening'.mode = "vector"
        /\ storeOpening'.read = storeOpening.read /\ storeOpening'.temp = storeOpening.temp
        /\ storeOpening'.table = storeOpening.table /\ storeOpening'.other = storeOpening.other
    BY <1>1, <1>3, StoreGoesTo, StoreMigrating DEF Store!Places
  <2>2. UNCHANGED <<storeDirs, storeSessions, storeRowsUsed, storeTtl, storeStamp, storeWrittenOff, storeParted>>
    BY DEF Store!PointAtTemp, Store!kept
  <2>3. /\ storeManifest'.read = "loaded" /\ storeManifest'.bm25 = storeManifest.bm25
        /\ storeManifest'.vector = storeOpening.temp
    BY <1>1, <1>3, StoreSaves, StoreMigrating
  <2>4. /\ storeOpening.temp \in DOMAIN storeDirs /\ storeOpening.temp # storeOpening.table
        /\ Store!OfVector(storeOpening.temp) /\ storeOpening.temp # Store!NoName
              /\ storeOpening.temp.ts <= storeStamp
        /\ storeOpening.temp.kind = "migration"
    BY <1>1, StoreCopying, StoreMigrating DEF Store!OfVector, Store!NoName
  <2>5. ~Store!Moving' /\ Store!LiveVector' = storeOpening.temp
    BY <2>1, <2>3, <2>4 DEF Store!Moving, Store!LiveVector
  <2>6. Store!NamesKnow' /\ Store!RowsKnow'
    BY <2>2, <2>3, <2>4
       DEF Store!AsPromised, Store!NamesKnow, Store!RowsKnow, Store!OfVector
  <2>C. ASSUME NEW r \in 1 .. storeRowsUsed, r \notin storeWrittenOff,
               storeOpening.table \in DOMAIN storeDirs,
               r \in storeDirs[storeOpening.table].rows
        PROVE  r \in storeDirs[storeOpening.temp].rows
    <3>1. PICK m \in 0 .. storeRowsUsed : /\ m + 1 .. storeRowsUsed \subseteq storeWrittenOff
                                          /\ Store!Cardinality(Store!Owed(m)) <= storeOpening.todo
      BY <1>1, StoreCopying
    <3>2. Store!Owed(m) = {}
      BY <1>1, <3>1, StoreOwedCounts
    <3>3. r <= m
      BY <3>1, <2>C DEF Store!StoreTyped
    <3> QED
      BY <2>4, <3>2, <3>3, <2>C DEF Store!Owed, Store!RowsIn
  <2>7. Store!AllAtHome'
    <3> DEFINE Elsewhere(n) == \/ n.kind = "backup"
                               \/ n = Store!Plain("bm25")
                               \/ storeParted /\ n = Store!Plain("vector")
    <3>4. \A n \in DOMAIN storeDirs : Elsewhere(n) => Store!HomeOf(n)'
      BY <2>2 DEF Store!HomeOf
    <3>5. Store!HomeOf(storeOpening.temp)'
      BY <2>1, <2>3, <2>5 DEF Store!HomeOf
    <3>6. \A n \in DOMAIN storeDirs : Store!HomeOf(n) => Elsewhere(n) \/ n = storeOpening.table
      BY <1>1 DEF Store!HomeOf
    <3> HIDE DEF Elsewhere
    <3> SUFFICES ASSUME NEW r \in 1 .. storeRowsUsed, r \notin storeWrittenOff
                 PROVE  \E n \in DOMAIN storeDirs : Store!HomeOf(n)' /\ r \in storeDirs[n].rows
      BY <2>2 DEF Store!AllAtHome
    <3>7. PICK n \in DOMAIN storeDirs : Store!HomeOf(n) /\ r \in storeDirs[n].rows
      BY DEF Store!AsPromised, Store!AllAtHome
    <3>8. \E k \in DOMAIN storeDirs : /\ k = storeOpening.temp \/ Elsewhere(k)
                                     /\ r \in storeDirs[k].rows
      BY <2>4, <2>C, <3>6, <3>7
    <3> QED
      BY <2>1, <3>4, <3>5, <3>8
  <2>8. Store!OpeningKnows'
    BY <1>1, <2>1, <2>2, <2>3, <2>4, <2>5, StoreMigrating
       DEF Store!OpeningKnows, Store!OfVector
  <2>9. Store!CopyKnows'
    <3>1. storeOpening.table \in DOMAIN storeDirs =>
            storeDirs[storeOpening.table].rows \subseteq
              storeWrittenOff \cup storeDirs[storeOpening.temp].rows
      BY <2>C DEF Store!StoreTyped, Store!Directory
    <3>2. Store!RowsIn({storeOpening.table}) \subseteq
            storeWrittenOff \cup Store!RowsIn({storeOpening.temp})
      BY <2>4, <3>1 DEF Store!RowsIn
    <3> QED
      BY <2>1, <2>2, <3>2 DEF Store!CopyKnows, Store!At, Store!RowsIn
  <2> QED
    BY <2>6, <2>7, <2>8, <2>9 DEF Store!AsPromised
<1> QED
  BY <1>2, <1>3 DEF Store!PointAtTemp

LEMMA StorePromisedRedrop ==
  ASSUME Store!StoreTyped, Store!AsPromised, Store!DropOld
  PROVE  Store!AsPromised'
<1>1. /\ storeOpening # None /\ storeOpening.pc = "redrop" /\ ~Store!Moving
            /\ storeOpening \in Store!Openings
      /\ storeManifest.vector = storeOpening.temp /\ storeOpening.table # storeOpening.temp
      /\ storeOpening.temp.kind = "migration"
  BY StoreMigrating
     DEF Store!DropOld, Store!At, Store!Moving, Store!AsPromised, Store!OpeningKnows
<1>2. Store!LiveVector = storeOpening.temp /\ Store!OfVector(storeOpening.temp)
  BY <1>1 DEF Store!LiveVector, Store!NoName, Store!OfVector
<1>3. UNCHANGED <<storeManifest, storeSessions, storeRowsUsed, storeTtl, storeStamp,
                  storeWrittenOff, storeParted>>
  BY DEF Store!DropOld, Store!kept
<1>4. PICK pc \in {"rename", "backup"} :
        /\ Store!GoAs(pc, storeOpening.temp)
        /\ \/ pc = "rename" /\ storeDirs' = Store!Removed({storeOpening.table})
           \/ pc = "backup" /\ UNCHANGED storeDirs
  BY DEF Store!DropOld
<1>5. /\ storeOpening' # None /\ storeOpening'.pc = pc /\ storeOpening'.mode = "vector"
      /\ storeOpening'.read = storeOpening.read /\ storeOpening'.temp = storeOpening.temp
      /\ storeOpening'.table = storeOpening.temp /\ storeOpening'.other = storeOpening.other
  BY <1>1, <1>4, StoreGoesToAs, StoreMigrating DEF Store!Places
<1>6. ~Store!Moving' /\ Store!LiveVector' = Store!LiveVector
  BY <1>3, <1>4, <1>5 DEF Store!Moving, Store!LiveVector
<1>7. /\ DOMAIN storeDirs' \subseteq DOMAIN storeDirs
      /\ \A n \in DOMAIN storeDirs' : storeDirs'[n] = storeDirs[n]
      /\ \A n \in DOMAIN storeDirs : n # storeOpening.table => n \in DOMAIN storeDirs'
  <2>1. CASE storeDirs' = Store!Removed({storeOpening.table})
    <3>1. /\ DOMAIN storeDirs' = DOMAIN storeDirs \ {storeOpening.table}
          /\ \A n \in DOMAIN storeDirs' : storeDirs'[n] = storeDirs[n]
      BY <2>1, StoreRemovedDirs
    <3> QED
      BY <3>1
  <2>2. CASE UNCHANGED storeDirs
    BY <2>2
  <2> QED
    BY <2>1, <2>2, <1>4
<1>8. Store!NamesKnow' /\ Store!RowsKnow'
  BY <1>3, <1>7 DEF Store!AsPromised, Store!NamesKnow, Store!RowsKnow
<1>9. Store!AllAtHome'
  <2>1. storeOpening.table.kind # "backup" /\ storeOpening.table # Store!Plain("bm25")
    BY <1>1, StoreMigrating
  <2>2. ASSUME NEW n \in DOMAIN storeDirs, Store!HomeOf(n)
        PROVE  \/ storeDirs[n].rows \subseteq storeWrittenOff'
               \/ \E k \in DOMAIN storeDirs' : Store!HomeOf(k)'
                     /\ storeDirs[n].rows \subseteq storeDirs'[k].rows \cup storeWrittenOff'
    <3>1. CASE n # storeOpening.table
      <4>1. n \in DOMAIN storeDirs' /\ Store!HomeOf(n)' /\ storeDirs[n].rows = storeDirs'[n].rows
        BY <1>1, <1>2, <1>3, <1>6, <1>7, <2>1, <2>2, <3>1 DEF Store!HomeOf
      <4> QED
        BY <4>1
    <3>2. CASE n = storeOpening.table
      <4>1. storeDirs[n].rows \subseteq storeWrittenOff \cup Store!RowsIn({storeOpening.temp})
        BY <1>1, <3>2 DEF Store!AsPromised, Store!CopyKnows, Store!At, Store!RowsIn
      <4>2. CASE storeOpening.temp \in DOMAIN storeDirs
        <5>1. /\ storeOpening.temp \in DOMAIN storeDirs' /\ Store!HomeOf(storeOpening.temp)'
              /\ storeDirs'[storeOpening.temp] = storeDirs[storeOpening.temp]
          BY <1>1, <1>2, <1>5, <1>6, <1>7, <4>2 DEF Store!HomeOf
        <5>2. Store!RowsIn({storeOpening.temp}) = storeDirs[storeOpening.temp].rows
          BY <4>2, StoreRowsOf
        <5> QED
          BY <1>3, <1>5, <4>1, <5>1, <5>2
      <4>3. CASE storeOpening.temp \notin DOMAIN storeDirs
        <5>1. Store!RowsIn({storeOpening.temp}) = {}
          BY <4>3 DEF Store!RowsIn
        <5> QED
          BY <1>3, <4>1, <5>1
      <4> QED
        BY <4>2, <4>3
    <3> QED
      BY <3>1, <3>2
  <2> QED
    BY <2>2, <1>3, StoreHomesMove DEF Store!AsPromised
<1>10. Store!OpeningKnows'
  BY <1>1, <1>2, <1>3, <1>4, <1>5, <1>6, StoreMigrating
     DEF Store!OpeningKnows, Store!OfVector
<1> QED
  BY <1>4, <1>5, <1>8, <1>9, <1>10 DEF Store!AsPromised, Store!CopyKnows, Store!At

LEMMA StorePromisedRename ==
  ASSUME Store!StoreTyped, Store!AsPromised, Store!RenameTemp
  PROVE  Store!AsPromised'
<1>1. /\ storeOpening # None /\ storeOpening.pc = "rename" /\ ~Store!Moving
            /\ storeOpening.table = Store!LiveVector
      /\ storeOpening \in Store!Openings /\ storeManifest.vector = storeOpening.temp
      /\ storeOpening.temp.kind = "migration"
  BY StoreMigrating
     DEF Store!RenameTemp, Store!At, Store!Moving, Store!AsPromised, Store!OpeningKnows
<1>2. CASE Store!Go("evict") /\ UNCHANGED storeDirs
  BY <1>1, <1>2, StoreMovesOn, StoreMigrating DEF Store!RenameTemp, Store!kept
<1>3. CASE /\ Store!Plain("vector") \notin DOMAIN storeDirs
                 /\ storeOpening.temp \in DOMAIN storeDirs
           /\ storeDirs' = Store!Moved(storeOpening.temp, Store!Plain("vector"))
                 /\ Store!GoAs("resave", Store!Plain("vector"))
  <2>1. /\ storeOpening' # None /\ storeOpening'.pc = "resave" /\ storeOpening'.mode = "vector"
        /\ storeOpening'.read = storeOpening.read /\ storeOpening'.temp = storeOpening.temp
        /\ storeOpening'.table = Store!Plain("vector") /\ storeOpening'.other = storeOpening.other
    BY <1>1, <1>3, StoreGoesToAs, StoreMigrating, StoreNamesAreNames DEF Store!Places
  <2>2. UNCHANGED <<storeManifest, storeSessions, storeRowsUsed, storeTtl, storeStamp,
                    storeWrittenOff, storeParted>>
    BY DEF Store!RenameTemp, Store!kept
  <2>3. Store!Moving' /\ Store!LiveVector = storeOpening.temp
    BY <1>1, <2>1 DEF Store!Moving, Store!LiveVector, Store!NoName
  <2>4. storeOpening.temp # Store!Plain("vector") /\ Store!Plain("vector").kind = "vector"
           /\ Store!Plain("vector").ts = 0
        /\ Store!OfVector(Store!Plain("vector")) /\ storeOpening.temp # Store!Plain("bm25")
    BY <1>1 DEF Store!Plain, Store!OfVector
  <2>5. /\ DOMAIN storeDirs' = (DOMAIN storeDirs \ {storeOpening.temp}) \cup {Store!Plain("vector")}
        /\ storeDirs'[Store!Plain("vector")] = storeDirs[storeOpening.temp]
        /\ \A n \in DOMAIN storeDirs : n # storeOpening.temp /\ n # Store!Plain("vector")
              => storeDirs'[n] = storeDirs[n]
    BY <1>3, <2>4, StoreMovedDirs, StoreNamesAreNames
  <2>6. Store!NamesKnow' /\ Store!RowsKnow'
    BY <1>3, <2>2, <2>4, <2>5
       DEF Store!AsPromised, Store!NamesKnow, Store!RowsKnow, Store!StoreTyped
  <2>7. Store!AllAtHome'
    <3>1. \A n \in DOMAIN storeDirs : Store!HomeOf(n) =>
            \E k \in DOMAIN storeDirs' : Store!HomeOf(k)' /\ storeDirs[n].rows = storeDirs'[k].rows
      <4> TAKE n \in DOMAIN storeDirs
      <4>1. CASE n = storeOpening.temp
        BY <2>3, <2>5, <4>1 DEF Store!HomeOf
      <4>2. CASE n # storeOpening.temp
        BY <1>1, <1>3, <2>3, <2>5, <4>2 DEF Store!HomeOf
      <4> QED
        BY <4>1, <4>2
    <3> QED
      BY <3>1, <2>2, StoreHomesMove DEF Store!AsPromised
  <2>8. Store!OpeningKnows'
    <3>1. storeStamp \in Nat
      BY DEF Store!StoreTyped
    <3> QED
      BY <1>1, <2>1, <2>2, <2>3, <2>4, <2>5, <3>1, StoreMigrating DEF Store!OpeningKnows
  <2> QED
    BY <2>1, <2>6, <2>7, <2>8 DEF Store!AsPromised, Store!CopyKnows, Store!At
<1> QED
  BY <1>2, <1>3 DEF Store!RenameTemp

(* What holds between the rename and the manifest's second change.         *)
LEMMA StoreRenamed ==
  ASSUME Store!StoreTyped, Store!AsPromised, Store!Moving
  PROVE  /\ storeOpening # None /\ storeOpening \in Store!Openings
               /\ storeOpening.temp \in Store!Name
         /\ storeOpening.mode = "vector" /\ storeOpening.read = "loaded"
               /\ storeManifest.read = "loaded"
         /\ storeOpening.table = Store!Plain("vector") /\ storeManifest.vector = storeOpening.temp
         /\ storeOpening.temp \notin DOMAIN storeDirs /\ storeOpening.temp.kind = "migration"
         /\ storeOpening.other = storeManifest.bm25 /\ storeOpening.temp.ts <= storeStamp
               /\ 0 <= storeStamp
         /\ Store!OfVector(storeOpening.temp) /\ Store!OfVector(Store!Plain("vector"))
               /\ Store!Plain("vector").ts = 0
         /\ storeOpening.temp # Store!NoName /\ Store!Plain("vector") # Store!NoName
               /\ Store!Plain("vector").kind = "vector"
         /\ storeOpening.temp # Store!Plain("vector")
<1>1. storeOpening # None /\ storeOpening.pc \in {"resave", "revert", "repair"}
  BY DEF Store!Moving
<1>2. /\ storeOpening.table = Store!Plain("vector") /\ storeManifest.vector = storeOpening.temp
      /\ storeOpening.temp \notin DOMAIN storeDirs /\ storeOpening.temp.kind = "migration"
  BY <1>1 DEF Store!AsPromised, Store!OpeningKnows
<1>3. /\ Store!OfVector(storeOpening.temp) /\ Store!OfVector(Store!Plain("vector"))
            /\ Store!Plain("vector").ts = 0
      /\ storeOpening.temp # Store!NoName /\ Store!Plain("vector") # Store!NoName
            /\ Store!Plain("vector").kind = "vector"
      /\ storeOpening.temp # Store!Plain("vector")
  BY <1>2 DEF Store!OfVector, Store!Plain, Store!NoName
<1> QED
  BY <1>1, <1>2, <1>3, StoreMigrating DEF Store!StoreTyped

LEMMA StorePromisedPlain ==
  ASSUME Store!StoreTyped, Store!AsPromised, Store!PointAtPlain
  PROVE  Store!AsPromised'
<1>1. Store!Moving /\ storeOpening.pc = "resave"
  BY DEF Store!PointAtPlain, Store!At, Store!Moving
<1>2. UNCHANGED <<storeDirs, storeSessions, storeRowsUsed, storeTtl, storeStamp, storeWrittenOff, storeParted>>
  BY DEF Store!PointAtPlain, Store!kept
<1>3. PICK pc \in {"reopen", "revert"} :
        /\ Store!Go(pc)
        /\ \/ pc = "reopen" /\ storeManifest' = Store!Saved(Store!Plain("vector"))
           \/ pc = "revert" /\ UNCHANGED storeManifest
  BY DEF Store!PointAtPlain
<1>4. /\ storeOpening' # None /\ storeOpening'.pc = pc /\ storeOpening'.mode = "vector"
      /\ storeOpening'.read = storeOpening.read /\ storeOpening'.temp = storeOpening.temp
      /\ storeOpening'.table = Store!Plain("vector") /\ storeOpening'.other = storeOpening.other
  BY <1>1, <1>3, StoreGoesTo, StoreRenamed DEF Store!Places
<1>5. /\ storeManifest'.read = "loaded" /\ storeManifest'.bm25 = storeManifest.bm25
      /\ pc = "reopen" => storeManifest'.vector = Store!Plain("vector")
      /\ pc = "revert" => storeManifest'.vector = storeManifest.vector
  BY <1>1, <1>3, StoreSaves, StoreRenamed, StoreNamesAreNames
<1>6. pc = "reopen" => ~Store!Moving' /\ Store!LiveVector' = Store!Plain("vector")
  BY <1>1, <1>4, <1>5, StoreRenamed DEF Store!Moving, Store!LiveVector
<1>7. pc = "revert" => Store!Moving'
  BY <1>4 DEF Store!Moving
<1>8. Store!NamesKnow' /\ Store!RowsKnow'
  BY <1>1, <1>2, <1>3, <1>5, StoreRenamed
     DEF Store!AsPromised, Store!NamesKnow, Store!RowsKnow, Store!OfVector
<1>9. Store!AllAtHome'
  BY <1>1, <1>2, <1>3, <1>6, <1>7, StoreHomesMove DEF Store!AsPromised, Store!HomeOf
<1>10. Store!OpeningKnows'
  BY <1>1, <1>2, <1>3, <1>4, <1>5, <1>6, <1>7, StoreRenamed
     DEF Store!OpeningKnows, Store!OfVector
<1> QED
  BY <1>3, <1>4, <1>8, <1>9, <1>10 DEF Store!AsPromised, Store!CopyKnows, Store!At

LEMMA StorePromisedReopen ==
  ASSUME Store!StoreTyped, Store!AsPromised, Store!Reopen
  PROVE  Store!AsPromised'
<1>1. storeOpening # None /\ storeOpening.pc = "reopen" /\ ~Store!Moving
  BY DEF Store!Reopen, Store!At, Store!Moving
<1>2. UNCHANGED <<storeDirs, storeSessions, storeRowsUsed, storeTtl, storeStamp, storeWrittenOff>>
  BY DEF Store!Reopen, Store!kept
<1>3. CASE Store!Go("evict") /\ UNCHANGED <<storeManifest, storeParted>>
  BY <1>1, <1>2, <1>3, StoreMovesOn, StoreMigrating
<1>4. CASE /\ Store!GoAs("evict", storeOpening.temp) /\ storeParted' = TRUE
           /\ storeManifest' = Store!Saved(storeOpening.temp)
  <2>1. /\ storeOpening.table = Store!Plain("vector") /\ Store!LiveVector = Store!Plain("vector")
        /\ storeOpening.temp.kind = "migration"
    BY <1>1, StoreMigrating DEF Store!AsPromised, Store!OpeningKnows
  <2>2. Store!OfVector(storeOpening.temp) /\ storeOpening.temp # Store!NoName
    BY <2>1 DEF Store!OfVector, Store!NoName
  <2>3. /\ storeOpening' # None /\ storeOpening'.pc = "evict" /\ storeOpening'.mode = "vector"
        /\ storeOpening'.read = storeOpening.read /\ storeOpening'.temp = storeOpening.temp
        /\ storeOpening'.table = storeOpening.temp /\ storeOpening'.other = storeOpening.other
    BY <1>1, <1>4, StoreGoesToAs, StoreMigrating DEF Store!Places
  <2>4. /\ storeManifest'.read = "loaded" /\ storeManifest'.bm25 = storeManifest.bm25
        /\ storeManifest'.vector = storeOpening.temp
    BY <1>1, <1>4, StoreSaves, StoreMigrating
  <2>5. ~Store!Moving' /\ Store!LiveVector' = storeOpening.temp
    BY <2>2, <2>3, <2>4 DEF Store!Moving, Store!LiveVector
  <2>6. Store!NamesKnow' /\ Store!RowsKnow'
    BY <1>1, <1>2, <2>2, <2>4, StoreMigrating DEF Store!AsPromised, Store!NamesKnow,
       Store!RowsKnow, Store!OfVector
  <2>7. Store!AllAtHome'
    <3>1. \A n \in DOMAIN storeDirs : Store!HomeOf(n) => Store!HomeOf(n)'
      BY <1>1, <1>4, <2>1 DEF Store!HomeOf
    <3> QED
      BY <3>1, <1>2, StoreHomesMove DEF Store!AsPromised
  <2>8. Store!OpeningKnows'
    BY <1>1, <1>2, <2>2, <2>3, <2>4, <2>5, StoreMigrating DEF Store!OpeningKnows, Store!OfVector
  <2> QED
    BY <2>3, <2>6, <2>7, <2>8 DEF Store!AsPromised, Store!CopyKnows, Store!At
<1>5. CASE Store!GoAs("evict", storeOpening.temp) /\ UNCHANGED <<storeManifest, storeParted>>
  <2>1. /\ storeOpening.temp.kind = "migration" /\ storeOpening.temp \notin DOMAIN storeDirs
        /\ Store!OfVector(storeOpening.temp)
    BY <1>1, StoreMigrating DEF Store!AsPromised, Store!OpeningKnows, Store!OfVector
  <2>2. /\ storeOpening' # None /\ storeOpening'.pc = "evict" /\ storeOpening'.mode = "vector"
        /\ storeOpening'.read = storeOpening.read /\ storeOpening'.temp = storeOpening.temp
        /\ storeOpening'.table = storeOpening.temp /\ storeOpening'.other = storeOpening.other
    BY <1>1, <1>5, StoreGoesToAs, StoreMigrating DEF Store!Places
  <2>3. ~Store!Moving' /\ Store!LiveVector' = Store!LiveVector
    BY <1>5, <2>2 DEF Store!Moving, Store!LiveVector
  <2>4. Store!NamesKnow' /\ Store!RowsKnow'
    BY <1>2, <1>5 DEF Store!AsPromised, Store!NamesKnow, Store!RowsKnow
  <2>5. Store!AllAtHome'
    <3>1. \A n \in DOMAIN storeDirs : Store!HomeOf(n) => Store!HomeOf(n)'
      BY <1>1, <1>5, <2>3 DEF Store!HomeOf
    <3> QED
      BY <3>1, <1>2, StoreHomesMove DEF Store!AsPromised
  <2>6. Store!OpeningKnows'
    BY <1>1, <1>2, <1>5, <2>1, <2>2, <2>3, StoreMigrating
       DEF Store!AsPromised, Store!OpeningKnows, Store!OfVector
  <2> QED
    BY <2>2, <2>4, <2>5, <2>6 DEF Store!AsPromised, Store!CopyKnows, Store!At
<1> QED
  BY <1>3, <1>4, <1>5 DEF Store!Reopen

LEMMA StorePromisedRevert ==
  ASSUME Store!StoreTyped, Store!AsPromised, Store!Revert, storeExcuse' = {}
  PROVE  Store!AsPromised'
<1>1. Store!Moving /\ storeOpening.pc = "revert"
  BY DEF Store!Revert, Store!At, Store!Moving
<1>2. UNCHANGED <<storeManifest, storeSessions, storeRowsUsed, storeTtl, storeStamp,
                  storeWrittenOff, storeParted>>
  BY DEF Store!Revert, Store!kept
<1>3. CASE Store!Go("repair") /\ UNCHANGED storeDirs
  <2>1. /\ storeOpening' # None /\ storeOpening'.pc = "repair" /\ storeOpening'.mode = "vector"
        /\ storeOpening'.read = storeOpening.read /\ storeOpening'.temp = storeOpening.temp
        /\ storeOpening'.table = Store!Plain("vector") /\ storeOpening'.other = storeOpening.other
    BY <1>1, <1>3, StoreGoesTo, StoreRenamed DEF Store!Places
  <2>2. Store!Moving'
    BY <2>1 DEF Store!Moving
  <2>3. Store!NamesKnow' /\ Store!RowsKnow'
    BY <1>2, <1>3 DEF Store!AsPromised, Store!NamesKnow, Store!RowsKnow
  <2>4. Store!AllAtHome'
    BY <1>1, <1>2, <1>3, <2>2, StoreHomesMove DEF Store!AsPromised, Store!HomeOf
  <2>5. Store!OpeningKnows'
    BY <1>1, <1>2, <1>3, <2>1, <2>2, StoreRenamed DEF Store!OpeningKnows, Store!OfVector
  <2> QED
    BY <2>1, <2>3, <2>4, <2>5 DEF Store!AsPromised, Store!CopyKnows, Store!At
<1>4. CASE /\ Store!Plain("vector") \in DOMAIN storeDirs
                 /\ storeDirs' = Store!Moved(Store!Plain("vector"), storeOpening.temp)
           /\ Store!GoAs("evict", storeOpening.temp)
  <2>1. /\ storeOpening' # None /\ storeOpening'.pc = "evict" /\ storeOpening'.mode = "vector"
        /\ storeOpening'.read = storeOpening.read /\ storeOpening'.temp = storeOpening.temp
        /\ storeOpening'.table = storeOpening.temp /\ storeOpening'.other = storeOpening.other
    BY <1>1, <1>4, StoreGoesToAs, StoreRenamed DEF Store!Places
  <2>2. ~Store!Moving' /\ Store!LiveVector' = storeOpening.temp
    BY <1>1, <1>2, <2>1, StoreRenamed DEF Store!Moving, Store!LiveVector
  <2>3. /\ DOMAIN storeDirs' = (DOMAIN storeDirs \ {Store!Plain("vector")}) \cup {storeOpening.temp}
        /\ storeDirs'[storeOpening.temp] = storeDirs[Store!Plain("vector")]
        /\ \A n \in DOMAIN storeDirs : n # Store!Plain("vector") /\ n # storeOpening.temp
              => storeDirs'[n] = storeDirs[n]
    BY <1>1, <1>4, StoreRenamed, StoreMovedDirs
  <2>4. Store!NamesKnow' /\ Store!RowsKnow'
    BY <1>1, <1>2, <1>4, <2>3, StoreRenamed
       DEF Store!AsPromised, Store!NamesKnow, Store!RowsKnow
  <2>5. Store!AllAtHome'
    <3>1. \A n \in DOMAIN storeDirs : Store!HomeOf(n) =>
            \E k \in DOMAIN storeDirs' : Store!HomeOf(k)' /\ storeDirs[n].rows = storeDirs'[k].rows
      <4> TAKE n \in DOMAIN storeDirs
      <4>1. CASE n = Store!Plain("vector")
        BY <2>2, <2>3, <4>1 DEF Store!HomeOf
      <4>2. CASE n # Store!Plain("vector")
        BY <1>1, <2>2, <2>3, <4>2, StoreRenamed DEF Store!HomeOf
      <4> QED
        BY <4>1, <4>2
    <3> QED
      BY <3>1, <1>2, StoreHomesMove DEF Store!AsPromised
  <2>6. Store!OpeningKnows'
    BY <1>1, <1>2, <2>1, <2>2, StoreRenamed DEF Store!OpeningKnows, Store!OfVector
  <2> QED
    BY <2>1, <2>4, <2>5, <2>6 DEF Store!AsPromised, Store!CopyKnows, Store!At
<1> QED
  BY <1>3, <1>4 DEF Store!Revert

LEMMA StorePromisedRepair ==
  ASSUME Store!StoreTyped, Store!AsPromised, Store!Repair
  PROVE  Store!AsPromised'
<1>1. Store!Moving /\ storeOpening.pc = "repair"
  BY DEF Store!Repair, Store!At, Store!Moving
<1>2. UNCHANGED <<storeDirs, storeSessions, storeRowsUsed, storeTtl, storeStamp, storeWrittenOff>>
  BY DEF Store!Repair, Store!kept
<1>3. /\ Store!Go("evict")
      /\ \/ storeManifest' = Store!Saved(Store!Plain("vector")) /\ UNCHANGED storeParted
         \/ UNCHANGED storeManifest /\ storeParted' = TRUE
  BY DEF Store!Repair
<1>4. /\ storeOpening' # None /\ storeOpening'.pc = "evict" /\ storeOpening'.mode = "vector"
      /\ storeOpening'.read = storeOpening.read /\ storeOpening'.temp = storeOpening.temp
      /\ storeOpening'.table = Store!Plain("vector") /\ storeOpening'.other = storeOpening.other
  BY <1>1, <1>3, StoreGoesTo, StoreRenamed DEF Store!Places
<1>5. /\ storeManifest'.read = "loaded" /\ storeManifest'.bm25 = storeManifest.bm25
      /\ \/ storeManifest'.vector = Store!Plain("vector") /\ UNCHANGED storeParted
         \/ storeManifest'.vector = storeManifest.vector /\ storeParted' = TRUE
  BY <1>1, <1>3, StoreSaves, StoreRenamed, StoreNamesAreNames
<1>6. /\ ~Store!Moving'
      /\ \/ Store!LiveVector' = Store!Plain("vector") /\ UNCHANGED storeParted
         \/ Store!LiveVector' = storeOpening.temp /\ storeParted' = TRUE
  BY <1>1, <1>4, <1>5, StoreRenamed DEF Store!Moving, Store!LiveVector
<1>8. Store!NamesKnow' /\ Store!RowsKnow'
  BY <1>1, <1>2, <1>5, StoreRenamed
     DEF Store!AsPromised, Store!NamesKnow, Store!RowsKnow, Store!OfVector
<1>9. Store!AllAtHome'
  BY <1>1, <1>2, <1>6, StoreHomesMove DEF Store!AsPromised, Store!HomeOf
<1>10. Store!OpeningKnows'
  BY <1>1, <1>2, <1>4, <1>5, <1>6, StoreRenamed DEF Store!OpeningKnows, Store!OfVector
<1> QED
  BY <1>4, <1>8, <1>9, <1>10 DEF Store!AsPromised, Store!CopyKnows, Store!At

(* Rows leave directories that are nobody's home, or need not be kept.     *)
LEMMA StoreMovesOnLess ==
  ASSUME Store!StoreTyped, Store!AsPromised, storeOpening # None,
         storeOpening.pc \in {"evict", "prune"}, NEW pc \in {"prune", "save"}, Store!Go(pc),
         storeOpening.pc = "evict" => storeOpening.table \in DOMAIN storeDirs,
         UNCHANGED <<storeManifest, storeSessions, storeRowsUsed, storeStamp, storeTtl,
                     storeWrittenOff, storeParted>>,
         DOMAIN storeDirs' \subseteq DOMAIN storeDirs,
         \A n \in DOMAIN storeDirs' : /\ storeDirs'[n].rows \subseteq storeDirs[n].rows
                                      /\ storeDirs[n].rows \subseteq storeDirs'[n].rows \cup storeWrittenOff
                                      /\ storeDirs'[n].broken = storeDirs[n].broken,
         \A n \in DOMAIN storeDirs : Store!HomeOf(n) =>
           n \in DOMAIN storeDirs' \/ storeDirs[n].rows \subseteq storeWrittenOff
  PROVE  Store!AsPromised'
<1>1. /\ storeOpening' # None /\ storeOpening'.pc = pc /\ storeOpening' \in Store!Openings
      /\ storeOpening'.mode = storeOpening.mode /\ storeOpening'.read = storeOpening.read
      /\ storeOpening'.table = storeOpening.table /\ storeOpening'.other = storeOpening.other
      /\ storeOpening'.temp = storeOpening.temp
  BY StoreOpens, StoreGoesTo DEF Store!Places
<1>2. ~Store!Moving /\ ~Store!Moving' /\ Store!LiveVector' = Store!LiveVector
  BY <1>1 DEF Store!Moving, Store!LiveVector
<1>3. Store!NamesKnow' /\ Store!RowsKnow'
  BY DEF Store!AsPromised, Store!NamesKnow, Store!RowsKnow
<1>4. \A n \in DOMAIN storeDirs : Store!HomeOf(n)' <=> Store!HomeOf(n)
  BY <1>2 DEF Store!HomeOf
<1>5. Store!AllAtHome'
  BY <1>4, StoreHomesMove DEF Store!AsPromised
<1>6. Store!OpeningKnows'
  BY <1>1, <1>2 DEF Store!AsPromised, Store!OpeningKnows, Store!OfVector
<1> QED
  BY <1>1, <1>3, <1>5, <1>6 DEF Store!AsPromised, Store!CopyKnows, Store!At

LEMMA StorePromisedEvict ==
  ASSUME Store!StoreTyped, Store!AsPromised, Store!Evict
  PROVE  Store!AsPromised'
<1>1. storeOpening # None /\ storeOpening.pc = "evict" /\ ~Store!Moving
  BY DEF Store!Evict, Store!At, Store!Moving
<1>2. UNCHANGED <<storeManifest, storeSessions, storeRowsUsed, storeStamp, storeTtl,
                  storeWrittenOff, storeParted>>
  BY DEF Store!Evict, Store!kept
<1>3. CASE storeOpening' = None /\ UNCHANGED storeDirs
  BY <1>1, <1>2, <1>3, StoreLeavesUnmoved
<1>4. CASE /\ storeOpening.table \in DOMAIN storeDirs /\ Store!Go("prune")
           /\ UNCHANGED storeDirs
  BY <1>1, <1>2, <1>4, StoreMovesOn
<1>5. CASE /\ storeOpening.table \in DOMAIN storeDirs /\ Store!Go("prune")
           /\ storeDirs' = [storeDirs EXCEPT ![storeOpening.table].rows = @ \ 1 .. storeTtl.rows]
  <2>1. storeDirs[storeOpening.table].rows \ (1 .. storeTtl.rows) \in SUBSET (1 .. storeRowsUsed)
    BY <1>5 DEF Store!StoreTyped, Store!Directory
  <2>2. /\ DOMAIN storeDirs' = DOMAIN storeDirs
        /\ storeDirs'[storeOpening.table].rows = storeDirs[storeOpening.table].rows \ (1 .. storeTtl.rows)
        /\ storeDirs'[storeOpening.table].broken = storeDirs[storeOpening.table].broken
        /\ \A n \in DOMAIN storeDirs : n # storeOpening.table => storeDirs'[n] = storeDirs[n]
    BY <1>5, <2>1, StoreRewrittenDirs
  <2>3. 1 .. storeTtl.rows \subseteq storeWrittenOff
    BY DEF Store!AsPromised, Store!RowsKnow
  <2>4. \A n \in DOMAIN storeDirs' : /\ storeDirs'[n].rows \subseteq storeDirs[n].rows
                                     /\ storeDirs[n].rows \subseteq storeDirs'[n].rows \cup storeWrittenOff
                                     /\ storeDirs'[n].broken = storeDirs[n].broken
    BY <2>2, <2>3
  <2> QED
    BY <1>1, <1>2, <1>5, <2>2, <2>4, StoreMovesOnLess
<1> QED
  BY <1>3, <1>4, <1>5 DEF Store!Evict, Store!Abort

LEMMA StorePromisedPrune ==
  ASSUME Store!StoreTyped, Store!AsPromised, Store!Prune, storeExcuse' = {}
  PROVE  Store!AsPromised'
<1>1. storeOpening # None /\ storeOpening.pc = "prune" /\ ~Store!Moving
         /\ storeOpening \in Store!Openings /\ Store!Go("save")
  BY StoreOpens DEF Store!Prune, Store!At, Store!Moving
<1>2. UNCHANGED <<storeManifest, storeSessions, storeRowsUsed, storeStamp, storeTtl,
                  storeWrittenOff, storeParted>>
  BY DEF Store!Prune, Store!kept
<1>3. storeOpening.read = "loaded" /\ storeOpening.mode \in {"vector", "bm25"}
  BY <1>1 DEF Store!AsPromised, Store!OpeningKnows, Store!Openings, Store!Mode
<1>4. PICK gone \in SUBSET Store!Orphans(storeOpening.table) :
        storeDirs' = Store!Removed(gone)
           /\ storeManifest[Store!Other(storeOpening.mode)] \notin gone
  BY <1>3 DEF Store!Prune
<1>5. /\ DOMAIN storeDirs' = DOMAIN storeDirs \ gone
      /\ \A n \in DOMAIN storeDirs' : storeDirs'[n] = storeDirs[n]
  BY <1>4, StoreRemovedDirs
<1>6. \A n \in DOMAIN storeDirs : Store!HomeOf(n) => n \in DOMAIN storeDirs'
         \/ storeDirs[n].rows \subseteq storeWrittenOff
  <2> SUFFICES ASSUME NEW n \in DOMAIN storeDirs, Store!HomeOf(n), n \in gone
               PROVE  storeDirs[n].rows \subseteq storeWrittenOff
    BY <1>5
  <2>1. n # storeOpening.table /\ (n.kind = "migration" \/ (n.kind = "backup"
           /\ Store!Superseded(n)))
    BY <1>4 DEF Store!Orphans
  <2>2. CASE n.kind = "backup"
    BY <2>1, <2>2 DEF Store!Superseded, Store!AsPromised, Store!RowsKnow
  <2>3. CASE n.kind = "migration"
    <3>1. n = Store!LiveVector /\ n # Store!Plain("bm25") /\ n # Store!Plain("vector")
      BY <1>1, <2>3 DEF Store!HomeOf, Store!Plain
    <3>2. CASE storeOpening.mode = "vector"
      BY <1>1, <2>1, <3>1, <3>2 DEF Store!AsPromised, Store!OpeningKnows
    <3>3. CASE storeOpening.mode = "bm25"
      BY <1>4, <3>1, <3>3, StoreTheOtherMode DEF Store!LiveVector
    <3> QED
      BY <1>3, <3>2, <3>3
  <2> QED
    BY <2>1, <2>2, <2>3
<1> QED
  BY <1>1, <1>2, <1>5, <1>6, StoreMovesOnLess

LEMMA StorePromisedOpened ==
  ASSUME Store!StoreTyped, Store!AsPromised, Store!Opened
  PROVE  Store!AsPromised'
<1>1. storeOpening # None /\ storeOpening.pc = "save" /\ ~Store!Moving
         /\ storeOpening \in Store!Openings
      /\ storeOpening.table \in Store!Name /\ storeOpening.mode \in {"vector", "bm25"}
  BY StoreOpens DEF Store!Opened, Store!At, Store!Moving, Store!Openings, Store!Mode
<1>2. UNCHANGED <<storeDirs, storeRowsUsed, storeStamp, storeTtl, storeWrittenOff, storeParted>>
      /\ storeOpening' = None /\ storeSessions' = storeSessions \cup {storeOpening.table}
      /\ (storeManifest' = Store!Saved(storeOpening.table) \/ UNCHANGED storeManifest)
  BY DEF Store!Opened
<1>3. storeOpening.table.kind # "backup"
  BY <1>1 DEF Store!AsPromised, Store!OpeningKnows, Store!OfVector, Store!Plain
<1>4. \/ UNCHANGED <<storeManifest>>
      \/ /\ storeOpening.mode = "vector" /\ storeManifest'.vector = storeOpening.table
         /\ Store!LiveVector \in DOMAIN storeDirs => storeOpening.table = Store!LiveVector
         /\ storeManifest'.bm25 = storeManifest.bm25 /\ Store!OfVector(storeOpening.table)
         /\ storeOpening.table.ts <= storeStamp
      \/ /\ storeOpening.mode = "bm25" /\ storeManifest'.vector = storeManifest.vector
         /\ storeManifest'.bm25 = Store!Plain("bm25")
  BY <1>1, <1>2, StoreSaves DEF Store!AsPromised, Store!OpeningKnows, Store!Moving
<1>5. Store!NamesKnow'
  BY <1>2, <1>3, <1>4 DEF Store!AsPromised, Store!NamesKnow, Store!OfVector
<1>6. Store!LiveVector \in DOMAIN storeDirs => Store!LiveVector' = Store!LiveVector
  BY <1>4 DEF Store!LiveVector, Store!OfVector, Store!NoName
<1> QED
  BY <1>1, <1>2, <1>5, <1>6, StoreLeaves

(* What goes on beside an open.                                            *)
LEMMA StorePromisedAdd ==
  ASSUME Store!StoreTyped, Store!AsPromised, NEW t \in storeSessions, Store!Add(t)
  PROVE  Store!AsPromised'
<1> DEFINE new == storeRowsUsed + 1
<1>1. /\ UNCHANGED <<storeManifest, storeOpening, storeSessions, storeStamp, storeTtl,
                     storeParted>> /\ storeRowsUsed' = new
      /\ t \in DOMAIN storeDirs /\ ~storeDirs[t].broken /\ t.kind # "backup"
      /\ storeRowsUsed \in Nat /\ new \in Nat
  BY DEF Store!Add, Store!StoreTyped, Store!AsPromised, Store!NamesKnow
<1>2. /\ DOMAIN storeDirs' = DOMAIN storeDirs
      /\ \A n \in DOMAIN storeDirs : /\ storeDirs'[n].broken = storeDirs[n].broken
                                     /\ storeDirs'[n].rows = IF n = t
                                           THEN storeDirs[n].rows \cup {new}
                                                                 ELSE storeDirs[n].rows
  BY <1>1 DEF Store!Add, Store!StoreTyped, Store!Directory
<1>3. /\ \/ storeOpening = None /\ t \in Store!Live /\ storeWrittenOff' = storeWrittenOff
         \/ storeWrittenOff' = storeWrittenOff \cup {new}
      /\ storeWrittenOff \subseteq storeWrittenOff'
  BY DEF Store!Add, Store!WriteOff
<1> HIDE DEF new
<1>4. Store!NamesKnow' /\ Store!RowsKnow'
  BY <1>1, <1>2, <1>3 DEF Store!AsPromised, Store!NamesKnow, Store!RowsKnow
<1>5. Store!Moving' = Store!Moving /\ Store!LiveVector' = Store!LiveVector
         /\ \A n : Store!HomeOf(n)' <=> Store!HomeOf(n)
  BY <1>1 DEF Store!Moving, Store!LiveVector, Store!HomeOf
<1>6. Store!AllAtHome'
  <2> SUFFICES ASSUME NEW r \in 1 .. storeRowsUsed', r \notin storeWrittenOff'
               PROVE  \E n \in DOMAIN storeDirs : Store!HomeOf(n) /\ r \in storeDirs'[n].rows
    BY <1>2, <1>5 DEF Store!AllAtHome
  <2>1. CASE r = new
    <3>1. storeOpening = None /\ t \in Store!Live
      BY <1>3, <2>1
    <3>2. t = Store!LiveVector \/ t = Store!Plain("bm25")
      <4>1. t \in {IF storeManifest["vector"] = Store!NoName THEN Store!Plain("vector")
               ELSE storeManifest["vector"],
                   IF storeManifest["bm25"] = Store!NoName THEN Store!Plain("bm25")
                      ELSE storeManifest["bm25"]}
        BY <3>1 DEF Store!Live, Store!Mode
      <4> QED
        BY <4>1 DEF Store!LiveVector, Store!AsPromised, Store!NamesKnow
    <3>3. Store!HomeOf(t)
      BY <3>1, <3>2 DEF Store!HomeOf, Store!Moving
    <3> QED
      BY <1>1, <1>2, <2>1, <3>3
  <2>2. CASE r # new
    <3>1. r \in 1 .. storeRowsUsed /\ r \notin storeWrittenOff
      BY <1>1, <1>3, <2>2 DEF new
    <3>2. PICK n \in DOMAIN storeDirs : Store!HomeOf(n) /\ r \in storeDirs[n].rows
      BY <3>1 DEF Store!AsPromised, Store!AllAtHome
    <3> QED
      BY <1>2, <3>2
  <2> QED
    BY <2>1, <2>2
<1>7. Store!OpeningKnows'
  BY <1>1, <1>2, <1>5 DEF Store!AsPromised, Store!OpeningKnows, Store!OfVector
<1>R. storeOpening # None /\ storeOpening.pc = "redrop" => Store!CopyKnows'
  <2> SUFFICES ASSUME storeOpening # None, storeOpening.pc = "redrop" PROVE Store!CopyKnows'
    OBVIOUS
  <2>1. /\ Store!RowsIn({storeOpening.table})' \subseteq Store!RowsIn({storeOpening.table}) \cup {new}
        /\ Store!RowsIn({storeOpening.temp}) \subseteq Store!RowsIn({storeOpening.temp})'
    <3>1. \A n : Store!RowsIn({n}) = IF n \in DOMAIN storeDirs THEN storeDirs[n].rows ELSE {}
      BY DEF Store!RowsIn
    <3>2. \A n : Store!RowsIn({n})' = IF n \in DOMAIN storeDirs' THEN storeDirs'[n].rows ELSE {}
      BY DEF Store!RowsIn
    <3>3. \A n : /\ Store!RowsIn({n})' \subseteq Store!RowsIn({n}) \cup {new}
                 /\ Store!RowsIn({n}) \subseteq Store!RowsIn({n})'
      <4> TAKE n
      <4>a. Store!RowsIn({n}) = IF n \in DOMAIN storeDirs THEN storeDirs[n].rows ELSE {}
        BY <3>1
      <4>b. Store!RowsIn({n})' = IF n \in DOMAIN storeDirs' THEN storeDirs'[n].rows ELSE {}
        BY <3>2
      <4>1. CASE n \in DOMAIN storeDirs
        <5>1. /\ n \in DOMAIN storeDirs'
              /\ \/ storeDirs'[n].rows = storeDirs[n].rows
                 \/ storeDirs'[n].rows = storeDirs[n].rows \cup {new}
          BY <1>2, <4>1
        <5> QED
          BY <4>a, <4>b, <4>1, <5>1
      <4>2. CASE n \notin DOMAIN storeDirs
        <5>1. n \notin DOMAIN storeDirs'
          BY <1>2, <4>2
        <5> QED
          BY <4>a, <4>b, <4>2, <5>1
      <4> QED
        BY <4>1, <4>2
    <3>4. storeOpening'.table = storeOpening.table /\ storeOpening'.temp = storeOpening.temp
      BY <1>1
    <3> QED
      BY <3>3, <3>4
  <2>2. storeWrittenOff' = storeWrittenOff \cup {new}
    BY <1>3
  <2>3. Store!RowsIn({storeOpening.table}) \subseteq
          storeWrittenOff \cup Store!RowsIn({storeOpening.temp})
    BY DEF Store!AsPromised, Store!CopyKnows, Store!At
  <2> QED
    BY <1>1, <2>1, <2>2, <2>3 DEF Store!CopyKnows, Store!At, Store!RowsIn
<1>8. Store!CopyKnows'
  <2> SUFFICES ASSUME storeOpening # None, storeOpening.pc = "copy" PROVE Store!CopyKnows'
    BY <1>1, <1>R DEF Store!CopyKnows, Store!At
  <2>1. PICK m \in 0 .. storeRowsUsed : /\ m + 1 .. storeRowsUsed \subseteq storeWrittenOff
                                        /\ Store!Cardinality(Store!Owed(m)) <= storeOpening.todo
    BY StoreCopying
  <2>2. storeOpening.temp \in DOMAIN storeDirs /\ ~storeDirs[storeOpening.temp].broken
           /\ storeOpening.temp # storeOpening.table
    BY StoreCopying
  <2>3. m \in 0 .. storeRowsUsed' /\ m + 1 .. storeRowsUsed' \subseteq storeWrittenOff'
    BY <1>1, <1>3, <2>1 DEF new
  <2>4. Store!Owed(m)' = Store!Owed(m)
    <3>1. CASE storeOpening.table \in DOMAIN storeDirs
      <4>1. Store!Owed(m)' = {q \in storeDirs'[storeOpening.table].rows \ storeDirs'[storeOpening.temp].rows : q <= m}
        BY <1>1, <1>2, <2>2, <3>1 DEF Store!Owed, Store!RowsIn
      <4>2. Store!Owed(m) = {q \in storeDirs[storeOpening.table].rows \ storeDirs[storeOpening.temp].rows : q <= m}
        BY <2>2, <3>1 DEF Store!Owed, Store!RowsIn
      <4>3. ~(new <= m)
        BY <1>1, <2>1 DEF new
      <4> QED
        BY <1>2, <2>2, <3>1, <4>1, <4>2, <4>3
    <3>2. CASE storeOpening.table \notin DOMAIN storeDirs
      BY <1>1, <1>2, <3>2 DEF Store!Owed, Store!RowsIn
    <3> QED
      BY <3>1, <3>2
  <2>5. Store!Cardinality(Store!Owed(m)') <= storeOpening'.todo
    BY <1>1, <2>1, <2>4
  <2> QED
    BY <1>1, <1>2, <2>2, <2>3, <2>5 DEF Store!CopyKnows, Store!At
<1> QED
  BY <1>4, <1>6, <1>7, <1>8 DEF Store!AsPromised

LEMMA StorePromisedForce ==
  ASSUME Store!StoreTyped, Store!AsPromised, NEW mode \in Store!Mode,
         Store!ForceDelete(mode), storeExcuse' = {}
  PROVE  Store!AsPromised'
<1>1. UNCHANGED <<storeManifest, storeOpening, storeSessions, storeRowsUsed, storeStamp, storeTtl,
                  storeWrittenOff, storeParted>>
  BY DEF Store!ForceDelete
<1>2. PICK target : storeDirs' = Store!Removed({target})
         /\ (target \in DOMAIN storeDirs => storeDirs[target].broken)
  BY DEF Store!ForceDelete
<1>3. /\ DOMAIN storeDirs' = DOMAIN storeDirs \ {target}
      /\ \A n \in DOMAIN storeDirs' : storeDirs'[n] = storeDirs[n]
      /\ target \in DOMAIN storeDirs => storeDirs[target].rows \subseteq storeWrittenOff
  BY <1>2, StoreRemovedDirs DEF Store!AsPromised, Store!RowsKnow
<1>4. Store!NamesKnow' /\ Store!RowsKnow'
  BY <1>1, <1>3 DEF Store!AsPromised, Store!NamesKnow, Store!RowsKnow
<1>5. Store!Moving' = Store!Moving /\ Store!LiveVector' = Store!LiveVector
         /\ \A n : Store!HomeOf(n)' <=> Store!HomeOf(n)
  BY <1>1 DEF Store!Moving, Store!LiveVector, Store!HomeOf
<1>6. Store!AllAtHome'
  <2>1. \A n \in DOMAIN storeDirs : Store!HomeOf(n) =>
          \/ storeDirs[n].rows \subseteq storeWrittenOff'
          \/ n \in DOMAIN storeDirs' /\ Store!HomeOf(n)' /\ storeDirs[n].rows = storeDirs'[n].rows
    BY <1>1, <1>3, <1>5
  <2> QED
    BY <1>1, <2>1, StoreHomesMove DEF Store!AsPromised
<1>7. Store!OpeningKnows'
  BY <1>1, <1>3, <1>5 DEF Store!AsPromised, Store!OpeningKnows, Store!OfVector
<1>R. storeOpening # None /\ storeOpening.pc = "redrop" => Store!CopyKnows'
  <2> SUFFICES ASSUME storeOpening # None, storeOpening.pc = "redrop" PROVE Store!CopyKnows'
    OBVIOUS
  <2>1. /\ Store!RowsIn({storeOpening.table})' \subseteq Store!RowsIn({storeOpening.table})
        /\ Store!RowsIn({storeOpening.temp}) \subseteq
             Store!RowsIn({storeOpening.temp})' \cup storeWrittenOff
    BY <1>1, <1>3 DEF Store!RowsIn
  <2>2. Store!RowsIn({storeOpening.table}) \subseteq
          storeWrittenOff \cup Store!RowsIn({storeOpening.temp})
    BY DEF Store!AsPromised, Store!CopyKnows, Store!At
  <2> QED
    BY <1>1, <2>1, <2>2 DEF Store!CopyKnows, Store!At, Store!RowsIn
<1>8. Store!CopyKnows'
  <2> SUFFICES ASSUME storeOpening # None, storeOpening.pc = "copy" PROVE Store!CopyKnows'
    BY <1>1, <1>R DEF Store!CopyKnows, Store!At
  <2>1. PICK m \in 0 .. storeRowsUsed : /\ m + 1 .. storeRowsUsed \subseteq storeWrittenOff
                                        /\ Store!Cardinality(Store!Owed(m)) <= storeOpening.todo
    BY StoreCopying
  <2>2. storeOpening.temp \in DOMAIN storeDirs /\ ~storeDirs[storeOpening.temp].broken
           /\ storeOpening.temp # storeOpening.table
    BY StoreCopying
  <2>3. storeOpening.temp # target
    BY <1>2, <2>2
  <2>4. storeOpening \in Store!Openings /\ storeOpening.todo \in Nat
    BY StoreOpens DEF Store!Openings
  <2>5. Store!Cardinality(Store!Owed(m)') <= storeOpening.todo
    <3>1. CASE storeOpening.table = target
      <4>1. Store!Owed(m)' = {}
        BY <1>1, <1>3, <3>1 DEF Store!Owed, Store!RowsIn
      <4> QED
        BY StoreCounting, <2>4, <4>1, FS_EmptySet
    <3>2. CASE storeOpening.table # target
      <4>1. Store!Owed(m)' = Store!Owed(m)
        BY <1>1, <1>3, <2>2, <2>3, <3>2 DEF Store!Owed, Store!RowsIn
      <4> QED
        BY <2>1, <4>1
    <3> QED
      BY <3>1, <3>2
  <2> QED
    BY <1>1, <1>3, <2>1, <2>2, <2>3, <2>5 DEF Store!CopyKnows, Store!At
<1> QED
  BY <1>4, <1>6, <1>7, <1>8 DEF Store!AsPromised

LEMMA StorePromisedCrash ==
  ASSUME Store!StoreTyped, Store!AsPromised, Store!Crash
  PROVE  Store!AsPromised'
<1>1. storeOpening' = None /\ storeParted' = (storeParted \/ Store!Moving)
  BY DEF Store!Crash
<1>2. UNCHANGED <<storeDirs, storeManifest, storeSessions, storeRowsUsed, storeStamp, storeTtl,
                  storeWrittenOff>>
  BY DEF Store!Crash, Store!disk, Store!kept
<1>3. Store!NamesKnow' /\ Store!LiveVector' = Store!LiveVector
  BY <1>2 DEF Store!AsPromised, Store!NamesKnow, Store!LiveVector
<1> QED
  BY <1>1, <1>2, <1>3, StoreLeaves

LEMMA StorePromisedPowerLoss ==
  ASSUME Store!StoreTyped, Store!AsPromised, Store!PowerLoss
  PROVE  Store!AsPromised'
<1>1. storeOpening' = None /\ storeSessions' = {} /\ storeParted' = (storeParted \/ Store!Moving)
         /\ UNCHANGED <<storeRowsUsed, storeStamp, storeTtl>>
  BY DEF Store!PowerLoss
<1>2. storeManifest'.vector = storeManifest.vector /\ storeManifest'.bm25 = storeManifest.bm25
  BY DEF Store!PowerLoss, Store!StoreTyped
<1>3. Store!LiveVector' = Store!LiveVector
  BY <1>2 DEF Store!LiveVector
<1>4. /\ DOMAIN storeDirs' = DOMAIN storeDirs /\ storeWrittenOff \subseteq storeWrittenOff'
      /\ \A n \in DOMAIN storeDirs : /\ storeDirs'[n].rows = storeDirs[n].rows
                                     /\ storeDirs'[n].broken => \/ storeDirs[n].broken
                                                                \/ storeDirs[n].rows \subseteq storeWrittenOff'
  <2>1. CASE UNCHANGED <<storeDirs, storeWrittenOff>>
    BY <2>1
  <2>2. ASSUME NEW t \in DOMAIN storeDirs,
               storeDirs' = [storeDirs EXCEPT ![t].broken = TRUE],
               storeWrittenOff' = storeWrittenOff \cup storeDirs[t].rows
        PROVE  /\ DOMAIN storeDirs' = DOMAIN storeDirs /\ storeWrittenOff \subseteq storeWrittenOff'
               /\ \A n \in DOMAIN storeDirs : /\ storeDirs'[n].rows = storeDirs[n].rows
                                              /\ storeDirs'[n].broken => \/ storeDirs[n].broken
                                                                         \/ storeDirs[n].rows \subseteq storeWrittenOff'
    <3>1. /\ DOMAIN storeDirs' = DOMAIN storeDirs /\ storeDirs'[t].rows = storeDirs[t].rows
          /\ \A n \in DOMAIN storeDirs : n # t => storeDirs'[n] = storeDirs[n]
      BY <2>2, StoreBrokenDirs
    <3> QED
      BY <2>2, <3>1
  <2> QED
    BY <2>1, <2>2 DEF Store!PowerLoss, Store!WriteOff
<1>5. Store!NamesKnow'
  BY <1>1, <1>2, <1>4 DEF Store!AsPromised, Store!NamesKnow, Store!OfVector
<1> QED
  BY <1>1, <1>3, <1>4, <1>5, StoreLeaves

LEMMA StorePromisedTtl ==
  ASSUME Store!StoreTyped, Store!AsPromised, Store!TtlPasses
  PROVE  Store!AsPromised'
<1>1. /\ UNCHANGED <<storeDirs, storeManifest, storeOpening, storeSessions, storeRowsUsed,
                     storeStamp>>
      /\ storeTtl' = [rows |-> storeRowsUsed, stamp |-> storeStamp]
      /\ storeWrittenOff' = storeWrittenOff \cup 1 .. storeRowsUsed
      /\ UNCHANGED storeParted
  BY DEF Store!TtlPasses, Store!WriteOff, Store!disk
<1>2. Store!NamesKnow' /\ Store!RowsKnow'
  <2>1. \A n \in DOMAIN storeDirs : storeDirs[n].rows \subseteq 1 .. storeRowsUsed
    BY DEF Store!StoreTyped, Store!Directory
  <2>2. storeTtl'.rows = storeRowsUsed /\ storeTtl'.stamp = storeStamp /\ storeStamp <= storeStamp
    BY <1>1 DEF Store!StoreTyped
  <2> QED
    BY <1>1, <2>1, <2>2 DEF Store!AsPromised, Store!NamesKnow, Store!RowsKnow
<1>3. Store!AllAtHome'
  BY <1>1 DEF Store!AllAtHome
<1>4. Store!OpeningKnows'
  BY <1>1
     DEF Store!AsPromised, Store!OpeningKnows, Store!OfVector, Store!Moving,
         Store!LiveVector
<1>5. Store!CopyKnows'
  <2>1. \A m : Store!Owed(m)' = Store!Owed(m)
    BY <1>1 DEF Store!Owed, Store!RowsIn
  <2>2. \A names : Store!RowsIn(names)' = Store!RowsIn(names)
    BY <1>1 DEF Store!RowsIn
  <2> QED
    BY <1>1, <2>1, <2>2 DEF Store!AsPromised, Store!CopyKnows, Store!At
<1> QED
  BY <1>2, <1>3, <1>4, <1>5 DEF Store!AsPromised

LEMMA StorePromisedUnchanged ==
  ASSUME Store!AsPromised, UNCHANGED Store!storeVars
  PROVE  Store!AsPromised'
<1>1. UNCHANGED <<storeDirs, storeManifest, storeOpening, storeSessions, storeRowsUsed, storeStamp,
                  storeTtl, storeWrittenOff, storeParted>>
  BY DEF Store!storeVars
<1>2. Store!NamesKnow' /\ Store!RowsKnow'
  BY <1>1 DEF Store!AsPromised, Store!NamesKnow, Store!RowsKnow, Store!OfVector
<1>3. Store!AllAtHome'
  BY <1>1 DEF Store!AsPromised, Store!AllAtHome, Store!HomeOf, Store!Moving, Store!LiveVector
<1>4. Store!OpeningKnows'
  BY <1>1 DEF Store!AsPromised, Store!OpeningKnows, Store!OfVector, Store!Moving,
              Store!LiveVector
<1>5. Store!CopyKnows'
  BY <1>1 DEF Store!AsPromised, Store!CopyKnows, Store!At, Store!Owed, Store!RowsIn
<1> QED
  BY <1>2, <1>3, <1>4, <1>5 DEF Store!AsPromised

(* Excuses are never taken back.                                           *)
LEMMA StoreNoExcuseBefore ==
  ASSUME [Store!Next]_Store!storeVars, storeExcuse' = {}  PROVE  storeExcuse = {}
BY DEF Store!Next, Store!Step, Store!Open, Store!OpenTable, Store!NewTable,
   Store!BackupRename, Store!DropTable, Store!CreateAfter, Store!ReCreate, Store!Copy,
       Store!PointAtTemp, Store!DropOld, Store!RenameTemp, Store!PointAtPlain,
       Store!Reopen, Store!Revert, Store!Repair, Store!Evict, Store!Prune, Store!Opened,
       Store!Add, Store!ForceDelete, Store!Crash, Store!PowerLoss, Store!TtlPasses,
       Store!storeVars

LEMMA StoreStoreStep == Store!StoreInv /\ [Store!Next]_Store!storeVars => Store!StoreInv'
<1> SUFFICES ASSUME Store!StoreInv, [Store!Next]_Store!storeVars PROVE Store!StoreInv'
  OBVIOUS
<1>1. Store!StoreTyped /\ Store!StoreTyped'
  BY StoreTypedStep DEF Store!StoreInv
<1> SUFFICES ASSUME storeExcuse' = {} PROVE Store!AsPromised'
  BY <1>1 DEF Store!StoreInv
<1>2. Store!AsPromised
  BY StoreNoExcuseBefore DEF Store!StoreInv
<1> QED
  BY <1>1, <1>2, StorePromisedOpen, StorePromisedOpenTable, StorePromisedNewTable,
     StorePromisedBackup, StorePromisedDrop,
     StorePromisedCreate, StorePromisedReCreate, StorePromisedCopy, StorePromisedPoint,
     StorePromisedRedrop,
     StorePromisedRename, StorePromisedPlain, StorePromisedReopen, StorePromisedRevert,
     StorePromisedRepair,
     StorePromisedEvict, StorePromisedPrune, StorePromisedOpened, StorePromisedAdd,
     StorePromisedForce, StorePromisedCrash,
     StorePromisedPowerLoss, StorePromisedTtl, StorePromisedUnchanged
        DEF Store!Next, Store!Step

LEMMA StoreStoreInvImplies == Store!StoreInv => Store!NothingStranded
<1> SUFFICES ASSUME Store!StoreInv, storeOpening = None, storeExcuse = {},
                    NEW r \in 1 .. storeRowsUsed, r \notin storeWrittenOff
             PROVE  r \in Store!RowsIn(Store!Live \cup Store!Unnamed
                                         \cup {n \in DOMAIN storeDirs : n.kind = "backup"})
  BY DEF Store!NothingStranded
<1>1. PICK n \in DOMAIN storeDirs : Store!HomeOf(n) /\ r \in storeDirs[n].rows
  BY DEF Store!StoreInv, Store!AsPromised, Store!AllAtHome
<1>2. Store!LiveVector \in Store!Live /\ Store!Plain("bm25") \in Store!Live
  <2>1. /\ (IF storeManifest["vector"] = Store!NoName THEN Store!Plain("vector")
              ELSE storeManifest["vector"]) \in Store!Live
        /\ (IF storeManifest["bm25"] = Store!NoName THEN Store!Plain("bm25")
              ELSE storeManifest["bm25"]) \in Store!Live
    BY DEF Store!Live, Store!Mode
  <2> QED
    BY <2>1 DEF Store!LiveVector, Store!StoreInv, Store!AsPromised, Store!NamesKnow
<1>3. n \in Store!Live \cup Store!Unnamed \cup {k \in DOMAIN storeDirs : k.kind = "backup"}
  BY <1>1, <1>2 DEF Store!HomeOf, Store!Moving, Store!Unnamed
<1> QED
  BY <1>1, <1>3 DEF Store!RowsIn

(* No row of the store is stranded: whenever no open is running, every row *)
(* somebody promised to keep is in the table a manifest names or in a      *)
(* backup, or, once an open has ended between the rename of a migrated     *)
(* table and the save of its name, in the plain directory, where nothing   *)
(* that comes after takes it away: for any models, strategies, opens,      *)
(* sessions and faults, up to the four losses `excuse' names.              *)
THEOREM NothingLost == Store!Spec => []NothingStranded
<1>1. Store!Init => Store!StoreInv
  BY StoreTypedInit, StorePromisedInit DEF Store!StoreInv
<1>2. Store!StoreInv => NothingStranded
  BY StoreStoreInvImplies DEF NothingStranded, Store!NothingStranded
<1> QED
  BY <1>1, <1>2, StoreStoreStep, PTL DEF Store!Spec

-----------------------------------------------------------------------------
(* All of it, of the runs of the composition.                              *)
THEOREM Integrity ==
  AllSpec => /\ [](NothingStranded /\ GpuExclusive /\ StoppedMeansQuiet /\ WaitIsBounded /\ TornDownOnce)
             /\ [](NoComponentsLeak /\ OneLeader /\ AcknowledgedSurvives /\ InferenceUndisturbed)
             /\ PageNeverVanishes /\ SkipOnlyWhenCovered
BY Components, GpuExclusion, Quiet, Waits, TornDown, NoLeaks, OneServer, Acknowledged, NoneDisturbed,
   NothingLost, PagesStay, SkippedRightly, PTL
=============================================================================
