------------------------- MODULE CodeIndexProofs -------------------------
(***************************************************************************)
(* The type invariant of CodeIndex, for any files, projects, calls,        *)
(* batches and configurations, any number of files at a time, and any      *)
(* number of changes and outages.                                          *)
(***************************************************************************)
EXTENDS CodeIndex, TLAPS

-----------------------------------------------------------------------------
(* What the coroutines remember *)

LEMMA VersionsAre == Versions \subseteq Nat /\ 0 \notin Versions /\ Min(Versions) \in Versions
<1>1. PICK n \in Versions : Versions = 1..n
  BY VersionsAssumption
<1>2. n \in Nat
  BY VersionsAssumption
<1>3. 1 \in Versions /\ \A v \in Versions : 1 <= v
  BY <1>1, <1>2
<1>4. Min(Versions) \in Versions
  BY <1>3 DEF Min
<1> QED
  BY <1>1, <1>2, <1>4

LEMMA IdleType == Idle \in RunType
BY DEF Idle, RunType, Clients

LEMMA NoFileType == NoWork \in WorkType /\ NoFile \in [Files -> WorkType]
BY DEF NoWork, NoFile, WorkType, Clients

LEMMA RunStep ==
  ASSUME TypeOK, NEW r \in Runs, NEW rec \in RunType, Set(r, rec)
  PROVE  run' \in [Runs -> RunType]
BY DEF TypeOK, Set

LEMMA FileStepType ==
  ASSUME TypeOK, NEW r \in Runs, NEW f \in Files, NEW rec \in WorkType, SetFile(r, f, rec)
  PROVE  work' \in [Runs -> [Files -> WorkType]]
<1>1. [work[r] EXCEPT ![f] = rec] \in [Files -> WorkType]
  BY DEF TypeOK
<1> QED
  BY <1>1 DEF TypeOK, SetFile

LEMMA GraphClient ==
  ASSUME TypeOK, NEW r \in Runs
  PROVE  GetGraph(r) \in Clients
BY DEF TypeOK, GetGraph, RunType, Clients

LEMMA FinishedType ==
  ASSUME TypeOK, NEW r \in Runs
  PROVE  Finished(r) \in RunType
<1>1. run[r] \in RunType /\ Idle \in RunType
  BY IdleType DEF TypeOK
<1> HIDE DEF Idle
<1> QED
  BY <1>1 DEF Finished, RunType

LEMMA GoOnType ==
  ASSUME TypeOK, NEW r \in Runs, NEW left \in SUBSET Projects
  PROVE  GoOn(r, left) \in RunType
<1>1. run[r] \in RunType /\ Finished(r) \in RunType /\ GetGraph(r) \in Clients
  BY FinishedType, GraphClient DEF TypeOK
<1>2. [run[r] EXCEPT !.pc = "resolve", !.left = left, !.graph = GetGraph(r)] \in RunType
  BY <1>1 DEF RunType
<1>3. [run[r] EXCEPT !.pc = "reconcile", !.left = {}, !.indexed = FALSE,
                     !.graph = GetGraph(r)] \in RunType
  BY <1>1 DEF RunType
<1> QED
  BY <1>1, <1>2, <1>3 DEF GoOn

LEMMA NextProjectType ==
  ASSUME TypeOK, NEW r \in Runs
  PROVE  NextProject(r) \in RunType
<1>1. run[r].left \ {Current(r)} \in SUBSET Projects
  BY DEF TypeOK, RunType
<1> QED
  BY <1>1, GoOnType DEF NextProject

RunAndWork == run \in [Runs -> RunType] /\ work \in [Runs -> [Files -> WorkType]]

LEMMA BeginStep ==
  ASSUME TypeOK, NEW r \in Runs, NEW rec \in RunType, BeginIndex(r, rec)
  PROVE  RunAndWork'
<1> DEFINE found == {f \in Files : disk[f] # 0 /\ ProjectOf[f] \in rec.roots}
           begun == [rec EXCEPT !.pc = IF rec.force THEN "files" ELSE "load",
                                !.listed = found]
           queue == [f \in Files |->
                       IF f \in found THEN [NoWork EXCEPT !.pc = "waiting"] ELSE NoWork]
<1>1. Set(r, begun) /\ work' = [work EXCEPT ![r] = queue]
  BY DEF BeginIndex
<1>2. begun \in RunType
  BY DEF RunType
<1>3. queue \in [Files -> WorkType]
  BY DEF NoWork, WorkType, Clients
<1> HIDE DEF begun, queue
<1> QED
  BY <1>1, <1>2, <1>3, RunStep DEF RunAndWork, TypeOK

\* A step of one file.
LEMMA OneFileStep ==
  ASSUME TypeOK, NEW r \in Runs, NEW f \in Files, FileStep(r, f)
  PROVE  RunAndWork'
<1>0. /\ run[r] \in RunType /\ work[r][f] \in WorkType /\ NoWork \in WorkType
      /\ disk[f] \in Versions \cup {0} /\ RunAndWork
  BY NoFileType DEF TypeOK, RunAndWork
<1>a. ASSUME NEW rec \in WorkType, SetFile(r, f, rec), UNCHANGED run
      PROVE  RunAndWork'
  BY <1>0, <1>a, FileStepType DEF RunAndWork
<1>b. ASSUME NEW client \in Clients, FileIndexed(r, f, client)
      PROVE  RunAndWork'
  <2>1. [run[r] EXCEPT !.indexed = TRUE, !.graph = client] \in RunType
    BY <1>0 DEF RunType
  <2> QED
    BY <1>0, <1>b, <2>1, RunStep, FileStepType DEF FileIndexed, RunAndWork
<1>c. GetGraph(r) \in Clients
  BY GraphClient
<1>1. CASE ReadFile(r, f)
  <2>1. \/ SetFile(r, f, NoWork)
        \/ SetFile(r, f, [NoWork EXCEPT !.pc = "delete", !.content = disk[f]])
    BY <1>1 DEF ReadFile
  <2>2. [NoWork EXCEPT !.pc = "delete", !.content = disk[f]] \in WorkType
    BY <1>0 DEF WorkType
  <2>3. UNCHANGED run
    BY <1>1 DEF ReadFile
  <2> QED
    BY <1>0, <1>a, <2>1, <2>2, <2>3
<1>2. CASE DeleteOld(r, f)
  <2>1. [work[r][f] EXCEPT !.pc = "embed"] \in WorkType
    BY <1>0 DEF WorkType
  <2> QED
    BY <1>2, <1>a, <2>1 DEF DeleteOld
<1>3. CASE Embed(r, f)
  <2>1. \/ SetFile(r, f, NoWork)
        \/ SetFile(r, f, [work[r][f] EXCEPT !.pc = "upsert", !.part = 1, !.client = "open"])
        \/ SetFile(r, f, [work[r][f] EXCEPT !.pc = "clear"])
    BY <1>3 DEF Embed
  <2>2. /\ [work[r][f] EXCEPT !.pc = "upsert", !.part = 1, !.client = "open"] \in WorkType
        /\ [work[r][f] EXCEPT !.pc = "clear"] \in WorkType
    BY <1>0 DEF WorkType, Clients
  <2>3. UNCHANGED run
    BY <1>3 DEF Embed
  <2> QED
    BY <1>0, <1>a, <2>1, <2>2, <2>3
<1>4. CASE Upsert(r, f)
  <2>1. \/ SetFile(r, f, NoWork)
        \/ SetFile(r, f, [work[r][f] EXCEPT !.pc = "clear", !.part = 0, !.client = "none"])
        \/ SetFile(r, f, [work[r][f] EXCEPT !.part = @ + 1])
    BY <1>4 DEF Upsert, FileFails
  <2>2. /\ [work[r][f] EXCEPT !.pc = "clear", !.part = 0, !.client = "none"] \in WorkType
        /\ [work[r][f] EXCEPT !.part = @ + 1] \in WorkType
    <3>1. work[r][f].part + 1 \in Nat /\ "none" \in Clients
      BY <1>0 DEF WorkType, Clients
    <3>2. [work[r][f] EXCEPT !.pc = "clear", !.part = 0, !.client = "none"] \in WorkType
      BY <1>0, <3>1 DEF WorkType
    <3>3. [work[r][f] EXCEPT !.part = @ + 1] \in WorkType
      BY <1>0, <3>1 DEF WorkType
    <3> QED
      BY <3>2, <3>3
  <2>3. UNCHANGED run
    BY <1>4 DEF Upsert, FileFails
  <2> QED
    BY <1>0, <1>a, <2>1, <2>2, <2>3
<1>5. CASE ClearGraph(r, f)
  <2>1. CASE FileIndexed(r, f, GetGraph(r))
    BY <1>b, <1>c, <2>1
  <2>2. CASE /\ SetFile(r, f, [work[r][f] EXCEPT !.pc = "fill"])
             /\ Set(r, [run[r] EXCEPT !.graph = GetGraph(r)])
    <3>1. [work[r][f] EXCEPT !.pc = "fill"] \in WorkType
      BY <1>0 DEF WorkType
    <3>2. [run[r] EXCEPT !.graph = GetGraph(r)] \in RunType
      BY <1>0, <1>c DEF RunType
    <3> QED
      BY <2>2, <3>1, <3>2, RunStep, FileStepType DEF RunAndWork
  <2> QED
    BY <1>5, <2>1, <2>2 DEF ClearGraph
<1>6. CASE FillGraph(r, f)
  <2>1. run[r].graph \in Clients
    BY <1>0 DEF RunType
  <2> QED
    BY <1>6, <1>b, <2>1 DEF FillGraph
<1> QED
  BY <1>1, <1>2, <1>3, <1>4, <1>5, <1>6 DEF FileStep

\* A step of a run with none of its files.
LEMMA IndexRun ==
  ASSUME TypeOK, NEW r \in Runs, IndexStep(r)
  PROVE  RunAndWork'
<1>0. run[r] \in RunType /\ RunAndWork
  BY DEF TypeOK, RunAndWork
<1>a. ASSUME NEW rec \in RunType, Set(r, rec), UNCHANGED work
      PROVE  RunAndWork'
  BY <1>0, <1>a, RunStep DEF RunAndWork
<1>b. NextProject(r) \in RunType /\ Finished(r) \in RunType /\ GetGraph(r) \in Clients
  BY NextProjectType, FinishedType, GraphClient
<1>1. CASE LoadHashes(r)
  <2>1. PICK h \in [Files -> Versions \cup {0}] :
          Set(r, [run[r] EXCEPT !.pc = "files", !.hashes = h])
    BY <1>1 DEF LoadHashes
  <2>2. [run[r] EXCEPT !.pc = "files", !.hashes = h] \in RunType
    BY <1>0 DEF RunType
  <2>3. UNCHANGED work
    BY <1>1 DEF LoadHashes
  <2> QED
    BY <1>a, <2>1, <2>2, <2>3
<1>2. CASE FilesDone(r)
  <2>1. Resolved(r) \in SUBSET Projects
    BY <1>0, FilesAssumption DEF Resolved, RunType
  <2>2. PICK left \in SUBSET Projects : Set(r, GoOn(r, left))
    BY <1>2, <2>1 DEF FilesDone
  <2>3. GoOn(r, left) \in RunType
    BY GoOnType
  <2>4. UNCHANGED work
    BY <1>2 DEF FilesDone
  <2> QED
    BY <1>a, <2>2, <2>3, <2>4
<1>3. CASE CallsStep(r)
  <2>1. \/ Set(r, [run[r] EXCEPT !.pc = "connect"])
        \/ Set(r, [run[r] EXCEPT !.pc = "forget"])
        \/ Set(r, NextProject(r))
    BY <1>3 DEF CallsStep, DeleteCalls, ConnectCalls, ForgetPending
  <2>2. /\ [run[r] EXCEPT !.pc = "connect"] \in RunType
        /\ [run[r] EXCEPT !.pc = "forget"] \in RunType
    BY <1>0 DEF RunType
  <2>3. UNCHANGED work
    BY <1>3 DEF CallsStep, DeleteCalls, ConnectCalls, ForgetPending
  <2> QED
    BY <1>a, <1>b, <2>1, <2>2, <2>3
<1>4. CASE Reconcile(r)
  <2>1. \/ Set(r, Finished(r))
        \/ \E f \in Files : Set(r, [run[r] EXCEPT !.hashes[f] = 0, !.graph = GetGraph(r)])
    BY <1>4 DEF Reconcile, Gone
  <2>2. ASSUME NEW f \in Files
        PROVE  [run[r] EXCEPT !.hashes[f] = 0, !.graph = GetGraph(r)] \in RunType
    <3>1. [run[r].hashes EXCEPT ![f] = 0] \in [Files -> Versions \cup {0}]
      BY <1>0 DEF RunType
    <3> QED
      BY <1>0, <1>b, <3>1 DEF RunType
  <2>3. UNCHANGED work
    BY <1>4 DEF Reconcile
  <2> QED
    BY <1>a, <1>b, <2>1, <2>2, <2>3
<1> QED
  BY <1>1, <1>2, <1>3, <1>4, OneFileStep DEF IndexStep

LEMMA OtherRun ==
  ASSUME TypeOK, MonitorCycle \/ MonitorSyncs \/ MonitorPrunes \/ TriggerReindex
  PROVE  RunAndWork'
<1>0. /\ run["monitor"] \in RunType /\ "monitor" \in Runs /\ "reindex" \in Runs
      /\ OnDisk \subseteq Projects /\ cloned \subseteq Projects /\ configured \subseteq Projects
      /\ Idle \in RunType /\ RunAndWork
  BY IdleType DEF TypeOK, OnDisk, Runs, RunAndWork
<1>a. ASSUME NEW r \in Runs, NEW rec \in RunType,
             BeginIndex(r, rec) \/ (Set(r, rec) /\ UNCHANGED work)
      PROVE  RunAndWork'
  BY <1>0, <1>a, RunStep, BeginStep DEF RunAndWork
<1> HIDE DEF Idle
<1>1. CASE MonitorCycle
  <2> DEFINE cycle(synced, exists) ==
               [Idle EXCEPT !.pc = "finished", !.later = synced, !.named = OnDisk,
                            !.config = configured, !.existed = exists, !.qdrant = "open"]
             first(synced, exists) ==
               [cycle(synced, exists) EXCEPT !.force = TRUE, !.roots = OnDisk \ synced]
  <2>1. PICK synced \in SUBSET OnDisk, exists \in BOOLEAN :
          \/ BeginIndex("monitor", first(synced, exists))
          \/ Set("monitor", cycle(synced, exists)) /\ UNCHANGED work
    <3>1. (collection /\ Works("qdrant")) \in BOOLEAN
      BY DEF TypeOK, Works
    <3> QED
      BY <1>1, <3>1 DEF MonitorCycle
  <2>2. cycle(synced, exists) \in RunType
    BY <1>0 DEF RunType, Clients
  <2>3. first(synced, exists) \in RunType
    <3> HIDE DEF cycle
    <3> QED
      BY <1>0, <2>2 DEF RunType
  <2> HIDE DEF cycle, first
  <2> QED
    BY <1>0, <1>a, <2>1, <2>2, <2>3
<1>2. CASE MonitorSyncs
  <2> DEFINE cycle == [run["monitor"] EXCEPT !.later = {}]
             second == [cycle EXCEPT !.roots = run["monitor"].later]
  <2>1. \/ BeginIndex("monitor", second)
        \/ Set("monitor", cycle) /\ UNCHANGED work
    BY <1>2 DEF MonitorSyncs
  <2>2. cycle \in RunType /\ second \in RunType
    BY <1>0 DEF RunType
  <2> HIDE DEF cycle, second
  <2> QED
    BY <1>0, <1>a, <2>1, <2>2
<1>3. CASE MonitorPrunes
  BY <1>0, <1>3, <1>a DEF MonitorPrunes
<1>4. CASE TriggerReindex
  <2>1. [Idle EXCEPT !.roots = cloned, !.named = OnDisk] \in RunType
    BY <1>0 DEF RunType
  <2>2. \/ UNCHANGED <<run, work>>
        \/ BeginIndex("reindex", [Idle EXCEPT !.roots = cloned, !.named = OnDisk])
    BY <1>4 DEF TriggerReindex, StartReindex
  <2> QED
    BY <1>0, <1>a, <2>1, <2>2 DEF RunAndWork
<1> QED
  BY <1>1, <1>2, <1>3, <1>4

\* The health check closes clients.
LEMMA HealthRun ==
  ASSUME TypeOK, HealthCheck
  PROVE  RunAndWork'
<1>1. \A s : \A client \in Clients : Closed(s, client) \in Clients
  BY DEF Closed, Clients
<1>2. ASSUME NEW r \in Runs
      PROVE  [run[r] EXCEPT !.qdrant = Closed("qdrant", run[r].qdrant),
                            !.graph = Closed("memgraph", run[r].graph)] \in RunType
  <2>1. run[r] \in RunType
    BY DEF TypeOK
  <2> QED
    BY <1>1, <2>1 DEF RunType
<1>3. ASSUME NEW r \in Runs, NEW f \in Files
      PROVE  [work[r][f] EXCEPT !.client = Closed("qdrant", work[r][f].client)] \in WorkType
  <2>1. work[r][f] \in WorkType
    BY DEF TypeOK
  <2> QED
    BY <1>1, <2>1 DEF WorkType
<1> QED
  BY <1>2, <1>3 DEF HealthCheck, RunAndWork

-----------------------------------------------------------------------------
(* The graph *)

GraphType ==
  /\ nodes \in [Files -> Versions \cup {0}]
  /\ pending \subseteq Files
  /\ edges \subseteq Files \X Files

LEMMA GraphStep ==
  ASSUME TypeOK, NEW r \in Runs, IndexStep(r)
  PROVE  GraphType'
<1>0. GraphType
  BY DEF TypeOK, GraphType
<1>1. CASE UNCHANGED graphVars
  BY <1>0, <1>1 DEF graphVars, GraphType
<1>2. ASSUME NEW f \in Files, ClearGraph(r, f)
      PROVE  GraphType'
  BY <1>0, <1>1, <1>2 DEF ClearGraph, GraphType
<1>3. ASSUME NEW f \in Files, FillGraph(r, f)
      PROVE  GraphType'
  <2>1. work[r][f].content \in Versions \cup {0}
    BY DEF TypeOK, WorkType
  <2>2. nodes' = nodes \/ nodes' = [nodes EXCEPT ![f] = work[r][f].content]
    BY <1>3 DEF FillGraph
  <2>3. nodes' \in [Files -> Versions \cup {0}]
    BY <1>0, <2>1, <2>2 DEF GraphType
  <2>4. pending' \subseteq pending \cup {f} /\ UNCHANGED edges
    BY <1>3 DEF FillGraph
  <2> QED
    BY <1>0, <2>3, <2>4 DEF GraphType
<1>4. CASE CallsStep(r)
  <2>1. CallsOfAll(pending \cap Callers(r)) \subseteq Files \X Files
    BY <1>0, CallsAssumption DEF CallsOfAll, CallsOf, GraphType
  <2>2. edges' \subseteq edges \cup CallsOfAll(pending \cap Callers(r))
    BY <1>4 DEF CallsStep, DeleteCalls, ConnectCalls, ForgetPending
  <2>3. pending' \subseteq pending /\ UNCHANGED nodes
    BY <1>4 DEF CallsStep, DeleteCalls, ConnectCalls, ForgetPending
  <2> QED
    BY <1>0, <2>1, <2>2, <2>3 DEF GraphType
<1>5. CASE Reconcile(r)
  BY <1>0, <1>1, <1>5 DEF Reconcile, ClearFile, GraphType
<1> QED
  BY <1>1, <1>2, <1>3, <1>4, <1>5
     DEF IndexStep, FileStep, LoadHashes, FilesDone, ReadFile, DeleteOld, Embed, Upsert

-----------------------------------------------------------------------------
(* The rest of the type invariant *)

\* Points keep their type in every step that writes or deletes some.
LEMMA PointsStep ==
  ASSUME TypeOK, Monitor \/ Reindex
  PROVE  points' \in [Files \X Parts -> Versions \cup {0}] /\ collection' \in BOOLEAN
<1>0. points \in [Files \X Parts -> Versions \cup {0}] /\ collection \in BOOLEAN
  BY DEF TypeOK
<1>1. ASSUME NEW f
      PROVE  DeleteDocs(f) => points' \in [Files \X Parts -> Versions \cup {0}]
  <2>1. Without(f) \in [Files \X Parts -> Versions \cup {0}]
    BY <1>0 DEF Without
  <2> QED
    BY <1>0, <2>1 DEF DeleteDocs
<1>2. ASSUME NEW r \in Runs, NEW f \in Files, Upsert(r, f)
      PROVE  points' \in [Files \X Parts -> Versions \cup {0}] /\ collection' \in BOOLEAN
  <2>1. work[r][f].content \in Versions \cup {0}
    BY DEF TypeOK, WorkType
  <2>2. \/ UNCHANGED <<points, collection>>
        \/ /\ \E x : points' = [points EXCEPT ![x] = work[r][f].content]
           /\ collection' = TRUE
    BY <1>2 DEF Upsert, storeVars
  <2> QED
    BY <1>0, <2>1, <2>2
<1>3. ASSUME NEW r \in Runs, NEW f \in Files, FileStep(r, f)
      PROVE  points' \in [Files \X Parts -> Versions \cup {0}] /\ collection' \in BOOLEAN
  BY <1>0, <1>1, <1>2, <1>3 DEF FileStep, ReadFile, DeleteOld, Embed, ClearGraph, FillGraph,
     storeVars
<1>4. ASSUME NEW r \in Runs, IndexStep(r)
      PROVE  points' \in [Files \X Parts -> Versions \cup {0}] /\ collection' \in BOOLEAN
  BY <1>0, <1>1, <1>3, <1>4 DEF IndexStep, LoadHashes, FilesDone, CallsStep, DeleteCalls,
     ConnectCalls, ForgetPending, Reconcile, storeVars
<1>5. CASE MonitorCycle \/ MonitorSyncs \/ MonitorPrunes
  BY <1>0, <1>5 DEF MonitorCycle, MonitorSyncs, MonitorPrunes, storeVars
<1> QED
  BY <1>4, <1>5 DEF Monitor, Reindex, Runs

WorldType ==
  /\ upstream \in [Files -> Versions \cup {0}]
  /\ disk \in [Files -> Versions \cup {0}]
  /\ cloned \subseteq Projects
  /\ configured \subseteq Projects
  /\ sync \in [pc: {"clone", "pull", "trigger"}, changed: BOOLEAN]
  /\ up \subseteq Services /\ conn \subseteq Services
  /\ changes \in 0..MaxChanges /\ outages \in 0..MaxOutages

LEMMA WorldStep ==
  ASSUME TypeOK, Next
  PROVE  WorldType'
<1>0. WorldType
  BY DEF TypeOK, WorldType
<1>1. CASE Monitor \/ Reindex
  <2>1. ASSUME NEW r \in Runs, NEW f \in Files, FileStep(r, f)
        PROVE  UNCHANGED <<worldVars, disk, serviceVars>>
    BY <2>1 DEF FileStep, ReadFile, DeleteOld, Embed, Upsert, ClearGraph, FillGraph
  <2>2. ASSUME NEW r \in Runs, IndexStep(r)
        PROVE  UNCHANGED <<worldVars, disk, serviceVars>>
    BY <2>1, <2>2 DEF IndexStep, LoadHashes, FilesDone, CallsStep, DeleteCalls, ConnectCalls,
       ForgetPending, Reconcile
  <2>3. UNCHANGED <<worldVars, disk, serviceVars>>
    BY <1>1, <2>2 DEF Monitor, Reindex, Runs, MonitorCycle, MonitorSyncs, MonitorPrunes
  <2> QED
    BY <1>0, <2>3 DEF WorldType, worldVars, serviceVars
<1>2. ASSUME NEW ps \in SUBSET Projects, Refresh(ps)
      PROVE  disk' \in [Files -> Versions \cup {0}]
  BY <1>0, <1>2 DEF Refresh, WorldType
<1>3. CASE CloneRepos
  <2>1. PICK ps \in SUBSET configured :
          Refresh(ps) /\ cloned' = cloned \cup ps /\ sync' = [pc |-> "pull", changed |-> ps # {}]
    BY <1>3 DEF CloneRepos
  <2>2. ps \in SUBSET Projects
    BY <1>0, <2>1 DEF WorldType
  <2> QED
    BY <1>0, <1>2, <1>3, <2>1, <2>2 DEF CloneRepos, WorldType, serviceVars
<1>4. CASE PullSourceRepos
  <2>1. PICK ps \in SUBSET configured :
          /\ Refresh(ps)
          /\ \/ sync' = [pc |-> "trigger", changed |-> TRUE]
             \/ sync' = [pc |-> "clone", changed |-> FALSE]
    BY <1>4 DEF PullSourceRepos
  <2>2. ps \in SUBSET Projects
    BY <1>0, <2>1 DEF WorldType
  <2> QED
    BY <1>0, <1>2, <1>4, <2>1, <2>2 DEF PullSourceRepos, WorldType, serviceVars
<1>5. CASE TriggerReindex
  BY <1>0, <1>5 DEF TriggerReindex, WorldType, serviceVars
<1>6. CASE Change
  BY <1>0, <1>6, ConfigAssumption, BoundsAssumption DEF Change, WorldType, serviceVars
<1>7. CASE Outage \/ Recover
  BY <1>0, <1>7, BoundsAssumption DEF Outage, Recover, WorldType, worldVars
<1>8. CASE HealthCheck
  <2>1. conn' = up /\ UNCHANGED <<worldVars, disk, up, outages>>
    BY <1>8 DEF HealthCheck
  <2> QED
    BY <1>0, <2>1 DEF WorldType, worldVars
<1> QED
  BY <1>1, <1>3, <1>4, <1>5, <1>6, <1>7, <1>8 DEF Next, Sidecar

-----------------------------------------------------------------------------
(* The invariant *)

LEMMA InitType == Init => TypeOK
<1> SUFFICES ASSUME Init
             PROVE  TypeOK
  OBVIOUS
<1>1. Min(Versions) \in Versions
  BY VersionsAre
<1>2. WorldType
  BY <1>1, ConfigAssumption, BoundsAssumption DEF Init, WorldType
<1>3. RunAndWork
  BY IdleType, NoFileType DEF Init, RunAndWork
<1>4. GraphType
  BY DEF Init, GraphType
<1>5. points \in [Files \X Parts -> Versions \cup {0}] /\ collection \in BOOLEAN
  BY DEF Init
<1> QED
  BY <1>2, <1>3, <1>4, <1>5 DEF TypeOK, WorldType, RunAndWork, GraphType

LEMMA StepType == TypeOK /\ [Next]_vars => TypeOK'
<1> SUFFICES ASSUME TypeOK, [Next]_vars
             PROVE  TypeOK'
  OBVIOUS
<1>0. GraphType /\ RunAndWork
  BY DEF TypeOK, GraphType, RunAndWork
<1>1. CASE Next
  <2>1. RunAndWork'
    <3>1. CASE Change \/ Outage \/ Recover \/ CloneRepos \/ PullSourceRepos
      BY <1>0, <3>1 DEF Change, Outage, Recover, CloneRepos, PullSourceRepos, RunAndWork
    <3> QED
      BY <1>1, <3>1, IndexRun, OtherRun, HealthRun DEF Next, Monitor, Reindex, Sidecar, Runs
  <2>2. GraphType'
    <3>1. CASE UNCHANGED graphVars
      BY <1>0, <3>1 DEF graphVars, GraphType
    <3>2. \/ UNCHANGED graphVars
          \/ \E r \in Runs : IndexStep(r)
      BY <1>1 DEF Next, Monitor, Reindex, Sidecar, Runs, Change, Outage, Recover, HealthCheck,
         CloneRepos, PullSourceRepos, TriggerReindex, MonitorCycle, MonitorSyncs, MonitorPrunes
    <3> QED
      BY <3>1, <3>2, GraphStep
  <2>3. points' \in [Files \X Parts -> Versions \cup {0}] /\ collection' \in BOOLEAN
    <3>1. CASE Sidecar \/ Change \/ Outage \/ Recover \/ HealthCheck
      BY <3>1 DEF Sidecar, CloneRepos, PullSourceRepos, TriggerReindex, Change, Outage,
         Recover, HealthCheck, storeVars, TypeOK
    <3> QED
      BY <1>1, <3>1, PointsStep DEF Next
  <2>4. WorldType'
    BY <1>1, WorldStep
  <2> QED
    BY <2>1, <2>2, <2>3, <2>4 DEF RunAndWork, GraphType, WorldType, TypeOK
<1>2. CASE UNCHANGED vars
  BY <1>2 DEF vars, worldVars, storeVars, graphVars, serviceVars, TypeOK
<1> QED
  BY <1>1, <1>2

\* Index, graph, sidecar, the coroutines of monitor and reindex and the files
\* they have at hand are what the code takes them for, however they interleave
\* and whatever is down.
THEOREM TypeCorrect == Spec => []TypeOK
BY InitType, StepType, PTL DEF Spec
=============================================================================
