---------------------------- MODULE CodeIndex ----------------------------
(***************************************************************************)
(* The index of the workspace: the sidecar that clones and pulls the       *)
(* repositories (workspace-sync/sync.py), the monitor loop and the reindex *)
(* endpoint of the server (app.py), the indexer they both run              *)
(* (workspace_indexer.py), the call graph (memgraph_client.py) and the     *)
(* connections with their health check (backends.py).  Qdrant, Memgraph    *)
(* and the embedding server go down and come back; a call succeeds if the  *)
(* server holds a client and the service is up.                            *)
(*                                                                         *)
(* A file has a version (0: it is not there); the points a version is      *)
(* stored as go to Qdrant in batches.  Calls between files stand for calls *)
(* between the functions of the files, whatever their version.             *)
(***************************************************************************)
EXTENDS Naturals, FiniteSets, FiniteSetsExt

CONSTANTS
  Files, Projects,
  ProjectOf,        \* [Files -> Projects], by the directory the file is in
  Source,           \* projects of type "source", which the sidecar pulls
  Hyphened,         \* projects with a hyphen in their name
  Configurations,   \* sets of projects that config.toml may list
  FirstConfig,      \* the one the server starts with
  Failing,          \* the services that may go down
  Versions,         \* 1..n
  Batches,          \* [Versions -> Nat \ {0}], batches of 100 points
  HasFunctions,     \* versions in which the parser finds functions
  Calls,            \* [Files -> SUBSET Files], whom a file's functions call
  Workers,          \* files of a run that are indexed at a time
  MaxChanges,       \* bound: commits, edits and configurations
  MaxOutages        \* bound: how often a service goes down

ASSUME FilesAssumption == Files # {} /\ ProjectOf \in [Files -> Projects]
ASSUME ConfigAssumption ==
  FirstConfig \subseteq Projects /\ Configurations \subseteq SUBSET Projects
ASSUME VersionsAssumption ==
  /\ Versions \subseteq Nat /\ \E n \in Versions : Versions = 1..n
  /\ Batches \in [Versions -> Nat \ {0}]
  /\ HasFunctions \subseteq Versions
ASSUME CallsAssumption == Calls \in [Files -> SUBSET Files]
ASSUME WorkersAssumption == Workers \in Nat \ {0}
ASSUME BoundsAssumption == MaxChanges \in Nat /\ MaxOutages \in Nat

Services == {"qdrant", "memgraph", "embedding"}
Runs     == {"monitor", "reindex"}
Parts    == 1..Max({Batches[v] : v \in Versions})

VARIABLES
  upstream,         \* file -> version in the remote repository
  disk,             \* file -> version in the workspace, 0 if absent
  cloned,           \* projects whose directory exists
  configured,       \* config.toml, read anew in every cycle
  sync,             \* the sidecar: [pc, changed]
  collection,       \* the Qdrant collection exists
  points,           \* <<file, part>> -> the version stored, 0 if none
  nodes,            \* file -> version whose functions the graph has, 0 if none
  pending,          \* files whose functions have _pending_calls
  edges,            \* <<caller file, callee file>>
  up,               \* services that answer
  conn,             \* services BackendClients holds a client of
  run,              \* Runs -> the state of the coroutine
  work,             \* Runs -> Files -> the state of _index_one
  changes, outages

worldVars == <<upstream, cloned, configured, sync, changes>>
graphVars == <<nodes, pending, edges>>
storeVars == <<collection, points>>
serviceVars == <<up, conn, outages>>
vars == <<worldVars, disk, storeVars, graphVars, serviceVars, run, work>>

\* What one coroutine remembers: the roots it walks and those it walks next, the
\* projects of its project_map, the configuration it read, the files it found, the
\* hashes it loaded, whether any file was indexed, the projects whose calls are left
\* to resolve; and the clients it took, Qdrant's at the start of a cycle and
\* Memgraph's when it was first needed, which the health check may close behind its
\* back.
Idle == [pc |-> "idle", force |-> FALSE, roots |-> {}, later |-> {}, named |-> {},
         config |-> {}, existed |-> FALSE, listed |-> {}, hashes |-> [f \in Files |-> 0],
         indexed |-> FALSE, left |-> {}, qdrant |-> "none", graph |-> "none"]

\* A file at hand, with the content read from it and the client its points go to.
NoWork == [pc |-> "none", content |-> 0, part |-> 0, client |-> "none"]
NoFile == [f \in Files |-> NoWork]

Works(s)  == s \in up /\ s \in conn
Available == {"qdrant", "embedding"} \subseteq conn

Stored(f) == {points[f, p] : p \in Parts} \ {0}
OnDisk    == {p \in configured : p \in cloned}

Set(r, rec) == run' = [run EXCEPT ![r] = rec]
SetFile(r, f, rec) == work' = [work EXCEPT ![r][f] = rec]

\* index_paths is through, what was local to it is forgotten.  For the reindex
\* endpoint that is the end.
Finished(r) ==
  IF r = "reindex" THEN Idle
  ELSE [Idle EXCEPT !.pc = "finished", !.later = run[r].later, !.named = run[r].named,
                    !.config = run[r].config, !.existed = run[r].existed,
                    !.qdrant = run[r].qdrant]

\* The result of _index_one: it ended with an error or was indexed.
FileFails(r, f) == SetFile(r, f, NoWork) /\ UNCHANGED run
FileIndexed(r, f, client) ==
  /\ SetFile(r, f, NoWork)
  /\ Set(r, [run[r] EXCEPT !.indexed = TRUE, !.graph = client])

-----------------------------------------------------------------------------
\* The indexer, for the run r.

\* index_paths begins with the record rec: the walk, up to the first await.
BeginIndex(r, rec) ==
  LET found == {f \in Files : disk[f] # 0 /\ ProjectOf[f] \in rec.roots}
  IN  /\ Set(r, [rec EXCEPT !.pc = IF rec.force THEN "files" ELSE "load",
                            !.listed = found])
      /\ work' = [work EXCEPT ![r] =
           [f \in Files |->
              IF f \in found THEN [NoWork EXCEPT !.pc = "waiting"] ELSE NoWork]]

\* The hash of a file is that of whichever of its points the scroll gives last,
\* of all files of all projects; an error leaves none.
LoadHashes(r) ==
  /\ run[r].pc = "load"
  /\ \E h \in [Files -> Versions \cup {0}] :
       /\ \A f \in Files :
            IF Works("qdrant") /\ Stored(f) # {}
            THEN h[f] \in Stored(f) ELSE h[f] = 0
       /\ Set(r, [run[r] EXCEPT !.pc = "files", !.hashes = h])
  /\ UNCHANGED <<worldVars, disk, storeVars, graphVars, serviceVars, work>>

\* The files that hold a place of the semaphore.
AtWork(r) == {f \in Files : work[r][f].pc \notin {"none", "waiting"}}

\* _index_file up to its first await: an unreadable file is an error, one whose
\* hash is known is skipped.
ReadFile(r, f) ==
  /\ run[r].pc = "files"
  /\ work[r][f].pc = "waiting"
  /\ Cardinality(AtWork(r)) < Workers
  /\ LET skipped == disk[f] = 0
                      \/ (~run[r].force /\ run[r].hashes[f] = disk[f])
     IN  SetFile(r, f, IF skipped THEN NoWork
                       ELSE [NoWork EXCEPT !.pc = "delete", !.content = disk[f]])
  /\ UNCHANGED <<worldVars, disk, storeVars, graphVars, serviceVars, run>>

Without(f) == [x \in Files \X Parts |-> IF x[1] = f THEN 0 ELSE points[x]]

\* _delete_file_docs: an error is only logged.
DeleteDocs(f) == points' = IF Works("qdrant") THEN Without(f) ELSE points

DeleteOld(r, f) ==
  /\ work[r][f].pc = "delete"
  /\ DeleteDocs(f)
  /\ SetFile(r, f, [work[r][f] EXCEPT !.pc = "embed"])
  /\ UNCHANGED <<worldVars, disk, collection, graphVars, serviceVars, run>>

\* An embedding that fails ends the file, whose points are deleted by then.  As
\* soon as it has succeeded the client for the points is taken; without one none
\* is stored and nothing said.
Embed(r, f) ==
  /\ work[r][f].pc = "embed"
  /\ SetFile(r, f, IF ~Works("embedding") THEN NoWork
                   ELSE IF "qdrant" \in conn
                   THEN [work[r][f] EXCEPT !.pc = "upsert", !.part = 1, !.client = "open"]
                   ELSE [work[r][f] EXCEPT !.pc = "clear"])
  /\ UNCHANGED <<worldVars, disk, storeVars, graphVars, serviceVars, run>>

\* One batch after the other; when the service is down or the client closed, the
\* file ends where it is.
Upsert(r, f) ==
  /\ work[r][f].pc = "upsert"
  /\ IF "qdrant" \in up /\ work[r][f].client = "open"
     THEN LET last == work[r][f].part = Batches[work[r][f].content]
          IN  /\ points' = [points EXCEPT ![<<f, work[r][f].part>>] = work[r][f].content]
              /\ collection' = TRUE
              /\ SetFile(r, f,
                   IF last
                   THEN [work[r][f] EXCEPT !.pc = "clear", !.part = 0, !.client = "none"]
                   ELSE [work[r][f] EXCEPT !.part = @ + 1])
              /\ UNCHANGED run
     ELSE FileFails(r, f) /\ UNCHANGED storeVars
  /\ UNCHANGED <<worldVars, disk, graphVars, serviceVars>>

\* _get_graph: the first driver it finds is kept for as long as the indexer lives.
GetGraph(r) ==
  IF run[r].graph = "none" /\ "memgraph" \in conn THEN "open" ELSE run[r].graph
GraphWorks(r) == GetGraph(r) = "open" /\ "memgraph" \in up

Touching(f) == {e \in edges : f \in {e[1], e[2]}}

\* index_file_graph begins: the old functions go with their edges.  A file
\* without functions leaves the graph alone; an error is only logged, and the
\* file counts as indexed.
ClearGraph(r, f) ==
  /\ work[r][f].pc = "clear"
  /\ IF work[r][f].content \in HasFunctions /\ GraphWorks(r)
     THEN /\ nodes' = [nodes EXCEPT ![f] = 0]
          /\ edges' = edges \ Touching(f)
          /\ pending' = pending \ {f}
          /\ SetFile(r, f, [work[r][f] EXCEPT !.pc = "fill"])
          /\ Set(r, [run[r] EXCEPT !.graph = GetGraph(r)])
     ELSE FileIndexed(r, f, GetGraph(r)) /\ UNCHANGED graphVars
  /\ UNCHANGED <<worldVars, disk, storeVars, serviceVars>>

\* The new functions come, with the calls still to be resolved; when that fails,
\* none or some, and some of the calls or none.
FillGraph(r, f) ==
  /\ work[r][f].pc = "fill"
  /\ LET version == work[r][f].content
         calls   == IF Calls[f] # {} THEN pending \cup {f} ELSE pending
     IN  \/ /\ GraphWorks(r)
            /\ nodes' = [nodes EXCEPT ![f] = version]
            /\ pending' = calls
         \/ /\ ~GraphWorks(r)
            /\ UNCHANGED <<nodes, pending>>
         \/ /\ ~GraphWorks(r)
            /\ nodes' = [nodes EXCEPT ![f] = version]
            /\ pending' \in {pending, calls}
  /\ FileIndexed(r, f, run[r].graph)
  /\ UNCHANGED <<worldVars, disk, storeVars, edges, serviceVars>>

\* The projects whose calls are resolved: all of the project_map, or those of the
\* files; under the name the configuration gives them, which is not the one
\* stored with the functions if it has a hyphen.
Resolved(r) ==
  IF run[r].named # {} THEN run[r].named \ Hyphened
  ELSE {ProjectOf[f] : f \in run[r].listed}

\* The calls of the other projects are next, or what follows the calls.
GoOn(r, left) ==
  IF left # {} THEN [run[r] EXCEPT !.pc = "resolve", !.left = left, !.graph = GetGraph(r)]
  ELSE IF run[r].force THEN Finished(r)
  ELSE [run[r] EXCEPT !.pc = "reconcile", !.left = {}, !.indexed = FALSE,
                      !.graph = GetGraph(r)]

\* gather: all files are through.
FilesDone(r) ==
  /\ run[r].pc = "files"
  /\ work[r] = NoFile
  /\ Set(r, GoOn(r, IF run[r].indexed /\ GetGraph(r) # "none" THEN Resolved(r) ELSE {}))
  /\ UNCHANGED <<worldVars, disk, storeVars, graphVars, serviceVars, work>>

\* The project whose calls are resolved now, its files, and the projects after it.
Current(r) == CHOOSE p \in run[r].left : TRUE
Callers(r) == {f \in Files : ProjectOf[f] = Current(r)}
NextProject(r) == GoOn(r, run[r].left \ {Current(r)})

\* resolve_project_calls, first query: every edge of the project's callers goes.
DeleteCalls(r) ==
  /\ run[r].pc = "resolve"
  /\ IF GraphWorks(r)
     THEN /\ edges' = {e \in edges : e[1] \notin Callers(r)}
          /\ Set(r, [run[r] EXCEPT !.pc = "connect"])
     ELSE Set(r, NextProject(r)) /\ UNCHANGED edges
  /\ UNCHANGED <<worldVars, disk, storeVars, nodes, pending, serviceVars, work>>

CallsOf(f) ==
  {<<f, g>> : g \in {g \in Calls[f] : nodes[g] # 0 /\ ProjectOf[g] = ProjectOf[f]}}

\* The calls of these files to functions that are there.
CallsOfAll(fs) == UNION {CallsOf(f) : f \in fs}

\* Second query: an edge for each pending call to a function that is there.
ConnectCalls(r) ==
  /\ run[r].pc = "connect"
  /\ IF GraphWorks(r)
     THEN /\ edges' = edges \cup CallsOfAll(pending \cap Callers(r))
          /\ Set(r, [run[r] EXCEPT !.pc = "forget"])
     ELSE Set(r, NextProject(r)) /\ UNCHANGED edges
  /\ UNCHANGED <<worldVars, disk, storeVars, nodes, pending, serviceVars, work>>

\* Third query: nothing is pending any more.
ForgetPending(r) ==
  /\ run[r].pc = "forget"
  /\ pending' = IF GraphWorks(r) THEN pending \ Callers(r) ELSE pending
  /\ Set(r, NextProject(r))
  /\ UNCHANGED <<worldVars, disk, storeVars, nodes, edges, serviceVars, work>>

Gone(r) == {f \in Files : run[r].hashes[f] # 0} \ run[r].listed

\* clear_file.
ClearFile(r, f) ==
  IF GraphWorks(r)
  THEN /\ nodes' = [nodes EXCEPT ![f] = 0]
       /\ edges' = edges \ Touching(f)
       /\ pending' = pending \ {f}
  ELSE UNCHANGED graphVars

\* For the mutants: no reconciliation.
ReconcileNothing(r) ==
  /\ run[r].pc = "reconcile"
  /\ Set(r, Finished(r))
  /\ UNCHANGED <<worldVars, disk, storeVars, graphVars, serviceVars, work>>

\* _reconcile_deleted: every file that has a hash and was not found, one by one.
Reconcile(r) ==
  /\ run[r].pc = "reconcile"
  /\ IF Gone(r) = {}
     THEN /\ Set(r, Finished(r))
          /\ UNCHANGED <<points, graphVars>>
     ELSE \E f \in Gone(r) :
            /\ DeleteDocs(f)
            /\ ClearFile(r, f)
            /\ Set(r, [run[r] EXCEPT !.hashes[f] = 0, !.graph = GetGraph(r)])
  /\ UNCHANGED <<worldVars, disk, collection, serviceVars, work>>

FileStep(r, f) ==
  \/ ReadFile(r, f) \/ DeleteOld(r, f) \/ Embed(r, f) \/ Upsert(r, f)
  \/ ClearGraph(r, f) \/ FillGraph(r, f)

CallsStep(r) == DeleteCalls(r) \/ ConnectCalls(r) \/ ForgetPending(r)

IndexStep(r) ==
  \/ LoadHashes(r) \/ FilesDone(r) \/ CallsStep(r) \/ Reconcile(r)
  \/ \E f \in Files : FileStep(r, f)

-----------------------------------------------------------------------------
\* The monitor loop: projects without data are indexed whole, then those with
\* data by their hashes, then the data of projects no longer listed goes.

HasData(p) == \E f \in Files : ProjectOf[f] = p /\ Stored(f) # {}

MonitorCycle ==
  /\ run["monitor"].pc = "idle"
  /\ Available /\ configured # {}
  /\ LET exists == collection /\ Works("qdrant")
         synced == {p \in OnDisk : exists /\ HasData(p)}
         cycle  == [Idle EXCEPT !.pc = "finished", !.later = synced, !.named = OnDisk,
                                !.config = configured, !.existed = exists,
                                !.qdrant = "open"]
     IN  IF OnDisk # synced
         THEN BeginIndex("monitor",
                         [cycle EXCEPT !.force = TRUE, !.roots = OnDisk \ synced])
         ELSE Set("monitor", cycle) /\ UNCHANGED work
  /\ UNCHANGED <<worldVars, disk, storeVars, graphVars, serviceVars>>

\* Without Qdrant or the embedding server the indexer returns at once.
MonitorSyncs ==
  /\ run["monitor"].pc = "finished"
  /\ run["monitor"].later # {}
  /\ LET cycle == [run["monitor"] EXCEPT !.later = {}]
     IN  IF Available
         THEN BeginIndex("monitor", [cycle EXCEPT !.roots = run["monitor"].later])
         ELSE Set("monitor", cycle) /\ UNCHANGED work
  /\ UNCHANGED <<worldVars, disk, storeVars, graphVars, serviceVars>>

\* _get_indexed_project_names and _remove_project_data, with the client of the
\* cycle's start and the configuration it read; errors are logged.
MonitorPrunes ==
  /\ run["monitor"].pc = "finished"
  /\ run["monitor"].later = {}
  /\ points' = IF run["monitor"].existed /\ run["monitor"].qdrant = "open"
                    /\ "qdrant" \in up
               THEN [x \in Files \X Parts |->
                       IF ProjectOf[x[1]] \in run["monitor"].config THEN points[x] ELSE 0]
               ELSE points
  /\ Set("monitor", Idle)
  /\ UNCHANGED <<worldVars, disk, collection, graphVars, serviceVars, work>>

Monitor == MonitorCycle \/ MonitorSyncs \/ MonitorPrunes \/ IndexStep("monitor")

\* /workspace/reindex: everything under the base paths, by the hashes.
StartReindex ==
  Available /\ BeginIndex("reindex", [Idle EXCEPT !.roots = cloned, !.named = OnDisk])

Reindex == IndexStep("reindex")

-----------------------------------------------------------------------------
\* The sidecar: clone what is missing, pull what is a source, and tell the
\* server when anything changed.  A git command may fail.

Refresh(ps) ==
  disk' = [f \in Files |-> IF ProjectOf[f] \in ps THEN upstream[f] ELSE disk[f]]

CloneRepos ==
  /\ sync.pc = "clone" /\ configured # {}
  /\ \E ps \in SUBSET (configured \ cloned) :
       /\ Refresh(ps)
       /\ cloned' = cloned \cup ps
       /\ sync' = [pc |-> "pull", changed |-> ps # {}]
  /\ UNCHANGED <<upstream, configured, changes, storeVars, graphVars, serviceVars,
                 run, work>>

PullSourceRepos ==
  /\ sync.pc = "pull"
  /\ \E ps \in SUBSET (configured \cap cloned \cap Source) :
       /\ Refresh(ps)
       /\ sync' = IF sync.changed \/ disk' # disk
                  THEN [pc |-> "trigger", changed |-> TRUE]
                  ELSE [pc |-> "clone", changed |-> FALSE]
  /\ UNCHANGED <<upstream, cloned, configured, changes, storeVars, graphVars,
                 serviceVars, run, work>>

\* The request is lost if the server does not answer, or cannot index; nobody sends
\* it again.
\* Bound: one reindex request at a time.
TriggerReindex ==
  /\ sync.pc = "trigger"
  /\ sync' = [pc |-> "clone", changed |-> FALSE]
  /\ \/ run["reindex"].pc = "idle" /\ StartReindex
     \/ UNCHANGED <<run, work>>
  /\ UNCHANGED <<upstream, cloned, configured, changes, disk, storeVars, graphVars,
                 serviceVars>>

Sidecar == CloneRepos \/ PullSourceRepos \/ TriggerReindex

-----------------------------------------------------------------------------
\* The world: commits, the edits of agents in repositories they manage, the
\* configuration, and the services.

Change ==
  /\ changes < MaxChanges
  /\ changes' = changes + 1
  /\ \/ \E f \in Files : \E v \in (Versions \cup {0}) \ {upstream[f]} :
          /\ ProjectOf[f] \in Source
          /\ upstream' = [upstream EXCEPT ![f] = v]
          /\ UNCHANGED <<disk, configured>>
     \/ \E f \in Files : \E v \in (Versions \cup {0}) \ {disk[f]} :
          /\ ProjectOf[f] \in cloned \ Source
          /\ disk' = [disk EXCEPT ![f] = v]
          /\ UNCHANGED <<upstream, configured>>
     \/ \E c \in Configurations \ {configured} :
          /\ configured' = c
          /\ UNCHANGED <<upstream, disk>>
  /\ UNCHANGED <<cloned, sync, storeVars, graphVars, serviceVars, run, work>>

Outage ==
  /\ outages < MaxOutages
  /\ outages' = outages + 1
  /\ \E s \in up \cap Failing : up' = up \ {s}
  /\ UNCHANGED <<worldVars, disk, storeVars, graphVars, conn, run, work>>

Recover ==
  /\ up # Services
  /\ up' = Services
  /\ UNCHANGED <<worldVars, disk, storeVars, graphVars, conn, outages, run, work>>

Closed(s, client) == IF s \in conn \ up /\ client = "open" THEN "closed" ELSE client

\* health_check: a client whose ping fails is closed and dropped, a new one is kept
\* if its first ping succeeds; without a model the embedding server counts as down.
HealthCheck ==
  /\ conn # up
  /\ conn' = up
  /\ run' = [r \in Runs |->
       [run[r] EXCEPT !.qdrant = Closed("qdrant", run[r].qdrant),
                      !.graph = Closed("memgraph", run[r].graph)]]
  /\ work' = [r \in Runs |-> [f \in Files |->
       [work[r][f] EXCEPT !.client = Closed("qdrant", work[r][f].client)]]]
  /\ UNCHANGED <<worldVars, disk, storeVars, graphVars, up, outages>>

-----------------------------------------------------------------------------
\* initialize: what was down when the server started has no client.
Init ==
  /\ upstream = [f \in Files |-> Min(Versions)]
  /\ disk = [f \in Files |-> 0]
  /\ cloned = {}
  /\ configured = FirstConfig
  /\ sync = [pc |-> "clone", changed |-> FALSE]
  /\ collection = FALSE
  /\ points = [x \in Files \X Parts |-> 0]
  /\ nodes = [f \in Files |-> 0]
  /\ pending = {}
  /\ edges = {}
  /\ up = Services
  /\ conn = Services
  /\ run = [r \in Runs |-> Idle]
  /\ work = [r \in Runs |-> NoFile]
  /\ changes = 0
  /\ outages = 0

Next == Monitor \/ Reindex \/ Sidecar \/ Change \/ Outage \/ Recover \/ HealthCheck

\* The loops of the monitor and of the health check never end, the calls of the
\* indexer have timeouts, and the sidecar runs for ever; a clone and a pull that
\* can succeed do in the end, and so do the services.
Spec ==
  /\ Init /\ [][Next]_vars
  /\ WF_vars(Monitor) /\ WF_vars(Reindex) /\ WF_vars(HealthCheck) /\ WF_vars(Recover)
  /\ WF_vars(Sidecar)
  /\ SF_vars(CloneRepos /\ configured \subseteq cloned')

-----------------------------------------------------------------------------
Clients == {"none", "open", "closed"}

RunType ==
  [pc: {"idle", "load", "files", "resolve", "connect", "forget",
        "reconcile", "finished"},
   force: BOOLEAN, roots: SUBSET Projects, later: SUBSET Projects,
   named: SUBSET Projects, config: SUBSET Projects, existed: BOOLEAN,
   listed: SUBSET Files, hashes: [Files -> Versions \cup {0}],
   indexed: BOOLEAN, left: SUBSET Projects, qdrant: Clients, graph: Clients]

WorkType ==
  [pc: {"none", "waiting", "delete", "embed", "upsert", "clear", "fill"},
   content: Versions \cup {0}, part: Nat, client: Clients]

\* The type invariant.
TypeOK ==
  /\ upstream \in [Files -> Versions \cup {0}]
  /\ disk \in [Files -> Versions \cup {0}]
  /\ cloned \subseteq Projects
  /\ configured \subseteq Projects
  /\ sync \in [pc: {"clone", "pull", "trigger"}, changed: BOOLEAN]
  /\ collection \in BOOLEAN
  /\ points \in [Files \X Parts -> Versions \cup {0}]
  /\ nodes \in [Files -> Versions \cup {0}]
  /\ pending \subseteq Files
  /\ edges \subseteq Files \X Files
  /\ up \subseteq Services /\ conn \subseteq Services
  /\ run \in [Runs -> RunType]
  /\ work \in [Runs -> [Files -> WorkType]]
  /\ changes \in 0..MaxChanges /\ outages \in 0..MaxOutages

\* memgraph_client.py:304-305: "Delete all existing CALLS edges for this project
\* (they'll be recreated from _pending_calls)": when no run is under way, the calls
\* between the functions the graph holds are in it, or pending.
CallsRecreated ==
  (\A r \in Runs : run[r].pc = "idle") =>
    CallsOfAll({f \in Files \ pending : nodes[f] # 0}) \subseteq edges

\* A file is in the index as it is on disk, with one batch of its points at
\* least, if its project is configured, and has no points otherwise.
Indexed(f) ==
  IF ProjectOf[f] \in configured /\ disk[f] # 0 THEN disk[f] \in Stored(f)
                                                ELSE Stored(f) = {}

\* The index catches up: once files, configuration and services stay as they
\* are, Qdrant comes to know the version of each file that is on disk, and no
\* other files, whatever a service missed while it was down and however monitor
\* and reindex met.  (A file of several batches may keep one of an old version:
\* its hash is that of any of its points.)
IndexCatchesUp == <>[](\A f \in Files : Indexed(f))

\* workspace_indexer.py:305: "Detect files in Qdrant that no longer exist on disk
\* and remove them": the reconciliation of the monitor takes nothing of a file
\* that exists, in a configured project it did not even walk.
ReconcileSparesFiles ==
  [][LET m == run["monitor"] IN
       m.pc = "reconcile" /\ run'["monitor"] # m =>
         \A f \in Files, p \in Parts :
           disk[f] # 0 /\ ProjectOf[f] \in configured \ m.roots
             => points'[f, p] = points[f, p]]_vars
=============================================================================
