---------------------------- MODULE RequestNotes ----------------------------
(***************************************************************************)
(* What a request leaves behind when its agent is through: the notes of    *)
(* the observer and the facts of the extractor, which run as background    *)
(* tasks (note_observer.py, started by app.py), the critical facts of its  *)
(* session (critical_facts.py), the two searches that show notes again     *)
(* (note_observer.py, note_search_extension.py) and the admin clean-up of  *)
(* orphaned notes (app.py).  A user profile is only there or not: what is  *)
(* in it is in UserProfiles.                                               *)
(*                                                                         *)
(* A call to a service the server has connected to may fail at any time,   *)
(* at most MaxFaults times.                                                *)
(***************************************************************************)
EXTENDS Naturals, Sequences, FiniteSets, SequencesExt

CONSTANTS
  Users, Sessions, Requests, Projects,
  None,
  Endings,          \* how a request may end: Requests -> sets of
                    \* [user, session, identified, trajectory, text], text the
                    \* critical facts that the patterns find in what was said
  Replies,          \* what the LLM may say: sequences of the lists found in it
  Known,            \* users that have a profile to begin with
  Connections,      \* sets of services the server may start with
  Permits,          \* _NOTE_SEMAPHORE, 2 in the code
  Recheck,          \* a profile is looked up again after so many facts, 3 in the code
  MaxFaults,        \* bound: failing calls, and the end of the server
  MaxCleanups,
  MaxUsers          \* bound: how often users are created and deleted

\* How a request may end.
CriticalTexts == UNION {e.text : e \in UNION {Endings[r] : r \in Requests}}
ASSUME EndingsAssumption ==
  \A r \in Requests : \A e \in Endings[r] :
    /\ e.user \in Users \cup {None} /\ e.session \in Sessions
    /\ e.identified \in BOOLEAN
    /\ e.trajectory \in {"none", "empty", "text"}
ASSUME NoneAssumption == None \notin Users \cup Sessions
ASSUME RequestsAssumption == IsFiniteSet(Requests)
ASSUME ReadersAssumption ==
  /\ Known \subseteq Users
  /\ Connections \subseteq SUBSET {"qdrant", "embedding", "llm", "redis"}
  /\ Permits \in Nat \ {0} /\ Recheck \in Nat \ {0}
  /\ MaxFaults \in Nat

Services == {"qdrant", "embedding", "llm", "redis"}
Tasks    == Requests \X {"notes", "facts"}
PersonalKeys == {"preference", "employer", "role", "skill", "alias"}
Garbage  == {"none", "unknown", "n/a", "null", ""}

VARIABLES
  connected,        \* services there is a client of
  profiles,         \* users that have a profile in Qdrant
  deleting,         \* users whose profile is deleted, but not yet their notes
  notes,            \* the points of cca_notes
  remembered,       \* <<user, fact>> written to a profile
  trajectories,     \* sessions whose trajectory is in Redis
  permits,          \* of the semaphore that are free
  task,             \* Tasks -> the background task
  critical, local,  \* session -> critical facts, in Redis and in the process
  store,            \* requests -> process_conversation: [pc, session, left, all]
  noted,            \* history: session -> critical facts given to store_facts
  cleanup,          \* notes_cleanup: [pc, known, orphans, runs]
  seen,             \* the points it has read
  steady,           \* history: users with a profile ever since a clean-up began
  fresh,            \* history: points written since the clean-up read the notes
  faults, changes

taskVars    == <<permits, task>>
factVars    == <<critical, local, store, noted>>
cleanupVars == <<cleanup, seen, steady, fresh>>
vars == <<connected, profiles, deleting, notes, remembered, trajectories, taskVars,
          factVars, cleanupVars, faults, changes>>

NoTask == [pc |-> "none", user |-> None, session |-> None, trajectory |-> "none",
           left |-> <<>>, stored |-> 0]
NoStore == [pc |-> "idle", session |-> None, left |-> {}, all |-> {}]
NoCleanup == [pc |-> "idle", known |-> {}, orphans |-> {}, runs |-> 0]

\* The calls that need these services succeed (ok) or one of them fails.
Outcome(ok, needed) ==
  LET fault == ~ok /\ needed \subseteq connected
  IN  /\ ok => needed \subseteq connected
      /\ fault => faults < MaxFaults
      /\ faults' = IF fault THEN faults + 1 ELSE faults

-----------------------------------------------------------------------------
\* Reading what the LLM said.  A reply is the sequence of the lists in it, what
\* the model thinks aloud included; a list is the sequence of its elements.

\* _strip_thinking: the first list that begins with an object, else the first.
StripThinking(reply) ==
  LET objects == SelectSeq(reply, LAMBDA l : l # <<>> /\ l[1].object)
  IN  CASE objects # <<>> -> Head(objects)
        [] objects = <<>> /\ reply # <<>> -> Head(reply)
        [] OTHER -> <<>>

\* _parse_notes_json keeps what has a content, and of it content, type and tags.
ParseNotes(list) ==
  LET valid == SelectSeq(list, LAMBDA e : e.object /\ e.content # None)
  IN  [i \in DOMAIN valid |-> valid[i].content]

\* _parse_facts_json keeps what has key and value, with scope and project;
\* extract_user_facts drops the values that say nothing.
ParseFacts(list) ==
  SelectSeq(list, LAMBDA e : e.object /\ e.key # None /\ e.value \notin Garbage)

Insights(reply) == ParseNotes(StripThinking(reply))
FactsIn(reply)  == ParseFacts(StripThinking(reply))

\* Mutant: the project of a fact decides before its key does.
FactScopeByProject(f) ==
  CASE f.scope # "" -> f.scope
    [] f.scope = "" /\ f.project # None -> "project"
    [] OTHER -> "user"

\* The scope of a fact note, if the LLM gave none.
FactScope(f) ==
  CASE f.scope # "" -> f.scope
    [] f.scope = "" /\ f.key \in PersonalKeys -> "user"
    [] f.scope = "" /\ f.key \notin PersonalKeys /\ f.project # None -> "project"
    [] OTHER -> "user"

\* Two observations of the same content in a session have the same point id;
\* fact notes get a new one each.
InsightNote(content, t) ==
  [id |-> <<task[t].session, content>>, user |-> task[t].user, content |-> content,
   source |-> "per_request", scope |-> "user", project |-> None, personal |-> FALSE]
FactNote(f, t) ==
  [id |-> <<t, task[t].stored>>, user |-> task[t].user, content |-> f.value,
   source |-> "fact_extractor", scope |-> FactScope(f), project |-> f.project,
   personal |-> f.key \in PersonalKeys /\ f.scope = ""]

Upserted(points) ==
  {n \in notes : n.id \notin {p.id : p \in points}} \cup points

-----------------------------------------------------------------------------
\* The searches.  _detect_active_projects: those the message or the route's
\* summary names, those of the session, and all there are if these are none.
ActiveProjects(named, session) ==
  IF named \cup session = {} THEN Projects ELSE named \cup session

\* search_notes, for the prompt of a request and for GET /v1/notes/search.
SearchNotes(u, active) ==
  IF u = None THEN {}
  ELSE {n \in notes : n.user = u \/ (n.scope = "project" /\ n.project \in active)}

\* The search_notes tool of the agent.
ToolSearch(u) == IF u = None THEN {} ELSE {n \in notes : n.user = u}

-----------------------------------------------------------------------------
Init ==
  /\ connected \in Connections
  /\ profiles = Known
  /\ deleting = {}
  /\ notes = {} /\ remembered = {} /\ trajectories = {}
  /\ permits = Permits
  /\ task = [t \in Tasks |-> NoTask]
  /\ critical = [s \in Sessions |-> {}] /\ local = critical /\ noted = critical
  /\ store = [r \in Requests |-> NoStore]
  /\ cleanup = NoCleanup /\ seen = {}
  /\ steady = profiles /\ fresh = {}
  /\ faults = 0 /\ changes = 0

Put(t, rec) == task' = [task EXCEPT ![t] = rec]
Goto(t, l)  == Put(t, [task[t] EXCEPT !.pc = l])
Ended       == [NoTask EXCEPT !.pc = "done"]

\* The finally of run_agent: the tasks are only created for a known user, the
\* extractor only in a session that is identified.  The route that does not
\* stream also looks for critical facts in what was said.
RequestEnds(r) ==
  /\ task[<<r, "notes">>].pc = "none" /\ store[r].pc = "idle"
  /\ \E e \in Endings[r] :
       LET begun == [NoTask EXCEPT !.user = e.user, !.session = e.session,
                                   !.trajectory = e.trajectory]
       IN  /\ task' = [task EXCEPT
                ![<<r, "notes">>] = IF e.user = None THEN Ended
                                    ELSE [begun EXCEPT !.pc = "waiting"],
                ![<<r, "facts">>] = IF e.user = None \/ ~e.identified THEN Ended
                                    ELSE [begun EXCEPT !.pc = "extract"]]
           /\ store' = [store EXCEPT ![r] =
                IF e.text = {} THEN [NoStore EXCEPT !.pc = "done"]
                ELSE [pc |-> IF "redis" \in connected THEN "hset" ELSE "local",
                      session |-> e.session, left |-> e.text, all |-> e.text]]
           /\ noted' = [noted EXCEPT ![e.session] = @ \cup e.text]
  /\ UNCHANGED <<connected, profiles, deleting, notes, remembered, trajectories, permits,
                 critical, local, cleanupVars, faults, changes>>

-----------------------------------------------------------------------------
\* The observer: process.

worldVars == <<connected, profiles, deleting, remembered, factVars, changes>>

Acquire(r) ==
  LET t == <<r, "notes">>
  IN  /\ task[t].pc = "waiting"
      /\ permits > 0
      /\ permits' = permits - 1
      /\ Goto(t, IF task[t].trajectory = "none" THEN "release" ELSE "trajectory")
      /\ UNCHANGED <<worldVars, notes, trajectories, cleanupVars, faults>>

StoreTrajectory(r) ==
  LET t == <<r, "notes">>
  IN  /\ task[t].pc = "trajectory"
      /\ \E ok \in BOOLEAN :
           /\ Outcome(ok, {"redis"})
           /\ trajectories' = IF ok THEN trajectories \cup {task[t].session}
                              ELSE trajectories
      /\ Goto(t, "extract")
      /\ UNCHANGED <<worldVars, permits, notes, cleanupVars>>

\* Mutant: an observation that finds nothing ends with its permit.
ExtractKeepsPermit(r) ==
  LET t == <<r, "notes">>
  IN  /\ task[t].pc = "extract"
      /\ \E ok \in BOOLEAN, reply \in Replies :
           LET found == IF ok /\ task[t].trajectory = "text" THEN Insights(reply) ELSE <<>>
           IN  /\ Outcome(ok, {"llm"})
               /\ Put(t, IF found = <<>> THEN Ended
                         ELSE [task[t] EXCEPT !.left = found, !.pc = "check"])
      /\ UNCHANGED <<worldVars, permits, notes, trajectories, cleanupVars>>

\* _extract_notes: nothing to read, an error or an answer without notes end it.
ExtractNotes(r) ==
  LET t == <<r, "notes">>
  IN  /\ task[t].pc = "extract"
      /\ \E ok \in BOOLEAN, reply \in Replies :
           LET found == IF ok /\ task[t].trajectory = "text" THEN Insights(reply) ELSE <<>>
           IN  /\ Outcome(ok, {"llm"})
               /\ Put(t, [task[t] EXCEPT !.left = found,
                                         !.pc = IF found = <<>> THEN "release" ELSE "check"])
      /\ UNCHANGED <<worldVars, permits, notes, trajectories, cleanupVars>>

\* _user_exists takes a user it cannot look up for one that exists.
CheckUser(r) ==
  LET t == <<r, "notes">>
  IN  /\ task[t].pc = "check"
      /\ \E ok \in BOOLEAN :
           /\ Outcome(ok, {"qdrant"})
           /\ Goto(t, IF ok /\ task[t].user \notin profiles THEN "release" ELSE "upsert")
      /\ UNCHANGED <<worldVars, permits, notes, trajectories, cleanupVars>>

StoreNotes(r) ==
  LET t      == <<r, "notes">>
      points == {InsightNote(c, t) : c \in ToSet(task[t].left)}
  IN  /\ task[t].pc = "upsert"
      /\ \E ok \in BOOLEAN :
           /\ Outcome(ok, {"embedding", "qdrant"})
           /\ notes' = IF ok THEN Upserted(points) ELSE notes
           /\ fresh' = IF ok THEN fresh \cup points ELSE fresh
      /\ Goto(t, "release")
      /\ UNCHANGED <<worldVars, permits, trajectories, cleanup, seen, steady>>

Release(r) ==
  LET t == <<r, "notes">>
  IN  /\ task[t].pc = "release"
      /\ permits' = permits + 1
      /\ Put(t, Ended)
      /\ UNCHANGED <<worldVars, notes, trajectories, cleanupVars, faults>>

-----------------------------------------------------------------------------
\* The extractor: extract_user_facts, outside of the semaphore.

ExtractFacts(r) ==
  LET t == <<r, "facts">>
  IN  /\ task[t].pc = "extract"
      /\ \E ok \in BOOLEAN, reply \in Replies :
           LET found == IF ok THEN FactsIn(reply) ELSE <<>>
           IN  /\ Outcome(ok, {"llm"})
               /\ Put(t, IF found = <<>> THEN Ended
                         ELSE [task[t] EXCEPT !.left = found, !.pc = "note"])
      /\ UNCHANGED <<worldVars, permits, notes, trajectories, cleanupVars>>

\* _store_fact_as_note, for the facts in order and whether or not the user is
\* known.  (stored counts the notes here, and the facts below.)
NoteFact(r) ==
  LET t == <<r, "facts">>
      n == task[t].stored + 1
      f == task[t].left[n]
  IN  /\ task[t].pc = "note"
      /\ \E ok \in BOOLEAN :
           /\ Outcome(ok, {"embedding", "qdrant"})
           /\ notes' = IF ok THEN notes \cup {FactNote(f, t)} ELSE notes
           /\ fresh' = IF ok THEN fresh \cup {FactNote(f, t)} ELSE fresh
      /\ Put(t, IF n < Len(task[t].left) THEN [task[t] EXCEPT !.stored = n]
                ELSE [task[t] EXCEPT !.stored = 0, !.pc = "check"])
      /\ UNCHANGED <<worldVars, permits, trajectories, cleanup, seen, steady>>

\* Before the first fact and after every Recheck of them.
CheckFacts(r) ==
  LET t == <<r, "facts">>
  IN  /\ task[t].pc = "check"
      /\ \E ok \in BOOLEAN :
           /\ Outcome(ok, {"qdrant"})
           /\ IF ok /\ task[t].user \notin profiles THEN Put(t, Ended)
              ELSE Goto(t, "remember")
      /\ UNCHANGED <<worldVars, permits, notes, trajectories, cleanupVars>>

\* remember_user_fact changes a profile that is there; an error ends the task.
RememberFact(r) ==
  LET t == <<r, "facts">>
      n == task[t].stored + 1
      f == task[t].left[n]
  IN  /\ task[t].pc = "remember"
      /\ \E ok \in BOOLEAN :
           /\ Outcome(ok, {})
           /\ remembered' = IF ok /\ task[t].user \in profiles
                            THEN remembered \cup {<<task[t].user, f.value>>} ELSE remembered
           /\ Put(t, IF ~ok \/ n = Len(task[t].left) THEN Ended
                     ELSE [task[t] EXCEPT !.stored = n,
                                          !.pc = IF n % Recheck = 0 THEN "check" ELSE @])
      /\ UNCHANGED <<connected, profiles, deleting, factVars, permits, notes,
                     trajectories, cleanupVars, changes>>

-----------------------------------------------------------------------------
\* Critical facts: store_facts writes one field after the other; with the first
\* error, or without Redis, all of them go to the process.

restVars == <<connected, profiles, deleting, notes, remembered, trajectories,
              taskVars, cleanupVars, changes>>

\* Mutant: an error is logged, and what was not written is given up.
WriteFieldNoFallback(r) ==
  /\ store[r].pc = "hset"
  /\ \E f \in store[r].left, ok \in BOOLEAN :
       /\ Outcome(ok, {"redis"})
       /\ critical' = IF ok THEN [critical EXCEPT ![store[r].session] = @ \cup {f}]
                      ELSE critical
       /\ store' = [store EXCEPT ![r] =
                      IF ~ok \/ @.left = {f} THEN [NoStore EXCEPT !.pc = "done"]
                      ELSE [store[r] EXCEPT !.left = @ \ {f}]]
  /\ UNCHANGED <<restVars, local, noted>>

WriteField(r) ==
  /\ store[r].pc = "hset"
  /\ \E f \in store[r].left, ok \in BOOLEAN :
       /\ Outcome(ok, {"redis"})
       /\ critical' = IF ok THEN [critical EXCEPT ![store[r].session] = @ \cup {f}]
                      ELSE critical
       /\ store' = [store EXCEPT ![r] =
                      IF ~ok THEN [@ EXCEPT !.pc = "local"]
                      ELSE IF @.left = {f} THEN [NoStore EXCEPT !.pc = "done"]
                      ELSE [store[r] EXCEPT !.left = @ \ {f}]]
  /\ UNCHANGED <<restVars, local, noted>>

KeepLocally(r) ==
  /\ store[r].pc = "local"
  /\ local' = [local EXCEPT ![store[r].session] = @ \cup store[r].all]
  /\ store' = [store EXCEPT ![r] = [NoStore EXCEPT !.pc = "done"]]
  /\ UNCHANGED <<restVars, critical, noted, faults>>

\* get_facts reads Redis if it answers, and the process if it does not.
GetFacts(s, answers) ==
  IF "redis" \in connected /\ answers THEN critical[s] ELSE local[s]

-----------------------------------------------------------------------------
\* Users come and go meanwhile (session_manager.py): the profile is deleted
\* first and the notes after it.

otherVars == <<connected, remembered, trajectories, taskVars, factVars, cleanup,
               seen, faults>>

CreateUser(u) ==
  /\ u \notin profiles /\ u \notin deleting
  /\ changes < MaxUsers /\ changes' = changes + 1
  /\ profiles' = profiles \cup {u}
  /\ UNCHANGED <<otherVars, deleting, notes, steady, fresh>>

DeleteProfile(u) ==
  /\ u \in profiles
  /\ changes < MaxUsers /\ changes' = changes + 1
  /\ profiles' = profiles \ {u}
  /\ deleting' = deleting \cup {u}
  /\ steady' = steady \ {u}
  /\ UNCHANGED <<otherVars, notes, fresh>>

DeleteNotes(u) ==
  /\ u \in deleting
  /\ deleting' = deleting \ {u}
  /\ notes' = {n \in notes : n.user # u}
  /\ UNCHANGED <<otherVars, profiles, steady, fresh, changes>>

-----------------------------------------------------------------------------
\* DELETE /v1/notes/cleanup.  Pages of profiles are read, then pages of notes,
\* then the notes of each unknown user are deleted; an error ends it.

cleanedVars == <<connected, profiles, deleting, remembered, trajectories, taskVars, factVars,
                 changes>>

StartCleanup ==
  /\ cleanup.pc = "idle" /\ cleanup.runs < MaxCleanups
  /\ "qdrant" \in connected
  /\ cleanup' = [NoCleanup EXCEPT !.pc = "profiles", !.runs = cleanup.runs + 1]
  /\ seen' = {}
  /\ steady' = profiles
  /\ UNCHANGED <<cleanedVars, notes, fresh, faults>>

\* Mutant: the clean-up goes on with the profiles it has, after an error.
ReadSomeProfiles ==
  /\ cleanup.pc = "profiles"
  /\ \E page \in SUBSET (profiles \ cleanup.known), ok, last \in BOOLEAN :
       LET known == cleanup.known \cup page
       IN  /\ Outcome(ok, {"qdrant"})
           /\ last => steady \subseteq known
           /\ last \/ page # {}
           /\ cleanup' = [cleanup EXCEPT !.known = IF ok THEN known ELSE @,
                                         !.pc = IF last \/ ~ok THEN "notes" ELSE @]
           /\ fresh' = IF last \/ ~ok THEN {} ELSE fresh
  /\ UNCHANGED <<cleanedVars, notes, seen, steady>>

\* A page has some of the profiles; whoever was there all the time is on one.
ReadProfiles ==
  /\ cleanup.pc = "profiles"
  /\ \E page \in SUBSET (profiles \ cleanup.known), ok, last \in BOOLEAN :
       LET known == cleanup.known \cup page
       IN  /\ Outcome(ok, {"qdrant"})
           /\ last => steady \subseteq known
           /\ last \/ page # {}
           /\ cleanup' = IF ~ok THEN [cleanup EXCEPT !.pc = "idle"]
                         ELSE [cleanup EXCEPT !.known = known,
                                              !.pc = IF last THEN "notes" ELSE @]
           /\ fresh' = IF last THEN {} ELSE fresh
  /\ UNCHANGED <<cleanedVars, notes, seen, steady>>

\* Mutant: one page of notes is all that is read.
ReadOnePage ==
  /\ cleanup.pc = "notes"
  /\ \E page \in SUBSET notes, ok \in BOOLEAN :
       /\ Outcome(ok, {"qdrant"})
       /\ cleanup' = IF ~ok THEN [cleanup EXCEPT !.pc = "idle"]
                     ELSE [cleanup EXCEPT !.pc = "delete",
                             !.orphans = {n.user : n \in page} \ cleanup.known]
       /\ seen' = page
  /\ UNCHANGED <<cleanedVars, notes, steady, fresh>>

\* seen has the points of the pages; those that are written meanwhile may be
\* on one or not.
ReadNotes ==
  /\ cleanup.pc = "notes"
  /\ \E page \in SUBSET (notes \ seen), ok, last \in BOOLEAN :
       LET left == {n.user : n \in seen \cup page} \ cleanup.known
       IN  /\ Outcome(ok, {"qdrant"})
           /\ last => notes \ fresh \subseteq seen \cup page
           /\ last \/ page # {}
           /\ seen' = IF ok THEN seen \cup page ELSE seen
           /\ cleanup' = IF ~ok THEN [cleanup EXCEPT !.pc = "idle"]
                         ELSE [cleanup EXCEPT !.orphans = IF last THEN left ELSE {},
                                              !.pc = IF last THEN "delete" ELSE @]
  /\ UNCHANGED <<cleanedVars, notes, steady, fresh>>

DeleteOrphans ==
  /\ cleanup.pc = "delete" /\ cleanup.orphans # {}
  /\ \E u \in cleanup.orphans, ok \in BOOLEAN :
       /\ Outcome(ok, {"qdrant"})
       /\ notes' = IF ok THEN {n \in notes : n.user # u} ELSE notes
       /\ cleanup' = IF ~ok THEN [cleanup EXCEPT !.pc = "idle"]
                     ELSE [cleanup EXCEPT !.orphans = @ \ {u}]
  /\ UNCHANGED <<cleanedVars, seen, steady, fresh>>

EndCleanup ==
  /\ cleanup.pc = "delete" /\ cleanup.orphans = {}
  /\ cleanup' = [NoCleanup EXCEPT !.runs = cleanup.runs] /\ seen' = {}
  /\ UNCHANGED <<cleanedVars, notes, steady, fresh, faults>>

-----------------------------------------------------------------------------
\* close: the clients are gone, while the tasks go on.
Close ==
  /\ connected # {}
  /\ faults < MaxFaults /\ faults' = faults + 1
  /\ connected' = connected \ {"qdrant", "embedding", "llm"}
  /\ UNCHANGED <<profiles, deleting, notes, remembered, trajectories, taskVars,
                 factVars, cleanupVars, changes>>

Observe(r) ==
  Acquire(r) \/ StoreTrajectory(r) \/ ExtractNotes(r) \/ CheckUser(r) \/ StoreNotes(r)
    \/ Release(r)
Extract(r) == ExtractFacts(r) \/ NoteFact(r) \/ CheckFacts(r) \/ RememberFact(r)
StoreFacts(r) == WriteField(r) \/ KeepLocally(r)
Cleanup == StartCleanup \/ ReadProfiles \/ ReadNotes \/ DeleteOrphans \/ EndCleanup

Next ==
  \/ \E r \in Requests : RequestEnds(r) \/ Observe(r) \/ Extract(r) \/ StoreFacts(r)
  \/ \E u \in Users : CreateUser(u) \/ DeleteProfile(u) \/ DeleteNotes(u)
  \/ Cleanup
  \/ Close

Spec == Init /\ [][Next]_vars

-----------------------------------------------------------------------------
(* Properties *)

\* What a task may have found: the insights or the facts of a reply.
Findings == {<<>>} \cup {Insights(reply) : reply \in Replies}
                   \cup {FactsIn(reply) : reply \in Replies}
Working == {"waiting", "trajectory", "extract", "note", "check", "upsert", "remember",
            "release"}
Task == [pc : Working \cup {"none", "done"}, user : Users \cup {None},
         session : Sessions \cup {None}, trajectory : {"none", "empty", "text"},
         left : Findings, stored : Nat]
Store == [pc : {"idle", "hset", "local", "done"}, session : Sessions \cup {None},
          left : SUBSET CriticalTexts, all : SUBSET CriticalTexts]

\* The type invariant.
TypeOK ==
  /\ connected \subseteq Services /\ profiles \subseteq Users /\ deleting \subseteq Users
  /\ \A n \in notes \cup seen : n.user \in Users
  /\ trajectories \subseteq Sessions /\ permits \in 0..Permits
  /\ task \in [Tasks -> Task]
  /\ \A t \in Tasks : task[t].pc \in Working => task[t].user \in Users /\ task[t].session \in Sessions
  /\ critical \in [Sessions -> SUBSET CriticalTexts]
  /\ local \in [Sessions -> SUBSET CriticalTexts]
  /\ noted \in [Sessions -> SUBSET CriticalTexts]
  /\ store \in [Requests -> Store]
  /\ \A r \in Requests : store[r].pc \in {"hset", "local"} => store[r].session \in Sessions
  /\ cleanup \in [pc : {"idle", "profiles", "notes", "delete"}, known : SUBSET Users,
                  orphans : SUBSET Users, runs : Nat]
  /\ steady \subseteq Users
  /\ faults \in Nat /\ changes \in Nat

\* Whatever fails in it and whoever is deleted or created meanwhile, a clean-up
\* takes no note of a user whose profile was there all the time: notes go by
\* the deletion of their user, or are replaced by the same insight.
SteadyNotesKept ==
  [][\A n \in notes \ notes' :
       \/ n.user \in deleting \/ n.user \notin steady
       \/ \E m \in notes' : m.id = n.id]_vars

\* A clean-up that got to its end has left no note of a user without a profile,
\* but for those written since it read the notes.
CleanupCollects ==
  cleanup.pc = "delete" /\ cleanup.orphans = {} =>
    \A n \in notes : n.user \in cleanup.known \/ n \in fresh

\* A personal fact to which the LLM gave no scope of its own is never shown to
\* another user, whatever projects a request is about.
PersonalFactsPrivate ==
  \A n \in notes, u \in Users : n.personal /\ u # n.user =>
    \A active \in SUBSET Projects : n \notin SearchNotes(u, active) \cup ToolSearch(u)

\* Critical facts are lost neither by an error half-way through nor by the lack
\* of Redis: all that were found are in Redis or in the process.
CriticalFactsStored ==
  \A s \in Sessions :
    noted[s] \subseteq critical[s] \cup local[s]
                       \cup UNION {store[r].all : r \in {q \in Requests : store[q].session = s}}

\* However an observation ends, its permit is free again: the permits and the
\* observations that hold one always add up, so that none waits for good.
PermitsAccounted ==
  permits + Cardinality({r \in Requests : task[<<r, "notes">>].pc
              \in {"trajectory", "extract", "check", "upsert", "release"}}) = Permits
=============================================================================
