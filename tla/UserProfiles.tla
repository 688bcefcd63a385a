---------------------------- MODULE UserProfiles ----------------------------
(***************************************************************************)
(* UserSessionManager (server/user/session_manager.py) as the chat route   *)
(* and the user tools drive it.  Sessions live in Redis, with a dictionary *)
(* of the process as fallback; profiles and their context embeddings live  *)
(* in Qdrant.  Every operation on a profile reads it, changes the copy and *)
(* writes the whole copy back; each remote call is an await, so a step of  *)
(* this specification ends at every one of them.                           *)
(*                                                                         *)
(* A profile is reduced to its names (display name and aliases), its items *)
(* (facts, preferences and skills: keyed data that is added and removed)   *)
(* and the sessions it was linked to.  How alike two names are is Alike:   *)
(* "auto" stands for a score of at least AUTO_LINK_THRESHOLD, "ask" for    *)
(* one of at least 0.30 below it, "no" for the rest.                       *)
(***************************************************************************)
EXTENDS Naturals, FiniteSets

CONSTANTS
  Reqs,        \* requests: chat requests, and admin calls
  Sids,        \* sessions
  Users,       \* user ids that uuid4 can return
  Names,
  Items,
  SidOf,       \* the session of each request
  Messages,    \* the messages a client may send, by request
  Tools,       \* the calls an agent may make, by request
  Alike(_, _), \* likeness of two different names
  Stored,      \* contents of user_profiles that a process may find
  None,
  MaxFaults    \* bound: failing calls to Redis, Qdrant and the embedder

Profile == [names : SUBSET Names, items : SUBSET Items, sessions : SUBSET Sids]
Session == [user : Users \cup {None}, pending : SUBSET Items]
Extraction(i) == [call |-> "extract", item |-> i]

ASSUME NoneAssumption ==
  /\ None \notin Users \cup Names \cup Items \cup Reqs
  /\ None \notin Profile \cup Session \cup {Extraction(i) : i \in Items}
ASSUME SidOfAssumption == SidOf \in [Reqs -> Sids]
ASSUME AlikeAssumption == \A m, n \in Names : Alike(m, n) \in {"auto", "ask", "no"}
ASSUME MessagesAssumption ==
  \A r \in Reqs : \A m \in Messages[r] :
    /\ m.kind \in {"token", "name", "router", "alias", "plain", "admin"}
    /\ m.kind \in {"name", "router", "alias"} => m.name \in Names
    /\ m.kind = "alias" => m.alias \in Names
    /\ m.kind \in {"token", "admin"} => m.user \in Users
ASSUME ToolsAssumption ==
  \A r \in Reqs : \A t \in Tools[r] :
    /\ t # None
    /\ t.call \in {"remember", "forget", "alias", "identify", "infer", "delete"}
    /\ t.call \in {"remember", "forget"} => t.item \in Items
    /\ t.call \in {"alias", "identify"} => t.name \in Names
ASSUME StoredAssumption == Stored \subseteq [Users -> Profile \cup {None}]
ASSUME FaultsAssumption == MaxFaults \in Nat

VARIABLES
  qdrant,      \* initialize() reached Qdrant
  profiles,    \* collection user_profiles
  contexts,    \* collection user_contexts: the users that have a point
  redis,       \* sessions in Redis
  local,       \* _local_sessions: the request whose Session object it holds
  heap,        \* the Session objects, by the request that made them
  obj,         \* the Session object each request works on
  lock,        \* _user_locks: the holder of each
  deleted,     \* _recently_deleted
  pc, msg, tool,
  uid, prof,   \* the profile a request has read, and its copy
  other,       \* a merge: the secondary user
  then,        \* where a request goes after it has saved a profile
  faults,
  \* history
  acked,       \* items a tool or a link reported as stored, per user
  noted,       \* items reported as noted for later, per session
  stale,       \* users written while somebody held another copy, or not written at all
  shaken,      \* sessions with overlapping requests, lost saves or links
  clean        \* users deleted while no save was past its check

store == <<profiles, contexts>>
sessions == <<redis, local, heap, obj>>
control == <<pc, msg, tool, then>>
copies == <<uid, prof, other>>
history == <<acked, noted, stale, shaken, clean>>
vars == <<qdrant, store, sessions, lock, deleted, control, copies, faults, history>>

Fresh == [user |-> None, pending |-> {}]

Steps == {"new", "create", "token", "find", "note", "identify", "both", "infer", "asked",
          "alias", "lock", "linkSession", "refused", "upsert", "context", "dropSecondary",
          "dropContext", "mergeSession", "tools", "update", "stash", "lookup", "erase", "eraseContext",
          "done", "failed"}
Said   == UNION {Messages[r] : r \in Reqs}
Called == (UNION {Tools[r] : r \in Reqs}) \cup {Extraction(i) : i \in Items}

\* The type invariant.
TypeOK ==
  /\ qdrant \in BOOLEAN
  /\ profiles \in [Users -> Profile \cup {None}]
  /\ contexts \in SUBSET Users
  /\ redis \in [Sids -> Session \cup {None}]
  /\ local \in [Sids -> Reqs \cup {None}]
  /\ heap \in [Reqs -> Session]
  /\ obj \in [Reqs -> Reqs]
  /\ lock \in [Users -> Reqs \cup {None}]
  /\ deleted \in SUBSET Users
  /\ pc \in [Reqs -> Steps]
  /\ then \in [Reqs -> {"tools", "lock", "mergeSession"}]
  /\ msg \in [Reqs -> Said \cup {None}]
  /\ tool \in [Reqs -> Called \cup {None}]
  /\ uid \in [Reqs -> Users \cup {None}]
  /\ prof \in [Reqs -> Profile \cup {None}]
  /\ other \in [Reqs -> Users \cup {None}]
  /\ faults \in 0..MaxFaults
  /\ acked \in [Users -> SUBSET Items]
  /\ noted \in [Sids -> SUBSET Items]
  /\ stale \in SUBSET Users
  /\ clean \in SUBSET Users
  /\ shaken \in SUBSET Sids

Init ==
  /\ qdrant \in BOOLEAN
  /\ profiles \in Stored
  /\ contexts = {u \in Users : profiles[u] # None}
  /\ redis = [s \in Sids |-> None]
  /\ local = [s \in Sids |-> None]
  /\ heap = [r \in Reqs |-> Fresh]
  /\ obj = [r \in Reqs |-> r]
  /\ lock = [u \in Users |-> None]
  /\ deleted = {}
  /\ pc = [r \in Reqs |-> "new"]
  /\ msg = [r \in Reqs |-> None]
  /\ tool = [r \in Reqs |-> None]
  /\ then = [r \in Reqs |-> "tools"]
  /\ uid = [r \in Reqs |-> None]
  /\ prof = [r \in Reqs |-> None]
  /\ other = [r \in Reqs |-> None]
  /\ faults = 0
  /\ acked = [u \in Users |-> IF profiles[u] = None THEN {} ELSE profiles[u].items]
  /\ noted = [s \in Sids |-> {}]
  /\ stale = {}
  /\ shaken = {}
  /\ clean = {}

-----------------------------------------------------------------------------
(* Helpers *)

Goto(r, step) == pc' = [pc EXCEPT ![r] = step]
Fault == faults < MaxFaults /\ faults' = faults + 1

Sess(r) == heap[obj[r]]
SetUser(r, u) == heap' = [heap EXCEPT ![obj[r]].user = u]
Busy(r) == pc[r] \notin {"new", "done", "failed"}

\* Requests that hold a copy of u's profile which they are going to write.
Holders(u) ==
  {r \in Reqs : /\ u \in {uid[r], other[r]}
                /\ \/ pc[r] \in {"alias", "lock", "linkSession", "upsert",
                                 "dropSecondary", "dropContext"}
                   \/ pc[r] \in {"context", "refused"} /\ then[r] = "lock"}

\* save_session: Redis, or the object itself in the fallback dictionary.
SaveSession(r) ==
  \/ /\ redis' = [redis EXCEPT ![SidOf[r]] = Sess(r)]
     /\ UNCHANGED <<local, faults, shaken>>
  \/ /\ Fault
     /\ local' = [local EXCEPT ![SidOf[r]] = obj[r]]
     /\ shaken' = shaken \cup {SidOf[r]}
     /\ UNCHANGED redis

\* _get_user_profile: nothing is found when Qdrant is down or the call fails.
Read(u, found) ==
  \/ found = (IF qdrant THEN profiles[u] ELSE None) /\ UNCHANGED faults
  \/ found = None /\ qdrant /\ Fault

\* _calculate_name_match_score of a name against the names of a profile
Score(n, p) ==
  IF n \in p.names \/ \E m \in p.names : Alike(n, m) = "auto" THEN "auto"
  ELSE IF \E m \in p.names : Alike(n, m) = "ask" THEN "ask" ELSE "no"

\* find_user_by_name: a profile of exactly this name, else the embedder's
\* candidate if its name is alike, else nobody.
Found(n) ==
  LET present == {u \in Users : qdrant /\ profiles[u] # None}
      exact == {u \in present : n \in profiles[u].names}
      near == {u \in present : Score(n, profiles[u]) # "no"}
  IN  IF exact # {} THEN exact ELSE near \cup {None}

Find(n, u) ==
  \/ u \in Found(n) /\ UNCHANGED faults
  \/ u = None /\ qdrant /\ Fault

\* uuid4: an id that occurs nowhere
Unused ==
  {u \in Users : /\ profiles[u] = None /\ u \notin deleted
                 /\ \A r \in Reqs : u \notin {uid[r], other[r], heap[r].user}
                 /\ \A s \in Sids : redis[s] = None \/ redis[s].user # u}

\* identify_user and _handle_alias_consolidation: a profile with these names
New(names) == [names |-> names, items |-> {}, sessions |-> {}]

\* Mutant: the check for recently deleted users is missing.
BeginSave_Unchecked(r, u) == Goto(r, "upsert")

\* The check at the head of save_user_profile, run when the caller calls it.
BeginSave(r, u) == Goto(r, IF u \in deleted THEN "refused" ELSE "upsert")

\* link_session_to_user up to the lock: the session is linked, the copy kept.
BeginLink(r, u, p) ==
  /\ SetUser(r, u)
  /\ uid' = [uid EXCEPT ![r] = u]
  /\ prof' = [prof EXCEPT ![r] = p]
  /\ Goto(r, "lock")

NameOf(r) == IF tool[r] = None THEN msg[r].name ELSE tool[r].name

\* A save has been made, or silently was not: what is reported as stored.
Report(r) ==
  LET u == uid[r]
      told == IF then[r] = "tools" /\ tool[r] # None /\ tool[r].call = "remember"
              THEN {tool[r].item} ELSE {}
      gone == IF tool[r] # None /\ tool[r].call = "forget" THEN {tool[r].item} ELSE {}
      merged == IF other[r] = None THEN {} ELSE acked[other[r]]
      linked == IF lock[u] = r /\ SidOf[r] \notin shaken THEN noted[SidOf[r]] ELSE {}
  IN  /\ acked' = [v \in Users |-> CASE v = u -> ((acked[u] \cup told) \ gone) \cup merged \cup linked
                                     [] v = other[r] -> {}
                                     [] OTHER -> acked[v]]
      /\ noted' = IF lock[u] = r THEN [noted EXCEPT ![SidOf[r]] = {}] ELSE noted

\* save_user_profile returns: a link gives its lock back and drops its copy.
Saved(r) ==
  LET on == then[r] \in {"lock", "mergeSession"} IN
  /\ Goto(r, then[r])
  /\ heap' = IF then[r] = "lock" THEN [heap EXCEPT ![obj[r]].user = uid[r]] ELSE heap
  /\ lock' = [u \in Users |-> IF lock[u] = r THEN None ELSE lock[u]]
  /\ uid' = IF on THEN uid ELSE [uid EXCEPT ![r] = None]
  /\ prof' = IF on THEN prof ELSE [prof EXCEPT ![r] = None]
  /\ other' = [other EXCEPT ![r] = None]
  /\ then' = [then EXCEPT ![r] = "tools"]

\* save_user_profile raises: a request before its agent fails with it, the
\* tool dispatcher turns it into an error result.
Raised(r) ==
  /\ Goto(r, IF tool[r] = None THEN "failed" ELSE "tools")
  /\ lock' = [u \in Users |-> IF lock[u] = r THEN None ELSE lock[u]]
  /\ uid' = [uid EXCEPT ![r] = None]
  /\ prof' = [prof EXCEPT ![r] = None]
  /\ other' = [other EXCEPT ![r] = None]
  /\ then' = [then EXCEPT ![r] = "tools"]
  /\ UNCHANGED heap

-----------------------------------------------------------------------------
(* The session of a request *)

ByMessage(r, m) ==
  CASE m.kind = "token" -> "token"
    [] m.kind \in {"name", "router"} -> "find"
    [] m.kind = "alias" -> "both"
    [] OTHER -> "infer"

\* A chat request: get_or_create_session.  A session Redis does not return is
\* looked up in the fallback dictionary, where requests share the object.
Arrive(r) ==
  /\ pc[r] = "new"
  /\ \E m \in Messages[r] :
       /\ m.kind # "admin"
       /\ msg' = [msg EXCEPT ![r] = m]
       /\ LET s == SidOf[r]
              next == ByMessage(r, m)
              Enter(o, session) ==
                /\ obj' = [obj EXCEPT ![r] = o]
                /\ heap' = [heap EXCEPT ![o] = session]
                /\ Goto(r, IF session.user # None THEN "tools" ELSE next)
              Fallback ==
                IF local[s] # None
                THEN Enter(local[s], heap[local[s]])
                ELSE obj' = obj /\ heap' = heap /\ Goto(r, "create")
          IN /\ \/ /\ IF redis[s] # None THEN Enter(r, redis[s]) ELSE Fallback
                   /\ UNCHANGED faults
                \/ Fault /\ Fallback
             /\ shaken' = IF \/ faults' # faults
                             \/ \E q \in Reqs : q # r /\ Busy(q) /\ SidOf[q] = s /\ msg[q].kind # "admin"
                          THEN shaken \cup {s} ELSE shaken
  /\ UNCHANGED <<qdrant, store, redis, local, lock, deleted, tool, then, copies,
                 acked, noted, stale, clean>>

Create(r) ==
  /\ pc[r] = "create"
  /\ SaveSession(r)
  /\ Goto(r, ByMessage(r, msg[r]))
  /\ UNCHANGED <<qdrant, store, heap, obj, lock, deleted, msg, tool, then, copies,
                 acked, noted, stale, clean>>

-----------------------------------------------------------------------------
(* Identification *)

\* The user id a client sends with its request
Token(r) ==
  /\ pc[r] = "token"
  /\ \E p \in {profiles[msg[r].user], None} :
       /\ Read(msg[r].user, p)
       /\ IF p # None
          THEN BeginLink(r, msg[r].user, p)
          ELSE Goto(r, "infer") /\ UNCHANGED <<heap, uid, prof>>
  /\ UNCHANGED <<qdrant, store, redis, local, obj, lock, deleted, msg, tool, then, other, history>>

\* A match of find_user_by_name is linked if the score is high enough; where
\* the request goes if nobody was found, or the score is too low.
LinkIfConfident(r, absent, unsure) ==
  \E u \in Users \cup {None} :
    /\ Find(msg[r].name, u)
    /\ IF u # None /\ Score(msg[r].name, profiles[u]) = "auto"
       THEN BeginLink(r, u, profiles[u])
       ELSE Goto(r, IF u = None THEN absent ELSE unsure) /\ UNCHANGED <<heap, uid, prof>>

\* identify_from_router: without a match it goes on to identify_user itself.
FindByRouter(r) ==
  /\ pc[r] = "find" /\ msg[r].kind = "router"
  /\ LinkIfConfident(r, "identify", "note")
  /\ UNCHANGED <<qdrant, store, redis, local, obj, lock, deleted, msg, tool, then, other, history>>

\* smart_identify_on_first_message with a name that the expressions extract
FindByName(r) ==
  /\ pc[r] = "find" /\ msg[r].kind = "name"
  /\ LinkIfConfident(r, "note", "note")
  /\ UNCHANGED <<qdrant, store, redis, local, obj, lock, deleted, msg, tool, then, other, history>>

\* "asking" and "asking_new": the session is saved with what was guessed, and
\* the route identifies the extracted name all the same.  For a name that only
\* the router extracted, the inference from the message comes next.
Note(r) ==
  /\ pc[r] = "note"
  /\ SaveSession(r)
  /\ \/ Goto(r, "identify")
     \/ msg[r].kind = "router" /\ Goto(r, "infer")
  /\ UNCHANGED <<qdrant, store, heap, obj, lock, deleted, msg, tool, then, copies,
                 acked, noted, stale, clean>>

\* identify_user: whoever find_user_by_name returns is linked, whatever the
\* score; if there is nobody, a new profile is.
Identify(r) ==
  /\ pc[r] = "identify"
  /\ \E u \in Users \cup {None} :
       /\ Find(NameOf(r), u)
       /\ \/ u # None /\ BeginLink(r, u, profiles[u])
          \/ /\ u = None
             /\ \E v \in Unused : BeginLink(r, v, New({NameOf(r)}))
  /\ UNCHANGED <<qdrant, store, redis, local, obj, lock, deleted, msg, tool, then, other, history>>

\* _handle_alias_consolidation: the primary's profile, then the alias's.
FindPrimary(r) ==
  /\ pc[r] = "both"
  /\ \E u \in Users \cup {None} :
       /\ Find(msg[r].name, u)
       /\ uid' = [uid EXCEPT ![r] = u]
       /\ prof' = [prof EXCEPT ![r] = IF u = None THEN None ELSE profiles[u]]
  /\ Goto(r, "alias")
  /\ UNCHANGED <<qdrant, store, sessions, lock, deleted, msg, tool, then, other, history>>

\* Mutant: the primary's data wins, the secondary's is dropped.
Merge_PrimaryOnly(p, q) == [names |-> p.names \cup q.names, items |-> p.items,
                            sessions |-> p.sessions \cup q.sessions]

\* merge_user_profiles: conflicting facts are kept under a new key.
Merge(p, q) == [names |-> p.names \cup q.names, items |-> p.items \cup q.items,
                sessions |-> p.sessions \cup q.sessions]

Consolidate(r) ==
  /\ pc[r] = "alias"
  /\ LET both == {msg[r].name, msg[r].alias}
         SaveThenLink(u, p) ==
           /\ uid' = [uid EXCEPT ![r] = u]
           /\ prof' = [prof EXCEPT ![r] = p]
           /\ then' = [then EXCEPT ![r] = "lock"]
           /\ BeginSave(r, u)
           /\ UNCHANGED <<heap, other>>
     IN \E a \in Users \cup {None} :
          /\ Find(msg[r].alias, a)
          /\ \/ /\ prof[r] # None
                /\ \/ a = uid[r]
                   \/ msg[r].alias \in prof[r].names
                /\ BeginLink(r, uid[r], prof[r])
                /\ UNCHANGED <<other, then>>
             \/ /\ prof[r] # None /\ a # None /\ a # uid[r]
                /\ msg[r].alias \notin prof[r].names
                /\ prof' = [prof EXCEPT ![r] = Merge(@, profiles[a])]
                /\ other' = [other EXCEPT ![r] = a]
                /\ then' = [then EXCEPT ![r] = "mergeSession"]
                /\ Goto(r, "dropSecondary")
                /\ UNCHANGED <<heap, uid>>
             \/ /\ prof[r] # None /\ a = None /\ msg[r].alias \notin prof[r].names
                /\ SaveThenLink(uid[r], [prof[r] EXCEPT !.names = @ \cup {msg[r].alias}])
             \/ /\ prof[r] = None /\ a # None
                /\ SaveThenLink(a, [profiles[a] EXCEPT !.names = @ \cup both])
             \/ /\ prof[r] = None /\ a = None
                /\ \E v \in Unused : SaveThenLink(v, New(both))
  /\ UNCHANGED <<qdrant, store, redis, local, obj, lock, deleted, msg, tool, history>>

\* _infer_user_from_message: the best context embedding, if one is near enough
Infer(r) ==
  /\ pc[r] = "infer"
  /\ \/ /\ \E u \in contexts :
             /\ qdrant /\ profiles[u] # None
             /\ BeginLink(r, u, profiles[u])
        /\ UNCHANGED faults
     \/ /\ \E u \in contexts : qdrant /\ profiles[u] # None
        /\ Goto(r, IF tool[r] = None THEN "asked" ELSE "tools")
        /\ UNCHANGED <<heap, uid, prof, faults>>
     \/ Goto(r, "tools") /\ UNCHANGED <<heap, uid, prof, faults>>
  /\ UNCHANGED <<qdrant, store, redis, local, obj, lock, deleted, msg, tool, then, other, history>>

Asked(r) ==
  /\ pc[r] = "asked"
  /\ SaveSession(r)
  /\ Goto(r, "tools")
  /\ UNCHANGED <<qdrant, store, heap, obj, lock, deleted, msg, tool, then, copies,
                 acked, noted, stale, clean>>

-----------------------------------------------------------------------------
(* link_session_to_user, merge_user_profiles and save_user_profile *)

\* Mutant: the pending items are popped and not applied.
Linked_NotFlushed(r) == [prof[r] EXCEPT !.sessions = @ \cup {SidOf[r]}]

\* The copy with the session in its history and the session's pending items
Linked(r) == [prof[r] EXCEPT !.sessions = @ \cup {SidOf[r]}, !.items = @ \cup Sess(r).pending]

\* The body of the lock up to its first await: history, and the pending items
\* move from the session to the copy that was read before the lock.
Lock(r) ==
  LET u == uid[r] IN
  /\ pc[r] = "lock"
  /\ lock[u] = None
  /\ lock' = [lock EXCEPT ![u] = r]
  /\ prof' = [prof EXCEPT ![r] = Linked(r)]
  /\ heap' = [heap EXCEPT ![obj[r]].pending = {}]
  /\ Goto(r, "linkSession")
  /\ UNCHANGED <<qdrant, store, redis, local, obj, deleted, msg, tool, then, uid, other,
                 faults, history>>

LinkSession(r) ==
  /\ pc[r] = "linkSession"
  /\ SaveSession(r)
  /\ BeginSave(r, uid[r])
  /\ UNCHANGED <<qdrant, store, heap, obj, lock, deleted, msg, tool, then, copies,
                 acked, noted, stale, clean>>

\* The profile of a user in _recently_deleted is not saved.
Refused(r) ==
  /\ pc[r] = "refused"
  /\ Report(r)
  /\ Saved(r)
  /\ stale' = stale \cup {uid[r]}
  /\ shaken' = shaken \cup {SidOf[r]}
  /\ UNCHANGED <<qdrant, store, redis, local, obj, deleted, msg, tool, faults, clean>>

\* The embedding and the upsert: the whole copy is written.
Upsert(r) ==
  /\ pc[r] = "upsert"
  /\ qdrant
  /\ profiles' = [profiles EXCEPT ![uid[r]] = prof[r]]
  /\ Report(r)
  /\ Goto(r, "context")
  /\ stale' = stale \cup {u \in {uid[r]} : \/ \E q \in Holders(u) : q # r
                                           \/ other[r] \in stale}
  /\ UNCHANGED <<qdrant, contexts, sessions, lock, deleted, msg, tool, then, copies,
                 faults, shaken, clean>>

\* No Qdrant, or no embedding: save_user_profile returns and nothing is saved.
NotSaved(r) ==
  /\ pc[r] = "upsert"
  /\ \/ ~qdrant /\ UNCHANGED faults
     \/ qdrant /\ Fault
  /\ Report(r)
  /\ Saved(r)
  /\ stale' = stale \cup {uid[r]}
  /\ shaken' = shaken \cup {SidOf[r]}
  /\ UNCHANGED <<qdrant, store, redis, local, obj, deleted, msg, tool, clean>>

SaveRaises(r) ==
  /\ pc[r] = "upsert"
  /\ qdrant /\ Fault
  /\ Raised(r)
  /\ stale' = stale \cup {u \in Users : u \in {uid[r], other[r]}}
  /\ shaken' = shaken \cup {SidOf[r]}
  /\ UNCHANGED <<qdrant, store, redis, local, obj, deleted, msg, tool, acked, noted, clean>>

\* _update_user_context_embedding: failures are swallowed.
Context(r) ==
  /\ pc[r] = "context"
  /\ \/ contexts' = contexts \cup {uid[r]} /\ UNCHANGED faults
     \/ contexts' = contexts /\ Fault
  /\ Saved(r)
  /\ UNCHANGED <<qdrant, profiles, redis, local, obj, deleted, msg, tool, history>>

\* merge_user_profiles deletes the secondary first, from both collections.
DropSecondary(r) ==
  /\ pc[r] = "dropSecondary"
  /\ \/ profiles' = [profiles EXCEPT ![other[r]] = None] /\ UNCHANGED faults
     \/ profiles' = profiles /\ Fault
  /\ Goto(r, "dropContext")
  /\ stale' = stale \cup {u \in {other[r]} : \E q \in Holders(u) : q # r}
  /\ UNCHANGED <<qdrant, contexts, sessions, lock, deleted, msg, tool, then, copies,
                 acked, noted, shaken, clean>>

DropContext(r) ==
  /\ pc[r] = "dropContext"
  /\ \/ contexts' = contexts \ {other[r]} /\ UNCHANGED faults
     \/ contexts' = contexts /\ Fault
  /\ BeginSave(r, uid[r])
  /\ UNCHANGED <<qdrant, profiles, sessions, lock, deleted, msg, tool, then, copies, history>>

\* A session that is not identified yet is linked to the merged profile;
\* unlike link_session_to_user, its pending items stay where they are.
MergeSession(r) ==
  /\ pc[r] = "mergeSession"
  /\ IF Sess(r).user = None
     THEN SetUser(r, uid[r]) /\ Goto(r, "asked")
     ELSE UNCHANGED heap /\ Goto(r, "tools")
  /\ uid' = [uid EXCEPT ![r] = None]
  /\ prof' = [prof EXCEPT ![r] = None]
  /\ UNCHANGED <<qdrant, store, redis, local, obj, lock, deleted, msg, tool, then, other,
                 faults, history>>

-----------------------------------------------------------------------------
(* The agent's calls *)

\* UserMemoryExtension: which operation of the manager a call becomes.  Skills,
\* aliases and removals need an identified user; without one they are kept as
\* facts or refused.
Operation(t, known) ==
  CASE t.call = "remember" -> IF known THEN "update" ELSE "stash"
    [] t.call \in {"forget", "alias"} -> IF known THEN "update" ELSE "tools"
    [] OTHER -> "tools"

\* UserToolsExtension.on_tool_use: those operations, and the identification
\* and deletion that only this extension offers
CallTool(r) ==
  /\ pc[r] = "tools"
  /\ tool[r] = None
  /\ \E t \in Tools[r] :
       LET known == Sess(r).user # None
           step == CASE t.call = "identify" -> "identify"
                     [] t.call = "infer" /\ ~known -> "infer"
                     [] t.call = "delete" /\ known -> "lookup"
                     [] OTHER -> Operation(t, known)
       IN  /\ tool' = [tool EXCEPT ![r] = t]
           /\ Goto(r, step)
           /\ heap' = IF step = "stash" THEN [heap EXCEPT ![obj[r]].pending = @ \cup {t.item}]
                      ELSE heap
  /\ UNCHANGED <<qdrant, store, redis, local, obj, lock, deleted, msg, then, copies, faults, history>>

\* _store_facts_from_extraction: facts the router found in the message of an
\* identified user, remembered through a session object of their own
Extract(r) ==
  /\ pc[r] = "tools"
  /\ tool[r] = None
  /\ msg[r].kind = "router" /\ Sess(r).user # None
  /\ \E i \in Items : tool' = [tool EXCEPT ![r] = Extraction(i)]
  /\ Goto(r, "update")
  /\ UNCHANGED <<qdrant, store, sessions, lock, deleted, msg, then, copies, faults, history>>

\* The changes of remember_user_fact, update_user_preference, the batch
\* updates, the skills and the aliases, on the copy that was read
Changed(t, p) ==
  CASE t.call \in {"remember", "extract"} -> [p EXCEPT !.items = @ \cup {t.item}]
    [] t.call = "forget" -> [p EXCEPT !.items = @ \ {t.item}]
    [] t.call = "alias" -> [p EXCEPT !.names = @ \cup {t.name}]

\* A read and a change.  When the profile is not found, a fact or a preference
\* is left pending in the session; the other operations answer with an error.
Update(r) ==
  LET u == Sess(r).user
      t == tool[r]
  IN
  /\ pc[r] = "update"
  /\ \E p \in {None} \cup {profiles[v] : v \in Users \cap {u}} :
       /\ IF u = None THEN p = None /\ UNCHANGED faults ELSE Read(u, p)
       /\ \/ /\ p # None
             /\ uid' = [uid EXCEPT ![r] = u]
             /\ prof' = [prof EXCEPT ![r] = Changed(t, p)]
             /\ IF t.call \in {"forget", "alias"} /\ Changed(t, p) = p
                THEN Goto(r, "tools") ELSE BeginSave(r, u)
             /\ UNCHANGED heap
          \/ /\ p = None
             /\ IF t.call = "remember"
                THEN /\ heap' = [heap EXCEPT ![obj[r]].pending = @ \cup {t.item}]
                     /\ Goto(r, "stash")
                ELSE UNCHANGED heap /\ Goto(r, "tools")
             /\ UNCHANGED <<uid, prof>>
  /\ UNCHANGED <<qdrant, store, redis, local, obj, lock, deleted, msg, tool, then, other, history>>

Stash(r) ==
  /\ pc[r] = "stash"
  /\ SaveSession(r)
  /\ noted' = [noted EXCEPT ![SidOf[r]] = @ \cup {tool[r].item}]
  /\ Goto(r, "tools")
  /\ UNCHANGED <<qdrant, store, heap, obj, lock, deleted, msg, tool, then, copies,
                 acked, stale, clean>>

\* DELETE /users/{id}: a request of no session
Admin(r) ==
  /\ pc[r] = "new"
  /\ \E m \in Messages[r] : m.kind = "admin" /\ msg' = [msg EXCEPT ![r] = m]
  /\ Goto(r, "lookup")
  /\ UNCHANGED <<qdrant, store, sessions, lock, deleted, tool, then, copies, faults, history>>

\* delete_user_profile: the profile must exist; the user is marked first.
Lookup(r) ==
  LET u == IF msg[r].kind = "admin" THEN msg[r].user ELSE Sess(r).user
      back == IF msg[r].kind = "admin" THEN "done" ELSE "tools"
  IN
  /\ pc[r] = "lookup"
  /\ \E p \in {None} \cup {profiles[v] : v \in Users \cap {u}} :
       /\ IF u = None THEN p = None /\ UNCHANGED faults ELSE Read(u, p)
       /\ \/ p = None /\ Goto(r, back) /\ UNCHANGED <<deleted, uid, acked, stale, clean>>
          \/ /\ p # None
             /\ deleted' = deleted \cup {u}
             /\ uid' = [uid EXCEPT ![r] = u]
             /\ acked' = [acked EXCEPT ![u] = {}]
             /\ clean' = IF \E q \in Reqs : /\ u \in {uid[q], other[q]}
                                            /\ pc[q] \in {"upsert", "context"}
                         THEN clean ELSE clean \cup {u}
             /\ stale' = IF Holders(u) = {} THEN stale ELSE stale \cup {u}
             /\ Goto(r, "erase")
  /\ UNCHANGED <<qdrant, store, sessions, lock, msg, tool, then, prof, other, noted, shaken>>

\* The three deletions (the notes of the user are NoteObserver's); a failing
\* one is passed over.
Erase(r) ==
  /\ pc[r] = "erase"
  /\ \/ profiles' = [profiles EXCEPT ![uid[r]] = None] /\ UNCHANGED <<faults, clean>>
     \/ profiles' = profiles /\ Fault /\ clean' = clean \ {uid[r]}
  /\ Goto(r, "eraseContext")
  /\ UNCHANGED <<qdrant, contexts, sessions, lock, deleted, msg, tool, then, copies,
                 acked, noted, stale, shaken>>

EraseContext(r) ==
  /\ pc[r] = "eraseContext"
  /\ \/ contexts' = contexts \ {uid[r]} /\ UNCHANGED <<faults, clean>>
     \/ contexts' = contexts /\ Fault /\ clean' = clean \ {uid[r]}
  /\ IF msg[r].kind = "admin"
     THEN Goto(r, "done") /\ UNCHANGED heap
     ELSE Goto(r, "tools") /\ SetUser(r, IF Sess(r).user = uid[r] THEN None ELSE Sess(r).user)
  /\ uid' = [uid EXCEPT ![r] = None]
  /\ UNCHANGED <<qdrant, profiles, redis, local, obj, lock, deleted, msg, tool, then,
                 prof, other, acked, noted, stale, shaken>>

\* The end of the route: the session is saved once more.
Final(r) ==
  /\ pc[r] = "tools"
  /\ SaveSession(r)
  /\ Goto(r, "done")
  /\ UNCHANGED <<qdrant, store, heap, obj, lock, deleted, msg, tool, then, copies,
                 acked, noted, stale, clean>>

\* DELETE /sessions, and SESSION_TTL in Redis
DeleteSession(s) ==
  /\ redis[s] # None \/ local[s] # None
  /\ redis' = [redis EXCEPT ![s] = None]
  /\ local' = [local EXCEPT ![s] = None]
  /\ shaken' = shaken \cup {s}
  /\ UNCHANGED <<qdrant, store, heap, obj, lock, deleted, control, copies, faults,
                 acked, noted, stale, clean>>

Expire(s) ==
  /\ redis[s] # None
  /\ redis' = [redis EXCEPT ![s] = None]
  /\ shaken' = shaken \cup {s}
  /\ UNCHANGED <<qdrant, store, local, heap, obj, lock, deleted, control, copies, faults,
                 acked, noted, stale, clean>>

-----------------------------------------------------------------------------
Step(r) ==
  \/ Create(r) \/ Token(r) \/ FindByRouter(r) \/ FindByName(r) \/ Note(r) \/ Identify(r)
  \/ FindPrimary(r) \/ Consolidate(r) \/ Infer(r) \/ Asked(r)
  \/ Lock(r) \/ LinkSession(r) \/ Refused(r) \/ Upsert(r) \/ NotSaved(r) \/ SaveRaises(r)
  \/ Context(r) \/ DropSecondary(r) \/ DropContext(r) \/ MergeSession(r)
  \/ Update(r) \/ Stash(r) \/ Lookup(r) \/ Erase(r) \/ EraseContext(r) \/ Final(r)

Next ==
  \/ \E r \in Reqs : Arrive(r) \/ Admin(r) \/ CallTool(r) \/ Extract(r) \/ Step(r)
  \/ \E s \in Sids : DeleteSession(s) \/ Expire(s)

Spec == Init /\ [][Next]_vars

-----------------------------------------------------------------------------
(* Properties *)

\* What was reported as stored for a user is in the profile, as long as no two
\* requests held copies of it at a write, every save of it was made, and it is
\* not just being merged into another: the read-modify-writes of links, tools,
\* merges and renames lose nothing by themselves.
QuietItemsKept ==
  \A u \in Users \ stale :
    \/ acked[u] = {}
    \/ profiles[u] # None /\ acked[u] \subseteq profiles[u].items
    \/ \E r \in Reqs : other[r] = u /\ pc[r] \in {"dropContext", "upsert", "refused"}

\* What was noted for later is pending in the stored session, or is on its way
\* into the profile of the user the session is being linked to, as long as the
\* session's requests do not overlap and its saves succeed.
QuietPendingKept ==
  \A s \in Sids \ shaken :
    LET kept == IF redis[s] = None THEN {} ELSE redis[s].pending
        links == {r \in Reqs : SidOf[r] = s /\ \E u \in Users : lock[u] = r}
    IN  noted[s] \subseteq kept \cup UNION {prof[r].items : r \in links}

\* A user whose deletion was marked while no save was past its check, and whose
\* deletions succeeded, never comes back, neither as profile nor as context.
DeletedStaysDeleted ==
  \A u \in clean :
    \/ \E r \in Reqs : uid[r] = u /\ pc[r] \in {"erase", "eraseContext"}
    \/ profiles[u] = None /\ u \notin contexts
=============================================================================
