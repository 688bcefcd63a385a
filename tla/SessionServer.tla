--------------------------- MODULE SessionServer ---------------------------
(***************************************************************************)
(* The request lifecycle of the Analects chat server: the pool of          *)
(* Confucius instances (server/session_pool.py), the part of               *)
(* _handle_chat_completions that runs an agent (server/app.py, steps       *)
(* 10-12), and what the instance does to its memory (lib/confucius.py).    *)
(*                                                                         *)
(* The server is one asyncio event loop.  A coroutine keeps the loop until *)
(* it awaits something that is not ready, so a step below is what runs     *)
(* between two real suspensions; `busy' is the handler that has not        *)
(* suspended yet.  The saves and loads of an instance are synchronous file *)
(* operations inside coroutines and never suspend, hence the pool lock is  *)
(* never contended and every section it guards is one step.                *)
(*                                                                         *)
(* A pool entry is named by the request that created it.  A turn (the      *)
(* messages one agent run adds to the session) is named by its request.    *)
(***************************************************************************)
EXTENDS Integers, Sequences, FiniteSets, SequencesExt

CONSTANTS
  Requests,      \* chat completion requests clients may send
  Sids,          \* session ids
  SidOf,         \* the session id derived for each request
  Streams,       \* the requests with stream = true
  MaxSessions,   \* SessionPool(max_sessions)
  SessionTtl,    \* SessionPool(session_ttl), in ticks
  AgentSlots,    \* _AGENT_SEMAPHORE
  MaxTime,       \* bound: ticks of the clock
  MaxRestarts,   \* bound: restarts of the process
  TornWrites,    \* may a crash fall inside write_text of a memory file?
  None           \* no entry, no request

ASSUME RequestsAssumption ==
  /\ SidOf \in [Requests -> Sids]
  /\ Streams \subseteq Requests
  /\ None \notin Requests
ASSUME BoundsAssumption ==
  /\ IsFiniteSet(Sids)
  /\ MaxSessions \in Nat \ {0}
  /\ AgentSlots \in Nat \ {0}
  /\ SessionTtl \in Nat
  /\ MaxTime \in Nat
  /\ MaxRestarts \in Nat
  /\ TornWrites \in BOOLEAN

VARIABLES
  pool,        \* SessionPool._sessions: the entry of each session, or None
  locked,      \* entry.lock: is it held?
  waiters,     \* entry.lock: the requests that wait, first come first served
  cfIo,        \* entry.cf.io: the request whose adapter is installed
  lastUsed,    \* entry.last_used
  memory,      \* entry.cf.memory_manager: the turns in the session's memory
  disk,        \* ~/.confucius/sessions/<sid>/memory: the turns in the file
  handler,     \* where the HTTP handler of each request is
  agent,       \* where the agent run of each request is
  using,       \* pool_entry: the entry a handler got from acquire
  agentIo,     \* the adapter the agent's context captured
  slotQueue,   \* waiters of _AGENT_SEMAPHORE, first come first served
  now,         \* time.time()
  busy,        \* the handler that holds the event loop, or None
  displaced,   \* history: sessions whose entry left the pool while in use
  restarts     \* number of restarts so far

entryVars == <<locked, waiters, cfIo, lastUsed, memory>>
vars == <<pool, locked, waiters, cfIo, lastUsed, memory, disk, handler, agent,
          using, agentIo, slotQueue, now, busy, displaced, restarts>>

MaybeRequest == Requests \cup {None}
HandlerStates == {"new", "lockWait", "held", "awaitAgent", "released",
                  "replied", "lost"}
AgentStates == {"none", "created", "slotWait", "running", "ended",
                "cancelled", "killed"}

\* The type invariant.
TypeOK ==
  /\ pool \in [Sids -> MaybeRequest]
  /\ locked \in [Requests -> BOOLEAN]
  /\ waiters \in [Requests -> Seq(Requests)]
  /\ cfIo \in [Requests -> MaybeRequest]
  /\ lastUsed \in [Requests -> 0..MaxTime]
  /\ memory \in [Requests -> SUBSET Requests]
  /\ disk \in [Sids -> SUBSET Requests]
  /\ handler \in [Requests -> HandlerStates]
  /\ agent \in [Requests -> AgentStates]
  /\ using \in [Requests -> MaybeRequest]
  /\ agentIo \in [Requests -> MaybeRequest]
  /\ slotQueue \in Seq(Requests)
  /\ now \in 0..MaxTime
  /\ busy \in MaybeRequest
  /\ displaced \in SUBSET Sids
  /\ restarts \in 0..MaxRestarts

Init ==
  /\ pool = [s \in Sids |-> None]
  /\ locked = [e \in Requests |-> FALSE]
  /\ waiters = [e \in Requests |-> << >>]
  /\ cfIo = [e \in Requests |-> None]
  /\ lastUsed = [e \in Requests |-> 0]
  /\ memory = [e \in Requests |-> {}]
  /\ disk = [s \in Sids |-> {}]
  /\ handler = [r \in Requests |-> "new"]
  /\ agent = [r \in Requests |-> "none"]
  /\ using = [r \in Requests |-> None]
  /\ agentIo = [r \in Requests |-> None]
  /\ slotQueue = << >>
  /\ now = 0
  /\ busy = None
  /\ displaced = {}
  /\ restarts = 0

-----------------------------------------------------------------------------
(***************************************************************************)
(* Removing entries from the pool                                          *)
(***************************************************************************)

Live == {s \in Sids : pool[s] # None}

\* A handler or an agent still works with entry e.
InUse(e) ==
  \E r \in Requests :
    /\ using[r] = e
    /\ \/ handler[r] \in {"lockWait", "held", "awaitAgent"}
       \/ agent[r] \in {"created", "slotWait", "running"}

\* Mutant of Saved: save(overwrite=False), an existing file is left alone.
Saved_NoOverwrite(s) == IF disk[s] # {} THEN disk[s] ELSE memory[pool[s]]

\* What session s has on disk after its pool entry is saved: the file is
\* overwritten, unless the memory is empty (CfMemoryManager.save).
Saved(s) == IF memory[pool[s]] = {} THEN disk[s] ELSE memory[pool[s]]

\* Mutant of DiskWithout: an entry is dropped without being saved.
DiskWithout_Unsaved(gone) == disk

\* The files after the entries of the sessions in gone were popped and saved.
DiskWithout(gone) == [s \in Sids |-> IF s \in gone THEN Saved(s) ELSE disk[s]]

DisplacedBy(gone) == {s \in gone : InUse(pool[s])}

\* _evict_oldest: at capacity one entry with the least last_used goes; whether
\* it is in use is not looked at.
Oldest == {s \in Live : \A t \in Live : lastUsed[pool[s]] <= lastUsed[pool[t]]}
Evictions == IF Cardinality(Live) >= MaxSessions THEN {{s} : s \in Oldest}
                                                 ELSE {{}}

-----------------------------------------------------------------------------
(***************************************************************************)
(* SessionPool.acquire                                                     *)
(***************************************************************************)

\* Mutant of LockFree: looks at the waiters only.
LockFree_NobodyWaits(e) == waiters[e] = << >>

LockFree(e) == ~locked[e] /\ waiters[e] = << >>

\* The lines after entry.lock.acquire() returned: install the adapter of the
\* request.  The handler goes on without suspending.
TakeLock(r, e) ==
  /\ locked' = [locked EXCEPT ![e] = TRUE]
  /\ cfIo' = [cfIo EXCEPT ![e] = r]
  /\ lastUsed' = [lastUsed EXCEPT ![e] = now]
  /\ handler' = [handler EXCEPT ![r] = "held"]
  /\ busy' = r

\* The session is in the pool and its lock is free.
AcquireFree(r) ==
  LET e == pool[SidOf[r]] IN
  /\ busy = None
  /\ handler[r] = "new"
  /\ e # None
  /\ LockFree(e)
  /\ using' = [using EXCEPT ![r] = e]
  /\ TakeLock(r, e)
  /\ UNCHANGED <<pool, waiters, memory, disk, agent, agentIo, slotQueue, now,
                 displaced, restarts>>

\* Mutant of AcquireWait: installs the adapter before it has the lock.
AcquireWait_EarlyIo(r) ==
  LET e == pool[SidOf[r]] IN
  /\ busy = None
  /\ handler[r] = "new"
  /\ e # None
  /\ ~LockFree(e)
  /\ using' = [using EXCEPT ![r] = e]
  /\ waiters' = [waiters EXCEPT ![e] = Append(@, r)]
  /\ cfIo' = [cfIo EXCEPT ![e] = r]
  /\ handler' = [handler EXCEPT ![r] = "lockWait"]
  /\ UNCHANGED <<pool, locked, lastUsed, memory, disk, agent, agentIo,
                 slotQueue, now, busy, displaced, restarts>>

\* The session is in the pool and its lock is not free: the request waits.
AcquireWait(r) ==
  LET e == pool[SidOf[r]] IN
  /\ busy = None
  /\ handler[r] = "new"
  /\ e # None
  /\ ~LockFree(e)
  /\ using' = [using EXCEPT ![r] = e]
  /\ waiters' = [waiters EXCEPT ![e] = Append(@, r)]
  /\ handler' = [handler EXCEPT ![r] = "lockWait"]
  /\ UNCHANGED <<pool, locked, cfIo, lastUsed, memory, disk, agent, agentIo,
                 slotQueue, now, busy, displaced, restarts>>

\* Mutant of AcquireCreate: starts fresh, cf.load() is forgotten.
AcquireCreate_NoLoad(r) ==
  LET s == SidOf[r] IN
  /\ busy = None
  /\ handler[r] = "new"
  /\ pool[s] = None
  /\ \E gone \in Evictions :
       /\ pool' = [x \in Sids |-> IF x = s THEN r
                                  ELSE IF x \in gone THEN None ELSE pool[x]]
       /\ disk' = DiskWithout(gone)
       /\ displaced' = displaced \cup DisplacedBy(gone)
  /\ using' = [using EXCEPT ![r] = r]
  /\ TakeLock(r, r)
  /\ UNCHANGED <<waiters, memory, agent, agentIo, slotQueue, now, restarts>>

\* The session is not in the pool: at capacity an entry is evicted, then a new
\* entry is made from what the session has on disk; its lock is free.
AcquireCreate(r) ==
  LET s == SidOf[r] IN
  /\ busy = None
  /\ handler[r] = "new"
  /\ pool[s] = None
  /\ \E gone \in Evictions :
       /\ pool' = [x \in Sids |-> IF x = s THEN r
                                  ELSE IF x \in gone THEN None ELSE pool[x]]
       /\ disk' = DiskWithout(gone)
       /\ displaced' = displaced \cup DisplacedBy(gone)
  /\ memory' = [memory EXCEPT ![r] = disk[s]]
  /\ using' = [using EXCEPT ![r] = r]
  /\ TakeLock(r, r)
  /\ UNCHANGED <<waiters, agent, agentIo, slotQueue, now, restarts>>

\* The first waiter resumes inside acquire once the lock has been released.
LockGranted(r) ==
  LET e == using[r] IN
  /\ busy = None
  /\ handler[r] = "lockWait"
  /\ ~locked[e]
  /\ waiters[e] # << >>
  /\ Head(waiters[e]) = r
  /\ waiters' = [waiters EXCEPT ![e] = Tail(@)]
  /\ TakeLock(r, e)
  /\ UNCHANGED <<pool, memory, disk, agent, using, agentIo, slotQueue, now,
                 displaced, restarts>>

-----------------------------------------------------------------------------
(***************************************************************************)
(* SessionPool.release                                                     *)
(***************************************************************************)

\* Mutant of Release: saves, and forgets to unlock.
Release_StaysLocked(s) ==
  /\ disk' = IF pool[s] = None THEN disk ELSE [disk EXCEPT ![s] = Saved(s)]
  /\ UNCHANGED locked

\* The entry is looked up by session id, and may be another than the one the
\* caller acquired, or none at all.  Then nothing is saved and nothing unlocked.
Release(s) ==
  IF pool[s] = None
  THEN UNCHANGED <<disk, locked>>
  ELSE /\ disk' = [disk EXCEPT ![s] = Saved(s)]
       /\ locked' = [locked EXCEPT ![pool[s]] = FALSE]

-----------------------------------------------------------------------------
(***************************************************************************)
(* The agent run                                                           *)
(***************************************************************************)

Running == {r \in Requests : agent[r] = "running"}

\* Inside `async with _AGENT_SEMAPHORE': the agents that run, and the handlers of
\* requests that do not stream, which stay inside while they await the storing of
\* critical facts and make the response.
SlotHolders ==
  Running \cup {r \in Requests \ Streams :
                 agent[r] = "ended" /\ handler[r] = "awaitAgent"}
SlotsFree == Cardinality(SlotHolders) < AgentSlots

\* invoke_analect: the context captures the adapter that is installed now.
BeginAgent(r) ==
  /\ agent' = [agent EXCEPT ![r] = "running"]
  /\ agentIo' = [agentIo EXCEPT ![r] = cfIo[using[r]]]

\* The agent's coroutine reaches `async with _AGENT_SEMAPHORE': a non-streaming
\* handler goes straight on to it, a streaming one left it to a task.
ReachSemaphore(r) ==
  /\ \/ /\ r \notin Streams /\ handler[r] = "held" /\ busy = r
        /\ handler' = [handler EXCEPT ![r] = "awaitAgent"]
     \/ /\ agent[r] = "created" /\ busy = None
        /\ UNCHANGED handler
  /\ busy' = None
  /\ \/ /\ SlotsFree /\ slotQueue = << >>
        /\ BeginAgent(r)
        /\ UNCHANGED slotQueue
     \/ /\ ~(SlotsFree /\ slotQueue = << >>)
        /\ slotQueue' = Append(slotQueue, r)
        /\ agent' = [agent EXCEPT ![r] = "slotWait"]
        /\ UNCHANGED agentIo
  /\ UNCHANGED <<pool, entryVars, disk, using, now, displaced, restarts>>

SlotGranted(r) ==
  /\ busy = None
  /\ agent[r] = "slotWait"
  /\ slotQueue # << >>
  /\ Head(slotQueue) = r
  /\ SlotsFree
  /\ slotQueue' = Tail(slotQueue)
  /\ BeginAgent(r)
  /\ UNCHANGED <<pool, entryVars, disk, handler, using, now, busy, displaced,
                 restarts>>

\* The agent run ends: with an answer, with an error or by cancellation.  Either
\* way its messages are consolidated into the memory of its entry.
AgentEnds(r) ==
  /\ busy = None
  /\ agent[r] = "running"
  /\ agent' = [agent EXCEPT ![r] = "ended"]
  /\ memory' = [memory EXCEPT ![using[r]] = @ \cup {r}]
  /\ UNCHANGED <<pool, locked, waiters, cfIo, lastUsed, disk, handler, using,
                 agentIo, slotQueue, now, busy, displaced, restarts>>

\* Mutant of ClientDisconnects: the cancelled task stays in the queue.
ClientDisconnects_StaysQueued(r) ==
  /\ busy = None
  /\ r \in Streams
  /\ handler[r] = "replied"
  /\ agent[r] \in {"created", "slotWait"}
  /\ agent' = [agent EXCEPT ![r] = "cancelled"]
  /\ UNCHANGED <<pool, entryVars, disk, handler, using, agentIo, slotQueue, now,
                 busy, displaced, restarts>>

\* The client of a stream goes away before the agent has a slot: sse_stream
\* cancels the task, which never runs the agent.
ClientDisconnects(r) ==
  /\ busy = None
  /\ r \in Streams
  /\ handler[r] = "replied"
  /\ \/ agent[r] = "created" /\ UNCHANGED slotQueue
     \/ /\ agent[r] = "slotWait"
        /\ \E i \in 1..Len(slotQueue) :
             slotQueue[i] = r /\ slotQueue' = RemoveAt(slotQueue, i)
  /\ agent' = [agent EXCEPT ![r] = "cancelled"]
  /\ UNCHANGED <<pool, entryVars, disk, handler, using, agentIo, now, busy,
                 displaced, restarts>>

-----------------------------------------------------------------------------
(***************************************************************************)
(* The handler's `finally': release, then the reply                        *)
(***************************************************************************)

\* stream = false: the agent is done, the handler leaves the semaphore and its
\* try block.
HandlerReturns(r) ==
  /\ busy = None
  /\ r \notin Streams
  /\ handler[r] = "awaitAgent"
  /\ agent[r] = "ended"
  /\ Release(SidOf[r])
  /\ handler' = [handler EXCEPT ![r] = "released"]
  /\ UNCHANGED <<pool, waiters, cfIo, lastUsed, memory, agent, using, agentIo,
                 slotQueue, now, busy, displaced, restarts>>

\* stream = true: run_agent becomes a task and the response object is returned,
\* so the same `finally' runs before the task does.
StreamingHandlerReturns(r) ==
  /\ busy = r
  /\ r \in Streams
  /\ handler[r] = "held"
  /\ agent' = [agent EXCEPT ![r] = "created"]
  /\ Release(SidOf[r])
  /\ handler' = [handler EXCEPT ![r] = "released"]
  /\ busy' = None
  /\ UNCHANGED <<pool, waiters, cfIo, lastUsed, memory, using, agentIo,
                 slotQueue, now, displaced, restarts>>

\* save_session suspends; then the response is sent.
Reply(r) ==
  /\ busy = None
  /\ handler[r] = "released"
  /\ handler' = [handler EXCEPT ![r] = "replied"]
  /\ UNCHANGED <<pool, entryVars, disk, agent, using, agentIo, slotQueue, now,
                 busy, displaced, restarts>>

-----------------------------------------------------------------------------
(***************************************************************************)
(* Expiry, time and restarts                                               *)
(***************************************************************************)

Expired == {s \in Live : now - lastUsed[pool[s]] > SessionTtl}

CleanupExpired ==
  /\ busy = None
  /\ Expired # {}
  /\ pool' = [s \in Sids |-> IF s \in Expired THEN None ELSE pool[s]]
  /\ disk' = DiskWithout(Expired)
  /\ displaced' = displaced \cup DisplacedBy(Expired)
  /\ UNCHANGED <<entryVars, handler, agent, using, agentIo, slotQueue, now,
                 busy, restarts>>

Tick ==
  /\ busy = None
  /\ now < MaxTime
  /\ now' = now + 1
  /\ UNCHANGED <<pool, entryVars, disk, handler, agent, using, agentIo,
                 slotQueue, busy, displaced, restarts>>

\* The process dies and is started again: the pool is empty, whatever was under
\* way is gone, the files stay as they are.
RestartWith(files) ==
  /\ restarts < MaxRestarts
  /\ restarts' = restarts + 1
  /\ disk' = files
  /\ pool' = [s \in Sids |-> None]
  /\ handler' = [r \in Requests |->
                   IF handler[r] \in {"new", "replied"} THEN handler[r] ELSE "lost"]
  /\ agent' = [r \in Requests |->
                 IF agent[r] \in {"none", "ended", "cancelled"} THEN agent[r]
                                                                ELSE "killed"]
  /\ slotQueue' = << >>
  /\ busy' = None
  /\ UNCHANGED <<entryVars, using, agentIo, now, displaced>>

Restart == RestartWith(disk)

\* Path.write_text truncates the file and then writes it.  A crash in between
\* leaves a file that load() cannot parse, and the session starts fresh.  A save
\* is that of a release, of the clean-up or of an eviction.
Releases(r) ==
  \/ handler[r] = "awaitAgent" /\ agent[r] = "ended"
  \/ handler[r] = "held" /\ busy = r /\ r \in Streams
Saves(s) ==
  \/ \E r \in Requests : SidOf[r] = s /\ Releases(r)
  \/ busy = None /\ s \in Expired
  \/ /\ busy = None
     /\ {s} \in Evictions
     /\ \E r \in Requests : handler[r] = "new" /\ pool[SidOf[r]] = None

RestartInSave ==
  /\ TornWrites
  /\ \E s \in Live :
       /\ memory[pool[s]] # {}
       /\ Saves(s)
       /\ RestartWith([disk EXCEPT ![s] = {}])

-----------------------------------------------------------------------------
RequestStep(r) ==
  \/ AcquireFree(r)
  \/ AcquireWait(r)
  \/ AcquireCreate(r)
  \/ LockGranted(r)
  \/ ReachSemaphore(r)
  \/ SlotGranted(r)
  \/ AgentEnds(r)
  \/ ClientDisconnects(r)
  \/ HandlerReturns(r)
  \/ StreamingHandlerReturns(r)
  \/ Reply(r)

Next ==
  \/ \E r \in Requests : RequestStep(r)
  \/ CleanupExpired
  \/ Tick
  \/ Restart
  \/ RestartInSave

Spec == Init /\ [][Next]_vars

\* The event loop runs every coroutine that is ready, and an agent run ends: its
\* loop is bounded by max_iterations and its calls by timeouts.  Nothing makes a
\* client send or hang up, time pass, or the process die.
Progress(r) ==
  \/ LockGranted(r) \/ ReachSemaphore(r) \/ SlotGranted(r) \/ AgentEnds(r)
  \/ HandlerReturns(r) \/ StreamingHandlerReturns(r) \/ Reply(r)

FairSpec == Spec /\ \A r \in Requests : WF_vars(Progress(r))

-----------------------------------------------------------------------------
(***************************************************************************)
(* Properties                                                              *)
(***************************************************************************)

\* A session all of whose requests are non-streaming and whose entry was never
\* taken out of the pool while somebody was using it.
Quiet(s) ==
  /\ s \notin displaced
  /\ \A r \in Requests : SidOf[r] = s => r \notin Streams

\* r is between the return of acquire and its release.
Holds(r) == handler[r] \in {"held", "awaitAgent"}

\* The turn of r is over, as its client sees it.
Answered(r) == handler[r] = "replied" /\ agent[r] = "ended"

\* SessionPool: "per-session lock to serialize requests (the orchestrator is
\* not concurrent-safe)".  No two agents run on one session, of the sessions for
\* which the code achieves it.
QuietSessionsSerial ==
  \A q, r \in Running : SidOf[q] = SidOf[r] /\ Quiet(SidOf[q]) => q = r

\* acquire: the lock "prevents two concurrent requests for the same session from
\* overwriting each other's IO adapter".  An agent writes to its own client, in
\* the sessions for which the code achieves it.
QuietSessionsOwnOutput ==
  \A r \in Running : Quiet(SidOf[r]) => agentIo[r] = r

\* The lock of the entry in the pool is held exactly while one request of the
\* session is between acquire and release: it never leaks, and it is never
\* released under its holder by somebody else.
QuietLockDiscipline ==
  \A s \in Live : Quiet(s) =>
    (locked[pool[s]] <=>
       Cardinality({r \in Requests : SidOf[r] = s /\ Holds(r)}) = 1)

\* "Its own memory (persisted across requests in the same session)": once the
\* client has its answer, the turn is where the next request of the session will
\* find it: in the memory of its entry, or on disk when it has none.  Streaming
\* or not, as long as the process lives and the entry was not taken away while in
\* use.
UndisplacedTurnsKept ==
  \A r \in Requests :
    LET s == SidOf[r] IN
    Answered(r) /\ s \notin displaced /\ restarts = 0 =>
      r \in IF pool[s] = None THEN disk[s] ELSE memory[pool[s]]

\* A quiet session has every answered turn in its file, whatever happens
\* afterwards: later requests, eviction, expiry or a restart.
QuietDurableTurns ==
  \A r \in Requests :
    Quiet(SidOf[r]) /\ Answered(r) => r \in disk[SidOf[r]]

\* "max 4 concurrent agent loops", and the pool's capacity.
Capacity ==
  /\ Cardinality(SlotHolders) <= AgentSlots
  /\ Cardinality(Live) <= MaxSessions

\* When an agent starts, the memory it starts from holds every turn its session
\* has answered before.
SeesAnsweredTurns ==
  [][\A r \in Requests :
       agent[r] # "running" /\ agent'[r] = "running" /\ Quiet(SidOf[r]) =>
         \A q \in Requests : SidOf[q] = SidOf[r] /\ Answered(q) =>
           q \in memory[using[r]]]_vars

\* "Always release session (save state + unlock)", "Requests beyond this limit
\* queue (wait for a slot) -- they don't fail": every request that came in is
\* answered, unless its client hangs up, the process dies or its session does not
\* stay in the pool while it is used.
UndisplacedRequestAnswered ==
  \A r \in Requests :
    handler[r] # "new" ~>
      \/ Answered(r)
      \/ handler[r] = "lost"
      \/ agent[r] \in {"cancelled", "killed"}
      \/ SidOf[r] \in displaced

-----------------------------------------------------------------------------
(***************************************************************************)
(* The inductive invariant behind the properties of quiet sessions         *)
(***************************************************************************)

InAcquireOrLater(r) == handler[r] \in {"lockWait", "held", "awaitAgent"}

\* A request that has been through acquire has an entry, of its own session, and
\* only such a request has an agent.
HasEntry ==
  \A r \in Requests :
    /\ handler[r] # "new" => using[r] \in Requests /\ SidOf[using[r]] = SidOf[r]
    /\ agent[r] # "none" => handler[r] # "new"

EntryOfSession == \A s \in Live : SidOf[pool[s]] = s

\* What a request of an undisplaced session waits for or holds is in the pool.
InPool ==
  \A r \in Requests :
    SidOf[r] \notin displaced /\ InAcquireOrLater(r) => pool[SidOf[r]] = using[r]

\* The agent of a non-streaming request runs inside its handler.
AgentInHandler ==
  \A r \in Requests \ Streams :
    /\ agent[r] # "created"
    /\ agent[r] \in {"slotWait", "running"} => handler[r] = "awaitAgent"
    /\ handler[r] \in {"released", "replied"} => agent[r] = "ended"

\* One holder per session; it has the lock, its adapter is the one installed and
\* the one its agent writes to.
OneHolder ==
  \A r \in Requests : Quiet(SidOf[r]) /\ Holds(r) =>
    /\ \A q \in Requests : SidOf[q] = SidOf[r] /\ Holds(q) => q = r
    /\ locked[using[r]]
    /\ cfIo[using[r]] = r
    /\ agent[r] = "running" => agentIo[r] = r

\* A lock that is held has a holder.
LockHasHolder ==
  \A s \in Live : Quiet(s) /\ locked[pool[s]] =>
    \E r \in Requests : SidOf[r] = s /\ Holds(r)

\* The memory of the entry holds what is on disk and the turn about to be saved,
\* and the file holds every turn whose request was released.
MemoryAhead ==
  /\ \A s \in Live : Quiet(s) => disk[s] \subseteq memory[pool[s]]
  /\ \A r \in Requests : Quiet(SidOf[r]) =>
       /\ handler[r] = "awaitAgent" /\ agent[r] = "ended" => r \in memory[using[r]]
       /\ handler[r] \in {"released", "replied"} => r \in disk[SidOf[r]]

\* The session discipline of the server, as an inductive invariant.
SessionInv ==
  /\ HasEntry
  /\ EntryOfSession
  /\ InPool
  /\ AgentInHandler
  /\ OneHolder
  /\ LockHasHolder
  /\ TornWrites \/ MemoryAhead
=============================================================================
