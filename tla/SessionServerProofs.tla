------------------------ MODULE SessionServerProofs ------------------------
(***************************************************************************)
(* Theorems about SessionServer, for any sets of requests and sessions and *)
(* any bounds.                                                             *)
(***************************************************************************)
EXTENDS SessionServerRefinement, SequenceTheorems, FiniteSetTheorems, TLAPS

\* Removing the waiter at position i leaves a queue of requests.
LEMMA RemoveAtType ==
  ASSUME NEW S, NEW q \in Seq(S), NEW i \in 1..Len(q)
  PROVE  RemoveAt(q, i) \in Seq(S)
<1>1. Len(q) \in Nat /\ \A j \in 1..Len(q) : q[j] \in S
  BY ElementOfSeq, LenProperties
<1>2. SubSeq(q, 1, i-1) \in Seq(S)
  BY <1>1, SubSeqProperties
<1>3. SubSeq(q, i+1, Len(q)) \in Seq(S)
  BY <1>1, SubSeqProperties
<1> QED
  BY <1>2, <1>3, ConcatProperties DEF RemoveAt

LEMMA DiskWithoutType ==
  ASSUME TypeOK, NEW gone \in SUBSET Live
  PROVE  DiskWithout(gone) \in [Sids -> SUBSET Requests]
BY RequestsAssumption DEF TypeOK, DiskWithout, Saved, Live, MaybeRequest

LEMMA ReleaseType ==
  ASSUME TypeOK, NEW s \in Sids, Release(s)
  PROVE  /\ disk' \in [Sids -> SUBSET Requests]
         /\ locked' \in [Requests -> BOOLEAN]
<1>1. CASE pool[s] = None
  BY <1>1 DEF Release, TypeOK
<1>2. CASE pool[s] # None
  <2>1. pool[s] \in Requests /\ Saved(s) \in SUBSET Requests
    BY <1>2 DEF TypeOK, MaybeRequest, Saved
  <2>2. disk \in [Sids -> SUBSET Requests] /\ locked \in [Requests -> BOOLEAN]
    BY DEF TypeOK
  <2>3. disk' = [disk EXCEPT ![s] = Saved(s)] /\ locked' = [locked EXCEPT ![pool[s]] = FALSE]
    BY <1>2 DEF Release
  <2> QED
    BY <2>1, <2>2, <2>3
<1> QED
  BY <1>1, <1>2

\* The sets acquire may evict consist of sessions that are in the pool.
LEMMA EvictionsAreLive ==
  \A gone \in Evictions : gone \in SUBSET Live
BY DEF Evictions, Oldest

\* The type invariant is inductive together with HasEntry.
LEMMA TypeStep ==
  ASSUME TypeOK, HasEntry, [Next]_vars
  PROVE  TypeOK'
<1> USE RequestsAssumption, BoundsAssumption DEF MaybeRequest, HandlerStates,
        AgentStates
<1>1. ASSUME NEW r \in Requests, AcquireFree(r)
      PROVE  TypeOK'
  BY <1>1 DEF TypeOK, AcquireFree, TakeLock
<1>2. ASSUME NEW r \in Requests, AcquireWait(r)
      PROVE  TypeOK'
  <2>1. /\ pool[SidOf[r]] \in Requests
        /\ waiters' = [waiters EXCEPT ![pool[SidOf[r]]] = Append(@, r)]
        /\ handler' = [handler EXCEPT ![r] = "lockWait"]
        /\ using' = [using EXCEPT ![r] = pool[SidOf[r]]]
    BY <1>2 DEF TypeOK, AcquireWait
  <2>2. UNCHANGED <<pool, locked, cfIo, lastUsed, memory, disk, agent, agentIo, slotQueue, now, busy,
                    displaced, restarts>>
    BY <1>2 DEF AcquireWait, entryVars
  <2>3. waiters' \in [Requests -> Seq(Requests)]
    BY <2>1 DEF TypeOK
  <2> QED
    BY <2>1, <2>2, <2>3 DEF TypeOK
<1>3. ASSUME NEW r \in Requests, AcquireCreate(r)
      PROVE  TypeOK'
  <2>1. PICK gone \in Evictions :
          /\ pool' = [x \in Sids |-> IF x = SidOf[r] THEN r
                                     ELSE IF x \in gone THEN None ELSE pool[x]]
          /\ disk' = DiskWithout(gone)
          /\ displaced' = displaced \cup DisplacedBy(gone)
    BY <1>3 DEF AcquireCreate
  <2>2. gone \in SUBSET Live /\ DisplacedBy(gone) \in SUBSET Sids
    BY <2>1, EvictionsAreLive DEF DisplacedBy, Live
  <2>3. disk' \in [Sids -> SUBSET Requests]
    BY <2>1, <2>2, DiskWithoutType
  <2>4. pool' \in [Sids -> MaybeRequest] /\ displaced' \in SUBSET Sids
    BY <2>1, <2>2 DEF TypeOK
  <2> QED
    BY <1>3, <2>3, <2>4 DEF TypeOK, AcquireCreate, TakeLock
<1>4. ASSUME NEW r \in Requests, LockGranted(r)
      PROVE  TypeOK'
  <2>1. using[r] \in Requests
    BY <1>4 DEF TypeOK, HasEntry, LockGranted
  <2>2. Tail(waiters[using[r]]) \in Seq(Requests)
    BY <1>4, <2>1, HeadTailProperties DEF TypeOK, LockGranted
  <2> QED
    BY <1>4, <2>1, <2>2 DEF TypeOK, LockGranted, TakeLock
<1>5. ASSUME NEW r \in Requests, ReachSemaphore(r)
      PROVE  TypeOK'
  <2>1. using[r] \in Requests
    BY <1>5 DEF TypeOK, HasEntry, ReachSemaphore
  <2>2. handler' \in [Requests -> HandlerStates]
    <3>1. \/ handler' = [handler EXCEPT ![r] = "awaitAgent"]
          \/ handler' = handler
      BY <1>5 DEF ReachSemaphore
    <3> QED
      BY <3>1 DEF TypeOK
  <2> DEFINE Queued == /\ agent' \in [Requests -> AgentStates]
                       /\ agentIo' \in [Requests -> MaybeRequest]
                       /\ slotQueue' \in Seq(Requests)
  <2>3. ASSUME SlotsFree, slotQueue = << >> PROVE Queued
    <3>1. /\ agent' = [agent EXCEPT ![r] = "running"]
          /\ agentIo' = [agentIo EXCEPT ![r] = cfIo[using[r]]]
          /\ slotQueue' = slotQueue
      BY <1>5, <2>3 DEF ReachSemaphore, BeginAgent
    <3> QED
      BY <2>1, <3>1 DEF TypeOK
  <2>4. ASSUME ~(SlotsFree /\ slotQueue = << >>) PROVE Queued
    <3>1. /\ agent' = [agent EXCEPT ![r] = "slotWait"]
          /\ agentIo' = agentIo
          /\ slotQueue' = Append(slotQueue, r)
      BY <1>5, <2>4 DEF ReachSemaphore
    <3> QED
      BY <3>1 DEF TypeOK
  <2>5. Queued
    BY <2>3, <2>4
  <2>6. busy' = None
    BY <1>5 DEF ReachSemaphore
  <2>7. UNCHANGED <<pool, entryVars, disk, using, now, displaced, restarts>>
    BY <1>5 DEF ReachSemaphore
  <2> QED
    BY <2>2, <2>5, <2>6, <2>7 DEF TypeOK, entryVars
<1>6. ASSUME NEW r \in Requests, SlotGranted(r)
      PROVE  TypeOK'
  <2>1. Tail(slotQueue) \in Seq(Requests)
    BY <1>6, HeadTailProperties DEF TypeOK, SlotGranted
  <2>2. using[r] \in Requests
    BY <1>6 DEF TypeOK, HasEntry, SlotGranted
  <2> QED
    BY <1>6, <2>1, <2>2 DEF TypeOK, SlotGranted, BeginAgent, entryVars
<1>7. ASSUME NEW r \in Requests, AgentEnds(r)
      PROVE  TypeOK'
  BY <1>7 DEF TypeOK, HasEntry, AgentEnds
<1>8. ASSUME NEW r \in Requests, ClientDisconnects(r)
      PROVE  TypeOK'
  <2>1. slotQueue' \in Seq(Requests)
    BY <1>8, RemoveAtType DEF TypeOK, ClientDisconnects
  <2> QED
    BY <1>8, <2>1 DEF TypeOK, ClientDisconnects, entryVars
<1>9. ASSUME NEW r \in Requests, HandlerReturns(r)
      PROVE  TypeOK'
  <2>1. SidOf[r] \in Sids /\ Release(SidOf[r])
    BY <1>9 DEF HandlerReturns
  <2>2. /\ disk' \in [Sids -> SUBSET Requests]
        /\ locked' \in [Requests -> BOOLEAN]
    BY <2>1, ReleaseType
  <2> QED
    BY <1>9, <2>2 DEF TypeOK, HandlerReturns
<1>10. ASSUME NEW r \in Requests, StreamingHandlerReturns(r)
       PROVE  TypeOK'
  <2>1. SidOf[r] \in Sids /\ Release(SidOf[r])
    BY <1>10 DEF StreamingHandlerReturns
  <2>2. /\ disk' \in [Sids -> SUBSET Requests]
        /\ locked' \in [Requests -> BOOLEAN]
    BY <2>1, ReleaseType
  <2> QED
    BY <1>10, <2>2 DEF TypeOK, StreamingHandlerReturns
<1>11. ASSUME NEW r \in Requests, Reply(r)
       PROVE  TypeOK'
  BY <1>11 DEF TypeOK, Reply, entryVars
<1>12. CASE CleanupExpired
  <2>1. Expired \in SUBSET Live /\ DisplacedBy(Expired) \in SUBSET Sids
    BY DEF Expired, DisplacedBy, Live
  <2>2. disk' \in [Sids -> SUBSET Requests]
    BY <1>12, <2>1, DiskWithoutType DEF CleanupExpired
  <2>3. pool' \in [Sids -> MaybeRequest] /\ displaced' \in SUBSET Sids
    BY <1>12, <2>1 DEF TypeOK, CleanupExpired
  <2> QED
    BY <1>12, <2>2, <2>3 DEF TypeOK, CleanupExpired, entryVars
<1>13. CASE Tick
  BY <1>13 DEF TypeOK, Tick, entryVars
<1>14. ASSUME NEW files \in [Sids -> SUBSET Requests], RestartWith(files)
       PROVE  TypeOK'
  BY <1>14 DEF TypeOK, RestartWith, entryVars
<1>15. CASE Restart
  BY <1>14, <1>15 DEF Restart, TypeOK
<1>16. CASE RestartInSave
  <2>1. PICK s \in Sids : RestartWith([disk EXCEPT ![s] = {}])
    BY <1>16 DEF RestartInSave, Live
  <2>2. [disk EXCEPT ![s] = {}] \in [Sids -> SUBSET Requests]
    BY DEF TypeOK
  <2> QED
    BY <1>14, <2>1, <2>2
<1>17. CASE UNCHANGED vars
  BY <1>17 DEF TypeOK, vars
<1> QED
  BY <1>1, <1>2, <1>3, <1>4, <1>5, <1>6, <1>7, <1>8, <1>9, <1>10, <1>11, <1>12,
     <1>13, <1>15, <1>16, <1>17 DEF Next, RequestStep

-----------------------------------------------------------------------------
(***************************************************************************)
(* The conjuncts of SessionInv, each preserved by every step               *)
(***************************************************************************)

LEMMA EntryOfSessionStep ==
  ASSUME TypeOK, EntryOfSession, [Next]_vars
  PROVE  EntryOfSession'
<1> USE RequestsAssumption DEF TypeOK, EntryOfSession, Live
<1>1. ASSUME NEW r \in Requests, AcquireCreate(r)
      PROVE  EntryOfSession'
  BY <1>1 DEF AcquireCreate
<1>2. ASSUME NEW r \in Requests,
             \/ AcquireFree(r) \/ AcquireWait(r) \/ LockGranted(r)
             \/ ReachSemaphore(r) \/ SlotGranted(r) \/ AgentEnds(r)
             \/ ClientDisconnects(r) \/ HandlerReturns(r)
             \/ StreamingHandlerReturns(r) \/ Reply(r)
      PROVE  EntryOfSession'
  BY <1>2 DEF AcquireFree, AcquireWait, LockGranted, ReachSemaphore, SlotGranted,
     AgentEnds, ClientDisconnects, HandlerReturns, StreamingHandlerReturns, Reply
<1>3. ASSUME NEW files, RestartWith(files)
      PROVE  EntryOfSession'
  BY <1>3 DEF RestartWith
<1>4. CASE CleanupExpired
  BY <1>4 DEF CleanupExpired
<1>5. CASE Tick \/ UNCHANGED vars
  BY <1>5 DEF Tick, vars
<1> QED
  BY <1>1, <1>2, <1>3, <1>4, <1>5 DEF Next, RequestStep, Restart, RestartInSave

LEMMA HasEntryStep ==
  ASSUME TypeOK, HasEntry, EntryOfSession, [Next]_vars
  PROVE  HasEntry'
<1> USE RequestsAssumption DEF TypeOK, HasEntry
<1>1. ASSUME NEW r \in Requests,
             AcquireFree(r) \/ AcquireWait(r) \/ AcquireCreate(r)
      PROVE  HasEntry'
  <2>1. /\ using'[r] \in Requests /\ SidOf[using'[r]] = SidOf[r]
        /\ handler'[r] # "new"
    BY <1>1 DEF AcquireFree, AcquireWait, AcquireCreate, TakeLock, MaybeRequest,
       EntryOfSession, Live
  <2>2. \A q \in Requests \ {r} : using'[q] = using[q] /\ handler'[q] = handler[q]
    BY <1>1 DEF AcquireFree, AcquireWait, AcquireCreate, TakeLock
  <2>3. agent' = agent
    BY <1>1 DEF AcquireFree, AcquireWait, AcquireCreate
  <2> QED
    BY <2>1, <2>2, <2>3
<1>2. ASSUME NEW r \in Requests,
             \/ LockGranted(r) \/ ReachSemaphore(r) \/ SlotGranted(r)
             \/ AgentEnds(r) \/ ClientDisconnects(r) \/ HandlerReturns(r)
             \/ StreamingHandlerReturns(r) \/ Reply(r)
      PROVE  HasEntry'
  <2>1. using' = using
    BY <1>2 DEF LockGranted, ReachSemaphore, SlotGranted, AgentEnds,
       ClientDisconnects, HandlerReturns, StreamingHandlerReturns, Reply
  <2>2. /\ handler[r] # "new" /\ handler'[r] # "new"
        /\ \A q \in Requests \ {r} : handler'[q] = handler[q]
    BY <1>2 DEF LockGranted, ReachSemaphore, SlotGranted, AgentEnds, TakeLock,
       ClientDisconnects, HandlerReturns, StreamingHandlerReturns, Reply
  <2>3. \A q \in Requests \ {r} : agent'[q] = agent[q]
    BY <1>2 DEF LockGranted, ReachSemaphore, SlotGranted, AgentEnds, BeginAgent,
       ClientDisconnects, HandlerReturns, StreamingHandlerReturns, Reply
  <2> QED
    BY <2>1, <2>2, <2>3
<1>3. ASSUME NEW files, RestartWith(files)
      PROVE  HasEntry'
  BY <1>3 DEF RestartWith
<1>4. CASE CleanupExpired \/ Tick \/ UNCHANGED vars
  BY <1>4 DEF CleanupExpired, Tick, vars
<1> QED
  BY <1>1, <1>2, <1>3, <1>4 DEF Next, RequestStep, Restart, RestartInSave

LEMMA InPoolStep ==
  ASSUME TypeOK, HasEntry, InPool, [Next]_vars
  PROVE  InPool'
<1> USE RequestsAssumption DEF TypeOK, InPool, InAcquireOrLater
<1>1. ASSUME NEW r \in Requests, AcquireFree(r) \/ AcquireWait(r)
      PROVE  InPool'
  <2>1. /\ UNCHANGED <<pool, displaced>>
        /\ using'[r] = pool[SidOf[r]]
        /\ \A q \in Requests \ {r} : using'[q] = using[q] /\ handler'[q] = handler[q]
    BY <1>1 DEF AcquireFree, AcquireWait, TakeLock
  <2> QED
    BY <2>1
<1>2. ASSUME NEW r \in Requests, AcquireCreate(r)
      PROVE  InPool'
  <2>1. PICK gone \in Evictions :
          /\ pool' = [x \in Sids |-> IF x = SidOf[r] THEN r
                                     ELSE IF x \in gone THEN None ELSE pool[x]]
          /\ displaced' = displaced \cup DisplacedBy(gone)
    BY <1>2 DEF AcquireCreate
  <2>2. /\ using'[r] = r
        /\ \A q \in Requests \ {r} : using'[q] = using[q] /\ handler'[q] = handler[q]
    BY <1>2 DEF AcquireCreate, TakeLock
  <2>3. ASSUME NEW q \in Requests \ {r}, SidOf[q] \notin displaced',
               InAcquireOrLater(q)
        PROVE  SidOf[q] # SidOf[r] /\ SidOf[q] \notin gone
    <3>1. pool[SidOf[q]] = using[q] /\ using[q] \in Requests
      BY <2>1, <2>3 DEF HasEntry
    <3>2. SidOf[q] # SidOf[r]
      BY <1>2, <3>1 DEF AcquireCreate
    <3>3. InUse(pool[SidOf[q]])
      BY <2>3, <3>1 DEF InUse
    <3> QED
      BY <2>1, <2>3, <3>2, <3>3 DEF DisplacedBy
  <2> QED
    BY <2>1, <2>2, <2>3
<1>3. ASSUME NEW r \in Requests,
             \/ LockGranted(r) \/ ReachSemaphore(r) \/ SlotGranted(r)
             \/ AgentEnds(r) \/ ClientDisconnects(r) \/ HandlerReturns(r)
             \/ StreamingHandlerReturns(r) \/ Reply(r)
      PROVE  InPool'
  <2>1. UNCHANGED <<using, pool, displaced>>
    BY <1>3 DEF LockGranted, ReachSemaphore, SlotGranted, AgentEnds,
       ClientDisconnects, HandlerReturns, StreamingHandlerReturns, Reply
  <2>2. \A q \in Requests : InAcquireOrLater(q)' => InAcquireOrLater(q)
    BY <1>3 DEF LockGranted, ReachSemaphore, SlotGranted, AgentEnds, TakeLock,
       ClientDisconnects, HandlerReturns, StreamingHandlerReturns, Reply
  <2> QED
    BY <2>1, <2>2
<1>4. ASSUME NEW files, RestartWith(files)
      PROVE  InPool'
  BY <1>4 DEF RestartWith
<1>5. CASE CleanupExpired
  <2>1. UNCHANGED <<using, handler>>
    BY <1>5 DEF CleanupExpired
  <2>2. ASSUME NEW q \in Requests, SidOf[q] \notin displaced', InAcquireOrLater(q)
        PROVE  SidOf[q] \notin Expired
    <3>1. pool[SidOf[q]] = using[q]
      BY <1>5, <2>2 DEF CleanupExpired
    <3>2. InUse(pool[SidOf[q]])
      BY <2>2, <3>1 DEF InUse
    <3> QED
      BY <1>5, <2>2, <3>2 DEF CleanupExpired, DisplacedBy
  <2> QED
    BY <1>5, <2>1, <2>2 DEF CleanupExpired
<1>6. CASE Tick \/ UNCHANGED vars
  BY <1>6 DEF Tick, vars
<1> QED
  BY <1>1, <1>2, <1>3, <1>4, <1>5, <1>6 DEF Next, RequestStep, Restart,
     RestartInSave

LEMMA AgentInHandlerStep ==
  ASSUME TypeOK, HasEntry, AgentInHandler, [Next]_vars
  PROVE  AgentInHandler'
<1> USE RequestsAssumption DEF TypeOK, AgentInHandler
<1>1. ASSUME NEW r \in Requests,
             \/ AcquireFree(r) \/ AcquireWait(r) \/ AcquireCreate(r)
             \/ LockGranted(r)
      PROVE  AgentInHandler'
  <2>1. /\ agent' = agent
        /\ handler'[r] \in {"lockWait", "held"}
        /\ handler[r] \in {"new", "lockWait"}
        /\ \A q \in Requests \ {r} : handler'[q] = handler[q]
    BY <1>1 DEF AcquireFree, AcquireWait, AcquireCreate, LockGranted, TakeLock
  <2> QED
    BY <2>1
<1>2. ASSUME NEW r \in Requests, ReachSemaphore(r)
      PROVE  AgentInHandler'
  <2>1. /\ agent'[r] \in {"running", "slotWait"}
        /\ \A q \in Requests \ {r} : agent'[q] = agent[q] /\ handler'[q] = handler[q]
    BY <1>2 DEF ReachSemaphore, BeginAgent
  <2>2. r \in Requests \ Streams => handler'[r] = "awaitAgent"
    BY <1>2 DEF ReachSemaphore
  <2> QED
    BY <2>1, <2>2
<1>3. ASSUME NEW r \in Requests, SlotGranted(r) \/ AgentEnds(r)
      PROVE  AgentInHandler'
  <2>1. /\ handler' = handler
        /\ agent[r] \in {"slotWait", "running"}
        /\ agent'[r] \in {"running", "ended"}
        /\ \A q \in Requests \ {r} : agent'[q] = agent[q]
    BY <1>3 DEF SlotGranted, BeginAgent, AgentEnds
  <2> QED
    BY <2>1
<1>4. ASSUME NEW r \in Requests,
             ClientDisconnects(r) \/ StreamingHandlerReturns(r)
      PROVE  AgentInHandler'
  BY <1>4 DEF ClientDisconnects, StreamingHandlerReturns
<1>5. ASSUME NEW r \in Requests, HandlerReturns(r) \/ Reply(r)
      PROVE  AgentInHandler'
  <2>1. /\ agent' = agent
        /\ handler'[r] \in {"released", "replied"}
        /\ r \in Streams \/ agent[r] = "ended"
        /\ \A q \in Requests \ {r} : handler'[q] = handler[q]
    BY <1>5 DEF HandlerReturns, Reply
  <2> QED
    BY <2>1
<1>6. ASSUME NEW files, RestartWith(files)
      PROVE  AgentInHandler'
  BY <1>6 DEF RestartWith
<1>7. CASE CleanupExpired \/ Tick \/ UNCHANGED vars
  BY <1>7 DEF CleanupExpired, Tick, vars
<1> QED
  BY <1>1, <1>2, <1>3, <1>4, <1>5, <1>6, <1>7 DEF Next, RequestStep, Restart,
     RestartInSave

\* Quiet sessions only become fewer.
LEMMA QuietStep ==
  ASSUME TypeOK, [Next]_vars, NEW s \in Sids, Quiet(s)'
  PROVE  Quiet(s)
<1>1. displaced \subseteq displaced'
  BY DEF Next, RequestStep, AcquireFree, AcquireWait, AcquireCreate, LockGranted,
     ReachSemaphore, SlotGranted, AgentEnds, ClientDisconnects, HandlerReturns,
     StreamingHandlerReturns, Reply, CleanupExpired, Tick, Restart, RestartInSave,
     RestartWith, vars
<1> QED
  BY <1>1 DEF Quiet

\* Nobody holds a quiet session whose entry's lock is free, or that has no entry.
LEMMA NoHolder ==
  ASSUME TypeOK, HasEntry, InPool, OneHolder, NEW s \in Sids, Quiet(s),
         pool[s] = None \/ ~locked[pool[s]],
         NEW q \in Requests, SidOf[q] = s
  PROVE  ~Holds(q)
<1> SUFFICES ASSUME Holds(q) PROVE FALSE
  OBVIOUS
<1>1. handler[q] # "new" /\ InAcquireOrLater(q) /\ s \notin displaced
  BY DEF Holds, InAcquireOrLater, Quiet
<1>2. pool[s] = using[q] /\ using[q] \in Requests
  BY <1>1 DEF InPool, HasEntry
<1>3. locked[using[q]]
  BY DEF OneHolder
<1> QED
  BY <1>2, <1>3, RequestsAssumption

\* A request that takes the lock of a session nobody holds becomes its one holder.
LEMMA TakeOneHolder ==
  ASSUME TypeOK, HasEntry, InPool, AgentInHandler, OneHolder, [Next]_vars,
         NEW r \in Requests, NEW e \in Requests, SidOf[e] = SidOf[r],
         TakeLock(r, e), using' = [using EXCEPT ![r] = e],
         UNCHANGED <<agent, agentIo>>, handler[r] \in {"new", "lockWait"},
         pool[SidOf[r]] = None \/ ~locked[pool[SidOf[r]]]
  PROVE  OneHolder'
<1> USE RequestsAssumption DEF TypeOK
<1>1. /\ \A q \in Requests \ {r} : /\ handler'[q] = handler[q]
                                   /\ using'[q] = using[q]
      /\ using'[r] = e /\ locked'[e] /\ cfIo'[e] = r
      /\ \A x \in Requests \ {e} : locked'[x] = locked[x] /\ cfIo'[x] = cfIo[x]
  BY DEF TakeLock
<1> SUFFICES ASSUME NEW p \in Requests, Quiet(SidOf[p])', Holds(p)'
             PROVE  /\ \A q \in Requests : SidOf[q] = SidOf[p] /\ Holds(q)' => q = p
                    /\ locked'[using'[p]]
                    /\ cfIo'[using'[p]] = p
                    /\ agent'[p] = "running" => agentIo'[p] = p
  BY DEF OneHolder
<1>2. Quiet(SidOf[p]) /\ SidOf[p] \in Sids
  BY QuietStep
<1>3. CASE SidOf[p] = SidOf[r]
  <2>1. \A q \in Requests : SidOf[q] = SidOf[r] => ~Holds(q)
    BY <1>2, <1>3, NoHolder
  <2>2. \A q \in Requests \ {r} : SidOf[q] = SidOf[r] => ~Holds(q)'
    BY <1>1, <2>1 DEF Holds
  <2>3. p = r
    BY <1>3, <2>2
  <2>4. agent[r] # "running"
    BY <1>2, <1>3 DEF AgentInHandler, Quiet
  <2> QED
    BY <1>1, <2>2, <2>3, <2>4
<1>4. CASE SidOf[p] # SidOf[r]
  <2>1. p # r /\ Holds(p) /\ handler[p] # "new"
    BY <1>1, <1>4 DEF Holds
  <2>2. using[p] \in Requests /\ using[p] # e
    BY <1>4, <2>1 DEF HasEntry
  <2>3. \A q \in Requests : SidOf[q] = SidOf[p] /\ Holds(q)' => Holds(q)
    BY <1>1, <1>4 DEF Holds
  <2> QED
    BY <1>1, <1>2, <2>1, <2>2, <2>3 DEF OneHolder
<1> QED
  BY <1>3, <1>4

\* release leaves the one holder of every other session alone.
LEMMA ReleaseOneHolder ==
  ASSUME TypeOK, HasEntry, EntryOfSession, OneHolder, [Next]_vars,
         NEW r \in Requests, Release(SidOf[r]),
         handler' = [handler EXCEPT ![r] = "released"], Holds(r),
         UNCHANGED <<using, cfIo, agentIo>>,
         \A q \in Requests \ {r} : agent'[q] = agent[q]
  PROVE  OneHolder'
<1> USE RequestsAssumption DEF TypeOK
<1> SUFFICES ASSUME NEW p \in Requests, Quiet(SidOf[p])', Holds(p)'
             PROVE  /\ \A q \in Requests : SidOf[q] = SidOf[p] /\ Holds(q)' => q = p
                    /\ locked'[using[p]]
                    /\ cfIo[using[p]] = p
                    /\ agent'[p] = "running" => agentIo[p] = p
  BY DEF OneHolder
<1>1. Quiet(SidOf[p]) /\ SidOf[p] \in Sids /\ SidOf[r] \in Sids
  BY QuietStep
<1>2. p # r /\ Holds(p) /\ \A q \in Requests : Holds(q)' => Holds(q)
  BY DEF Holds
<1>3. SidOf[p] # SidOf[r]
  BY <1>1, <1>2 DEF OneHolder
<1>4. using[p] \in Requests /\ SidOf[using[p]] = SidOf[p]
  BY <1>2 DEF HasEntry, Holds
<1>5. pool[SidOf[r]] # None => pool[SidOf[r]] # using[p]
  BY <1>1, <1>3, <1>4 DEF EntryOfSession, Live
<1>6. locked'[using[p]] = locked[using[p]]
  BY <1>1, <1>4, <1>5 DEF Release
<1> QED
  BY <1>1, <1>2, <1>6 DEF OneHolder

LEMMA OneHolderStep ==
  ASSUME TypeOK, HasEntry, EntryOfSession, InPool, AgentInHandler, OneHolder,
         [Next]_vars
  PROVE  OneHolder'
<1> USE RequestsAssumption DEF TypeOK
<1>1. \A s \in Sids : Quiet(s)' => Quiet(s)
  BY QuietStep
<1>2. ASSUME NEW r \in Requests, AcquireFree(r)
      PROVE  OneHolder'
  <2>1. pool[SidOf[r]] \in Requests /\ SidOf[pool[SidOf[r]]] = SidOf[r]
    BY <1>2 DEF AcquireFree, EntryOfSession, Live, MaybeRequest
  <2> QED
    BY <1>2, <2>1, TakeOneHolder DEF AcquireFree, LockFree
<1>3. ASSUME NEW r \in Requests, AcquireCreate(r)
      PROVE  OneHolder'
  BY <1>3, TakeOneHolder DEF AcquireCreate
<1>4. ASSUME NEW r \in Requests, LockGranted(r)
      PROVE  OneHolder'
  <2>1. handler[r] = "lockWait" /\ using' = using /\ ~locked[using[r]]
    BY <1>4 DEF LockGranted
  <2>2. using[r] \in Requests /\ SidOf[using[r]] = SidOf[r]
    BY <2>1 DEF HasEntry
  <2>3. using' = [using EXCEPT ![r] = using[r]]
    BY <2>1
  <2>4. CASE SidOf[r] \notin displaced
    <3>1. pool[SidOf[r]] = using[r]
      BY <2>1, <2>4 DEF InPool, InAcquireOrLater
    <3> QED
      BY <1>4, <2>1, <2>2, <2>3, <3>1, TakeOneHolder DEF LockGranted
  <2>5. CASE SidOf[r] \in displaced
    <3>1. /\ \A q \in Requests \ {r} : handler'[q] = handler[q]
          /\ \A x \in Requests \ {using[r]} :
                locked'[x] = locked[x] /\ cfIo'[x] = cfIo[x]
          /\ UNCHANGED <<using, agent, agentIo, displaced>>
      BY <1>4 DEF LockGranted, TakeLock
    <3>2. ASSUME NEW p \in Requests, Quiet(SidOf[p]), Holds(p)'
          PROVE  /\ SidOf[p] # SidOf[r] /\ Holds(p)
                 /\ using[p] \in Requests \ {using[r]}
      <4>1. SidOf[p] # SidOf[r]
        BY <2>5, <3>2 DEF Quiet
      <4>2. Holds(p) /\ handler[p] # "new"
        BY <3>1, <3>2, <4>1 DEF Holds
      <4> QED
        BY <2>2, <4>1, <4>2 DEF HasEntry
    <3> QED
      BY <1>1, <3>1, <3>2 DEF OneHolder
  <2> QED
    BY <2>4, <2>5
<1>5. ASSUME NEW r \in Requests, AcquireWait(r) \/ Reply(r)
      PROVE  OneHolder'
  <2>1. /\ UNCHANGED <<locked, cfIo, agent, agentIo>>
        /\ \A q \in Requests : Holds(q)' => Holds(q) /\ using'[q] = using[q]
    BY <1>5 DEF AcquireWait, Reply, Holds, entryVars
  <2> QED
    BY <1>1, <2>1 DEF OneHolder
<1>6. ASSUME NEW r \in Requests, ReachSemaphore(r) \/ SlotGranted(r)
      PROVE  OneHolder'
  <2>1. /\ UNCHANGED <<locked, cfIo, using>>
        /\ \A q \in Requests : Holds(q)' => Holds(q)
        /\ \A q \in Requests \ {r} : agent'[q] = agent[q] /\ agentIo'[q] = agentIo[q]
        /\ agent'[r] = "running" => agentIo'[r] = cfIo[using[r]]
    <3>1. CASE SlotGranted(r)
      BY <3>1 DEF SlotGranted, BeginAgent, Holds, entryVars
    <3>2. CASE ReachSemaphore(r)
      <4>1. UNCHANGED <<locked, cfIo, using>>
        BY <3>2 DEF ReachSemaphore, entryVars
      <4>2. \A q \in Requests : Holds(q)' => Holds(q)
        BY <3>2 DEF ReachSemaphore, Holds
      <4>3. \/ BeginAgent(r)
            \/ agent' = [agent EXCEPT ![r] = "slotWait"] /\ agentIo' = agentIo
        BY <3>2 DEF ReachSemaphore
      <4> QED
        BY <4>1, <4>2, <4>3 DEF BeginAgent
    <3> QED
      BY <1>6, <3>1, <3>2
  <2> SUFFICES ASSUME NEW p \in Requests, Quiet(SidOf[p])', Holds(p)'
               PROVE  /\ \A q \in Requests : SidOf[q] = SidOf[p] /\ Holds(q)' => q = p
                      /\ locked'[using'[p]]
                      /\ cfIo'[using'[p]] = p
                      /\ agent'[p] = "running" => agentIo'[p] = p
    BY DEF OneHolder
  <2>2. Quiet(SidOf[p]) /\ Holds(p)
    BY <1>1, <2>1
  <2>3. /\ \A q \in Requests : SidOf[q] = SidOf[p] /\ Holds(q) => q = p
        /\ locked[using[p]] /\ cfIo[using[p]] = p
        /\ agent[p] = "running" => agentIo[p] = p
    BY <2>2 DEF OneHolder
  <2>4. agent'[p] = "running" => agentIo'[p] = p
    BY <2>1, <2>3
  <2> QED
    BY <2>1, <2>3, <2>4
<1>7. ASSUME NEW r \in Requests, AgentEnds(r) \/ ClientDisconnects(r)
      PROVE  OneHolder'
  <2>1. /\ UNCHANGED <<locked, cfIo, using, agentIo, handler>>
        /\ \A q \in Requests : agent'[q] = "running" => agent[q] = "running"
    BY <1>7 DEF AgentEnds, ClientDisconnects, entryVars
  <2> QED
    BY <1>1, <2>1 DEF OneHolder, Holds
<1>8. ASSUME NEW r \in Requests, HandlerReturns(r) \/ StreamingHandlerReturns(r)
      PROVE  OneHolder'
  <2>1. /\ Release(SidOf[r]) /\ Holds(r)
        /\ handler' = [handler EXCEPT ![r] = "released"]
        /\ UNCHANGED <<using, cfIo, agentIo>>
        /\ \A q \in Requests \ {r} : agent'[q] = agent[q]
    BY <1>8 DEF HandlerReturns, StreamingHandlerReturns, Holds
  <2> QED
    BY <2>1, ReleaseOneHolder
<1>9. ASSUME NEW files, RestartWith(files)
      PROVE  OneHolder'
  <2>1. \A q \in Requests : ~Holds(q)'
    BY <1>9 DEF RestartWith, Holds
  <2> QED
    BY <2>1 DEF OneHolder
<1>10. CASE CleanupExpired \/ Tick \/ UNCHANGED vars
  <2>1. UNCHANGED <<locked, cfIo, using, agentIo, handler, agent>>
    BY <1>10 DEF CleanupExpired, Tick, vars, entryVars
  <2> QED
    BY <1>1, <2>1 DEF OneHolder, Holds
<1> QED
  BY <1>2, <1>3, <1>4, <1>5, <1>6, <1>7, <1>8, <1>9, <1>10 DEF Next,
     RequestStep, Restart, RestartInSave

LEMMA LockHasHolderStep ==
  ASSUME TypeOK, HasEntry, EntryOfSession, LockHasHolder, [Next]_vars
  PROVE  LockHasHolder'
<1> USE RequestsAssumption DEF TypeOK
<1>1. \A s \in Sids : Quiet(s)' => Quiet(s)
  BY QuietStep
<1>2. ASSUME NEW r \in Requests, NEW e \in Requests, SidOf[e] = SidOf[r],
             TakeLock(r, e),
             \A s \in Sids \ {SidOf[r]} : pool'[s] \in {pool[s], None}
      PROVE  LockHasHolder'
  <2> SUFFICES ASSUME NEW s \in Live', Quiet(s)', locked'[pool'[s]]
               PROVE  \E q \in Requests : SidOf[q] = s /\ Holds(q)'
    BY DEF LockHasHolder
  <2>1. CASE s = SidOf[r]
    <3>1. Holds(r)'
      BY <1>2 DEF TakeLock, Holds
    <3> QED
      BY <2>1, <3>1
  <2>2. CASE s # SidOf[r]
    <3>1. s \in Live /\ pool'[s] = pool[s] /\ pool[s] \in Requests
      BY <1>2, <2>2 DEF Live, MaybeRequest
    <3>2. pool[s] # e
      BY <1>2, <2>2, <3>1 DEF EntryOfSession
    <3>3. locked[pool[s]]
      BY <1>2, <3>1, <3>2 DEF TakeLock
    <3>4. PICK q \in Requests : SidOf[q] = s /\ Holds(q)
      BY <1>1, <3>1, <3>3 DEF LockHasHolder, Live
    <3>5. Holds(q)'
      BY <1>2, <2>2, <3>4 DEF TakeLock, Holds
    <3> QED
      BY <3>4, <3>5
  <2> QED
    BY <2>1, <2>2
<1>3. ASSUME NEW r \in Requests, AcquireFree(r)
      PROVE  LockHasHolder'
  <2>1. pool[SidOf[r]] \in Requests /\ SidOf[pool[SidOf[r]]] = SidOf[r]
    BY <1>3 DEF AcquireFree, EntryOfSession, Live, MaybeRequest
  <2> QED
    BY <1>2, <1>3, <2>1 DEF AcquireFree
<1>4. ASSUME NEW r \in Requests, AcquireCreate(r)
      PROVE  LockHasHolder'
  <2>1. \A s \in Sids \ {SidOf[r]} : pool'[s] \in {pool[s], None}
    BY <1>4 DEF AcquireCreate
  <2> QED
    BY <1>2, <1>4, <2>1 DEF AcquireCreate
<1>5. ASSUME NEW r \in Requests, LockGranted(r)
      PROVE  LockHasHolder'
  <2>1. using[r] \in Requests /\ SidOf[using[r]] = SidOf[r]
    BY <1>5 DEF LockGranted, HasEntry
  <2> QED
    BY <1>2, <1>5, <2>1 DEF LockGranted
<1>6. ASSUME NEW r \in Requests, HandlerReturns(r) \/ StreamingHandlerReturns(r)
      PROVE  LockHasHolder'
  <2>1. /\ Release(SidOf[r]) /\ pool' = pool
        /\ \A q \in Requests \ {r} : handler'[q] = handler[q]
    BY <1>6 DEF HandlerReturns, StreamingHandlerReturns
  <2> SUFFICES ASSUME NEW s \in Live, Quiet(s), locked'[pool[s]]
               PROVE  \E q \in Requests : SidOf[q] = s /\ Holds(q)'
    BY <1>1, <2>1 DEF LockHasHolder, Live
  <2>2. pool[s] \in Requests /\ s # SidOf[r] /\ locked[pool[s]]
    <3>1. pool[s] \in Requests
      BY DEF Live, MaybeRequest
    <3>2. /\ pool[s] # None
          /\ locked' = IF pool[SidOf[r]] = None THEN locked
                       ELSE [locked EXCEPT ![pool[SidOf[r]]] = FALSE]
      BY <2>1 DEF Release, Live
    <3>3. pool[SidOf[r]] \in Requests => ~locked'[pool[SidOf[r]]]
      BY <3>2
    <3>4. s # SidOf[r]
      BY <3>1, <3>3
    <3>5. locked[pool[s]]
      BY <3>1, <3>2, <3>3
    <3> QED
      BY <3>1, <3>4, <3>5
  <2>3. PICK q \in Requests : SidOf[q] = s /\ Holds(q)
    BY <2>2 DEF LockHasHolder
  <2> QED
    BY <2>1, <2>2, <2>3 DEF Holds
<1>7. ASSUME NEW r \in Requests,
             \/ AcquireWait(r) \/ ReachSemaphore(r) \/ SlotGranted(r)
             \/ AgentEnds(r) \/ ClientDisconnects(r) \/ Reply(r)
      PROVE  LockHasHolder'
  <2>1. UNCHANGED <<pool, locked>>
    BY <1>7 DEF AcquireWait, ReachSemaphore, SlotGranted, AgentEnds,
       ClientDisconnects, Reply, entryVars
  <2>2. \A q \in Requests : Holds(q) => Holds(q)'
    BY <1>7 DEF AcquireWait, ReachSemaphore, SlotGranted, AgentEnds,
       ClientDisconnects, Reply, Holds
  <2> QED
    BY <1>1, <2>1, <2>2 DEF LockHasHolder, Live
<1>8. ASSUME NEW files, RestartWith(files)
      PROVE  LockHasHolder'
  BY <1>8 DEF RestartWith, LockHasHolder, Live
<1>9. CASE CleanupExpired \/ Tick \/ UNCHANGED vars
  <2>1. /\ UNCHANGED <<locked, handler>>
        /\ \A s \in Sids : pool'[s] \in {pool[s], None}
    BY <1>9 DEF CleanupExpired, Tick, vars, entryVars
  <2> QED
    BY <1>1, <2>1 DEF LockHasHolder, Live, Holds
<1> QED
  BY <1>3, <1>4, <1>5, <1>6, <1>7, <1>8, <1>9 DEF Next, RequestStep, Restart,
     RestartInSave

\* Saving a quiet session never takes a turn out of its file, and writes what is
\* in the memory of its entry.
LEMMA SavedGrows ==
  ASSUME TypeOK, MemoryAhead, NEW s \in Live, Quiet(s)
  PROVE  /\ disk[s] \subseteq Saved(s)
         /\ Saved(s) \subseteq memory[pool[s]]
         /\ memory[pool[s]] \subseteq Saved(s)
BY DEF MemoryAhead, Saved

\* Removing saved entries from the pool.
LEMMA RemovalMemoryAhead ==
  ASSUME TypeOK, MemoryAhead, NEW gone \in SUBSET Live, disk' = DiskWithout(gone),
         NEW s \in Sids, Quiet(s)
  PROVE  /\ disk[s] \subseteq disk'[s]
         /\ s \notin gone => disk'[s] = disk[s]
BY SavedGrows DEF DiskWithout, TypeOK

LEMMA MemoryAheadStep ==
  ASSUME TypeOK, HasEntry, EntryOfSession, InPool, AgentInHandler, MemoryAhead,
         ~TornWrites, [Next]_vars
  PROVE  MemoryAhead'
<1> USE RequestsAssumption DEF TypeOK
<1>1. \A s \in Sids : Quiet(s)' => Quiet(s)
  BY QuietStep
<1>2. ASSUME NEW r \in Requests,
             \/ AcquireFree(r) \/ AcquireWait(r) \/ LockGranted(r)
      PROVE  MemoryAhead'
  <2>1. /\ UNCHANGED <<pool, disk, memory, agent>>
        /\ handler'[r] \in {"lockWait", "held"}
        /\ \A q \in Requests \ {r} : using'[q] = using[q] /\ handler'[q] = handler[q]
    BY <1>2 DEF AcquireFree, AcquireWait, LockGranted, TakeLock
  <2> QED
    BY <1>1, <2>1 DEF MemoryAhead, Live
<1>3. ASSUME NEW r \in Requests, AcquireCreate(r)
      PROVE  MemoryAhead'
  <2>1. PICK gone \in Evictions :
          /\ pool' = [x \in Sids |-> IF x = SidOf[r] THEN r
                                     ELSE IF x \in gone THEN None ELSE pool[x]]
          /\ disk' = DiskWithout(gone)
    BY <1>3 DEF AcquireCreate
  <2>2. gone \in SUBSET Live /\ SidOf[r] \notin gone
    BY <1>3, <2>1, EvictionsAreLive DEF AcquireCreate, Live
  <2>3. /\ memory'[r] = disk[SidOf[r]]
        /\ \A x \in Requests \ {r} : memory'[x] = memory[x]
        /\ agent' = agent /\ handler'[r] = "held"
        /\ \A q \in Requests \ {r} : using'[q] = using[q] /\ handler'[q] = handler[q]
    BY <1>3 DEF AcquireCreate, TakeLock
  <2>4. ASSUME NEW s \in Live', Quiet(s)'
        PROVE  disk'[s] \subseteq memory'[pool'[s]]
    <3>1. Quiet(s) /\ s \in Sids
      BY <1>1, <2>4 DEF Live
    <3>2. CASE s = SidOf[r]
      <4>1. disk'[s] = disk[s]
        BY <2>1, <2>2, <3>1, <3>2, RemovalMemoryAhead
      <4>2. pool'[s] = r
        BY <2>1, <3>1, <3>2
      <4> QED
        BY <2>3, <3>2, <4>1, <4>2
    <3>3. CASE s # SidOf[r]
      <4>1. s \in Live /\ s \notin gone /\ pool'[s] = pool[s]
        BY <2>1, <2>4, <3>3 DEF Live
      <4>2. pool[s] \in Requests \ {r}
        BY <3>3, <4>1 DEF EntryOfSession, Live, MaybeRequest
      <4>3. disk'[s] = disk[s]
        BY <2>1, <2>2, <3>1, <4>1, RemovalMemoryAhead
      <4> QED
        BY <2>3, <3>1, <4>1, <4>2, <4>3 DEF MemoryAhead
    <3> QED
      BY <3>2, <3>3
  <2>5. ASSUME NEW q \in Requests, Quiet(SidOf[q])', handler'[q] = "awaitAgent",
               agent'[q] = "ended"
        PROVE  q \in memory'[using'[q]]
    <3>1. q # r /\ handler[q] = "awaitAgent" /\ agent[q] = "ended" /\ Quiet(SidOf[q])
      BY <1>1, <2>3, <2>5
    <3>2. using[q] \in Requests /\ pool[SidOf[q]] = using[q] /\ SidOf[using[q]] = SidOf[q]
      BY <3>1 DEF HasEntry, InPool, InAcquireOrLater, Quiet
    <3>3. using[q] # r
      BY <1>3, <3>2 DEF AcquireCreate
    <3> QED
      BY <2>3, <3>1, <3>2, <3>3 DEF MemoryAhead
  <2>6. ASSUME NEW q \in Requests, Quiet(SidOf[q])',
               handler'[q] \in {"released", "replied"}
        PROVE  q \in disk'[SidOf[q]]
    <3>1. q # r /\ handler[q] \in {"released", "replied"} /\ Quiet(SidOf[q])
      BY <1>1, <2>3, <2>6
    <3>2. q \in disk[SidOf[q]]
      BY <3>1 DEF MemoryAhead
    <3> QED
      BY <2>1, <2>2, <3>1, <3>2, RemovalMemoryAhead
  <2> QED
    BY <2>4, <2>5, <2>6 DEF MemoryAhead
<1>4. ASSUME NEW r \in Requests,
             \/ ReachSemaphore(r) \/ SlotGranted(r) \/ ClientDisconnects(r)
             \/ Reply(r)
      PROVE  MemoryAhead'
  <2>1. UNCHANGED <<pool, disk, memory, using>>
    BY <1>4 DEF ReachSemaphore, SlotGranted, ClientDisconnects, Reply, entryVars
  <2>2. \A q \in Requests :
          /\ agent'[q] = "ended" => agent[q] = "ended" /\ agent'[q] = agent[q]
          /\ handler'[q] \in {"released", "replied"} =>
               handler[q] \in {"released", "replied"}
    BY <1>4 DEF ReachSemaphore, SlotGranted, ClientDisconnects, Reply, BeginAgent
  <2>3. \A q \in Requests :
          handler'[q] = "awaitAgent" /\ agent'[q] = "ended" =>
            handler[q] = "awaitAgent"
    BY <1>4 DEF ReachSemaphore, SlotGranted, ClientDisconnects, Reply, BeginAgent
  <2> QED
    BY <1>1, <2>1, <2>2, <2>3 DEF MemoryAhead, Live
<1>5. ASSUME NEW r \in Requests, AgentEnds(r)
      PROVE  MemoryAhead'
  <2>1. /\ UNCHANGED <<pool, disk, using, handler>>
        /\ using[r] \in Requests
        /\ \A q \in Requests \ {r} : agent'[q] = agent[q]
        /\ \A x \in Requests : memory[x] \subseteq memory'[x]
        /\ r \in memory'[using[r]]
    BY <1>5 DEF AgentEnds, HasEntry
  <2>2. \A s \in Live : pool[s] \in Requests
    BY DEF Live, MaybeRequest
  <2>3. \A q \in Requests : handler[q] = "awaitAgent" => using[q] \in Requests
    BY DEF HasEntry
  <2> QED
    BY <1>1, <2>1, <2>2, <2>3 DEF MemoryAhead, Live
<1>6. ASSUME NEW r \in Requests, HandlerReturns(r) \/ StreamingHandlerReturns(r)
      PROVE  MemoryAhead'
  <2>1. /\ UNCHANGED <<pool, memory, using>> /\ Release(SidOf[r])
        /\ handler'[r] = "released"
        /\ \A q \in Requests \ {r} : handler'[q] = handler[q] /\ agent'[q] = agent[q]
    BY <1>6 DEF HandlerReturns, StreamingHandlerReturns
  <2>2. ASSUME NEW s \in Sids, Quiet(s)
        PROVE  /\ disk[s] \subseteq disk'[s]
               /\ s \in Live => disk'[s] \subseteq memory[pool[s]]
    <3>1. s \in Live => /\ disk[s] \subseteq Saved(s)
                        /\ Saved(s) \subseteq memory[pool[s]]
      BY <2>2, SavedGrows
    <3>2. disk'[s] = disk[s] \/ (s \in Live /\ disk'[s] = Saved(s))
      BY <2>1, <2>2 DEF Release, Live
    <3> QED
      BY <2>2, <3>1, <3>2 DEF MemoryAhead
  <2>3. Quiet(SidOf[r]) => r \in disk'[SidOf[r]]
    <3> SUFFICES ASSUME Quiet(SidOf[r]) PROVE r \in disk'[SidOf[r]]
      OBVIOUS
    <3>1. handler[r] = "awaitAgent" /\ agent[r] = "ended"
      BY <1>6 DEF HandlerReturns, StreamingHandlerReturns, Quiet
    <3>2. pool[SidOf[r]] = using[r] /\ using[r] \in Requests
      BY <3>1 DEF InPool, InAcquireOrLater, HasEntry, Quiet
    <3>3. SidOf[r] \in Live /\ r \in memory[pool[SidOf[r]]]
      BY <3>1, <3>2 DEF MemoryAhead, Live
    <3>4. disk'[SidOf[r]] = Saved(SidOf[r])
      BY <2>1, <3>3 DEF Release, Live
    <3> QED
      BY <3>3, <3>4, SavedGrows
  <2>4. \A s \in Live' : Quiet(s)' => disk'[s] \subseteq memory'[pool'[s]]
    BY <1>1, <2>1, <2>2 DEF Live
  <2>5. ASSUME NEW q \in Requests, Quiet(SidOf[q])'
        PROVE  /\ handler'[q] = "awaitAgent" /\ agent'[q] = "ended" =>
                    q \in memory'[using'[q]]
               /\ handler'[q] \in {"released", "replied"} => q \in disk'[SidOf[q]]
    <3>1. Quiet(SidOf[q]) /\ SidOf[q] \in Sids
      BY <1>1, <2>5
    <3>2. CASE q = r
      BY <2>1, <2>3, <3>1, <3>2
    <3>3. CASE q # r
      BY <2>1, <2>2, <3>1, <3>3 DEF MemoryAhead
    <3> QED
      BY <3>2, <3>3
  <2> QED
    BY <2>4, <2>5 DEF MemoryAhead
<1>7. CASE Restart
  <2>1. /\ disk' = disk /\ pool' = [s \in Sids |-> None]
        /\ \A q \in Requests : handler'[q] \in {"new", "replied", "lost"}
        /\ \A q \in Requests : handler'[q] = "replied" => handler[q] = "replied"
    BY <1>7 DEF Restart, RestartWith
  <2>2. Live' = {}
    BY <2>1 DEF Live
  <2>3. \A q \in Requests : Quiet(SidOf[q])' =>
          /\ handler'[q] # "awaitAgent"
          /\ handler'[q] \in {"released", "replied"} => q \in disk'[SidOf[q]]
    BY <1>1, <2>1 DEF MemoryAhead
  <2> QED
    BY <2>2, <2>3 DEF MemoryAhead
<1>8. CASE CleanupExpired
  <2>1. /\ pool' = [s \in Sids |-> IF s \in Expired THEN None ELSE pool[s]]
        /\ disk' = DiskWithout(Expired) /\ Expired \in SUBSET Live
        /\ UNCHANGED <<memory, handler, agent, using>>
    BY <1>8 DEF CleanupExpired, Expired, entryVars
  <2>2. ASSUME NEW s \in Sids, Quiet(s)
        PROVE  /\ disk[s] \subseteq disk'[s]
               /\ s \notin Expired => disk'[s] = disk[s]
    BY <2>1, <2>2, RemovalMemoryAhead
  <2>3. ASSUME NEW s \in Live', Quiet(s)'
        PROVE  disk'[s] \subseteq memory'[pool'[s]]
    <3>1. s \in Live /\ s \notin Expired /\ pool'[s] = pool[s] /\ Quiet(s)
      BY <1>1, <2>1, <2>3 DEF Live
    <3>2. disk'[s] = disk[s] /\ memory' = memory /\ s \in Sids
      BY <2>1, <2>2, <3>1 DEF Live
    <3>3. disk[s] \subseteq memory[pool[s]]
      BY <3>1 DEF MemoryAhead
    <3> QED
      BY <3>1, <3>2, <3>3
  <2>4. ASSUME NEW q \in Requests, Quiet(SidOf[q])'
        PROVE  /\ handler'[q] = "awaitAgent" /\ agent'[q] = "ended" =>
                    q \in memory'[using'[q]]
               /\ handler'[q] \in {"released", "replied"} => q \in disk'[SidOf[q]]
    <3>1. Quiet(SidOf[q]) /\ SidOf[q] \in Sids
      BY <1>1, <2>4
    <3>2. memory' = memory /\ handler' = handler /\ agent' = agent /\ using' = using
      BY <2>1
    <3>3. disk[SidOf[q]] \subseteq disk'[SidOf[q]]
      BY <2>2, <3>1
    <3> QED
      BY <3>1, <3>2, <3>3 DEF MemoryAhead
  <2> QED
    BY <2>3, <2>4 DEF MemoryAhead
<1>9. CASE Tick \/ UNCHANGED vars
  BY <1>1, <1>9 DEF Tick, vars, entryVars, MemoryAhead, Live
<1> QED
  BY <1>2, <1>3, <1>4, <1>5, <1>6, <1>7, <1>8, <1>9 DEF Next, RequestStep,
     RestartInSave

-----------------------------------------------------------------------------
(***************************************************************************)
(* The theorems                                                            *)
(***************************************************************************)

LEMMA SessionInvInit ==
  ASSUME Init
  PROVE  TypeOK /\ SessionInv
<1> USE RequestsAssumption, BoundsAssumption
<1>1. TypeOK
  BY EmptySeq DEF Init, TypeOK, MaybeRequest, HandlerStates, AgentStates
<1>2. HasEntry /\ EntryOfSession /\ InPool /\ AgentInHandler /\ LockHasHolder
  BY DEF Init, HasEntry, EntryOfSession, InPool, AgentInHandler, LockHasHolder,
     InAcquireOrLater, Live
<1>3. OneHolder /\ MemoryAhead
  BY DEF Init, OneHolder, MemoryAhead, Holds, Live
<1> QED
  BY <1>1, <1>2, <1>3 DEF SessionInv

LEMMA SessionInvStep ==
  ASSUME TypeOK, SessionInv, [Next]_vars
  PROVE  (TypeOK /\ SessionInv)'
BY TypeStep, HasEntryStep, EntryOfSessionStep, InPoolStep, AgentInHandlerStep,
   OneHolderStep, LockHasHolderStep, MemoryAheadStep
DEF SessionInv

\* The session discipline holds in every reachable state of the server.
THEOREM SessionDiscipline == Spec => [](TypeOK /\ SessionInv)
BY SessionInvInit, SessionInvStep, PTL DEF Spec

\* Every variable keeps its type, for every number of requests and sessions.
THEOREM TypeCorrect == Spec => []TypeOK
BY SessionDiscipline, PTL

\* For any number of requests, sessions and slots and any pool size: no two agents
\* run at once in a session without streaming requests whose entry was never
\* removed while in use (SessionPool's per-session lock does its work).
THEOREM SerialTheorem == Spec => []QuietSessionsSerial
<1>1. ASSUME TypeOK, SessionInv
      PROVE  QuietSessionsSerial
  <2> SUFFICES ASSUME NEW q \in Running, NEW r \in Running,
                      SidOf[q] = SidOf[r], Quiet(SidOf[q])
               PROVE  q = r
    BY DEF QuietSessionsSerial
  <2>1. q \in Requests \ Streams /\ r \in Requests \ Streams
    BY DEF Running, Quiet
  <2>2. Holds(q) /\ Holds(r)
    BY <1>1, <2>1 DEF SessionInv, AgentInHandler, Running, Holds
  <2> QED
    BY <1>1, <2>1, <2>2 DEF SessionInv, OneHolder
<1> QED
  BY <1>1, SessionDiscipline, PTL

\* In such a session an agent writes to the adapter of its own request.
THEOREM OwnOutputTheorem == Spec => []QuietSessionsOwnOutput
<1>1. ASSUME TypeOK, SessionInv
      PROVE  QuietSessionsOwnOutput
  <2> SUFFICES ASSUME NEW r \in Running, Quiet(SidOf[r])
               PROVE  agentIo[r] = r
    BY DEF QuietSessionsOwnOutput
  <2>1. r \in Requests \ Streams /\ agent[r] = "running"
    BY DEF Running, Quiet
  <2>2. Holds(r)
    BY <1>1, <2>1 DEF SessionInv, AgentInHandler, Holds
  <2> QED
    BY <1>1, <2>1, <2>2 DEF SessionInv, OneHolder
<1> QED
  BY <1>1, SessionDiscipline, PTL

\* In such a session the lock of the pool's entry is held exactly while one of its
\* requests is between acquire and release.
THEOREM LockDisciplineTheorem == Spec => []QuietLockDiscipline
<1>1. ASSUME TypeOK, SessionInv
      PROVE  QuietLockDiscipline
  <2> SUFFICES ASSUME NEW s \in Live, Quiet(s)
               PROVE  locked[pool[s]] <=>
                        Cardinality({r \in Requests : SidOf[r] = s /\ Holds(r)}) = 1
    BY DEF QuietLockDiscipline
  <2> DEFINE H == {r \in Requests : SidOf[r] = s /\ Holds(r)}
  <2>1. ASSUME NEW r \in H
        PROVE  H = {r} /\ locked[pool[s]]
    <3>1. r \in Requests /\ SidOf[r] = s /\ Holds(r) /\ s \notin displaced
      BY DEF Quiet
    <3>2. pool[s] = using[r]
      BY <1>1, <3>1 DEF SessionInv, InPool, InAcquireOrLater, Holds
    <3> QED
      BY <1>1, <3>1, <3>2 DEF SessionInv, OneHolder
  <2>2. ASSUME locked[pool[s]]
        PROVE  \E r \in Requests : r \in H
    BY <1>1, <2>2 DEF SessionInv, LockHasHolder
  <2>3. CASE H = {}
    <3>1. Cardinality(H) = 0
      BY <2>3, FS_EmptySet
    <3> QED
      BY <2>2, <2>3, <3>1
  <2>4. CASE H # {}
    <3>1. PICK r \in H : TRUE
      BY <2>4
    <3>2. Cardinality(H) = 1
      BY <2>1, <3>1, FS_Singleton
    <3> QED
      BY <2>1, <3>1, <3>2
  <2> QED
    BY <2>3, <2>4
<1> QED
  BY <1>1, SessionDiscipline, PTL

\* Such a session has every answered turn in its file for good, provided a crash
\* never falls inside the writing of the file.
THEOREM DurableTheorem == ~TornWrites /\ Spec => []QuietDurableTurns
<1>1. ASSUME TypeOK, SessionInv, ~TornWrites
      PROVE  QuietDurableTurns
  BY <1>1 DEF SessionInv, MemoryAhead, QuietDurableTurns, Answered
<1>2. ASSUME ~TornWrites
      PROVE  TypeOK /\ SessionInv => QuietDurableTurns
  BY <1>1, <1>2
<1>3. CASE ~TornWrites
  <2>1. TypeOK /\ SessionInv => QuietDurableTurns
    BY <1>2, <1>3
  <2>2. Spec => []QuietDurableTurns
    BY <2>1, SessionDiscipline, PTL
  <2> QED
    BY <2>2
<1> QED
  BY <1>3

-----------------------------------------------------------------------------
(***************************************************************************)
(* Capacity                                                                *)
(***************************************************************************)

FiniteCapacity == IsFiniteSet(SlotHolders) /\ Capacity

\* Making an entry, after evicting one at capacity, keeps the pool in its bound.
LEMMA CreateInBound ==
  ASSUME TypeOK, NEW r \in Requests, AcquireCreate(r),
         Cardinality(Live) <= MaxSessions
  PROVE  Cardinality(Live') <= MaxSessions
<1> USE RequestsAssumption, BoundsAssumption
<1>1. PICK gone \in Evictions :
        pool' = [x \in Sids |-> IF x = SidOf[r] THEN r
                               ELSE IF x \in gone THEN None ELSE pool[x]]
  BY DEF AcquireCreate
<1>2. IsFiniteSet(Live) /\ Cardinality(Live) \in Nat
  BY FS_Subset, FS_CardinalityType DEF Live
<1>3. SidOf[r] \notin Live /\ SidOf[r] \in Sids
  BY DEF AcquireCreate, Live
<1>4. CASE Cardinality(Live) >= MaxSessions
  <2>1. PICK s \in Live : gone = {s}
    BY <1>1, <1>4 DEF Evictions, Oldest
  <2>2. Live' = (Live \ {s}) \cup {SidOf[r]}
    BY <1>1, <1>3, <2>1 DEF Live
  <2>3. IsFiniteSet(Live \ {s}) /\ Cardinality(Live \ {s}) = Cardinality(Live) - 1
    BY <1>2, <2>1, FS_RemoveElement
  <2>4. Cardinality(Live') = Cardinality(Live)
    <3>1. SidOf[r] \notin Live \ {s}
      BY <1>3
    <3>2. Cardinality((Live \ {s}) \cup {SidOf[r]}) = Cardinality(Live \ {s}) + 1
      BY <2>3, <3>1, FS_AddElement
    <3> QED
      BY <1>2, <2>2, <2>3, <3>2
  <2> QED
    BY <2>4
<1>5. CASE ~(Cardinality(Live) >= MaxSessions)
  <2>1. gone = {}
    BY <1>1, <1>5 DEF Evictions
  <2>2. Live' = Live \cup {SidOf[r]}
    BY <1>1, <1>3, <2>1 DEF Live
  <2>3. Cardinality(Live') = Cardinality(Live) + 1
    BY <1>2, <1>3, <2>2, FS_AddElement
  <2> QED
    BY <1>2, <1>5, <2>3
<1> QED
  BY <1>4, <1>5

\* An agent that begins takes a free slot.
LEMMA BeginInBound ==
  ASSUME TypeOK, IsFiniteSet(SlotHolders), NEW r \in Requests, SlotsFree,
         BeginAgent(r), handler' \in {handler, [handler EXCEPT ![r] = "awaitAgent"]}
  PROVE  IsFiniteSet(SlotHolders') /\ Cardinality(SlotHolders') <= AgentSlots
<1>1. SlotHolders' = SlotHolders \cup {r}
  <2>1. agent'[r] = "running" /\ r \in SlotHolders'
    BY DEF SlotHolders, Running, BeginAgent, TypeOK
  <2>2. \A q \in Requests \ {r} : agent'[q] = agent[q] /\ handler'[q] = handler[q]
    BY DEF BeginAgent, TypeOK
  <2> QED
    BY <2>1, <2>2 DEF SlotHolders, Running
<1>2. /\ IsFiniteSet(SlotHolders')
      /\ Cardinality(SlotHolders') = IF r \in SlotHolders
                                     THEN Cardinality(SlotHolders)
                                     ELSE Cardinality(SlotHolders) + 1
  BY <1>1, FS_AddElement
<1>3. Cardinality(SlotHolders) \in Nat
  BY FS_CardinalityType
<1> QED
  BY <1>2, <1>3, BoundsAssumption DEF SlotsFree

\* Every other step leaves those who have a slot, or some of them.
LEMMA FewerHolders ==
  ASSUME FiniteCapacity, SlotHolders' \subseteq SlotHolders
  PROVE  IsFiniteSet(SlotHolders') /\ Cardinality(SlotHolders') <= AgentSlots
<1>1. IsFiniteSet(SlotHolders') /\ Cardinality(SlotHolders') <= Cardinality(SlotHolders)
  BY FS_Subset DEF FiniteCapacity
<1>2. Cardinality(SlotHolders') \in Nat /\ Cardinality(SlotHolders) \in Nat
  BY <1>1, FS_CardinalityType DEF FiniteCapacity
<1> QED
  BY <1>1, <1>2, BoundsAssumption DEF FiniteCapacity, Capacity

LEMMA FewerLive ==
  ASSUME FiniteCapacity, Live' \subseteq Live
  PROVE  Cardinality(Live') <= MaxSessions
<1>1. IsFiniteSet(Live)
  BY BoundsAssumption, FS_Subset DEF Live
<1>2. IsFiniteSet(Live') /\ Cardinality(Live') <= Cardinality(Live)
  BY <1>1, FS_Subset
<1>3. Cardinality(Live') \in Nat /\ Cardinality(Live) \in Nat
  BY <1>1, <1>2, FS_CardinalityType
<1> QED
  BY <1>2, <1>3, BoundsAssumption DEF FiniteCapacity, Capacity

\* A request whose handler goes on to anything but its agent takes no slot.
LEMMA NoSlotTaken ==
  ASSUME TypeOK, NEW r \in Requests,
         \/ agent' = agent
         \/ agent[r] = "running" /\ agent' = [agent EXCEPT ![r] = "ended"]
         \/ \E a \in {"created", "slotWait", "cancelled"} :
              agent' = [agent EXCEPT ![r] = a],
         \/ handler' = handler
         \/ \E h \in {"lockWait", "held", "released", "replied"} :
              handler' = [handler EXCEPT ![r] = h]
         \/ /\ handler' = [handler EXCEPT ![r] = "awaitAgent"]
            /\ agent'[r] = "slotWait"
  PROVE  SlotHolders' \subseteq SlotHolders
<1>1. ASSUME NEW q \in Requests \ {r}
      PROVE  agent'[q] = agent[q] /\ handler'[q] = handler[q]
  BY DEF TypeOK
<1>2. ASSUME r \in SlotHolders'
      PROVE  r \in SlotHolders
  <2>1. CASE agent'[r] = "running"
    BY <2>1 DEF TypeOK, SlotHolders, Running
  <2>2. CASE r \notin Streams /\ agent'[r] = "ended" /\ handler'[r] = "awaitAgent"
    BY <2>2 DEF TypeOK, SlotHolders, Running
  <2> QED
    BY <1>2, <2>1, <2>2 DEF SlotHolders, Running
<1> QED
  BY <1>1, <1>2 DEF SlotHolders, Running

LEMMA CapacityStep ==
  ASSUME TypeOK, FiniteCapacity, [Next]_vars
  PROVE  FiniteCapacity'
<1> USE DEF TypeOK
<1>1. ASSUME NEW r \in Requests, AcquireCreate(r)
      PROVE  FiniteCapacity'
  <2>1. SlotHolders' \subseteq SlotHolders
    BY <1>1, NoSlotTaken DEF AcquireCreate, TakeLock
  <2>2. Cardinality(Live') <= MaxSessions
    BY <1>1, CreateInBound DEF FiniteCapacity, Capacity
  <2> QED
    BY <2>1, <2>2, FewerHolders DEF FiniteCapacity, Capacity
<1>2. ASSUME NEW r \in Requests, ReachSemaphore(r) \/ SlotGranted(r)
      PROVE  FiniteCapacity'
  <2>1. Live' \subseteq Live
    BY <1>2 DEF ReachSemaphore, SlotGranted, Live
  <2>2. (SlotsFree /\ BeginAgent(r)) \/ agent' = [agent EXCEPT ![r] = "slotWait"]
    BY <1>2 DEF ReachSemaphore, SlotGranted
  <2>3. CASE SlotsFree /\ BeginAgent(r)
    <3>1. handler' \in {handler, [handler EXCEPT ![r] = "awaitAgent"]}
      BY <1>2 DEF ReachSemaphore, SlotGranted
    <3> QED
      BY <2>1, <2>3, <3>1, BeginInBound, FewerLive DEF FiniteCapacity, Capacity
  <2>4. CASE agent' = [agent EXCEPT ![r] = "slotWait"]
    <3>1. SlotHolders' \subseteq SlotHolders
      <4>1. handler' \in {handler, [handler EXCEPT ![r] = "awaitAgent"]}
        BY <1>2 DEF ReachSemaphore, SlotGranted
      <4>2. agent'[r] = "slotWait"
        BY <2>4
      <4> QED
        BY <2>4, <4>1, <4>2, NoSlotTaken
    <3> QED
      BY <2>1, <3>1, FewerHolders, FewerLive DEF FiniteCapacity, Capacity
  <2> QED
    BY <2>2, <2>3, <2>4
<1>3. ASSUME NEW r \in Requests,
             \/ AcquireFree(r) \/ AcquireWait(r) \/ LockGranted(r)
             \/ AgentEnds(r) \/ ClientDisconnects(r) \/ HandlerReturns(r)
             \/ StreamingHandlerReturns(r) \/ Reply(r)
      PROVE  FiniteCapacity'
  <2>1. Live' \subseteq Live
    BY <1>3 DEF AcquireFree, AcquireWait, LockGranted, AgentEnds,
       ClientDisconnects, HandlerReturns, StreamingHandlerReturns, Reply, Live
  <2>2. SlotHolders' \subseteq SlotHolders
    <3>1. CASE AcquireFree(r) \/ AcquireWait(r) \/ LockGranted(r)
      BY <3>1, NoSlotTaken DEF AcquireFree, AcquireWait, LockGranted, TakeLock
    <3>2. CASE AgentEnds(r) \/ ClientDisconnects(r)
      BY <3>2, NoSlotTaken DEF AgentEnds, ClientDisconnects
    <3>3. CASE HandlerReturns(r) \/ StreamingHandlerReturns(r) \/ Reply(r)
      BY <3>3, NoSlotTaken DEF HandlerReturns, StreamingHandlerReturns, Reply
    <3> QED
      BY <1>3, <3>1, <3>2, <3>3
  <2> QED
    BY <2>1, <2>2, FewerHolders, FewerLive DEF FiniteCapacity, Capacity
<1>4. ASSUME NEW files, RestartWith(files)
      PROVE  FiniteCapacity'
  <2>1. SlotHolders' \subseteq SlotHolders /\ Live' \subseteq Live
    BY <1>4 DEF RestartWith, SlotHolders, Running, Live
  <2> QED
    BY <2>1, FewerHolders, FewerLive DEF FiniteCapacity, Capacity
<1>5. CASE CleanupExpired \/ Tick \/ UNCHANGED vars
  <2>1. SlotHolders' \subseteq SlotHolders /\ Live' \subseteq Live
    BY <1>5 DEF CleanupExpired, Tick, vars, SlotHolders, Running, Live
  <2> QED
    BY <2>1, FewerHolders, FewerLive DEF FiniteCapacity, Capacity
<1> QED
  BY <1>1, <1>2, <1>3, <1>4, <1>5 DEF Next, RequestStep, Restart, RestartInSave

\* Never more agents than slots, never more entries than max_sessions, streaming
\* or not, whatever is evicted, expired or killed.
THEOREM CapacityTheorem == Spec => []Capacity
<1>1. Init => FiniteCapacity
  <2>1. Init => SlotHolders = {} /\ Live = {}
    BY DEF Init, SlotHolders, Running, Live
  <2>2. Cardinality({}) = 0 /\ IsFiniteSet({})
    BY FS_EmptySet
  <2> QED
    BY <2>1, <2>2, BoundsAssumption DEF FiniteCapacity, Capacity
<1>2. TypeOK /\ FiniteCapacity /\ [Next]_vars => FiniteCapacity'
  BY CapacityStep
<1>3. FiniteCapacity => Capacity
  BY DEF FiniteCapacity
<1> QED
  BY <1>1, <1>2, <1>3, TypeCorrect, PTL DEF Spec

-----------------------------------------------------------------------------
(***************************************************************************)
(* The turns of the sessions that are not displaced, streaming or not      *)
(***************************************************************************)

\* Where the next request of a session will find its turns.
Found(s) == IF pool[s] = None THEN disk[s] ELSE memory[pool[s]]

\* The entry an agent works with is the session's, as long as nobody took it
\* away; and every turn that ended is found.
AgentInPool ==
  \A r \in Requests :
    SidOf[r] \notin displaced /\ agent[r] \in {"created", "slotWait", "running"} =>
      pool[SidOf[r]] = using[r]

EndedFound ==
  \A r \in Requests :
    SidOf[r] \notin displaced /\ agent[r] = "ended" => r \in Found(SidOf[r])

\* A handler that has not got past acquire has no agent.
NoAgentYet ==
  \A r \in Requests : handler[r] \in {"new", "lockWait", "held"} => agent[r] = "none"

LEMMA NoAgentYetStep ==
  ASSUME TypeOK, HasEntry, NoAgentYet, [Next]_vars
  PROVE  NoAgentYet'
<1> USE RequestsAssumption DEF TypeOK, NoAgentYet
<1>1. ASSUME NEW r \in Requests,
             \/ AcquireFree(r) \/ AcquireWait(r) \/ AcquireCreate(r)
             \/ LockGranted(r)
      PROVE  NoAgentYet'
  <2>1. /\ agent' = agent
        /\ handler[r] \in {"new", "lockWait"}
        /\ \A q \in Requests \ {r} : handler'[q] = handler[q]
    BY <1>1 DEF AcquireFree, AcquireWait, AcquireCreate, LockGranted, TakeLock
  <2> QED
    BY <2>1
<1>2. ASSUME NEW r \in Requests,
             \/ ReachSemaphore(r) \/ SlotGranted(r) \/ AgentEnds(r)
             \/ ClientDisconnects(r) \/ HandlerReturns(r)
             \/ StreamingHandlerReturns(r) \/ Reply(r)
      PROVE  NoAgentYet'
  <2>1. \A q \in Requests \ {r} : handler'[q] = handler[q] /\ agent'[q] = agent[q]
    BY <1>2 DEF ReachSemaphore, SlotGranted, AgentEnds, ClientDisconnects, BeginAgent,
       HandlerReturns, StreamingHandlerReturns, Reply
  <2>2. handler'[r] \notin {"new", "lockWait", "held"}
    <3>1. CASE ReachSemaphore(r)
      BY <3>1 DEF ReachSemaphore
    <3>2. CASE SlotGranted(r) \/ AgentEnds(r) \/ ClientDisconnects(r)
      BY <3>2 DEF SlotGranted, AgentEnds, ClientDisconnects
    <3>3. CASE HandlerReturns(r) \/ StreamingHandlerReturns(r) \/ Reply(r)
      BY <3>3 DEF HandlerReturns, StreamingHandlerReturns, Reply
    <3> QED
      BY <1>2, <3>1, <3>2, <3>3
  <2> QED
    BY <2>1, <2>2
<1>3. ASSUME NEW files, RestartWith(files)
      PROVE  NoAgentYet'
  BY <1>3 DEF RestartWith
<1>4. CASE CleanupExpired \/ Tick \/ UNCHANGED vars
  BY <1>4 DEF CleanupExpired, Tick, vars
<1> QED
  BY <1>1, <1>2, <1>3, <1>4 DEF Next, RequestStep, Restart, RestartInSave

LEMMA AgentInPoolStep ==
  ASSUME TypeOK, HasEntry, InPool, AgentInPool, NoAgentYet, [Next]_vars
  PROVE  AgentInPool'
<1> USE RequestsAssumption DEF TypeOK
<1> DEFINE Works(q) == agent[q] \in {"created", "slotWait", "running"}
<1>1. ASSUME NEW r \in Requests, AcquireFree(r) \/ AcquireWait(r)
      PROVE  AgentInPool'
  <2>1. /\ UNCHANGED <<pool, displaced, agent>>
        /\ agent[r] = "none"
        /\ \A q \in Requests \ {r} : using'[q] = using[q]
    BY <1>1 DEF AcquireFree, AcquireWait, NoAgentYet
  <2> QED
    BY <2>1 DEF AgentInPool
<1>2. ASSUME NEW r \in Requests, AcquireCreate(r)
      PROVE  AgentInPool'
  <2>1. PICK gone \in Evictions :
          /\ pool' = [x \in Sids |-> IF x = SidOf[r] THEN r
                                     ELSE IF x \in gone THEN None ELSE pool[x]]
          /\ displaced' = displaced \cup DisplacedBy(gone)
    BY <1>2 DEF AcquireCreate
  <2>2. /\ agent[r] = "none" /\ agent' = agent
        /\ \A q \in Requests \ {r} : using'[q] = using[q]
    BY <1>2 DEF AcquireCreate, NoAgentYet
  <2>3. ASSUME NEW q \in Requests \ {r}, SidOf[q] \notin displaced', Works(q)
        PROVE  SidOf[q] # SidOf[r] /\ SidOf[q] \notin gone
    <3>1. pool[SidOf[q]] = using[q] /\ using[q] \in Requests
      BY <2>1, <2>3 DEF HasEntry, AgentInPool
    <3>2. SidOf[q] # SidOf[r]
      BY <1>2, <3>1 DEF AcquireCreate
    <3>3. InUse(pool[SidOf[q]])
      BY <2>3, <3>1 DEF InUse
    <3> QED
      BY <2>1, <2>3, <3>2, <3>3 DEF DisplacedBy
  <2> QED
    BY <2>1, <2>2, <2>3 DEF AgentInPool
<1>3. ASSUME NEW r \in Requests,
             \/ LockGranted(r) \/ ReachSemaphore(r) \/ SlotGranted(r)
             \/ AgentEnds(r) \/ ClientDisconnects(r) \/ HandlerReturns(r)
             \/ StreamingHandlerReturns(r) \/ Reply(r)
      PROVE  AgentInPool'
  <2>1. UNCHANGED <<using, pool, displaced>>
    BY <1>3 DEF LockGranted, ReachSemaphore, SlotGranted, AgentEnds,
       ClientDisconnects, HandlerReturns, StreamingHandlerReturns, Reply
  <2>2. \A q \in Requests \ {r} : agent'[q] = agent[q]
    BY <1>3 DEF LockGranted, ReachSemaphore, SlotGranted, AgentEnds, BeginAgent,
       ClientDisconnects, HandlerReturns, StreamingHandlerReturns, Reply
  <2>3. Works(r)' => Works(r) \/ InAcquireOrLater(r)
    BY <1>3 DEF LockGranted, ReachSemaphore, SlotGranted, AgentEnds, BeginAgent,
       ClientDisconnects, HandlerReturns, StreamingHandlerReturns, Reply,
       InAcquireOrLater
  <2> QED
    BY <2>1, <2>2, <2>3 DEF AgentInPool, InPool
<1>4. ASSUME NEW files, RestartWith(files)
      PROVE  AgentInPool'
  BY <1>4 DEF RestartWith, AgentInPool
<1>5. CASE CleanupExpired
  <2>1. UNCHANGED <<using, agent>>
    BY <1>5 DEF CleanupExpired
  <2>2. ASSUME NEW q \in Requests, SidOf[q] \notin displaced', Works(q)
        PROVE  SidOf[q] \notin Expired
    <3>1. pool[SidOf[q]] = using[q]
      BY <1>5, <2>2 DEF CleanupExpired, AgentInPool
    <3>2. InUse(pool[SidOf[q]])
      BY <2>2, <3>1 DEF InUse
    <3> QED
      BY <1>5, <2>2, <3>2 DEF CleanupExpired, DisplacedBy
  <2> QED
    BY <1>5, <2>1, <2>2 DEF CleanupExpired, AgentInPool
<1>6. CASE Tick \/ UNCHANGED vars
  BY <1>6 DEF Tick, vars, AgentInPool
<1> QED
  BY <1>1, <1>2, <1>3, <1>4, <1>5, <1>6 DEF Next, RequestStep, Restart,
     RestartInSave

\* Whatever is popped and saved, what was found of a session is found again.
LEMMA RemovalKeepsFound ==
  ASSUME TypeOK, NEW gone \in SUBSET Live, disk' = DiskWithout(gone),
         NEW s \in Sids
  PROVE  /\ s \notin gone => disk'[s] = disk[s]
         /\ s \in gone => Found(s) \subseteq disk'[s]
BY RequestsAssumption DEF TypeOK, DiskWithout, Saved, Found, Live

LEMMA EndedFoundStep ==
  ASSUME TypeOK, HasEntry, EntryOfSession, InPool, AgentInPool, NoAgentYet,
         EndedFound, [Next]_vars, ~(Restart \/ RestartInSave)
  PROVE  EndedFound'
<1> USE RequestsAssumption DEF TypeOK
<1>0. ASSUME \A q \in Requests : agent'[q] = "ended" => agent[q] = "ended",
             displaced \subseteq displaced',
             \A s \in Sids : s \notin displaced' => Found(s) \subseteq Found(s)'
      PROVE  EndedFound'
  BY <1>0 DEF EndedFound
<1>1. ASSUME NEW r \in Requests,
             \/ AcquireFree(r) \/ AcquireWait(r) \/ LockGranted(r)
             \/ ReachSemaphore(r) \/ SlotGranted(r) \/ ClientDisconnects(r)
             \/ Reply(r)
      PROVE  EndedFound'
  <2>1. UNCHANGED <<pool, disk, memory, displaced>>
    BY <1>1 DEF AcquireFree, AcquireWait, LockGranted, ReachSemaphore,
       SlotGranted, ClientDisconnects, Reply, entryVars
  <2>2. \A q \in Requests : agent'[q] = "ended" => agent[q] = "ended"
    BY <1>1 DEF AcquireFree, AcquireWait, LockGranted, ReachSemaphore, BeginAgent,
       SlotGranted, ClientDisconnects, Reply
  <2>3. \A s \in Sids : Found(s)' = Found(s)
    BY <2>1 DEF Found
  <2> QED
    BY <1>0, <2>1, <2>2, <2>3
<1>2. ASSUME NEW r \in Requests, AcquireCreate(r)
      PROVE  EndedFound'
  <2>1. PICK gone \in Evictions :
          /\ pool' = [x \in Sids |-> IF x = SidOf[r] THEN r
                                     ELSE IF x \in gone THEN None ELSE pool[x]]
          /\ disk' = DiskWithout(gone)
          /\ displaced' = displaced \cup DisplacedBy(gone)
    BY <1>2 DEF AcquireCreate
  <2>2. gone \in SUBSET Live /\ SidOf[r] \notin gone
    BY <1>2, <2>1, EvictionsAreLive DEF AcquireCreate, Live
  <2>3. /\ memory'[r] = disk[SidOf[r]] /\ agent' = agent
        /\ \A x \in Requests \ {r} : memory'[x] = memory[x]
    BY <1>2 DEF AcquireCreate
  <2>4. ASSUME NEW s \in Sids
        PROVE  Found(s) \subseteq Found(s)'
    <3>1. CASE s = SidOf[r]
      <4>1. Found(s) = disk[s]
        BY <1>2, <3>1 DEF AcquireCreate, Found
      <4>2. pool'[s] = r
        BY <2>1, <3>1
      <4> QED
        BY <2>3, <3>1, <4>1, <4>2 DEF Found
    <3>2. CASE s \in gone
      <4>1. pool'[s] = None
        BY <2>1, <2>2, <3>2
      <4>2. Found(s) \subseteq disk'[s]
        BY <2>1, <2>2, <3>2, RemovalKeepsFound
      <4> QED
        BY <4>1, <4>2 DEF Found
    <3>3. CASE s # SidOf[r] /\ s \notin gone
      <4>1. pool'[s] = pool[s]
        BY <2>1, <3>3
      <4>2. disk'[s] = disk[s]
        BY <2>1, <2>2, <3>3, RemovalKeepsFound
      <4>3. pool[s] # None => pool[s] \in Requests \ {r}
        BY <3>3 DEF EntryOfSession, Live, MaybeRequest
      <4> QED
        BY <2>3, <4>1, <4>2, <4>3 DEF Found
    <3> QED
      BY <3>1, <3>2, <3>3
  <2> QED
    BY <1>0, <2>1, <2>3, <2>4
<1>3. ASSUME NEW r \in Requests, AgentEnds(r)
      PROVE  EndedFound'
  <2>1. /\ UNCHANGED <<pool, disk, displaced>> /\ agent[r] = "running"
        /\ \A q \in Requests \ {r} : agent'[q] = agent[q]
        /\ memory' = [memory EXCEPT ![using[r]] = @ \cup {r}]
    BY <1>3 DEF AgentEnds
  <2>2. using[r] \in Requests
    BY <2>1 DEF HasEntry
  <2>3. /\ \A x \in Requests : memory[x] \subseteq memory'[x]
        /\ r \in memory'[using[r]]
    BY <2>1, <2>2
  <2>4. \A s \in Sids : Found(s) \subseteq Found(s)'
    BY <2>1, <2>3 DEF Found, MaybeRequest
  <2>5. SidOf[r] \notin displaced => r \in Found(SidOf[r])'
    BY <2>1, <2>2, <2>3 DEF AgentInPool, Found
  <2> QED
    BY <2>1, <2>4, <2>5 DEF EndedFound
<1>4. ASSUME NEW r \in Requests, HandlerReturns(r) \/ StreamingHandlerReturns(r)
      PROVE  EndedFound'
  <2>1. Release(SidOf[r]) /\ UNCHANGED <<pool, memory, displaced>>
    BY <1>4 DEF HandlerReturns, StreamingHandlerReturns
  <2>2. \A q \in Requests : agent'[q] = "ended" => agent[q] = "ended"
    BY <1>4 DEF HandlerReturns, StreamingHandlerReturns
  <2>3. \A s \in Sids : pool[s] = None => disk'[s] = disk[s]
    BY <2>1 DEF Release
  <2>4. \A s \in Sids : Found(s)' = Found(s)
    BY <2>1, <2>3 DEF Found
  <2> QED
    BY <1>0, <2>1, <2>2, <2>4
<1>5. CASE CleanupExpired
  <2>1. /\ pool' = [s \in Sids |-> IF s \in Expired THEN None ELSE pool[s]]
        /\ disk' = DiskWithout(Expired) /\ Expired \in SUBSET Live
        /\ UNCHANGED <<memory, agent>> /\ displaced \subseteq displaced'
    BY <1>5 DEF CleanupExpired, Expired, entryVars
  <2>2. ASSUME NEW s \in Sids
        PROVE  Found(s) \subseteq Found(s)'
    <3>1. CASE s \in Expired
      <4>1. pool'[s] = None
        BY <2>1, <3>1
      <4>2. Found(s) \subseteq disk'[s]
        BY <2>1, <3>1, RemovalKeepsFound
      <4> QED
        BY <4>1, <4>2 DEF Found
    <3>2. CASE s \notin Expired
      <4>1. pool'[s] = pool[s]
        BY <2>1, <3>2
      <4>2. disk'[s] = disk[s]
        BY <2>1, <3>2, RemovalKeepsFound
      <4> QED
        BY <2>1, <4>1, <4>2 DEF Found
    <3> QED
      BY <3>1, <3>2
  <2> QED
    BY <1>0, <2>1, <2>2
<1>6. CASE Tick \/ UNCHANGED vars
  BY <1>6 DEF Tick, vars, entryVars, EndedFound, Found
<1> QED
  BY <1>1, <1>2, <1>3, <1>4, <1>5, <1>6 DEF Next, RequestStep

\* As long as the process has not been restarted.
KeptInv == AgentInPool /\ NoAgentYet /\ (restarts = 0 => EndedFound)

LEMMA KeptStep ==
  ASSUME TypeOK, SessionInv, KeptInv, [Next]_vars
  PROVE  KeptInv'
<1> USE DEF SessionInv, KeptInv
<1>1. AgentInPool'
  BY AgentInPoolStep
<1>2. NoAgentYet'
  BY NoAgentYetStep
<1>3. CASE Restart \/ RestartInSave
  <2>1. restarts' = restarts + 1
    BY <1>3 DEF Restart, RestartInSave, RestartWith
  <2>2. restarts' # 0
    BY <2>1, BoundsAssumption DEF TypeOK
  <2> QED
    BY <1>1, <1>2, <2>2
<1>4. CASE ~(Restart \/ RestartInSave)
  <2>1. restarts' = restarts
    BY <1>4 DEF Next, RequestStep, AcquireFree, AcquireWait, AcquireCreate,
       LockGranted, ReachSemaphore, SlotGranted, AgentEnds, ClientDisconnects,
       HandlerReturns, StreamingHandlerReturns, Reply, CleanupExpired, Tick, vars
  <2>2. restarts = 0 => EndedFound'
    BY <1>4, EndedFoundStep
  <2> QED
    BY <1>1, <1>2, <2>1, <2>2
<1> QED
  BY <1>3, <1>4

LEMMA KeptInvariant ==
  Spec => []KeptInv
<1>1. Init => KeptInv
  BY DEF Init, KeptInv, AgentInPool, NoAgentYet, EndedFound
<1>2. TypeOK /\ SessionInv /\ KeptInv /\ [Next]_vars => KeptInv'
  BY KeptStep
<1> QED
  BY <1>1, <1>2, SessionDiscipline, PTL DEF Spec

\* For streaming requests too, and although their agents run after the session
\* was released: a turn that its client has the answer of is in the memory of the
\* session's entry, or on disk if there is none, while the process lives and
\* nobody took the entry away in use.
THEOREM TurnsKeptTheorem == Spec => []UndisplacedTurnsKept
<1>1. KeptInv => UndisplacedTurnsKept
  BY DEF KeptInv, EndedFound, Found, UndisplacedTurnsKept, Answered
<1> QED
  BY <1>1, KeptInvariant, PTL

-----------------------------------------------------------------------------
(***************************************************************************)
(* What an agent starts from                                               *)
(***************************************************************************)

\* A step moves one agent at most, unless the process starts again.
LEMMA AgentMoves ==
  ASSUME TypeOK, [Next]_vars
  PROVE  \/ agent' = agent
         \/ \E q \in Requests :
              /\ \A x \in Requests \ {q} : agent'[x] = agent[x]
              /\ \/ ReachSemaphore(q) \/ SlotGranted(q)
                 \/ /\ StreamingHandlerReturns(q)
                    /\ agent'[q] = "created"
                 \/ /\ agent[q] # "ended"
                    /\ agent'[q] \in {"ended", "cancelled"}
         \/ /\ \A x \in Requests : agent'[x] \in {agent[x], "killed"}
            /\ \A x \in Requests : agent[x] = "ended" => agent'[x] = "ended"
<1> USE DEF TypeOK
<1>1. ASSUME NEW q \in Requests,
             AcquireFree(q) \/ AcquireWait(q) \/ LockGranted(q) \/ Reply(q)
      PROVE  agent' = agent
  BY <1>1 DEF AcquireFree, AcquireWait, LockGranted, Reply
<1>2. ASSUME NEW q \in Requests, AcquireCreate(q) \/ HandlerReturns(q)
      PROVE  agent' = agent
  BY <1>2 DEF AcquireCreate, HandlerReturns
<1>3. ASSUME CleanupExpired \/ Tick \/ UNCHANGED vars
      PROVE  agent' = agent
  BY <1>3 DEF CleanupExpired, Tick, vars
<1>4. ASSUME NEW q \in Requests, ReachSemaphore(q) \/ SlotGranted(q)
      PROVE  \A x \in Requests \ {q} : agent'[x] = agent[x]
  BY <1>4 DEF ReachSemaphore, SlotGranted, BeginAgent
<1>5. ASSUME NEW q \in Requests, AgentEnds(q)
      PROVE  /\ \A x \in Requests \ {q} : agent'[x] = agent[x]
             /\ agent[q] # "ended" /\ agent'[q] \in {"ended", "cancelled"}
  BY <1>5 DEF AgentEnds
<1>6. ASSUME NEW q \in Requests, ClientDisconnects(q)
      PROVE  /\ \A x \in Requests \ {q} : agent'[x] = agent[x]
             /\ agent[q] # "ended" /\ agent'[q] \in {"ended", "cancelled"}
  <2>1. agent[q] # "ended" /\ agent' = [agent EXCEPT ![q] = "cancelled"]
    BY <1>6 DEF ClientDisconnects
  <2> QED
    BY <2>1
<1>7. ASSUME NEW q \in Requests, StreamingHandlerReturns(q)
      PROVE  /\ \A x \in Requests \ {q} : agent'[x] = agent[x]
             /\ agent'[q] = "created"
  BY <1>7 DEF StreamingHandlerReturns
<1>8. ASSUME Restart \/ RestartInSave
      PROVE  /\ \A x \in Requests : agent'[x] \in {agent[x], "killed"}
             /\ \A x \in Requests : agent[x] = "ended" => agent'[x] = "ended"
  <2>1. PICK files : RestartWith(files)
    BY <1>8 DEF Restart, RestartInSave
  <2> QED
    BY <2>1 DEF RestartWith
<1> QED
  BY <1>1, <1>2, <1>3, <1>4, <1>5, <1>6, <1>7, <1>8 DEF Next, RequestStep

\* An agent of a quiet session starts under its handler, with the entry of the
\* session, whose memory is what was saved and more.
LEMMA StartSeesAnswered ==
  ASSUME TypeOK, SessionInv, ~TornWrites, [Next]_vars,
         NEW r \in Requests, agent[r] # "running", agent'[r] = "running",
         Quiet(SidOf[r]), NEW q \in Requests, SidOf[q] = SidOf[r], Answered(q)
  PROVE  q \in memory[using[r]]
<1> USE RequestsAssumption DEF TypeOK
<1>1. ReachSemaphore(r) \/ SlotGranted(r)
  BY AgentMoves
<1>2. r \in Requests \ Streams /\ SidOf[r] \notin displaced
  BY DEF Quiet
<1>3. InAcquireOrLater(r)
  BY <1>1, <1>2 DEF ReachSemaphore, SlotGranted, SessionInv, AgentInHandler,
     InAcquireOrLater
<1>4. pool[SidOf[r]] = using[r] /\ using[r] \in Requests
  BY <1>2, <1>3 DEF SessionInv, InPool, HasEntry, InAcquireOrLater
<1>5. disk[SidOf[r]] \subseteq memory[using[r]]
  BY <1>4 DEF SessionInv, MemoryAhead, Live
<1>6. q \in disk[SidOf[q]]
  BY DEF SessionInv, MemoryAhead, Answered
<1> QED
  BY <1>5, <1>6

\* The memory of a quiet session's agent holds, when it starts, every turn the
\* session has answered, provided a crash never falls inside the writing of a file.
THEOREM SeesAnsweredTheorem == ~TornWrites /\ Spec => SeesAnsweredTurns
<1> DEFINE Sees == \A r \in Requests :
                     agent[r] # "running" /\ agent'[r] = "running" /\ Quiet(SidOf[r]) =>
                       \A q \in Requests : SidOf[q] = SidOf[r] /\ Answered(q) =>
                         q \in memory[using[r]]
<1>1. ASSUME ~TornWrites
      PROVE  TypeOK /\ SessionInv /\ [Next]_vars => [Sees]_vars
  BY <1>1, StartSeesAnswered
<1> HIDE DEF Sees
<1>2. CASE ~TornWrites
  <2>1. TypeOK /\ SessionInv /\ [Next]_vars => [Sees]_vars
    BY <1>1, <1>2
  <2>2. Spec => [][Sees]_vars
    BY <2>1, SessionDiscipline, PTL DEF Spec
  <2> QED
    BY <2>2 DEF SeesAnsweredTurns, Sees
<1> QED
  BY <1>2

-----------------------------------------------------------------------------
(***************************************************************************)
(* The refinement of SerialSessions                                        *)
(***************************************************************************)

\* A turn that is in a memory or in a file has ended.
TurnsEnded ==
  /\ \A s \in Sids : \A r \in disk[s] : agent[r] = "ended"
  /\ \A e \in Requests : \A r \in memory[e] : agent[r] = "ended"

\* The memory of a quiet session's entry holds no more than the file, and the turn
\* that its handler is about to save.
MemoryExact ==
  \A s \in Live : Quiet(s) =>
    \A t \in memory[pool[s]] \ disk[s] :
      SidOf[t] = s /\ handler[t] = "awaitAgent" /\ agent[t] = "ended"

RefinementInv == TurnsEnded /\ MemoryExact

\* An agent that has ended has ended for good.
LEMMA EndedStays ==
  ASSUME TypeOK, HasEntry, NoAgentYet, [Next]_vars,
         NEW r \in Requests, agent[r] = "ended"
  PROVE  agent'[r] = "ended"
<1> USE DEF TypeOK
<1>1. ASSUME NEW q \in Requests, ReachSemaphore(q)
      PROVE  agent'[r] = "ended"
  <2>1. agent[q] # "ended" /\ \A x \in Requests \ {q} : agent'[x] = agent[x]
    BY <1>1 DEF ReachSemaphore, BeginAgent, NoAgentYet
  <2> QED
    BY <2>1
<1>2. ASSUME NEW q \in Requests, StreamingHandlerReturns(q)
      PROVE  agent'[r] = "ended"
  BY <1>2 DEF StreamingHandlerReturns, NoAgentYet
<1>3. ASSUME ~(\E q \in Requests : ReachSemaphore(q) \/ StreamingHandlerReturns(q))
      PROVE  agent'[r] = "ended"
  <2>1. ASSUME NEW q \in Requests, SlotGranted(q)
        PROVE  agent'[r] = "ended"
    BY <2>1 DEF SlotGranted, BeginAgent
  <2> QED
    BY <1>3, <2>1, AgentMoves
<1> QED
  BY <1>1, <1>2, <1>3

LEMMA TurnsEndedStep ==
  ASSUME TypeOK, SessionInv, NoAgentYet, TurnsEnded, ~TornWrites, [Next]_vars
  PROVE  TurnsEnded'
<1> USE RequestsAssumption DEF TypeOK
<1>1. \A r \in Requests : agent[r] = "ended" => agent'[r] = "ended"
  BY EndedStays DEF SessionInv
<1> DEFINE Over(turns) == \A t \in turns : agent'[t] = "ended"
<1>2. (\A s \in Sids : Over(disk[s])) /\ (\A e \in Requests : Over(memory[e]))
  BY <1>1 DEF TurnsEnded
<1>3. SUFFICES /\ \A s \in Sids : Over(disk'[s])
               /\ \A e \in Requests : Over(memory'[e])
  BY DEF TurnsEnded
<1>4. ASSUME NEW gone \in SUBSET Live, disk' = DiskWithout(gone)
      PROVE  \A s \in Sids : Over(disk'[s])
  <2>1. \A s \in Sids : \/ disk'[s] = disk[s]
                       \/ (pool[s] \in Requests /\ disk'[s] = memory[pool[s]])
    BY <1>4 DEF DiskWithout, Saved, Live, MaybeRequest
  <2>2. ASSUME NEW s \in Sids
        PROVE  Over(disk'[s])
    <3>1. Over(disk[s]) /\ (pool[s] \in Requests => Over(memory[pool[s]]))
      BY <1>2
    <3> QED
      BY <2>1, <3>1
  <2> QED
    BY <2>2
<1>5. ASSUME NEW r \in Requests, AcquireCreate(r)
      PROVE  /\ \A s \in Sids : Over(disk'[s])
             /\ \A e \in Requests : Over(memory'[e])
  <2>1. PICK gone \in Evictions : disk' = DiskWithout(gone)
    BY <1>5 DEF AcquireCreate
  <2>2. \A s \in Sids : Over(disk'[s])
    BY <1>4, <2>1, EvictionsAreLive
  <2>3. \A e \in Requests : memory'[e] = memory[e] \/ memory'[e] = disk[SidOf[r]]
    BY <1>5 DEF AcquireCreate
  <2> QED
    BY <1>2, <2>2, <2>3
<1>6. ASSUME NEW r \in Requests, AgentEnds(r)
      PROVE  /\ \A s \in Sids : Over(disk'[s])
             /\ \A e \in Requests : Over(memory'[e])
  <2>1. /\ disk' = disk /\ agent'[r] = "ended"
        /\ \A e \in Requests : memory'[e] \subseteq memory[e] \cup {r}
    BY <1>6 DEF AgentEnds
  <2> QED
    BY <1>2, <2>1
<1>7. ASSUME NEW r \in Requests, HandlerReturns(r) \/ StreamingHandlerReturns(r)
      PROVE  /\ \A s \in Sids : Over(disk'[s])
             /\ \A e \in Requests : Over(memory'[e])
  <2>1. Release(SidOf[r]) /\ memory' = memory
    BY <1>7 DEF HandlerReturns, StreamingHandlerReturns
  <2>2. \A s \in Sids : \/ disk'[s] = disk[s]
                       \/ (pool[s] \in Requests /\ disk'[s] = memory[pool[s]])
    BY <2>1 DEF Release, Saved, MaybeRequest
  <2>3. ASSUME NEW s \in Sids
        PROVE  Over(disk'[s])
    <3>1. Over(disk[s]) /\ (pool[s] \in Requests => Over(memory[pool[s]]))
      BY <1>2
    <3> QED
      BY <2>2, <3>1
  <2> QED
    BY <1>2, <2>1, <2>3
<1>8. CASE CleanupExpired
  <2>1. disk' = DiskWithout(Expired) /\ Expired \in SUBSET Live /\ memory' = memory
    BY <1>8 DEF CleanupExpired, Expired, entryVars
  <2> QED
    BY <1>2, <1>4, <2>1
<1>9. ASSUME UNCHANGED <<disk, memory>>
      PROVE  /\ \A s \in Sids : Over(disk'[s])
             /\ \A e \in Requests : Over(memory'[e])
  BY <1>2, <1>9
<1>10. \/ UNCHANGED <<disk, memory>> \/ CleanupExpired
       \/ \E r \in Requests : \/ AcquireCreate(r) \/ AgentEnds(r)
                              \/ HandlerReturns(r) \/ StreamingHandlerReturns(r)
  BY DEF Next, RequestStep, AcquireFree, AcquireWait, LockGranted, ReachSemaphore,
     SlotGranted, ClientDisconnects, Reply, Tick, Restart, RestartInSave,
     RestartWith, entryVars, vars
<1> QED
  BY <1>5, <1>6, <1>7, <1>8, <1>9, <1>10

\* What is saved of a quiet session is its file and the turn that has just ended.
LEMMA SavedExact ==
  ASSUME TypeOK, SessionInv, MemoryExact, ~TornWrites, NEW s \in Live, Quiet(s)
  PROVE  /\ disk[s] \subseteq Saved(s)
         /\ \A t \in Saved(s) \ disk[s] :
              SidOf[t] = s /\ handler[t] = "awaitAgent" /\ agent[t] = "ended"
BY SavedGrows DEF SessionInv, MemoryExact, Saved

\* Popping a quiet session that nobody uses changes nothing in its file.
LEMMA RemovalExact ==
  ASSUME TypeOK, SessionInv, MemoryExact, ~TornWrites,
         NEW gone \in SUBSET Live, disk' = DiskWithout(gone),
         NEW s \in Sids, Quiet(s), s \in gone => ~InUse(pool[s])
  PROVE  disk'[s] = disk[s]
<1>1. CASE s \notin gone
  BY <1>1 DEF DiskWithout, TypeOK
<1>2. CASE s \in gone
  <2>1. disk'[s] = Saved(s) /\ s \in Live
    BY <1>2 DEF DiskWithout, TypeOK
  <2>2. disk[s] \subseteq Saved(s)
    BY <2>1, SavedExact
  <2>3. ASSUME NEW t \in Saved(s), t \notin disk[s]
        PROVE  FALSE
    <3>1. SidOf[t] = s /\ handler[t] = "awaitAgent"
      BY <2>1, <2>3, SavedExact
    <3>2. t \in Requests
      BY <2>1, <2>3, RequestsAssumption DEF TypeOK, Saved, Live, MaybeRequest
    <3>3. pool[s] = using[t]
      BY <3>1, <3>2 DEF SessionInv, InPool, InAcquireOrLater, Quiet
    <3>4. InUse(pool[s])
      BY <3>1, <3>2, <3>3 DEF InUse
    <3> QED
      BY <1>2, <3>4
  <2> QED
    BY <2>1, <2>2, <2>3
<1> QED
  BY <1>1, <1>2

LEMMA MemoryExactStep ==
  ASSUME TypeOK, SessionInv, NoAgentYet, MemoryExact, ~TornWrites, [Next]_vars
  PROVE  MemoryExact'
<1> USE RequestsAssumption DEF TypeOK
<1>1. \A s \in Sids : Quiet(s)' => Quiet(s)
  BY QuietStep
<1>2. \A t \in Requests : agent[t] = "ended" => agent'[t] = "ended"
  BY EndedStays DEF SessionInv
<1> DEFINE Due(t, s) == SidOf[t] = s /\ handler[t] = "awaitAgent" /\ agent[t] = "ended"
<1>3. ASSUME NEW s \in Live, Quiet(s), NEW t \in memory[pool[s]], t \notin disk[s]
      PROVE  Due(t, s) /\ t \in Requests
  <2>1. Due(t, s)
    BY <1>3 DEF MemoryExact
  <2>2. pool[s] \in Requests
    BY DEF Live, MaybeRequest
  <2> QED
    BY <2>1, <2>2
<1> SUFFICES ASSUME NEW s \in Live', Quiet(s)',
                    NEW t \in memory'[pool'[s]], t \notin disk'[s]
             PROVE  Due(t, s)'
  BY DEF MemoryExact
<1>4. Quiet(s) /\ s \in Sids
  BY <1>1 DEF Live
<1>5. ASSUME s \in Live, pool'[s] = pool[s], t \in memory[pool[s]], disk[s] \subseteq disk'[s],
             \A x \in Requests : handler[x] = "awaitAgent" => handler'[x] = "awaitAgent"
      PROVE  Due(t, s)'
  BY <1>2, <1>3, <1>4, <1>5
<1>6. ASSUME NEW r \in Requests,
             \/ AcquireFree(r) \/ AcquireWait(r) \/ LockGranted(r)
             \/ ReachSemaphore(r) \/ SlotGranted(r) \/ ClientDisconnects(r)
             \/ Reply(r)
      PROVE  Due(t, s)'
  <2>1. UNCHANGED <<pool, disk, memory>>
    BY <1>6 DEF AcquireFree, AcquireWait, LockGranted, ReachSemaphore, SlotGranted,
       ClientDisconnects, Reply, entryVars
  <2>2. \A x \in Requests : handler[x] = "awaitAgent" => handler'[x] = "awaitAgent"
    BY <1>6 DEF AcquireFree, AcquireWait, LockGranted, ReachSemaphore, SlotGranted,
       ClientDisconnects, Reply, TakeLock
  <2>3. s \in Live
    BY <2>1 DEF Live
  <2> QED
    BY <1>5, <2>1, <2>2, <2>3
<1>7. ASSUME NEW r \in Requests, AcquireCreate(r)
      PROVE  Due(t, s)'
  <2>1. PICK gone \in Evictions :
          /\ pool' = [x \in Sids |-> IF x = SidOf[r] THEN r
                                     ELSE IF x \in gone THEN None ELSE pool[x]]
          /\ disk' = DiskWithout(gone)
    BY <1>7 DEF AcquireCreate
  <2>2. gone \in SUBSET Live /\ s \notin gone
    <3>1. gone \in SUBSET Live /\ SidOf[r] \notin gone
      BY <1>7, <2>1, EvictionsAreLive DEF AcquireCreate, Live
    <3> QED
      BY <2>1, <3>1 DEF Live
  <2>3. /\ memory'[r] = disk[SidOf[r]]
        /\ \A x \in Requests \ {r} : memory'[x] = memory[x]
        /\ \A x \in Requests : handler[x] = "awaitAgent" => handler'[x] = "awaitAgent"
    BY <1>7 DEF AcquireCreate, TakeLock
  <2>4. disk'[s] = disk[s]
    BY <1>4, <2>1, <2>2 DEF DiskWithout
  <2>5. s # SidOf[r]
    <3>1. s = SidOf[r] => pool'[s] = r
      BY <1>4, <2>1
    <3> QED
      BY <2>3, <2>4, <3>1
  <2>6. pool'[s] = pool[s] /\ s \in Live
    BY <1>4, <2>1, <2>2, <2>5 DEF Live
  <2>7. pool[s] \in Requests \ {r}
    BY <2>5, <2>6 DEF SessionInv, EntryOfSession, Live, MaybeRequest
  <2> QED
    BY <1>5, <2>3, <2>4, <2>6, <2>7
<1>8. ASSUME NEW r \in Requests, AgentEnds(r)
      PROVE  Due(t, s)'
  <2>1. /\ UNCHANGED <<pool, disk, handler>> /\ agent[r] = "running"
        /\ agent'[r] = "ended"
        /\ memory' = [memory EXCEPT ![using[r]] = @ \cup {r}]
    BY <1>8 DEF AgentEnds
  <2>2. using[r] \in Requests /\ SidOf[using[r]] = SidOf[r]
    BY <2>1 DEF SessionInv, HasEntry
  <2>3. s \in Live /\ pool[s] \in Requests /\ SidOf[pool[s]] = s
    BY <2>1 DEF Live, MaybeRequest, SessionInv, EntryOfSession
  <2>4. CASE t \in memory[pool[s]]
    BY <1>5, <2>1, <2>3, <2>4
  <2>5. CASE t \notin memory[pool[s]]
    <3>1. t = r /\ using[r] = pool[s]
      BY <2>1, <2>2, <2>3, <2>5
    <3>2. SidOf[r] = s /\ r \notin Streams
      BY <1>4, <2>2, <2>3, <3>1 DEF Quiet
    <3>3. handler[r] = "awaitAgent"
      BY <2>1, <3>2 DEF SessionInv, AgentInHandler
    <3> QED
      BY <2>1, <3>1, <3>2, <3>3
  <2> QED
    BY <2>4, <2>5
<1>9. ASSUME NEW r \in Requests, HandlerReturns(r) \/ StreamingHandlerReturns(r)
      PROVE  Due(t, s)'
  <2>1. /\ Release(SidOf[r]) /\ UNCHANGED <<pool, memory>>
        /\ \A x \in Requests \ {r} : handler'[x] = handler[x]
    BY <1>9 DEF HandlerReturns, StreamingHandlerReturns
  <2>2. s \in Live /\ t \in memory[pool[s]]
    BY <2>1 DEF Live
  <2>3. s # SidOf[r]
    <3>1. s = SidOf[r] => disk'[s] = Saved(s)
      BY <1>4, <2>1, <2>2 DEF Release, Live
    <3>2. t \in Saved(s)
      BY <1>4, <2>2, SavedGrows DEF SessionInv
    <3> QED
      BY <3>1, <3>2
  <2>4. disk'[s] = disk[s]
    BY <1>4, <2>1, <2>3 DEF Release
  <2>5. Due(t, s) /\ t \in Requests
    BY <1>3, <1>4, <2>2, <2>4
  <2>6. t # r
    BY <2>3, <2>5
  <2> QED
    BY <1>2, <2>1, <2>5, <2>6
<1>10. CASE CleanupExpired
  <2>1. /\ pool' = [x \in Sids |-> IF x \in Expired THEN None ELSE pool[x]]
        /\ disk' = DiskWithout(Expired) /\ Expired \in SUBSET Live
        /\ UNCHANGED <<memory, handler>>
    BY <1>10 DEF CleanupExpired, Expired, entryVars
  <2>2. s \notin Expired /\ s \in Live /\ pool'[s] = pool[s]
    BY <1>4, <2>1 DEF Live
  <2>3. disk'[s] = disk[s]
    BY <1>4, <2>1, <2>2 DEF DiskWithout
  <2> QED
    BY <1>5, <2>1, <2>2, <2>3
<1>11. CASE Tick \/ UNCHANGED vars
  <2>1. UNCHANGED <<pool, disk, memory, handler>>
    BY <1>11 DEF Tick, vars, entryVars
  <2>2. s \in Live
    BY <2>1 DEF Live
  <2> QED
    BY <1>5, <2>1, <2>2
<1>12. CASE Restart
  <2>1. s \notin Live'
    BY <1>4, <1>12 DEF Restart, RestartWith, Live
  <2> QED
    BY <2>1
<1> QED
  BY <1>6, <1>7, <1>8, <1>9, <1>10, <1>11, <1>12 DEF Next, RequestStep, RestartInSave

LEMMA RefinementInvariant ==
  ASSUME ~TornWrites
  PROVE  Spec => [](NoAgentYet /\ RefinementInv)
<1>1. Init => NoAgentYet /\ RefinementInv
  BY DEF Init, NoAgentYet, RefinementInv, TurnsEnded, MemoryExact, Live
<1>2. TypeOK /\ SessionInv /\ NoAgentYet /\ RefinementInv /\ [Next]_vars
        => (NoAgentYet /\ RefinementInv)'
  BY NoAgentYetStep, TurnsEndedStep, MemoryExactStep DEF RefinementInv, SessionInv
<1> QED
  BY <1>1, <1>2, SessionDiscipline, PTL DEF Spec

\* The turn under way in a quiet session is the only one.
LEMMA OneUnderWay ==
  ASSUME TypeOK, SessionInv, NEW s \in Sids, Quiet(s), NEW r \in UnderWay(s)
  PROVE  UnderWay(s) = {r} /\ Active[s] = r
<1>1. \A q \in UnderWay(s) : q = r
  BY DEF UnderWay, SessionInv, OneHolder, Holds
<1>2. UnderWay(s) = {r}
  BY <1>1
<1> QED
  BY <1>2 DEF Active

LEMMA NoneUnderWay ==
  ASSUME NEW s \in Sids, UnderWay(s) = {}
  PROVE  Active[s] = None
BY DEF Active

\* A step that leaves the turns under way and the file alone.
LEMMA IdleStep ==
  ASSUME NEW s \in Sids, UnderWay(s)' = UnderWay(s), disk'[s] = disk[s]
  PROVE  Serial!Idle(s)
BY DEF Serial!Idle, Active

LEMMA UnderWayKept ==
  ASSUME TypeOK, NEW s \in Sids,
         \A r \in Requests : SidOf[r] = s =>
           /\ handler[r] = "awaitAgent" <=> handler'[r] = "awaitAgent"
           /\ agent[r] \in {"running", "ended"} <=> agent'[r] \in {"running", "ended"}
  PROVE  UnderWay(s)' = UnderWay(s)
BY DEF UnderWay

\* An agent that starts is a turn that begins.
LEMMA BeginStep ==
  ASSUME TypeOK, SessionInv, NoAgentYet, RefinementInv, TypeOK', SessionInv',
         NEW r \in Requests, Quiet(SidOf[r]), Quiet(SidOf[r])',
         ReachSemaphore(r) \/ SlotGranted(r)
  PROVE  Serial!Begin(SidOf[r]) \/ Serial!Idle(SidOf[r])
<1> USE RequestsAssumption DEF TypeOK
<1> DEFINE s == SidOf[r]
<1>1. s \in Sids /\ r \notin Streams
  BY DEF Quiet
<1>2. /\ Holds(r) /\ handler'[r] = "awaitAgent" /\ disk' = disk
      /\ \A q \in Requests \ {r} : handler'[q] = handler[q] /\ agent'[q] = agent[q]
      /\ agent'[r] \in {"running", "slotWait"}
      /\ agent[r] \in {"none", "slotWait"}
  <2>1. CASE ReachSemaphore(r)
    BY <1>1, <2>1 DEF ReachSemaphore, BeginAgent, Holds, NoAgentYet, SessionInv,
       AgentInHandler
  <2>2. CASE SlotGranted(r)
    BY <1>1, <2>2 DEF SlotGranted, BeginAgent, Holds, SessionInv, AgentInHandler
  <2> QED
    BY <2>1, <2>2
<1>3. UnderWay(s) = {}
  <2>1. \A q \in Requests : SidOf[q] = s /\ Holds(q) => q = r
    BY <1>2 DEF SessionInv, OneHolder
  <2> QED
    BY <1>2, <2>1 DEF UnderWay, Holds
<1>4. Active[s] = None
  BY <1>1, <1>3, NoneUnderWay
<1>5. CASE agent'[r] = "running"
  <2>1. r \in UnderWay(s)'
    BY <1>2, <1>5 DEF UnderWay
  <2>2. Active'[s] = r
    <3>1. \A q \in UnderWay(s)' : q = r
      BY <1>2, <2>1 DEF UnderWay, SessionInv, OneHolder, Holds
    <3>2. UnderWay(s)' = {r}
      BY <2>1, <3>1
    <3> QED
      BY <1>1, <3>2 DEF Active
  <2>3. r \notin disk[s]
    BY <1>1, <1>2 DEF RefinementInv, TurnsEnded
  <2> QED
    BY <1>2, <1>4, <2>2, <2>3 DEF Serial!Begin
<1>6. CASE agent'[r] = "slotWait"
  <2>1. UnderWay(s)' = UnderWay(s)
    BY <1>2, <1>3, <1>6 DEF UnderWay
  <2> QED
    BY <1>1, <1>2, <2>1, IdleStep
<1> QED
  BY <1>2, <1>5, <1>6

\* A release adds the turn that ended, and no other, to the file.
LEMMA CommitStep ==
  ASSUME TypeOK, SessionInv, RefinementInv, ~TornWrites,
         NEW r \in Requests, Quiet(SidOf[r]), HandlerReturns(r)
  PROVE  Serial!Commit(SidOf[r])
<1> USE RequestsAssumption DEF TypeOK
<1> DEFINE s == SidOf[r]
<1>1. /\ s \in Sids /\ handler[r] = "awaitAgent" /\ agent[r] = "ended"
      /\ handler' = [handler EXCEPT ![r] = "released"] /\ Release(s)
  BY DEF HandlerReturns
<1>2. r \in UnderWay(s)
  BY <1>1 DEF UnderWay
<1>3. UnderWay(s) = {r} /\ Active[s] = r
  BY <1>1, <1>2, OneUnderWay
<1>4. pool[s] = using[r] /\ using[r] \in Requests
  BY <1>1 DEF SessionInv, InPool, HasEntry, InAcquireOrLater, Quiet
<1>5. s \in Live /\ r \in memory[pool[s]]
  BY <1>1, <1>4 DEF SessionInv, MemoryAhead, Live
<1>6. disk'[s] = Saved(s)
  BY <1>1, <1>5 DEF Release, Live
<1>7. r \in Saved(s)
  BY <1>5, SavedGrows DEF SessionInv
<1>8. ASSUME NEW t \in Saved(s), t \notin disk[s]
      PROVE  t = r
  <2>1. SidOf[t] = s /\ handler[t] = "awaitAgent" /\ agent[t] = "ended"
    BY <1>5, <1>8, SavedExact DEF RefinementInv
  <2>2. t \in Requests
    BY <1>4, <1>8 DEF Saved
  <2> QED
    BY <1>3, <2>1, <2>2 DEF UnderWay
<1>9. disk'[s] = disk[s] \cup {r}
  <2>1. disk[s] \subseteq Saved(s)
    BY <1>5, SavedExact DEF RefinementInv
  <2> QED
    BY <1>6, <1>7, <1>8, <2>1
<1>10. UnderWay(s)' = {}
  <2>1. \A q \in Requests : handler'[q] = "awaitAgent" => q # r /\ handler[q] = "awaitAgent"
    BY <1>1
  <2>2. agent' = agent
    BY DEF HandlerReturns
  <2> QED
    BY <1>3, <2>1, <2>2 DEF UnderWay
<1>11. Active'[s] = None
  BY <1>1, <1>10 DEF Active
<1>12. Active[s] # None
  BY <1>3
<1> QED
  BY <1>3, <1>9, <1>11, <1>12 DEF Serial!Commit

\* A restart abandons the turns that were under way.
LEMMA AbandonStep ==
  ASSUME NEW s \in Sids, Restart
  PROVE  Serial!Abandon(s)
<1>1. UnderWay(s)' = {} /\ disk' = disk
  BY DEF Restart, RestartWith, UnderWay
<1>2. Active'[s] = None
  BY <1>1 DEF Active
<1> QED
  BY <1>1, <1>2 DEF Serial!Abandon

LEMMA SessionStep ==
  ASSUME TypeOK, SessionInv, NoAgentYet, RefinementInv, TypeOK', SessionInv',
         ~TornWrites, [Next]_vars, NEW s \in Sids, Quiet(s), Quiet(s)'
  PROVE  Serial!Begin(s) \/ Serial!Commit(s) \/ Serial!Abandon(s) \/ Serial!Idle(s)
<1> USE RequestsAssumption DEF TypeOK
<1>1. ASSUME disk'[s] = disk[s],
             \A r \in Requests : SidOf[r] = s =>
               /\ handler[r] = "awaitAgent" <=> handler'[r] = "awaitAgent"
               /\ agent[r] \in {"running", "ended"} <=> agent'[r] \in {"running", "ended"}
      PROVE  Serial!Idle(s)
  BY <1>1, UnderWayKept, IdleStep
<1>2. ASSUME NEW r \in Requests,
             \/ AcquireFree(r) \/ AcquireWait(r) \/ LockGranted(r) \/ AgentEnds(r)
             \/ Reply(r)
      PROVE  Serial!Idle(s)
  <2>1. disk' = disk
    BY <1>2 DEF AcquireFree, AcquireWait, LockGranted, AgentEnds, Reply
  <2>2. CASE AcquireFree(r) \/ LockGranted(r)
    <3>1. /\ agent' = agent /\ handler[r] \in {"new", "lockWait"}
          /\ handler' = [handler EXCEPT ![r] = "held"]
      BY <2>2 DEF AcquireFree, LockGranted, TakeLock
    <3> QED
      BY <1>1, <2>1, <3>1
  <2>3. CASE AcquireWait(r)
    <3>1. /\ agent' = agent /\ handler[r] = "new"
          /\ handler' = [handler EXCEPT ![r] = "lockWait"]
      BY <2>3 DEF AcquireWait
    <3> QED
      BY <1>1, <2>1, <3>1
  <2>4. CASE Reply(r)
    <3>1. /\ agent' = agent /\ handler[r] = "released"
          /\ handler' = [handler EXCEPT ![r] = "replied"]
      BY <2>4 DEF Reply
    <3> QED
      BY <1>1, <2>1, <3>1
  <2>5. CASE AgentEnds(r)
    <3>1. /\ handler' = handler /\ agent[r] = "running"
          /\ agent' = [agent EXCEPT ![r] = "ended"]
      BY <2>5 DEF AgentEnds
    <3> QED
      BY <1>1, <2>1, <3>1
  <2> QED
    BY <1>2, <2>2, <2>3, <2>4, <2>5
<1>3. ASSUME NEW r \in Requests, AcquireCreate(r)
      PROVE  Serial!Idle(s)
  <2>1. PICK gone \in Evictions :
          /\ pool' = [x \in Sids |-> IF x = SidOf[r] THEN r
                                     ELSE IF x \in gone THEN None ELSE pool[x]]
          /\ disk' = DiskWithout(gone)
          /\ displaced' = displaced \cup DisplacedBy(gone)
    BY <1>3 DEF AcquireCreate
  <2>2. gone \in SUBSET Live
    BY <2>1, EvictionsAreLive
  <2>3. s \in gone => ~InUse(pool[s])
    BY <2>1 DEF DisplacedBy, Quiet
  <2>4. disk'[s] = disk[s]
    BY <2>1, <2>2, <2>3, RemovalExact DEF RefinementInv
  <2>5. \A q \in Requests :
          /\ handler[q] = "awaitAgent" <=> handler'[q] = "awaitAgent"
          /\ agent[q] \in {"running", "ended"} <=> agent'[q] \in {"running", "ended"}
    BY <1>3 DEF AcquireCreate, TakeLock
  <2> QED
    BY <1>1, <2>4, <2>5
<1>4. ASSUME NEW r \in Requests, ReachSemaphore(r) \/ SlotGranted(r)
      PROVE  Serial!Begin(s) \/ Serial!Idle(s)
  <2>1. CASE SidOf[r] = s
    BY <1>4, <2>1, BeginStep
  <2>2. CASE SidOf[r] # s
    <3>1. /\ disk' = disk
          /\ \A q \in Requests \ {r} : handler'[q] = handler[q] /\ agent'[q] = agent[q]
      BY <1>4 DEF ReachSemaphore, SlotGranted, BeginAgent
    <3> QED
      BY <1>1, <2>2, <3>1
  <2> QED
    BY <2>1, <2>2
<1>5. ASSUME NEW r \in Requests, ClientDisconnects(r) \/ StreamingHandlerReturns(r)
      PROVE  Serial!Idle(s)
  <2>1. r \in Streams /\ SidOf[r] # s
    BY <1>5 DEF ClientDisconnects, StreamingHandlerReturns, Quiet
  <2>2. \A q \in Requests \ {r} : handler'[q] = handler[q] /\ agent'[q] = agent[q]
    BY <1>5 DEF ClientDisconnects, StreamingHandlerReturns
  <2>3. disk'[s] = disk[s]
    BY <1>5, <2>1 DEF ClientDisconnects, StreamingHandlerReturns, Release
  <2> QED
    BY <1>1, <2>1, <2>2, <2>3
<1>6. ASSUME NEW r \in Requests, HandlerReturns(r)
      PROVE  Serial!Commit(s) \/ Serial!Idle(s)
  <2>1. CASE SidOf[r] = s
    BY <1>6, <2>1, CommitStep
  <2>2. CASE SidOf[r] # s
    <3>1. /\ Release(SidOf[r]) /\ agent' = agent
          /\ \A q \in Requests \ {r} : handler'[q] = handler[q]
      BY <1>6 DEF HandlerReturns
    <3>2. disk'[s] = disk[s]
      BY <2>2, <3>1 DEF Release
    <3> QED
      BY <1>1, <2>2, <3>1, <3>2
  <2> QED
    BY <2>1, <2>2
<1>7. CASE CleanupExpired
  <2>1. /\ disk' = DiskWithout(Expired) /\ Expired \in SUBSET Live
        /\ displaced' = displaced \cup DisplacedBy(Expired)
        /\ UNCHANGED <<handler, agent>>
    BY <1>7 DEF CleanupExpired, Expired
  <2>2. s \in Expired => ~InUse(pool[s])
    BY <2>1 DEF DisplacedBy, Quiet
  <2>3. disk'[s] = disk[s]
    BY <2>1, <2>2, RemovalExact DEF RefinementInv
  <2> QED
    BY <1>1, <2>1, <2>3
<1>8. CASE Tick \/ UNCHANGED vars
  <2>1. UNCHANGED <<disk, handler, agent>>
    BY <1>8 DEF Tick, vars
  <2> QED
    BY <1>1, <2>1
<1>9. CASE Restart
  BY <1>9, AbandonStep
<1> QED
  BY <1>2, <1>3, <1>4, <1>5, <1>6, <1>7, <1>8, <1>9 DEF Next, RequestStep,
     RestartInSave

\* The server runs every quiet session as SerialSessions says: one turn at a time,
\* each added to the session's file exactly once, when its request is released, and
\* nothing else ever; for any number of requests, sessions and slots, provided a
\* crash never falls inside the writing of a file.
THEOREM RefinementTheorem == ~TornWrites /\ Spec => ImplementsSerialSessions
<1>1. Init => Serial!Init
  <2>1. ASSUME Init, NEW s \in Sids
        PROVE  UnderWay(s) = {}
    BY <2>1 DEF Init, UnderWay
  <2>2. Init => Active = [s \in Sids |-> None]
    BY <2>1 DEF Active
  <2> QED
    BY <2>2 DEF Init, Serial!Init, Kept
<1> DEFINE Inv == TypeOK /\ SessionInv /\ NoAgentYet /\ RefinementInv
<1>2. ASSUME ~TornWrites
      PROVE  Inv /\ Inv' /\ [Next]_vars => Serial!Next
  <2> SUFFICES ASSUME Inv, Inv', [Next]_vars
               PROVE  Serial!Next
    OBVIOUS
  <2>1. \A s \in Sids : Quiet(s)' => Quiet(s)
    BY QuietStep
  <2>2. Kept' \subseteq Kept
    BY <2>1 DEF Kept
  <2>3. ASSUME NEW s \in Kept'
        PROVE  Serial!Begin(s) \/ Serial!Commit(s) \/ Serial!Abandon(s) \/ Serial!Idle(s)
    <3>1. s \in Sids /\ Quiet(s)' /\ Quiet(s)
      BY <2>1, <2>3 DEF Kept
    <3> QED
      BY <1>2, <3>1, SessionStep
  <2> QED
    BY <2>2, <2>3 DEF Serial!Next
<1> HIDE DEF Inv
<1>3. CASE ~TornWrites
  <2>1. Inv /\ Inv' /\ [Next]_vars => Serial!Next
    BY <1>2, <1>3
  <2>2. Spec => []Inv
    BY <1>3, SessionDiscipline, RefinementInvariant, PTL DEF Inv
  <2>3. Spec => Serial!Spec
    BY <1>1, <2>1, <2>2, PTL DEF Spec, Serial!Spec
  <2> QED
    BY <2>3 DEF ImplementsSerialSessions
<1> QED
  BY <1>3
=============================================================================
