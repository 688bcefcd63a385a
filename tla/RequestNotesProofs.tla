------------------------- MODULE RequestNotesProofs -------------------------
(***************************************************************************)
(* Theorems about RequestNotes, for any users, requests, replies and       *)
(* bounds.                                                                 *)
(***************************************************************************)
EXTENDS RequestNotes, FiniteSetTheorems, TLAPS

-----------------------------------------------------------------------------
(* Types *)

TaskType ==
  /\ task \in [Tasks -> Task]
  /\ \A t \in Tasks : task[t].pc \in Working =>
       task[t].user \in Users /\ task[t].session \in Sessions

\* A task goes on, with what it had.
LEMMA GotoTask ==
  ASSUME TaskType, NEW t \in Tasks, NEW l \in Working, task[t].pc \in Working, Goto(t, l)
  PROVE  /\ TaskType'
         /\ task'[t].pc = l
         /\ \A q \in Tasks : q # t => task'[q] = task[q]
BY DEF TaskType, Goto, Put, Task

LEMMA PutTask ==
  ASSUME TaskType, NEW t \in Tasks, NEW rec \in Task, Put(t, rec),
         rec.pc \in Working => rec.user \in Users /\ rec.session \in Sessions
  PROVE  /\ TaskType'
         /\ task'[t] = rec
         /\ \A q \in Tasks : q # t => task'[q] = task[q]
BY DEF TaskType, Put

LEMMA NothingFound == <<>> \in Findings
BY DEF Findings

LEMMA EndedTask == Ended \in Task /\ Ended.pc = "done"
BY NothingFound DEF Ended, NoTask, Task

\* What changes in a task that goes on: what it found, how far it is.
LEMMA PutFields ==
  ASSUME TaskType, NEW t \in Tasks, task[t].pc \in Working,
         NEW l \in Working, NEW found \in Findings, NEW n \in Nat,
         \/ Put(t, [task[t] EXCEPT !.left = found, !.pc = l])
         \/ Put(t, [task[t] EXCEPT !.stored = n, !.pc = l])
         \/ Put(t, [task[t] EXCEPT !.stored = n])
  PROVE  TaskType'
<1> DEFINE x == task[t]
<1>1. x \in Task /\ x.user \in Users /\ x.session \in Sessions
  BY DEF TaskType
<1>2. ASSUME NEW rec \in Task, rec.user = x.user, rec.session = x.session, Put(t, rec)
      PROVE  TaskType'
  BY <1>1, <1>2, PutTask
<1>3. /\ [x EXCEPT !.left = found, !.pc = l] \in Task
      /\ [x EXCEPT !.left = found, !.pc = l].user = x.user
      /\ [x EXCEPT !.left = found, !.pc = l].session = x.session
  BY <1>1 DEF Task
<1>4. /\ [x EXCEPT !.stored = n, !.pc = l] \in Task
      /\ [x EXCEPT !.stored = n, !.pc = l].user = x.user
      /\ [x EXCEPT !.stored = n, !.pc = l].session = x.session
  BY <1>1 DEF Task
<1>5. /\ [x EXCEPT !.stored = n] \in Task
      /\ [x EXCEPT !.stored = n].user = x.user
      /\ [x EXCEPT !.stored = n].session = x.session
  BY <1>1 DEF Task
<1> QED
  BY <1>2, <1>3, <1>4, <1>5

LEMMA TaskStep ==
  ASSUME TypeOK, [Next]_vars
  PROVE  TaskType'
<1> USE DEF Working
<1>0. TaskType
  BY DEF TypeOK, TaskType
<1>1. ASSUME NEW r \in Requests, RequestEnds(r)
      PROVE  TaskType'
  <2>1. PICK e \in Endings[r] :
          LET begun == [NoTask EXCEPT !.user = e.user, !.session = e.session,
                                      !.trajectory = e.trajectory]
          IN  task' = [task EXCEPT
                ![<<r, "notes">>] = IF e.user = None THEN Ended
                                    ELSE [begun EXCEPT !.pc = "waiting"],
                ![<<r, "facts">>] = IF e.user = None \/ ~e.identified THEN Ended
                                    ELSE [begun EXCEPT !.pc = "extract"]]
    BY <1>1 DEF RequestEnds
  <2> DEFINE begun == [NoTask EXCEPT !.user = e.user, !.session = e.session,
                                     !.trajectory = e.trajectory]
             a == IF e.user = None THEN Ended ELSE [begun EXCEPT !.pc = "waiting"]
             b == IF e.user = None \/ ~e.identified THEN Ended
                                    ELSE [begun EXCEPT !.pc = "extract"]
  <2>2. \A rec \in {a, b} : /\ rec \in Task
                            /\ rec.pc \in Working => /\ rec.user \in Users
                                                     /\ rec.session \in Sessions
    <3>1. /\ e.user \in Users \cup {None} /\ e.session \in Sessions
          /\ e.trajectory \in {"none", "empty", "text"}
      BY EndingsAssumption
    <3>2. ASSUME NEW l \in Working
          PROVE  /\ [begun EXCEPT !.pc = l] \in Task
                 /\ [begun EXCEPT !.pc = l].user = e.user
                 /\ [begun EXCEPT !.pc = l].session \in Sessions
      BY <3>1, NothingFound DEF Task, NoTask
    <3> HIDE DEF begun
    <3> QED
      BY <3>1, <3>2, EndedTask
  <2>3. task' = [task EXCEPT ![<<r, "notes">>] = a, ![<<r, "facts">>] = b]
    BY <2>1
  <2>4. <<r, "notes">> \in Tasks /\ <<r, "facts">> \in Tasks
    BY DEF Tasks
  <2> HIDE DEF a, b
  <2> QED
    BY <1>0, <2>2, <2>3, <2>4 DEF TaskType
<1>2. ASSUME NEW r \in Requests, Observe(r)
      PROVE  TaskType'
  <2> DEFINE t == <<r, "notes">>
  <2>0. t \in Tasks
    BY DEF Tasks
  <2>1. CASE Acquire(r) \/ StoreTrajectory(r) \/ CheckUser(r) \/ StoreNotes(r)
    <3>1. PICK l \in Working : task[t].pc \in Working /\ Goto(t, l)
      BY <2>1 DEF Acquire, StoreTrajectory, CheckUser, StoreNotes
    <3> QED
      BY <1>0, <2>0, <3>1, GotoTask
  <2>2. CASE ExtractNotes(r)
    <3>1. PICK found \in Findings, l \in Working :
            /\ task[t].pc \in Working
            /\ Put(t, [task[t] EXCEPT !.left = found, !.pc = l])
      BY <2>2 DEF ExtractNotes, Findings
    <3> QED
      BY <1>0, <2>0, <3>1, PutFields
  <2>3. CASE Release(r)
    BY <1>0, <2>0, <2>3, PutTask, EndedTask DEF Release
  <2> QED
    BY <1>2, <2>1, <2>2, <2>3 DEF Observe
<1>3. ASSUME NEW r \in Requests, Extract(r)
      PROVE  TaskType'
  <2> DEFINE t == <<r, "facts">>
  <2>0. t \in Tasks
    BY DEF Tasks
  <2>1. CASE ExtractFacts(r)
    <3>1. PICK found \in Findings :
            /\ task[t].pc \in Working
            /\ \/ Put(t, Ended)
               \/ Put(t, [task[t] EXCEPT !.left = found, !.pc = "note"])
      BY <2>1 DEF ExtractFacts, Findings
    <3> QED
      BY <1>0, <2>0, <3>1, PutTask, EndedTask, PutFields
  <2>2. CASE NoteFact(r)
    <3>0. task[t].stored + 1 \in Nat /\ 0 \in Nat
      BY <1>0, <2>0 DEF TaskType, Task
    <3>1. /\ task[t].pc \in Working
          /\ \/ Put(t, [task[t] EXCEPT !.stored = task[t].stored + 1])
             \/ Put(t, [task[t] EXCEPT !.stored = 0, !.pc = "check"])
      BY <2>2, Zenon DEF NoteFact
    <3> QED
      BY <1>0, <2>0, <3>0, <3>1, NothingFound, PutFields
  <2>3. CASE CheckFacts(r)
    <3>1. /\ task[t].pc \in Working
          /\ Put(t, Ended) \/ Goto(t, "remember")
      BY <2>3 DEF CheckFacts
    <3> QED
      BY <1>0, <2>0, <3>1, PutTask, GotoTask, EndedTask
  <2>4. CASE RememberFact(r)
    <3>0. task[t].stored + 1 \in Nat
      BY <1>0, <2>0 DEF TaskType, Task
    <3>1. /\ task[t].pc = "remember"
          /\ \E ok \in BOOLEAN :
               Put(t, IF ~ok \/ task[t].stored + 1 = Len(task[t].left) THEN Ended
                     ELSE [task[t] EXCEPT !.stored = task[t].stored + 1,
                             !.pc = IF (task[t].stored + 1) % Recheck = 0 THEN "check" ELSE @])
      BY <2>4, Zenon DEF RememberFact
    <3>2. \/ Put(t, Ended)
          \/ Put(t, [task[t] EXCEPT !.stored = task[t].stored + 1, !.pc = "check"])
          \/ Put(t, [task[t] EXCEPT !.stored = task[t].stored + 1])
      BY <3>1
    <3> QED
      BY <1>0, <2>0, <3>0, <3>1, <3>2, NothingFound, PutTask, EndedTask, PutFields
  <2> QED
    BY <1>3, <2>1, <2>2, <2>3, <2>4 DEF Extract
<1>4. CASE task' = task
  BY <1>0, <1>4 DEF TaskType
<1>5. ASSUME \/ \E r \in Requests : StoreFacts(r)
             \/ \E u \in Users : CreateUser(u) \/ DeleteProfile(u) \/ DeleteNotes(u)
             \/ Cleanup \/ Close \/ UNCHANGED vars
      PROVE  task' = task
  BY <1>5 DEF StoreFacts, WriteField, KeepLocally, CreateUser, DeleteProfile, DeleteNotes,
     Cleanup, StartCleanup, ReadProfiles, ReadNotes, DeleteOrphans, EndCleanup, Close,
     restVars, otherVars, cleanedVars, taskVars, vars
<1> QED
  BY <1>1, <1>2, <1>3, <1>4, <1>5 DEF Next
-----------------------------------------------------------------------------
(* Permits *)

HasPermit == {"trajectory", "extract", "check", "upsert", "release"}
Observing == {r \in Requests : task[<<r, "notes">>].pc \in HasPermit}

\* Any step takes a permit, gives one back, or leaves both the permits and the
\* observations that hold one.
LEMMA PermitMoves ==
  ASSUME TypeOK, [Next]_vars
  PROVE  \/ \E r \in Requests : r \notin Observing /\ permits > 0
                                /\ permits' = permits - 1 /\ Observing' = Observing \cup {r}
         \/ \E r \in Observing : permits' = permits + 1 /\ Observing' = Observing \ {r}
         \/ UNCHANGED <<permits, Observing>>
<1> DEFINE t(r) == <<r, "notes">>
<1>0. TaskType /\ TaskType'
  BY TaskStep DEF TypeOK, TaskType
<1>1. \A r, q \in Requests : t(r) \in Tasks /\ (t(q) = t(r) => q = r)
  BY DEF Tasks
<1>2. ASSUME NEW r \in Requests, RequestEnds(r)
      PROVE  UNCHANGED <<permits, Observing>>
  <2>1. /\ task[t(r)].pc = "none" /\ permits' = permits
        /\ \E a \in Task : \E b :
             /\ a.pc \notin HasPermit
             /\ task' = [task EXCEPT ![<<r, "notes">>] = a, ![<<r, "facts">>] = b]
    <3>1. PICK e \in Endings[r] :
          LET begun == [NoTask EXCEPT !.user = e.user, !.session = e.session,
                                      !.trajectory = e.trajectory]
          IN  task' = [task EXCEPT
                ![<<r, "notes">>] = IF e.user = None THEN Ended
                                    ELSE [begun EXCEPT !.pc = "waiting"],
                ![<<r, "facts">>] = IF e.user = None \/ ~e.identified THEN Ended
                                    ELSE [begun EXCEPT !.pc = "extract"]]
      BY <1>2 DEF RequestEnds
    <3> DEFINE begun == [NoTask EXCEPT !.user = e.user, !.session = e.session,
                                       !.trajectory = e.trajectory]
               a == IF e.user = None THEN Ended ELSE [begun EXCEPT !.pc = "waiting"]
               b == IF e.user = None \/ ~e.identified THEN Ended
                                      ELSE [begun EXCEPT !.pc = "extract"]
    <3>2. a \in Task /\ a.pc \in {"done", "waiting"}
      <4>1. /\ e.user \in Users \cup {None} /\ e.session \in Sessions
            /\ e.trajectory \in {"none", "empty", "text"}
        BY EndingsAssumption
      <4> QED
        BY <4>1, NothingFound, EndedTask DEF Task, NoTask, Working
    <3>3. task' = [task EXCEPT ![<<r, "notes">>] = a, ![<<r, "facts">>] = b]
      BY <3>1
    <3> HIDE DEF a, b
    <3> QED
      BY <1>2, <3>2, <3>3 DEF RequestEnds, HasPermit
  <2>2. \A q \in Requests : task'[t(q)].pc = task[t(q)].pc
                              \/ {task'[t(q)].pc, task[t(q)].pc} \cap HasPermit = {}
    BY <1>0, <1>1, <2>1 DEF TaskType, HasPermit, Tasks
  <2> QED
    BY <2>1, <2>2 DEF Observing
<1>3. ASSUME NEW r \in Requests, Observe(r)
      PROVE  \/ r \notin Observing /\ permits > 0
                /\ permits' = permits - 1 /\ Observing' = Observing \cup {r}
             \/ r \in Observing /\ permits' = permits + 1 /\ Observing' = Observing \ {r}
             \/ UNCHANGED <<permits, Observing>>
  <2>1. \A q \in Requests : q # r => task'[t(q)] = task[t(q)]
    BY <1>0, <1>1, <1>3 DEF Observe, Acquire, StoreTrajectory, ExtractNotes, CheckUser,
       StoreNotes, Release, Goto, Put, TaskType
  <2>2. CASE Acquire(r)
    <3>1. task[t(r)].pc = "waiting" /\ task'[t(r)].pc \in HasPermit
      BY <1>0, <1>1, <2>2, GotoTask DEF Acquire, Working, HasPermit
    <3> QED
      BY <2>1, <2>2, <3>1 DEF Acquire, Observing, HasPermit
  <2>3. CASE StoreTrajectory(r) \/ CheckUser(r) \/ StoreNotes(r)
    <3>1. PICK l \in HasPermit : Goto(t(r), l) /\ task[t(r)].pc \in HasPermit /\ permits' = permits
      BY <2>3 DEF StoreTrajectory, CheckUser, StoreNotes, HasPermit
    <3>2. task'[t(r)].pc = l
      BY <1>0, <1>1, <3>1, GotoTask DEF Working, HasPermit
    <3> QED
      BY <2>1, <3>1, <3>2 DEF Observing
  <2>4. CASE ExtractNotes(r)
    <3>1. PICK found \in Findings, l \in HasPermit :
            Put(t(r), [task[t(r)] EXCEPT !.left = found, !.pc = l])
            /\ task[t(r)].pc \in HasPermit /\ permits' = permits
      BY <2>4 DEF ExtractNotes, HasPermit, Findings
    <3>2. task'[t(r)].pc = l
      BY <1>0, <1>1, <3>1 DEF TaskType, Put, Task
    <3> QED
      BY <2>1, <3>1, <3>2 DEF Observing
  <2>5. CASE Release(r)
    <3>1. task[t(r)].pc = "release" /\ task'[t(r)].pc = "done"
      BY <1>0, <1>1, <2>5, PutTask, EndedTask DEF Release, Working
    <3> QED
      BY <2>1, <2>5, <3>1 DEF Release, Observing, HasPermit
  <2> QED
    BY <1>3, <2>2, <2>3, <2>4, <2>5 DEF Observe
<1>4. ASSUME NEW r \in Requests, Extract(r)
      PROVE  UNCHANGED <<permits, Observing>>
  <2>1. \A q \in Requests : task'[t(q)] = task[t(q)]
    BY <1>0, <1>4 DEF Extract, ExtractFacts, NoteFact, CheckFacts, RememberFact, Goto, Put,
       TaskType, Tasks
  <2> QED
    BY <1>4, <2>1 DEF Observing, Extract, ExtractFacts, NoteFact, CheckFacts, RememberFact
<1>5. ASSUME \/ \E r \in Requests : StoreFacts(r)
             \/ \E u \in Users : CreateUser(u) \/ DeleteProfile(u) \/ DeleteNotes(u)
             \/ Cleanup \/ Close \/ UNCHANGED vars
      PROVE  UNCHANGED <<permits, Observing>>
  BY <1>5 DEF StoreFacts, WriteField, KeepLocally, CreateUser, DeleteProfile, DeleteNotes,
     Cleanup, StartCleanup, ReadProfiles, ReadNotes, DeleteOrphans, EndCleanup, Close,
     restVars, otherVars, cleanedVars, taskVars, vars, Observing
<1> QED
  BY <1>2, <1>3, <1>4, <1>5 DEF Next, Observing

LEMMA PermitStep ==
  ASSUME TypeOK, PermitsAccounted, [Next]_vars
  PROVE  PermitsAccounted' /\ permits' \in 0..Permits
<1>1. permits \in 0..Permits /\ permits + Cardinality(Observing) = Permits /\ Permits \in Nat
  BY ReadersAssumption DEF TypeOK, PermitsAccounted, Observing, HasPermit
<1>2. IsFiniteSet(Observing) /\ IsFiniteSet(Observing')
  BY RequestsAssumption, FS_Subset DEF Observing
<1>3. permits' + Cardinality(Observing') = Permits /\ permits' \in 0..Permits
  <2>1. Cardinality(Observing) \in Nat /\ Cardinality(Observing') \in Nat
    BY <1>2, FS_CardinalityType
  <2>2. ASSUME NEW r \in Requests, r \notin Observing, permits > 0,
               permits' = permits - 1, Observing' = Observing \cup {r}
        PROVE  permits' + Cardinality(Observing') = Permits /\ permits' \in 0..Permits
    BY <1>1, <1>2, <2>1, <2>2, FS_AddElement
  <2>3. ASSUME NEW r \in Observing, permits' = permits + 1, Observing' = Observing \ {r}
        PROVE  permits' + Cardinality(Observing') = Permits /\ permits' \in 0..Permits
    BY <1>1, <1>2, <2>1, <2>3, FS_RemoveElement
  <2>4. ASSUME UNCHANGED <<permits, Observing>>
        PROVE  permits' + Cardinality(Observing') = Permits /\ permits' \in 0..Permits
    BY <1>1, <2>4
  <2> QED
    BY <2>2, <2>3, <2>4, PermitMoves
<1> QED
  BY <1>3 DEF PermitsAccounted, Observing, HasPermit

-----------------------------------------------------------------------------
(* Critical facts *)

\* While store_facts writes, what it no longer has to write is in Redis; before
\* and after it holds nothing.
StoreInv ==
  \A r \in Requests :
    /\ store[r].pc = "hset" => store[r].all \ store[r].left \subseteq critical[store[r].session]
    /\ store[r].pc \in {"idle", "done"} => store[r].all = {}

FactsType ==
  /\ critical \in [Sessions -> SUBSET CriticalTexts]
  /\ local \in [Sessions -> SUBSET CriticalTexts]
  /\ noted \in [Sessions -> SUBSET CriticalTexts]
  /\ store \in [Requests -> Store]
  /\ \A r \in Requests : store[r].pc \in {"hset", "local"} => store[r].session \in Sessions

FactsInv == FactsType /\ StoreInv /\ CriticalFactsStored

\* What a request that is on its way holds of a session.
Held(s) == UNION {store[r].all : r \in {q \in Requests : store[q].session = s}}

LEMMA HeldIs ==
  ASSUME NEW s, NEW x
  PROVE  x \in Held(s) <=> \E r \in Requests : store[r].session = s /\ x \in store[r].all
BY DEF Held

LEMMA IdleStore ==
  /\ NoStore \in Store /\ NoStore.all = {} /\ NoStore.pc = "idle"
  /\ [NoStore EXCEPT !.pc = "done"] \in Store
  /\ [NoStore EXCEPT !.pc = "done"].all = {} /\ [NoStore EXCEPT !.pc = "done"].pc = "done"
BY DEF NoStore, Store

LEMMA FactsStep ==
  ASSUME FactsInv, [Next]_vars
  PROVE  FactsInv'
<1> USE DEF FactsInv
<1>1. ASSUME NEW r \in Requests, RequestEnds(r)
      PROVE  FactsInv'
  <2>1. PICK e \in Endings[r] :
          /\ store' = [store EXCEPT ![r] =
                IF e.text = {} THEN [NoStore EXCEPT !.pc = "done"]
                ELSE [pc |-> IF "redis" \in connected THEN "hset" ELSE "local",
                      session |-> e.session, left |-> e.text, all |-> e.text]]
          /\ noted' = [noted EXCEPT ![e.session] = @ \cup e.text]
    BY <1>1, Zenon DEF RequestEnds
  <2>2. e.session \in Sessions /\ e.text \subseteq CriticalTexts
    BY EndingsAssumption DEF CriticalTexts
  <2>3. store[r].pc = "idle" /\ store[r].all = {} /\ UNCHANGED <<critical, local>>
    BY <1>1 DEF RequestEnds, StoreInv
  <2>4. PICK new \in Store :
          /\ store' = [store EXCEPT ![r] = new]
          /\ new.all = e.text
          /\ \/ new.pc = "done" /\ e.text = {}
             \/ new.pc \in {"hset", "local"} /\ new.session = e.session /\ new.left = e.text
    <3>1. CASE e.text = {}
      BY <2>1, <3>1, IdleStore
    <3>2. CASE e.text # {}
      <4> DEFINE new == [pc |-> IF "redis" \in connected THEN "hset" ELSE "local",
                         session |-> e.session, left |-> e.text, all |-> e.text]
      <4>1. new \in Store
        BY <2>2 DEF Store
      <4> QED
        BY <2>1, <3>2, <4>1
    <3> QED
      BY <3>1, <3>2
  <2>5. FactsType'
    BY <2>1, <2>2, <2>3, <2>4 DEF FactsType
  <2>6. StoreInv'
    BY <2>3, <2>4 DEF FactsType, StoreInv
  <2>7. CriticalFactsStored'
    <3> SUFFICES ASSUME NEW s \in Sessions, NEW x \in noted'[s]
                 PROVE  x \in critical[s] \cup local[s] \cup Held(s)'
      BY <2>3 DEF CriticalFactsStored, Held
    <3>1. x \in Held(s)' <=> \E q \in Requests : store'[q].session = s /\ x \in store'[q].all
      BY DEF Held
    <3>2. CASE x \in noted[s]
      <4>1. x \in critical[s] \cup local[s] \cup Held(s)
        BY <3>2 DEF CriticalFactsStored, Held
      <4> QED
        BY <2>3, <2>4, <3>1, <4>1, HeldIs DEF FactsType
    <3>3. CASE x \notin noted[s]
      <4>1. s = e.session /\ x \in e.text
        BY <2>1, <3>3 DEF FactsType
      <4> QED
        BY <2>4, <3>1, <4>1 DEF FactsType
    <3> QED
      BY <3>2, <3>3
  <2> QED
    BY <2>5, <2>6, <2>7
<1>2. ASSUME NEW r \in Requests, WriteField(r)
      PROVE  FactsInv'
  <2>1. PICK f \in store[r].left, ok \in BOOLEAN :
          /\ critical' = IF ok THEN [critical EXCEPT ![store[r].session] = @ \cup {f}]
                         ELSE critical
          /\ store' = [store EXCEPT ![r] =
                      IF ~ok THEN [@ EXCEPT !.pc = "local"]
                      ELSE IF @.left = {f} THEN [NoStore EXCEPT !.pc = "done"]
                      ELSE [store[r] EXCEPT !.left = @ \ {f}]]
    BY <1>2 DEF WriteField
  <2>2. /\ store[r].pc = "hset" /\ UNCHANGED <<local, noted>>
        /\ store[r] \in Store /\ store[r].session \in Sessions
        /\ store[r].all \ store[r].left \subseteq critical[store[r].session]
    BY <1>2 DEF WriteField, FactsType, StoreInv
  <2>3. CASE ~ok
    <3>1. /\ critical' = critical
          /\ store' = [store EXCEPT ![r] = [store[r] EXCEPT !.pc = "local"]]
      BY <2>1, <2>3
    <3>2. [store[r] EXCEPT !.pc = "local"] \in Store
      BY <2>2 DEF Store
    <3>3. FactsType' /\ StoreInv'
      BY <2>2, <3>1, <3>2 DEF FactsType, StoreInv, Store
    <3>4. \A q \in Requests : store'[q].session = store[q].session /\ store'[q].all = store[q].all
      BY <2>2, <3>1 DEF FactsType, Store
    <3> QED
      BY <2>2, <3>1, <3>3, <3>4 DEF CriticalFactsStored
  <2>4. CASE ok
    <3>1. /\ critical' = [critical EXCEPT ![store[r].session] = @ \cup {f}]
          /\ \/ /\ store[r].left = {f}
                /\ store' = [store EXCEPT ![r] = [NoStore EXCEPT !.pc = "done"]]
             \/ store' = [store EXCEPT ![r] = [store[r] EXCEPT !.left = @ \ {f}]]
      <4>1. CASE store[r].left = {f}
        BY <2>1, <2>4, <4>1, Zenon
      <4>2. CASE store[r].left # {f}
        BY <2>1, <2>4, <4>2, Zenon
      <4> QED
        BY <4>1, <4>2
    <3>2. \A s \in Sessions : critical[s] \subseteq critical'[s]
      BY <3>1 DEF FactsType
    <3>3. critical'[store[r].session] = critical[store[r].session] \cup {f}
      BY <2>2, <3>1 DEF FactsType
    <3>4. f \in CriticalTexts
      BY <2>2 DEF Store
    <3>5. critical' \in [Sessions -> SUBSET CriticalTexts]
      BY <2>2, <3>1, <3>4 DEF FactsType
    <3>6. CASE store[r].left = {f} /\ store' = [store EXCEPT ![r] = [NoStore EXCEPT !.pc = "done"]]
      <4>1. FactsType' /\ StoreInv'
        BY <2>2, <3>2, <3>5, <3>6, IdleStore DEF FactsType, StoreInv
      <4>2. store[r].all \subseteq critical'[store[r].session]
        BY <2>2, <3>3, <3>6
      <4>3. \A q \in Requests : q # r => store'[q] = store[q]
        BY <3>6 DEF FactsType
      <4>4. CriticalFactsStored'
        <5> SUFFICES ASSUME NEW s \in Sessions, NEW x \in noted[s]
                     PROVE  x \in critical'[s] \cup local[s] \cup Held(s)'
          BY <2>2 DEF CriticalFactsStored, Held
        <5>1. x \in Held(s)' <=> \E q \in Requests : store'[q].session = s /\ x \in store'[q].all
          BY DEF Held
        <5>2. x \in critical[s] \cup local[s] \cup Held(s)
          BY DEF CriticalFactsStored, Held
        <5> QED
          BY <3>2, <4>2, <4>3, <5>1, <5>2, HeldIs
      <4> QED
        BY <4>1, <4>4
    <3>7. CASE store' = [store EXCEPT ![r] = [store[r] EXCEPT !.left = @ \ {f}]]
      <4> DEFINE new == [store[r] EXCEPT !.left = @ \ {f}]
      <4>1. /\ new \in Store /\ new.left = store[r].left \ {f} /\ new.all = store[r].all
            /\ new.session = store[r].session /\ new.pc = "hset"
        BY <2>2 DEF Store
      <4>2. store' = [store EXCEPT ![r] = new]
        BY <3>7
      <4> HIDE DEF new
      <4>3. FactsType'
        BY <2>2, <3>5, <4>1, <4>2 DEF FactsType
      <4>4. StoreInv'
        <5> SUFFICES ASSUME NEW q \in Requests
                     PROVE  /\ store'[q].pc = "hset" =>
                                 store'[q].all \ store'[q].left \subseteq critical'[store'[q].session]
                            /\ store'[q].pc \in {"idle", "done"} => store'[q].all = {}
          BY DEF StoreInv
        <5>1. CASE q = r
          BY <2>2, <3>3, <4>1, <4>2, <5>1 DEF FactsType
        <5>2. CASE q # r
          <6>1. store'[q] = store[q]
            BY <4>2, <5>2 DEF FactsType
          <6> QED
            BY <3>2, <6>1 DEF FactsType, StoreInv
        <5> QED
          BY <5>1, <5>2
      <4>5. \A q \in Requests : store'[q].session = store[q].session /\ store'[q].all = store[q].all
        BY <4>1, <4>2 DEF FactsType
      <4> QED
        BY <2>2, <3>2, <4>3, <4>4, <4>5 DEF CriticalFactsStored
    <3> QED
      BY <3>1, <3>6, <3>7
  <2> QED
    BY <2>3, <2>4
<1>3. ASSUME NEW r \in Requests, KeepLocally(r)
      PROVE  FactsInv'
  <2>1. /\ store[r].pc = "local" /\ UNCHANGED <<critical, noted>>
        /\ store[r] \in Store /\ store[r].session \in Sessions
        /\ local' = [local EXCEPT ![store[r].session] = @ \cup store[r].all]
        /\ store' = [store EXCEPT ![r] = [NoStore EXCEPT !.pc = "done"]]
    BY <1>3 DEF KeepLocally, FactsType
  <2>2. store[r].all \subseteq CriticalTexts
    BY <2>1 DEF Store
  <2>3. FactsType' /\ StoreInv'
    BY <2>1, <2>2, IdleStore DEF FactsType, StoreInv
  <2>4. /\ \A s \in Sessions : local[s] \subseteq local'[s]
        /\ store[r].all \subseteq local'[store[r].session]
        /\ \A q \in Requests : q # r => store'[q] = store[q]
    BY <2>1 DEF FactsType
  <2>5. CriticalFactsStored'
    <3> SUFFICES ASSUME NEW s \in Sessions, NEW x \in noted[s]
                 PROVE  x \in critical[s] \cup local'[s] \cup Held(s)'
      BY <2>1 DEF CriticalFactsStored, Held
    <3>1. x \in Held(s)' <=> \E q \in Requests : store'[q].session = s /\ x \in store'[q].all
      BY DEF Held
    <3>2. x \in critical[s] \cup local[s] \cup Held(s)
      BY DEF CriticalFactsStored, Held
    <3> QED
      BY <2>4, <3>1, <3>2, HeldIs
  <2> QED
    BY <2>3, <2>5
<1>4. ASSUME \/ \E r \in Requests : Observe(r) \/ Extract(r)
             \/ \E u \in Users : CreateUser(u) \/ DeleteProfile(u) \/ DeleteNotes(u)
             \/ Cleanup \/ Close \/ UNCHANGED vars
      PROVE  UNCHANGED factVars
  BY <1>4 DEF Observe, Acquire, StoreTrajectory, ExtractNotes, CheckUser, StoreNotes, Release,
     Extract, ExtractFacts, NoteFact, CheckFacts, RememberFact, worldVars,
     CreateUser, DeleteProfile, DeleteNotes, otherVars,
     Cleanup, StartCleanup, ReadProfiles, ReadNotes, DeleteOrphans, EndCleanup, cleanedVars,
     Close, factVars, vars
<1>5. ASSUME UNCHANGED factVars
      PROVE  FactsInv'
  BY <1>5 DEF factVars, FactsType, StoreInv, CriticalFactsStored
<1> QED
  BY <1>1, <1>2, <1>3, <1>4, <1>5 DEF Next, StoreFacts

-----------------------------------------------------------------------------
(* Notes and the clean-up *)

\* How the set of notes may change: a task writes a point of its user, and a
\* deletion takes all notes of a user.
InsightsWritten(r) ==
  LET t == <<r, "notes">>
      points == {InsightNote(c, t) : c \in ToSet(task[t].left)}
  IN  notes' = Upserted(points) /\ fresh' = fresh \cup points

FactWritten(r) ==
  LET t == <<r, "facts">>
      n == FactNote(task[t].left[task[t].stored + 1], t)
  IN  notes' = notes \cup {n} /\ fresh' = fresh \cup {n}

LEMMA WrittenNotes ==
  ASSUME TypeOK, NEW r \in Requests, Observe(r) \/ Extract(r)
  PROVE  /\ UNCHANGED <<profiles, deleting, connected, cleanup, seen, steady, changes>>
         /\ \/ UNCHANGED <<notes, fresh>>
            \/ InsightsWritten(r) /\ task[<<r, "notes">>].user \in Users
            \/ FactWritten(r) /\ task[<<r, "facts">>].user \in Users
<1>1. <<r, "notes">> \in Tasks /\ <<r, "facts">> \in Tasks
  BY DEF Tasks
<1>2. CASE StoreNotes(r)
  <2>1. task[<<r, "notes">>].user \in Users
    BY <1>1, <1>2 DEF StoreNotes, TypeOK, Working
  <2>2. (UNCHANGED <<notes, fresh>>) \/ InsightsWritten(r)
    BY <1>2 DEF StoreNotes, InsightsWritten
  <2> QED
    BY <1>2, <2>1, <2>2 DEF StoreNotes, worldVars
<1>3. CASE NoteFact(r)
  <2>1. task[<<r, "facts">>].user \in Users
    BY <1>1, <1>3 DEF NoteFact, TypeOK, Working
  <2>2. (UNCHANGED <<notes, fresh>>) \/ FactWritten(r)
    BY <1>3, Zenon DEF NoteFact, FactWritten
  <2> QED
    BY <1>3, <2>1, <2>2 DEF NoteFact, worldVars
<1>4. CASE Acquire(r) \/ StoreTrajectory(r) \/ ExtractNotes(r) \/ CheckUser(r) \/ Release(r)
  BY <1>4 DEF Acquire, StoreTrajectory, ExtractNotes, CheckUser, Release, worldVars, cleanupVars
<1>5. CASE ExtractFacts(r) \/ CheckFacts(r) \/ RememberFact(r)
  BY <1>5 DEF ExtractFacts, CheckFacts, RememberFact, worldVars, cleanupVars
<1> QED
  BY <1>2, <1>3, <1>4, <1>5 DEF Observe, Extract

LEMMA NewNotes ==
  ASSUME NEW r \in Requests
  PROVE  /\ InsightsWritten(r) =>
              /\ \A n \in notes' : n \in notes \/ (n \in fresh' /\ ~n.personal
                                                  /\ n.user = task[<<r, "notes">>].user)
              /\ \A n \in notes : n \in notes' \/ \E m \in notes' : m.id = n.id
              /\ fresh \subseteq fresh'
         /\ FactWritten(r) =>
              /\ \A n \in notes' : n \in notes \/ (n \in fresh' /\ (n.personal => n.scope = "user")
                                                  /\ n.user = task[<<r, "facts">>].user)
              /\ notes \subseteq notes'
              /\ fresh \subseteq fresh'
<1>1. ASSUME NEW c
      PROVE  /\ ~InsightNote(c, <<r, "notes">>).personal
             /\ InsightNote(c, <<r, "notes">>).user = task[<<r, "notes">>].user
  BY DEF InsightNote
<1>2. ASSUME NEW f
      PROVE  /\ FactNote(f, <<r, "facts">>).personal => FactNote(f, <<r, "facts">>).scope = "user"
             /\ FactNote(f, <<r, "facts">>).user = task[<<r, "facts">>].user
  BY DEF FactNote, FactScope
<1>3. ASSUME InsightsWritten(r)
      PROVE  /\ \A n \in notes' : n \in notes \/ (n \in fresh' /\ ~n.personal
                                                /\ n.user = task[<<r, "notes">>].user)
             /\ \A n \in notes : n \in notes' \/ \E m \in notes' : m.id = n.id
             /\ fresh \subseteq fresh'
  BY <1>1, <1>3 DEF InsightsWritten, Upserted
<1>4. ASSUME FactWritten(r)
      PROVE  /\ \A n \in notes' : n \in notes \/ (n \in fresh' /\ (n.personal => n.scope = "user")
                                                /\ n.user = task[<<r, "facts">>].user)
             /\ notes \subseteq notes'
             /\ fresh \subseteq fresh'
  <2> DEFINE n == FactNote(task[<<r, "facts">>].left[task[<<r, "facts">>].stored + 1], <<r, "facts">>)
  <2>1. notes' = notes \cup {n} /\ fresh' = fresh \cup {n}
    BY <1>4 DEF FactWritten
  <2>2. (n.personal => n.scope = "user") /\ n.user = task[<<r, "facts">>].user
    BY <1>2
  <2> HIDE DEF n
  <2> QED
    BY <2>1, <2>2
<1> QED
  BY <1>3, <1>4

CleanupType == [pc : {"idle", "profiles", "notes", "delete"}, known : SUBSET Users,
                orphans : SUBSET Users, runs : Nat]

WorldType ==
  /\ connected \subseteq Services /\ profiles \subseteq Users /\ deleting \subseteq Users
  /\ \A n \in notes \cup seen : n.user \in Users
  /\ cleanup \in CleanupType
  /\ steady \subseteq Users

\* Once the profiles are read, the clean-up knows all who have had one since it
\* began; once the notes are read, it has the user of every note that was there.
CleanupInv ==
  /\ cleanup.pc \in {"notes", "delete"} => steady \subseteq cleanup.known
  /\ cleanup.pc = "delete" =>
       /\ cleanup.orphans \cap cleanup.known = {}
       /\ \A n \in notes : n \in fresh \/ n.user \in cleanup.known \cup cleanup.orphans

PersonalNotesOfUser == \A n \in notes : n.personal => n.scope = "user"

NotesInv == WorldType /\ CleanupInv /\ PersonalNotesOfUser

LEMMA NotesStep ==
  ASSUME TypeOK, NotesInv, [Next]_vars
  PROVE  NotesInv'
<1> USE DEF NotesInv
<1>1. ASSUME NEW r \in Requests, Observe(r) \/ Extract(r)
      PROVE  NotesInv'
  <2>1. /\ UNCHANGED <<profiles, deleting, connected, cleanup, seen, steady>>
        /\ \/ UNCHANGED <<notes, fresh>>
           \/ InsightsWritten(r) /\ task[<<r, "notes">>].user \in Users
           \/ FactWritten(r) /\ task[<<r, "facts">>].user \in Users
    BY <1>1, WrittenNotes
  <2>2. /\ \A n \in notes' : n \in notes \/ (n \in fresh' /\ (n.personal => n.scope = "user")
                                             /\ n.user \in Users)
        /\ fresh \subseteq fresh'
    BY <2>1, NewNotes
  <2> QED
    BY <2>1, <2>2 DEF WorldType, CleanupInv, PersonalNotesOfUser
<1>2. ASSUME NEW u \in Users, CreateUser(u) \/ DeleteProfile(u) \/ DeleteNotes(u)
      PROVE  NotesInv'
  <2>1. /\ UNCHANGED <<connected, cleanup, seen, fresh>>
        /\ notes' \subseteq notes /\ steady' \subseteq steady
        /\ profiles' \subseteq profiles \cup {u} /\ deleting' \subseteq deleting \cup {u}
    BY <1>2 DEF CreateUser, DeleteProfile, DeleteNotes, otherVars
  <2> QED
    BY <2>1 DEF WorldType, CleanupInv, PersonalNotesOfUser
<1>3. CASE Cleanup
  <2> USE DEF cleanedVars, CleanupType
  <2>0. cleanup \in CleanupType /\ UNCHANGED <<connected, profiles, deleting>>
    BY <1>3 DEF WorldType, Cleanup, StartCleanup, ReadProfiles, ReadNotes, DeleteOrphans, EndCleanup
  <2>1. CASE StartCleanup
    <3>1. cleanup' = [NoCleanup EXCEPT !.pc = "profiles", !.runs = cleanup.runs + 1]
      BY <2>1 DEF StartCleanup
    <3>2. NoCleanup \in CleanupType /\ cleanup.runs + 1 \in Nat
      BY <2>0 DEF NoCleanup
    <3>3. cleanup' \in CleanupType /\ cleanup'.pc = "profiles"
      BY <3>1, <3>2
    <3> QED
      BY <2>0, <2>1, <3>3 DEF StartCleanup, WorldType, CleanupInv, PersonalNotesOfUser
  <2>2. CASE ReadProfiles
    <3>1. PICK page \in SUBSET (profiles \ cleanup.known), ok, last \in BOOLEAN :
            /\ last => steady \subseteq cleanup.known \cup page
            /\ \/ cleanup' = [cleanup EXCEPT !.pc = "idle"]
               \/ cleanup' = [cleanup EXCEPT !.known = cleanup.known \cup page, !.pc = "notes"] /\ last
               \/ cleanup' = [cleanup EXCEPT !.known = cleanup.known \cup page]
      BY <2>2 DEF ReadProfiles
    <3>2. cleanup.pc = "profiles" /\ UNCHANGED <<notes, seen, steady>>
      BY <2>2 DEF ReadProfiles
    <3>3. page \subseteq Users
      BY DEF WorldType
    <3>4. cleanup' \in CleanupType
      BY <2>0, <3>1, <3>3
    <3>5. \/ cleanup'.pc \in {"idle", "profiles"}
          \/ cleanup'.pc = "notes" /\ steady \subseteq cleanup'.known
      BY <2>0, <3>1, <3>2
    <3> QED
      BY <2>0, <3>2, <3>4, <3>5 DEF WorldType, CleanupInv, PersonalNotesOfUser
  <2>3. CASE ReadNotes
    <3>1. PICK page \in SUBSET (notes \ seen), ok, last \in BOOLEAN :
            LET left == {n.user : n \in seen \cup page} \ cleanup.known
            IN  /\ last => notes \ fresh \subseteq seen \cup page
                /\ seen' = IF ok THEN seen \cup page ELSE seen
                /\ \/ cleanup' = [cleanup EXCEPT !.pc = "idle"]
                   \/ cleanup' = [cleanup EXCEPT !.orphans = left, !.pc = "delete"] /\ last
                   \/ cleanup' = [cleanup EXCEPT !.orphans = {}]
      BY <2>3 DEF ReadNotes
    <3> DEFINE left == {n.user : n \in seen \cup page} \ cleanup.known
    <3>2. cleanup.pc = "notes" /\ UNCHANGED <<notes, steady, fresh>>
      BY <2>3 DEF ReadNotes
    <3>3. left \subseteq Users
      BY DEF WorldType
    <3>4. cleanup' \in CleanupType /\ cleanup'.known = cleanup.known
      BY <2>0, <3>1, <3>3
    <3>5. \A n \in notes \cup seen' : n.user \in Users
      BY <3>1 DEF WorldType
    <3>6. \/ cleanup'.pc \in {"idle", "notes"}
          \/ cleanup'.pc = "delete" /\ cleanup'.orphans = left
                                    /\ notes \ fresh \subseteq seen \cup page
      BY <2>0, <3>1, <3>2
    <3>7. CleanupInv'
      BY <3>2, <3>4, <3>6 DEF CleanupInv
    <3> QED
      BY <2>0, <3>2, <3>4, <3>5, <3>7 DEF WorldType, PersonalNotesOfUser
  <2>4. CASE DeleteOrphans
    <3>1. PICK u \in cleanup.orphans :
            \/ notes' = {n \in notes : n.user # u}
               /\ cleanup' = [cleanup EXCEPT !.orphans = @ \ {u}]
            \/ notes' = notes /\ cleanup' = [cleanup EXCEPT !.pc = "idle"]
      BY <2>4 DEF DeleteOrphans
    <3>2. cleanup.pc = "delete" /\ UNCHANGED <<seen, steady, fresh>>
      BY <2>4 DEF DeleteOrphans
    <3>3. cleanup' \in CleanupType /\ notes' \subseteq notes
      BY <2>0, <3>1
    <3>4. CASE cleanup' = [cleanup EXCEPT !.pc = "idle"]
      BY <2>0, <3>2, <3>3, <3>4 DEF WorldType, CleanupInv, PersonalNotesOfUser
    <3>5. CASE notes' = {n \in notes : n.user # u} /\ cleanup' = [cleanup EXCEPT !.orphans = @ \ {u}]
      <4>1. cleanup'.known = cleanup.known /\ cleanup'.orphans = cleanup.orphans \ {u}
        BY <2>0, <3>5
      <4>2. CleanupInv'
        BY <3>2, <3>5, <4>1 DEF CleanupInv
      <4> QED
        BY <2>0, <3>2, <3>3, <4>2 DEF WorldType, PersonalNotesOfUser
    <3> QED
      BY <3>1, <3>4, <3>5
  <2>5. CASE EndCleanup
    <3>1. cleanup' = [NoCleanup EXCEPT !.runs = cleanup.runs] /\ seen' = {} /\ UNCHANGED <<notes, steady, fresh>>
      BY <2>5 DEF EndCleanup
    <3>2. cleanup' \in CleanupType /\ cleanup'.pc = "idle"
      BY <2>0, <3>1 DEF NoCleanup
    <3> QED
      BY <2>0, <3>1, <3>2 DEF WorldType, CleanupInv, PersonalNotesOfUser
  <2> QED
    BY <1>3, <2>1, <2>2, <2>3, <2>4, <2>5 DEF Cleanup
<1>4. ASSUME \/ \E r \in Requests : RequestEnds(r) \/ StoreFacts(r)
             \/ Close \/ UNCHANGED vars
      PROVE  NotesInv'
  <2>1. UNCHANGED <<profiles, deleting, notes, cleanupVars>> /\ connected' \subseteq connected
    BY <1>4 DEF RequestEnds, StoreFacts, WriteField, KeepLocally, restVars, Close, vars
  <2> QED
    BY <2>1 DEF WorldType, CleanupInv, PersonalNotesOfUser, cleanupVars
<1> QED
  BY <1>1, <1>2, <1>3, <1>4 DEF Next

LEMMA CountersStep ==
  ASSUME TypeOK, [Next]_vars
  PROVE  trajectories' \subseteq Sessions /\ faults' \in Nat /\ changes' \in Nat
<1>1. trajectories \subseteq Sessions /\ faults \in Nat /\ changes \in Nat
  BY DEF TypeOK
<1>2. ASSUME NEW ok, NEW S, Outcome(ok, S)
      PROVE  faults' \in Nat
  BY <1>1, <1>2 DEF Outcome
<1>3. ASSUME NEW r \in Requests, StoreTrajectory(r)
      PROVE  trajectories' \subseteq Sessions
  <2>1. task[<<r, "notes">>].session \in Sessions
    BY <1>3 DEF StoreTrajectory, TypeOK, Working, Tasks
  <2> QED
    BY <1>1, <1>3, <2>1 DEF StoreTrajectory
<1>4. ASSUME NEW r \in Requests, Observe(r)
      PROVE  trajectories' \subseteq Sessions /\ faults' \in Nat /\ changes' \in Nat
  BY <1>1, <1>2, <1>3, <1>4 DEF Observe, Acquire, StoreTrajectory, ExtractNotes, CheckUser,
     StoreNotes, Release, worldVars
<1>5. ASSUME NEW r \in Requests, Extract(r)
      PROVE  trajectories' = trajectories /\ faults' \in Nat /\ changes' = changes
  <2>1. CASE ExtractFacts(r)
    BY <1>2, <2>1 DEF ExtractFacts, worldVars
  <2>2. CASE NoteFact(r)
    <3>1. \E ok \in BOOLEAN : Outcome(ok, {"embedding", "qdrant"})
      BY <2>2, Zenon DEF NoteFact
    <3> QED
      BY <1>2, <2>2, <3>1 DEF NoteFact, worldVars
  <2>3. CASE CheckFacts(r)
    BY <1>2, <2>3 DEF CheckFacts, worldVars
  <2>4. CASE RememberFact(r)
    <3>1. \E ok \in BOOLEAN : Outcome(ok, {})
      BY <2>4, Zenon DEF RememberFact
    <3> QED
      BY <1>2, <2>4, <3>1 DEF RememberFact
  <2> QED
    BY <1>5, <2>1, <2>2, <2>3, <2>4 DEF Extract
<1>6. ASSUME NEW r \in Requests, RequestEnds(r) \/ StoreFacts(r)
      PROVE  trajectories' = trajectories /\ faults' \in Nat /\ changes' = changes
  <2>1. CASE WriteField(r)
    <3>1. \E ok \in BOOLEAN : Outcome(ok, {"redis"})
      BY <2>1, Zenon DEF WriteField
    <3> QED
      BY <1>2, <2>1, <3>1 DEF WriteField, restVars
  <2>2. CASE RequestEnds(r) \/ KeepLocally(r)
    BY <1>1, <2>2 DEF RequestEnds, KeepLocally, restVars
  <2> QED
    BY <1>6, <2>1, <2>2 DEF StoreFacts
<1>7. CASE Cleanup
  BY <1>1, <1>2, <1>7 DEF Cleanup, StartCleanup, ReadProfiles, ReadNotes, DeleteOrphans,
     EndCleanup, cleanedVars
<1>8. ASSUME \/ \E u \in Users : CreateUser(u) \/ DeleteProfile(u) \/ DeleteNotes(u)
             \/ Close \/ UNCHANGED vars
      PROVE  trajectories' = trajectories /\ faults' \in Nat /\ changes' \in Nat
  BY <1>1, <1>8 DEF CreateUser, DeleteProfile, DeleteNotes, otherVars, Close, vars
<1> QED
  BY <1>1, <1>4, <1>5, <1>6, <1>7, <1>8 DEF Next

-----------------------------------------------------------------------------
(* Theorems *)

IInv == TypeOK /\ PermitsAccounted /\ FactsInv /\ NotesInv

LEMMA InitIInv == Init => IInv
<1> SUFFICES ASSUME Init
             PROVE  IInv
  OBVIOUS
<1>1. /\ connected \subseteq Services /\ profiles \subseteq Users /\ profiles = steady
      /\ Permits \in Nat
  BY ReadersAssumption DEF Init, Services
<1>2. NoTask \in Task /\ NoTask.pc = "none"
  BY NothingFound DEF NoTask, Task
<1>3. /\ task \in [Tasks -> Task]
      /\ \A t \in Tasks : task[t].pc \notin Working
      /\ \A r \in Requests : task[<<r, "notes">>].pc = "none"
  BY <1>2 DEF Init, Working, Tasks
<1>4. FactsInv
  BY IdleStore DEF Init, FactsInv, FactsType, StoreInv, CriticalFactsStored
<1>5. NoCleanup \in CleanupType
  BY DEF NoCleanup, CleanupType
<1>6. NotesInv
  BY <1>1, <1>5 DEF Init, NotesInv, WorldType, CleanupInv, PersonalNotesOfUser, NoCleanup
<1>7. PermitsAccounted
  <2>1. Observing = {}
    BY <1>3 DEF Observing, HasPermit
  <2>2. permits + Cardinality(Observing) = Permits
    <3>1. permits = Permits /\ Cardinality({}) = 0
      BY FS_EmptySet DEF Init
    <3> HIDE DEF Observing
    <3> QED
      BY <1>1, <2>1, <3>1
  <2> QED
    BY <2>2 DEF PermitsAccounted, Observing, HasPermit
<1>8. TypeOK
  BY <1>1, <1>3, <1>4, <1>6 DEF Init, TypeOK, FactsInv, FactsType, NotesInv, WorldType, CleanupType
<1> QED
  BY <1>4, <1>6, <1>7, <1>8 DEF IInv

LEMMA StepIInv == IInv /\ [Next]_vars => IInv'
<1> SUFFICES ASSUME IInv, [Next]_vars
             PROVE  IInv'
  OBVIOUS
<1>1. TaskType' /\ PermitsAccounted' /\ permits' \in 0..Permits
  BY TaskStep, PermitStep DEF IInv
<1>2. FactsInv' /\ NotesInv'
  BY FactsStep, NotesStep DEF IInv
<1>3. trajectories' \subseteq Sessions /\ faults' \in Nat /\ changes' \in Nat
  BY CountersStep DEF IInv
<1>4. TypeOK'
  BY <1>1, <1>2, <1>3 DEF TypeOK, TaskType, FactsInv, FactsType, NotesInv, WorldType, CleanupType
<1> QED
  BY <1>1, <1>2, <1>4 DEF IInv

LEMMA Inductive == Spec => []IInv
<1> QED
  BY InitIInv, StepIInv, PTL DEF Spec

\* Every task, store and clean-up is in a state the code can put it in.
THEOREM TypeCorrect == Spec => []TypeOK
<1>1. IInv => TypeOK
  BY DEF IInv
<1> QED
  BY <1>1, Inductive, PTL

\* The permits of _NOTE_SEMAPHORE and the observations that hold one add up to
\* Permits in every state, whatever fails and whoever is deleted: process gives
\* its permit back on each of its ways out, and none gives it back twice.
THEOREM PermitsBalance == Spec => []PermitsAccounted
<1>1. IInv => PermitsAccounted
  BY DEF IInv
<1> QED
  BY <1>1, Inductive, PTL

\* A critical fact that was found is in Redis, in the process or still with the
\* store_facts that got it, for any number of facts and requests per session.
THEOREM CriticalFactsKept == Spec => []CriticalFactsStored
<1>1. IInv => CriticalFactsStored
  BY DEF IInv, FactsInv
<1> QED
  BY <1>1, Inductive, PTL

\* A personal fact without a scope of its own is shown to its user alone, by the
\* search of the prompt and by the tool of the agent, for any set of projects.
THEOREM PersonalFactsStayPrivate == Spec => []PersonalFactsPrivate
<1>1. IInv => PersonalFactsPrivate
  BY DEF IInv, NotesInv, PersonalNotesOfUser, PersonalFactsPrivate, SearchNotes, ToolSearch
<1> QED
  BY <1>1, Inductive, PTL

\* When the clean-up has no orphan left, each note has a user it knew or was
\* written after the notes had been read.
THEOREM CleanupLeavesNoOrphan == Spec => []CleanupCollects
<1>1. IInv => CleanupCollects
  BY DEF IInv, NotesInv, CleanupInv, CleanupCollects
<1> QED
  BY <1>1, Inductive, PTL

\* No step takes a note of a user whose profile has been there since the
\* clean-up began, other than by deleting that user or by writing the same
\* insight again.
THEOREM CleanupSparesSteadyNotes == Spec => SteadyNotesKept
<1>1. ASSUME IInv, [Next]_vars
      PROVE  \A n \in notes \ notes' :
               \/ n.user \in deleting \/ n.user \notin steady
               \/ \E m \in notes' : m.id = n.id
  <2>1. ASSUME NEW r \in Requests, Observe(r) \/ Extract(r), NEW n \in notes \ notes'
        PROVE  \E m \in notes' : m.id = n.id
    <3>1. \/ notes' = notes
          \/ InsightsWritten(r)
          \/ FactWritten(r)
      BY <1>1, <2>1, WrittenNotes DEF IInv
    <3> QED
      BY <2>1, <3>1, NewNotes
  <2>2. ASSUME DeleteOrphans, NEW n \in notes \ notes'
        PROVE  n.user \notin steady
    <3>1. n.user \in cleanup.orphans /\ cleanup.pc = "delete"
      BY <2>2 DEF DeleteOrphans
    <3> QED
      BY <1>1, <3>1 DEF IInv, NotesInv, CleanupInv
  <2>3. ASSUME NEW u \in Users, DeleteNotes(u), NEW n \in notes \ notes'
        PROVE  n.user \in deleting
    BY <2>3 DEF DeleteNotes
  <2>4. ASSUME \/ \E r \in Requests : RequestEnds(r) \/ StoreFacts(r)
               \/ \E u \in Users : CreateUser(u) \/ DeleteProfile(u)
               \/ StartCleanup \/ ReadProfiles \/ ReadNotes \/ EndCleanup
               \/ Close \/ UNCHANGED vars
        PROVE  notes' = notes
    BY <2>4 DEF RequestEnds, StoreFacts, WriteField, KeepLocally, restVars, CreateUser,
       DeleteProfile, otherVars, StartCleanup, ReadProfiles, ReadNotes, EndCleanup,
       cleanedVars, Close, vars
  <2> QED
    BY <1>1, <2>1, <2>2, <2>3, <2>4 DEF Next, Cleanup
<1> QED
  BY <1>1, Inductive, PTL DEF Spec, SteadyNotesKept
=============================================================================
