---------------------------- MODULE AgentProofs ----------------------------
(***************************************************************************)
(* Theorems about the agent of a request: about AgentLoop, for any routes  *)
(* and any thresholds that satisfy ThresholdsAssumption, and about         *)
(* Conversations, for any adapters, inputs, answers and results of tools   *)
(* that satisfy its assumptions.                                           *)
(*                                                                         *)
(* The proofs about Conversations take what each adapter does apart into   *)
(* maps from one message to the messages made of it (IsMap, MapFlat):      *)
(* that what is said survives such a map, and that calls stay next to      *)
(* their results under it, needs to be known of single messages only.      *)
(***************************************************************************)
EXTENDS AgentLoop, Conversations, SequenceTheorems, WellFoundedInduction, TLAPS

-----------------------------------------------------------------------------
\* The loop.


IInv == TypeOK /\ LoopInv

-----------------------------------------------------------------------------
\* What the top of the loop establishes before any model answers.

LEMMA LimitBound ==
  ASSUME IInv
  PROVE  Limit \in Nat /\ maxIterations <= Limit /\ Limit <= AbsoluteMax
BY ThresholdsAssumption
DEF IInv, TypeOK, LoopInv, LoopBounded, Limit, MayExtend, Least

\* The call that is about to be made stays below the limit; the depth counter
\* stays in its range; a fast call is allowed, follows research, is not stalled
\* and is counted.
LEMMA Selected ==
  ASSUME IInv, SelectModel
  PROVE  /\ maxIterations' \in Nat
         /\ numIterations < maxIterations' /\ maxIterations' <= AbsoluteMax
         /\ largeContext' \in BOOLEAN
         /\ usingFastModel' \in BOOLEAN
         /\ consecutive8bIters' \in 0..ResearchDepth
         /\ fastRun' \in 0..ResearchDepth
         /\ usingFastModel' =>
              /\ ~forcePrimary
              /\ ResearchOnly(lastToolNames)
              /\ repeatedContextCount < StallRepeats
              /\ fastRun' <= consecutive8bIters'
         /\ usingFastModel' \/ fastRun' = 0
<1> USE DEF IInv, TypeOK
<1>1. /\ maxIterations' \in Nat
      /\ numIterations < maxIterations' /\ maxIterations' <= AbsoluteMax
  BY LimitBound DEF SelectModel
<1>2. largeContext' \in BOOLEAN /\ usingFastModel' \in BOOLEAN
  BY DEF SelectModel, FastQualifies, FastConsidered, Stalled, TooDeep
<1>3. FastQualifies =>
        /\ consecutive8bIters' = consecutive8bIters + 1
        /\ consecutive8bIters' \in 0..ResearchDepth
        /\ repeatedContextCount < StallRepeats
        /\ ~forcePrimary /\ ResearchOnly(lastToolNames)
  BY ThresholdsAssumption
  DEF SelectModel, FastQualifies, FastConsidered, Stalled, TooDeep
<1>4. ASSUME ~FastQualifies
      PROVE  consecutive8bIters' \in 0..ResearchDepth /\ ~usingFastModel'
  <2>1. ~usingFastModel'
    BY <1>4 DEF SelectModel
  <2>2. consecutive8bIters' = 0 \/ consecutive8bIters' = consecutive8bIters
    BY <1>4 DEF SelectModel
  <2> QED
    BY <2>1, <2>2, ThresholdsAssumption
<1>5. CASE usingFastModel'
  <2>1. FastQualifies /\ fastRun' = fastRun + 1
    BY <1>4, <1>5 DEF SelectModel
  <2>2. fastRun <= consecutive8bIters
    <3>1. CASE usingFastModel
      BY <1>3, <2>1, <3>1 DEF LoopInv, FastInv
    <3>2. CASE ~usingFastModel
      BY <3>2 DEF LoopInv, FastInv
    <3> QED
      BY <3>1, <3>2
  <2>3. fastRun' \in Nat /\ fastRun' <= consecutive8bIters'
    BY <1>3, <2>1, <2>2
  <2>4. fastRun' \in 0..ResearchDepth
    BY <1>3, <2>1, <2>3, ThresholdsAssumption
  <2> QED
    BY <1>1, <1>2, <1>3, <1>5, <2>1, <2>3, <2>4
<1>6. CASE ~usingFastModel'
  <2>1. fastRun' = 0
    BY <1>6 DEF SelectModel
  <2> QED
    BY <1>1, <1>2, <1>3, <1>4, <1>6, <2>1, ThresholdsAssumption
<1> QED
  BY <1>2, <1>5, <1>6

\* An escalation keeps the limit within its bounds and uses up the pool.
LEMMA Escalated ==
  ASSUME IInv, Escalation
  PROVE  /\ maxIterations' \in Nat
         /\ maxIterations <= maxIterations' /\ maxIterations' <= AbsoluteMax
         /\ toolPool' \in Nat /\ toolPool' < toolPool
         /\ escalationCount' \in Nat
<1>1. PICK left \in 0..(toolPool - 1) :
        toolPool' = IF escalationCount' >= EnableAllAfter THEN 0 ELSE left
  BY DEF Escalation
<1> QED
  BY <1>1, ThresholdsAssumption
  DEF IInv, TypeOK, LoopInv, LoopBounded, Escalation

\* The circuit breaker and the quality gate keep their counts.
LEMMA Counted ==
  ASSUME IInv, lastQueueHadError' \in BOOLEAN, CountErrors, QualityGate
  PROVE  /\ totalConsecutiveErrors' \in Nat
         /\ errorHintInjected' \in BOOLEAN
         /\ consecutiveFastFailures' \in Nat
         /\ forcePrimary' \in BOOLEAN
         /\ ErrorInv'
         /\ forcePrimary => forcePrimary'
<1> USE ThresholdsAssumption DEF IInv, TypeOK
<1>1. /\ totalConsecutiveErrors' \in Nat
      /\ totalConsecutiveErrors' < StopErrors
  BY DEF CountErrors, ErrorsNow, Stops
<1>2. errorHintInjected' \in BOOLEAN
  BY DEF CountErrors, ErrorsNow, HintNow, Stops, Hints
<1>3. errorHintInjected' <=> totalConsecutiveErrors' >= HintErrors
  <2> DEFINE counted == totalConsecutiveErrors + 1
  <2>1. errorHintInjected' <=> ~Stops /\ (HintNow \/ Hints)
    BY DEF CountErrors
  <2>2. errorHintInjected <=> totalConsecutiveErrors >= HintErrors
    BY DEF LoopInv, ErrorInv
  <2>3. CASE Stops
    <3>1. totalConsecutiveErrors' = 0
      BY <2>3 DEF CountErrors
    <3> QED
      BY <2>1, <2>3, <3>1
  <2>4. CASE ~Stops /\ lastQueueHadError'
    <3>1. totalConsecutiveErrors' = counted /\ ErrorsNow = counted
      BY <2>4 DEF CountErrors, ErrorsNow
    <3>2. (HintNow \/ Hints) <=> errorHintInjected \/ counted >= HintErrors
      BY <2>4, <3>1 DEF HintNow, Hints
    <3> QED
      BY <2>1, <2>2, <2>4, <3>1, <3>2
  <2>5. CASE ~Stops /\ ~lastQueueHadError'
    <3>1. totalConsecutiveErrors' = 0 /\ ErrorsNow = 0
      BY <2>5 DEF CountErrors, ErrorsNow
    <3>2. ~HintNow /\ ~Hints
      BY <2>5, <3>1 DEF HintNow, Hints
    <3> QED
      BY <2>1, <3>1, <3>2
  <2> QED
    BY <2>3, <2>4, <2>5
<1>4. /\ consecutiveFastFailures' \in Nat
      /\ forcePrimary' \in BOOLEAN
      /\ forcePrimary => forcePrimary'
      /\ consecutiveFastFailures' >= FastFailures => forcePrimary'
  BY DEF QualityGate
<1> QED
  BY <1>1, <1>2, <1>3, <1>4 DEF ErrorInv

-----------------------------------------------------------------------------
\* The invariant holds initially and every action keeps it.

LEMMA InitIInv == Init => IInv
<1> SUFFICES ASSUME Init PROVE IInv
  OBVIOUS
<1> USE ThresholdsAssumption DEF Init
<1>1. /\ route.limit \in 1..AbsoluteMax
      /\ route.pool \in Nat
  BY DEF RouteType
<1>2. TypeOK
  <2>1. /\ maxIterations \in Nat /\ toolPool \in Nat
        /\ consecutive8bIters \in 0..ResearchDepth
        /\ repeatedContextCount \in 0..StallRepeats
        /\ researchCycleCount \in 0..ResearchCycles
        /\ searchCallCount \in 0..EnoughSearches
    BY <1>1
  <2>2. /\ numIterations \in Nat /\ fastRun \in Nat
        /\ totalConsecutiveErrors \in Nat
        /\ consecutiveFastFailures \in Nat /\ escalationCount \in Nat
    OBVIOUS
  <2>3. route \in Routes /\ pc \in {"call", "branch", "done", "failed"}
    OBVIOUS
  <2>4. toolUseQueue \in Batches /\ lastToolNames \in Batches /\ lastStreamed \in Texts
    BY DEF Batches, Texts
  <2> QED
    BY <2>1, <2>2, <2>3, <2>4 DEF TypeOK
<1>3. LoopInv
  BY <1>1 DEF LoopInv, LoopBounded, ErrorInv, ResearchDepthBounded, FastInv,
              TextInv, ResearchOnly
<1> QED
  BY <1>2, <1>3 DEF IInv

\* Calls of a model.
LEMMA CallKeepsIInv ==
  ASSUME IInv, Call
  PROVE  IInv'
<1> USE DEF selectVars, stallVars, errorVars, researchVars, nudgeVars, poolVars,
            expertVars, textVars
<1>1. CASE OutOfIterations
  <2>1. TypeOK'
    BY <1>1, LimitBound DEF OutOfIterations, IInv, TypeOK
  <2>2. LoopInv'
    BY <1>1, LimitBound
    DEF OutOfIterations, IInv, TypeOK, LoopInv, LoopBounded, ErrorInv,
        ResearchDepthBounded, FastInv, TextInv, ResearchOnly
  <2> QED
    BY <2>1, <2>2 DEF IInv
<1>2. CASE ContextOverflow
  <2>1. SelectModel
    BY <1>2 DEF ContextOverflow
  <2>2. TypeOK'
    BY <1>2, <2>1, Selected DEF ContextOverflow, IInv, TypeOK, Batches
  <2>3. LoopBounded' /\ ResearchDepthBounded'
    BY <1>2, <2>1, Selected
    DEF ContextOverflow, IInv, TypeOK, LoopBounded, ResearchDepthBounded
  <2>4. ErrorInv' /\ TextInv'
    BY <1>2, <2>1
    DEF ContextOverflow, IInv, LoopInv, ErrorInv, TextInv, SelectModel
  <2>5. FastInv'
    BY <1>2, <2>1, Selected DEF ContextOverflow, FastInv, ResearchOnly, SelectModel
  <2> QED
    BY <2>2, <2>3, <2>4, <2>5 DEF IInv, LoopInv
<1>3. CASE CallFails
  <2>1. SelectModel
    BY <1>3 DEF CallFails
  <2>2. TypeOK'
    BY <1>3, <2>1, Selected DEF CallFails, IInv, TypeOK
  <2>3. LoopInv'
    BY <1>3, <2>1, Selected
    DEF CallFails, IInv, TypeOK, LoopInv, LoopBounded, ErrorInv,
        ResearchDepthBounded, FastInv, TextInv, ResearchOnly
  <2> QED
    BY <2>2, <2>3 DEF IInv
<1>4. CASE FastAnswers
  <2>1. SelectModel /\ usingFastModel'
    BY <1>4 DEF FastAnswers
  <2>2. TypeOK'
    <3>1. repeatedContextCount' \in 0..StallRepeats /\ lastFastContextHash' \in BOOLEAN
      <4>1. /\ repeatedContextCount \in Nat /\ repeatedContextCount < StallRepeats
            /\ lastFastContextHash \in BOOLEAN
        BY <2>1, Selected DEF IInv, TypeOK
      <4>2. repeatedContextCount' \in
              {repeatedContextCount, repeatedContextCount + 1, 0}
        BY <1>4 DEF FastAnswers
      <4>3. lastFastContextHash' \in {lastFastContextHash, TRUE}
        BY <1>4 DEF FastAnswers
      <4>4. repeatedContextCount' \in 0..StallRepeats
        BY <4>1, <4>2, ThresholdsAssumption
      <4> QED
        BY <4>1, <4>3, <4>4
    <3>2. /\ numIterations' = numIterations + 1
          /\ toolUseQueue' \in Batches
          /\ spoke' \in BOOLEAN
          /\ pc' = "branch"
          /\ UNCHANGED <<route, lastToolNames, forcePrimary, errorVars,
                 hadToolIterations, synthesisDone, researchVars, nudgeVars,
                 poolVars, expertVars, synthetic, lastStreamed, substantial,
                 responseText>>
      BY <1>4 DEF FastAnswers
    <3>3. /\ maxIterations' \in Nat
          /\ largeContext' \in BOOLEAN /\ usingFastModel' \in BOOLEAN
          /\ consecutive8bIters' \in 0..ResearchDepth
          /\ fastRun' \in Nat
      BY <2>1, Selected
    <3> QED
      BY <3>1, <3>2, <3>3 DEF IInv, TypeOK
  <2>3. LoopInv'
    BY <1>4, <2>1, Selected
    DEF FastAnswers, IInv, TypeOK, LoopInv, LoopBounded, ErrorInv,
        ResearchDepthBounded, FastInv, TextInv
  <2> QED
    BY <2>2, <2>3 DEF IInv
<1>5. CASE PrimaryAnswers
  <2>1. SelectModel /\ ~usingFastModel'
    BY <1>5 DEF PrimaryAnswers
  <2>2. /\ lastStreamed' \in Texts
        /\ substantial' \in BOOLEAN
        /\ responseText' \in BOOLEAN
        /\ spoke' \in BOOLEAN
        /\ spoke' => lastStreamed' # "none"
        /\ lastStreamed' # "none" => responseText' \/ synthesisDone
    <3>1. /\ lastStreamed \in Texts /\ substantial \in BOOLEAN
          /\ responseText \in BOOLEAN
          /\ lastStreamed # "none" => responseText \/ synthesisDone
      BY DEF IInv, TypeOK, LoopInv, TextInv
    <3>2. CASE spoke' = FALSE /\ UNCHANGED <<lastStreamed, substantial, responseText>>
      BY <3>1, <3>2
    <3>3. CASE /\ spoke' = TRUE /\ lastStreamed = "full"
               /\ UNCHANGED <<lastStreamed, substantial, responseText>>
      BY <3>1, <3>3
    <3>4. CASE /\ spoke' = TRUE /\ lastStreamed' \in {"brief", "full"}
               /\ substantial' \in {substantial, TRUE} /\ responseText' = TRUE
      BY <3>1, <3>4 DEF Texts
    <3> QED
      BY <1>5, <3>2, <3>3, <3>4 DEF PrimaryAnswers, PrimarySpeaks
  <2>3. TypeOK'
    BY <1>5, <2>1, <2>2, Selected DEF PrimaryAnswers, IInv, TypeOK
  <2>4. LoopInv'
    BY <1>5, <2>1, <2>2, Selected
    DEF PrimaryAnswers, IInv, TypeOK, LoopInv, LoopBounded, ErrorInv,
        ResearchDepthBounded, FastInv, TextInv
  <2> QED
    BY <2>3, <2>4 DEF IInv
<1> QED
  BY <1>1, <1>2, <1>3, <1>4, <1>5 DEF Call

\* What taking the queue leaves in the variables it sets.
LEMMA Taken ==
  ASSUME IInv, QueueTaken
  PROVE  /\ lastToolNames' \in Batches /\ toolUseQueue' \in Batches
         /\ expertDue' \in BOOLEAN
         /\ hadToolIterations' \in BOOLEAN
         /\ lastStreamed' \in Texts /\ substantial' \in BOOLEAN
         /\ searchCallCount' \in 0..EnoughSearches
<1>1. PICK n \in ResearchCalls(toolUseQueue) :
        searchCallCount' = Least(searchCallCount + n, EnoughSearches)
  BY DEF QueueTaken
<1>2. toolUseQueue \in Batches /\ n \in Nat
  BY <1>1, ThresholdsAssumption DEF IInv, TypeOK, Batches, ResearchCalls
<1>3. searchCallCount' \in 0..EnoughSearches
  BY <1>1, <1>2, ThresholdsAssumption DEF Least, IInv, TypeOK
<1>4. expertDue' \in BOOLEAN
  BY DEF QueueTaken, IInv, TypeOK
<1> QED
  BY <1>2, <1>3, <1>4 DEF QueueTaken, Batches, Texts

\* Branches taken on what the model answered.
LEMMA BranchKeepsTypes ==
  ASSUME IInv, Branch
  PROVE  TypeOK'
<1> USE DEF selectVars, stallVars, errorVars, researchVars, nudgeVars, poolVars,
            expertVars, textVars
<1>1. CASE ToolRaises
  <2>1. QueueTaken
    BY <1>1 DEF ToolRaises
  <2> QED
    BY <1>1, <2>1, Taken DEF ToolRaises, IInv, TypeOK
<1>2. CASE ProcessToolQueue
  <2>1. QueueTaken /\ lastQueueHadError' \in BOOLEAN /\ CountErrors /\ QualityGate
    BY <1>2 DEF ProcessToolQueue
  <2>2. /\ researchExecutorInjected' \in BOOLEAN
        /\ synthesisDone' \in BOOLEAN
        /\ synthetic' \in BOOLEAN
    BY <1>2 DEF ProcessToolQueue, IInv, TypeOK
  <2>3. /\ pc' \in {"call", "branch", "done", "failed"}
        /\ UNCHANGED <<route, numIterations, maxIterations, usingFastModel,
                 consecutive8bIters, largeContext, fastRun, stallVars,
                 researchCycleCount, nudgeVars, poolVars, advice, responseText,
                 spoke>>
    BY <1>2 DEF ProcessToolQueue
  <2> QED
    BY <2>1, <2>2, <2>3, Taken, Counted DEF IInv, TypeOK
<1>3. CASE FastDescribedTool
  <2>1. lastFastContextHash' \in BOOLEAN /\ forcePrimary' \in BOOLEAN
    BY <1>3 DEF FastDescribedTool, FastStops
  <2>2. /\ consecutive8bIters' \in 0..ResearchDepth
        /\ repeatedContextCount' \in 0..StallRepeats
        /\ lastToolNames' \in Batches
    BY <1>3, ThresholdsAssumption DEF FastDescribedTool, FastStops, Batches
  <2> QED
    BY <1>3, <2>1, <2>2 DEF FastDescribedTool, FastStops, IInv, TypeOK
<1>4. CASE FastFinishedResearch
  <2>1. lastFastContextHash' \in BOOLEAN /\ forcePrimary' \in BOOLEAN
    BY <1>4 DEF FastFinishedResearch, FastStops, IInv, TypeOK
  <2>2. /\ consecutive8bIters' \in 0..ResearchDepth
        /\ repeatedContextCount' \in 0..StallRepeats
        /\ lastToolNames' \in Batches
    BY <1>4, ThresholdsAssumption DEF FastFinishedResearch, FastStops, Batches
  <2>3. researchCycleCount < ResearchCycles
    BY <1>4
    DEF FastFinishedResearch, FastStops, TextOnly, IInv, LoopInv, FastInv
  <2>4. researchCycleCount' \in 0..ResearchCycles
    BY <1>4, <2>3, ThresholdsAssumption DEF FastFinishedResearch, IInv, TypeOK
  <2>5. /\ synthetic' \in BOOLEAN
        /\ pc' \in {"call", "branch", "done", "failed"}
        /\ UNCHANGED <<route, numIterations, maxIterations, toolUseQueue,
                 usingFastModel, largeContext, fastRun, errorVars,
                 hadToolIterations, synthesisDone, researchExecutorInjected,
                 searchCallCount, nudgeVars, poolVars, expertVars, textVars>>
    BY <1>4 DEF FastFinishedResearch, FastStops
  <2> QED
    BY <2>1, <2>2, <2>4, <2>5 DEF IInv, TypeOK
<1>5. CASE SkipNudge
  BY <1>5, Escalated, ThresholdsAssumption DEF SkipNudge, IInv, TypeOK
<1>6. CASE ToolNudge
  BY <1>6, Escalated, ThresholdsAssumption DEF ToolNudge, IInv, TypeOK
<1>7. CASE ErrorNudge
  BY <1>7, Escalated, ThresholdsAssumption DEF ErrorNudge, IInv, TypeOK
<1>8. CASE DescribeNudge
  BY <1>8, Escalated, ThresholdsAssumption DEF DescribeNudge, IInv, TypeOK
<1>9. CASE CompleteDraft
  <2>1. synthetic' \in BOOLEAN /\ advice' \in BOOLEAN
    BY <1>9 DEF CompleteDraft, CompletionHooks, IInv, TypeOK
  <2> QED
    BY <1>9, <2>1, ThresholdsAssumption
    DEF CompleteDraft, CompletionHooks, IInv, TypeOK
<1>10. CASE EscalateInstead
  BY <1>10, Escalated, ThresholdsAssumption DEF EscalateInstead, IInv, TypeOK
<1>11. CASE Synthesize
  <2>1. responseText' \in BOOLEAN
    BY <1>11 DEF Synthesize
  <2> QED
    BY <1>11, <2>1, ThresholdsAssumption DEF Synthesize, IInv, TypeOK
<1>12. CASE Complete
  <2>1. synthetic' \in BOOLEAN /\ advice' \in BOOLEAN
    BY <1>12 DEF Complete, CompletionHooks, IInv, TypeOK
  <2> QED
    BY <1>12, <2>1, ThresholdsAssumption
    DEF Complete, CompletionHooks, IInv, TypeOK
<1>13. CASE HooksRaise
  <2>1. advice' \in BOOLEAN /\ synthesisDone' \in BOOLEAN
    BY <1>13 DEF HooksRaise, CompletionHooks, IInv, TypeOK
  <2> QED
    BY <1>13, <2>1, ThresholdsAssumption
    DEF HooksRaise, CompletionHooks, IInv, TypeOK
<1> QED
  BY <1>1, <1>2, <1>3, <1>4, <1>5, <1>6, <1>7, <1>8, <1>9, <1>10, <1>11, <1>12,
     <1>13 DEF Branch

LEMMA BranchKeepsLoopInv ==
  ASSUME IInv, Branch
  PROVE  LoopInv'
<1> USE DEF selectVars, stallVars, errorVars, researchVars, nudgeVars, poolVars,
            expertVars, textVars, LoopInv, LoopBounded, ErrorInv, ResearchDepthBounded,
            FastInv, TextInv, IInv, TypeOK
<1>1. CASE ToolRaises
  BY <1>1 DEF ToolRaises, QueueTaken
<1>2. CASE ProcessToolQueue
  <2>1. QueueTaken /\ lastQueueHadError' \in BOOLEAN /\ CountErrors /\ QualityGate
    BY <1>2 DEF ProcessToolQueue
  <2>2. /\ pc = "branch" /\ pc' = "call"
        /\ lastStreamed' = "none"
        /\ UNCHANGED <<numIterations, maxIterations, usingFastModel,
                 consecutive8bIters, fastRun, researchCycleCount>>
    BY <1>2, <2>1 DEF ProcessToolQueue, QueueTaken
  <2>3. LoopBounded' /\ ResearchDepthBounded' /\ TextInv'
    BY <2>2
  <2>4. FastInv'
    BY <2>1, <2>2, Counted
  <2> QED
    BY <2>1, <2>3, <2>4, Counted
<1>3. CASE FastDescribedTool
  BY <1>3, ThresholdsAssumption DEF FastDescribedTool, FastStops, TextOnly, ResearchOnly
<1>4. CASE FastFinishedResearch
  <2>1. /\ pc = "branch" /\ usingFastModel /\ toolUseQueue = "none"
        /\ pc' = "call" /\ consecutive8bIters' = 0 /\ lastToolNames' = "none"
        /\ researchCycleCount' = researchCycleCount + 1
        /\ UNCHANGED <<numIterations, maxIterations, usingFastModel, fastRun,
                 errorVars, synthesisDone, textVars>>
    BY <1>4 DEF FastFinishedResearch, FastStops, TextOnly
  <2>2. forcePrimary' <=> forcePrimary \/ researchCycleCount' >= ResearchCycles
    BY <1>4 DEF FastFinishedResearch
  <2>3. /\ forcePrimary => forcePrimary'
        /\ ~forcePrimary' => researchCycleCount' < ResearchCycles
    BY <2>1, <2>2, ThresholdsAssumption
  <2>4. FastInv'
    BY <2>1, <2>3 DEF ResearchOnly
  <2>5. LoopBounded' /\ ResearchDepthBounded' /\ TextInv'
    BY <2>1
  <2>6. ErrorInv'
    BY <2>1, <2>3
  <2> QED
    BY <2>4, <2>5, <2>6
<1>5. CASE SkipNudge
  BY <1>5 DEF SkipNudge, NoToolsYet, TextOnly
<1>6. CASE ToolNudge
  BY <1>6, Escalated DEF ToolNudge, NoToolsYet, TextOnly
<1>7. CASE ErrorNudge
  BY <1>7 DEF ErrorNudge, AfterTools, TextOnly
<1>8. CASE DescribeNudge
  BY <1>8 DEF DescribeNudge, AfterTools, TextOnly
<1>9. CASE CompleteDraft
  BY <1>9 DEF CompleteDraft, AfterTools, TextOnly
<1>10. CASE EscalateInstead
  BY <1>10, Escalated DEF EscalateInstead, AfterTools, TextOnly
<1>11. CASE Synthesize
  BY <1>11 DEF Synthesize, AfterTools, TextOnly
<1>12. CASE Complete
  BY <1>12 DEF Complete, TextOnly
<1>13. CASE HooksRaise
  BY <1>13 DEF HooksRaise, TextOnly
<1> QED
  BY <1>1, <1>2, <1>3, <1>4, <1>5, <1>6, <1>7, <1>8, <1>9, <1>10, <1>11, <1>12,
     <1>13 DEF Branch

LEMMA IInvStep == IInv /\ [Next]_vars => IInv'
<1> SUFFICES ASSUME IInv, [Next]_vars PROVE IInv'
  OBVIOUS
<1>1. CASE Call
  BY <1>1, CallKeepsIInv
<1>2. CASE Branch
  BY <1>2, BranchKeepsTypes, BranchKeepsLoopInv DEF IInv
<1>3. CASE UNCHANGED vars
  BY <1>3
  DEF vars, selectVars, stallVars, errorVars, researchVars, nudgeVars, poolVars,
      expertVars, textVars, IInv, TypeOK, LoopInv, LoopBounded, ErrorInv,
      ResearchDepthBounded, FastInv, TextInv
<1> QED
  BY <1>1, <1>2, <1>3 DEF Next

\* The inductive invariant of the loop: the iteration limit, the error counters,
\* the fast model's counters and the text that reached the client agree at every
\* step, whatever the models and the tools do.
THEOREM LoopDiscipline == Spec => [](TypeOK /\ LoopInv)
<1>1. IInv /\ [Next]_vars => IInv'
  BY IInvStep
<1>2. IInv => TypeOK /\ LoopInv
  BY DEF IInv
<1> QED
  BY InitIInv, <1>1, <1>2, PTL DEF Spec

\* Every variable keeps its type; the counters with a limit stay in their range.
THEOREM LoopTypes == Spec => []TypeOK
BY LoopDiscipline, PTL

\* No sequence of extensions and escalations takes the loop past
\* ABSOLUTE_MAX_ITERATIONS, nor the iterations past the limit.
THEOREM BoundedTheorem == Spec => []LoopBounded
<1>1. LoopInv => LoopBounded
  BY DEF LoopInv
<1> QED
  BY <1>1, LoopDiscipline, PTL

\* The circuit breaker and the quality gate have done their work before every
\* call of a model.
THEOREM ErrorsTheorem == Spec => []ErrorsAnswered
<1>1. LoopInv => ErrorsAnswered
  BY DEF LoopInv, ErrorInv, ErrorsAnswered
<1> QED
  BY <1>1, LoopDiscipline, PTL

\* The fast model is never called more than MAX_CONSECUTIVE_8B_RESEARCH times in a
\* row.
THEOREM DepthTheorem == Spec => []ResearchDepthBounded
<1>1. LoopInv => ResearchDepthBounded
  BY DEF LoopInv
<1> QED
  BY <1>1, LoopDiscipline, PTL

\* When the primary spoke last, the client has text or a synthesis was asked for.
THEOREM SpokenTheorem == Spec => []SpokenIsAnswered
<1>1. LoopInv => SpokenIsAnswered
  BY DEF LoopInv, TextInv, SpokenIsAnswered
<1> QED
  BY <1>1, LoopDiscipline, PTL

-----------------------------------------------------------------------------
\* Nothing gives back a reason to go on; to spend one makes Patience smaller.

Spends ==
  \/ researchCycleCount' > researchCycleCount
  \/ forcePrimary' /\ ~forcePrimary
  \/ toolNudgeDone' /\ ~toolNudgeDone
  \/ postErrorNudgeDone' /\ ~postErrorNudgeDone
  \/ postDescribeNudgeDone' /\ ~postDescribeNudgeDone
  \/ synthesisDone' /\ ~synthesisDone
  \/ toolPool' < toolPool

NothingGivenBack ==
  /\ researchCycleCount' >= researchCycleCount
  /\ forcePrimary => forcePrimary'
  /\ toolNudgeDone => toolNudgeDone'
  /\ postErrorNudgeDone => postErrorNudgeDone'
  /\ postDescribeNudgeDone => postDescribeNudgeDone'
  /\ synthesisDone => synthesisDone'
  /\ toolPool' <= toolPool

LEMMA FlagCost ==
  ASSUME NEW f \in BOOLEAN, NEW g \in BOOLEAN, f => g
  PROVE  /\ Unused(f) \in Int /\ Unused(g) \in Int
         /\ Unused(g) <= Unused(f)
         /\ g /\ ~f => Unused(g) < Unused(f)
BY DEF Unused

LEMMA PatienceShrinks ==
  ASSUME TypeOK, TypeOK', NothingGivenBack
  PROVE  /\ Patience' <= Patience
         /\ Spends => Patience' < Patience
<1>1. /\ researchCycleCount \in Int /\ researchCycleCount' \in Int
      /\ toolPool \in Int /\ toolPool' \in Int /\ ResearchCycles \in Int
      /\ researchCycleCount' >= researchCycleCount /\ toolPool' <= toolPool
  BY ThresholdsAssumption DEF TypeOK, NothingGivenBack
<1>2. /\ Unused(forcePrimary) \in Int /\ Unused(forcePrimary)' \in Int
      /\ Unused(forcePrimary)' <= Unused(forcePrimary)
      /\ forcePrimary' /\ ~forcePrimary => Unused(forcePrimary)' < Unused(forcePrimary)
  BY FlagCost DEF TypeOK, NothingGivenBack
<1>3. /\ Unused(toolNudgeDone) \in Int /\ Unused(toolNudgeDone)' \in Int
      /\ Unused(toolNudgeDone)' <= Unused(toolNudgeDone)
      /\ toolNudgeDone' /\ ~toolNudgeDone => Unused(toolNudgeDone)' < Unused(toolNudgeDone)
  BY FlagCost DEF TypeOK, NothingGivenBack
<1>4. /\ Unused(postErrorNudgeDone) \in Int /\ Unused(postErrorNudgeDone)' \in Int
      /\ Unused(postErrorNudgeDone)' <= Unused(postErrorNudgeDone)
      /\ postErrorNudgeDone' /\ ~postErrorNudgeDone
           => Unused(postErrorNudgeDone)' < Unused(postErrorNudgeDone)
  BY FlagCost DEF TypeOK, NothingGivenBack
<1>5. /\ Unused(postDescribeNudgeDone) \in Int /\ Unused(postDescribeNudgeDone)' \in Int
      /\ Unused(postDescribeNudgeDone)' <= Unused(postDescribeNudgeDone)
      /\ postDescribeNudgeDone' /\ ~postDescribeNudgeDone
           => Unused(postDescribeNudgeDone)' < Unused(postDescribeNudgeDone)
  BY FlagCost DEF TypeOK, NothingGivenBack
<1>6. /\ Unused(synthesisDone) \in Int /\ Unused(synthesisDone)' \in Int
      /\ Unused(synthesisDone)' <= Unused(synthesisDone)
      /\ synthesisDone' /\ ~synthesisDone => Unused(synthesisDone)' < Unused(synthesisDone)
  BY FlagCost DEF TypeOK, NothingGivenBack
<1>7. Patience' <= Patience
  BY <1>1, <1>2, <1>3, <1>4, <1>5, <1>6 DEF Patience
<1>8. Spends => Patience' < Patience
  BY <1>1, <1>2, <1>3, <1>4, <1>5, <1>6 DEF Patience, Spends
<1> QED
  BY <1>7, <1>8

LEMMA StepCosts ==
  ASSUME IInv, Next
  PROVE  NothingGivenBack /\ (TextOnly /\ pc' = "call" => Spends)
<1> USE DEF selectVars, stallVars, errorVars, researchVars, nudgeVars, poolVars,
            expertVars, textVars, IInv, TypeOK, NothingGivenBack
<1>1. CASE OutOfIterations
  BY <1>1 DEF OutOfIterations, TextOnly
<1>2. CASE ContextOverflow
  BY <1>2 DEF ContextOverflow, SelectModel, TextOnly
<1>3. CASE CallFails
  BY <1>3 DEF CallFails, SelectModel, TextOnly
<1>4. CASE FastAnswers
  BY <1>4 DEF FastAnswers, SelectModel, TextOnly
<1>5. CASE PrimaryAnswers
  BY <1>5 DEF PrimaryAnswers, SelectModel, TextOnly
<1>6. CASE ToolRaises
  BY <1>6 DEF ToolRaises, QueueTaken, TextOnly
<1>7. CASE ProcessToolQueue
  <2>1. /\ ~TextOnly
        /\ UNCHANGED <<researchCycleCount, nudgeVars, poolVars>>
        /\ lastQueueHadError' \in BOOLEAN /\ CountErrors /\ QualityGate
    BY <1>7 DEF ProcessToolQueue, QueueTaken, TextOnly
  <2>2. synthesisDone => synthesisDone'
    BY <1>7 DEF ProcessToolQueue
  <2> QED
    BY <2>1, <2>2, Counted
<1>8. CASE FastDescribedTool
  <2>1. ~forcePrimary
    BY <1>8 DEF FastDescribedTool, FastStops, TextOnly, LoopInv, FastInv
  <2> QED
    BY <1>8, <2>1 DEF FastDescribedTool, FastStops, Spends
<1>9. CASE FastFinishedResearch
  <2>1. forcePrimary => forcePrimary'
    BY <1>9 DEF FastFinishedResearch
  <2>2. /\ researchCycleCount' = researchCycleCount + 1
        /\ UNCHANGED <<synthesisDone, nudgeVars, poolVars>>
    BY <1>9 DEF FastFinishedResearch, FastStops
  <2> QED
    BY <2>1, <2>2 DEF Spends
<1>10. CASE SkipNudge
  BY <1>10 DEF SkipNudge, NoToolsYet, Spends
<1>11. CASE ToolNudge
  <2>1. toolPool' <= toolPool
    BY <1>11, Escalated DEF ToolNudge
  <2> QED
    BY <1>11, <2>1 DEF ToolNudge, NoToolsYet, Spends
<1>12. CASE ErrorNudge
  BY <1>12 DEF ErrorNudge, GaveUpOnError, Spends
<1>13. CASE DescribeNudge
  BY <1>13 DEF DescribeNudge, Spends
<1>14. CASE CompleteDraft
  BY <1>14 DEF CompleteDraft
<1>15. CASE EscalateInstead
  BY <1>15, Escalated DEF EscalateInstead, Spends
<1>16. CASE Synthesize
  BY <1>16 DEF Synthesize, AfterTools, Spends
<1>17. CASE Complete
  BY <1>17 DEF Complete
<1>18. CASE HooksRaise
  <2>1. /\ synthesisDone => synthesisDone'
        /\ pc' = "failed"
        /\ UNCHANGED <<researchCycleCount, forcePrimary, nudgeVars, toolPool>>
    BY <1>18 DEF HooksRaise
  <2> QED
    BY <2>1
<1> QED
  BY <1>1, <1>2, <1>3, <1>4, <1>5, <1>6, <1>7, <1>8, <1>9, <1>10, <1>11, <1>12,
     <1>13, <1>14, <1>15, <1>16, <1>17, <1>18 DEF Next, Call, Branch

\* The measure behind termination: a response without tool calls ends the loop or
\* uses up one of finitely many reasons to go on, which no step gives back.
THEOREM PatienceTheorem == Spec => GoingOnCosts
<1>1. ASSUME IInv, IInv', [Next]_vars
      PROVE  [/\ Patience' <= Patience
              /\ TextOnly /\ pc' = "call" => Patience' < Patience]_vars
  <2>1. CASE Next
    BY <1>1, <2>1, StepCosts, PatienceShrinks DEF IInv
  <2>2. CASE UNCHANGED vars
    BY <2>2
  <2> QED
    BY <1>1, <2>1, <2>2
<1>2. Spec => []IInv
  BY InitIInv, IInvStep, PTL DEF Spec
<1> QED
  BY <1>1, <1>2, PTL DEF Spec, GoingOnCosts

\* Induction over the numbers, of a predicate that is given as a function: what a
\* recursive function of the model computes is proved with it.

LEMMA LeastNat ==
  ASSUME NEW T \in SUBSET Nat, T # {}
  PROVE  \E x \in T : \A y \in T : x <= y
<1> DEFINE R == OpToRel(<, Nat)
<1>1. IsWellFoundedOn(R, Nat)
  BY NatLessThanWellFounded
<1>2. \A x, y \in Nat : <<x, y>> \in R <=> x < y
  BY DEF OpToRel
<1> HIDE DEF R
<1>3. PICK x \in T : \A y \in T : ~(<<y, x>> \in R)
  BY <1>1, WFMin, Zenon
<1>4. \A y \in T : y \in Nat /\ x \in Nat /\ ~(y < x)
  BY <1>2, <1>3
<1> QED
  BY <1>3, <1>4

LEMMA Induction ==
  ASSUME NEW P \in [Nat -> BOOLEAN], P[0], \A n \in Nat : P[n] => P[n + 1]
  PROVE  \A n \in Nat : P[n]
<1> DEFINE T == {n \in Nat : ~P[n]}
<1> SUFFICES ASSUME T # {}
             PROVE  FALSE
  OBVIOUS
<1>1. PICK x \in T : \A y \in T : x <= y
  BY LeastNat
<1>2. x # 0 /\ x \in Nat /\ x - 1 \in Nat /\ x - 1 \notin T
  BY <1>1
<1> QED
  BY <1>1, <1>2

\* Induction over sequences, of a predicate that is given as a function.
LEMMA SeqInduction ==
  ASSUME NEW S, NEW P \in [Seq(S) -> BOOLEAN], P[<<>>],
         \A s \in Seq(S), e \in S : P[s] => P[Append(s, e)]
  PROVE  \A s \in Seq(S) : P[s]
<1> DEFINE Q == [n \in Nat |-> \A s \in Seq(S) : Len(s) = n => P[s]]
<1>1. Q[0]
  <2>1. \A s \in Seq(S) : Len(s) = 0 => s = <<>>
    BY EmptySeq
  <2> QED
    BY <2>1
<1>2. ASSUME NEW n \in Nat, Q[n]
      PROVE  Q[n + 1]
  <2> SUFFICES ASSUME NEW s \in Seq(S), Len(s) = n + 1
               PROVE  P[s]
    OBVIOUS
  <2>1. PICK t \in Seq(S), e \in S : s = Append(t, e)
    <3>1. s # <<>>
      BY EmptySeq
    <3> QED
      BY <3>1, SequenceEmptyOrAppend
  <2>2. Len(s) = Len(t) + 1 /\ Len(t) \in Nat
    BY <2>1, AppendProperties, LenProperties
  <2>3. Len(t) = n
    BY <2>2
  <2>4. P[t]
    BY <1>2, <2>3
  <2> QED
    BY <2>1, <2>4
<1>3. Q \in [Nat -> BOOLEAN]
  OBVIOUS
<1> HIDE DEF Q
<1>4. \A n \in Nat : Q[n]
  BY <1>1, <1>2, <1>3, Induction
<1> SUFFICES ASSUME NEW s \in Seq(S)
             PROVE  P[s]
  OBVIOUS
<1>5. Q[Len(s)]
  BY <1>4, LenProperties
<1> QED
  BY <1>5 DEF Q

-----------------------------------------------------------------------------
\* Flattened sequences.

FlatUpto(ss, n, a) == a[1] = ss[1] /\ \A k \in 2..n : a[k] = a[k - 1] \o ss[k]

LEMMA FlatDef ==
  ASSUME NEW ss, Len(ss) \in Nat \ {0}
  PROVE  \E flat : FlatUpto(ss, Len(ss), flat) /\ FlattenSeq(ss) = flat[Len(ss)]
<1> DEFINE Step(g, k) == IF k = 1 THEN ss[k] ELSE g[k - 1] \o ss[k]
           Is(g, n) == g = [k \in 1..n |-> Step(g, k)]
           P == [n \in Nat |-> \E g : Is(g, n)]
           flat == CHOOSE g : Is(g, Len(ss))
<1>1. P[0]
  <2>1. Is([k \in 1..0 |-> <<>>], 0)
    OBVIOUS
  <2> QED
    BY <2>1
<1>2. ASSUME NEW n \in Nat, P[n]
      PROVE  P[n + 1]
  <2>1. PICK g : Is(g, n)
    BY <1>2
  <2> DEFINE h == [k \in 1..(n + 1) |-> IF k = n + 1 THEN Step(g, n + 1) ELSE g[k]]
  <2>2. \A k \in 1..n : h[k] = g[k]
    OBVIOUS
  <2>3. ASSUME NEW k \in 1..(n + 1)
        PROVE  h[k] = Step(h, k)
    <3>1. CASE k = n + 1
      <4>1. k = 1 \/ (k - 1 = n /\ n \in 1..n)
        BY <3>1
      <4> QED
        BY <3>1, <4>1, <2>2
    <3>2. CASE k \in 1..n
      <4>1. k = 1 \/ k - 1 \in 1..n
        BY <3>2
      <4>2. g[k] = Step(g, k)
        BY <3>2, <2>1
      <4> QED
        BY <3>2, <4>1, <4>2, <2>2
    <3> QED
      BY <3>1, <3>2
  <2>4. Is(h, n + 1)
    BY <2>3
  <2> HIDE DEF h, Is
  <2> QED
    BY <2>4
<1>3. \A n \in Nat : P[n]
  <2> HIDE DEF Is
  <2>1. P \in [Nat -> BOOLEAN]
    OBVIOUS
  <2> HIDE DEF P
  <2> QED
    BY <1>1, <1>2, <2>1, Induction
<1>4. Is(flat, Len(ss))
  <2>1. \E g : Is(g, Len(ss))
    BY <1>3
  <2> HIDE DEF Is
  <2> QED
    BY <2>1
<1>5. FlattenSeq(ss) = flat[Len(ss)]
  BY DEF FlattenSeq
<1> HIDE DEF flat
<1>6. \A k \in 1..Len(ss) : flat[k] = Step(flat, k)
  <2> HIDE DEF Step
  <2> QED
    BY <1>4
<1>7. 1 \in 1..Len(ss) /\ \A k \in 2..Len(ss) : k \in 1..Len(ss) /\ k # 1
  OBVIOUS
<1>8. flat[1] = ss[1] /\ \A k \in 2..Len(ss) : flat[k] = flat[k - 1] \o ss[k]
  BY <1>6, <1>7
<1> QED
  BY <1>5, <1>8 DEF FlatUpto

\* What is flattened up to a sequence does not depend on the sequences after it.
LEMMA FlatSame ==
  ASSUME NEW ss, NEW n \in Nat \ {0}, NEW a, FlatUpto(ss, n, a), NEW b, FlatUpto(ss, n, b)
  PROVE  a[n] = b[n]
<1> DEFINE P == [k \in Nat |-> k + 1 <= n => a[k + 1] = b[k + 1]]
<1>1. P[0]
  <2>1. a[1] = b[1] /\ 0 + 1 = 1 /\ 0 \in Nat
    BY DEF FlatUpto
  <2> QED
    BY <2>1, Zenon
<1>2. ASSUME NEW k \in Nat, P[k]
      PROVE  P[k + 1]
  <2>1. k + 1 <= n => a[k + 1] = b[k + 1]
    BY <1>2
  <2>2. k + 1 + 1 <= n => /\ k + 1 + 1 \in 2..n /\ k + 1 + 1 \in 1..n
                          /\ k + 1 + 1 - 1 = k + 1 /\ k + 1 <= n
    OBVIOUS
  <2>3. ASSUME k + 1 + 1 <= n
        PROVE  a[k + 1 + 1] = b[k + 1 + 1]
    <3> DEFINE j == k + 1 + 1
    <3>1. j \in 2..n /\ j - 1 = k + 1 /\ a[k + 1] = b[k + 1]
      BY <2>1, <2>2, <2>3
    <3> HIDE DEF j
    <3>2. a[j] = a[j - 1] \o ss[j] /\ b[j] = b[j - 1] \o ss[j]
      BY <3>1 DEF FlatUpto
    <3>3. a[j] = b[j]
      BY <3>1, <3>2
    <3> QED
      BY <3>3 DEF j
  <2>4. k + 1 \in Nat
    OBVIOUS
  <2> QED
    BY <2>3, <2>4, Zenon
<1>3. P \in [Nat -> BOOLEAN]
  OBVIOUS
<1> HIDE DEF P
<1>4. P[n - 1] /\ n - 1 \in Nat
  BY <1>1, <1>2, <1>3, Induction
<1>5. n - 1 + 1 = n /\ n <= n
  OBVIOUS
<1> QED
  BY <1>4, <1>5 DEF P

LEMMA FlatEmpty == FlattenSeq(<<>>) = <<>>
BY DEF FlattenSeq

LEMMA FlatAppend ==
  ASSUME NEW T, NEW ss \in Seq(Seq(T)), NEW x \in Seq(T)
  PROVE  FlattenSeq(Append(ss, x)) = FlattenSeq(ss) \o x
<1> DEFINE n == Len(ss)
           tt == Append(ss, x)
           m == n + 1
<1>1. n \in Nat /\ Len(tt) = m /\ tt[m] = x /\ \A k \in 1..n : tt[k] = ss[k]
  BY LenProperties, AppendProperties
<1>2. m \in Nat \ {0} /\ m - 1 = n
  BY <1>1
<1> HIDE DEF tt, m
<1>3. PICK a : FlatUpto(tt, m, a) /\ FlattenSeq(tt) = a[m]
  BY <1>1, <1>2, FlatDef
<1>4. CASE n = 0
  <2>1. ss = <<>> /\ <<>> \o x = x
    BY <1>4, EmptySeq, ConcatEmptySeq
  <2>2. FlattenSeq(tt) = x
    BY <1>1, <1>2, <1>3, <1>4 DEF FlatUpto
  <2> QED
    BY <2>1, <2>2, FlatEmpty DEF tt
<1>5. CASE n # 0
  <2>1. n \in Nat \ {0} /\ m \in 2..m /\ \A k \in 2..n : k \in 2..m
    BY <1>1, <1>2, <1>5
  <2>2. PICK b : FlatUpto(ss, n, b) /\ FlattenSeq(ss) = b[n]
    BY <2>1, FlatDef
  <2>3. FlatUpto(ss, n, a) /\ a[m] = a[n] \o tt[m]
    <3>1. a[1] = ss[1] /\ \A k \in 2..n : a[k] = a[k - 1] \o ss[k]
      <4>1. a[1] = tt[1] /\ \A k \in 2..n : a[k] = a[k - 1] \o tt[k]
        BY <1>3, <2>1 DEF FlatUpto
      <4>2. 1 \in 1..n /\ \A k \in 2..n : k \in 1..n
        BY <2>1
      <4> QED
        BY <1>1, <4>1, <4>2
    <3>2. a[m] = a[n] \o tt[m]
      BY <1>2, <1>3, <2>1 DEF FlatUpto
    <3> QED
      BY <3>1, <3>2 DEF FlatUpto
  <2>4. a[n] = b[n]
    <3> HIDE DEF n
    <3> QED
      BY <2>1, <2>2, <2>3, FlatSame
  <2> QED
    BY <1>1, <1>3, <2>2, <2>3, <2>4 DEF tt
<1> QED
  BY <1>4, <1>5

-----------------------------------------------------------------------------
\* What f makes of the entries of a sequence, one after the other.

MapFlat(f, h) == FlattenSeq([i \in DOMAIN h |-> f[h[i]]])

\* f makes a sequence of entries of T of each entry of M.
IsMap(f, M, T) == f \in [M -> Seq(T)]

LEMMA MapSeq ==
  ASSUME NEW M, NEW T, NEW f, IsMap(f, M, T), NEW h \in Seq(M)
  PROVE  /\ [i \in DOMAIN h |-> f[h[i]]] \in Seq(Seq(T))
         /\ Len([i \in DOMAIN h |-> f[h[i]]]) = Len(h)
<1>1. Len(h) \in Nat /\ DOMAIN h = 1..Len(h) /\ \A i \in 1..Len(h) : h[i] \in M
  BY LenProperties, ElementOfSeq
<1> QED
  BY <1>1 DEF IsMap

LEMMA MapEmpty ==
  ASSUME NEW f
  PROVE  MapFlat(f, <<>>) = <<>>
<1>1. [i \in DOMAIN <<>> |-> f[<<>>[i]]] = <<>>
  OBVIOUS
<1> QED
  BY <1>1, FlatEmpty DEF MapFlat

LEMMA MapAppend ==
  ASSUME NEW M, NEW T, NEW f, IsMap(f, M, T), NEW h \in Seq(M), NEW m \in M
  PROVE  MapFlat(f, Append(h, m)) = MapFlat(f, h) \o f[m]
<1> DEFINE ss == [i \in DOMAIN h |-> f[h[i]]]
           g == Append(h, m)
           tt == [i \in DOMAIN g |-> f[g[i]]]
           n == Len(h)
<1>1. n \in Nat /\ ss \in Seq(Seq(T)) /\ Len(ss) = n /\ f[m] \in Seq(T)
  BY MapSeq, LenProperties DEF IsMap
<1>2. g \in Seq(M) /\ Len(g) = n + 1 /\ g[n + 1] = m /\ \A i \in 1..n : g[i] = h[i]
  BY AppendProperties
<1>3. tt \in Seq(Seq(T)) /\ Len(tt) = n + 1
  <2>1. ASSUME NEW z \in Seq(M)
        PROVE  /\ [i \in DOMAIN z |-> f[z[i]]] \in Seq(Seq(T))
               /\ Len([i \in DOMAIN z |-> f[z[i]]]) = Len(z)
    BY MapSeq
  <2> HIDE DEF g, n
  <2> QED
    BY <1>2, <2>1
<1>4. DOMAIN h = 1..n /\ DOMAIN g = 1..(n + 1) /\ \A i \in 1..n : i \in 1..(n + 1)
  <2> HIDE DEF g
  <2> QED
    BY <1>1, <1>2, LenProperties
<1>5. tt[n + 1] = f[m] /\ \A i \in 1..n : tt[i] = ss[i]
  <2>1. n + 1 \in 1..(n + 1)
    BY <1>1
  <2> HIDE DEF g, n
  <2> QED
    BY <1>2, <1>4, <2>1
<1> HIDE DEF ss, tt, g, n
<1>6. tt = Append(ss, f[m])
  <2> DEFINE uu == Append(ss, f[m])
  <2>1. /\ uu \in Seq(Seq(T)) /\ Len(uu) = n + 1 /\ uu[n + 1] = f[m]
        /\ \A i \in 1..n : uu[i] = ss[i]
    BY <1>1, AppendProperties
  <2>2. \A i \in 1..(n + 1) : i = n + 1 \/ i \in 1..n
    BY <1>1
  <2> HIDE DEF uu
  <2>3. \A i \in 1..Len(tt) : tt[i] = uu[i]
    BY <1>3, <1>5, <2>1, <2>2
  <2>4. tt = uu
    BY <1>3, <2>1, <2>3, SeqEqual
  <2> QED
    BY <2>4 DEF uu
<1> QED
  BY <1>1, <1>6, FlatAppend DEF MapFlat, ss, tt, g

LEMMA MapType ==
  ASSUME NEW M, NEW T, NEW f, IsMap(f, M, T), NEW h \in Seq(M)
  PROVE  MapFlat(f, h) \in Seq(T)
<1> DEFINE P == [x \in Seq(M) |-> MapFlat(f, x) \in Seq(T)]
<1>1. P[<<>>]
  BY MapEmpty, EmptySeq
<1>2. ASSUME NEW x \in Seq(M), NEW e \in M, P[x]
      PROVE  P[Append(x, e)]
  <2>1. MapFlat(f, x) \in Seq(T) /\ f[e] \in Seq(T) /\ Append(x, e) \in Seq(M)
    BY <1>2, AppendProperties DEF IsMap
  <2>2. MapFlat(f, Append(x, e)) = MapFlat(f, x) \o f[e]
    BY MapAppend
  <2>3. MapFlat(f, x) \o f[e] \in Seq(T)
    BY <2>1, ConcatProperties
  <2> QED
    BY <2>1, <2>2, <2>3, Zenon
<1>3. P \in [Seq(M) -> BOOLEAN]
  OBVIOUS
<1> HIDE DEF P
<1>4. P[h]
  BY <1>1, <1>2, <1>3, SeqInduction
<1> QED
  BY <1>4 DEF P

\* The end of a sequence, one entry at a time.
LEMMA CatAppend ==
  ASSUME NEW S, NEW s \in Seq(S), NEW t \in Seq(S), NEW e \in S
  PROVE  s \o Append(t, e) = Append(s \o t, e)
OBVIOUS

Associative(T) == \A u, v, w \in Seq(T) : (u \o v) \o w = u \o (v \o w)

LEMMA CatAssociative ==
  ASSUME NEW T
  PROVE  Associative(T)
BY ConcatAssociative DEF Associative

LEMMA MapCat ==
  ASSUME NEW M, NEW T, NEW f, IsMap(f, M, T), NEW h \in Seq(M), NEW g \in Seq(M)
  PROVE  MapFlat(f, h \o g) = MapFlat(f, h) \o MapFlat(f, g)
<1> DEFINE P == [x \in Seq(M) |-> MapFlat(f, h \o x) = MapFlat(f, h) \o MapFlat(f, x)]
<1>0. MapFlat(f, h) \in Seq(T)
  BY MapType
<1>1. P[<<>>]
  <2>1. h \o <<>> = h /\ <<>> \in Seq(M)
    BY ConcatEmptySeq, EmptySeq
  <2>2. MapFlat(f, h) \o MapFlat(f, <<>>) = MapFlat(f, h)
    BY <1>0, MapEmpty, ConcatEmptySeq
  <2> QED
    BY <2>1, <2>2, Zenon
<1>2. ASSUME NEW x \in Seq(M), NEW e \in M, P[x]
      PROVE  P[Append(x, e)]
  <2>1. MapFlat(f, h \o x) = MapFlat(f, h) \o MapFlat(f, x)
    BY <1>2
  <2>2. h \o Append(x, e) = Append(h \o x, e) /\ h \o x \in Seq(M) /\ Append(x, e) \in Seq(M)
    BY CatAppend, ConcatProperties, AppendProperties
  <2>3. MapFlat(f, Append(h \o x, e)) = MapFlat(f, h \o x) \o f[e]
    <3> DEFINE y == h \o x
    <3>1. y \in Seq(M)
      BY <2>2
    <3> HIDE DEF y
    <3>2. MapFlat(f, Append(y, e)) = MapFlat(f, y) \o f[e]
      BY <3>1, MapAppend
    <3> QED
      BY <3>2 DEF y
  <2>4. MapFlat(f, Append(x, e)) = MapFlat(f, x) \o f[e]
    BY MapAppend
  <2>5. MapFlat(f, x) \in Seq(T) /\ f[e] \in Seq(T)
    BY MapType DEF IsMap
  <2>6. (MapFlat(f, h) \o MapFlat(f, x)) \o f[e] = MapFlat(f, h) \o (MapFlat(f, x) \o f[e])
    <3> DEFINE p == MapFlat(f, h)
               q == MapFlat(f, x)
               r == f[e]
    <3>1. p \in Seq(T) /\ q \in Seq(T) /\ r \in Seq(T)
      BY <1>0, <2>5
    <3> HIDE DEF p, q, r
    <3>2. Associative(T)
      BY CatAssociative
    <3>3. (p \o q) \o r = p \o (q \o r)
      BY <3>1, <3>2, Zenon DEF Associative
    <3> QED
      BY <3>3 DEF p, q, r
  <2>7. MapFlat(f, h \o Append(x, e)) = MapFlat(f, h) \o MapFlat(f, Append(x, e))
    BY <2>1, <2>2, <2>3, <2>4, <2>6, Zenon
  <2> QED
    BY <2>2, <2>7, Zenon
<1>3. P \in [Seq(M) -> BOOLEAN]
  OBVIOUS
<1> HIDE DEF P
<1>4. P[g]
  BY <1>1, <1>2, <1>3, SeqInduction
<1> QED
  BY <1>4 DEF P

\* g after f, entry by entry.
After(M, g, f) == [m \in M |-> MapFlat(g, f[m])]

LEMMA MapMap ==
  ASSUME NEW M, NEW N, NEW T, NEW f, IsMap(f, M, N), NEW g, IsMap(g, N, T),
         NEW h \in Seq(M)
  PROVE  /\ MapFlat(g, MapFlat(f, h)) = MapFlat(After(M, g, f), h)
         /\ IsMap(After(M, g, f), M, T)
<1> DEFINE k == After(M, g, f)
           P == [x \in Seq(M) |-> MapFlat(g, MapFlat(f, x)) = MapFlat(k, x)]
<1>0. IsMap(k, M, T)
  <2>1. ASSUME NEW m \in M
        PROVE  MapFlat(g, f[m]) \in Seq(T)
    <3>1. f[m] \in Seq(N)
      BY DEF IsMap
    <3> QED
      BY <3>1, MapType
  <2> QED
    BY <2>1 DEF After, IsMap
<1>1. P[<<>>]
  <2> HIDE DEF k
  <2>1. MapFlat(g, MapFlat(f, <<>>)) = MapFlat(k, <<>>) /\ <<>> \in Seq(M)
    BY MapEmpty, EmptySeq
  <2> QED
    BY <2>1, Zenon
<1>2. ASSUME NEW x \in Seq(M), NEW e \in M, P[x]
      PROVE  P[Append(x, e)]
  <2>1. MapFlat(g, MapFlat(f, x)) = MapFlat(k, x) /\ Append(x, e) \in Seq(M)
    BY <1>2, AppendProperties
  <2>2. MapFlat(f, Append(x, e)) = MapFlat(f, x) \o f[e]
    BY MapAppend
  <2>3. MapFlat(f, x) \in Seq(N) /\ f[e] \in Seq(N)
    BY MapType DEF IsMap
  <2>4. MapFlat(g, MapFlat(f, x) \o f[e]) = MapFlat(g, MapFlat(f, x)) \o MapFlat(g, f[e])
    <3> DEFINE p == MapFlat(f, x)
               q == f[e]
    <3>1. p \in Seq(N) /\ q \in Seq(N)
      BY <2>3
    <3> HIDE DEF p, q
    <3>2. MapFlat(g, p \o q) = MapFlat(g, p) \o MapFlat(g, q)
      BY <3>1, MapCat
    <3> QED
      BY <3>2 DEF p, q
  <2>5. k[e] = MapFlat(g, f[e])
    BY DEF After
  <2> HIDE DEF k
  <2>6. MapFlat(k, Append(x, e)) = MapFlat(k, x) \o k[e]
    BY <1>0, MapAppend
  <2>7. MapFlat(g, MapFlat(f, Append(x, e))) = MapFlat(k, Append(x, e))
    BY <2>1, <2>2, <2>4, <2>5, <2>6, Zenon
  <2> QED
    BY <2>1, <2>7, Zenon
<1>3. P \in [Seq(M) -> BOOLEAN]
  OBVIOUS
<1> HIDE DEF P
<1>4. P[h]
  BY <1>1, <1>2, <1>3, SeqInduction
<1> QED
  BY <1>0, <1>4 DEF P

LEMMA MapOne ==
  ASSUME NEW M, NEW T, NEW f, IsMap(f, M, T), NEW x \in M
  PROVE  MapFlat(f, <<x>>) = f[x]
<1> DEFINE none == <<>>
<1>1. <<x>> = Append(none, x) /\ none \in Seq(M)
  OBVIOUS
<1>2. MapFlat(f, Append(none, x)) = MapFlat(f, none) \o f[x]
  <2> HIDE DEF none
  <2> QED
    BY <1>1, MapAppend
<1>3. <<>> \o f[x] = f[x]
  BY ConcatEmptySeq DEF IsMap
<1> QED
  BY <1>1, <1>2, <1>3, MapEmpty, Zenon

\* Two functions that agree on the entries make the same of them.
LEMMA MapSame ==
  ASSUME NEW f, NEW g, NEW h, \A i \in DOMAIN h : f[h[i]] = g[h[i]]
  PROVE  MapFlat(f, h) = MapFlat(g, h)
<1>1. [i \in DOMAIN h |-> f[h[i]]] = [i \in DOMAIN h |-> g[h[i]]]
  OBVIOUS
<1> QED
  BY <1>1 DEF MapFlat

-----------------------------------------------------------------------------
\* Sequences of one and of two.

LEMMA TwoCat ==
  ASSUME NEW u, NEW v
  PROVE  <<u>> \o <<v>> = <<u, v>> /\ <<u>> \o <<>> = <<u>>
<1> DEFINE T == {u, v}
           s == <<u>> \o <<v>>
<1>1. <<u>> \in Seq(T) /\ <<v>> \in Seq(T) /\ <<u, v>> \in Seq(T)
  OBVIOUS
<1>2. Len(<<u>>) = 1 /\ Len(<<v>>) = 1 /\ Len(<<u, v>>) = 2 /\ <<u>>[1] = u /\ <<v>>[1] = v
  OBVIOUS
<1> DEFINE a == <<u>>
           b == <<v>>
           c == <<u, v>>
<1>3. c[1] = u /\ c[2] = v
  OBVIOUS
<1> HIDE DEF a, b, T
<1>4. /\ a \o b \in Seq(T) /\ Len(a \o b) = Len(a) + Len(b)
      /\ \A i \in 1..Len(a) + Len(b) : (a \o b)[i] = IF i <= Len(a) THEN a[i] ELSE b[i - Len(a)]
  BY <1>1, ConcatProperties DEF a, b
<1>5. Len(a \o b) = 2 /\ (a \o b)[1] = a[1] /\ (a \o b)[2] = b[1]
  BY <1>2, <1>4 DEF a, b
<1>6. a \o b = c
  <2> HIDE DEF c
  <2>1. c \in Seq(T) /\ Len(c) = 2 /\ a[1] = u /\ b[1] = v
    BY <1>1, <1>2 DEF c, a, b
  <2>2. \A i \in 1..Len(c) : i = 1 \/ i = 2
    BY <2>1
  <2>3. \A i \in 1..Len(c) : (a \o b)[i] = c[i]
    BY <1>3, <1>5, <2>1, <2>2
  <2> QED
    BY <1>4, <1>5, <2>1, <2>3, SeqEqual
<1>7. a \o <<>> = a
  BY <1>1, ConcatEmptySeq DEF a
<1> QED
  BY <1>6, <1>7 DEF a, b, c

LEMMA ThreeCat ==
  ASSUME NEW x, NEW y, NEW z
  PROVE  <<x>> \o <<y, z>> = <<x, y, z>>
<1> DEFINE T == {x, y, z}
           a == <<x>>
           b == <<y>>
           c == <<z>>
           d == <<x, y>>
<1>1. a \in Seq(T) /\ b \in Seq(T) /\ c \in Seq(T) /\ d \in Seq(T) /\ z \in T
  OBVIOUS
<1>2. Append(d, z) = <<x, y, z>>
  <2> DEFINE e == <<x, y, z>>
             f == Append(d, z)
  <2>1. e \in Seq(T) /\ Len(e) = 3 /\ e[1] = x /\ e[2] = y /\ e[3] = z
    OBVIOUS
  <2>2. Len(d) = 2 /\ d[1] = x /\ d[2] = y
    OBVIOUS
  <2> HIDE DEF d, e
  <2>3. f \in Seq(T) /\ Len(f) = Len(d) + 1 /\ f[Len(d) + 1] = z /\ \A i \in 1..Len(d) : f[i] = d[i]
    BY <1>1, AppendProperties
  <2> HIDE DEF f, T
  <2>4. f[1] = x /\ f[2] = y /\ f[3] = z /\ Len(f) = 3
    BY <2>2, <2>3
  <2>5. \A i \in 1..Len(f) : i = 1 \/ i = 2 \/ i = 3
    BY <2>4
  <2>6. \A i \in 1..Len(f) : f[i] = e[i]
    BY <2>1, <2>4, <2>5
  <2>7. f = e
    BY <2>1, <2>3, <2>4, <2>6, SeqEqual
  <2> QED
    BY <2>7 DEF e, f
<1>3. a \o b = d /\ b \o c = <<y, z>>
  BY TwoCat
<1> HIDE DEF a, b, d, T
<1>4. (a \o b) \o c = a \o (b \o c)
  <2> HIDE DEF c
  <2>1. Associative(T)
    BY CatAssociative
  <2> QED
    BY <1>1, <2>1, Zenon DEF Associative
<1>5. Append(d, z) = d \o c
  BY <1>1, AppendIsConcat
<1> HIDE DEF c
<1>6. a \o <<y, z>> = <<x, y, z>>
  BY <1>2, <1>3, <1>4, <1>5, Zenon
<1> QED
  BY <1>6 DEF a

LEMMA FlatOne ==
  ASSUME NEW T, NEW x \in Seq(T)
  PROVE  FlattenSeq(<<x>>) = x
<1>1. <<x>> = Append(<<>>, x) /\ <<>> \in Seq(Seq(T))
  OBVIOUS
<1>2. FlattenSeq(Append(<<>>, x)) = FlattenSeq(<<>>) \o x
  BY <1>1, FlatAppend
<1> QED
  BY <1>1, <1>2, FlatEmpty, ConcatEmptySeq

-----------------------------------------------------------------------------
\* The parts and the messages of a conversation, with ids, names and words of any set.

Kinds == {"text", "attachment", "image", "document", "thinking", "redacted", "tool_use",
          "tool_result", "invalid"}
Roles == {"system", "user", "assistant", "tool", "output", "call", "model"}
Marks == {"[Thinking]", "[Unsupported]", "[Images]", "prompt", "continue", "plan",
          "unsupported", "failed", "object", "empty", "[Stop]", "[Refusal]", "[Image]", "[Document]",
          "[Search]", "[Error]", "[Unknown]"}

\* A set that has what every conversation needs.
Fit(Data) == None \in Data /\ STRING \subseteq Data /\ Marks \subseteq Data

PartSet(Data) == [kind: Kinds, id: Data, name: Data, body: Seq(Data)]
MessageSet(Data) == [role: Roles, parts: Seq(PartSet(Data))]
SaidSet(Data) == [by: {"assistant", "user"}, part: PartSet(Data)]

LEMMA SpeakerType ==
  ASSUME NEW role
  PROVE  Speaker(role) \in {"assistant", "user"}
BY Zenon DEF Speaker

SaidAs(role, p) == [by |-> Speaker(role), part |-> p]

LEMMA SaidAsType ==
  ASSUME NEW Data, NEW role, NEW p \in PartSet(Data)
  PROVE  SaidAs(role, p) \in SaidSet(Data)
BY SpeakerType DEF SaidAs, SaidSet

LEMMA PartsType ==
  ASSUME NEW Data, NEW m \in MessageSet(Data)
  PROVE  /\ m.role \in Roles /\ m.parts \in Seq(PartSet(Data))
         /\ Len(m.parts) \in Nat /\ DOMAIN m.parts = 1..Len(m.parts)
         /\ \A j \in 1..Len(m.parts) : m.parts[j] \in PartSet(Data)
<1>1. m.role \in Roles /\ m.parts \in Seq(PartSet(Data))
  BY DEF MessageSet
<1> QED
  BY <1>1, LenProperties, ElementOfSeq

LEMMA SaidInType ==
  ASSUME NEW Data, NEW m \in MessageSet(Data)
  PROVE  SaidIn(m) \in Seq(SaidSet(Data))
<1>1. SaidIn(m) = [j \in 1..Len(m.parts) |-> SaidAs(m.role, m.parts[j])]
  BY PartsType DEF SaidIn, SaidAs
<1>2. \A j \in 1..Len(m.parts) : SaidAs(m.role, m.parts[j]) \in SaidSet(Data)
  BY PartsType, SaidAsType
<1>3. Len(m.parts) \in Nat
  BY PartsType
<1> QED
  BY <1>1, <1>2, <1>3

\* What is said, but for the system, of each message of a set.
SaidMap(Data) ==
  [m \in MessageSet(Data) |-> IF IsSystem(m) THEN <<>> ELSE SaidIn(m)]

LEMMA SpokenMap ==
  ASSUME NEW Data, NEW h \in Seq(MessageSet(Data))
  PROVE  /\ Spoken(h) = MapFlat([m \in MessageSet(Data) |-> Kept(m, ~IsSystem(m))], h)
         /\ IsMap([m \in MessageSet(Data) |-> Kept(m, ~IsSystem(m))], MessageSet(Data),
                  MessageSet(Data))
<1> DEFINE f == [m \in MessageSet(Data) |-> Kept(m, ~IsSystem(m))]
<1>1. DOMAIN h = 1..Len(h) /\ \A i \in DOMAIN h : h[i] \in MessageSet(Data)
  BY LenProperties, ElementOfSeq
<1>2. [i \in DOMAIN h |-> Kept(h[i], ~IsSystem(h[i]))] = [i \in DOMAIN h |-> f[h[i]]]
  BY <1>1
<1>3. \A m \in MessageSet(Data) : Kept(m, ~IsSystem(m)) \in Seq(MessageSet(Data))
  BY DEF Kept
<1>4. IsMap(f, MessageSet(Data), MessageSet(Data))
  BY <1>3 DEF IsMap
<1> QED
  BY <1>2, <1>4 DEF Spoken, MapFlat

LEMMA SaidFlat ==
  ASSUME NEW Data, NEW h \in Seq(MessageSet(Data))
  PROVE  /\ Said(h) = MapFlat([m \in MessageSet(Data) |-> SaidIn(m)], h)
         /\ IsMap([m \in MessageSet(Data) |-> SaidIn(m)], MessageSet(Data), SaidSet(Data))
<1> DEFINE f == [m \in MessageSet(Data) |-> SaidIn(m)]
<1>1. DOMAIN h = 1..Len(h) /\ \A i \in DOMAIN h : h[i] \in MessageSet(Data)
  BY LenProperties, ElementOfSeq
<1>2. [i \in DOMAIN h |-> SaidIn(h[i])] = [i \in DOMAIN h |-> f[h[i]]]
  BY <1>1
<1>3. IsMap(f, MessageSet(Data), SaidSet(Data))
  BY SaidInType DEF IsMap
<1> QED
  BY <1>2, <1>3 DEF Said, MapFlat

LEMMA SaidSpoken ==
  ASSUME NEW Data, NEW h \in Seq(MessageSet(Data))
  PROVE  /\ Said(Spoken(h)) = MapFlat(SaidMap(Data), h)
         /\ IsMap(SaidMap(Data), MessageSet(Data), SaidSet(Data))
<1> DEFINE M == MessageSet(Data)
           f == [m \in M |-> Kept(m, ~IsSystem(m))]
           g == [m \in M |-> SaidIn(m)]
           k == After(M, g, f)
           s == SaidMap(Data)
<1>1. Spoken(h) = MapFlat(f, h) /\ IsMap(f, M, M)
  BY SpokenMap
<1>2. IsMap(g, M, SaidSet(Data)) /\ \A x \in Seq(M) : Said(x) = MapFlat(g, x)
  BY SaidFlat, EmptySeq
<1>3. MapFlat(f, h) \in Seq(M)
  <2> HIDE DEF f, M
  <2> QED
    BY <1>1, MapType DEF M
<1>4. MapFlat(g, MapFlat(f, h)) = MapFlat(k, h) /\ IsMap(k, M, SaidSet(Data))
  <2> HIDE DEF f, g
  <2> QED
    BY <1>1, <1>2, MapMap
<1>5. ASSUME NEW m \in M
      PROVE  k[m] = s[m]
  <2>1. f[m] = Kept(m, ~IsSystem(m)) /\ g[m] = SaidIn(m) /\ k[m] = MapFlat(g, f[m])
    BY DEF After
  <2>2. MapFlat(g, <<m>>) = g[m] /\ MapFlat(g, <<>>) = <<>>
    <3> HIDE DEF g
    <3> QED
      BY <1>2, MapOne, MapEmpty
  <2>3. CASE IsSystem(m)
    <3>1. k[m] = MapFlat(g, <<>>) /\ s[m] = <<>>
      <4> HIDE DEF f, g, k
      <4> QED
        BY <2>1, <2>3 DEF Kept, SaidMap
    <3> QED
      BY <2>2, <3>1, Zenon
  <2>4. CASE ~IsSystem(m)
    <3>1. k[m] = MapFlat(g, <<m>>) /\ s[m] = SaidIn(m)
      <4> HIDE DEF f, g, k
      <4> QED
        BY <2>1, <2>4 DEF Kept, SaidMap
    <3> QED
      BY <2>1, <2>2, <3>1, Zenon
  <2> QED
    BY <2>3, <2>4
<1>6. k = s
  BY <1>5 DEF After, SaidMap
<1> HIDE DEF f, g, k, s
<1>7. Said(Spoken(h)) = MapFlat(g, MapFlat(f, h))
  BY <1>1, <1>2, <1>3
<1> QED
  BY <1>4, <1>6, <1>7 DEF s

-----------------------------------------------------------------------------
\* Messages of one part: those of a memory, and what lc_message_to_ant_message makes of
\* them.

One(Data, role, kinds) ==
  {m \in MessageSet(Data) :
     m.role = role /\ \E p \in PartSet(Data) : p.kind \in kinds /\ m = Message(role, <<p>>)}

Instruction(Data) ==
  {m \in MessageSet(Data) : \E words \in Seq(Data) : m = Message("system", <<Text(words)>>)}

Held(Data) ==
  Instruction(Data) \cup One(Data, "user", {"text", "attachment", "tool_result"})
    \cup One(Data, "assistant", {"text", "thinking", "redacted", "tool_use"})

Turned(Data) ==
  One(Data, "user", {"text", "image", "document", "invalid", "tool_result"})
    \cup One(Data, "assistant", {"text", "thinking", "redacted", "tool_use"})

LEMMA HeldMessages ==
  ASSUME NEW Data
  PROVE  Held(Data) \subseteq MessageSet(Data) /\ Turned(Data) \subseteq MessageSet(Data)
BY DEF Held, Turned, One, Instruction

LEMMA HeldCases ==
  ASSUME NEW Data, NEW m \in Held(Data), ~IsSystem(m)
  PROVE  \E role \in {"user", "assistant"}, p \in PartSet(Data) :
           /\ m = Message(role, <<p>>)
           /\ \/ role = "user" /\ p.kind \in {"text", "attachment", "tool_result"}
              \/ role = "assistant" /\ p.kind \in {"text", "thinking", "redacted", "tool_use"}
<1>1. m \notin Instruction(Data)
  BY DEF Instruction, Message, IsSystem
<1> QED
  BY <1>1 DEF Held, One

LEMMA HeldOne ==
  ASSUME NEW Data, NEW m \in Held(Data), ~IsSystem(m)
  PROVE  \E role \in {"user", "assistant"}, p \in PartSet(Data) : m = Message(role, <<p>>)
BY HeldCases

LEMMA HeldSystem ==
  ASSUME NEW Data, NEW m \in Held(Data), IsSystem(m)
  PROVE  \E words \in Seq(Data) : m = Message("system", <<Text(words)>>)
BY DEF Held, One, Instruction, IsSystem

LEMMA OnePart ==
  ASSUME NEW Data, NEW role \in Roles, NEW p \in PartSet(Data)
  PROVE  /\ Message(role, <<p>>) \in MessageSet(Data)
         /\ Message(role, <<p>>).role = role /\ Message(role, <<p>>).parts = <<p>>
<1>1. <<p>> \in Seq(PartSet(Data))
  OBVIOUS
<1> QED
  BY <1>1 DEF Message, MessageSet

LEMMA PartType ==
  ASSUME NEW Data, NEW kind \in Kinds, NEW id \in Data, NEW name \in Data, NEW body \in Seq(Data)
  PROVE  Part(kind, id, name, body) \in PartSet(Data)
BY DEF Part, PartSet

LEMMA AntPartIs ==
  ASSUME NEW Data, Fit(Data), NEW p \in PartSet(Data)
  PROVE  /\ AntPart(p) \in PartSet(Data)
         /\ p.kind # "attachment" => AntPart(p) = p
         /\ p.kind = "attachment" => AntPart(p).kind \in {"image", "document", "invalid"}
<1>1. /\ p = Part(p.kind, p.id, p.name, p.body) /\ p.id \in Data /\ p.name \in Data
      /\ p.body \in Seq(Data)
  BY DEF Part, PartSet
<1>2. CASE p.kind # "attachment"
  BY <1>2 DEF AntPart
<1>3. CASE p.kind = "attachment"
  <2>1. Invalid \in PartSet(Data) /\ Invalid.kind = "invalid"
    BY DEF Invalid, Part, PartSet, Fit, Kinds
  <2>2. ASSUME NEW kind \in {"image", "document"}
        PROVE  [p EXCEPT !.kind = kind] \in PartSet(Data) /\ [p EXCEPT !.kind = kind].kind = kind
    BY DEF PartSet, Kinds
  <2>3. \/ AntPart(p) = [p EXCEPT !.kind = "image"]
        \/ AntPart(p) = [p EXCEPT !.kind = "document"]
        \/ AntPart(p) = Invalid
    BY <1>3 DEF AntPart
  <2> QED
    BY <1>3, <2>1, <2>2, <2>3
<1> QED
  BY <1>2, <1>3

LEMMA AntOne ==
  ASSUME NEW role, NEW p
  PROVE  AntMessage(Message(role, <<p>>)) = Message(role, <<AntPart(p)>>)
<1>1. [j \in DOMAIN <<p>> |-> AntPart(<<p>>[j])] = <<AntPart(p)>>
  OBVIOUS
<1> QED
  BY <1>1 DEF AntMessage, Message

LEMMA AntSystem ==
  ASSUME NEW Data, NEW m \in Held(Data), IsSystem(m)
  PROVE  AntMessage(m) = m
<1>1. PICK words : m = Message("system", <<Text(words)>>)
  BY HeldSystem
<1>2. AntPart(Text(words)) = Text(words)
  BY DEF AntPart, Text, Part
<1> QED
  BY <1>1, <1>2, AntOne

LEMMA AntTurned ==
  ASSUME NEW Data, Fit(Data), NEW m \in Held(Data), ~IsSystem(m)
  PROVE  AntMessage(m) \in Turned(Data) /\ ~IsSystem(AntMessage(m))
<1>1. PICK role \in {"user", "assistant"}, p \in PartSet(Data) :
        /\ m = Message(role, <<p>>)
        /\ \/ role = "user" /\ p.kind \in {"text", "attachment", "tool_result"}
           \/ role = "assistant" /\ p.kind \in {"text", "thinking", "redacted", "tool_use"}
  BY HeldCases
<1> DEFINE q == AntPart(p)
<1>2. /\ q \in PartSet(Data)
      /\ p.kind # "attachment" => q = p
      /\ p.kind = "attachment" => q.kind \in {"image", "document", "invalid"}
  BY AntPartIs
<1>3. AntMessage(m) = Message(role, <<q>>)
  BY <1>1, AntOne
<1> HIDE DEF q
<1>4. role \in Roles
  BY DEF Roles
<1>5. Message(role, <<q>>) \in MessageSet(Data) /\ Message(role, <<q>>).role = role
  BY <1>2, <1>4, OnePart
<1> QED
  BY <1>1, <1>2, <1>3, <1>5 DEF Turned, One, IsSystem

\* The entries of a sequence, each by a function.
LEMMA MapSingles ==
  ASSUME NEW M, NEW T, NEW F, \A m \in M : F[m] \in T, NEW h \in Seq(M)
  PROVE  /\ MapFlat([m \in M |-> <<F[m]>>], h) = [i \in DOMAIN h |-> F[h[i]]]
         /\ IsMap([m \in M |-> <<F[m]>>], M, T)
<1> DEFINE f == [m \in M |-> <<F[m]>>]
           P == [x \in Seq(M) |-> MapFlat(f, x) = [i \in DOMAIN x |-> F[x[i]]]]
<1>0. IsMap(f, M, T)
  BY DEF IsMap
<1>1. P[<<>>]
  <2>1. [i \in DOMAIN <<>> |-> F[<<>>[i]]] = <<>> /\ <<>> \in Seq(M)
    OBVIOUS
  <2> HIDE DEF f
  <2>2. MapFlat(f, <<>>) = <<>>
    BY MapEmpty
  <2> QED
    BY <2>1, <2>2
<1>2. ASSUME NEW x \in Seq(M), NEW e \in M, P[x]
      PROVE  P[Append(x, e)]
  <2> DEFINE y == Append(x, e)
             a == [i \in DOMAIN x |-> F[x[i]]]
             b == [i \in DOMAIN y |-> F[y[i]]]
  <2>1. y \in Seq(M) /\ Len(y) = Len(x) + 1 /\ y[Len(x) + 1] = e /\ \A i \in 1..Len(x) : y[i] = x[i]
    BY AppendProperties
  <2>2. Len(x) \in Nat /\ DOMAIN x = 1..Len(x) /\ \A i \in 1..Len(x) : x[i] \in M
    BY LenProperties, ElementOfSeq
  <2>3. DOMAIN y = 1..(Len(x) + 1) /\ \A i \in 1..(Len(x) + 1) : y[i] \in M
    <3> HIDE DEF y
    <3> QED
      BY <2>1, LenProperties, ElementOfSeq
  <2> HIDE DEF y
  <2>4. a \in Seq(T) /\ Len(a) = Len(x) /\ b \in Seq(T) /\ Len(b) = Len(x) + 1 /\ F[e] \in T
    BY <2>2, <2>3
  <2>5. \A i \in 1..Len(x) : b[i] = a[i]
    BY <2>1, <2>2, <2>3
  <2>6. b[Len(x) + 1] = F[e]
    BY <2>1, <2>2, <2>3
  <2> HIDE DEF a, b
  <2>7. b = Append(a, F[e])
    <3> DEFINE c == Append(a, F[e])
    <3>1. /\ c \in Seq(T) /\ Len(c) = Len(x) + 1 /\ c[Len(x) + 1] = F[e]
          /\ \A i \in 1..Len(x) : c[i] = a[i]
      BY <2>4, AppendProperties
    <3>2. \A i \in 1..(Len(x) + 1) : i = Len(x) + 1 \/ i \in 1..Len(x)
      BY <2>2
    <3> HIDE DEF c
    <3>3. \A i \in 1..Len(b) : b[i] = c[i]
      BY <2>4, <2>5, <2>6, <3>1, <3>2
    <3>4. b = c
      BY <2>4, <3>1, <3>3, SeqEqual
    <3> QED
      BY <3>4 DEF c
  <2>8. MapFlat(f, y) = MapFlat(f, x) \o f[e] /\ f[e] = <<F[e]>>
    <3>1. f[e] = <<F[e]>>
      OBVIOUS
    <3> HIDE DEF f
    <3>2. MapFlat(f, Append(x, e)) = MapFlat(f, x) \o f[e]
      BY <1>0, MapAppend
    <3> QED
      BY <3>1, <3>2, Zenon DEF y
  <2>9. MapFlat(f, x) = a
    BY <1>2 DEF a
  <2>10. Append(a, F[e]) = a \o <<F[e]>>
    <3> DEFINE u == F[e]
    <3>1. u \in T
      BY <2>4
    <3> HIDE DEF u
    <3>2. Append(a, u) = a \o <<u>>
      BY <2>4, <3>1, AppendIsConcat
    <3> QED
      BY <3>2 DEF u
  <2> HIDE DEF f
  <2>11. MapFlat(f, y) = b
    BY <2>7, <2>8, <2>9, <2>10, Zenon
  <2> QED
    BY <2>1, <2>11 DEF y, b
<1>3. P \in [Seq(M) -> BOOLEAN]
  OBVIOUS
<1> HIDE DEF P
<1>4. P[h]
  BY <1>1, <1>2, <1>3, SeqInduction
<1> QED
  BY <1>0, <1>4 DEF P

\* The messages that are spoken, as lc_message_to_ant_message turns them.
TurnedMap(Data) ==
  [m \in Held(Data) |-> IF IsSystem(m) THEN <<>> ELSE <<AntMessage(m)>>]

LEMMA AntSpoken ==
  ASSUME NEW Data, Fit(Data), NEW h \in Seq(Held(Data))
  PROVE  /\ Spoken(AntMessages(h)) = MapFlat(TurnedMap(Data), h)
         /\ IsMap(TurnedMap(Data), Held(Data), Turned(Data))
<1>1. DOMAIN h = 1..Len(h) /\ Len(h) \in Nat /\ \A i \in DOMAIN h : h[i] \in Held(Data)
  BY LenProperties, ElementOfSeq
<1> DEFINE g == AntMessages(h)
<1>2. DOMAIN g = DOMAIN h /\ \A i \in DOMAIN h : g[i] = AntMessage(h[i])
  BY DEF AntMessages
<1>3. ASSUME NEW m \in Held(Data)
      PROVE  Kept(AntMessage(m), ~IsSystem(AntMessage(m))) = TurnedMap(Data)[m]
  <2>1. CASE IsSystem(m)
    BY <2>1, AntSystem DEF TurnedMap, Kept
  <2>2. CASE ~IsSystem(m)
    BY <2>2, AntTurned DEF TurnedMap, Kept
  <2> QED
    BY <2>1, <2>2
<1> HIDE DEF g
<1>4. [i \in DOMAIN g |-> Kept(g[i], ~IsSystem(g[i]))] = [i \in DOMAIN h |-> TurnedMap(Data)[h[i]]]
  BY <1>1, <1>2, <1>3
<1>5. IsMap(TurnedMap(Data), Held(Data), Turned(Data))
  <2>1. ASSUME NEW m \in Held(Data)
        PROVE  (IF IsSystem(m) THEN <<>> ELSE <<AntMessage(m)>>) \in Seq(Turned(Data))
    <3>1. CASE IsSystem(m)
      BY <3>1, EmptySeq
    <3>2. CASE ~IsSystem(m)
      BY <3>2, AntTurned
    <3> QED
      BY <3>1, <3>2
  <2> QED
    BY <2>1 DEF TurnedMap, IsMap
<1> QED
  BY <1>4, <1>5 DEF Spoken, MapFlat, g

-----------------------------------------------------------------------------
\* What of a part is said, when a service is sent the message of this part.

Silent(q) == q.kind \notin {"text", "tool_use", "tool_result"} \/ (q.kind = "text" /\ IsNote(q))

Result(q, p) ==
  /\ q.kind = "tool_result" /\ q.id = p.id
  /\ WithoutImages(q.body) = WithoutImages(p.body)

Tells(Data, said, role, p) ==
  \/ p.kind \in {"text", "tool_use"} /\ said = <<SaidAs(role, p)>>
  \/ /\ p.kind = "tool_result"
     /\ \E q \in PartSet(Data) : /\ Result(q, p)
                                /\ \/ said = <<SaidAs(role, q)>>
                                   \/ \E i \in PartSet(Data) :
                                        Silent(i) /\ said = <<SaidAs(role, q), SaidAs(role, i)>>
  \/ /\ p.kind \in {"attachment", "thinking", "redacted"}
     /\ said = <<>> \/ \E q \in PartSet(Data) : Silent(q) /\ said = <<SaidAs(role, q)>>

Sent(service, h) == Said(Spoken(RequestOf(service, AntMessages(h)).messages))

\* k gives what of each message is said to the service.
Carries(Data, service, k) ==
  /\ IsMap(k, Held(Data), SaidSet(Data))
  /\ \A h \in Seq(Held(Data)) : Sent(service, h) = MapFlat(k, h)
  /\ \A m \in Held(Data) : IsSystem(m) => k[m] = <<>>
  /\ \A role \in {"user", "assistant"}, p \in PartSet(Data) :
       Message(role, <<p>>) \in Held(Data) => Tells(Data, k[Message(role, <<p>>)], role, p)

\* A message of one part, as it is said.
LEMMA SaidOne ==
  ASSUME NEW Data, NEW role \in Roles \ {"system"}, NEW p \in PartSet(Data)
  PROVE  MapFlat(SaidMap(Data), <<Message(role, <<p>>)>>) = <<SaidAs(role, p)>>
<1> DEFINE m == Message(role, <<p>>)
<1>1. m \in MessageSet(Data) /\ m.role = role /\ m.parts = <<p>>
  BY OnePart
<1> HIDE DEF m
<1>2. MapFlat(SaidMap(Data), <<m>>) = SaidMap(Data)[m]
  <2> DEFINE f == SaidMap(Data)
  <2>1. IsMap(f, MessageSet(Data), SaidSet(Data))
    BY SaidSpoken, EmptySeq
  <2> HIDE DEF f
  <2>2. MapFlat(f, <<m>>) = f[m]
    BY <1>1, <2>1, MapOne
  <2> QED
    BY <2>2 DEF f
<1>3. ~IsSystem(m)
  BY <1>1 DEF IsSystem
<1>4. SaidMap(Data)[m] = SaidIn(m)
  BY <1>1, <1>3 DEF SaidMap
<1>5. SaidIn(m) = <<SaidAs(role, p)>>
  BY <1>1 DEF SaidIn, SaidAs
<1> QED
  BY <1>2, <1>4, <1>5, Zenon DEF m

LEMMA SaidSystem ==
  ASSUME NEW Data, NEW m \in MessageSet(Data), IsSystem(m)
  PROVE  MapFlat(SaidMap(Data), <<m>>) = <<>>
<1> DEFINE f == SaidMap(Data)
<1>1. IsMap(f, MessageSet(Data), SaidSet(Data)) /\ f[m] = <<>>
  BY SaidSpoken, EmptySeq DEF SaidMap
<1> HIDE DEF f
<1>2. MapFlat(f, <<m>>) = f[m]
  BY <1>1, MapOne
<1> QED
  BY <1>1, <1>2 DEF f

\* The parts of the chat completions.
ChatPiece(q) == IF q.kind = "tool_result" THEN q ELSE ChatPart(q)

LEMMA MarkedType ==
  ASSUME NEW Data, Fit(Data), NEW mark \in Marks, NEW words \in Seq(Data)
  PROVE  /\ <<mark>> \o words \in Seq(Data) /\ <<mark>> \o words # <<>>
         /\ Head(<<mark>> \o words) = mark
<1>1. mark \in Data
  BY DEF Fit
<1>2. <<mark>> \in Seq(Data) /\ Len(<<mark>>) = 1 /\ <<mark>>[1] = mark
  BY <1>1
<1> DEFINE s == <<mark>>
<1> HIDE DEF s
<1>3. s \in Seq(Data) /\ Len(s) = 1 /\ s[1] = mark
  BY <1>2 DEF s
<1>4. s \o words \in Seq(Data) /\ Len(s \o words) = 1 + Len(words) /\ (s \o words)[1] = mark
  <2>1. /\ Len(s \o words) = Len(s) + Len(words)
        /\ \A i \in 1..Len(s) + Len(words) :
             (s \o words)[i] = IF i <= Len(s) THEN s[i] ELSE words[i - Len(s)]
    BY <1>3, ConcatProperties
  <2>3. 1 \in 1..1 + Len(words) /\ 1 <= 1
    BY LenProperties
  <2>2. s \o words \in Seq(Data)
    BY <1>3, ConcatProperties
  <2> QED
    BY <1>3, <2>1, <2>2, <2>3
<1>5. s \o words # <<>>
  BY <1>4, LenProperties, EmptySeq
<1> DEFINE t == s \o words
<1>6. t \in Seq(Data) /\ t # <<>> /\ t[1] = mark
  BY <1>4, <1>5
<1> HIDE DEF t
<1>7. Head(t) = t[1]
  BY <1>6
<1> QED
  BY <1>6, <1>7 DEF t, s

LEMMA ChatPieceIs ==
  ASSUME NEW Data, Fit(Data), NEW q \in PartSet(Data)
  PROVE  /\ ChatPiece(q) \in PartSet(Data)
         /\ q.kind \in {"text", "tool_use", "tool_result", "image", "invalid"} => ChatPiece(q) = q
         /\ q.kind \in {"thinking", "redacted", "document"} => Silent(ChatPiece(q))
<1>1. q.body \in Seq(Data) /\ q.kind \in Kinds
  BY DEF PartSet
<1>2. CASE q.kind \in {"text", "tool_use", "tool_result", "image", "invalid"}
  <2>1. ChatPiece(q) = q
    BY <1>2 DEF ChatPiece, ChatPart
  <2> QED
    BY <1>2, <2>1
<1>3. ASSUME NEW mark \in {"[Thinking]", "[Unsupported]"}, NEW words \in Seq(Data)
      PROVE  Text(<<mark>> \o words) \in PartSet(Data) /\ Silent(Text(<<mark>> \o words))
  <2>1. mark \in Marks
    BY DEF Marks
  <2>2. /\ <<mark>> \o words \in Seq(Data) /\ <<mark>> \o words # <<>>
        /\ Head(<<mark>> \o words) = mark
    BY <2>1, MarkedType
  <2> DEFINE t == <<mark>> \o words
  <2> HIDE DEF t
  <2>3. t \in Seq(Data) /\ t # <<>> /\ Head(t) \in {"[Thinking]", "[Unsupported]"}
    BY <2>2 DEF t
  <2>4. Text(t) \in PartSet(Data)
    BY <2>3 DEF Text, Part, PartSet, Kinds, Fit
  <2>5. Silent(Text(t))
    BY <2>3 DEF Silent, Text, Part, IsNote
  <2> QED
    BY <2>4, <2>5 DEF t
<1>4. CASE q.kind = "thinking"
  <2>1. ChatPiece(q) = Text(<<"[Thinking]">> \o q.body)
    BY <1>4, Zenon DEF ChatPiece, ChatPart
  <2> QED
    BY <1>1, <1>3, <1>4, <2>1
<1>5. CASE q.kind \in {"redacted", "document", "attachment"}
  <2>1. ChatPiece(q) = Text(<<"[Unsupported]">>)
    BY <1>5 DEF ChatPiece, ChatPart
  <2>2. <<"[Unsupported]">> = <<"[Unsupported]">> \o <<>> /\ <<>> \in Seq(Data)
    OBVIOUS
  <2> QED
    BY <1>3, <1>5, <2>1, <2>2
<1> QED
  BY <1>1, <1>2, <1>4, <1>5 DEF Kinds

LEMMA OfKindsOne ==
  ASSUME NEW T, NEW c \in T, NEW kinds
  PROVE  OfKinds(<<c>>, kinds) = Kept(c, c.kind \in kinds)
<1> DEFINE x == Kept(c, c.kind \in kinds)
<1>1. x \in Seq(T)
  BY DEF Kept
<1>2. [i \in DOMAIN <<c>> |-> Kept(<<c>>[i], <<c>>[i].kind \in kinds)] = <<x>>
  OBVIOUS
<1> HIDE DEF x
<1>3. FlattenSeq(<<x>>) = x
  BY <1>1, FlatOne
<1> QED
  BY <1>2, <1>3 DEF OfKinds, x

LEMMA WordsOfOne ==
  ASSUME NEW T, NEW p, p.body \in Seq(T)
  PROVE  WordsOf(<<p>>) = p.body
<1> DEFINE x == p.body
<1>1. [i \in DOMAIN <<p>> |-> <<p>>[i].body] = <<x>>
  OBVIOUS
<1> HIDE DEF x
<1>2. FlattenSeq(<<x>>) = x
  BY FlatOne DEF x
<1> QED
  BY <1>1, <1>2 DEF WordsOf, x

\* What a part becomes, and the parts that are sent.
TurnsTo(role, p, q) ==
  \/ role = "user" /\ p.kind \in {"text", "tool_result"} /\ q = p
  \/ role = "user" /\ p.kind = "attachment" /\ q.kind \in {"image", "document", "invalid"}
  \/ /\ role = "assistant" /\ p.kind \in {"text", "thinking", "redacted", "tool_use"}
     /\ q = p

Sendable(role, q) ==
  \/ role = "user" /\ q.kind \in {"text", "image", "document", "invalid", "tool_result"}
  \/ role = "assistant" /\ q.kind \in {"text", "thinking", "redacted", "tool_use"}

LEMMA TurnsToSendable ==
  ASSUME NEW role, NEW p, NEW q, TurnsTo(role, p, q)
  PROVE  Sendable(role, q)
BY DEF TurnsTo, Sendable

LEMMA TurnedCases ==
  ASSUME NEW Data, Fit(Data), NEW role \in {"user", "assistant"}, NEW p \in PartSet(Data),
         Message(role, <<p>>) \in Held(Data)
  PROVE  \E q \in PartSet(Data) :
           /\ AntMessage(Message(role, <<p>>)) = Message(role, <<q>>)
           /\ TurnsTo(role, p, q)
<1> DEFINE m == Message(role, <<p>>)
<1>1. m.role = role /\ m.parts = <<p>>
  BY DEF Message
<1>2. ~IsSystem(m)
  BY <1>1 DEF IsSystem
<1>3. \E r \in {"user", "assistant"}, s \in PartSet(Data) :
        /\ m = Message(r, <<s>>)
        /\ \/ r = "user" /\ s.kind \in {"text", "attachment", "tool_result"}
           \/ r = "assistant" /\ s.kind \in {"text", "thinking", "redacted", "tool_use"}
  <2> HIDE DEF m
  <2> QED
    BY <1>2, HeldCases DEF m
<1>4. \/ role = "user" /\ p.kind \in {"text", "attachment", "tool_result"}
      \/ role = "assistant" /\ p.kind \in {"text", "thinking", "redacted", "tool_use"}
  <2>1. PICK r \in {"user", "assistant"}, s \in PartSet(Data) :
          /\ m = Message(r, <<s>>)
          /\ \/ r = "user" /\ s.kind \in {"text", "attachment", "tool_result"}
             \/ r = "assistant" /\ s.kind \in {"text", "thinking", "redacted", "tool_use"}
    BY <1>3
  <2>2. r = m.role /\ m.parts = <<s>>
    BY <2>1 DEF Message
  <2>3. s = p
    BY <1>1, <2>2
  <2> HIDE DEF m
  <2> QED
    BY <1>1, <2>1, <2>2, <2>3
<1>5. /\ AntPart(p) \in PartSet(Data)
      /\ p.kind # "attachment" => AntPart(p) = p
      /\ p.kind = "attachment" => AntPart(p).kind \in {"image", "document", "invalid"}
  BY AntPartIs
<1>6. AntMessage(m) = Message(role, <<AntPart(p)>>)
  BY AntOne
<1> HIDE DEF m
<1> QED
  BY <1>4, <1>5, <1>6 DEF m, TurnsTo

LEMMA ChatOne ==
  ASSUME NEW Data, Fit(Data), NEW role \in {"user", "assistant"}, NEW q \in PartSet(Data),
         Sendable(role, q)
  PROVE  \E r \in Roles \ {"system"} :
           /\ Speaker(r) = Speaker(role)
           /\ ChatMessages(Message(role, <<q>>)) = <<Message(r, <<ChatPiece(q)>>)>>
<1>1. CASE role = "user" /\ q.kind = "tool_result"
  <2>1. ChatUserMessages(<<q>>) = <<Message("tool", <<q>>)>>
    BY <1>1 DEF ChatUserMessages
  <2>2. ChatMessages(Message(role, <<q>>)) = ChatUserMessages(<<q>>)
    BY <1>1 DEF ChatMessages, Message
  <2>3. ChatPiece(q) = q /\ "tool" \in Roles \ {"system"} /\ Speaker("tool") = Speaker("user")
    BY <1>1 DEF ChatPiece, Roles, Speaker
  <2> QED
    BY <1>1, <2>1, <2>2, <2>3
<1>2. CASE role = "user" /\ q.kind \in {"text", "image", "document", "invalid"}
  <2>1. ChatUserMessages(<<q>>) = <<Message("user", <<ChatPart(q)>>)>>
    BY <1>2 DEF ChatUserMessages
  <2>2. ChatMessages(Message(role, <<q>>)) = ChatUserMessages(<<q>>)
    BY <1>2 DEF ChatMessages, Message
  <2>3. ChatPiece(q) = ChatPart(q) /\ "user" \in Roles \ {"system"}
    BY <1>2 DEF ChatPiece, Roles
  <2> QED
    BY <1>2, <2>1, <2>2, <2>3
<1>3. CASE role = "assistant"
  <2> DEFINE c == ChatPart(q)
  <2>1. q.kind # "tool_result" /\ ChatPiece(q) = c
    BY <1>3 DEF ChatPiece, Sendable
  <2>2. c.kind \in {"text", "tool_use"}
    BY <1>3 DEF Sendable, ChatPart, Text, Part
  <2>3. [i \in DOMAIN <<q>> |->
           IF <<q>>[i].kind = "tool_result" THEN Invalid ELSE ChatPart(<<q>>[i])]
          = <<c>>
    BY <2>1
  <2> HIDE DEF c
  <2>4. \A kinds : OfKinds(<<c>>, kinds) = Kept(c, c.kind \in kinds)
    BY OfKindsOne
  <2>5. OfKinds(<<c>>, {"text", "invalid"}) \o OfKinds(<<c>>, {"tool_use"}) = <<c>>
    <3>0. <<c>> \o <<>> = <<c>> /\ <<>> \o <<c>> = <<c>>
      OBVIOUS
    <3>1. CASE c.kind = "text"
      <4>1. OfKinds(<<c>>, {"text", "invalid"}) = <<c>> /\ OfKinds(<<c>>, {"tool_use"}) = <<>>
        BY <2>4, <3>1 DEF Kept
      <4> QED
        BY <3>0, <4>1, Zenon
    <3>2. CASE c.kind = "tool_use"
      <4>1. OfKinds(<<c>>, {"text", "invalid"}) = <<>> /\ OfKinds(<<c>>, {"tool_use"}) = <<c>>
        BY <2>4, <3>2 DEF Kept
      <4> QED
        BY <3>0, <4>1, Zenon
    <3> QED
      BY <2>2, <3>1, <3>2
  <2>6. ChatAssistantMessages(<<q>>) = <<Message("assistant", <<c>>)>>
    BY <2>3, <2>5 DEF ChatAssistantMessages
  <2>7. ChatMessages(Message(role, <<q>>)) = ChatAssistantMessages(<<q>>)
    BY <1>3 DEF ChatMessages, Message
  <2>8. "assistant" \in Roles \ {"system"}
    BY DEF Roles
  <2> QED
    BY <1>3, <2>1, <2>6, <2>7, <2>8
<1> QED
  BY <1>1, <1>2, <1>3 DEF Sendable

LEMMA ChatSystem ==
  ASSUME NEW Data, NEW m \in Held(Data), IsSystem(m)
  PROVE  ChatMessages(AntMessage(m)) = <<m>>
<1>1. PICK words \in Seq(Data) : m = Message("system", <<Text(words)>>)
  BY HeldSystem
<1>2. AntMessage(m) = m
  BY AntSystem
<1>3. Text(words).body = words
  BY DEF Text, Part
<1>4. WordsOf(<<Text(words)>>) = words
  BY <1>3, WordsOfOne
<1>5. m.role = "system" /\ m.parts = <<Text(words)>>
  BY <1>1 DEF Message
<1>6. ChatMessages(m) = <<Message("system", <<Text(WordsOf(m.parts))>>)>>
  BY <1>5 DEF ChatMessages
<1> QED
  BY <1>1, <1>2, <1>4, <1>5, <1>6

ChatMap(Data) == [m \in Held(Data) |-> ChatMessages(AntMessage(m))]

LEMMA ChatSpoken ==
  ASSUME NEW Data, Fit(Data), NEW m \in Held(Data), ~IsSystem(m)
  PROVE  \E n \in MessageSet(Data) : ~IsSystem(n) /\ ChatMessages(AntMessage(m)) = <<n>>
<1>1. PICK role \in {"user", "assistant"}, p \in PartSet(Data) : m = Message(role, <<p>>)
  BY HeldCases
<1>2. PICK q \in PartSet(Data) :
        /\ AntMessage(m) = Message(role, <<q>>)
        /\ TurnsTo(role, p, q)
  BY <1>1, TurnedCases
<1>3. Sendable(role, q)
  BY <1>2, TurnsToSendable
<1>4. PICK r \in Roles \ {"system"} :
        ChatMessages(Message(role, <<q>>)) = <<Message(r, <<ChatPiece(q)>>)>>
  BY <1>3, ChatOne
<1> DEFINE n == Message(r, <<ChatPiece(q)>>)
<1>5. n \in MessageSet(Data) /\ n.role = r
  BY ChatPieceIs, OnePart
<1> HIDE DEF n
<1>6. ~IsSystem(n)
  BY <1>5 DEF IsSystem
<1> QED
  BY <1>2, <1>4, <1>5, <1>6 DEF n

LEMMA ChatMapType ==
  ASSUME NEW Data, Fit(Data)
  PROVE  IsMap(ChatMap(Data), Held(Data), MessageSet(Data))
<1>1. ASSUME NEW m \in Held(Data)
      PROVE  ChatMessages(AntMessage(m)) \in Seq(MessageSet(Data))
  <2>1. CASE IsSystem(m)
    <3>1. ChatMessages(AntMessage(m)) = <<m>> /\ m \in MessageSet(Data)
      BY <2>1, ChatSystem, HeldMessages
    <3> QED
      BY <3>1
  <2>2. CASE ~IsSystem(m)
    <3>1. PICK n \in MessageSet(Data) : ChatMessages(AntMessage(m)) = <<n>>
      BY <2>2, ChatSpoken
    <3> QED
      BY <3>1
  <2> QED
    BY <2>1, <2>2
<1> QED
  BY <1>1 DEF ChatMap, IsMap

LEMMA ChatFlat ==
  ASSUME NEW Data, NEW h \in Seq(Held(Data))
  PROVE  RequestOf("chat", AntMessages(h)).messages = MapFlat(ChatMap(Data), h)
<1> DEFINE g == AntMessages(h)
           c == ChatMap(Data)
<1>1. \A i \in DOMAIN h : h[i] \in Held(Data)
  BY LenProperties, ElementOfSeq
<1>2. DOMAIN g = DOMAIN h /\ \A i \in DOMAIN h : g[i] = AntMessage(h[i])
  BY DEF AntMessages
<1>3. \A m \in Held(Data) : c[m] = ChatMessages(AntMessage(m))
  BY DEF ChatMap
<1> HIDE DEF g, c
<1>4. [i \in DOMAIN g |-> ChatMessages(g[i])] = [i \in DOMAIN h |-> c[h[i]]]
  BY <1>1, <1>2, <1>3
<1>5. ChatRequest(g).messages = FlattenSeq([i \in DOMAIN g |-> ChatMessages(g[i])])
  BY DEF ChatRequest
<1>6. RequestOf("chat", g) = ChatRequest(g)
  BY DEF RequestOf
<1> QED
  BY <1>4, <1>5, <1>6 DEF MapFlat, g, c

LEMMA TellsPiece ==
  ASSUME NEW Data, NEW role \in {"user", "assistant"}, NEW p \in PartSet(Data),
         NEW q \in PartSet(Data),
         \/ p.kind \in {"text", "tool_use"} /\ q = p
         \/ p.kind = "tool_result" /\ Result(q, p)
         \/ p.kind \in {"attachment", "thinking", "redacted"} /\ Silent(q)
  PROVE  Tells(Data, <<SaidAs(role, q)>>, role, p)
<1> DEFINE s == <<SaidAs(role, q)>>
<1>1. s = <<SaidAs(role, q)>>
  OBVIOUS
<1> HIDE DEF s
<1>2. Tells(Data, s, role, p)
  BY <1>1 DEF Tells
<1> QED
  BY <1>2 DEF s

LEMMA ChatCarries ==
  ASSUME NEW Data, Fit(Data)
  PROVE  Carries(Data, "chat", After(Held(Data), SaidMap(Data), ChatMap(Data)))
<1> DEFINE c == ChatMap(Data)
           s == SaidMap(Data)
           k == After(Held(Data), s, c)
<1>1. IsMap(c, Held(Data), MessageSet(Data)) /\ IsMap(s, MessageSet(Data), SaidSet(Data))
  BY ChatMapType, SaidSpoken, EmptySeq
<1>2. \A h \in Seq(Held(Data)) :
        MapFlat(s, MapFlat(c, h)) = MapFlat(k, h) /\ IsMap(k, Held(Data), SaidSet(Data))
  <2> HIDE DEF c, s
  <2> QED
    BY <1>1, MapMap
<1>3. ASSUME NEW h \in Seq(Held(Data))
      PROVE  Sent("chat", h) = MapFlat(k, h)
  <2>1. RequestOf("chat", AntMessages(h)).messages = MapFlat(c, h)
    BY ChatFlat
  <2>2. MapFlat(c, h) \in Seq(MessageSet(Data))
    <3> HIDE DEF c
    <3> QED
      BY <1>1, MapType
  <2> DEFINE g == MapFlat(c, h)
  <2> HIDE DEF g
  <2>3. Said(Spoken(g)) = MapFlat(s, g)
    BY <2>2, SaidSpoken DEF g
  <2> QED
    BY <1>2, <2>1, <2>3 DEF Sent, g
<1>4. ASSUME NEW m \in Held(Data), IsSystem(m)
      PROVE  k[m] = <<>>
  <2>1. k[m] = MapFlat(s, c[m]) /\ c[m] = <<m>> /\ m \in MessageSet(Data)
    <3>1. k[m] = MapFlat(s, c[m])
      BY DEF After
    <3>2. c[m] = ChatMessages(AntMessage(m))
      BY DEF ChatMap
    <3> HIDE DEF k, c
    <3> QED
      BY <1>4, <3>1, <3>2, ChatSystem, HeldMessages
  <2>2. MapFlat(s, <<m>>) = <<>>
    BY <1>4, <2>1, SaidSystem
  <2> HIDE DEF k, c, s
  <2> QED
    BY <2>1, <2>2, Zenon
<1>5. ASSUME NEW role \in {"user", "assistant"}, NEW p \in PartSet(Data),
             Message(role, <<p>>) \in Held(Data)
      PROVE  Tells(Data, k[Message(role, <<p>>)], role, p)
  <2> DEFINE m == Message(role, <<p>>)
  <2>1. PICK q \in PartSet(Data) :
           /\ AntMessage(m) = Message(role, <<q>>)
           /\ TurnsTo(role, p, q)
    BY <1>5, TurnedCases
  <2>2. Sendable(role, q)
    BY <2>1, TurnsToSendable
  <2>3. PICK r \in Roles \ {"system"} :
          /\ Speaker(r) = Speaker(role)
          /\ ChatMessages(Message(role, <<q>>)) = <<Message(r, <<ChatPiece(q)>>)>>
    BY <2>2, ChatOne
  <2> DEFINE w == ChatPiece(q)
  <2>4. /\ w \in PartSet(Data)
        /\ q.kind \in {"text", "tool_use", "tool_result", "image", "invalid"} => w = q
        /\ q.kind \in {"thinking", "redacted", "document"} => Silent(w)
    BY ChatPieceIs
  <2>5. k[m] = MapFlat(s, c[m]) /\ c[m] = ChatMessages(AntMessage(m))
    BY <1>5 DEF ChatMap, After
  <2> HIDE DEF k, c, s, m, w
  <2>6. c[m] = <<Message(r, <<w>>)>>
    BY <2>1, <2>3, <2>5 DEF w
  <2>7. MapFlat(s, <<Message(r, <<w>>)>>) = <<SaidAs(r, w)>>
    BY <2>4, SaidOne DEF s
  <2>8. SaidAs(r, w) = SaidAs(role, w)
    BY <2>3 DEF SaidAs
  <2>9. k[m] = <<SaidAs(role, w)>>
    BY <2>5, <2>6, <2>7, <2>8, Zenon
  <2>10. \/ p.kind \in {"text", "tool_use"} /\ w = p
         \/ p.kind = "tool_result" /\ Result(w, p)
         \/ p.kind \in {"attachment", "thinking", "redacted"} /\ Silent(w)
    BY <2>1, <2>4 DEF Result, Silent, TurnsTo
  <2>11. Tells(Data, <<SaidAs(role, w)>>, role, p)
    BY <2>4, <2>10, TellsPiece
  <2> QED
    BY <2>9, <2>11, Zenon DEF m
<1> HIDE DEF k
<1>6. IsMap(k, Held(Data), SaidSet(Data))
  BY <1>2, EmptySeq
<1>7. Carries(Data, "chat", k)
  BY <1>3, <1>4, <1>5, <1>6 DEF Carries
<1> QED
  BY <1>7 DEF k, s, c

\* The instructions of the memory, in the requests of the OpenAI services.
LEMMA SystemFlat ==
  ASSUME NEW Data, NEW h \in Seq(MessageSet(Data))
  PROVE  /\ SystemMessages(h) = MapFlat([m \in MessageSet(Data) |-> Kept(m, IsSystem(m))], h)
         /\ IsMap([m \in MessageSet(Data) |-> Kept(m, IsSystem(m))], MessageSet(Data),
                  MessageSet(Data))
<1> DEFINE f == [m \in MessageSet(Data) |-> Kept(m, IsSystem(m))]
<1>1. DOMAIN h = 1..Len(h) /\ \A i \in DOMAIN h : h[i] \in MessageSet(Data)
  BY LenProperties, ElementOfSeq
<1>2. [i \in DOMAIN h |-> Kept(h[i], IsSystem(h[i]))] = [i \in DOMAIN h |-> f[h[i]]]
  BY <1>1
<1>3. \A m \in MessageSet(Data) : Kept(m, IsSystem(m)) \in Seq(MessageSet(Data))
  BY DEF Kept
<1>4. IsMap(f, MessageSet(Data), MessageSet(Data))
  BY <1>3 DEF IsMap
<1> QED
  BY <1>2, <1>4 DEF SystemMessages, MapFlat

LEMMA ChatInstructions ==
  ASSUME NEW Data, Fit(Data), NEW h \in Seq(Held(Data))
  PROVE  SystemMessages(RequestOf("chat", AntMessages(h)).messages) = SystemMessages(h)
<1> DEFINE M == MessageSet(Data)
           c == ChatMap(Data)
           f == [m \in M |-> Kept(m, IsSystem(m))]
           k == After(Held(Data), f, c)
<1>1. IsMap(c, Held(Data), M)
  BY ChatMapType
<1>2. IsMap(f, M, M) /\ \A x \in Seq(M) : SystemMessages(x) = MapFlat(f, x)
  BY SystemFlat, EmptySeq
<1>3. RequestOf("chat", AntMessages(h)).messages = MapFlat(c, h)
  BY ChatFlat
<1>4. MapFlat(c, h) \in Seq(M) /\ MapFlat(f, MapFlat(c, h)) = MapFlat(k, h)
  <2> HIDE DEF c, f, M
  <2>1. MapFlat(c, h) \in Seq(M)
    BY <1>1, MapType
  <2>3. IsMap(f, M, M)
    BY <1>2
  <2>2. MapFlat(f, MapFlat(c, h)) = MapFlat(k, h) /\ IsMap(k, Held(Data), M)
    BY <1>1, <2>3, MapMap
  <2> QED
    BY <2>1, <2>2
<1>5. ASSUME NEW m \in Held(Data)
      PROVE  k[m] = f[m]
  <2>1. k[m] = MapFlat(f, c[m]) /\ c[m] = ChatMessages(AntMessage(m)) /\ m \in M
    BY HeldMessages DEF After, ChatMap
  <2>2. f[m] = Kept(m, IsSystem(m))
    BY <2>1
  <2>3. CASE IsSystem(m)
    <3> HIDE DEF c, f, k, M
    <3>1. c[m] = <<m>>
      BY <2>1, <2>3, ChatSystem
    <3>2. MapFlat(f, <<m>>) = f[m]
      BY <1>2, <2>1, MapOne
    <3> QED
      BY <2>1, <3>1, <3>2, Zenon
  <2>4. CASE ~IsSystem(m)
    <3>1. PICK n \in M : ~IsSystem(n) /\ ChatMessages(AntMessage(m)) = <<n>>
      BY <2>4, ChatSpoken
    <3>7. f[n] = Kept(n, IsSystem(n))
      BY <3>1
    <3> HIDE DEF c, f, k, M
    <3>8. MapFlat(f, <<n>>) = f[n]
      BY <1>2, <3>1, MapOne
    <3>9. f[n] = <<>> /\ f[m] = <<>>
      BY <2>2, <2>4, <3>1, <3>7 DEF Kept
    <3>10. c[m] = <<n>>
      BY <2>1, <3>1
    <3> QED
      BY <2>1, <3>8, <3>9, <3>10, Zenon
  <2> QED
    BY <2>3, <2>4
<1>6. h \in Seq(M)
  BY HeldMessages, SeqMonotonic
<1>7. \A i \in DOMAIN h : k[h[i]] = f[h[i]]
  <2> HIDE DEF k, f
  <2> QED
    BY <1>5, LenProperties, ElementOfSeq
<1> HIDE DEF c, f, k, M
<1>8. MapFlat(k, h) = MapFlat(f, h)
  BY <1>7, MapSame
<1> QED
  BY <1>2, <1>3, <1>4, <1>6, <1>8

LEMMA ResponsesInstructions ==
  ASSUME NEW Data, Fit(Data), NEW h \in Seq(Held(Data))
  PROVE  RequestOf("responses", AntMessages(h)).system = Items(SystemMessages(h))
<1> DEFINE g == AntMessages(h)
<1>1. \A i \in DOMAIN h : h[i] \in Held(Data)
  BY LenProperties, ElementOfSeq
<1>2. DOMAIN g = DOMAIN h /\ \A i \in DOMAIN h : g[i] = AntMessage(h[i])
  BY DEF AntMessages
<1>3. ASSUME NEW m \in Held(Data)
      PROVE  Kept(AntMessage(m), IsSystem(AntMessage(m))) = Kept(m, IsSystem(m))
  <2>1. CASE IsSystem(m)
    BY <2>1, AntSystem
  <2>2. CASE ~IsSystem(m)
    BY <2>2, AntTurned DEF Kept
  <2> QED
    BY <2>1, <2>2
<1> HIDE DEF g
<1>4. [i \in DOMAIN g |-> Kept(g[i], IsSystem(g[i]))]
        = [i \in DOMAIN h |-> Kept(h[i], IsSystem(h[i]))]
  BY <1>1, <1>2, <1>3
<1>5. SystemMessages(g) = SystemMessages(h)
  BY <1>4 DEF SystemMessages
<1>6. ResponsesRequest(g).system = Items(SystemMessages(g))
  BY DEF ResponsesRequest
<1>7. RequestOf("responses", g) = ResponsesRequest(g)
  BY DEF RequestOf
<1> QED
  BY <1>5, <1>6, <1>7 DEF g

-----------------------------------------------------------------------------
\* The responses API.

LEMMA ImageFlat ==
  ASSUME NEW T, NEW words \in Seq(T)
  PROVE  /\ WithoutImages(words) = MapFlat([w \in T |-> Kept(w, w # "IMAGE")], words)
         /\ IsMap([w \in T |-> Kept(w, w # "IMAGE")], T, T)
         /\ ImagesOf(words) = MapFlat([w \in T |-> Kept(w, w = "IMAGE")], words)
         /\ IsMap([w \in T |-> Kept(w, w = "IMAGE")], T, T)
<1> DEFINE f == [w \in T |-> Kept(w, w # "IMAGE")]
           g == [w \in T |-> Kept(w, w = "IMAGE")]
<1>1. \A i \in DOMAIN words : words[i] \in T
  BY LenProperties, ElementOfSeq
<1>2. [i \in DOMAIN words |-> Kept(words[i], words[i] # "IMAGE")]
        = [i \in DOMAIN words |-> f[words[i]]]
  BY <1>1
<1>3. [i \in DOMAIN words |-> Kept(words[i], words[i] = "IMAGE")]
        = [i \in DOMAIN words |-> g[words[i]]]
  BY <1>1
<1>4. \A w \in T : Kept(w, w # "IMAGE") \in Seq(T) /\ Kept(w, w = "IMAGE") \in Seq(T)
  BY DEF Kept
<1>5. IsMap(f, T, T) /\ IsMap(g, T, T)
  BY <1>4 DEF IsMap
<1>6. WithoutImages(words) = MapFlat(f, words)
  BY <1>2 DEF WithoutImages, MapFlat
<1>7. ImagesOf(words) = MapFlat(g, words)
  BY <1>3 DEF ImagesOf, MapFlat
<1> QED
  BY <1>5, <1>6, <1>7

LEMMA ImageType ==
  ASSUME NEW T, NEW words \in Seq(T)
  PROVE  WithoutImages(words) \in Seq(T) /\ ImagesOf(words) \in Seq(T)
<1> DEFINE f == [w \in T |-> Kept(w, w # "IMAGE")]
           g == [w \in T |-> Kept(w, w = "IMAGE")]
<1>1. /\ WithoutImages(words) = MapFlat(f, words) /\ IsMap(f, T, T)
      /\ ImagesOf(words) = MapFlat(g, words) /\ IsMap(g, T, T)
  BY ImageFlat
<1> HIDE DEF f, g
<1>2. MapFlat(f, words) \in Seq(T)
  BY <1>1, MapType
<1>3. MapFlat(g, words) \in Seq(T)
  BY <1>1, MapType
<1> QED
  BY <1>1, <1>2, <1>3

LEMMA WithoutImagesTwice ==
  ASSUME NEW T, NEW words \in Seq(T)
  PROVE  WithoutImages(WithoutImages(words)) = WithoutImages(words)
<1> DEFINE f == [w \in T |-> Kept(w, w # "IMAGE")]
           k == After(T, f, f)
<1>1. IsMap(f, T, T) /\ WithoutImages(words) = MapFlat(f, words)
  BY ImageFlat
<1>2. WithoutImages(words) \in Seq(T)
  BY ImageType
<1> DEFINE x == WithoutImages(words)
<1>3. WithoutImages(x) = MapFlat(f, x)
  <2> HIDE DEF x
  <2> QED
    BY <1>2, ImageFlat DEF x
<1>4. MapFlat(f, MapFlat(f, words)) = MapFlat(k, words) /\ IsMap(k, T, T)
  <2> HIDE DEF f
  <2> QED
    BY <1>1, MapMap
<1>5. ASSUME NEW w \in T
      PROVE  k[w] = f[w]
  <2>1. k[w] = MapFlat(f, f[w]) /\ f[w] = Kept(w, w # "IMAGE")
    BY DEF After
  <2> HIDE DEF f, k
  <2>2. MapFlat(f, <<w>>) = f[w] /\ MapFlat(f, <<>>) = <<>>
    BY <1>1, MapOne, MapEmpty
  <2>3. f[w] = <<w>> \/ f[w] = <<>>
    BY <2>1 DEF Kept
  <2> QED
    BY <2>1, <2>2, <2>3, Zenon
<1>6. \A i \in DOMAIN words : k[words[i]] = f[words[i]]
  <2> HIDE DEF k, f
  <2> QED
    BY <1>5, LenProperties, ElementOfSeq
<1> HIDE DEF f, k
<1>7. MapFlat(k, words) = MapFlat(f, words)
  BY <1>6, MapSame
<1> QED
  BY <1>1, <1>3, <1>4, <1>7 DEF x

\* What becomes of a message of one part.
Inputs1(Data, out, role, q) ==
  \/ q.kind \in {"thinking", "redacted"} /\ out = <<>>
  \/ /\ q.kind \in {"text", "invalid", "image", "document", "tool_use"}
     /\ \E r \in Roles \ {"system"} : Speaker(r) = Speaker(role) /\ out = <<Message(r, <<q>>)>>
  \/ /\ q.kind = "tool_result" /\ role = "user"
     /\ \E a, i \in PartSet(Data) :
          /\ Result(a, q) /\ Silent(i)
          /\ \/ out = <<Message("output", <<a>>)>>
             \/ out = <<Message("output", <<a>>), Message("user", <<i>>)>>

LEMMA InputOfPartIs ==
  ASSUME NEW Data, Fit(Data), NEW role \in {"user", "assistant"}, NEW q \in PartSet(Data),
         Sendable(role, q)
  PROVE  Inputs1(Data, InputOfPart(role, q), role, q)
<1> DEFINE out == InputOfPart(role, q)
<1>1. CASE q.kind \in {"thinking", "redacted"}
  <2>1. InputOfPart(role, q) = <<>>
    BY <1>1 DEF InputOfPart
  <2> QED
    BY <1>1, <2>1 DEF Inputs1
<1>2. CASE q.kind \in {"text", "invalid", "image", "document"}
  <2>1. InputOfPart(role, q) = <<Message(role, <<q>>)>>
    BY <1>2 DEF InputOfPart, Sendable
  <2>2. role \in Roles \ {"system"}
    BY DEF Roles
  <2> HIDE DEF out
  <2>3. \E r \in Roles \ {"system"} : Speaker(r) = Speaker(role) /\ out = <<Message(r, <<q>>)>>
    BY <2>1, <2>2, Zenon DEF out
  <2> QED
    BY <1>2, <2>3 DEF Inputs1, out
<1>3. CASE q.kind = "tool_use"
  <2>1. InputOfPart(role, q) = <<Message("call", <<q>>)>> /\ role = "assistant"
    BY <1>3 DEF InputOfPart, Sendable
  <2>2. "call" \in Roles \ {"system"} /\ Speaker("call") = Speaker("assistant")
    BY DEF Roles, Speaker
  <2> HIDE DEF out
  <2>3. \E r \in Roles \ {"system"} : Speaker(r) = Speaker(role) /\ out = <<Message(r, <<q>>)>>
    BY <2>1, <2>2, Zenon DEF out
  <2> QED
    BY <1>3, <2>3 DEF Inputs1, out
<1>4. CASE q.kind = "tool_result"
  <2> DEFINE words == q.body
             a == [q EXCEPT !.body = WithoutImages(q.body)]
             b == <<"[Images]">> \o ImagesOf(q.body)
             i == Part("image", None, None, b)
  <2>1. InputOfPart(role, q) = InputOfResult(q)
    BY <1>4 DEF InputOfPart
  <2>2. q.body \in Seq(Data)
    BY DEF PartSet
  <2>3. WithoutImages(q.body) \in Seq(Data) /\ ImagesOf(q.body) \in Seq(Data)
    BY <2>2, ImageType
  <2>4. /\ a \in PartSet(Data) /\ a.kind = "tool_result" /\ a.id = q.id
        /\ a.body = WithoutImages(q.body)
    BY <1>4, <2>3 DEF PartSet
  <2>5. b \in Seq(Data)
    <3>1. "[Images]" \in Marks
      BY DEF Marks
    <3> DEFINE x == ImagesOf(q.body)
    <3> HIDE DEF x
    <3>2. <<"[Images]">> \o x \in Seq(Data)
      BY <2>3, <3>1, MarkedType DEF x
    <3> QED
      BY <3>2 DEF x
  <2> HIDE DEF a, b
  <2>6. i \in PartSet(Data) /\ Silent(i)
    BY <2>5 DEF Part, PartSet, Kinds, Fit, Silent
  <2>7. Result(a, q)
    BY <2>2, <2>4, WithoutImagesTwice DEF Result
  <2> HIDE DEF i
  <2>8. InputOfResult(q) = <<Message("output", <<a>>)>>
                             \o Kept(Message("user", <<i>>), ImagesOf(q.body) # <<>>)
    BY DEF InputOfResult, a, b, i
  <2>9. \/ InputOfResult(q) = <<Message("output", <<a>>)>>
        \/ InputOfResult(q) = <<Message("output", <<a>>), Message("user", <<i>>)>>
    <3> DEFINE u == Message("output", <<a>>)
               v == Message("user", <<i>>)
    <3> HIDE DEF u, v
    <3>1. <<u>> \o <<v>> = <<u, v>> /\ <<u>> \o <<>> = <<u>>
      BY TwoCat
    <3>2. Kept(v, ImagesOf(q.body) # <<>>) = <<v>> \/ Kept(v, ImagesOf(q.body) # <<>>) = <<>>
      BY DEF Kept
    <3>3. InputOfResult(q) = <<u>> \o Kept(v, ImagesOf(q.body) # <<>>)
      BY <2>8 DEF u, v
    <3>4. InputOfResult(q) = <<u>> \/ InputOfResult(q) = <<u, v>>
      BY <3>1, <3>2, <3>3, Zenon
    <3> QED
      BY <3>4 DEF u, v
  <2> HIDE DEF out
  <2>10. out = InputOfResult(q)
    BY <2>1 DEF out
  <2>11. Inputs1(Data, out, role, q)
    BY <1>4, <2>4, <2>6, <2>7, <2>9, <2>10, Zenon DEF Inputs1, Sendable
  <2> QED
    BY <2>11 DEF out
<1> QED
  BY <1>1, <1>2, <1>3, <1>4 DEF Sendable

LEMMA InputsType ==
  ASSUME NEW Data, NEW out, NEW role, NEW q \in PartSet(Data), Inputs1(Data, out, role, q)
  PROVE  out \in Seq(MessageSet(Data))
<1>1. CASE out = <<>>
  BY <1>1
<1>2. ASSUME NEW r \in Roles, NEW p \in PartSet(Data), out = <<Message(r, <<p>>)>>
      PROVE  out \in Seq(MessageSet(Data))
  <2> DEFINE u == Message(r, <<p>>)
  <2>1. u \in MessageSet(Data)
    BY OnePart
  <2> HIDE DEF u
  <2>2. <<u>> \in Seq(MessageSet(Data))
    BY <2>1
  <2> QED
    BY <1>2, <2>2 DEF u
<1>3. ASSUME NEW a \in PartSet(Data), NEW i \in PartSet(Data),
             out = <<Message("output", <<a>>), Message("user", <<i>>)>>
      PROVE  out \in Seq(MessageSet(Data))
  <2> DEFINE u == Message("output", <<a>>)
             v == Message("user", <<i>>)
  <2>1. u \in MessageSet(Data) /\ v \in MessageSet(Data)
    BY OnePart DEF Roles
  <2> HIDE DEF u, v
  <2>2. <<u, v>> \in Seq(MessageSet(Data))
    BY <2>1
  <2> QED
    BY <1>3, <2>2 DEF u, v
<1>4. "output" \in Roles
  BY DEF Roles
<1> QED
  BY <1>1, <1>2, <1>3, <1>4 DEF Inputs1

LEMMA InputOne ==
  ASSUME NEW Data, Fit(Data), NEW role \in {"user", "assistant"}, NEW q \in PartSet(Data),
         Sendable(role, q)
  PROVE  Inputs1(Data, InputOfMessage(Message(role, <<q>>)), role, q)
<1> DEFINE out == InputOfPart(role, q)
<1>1. Inputs1(Data, out, role, q)
  BY InputOfPartIs
<1>2. [i \in DOMAIN Message(role, <<q>>).parts |->
         InputOfPart(Message(role, <<q>>).role, Message(role, <<q>>).parts[i])] = <<out>>
  BY DEF Message
<1> HIDE DEF out
<1>3. out \in Seq(MessageSet(Data))
  BY <1>1, InputsType
<1>4. FlattenSeq(<<out>>) = out
  BY <1>3, FlatOne
<1>5. InputOfMessage(Message(role, <<q>>)) = out
  BY <1>2, <1>4 DEF InputOfMessage
<1> QED
  BY <1>1, <1>5

LEMMA TurnedIs ==
  ASSUME NEW Data, NEW m \in Turned(Data)
  PROVE  \E role \in {"user", "assistant"}, q \in PartSet(Data) :
           /\ m = Message(role, <<q>>)
           /\ Sendable(role, q)
BY DEF Turned, One, Sendable

InputMap(Data) == [m \in Turned(Data) |-> InputOfMessage(m)]

LEMMA InputMapType ==
  ASSUME NEW Data, Fit(Data)
  PROVE  IsMap(InputMap(Data), Turned(Data), MessageSet(Data))
<1>1. ASSUME NEW m \in Turned(Data)
      PROVE  InputOfMessage(m) \in Seq(MessageSet(Data))
  <2>1. PICK role \in {"user", "assistant"}, q \in PartSet(Data) :
           /\ m = Message(role, <<q>>)
           /\ Sendable(role, q)
    BY TurnedIs
  <2>2. Inputs1(Data, InputOfMessage(m), role, q)
    BY <2>1, InputOne
  <2> QED
    BY <2>2, InputsType
<1> QED
  BY <1>1 DEF InputMap, IsMap

LEMMA ResponsesFlat ==
  ASSUME NEW Data, Fit(Data), NEW h \in Seq(Held(Data))
  PROVE  RequestOf("responses", AntMessages(h)).messages
           = MapFlat(InputMap(Data), Spoken(AntMessages(h)))
<1> DEFINE g == AntMessages(h)
           x == Spoken(g)
           f == InputMap(Data)
           t == TurnedMap(Data)
<1>1. x = MapFlat(t, h) /\ IsMap(t, Held(Data), Turned(Data))
  BY AntSpoken
<1>2. MapFlat(t, h) \in Seq(Turned(Data))
  <2> HIDE DEF t, x
  <2> QED
    BY <1>1, MapType
<1>3. \A m \in Turned(Data) : f[m] = InputOfMessage(m)
  BY DEF InputMap
<1> HIDE DEF x, f, g
<1>4. \A i \in DOMAIN x : x[i] \in Turned(Data)
  BY <1>1, <1>2, LenProperties, ElementOfSeq
<1>5. [i \in DOMAIN x |-> InputOfMessage(x[i])] = [i \in DOMAIN x |-> f[x[i]]]
  BY <1>3, <1>4
<1>6. ResponsesRequest(g).messages = FlattenSeq([i \in DOMAIN x |-> InputOfMessage(x[i])])
  BY DEF ResponsesRequest, x
<1>7. RequestOf("responses", g) = ResponsesRequest(g)
  BY DEF RequestOf
<1>8. RequestOf("responses", g).messages = MapFlat(f, x)
  BY <1>5, <1>6, <1>7 DEF MapFlat
<1> QED
  BY <1>8 DEF g, x, f

-----------------------------------------------------------------------------
\* The services that are sent the spoken messages only.  f gives what becomes of each.

Turns(Data, service, f) ==
  /\ IsMap(f, Turned(Data), MessageSet(Data))
  /\ \A h \in Seq(Held(Data)) :
       Sent(service, h) = Said(Spoken(MapFlat(f, Spoken(AntMessages(h)))))
  /\ \A role \in {"user", "assistant"}, p, q \in PartSet(Data) :
       TurnsTo(role, p, q) =>
         Tells(Data, MapFlat(SaidMap(Data), f[Message(role, <<q>>)]), role, p)

LEMMA TurnsCarries ==
  ASSUME NEW Data, Fit(Data), NEW service, NEW f, Turns(Data, service, f)
  PROVE  Carries(Data, service,
                 After(Held(Data), SaidMap(Data), After(Held(Data), f, TurnedMap(Data))))
<1> DEFINE s == SaidMap(Data)
           t == TurnedMap(Data)
           u == After(Held(Data), f, t)
           k == After(Held(Data), s, u)
<1>1. IsMap(f, Turned(Data), MessageSet(Data)) /\ IsMap(s, MessageSet(Data), SaidSet(Data))
  BY SaidSpoken, EmptySeq DEF Turns
<1>2. IsMap(t, Held(Data), Turned(Data))
  BY AntSpoken, EmptySeq
<1>3. \A h \in Seq(Held(Data)) :
        MapFlat(f, MapFlat(t, h)) = MapFlat(u, h) /\ IsMap(u, Held(Data), MessageSet(Data))
  <2> HIDE DEF t
  <2> QED
    BY <1>1, <1>2, MapMap
<1>4. IsMap(u, Held(Data), MessageSet(Data))
  <2> HIDE DEF u, t
  <2> QED
    BY <1>3, EmptySeq
<1>5. \A h \in Seq(Held(Data)) :
        MapFlat(s, MapFlat(u, h)) = MapFlat(k, h) /\ IsMap(k, Held(Data), SaidSet(Data))
  <2> HIDE DEF s, u
  <2> QED
    BY <1>1, <1>4, MapMap
<1>6. IsMap(k, Held(Data), SaidSet(Data))
  <2> HIDE DEF k, s, u
  <2> QED
    BY <1>5, EmptySeq
<1>7. ASSUME NEW h \in Seq(Held(Data))
      PROVE  Sent(service, h) = MapFlat(k, h)
  <2> DEFINE g == MapFlat(u, h)
  <2>1. Sent(service, h) = Said(Spoken(MapFlat(f, Spoken(AntMessages(h)))))
    BY DEF Turns
  <2>2. Spoken(AntMessages(h)) = MapFlat(t, h)
    BY AntSpoken
  <2>3. g \in Seq(MessageSet(Data))
    <3> HIDE DEF u
    <3> QED
      BY <1>4, MapType
  <2>4. MapFlat(f, MapFlat(t, h)) = g
    BY <1>3
  <2> HIDE DEF g
  <2>5. Said(Spoken(g)) = MapFlat(s, g)
    BY <2>3, SaidSpoken
  <2>6. MapFlat(s, MapFlat(u, h)) = MapFlat(k, h)
    BY <1>5
  <2> HIDE DEF k, s, t, u
  <2> QED
    BY <2>1, <2>2, <2>4, <2>5, <2>6, Zenon DEF g
<1>8. ASSUME NEW m \in Held(Data)
      PROVE  k[m] = MapFlat(s, u[m]) /\ u[m] = MapFlat(f, t[m])
  BY DEF After
<1>9. ASSUME NEW m \in Held(Data), IsSystem(m)
      PROVE  k[m] = <<>>
  <2>1. t[m] = <<>>
    BY <1>9 DEF TurnedMap
  <2> HIDE DEF k, s, t, u
  <2>2. u[m] = <<>> /\ MapFlat(s, <<>>) = <<>>
    BY <1>8, <2>1, MapEmpty
  <2> QED
    BY <1>8, <2>2
<1>10. ASSUME NEW role \in {"user", "assistant"}, NEW p \in PartSet(Data),
              Message(role, <<p>>) \in Held(Data)
       PROVE  Tells(Data, k[Message(role, <<p>>)], role, p)
  <2> DEFINE m == Message(role, <<p>>)
  <2>1. PICK q \in PartSet(Data) : AntMessage(m) = Message(role, <<q>>) /\ TurnsTo(role, p, q)
    BY <1>10, TurnedCases
  <2>2. m \in Held(Data) /\ m.role = role
    BY <1>10 DEF Message
  <2> HIDE DEF m
  <2>3. ~IsSystem(m)
    BY <2>2 DEF IsSystem
  <2> DEFINE n == AntMessage(m)
  <2>4. t[m] = <<n>> /\ n \in Turned(Data)
    BY <2>2, <2>3, AntTurned DEF TurnedMap
  <2> HIDE DEF k, s, t, u, n
  <2>5. MapFlat(f, <<n>>) = f[n]
    BY <1>1, <2>4, MapOne
  <2>6. k[m] = MapFlat(s, f[n])
    BY <1>8, <2>2, <2>4, <2>5
  <2>7. Tells(Data, MapFlat(s, f[Message(role, <<q>>)]), role, p)
    BY <2>1 DEF Turns, s
  <2>8. n = Message(role, <<q>>)
    BY <2>1 DEF n
  <2>9. Tells(Data, k[m], role, p)
    BY <2>6, <2>7, <2>8, Zenon
  <2> QED
    BY <2>9 DEF m
<1> HIDE DEF k
<1>11. Carries(Data, service, k)
  BY <1>6, <1>7, <1>9, <1>10 DEF Carries
<1> QED
  BY <1>11 DEF k, s, u, t

LEMMA SaidTwo ==
  ASSUME NEW Data, NEW r1 \in Roles \ {"system"}, NEW a \in PartSet(Data),
         NEW r2 \in Roles \ {"system"}, NEW b \in PartSet(Data)
  PROVE  MapFlat(SaidMap(Data), <<Message(r1, <<a>>), Message(r2, <<b>>)>>)
           = <<SaidAs(r1, a), SaidAs(r2, b)>>
<1> DEFINE u == Message(r1, <<a>>)
           v == Message(r2, <<b>>)
           x == <<u>>
           y == <<v>>
           s == SaidMap(Data)
<1>1. u \in MessageSet(Data) /\ v \in MessageSet(Data)
  BY OnePart
<1>2. MapFlat(s, x) = <<SaidAs(r1, a)>> /\ MapFlat(s, y) = <<SaidAs(r2, b)>>
  BY SaidOne
<1>3. IsMap(s, MessageSet(Data), SaidSet(Data))
  BY SaidSpoken, EmptySeq
<1> HIDE DEF u, v, s
<1>4. x \in Seq(MessageSet(Data)) /\ y \in Seq(MessageSet(Data))
  BY <1>1
<1>5. x \o y = <<u, v>>
  BY TwoCat
<1> HIDE DEF x, y
<1>6. MapFlat(s, x \o y) = MapFlat(s, x) \o MapFlat(s, y)
  BY <1>3, <1>4, MapCat
<1>7. <<SaidAs(r1, a)>> \o <<SaidAs(r2, b)>> = <<SaidAs(r1, a), SaidAs(r2, b)>>
  BY TwoCat
<1>8. MapFlat(s, <<u, v>>) = <<SaidAs(r1, a), SaidAs(r2, b)>>
  BY <1>2, <1>5, <1>6, <1>7, Zenon
<1> QED
  BY <1>8 DEF u, v, s

LEMMA ResponsesTurns ==
  ASSUME NEW Data, Fit(Data)
  PROVE  Turns(Data, "responses", InputMap(Data))
<1> DEFINE f == InputMap(Data)
           s == SaidMap(Data)
<1>1. IsMap(f, Turned(Data), MessageSet(Data))
  BY InputMapType
<1>2. ASSUME NEW h \in Seq(Held(Data))
      PROVE  Sent("responses", h) = Said(Spoken(MapFlat(f, Spoken(AntMessages(h)))))
  BY ResponsesFlat DEF Sent
<1>3. ASSUME NEW role \in {"user", "assistant"}, NEW p \in PartSet(Data), NEW q \in PartSet(Data),
             TurnsTo(role, p, q)
      PROVE  Tells(Data, MapFlat(s, f[Message(role, <<q>>)]), role, p)
  <2> DEFINE n == Message(role, <<q>>)
             out == f[n]
  <2>1. Sendable(role, q)
    BY <1>3, TurnsToSendable
  <2>2. n \in Turned(Data)
    <3>1. role \in Roles
      BY DEF Roles
    <3>2. n \in MessageSet(Data) /\ n.role = role
      BY <3>1, OnePart
    <3> QED
      BY <2>1, <3>2 DEF Sendable, Turned, One
  <2>3. out = InputOfMessage(n)
    BY <2>2 DEF InputMap
  <2>4. Inputs1(Data, out, role, q)
    BY <2>1, <2>3, InputOne
  <2> HIDE DEF out, s
  <2>5. CASE q.kind \in {"thinking", "redacted"} /\ out = <<>>
    <3>1. p.kind \in {"thinking", "redacted"}
      BY <1>3, <2>5 DEF TurnsTo
    <3>2. MapFlat(s, out) = <<>>
      BY <2>5, MapEmpty
    <3>3. Tells(Data, MapFlat(s, out), role, p)
      BY <3>1, <3>2 DEF Tells
    <3> QED
      BY <3>3 DEF out
  <2>6. ASSUME NEW r \in Roles \ {"system"}, Speaker(r) = Speaker(role),
               out = <<Message(r, <<q>>)>>,
               q.kind \in {"text", "invalid", "image", "document", "tool_use"}
        PROVE  Tells(Data, MapFlat(s, out), role, p)
    <3>1. MapFlat(s, out) = <<SaidAs(r, q)>>
      BY <2>6, SaidOne DEF s
    <3>2. SaidAs(r, q) = SaidAs(role, q)
      BY <2>6 DEF SaidAs
    <3>3. \/ p.kind \in {"text", "tool_use"} /\ q = p
          \/ p.kind \in {"attachment", "thinking", "redacted"} /\ Silent(q)
      BY <1>3, <2>6 DEF TurnsTo, Silent
    <3>4. Tells(Data, <<SaidAs(role, q)>>, role, p)
      BY <3>3, TellsPiece
    <3> QED
      BY <3>1, <3>2, <3>4, Zenon
  <2>7. ASSUME NEW a \in PartSet(Data), NEW i \in PartSet(Data), q.kind = "tool_result",
               role = "user", Result(a, q), Silent(i),
               \/ out = <<Message("output", <<a>>)>>
               \/ out = <<Message("output", <<a>>), Message("user", <<i>>)>>
        PROVE  Tells(Data, MapFlat(s, out), role, p)
    <3>1. /\ {"output", "user"} \subseteq Roles \ {"system"}
          /\ Speaker("output") = Speaker("user")
      BY DEF Roles, Speaker
    <3>2. SaidAs("output", a) = SaidAs(role, a) /\ SaidAs("user", i) = SaidAs(role, i)
      BY <2>7, <3>1 DEF SaidAs
    <3>3. p.kind = "tool_result" /\ Result(a, p)
      BY <1>3, <2>7 DEF TurnsTo
    <3>4. CASE out = <<Message("output", <<a>>)>>
      <4>1. MapFlat(s, out) = <<SaidAs("output", a)>>
        BY <3>1, <3>4, SaidOne DEF s
      <4>2. Tells(Data, <<SaidAs(role, a)>>, role, p)
        BY <3>3, TellsPiece
      <4> QED
        BY <3>2, <4>1, <4>2, Zenon
    <3>5. CASE out = <<Message("output", <<a>>), Message("user", <<i>>)>>
      <4>1. MapFlat(s, out) = <<SaidAs("output", a), SaidAs("user", i)>>
        BY <3>1, <3>5, SaidTwo DEF s
      <4>2. MapFlat(s, out) = <<SaidAs(role, a), SaidAs(role, i)>>
        BY <3>2, <4>1, Zenon
      <4> DEFINE said == MapFlat(s, out)
      <4> HIDE DEF said
      <4>3. Tells(Data, said, role, p)
        BY <2>7, <3>3, <4>2 DEF said, Tells
      <4> QED
        BY <4>3 DEF said
    <3> QED
      BY <2>7, <3>4, <3>5
  <2>8. Tells(Data, MapFlat(s, out), role, p)
    BY <2>4, <2>5, <2>6, <2>7 DEF Inputs1, out
  <2> QED
    BY <2>8 DEF out
<1> HIDE DEF f
<1>4. Turns(Data, "responses", f)
  BY <1>1, <1>2, <1>3 DEF Turns
<1> QED
  BY <1>4 DEF f

\* Gemini.
GeminiTurned(Data) == [m \in Turned(Data) |-> GeminiMessage(m)]
GeminiMap(Data) == [m \in Turned(Data) |-> <<GeminiTurned(Data)[m]>>]

LEMMA GeminiOne ==
  ASSUME NEW Data, Fit(Data), NEW role \in {"user", "assistant"}, NEW q \in PartSet(Data)
  PROVE  \E r \in Roles \ {"system"} :
           /\ Speaker(r) = Speaker(role)
           /\ GeminiMessage(Message(role, <<q>>)) = Message(r, <<GeminiPart(q)>>)
<1> DEFINE r == IF role = "assistant" THEN "model" ELSE role
<1>1. [j \in DOMAIN <<q>> |-> GeminiPart(<<q>>[j])] = <<GeminiPart(q)>>
  OBVIOUS
<1>2. GeminiMessage(Message(role, <<q>>)) = Message(r, <<GeminiPart(q)>>)
  BY <1>1 DEF GeminiMessage, Message
<1>3. r \in Roles \ {"system"} /\ Speaker(r) = Speaker(role)
  <2>1. CASE role = "assistant"
    <3>1. r = "model"
      BY <2>1
    <3>2. "model" \in Roles \ {"system"} /\ Speaker("model") = Speaker("assistant")
      BY DEF Roles, Speaker
    <3> QED
      BY <2>1, <3>1, <3>2, Zenon
  <2>2. CASE role = "user"
    <3>1. r = "user"
      BY <2>2
    <3>2. "user" \in Roles \ {"system"}
      BY DEF Roles
    <3> QED
      BY <2>2, <3>1, <3>2, Zenon
  <2> QED
    BY <2>1, <2>2
<1> HIDE DEF r
<1> QED
  BY <1>2, <1>3

LEMMA GeminiPartIs ==
  ASSUME NEW Data, Fit(Data), NEW q \in PartSet(Data)
  PROVE  /\ GeminiPart(q) \in PartSet(Data)
         /\ q.kind \notin {"redacted", "tool_result"} => GeminiPart(q) = q
         /\ q.kind = "redacted" => Silent(GeminiPart(q))
         /\ q.kind = "tool_result" => Result(GeminiPart(q), q)
<1>1. CASE q.kind \notin {"redacted", "tool_result"}
  <2>1. GeminiPart(q) = q
    BY <1>1 DEF GeminiPart
  <2> QED
    BY <1>1, <2>1
<1>2. CASE q.kind = "redacted"
  <2>1. GeminiPart(q) = Invalid
    BY <1>2 DEF GeminiPart
  <2>2. Invalid \in PartSet(Data) /\ Silent(Invalid)
    BY DEF Invalid, Part, PartSet, Fit, Kinds, Silent
  <2> QED
    BY <1>2, <2>1, <2>2
<1>3. CASE q.kind = "tool_result"
  <2>1. GeminiPart(q) = [q EXCEPT !.name = q.id]
    BY <1>3 DEF GeminiPart
  <2>2. /\ [q EXCEPT !.name = q.id] \in PartSet(Data)
        /\ [q EXCEPT !.name = q.id].kind = "tool_result" /\ [q EXCEPT !.name = q.id].id = q.id
        /\ [q EXCEPT !.name = q.id].body = q.body
    BY <1>3 DEF PartSet
  <2> QED
    BY <1>3, <2>1, <2>2 DEF Result
<1> QED
  BY <1>1, <1>2, <1>3

LEMMA TurnedRole ==
  ASSUME NEW Data, NEW role \in {"user", "assistant"}, NEW q \in PartSet(Data), Sendable(role, q)
  PROVE  Message(role, <<q>>) \in Turned(Data)
<1>1. role \in Roles
  BY DEF Roles
<1>2. Message(role, <<q>>) \in MessageSet(Data) /\ Message(role, <<q>>).role = role
  BY <1>1, OnePart
<1> QED
  BY <1>2 DEF Sendable, Turned, One

LEMMA GeminiTurns ==
  ASSUME NEW Data, Fit(Data)
  PROVE  Turns(Data, "gemini", GeminiMap(Data))
<1> DEFINE F == GeminiTurned(Data)
           f == GeminiMap(Data)
           s == SaidMap(Data)
<1>1. ASSUME NEW m \in Turned(Data)
      PROVE  F[m] \in MessageSet(Data)
  <2>1. PICK role \in {"user", "assistant"}, q \in PartSet(Data) :
          m = Message(role, <<q>>) /\ Sendable(role, q)
    BY TurnedIs
  <2>2. PICK r \in Roles : GeminiMessage(Message(role, <<q>>)) = Message(r, <<GeminiPart(q)>>)
    BY GeminiOne
  <2>3. Message(r, <<GeminiPart(q)>>) \in MessageSet(Data)
    BY GeminiPartIs, OnePart
  <2>4. F[m] = GeminiMessage(m)
    BY DEF GeminiTurned
  <2> HIDE DEF F
  <2> QED
    BY <2>1, <2>2, <2>3, <2>4
<1>2. \A x \in Seq(Turned(Data)) :
        /\ MapFlat(f, x) = [i \in DOMAIN x |-> F[x[i]]]
        /\ IsMap(f, Turned(Data), MessageSet(Data))
  <2> DEFINE e == [m \in Turned(Data) |-> <<F[m]>>]
  <2>1. f = e
    BY DEF GeminiMap
  <2> HIDE DEF F, f
  <2>2. \A x \in Seq(Turned(Data)) :
          /\ MapFlat(e, x) = [i \in DOMAIN x |-> F[x[i]]]
          /\ IsMap(e, Turned(Data), MessageSet(Data))
    BY <1>1, MapSingles
  <2> HIDE DEF e
  <2> QED
    BY <2>1, <2>2, Zenon
<1>3. IsMap(f, Turned(Data), MessageSet(Data))
  <2> HIDE DEF F, f
  <2> QED
    BY <1>2, EmptySeq
<1>4. ASSUME NEW h \in Seq(Held(Data))
      PROVE  Sent("gemini", h) = Said(Spoken(MapFlat(f, Spoken(AntMessages(h)))))
  <2> DEFINE g == AntMessages(h)
             x == Spoken(g)
             t == TurnedMap(Data)
  <2>1. x = MapFlat(t, h) /\ IsMap(t, Held(Data), Turned(Data))
    BY AntSpoken
  <2>2. x \in Seq(Turned(Data))
    <3> HIDE DEF t, x
    <3> QED
      BY <2>1, MapType
  <2>3. GeminiRequest(g).messages = [i \in DOMAIN x |-> GeminiMessage(x[i])]
    BY DEF GeminiRequest
  <2>4. \A m \in Turned(Data) : F[m] = GeminiMessage(m)
    BY DEF GeminiTurned
  <2> HIDE DEF x, g, F, f, t
  <2>5. \A i \in DOMAIN x : x[i] \in Turned(Data)
    BY <2>2, LenProperties, ElementOfSeq
  <2>6. [i \in DOMAIN x |-> GeminiMessage(x[i])] = [i \in DOMAIN x |-> F[x[i]]]
    BY <2>4, <2>5
  <2>7. MapFlat(f, x) = [i \in DOMAIN x |-> F[x[i]]]
    BY <1>2, <2>2
  <2>8. RequestOf("gemini", g) = GeminiRequest(g)
    BY DEF RequestOf
  <2>9. RequestOf("gemini", g).messages = MapFlat(f, x)
    BY <2>3, <2>6, <2>7, <2>8
  <2> QED
    BY <2>9 DEF Sent, g, x
<1>5. ASSUME NEW role \in {"user", "assistant"}, NEW p \in PartSet(Data), NEW q \in PartSet(Data),
             TurnsTo(role, p, q)
      PROVE  Tells(Data, MapFlat(s, f[Message(role, <<q>>)]), role, p)
  <2> DEFINE n == Message(role, <<q>>)
             w == GeminiPart(q)
  <2>1. n \in Turned(Data)
    BY <1>5, TurnsToSendable, TurnedRole
  <2>2. PICK r \in Roles \ {"system"} :
          Speaker(r) = Speaker(role) /\ GeminiMessage(n) = Message(r, <<w>>)
    BY GeminiOne
  <2>3. f[n] = <<Message(r, <<w>>)>>
    BY <2>1, <2>2 DEF GeminiMap, GeminiTurned
  <2>4. /\ w \in PartSet(Data)
        /\ q.kind \notin {"redacted", "tool_result"} => w = q
        /\ q.kind = "redacted" => Silent(w)
        /\ q.kind = "tool_result" => Result(w, q)
    BY GeminiPartIs
  <2> HIDE DEF w, f, s, n
  <2>5. MapFlat(s, <<Message(r, <<w>>)>>) = <<SaidAs(r, w)>>
    BY <2>4, SaidOne DEF s
  <2>6. SaidAs(r, w) = SaidAs(role, w)
    BY <2>2 DEF SaidAs
  <2>7. \/ p.kind \in {"text", "tool_use"} /\ w = p
        \/ p.kind = "tool_result" /\ Result(w, p)
        \/ p.kind \in {"attachment", "thinking", "redacted"} /\ Silent(w)
    BY <1>5, <2>4 DEF TurnsTo, Silent
  <2>8. Tells(Data, <<SaidAs(role, w)>>, role, p)
    BY <2>4, <2>7, TellsPiece
  <2>9. Tells(Data, MapFlat(s, f[n]), role, p)
    BY <2>3, <2>5, <2>6, <2>8, Zenon
  <2> QED
    BY <2>9 DEF n
<1> HIDE DEF f
<1>6. Turns(Data, "gemini", f)
  BY <1>3, <1>4, <1>5 DEF Turns
<1> QED
  BY <1>6 DEF f

-----------------------------------------------------------------------------
\* Claude: messages of one role in a row are joined.

JoinUpto(messages, n, a) ==
  a[0] = <<>> /\ \A k \in 1..n : a[k] = JoinRole(a[k - 1], messages[k])

LEMMA JoinedDef ==
  ASSUME NEW x, Len(x) \in Nat
  PROVE  \E a : JoinUpto(x, Len(x), a) /\ Joined(x) = a[Len(x)]
<1> DEFINE Step(g, k) == IF k = 0 THEN <<>> ELSE JoinRole(g[k - 1], x[k])
           Is(g, n) == g = [k \in 0..n |-> Step(g, k)]
           P == [n \in Nat |-> \E g : Is(g, n)]
           upto == CHOOSE g : Is(g, Len(x))
<1>1. P[0]
  <2>1. Is([k \in 0..0 |-> <<>>], 0)
    OBVIOUS
  <2> QED
    BY <2>1
<1>2. ASSUME NEW n \in Nat, P[n]
      PROVE  P[n + 1]
  <2>1. PICK g : Is(g, n)
    BY <1>2
  <2> DEFINE h == [k \in 0..(n + 1) |-> IF k = n + 1 THEN Step(g, n + 1) ELSE g[k]]
  <2>2. \A k \in 0..n : h[k] = g[k]
    OBVIOUS
  <2>3. ASSUME NEW k \in 0..(n + 1)
        PROVE  h[k] = Step(h, k)
    <3>1. CASE k = n + 1
      <4>1. k # 0 /\ k - 1 = n /\ n \in 0..n
        BY <3>1
      <4> QED
        BY <3>1, <4>1, <2>2
    <3>2. CASE k \in 0..n
      <4>1. k = 0 \/ k - 1 \in 0..n
        BY <3>2
      <4>2. g[k] = Step(g, k)
        BY <3>2, <2>1
      <4> QED
        BY <3>2, <4>1, <4>2, <2>2
    <3> QED
      BY <3>1, <3>2
  <2>4. Is(h, n + 1)
    BY <2>3
  <2> HIDE DEF h, Is
  <2> QED
    BY <2>4
<1>3. \A n \in Nat : P[n]
  <2> HIDE DEF Is
  <2>1. P \in [Nat -> BOOLEAN]
    OBVIOUS
  <2> HIDE DEF P
  <2> QED
    BY <1>1, <1>2, <2>1, Induction
<1>4. Is(upto, Len(x))
  <2>1. \E g : Is(g, Len(x))
    BY <1>3
  <2> HIDE DEF Is
  <2> QED
    BY <2>1
<1>5. Joined(x) = upto[Len(x)]
  BY DEF Joined
<1> HIDE DEF upto
<1>6. \A k \in 0..Len(x) : upto[k] = Step(upto, k)
  <2> HIDE DEF Step
  <2> QED
    BY <1>4
<1>7. 0 \in 0..Len(x) /\ \A k \in 1..Len(x) : k \in 0..Len(x) /\ k # 0
  OBVIOUS
<1>8. upto[0] = <<>> /\ \A k \in 1..Len(x) : upto[k] = JoinRole(upto[k - 1], x[k])
  BY <1>6, <1>7
<1> QED
  BY <1>5, <1>8 DEF JoinUpto

LEMMA JoinSame ==
  ASSUME NEW x, NEW y, NEW n \in Nat, \A k \in 1..n : x[k] = y[k],
         NEW a, JoinUpto(x, n, a), NEW b, JoinUpto(y, n, b)
  PROVE  a[n] = b[n]
<1> DEFINE P == [k \in Nat |-> k <= n => a[k] = b[k]]
<1>1. P[0]
  <2>1. a[0] = b[0] /\ 0 \in Nat
    BY DEF JoinUpto
  <2> QED
    BY <2>1, Zenon
<1>2. ASSUME NEW k \in Nat, P[k]
      PROVE  P[k + 1]
  <2>1. k <= n => a[k] = b[k]
    BY <1>2
  <2>2. ASSUME k + 1 <= n
        PROVE  a[k + 1] = b[k + 1]
    <3> DEFINE j == k + 1
    <3>1. j \in 1..n /\ j - 1 = k /\ k <= n
      BY <2>2
    <3> HIDE DEF j
    <3>2. a[j] = JoinRole(a[j - 1], x[j]) /\ b[j] = JoinRole(b[j - 1], y[j]) /\ x[j] = y[j]
      BY <3>1 DEF JoinUpto
    <3>3. a[k] = b[k]
      BY <2>1, <3>1
    <3>4. a[j] = b[j]
      BY <3>1, <3>2, <3>3
    <3> QED
      BY <3>4 DEF j
  <2>3. k + 1 \in Nat
    OBVIOUS
  <2> QED
    BY <2>2, <2>3, Zenon
<1>3. P \in [Nat -> BOOLEAN]
  OBVIOUS
<1> HIDE DEF P
<1>4. P[n]
  BY <1>1, <1>2, <1>3, Induction
<1>5. P[n] <=> (n <= n => a[n] = b[n])
  BY Zenon DEF P
<1>6. n <= n
  OBVIOUS
<1> QED
  BY <1>4, <1>5, <1>6, Zenon

LEMMA JoinedEmpty == Joined(<<>>) = <<>>
<1>1. Len(<<>>) = 0 /\ Len(<<>>) \in Nat
  OBVIOUS
<1>2. PICK a : JoinUpto(<<>>, Len(<<>>), a) /\ Joined(<<>>) = a[Len(<<>>)]
  BY <1>1, JoinedDef
<1> QED
  BY <1>1, <1>2 DEF JoinUpto

LEMMA JoinedAppend ==
  ASSUME NEW M, NEW x \in Seq(M), NEW m \in M
  PROVE  Joined(Append(x, m)) = JoinRole(Joined(x), m)
<1> DEFINE n == Len(x)
           y == Append(x, m)
           k == n + 1
<1>1. n \in Nat /\ Len(y) = k /\ y[k] = m /\ \A i \in 1..n : y[i] = x[i]
  BY LenProperties, AppendProperties
<1>2. k \in Nat /\ k - 1 = n /\ k \in 1..k /\ \A i \in 1..n : i \in 1..k
  BY <1>1
<1> HIDE DEF y, k
<1>3. PICK a : JoinUpto(y, k, a) /\ Joined(y) = a[k]
  BY <1>1, <1>2, JoinedDef
<1>4. PICK b : JoinUpto(x, n, b) /\ Joined(x) = b[n]
  BY <1>1, JoinedDef
<1>5. JoinUpto(y, n, a) /\ a[k] = JoinRole(a[n], y[k])
  BY <1>2, <1>3 DEF JoinUpto
<1>6. a[n] = b[n]
  <2> HIDE DEF n
  <2> QED
    BY <1>1, <1>4, <1>5, JoinSame
<1> QED
  BY <1>1, <1>3, <1>4, <1>5, <1>6 DEF y

\* The messages that are not of the system.
Others(Data) == {m \in MessageSet(Data) : ~IsSystem(m)}

LEMMA SaidInCat ==
  ASSUME NEW Data, NEW role \in Roles, NEW a \in Seq(PartSet(Data)), NEW b \in Seq(PartSet(Data))
  PROVE  SaidIn(Message(role, a \o b)) = SaidIn(Message(role, a)) \o SaidIn(Message(role, b))
<1> DEFINE c == a \o b
           u == SaidIn(Message(role, a))
           v == SaidIn(Message(role, b))
           w == SaidIn(Message(role, c))
<1>1. \A x \in Seq(PartSet(Data)) :
        /\ SaidIn(Message(role, x)) = [j \in 1..Len(x) |-> SaidAs(role, x[j])]
        /\ SaidIn(Message(role, x)) \in Seq(SaidSet(Data))
        /\ Len(SaidIn(Message(role, x))) = Len(x) /\ Len(x) \in Nat
  <2> SUFFICES ASSUME NEW x \in Seq(PartSet(Data))
               PROVE  /\ SaidIn(Message(role, x)) = [j \in 1..Len(x) |-> SaidAs(role, x[j])]
                      /\ SaidIn(Message(role, x)) \in Seq(SaidSet(Data))
                      /\ Len(SaidIn(Message(role, x))) = Len(x) /\ Len(x) \in Nat
    OBVIOUS
  <2>1. /\ Message(role, x) \in MessageSet(Data) /\ Message(role, x).parts = x
        /\ Message(role, x).role = role
    BY DEF Message, MessageSet
  <2>2. DOMAIN x = 1..Len(x) /\ Len(x) \in Nat
    BY LenProperties
  <2> DEFINE m == Message(role, x)
  <2> HIDE DEF m
  <2>3. SaidIn(m) \in Seq(SaidSet(Data))
    BY <2>1, SaidInType DEF m
  <2>4. SaidIn(m) = [j \in 1..Len(x) |-> SaidAs(role, x[j])]
    BY <2>1, <2>2 DEF SaidIn, SaidAs, m
  <2>5. Len(SaidIn(m)) = Len(x)
    BY <2>2, <2>3, <2>4, LenProperties
  <2> QED
    BY <2>2, <2>3, <2>4, <2>5 DEF m
<1>2. /\ c \in Seq(PartSet(Data)) /\ Len(c) = Len(a) + Len(b)
      /\ \A i \in 1..Len(a) + Len(b) : c[i] = IF i <= Len(a) THEN a[i] ELSE b[i - Len(a)]
  BY ConcatProperties
<1> HIDE DEF c
<1>3. /\ u = [j \in 1..Len(a) |-> SaidAs(role, a[j])] /\ u \in Seq(SaidSet(Data)) /\ Len(u) = Len(a)
      /\ v = [j \in 1..Len(b) |-> SaidAs(role, b[j])] /\ v \in Seq(SaidSet(Data)) /\ Len(v) = Len(b)
      /\ w = [j \in 1..Len(c) |-> SaidAs(role, c[j])] /\ w \in Seq(SaidSet(Data)) /\ Len(w) = Len(c)
      /\ Len(a) \in Nat /\ Len(b) \in Nat
  BY <1>1, <1>2
<1> HIDE DEF u, v, w
<1>4. /\ u \o v \in Seq(SaidSet(Data)) /\ Len(u \o v) = Len(u) + Len(v)
      /\ \A i \in 1..Len(u) + Len(v) : (u \o v)[i] = IF i <= Len(u) THEN u[i] ELSE v[i - Len(u)]
  BY <1>3, ConcatProperties
<1>5. ASSUME NEW i \in 1..Len(w)
      PROVE  w[i] = (u \o v)[i]
  <2>1. i \in 1..Len(a) + Len(b) /\ w[i] = SaidAs(role, c[i])
    BY <1>2, <1>3
  <2>2. CASE i <= Len(a)
    <3>1. c[i] = a[i] /\ (u \o v)[i] = u[i] /\ i \in 1..Len(a)
      BY <1>2, <1>3, <1>4, <2>1, <2>2
    <3> QED
      BY <1>3, <2>1, <3>1
  <2>3. CASE ~(i <= Len(a))
    <3>1. c[i] = b[i - Len(a)] /\ (u \o v)[i] = v[i - Len(a)] /\ i - Len(a) \in 1..Len(b)
      BY <1>2, <1>3, <1>4, <2>1, <2>3
    <3> QED
      BY <1>3, <2>1, <3>1
  <2> QED
    BY <2>2, <2>3
<1> DEFINE z == u \o v
<1>6. z \in Seq(SaidSet(Data)) /\ Len(z) = Len(w) /\ \A i \in 1..Len(w) : w[i] = z[i]
  BY <1>2, <1>3, <1>4, <1>5
<1> HIDE DEF z
<1>7. w = z
  BY <1>3, <1>6, SeqEqual
<1> QED
  BY <1>7 DEF u, v, w, c, z

\* Joining does not change what is said.
LEMMA JoinRoleSaid ==
  ASSUME NEW Data, NEW j \in Seq(Others(Data)), NEW m \in Others(Data)
  PROVE  /\ JoinRole(j, m) \in Seq(Others(Data))
         /\ MapFlat(SaidMap(Data), JoinRole(j, m)) = MapFlat(SaidMap(Data), j) \o SaidMap(Data)[m]
<1> DEFINE M == MessageSet(Data)
           s == SaidMap(Data)
<1>1. IsMap(s, M, SaidSet(Data)) /\ Others(Data) \subseteq M
  BY SaidSpoken, EmptySeq DEF Others
<1>2. \A x \in Seq(Others(Data)) : x \in Seq(M)
  BY <1>1, SeqMonotonic
<1>3. CASE ~(j # <<>> /\ Last(j).role = m.role)
  <2>1. JoinRole(j, m) = Append(j, m)
    BY <1>3 DEF JoinRole
  <2>2. Append(j, m) \in Seq(Others(Data))
    BY AppendProperties
  <2> HIDE DEF s, M
  <2>3. MapFlat(s, Append(j, m)) = MapFlat(s, j) \o s[m]
    BY <1>1, <1>2, MapAppend
  <2> QED
    BY <2>1, <2>2, <2>3 DEF s
<1>4. CASE j # <<>> /\ Last(j).role = m.role
  <2>1. PICK f \in Seq(Others(Data)), l \in Others(Data) : j = Append(f, l)
    BY <1>4, SequenceEmptyOrAppend
  <2>2. /\ Len(j) = Len(f) + 1 /\ Len(f) \in Nat /\ j[Len(f) + 1] = l
        /\ \A i \in 1..Len(f) : j[i] = f[i]
    BY <2>1, LenProperties, AppendProperties
  <2>3. Last(j) = l /\ l.role = m.role
    BY <1>4, <2>2 DEF Last
  <2>4. /\ l \in M /\ m \in M /\ l.role \in Roles /\ l.parts \in Seq(PartSet(Data))
        /\ m.parts \in Seq(PartSet(Data))
    BY <1>1 DEF MessageSet
  <2>5. l = Message(l.role, l.parts) /\ m = Message(l.role, m.parts)
    BY <2>3, <2>4 DEF MessageSet, Message
  <2> DEFINE n == Message(l.role, l.parts \o m.parts)
  <2>6. n \in M /\ n.role = l.role
    <3>1. l.parts \o m.parts \in Seq(PartSet(Data))
      BY <2>4, ConcatProperties
    <3> QED
      BY <2>4, <3>1 DEF Message, MessageSet
  <2>7. n \in Others(Data) /\ ~IsSystem(n) /\ ~IsSystem(l) /\ ~IsSystem(m)
    <3>1. ~IsSystem(l) /\ ~IsSystem(m)
      BY DEF Others
    <3> HIDE DEF n
    <3> QED
      BY <2>6, <3>1 DEF Others, IsSystem
  <2>8. s[n] = s[l] \o s[m]
    <3>1. s[n] = SaidIn(n) /\ s[l] = SaidIn(l) /\ s[m] = SaidIn(m)
      <4> HIDE DEF n
      <4> QED
        BY <2>4, <2>6, <2>7 DEF SaidMap
    <3>2. SaidIn(n) = SaidIn(Message(l.role, l.parts)) \o SaidIn(Message(l.role, m.parts))
      BY <2>4, SaidInCat
    <3> HIDE DEF s, n
    <3> QED
      BY <2>5, <3>1, <3>2, Zenon
  <2>9. JoinRole(j, m) = Append(f, n)
    <3> DEFINE k == [j EXCEPT ![Len(j)].parts = @ \o m.parts]
               g == Append(f, n)
    <3>1. JoinRole(j, m) = k
      BY <1>4 DEF JoinRole
    <3>2. j \in Seq(Others(Data)) /\ DOMAIN j = 1..Len(j) /\ Len(j) \in 1..Len(j)
      BY <2>2, LenProperties
    <3>3. [l EXCEPT !.parts = @ \o m.parts] = n
      <4> DEFINE x == l.parts \o m.parts
      <4> HIDE DEF x, k, g, M, s
      <4>1. [l EXCEPT !.parts = x] = Message(l.role, x)
        BY <2>5 DEF Message
      <4> QED
        BY <4>1 DEF x
    <3>4. k = [j EXCEPT ![Len(j)] = n]
      BY <2>2, <3>3
    <3>5. /\ k \in Seq(Others(Data)) /\ Len(k) = Len(j) /\ k[Len(j)] = n
          /\ \A i \in 1..Len(f) : k[i] = j[i]
      <4> HIDE DEF n, k
      <4> QED
        BY <2>2, <2>7, <3>2, <3>4, ExceptSeq
    <3>6. /\ g \in Seq(Others(Data)) /\ Len(g) = Len(f) + 1 /\ g[Len(f) + 1] = n
          /\ \A i \in 1..Len(f) : g[i] = f[i]
      <4> HIDE DEF n
      <4> QED
        BY <2>7, AppendProperties
    <3> HIDE DEF k, g, n
    <3>7. \A i \in 1..Len(k) : i = Len(f) + 1 \/ i \in 1..Len(f)
      BY <2>2, <3>5
    <3>8. \A i \in 1..Len(k) : k[i] = g[i]
      BY <2>2, <3>5, <3>6, <3>7
    <3>9. k = g
      BY <2>2, <3>5, <3>6, <3>8, SeqEqual
    <3> QED
      BY <3>1, <3>9 DEF g
  <2>10. Append(f, n) \in Seq(Others(Data))
    <3> HIDE DEF n
    <3> QED
      BY <2>7, AppendProperties
  <2> HIDE DEF s, n, M
  <2>11. MapFlat(s, Append(f, n)) = MapFlat(s, f) \o s[n]
    BY <1>1, <1>2, <2>6, MapAppend
  <2>12. MapFlat(s, Append(f, l)) = MapFlat(s, f) \o s[l]
    BY <1>1, <1>2, <2>4, MapAppend
  <2>13. MapFlat(s, f) \o (s[l] \o s[m]) = (MapFlat(s, f) \o s[l]) \o s[m]
    <3> DEFINE a == MapFlat(s, f)
               b == s[l]
               c == s[m]
    <3>1. f \in Seq(M)
      BY <1>2
    <3>2. a \in Seq(SaidSet(Data)) /\ b \in Seq(SaidSet(Data)) /\ c \in Seq(SaidSet(Data))
      BY <1>1, <2>4, <3>1, MapType DEF IsMap
    <3> HIDE DEF a, b, c
    <3>3. (a \o b) \o c = a \o (b \o c)
      BY <3>2, ConcatAssociative
    <3> QED
      BY <3>3 DEF a, b, c
  <2>14. MapFlat(s, JoinRole(j, m)) = MapFlat(s, j) \o s[m]
    BY <2>1, <2>8, <2>9, <2>11, <2>12, <2>13, Zenon
  <2> QED
    BY <2>9, <2>10, <2>14 DEF s
<1> QED
  BY <1>3, <1>4

LEMMA JoinedSaid ==
  ASSUME NEW Data, NEW h \in Seq(Others(Data))
  PROVE  /\ Joined(h) \in Seq(Others(Data))
         /\ MapFlat(SaidMap(Data), Joined(h)) = MapFlat(SaidMap(Data), h)
<1> DEFINE s == SaidMap(Data)
           M == MessageSet(Data)
           Q(x) == Joined(x) \in Seq(Others(Data)) /\ MapFlat(s, Joined(x)) = MapFlat(s, x)
           P == [x \in Seq(Others(Data)) |-> Q(x)]
<1>0. IsMap(s, M, SaidSet(Data)) /\ Others(Data) \subseteq M
  BY SaidSpoken, EmptySeq DEF Others
<1>1. P[<<>>]
  <2>1. Q(<<>>) /\ <<>> \in Seq(Others(Data))
    BY JoinedEmpty, EmptySeq
  <2> HIDE DEF Q
  <2> QED
    BY <2>1, Zenon
<1>2. ASSUME NEW x \in Seq(Others(Data)), NEW e \in Others(Data), P[x]
      PROVE  P[Append(x, e)]
  <2> DEFINE j == Joined(x)
  <2>1. Q(x)
    <3> HIDE DEF Q
    <3> QED
      BY <1>2
  <2>2. j \in Seq(Others(Data)) /\ MapFlat(s, j) = MapFlat(s, x)
    BY <2>1
  <2> HIDE DEF j
  <2>3. JoinRole(j, e) \in Seq(Others(Data)) /\ MapFlat(s, JoinRole(j, e)) = MapFlat(s, j) \o s[e]
    BY <2>2, JoinRoleSaid
  <2>4. Joined(Append(x, e)) = JoinRole(j, e)
    BY JoinedAppend DEF j
  <2>5. MapFlat(s, Append(x, e)) = MapFlat(s, x) \o s[e]
    <3> HIDE DEF s, M
    <3>1. x \in Seq(M) /\ e \in M
      BY <1>0, SeqMonotonic
    <3> QED
      BY <1>0, <3>1, MapAppend
  <2> HIDE DEF s
  <2>6. MapFlat(s, Joined(Append(x, e))) = MapFlat(s, Append(x, e))
    BY <2>2, <2>3, <2>4, <2>5, Zenon
  <2>7. Joined(Append(x, e)) \in Seq(Others(Data))
    BY <2>3, <2>4, Zenon
  <2>8. Append(x, e) \in Seq(Others(Data))
    BY AppendProperties
  <2> DEFINE y == Append(x, e)
  <2> HIDE DEF y
  <2>9. Q(y)
    BY <2>6, <2>7 DEF y
  <2> HIDE DEF Q
  <2> QED
    BY <2>8, <2>9 DEF y
<1>3. P \in [Seq(Others(Data)) -> BOOLEAN]
  OBVIOUS
<1> HIDE DEF P
<1>4. P[h]
  BY <1>1, <1>2, <1>3, SeqInduction
<1>5. Q(h)
  <2> HIDE DEF Q
  <2> QED
    BY <1>4 DEF P
<1> QED
  BY <1>5

ClaudeTurned(Data) == [m \in Turned(Data) |-> m]
ClaudeMap(Data) == [m \in Turned(Data) |-> <<ClaudeTurned(Data)[m]>>]

LEMMA ClaudeMapIs ==
  ASSUME NEW Data, NEW x \in Seq(Turned(Data))
  PROVE  MapFlat(ClaudeMap(Data), x) = x /\ IsMap(ClaudeMap(Data), Turned(Data), MessageSet(Data))
<1> DEFINE F == ClaudeTurned(Data)
           e == [m \in Turned(Data) |-> <<F[m]>>]
<1>1. \A m \in Turned(Data) : F[m] = m /\ F[m] \in MessageSet(Data)
  BY HeldMessages DEF ClaudeTurned
<1>2. e = ClaudeMap(Data)
  BY DEF ClaudeMap
<1> HIDE DEF F
<1>3. /\ MapFlat(e, x) = [i \in DOMAIN x |-> F[x[i]]]
      /\ IsMap(e, Turned(Data), MessageSet(Data))
  BY <1>1, MapSingles
<1>4. [i \in DOMAIN x |-> F[x[i]]] = x
  <2>1. x = [i \in 1..Len(x) |-> x[i]] /\ DOMAIN x = 1..Len(x)
    BY LenProperties
  <2>2. \A i \in 1..Len(x) : F[x[i]] = x[i]
    BY <1>1, ElementOfSeq
  <2> QED
    BY <2>1, <2>2
<1> HIDE DEF e
<1> QED
  BY <1>2, <1>3, <1>4

LEMMA TurnedOthers ==
  ASSUME NEW Data
  PROVE  Turned(Data) \subseteq Others(Data)
<1> SUFFICES ASSUME NEW m \in Turned(Data)
             PROVE  m \in Others(Data)
  OBVIOUS
<1>1. m \in MessageSet(Data) /\ m.role \in {"user", "assistant"}
  BY DEF Turned, One
<1> QED
  BY <1>1 DEF Others, IsSystem

LEMMA ClaudeTurns ==
  ASSUME NEW Data, Fit(Data)
  PROVE  Turns(Data, "claude", ClaudeMap(Data))
<1> DEFINE f == ClaudeMap(Data)
           s == SaidMap(Data)
<1>1. IsMap(f, Turned(Data), MessageSet(Data))
  BY ClaudeMapIs, EmptySeq
<1>2. ASSUME NEW h \in Seq(Held(Data))
      PROVE  Sent("claude", h) = Said(Spoken(MapFlat(f, Spoken(AntMessages(h)))))
  <2> DEFINE g == AntMessages(h)
             x == Spoken(g)
             t == TurnedMap(Data)
  <2>1. x = MapFlat(t, h) /\ IsMap(t, Held(Data), Turned(Data))
    BY AntSpoken
  <2>2. x \in Seq(Turned(Data))
    <3> HIDE DEF t, x
    <3> QED
      BY <2>1, MapType
  <2>3. ClaudeRequest(g).messages = Joined(x)
    BY DEF ClaudeRequest
  <2>4. RequestOf("claude", g) = ClaudeRequest(g)
    BY DEF RequestOf
  <2> HIDE DEF x, g, f, t
  <2>5. x \in Seq(Others(Data)) /\ Others(Data) \subseteq MessageSet(Data)
    BY <2>2, TurnedOthers, SeqMonotonic DEF Others
  <2>6. Joined(x) \in Seq(Others(Data)) /\ MapFlat(s, Joined(x)) = MapFlat(s, x)
    BY <2>5, JoinedSaid
  <2> DEFINE j == Joined(x)
  <2>7. j \in Seq(MessageSet(Data)) /\ x \in Seq(MessageSet(Data))
    BY <2>5, <2>6, SeqMonotonic
  <2> HIDE DEF j
  <2>8. Said(Spoken(j)) = MapFlat(s, j) /\ Said(Spoken(x)) = MapFlat(s, x)
    BY <2>7, SaidSpoken
  <2>9. MapFlat(f, x) = x
    BY <2>2, ClaudeMapIs DEF f
  <2> HIDE DEF s
  <2>10. Sent("claude", h) = Said(Spoken(j))
    BY <2>3, <2>4 DEF Sent, g, j
  <2>11. Sent("claude", h) = Said(Spoken(MapFlat(f, x)))
    BY <2>6, <2>8, <2>9, <2>10, Zenon DEF j
  <2> QED
    BY <2>11 DEF x, g
<1>3. ASSUME NEW role \in {"user", "assistant"}, NEW p \in PartSet(Data), NEW q \in PartSet(Data),
             TurnsTo(role, p, q)
      PROVE  Tells(Data, MapFlat(s, f[Message(role, <<q>>)]), role, p)
  <2> DEFINE n == Message(role, <<q>>)
  <2>1. n \in Turned(Data)
    BY <1>3, TurnsToSendable, TurnedRole
  <2>2. f[n] = <<n>>
    BY <2>1 DEF ClaudeMap, ClaudeTurned
  <2>3. role \in Roles \ {"system"}
    BY DEF Roles
  <2>4. MapFlat(s, <<n>>) = <<SaidAs(role, q)>>
    BY <2>3, SaidOne
  <2>5. \/ p.kind \in {"text", "tool_use"} /\ q = p
        \/ p.kind = "tool_result" /\ Result(q, p)
        \/ p.kind \in {"attachment", "thinking", "redacted"} /\ Silent(q)
    BY <1>3 DEF TurnsTo, Silent, Result
  <2>6. Tells(Data, <<SaidAs(role, q)>>, role, p)
    BY <2>5, TellsPiece
  <2> HIDE DEF f, s, n
  <2>7. Tells(Data, MapFlat(s, f[n]), role, p)
    BY <2>2, <2>4, <2>6, Zenon
  <2> QED
    BY <2>7 DEF n
<1> HIDE DEF f
<1>4. Turns(Data, "claude", f)
  BY <1>1, <1>2, <1>3 DEF Turns
<1> QED
  BY <1>4 DEF f

-----------------------------------------------------------------------------
\* The conversation, in what is sent.

LEMMA EachCarries ==
  ASSUME NEW Data, Fit(Data), NEW service \in {"chat", "responses", "gemini", "claude"}
  PROVE  \E k : Carries(Data, service, k)
<1>1. \E k : Carries(Data, "chat", k)
  BY ChatCarries
<1>2. \E k : Carries(Data, "responses", k)
  BY ResponsesTurns, TurnsCarries
<1>3. \E k : Carries(Data, "gemini", k)
  BY GeminiTurns, TurnsCarries
<1>4. \E k : Carries(Data, "claude", k)
  BY ClaudeTurns, TurnsCarries
<1> QED
  BY <1>1, <1>2, <1>3, <1>4

Uttered(x) == <<x.by, x.part.kind, x.part.id, WithoutImages(x.part.body)>>
UtteranceMap(Data) == [x \in SaidSet(Data) |-> Utterance(x)]
UtteredSet(Data) == {Uttered(x) : x \in SaidSet(Data)}

LEMMA UtteranceType ==
  ASSUME NEW Data
  PROVE  IsMap(UtteranceMap(Data), SaidSet(Data), UtteredSet(Data))
<1>1. ASSUME NEW x \in SaidSet(Data)
      PROVE  Utterance(x) \in Seq(UtteredSet(Data))
  <2> DEFINE u == Uttered(x)
  <2>1. u \in UtteredSet(Data)
    BY DEF UtteredSet
  <2>2. Utterance(x)
          = Kept(u, x.part.kind \in {"text", "tool_use", "tool_result"} /\ ~IsNote(x.part))
    BY DEF Utterance, Uttered
  <2> HIDE DEF u
  <2>3. <<u>> \in Seq(UtteredSet(Data)) /\ <<>> \in Seq(UtteredSet(Data))
    BY <2>1
  <2>4. Utterance(x) = <<u>> \/ Utterance(x) = <<>>
    BY <2>2 DEF Kept
  <2> QED
    BY <2>3, <2>4, Zenon
<1> QED
  BY <1>1 DEF UtteranceMap, IsMap

LEMMA UtteranceFlat ==
  ASSUME NEW Data, NEW messages, Said(messages) \in Seq(SaidSet(Data))
  PROVE  Conversation(messages) = MapFlat(UtteranceMap(Data), Said(messages))
<1> DEFINE s == Said(messages)
           f == UtteranceMap(Data)
<1>1. \A i \in DOMAIN s : s[i] \in SaidSet(Data)
  BY LenProperties, ElementOfSeq
<1>2. \A x \in SaidSet(Data) : f[x] = Utterance(x)
  BY DEF UtteranceMap
<1> HIDE DEF s, f
<1>3. [i \in DOMAIN s |-> Utterance(s[i])] = [i \in DOMAIN s |-> f[s[i]]]
  BY <1>1, <1>2
<1>4. Conversation(messages) = FlattenSeq([i \in DOMAIN s |-> Utterance(s[i])])
  BY DEF Conversation, s
<1> QED
  BY <1>3, <1>4 DEF MapFlat, f, s

LEMMA SilentUtterance ==
  ASSUME NEW Data, NEW role, NEW q \in PartSet(Data), Silent(q)
  PROVE  MapFlat(UtteranceMap(Data), <<SaidAs(role, q)>>) = <<>>
<1> DEFINE f == UtteranceMap(Data)
           x == SaidAs(role, q)
<1>1. IsMap(f, SaidSet(Data), UtteredSet(Data))
  BY UtteranceType
<1>2. x \in SaidSet(Data) /\ x.part = q
  BY SaidAsType DEF SaidAs
<1>3. f[x] = <<>>
  <2>1. f[x] = Utterance(x)
    BY <1>2 DEF UtteranceMap
  <2> HIDE DEF x, f
  <2> QED
    BY <1>2, <2>1 DEF Utterance, Kept, Silent
<1> HIDE DEF f, x
<1>4. MapFlat(f, <<x>>) = f[x]
  BY <1>1, <1>2, MapOne
<1> QED
  BY <1>3, <1>4 DEF f, x

LEMMA TellsSame ==
  ASSUME NEW Data, NEW said, NEW role, NEW p \in PartSet(Data), Tells(Data, said, role, p)
  PROVE  MapFlat(UtteranceMap(Data), said) = MapFlat(UtteranceMap(Data), <<SaidAs(role, p)>>)
<1> DEFINE f == UtteranceMap(Data)
           x == SaidAs(role, p)
<1>1. IsMap(f, SaidSet(Data), UtteredSet(Data))
  BY UtteranceType
<1>2. ASSUME NEW q \in PartSet(Data)
      PROVE  /\ SaidAs(role, q) \in SaidSet(Data)
             /\ MapFlat(f, <<SaidAs(role, q)>>) = Utterance(SaidAs(role, q))
  <2> DEFINE y == SaidAs(role, q)
  <2>1. y \in SaidSet(Data)
    BY SaidAsType
  <2>2. f[y] = Utterance(y)
    BY <2>1 DEF UtteranceMap
  <2> HIDE DEF f, y
  <2>3. MapFlat(f, <<y>>) = f[y]
    BY <1>1, <2>1, MapOne
  <2> QED
    BY <2>1, <2>2, <2>3 DEF y
<1>3. CASE p.kind \in {"text", "tool_use"} /\ said = <<SaidAs(role, p)>>
  BY <1>3
<1>4. ASSUME NEW q \in PartSet(Data), p.kind = "tool_result", Result(q, p)
      PROVE  MapFlat(f, <<SaidAs(role, q)>>) = MapFlat(f, <<SaidAs(role, p)>>)
  <2> DEFINE y == SaidAs(role, q)
  <2>1. /\ x.by = y.by /\ x.part = p /\ y.part = q
        /\ p.kind = "tool_result" /\ q.kind = "tool_result"
        /\ q.id = p.id /\ WithoutImages(q.body) = WithoutImages(p.body)
    BY <1>4 DEF SaidAs, Result
  <2> HIDE DEF x, y
  <2>2. ~IsNote(p) /\ ~IsNote(q)
    BY <2>1 DEF IsNote
  <2>3. Utterance(x) = Utterance(y)
    BY <2>1, <2>2 DEF Utterance, Kept
  <2> HIDE DEF f
  <2> QED
    BY <1>2, <2>3 DEF x, y
<1>5. ASSUME NEW q \in PartSet(Data), NEW i \in PartSet(Data), p.kind = "tool_result", Result(q, p),
             Silent(i), said = <<SaidAs(role, q), SaidAs(role, i)>>
      PROVE  MapFlat(f, said) = MapFlat(f, <<SaidAs(role, p)>>)
  <2> DEFINE u == SaidAs(role, q)
             v == SaidAs(role, i)
             a == <<u>>
             b == <<v>>
  <2>1. u \in SaidSet(Data) /\ v \in SaidSet(Data)
    BY <1>2
  <2>2. MapFlat(f, b) = <<>>
    BY <1>5, SilentUtterance
  <2>3. MapFlat(f, a) = MapFlat(f, <<SaidAs(role, p)>>)
    BY <1>4, <1>5
  <2>4. said = <<u, v>>
    BY <1>5
  <2> HIDE DEF u, v, f
  <2>9. a \o b = <<u, v>>
    BY TwoCat
  <2>5. a \in Seq(SaidSet(Data)) /\ b \in Seq(SaidSet(Data))
    BY <2>1
  <2> HIDE DEF a, b
  <2>6. MapFlat(f, a \o b) = MapFlat(f, a) \o MapFlat(f, b)
    BY <1>1, <2>5, MapCat
  <2>7. MapFlat(f, a) \in Seq(UtteredSet(Data))
    BY <1>1, <2>5, MapType
  <2>8. MapFlat(f, a) \o <<>> = MapFlat(f, a)
    BY <2>7, ConcatEmptySeq
  <2> QED
    BY <2>2, <2>3, <2>4, <2>6, <2>8, <2>9, Zenon
<1>6. ASSUME p.kind \in {"attachment", "thinking", "redacted"},
             \/ said = <<>>
             \/ \E q \in PartSet(Data) : Silent(q) /\ said = <<SaidAs(role, q)>>
      PROVE  MapFlat(f, said) = MapFlat(f, <<SaidAs(role, p)>>)
  <2>1. Silent(p)
    BY <1>6 DEF Silent
  <2>2. MapFlat(f, <<SaidAs(role, p)>>) = <<>>
    BY <2>1, SilentUtterance
  <2>3. MapFlat(f, <<>>) = <<>>
    BY MapEmpty
  <2>4. \A q \in PartSet(Data) : Silent(q) => MapFlat(f, <<SaidAs(role, q)>>) = <<>>
    BY SilentUtterance
  <2> HIDE DEF f, x
  <2> QED
    BY <1>6, <2>2, <2>3, <2>4, Zenon
<1> HIDE DEF f, x
<1>7. MapFlat(f, said) = MapFlat(f, <<SaidAs(role, p)>>)
  BY <1>3, <1>4, <1>5, <1>6 DEF Tells
<1> QED
  BY <1>7 DEF f

LEMMA ConversationSent ==
  ASSUME NEW Data, Fit(Data), NEW service \in {"chat", "responses", "gemini", "claude"},
         NEW h \in Seq(Held(Data))
  PROVE  Conversation(Spoken(RequestOf(service, AntMessages(h)).messages)) = Conversation(Spoken(h))
<1> DEFINE s == SaidMap(Data)
           u == UtteranceMap(Data)
           M == MessageSet(Data)
           H == Held(Data)
           x == Spoken(RequestOf(service, AntMessages(h)).messages)
           y == Spoken(h)
<1>1. PICK k : Carries(Data, service, k)
  BY EachCarries
<1>2. IsMap(k, H, SaidSet(Data)) /\ Said(x) = MapFlat(k, h)
  BY <1>1 DEF Carries, Sent
<1>3. h \in Seq(M) /\ H \subseteq M
  BY HeldMessages, SeqMonotonic
<1>4. Said(y) = MapFlat(s, h) /\ IsMap(s, M, SaidSet(Data))
  BY <1>3, SaidSpoken
<1>5. IsMap(u, SaidSet(Data), UtteredSet(Data))
  BY UtteranceType
<1> HIDE DEF x, y
<1>6. MapFlat(k, h) \in Seq(SaidSet(Data)) /\ MapFlat(s, h) \in Seq(SaidSet(Data))
  <2> HIDE DEF s, M, H
  <2>1. MapFlat(k, h) \in Seq(SaidSet(Data))
    BY <1>2, MapType DEF H
  <2>2. MapFlat(s, h) \in Seq(SaidSet(Data))
    BY <1>3, <1>4, MapType
  <2> QED
    BY <2>1, <2>2
<1>7. Conversation(x) = MapFlat(u, MapFlat(k, h)) /\ Conversation(y) = MapFlat(u, MapFlat(s, h))
  <2>1. Conversation(x) = MapFlat(u, Said(x))
    BY <1>2, <1>6, UtteranceFlat
  <2>2. Conversation(y) = MapFlat(u, Said(y))
    BY <1>4, <1>6, UtteranceFlat
  <2> HIDE DEF u, s
  <2> QED
    BY <1>2, <1>4, <2>1, <2>2
<1> DEFINE a == After(H, u, k)
           b == After(M, u, s)
<1>8. MapFlat(u, MapFlat(k, h)) = MapFlat(a, h) /\ IsMap(a, H, UtteredSet(Data))
  <2> HIDE DEF u
  <2> QED
    BY <1>2, <1>5, MapMap
<1>9. MapFlat(u, MapFlat(s, h)) = MapFlat(b, h) /\ IsMap(b, M, UtteredSet(Data))
  <2> HIDE DEF u, s
  <2> QED
    BY <1>3, <1>4, <1>5, MapMap
<1>10. ASSUME NEW m \in Held(Data)
       PROVE  a[m] = b[m]
  <2>1. a[m] = MapFlat(u, k[m]) /\ b[m] = MapFlat(u, s[m])
    BY <1>3 DEF After
  <2>2. CASE IsSystem(m)
    <3>1. k[m] = <<>> /\ s[m] = <<>>
      BY <1>1, <1>3, <2>2 DEF Carries, SaidMap
    <3> HIDE DEF a, b, u, s
    <3> QED
      BY <2>1, <3>1
  <2>3. CASE ~IsSystem(m)
    <3>1. PICK role \in {"user", "assistant"}, p \in PartSet(Data) : m = Message(role, <<p>>)
      BY <2>3, HeldOne
    <3>2. Tells(Data, k[m], role, p)
      BY <1>1, <3>1 DEF Carries
    <3>3. MapFlat(u, k[m]) = MapFlat(u, <<SaidAs(role, p)>>)
      BY <3>2, TellsSame
    <3>4. s[m] = <<SaidAs(role, p)>>
      <4>1. s[m] = SaidIn(m) /\ m.role = role /\ m.parts = <<p>>
        BY <1>3, <2>3, <3>1 DEF SaidMap, Message
      <4> HIDE DEF s
      <4> QED
        BY <4>1 DEF SaidIn, SaidAs
    <3> HIDE DEF a, b, u, s
    <3> QED
      BY <2>1, <3>3, <3>4, Zenon
  <2> QED
    BY <2>2, <2>3
<1>11. \A i \in DOMAIN h : a[h[i]] = b[h[i]]
  <2> HIDE DEF a, b, H
  <2> QED
    BY <1>10, LenProperties, ElementOfSeq DEF H
<1> HIDE DEF a, b
<1>12. MapFlat(a, h) = MapFlat(b, h)
  BY <1>11, MapSame
<1> HIDE DEF u, s, H, M
<1> QED
  BY <1>7, <1>8, <1>9, <1>12, Zenon DEF x, y

-----------------------------------------------------------------------------
\* Calls and their results, in what is sent.

LEMMA PairedCat ==
  ASSUME NEW S, NEW s \in Seq(S), NEW t \in Seq(S), Paired(s), Paired(t)
  PROVE  Paired(s \o t)
<1> DEFINE n == Len(s)
           r == s \o t
           Fits(u, i) ==
             /\ u[i].part.kind = "tool_use" =>
                  /\ i + 1 \in DOMAIN u /\ u[i + 1].part.kind = "tool_result"
                  /\ u[i + 1].part.id = u[i].part.id
             /\ u[i].part.kind = "tool_result" =>
                  /\ i - 1 \in DOMAIN u /\ u[i - 1].part.kind = "tool_use"
                  /\ u[i - 1].part.id = u[i].part.id
<1>1. \A u : Paired(u) <=> \A i \in DOMAIN u : Fits(u, i)
  BY DEF Paired
<1>2. /\ n \in Nat /\ Len(t) \in Nat /\ DOMAIN s = 1..n /\ DOMAIN t = 1..Len(t)
      /\ r \in Seq(S) /\ Len(r) = n + Len(t)
      /\ \A i \in 1..n + Len(t) : r[i] = IF i <= n THEN s[i] ELSE t[i - n]
  BY LenProperties, ConcatProperties
<1> HIDE DEF r, n
<1>3. DOMAIN r = 1..n + Len(t)
  BY <1>2, LenProperties
<1>4. ASSUME NEW i \in 1..n
      PROVE  Fits(r, i)
  <2>1. Fits(s, i)
    <3> HIDE DEF Fits
    <3> QED
      BY <1>1, <1>2
  <2>2. r[i] = s[i] /\ i \in 1..n + Len(t)
    BY <1>2
  <2>3. \A j \in 1..n : r[j] = s[j] /\ j \in 1..n + Len(t)
    BY <1>2
  <2> QED
    BY <1>2, <1>3, <2>1, <2>2, <2>3
<1>5. ASSUME NEW i \in 1..Len(t)
      PROVE  Fits(r, n + i)
  <2>1. Fits(t, i)
    <3> HIDE DEF Fits
    <3> QED
      BY <1>1, <1>2
  <2>2. ASSUME NEW j \in 1..Len(t)
        PROVE  r[n + j] = t[j] /\ n + j \in 1..n + Len(t)
    <3> DEFINE l == n + j
    <3>1. l \in 1..n + Len(t) /\ ~(l <= n) /\ l - n = j
      BY <1>2
    <3> HIDE DEF l
    <3>2. r[l] = t[l - n]
      BY <1>2, <3>1
    <3>3. r[l] = t[j]
      BY <3>1, <3>2
    <3> QED
      BY <3>1, <3>3 DEF l
  <2> DEFINE k == n + i
  <2>3. r[k] = t[i]
    BY <2>2
  <2>4. ASSUME t[i].part.kind = "tool_use"
        PROVE  /\ k + 1 \in DOMAIN r /\ r[k + 1].part.kind = "tool_result"
               /\ r[k + 1].part.id = r[k].part.id
    <3>1. /\ i + 1 \in 1..Len(t) /\ t[i + 1].part.kind = "tool_result"
          /\ t[i + 1].part.id = t[i].part.id
      BY <1>2, <2>1, <2>4
    <3>2. k + 1 = n + (i + 1)
      BY <1>2
    <3>3. r[k + 1] = t[i + 1] /\ k + 1 \in 1..n + Len(t)
      BY <2>2, <3>1, <3>2
    <3> QED
      BY <1>3, <2>3, <3>1, <3>3
  <2>5. ASSUME t[i].part.kind = "tool_result"
        PROVE  /\ k - 1 \in DOMAIN r /\ r[k - 1].part.kind = "tool_use"
               /\ r[k - 1].part.id = r[k].part.id
    <3>1. i - 1 \in 1..Len(t) /\ t[i - 1].part.kind = "tool_use" /\ t[i - 1].part.id = t[i].part.id
      BY <1>2, <2>1, <2>5
    <3>2. k - 1 = n + (i - 1)
      BY <1>2
    <3>3. r[k - 1] = t[i - 1] /\ k - 1 \in 1..n + Len(t)
      BY <2>2, <3>1, <3>2
    <3> QED
      BY <1>3, <2>3, <3>1, <3>3
  <2> HIDE DEF k
  <2>6. Fits(r, k)
    BY <2>3, <2>4, <2>5
  <2> QED
    BY <2>6 DEF k
<1>6. ASSUME NEW j \in DOMAIN r
      PROVE  Fits(r, j)
  <2>1. j \in 1..n \/ (j - n \in 1..Len(t) /\ n + (j - n) = j)
    BY <1>2, <1>3
  <2> HIDE DEF Fits
  <2> QED
    BY <1>4, <1>5, <2>1
<1>7. Paired(r)
  <2> HIDE DEF Fits
  <2> QED
    BY <1>1, <1>6
<1> QED
  BY <1>7 DEF r

PlainSaid(Data) == {x \in SaidSet(Data) : x.part.kind \notin {"tool_use", "tool_result"}}

LEMMA PairedPlain ==
  ASSUME NEW Data, NEW s \in Seq(PlainSaid(Data))
  PROVE  Paired(s)
<1>1. \A i \in DOMAIN s : s[i].part.kind \notin {"tool_use", "tool_result"}
  BY LenProperties, ElementOfSeq DEF PlainSaid
<1> QED
  BY <1>1 DEF Paired

LEMMA PairedTwo ==
  ASSUME NEW x, NEW y, x.part.kind = "tool_use", y.part.kind = "tool_result", y.part.id = x.part.id
  PROVE  Paired(<<x, y>>)
<1> DEFINE s == <<x, y>>
<1>1. DOMAIN s = {1, 2} /\ s[1] = x /\ s[2] = y
  OBVIOUS
<1> HIDE DEF s
<1>2. Paired(s)
  BY <1>1 DEF Paired
<1> QED
  BY <1>2 DEF s

LEMMA PairedThree ==
  ASSUME NEW x, NEW y, NEW z, x.part.kind = "tool_use", y.part.kind = "tool_result",
         y.part.id = x.part.id, z.part.kind \notin {"tool_use", "tool_result"}
  PROVE  Paired(<<x, y, z>>)
<1> DEFINE s == <<x, y, z>>
<1>1. DOMAIN s = {1, 2, 3} /\ s[1] = x /\ s[2] = y /\ s[3] = z
  OBVIOUS
<1> HIDE DEF s
<1>2. Paired(s)
  BY <1>1 DEF Paired
<1> QED
  BY <1>2 DEF s

Services == {"chat", "responses", "gemini", "claude"}

LEMMA SentCat ==
  ASSUME NEW Data, Fit(Data), NEW service \in Services,
         NEW h \in Seq(Held(Data)), NEW g \in Seq(Held(Data))
  PROVE  /\ Sent(service, h \o g) = Sent(service, h) \o Sent(service, g)
         /\ Sent(service, h) \in Seq(SaidSet(Data)) /\ Sent(service, g) \in Seq(SaidSet(Data))
<1>1. PICK k : Carries(Data, service, k)
  BY EachCarries DEF Services
<1>2. /\ IsMap(k, Held(Data), SaidSet(Data))
      /\ \A x \in Seq(Held(Data)) : Sent(service, x) = MapFlat(k, x)
  BY <1>1 DEF Carries
<1> DEFINE y == h \o g
<1>3. y \in Seq(Held(Data))
  BY ConcatProperties
<1>4. MapFlat(k, y) = MapFlat(k, h) \o MapFlat(k, g)
  BY <1>2, MapCat
<1> HIDE DEF y
<1>5. Sent(service, y) = Sent(service, h) \o Sent(service, g)
  BY <1>2, <1>3, <1>4
<1>6. MapFlat(k, h) \in Seq(SaidSet(Data)) /\ MapFlat(k, g) \in Seq(SaidSet(Data))
  BY <1>2, MapType
<1>7. Sent(service, h) = MapFlat(k, h) /\ Sent(service, g) = MapFlat(k, g)
  BY <1>2
<1> QED
  BY <1>5, <1>6, <1>7 DEF y

\* Messages without calls and results.
Plain(Data) ==
  Instruction(Data) \cup One(Data, "user", {"text", "attachment"})
    \cup One(Data, "assistant", {"text", "thinking", "redacted"})

LEMMA PlainHeld ==
  ASSUME NEW Data
  PROVE  Plain(Data) \subseteq Held(Data)
BY DEF Plain, Held, One

LEMMA PlainCases ==
  ASSUME NEW Data, NEW m \in Plain(Data), ~IsSystem(m)
  PROVE  \E role \in {"user", "assistant"}, p \in PartSet(Data) :
           m = Message(role, <<p>>) /\ p.kind \notin {"tool_use", "tool_result"}
<1>1. m \notin Instruction(Data)
  BY DEF Instruction, Message, IsSystem
<1> QED
  BY <1>1 DEF Plain, One

LEMMA SentPlain ==
  ASSUME NEW Data, Fit(Data), NEW service \in Services, NEW g \in Seq(Plain(Data))
  PROVE  Paired(Sent(service, g))
<1>1. PICK k : Carries(Data, service, k)
  BY EachCarries DEF Services
<1> DEFINE f == [m \in Plain(Data) |-> k[m]]
<1>2. g \in Seq(Held(Data))
  BY PlainHeld, SeqMonotonic
<1>3. Sent(service, g) = MapFlat(k, g)
  BY <1>1, <1>2 DEF Carries
<1>4. \A i \in DOMAIN g : f[g[i]] = k[g[i]]
  BY LenProperties, ElementOfSeq
<1>5. ASSUME NEW m \in Plain(Data)
      PROVE  k[m] \in Seq(PlainSaid(Data))
  <2>1. m \in Held(Data)
    BY PlainHeld
  <2>2. CASE IsSystem(m)
    <3>1. k[m] = <<>>
      BY <1>1, <2>1, <2>2 DEF Carries
    <3> QED
      BY <3>1, EmptySeq
  <2>3. CASE ~IsSystem(m)
    <3>1. PICK role \in {"user", "assistant"}, p \in PartSet(Data) :
            m = Message(role, <<p>>) /\ p.kind \notin {"tool_use", "tool_result"}
      BY <2>3, PlainCases
    <3>2. Tells(Data, k[m], role, p)
      BY <1>1, <2>1, <3>1 DEF Carries
    <3>3. ASSUME NEW q \in PartSet(Data), q.kind \notin {"tool_use", "tool_result"}
          PROVE  <<SaidAs(role, q)>> \in Seq(PlainSaid(Data))
      <4> DEFINE x == SaidAs(role, q)
      <4>1. x \in SaidSet(Data) /\ x.part = q
        BY SaidAsType DEF SaidAs
      <4> HIDE DEF x
      <4>2. x \in PlainSaid(Data)
        BY <3>3, <4>1 DEF PlainSaid
      <4>3. <<x>> \in Seq(PlainSaid(Data))
        BY <4>2
      <4> QED
        BY <4>3 DEF x
    <3>4. \A q \in PartSet(Data) : Silent(q) => q.kind \notin {"tool_use", "tool_result"}
      BY DEF Silent
    <3>5. \/ k[m] = <<>>
          \/ \E q \in PartSet(Data) :
               q.kind \notin {"tool_use", "tool_result"} /\ k[m] = <<SaidAs(role, q)>>
      BY <3>1, <3>2, <3>4 DEF Tells
    <3>6. <<>> \in Seq(PlainSaid(Data))
      BY EmptySeq
    <3> QED
      BY <3>3, <3>5, <3>6
  <2> QED
    BY <2>2, <2>3
<1>6. IsMap(f, Plain(Data), PlainSaid(Data))
  BY <1>5 DEF IsMap
<1> HIDE DEF f
<1>7. MapFlat(f, g) = MapFlat(k, g)
  BY <1>4, MapSame
<1>8. MapFlat(f, g) \in Seq(PlainSaid(Data))
  BY <1>6, MapType
<1> QED
  BY <1>3, <1>7, <1>8, PairedPlain

LEMMA SentExchange ==
  ASSUME NEW Data, Fit(Data), NEW service \in Services, NEW call \in PartSet(Data),
         call.kind = "tool_use", NEW words \in Seq(Data)
  PROVE  /\ Exchange(call, words) \in Seq(Held(Data))
         /\ Paired(Sent(service, Exchange(call, words)))
<1> DEFINE p == ToolResult(call.id, words)
           m == Message("assistant", <<call>>)
           n == Message("user", <<p>>)
           H == Held(Data)
           x == SaidAs("assistant", call)
<1>1. p \in PartSet(Data) /\ p.kind = "tool_result" /\ p.id = call.id
  BY DEF ToolResult, Part, PartSet, Fit, Kinds
<1> HIDE DEF p
<1>2. {"assistant", "user"} \subseteq Roles
  BY DEF Roles
<1>3. /\ m \in MessageSet(Data) /\ m.role = "assistant"
      /\ n \in MessageSet(Data) /\ n.role = "user"
  BY <1>1, <1>2, OnePart
<1>4. m \in Held(Data) /\ n \in Held(Data)
  <2>1. m \in One(Data, "assistant", {"text", "thinking", "redacted", "tool_use"})
    BY <1>3 DEF One
  <2>2. n \in One(Data, "user", {"text", "attachment", "tool_result"})
    BY <1>1, <1>3 DEF One
  <2> QED
    BY <2>1, <2>2 DEF Held
<1>5. PICK k : Carries(Data, service, k)
  BY EachCarries DEF Services
<1>6. /\ IsMap(k, Held(Data), SaidSet(Data))
      /\ \A g \in Seq(Held(Data)) : Sent(service, g) = MapFlat(k, g)
  BY <1>5 DEF Carries
<1>7. Tells(Data, k[m], "assistant", call) /\ Tells(Data, k[n], "user", p)
  BY <1>1, <1>4, <1>5 DEF Carries
<1> HIDE DEF m, n
<1> DEFINE a == <<m>>
           b == <<n>>
<1>8. a \in Seq(Held(Data)) /\ b \in Seq(Held(Data))
  BY <1>4
<1>9. a \o b = <<m, n>> /\ Exchange(call, words) = <<m, n>>
  BY TwoCat DEF Exchange, m, n, p
<1>10. MapFlat(k, a) = k[m] /\ MapFlat(k, b) = k[n]
  BY <1>4, <1>6, MapOne
<1> HIDE DEF a, b
<1>11. MapFlat(k, a \o b) = MapFlat(k, a) \o MapFlat(k, b)
  BY <1>6, <1>8, MapCat
<1>12. a \o b \in Seq(Held(Data))
  BY <1>8, ConcatProperties
<1>13. Exchange(call, words) = a \o b
  BY <1>9
<1>14. Sent(service, Exchange(call, words)) = k[m] \o k[n]
  BY <1>6, <1>10, <1>11, <1>12, <1>13
<1>15. k[m] = <<x>> /\ x.part = call
  BY <1>7 DEF Tells, SaidAs
<1>16. PICK q \in PartSet(Data) :
         /\ Result(q, p)
         /\ \/ k[n] = <<SaidAs("user", q)>>
            \/ \E i \in PartSet(Data) : Silent(i) /\ k[n] = <<SaidAs("user", q), SaidAs("user", i)>>
  BY <1>1, <1>7 DEF Tells
<1> DEFINE y == SaidAs("user", q)
<1>17. y.part.kind = "tool_result" /\ y.part.id = x.part.id
  BY <1>1, <1>15, <1>16 DEF Result, SaidAs
<1>18. CASE k[n] = <<y>>
  <2> HIDE DEF x, y
  <2>1. <<x>> \o <<y>> = <<x, y>>
    BY TwoCat
  <2>2. Paired(<<x, y>>)
    BY <1>15, <1>17, PairedTwo
  <2>3. Paired(Sent(service, Exchange(call, words)))
    BY <1>14, <1>15, <1>18, <2>1, <2>2, Zenon
  <2> QED
    BY <1>12, <1>13, <2>3
<1>19. ASSUME NEW i \in PartSet(Data), Silent(i), k[n] = <<y, SaidAs("user", i)>>
       PROVE  /\ Exchange(call, words) \in Seq(Held(Data))
              /\ Paired(Sent(service, Exchange(call, words)))
  <2> DEFINE z == SaidAs("user", i)
  <2>1. z.part.kind \notin {"tool_use", "tool_result"}
    BY <1>19 DEF Silent, SaidAs
  <2>2. k[n] = <<y, z>>
    BY <1>19
  <2> HIDE DEF x, y, z
  <2>3. <<x>> \o <<y, z>> = <<x, y, z>>
    BY ThreeCat
  <2>4. Paired(<<x, y, z>>)
    BY <1>15, <1>17, <2>1, PairedThree
  <2>5. Paired(Sent(service, Exchange(call, words)))
    BY <1>14, <1>15, <2>2, <2>3, <2>4, Zenon
  <2> QED
    BY <1>12, <1>13, <2>5
<1> QED
  BY <1>16, <1>18, <1>19

-----------------------------------------------------------------------------
\* The memory grows by plain messages and by exchanges.

LEMMA HeldMonotone ==
  ASSUME NEW Data, NEW More, Data \subseteq More
  PROVE  /\ PartSet(Data) \subseteq PartSet(More) /\ Held(Data) \subseteq Held(More)
         /\ Seq(Held(Data)) \subseteq Seq(Held(More))
<1>1. Seq(Data) \subseteq Seq(More)
  BY SeqMonotonic
<1>2. PartSet(Data) \subseteq PartSet(More)
  BY <1>1 DEF PartSet
<1>3. MessageSet(Data) \subseteq MessageSet(More)
  <2>1. Seq(PartSet(Data)) \subseteq Seq(PartSet(More))
    BY <1>2, SeqMonotonic
  <2> QED
    BY <2>1 DEF MessageSet
<1>4. \A role, kinds : One(Data, role, kinds) \subseteq One(More, role, kinds)
  BY <1>2, <1>3 DEF One
<1>5. Instruction(Data) \subseteq Instruction(More)
  BY <1>1, <1>3 DEF Instruction
<1>6. Held(Data) \subseteq Held(More)
  BY <1>4, <1>5 DEF Held
<1> QED
  BY <1>2, <1>6, SeqMonotonic

\* The ends of a concatenation.
LEMMA CatEnds ==
  ASSUME NEW S, NEW h \in Seq(S), NEW g \in Seq(S)
  PROVE  /\ h \o g \in Seq(S) /\ Len(h \o g) = Len(h) + Len(g)
         /\ \A n \in 0..Len(h) : SubSeq(h \o g, 1, n) = SubSeq(h, 1, n)
         /\ \A j \in 1..Len(h) + 1 :
              SubSeq(h \o g, j, Len(h) + Len(g)) = SubSeq(h, j, Len(h)) \o g
         /\ \A j \in 1..Len(g) + 1 :
              SubSeq(h \o g, Len(h) + j, Len(h) + Len(g)) = SubSeq(g, j, Len(g))
<1> DEFINE hg == h \o g
           m == Len(h)
           n == Len(g)
<1>1. /\ m \in Nat /\ n \in Nat /\ DOMAIN h = 1..m /\ DOMAIN g = 1..n
      /\ \A i \in 1..m : h[i] \in S
      /\ \A i \in 1..n : g[i] \in S
  BY LenProperties, ElementOfSeq
<1>2. /\ hg \in Seq(S) /\ Len(hg) = m + n
      /\ \A i \in 1..m + n : hg[i] = IF i <= m THEN h[i] ELSE g[i - m]
  BY ConcatProperties
<1>3. \A i \in 1..m + n : hg[i] \in S
  BY <1>2, ElementOfSeq
<1> HIDE DEF hg, m, n
<1>4. ASSUME NEW k \in 0..m
      PROVE  SubSeq(hg, 1, k) = SubSeq(h, 1, k)
  <2> DEFINE s == SubSeq(hg, 1, k)
             t == SubSeq(h, 1, k)
  <2>1. 1 \in Int /\ k \in Int /\ \A i \in 1..k : hg[i] \in S /\ h[i] \in S
    BY <1>1, <1>3
  <2>2. /\ s \in Seq(S) /\ Len(s) = IF 1 <= k THEN k - 1 + 1 ELSE 0
        /\ \A i \in 1..k - 1 + 1 : s[i] = hg[1 + i - 1]
    BY <2>1, SubSeqProperties
  <2>3. /\ t \in Seq(S) /\ Len(t) = IF 1 <= k THEN k - 1 + 1 ELSE 0
        /\ \A i \in 1..k - 1 + 1 : t[i] = h[1 + i - 1]
    BY <2>1, SubSeqProperties
  <2> HIDE DEF s, t
  <2>4. \A i \in 1..k : i \in 1..m + n /\ hg[i] = h[i]
    BY <1>1, <1>2
  <2>5. Len(s) = k /\ Len(t) = k /\ \A i \in 1..k : s[i] = t[i]
    BY <1>1, <2>2, <2>3, <2>4
  <2>6. s = t
    BY <2>2, <2>3, <2>5, SeqEqual
  <2> QED
    BY <2>6 DEF s, t
<1>5. ASSUME NEW j \in 1..m + 1
      PROVE  SubSeq(hg, j, m + n) = SubSeq(h, j, m) \o g
  <2> DEFINE s == SubSeq(hg, j, m + n)
             t == SubSeq(h, j, m)
             u == t \o g
             l == m - j + 1
  <2>1. /\ j \in Int /\ m \in Int /\ m + n \in Int /\ l \in Nat
        /\ \A i \in j..m + n : hg[i] \in S
        /\ \A i \in j..m : h[i] \in S
    BY <1>1, <1>3
  <2>2. /\ s \in Seq(S) /\ Len(s) = IF j <= m + n THEN (m + n) - j + 1 ELSE 0
        /\ \A i \in 1..(m + n) - j + 1 : s[i] = hg[j + i - 1]
    BY <2>1, SubSeqProperties
  <2>3. /\ t \in Seq(S) /\ Len(t) = IF j <= m THEN m - j + 1 ELSE 0
        /\ \A i \in 1..m - j + 1 : t[i] = h[j + i - 1]
    BY <2>1, SubSeqProperties
  <2>4. Len(t) = l /\ Len(s) = l + n
    BY <1>1, <2>1, <2>2, <2>3
  <2>5. /\ u \in Seq(S) /\ Len(u) = l + n
        /\ \A i \in 1..l + n : u[i] = IF i <= l THEN t[i] ELSE g[i - l]
    BY SMTT(20), <2>3, <2>4, ConcatProperties DEF n
  <2> HIDE DEF s, t, u
  <2>6. ASSUME NEW i \in 1..l + n
        PROVE  s[i] = u[i]
    <3>1. j + i - 1 \in 1..m + n /\ i \in 1..(m + n) - j + 1
      BY <1>1
    <3>2. s[i] = hg[j + i - 1]
      BY <2>2, <3>1
    <3>3. CASE i <= l
      <4>1. j + i - 1 <= m /\ i \in 1..m - j + 1
        BY <1>1, <3>3
      <4>2. hg[j + i - 1] = h[j + i - 1] /\ t[i] = h[j + i - 1]
        BY <1>2, <2>3, <3>1, <4>1
      <4> QED
        BY <2>5, <3>2, <3>3, <4>2
    <3>4. CASE ~(i <= l)
      <4>1. ~(j + i - 1 <= m) /\ (j + i - 1) - m = i - l
        BY <1>1, <3>4
      <4>2. hg[j + i - 1] = g[i - l]
        BY <1>2, <3>1, <4>1
      <4> QED
        BY <2>5, <3>2, <3>4, <4>2
    <3> QED
      BY <3>3, <3>4
  <2>7. s = u
    BY <2>2, <2>4, <2>5, <2>6, SeqEqual
  <2> QED
    BY <2>7 DEF s, t, u
<1>6. ASSUME NEW j \in 1..n + 1
      PROVE  SubSeq(hg, m + j, m + n) = SubSeq(g, j, n)
  <2> DEFINE s == SubSeq(hg, m + j, m + n)
             t == SubSeq(g, j, n)
             l == n - j + 1
  <2>1. /\ j \in Int /\ n \in Int /\ m + j \in Int /\ m + n \in Int /\ l \in Nat
        /\ \A i \in m + j..m + n : hg[i] \in S
        /\ \A i \in j..n : g[i] \in S
    BY <1>1, <1>3
  <2>2. /\ s \in Seq(S) /\ Len(s) = IF m + j <= m + n THEN (m + n) - (m + j) + 1 ELSE 0
        /\ \A i \in 1..(m + n) - (m + j) + 1 : s[i] = hg[(m + j) + i - 1]
    BY <2>1, SubSeqProperties
  <2>3. /\ t \in Seq(S) /\ Len(t) = IF j <= n THEN n - j + 1 ELSE 0
        /\ \A i \in 1..n - j + 1 : t[i] = g[j + i - 1]
    BY SMTT(20), <2>1, SubSeqProperties
  <2> HIDE DEF s, t
  <2>4. Len(t) = l /\ Len(s) = l /\ (m + n) - (m + j) + 1 = l
    BY <1>1, <2>1, <2>2, <2>3
  <2>5. ASSUME NEW i \in 1..l
        PROVE  s[i] = t[i]
    <3>1. /\ (m + j) + i - 1 \in 1..m + n /\ ~((m + j) + i - 1 <= m)
          /\ ((m + j) + i - 1) - m = j + i - 1
      BY <1>1
    <3>2. hg[(m + j) + i - 1] = g[j + i - 1]
      BY <1>2, <3>1
    <3> QED
      BY <2>2, <2>3, <2>4, <3>2
  <2>6. s = t
    BY <2>2, <2>3, <2>4, <2>5, SeqEqual
  <2> QED
    BY <2>6 DEF s, t
<1> QED
  BY <1>2, <1>4, <1>5, <1>6 DEF hg, m, n

\* A request may begin with message j of a memory: it is not the result of a call.
Begins(h, j) == j \in DOMAIN h => Head(h[j].parts).kind # "tool_result"

\* What is sent of the end of a memory, wherever it may begin, has every call followed by
\* its result.
EndsPaired(service, h) ==
  \A j \in 1..Len(h) + 1 : Begins(h, j) => Paired(Sent(service, SubSeq(h, j, Len(h))))

LEMMA BeginsCat ==
  ASSUME NEW S, NEW h \in Seq(S), NEW g \in Seq(S)
  PROVE  /\ \A j \in 1..Len(h) : Begins(h \o g, j) <=> Begins(h, j)
         /\ \A j \in 1..Len(g) + 1 : Begins(h \o g, Len(h) + j) <=> Begins(g, j)
<1> DEFINE hg == h \o g
<1>1. /\ Len(h) \in Nat /\ Len(g) \in Nat /\ DOMAIN h = 1..Len(h) /\ DOMAIN g = 1..Len(g)
      /\ hg \in Seq(S) /\ Len(hg) = Len(h) + Len(g)
      /\ \A i \in 1..Len(h) + Len(g) : hg[i] = IF i <= Len(h) THEN h[i] ELSE g[i - Len(h)]
  BY LenProperties, ConcatProperties
<1> HIDE DEF hg
<1>2. DOMAIN hg = 1..Len(h) + Len(g)
  BY <1>1, LenProperties
<1>3. ASSUME NEW j \in 1..Len(h)
      PROVE  Begins(hg, j) <=> Begins(h, j)
  <2>1. j \in DOMAIN hg /\ j \in DOMAIN h /\ hg[j] = h[j]
    BY <1>1, <1>2
  <2> QED
    BY <2>1 DEF Begins
<1>4. ASSUME NEW j \in 1..Len(g) + 1
      PROVE  Begins(hg, Len(h) + j) <=> Begins(g, j)
  <2>1. CASE j \in 1..Len(g)
    <3>1. /\ Len(h) + j \in 1..Len(h) + Len(g) /\ ~(Len(h) + j <= Len(h))
          /\ (Len(h) + j) - Len(h) = j
      BY <1>1, <2>1
    <3>2. hg[Len(h) + j] = g[j]
      BY <1>1, <3>1
    <3> QED
      BY <1>1, <1>2, <2>1, <3>1, <3>2 DEF Begins
  <2>2. CASE j = Len(g) + 1
    <3>1. Len(h) + j \notin DOMAIN hg /\ j \notin DOMAIN g
      BY <1>1, <1>2, <2>2
    <3> QED
      BY <3>1 DEF Begins
  <2> QED
    BY <1>1, <2>1, <2>2
<1> QED
  BY <1>3, <1>4 DEF hg

LEMMA EndsCat ==
  ASSUME NEW Data, Fit(Data), NEW service \in Services,
         NEW h \in Seq(Held(Data)), EndsPaired(service, h),
         NEW g \in Seq(Held(Data)), EndsPaired(service, g), Paired(Sent(service, g))
  PROVE  EndsPaired(service, h \o g)
<1> DEFINE hg == h \o g
           m == Len(h)
           n == Len(g)
<1>1. m \in Nat /\ n \in Nat /\ DOMAIN h = 1..m /\ \A i \in 1..m : h[i] \in Held(Data)
  BY LenProperties, ElementOfSeq
<1>2. /\ Len(hg) = m + n
      /\ \A j \in 1..m + 1 : SubSeq(hg, j, m + n) = SubSeq(h, j, m) \o g
      /\ \A j \in 1..n + 1 : SubSeq(hg, m + j, m + n) = SubSeq(g, j, n)
  BY ZenonT(20), CatEnds
<1>3. /\ \A j \in 1..m : Begins(hg, j) <=> Begins(h, j)
      /\ \A j \in 1..n + 1 : Begins(hg, m + j) <=> Begins(g, j)
  BY BeginsCat
<1>4. /\ \A j \in 1..m + 1 : Begins(h, j) => Paired(Sent(service, SubSeq(h, j, m)))
      /\ \A j \in 1..n + 1 : Begins(g, j) => Paired(Sent(service, SubSeq(g, j, n)))
  BY DEF EndsPaired
<1> HIDE DEF hg, m, n
<1>5. ASSUME NEW j \in 1..(m + n) + 1, Begins(hg, j)
      PROVE  Paired(Sent(service, SubSeq(hg, j, m + n)))
  <2>1. CASE j \in 1..m
    <3> DEFINE e == SubSeq(h, j, m)
               s == Sent(service, e)
               t == Sent(service, g)
    <3>1. Paired(s) /\ Paired(t) /\ SubSeq(hg, j, m + n) = e \o g
      <4>1. j \in 1..m + 1
        BY <1>1, <2>1
      <4>2. Begins(h, j)
        BY <1>3, <1>5, <2>1
      <4>3. Paired(Sent(service, SubSeq(h, j, m)))
        BY <1>4, <4>1, <4>2
      <4>4. SubSeq(hg, j, m + n) = SubSeq(h, j, m) \o g
        BY <1>2, <4>1
      <4> QED
        BY <4>3, <4>4
    <3>2. e \in Seq(Held(Data))
      <4>1. j \in Int /\ m \in Int /\ \A i \in j..m : h[i] \in Held(Data)
        BY <1>1, <2>1
      <4> QED
        BY <4>1, SubSeqProperties
    <3> HIDE DEF e
    <3>3. /\ Sent(service, e \o g) = s \o t
          /\ s \in Seq(SaidSet(Data)) /\ t \in Seq(SaidSet(Data))
      BY <3>2, SentCat
    <3> HIDE DEF s, t
    <3>4. Paired(s \o t)
      BY <3>1, <3>3, PairedCat
    <3> QED
      BY <3>1, <3>3, <3>4
  <2>2. CASE j \notin 1..m
    <3> DEFINE i == j - m
    <3>1. i \in 1..n + 1 /\ m + i = j
      BY <1>1, <2>2
    <3> HIDE DEF i
    <3>2. Begins(g, i) /\ SubSeq(hg, j, m + n) = SubSeq(g, i, n)
      BY <1>2, <1>3, <1>5, <3>1
    <3> QED
      BY <1>4, <3>1, <3>2
  <2> QED
    BY <2>1, <2>2
<1>6. EndsPaired(service, hg)
  BY <1>2, <1>5 DEF EndsPaired
<1> QED
  BY <1>6 DEF hg

\* Plain messages, and the messages of an exchange.
LEMMA PlainEnds ==
  ASSUME NEW Data, Fit(Data), NEW service \in Services, NEW g \in Seq(Plain(Data))
  PROVE  /\ g \in Seq(Held(Data)) /\ Paired(Sent(service, g))
         /\ EndsPaired(service, g) /\ \A j \in Nat : Begins(g, j)
<1>1. g \in Seq(Held(Data)) /\ Paired(Sent(service, g))
  BY PlainHeld, SeqMonotonic, SentPlain
<1>2. Len(g) \in Nat /\ DOMAIN g = 1..Len(g) /\ \A i \in 1..Len(g) : g[i] \in Plain(Data)
  BY LenProperties, ElementOfSeq
<1>3. ASSUME NEW j \in 1..Len(g) + 1
      PROVE  Paired(Sent(service, SubSeq(g, j, Len(g))))
  <2> DEFINE e == SubSeq(g, j, Len(g))
  <2>1. j \in Int /\ Len(g) \in Int /\ \A i \in j..Len(g) : g[i] \in Plain(Data)
    BY <1>2
  <2>2. e \in Seq(Plain(Data))
    BY <2>1, SubSeqProperties
  <2> HIDE DEF e
  <2>3. Paired(Sent(service, e))
    BY <2>2, SentPlain
  <2> QED
    BY <2>3 DEF e
<1>4. ASSUME NEW m \in Plain(Data)
      PROVE  Head(m.parts).kind # "tool_result"
  <2>1. CASE m \in Instruction(Data)
    <3>1. PICK words \in Seq(Data) : m = Message("system", <<Text(words)>>)
      BY <2>1 DEF Instruction
    <3>2. m.parts = <<Text(words)>> /\ Head(m.parts) = Text(words)
      BY <3>1 DEF Message
    <3> QED
      BY <3>2 DEF Text, Part
  <2>2. ASSUME NEW role, NEW kinds, "tool_result" \notin kinds, m \in One(Data, role, kinds)
        PROVE  Head(m.parts).kind # "tool_result"
    <3>1. PICK p \in PartSet(Data) : p.kind \in kinds /\ m = Message(role, <<p>>)
      BY <2>2 DEF One
    <3>2. m.parts = <<p>> /\ Head(m.parts) = p
      BY <3>1 DEF Message
    <3> QED
      BY <2>2, <3>1, <3>2
  <2>3. /\ "tool_result" \notin {"text", "attachment"}
        /\ "tool_result" \notin {"text", "thinking", "redacted"}
    OBVIOUS
  <2> QED
    BY <2>1, <2>2, <2>3 DEF Plain
<1>5. \A j \in Nat : Begins(g, j)
  BY <1>2, <1>4 DEF Begins
<1> QED
  BY <1>1, <1>3, <1>5 DEF EndsPaired

LEMMA ExchangeEnds ==
  ASSUME NEW Data, Fit(Data), NEW service \in Services, NEW call \in PartSet(Data),
         call.kind = "tool_use", NEW words \in Seq(Data)
  PROVE  LET g == Exchange(call, words)
         IN  /\ g \in Seq(Held(Data)) /\ Paired(Sent(service, g))
             /\ EndsPaired(service, g) /\ Begins(g, 1)
<1> DEFINE g == Exchange(call, words)
           m == Message("assistant", <<call>>)
           n == Message("user", <<ToolResult(call.id, words)>>)
<1>1. g \in Seq(Held(Data)) /\ Paired(Sent(service, g))
  BY SentExchange
<1>2. Len(g) = 2 /\ DOMAIN g = {1, 2} /\ g[1] = m /\ g[2] = n
  BY DEF Exchange
<1>3. Head(m.parts).kind = "tool_use" /\ Head(n.parts).kind = "tool_result"
  BY DEF Message, ToolResult, Part
<1> HIDE DEF g, m, n
<1>4. Begins(g, 1) /\ ~Begins(g, 2)
  BY <1>2, <1>3 DEF Begins
<1>5. SubSeq(g, 1, 2) = g
  BY <1>1, <1>2, SubSeqFull
<1>6. Paired(Sent(service, SubSeq(g, 3, 2)))
  <2> DEFINE none == <<>>
  <2>1. SubSeq(g, 3, 2) = none
    BY SubSeqEmpty
  <2>2. none \in Seq(Plain(Data))
    BY EmptySeq
  <2> HIDE DEF none
  <2>3. Paired(Sent(service, none))
    BY <2>2, SentPlain
  <2> QED
    BY <2>1, <2>3
<1>7. \A j \in 1..Len(g) + 1 : Begins(g, j) => Paired(Sent(service, SubSeq(g, j, Len(g))))
  <2>1. \A j \in 1..2 + 1 : j = 1 \/ j = 2 \/ j = 3
    OBVIOUS
  <2> QED
    BY <1>1, <1>2, <1>4, <1>5, <1>6, <2>1
<1>8. EndsPaired(service, g)
  BY <1>7 DEF EndsPaired
<1> QED
  BY <1>1, <1>4, <1>8 DEF g

LEMMA FlatType ==
  ASSUME NEW T, NEW ss \in Seq(Seq(T))
  PROVE  FlattenSeq(ss) \in Seq(T)
<1> DEFINE S == Seq(T)
           f == [y \in S |-> y]
<1>1. IsMap(f, S, T)
  BY DEF IsMap
<1>2. [i \in DOMAIN ss |-> f[ss[i]]] = ss
  <2>1. ss = [i \in 1..Len(ss) |-> ss[i]] /\ DOMAIN ss = 1..Len(ss)
    BY LenProperties
  <2>2. \A i \in 1..Len(ss) : f[ss[i]] = ss[i]
    BY ElementOfSeq
  <2> HIDE DEF f
  <2> QED
    BY <2>1, <2>2
<1>3. MapFlat(f, ss) = FlattenSeq(ss)
  <2> HIDE DEF f
  <2> QED
    BY <1>2 DEF MapFlat
<1>4. ss \in Seq(S)
  OBVIOUS
<1> HIDE DEF f, S
<1>5. MapFlat(f, ss) \in Seq(T)
  BY <1>1, <1>4, MapType
<1> QED
  BY <1>3, <1>5

LEMMA OfKindsType ==
  ASSUME NEW Data, NEW parts \in Seq(PartSet(Data)), NEW kinds
  PROVE  OfKinds(parts, kinds) \in Seq({p \in PartSet(Data) : p.kind \in kinds})
<1> DEFINE T == {p \in PartSet(Data) : p.kind \in kinds}
           ss == [i \in DOMAIN parts |-> Kept(parts[i], parts[i].kind \in kinds)]
<1>1. /\ DOMAIN parts = 1..Len(parts) /\ Len(parts) \in Nat
      /\ \A i \in 1..Len(parts) : parts[i] \in PartSet(Data)
  BY LenProperties, ElementOfSeq
<1>2. ASSUME NEW p \in PartSet(Data)
      PROVE  Kept(p, p.kind \in kinds) \in Seq(T)
  <2>1. CASE p.kind \in kinds
    <3>1. p \in T
      BY <2>1
    <3> HIDE DEF T
    <3>2. <<p>> \in Seq(T)
      BY <3>1
    <3> QED
      BY <2>1, <3>2 DEF Kept
  <2>2. CASE ~(p.kind \in kinds)
    <3> HIDE DEF T
    <3> QED
      BY <2>2, EmptySeq DEF Kept
  <2> QED
    BY <2>1, <2>2
<1> HIDE DEF T
<1>3. ss \in Seq(Seq(T))
  BY <1>1, <1>2
<1> HIDE DEF ss
<1>4. FlattenSeq(ss) \in Seq(T)
  BY <1>3, FlatType
<1> QED
  BY <1>4 DEF OfKinds, ss, T

LEMMA WordsOfType ==
  ASSUME NEW Data, NEW parts \in Seq(PartSet(Data))
  PROVE  WordsOf(parts) \in Seq(Data)
<1> DEFINE ss == [i \in DOMAIN parts |-> parts[i].body]
<1>1. /\ DOMAIN parts = 1..Len(parts) /\ Len(parts) \in Nat
      /\ \A i \in 1..Len(parts) : parts[i] \in PartSet(Data)
  BY LenProperties, ElementOfSeq
<1>2. \A p \in PartSet(Data) : p.body \in Seq(Data)
  BY DEF PartSet
<1>3. ss \in Seq(Seq(Data))
  BY <1>1, <1>2
<1> HIDE DEF ss
<1>4. FlattenSeq(ss) \in Seq(Data)
  BY <1>3, FlatType
<1> QED
  BY <1>4 DEF WordsOf, ss

\* Messages of the parts of a sequence.
LEMMA PlainMessages ==
  ASSUME NEW Data, Fit(Data), NEW role \in {"user", "assistant"},
         NEW parts \in Seq(PartSet(Data)),
         \A i \in DOMAIN parts : \/ parts[i].kind = "text"
                                 \/ role = "user" /\ parts[i].kind = "attachment"
                                 \/ role = "assistant" /\ parts[i].kind \in {"thinking", "redacted"}
  PROVE  [i \in DOMAIN parts |-> Message(role, <<parts[i]>>)] \in Seq(Plain(Data))
<1>1. /\ DOMAIN parts = 1..Len(parts) /\ Len(parts) \in Nat
      /\ \A i \in 1..Len(parts) : parts[i] \in PartSet(Data)
  BY LenProperties, ElementOfSeq
<1>2. ASSUME NEW i \in DOMAIN parts
      PROVE  Message(role, <<parts[i]>>) \in Plain(Data)
  <2> DEFINE p == parts[i]
             m == Message(role, <<p>>)
  <2>1. role \in Roles
    BY DEF Roles
  <2>2. p \in PartSet(Data)
    BY <1>1
  <2>3. \/ p.kind = "text"
        \/ role = "user" /\ p.kind = "attachment"
        \/ role = "assistant" /\ p.kind \in {"thinking", "redacted"}
    OBVIOUS
  <2> HIDE DEF p
  <2>4. m \in MessageSet(Data) /\ m.role = role
    BY <2>1, <2>2, OnePart
  <2>5. \/ m \in One(Data, "user", {"text", "attachment"})
        \/ m \in One(Data, "assistant", {"text", "thinking", "redacted"})
    BY <2>2, <2>3, <2>4 DEF One
  <2>6. m \in Plain(Data)
    BY <2>5 DEF Plain
  <2> QED
    BY <2>6 DEF p
<1> QED
  BY <1>1, <1>2

-----------------------------------------------------------------------------
\* What the services answer becomes parts that a memory may hold.

\* The ids that may be given to the parts of an answer are in the set.
Names(Data) == \A j \in Nat : IdAt(j) \in Data

LEMMA ToolUseType ==
  ASSUME NEW Data, Fit(Data), NEW id \in Data, NEW name \in Data, NEW input \in {"object", "empty"}
  PROVE  ToolUse(id, name, input) \in PartSet(Data)
<1>1. input \in Data
  BY DEF Fit, Marks
<1>2. <<input>> \in Seq(Data)
  BY <1>1
<1> DEFINE body == <<input>>
<1> HIDE DEF body
<1>3. Part("tool_use", id, name, body) \in PartSet(Data)
  BY <1>2, PartType DEF Kinds, body
<1> QED
  BY <1>3 DEF ToolUse, body

LEMMA InvalidType ==
  ASSUME NEW Data, Fit(Data)
  PROVE  Invalid \in PartSet(Data)
BY DEF Invalid, Part, PartSet, Fit, Kinds

LEMMA TextType ==
  ASSUME NEW Data, Fit(Data), NEW words \in Seq(Data)
  PROVE  Text(words) \in PartSet(Data) /\ TextOf(words) \in Seq(PartSet(Data))
<1>1. Text(words) \in PartSet(Data)
  BY DEF Text, Part, PartSet, Fit, Kinds
<1> DEFINE p == Text(words)
<1> HIDE DEF p
<1>2. <<p>> \in Seq(PartSet(Data)) /\ <<>> \in Seq(PartSet(Data))
  BY <1>1 DEF p
<1>3. TextOf(words) = <<p>> \/ TextOf(words) = <<>>
  BY DEF TextOf, p
<1> QED
  BY <1>1, <1>2, <1>3, Zenon

LEMMA CalledType ==
  ASSUME NEW Data, Fit(Data), NEW id \in Data, NEW call, call.name \in Data
  PROVE  Called(call, id) \in PartSet(Data)
<1>1. ToolUse(id, call.name, "object") \in PartSet(Data)
  BY ToolUseType
<1>2. Invalid \in PartSet(Data)
  BY InvalidType
<1> QED
  BY <1>1, <1>2, Zenon DEF Called

LEMMA OneType ==
  ASSUME NEW T, NEW x \in T
  PROVE  <<x>> \in Seq(T) /\ <<>> \in Seq(T)
OBVIOUS

LEMMA ChatContent ==
  ASSUME NEW Data, Fit(Data), Names(Data), NEW raw, IsAnswer("chat", raw),
         raw.legacy # None => raw.legacy.name \in Data
  PROVE  ChatResponse(raw).content \in Seq(PartSet(Data))
<1> DEFINE T == PartSet(Data)
           S == [name: Name, args: Name, word: STRING]
<1>1. raw.text \in Seq(S) /\ raw.calls \in Seq([name: STRING, args: STRING])
  BY DEF IsAnswer
<1>2. Name \subseteq Data /\ STRING \subseteq Data
  BY DEF Name, Fit
<1>3. StructuredCalls(raw) \in Seq(T)
  <2> DEFINE given == raw.calls
             x == [j \in DOMAIN given |-> Called(given[j], IdAt(j))]
             y == IF raw.legacy = None THEN <<>> ELSE <<Called(raw.legacy, raw.legacy.name)>>
  <2>1. /\ DOMAIN given = 1..Len(given) /\ Len(given) \in Nat
        /\ \A j \in 1..Len(given) : given[j] \in [name: STRING, args: STRING]
    BY <1>1, LenProperties, ElementOfSeq
  <2> HIDE DEF given
  <2>2. ASSUME NEW j \in DOMAIN given
        PROVE  Called(given[j], IdAt(j)) \in T
    <3> DEFINE c == given[j]
    <3>0. c \in [name: STRING, args: STRING] /\ j \in Nat
      BY <2>1
    <3> HIDE DEF c
    <3>1. j \in Nat /\ c.name \in Data
      BY <1>2, <3>0
    <3>2. IdAt(j) \in Data
      BY <3>1 DEF Names
    <3> QED
      BY <3>1, <3>2, CalledType DEF c
  <2> HIDE DEF T
  <2>3. x \in Seq(T)
    BY <2>1, <2>2
  <2>4. y \in Seq(T)
    <3>1. CASE raw.legacy = None
      BY <3>1, EmptySeq
    <3>2. CASE raw.legacy # None
      <4> DEFINE c == Called(raw.legacy, raw.legacy.name)
      <4>1. c \in T
        BY <3>2, CalledType DEF T
      <4> HIDE DEF c
      <4>2. <<c>> \in Seq(T)
        BY <4>1
      <4> QED
        BY <3>2, <4>2 DEF c
    <3> QED
      BY <3>1, <3>2
  <2> HIDE DEF x, y
  <2>5. x \o y \in Seq(T)
    BY <2>3, <2>4, ConcatProperties
  <2> QED
    BY <2>5 DEF StructuredCalls, x, y, given
<1>4. InlineCalls(raw.text) \in Seq(T)
  <2> DEFINE text == raw.text
             ss == [j \in DOMAIN text |->
                      IF text[j].name = None \/ text[j].args = "bad" THEN <<>>
                      ELSE <<Called(text[j], IdAt(j))>>]
  <2>1. /\ DOMAIN text = 1..Len(text) /\ Len(text) \in Nat
        /\ \A j \in 1..Len(text) : text[j] \in S
    <3> HIDE DEF S
    <3> QED
      BY <1>1, LenProperties, ElementOfSeq
  <2> HIDE DEF text
  <2>2. ASSUME NEW j \in DOMAIN text
        PROVE  ss[j] \in Seq(T)
    <3> DEFINE c == Called(text[j], IdAt(j))
    <3>1. j \in Nat /\ text[j].name \in Data
      BY <1>2, <2>1
    <3>2. IdAt(j) \in Data
      BY <3>1 DEF Names
    <3>3. c \in T
      BY <3>1, <3>2, CalledType
    <3> HIDE DEF c, T
    <3>4. <<c>> \in Seq(T) /\ <<>> \in Seq(T)
      BY <3>3, OneType
    <3>5. ss[j] = <<c>> \/ ss[j] = <<>>
      BY DEF c
    <3> HIDE DEF ss
    <3> QED
      BY <3>4, <3>5, Zenon
  <2>3. ss \in Seq(Seq(T))
    <3> DEFINE F(j) == IF text[j].name = None \/ text[j].args = "bad" THEN <<>>
                       ELSE <<Called(text[j], IdAt(j))>>
    <3>1. \A j \in DOMAIN text : F(j) \in Seq(T)
      BY <2>2
    <3>2. ss = [j \in 1..Len(text) |-> F(j)]
      BY <2>1
    <3> HIDE DEF F, T, ss
    <3> QED
      BY <2>1, <3>1, <3>2
  <2> HIDE DEF ss, T
  <2>4. FlattenSeq(ss) \in Seq(T)
    BY <2>3, FlatType
  <2> QED
    BY <2>4 DEF InlineCalls, ss, text
<1> HIDE DEF S
<1>5. \A pieces \in Seq(S) : TextOf([j \in DOMAIN pieces |-> pieces[j].word]) \in Seq(T)
  <2> SUFFICES ASSUME NEW pieces \in Seq(S)
               PROVE  TextOf([j \in DOMAIN pieces |-> pieces[j].word]) \in Seq(T)
    OBVIOUS
  <2>1. /\ DOMAIN pieces = 1..Len(pieces) /\ Len(pieces) \in Nat
        /\ \A j \in 1..Len(pieces) : pieces[j] \in S
    BY LenProperties, ElementOfSeq
  <2>2. \A j \in 1..Len(pieces) : pieces[j].word \in Data
    BY <1>2, <2>1 DEF S
  <2>3. [j \in DOMAIN pieces |-> pieces[j].word] \in Seq(Data)
    BY <2>1, <2>2
  <2> QED
    BY <2>3, TextType
<1> DEFINE calls == StructuredCalls(raw)
           inline == IF calls = <<>> THEN InlineCalls(raw.text) ELSE <<>>
           kept == FlattenSeq([j \in DOMAIN raw.text |->
                                 Kept(raw.text[j], raw.text[j].name = None)])
           pieces == IF inline = <<>> THEN raw.text ELSE kept
           content == calls \o inline \o TextOf([j \in DOMAIN pieces |-> pieces[j].word])
<1>6. kept \in Seq(S)
  <2> DEFINE text == raw.text
             ss == [j \in DOMAIN text |-> Kept(text[j], text[j].name = None)]
  <2>1. DOMAIN text = 1..Len(text) /\ Len(text) \in Nat /\ \A j \in 1..Len(text) : text[j] \in S
    BY <1>1, LenProperties, ElementOfSeq
  <2>2. \A t \in S : Kept(t, t.name = None) \in Seq(S)
    BY DEF Kept
  <2> HIDE DEF text
  <2>3. ss \in Seq(Seq(S))
    BY <2>1, <2>2
  <2> HIDE DEF ss
  <2>4. FlattenSeq(ss) \in Seq(S)
    BY <2>3, FlatType
  <2> QED
    BY <2>4 DEF ss, text
<1> HIDE DEF T
<1>7. inline \in Seq(T)
  <2>1. InlineCalls(raw.text) \in Seq(T) /\ <<>> \in Seq(T)
    BY <1>4, EmptySeq
  <2> QED
    BY <2>1, Zenon
<1> HIDE DEF kept, inline
<1>8. pieces \in Seq(S)
  BY <1>1, <1>6, Zenon
<1> HIDE DEF pieces, calls
<1>9. TextOf([j \in DOMAIN pieces |-> pieces[j].word]) \in Seq(T)
  BY <1>5, <1>8
<1> DEFINE t == TextOf([j \in DOMAIN pieces |-> pieces[j].word])
<1> HIDE DEF t
<1>10. calls \o inline \in Seq(T)
  BY <1>3, <1>7, ConcatProperties DEF calls
<1> DEFINE ci == calls \o inline
<1> HIDE DEF ci
<1>11. ci \o t \in Seq(T)
  BY <1>9, <1>10, ConcatProperties DEF ci, t
<1>12. content \in Seq(T)
  BY <1>11 DEF ci, t
<1> HIDE DEF content
<1> DEFINE empty == <<>>
<1>13. <<Invalid>> \in Seq(T) /\ <<Text(empty)>> \in Seq(T)
  <2>1. empty \in Seq(Data)
    BY EmptySeq
  <2> HIDE DEF empty
  <2>2. Invalid \in T /\ Text(empty) \in T
    BY <2>1, InvalidType, TextType DEF T
  <2> DEFINE a == Invalid
             b == Text(empty)
  <2> HIDE DEF a, b
  <2>3. <<a>> \in Seq(T) /\ <<b>> \in Seq(T)
    BY <2>2, OneType DEF a, b
  <2> QED
    BY <2>3 DEF a, b
<1>14. \/ ChatResponse(raw).content = <<Invalid>>
       \/ ChatResponse(raw).content = <<Text(empty)>>
       \/ ChatResponse(raw).content = content
  BY DEF ChatResponse, Response, content, calls, inline, kept, pieces
<1> HIDE DEF empty
<1> QED
  BY <1>12, <1>13, <1>14, Zenon DEF T

LEMMA Prefixing ==
  ASSUME NEW Data, Fit(Data), NEW mark \in Marks, NEW words \in Seq(Data)
  PROVE  /\ <<Text(<<mark>> \o words)>> \in Seq(PartSet(Data))
         /\ Prefixed(mark, words) \in Seq(PartSet(Data))
<1> DEFINE s == <<mark>> \o words
           p == Text(s)
<1>1. s \in Seq(Data)
  BY MarkedType
<1> HIDE DEF s
<1>2. p \in PartSet(Data)
  BY <1>1, TextType
<1> HIDE DEF p
<1>3. <<p>> \in Seq(PartSet(Data)) /\ <<>> \in Seq(PartSet(Data))
  BY <1>2, OneType
<1>4. Prefixed(mark, words) = <<p>> \/ Prefixed(mark, words) = <<>>
  BY DEF Prefixed, p, s
<1>5. Prefixed(mark, words) \in Seq(PartSet(Data))
  BY <1>3, <1>4, Zenon
<1> QED
  BY <1>3, <1>5 DEF p, s

LEMMA FieldWords ==
  ASSUME NEW Data, Fit(Data), NEW item, NEW N, NEW names \in Seq(N),
         \A field \in DOMAIN item.fields : item.fields[field] \in Seq(STRING)
  PROVE  FieldOf(item, names) \in Seq(Data)
<1> DEFINE fields == item.fields
           D == {x \in N : x \in DOMAIN fields}
           ss == [j \in DOMAIN names |->
                    Kept(names[j], names[j] \in DOMAIN fields /\ fields[names[j]] # <<>>)]
           has == FlattenSeq(ss)
<1>1. Seq(STRING) \subseteq Seq(Data)
  BY SeqMonotonic DEF Fit
<1>2. \A x \in D : fields[x] \in Seq(Data)
  BY <1>1
<1> HIDE DEF fields
<1>3. DOMAIN names = 1..Len(names) /\ Len(names) \in Nat /\ \A j \in 1..Len(names) : names[j] \in N
  BY LenProperties, ElementOfSeq
<1>4. ASSUME NEW x \in N
      PROVE  Kept(x, x \in DOMAIN fields /\ fields[x] # <<>>) \in Seq(D)
  <2>1. CASE x \in DOMAIN fields /\ fields[x] # <<>>
    <3>1. x \in D
      BY <2>1
    <3> HIDE DEF D
    <3>2. <<x>> \in Seq(D)
      BY <3>1
    <3> QED
      BY <2>1, <3>2 DEF Kept
  <2>2. CASE ~(x \in DOMAIN fields /\ fields[x] # <<>>)
    <3> HIDE DEF D
    <3> QED
      BY <2>2, EmptySeq, Zenon DEF Kept
  <2> QED
    BY <2>1, <2>2
<1> HIDE DEF D
<1>5. ss \in Seq(Seq(D))
  BY <1>3, <1>4
<1> HIDE DEF ss
<1>6. has \in Seq(D)
  BY <1>5, FlatType
<1>7. FieldOf(item, names) = <<>> \/ (has # <<>> /\ FieldOf(item, names) = fields[Head(has)])
  BY DEF FieldOf, has, ss, fields
<1> HIDE DEF has
<1>8. has # <<>> => Head(has) \in D
  BY <1>6
<1>9. <<>> \in Seq(Data)
  BY EmptySeq
<1> QED
  BY <1>2, <1>7, <1>8, <1>9, Zenon

\* The names an item of an answer may have are in the set.
Named(Data, item) ==
  /\ item.name \in Data
  /\ item.type \in DOMAIN AdvancedName =>
       [item EXCEPT !.name = AdvancedName[item.type]].name \in Data

LEMMA FunctionCallType ==
  ASSUME NEW Data, Fit(Data), NEW id \in Data, NEW item, item.name \in Data
  PROVE  FunctionCall(item, id) \in Seq(PartSet(Data))
<1> DEFINE a == ToolUse(id, item.name, "empty")
           b == Called(item, id)
<1>1. a \in PartSet(Data) /\ b \in PartSet(Data)
  BY ToolUseType, CalledType
<1>2. \/ FunctionCall(item, id) = <<>>
      \/ FunctionCall(item, id) = <<a>>
      \/ FunctionCall(item, id) = <<b>>
  BY DEF FunctionCall
<1> HIDE DEF a, b
<1>3. <<a>> \in Seq(PartSet(Data)) /\ <<b>> \in Seq(PartSet(Data)) /\ <<>> \in Seq(PartSet(Data))
  BY <1>1, OneType
<1> QED
  BY <1>2, <1>3, Zenon

LEMMA MessageOutputType ==
  ASSUME NEW Data, Fit(Data), NEW item,
         item.texts \in Seq([refusal: BOOLEAN, words: Seq(STRING), cited: Nat])
  PROVE  MessageOutput(item) \in Seq(PartSet(Data))
<1> DEFINE texts == item.texts
           first == Head(texts)
           T == PartSet(Data)
<1>0. texts \in Seq([refusal: BOOLEAN, words: Seq(STRING), cited: Nat])
  OBVIOUS
<1> HIDE DEF texts
<1>1. texts # <<>> => first \in [refusal: BOOLEAN, words: Seq(STRING), cited: Nat]
  <2> DEFINE R == [refusal: BOOLEAN, words: Seq(STRING), cited: Nat]
  <2>1. texts \in Seq(R)
    BY <1>0
  <2> HIDE DEF R
  <2>2. texts # <<>> => first \in R
    BY <2>1
  <2> QED
    BY <2>2 DEF R
<1> HIDE DEF first
<1>2. Seq(STRING) \subseteq Seq(Data)
  BY SeqMonotonic DEF Fit
<1>3. texts # <<>> => first.words \in Seq(Data)
  BY <1>1, <1>2
<1>4. <<Invalid>> \in Seq(T) /\ <<>> \in Seq(T)
  <2> DEFINE a == Invalid
  <2>1. a \in T
    BY InvalidType
  <2> HIDE DEF a, T
  <2>2. <<a>> \in Seq(T) /\ <<>> \in Seq(T)
    BY <2>1, OneType
  <2> QED
    BY <2>2 DEF a
<1>5. texts # <<>> => /\ <<Text(<<"[Refusal]">> \o first.words)>> \in Seq(T)
                      /\ TextOf(first.words) \in Seq(T)
  BY <1>3, Prefixing, TextType DEF Marks
<1>6. \/ MessageOutput(item) = <<>>
      \/ texts # <<>> /\ \/ MessageOutput(item) = <<Text(<<"[Refusal]">> \o first.words)>>
                         \/ MessageOutput(item) = <<Invalid>>
                         \/ MessageOutput(item) = TextOf(first.words)
  BY DEF MessageOutput, first, texts
<1> HIDE DEF T
<1> QED
  BY <1>4, <1>5, <1>6, Zenon DEF T

LEMMA ReasoningType ==
  ASSUME NEW Data, Fit(Data), NEW item,
         item.encrypted \in Name /\ {item.content, item.summary} \subseteq Seq(STRING)
  PROVE  Reasoning(item) \in Seq(PartSet(Data))
<1> DEFINE e == item.encrypted
           words == IF item.content # <<>> THEN item.content ELSE item.summary
           es == <<e>>
           a == Part("redacted", None, None, es)
           b == Part("thinking", None, None, words)
<1>1. Seq(STRING) \subseteq Seq(Data) /\ Name \subseteq Data /\ None \in Data
  BY SeqMonotonic DEF Fit, Name
<1>2. words \in Seq(Data)
  BY <1>1, Zenon
<1>3. e \in Data
  BY <1>1
<1> HIDE DEF e
<1>4. es \in Seq(Data)
  BY <1>3
<1> HIDE DEF es, words
<1>5. a \in PartSet(Data) /\ b \in PartSet(Data)
  BY <1>1, <1>2, <1>4 DEF Part, PartSet, Kinds
<1>6. \/ Reasoning(item) = <<a>>
      \/ Reasoning(item) = <<b>>
      \/ Reasoning(item) = <<>>
  BY DEF Reasoning, es, e, words
<1> HIDE DEF a, b
<1>7. <<a>> \in Seq(PartSet(Data)) /\ <<b>> \in Seq(PartSet(Data)) /\ <<>> \in Seq(PartSet(Data))
  BY <1>5, OneType
<1> QED
  BY <1>6, <1>7, Zenon

LEMMA ImageOutputType ==
  ASSUME NEW Data, Fit(Data), NEW item
  PROVE  ImageOutput(item) \in Seq(PartSet(Data))
<1> DEFINE w == <<"[Image]">>
           a == Invalid
           b == Text(w)
<1>1. w \in Seq(Data)
  BY DEF Fit, Marks
<1> HIDE DEF w
<1>2. a \in PartSet(Data) /\ b \in PartSet(Data)
  BY <1>1, InvalidType, TextType
<1>3. \/ ImageOutput(item) = <<a>>
      \/ ImageOutput(item) = <<b>>
      \/ ImageOutput(item) = <<>>
  BY DEF ImageOutput, w
<1> HIDE DEF a, b
<1>4. <<a>> \in Seq(PartSet(Data)) /\ <<b>> \in Seq(PartSet(Data)) /\ <<>> \in Seq(PartSet(Data))
  BY <1>2, OneType
<1> QED
  BY <1>3, <1>4, Zenon

LEMMA FieldsType ==
  ASSUME NEW Data, Fit(Data), NEW item,
         \A field \in DOMAIN item.fields : item.fields[field] \in Seq(STRING)
  PROVE  /\ DocumentOutput(item) \in Seq(PartSet(Data)) /\ SearchOutput(item) \in Seq(PartSet(Data))
         /\ ErrorOutput(item) \in Seq(PartSet(Data)) /\ UnknownOutput(item) \in Seq(PartSet(Data))
<1> DEFINE N == {"analysis", "summary", "content", "data", "results", "text", "message", "error"}
           n1 == <<"analysis", "summary", "content", "data">>
           n2 == <<"results", "content", "text">>
           n3 == <<"message", "error", "text">>
           n4 == <<"content", "text", "data">>
           M == {"[Document]", "[Search]", "[Error]", "[Unknown]"}
<1>1. n1 \in Seq(N) /\ n2 \in Seq(N) /\ n3 \in Seq(N) /\ n4 \in Seq(N)
  OBVIOUS
<1>2. M \subseteq Marks
  BY DEF Marks
<1> HIDE DEF N, n1, n2, n3, n4
<1>3. /\ FieldOf(item, n1) \in Seq(Data) /\ FieldOf(item, n2) \in Seq(Data)
      /\ FieldOf(item, n3) \in Seq(Data) /\ FieldOf(item, n4) \in Seq(Data)
  BY <1>1, FieldWords
<1>4. /\ Prefixed("[Document]", FieldOf(item, n1)) \in Seq(PartSet(Data))
      /\ Prefixed("[Search]", FieldOf(item, n2)) \in Seq(PartSet(Data))
      /\ Prefixed("[Error]", FieldOf(item, n3)) \in Seq(PartSet(Data))
      /\ <<Text(<<"[Unknown]">> \o FieldOf(item, n4))>> \in Seq(PartSet(Data))
  BY <1>2, <1>3, Prefixing
<1>5. <<>> \in Seq(PartSet(Data))
  BY EmptySeq
<1>6. /\ \/ DocumentOutput(item) = <<>>
         \/ DocumentOutput(item) = Prefixed("[Document]", FieldOf(item, n1))
      /\ SearchOutput(item) = Prefixed("[Search]", FieldOf(item, n2))
      /\ ErrorOutput(item) = Prefixed("[Error]", FieldOf(item, n3))
      /\ UnknownOutput(item) = <<Text(<<"[Unknown]">> \o FieldOf(item, n4))>>
  BY Zenon DEF DocumentOutput, SearchOutput, ErrorOutput, UnknownOutput, n1, n2, n3, n4
<1> QED
  BY <1>4, <1>5, <1>6, Zenon

LEMMA OutputItemType ==
  ASSUME NEW Data, Fit(Data), NEW id \in Data, NEW item, IsItem(item), Named(Data, item)
  PROVE  OutputItem(item, id) \in Seq(PartSet(Data))
<1> DEFINE advanced == [item EXCEPT !.name = AdvancedName[item.type]]
           Fielded == \A field \in DOMAIN item.fields : item.fields[field] \in Seq(STRING)
           D == DOMAIN AdvancedName
<1>0. D = {"file_search_call", "computer_call", "code_interpreter_call"}
  BY DEF AdvancedName
<1>1. item.name \in Data /\ (item.type \in D => advanced.name \in Data)
  BY DEF Named
<1> HIDE DEF advanced, D, Fielded
<1>2. CASE item.type = "message"
  <2>1. item.texts \in Seq([refusal: BOOLEAN, words: Seq(STRING), cited: Nat])
    BY <1>0, <1>2 DEF IsItem, D
  <2>2. OutputItem(item, id) = MessageOutput(item)
    BY <1>0, <1>2 DEF OutputItem, D
  <2>3. MessageOutput(item) \in Seq(PartSet(Data))
    BY <2>1, MessageOutputType
  <2> QED
    BY <2>2, <2>3, Zenon
<1>3. CASE item.type = "function_call"
  <2>1. OutputItem(item, id) = FunctionCall(item, id)
    BY <1>0, <1>3 DEF OutputItem, D
  <2>2. FunctionCall(item, id) \in Seq(PartSet(Data))
    BY <1>1, FunctionCallType
  <2> QED
    BY <2>1, <2>2, Zenon
<1>4. CASE item.type \in D
  <2>1. OutputItem(item, id) = FunctionCall(advanced, id)
    BY <1>0, <1>4 DEF OutputItem, advanced, D
  <2>2. advanced.name \in Data
    BY <1>1, <1>4
  <2>3. FunctionCall(advanced, id) \in Seq(PartSet(Data))
    BY <2>2, FunctionCallType
  <2> QED
    BY <2>1, <2>3, Zenon
<1>5. CASE item.type = "reasoning"
  <2>1. item.encrypted \in Name /\ {item.content, item.summary} \subseteq Seq(STRING)
    BY <1>0, <1>5 DEF IsItem, D
  <2>2. OutputItem(item, id) = Reasoning(item)
    BY <1>0, <1>5 DEF OutputItem, D
  <2>3. Reasoning(item) \in Seq(PartSet(Data))
    BY <2>1, ReasoningType
  <2> QED
    BY <2>2, <2>3, Zenon
<1>6. CASE item.type = "image_generation"
  <2>1. OutputItem(item, id) = ImageOutput(item)
    BY <1>0, <1>6 DEF OutputItem, D
  <2>2. ImageOutput(item) \in Seq(PartSet(Data))
    BY ImageOutputType
  <2> QED
    BY <2>1, <2>2, Zenon
<1>7. CASE item.type \notin {"message", "function_call", "reasoning", "image_generation"} \cup D
  <2>1. Fielded
    BY <1>0, <1>7 DEF IsItem, Fielded, D
  <2>2. /\ DocumentOutput(item) \in Seq(PartSet(Data)) /\ SearchOutput(item) \in Seq(PartSet(Data))
        /\ ErrorOutput(item) \in Seq(PartSet(Data)) /\ UnknownOutput(item) \in Seq(PartSet(Data))
    BY <2>1, FieldsType DEF Fielded
  <2>3. \/ OutputItem(item, id) = DocumentOutput(item)
        \/ OutputItem(item, id) = SearchOutput(item)
        \/ OutputItem(item, id) = ErrorOutput(item)
        \/ OutputItem(item, id) = UnknownOutput(item)
    BY <1>0, <1>7 DEF OutputItem, D
  <2> QED
    BY <2>2, <2>3, Zenon
<1> QED
  BY <1>2, <1>3, <1>4, <1>5, <1>6, <1>7

LEMMA ResponsesContent ==
  ASSUME NEW Data, Fit(Data), Names(Data), NEW raw, IsAnswer("responses", raw),
         \A item \in Range(raw.items) : Named(Data, item)
  PROVE  ResponsesResponse(raw).content \in Seq(PartSet(Data))
<1> DEFINE T == PartSet(Data)
           items == raw.items
           ss == [j \in DOMAIN items |-> OutputItem(items[j], IdAt(j))]
<1>1. items \in Seq(Range(items)) /\ \A item \in Range(items) : IsItem(item) /\ Named(Data, item)
  BY DEF IsAnswer
<1> HIDE DEF items
<1>2. /\ DOMAIN items = 1..Len(items) /\ Len(items) \in Nat
      /\ \A j \in 1..Len(items) : items[j] \in Range(items)
  BY <1>1, LenProperties, ElementOfSeq
<1>3. ASSUME NEW j \in 1..Len(items)
      PROVE  OutputItem(items[j], IdAt(j)) \in Seq(T)
  <2>1. IdAt(j) \in Data
    BY <1>2 DEF Names
  <2>2. IsItem(items[j]) /\ Named(Data, items[j])
    BY <1>1, <1>2
  <2> QED
    BY <2>1, <2>2, OutputItemType
<1> HIDE DEF T
<1>4. ss \in Seq(Seq(T))
  BY <1>2, <1>3
<1> HIDE DEF ss
<1>5. FlattenSeq(ss) \in Seq(T)
  BY <1>4, FlatType
<1>6. ResponsesResponse(raw).content = FlattenSeq(ss)
  BY DEF ResponsesResponse, Response, ss, items
<1> QED
  BY <1>5, <1>6 DEF T

LEMMA GeminiOutputType ==
  ASSUME NEW Data, Fit(Data), NEW id \in Data,
         NEW part \in [text: Name, thought: BOOLEAN, name: Name, given: BOOLEAN]
  PROVE  GeminiOutput(part, id) \in Seq(PartSet(Data))
<1> DEFINE w == <<part.text>>
           callId == IF part.given THEN id ELSE part.name
           a == Part("thinking", None, None, w)
           b == Text(w)
           c == ToolUse(callId, part.name, "object")
<1>1. Name \subseteq Data /\ None \in Data
  BY DEF Fit, Name
<1>2. part.text \in Data /\ part.name \in Data
  BY <1>1
<1>3. callId \in Data
  BY <1>2
<1>4. w \in Seq(Data)
  BY <1>2
<1> HIDE DEF w, callId
<1>5. a \in PartSet(Data)
  BY <1>1, <1>4 DEF Part, PartSet, Kinds
<1>6. b \in PartSet(Data)
  BY <1>4, TextType
<1>7. c \in PartSet(Data)
  BY <1>2, <1>3, ToolUseType
<1>8. \/ GeminiOutput(part, id) = <<a>>
      \/ GeminiOutput(part, id) = <<b>>
      \/ GeminiOutput(part, id) = <<c>>
      \/ GeminiOutput(part, id) = <<>>
  BY DEF GeminiOutput, w, callId
<1> HIDE DEF a, b, c
<1>9. /\ <<a>> \in Seq(PartSet(Data)) /\ <<b>> \in Seq(PartSet(Data))
      /\ <<c>> \in Seq(PartSet(Data)) /\ <<>> \in Seq(PartSet(Data))
  BY <1>5, <1>6, <1>7, OneType
<1> QED
  BY <1>8, <1>9, Zenon

LEMMA GeminiContent ==
  ASSUME NEW Data, Fit(Data), Names(Data), NEW raw, IsAnswer("gemini", raw)
  PROVE  GeminiResponse(raw).content \in Seq(PartSet(Data))
<1> DEFINE T == PartSet(Data)
           S == [text: Name, thought: BOOLEAN, name: Name, given: BOOLEAN]
           parts == raw.parts
           ss == [j \in DOMAIN parts |-> GeminiOutput(parts[j], IdAt(j))]
<1>1. parts \in Seq(S)
  BY DEF IsAnswer
<1>2. \A part \in S, id \in Data : GeminiOutput(part, id) \in Seq(T)
  BY GeminiOutputType
<1> HIDE DEF parts, S
<1>3. DOMAIN parts = 1..Len(parts) /\ Len(parts) \in Nat /\ \A j \in 1..Len(parts) : parts[j] \in S
  BY <1>1, LenProperties, ElementOfSeq
<1>4. ASSUME NEW j \in 1..Len(parts)
      PROVE  GeminiOutput(parts[j], IdAt(j)) \in Seq(T)
  <2>1. IdAt(j) \in Data
    BY <1>3 DEF Names
  <2> QED
    BY <1>2, <1>3, <2>1
<1> HIDE DEF T
<1>5. ss \in Seq(Seq(T))
  BY <1>3, <1>4
<1> HIDE DEF ss
<1>6. FlattenSeq(ss) \in Seq(T)
  BY <1>5, FlatType
<1>7. GeminiResponse(raw).content = FlattenSeq(ss)
  BY DEF GeminiResponse, Response, ss, parts
<1> QED
  BY <1>6, <1>7 DEF T

LEMMA WithStopType ==
  ASSUME NEW Data, Fit(Data), NEW raw, NEW content \in Seq(PartSet(Data))
  PROVE  WithStopSequence(content, raw) \in Seq(PartSet(Data))
<1> DEFINE T == PartSet(Data)
           texts == {j \in DOMAIN content : content[j].kind = "text"}
           last == CHOOSE j \in texts : \A k \in texts : k <= j
           marked == [content EXCEPT ![last].body = Append(@, "[Stop]")]
<1>1. /\ DOMAIN content = 1..Len(content) /\ Len(content) \in Nat
      /\ \A j \in 1..Len(content) : content[j] \in T
  BY LenProperties, ElementOfSeq
<1>2. \A p \in T : [p EXCEPT !.body = Append(@, "[Stop]")] \in T
  <2> SUFFICES ASSUME NEW p \in T
               PROVE  [p EXCEPT !.body = Append(@, "[Stop]")] \in T
    OBVIOUS
  <2>1. "[Stop]" \in Data
    BY DEF Fit, Marks
  <2>2. Append(p.body, "[Stop]") \in Seq(Data)
    BY <2>1 DEF PartSet
  <2> QED
    BY <2>2 DEF PartSet
<1>3. WithStopSequence(content, raw) = content \/ WithStopSequence(content, raw) = marked
  BY DEF WithStopSequence
<1> HIDE DEF last, T
<1>4. marked \in Seq(T)
  <2>1. marked = [j \in 1..Len(content) |->
                    IF j = last THEN [content[j] EXCEPT !.body = Append(@, "[Stop]")]
                    ELSE content[j]]
    BY <1>1
  <2>2. \A j \in 1..Len(content) :
          (IF j = last THEN [content[j] EXCEPT !.body = Append(@, "[Stop]")] ELSE content[j]) \in T
    BY <1>1, <1>2
  <2> DEFINE F(j) == IF j = last THEN [content[j] EXCEPT !.body = Append(@, "[Stop]")]
                     ELSE content[j]
  <2>3. marked = [j \in 1..Len(content) |-> F(j)] /\ \A j \in 1..Len(content) : F(j) \in T
    BY <2>1, <2>2, Zenon
  <2> HIDE DEF marked, F
  <2> QED
    BY <1>1, <2>3
<1> QED
  BY <1>3, <1>4, Zenon DEF T

LEMMA ClaudeContent ==
  ASSUME NEW Data, Fit(Data), Names(Data), NEW raw, IsAnswer("claude", raw)
  PROVE  ClaudeResponse(raw).content \in Seq(PartSet(Data))
<1> DEFINE T == PartSet(Data)
           S == [kind: {"text", "thinking", "redacted", "tool_use"}, id: {None}, name: Name,
                 body: Seq(STRING)]
           given == raw.content
           F(j) == IF given[j].kind = "tool_use" THEN [given[j] EXCEPT !.id = IdAt(j)] ELSE given[j]
           content == [j \in DOMAIN given |-> F(j)]
<1>1. given \in Seq(S)
  BY DEF IsAnswer
<1>2. \A p \in S, id \in Data : p \in T /\ [p EXCEPT !.id = id] \in T
  <2>1. Seq(STRING) \subseteq Seq(Data) /\ Name \subseteq Data /\ None \in Data
    BY SeqMonotonic DEF Fit, Name
  <2> QED
    BY <2>1 DEF PartSet, Kinds
<1> HIDE DEF given, S
<1>3. DOMAIN given = 1..Len(given) /\ Len(given) \in Nat /\ \A j \in 1..Len(given) : given[j] \in S
  BY <1>1, LenProperties, ElementOfSeq
<1>4. ASSUME NEW j \in 1..Len(given)
      PROVE  F(j) \in T
  <2>1. IdAt(j) \in Data
    BY <1>3 DEF Names
  <2>2. given[j] \in T /\ [given[j] EXCEPT !.id = IdAt(j)] \in T
    BY <1>2, <1>3, <2>1
  <2> QED
    BY <2>2, Zenon
<1> HIDE DEF T, F
<1>5. content \in Seq(T)
  BY <1>3, <1>4
<1> DEFINE stopped == WithStopSequence(content, raw)
<1> HIDE DEF content
<1>6. stopped \in Seq(T)
  BY <1>5, WithStopType DEF T
<1>7. ClaudeResponse(raw).content = <<>> \/ ClaudeResponse(raw).content = stopped
  BY DEF ClaudeResponse, Response, stopped, content, F, given
<1>8. <<>> \in Seq(T)
  BY EmptySeq
<1> HIDE DEF stopped
<1> QED
  BY <1>6, <1>7, <1>8, Zenon DEF T

-----------------------------------------------------------------------------
\* What the services answer is typed, whatever the adapter.

\* A set that has what an answer brings along.
Brought(raw) ==
  {None} \cup STRING \cup Marks \cup {IdAt(j) : j \in Nat} \cup {raw.legacy.name}
    \cup {item.name : item \in Range(raw.items)}
    \cup {[item EXCEPT !.name = AdvancedName[item.type]].name : item \in Range(raw.items)}

LEMMA AnswerContent ==
  ASSUME adapter \in Adapters, NEW raw \in Answers[adapter]
  PROVE  /\ Fit(Brought(raw))
         /\ adapter \in Services
         /\ ResponseOf(raw).content \in Seq(PartSet(Brought(raw)))
<1> DEFINE Data == Brought(raw)
<1>1. Fit(Data)
  BY DEF Fit, Brought
<1>2. Names(Data)
  BY DEF Names, Brought
<1>3. raw.legacy.name \in Data
  BY DEF Brought
<1>4. \A item \in Range(raw.items) : Named(Data, item)
  BY DEF Named, Brought
<1>5. adapter \in Services /\ IsAnswer(adapter, raw)
  BY AnswersAssumption DEF Services
<1> HIDE DEF Data
<1>6. CASE adapter = "chat"
  <2>1. IsAnswer("chat", raw)
    BY <1>5, <1>6
  <2>2. ChatResponse(raw).content \in Seq(PartSet(Data))
    BY <1>1, <1>2, <1>3, <2>1, ChatContent
  <2>3. ResponseOf(raw) = ChatResponse(raw)
    BY <1>6 DEF ResponseOf
  <2> QED
    BY <1>1, <1>5, <2>2, <2>3 DEF Data
<1>7. CASE adapter = "responses"
  <2>1. IsAnswer("responses", raw)
    BY <1>5, <1>7
  <2>2. ResponsesResponse(raw).content \in Seq(PartSet(Data))
    BY <1>1, <1>2, <1>4, <2>1, ResponsesContent
  <2>3. ResponseOf(raw) = ResponsesResponse(raw)
    BY <1>7 DEF ResponseOf
  <2> QED
    BY <1>1, <1>5, <2>2, <2>3 DEF Data
<1>8. CASE adapter = "gemini"
  <2>1. IsAnswer("gemini", raw)
    BY <1>5, <1>8
  <2>2. GeminiResponse(raw).content \in Seq(PartSet(Data))
    BY <1>1, <1>2, <2>1, GeminiContent
  <2>3. ResponseOf(raw) = GeminiResponse(raw)
    BY <1>8 DEF ResponseOf
  <2> QED
    BY <1>1, <1>5, <2>2, <2>3 DEF Data
<1>9. CASE adapter = "claude"
  <2>1. IsAnswer("claude", raw)
    BY <1>5, <1>9
  <2>2. ClaudeResponse(raw).content \in Seq(PartSet(Data))
    BY <1>1, <1>2, <2>1, ClaudeContent
  <2>3. ResponseOf(raw) = ClaudeResponse(raw)
    BY <1>9 DEF ResponseOf
  <2> QED
    BY <1>1, <1>5, <2>2, <2>3 DEF Data
<1> QED
  BY <1>5, <1>6, <1>7, <1>8, <1>9 DEF Services

-----------------------------------------------------------------------------
\* The inductive invariant of the conversation.

CallSet(Data) == {p \in PartSet(Data) : p.kind \in {"tool_use"}}

\* A memory h and the calls q that wait: messages of one part, of which the first n behind
\* the prompt are the opening, and the next k are left out.
Stored(service, h, q, n, k) ==
  /\ service \in Services
  /\ \E Data : /\ Fit(Data) /\ h \in Seq(Held(Data)) /\ q \in Seq(CallSet(Data))
               /\ SubSeq(h, 1, 1 + n) \in Seq(Plain(Data))
  /\ EndsPaired(service, h)
  /\ n \in Nat /\ k \in Nat /\ 1 + n + k <= Len(h) /\ Begins(h, 2 + n + k)

LEMMA PlainMonotone ==
  ASSUME NEW Data, NEW More, Data \subseteq More
  PROVE  /\ Seq(Plain(Data)) \subseteq Seq(Plain(More))
         /\ Seq(CallSet(Data)) \subseteq Seq(CallSet(More))
<1>1. Seq(Data) \subseteq Seq(More)
  BY SeqMonotonic
<1>2. PartSet(Data) \subseteq PartSet(More)
  BY <1>1 DEF PartSet
<1>3. MessageSet(Data) \subseteq MessageSet(More)
  <2>1. Seq(PartSet(Data)) \subseteq Seq(PartSet(More))
    BY <1>2, SeqMonotonic
  <2> QED
    BY <2>1 DEF MessageSet
<1>4. \A role, kinds : One(Data, role, kinds) \subseteq One(More, role, kinds)
  BY <1>2, <1>3 DEF One
<1>5. Instruction(Data) \subseteq Instruction(More)
  BY <1>1, <1>3 DEF Instruction
<1>6. Plain(Data) \subseteq Plain(More)
  BY <1>4, <1>5 DEF Plain
<1>7. CallSet(Data) \subseteq CallSet(More)
  BY <1>2 DEF CallSet
<1> QED
  BY <1>6, <1>7, SeqMonotonic

LEMMA FitUnion ==
  ASSUME NEW Data, Fit(Data), NEW More
  PROVE  Fit(Data \cup More) /\ Data \subseteq Data \cup More /\ More \subseteq Data \cup More
BY DEF Fit

\* A memory grows by messages that have their calls answered.
LEMMA StoredGrows ==
  ASSUME NEW service, NEW h, NEW q, NEW n, NEW k, Stored(service, h, q, n, k),
         NEW Data, Fit(Data), h \in Seq(Held(Data)), SubSeq(h, 1, 1 + n) \in Seq(Plain(Data)),
         NEW r \in Seq(CallSet(Data)),
         NEW g \in Seq(Held(Data)), EndsPaired(service, g), Paired(Sent(service, g)), Begins(g, 1)
  PROVE  Stored(service, h \o g, r, n, k)
<1> DEFINE hg == h \o g
           m == Len(h)
           j == 2 + n + k
<1>1. /\ service \in Services /\ EndsPaired(service, h)
      /\ n \in Nat /\ k \in Nat /\ 1 + n + k <= m /\ Begins(h, j)
  BY DEF Stored
<1>2. EndsPaired(service, hg)
  BY <1>1, EndsCat
<1>3. /\ hg \in Seq(Held(Data)) /\ Len(hg) = m + Len(g)
      /\ \A i \in 0..m : SubSeq(hg, 1, i) = SubSeq(h, 1, i)
  BY CatEnds
<1>4. /\ \A i \in 1..m : Begins(hg, i) <=> Begins(h, i)
      /\ \A i \in 1..Len(g) + 1 : Begins(hg, m + i) <=> Begins(g, i)
  BY BeginsCat
<1>5. m \in Nat /\ Len(g) \in Nat
  BY LenProperties
<1> HIDE DEF hg, m
<1>6. 1 + n \in 0..m /\ 1 + n + k <= m + Len(g) /\ (j \in 1..m \/ j = m + 1)
  BY <1>1, <1>5
<1>7. SubSeq(hg, 1, 1 + n) \in Seq(Plain(Data))
  BY <1>3, <1>6
<1>8. Begins(hg, j)
  <2>1. 1 \in 1..Len(g) + 1
    BY <1>5
  <2> HIDE DEF j
  <2> QED
    BY <1>1, <1>4, <1>6, <2>1
<1>9. Stored(service, hg, r, n, k)
  BY <1>1, <1>2, <1>3, <1>6, <1>7, <1>8 DEF Stored
<1> QED
  BY <1>9 DEF hg

LEMMA StoredPlain ==
  ASSUME NEW service, NEW h, NEW q, NEW n, NEW k, Stored(service, h, q, n, k),
         NEW Data, Fit(Data), NEW g \in Seq(Plain(Data)), NEW r \in Seq(CallSet(Data))
  PROVE  Stored(service, h \o g, q, n, k) /\ Stored(service, h \o g, r, n, k)
<1>1. service \in Services
  BY DEF Stored
<1>2. PICK Old : /\ Fit(Old) /\ h \in Seq(Held(Old)) /\ q \in Seq(CallSet(Old))
                 /\ SubSeq(h, 1, 1 + n) \in Seq(Plain(Old))
  BY DEF Stored
<1> DEFINE All == Old \cup Data
           opened == SubSeq(h, 1, 1 + n)
<1>3. Fit(All) /\ Old \subseteq All /\ Data \subseteq All
  BY <1>2, FitUnion
<1> HIDE DEF All, opened
<1>4. h \in Seq(Held(All))
  BY <1>2, <1>3, HeldMonotone
<1>5. /\ q \in Seq(CallSet(All)) /\ r \in Seq(CallSet(All)) /\ g \in Seq(Plain(All))
      /\ opened \in Seq(Plain(All))
  <2>1. /\ Seq(Plain(Old)) \subseteq Seq(Plain(All))
        /\ Seq(CallSet(Old)) \subseteq Seq(CallSet(All))
    BY <1>3, PlainMonotone
  <2>2. /\ Seq(Plain(Data)) \subseteq Seq(Plain(All))
        /\ Seq(CallSet(Data)) \subseteq Seq(CallSet(All))
    BY <1>3, PlainMonotone
  <2> QED
    BY <1>2, <2>1, <2>2 DEF opened
<1>6. /\ g \in Seq(Held(All)) /\ Paired(Sent(service, g))
      /\ EndsPaired(service, g) /\ Begins(g, 1)
  BY <1>1, <1>3, <1>5, PlainEnds
<1> QED
  BY <1>3, <1>4, <1>5, <1>6, StoredGrows DEF opened

LEMMA StoredExchange ==
  ASSUME NEW service, NEW h, NEW q, NEW n, NEW k, Stored(service, h, q, n, k), q # <<>>,
         NEW words \in Seq(STRING \cup Marks)
  PROVE  /\ Stored(service, h \o Exchange(Head(q), words), Tail(q), n, k)
         /\ Stored(service, h \o Exchange(Head(q), words), <<>>, n, k)
<1>1. service \in Services
  BY DEF Stored
<1>2. PICK Data : /\ Fit(Data) /\ h \in Seq(Held(Data)) /\ q \in Seq(CallSet(Data))
                  /\ SubSeq(h, 1, 1 + n) \in Seq(Plain(Data))
  BY DEF Stored
<1>3. words \in Seq(Data)
  <2>1. STRING \cup Marks \subseteq Data
    BY <1>2 DEF Fit
  <2> QED
    BY <2>1, SeqMonotonic
<1> DEFINE call == Head(q)
           rest == Tail(q)
           none == <<>>
<1>4. call \in CallSet(Data) /\ rest \in Seq(CallSet(Data)) /\ none \in Seq(CallSet(Data))
  BY <1>2
<1>5. call \in PartSet(Data) /\ call.kind = "tool_use"
  BY <1>4 DEF CallSet
<1> HIDE DEF call, rest, none
<1> DEFINE g == Exchange(call, words)
<1>6. /\ g \in Seq(Held(Data)) /\ Paired(Sent(service, g))
      /\ EndsPaired(service, g) /\ Begins(g, 1)
  BY <1>1, <1>2, <1>3, <1>5, ExchangeEnds
<1> HIDE DEF g
<1>7. Stored(service, h \o g, rest, n, k) /\ Stored(service, h \o g, none, n, k)
  BY <1>2, <1>4, <1>6, StoredGrows
<1> QED
  BY <1>7 DEF g, call, rest, none

\* What is remembered of a memory is one itself, and what is sent of it has every call
\* followed by its result.
LEMMA StoredRemembered ==
  ASSUME NEW service, NEW h, NEW q, NEW n, NEW k, Stored(service, h, q, n, k)
  PROVE  LET r == SubSeq(h, 1, 1 + n) \o SubSeq(h, 2 + n + k, Len(h))
         IN  /\ \E Data : Fit(Data) /\ r \in Seq(Held(Data))
             /\ Paired(Sent(service, r))
<1> DEFINE a == SubSeq(h, 1, 1 + n)
           b == SubSeq(h, 2 + n + k, Len(h))
           r == a \o b
<1>1. PICK Data : Fit(Data) /\ h \in Seq(Held(Data)) /\ a \in Seq(Plain(Data))
  BY DEF Stored
<1>2. /\ service \in Services /\ EndsPaired(service, h)
      /\ n \in Nat /\ k \in Nat /\ 1 + n + k <= Len(h) /\ Begins(h, 2 + n + k)
  BY DEF Stored
<1>3. Len(h) \in Nat /\ \A i \in 1..Len(h) : h[i] \in Held(Data)
  BY <1>1, LenProperties, ElementOfSeq
<1>4. 2 + n + k \in 1..Len(h) + 1
  BY <1>2, <1>3
<1>5. Paired(Sent(service, b))
  BY <1>2, <1>4 DEF EndsPaired
<1>6. b \in Seq(Held(Data))
  <2> DEFINE j == 2 + n + k
  <2>1. j \in Int /\ Len(h) \in Int /\ \A i \in j..Len(h) : h[i] \in Held(Data)
    BY <1>3, <1>4
  <2> HIDE DEF j
  <2>2. SubSeq(h, j, Len(h)) \in Seq(Held(Data))
    BY <2>1, SubSeqProperties
  <2> QED
    BY <2>2 DEF j
<1> HIDE DEF a, b
<1>7. a \in Seq(Held(Data)) /\ Paired(Sent(service, a))
  BY <1>1, <1>2, PlainEnds
<1> DEFINE s == Sent(service, a)
           t == Sent(service, b)
<1>8. Sent(service, r) = s \o t /\ s \in Seq(SaidSet(Data)) /\ t \in Seq(SaidSet(Data))
  BY <1>1, <1>2, <1>6, <1>7, SentCat
<1>9. Paired(s) /\ Paired(t)
  BY <1>5, <1>7
<1> HIDE DEF s, t
<1>10. Paired(s \o t)
  BY <1>8, <1>9, PairedCat
<1>11. r \in Seq(Held(Data))
  BY <1>6, <1>7, ConcatProperties
<1>12. Paired(Sent(service, r))
  BY <1>8, <1>10
<1> HIDE DEF r
<1>13. (\E D : Fit(D) /\ r \in Seq(Held(D))) /\ Paired(Sent(service, r))
  BY <1>1, <1>11, <1>12
<1> QED
  BY <1>13 DEF r, a, b

\* A plan stands at place j of a memory, or behind it.
PlannedFrom(h, j) == \E i \in j..Len(h) : h[i] = PlanMessage

LEMMA PlannedCat ==
  ASSUME NEW S, NEW h \in Seq(S), NEW g \in Seq(S), NEW j \in Nat \ {0}
  PROVE  /\ PlannedFrom(h, j) => PlannedFrom(h \o g, j)
         /\ (j <= Len(h) + 1 /\ g = <<PlanMessage>>) => PlannedFrom(h \o g, j)
<1> DEFINE hg == h \o g
<1>1. Len(h) \in Nat /\ Len(g) \in Nat
  BY LenProperties
<1>2. /\ Len(hg) = Len(h) + Len(g)
      /\ \A i \in 1..Len(h) + Len(g) : hg[i] = IF i <= Len(h) THEN h[i] ELSE g[i - Len(h)]
  BY ConcatProperties
<1> HIDE DEF hg
<1>3. ASSUME NEW i \in j..Len(h), h[i] = PlanMessage
      PROVE  PlannedFrom(hg, j)
  <2>1. i \in 1..Len(h) + Len(g) /\ i <= Len(h) /\ i \in j..Len(hg)
    BY <1>1, <1>2
  <2>2. hg[i] = PlanMessage
    BY <1>2, <1>3, <2>1
  <2> QED
    BY <2>1, <2>2 DEF PlannedFrom
<1>4. ASSUME j <= Len(h) + 1, g = <<PlanMessage>>
      PROVE  PlannedFrom(hg, j)
  <2> DEFINE i == Len(h) + 1
  <2>1. Len(g) = 1 /\ g[1] = PlanMessage
    BY <1>4
  <2>2. /\ i \in 1..Len(h) + Len(g) /\ ~(i <= Len(h)) /\ i - Len(h) = 1
        /\ i \in j..Len(hg)
    BY <1>1, <1>2, <1>4, <2>1
  <2> HIDE DEF i
  <2>3. hg[i] = PlanMessage
    BY <1>2, <2>1, <2>2
  <2> QED
    BY <2>2, <2>3 DEF PlannedFrom
<1> QED
  BY <1>3, <1>4 DEF PlannedFrom, hg

\* What the code adds to a memory, and the user.
Common == {None} \cup STRING \cup Marks

LEMMA Additions ==
  /\ Fit(Common)
  /\ <<Prompt>> \in Seq(Plain(Common)) /\ <<Continue>> \in Seq(Plain(Common))
  /\ <<PlanMessage>> \in Seq(Plain(Common))
  /\ \A parts \in Inputs :
       /\ [i \in DOMAIN parts |-> Message("user", <<parts[i]>>)] \in Seq(Plain(Common))
       /\ Len([i \in DOMAIN parts |-> Message("user", <<parts[i]>>)]) = Len(parts)
       /\ Len(parts) \in Nat
<1> DEFINE Data == Common
<1>1. Fit(Data)
  BY DEF Fit, Common
<1>2. Seq(STRING) \subseteq Seq(Data) /\ Name \subseteq Data
  BY <1>1, SeqMonotonic DEF Fit, Name
<1> HIDE DEF Data
<1>3. ASSUME NEW word \in {"prompt", "continue", "plan"}, NEW role \in {"system", "user"}
      PROVE  <<Message(role, <<Text(<<word>>)>>)>> \in Seq(Plain(Data))
  <2> DEFINE ws == <<word>>
             p == Text(ws)
             m == Message(role, <<p>>)
  <2>1. word \in Data
    BY <1>1 DEF Fit, Marks
  <2>2. ws \in Seq(Data)
    BY <2>1
  <2> HIDE DEF ws
  <2>3. p \in PartSet(Data) /\ p.kind = "text"
    BY <1>1, <2>2, TextType DEF Text, Part
  <2>4. m \in MessageSet(Data) /\ m.role = role
    <3>1. role \in Roles
      BY DEF Roles
    <3> HIDE DEF p
    <3> QED
      BY <2>3, <3>1, OnePart
  <2>5. ASSUME role = "system"
        PROVE  m \in Plain(Data)
    <3>1. m = Message("system", <<Text(ws)>>)
      BY <2>5
    <3> HIDE DEF m, p
    <3> QED
      BY <2>2, <2>4, <3>1 DEF Plain, Instruction
  <2>6. ASSUME role = "user"
        PROVE  m \in Plain(Data)
    <3>1. m = Message("user", <<p>>)
      BY <2>6
    <3> HIDE DEF m, p
    <3>2. m \in One(Data, "user", {"text", "attachment"})
      BY <2>3, <2>4, <2>6, <3>1 DEF One
    <3> QED
      BY <3>2 DEF Plain
  <2>7. m \in Plain(Data)
    <3> HIDE DEF m
    <3> QED
      BY <2>5, <2>6
  <2> HIDE DEF m
  <2>8. <<m>> \in Seq(Plain(Data))
    BY <2>7, OneType
  <2> QED
    BY <2>8 DEF m, p, ws
<1>4. ASSUME NEW parts \in Inputs
      PROVE  /\ [i \in DOMAIN parts |-> Message("user", <<parts[i]>>)] \in Seq(Plain(Data))
             /\ Len([i \in DOMAIN parts |-> Message("user", <<parts[i]>>)]) = Len(parts)
             /\ Len(parts) \in Nat
  <2>1. parts \in Seq(InputPart)
    BY InputsAssumption
  <2>2. InputPart \subseteq PartSet(Data) /\ \A p \in InputPart : p.kind \in {"text", "attachment"}
    BY <1>1, <1>2 DEF InputPart, PartSet, Kinds, Fit
  <2>3. parts \in Seq(PartSet(Data))
    BY <2>1, <2>2, SeqMonotonic
  <2>4. /\ \A i \in DOMAIN parts : parts[i] \in InputPart
        /\ DOMAIN parts = 1..Len(parts) /\ Len(parts) \in Nat
    BY <2>1, LenProperties, ElementOfSeq
  <2>5. \A i \in DOMAIN parts : parts[i].kind = "text" \/ parts[i].kind = "attachment"
    BY <2>2, <2>4
  <2>6. [i \in DOMAIN parts |-> Message("user", <<parts[i]>>)] \in Seq(Plain(Data))
    BY <1>1, <2>3, <2>5, PlainMessages
  <2> DEFINE g == [i \in DOMAIN parts |-> Message("user", <<parts[i]>>)]
  <2>7. DOMAIN g = 1..Len(parts)
    BY <2>4
  <2>8. DOMAIN g = 1..Len(g) /\ Len(g) \in Nat
    BY <2>6, LenProperties
  <2> HIDE DEF g
  <2>9. Len(g) = Len(parts)
    BY <2>4, <2>7, <2>8
  <2> QED
    BY <2>4, <2>6, <2>9 DEF g
<1>5. /\ <<Prompt>> \in Seq(Plain(Data)) /\ <<Continue>> \in Seq(Plain(Data))
      /\ <<PlanMessage>> \in Seq(Plain(Data))
  BY <1>3, Zenon DEF Prompt, Continue, PlanMessage
<1> QED
  BY <1>1, <1>4, <1>5 DEF Data

\* The memory is Stored with the calls that wait, behind what is left out there is a plan,
\* some call waits while tools run, and the request the service works on is the one made
\* of what is remembered.
ConversationInv ==
  /\ adapter \in Adapters
  /\ phase \in {"idle", "invoke", "planned", "sent", "tools"}
  /\ Stored(adapter, history, queue, opening, omitted)
  /\ omitted > 0 => settings.planner /\ PlannedFrom(history, 2 + opening + omitted)
  /\ phase = "tools" => queue # <<>>
  /\ phase = "sent" =>
       /\ request.messages = RequestOf(adapter, AntMessages(Remembered)).messages
       /\ request.system = RequestOf(adapter, AntMessages(Remembered)).system

\* The part of the invariant that is about the memory.
MemoryInv ==
  /\ Stored(adapter, history, queue, opening, omitted)
  /\ omitted > 0 => settings.planner /\ PlannedFrom(history, 2 + opening + omitted)

LEMMA StoredSize ==
  ASSUME NEW service, NEW h, NEW q, NEW n, NEW k, Stored(service, h, q, n, k)
  PROVE  /\ \E S : h \in Seq(S)
         /\ n \in Nat /\ k \in Nat /\ Len(h) \in Nat /\ 1 + n + k <= Len(h)
<1>1. PICK Data : h \in Seq(Held(Data))
  BY DEF Stored
<1>2. Len(h) \in Nat
  BY <1>1, LenProperties
<1> QED
  BY <1>1, <1>2 DEF Stored

\* A plan behind what is left out stays there when the memory grows.
LEMMA PlannedGrows ==
  ASSUME NEW service, NEW h, NEW q, NEW n, NEW k, Stored(service, h, q, n, k),
         NEW T, NEW g \in Seq(T), PlannedFrom(h, 2 + n + k)
  PROVE  PlannedFrom(h \o g, 2 + n + k)
<1> DEFINE j == 2 + n + k
<1>1. PICK R : h \in Seq(R)
  BY StoredSize
<1>2. j \in Nat \ {0}
  BY StoredSize
<1> DEFINE S == R \cup T
<1>3. h \in Seq(S) /\ g \in Seq(S)
  BY <1>1, SeqMonotonic
<1> HIDE DEF j, S
<1>4. PlannedFrom(h, j)
  BY DEF j
<1>5. PlannedFrom(h \o g, j)
  BY <1>2, <1>3, <1>4, PlannedCat
<1> QED
  BY <1>5 DEF j

LEMMA MemoryGrows ==
  ASSUME MemoryInv, UNCHANGED <<adapter, settings, opening, omitted>>,
         NEW T, NEW g \in Seq(T), history' = history \o g,
         Stored(adapter, history \o g, queue', opening, omitted)
  PROVE  MemoryInv'
<1>1. Stored(adapter, history, queue, opening, omitted)
  BY DEF MemoryInv
<1>2. Stored(adapter, history, queue, opening, omitted)'
  OBVIOUS
<1> DEFINE j == 2 + opening + omitted
<1>3. ASSUME omitted > 0
      PROVE  settings.planner /\ PlannedFrom(history \o g, j)
  <2>1. settings.planner /\ PlannedFrom(history, j)
    BY <1>3 DEF MemoryInv
  <2> QED
    BY <1>1, <2>1, PlannedGrows
<1> HIDE DEF j
<1>4. omitted' > 0 => settings'.planner /\ PlannedFrom(history', j')
  BY <1>3 DEF j
<1> QED
  BY <1>2, <1>4 DEF MemoryInv, j

LEMMA ConversationInvInit ==
  ASSUME ConversationInit
  PROVE  ConversationInv
<1>1. adapter \in Adapters /\ adapter \in Services
  BY AnswersAssumption DEF ConversationInit, Services
<1>2. /\ history = <<Prompt>> /\ queue = <<>> /\ phase = "idle"
      /\ opening = 0 /\ omitted = 0
  BY DEF ConversationInit
<1> DEFINE none == <<>>
           g == <<Prompt>>
<1>3. Fit(Common) /\ g \in Seq(Plain(Common)) /\ Len(g) = 1
  BY Additions
<1>4. none \in Seq(CallSet(Common))
  BY EmptySeq
<1> HIDE DEF g, none
<1>5. g \in Seq(Held(Common)) /\ EndsPaired(adapter, g) /\ \A j \in Nat : Begins(g, j)
  BY <1>1, <1>3, PlainEnds
<1>6. SubSeq(g, 1, 1 + 0) = g
  <2>1. 1 + 0 = Len(g)
    BY <1>3
  <2> QED
    BY <1>3, <2>1, SubSeqFull
<1>7. 1 + 0 + 0 <= Len(g) /\ Begins(g, 2 + 0 + 0)
  BY <1>3, <1>5
<1>8. Stored(adapter, g, none, 0, 0)
  BY <1>1, <1>3, <1>4, <1>5, <1>6, <1>7 DEF Stored
<1>9. Stored(adapter, history, queue, opening, omitted)
  BY <1>2, <1>8, Zenon DEF g, none
<1> QED
  BY <1>1, <1>2, <1>9 DEF ConversationInv

\* An attempt that fails leaves the memory and the calls alone.
LEMMA AttemptKeeps ==
  ASSUME ConversationInv, NEW error, AttemptFails(error), phase = "sent",
         UNCHANGED <<adapter, settings, opening, omitted>>
  PROVE  ConversationInv'
<1>1. UNCHANGED <<adapter, settings, history, queue, opening, omitted>>
  BY DEF AttemptFails
<1>2. MemoryInv'
  BY <1>1 DEF ConversationInv, MemoryInv
<1>3. UNCHANGED <<phase, request>> \/ phase' = "idle"
  BY DEF AttemptFails, Leave
<1>4. CASE UNCHANGED <<phase, request>>
  <2>1. UNCHANGED Remembered
    BY <1>1 DEF Remembered, NotOmitted
  <2> QED
    BY <1>1, <1>2, <1>4, <2>1 DEF ConversationInv, MemoryInv
<1>5. CASE phase' = "idle"
  BY <1>1, <1>2, <1>5 DEF ConversationInv, MemoryInv
<1> QED
  BY <1>3, <1>4, <1>5

LEMMA UserSaysKeeps ==
  ASSUME ConversationInv, NEW parts \in Inputs, UserSays(parts)
  PROVE  ConversationInv'
<1> DEFINE g == [i \in DOMAIN parts |-> Message("user", <<parts[i]>>)]
           none == <<>>
<1>1. /\ Fit(Common) /\ g \in Seq(Plain(Common)) /\ none \in Seq(CallSet(Common))
      /\ <<Prompt>> \in Seq(Plain(Common)) /\ Len(g) = Len(parts) /\ Len(g) \in Nat
  BY Additions, EmptySeq
<1>2. /\ history' = history \o g /\ phase' = "invoke"
      /\ opening' = IF history = <<Prompt>> THEN Len(parts) ELSE opening
      /\ UNCHANGED <<adapter, settings, queue, omitted>>
  BY DEF UserSays
<1> HIDE DEF g, none
<1>3. MemoryInv /\ Stored(adapter, history, queue, opening, omitted)
  BY DEF ConversationInv, MemoryInv
<1>4. Stored(adapter, history \o g, queue, opening, omitted)
  BY <1>1, <1>3, StoredPlain
<1>5. CASE history # <<Prompt>>
  <2>1. MemoryInv'
    BY <1>1, <1>2, <1>3, <1>4, <1>5, MemoryGrows
  <2> QED
    BY <1>2, <2>1 DEF ConversationInv, MemoryInv
<1>6. CASE history = <<Prompt>>
  <2> DEFINE p == <<Prompt>>
             h == history \o g
             n == Len(g)
  <2>1. p \in Seq(Plain(Common)) /\ history = p /\ Len(p) = 1
    BY <1>1, <1>6
  <2> HIDE DEF p
  <2>2. omitted = 0
    <3>1. opening \in Nat /\ omitted \in Nat /\ 1 + opening + omitted <= Len(history)
      BY <1>3, StoredSize
    <3>2. Len(history) = 1
      BY <2>1, Zenon
    <3> QED
      BY <3>1, <3>2
  <2>3. h \in Seq(Plain(Common)) /\ Len(h) = 1 + n
    <3>1. p \o g \in Seq(Plain(Common)) /\ Len(p \o g) = Len(p) + Len(g)
      BY <1>1, <2>1, ConcatProperties
    <3>2. h = p \o g
      BY <2>1, Zenon
    <3> HIDE DEF h
    <3> QED
      BY <2>1, <3>1, <3>2
  <2> HIDE DEF h, n
  <2>4. /\ adapter \in Services /\ EndsPaired(adapter, h)
        /\ \E Data : Fit(Data) /\ h \in Seq(Held(Data)) /\ queue \in Seq(CallSet(Data))
    BY <1>4 DEF Stored, h
  <2>5. PICK Old : Fit(Old) /\ h \in Seq(Held(Old)) /\ queue \in Seq(CallSet(Old))
    BY <2>4
  <2> DEFINE All == Old \cup Common
  <2>6. Fit(All) /\ Old \subseteq All /\ Common \subseteq All
    BY <2>5, FitUnion
  <2> HIDE DEF All
  <2>7. h \in Seq(Held(All)) /\ queue \in Seq(CallSet(All)) /\ h \in Seq(Plain(All))
    BY <2>3, <2>5, <2>6, HeldMonotone, PlainMonotone
  <2>8. SubSeq(h, 1, 1 + n) \in Seq(Plain(All))
    <3>1. SubSeq(h, 1, Len(h)) = h
      BY <2>7, SubSeqFull
    <3> QED
      BY <2>3, <2>7, <3>1
  <2>9. n \in Nat /\ 1 + n + 0 <= Len(h) /\ Begins(h, 2 + n + 0)
    <3>1. n \in Nat
      BY <1>1 DEF n
    <3>2. 2 + n + 0 \in Nat
      BY <3>1
    <3> QED
      BY <2>3, <2>4, <2>6, <2>7, <3>1, <3>2, PlainEnds
  <2>10. Stored(adapter, h, queue, n, 0)
    BY <2>4, <2>6, <2>7, <2>8, <2>9 DEF Stored
  <2>11. /\ adapter' = adapter /\ history' = h /\ queue' = queue /\ opening' = n
         /\ omitted' = 0
    BY <1>1, <1>2, <1>6, <2>2 DEF h, n
  <2>12. Stored(adapter, history, queue, opening, omitted)'
    BY <2>10, <2>11
  <2> QED
    BY <1>2, <2>11, <2>12 DEF ConversationInv
<1> QED
  BY <1>5, <1>6

\* The message of the solo mode is a plain one.
LEMMA RemindedIs ==
  ASSUME NEW q, NEW n, NEW k, Stored(adapter, history, q, n, k)
  PROVE  /\ Stored(adapter, Reminded, q, n, k)
         /\ \E g : g \in Seq(Plain(Common)) /\ Reminded = history \o g
<1> DEFINE more == Append(history, Continue)
           g == <<Continue>>
           none == <<>>
<1>1. /\ Fit(Common) /\ g \in Seq(Plain(Common)) /\ none \in Seq(CallSet(Common))
      /\ none \in Seq(Plain(Common))
  BY Additions, EmptySeq
<1>2. more = history \o g /\ history = history \o none
  <2>1. PICK R : history \in Seq(R)
    BY StoredSize
  <2> DEFINE S == R \cup {Continue}
  <2>2. history \in Seq(S) /\ Continue \in S
    BY <2>1, SeqMonotonic
  <2> HIDE DEF S
  <2> QED
    BY <2>2, AppendIsConcat, ConcatEmptySeq
<1> HIDE DEF more, g, none
<1>3. Reminded = more \/ Reminded = history
  BY DEF Reminded, more
<1>4. Stored(adapter, history \o g, q, n, k)
  BY <1>1, StoredPlain
<1>5. CASE Reminded = more
  BY <1>1, <1>2, <1>4, <1>5, Zenon
<1>6. CASE Reminded = history
  BY <1>1, <1>2, <1>6, Zenon
<1> QED
  BY <1>3, <1>5, <1>6

LEMMA PlanKeeps ==
  ASSUME ConversationInv, Plan
  PROVE  ConversationInv'
<1> DEFINE k == omitted'
           j == 2 + opening + k
           p == <<PlanMessage>>
           none == <<>>
<1>1. /\ settings.planner /\ k \in Cuts /\ history' = Append(Reminded, PlanMessage)
      /\ phase' = "planned" /\ UNCHANGED <<adapter, settings, opening, queue>>
  BY DEF Plan, PlannerActs
<1>2. Stored(adapter, history, queue, opening, omitted)
  BY DEF ConversationInv
<1>3. /\ opening \in Nat /\ omitted \in Nat /\ Len(history) \in Nat
      /\ 1 + opening + omitted <= Len(history)
  BY <1>2, StoredSize
<1>4. /\ k \in Nat /\ 1 + opening + k <= Len(history)
      /\ j \in DOMAIN history => history[j].role = "assistant"
  BY <1>1, <1>3 DEF Cuts
<1>5. Begins(history, j)
  <2>1. SUFFICES ASSUME j \in DOMAIN history
                 PROVE  Head(history[j].parts).kind # "tool_result"
    BY DEF Begins
  <2>2. PICK Data : history \in Seq(Held(Data))
    BY <1>2 DEF Stored
  <2> DEFINE m == history[j]
  <2>3. m \in Held(Data) /\ m.role = "assistant"
    BY <1>4, <2>1, <2>2, LenProperties, ElementOfSeq
  <2> HIDE DEF m
  <2>4. ~IsSystem(m)
    BY <2>3 DEF IsSystem
  <2>5. PICK role \in {"user", "assistant"}, x \in PartSet(Data) :
          /\ m = Message(role, <<x>>)
          /\ \/ role = "user" /\ x.kind \in {"text", "attachment", "tool_result"}
             \/ role = "assistant" /\ x.kind \in {"text", "thinking", "redacted", "tool_use"}
    BY <2>3, <2>4, HeldCases
  <2>6. m.role = role /\ m.parts = <<x>> /\ Head(m.parts) = x
    BY <2>5 DEF Message
  <2>7. x.kind # "tool_result"
    BY <2>3, <2>5, <2>6
  <2> QED
    BY <2>6, <2>7 DEF m
<1> HIDE DEF j, k
<1>6. Stored(adapter, history, queue, opening, k)
  BY <1>2, <1>4, <1>5 DEF Stored, j
<1>7. PICK g : g \in Seq(Plain(Common)) /\ Reminded = history \o g
  BY <1>6, RemindedIs
<1>8. Stored(adapter, Reminded, queue, opening, k)
  BY <1>6, RemindedIs
<1>9. Fit(Common) /\ p \in Seq(Plain(Common)) /\ none \in Seq(CallSet(Common))
  BY Additions, EmptySeq
<1>10. PICK R : Reminded \in Seq(R)
  BY <1>8, StoredSize
<1> DEFINE S == R \cup {PlanMessage}
<1>11. Reminded \in Seq(S) /\ p \in Seq(S) /\ PlanMessage \in S
  <2>1. Reminded \in Seq(S) /\ PlanMessage \in S
    BY <1>10, SeqMonotonic
  <2> HIDE DEF S
  <2> QED
    BY <2>1, OneType
<1> HIDE DEF S
<1>12. Append(Reminded, PlanMessage) = Reminded \o p
  BY <1>11, AppendIsConcat
<1>13. p = <<PlanMessage>>
  OBVIOUS
<1> HIDE DEF p, none
<1>14. Stored(adapter, Reminded \o p, queue, opening, k)
  BY <1>8, <1>9, StoredPlain
<1>15. j \in Nat \ {0} /\ j <= Len(Reminded) + 1
  BY <1>8, StoredSize DEF j
<1>16. PlannedFrom(Reminded \o p, j)
  BY <1>11, <1>13, <1>15, PlannedCat
<1>17. history' = Reminded \o p /\ omitted' = k /\ UNCHANGED <<adapter, queue, opening, settings>>
  BY <1>1, <1>12 DEF k
<1>18. Stored(adapter, history, queue, opening, omitted)'
  BY <1>14, <1>17
<1>19. settings'.planner /\ PlannedFrom(history', 2 + opening' + omitted')
  BY <1>1, <1>16, <1>17 DEF j
<1> QED
  BY <1>1, <1>18, <1>19 DEF ConversationInv

\* What is left of a planner that failed, and of an invocation: the message of the solo mode.
LEMMA RemindedKeeps ==
  ASSUME ConversationInv, history' = Reminded,
         UNCHANGED <<adapter, settings, queue, opening, omitted>>
  PROVE  MemoryInv'
<1>1. MemoryInv /\ Stored(adapter, history, queue, opening, omitted)
  BY DEF ConversationInv, MemoryInv
<1>2. PICK g : g \in Seq(Plain(Common)) /\ Reminded = history \o g
  BY <1>1, RemindedIs
<1>3. Stored(adapter, Reminded, queue, opening, omitted)
  BY <1>1, RemindedIs
<1>4. Stored(adapter, history \o g, queue', opening, omitted)
  BY <1>2, <1>3
<1> QED
  BY <1>1, <1>2, <1>4, MemoryGrows

LEMMA InvokeKeeps ==
  ASSUME ConversationInv, Invoke
  PROVE  ConversationInv'
<1> DEFINE r == FullRequest(NotOmitted(Reminded))
<1>1. /\ history' = Reminded /\ UNCHANGED <<adapter, settings, queue, opening, omitted>>
      /\ (phase' = "sent" /\ request' = r) \/ phase' = "idle"
  BY DEF Invoke, Leave
<1>2. MemoryInv'
  BY <1>1, RemindedKeeps
<1>3. NotOmitted(Reminded) = Remembered'
  BY <1>1 DEF Remembered, NotOmitted
<1>4. /\ r.messages = RequestOf(adapter, AntMessages(Remembered')).messages
      /\ r.system = RequestOf(adapter, AntMessages(Remembered')).system
  BY <1>3 DEF FullRequest
<1> HIDE DEF r
<1>5. CASE phase' = "sent" /\ request' = r
  <2>1. /\ request'.messages = RequestOf(adapter', AntMessages(Remembered')).messages
        /\ request'.system = RequestOf(adapter', AntMessages(Remembered')).system
    BY <1>1, <1>4, <1>5
  <2>2. adapter' \in Adapters
    BY <1>1 DEF ConversationInv
  <2> QED
    BY <1>2, <1>5, <2>1, <2>2 DEF ConversationInv, MemoryInv
<1>6. CASE phase' = "idle"
  BY <1>1, <1>2, <1>6 DEF ConversationInv, MemoryInv
<1> QED
  BY <1>1, <1>5, <1>6

\* The thoughts and the text of a response become messages, its calls wait.
LEMMA ResponseKeeps ==
  ASSUME ConversationInv, UNCHANGED <<adapter, settings, opening, omitted>>,
         NEW r, TakeResponse(r),
         NEW Data, Fit(Data), r.content \in Seq(PartSet(Data))
  PROVE  ConversationInv'
<1> DEFINE content == r.content
           thoughts == OfKinds(content, {"thinking", "redacted"})
           texts == OfKinds(content, {"text"})
           words == WordsOf(texts)
           said == TextOf(words)
           calls == OfKinds(content, {"tool_use"})
           g == [i \in DOMAIN thoughts |-> Message("assistant", <<thoughts[i]>>)]
           t == [i \in DOMAIN said |-> Message("assistant", <<Text(words)>>)]
           u == [i \in DOMAIN said |-> Message("assistant", <<said[i]>>)]
<1>1. /\ history' = history \o g \o t /\ queue' = calls
      /\ phase' = IF calls = <<>> THEN "idle" ELSE "tools"
  BY DEF TakeResponse, Leave
<1>2. content \in Seq(PartSet(Data))
  OBVIOUS
<1> HIDE DEF content
<1>3. /\ thoughts \in Seq({p \in PartSet(Data) : p.kind \in {"thinking", "redacted"}})
      /\ texts \in Seq({p \in PartSet(Data) : p.kind \in {"text"}})
      /\ calls \in Seq(CallSet(Data))
  BY <1>2, OfKindsType DEF CallSet
<1> HIDE DEF thoughts, texts, calls
<1>4. thoughts \in Seq(PartSet(Data)) /\ texts \in Seq(PartSet(Data))
  BY <1>3, SeqMonotonic
<1>5. \A i \in DOMAIN thoughts : thoughts[i].kind \in {"thinking", "redacted"}
  <2> DEFINE S == {p \in PartSet(Data) : p.kind \in {"thinking", "redacted"}}
  <2>1. \A i \in DOMAIN thoughts : thoughts[i] \in S
    BY <1>3, LenProperties, ElementOfSeq
  <2> QED
    BY <2>1
<1>6. g \in Seq(Plain(Data))
  BY <1>4, <1>5, PlainMessages
<1>7. words \in Seq(Data)
  BY <1>4, WordsOfType
<1> HIDE DEF words
<1>8. said \in Seq(PartSet(Data))
  BY <1>7, TextType
<1>9. \A i \in DOMAIN said : said[i] = Text(words) /\ said[i].kind = "text"
  BY DEF TextOf, Text, Part
<1> HIDE DEF said
<1>10. u \in Seq(Plain(Data))
  BY <1>8, <1>9, PlainMessages
<1>11. t = u
  BY <1>9
<1> HIDE DEF u, t, g
<1>12. t \in Seq(Plain(Data))
  BY <1>10, <1>11
<1> DEFINE gt == g \o t
<1>13. gt \in Seq(Plain(Data))
  BY <1>6, <1>12, ConcatProperties
<1>14. MemoryInv /\ Stored(adapter, history, queue, opening, omitted)
  BY DEF ConversationInv, MemoryInv
<1>15. history' = history \o gt
  <2>1. PICK R : history \in Seq(R)
    BY <1>14, StoredSize
  <2> DEFINE S == R \cup Plain(Data)
  <2>2. history \in Seq(S) /\ g \in Seq(S) /\ t \in Seq(S)
    BY <1>6, <1>12, <2>1, SeqMonotonic
  <2> HIDE DEF S
  <2> QED
    BY SMTT(20), <1>1, <2>2, ConcatAssociative
<1> HIDE DEF gt
<1>16. Stored(adapter, history \o gt, calls, opening, omitted)
  BY <1>3, <1>13, <1>14, StoredPlain
<1>17. MemoryInv'
  BY <1>1, <1>13, <1>14, <1>15, <1>16, MemoryGrows
<1> QED
  BY <1>1, <1>17 DEF ConversationInv, MemoryInv

LEMMA ServiceAnswersKeeps ==
  ASSUME ConversationInv, NEW raw \in Answers[adapter], ServiceAnswers(raw)
  PROVE  ConversationInv'
<1> DEFINE r == ResponseOf(raw)
           left == Leave("idle") /\ UNCHANGED <<history, stop, queue, handedOut>>
<1>1. phase = "sent" /\ UNCHANGED <<adapter, settings, opening, omitted>>
  BY DEF ServiceAnswers
<1>2. \/ AttemptFails("UnexpectedEmptyResponseException")
      \/ left
      \/ TakeResponse(r)
  BY DEF ServiceAnswers
<1>3. CASE AttemptFails("UnexpectedEmptyResponseException")
  BY <1>1, <1>3, AttemptKeeps
<1>4. CASE left
  <2>1. phase' = "idle" /\ UNCHANGED <<adapter, settings, history, queue, opening, omitted>>
    BY <1>1, <1>4 DEF Leave
  <2>2. MemoryInv'
    BY <2>1 DEF ConversationInv, MemoryInv
  <2> QED
    BY <2>1, <2>2 DEF ConversationInv, MemoryInv
<1>5. CASE TakeResponse(r)
  <2>1. Fit(Brought(raw)) /\ r.content \in Seq(PartSet(Brought(raw)))
    BY AnswerContent DEF ConversationInv
  <2> HIDE DEF r
  <2> QED
    BY <1>1, <1>5, <2>1, ResponseKeeps
<1> QED
  BY <1>2, <1>3, <1>4, <1>5

LEMMA ToolKeeps ==
  ASSUME ConversationInv, RunTool \/ ToolFails
  PROVE  ConversationInv'
<1>1. /\ phase = "tools" /\ queue # <<>> /\ MemoryInv
      /\ Stored(adapter, history, queue, opening, omitted)
      /\ UNCHANGED <<adapter, settings, opening, omitted>>
  BY DEF ConversationInv, MemoryInv, RunTool, ToolFails
<1> DEFINE grown(words) == history \o Exchange(Head(queue), words)
<1>2. ASSUME NEW words, history' = grown(words), Stored(adapter, grown(words), queue', opening, omitted)
      PROVE  MemoryInv'
  <2> DEFINE g == Exchange(Head(queue), words)
             T == {g[1], g[2]}
  <2>1. g \in Seq(T)
    BY DEF Exchange
  <2> HIDE DEF g, T
  <2> QED
    BY <1>1, <1>2, <2>1, MemoryGrows DEF g
<1>3. CASE RunTool
  <2>1. PICK words \in ResultsOf(Head(queue)) : history' = history \o Exchange(Head(queue), words)
    BY <1>3 DEF RunTool
  <2>2. words \in Seq(STRING \cup Marks)
    <3> DEFINE w == <<"unsupported">>
    <3>1. w \in Seq(STRING \cup Marks)
      BY DEF Marks
    <3>2. ToolOutcomes \subseteq Seq(STRING \cup Marks)
      BY OutcomesAssumption, SeqMonotonic
    <3>3. words \in ToolOutcomes \/ words = w
      BY <2>1 DEF ResultsOf
    <3> HIDE DEF w
    <3> QED
      BY <3>1, <3>2, <3>3
  <2>3. Stored(adapter, history \o Exchange(Head(queue), words), Tail(queue), opening, omitted)
    BY <1>1, <2>2, StoredExchange
  <2>4. queue' = Tail(queue) /\ phase' = IF queue' = <<>> THEN "invoke" ELSE "tools"
    BY <1>3 DEF RunTool
  <2>5. MemoryInv'
    BY <1>2, <2>1, <2>3, <2>4
  <2> QED
    BY <1>1, <2>4, <2>5 DEF ConversationInv, MemoryInv
<1>4. CASE ToolFails
  <2> DEFINE w == <<"failed">>
             none == <<>>
  <2>1. /\ history' = history \o Exchange(Head(queue), w)
        /\ queue' = none /\ phase' = "idle"
    BY <1>4 DEF ToolFails
  <2>2. w \in Seq(STRING \cup Marks)
    BY DEF Marks
  <2> HIDE DEF w
  <2>3. Stored(adapter, history \o Exchange(Head(queue), w), none, opening, omitted)
    BY <1>1, <2>2, StoredExchange
  <2>4. MemoryInv'
    BY <1>2, <2>1, <2>3
  <2> QED
    BY <1>1, <2>1, <2>4 DEF ConversationInv, MemoryInv
<1> QED
  BY <1>3, <1>4

LEMMA ConversationInvStep ==
  ASSUME ConversationInv, [ConversationNext]_conversationVars
  PROVE  ConversationInv'
<1>1. ASSUME NEW parts \in Inputs, UserSays(parts)
      PROVE  ConversationInv'
  BY <1>1, UserSaysKeeps
<1>2. CASE Invoke
  BY <1>2, InvokeKeeps
<1>3. CASE ServiceFails
  <2>1. PICK error \in ServiceErrors[adapter] : AttemptFails(error)
    BY <1>3 DEF ServiceFails
  <2>2. phase = "sent" /\ UNCHANGED <<adapter, settings, opening, omitted>>
    BY <1>3 DEF ServiceFails
  <2> QED
    BY <2>1, <2>2, AttemptKeeps
<1>4. ASSUME NEW raw \in Answers[adapter], ServiceAnswers(raw)
      PROVE  ConversationInv'
  BY <1>4, ServiceAnswersKeeps
<1>5. CASE Cancelled
  <2>1. phase' = "idle" /\ UNCHANGED <<adapter, settings, history, queue, opening, omitted>>
    BY <1>5 DEF Cancelled, Leave
  <2>2. MemoryInv'
    BY <2>1 DEF ConversationInv, MemoryInv
  <2> QED
    BY <2>1, <2>2 DEF ConversationInv, MemoryInv
<1>6. CASE RunTool \/ ToolFails
  BY <1>6, ToolKeeps
<1>7. CASE UNCHANGED conversationVars
  <2>1. UNCHANGED <<adapter, settings, history, queue, opening, omitted, phase, request>>
    BY <1>7 DEF conversationVars
  <2>2. MemoryInv' /\ UNCHANGED Remembered
    BY <2>1 DEF ConversationInv, MemoryInv, Remembered, NotOmitted
  <2> QED
    BY <2>1, <2>2 DEF ConversationInv, MemoryInv
<1>8. CASE Plan
  BY <1>8, PlanKeeps
<1>9. CASE PlanFails
  <2>1. /\ history' = Reminded /\ phase' = "idle"
        /\ UNCHANGED <<adapter, settings, queue, opening, omitted>>
    BY <1>9 DEF PlanFails
  <2>2. MemoryInv'
    BY <2>1, RemindedKeeps
  <2> QED
    BY <2>1, <2>2 DEF ConversationInv, MemoryInv
<1> QED
  BY <1>1, <1>2, <1>3, <1>4, <1>5, <1>6, <1>7, <1>8, <1>9 DEF ConversationNext

\* The memory of a conversation, the calls that wait and the request stay as
\* ConversationInv says, whatever the user, the service and the tools say and fail.
THEOREM ConversationInvariant == ConversationSpec => []ConversationInv
<1>1. ConversationInit => ConversationInv
  BY ConversationInvInit
<1>2. ConversationInv /\ [ConversationNext]_conversationVars => ConversationInv'
  BY ConversationInvStep
<1> QED
  BY <1>1, <1>2, PTL DEF ConversationSpec

LEMMA InvKeepsConversation ==
  ASSUME ConversationInv
  PROVE  ConversationKept
<1> SUFFICES ASSUME phase = "sent"
             PROVE  /\ Conversation(Spoken(request.messages)) = Conversation(Spoken(Remembered))
                    /\ adapter \in {"chat", "responses"} =>
                         Instructions(Remembered) \subseteq
                           Range(request.system) \cup Instructions(request.messages)
  <2>1. omitted > 0 =>
          settings.planner
            /\ \E i \in 2 + opening + omitted .. Len(history) : history[i] = PlanMessage
    BY DEF ConversationInv, PlannedFrom
  <2> QED
    BY <2>1 DEF ConversationKept
<1> DEFINE r == RequestOf(adapter, AntMessages(Remembered))
<1>1. request.messages = r.messages /\ request.system = r.system
  BY DEF ConversationInv
<1>2. adapter \in {"chat", "responses", "gemini", "claude"}
  BY DEF ConversationInv, Stored, Services
<1>3. PICK Data : Fit(Data) /\ Remembered \in Seq(Held(Data))
  BY StoredRemembered DEF ConversationInv, Remembered, NotOmitted
<1>4. Conversation(Spoken(r.messages)) = Conversation(Spoken(Remembered))
  BY <1>2, <1>3, ConversationSent
<1>5. ASSUME adapter = "chat"
      PROVE  Instructions(Remembered) \subseteq Range(r.system) \cup Instructions(r.messages)
  <2>1. SystemMessages(r.messages) = SystemMessages(Remembered)
    BY <1>3, <1>5, ChatInstructions
  <2> HIDE DEF r
  <2> QED
    BY <2>1, Zenon DEF Instructions
<1>6. ASSUME adapter = "responses"
      PROVE  Instructions(Remembered) \subseteq Range(r.system) \cup Instructions(r.messages)
  <2>1. r.system = Items(SystemMessages(Remembered))
    BY <1>3, <1>6, ResponsesInstructions
  <2> HIDE DEF r
  <2> QED
    BY <2>1, Zenon DEF Instructions
<1> HIDE DEF r
<1>7. Conversation(Spoken(request.messages)) = Conversation(Spoken(Remembered))
  BY <1>1, <1>4, Zenon
<1>8. adapter \in {"chat", "responses"} =>
        Instructions(Remembered) \subseteq Range(r.system) \cup Instructions(r.messages)
  BY <1>5, <1>6
<1> QED
  BY <1>1, <1>7, <1>8

\* Whatever is said, called and answered, a request carries all that is remembered, with
\* its speakers and in its order, to each of the four services; and what is not remembered
\* was left out by the planner, with a plan in its place.
THEOREM ConversationIsKept == ConversationSpec => []ConversationKept
<1>1. ConversationInv => ConversationKept
  BY InvKeepsConversation
<1> QED
  BY <1>1, ConversationInvariant, PTL

LEMMA InvAnswersCalls ==
  ASSUME ConversationInv
  PROVE  CallsAnswered
<1> SUFFICES ASSUME phase = "sent"
             PROVE  Paired(Said(Spoken(request.messages)))
  BY DEF CallsAnswered
<1>1. request.messages = RequestOf(adapter, AntMessages(Remembered)).messages
  BY DEF ConversationInv
<1>2. Paired(Sent(adapter, Remembered))
  BY StoredRemembered DEF ConversationInv, Remembered, NotOmitted
<1>3. Paired(Said(Spoken(RequestOf(adapter, AntMessages(Remembered)).messages)))
  BY <1>2 DEF Sent
<1> QED
  BY <1>1, <1>3, Zenon

\* No service is sent a call without its result or a result without its call, for any
\* length of the conversation, any batch of calls and wherever the planner cuts it.
THEOREM CallsAreAnswered == ConversationSpec => []CallsAnswered
<1>1. ConversationInv => CallsAnswered
  BY InvAnswersCalls
<1> QED
  BY <1>1, ConversationInvariant, PTL

=============================================================================
