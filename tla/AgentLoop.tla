------------------------------ MODULE AgentLoop ------------------------------
(***************************************************************************)
(* The agent loop of one request: DualModelOrchestrator._process_messages  *)
(* (server/dual_model_orchestrator.py) on top of the iteration limit of    *)
(* orchestrator/base.py and the tool queue of orchestrator/anthropic.py.   *)
(*                                                                         *)
(* Each turn of the loop calls one of two models and then takes one branch *)
(* on what came back.  What a model says, which tools it calls and how the *)
(* tools fare is the environment's choice; a response is abstracted to     *)
(* the class of its tool calls and of its text, since the loop looks at    *)
(* nothing else.  The constants are the thresholds at the top of the file. *)
(* No extension of an HTTP route raises OrchestratorInterruption, so the   *)
(* branches that handle one are not modelled.                              *)
(***************************************************************************)
EXTENDS Integers

CONSTANTS
  Routes,           \* what HttpRoutedEntry configures, one record per route
  FastFailures,     \* MAX_FAST_CONSECUTIVE_FAILURES
  HintErrors,       \* ERROR_HINT_THRESHOLD
  StopErrors,       \* ERROR_STOP_THRESHOLD
  StallRepeats,     \* STALL_REPEAT_THRESHOLD
  ResearchDepth,    \* MAX_CONSECUTIVE_8B_RESEARCH
  ResearchCycles,   \* MAX_RESEARCH_CYCLES
  Chunk,            \* PROGRESS_EXTENSION_CHUNK
  AbsoluteMax,      \* ABSOLUTE_MAX_ITERATIONS
  BumpBelow,        \* an escalation raises a limit below BumpBelow ...
  BumpTo,           \* ... to BumpTo
  EnableAllAfter,   \* escalations after which the whole pool is enabled
  EnoughSearches    \* searches after which a lone web_search is blocked

\* fast: a tool_orchestrator model is configured; requiresTools: not the SEARCH
\* route; simple: at most three estimated steps; limit: get_max_iterations;
\* pool: the number of tool groups left to escalate to; experts: the test
\* generator or the code reviewer is installed.
RouteType == [fast: BOOLEAN, requiresTools: BOOLEAN, simple: BOOLEAN,
              experts: BOOLEAN, limit: 1..AbsoluteMax, pool: Nat]

ASSUME ThresholdsAssumption ==
  /\ AbsoluteMax \in Nat \ {0}
  /\ Routes \subseteq RouteType
  /\ FastFailures \in Nat \ {0}
  /\ HintErrors \in Nat \ {0}
  /\ StopErrors \in Nat
  /\ HintErrors < StopErrors
  /\ StallRepeats \in Nat \ {0}
  /\ ResearchDepth \in Nat \ {0}
  /\ ResearchCycles \in Nat \ {0}
  /\ Chunk \in Nat \ {0}
  /\ BumpBelow \in Nat
  /\ BumpTo \in BumpBelow..AbsoluteMax
  /\ EnableAllAfter \in Nat \ {0}
  /\ EnoughSearches \in Nat \ {0}

VARIABLES
  route,                    \* the request's route, fixed
  pc,                       \* the top of the loop, its branches, or the end
  numIterations,            \* _num_iterations
  maxIterations,            \* max_iterations
  toolUseQueue,             \* class of the tool calls in _tool_use_queue
  lastToolNames,            \* class of _last_tool_names
  usingFastModel,           \* _using_fast_model
  forcePrimary,             \* _force_primary
  consecutive8bIters,       \* _consecutive_8b_iters
  repeatedContextCount,     \* _repeated_context_count
  lastFastContextHash,      \* _last_fast_context_hash: is there one?
  largeContext,             \* the context outgrew the fast model's window
  lastQueueHadError,        \* _last_queue_had_error
  totalConsecutiveErrors,   \* _total_consecutive_errors
  errorHintInjected,        \* _error_hint_injected
  consecutiveFastFailures,  \* _consecutive_fast_failures
  hadToolIterations,        \* _had_tool_iterations
  synthesisDone,            \* _synthesis_done
  researchCycleCount,       \* _research_cycle_count
  researchExecutorInjected, \* _research_executor_injected
  searchCallCount,          \* _search_call_count, up to EnoughSearches
  toolNudgeDone,            \* _tool_nudge_done
  nudgeSkipped,             \* _nudge_skipped
  postErrorNudgeDone,       \* _post_error_nudge_done
  postDescribeNudgeDone,    \* _post_describe_nudge_done
  toolPool,                 \* the number of groups in _tool_pool
  escalationCount,          \* _escalation_count
  synthetic,                \* does the memory hold synthetic messages?
  expertDue,                \* has an expert seen files enough to speak?
  advice,                   \* did one put its advice into the memory?
  lastStreamed,             \* the primary's last text since the last tools
  substantial,              \* _primary_streamed_chars > 200
  responseText,             \* does HttpIOInterface hold assistant text?
  spoke,                    \* history: the last call was the primary's and had text
  fastRun                   \* history: fast calls since the last primary one

selectVars == <<lastToolNames, forcePrimary, consecutive8bIters, usingFastModel,
                largeContext, fastRun>>
stallVars == <<repeatedContextCount, lastFastContextHash>>
errorVars == <<lastQueueHadError, totalConsecutiveErrors, errorHintInjected,
               consecutiveFastFailures>>
researchVars == <<researchCycleCount, researchExecutorInjected, searchCallCount>>
nudgeVars == <<toolNudgeDone, nudgeSkipped, postErrorNudgeDone,
               postDescribeNudgeDone>>
poolVars == <<toolPool, escalationCount>>
expertVars == <<expertDue, advice>>
textVars == <<lastStreamed, substantial, responseText, spoke>>
vars == <<route, pc, numIterations, maxIterations, toolUseQueue, selectVars,
          stallVars, errorVars, hadToolIterations, synthesisDone, researchVars,
          nudgeVars, poolVars, expertVars, synthetic, textVars>>

\* Tool calls of one response: none, a single web_search, other research tools
\* only (RESEARCH_TOOLS), or some that are not research.
Batches == {"none", "search", "research", "mixed"}
ResearchOnly(batch) == batch \in {"search", "research"}
\* The primary's text: up to 100 characters are never taken for a repetition.
Texts == {"none", "brief", "full"}

\* The type invariant.
TypeOK ==
  /\ route \in Routes
  /\ pc \in {"call", "branch", "done", "failed"}
  /\ numIterations \in Nat
  /\ maxIterations \in Nat
  /\ toolUseQueue \in Batches
  /\ lastToolNames \in Batches
  /\ usingFastModel \in BOOLEAN
  /\ forcePrimary \in BOOLEAN
  /\ consecutive8bIters \in 0..ResearchDepth
  /\ repeatedContextCount \in 0..StallRepeats
  /\ lastFastContextHash \in BOOLEAN
  /\ largeContext \in BOOLEAN
  /\ fastRun \in Nat
  /\ lastQueueHadError \in BOOLEAN
  /\ totalConsecutiveErrors \in Nat
  /\ errorHintInjected \in BOOLEAN
  /\ consecutiveFastFailures \in Nat
  /\ hadToolIterations \in BOOLEAN
  /\ synthesisDone \in BOOLEAN
  /\ researchCycleCount \in 0..ResearchCycles
  /\ researchExecutorInjected \in BOOLEAN
  /\ searchCallCount \in 0..EnoughSearches
  /\ toolNudgeDone \in BOOLEAN
  /\ nudgeSkipped \in BOOLEAN
  /\ postErrorNudgeDone \in BOOLEAN
  /\ postDescribeNudgeDone \in BOOLEAN
  /\ toolPool \in Nat
  /\ escalationCount \in Nat
  /\ synthetic \in BOOLEAN
  /\ expertDue \in BOOLEAN
  /\ advice \in BOOLEAN
  /\ lastStreamed \in Texts
  /\ substantial \in BOOLEAN
  /\ responseText \in BOOLEAN
  /\ spoke \in BOOLEAN

Init ==
  /\ route \in Routes
  /\ pc = "call"
  /\ numIterations = 0
  /\ maxIterations = route.limit
  /\ toolUseQueue = "none"
  /\ lastToolNames = "none"
  /\ usingFastModel = FALSE
  /\ forcePrimary = FALSE
  /\ consecutive8bIters = 0
  /\ repeatedContextCount = 0
  /\ lastFastContextHash = FALSE
  /\ largeContext \in BOOLEAN
  /\ fastRun = 0
  /\ lastQueueHadError = FALSE
  /\ totalConsecutiveErrors = 0
  /\ errorHintInjected = FALSE
  /\ consecutiveFastFailures = 0
  /\ hadToolIterations = FALSE
  /\ synthesisDone = FALSE
  /\ researchCycleCount = 0
  /\ researchExecutorInjected = FALSE
  /\ searchCallCount = 0
  /\ toolNudgeDone = FALSE
  /\ nudgeSkipped = FALSE
  /\ postErrorNudgeDone = FALSE
  /\ postDescribeNudgeDone = FALSE
  /\ toolPool = route.pool
  /\ escalationCount = 0
  /\ synthetic = FALSE
  /\ expertDue = FALSE
  /\ advice = FALSE
  /\ lastStreamed = "none"
  /\ substantial = FALSE
  /\ responseText = FALSE
  /\ spoke = FALSE

Least(a, b) == IF a <= b THEN a ELSE b

-----------------------------------------------------------------------------
(***************************************************************************)
(* The top of the loop: the iteration limit, and which model is called     *)
(***************************************************************************)

\* Progress extension: near the limit, and no consecutive errors counted.
MayExtend ==
  /\ numIterations >= maxIterations - 2
  /\ totalConsecutiveErrors = 0
  /\ maxIterations < AbsoluteMax

\* Mutant of Limit: extends without the cap.
Limit_Uncapped == IF MayExtend THEN maxIterations + Chunk ELSE maxIterations

Limit == IF MayExtend THEN Least(maxIterations + Chunk, AbsoluteMax)
                      ELSE maxIterations

\* _should_use_fast_model gets as far as looking at the last tools.
FastConsidered ==
  /\ route.fast
  /\ ~forcePrimary
  /\ numIterations > 0
  /\ ~(synthesisDone /\ researchCycleCount = 0)

Stalled == repeatedContextCount >= StallRepeats

TooDeep == consecutive8bIters + 1 > ResearchDepth

FastQualifies ==
  FastConsidered /\ ResearchOnly(lastToolNames) /\ ~Stalled /\ ~TooDeep

\* The limit is not reached: get_llm_params selects the model of this call.  The
\* depth counter also counts the times the context was too large.
SelectModel ==
  /\ pc = "call"
  /\ numIterations < Limit
  /\ maxIterations' = Limit
  /\ largeContext' \in {largeContext, TRUE}
  /\ usingFastModel' = (FastQualifies /\ ~largeContext')
  /\ consecutive8bIters' =
       IF FastQualifies THEN consecutive8bIters + 1
       ELSE IF FastConsidered THEN 0 ELSE consecutive8bIters
  /\ fastRun' = IF usingFastModel' THEN fastRun + 1 ELSE 0

OutOfIterations ==
  /\ pc = "call"
  /\ numIterations >= Limit
  /\ maxIterations' = Limit
  /\ pc' = "failed"
  /\ UNCHANGED <<route, numIterations, toolUseQueue, selectVars, stallVars,
                 errorVars, hadToolIterations, synthesisDone, researchVars,
                 nudgeVars, poolVars, expertVars, synthetic, textVars>>

\* The fast model refuses the context: the loop goes round again without it.
ContextOverflow ==
  /\ SelectModel
  /\ usingFastModel'
  /\ forcePrimary' = TRUE
  /\ lastToolNames' = "none"
  /\ UNCHANGED <<route, pc, numIterations, toolUseQueue, stallVars, errorVars,
                 hadToolIterations, synthesisDone, researchVars, nudgeVars,
                 poolVars, expertVars, synthetic, textVars>>

\* Any other exception of the call ends the request's agent.
CallFails ==
  /\ SelectModel
  /\ pc' = "failed"
  /\ UNCHANGED <<route, numIterations, toolUseQueue, lastToolNames, forcePrimary,
                 stallVars, errorVars, hadToolIterations, synthesisDone,
                 researchVars, nudgeVars, poolVars, expertVars, synthetic,
                 textVars>>

\* Mutant of FastAnswers: its text is remembered as streamed to the user.
FastAnswers_Tracked ==
  /\ SelectModel
  /\ usingFastModel'
  /\ numIterations' = numIterations + 1
  /\ toolUseQueue' \in Batches
  /\ lastStreamed' = "full"
  /\ spoke' = FALSE
  /\ pc' = "branch"
  /\ UNCHANGED <<route, lastToolNames, forcePrimary, errorVars, stallVars,
                 hadToolIterations, synthesisDone, researchVars, nudgeVars,
                 poolVars, expertVars, synthetic, substantial, responseText>>

\* The fast model's text goes to memory only, and is compared with its last one.
FastAnswers ==
  /\ SelectModel
  /\ usingFastModel'
  /\ numIterations' = numIterations + 1
  /\ toolUseQueue' \in Batches
  /\ \/ UNCHANGED stallVars
     \/ /\ lastFastContextHash
        /\ repeatedContextCount' = repeatedContextCount + 1
        /\ UNCHANGED lastFastContextHash
     \/ /\ repeatedContextCount' = 0
        /\ lastFastContextHash' = TRUE
  /\ spoke' = FALSE
  /\ pc' = "branch"
  /\ UNCHANGED <<route, lastToolNames, forcePrimary, errorVars,
                 hadToolIterations, synthesisDone, researchVars, nudgeVars,
                 poolVars, expertVars, synthetic, lastStreamed, substantial,
                 responseText>>

\* The primary's text: blank, the same as its last one (suppressed when longer
\* than 100 characters), or new.  The first text alone is substantial only if
\* it is a full one.
PrimarySpeaks ==
  \/ /\ spoke' = FALSE
     /\ UNCHANGED <<lastStreamed, substantial, responseText>>
  \/ /\ spoke' = TRUE
     /\ lastStreamed = "full"
     /\ UNCHANGED <<lastStreamed, substantial, responseText>>
  \/ /\ spoke' = TRUE
     /\ lastStreamed' \in {"brief", "full"}
     /\ substantial' \in {substantial, TRUE}
     /\ lastStreamed = "none" /\ lastStreamed' = "brief" => ~substantial'
     /\ responseText' = TRUE

\* Mutant of PrimaryAnswers: a response that calls tools is no iteration.
PrimaryAnswers_Uncounted ==
  /\ SelectModel
  /\ ~usingFastModel'
  /\ toolUseQueue' \in Batches
  /\ numIterations' =
       IF toolUseQueue' = "none" THEN numIterations + 1 ELSE numIterations
  /\ PrimarySpeaks
  /\ pc' = "branch"
  /\ UNCHANGED <<route, lastToolNames, forcePrimary, stallVars, errorVars,
                 hadToolIterations, synthesisDone, researchVars, nudgeVars,
                 poolVars, expertVars, synthetic>>

PrimaryAnswers ==
  /\ SelectModel
  /\ ~usingFastModel'
  /\ numIterations' = numIterations + 1
  /\ toolUseQueue' \in Batches
  /\ PrimarySpeaks
  /\ pc' = "branch"
  /\ UNCHANGED <<route, lastToolNames, forcePrimary, stallVars, errorVars,
                 hadToolIterations, synthesisDone, researchVars, nudgeVars,
                 poolVars, expertVars, synthetic>>

-----------------------------------------------------------------------------
(***************************************************************************)
(* Branch 1: the response called tools                                     *)
(***************************************************************************)

\* How many research calls a batch may hold.
ResearchCalls(batch) ==
  CASE batch = "none" -> {0}
    [] batch = "search" -> {1}
    [] batch = "research" -> 1..EnoughSearches
    [] batch = "mixed" -> 0..EnoughSearches

\* _process_tool_use_queue up to the call of its super class, and what the
\* experts count while the tools run: edits, or files created.
QueueTaken ==
  /\ pc = "branch"
  /\ toolUseQueue # "none"
  /\ lastToolNames' = toolUseQueue
  /\ toolUseQueue' = "none"
  /\ hadToolIterations' = TRUE
  /\ lastStreamed' = "none"
  /\ substantial' = FALSE
  /\ \E n \in ResearchCalls(toolUseQueue) :
       searchCallCount' = Least(searchCallCount + n, EnoughSearches)
  /\ expertDue' \in
       {expertDue, expertDue \/ (route.experts /\ toolUseQueue = "mixed")}

\* A tool raises an exception that is not turned into a result.
ToolRaises ==
  /\ QueueTaken
  /\ lastQueueHadError' \in BOOLEAN
  /\ pc' = "failed"
  /\ UNCHANGED <<route, numIterations, maxIterations, usingFastModel,
                 forcePrimary, consecutive8bIters, largeContext, fastRun,
                 stallVars, totalConsecutiveErrors, errorHintInjected,
                 consecutiveFastFailures, synthesisDone,
                 researchCycleCount, researchExecutorInjected, nudgeVars,
                 poolVars, advice, synthetic, responseText, spoke>>

\* Errors in a row after the batch, and whether the hint was given for them.
ErrorsNow == IF lastQueueHadError' THEN totalConsecutiveErrors + 1 ELSE 0
HintNow == errorHintInjected /\ lastQueueHadError'

Stops == ErrorsNow >= StopErrors
Hints == ~Stops /\ ErrorsNow >= HintErrors /\ ~HintNow

\* Mutant of CountErrors: the stop message leaves the hint flag set.
CountErrors_HintKept ==
  /\ totalConsecutiveErrors' = IF Stops THEN 0 ELSE ErrorsNow
  /\ errorHintInjected' = (HintNow \/ Hints)

\* The global circuit breaker: hint, then stop and start counting again.
CountErrors ==
  /\ totalConsecutiveErrors' = IF Stops THEN 0 ELSE ErrorsNow
  /\ errorHintInjected' = (~Stops /\ (HintNow \/ Hints))

\* _update_quality_gate: failures of the fast model in a row force the primary.
QualityGate ==
  /\ consecutiveFastFailures' =
       IF usingFastModel /\ lastQueueHadError' THEN consecutiveFastFailures + 1
                                               ELSE 0
  /\ forcePrimary' =
       (forcePrimary \/ consecutiveFastFailures' >= FastFailures)

\* The research context is given once, before the fast model's first batch.
BriefsExecutor ==
  /\ ~researchExecutorInjected
  /\ route.fast
  /\ ResearchOnly(lastToolNames')

\* The SEARCH loop guard blocks web_search.
BlocksSearch ==
  /\ ~route.fast
  /\ ~route.requiresTools
  /\ searchCallCount' >= EnoughSearches
  /\ lastToolNames' = "search"
  /\ numIterations >= 2
  /\ ~synthesisDone

ProcessToolQueue ==
  /\ QueueTaken
  /\ lastQueueHadError' \in BOOLEAN
  /\ CountErrors
  /\ QualityGate
  /\ researchExecutorInjected' = (researchExecutorInjected \/ BriefsExecutor)
  /\ synthesisDone' = (synthesisDone \/ BlocksSearch)
  /\ synthetic' = (synthetic \/ Stops \/ Hints \/ BriefsExecutor \/ BlocksSearch)
  /\ pc' = "call"
  /\ UNCHANGED <<route, numIterations, maxIterations, usingFastModel,
                 consecutive8bIters, largeContext, fastRun, stallVars,
                 researchCycleCount, nudgeVars, poolVars, advice, responseText,
                 spoke>>

-----------------------------------------------------------------------------
(***************************************************************************)
(* Branch 2: the fast model stopped calling tools                          *)
(***************************************************************************)

TextOnly == pc = "branch" /\ toolUseQueue = "none"

FastStops ==
  /\ TextOnly
  /\ usingFastModel
  /\ consecutive8bIters' = 0
  /\ lastToolNames' = "none"
  /\ repeatedContextCount' = 0
  /\ lastFastContextHash' = FALSE
  /\ synthetic' = TRUE
  /\ pc' = "call"
  /\ UNCHANGED <<route, numIterations, maxIterations, toolUseQueue,
                 usingFastModel, largeContext, fastRun, errorVars,
                 hadToolIterations, synthesisDone, researchExecutorInjected,
                 searchCallCount, nudgeVars, poolVars, expertVars, textVars>>

\* It described a tool call instead of making it: the primary takes over.
FastDescribedTool ==
  /\ FastStops
  /\ forcePrimary' = TRUE
  /\ UNCHANGED researchCycleCount

\* A research cycle is over: the primary evaluates, for the last time after
\* ResearchCycles of them.
FastFinishedResearch ==
  /\ FastStops
  /\ researchCycleCount' = researchCycleCount + 1
  /\ forcePrimary' = (forcePrimary \/ researchCycleCount' >= ResearchCycles)

-----------------------------------------------------------------------------
(***************************************************************************)
(* Branch 3: the primary has called no tool so far                         *)
(***************************************************************************)

\* _select_and_escalate enables some groups of the pool, each of which has tools;
\* the third time all.
Escalation ==
  /\ toolPool > 0
  /\ escalationCount' = escalationCount + 1
  /\ \E left \in 0..(toolPool - 1) :
       toolPool' = IF escalationCount' >= EnableAllAfter THEN 0 ELSE left
  /\ maxIterations' = IF maxIterations < BumpBelow THEN BumpTo ELSE maxIterations

NoToolsYet ==
  /\ TextOnly
  /\ ~usingFastModel
  /\ ~hadToolIterations
  /\ ~toolNudgeDone
  /\ numIterations <= 2

\* The text has code in it, or the task is simple and tools are not required.
SkipNudge ==
  /\ NoToolsYet
  /\ toolNudgeDone' = TRUE
  /\ nudgeSkipped' = TRUE
  /\ pc' = "call"
  /\ UNCHANGED <<route, numIterations, maxIterations, toolUseQueue, selectVars,
                 stallVars, errorVars, hadToolIterations, synthesisDone,
                 researchVars, postErrorNudgeDone, postDescribeNudgeDone,
                 poolVars, expertVars, synthetic, textVars>>

\* Otherwise it is told to use its tools, after an escalation or as it is.
ToolNudge ==
  /\ NoToolsYet
  /\ ~route.simple \/ route.requiresTools
  /\ toolNudgeDone' = TRUE
  /\ \/ Escalation
     \/ UNCHANGED <<maxIterations, poolVars>>
  /\ synthetic' = TRUE
  /\ pc' = "call"
  /\ UNCHANGED <<route, numIterations, toolUseQueue, selectVars, stallVars,
                 errorVars, hadToolIterations, synthesisDone, researchVars,
                 nudgeSkipped, postErrorNudgeDone, postDescribeNudgeDone,
                 expertVars, textVars>>

-----------------------------------------------------------------------------
(***************************************************************************)
(* Branch 4: the primary stopped calling tools, no synthesis so far        *)
(***************************************************************************)

AfterTools ==
  /\ TextOnly
  /\ ~usingFastModel
  /\ hadToolIterations
  /\ ~synthesisDone
  /\ researchCycleCount = 0
  /\ route.requiresTools

GaveUpOnError == totalConsecutiveErrors > 0 /\ ~postErrorNudgeDone

ErrorNudge ==
  /\ AfterTools
  /\ GaveUpOnError
  /\ postErrorNudgeDone' = TRUE
  /\ synthetic' = TRUE
  /\ pc' = "call"
  /\ UNCHANGED <<route, numIterations, maxIterations, toolUseQueue, selectVars,
                 stallVars, errorVars, hadToolIterations, synthesisDone,
                 researchVars, toolNudgeDone, nudgeSkipped,
                 postDescribeNudgeDone, poolVars, expertVars, textVars>>

\* Mutant of DescribeNudge: not one-shot.
DescribeNudge_Again ==
  /\ AfterTools
  /\ ~GaveUpOnError
  /\ ~postDescribeNudgeDone
  /\ synthetic' = TRUE
  /\ pc' = "call"
  /\ UNCHANGED <<route, numIterations, maxIterations, toolUseQueue, selectVars,
                 stallVars, errorVars, hadToolIterations, synthesisDone,
                 researchVars, nudgeVars, poolVars, expertVars, textVars>>

\* Its text mentions a tool call it did not make.
DescribeNudge ==
  /\ AfterTools
  /\ ~GaveUpOnError
  /\ ~postDescribeNudgeDone
  /\ postDescribeNudgeDone' = TRUE
  /\ synthetic' = TRUE
  /\ pc' = "call"
  /\ UNCHANGED <<route, numIterations, maxIterations, toolUseQueue, selectVars,
                 stallVars, errorVars, hadToolIterations, synthesisDone,
                 researchVars, toolNudgeDone, nudgeSkipped, postErrorNudgeDone,
                 poolVars, expertVars, textVars>>

\* _on_process_tool_use_queue_complete: an expert that has seen enough is asked,
\* and its advice goes into the memory as a message of the user, not marked as
\* synthetic, so that it stays there.  A call of an expert that fails gives none.
CompletionHooks ==
  /\ advice' \in {advice, advice \/ expertDue}
  /\ UNCHANGED expertDue

\* What it streamed is an answer already: done, synthetic messages stripped.
CompleteDraft ==
  /\ AfterTools
  /\ ~GaveUpOnError
  /\ substantial
  /\ synthesisDone' = TRUE
  /\ CompletionHooks
  /\ synthetic' = FALSE
  /\ pc' = "done"
  /\ UNCHANGED <<route, numIterations, maxIterations, toolUseQueue, selectVars,
                 stallVars, errorVars, hadToolIterations, researchVars,
                 nudgeVars, poolVars, textVars>>

EscalateInstead ==
  /\ AfterTools
  /\ ~GaveUpOnError
  /\ ~substantial
  /\ Escalation
  /\ synthetic' = TRUE
  /\ pc' = "call"
  /\ UNCHANGED <<route, numIterations, toolUseQueue, selectVars, stallVars,
                 errorVars, hadToolIterations, synthesisDone, researchVars,
                 nudgeVars, expertVars, textVars>>

\* It is asked for one consolidated answer; what it streamed is discarded.
Synthesize ==
  /\ AfterTools
  /\ ~GaveUpOnError
  /\ ~substantial
  /\ responseText' = FALSE
  /\ synthesisDone' = TRUE
  /\ synthetic' = TRUE
  /\ pc' = "call"
  /\ UNCHANGED <<route, numIterations, maxIterations, toolUseQueue, selectVars,
                 stallVars, errorVars, hadToolIterations, researchVars,
                 nudgeVars, poolVars, expertVars, lastStreamed, substantial,
                 spoke>>

-----------------------------------------------------------------------------
\* Branch 5: the primary is finished.
Complete ==
  /\ TextOnly
  /\ ~usingFastModel
  /\ ~NoToolsYet
  /\ ~AfterTools
  /\ CompletionHooks
  /\ synthetic' = FALSE
  /\ pc' = "done"
  /\ UNCHANGED <<route, numIterations, maxIterations, toolUseQueue, selectVars,
                 stallVars, errorVars, hadToolIterations, synthesisDone,
                 researchVars, nudgeVars, poolVars, textVars>>

\* What an expert does before and after its call may raise: the agent ends with
\* the exception, at either place, and nothing is stripped.
HooksRaise ==
  /\ TextOnly
  /\ ~usingFastModel
  /\ ~NoToolsYet
  /\ AfterTools => ~GaveUpOnError /\ substantial
  /\ expertDue
  /\ CompletionHooks
  /\ synthesisDone' = (synthesisDone \/ AfterTools)
  /\ pc' = "failed"
  /\ UNCHANGED <<route, numIterations, maxIterations, toolUseQueue, selectVars,
                 stallVars, errorVars, hadToolIterations, researchVars,
                 nudgeVars, poolVars, synthetic, textVars>>

Call ==
  \/ OutOfIterations
  \/ ContextOverflow
  \/ CallFails
  \/ FastAnswers
  \/ PrimaryAnswers

Branch ==
  \/ ToolRaises
  \/ ProcessToolQueue
  \/ FastDescribedTool
  \/ FastFinishedResearch
  \/ SkipNudge
  \/ ToolNudge
  \/ ErrorNudge
  \/ DescribeNudge
  \/ CompleteDraft
  \/ EscalateInstead
  \/ Synthesize
  \/ Complete
  \/ HooksRaise

Next == Call \/ Branch

Spec == Init /\ [][Next]_vars

\* Model calls and tools have timeouts, and the loop never waits for anything
\* else.
FairSpec == Spec /\ WF_vars(Next)

-----------------------------------------------------------------------------
(***************************************************************************)
(* Properties                                                              *)
(***************************************************************************)

\* The loop is bounded: whatever extends the limit (progress, escalation), the
\* iterations stay below it and the limit below ABSOLUTE_MAX_ITERATIONS.
LoopBounded == numIterations <= maxIterations /\ maxIterations <= AbsoluteMax

\* Before every call of a model: it was told about every HintErrors failing
\* batches in a row, the count starts again at StopErrors, and a fast model that
\* failed too often is out of the game.
ErrorsAnswered ==
  pc = "call" =>
    /\ totalConsecutiveErrors < StopErrors
    /\ errorHintInjected <=> totalConsecutiveErrors >= HintErrors
    /\ consecutiveFastFailures >= FastFailures => forcePrimary

\* MAX_CONSECUTIVE_8B_RESEARCH: the fast model never makes more calls in a row,
\* although the counter is reset in several places and counts other calls too.
ResearchDepthBounded == fastRun <= ResearchDepth

\* Once the primary has spoken the client gets text, unless a synthesis was
\* asked for.
SpokenIsAnswered ==
  pc = "done" /\ spoke => responseText \/ synthesisDone

\* A response without tool calls ends the loop or uses up one of finitely many
\* reasons to go on; nothing ever gives one back.  So the model cannot be
\* nudged, re-prompted or escalated for ever.
Unused(flag) == IF flag THEN 0 ELSE 1
Patience ==
  (ResearchCycles - researchCycleCount) + Unused(forcePrimary)
    + Unused(toolNudgeDone) + Unused(postErrorNudgeDone)
    + Unused(postDescribeNudgeDone) + Unused(synthesisDone) + toolPool

GoingOnCosts ==
  [][/\ Patience' <= Patience
     /\ TextOnly /\ pc' = "call" => Patience' < Patience]_vars

\* Every request's agent comes to an end.
Terminates == <>(pc \in {"done", "failed"})

-----------------------------------------------------------------------------
(***************************************************************************)
(* The inductive invariant                                                 *)
(***************************************************************************)

\* How the fast model's counters relate: it is only called while it is allowed
\* and after research, and the depth counter is at least the calls in a row
\* unless it handed over.
FastInv ==
  /\ pc = "branch" /\ usingFastModel => ~forcePrimary /\ ResearchOnly(lastToolNames)
  /\ ~forcePrimary => researchCycleCount < ResearchCycles
  /\ usingFastModel /\ ResearchOnly(lastToolNames) => fastRun <= consecutive8bIters
  /\ usingFastModel \/ fastRun = 0

\* A text since the last tools is in the response, unless it was discarded.
TextInv ==
  /\ pc = "done" => toolUseQueue = "none"
  /\ lastStreamed # "none" => responseText \/ synthesisDone
  /\ spoke /\ toolUseQueue = "none" /\ pc \in {"branch", "done"} =>
       lastStreamed # "none"

ErrorInv ==
  /\ totalConsecutiveErrors < StopErrors
  /\ errorHintInjected <=> totalConsecutiveErrors >= HintErrors
  /\ consecutiveFastFailures >= FastFailures => forcePrimary

LoopInv ==
  /\ LoopBounded
  /\ ErrorInv
  /\ ResearchDepthBounded
  /\ FastInv
  /\ TextInv
=============================================================================
