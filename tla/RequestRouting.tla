------------------------- MODULE RequestRouting -------------------------
(***************************************************************************)
(* How one chat request becomes an answer or an agent: the classification  *)
(* by the Functionary model (expert_router.py), with its slot check,       *)
(* timeouts and single retry; the guards that correct it; the second       *)
(* opinion of the big model; the extensions and the tool pool that         *)
(* HttpRoutedEntry builds (tool_groups.py); and the escalations that move  *)
(* groups of the pool to the agent.  The models, their servers and their   *)
(* replies are the environment.  A message is the set of the pattern       *)
(* families it matches.                                                    *)
(***************************************************************************)
EXTENDS Integers, FiniteSets, FiniteSetsExt

CONSTANTS
  Messages,        \* sets of pattern families, one per kind of message
  Steps,           \* estimated_steps as the model may give it
  Fallbacks,       \* values of config.fallback_entry
  Asks,            \* sets of groups the tool selector may ask for
  MaxEscalations   \* bound: how often the agent asks for more tools

VARIABLES
  pc,              \* where the request is
  client,          \* the module's shared HTTP client: none, open or closed
  config,          \* [fallback, rerouting, pooling], what config.toml says
  backends,        \* "none", "nograph" or "full": what lifespan connected
  known,           \* the user of the session is known
  msg,             \* the families of patterns the message matches
  timeout,         \* what the first call may take: "base" or "double"
  decision,        \* the RouteDecision, or NoDecision
  active,          \* group -> how many enabled extensions of it the agent has
  pool,            \* the groups that escalation may still enable
  limit,           \* max_iterations
  escalations,     \* _escalation_count
  asked            \* how often the agent asked (only bounded here)

routeVars == <<decision, timeout>>
agentVars == <<active, pool, limit, escalations, asked>>
inputVars == <<config, backends, known, msg>>
vars == <<pc, client, inputVars, routeVars, agentVars>>

Families == {"coding", "search", "action", "document", "recall", "project",
             "infra", "identity"}

\* A message matches some of the families; the model may estimate any number.
ASSUME MessagesAssumption == Messages \subseteq SUBSET Families
ASSUME StepsAssumption == Steps \subseteq Int

Experts  == {"coder", "infrastructure", "search", "planner", "user", "direct",
             "clarify"}
Groups   == {"user", "user_memory", "web", "file", "shell", "memory",
             "architect", "code_search", "graph", "document", "notes",
             "rules", "trace"}

NoDecision == [expert |-> "none"]

\* What a guard can tell of a text of the model: none, a usable one, or one
\* that matches the patterns of an excuse.
Texts == {"", "text", "copout"}

Decisions == [expert: Experts, answer: Texts, question: {"", "text"},
              scope: {"", "codebase"}, steps: 1..100]

-----------------------------------------------------------------------------
\* Classification: the calls.

\* The route that a failed classification takes: the configured one if the map
\* knows it, with the default of estimated_steps and no parameters.
Fallback ==
  [expert   |-> IF config.fallback
                     \in {"coder", "infrastructure", "search", "planner"}
                THEN config.fallback ELSE "coder",
   answer   |-> "", question |-> "", scope |-> "", steps |-> 10]

\* A request arrives.  Without a router or without a user message there is no
\* classification.
Arrive ==
  /\ pc = "new"
  /\ \E enabled \in BOOLEAN, text \in BOOLEAN :
       pc' = IF ~text THEN "rejected"
             ELSE IF enabled THEN "slots" ELSE "unrouted"
  /\ UNCHANGED <<client, inputVars, routeVars, agentVars>>

\* _get_client: every caller gets a client that is open when it gets it.
GetClient == client' = "open"

\* The slot check decides how long the call may take; a check that fails says
\* that a slot is free and that there are none, which leaves the base timeout.
CheckSlots ==
  /\ pc = "slots"
  /\ \E total \in 0..2, failed \in BOOLEAN :
       \E busy \in 0..total :
         timeout' = IF ~failed /\ total > 0 /\ busy >= total
                    THEN "double" ELSE "base"
  /\ GetClient
  /\ pc' = "post"
  /\ UNCHANGED <<inputVars, decision, agentVars>>

\* What the classification call can come to.  A reply that cannot be read as
\* JSON arguments counts as no arguments; arguments that are no object raise.
Routed   == {"coder", "infrastructure", "search", "planner", "user"}
ToolCall == [func: Experts \cup {"unknown"}, steps: Steps \cup {10},
             answer: Texts, question: {"", "text"}, scope: {"", "codebase"}]
Offered  ==
  {c \in ToolCall :
     /\ c.func # "direct" => c.answer = ""
     /\ c.func # "clarify" => c.question = ""
     /\ c.func # "search" => c.scope = ""
     /\ c.func \notin Routed => c.steps = 10}

\* An estimate that is missing or no number counts as 10.
Clamped(n) == IF n < 1 THEN 1 ELSE IF n > 100 THEN 100 ELSE n

ParseToolCall(c) ==
  [expert   |-> IF c.func \in Experts THEN c.func ELSE "coder",
   answer   |-> c.answer, question |-> c.question, scope |-> c.scope,
   steps    |-> Clamped(c.steps)]

-----------------------------------------------------------------------------
\* The guards, each a correction of the decision before it.

AtLeast(d, n) == IF d.steps < n THEN n ELSE d.steps

DirectBecomes(d, expert) ==
  [d EXCEPT !.expert = expert, !.answer = "", !.steps = AtLeast(d, 3)]

ClarifyBecomes(d, expert) ==
  [d EXCEPT !.expert = expert, !.question = "", !.steps = AtLeast(d, 3)]

GuardCodingNotDirect(d, m) ==
  IF d.expert = "direct" /\ "coding" \in m
  THEN DirectBecomes(d, "coder") ELSE d

GuardSearchNotDirect(d, m) ==
  IF d.expert = "direct" /\ "search" \in m
  THEN DirectBecomes(d, "search") ELSE d

GuardActionNotDirect(d, m) ==
  IF d.expert = "direct" /\ "action" \in m
  THEN DirectBecomes(d, "coder") ELSE d

GuardCopoutNotDirect(d) ==
  IF d.expert = "direct" /\ d.answer = "copout"
  THEN DirectBecomes(d, "coder") ELSE d

GuardRecallNotClarify(d, m) ==
  IF d.expert = "clarify" /\ "recall" \in m
  THEN ClarifyBecomes(d, "user") ELSE d

\* For the mutants: without its last two families.
GuardClarifyShort(d, m) ==
  IF d.expert # "clarify" THEN d
  ELSE IF "coding" \in m THEN ClarifyBecomes(d, "coder")
  ELSE IF "search" \in m THEN ClarifyBecomes(d, "search")
  ELSE d

GuardClarifyHasTask(d, m) ==
  IF d.expert # "clarify" THEN d
  ELSE IF "coding" \in m THEN ClarifyBecomes(d, "coder")
  ELSE IF "search" \in m THEN ClarifyBecomes(d, "search")
  ELSE IF m \cap {"action", "document"} # {} THEN ClarifyBecomes(d, "coder")
  ELSE d

GuardDocumentNotUser(d, m) ==
  IF d.expert = "user" /\ "document" \in m
  THEN [d EXCEPT !.expert = "coder", !.steps = AtLeast(d, 3)] ELSE d

GuardProjectNotSearch(d, m) ==
  IF d.expert = "search" /\ "project" \in m
  THEN [d EXCEPT !.expert = "coder", !.steps = AtLeast(d, 5)] ELSE d

GuardSearchScopeCodebase(d) ==
  IF d.expert = "search" /\ d.scope = "codebase"
  THEN [d EXCEPT !.expert = "coder", !.steps = AtLeast(d, 5)] ELSE d

Guarded(d, m) ==
  LET direct  == GuardCopoutNotDirect(GuardActionNotDirect(
                   GuardSearchNotDirect(GuardCodingNotDirect(d, m), m), m))
      clarify == GuardClarifyHasTask(GuardRecallNotClarify(direct, m), m)
      user    == GuardDocumentNotUser(clarify, m)
  IN  GuardSearchScopeCodebase(GuardProjectNotSearch(user, m))

\* The routes the message speaks for, and a decision that took none of several.
Signals(m) ==
  (IF m \cap {"coding", "project"} # {} THEN {"coder"} ELSE {})
    \cup (IF "search" \in m THEN {"search"} ELSE {})
    \cup (IF "infra" \in m THEN {"infrastructure"} ELSE {})
    \cup (IF "identity" \in m THEN {"user"} ELSE {})

RoutingConflict(d, m) == Cardinality(Signals(m)) >= 2 /\ d.expert \notin Signals(m)

\* A readable reply: parsed and guarded; a conflict asks the big model, where
\* the configuration allows it.
Decide(c) ==
  LET d == Guarded(ParseToolCall(c), msg)
  IN  /\ decision' = d
      /\ pc' = IF config.rerouting /\ RoutingConflict(d, msg)
               THEN "reroute" ELSE "routed"

FallBack == decision' = Fallback /\ pc' = "routed"

\* The reply of the model, wherever it was asked from.
Reply ==
  \/ FallBack                                \* no choices, or no tool call
  \/ \E c \in Offered : Decide(c)
  \/ decision' = NoDecision /\ pc' = "unrouted"   \* arguments are no object

Post ==
  /\ pc = "post"
  /\ \/ client = "open" /\ Reply
     \/ client = "open" /\ pc' = "diagnose" /\ UNCHANGED decision  \* timeout
     \/ FallBack                             \* any other error
  /\ timeout' = "base"                       \* of no more use
  /\ UNCHANGED <<client, inputVars, agentVars>>

\* After a timeout: one retry if the server is at work, else the fallback.
Diagnose ==
  /\ pc = "diagnose"
  /\ GetClient
  /\ \/ pc' = "retry" /\ UNCHANGED decision  \* processing
     \/ FallBack                             \* idle, or unhealthy
  /\ UNCHANGED <<inputVars, timeout, agentVars>>

\* For the mutants: a retry that is diagnosed again when it times out.
RetryAgain ==
  /\ pc = "retry"
  /\ \/ client = "open" /\ Reply
     \/ client = "open" /\ pc' = "diagnose" /\ UNCHANGED decision
     \/ FallBack
  /\ UNCHANGED <<client, inputVars, timeout, agentVars>>

Retry ==
  /\ pc = "retry"
  /\ \/ client = "open" /\ Reply
     \/ FallBack                             \* a timeout, or any other error
  /\ UNCHANGED <<client, inputVars, timeout, agentVars>>

\* The big model names routes in its answer; the first of them, in the order of
\* the map, is taken.  An error or an answer that names none changes nothing.
RouteOrder == <<"coder", "infrastructure", "search", "planner", "user">>

Reroute ==
  /\ pc = "reroute"
  /\ \E named \in SUBSET Routed :
       decision' =
         IF named = {} THEN decision
         ELSE LET first == Min({i \in 1..5 : RouteOrder[i] \in named})
              IN  [decision EXCEPT !.expert = RouteOrder[first]]
  /\ pc' = "routed"
  /\ UNCHANGED <<client, inputVars, timeout, agentVars>>

\* close_client: the lifespan ends.
Shutdown ==
  /\ client = "open"
  /\ client' = "closed"
  /\ UNCHANGED <<pc, inputVars, routeVars, agentVars>>

-----------------------------------------------------------------------------
\* The agent: its extensions and its pool.

CoderGroups == Groups \ {"user"}
Poolable    == CoderGroups \ {"architect"}

RouteToolGroups(expert) ==
  CASE expert = "user"    -> {"user", "notes"}
    [] expert = "search"  -> {"web", "user_memory", "notes", "document"}
    [] expert = "planner" -> {"architect", "memory", "code_search", "web", "notes"}
    [] OTHER              -> CoderGroups

\* The routes that ROUTE_TOOL_GROUPS has an entry for.
Mapped == Routed

HasCommands(expert) == expert \in {"infrastructure", "coder", "search"}

\* _build_extension_for_group, the groups it returns an extension for.
Buildable(group, commands) ==
  /\ group = "shell" => commands
  /\ group \in {"code_search", "document", "rules", "trace"} => backends # "none"
  /\ group = "graph" => backends = "full"
  /\ group = "notes" => backends # "none" /\ known

BuildExtensions(expert) ==
  {g \in RouteToolGroups(expert) : Buildable(g, HasCommands(expert))}

\* build_tool_pool: what a coder has and the route's own entry does not; a route
\* without an entry has none.
BuildToolPool(expert) ==
  IF expert \in {"coder", "infrastructure"} THEN {}
  ELSE LET current == IF expert \in Mapped THEN RouteToolGroups(expert) ELSE {}
       IN  {g \in (CoderGroups \ current) \cap Poolable : Buildable(g, TRUE)}

BaseMaxIterations(expert) ==
  CASE expert \in {"coder", "infrastructure"} -> 30
    [] expert = "search"                      -> 15
    [] expert \in {"user", "planner"}         -> 10
    [] OTHER                                  -> 20

MaxIterations(d) ==
  IF d.steps <= 3 THEN 8
  ELSE Max({BaseMaxIterations(d.expert), Min({d.steps * 3, 200})})

\* A direct answer or a question that has a text is sent without an agent.
AnswerWithoutAgent ==
  /\ pc = "routed"
  /\ \/ decision.expert = "direct" /\ decision.answer # ""
     \/ decision.expert = "clarify" /\ decision.question # ""
  /\ pc' = "answered"
  /\ UNCHANGED <<client, inputVars, routeVars, agentVars>>

DefaultRoute ==
  [expert |-> "coder", answer |-> "", question |-> "", scope |-> "", steps |-> 10]

\* Every other request gets an agent, one that could not be classified as a
\* coder's.
StartAgent(d) ==
  /\ decision' = d
  /\ active' = [g \in Groups |-> IF g \in BuildExtensions(d.expert) THEN 1 ELSE 0]
  /\ pool' = IF config.pooling THEN BuildToolPool(d.expert) ELSE {}
  /\ limit' = MaxIterations(d)
  /\ pc' = "agent"
  /\ UNCHANGED <<client, inputVars, timeout, escalations, asked>>

RunAgent ==
  \/ /\ pc = "routed"
     /\ decision.expert = "direct" => decision.answer = ""
     /\ decision.expert = "clarify" => decision.question = ""
     /\ StartAgent(decision)
  \/ pc = "unrouted" /\ StartAgent(DefaultRoute)

-----------------------------------------------------------------------------
\* Escalation.

Selectable == {"file", "shell", "web", "memory", "code_search", "document",
               "rules"}

\* What select_tools_for_escalation can return: a failed or empty reply asks for
\* an editor and a shell, one refusal among the calls cancels the others.
Selections == {{"file", "shell"}, {}} \cup {a \in Asks : a \subseteq Selectable}

Enable(granted) == [g \in Groups |-> active[g] + (IF g \in granted THEN 1 ELSE 0)]

\* The groups asked for that the pool has are enabled; with the third escalation
\* that enabled any, all that is left.
Granted(requested) ==
  LET found == requested \cap pool
  IN  IF found # {} /\ escalations + 1 >= 3 THEN pool ELSE found

\* For the mutants: the valve that empties the pool of what nobody enabled.
ValveForgets ==
  /\ pc = "agent" /\ pool # {} /\ asked < MaxEscalations
  /\ asked' = asked + 1
  /\ \E requested \in Selections :
       LET granted == requested \cap pool
       IN  /\ active' = Enable(granted)
           /\ escalations' = escalations + (IF granted # {} THEN 1 ELSE 0)
           /\ pool' = IF escalations' >= 3 THEN {} ELSE pool \ granted
           /\ limit' = limit
  /\ UNCHANGED <<pc, client, inputVars, routeVars>>

SelectAndEscalate ==
  /\ pc = "agent"
  /\ pool # {}
  /\ asked < MaxEscalations
  /\ asked' = asked + 1
  /\ \E requested \in Selections :
       LET granted == Granted(requested)
       IN  /\ active' = Enable(granted)
           /\ pool' = pool \ granted
           /\ escalations' = escalations + (IF granted # {} THEN 1 ELSE 0)
           /\ limit' = IF granted # {} /\ limit < 15 THEN 20 ELSE limit
  /\ UNCHANGED <<pc, client, inputVars, routeVars>>

AgentEnds ==
  /\ pc = "agent"
  /\ pc' = "done"
  /\ UNCHANGED <<client, inputVars, routeVars, agentVars>>

-----------------------------------------------------------------------------
Init ==
  /\ pc = "new"
  /\ client = "none"
  /\ config \in [fallback: Fallbacks, rerouting: BOOLEAN, pooling: BOOLEAN]
  /\ backends \in {"none", "nograph", "full"}
  /\ known \in BOOLEAN
  /\ msg \in Messages
  /\ timeout = "base"
  /\ decision = NoDecision
  /\ active = [g \in Groups |-> 0]
  /\ pool = {}
  /\ limit = 0
  /\ escalations = 0
  /\ asked = 0

Classify == CheckSlots \/ Post \/ Diagnose \/ Retry \/ Reroute

Next ==
  \/ Arrive \/ Classify \/ AnswerWithoutAgent \/ RunAgent
  \/ SelectAndEscalate \/ AgentEnds \/ Shutdown

\* Every call has a timeout and every step between two calls is code of one
\* coroutine: the request goes on.
Spec == Init /\ [][Next]_vars
        /\ WF_vars(Arrive \/ Classify \/ AnswerWithoutAgent \/ RunAgent)

-----------------------------------------------------------------------------
\* The type invariant.
TypeOK ==
  /\ pc \in {"new", "slots", "post", "diagnose", "retry", "reroute", "routed",
             "unrouted", "rejected", "answered", "agent", "done"}
  /\ client \in {"none", "open", "closed"}
  /\ config \in [fallback: Fallbacks, rerouting: BOOLEAN, pooling: BOOLEAN]
  /\ msg \subseteq Families
  /\ timeout \in {"base", "double"}
  /\ decision \in Decisions \cup {NoDecision}
  /\ active \in [Groups -> Nat]
  /\ pool \subseteq Poolable
  /\ limit \in 0..300
  /\ escalations \in 0..3

\* A request that is answered without an agent asked for nothing an agent would
\* have to do: whatever the two models said, neither a task the guards recognise
\* nor an excuse of the router is sent as the answer, and no question is asked
\* back of a message that names its task.
AnsweredOnlyWithoutWork ==
  pc = "answered" =>
    /\ decision.expert = "direct" =>
         /\ msg \cap {"coding", "search", "action"} = {}
         /\ decision.answer # "copout"
    /\ decision.expert = "clarify" =>
         msg \cap {"coding", "search", "action", "document", "recall"} = {}

\* An agent whose route has fewer tools keeps all of a coder's in reach, through
\* every escalation: what can be built is enabled or waits in the pool.
CoderToolsInReach ==
  pc = "agent" /\ config.pooling =>
    \A g \in Poolable :
      Buildable(g, TRUE) => active[g] > 0 \/ g \in pool

\* The router cannot hold a request up: however busy or ill its server is, the
\* request is answered, refused or handed to an agent.
RequestIsHandled ==
  pc = "new" ~> pc \in {"answered", "rejected", "agent", "done"}
=============================================================================
