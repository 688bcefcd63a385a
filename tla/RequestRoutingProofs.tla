---------------------- MODULE RequestRoutingProofs ----------------------
(***************************************************************************)
(* Proofs about RequestRouting, for every set of messages, every estimate  *)
(* and every selection of the tool model: the types; that no task and no   *)
(* excuse is sent as an answer; and that a coder's tools stay in reach of  *)
(* every agent.                                                            *)
(***************************************************************************)
EXTENDS RequestRouting, TLAPS

-----------------------------------------------------------------------------
\* The guards.

\* What a guarded decision may be when it is sent without an agent.
NoWork(d, m) ==
  /\ d.expert = "direct" =>
       /\ m \cap {"coding", "search", "action"} = {}
       /\ d.answer # "copout"
  /\ d.expert = "clarify" =>
       m \cap {"coding", "search", "action", "document", "recall"} = {}

Silent == {"direct", "clarify"}

\* A correction of d: a decision, the same or one that an agent carries out.
Correction(d, e) == e \in Decisions /\ (e = d \/ e.expert \notin Silent)

LEMMA RaisedEstimate ==
  ASSUME NEW d \in Decisions, NEW n \in 1..100
  PROVE  AtLeast(d, n) \in 1..100
BY DEF AtLeast, Decisions

LEMMA DirectCorrected ==
  ASSUME NEW d \in Decisions, NEW x \in Experts \ Silent
  PROVE  DirectBecomes(d, x) \in Decisions /\ DirectBecomes(d, x).expert = x
<1>1. AtLeast(d, 3) \in 1..100
  BY RaisedEstimate
<1> QED
  BY <1>1 DEF DirectBecomes, Decisions, Texts

LEMMA ClarifyCorrected ==
  ASSUME NEW d \in Decisions, NEW x \in Experts \ Silent
  PROVE  ClarifyBecomes(d, x) \in Decisions /\ ClarifyBecomes(d, x).expert = x
<1>1. AtLeast(d, 3) \in 1..100
  BY RaisedEstimate
<1> QED
  BY <1>1 DEF ClarifyBecomes, Decisions, Texts

\* The three guards of the routes: what is neither direct nor clarify becomes a
\* coder's.
LEMMA RouteCorrected ==
  ASSUME NEW d \in Decisions, NEW m
  PROVE  /\ Correction(d, GuardDocumentNotUser(d, m))
         /\ Correction(d, GuardProjectNotSearch(d, m))
         /\ Correction(d, GuardSearchScopeCodebase(d))
<1>1. AtLeast(d, 3) \in 1..100 /\ AtLeast(d, 5) \in 1..100
  BY RaisedEstimate
<1>2. "coder" \in Experts \ Silent
  BY DEF Experts, Silent
<1>3. ASSUME NEW n \in 1..100
      PROVE  /\ [d EXCEPT !.expert = "coder", !.steps = n] \in Decisions
             /\ [d EXCEPT !.expert = "coder", !.steps = n].expert \notin Silent
  BY <1>2 DEF Decisions, Silent
<1> QED
  BY <1>1, <1>3 DEF Correction, GuardDocumentNotUser, GuardProjectNotSearch,
                    GuardSearchScopeCodebase

LEMMA DirectGuards ==
  ASSUME NEW d \in Decisions, NEW m
  PROVE  LET e == GuardCopoutNotDirect(GuardActionNotDirect(
                    GuardSearchNotDirect(GuardCodingNotDirect(d, m), m), m))
         IN  /\ Correction(d, e)
             /\ e.expert = "direct" =>
                  /\ m \cap {"coding", "search", "action"} = {}
                  /\ e.answer # "copout"
<1> DEFINE a == GuardCodingNotDirect(d, m)
           b == GuardSearchNotDirect(a, m)
           c == GuardActionNotDirect(b, m)
           e == GuardCopoutNotDirect(c)
<1>x. {"coder", "search"} \subseteq Experts \ Silent
  BY DEF Experts, Silent
<1>1. Correction(d, a) /\ (a.expert = "direct" => "coding" \notin m)
  BY <1>x, DirectCorrected DEF GuardCodingNotDirect, Correction, Silent
<1>2. Correction(a, b) /\ (b.expert = "direct" => b = a /\ "search" \notin m)
  BY <1>1, <1>x, DirectCorrected DEF GuardSearchNotDirect, Correction, Silent
<1>3. Correction(b, c) /\ (c.expert = "direct" => c = b /\ "action" \notin m)
  BY <1>2, <1>x, DirectCorrected DEF GuardActionNotDirect, Correction, Silent
<1>4. /\ Correction(c, e)
      /\ e.expert = "direct" => e = c /\ e.answer # "copout"
  BY <1>3, <1>x, DirectCorrected DEF GuardCopoutNotDirect, Correction, Silent
<1> HIDE DEF a, b, c, e
<1>5. Correction(d, e)
  BY <1>1, <1>2, <1>3, <1>4 DEF Correction
<1>6. e.expert = "direct" =>
        /\ m \cap {"coding", "search", "action"} = {}
        /\ e.answer # "copout"
  BY <1>1, <1>2, <1>3, <1>4
<1> QED
  BY <1>5, <1>6 DEF a, b, c, e

LEMMA ClarifyGuards ==
  ASSUME NEW d \in Decisions, NEW m
  PROVE  LET e == GuardClarifyHasTask(GuardRecallNotClarify(d, m), m)
         IN  /\ Correction(d, e)
             /\ e.expert = "clarify" =>
                  m \cap {"coding", "search", "action", "document", "recall"} = {}
<1> DEFINE a == GuardRecallNotClarify(d, m)
           e == GuardClarifyHasTask(a, m)
<1>x. {"coder", "search", "user"} \subseteq Experts \ Silent
  BY DEF Experts, Silent
<1>1. Correction(d, a) /\ (a.expert = "clarify" => "recall" \notin m)
  BY <1>x, ClarifyCorrected DEF GuardRecallNotClarify, Correction, Silent
<1>2. /\ Correction(a, e)
      /\ e.expert = "clarify" =>
           e = a /\ m \cap {"coding", "search", "action", "document"} = {}
  BY <1>1, <1>x, ClarifyCorrected DEF GuardClarifyHasTask, Correction, Silent
<1> HIDE DEF a, e
<1>3. Correction(d, e)
  BY <1>1, <1>2 DEF Correction
<1>4. e.expert = "clarify" =>
        m \cap {"coding", "search", "action", "document", "recall"} = {}
  BY <1>1, <1>2
<1> QED
  BY <1>3, <1>4 DEF a, e

\* Whatever decision the guards are given, what they leave is a decision, and
\* one that is sent without an agent has no work in it.
LEMMA GuardedHasNoWork ==
  ASSUME NEW d \in Decisions, NEW m
  PROVE  Guarded(d, m) \in Decisions /\ NoWork(Guarded(d, m), m)
<1> DEFINE direct  == GuardCopoutNotDirect(GuardActionNotDirect(
                        GuardSearchNotDirect(GuardCodingNotDirect(d, m), m), m))
           clarify == GuardClarifyHasTask(GuardRecallNotClarify(direct, m), m)
           user    == GuardDocumentNotUser(clarify, m)
           project == GuardProjectNotSearch(user, m)
           last    == GuardSearchScopeCodebase(project)
<1>1. Correction(d, direct)
      /\ (direct.expert = "direct" =>
            /\ m \cap {"coding", "search", "action"} = {}
            /\ direct.answer # "copout")
  BY DirectGuards
<1> HIDE DEF direct
<1>2. Correction(direct, clarify)
      /\ (clarify.expert = "clarify" =>
            m \cap {"coding", "search", "action", "document", "recall"} = {})
  BY <1>1, ClarifyGuards DEF Correction
<1> HIDE DEF clarify
<1>3. Correction(clarify, user)
  BY <1>2, RouteCorrected DEF Correction
<1> HIDE DEF user
<1>4. Correction(user, project)
  BY <1>3, RouteCorrected DEF Correction
<1> HIDE DEF project
<1>5. Correction(project, last)
  BY <1>4, RouteCorrected DEF Correction
<1> HIDE DEF last
<1>6. last = clarify \/ last.expert \notin Silent
  BY <1>3, <1>4, <1>5 DEF Correction
<1>7. clarify = direct \/ clarify.expert \notin Silent
  BY <1>2 DEF Correction
<1>8. NoWork(last, m)
  BY <1>1, <1>2, <1>6, <1>7 DEF NoWork, Silent
<1>9. last \in Decisions
  BY <1>5 DEF Correction
<1>10. Guarded(d, m) = last
  BY DEF Guarded, last, project, user, clarify, direct
<1> QED
  BY <1>8, <1>9, <1>10

\* A tool call that the model was offered is read as a decision, whatever it
\* estimated.
LEMMA ParsedIsDecision ==
  ASSUME NEW c \in Offered
  PROVE  ParseToolCall(c) \in Decisions
<1>1. /\ c.steps \in Int /\ c.func \in Experts \cup {"unknown"}
      /\ c.answer \in Texts /\ c.question \in {"", "text"}
      /\ c.scope \in {"", "codebase"}
  <2>1. c \in ToolCall
    BY DEF Offered
  <2>2. c.steps \in Steps \cup {10}
    BY <2>1 DEF ToolCall
  <2>3. Steps \cup {10} \subseteq Int
    BY StepsAssumption
  <2>4. c.steps \in Int
    BY <2>2, <2>3
  <2>5. /\ c.func \in Experts \cup {"unknown"}
        /\ c.answer \in Texts /\ c.question \in {"", "text"}
        /\ c.scope \in {"", "codebase"}
    BY <2>1 DEF ToolCall
  <2> QED
    BY <2>4, <2>5
<1>2. Clamped(c.steps) \in 1..100
  <2>1. ASSUME NEW n \in Int
        PROVE  Clamped(n) \in 1..100
    BY DEF Clamped
  <2> QED
    BY <1>1, <2>1
<1>3. (IF c.func \in Experts THEN c.func ELSE "coder") \in Experts
  BY DEF Experts
<1> QED
  BY <1>1, <1>2, <1>3 DEF ParseToolCall, Decisions

LEMMA FallbackIsDecision ==
  Fallback \in Decisions /\ Fallback.expert \notin Silent
<1>1. Fallback.expert \in {"coder", "infrastructure", "search", "planner"}
  BY DEF Fallback
<1>2. Fallback.expert \in Experts
  BY <1>1 DEF Experts
<1>3. Fallback.expert \notin Silent
  BY <1>1 DEF Silent
<1>4. Fallback = [expert |-> Fallback.expert, answer |-> "", question |-> "",
                  scope |-> "", steps |-> 10]
  BY DEF Fallback
<1>5. ASSUME NEW x \in Experts
      PROVE  [expert |-> x, answer |-> "", question |-> "", scope |-> "",
              steps |-> 10] \in Decisions
  BY DEF Decisions, Texts
<1>6. Fallback \in Decisions
  <2>1. [expert |-> Fallback.expert, answer |-> "", question |-> "",
         scope |-> "", steps |-> 10] \in Decisions
    BY <1>2, <1>5
  <2> QED
    BY <1>4, <2>1, Zenon
<1> QED
  BY <1>3, <1>6

-----------------------------------------------------------------------------
\* The limit of the agent's iterations.

LEMMA GreaterOfTwo ==
  ASSUME NEW a \in Int, NEW b \in Int
  PROVE  Max({a, b}) \in {a, b}
<1>1. \E x \in {a, b} : \A y \in {a, b} : x >= y
  BY DEF Max
<1> QED
  BY <1>1 DEF Max

LEMMA LesserOfTwo ==
  ASSUME NEW a \in Int, NEW b \in Int
  PROVE  Min({a, b}) \in {a, b}
<1>1. \E x \in {a, b} : \A y \in {a, b} : x <= y
  OBVIOUS
<1> QED
  BY <1>1 DEF Min

LEMMA LimitInRange ==
  ASSUME NEW d \in Decisions
  PROVE  MaxIterations(d) \in 0..300
<1>1. d.steps \in 1..100
  BY DEF Decisions
<1>2. d.steps * 3 \in 0..300
  BY <1>1
<1>3. ASSUME NEW a \in 0..300
      PROVE  Min({a, 200}) \in 0..300
  <2>1. Min({a, 200}) \in {a, 200}
    BY LesserOfTwo
  <2> QED
    BY <2>1
<1>4. BaseMaxIterations(d.expert) \in 0..300
  BY DEF BaseMaxIterations
<1>5. ASSUME NEW a \in 0..300, NEW b \in 0..300
      PROVE  Max({a, b}) \in 0..300
  <2>1. Max({a, b}) \in {a, b}
    BY GreaterOfTwo
  <2> QED
    BY <2>1
<1>6. Max({BaseMaxIterations(d.expert), Min({d.steps * 3, 200})}) \in 0..300
  BY <1>2, <1>3, <1>4, <1>5
<1> QED
  BY <1>6 DEF MaxIterations

-----------------------------------------------------------------------------
\* The inductive invariant.

\* Once a decision is due it is a guarded one: routed, at the second opinion, or
\* sent as the answer.
DecisionGuarded ==
  pc \in {"reroute", "routed", "answered"} =>
    decision \in Decisions /\ NoWork(decision, msg)

\* No escalation before there is an agent, and none after the third.
EscalationsCounted ==
  /\ pc \notin {"agent", "done"} => escalations = 0 /\ pool = {}
  /\ escalations = 3 => pool = {}

IInv == TypeOK /\ DecisionGuarded /\ EscalationsCounted /\ CoderToolsInReach

LEMMA Initially ==
  Init => IInv
<1> SUFFICES ASSUME Init PROVE IInv
  OBVIOUS
<1> USE DEF Init
<1>1. msg \subseteq Families
  BY MessagesAssumption
<1>2. active \in [Groups -> Nat]
  OBVIOUS
<1>3. TypeOK
  BY <1>1, <1>2 DEF TypeOK, Poolable
<1> QED
  BY <1>3 DEF IInv, DecisionGuarded, EscalationsCounted, CoderToolsInReach

\* What a step before the agent needs for the invariant.
LEMMA BeforeAgent ==
  ASSUME IInv, UNCHANGED <<inputVars, agentVars>>,
         client' \in {"none", "open", "closed"}, timeout' \in {"base", "double"},
         pc \notin {"agent", "done"},
         pc' \in {"slots", "post", "diagnose", "retry", "reroute", "routed",
                  "unrouted", "rejected", "answered"},
         \/ decision' \in Decisions /\ NoWork(decision', msg)
         \/ decision' = NoDecision /\ pc' = "unrouted"
         \/ decision' = decision /\ pc' \notin {"reroute", "routed", "answered"}
  PROVE  IInv'
<1> USE DEF IInv, inputVars, agentVars
<1>1. TypeOK'
  BY DEF TypeOK
<1>2. DecisionGuarded'
  BY DEF DecisionGuarded
<1>3. EscalationsCounted'
  BY DEF EscalationsCounted
<1>4. CoderToolsInReach'
  BY DEF CoderToolsInReach
<1> QED
  BY <1>1, <1>2, <1>3, <1>4

\* Every reply that leads on leads to a guarded decision.
LEMMA ReplyGuarded ==
  ASSUME Reply
  PROVE  /\ pc' \in {"reroute", "routed", "unrouted"}
         /\ \/ decision' \in Decisions /\ NoWork(decision', msg)
            \/ decision' = NoDecision /\ pc' = "unrouted"
<1>1. CASE FallBack
  BY <1>1, FallbackIsDecision DEF FallBack, NoWork, Silent
<1>2. CASE \E c \in Offered : Decide(c)
  <2>1. PICK c \in Offered : Decide(c)
    BY <1>2
  <2>2. decision' = Guarded(ParseToolCall(c), msg)
        /\ pc' \in {"reroute", "routed"}
    BY <2>1 DEF Decide
  <2>3. ParseToolCall(c) \in Decisions
    BY ParsedIsDecision
  <2>4. decision' \in Decisions /\ NoWork(decision', msg)
    BY <2>2, <2>3, GuardedHasNoWork
  <2> QED
    BY <2>2, <2>4
<1>3. CASE decision' = NoDecision /\ pc' = "unrouted"
  BY <1>3
<1> QED
  BY <1>1, <1>2, <1>3 DEF Reply

LEMMA FallBackGuarded ==
  ASSUME FallBack
  PROVE  pc' = "routed" /\ decision' \in Decisions /\ NoWork(decision', msg)
BY FallbackIsDecision DEF FallBack, NoWork, Silent

\* The second opinion names a route that an agent takes, or changes nothing.
LEMMA RerouteGuarded ==
  ASSUME IInv, Reroute
  PROVE  IInv'
<1>1. pc = "reroute" /\ decision \in Decisions /\ NoWork(decision, msg)
  BY DEF Reroute, IInv, DecisionGuarded
<1>2. PICK named \in SUBSET Routed :
        decision' =
          IF named = {} THEN decision
          ELSE LET first == Min({i \in 1..5 : RouteOrder[i] \in named})
               IN  [decision EXCEPT !.expert = RouteOrder[first]]
  BY DEF Reroute
<1>3. CASE named = {}
  BY <1>1, <1>2, <1>3, BeforeAgent DEF Reroute, IInv, TypeOK
<1>4. CASE named # {}
  <2> DEFINE I     == {i \in 1..5 : RouteOrder[i] \in named}
             first == Min(I)
  <2>1. \E i \in I : \A j \in I : i <= j
    <3>1. \E i \in 1..5 : RouteOrder[i] \in named
      <4>1. PICK x \in named : x \in Routed
        BY <1>4
      <4>2. \/ RouteOrder[1] = x \/ RouteOrder[2] = x \/ RouteOrder[3] = x
            \/ RouteOrder[4] = x \/ RouteOrder[5] = x
        BY <4>1 DEF Routed, RouteOrder
      <4> QED
        BY <4>1, <4>2
    <3>2. I \subseteq 1..5 /\ I # {}
      BY <3>1
    <3>3. \/ 1 \in I
          \/ 1 \notin I /\ 2 \in I
          \/ 1 \notin I /\ 2 \notin I /\ 3 \in I
          \/ 1 \notin I /\ 2 \notin I /\ 3 \notin I /\ 4 \in I
          \/ 1 \notin I /\ 2 \notin I /\ 3 \notin I /\ 4 \notin I /\ 5 \in I
      BY <3>2
    <3> HIDE DEF I
    <3> QED
      BY <3>2, <3>3
  <2>2. first \in I
    <3> HIDE DEF I
    <3> QED
      BY <2>1 DEF Min
  <2>3. RouteOrder[first] \in Routed
    BY <2>2
  <2> HIDE DEF first
  <2>4. decision' = [decision EXCEPT !.expert = RouteOrder[first]]
    BY <1>2, <1>4 DEF first
  <2>5. RouteOrder[first] \in Experts \ Silent
    BY <2>3 DEF Routed, Experts, Silent
  <2>6. decision' \in Decisions /\ decision'.expert = RouteOrder[first]
    BY <1>1, <2>4, <2>5 DEF Decisions
  <2>7. NoWork(decision', msg)
    BY <2>5, <2>6 DEF NoWork, Silent
  <2> QED
    BY <1>1, <2>6, <2>7, BeforeAgent DEF Reroute, IInv, TypeOK
<1> QED
  BY <1>3, <1>4

LEMMA ClassifyStep ==
  ASSUME IInv, Classify
  PROVE  IInv'
<1> USE DEF IInv, TypeOK
<1>1. CASE CheckSlots
  <2>1. timeout' \in {"base", "double"}
    BY <1>1 DEF CheckSlots
  <2> QED
    BY <1>1, <2>1, BeforeAgent DEF CheckSlots, GetClient
<1>2. CASE Post
  <2>1. \/ /\ pc' \in {"reroute", "routed", "unrouted"}
           /\ \/ decision' \in Decisions /\ NoWork(decision', msg)
              \/ decision' = NoDecision /\ pc' = "unrouted"
        \/ pc' = "diagnose" /\ decision' = decision
    BY <1>2, ReplyGuarded, FallBackGuarded DEF Post
  <2> QED
    BY <1>2, <2>1, BeforeAgent DEF Post
<1>3. CASE Diagnose
  <2>1. \/ pc' = "routed" /\ decision' \in Decisions /\ NoWork(decision', msg)
        \/ pc' = "retry" /\ decision' = decision
    BY <1>3, FallBackGuarded DEF Diagnose
  <2> QED
    BY <1>3, <2>1, BeforeAgent DEF Diagnose, GetClient
<1>4. CASE Retry
  <2>1. /\ pc' \in {"reroute", "routed", "unrouted"}
        /\ \/ decision' \in Decisions /\ NoWork(decision', msg)
           \/ decision' = NoDecision /\ pc' = "unrouted"
    BY <1>4, ReplyGuarded, FallBackGuarded DEF Retry
  <2> QED
    BY <1>4, <2>1, BeforeAgent DEF Retry
<1>5. CASE Reroute
  BY <1>5, RerouteGuarded
<1> QED
  BY <1>1, <1>2, <1>3, <1>4, <1>5 DEF Classify

-----------------------------------------------------------------------------
\* The agent.

\* What an agent of any route is built with, together with its pool, is all that
\* a coder's could be: a group the route lacks, and the shell of a route without
\* commands, waits in the pool.
LEMMA BuiltInReach ==
  ASSUME NEW x \in Experts, NEW g \in Poolable, Buildable(g, TRUE)
  PROVE  g \in BuildExtensions(x) \/ g \in BuildToolPool(x)
<1>1. g \in CoderGroups
  BY DEF Poolable
<1>2. CASE x \in {"coder", "infrastructure"}
  <2>1. RouteToolGroups(x) = CoderGroups /\ HasCommands(x)
    BY <1>2 DEF RouteToolGroups, HasCommands
  <2> QED
    BY <1>1, <2>1 DEF BuildExtensions, Buildable
<1>3. CASE x \notin {"coder", "infrastructure"} /\ x \in Mapped
  <2>1. CASE g \in RouteToolGroups(x)
    <3>1. g # "shell"
      BY <1>3, <2>1 DEF Mapped, Routed, RouteToolGroups
    <3>2. Buildable(g, HasCommands(x))
      BY <3>1 DEF Buildable
    <3> QED
      BY <2>1, <3>2 DEF BuildExtensions
  <2>2. CASE g \notin RouteToolGroups(x)
    BY <1>1, <1>3, <2>2 DEF BuildToolPool
  <2> QED
    BY <2>1, <2>2
<1>4. CASE x \notin {"coder", "infrastructure"} /\ x \notin Mapped
  BY <1>1, <1>4 DEF BuildToolPool
<1> QED
  BY <1>2, <1>3, <1>4

LEMMA AgentStarted ==
  ASSUME IInv, NEW d \in Decisions, StartAgent(d), pc \in {"routed", "unrouted"}
  PROVE  IInv'
<1> USE DEF IInv
<1>1. d.expert \in Experts
  BY DEF Decisions
<1>2. active' \in [Groups -> Nat]
  BY DEF StartAgent
<1>3. pool' \subseteq Poolable
  BY DEF StartAgent, BuildToolPool
<1>4. limit' \in 0..300
  BY LimitInRange DEF StartAgent
<1>5. TypeOK'
  BY <1>2, <1>3, <1>4 DEF TypeOK, StartAgent, inputVars
<1>6. DecisionGuarded'
  BY DEF DecisionGuarded, StartAgent
<1>7. EscalationsCounted'
  BY DEF EscalationsCounted, StartAgent
<1>8. CoderToolsInReach'
  <2> SUFFICES ASSUME config'.pooling, NEW g \in Poolable, Buildable(g, TRUE)'
               PROVE  (active[g] > 0 \/ g \in pool)'
    BY DEF CoderToolsInReach
  <2>1. Buildable(g, TRUE)
    BY DEF Buildable, StartAgent, inputVars
  <2>2. g \in BuildExtensions(d.expert) \/ g \in BuildToolPool(d.expert)
    BY <1>1, <2>1, BuiltInReach
  <2>3. config.pooling /\ g \in Groups
    BY DEF StartAgent, inputVars, Poolable, CoderGroups
  <2>4. CASE g \in BuildExtensions(d.expert)
    <3>1. active'[g] = 1
      BY <2>3, <2>4 DEF StartAgent
    <3> QED
      BY <3>1
  <2>5. CASE g \in BuildToolPool(d.expert)
    BY <2>3, <2>5 DEF StartAgent
  <2> QED
    BY <2>2, <2>4, <2>5
<1> QED
  BY <1>5, <1>6, <1>7, <1>8

LEMMA RunAgentStep ==
  ASSUME IInv, RunAgent
  PROVE  IInv'
<1>1. DefaultRoute \in Decisions
  BY DEF DefaultRoute, Decisions, Experts, Texts
<1>2. CASE pc = "routed" /\ StartAgent(decision)
  <2>1. decision \in Decisions
    BY <1>2 DEF IInv, DecisionGuarded
  <2> QED
    BY <1>2, <2>1, AgentStarted
<1>3. CASE pc = "unrouted" /\ StartAgent(DefaultRoute)
  BY <1>1, <1>3, AgentStarted
<1> QED
  BY <1>2, <1>3 DEF RunAgent

LEMMA EscalationStep ==
  ASSUME IInv, SelectAndEscalate
  PROVE  IInv'
<1> USE DEF IInv
<1>1. PICK requested \in Selections :
        LET granted == Granted(requested)
        IN  /\ active' = Enable(granted)
            /\ pool' = pool \ granted
            /\ escalations' = escalations + (IF granted # {} THEN 1 ELSE 0)
            /\ limit' = IF granted # {} /\ limit < 15 THEN 20 ELSE limit
  BY DEF SelectAndEscalate
<1> DEFINE granted == Granted(requested)
<1>2. granted \subseteq pool
  BY DEF Granted
<1>3. escalations \in 0..2
  BY DEF TypeOK, EscalationsCounted, SelectAndEscalate
<1>4. escalations = 2 /\ granted # {} => granted = pool
  BY DEF Granted
<1> HIDE DEF granted
<1>5. /\ active' = Enable(granted)
      /\ pool' = pool \ granted
      /\ escalations' = escalations + (IF granted # {} THEN 1 ELSE 0)
      /\ limit' = IF granted # {} /\ limit < 15 THEN 20 ELSE limit
  BY <1>1 DEF granted
<1>6. pc = "agent" /\ UNCHANGED <<pc, client, inputVars, routeVars>>
  BY DEF SelectAndEscalate
<1>7. active' \in [Groups -> Nat]
      /\ \A g \in Groups : active'[g] >= active[g]
                           /\ (g \in granted => active'[g] > 0)
  BY <1>5 DEF Enable, TypeOK
<1>8. TypeOK'
  BY <1>3, <1>5, <1>6, <1>7 DEF TypeOK, inputVars, routeVars
<1>9. DecisionGuarded'
  BY <1>6 DEF DecisionGuarded
<1>10. EscalationsCounted'
  BY <1>3, <1>4, <1>5, <1>6 DEF EscalationsCounted
<1>11. CoderToolsInReach'
  <2> SUFFICES ASSUME config'.pooling, NEW g \in Poolable, Buildable(g, TRUE)'
               PROVE  (active[g] > 0 \/ g \in pool)'
    BY DEF CoderToolsInReach
  <2>1. Buildable(g, TRUE) /\ config.pooling
    BY <1>6 DEF Buildable, inputVars
  <2>2. active[g] > 0 \/ g \in pool
    BY <1>6, <2>1 DEF CoderToolsInReach
  <2>3. g \in Groups /\ active \in [Groups -> Nat]
    BY DEF TypeOK, Poolable, CoderGroups
  <2> QED
    BY <1>5, <1>7, <2>2, <2>3
<1> QED
  BY <1>8, <1>9, <1>10, <1>11

\* A step that changes no more than the client, or the place of a request that
\* is answered, refused or over.
LEMMA OtherStep ==
  ASSUME IInv, UNCHANGED <<inputVars, routeVars, agentVars>>,
         client' \in {"none", "open", "closed"},
         \/ pc' = pc
         \/ pc = "new" /\ pc' \in {"rejected", "slots", "unrouted"}
         \/ pc = "routed" /\ pc' = "answered"
         \/ pc = "agent" /\ pc' = "done"
  PROVE  IInv'
<1> USE DEF IInv, inputVars, routeVars, agentVars
<1>1. TypeOK'
  BY DEF TypeOK
<1>2. DecisionGuarded'
  BY DEF DecisionGuarded
<1>3. EscalationsCounted'
  BY DEF EscalationsCounted
<1>4. CoderToolsInReach'
  BY DEF CoderToolsInReach, Buildable
<1> QED
  BY <1>1, <1>2, <1>3, <1>4

LEMMA Inductive ==
  IInv /\ [Next]_vars => IInv'
<1> SUFFICES ASSUME IInv, [Next]_vars PROVE IInv'
  OBVIOUS
<1>0. client \in {"none", "open", "closed"}
  BY DEF IInv, TypeOK
<1>1. CASE Arrive
  BY <1>0, <1>1, OtherStep DEF Arrive
<1>2. CASE Classify
  BY <1>2, ClassifyStep
<1>3. CASE AnswerWithoutAgent
  BY <1>0, <1>3, OtherStep DEF AnswerWithoutAgent
<1>4. CASE RunAgent
  BY <1>4, RunAgentStep
<1>5. CASE SelectAndEscalate
  BY <1>5, EscalationStep
<1>6. CASE AgentEnds
  BY <1>0, <1>6, OtherStep DEF AgentEnds
<1>7. CASE Shutdown
  BY <1>7, OtherStep DEF Shutdown
<1>8. CASE UNCHANGED vars
  BY <1>0, <1>8, OtherStep DEF vars
<1> QED
  BY <1>1, <1>2, <1>3, <1>4, <1>5, <1>6, <1>7, <1>8 DEF Next

LEMMA InvariantHolds ==
  Spec => []IInv
BY Initially, Inductive, PTL DEF Spec

-----------------------------------------------------------------------------
\* Every variable keeps its type: the limit of the agent stays within 300, and
\* no more than three escalations are ever counted.
THEOREM TypeCorrect ==
  Spec => []TypeOK
<1>1. IInv => TypeOK
  BY DEF IInv
<1> QED
  BY <1>1, InvariantHolds, PTL

\* Whatever the message and whatever the two models said of it, a request that is
\* answered without an agent asked for nothing that an agent would have to do.
THEOREM NoWorkIsAnsweredAway ==
  Spec => []AnsweredOnlyWithoutWork
<1>1. IInv => AnsweredOnlyWithoutWork
  BY DEF IInv, DecisionGuarded, NoWork, AnsweredOnlyWithoutWork
<1> QED
  BY <1>1, InvariantHolds, PTL

\* With the tool pool on, an agent of any route keeps all of a coder's tools
\* enabled or in its pool, through every escalation.
THEOREM ToolsStayInReach ==
  Spec => []CoderToolsInReach
<1>1. IInv => CoderToolsInReach
  BY DEF IInv
<1> QED
  BY <1>1, InvariantHolds, PTL
=============================================================================
