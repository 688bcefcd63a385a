---------------------------- MODULE MCAgentLoop ----------------------------
(***************************************************************************)
(* Instances of AgentLoop: the routes of HttpRoutedEntry, with limits and  *)
(* pools small enough to explore.                                          *)
(***************************************************************************)
EXTENDS AgentLoop

Coder == [fast |-> TRUE, requiresTools |-> TRUE, simple |-> FALSE,
          experts |-> TRUE, limit |-> 4, pool |-> 0]
\* A coder when no tool_orchestrator role is configured.
CoderAlone == [Coder EXCEPT !.fast = FALSE, !.experts = FALSE]
User == [fast |-> TRUE, requiresTools |-> TRUE, simple |-> TRUE,
         experts |-> FALSE, limit |-> 3, pool |-> 2]
Search == [fast |-> FALSE, requiresTools |-> FALSE, simple |-> FALSE,
           experts |-> FALSE, limit |-> 4, pool |-> 1]
SimpleSearch == [Search EXCEPT !.simple = TRUE]

MCRoutes == {Coder, CoderAlone, User, Search, SimpleSearch}
=============================================================================
