----------------------- MODULE MCRequestRouting -----------------------
(* A small instance of RequestRouting: one message for each guard, those  *)
(* that two guards or two routes claim, and one that none claims.         *)
EXTENDS RequestRouting

MCMessages ==
  {{}, {"coding"}, {"action"}, {"document"}, {"search", "project"},
   {"recall", "document"}, {"infra", "identity"},
   {"infra", "project", "search"}}
MCSteps == {0, 4, 101}
MCFallbacks == {"search", "user"}
MCAsks == {{"web"}, {"memory"}, {"code_search", "document", "rules"}}
=============================================================================
