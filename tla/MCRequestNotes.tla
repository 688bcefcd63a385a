--------------------------- MODULE MCRequestNotes ---------------------------
(***************************************************************************)
(* An instance of RequestNotes for TLC: two requests of two users, one of  *)
(* whom may be without a profile, with one permit for their observations.  *)
(***************************************************************************)
EXTENDS RequestNotes

CONSTANTS r1, r2, u1, u2, s1, p1, c1, f1, f2

Item(key, scope, project) ==
  [object |-> TRUE, content |-> c1, key |-> key, value |-> c1, scope |-> scope,
   project |-> project]
Word == [object |-> FALSE, content |-> None, key |-> None, value |-> None, scope |-> "",
         project |-> None]

\* A thought with brackets before the answer; a preference that mentions a
\* project, and a fact about the project.
MCReplies == {<<>>, <<<<Word>>, <<Item("preference", "", p1), Item("tool", "", p1)>>>>}

Ending(u, identified, trajectory, text) ==
  [user |-> u, session |-> s1, identified |-> identified, trajectory |-> trajectory,
   text |-> text]
MCEndings == [r \in Requests |->
  IF r = r1 THEN {Ending(u1, TRUE, "none", {}), Ending(u2, FALSE, "text", {})}
  ELSE {Ending(u1, FALSE, "text", {}), Ending(None, FALSE, "text", {f1, f2})}]

MCConnections == {Services, Services \ {"redis"}}
=============================================================================
