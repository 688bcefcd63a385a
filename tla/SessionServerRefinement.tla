---------------------- MODULE SessionServerRefinement ----------------------
(***************************************************************************)
(* The session pool and the request handlers implement SerialSessions for  *)
(* every quiet session: the turn under way is the one whose agent has      *)
(* started and whose handler has not released the session, and the log is  *)
(* the session's file.                                                     *)
(***************************************************************************)
EXTENDS SessionServer

UnderWay(s) ==
  {r \in Requests : /\ SidOf[r] = s
                    /\ handler[r] = "awaitAgent"
                    /\ agent[r] \in {"running", "ended"}}

Active == [s \in Sids |-> IF UnderWay(s) = {} THEN None
                                              ELSE CHOOSE r \in UnderWay(s) : TRUE]

Kept == {s \in Sids : Quiet(s)}

Serial == INSTANCE SerialSessions WITH
  Sessions <- Sids, Turns <- Requests, active <- Active, log <- disk, kept <- Kept

\* Refinement: each quiet session runs its turns one at a time, and its file
\* grows by exactly the turn that ran, at the release of its request (acquire,
\* release, eviction, expiry and restarts taken together).
ImplementsSerialSessions == Serial!Spec
=============================================================================
