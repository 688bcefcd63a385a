--------------------------- MODULE SerialSessions ---------------------------
(***************************************************************************)
(* What the session pool promises, without pool, locks or agents: each     *)
(* session executes one turn at a time, and its log grows by exactly the   *)
(* turn that was executed.  A turn that is under way may be abandoned when *)
(* the process dies.  Nothing is promised of a session that is not kept.   *)
(***************************************************************************)
EXTENDS FiniteSets

CONSTANTS Sessions, Turns, None

VARIABLES
  active,   \* the turn each session is executing, or None
  log,      \* the turns each session has executed
  kept      \* the sessions the promise is made for

vars == <<active, log, kept>>

Init ==
  /\ active = [s \in Sessions |-> None]
  /\ log = [s \in Sessions |-> {}]
  /\ kept \in SUBSET Sessions

Begin(s) ==
  /\ active[s] = None
  /\ active'[s] \in Turns \ log[s]
  /\ log'[s] = log[s]

Commit(s) ==
  /\ active[s] # None
  /\ active'[s] = None
  /\ log'[s] = log[s] \cup {active[s]}

Abandon(s) == active'[s] = None /\ log'[s] = log[s]

Idle(s) == active'[s] = active[s] /\ log'[s] = log[s]

\* Sessions are independent: one step of the server may be a step of several.
Next ==
  /\ kept' \subseteq kept
  /\ \A s \in kept' : Begin(s) \/ Commit(s) \/ Abandon(s) \/ Idle(s)

Spec == Init /\ [][Next]_vars
=============================================================================
