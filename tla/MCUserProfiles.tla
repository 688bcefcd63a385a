--------------------------- MODULE MCUserProfiles ---------------------------
(***************************************************************************)
(* Instances of UserProfiles for TLC: two names that are alike without     *)
(* being confused at once, users created during the run, and a             *)
(* session with two requests.                                              *)
(***************************************************************************)
EXTENDS UserProfiles

CONSTANTS r1, r2, s1, u1, u2, sean, seli, i1, i2

MCSidOf == [r \in Reqs |-> s1]

MCAlike(m, n) == IF m = n THEN "auto" ELSE "ask"

Known(n, items) == [names |-> {n}, items |-> items, sessions |-> {}]
MCStored ==
  {[u \in Users |-> None],
   [u \in Users |-> CASE u = u1 -> Known(sean, {i2}) [] u = u2 -> Known(seli, {i1})
                      [] OTHER -> None]}

MCMessages == [r \in Reqs |->
  IF r = r1
  THEN {[kind |-> "alias", name |-> sean, alias |-> seli], [kind |-> "name", name |-> sean],
        [kind |-> "plain"]}
  ELSE {[kind |-> "token", user |-> u1], [kind |-> "router", name |-> seli],
        [kind |-> "admin", user |-> u1]}]

MCTools == [r \in Reqs |->
  IF r = r1
  THEN {[call |-> "remember", item |-> i1], [call |-> "delete"]}
  ELSE {[call |-> "remember", item |-> i1], [call |-> "forget", item |-> i2],
        [call |-> "alias", name |-> seli], [call |-> "identify", name |-> seli],
        [call |-> "infer"]}]
=============================================================================
