------------------------ MODULE UserProfilesProofs ------------------------
(***************************************************************************)
(* Theorems about UserProfiles, for any users, sessions, requests,         *)
(* messages, tools and bounds.                                             *)
(***************************************************************************)
EXTENDS UserProfiles, TLAPS

-----------------------------------------------------------------------------
(* What a request has at hand, by where it is *)

Kind(r) == msg[r].kind
Holding == {"lock", "linkSession", "upsert", "context", "refused", "dropSecondary",
            "dropContext", "mergeSession"}
Saving  == {"dropSecondary", "dropContext", "upsert", "refused", "context"}
Unasked(r) == tool[r] = None /\ msg[r].kind \in {"name", "router"}

ReqOK(r) ==
  /\ pc[r] # "new" => msg[r] \in Messages[r]
  /\ tool[r] = None \/ tool[r] \in Tools[r] \/ \E i \in Items : tool[r] = Extraction(i)
  /\ pc[r] \in {"new", "create", "token", "find", "note", "both"} => tool[r] = None
  /\ pc[r] = "token" => Kind(r) = "token"
  /\ pc[r] \in {"find", "note"} => Unasked(r)
  /\ pc[r] \in {"both", "alias"} => Kind(r) = "alias"
  /\ pc[r] = "identify" => Unasked(r) \/ (tool[r] \in Tools[r] /\ tool[r].call = "identify")
  /\ pc[r] = "update" =>
       tool[r] # None /\ tool[r].call \in {"remember", "forget", "alias", "extract"}
  /\ pc[r] = "stash" => tool[r] # None /\ tool[r].call = "remember"
  /\ pc[r] \in Holding => uid[r] \in Users /\ prof[r] \in Profile
  /\ pc[r] \in {"dropSecondary", "dropContext"} => other[r] \in Users
  /\ pc[r] \in {"erase", "eraseContext"} => uid[r] \in Users
  /\ pc[r] = "alias" /\ prof[r] # None => uid[r] \in Users
  /\ other[r] # None => pc[r] \in Saving /\ then[r] = "mergeSession"
  /\ then[r] # "tools" => pc[r] \in Saving

LocalType ==
  /\ pc \in [Reqs -> Steps]
  /\ then \in [Reqs -> {"tools", "lock", "mergeSession"}]
  /\ msg \in [Reqs -> Said \cup {None}]
  /\ tool \in [Reqs -> Called \cup {None}]
  /\ uid \in [Reqs -> Users \cup {None}]
  /\ prof \in [Reqs -> Profile \cup {None}]
  /\ other \in [Reqs -> Users \cup {None}]

Act(r) == Arrive(r) \/ Admin(r) \/ CallTool(r) \/ Extract(r) \/ Step(r)

Local == <<pc, then, msg, tool, uid, prof, other>>

LEMMA SessionsOnly ==
  ASSUME NEW s \in Sids, DeleteSession(s) \/ Expire(s)
  PROVE  UNCHANGED <<Local, qdrant, profiles, contexts, deleted, clean, stale, acked, noted, heap,
                     obj, lock, faults>>
BY DEF DeleteSession, Expire, control, copies, store, Local

\* Only its own steps change what a request has at hand.
LEMMA Frame ==
  ASSUME LocalType, NEW r \in Reqs, Act(r), NEW q \in Reqs, q # r
  PROVE  /\ pc'[q] = pc[q] /\ then'[q] = then[q] /\ msg'[q] = msg[q] /\ tool'[q] = tool[q]
         /\ uid'[q] = uid[q] /\ prof'[q] = prof[q] /\ other'[q] = other[q]
<1> USE DEF LocalType, Goto, control, copies
<1>1. CASE Arrive(r) \/ Admin(r) \/ CallTool(r) \/ Extract(r)
  <2>1. CASE Arrive(r)
    <3>1. UNCHANGED <<tool, then, copies>>
      BY <2>1 DEF Arrive
    <3>2. \E m : msg' = [msg EXCEPT ![r] = m]
      BY <2>1 DEF Arrive
    <3>3. \E l : pc' = [pc EXCEPT ![r] = l]
      BY <2>1 DEF Arrive
    <3> QED
      BY <3>1, <3>2, <3>3
  <2>2. CASE Admin(r)
    BY <2>2 DEF Admin
  <2>3. CASE CallTool(r)
    <3>1. UNCHANGED <<msg, then, copies>>
      BY <2>3 DEF CallTool
    <3>2. \E t, l : tool' = [tool EXCEPT ![r] = t] /\ pc' = [pc EXCEPT ![r] = l]
      BY <2>3, Zenon DEF CallTool
    <3> QED
      BY <3>1, <3>2
  <2>4. CASE Extract(r)
    BY <2>4 DEF Extract
  <2> QED
    BY <1>1, <2>1, <2>2, <2>3, <2>4
<1>2. CASE \/ Create(r) \/ Token(r) \/ FindByRouter(r) \/ FindByName(r) \/ Note(r)
           \/ Identify(r) \/ FindPrimary(r) \/ Infer(r) \/ Asked(r)
  BY <1>2 DEF Create, Token, FindByRouter, FindByName, Note, Identify, FindPrimary, Infer,
     Asked, BeginLink, LinkIfConfident
<1>3. CASE Consolidate(r)
  <2>1. UNCHANGED <<msg, tool>>
    BY <1>3 DEF Consolidate
  <2>2. /\ pc' = pc \/ \E l : pc' = [pc EXCEPT ![r] = l]
        /\ then' = then \/ \E l : then' = [then EXCEPT ![r] = l]
        /\ uid' = uid \/ \E l : uid' = [uid EXCEPT ![r] = l]
        /\ prof' = prof \/ \E l : prof' = [prof EXCEPT ![r] = l]
        /\ other' = other \/ \E l : other' = [other EXCEPT ![r] = l]
    BY <1>3 DEF Consolidate, BeginLink, BeginSave
  <2> QED
    BY <2>1, <2>2
<1>4. CASE \/ Lock(r) \/ LinkSession(r) \/ Refused(r) \/ Upsert(r) \/ NotSaved(r)
           \/ SaveRaises(r) \/ Context(r) \/ DropSecondary(r) \/ DropContext(r)
           \/ MergeSession(r)
  BY <1>4 DEF Lock, LinkSession, Refused, Upsert, NotSaved, SaveRaises, Context, DropSecondary,
     DropContext, MergeSession, BeginSave, Saved, Raised
<1>5. CASE Update(r)
  <2>1. UNCHANGED <<msg, tool, then, other>>
    BY <1>5 DEF Update
  <2>2. /\ pc' = pc \/ \E l : pc' = [pc EXCEPT ![r] = l]
        /\ uid' = uid \/ \E l : uid' = [uid EXCEPT ![r] = l]
        /\ prof' = prof \/ \E l : prof' = [prof EXCEPT ![r] = l]
    BY <1>5 DEF Update, BeginSave
  <2> QED
    BY <2>1, <2>2
<1>6. CASE Stash(r) \/ Lookup(r) \/ Erase(r) \/ EraseContext(r) \/ Final(r)
  BY <1>6 DEF Stash, Lookup, Erase, EraseContext, Final
<1> QED
  BY <1>1, <1>2, <1>3, <1>4, <1>5, <1>6 DEF Act, Step

LEMMA FoundUsers ==
  ASSUME NEW n, NEW u, u \in Found(n)
  PROVE  u = None \/ (u \in Users /\ profiles[u] # None)
BY DEF Found

LEMMA FindUsers ==
  ASSUME NEW n, NEW u, Find(n, u)
  PROVE  u = None \/ (u \in Users /\ profiles[u] # None)
BY FoundUsers DEF Find

LEMMA SaveSteps ==
  ASSUME TypeOK, NEW r \in Reqs, NEW u, BeginSave(r, u)
  PROVE  /\ pc' \in [Reqs -> Steps]
         /\ pc'[r] \in {"refused", "upsert"}
         /\ pc'[r] = "upsert" => u \notin deleted
BY DEF BeginSave, Goto, TypeOK, Steps

LEMMA LinkSteps ==
  ASSUME TypeOK, NEW r \in Reqs, NEW u \in Users, NEW p \in Profile, BeginLink(r, u, p)
  PROVE  /\ pc' \in [Reqs -> Steps] /\ pc'[r] = "lock"
         /\ uid' \in [Reqs -> Users \cup {None}] /\ uid'[r] = u
         /\ prof' \in [Reqs -> Profile \cup {None}] /\ prof'[r] = p
BY DEF BeginLink, Goto, TypeOK, Steps

LEMMA ExtractionIs ==
  ASSUME NEW i \in Items
  PROVE  Extraction(i) # None /\ Extraction(i).call = "extract" /\ Extraction(i).item = i
<1>1. Extraction(i) # None
  BY NoneAssumption
<1>2. Extraction(i).call = "extract" /\ Extraction(i).item = i
  BY DEF Extraction
<1> QED
  BY <1>1, <1>2

\* A step of a request leaves what it has at hand in order.
LEMMA ArriveStep ==
  ASSUME TypeOK, NEW r \in Reqs, ReqOK(r), Arrive(r) \/ Admin(r)
  PROVE  LocalType' /\ ReqOK(r)'
<1> USE DEF LocalType, TypeOK, ReqOK, Holding, Saving, Kind, Unasked, Goto, control, copies, Said
<1>1. CASE Admin(r)
  BY <1>1 DEF Admin, Steps
<1>2. CASE Arrive(r)
  <2>1. pc[r] = "new" /\ UNCHANGED <<tool, then, uid, prof, other>>
    BY <1>2 DEF Arrive
  <2>2. PICK m, l : /\ m \in Messages[r] /\ m.kind # "admin"
                    /\ msg' = [msg EXCEPT ![r] = m]
                    /\ pc' = [pc EXCEPT ![r] = l]
                    /\ l \in {"tools", "create", ByMessage(r, m)}
    BY <1>2 DEF Arrive
  <2>3. \/ l = "tools" \/ l = "create" \/ l = "infer"
        \/ l = "token" /\ m.kind = "token"
        \/ l = "find" /\ m.kind \in {"name", "router"}
        \/ l = "both" /\ m.kind = "alias"
    BY <2>2 DEF ByMessage
  <2>4. m \in Said
    BY <2>2 DEF Said
  <2> QED
    BY <2>1, <2>2, <2>3, <2>4 DEF Steps
<1> QED
  BY <1>1, <1>2

LEMMA IdentifyStep ==
  ASSUME TypeOK, NEW r \in Reqs, ReqOK(r),
         \/ Create(r) \/ Token(r) \/ FindByRouter(r) \/ FindByName(r) \/ Note(r)
         \/ Identify(r) \/ Infer(r) \/ Asked(r)
  PROVE  LocalType' /\ ReqOK(r)'
<1> USE DEF LocalType, ReqOK, Holding, Saving, Kind, Unasked
<1>1. CASE Create(r)
  <2>1. /\ pc' = [pc EXCEPT ![r] = ByMessage(r, msg[r])]
        /\ pc[r] = "create" /\ UNCHANGED <<msg, tool, then, copies>>
    BY <1>1 DEF Create, Goto
  <2>2. \/ ByMessage(r, msg[r]) = "infer"
        \/ ByMessage(r, msg[r]) = "token" /\ Kind(r) = "token"
        \/ ByMessage(r, msg[r]) = "find" /\ Kind(r) \in {"name", "router"}
        \/ ByMessage(r, msg[r]) = "both" /\ Kind(r) = "alias"
    BY DEF ByMessage
  <2> QED
    BY <2>1, <2>2 DEF TypeOK, Steps, copies
<1>2. ASSUME NEW u \in Users, NEW p \in Profile, BeginLink(r, u, p),
             UNCHANGED <<msg, tool, then, other>>, pc[r] \in {"token", "find", "identify", "infer"}
      PROVE  LocalType' /\ ReqOK(r)'
  BY <1>2, LinkSteps DEF TypeOK
<1>3. ASSUME NEW l \in {"infer", "tools", "asked"}, Goto(r, l),
             UNCHANGED <<msg, tool, then, uid, prof, other>>,
             pc[r] \in {"token", "find", "note", "identify", "infer", "asked"}
      PROVE  LocalType' /\ ReqOK(r)'
  BY <1>3 DEF TypeOK, Steps, Goto
<1>4. ASSUME NEW l \in {"identify", "note"}, Goto(r, l),
             UNCHANGED <<msg, tool, then, uid, prof, other>>,
             pc[r] \in {"find", "note"}
      PROVE  LocalType' /\ ReqOK(r)'
  BY <1>4 DEF TypeOK, Steps, Goto
<1>5. \A u \in Users : profiles[u] # None => profiles[u] \in Profile
  BY DEF TypeOK
<1>6. CASE Token(r)
  <2>1. msg[r].user \in Users
    BY <1>6, MessagesAssumption DEF Token
  <2>2. pc[r] = "token" /\ UNCHANGED <<msg, tool, then, other>>
    BY <1>6 DEF Token
  <2>3. \/ profiles[msg[r].user] # None /\ BeginLink(r, msg[r].user, profiles[msg[r].user])
        \/ Goto(r, "infer") /\ UNCHANGED <<uid, prof>>
    BY <1>6 DEF Token
  <2> QED
    BY <1>2, <1>3, <1>5, <2>1, <2>2, <2>3
<1>7. CASE FindByRouter(r) \/ FindByName(r)
  <2>1. pc[r] = "find" /\ UNCHANGED <<msg, tool, then, other>>
    BY <1>7 DEF FindByRouter, FindByName
  <2>2. PICK u : /\ Find(msg[r].name, u)
                 /\ \/ u # None /\ BeginLink(r, u, profiles[u])
                    \/ /\ Goto(r, "identify") \/ Goto(r, "note")
                       /\ UNCHANGED <<uid, prof>>
    BY <1>7 DEF FindByRouter, FindByName, LinkIfConfident
  <2> QED
    BY <1>2, <1>4, <1>5, <2>1, <2>2, FindUsers
<1>8. CASE Note(r)
  BY <1>8, <1>3, <1>4 DEF Note, copies
<1>9. CASE Identify(r)
  <2>1. pc[r] = "identify" /\ UNCHANGED <<msg, tool, then, other>>
    BY <1>9 DEF Identify
  <2>2. NameOf(r) \in Names
    BY <2>1, MessagesAssumption, ToolsAssumption DEF NameOf
  <2>3. New({NameOf(r)}) \in Profile
    BY <2>2 DEF New, Profile
  <2>4. PICK u : /\ Find(NameOf(r), u)
                 /\ \/ u # None /\ BeginLink(r, u, profiles[u])
                    \/ \E v \in Users : BeginLink(r, v, New({NameOf(r)}))
    BY <1>9 DEF Identify, Unused
  <2> QED
    BY <1>2, <1>5, <2>1, <2>3, <2>4, FindUsers
<1>10. CASE Infer(r)
  <2>1. pc[r] = "infer" /\ UNCHANGED <<msg, tool, then, other>>
    BY <1>10 DEF Infer
  <2>2. \/ \E u \in contexts : profiles[u] # None /\ BeginLink(r, u, profiles[u])
        \/ (Goto(r, "asked") \/ Goto(r, "tools")) /\ UNCHANGED <<uid, prof>>
    BY <1>10 DEF Infer
  <2>3. contexts \subseteq Users
    BY DEF TypeOK
  <2> QED
    BY <1>2, <1>3, <1>5, <2>1, <2>2, <2>3
<1>11. CASE Asked(r)
  BY <1>11, <1>3 DEF Asked, copies
<1> QED
  BY <1>1, <1>6, <1>7, <1>8, <1>9, <1>10, <1>11

LEMMA AliasStep ==
  ASSUME TypeOK, NEW r \in Reqs, ReqOK(r), FindPrimary(r) \/ Consolidate(r)
  PROVE  LocalType' /\ ReqOK(r)'
<1> USE DEF LocalType, ReqOK, Holding, Saving, Kind, Unasked
<1>0. \A u \in Users : profiles[u] # None => profiles[u] \in Profile
  BY DEF TypeOK
<1>1. CASE FindPrimary(r)
  <2>1. PICK u : /\ Find(msg[r].name, u)
                 /\ uid' = [uid EXCEPT ![r] = u]
                 /\ prof' = [prof EXCEPT ![r] = IF u = None THEN None ELSE profiles[u]]
    BY <1>1 DEF FindPrimary
  <2>2. u = None \/ (u \in Users /\ profiles[u] \in Profile)
    BY <1>0, <2>1, FindUsers
  <2>3. pc[r] = "both" /\ pc' = [pc EXCEPT ![r] = "alias"] /\ UNCHANGED <<msg, tool, then, other>>
    BY <1>1 DEF FindPrimary, Goto
  <2> QED
    BY <2>1, <2>2, <2>3 DEF TypeOK, Steps
<1>2. CASE Consolidate(r)
  <2> DEFINE both == {msg[r].name, msg[r].alias}
  <2>0. pc[r] = "alias" /\ UNCHANGED <<msg, tool>>
    BY <1>2 DEF Consolidate
  <2>1. msg[r].name \in Names /\ msg[r].alias \in Names
    BY <2>0, MessagesAssumption
  <2>2. PICK a : /\ Find(msg[r].alias, a)
                 /\ \/ /\ prof[r] # None
                       /\ BeginLink(r, uid[r], prof[r])
                       /\ UNCHANGED <<other, then>>
                    \/ /\ prof[r] # None /\ a # None
                       /\ prof' = [prof EXCEPT ![r] = Merge(@, profiles[a])]
                       /\ other' = [other EXCEPT ![r] = a]
                       /\ then' = [then EXCEPT ![r] = "mergeSession"]
                       /\ Goto(r, "dropSecondary")
                       /\ UNCHANGED uid
                    \/ /\ prof[r] # None
                       /\ uid' = [uid EXCEPT ![r] = uid[r]]
                       /\ prof' = [prof EXCEPT ![r] = [prof[r] EXCEPT !.names = @ \cup {msg[r].alias}]]
                       /\ then' = [then EXCEPT ![r] = "lock"]
                       /\ BeginSave(r, uid[r]) /\ UNCHANGED other
                    \/ /\ a # None
                       /\ uid' = [uid EXCEPT ![r] = a]
                       /\ prof' = [prof EXCEPT ![r] = [profiles[a] EXCEPT !.names = @ \cup both]]
                       /\ then' = [then EXCEPT ![r] = "lock"]
                       /\ BeginSave(r, a) /\ UNCHANGED other
                    \/ \E v \in Users :
                         /\ uid' = [uid EXCEPT ![r] = v]
                         /\ prof' = [prof EXCEPT ![r] = New(both)]
                         /\ then' = [then EXCEPT ![r] = "lock"]
                         /\ BeginSave(r, v) /\ UNCHANGED other
    BY <1>2, Zenon DEF Consolidate, Unused
  <2>3. a # None => a \in Users /\ profiles[a] \in Profile
    BY <1>0, <2>2, FindUsers
  <2>4. prof[r] # None => uid[r] \in Users /\ prof[r] \in Profile
    BY <2>0 DEF TypeOK
  <2>5. New(both) \in Profile
    BY <2>1 DEF New, Profile
  <2>6. CASE prof[r] # None /\ BeginLink(r, uid[r], prof[r]) /\ UNCHANGED <<other, then>>
    BY <2>0, <2>4, <2>6, LinkSteps DEF TypeOK
  <2>7. CASE /\ prof[r] # None /\ a # None
             /\ prof' = [prof EXCEPT ![r] = Merge(@, profiles[a])]
             /\ other' = [other EXCEPT ![r] = a]
             /\ then' = [then EXCEPT ![r] = "mergeSession"]
             /\ Goto(r, "dropSecondary")
             /\ UNCHANGED uid
    <3>1. Merge(prof[r], profiles[a]) \in Profile
      BY <2>3, <2>4, <2>7 DEF Merge, Profile
    <3> QED
      BY <2>0, <2>3, <2>4, <2>7, <3>1 DEF TypeOK, Goto, Steps
  <2>8. ASSUME NEW v \in Users, NEW p \in Profile,
               uid' = [uid EXCEPT ![r] = v],
               prof' = [prof EXCEPT ![r] = p],
               then' = [then EXCEPT ![r] = "lock"],
               BeginSave(r, v), UNCHANGED other
        PROVE  LocalType' /\ ReqOK(r)'
    BY <2>0, <2>8, SaveSteps DEF TypeOK
  <2>9. /\ prof[r] # None => [prof[r] EXCEPT !.names = @ \cup {msg[r].alias}] \in Profile
        /\ a # None => [profiles[a] EXCEPT !.names = @ \cup both] \in Profile
    BY <2>1, <2>3, <2>4 DEF Profile
  <2> QED
    BY <2>2, <2>3, <2>4, <2>5, <2>6, <2>7, <2>8, <2>9
<1> QED
  BY <1>1, <1>2

LEMMA SaveStep ==
  ASSUME TypeOK, NEW r \in Reqs, ReqOK(r),
         \/ Lock(r) \/ LinkSession(r) \/ Refused(r) \/ Upsert(r) \/ NotSaved(r)
         \/ SaveRaises(r) \/ Context(r) \/ DropSecondary(r) \/ DropContext(r)
         \/ MergeSession(r)
  PROVE  LocalType' /\ ReqOK(r)'
<1> USE DEF LocalType, ReqOK, Holding, Saving, Kind, Unasked
<1>1. CASE Lock(r)
  <2>1. pc[r] = "lock" /\ UNCHANGED <<msg, tool, then, uid, other>>
    BY <1>1 DEF Lock
  <2>2. Linked(r) \in Profile
    <3>1. prof[r] \in Profile /\ SidOf[r] \in Sids /\ Sess(r).pending \subseteq Items
      BY <2>1, SidOfAssumption DEF TypeOK, Session, Sess
    <3> QED
      BY <3>1 DEF Linked, Profile
  <2> QED
    BY <1>1, <2>1, <2>2 DEF Lock, Goto, TypeOK, Steps
<1>2. CASE LinkSession(r) \/ DropContext(r)
  BY <1>2, SaveSteps DEF LinkSession, DropContext, copies, TypeOK
<1>3. CASE Upsert(r) \/ DropSecondary(r)
  BY <1>3 DEF Upsert, DropSecondary, Goto, copies, TypeOK, Steps
<1>4. ASSUME Saved(r), UNCHANGED <<msg, tool>>, pc[r] \in {"refused", "upsert", "context"}
      PROVE  LocalType' /\ ReqOK(r)'
  BY <1>4 DEF Saved, Goto, TypeOK, Steps
<1>5. CASE Refused(r) \/ NotSaved(r) \/ Context(r)
  BY <1>4, <1>5 DEF Refused, NotSaved, Context
<1>6. CASE SaveRaises(r)
  BY <1>6 DEF SaveRaises, Raised, Goto, TypeOK, Steps
<1>7. CASE MergeSession(r)
  BY <1>7 DEF MergeSession, Goto, TypeOK, Steps
<1> QED
  BY <1>1, <1>2, <1>3, <1>5, <1>6, <1>7

LEMMA ToolStep ==
  ASSUME TypeOK, NEW r \in Reqs, ReqOK(r),
         CallTool(r) \/ Extract(r) \/ Update(r) \/ Stash(r) \/ Final(r)
  PROVE  LocalType' /\ ReqOK(r)'
<1> USE DEF LocalType, ReqOK, Holding, Saving, Kind, Unasked
<1>1. CASE CallTool(r)
  <2>1. pc[r] = "tools" /\ UNCHANGED <<msg, then, copies>>
    BY <1>1 DEF CallTool
  <2>2. PICK t, l :
          /\ t \in Tools[r] /\ tool' = [tool EXCEPT ![r] = t]
          /\ pc' = [pc EXCEPT ![r] = l]
          /\ \/ l = "identify" /\ t.call = "identify"
             \/ l \in {"infer", "lookup", "tools"}
             \/ l = "update" /\ t.call \in {"remember", "forget", "alias"}
             \/ l = "stash" /\ t.call = "remember"
    <3>1. PICK t \in Tools[r] :
            LET known == Sess(r).user # None
                step == CASE t.call = "identify" -> "identify"
                          [] t.call = "infer" /\ ~known -> "infer"
                          [] t.call = "delete" /\ known -> "lookup"
                          [] OTHER -> Operation(t, known)
            IN  tool' = [tool EXCEPT ![r] = t] /\ Goto(r, step)
      BY <1>1 DEF CallTool
    <3>2. \A b \in BOOLEAN :
            \/ Operation(t, b) = "tools"
            \/ Operation(t, b) = "update" /\ t.call \in {"remember", "forget", "alias"}
            \/ Operation(t, b) = "stash" /\ t.call = "remember"
      BY DEF Operation
    <3> QED
      BY <3>1, <3>2 DEF Goto
  <2>3. t \in Called /\ t # None
    BY <2>2, ToolsAssumption DEF Called
  <2> QED
    BY <2>1, <2>2, <2>3 DEF TypeOK, Steps, copies
<1>2. CASE Extract(r)
  <2>1. pc[r] = "tools" /\ pc' = [pc EXCEPT ![r] = "update"] /\ UNCHANGED <<msg, then, copies>>
    BY <1>2 DEF Extract, Goto
  <2>2. PICK i \in Items : tool' = [tool EXCEPT ![r] = Extraction(i)]
    BY <1>2 DEF Extract
  <2>3. Extraction(i) \in Called /\ Extraction(i) # None /\ Extraction(i).call = "extract"
    <3>1. Extraction(i) \in Called
      BY Zenon DEF Called
    <3> QED
      BY <3>1, ExtractionIs
  <2> QED
    BY <2>1, <2>2, <2>3 DEF TypeOK, Steps, copies
<1>3. CASE Update(r)
  <2>0. pc[r] = "update" /\ UNCHANGED <<msg, tool, then, other>>
    BY <1>3 DEF Update
  <2>1. PICK p : /\ p = None \/ \E v \in Users : v = Sess(r).user /\ p = profiles[v]
                 /\ \/ /\ p # None
                       /\ uid' = [uid EXCEPT ![r] = Sess(r).user]
                       /\ prof' = [prof EXCEPT ![r] = Changed(tool[r], p)]
                       /\ Goto(r, "tools") \/ BeginSave(r, Sess(r).user)
                    \/ /\ p = None
                       /\ \/ tool[r].call = "remember" /\ Goto(r, "stash")
                          \/ Goto(r, "tools")
                       /\ UNCHANGED <<uid, prof>>
    BY <1>3 DEF Update
  <2>2. CASE p # None
    <3>1. Sess(r).user \in Users /\ p \in Profile
      BY <2>1, <2>2 DEF TypeOK
    <3>2. tool[r].call \in {"remember", "forget", "extract"} => tool[r].item \in Items
      BY <2>0, ToolsAssumption, ExtractionIs
    <3>3. tool[r].call = "alias" => tool[r].name \in Names
      BY <2>0, ToolsAssumption, ExtractionIs
    <3>4. Changed(tool[r], p) \in Profile
      <4>1. CASE tool[r].call \in {"remember", "extract"}
        <5>1. Changed(tool[r], p) = [p EXCEPT !.items = @ \cup {tool[r].item}]
          BY <4>1 DEF Changed
        <5> QED
          BY <3>1, <3>2, <4>1, <5>1 DEF Profile
      <4>2. CASE tool[r].call = "forget"
        <5>1. Changed(tool[r], p) = [p EXCEPT !.items = @ \ {tool[r].item}]
          BY <4>2 DEF Changed
        <5> QED
          BY <3>1, <5>1 DEF Profile
      <4>3. CASE tool[r].call = "alias"
        <5>1. Changed(tool[r], p) = [p EXCEPT !.names = @ \cup {tool[r].name}]
          BY <4>3 DEF Changed
        <5> QED
          BY <3>1, <3>3, <4>3, <5>1 DEF Profile
      <4> QED
        BY <2>0, <4>1, <4>2, <4>3
    <3>5. /\ pc' \in [Reqs -> Steps] /\ pc'[r] \in {"tools", "refused", "upsert"}
      BY <2>1, <2>2, SaveSteps DEF Goto, TypeOK, Steps
    <3> QED
      BY <2>0, <2>1, <2>2, <3>1, <3>4, <3>5 DEF TypeOK
  <2>3. CASE p = None
    BY <2>0, <2>1, <2>3 DEF TypeOK, Steps, Goto
  <2> QED
    BY <2>2, <2>3
<1>4. CASE Stash(r) \/ Final(r)
  BY <1>4 DEF Stash, Final, Goto, copies, TypeOK, Steps
<1> QED
  BY <1>1, <1>2, <1>3, <1>4

LEMMA DeleteStep ==
  ASSUME TypeOK, NEW r \in Reqs, ReqOK(r), Lookup(r) \/ Erase(r) \/ EraseContext(r)
  PROVE  LocalType' /\ ReqOK(r)'
<1> USE DEF LocalType, ReqOK, Holding, Saving, Kind, Unasked
<1>1. CASE Lookup(r)
  <2>1. pc[r] = "lookup" /\ UNCHANGED <<msg, tool, then, prof, other>>
    BY <1>1 DEF Lookup
  <2>2. PICK l \in {"done", "tools", "erase"} :
          /\ pc' = [pc EXCEPT ![r] = l]
          /\ \/ l # "erase" /\ UNCHANGED uid
             \/ \E u \in Users : uid' = [uid EXCEPT ![r] = u]
    BY <1>1 DEF Lookup, Goto
  <2> QED
    BY <2>1, <2>2 DEF TypeOK, Steps
<1>2. CASE Erase(r) \/ EraseContext(r)
  BY <1>2 DEF Erase, EraseContext, Goto, copies, TypeOK, Steps
<1> QED
  BY <1>1, <1>2

ReqsOK == \A r \in Reqs : ReqOK(r)

LEMMA ReqsStep ==
  ASSUME TypeOK, ReqsOK, [Next]_vars
  PROVE  LocalType' /\ ReqsOK'
<1>0. LocalType
  BY DEF TypeOK, LocalType
<1>1. ASSUME NEW r \in Reqs, Act(r)
      PROVE  LocalType' /\ ReqsOK'
  <2>1. LocalType' /\ ReqOK(r)'
    BY <1>1, ArriveStep, IdentifyStep, AliasStep, SaveStep, ToolStep, DeleteStep
       DEF Act, Step, ReqsOK
  <2>2. ASSUME NEW q \in Reqs, q # r
        PROVE  ReqOK(q)'
    <3>1. /\ pc'[q] = pc[q] /\ then'[q] = then[q] /\ msg'[q] = msg[q] /\ tool'[q] = tool[q]
          /\ uid'[q] = uid[q] /\ prof'[q] = prof[q] /\ other'[q] = other[q]
      BY <1>0, <1>1, <2>2, Frame
    <3>2. ReqOK(q)
      BY DEF ReqsOK
    <3> QED
      BY <3>1, <3>2 DEF ReqOK, Kind, Unasked
  <2> QED
    BY <2>1, <2>2 DEF ReqsOK
<1>2. ASSUME UNCHANGED Local
      PROVE  LocalType' /\ ReqsOK'
  BY <1>0, <1>2 DEF LocalType, ReqsOK, ReqOK, Kind, Unasked, Local
<1>3. UNCHANGED vars => UNCHANGED Local
  BY DEF vars, control, copies, Local
<1> QED
  BY <1>1, <1>2, <1>3, SessionsOnly DEF Next, Act

-----------------------------------------------------------------------------
(* Deleted users *)

\* Some request is about to delete u from this collection.
Erasing(u, step) == \E r \in Reqs : pc[r] = step /\ uid[r] = u

Erased(u) ==
  \/ Erasing(u, "erase")
  \/ profiles[u] = None /\ (Erasing(u, "eraseContext") \/ u \notin contexts)

\* No save of a user who counts as deleted for good is past its check.
DelInv ==
  /\ clean \subseteq deleted
  /\ \A r \in Reqs : pc[r] \in {"upsert", "context"} => uid[r] \notin clean
  /\ \A u \in clean : Erased(u)

\* Steps that delete nobody: a save only begins past the check.
LEMMA QuietDel ==
  ASSUME TypeOK, DelInv, NEW r \in Reqs,
         \A q \in Reqs : q # r => pc'[q] = pc[q] /\ uid'[q] = uid[q],
         pc[r] \notin {"erase", "eraseContext"},
         clean' = clean, deleted' = deleted,
         \A u \in clean : /\ profiles[u] = None => profiles'[u] = None
                          /\ u \notin contexts => u \notin contexts',
         pc'[r] \in {"upsert", "context"} =>
           uid'[r] \notin deleted \/ (pc[r] = "upsert" /\ uid'[r] = uid[r])
  PROVE  DelInv'
<1>1. ASSUME NEW q \in Reqs, pc'[q] \in {"upsert", "context"}
      PROVE  uid'[q] \notin clean
  BY <1>1 DEF DelInv
<1>2. ASSUME NEW u \in clean
      PROVE  Erased(u)'
  BY <1>2 DEF DelInv, Erased, Erasing
<1> QED
  BY <1>1, <1>2 DEF DelInv

LEMMA DelStep ==
  ASSUME TypeOK, ReqsOK, DelInv, [Next]_vars
  PROVE  DelInv'
<1>0. LocalType /\ LocalType' /\ ReqsOK'
  BY ReqsStep DEF TypeOK, LocalType
<1>a. clean \subseteq Users
  BY DEF TypeOK
<1>1. ASSUME NEW r \in Reqs, Act(r)
      PROVE  \A q \in Reqs : q # r => pc'[q] = pc[q] /\ uid'[q] = uid[q]
  BY <1>0, <1>1, Frame
<1>2. ASSUME NEW r \in Reqs,
             \/ Arrive(r) \/ Admin(r) \/ CallTool(r) \/ Extract(r) \/ Create(r) \/ Token(r)
             \/ FindByRouter(r) \/ FindByName(r) \/ Note(r) \/ Identify(r) \/ FindPrimary(r)
             \/ Infer(r) \/ Asked(r) \/ Lock(r) \/ Stash(r) \/ MergeSession(r) \/ Final(r)
      PROVE  DelInv'
  <2>1. pc[r] \notin {"erase", "eraseContext"} /\ UNCHANGED <<store, clean, deleted>>
    BY <1>2 DEF Arrive, Admin, CallTool, Extract, Create, Token, FindByRouter, FindByName,
       Note, Identify, FindPrimary, Infer, Asked, Lock, Stash, MergeSession, Final, history, store
  <2>2. pc'[r] \notin {"upsert", "context"}
    <3>1. CASE Arrive(r)
      BY <1>0, <3>1 DEF Arrive, ByMessage, Goto, LocalType
    <3>2. CASE CallTool(r)
      <4>1. PICK t \in Tools[r] :
              \E l : /\ pc' = [pc EXCEPT ![r] = l]
                     /\ l \in {"identify", "infer", "lookup", Operation(t, Sess(r).user # None)}
        BY <3>2 DEF CallTool, Goto
      <4>2. Operation(t, Sess(r).user # None) \in {"tools", "update", "stash"}
        BY DEF Operation
      <4> QED
        BY <1>0, <4>1, <4>2 DEF LocalType
    <3>3. CASE Create(r)
      BY <1>0, <3>3 DEF Create, ByMessage, Goto, LocalType
    <3>4. CASE \/ Token(r) \/ FindByRouter(r) \/ FindByName(r) \/ Note(r) \/ Identify(r)
               \/ FindPrimary(r) \/ Infer(r) \/ Asked(r)
      BY <1>0, <3>4 DEF Token, FindByRouter, FindByName, Note, Identify, FindPrimary, Infer,
         Asked, LinkIfConfident, BeginLink, Goto, LocalType
    <3>5. CASE Admin(r) \/ Extract(r) \/ Lock(r) \/ Stash(r) \/ MergeSession(r) \/ Final(r)
      BY <1>0, <3>5 DEF Admin, Extract, Lock, Stash, MergeSession, Final, Goto, LocalType
    <3> QED
      BY <1>2, <3>1, <3>2, <3>3, <3>4, <3>5
  <2> QED
    BY <1>1, <1>2, <2>1, <2>2, QuietDel DEF Act, Step, store
<1>3. ASSUME NEW r \in Reqs, Consolidate(r) \/ LinkSession(r) \/ DropContext(r) \/ Update(r)
      PROVE  DelInv'
  <2>1. /\ pc[r] \notin {"erase", "eraseContext"}
        /\ UNCHANGED <<profiles, clean, deleted>> /\ contexts' \subseteq contexts
    BY <1>3 DEF Consolidate, LinkSession, DropContext, Update, history, store
  <2>2. pc'[r] \in {"upsert", "context"} => uid'[r] \notin deleted
    <3>1. ASSUME NEW u, BeginSave(r, u), uid'[r] = u
          PROVE  pc'[r] \in {"upsert", "context"} => uid'[r] \notin deleted
      BY <3>1, SaveSteps
    <3>2. CASE LinkSession(r) \/ DropContext(r)
      BY <3>1, <3>2 DEF LinkSession, DropContext, copies
    <3>3. CASE Update(r)
      <4>1. \/ BeginSave(r, Sess(r).user) /\ uid' = [uid EXCEPT ![r] = Sess(r).user]
            \/ Goto(r, "tools") \/ Goto(r, "stash")
        BY <3>3 DEF Update
      <4> QED
        BY <1>0, <3>1, <4>1 DEF Goto, LocalType
    <3>4. CASE Consolidate(r)
      <4>1. \/ \E u : BeginSave(r, u) /\ uid' = [uid EXCEPT ![r] = u]
            \/ BeginLink(r, uid[r], prof[r])
            \/ Goto(r, "dropSecondary")
        BY <3>4, Zenon DEF Consolidate
      <4> QED
        BY <1>0, <3>1, <4>1 DEF BeginLink, Goto, LocalType
    <3> QED
      BY <1>3, <3>2, <3>3, <3>4
  <2> QED
    BY <1>1, <1>3, <2>1, <2>2, QuietDel DEF Act, Step
<1>4. ASSUME NEW r \in Reqs, Refused(r) \/ NotSaved(r) \/ SaveRaises(r)
      PROVE  DelInv'
  <2>1. /\ pc[r] \notin {"erase", "eraseContext"} /\ UNCHANGED <<store, clean, deleted>>
    BY <1>4 DEF Refused, NotSaved, SaveRaises, store
  <2>2. pc'[r] \notin {"upsert", "context"}
    BY <1>0, <1>4 DEF Refused, NotSaved, SaveRaises, Saved, Raised, Goto, LocalType
  <2> QED
    BY <1>1, <1>4, <2>1, <2>2, QuietDel DEF Act, Step, store
<1>5. ASSUME NEW r \in Reqs, Upsert(r) \/ Context(r) \/ DropSecondary(r)
      PROVE  DelInv'
  <2>1. CASE Upsert(r)
    <3>1. uid[r] \notin clean /\ pc'[r] = "context" /\ UNCHANGED <<uid, contexts, clean, deleted>>
      BY <1>0, <2>1 DEF Upsert, DelInv, Goto, copies, LocalType
    <3>2. \A u \in clean : profiles'[u] = profiles[u]
      BY <1>a, <2>1, <3>1 DEF Upsert, TypeOK
    <3> QED
      BY <1>1, <1>5, <2>1, <3>1, <3>2, QuietDel DEF Act, Step, Upsert
  <2>2. CASE Context(r)
    <3>1. /\ uid[r] \notin clean /\ contexts' \subseteq contexts \cup {uid[r]}
          /\ UNCHANGED <<profiles, clean, deleted>> /\ pc'[r] \notin {"upsert", "context"}
      BY <1>0, <2>2 DEF Context, DelInv, Saved, Goto, history, LocalType
    <3> QED
      BY <1>1, <1>5, <2>2, <3>1, QuietDel DEF Act, Step, Context
  <2>3. CASE DropSecondary(r)
    <3>1. /\ UNCHANGED <<contexts, clean, deleted>> /\ pc'[r] = "dropContext"
      BY <1>0, <2>3 DEF DropSecondary, Goto, LocalType
    <3>2. \A u \in clean : profiles[u] = None => profiles'[u] = None
      BY <1>a, <2>3 DEF DropSecondary, TypeOK
    <3> QED
      BY <1>1, <1>5, <2>3, <3>1, <3>2, QuietDel DEF Act, Step, DropSecondary
  <2> QED
    BY <1>5, <2>1, <2>2, <2>3
<1>6. ASSUME NEW r \in Reqs, Lookup(r)
      PROVE  DelInv'
  <2>0. \A q \in Reqs : q # r => pc'[q] = pc[q] /\ uid'[q] = uid[q]
    BY <1>1, <1>6 DEF Act, Step
  <2>1. pc[r] = "lookup" /\ UNCHANGED store
    BY <1>6 DEF Lookup
  <2>2. CASE UNCHANGED <<deleted, clean>> /\ pc'[r] \in {"done", "tools"}
    BY <2>0, <2>1, <2>2, QuietDel DEF store
  <2>3. ASSUME NEW u \in Users, deleted' = deleted \cup {u}, uid'[r] = u, pc'[r] = "erase",
               \/ clean' = clean
               \/ /\ clean' = clean \cup {u}
                  /\ \A q \in Reqs : ~(u \in {uid[q], other[q]} /\ pc[q] \in {"upsert", "context"})
        PROVE  DelInv'
    <3>1. clean' \subseteq deleted' /\ clean' \subseteq clean \cup {u}
      BY <2>3 DEF DelInv
    <3>2. \A q \in Reqs : pc'[q] \in {"upsert", "context"} => uid'[q] \notin clean'
      BY <2>0, <2>3 DEF DelInv
    <3>3. \A v \in clean' : Erased(v)'
      <4> SUFFICES ASSUME NEW v \in clean'
                   PROVE  Erased(v)'
        OBVIOUS
      <4>1. CASE v = u
        BY <2>3, <4>1 DEF Erased, Erasing
      <4>2. CASE v # u
        <5>1. Erased(v)
          BY <3>1, <4>2 DEF DelInv
        <5>2. \A l \in {"erase", "eraseContext"} : Erasing(v, l) => Erasing(v, l)'
          BY <2>0, <2>1 DEF Erasing
        <5> QED
          BY <2>1, <5>1, <5>2 DEF Erased, store
      <4> QED
        BY <4>1, <4>2
    <3> QED
      BY <3>1, <3>2, <3>3 DEF DelInv
  <2>4. \/ UNCHANGED <<deleted, clean>> /\ pc'[r] \in {"done", "tools"}
        \/ \E u \in Users :
             /\ deleted' = deleted \cup {u} /\ uid'[r] = u /\ pc'[r] = "erase"
             /\ \/ clean' = clean
                \/ /\ clean' = clean \cup {u}
                   /\ \A q \in Reqs : ~(u \in {uid[q], other[q]} /\ pc[q] \in {"upsert", "context"})
    BY <1>0, <1>6 DEF Lookup, Goto, LocalType
  <2> QED
    BY <2>2, <2>3, <2>4
<1>7. ASSUME NEW r \in Reqs, Erase(r) \/ EraseContext(r)
      PROVE  DelInv'
  <2>0. \A q \in Reqs : q # r => pc'[q] = pc[q] /\ uid'[q] = uid[q]
    BY <1>1, <1>7 DEF Act, Step
  <2>1. uid[r] \in Users /\ pc'[r] \in {"eraseContext", "done", "tools"} /\ clean' \subseteq clean
        /\ deleted' = deleted
    BY <1>0, <1>7 DEF Erase, EraseContext, Goto, LocalType, ReqsOK, ReqOK
  <2>2. \A v \in clean' : Erased(v)'
    <3> SUFFICES ASSUME NEW v \in clean'
                 PROVE  Erased(v)'
      OBVIOUS
    <3>1. Erased(v)
      BY <2>1 DEF DelInv
    <3>2. CASE Erase(r)
      <4>1. pc'[r] = "eraseContext" /\ uid'[r] = uid[r] /\ contexts' = contexts /\ pc[r] = "erase"
        BY <1>0, <3>2 DEF Erase, Goto, copies, LocalType
      <4>2. CASE v = uid[r]
        <5>1. profiles' = [profiles EXCEPT ![uid[r]] = None]
          BY <3>2, <4>2 DEF Erase
        <5>2. profiles'[v] = None
          BY <2>1, <4>2, <5>1 DEF TypeOK
        <5> QED
          BY <4>1, <4>2, <5>2 DEF Erased, Erasing
      <4>3. CASE v # uid[r]
        <5>1. profiles'[v] = profiles[v]
          BY <1>a, <2>1, <3>2, <4>3 DEF Erase, TypeOK
        <5>2. \A l \in {"erase", "eraseContext"} : Erasing(v, l) => Erasing(v, l)'
          BY <2>0, <4>3 DEF Erasing
        <5> QED
          BY <3>1, <4>1, <5>1, <5>2 DEF Erased
      <4> QED
        BY <4>2, <4>3
    <3>3. CASE EraseContext(r)
      <4>1. profiles' = profiles /\ contexts' \subseteq contexts /\ pc[r] = "eraseContext"
        BY <3>3 DEF EraseContext
      <4>2. Erasing(v, "erase") => Erasing(v, "erase")'
        BY <2>0, <4>1 DEF Erasing
      <4>3. CASE v = uid[r]
        <5>1. v \notin contexts'
          BY <3>3, <4>3 DEF EraseContext
        <5> QED
          BY <3>1, <4>1, <4>2, <5>1 DEF Erased
      <4>4. CASE v # uid[r]
        <5>1. Erasing(v, "eraseContext") => Erasing(v, "eraseContext")'
          BY <2>0, <4>4 DEF Erasing
        <5> QED
          BY <3>1, <4>1, <4>2, <5>1 DEF Erased
      <4> QED
        BY <4>3, <4>4
    <3> QED
      BY <1>7, <3>2, <3>3
  <2> QED
    BY <2>0, <2>1, <2>2 DEF DelInv
<1>8. ASSUME UNCHANGED <<Local, profiles, contexts, deleted, clean>>
      PROVE  DelInv'
  BY <1>8 DEF DelInv, Erased, Erasing, Local
<1>9. UNCHANGED vars => UNCHANGED <<Local, profiles, contexts, deleted, clean>>
  BY DEF vars, control, copies, store, history, Local
<1> QED
  BY <1>2, <1>3, <1>4, <1>5, <1>6, <1>7, <1>8, <1>9, SessionsOnly DEF Next, Step

-----------------------------------------------------------------------------
(* Types *)

SessionType ==
  /\ redis \in [Sids -> Session \cup {None}]
  /\ local \in [Sids -> Reqs \cup {None}]
  /\ heap \in [Reqs -> Session]
  /\ obj \in [Reqs -> Reqs]
  /\ shaken \in SUBSET Sids
  /\ faults \in 0..MaxFaults

StoreType ==
  /\ qdrant \in BOOLEAN
  /\ profiles \in [Users -> Profile \cup {None}]
  /\ contexts \in SUBSET Users
  /\ lock \in [Users -> Reqs \cup {None}]
  /\ deleted \in SUBSET Users
  /\ acked \in [Users -> SUBSET Items]
  /\ noted \in [Sids -> SUBSET Items]
  /\ stale \in SUBSET Users
  /\ clean \in SUBSET Users

LEMMA FaultType == ASSUME TypeOK, Fault PROVE faults' \in 0..MaxFaults
BY FaultsAssumption DEF TypeOK, Fault

LEMMA SessIs == ASSUME TypeOK, NEW r \in Reqs PROVE Sess(r) \in Session
BY DEF TypeOK, Sess

LEMMA SetUserType ==
  ASSUME TypeOK, NEW r \in Reqs, NEW u \in Users \cup {None}, SetUser(r, u)
  PROVE  heap' \in [Reqs -> Session]
<1>1. heap \in [Reqs -> Session] /\ obj[r] \in Reqs
  BY DEF TypeOK
<1>2. [heap[obj[r]] EXCEPT !.user = u] \in Session
  BY <1>1 DEF Session
<1> QED
  BY <1>1, <1>2 DEF SetUser

LEMMA SaveSessionType ==
  ASSUME TypeOK, NEW r \in Reqs, SaveSession(r)
  PROVE  /\ redis' \in [Sids -> Session \cup {None}]
         /\ local' \in [Sids -> Reqs \cup {None}]
         /\ shaken' \in SUBSET Sids
         /\ faults' \in 0..MaxFaults
<1>1. SidOf[r] \in Sids /\ Sess(r) \in Session /\ obj[r] \in Reqs
  BY SidOfAssumption, SessIs DEF TypeOK
<1>2. CASE redis' = [redis EXCEPT ![SidOf[r]] = Sess(r)] /\ UNCHANGED <<local, faults, shaken>>
  BY <1>1, <1>2 DEF TypeOK
<1>3. CASE /\ Fault
           /\ local' = [local EXCEPT ![SidOf[r]] = obj[r]]
           /\ shaken' = shaken \cup {SidOf[r]}
           /\ UNCHANGED redis
  BY <1>1, <1>3, FaultType DEF TypeOK
<1> QED
  BY <1>2, <1>3 DEF SaveSession

LEMMA FindFaults ==
  ASSUME TypeOK, NEW n, NEW u, Find(n, u)
  PROVE  faults' \in 0..MaxFaults
BY FaultType DEF Find, TypeOK

LEMMA ReadFaults ==
  ASSUME TypeOK, NEW u, NEW p, Read(u, p)
  PROVE  faults' \in 0..MaxFaults
BY FaultType DEF Read, TypeOK

LEMMA ReportType ==
  ASSUME TypeOK, NEW r \in Reqs, ReqOK(r), pc[r] \in {"refused", "upsert"}, Report(r)
  PROVE  acked' \in [Users -> SUBSET Items] /\ noted' \in [Sids -> SUBSET Items]
<1> DEFINE told == IF then[r] = "tools" /\ tool[r] # None /\ tool[r].call = "remember"
                   THEN {tool[r].item} ELSE {}
           gone == IF tool[r] # None /\ tool[r].call = "forget" THEN {tool[r].item} ELSE {}
           merged == IF other[r] = None THEN {} ELSE acked[other[r]]
           linked == IF lock[uid[r]] = r /\ SidOf[r] \notin shaken THEN noted[SidOf[r]] ELSE {}
<1>1. told \subseteq Items
  BY ToolsAssumption, ExtractionIs DEF ReqOK
<1>2. merged \subseteq Items
  BY DEF TypeOK
<1>3. linked \subseteq Items
  BY SidOfAssumption DEF TypeOK
<1>4. acked' = [v \in Users |-> CASE v = uid[r] -> ((acked[uid[r]] \cup told) \ gone) \cup merged \cup linked
                                  [] v = other[r] -> {}
                                  [] OTHER -> acked[v]]
  BY DEF Report
<1>5. noted' \in [Sids -> SUBSET Items]
  BY SidOfAssumption DEF Report, TypeOK
<1>6. uid[r] \in Users /\ \A v \in Users : acked[v] \subseteq Items
  BY DEF TypeOK, ReqOK, Holding
<1> HIDE DEF told, gone, merged, linked
<1>7. acked' \in [Users -> SUBSET Items]
  <2> DEFINE here == ((acked[uid[r]] \cup told) \ gone) \cup merged \cup linked
  <2>1. here \in SUBSET Items
    BY <1>1, <1>2, <1>3, <1>6
  <2> DEFINE new(v) == CASE v = uid[r] -> here
                         [] v = other[r] -> {}
                         [] OTHER -> acked[v]
  <2>2. acked' = [v \in Users |-> new(v)]
    BY <1>4
  <2> HIDE DEF here
  <2>3. \A v \in Users : new(v) \in SUBSET Items
    BY <1>6, <2>1
  <2> HIDE DEF new
  <2> QED
    BY <2>2, <2>3
<1> QED
  BY <1>5, <1>7

RestType == SessionType /\ StoreType

LEMMA RestStep ==
  ASSUME TypeOK, ReqsOK, [Next]_vars
  PROVE  RestType'
<1> USE DEF SessionType, StoreType, RestType
<1>0. /\ RestType
      /\ \A u \in Users : profiles[u] # None => profiles[u] \in Profile
  BY DEF TypeOK
<1>1. ASSUME NEW r \in Reqs, Arrive(r)
      PROVE  RestType'
  <2>1. UNCHANGED <<qdrant, store, redis, local, lock, deleted, acked, noted, stale, clean>>
    BY <1>1 DEF Arrive
  <2>2. shaken' \in SUBSET Sids
    BY <1>0, <1>1, SidOfAssumption DEF Arrive
  <2>3. faults' \in 0..MaxFaults
    BY <1>0, <1>1, FaultType DEF Arrive
  <2>4. heap' \in [Reqs -> Session] /\ obj' \in [Reqs -> Reqs]
    <3>1. SidOf[r] \in Sids
      BY SidOfAssumption
    <3>2. \/ UNCHANGED <<heap, obj>>
          \/ \E o \in Reqs, s \in Session : obj' = [obj EXCEPT ![r] = o] /\ heap' = [heap EXCEPT ![o] = s]
      BY <1>0, <1>1, <3>1 DEF Arrive
    <3> QED
      BY <1>0, <3>2
  <2> QED
    BY <1>0, <2>1, <2>2, <2>3, <2>4 DEF store
<1>2. ASSUME NEW r \in Reqs, Create(r) \/ Note(r) \/ Asked(r) \/ LinkSession(r) \/ Final(r)
      PROVE  RestType'
  BY <1>0, <1>2, SaveSessionType DEF Create, Note, Asked, LinkSession, Final, store
<1>3. ASSUME NEW r \in Reqs, Stash(r)
      PROVE  RestType'
  <2>1. tool[r].item \in Items
    BY <1>3, ToolsAssumption, ExtractionIs DEF Stash, ReqsOK, ReqOK
  <2>2. noted' \in [Sids -> SUBSET Items]
    BY <1>0, <1>3, <2>1, SidOfAssumption DEF Stash
  <2> QED
    BY <1>0, <1>3, <2>2, SaveSessionType DEF Stash, store
<1>4. ASSUME NEW r \in Reqs, NEW u \in Users, NEW p, BeginLink(r, u, p)
      PROVE  heap' \in [Reqs -> Session]
  BY <1>4, SetUserType DEF BeginLink
<1>5. ASSUME NEW r \in Reqs,
             Token(r) \/ FindByRouter(r) \/ FindByName(r) \/ Identify(r) \/ Infer(r)
      PROVE  RestType'
  <2>1. UNCHANGED <<qdrant, store, redis, local, obj, lock, deleted, history>>
    BY <1>5 DEF Token, FindByRouter, FindByName, Identify, Infer
  <2>2. faults' \in 0..MaxFaults
    <3>1. CASE Token(r)
      BY <3>1, ReadFaults DEF Token
    <3>2. CASE FindByRouter(r) \/ FindByName(r) \/ Identify(r)
      BY <3>2, FindFaults DEF FindByRouter, FindByName, Identify, LinkIfConfident
    <3>3. CASE Infer(r)
      BY <1>0, <3>3 DEF Infer
    <3> QED
      BY <1>5, <3>1, <3>2, <3>3
  <2>3. heap' \in [Reqs -> Session]
    <3>1. CASE Token(r)
      <4>1. msg[r].user \in Users
        BY <3>1, MessagesAssumption DEF Token, ReqsOK, ReqOK, Kind
      <4> QED
        BY <1>0, <1>4, <3>1, <4>1 DEF Token
    <3>2. CASE FindByRouter(r) \/ FindByName(r)
      BY <1>0, <1>4, <3>2, FindUsers DEF FindByRouter, FindByName, LinkIfConfident
    <3>3. CASE Identify(r)
      BY <1>0, <1>4, <3>3, FindUsers DEF Identify, Unused
    <3>4. CASE Infer(r)
      BY <1>0, <1>4, <3>4 DEF Infer
    <3> QED
      BY <1>5, <3>1, <3>2, <3>3, <3>4
  <2> QED
    BY <1>0, <2>1, <2>2, <2>3 DEF store, history
<1>6. ASSUME NEW r \in Reqs, FindPrimary(r) \/ Consolidate(r)
      PROVE  RestType'
  <2>1. UNCHANGED <<qdrant, store, redis, local, obj, lock, deleted, history>>
    BY <1>6 DEF FindPrimary, Consolidate, sessions
  <2>2. faults' \in 0..MaxFaults
    BY <1>6, FindFaults DEF FindPrimary, Consolidate
  <2>3. heap' \in [Reqs -> Session]
    <3>1. CASE FindPrimary(r)
      BY <1>0, <3>1 DEF FindPrimary, sessions
    <3>2. CASE Consolidate(r)
      <4>1. heap' = heap \/ (prof[r] # None /\ BeginLink(r, uid[r], prof[r]))
        BY <3>2, Zenon DEF Consolidate
      <4>2. prof[r] # None => uid[r] \in Users
        BY <3>2 DEF Consolidate, ReqsOK, ReqOK
      <4> QED
        BY <1>0, <1>4, <4>1, <4>2
    <3> QED
      BY <1>6, <3>1, <3>2
  <2> QED
    BY <1>0, <2>1, <2>2, <2>3 DEF store, history
<1>7. ASSUME NEW r \in Reqs, Lock(r)
      PROVE  RestType'
  <2>1. heap' \in [Reqs -> Session]
    BY <1>0, <1>7 DEF Lock, Session
  <2>2. lock' \in [Users -> Reqs \cup {None}]
    BY <1>0, <1>7 DEF Lock
  <2> QED
    BY <1>0, <1>7, <2>1, <2>2 DEF Lock, store, history
<1>8. ASSUME NEW r \in Reqs, Saved(r), pc[r] \in {"refused", "upsert", "context"}
      PROVE  heap' \in [Reqs -> Session] /\ lock' \in [Users -> Reqs \cup {None}]
  <2>1. uid[r] \in Users
    BY <1>8 DEF ReqsOK, ReqOK, Holding
  <2>2. heap' \in [Reqs -> Session]
    BY <1>0, <1>8, <2>1 DEF Saved, Session
  <2>3. lock' \in [Users -> Reqs \cup {None}]
    BY <1>0, <1>8 DEF Saved
  <2> QED
    BY <2>2, <2>3
<1>9. ASSUME NEW r \in Reqs, Refused(r) \/ NotSaved(r)
      PROVE  RestType'
  <2>1. heap' \in [Reqs -> Session] /\ lock' \in [Users -> Reqs \cup {None}]
    BY <1>8, <1>9 DEF Refused, NotSaved
  <2>2. acked' \in [Users -> SUBSET Items] /\ noted' \in [Sids -> SUBSET Items]
    BY <1>9, ReportType DEF Refused, NotSaved, ReqsOK
  <2>3. uid[r] \in Users /\ SidOf[r] \in Sids
    BY <1>9, SidOfAssumption DEF Refused, NotSaved, ReqsOK, ReqOK, Holding
  <2>4. faults' \in 0..MaxFaults
    BY <1>0, <1>9, FaultType DEF Refused, NotSaved
  <2> QED
    BY <1>0, <1>9, <2>1, <2>2, <2>3, <2>4 DEF Refused, NotSaved, store
<1>10. ASSUME NEW r \in Reqs, Upsert(r)
       PROVE  RestType'
  <2>1. uid[r] \in Users /\ prof[r] \in Profile
    BY <1>10 DEF Upsert, ReqsOK, ReqOK, Holding
  <2>2. acked' \in [Users -> SUBSET Items] /\ noted' \in [Sids -> SUBSET Items]
    BY <1>10, ReportType DEF Upsert, ReqsOK
  <2> QED
    BY <1>0, <1>10, <2>1, <2>2 DEF Upsert, sessions
<1>11. ASSUME NEW r \in Reqs, SaveRaises(r)
       PROVE  RestType'
  <2>1. lock' \in [Users -> Reqs \cup {None}] /\ heap' = heap
    BY <1>0, <1>11 DEF SaveRaises, Raised
  <2> QED
    BY <1>0, <1>11, <2>1, SidOfAssumption, FaultType DEF SaveRaises, store
<1>12. ASSUME NEW r \in Reqs, Context(r)
       PROVE  RestType'
  <2>1. heap' \in [Reqs -> Session] /\ lock' \in [Users -> Reqs \cup {None}]
    BY <1>8, <1>12 DEF Context
  <2>2. uid[r] \in Users
    BY <1>12 DEF Context, ReqsOK, ReqOK, Holding
  <2> QED
    BY <1>0, <1>12, <2>1, <2>2, FaultType DEF Context, history
<1>13. ASSUME NEW r \in Reqs, DropSecondary(r) \/ DropContext(r)
       PROVE  RestType'
  <2>1. other[r] \in Users
    BY <1>13 DEF DropSecondary, DropContext, ReqsOK, ReqOK
  <2> QED
    BY <1>0, <1>13, <2>1, FaultType DEF DropSecondary, DropContext, sessions, history
<1>14. ASSUME NEW r \in Reqs, MergeSession(r)
       PROVE  RestType'
  <2>1. heap' \in [Reqs -> Session]
    BY <1>0, <1>14, SetUserType DEF MergeSession, ReqsOK, ReqOK, Holding
  <2> QED
    BY <1>0, <1>14, <2>1 DEF MergeSession, store, history
<1>15. ASSUME NEW r \in Reqs, CallTool(r)
       PROVE  RestType'
  <2>1. PICK t \in Tools[r] :
          heap' = heap \/ (t.call = "remember" /\ heap' = [heap EXCEPT ![obj[r]].pending = @ \cup {t.item}])
    BY <1>15 DEF CallTool, Operation
  <2>2. heap' \in [Reqs -> Session]
    BY <1>0, <2>1, ToolsAssumption DEF Session
  <2> QED
    BY <1>0, <1>15, <2>2 DEF CallTool, store, history
<1>16. ASSUME NEW r \in Reqs, Update(r)
       PROVE  RestType'
  <2>1. \/ heap' = heap
        \/ tool[r].call = "remember" /\ heap' = [heap EXCEPT ![obj[r]].pending = @ \cup {tool[r].item}]
    BY <1>16 DEF Update
  <2>2. tool[r].call = "remember" => tool[r].item \in Items
    BY <1>16, ToolsAssumption, ExtractionIs DEF Update, ReqsOK, ReqOK
  <2>3. heap' \in [Reqs -> Session]
    BY <1>0, <2>1, <2>2 DEF Session
  <2>4. faults' \in 0..MaxFaults
    BY <1>0, <1>16, ReadFaults DEF Update
  <2> QED
    BY <1>0, <1>16, <2>3, <2>4 DEF Update, store, history
<1>17. ASSUME NEW r \in Reqs, Lookup(r)
       PROVE  RestType'
  <2>1. faults' \in 0..MaxFaults
    BY <1>0, <1>17, ReadFaults DEF Lookup
  <2>2. \/ UNCHANGED <<deleted, acked, stale, clean>>
        \/ \E u \in Users : /\ deleted' = deleted \cup {u}
                            /\ acked' = [acked EXCEPT ![u] = {}]
                            /\ clean' \in {clean, clean \cup {u}}
                            /\ stale' \in {stale, stale \cup {u}}
    BY <1>17 DEF Lookup
  <2> QED
    BY <1>0, <1>17, <2>1, <2>2 DEF Lookup, store, sessions
<1>18. ASSUME NEW r \in Reqs, Erase(r) \/ EraseContext(r)
       PROVE  RestType'
  <2>1. CASE Erase(r)
    BY <1>0, <2>1, FaultType DEF Erase, sessions
  <2>2. CASE EraseContext(r)
    <3>1. Sess(r).user \in Users \cup {None}
      BY SessIs DEF Session
    <3>2. heap' \in [Reqs -> Session]
      BY <1>0, <2>2, <3>1, SetUserType DEF EraseContext
    <3> QED
      BY <1>0, <2>2, <3>2, FaultType DEF EraseContext
  <2> QED
    BY <1>18, <2>1, <2>2
<1>19. ASSUME NEW r \in Reqs, Admin(r) \/ Extract(r)
       PROVE  RestType'
  BY <1>0, <1>19 DEF Admin, Extract, store, sessions, history
<1>20. ASSUME NEW s \in Sids, DeleteSession(s) \/ Expire(s)
       PROVE  RestType'
  BY <1>0, <1>20 DEF DeleteSession, Expire, store
<1>21. CASE UNCHANGED vars
  BY <1>0, <1>21 DEF vars, store, sessions, history
<1> QED
  BY <1>1, <1>2, <1>3, <1>5, <1>6, <1>7, <1>9, <1>10, <1>11, <1>12, <1>13, <1>14, <1>15, <1>16,
     <1>17, <1>18, <1>19, <1>20, <1>21 DEF Next, Step

IInv == TypeOK /\ ReqsOK /\ DelInv

LEMMA InitIInv == Init => IInv
<1> SUFFICES ASSUME Init
             PROVE  IInv
  OBVIOUS
<1>1. profiles \in [Users -> Profile \cup {None}]
  BY StoredAssumption DEF Init
<1>2. acked \in [Users -> SUBSET Items]
  <2>1. \A u \in Users : profiles[u] # None => profiles[u].items \in SUBSET Items
    BY <1>1 DEF Profile
  <2> QED
    BY <2>1 DEF Init
<1>3. Fresh \in Session
  BY DEF Fresh, Session
<1>4. TypeOK
  BY <1>1, <1>2, <1>3, FaultsAssumption DEF Init, TypeOK, Steps
<1>5. ReqsOK
  BY DEF Init, ReqsOK, ReqOK, Holding, Saving
<1>6. DelInv
  BY DEF Init, DelInv
<1> QED
  BY <1>4, <1>5, <1>6 DEF IInv

LEMMA StepIInv == IInv /\ [Next]_vars => IInv'
<1> SUFFICES ASSUME IInv, [Next]_vars
             PROVE  IInv'
  OBVIOUS
<1>1. LocalType' /\ ReqsOK' /\ DelInv' /\ RestType'
  BY ReqsStep, DelStep, RestStep DEF IInv
<1>2. TypeOK'
  BY <1>1 DEF TypeOK, LocalType, RestType, SessionType, StoreType
<1> QED
  BY <1>1, <1>2 DEF IInv

LEMMA Inductive == Spec => []IInv
BY InitIInv, StepIInv, PTL DEF Spec

\* Profiles, sessions and the copies that requests hold are what the code takes
\* them for, whatever the interleaving.
THEOREM TypeCorrect == Spec => []TypeOK
<1>1. IInv => TypeOK
  BY DEF IInv
<1> QED
  BY <1>1, Inductive, PTL

\* A user whose deletion was marked while no save was past the check of
\* _recently_deleted, and whose deletions succeeded, comes back neither as a
\* profile nor as a context, for any number of requests that hold a copy of it.
THEOREM DeletedUsersStayDeleted == Spec => []DeletedStaysDeleted
<1>1. IInv => DeletedStaysDeleted
  BY DEF IInv, DelInv, Erased, Erasing, DeletedStaysDeleted
<1> QED
  BY <1>1, Inductive, PTL
-----------------------------------------------------------------------------
(* Tools and locks *)

Asking == {"identify", "infer"}
Locked == {"linkSession", "refused", "upsert", "context"}

\* A call other than those that identify leaves links and merges alone; a copy
\* about to be saved has what the call remembers; a lock is held by the request
\* that is linking its user; and an admin's request only deletes.
ToolOK(r) ==
  /\ pc[r] = "infer" /\ tool[r] # None => tool[r].call = "infer"
  /\ tool[r] # None /\ tool[r].call \notin Asking =>
       /\ pc[r] \notin {"alias", "lock", "linkSession", "dropSecondary", "dropContext"}
       /\ then[r] = "tools"
  /\ pc[r] \in {"upsert", "refused"} /\ tool[r] # None /\ tool[r].call = "remember" =>
       tool[r].item \in prof[r].items
  /\ pc[r] \notin {"new", "lookup", "erase", "eraseContext", "done"} => Kind(r) # "admin"

ToolsOK == \A r \in Reqs : ToolOK(r)

LocksOK ==
  \A r \in Reqs, u \in Users :
    lock[u] = r => pc[r] \in Locked /\ uid[r] = u /\ then[r] = "tools"

LEMMA ToolsOKStep ==
  ASSUME TypeOK, ReqsOK, ToolsOK, [Next]_vars
  PROVE  ToolsOK'
<1>0. LocalType /\ LocalType' /\ ReqsOK'
  BY ReqsStep DEF TypeOK, LocalType
<1>1. ASSUME NEW r \in Reqs, Act(r)
      PROVE  ToolOK(r)'
  <2> USE <1>0 DEF ToolOK, Asking, Kind
  <2>0. ReqOK(r) /\ ToolOK(r) /\ LocalType'
    BY DEF ReqsOK, ToolsOK
  <2>1. CASE Arrive(r)
    <3>1. PICK m \in Messages[r] : m.kind # "admin" /\ msg' = [msg EXCEPT ![r] = m]
      BY <2>1 DEF Arrive
    <3>2. pc'[r] \in {"tools", "create", "token", "find", "both", "infer"}
      BY <2>1 DEF Arrive, ByMessage, Goto, LocalType
    <3>3. tool[r] = None /\ UNCHANGED <<tool, then>>
      BY <2>0, <2>1 DEF Arrive, ReqOK
    <3> QED
      BY <3>1, <3>2, <3>3 DEF LocalType
  <2>2. CASE Admin(r)
    BY <2>0, <2>2 DEF Admin, Goto, LocalType, ReqOK, copies
  <2>3. CASE CallTool(r)
    <3>1. pc[r] = "tools" /\ UNCHANGED <<msg, then, copies>>
      BY <2>3 DEF CallTool
    <3>2. PICK t, l :
            /\ t \in Tools[r]
            /\ tool' = [tool EXCEPT ![r] = t] /\ pc' = [pc EXCEPT ![r] = l]
            /\ \/ l = "infer" /\ t.call = "infer"
               \/ l \in {"identify", "lookup", Operation(t, Sess(r).user # None)}
      BY <2>3 DEF CallTool, Goto
    <3>3. Operation(t, Sess(r).user # None) \in {"tools", "update", "stash"}
      BY DEF Operation
    <3> QED
      BY <2>0, <3>1, <3>2, <3>3 DEF LocalType, ReqOK, Saving, copies
  <2>4. CASE Extract(r)
    <3>1. /\ pc[r] = "tools" /\ pc' = [pc EXCEPT ![r] = "update"]
          /\ UNCHANGED <<msg, then, copies>>
      BY <2>4 DEF Extract, Goto
    <3> QED
      BY <2>0, <3>1 DEF LocalType, ReqOK, Saving, copies
  <2>5. CASE Create(r)
    BY <2>0, <2>5 DEF Create, ByMessage, Goto, LocalType, ReqOK, copies
  <2>6. CASE Token(r) \/ FindByRouter(r) \/ FindByName(r) \/ Note(r)
    <3>1. /\ pc[r] \in {"token", "find", "note"} /\ tool[r] = None
          /\ UNCHANGED <<msg, tool, then>>
      BY <2>0, <2>6 DEF Token, FindByRouter, FindByName, Note, ReqOK
    <3>2. pc'[r] \in {"lock", "infer", "identify", "note"}
      BY <2>6 DEF Token, FindByRouter, FindByName, Note, LinkIfConfident, BeginLink, Goto,
         LocalType
    <3> QED
      BY <2>0, <3>1, <3>2
  <2>7. CASE Identify(r) \/ Infer(r)
    <3>1. /\ pc[r] \in {"identify", "infer"} /\ UNCHANGED <<msg, tool, then>>
          /\ tool[r] = None \/ tool[r].call \in Asking
      BY <2>0, <2>7 DEF Identify, Infer, ReqOK, Unasked
    <3>2. pc'[r] \in {"lock", "asked", "tools"}
      BY <2>7 DEF Identify, Infer, BeginLink, Goto, LocalType
    <3> QED
      BY <2>0, <3>1, <3>2
  <2>8. CASE FindPrimary(r)
    BY <2>0, <2>8 DEF FindPrimary, Goto, LocalType, ReqOK
  <2>9. CASE Consolidate(r)
    <3>1. pc[r] = "alias" /\ UNCHANGED <<msg, tool>>
      BY <2>9 DEF Consolidate
    <3>2. pc'[r] \in {"lock", "dropSecondary", "upsert", "refused"}
      <4>1. \/ \E u : BeginSave(r, u)
            \/ BeginLink(r, uid[r], prof[r])
            \/ Goto(r, "dropSecondary")
        BY <2>9, Zenon DEF Consolidate
      <4> QED
        BY <4>1, SaveSteps DEF BeginLink, Goto, LocalType
    <3> QED
      BY <2>0, <3>1, <3>2
  <2>10. CASE Asked(r) \/ Stash(r) \/ Final(r)
    BY <2>0, <2>10 DEF Asked, Stash, Final, Goto, LocalType, copies
  <2>11. CASE Lock(r)
    BY <2>0, <2>11 DEF Lock, Goto, LocalType
  <2>12. CASE LinkSession(r) \/ DropContext(r)
    <3>1. pc[r] \in {"linkSession", "dropContext"} /\ UNCHANGED <<msg, tool, then>>
      BY <2>12 DEF LinkSession, DropContext
    <3>2. pc'[r] \in {"upsert", "refused"}
      BY <2>12, SaveSteps DEF LinkSession, DropContext
    <3> QED
      BY <2>0, <3>1, <3>2
  <2>13. CASE Upsert(r) \/ DropSecondary(r)
    BY <2>0, <2>13 DEF Upsert, DropSecondary, Goto, LocalType, copies
  <2>14. CASE Refused(r) \/ NotSaved(r) \/ Context(r)
    <3>1. pc[r] \in {"refused", "upsert", "context"} /\ UNCHANGED <<msg, tool>> /\ Saved(r)
      BY <2>14 DEF Refused, NotSaved, Context
    <3>2. pc'[r] = then[r] /\ then'[r] = "tools" /\ then[r] \in {"tools", "lock", "mergeSession"}
      BY <3>1 DEF Saved, Goto, LocalType
    <3> QED
      BY <2>0, <3>1, <3>2
  <2>15. CASE SaveRaises(r)
    <3>1. pc[r] = "upsert" /\ UNCHANGED <<msg, tool>> /\ Raised(r)
      BY <2>15 DEF SaveRaises
    <3> QED
      BY <2>0, <3>1 DEF Raised, Goto, LocalType
  <2>16. CASE MergeSession(r)
    BY <2>0, <2>16 DEF MergeSession, Goto, LocalType, ReqOK, Holding
  <2>17. CASE Update(r)
    <3>1. pc[r] = "update" /\ UNCHANGED <<msg, tool, then>> /\ tool[r] # None
      BY <2>0, <2>17 DEF Update, ReqOK
    <3>2. \/ pc'[r] \in {"tools", "stash"}
          \/ /\ pc'[r] \in {"upsert", "refused"}
             /\ \E p \in Profile : prof' = [prof EXCEPT ![r] = Changed(tool[r], p)]
      <4>1. \/ Goto(r, "tools") \/ Goto(r, "stash")
            \/ \E v \in Users : /\ profiles[v] # None /\ BeginSave(r, v)
                                /\ prof' = [prof EXCEPT ![r] = Changed(tool[r], profiles[v])]
        BY <2>17 DEF Update
      <4>2. \A v \in Users : profiles[v] # None => profiles[v] \in Profile
        BY DEF TypeOK
      <4> QED
        BY <4>1, <4>2, SaveSteps DEF Goto, LocalType
    <3>3. \A p \in Profile : tool[r].call = "remember" => tool[r].item \in Changed(tool[r], p).items
      BY DEF Changed, Profile
    <3> QED
      BY <2>0, <3>1, <3>2, <3>3 DEF LocalType, ReqOK
  <2>18. CASE Lookup(r)
    <3>1. /\ pc[r] = "lookup" /\ UNCHANGED <<msg, tool, then>>
          /\ pc'[r] \in {"erase", "done"} \/ (pc'[r] = "tools" /\ Kind(r) # "admin")
      BY <2>18 DEF Lookup, Goto, LocalType
    <3> QED
      BY <2>0, <3>1
  <2>19. CASE Erase(r) \/ EraseContext(r)
    <3>1. /\ pc[r] \in {"erase", "eraseContext"} /\ UNCHANGED <<msg, tool, then>>
          /\ pc'[r] \in {"eraseContext", "done"} \/ (pc'[r] = "tools" /\ Kind(r) # "admin")
      BY <2>19 DEF Erase, EraseContext, Goto, LocalType
    <3> QED
      BY <2>0, <3>1
  <2> QED
    BY <1>1, <2>1, <2>2, <2>3, <2>4, <2>5, <2>6, <2>7, <2>8, <2>9, <2>10, <2>11, <2>12, <2>13,
       <2>14, <2>15, <2>16, <2>17, <2>18, <2>19 DEF Act, Step
<1>2. ASSUME NEW r \in Reqs, Act(r), NEW q \in Reqs, q # r
      PROVE  ToolOK(q)'
  <2>1. /\ pc'[q] = pc[q] /\ then'[q] = then[q] /\ msg'[q] = msg[q] /\ tool'[q] = tool[q]
        /\ prof'[q] = prof[q]
    BY <1>0, <1>2, Frame
  <2>2. ToolOK(q)
    BY DEF ToolsOK
  <2> QED
    BY <2>1, <2>2 DEF ToolOK, Kind
<1>3. ASSUME UNCHANGED Local
      PROVE  ToolsOK'
  BY <1>3 DEF ToolsOK, ToolOK, Kind, Local
<1>4. UNCHANGED vars => UNCHANGED Local
  BY DEF vars, control, copies, Local
<1> QED
  BY <1>1, <1>2, <1>3, <1>4, SessionsOnly DEF Next, Act, ToolsOK

LEMMA LocksOKStep ==
  ASSUME TypeOK, ReqsOK, LocksOK, [Next]_vars
  PROVE  LocksOK'
<1>0. LocalType /\ LocalType'
  BY ReqsStep DEF TypeOK, LocalType
<1>1. ASSUME NEW r \in Reqs, Act(r),
             \A u \in Users : lock'[u] = lock[u] \/ lock'[u] = None \/ (lock'[u] = r /\ u = uid[r]),
             \A u \in Users : lock'[u] = r =>
               pc'[r] \in Locked /\ uid'[r] = uid[r] /\ then'[r] = "tools"
      PROVE  LocksOK'
  <2> SUFFICES ASSUME NEW q \in Reqs, NEW u \in Users, lock'[u] = q
               PROVE  pc'[q] \in Locked /\ uid'[q] = u /\ then'[q] = "tools"
    BY DEF LocksOK
  <2>1. CASE q = r
    BY <1>1, <2>1, NoneAssumption DEF LocksOK
  <2>2. CASE q # r
    <3>1. /\ pc'[q] = pc[q] /\ then'[q] = then[q] /\ uid'[q] = uid[q]
      BY <1>0, <1>1, <2>2, Frame
    <3>2. lock[u] = q
      BY <1>1, <2>2, NoneAssumption
    <3> QED
      BY <3>1, <3>2 DEF LocksOK
  <2> QED
    BY <2>1, <2>2
<1>2. ASSUME NEW r \in Reqs, Lock(r)
      PROVE  LocksOK'
  <2>1. /\ lock' = [lock EXCEPT ![uid[r]] = r] /\ pc[r] = "lock" /\ pc'[r] = "linkSession"
        /\ uid' = uid /\ then' = then
    BY <1>0, <1>2 DEF Lock, Goto, LocalType
  <2>2. uid[r] \in Users /\ then[r] = "tools"
    BY <2>1 DEF ReqsOK, ReqOK, Holding, Saving
  <2>3. \A u \in Users : lock'[u] = IF u = uid[r] THEN r ELSE lock[u]
    BY <2>1 DEF TypeOK
  <2> QED
    BY <1>1, <1>2, <2>1, <2>2, <2>3 DEF Act, Step, Locked
<1>3. ASSUME NEW r \in Reqs, Refused(r) \/ NotSaved(r) \/ SaveRaises(r) \/ Context(r)
      PROVE  LocksOK'
  <2>1. lock' = [u \in Users |-> IF lock[u] = r THEN None ELSE lock[u]]
    BY <1>3 DEF Refused, NotSaved, SaveRaises, Context, Saved, Raised
  <2>2. \A u \in Users : lock'[u] # r
    BY <2>1, NoneAssumption
  <2> QED
    BY <1>1, <1>3, <2>1, <2>2 DEF Act, Step
<1>4. ASSUME NEW r \in Reqs, LinkSession(r) \/ Upsert(r)
      PROVE  LocksOK'
  <2>1. lock' = lock /\ uid' = uid /\ then' = then
    BY <1>4 DEF LinkSession, Upsert, copies
  <2>2. pc'[r] \in Locked
    BY <1>0, <1>4, SaveSteps DEF LinkSession, Upsert, Goto, LocalType, Locked
  <2> QED
    BY <1>1, <1>4, <2>1, <2>2 DEF Act, Step, LocksOK
<1>5. ASSUME NEW r \in Reqs,
             \/ Arrive(r) \/ Admin(r) \/ CallTool(r) \/ Extract(r) \/ Create(r) \/ Token(r)
             \/ FindByRouter(r) \/ FindByName(r) \/ Note(r) \/ Identify(r) \/ FindPrimary(r)
             \/ Consolidate(r) \/ Infer(r) \/ Asked(r) \/ DropSecondary(r) \/ DropContext(r)
             \/ MergeSession(r) \/ Update(r) \/ Stash(r) \/ Lookup(r) \/ Erase(r)
             \/ EraseContext(r) \/ Final(r)
      PROVE  LocksOK'
  <2>1. lock' = lock /\ pc[r] \notin Locked
    BY <1>5 DEF Arrive, Admin, CallTool, Extract, Create, Token, FindByRouter, FindByName, Note,
       Identify, FindPrimary, Consolidate, Infer, Asked, DropSecondary, DropContext,
       MergeSession, Update, Stash, Lookup, Erase, EraseContext, Final, Locked
  <2>2. \A u \in Users : lock[u] # r
    BY <2>1 DEF LocksOK
  <2> QED
    BY <1>1, <1>5, <2>1, <2>2 DEF Act, Step
<1>6. ASSUME UNCHANGED <<Local, lock>>
      PROVE  LocksOK'
  BY <1>6 DEF LocksOK, Local
<1>7. UNCHANGED vars => UNCHANGED <<Local, lock>>
  BY DEF vars, control, copies, Local
<1> QED
  BY <1>2, <1>3, <1>4, <1>5, <1>6, <1>7, SessionsOnly DEF Next, Step

-----------------------------------------------------------------------------
(* The sessions of requests *)

Active(r) == pc[r] \notin {"new", "done", "failed"} /\ Kind(r) # "admin"
HoldsLock(r) == \E u \in Users : lock[u] = r
Kept(s) == IF redis[s] = None THEN {} ELSE redis[s].pending

\* Where a request has what was noted in its session: in the session, or, once
\* it links the session's user, in its copy of the profile.
Linking(r) == IF HoldsLock(r) THEN prof[r].items ELSE {}
Carried(r) == IF HoldsLock(r) THEN prof[r].items ELSE Sess(r).pending

\* Requests share a Session object, or a session, only in a shaken session.
SessOK ==
  /\ \A s \in Sids : local[s] # None => s \in shaken /\ SidOf[local[s]] = s
  /\ \A q \in Reqs : obj[q] = q \/ (SidOf[obj[q]] = SidOf[q] /\ SidOf[q] \in shaken)
  /\ \A q, r \in Reqs :
       q # r /\ Active(q) /\ Active(r) /\ SidOf[q] = SidOf[r] => SidOf[r] \in shaken

CarriedOK(r) ==
  /\ noted[SidOf[r]] \subseteq Carried(r)
  /\ pc[r] = "stash" => tool[r].item \in Sess(r).pending
  /\ pc[r] = "context" /\ HoldsLock(r) => noted[SidOf[r]] = {}

NotedOK ==
  /\ \A s \in Sids \ shaken :
       noted[s] \subseteq Kept(s) \cup UNION {Linking(r) : r \in {q \in Reqs : SidOf[q] = s}}
  /\ \A r \in Reqs : Active(r) /\ SidOf[r] \notin shaken => CarriedOK(r)

\* A step of a request touches its own session and its own Session object.
LEMMA SessionFrame ==
  ASSUME TypeOK, NEW r \in Reqs, Act(r)
  PROVE  /\ \A q \in Reqs \ {r} : obj'[q] = obj[q]
         /\ \A o \in Reqs : o # obj[r] /\ o # obj'[r] => heap'[o] = heap[o]
         /\ \A q \in Reqs \ {r} : HoldsLock(q)' <=> HoldsLock(q)
         /\ \A s \in Sids : s # SidOf[r] =>
              /\ redis'[s] = redis[s] /\ local'[s] = local[s] /\ noted'[s] = noted[s]
              /\ s \in shaken' <=> s \in shaken
         /\ shaken \subseteq shaken'
         /\ \/ local' = local
            \/ local' = [local EXCEPT ![SidOf[r]] = obj[r]] /\ SidOf[r] \in shaken'
<1>0. SidOf[r] \in Sids
  BY SidOfAssumption
<1>1. obj' = obj \/ (Arrive(r) /\ \E o : obj' = [obj EXCEPT ![r] = o])
  BY Zenon DEF Act, Step, Arrive, Admin, CallTool, Extract, Create, Token, FindByRouter, FindByName,
     Note, Identify, FindPrimary, Consolidate, Infer, Asked, Lock, LinkSession, Refused, Upsert,
     NotSaved, SaveRaises, Context, DropSecondary, DropContext, MergeSession, Update, Stash,
     Lookup, Erase, EraseContext, Final, sessions
<1>2. \A o \in Reqs : o # obj[r] /\ o # obj'[r] => heap'[o] = heap[o]
  <2> USE DEF TypeOK
  <2>1. CASE Arrive(r)
    <3>1. PICK next, m \in Messages[r] :
            LET s == SidOf[r]
                Enter(o, session) ==
                  /\ obj' = [obj EXCEPT ![r] = o]
                  /\ heap' = [heap EXCEPT ![o] = session]
            IN  \/ Enter(r, redis[s])
                \/ local[s] \in Reqs /\ Enter(local[s], heap[local[s]])
                \/ heap' = heap
      BY <1>0, <2>1 DEF Arrive
    <3> QED
      BY <3>1
  <2>2. CASE \/ Admin(r) \/ Extract(r) \/ Create(r) \/ Note(r) \/ FindPrimary(r) \/ Asked(r)
             \/ LinkSession(r) \/ Upsert(r) \/ SaveRaises(r) \/ DropSecondary(r)
             \/ DropContext(r) \/ Stash(r) \/ Lookup(r) \/ Erase(r) \/ Final(r)
    BY <2>2 DEF Admin, Extract, Create, Note, FindPrimary, Asked, LinkSession, Upsert,
       SaveRaises, Raised, DropSecondary, DropContext, Stash, Lookup, Erase, Final, sessions
  <2>3. CASE \/ Token(r) \/ FindByRouter(r) \/ FindByName(r) \/ Identify(r) \/ Infer(r)
             \/ Refused(r) \/ NotSaved(r) \/ Context(r) \/ MergeSession(r) \/ EraseContext(r)
             \/ Lock(r)
    BY <2>3 DEF Token, FindByRouter, FindByName, Identify, Infer, Refused, NotSaved, Context,
       MergeSession, EraseContext, Lock, LinkIfConfident, BeginLink, SetUser, Saved
  <2>4. CASE Consolidate(r) \/ CallTool(r) \/ Update(r)
    <3>1. heap' = heap \/ \E x : heap' = [heap EXCEPT ![obj[r]] = x]
      <4>1. CASE Consolidate(r)
        <5>1. heap' = heap \/ \E u : SetUser(r, u)
          BY <4>1, Zenon DEF Consolidate, BeginLink
        <5> QED
          BY <5>1 DEF SetUser
      <4>2. CASE CallTool(r)
        <5>1. heap' = heap \/ \E t : heap' = [heap EXCEPT ![obj[r]].pending = @ \cup {t.item}]
          BY <4>2 DEF CallTool
        <5> QED
          BY <5>1
      <4>3. CASE Update(r)
        BY <4>3 DEF Update
      <4> QED
        BY <2>4, <4>1, <4>2, <4>3
    <3> QED
      BY <3>1
  <2> QED
    BY <2>1, <2>2, <2>3, <2>4 DEF Act, Step
<1>3. \A q \in Reqs \ {r} : HoldsLock(q)' <=> HoldsLock(q)
  <2> USE NoneAssumption DEF TypeOK, HoldsLock
  <2>1. CASE lock' = lock
    BY <2>1
  <2>2. CASE Lock(r)
    <3>1. lock' = [lock EXCEPT ![uid[r]] = r] /\ lock[uid[r]] = None
      BY <2>2 DEF Lock
    <3> QED
      BY <3>1
  <2>3. CASE lock' = [u \in Users |-> IF lock[u] = r THEN None ELSE lock[u]]
    BY <2>3
  <2>4. \/ lock' = lock \/ Lock(r)
        \/ lock' = [u \in Users |-> IF lock[u] = r THEN None ELSE lock[u]]
    BY Zenon DEF Act, Step, Arrive, Admin, CallTool, Extract, Create, Token, FindByRouter,
       FindByName, Note, Identify, FindPrimary, Consolidate, Infer, Asked, LinkSession, Refused,
       Upsert, NotSaved, SaveRaises, Context, DropSecondary, DropContext, MergeSession, Update,
       Stash, Lookup, Erase, EraseContext, Final, Saved, Raised
  <2> QED
    BY <2>1, <2>2, <2>3, <2>4
<1>4. /\ \/ redis' = redis
         \/ \E x : redis' = [redis EXCEPT ![SidOf[r]] = x]
      /\ \/ local' = local
         \/ local' = [local EXCEPT ![SidOf[r]] = obj[r]] /\ SidOf[r] \in shaken'
  BY DEF Act, Step, Arrive, Admin, CallTool, Extract, Create, Token, FindByRouter,
     FindByName, Note, Identify, FindPrimary, Consolidate, Infer, Asked, Lock, LinkSession, Refused,
     Upsert, NotSaved, SaveRaises, Context, DropSecondary, DropContext, MergeSession, Update,
     Stash, Lookup, Erase, EraseContext, Final, SaveSession, sessions
<1>5. shaken' = shaken \/ shaken' = shaken \cup {SidOf[r]}
  BY DEF Act, Step, Arrive, Admin, CallTool, Extract, Create, Token, FindByRouter,
     FindByName, Note, Identify, FindPrimary, Consolidate, Infer, Asked, Lock, LinkSession, Refused,
     Upsert, NotSaved, SaveRaises, Context, DropSecondary, DropContext, MergeSession, Update,
     Stash, Lookup, Erase, EraseContext, Final, SaveSession, history
<1>6. noted' = noted \/ \E x : noted' = [noted EXCEPT ![SidOf[r]] = x]
  BY DEF Act, Step, Arrive, Admin, CallTool, Extract, Create, Token, FindByRouter,
     FindByName, Note, Identify, FindPrimary, Consolidate, Infer, Asked, Lock, LinkSession, Refused,
     Upsert, NotSaved, SaveRaises, Context, DropSecondary, DropContext, MergeSession, Update,
     Stash, Lookup, Erase, EraseContext, Final, Report, history
<1> QED
  BY <1>0, <1>1, <1>2, <1>3, <1>4, <1>5, <1>6 DEF TypeOK

\* A request that is on, was on before, or has just arrived.
LEMMA Arriving ==
  ASSUME TypeOK, NEW r \in Reqs, Act(r), Active(r)', ~Active(r), ReqsOK
  PROVE  Arrive(r)
<1>0. LocalType /\ LocalType'
  BY ReqsStep DEF TypeOK, LocalType, Next, Act
<1>1. CASE Admin(r)
  BY <1>0, <1>1 DEF Admin, Active, Kind, Goto, LocalType
<1>2. CASE ~Arrive(r) /\ ~Admin(r)
  <2>1. pc[r] \notin {"new", "done", "failed"} /\ msg' = msg
    BY <1>2 DEF Act, Step, Arrive, Admin, CallTool, Extract, Create, Token, FindByRouter,
     FindByName, Note, Identify, FindPrimary, Consolidate, Infer, Asked, Lock, LinkSession, Refused,
     Upsert, NotSaved, SaveRaises, Context, DropSecondary, DropContext, MergeSession, Update,
     Stash, Lookup, Erase, EraseContext, Final, control
  <2> QED
    BY <2>1 DEF Active, Kind
<1> QED
  BY <1>1, <1>2

LEMMA SessStep ==
  ASSUME TypeOK, ReqsOK, SessOK, [Next]_vars
  PROVE  SessOK'
<1>0. LocalType /\ LocalType' /\ RestType' /\ SidOf \in [Reqs -> Sids]
  BY ReqsStep, RestStep, SidOfAssumption DEF TypeOK, LocalType
<1>1. ASSUME NEW r \in Reqs, Act(r)
      PROVE  SessOK'
  <2>1. /\ \A q \in Reqs \ {r} : obj'[q] = obj[q]
        /\ \A s \in Sids : s # SidOf[r] => /\ local'[s] = local[s]
                                           /\ s \in shaken' <=> s \in shaken
        /\ shaken \subseteq shaken'
        /\ \/ local' = local
           \/ local' = [local EXCEPT ![SidOf[r]] = obj[r]] /\ SidOf[r] \in shaken'
    BY <1>1, SessionFrame
  <2>2. \A q \in Reqs \ {r} : Active(q)' <=> Active(q)
    BY <1>0, <1>1, Frame DEF Active, Kind
  <2>3. obj[r] \in Reqs /\ SidOf[obj[r]] = SidOf[r]
    BY DEF SessOK, TypeOK
  <2>4. \A s \in Sids : local'[s] # None => s \in shaken' /\ SidOf[local'[s]] = s
    BY <1>0, <2>1, <2>3 DEF SessOK, TypeOK
  <2>5. /\ obj'[r] = r \/ (SidOf[obj'[r]] = SidOf[r] /\ SidOf[r] \in shaken')
    <3>1. obj'[r] = obj[r] \/ obj'[r] = r \/ (obj'[r] = local[SidOf[r]] /\ local[SidOf[r]] # None)
      <4>1. CASE Arrive(r)
        <5>1. \/ obj' = obj \/ obj' = [obj EXCEPT ![r] = r]
              \/ local[SidOf[r]] # None /\ obj' = [obj EXCEPT ![r] = local[SidOf[r]]]
          BY <4>1 DEF Arrive
        <5> QED
          BY <5>1 DEF TypeOK
      <4>2. CASE ~Arrive(r)
        BY <1>1, <4>2 DEF Act, Step, Arrive, Admin, CallTool, Extract, Create, Token, FindByRouter,
           FindByName, Note, Identify, FindPrimary, Consolidate, Infer, Asked, Lock, LinkSession,
           Refused, Upsert, NotSaved, SaveRaises, Context, DropSecondary, DropContext,
           MergeSession, Update, Stash, Lookup, Erase, EraseContext, Final, sessions
      <4> QED
        BY <4>1, <4>2
    <3> QED
      BY <1>0, <2>1, <3>1 DEF SessOK
  <2>6. ASSUME NEW q \in Reqs \ {r}, Active(q)', Active(r)', SidOf[q] = SidOf[r]
        PROVE  SidOf[r] \in shaken'
    <3>1. CASE Active(r)
      BY <2>1, <2>2, <2>6, <3>1 DEF SessOK
    <3>2. CASE ~Active(r)
      <4>1. Arrive(r)
        BY <1>1, <2>6, <3>2, Arriving
      <4>2. Busy(q) /\ SidOf[q] = SidOf[r] /\ msg[q].kind # "admin" /\ q # r
        BY <2>2, <2>6 DEF Active, Busy, Kind
      <4>3. shaken' = shaken \cup {SidOf[r]}
        BY <4>1, <4>2 DEF Arrive
      <4> QED
        BY <4>3
    <3> QED
      BY <3>1, <3>2
  <2>7. ASSUME NEW p \in Reqs, NEW q \in Reqs, p # q, Active(p)', Active(q)', SidOf[p] = SidOf[q]
        PROVE  SidOf[q] \in shaken'
    <3>1. CASE p # r /\ q # r
      BY <2>1, <2>2, <2>7, <3>1 DEF SessOK
    <3> QED
      BY <2>6, <2>7, <3>1
  <2> QED
    BY <2>1, <2>4, <2>5, <2>7 DEF SessOK
<1>2. ASSUME NEW s \in Sids, DeleteSession(s) \/ Expire(s)
      PROVE  SessOK'
  <2>1. UNCHANGED <<pc, msg, obj>> /\ shaken \subseteq shaken'
    BY <1>2 DEF DeleteSession, Expire, control
  <2>2. \A t \in Sids : local'[t] # None => local'[t] = local[t]
    BY <1>2 DEF DeleteSession, Expire, TypeOK
  <2> QED
    BY <2>1, <2>2 DEF SessOK, Active, Kind
<1>3. UNCHANGED vars => SessOK'
  BY DEF vars, sessions, control, history, SessOK, Active, Kind
<1> QED
  BY <1>1, <1>2, <1>3 DEF Next, Act

\* What a session that is not shaken keeps, when only r is at work in it.
Own(r) ==
  /\ noted[SidOf[r]] \subseteq Kept(SidOf[r]) \cup Linking(r)
  /\ Active(r) => CarriedOK(r)

OnlyOne(r) == \A q \in Reqs : q # r /\ SidOf[q] = SidOf[r] => ~Active(q)

LEMMA LockedActive ==
  ASSUME ToolsOK, LocksOK, NEW r \in Reqs, HoldsLock(r)
  PROVE  Active(r) /\ pc[r] \in Locked
BY DEF ToolsOK, ToolOK, LocksOK, HoldsLock, Active, Locked

\* The sessions of the others are as they were.
LEMMA OthersNoted ==
  ASSUME TypeOK, ReqsOK, ToolsOK, LocksOK, SessOK, NotedOK, NEW r \in Reqs, Act(r),
         Active(r) \/ Active(r)', SidOf[r] \notin shaken' => Own(r)'
  PROVE  NotedOK'
<1>0. LocalType /\ LocalType' /\ RestType' /\ SidOf \in [Reqs -> Sids]
  BY ReqsStep, RestStep, SidOfAssumption DEF TypeOK, LocalType, Next, Act
<1>1. /\ \A q \in Reqs \ {r} : obj'[q] = obj[q]
      /\ \A o \in Reqs : o # obj[r] /\ o # obj'[r] => heap'[o] = heap[o]
      /\ \A q \in Reqs \ {r} : HoldsLock(q)' <=> HoldsLock(q)
      /\ \A s \in Sids : s # SidOf[r] =>
           /\ redis'[s] = redis[s] /\ noted'[s] = noted[s]
           /\ s \in shaken' <=> s \in shaken
      /\ shaken \subseteq shaken'
  BY SessionFrame
<1>2. ToolsOK' /\ LocksOK' /\ SessOK'
  BY ToolsOKStep, LocksOKStep, SessStep DEF Next, Act
<1>3. \A q \in Reqs \ {r} :
        /\ Linking(q)' = Linking(q) /\ (Active(q)' <=> Active(q))
        /\ pc'[q] = pc[q] /\ tool'[q] = tool[q] /\ prof'[q] = prof[q]
  BY <1>0, <1>1, Frame DEF Linking, Active, Kind
<1>4. SidOf[r] \notin shaken' => OnlyOne(r) /\ OnlyOne(r)'
  BY <1>1, <1>2, <1>3 DEF OnlyOne, SessOK
<1>5. ASSUME NEW q \in Reqs \ {r}, Active(q), SidOf[q] \notin shaken'
      PROVE  CarriedOK(q)'
  <2>1. SidOf[q] # SidOf[r]
    BY <1>4, <1>5 DEF OnlyOne
  <2>2. CarriedOK(q) /\ obj[q] = q /\ obj'[q] = q /\ SidOf[q] \in Sids
    BY <1>0, <1>1, <1>5 DEF NotedOK, SessOK
  <2>3. q # obj[r] /\ q # obj'[r]
    BY <1>1, <1>2, <2>1 DEF SessOK
  <2>4. heap'[q] = heap[q] /\ noted'[SidOf[q]] = noted[SidOf[q]]
    BY <1>1, <2>1, <2>2, <2>3
  <2>5. Sess(q)' = Sess(q)
    BY <2>2, <2>4 DEF Sess
  <2> QED
    BY <1>1, <1>3, <2>2, <2>4, <2>5 DEF CarriedOK, Carried
<1>6. ASSUME NEW s \in Sids, s \notin shaken'
      PROVE  noted'[s] \subseteq Kept(s)' \cup UNION {Linking(q)' : q \in {p \in Reqs : SidOf[p] = s}}
  <2>1. CASE s = SidOf[r]
    <3>1. Own(r)'
      BY <1>6, <2>1
    <3> QED
      BY <2>1, <3>1 DEF Own
  <2>2. CASE s # SidOf[r]
    <3>1. noted[s] \subseteq Kept(s) \cup UNION {Linking(q) : q \in {p \in Reqs : SidOf[p] = s}}
      BY <1>1, <1>6 DEF NotedOK
    <3>2. noted'[s] = noted[s] /\ Kept(s)' = Kept(s)
      BY <1>1, <2>2 DEF Kept
    <3>3. \A q \in {p \in Reqs : SidOf[p] = s} : Linking(q)' = Linking(q)
      BY <1>3, <2>2
    <3> QED
      BY <3>1, <3>2, <3>3
  <2> QED
    BY <2>1, <2>2
<1>7. SidOf[r] \notin shaken' /\ Active(r)' => CarriedOK(r)'
  BY DEF Own
<1>8. \A q \in Reqs : Active(q)' /\ SidOf[q] \notin shaken' => CarriedOK(q)'
  BY <1>3, <1>5, <1>7
<1> QED
  BY <1>6, <1>8 DEF NotedOK

LEMMA OwnNow ==
  ASSUME TypeOK, ToolsOK, LocksOK, SessOK, NotedOK, NEW r \in Reqs, SidOf[r] \notin shaken,
         OnlyOne(r)
  PROVE  Own(r)
<1>1. SidOf[r] \in Sids
  BY SidOfAssumption
<1>2. \A q \in Reqs : q # r /\ SidOf[q] = SidOf[r] => Linking(q) = {}
  BY LockedActive DEF OnlyOne, Linking
<1>3. UNION {Linking(q) : q \in {p \in Reqs : SidOf[p] = SidOf[r]}} \subseteq Linking(r)
  BY <1>2
<1> QED
  BY <1>1, <1>3 DEF NotedOK, Own

\* A step that neither takes nor gives back a lock, and drops nothing.
LEMMA OwnKept ==
  ASSUME NEW r \in Reqs, Own(r), Active(r), ~HoldsLock(r), ~HoldsLock(r)',
         Sess(r).pending \subseteq Sess(r)'.pending,
         Kept(SidOf[r])' = Kept(SidOf[r]) \/ Kept(SidOf[r])' = Sess(r).pending,
         noted'[SidOf[r]] \subseteq noted[SidOf[r]],
         pc'[r] = "stash" => tool'[r].item \in Sess(r)'.pending
  PROVE  Own(r)'
BY DEF Own, CarriedOK, Carried, Linking

LEMMA SavedSession ==
  ASSUME TypeOK, NEW r \in Reqs, SaveSession(r), SidOf[r] \notin shaken'
  PROVE  Kept(SidOf[r])' = Sess(r).pending
<1>1. SidOf[r] \in Sids /\ Sess(r) # None
  BY SidOfAssumption, SessIs, NoneAssumption
<1>2. redis' = [redis EXCEPT ![SidOf[r]] = Sess(r)]
  BY DEF SaveSession
<1> QED
  BY <1>1, <1>2 DEF Kept, TypeOK

LEMMA UserOnly ==
  ASSUME TypeOK, NEW r \in Reqs, NEW u, SetUser(r, u), obj' = obj
  PROVE  Sess(r)'.pending = Sess(r).pending
BY DEF TypeOK, SetUser, Sess, Session

LEMMA NotedStep ==
  ASSUME TypeOK, ReqsOK, ToolsOK, LocksOK, SessOK, NotedOK, [Next]_vars
  PROVE  NotedOK'
<1>0. /\ LocalType /\ LocalType' /\ RestType' /\ SidOf \in [Reqs -> Sids]
      /\ ReqsOK' /\ ToolsOK' /\ LocksOK' /\ SessOK'
  BY ReqsStep, RestStep, ToolsOKStep, LocksOKStep, SessStep, SidOfAssumption DEF TypeOK, LocalType
<1>a. ASSUME NEW r \in Reqs, Act(r)
      PROVE  shaken \subseteq shaken' /\ \A q \in Reqs \ {r} : Active(q)' <=> Active(q)
  <2>1. \A q \in Reqs \ {r} : pc'[q] = pc[q] /\ msg'[q] = msg[q]
    BY <1>0, <1>a, Frame
  <2> QED
    BY <1>a, <2>1, SessionFrame DEF Active, Kind
<1>b. ASSUME NEW r \in Reqs, Act(r), SidOf[r] \notin shaken', Active(r) \/ Active(r)'
      PROVE  Own(r) /\ OnlyOne(r)
  <2>1. OnlyOne(r)
    <3> SUFFICES ASSUME NEW q \in Reqs, q # r, SidOf[q] = SidOf[r], Active(q)
                 PROVE  FALSE
      BY DEF OnlyOne
    <3>1. SidOf[r] \notin shaken /\ Active(q)'
      BY <1>a, <1>b
    <3> QED
      BY <1>0, <1>b, <3>1 DEF SessOK
  <2> QED
    BY <1>a, <1>b, <2>1, OwnNow
<1>c. ASSUME NEW r \in Reqs, pc[r] \notin Locked
      PROVE  ~HoldsLock(r)
  BY <1>c, LockedActive
<1>d. ASSUME NEW r \in Reqs, pc'[r] \notin Locked
      PROVE  ~HoldsLock(r)'
  BY <1>0, <1>d DEF LocksOK, HoldsLock
<1>e. ASSUME NEW r \in Reqs, pc[r] \notin {"new", "lookup", "erase", "eraseContext", "done", "failed"}
      PROVE  Active(r)
  BY <1>e DEF ToolsOK, ToolOK, Active
<1> USE DEF Act, Step
\* a request arrives
<1>1. ASSUME NEW r \in Reqs, Arrive(r)
      PROVE  NotedOK'
  <2>1. pc[r] = "new" /\ UNCHANGED <<redis, noted, lock>> /\ pc'[r] \notin {"stash", "context"}
        /\ Active(r)' /\ ~HoldsLock(r) /\ ~HoldsLock(r)'
    <3>1. pc[r] = "new" /\ UNCHANGED <<redis, noted, lock>>
      BY <1>1 DEF Arrive
    <3>2. pc'[r] \in {"tools", "create", "token", "find", "both", "infer"}
      BY <1>0, <1>1 DEF Arrive, ByMessage, Goto, LocalType
    <3>3. Active(r)'
      <4>1. \E m : m.kind # "admin" /\ msg' = [msg EXCEPT ![r] = m]
        BY <1>1 DEF Arrive
      <4> QED
        BY <1>0, <3>2, <4>1 DEF Active, Kind, LocalType
    <3> QED
      BY <1>c, <1>d, <3>1, <3>2, <3>3 DEF Locked
  <2>2. ASSUME SidOf[r] \notin shaken'
        PROVE  Own(r)'
    <3>1. Own(r) /\ SidOf[r] \notin shaken
      BY <1>1, <1>a, <1>b, <2>1, <2>2
    <3>2. noted[SidOf[r]] \subseteq Kept(SidOf[r])
      BY <2>1, <3>1 DEF Own, Linking
    <3>3. local[SidOf[r]] = None
      BY <1>0, <3>1 DEF SessOK
    <3>4. UNCHANGED faults
      BY <1>1, <2>2 DEF Arrive
    <3>5. \/ redis[SidOf[r]] # None /\ obj' = [obj EXCEPT ![r] = r]
             /\ heap' = [heap EXCEPT ![r] = redis[SidOf[r]]]
          \/ redis[SidOf[r]] = None
      BY <1>1, <3>3, <3>4, FaultsAssumption DEF Arrive, Fault, TypeOK
    <3>6. Kept(SidOf[r]) \subseteq Sess(r)'.pending
      BY <3>5 DEF Kept, Sess, TypeOK
    <3> QED
      BY <2>1, <3>2, <3>6 DEF Own, CarriedOK, Carried, Linking, Kept
  <2> QED
    BY <1>1, <2>1, <2>2, OthersNoted
\* requests that save their session, outside a link
<1>2. ASSUME NEW r \in Reqs, Create(r) \/ Note(r) \/ Asked(r) \/ Final(r) \/ Stash(r)
      PROVE  NotedOK'
  <2>1. /\ pc[r] \in {"create", "note", "asked", "tools", "stash"} /\ UNCHANGED <<heap, obj, lock>>
        /\ SaveSession(r)
    BY <1>2 DEF Create, Note, Asked, Final, Stash
  <2>2. pc'[r] \notin Locked \cup {"stash"} /\ pc[r] \notin Locked
    BY <1>0, <1>2 DEF Create, Note, Asked, Final, Stash, ByMessage, Goto, LocalType, Locked
  <2>3. Active(r) /\ ~HoldsLock(r) /\ ~HoldsLock(r)'
    BY <1>c, <1>d, <1>e, <2>1, <2>2
  <2>4. ASSUME SidOf[r] \notin shaken'
        PROVE  Own(r)'
    <3>1. Own(r) /\ SidOf[r] \notin shaken
      BY <1>2, <1>a, <1>b, <2>3, <2>4
    <3>2. Kept(SidOf[r])' = Sess(r).pending /\ Sess(r)' = Sess(r)
      BY <2>1, <2>4, SavedSession DEF Sess
    <3>3. noted'[SidOf[r]] \subseteq Sess(r).pending
      <4>1. noted[SidOf[r]] \subseteq Sess(r).pending
        BY <2>3, <3>1 DEF Own, CarriedOK, Carried
      <4>2. CASE Stash(r)
        <5>1. noted'[SidOf[r]] = noted[SidOf[r]] \cup {tool[r].item}
          BY <1>0, <4>2 DEF Stash, TypeOK
        <5>2. tool[r].item \in Sess(r).pending
          BY <2>3, <3>1, <4>2 DEF Own, CarriedOK, Stash
        <5> QED
          BY <4>1, <5>1, <5>2
      <4>3. CASE ~Stash(r)
        BY <1>2, <4>1, <4>3 DEF Create, Note, Asked, Final
      <4> QED
        BY <4>2, <4>3
    <3> QED
      BY <2>2, <2>3, <3>2, <3>3 DEF Own, CarriedOK, Carried
  <2> QED
    BY <1>2, <2>3, <2>4, OthersNoted
\* steps that change at most the user of the session
<1>3. ASSUME NEW r \in Reqs, Act(r), Active(r), pc[r] \notin Locked, pc'[r] \notin {"stash", "context"},
             UNCHANGED <<redis, noted, lock, obj>>, heap' = heap \/ \E u : SetUser(r, u)
      PROVE  NotedOK'
  <2>1. ~HoldsLock(r) /\ ~HoldsLock(r)'
    BY <1>3, <1>c DEF HoldsLock
  <2>2. Sess(r)'.pending = Sess(r).pending
    BY <1>3, UserOnly DEF Sess
  <2>3. Kept(SidOf[r])' = Kept(SidOf[r])
    BY <1>3 DEF Kept
  <2> QED
    BY <1>3, <1>b, <2>1, <2>2, <2>3, OwnKept, OthersNoted
<1>4. ASSUME NEW r \in Reqs,
             \/ Token(r) \/ FindByRouter(r) \/ FindByName(r) \/ Identify(r) \/ FindPrimary(r)
             \/ Infer(r) \/ DropSecondary(r) \/ MergeSession(r)
      PROVE  NotedOK'
  <2>1. /\ pc[r] \in {"token", "find", "identify", "both", "infer", "dropSecondary", "mergeSession"}
        /\ UNCHANGED <<redis, noted, lock, obj>>
    BY <1>4 DEF Token, FindByRouter, FindByName, Identify, FindPrimary, Infer, DropSecondary,
       MergeSession, sessions, history
  <2>2. pc'[r] \notin {"stash", "context"}
    BY <1>0, <1>4 DEF Token, FindByRouter, FindByName, Identify, FindPrimary, Infer,
       DropSecondary, MergeSession, LinkIfConfident, BeginLink, Goto, LocalType
  <2>3. heap' = heap \/ \E u : SetUser(r, u)
    BY <1>4 DEF Token, FindByRouter, FindByName, Identify, FindPrimary, Infer,
       DropSecondary, MergeSession, LinkIfConfident, BeginLink, sessions
  <2>4. Active(r) /\ pc[r] \notin Locked
    BY <1>e, <2>1 DEF Locked
  <2> QED
    BY <1>3, <1>4, <2>1, <2>2, <2>3, <2>4
<1>5. ASSUME NEW r \in Reqs, Consolidate(r) \/ DropContext(r)
      PROVE  NotedOK'
  <2>1. pc[r] \in {"alias", "dropContext"} /\ UNCHANGED <<redis, noted, lock, obj>>
    BY <1>5 DEF Consolidate, DropContext, sessions, history
  <2>2. /\ pc'[r] \notin {"stash", "context"}
        /\ heap' = heap \/ \E u : SetUser(r, u)
    <3>1. CASE Consolidate(r)
      <4>1. \/ heap' = heap /\ \E u : BeginSave(r, u)
            \/ BeginLink(r, uid[r], prof[r])
            \/ heap' = heap /\ Goto(r, "dropSecondary")
        BY <3>1, Zenon DEF Consolidate
      <4> QED
        BY <1>0, <4>1, SaveSteps DEF BeginLink, Goto, LocalType
    <3>2. CASE DropContext(r)
      BY <3>2, SaveSteps DEF DropContext, sessions
    <3> QED
      BY <1>5, <3>1, <3>2
  <2>3. Active(r) /\ pc[r] \notin Locked
    BY <1>e, <2>1 DEF Locked
  <2> QED
    BY <1>3, <1>5, <2>1, <2>2, <2>3
\* a link: the pending items move to the copy
<1>6. ASSUME NEW r \in Reqs, Lock(r)
      PROVE  NotedOK'
  <2>1. /\ pc[r] = "lock" /\ pc'[r] = "linkSession" /\ UNCHANGED <<redis, noted>>
        /\ prof'[r] = Linked(r) /\ uid[r] \in Users /\ prof[r] \in Profile
        /\ lock' = [lock EXCEPT ![uid[r]] = r]
    <3>1. pc[r] = "lock" /\ UNCHANGED <<redis, noted>> /\ lock' = [lock EXCEPT ![uid[r]] = r]
      BY <1>6 DEF Lock, history
    <3>2. pc'[r] = "linkSession" /\ prof'[r] = Linked(r)
      BY <1>0, <1>6 DEF Lock, Goto, LocalType
    <3>3. uid[r] \in Users /\ prof[r] \in Profile
      BY <3>1 DEF ReqsOK, ReqOK, Holding
    <3> QED
      BY <3>1, <3>2, <3>3
  <2>2. Active(r) /\ ~HoldsLock(r) /\ HoldsLock(r)'
    <3>1. lock'[uid[r]] = r
      BY <2>1 DEF TypeOK
    <3> QED
      BY <1>c, <1>e, <2>1, <3>1 DEF Locked, HoldsLock
  <2>3. ASSUME SidOf[r] \notin shaken'
        PROVE  Own(r)'
    <3>1. Own(r) /\ SidOf[r] \notin shaken
      BY <1>6, <1>a, <1>b, <2>2, <2>3
    <3>2. noted[SidOf[r]] \subseteq Sess(r).pending
      BY <2>2, <3>1 DEF Own, CarriedOK, Carried
    <3>3. Sess(r).pending \subseteq Linked(r).items
      BY <2>1 DEF Linked, Profile
    <3> QED
      BY <2>1, <2>2, <3>2, <3>3 DEF Own, CarriedOK, Carried, Linking
  <2> QED
    BY <1>6, <2>2, <2>3, OthersNoted
<1>7. ASSUME NEW r \in Reqs, LinkSession(r)
      PROVE  NotedOK'
  <2>1. pc[r] = "linkSession" /\ UNCHANGED <<heap, obj, lock, noted, prof>> /\ SaveSession(r)
    BY <1>7 DEF LinkSession, copies
  <2>2. pc'[r] \in {"upsert", "refused"}
    BY <1>7, SaveSteps DEF LinkSession
  <2>3. Active(r)
    BY <1>e, <2>1
  <2>4. ASSUME SidOf[r] \notin shaken'
        PROVE  Own(r)'
    <3>1. Own(r)
      BY <1>7, <1>b, <2>3, <2>4
    <3>2. Kept(SidOf[r])' = Sess(r).pending /\ Sess(r)' = Sess(r)
      BY <2>1, <2>4, SavedSession DEF Sess
    <3>3. Linking(r)' = Linking(r) /\ Carried(r)' = Carried(r)
      BY <2>1, <3>2 DEF Linking, Carried, HoldsLock
    <3>4. noted'[SidOf[r]] \subseteq Carried(r)
      BY <2>1, <2>3, <3>1 DEF Own, CarriedOK
    <3>5. Carried(r) \subseteq Sess(r).pending \cup Linking(r)
      BY DEF Carried, Linking
    <3> QED
      BY <2>2, <3>2, <3>3, <3>4, <3>5 DEF Own, CarriedOK
  <2> QED
    BY <1>7, <2>3, <2>4, OthersNoted
<1>8. ASSUME NEW r \in Reqs, Refused(r) \/ NotSaved(r) \/ SaveRaises(r)
      PROVE  NotedOK'
  <2>1. SidOf[r] \in shaken' /\ pc[r] \in {"refused", "upsert"}
    BY <1>8 DEF Refused, NotSaved, SaveRaises
  <2> QED
    BY <1>8, <1>e, <2>1, OthersNoted
<1>9. ASSUME NEW r \in Reqs, Upsert(r)
      PROVE  NotedOK'
  <2>1. pc[r] = "upsert" /\ pc'[r] = "context" /\ UNCHANGED <<redis, heap, obj, lock, prof>>
    BY <1>0, <1>9 DEF Upsert, sessions, copies, Goto, LocalType
  <2>2. Active(r) /\ Sess(r)' = Sess(r) /\ Linking(r)' = Linking(r) /\ Carried(r)' = Carried(r)
        /\ (HoldsLock(r)' <=> HoldsLock(r)) /\ Kept(SidOf[r])' = Kept(SidOf[r])
    BY <1>e, <2>1 DEF Sess, Linking, Carried, HoldsLock, Kept
  <2>3. noted'[SidOf[r]] = IF HoldsLock(r) THEN {} ELSE noted[SidOf[r]]
    <3>1. HoldsLock(r) <=> lock[uid[r]] = r
      <4>1. uid[r] \in Users
        BY <2>1 DEF ReqsOK, ReqOK, Holding
      <4> QED
        BY <4>1 DEF HoldsLock, LocksOK
    <3> QED
      BY <1>0, <1>9, <3>1 DEF Upsert, Report, TypeOK
  <2>4. ASSUME SidOf[r] \notin shaken'
        PROVE  Own(r)'
    <3>1. Own(r)
      BY <1>9, <1>b, <2>2, <2>4
    <3> QED
      BY <2>1, <2>2, <2>3, <3>1 DEF Own, CarriedOK
  <2> QED
    BY <1>9, <2>2, <2>4, OthersNoted
<1>10. ASSUME NEW r \in Reqs, Context(r)
       PROVE  NotedOK'
  <2>1. /\ pc[r] = "context" /\ UNCHANGED <<redis, obj, noted>>
        /\ pc'[r] \in {"tools", "lock", "mergeSession"}
        /\ heap' = heap \/ heap' = [heap EXCEPT ![obj[r]].user = uid[r]]
    BY <1>0, <1>10 DEF Context, Saved, history, Goto, LocalType
  <2>2. Active(r) /\ ~HoldsLock(r)'
    BY <1>d, <1>e, <2>1 DEF Locked
  <2>3. Kept(SidOf[r])' = Kept(SidOf[r]) /\ Sess(r)'.pending = Sess(r).pending
    <3>1. Sess(r)'.pending = Sess(r).pending
      BY <2>1, UserOnly DEF SetUser, Sess
    <3> QED
      BY <2>1, <3>1 DEF Kept
  <2>4. ASSUME SidOf[r] \notin shaken'
        PROVE  Own(r)'
    <3>1. Own(r)
      BY <1>10, <1>b, <2>2, <2>4
    <3>2. noted[SidOf[r]] \subseteq Kept(SidOf[r]) /\ noted[SidOf[r]] \subseteq Sess(r).pending
      BY <2>1, <2>2, <3>1 DEF Own, CarriedOK, Carried, Linking
    <3> QED
      BY <2>1, <2>2, <2>3, <3>2 DEF Own, CarriedOK, Carried
  <2> QED
    BY <1>10, <2>2, <2>4, OthersNoted
\* the agent's calls
<1>11. ASSUME NEW r \in Reqs, CallTool(r) \/ Extract(r) \/ Update(r)
       PROVE  NotedOK'
  <2>1. pc[r] \in {"tools", "update"} /\ UNCHANGED <<redis, obj, lock, noted>>
    BY <1>11 DEF CallTool, Extract, Update, sessions, history
  <2>2. /\ pc'[r] # "context"
        /\ heap' = heap \/ \E i : heap' = [heap EXCEPT ![obj[r]].pending = @ \cup {i}]
        /\ pc'[r] = "stash" =>
             heap' = [heap EXCEPT ![obj[r]].pending = @ \cup {tool'[r].item}]
    <3>1. CASE CallTool(r)
      <4>1. PICK t, step :
              /\ t \in Tools[r]
              /\ tool' = [tool EXCEPT ![r] = t] /\ Goto(r, step)
              /\ heap' = IF step = "stash" THEN [heap EXCEPT ![obj[r]].pending = @ \cup {t.item}]
                         ELSE heap
              /\ step \in {"identify", "infer", "lookup", Operation(t, Sess(r).user # None)}
        BY <3>1 DEF CallTool
      <4>2. Operation(t, Sess(r).user # None) \in {"tools", "update", "stash"}
        BY DEF Operation
      <4> QED
        BY <1>0, <4>1, <4>2 DEF Goto, LocalType
    <3>2. CASE Extract(r)
      BY <1>0, <3>2 DEF Extract, sessions, Goto, LocalType
    <3>3. CASE Update(r)
      <4>1. \/ heap' = heap /\ (Goto(r, "tools") \/ \E u : BeginSave(r, u))
            \/ /\ heap' = [heap EXCEPT ![obj[r]].pending = @ \cup {tool[r].item}]
               /\ Goto(r, "stash")
        BY <3>3 DEF Update
      <4>2. tool' = tool
        BY <3>3 DEF Update
      <4> QED
        BY <1>0, <4>1, <4>2, SaveSteps DEF Goto, LocalType
    <3> QED
      BY <1>11, <3>1, <3>2, <3>3
  <2>3. Active(r) /\ ~HoldsLock(r) /\ ~HoldsLock(r)' /\ Kept(SidOf[r])' = Kept(SidOf[r])
    BY <1>c, <1>e, <2>1 DEF Locked, HoldsLock, Kept
  <2>4. /\ Sess(r).pending \subseteq Sess(r)'.pending
        /\ pc'[r] = "stash" => tool'[r].item \in Sess(r)'.pending
    BY <2>1, <2>2 DEF Sess, TypeOK, Session
  <2> QED
    BY <1>11, <1>b, <2>1, <2>2, <2>3, <2>4, OwnKept, OthersNoted
\* deletions, by the agent or by an admin
<1>12. ASSUME NEW r \in Reqs, ~Active(r), ~Active(r)', Act(r),
              UNCHANGED <<redis, noted, lock, obj, heap, prof, shaken, tool>>
       PROVE  NotedOK'
  <2>1. \A q \in Reqs : Linking(q)' = Linking(q) /\ Sess(q)' = Sess(q) /\ Carried(q)' = Carried(q)
    BY <1>12 DEF Linking, Sess, Carried, HoldsLock
  <2>2. \A s \in Sids : Kept(s)' = Kept(s)
    BY <1>12 DEF Kept
  <2>3. \A q \in Reqs \ {r} : pc'[q] = pc[q] /\ (Active(q)' <=> Active(q))
    BY <1>0, <1>12, <1>a, Frame
  <2>4. ASSUME NEW q \in Reqs, Active(q)', SidOf[q] \notin shaken'
        PROVE  CarriedOK(q)'
    <3>1. q # r /\ Active(q) /\ CarriedOK(q)
      BY <1>12, <2>3, <2>4 DEF NotedOK
    <3> QED
      BY <1>12, <2>1, <2>3, <3>1 DEF CarriedOK, HoldsLock
  <2> QED
    BY <1>12, <2>1, <2>2, <2>4 DEF NotedOK
<1>13. ASSUME NEW r \in Reqs, Admin(r)
       PROVE  NotedOK'
  <2>1. UNCHANGED <<redis, noted, lock, obj, heap, prof, shaken, tool>>
    BY <1>13 DEF Admin, sessions, copies, history
  <2>2. ~Active(r) /\ ~Active(r)'
    <3>1. pc[r] = "new" /\ Kind(r)' = "admin"
      BY <1>0, <1>13 DEF Admin, Kind, LocalType
    <3> QED
      BY <3>1 DEF Active
  <2> QED
    BY <1>12, <1>13, <2>1, <2>2
<1>14. ASSUME NEW r \in Reqs, Lookup(r) \/ Erase(r) \/ EraseContext(r)
       PROVE  NotedOK'
  <2>1. /\ pc[r] \in {"lookup", "erase", "eraseContext"}
        /\ UNCHANGED <<redis, noted, lock, obj, prof, shaken, tool, msg>>
    BY <1>14 DEF Lookup, Erase, EraseContext, sessions, copies
  <2>2. /\ pc'[r] \notin {"stash", "context"}
        /\ heap' = heap \/ (Kind(r) # "admin" /\ \E u : SetUser(r, u))
    BY <1>0, <1>14 DEF Lookup, Erase, EraseContext, sessions, Goto, LocalType, Kind
  <2>3. CASE Kind(r) # "admin"
    <3>1. Active(r) /\ pc[r] \notin Locked
      BY <2>1, <2>3 DEF Active, Locked
    <3> QED
      BY <1>3, <1>14, <2>1, <2>2, <3>1
  <2>4. CASE Kind(r) = "admin"
    <3>1. ~Active(r) /\ ~Active(r)'
      BY <2>1, <2>4 DEF Active, Kind
    <3> QED
      BY <1>12, <1>14, <2>1, <2>2, <2>4, <3>1
  <2> QED
    BY <2>3, <2>4
<1>15. ASSUME NEW s \in Sids, DeleteSession(s) \/ Expire(s)
       PROVE  NotedOK'
  <2>1. /\ UNCHANGED <<pc, msg, tool, prof, heap, obj, lock, noted>> /\ shaken' = shaken \cup {s}
        /\ \A t \in Sids : t # s => redis'[t] = redis[t]
    BY <1>15 DEF DeleteSession, Expire, control, copies, TypeOK
  <2>2. \A q \in Reqs :
          /\ Linking(q)' = Linking(q) /\ CarriedOK(q)' = CarriedOK(q)
          /\ Active(q)' = Active(q)
    BY <2>1 DEF Linking, Sess, Carried, CarriedOK, HoldsLock, Active, Kind
  <2>3. \A t \in Sids : t # s => Kept(t)' = Kept(t)
    BY <2>1 DEF Kept
  <2> QED
    BY <2>1, <2>2, <2>3 DEF NotedOK
<1>16. ASSUME UNCHANGED vars
       PROVE  NotedOK'
  <2>1. UNCHANGED <<pc, msg, tool, prof, heap, obj, lock, noted, shaken, redis>>
    BY <1>16 DEF vars, sessions, control, copies, history
  <2> QED
    BY <2>1 DEF NotedOK, Linking, Sess, Carried, CarriedOK, HoldsLock, Active, Kind, Kept
<1> QED
  BY <1>1, <1>2, <1>4, <1>5, <1>6, <1>7, <1>8, <1>9, <1>10, <1>11, <1>13, <1>14, <1>15, <1>16
     DEF Next

-----------------------------------------------------------------------------
(* The items of profiles *)

Writing == {"alias", "lock", "linkSession", "upsert", "dropSecondary", "dropContext"}
Holds(r) == pc[r] \in Writing \/ (pc[r] \in {"context", "refused"} /\ then[r] = "lock")
Merging(r) == pc[r] \in {"dropContext", "upsert", "refused"}
Gone(r) == IF tool[r] # None /\ tool[r].call = "forget" THEN {tool[r].item} ELSE {}

\* A copy that is going to be written has what its users were promised.
CopyOK(r) ==
  Holds(r) =>
    /\ uid[r] # None /\ uid[r] \notin stale => acked[uid[r]] \ Gone(r) \subseteq prof[r].items
    /\ other[r] # None /\ other[r] \notin stale => acked[other[r]] \subseteq prof[r].items

\* So has a profile, unless it is being merged into another.
AckedOK(u) ==
  \/ acked[u] = {}
  \/ profiles[u] # None /\ acked[u] \subseteq profiles[u].items
  \/ profiles[u] = None /\ \E r \in Reqs : other[r] = u /\ Merging(r)

\* A deleted user was promised nothing, and no copy of it is past the check.
DeletedOK ==
  /\ \A u \in deleted \ stale : acked[u] = {}
  /\ \A r \in Reqs : pc[r] = "upsert" /\ uid[r] \in deleted => uid[r] \in stale
  /\ \A r \in Reqs : pc[r] \in {"erase", "eraseContext"} => uid[r] \in deleted

ItemsOK ==
  /\ \A r \in Reqs : CopyOK(r)
  /\ \A u \in Users \ stale : AckedOK(u)
  /\ DeletedOK

LEMMA HoldersAre ==
  ASSUME NEW u, NEW r \in Reqs, Holds(r), u = uid[r] \/ u = other[r]
  PROVE  r \in Holders(u)
BY DEF Holds, Holders, Writing

\* A profile that is read has what was promised; an unused id was promised nothing.
LEMMA FreshRead ==
  ASSUME ItemsOK, NEW u \in Users, u \notin stale, profiles[u] # None
  PROVE  acked[u] \subseteq profiles[u].items
BY DEF ItemsOK, AckedOK

LEMMA UnusedRead ==
  ASSUME ItemsOK, NEW u \in Unused, u \notin stale
  PROVE  u \in Users /\ acked[u] = {} /\ u \notin deleted
BY DEF ItemsOK, AckedOK, Unused

\* Steps that change neither a profile nor what was promised.
LEMMA ItemsKept ==
  ASSUME TypeOK, ReqsOK, ItemsOK, NEW r \in Reqs, Act(r),
         UNCHANGED <<acked, profiles, deleted>>, stale \subseteq stale',
         CopyOK(r)',
         other[r] # None /\ Merging(r) =>
           other[r] \in stale' \/ (other'[r] = other[r] /\ Merging(r)'),
         pc'[r] = "upsert" => uid'[r] \notin deleted \/ uid'[r] \in stale',
         pc'[r] \in {"erase", "eraseContext"} =>
           pc[r] \in {"erase", "eraseContext"} /\ uid'[r] = uid[r]
  PROVE  ItemsOK'
<1>0. \A q \in Reqs \ {r} :
        /\ pc'[q] = pc[q] /\ then'[q] = then[q] /\ tool'[q] = tool[q]
        /\ uid'[q] = uid[q] /\ prof'[q] = prof[q] /\ other'[q] = other[q]
  BY Frame DEF TypeOK, LocalType
<1>1. ASSUME NEW q \in Reqs
      PROVE  CopyOK(q)'
  <2>1. CASE q # r
    BY <1>0, <2>1 DEF ItemsOK, CopyOK, Holds, Gone
  <2> QED
    BY <2>1
<1>2. ASSUME NEW u \in Users, u \notin stale'
      PROVE  AckedOK(u)'
  <2>1. AckedOK(u)
    BY <1>2 DEF ItemsOK
  <2>2. ASSUME NEW q \in Reqs, other[q] = u, Merging(q)
        PROVE  other'[q] = u /\ Merging(q)'
    BY <1>0, <1>2, <2>2, NoneAssumption DEF Merging
  <2> QED
    BY <2>1, <2>2 DEF AckedOK
<1>3. DeletedOK'
  BY <1>0 DEF ItemsOK, DeletedOK
<1> QED
  BY <1>1, <1>2, <1>3 DEF ItemsOK

\* A copy that was just read of a profile, changed or not, is in order.
LEMMA LinkCopy ==
  ASSUME TypeOK, ReqsOK, ItemsOK, NEW r \in Reqs, NEW u \in Users, NEW p \in Profile,
         uid'[r] = u, prof'[r] = p, other'[r] = None, UNCHANGED <<acked, stale>>,
         u \notin stale => acked[u] \ Gone(r)' \subseteq p.items
  PROVE  CopyOK(r)'
BY DEF CopyOK

LEMMA LinksItems ==
  ASSUME TypeOK, ReqsOK, ItemsOK, NEW r \in Reqs, [Next]_vars,
         Token(r) \/ FindByRouter(r) \/ FindByName(r) \/ Identify(r) \/ Infer(r)
  PROVE  ItemsOK'
<1>0. LocalType /\ LocalType' /\ ReqsOK' /\ Act(r)
  BY ReqsStep DEF TypeOK, LocalType, Act, Step
<1>1. /\ pc[r] \in {"token", "find", "identify", "infer"} /\ other[r] = None
      /\ UNCHANGED <<acked, profiles, deleted, stale, other, tool>>
  <2>1. /\ pc[r] \in {"token", "find", "identify", "infer"}
        /\ UNCHANGED <<acked, profiles, deleted, stale, other, tool>>
    BY DEF Token, FindByRouter, FindByName, Identify, Infer, store, history
  <2> QED
    BY <2>1 DEF ReqsOK, ReqOK, Saving
<1>2. \/ \E u \in Users : profiles[u] # None /\ BeginLink(r, u, profiles[u])
      \/ \E u \in Unused : \E n : BeginLink(r, u, New({n}))
      \/ \E l \in {"infer", "note", "identify", "asked", "tools"} : Goto(r, l)
  <2>1. CASE Token(r)
    <3>1. msg[r].user \in Users
      BY <2>1, MessagesAssumption DEF Token, ReqsOK, ReqOK, Kind
    <3> QED
      BY <2>1, <3>1 DEF Token
  <2>2. CASE FindByRouter(r) \/ FindByName(r)
    BY <2>2, FindUsers DEF FindByRouter, FindByName, LinkIfConfident
  <2>3. CASE Identify(r)
    BY <2>3, FindUsers DEF Identify
  <2>4. CASE Infer(r)
    BY <2>4 DEF Infer, TypeOK
  <2> QED
    BY <2>1, <2>2, <2>3, <2>4
<1>3. pc'[r] \in {"lock", "infer", "note", "identify", "asked", "tools"} /\ CopyOK(r)'
  <2>1. ASSUME NEW u \in Users, profiles[u] # None, BeginLink(r, u, profiles[u])
        PROVE  pc'[r] = "lock" /\ CopyOK(r)'
    <3>1. profiles[u] \in Profile
      BY <2>1 DEF TypeOK
    <3> QED
      BY <1>1, <2>1, <3>1, LinkSteps, LinkCopy, FreshRead
  <2>2. ASSUME NEW u \in Unused, NEW n, BeginLink(r, u, New({n}))
        PROVE  pc'[r] = "lock" /\ CopyOK(r)'
    <3>1. pc'[r] = "lock" /\ uid'[r] = u
      BY <1>0, <2>2 DEF BeginLink, Goto, LocalType
    <3> QED
      BY <1>1, <2>2, <3>1, UnusedRead DEF CopyOK
  <2>3. ASSUME NEW l \in {"infer", "note", "identify", "asked", "tools"}, Goto(r, l)
        PROVE  pc'[r] = l /\ CopyOK(r)'
    BY <1>0, <2>3 DEF Goto, LocalType, CopyOK, Holds, Writing
  <2> QED
    BY <1>2, <2>1, <2>2, <2>3
<1> QED
  BY <1>0, <1>1, <1>3, ItemsKept

LEMMA AliasItems ==
  ASSUME TypeOK, ReqsOK, ItemsOK, NEW r \in Reqs, [Next]_vars,
         FindPrimary(r) \/ Consolidate(r)
  PROVE  ItemsOK'
<1>0. LocalType /\ LocalType' /\ ReqsOK' /\ Act(r)
  BY ReqsStep DEF TypeOK, LocalType, Act, Step
<1>a. \A u \in Users : profiles[u] # None => profiles[u] \in Profile
  BY DEF TypeOK
<1>b. /\ pc[r] \in {"both", "alias"} /\ other[r] = None
      /\ UNCHANGED <<acked, profiles, deleted, stale, tool>>
  <2>1. /\ pc[r] \in {"both", "alias"}
        /\ UNCHANGED <<acked, profiles, deleted, stale, tool>>
    BY DEF FindPrimary, Consolidate, store, history
  <2> QED
    BY <2>1 DEF ReqsOK, ReqOK, Saving
<1>c. ASSUME CopyOK(r)', pc'[r] \in {"alias", "lock", "dropSecondary", "refused"}
                         \/ (pc'[r] = "upsert" /\ uid'[r] \notin deleted)
      PROVE  ItemsOK'
  BY <1>0, <1>b, <1>c, ItemsKept
<1>1. CASE FindPrimary(r)
  <2>1. PICK u : /\ Find(msg[r].name, u) /\ other' = other
                 /\ uid' = [uid EXCEPT ![r] = u]
                 /\ prof' = [prof EXCEPT ![r] = IF u = None THEN None ELSE profiles[u]]
                 /\ pc' = [pc EXCEPT ![r] = "alias"]
    BY <1>1 DEF FindPrimary, Goto
  <2>2. u = None \/ (u \in Users /\ profiles[u] # None)
    BY <2>1, FindUsers
  <2>3. CopyOK(r)'
    BY <1>0, <1>b, <2>1, <2>2, FreshRead DEF CopyOK, LocalType
  <2> QED
    BY <1>0, <1>c, <2>1, <2>3 DEF LocalType
<1>2. CASE Consolidate(r)
  <2> DEFINE both == {msg[r].name, msg[r].alias}
  <2>0. pc[r] = "alias" /\ CopyOK(r) /\ Holds(r)
    BY <1>2 DEF Consolidate, ItemsOK, Holds, Writing
  <2>1. PICK a : /\ Find(msg[r].alias, a)
                 /\ \/ /\ prof[r] # None
                       /\ BeginLink(r, uid[r], prof[r])
                       /\ UNCHANGED <<other, then>>
                    \/ /\ prof[r] # None /\ a # None
                       /\ prof' = [prof EXCEPT ![r] = Merge(@, profiles[a])]
                       /\ other' = [other EXCEPT ![r] = a]
                       /\ Goto(r, "dropSecondary")
                       /\ UNCHANGED uid
                    \/ /\ prof[r] # None
                       /\ uid' = [uid EXCEPT ![r] = uid[r]]
                       /\ prof' = [prof EXCEPT ![r] = [prof[r] EXCEPT !.names = @ \cup {msg[r].alias}]]
                       /\ BeginSave(r, uid[r]) /\ UNCHANGED other
                    \/ /\ a # None
                       /\ uid' = [uid EXCEPT ![r] = a]
                       /\ prof' = [prof EXCEPT ![r] = [profiles[a] EXCEPT !.names = @ \cup both]]
                       /\ BeginSave(r, a) /\ UNCHANGED other
                    \/ \E v \in Unused :
                         /\ uid' = [uid EXCEPT ![r] = v]
                         /\ prof' = [prof EXCEPT ![r] = New(both)]
                         /\ BeginSave(r, v) /\ UNCHANGED other
    BY <1>2, Zenon DEF Consolidate
  <2>2. a # None => a \in Users /\ profiles[a] # None /\ profiles[a] \in Profile
    BY <1>a, <2>1, FindUsers
  <2>3. prof[r] # None =>
          /\ uid[r] \in Users /\ prof[r] \in Profile
          /\ uid[r] \notin stale => acked[uid[r]] \ Gone(r) \subseteq prof[r].items
    BY <1>0, <2>0, NoneAssumption DEF ReqsOK, ReqOK, LocalType, CopyOK
  <2>g. Gone(r)' = Gone(r)
    BY <1>b DEF Gone
  <2>4. CASE prof[r] # None /\ BeginLink(r, uid[r], prof[r]) /\ UNCHANGED other
    <3>1. pc'[r] = "lock" /\ uid'[r] = uid[r] /\ prof'[r] = prof[r]
      BY <2>3, <2>4, LinkSteps
    <3>2. CopyOK(r)'
      BY <1>b, <2>3, <2>4, <2>g, <3>1 DEF CopyOK
    <3> QED
      BY <1>c, <3>1, <3>2
  <2>5. CASE /\ prof[r] # None /\ a # None
             /\ prof' = [prof EXCEPT ![r] = Merge(@, profiles[a])]
             /\ other' = [other EXCEPT ![r] = a]
             /\ Goto(r, "dropSecondary")
             /\ UNCHANGED uid
    <3>1. /\ pc'[r] = "dropSecondary" /\ uid'[r] = uid[r] /\ other'[r] = a
          /\ prof'[r] = Merge(prof[r], profiles[a])
      BY <1>0, <2>5 DEF Goto, LocalType
    <3>2. Merge(prof[r], profiles[a]).items = prof[r].items \cup profiles[a].items
      BY DEF Merge
    <3>3. a \notin stale => acked[a] \subseteq profiles[a].items
      BY <2>2, <2>5, FreshRead
    <3>4. CopyOK(r)'
      BY <1>b, <2>3, <2>5, <2>g, <3>1, <3>2, <3>3 DEF CopyOK
    <3> QED
      BY <1>c, <3>1, <3>4
  <2>6. ASSUME NEW v \in Users, NEW p,
               uid' = [uid EXCEPT ![r] = v], prof' = [prof EXCEPT ![r] = p],
               v \notin stale => acked[v] \ Gone(r) \subseteq p.items,
               BeginSave(r, v), UNCHANGED other
        PROVE  ItemsOK'
    <3>1. uid'[r] = v /\ prof'[r] = p
      BY <1>0, <2>6 DEF LocalType
    <3>2. CopyOK(r)'
      BY <1>b, <2>6, <2>g, <3>1 DEF CopyOK
    <3> QED
      BY <1>c, <2>6, <3>1, <3>2, SaveSteps
  <2>7. prof[r] # None => [prof[r] EXCEPT !.names = @ \cup {msg[r].alias}].items = prof[r].items
    BY <2>3 DEF Profile
  <2>8. a # None => /\ [profiles[a] EXCEPT !.names = @ \cup both].items = profiles[a].items
                    /\ a \notin stale => acked[a] \subseteq profiles[a].items
    BY <2>2, FreshRead DEF Profile
  <2>9. \A v \in Unused : v \in Users /\ (v \notin stale => acked[v] = {})
    BY UnusedRead DEF Unused
  <2> HIDE DEF both
  <2> QED
    BY <2>1, <2>2, <2>3, <2>4, <2>5, <2>6, <2>7, <2>8, <2>9
<1> QED
  BY <1>1, <1>2

LEMMA QuietItems ==
  ASSUME TypeOK, ReqsOK, ItemsOK, NEW r \in Reqs, [Next]_vars,
         \/ Arrive(r) \/ Admin(r) \/ CallTool(r) \/ Extract(r) \/ Create(r) \/ Note(r) \/ Asked(r)
         \/ Lock(r) \/ LinkSession(r) \/ SaveRaises(r) \/ Context(r) \/ DropContext(r)
         \/ MergeSession(r) \/ Update(r) \/ Stash(r) \/ EraseContext(r) \/ Final(r)
  PROVE  ItemsOK'
<1>0. LocalType /\ LocalType' /\ ReqsOK' /\ Act(r)
  BY ReqsStep DEF TypeOK, LocalType, Act, Step
<1>1. UNCHANGED <<acked, profiles, deleted>> /\ stale \subseteq stale'
  BY DEF Arrive, Admin, CallTool, Extract, Create, Note, Asked, Lock, LinkSession, SaveRaises,
     Context, DropContext, MergeSession, Update, Stash, EraseContext, Final, store, history
\* requests without a copy, before and after
<1>2. CASE \/ Arrive(r) \/ Admin(r) \/ CallTool(r) \/ Extract(r) \/ Create(r) \/ Note(r)
           \/ Asked(r) \/ MergeSession(r) \/ Stash(r) \/ EraseContext(r) \/ Final(r)
  <2>1. /\ pc[r] \in {"new", "tools", "create", "note", "asked", "mergeSession", "stash", "eraseContext"}
    BY <1>2 DEF Arrive, Admin, CallTool, Extract, Create, Note, Asked, MergeSession, Stash,
       EraseContext, Final
  <2>2. pc'[r] \notin Writing \cup {"context", "refused", "erase", "eraseContext"}
    <3>1. CASE CallTool(r)
      <4>1. PICK t, l :
              /\ t \in Tools[r] /\ pc' = [pc EXCEPT ![r] = l]
              /\ l \in {"identify", "infer", "lookup", Operation(t, Sess(r).user # None)}
        BY <3>1 DEF CallTool, Goto
      <4>2. Operation(t, Sess(r).user # None) \in {"tools", "update", "stash"}
        BY DEF Operation
      <4> QED
        BY <1>0, <4>1, <4>2 DEF LocalType, Writing
    <3>2. CASE Arrive(r) \/ Admin(r) \/ Extract(r) \/ Create(r)
      <4>0. pc \in [Reqs -> Steps]
        BY <1>0 DEF LocalType
      <4>1. \E l : pc' = [pc EXCEPT ![r] = l]
              /\ l \in {"token", "find", "both", "infer", "tools", "create", "lookup", "update"}
        BY <3>2 DEF Arrive, Admin, Extract, Create, ByMessage, Goto
      <4> QED
        BY <4>0, <4>1 DEF Writing
    <3>3. CASE \/ Note(r) \/ Asked(r) \/ MergeSession(r) \/ Stash(r) \/ EraseContext(r) \/ Final(r)
      BY <1>0, <3>3 DEF Note, Asked, MergeSession, Stash, EraseContext, Final, Goto, LocalType,
         Writing
    <3> QED
      BY <1>2, <3>1, <3>2, <3>3
  <2>3. CopyOK(r)'
    BY <2>2 DEF CopyOK, Holds
  <2> QED
    BY <1>0, <1>1, <2>1, <2>2, <2>3, ItemsKept DEF Merging, Writing
\* requests that go on with their copy
<1>3. CASE Lock(r) \/ LinkSession(r) \/ DropContext(r)
  <2>1. /\ pc[r] \in {"lock", "linkSession", "dropContext"}
        /\ UNCHANGED <<uid, other, tool, then, stale>> /\ CopyOK(r) /\ Holds(r)
    <3>1. /\ pc[r] \in {"lock", "linkSession", "dropContext"}
          /\ UNCHANGED <<uid, other, tool, then, stale>>
      BY <1>3 DEF Lock, LinkSession, DropContext, copies, history
    <3> QED
      BY <3>1 DEF ItemsOK, Holds, Writing
  <2>2. /\ pc'[r] \in {"linkSession", "upsert", "refused"}
        /\ pc'[r] = "upsert" => uid'[r] \notin deleted
        /\ pc[r] = "dropContext" => Merging(r)'
    BY <1>0, <1>3, <2>1, SaveSteps DEF Lock, LinkSession, DropContext, Goto, LocalType, Merging
  <2>3. prof[r].items \subseteq prof'[r].items
    <3>1. CASE Lock(r)
      <4>1. prof'[r] = Linked(r) /\ prof[r] \in Profile
        BY <1>0, <3>1 DEF Lock, LocalType, ReqsOK, ReqOK, Holding
      <4> QED
        BY <4>1 DEF Linked, Profile
    <3>2. CASE LinkSession(r) \/ DropContext(r)
      BY <3>2 DEF LinkSession, DropContext, copies
    <3> QED
      BY <1>3, <3>1, <3>2
  <2>4. CopyOK(r)'
    BY <1>1, <2>1, <2>3 DEF CopyOK, Gone
  <2> QED
    BY <1>0, <1>1, <2>1, <2>2, <2>4, ItemsKept DEF Merging
<1>4. CASE Context(r)
  <2>1. /\ pc[r] = "context" /\ pc'[r] = then[r] /\ other'[r] = None /\ UNCHANGED <<tool, stale>>
        /\ then[r] = "lock" => uid'[r] = uid[r] /\ prof'[r] = prof[r]
    BY <1>0, <1>4 DEF Context, Saved, Goto, LocalType, history
  <2>2. CopyOK(r) /\ then[r] \in {"lock", "tools", "mergeSession"}
    BY <1>0 DEF ItemsOK, LocalType
  <2>3. CopyOK(r)'
    BY <1>1, <2>1, <2>2 DEF CopyOK, Holds, Gone, Writing
  <2> QED
    BY <1>0, <1>1, <2>1, <2>2, <2>3, ItemsKept DEF Merging
<1>5. CASE SaveRaises(r)
  <2>1. /\ pc[r] = "upsert" /\ pc'[r] \in {"failed", "tools"}
        /\ stale' = stale \cup {u \in Users : u \in {uid[r], other[r]}}
    BY <1>0, <1>5 DEF SaveRaises, Raised, Goto, LocalType
  <2>2. other[r] # None => other[r] \in stale'
    BY <1>0, <2>1 DEF LocalType
  <2>3. CopyOK(r)'
    BY <2>1 DEF CopyOK, Holds, Writing
  <2> QED
    BY <1>0, <1>1, <2>1, <2>2, <2>3, ItemsKept
\* a read and a change
<1>6. CASE Update(r)
  <2>1. pc[r] = "update" /\ UNCHANGED <<tool, other, stale>> /\ other[r] = None
    <3>1. pc[r] = "update" /\ UNCHANGED <<tool, other, stale>>
      BY <1>6 DEF Update, history
    <3> QED
      BY <3>1 DEF ReqsOK, ReqOK, Saving
  <2>2. \/ pc'[r] \in {"tools", "stash"}
        \/ \E u \in Users :
             /\ profiles[u] # None /\ BeginSave(r, u)
             /\ uid'[r] = u /\ prof'[r] = Changed(tool[r], profiles[u])
    <3>1. \/ Goto(r, "tools") \/ Goto(r, "stash")
          \/ \E u \in Users :
               /\ profiles[u] # None /\ BeginSave(r, u)
               /\ uid' = [uid EXCEPT ![r] = u]
               /\ prof' = [prof EXCEPT ![r] = Changed(tool[r], profiles[u])]
      BY <1>6 DEF Update
    <3> QED
      BY <1>0, <3>1 DEF Goto, LocalType
  <2>3. CASE pc'[r] \in {"tools", "stash"}
    <3>1. CopyOK(r)'
      BY <2>3 DEF CopyOK, Holds, Writing
    <3> QED
      BY <1>0, <1>1, <2>1, <2>3, <3>1, ItemsKept DEF Merging
  <2>4. ASSUME NEW u \in Users, profiles[u] # None, BeginSave(r, u),
               uid'[r] = u, prof'[r] = Changed(tool[r], profiles[u])
        PROVE  ItemsOK'
    <3>1. profiles[u] \in Profile
      BY <2>4 DEF TypeOK
    <3>2. tool[r] # None /\ tool[r].call \in {"remember", "forget", "alias", "extract"}
      BY <2>1 DEF ReqsOK, ReqOK
    <3>3. profiles[u].items \ Gone(r) \subseteq Changed(tool[r], profiles[u]).items
      BY <3>1, <3>2 DEF Changed, Gone, Profile
    <3>4. u \notin stale => acked[u] \subseteq profiles[u].items
      BY <2>4, FreshRead
    <3>5. CopyOK(r)'
      BY <1>1, <2>1, <2>4, <3>3, <3>4 DEF CopyOK, Gone
    <3> QED
      BY <1>0, <1>1, <2>1, <2>4, <3>5, ItemsKept, SaveSteps
  <2> QED
    BY <2>2, <2>3, <2>4
<1> QED
  BY <1>2, <1>3, <1>4, <1>5, <1>6

\* What Report reports of the user that is saved, beside what it had
Told(r) == IF then[r] = "tools" /\ tool[r] # None /\ tool[r].call = "remember"
           THEN {tool[r].item} ELSE {}
Merged(r) == IF other[r] = None THEN {} ELSE acked[other[r]]
Pending(r) == IF lock[uid[r]] = r /\ SidOf[r] \notin shaken THEN noted[SidOf[r]] ELSE {}

LEMMA ReportIs ==
  ASSUME TypeOK, NEW r \in Reqs, uid[r] \in Users, Report(r)
  PROVE  /\ acked'[uid[r]] \subseteq ((acked[uid[r]] \cup Told(r)) \ Gone(r)) \cup Merged(r) \cup Pending(r)
         /\ \A v \in Users : v # uid[r] => acked'[v] = IF v = other[r] THEN {} ELSE acked[v]
<1> DEFINE new(v) == CASE v = uid[r] -> ((acked[uid[r]] \cup Told(r)) \ Gone(r)) \cup Merged(r) \cup Pending(r)
                       [] v = other[r] -> {}
                       [] OTHER -> acked[v]
<1>1. acked' = [v \in Users |-> new(v)]
  BY Zenon DEF Report, Told, Merged, Pending, Gone
<1>2. new(uid[r]) \subseteq ((acked[uid[r]] \cup Told(r)) \ Gone(r)) \cup Merged(r) \cup Pending(r)
  OBVIOUS
<1>3. ASSUME NEW v \in Users, v # uid[r]
      PROVE  new(v) = IF v = other[r] THEN {} ELSE acked[v]
  BY <1>3
<1> HIDE DEF new
<1> QED
  BY <1>1, <1>2, <1>3

\* The promises of a save: of the users it writes, and of all the others
LEMMA SaveItems ==
  ASSUME TypeOK, ReqsOK, ItemsOK, NEW r \in Reqs, Act(r), [Next]_vars,
         pc[r] \in {"upsert", "refused"}, Report(r), deleted' = deleted,
         stale \subseteq stale',
         pc'[r] \notin {"upsert", "erase", "eraseContext"},
         \A v \in Users : v # uid[r] => profiles'[v] = profiles[v],
         CopyOK(r)',
         \A u \in Users : u = uid[r] => u \in stale' \/ AckedOK(u)',
         \A q \in Reqs \ {r} : Holds(q) /\ (uid[q] = uid[r] \/ other[q] = uid[r]) =>
           uid[r] \in stale',
         uid[r] \in deleted => uid[r] \in stale'
  PROVE  ItemsOK'
<1>0. LocalType /\ LocalType' /\ ReqsOK' /\ uid[r] \in Users
  BY ReqsStep DEF TypeOK, LocalType, ReqsOK, ReqOK, Holding
<1>1. \A q \in Reqs \ {r} :
        /\ pc'[q] = pc[q] /\ then'[q] = then[q] /\ tool'[q] = tool[q]
        /\ uid'[q] = uid[q] /\ prof'[q] = prof[q] /\ other'[q] = other[q]
  BY <1>0, Frame
<1>2. \A v \in Users : v # uid[r] => acked'[v] = IF v = other[r] THEN {} ELSE acked[v]
  BY <1>0, ReportIs
<1>3. ASSUME NEW q \in Reqs, q # r
      PROVE  CopyOK(q)'
  <2>0. CopyOK(q) /\ uid[q] \in Users \cup {None} /\ other[q] \in Users \cup {None}
    BY <1>0 DEF ItemsOK, LocalType
  <2> SUFFICES ASSUME Holds(q)
               PROVE  CopyOK(q)'
    BY <1>1, <1>3 DEF CopyOK, Holds
  <2>1. ASSUME NEW v \in Users, v = uid[q] \/ v = other[q], v \notin stale'
        PROVE  v \notin stale /\ acked'[v] \subseteq acked[v]
    BY <1>2, <1>3, <2>1
  <2> QED
    BY <1>1, <1>3, <2>0, <2>1 DEF CopyOK, Gone
<1>4. ASSUME NEW u \in Users, u \notin stale'
      PROVE  AckedOK(u)'
  <2>1. CASE u = uid[r]
    BY <1>4, <2>1
  <2>2. CASE u # uid[r] /\ u = other[r]
    BY <1>2, <2>2 DEF AckedOK
  <2>3. CASE u # uid[r] /\ u # other[r]
    <3>1. AckedOK(u) /\ acked'[u] = acked[u] /\ profiles'[u] = profiles[u]
      BY <1>2, <1>4, <2>3 DEF ItemsOK
    <3>2. \A q \in Reqs : other[q] = u /\ Merging(q) => other'[q] = u /\ Merging(q)'
      BY <1>1, <2>3 DEF Merging
    <3> QED
      BY <3>1, <3>2 DEF AckedOK
  <2> QED
    BY <2>1, <2>2, <2>3
<1>5. DeletedOK'
  <2>1. \A u \in deleted' \ stale' : acked'[u] = {}
    <3> SUFFICES ASSUME NEW u \in deleted', u \notin stale'
                 PROVE  acked'[u] = {}
      OBVIOUS
    <3>1. u \in Users /\ acked[u] = {} /\ u # uid[r]
      BY DEF ItemsOK, DeletedOK, TypeOK
    <3> QED
      BY <1>2, <3>1
  <2>2. ASSUME NEW q \in Reqs
        PROVE  /\ pc'[q] = "upsert" /\ uid'[q] \in deleted' => uid'[q] \in stale'
               /\ pc'[q] \in {"erase", "eraseContext"} => uid'[q] \in deleted'
    BY <1>1 DEF ItemsOK, DeletedOK
  <2> QED
    BY <2>1, <2>2 DEF DeletedOK
<1> QED
  BY <1>3, <1>4, <1>5 DEF ItemsOK

LEMMA WriteItems ==
  ASSUME TypeOK, ReqsOK, ToolsOK, LocksOK, NotedOK, ItemsOK, NEW r \in Reqs, [Next]_vars,
         Refused(r) \/ NotSaved(r) \/ Upsert(r)
  PROVE  ItemsOK'
<1>0. LocalType /\ LocalType' /\ ReqsOK' /\ Act(r)
  BY ReqsStep DEF TypeOK, LocalType, Act, Step
<1>1. /\ pc[r] \in {"upsert", "refused"} /\ Report(r) /\ deleted' = deleted
      /\ stale \subseteq stale' /\ UNCHANGED tool
  BY DEF Refused, NotSaved, Upsert
<1>2. uid[r] \in Users /\ prof[r] \in Profile
  BY <1>1 DEF ReqsOK, ReqOK, Holding
<1>3. CASE Refused(r) \/ NotSaved(r)
  <2>1. uid[r] \in stale' /\ profiles' = profiles /\ Saved(r)
    BY <1>3 DEF Refused, NotSaved, store
  <2>2. /\ pc'[r] = then[r] /\ then[r] \in {"tools", "lock", "mergeSession"}
        /\ other'[r] = None /\ (then[r] = "lock" => uid'[r] = uid[r])
    BY <1>0, <2>1 DEF Saved, Goto, LocalType
  <2>3. CopyOK(r)'
    BY <2>1, <2>2 DEF CopyOK, Holds, Writing
  <2> QED
    BY <1>0, <1>1, <2>1, <2>2, <2>3, SaveItems
<1>4. CASE Upsert(r)
  <2>1. /\ pc[r] = "upsert" /\ pc'[r] = "context" /\ UNCHANGED <<uid, prof, other, then, lock, shaken>>
        /\ profiles' = [profiles EXCEPT ![uid[r]] = prof[r]]
        /\ stale' = stale \cup {u \in {uid[r]} : \/ \E q \in Holders(u) : q # r
                                                 \/ other[r] \in stale}
    BY <1>0, <1>4 DEF Upsert, Goto, copies, sessions, LocalType
  <2>2. \A q \in Reqs \ {r} : Holds(q) /\ (uid[q] = uid[r] \/ other[q] = uid[r]) =>
           uid[r] \in stale'
    BY <2>1, HoldersAre
  <2>3. CopyOK(r) /\ Holds(r) /\ (uid[r] \in deleted => uid[r] \in stale)
    BY <2>1 DEF ItemsOK, DeletedOK, Holds, Writing
  <2>4. uid[r] \notin stale' => acked'[uid[r]] \subseteq prof[r].items
    <3> SUFFICES ASSUME uid[r] \notin stale, other[r] \notin stale
                 PROVE  acked'[uid[r]] \subseteq prof[r].items
      BY <2>1
    <3>1. acked[uid[r]] \ Gone(r) \subseteq prof[r].items
      BY <1>2, <2>3, NoneAssumption DEF CopyOK
    <3>2. Told(r) \subseteq prof[r].items
      BY <2>1 DEF Told, ToolsOK, ToolOK
    <3>3. Merged(r) \subseteq prof[r].items
      BY <2>3 DEF Merged, CopyOK
    <3>4. Pending(r) \subseteq prof[r].items
      <4> SUFFICES ASSUME lock[uid[r]] = r, SidOf[r] \notin shaken
                   PROVE  noted[SidOf[r]] \subseteq prof[r].items
        BY DEF Pending
      <4>1. HoldsLock(r)
        BY <1>2 DEF HoldsLock
      <4>2. CarriedOK(r)
        BY <4>1, LockedActive DEF NotedOK
      <4> QED
        BY <4>1, <4>2 DEF CarriedOK, Carried
    <3>5. acked'[uid[r]] \subseteq ((acked[uid[r]] \cup Told(r)) \ Gone(r)) \cup Merged(r) \cup Pending(r)
      BY <1>1, <1>2, ReportIs
    <3> QED
      BY <3>1, <3>2, <3>3, <3>4, <3>5
  <2>5. \A u \in Users : u = uid[r] => u \in stale' \/ AckedOK(u)'
    <3>1. profiles'[uid[r]] = prof[r] /\ prof[r] # None
      BY <1>2, <2>1, NoneAssumption DEF TypeOK
    <3> QED
      BY <2>4, <3>1 DEF AckedOK
  <2>6. CopyOK(r)'
    <3>1. other[r] # None => then[r] = "mergeSession"
      BY DEF ReqsOK, ReqOK
    <3>2. then[r] = "lock" /\ uid[r] \notin stale' => acked'[uid[r]] \subseteq prof[r].items
      BY <2>4
    <3> QED
      BY <2>1, <3>1, <3>2 DEF CopyOK, Holds, Writing
  <2>7. \A v \in Users : v # uid[r] => profiles'[v] = profiles[v]
    BY <2>1 DEF TypeOK
  <2> QED
    BY <1>0, <1>1, <2>1, <2>2, <2>3, <2>5, <2>6, <2>7, SaveItems
<1> QED
  BY <1>3, <1>4

\* The steps that remove a profile
LEMMA RemovalItems ==
  ASSUME TypeOK, ReqsOK, ItemsOK, NEW r \in Reqs, [Next]_vars,
         DropSecondary(r) \/ Lookup(r) \/ Erase(r)
  PROVE  ItemsOK'
<1>0. LocalType /\ LocalType' /\ ReqsOK' /\ Act(r)
  BY ReqsStep DEF TypeOK, LocalType, Act, Step
<1>1. \A q \in Reqs \ {r} :
        /\ pc'[q] = pc[q] /\ then'[q] = then[q] /\ tool'[q] = tool[q]
        /\ uid'[q] = uid[q] /\ prof'[q] = prof[q] /\ other'[q] = other[q]
  BY <1>0, Frame
<1>2. \A q \in Reqs : uid[q] \in Users \cup {None} /\ other[q] \in Users \cup {None}
  BY <1>0 DEF LocalType
<1>3. CASE DropSecondary(r)
  <2>1. /\ pc[r] = "dropSecondary" /\ pc'[r] = "dropContext"
        /\ UNCHANGED <<uid, prof, other, then, tool, acked, deleted>> /\ stale \subseteq stale'
    BY <1>0, <1>3 DEF DropSecondary, Goto, LocalType, copies
  <2>2. other[r] \in Users
    BY <2>1 DEF ReqsOK, ReqOK
  <2>3. /\ \A u \in Users : u # other[r] => profiles'[u] = profiles[u]
        /\ profiles'[other[r]] = None \/ profiles' = profiles
    BY <1>3, <2>2 DEF DropSecondary, TypeOK
  <2>4. \A q \in Reqs : CopyOK(q)'
    <3>1. \A q \in Reqs : Holds(q)' => Holds(q)
      BY <1>1, <2>1 DEF Holds, Writing
    <3> QED
      BY <2>1, <3>1 DEF ItemsOK, CopyOK, Gone
  <2>5. ASSUME NEW u \in Users, u \notin stale'
        PROVE  AckedOK(u)'
    <3>1. \A q \in Reqs : other[q] = u /\ Merging(q) => other'[q] = u /\ Merging(q)'
      BY <1>1, <2>1 DEF Merging
    <3>2. AckedOK(u)
      BY <2>1, <2>5 DEF ItemsOK
    <3>3. CASE profiles'[u] = profiles[u]
      BY <2>1, <3>1, <3>2, <3>3 DEF AckedOK
    <3>4. CASE u = other[r] /\ profiles'[u] = None
      BY <2>1, <3>4 DEF AckedOK, Merging
    <3> QED
      BY <2>3, <3>3, <3>4
  <2>6. DeletedOK'
    BY <1>1, <2>1 DEF ItemsOK, DeletedOK
  <2> QED
    BY <2>4, <2>5, <2>6 DEF ItemsOK
<1>4. CASE Lookup(r)
  <2>1. /\ pc[r] = "lookup" /\ UNCHANGED <<profiles, prof, other, then, tool>>
        /\ \/ /\ pc'[r] \in {"done", "tools"} /\ UNCHANGED <<deleted, uid, acked, stale>>
           \/ \E u \in Users :
                /\ pc'[r] = "erase" /\ deleted' = deleted \cup {u} /\ uid'[r] = u
                /\ acked' = [acked EXCEPT ![u] = {}]
                /\ stale' = IF Holders(u) = {} THEN stale ELSE stale \cup {u}
    BY <1>0, <1>4 DEF Lookup, Goto, LocalType, store
  <2>2. CASE pc'[r] \in {"done", "tools"} /\ UNCHANGED <<deleted, uid, acked, stale>>
    <3>1. CopyOK(r)'
      BY <2>2 DEF CopyOK, Holds, Writing
    <3> QED
      BY <1>0, <2>1, <2>2, <3>1, ItemsKept DEF Merging
  <2>3. ASSUME NEW u \in Users,
               pc'[r] = "erase", deleted' = deleted \cup {u}, uid'[r] = u,
               acked' = [acked EXCEPT ![u] = {}],
               stale' = IF Holders(u) = {} THEN stale ELSE stale \cup {u}
        PROVE  ItemsOK'
    <3>1. /\ \A v \in Users : acked'[v] \subseteq acked[v]
          /\ \A v \in Users : v # u => acked'[v] = acked[v]
          /\ acked'[u] = {} /\ stale \subseteq stale'
      BY <2>3 DEF TypeOK
    <3>2. ASSUME NEW q \in Reqs
          PROVE  CopyOK(q)'
      <4>1. CASE q = r
        BY <2>3, <4>1 DEF CopyOK, Holds, Writing
      <4>2. CASE q # r
        <5>1. CopyOK(q) /\ (Holds(q)' <=> Holds(q)) /\ Gone(q)' = Gone(q)
          BY <1>1, <4>2 DEF ItemsOK, Holds, Gone
        <5> QED
          BY <1>1, <1>2, <3>1, <4>2, <5>1 DEF CopyOK
      <4> QED
        BY <4>1, <4>2
    <3>3. ASSUME NEW v \in Users, v \notin stale'
          PROVE  AckedOK(v)'
      <4>1. CASE v = u
        BY <3>1, <4>1 DEF AckedOK
      <4>2. CASE v # u
        <5>1. AckedOK(v)
          BY <3>1, <3>3 DEF ItemsOK
        <5>2. \A q \in Reqs : other[q] = v /\ Merging(q) => other'[q] = v /\ Merging(q)'
          BY <1>1, <2>1 DEF Merging
        <5> QED
          BY <2>1, <3>1, <4>2, <5>1, <5>2 DEF AckedOK
      <4> QED
        BY <4>1, <4>2
    <3>4. DeletedOK'
      <4>1. \A v \in deleted' \ stale' : acked'[v] = {}
        BY <2>3, <3>1 DEF ItemsOK, DeletedOK, TypeOK
      <4>2. ASSUME NEW q \in Reqs, pc'[q] = "upsert", uid'[q] \in deleted'
            PROVE  uid'[q] \in stale'
        <5>1. q # r /\ pc[q] = "upsert" /\ uid'[q] = uid[q]
          BY <1>1, <2>3, <4>2
        <5>2. CASE uid[q] = u
          <6>1. q \in Holders(u)
            BY <5>1, <5>2 DEF Holders
          <6> QED
            BY <2>3, <5>1, <5>2, <6>1
        <5>3. CASE uid[q] # u
          BY <2>3, <3>1, <4>2, <5>1, <5>3 DEF ItemsOK, DeletedOK
        <5> QED
          BY <5>2, <5>3
      <4>3. \A q \in Reqs : pc'[q] \in {"erase", "eraseContext"} => uid'[q] \in deleted'
        BY <1>1, <2>3 DEF ItemsOK, DeletedOK
      <4> QED
        BY <4>1, <4>2, <4>3 DEF DeletedOK
    <3> QED
      BY <3>2, <3>3, <3>4 DEF ItemsOK
  <2> QED
    BY <2>1, <2>2, <2>3
<1>5. CASE Erase(r)
  <2>1. /\ pc[r] = "erase" /\ pc'[r] = "eraseContext"
        /\ UNCHANGED <<uid, prof, other, then, tool, acked, deleted, stale>>
    BY <1>0, <1>5 DEF Erase, Goto, LocalType, copies
  <2>2. \A u \in Users : u # uid[r] => profiles'[u] = profiles[u]
    BY <1>5 DEF Erase, TypeOK
  <2>3. \A q \in Reqs : CopyOK(q)'
    <3>1. \A q \in Reqs : Holds(q)' => Holds(q)
      BY <1>1, <2>1 DEF Holds, Writing
    <3> QED
      BY <2>1, <3>1 DEF ItemsOK, CopyOK, Gone
  <2>4. ASSUME NEW u \in Users, u \notin stale'
        PROVE  AckedOK(u)'
    <3>1. CASE u = uid[r]
      BY <2>1, <2>4, <3>1 DEF ItemsOK, DeletedOK, AckedOK
    <3>2. CASE u # uid[r]
      <4>1. AckedOK(u)
        BY <2>1, <2>4 DEF ItemsOK
      <4>2. \A q \in Reqs : other[q] = u /\ Merging(q) => other'[q] = u /\ Merging(q)'
        BY <1>1, <2>1 DEF Merging
      <4> QED
        BY <2>1, <2>2, <3>2, <4>1, <4>2 DEF AckedOK
    <3> QED
      BY <3>1, <3>2
  <2>5. DeletedOK'
    BY <1>1, <2>1 DEF ItemsOK, DeletedOK
  <2> QED
    BY <2>3, <2>4, <2>5 DEF ItemsOK
<1> QED
  BY <1>3, <1>4, <1>5

LEMMA ItemsStep ==
  ASSUME TypeOK, ReqsOK, ToolsOK, LocksOK, NotedOK, ItemsOK, [Next]_vars
  PROVE  ItemsOK'
<1>1. ASSUME UNCHANGED <<Local, acked, profiles, deleted, stale>>
      PROVE  ItemsOK'
  BY <1>1 DEF Local, ItemsOK, CopyOK, AckedOK, DeletedOK, Holds, Merging, Gone
<1>2. UNCHANGED vars => UNCHANGED <<Local, acked, profiles, deleted, stale>>
  BY DEF vars, control, copies, store, history, Local
<1> QED
  BY <1>1, <1>2, SessionsOnly, LinksItems, AliasItems, QuietItems, WriteItems, RemovalItems
     DEF Next, Step

-----------------------------------------------------------------------------
(* The theorems about quiet users and sessions *)

QuietInv == IInv /\ ToolsOK /\ LocksOK /\ SessOK /\ NotedOK /\ ItemsOK

LEMMA InitQuietInv == Init => QuietInv
<1> SUFFICES ASSUME Init
             PROVE  QuietInv
  OBVIOUS
<1>1. IInv
  BY InitIInv
<1>2. ToolsOK /\ LocksOK /\ SessOK
  BY NoneAssumption DEF Init, ToolsOK, ToolOK, LocksOK, SessOK, Active
<1>3. NotedOK
  BY SidOfAssumption DEF Init, NotedOK, Active
<1>4. ItemsOK
  <2>1. \A r \in Reqs : CopyOK(r)
    BY DEF Init, CopyOK, Holds, Writing
  <2>2. \A u \in Users : AckedOK(u)
    BY DEF Init, AckedOK
  <2>3. DeletedOK
    BY DEF Init, DeletedOK
  <2> QED
    BY <2>1, <2>2, <2>3 DEF ItemsOK
<1> QED
  BY <1>1, <1>2, <1>3, <1>4 DEF QuietInv

LEMMA StepQuietInv == QuietInv /\ [Next]_vars => QuietInv'
BY StepIInv, ToolsOKStep, LocksOKStep, SessStep, NotedStep, ItemsStep DEF QuietInv, IInv

LEMMA QuietInductive == Spec => []QuietInv
BY InitQuietInv, StepQuietInv, PTL DEF Spec

\* What a tool or a link reported as stored stays in the profile, for every user
\* whose copies never overlap at a write: the read-modify-writes of any number
\* of requests, merges and renames lose nothing by themselves.
THEOREM QuietUsersLoseNothing == Spec => []QuietItemsKept
<1>1. QuietInv => QuietItemsKept
  BY DEF QuietInv, ItemsOK, AckedOK, Merging, QuietItemsKept
<1> QED
  BY <1>1, QuietInductive, PTL

\* What was noted for an unidentified user is pending in Redis or on its way
\* into a profile, for every session whose requests do not overlap.
THEOREM QuietSessionsLoseNothing == Spec => []QuietPendingKept
<1>1. QuietInv => QuietPendingKept
  <2> SUFFICES ASSUME QuietInv, NEW s \in Sids, s \notin shaken
               PROVE  LET links == {r \in Reqs : SidOf[r] = s /\ \E u \in Users : lock[u] = r}
                      IN  noted[s] \subseteq Kept(s) \cup UNION {prof[r].items : r \in links}
    BY DEF QuietPendingKept, Kept
  <2>1. noted[s] \subseteq Kept(s) \cup UNION {Linking(r) : r \in {q \in Reqs : SidOf[q] = s}}
    BY DEF QuietInv, NotedOK
  <2> QED
    BY <2>1 DEF Linking, HoldsLock
<1> QED
  BY <1>1, QuietInductive, PTL
=============================================================================
