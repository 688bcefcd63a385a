--------------------------- MODULE SseStreamProofs ---------------------------
(***************************************************************************)
(* What the client of a streaming response gets, for any number of chunks. *)
(***************************************************************************)
EXTENDS SseStream, SequenceTheorems, WellFoundedInduction, TLAPS

-----------------------------------------------------------------------------
\* Sequences that are collected from others.

LEMMA LeastNat ==
  ASSUME NEW T \in SUBSET Nat, T # {}
  PROVE  \E x \in T : \A y \in T : x <= y
<1> DEFINE R == OpToRel(<, Nat)
<1>1. IsWellFoundedOn(R, Nat)
  BY NatLessThanWellFounded
<1>2. \A x, y \in Nat : <<x, y>> \in R <=> x < y
  BY DEF OpToRel
<1> HIDE DEF R
<1>3. PICK x \in T : \A y \in T : ~(<<y, x>> \in R)
  BY <1>1, WFMin, Zenon
<1>4. \A y \in T : y \in Nat /\ x \in Nat /\ ~(y < x)
  BY <1>2, <1>3
<1> QED
  BY <1>3, <1>4

LEMMA Induction ==
  ASSUME NEW P \in [Nat -> BOOLEAN], P[0], \A n \in Nat : P[n] => P[n + 1]
  PROVE  \A n \in Nat : P[n]
<1> DEFINE T == {n \in Nat : ~P[n]}
<1> SUFFICES ASSUME T # {}
             PROVE  FALSE
  OBVIOUS
<1>1. PICK x \in T : \A y \in T : x <= y
  BY LeastNat
<1>2. x # 0 /\ x \in Nat /\ x - 1 \in Nat /\ x - 1 \notin T
  BY <1>1
<1> QED
  BY <1>1, <1>2

\* What f makes of the entries of S is in T.
Makes(f, S, T) == "none" \notin T /\ \A x \in S : f[x] \in T \cup {"none"}

\* What is collected up to each of n entries, if there is something to begin with.
Grows(f, t, n, first, a) ==
  /\ a[0] = first
  /\ \A k \in 1..n : a[k] = Adding(f, a[k - 1], t[k])

Entries(t, n, S) == \A k \in 1..n : t[k] \in S

Join(s, t) == s \o t

LEMMA CollectedDef ==
  ASSUME NEW s, Len(s) \in Nat, NEW f
  PROVE  \E upto : Grows(f, s, Len(s), <<>>, upto) /\ Collected(s, f) = upto[Len(s)]
<1> DEFINE Is(g, n) == g = [k \in 0..n |-> IF k = 0 THEN <<>> ELSE Adding(f, g[k - 1], s[k])]
           P == [n \in Nat |-> \E g : Is(g, n)]
           upto == CHOOSE g : Is(g, Len(s))
<1>1. P[0]
  <2>1. Is([k \in 0..0 |-> <<>>], 0)
    OBVIOUS
  <2> QED
    BY <2>1
<1>2. ASSUME NEW n \in Nat, P[n]
      PROVE  P[n + 1]
  <2>1. PICK g : Is(g, n)
    BY <1>2
  <2> DEFINE h == [k \in 0..(n + 1) |-> IF k = n + 1 THEN Adding(f, g[n], s[n + 1]) ELSE g[k]]
  <2>2. \A k \in 0..n : h[k] = g[k]
    OBVIOUS
  <2>3. \A k \in 0..(n + 1) : h[k] = IF k = 0 THEN <<>> ELSE Adding(f, h[k - 1], s[k])
    <3> SUFFICES ASSUME NEW k \in 0..(n + 1)
                 PROVE  h[k] = IF k = 0 THEN <<>> ELSE Adding(f, h[k - 1], s[k])
      OBVIOUS
    <3>1. CASE k = n + 1
      <4>1. k # 0 /\ k - 1 = n /\ n \in 0..n
        BY <3>1
      <4> QED
        BY <3>1, <4>1, <2>2
    <3>2. CASE k \in 1..n
      <4>1. k # 0 /\ k - 1 \in 0..n /\ k \in 0..n
        BY <3>2
      <4>2. g[k] = Adding(f, g[k - 1], s[k])
        BY <4>1, <2>1
      <4> QED
        BY <4>1, <4>2, <2>2
    <3>3. CASE k = 0
      BY <3>3, <2>1, <2>2
    <3> QED
      BY <3>1, <3>2, <3>3
  <2>4. Is(h, n + 1)
    BY <2>3
  <2> HIDE DEF h, Is
  <2> QED
    BY <2>4
<1>3. \A n \in Nat : P[n]
  <2> HIDE DEF Is
  <2>1. P \in [Nat -> BOOLEAN]
    OBVIOUS
  <2> HIDE DEF P
  <2> QED
    BY <1>1, <1>2, <2>1, Induction
<1>4. Is(upto, Len(s))
  <2>1. \E g : Is(g, Len(s))
    BY <1>3
  <2> HIDE DEF Is
  <2> QED
    BY <2>1
<1>5. Collected(s, f) = upto[Len(s)]
  BY DEF Collected
<1> HIDE DEF upto
<1>6. upto[0] = <<>> /\ \A k \in 1..Len(s) : upto[k] = Adding(f, upto[k - 1], s[k])
  BY <1>4
<1> QED
  BY <1>5, <1>6 DEF Grows

LEMMA AddingOK ==
  ASSUME NEW S, NEW T, NEW f, Makes(f, S, T), NEW x \in S, NEW t \in Seq(T)
  PROVE  Adding(f, t, x) \in Seq(T)
<1>1. CASE f[x] = "none"
  BY <1>1 DEF Adding
<1>2. CASE f[x] \in T
  BY <1>2, AppendProperties DEF Adding, Makes
<1> QED
  BY <1>1, <1>2 DEF Makes

LEMMA AddingJoin ==
  ASSUME NEW S, NEW T, NEW f, Makes(f, S, T), NEW x \in S, NEW s \in Seq(T), NEW t \in Seq(T)
  PROVE  Adding(f, Join(s, t), x) = Join(s, Adding(f, t, x))
<1>1. CASE f[x] = "none"
  BY <1>1 DEF Adding
<1>2. CASE f[x] \in T
  <2> DEFINE e == f[x]
  <2>1. e \in T /\ e # "none"
    BY <1>2 DEF Makes
  <2> HIDE DEF e
  <2>2. <<e>> \in Seq(T) /\ s \o t \in Seq(T)
    BY <2>1, ConcatProperties
  <2>3. Append(s \o t, e) = (s \o t) \o <<e>> /\ Append(t, e) = t \o <<e>>
    BY <2>1, <2>2, AppendIsConcat
  <2>4. (s \o t) \o <<e>> = s \o (t \o <<e>>)
    BY <2>2, ConcatAssociative
  <2>5. Append(s \o t, e) = s \o Append(t, e)
    BY <2>3, <2>4
  <2>6. Adding(f, Join(s, t), x) = Append(s \o t, e) /\ Adding(f, t, x) = Append(t, e)
    BY <2>1 DEF Adding, Join, e
  <2> QED
    BY <2>5, <2>6 DEF Join
<1> QED
  BY <1>1, <1>2 DEF Makes

LEMMA JoinOK ==
  ASSUME NEW T, NEW s \in Seq(T), NEW t \in Seq(T)
  PROVE  /\ Join(s, t) \in Seq(T) /\ Join(s, <<>>) = s /\ Join(<<>>, s) = s
         /\ <<>> \in Seq(T)
BY ConcatProperties, ConcatEmptySeq, EmptySeq DEF Join

\* Collecting from the same entries with and without something to begin with.
LEMMA SameEntries ==
  ASSUME NEW S, NEW T, NEW f, Makes(f, S, T), NEW n \in Nat, NEW t, Entries(t, n, S),
         NEW first \in Seq(T), NEW a, Grows(f, t, n, first, a), NEW b, Grows(f, t, n, <<>>, b)
  PROVE  /\ a[n] = Join(first, b[n]) /\ a[n] \in Seq(T) /\ b[n] \in Seq(T)
<1> DEFINE OK(k) == k <= n => a[k] = Join(first, b[k]) /\ b[k] \in Seq(T)
           P == [k \in Nat |-> OK(k)]
<1>1. OK(0)
  BY JoinOK DEF Grows
<1>2. ASSUME NEW k \in Nat, OK(k)
      PROVE  OK(k + 1)
  <2> SUFFICES ASSUME k + 1 <= n
               PROVE  a[k + 1] = Join(first, b[k + 1]) /\ b[k + 1] \in Seq(T)
    OBVIOUS
  <2>1. k + 1 \in 1..n /\ k + 1 - 1 = k /\ k <= n
    OBVIOUS
  <2>2. a[k] = Join(first, b[k]) /\ b[k] \in Seq(T)
    BY <1>2, <2>1
  <2>3. /\ a[k + 1] = Adding(f, a[k], t[k + 1]) /\ b[k + 1] = Adding(f, b[k], t[k + 1])
        /\ t[k + 1] \in S
    BY <2>1 DEF Grows, Entries
  <2>4. Adding(f, Join(first, b[k]), t[k + 1]) = Join(first, Adding(f, b[k], t[k + 1]))
    BY <2>2, <2>3, AddingJoin
  <2>5. Adding(f, b[k], t[k + 1]) \in Seq(T)
    BY <2>2, <2>3, AddingOK
  <2> QED
    BY <2>2, <2>3, <2>4, <2>5
<1>3. P \in [Nat -> BOOLEAN]
  OBVIOUS
<1> HIDE DEF OK
<1>4. \A k \in Nat : P[k]
  <2>1. P[0] /\ \A k \in Nat : P[k] => P[k + 1]
    BY <1>1, <1>2
  <2> HIDE DEF P
  <2> QED
    BY <1>3, <2>1, Induction
<1>5. OK(n)
  BY <1>4
<1>6. a[n] = Join(first, b[n]) /\ b[n] \in Seq(T)
  BY <1>5 DEF OK
<1> QED
  BY <1>6, JoinOK

LEMMA EntriesOf ==
  ASSUME NEW S, NEW s \in Seq(S)
  PROVE  Len(s) \in Nat /\ Entries(s, Len(s), S)
BY LenProperties, ElementOfSeq DEF Entries

LEMMA CollectedOK ==
  ASSUME NEW S, NEW T, NEW f, Makes(f, S, T), NEW s \in Seq(S)
  PROVE  Collected(s, f) \in Seq(T)
<1>1. Len(s) \in Nat /\ Entries(s, Len(s), S)
  BY EntriesOf
<1>2. PICK a : Grows(f, s, Len(s), <<>>, a) /\ Collected(s, f) = a[Len(s)]
  BY <1>1, CollectedDef
<1>3. <<>> \in Seq(T)
  BY EmptySeq
<1>4. a[Len(s)] \in Seq(T)
  BY <1>1, <1>2, <1>3, SameEntries
<1> QED
  BY <1>2, <1>4

LEMMA CollectedEmpty ==
  ASSUME NEW f
  PROVE  Collected(<<>>, f) = <<>>
<1>1. Len(<<>>) = 0
  OBVIOUS
<1>2. PICK a : Grows(f, <<>>, Len(<<>>), <<>>, a) /\ Collected(<<>>, f) = a[Len(<<>>)]
  BY <1>1, CollectedDef
<1> QED
  BY <1>1, <1>2 DEF Grows

\* An entry more at the end.
LEMMA CollectedAppend ==
  ASSUME NEW S, NEW T, NEW f, Makes(f, S, T), NEW s \in Seq(S), NEW x \in S
  PROVE  Collected(Append(s, x), f) = Adding(f, Collected(s, f), x)
<1> DEFINE t == Append(s, x)
           n == Len(s)
<1>1. n \in Nat /\ Entries(s, n, S)
  BY EntriesOf
<1>2. Len(t) = n + 1 /\ (\A k \in 1..n : t[k] = s[k]) /\ t[n + 1] = x
  BY AppendProperties
<1> HIDE DEF t, n
<1>3. PICK a : Grows(f, t, n + 1, <<>>, a) /\ Collected(t, f) = a[n + 1]
  BY <1>1, <1>2, CollectedDef
<1>4. PICK b : Grows(f, s, n, <<>>, b) /\ Collected(s, f) = b[n]
  BY <1>1, CollectedDef DEF n
<1>5. \A k \in 1..n : k \in 1..(n + 1)
  BY <1>1
<1>6. Grows(f, s, n, <<>>, a)
  BY <1>2, <1>3, <1>5 DEF Grows
<1>7. <<>> \in Seq(T)
  BY EmptySeq
<1>8. a[n] = Join(<<>>, b[n]) /\ b[n] \in Seq(T)
  <2> DEFINE nil == <<>>
  <2>1. nil \in Seq(T) /\ Grows(f, s, n, nil, a) /\ Grows(f, s, n, <<>>, b)
    BY <1>4, <1>6, <1>7
  <2> HIDE DEF nil
  <2>2. a[n] = Join(nil, b[n]) /\ b[n] \in Seq(T)
    BY <1>1, <2>1, SameEntries
  <2> QED
    BY <2>2 DEF nil
<1>9. a[n] = b[n]
  BY <1>7, <1>8, JoinOK
<1>10. a[n + 1] = Adding(f, a[n], x)
  <2> DEFINE m == n + 1
  <2>1. m \in 1..m /\ m - 1 = n
    BY <1>1
  <2>2. Grows(f, t, m, <<>>, a)
    BY <1>3
  <2> HIDE DEF m
  <2>3. a[m] = Adding(f, a[n], t[m])
    BY <2>1, <2>2 DEF Grows
  <2>4. t[n + 1] = x
    BY <1>2
  <2> QED
    BY <2>3, <2>4 DEF m
<1> QED
  BY <1>3, <1>4, <1>9, <1>10 DEF t

\* An entry less at the front.
LEMMA CollectedTail ==
  ASSUME NEW S, NEW T, NEW f, Makes(f, S, T), NEW s \in Seq(S), s # <<>>
  PROVE  Collected(s, f) = Join(Adding(f, <<>>, Head(s)), Collected(Tail(s), f))
<1> DEFINE t == Tail(s)
           n == Len(t)
<1>1. /\ Len(s) \in Nat /\ Len(s) > 0 /\ \A k \in 1..Len(s) : s[k] \in S
      /\ Head(s) = s[1]
  BY EmptySeq, LenProperties, ElementOfSeq
<1>2. t \in Seq(S) /\ n = Len(s) - 1 /\ \A k \in 1..n : t[k] = s[k + 1]
  BY HeadTailProperties
<1>3. n \in Nat /\ Entries(t, n, S)
  BY <1>2, EntriesOf
<1>4. PICK c : Grows(f, s, Len(s), <<>>, c) /\ Collected(s, f) = c[Len(s)]
  BY <1>1, CollectedDef
<1>5. PICK b : Grows(f, t, n, <<>>, b) /\ Collected(t, f) = b[n]
  BY <1>3, CollectedDef
<1> HIDE DEF n, t
<1> DEFINE a == [k \in 0..n |-> c[k + 1]]
           first == Adding(f, <<>>, s[1])
<1>6. first \in Seq(T)
  <2> DEFINE nil == <<>>
             x == s[1]
  <2>1. nil \in Seq(T) /\ x \in S
    BY <1>1, EmptySeq
  <2> HIDE DEF nil, x
  <2>2. Adding(f, nil, x) \in Seq(T)
    BY <2>1, AddingOK
  <2> QED
    BY <2>2 DEF nil, x
<1>7. c[1] = first
  <2>1. 1 \in 1..Len(s) /\ 1 - 1 = 0
    BY <1>1
  <2> QED
    BY <1>4, <2>1 DEF Grows
<1>8. a[0] = first
  BY <1>3, <1>7
<1>9. \A k \in 1..n : a[k] = Adding(f, a[k - 1], t[k])
  <2> SUFFICES ASSUME NEW k \in 1..n
               PROVE  a[k] = Adding(f, a[k - 1], t[k])
    OBVIOUS
  <2>1. k + 1 \in 1..Len(s) /\ k + 1 - 1 = k /\ k - 1 + 1 = k /\ k \in 0..n /\ k - 1 \in 0..n
    BY <1>1, <1>2, <1>3
  <2>2. c[k + 1] = Adding(f, c[k], s[k + 1])
    BY <1>4, <2>1 DEF Grows
  <2>3. a[k] = c[k + 1] /\ a[k - 1] = c[k]
    BY <2>1
  <2> HIDE DEF a
  <2> QED
    BY <1>2, <2>2, <2>3
<1>10. a[n] = c[Len(s)]
  BY <1>2, <1>3
<1> HIDE DEF a, first
<1>11. Grows(f, t, n, first, a)
  BY <1>8, <1>9 DEF Grows
<1>12. a[n] = Join(first, b[n])
  BY <1>3, <1>5, <1>6, <1>11, SameEntries
<1> QED
  BY <1>1, <1>4, <1>5, <1>10, <1>12 DEF first, t

-----------------------------------------------------------------------------
\* The stream.

All == ChunkTypes \union {"None"}

LEMMA FormatsMake ==
  /\ Makes(EventOf, All, Events) /\ Makes(FromChunk, Events, Events)
  /\ Makes(NotAssistant, ChunkTypes, ChunkTypes)
<1>1. Makes(EventOf, All, Events)
  BY DEF Makes, EventOf, Event, Events, All, ChunkTypes
<1>2. Makes(FromChunk, Events, Events)
  BY DEF Makes, FromChunk, Events
<1>3. Makes(NotAssistant, ChunkTypes, ChunkTypes)
  BY DEF Makes, NotAssistant, ChunkTypes
<1> QED
  BY <1>1, <1>2, <1>3

LEMMA InitTypes == Init => TypeOK
BY EmptySeq DEF Init, TypeOK

LEMMA YieldTypes ==
  ASSUME TypeOK, NEW e \in Events,
         NEW next \in {"start", "top", "finish", "metadata", "DONE", "end"}, Yield(e, next)
  PROVE  /\ sent' \in Seq(Events) /\ stream' = "send"
         /\ resumeAt' \in {"start", "top", "finish", "metadata", "DONE", "end"}
BY AppendProperties DEF TypeOK, Yield

LEMMA TakeTypes ==
  ASSUME TypeOK, Take
  PROVE  TypeOK'
<1>1. /\ queue # <<>> /\ queue' = Tail(queue) /\ Handle(Head(queue)) /\ reasoning' = reasoning
      /\ UNCHANGED agentVars
  BY DEF Take
<1>2. queue' \in Seq(All) /\ Head(queue) \in All
  BY <1>1, HeadTailProperties DEF TypeOK, All
<1>3. /\ sent' \in Seq(Events) /\ stream' \in {"send", "top"}
      /\ resumeAt' \in {"start", "top", "finish", "metadata", "DONE", "end"}
      /\ broken' \in BOOLEAN
  <2>1. CASE Head(queue) = "None"
    <3>1. Yield("finish", "metadata") /\ UNCHANGED broken
      BY <1>1, <2>1 DEF Handle
    <3> QED
      BY <3>1, YieldTypes DEF TypeOK, Events
  <2>2. CASE Head(queue) # "None"
    <3> DEFINE e == Event(Head(queue))
    <3>1. e # "none" => e \in Events
      BY <1>2, <2>2 DEF Event, Events, All, ChunkTypes
    <3>2. \/ e # "none" /\ Yield(e, "top") /\ UNCHANGED broken
          \/ e = "none" /\ stream' = "top" /\ UNCHANGED <<sent, resumeAt, broken>>
          \/ e # "none" /\ Yield("error", "finish") /\ broken' = TRUE
      BY <1>1, <2>2 DEF Handle
    <3> HIDE DEF e
    <3>3. "error" \in Events
      BY DEF Events
    <3> QED
      BY <3>1, <3>2, <3>3, YieldTypes DEF TypeOK
  <2> QED
    BY <2>1, <2>2
<1> QED
  BY <1>1, <1>2, <1>3 DEF TypeOK, agentVars, All

LEMMA StepTypes == TypeOK /\ [Next]_vars => TypeOK'
<1> SUFFICES ASSUME TypeOK, [Next]_vars
             PROVE  TypeOK'
  OBVIOUS
<1>1. CASE UNCHANGED vars
  BY <1>1 DEF vars, TypeOK
<1>2. CASE Agent
  <2>1. CASE AgentStarts
    BY <2>1 DEF AgentStarts, UnchangedStream, TypeOK
  <2>2. ASSUME NEW type \in ChunkTypes, AgentEmits(type)
        PROVE  TypeOK'
    <3>1. Append(ioBuffer, type) \in Seq(ChunkTypes) /\ Append(put, type) \in Seq(ChunkTypes)
      BY AppendProperties DEF TypeOK
    <3>2. Append(queue, type) \in Seq(ChunkTypes \union {"None"})
      BY AppendProperties DEF TypeOK
    <3> QED
      BY <2>2, <3>1, <3>2 DEF AgentEmits, UnchangedStream, TypeOK
  <2>3. CASE AgentClearsResponse
    <3>1. Collected(ioBuffer, NotAssistant) \in Seq(ChunkTypes)
      BY CollectedOK, FormatsMake DEF TypeOK
    <3> QED
      BY <2>3, <3>1 DEF AgentClearsResponse, UnchangedStream, TypeOK
  <2>4. Append(queue, "None") \in Seq(ChunkTypes \union {"None"})
    BY AppendProperties DEF TypeOK
  <2>5. CASE \E how \in {"ok", "failed"} : AgentEnds(how)
    BY <2>4, <2>5 DEF AgentEnds, UnchangedStream, TypeOK
  <2>6. CASE AgentCancelled
    BY <2>4, <2>6 DEF AgentCancelled, UnchangedStream, TypeOK
  <2> QED
    BY <1>2, <2>1, <2>2, <2>3, <2>5, <2>6 DEF Agent
<1>3. CASE LoopTop
  <2>1. CASE LeaveLoop
    <3>1. \/ Yield("error", "finish")
          \/ Yield("finish", "metadata")
      BY <2>1 DEF LeaveLoop
    <3>2. UNCHANGED <<reasoning, agentVars, queue, broken>>
      BY <2>1 DEF LeaveLoop
    <3>3. /\ sent' \in Seq(Events) /\ stream' = "send"
          /\ resumeAt' \in {"start", "top", "finish", "metadata", "DONE", "end"}
      BY <3>1, YieldTypes DEF Events
    <3> QED
      BY <3>2, <3>3 DEF TypeOK, agentVars
  <2>2. CASE Take
    BY <2>2, TakeTypes
  <2>3. CASE Wait
    BY <2>3 DEF Wait, TypeOK, agentVars
  <2> QED
    BY <1>3, <2>1, <2>2, <2>3 DEF LoopTop
<1>4. CASE Receive
  BY <1>4, TakeTypes DEF Receive
<1>5. CASE Resume
  <2>1. UNCHANGED <<reasoning, agentVars, queue, broken>>
    BY <1>5 DEF Resume
  <2>2. \/ \E e \in Events, next \in {"top", "metadata", "DONE", "end"} : Yield(e, next)
        \/ stream' \in {"top", "closed"} /\ UNCHANGED <<sent, resumeAt>>
    BY <1>5 DEF Resume, TypeOK, Events
  <2>3. /\ sent' \in Seq(Events) /\ stream' \in {"send", "top", "closed"}
        /\ resumeAt' \in {"start", "top", "finish", "metadata", "DONE", "end"}
    BY <2>2, YieldTypes DEF TypeOK
  <2> QED
    BY <2>1, <2>3 DEF TypeOK, agentVars
<1>6. CASE Keepalive \/ Client
  BY <1>6 DEF Keepalive, Client, DisconnectWaiting, DisconnectSending, TypeOK, agentVars
<1> QED
  BY <1>1, <1>2, <1>3, <1>4, <1>5, <1>6 DEF Next, Generator

\* The generator has left its loop.
Left == resumeAt \in {"finish", "metadata", "DONE", "end"}

HasEnd(s) == \E i \in DOMAIN s : s[i] \in {"metadata", "DONE"}

\* The agent puts its sentinel last and once.
SentinelLast ==
  \A i \in 1..Len(queue) : queue[i] = "None" => i = Len(queue) /\ AgentEnded

StreamInv ==
  /\ NothingLost
  /\ SentinelLast
  /\ stream \in {"top", "get"} => resumeAt = "top"
  /\ Left /\ ~broken => AgentEnded /\ Formatted(queue) = <<>>
  /\ HasEnd(sent) => resumeAt \in {"DONE", "end"}

IInv == TypeOK /\ StreamInv

LEMMA HasEndAppend ==
  ASSUME NEW s \in Seq(Events), NEW e \in Events
  PROVE  HasEnd(Append(s, e)) => HasEnd(s) \/ e \in {"metadata", "DONE"}
<1> DEFINE t == Append(s, e)
<1>1. /\ t \in Seq(Events) /\ Len(t) = Len(s) + 1 /\ (\A i \in 1..Len(s) : t[i] = s[i])
      /\ t[Len(s) + 1] = e
  BY AppendProperties
<1> HIDE DEF t
<1>2. Len(s) \in Nat /\ DOMAIN s = 1..Len(s) /\ DOMAIN t = 1..Len(t)
  BY <1>1, LenProperties
<1>3. \A i \in DOMAIN t : i \in DOMAIN s \/ i = Len(s) + 1
  BY <1>1, <1>2
<1>4. HasEnd(t) => HasEnd(s) \/ e \in {"metadata", "DONE"}
  BY <1>1, <1>2, <1>3 DEF HasEnd
<1> QED
  BY <1>4 DEF t

\* What is given to the server and does not come from a chunk does not count.
LEMMA DeliveredAppend ==
  ASSUME TypeOK, NEW e \in Events, sent' = Append(sent, e)
  PROVE  /\ Delivered \in Seq(Events)
         /\ Delivered' = IF e \in {"content", "reasoning", "comment"}
                         THEN Append(Delivered, e) ELSE Delivered
<1>1. sent \in Seq(Events)
  BY DEF TypeOK
<1>2. Delivered \in Seq(Events) /\ Delivered' = Adding(FromChunk, Delivered, e)
  <2>1. Delivered' = Collected(Append(sent, e), FromChunk)
    BY DEF Delivered
  <2> QED
    BY <1>1, <2>1, FormatsMake, CollectedAppend, CollectedOK DEF Delivered
<1>3. FromChunk[e] = IF e \in {"content", "reasoning", "comment"} THEN e ELSE "none"
  BY DEF FromChunk
<1>4. e # "none"
  BY DEF Events
<1> QED
  BY <1>2, <1>3, <1>4 DEF Adding

LEMMA FormattedTypes ==
  ASSUME TypeOK
  PROVE  /\ Formatted(queue) \in Seq(Events) /\ Formatted(put) \in Seq(Events)
         /\ Delivered \in Seq(Events)
<1>1. queue \in Seq(All) /\ put \in Seq(ChunkTypes) /\ ChunkTypes \subseteq All /\ sent \in Seq(Events)
  BY DEF TypeOK, All
<1>2. put \in Seq(All)
  BY <1>1, SeqMonotonic
<1> QED
  BY <1>1, <1>2, FormatsMake, CollectedOK DEF Formatted, Delivered

LEMMA FormattedAppend ==
  ASSUME TypeOK, NEW c \in All
  PROVE  /\ Formatted(Append(queue, c)) = Adding(EventOf, Formatted(queue), c)
         /\ Formatted(Append(put, c)) = Adding(EventOf, Formatted(put), c)
<1>1. queue \in Seq(All) /\ put \in Seq(ChunkTypes) /\ ChunkTypes \subseteq All
  BY DEF TypeOK, All
<1>2. put \in Seq(All)
  BY <1>1, SeqMonotonic
<1> QED
  BY <1>1, <1>2, FormatsMake, CollectedAppend DEF Formatted

LEMMA SameFormats ==
  ASSUME reasoning' = reasoning
  PROVE  EventOf' = EventOf
BY DEF EventOf, Event

LEMMA JoinMove ==
  ASSUME NEW T, NEW s \in Seq(T), NEW t \in Seq(T), NEW e \in T
  PROVE  Join(s, Join(Append(<<>>, e), t)) = Join(Append(s, e), t)
<1>1. <<e>> \in Seq(T) /\ Append(<<>>, e) = <<e>>
  OBVIOUS
<1>2. (s \o <<e>>) \o t = s \o (<<e>> \o t)
  BY <1>1, ConcatAssociative
<1>3. Append(s, e) = s \o <<e>>
  BY AppendIsConcat
<1> QED
  BY <1>1, <1>2, <1>3 DEF Join

LEMMA TakeInv ==
  ASSUME IInv, Take, stream \in {"top", "get"}
  PROVE  StreamInv'
<1> DEFINE head == Head(queue)
           rest == Formatted(Tail(queue))
<1>1. /\ TypeOK /\ StreamInv /\ resumeAt = "top" /\ ~Left /\ ~HasEnd(sent)
      /\ queue # <<>> /\ queue' = Tail(queue) /\ Handle(head)
      /\ reasoning' = reasoning /\ put' = put /\ agent' = agent
  BY DEF IInv, StreamInv, Take, agentVars, Left
<1>2. queue \in Seq(All) /\ Tail(queue) \in Seq(All) /\ head \in All /\ head = queue[1]
  BY <1>1, HeadTailProperties DEF TypeOK, All
<1>3. /\ rest \in Seq(Events) /\ Formatted(queue) = Join(Adding(EventOf, <<>>, head), rest)
  BY <1>1, <1>2, FormatsMake, CollectedOK, CollectedTail DEF Formatted
<1>4. EventOf' = EventOf /\ Formatted(put)' = Formatted(put) /\ Formatted(queue)' = rest
  BY <1>1, SameFormats DEF Formatted
<1>5. /\ Len(queue) \in Nat /\ Len(queue) > 0 /\ Len(Tail(queue)) = Len(queue) - 1
      /\ \A i \in 1..Len(Tail(queue)) : Tail(queue)[i] = queue[i + 1]
  BY <1>1, <1>2, EmptySeq, HeadTailProperties
<1>6. SentinelLast'
  <2> SUFFICES ASSUME NEW i \in 1..Len(Tail(queue)), Tail(queue)[i] = "None"
               PROVE  i = Len(Tail(queue)) /\ AgentEnded'
    BY <1>1 DEF SentinelLast
  <2>1. i + 1 \in 1..Len(queue) /\ queue[i + 1] = "None"
    BY <1>5
  <2>2. i + 1 = Len(queue) /\ AgentEnded
    BY <1>1, <2>1 DEF StreamInv, SentinelLast
  <2>3. i = Len(queue) - 1
    BY <1>5, <2>2
  <2>4. AgentEnded'
    BY <1>1, <2>2 DEF AgentEnded
  <2> QED
    BY <1>5, <2>3, <2>4, Zenon
<1>7. /\ Delivered \in Seq(Events) /\ (~broken => Join(Delivered, Formatted(queue)) = Formatted(put))
  BY <1>1, FormattedTypes DEF StreamInv, NothingLost, Join
<1> HIDE DEF rest, head
<1>8. CASE head = "None"
  <2>1. Yield("finish", "metadata") /\ broken' = broken
    BY <1>1, <1>8 DEF Handle
  <2>2. /\ sent' = Append(sent, "finish") /\ stream' = "send" /\ resumeAt' = "metadata"
        /\ sent \in Seq(Events)
    BY <1>1, <2>1 DEF Yield, TypeOK
  <2>3. Delivered' = Delivered /\ ~HasEnd(sent')
    BY <1>1, <2>2, DeliveredAppend, HasEndAppend DEF Events
  <2>4. Adding(EventOf, <<>>, head) = <<>>
    BY <1>8 DEF Adding, EventOf
  <2>5. Formatted(queue) = rest
    BY <1>3, <2>4, JoinOK
  <2>6. AgentEnded' /\ Formatted(queue)' = <<>>
    <3>1. 1 \in 1..Len(queue) /\ queue[1] = "None"
      BY <1>2, <1>5, <1>8
    <3>2. 1 = Len(queue) /\ AgentEnded
      BY <1>1, <3>1 DEF StreamInv, SentinelLast
    <3>3. Tail(queue) = <<>>
      <4>1. Len(queue) - 1 = 0
        BY <3>2
      <4>2. Len(Tail(queue)) = 0
        BY <1>5, <4>1, Zenon
      <4>3. \A t \in Seq(All) : Len(t) = 0 => t = <<>>
        BY EmptySeq
      <4> QED
        BY <1>2, <4>2, <4>3, Zenon
    <3> QED
      BY <1>1, <1>4, <3>2, <3>3, CollectedEmpty DEF AgentEnded, Formatted, rest
  <2>7. NothingLost'
    BY <1>4, <1>7, <2>1, <2>3, <2>5 DEF NothingLost, Join
  <2> QED
    BY <1>6, <2>2, <2>3, <2>6, <2>7 DEF StreamInv
<1>9. CASE head # "None"
  <2> DEFINE e == Event(head)
  <2>1. EventOf[head] = e /\ (e # "none" => e \in Events /\ e \in {"content", "reasoning", "comment"})
    BY <1>2, <1>9 DEF EventOf, Event, Events, All, ChunkTypes
  <2>2. \/ e # "none" /\ Yield(e, "top") /\ broken' = broken
        \/ e = "none" /\ stream' = "top" /\ UNCHANGED <<sent, resumeAt, broken>>
        \/ e # "none" /\ Yield("error", "finish") /\ broken' = TRUE
    BY <1>1, <1>9 DEF Handle
  <2> HIDE DEF e
  <2>3. CASE e # "none" /\ Yield(e, "top") /\ broken' = broken
    <3>1. /\ sent' = Append(sent, e) /\ stream' = "send" /\ resumeAt' = "top"
          /\ sent \in Seq(Events) /\ e \in Events
      BY <1>1, <2>1, <2>3 DEF Yield, TypeOK
    <3>2. Delivered' = Append(Delivered, e)
      BY <1>1, <2>1, <2>3, <3>1, DeliveredAppend
    <3>3. ~HasEnd(sent')
      <4>1. e \notin {"metadata", "DONE"}
        BY <2>1, <2>3
      <4> QED
        BY <1>1, <3>1, <4>1, HasEndAppend
    <3>4. Formatted(queue) = Join(Append(<<>>, e), rest)
      BY <1>3, <2>1, <2>3 DEF Adding
    <3>5. Join(Delivered, Formatted(queue)) = Join(Delivered', rest)
      BY <1>3, <1>7, <3>1, <3>2, <3>4, JoinMove
    <3>6. NothingLost'
      BY <1>4, <1>7, <2>3, <3>5 DEF NothingLost, Join
    <3> QED
      BY <1>6, <3>1, <3>3, <3>6 DEF StreamInv, Left
  <2>4. CASE e = "none" /\ stream' = "top" /\ UNCHANGED <<sent, resumeAt, broken>>
    <3>1. Adding(EventOf, <<>>, head) = <<>>
      BY <2>1, <2>4 DEF Adding
    <3>2. Formatted(queue) = rest
      BY <1>3, <3>1, JoinOK
    <3>3. Delivered' = Delivered
      BY <2>4 DEF Delivered
    <3>4. NothingLost'
      BY <1>4, <1>7, <2>4, <3>2, <3>3 DEF NothingLost, Join
    <3> QED
      BY <1>1, <1>6, <2>4, <3>4 DEF StreamInv, Left
  <2>5. CASE Yield("error", "finish") /\ broken' = TRUE
    <3>1. sent' = Append(sent, "error") /\ stream' = "send" /\ resumeAt' = "finish"
      BY <2>5 DEF Yield
    <3>2. ~HasEnd(sent')
      BY <1>1, <3>1, HasEndAppend DEF TypeOK, Events
    <3> QED
      BY <1>6, <2>5, <3>1, <3>2 DEF StreamInv, NothingLost
  <2> QED
    BY <2>2, <2>3, <2>4, <2>5
<1> QED
  BY <1>8, <1>9

\* A step of the agent: what it puts is queued, and its sentinel comes last.
LEMMA PutInv ==
  ASSUME IInv, UnchangedStream,
         \/ UNCHANGED <<queue, put>>
         \/ queue' = Append(queue, "None") /\ put' = put
         \/ \E c \in ChunkTypes : queue' = Append(queue, c) /\ put' = Append(put, c),
         queue' = queue \/ ~AgentEnded,
         AgentEnded => AgentEnded',
         queue' = Append(queue, "None") => AgentEnded'
  PROVE  StreamInv'
<1>1. /\ TypeOK /\ StreamInv /\ reasoning' = reasoning /\ stream' = stream
      /\ resumeAt' = resumeAt /\ sent' = sent /\ broken' = broken
  BY DEF IInv, UnchangedStream
<1>2. EventOf' = EventOf /\ Delivered' = Delivered
  BY <1>1, SameFormats DEF Delivered
<1>3. /\ Delivered \in Seq(Events) /\ Formatted(queue) \in Seq(Events)
      /\ (~broken => Join(Delivered, Formatted(queue)) = Formatted(put))
  BY <1>1, FormattedTypes DEF StreamInv, NothingLost, Join
<1>4. /\ Formatted(queue)' = Collected(queue', EventOf)
      /\ Formatted(put)' = Collected(put', EventOf)
  BY <1>2 DEF Formatted
<1>5. CASE UNCHANGED <<queue, put>>
  <2>1. Formatted(queue)' = Formatted(queue) /\ Formatted(put)' = Formatted(put)
    BY <1>4, <1>5 DEF Formatted
  <2> QED
    BY <1>1, <1>2, <1>5, <2>1 DEF StreamInv, NothingLost, SentinelLast, Left
<1>6. ASSUME NEW c \in All, queue' = Append(queue, c), ~AgentEnded
      PROVE  /\ (c # "None" \/ AgentEnded' => SentinelLast') /\ (Left => broken)
             /\ Formatted(queue)' = Adding(EventOf, Formatted(queue), c)
  <2>1. queue \in Seq(All)
    BY <1>1 DEF TypeOK, All
  <2>2. /\ Len(queue') = Len(queue) + 1 /\ queue'[Len(queue) + 1] = c /\ Len(queue) \in Nat
        /\ \A i \in 1..Len(queue) : queue'[i] = queue[i]
    BY <1>6, <2>1, AppendProperties, LenProperties
  <2>3. \A i \in 1..Len(queue) : queue[i] # "None"
    BY <1>1, <1>6 DEF StreamInv, SentinelLast
  <2>4. \A i \in 1..Len(queue') : i \in 1..Len(queue) \/ i = Len(queue')
    BY <2>2
  <2>5. c # "None" \/ AgentEnded' => SentinelLast'
    BY <2>2, <2>3, <2>4 DEF SentinelLast
  <2> QED
    BY <1>1, <1>4, <1>6, <2>5, FormattedAppend DEF StreamInv, Formatted
<1>7. CASE queue' = Append(queue, "None") /\ put' = put
  <2>1. "None" \in All /\ ~AgentEnded /\ AgentEnded'
    <3>1. queue' # queue
      <4>1. queue \in Seq(All) /\ "None" \in All
        BY <1>1 DEF TypeOK, All
      <4>2. Len(queue') = Len(queue) + 1 /\ Len(queue) \in Nat
        BY <1>7, <4>1, AppendProperties, LenProperties
      <4> QED
        BY <4>2
    <3> QED
      BY <1>7, <3>1 DEF All
  <2>2. /\ SentinelLast' /\ (Left => broken)
        /\ Formatted(queue)' = Adding(EventOf, Formatted(queue), "None")
    BY <1>6, <1>7, <2>1
  <2>3. Formatted(queue)' = Formatted(queue)
    BY <2>2 DEF Adding, EventOf
  <2>4. Formatted(put)' = Formatted(put)
    BY <1>4, <1>7 DEF Formatted
  <2> QED
    BY <1>1, <1>2, <2>2, <2>3, <2>4 DEF StreamInv, NothingLost, Left
<1>8. ASSUME NEW c \in ChunkTypes, queue' = Append(queue, c), put' = Append(put, c)
      PROVE  StreamInv'
  <2>1. c \in All /\ c # "None"
    BY DEF All, ChunkTypes
  <2>2. ~AgentEnded
    <3>1. queue \in Seq(All)
      BY <1>1 DEF TypeOK, All
    <3>2. Len(queue') = Len(queue) + 1 /\ Len(queue) \in Nat
      BY <1>8, <2>1, <3>1, AppendProperties, LenProperties
    <3> QED
      BY <3>2
  <2>3. /\ SentinelLast' /\ (Left => broken)
        /\ Formatted(queue)' = Adding(EventOf, Formatted(queue), c)
    BY <1>6, <1>8, <2>1, <2>2
  <2>4. Formatted(put)' = Adding(EventOf, Formatted(put), c)
    BY <1>1, <1>4, <1>8, <2>1, FormattedAppend DEF Formatted
  <2>5. Adding(EventOf, Join(Delivered, Formatted(queue)), c)
          = Join(Delivered, Adding(EventOf, Formatted(queue), c))
    BY <1>3, <2>1, FormatsMake, AddingJoin
  <2>6. NothingLost'
    <3>1. ~broken => Join(Delivered', Formatted(queue)') = Formatted(put)'
      BY <1>2, <1>3, <2>3, <2>4, <2>5
    <3> QED
      BY <1>1, <3>1 DEF NothingLost, Join
  <2> QED
    BY <1>1, <2>3, <2>6 DEF StreamInv, Left
<1> QED
  BY <1>5, <1>7, <1>8

LEMMA InitInv == Init => IInv
<1> SUFFICES ASSUME Init
             PROVE  IInv
  OBVIOUS
<1>1. TypeOK
  <2>1. /\ ioBuffer \in Seq(ChunkTypes) /\ put \in Seq(ChunkTypes) /\ sent \in Seq(Events)
        /\ queue \in Seq(ChunkTypes \union {"None"})
    BY EmptySeq, Zenon DEF Init
  <2> QED
    BY <2>1 DEF Init, TypeOK
<1>2. Formatted(queue) = <<>> /\ Formatted(put) = <<>> /\ Delivered = <<>>
  BY CollectedEmpty DEF Init, Formatted, Delivered
<1>3. NothingLost
  BY <1>2 DEF NothingLost
<1>4. SentinelLast /\ ~HasEnd(sent)
  BY DEF Init, SentinelLast, HasEnd
<1> QED
  BY <1>1, <1>3, <1>4 DEF IInv, StreamInv, Init, Left

LEMMA AgentInv == IInv /\ Agent => StreamInv'
<1> SUFFICES ASSUME IInv, Agent
             PROVE  StreamInv'
  OBVIOUS
<1>1. CASE AgentStarts
  BY <1>1, PutInv DEF AgentStarts, AgentEnded
<1>2. ASSUME NEW type \in ChunkTypes, AgentEmits(type)
      PROVE  StreamInv'
  <2>1. ~AgentEnded /\ UnchangedStream
    BY <1>2 DEF AgentEmits, Runs, AgentEnded
  <2>2. queue' = Append(queue, type) /\ put' = Append(put, type)
    BY <1>2 DEF AgentEmits
  <2>3. queue' # Append(queue, "None")
    <3>1. queue \in Seq(All) /\ type \in All /\ "None" \in All /\ type # "None"
      BY DEF IInv, TypeOK, All, ChunkTypes
    <3>2. /\ Append(queue, type)[Len(queue) + 1] = type
          /\ Append(queue, "None")[Len(queue) + 1] = "None"
      BY <3>1, AppendProperties
    <3> QED
      BY <2>2, <3>1, <3>2, Zenon
  <2> QED
    BY <2>1, <2>2, <2>3, PutInv
<1>3. CASE AgentClearsResponse
  BY <1>3, PutInv DEF AgentClearsResponse, Runs, AgentEnded
<1>4. ASSUME NEW how \in {"ok", "failed"}, AgentEnds(how)
      PROVE  StreamInv'
  BY <1>4, PutInv DEF AgentEnds, Runs, AgentEnded
<1>5. CASE AgentCancelled
  <2>1. UnchangedStream /\ ~AgentEnded /\ AgentEnded' /\ put' = put
    BY <1>5 DEF AgentCancelled, AgentEnded
  <2>2. queue' = queue \/ queue' = Append(queue, "None")
    BY <1>5 DEF AgentCancelled
  <2> QED
    BY <2>1, <2>2, PutInv
<1> QED
  BY <1>1, <1>2, <1>3, <1>4, <1>5 DEF Agent

\* An event that is not a chunk is sent, or none, and the queue is left alone.
LEMMA SendInv ==
  ASSUME IInv, UNCHANGED <<reasoning, agentVars, queue, broken>>,
         \/ sent' = sent
         \/ \E e \in Events \ {"content", "reasoning", "comment"} :
              /\ sent' = Append(sent, e)
              /\ e \in {"metadata", "DONE"} => resumeAt' \in {"DONE", "end"},
         HasEnd(sent) => resumeAt' \in {"DONE", "end"},
         stream' \in {"top", "get"} => resumeAt' = "top",
         Left' /\ ~broken => AgentEnded /\ Formatted(queue) = <<>>
  PROVE  StreamInv'
<1>1. /\ TypeOK /\ StreamInv /\ reasoning' = reasoning /\ queue' = queue /\ put' = put
      /\ agent' = agent /\ broken' = broken /\ sent \in Seq(Events)
  BY DEF IInv, agentVars, TypeOK
<1>2. Formatted(queue)' = Formatted(queue) /\ Formatted(put)' = Formatted(put)
  BY <1>1, SameFormats DEF Formatted
<1>3. Delivered' = Delivered
  <2>1. CASE sent' = sent
    BY <2>1 DEF Delivered
  <2>2. ASSUME NEW e \in Events \ {"content", "reasoning", "comment"}, sent' = Append(sent, e)
        PROVE  Delivered' = Delivered
    BY <1>1, <2>2, DeliveredAppend
  <2> QED
    BY <2>1, <2>2
<1>4. HasEnd(sent') => resumeAt' \in {"DONE", "end"}
  <2>1. ASSUME NEW e \in Events, sent' = Append(sent, e),
               e \in {"metadata", "DONE"} => resumeAt' \in {"DONE", "end"}
        PROVE  HasEnd(sent') => resumeAt' \in {"DONE", "end"}
    BY <1>1, <2>1, HasEndAppend
  <2> QED
    BY <2>1
<1>5. NothingLost'
  BY <1>1, <1>2, <1>3 DEF StreamInv, NothingLost
<1>6. SentinelLast'
  BY <1>1 DEF StreamInv, SentinelLast, AgentEnded
<1> QED
  BY <1>1, <1>2, <1>4, <1>5, <1>6 DEF StreamInv, AgentEnded

LEMMA LoopTopInv == IInv /\ LoopTop => StreamInv'
<1> SUFFICES ASSUME IInv, LoopTop
             PROVE  StreamInv'
  OBVIOUS
<1>1. stream = "top" /\ resumeAt = "top" /\ ~HasEnd(sent)
  BY DEF IInv, StreamInv, LoopTop
<1>2. CASE AgentEnded /\ queue = <<>> /\ LeaveLoop
  <2>1. Formatted(queue) = <<>>
    BY <1>2, CollectedEmpty DEF Formatted
  <2>2. \/ Yield("error", "finish")
        \/ Yield("finish", "metadata")
    BY <1>2 DEF LeaveLoop
  <2>3. UNCHANGED <<reasoning, agentVars, queue, broken>>
    BY <1>2 DEF LeaveLoop
  <2>4. \/ sent' = Append(sent, "error")
        \/ sent' = Append(sent, "finish")
    BY <2>2 DEF Yield
  <2>5. stream' = "send"
    BY <2>2 DEF Yield
  <2> QED
    BY <1>1, <1>2, <2>1, <2>3, <2>4, <2>5, SendInv DEF Events
<1>3. CASE Take
  BY <1>1, <1>3, TakeInv
<1>4. CASE Wait
  BY <1>1, <1>4, SendInv DEF Wait, Left
<1> QED
  BY <1>2, <1>3, <1>4 DEF LoopTop

LEMMA ResumeInv == IInv /\ Resume => StreamInv'
<1> SUFFICES ASSUME IInv, Resume
             PROVE  StreamInv'
  OBVIOUS
<1>1. /\ TypeOK /\ StreamInv /\ stream = "send"
      /\ UNCHANGED <<reasoning, agentVars, queue, broken>>
  BY DEF IInv, Resume
<1>2. /\ HasEnd(sent) => resumeAt \in {"DONE", "end"}
      /\ Left /\ ~broken => AgentEnded /\ Formatted(queue) = <<>>
  BY <1>1 DEF StreamInv
<1>3. CASE resumeAt = "start"
  <2>1. sent' = Append(sent, "role") /\ stream' = "send" /\ resumeAt' = "top"
    BY <1>3 DEF Resume, Yield
  <2> QED
    BY <1>1, <1>2, <1>3, <2>1, SendInv DEF Left, Events
<1>4. CASE resumeAt = "top"
  <2>1. sent' = sent /\ stream' = "top" /\ resumeAt' = "top"
    BY <1>4 DEF Resume
  <2> QED
    BY <1>1, <1>2, <1>4, <2>1, SendInv DEF Left
<1>5. CASE resumeAt = "finish"
  <2>1. sent' = Append(sent, "finish") /\ stream' = "send" /\ resumeAt' = "metadata"
    BY <1>5 DEF Resume, Yield
  <2> QED
    BY <1>1, <1>2, <1>5, <2>1, SendInv DEF Left, Events
<1>6. CASE resumeAt = "metadata"
  <2>1. sent' = Append(sent, "metadata") /\ stream' = "send" /\ resumeAt' = "DONE"
    BY <1>6 DEF Resume, Yield
  <2> QED
    BY <1>1, <1>2, <1>6, <2>1, SendInv DEF Left, Events
<1>7. CASE resumeAt = "DONE"
  <2>1. sent' = Append(sent, "DONE") /\ stream' = "send" /\ resumeAt' = "end"
    BY <1>7 DEF Resume, Yield
  <2> QED
    BY <1>1, <1>2, <1>7, <2>1, SendInv DEF Left, Events
<1>8. CASE resumeAt = "end"
  <2>1. sent' = sent /\ stream' = "closed" /\ resumeAt' = "end"
    BY <1>8 DEF Resume
  <2> QED
    BY <1>1, <1>2, <1>8, <2>1, SendInv DEF Left
<1> QED
  BY <1>1, <1>3, <1>4, <1>5, <1>6, <1>7, <1>8 DEF TypeOK

LEMMA StepInv == IInv /\ [Next]_vars => IInv'
<1> SUFFICES ASSUME IInv, [Next]_vars
             PROVE  IInv'
  OBVIOUS
<1>1. TypeOK'
  BY StepTypes DEF IInv
<1>2. CASE UNCHANGED vars
  <2>1. StreamInv'
    BY <1>2, SameFormats DEF vars, IInv, StreamInv, NothingLost, SentinelLast, Left, AgentEnded,
       Delivered, Formatted
  <2> QED
    BY <1>1, <2>1 DEF IInv
<1>3. CASE Agent
  BY <1>1, <1>3, AgentInv DEF IInv
<1>4. CASE LoopTop
  BY <1>1, <1>4, LoopTopInv DEF IInv
<1>5. CASE Receive
  BY <1>1, <1>5, TakeInv DEF IInv, Receive
<1>6. CASE Resume
  BY <1>1, <1>6, ResumeInv DEF IInv
<1>7. CASE Keepalive
  <2>1. resumeAt = "top"
    BY <1>7 DEF IInv, StreamInv, Keepalive
  <2>2. StreamInv'
    BY <1>7, <2>1, SendInv DEF Keepalive, Left, IInv, StreamInv
  <2> QED
    BY <1>1, <2>2 DEF IInv
<1>8. CASE DisconnectSending
  <2>1. StreamInv'
    BY <1>8, SendInv DEF DisconnectSending, Left, IInv, StreamInv
  <2> QED
    BY <1>1, <2>1 DEF IInv
<1>9. CASE DisconnectWaiting
  <2>1. UNCHANGED <<reasoning, agent, put, queue, resumeAt, sent, broken>> /\ stream' = "cancelled"
    BY <1>9 DEF DisconnectWaiting
  <2>2. EventOf' = EventOf /\ Formatted(queue)' = Formatted(queue)
        /\ Formatted(put)' = Formatted(put) /\ Delivered' = Delivered
    BY <2>1, SameFormats DEF Formatted, Delivered
  <2>3. StreamInv'
    BY <2>1, <2>2 DEF IInv, StreamInv, NothingLost, SentinelLast, Left, AgentEnded
  <2> QED
    BY <1>1, <2>3 DEF IInv
<1> QED
  BY <1>2, <1>3, <1>4, <1>5, <1>6, <1>7, <1>8, <1>9 DEF Next, Generator, Client

\* Every reachable state satisfies the inductive invariant.
THEOREM InductiveTheorem == Spec => []IInv
<1>1. Init => IInv
  BY InitInv
<1>2. IInv /\ [Next]_vars => IInv'
  BY StepInv
<1> QED
  BY <1>1, <1>2, PTL DEF Spec

\* The buffers, the queue and the events of a response keep their types.
THEOREM TypeCorrect == Spec => []TypeOK
<1>1. IInv => TypeOK
  BY DEF IInv
<1> QED
  BY <1>1, InductiveTheorem, PTL

\* However the timeouts of the generator race with the chunks of the agent, what
\* the client got and what is still queued is what the agent wrote, in order.
THEOREM NothingLostTheorem == Spec => []NothingLost
<1>1. IInv => NothingLost
  BY DEF IInv, StreamInv
<1> QED
  BY <1>1, InductiveTheorem, PTL

\* The metadata of a response and [DONE] are sent after the agent has ended and
\* when all that it wrote has been delivered.
THEOREM CompleteTheorem == Spec => []CompleteAtEnd
<1>1. IInv => CompleteAtEnd
  <2> SUFFICES ASSUME IInv, HasEnd(sent), ~broken
               PROVE  AgentEnded /\ Delivered = Formatted(put)
    BY DEF CompleteAtEnd, HasEnd
  <2>1. AgentEnded /\ Formatted(queue) = <<>>
    BY DEF IInv, StreamInv, Left
  <2>2. Join(Delivered, Formatted(queue)) = Formatted(put) /\ Delivered \in Seq(Events)
    BY FormattedTypes DEF IInv, StreamInv, NothingLost, Join
  <2>3. Join(Delivered, <<>>) = Delivered
    BY <2>2, ConcatEmptySeq DEF Join
  <2> QED
    BY <2>1, <2>2, <2>3
<1> QED
  BY <1>1, InductiveTheorem, PTL
=============================================================================
