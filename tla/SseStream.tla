------------------------------ MODULE SseStream ------------------------------
(***************************************************************************)
(* One streaming response: run_agent of server/app.py writes chunks through *)
(* HttpIOInterface (server/io_adapter.py) into an unbounded asyncio.Queue,  *)
(* and the generator sse_stream (server/streaming.py) turns them into       *)
(* server-sent events.  The generator runs without interruption between     *)
(* its awaits: queue.get, and the yields at which the server sends an event *)
(* to the client.  A client that goes away cancels the server's sending     *)
(* task: the generator sees CancelledError if it is waiting for the queue,  *)
(* and nothing at all if it is suspended at a yield.                        *)
(* Keepalive comments are not recorded.  Nothing in the program calls       *)
(* io.error, so there are no chunks of that type.                           *)
(***************************************************************************)
EXTENDS Naturals, Sequences

CONSTANT MaxChunks          \* bound: chunks one agent puts

ASSUME BoundAssumption == MaxChunks \in Nat

ChunkTypes == {"assistant", "thinking", "progress", "text"}

VARIABLES
  reasoning,       \* request.include_reasoning, fixed
  agent,           \* the state of agent_task
  cancelRequested, \* agent_task.cancel() was called
  ioBuffer,        \* HttpIOInterface._buffer
  queue,           \* HttpIOInterface._stream_queue
  stream,          \* where the generator stands
  resumeAt,        \* where it goes on after the yield it is suspended at
  sent,            \* the events given to the server
  put,             \* history: all chunks put into the queue
  broken           \* history: the generator's own error path was taken

vars == <<reasoning, agent, cancelRequested, ioBuffer, queue, stream, resumeAt,
          sent, put, broken>>
agentVars == <<agent, cancelRequested, ioBuffer, put>>

AgentEnded == agent \in {"ok", "failed", "cancelled"}
StreamEnded == stream \in {"closed", "cancelled", "abandoned"}
Events == {"role", "content", "reasoning", "comment", "error", "finish",
           "metadata", "DONE"}

\* The sequence of what f makes of the entries, without those of which it makes "none".
Adding(f, collected, entry) ==
  IF f[entry] = "none" THEN collected ELSE Append(collected, f[entry])

Collected(entries, f) ==
  LET upto[k \in 0..Len(entries)] ==
        IF k = 0 THEN <<>> ELSE Adding(f, upto[k - 1], entries[k])
  IN  upto[Len(entries)]

\* The type invariant.
TypeOK ==
  /\ reasoning \in BOOLEAN
  /\ agent \in {"queued", "running", "ok", "failed", "cancelled"}
  /\ cancelRequested \in BOOLEAN
  /\ ioBuffer \in Seq(ChunkTypes) /\ put \in Seq(ChunkTypes)
  /\ queue \in Seq(ChunkTypes \union {"None"})
  /\ stream \in {"send", "top", "get", "closed", "cancelled", "abandoned"}
  /\ resumeAt \in {"start", "top", "finish", "metadata", "DONE", "end"}
  /\ sent \in Seq(Events)
  /\ broken \in BOOLEAN

\* agent_task was just created; the generator has not been started.
Init ==
  /\ reasoning \in BOOLEAN
  /\ agent = "queued"
  /\ cancelRequested = FALSE
  /\ ioBuffer = <<>>
  /\ queue = <<>>
  /\ stream = "send"
  /\ resumeAt = "start"
  /\ sent = <<>>
  /\ put = <<>>
  /\ broken = FALSE

-----------------------------------------------------------------------------
(***************************************************************************)
(* The agent                                                               *)
(***************************************************************************)

UnchangedStream == UNCHANGED <<reasoning, stream, resumeAt, sent, broken>>

\* It gets a slot of _AGENT_SEMAPHORE.
AgentStarts ==
  /\ agent = "queued"
  /\ ~cancelRequested
  /\ agent' = "running"
  /\ UNCHANGED <<cancelRequested, ioBuffer, queue, put>>
  /\ UnchangedStream

Runs == agent = "running" /\ ~cancelRequested

\* ai, system and print: into the buffer and into the queue.
AgentEmits(type) ==
  /\ Runs
  /\ Len(put) < MaxChunks
  /\ ioBuffer' = Append(ioBuffer, type)
  /\ queue' = Append(queue, type)
  /\ put' = Append(put, type)
  /\ UNCHANGED <<agent, cancelRequested>>
  /\ UnchangedStream

NotAssistant == [type \in ChunkTypes |-> IF type = "assistant" THEN "none" ELSE type]

\* clear_response_text, called before a synthesis.
AgentClearsResponse ==
  /\ Runs
  /\ ioBuffer' = Collected(ioBuffer, NotAssistant)
  /\ UNCHANGED <<agent, cancelRequested, queue, put>>
  /\ UnchangedStream

\* Mutant of AgentEnds: a failed agent does not signal its end.
AgentEnds_SilentFailure(how) ==
  /\ Runs
  /\ agent' = how
  /\ queue' = IF how = "ok" THEN Append(queue, "None") ELSE queue
  /\ UNCHANGED <<cancelRequested, ioBuffer, put>>
  /\ UnchangedStream

\* signal_done in the finally clause: the unbounded queue does not block it, so
\* the sentinel is put in the step in which the task ends.
AgentEnds(how) ==
  /\ Runs
  /\ agent' = how
  /\ queue' = Append(queue, "None")
  /\ UNCHANGED <<cancelRequested, ioBuffer, put>>
  /\ UnchangedStream

\* CancelledError reaches the agent: before it has its slot no clause runs.
AgentCancelled ==
  /\ cancelRequested
  /\ agent \in {"queued", "running"}
  /\ agent' = "cancelled"
  /\ queue' = IF agent = "running" THEN Append(queue, "None") ELSE queue
  /\ UNCHANGED <<cancelRequested, ioBuffer, put>>
  /\ UnchangedStream

-----------------------------------------------------------------------------
(***************************************************************************)
(* The generator                                                           *)
(***************************************************************************)

\* _format_chunk: "none" is an event that is not sent.
Event(type) ==
  CASE type = "assistant" -> "content"
    [] type = "thinking" -> IF reasoning THEN "reasoning" ELSE "comment"
    [] type = "progress" -> "comment"
    [] type = "text" -> "none"

Yield(event, next) ==
  /\ sent' = Append(sent, event)
  /\ stream' = "send"
  /\ resumeAt' = next

\* A chunk was taken from the queue: send it, skip it, fail to format it, or
\* leave the loop on the sentinel.
Handle(chunk) ==
  IF chunk = "None"
  THEN Yield("finish", "metadata") /\ UNCHANGED broken
  ELSE \/ /\ Event(chunk) # "none"
          /\ Yield(Event(chunk), "top")
          /\ UNCHANGED broken
       \/ /\ Event(chunk) = "none"
          /\ stream' = "top"
          /\ UNCHANGED <<sent, resumeAt, broken>>
       \/ /\ Event(chunk) # "none"
          /\ Yield("error", "finish")
          /\ broken' = TRUE

Take ==
  /\ queue # <<>>
  /\ queue' = Tail(queue)
  /\ Handle(Head(queue))
  /\ UNCHANGED reasoning
  /\ UNCHANGED agentVars

\* agent_task.done() and queue.empty(): a failure is reported, then the end.
LeaveLoop ==
  /\ IF agent = "failed" THEN Yield("error", "finish")
                         ELSE Yield("finish", "metadata")
  /\ UNCHANGED <<reasoning, agentVars, queue, broken>>

Wait ==
  /\ queue = <<>>
  /\ stream' = "get"
  /\ UNCHANGED <<reasoning, agentVars, queue, resumeAt, sent, broken>>

\* Mutant of LoopTop: does not wait for the queue to drain.
LoopTop_NotDrained ==
  /\ stream = "top"
  /\ IF AgentEnded THEN LeaveLoop ELSE Take \/ Wait

\* The head of the loop; queue.get returns at once when there is a chunk.
LoopTop ==
  /\ stream = "top"
  /\ IF AgentEnded /\ queue = <<>> THEN LeaveLoop ELSE Take \/ Wait

Receive == stream = "get" /\ Take

\* Mutant of Keepalive: the chunk that arrives with the timeout is lost.
Keepalive_Loses ==
  /\ stream = "get"
  /\ stream' = "send"
  /\ resumeAt' = "top"
  /\ queue' = IF queue = <<>> THEN queue ELSE Tail(queue)
  /\ UNCHANGED <<reasoning, agentVars, sent, broken>>

\* wait_for times out, also when a chunk has just arrived: it stays in the queue.
Keepalive ==
  /\ stream = "get"
  /\ stream' = "send"
  /\ resumeAt' = "top"
  /\ UNCHANGED <<reasoning, agentVars, queue, sent, broken>>

\* The server asks for the next event.
Resume ==
  /\ stream = "send"
  /\ CASE resumeAt = "start" -> Yield("role", "top")
       [] resumeAt = "top" -> stream' = "top" /\ UNCHANGED <<sent, resumeAt>>
       [] resumeAt = "finish" -> Yield("finish", "metadata")
       [] resumeAt = "metadata" -> Yield("metadata", "DONE")
       [] resumeAt = "DONE" -> Yield("DONE", "end")
       [] resumeAt = "end" -> stream' = "closed" /\ UNCHANGED <<sent, resumeAt>>
  /\ UNCHANGED <<reasoning, agentVars, queue, broken>>

\* Mutant of DisconnectWaiting: the agent is not cancelled.
DisconnectWaiting_KeepsAgent ==
  /\ stream = "get"
  /\ stream' = "cancelled"
  /\ UNCHANGED <<reasoning, agentVars, queue, resumeAt, sent, broken>>

\* The client goes away while the generator waits for the agent.
DisconnectWaiting ==
  /\ stream = "get"
  /\ cancelRequested' = TRUE
  /\ stream' = "cancelled"
  /\ UNCHANGED <<reasoning, agent, ioBuffer, put, queue, resumeAt, sent, broken>>

\* The client goes away while an event is on its way to it: the generator is
\* dropped where it stands, and the agent goes on.
DisconnectSending ==
  /\ stream = "send"
  /\ stream' = "abandoned"
  /\ UNCHANGED <<reasoning, agentVars, queue, resumeAt, sent, broken>>

Agent ==
  \/ AgentStarts
  \/ \E type \in ChunkTypes : AgentEmits(type)
  \/ AgentClearsResponse
  \/ \E how \in {"ok", "failed"} : AgentEnds(how)
  \/ AgentCancelled

Generator ==
  \/ LoopTop
  \/ Receive
  \/ Resume

Client ==
  \/ DisconnectWaiting
  \/ DisconnectSending

Next == Agent \/ Generator \/ Keepalive \/ Client

Spec == Init /\ [][Next]_vars

\* The event loop runs what is ready, a sent event is taken by the server, and
\* a cancelled task gets its CancelledError.  Nothing is asked of the agent, of
\* the client, or of the keepalive timer.
FairSpec == Spec /\ WF_vars(Generator) /\ WF_vars(AgentCancelled)

-----------------------------------------------------------------------------
(***************************************************************************)
(* Properties                                                              *)
(***************************************************************************)

EventOf == [chunk \in ChunkTypes \union {"None"} |->
              IF chunk = "None" THEN "none" ELSE Event(chunk)]
Formatted(chunks) == Collected(chunks, EventOf)

FromChunk == [event \in Events |->
                IF event \in {"content", "reasoning", "comment"} THEN event ELSE "none"]
Delivered == Collected(sent, FromChunk)

\* What the client got and what is still queued is exactly what the agent wrote,
\* in order: nothing is lost, doubled or reordered, also when a timeout races
\* with a chunk.
NothingLost ==
  ~broken => Delivered \o Formatted(queue) = Formatted(put)

\* The metadata and [DONE] come after the agent has ended and all it wrote has
\* been delivered: the counters in the metadata are final.
CompleteAtEnd ==
  /\ \E i \in DOMAIN sent : sent[i] \in {"metadata", "DONE"}
  /\ ~broken
  => AgentEnded /\ Delivered = Formatted(put)

\* The end of the agent always ends the response, without help from the timer.
StreamEnds == AgentEnded ~> StreamEnded

\* A client that leaves while the agent works frees the agent's slot.
CancelStopsAgent == stream = "cancelled" ~> AgentEnded
=============================================================================
