----------------------------- MODULE Providers ------------------------------
(***************************************************************************)
(* The clients of the model providers (llm/src): the requests they send and*)
(* the streams they read.                                                  *)
(***************************************************************************)
EXTENDS Naturals, Sequences, SequencesExt, FiniteSets, TLC

-----------------------------------------------------------------------------
(***************************************************************************)
(* A streamed generation inside the model clients (llm/src): the bytes of  *)
(* the provider's event stream become StreamChunks.                        *)
(*                                                                         *)
(*   wire -> SseEventParser -> transport task -> [projection task]         *)
(*        -> [guard_stream task] -> the receiver that generate_stream gave *)
(*                                                                         *)
(* Six families of provider are modelled side by side.  "chat" (Chat       *)
(* Completions) has a projection task and no guard; "anthropic" and        *)
(* "gemini" have both; "openai", "chatgpt" (Responses) and "openrouter"    *)
(* project in the transport task and have a guard.  The channels between   *)
(* the tasks are bounded; the transport reports its outcome over a oneshot *)
(* (`status') after it has dropped its sender.                             *)
(*                                                                         *)
(* A message is what the provider means to say: text and the arguments of  *)
(* tool calls, in pieces.  Reasoning, usage and response ids travel like   *)
(* text and are left out.  The connection may be cut or fail at any byte.  *)
(***************************************************************************)

CONSTANTS Families, Messages, Cap

VARIABLES provider, message, script,  \* chosen at the start
          pos, net,     \* bytes delivered; is the connection "open", "eof" or "error"?
          parser,       \* SseEventParser
          transport, projection, guard,   \* the tasks
          queue,        \* the channels "events", "chunks" and "out"
          status,       \* the oneshot
          receiver, got \* the caller's end and what it has received

streamVars == <<provider, message, script, pos, net, parser, transport, projection, guard,
                queue, status, receiver, got>>

Split == provider \in {"chat", "anthropic", "gemini"}
Guarded == provider # "chat"
Responses == {"openai", "chatgpt"}

-----------------------------------------------------------------------------
(* What a provider sends for a message.                                    *)

Event(t, c, i, d) == [type |-> t, choice |-> c, index |-> i, data |-> d]
Junk == Event("junk", 0, 0, <<>>)
Done == Event("[DONE]", 0, 0, <<>>)

\* A tool call without arguments is sent as the empty object.
Arguments(call) == IF call = <<>> THEN <<"{}">> ELSE call

TextEvents(c, text) == [k \in DOMAIN text |-> Event("text", c, 0, <<text[k]>>)]

\* Piece k of call i, the pieces of the calls taking turns; piece 0 names the call.
PieceOrder(a, b) == a[1] < b[1] \/ (a[1] = b[1] /\ a[2] < b[2])
Pieces(calls, from) ==
    SetToSortSeq(UNION {{<<k, i>> : k \in from..Len(calls[i])} : i \in DOMAIN calls}, PieceOrder)
Piece(calls, p) == IF p[1] = 0 THEN <<>> ELSE <<calls[p[2]][p[1]]>>

PieceEvents(calls, from) ==
    LET ps == Pieces(calls, from)
    IN  [n \in DOMAIN ps |-> Event(IF ps[n][1] = 0 THEN "call" ELSE "args", 0, ps[n][2],
                                   Piece(calls, ps[n]))]

ItemEvents(calls) == [i \in DOMAIN calls |-> Event("item", 0, i, Arguments(calls[i]))]

BlockEvents(i, call) ==
    <<Event("start", 0, i, <<"{}">>)>>
    \o (IF call = <<>> THEN <<>> ELSE <<Event("args", 0, i, <<>>)>>)
    \o [k \in DOMAIN call |-> Event("args", 0, i, <<call[k]>>)]
    \o <<Event("stop", 0, i, <<>>)>>

WholeCalls(calls) == [i \in DOMAIN calls |-> Event("whole", 0, i, Arguments(calls[i]))]

Finish(c) == <<Event("finish", c, 0, <<>>)>>

\* A second choice (candidate) that says only "o".
Other == TextEvents(1, <<"o">>) \o Finish(1)

WithOther(body) == {body, Other \o body,
                  <<Event("role", 1, 0, <<>>)>> \o body \o Other}

Scripts(p, m) ==
    LET texts == TextEvents(0, m.text)
    IN CASE p = "chat" ->
              {s \o <<Done>> : s \in WithOther(texts \o PieceEvents(m.calls, 0) \o Finish(0))}
         [] p = "openrouter" ->
              {texts \o PieceEvents(m.calls, 0) \o Finish(0) \o <<Done>>}
         [] p \in Responses ->
              {texts \o PieceEvents(m.calls, 1) \o ItemEvents(m.calls) \o <<e>> :
                   e \in {Event("completed", 0, 0, <<>>), Event("failed", 0, 0, <<>>), Done}}
         [] p = "anthropic" ->
              {texts \o FlattenSeq([i \in DOMAIN m.calls |-> BlockEvents(i, m.calls[i])]) \o e :
                   e \in {<<Event("delta", 0, 0, <<>>), Event("message_stop", 0, 0, <<>>)>>,
                          <<Event("error", 0, 0, <<>>)>>}}
         [] p = "gemini" ->
              WithOther(texts \o WholeCalls(m.calls) \o Finish(0))
              \cup {<<Event("blocked", 0, 0, <<>>)>>}

\* An event on the wire: its data line in two halves, the end of the line and an empty line.
Wire(s) == FlattenSeq([n \in DOMAIN s |-> <<<<"half", s[n]>>, <<"rest", s[n]>>,
                                            <<"nl", s[n]>>, <<"nl", s[n]>>>>])

-----------------------------------------------------------------------------
(* SseEventParser.  Half a data line that is taken for a whole one is not  *)
(* valid JSON.                                                             *)

NewParser == [line |-> <<>>, data |-> <<>>]

ProcessLine(p) == IF p.line = <<>> THEN [p EXCEPT !.data = <<>>]
                                   ELSE [line |-> <<>>, data |-> p.line]

Push(p, token) == CASE token[1] = "half" -> [p EXCEPT !.line = <<Junk>>]
                    [] token[1] = "rest" -> [p EXCEPT !.line = <<token[2]>>]
                    [] token[1] = "nl" -> ProcessLine(p)

\* The events that push and finish return.
Pushed(p, token) == IF token[1] = "nl" /\ p.line = <<>> THEN p.data ELSE <<>>
Flushed(p) == p.data \o p.line

-----------------------------------------------------------------------------
(* Chunks and the state of a projection.                                   *)

Chunk == [text |-> <<>>, index |-> 0, named |-> FALSE, delta |-> <<>>, final |-> <<>>,
          finished |-> FALSE, reason |-> "none"]
Terminal(reason) == [Chunk EXCEPT !.finished = TRUE, !.reason = reason]
TextChunk(d) == [Chunk EXCEPT !.text = d]
DeltaChunk(i, named, d) == [Chunk EXCEPT !.index = i, !.named = named, !.delta = d]
FinalChunk(i, d) == [Chunk EXCEPT !.index = i, !.named = TRUE, !.final = d]

Fresh == [payload |-> FALSE, tools |-> FALSE, reason |-> "none", choice |-> 99,
          indices |-> <<>>, blocks |-> <<>>, final |-> FALSE]

\* What handling an event does: the new state, the chunks to send, and the
\* outcome if the task returns ("none" if it goes on).
Result(st, chunks, outcome) == [st |-> st, chunks |-> chunks, outcome |-> outcome]

FinishReason(tools) == IF tools THEN "tool_calls" ELSE "stop"

\* Responses: deltas and finished function calls are payload.
ResponsesPayload(st, e) ==
    LET paid == [st EXCEPT !.payload = TRUE]
    IN CASE e.type = "text" -> Result(paid, <<TextChunk(e.data)>>, "none")
         [] e.type = "args" -> Result(paid, <<DeltaChunk(e.index, FALSE, e.data)>>, "none")
         [] e.type = "item" -> Result([paid EXCEPT !.tools = TRUE],
                                      <<FinalChunk(e.index, e.data)>>, "none")

\* A terminal event ends the stream; without payload only response.completed
\* is passed on.
ResponsesTerminal(st, e) ==
    CASE e.type = "completed" ->
           Result(st, <<Terminal(FinishReason(st.tools \/ message.calls # <<>>))>>, "ok")
      [] e.type = "failed" ->
           Result(st, IF st.payload THEN <<Terminal("stream_error")>> ELSE <<>>, "ok")
      [] e.type = "[DONE]" ->
           Result(st, IF st.payload THEN <<Terminal(FinishReason(st.tools))>> ELSE <<>>, "ok")

ResponsesEvent(st, e) ==
    CASE e.type \in {"text", "args", "item"} -> ResponsesPayload(st, e)
      [] e.type \in {"completed", "failed", "[DONE]"} -> ResponsesTerminal(st, e)
      [] e.type = "junk" -> Result(st, <<>>, "none")

\* At the end of the bytes the OpenAI client looks only for [DONE] in what
\* the parser still holds.
ResponsesEof(st, rest) ==
    LET last == IF rest = <<>> \/ (provider = "openai" /\ rest # <<Done>>)
                THEN Result(st, <<>>, "none") ELSE ResponsesEvent(st, rest[1])
    IN  IF last.outcome = "ok" THEN last
        ELSE Result(last.st,
                    last.chunks \o (IF last.st.payload
                                    THEN <<Terminal(FinishReason(last.st.tools))>> ELSE <<>>),
                    "ok")

RouterEvent(st, e) ==
    LET paid == [st EXCEPT !.payload = TRUE]
    IN CASE e.type = "text" -> Result(paid, <<TextChunk(e.data)>>, "none")
         [] e.type \in {"call", "args"} ->
              Result(paid, <<DeltaChunk(e.index, e.type = "call", e.data)>>, "none")
         [] e.type = "finish" -> Result([st EXCEPT !.reason = "stop"], <<>>, "none")
         [] e.type = "[DONE]" -> Result(st, <<Terminal("stop")>>, "ok")
         [] e.type = "junk" -> Result(st, <<>>, "stream_error:parse")

RouterEof(st, rest) ==
    LET last == IF rest = <<>> THEN Result(st, <<>>, "none") ELSE RouterEvent(st, rest[1])
    IN  IF last.outcome = "none" THEN [last EXCEPT !.outcome = "stream_error:closed"] ELSE last

\* The transport of a split family forwards what parses.
ForwardEvent(st, e) ==
    CASE e.type = "[DONE]" -> Result(st, <<>>, "ok")
      [] e.type = "junk" /\ provider = "chat" -> Result(st, <<>>, "stream_error:parse")
      [] e.type = "junk" /\ provider # "chat" -> Result(st, <<>>, "none")
      [] OTHER -> Result(st, <<e>>, "none")

MutForwardEof(st, rest) ==
    LET last == IF rest = <<>> THEN Result(st, <<>>, "none") ELSE ForwardEvent(st, rest[1])
    IN  IF last.outcome = "none" THEN [last EXCEPT !.outcome = "ok"] ELSE last

ForwardEof(st, rest) ==
    LET last == IF rest = <<>> THEN Result(st, <<>>, "none") ELSE ForwardEvent(st, rest[1])
    IN  IF last.outcome # "none" THEN last
        ELSE [last EXCEPT !.outcome = IF provider = "chat" THEN "stream_error:closed" ELSE "ok"]

TransportEvent(st, e) == CASE Split -> ForwardEvent(st, e)
                           [] provider = "openrouter" -> RouterEvent(st, e)
                           [] OTHER -> ResponsesEvent(st, e)

TransportEof(st, rest) == CASE Split -> ForwardEof(st, rest)
                            [] provider = "openrouter" -> RouterEof(st, rest)
                            [] OTHER -> ResponsesEof(st, rest)

-----------------------------------------------------------------------------
(* The projection tasks.                                                   *)

\* select_stream_choice_index, select_stream_candidate_index: choice 0 if it
\* shows up before any payload, else the first one seen.
SelectChoice(st, c) == IF st.choice = 99 \/ (c = 0 /\ ~st.payload) THEN c ELSE st.choice

\* allocate_stream_tool_index: indices are handed out in order of appearance.
MutAllocate(st, e) == Len(st.indices) + 1
Allocate(st, e) ==
    LET key == <<e.choice, e.index>>
    IN  IF Contains(st.indices, key)
        THEN CHOOSE n \in DOMAIN st.indices : st.indices[n] = key
        ELSE Len(st.indices) + 1

Allocated(st, e) == IF Contains(st.indices, <<e.choice, e.index>>) THEN st.indices
                    ELSE Append(st.indices, <<e.choice, e.index>>)

ChatEvent(st, e) ==
    LET sel == [st EXCEPT !.choice = SelectChoice(st, e.choice)]
        paid == [sel EXCEPT !.payload = TRUE]
    IN CASE sel.choice # e.choice \/ e.type = "role" -> Result(sel, <<>>, "none")
         [] sel.choice = e.choice /\ e.type = "text" ->
              Result(paid, <<TextChunk(e.data)>>, "none")
         [] sel.choice = e.choice /\ e.type \in {"call", "args"} ->
              Result([paid EXCEPT !.indices = Allocated(st, e)],
                     <<DeltaChunk(Allocate(st, e), e.type = "call", e.data)>>, "none")
         [] sel.choice = e.choice /\ e.type = "finish" ->
              Result([sel EXCEPT !.reason = "stop"], <<>>, "none")

\* StreamedToolUseState: the preview starts with the input of the block's
\* start, the arguments that count are the accumulated pieces.
FinalizedArguments(b) == IF b.seen THEN b.acc ELSE b.start
Finalize(i, b) ==
    (IF b.seen THEN <<>> ELSE <<DeltaChunk(i, TRUE, b.start)>>)
    \o (IF FinalizedArguments(b) = <<>> THEN <<>> ELSE <<FinalChunk(i, FinalizedArguments(b))>>)

BlockDelta(st, e) ==
    IF e.type = "text" THEN Result(st, <<TextChunk(e.data)>>, "none")
    ELSE LET b == st.blocks[e.index]
             preview == IF b.seen THEN e.data ELSE b.start \o e.data
         IN  Result([st EXCEPT !.blocks[e.index] = [@ EXCEPT !.acc = @ \o e.data, !.seen = TRUE]],
                    <<DeltaChunk(e.index, TRUE, preview)>>, "none")

\* The end of one block, or of the message and every block still open.
StopBlocks(st, ended, last) ==
    LET order == SetToSortSeq(ended \cap DOMAIN st.blocks, <)
    IN  Result([st EXCEPT !.blocks = [i \in DOMAIN @ \ ended |-> @[i]]],
               FlattenSeq([n \in DOMAIN order |-> Finalize(order[n], st.blocks[order[n]])]) \o last,
               "none")

AnthropicEvent(st, e) ==
    CASE e.type = "start" ->
           Result([st EXCEPT !.blocks =
                       (e.index :> [start |-> e.data, acc |-> <<>>, seen |-> FALSE]) @@ @],
                  <<DeltaChunk(e.index, TRUE, <<>>)>>, "none")
      [] e.type \in {"text", "args"} -> BlockDelta(st, e)
      [] e.type = "stop" -> StopBlocks(st, {e.index}, <<>>)
      [] e.type = "delta" ->
           Result([st EXCEPT !.reason = FinishReason(message.calls # <<>>)], <<>>, "none")
      [] e.type = "message_stop" -> StopBlocks(st, DOMAIN st.blocks, <<Terminal(st.reason)>>)
      [] e.type = "error" -> Result(st, <<>>, "none")

GeminiEvent(st, e) ==
    LET sel == [st EXCEPT !.choice = SelectChoice(st, e.choice)]
        paid == [sel EXCEPT !.payload = TRUE]
    IN CASE e.type = "blocked" ->
              Result([st EXCEPT !.final = TRUE], <<Terminal("stream_error:safety")>>, "ok")
         [] e.type # "blocked" /\ (sel.choice # e.choice \/ e.type = "role") ->
              Result(sel, <<>>, "none")
         [] sel.choice = e.choice /\ e.type = "text" ->
              Result(paid, <<TextChunk(e.data)>>, "none")
         [] sel.choice = e.choice /\ e.type = "whole" ->
              Result([paid EXCEPT !.indices = Append(@, <<e.choice, e.index>>)],
                     <<DeltaChunk(Len(st.indices) + 1, TRUE, e.data)>>, "none")
         [] sel.choice = e.choice /\ e.type = "finish" ->
              Result([sel EXCEPT !.final = TRUE], <<Terminal("stop")>>, "none")

ProjectionEvent(st, e) == CASE provider = "chat" -> ChatEvent(st, e)
                            [] provider = "anthropic" -> AnthropicEvent(st, e)
                            [] provider = "gemini" -> GeminiEvent(st, e)

\* When its events have ended.  Only "chat" asks for the transport's outcome.
ProjectionEof(st) ==
    CASE provider = "chat" ->
           <<Terminal(IF status # "ok" THEN status
                      ELSE IF st.reason = "none" THEN "stop" ELSE st.reason)>>
      [] provider = "gemini" ->
           IF ~st.final /\ st.payload THEN <<Terminal("stream_closed")>> ELSE <<>>
      [] provider = "anthropic" -> <<>>

-----------------------------------------------------------------------------
(* Tasks and channels.                                                     *)

Task(pc) == [pc |-> pc, st |-> Fresh, todo |-> <<>>, outcome |-> "none"]

StreamInit == /\ provider \in Families /\ message \in Messages
              /\ script \in Scripts(provider, message)
              /\ pos = 0 /\ net = "open" /\ parser = NewParser
              /\ transport = Task("running")
              /\ projection = Task(IF Split THEN "running" ELSE "ended")
              /\ guard = [pc |-> IF Guarded THEN "running" ELSE "ended", held |-> <<>>]
              /\ queue = [x \in {"events", "chunks", "out"} |-> <<>>]
              /\ status = "unset" /\ receiver = "open" /\ got = <<>>

\* Where the tasks send to.
LastQueue == IF Guarded THEN "chunks" ELSE "out"
TransportQueue == IF Split THEN "events" ELSE LastQueue

\* Is the receiving half of a channel gone?
Closed(x) == CASE x = "events" -> projection.pc = "ended"
               [] x = "chunks" -> guard.pc = "ended"
               [] x = "out" -> receiver # "open"

\* Is its sending half gone?
Hung(x) == CASE x = "events" -> transport.pc # "running"
             [] x = "chunks" -> (IF Split THEN projection.pc ELSE transport.pc) # "running"
             [] x = "out" -> (IF Guarded THEN guard.pc ELSE projection.pc) = "ended"

\* One step of a task with something to send over x.
Send(task, x) ==
    /\ task.todo # <<>>
    /\ \/ /\ ~Closed(x) /\ Len(queue[x]) < Cap
          /\ queue' = [queue EXCEPT ![x] = Append(@, Head(task.todo))]
       \/ Closed(x) /\ UNCHANGED queue

\* The projection of chat and the OpenRouter transport ignore a failed send
\* (and find the channel closed at their next select), the others return.
Sent(task, x, ignores) ==
    IF Closed(x) /\ ~ignores THEN [task EXCEPT !.todo = <<>>, !.outcome = "ok"]
                             ELSE [task EXCEPT !.todo = Tail(@)]

Handled(task, r) == [task EXCEPT !.st = r.st, !.todo = r.chunks, !.outcome = r.outcome]

Idle(task) == task.pc = "running" /\ task.todo = <<>> /\ task.outcome = "none"

ReadBytes == /\ Idle(transport) /\ pos < Len(Wire(script)) /\ net = "open"
             /\ LET token == Wire(script)[pos + 1]
                    events == Pushed(parser, token)
                IN  /\ pos' = pos + 1 /\ parser' = Push(parser, token)
                    /\ transport' = IF events = <<>> THEN transport
                                    ELSE Handled(transport, TransportEvent(transport.st, events[1]))
             /\ UNCHANGED <<provider, message, script, net, projection, guard, queue, status,
                            receiver, got>>

\* The provider closes the connection after its last event, or it breaks.
Close == /\ net = "open" /\ net' \in {"eof", "error"}
         /\ UNCHANGED <<provider, message, script, pos, parser, transport, projection, guard,
                        queue, status, receiver, got>>

ReadEnd == /\ Idle(transport) /\ net # "open"
           /\ transport' = IF net = "error" THEN [transport EXCEPT !.outcome = "stream_error:body"]
                           ELSE Handled(transport, TransportEof(transport.st, Flushed(parser)))
           /\ parser' = NewParser
           /\ UNCHANGED <<provider, message, script, pos, net, projection, guard, queue, status,
                          receiver, got>>

MutTransportCancelled == FALSE /\ UNCHANGED streamVars

\* `_ = tx.closed() => return Ok(())'
TransportCancelled ==
    /\ Idle(transport) /\ Closed(TransportQueue)
    /\ transport' = [transport EXCEPT !.outcome = "ok"]
    /\ UNCHANGED <<provider, message, script, pos, net, parser, projection, guard, queue, status,
                   receiver, got>>

TransportSend ==
    /\ transport.pc = "running" /\ Send(transport, TransportQueue)
    /\ transport' = Sent(transport, TransportQueue, provider = "openrouter")
    /\ UNCHANGED <<provider, message, script, pos, net, parser, projection, guard, status,
                   receiver, got>>

\* The task returns: the sender is dropped, then the outcome is sent.
TransportReturn ==
    /\ transport.todo = <<>> /\ transport.outcome # "none"
    /\ \/ transport.pc = "running" /\ transport' = [transport EXCEPT !.pc = "dropped"]
          /\ UNCHANGED status
       \/ transport.pc = "dropped" /\ transport' = [transport EXCEPT !.pc = "ended"]
          /\ status' = transport.outcome
    /\ UNCHANGED <<provider, message, script, pos, net, parser, projection, guard, queue,
                   receiver, got>>

Project ==
    /\ Idle(projection) /\ queue["events"] # <<>>
    /\ projection' = Handled(projection, ProjectionEvent(projection.st, Head(queue["events"])))
    /\ queue' = [queue EXCEPT !["events"] = Tail(@)]
    /\ UNCHANGED <<provider, message, script, pos, net, parser, transport, guard, status,
                   receiver, got>>

ProjectEnd ==
    /\ Idle(projection) /\ queue["events"] = <<>> /\ Hung("events")
    /\ provider = "chat" => status # "unset"
    /\ projection' = [projection EXCEPT !.todo = ProjectionEof(projection.st), !.outcome = "ok"]
    /\ UNCHANGED <<provider, message, script, pos, net, parser, transport, guard, queue, status,
                   receiver, got>>

ProjectionCancelled ==
    /\ Idle(projection) /\ Closed(LastQueue)
    /\ projection' = [projection EXCEPT !.outcome = "ok"]
    /\ UNCHANGED <<provider, message, script, pos, net, parser, transport, guard, queue, status,
                   receiver, got>>

ProjectionSend ==
    /\ projection.pc = "running" /\ Send(projection, LastQueue)
    /\ projection' = Sent(projection, LastQueue, provider = "chat")
    /\ UNCHANGED <<provider, message, script, pos, net, parser, transport, guard, status,
                   receiver, got>>

ProjectionReturn ==
    /\ projection.pc = "running" /\ projection.todo = <<>> /\ projection.outcome # "none"
    /\ projection' = [projection EXCEPT !.pc = "ended"]
    /\ queue' = [queue EXCEPT !["events"] = <<>>]
    /\ UNCHANGED <<provider, message, script, pos, net, parser, transport, guard, status,
                   receiver, got>>

-----------------------------------------------------------------------------
(* guard_stream, and the caller.                                           *)

SafeReason(r) == IF r = "stream_closed" THEN "stream_error:closed" ELSE r

GuardRecv ==
    /\ guard.pc = "running" /\ guard.held = <<>> /\ queue["chunks"] # <<>>
    /\ LET c == [Head(queue["chunks"]) EXCEPT !.reason = SafeReason(@)]
       IN  guard' = IF c.finished /\ c.reason = "stream_error:closed"
                    THEN [guard EXCEPT !.pc = "asking"] ELSE [guard EXCEPT !.held = <<c>>]
    /\ queue' = [queue EXCEPT !["chunks"] = Tail(@)]
    /\ UNCHANGED <<provider, message, script, pos, net, parser, transport, projection, status,
                   receiver, got>>

GuardInputEnded ==
    /\ guard.pc = "running" /\ guard.held = <<>> /\ queue["chunks"] = <<>> /\ Hung("chunks")
    /\ guard' = [guard EXCEPT !.pc = "asking"]
    /\ UNCHANGED <<provider, message, script, pos, net, parser, transport, projection, queue,
                   status, receiver, got>>

\* No terminal, or only "closed": the transport's outcome says why.
GuardStatus ==
    /\ guard.pc = "asking" /\ guard.held = <<>> /\ status # "unset"
    /\ guard' = [pc |-> "running",
                 held |-> <<Terminal(IF status = "ok" THEN "stream_error:closed" ELSE status)>>]
    /\ UNCHANGED <<provider, message, script, pos, net, parser, transport, projection, queue,
                   status, receiver, got>>


GuardSend ==
    /\ guard.held # <<>> /\ (Closed("out") \/ Len(queue["out"]) < Cap)
    /\ LET last == Closed("out") \/ guard.held[1].finished
       IN  /\ guard' = IF last THEN [pc |-> "ended", held |-> <<>>] ELSE [guard EXCEPT !.held = <<>>]
           /\ queue' = [queue EXCEPT !["out"] = IF Closed("out") THEN @ ELSE Append(@, guard.held[1]),
                                     !["chunks"] = IF last THEN <<>> ELSE @]
    /\ UNCHANGED <<provider, message, script, pos, net, parser, transport, projection, status,
                   receiver, got>>

GuardCancelled ==
    /\ guard.pc # "ended" /\ guard.held = <<>> /\ Closed("out")
    /\ guard' = [guard EXCEPT !.pc = "ended"] /\ queue' = [queue EXCEPT !["chunks"] = <<>>]
    /\ UNCHANGED <<provider, message, script, pos, net, parser, transport, projection, status,
                   receiver, got>>

Receive == /\ receiver = "open" /\ queue["out"] # <<>>
           /\ got' = Append(got, Head(queue["out"]))
           /\ queue' = [queue EXCEPT !["out"] = Tail(@)]
           /\ UNCHANGED <<provider, message, script, pos, net, parser, transport, projection,
                          guard, status, receiver>>

ReceiveEnd == /\ receiver = "open" /\ queue["out"] = <<>> /\ Hung("out") /\ receiver' = "ended"
              /\ UNCHANGED <<provider, message, script, pos, net, parser, transport, projection,
                             guard, queue, status, got>>

\* The generation is cancelled; what is in flight is lost with the channel.
Drop == /\ receiver = "open" /\ receiver' = "dropped"
        /\ queue' = [queue EXCEPT !["out"] = <<>>] /\ got' = <<>>
        /\ UNCHANGED <<provider, message, script, pos, net, parser, transport, projection, guard,
                       status>>

Tasks == \/ TransportCancelled \/ TransportSend \/ TransportReturn
         \/ Project \/ ProjectEnd \/ ProjectionCancelled \/ ProjectionSend \/ ProjectionReturn
         \/ GuardRecv \/ GuardInputEnded \/ GuardStatus \/ GuardSend \/ GuardCancelled

StreamNext == Tasks \/ ReadBytes \/ ReadEnd \/ Close \/ Receive \/ ReceiveEnd \/ Drop

\* The runtime polls every task that can move; the network owes nothing.
StreamFairness == WF_streamVars(Tasks)

StreamSpec == StreamInit /\ [][StreamNext]_streamVars /\ StreamFairness

-----------------------------------------------------------------------------
(* Properties.                                                             *)

\* What the engine assembles from the chunks (assemble_llmfs_tool_calls):
\* the final arguments of a call if it was sent any, else its deltas.
Concat(f(_)) == FlattenSeq([n \in DOMAIN got |-> f(got[n])])
CallAt(i) ==
    LET mine == {n \in DOMAIN got : got[n].index = i}
        finals == {n \in mine : got[n].final # <<>>}
        deltas == Concat(LAMBDA c : IF c.index = i THEN c.delta ELSE <<>>)
    IN  IF finals # {} THEN got[CHOOSE n \in finals : \A k \in finals : k <= n].final
        ELSE Arguments(deltas)
Assembled ==
    LET named == SetToSortSeq({got[n].index : n \in {k \in DOMAIN got : got[k].named}}, <)
    IN  [text |-> Concat(LAMBDA c : c.text), calls |-> [k \in DOMAIN named |-> CallAt(named[k])]]

\* What the provider said: its message, or that of its second choice.
Meant == {[text |-> message.text, calls |-> [i \in DOMAIN message.calls |-> Arguments(message.calls[i])]]}
         \cup (IF \E n \in DOMAIN script : script[n].choice = 1
               THEN {[text |-> <<"o">>, calls |-> <<>>]} ELSE {})

Normal(c) == c.finished /\ c.reason \in {"stop", "tool_calls"}

\* The connection ended before the last event began.
Cut == net # "open" /\ pos <= Len(Wire(script)) - 4

\* The receiver of a streamed generation sees exactly one terminal chunk, as
\* the last one, before the channel ends; and when that terminal is a normal
\* one, the chunks before it add up to the provider's whole message, with no
\* piece of one tool call or choice mixed into another (guard_stream, "One owner forwards
\* payload and emits the sole terminal", and the projections).  The two
\* Responses clients report a cut stream as complete (see
\* TruncationIsReported), so a cut is left out for them.
OneTruthfulTerminal ==
    /\ \A n \in DOMAIN got : got[n].finished => n = Len(got)
    /\ receiver = "ended" => got # <<>> /\ got[Len(got)].finished
    /\ \A n \in DOMAIN got :
           Normal(got[n]) /\ ~(provider \in Responses /\ Cut) => Assembled \in Meant

\* A stream that ends before the provider's last event is reported as failed.
TruncationIsReported == \A n \in DOMAIN got : Normal(got[n]) => ~Cut

\* When the caller drops its receiver, every task of the stream ends,
\* whatever the network does (the `tx.closed()' branch of every select):
\* no task keeps a connection for a cancelled generation.
DroppedIsCancelled ==
    receiver = "dropped"
        ~> transport.pc = "ended" /\ projection.pc = "ended" /\ guard.pc = "ended"

-----------------------------------------------------------------------------
(***************************************************************************)
(* What a provider is sent of a conversation.  The engine projects the     *)
(* messages of the Tape to provider-neutral messages, and each provider    *)
(* adapter projects those to its own request: OpenAI Chat Completions and  *)
(* compatible ("chat"), OpenAI and ChatGPT Responses ("responses"),        *)
(* Anthropic Messages, Google Gemini, OpenRouter.                          *)
(*                                                                         *)
(* A text is a sequence of tokens; a blank token is white space only.      *)
(* The only variable is the Tape, which grows message by message; every    *)
(* adapter is a function of it.                                            *)
(***************************************************************************)

CONSTANTS
    Shapes,         \* the messages a Tape can hold, their tokens still unmarked
    MaxMessages,
    None

VARIABLE tape

Adapters == {"chat", "responses", "anthropic", "gemini", "openrouter"}

\* A part of a message: kind "text", "blank", "data", "image", "document",
\* "thinking" (`by` tells if it is signed, or "sealed": signed without text) or
\* "redacted"; of an attachment, `by` is the way its metadata refers to it.
IsAttachment(x) == x.kind \in {"image", "document"}
IsThought(x)    == x.kind \in {"thinking", "redacted"}

Where(s, Test(_)) == SelectSeq(s, Test)
Each(s, F(_)) == [i \in DOMAIN s |-> F(s[i])]

NonBlank(s) == Where(s, LAMBDA x : x.kind /= "blank")
is_non_empty(s) == NonBlank(s) /= <<>>

\* From the Tape to provider-neutral messages --------------------------------------

non_thinking_text_content(parts) == Where(parts, LAMBDA x : ~IsThought(x))

\* Typed parts travel only when text alone would not do.
project_rich_content_parts(parts) ==
    IF \E i \in DOMAIN parts : IsAttachment(parts[i]) \/ parts[i].kind = "data"
    THEN Where(parts, LAMBDA x : ~IsThought(x)) ELSE <<>>

thinking_content(parts) == Where(parts, LAMBDA x : x.kind = "thinking" /\ x.by /= "sealed")

\* The signature of the last signed thought.
thinking_signature(parts) ==
    LET signed == Where(parts, LAMBDA x : x.kind = "thinking" /\ x.by \in {"signed", "sealed"})
    IN  IF signed = <<>> THEN None ELSE Last(signed).id

redacted_thinking_blocks(parts) == Where(parts, LAMBDA x : x.kind = "redacted")

Neutral(m) ==
    [role |-> m.role, content |-> non_thinking_text_content(m.parts),
     parts |-> project_rich_content_parts(m.parts),
     thinking |-> thinking_content(m.parts), signature |-> thinking_signature(m.parts),
     redacted |-> redacted_thinking_blocks(m.parts), calls |-> m.calls, callId |-> None]

ToolMessage(response) ==
    [role |-> "tool", content |-> response.content, parts |-> <<>>, thinking |-> <<>>,
     signature |-> None, redacted |-> <<>>, calls |-> <<>>, callId |-> response.id]

\* One message each, and one for every response of a tool message.
project_messages(t) ==
    FlattenSeq(Each(t, LAMBDA m : IF m.role = "tool" THEN Each(m.responses, ToolMessage)
                                  ELSE <<Neutral(m)>>))

\* Content, as the adapters share it -------------------------------------------------

\* A list of typed parts without the blank ones, or the text if none is left.
TypedContent(m) ==
    IF NonBlank(m.parts) = <<>> THEN m.content ELSE NonBlank(m.parts)

\* One string of all parts, or the text when the parts say nothing.
plain_text_content(m) ==
    IF NonBlank(m.parts) = <<>> THEN m.content ELSE m.parts

\* An item of a request: who it is from, what kind it is and its tokens or id.
Item(from, what, body) == [from |-> from, what |-> what, body |-> body]
Optional(present, item) == IF present THEN <<item>> ELSE <<>>
Ref(id) == <<[kind |-> "ref", by |-> None, id |-> id]>>

\* OpenAI Chat Completions --------------------------------------------------------------

chat_completions_part(m, a) ==
    m.role = "user" /\ ((a.kind = "image" /\ a.by = "url") \/ a.by \in {"file_id", "file_data"})

InstructionRole(m) == IF m.role \in {"system", "context"} THEN "instructions" ELSE m.role

\* One message for each, even if nothing is in it.
openai_chat_completions_message(m) ==
    LET mine == m.role = "assistant"
    IN  Optional(mine /\ is_non_empty(m.thinking), Item(m.role, "thinking", m.thinking))
        \o Optional(mine /\ m.signature /= None, Item(m.role, "signature", Ref(m.signature)))
        \o Optional(m.role /= "tool" /\ (m.role = "user" \/ TypedContent(m) /= <<>>),
                    Item(InstructionRole(m), "text", TypedContent(m)))
        \o Each(m.calls, LAMBDA c : Item(m.role, "call", Ref(c)))
        \o Optional(m.role = "tool", Item(m.role, "result", Ref(m.callId) \o TypedContent(m)))

\* OpenAI Responses -----------------------------------------------------------------------

responses_part(m, a) ==
    m.role \in {"system", "context", "user"}
    /\ IF a.kind = "image" THEN a.by \in {"url", "file_id"}
                           ELSE a.by \in {"url", "file_id", "file_data"}

responses_content(m) ==
    Optional(TypedContent(m) /= <<>>, Item(InstructionRole(m), "text", TypedContent(m)))

responses_output(m) ==
    Optional(is_non_empty(plain_text_content(m)), Item(m.role, "text", plain_text_content(m)))

\* Calls and results without an id are left out.
convert_message_for_openai_responses(m) ==
    CASE m.role \in {"system", "context", "user"} -> responses_content(m)
      [] m.role = "assistant" ->
            Optional(m.signature /= None, Item(m.role, "signature", Ref(m.signature)))
            \o responses_output(m)
            \o Each(Where(m.calls, LAMBDA c : c /= None),
                    LAMBDA c : Item(m.role, "call", Ref(c)))
      [] m.role = "tool" ->
            Optional(m.callId /= None,
                     Item(m.role, "result", Ref(m.callId) \o plain_text_content(m)))

\* Anthropic Messages -----------------------------------------------------------------------

attachment_block(m, a) == m.role = "user" /\ a.by \in {"url", "file_id"}

content_blocks(m) ==
    IF m.parts = <<>>
    THEN Optional(m.content /= <<>>, Item(m.role, "text", m.content))
    ELSE Optional(is_non_empty(TypedContent(m)), Item(m.role, "text", TypedContent(m)))

\* The signature goes with the text of the thought it signs.
AssistantBlocks(m) ==
    Optional(is_non_empty(m.thinking), Item(m.role, "thinking", m.thinking))
    \o Optional(is_non_empty(m.thinking) /\ m.signature /= None,
                Item(m.role, "signature", Ref(m.signature)))
    \o Each(m.redacted, LAMBDA r : Item(m.role, "redacted", <<r>>))
    \o content_blocks(m)
    \o Each(Where(m.calls, LAMBDA c : c /= None), LAMBDA c : Item(m.role, "call", Ref(c)))

\* A result whose call is not in the request before it is said as the user's text.
known_tool_use_ids(before) == UNION {ToSet(before[i].calls) : i \in DOMAIN before} \ {None}

MutToolBlocks(before, m) ==
    <<Item("tool", "result", Ref(m.callId) \o plain_text_content(m))>>

ToolBlocks(before, m) ==
    IF m.callId \in known_tool_use_ids(before)
    THEN <<Item("tool", "result", Ref(m.callId) \o plain_text_content(m))>>
    ELSE Optional(is_non_empty(plain_text_content(m)),
                  Item("user", "text", plain_text_content(m)))

convert_message_for_anthropic(before, m) ==
    CASE m.role = "user"      -> content_blocks(m)
      [] m.role = "assistant" -> AssistantBlocks(m)
      [] m.role = "tool"      -> ToolBlocks(before, m)
      [] OTHER                -> <<>>

\* The instructions leave the conversation for the system prompt.
anthropic_system_parts(m) ==
    Optional(m.role \in {"system", "context"} /\ is_non_empty(plain_text_content(m)),
             Item("instructions", "text", plain_text_content(m)))

\* Google Gemini ------------------------------------------------------------------------------

\* The calls of an assistant message are not sent; a result is named by its id.
project_gemini_content(m) ==
    CASE m.role \in {"user", "context"} -> <<Item("user", "text", plain_text_content(m))>>
      [] m.role = "assistant" -> <<Item("assistant", "text", plain_text_content(m))>>
      [] m.role = "tool" -> Optional(m.callId /= None,
                                     Item("tool", "result", Ref(m.callId) \o plain_text_content(m)))
      [] OTHER -> <<>>

gemini_system_parts(m) ==
    Optional(m.role = "system", Item("instructions", "text", plain_text_content(m)))

\* OpenRouter -----------------------------------------------------------------------------------

\* The reasoning fields are put back message by message after the projection.
convert_message_for_openrouter(m) ==
    LET mine == m.role = "assistant"
    IN  Optional(mine /\ is_non_empty(m.thinking), Item(m.role, "thinking", m.thinking))
        \o Optional(mine /\ m.signature /= None, Item(m.role, "signature", Ref(m.signature)))
        \o Optional(m.role /= "tool", Item(InstructionRole(m), "text", plain_text_content(m)))
        \o Each(m.calls, LAMBDA c : Item(m.role, "call", Ref(c)))
        \o Optional(m.role = "tool", Item(m.role, "result", Ref(m.callId) \o plain_text_content(m)))

\* The requests ---------------------------------------------------------------------------------

Represents(p, m, a) ==
    CASE p = "chat"      -> chat_completions_part(m, a)
      [] p = "responses" -> responses_part(m, a)
      [] p = "anthropic" -> attachment_block(m, a)
      [] OTHER           -> FALSE

\* The adapters give up on an attachment they cannot send, and OpenRouter's on a
\* result without an id.
Refused(p, messages) ==
    \E i \in DOMAIN messages :
        LET m == messages[i]
        IN  \/ \E j \in DOMAIN m.parts :
                  IsAttachment(m.parts[j]) /\ ~Represents(p, m, m.parts[j])
            \/ p = "openrouter" /\ m.role = "tool" /\ m.callId = None

Converted(p, messages) ==
    [i \in DOMAIN messages |->
        CASE p = "chat"       -> openai_chat_completions_message(messages[i])
          [] p = "responses"  -> convert_message_for_openai_responses(messages[i])
          [] p = "anthropic"  -> convert_message_for_anthropic(SubSeq(messages, 1, i - 1),
                                                               messages[i])
          [] p = "gemini"     -> project_gemini_content(messages[i])
          [] p = "openrouter" -> convert_message_for_openrouter(messages[i])]

SystemParts(p, messages) ==
    CASE p = "anthropic" -> FlattenSeq(Each(messages, anthropic_system_parts))
      [] p = "gemini"    -> FlattenSeq(Each(messages, gemini_system_parts))
      [] OTHER           -> <<>>

Request(p, t) ==
    LET messages == project_messages(t)
    IN  SystemParts(p, messages) \o FlattenSeq(Converted(p, messages))

\* The conversation grows ------------------------------------------------------------------------

\* Every token of the new message is marked with the message's place.
Marked(shape, n) ==
    LET Mark(s) == Each(s, LAMBDA x : [x EXCEPT !.id = n])
    IN  [shape EXCEPT !.parts = Mark(@),
                      !.responses = Each(@, LAMBDA r : [r EXCEPT !.content = Mark(@)])]

InputInit == tape = <<>>

\* Ids of calls are unique, and a call is answered once.
Ids(s) == UNION {ToSet(s[i].calls) : i \in DOMAIN s}
Answered(s) == UNION {{r.id : r \in ToSet(s[i].responses)} : i \in DOMAIN s}

Record(shape) ==
    /\ Len(tape) < MaxMessages
    /\ ToSet(shape.calls) \cap (Ids(tape) \cup Answered(tape)) = {}
    /\ Answered(<<shape>>) \cap Answered(tape) = {}
    /\ tape' = Append(tape, Marked(shape, Len(tape) + 1))

InputNext == \E shape \in Shapes : Record(shape)

InputSpec == InputInit /\ [][InputNext]_tape

\* Properties ------------------------------------------------------------------------------------

\* What a Tape message means to be said: every token that is not white space, in
\* order, and every call and result, whatever adapter says it.
Said(from, what, s) == Each(NonBlank(s), LAMBDA x : <<from, what, x.id>>)

MeantBy(m) ==
    IF m.role = "tool"
    THEN FlattenSeq(Each(m.responses, LAMBDA r :
            <<<<"tool", "result", r.id>>>> \o Said("tool", "result", r.content)))
    ELSE Said(InstructionRole(m), "text", Where(m.parts, LAMBDA x : ~IsThought(x)))
         \o Each(m.calls, LAMBDA c : <<m.role, "call", c>>)

Sayings(items) ==
    FlattenSeq(Each(Where(items, LAMBDA it : it.what \in {"text", "call", "result"}),
                    LAMBDA it : Said(it.from, it.what, it.body)))

\* Results whose call the Tape no longer holds before them.
Orphans(t) ==
    Answered(t) \ Ids(t)

Instructions(s) == Where(s, LAMBDA x : x[1] = "instructions")
Talk(s) == Where(s, LAMBDA x : x[1] /= "instructions")
Uncalled(s) == Where(s, LAMBDA x : x[2] /= "call")

ThoughtsKept(p, t) ==
    LET sent(what) == Where(Request(p, t), LAMBDA it : it.what = what)
        signed == Where(project_messages(t), LAMBDA m : m.signature /= None)
        open == Where(signed, LAMBDA m : m.thinking /= <<>>)
    IN  /\ p \in {"chat", "responses", "openrouter"} => Len(sent("signature")) = Len(signed)
        /\ p = "anthropic" => Len(sent("signature")) = Len(open)

\* A request says what the Tape holds: an adapter that can represent every
\* attachment says every piece of text, structured value, attachment, call and
\* result that is not white space exactly once, from the same side and in the
\* order of the Tape, with the signatures of the thoughts it takes back; one that
\* cannot refuses the request.  Anthropic and Gemini take the instructions out to
\* the front; Anthropic never sends a result whose call is not before it, while
\* the text of such a result is still said; Gemini loses the calls
\* (CallsAreReplayed).
RequestSaysTheTape ==
    \A p \in Adapters :
        LET meant == FlattenSeq(Each(tape, MeantBy))
            said  == Sayings(Request(p, tape))
        IN  Refused(p, project_messages(tape)) \/
            /\ ThoughtsKept(p, tape)
            /\ p \in {"chat", "responses", "openrouter"} => said = meant
            /\ p = "anthropic" =>
                  /\ Instructions(said) = Instructions(meant)
                  /\ Orphans(tape) = {} => Talk(said) = Talk(meant)
                  /\ Each(Talk(said), LAMBDA x : x[3]) =
                       Each(Where(Talk(meant), LAMBDA x :
                               ~(x[2] = "result" /\ x[3] \in Orphans(tape))),
                            LAMBDA x : x[3])
            /\ p = "gemini" =>
                  Each(Talk(said), LAMBDA x : x[3]) =
                    Each(Uncalled(Where(meant, LAMBDA x :
                            x[1] /= "instructions" \/ tape[x[3]].role = "context")),
                         LAMBDA x : x[3])

\* A result is sent after the call it answers, unless the Tape has lost the call:
\* a lossy projection is emulated, refused or warned about, never silent.  Gemini's
\* sends the results of calls it does not send.
CallsAreReplayed ==
    \A p \in Adapters :
        Refused(p, project_messages(tape)) \/
        LET request == Request(p, tape)
        IN  \A i \in DOMAIN request :
               request[i].what = "result" =>
                  \/ request[i].body[1].id \in Orphans(tape)
                  \/ \E j \in 1..(i - 1) :
                        request[j].what = "call" /\ request[j].body[1].id = request[i].body[1].id
=============================================================================
