------------------------------- MODULE ApWire -------------------------------
(***************************************************************************)
(* One aP connection: the client side (ImportedFileServer) multiplexes the *)
(* calls of many tasks over a byte stream, pairs answers with callers by   *)
(* tag, and must let nobody wait for an answer that can no longer come;    *)
(* the server side (export_file_server) starts requests in frame order and *)
(* answers them in any order.  Every step of a call between two awaits or  *)
(* two lock acquisitions is an action of its own.                          *)
(*                                                                         *)
(*   call      the remote_call futures; id names the request they carry    *)
(*   pending   the tags with a waiter registered                           *)
(*   closed    the closed flag                                             *)
(*   writer    who holds the writer lock                                   *)
(*   router    route_imported_responses: running, draining or finished     *)
(*   reqs, resps  frames on the wire, in both directions                   *)
(*   torn      an incomplete frame was left on the wire                    *)
(*   up, running  the export loop and the calls in its JoinSet             *)
(*   written   history: the frames written so far                          *)
(***************************************************************************)
EXTENDS Naturals, Sequences, FiniteSets

CONSTANTS Calls, NoCall, MaxRequests  \* bound on the requests ever issued

ASSUME ConstantsAssumption == NoCall \notin Calls /\ MaxRequests \in Nat \ {0}

VARIABLES call, pending, closed, writer, router, reqs, resps, torn, up, running,
          written, next

client == <<call, pending, closed, writer, router, written, next>>
wire == <<reqs, resps, torn>>
server == <<up, running>>
vars == <<client, wire, server>>

Io == 0
Ids == 1..MaxRequests
Nothing == MaxRequests + 1
Frames == [tag : Ids, id : Ids]
Idle == [pc |-> "idle", tag |-> 1, id |-> 1, got |-> Nothing]
Pcs == {"idle", "checked", "lock", "writing", "failing", "waiting"}

Init ==
    /\ call = [c \in Calls |-> Idle]
    /\ pending = {} /\ closed = FALSE /\ writer = NoCall /\ router = "running"
    /\ reqs = <<>> /\ resps = <<>> /\ torn = FALSE
    /\ up = TRUE /\ running = {}
    /\ written = 0 /\ next = 1

-----------------------------------------------------------------------------
(* The client                                                              *)

\* The first look at the closed flag; a closed connection answers Io at once.
CheckClosed(c) ==
    /\ call[c].pc = "idle"
    /\ ~closed
    /\ call' = [call EXCEPT ![c].pc = "checked"]
    /\ UNCHANGED <<pending, closed, writer, router, written, next, wire, server>>

\* next_tag.fetch_add; the waiter is registered before the frame is written.
MutRegister(c) ==
    /\ call[c].pc = "checked" /\ next \in Ids
    /\ LET t == CHOOSE x \in Ids \ pending : \A y \in Ids \ pending : x <= y IN
       /\ call' = [call EXCEPT ![c] = [Idle EXCEPT !.pc = "lock", !.tag = t,
                                                   !.id = next]]
       /\ pending' = pending \cup {t}
    /\ next' = next + 1
    /\ UNCHANGED <<closed, writer, router, written, wire, server>>
Register(c) ==
    /\ call[c].pc = "checked" /\ next \in Ids
    /\ call' = [call EXCEPT ![c] = [Idle EXCEPT !.pc = "lock", !.tag = next,
                                                !.id = next]]
    /\ pending' = pending \cup {next}
    /\ next' = next + 1
    /\ UNCHANGED <<closed, writer, router, written, wire, server>>

\* PendingResponseGuard: whatever ends a call also removes its waiter.
Finish(c) ==
    /\ call' = [call EXCEPT ![c] = Idle]
    /\ pending' = pending \ {call[c].tag}

\* The second look at the closed flag, under the writer lock.
MutAcquire(c) ==
    /\ call[c].pc = "lock" /\ writer = NoCall
    /\ writer' = c
    /\ call' = [call EXCEPT ![c].pc = "writing"]
    /\ UNCHANGED <<pending, closed, router, written, next, wire, server>>
Acquire(c) ==
    /\ call[c].pc = "lock" /\ writer = NoCall
    /\ IF closed
       THEN Finish(c) /\ UNCHANGED writer
       ELSE /\ writer' = c
            /\ call' = [call EXCEPT ![c].pc = "writing"]
            /\ UNCHANGED pending
    /\ UNCHANGED <<closed, router, written, next, wire, server>>

Sent(c) == IF up THEN Append(reqs, [tag |-> call[c].tag, id |-> call[c].id]) ELSE reqs

\* The whole frame is on its way; the peer may be gone without the writer knowing.
Write(c) ==
    /\ call[c].pc = "writing"
    /\ writer' = NoCall
    /\ written' = written + 1
    /\ reqs' = Sent(c)
    /\ call' = [call EXCEPT ![c].pc = "waiting"]
    /\ UNCHANGED <<pending, closed, router, next, resps, torn, server>>

\* The write fails or its future is dropped: ConnectionWriteGuard closes the
\* connection, first the flag, then (in AbortWrite) the waiters, and only then is
\* the writer lock released.  Nothing, a part or all of the frame got out.
Tear(c) ==
    \/ torn' = TRUE /\ UNCHANGED <<reqs, written>>
    \/ UNCHANGED <<torn, reqs, written>>
    \/ reqs' = Sent(c) /\ written' = written + 1 /\ UNCHANGED torn
MutTearWrite(c) ==
    /\ call[c].pc = "writing"
    /\ torn' = TRUE
    /\ Finish(c)
    /\ writer' = NoCall
    /\ UNCHANGED <<closed, router, written, next, reqs, resps, server>>
TearWrite(c) ==
    /\ call[c].pc = "writing"
    /\ Tear(c)
    /\ closed' = TRUE
    /\ call' = [call EXCEPT ![c].pc = "failing"]
    /\ UNCHANGED <<pending, writer, router, next, resps, server>>

\* close_imported_connection after the flag is set: everybody registered gets Io.
Drained(calls) ==
    [d \in Calls |-> IF calls[d].pc \in {"lock", "writing", "waiting"}
                           /\ calls[d].tag \in pending
                     THEN [calls[d] EXCEPT !.got = Io] ELSE calls[d]]

AbortWrite(c) ==
    /\ call[c].pc = "failing"
    /\ call' = Drained([call EXCEPT ![c] = Idle])
    /\ pending' = {}
    /\ writer' = NoCall
    /\ UNCHANGED <<closed, router, written, next, wire, server>>

\* result_rx resolves.
Return(c) ==
    /\ call[c].pc = "waiting" /\ call[c].got # Nothing
    /\ Finish(c)
    /\ UNCHANGED <<closed, writer, router, written, next, wire, server>>

\* The caller drops the future while it waits for the lock or for the answer.
Cancel(c) ==
    /\ call[c].pc \in {"lock", "waiting"}
    /\ Finish(c)
    /\ UNCHANGED <<closed, writer, router, written, next, wire, server>>

\* The response router takes one frame; a frame nobody waits for is dropped.
Route ==
    /\ router = "running" /\ resps # <<>>
    /\ resps' = Tail(resps)
    /\ pending' = pending \ {Head(resps).tag}
    /\ call' = [c \in Calls |->
          IF /\ Head(resps).tag \in pending
             /\ call[c].pc \in Pcs \ {"idle", "checked"}
             /\ call[c].tag = Head(resps).tag
          THEN [call[c] EXCEPT !.got = Head(resps).id] ELSE call[c]]
    /\ UNCHANGED <<closed, writer, router, written, next, reqs, torn, server>>

\* The router sees end of stream or a broken frame.
RouterEnds ==
    /\ router = "running"
    /\ resps = <<>> \/ up
    /\ closed' = TRUE
    /\ router' = "draining"
    /\ UNCHANGED <<call, pending, writer, written, next, wire, server>>

MutRouterDrains ==
    /\ router = "draining"
    /\ closed' = TRUE
    /\ router' = "done"
    /\ UNCHANGED <<call, pending, writer, written, next, wire, server>>
RouterDrains ==
    /\ router = "draining"
    /\ call' = Drained(call)
    /\ pending' = {}
    /\ router' = "done"
    /\ UNCHANGED <<closed, writer, written, next, wire, server>>

-----------------------------------------------------------------------------
(* The server                                                              *)

\* Requests are first polled in frame order, then left to the JoinSet.
Dispatch ==
    /\ up /\ reqs # <<>>
    /\ running' = running \cup {Head(reqs)}
    /\ reqs' = Tail(reqs)
    /\ UNCHANGED <<client, resps, torn, up>>

Respond(r) ==
    /\ running' = running \ {r}
    /\ resps' = Append(resps, r)
    /\ UNCHANGED <<client, reqs, torn, up>>

\* End of stream, a broken frame, a failed response write or a panicking call
\* ends the loop; the calls still running are aborted with it.  Frames already
\* sent to the client may or may not get through.
ServerEnds ==
    /\ up
    /\ up' = FALSE
    /\ running' = {} /\ reqs' = <<>>
    /\ resps' \in {resps, <<>>}
    /\ UNCHANGED <<client, torn>>

CallStep(c) ==
    \/ CheckClosed(c) \/ Register(c) \/ Acquire(c) \/ Write(c) \/ TearWrite(c)
    \/ AbortWrite(c) \/ Return(c) \/ Cancel(c)

Next ==
    \/ \E c \in Calls : CallStep(c)
    \/ Route \/ RouterEnds \/ RouterDrains
    \/ Dispatch \/ ServerEnds
    \/ \E r \in running : Respond(r)

Spec == Init /\ [][Next]_vars

\* Calls and the router are polled; a dead peer is noticed by the reader.  No
\* fairness for Respond: a stream read may block as long as it likes.
Fairness ==
    /\ WF_vars(Route) /\ WF_vars(~up /\ RouterEnds) /\ WF_vars(RouterDrains)
    /\ \A c \in Calls : WF_vars(Return(c)) /\ WF_vars(AbortWrite(c))

FairSpec == Spec /\ Fairness

-----------------------------------------------------------------------------
(* Properties                                                              *)

\* A caller receives the answer to its own request or Io, never the late answer
\* to a call that was cancelled before it.
AnswerIsOwn ==
    \A c \in Calls : call[c].got \in {Nothing, Io, call[c].id}

\* Once the router has finished, nobody is left waiting for it: a call that
\* registered after the waiters were drained saw the closed flag before it wrote.
NobodyStranded ==
    router = "done" =>
        \A c \in Calls : call[c].pc = "waiting" => call[c].got # Nothing

\* No frame follows an incomplete one on the wire, whoever was queued for the
\* writer lock when the write was torn.
TornIsLast == [][torn => written' = written]_vars

\* When the peer goes away every waiting call returns.
DisconnectWakesAll ==
    \A c \in Calls : (~up /\ call[c].pc = "waiting") ~> (call[c].pc # "waiting")
=============================================================================
