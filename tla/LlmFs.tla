------------------------------- MODULE LlmFs --------------------------------
(* The LLM file server (crates/llmfs) and the engine's client of it.  A Generation is a directory
   that opening `clone` (or `evaluate`) allocates; a request clunked into `data` starts the
   provider; `events` carries the records a consumer tails; `ctl` aborts.  Four parties race over
   one Generation: the clunk that starts it, the detached task that drains it, an abort, and the
   removal of its Connection.  A client's future can be dropped (cancelled or timed out) at every
   suspension point of the calls it is awaiting, and its whole task can be aborted there.         *)
EXTENDS Naturals, Sequences, FiniteSets, FiniteSetsExt

CONSTANTS
    Clients,     \* the calls of the engine's client, 1 .. n in the order they start; a retry is another
    Handles,     \* the names a Connection is reachable by, "name" and "snap" among them
    MaxGens,     \* bound: Generations ever allocated
    MaxConns,    \* bound: Connections ever registered
    MaxStarts,   \* ConnectionLimits: starts of one kind a Connection allows
    MaxUsage,    \* bound: largest token total a provider reports
    MaxText,     \* bound: text records of one Generation
    Retain,      \* RETAIN_TERMINAL_GENERATIONS_PER_CONNECTION
    None         \* no client, no Generation

VARIABLES
    conn,        \* the Connection each handle names, 0 if it names none
    made,        \* Connections registered so far
    starts,      \* per Connection and kind, operations reserved
    total,       \* per Connection, the metered tokens
    provider,    \* per Connection, who holds the provider's mutex
    gens,        \* the Generations, in the order of allocation
    task,        \* the detached task of each Generation
    client,      \* each call's program counter and Generation
    ops          \* the unregister_connection in progress

vars == <<conn, made, starts, total, provider, gens, task, client, ops>>

Ids == 1 .. Len(gens)
Conns == 1 .. MaxConns
Terminals == {"done", "error", "rejected", "aborted"}
Terminal(g) == gens[g].status \in Terminals

Fresh(h, e) ==
    [handle |-> h, conn |-> conn[h], evaluation |-> e, status |-> "open", events |-> <<>>, usage |-> 0,
     permit |-> FALSE, finalizing |-> FALSE, listed |-> TRUE, calls |-> 0, orphan |-> FALSE]

Idle == [pc |-> "idle", gen |-> 0]

Init ==
    /\ conn = [h \in Handles |-> 0]
    /\ made = 0
    /\ starts = [c \in Conns |-> [e \in BOOLEAN |-> 0]]
    /\ total = [c \in Conns |-> 0]
    /\ provider = [c \in Conns |-> None]
    /\ gens = <<>>
    /\ task = [g \in 1 .. MaxGens |-> "none"]
    /\ client = [c \in Clients |-> Idle]
    /\ ops = [handle |-> None, active |-> {}, todo |-> {}, marking |-> None]

-----------------------------------------------------------------------------
(* What the holders of a Generation do to it: each takes the record and returns the changed one. *)

\* claim: the one transition out of `open`.
Claim(r, to) == IF r.status = "open" THEN [r EXCEPT !.status = to] ELSE r

\* fail_generation, and the rejection of a malformed request: a single winner writes the record.
Ended(r, to) ==
    IF r.status \in Terminals THEN r ELSE [r EXCEPT !.status = to, !.events = Append(@, to)]

Rejected(r) ==
    IF r.status = "open" THEN [r EXCEPT !.status = "rejected", !.events = Append(@, "rejected")] ELSE r

\* abort_generation: the record is written first, the status advanced after it, then the waiter woken.
Marked(r) == [r EXCEPT !.events = Append(@, "aborted"), !.finalizing = TRUE]
Aborted(r) == [r EXCEPT !.status = "aborted", !.finalizing = FALSE, !.permit = TRUE]

\* The meter moves by what a report exceeds the previous one of the same Generation.
Delta(r, u) == IF u > r.usage THEN u - r.usage ELSE 0

Starts(c) == client[c].pc = "idle" /\ \A d \in Clients : d < c => client[d].pc # "idle"
Goto(c, pc) == client' = [client EXCEPT ![c].pc = pc]
Return(c) == client' = [client EXCEPT ![c] = [Idle EXCEPT !.pc = "returned"]]
Change(g, r) == gens' = [gens EXCEPT ![g] = r]
Release(kind, i) == provider' = [p \in Conns |-> IF provider[p] = <<kind, i>> THEN None ELSE provider[p]]

-----------------------------------------------------------------------------
(* Connections *)

Register ==
    /\ made < MaxConns
    /\ made' = made + 1
    /\ conn' = [conn EXCEPT !["name"] = made']
    /\ UNCHANGED <<starts, total, provider, gens, task, client, ops>>

\* An alias, or the snapshot a process captures before it runs: another handle on the Connection.
Share(h) ==
    /\ h # "name" /\ conn["name"] # 0
    /\ \A c \in Clients : client[c].pc = "idle"
    /\ conn' = [conn EXCEPT ![h] = conn["name"]]
    /\ UNCHANGED <<made, starts, total, provider, gens, task, client, ops>>


Owned(h) == {g \in Ids : gens[g].listed /\ gens[g].handle = h}

Unregister(h) ==
    /\ h # "snap" /\ conn[h] # 0
    /\ ops.handle = None
    /\ LET active == {g \in Owned(h) : ~Terminal(g)} IN
         /\ ops' = [handle |-> h, active |-> active, todo |-> active, marking |-> None]
         /\ gens' = [g \in Ids |-> [gens[g] EXCEPT !.listed = @ /\ g \notin Owned(h) \ active]]
    /\ conn' = [conn EXCEPT ![h] = 0]
    /\ UNCHANGED <<made, starts, total, provider, task, client>>

UnregisterAbort(g) ==
    /\ ops.marking = None /\ g \in ops.todo
    /\ ~gens[g].finalizing
    /\ IF Terminal(g)
       THEN /\ ops' = [ops EXCEPT !.todo = @ \ {g}]
            /\ UNCHANGED gens
       ELSE /\ ops' = [ops EXCEPT !.todo = @ \ {g}, !.marking = g]
            /\ Change(g, Marked(gens[g]))
    /\ UNCHANGED <<conn, made, starts, total, provider, task, client>>

UnregisterMark ==
    /\ ops.marking # None
    /\ Change(ops.marking, Aborted(gens[ops.marking]))
    /\ ops' = [ops EXCEPT !.marking = None]
    /\ UNCHANGED <<conn, made, starts, total, provider, task, client>>

UnregisterEnd ==
    /\ ops.handle # None /\ ops.marking = None /\ ops.todo = {}
    /\ gens' = [g \in Ids |-> [gens[g] EXCEPT !.listed = @ /\ g \notin ops.active]]
    /\ ops' = [handle |-> None, active |-> {}, todo |-> {}, marking |-> None]
    /\ UNCHANGED <<conn, made, starts, total, provider, task, client>>

-----------------------------------------------------------------------------
(* The client: allocate, commit, tail `events`; abort when it is cancelled or out of time. *)

\* reap_terminal_generations: only the newest Retain settled Generations of a handle stay listed.
Reap(gs, h) ==
    LET settled == {g \in DOMAIN gs : gs[g].listed /\ gs[g].handle = h /\ gs[g].status \in Terminals}
    IN  [g \in DOMAIN gs |->
           [gs[g] EXCEPT !.listed =
              @ /\ ~(g \in settled /\ Cardinality({k \in settled : k > g}) >= Retain)]]

TryReserve(p, e) ==
    /\ starts[p][e] < MaxStarts
    /\ starts' = [starts EXCEPT ![p][e] = @ + 1]

Allocate(c, h, e) ==
    /\ Starts(c)
    /\ Len(gens) < MaxGens
    /\ conn[h] # 0
    /\ TryReserve(conn[h], e)
    /\ gens' = Reap(Append(gens, Fresh(h, e)), h)
    /\ client' = [client EXCEPT ![c] = [pc |-> "commit", gen |-> Len(gens')]]
    /\ UNCHANGED <<conn, made, total, provider, task, ops>>

\* A second writer clunks a request into the `data` of an existing Generation.
Join(c, g) ==
    /\ Starts(c) /\ gens[g].listed
    /\ client' = [client EXCEPT ![c] = [pc |-> "commit", gen |-> g]]
    /\ UNCHANGED <<conn, made, starts, total, provider, gens, task, ops>>

\* The clunk finds the Generation gone, or already claimed.
CommitRefused(c) ==
    /\ client[c].pc = "commit"
    /\ ~gens[client[c].gen].listed \/ gens[client[c].gen].status # "open"
    /\ Return(c)
    /\ UNCHANGED <<conn, made, starts, total, provider, gens, task, ops>>

CommitMalformed(c) ==
    LET g == client[c].gen IN
    /\ client[c].pc = "commit" /\ gens[g].listed
    /\ ~gens[g].finalizing
    /\ Change(g, Rejected(gens[g]))
    /\ Return(c)
    /\ UNCHANGED <<conn, made, starts, total, provider, task, ops>>

\* Mutant: the running Generation is not claimed before the provider is awaited.
MutCommit(c) ==
    LET g == client[c].gen IN
    /\ client[c].pc = "commit" /\ gens[g].listed
    /\ gens[g].status \in {"open", "running"}
    /\ Change(g, [gens[g] EXCEPT !.status = "running"])
    /\ IF gens[g].evaluation
       THEN task' = [task EXCEPT ![g] = "wait"] /\ Goto(c, "open")
       ELSE UNCHANGED task /\ Goto(c, "wait")
    /\ UNCHANGED <<conn, made, starts, total, provider, ops>>

\* A generation is started by the clunk itself, an evaluation by a detached task.
Commit(c) ==
    LET g == client[c].gen IN
    /\ client[c].pc = "commit" /\ gens[g].listed
    /\ gens[g].status = "open"
    /\ Change(g, Claim(gens[g], "running"))
    /\ IF gens[g].evaluation
       THEN task' = [task EXCEPT ![g] = "wait"] /\ Goto(c, "open")
       ELSE UNCHANGED task /\ Goto(c, "wait")
    /\ UNCHANGED <<conn, made, starts, total, provider, ops>>

StartProvider(c) ==
    LET g == client[c].gen IN
    /\ client[c].pc = "wait"
    /\ ~gens[g].permit
    /\ provider[gens[g].conn] = None
    /\ provider' = [provider EXCEPT ![gens[g].conn] = <<"call", c>>]
    /\ Change(g, [gens[g] EXCEPT !.calls = @ + 1])
    /\ Goto(c, "asking")
    /\ UNCHANGED <<conn, made, starts, total, task, ops>>

\* The biased select takes the abort's permit before anything else.
StartAborted(c) ==
    LET g == client[c].gen IN
    /\ client[c].pc \in {"wait", "asking"}
    /\ gens[g].permit
    /\ Change(g, [gens[g] EXCEPT !.permit = FALSE])
    /\ Release("call", c)
    /\ Goto(c, "open")
    /\ UNCHANGED <<conn, made, starts, total, task, ops>>

\* Startup finished: drain detached, unless the Generation was aborted meanwhile.
Started(c) ==
    LET g == client[c].gen IN
    /\ client[c].pc = "asking"
    /\ ~gens[g].permit
    /\ Release("call", c)
    /\ task' = [task EXCEPT ![g] = IF gens[g].status = "aborted" THEN @ ELSE "recv"]
    /\ Goto(c, "open")
    /\ UNCHANGED <<conn, made, starts, total, gens, ops>>

StartFailed(c) ==
    /\ client[c].pc = "asking"
    /\ ~gens[client[c].gen].permit
    /\ Release("call", c)
    /\ Goto(c, "fail")
    /\ UNCHANGED <<conn, made, starts, total, gens, task, ops>>

Fail(c) ==
    LET g == client[c].gen IN
    /\ client[c].pc = "fail"
    /\ ~gens[g].finalizing
    /\ Change(g, Ended(gens[g], "error"))
    /\ Return(c)
    /\ UNCHANGED <<conn, made, starts, total, provider, task, ops>>

\* Opening `events` pins the stream; a Generation no longer listed is not found.
OpenEvents(c) ==
    /\ client[c].pc = "open"
    /\ IF gens[client[c].gen].listed THEN Goto(c, "read") ELSE Return(c)
    /\ UNCHANGED <<conn, made, starts, total, provider, gens, task, ops>>

\* Tailing ends with the terminal record; what precedes it only accumulates into the response.
ReadTerminal(c) ==
    LET seen == gens[client[c].gen].events IN
    /\ client[c].pc = "read"
    /\ seen # <<>> /\ seen[Len(seen)] \in Terminals
    /\ Return(c)
    /\ UNCHANGED <<conn, made, starts, total, provider, gens, task, ops>>

\* Mutant: the dropped call is not followed by an abort.
MutGiveUp(c) ==
    /\ client[c].pc \in {"commit", "wait", "asking", "fail", "open", "read"}
    /\ Release("call", c)
    /\ Return(c)
    /\ UNCHANGED <<conn, made, starts, total, gens, task, ops>>

\* Cancellation or the timeout drops the awaited call and then aborts the Generation.
GiveUp(c) ==
    /\ client[c].pc \in {"commit", "wait", "asking", "fail", "open", "read"}
    /\ Release("call", c)
    /\ Goto(c, "abort")
    /\ UNCHANGED <<conn, made, starts, total, gens, task, ops>>

Abort(c) ==
    LET g == client[c].gen IN
    /\ client[c].pc = "abort"
    /\ \/ /\ ~gens[g].listed \/ (Terminal(g) /\ ~gens[g].finalizing)
          /\ Return(c) /\ UNCHANGED gens
       \/ /\ gens[g].listed /\ ~Terminal(g) /\ ~gens[g].finalizing
          /\ Change(g, Marked(gens[g])) /\ Goto(c, "mark")
    /\ UNCHANGED <<conn, made, starts, total, provider, task, ops>>

Mark(c) ==
    LET g == client[c].gen IN
    /\ client[c].pc = "mark"
    /\ Change(g, Aborted(gens[g]))
    /\ Return(c)
    /\ UNCHANGED <<conn, made, starts, total, provider, task, ops>>

\* The runtime task is aborted.  (An evaluation has a guard that aborts it on drop: GiveUp.)
Kill(c) ==
    LET g == client[c].gen IN
    /\ client[c].pc \in {"commit", "wait", "asking", "fail", "open", "read", "abort"}
    /\ ~gens[g].evaluation
    /\ Release("call", c)
    /\ Return(c)
    /\ Change(g, [gens[g] EXCEPT !.orphan = @ \/ (gens[g].status = "running" /\ client[c].pc # "commit")])
    /\ UNCHANGED <<conn, made, starts, total, task, ops>>

-----------------------------------------------------------------------------
(* The detached tasks: the drain of a generation, the body of an evaluation. *)

Report(g, u, r) ==
    /\ total' = [total EXCEPT ![gens[g].conn] = @ + Delta(gens[g], u)]
    /\ Change(g, [r EXCEPT !.usage = u])

TaskAborted(g) ==
    /\ task[g] \in {"recv", "wait", "asking"}
    /\ gens[g].permit
    /\ Change(g, [gens[g] EXCEPT !.permit = FALSE])
    /\ Release("task", g)
    /\ task' = [task EXCEPT ![g] = "none"]
    /\ UNCHANGED <<conn, made, starts, total, client, ops>>

\* The provider's stream yields a chunk, or its last: a finished one, an error, or the close.
Receive(g, k) ==
    /\ task[g] = "recv"
    /\ ~gens[g].permit
    /\ k = "text" => Len(gens[g].events) < MaxText
    /\ task' = [task EXCEPT ![g] = k]
    /\ UNCHANGED <<conn, made, starts, total, provider, gens, client, ops>>

\* Mutant: the drain appends without looking at the status again under the lock.
MutDrain(g, u) ==
    /\ task[g] \in {"text", "last"}
    /\ ~gens[g].finalizing
    /\ \/ /\ task[g] = "text"
          /\ Report(g, u, [gens[g] EXCEPT !.events = Append(@, "text")])
          /\ task' = [task EXCEPT ![g] = "recv"]
       \/ /\ task[g] = "last"
          /\ Report(g, u, [gens[g] EXCEPT !.events = Append(@, "done"), !.status = "done"])
          /\ task' = [task EXCEPT ![g] = "none"]
    /\ UNCHANGED <<conn, made, starts, provider, client, ops>>

Drain(g, u) ==
    /\ task[g] \in {"text", "last"}
    /\ ~gens[g].finalizing
    /\ \/ /\ Terminal(g)
          /\ task' = [task EXCEPT ![g] = "none"]
          /\ UNCHANGED <<gens, total>>
       \/ /\ ~Terminal(g) /\ task[g] = "text"
          /\ Report(g, u, [gens[g] EXCEPT !.events = Append(@, "text")])
          /\ task' = [task EXCEPT ![g] = "recv"]
       \/ /\ ~Terminal(g) /\ task[g] = "last"
          /\ \E to \in {"done", "error"} : Report(g, u, Ended(gens[g], to))
          /\ task' = [task EXCEPT ![g] = "none"]
    /\ UNCHANGED <<conn, made, starts, provider, client, ops>>

Ask(g) ==
    /\ task[g] = "wait"
    /\ ~gens[g].permit
    /\ provider[gens[g].conn] = None
    /\ provider' = [provider EXCEPT ![gens[g].conn] = <<"task", g>>]
    /\ Change(g, [gens[g] EXCEPT !.calls = @ + 1])
    /\ task' = [task EXCEPT ![g] = "asking"]
    /\ UNCHANGED <<conn, made, starts, total, client, ops>>

\* The choice arrives; or an error, an invalid selection; or the deadline passes first.
Answer(g) ==
    /\ task[g] = "asking"
    /\ ~gens[g].permit
    /\ Release("task", g)
    /\ task' = [task EXCEPT ![g] = "publish"]
    /\ UNCHANGED <<conn, made, starts, total, gens, client, ops>>

Expire(g) ==
    /\ task[g] \in {"wait", "asking"}
    /\ ~gens[g].permit
    /\ Release("task", g)
    /\ task' = [task EXCEPT ![g] = "fail"]
    /\ UNCHANGED <<conn, made, starts, total, gens, client, ops>>

Publish(g, u) ==
    /\ task[g] = "publish"
    /\ ~gens[g].finalizing
    /\ IF Terminal(g) THEN UNCHANGED <<gens, total>> ELSE Report(g, u, Ended(gens[g], "done"))
    /\ task' = [task EXCEPT ![g] = "none"]
    /\ UNCHANGED <<conn, made, starts, provider, client, ops>>

TaskFail(g) ==
    /\ task[g] = "fail"
    /\ ~gens[g].finalizing
    /\ Change(g, Ended(gens[g], "error"))
    /\ task' = [task EXCEPT ![g] = "none"]
    /\ UNCHANGED <<conn, made, starts, total, provider, client, ops>>

-----------------------------------------------------------------------------
ClientStep(c) ==
    \/ CommitRefused(c) \/ CommitMalformed(c) \/ Commit(c)
    \/ StartProvider(c) \/ StartAborted(c) \/ Fail(c)
    \/ OpenEvents(c) \/ ReadTerminal(c) \/ Abort(c) \/ Mark(c)

\* What a provider may report (bound): its largest total, except that the last chunk may report less.
Usages(g) == IF task[g] = "last" THEN 0 .. MaxUsage ELSE {MaxUsage}

TaskStep(g) ==
    \/ TaskAborted(g) \/ Expire(g) \/ TaskFail(g)
    \/ \E u \in Usages(g) : Drain(g, u) \/ Publish(g, u)

OpsStep == UnregisterMark \/ UnregisterEnd \/ \E g \in Ids : UnregisterAbort(g)

Next ==
    \/ Register \/ OpsStep
    \/ \E h \in Handles : Share(h) \/ Unregister(h)
    \/ \E c \in Clients :
         \/ \E h \in Handles, e \in BOOLEAN : Allocate(c, h, e)
         \/ \E g \in Ids : Join(c, g)
         \/ ClientStep(c)
         \/ Started(c) \/ StartFailed(c)
         \/ GiveUp(c) \/ Kill(c)
    \/ \E g \in Ids :
         \/ TaskStep(g)
         \/ Ask(g) \/ Answer(g)
         \/ \E k \in {"text", "last"} : Receive(g, k)

\* Tasks run, timeouts and deadlines fire; nothing is assumed of the provider or of the callers.
\* No step can be undone, so that some enabled one is always taken is all that is needed.
Progress ==
    \/ \E c \in Clients : ClientStep(c) \/ GiveUp(c)
    \/ \E g \in Ids : TaskStep(g)
    \/ OpsStep

Fairness == WF_vars(Progress)

Spec == Init /\ [][Next]_vars /\ Fairness

-----------------------------------------------------------------------------
(* Every `events` has at most one terminal record, nothing follows it, and a Generation nobody is
   finalizing is settled exactly when its last record says so: an abort, a drain, a failed start
   and a rejected request never both end it, and no chunk slips in after the abort.               *)
EndsOnce ==
    \A g \in Ids :
        LET r == gens[g] ends == {i \in DOMAIN r.events : r.events[i] \in Terminals} IN
        /\ ends \subseteq {Len(r.events)}
        /\ ~r.finalizing => (IF Terminal(g) THEN ends # {} /\ r.events[Len(r.events)] = r.status ELSE ends = {})

(* At most one request of a Generation reaches the provider, however many writers clunk one, and
   what a Connection's limits allow and its meter shows covers every call and every token reported
   through any of its handles: aliases and snapshots share one budget.                              *)
CallsAreMetered ==
    /\ \A g \in Ids : gens[g].calls <= 1
    /\ \A p \in Conns :
         LET mine == {g \in Ids : gens[g].conn = p} IN
         /\ \A e \in BOOLEAN :
              Cardinality({g \in mine : gens[g].evaluation = e /\ gens[g].calls > 0}) <= MaxStarts
         /\ MapThenSumSet(LAMBDA g : gens[g].usage, mine) <= total[p]

(* A snapshot a process captured is its own: replacing or unregistering the Connection under its
   name neither aborts nor hides a Generation of the snapshot, even one using the same provider.    *)
SnapshotStep == ops' # ops => \A g \in Ids : gens[g].handle = "snap" => gens'[g] = gens[g]

(* No Generation runs forever: a consumer at the live edge of its `events` gets a terminal record
   even if the provider never answers, because the client's timeout and the evaluation's deadline
   end it.  Only the death of a generation's client is excluded.                                    *)
Runs == \E g \in Ids : gens[g].status = "running" /\ ~gens[g].orphan
RunningEnds == []<>~Runs

(* The same without the exclusion, as the server's documentation puts it: a consumer tailing
   `events` never blocks forever.                                                                   *)
TailingNeverBlocks == []<>(\A g \in Ids : gens[g].status # "running")
=============================================================================
