----------------------------- MODULE ProcLife -------------------------------
(***************************************************************************)
(* What happens to a process once it has been started: its runner, its exit*)
(* and its io, and the delivery of process events to observers.            *)
(***************************************************************************)
EXTENDS Naturals, Sequences, FiniteSets, SequencesExt

-----------------------------------------------------------------------------
(***************************************************************************)
(* One committed process of /proc after the state mutex is released        *)
(* (crates/kernel/src/procfs.rs, procfs/file_server.rs): the clunk that    *)
(* committed it still has to publish "running" and to launch its runner    *)
(* task, while ctl writes, host exit reports and output writes run         *)
(* concurrently.  One action is one section between awaits; a call whose   *)
(* future is dropped (its connection closed) stops at an await, and a task *)
(* told to abort may still run up to one.                                  *)
(***************************************************************************)

CONSTANTS Ctls,     \* calls that write "cancel" to /proc/<pid>/ctl
          Hosts,    \* record_exit calls
          Writers,  \* writes to /proc/<pid>/io/output
          ExitCodes     \* exit codes of runner and hosts, distinct from 0 (none yet) and 130 (cancel)

ASSUME ProcLifeAssumption == ExitCodes # {} /\ ExitCodes \cap {0, 130} = {}

Calls == Ctls \cup Hosts \cup Writers
Clunk == "clunk"
Runner == "runner"
Appenders == Writers \cup {Runner}

\* A call is of one kind, and is neither a task of its own nor the name of an event.
ASSUME CallsAssumption ==
    /\ Ctls \cap Hosts = {} /\ Ctls \cap Writers = {} /\ Hosts \cap Writers = {}
    /\ Calls \cap {Clunk, Runner, "running", "exited"} = {}

VARIABLES
    status,    \* Process::status
    exitCode,      \* Process::exit_code, 0 while running
    history,   \* event_history of the pid
    task,      \* runner_tasks entry: "none" | "live"
    aborted,   \* JoinHandle::abort was called on the runner task
    pc,        \* where the clunk, the runner and each call are
    output,    \* who appended to the output stream, in order
    ioEvents,  \* who appended an "output" record to the io/events stream
    dropped,   \* calls whose future was dropped, with the runner once aborted
    early      \* the exit came when no runner task was registered (history variable)

lifeVars == <<status, exitCode, history, task, aborted, pc, output, ioEvents, dropped, early>>

\* The state clunk leaves behind when it releases the mutex after the commit.
LifeInit ==
    /\ status = "running" /\ exitCode = 0
    /\ history = <<>> /\ output = <<>> /\ ioEvents = <<>>
    /\ task = "none" /\ aborted = FALSE
    /\ pc = [a \in Calls \cup {Clunk, Runner} |->
               IF a = Clunk THEN "publishRunning" ELSE IF a = Runner THEN "none" ELSE "idle"]
    /\ dropped = {} /\ early = FALSE

Goto(a, stage) == pc' = [pc EXCEPT ![a] = stage]
Publish(event) == history' = Append(history, event)

-----------------------------------------------------------------------------
\* The rest of clunk: publish "running", then, when a runner is attached,
\* spawn its task, register it, and let it start.
ClunkPublish(hasRunner) ==
    /\ pc[Clunk] = "publishRunning"
    /\ Publish("running")
    /\ Goto(Clunk, IF hasRunner THEN "spawn" ELSE "done")
    /\ UNCHANGED <<status, exitCode, task, aborted, output, ioEvents, dropped, early>>

ClunkSpawn ==
    /\ pc[Clunk] = "spawn"
    /\ pc' = [pc EXCEPT ![Clunk] = "insert", ![Runner] = "wait"]
    /\ UNCHANGED <<status, exitCode, history, task, aborted, output, ioEvents, dropped, early>>

\* runner_tasks.insert: nothing is re-checked here.
ClunkInsert ==
    /\ pc[Clunk] = "insert"
    /\ task' = "live"
    /\ Goto(Clunk, "start")
    /\ UNCHANGED <<status, exitCode, history, aborted, output, ioEvents, dropped, early>>

ClunkStart ==
    /\ pc[Clunk] = "start"
    /\ pc' = [pc EXCEPT ![Clunk] = "done", ![Runner] = IF @ = "wait" THEN "run" ELSE @]
    /\ UNCHANGED <<status, exitCode, history, task, aborted, output, ioEvents, dropped, early>>

\* start_rx.await also returns when the sender is dropped with the clunk.
RunnerUnheld ==
    /\ pc[Runner] = "wait" /\ Clunk \in dropped
    /\ Goto(Runner, "run")
    /\ UNCHANGED <<status, exitCode, history, task, aborted, output, ioEvents, dropped, early>>

\* runner.run returns, with or without output.
RunnerRun(hasOutput) ==
    /\ pc[Runner] = "run"
    /\ output' = IF hasOutput THEN Append(output, Runner) ELSE output
    /\ Goto(Runner, IF hasOutput THEN "ioEvent" ELSE "exit")
    /\ UNCHANGED <<status, exitCode, history, task, aborted, ioEvents, dropped, early>>

\* Mutation: the runner leaves its handle in runner_tasks when it exits.
RunnerExitStaysRegistered(c) ==
    /\ pc[Runner] = "exit"
    /\ status' = "exited" /\ exitCode' = IF status = "running" THEN c ELSE exitCode
    /\ Goto(Runner, "publishExited")
    /\ UNCHANGED <<history, task, aborted, output, ioEvents, dropped, early>>

\* The runner leaves runner_tasks and exits the table under one lock.
RunnerExit(c) ==
    /\ pc[Runner] = "exit"
    /\ task' = "none"
    /\ status' = "exited" /\ exitCode' = IF status = "running" THEN c ELSE exitCode
    /\ Goto(Runner, "publishExited")
    /\ UNCHANGED <<history, aborted, output, ioEvents, dropped, early>>

-----------------------------------------------------------------------------
\* What a ctl cancel and record_exit do under the mutex: take the registered
\* runner task away and abort it, and exit the table once.
Terminate(c) ==
    /\ task' = "none" /\ aborted' = (aborted \/ task = "live")
    /\ status' = "exited" /\ exitCode' = IF status = "running" THEN c ELSE exitCode
    /\ early' = (early \/ (status = "running" /\ task = "none"))

\* Mutation: ctl exits the table and leaves the runner to itself.
WriteCtlKeepsTask(a) ==
    /\ pc[a] = "idle"
    /\ status' = "exited" /\ exitCode' = IF status = "running" THEN 130 ELSE exitCode
    /\ Goto(a, "publishExited")
    /\ UNCHANGED <<history, task, aborted, output, ioEvents, dropped, early>>

\* write of "cancel" to ctl: always followed by an "exited" event.
WriteKill(a) ==
    /\ pc[a] = "idle"
    /\ Terminate(130)
    /\ Goto(a, "publishExited")
    /\ UNCHANGED <<history, output, ioEvents, dropped>>

\* record_exit: followed by an "exited" event only when it made the transition.
RecordExitOf(a, c) ==
    /\ pc[a] = "idle"
    /\ Terminate(c)
    /\ Goto(a, IF status = "running" THEN "publishExited" ELSE "done")
    /\ UNCHANGED <<history, output, ioEvents, dropped>>

PublishExited(a) ==
    /\ pc[a] = "publishExited"
    /\ Publish("exited")
    /\ Goto(a, "done")
    /\ UNCHANGED <<status, exitCode, task, aborted, output, ioEvents, dropped, early>>

\* write to io/output: bytes first, then the record, then the event.
WriteOutput(a) ==
    /\ pc[a] = "idle"
    /\ output' = Append(output, a)
    /\ Goto(a, "ioEvent")
    /\ UNCHANGED <<status, exitCode, history, task, aborted, ioEvents, dropped, early>>

\* Mutation: the record is written after the event is published.
AppendIoEventLate(a) ==
    /\ pc[a] = "ioEvent"
    /\ Publish(a)
    /\ Goto(a, "publishOutput")
    /\ UNCHANGED <<status, exitCode, task, aborted, output, ioEvents, dropped, early>>

AppendIoEvent(a) ==
    /\ pc[a] = "ioEvent"
    /\ ioEvents' = Append(ioEvents, a)
    /\ Goto(a, "publishOutput")
    /\ UNCHANGED <<status, exitCode, history, task, aborted, output, dropped, early>>

PublishOutput(a) ==
    /\ pc[a] = "publishOutput"
    /\ Publish(a)
    /\ Goto(a, IF a = Runner THEN "exit" ELSE "done")
    /\ UNCHANGED <<status, exitCode, task, aborted, output, ioEvents, dropped, early>>

\* A dropped future stops at its next await; so does an aborted task.
Drop(a) ==
    /\ pc[a] \notin {"none", "idle", "done"}
    /\ IF a = Runner THEN aborted ELSE TRUE
    /\ dropped' = dropped \cup {a}
    /\ Goto(a, "done")
    /\ UNCHANGED <<status, exitCode, history, task, aborted, output, ioEvents, early>>

ClunkStep == (\E b \in BOOLEAN : ClunkPublish(b)) \/ ClunkSpawn \/ ClunkInsert \/ ClunkStart
RunnerStep ==
    \/ RunnerUnheld \/ (\E b \in BOOLEAN : RunnerRun(b)) \/ (\E c \in ExitCodes : RunnerExit(c))
    \/ AppendIoEvent(Runner) \/ PublishOutput(Runner) \/ PublishExited(Runner)
CallStep ==
    \/ \E a \in Ctls : WriteKill(a) \/ PublishExited(a)
    \/ \E a \in Hosts : (\E c \in ExitCodes : RecordExitOf(a, c)) \/ PublishExited(a)
    \/ \E a \in Writers : WriteOutput(a) \/ AppendIoEvent(a) \/ PublishOutput(a)

LifeNext == ClunkStep \/ RunnerStep \/ CallStep \/ \E a \in Calls \cup {Clunk, Runner} : Drop(a)

LifeSpec == LifeInit /\ [][LifeNext]_lifeVars

-----------------------------------------------------------------------------
InHistory(e) == \E i \in DOMAIN history : history[i] = e
Count(s, e) == Cardinality({i \in DOMAIN s : s[i] = e})

\* An exit is always announced: when the table says exited, "exited" is in the
\* history, or the call that made the transition is still about to publish it
\* or was dropped.  In particular an abort never swallows the runner's own
\* announcement, because the runner deregisters before it exits.
ExitAnnounced ==
    status = "exited" =>
        \/ InHistory("exited")
        \/ \E a \in Ctls \cup Hosts \cup {Runner} : pc[a] = "publishExited"
        \/ dropped \cap (Ctls \cup Hosts) # {}

\* What a late subscriber may rely on: every output event in the history has
\* its record in io/events, and every record has its bytes in io/output.
EventsHaveBytes ==
    \A a \in Appenders : Count(history, a) <= Count(ioEvents, a) /\ Count(ioEvents, a) <= Count(output, a)

\* A cancel or a host exit report stops the runner: a runner still at work for
\* an exited process has been told to abort, unless the exit fell into the
\* window between the commit and the registration of the task.
RunnerStopped ==
    status = "exited" /\ pc[Runner] \in {"wait", "run", "ioEvent", "publishOutput", "exit"} =>
        aborted \/ early

\* The three together: what the end of a process leaves behind.
ExitsAreOrderly == ExitAnnounced /\ EventsHaveBytes /\ RunnerStopped

-----------------------------------------------------------------------------
(***************************************************************************)
(* How events of one process reach its observers                           *)
(* (crates/kernel/src/procfs.rs): publish_process_event pushes the event   *)
(* into the history and copies the observer lists under the state mutex,   *)
(* then delivers to each observer in turn; a subscriber registers and      *)
(* copies the history under the same mutex, then replays it.  Observers of *)
(* IO and of all events hold their replay lock from before they register   *)
(* until the replay is over, and every live delivery takes that lock;      *)
(* input and output observers have no lock.                                *)
(***************************************************************************)

CONSTANTS Events,       \* published events, each by one publisher
          Status,       \* those of them that are status events
          Ordered,      \* event observers, in registration order of their kind
          Plain,        \* output observers
          None          \* lock not held


Observers == Ordered \cup Plain

VARIABLES
    log,   \* event_history: the events in publication order
    members,   \* observer lists: observers in registration order
    todo,      \* publisher -> observers it still delivers to, in order
    state,     \* publisher -> "idle" | "delivering" | "done"
    replay,    \* observer -> events its subscriber still replays
    sub,       \* observer -> "none" | "locked" | "replaying" | "over"
    lock,      \* ordered observer -> holder: an event, the observer, None
    got,       \* observer -> events the sink received
    lost       \* publishers and subscribers whose future was dropped

eventsVars == <<log, members, todo, state, replay, sub, lock, got, lost>>

EventsInit ==
    /\ log = <<>> /\ members = <<>>
    /\ todo = [e \in Events |-> <<>>] /\ state = [e \in Events |-> "idle"]
    /\ replay = [o \in Observers |-> <<>>] /\ sub = [o \in Observers |-> "none"]
    /\ lock = [o \in Ordered |-> None]
    /\ got = [o \in Observers |-> <<>>]
    /\ lost = {}

\* The events an observer is told of: output observers see no status events.
Concerns(o, e) == o \in Ordered \/ e \notin Status

-----------------------------------------------------------------------------
\* publish_process_event under the mutex; unordered observers come first.
PublishEvent(e) ==
    /\ state[e] = "idle"
    /\ log' = Append(log, e)
    /\ todo' = [todo EXCEPT ![e] =
                  SelectSeq(members, LAMBDA o : o \in Plain /\ Concerns(o, e))
                  \o SelectSeq(members, LAMBDA o : o \in Ordered)]
    /\ state' = [state EXCEPT ![e] = "delivering"]
    /\ UNCHANGED <<members, replay, sub, lock, got, lost>>

\* deliver waits for the observer's replay lock ...
Acquire(e) ==
    /\ state[e] = "delivering" /\ todo[e] # <<>>
    /\ Head(todo[e]) \in Ordered /\ lock[Head(todo[e])] = None
    /\ lock' = [lock EXCEPT ![Head(todo[e])] = e]
    /\ UNCHANGED <<log, members, todo, state, replay, sub, got, lost>>

\* ... and calls the sink; the lock is released when it returns.
Deliver(e) ==
    /\ state[e] = "delivering" /\ todo[e] # <<>>
    /\ LET o == Head(todo[e]) IN
         /\ o \in Ordered => lock[o] = e
         /\ got' = [got EXCEPT ![o] = Append(@, e)]
         /\ lock' = IF o \in Ordered THEN [lock EXCEPT ![o] = None] ELSE lock
    /\ todo' = [todo EXCEPT ![e] = Tail(@)]
    /\ UNCHANGED <<log, members, state, replay, sub, lost>>

Finish(e) ==
    /\ state[e] = "delivering" /\ todo[e] = <<>>
    /\ state' = [state EXCEPT ![e] = "done"]
    /\ UNCHANGED <<log, members, todo, replay, sub, lock, got, lost>>

-----------------------------------------------------------------------------
\* subscribe_process_events and _io take their fresh replay lock first.
LockReplay(o) ==
    /\ sub[o] = "none" /\ o \in Ordered
    /\ sub' = [sub EXCEPT ![o] = "locked"]
    /\ lock' = [lock EXCEPT ![o] = o]
    /\ UNCHANGED <<log, members, todo, state, replay, got, lost>>

\* Mutation: the history is copied before the observer is registered.
RegisterLate(o) ==
    /\ sub[o] = IF o \in Ordered THEN "locked" ELSE "none"
    /\ sub' = [sub EXCEPT ![o] = "replaying"]
    /\ \E k \in 0..Len(log) :
          replay' = [replay EXCEPT ![o] = SelectSeq(SubSeq(log, 1, k), LAMBDA e : Concerns(o, e))]
    /\ members' = Append(members, o)
    /\ UNCHANGED <<log, todo, state, lock, got, lost>>

\* Under the mutex: copy the history and register.
Register(o) ==
    /\ sub[o] = IF o \in Ordered THEN "locked" ELSE "none"
    /\ sub' = [sub EXCEPT ![o] = "replaying"]
    /\ replay' = [replay EXCEPT ![o] = SelectSeq(log, LAMBDA e : Concerns(o, e))]
    /\ members' = Append(members, o)
    /\ UNCHANGED <<log, todo, state, lock, got, lost>>

Replay(o) ==
    /\ sub[o] = "replaying" /\ replay[o] # <<>>
    /\ got' = [got EXCEPT ![o] = Append(@, Head(replay[o]))]
    /\ replay' = [replay EXCEPT ![o] = Tail(@)]
    /\ UNCHANGED <<log, members, todo, state, sub, lock, lost>>

\* Mutation: the replay guard is kept by the observer.
UnlockLeaks(o) ==
    /\ sub[o] = "replaying" /\ replay[o] = <<>>
    /\ sub' = [sub EXCEPT ![o] = "over"]
    /\ UNCHANGED <<log, members, todo, state, replay, lock, got, lost>>

Unlock(o) ==
    /\ sub[o] = "replaying" /\ replay[o] = <<>>
    /\ sub' = [sub EXCEPT ![o] = "over"]
    /\ lock' = IF o \in Ordered THEN [lock EXCEPT ![o] = None] ELSE lock
    /\ UNCHANGED <<log, members, todo, state, replay, got, lost>>

-----------------------------------------------------------------------------
\* A dropped publisher or subscriber releases the lock it holds.
Released(a) == [o \in Ordered |-> IF lock[o] = a THEN None ELSE lock[o]]

DropPublisher(e) ==
    /\ state[e] = "delivering" /\ todo[e] # <<>>
    /\ state' = [state EXCEPT ![e] = "done"] /\ todo' = [todo EXCEPT ![e] = <<>>]
    /\ lock' = Released(e) /\ lost' = lost \cup {e}
    /\ UNCHANGED <<log, members, replay, sub, got>>

\* A subscriber dropped after it registered leaves its observer registered.
DropSubscriber(o) ==
    /\ sub[o] \in {"locked", "replaying"}
    /\ sub' = [sub EXCEPT ![o] = "over"] /\ replay' = [replay EXCEPT ![o] = <<>>]
    /\ lock' = IF o \in Ordered THEN Released(o) ELSE lock
    /\ lost' = lost \cup {o}
    /\ UNCHANGED <<log, members, todo, state, got>>

PublisherStep(e) == PublishEvent(e) \/ Acquire(e) \/ Deliver(e) \/ Finish(e)
SubscriberStep(o) == LockReplay(o) \/ Register(o) \/ Replay(o) \/ Unlock(o)

EventsNext ==
    \/ \E e \in Events : PublisherStep(e) \/ DropPublisher(e)
    \/ \E o \in Observers : SubscriberStep(o) \/ DropSubscriber(o)

EventsSpec == EventsInit /\ [][EventsNext]_eventsVars

\* Sinks return and a task that can run does.  No step can be undone, so that
\* some enabled one is always taken is all that is needed.
EventsProgress ==
    \/ \E e \in Events : Acquire(e) \/ Deliver(e) \/ Finish(e)
    \/ \E o \in Observers : Register(o) \/ Replay(o) \/ Unlock(o)

EventsFairness == WF_eventsVars(EventsProgress)

-----------------------------------------------------------------------------
Times(o, e) == Cardinality({i \in DOMAIN got[o] : got[o][i] = e})
Owed(o, e) == e \in ToSet(replay[o]) \/ o \in ToSet(todo[e])

\* Registration and publication split the events exactly: an event in the
\* history reaches a registered observer once, by replay or live, never twice
\* and never not at all, unless the future that owed it was dropped.
ExactlyOnce ==
    \A o \in ToSet(members), e \in Events :
        LET owed == IF Owed(o, e) THEN 1 ELSE 0 IN
        IF e \in ToSet(log) /\ Concerns(o, e)
        THEN Times(o, e) + owed = 1 \/ (Times(o, e) + owed = 0 /\ lost \cap {o, e} # {})
        ELSE Times(o, e) + owed = 0

\* Every event reaches every registered observer in the end.
EverybodyTold ==
    lost = {} => \A o \in ToSet(members), e \in ToSet(log) : Concerns(o, e) => Times(o, e) = 1
EventuallyTold == <>[]EverybodyTold
=============================================================================
