----------------------------- MODULE AgentRun -------------------------------
(***************************************************************************)
(* A running Agent: what its activity files tell a waiter, and how it is   *)
(* launched and released.                                                  *)
(***************************************************************************)
EXTENDS Naturals, FiniteSets

-----------------------------------------------------------------------------
(***************************************************************************)
(* What an agent shows of its turn under machine/ui, and who relies on it. *)
(* The engine loop drives the execution of a submission and, on the same   *)
(* task, an observer that writes heartbeats (runtime/engine.rs,            *)
(* engine_monitor.rs, ui_surfaces.rs); both make progress at every await   *)
(* of the other.  The Agent Runtime Service polls the files of a child     *)
(* from another task until the turn has ended (wait_for_child_terminal).   *)
(*                                                                         *)
(* `started` is that machine/ui/events is not empty.                       *)
(***************************************************************************)

CONSTANTS MaxBeats, MaxTurns

VARIABLES activity, notice, started, text, \* the files
          pending,                         \* the machine waits for an answer
          exec, outcome,                   \* the execution and what it returned
          beat, beats,                     \* the observer
          turns, interrupted, finished,    \* the engine loop
          waiter, saw, result,             \* wait_for_child_terminal
          early, errors                    \* history: a warning before the turn; error notices

files == <<activity, notice, started, text>>
machine == <<pending, exec, outcome, turns, interrupted, finished>>
observer == <<beat, beats>>
poll == <<waiter, saw, result>>
history == <<early, errors>>
activityVars == <<files, machine, observer, poll, history>>

\* After ui_surfaces::initialize of a machine that recovered nothing.
ActivityInit == /\ activity = "idle" /\ notice = "none" /\ started = FALSE /\ text = FALSE
                /\ pending = FALSE
                /\ exec = "accepted" /\ outcome = "none"
                /\ beat = "idle" /\ beats = 0
                /\ turns = 1 /\ interrupted = FALSE /\ finished = FALSE
                /\ waiter = "check" /\ saw = "none" /\ result = "none"
                /\ early = FALSE /\ errors = FALSE

Live == ~finished

\* Mutant: the event is appended before the activity is written.
MutTurnStarted ==
  \/ /\ exec = "accepted" /\ started' = TRUE /\ exec' = "announce"
     /\ UNCHANGED <<activity, notice>>
  \/ /\ exec = "announce" /\ activity' = "running" /\ exec' = "clear"
     /\ UNCHANGED <<started, notice>>
  \/ /\ exec = "clear" /\ notice' = "none" /\ exec' = "running"
     /\ UNCHANGED <<activity, started>>

\* turn_started: the activity, its event, then the notice.
TurnStarted ==
  \/ /\ exec = "accepted" /\ activity' = "running" /\ exec' = "announce"
     /\ UNCHANGED <<started, notice>>
  \/ /\ exec = "announce" /\ started' = TRUE /\ exec' = "clear"
     /\ UNCHANGED <<activity, notice>>
  \/ /\ exec = "clear" /\ notice' = "none" /\ exec' = "running"
     /\ UNCHANGED <<activity, started>>

Start == /\ Live /\ TurnStarted
         /\ UNCHANGED <<text, pending, outcome, turns, interrupted, finished, observer, poll, history>>

\* The turn after an answer: resumed
Resumed == /\ Live /\ exec = "resuming"
           /\ activity' = "running" /\ started' = TRUE /\ exec' = "running"
           /\ UNCHANGED <<notice, text, pending, outcome, turns, interrupted, finished, observer, poll, history>>

ReturnResult(kind) == exec' = "returned" /\ outcome' = kind

\* The answer is appended to io/output before the execution returns.
Answer == /\ Live /\ exec = "running"
          /\ text' = TRUE /\ ReturnResult("completed")
          /\ UNCHANGED <<activity, notice, started, pending, turns, interrupted, finished, observer, poll, history>>

\* The loop guard ends the turn with an error notice.
GuardEnds == /\ Live /\ exec = "running"
             /\ notice' = "error" /\ errors' = TRUE /\ ReturnResult("completed")
             /\ UNCHANGED <<activity, started, text, pending, turns, interrupted, finished, observer, poll, early>>

\* A tool needs an answer: its request is written, then `paused` is published,
\* which may fail.
Ask == /\ Live /\ exec = "running"
       /\ pending' = TRUE /\ exec' = "asking"
       /\ UNCHANGED <<files, outcome, turns, interrupted, finished, observer, poll, history>>

Pause == /\ Live /\ exec = "asking"
         /\ \/ activity' = "paused" /\ started' = TRUE /\ ReturnResult("paused")
            \/ UNCHANGED <<activity, started>> /\ ReturnResult("failed")
         /\ UNCHANGED <<notice, text, pending, turns, interrupted, finished, observer, poll, history>>

TurnFails == /\ Live /\ exec \in {"accepted", "announce", "clear", "resuming", "running"}
             /\ ReturnResult("failed")
             /\ UNCHANGED <<files, pending, turns, interrupted, finished, observer, poll, history>>

\* The token is cancelled and the execution returns, with nothing to wait for.
Cancelled == /\ Live /\ interrupted /\ exec \in {"accepted", "running"}
             /\ ReturnResult("completed")
             /\ UNCHANGED <<files, pending, turns, interrupted, finished, observer, poll, history>>

-----------------------------------------------------------------------------
\* The observer runs until drive_with_monitor has the output and has seen it
\* settle.
Observing == Live /\ exec \notin {"settled", "idle", "notice", "pause", "rest"}

\* heartbeat reads the activity and writes only over `running` ...
BeatReads == /\ Observing /\ exec # "returned" /\ beat = "idle" /\ beats < MaxBeats
             /\ activity = "running"
             /\ beat' = "writing" /\ beats' = beats + 1
             /\ UNCHANGED <<files, machine, poll, history>>

\* ... but the read and the write are two file operations.
BeatWrites == /\ Observing /\ beat = "writing"
              /\ activity' = "running" /\ beat' = "idle"
              /\ UNCHANGED <<notice, started, text, machine, beats, poll, history>>

\* The observer could not read io/input or a request.
Warn == /\ Observing /\ exec # "returned" /\ notice # "warning"
        /\ notice' = "warning" /\ started' = TRUE
        /\ early' = (early \/ exec = "accepted")
        /\ UNCHANGED <<activity, text, machine, observer, poll, errors>>

Interrupt == /\ Observing /\ exec # "returned" /\ ~interrupted
             /\ interrupted' = TRUE
             /\ UNCHANGED <<files, pending, exec, outcome, turns, finished, observer, poll, history>>

-----------------------------------------------------------------------------
\* The engine loop, once the execution has returned and the observer has settled.
Settle == /\ Live /\ exec = "returned" /\ beat = "idle"
          /\ exec' = CASE outcome = "paused" -> "settled"
                       [] outcome = "completed" -> "idle"
                       [] outcome = "failed" -> IF pending THEN "pause" ELSE "notice"
          /\ UNCHANGED <<files, pending, outcome, turns, interrupted, finished, observer, poll, history>>

\* turn_completed
WriteIdle == /\ Live /\ exec = "idle"
             /\ activity' = "idle" /\ started' = TRUE /\ exec' = "settled"
             /\ UNCHANGED <<notice, text, pending, outcome, turns, interrupted, finished, observer, poll, history>>

\* turn_failed while an answer is awaited: paused, then the notice
WritePaused == /\ Live /\ exec = "pause"
               /\ activity' = "paused" /\ started' = TRUE /\ exec' = "notice"
               /\ UNCHANGED <<notice, text, pending, outcome, turns, interrupted, finished, observer, poll, history>>

\* Mutant: the error notice is taken for the end of the turn.
MutWriteError == /\ Live /\ exec = "notice"
                 /\ notice' = "error" /\ started' = TRUE /\ errors' = TRUE
                 /\ exec' = "settled"
                 /\ UNCHANGED <<activity, text, pending, outcome, turns, interrupted, finished, observer, poll, early>>

\* turn_failed: the notice, then idle
WriteError == /\ Live /\ exec = "notice"
              /\ notice' = "error" /\ started' = TRUE /\ errors' = TRUE
              /\ exec' = IF pending THEN "settled" ELSE "idle"
              /\ UNCHANGED <<activity, text, pending, outcome, turns, interrupted, finished, observer, poll, early>>

\* An interrupt pauses the queue.
Rest == /\ Live /\ exec = "settled"
        /\ activity' = IF interrupted THEN "paused" ELSE activity
        /\ exec' = "rest"
        /\ UNCHANGED <<notice, started, text, pending, outcome, turns, interrupted, finished, observer, poll, history>>

\* The request is answered and a Resume is accepted.
Resume == /\ Live /\ exec = "rest" /\ pending /\ ~interrupted /\ turns < MaxTurns
          /\ pending' = FALSE /\ exec' = "resuming" /\ outcome' = "none" /\ turns' = turns + 1
          /\ UNCHANGED <<files, interrupted, finished, observer, poll, history>>

\* The engine task ends: shutdown, or a panic.
FinishWait == /\ Live /\ finished' = TRUE
              /\ UNCHANGED <<files, pending, exec, outcome, turns, interrupted, observer, poll, history>>

-----------------------------------------------------------------------------
\* One poll reads the files one after the other.
Poll ==
  /\ result = "none"
  /\ \/ /\ waiter = "check"
        /\ IF finished THEN result' = "stopped" /\ UNCHANGED waiter
           ELSE waiter' = (IF started THEN "activity" ELSE "check") /\ UNCHANGED result
        /\ UNCHANGED saw
     \/ /\ waiter = "activity"
        /\ waiter' = IF activity = "running" THEN "check" ELSE "notice"
        /\ saw' = activity
        /\ UNCHANGED result
     \/ /\ waiter = "notice"
        /\ IF notice = "error" THEN result' = "failed" /\ UNCHANGED waiter
           ELSE waiter' = "output" /\ UNCHANGED result
        /\ UNCHANGED saw
     \/ /\ waiter = "output"
        /\ IF saw = "paused" /\ ~pending THEN waiter' = "check" /\ UNCHANGED result
           ELSE /\ result' = CASE saw = "paused" -> "paused"
                               [] saw = "idle" /\ text -> "completed"
                               [] OTHER -> "truncated"
                /\ UNCHANGED waiter
        /\ UNCHANGED saw
  /\ UNCHANGED <<files, machine, observer, history>>

Engine == \/ Start \/ Resumed \/ Answer \/ GuardEnds \/ Ask \/ Pause \/ TurnFails \/ Cancelled
          \/ BeatWrites \/ Settle \/ WriteIdle \/ WritePaused \/ WriteError \/ Rest

ActivityNext == Engine \/ BeatReads \/ Warn \/ Interrupt \/ Resume \/ FinishWait \/ Poll

\* Both are tasks of the runtime, which polls every task that is ready; nothing
\* obliges a client to answer or the engine to beat.
ActivityFairness == WF_activityVars(Engine) /\ WF_activityVars(Poll)

ActivitySpec == ActivityInit /\ [][ActivityNext]_activityVars /\ ActivityFairness

-----------------------------------------------------------------------------
\* The result given for a child is the one its turn had: `completed` with all of
\* its output only when the execution completed, `failed` only when an error was
\* published, `paused` only when something is asked.  A result without the output
\* needs an interrupt or a warning the engine wrote before the turn started
\* (wait_for_child_terminal against turn_started, turn_completed, turn_failed).
ResultIsTrue ==
  /\ result = "completed" => outcome = "completed" \/ interrupted \/ early
  /\ result = "truncated" => interrupted \/ early
  /\ result = "failed" => errors
  /\ result = "paused" => pending \/ turns > 1

TurnEnded == exec = "rest" /\ outcome \in {"completed", "failed"} /\ ~pending /\ ~interrupted

\* A turn that ended, with nothing asked and no interrupt, is reported: the
\* terminal state is written after the observer settled, so that no late
\* heartbeat hides it (drive_with_monitor).
EndedIsReported == TurnEnded ~> (result # "none")

\* heartbeat_preserves_paused_activity: once the engine rests on a question, the
\* activity says so.
PausedIsKept == (exec = "rest" /\ pending) => activity = "paused"

-----------------------------------------------------------------------------
(***************************************************************************)
(* The Agent Runtime Service (crates/service-manager/src/agent_runtime.rs  *)
(* and agent_runtime/process_cleanup.rs): what one Agent Process registers *)
(* with the other services while it starts, and who takes it back.  The    *)
(* runner of /bin/alan-agent goes through sections separated by awaits; a  *)
(* runner that procfs aborts stops at an await, after at most one section  *)
(* more.  Its ProcessCleanup guard is dropped with it and releases the     *)
(* Process later, concurrently with detach_root and shutdown_root of the   *)
(* service manager's supervisor.                                           *)
(***************************************************************************)

CONSTANTS Root, Child   \* a Root Agent Process and a child it spawns

Pids == {Root, Child}

\* The registries a pid may appear in.
Registries == {"pending", "mount", "authority", "connection", "agentfs", "binding", "handle", "template"}

VARIABLES
    reg,       \* the registries each pid appears in
    at,        \* the section its runner is about to run
    status,    \* the Process in procfs: "none" | "running" | "exited"
    aborted,   \* "no", or abort was called: in a "last" section, or at an await, "now"
    engine,    \* the engine task spawned by the runner: "none" | "running" | "finished"
    ready,     \* the readiness channel of the root: "open" | "ok" | "failed"
    stop,      \* its stop channel: "open" | "signalled"
    release    \* the release_process calls under way: who -> pid they release, and where

lifeVars == <<reg, at, status, aborted, engine, ready, stop, release>>

\* The callers of release_process: each Process's cleanup task and the supervisor.
Releasers == Pids \cup {"supervisor"}
Released(who) == IF who = "supervisor" THEN Root ELSE who

LifeInit ==
    /\ reg = [p \in Pids |-> {}]
    /\ at = [p \in Pids |-> "none"]
    /\ status = [p \in Pids |-> "none"]
    /\ aborted = [p \in Pids |-> "no"]
    /\ engine = [p \in Pids |-> "none"]
    /\ ready = "open" /\ stop = "open"
    /\ release = [w \in Releasers |-> "idle"]

Register(p, names) == reg' = [reg EXCEPT ![p] = @ \cup names]
Forget(p, names) == reg' = [reg EXCEPT ![p] = @ \ names]

\* The runner reaches the await that starts the given section.
Step(p, section) ==
    /\ at' = [at EXCEPT ![p] = section]
    /\ aborted' = [aborted EXCEPT ![p] = IF @ = "last" THEN "now" ELSE @]

-----------------------------------------------------------------------------
\* launch_root inserts the pending launch, then commits the clone, which
\* starts the runner; a commit that fails takes the entry back.
LaunchRoot ==
    /\ status[Root] = "none"
    /\ \/ /\ Register(Root, {"pending"})
          /\ status' = [status EXCEPT ![Root] = "running"]
          /\ Step(Root, "prepare")
       \/ /\ status' = [status EXCEPT ![Root] = "exited"]
          /\ UNCHANGED <<reg, at, aborted>>
    /\ UNCHANGED <<engine, ready, stop, release>>

\* A turn of the root's engine spawns the child through its /proc.
LaunchChild ==
    /\ status[Child] = "none" /\ engine[Root] = "running"
    /\ status' = [status EXCEPT ![Child] = "running"]
    /\ Step(Child, "prepare")
    /\ UNCHANGED <<reg, engine, ready, stop, release>>

\* The runner returns or is dropped: a controller that was not shut down is
\* dropped with it, which aborts the engine; the readiness sender says the
\* error or is dropped, and the guard spawns the cleanup task.
ReturnRelease(p) ==
    /\ Step(p, "returned")
    /\ engine' = [engine EXCEPT ![p] = IF @ = "running" THEN "finished" ELSE @]
    /\ ready' = IF p = Root /\ ready = "open" THEN "failed" ELSE ready
    /\ release' = [release EXCEPT ![p] = "await_exit"]

\* A section that fails returns its error through run_agent_process.
LaunchFails(p) ==
    /\ at[p] \in {"prepare", "register", "bind", "tools", "start"}
    /\ ReturnRelease(p)
    /\ UNCHANGED <<reg, status, stop>>

\* prepare_launch takes the pending launch of a root; a child needs the
\* template of its parent.  Then the connection is captured, an await.
Prepare(p) ==
    /\ at[p] = "prepare"
    /\ IF p = Root THEN "pending" \in reg[Root] ELSE "template" \in reg[Root]
    /\ Forget(p, {"pending"})
    /\ Step(p, "register")
    /\ UNCHANGED <<status, engine, ready, stop, release>>

\* From capture_connection to bind_process: the host mounts of the Process, its
\* tool authority and its connection selection; a step may fail between them.
RegisterProcess(p) ==
    /\ at[p] = "register"
    /\ Register(p, {"mount", "authority", "connection"})
    /\ Step(p, "bind")
    /\ UNCHANGED <<status, engine, ready, stop, release>>

RegisterFails(p) ==
    /\ at[p] = "register"
    /\ \E done \in {{"mount"}, {"mount", "authority"}} : Register(p, done)
    /\ ReturnRelease(p)
    /\ UNCHANGED <<status, stop>>

\* bind_process and set_root_process of /agent, bind_live_namespace of /proc.
BindProcess(p) ==
    /\ at[p] = "bind"
    /\ Register(p, {"agentfs"})
    /\ Step(p, "tools")
    /\ UNCHANGED <<status, engine, ready, stop, release>>

\* register_tool_execution_binding reconciles with the host mounts, which
\* fails for a Process they no longer know.
BindTools(p) ==
    /\ at[p] = "tools"
    /\ "mount" \in reg[p]
    /\ Register(p, {"binding"})
    /\ Step(p, "start")
    /\ UNCHANGED <<status, engine, ready, stop, release>>

\* spawn_with_namespace_environment, and the handle of a root for the supervisor.
StartEngine(p) ==
    /\ at[p] = "start"
    /\ engine' = [engine EXCEPT ![p] = "running"]
    /\ Register(p, IF p = Root THEN {"handle"} ELSE {})
    /\ Step(p, "startup")
    /\ UNCHANGED <<status, ready, stop, release>>

\* wait_until_ready and root_recovery::publish may fail; the controller is
\* then dropped with the runner.
StartupFails(p) ==
    /\ at[p] = "startup"
    /\ ReturnRelease(p)
    /\ UNCHANGED <<reg, status, stop>>

\* The machine is up: the template lets it spawn children, and the root's
\* launcher is told.
Ready(p) ==
    /\ at[p] = "startup"
    /\ Register(p, {"template"})
    /\ ready' = IF p = Root /\ ready = "open" THEN "ok" ELSE ready
    /\ Step(p, "wait")
    /\ UNCHANGED <<status, engine, stop, release>>

\* The engine ends by itself.
EngineEnds(p) ==
    /\ engine[p] = "running" /\ at[p] = "wait"
    /\ engine' = [engine EXCEPT ![p] = "finished"]
    /\ UNCHANGED <<reg, at, status, aborted, ready, stop, release>>

\* Mutant: a root is not told to stop by a dropped stop channel.
MutFinish(p) ==
    /\ at[p] = "wait"
    /\ p = Child \/ engine[p] = "finished"
    /\ ReturnRelease(p)
    /\ UNCHANGED <<reg, status, stop>>

\* wait_for_root_stop returns on the stop channel, sent to or dropped, or when
\* the engine ended; wait_for_child_terminal when the child's turn is over.
\* The controller is shut down before the runner returns.
FinishRelease(p) ==
    /\ at[p] = "wait"
    /\ p = Child \/ stop = "signalled" \/ engine[p] = "finished"
    /\ ReturnRelease(p)
    /\ UNCHANGED <<reg, status, stop>>

\* An aborted runner is dropped at an await.
Drop(p) ==
    /\ aborted[p] = "now" /\ at[p] \notin {"none", "returned"}
    /\ ReturnRelease(p)
    /\ UNCHANGED <<reg, status, stop>>

Section(p) ==
    /\ aborted[p] # "now"
    /\ \/ Prepare(p) \/ RegisterProcess(p) \/ RegisterFails(p) \/ BindProcess(p) \/ BindTools(p)
       \/ StartEngine(p) \/ StartupFails(p) \/ Ready(p) \/ FinishRelease(p) \/ LaunchFails(p)

-----------------------------------------------------------------------------
\* procfs: the Process exits once its runner returned, or on a ctl cancel or a
\* record_exit, which abort the runner wherever it is.
Exit(p) ==
    /\ at[p] = "returned" /\ status[p] = "running"
    /\ status' = [status EXCEPT ![p] = "exited"]
    /\ UNCHANGED <<reg, at, aborted, engine, ready, stop, release>>

Terminate(p, where) ==
    /\ status' = [status EXCEPT ![p] = "exited"]
    /\ aborted' = [aborted EXCEPT ![p] =
                     IF status[p] = "running" /\ at[p] # "returned" THEN where ELSE @]

Cancel(p, where) ==
    /\ status[p] = "running"
    /\ Terminate(p, where)
    /\ UNCHANGED <<reg, at, engine, ready, stop, release>>

\* detach_root drops the stop channel, records the exit and releases: when the
\* unit cannot be tracked, when the root does not get ready, and when its exit
\* is observed.
DetachRoot(where) ==
    /\ at[Root] # "none" /\ release["supervisor"] = "idle"
    /\ ready = "ok" => status[Root] = "exited"
    /\ stop' = "signalled"
    /\ Terminate(Root, where)
    /\ release' = [release EXCEPT !["supervisor"] = "finish"]
    /\ UNCHANGED <<reg, at, engine, ready>>

\* shutdown_root tells the root to stop and waits for the exit.
ShutdownRoot ==
    /\ ready = "ok" /\ release["supervisor"] = "idle"
    /\ stop' = "signalled"
    /\ release' = [release EXCEPT !["supervisor"] = "await_exit"]
    /\ UNCHANGED <<reg, at, status, aborted, engine, ready>>

-----------------------------------------------------------------------------
Proceed(who, stage) == release' = [release EXCEPT ![who] = stage]

\* Mutant: the cleanup task leaves every Process it finds exited to the supervisor.
MutAwaitExit(who) ==
    /\ release[who] = "await_exit" /\ status[Released(who)] = "exited"
    /\ Proceed(who, IF who = "supervisor" THEN "finish" ELSE "done")
    /\ UNCHANGED <<reg, at, status, aborted, engine, ready, stop>>

\* wait_for_process_exit; the cleanup task then leaves a root whose handle is
\* registered to the supervisor.
AwaitExit(who) ==
    /\ release[who] = "await_exit" /\ status[Released(who)] = "exited"
    /\ Proceed(who, IF who # "supervisor" /\ "handle" \in reg[who] THEN "done" ELSE "finish")
    /\ UNCHANGED <<reg, at, status, aborted, engine, ready, stop>>

\* release_process: finish_after_exit waits for the engine and closes the
\* recorder; the handle of a root whose recorder cannot be closed is kept.
FinishRecorder(who, closed) ==
    LET p == Released(who) IN
    /\ release[who] = "finish"
    /\ "handle" \in reg[p] => engine[p] = "finished"
    /\ "handle" \notin reg[p] => closed
    /\ Forget(p, {"template", "pending"} \cup IF closed THEN {"handle"} ELSE {})
    /\ Proceed(who, "unbind")
    /\ UNCHANGED <<at, status, aborted, engine, ready, stop>>

\* unbind_process of /agent, then, after its await, the other services.
Unbind(who) ==
    /\ release[who] = "unbind"
    /\ Forget(Released(who), {"agentfs"})
    /\ Proceed(who, "unregister")
    /\ UNCHANGED <<at, status, aborted, engine, ready, stop>>

Unregister(who) ==
    /\ release[who] = "unregister"
    /\ Forget(Released(who), {"mount", "connection", "authority", "binding"})
    /\ Proceed(who, "done")
    /\ UNCHANGED <<at, status, aborted, engine, ready, stop>>

Release(who) ==
    \/ AwaitExit(who) \/ Unbind(who) \/ Unregister(who)
    \/ \E closed \in BOOLEAN : FinishRecorder(who, closed)

Aborts == {"last", "now"}

LifeNext ==
    \/ LaunchRoot \/ LaunchChild \/ ShutdownRoot
    \/ \E where \in Aborts : DetachRoot(where) \/ \E p \in Pids : Cancel(p, where)
    \/ \E p \in Pids : Section(p) \/ EngineEnds(p) \/ Drop(p) \/ Exit(p)
    \/ \E who \in Releasers : Release(who)

\* The tokio runtime runs every runnable task; the supervisor detaches a root
\* that failed or exited.
\* The Root is detached when its readiness failed or its Process has exited.
RootDetaches == (ready = "failed" \/ status[Root] = "exited") /\ \E where \in Aborts : DetachRoot(where)

LifeFairness ==
    /\ \A p \in Pids : WF_lifeVars(Section(p)) /\ WF_lifeVars(Drop(p)) /\ WF_lifeVars(Exit(p))
    /\ \A who \in Releasers : WF_lifeVars(Release(who))
    /\ WF_lifeVars(RootDetaches)

LifeSpec == LifeInit /\ [][LifeNext]_lifeVars /\ LifeFairness

-----------------------------------------------------------------------------
\* The supervisor's release of a root always returns: it waits for the engine,
\* which the dropped stop channel or the abort brings to an end (were it not,
\* the supervision loop that awaits it would stand still).
ReleaseReturns == (stop = "signalled") ~> (release["supervisor"] = "done")

\* An exited Agent Process is forgotten by every service, whatever it had
\* registered, and wherever it was interrupted (agent_runtime.rs:578-617,
\* process_cleanup.rs:20-46); only the runtime handle of a root may stay.
ExitedForgotten ==
    \A p \in Pids : status[p] = "exited" => reg[p] \subseteq IF p = Root THEN {"handle"} ELSE {}
ExitedIsForgotten == <>[]ExitedForgotten
=============================================================================
