------------------------------ MODULE ChildRun ------------------------------
(***************************************************************************)
(* One delegated child run of the Agent Execution Engine: the tool call    *)
(* that invokes a delegated skill (runtime/delegated_skill_tool.rs), the   *)
(* launch of the child Agent Process against the parent's namespace        *)
(* (child_agents.rs), the supervisor that watches the child through its    *)
(* files (delegated_child_run/supervisor.rs) and the child-run record      *)
(* (child_runs.rs).  The child, the Process table and whoever terminates   *)
(* the child run or changes the parent's namespace are concurrent: every   *)
(* file the supervisor reads is read in a step of its own.                 *)
(***************************************************************************)
EXTENDS Naturals

CONSTANTS MaxAttempts,  \* MAX_CHILD_PROCESS_SPAWN_ATTEMPTS
          MaxGen        \* bound on the changes of the parent's namespace

VARIABLES
    gen,              \* the generation of the parent's namespace
    read, inputs,     \* the generations the launch read, and chose its inputs in
    attempts,
    pc,               \* the tool call: where its launch or its supervisor is
    cancel,           \* the turn's cancellation token
    child, code, said,\* the Process, its exit code and the result it wrote
    turn,             \* what the child's engine is about to do
    files,            \* the child's AgentFS files
    seen, last,       \* the observation under way and the one before
    record, asked,    \* the child-run record and its termination request
    verdict,          \* the status handed to the parent
    late, torn        \* history: the Process outlived the 5 s wait; the turn
                      \* started between the reads of one observation

launch == <<gen, read, inputs, attempts>>
process == <<child, code, said, turn, files>>
watch == <<seen, last, torn>>
registry == <<record, asked>>
vars == <<launch, pc, cancel, process, watch, registry, verdict, late>>

NoExit == 999   \* no exit code yet
NoFiles == [bound |-> FALSE, activity |-> "idle", events |-> FALSE,
            error |-> FALSE, request |-> FALSE, text |-> FALSE]

Init == /\ gen = 0 /\ read = 0 /\ inputs = 0 /\ attempts = 0
        /\ pc = "invoked" /\ cancel = FALSE
        /\ child = "none" /\ code = NoExit /\ said = "nothing" /\ turn = "boot"
        /\ files = NoFiles /\ seen = NoFiles /\ last = NoFiles
        /\ record = "none" /\ asked = FALSE
        /\ verdict = "none" /\ late = FALSE /\ torn = FALSE

-----------------------------------------------------------------------------
\* The child-run record.
Terminal(status) == status \notin {"none", "running", "terminating"}

ReconcileProcessExit(status, exit) ==
    CASE Terminal(status) -> status
      [] status = "terminating" \/ exit = 130 -> "terminated"
      [] exit = 0 -> "completed"
      [] exit = 124 -> "timed_out"
      [] OTHER -> "failed"

MarkTerminal(status, new) == IF Terminal(status) THEN status ELSE new

\* A record of this parent that is not terminal.
RequestTermination ==
    /\ record \in {"running", "terminating"}
    /\ record' = "terminating" /\ asked' = TRUE

\* The terminate_child_run tool; its other answers change nothing.
TerminateChildRun ==
    /\ RequestTermination
    /\ UNCHANGED <<launch, pc, cancel, process, watch, verdict, late>>

-----------------------------------------------------------------------------
\* The tool call.
Hand(status) == pc' = "joined" /\ verdict' = status

\* An invalid payload, a runtime without delegation or a skill that does not
\* resolve is answered at once; so is a call whose turn is already cancelled.
Invoke ==
    /\ pc = "invoked"
    /\ \/ Hand("rejected")
       \/ /\ cancel /\ Hand("cancelled")
       \/ /\ ~cancel /\ pc' = "attempt" /\ UNCHANGED verdict
    /\ UNCHANGED <<launch, cancel, process, watch, registry, late>>

\* ChildProcessLaunch::spawn: the namespace is read, the inputs (target and
\* tools) are chosen from the live parent ...
Attempt ==
    /\ pc = "attempt"
    /\ IF cancel \/ attempts = MaxAttempts
       THEN Hand("launch_failed") /\ UNCHANGED launch
       ELSE /\ read' = gen /\ attempts' = attempts + 1
            /\ pc' = "select" /\ UNCHANGED <<gen, inputs, verdict>>
    /\ UNCHANGED <<cancel, process, watch, registry, late>>

SelectInputs ==
    /\ pc = "select"
    /\ inputs' = gen /\ pc' = "refresh"
    /\ UNCHANGED <<gen, read, attempts, cancel, process, watch, registry, verdict, late>>

\* Mutant: the plan is made in the refreshed namespace whatever it was before.
MutRefresh ==
    /\ pc = "refresh"
    /\ read' = gen /\ pc' = "plan"
    /\ UNCHANGED <<gen, inputs, attempts, cancel, process, watch, registry, verdict, late>>

\* ... and kept only if the namespace is still the same one.
Refresh ==
    /\ pc = "refresh"
    /\ pc' = IF gen = read THEN "plan" ELSE "attempt"
    /\ UNCHANGED <<launch, cancel, process, watch, registry, verdict, late>>

\* The plan, the capability decision and the request; a failure counts only if
\* the namespace did not change meanwhile.
Plan ==
    /\ pc = "plan"
    /\ \/ /\ gen = read
          /\ \/ pc' = "clone" /\ UNCHANGED verdict
             \/ Hand("launch_failed")
       \/ /\ gen # read /\ pc' = "attempt" /\ UNCHANGED verdict
    /\ UNCHANGED <<launch, cancel, process, watch, registry, late>>

\* /proc/clone refuses a manifest of another generation, which is tried again.
Clone ==
    /\ pc = "clone"
    /\ \/ /\ cancel /\ Hand("launch_failed") /\ UNCHANGED child
       \/ /\ ~cancel /\ gen = read
          /\ child' = "running" /\ pc' = "startup" /\ UNCHANGED verdict
       \/ /\ ~cancel /\ gen # read
          /\ pc' = "attempt" /\ UNCHANGED <<child, verdict>>
    /\ UNCHANGED <<launch, cancel, code, said, turn, files, watch, registry, late>>

ExitWith(c, result) == child' = "exited" /\ code' = c /\ said' = result

\* A control message to an exited Process changes nothing.
ControlCancel == IF child = "running" THEN ExitWith(130, said) ELSE UNCHANGED <<child, code, said>>

\* The result a Process wrote counts only with the exit code that goes with it.
AgentResultMatches ==
    \/ code = 0 /\ said = "completed"
    \/ code = 1 /\ said \in {"paused", "failed"}

\* wait_for_child_process_startup, and the record of a child that started.
AwaitStartup ==
    /\ pc = "startup"
    /\ \/ /\ cancel
          /\ ControlCancel /\ Hand("launch_failed") /\ UNCHANGED record
       \/ /\ child = "exited" /\ ~AgentResultMatches
          /\ Hand("launch_failed") /\ UNCHANGED <<child, code, said, record>>
       \/ /\ IF child = "exited" THEN AgentResultMatches ELSE files.bound
          /\ record' = "running" /\ pc' = "entry"
          /\ UNCHANGED <<child, code, said, verdict>>
    /\ UNCHANGED <<launch, cancel, turn, files, watch, asked, late>>

-----------------------------------------------------------------------------
\* The supervisor.
Observed(status) == pc' = "settle" /\ verdict' = status

\* terminate_process_and_reconcile
TerminateProcess ==
    /\ ControlCancel
    /\ record' = ReconcileProcessExit(record, code')

CancelledResult ==
    /\ ControlCancel
    /\ record' = MarkTerminal(ReconcileProcessExit(record, code'), "cancelled")
    /\ Hand("cancelled")

Entry ==
    /\ pc = "entry"
    /\ IF cancel THEN CancelledResult
       ELSE pc' = "exit" /\ UNCHANGED <<child, code, said, record, verdict>>
    /\ UNCHANGED <<launch, cancel, turn, files, watch, asked, late>>


\* What an exited Process tells: its result, an external stop, or a failure.
JudgeExit ==
    /\ Observed(CASE AgentResultMatches -> said
                  [] code = 130 -> "terminated"
                  [] OTHER -> "failed")
    /\ UNCHANGED <<process, watch, registry>>

ReadExit ==
    /\ pc = "exit"
    /\ \/ child = "exited" /\ JudgeExit
       \/ child # "exited" /\ pc' = "activity" /\ UNCHANGED <<process, watch, registry, verdict>>
    /\ UNCHANGED <<launch, cancel, late>>

\* The order in which observe_files reads the files of a live child.
NextRead == [activity |-> "output", output |-> "events", events |-> "notice",
             notice |-> "requests", requests |-> "judge"]

\* The part of the observation each file gives.
Observe(step) ==
    CASE step = "activity" -> [seen EXCEPT !.activity = files.activity]
      [] step = "output" -> [seen EXCEPT !.text = files.text]
      [] step = "events" -> [seen EXCEPT !.events = files.events]
      [] step = "notice" -> [seen EXCEPT !.error = files.error]
      [] step = "requests" -> [seen EXCEPT !.request = files.request]

\* A file that cannot be read, or not within its second: the exit code is read
\* again, and without one the join fails.
ReadFile ==
    /\ pc \in DOMAIN NextRead
    /\ \/ /\ files.bound
          /\ seen' = Observe(pc) /\ pc' = NextRead[pc]
          /\ torn' = (torn \/ (pc = "events" /\ seen.activity = "idle" /\ files.events /\ turn # "ended"))
          /\ UNCHANGED <<process, registry, last, verdict>>
       \/ /\ child = "exited" /\ JudgeExit
       \/ /\ child = "running" /\ Hand("error")
          /\ UNCHANGED <<process, registry, watch>>
    /\ UNCHANGED <<launch, cancel, late>>


\* What the files of a live child tell.
Judge ==
    /\ pc = "judge"
    /\ \/ /\ seen.activity = "paused" /\ seen.request /\ Observed("paused")
       \/ /\ seen.activity = "idle" /\ seen.events
          /\ Observed(IF seen.error THEN "failed" ELSE "completed")
       \/ /\ ~(seen.activity = "paused" /\ seen.request)
          /\ ~(seen.activity = "idle" /\ seen.events)
          /\ pc' = "wait" /\ UNCHANGED verdict
    /\ UNCHANGED <<launch, cancel, process, watch, registry, late>>

\* A termination request is looked for, then the wall-clock cap.
Check ==
    /\ pc = "wait"
    /\ \/ /\ asked
          /\ TerminateProcess /\ Observed("terminated")
       \/ /\ ~asked
          /\ TerminateProcess /\ Observed("timed_out")
       \/ /\ ~asked /\ pc' = "sleep"
          /\ UNCHANGED <<child, code, said, record, verdict>>
    /\ UNCHANGED <<launch, cancel, turn, files, watch, asked, late>>

\* The cancellation, the idle timeout or the next poll, whichever is first; the
\* window starts again with every observation that differs from the last.
Select ==
    /\ pc = "sleep"
    /\ \/ cancel /\ CancelledResult /\ UNCHANGED last
       \/ /\ seen = last
          /\ TerminateProcess /\ Observed("timed_out") /\ UNCHANGED last
       \/ /\ pc' = "exit" /\ last' = seen
          /\ UNCHANGED <<child, code, said, record, verdict>>
    /\ UNCHANGED <<launch, cancel, turn, files, seen, torn, asked, late>>

\* The record after at most five seconds of waiting for the exit.
AwaitProcessTerminal == IF child = "exited" THEN ReconcileProcessExit(record, code) ELSE record

\* finish_after_observed_terminal_event: the record follows the exit before it is
\* given the status of the result.
Settle ==
    /\ pc = "settle"
    /\ record' = MarkTerminal(AwaitProcessTerminal, verdict)
    /\ late' = (child = "running")
    /\ pc' = "joined"
    /\ UNCHANGED <<launch, cancel, process, watch, asked, verdict>>

\* The tool call is answered, unless its turn was cancelled and so was the
\* child or its launch.
Answer ==
    /\ pc = "joined"
    /\ pc' = IF cancel /\ verdict \in {"cancelled", "launch_failed", "error"} THEN "ended" ELSE "answered"
    /\ UNCHANGED <<launch, cancel, process, watch, registry, verdict, late>>

-----------------------------------------------------------------------------
\* The others: the turn is cancelled, the parent's namespace changes.
CancelTurn == /\ ~cancel /\ pc \notin {"answered", "ended"} /\ cancel' = TRUE
              /\ UNCHANGED <<launch, pc, process, watch, registry, verdict, late>>

ChangeNamespace == /\ gen < MaxGen /\ pc \in {"attempt", "select", "refresh", "plan", "clone"}
                   /\ gen' = gen + 1
                   /\ UNCHANGED <<read, inputs, attempts, pc, cancel, process, watch, registry, verdict, late>>

\* The child (Activity, AgentLife): its files are bound, its turn starts, does
\* its work and ends in an answer, an error or a question; the service then
\* writes the result and the Process exits, after which it is unbound.
Writes(from, to, new) == turn = from /\ turn' = to /\ files' = new

Child ==
    /\ child = "running"
    /\ \/ Writes("boot", "start", [files EXCEPT !.bound = TRUE])
       \/ Writes("start", "announce", [files EXCEPT !.activity = "running"])
       \/ Writes("announce", "work", [files EXCEPT !.events = TRUE])
       \/ Writes("work", "end", [files EXCEPT !.text = TRUE])
       \/ Writes("work", "end", [files EXCEPT !.error = TRUE])
       \/ Writes("work", "ask", [files EXCEPT !.request = TRUE])
       \/ Writes("ask", "asked", [files EXCEPT !.activity = "paused"])
       \/ Writes("end", "ended", [files EXCEPT !.activity = "idle"])
    /\ UNCHANGED <<launch, pc, cancel, child, code, said, watch, registry, verdict, late>>

Exit ==
    /\ child = "running"
    /\ \/ turn = "ended" /\ ~files.error /\ ExitWith(0, "completed")
       \/ turn = "ended" /\ files.error /\ ExitWith(1, "failed")
       \/ turn = "asked" /\ ExitWith(1, "paused")
       \/ turn = "boot" /\ ExitWith(1, "failed")
    /\ UNCHANGED <<launch, pc, cancel, turn, files, watch, registry, verdict, late>>

\* The runner panics, or somebody writes to the ctl file of the Process.
Stop ==
    /\ child = "running"
    /\ \E c \in {1, 130} : ExitWith(c, said)
    /\ UNCHANGED <<launch, pc, cancel, turn, files, watch, registry, verdict, late>>

Unbind ==
    /\ child = "exited" /\ files.bound
    /\ files' = [files EXCEPT !.bound = FALSE]
    /\ UNCHANGED <<launch, pc, cancel, child, code, said, turn, watch, registry, verdict, late>>

Parent ==
    \/ Invoke \/ Attempt \/ SelectInputs \/ Refresh \/ Plan \/ Clone \/ AwaitStartup
    \/ Entry \/ ReadExit \/ ReadFile \/ Judge \/ Check \/ Select \/ Settle \/ Answer

Next == Parent \/ TerminateChildRun \/ CancelTurn \/ ChangeNamespace \/ Child \/ Exit \/ Stop \/ Unbind

\* The engine's task is run whenever it is ready; nothing is assumed of the child.
Fairness == WF_vars(Parent)

Spec == Init /\ [][Next]_vars /\ Fairness

-----------------------------------------------------------------------------
\* The status a child run hands to its parent is the one the child had: it
\* completed only if its turn ended without an error, or the turn started between
\* the reads of one observation; it paused only on a question; it is terminated
\* or timed out only when the Process really was stopped (wait_for_terminal_event
\* against the child's own writes).
VerdictIsTrue ==
    /\ verdict = "completed" => (turn = "ended" /\ ~files.error) \/ torn
    /\ verdict = "paused" => files.request
    /\ verdict = "failed" => files.error \/ code # 0
    /\ verdict \in {"terminated", "timed_out", "cancelled"} => child # "running"

\* A child runs with inputs chosen in the very namespace it was planned and
\* cloned in, however the parent's namespace changes during the launch
\* (ChildProcessLaunch::spawn).
LaunchIsCurrent == child # "none" => inputs = read /\ read = gen

RunExited == child = "exited" /\ record # "none"
RunJoined == pc \in {"answered", "ended"} /\ (Terminal(record) \/ verdict = "error")

\* Once the Process has exited, a supervised child run is joined with a terminal
\* record: a stale activity file cannot keep it running.  Only a join that failed
\* on a file it could not read in time leaves the record as it was
\* (wait_for_terminal_event, finish_after_observed_terminal_event).
ExitIsClassified == RunExited ~> RunJoined

\* "WHEN ... no child-owned heartbeat or progress file advances inside the idle
\* timeout window THEN the child-run record is updated to `timed_out`": the record
\* of a run that was handed back as timed out says so.
TimedOutIsRecorded == (pc = "joined" /\ verdict = "timed_out") => record = "timed_out"

\* "A completed delegated child": its output is handed over complete.
CompletedHasEnded == verdict = "completed" => turn = "ended"
=============================================================================
