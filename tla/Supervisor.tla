----------------------------- MODULE Supervisor -----------------------------
(***************************************************************************)
(* The Service Manager: the Boot Units' state machine (ManagerState), the  *)
(* boot sequence, and the supervisor loop that observes Process exits,     *)
(* withdraws the /srv handles of a dead service, restarts it within its    *)
(* budget and takes retry requests from the ctl file.                      *)
(*                                                                         *)
(* Time is abstract: a backoff deadline may pass at any later tick and a   *)
(* Process may have run shorter or longer than its stable reset window.  A *)
(* unit's handles are published and withdrawn together, so one entry of    *)
(* posted stands for all of them; it holds the pid it was published for.   *)
(***************************************************************************)
EXTENDS Integers, Sequences, FiniteSets

CONSTANTS
  Units,          \* names of the Boot Units
  Root,           \* "root-agent", whose Process is an Agent and posts nothing
  Package,        \* the unit whose tree sits behind a SwitchableFileServer
  Names,          \* the units in the order of the BTreeMaps' keys
  BootOrder,      \* the manifest's dependency order, Root left out
  Required,       \* the units declared required
  Policy,         \* [Units -> {"never", "on-failure", "always"}]
  RestartLimit,   \* the restart budget
  MaxPids,        \* bound: Processes ever spawned
  MaxRetries,     \* bound: accepted retry requests
  ReleaseFails    \* may releasing the Root's Process fail?

ASSUME ConstantsAssumption ==
  /\ {Root, Package} \subseteq Units /\ Root # Package /\ Required \subseteq Units
  /\ Names \in Seq(Units) /\ \A u \in Units : \E i \in DOMAIN Names : Names[i] = u
  /\ BootOrder \in Seq(Units \ {Root})
  /\ \A i, j \in DOMAIN BootOrder : BootOrder[i] = BootOrder[j] => i = j
  /\ Policy \in [Units -> {"never", "on-failure", "always"}]
  /\ RestartLimit \in Nat /\ MaxPids \in Nat /\ MaxRetries \in Nat
  /\ ReleaseFails \in BOOLEAN

VARIABLES
  unit,      \* ManagerState.units
  system,    \* ManagerState.status
  requests,  \* ManagerState.retry_requests
  proc,      \* the Processes of /proc, in pid order
  active,    \* SupervisorRuntime.active: the pid supervised for a unit
  pending,   \* SupervisorRuntime.pending: units waiting for a deadline
  posted,    \* /srv: the pid whose launch published the unit's handles
  bound,     \* the SwitchableFileServer: the pid whose launch bound it
  root,      \* SupervisorRuntime.root: the retained RootAgentProcess
  rootPid,   \* the published root_pid
  sup,       \* the supervisor task: where it is, and what is left to do
  stopping,  \* shutdown() was called
  retries,   \* accepted retries so far (bounds the model)
  streak     \* launches of a unit since a stable run or a retry

vars == <<unit, system, requests, proc, active, pending, posted, bound, root,
          rootPid, sup, stopping, retries, streak>>
manager == <<unit, system, requests>>

NoPid == 0
Pids == 1 .. MaxPids
Terminal == {"Exited", "Failed"}
Codes == {0, 1}

Running(p) == p \in DOMAIN proc /\ proc[p].state = "running"

--------------------------------------------------------------------------
(* ManagerState: each operation runs under the state's mutex.              *)

ShouldRestart(u, code) ==
  \/ Policy[u] = "always"
  \/ Policy[u] = "on-failure" /\ code # 0

Started(r, p) == [r EXCEPT !.attempts = @ + 1, !.pid = p, !.status = "Starting"]
start_attempt(u, p) == unit' = [unit EXCEPT ![u] = Started(@, p)]
StartFailed(us, u) == [us EXCEPT ![u] = Started(@, NoPid)]

mark_ready(u) ==
  /\ unit' = [unit EXCEPT ![u] = [@ EXCEPT !.status = "Ready",
                                           !.ready_once = TRUE]]
  /\ system' = IF \A v \in Units : unit'[v].status = "Ready"
               THEN "Ready" ELSE system

MutBudgetSpent(attempts) == attempts > RestartLimit + 1
BudgetSpent(attempts) == attempts > RestartLimit

Concluded(r, status, attempts, degrade) ==
  [r EXCEPT !.pid = NoPid, !.status = status, !.attempts = attempts,
            !.degraded = @ \/ degrade]

\* What record_exit makes of a unit, and terminal_decision of the system.
RecordExit(us, u, code, stable) ==
  LET attempts == IF stable THEN 1 ELSE us[u].attempts
      status   == IF ~ShouldRestart(u, code) THEN "Exited"
                  ELSE IF BudgetSpent(attempts) THEN "Failed" ELSE "Backoff"
      fatal    == status \in Terminal /\ u \in Required
      failBoot == fatal /\ system = "Booting" /\ ~us[u].ready_once
      degrade  == fatal /\ ~failBoot
  IN [unit    |-> [us EXCEPT ![u] = Concluded(@, status, attempts, degrade)],
      system  |-> IF failBoot THEN "Failed"
                   ELSE IF degrade THEN "Degraded" ELSE system,
      restart |-> status = "Backoff"]

MutRetry(u) ==
  /\ retries < MaxRetries
  /\ unit[u].status \in Terminal
  /\ unit' = [unit EXCEPT ![u] = [@ EXCEPT !.status = "Pending", !.attempts = 0,
                                           !.degraded = FALSE]]
  /\ requests' = requests \cup {u}
  /\ system' = "Ready"
  /\ retries' = retries + 1
  /\ streak' = [streak EXCEPT ![u] = 0]
  /\ UNCHANGED <<proc, active, pending, posted, bound, root, rootPid, sup,
                 stopping>>

\* The write of `retry <unit>` to ctl, committed by its clunk.
Retry(u) ==
  /\ retries < MaxRetries
  /\ unit[u].status \in Terminal
  /\ unit' = [unit EXCEPT ![u] = [@ EXCEPT !.status = "Pending", !.attempts = 0,
                                           !.degraded = FALSE]]
  /\ requests' = requests \cup {u}
  /\ system' = IF \E v \in Units : unit'[v].degraded
               THEN "Degraded" ELSE "Ready"
  /\ retries' = retries + 1
  /\ streak' = [streak EXCEPT ![u] = 0]
  /\ UNCHANGED <<proc, active, pending, posted, bound, root, rootPid, sup,
                 stopping>>

--------------------------------------------------------------------------
(* The supervisor task.  What it shares with the rest of the system is     *)
(* /proc, /srv and ManagerState; active, pending and root are its own.     *)

Exited(ps, p, code) ==
  IF p \in DOMAIN ps /\ ps[p].state = "running"
  THEN [ps EXCEPT ![p] = [@ EXCEPT !.state = "exited", !.code = code]] ELSE ps

\* invalidate_handles(u): unpost, and deactivate the package tree.
Withdraw(u) ==
  /\ posted' = [posted EXCEPT ![u] = NoPid]
  /\ bound' = IF u = Package THEN NoPid ELSE bound

\* detach_root and release_process return the error of finishing the Root's
\* rollout recorder; shutdown_root also that of a Root outliving its 12 s.
ReleaseOutcomes(u) == IF u = Root /\ ReleaseFails THEN {TRUE, FALSE} ELSE {TRUE}

\* apply_restart_decision: the loop keeps a deadline for a unit in Backoff.
Deadlines(u, restart) ==
  IF restart /\ sup.phase = "run" THEN pending \cup {u} ELSE pending

\* The place an error that leaves the phase's function leads to.
Abandoned == IF sup.phase = "run" THEN "dead" ELSE "aborted"

\* assemble_environment: the next unit of the dependency order.
BootNext ==
  /\ sup.pc = "next" /\ sup.next <= Len(BootOrder)
  /\ sup' = [sup EXCEPT !.pc = "spawn", !.unit = BootOrder[sup.next]]
  /\ UNCHANGED <<manager, proc, active, pending, posted, bound, root, rootPid,
                 stopping, retries, streak>>

\* A Process is spawned for u and tracked by start_attempt.
Track(u) ==
  /\ Len(proc) < MaxPids
  /\ proc' = Append(proc, [of |-> u, state |-> "running", code |-> 0])
  /\ start_attempt(u, Len(proc'))
  /\ streak' = [streak EXCEPT ![u] = @ + 1]
  /\ UNCHANGED <<system, requests, pending, posted, bound, stopping, retries>>

\* assemble_environment: the Root Agent is launched, tracked and retained;
\* settle_initial_root awaits it.
BootRoot ==
  /\ sup.pc = "next" /\ sup.next > Len(BootOrder)
  /\ Track(Root)
  /\ active' = [active EXCEPT ![Root] = Len(proc')]
  /\ root' = Len(proc') /\ rootPid' = Len(proc')
  /\ sup' = [sup EXCEPT !.phase = "settle", !.pc = "await", !.unit = Root,
                        !.pid = Len(proc')]

BootRootFails ==
  /\ sup.pc = "next" /\ sup.next > Len(BootOrder)
  /\ sup' = [sup EXCEPT !.pc = "aborted"]
  /\ UNCHANGED <<manager, proc, active, pending, posted, bound, root, rootPid,
                 stopping, retries, streak>>

\* launch(u): spawn_unit_process, or launch_root for the Root.
Spawn ==
  /\ sup.pc = "spawn"
  /\ Track(sup.unit)
  /\ sup' = [sup EXCEPT !.pid = Len(proc'),
                        !.pc = IF sup.unit = Root THEN "await" ELSE "publish"]
  /\ UNCHANGED <<active, root, rootPid>>

SpawnFails ==
  /\ sup.pc = "spawn"
  /\ streak' = [streak EXCEPT ![sup.unit] = @ + 1]
  /\ sup' = [sup EXCEPT !.pc = "terminate"]
  /\ UNCHANGED <<manager, proc, active, pending, posted, bound, root, rootPid,
                 stopping, retries>>

\* publish_unit_handles; binding the package tree installs a fresh server.
Publish ==
  /\ sup.pc = "publish"
  /\ posted' = [posted EXCEPT ![sup.unit] = sup.pid]
  /\ bound' = IF sup.unit = Package THEN sup.pid ELSE bound
  /\ sup' = [sup EXCEPT !.pc = "await"]
  /\ UNCHANGED <<manager, proc, active, pending, root, rootPid, stopping,
                 retries, streak>>

\* wait_unit_ready sees the Process running and every handle posted;
\* wait_until_ready sees what the Root's runner sent, whatever it did since.
Awaited ==
  /\ sup.pc = "await"
  /\ sup.unit = Root \/ (Running(sup.pid) /\ posted[sup.unit] # NoPid)
  /\ sup' = [sup EXCEPT !.pc = "mark"]
  /\ UNCHANGED <<manager, proc, active, pending, posted, bound, root, rootPid,
                 stopping, retries, streak>>

\* The Process exited, the publication timed out or was refused, or the Root
\* failed before readiness and was detached.
AwaitFails ==
  /\ sup.pc \in {"publish", "await"}
  /\ active[sup.unit] = NoPid
  /\ proc' = IF sup.unit = Root THEN Exited(proc, sup.pid, 1) ELSE proc
  /\ sup' = [sup EXCEPT !.pc = "terminate"]
  /\ UNCHANGED <<manager, active, pending, posted, bound, root, rootPid,
                 stopping, retries, streak>>

\* mark_ready, then the unit is supervised.  Boot goes on to the next unit;
\* after the Root, verify_readiness lets the loop start.
MarkReady ==
  /\ sup.pc = "mark"
  /\ mark_ready(sup.unit)
  /\ active' = [active EXCEPT ![sup.unit] = sup.pid]
  /\ root' = IF sup.unit = Root THEN sup.pid ELSE root
  /\ rootPid' = IF sup.unit = Root THEN sup.pid ELSE rootPid
  /\ sup' = CASE sup.phase = "boot" ->
                   [sup EXCEPT !.pc = "next", !.next = @ + 1, !.pid = NoPid]
              [] sup.phase = "settle" ->
                   [sup EXCEPT !.phase = "run", !.pid = NoPid,
                               !.pc = IF system' = "Ready" THEN "due" ELSE "aborted"]
              [] OTHER -> [sup EXCEPT !.pc = "due", !.pid = NoPid, !.unit = Root]
  /\ UNCHANGED <<requests, proc, pending, posted, bound, stopping, retries, streak>>

MutTerminate ==
  /\ sup.pc = "terminate"
  /\ active' = [active EXCEPT ![sup.unit] = NoPid]
  /\ sup' = [sup EXCEPT !.pid = unit[sup.unit].pid, !.pc = "record"]
  /\ UNCHANGED <<manager, proc, pending, posted, bound, root, rootPid, stopping,
                 retries, streak>>

\* The failed launch: the tracked Process is recorded as exited.  In the loop
\* a Root is also released, and an error of that ends the task.
Terminate ==
  /\ sup.pc = "terminate"
  /\ LET p == unit[sup.unit].pid IN
     /\ proc' = Exited(proc, p, 1)
     /\ active' = [active EXCEPT ![sup.unit] = NoPid]
     /\ rootPid' = IF sup.unit = Root /\ p # NoPid THEN NoPid ELSE rootPid
     /\ \E ok \in IF p = NoPid THEN {TRUE} ELSE ReleaseOutcomes(sup.unit) :
          sup' = [sup EXCEPT !.pid = p, !.pc = IF ok THEN "record" ELSE Abandoned]
  /\ UNCHANGED <<manager, pending, posted, bound, root, stopping, retries, streak>>

\* handle_launch_failure's end.  The boot loop unposts the handles and leaves
\* the package tree bound; it sleeps the backoff itself, where the loop keeps
\* a deadline in pending.
Record ==
  LET u == sup.unit
      r == RecordExit(IF sup.pid = NoPid THEN StartFailed(unit, u) ELSE unit, u, 1, FALSE)
  IN /\ sup.pc = "record"
     /\ IF sup.phase = "boot"
        THEN posted' = [posted EXCEPT ![u] = NoPid] /\ UNCHANGED bound
        ELSE Withdraw(u)
     /\ unit' = r.unit /\ system' = r.system
     /\ pending' = Deadlines(u, r.restart)
     /\ sup' = IF sup.phase = "run"
               THEN [sup EXCEPT !.pid = NoPid, !.unit = Root, !.pc = "due"]
               ELSE [sup EXCEPT !.pid = NoPid,
                                !.pc = IF r.restart THEN "spawn" ELSE "aborted"]
     /\ UNCHANGED <<requests, proc, active, root, rootPid, stopping, retries, streak>>

\* handle_exit(u) with the code and the run time of its Process; next is where
\* the task goes when no error ends it.
HandleExit(u, code, stable, next) ==
  /\ active' = [active EXCEPT ![u] = NoPid]
  /\ Withdraw(u)
  /\ root' = IF u = Root THEN NoPid ELSE root
  /\ rootPid' = IF u = Root THEN NoPid ELSE rootPid
  /\ \E ok \in ReleaseOutcomes(u) :
       \/ /\ ~ok
          /\ sup' = [sup EXCEPT !.pc = Abandoned]
          /\ UNCHANGED <<unit, system, pending, streak>>
       \/ /\ ok
          /\ LET r == RecordExit(unit, u, code, stable) IN
             /\ unit' = r.unit /\ system' = r.system
             /\ pending' = Deadlines(u, r.restart)
             /\ sup' = IF r.restart \/ sup.phase = "run"
                       THEN next ELSE [sup EXCEPT !.pc = "aborted"]
          /\ streak' = IF stable THEN [streak EXCEPT ![u] = 1] ELSE streak
  /\ UNCHANGED <<requests, stopping, retries>>

\* settle_initial_root, when the Root launched by boot does not become ready.
SettleFails ==
  /\ sup.pc = "await" /\ active[sup.unit] # NoPid
  /\ proc' = Exited(proc, sup.pid, 1)
  /\ \E stable \in BOOLEAN :
       HandleExit(Root, 1, stable, [sup EXCEPT !.pc = "spawn", !.pid = NoPid])

\* Between two ticks: nothing is left of the last one's due launches.
Idle == sup.pc = "due" /\ sup.todo = {}

\* The tick goes through its units in key order.
First(us) == Names[CHOOSE i \in DOMAIN Names :
                     Names[i] \in us /\ \A j \in 1 .. i - 1 : Names[j] \notin us]

MutTick ==
  /\ Idle
  /\ requests' = {}
  /\ pending' = pending \cup {u \in requests : active[u] # NoPid}
  /\ sup' = [sup EXCEPT !.pc = "scan",
                        !.todo = {u \in Units : active[u] # NoPid}]
  /\ UNCHANGED <<unit, system, proc, active, posted, bound, root, rootPid,
                 stopping, retries, streak>>

\* tick: the retry requests are taken and the active units listed.
Tick ==
  /\ Idle
  /\ requests' = {}
  /\ pending' = pending \cup {u \in requests : active[u] = NoPid}
  /\ sup' = [sup EXCEPT !.pc = "scan",
                        !.todo = {u \in Units : active[u] # NoPid}]
  /\ UNCHANGED <<unit, system, proc, active, posted, bound, root, rootPid,
                 stopping, retries, streak>>

ScanUnit ==
  /\ sup.pc = "scan" /\ sup.todo # {}
  /\ sup' = [sup EXCEPT !.todo = @ \ {First(sup.todo)}]
  /\ UNCHANGED <<manager, proc, active, pending, posted, bound, root, rootPid,
                 stopping, retries, streak>>

MutScanExit(u) ==
  /\ sup.pc = "scan" /\ sup.todo # {} /\ u = First(sup.todo)
  /\ ~Running(active[u]) /\ proc[active[u]].code # 0
  /\ \E stable \in BOOLEAN :
       HandleExit(u, proc[active[u]].code, stable, [sup EXCEPT !.todo = @ \ {u}])
  /\ UNCHANGED proc

\* The unit's Process is seen to have exited.  try_observe_process_lifecycle
\* sees nothing while another task holds the Process table: then ScanUnit
\* passes it over, as it does a running one, until a later tick.
ScanExit(u) ==
  /\ sup.pc = "scan" /\ sup.todo # {} /\ u = First(sup.todo)
  /\ ~Running(active[u])
  /\ \E stable \in BOOLEAN :
       HandleExit(u, proc[active[u]].code, stable, [sup EXCEPT !.todo = @ \ {u}])
  /\ UNCHANGED proc

\* Any of the pending deadlines may have passed.
ScanDone(due) ==
  /\ sup.pc = "scan" /\ sup.todo = {}
  /\ sup' = [sup EXCEPT !.pc = "due", !.todo = due]
  /\ UNCHANGED <<manager, proc, active, pending, posted, bound, root, rootPid,
                 stopping, retries, streak>>

LaunchDue ==
  /\ sup.pc = "due" /\ sup.todo # {}
  /\ LET u == First(sup.todo) IN
     /\ pending' = pending \ {u}
     /\ sup' = [sup EXCEPT !.pc = "spawn", !.unit = u, !.todo = @ \ {u}]
  /\ UNCHANGED <<manager, proc, active, posted, bound, root, rootPid, stopping,
                 retries, streak>>

\* stop(): the package tree goes first, then the Root is asked to stop and
\* awaited; an error of that ends stop before the services are recorded.
StopRoot ==
  /\ Idle /\ stopping
  /\ bound' = NoPid
  /\ root' = NoPid
  /\ \E ok \in IF root = NoPid THEN {TRUE} ELSE ReleaseOutcomes(Root) :
       /\ proc' = IF ok THEN Exited(proc, root, 0) ELSE proc
       /\ sup' = [sup EXCEPT !.pc = IF ok THEN "stop" ELSE "dead"]
  /\ UNCHANGED <<manager, active, pending, posted, rootPid, stopping, retries, streak>>

MutStopUnits ==
  /\ sup.pc = "stop"
  /\ proc' = [p \in DOMAIN proc |->
                IF \E u \in Units : active[u] = p /\ Running(p)
                THEN [proc[p] EXCEPT !.state = "exited", !.code = 0] ELSE proc[p]]
  /\ posted' = [u \in Units |-> IF Running(active[u]) THEN NoPid ELSE posted[u]]
  /\ active' = [u \in Units |-> NoPid]
  /\ sup' = [sup EXCEPT !.pc = "stopped"]
  /\ UNCHANGED <<manager, pending, bound, root, rootPid, stopping, retries, streak>>

StopUnits ==
  /\ sup.pc = "stop"
  /\ proc' = [p \in DOMAIN proc |->
                IF \E u \in Units : active[u] = p /\ Running(p)
                THEN [proc[p] EXCEPT !.state = "exited", !.code = 0] ELSE proc[p]]
  /\ posted' = [u \in Units |-> IF active[u] # NoPid THEN NoPid ELSE posted[u]]
  /\ active' = [u \in Units |-> NoPid]
  /\ sup' = [sup EXCEPT !.pc = "stopped"]
  /\ UNCHANGED <<manager, pending, bound, root, rootPid, stopping, retries, streak>>

--------------------------------------------------------------------------
(* The others: Processes that exit, and the Host that shuts down.          *)

\* A Process ends by itself or through terminate_unit.  The code of a unit
\* that always restarts is never looked at.
ProcessExits(p, code) ==
  /\ Running(p)
  /\ Policy[proc[p].of] = "always" => code = 1
  /\ proc' = Exited(proc, p, code)
  /\ UNCHANGED <<manager, active, pending, posted, bound, root, rootPid, sup,
                 stopping, retries, streak>>

Shutdown ==
  /\ sup.phase = "run" /\ sup.pc # "aborted" /\ ~stopping
  /\ stopping' = TRUE
  /\ system' = "Stopping"
  /\ UNCHANGED <<unit, requests, proc, active, pending, posted, bound, root,
                 rootPid, sup, retries, streak>>

Init ==
  /\ unit = [u \in Units |-> [status |-> "Pending", pid |-> NoPid, attempts |-> 0,
                              degraded |-> FALSE, ready_once |-> FALSE]]
  /\ system = "Booting" /\ requests = {}
  /\ proc = <<>> /\ active = [u \in Units |-> NoPid] /\ pending = {}
  /\ posted = [u \in Units |-> NoPid] /\ bound = NoPid
  /\ root = NoPid /\ rootPid = NoPid
  /\ sup = [phase |-> "boot", pc |-> "next", next |-> 1, unit |-> Root,
            pid |-> NoPid, todo |-> {}]
  /\ stopping = FALSE /\ retries = 0 /\ streak = [u \in Units |-> 0]

Launch == Spawn \/ SpawnFails \/ Publish \/ Awaited \/ AwaitFails \/ MarkReady
          \/ Terminate \/ Record
Boot == BootNext \/ BootRoot \/ BootRootFails \/ SettleFails
Loop == \/ Tick \/ ScanUnit \/ LaunchDue \/ StopUnits
        \/ \E u \in Units : ScanExit(u)
        \/ \E due \in SUBSET pending : ScanDone(due)

Next ==
  \/ Launch \/ Boot \/ Loop \/ StopRoot \/ Shutdown
  \/ \E u \in Units : Retry(u)
  \/ \E p \in DOMAIN proc, code \in Codes : ProcessExits(p, code)

Spec == Init /\ [][Next]_vars

\* The supervisor task keeps running; the loop's select! polls a sent shutdown
\* every time round; the clock passes every pending deadline; the Process
\* table's lock is not held at every tick.
Fairness ==
  /\ WF_vars(Launch \/ Boot \/ Loop)
  /\ SF_vars(StopRoot)
  /\ \A u \in Units : SF_vars(ScanExit(u))
  /\ \A u \in Units :
       SF_vars(\E due \in SUBSET pending : u \in due /\ ScanDone(due))

FairSpec == Spec /\ Fairness

--------------------------------------------------------------------------
(* Properties.                                                             *)

\* The task is launching u, or recording that its launch failed.
InFlight(u) ==
  /\ u = sup.unit
  /\ sup.pc \in {"spawn", "publish", "await", "mark", "terminate", "record"}

\* While the loop runs, no unit falls out of supervision: a Ready unit is
\* watched under the pid ManagerState shows, a unit in Backoff has a deadline,
\* a retried one is queued or due, and one that reached the end of its budget
\* is neither watched nor due.  This is why dropping a retry request for an
\* active unit (supervisor.rs tick) loses nothing.
Supervised ==
  sup.phase = "run" /\ sup.pc \notin {"dead", "aborted", "stopped"} =>
    \A u \in Units : InFlight(u) \/
      CASE unit[u].status = "Ready" ->
             active[u] # NoPid /\ active[u] = unit[u].pid /\ u \notin pending
        [] unit[u].status = "Backoff" -> active[u] = NoPid /\ u \in pending
        [] unit[u].status = "Pending" -> active[u] = NoPid /\ u \in requests \cup pending
        [] unit[u].status = "Starting" -> FALSE
        [] OTHER -> active[u] = NoPid /\ u \notin requests \cup pending

\* A running unit Process is the one the supervisor watches or is launching:
\* no failed launch, exit or restart leaves one behind, so two Processes of a
\* unit never run together.  A handle in /srv belongs to such a launch, and
\* once boot is over the package tree is backed only for the posted handle.
NothingOrphaned ==
  /\ \A p \in DOMAIN proc : Running(p) =>
       LET u == proc[p].of IN active[u] = p \/ (InFlight(u) /\ unit[u].pid = p)
  /\ \A u \in Units : posted[u] # NoPid =>
       active[u] = posted[u] \/ (InFlight(u) /\ sup.pid = posted[u])
  /\ sup.phase # "boot" => bound \in {NoPid, posted[Package]}

\* The restart budget: between a stable run or an explicit retry and the next,
\* a unit is launched at most once and RestartLimit times more, whatever mix
\* of exits and failed launches it meets.
RestartBudget == \A u \in Units : streak[u] <= RestartLimit + 1

\* Once the loop runs, a required unit that will not be restarted shows: the
\* unit is degraded, and the system is Degraded until it is retried, although
\* other units become ready and are retried meanwhile.
DegradedShows ==
  sup.phase = "run" =>
    /\ \A u \in Required : unit[u].status \in Terminal =>
         unit[u].degraded /\ system \in {"Degraded", "Stopping"}
    /\ system = "Degraded" => \E u \in Required : unit[u].degraded

\* The four together: no unit is lost, left running unwatched, restarted without
\* bound or silently given up (Supervisor::tick, launch_unit, handle_exit).
UnitsAreSupervised == Supervised /\ NothingOrphaned /\ RestartBudget /\ DegradedShows

Over == sup.pc \in {"stopped", "aborted"}
Unhandled(u) == sup.phase = "run" /\ unit[u].status = "Ready" /\ ~Running(unit[u].pid)
Handled(u) == unit[u].status # "Ready" /\ posted[u] = NoPid

\* The exit of a ready unit's Process is found and handled: the unit's handles
\* are withdrawn and its policy is applied, unless the system stops or the
\* supervisor task ended with an error before.
ExitIsHandled ==
  \A u \in Units : Unhandled(u) ~> (Over \/ sup.pc = "dead" \/ Handled(u))

\* "WHEN a ready service Process exits THEN its handles are invalidated AND
\* Service Manager applies its restart policy" (service-manager spec): no
\* exception is made for a supervisor task that ended.
ExitGetsItsPolicy ==
  \A u \in Units : Unhandled(u) ~> (Over \/ Handled(u))

\* After shutdown() every unit's Process ends and every handle is withdrawn,
\* whatever the loop was doing when it was called, unless releasing the Root
\* failed, which ends the task.
ShutdownCompletes ==
  stopping ~> \/ sup.pc = "dead"
              \/ /\ sup.pc = "stopped"
                 /\ \A p \in DOMAIN proc : ~Running(p)
                 /\ \A u \in Units : posted[u] = NoPid

\* Both: the supervisor task never stalls on an exit or on a shutdown.
SupervisionProgresses == ExitIsHandled /\ ShutdownCompletes
=============================================================================
