---------------------------- MODULE HostControl -----------------------------
(***************************************************************************)
(* The host seen from a terminal: the directory a user selects for the Root*)
(* Agent, and the endpoint in the runtime directory through which every    *)
(* client reaches the instance.                                            *)
(***************************************************************************)
EXTENDS Naturals, FiniteSets, Sequences

-----------------------------------------------------------------------------
(***************************************************************************)
(* Selecting and revoking a project directory from the terminal            *)
(* (crates/tui/src/file_backed: project_io.rs, project_dispatch.rs,        *)
(* app/project.rs).  A selection is two remote steps: the Host grants the  *)
(* directory to the Root Agent Process (os-host/src/local/project_mount.rs *)
(* through alan/src/foreground.rs), then a control written to the Process  *)
(* changes its cwd (agent-engine's engine_directory_controls.rs and        *)
(* directory_control.rs) and the Action it publishes is the evidence.  A   *)
(* revocation leaves the directory first.  Replies may be lost, the Root   *)
(* Agent may be replaced, and every remote step is a task of its own.      *)
(***************************************************************************)

CONSTANTS MaxOps,    \* selections the user makes; a grant has the number of its operation
          MaxCtls,   \* directory controls the terminal writes
          MaxPid,    \* Root Agent Processes launched
          MaxMoves   \* directory changes of the Agent itself

Ops == 1..MaxOps
External == MaxOps + 1          \* a grant made to the first Root by another client
Grants == Ops \cup {External}
Pids == 1..MaxPid

NoOp == [owner |-> 0, op |-> 0]
NoControl == [owner |-> 0, id |-> 0, target |-> 0, revoke |-> 0, fenced |-> FALSE]
NoJob == [kind |-> "none", owner |-> 0, op |-> 0, at |-> "none", result |-> "none"]
NoProbe == [at |-> "none", grant |-> 0, active |-> TRUE]

VARIABLES
    \* the Host and the Root Agent Process
    root,       \* the live Root Agent Process, 0 while there is none
    launched,   \* how many there have been
    grantee,    \* grant -> the Process it was made to, 0 while there is none
    grant,      \* grant -> "none" | "active" | "revoked" | "rejected"
    cwd,        \* pid -> its directory
    ctl,        \* pid -> directory controls written to it and not yet taken
    published,  \* Actions the watched Process published that the terminal has not read
    done,       \* control ids whose Action is complete
    dirMoves,
    \* the terminal
    att,        \* watchers.root_agent_pid
    watched,    \* the Process whose Actions it tails
    shown,      \* namespace_cwd
    uncertain, pending, retained, ready, cleanup, attempted, project,
    hostPending,
    job,        \* the Host operation, or the lookup, the terminal has started
    writes,     \* directory controls being written
    ops, ctls,  \* how many of each so far
    probe,      \* the read of the selected grant's record
    gone        \* history: grants revoked while they were the directory of the live Root

hostSide == <<root, launched, grantee, grant>>
engine == <<cwd, ctl, published, done, dirMoves>>
app == <<shown, uncertain, pending, retained, ready, cleanup, attempted, project>>
projectVars == <<hostSide, engine, att, watched, app, hostPending, job, writes, ops, ctls, probe, gone>>

ProjectInit ==
    /\ root = 1 /\ launched = 1
    /\ grantee = [g \in Grants |-> IF g = External THEN 1 ELSE 0]
    /\ grant = [g \in Grants |-> IF g = External THEN "active" ELSE "none"]
    /\ cwd = [p \in Pids |-> 0]
    /\ ctl = [p \in Pids |-> <<>>]
    /\ published = <<>> /\ done = {} /\ dirMoves = 0
    /\ att = 1 /\ watched = 1 /\ shown = 0
    /\ uncertain = NoOp /\ pending = NoControl
    /\ retained = 0 /\ ready = 0 /\ cleanup = 0 /\ attempted = FALSE /\ project = 0
    /\ hostPending = FALSE /\ job = NoJob /\ writes = {}
    /\ ops = 0 /\ ctls = 0 /\ probe = NoProbe /\ gone = {}

-----------------------------------------------------------------------------
\* retained_project_grant: the grant the terminal must still dispose of.
RetainedGrant ==
    IF retained # 0 THEN retained
    ELSE IF pending.revoke # 0 THEN pending.revoke
    ELSE IF cleanup # 0 THEN cleanup
    ELSE project

\* The boundary for a recovery, and for a new selection.  That the queue is settled is
\* the user's view, which may be stale: it is left open here and judged by the Process.
RecoveryBoundary == ~hostPending

Boundary ==
    /\ RecoveryBoundary
    /\ uncertain = NoOp /\ pending = NoControl
    /\ retained = 0 /\ ready = 0 /\ cleanup = 0

\* stage_project_control and write_cwd: the control that selects dir is written by a task
\* of its own; it supersedes the one that was pending.
Stage(owner, dir, revoke) ==
    /\ ctls < MaxCtls
    /\ ctls' = ctls + 1
    /\ pending' = [owner |-> owner, id |-> ctls + 1, target |-> dir, revoke |-> revoke, fenced |-> FALSE]
    /\ ready' = 0
    /\ writes' = writes \cup {[owner |-> owner, id |-> ctls + 1, target |-> dir, at |-> "check"]}

Fenced(control) == IF control = NoControl THEN control ELSE [control EXCEPT !.fenced = TRUE]

\* project_io::start: a Host operation, unless one is pending.
StartOp(kind, op, owner) ==
    /\ hostPending' = TRUE
    /\ job' = [kind |-> kind, owner |-> owner, op |-> op, at |-> "sent", result |-> "none"]

\* The end of every handler of the terminal: a candidate to clean up is revoked once.
CleanUp(candidate, tried, busy) ==
    IF candidate # 0 /\ ~tried /\ ~busy
    THEN StartOp("revoke", candidate, att) /\ attempted' = TRUE
    ELSE attempted' = tried /\ hostPending' = busy /\ job' = IF busy THEN job ELSE NoJob

-----------------------------------------------------------------------------
\* The user
-----------------------------------------------------------------------------
\* /project, a path and Enter: a new selection.
Mount ==
    /\ Boundary /\ project = 0 /\ att # 0 /\ ops < MaxOps
    /\ ops' = ops + 1
    /\ uncertain' = [owner |-> att, op |-> ops + 1]
    /\ StartOp("mount", ops + 1, att)
    /\ UNCHANGED <<hostSide, engine, att, watched, shown, pending, retained, ready, cleanup, attempted,
                   project, writes, ctls, probe, gone>>

\* /project while an outcome is unknown: the same operation again, for the same Root.
RetryMount ==
    /\ RecoveryBoundary /\ uncertain # NoOp /\ uncertain.owner = att
    /\ StartOp("mount", uncertain.op, att)
    /\ UNCHANGED <<hostSide, engine, att, watched, app, writes, ops, ctls, probe, gone>>

\* /project revoke with a candidate to clean up: it is tried once more.
RetryCleanup ==
    /\ RecoveryBoundary /\ cleanup # 0 /\ pending = NoControl
    /\ CleanUp(cleanup, FALSE, FALSE)
    /\ UNCHANGED <<hostSide, engine, att, watched, shown, uncertain, pending, retained, ready, cleanup,
                   project, writes, ops, ctls, probe, gone>>

\* /project revoke with a retained grant: the Root must leave it first.
Revoke ==
    /\ RecoveryBoundary /\ RetainedGrant # 0 /\ att # 0
    /\ cleanup = 0 \/ pending # NoControl
    /\ Stage(att, 0, RetainedGrant)
    /\ UNCHANGED <<hostSide, engine, att, watched, shown, uncertain, retained, cleanup, attempted, project,
                   hostPending, job, ops, probe, gone>>

\* /project revoke with none: the grant of the current directory is looked up.
RevokeCurrent ==
    /\ RecoveryBoundary /\ RetainedGrant = 0 /\ cleanup = 0 /\ att # 0
    /\ hostPending' = TRUE
    /\ job' = [kind |-> "lookup", owner |-> att, op |-> shown, at |-> "sent", result |-> "none"]
    /\ UNCHANGED <<hostSide, engine, att, watched, app, writes, ops, ctls, probe, gone>>

-----------------------------------------------------------------------------
\* The Host
-----------------------------------------------------------------------------
\* The directories a Process can enter: "/", numbered 0, and the mounts of its grants.
Reachable(p) == {0} \cup {g \in Grants : grant[g] = "active" /\ grantee[g] = p}

\* ProjectOperations::mount: the result of an operation is kept and never made twice.  A
\* first attempt grants the directory to the Root the Service Manager names, or fails.
HostMounts(op, outcome) ==
    IF grantee[op] # 0
    THEN /\ outcome = (IF grantee[op] = launched /\ grant[op] = "active" THEN "mounted" ELSE "rejected")
         /\ UNCHANGED <<grantee, grant>>
    ELSE /\ outcome = "mounted" => root # 0
         /\ grantee' = [grantee EXCEPT ![op] = launched]
         /\ grant' = [grant EXCEPT ![op] = IF outcome = "mounted" THEN "active" ELSE "rejected"]

\* revoke: idempotent.
HostRevokes(g) ==
    /\ grant' = [grant EXCEPT ![g] = "revoked"]
    /\ gone' = IF root # 0 /\ cwd[root] = g /\ grant[g] = "active" THEN gone \cup {g} ELSE gone
    /\ UNCHANGED grantee

\* The Host serves the operation; the reply arrives or is lost.
ServeHost ==
    /\ job.at = "sent" /\ job.kind \in {"mount", "revoke"}
    /\ \E outcome \in {"mounted", "rejected", "revoked"}, lost \in BOOLEAN :
          /\ (outcome = "revoked") = (job.kind = "revoke")
          /\ IF job.kind = "mount" THEN HostMounts(job.op, outcome) /\ UNCHANGED gone ELSE HostRevokes(job.op)
          /\ job' = [job EXCEPT !.at = "done", !.result = IF lost THEN "lost" ELSE outcome]
    /\ UNCHANGED <<root, launched, engine, att, watched, app, hostPending, writes, ops, ctls, probe>>

\* The request never reached the Host.
NotServed ==
    /\ job.at = "sent" /\ job.kind \in {"mount", "revoke"}
    /\ job' = [job EXCEPT !.at = "done", !.result = "lost"]
    /\ UNCHANGED <<hostSide, engine, att, watched, app, hostPending, writes, ops, ctls, probe, gone>>

\* discover_grant: the active grant of the directory shown that this Root asked for.
Lookup ==
    /\ job.at = "sent" /\ job.kind = "lookup"
    /\ \E found \in {"found", "none", "lost"} :
          /\ found = "found" => job.op \in Reachable(job.owner) \ {0}
          /\ job' = [job EXCEPT !.at = "done", !.result = found]
    /\ UNCHANGED <<hostSide, engine, att, watched, app, hostPending, writes, ops, ctls, probe, gone>>

\* Another client revokes a grant.
RevokedElsewhere ==
    /\ \E g \in Ops : grant[g] = "active" /\ grant' = [grant EXCEPT ![g] = "revoked"]
    /\ UNCHANGED <<root, launched, grantee, engine, att, watched, app, hostPending, job, writes, ops, ctls,
                   probe, gone>>

-----------------------------------------------------------------------------
\* The Root Agent Process
-----------------------------------------------------------------------------
Exit ==
    /\ root # 0
    /\ root' = 0 /\ ctl' = [ctl EXCEPT ![root] = <<>>]
    /\ UNCHANGED <<launched, grantee, grant, cwd, published, done, dirMoves, att, watched, app, hostPending, job,
                   writes, ops, ctls, probe, gone>>

Launch ==
    /\ root = 0 /\ launched < MaxPid
    /\ root' = launched + 1 /\ launched' = launched + 1
    /\ UNCHANGED <<grantee, grant, engine, att, watched, app, hostPending, job, writes, ops, ctls, probe, gone>>

\* Publishing an Action of the live Root; the terminal's tail sees it if it is the one watched.
Publish(id, ok, dir) ==
    published' = IF watched = root
                 THEN Append(published, [owner |-> root, id |-> id, ok |-> ok, dir |-> dir])
                 ELSE published

\* handle_directory_selection: a control that has its Action has no further effect; it
\* fails when the work is not settled or the directory is not there.
TakeControl ==
    /\ root # 0 /\ ctl[root] # <<>>
    /\ ctl' = [ctl EXCEPT ![root] = Tail(@)]
    /\ LET c == Head(ctl[root])
       IN  IF c.id \in done
           THEN UNCHANGED <<cwd, published, done>>
           ELSE \E ok \in BOOLEAN :
                   /\ ok => c.target \in Reachable(root)
                   /\ cwd' = IF ok THEN [cwd EXCEPT ![root] = c.target] ELSE cwd
                   /\ Publish(c.id, ok, c.target)
                   /\ done' = done \cup {c.id}
    /\ UNCHANGED <<hostSide, dirMoves, att, watched, app, hostPending, job, writes, ops, ctls, probe, gone>>

\* The Agent changes directory itself, by an ordinary cd.
AgentMoves ==
    /\ root # 0 /\ dirMoves < MaxMoves
    /\ dirMoves' = dirMoves + 1
    /\ \E dir \in Reachable(root) : cwd' = [cwd EXCEPT ![root] = dir] /\ Publish(0, TRUE, dir)
    /\ UNCHANGED <<hostSide, ctl, done, att, watched, app, hostPending, job, writes, ops, ctls, probe, gone>>

-----------------------------------------------------------------------------
\* Directory controls on their way
-----------------------------------------------------------------------------
Became(w, next) == writes' = (writes \ {w}) \cup {next}

\* write_cwd: the owner must be the current Root before the control is written ...
WriteChecks(w) ==
    /\ w.at = "check"
    /\ Became(w, [w EXCEPT !.at = IF root = w.owner THEN "write" ELSE "written"])
    /\ UNCHANGED <<hostSide, engine, att, watched, app, hostPending, job, ops, ctls, probe, gone>>

\* ... the write reaches the Process or does not; an error says neither ...
WriteControl(w) ==
    /\ w.at = "write"
    /\ \E reached \in BOOLEAN :
          /\ reached => root = w.owner
          /\ ctl' = IF reached THEN [ctl EXCEPT ![w.owner] = Append(@, [id |-> w.id, target |-> w.target])]
                    ELSE ctl
          /\ Became(w, [w EXCEPT !.at = "written"])
    /\ UNCHANGED <<hostSide, cwd, published, done, dirMoves, att, watched, app, hostPending, job, ops, ctls, probe, gone>>

\* ... and the owner is compared once more before the report is sent.
WriteReports(w) ==
    /\ w.at = "written"
    /\ Became(w, [w EXCEPT !.at = IF root = w.owner THEN "current" ELSE "superseded"])
    /\ UNCHANGED <<hostSide, engine, att, watched, app, hostPending, job, ops, ctls, probe, gone>>

-----------------------------------------------------------------------------
\* The terminal
-----------------------------------------------------------------------------
\* ProjectCwdWritten: the evidence of an owner that is gone is fenced.
CwdWritten(w) ==
    /\ w.at \in {"current", "superseded"}
    /\ writes' = writes \ {w}
    /\ pending' = IF w.at = "superseded" /\ pending.owner = w.owner /\ pending.id = w.id
                  THEN Fenced(pending) ELSE pending
    /\ CleanUp(cleanup, attempted, hostPending)
    /\ UNCHANGED <<hostSide, engine, att, watched, shown, uncertain, retained, ready, cleanup, project,
                   ops, ctls, probe, gone>>

\* project_revoked, when it is the retained grant that went.
Revoked(g) ==
    /\ pending' = NoControl /\ cleanup' = 0
    /\ project' = IF project = g THEN 0 ELSE project
    /\ retained' = 0 /\ ready' = 0

\* A selection the Host made: the grant is retained and its directory selected, by a
\* control to the Root that asked for it, unless that Root is not the attached one.
Mounted ==
    /\ uncertain' = NoOp
    /\ retained' = job.op
    /\ IF att = job.owner
       THEN Stage(job.owner, job.op, 0)
       ELSE /\ ctls < MaxCtls /\ ctls' = ctls + 1
            /\ pending' = [owner |-> job.owner, id |-> ctls + 1, target |-> job.op, revoke |-> 0, fenced |-> TRUE]
            /\ ready' = 0 /\ UNCHANGED writes
    /\ CleanUp(cleanup, attempted, FALSE)
    /\ UNCHANGED <<shown, cleanup, project>>

\* Mutated form of Unmounted: a reply that was lost is taken for a rejection.
MutUnmounted ==
    /\ uncertain' = NoOp
    /\ CleanUp(cleanup, attempted, FALSE)
    /\ UNCHANGED <<shown, pending, retained, ready, cleanup, project, writes, ctls>>

\* A selection the Host rejected is settled; one without a reply stays unknown.
Unmounted ==
    /\ uncertain' = IF job.result = "rejected" THEN NoOp ELSE uncertain
    /\ CleanUp(cleanup, attempted, FALSE)
    /\ UNCHANGED <<shown, pending, retained, ready, cleanup, project, writes, ctls>>

\* A revocation acknowledged, or not.
RevokeReply ==
    /\ \/ /\ job.result = "revoked" /\ cleanup = job.op
          /\ cleanup' = 0 /\ UNCHANGED <<pending, retained, ready, project>>
          /\ CleanUp(0, attempted, FALSE)
       \/ /\ job.result = "revoked" /\ cleanup # job.op /\ RetainedGrant = job.op
          /\ Revoked(job.op)
          /\ hostPending' = FALSE /\ attempted' = FALSE /\ job' = NoJob
       \/ /\ job.result = "revoked" => cleanup # job.op /\ RetainedGrant # job.op
          /\ UNCHANGED <<pending, retained, ready, cleanup, project>>
          /\ CleanUp(cleanup, attempted, FALSE)
    /\ UNCHANGED <<shown, uncertain, writes, ctls>>

\* ProjectHostCompleted: project_io::finish.
HostCompleted ==
    /\ job.at = "done"
    /\ \/ job.kind = "mount" /\ job.result = "mounted" /\ Mounted
       \/ job.kind = "mount" /\ job.result # "mounted" /\ Unmounted
       \/ job.kind = "revoke" /\ RevokeReply
    /\ UNCHANGED <<hostSide, engine, att, watched, ops, probe, gone>>

\* ProjectGrantLocated: finish_discovery; a context that changed sends nothing.
GrantLocated ==
    /\ job.at = "done" /\ job.kind = "lookup"
    /\ IF /\ job.result = "found" /\ att = job.owner /\ shown = job.op
          /\ uncertain = NoOp /\ pending = NoControl /\ RetainedGrant = 0 /\ ready = 0
       THEN Stage(att, 0, job.op)
       ELSE UNCHANGED <<pending, ready, writes, ctls>>
    /\ CleanUp(cleanup, attempted, FALSE)
    /\ UNCHANGED <<hostSide, engine, att, watched, shown, uncertain, retained, cleanup, project, ops, probe, gone>>

\* observe_project_action: the correlated Action of the pending control completed.
Selected(a) ==
    /\ shown' = a.dir
    /\ \/ /\ pending.revoke = 0
          /\ project' = IF retained # 0 THEN retained ELSE project
          /\ retained' = 0 /\ pending' = NoControl
          /\ CleanUp(cleanup, attempted, hostPending)
       \/ /\ pending.revoke # 0
          /\ pending' = Fenced(pending)
          /\ IF hostPending THEN UNCHANGED <<hostPending, job, attempted>>
             ELSE StartOp("revoke", pending.revoke, pending.owner) /\ UNCHANGED attempted
          /\ UNCHANGED <<project, retained>>
    /\ UNCHANGED <<cleanup>>

\* ... or it failed: the candidate was never entered and is cleaned up.
NotSelected ==
    /\ IF pending.revoke = 0 /\ retained # 0 /\ project # retained
       THEN /\ cleanup' = retained /\ retained' = 0 /\ pending' = NoControl
            /\ CleanUp(retained, FALSE, hostPending)
       ELSE /\ UNCHANGED <<cleanup, retained, pending>>
            /\ CleanUp(cleanup, attempted, hostPending)
    /\ UNCHANGED <<shown, project>>

\* ActionsChanged: the Action is read; without a pending control an ordinary cd is shown.
ActionRead ==
    /\ published # <<>>
    /\ published' = Tail(published)
    /\ LET a == Head(published)
           correlated == pending # NoControl /\ ~pending.fenced /\ pending.owner = a.owner /\ pending.id = a.id
       IN  IF correlated
           THEN IF a.ok THEN Selected(a) ELSE NotSelected
           ELSE /\ shown' = IF a.id = 0 /\ pending = NoControl THEN a.dir ELSE shown
                /\ CleanUp(cleanup, attempted, hostPending)
                /\ UNCHANGED <<pending, retained, cleanup, project>>
    /\ ready' = 0
    /\ UNCHANGED <<hostSide, cwd, ctl, done, dirMoves, att, watched, uncertain, writes, ops, ctls, probe, gone>>

\* The record of the selected grant is read once a second ...
ProbeGrant ==
    /\ probe.at = "none" /\ project # 0 /\ pending = NoControl /\ ~hostPending
    /\ probe' = [at |-> "read", grant |-> project, active |-> (grant[project] = "active")]
    /\ UNCHANGED <<hostSide, engine, att, watched, app, hostPending, job, writes, ops, ctls, gone>>

\* ... and one that is no longer active is dropped.
GrantObserved ==
    /\ probe.at = "read"
    /\ probe' = NoProbe
    /\ IF ~probe.active /\ ~hostPending /\ pending = NoControl /\ project = probe.grant
       THEN /\ Revoked(RetainedGrant)
            /\ attempted' = FALSE /\ UNCHANGED <<hostPending, job>>
       ELSE /\ UNCHANGED <<pending, cleanup, project, retained, ready>>
            /\ CleanUp(cleanup, attempted, hostPending)
    /\ UNCHANGED <<hostSide, engine, att, watched, shown, uncertain, writes, ops, ctls, gone>>

\* refresh_root_agent_attachment: the Root is gone ...
Detach ==
    /\ root = 0 /\ att # 0
    /\ att' = 0
    /\ CleanUp(cleanup, attempted, hostPending)
    /\ UNCHANGED <<hostSide, engine, watched, shown, uncertain, pending, retained, ready, cleanup, project,
                   writes, ops, ctls, probe, gone>>

\* ... or is another one: the pending control is fenced, the events that were queued are
\* discarded, whatever they report, and the Actions of the new Root are watched.
Reattach ==
    /\ root # 0 /\ att # root
    /\ att' = root /\ watched' = root /\ shown' = 0 /\ published' = <<>>
    /\ pending' = Fenced(pending)
    /\ writes' = {w \in writes : w.at \in {"check", "write", "written"}}
    /\ probe' = IF probe.at = "read" THEN [probe EXCEPT !.at = "lost"] ELSE probe
    /\ IF job.at = "done"
       THEN job' = NoJob /\ UNCHANGED <<hostPending, attempted>>
       ELSE CleanUp(cleanup, attempted, hostPending)
    /\ UNCHANGED <<hostSide, cwd, ctl, done, dirMoves, uncertain, retained, ready, cleanup, project, ops, ctls, gone>>

-----------------------------------------------------------------------------
User == Mount \/ RetryMount \/ RetryCleanup \/ Revoke \/ RevokeCurrent

Remote ==
    \/ ServeHost \/ NotServed \/ Lookup \/ TakeControl
    \/ \E w \in writes : WriteChecks(w) \/ WriteControl(w) \/ WriteReports(w)

Terminal ==
    \/ HostCompleted \/ GrantLocated \/ ActionRead \/ ProbeGrant \/ GrantObserved \/ Detach \/ Reattach
    \/ \E w \in writes : CwdWritten(w)

ProjectNext == User \/ Remote \/ Terminal \/ Exit \/ Launch \/ AgentMoves \/ RevokedElsewhere

\* The tasks and the terminal's loop are scheduled; the user, the Agent and the Root's
\* exit are not promised.
ProjectSpec == ProjectInit /\ [][ProjectNext]_projectVars /\ WF_projectVars(Remote) /\ WF_projectVars(Terminal) /\ WF_projectVars(Launch)

-----------------------------------------------------------------------------
\* What the terminal still answers for.
Known == {uncertain.op, retained, pending.revoke, ready, cleanup, project}

\* No authority is forgotten and none is added to one that is open: a grant this terminal
\* asked for and that the live Root still has is one the terminal can name and dispose
\* of, and there is at most one ("another project selection remains unavailable until the
\* outcome is resolved", alan-interaction-model), however replies are lost, controls fail
\* and Roots are replaced (project_io::start and finish, observe_project_action,
\* project_revoked).
AuthorityIsKept ==
    LET live == {g \in Ops : grant[g] = "active" /\ root # 0 /\ grantee[g] = root}
    IN  live \subseteq Known /\ Cardinality(live) <= 1

\* A grant is revoked after the Process has left its cwd (ProjectControl::Revoke), as
\* long as the Agent does not go back itself.
RevokedAfterLeaving == gone = {}

\* A Host operation ends for the terminal, which takes tasks and selections again
\* (project_io::finish).
OperationsEnd == hostPending ~> ~hostPending

-----------------------------------------------------------------------------
(***************************************************************************)
(* The endpoint of an alan instance in its runtime directory               *)
(* (os-host/src/local.rs, alan/src/foreground.rs, alan/src/main.rs) and    *)
(* the local entry service behind it (service-manager/src/local_entry.rs). *)
(* Several invocations may select the same directory: a lock file decides  *)
(* which of them owns the socket and the status file.  An invocation may   *)
(* die at any step; the operating system then drops its lock and closes    *)
(* its listener, and the files stay.                                       *)
(*                                                                         *)
(* Every boot has an identity of its own, which also stands for the native *)
(* process id in the status file: reuse of process ids is left out.        *)
(***************************************************************************)

CONSTANTS Hosts, Clients, MaxBoots, MaxEntries, None

VARIABLES host,     \* [Hosts -> the invocation: its step, its boot, was it told to stop?]
          lock,     \* who holds host.lock
          sock,     \* the boot whose listener is bound at the socket path
          status,   \* host.json
          client,   \* [Clients -> a local client: step, operation, boot reached, status read]
          conn,     \* [Clients -> the task that serves its connection]
          entries,  \* the entries of the local entry service
          exits,    \* [entry -> how often its Shell Process was recorded as exited]
          boots

endpointVars == <<host, lock, sock, status, client, conn, entries, exits, boots>>

Boots == 1..MaxBoots
Ids == 1..MaxEntries
NoConn == [pc |-> "none", boot |-> 0, entry |-> 0]
NoClient == [pc |-> "off", op |-> "attach", reached |-> 0, read |-> None]
Down == [pc |-> "down", boot |-> 0, term |-> FALSE]

EndpointInit == /\ host = [h \in Hosts |-> Down]
                /\ lock = None /\ sock = 0 /\ status = None
                /\ client = [c \in Clients |-> NoClient] /\ conn = [c \in Clients |-> NoConn]
                /\ entries = {} /\ exits = [e \in Ids |-> 0] /\ boots = 0

\* The invocation of a boot, while its process lives.
Of(b) == {h \in Hosts : host[h].boot = b /\ b # 0}
Accepting(b) == \E h \in Of(b) : host[h].pc = "serving"

-----------------------------------------------------------------------------
(* AlanOsHost::boot                                                        *)

Step(h, from, to) == host[h].pc = from /\ host' = [host EXCEPT ![h].pc = to]

\* SingletonLock::acquire does not wait.
Acquire(h) == /\ boots < MaxBoots /\ lock = None
              /\ Step(h, "down", "locked") /\ lock' = h
              /\ UNCHANGED <<sock, status, client, conn, entries, exits, boots>>

CleanSocket(h) == /\ Step(h, "locked", "unsocketed") /\ sock' = 0
                  /\ UNCHANGED <<lock, status, client, conn, entries, exits, boots>>

CleanStatus(h) == /\ Step(h, "unsocketed", "clean") /\ status' = None
                  /\ UNCHANGED <<lock, sock, client, conn, entries, exits, boots>>

\* ServiceManager::boot gives the boot its identity; then the socket is bound.
\* bind fails when the path exists.
Bind(h) == /\ host[h].pc = "clean" /\ sock = 0 /\ boots < MaxBoots
           /\ boots' = boots + 1 /\ sock' = boots'
           /\ host' = [host EXCEPT ![h].pc = "bound", ![h].boot = boots']
           /\ UNCHANGED <<lock, status, client, conn, entries, exits>>

\* write_status: a temporary file and a rename.
Ready(h) == /\ Step(h, "bound", "serving")
            /\ status' = [boot |-> host[h].boot, ready |-> TRUE]
            /\ UNCHANGED <<lock, sock, client, conn, entries, exits, boots>>

-----------------------------------------------------------------------------
(* AlanOsHost::serve_until                                                 *)

\* The renderer ended, or the process was asked to terminate.
Stopping(h) == /\ Step(h, "serving", "stopping")
               /\ status' = [boot |-> host[h].boot, ready |-> FALSE]
               /\ UNCHANGED <<lock, sock, client, conn, entries, exits, boots>>

\* abort_all and ServiceManager::shutdown: the tasks and every Process end.
Shutdown(h) == /\ Step(h, "stopping", "ended")
               /\ conn' = [c \in Clients |-> IF conn[c].boot = host[h].boot THEN NoConn
                                             ELSE conn[c]]
               /\ entries' = {e \in entries : e.boot # host[h].boot}
               /\ UNCHANGED <<lock, sock, status, client, exits, boots>>

MutUnbind(h) == /\ Step(h, "ended", "unbound") /\ sock' = 0
                /\ lock' = None
                /\ UNCHANGED <<status, client, conn, entries, exits, boots>>
Unbind(h) == /\ Step(h, "ended", "unbound") /\ sock' = 0
             /\ UNCHANGED <<lock, status, client, conn, entries, exits, boots>>

Forget(h) == /\ Step(h, "unbound", "forgotten") /\ status' = None
             /\ UNCHANGED <<lock, sock, client, conn, entries, exits, boots>>

Release(h) == /\ host[h].pc = "forgotten" /\ host' = [host EXCEPT ![h] = Down]
              /\ lock' = IF lock = h THEN None ELSE lock
              /\ UNCHANGED <<sock, status, client, conn, entries, exits, boots>>

\* The process is killed, boot fails, or accept or the peer check returns an
\* error: serve_until returns without tidying up.
Die(h) == /\ host[h].pc # "down"
          /\ host' = [host EXCEPT ![h] = Down]
          /\ lock' = IF lock = h THEN None ELSE lock
          /\ conn' = [c \in Clients |-> IF conn[c].boot = host[h].boot THEN NoConn
                                        ELSE conn[c]]
          /\ entries' = {e \in entries : e.boot # host[h].boot}
          /\ UNCHANGED <<sock, status, client, exits, boots>>

-----------------------------------------------------------------------------
(* Connections: one task for each                                          *)

\* The request: attach starts a Shell Process, a client attachment does not.
ServeEntry(c) == LET b == conn[c].boot
                 IN /\ conn[c].pc = "queued" /\ Accepting(b)
                    /\ conn' = [conn EXCEPT ![c].pc = IF client[c].op = "client" THEN "serving"
                                                      ELSE "reserve"]
                    /\ UNCHANGED <<host, lock, sock, status, client, entries, exits, boots>>

Used == {e.id : e \in entries} \cup {e \in Ids : exits[e] > 0}
                               \cup {conn[c].entry : c \in Clients}

\* allocate_entry: the name under the lock, the Process outside it, the entry
\* under the lock again.
Reserve(c) == /\ conn[c].pc = "reserve" /\ \E e \in Ids : e \notin Used
              /\ conn' = [conn EXCEPT ![c].pc = "insert",
                                      ![c].entry = CHOOSE e \in Ids : e \notin Used]
              /\ UNCHANGED <<host, lock, sock, status, client, entries, exits, boots>>

Insert(c) == /\ conn[c].pc = "insert"
             /\ entries' = entries \cup {[id |-> conn[c].entry, boot |-> conn[c].boot,
                                          drained |-> FALSE]}
             /\ conn' = [conn EXCEPT ![c].pc = "serving"]
             /\ UNCHANGED <<host, lock, sock, status, client, exits, boots>>

MutDrained(e) == {x \in entries : x.id = e}
\* drain: at most one caller finds the entry ready.
Drained(e) == {x \in entries : x.id = e /\ ~x.drained}
Drain(e) == /\ entries' = (entries \ Drained(e)) \cup {[x EXCEPT !.drained = TRUE] : x \in Drained(e)}
            /\ exits' = IF Drained(e) = {} THEN exits ELSE [exits EXCEPT ![e] = @ + 1]

\* serve_namespace_attachment after the client is gone: clunk_all, then drain.
Gone(c) == /\ conn[c].pc = "serving" /\ client[c].reached # conn[c].boot
           /\ IF conn[c].entry = 0 THEN UNCHANGED <<entries, exits>> ELSE Drain(conn[c].entry)
           /\ conn' = [conn EXCEPT ![c] = NoConn]
           /\ UNCHANGED <<host, lock, sock, status, client, boots>>

\* A client writes drain to the ctl file of an entry it sees.
Ctl(c, e) == /\ client[c].pc = "attached" /\ conn[c].pc = "serving"
             /\ \E x \in entries : x.id = e /\ x.boot = conn[c].boot
             /\ Drain(e)
             /\ UNCHANGED <<host, lock, sock, status, client, conn, boots>>

-----------------------------------------------------------------------------
(* LocalAttachment::connect_with_request and request_host_stop             *)

\* request_host_stop reads the status before it attaches as well.
StartHost(c, op) == /\ client[c].pc = "off" /\ conn[c].pc = "none"
                    /\ op = "stop" => status # None
                    /\ client' = [client EXCEPT ![c] = [pc |-> "connect", op |-> op, reached |-> 0,
                                                        read |-> IF op = "stop" THEN status ELSE None]]
                    /\ UNCHANGED <<host, lock, sock, status, conn, entries, exits, boots>>

\* The kernel queues a connection as long as the listener is open.
Connect(c) == /\ client[c].pc = "connect" /\ Of(sock) # {}
              /\ client' = [client EXCEPT ![c].pc = "status", ![c].reached = sock]
              /\ conn' = [conn EXCEPT ![c] = [NoConn EXCEPT !.pc = "accepted", !.boot = sock]]
              /\ UNCHANGED <<host, lock, sock, status, entries, exits, boots>>

ReadStatus(c) == /\ client[c].pc = "status"
                 /\ status # None /\ status.ready
                 /\ client[c].op = "stop" => status.boot = client[c].read.boot
                 /\ client' = [client EXCEPT ![c].pc = "verify", ![c].read = status]
                 /\ conn' = [conn EXCEPT ![c].pc = IF @ = "accepted" THEN "queued" ELSE @]
                 /\ UNCHANGED <<host, lock, sock, status, entries, exits, boots>>

\* The boot identity that the namespace shows.
Verified(c) == conn[c].boot = client[c].read.boot

Verify(c) == /\ client[c].pc = "verify" /\ conn[c].pc = "serving" /\ Accepting(conn[c].boot)
             /\ Verified(c)
             /\ client' = [client EXCEPT ![c].pc = "attached"]
             /\ UNCHANGED <<host, lock, sock, status, conn, entries, exits, boots>>

\* SIGTERM to the process the status names.
Kill(c) == LET b == client[c].read.boot
           IN /\ client[c].pc = "attached" /\ client[c].op = "stop"
              /\ host' = [h \in Hosts |-> IF h \in Of(b) THEN [host[h] EXCEPT !.term = TRUE]
                                          ELSE host[h]]
              /\ client' = [client EXCEPT ![c].pc = "waiting", ![c].reached = 0]
              /\ UNCHANGED <<lock, sock, status, conn, entries, exits, boots>>

\* wait_for_host_stop: the status file, then the socket; it gives up in the end.
Stopped(c) == /\ client[c].pc = "waiting" /\ status = None /\ sock = 0
              /\ client' = [client EXCEPT ![c].pc = "stopped"]
              /\ UNCHANGED <<host, lock, sock, status, conn, entries, exits, boots>>

\* The client is done, was refused, or its two seconds are over.
Leave(c) == /\ client[c].pc # "off"
            /\ client' = [client EXCEPT ![c] = NoClient]
            /\ conn' = [conn EXCEPT ![c] = IF @.pc \in {"accepted", "queued"} THEN NoConn ELSE @]
            /\ UNCHANGED <<host, lock, sock, status, entries, exits, boots>>

-----------------------------------------------------------------------------

Invocation(h) == \/ Acquire(h) \/ CleanSocket(h) \/ CleanStatus(h) \/ Bind(h) \/ Ready(h)
                 \/ Stopping(h) \/ Shutdown(h) \/ Unbind(h) \/ Forget(h) \/ Release(h)
                 \/ Die(h)

Task(c) == ServeEntry(c) \/ Reserve(c) \/ Insert(c) \/ Gone(c)

EndpointNext == \/ \E h \in Hosts : Invocation(h)
                \/ \E c \in Clients : \/ Task(c)
                                      \/ \E op \in {"attach", "client", "stop"} : StartHost(c, op)
                                      \/ \E e \in Ids : Ctl(c, e)
                                      \/ Connect(c) \/ ReadStatus(c) \/ Verify(c) \/ Kill(c)
                                      \/ Stopped(c) \/ Leave(c)

EndpointFairness == /\ \A c \in Clients : WF_endpointVars(Task(c))
                    /\ \A h \in Hosts : WF_endpointVars(host[h].term /\ Stopping(h)) /\ WF_endpointVars(Shutdown(h))

EndpointSpec == EndpointInit /\ [][EndpointNext]_endpointVars /\ EndpointFairness

-----------------------------------------------------------------------------

\* The runtime directory belongs to one invocation at a time: while one is
\* ready, its socket and its status are what a client finds there, an invocation
\* that is shutting down or starting beside it removes neither, a client is
\* attached to the boot whose status it read, and a stop is reported only when
\* the invocation it was meant for has closed its endpoint; no Shell Process of
\* the entry service is recorded as exited twice (SingletonLock, boot,
\* serve_until, connect_with_request, wait_for_host_stop, LocalEntryService::drain).
EndpointIsOwned ==
    /\ \A h \in Hosts : host[h].pc = "serving" =>
          lock = h /\ sock = host[h].boot /\ status = [boot |-> host[h].boot, ready |-> TRUE]
    /\ \A c \in Clients :
          /\ client[c].pc = "attached" /\ conn[c].pc # "none" =>
               conn[c].boot = client[c].read.boot
          /\ client[c].pc = "stopped" =>
               \A h \in Of(client[c].read.boot) : host[h].pc \in {"forgotten", "down"}
    /\ \A e \in Ids : exits[e] <= 1

\* The Shell Process of an attachment ends once its client has left: its exit is
\* recorded, or the whole instance goes down (serve_namespace_attachment).
ShellsEnd == \A c \in Clients :
    (client[c].pc = "off" /\ conn[c].entry # 0) ~> (conn[c].entry = 0)
=============================================================================
