---------------------------- MODULE HostMounts ------------------------------
(***************************************************************************)
(* Directories of the host in the namespace of an Agent: the grants a user *)
(* decides on, and where the Tools of a Process run.                       *)
(***************************************************************************)
EXTENDS Naturals, FiniteSets, SequencesExt, Sequences

-----------------------------------------------------------------------------
(***************************************************************************)
(* The Host Mount Service (crates/service-manager/src/host_mount.rs and    *)
(* host_mount/): requests of Agent Processes for a directory of the host,  *)
(* the decision on each, the grants and their projections into live        *)
(* namespaces, and what a child is delegated.  One lock guards the state,  *)
(* but an approval takes it four times.  The native half of an approval is *)
(* in crates/os-host/src/host_mounts.rs; the machine that waits for the    *)
(* decision, or abandons it, in agent-engine's mount_request_tool.rs,      *)
(* turn_support.rs and namespace_environment/host_mount_requests.rs.       *)
(***************************************************************************)

CONSTANTS Requests,      \* request ids; a grant has the id of its request
          Root, Child,   \* an Agent Process and a child it may spawn
          Paths          \* namespace paths below /mnt, as sequences of names

Pids == {Root, Child}
Access == {"ro", "rw"}
Nothing == [grant |-> "none", access |-> "ro"]

VARIABLES
    request,   \* id -> what was asked, by whom, and what became of it
    deciding,  \* id -> where the approval of it is
    grant,     \* id -> "none" | "active" | "revoked"
    projected, \* id -> the projections of its grant
    life,      \* pid -> "none" | "cloned" | "registered" | "gone"
    ns,        \* pid -> path -> the grant and access mounted there
    wait,      \* id -> the wait of the machine that asked, or the result it recorded
    told,      \* history: id -> the terminal statuses announced for it
    orphan     \* history: the child was registered after its parent had gone

mountVars == <<request, deciding, grant, projected, life, ns, wait, told, orphan>>

\* The Processes the service knows.
Registered == {p \in Pids : life[p] = "registered"}

Unasked == [status |-> "none", pid |-> Root, path |-> <<>>, access |-> "ro"]
Empty == [q \in Paths |-> Nothing]

MountInit ==
    /\ request = [r \in Requests |-> Unasked]
    /\ deciding = [r \in Requests |-> "no"]
    /\ grant = [r \in Requests |-> "none"]
    /\ projected = [r \in Requests |-> {}]
    /\ life = [p \in Pids |-> IF p = Root THEN "registered" ELSE "none"]
    /\ ns = [p \in Pids |-> Empty]
    /\ wait = [r \in Requests |-> "none"]
    /\ told = [r \in Requests |-> {}]
    /\ orphan = FALSE

-----------------------------------------------------------------------------
\* validate_mount_namespace_path admits the paths; overlap is strict.
StrictlyOverlap(a, b) == IsStrictPrefix(a, b) \/ IsStrictPrefix(b, a)

\* An access no stronger than another.
Narrower(a, b) == a = "ro" \/ b = "rw"

\* A terminal status and its event.
Settle(r, status) ==
    /\ request' = [request EXCEPT ![r].status = status]
    /\ told' = [told EXCEPT ![r] = @ \cup {status}]

\* enqueue: the id is new to the requests and to the grants.
Enqueue(r, p, path, access) ==
    /\ request[r].status = "none" /\ grant[r] = "none"
    /\ request' = [request EXCEPT ![r] = [status |-> "pending", pid |-> p, path |-> path, access |-> access]]
    /\ UNCHANGED <<deciding, grant, projected, life, ns, told, orphan>>

\* request_mount: the machine clunks the clone file and waits for the result.
RequestMount(r, p, path, access) ==
    /\ Enqueue(r, p, path, access)
    /\ wait' = [wait EXCEPT ![r] = "waiting"]

\* request_project_mount: the host asks for the Root Agent, and nobody waits.
RequestProject(r, path, access) ==
    /\ Root \in Registered
    /\ Enqueue(r, Root, path, access)
    /\ UNCHANGED wait

Settled(r) == request[r].status \notin {"none", "pending"}

Claimable(r) == request[r].status = "pending" /\ deciding[r] = "no"

\* Mutant: the claim of another decision is not looked at.
MutSetTerminal(r, status) ==
    /\ request[r].status = "pending"
    /\ Settle(r, status)
    /\ UNCHANGED <<deciding, grant, projected, life, ns, wait, orphan>>

\* set_terminal_request: rejected by the host, or failed by the native adapter.
SetTerminal(r, status) ==
    /\ Claimable(r)
    /\ Settle(r, status)
    /\ UNCHANGED <<deciding, grant, projected, life, ns, wait, orphan>>

\* approve_export claims the request ...
Claim(r) ==
    /\ Claimable(r)
    /\ deciding' = [deciding EXCEPT ![r] = "claimed"]
    /\ UNCHANGED <<request, grant, projected, life, ns, wait, told, orphan>>

\* ... inserts the grant ...
InsertGrant(r) ==
    /\ deciding[r] = "claimed"
    /\ deciding' = [deciding EXCEPT ![r] = "inserted"]
    /\ grant' = [grant EXCEPT ![r] = "active"]
    /\ UNCHANGED <<request, projected, life, ns, wait, told, orphan>>

\* ... projects it into the namespace of its owner ...
Projectable(r) ==
    LET p == request[r].pid IN
    /\ p \in Registered /\ grant[r] = "active"
    /\ ~\E g \in Requests \ {r} :
          /\ grant[g] = "active"
          /\ \E v \in projected[g] : v.pid = p /\ StrictlyOverlap(request[r].path, v.path)


\* A projection of another grant at the same place is dropped.
Replaced(r) ==
    [g \in Requests |-> IF g = r THEN projected[g]
                        ELSE {v \in projected[g] : v.pid # request[r].pid \/ v.path # request[r].path}]

Project(r) ==
    LET p == request[r].pid
        path == request[r].path
        access == request[r].access
    IN
    /\ deciding[r] = "inserted" /\ Projectable(r)
    /\ ns' = [ns EXCEPT ![p][path] = [grant |-> r, access |-> access]]
    /\ projected' = [Replaced(r) EXCEPT ![r] = @ \cup {[pid |-> p, path |-> path, access |-> access]}]
    /\ deciding' = [deciding EXCEPT ![r] = "projected"]
    /\ UNCHANGED <<request, grant, life, wait, told, orphan>>

\* ... or, that failing, takes it back ...
ProjectFails(r) ==
    /\ deciding[r] = "inserted" /\ ~Projectable(r)
    /\ grant' = [grant EXCEPT ![r] = "none"]
    /\ projected' = [projected EXCEPT ![r] = {}]
    /\ Settle(r, "failed")
    /\ deciding' = [deciding EXCEPT ![r] = "done"]
    /\ UNCHANGED <<life, ns, wait, orphan>>

\* ... and settles the request.
Approve(r) ==
    /\ deciding[r] = "projected"
    /\ Settle(r, "approved")
    /\ deciding' = [deciding EXCEPT ![r] = "done"]
    /\ UNCHANGED <<grant, projected, life, ns, wait, orphan>>

\* revoke: the export is invalidated and unmounted wherever it is projected; the
\* projections are kept with the revoked grant.
RevokeGrant(r) ==
    /\ grant[r] = "active"
    /\ grant' = [grant EXCEPT ![r] = "revoked"]
    /\ ns' = [p \in Pids |-> [q \in Paths |->
                IF \E v \in projected[r] : v.pid = p /\ v.path = q THEN Nothing ELSE ns[p][q]]]
    /\ UNCHANGED <<request, deciding, projected, life, wait, told, orphan>>

\* approve_host_mount: the native export of the directory is made, or not.
ApproveNative(r) == Claim(r) \/ SetTerminal(r, "failed")

-----------------------------------------------------------------------------
\* A child is cloned with some of the mounts of its parent ...
CloneChild(kept) ==
    /\ Root \in Registered /\ life[Child] = "none"
    /\ life' = [life EXCEPT ![Child] = "cloned"]
    /\ ns' = [ns EXCEPT ![Child] = [q \in Paths |-> IF q \in kept THEN ns[Root][q] ELSE Nothing]]
    /\ UNCHANGED <<request, deciding, grant, projected, wait, told, orphan>>

\* ensure_no_ambient_child_projections
NoAmbient == \A g \in Requests : \A v \in projected[g] : v.pid = Root => ns[Child][v.path] = Nothing

\* resolve_child_delegations: of an active grant the parent holds, no wider than
\* the parent's projection or the grant.
Delegable(r, access) ==
    /\ grant[r] = "active"
    /\ Narrower(access, request[r].access)
    /\ \E v \in projected[r] : v.pid = Root /\ Narrower(access, v.access)

\* register_child_process: with a delegated mount, or none.
RegisterChild ==
    /\ life[Child] = "cloned" /\ NoAmbient
    /\ \/ UNCHANGED <<ns, projected>>
       \/ \E r \in Requests, path \in Paths, access \in Access :
             /\ Delegable(r, access)
             /\ ns' = [ns EXCEPT ![Child][path] = [grant |-> r, access |-> access]]
             /\ projected' = [projected EXCEPT ![r] = @ \cup {[pid |-> Child, path |-> path, access |-> access]}]
    /\ life' = [life EXCEPT ![Child] = "registered"]
    /\ orphan' = (Root \notin Registered)
    /\ UNCHANGED <<request, deciding, grant, wait, told>>

\* unregister_process, once the Process has exited.
Unregister(p) ==
    /\ p \in Registered
    /\ life' = [life EXCEPT ![p] = "gone"]
    /\ projected' = [g \in Requests |-> {v \in projected[g] : v.pid # p}]
    /\ UNCHANGED <<request, deciding, grant, ns, wait, told, orphan>>

-----------------------------------------------------------------------------
\* The machine resumes on a terminal status and records it.
Resume(r) ==
    /\ wait[r] \in {"waiting", "settling"} /\ Settled(r)
    /\ wait' = [wait EXCEPT ![r] = request[r].status]
    /\ UNCHANGED <<request, deciding, grant, projected, life, ns, told, orphan>>

\* Mutant: a cancellation that is refused is recorded all the same.
MutAbandon(r) ==
    /\ wait[r] = "waiting"
    /\ IF Claimable(r) THEN Settle(r, "cancelled") ELSE UNCHANGED <<request, told>>
    /\ wait' = [wait EXCEPT ![r] = "cancelled"]
    /\ UNCHANGED <<deciding, grant, projected, life, ns, orphan>>

\* A new turn or a cancellation gives the wait up: `cancelled` is written to the
\* status file, which a request that is being decided refuses ...
Abandon(r) ==
    /\ wait[r] = "waiting"
    /\ IF Claimable(r) THEN Settle(r, "cancelled") ELSE UNCHANGED <<request, told>>
    /\ wait' = [wait EXCEPT ![r] = "settling"]
    /\ UNCHANGED <<deciding, grant, projected, life, ns, orphan>>

\* ... and the wait is kept when no decision comes within 30 s.
SettleTimeout(r) ==
    /\ wait[r] = "settling" /\ ~Settled(r)
    /\ wait' = [wait EXCEPT ![r] = "waiting"]
    /\ UNCHANGED <<request, deciding, grant, projected, life, ns, told, orphan>>

-----------------------------------------------------------------------------
\* reconcile: the authority of the native tools of a Process.
ToolProjections(p) ==
    {[path |-> v.path, grant |-> g, access |-> v.access] :
        <<g, v>> \in {<<g, v>> \in Requests \X UNION {projected[g] : g \in Requests} :
                        grant[g] = "active" /\ v \in projected[g] /\ v.pid = p}}

MountNext ==
    \/ \E r \in Requests :
          \/ ApproveNative(r) \/ InsertGrant(r) \/ Project(r) \/ ProjectFails(r) \/ Approve(r) \/ RevokeGrant(r)
          \/ Resume(r) \/ Abandon(r) \/ SettleTimeout(r)
          \/ SetTerminal(r, "rejected")
          \/ \E path \in Paths, access \in Access :
                \/ \E p \in Registered : RequestMount(r, p, path, access)
                \/ RequestProject(r, path, access)
    \/ \E kept \in SUBSET Paths : CloneChild(kept)
    \/ RegisterChild
    \/ \E p \in Pids : Unregister(p)

MountSpec == MountInit /\ [][MountNext]_mountVars

-----------------------------------------------------------------------------
\* What the namespace of a registered Process mounts from the host is exactly the
\* authority its native tools get, and nothing of it comes from a grant that was
\* revoked: a revocation reaches every projection, whatever replaced or delegated
\* what in between (project, revoke, register_child_process, reconcile).  A child
\* registered after its parent was forgotten is not told apart from one without
\* ambient mounts.
ToolsSeeTheNamespace ==
    \A p \in Registered :
        (p = Child /\ orphan) \/
        ToolProjections(p) =
            {[path |-> q, grant |-> ns[p][q].grant, access |-> ns[p][q].access] :
                q \in {q \in Paths : ns[p][q] # Nothing}}

\* A request is decided once, whatever approvals, rejections and cancellations
\* race for it, and the machine that asked records that very decision: it never
\* gives up its wait while the request can still be approved
\* (claim_pending_request, set_terminal_request, NamespaceHostMountRequests::cancel).
DecidedOnce ==
    \A r \in Requests :
        /\ told[r] = IF Settled(r) THEN {request[r].status} ELSE {}
        /\ wait[r] \notin {"none", "waiting", "settling"} => wait[r] = request[r].status

-----------------------------------------------------------------------------
(***************************************************************************)
(* A Tool as a Process: the engine snapshots its namespace, launches the   *)
(* Tool through /proc/clone, retries a launch that the kernel finds stale, *)
(* and waits for the exit, its cancellation or a timeout.  The runner of   *)
(* the Tool takes the execution binding of the parent Process, reconciles  *)
(* it with the live Host Mount grants and puts it back; so does a change   *)
(* of directory, and so do two runners, each without a lock held across    *)
(* the steps.  A Tool that only reads leaves a receipt with the authority  *)
(* it ran under.                                                           *)
(***************************************************************************)

CONSTANTS
    Dirs,         \* directories, each the root of a mount
    MaxAttempts,  \* MAX_NAMESPACE_SPAWN_ATTEMPTS
    MaxTools,     \* bound on Tool Processes
    MaxGrants,    \* bound on grants issued
    MaxCds,       \* bound on directory changes
    None

VARIABLES
    grants,      \* the active grants of the parent: [id, dir]
    issued,      \* grants issued so far
    generation,  \* of the parent's namespace and of the Host Mount Service
    registered,  \* its execution binding: [cwd, grant, mounts]
    cd,          \* a change of directory in progress
    cds,
    tools,       \* the Tool Processes, by pid
    call,        \* the engine's call
    selected,    \* the directory the last successful change chose
    overwritten  \* an older binding was put over a newer one

toolVars == <<grants, issued, generation, registered, cd, cds, tools, call, selected, overwritten>>

Idle == [at |-> "idle"]

ToolInit ==
    \E dir \in Dirs :
        /\ grants = {[id |-> 1, dir |-> dir]}
        /\ issued = 1
        /\ generation = 1
        /\ registered = [cwd |-> dir, grant |-> 1, mounts |-> {[id |-> 1, dir |-> dir]}]
        /\ cd = Idle
        /\ cds = 0
        /\ tools = <<>>
        /\ call = Idle
        /\ selected = dir
        /\ overwritten = FALSE

\* Host Mount authority -------------------------------------------------------------------

\* A new grant replaces the one at its path.
Grant(dir) ==
    /\ issued < MaxGrants
    /\ issued' = issued + 1
    /\ grants' = {g \in grants : g.dir /= dir} \cup {[id |-> issued + 1, dir |-> dir]}
    /\ generation' = generation + 1
    /\ UNCHANGED <<registered, cd, cds, tools, call, selected, overwritten>>

Revoke(g) ==
    /\ g \in grants
    /\ grants' = grants \ {g}
    /\ generation' = generation + 1
    /\ UNCHANGED <<issued, registered, cd, cds, tools, call, selected, overwritten>>

GrantOf(dir) == IF \E g \in grants : g.dir = dir
                THEN (CHOOSE g \in grants : g.dir = dir).id ELSE None

\* A binding reconciles when its cwd lies in a live mount (or there is none left at all)
\* and the grant it was pinned to is still the one there.
MutReconciles(b) == grants /= {} => GrantOf(b.cwd) /= None

Reconciles(b) ==
    /\ grants /= {} => GrantOf(b.cwd) /= None
    /\ b.grant = None \/ b.grant = GrantOf(b.cwd)

reconcile(b) == [cwd |-> b.cwd, grant |-> GrantOf(b.cwd), mounts |-> grants]

\* The identity of the authority a read-only Tool is shown under; the generation of the
\* service tells equal sets of grants at different times apart.
MutScope == IF registered.mounts = {} \/ grants = {} THEN None
            ELSE [cwd |-> registered.cwd, generation |-> 0, mounts |-> grants]

process_presentation_scope ==
    IF registered.mounts = {} \/ grants = {} THEN None
    ELSE [cwd |-> registered.cwd, generation |-> generation, mounts |-> grants]

\* change_process_directory ----------------------------------------------------------------

\* An absolute path may choose a replacement grant, so it drops the pinned one; a
\* relative path keeps both.  The engine changes directory between its calls.
BeginCd(path) ==
    /\ call = Idle
    /\ cd = Idle
    /\ cds < MaxCds
    /\ cds' = cds + 1
    /\ cd' = [at |-> "resolve",
              b |-> IF path = None THEN registered
                    ELSE [registered EXCEPT !.cwd = path, !.grant = None]]
    /\ UNCHANGED <<grants, issued, generation, registered, tools, call, selected, overwritten>>

\* The first reconciliation supplies the adapter the directory is resolved with; the
\* directory itself may not exist.
ResolveCd ==
    /\ cd.at = "resolve"
    /\ \/ /\ Reconciles(cd.b) /\ grants /= {}
          /\ cd' = [cd EXCEPT !.at = "check", !.b = reconcile(@)]
       \/ cd' = Idle
    /\ UNCHANGED <<grants, issued, generation, registered, cds, tools, call, selected, overwritten>>

CheckCd ==
    /\ cd.at = "check"
    /\ cd' = IF Reconciles(cd.b) THEN [cd EXCEPT !.at = "register", !.b = reconcile(@)] ELSE Idle
    /\ UNCHANGED <<grants, issued, generation, registered, cds, tools, call, selected, overwritten>>

RegisterCd ==
    /\ cd.at = "register"
    /\ registered' = cd.b
    /\ selected' = cd.b.cwd
    /\ cd' = Idle
    /\ UNCHANGED <<grants, issued, generation, cds, tools, call, overwritten>>

\* run_action_with_cancel_and_timeout -------------------------------------------------------

Starts ==
    /\ call = Idle
    /\ cd = Idle
    /\ Len(tools) < MaxTools
    /\ call' = [at |-> "snapshot", attempt |-> 1, before |-> process_presentation_scope]
    /\ UNCHANGED <<grants, issued, generation, registered, cd, cds, tools, selected, overwritten>>

\* read_process_namespace: stat, read, stat; a change in between is read again, at most
\* MaxAttempts times.
read_process_namespace ==
    /\ call.at = "snapshot"
    /\ \/ call' = [at |-> "launch", attempt |-> call.attempt, before |-> call.before,
                   generation |-> generation]
       \/ generation > 1 /\ call' = Idle
    /\ UNCHANGED <<grants, issued, generation, registered, cd, cds, tools, selected, overwritten>>

NewTool == [at |-> "start", b |-> None, seen |-> None, scope |-> None, receipt |-> None,
            granted |-> {}]

\* /proc/clone accepts a manifest of the current generation.  A stale one is refused and
\* tried again, the last refusal is the error of the call.
spawn_process ==
    /\ call.at = "launch"
    /\ \/ /\ call.generation = generation
          /\ tools' = Append(tools, NewTool)
          /\ call' = [at |-> "wait", before |-> call.before, pid |-> Len(tools) + 1]
       \/ /\ call.generation /= generation
          /\ call' = IF call.attempt = MaxAttempts THEN Idle
                     ELSE [at |-> "snapshot", attempt |-> call.attempt + 1, before |-> call.before]
          /\ UNCHANGED tools
    /\ UNCHANGED <<grants, issued, generation, registered, cd, cds, selected, overwritten>>

\* Cancellation and the timeout both write "cancel" to the Process and give up on it.  A
\* runner is stopped at its next await: while it prepares the Tool there is none.
GiveUp ==
    /\ call.at = "wait"
    /\ tools' = [tools EXCEPT ![call.pid].at = IF @ \in {"start", "scope", "run"} THEN "exited" ELSE @]
    /\ call' = Idle
    /\ UNCHANGED <<grants, issued, generation, registered, cd, cds, selected, overwritten>>

\* The result of an exited Tool.  Its receipt counts when the authority is the one the
\* call began with, the one it ran under and the one there is now.
ReadOnly(t) ==
    IF t.receipt = call.before /\ process_presentation_scope = call.before THEN t.receipt ELSE None

read_process_result ==
    /\ call.at = "wait"
    /\ tools[call.pid].at = "exited"
    /\ call' = [at |-> "done", context |-> ReadOnly(tools[call.pid]), pid |-> call.pid]
    /\ UNCHANGED <<grants, issued, generation, registered, cd, cds, tools, selected, overwritten>>

Returns ==
    /\ call.at = "done"
    /\ call' = Idle
    /\ UNCHANGED <<grants, issued, generation, registered, cd, cds, tools, selected, overwritten>>

\* run_with_namespace --------------------------------------------------------------------

TakeBinding(p) ==
    /\ tools[p].at = "start"
    /\ tools' = [tools EXCEPT ![p].at = "reconcile", ![p].b = registered, ![p].seen = registered]
    /\ UNCHANGED <<grants, issued, generation, registered, cd, cds, call, selected, overwritten>>

ReconcileTool(p) ==
    /\ tools[p].at = "reconcile"
    /\ tools' = IF Reconciles(tools[p].b)
                THEN [tools EXCEPT ![p].at = "register", ![p].b = reconcile(@), ![p].granted = grants]
                ELSE [tools EXCEPT ![p].at = "exited"]
    /\ UNCHANGED <<grants, issued, generation, registered, cd, cds, call, selected, overwritten>>

\* A runner nobody waits for any more ends here.
RegisterTool(p) ==
    /\ tools[p].at = "register"
    /\ registered' = tools[p].b
    /\ overwritten' = (overwritten \/ registered.cwd /= tools[p].b.cwd
                          \/ registered.grant /= tools[p].seen.grant)
    /\ tools' = [tools EXCEPT ![p].at = IF call.at = "wait" /\ call.pid = p
                                        THEN "scope" ELSE "exited"]
    /\ UNCHANGED <<grants, issued, generation, cd, cds, call, selected>>

BeginTool(p) ==
    /\ tools[p].at = "scope"
    /\ tools' = [tools EXCEPT ![p].at = "run", ![p].scope = process_presentation_scope]
    /\ UNCHANGED <<grants, issued, generation, registered, cd, cds, call, selected, overwritten>>

\* The Tool ends, well or not.
EndTool(p) ==
    /\ tools[p].at = "run"
    /\ \/ tools' = [tools EXCEPT ![p].at = "exited",
                       ![p].receipt = IF tools[p].scope = process_presentation_scope
                                      THEN tools[p].scope ELSE None]
       \/ tools' = [tools EXCEPT ![p].at = "exited"]
    /\ UNCHANGED <<grants, issued, generation, registered, cd, cds, call, selected, overwritten>>

ToolNext ==
    \/ \E dir \in Dirs : Grant(dir) \/ BeginCd(dir)
    \/ \E g \in grants : Revoke(g)
    \/ BeginCd(None) \/ ResolveCd \/ CheckCd \/ RegisterCd
    \/ Starts \/ read_process_namespace \/ spawn_process \/ GiveUp \/ read_process_result \/ Returns
    \/ \E p \in DOMAIN tools :
          \/ TakeBinding(p) \/ ReconcileTool(p) \/ RegisterTool(p) \/ BeginTool(p) \/ EndTool(p)

ToolSpec == ToolInit /\ [][ToolNext]_toolVars
-----------------------------------------------------------------------------
\* The Tool the engine waits for has its binding.
Running(p) == tools[p].at \in {"scope", "run"} /\ call.at = "wait" /\ call.pid = p

\* A Tool runs where the user put the Process, under what was granted when it started:
\* its mounts are the live grants of its reconciliation, its cwd is in one of them, by
\* the very grant the directory was chosen under, and it is the directory last chosen,
\* unless a runner that had been given up put its older binding over the new one.  What
\* the engine then records as read-only evidence names the cwd and mounts it ran with.
ToolsRunWhereChosen ==
    /\ \A p \in DOMAIN tools : Running(p) =>
          /\ tools[p].b.mounts = tools[p].granted
          /\ tools[p].b.grant = None \/ [id |-> tools[p].b.grant, dir |-> tools[p].b.cwd] \in tools[p].granted
          /\ tools[p].seen.grant \in {None, tools[p].b.grant}
          /\ ~overwritten => tools[p].b.cwd = selected
    /\ (call.at = "done" /\ call.context /= None) =>
          LET b == tools[call.pid].b IN
          call.context.cwd = b.cwd /\ call.context.mounts = b.mounts
=============================================================================
