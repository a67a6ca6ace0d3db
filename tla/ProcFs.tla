------------------------------- MODULE ProcFs -------------------------------
(***************************************************************************)
(* The kernel's process table and the /proc file server over it            *)
(* (crates/kernel/src/process.rs, procfs.rs, procfs/file_server.rs) with   *)
(* the live namespace handles of mountfs.rs.  Every aP call of /proc runs  *)
(* under one state mutex, so one call is one action here; what happens     *)
(* after the mutex is released (events, runner tasks) is module ProcLife.  *)
(*                                                                         *)
(* A namespace is abstracted to the access it grants at each mount path,   *)
(* an exec document to what the commit checks of it.  Pid 0 stands for "no *)
(* parent" and view 0 is the /proc view that has none.                     *)
(***************************************************************************)
EXTENDS Naturals, FiniteSets

CONSTANTS MaxPid,   \* bound: pids allocated
          Fids,     \* client-chosen fids of one view
          Root,     \* Fid::ROOT of a view whose root is the clone file
          MountPaths,    \* mount paths, none nested in another
          Handles,  \* LiveNamespace handles
          Boot,     \* the handle behind view 0
          MaxGen,   \* bound: generation of a handle
          Written,  \* exec documents that clients write
          Codes,    \* exit codes reported by hosts and runners
          NoHandle, NoCode, Malformed  \* absent handle, absent code, unparsable document

ASSUME ProcFsAssumption ==
    /\ MaxPid \in Nat /\ MaxGen \in Nat
    /\ Root \notin Fids /\ Boot \in Handles
    /\ NoHandle \notin Handles /\ NoCode \notin Codes \cup {130}

Pids == 1..MaxPid
Views == 0..MaxPid
AllFids == Fids \cup {Root}
Access == 0..2                   \* absent, ReadOnly, ReadWrite
Namespaces == [MountPaths -> Access]
Exits == Codes \cup {130}        \* 130 is the exit code of a cancel

\* An ExecSpec as the commit sees it: the manifest, the paths of the descriptors,
\* and whether some descriptor is reserved (number < 3) or not a normal path.
Specs == [gen : 0..MaxGen, mounts : Namespaces, descs : SUBSET MountPaths, badFd : BOOLEAN]
Docs == Written \cup {Malformed}

ASSUME WrittenAssumption == Written \subseteq Specs

VARIABLES
    next,     \* ProcessTable::next
    st,       \* pid -> "free" | "pending" | "gone" (discarded) | "running" | "exited"
    parent,   \* pid -> spawning pid, 0 for none
    ns,       \* pid -> namespace of the pending slot or process
    pgen,     \* pid -> namespace_generation captured by the pending slot
    code,     \* pid -> exit code
    listGen,  \* VersionTable entry LISTING_KEY
    gens,     \* pid -> VersionTable entry of the pid
    fid,      \* view -> fid -> ProcFid, node "none" when the fid is not live
    bound,    \* pid -> live_namespaces entry or NoHandle
    hns,      \* handle -> its current namespace
    hgen,     \* handle -> its generation
    peak      \* handle -> the most it ever granted (history variable)

table == <<next, st, parent, ns, pgen, code, listGen, gens>>
live == <<bound, hns, hgen, peak>>
vars == <<next, st, parent, ns, pgen, code, listGen, gens, fid, bound, hns, hgen, peak>>

Public(p) == st[p] \in {"running", "exited"}
Unbound == [node |-> "none", pid |-> 0, mode |-> "none", clone |-> 0,
            doc |-> Malformed, failed |-> FALSE]
FidRecs == [node : {"none", "clone", "ctl"}, pid : Views,
            mode : {"none", "read", "write"}, clone : Views,
            doc : Docs, failed : BOOLEAN]

Join(m, n) == [x \in MountPaths |-> IF m[x] < n[x] THEN n[x] ELSE m[x]]
Within(m, n) == \A x \in MountPaths : m[x] <= n[x]

\* Type correctness of the process table, the fid tables and the live handles;
\* an exit code exists exactly for exited processes (process.rs exit).
TypeOK ==
    /\ next \in 1..MaxPid + 1
    /\ st \in [Pids -> {"free", "pending", "gone", "running", "exited"}]
    /\ parent \in [Pids -> Views]
    /\ ns \in [Pids -> Namespaces]
    /\ pgen \in [Pids -> 0..MaxGen]
    /\ code \in [Pids -> Exits \cup {NoCode}]
    /\ listGen \in Nat
    /\ gens \in [Pids -> Nat]
    /\ fid \in [Views -> [AllFids -> FidRecs]]
    /\ bound \in [Pids -> Handles \cup {NoHandle}]
    /\ hns \in [Handles -> Namespaces]
    /\ hgen \in [Handles -> 0..MaxGen]
    /\ peak \in [Handles -> Namespaces]
    /\ \A p \in Pids : code[p] # NoCode <=> st[p] = "exited"

Init ==
    /\ next = 1
    /\ st = [p \in Pids |-> "free"]
    /\ parent = [p \in Pids |-> 0]
    /\ ns = [p \in Pids |-> [x \in MountPaths |-> 0]]
    /\ pgen = [p \in Pids |-> 0]
    /\ code = [p \in Pids |-> NoCode]
    /\ listGen = 0
    /\ gens = [p \in Pids |-> 0]
    /\ fid = [v \in Views |-> [f \in AllFids |-> Unbound]]
    /\ bound = [p \in Pids |-> NoHandle]
    /\ hns \in [Handles -> Namespaces]
    /\ hgen = [h \in Handles |-> 0]
    /\ peak = hns
-----------------------------------------------------------------------------
(* NamespaceSource of a view: the live handle, or the snapshot it was      *)
(* created with, whose generation is always 0.                             *)

HandleOf(v) == IF v = 0 THEN Boot ELSE bound[v]
SourceNs(v) == IF HandleOf(v) = NoHandle THEN ns[v] ELSE hns[HandleOf(v)]
SourceGen(v) == IF HandleOf(v) = NoHandle THEN 0 ELSE hgen[HandleOf(v)]

\* The clients of a view: the boot component, or the process it belongs to.
Client(v) == v \in {0} \cup {p \in Pids : Public(p)}

-----------------------------------------------------------------------------
\* walk: newfid must be fresh; /proc/<pid> is only found for a public pid.
Walk(v, f, node, p) ==
    /\ Client(v) /\ f \in Fids
    /\ fid[v][f].node = "none"
    /\ IF node = "ctl" THEN p \in {q \in Pids : Public(q)} ELSE p = 0
    /\ fid' = [fid EXCEPT ![v][f] = [Unbound EXCEPT !.node = node, !.pid = p]]
    /\ UNCHANGED <<table, live>>

\* open of the clone file: needs write intent and a fid not opened before;
\* allocates the pending slot from the view's namespace source.  The root fid
\* of a clone-rooted view becomes live by this open.
OpenClone(v, f, m) ==
    /\ Client(v) /\ next <= MaxPid
    /\ m = "write"
    /\ IF f = Root THEN fid[v][f].node = "none"
                   ELSE fid[v][f].node = "clone" /\ fid[v][f].mode = "none"
    /\ next' = next + 1
    /\ st' = [st EXCEPT ![next] = "pending"]
    /\ parent' = [parent EXCEPT ![next] = v]
    /\ ns' = [ns EXCEPT ![next] = SourceNs(v)]
    /\ pgen' = [pgen EXCEPT ![next] = SourceGen(v)]
    /\ fid' = [fid EXCEPT ![v][f] = [@ EXCEPT !.node = "clone", !.mode = m, !.clone = next]]
    /\ UNCHANGED <<code, listGen, gens, live>>

\* open of any other file.
OpenCtl(v, f, m) ==
    /\ Client(v) /\ fid[v][f].node = "ctl" /\ fid[v][f].mode = "none"
    /\ fid' = [fid EXCEPT ![v][f].mode = m]
    /\ UNCHANGED <<table, live>>

\* write to an opened clone fid: buffer the document, or mark the fid failed
\* when offset or size exceed the limit.
WriteClone(v, f, d, fits) ==
    /\ Client(v) /\ fid[v][f].mode = "write" /\ fid[v][f].clone # 0
    /\ fid' = [fid EXCEPT ![v][f] = IF fits THEN [@ EXCEPT !.doc = d]
                                            ELSE [@ EXCEPT !.failed = TRUE]]
    /\ UNCHANGED <<table, live>>

\* Mutation: the last writer of the exit code wins.
ExitAgain(p, c) ==
    /\ st' = [st EXCEPT ![p] = IF Public(p) THEN "exited" ELSE @]
    /\ code' = [code EXCEPT ![p] = IF Public(p) THEN c ELSE @]
    /\ gens' = [gens EXCEPT ![p] = @ + 1]

\* Mutation: the status is updated without the code.
ExitNoCode(p, c) ==
    /\ st' = [st EXCEPT ![p] = IF @ = "running" THEN "exited" ELSE @]
    /\ gens' = [gens EXCEPT ![p] = IF st[p] = "running" THEN @ + 1 ELSE @]
    /\ UNCHANGED code

\* ProcessTable::exit: the first terminal state is kept.
Exit(p, c) ==
    /\ st' = [st EXCEPT ![p] = IF @ = "running" THEN "exited" ELSE @]
    /\ code' = [code EXCEPT ![p] = IF st[p] = "running" THEN c ELSE @]
    /\ gens' = [gens EXCEPT ![p] = IF st[p] = "running" THEN @ + 1 ELSE @]

\* write of "cancel" or "interrupt" to /proc/<pid>/ctl.
WriteCtl(v, f) ==
    /\ Client(v) /\ fid[v][f].node = "ctl" /\ fid[v][f].mode = "write"
    /\ Exit(fid[v][f].pid, 130)
    /\ UNCHANGED <<next, parent, ns, pgen, listGen, fid, live>>

\* record_exit by the host, or the runner task's own exit: the same table step.
RecordExit(p, c) ==
    /\ Public(p)
    /\ Exit(p, c)
    /\ UNCHANGED <<next, parent, ns, pgen, listGen, fid, live>>

-----------------------------------------------------------------------------
\* What clunk checks of the exec document before it commits pid p.
ManifestOk(p, d) == d.gen = pgen[p] /\ Within(d.mounts, ns[p])
DescriptorsOk(d) == ~d.badFd /\ \A x \in d.descs : d.mounts[x] > 0

\* Mutation: a failed write is forgotten and the manifest is trusted.
CommittableTrusting(p, r) == r.doc # Malformed /\ r.doc.gen = pgen[p]

Committable(p, r) == ~r.failed /\ r.doc # Malformed /\ ManifestOk(p, r.doc) /\ DescriptorsOk(r.doc)

\* clunk of a clone fid, document accepted: the slot becomes a running public
\* process with exactly the namespace of its manifest.
ClunkCommit(v, f) ==
    LET p == fid[v][f].clone IN
    /\ Client(v) /\ p # 0 /\ Committable(p, fid[v][f])
    /\ st' = [st EXCEPT ![p] = "running"]
    /\ ns' = [ns EXCEPT ![p] = fid[v][f].doc.mounts]
    /\ listGen' = listGen + 1
    /\ fid' = [fid EXCEPT ![v][f] = Unbound]
    /\ UNCHANGED <<next, parent, pgen, code, gens, live>>

\* Mutation: a rejected commit forgets the pending slot.
ClunkRejectLeaks(v, f) ==
    LET p == fid[v][f].clone IN
    /\ Client(v) /\ p # 0 /\ ~Committable(p, fid[v][f])
    /\ fid' = [fid EXCEPT ![v][f] = Unbound]
    /\ UNCHANGED <<table, live>>

\* clunk of a clone fid, document rejected: the slot is discarded.
ClunkReject(v, f) ==
    LET p == fid[v][f].clone IN
    /\ Client(v) /\ p # 0 /\ ~Committable(p, fid[v][f])
    /\ st' = [st EXCEPT ![p] = "gone"]
    /\ fid' = [fid EXCEPT ![v][f] = Unbound]
    /\ UNCHANGED <<next, parent, ns, pgen, code, listGen, gens, live>>

\* clunk of a fid that holds no pending slot.
ClunkPlain(v, f) ==
    /\ Client(v) /\ fid[v][f].node # "none" /\ fid[v][f].clone = 0
    /\ fid' = [fid EXCEPT ![v][f] = Unbound]
    /\ UNCHANGED <<table, live>>

-----------------------------------------------------------------------------
\* LiveNamespace::mount, replace_mount, unmount: the mount table changes and
\* the generation advances under one lock.
Remount(h, x, a) ==
    /\ hgen[h] < MaxGen
    /\ hns' = [hns EXCEPT ![h][x] = a]
    /\ hgen' = [hgen EXCEPT ![h] = @ + 1]
    /\ peak' = [peak EXCEPT ![h] = Join(@, hns'[h])]
    /\ UNCHANGED <<table, fid, bound>>

\* Mutation: binding an unchanged handle leaves its generation alone.
BindLiveQuietly(p, h) ==
    /\ Public(p) /\ bound[p] = NoHandle
    /\ bound' = [bound EXCEPT ![p] = h]
    /\ gens' = [gens EXCEPT ![p] = @ + 1]
    /\ UNCHANGED <<next, st, parent, ns, pgen, code, listGen, fid, hns, hgen, peak>>

\* bind_live_namespace: a committed process gets live authority, once; its
\* owner serves its /proc from a live spawner view from then on.
BindLive(p, h) ==
    /\ Public(p) /\ bound[p] = NoHandle /\ hgen[h] < MaxGen
    /\ bound' = [bound EXCEPT ![p] = h]
    /\ hgen' = [hgen EXCEPT ![h] = @ + 1]
    /\ gens' = [gens EXCEPT ![p] = @ + 1]
    /\ UNCHANGED <<next, st, parent, ns, pgen, code, listGen, fid, hns, peak>>

FidStep ==
    \E v \in Views, f \in AllFids :
        \/ \E node \in {"clone", "ctl"}, p \in Views : Walk(v, f, node, p)
        \/ \E m \in {"read", "write"} : OpenClone(v, f, m) \/ OpenCtl(v, f, m)
        \/ \E d \in Docs, fits \in BOOLEAN : WriteClone(v, f, d, fits)
        \/ WriteCtl(v, f)
        \/ ClunkCommit(v, f) \/ ClunkReject(v, f) \/ ClunkPlain(v, f)

HostStep ==
    \/ \E p \in Pids, c \in Codes : RecordExit(p, c)
    \/ \E h \in Handles, x \in MountPaths, a \in Access : Remount(h, x, a)
    \/ \E p \in Pids, h \in Handles : BindLive(p, h)

Next == FidStep \/ HostStep

Spec == Init /\ [][Next]_vars

-----------------------------------------------------------------------------
(* Properties.                                                             *)

\* Clone-via-open leaks nothing: the pending slots are exactly the slots held
\* by opened clone fids, each by one fid of the view it was opened through and
\* only with write intent.
PendingOwned ==
    /\ \A p \in Pids : st[p] = "pending" => \E v \in Views, f \in AllFids : fid[v][f].clone = p
    /\ \A v \in Views, f \in AllFids : LET r == fid[v][f] IN
          r.clone # 0 => st[r.clone] = "pending" /\ parent[r.clone] = v /\ r.mode = "write"
    /\ \A v, w \in Views, f, g \in AllFids :
          fid[v][f].clone # 0 /\ fid[v][f].clone = fid[w][g].clone => v = w /\ f = g

\* The most a view could ever delegate: its own namespace and, once it spawns
\* from a live handle, everything that handle ever granted.
Authority(v) ==
    IF v = 0 THEN peak[Boot]
    ELSE IF bound[v] = NoHandle THEN ns[v] ELSE Join(ns[v], peak[bound[v]])

\* Spawn is capability-preserving: along every chain of spawns, whatever the
\* exec documents claim and however handles are remounted between clone-open
\* and clunk, a slot or process holds no access its spawner did not hold.
SpawnNarrows ==
    \A p \in Pids : st[p] # "free" => Within(ns[p], Authority(parent[p]))

\* "Terminal state is recorded once": a public process stays public, and once
\* it has exited neither its status nor its exit code changes, whatever
\* cancels, host reports and runner results still arrive.
TerminalOnce ==
    [][\A p \in Pids : /\ Public(p) => Public(p)'
                       /\ st[p] = "exited" => st'[p] = "exited" /\ code'[p] = code[p]]_vars

\* /proc/<pid>/namespace as a reader sees it, and the version of its qid.
NsFile(p) == IF bound[p] = NoHandle THEN ns[p] ELSE hns[bound[p]]
NsVersion(p) == IF bound[p] = NoHandle THEN 0 ELSE hgen[bound[p]]

\* "A cached qid/version goes stale": whenever the listing, a public process's
\* status, exit code or authority, or the bytes of its namespace file change,
\* the version of the corresponding qid changes in the same step.
QidFreshness ==
    [][/\ (\E p \in Pids : Public(p)' # Public(p)) => listGen' # listGen
       /\ \A p \in Pids : Public(p) =>
             /\ <<st[p], code[p], bound[p]>>' # <<st[p], code[p], bound[p]>> => gens'[p] # gens[p]
             /\ NsFile(p)' # NsFile(p) => NsVersion(p)' # NsVersion(p)]_vars
=============================================================================
