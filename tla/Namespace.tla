----------------------------- MODULE Namespace ------------------------------
(***************************************************************************)
(* The mount table of a process (crates/kernel/src/namespace.rs): how it   *)
(* is assembled, how a path resolves in it, and how a child's table is     *)
(* derived from it.  A path is the sequence of its components, a tree the  *)
(* number of the mount call that brought it in; each table is a sequence   *)
(* in mount order, as in the code.                                         *)
(***************************************************************************)
EXTENDS Naturals, Sequences, FiniteSets, SequencesExt

CONSTANTS Paths,      \* absolute paths that are mounted, bound and asked for
          MaxMounts,  \* bound: mounts in one table
          Token, Pid  \* CHILD_PID_PLACEHOLDER and the component that replaces it

ASSUME NamespaceAssumption == MaxMounts \in Nat /\ <<>> \in Paths

MountAccess == {"ro", "rw"}
None == "none"

\* is_prefix
Below(p, q) == Len(p) <= Len(q) /\ \A i \in 1..Len(p) : p[i] = q[i]
StrictlyBelow(p, q) == Len(p) < Len(q) /\ Below(p, q)

\* satisfies_access, restrict_access, is_stricter_access
Satisfies(granted, requested) == granted = "rw" \/ requested = "ro"
RestrictAccess(granted, ceiling) == IF granted = "ro" \/ ceiling = "ro" THEN "ro" ELSE "rw"
AtMost(a, b) == a = b \/ (a = "ro" /\ b = "rw")
Stricter(access, ceiling) == access = "ro" /\ ceiling = "rw"

-----------------------------------------------------------------------------
(* Resolution.                                                             *)

\* Mutation: among equal prefixes the first mount wins.
ResolveOldest(mounts, path) ==
    FoldLeftDomain(LAMBDA best, i :
        IF Below(mounts[i].prefix, path)
           /\ (best = 0 \/ Len(mounts[i].prefix) > Len(mounts[IF best = 0 THEN i ELSE best].prefix))
        THEN i ELSE best, 0, mounts)

\* resolve: one pass that keeps the best match so far, 0 for Unreachable.
Resolve(mounts, path) ==
    FoldLeftDomain(LAMBDA best, i :
        IF Below(mounts[i].prefix, path)
           /\ (best = 0 \/ Len(mounts[i].prefix) >= Len(mounts[IF best = 0 THEN i ELSE best].prefix))
        THEN i ELSE best, 0, mounts)

\* resolve_candidates as a set: the mounts at the longest matching prefix.
Matches(mounts, path) == {i \in DOMAIN mounts : Below(mounts[i].prefix, path)}
Candidates(mounts, path) ==
    {i \in Matches(mounts, path) :
        \A j \in Matches(mounts, path) : Len(mounts[j].prefix) <= Len(mounts[i].prefix)}

-----------------------------------------------------------------------------
(* restrict_to_mounts.  explicit[i] is the access the manifest asks for at *)
(* mount i, or None.                                                       *)

\* Mutation: a declaration claims a mount whatever access it asks for.
ClaimAny(mounts, explicit, path, access) ==
    LET free == {i \in DOMAIN explicit : explicit[i] = None /\ mounts[i].prefix = path}
    IN IF free = {} THEN <<>>
       ELSE [explicit EXCEPT ![CHOOSE i \in free : \A j \in free : i <= j] = access]

\* One declaration claims the first free mount at its path that satisfies it;
\* the table is <<>> once a declaration found none.
Claim(mounts, explicit, path, access) ==
    LET free == {i \in DOMAIN explicit : /\ explicit[i] = None /\ mounts[i].prefix = path
                                         /\ Satisfies(mounts[i].access, access)}
    IN IF free = {} THEN <<>>
       ELSE [explicit EXCEPT ![CHOOSE i \in free : \A j \in free : i <= j] = access]

\* The declarations of a manifest in its normalized order.
Explicit(mounts, request) ==
    FoldLeft(LAMBDA explicit, r : Claim(mounts, explicit, r.path, r.access),
             [i \in DOMAIN mounts |-> None], request)

\* nearest_explicit_ancestor_access: the longest, among equals the first.
Ancestors(mounts, explicit, i) ==
    {j \in DOMAIN mounts : explicit[j] # None /\ StrictlyBelow(mounts[j].prefix, mounts[i].prefix)}
NearestAccess(mounts, explicit, i) ==
    LET above == Ancestors(mounts, explicit, i) IN
    IF above = {} THEN None
    ELSE explicit[CHOOSE j \in above : \A k \in above :
                     \/ Len(mounts[k].prefix) < Len(mounts[j].prefix)
                     \/ Len(mounts[k].prefix) = Len(mounts[j].prefix) /\ j <= k]

\* omitted_descendant_is_restrictive
Restrictive(mounts, i, ceiling) == Stricter(RestrictAccess(mounts[i].access, ceiling), ceiling)

\* Mutation: an omitted overmount that grants as much as its parent is dropped.
UnsafeUnchecked(mounts, explicit) == FALSE

\* has_unsafe_omitted_descendant
Unsafe(mounts, explicit) ==
    \E i \in DOMAIN mounts :
        /\ explicit[i] = None /\ NearestAccess(mounts, explicit, i) # None
        /\ ~Restrictive(mounts, i, NearestAccess(mounts, explicit, i))

\* The access at which mount i survives, None when it is dropped: what was
\* asked for, or preserved_overmount_access.
Kept(mounts, explicit, i) ==
    IF explicit[i] # None THEN explicit[i]
    ELSE LET ceiling == NearestAccess(mounts, explicit, i) IN
         IF ceiling # None /\ Restrictive(mounts, i, ceiling)
         THEN RestrictAccess(mounts[i].access, ceiling) ELSE None

\* The restricted table, still with one entry per mount of the parent.
Restricted(mounts, explicit) == [i \in DOMAIN mounts |-> Kept(mounts, explicit, i)]

\* The surviving mounts a path resolves to.
KeptCandidates(mounts, kept, path) ==
    {i \in Matches(mounts, path) : kept[i] # None /\
        \A j \in Matches(mounts, path) : kept[j] # None => Len(mounts[j].prefix) <= Len(mounts[i].prefix)}

\* The child's table: the surviving mounts in mount order.
Survivors(mounts, kept) ==
    LET keep == SelectSeq([i \in DOMAIN mounts |-> i], LAMBDA i : kept[i] # None)
    IN [n \in DOMAIN keep |-> [mounts[keep[n]] EXCEPT !.access = kept[keep[n]]]]

-----------------------------------------------------------------------------
(* project_mounts, for declarations [target, source, access].              *)

LastAt(mounts, path) ==
    LET at == {i \in DOMAIN mounts : mounts[i].prefix = path}
    IN IF at = {} THEN 0 ELSE CHOOSE i \in at : \A j \in at : j <= i

Projectable(mounts, d) ==
    LastAt(mounts, d.source) # 0 /\ Satisfies(mounts[LastAt(mounts, d.source)].access, d.access)

\* Mutation: only mounts at the source itself are carried over.
ProjectShallow(mounts, d) ==
    LET under == SelectSeq(mounts, LAMBDA m : m.prefix = d.source)
    IN [n \in DOMAIN under |-> [prefix |-> d.target, tree |-> under[n].tree,
                                access |-> RestrictAccess(under[n].access, d.access)]]

Project(mounts, d) ==
    LET under == SelectSeq(mounts, LAMBDA m : Below(d.source, m.prefix))
    IN [n \in DOMAIN under |->
          [prefix |-> d.target \o SubSeq(under[n].prefix, Len(d.source) + 1, Len(under[n].prefix)),
           tree |-> under[n].tree,
           access |-> IF d.access = "ro" THEN "ro" ELSE under[n].access]]

\* child_with_path_substitution
Substituted(mounts) ==
    [i \in DOMAIN mounts |->
        [mounts[i] EXCEPT !.prefix = [k \in DOMAIN @ |-> IF @[k] = Token THEN Pid ELSE @[k]]]]
-----------------------------------------------------------------------------
VARIABLES
    here,     \* the table of the process
    granted,  \* tree -> the access it was mounted with, in mount order
    child,    \* the table derived by the last step, if it derived one
    made      \* how: [by, from, decl]

namespaceVars == <<here, granted, child, made>>

Decls == [target : Paths, source : Paths, access : MountAccess]
Claims == [path : Paths, access : MountAccess]
NoDecl == [target |-> <<>>, source |-> <<>>, access |-> "ro"]
Nothing == child' = <<>> /\ made' = [by |-> "new", from |-> <<>>, decl |-> NoDecl]

NamespaceInit ==
    /\ here = <<>> /\ granted = <<>> /\ child = <<>>
    /\ made = [by |-> "new", from |-> <<>>, decl |-> NoDecl]

\* mount
MountAt(path, access) ==
    /\ Len(here) < MaxMounts /\ Len(granted) < MaxMounts
    /\ granted' = Append(granted, access)
    /\ here' = Append(here, [prefix |-> path, tree |-> Len(granted) + 1, access |-> access])
    /\ Nothing

\* bind
Bind(new, existing) ==
    /\ LET aliases == SelectSeq(here, LAMBDA m : m.prefix = existing)
       IN /\ Len(here) + Len(aliases) <= MaxMounts
          /\ here' = here \o [n \in DOMAIN aliases |-> [aliases[n] EXCEPT !.prefix = new]]
    /\ Nothing /\ UNCHANGED granted

\* unmount
Unmount(path) ==
    /\ here' = SelectSeq(here, LAMBDA m : m.prefix # path)
    /\ Nothing /\ UNCHANGED granted

\* namespace_subset_from a manifest with these declarations.
RestrictToMounts(request) ==
    /\ request = <<>> \/ Explicit(here, request) # <<>>
    /\ ~Unsafe(here, Explicit(here, request))
    /\ child' = Survivors(here, Restricted(here, Explicit(here, request)))
    /\ made' = [by |-> "restrict", from |-> here, decl |-> NoDecl]
    /\ UNCHANGED <<here, granted>>

ProjectMounts(d) ==
    /\ Projectable(here, d)
    /\ child' = Project(here, d)
    /\ made' = [by |-> "project", from |-> here, decl |-> d]
    /\ UNCHANGED <<here, granted>>

Substitute ==
    /\ child' = Substituted(here)
    /\ made' = [by |-> "substitute", from |-> here, decl |-> NoDecl]
    /\ UNCHANGED <<here, granted>>

\* The spawned process runs in the derived table (bound: its paths are Paths).
Enter ==
    /\ made.by # "new" /\ \A i \in DOMAIN child : child[i].prefix \in Paths
    /\ here' = child
    /\ Nothing /\ UNCHANGED granted

Requests == UNION {[1..n -> Claims] : n \in 0..2}

\* A derived table is a value: the caller runs a process in it or drops it, and
\* what happens to the parent's table meanwhile does not reach it.
DropDerived == made.by # "new" /\ Nothing /\ UNCHANGED <<here, granted>>

Operate ==
    \/ \E p \in Paths, a \in MountAccess : MountAt(p, a)
    \/ \E p, q \in Paths : Bind(p, q)
    \/ \E p \in Paths : Unmount(p)
    \/ \E r \in Requests : RestrictToMounts(r)
    \/ \E d \in Decls : ProjectMounts(d)
    \/ Substitute

NamespaceNext == (made.by = "new" /\ Operate) \/ Enter \/ DropDerived

NamespaceSpec == NamespaceInit /\ [][NamespaceNext]_namespaceVars
-----------------------------------------------------------------------------
(* Properties.                                                             *)
Query == Paths \cup {Append(p, Pid) : p \in Paths}

\* resolve and resolve_candidates are two searches for one answer: the single
\* pass of resolve finds the newest of the mounts at the longest matching prefix,
\* the one resolve_candidates lists first, and nothing when there is none.
ResolveIsFirstCandidate ==
    \A p \in Paths :
        LET r == Resolve(here, p)
            c == Candidates(here, p)
        IN IF c = {} THEN r = 0 ELSE r \in c /\ \A i \in c : i <= r

\* What a restricted child can reach at a path is what its parent reaches at
\* that path, at the same or less access: a manifest cannot uncover what an
\* overmount hides by leaving the overmount out.
RestrictNarrows ==
    made.by = "restrict" =>
        \A p \in Query : \A i \in Candidates(child, p) : \E j \in Candidates(made.from, p) :
            child[i].tree = made.from[j].tree /\ AtMost(child[i].access, made.from[j].access)

\* A projected tree looks under its target exactly as it did under its source,
\* overmounts included, with nothing writable under a read-only declaration.
ProjectionExact ==
    made.by = "project" =>
        \A p \in Query :
            LET d == made.decl
                q == d.source \o SubSeq(p, Len(d.target) + 1, Len(p))
                seen(t, x) == {t[i].tree : i \in Candidates(t, x)}
            IN IF Below(d.target, p)
               THEN /\ seen(child, p) = seen(made.from, q)
                    /\ \A i \in Candidates(child, p) : AtMost(child[i].access, d.access)
               ELSE seen(child, p) = {}

\* Along any chain of binds, restrictions, projections and spawns no tree is
\* ever reachable with more access than it was mounted with.
NeverEscalates ==
    \A t \in {here, child} : \A i \in DOMAIN t : AtMost(t[i].access, granted[t[i].tree])

\* Restriction, projection, binds and spawns together: access only narrows.
AccessOnlyNarrows == RestrictNarrows /\ ProjectionExact /\ NeverEscalates

-----------------------------------------------------------------------------
(***************************************************************************)
(* /srv, the rendezvous device: a live registry of posted handles, and     *)
(* views of it that withhold names.  A view shares the registry, adds to   *)
(* the names its parent withholds and has a fid table of its own.  A walk  *)
(* holds its view's fid table and takes the registry lock twice, once to   *)
(* see that the name is posted and once to form the qid.                   *)
(*                                                                         *)
(*   handles, nextQid  Registry: the posted handles in post order; a       *)
(*                     handle's post number stands for its tree, and is    *)
(*                     its qid path                                        *)
(*   denied            the withheld names of every view made so far        *)
(*   viewParent        history: the view each view was made from           *)
(*   srvFids           the fid tables                                      *)
(*   walk              the walk in progress in each view                   *)
(*   latest            history: the last post of each name, 0 once unposted *)
(*   found             what the last lookup resolved, and for which view   *)
(***************************************************************************)

CONSTANTS Names, SrvFids, MaxViews, MaxPosts

VARIABLES handles, nextQid, denied, viewParent, srvFids, walk, latest, found

registry == <<handles, nextQid, latest>>
srvVars == <<registry, denied, viewParent, srvFids, walk, found>>

SrvViews == DOMAIN denied
RootNode == "/"
Unwalked == "unbound"
NoWalk == [f |-> Unwalked, node |-> Unwalked]
NoFind == [view |-> 1, name |-> Unwalked, tree |-> 0]

SrvInit ==
    /\ handles = <<>> /\ nextQid = 1
    /\ latest = [n \in Names |-> 0]
    /\ denied = <<{}>>
    /\ viewParent = <<1>>
    /\ srvFids = <<[f \in SrvFids |-> Unwalked]>>
    /\ walk = <<NoWalk>>
    /\ found = NoFind

\* Results of a call are only looked at in the state after it.
Forget == found' = NoFind

-----------------------------------------------------------------------------
Visible(v, n) == n \notin denied[v]
Without(n) == SelectSeq(handles, LAMBDA h : h.name # n)
Posted == {handles[i].name : i \in DOMAIN handles}
PostedHandle(n) == handles[CHOOSE i \in DOMAIN handles : handles[i].name = n]

\* A repeated post replaces the handle of the name.
Post(n) ==
    /\ nextQid <= MaxPosts
    /\ handles' = Append(Without(n), [name |-> n, qid |-> nextQid])
    /\ nextQid' = nextQid + 1
    /\ latest' = [latest EXCEPT ![n] = nextQid]
    /\ Forget
    /\ UNCHANGED <<denied, viewParent, srvFids, walk>>

Unpost(n) ==
    /\ n \in Posted
    /\ handles' = Without(n)
    /\ latest' = [latest EXCEPT ![n] = 0]
    /\ Forget
    /\ UNCHANGED <<nextQid, denied, viewParent, srvFids, walk>>

Lookup(v, n) ==
    /\ Visible(v, n) /\ n \in Posted
    /\ found' = [view |-> v, name |-> n, tree |-> PostedHandle(n).qid]
    /\ UNCHANGED <<registry, denied, viewParent, srvFids, walk>>

\* A view of a view withholds what either withholds.
MutView(v, names) ==
    /\ Len(denied) < MaxViews
    /\ denied' = Append(denied, names)
    /\ viewParent' = Append(viewParent, v)
    /\ srvFids' = Append(srvFids, [f \in SrvFids |-> Unwalked])
    /\ walk' = Append(walk, NoWalk)
    /\ Forget
    /\ UNCHANGED registry
View(v, names) ==
    /\ Len(denied) < MaxViews
    /\ denied' = Append(denied, denied[v] \cup names)
    /\ viewParent' = Append(viewParent, v)
    /\ srvFids' = Append(srvFids, [f \in SrvFids |-> Unwalked])
    /\ walk' = Append(walk, NoWalk)
    /\ Forget
    /\ UNCHANGED registry

\* walk up to the check that the node is there; names is empty or one name.
WalkStart(v, from, f, node) ==
    /\ walk[v] = NoWalk
    /\ srvFids[v][f] = Unwalked
    /\ \/ node = from
       \/ from = RootNode /\ node \in Posted /\ Visible(v, node)
    /\ walk' = [walk EXCEPT ![v] = [f |-> f, node |-> node]]
    /\ Forget
    /\ UNCHANGED <<registry, denied, viewParent, srvFids>>

\* qid_of under a second registry lock, then the fid is bound.
WalkFinish(v) ==
    /\ walk[v] # NoWalk
    /\ srvFids' = [srvFids EXCEPT ![v][walk[v].f] = walk[v].node]
    /\ walk' = [walk EXCEPT ![v] = NoWalk]
    /\ found' = NoFind
    /\ UNCHANGED <<registry, denied, viewParent>>

Clunk(v, f) ==
    /\ walk[v] = NoWalk
    /\ srvFids[v][f] # Unwalked
    /\ srvFids' = [srvFids EXCEPT ![v][f] = Unwalked]
    /\ Forget
    /\ UNCHANGED <<registry, denied, viewParent, walk>>

SrvNext ==
    \/ \E n \in Names : Post(n) \/ Unpost(n)
    \/ \E v \in SrvViews :
          \/ \E n \in Names : Lookup(v, n)
          \/ \E names \in SUBSET Names : View(v, names)
          \/ \E f \in SrvFids, from \in {RootNode} \cup {srvFids[v][g] : g \in SrvFids},
                node \in {RootNode} \cup Names : WalkStart(v, from, f, node)
          \/ WalkFinish(v)
          \/ \E f \in SrvFids : Clunk(v, f)

SrvSpec == SrvInit /\ [][SrvNext]_srvVars

-----------------------------------------------------------------------------

\* The view v and the views it was made from.
Lineage(v) ==
    LET up[u \in SrvViews] == IF u = 1 THEN {1} ELSE {u} \cup up[viewParent[u]]
    IN up[v]

\* A name withheld from a view is out of reach of it and of every view derived
\* from it, however often the name is posted again: no lookup resolves it and no
\* fid leads to it.  What a lookup does resolve is the last post of the name:
\* a restarted service supersedes its stale transport.
ViewsAreHonest ==
    /\ found # NoFind => /\ \A u \in Lineage(found.view) : found.name \notin denied[u]
                        /\ found.tree = latest[found.name] /\ found.tree # 0
    /\ \A v \in SrvViews, f \in SrvFids : \A u \in Lineage(v) : srvFids[v][f] \notin denied[u]

\* Names resolve to one thing: the two searches of the mount table agree, and so
\* do the views of /srv with what is posted.
LookupsAreTrue == ResolveIsFirstCandidate /\ ViewsAreHonest
=============================================================================
