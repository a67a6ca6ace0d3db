------------------------------- MODULE MCHost -------------------------------
(***************************************************************************)
(* The host side, side by side: the store of installed packages, the       *)
(* adoption of earlier installations, connections and credentials, host    *)
(* mounts and the Tools that run in them, the terminal's project control and*)
(* the endpoint of the instance.  They share no state here, so a behaviour *)
(* moves only the one it starts with, and the others are off: the run      *)
(* explores the sum of their states and not the product.  Connections are  *)
(* explored three times: two workers race for one catalog slot, one worker *)
(* has two slots and a Process selects the profile, and one worker has a   *)
(* second profile that only evaluates.                                     *)
(***************************************************************************)
EXTENDS Naturals, TLC

CONSTANTS Hosts, Revisions, LeaseIds, Runs, Instances, Sources, Comps, Trees, Unlocked,
          MaxVersion, MaxIds, Profile, Evaluator, Process, Workers, OneWorker, MaxRequests,
          MaxSlots, OneRevision, Clients, OneClient, Accounts, MaxToken, Requests, Root, Child, Dirs,
          MaxAttempts, MaxTools, MaxGrants, MaxCds, MaxOps, MaxCtls, MaxPid, MaxMoves,
          MaxBoots, MaxEntries, None

VARIABLES moves, catalog, revisions, stagedPackage, leases, lock, at, op, journal,
          inventory, src, dest, roots, stagedCopies, exclusive, native, run, open, legacy,
          work, version, ids, disk, conn, selections, requests, connectionsNative,
          validation, pc, snap, published, default, bootstrap, catalogs, slots, store,
          holder, step, bound, loaded, reply, granted, issued, rotated, unsaved, decided,
          request, deciding, grant, projected, life, ns, wait, told, orphan, grants,
          toolsIssued, generation, registered, cd, cds, tools, call, selected,
          overwritten, root, launched, grantee, projectGrant, cwd, ctl, projectPublished,
          done, dirMoves, att, watched, shown, uncertain, pending, retained, ready,
          cleanup, attempted, project, hostPending, job, writes, ops, ctls, probe, gone,
          host, endpointLock, sock, status, client, endpointConn, entries, exits, boots

ParentOf == [c \in Comps |-> IF c = "services" THEN "system" ELSE "host"]
MountPaths == {<<"a">>, <<"a", "b">>}

Store == INSTANCE SystemStore WITH Parent <- ParentOf
Conn == INSTANCE Connections WITH native <- connectionsNative, Managed <- Profile,
                 Profiles <- {Profile}, Evaluators <- {}, Pids <- {}
Slots == INSTANCE Connections WITH native <- connectionsNative, Managed <- Profile,
                  Profiles <- {Profile}, Evaluators <- {}, Pids <- {Process},
                  Workers <- {OneWorker}, MaxSlots <- 2
Pair == INSTANCE Connections WITH native <- connectionsNative, Managed <- Profile,
                 Profiles <- {Profile, Evaluator}, Evaluators <- {Evaluator},
                 Pids <- {Process}, Workers <- {OneWorker}, Revisions <- {OneRevision}
Mount == INSTANCE HostMounts WITH issued <- toolsIssued, Paths <- MountPaths
Control == INSTANCE HostControl WITH grant <- projectGrant, published <- projectPublished,
                    lock <- endpointLock, conn <- endpointConn, Clients <- {OneClient}

packagesPart == <<catalog, revisions, stagedPackage, leases, lock, at, op>>
adoptionPart == <<journal, inventory, src, dest, roots, stagedCopies, exclusive, native,
                  run, open, legacy, work, version, ids>>
connectionsPart == <<disk, conn, selections, requests, connectionsNative, validation, pc,
                     snap, published, default, bootstrap, catalogs, slots>>
authPart == <<store, holder, step, bound, loaded, reply, granted, issued, rotated,
              unsaved, decided>>
mountsPart == <<request, deciding, grant, projected, life, ns, wait, told, orphan>>
toolsPart == <<grants, toolsIssued, generation, registered, cd, cds, tools, call,
               selected, overwritten>>
projectPart == <<root, launched, grantee, projectGrant, cwd, ctl, projectPublished, done,
                 dirMoves, att, watched, shown, uncertain, pending, retained, ready,
                 cleanup, attempted, project, hostPending, job, writes, ops, ctls, probe,
                 gone>>
endpointPart == <<host, endpointLock, sock, status, client, endpointConn, entries, exits,
                  boots>>
packagesOff == /\ catalog = 0 /\ revisions = 0 /\ stagedPackage = 0 /\ leases = 0 /\ lock = 0
               /\ at = 0 /\ op = 0
adoptionOff == /\ journal = 0 /\ inventory = 0 /\ src = 0 /\ dest = 0 /\ roots = 0
               /\ stagedCopies = 0 /\ exclusive = 0 /\ native = 0 /\ run = 0 /\ open = 0
               /\ legacy = 0 /\ work = 0 /\ version = 0 /\ ids = 0
connectionsOff == /\ disk = 0 /\ conn = 0 /\ selections = 0 /\ requests = 0
                  /\ connectionsNative = 0 /\ validation = 0 /\ pc = 0 /\ snap = 0
                  /\ published = 0 /\ default = 0 /\ bootstrap = 0 /\ catalogs = 0
                  /\ slots = 0
authOff == /\ store = 0 /\ holder = 0 /\ step = 0 /\ bound = 0 /\ loaded = 0 /\ reply = 0
           /\ granted = 0 /\ issued = 0 /\ rotated = 0 /\ unsaved = 0 /\ decided = 0
mountsOff == /\ request = 0 /\ deciding = 0 /\ grant = 0 /\ projected = 0 /\ life = 0
             /\ ns = 0 /\ wait = 0 /\ told = 0 /\ orphan = 0
toolsOff == /\ grants = 0 /\ toolsIssued = 0 /\ generation = 0 /\ registered = 0 /\ cd = 0
            /\ cds = 0 /\ tools = 0 /\ call = 0 /\ selected = 0 /\ overwritten = 0
projectOff == /\ root = 0 /\ launched = 0 /\ grantee = 0 /\ projectGrant = 0 /\ cwd = 0
              /\ ctl = 0 /\ projectPublished = 0 /\ done = 0 /\ dirMoves = 0 /\ att = 0
              /\ watched = 0 /\ shown = 0 /\ uncertain = 0 /\ pending = 0 /\ retained = 0
              /\ ready = 0 /\ cleanup = 0 /\ attempted = 0 /\ project = 0
              /\ hostPending = 0 /\ job = 0 /\ writes = 0 /\ ops = 0 /\ ctls = 0
              /\ probe = 0 /\ gone = 0
endpointOff == /\ host = 0 /\ endpointLock = 0 /\ sock = 0 /\ status = 0 /\ client = 0
               /\ endpointConn = 0 /\ entries = 0 /\ exits = 0 /\ boots = 0

MCInit ==
    /\ moves \in {"packages", "adoption", "connections", "slots", "pair", "auth",
                   "mounts", "tools", "project", "endpoint"}
    /\ IF moves = "packages" THEN Store!StoreInit ELSE packagesOff
    /\ IF moves = "adoption" THEN Store!AdoptionInit ELSE adoptionOff
    /\ IF moves = "connections" THEN Conn!ConnectionInit
       ELSE IF moves = "slots" THEN Slots!ConnectionInit
       ELSE IF moves = "pair" THEN Pair!ConnectionInit ELSE connectionsOff
    /\ IF moves = "auth" THEN Conn!AuthInit ELSE authOff
    /\ IF moves = "mounts" THEN Mount!MountInit ELSE mountsOff
    /\ IF moves = "tools" THEN Mount!ToolInit ELSE toolsOff
    /\ IF moves = "project" THEN Control!ProjectInit ELSE projectOff
    /\ IF moves = "endpoint" THEN Control!EndpointInit ELSE endpointOff

PackagesOnly == moves = "packages" /\ UNCHANGED <<moves, adoptionPart, connectionsPart,
              authPart, mountsPart, toolsPart, projectPart, endpointPart>>
AdoptionOnly == moves = "adoption" /\ UNCHANGED <<moves, packagesPart, connectionsPart,
              authPart, mountsPart, toolsPart, projectPart, endpointPart>>
ConnectionsOnly == moves = "connections" /\ UNCHANGED <<moves, packagesPart, adoptionPart,
              authPart, mountsPart, toolsPart, projectPart, endpointPart>>
SlotsOnly == moves = "slots" /\ UNCHANGED <<moves, packagesPart, adoptionPart, authPart,
              mountsPart, toolsPart, projectPart, endpointPart>>
PairOnly == moves = "pair" /\ UNCHANGED <<moves, packagesPart, adoptionPart, authPart,
              mountsPart, toolsPart, projectPart, endpointPart>>
AuthOnly == moves = "auth" /\ UNCHANGED <<moves, packagesPart, adoptionPart,
              connectionsPart, mountsPart, toolsPart, projectPart, endpointPart>>
MountsOnly == moves = "mounts" /\ UNCHANGED <<moves, packagesPart, adoptionPart,
              connectionsPart, authPart, toolsPart, projectPart, endpointPart>>
ToolsOnly == moves = "tools" /\ UNCHANGED <<moves, packagesPart, adoptionPart,
              connectionsPart, authPart, mountsPart, projectPart, endpointPart>>
ProjectOnly == moves = "project" /\ UNCHANGED <<moves, packagesPart, adoptionPart,
              connectionsPart, authPart, mountsPart, toolsPart, endpointPart>>
EndpointOnly == moves = "endpoint" /\ UNCHANGED <<moves, packagesPart, adoptionPart,
              connectionsPart, authPart, mountsPart, toolsPart, projectPart>>

PackagesMoves == PackagesOnly /\ Store!StoreNext
AdoptionMoves == AdoptionOnly /\ Store!AdoptionNext
ConnectionsMoves == ConnectionsOnly /\ Conn!ConnectionNext
SlotsMoves == SlotsOnly /\ Slots!ConnectionNext
PairMoves == PairOnly /\ Pair!ConnectionNext
AuthMoves == AuthOnly /\ Conn!AuthNext
MountsMoves == MountsOnly /\ Mount!MountNext
ToolsMoves == ToolsOnly /\ Mount!ToolNext
ProjectMoves == ProjectOnly /\ Control!ProjectNext
EndpointMoves == EndpointOnly /\ Control!EndpointNext

MCNext == \/ PackagesMoves \/ AdoptionMoves \/ ConnectionsMoves \/ SlotsMoves \/ PairMoves
          \/ AuthMoves \/ MountsMoves \/ ToolsMoves \/ ProjectMoves \/ EndpointMoves

mcVars == <<moves, packagesPart, adoptionPart, connectionsPart, authPart, mountsPart,
            toolsPart, projectPart, endpointPart>>

MCSpec == MCInit /\ [][MCNext]_mcVars

\* SystemStore: every package a Process holds is on disk and the catalog can be
\* verified wherever a Host stopped; an invocation that is let in finds the whole
\* adopted pair or none of it.
StoresAreWhole ==
    /\ moves = "packages" => Store!StoreIsWhole
    /\ moves = "adoption" => Store!AdoptionIsAtomic



Symmetry == Permutations(Requests)
=============================================================================
