------------------------------ MODULE MCTrees -------------------------------
(***************************************************************************)
(* The file trees, side by side: routes, the edit buffer, branches, memory *)
(* files, host directories, the content-addressed store, the tree of one   *)
(* Agent and the view of all of them at /agent.  They share no state here, *)
(* so a behaviour moves only the one it starts with, and the others are off:*)
(* the run explores the sum of their states and not the product.  The tree *)
(* of an Agent is explored twice, for its requests and for its evidence;   *)
(* the view twice, with two clients, and with failing servers and one.     *)
(***************************************************************************)
EXTENDS Naturals, TLC

CONSTANTS Fids, OneFid, ViewFids, Clients, OneClient, Backing, Pids, Names, Messages,
          Chars, Ids, Deltas, Scores, Contents, Bytes, Bad, NotFinite, Empty, None,
          MaxInstalls, MaxSends, MaxLen, MaxRevision, MaxAddr, MaxExec, MaxEvents,
          MaxBirths, MaxCommits, MaxChanges, MaxNodes, MaxBlocks, MaxTape, MaxInput

VARIABLES moves, rules, pending, ports, log, version, installs, routeFids, body, tag,
          revision, addr, event, editFids, meant, branches, selected, events, branchFids,
          store, files, nextGeneration, births, memFids, commits, dir, temp, changes,
          active, hostFids, commit, blocks, nodes, roots, pinned, requests, actions,
          nextRequest, nextAction, docs, input, tape, tapeRoot, outputRoot, requestsStore,
          tapeWriter, journal, told, fids, proc, agents, root_pid, binder, viewEvents,
          viewFids, owner, live, op, lost, faults

RouteSpecs == {[hits |-> Messages, port |-> port] : port \in {"p", "q"}}
ParentOf == [p \in Pids |-> IF p = "k" THEN "r" ELSE None]
ViewPaths == {<<"r">>, <<"root", "ctl">>, <<"children", "k">>}

Service == INSTANCE ServiceTrees WITH Specs <- RouteSpecs, DeadLetter <- "dead",
                    AcceptAll <- TRUE
Branches == INSTANCE ServiceTrees WITH Specs <- RouteSpecs, DeadLetter <- "dead",
                     AcceptAll <- TRUE, Fids <- OneFid
Stores == INSTANCE StoreTrees WITH Writable <- TRUE
Requests == INSTANCE AgentFs WITH store <- requestsStore, events <- viewEvents,
                     Kinds <- {"input", "queue", "prompt", "response", "ctl"},
                     RequestIds <- {0}, ActionIds <- {}, Values <- Contents,
                     NotText <- Bad, Parent <- ParentOf, Paths <- ViewPaths, Root <- "r",
                     MaxFaults <- 0
Evidence == INSTANCE AgentFs WITH store <- requestsStore, events <- viewEvents,
                     Kinds <- {"tape", "result", "output"}, RequestIds <- {},
                     ActionIds <- {0}, Values <- Contents, NotText <- Bad,
                     Parent <- ParentOf, Paths <- ViewPaths, Root <- "r", MaxFaults <- 0
FaultyView == INSTANCE AgentFs WITH store <- requestsStore, events <- viewEvents,
                       Kinds <- {"input", "queue", "prompt", "response", "ctl"},
                       RequestIds <- {0}, ActionIds <- {}, Values <- Contents,
                       NotText <- Bad, Parent <- ParentOf, Paths <- ViewPaths,
                       Root <- "r", Clients <- OneClient, MaxFaults <- 1

routePart == <<rules, pending, ports, log, version, installs, routeFids>>
editPart == <<body, tag, revision, addr, event, editFids, meant>>
branchPart == <<branches, selected, events, branchFids>>
memPart == <<store, files, nextGeneration, births, memFids, commits>>
hostPart == <<dir, temp, changes, active, hostFids, commit>>
storePart == <<blocks, nodes, roots, pinned>>
requestsPart == <<requests, actions, nextRequest, nextAction, docs, input, tape, tapeRoot,
                  outputRoot, requestsStore, tapeWriter, journal, told, fids>>
viewPart == <<proc, agents, root_pid, binder, viewEvents, viewFids, owner, live, op, lost,
              faults>>
routeOff == /\ rules = 0 /\ pending = 0 /\ ports = 0 /\ log = 0 /\ version = 0
            /\ installs = 0 /\ routeFids = 0
editOff == /\ body = 0 /\ tag = 0 /\ revision = 0 /\ addr = 0 /\ event = 0 /\ editFids = 0
           /\ meant = 0
branchOff == branches = 0 /\ selected = 0 /\ events = 0 /\ branchFids = 0
memOff == /\ store = 0 /\ files = 0 /\ nextGeneration = 0 /\ births = 0 /\ memFids = 0
          /\ commits = 0
hostOff == dir = 0 /\ temp = 0 /\ changes = 0 /\ active = 0 /\ hostFids = 0 /\ commit = 0
storeOff == blocks = 0 /\ nodes = 0 /\ roots = 0 /\ pinned = 0
requestsOff == /\ requests = 0 /\ actions = 0 /\ nextRequest = 0 /\ nextAction = 0
               /\ docs = 0 /\ input = 0 /\ tape = 0 /\ tapeRoot = 0 /\ outputRoot = 0
               /\ requestsStore = 0 /\ tapeWriter = 0 /\ journal = 0 /\ told = 0
               /\ fids = 0
viewOff == /\ proc = 0 /\ agents = 0 /\ root_pid = 0 /\ binder = 0 /\ viewEvents = 0
           /\ viewFids = 0 /\ owner = 0 /\ live = 0 /\ op = 0 /\ lost = 0 /\ faults = 0

MCInit ==
    /\ moves \in {"route", "edit", "branch", "mem", "host", "store", "requests",
                   "evidence", "view", "faulty"}
    /\ IF moves = "route" THEN Service!RouteInit ELSE routeOff
    /\ IF moves = "edit" THEN Service!EditInit ELSE editOff
    /\ IF moves = "branch" THEN Branches!BranchInit ELSE branchOff
    /\ IF moves = "mem" THEN Stores!MemInit ELSE memOff
    /\ IF moves = "host" THEN Stores!HostInit ELSE hostOff
    /\ IF moves = "store" THEN Stores!KnowledgeInit ELSE storeOff
    /\ IF moves = "requests" THEN Requests!TreeInit ELSE IF moves = "evidence" THEN Evidence!TreeInit ELSE requestsOff
    /\ IF moves = "view" THEN Requests!ViewInit ELSE IF moves = "faulty" THEN FaultyView!ViewInit ELSE viewOff

RouteOnly == moves = "route" /\ UNCHANGED <<moves, editPart, branchPart, memPart,
              hostPart, storePart, requestsPart, viewPart>>
EditOnly == moves = "edit" /\ UNCHANGED <<moves, routePart, branchPart, memPart, hostPart,
              storePart, requestsPart, viewPart>>
BranchOnly == moves = "branch" /\ UNCHANGED <<moves, routePart, editPart, memPart,
              hostPart, storePart, requestsPart, viewPart>>
MemOnly == moves = "mem" /\ UNCHANGED <<moves, routePart, editPart, branchPart, hostPart,
              storePart, requestsPart, viewPart>>
HostOnly == moves = "host" /\ UNCHANGED <<moves, routePart, editPart, branchPart, memPart,
              storePart, requestsPart, viewPart>>
StoreOnly == moves = "store" /\ UNCHANGED <<moves, routePart, editPart, branchPart,
              memPart, hostPart, requestsPart, viewPart>>
RequestsOnly == moves = "requests" /\ UNCHANGED <<moves, routePart, editPart, branchPart,
              memPart, hostPart, storePart, viewPart>>
EvidenceOnly == moves = "evidence" /\ UNCHANGED <<moves, routePart, editPart, branchPart,
              memPart, hostPart, storePart, viewPart>>
ViewOnly == moves = "view" /\ UNCHANGED <<moves, routePart, editPart, branchPart, memPart,
              hostPart, storePart, requestsPart>>
FaultyOnly == moves = "faulty" /\ UNCHANGED <<moves, routePart, editPart, branchPart,
              memPart, hostPart, storePart, requestsPart>>

RouteMoves == RouteOnly /\ Service!RouteNext
EditMoves == EditOnly /\ Service!EditNext
BranchMoves == BranchOnly /\ Branches!BranchNext
MemMoves == MemOnly /\ Stores!MemNext
HostMoves == HostOnly /\ Stores!HostNext
StoreMoves == StoreOnly /\ Stores!KnowledgeNext
RequestsMoves == RequestsOnly /\ Requests!TreeNext
EvidenceMoves == EvidenceOnly /\ Evidence!TreeNext
ViewMoves == ViewOnly /\ Requests!ViewNext
FaultyMoves == FaultyOnly /\ FaultyView!ViewNext

MCNext == \/ RouteMoves \/ EditMoves \/ BranchMoves \/ MemMoves \/ HostMoves \/ StoreMoves
          \/ RequestsMoves \/ EvidenceMoves \/ ViewMoves \/ FaultyMoves

mcVars == <<moves, routePart, editPart, branchPart, memPart, hostPart, storePart,
            requestsPart, viewPart>>

MCSpec == MCInit /\ [][MCNext]_mcVars


\* In every step of the trees: a fid changes or removes only the installation of
\* a rule it was walked to, a buffered write reaches only the file its fid was
\* walked to, a save to the host overwrites no save it has not seen, nothing
\* reaches the host directory once revoke has returned, and a request of an Agent
\* is decided once and its watchers are told.
TreesKeepWhatIsWritten ==
    [][/\ moves = "route" => Service!RuleUpdatesAreNotLost
       /\ moves = "mem" => Stores!SavesReachTheirFile
       /\ moves = "host" => Stores!SavesAreNotLost /\ Stores!RevokedIsFinal
       /\ moves = "requests" => Requests!DecidedOnce
       /\ moves = "evidence" => Evidence!DecidedOnce]_mcVars

Symmetry == Permutations(ViewFids) \cup Permutations(Clients) \cup Permutations(Backing)
=============================================================================
