------------------------------ MODULE AgentFs -------------------------------
(***************************************************************************)
(* The files of Agents: the tree of one Agent, and the view at /agent that *)
(* puts the trees of all of them together.                                 *)
(***************************************************************************)
EXTENDS Naturals, Sequences, SequencesExt, FiniteSets

-----------------------------------------------------------------------------
(***************************************************************************)
(* The file tree of one agent (crates/agentfs): io/input, machine/tape     *)
(* with its checkpoint, requests/, actions/ and the documents under        *)
(* machine/.  Every handler runs under the one state lock, so a handler is *)
(* a step; what interleaves are the fids of the engine, of its clients and *)
(* of the runtime that publishes, restores and expires.                    *)
(*                                                                         *)
(* A value is one content.  A root hash is the sequence of blocks it       *)
(* stands for and a block hash is its value: an action output equal to a   *)
(* tape record shares the record's block.  `told` is what a watcher knows  *)
(* who reads a request again whenever requests/events names it.  `Kinds`   *)
(* are the files a model opens: the requests and the evidence share only   *)
(* the lock.                                                               *)
(***************************************************************************)

CONSTANTS Fids, Kinds, RequestIds, ActionIds, Values, NotText, None, MaxTape, MaxInput

VARIABLES requests, actions, nextRequest, nextAction, docs, input,
          tape, tapeRoot, outputRoot, store, tapeWriter, journal, told, fids

treeVars == <<requests, actions, nextRequest, nextAction, docs, input,
              tape, tapeRoot, outputRoot, store, tapeWriter, journal, told, fids>>

\* machine/work is published by the runtime, machine/ui/queue by its fids.
Docs == {"work", "queue"}

Request(prompt) == [prompt |-> prompt, status |-> "pending", response |-> None]
Action == [result |-> None, stored |-> None, expired |-> FALSE]

TreeInit == /\ requests = [r \in RequestIds |-> None] /\ nextRequest = 0
            /\ actions = [a \in ActionIds |-> None] /\ nextAction = 0
            /\ docs = [d \in Docs |-> None]
            /\ input = <<>>
            /\ tape = <<>> /\ tapeRoot = <<>> /\ tapeWriter = None
            /\ outputRoot = [a \in ActionIds |-> None]
            /\ store = {}
            /\ journal = {}
            /\ told = requests
            /\ fids = [f \in Fids |-> None]

tapeVars == <<tape, tapeRoot, tapeWriter>>
evidenceVars == <<outputRoot, store, journal>>

IsTerminal(status) == status \in {"answered", "closed", "cancelled"}

\* A committed change of a request is announced on requests/events.
Announce == told' = requests'

Nodes == [kind : Kinds \cap {"input", "tape", "queue"}]
           \cup [kind : Kinds \cap {"prompt", "response", "ctl"}, id : RequestIds]
           \cup [kind : Kinds \cap {"result", "output"}, id : ActionIds]

\* The file is there to be walked to; requests and actions are never removed,
\* so that walk and open are one step.
Walkable(node) == /\ node.kind \in {"prompt", "response", "ctl"} => requests[node.id] # None
                  /\ node.kind \in {"result", "output"} => actions[node.id] # None

\* A write-open; the tape has one writer at a time.
Open(f, node) ==
  /\ fids[f] = None /\ Walkable(node)
  /\ node.kind = "tape" => tapeWriter = None
  /\ fids' = [fids EXCEPT ![f] = [node |-> node, doc |-> None]]
  /\ tapeWriter' = IF node.kind = "tape" THEN f ELSE tapeWriter
  /\ UNCHANGED <<requests, actions, nextRequest, nextAction, docs, input, tape, tapeRoot, evidenceVars, told>>

\* Opening requests/clone and actions/clone allocates; the fid then only reads
\* the id back, and is dropped here.
CloneRequest ==
  /\ nextRequest \in RequestIds
  /\ requests' = [requests EXCEPT ![nextRequest] = Request(None)]
  /\ nextRequest' = nextRequest + 1
  /\ Announce
  /\ UNCHANGED <<actions, nextAction, docs, input, tapeVars, evidenceVars, fids>>

CloneAction ==
  /\ nextAction \in ActionIds
  /\ actions' = [actions EXCEPT ![nextAction] = Action]
  /\ nextAction' = nextAction + 1
  /\ UNCHANGED <<requests, nextRequest, docs, input, tapeVars, evidenceVars, told, fids>>

\* Buffered until the clunk.
Write(f, value) ==
  /\ fids[f] # None /\ fids[f].node.kind \notin {"tape", "ctl"}
  /\ fids' = [fids EXCEPT ![f].doc = value]
  /\ UNCHANGED <<requests, actions, nextRequest, nextAction, docs, input, tapeVars, evidenceVars, told>>

\* append_tape_block, then the live stream
WriteTape(f, value) ==
  /\ fids[f] # None /\ fids[f].node.kind = "tape" /\ Len(tape) < MaxTape
  /\ store' = store \cup {value}
  /\ tapeRoot' = Append(tapeRoot, value)
  /\ tape' = Append(tape, value)
  /\ UNCHANGED <<requests, actions, nextRequest, nextAction, docs, input, tapeWriter, outputRoot, journal, told, fids>>

\* Mutant: a cancellation overtakes an answer that was already given.
MutWriteCtl(f) ==
  /\ fids[f] # None /\ fids[f].node.kind = "ctl"
  /\ requests' = [requests EXCEPT ![fids[f].node.id].status = "cancelled"]
  /\ Announce
  /\ UNCHANGED <<actions, nextRequest, nextAction, docs, input, tapeVars, evidenceVars, fids>>

\* `cancel`: a request that was decided is left as it is, and the write succeeds.
WriteCtl(f) ==
  /\ fids[f] # None /\ fids[f].node.kind = "ctl"
  /\ LET id == fids[f].node.id
     IN /\ requests[id].status = "pending"
        /\ requests' = [requests EXCEPT ![id].status = "cancelled"]
        /\ Announce
  /\ UNCHANGED <<actions, nextRequest, nextAction, docs, input, tapeVars, evidenceVars, fids>>

ReleaseBlocks(f) == fids' = [fids EXCEPT ![f] = None]

\* The clunks that commit nothing: no document, one that is not text, a request
\* that was decided, an output that was stored or has expired.
ClunkIdle(f) ==
  /\ fids[f] # None
  /\ LET node == fids[f].node
     IN \/ fids[f].doc = None
        \/ fids[f].doc = NotText /\ node.kind # "input"
        \/ node.kind \in {"prompt", "response"} /\ IsTerminal(requests[node.id].status)
        \/ node.kind = "output" /\ (actions[node.id].stored # None \/ actions[node.id].expired)
  /\ tapeWriter' = IF tapeWriter = f THEN None ELSE tapeWriter
  /\ ReleaseBlocks(f)
  /\ UNCHANGED <<requests, actions, nextRequest, nextAction, docs, input, tape, tapeRoot, evidenceVars, told>>

\* The document becomes one framed message of io/input.
ClunkInput(f) ==
  /\ fids[f] # None /\ fids[f].node.kind = "input" /\ fids[f].doc # None
  /\ Len(input) < MaxInput
  /\ input' = Append(input, fids[f].doc)
  /\ ReleaseBlocks(f)
  /\ UNCHANGED <<requests, actions, nextRequest, nextAction, docs, tapeVars, evidenceVars, told>>

ClunkRequest(f) ==
  /\ fids[f] # None /\ fids[f].node.kind \in {"prompt", "response"} /\ fids[f].doc \in Values
  /\ LET node == fids[f].node
     IN /\ ~IsTerminal(requests[node.id].status)
        /\ requests' = [requests EXCEPT ![node.id] =
                          IF node.kind = "prompt" THEN [@ EXCEPT !.prompt = fids[f].doc]
                          ELSE [@ EXCEPT !.response = fids[f].doc, !.status = "answered"]]
  /\ Announce
  /\ ReleaseBlocks(f)
  /\ UNCHANGED <<actions, nextRequest, nextAction, docs, input, tapeVars, evidenceVars>>

\* store_action_output
ClunkOutput(f) ==
  /\ fids[f] # None /\ fids[f].node.kind = "output" /\ fids[f].doc \in Values
  /\ LET id == fids[f].node.id
     IN /\ actions[id].stored = None /\ ~actions[id].expired
        /\ store' = store \cup {fids[f].doc}
        /\ outputRoot' = [outputRoot EXCEPT ![id] = fids[f].doc]
        /\ actions' = [actions EXCEPT ![id].stored = fids[f].doc, ![id].expired = FALSE]
  /\ ReleaseBlocks(f)
  /\ UNCHANGED <<requests, nextRequest, nextAction, docs, input, tapeVars, journal, told>>

ClunkResult(f) ==
  /\ fids[f] # None /\ fids[f].node.kind = "result" /\ fids[f].doc \in Values
  /\ actions' = [actions EXCEPT ![fids[f].node.id].result = fids[f].doc]
  /\ ReleaseBlocks(f)
  /\ UNCHANGED <<requests, nextRequest, nextAction, docs, input, tapeVars, evidenceVars, told>>

ClunkDoc(f) ==
  /\ fids[f] # None /\ fids[f].node.kind = "queue" /\ fids[f].doc \in Values
  /\ docs' = [docs EXCEPT !["queue"] = fids[f].doc]
  /\ ReleaseBlocks(f)
  /\ UNCHANGED <<requests, actions, nextRequest, nextAction, input, tapeVars, evidenceVars, told>>

\* publish_work and publish_evaluation_observation
PublishWork(value) ==
  /\ docs' = [docs EXCEPT !["work"] = value]
  /\ UNCHANGED <<requests, actions, nextRequest, nextAction, input, tapeVars, evidenceVars, told, fids>>

\* A request that is there already is not rewritten.
RestoreRequest(id, prompt) ==
  /\ requests[id] = None
  /\ requests' = [requests EXCEPT ![id] = Request(prompt)]
  /\ nextRequest' = IF nextRequest > id + 1 THEN nextRequest ELSE id + 1
  /\ Announce
  /\ UNCHANGED <<actions, nextAction, docs, input, tapeVars, evidenceVars, fids>>

Live(outputs) == Range(tapeRoot) \cup {outputs[a] : a \in ActionIds}

\* Mutant: the blocks of the expired root go, whoever else holds them.
MutExpire(id) ==
  /\ actions[id] # None /\ outputRoot[id] # None
  /\ journal' = journal \cup {id}
  /\ outputRoot' = [outputRoot EXCEPT ![id] = None]
  /\ store' = store \ {outputRoot[id]}
  /\ actions' = [actions EXCEPT ![id].stored = None, ![id].expired = TRUE]
  /\ UNCHANGED <<requests, nextRequest, nextAction, docs, input, tapeVars, told, fids>>

\* expire_action_output_for_retention: the runtime's journal first, then the root
\* is unbound and what nothing reaches is collected.
Expire(id) ==
  /\ actions[id] # None /\ outputRoot[id] # None
  /\ journal' = journal \cup {id}
  /\ outputRoot' = [outputRoot EXCEPT ![id] = None]
  /\ store' = store \cap Live(outputRoot')
  /\ actions' = [actions EXCEPT ![id].stored = None, ![id].expired = TRUE]
  /\ UNCHANGED <<requests, nextRequest, nextAction, docs, input, tapeVars, told, fids>>

\* Nothing was stored, or it has expired before: the journal is written all the
\* same, then unbind_root fails.
ExpireNothing(id) ==
  /\ actions[id] # None /\ outputRoot[id] = None
  /\ journal' = journal \cup {id}
  /\ UNCHANGED <<requests, actions, nextRequest, nextAction, docs, input, tapeVars, outputRoot, store, told, fids>>

TreeNext == \/ CloneRequest \/ CloneAction
            \/ \E v \in Values : PublishWork(v)
            \/ \E id \in RequestIds, v \in Values : RestoreRequest(id, v)
            \/ \E id \in ActionIds : Expire(id) \/ ExpireNothing(id)
            \/ \E f \in Fids : \/ \E node \in Nodes : Open(f, node)
                               \/ \E v \in Values \cup {NotText} : Write(f, v)
                               \/ \E v \in Values : WriteTape(f, v)
                               \/ WriteCtl(f) \/ ClunkIdle(f) \/ ClunkInput(f) \/ ClunkRequest(f)
                               \/ ClunkOutput(f) \/ ClunkResult(f) \/ ClunkDoc(f)

TreeSpec == TreeInit /\ [][TreeNext]_treeVars

\* What the agent may have to show later can be shown: every block of the tape's
\* checkpoint and of an output that has not expired is in the store, whatever was
\* collected in between; the checkpoint is what tape readers were sent, by one
\* writer at a time; and an output is shown as expired only when the journal has
\* it (append_tape_block, store_action_output, expire_action_output_for_retention).
EvidenceIsKept ==
  /\ tape = tapeRoot
  /\ Range(tapeRoot) \subseteq store
  /\ {f \in Fids : fids[f] # None /\ fids[f].node.kind = "tape"} = {tapeWriter} \ {None}
  /\ \A a \in ActionIds : actions[a] # None =>
       /\ actions[a].stored = outputRoot[a]
       /\ outputRoot[a] # None => outputRoot[a] \in store
       /\ actions[a].expired => a \in journal /\ outputRoot[a] = None

\* A request is decided once: from the answer or the cancellation on, its prompt,
\* its answer and its status stay, whichever fids were open on it, and its id is
\* never given to another request, restored ones included (clunk,
\* write_request_control, restore_pending_request).  An output that has expired
\* is never written again.  And whoever follows requests/events has every change.
DecidedOnce ==
  /\ \A r \in RequestIds : requests[r] # None =>
       /\ IsTerminal(requests[r].status) => requests'[r] = requests[r]
       /\ requests[r].prompt # None => requests'[r].prompt # None
  /\ \A a \in ActionIds : (actions[a] # None /\ actions[a].expired) => actions'[a].expired
  /\ told' = requests'

-----------------------------------------------------------------------------
(***************************************************************************)
(* The view at /agent: the trees of the registered Agents whose process is *)
(* still in /proc, /agent/root for the Root Agent, <pid>/children for the  *)
(* children of an Agent, and the files of /proc/<pid> laid over the tree.  *)
(* The view keeps a table of its own fids; each one of a file holds one    *)
(* fid of the Agent's tree or of /proc.  Every call to those servers is a  *)
(* step of its own: another client, a binding, or an exit may come between.*)
(***************************************************************************)

CONSTANTS
    Pids,           \* the processes, by name
    Parent,         \* the parent of each, or None
    Root,           \* the Root Agent Process
    Clients,
    ViewFids,       \* the fids of the clients
    Backing,        \* fids the view uses with the servers behind it
    Paths,          \* the paths the clients walk
    MaxFaults       \* calls to a server behind the view that fail

VARIABLES
    proc,           \* the processes in /proc
    agents,         \* the registered Agents
    root_pid,
    binder,         \* how far the registration of each process is
    events,         \* the child events each Agent's tree has been told
    viewFids,           \* the table of the view
    owner,          \* the client that walked to a fid
    live,           \* the server that holds each fid of the view, or None
    op,             \* the call each client is in
    lost,           \* fids left behind by a listing that failed
    faults

viewVars == <<proc, agents, root_pid, binder, events, viewFids, owner, live, op, lost, faults>>

NoNode == [kind |-> None, pid |-> None, at |-> None]
Node(kind, pid, at) == [kind |-> kind, pid |-> pid, at |-> at]
Idle == [pc |-> "idle", fid |-> None, name |-> None, under |-> None,
         rest |-> <<>>, pid |-> None, node |-> NoNode]

ProcOverlay == {"status", "parent", "exit", "ctl", "io"}
Reserved == ProcOverlay \cup {"children"}

IsFile(n) == n.kind \in {"AgentFile", "ProcFile"}

Free == {b \in Backing : live[b] = None}

\* Every fid of the view a table entry or a call stands for.
Held(n) == IF IsFile(n) THEN {n.at} ELSE {}

ViewInit ==
    /\ proc = {} /\ agents = {} /\ root_pid = None
    /\ binder = [p \in Pids |-> "none"]
    /\ events = [p \in Pids |-> <<>>]
    /\ viewFids = [f \in ViewFids |-> NoNode] /\ owner = [f \in ViewFids |-> None]
    /\ live = [b \in Backing |-> None]
    /\ op = [c \in Clients |-> Idle]
    /\ lost = {} /\ faults = 0

tableVars == <<viewFids, owner, live, op, lost, faults>>

\* Registration ----------------------------------------------------------------------

Spawn(p) ==
    /\ binder[p] = "none" /\ p \notin proc
    /\ Parent[p] = None \/ Parent[p] \in proc
    /\ proc' = proc \cup {p}
    /\ binder' = [binder EXCEPT ![p] = "spawned"]
    /\ UNCHANGED <<agents, root_pid, events, tableVars>>

Exit(p) ==
    /\ p \in proc
    /\ proc' = proc \ {p}
    /\ UNCHANGED <<agents, root_pid, binder, events, tableVars>>

\* bind_process reads the parent from /proc, then registers under the lock.
ReadParent(p) ==
    /\ binder[p] = "spawned"
    /\ binder' = [binder EXCEPT ![p] = IF p \in proc /\ Parent[p] /= None
                                       THEN "child" ELSE "alone"]
    /\ UNCHANGED <<proc, agents, root_pid, events, tableVars>>

Register(p) ==
    /\ binder[p] \in {"child", "alone"}
    /\ agents' = agents \cup {p}
    /\ binder' = [binder EXCEPT ![p] = IF @ = "child" /\ Parent[p] \in agents
                                       THEN "telling" ELSE "bound"]
    /\ UNCHANGED <<proc, root_pid, events, tableVars>>

\* The parent's tree is told outside of the lock.
append_child_event(p) ==
    /\ binder[p] = "telling"
    /\ events' = [events EXCEPT ![Parent[p]] = Append(@, p)]
    /\ binder' = [binder EXCEPT ![p] = "told"]
    /\ UNCHANGED <<proc, agents, root_pid, tableVars>>

set_root_process(p) ==
    /\ p = Root /\ binder[p] \in {"bound", "told"} /\ p \in agents
    /\ root_pid' = p
    /\ UNCHANGED <<proc, agents, binder, events, tableVars>>

unbind_process(p) ==
    /\ binder[p] \in {"bound", "told"} /\ p \in agents
    /\ agents' = agents \ {p}
    /\ root_pid' = IF root_pid = p THEN None ELSE root_pid
    /\ UNCHANGED <<proc, binder, events, tableVars>>

\* Walks ------------------------------------------------------------------------------

Become(c, o) == op' = [op EXCEPT ![c] = o]
Fail(c) == Become(c, Idle)

regVars == <<proc, agents, root_pid, binder, events>>

\* Where a walk below an Agent leads: bind_agent_walk and bind_agent_child_walk.
bind_agent_child_walk(o, pid, names) ==
    CASE names = <<>> -> [o EXCEPT !.pc = "qid", !.node = Node("AgentChildren", pid, None)]
      [] names /= <<>> /\ Head(names) = "root" -> Idle
      [] OTHER -> [o EXCEPT !.pc = "entry", !.name = Head(names), !.under = pid,
                            !.rest = Tail(names)]

bind_agent_walk(o, pid, names) ==
    CASE names = <<>> -> [o EXCEPT !.pc = "qid", !.node = Node("AgentRoot", pid, None)]
      [] names /= <<>> /\ Head(names) = "children" -> bind_agent_child_walk(o, pid, Tail(names))
      [] names /= <<>> /\ Head(names) \in ProcOverlay ->
            [o EXCEPT !.pc = "proc", !.pid = pid]
      [] OTHER -> [o EXCEPT !.pc = "tree", !.pid = pid]

\* The first check of a walk is only that the new fid is free now.
Walk(c, from, f, names) ==
    LET base == IF from = None THEN Node("Root", None, None) ELSE viewFids[from]
        o == [Idle EXCEPT !.fid = f]
    IN  /\ op[c].pc = "idle" /\ viewFids[f] = NoNode
        /\ from /= None => owner[from] = c
        /\ CASE base.kind = "Root" ->
                  Become(c, IF names = <<>> THEN [o EXCEPT !.pc = "qid", !.node = base]
                            ELSE [o EXCEPT !.pc = "entry", !.name = Head(names),
                                           !.rest = Tail(names)])
             [] base.kind = "AgentRoot"     -> Become(c, bind_agent_walk(o, base.pid, names))
             [] base.kind = "AgentChildren" -> Become(c, bind_agent_child_walk(o, base.pid, names))
             [] base.kind = "AgentFile" -> Become(c, [o EXCEPT !.pc = "tree", !.pid = base.pid])
             [] base.kind = "ProcFile"  -> Become(c, [o EXCEPT !.pc = "proc", !.pid = base.pid])
        /\ UNCHANGED <<regVars, viewFids, owner, live, lost, faults>>

\* entry_for_name: the registration under the lock, the process in /proc after it.
LookUp(c) ==
    LET o == op[c]
        pid == IF o.name = "root" THEN root_pid ELSE o.name
    IN  /\ o.pc = "entry"
        /\ Become(c, IF pid \in agents THEN [o EXCEPT !.pc = "alive", !.pid = pid] ELSE Idle)
        /\ UNCHANGED <<regVars, viewFids, owner, live, lost, faults>>

proc_has_pid(c) ==
    LET o == op[c]
    IN  /\ o.pc = "alive"
        /\ Become(c, IF o.pid \notin proc THEN Idle
                     ELSE IF o.under /= None THEN [o EXCEPT !.pc = "parent"]
                     ELSE bind_agent_walk(o, o.pid, o.rest))
        /\ UNCHANGED <<regVars, viewFids, owner, live, lost, faults>>

proc_parent_matches(c) ==
    LET o == op[c]
    IN  /\ o.pc = "parent"
        /\ Become(c, IF o.pid \in proc /\ Parent[o.pid] = o.under
                     THEN bind_agent_walk([o EXCEPT !.under = None], o.pid, o.rest) ELSE Idle)
        /\ UNCHANGED <<regVars, viewFids, owner, live, lost, faults>>

Broken == faults < MaxFaults /\ faults' = faults + 1

\* A walk in the Agent's tree or in /proc takes a fid there, or none if it fails.
WalkTree(c) ==
    LET o == op[c]
    IN  /\ o.pc = "tree"
        /\ \/ \E b \in Free :
                 /\ live' = [live EXCEPT ![b] = o.pid]
                 /\ Become(c, [o EXCEPT !.pc = "qid", !.node = Node("AgentFile", o.pid, b)])
                 /\ UNCHANGED faults
           \/ Broken /\ Fail(c) /\ UNCHANGED live
        /\ UNCHANGED <<regVars, viewFids, owner, lost>>

WalkProc(c) ==
    LET o == op[c]
    IN  /\ o.pc = "proc"
        /\ \/ \E b \in Free :
                 /\ o.pid \in proc
                 /\ live' = [live EXCEPT ![b] = "proc"]
                 /\ Become(c, [o EXCEPT !.pc = "qid", !.node = Node("ProcFile", o.pid, b)])
           \/ o.pid \notin proc /\ Fail(c) /\ UNCHANGED live
        /\ UNCHANGED <<regVars, viewFids, owner, lost, faults>>

\* release_node, and the clunk of a fid of the view.
ReleaseFid(n) == live' = [b \in Backing |-> IF b \in Held(n) THEN None ELSE live[b]]

\* A stat that fails (the process has left /proc, or a fault) gives the node back.
qid_for_node(c) ==
    LET o == op[c]
    IN  /\ o.pc = "qid"
        /\ \/ Become(c, [o EXCEPT !.pc = "insert"]) /\ UNCHANGED <<live, faults>>
           \/ /\ Broken \/ (o.node.kind = "ProcFile" /\ o.pid \notin proc /\ UNCHANGED faults)
              /\ ReleaseFid(o.node) /\ Fail(c)
        /\ UNCHANGED <<regVars, viewFids, owner, lost>>

\* The new fid may have been taken since the first check.
MutInsertFid(c) ==
    LET o == op[c]
    IN  /\ o.pc = "insert"
        /\ IF viewFids[o.fid] /= NoNode THEN UNCHANGED <<viewFids, owner, live>>
           ELSE /\ viewFids' = [viewFids EXCEPT ![o.fid] = o.node]
                /\ owner' = [owner EXCEPT ![o.fid] = c]
                /\ UNCHANGED live
        /\ Fail(c)
        /\ UNCHANGED <<regVars, lost, faults>>

InsertFid(c) ==
    LET o == op[c]
    IN  /\ o.pc = "insert"
        /\ IF viewFids[o.fid] /= NoNode THEN ReleaseFid(o.node) /\ UNCHANGED <<viewFids, owner>>
           ELSE /\ viewFids' = [viewFids EXCEPT ![o.fid] = o.node]
                /\ owner' = [owner EXCEPT ![o.fid] = c]
                /\ UNCHANGED live
        /\ Fail(c)
        /\ UNCHANGED <<regVars, lost, faults>>

\* Creation ------------------------------------------------------------------------------

\* A new file below an Agent's root or a directory of its tree; its fid is
\* inserted like that of a walk and undone with the file when it is taken.
Create(c, from, f, name) ==
    LET base == viewFids[from]
    IN  /\ op[c].pc = "idle" /\ viewFids[f] = NoNode /\ owner[from] = c
        /\ base.kind = "AgentRoot" => name \notin Reserved
        /\ base.kind \in {"AgentRoot", "AgentFile"}
        /\ \/ \E b \in Free :
                 /\ live' = [live EXCEPT ![b] = base.pid]
                 /\ Become(c, [Idle EXCEPT !.pc = "insert", !.fid = f, !.pid = base.pid,
                                           !.node = Node("AgentFile", base.pid, b)])
                 /\ UNCHANGED faults
           \/ Broken /\ UNCHANGED <<live, op>>
        /\ UNCHANGED <<regVars, viewFids, owner, lost>>

\* Listings --------------------------------------------------------------------------------

\* read_listing of the Agent's tree, then of /proc/<pid>: a fid is walked, opened,
\* measured, read and clunked; a failed open or stat returns before the clunk.
List(c, f) ==
    /\ op[c].pc = "idle" /\ owner[f] = c /\ viewFids[f].kind = "AgentRoot"
    /\ Become(c, [Idle EXCEPT !.pc = "list", !.pid = viewFids[f].pid, !.name = viewFids[f].pid])
    /\ UNCHANGED <<regVars, viewFids, owner, live, lost, faults>>

ListingWalk(c) ==
    LET o == op[c]
    IN  /\ o.pc = "list"
        /\ \/ \E b \in Free :
                 /\ o.name = "proc" => o.pid \in proc
                 /\ live' = [live EXCEPT ![b] = o.name]
                 /\ Become(c, [o EXCEPT !.pc = "listing", !.node = Node("AgentFile", o.pid, b)])
           \/ o.name = "proc" /\ o.pid \notin proc /\ Fail(c) /\ UNCHANGED live
        /\ UNCHANGED <<regVars, viewFids, owner, lost, faults>>

ListingRead(c) ==
    LET o == op[c]
    IN  /\ o.pc = "listing"
        /\ \/ /\ ReleaseFid(o.node)
              /\ Become(c, IF o.name = "proc" THEN Idle
                           ELSE [o EXCEPT !.pc = "list", !.name = "proc", !.node = NoNode])
              /\ UNCHANGED <<lost, faults>>
           \/ Broken /\ lost' = lost \cup {o.node.at} /\ Fail(c) /\ UNCHANGED live
        /\ UNCHANGED <<regVars, viewFids, owner>>

\* Clunk and remove ------------------------------------------------------------------------

\* The entry goes under the lock, the fid behind it after that.
Clunk(c, f) ==
    /\ op[c].pc = "idle" /\ owner[f] = c /\ viewFids[f] /= NoNode
    /\ viewFids' = [viewFids EXCEPT ![f] = NoNode] /\ owner' = [owner EXCEPT ![f] = None]
    /\ Become(c, [Idle EXCEPT !.pc = "clunk", !.node = viewFids[f]])
    /\ UNCHANGED <<regVars, live, lost, faults>>

ClunkBehind(c) ==
    /\ op[c].pc = "clunk"
    /\ ReleaseFid(op[c].node) /\ Fail(c)
    /\ UNCHANGED <<regVars, viewFids, owner, lost, faults>>

\* The file first, and only when that has succeeded the entry.
RemoveFile(c, f) ==
    /\ op[c].pc = "idle" /\ owner[f] = c /\ viewFids[f].kind = "AgentFile"
    /\ \/ ReleaseFid(viewFids[f]) /\ Become(c, [Idle EXCEPT !.pc = "removed", !.fid = f]) /\ UNCHANGED faults
       \/ Broken /\ UNCHANGED <<live, op>>
    /\ UNCHANGED <<regVars, viewFids, owner, lost>>

Forget(c) ==
    LET f == op[c].fid
    IN  /\ op[c].pc = "removed"
        /\ viewFids' = [viewFids EXCEPT ![f] = NoNode] /\ owner' = [owner EXCEPT ![f] = None]
        /\ Fail(c)
        /\ UNCHANGED <<regVars, live, lost, faults>>

ViewNext ==
    \/ \E p \in Pids :
          \/ Spawn(p) \/ Exit(p) \/ ReadParent(p) \/ Register(p) \/ append_child_event(p)
          \/ set_root_process(p) \/ unbind_process(p)
    \/ \E c \in Clients :
          \/ \E from \in ViewFids \cup {None}, f \in ViewFids, names \in Paths : Walk(c, from, f, names)
          \/ LookUp(c) \/ proc_has_pid(c) \/ proc_parent_matches(c)
          \/ WalkTree(c) \/ WalkProc(c) \/ qid_for_node(c) \/ InsertFid(c)
          \/ \E from, f \in ViewFids : Create(c, from, f, "new")
          \/ \E f \in ViewFids : List(c, f) \/ Clunk(c, f) \/ RemoveFile(c, f)
          \/ ListingWalk(c) \/ ListingRead(c) \/ ClunkBehind(c) \/ Forget(c)

ViewSpec == ViewInit /\ [][ViewNext]_viewVars

\* Properties --------------------------------------------------------------------------------

\* Who holds a fid of the view: an entry of the table or a call on its way.  The
\* entry of a file just removed stands for nothing any more.
Removed(f) == \E c \in Clients : op[c].pc = "removed" /\ op[c].fid = f

Holders(b) ==
    {<<"fid", f>> : f \in {g \in ViewFids : b \in Held(viewFids[g]) /\ ~Removed(g)}}
    \cup {<<"op", c>> : c \in {d \in Clients : b \in Held(op[d].node)}}

\* Every fid the view has taken in an Agent's tree or in /proc is held by exactly
\* one entry of its table or one call, is of the server its node names, and no
\* fid is given back while something holds it: whatever walks, creations,
\* listings, clunks, removals, exits and failures interleave, the servers behind
\* the view see neither a leak nor a use after clunk.  Only a listing that fails
\* after its walk leaves its fid behind.  And an Agent's tree is told of each of
\* its children once.
AgentTreeIsHeld ==
    /\ \A b \in Backing :
          IF live[b] = None THEN Holders(b) = {}
          ELSE IF b \in lost THEN Holders(b) = {} ELSE Cardinality(Holders(b)) = 1
    /\ \A f \in ViewFids :
          IsFile(viewFids[f]) /\ ~Removed(f) =>
             live[viewFids[f].at] = IF viewFids[f].kind = "ProcFile" THEN "proc" ELSE viewFids[f].pid
    /\ \A p \in Pids : \A i, j \in DOMAIN events[p] :
          /\ Parent[events[p][i]] = p
          /\ i /= j => events[p][i] /= events[p][j]
=============================================================================
