--------------------------- MODULE ServiceTrees -----------------------------
(***************************************************************************)
(* Three file trees the Services of an Agent publish: routes, the edit     *)
(* buffer and branches.                                                    *)
(***************************************************************************)
EXTENDS Naturals, Sequences, FiniteSets

-----------------------------------------------------------------------------
(***************************************************************************)
(* The message router (crates/routefs).  A message document clunked on     *)
(* `send` goes to the port of the first matching rule, in name order, or   *)
(* to the dead letters.  Rules are files: a writer walks to one, opens it, *)
(* writes it and commits by clunking; a rule is created under a reserved   *)
(* name.  Every operation holds the server's lock from beginning to end,   *)
(* so the hazard is between the operations of one fid.                     *)
(*                                                                         *)
(* A rule's document is abstracted to the messages it matches and its      *)
(* port; Bad stands for a document that does not parse or validate.  The   *)
(* stamp of a rule and `saw` of a fid are history: which installation of   *)
(* the name exists, and which one the fid was walked to (0 for none).      *)
(***************************************************************************)

CONSTANTS Fids, Names, Specs, Messages, Bad, DeadLetter, None, MaxInstalls, MaxSends

VARIABLES rules, pending, ports, log, version, installs, routeFids

routeVars == <<rules, pending, ports, log, version, installs, routeFids>>

\* Rules are numbered in the order of their names; Send is the `send` file.
Send == 0

RouteInit == /\ rules = [n \in Names |-> None]
             /\ pending = {}
             /\ ports = [p \in {DeadLetter} |-> <<>>]
             /\ log = <<>>
             /\ version = [n \in Names |-> 0]
             /\ installs = 0
             /\ routeFids = [f \in Fids |-> None]

\* RouteFid::at and RouteFid::pending_rule
At(node, saw) == [node |-> node, open |-> FALSE, doc |-> None, pending |-> FALSE,
                  observed |-> IF node \in Names THEN version[node] ELSE 0, saw |-> saw]
PendingAt(name) == [At(name, 0) EXCEPT !.pending = TRUE]

Stamp(n) == IF rules[n] = None THEN 0 ELSE rules[n].stamp

\* ensure_current_rule_fid
Current(fid) == \/ fid.pending
                \/ rules[fid.node] # None /\ fid.observed = version[fid.node]

RouteWalk(f, node) == /\ routeFids[f] = None
                      /\ node \in Names => rules[node] # None
                      /\ routeFids' = [routeFids EXCEPT ![f] = At(node, IF node \in Names THEN Stamp(node) ELSE 0)]
                      /\ UNCHANGED <<rules, pending, ports, log, version, installs>>

\* A clone of a fid: the walk with no names reaches the same node, which need
\* not exist any more, and observes its current version.
Clone(f, g) == /\ routeFids[f] = None /\ routeFids[g] # None
               /\ routeFids' = [routeFids EXCEPT ![f] =
                             At(routeFids[g].node, IF routeFids[g].node \in Names THEN Stamp(routeFids[g].node) ELSE 0)]
               /\ UNCHANGED <<rules, pending, ports, log, version, installs>>

Create(f, n) == /\ routeFids[f] = None /\ rules[n] = None /\ n \notin pending
                /\ pending' = pending \cup {n}
                /\ routeFids' = [routeFids EXCEPT ![f] = PendingAt(n)]
                /\ UNCHANGED <<rules, ports, log, version, installs>>

RouteOpen(f) == /\ routeFids[f] # None /\ ~routeFids[f].open
                /\ routeFids[f].node \in Names => Current(routeFids[f])
                /\ routeFids' = [routeFids EXCEPT ![f].open = TRUE]
                /\ UNCHANGED <<rules, pending, ports, log, version, installs>>

RouteWrite(f) == /\ routeFids[f] # None /\ routeFids[f].open
                 /\ routeFids[f].node \in Names => Current(routeFids[f])
                 /\ \E doc \in {Bad} \cup (IF routeFids[f].node \in Names THEN Specs ELSE Messages) :
                      routeFids' = [routeFids EXCEPT ![f].doc = doc]
                 /\ UNCHANGED <<rules, pending, ports, log, version, installs>>

\* ensure_port
WithPort(p) == IF p \in DOMAIN ports THEN ports
               ELSE [q \in DOMAIN ports \cup {p} |-> IF q = p THEN <<>> ELSE ports[q]]

\* install_rule, given the names still reserved
Install(n, spec, reserved) ==
  IF n \in reserved \/ spec = Bad
  THEN UNCHANGED <<rules, ports, version, installs>>
  ELSE /\ installs < MaxInstalls
       /\ installs' = installs + 1
       /\ rules' = [rules EXCEPT ![n] = [spec |-> spec, stamp |-> installs + 1]]
       /\ ports' = WithPort(spec.port)
       /\ version' = [version EXCEPT ![n] = @ + 1]

\* RouteFs::install_rule: bootstrap code needs no fid.
InstallRule(n, spec) == /\ n \notin pending
                        /\ Install(n, spec, pending)
                        /\ UNCHANGED <<pending, log, routeFids>>

\* route_message
First(msg) == {n \in Names : /\ rules[n] # None /\ msg \in rules[n].spec.hits
                             /\ \A k \in Names : k < n => rules[k] = None \/ msg \notin rules[k].spec.hits}
Route(msg) ==
  LET port == IF First(msg) = {} THEN DeadLetter ELSE rules[CHOOSE n \in First(msg) : TRUE].spec.port
      record == [msg |-> msg, port |-> port]
      known == WithPort(port)
  IN /\ Len(log) < MaxSends
     /\ ports' = [known EXCEPT ![port] = Append(@, record)]
     /\ log' = Append(log, record)

RouteClunkIdle(f) == /\ routeFids[f] # None /\ routeFids[f].doc = None
                     /\ pending' = IF routeFids[f].pending THEN pending \ {routeFids[f].node} ELSE pending
                     /\ routeFids' = [routeFids EXCEPT ![f] = None]
                     /\ UNCHANGED <<rules, ports, log, version, installs>>

ClunkSend(f) == /\ routeFids[f] # None /\ routeFids[f].doc # None /\ routeFids[f].node \notin Names
                /\ IF routeFids[f].doc = Bad THEN UNCHANGED <<ports, log>> ELSE Route(routeFids[f].doc)
                /\ routeFids' = [routeFids EXCEPT ![f] = None]
                /\ UNCHANGED <<rules, pending, version, installs>>

\* Mutant: a document that does not parse leaves the reservation behind.
MutClunkCreated(f) == /\ routeFids[f] # None /\ routeFids[f].doc # None /\ routeFids[f].pending
                      /\ pending' = IF routeFids[f].doc = Bad THEN pending ELSE pending \ {routeFids[f].node}
                      /\ Install(routeFids[f].node, routeFids[f].doc, pending')
                      /\ routeFids' = [routeFids EXCEPT ![f] = None]
                      /\ UNCHANGED log

ClunkCreated(f) == /\ routeFids[f] # None /\ routeFids[f].doc # None /\ routeFids[f].pending
                   /\ pending' = pending \ {routeFids[f].node}
                   /\ Install(routeFids[f].node, routeFids[f].doc, pending')
                   /\ routeFids' = [routeFids EXCEPT ![f] = None]
                   /\ UNCHANGED log

\* Mutant: the commit trusts the check that open and write made.
MutClunkRule(f) == /\ routeFids[f] # None /\ routeFids[f].doc # None /\ routeFids[f].node \in Names /\ ~routeFids[f].pending
                   /\ Install(routeFids[f].node, routeFids[f].doc, pending)
                   /\ routeFids' = [routeFids EXCEPT ![f] = None]
                   /\ UNCHANGED <<pending, log>>

ClunkRule(f) == /\ routeFids[f] # None /\ routeFids[f].doc # None /\ routeFids[f].node \in Names /\ ~routeFids[f].pending
                /\ IF Current(routeFids[f]) THEN Install(routeFids[f].node, routeFids[f].doc, pending)
                   ELSE UNCHANGED <<rules, ports, version, installs>>
                /\ routeFids' = [routeFids EXCEPT ![f] = None]
                /\ UNCHANGED <<pending, log>>

\* A removal leaves the version of the name alone.
Remove(f) == /\ routeFids[f] # None /\ routeFids[f].node \in Names
             /\ IF routeFids[f].pending
                THEN /\ routeFids[f].node \in pending
                     /\ pending' = pending \ {routeFids[f].node}
                     /\ UNCHANGED rules
                ELSE /\ Current(routeFids[f])
                     /\ rules' = [rules EXCEPT ![routeFids[f].node] = None]
                     /\ UNCHANGED pending
             /\ routeFids' = [routeFids EXCEPT ![f] = None]
             /\ UNCHANGED <<ports, log, version, installs>>

RouteNext == \/ \E f \in Fids :
                  \/ \E node \in Names \cup {Send} : RouteWalk(f, node)
                  \/ \E g \in Fids : Clone(f, g)
                  \/ \E n \in Names : Create(f, n)
                  \/ RouteOpen(f) \/ RouteWrite(f)
                  \/ RouteClunkIdle(f) \/ ClunkSend(f) \/ ClunkCreated(f) \/ ClunkRule(f) \/ Remove(f)
             \/ \E n \in Names, spec \in Specs : InstallRule(n, spec)

RouteSpec == RouteInit /\ [][RouteNext]_routeVars

\* A fid changes or removes a rule only while the installation it was walked to
\* is the one in place; a created rule never lands on another one
\* (ensure_current_rule_fid, commit_pending_rule).
RuleUpdatesAreNotLost ==
  \A f \in Fids, n \in Names :
    (routeFids[f] # None /\ routeFids'[f] = None /\ routeFids[f].node = n /\ rules'[n] # rules[n])
      => Stamp(n) = routeFids[f].saw

\* A reserved name has exactly one live fid that will commit or give it up, and
\* no rule of that name exists meanwhile (create, clunk and remove): a name is
\* never reserved for good.
ReservationsAreHeld ==
  \A n \in Names :
    LET holders == {f \in Fids : routeFids[f] # None /\ routeFids[f].pending /\ routeFids[f].node = n}
    IN /\ Cardinality(holders) = (IF n \in pending THEN 1 ELSE 0)
       /\ n \in pending => rules[n] = None

-----------------------------------------------------------------------------
(***************************************************************************)
(* The editable buffer (crates/editfs).  `body` holds text, `addr` a byte  *)
(* range bound to a revision of the body, and `ctl` takes `exec` with the  *)
(* whole address, so that what is executed is what the caller saw.  Each   *)
(* document is buffered in the fid that wrote it and committed when the    *)
(* fid is clunked, under the server's lock.                                *)
(*                                                                         *)
(* A body is a sequence of characters of one byte.  The tag, a second      *)
(* document that has no revision and no reader here, is whether it was     *)
(* edited.  `meant` and `saw` are history: the text that was addressed     *)
(* when the address was set, and when an exec document was written.        *)
(***************************************************************************)

CONSTANTS Chars, MaxLen, MaxRevision, MaxAddr, MaxExec, AcceptAll 

VARIABLES body, tag, revision, addr, event, editFids, meant

editVars == <<body, tag, revision, addr, event, editFids, meant>>

Range(rev, arev, lo, hi) == [body |-> rev, addr |-> arev, start |-> lo, end |-> hi]

EditInit == /\ body = <<>> /\ tag = FALSE /\ revision = 0
            /\ addr = Range(0, 0, 0, 0)
            /\ event = <<>>
            /\ editFids = [f \in Fids |-> None]
            /\ meant = <<>>

Text(lo, hi) == SubSeq(body, lo + 1, hi)

\* validate_range_shape; start <= end is checked where a range is parsed.
Shaped(range) == range.start <= range.end /\ range.end <= Len(body)

\* Documents for `addr` and `ctl`: the ranges of the current and of the first
\* revision, and the current address, right and wrong.
Addresses == {Range(r, 0, lo, hi) : r \in {0, revision}, lo \in {0}, hi \in 0..MaxLen}
Execs == {addr, [addr EXCEPT !.addr = 0]}

\* write_seed_bytes: a read-write open starts from the current text.  (The seed
\* of `addr` is covered by the document written over it.)
Seed(node) == IF node = "body" THEN body ELSE <<>>

\* The walk to a file takes nothing from it, so it is taken with the open.
EditOpen(f, node, mode) ==
  /\ editFids[f] = None
  /\ editFids' = [editFids EXCEPT ![f] = [node |-> node, wrote |-> FALSE, saw |-> <<>>,
                                  buf |-> IF mode = "rw" THEN Seed(node) ELSE <<>>]]
  /\ UNCHANGED <<body, tag, revision, addr, event, meant>>

\* The buffer with `data` written over it at an offset, padded with zeros.
Overlay(buf, offset, data) ==
  [i \in 1..(IF offset + Len(data) > Len(buf) THEN offset + Len(data) ELSE Len(buf)) |->
     IF i > offset /\ i <= offset + Len(data) THEN data[i - offset]
     ELSE IF i <= Len(buf) THEN buf[i] ELSE "0"]

WriteText(f, offset, c) ==
  /\ editFids[f] # None /\ editFids[f].node = "body"
  /\ offset + 1 <= MaxLen
  /\ editFids' = [editFids EXCEPT ![f].buf = Overlay(@, offset, <<c>>), ![f].wrote = TRUE]
  /\ UNCHANGED <<body, tag, revision, addr, event, meant>>

WriteTag(f) == /\ editFids[f] # None /\ editFids[f].node = "tag"
               /\ editFids' = [editFids EXCEPT ![f].wrote = TRUE]
               /\ UNCHANGED <<body, tag, revision, addr, event, meant>>

\* The range of an `addr` or `exec` document, written whole.
WriteRange(f, range) ==
  /\ editFids[f] # None /\ editFids[f].node \in {"addr", "ctl"}
  /\ range \in (IF editFids[f].node = "addr" THEN Addresses ELSE Execs)
  /\ editFids' = [editFids EXCEPT ![f].buf = range, ![f].wrote = TRUE,
                          ![f].saw = IF editFids[f].node = "ctl" THEN meant ELSE @]
  /\ UNCHANGED <<body, tag, revision, addr, event, meant>>

Closed(f) == editFids' = [editFids EXCEPT ![f] = None]

EditClunkIdle(f) == /\ editFids[f] # None /\ ~editFids[f].wrote
                    /\ Closed(f)
                    /\ UNCHANGED <<body, tag, revision, addr, event, meant>>


\* commit_document
ClunkBody(f) == /\ editFids[f] # None /\ editFids[f].wrote /\ editFids[f].node = "body"
                /\ revision < MaxRevision
                /\ body' = editFids[f].buf
                /\ revision' = revision + 1
                /\ Closed(f)
                /\ UNCHANGED <<tag, addr, event, meant>>

ClunkTag(f) == /\ editFids[f] # None /\ editFids[f].wrote /\ editFids[f].node = "tag"
               /\ tag' = TRUE
               /\ Closed(f)
               /\ UNCHANGED <<body, revision, addr, event, meant>>

\* commit_addr
ClunkAddr(f) ==
  /\ editFids[f] # None /\ editFids[f].wrote /\ editFids[f].node = "addr"
  /\ LET range == editFids[f].buf
         set == [range EXCEPT !.addr = addr.addr + 1]
     IN IF range.body # revision \/ ~Shaped(range)
        THEN UNCHANGED <<addr, meant>>
        ELSE /\ addr.addr < MaxAddr
             /\ addr' = set
             /\ meant' = Text(set.start, set.end)
  /\ Closed(f)
  /\ UNCHANGED <<body, tag, revision, event>>

Status == IF AcceptAll THEN "accepted" ELSE "denied"

\* commit_ctl and exec_addr: the event is written whatever the policy decides.
ClunkCtl(f) ==
  /\ editFids[f] # None /\ editFids[f].wrote /\ editFids[f].node = "ctl"
  /\ LET range == editFids[f].buf
     IN IF range # addr \/ range.body # revision \/ ~Shaped(range)
        THEN UNCHANGED event
        ELSE /\ Len(event) < MaxExec
             /\ event' = Append(event, [command |-> Text(range.start, range.end), status |-> Status,
                                      saw |-> editFids[f].saw])
  /\ Closed(f)
  /\ UNCHANGED <<body, tag, revision, addr, meant>>

EditNext == \E f \in Fids :
              \/ \E node \in {"body", "tag", "addr", "ctl"}, mode \in {"w", "rw"} : EditOpen(f, node, mode)
              \/ \E offset \in 0..MaxLen, c \in Chars : WriteText(f, offset, c)
              \/ \E range \in Addresses \cup Execs : WriteRange(f, range)
              \/ WriteTag(f) \/ EditClunkIdle(f) \/ ClunkBody(f) \/ ClunkTag(f) \/ ClunkAddr(f) \/ ClunkCtl(f)

EditSpec == EditInit /\ [][EditNext]_editVars

\* What an exec event records is the text that was addressed when its document
\* was written: no edit and no other address came between (the revision checks
\* of commit_addr and exec_addr).
ExecRunsWhatWasAddressed == \A i \in 1..Len(event) : event[i].command = event[i].saw

-----------------------------------------------------------------------------
(***************************************************************************)
(* Branching execution (crates/branchfs).  Candidate branches are forked,  *)
(* scored, selected and discarded by command documents written to `ctl`    *)
(* and committed when the fid is clunked; `branches/<id>` and `selected`   *)
(* show the state and `events` keeps the history.                          *)
(*                                                                         *)
(* A root hash is the sequence of blocks it stands for: a fork appends its *)
(* delta to the blocks of its base, and equal blocks have equal hashes.    *)
(***************************************************************************)

CONSTANTS Ids, Deltas, Scores, NotFinite, MaxEvents

VARIABLES branches, selected, events, branchFids

branchVars == <<branches, selected, events, branchFids>>

Commands == [op : {"fork"}, id : Ids, from : Ids, delta : Deltas]
              \cup [op : {"score"}, id : Ids, score : Scores \cup {NotFinite}]
              \cup [op : {"select", "discard"}, id : Ids]

BranchInit == /\ branches = [i \in Ids |-> None]
              /\ selected = None
              /\ events = <<>>
              /\ branchFids = [f \in Fids |-> None]

\* BranchRecord::base and BranchRecord::fork
Record(base, root) == [base |-> base, root |-> root, status |-> "active", score |-> None]

Visible(id) == branches[id] # None

Log(notice) == Len(events) < MaxEvents /\ events' = Append(events, notice)

InstallBase(id, block) == /\ ~Visible(id)
                          /\ branches' = [branches EXCEPT ![id] = Record(None, <<block>>)]
                          /\ Log([type |-> "base", id |-> id, root |-> <<block>>])
                          /\ UNCHANGED <<selected, branchFids>>

Fork(c) == /\ ~Visible(c.id) /\ Visible(c.from)
           /\ LET root == Append(branches[c.from].root, c.delta)
              IN /\ branches' = [branches EXCEPT ![c.id] = Record(c.from, root)]
                 /\ Log([type |-> "fork", id |-> c.id, from |-> c.from, root |-> root])
           /\ UNCHANGED selected

Score(c) == /\ c.score # NotFinite /\ Visible(c.id)
            /\ branches' = [branches EXCEPT ![c.id].score = c.score]
            /\ Log([type |-> "score", id |-> c.id, score |-> c.score])
            /\ UNCHANGED selected

\* The branch selected before becomes active again.
Select(c) == /\ Visible(c.id)
             /\ branches' = [i \in Ids |-> IF i = c.id THEN [branches[i] EXCEPT !.status = "selected"]
                                           ELSE IF i = selected THEN [branches[i] EXCEPT !.status = "active"]
                                           ELSE branches[i]]
             /\ selected' = c.id
             /\ Log([type |-> "select", id |-> c.id, root |-> branches[c.id].root])

\* Mutant: a discarded branch stays selected.
MutDiscard(c) == /\ Visible(c.id)
                 /\ branches' = [branches EXCEPT ![c.id] = None]
                 /\ Log([type |-> "discard", id |-> c.id, root |-> branches[c.id].root])
                 /\ UNCHANGED selected

Discard(c) == /\ Visible(c.id)
              /\ branches' = [branches EXCEPT ![c.id] = None]
              /\ selected' = IF selected = c.id THEN None ELSE selected
              /\ Log([type |-> "discard", id |-> c.id, root |-> branches[c.id].root])

BranchWalk(f) == /\ branchFids[f] = None
                 /\ branchFids' = [branchFids EXCEPT ![f] = [open |-> FALSE, doc |-> None]]
                 /\ UNCHANGED <<branches, selected, events>>

BranchOpen(f) == /\ branchFids[f] # None /\ ~branchFids[f].open
                 /\ branchFids' = [branchFids EXCEPT ![f].open = TRUE]
                 /\ UNCHANGED <<branches, selected, events>>

BranchWrite(f, doc) == /\ branchFids[f] # None /\ branchFids[f].open
                       /\ branchFids' = [branchFids EXCEPT ![f].doc = doc]
                       /\ UNCHANGED <<branches, selected, events>>

\* commit_ctl, when the command is accepted
Clunk(f) == /\ branchFids[f] # None /\ branchFids[f].doc \notin {None, Bad}
            /\ LET c == branchFids[f].doc
               IN \/ c.op = "fork" /\ Fork(c)
                  \/ c.op = "score" /\ Score(c)
                  \/ c.op = "select" /\ Select(c)
                  \/ c.op = "discard" /\ Discard(c)
            /\ branchFids' = [branchFids EXCEPT ![f] = None]

\* The early returns: nothing written, a document that does not parse, an id
\* that is taken, a branch that is not visible, a score that is not finite.
Refused(c) == c \notin {None, Bad} =>
                \/ c.op = "fork" /\ (Visible(c.id) \/ ~Visible(c.from))
                \/ c.op # "fork" /\ ~Visible(c.id)
                \/ c.op = "score" /\ c.score = NotFinite

ClunkRefused(f) == /\ branchFids[f] # None /\ Refused(branchFids[f].doc)
                   /\ branchFids' = [branchFids EXCEPT ![f] = None]
                   /\ UNCHANGED <<branches, selected, events>>

BranchNext == \/ \E id \in Ids, block \in Deltas : InstallBase(id, block)
              \/ \E f \in Fids : \/ BranchWalk(f) \/ BranchOpen(f) \/ Clunk(f) \/ ClunkRefused(f)
                                 \/ \E doc \in Commands \cup {Bad} : BranchWrite(f, doc)

BranchSpec == BranchInit /\ [][BranchNext]_branchVars

\* The last event of an id that says whether it is visible, and the score given
\* to it since.
Since(id, type) == {i \in 1..Len(events) : events[i].id = id /\ events[i].type \in type}
Last(S) == CHOOSE i \in S : \A j \in S : j <= i

\* `events` alone determines what the other files show: a branch is visible when
\* it was forked after its last discard, with that root and the score given
\* since, and it is marked selected exactly while `selected` names it, which is
\* the last selection unless that branch was discarded (the four commands).
EventsTellTheState ==
  /\ \A id \in Ids :
       LET born == Since(id, {"base", "fork"})
           gone == Since(id, {"discard"})
           scored == {i \in Since(id, {"score"}) : i > Last(born)}
       IN /\ Visible(id) <=> born # {} /\ (gone # {} => Last(gone) < Last(born))
          /\ Visible(id) => /\ branches[id].root = events[Last(born)].root
                            /\ branches[id].score = IF scored = {} THEN None ELSE events[Last(scored)].score
                            /\ branches[id].status = IF selected = id THEN "selected" ELSE "active"
  /\ LET picks == UNION {Since(id, {"select"}) : id \in Ids}
     IN selected = IF picks = {} \/ \E i \in Since(events[Last(picks)].id, {"discard"}) : i > Last(picks)
                   THEN None ELSE events[Last(picks)].id
=============================================================================
