----------------------------- MODULE Renderer -------------------------------
(***************************************************************************)
(* What a renderer shows: the outcomes of the inputs of an attached session,*)
(* and the transcript rebuilt from the tape when it attaches.              *)
(***************************************************************************)
EXTENDS Integers, Sequences, SequencesExt, FiniteSets, TLC

-----------------------------------------------------------------------------
(***************************************************************************)
(* The terminal client of the Root Agent: what it submitted, what it shows *)
(* of it, and what it reports of its outcome while the supervisor replaces *)
(* the Root Agent's Process under it (tui/src/file_backed: the run loop,   *)
(* watchers, queue receipts, previous_input, file_surface/attachment).     *)
(*                                                                         *)
(* A Root Process answers its inputs by its files: it publishes a queue    *)
(* snapshot, appends the user message to machine/tape when it takes an     *)
(* input and the answer when it ends, and only then a completion to        *)
(* machine/ui/events.  A completed input has its user message on the tape; *)
(* one cancelled or refused before it was taken has none.  The files go    *)
(* away with the Process; descriptors opened earlier still read them.      *)
(*                                                                         *)
(* The transcript is abstracted to the number of cells showing each input. *)
(***************************************************************************)

CONSTANTS
  Ids,        \* submission ids
  MaxPid,     \* bound on Root Agent Processes
  MaxClears,  \* bound on /clear
  Faulty,     \* "hydrate", "rehydrate": where a read of a live Process may fail
  MaxFaults   \* bound on such failures

NoPid == 0
Pids == 1 .. MaxPid

VARIABLES
  launched,   \* Root Processes launched so far
  root,       \* units/root-agent/pid: the current Process or NoPid
  up,         \* its files are bound
  procs,      \* pid -> [inbox, pend, act, tape, ui]: what each Process holds and wrote
  att,        \* watchers.root_agent_pid
  owner,      \* queue.owner: the Process whose files the application shows
  tails,      \* the watcher tasks run and the recovery descriptors are held
  tpos, upos, \* records of machine/tape and ui/events already applied
  qnews,      \* a queue event of the attached Process is not yet dispatched
  idle,       \* activity.state = Idle, as last shown
  inputs,     \* local_inputs: id -> [owner, ack, cell, seen, committed, terminal]
  shown,      \* cells of the transcript and scrollback showing an input
  pending,    \* pending_root_agent_turns: [id, proc]
  reports,    \* id -> outcomes told to the user, in order
  polled,     \* a pid the poller read and has not sent yet, or Unsent
  poll,       \* RootAgentPidRefresh in flight, at most one
  last,       \* the poller's last report, or Unsent
  pc,         \* the run loop's handler: "loop", "refresh", or (re)"hydrate" the new Process
  clears,
  faults      \* hydrations that failed so

attachVars == <<launched, root, up, procs, att, owner, tails, tpos, upos, qnews, idle, inputs,
                shown, pending, reports, polled, poll, last, pc, clears, faults>>

Unsent == -1

Fresh == [inbox |-> {}, pend |-> {}, act |-> {}, tape |-> <<>>, ui |-> <<>>]
Done(id, status) == [kind |-> "done", id |-> id, status |-> status]
Activity(state) == [kind |-> "activity", id |-> 0, status |-> state]

AttachInit ==
  /\ launched = 1 /\ root = 1 /\ up = TRUE
  /\ procs = [p \in Pids |-> Fresh]
  /\ att = 1 /\ owner = 1 /\ tails = TRUE /\ tpos = 0 /\ upos = 0
  /\ qnews = FALSE /\ idle = TRUE
  /\ inputs = <<>> /\ shown = [i \in Ids |-> 0]
  /\ pending = {} /\ reports = [i \in Ids |-> <<>>]
  /\ polled = Unsent /\ poll = <<>> /\ last = 1 /\ pc = "loop" /\ clears = 0 /\ faults = 0

clientVars == <<att, owner, tails, tpos, upos, idle, inputs, shown, pending,
                reports, polled, poll, last, pc, clears, faults>>

-----------------------------------------------------------------------------
(* The Root Agent and its supervisor, as their files show them (external).  *)

Agent(p, rec) ==
  /\ procs' = [procs EXCEPT ![p] = rec]
  /\ qnews' = (qnews \/ (p = owner /\ tails))
  /\ UNCHANGED <<launched, root, up, clientVars>>

\* An input reaches the queue.
Admit(id) ==
  /\ up /\ id \in procs[root].inbox
  /\ Agent(root, [procs[root] EXCEPT !.inbox = @ \ {id}, !.pend = @ \cup {id}])

\* The input is taken: its turn starts and its message is recorded.
Take(id) ==
  LET p == procs[root]
  IN /\ up /\ id \in p.pend /\ p.act = {}
     /\ Agent(root, [p EXCEPT !.pend = @ \ {id}, !.act = {id}, !.tape = Append(@, id),
                              !.ui = Append(@, Activity("running"))])

\* The turn ends; the answer is on the tape before the completion is told.
End(id, status) ==
  LET p == procs[root]
  IN /\ up /\ id \in p.act
     /\ Agent(root, [p EXCEPT !.act = {},
                              !.ui = @ \o <<Done(id, status), Activity("idle")>>])

\* An input is removed from the queue, or refused, before it was taken.
Drop(id, status) ==
  LET p == procs[root]
  IN /\ up /\ id \in p.pend
     /\ Agent(root, [p EXCEPT !.pend = @ \ {id}, !.ui = Append(@, Done(id, status))])

\* The Process exits: its files are unbound, then its pid is cleared.
Unbind ==
  /\ up /\ root # NoPid /\ root < MaxPid
  /\ up' = FALSE
  /\ UNCHANGED <<launched, root, procs, qnews, clientVars>>

Exit ==
  /\ ~up /\ root # NoPid
  /\ root' = NoPid
  /\ UNCHANGED <<launched, up, procs, qnews, clientVars>>

\* The supervisor launches the next one, which may inherit work that was not done.
Launch ==
  /\ root = NoPid /\ launched < MaxPid
  /\ launched' = launched + 1 /\ root' = launched + 1 /\ up' = TRUE
  /\ \E left \in SUBSET (procs[launched].pend \cup procs[launched].act) :
       procs' = [procs EXCEPT ![launched + 1].pend = left]
  /\ UNCHANGED <<qnews, clientVars>>

-----------------------------------------------------------------------------
(* What the application keeps of its own inputs. *)

Known == DOMAIN inputs
Own(id) == id \in Known /\ inputs[id].owner = owner

\* acknowledge_local_input, on ins and the cells sh: a receipt cell appears
\* unless the tape's own is there.
Acknowledged(ids, ins, sh) ==
  LET now == {i \in ids : i \in DOMAIN ins /\ ins[i].owner = owner /\ ~ins[i].ack}
  IN [ins |-> [i \in DOMAIN ins |->
                 IF i \in now THEN [ins[i] EXCEPT !.ack = TRUE, !.cell = @ \/ ~ins[i].seen]
                 ELSE ins[i]],
      sh |-> [i \in Ids |-> IF i \in now /\ ~ins[i].seen THEN sh[i] + 1 ELSE sh[i]]]

\* apply_tape_record for a user message: the receipt cell gives way to the record.
Recorded(v, id) ==
  LET ins == v.ins  sh == v.sh
      local == id \in DOMAIN ins /\ ins[id].owner = owner
      hidden == IF local /\ ins[id].cell THEN sh[id] - 1 ELSE sh[id]
  IN IF ~local THEN [ins |-> ins, sh |-> [sh EXCEPT ![id] = @ + 1]]
     ELSE IF ins[id].seen THEN v
     ELSE [ins |-> [ins EXCEPT ![id].seen = TRUE, ![id].cell = ~ins[id].committed],
           sh |-> [sh EXCEPT ![id] = IF ins[id].committed THEN hidden ELSE hidden + 1]]

\* The receipts dropped by a completion that dispatched nothing.
Forgotten(ins, id, nondispatched) ==
  {i \in DOMAIN ins : ins[i].terminal /\ nondispatched /\ ~ins[i].seen /\ ~ins[i].committed}

\* observe_root_agent_completion, on w = [ins, sh, pend, rep].
Observed(w, e) ==
  LET id == e.id
      nondispatched == e.status # "completed"
      turns == {t \in w.pend : t.id = id}
      acked == IF ~nondispatched /\ \E t \in turns : t.proc = owner
               THEN Acknowledged({id}, w.ins, w.sh) ELSE [ins |-> w.ins, sh |-> w.sh]
      local == id \in DOMAIN acked.ins /\ acked.ins[id].owner = owner
      gone == local /\ nondispatched /\ ~acked.ins[id].seen /\ acked.ins[id].cell
      ins == IF local
             THEN [acked.ins EXCEPT ![id].terminal = TRUE, ![id].cell = @ /\ ~gone]
             ELSE acked.ins
      keep == DOMAIN ins \ Forgotten(ins, id, nondispatched)
  IN IF turns = {} THEN w
     ELSE [ins |-> [i \in keep |-> ins[i]],
           sh |-> IF gone THEN [acked.sh EXCEPT ![id] = @ - 1] ELSE acked.sh,
           pend |-> w.pend \ turns,
           rep |-> [w.rep EXCEPT ![id] = Append(@, e.status)]]

\* settle_unknown_replaced_input: an idle replacement says nothing of older inputs.
AttachSettled(pend, rep, isIdle, at) ==
  LET lost == {t \in pend : isIdle /\ at # NoPid /\ t.proc # at}
  IN [pend |-> pend \ lost,
      rep |-> [i \in Ids |-> IF \E t \in lost : t.id = i THEN Append(rep[i], "unknown")
                             ELSE rep[i]]]

-----------------------------------------------------------------------------
(* The run loop. *)

procVars == <<root, up, procs, launched>>

\* Every handler ends by settling what a replacement left unknown.
EndHandler(pend, rep, isIdle, at) ==
  LET s == AttachSettled(pend, rep, isIdle, at)
  IN pending' = s.pend /\ reports' = s.rep

\* write_agent_input succeeds: the Process is still the attached one.
Submit(id) ==
  /\ pc = "loop" /\ id \notin Known /\ reports[id] = <<>>
  /\ \A t \in pending : t.id # id
  /\ att # NoPid /\ att = root /\ up
  /\ procs' = [procs EXCEPT ![root].inbox = @ \cup {id}]
  /\ inputs' = inputs @@ (id :> [owner |-> att, ack |-> FALSE, cell |-> FALSE, seen |-> FALSE,
                                 committed |-> FALSE, terminal |-> FALSE])
  /\ pending' = pending \cup {[id |-> id, proc |-> att]}
  /\ pc' = "refresh"
  /\ UNCHANGED <<root, up, launched, att, owner, tails, tpos, upos, qnews, idle, shown,
                 reports, polled, poll, last, clears, faults>>

\* The tape watcher delivers a record.
TapeRecord ==
  LET v == Recorded([ins |-> inputs, sh |-> shown], procs[owner].tape[tpos + 1])
  IN /\ pc = "loop" /\ tails /\ tpos < Len(procs[owner].tape)
     /\ tpos' = tpos + 1
     /\ inputs' = v.ins /\ shown' = v.sh
     /\ EndHandler(pending, reports, idle, att)
     /\ UNCHANGED <<procVars, att, owner, tails, upos, qnews, idle, polled, poll, last, pc, clears, faults>>

\* The UI watcher delivers an event.
UiEvent ==
  LET e == procs[owner].ui[upos + 1]
      w == Observed([ins |-> inputs, sh |-> shown, pend |-> pending, rep |-> reports], e)
      isIdle == IF e.kind = "activity" THEN e.status = "idle" ELSE idle
  IN /\ pc = "loop" /\ tails /\ upos < Len(procs[owner].ui)
     /\ upos' = upos + 1
     /\ inputs' = w.ins /\ shown' = w.sh
     /\ idle' = isIdle
     /\ EndHandler(w.pend, w.rep, isIdle, att)
     /\ UNCHANGED <<procVars, att, owner, tails, tpos, qnews, polled, poll, last, pc, clears, faults>>

\* QueueChanged: the snapshot is read now; inputs it names are acknowledged.
QueueChanged ==
  LET p == procs[owner]
      named == IF up /\ root = owner THEN p.pend \cup p.act ELSE {}
      v == Acknowledged({t.id : t \in {u \in pending : u.proc = owner}} \cap named, inputs, shown)
  IN /\ pc = "loop" /\ tails /\ qnews
     /\ qnews' = FALSE
     /\ inputs' = v.ins /\ shown' = v.sh
     /\ EndHandler(pending, reports, idle, att)
     /\ UNCHANGED <<procVars, att, owner, tails, tpos, upos, idle, polled, poll, last, pc, clears, faults>>

\* The live region overflows: an input's cell moves to the scrollback.
Commit(id) ==
  /\ pc = "loop" /\ id \in Known /\ inputs[id].cell
  /\ inputs' = [inputs EXCEPT ![id].committed = TRUE, ![id].cell = FALSE]
  /\ UNCHANGED <<procVars, att, owner, tails, tpos, upos, qnews, idle, shown, pending,
                 reports, polled, poll, last, pc, clears, faults>>

\* /clear: what was shown stays accounted for.
Clear ==
  /\ pc = "loop" /\ clears < MaxClears
  /\ clears' = clears + 1
  /\ inputs' = [i \in Known |-> [inputs[i] EXCEPT !.committed = @ \/ inputs[i].ack \/ inputs[i].cell,
                                                  !.cell = FALSE]]
  /\ EndHandler(pending, reports, idle, att)
  /\ UNCHANGED <<procVars, att, owner, tails, tpos, upos, qnews, idle, shown, polled, poll, last, pc, faults>>

-----------------------------------------------------------------------------
(* Following the Root Agent. *)

\* spawn_root_agent_pid_refresh: the pid is read, and a changed one reported.
PollRead ==
  /\ polled = Unsent /\ poll = <<>> /\ root # last
  /\ polled' = root
  /\ UNCHANGED <<procVars, att, owner, tails, tpos, upos, qnews, idle, inputs, shown, pending,
                 reports, poll, last, pc, clears, faults>>

PollSend ==
  /\ polled # Unsent
  /\ poll' = <<polled>> /\ last' = polled /\ polled' = Unsent
  /\ UNCHANGED <<procVars, att, owner, tails, tpos, upos, qnews, idle, inputs, shown, pending,
                 reports, pc, clears, faults>>

\* refresh_root_agent_attachment when the pid is the attached one, or none.
Unmoved(pid) ==
  /\ pid \in {NoPid, att}
  /\ att' = pid
  /\ pc' = "loop"
  /\ EndHandler(pending, reports, idle, pid)
  /\ UNCHANGED <<tails, tpos, inputs, shown>>

\* restore_tape_history: the records the tape watcher had not delivered.
UnseenRecords ==
  IF tails /\ \E i \in Known : Own(i)
  THEN SubSeq(procs[owner].tape, tpos + 1, Len(procs[owner].tape)) ELSE <<>>

\* previous_input::snapshot: every completion the old Process published.
\* Mutant: only the events the watcher already queued.
MutCompletions == <<>>

Completions ==
  IF tails THEN SelectSeq(procs[owner].ui, LAMBDA e : e.kind = "done") ELSE <<>>

\* A new pid: what the old descriptors still hold is applied, then they are
\* closed and the events still queued are discarded.
Moved(pid, next) ==
  LET v == FoldLeft(Recorded, [ins |-> inputs, sh |-> shown], UnseenRecords)
      w == FoldLeft(Observed, [ins |-> v.ins, sh |-> v.sh, pend |-> pending, rep |-> reports],
                    Completions)
  IN /\ pid \notin {NoPid, att}
     /\ inputs' = w.ins /\ shown' = w.sh /\ pending' = w.pend /\ reports' = w.rep
     /\ tpos' = tpos + Len(UnseenRecords)
     /\ tails' = FALSE
     /\ pc' = next
     /\ UNCHANGED att

Refreshed ==
  /\ pc = "loop" /\ poll # <<>>
  /\ poll' = <<>>
  /\ Unmoved(Head(poll)) \/ Moved(Head(poll), "hydrate")
  /\ UNCHANGED <<procVars, owner, upos, qnews, idle, polled, last, clears, faults>>

\* Submit's own refresh, which reads the pid now.
RefreshAfterSubmit ==
  /\ pc = "refresh"
  /\ \/ Unmoved(root) /\ UNCHANGED poll
     \/ Moved(root, "rehydrate") /\ poll' = <<>>
  /\ UNCHANGED <<procVars, owner, upos, qnews, idle, polled, last, clears, faults>>

OnTape(p, id) == \E k \in DOMAIN procs[p].tape : procs[p].tape[k] = id

\* restore_receipts_after_hydration: the inputs of this Process that its tape or
\* its queue names, and that are not printed yet.
Restored(p) ==
  {i \in Known : /\ inputs[i].owner = p /\ ~inputs[i].committed
                 /\ \/ OnTape(p, i)
                    \/ /\ i \in procs[p].pend \cup procs[p].act
                       /\ inputs[i].ack /\ ~inputs[i].terminal}

\* The merge with what was shown before: an input keeps the cell it has
\* ("Receipt identity is (owner, submission ID)"), a restored one without gets one.
Merged(p) ==
  LET new == {i \in Restored(p) : ~inputs[i].cell}
  IN [ins |-> [i \in Known |->
                 [inputs[i] EXCEPT !.seen = @ \/ (inputs[i].owner = p /\ OnTape(p, i)),
                                   !.cell = @ \/ i \in new]],
      sh |-> [i \in Ids |-> IF i \in new THEN shown[i] + 1 ELSE shown[i]]]

\* hydrate_and_open_tails: one Process, pinned, with its files bound throughout.
Attachable == root # NoPid /\ up

\* hydrate_pinned_agent: the activity its UI history ends with.
ShowsIdle(p) ==
  LET acts == SelectSeq(procs[p].ui, LAMBDA e : e.kind = "activity")
  IN acts = <<>> \/ Last(acts).status = "idle"

\* reattach_to_current_agent: the Process of this moment is hydrated; its own
\* completions settle inputs, and if it is idle the rest are reported unknown.
Hydrate ==
  LET p == root
      v == Merged(p)
      done(t) == {k \in DOMAIN procs[p].ui : procs[p].ui[k].kind = "done" /\ procs[p].ui[k].id = t.id}
      told == {t \in pending : done(t) # {}}
      rep == [i \in Ids |->
                LET ts == {t \in told : t.id = i}
                IN IF ts = {} THEN reports[i]
                   ELSE Append(reports[i],
                          procs[p].ui[CHOOSE k \in done(CHOOSE t \in ts : TRUE) : TRUE].status)]
      lost == IF ShowsIdle(p) THEN pending \ told ELSE {}
  IN /\ pc \in {"hydrate", "rehydrate"} /\ Attachable
     /\ att' = p /\ owner' = p /\ tails' = TRUE
     /\ tpos' = Len(procs[p].tape) /\ upos' = Len(procs[p].ui)
     /\ qnews' = TRUE
     /\ idle' = ShowsIdle(p)
     /\ inputs' = v.ins /\ shown' = v.sh
     /\ pending' = (pending \ told) \ lost
     /\ reports' = [i \in Ids |-> IF \E t \in lost : t.id = i THEN Append(rep[i], "unknown")
                                  ELSE rep[i]]
     /\ pc' = "loop"
     /\ UNCHANGED <<procVars, polled, poll, last, clears, faults>>

\* root_agent_pid_retry.  Mutant: the poller is not asked again.
MutRetry == last
Retry == IF pc = "hydrate" THEN Unsent ELSE last

\* The Process is gone, or its files are, or a read fails: nothing is
\* attached; when the poller had reported the pid it is asked to report again.
HydrateFails ==
  /\ pc \in {"hydrate", "rehydrate"}
  /\ \/ ~Attachable /\ UNCHANGED faults
     \/ pc \in Faulty /\ Attachable /\ faults < MaxFaults /\ faults' = faults + 1
  /\ att' = NoPid
  /\ last' = Retry
  /\ pc' = "loop"
  /\ EndHandler(pending, reports, idle, NoPid)
  /\ UNCHANGED <<procVars, owner, tails, tpos, upos, qnews, idle, inputs, shown, polled, poll, clears>>

-----------------------------------------------------------------------------
AgentStep ==
  \E id \in Ids :
    \/ Admit(id) \/ Take(id)
    \/ \E s \in {"completed", "failed", "cancelled"} : End(id, s)

Client ==
  \/ TapeRecord \/ UiEvent \/ QueueChanged
  \/ PollRead \/ PollSend \/ Refreshed \/ RefreshAfterSubmit \/ Hydrate \/ HydrateFails

AttachNext ==
  \/ AgentStep
  \/ \E id \in Ids : Drop(id, "cancelled")
  \/ Unbind \/ Exit \/ Launch
  \/ Client
  \/ \E id \in Ids : Submit(id) \/ Commit(id)
  \/ Clear

AttachSpec == AttachInit /\ [][AttachNext]_attachVars /\ WF_attachVars(AgentStep) /\ WF_attachVars(Client) /\ WF_attachVars(Exit \/ Launch)

-----------------------------------------------------------------------------
\* A Process held the input: submitted to it, or inherited.
Held(p, id) ==
  \/ id \in procs[p].inbox \cup procs[p].pend \cup procs[p].act
  \/ \E k \in DOMAIN procs[p].tape : procs[p].tape[k] = id
  \/ \E k \in DOMAIN procs[p].ui : procs[p].ui[k].id = id

Ended(p, id) == \E k \in DOMAIN procs[p].ui : procs[p].ui[k].id = id

(***************************************************************************)
(* What the terminal reports of an input is true: one outcome at most, a   *)
(* definite one only if some Root Process published it, and "unknown" only *)
(* if the Process it was submitted to has published none: the retained     *)
(* descriptors are read before the outcome is given up                     *)
(* (refresh_root_agent_attachment, settle_unknown_replaced_input).         *)
(***************************************************************************)
ReportStep ==
  \A id \in Ids :
    reports'[id] # reports[id] =>
      /\ reports[id] = <<>> /\ Len(reports'[id]) = 1
      /\ IF reports'[id] = <<"unknown">>
         THEN \A t \in pending : t.id = id => ~Ended(t.proc, id)
         ELSE \E p \in Pids : \E k \in DOMAIN procs[p].ui : 
                procs[p].ui[k] = Done(id, Head(reports'[id]))

OutcomesAreTrue == [][ReportStep]_attachVars

(***************************************************************************)
(* Every input the terminal submitted is eventually reported on, whatever  *)
(* Processes come and go, while the supervisor keeps launching one, its    *)
(* Agent works its queue off and the client's tasks run.                   *)
(***************************************************************************)
EveryInputIsReported ==
  \A id \in Ids : (\E t \in pending : t.id = id) ~> reports[id] # <<>>

(***************************************************************************)
(* An input no later Process inherited is shown at most once: its receipt  *)
(* and its tape record are the same cell ("Exact-ID receipts remain        *)
(* available for repeated late Tape/hydration", queue.rs).                 *)
(***************************************************************************)
ShownOnce ==
  \A id \in Ids : (\A p, q \in Pids : Held(p, id) /\ Held(q, id) => p = q) => shown[id] <= 1

-----------------------------------------------------------------------------
(***************************************************************************)
(* The terminal renderer's view of one conversation.  Two tails describe   *)
(* it without a shared cursor: io/output, an unframed byte stream shown as *)
(* a preview, and machine/tape, framed records that are the authority.     *)
(* The engine writes an answer to io/output and then appends its record to *)
(* the tape; the renderer's two watchers deliver each file in order and    *)
(* the two files in any interleaving, the stream in chunks of any size.    *)
(*                                                                         *)
(* StreamReconciler (reconcile.rs) holds the matching and suppression; the *)
(* application (app/history.rs) locates cells and applies its decisions.   *)
(* Text is a sequence of atoms: the code compares prefixes and suffixes.   *)
(***************************************************************************)

CONSTANTS
  Talks,      \* conversations: sequences of [role, text], what the tape ends up with
  Viewport,   \* cells that fit the live region; a cell is taken as one line
  MaxOthers   \* bound on plan, notice and action cells shown between messages

VARIABLES
  out,        \* bytes of io/output not yet delivered
  tape,       \* tape records not yet delivered
  hydrated,   \* the tape the renderer attached with
  clipped,    \* answers whose output was written before the output tail's live edge
  recon,      \* the StreamReconciler
  cells,      \* transcript: messages and other cells, the live region
  scrollback, \* cells already printed above the live region
  boundary,   \* pending_remote_turn_start: index before which the user cell goes, or 0
  others      \* other cells shown

reconcileVars == <<out, tape, hydrated, clipped, recon, cells, scrollback, boundary, others>>

Answers(records) == SelectSeq(records, LAMBDA r : r.role = "assistant")

Bytes(records) == FlattenSeq([i \in DOMAIN records |-> records[i].text])

IsMessage(cell) == cell.role # "other"

Rest(t, n) == SubSeq(t, n + 1, Len(t))

-----------------------------------------------------------------------------
(* Cells. *)

\* Index of the open assistant cell: the last one with no user cell after it, or 0.
CurrentAssistant(cs) ==
  LET msgs == {i \in DOMAIN cs : IsMessage(cs[i])}
      lastCell == IF msgs = {} THEN 0 ELSE CHOOSE i \in msgs : \A j \in msgs : j <= i
  IN IF lastCell # 0 /\ cs[lastCell].role = "assistant" THEN lastCell ELSE 0

\* The last message cell is a user's: the turn being shown has its boundary.
HasUserBoundary(cs) ==
  LET msgs == {i \in DOMAIN cs : IsMessage(cs[i])}
  IN /\ msgs # {}
     /\ cs[CHOOSE i \in msgs : \A j \in msgs : j <= i].role = "user"

\* mark_pending_remote_turn_start_if_unbounded
Marked ==
  IF boundary = 0 /\ (recon.awaiting \/ ~HasUserBoundary(cells))
  THEN Len(cells) + 1 ELSE boundary

InsertUserBoundary(cs, at, cell) ==
  LET i == IF at = 0 \/ at > Len(cs) THEN Len(cs) + 1 ELSE at
  IN InsertAt(cs, i, cell)

-----------------------------------------------------------------------------
(* StreamReconciler. *)

New == [open |-> FALSE, awaiting |-> FALSE, held |-> <<>>, suppress |-> <<>>, live |-> FALSE]

\* on_hydrated_message_record: the last hydrated record decides.
Seeded(records) ==
  [New EXCEPT !.awaiting = records # <<>> /\ Last(records).role = "assistant"]

\* on_stream's filter: what of the chunk is not output a record already rendered.
Filtered(text) ==
  LET s == recon.suppress
  IN CASE s = <<>>          -> [text |-> text, suppress |-> <<>>]
       [] IsPrefix(s, text) /\ s # <<>>
                            -> [text |-> Rest(text, Len(s)), suppress |-> <<>>]
       [] IsPrefix(text, s) /\ ~IsPrefix(s, text)
                            -> [text |-> <<>>, suppress |-> Rest(s, Len(text))]
       [] IsSuffix(text, s) /\ ~IsPrefix(text, s)
                            -> [text |-> <<>>, suppress |-> s]
       [] OTHER             -> [text |-> text, suppress |-> <<>>]

\* decide_assistant: [decision, suppress, held] for a record and the open preview.
Splits(content, preview) ==
  {n \in 1 .. Len(preview) - 1 : IsSuffix(SubSeq(preview, 1, n), content)}


WithoutPreview(content) ==
  [act |-> "push", held |-> recon.held,
   suppress |-> IF recon.live THEN recon.suppress \o content ELSE <<>>]

WithPreview(content, preview) ==
  LET splits == Splits(content, preview)
      n == CHOOSE i \in splits : \A j \in splits : j <= i
  IN CASE preview = content ->
            [act |-> "drop", held |-> recon.held, suppress |-> <<>>]
       [] IsStrictPrefix(content, preview) ->
            [act |-> "replace", suppress |-> <<>>,
             held |-> Rest(preview, Len(content)) \o recon.held]
       [] IsStrictPrefix(preview, content) ->
            [act |-> "replace", held |-> recon.held,
             suppress |-> recon.suppress \o Rest(content, Len(preview))]
       [] IsStrictSuffix(preview, content) /\ ~IsPrefix(preview, content) ->
            [act |-> "replace", held |-> recon.held,
             suppress |-> recon.suppress \o content]
       [] OTHER ->
            IF splits # {}
            THEN [act |-> "replace", suppress |-> <<>>,
                  held |-> Rest(preview, n) \o recon.held]
            ELSE [act |-> "push", held |-> recon.held,
                  suppress |-> recon.suppress \o content]

-----------------------------------------------------------------------------
(* Attaching.  The tape is read, then tailed; the output tail is opened     *)
(* after it, from its live edge: answers written in between are cut off.    *)

\* parse_tape_history: consecutive assistant records share one cell.
HydratedCells(records) ==
  FoldLeft(LAMBDA cs, r :
             IF r.role = "assistant" /\ cs # <<>> /\ Last(cs).role = "assistant"
             THEN [cs EXCEPT ![Len(cs)].text = @ \o r.text]
             ELSE Append(cs, r),
           <<>>, records)

ReconcileInit ==
  \E talk \in Talks :
    \E h \in 0 .. Len(talk) :
      LET seen == SubSeq(talk, 1, h)
      IN \E edge \in Len(Answers(seen)) .. Len(Answers(talk)) :
           /\ hydrated = seen /\ clipped = edge
           /\ tape = Rest(talk, h)
           /\ out = Bytes(Rest(Answers(talk), edge))
           /\ recon = Seeded(seen)
           /\ cells = HydratedCells(seen)
           /\ scrollback = <<>> /\ boundary = 0 /\ others = 0

-----------------------------------------------------------------------------
(* The application's handlers. *)

\* take_flushed_stream after a user boundary.
Flushed(cs) ==
  IF recon.held = <<>> THEN cs
  ELSE Append(cs, [role |-> "assistant", text |-> recon.held])

\* A chunk of io/output arrives: push_output.
Output(n) ==
  LET chunk == SubSeq(out, 1, n)
      f == Filtered(chunk)
      at == CurrentAssistant(cells)
  IN /\ n \in 1 .. Len(out)
     /\ out' = Rest(out, n)
     /\ \/ /\ f.text = <<>>
           /\ recon' = [recon EXCEPT !.suppress = f.suppress]
           /\ UNCHANGED <<cells, boundary>>
        \/ /\ f.text # <<>> /\ recon.awaiting
           /\ recon' = [recon EXCEPT !.suppress = f.suppress, !.held = @ \o f.text]
           /\ UNCHANGED <<cells, boundary>>
        \/ /\ f.text # <<>> /\ ~recon.awaiting /\ recon.open /\ at # 0
           /\ recon' = [recon EXCEPT !.suppress = f.suppress]
           /\ cells' = [cells EXCEPT ![at].text = @ \o f.text]
           /\ UNCHANGED boundary
        \/ /\ f.text # <<>> /\ ~recon.awaiting /\ ~(recon.open /\ at # 0)
           /\ recon' = [recon EXCEPT !.suppress = f.suppress, !.open = TRUE]
           /\ boundary' = Marked
           /\ cells' = Append(cells, [role |-> "assistant", text |-> f.text])
     /\ UNCHANGED <<tape, hydrated, clipped, scrollback, others>>

\* A user record arrives: apply_tape_record's "user" arm.
UserRecord ==
  /\ tape # <<>> /\ Head(tape).role = "user"
  /\ tape' = Tail(tape)
  /\ cells' = Flushed(InsertUserBoundary(cells, boundary, Head(tape)))
  /\ boundary' = 0
  /\ recon' = [recon EXCEPT !.awaiting = FALSE, !.live = TRUE, !.held = <<>>,
                            !.open = @ \/ recon.held # <<>>]
  /\ UNCHANGED <<out, hydrated, clipped, scrollback, others>>

\* An assistant record arrives: the "assistant" arm with on_assistant_record.
AssistantRecord ==
  LET content == Head(tape).text
      at == CurrentAssistant(cells)
      d == IF at # 0 /\ recon.open THEN WithPreview(content, cells[at].text)
           ELSE WithoutPreview(content)
  IN /\ tape # <<>> /\ Head(tape).role = "assistant"
     /\ tape' = Tail(tape)
     /\ recon' = [recon EXCEPT !.open = FALSE, !.awaiting = TRUE, !.live = FALSE,
                               !.held = d.held, !.suppress = d.suppress]
     /\ cells' = CASE d.act = "drop"    -> cells
                   [] d.act = "replace" -> [cells EXCEPT ![at].text = content]
                   [] d.act = "push"    -> Append(cells, Head(tape))
     /\ UNCHANGED <<out, hydrated, clipped, scrollback, boundary, others>>

\* push_turn_preview_cell, upsert_action_cell: a plan, notice or action is shown.
Other ==
  /\ others < MaxOthers
  /\ others' = others + 1
  /\ boundary' = Marked
  /\ cells' = Append(cells, [role |-> "other", text |-> <<>>])
  /\ UNCHANGED <<out, tape, hydrated, clipped, recon, scrollback>>

\* prune_rendered_prefix: when the live region overflows the first cells move to the scrollback, the open
\* assistant cell stays as the source of what is still to come.
CommitCells ==
  /\ Len(cells) > Viewport /\ CurrentAssistant(cells) # 1
  /\ scrollback' = Append(scrollback, Head(cells))
  /\ cells' = Tail(cells)
  /\ boundary' = IF boundary > 1 THEN boundary - 1 ELSE boundary
  /\ UNCHANGED <<out, tape, hydrated, clipped, recon, others>>

ReconcileNext ==
  \/ \E n \in 1 .. Len(out) : Output(n)
  \/ UserRecord \/ AssistantRecord
  \/ Other \/ CommitCells

ReconcileSpec == ReconcileInit /\ [][ReconcileNext]_reconcileVars

-----------------------------------------------------------------------------
Shown == SelectSeq(scrollback \o cells, IsMessage)

ReconcileSettled == out = <<>> /\ tape = <<>>

\* The renderer attached between two turns, and missed no output of a later one.
AttachedIdle ==
  /\ hydrated # <<>> => Last(hydrated).role = "assistant"
  /\ clipped = Len(Answers(hydrated))
  /\ \E talk \in Talks :
       /\ IsPrefix(hydrated, talk)
       /\ Len(hydrated) < Len(talk) => talk[Len(hydrated) + 1].role = "user"

=============================================================================
