------------------------------ MODULE OwnerWork -------------------------------
(***************************************************************************)
(* The bounded source-owner program of an Agent Machine.  One handler      *)
(* drives a work through source capture, at most one evaluation, at most   *)
(* one generation and perhaps a question to the user; it records a         *)
(* snapshot of the work in the rollout before each of these.  The rollout  *)
(* writer may fail, with the record on disk or without it, and then        *)
(* refuses every later write; an await under a deadline may be abandoned   *)
(* with its record written or not; the execution may be cancelled and the  *)
(* Process may crash between any two steps.  The next Process replays the  *)
(* records and copies them into a rollout of its own.                      *)
(*                                                                         *)
(* Sources, candidates, quotes and results are abstracted to whether they  *)
(* were captured, are valid, affordable or a match.                        *)
(***************************************************************************)
EXTENDS Naturals, Sequences, Functions

CONSTANTS
    Works,        \* submissions that ask for owner work, numbered as they first arrive
    MaxCrashes,   \* bound: crashes explored
    NoWork        \* no snapshot, no request

VARIABLES
    disk,      \* what a reader of the current rollout finds: snapshots, acks, observations
    queue,     \* records handed to the writer without waiting (record_nowait), or NoWork
    closed,    \* the writer has failed closed
    rollout,   \* identity of the current rollout
    live,      \* AgentMachine::owner_work
    observed,  \* AgentMachine::evaluation_observation
    pending,   \* the work whose question is a pending interaction, or NoWork
    run,       \* the handler: where it is, and its local snapshot
    cancel,    \* the execution's cancellation token
    shown,     \* the projection published as the Machine's work
    spent      \* history: the models dispatched for each work, over all Processes

vars == <<disk, queue, closed, rollout, live, observed, pending, run, cancel, shown, spent>>
store == <<disk, queue, closed>>
machine == <<live, observed, pending>>

Open == {"started", "waiting"}
Ended == {"completed", "failed", "cancelled"}

\* A snapshot of a work, the acknowledgement of its wait, and what is recorded of
\* an evaluation.
Snapshots ==
    [kind : {"work"}, work : Works, rollout : Nat, evidence : BOOLEAN,
     calls : SUBSET {"evaluator", "generation"}, asked : BOOLEAN,
     outcome : Open \cup Ended \cup {"interrupted"}]
Acks == [kind : {"ack"}, work : Works]
Observations ==
    [kind : {"eval"}, work : Works, rollout : Nat,
     outcome : {"started", "chosen", "nomatch", "ended", "interrupted"}]

\* NoWork stands for None.
ASSUME WorksAssumption ==
    /\ Works \subseteq Nat /\ NoWork \notin Works
    /\ NoWork \notin Snapshots \cup Acks \cup Observations

Fresh(w) ==
    [kind |-> "work", work |-> w, rollout |-> rollout, evidence |-> FALSE,
     calls |-> {}, asked |-> FALSE, outcome |-> "started"]
Ack(w) == [kind |-> "ack", work |-> w]
Observation(s, outcome) ==
    [kind |-> "eval", work |-> s.work, rollout |-> s.rollout, outcome |-> outcome]

\* A rollout without records, as replay sees it (see below).
Empty == [records |-> {}, last |-> [w \in Works |-> NoWork], acked |-> {},
          work |-> NoWork, eval |-> NoWork, ok |-> TRUE]

Idle == [pc |-> "idle", snap |-> NoWork]
Down == [pc |-> "down", snap |-> NoWork]

Init ==
    /\ disk = Empty /\ queue = NoWork /\ closed = FALSE /\ rollout = 0
    /\ live = NoWork /\ observed = NoWork /\ pending = NoWork
    /\ run = Idle /\ cancel = FALSE /\ shown = NoWork
    /\ spent = [w \in Works |-> <<>>]

-----------------------------------------------------------------------------
(* Replay.  The rollout is kept as what replaying its records one by one   *)
(* has found: the records, the last snapshot of each work, the waits       *)
(* acknowledged, the work and the evaluation named last, and whether every *)
(* record was acceptable where it stood.                                   *)

Valid(s) ==
    /\ s.outcome # "interrupted"
    /\ s.outcome = "completed" => s.evidence
    /\ s.outcome = "waiting" => s.asked

\* next: which snapshot may follow another of the same work.
Follows(previous, s) ==
    /\ previous.rollout = s.rollout
    /\ previous.outcome \in Open
    /\ previous.calls \subseteq s.calls
    /\ previous.evidence => s.evidence
    /\ previous.asked => s.asked
    /\ previous.outcome = "waiting" =>
        s.outcome # "started" /\ previous.calls = s.calls

WorkFits(d, s) ==
    /\ Valid(s)
    /\ IF d.last[s.work] = NoWork
       THEN s = [Fresh(s.work) EXCEPT !.rollout = s.rollout]
       ELSE d.last[s.work] = s \/ Follows(d.last[s.work], s)

AckFits(d, a) == d.last[a.work] # NoWork /\ d.last[a.work].outcome = "waiting"

\* evaluation::recover: the records of one evaluation are a start and at most one end.
ObservationFits(d, o) ==
    LET prior == {r \in d.records : r.kind = "eval" /\ r.work = o.work /\ r.rollout = o.rollout}
    IN  \/ prior = {} /\ o.outcome = "started"
        \/ o \in prior
        \/ prior = {[o EXCEPT !.outcome = "started"]}

Read(d, r) ==
    CASE r.kind = "work" ->
            [d EXCEPT !.records = @ \cup {r}, !.last[r.work] = r, !.work = r.work,
                      !.ok = @ /\ WorkFits(d, r)]
      [] r.kind = "ack" ->
            [d EXCEPT !.acked = @ \cup {r.work}, !.ok = @ /\ AckFits(d, r)]
      [] r.kind = "eval" ->
            [d EXCEPT !.records = @ \cup {r}, !.eval = r, !.ok = @ /\ ObservationFits(d, r)]

\* owner_work::recover
Recover(d) ==
    LET work == d.last[d.work]
    IN  CASE d.work = NoWork -> NoWork
          [] /\ d.work # NoWork
             /\ \/ work.outcome = "started"
                \/ work.outcome = "waiting" /\ d.work \notin d.acked ->
                [work EXCEPT !.outcome = "interrupted"]
          [] OTHER -> work

RecoverEvaluation(d) ==
    IF d.eval # NoWork /\ d.eval.outcome = "started"
    THEN [d.eval EXCEPT !.outcome = "interrupted"] ELSE d.eval

-----------------------------------------------------------------------------
(* The rollout writer: run_writer and the waits for its acknowledgements.   *)

Drained == IF queue = NoWork THEN disk ELSE Read(disk, queue)

Flush(acked) ==
    /\ queue' = NoWork
    /\ \/ acked /\ ~closed /\ disk' = Drained /\ UNCHANGED closed
       \/ ~acked /\ closed' = TRUE /\ disk' \in IF closed THEN {disk} ELSE {disk, Drained}

Write(r, acked) ==
    /\ queue' = NoWork
    /\ \/ acked /\ ~closed /\ disk' = Read(Drained, r) /\ UNCHANGED closed
       \/ /\ ~acked /\ closed' = TRUE
          /\ disk' \in IF closed THEN {disk} ELSE {disk, Drained, Read(Drained, r)}

\* The wait is dropped at its deadline or on cancellation; the writer goes on.
Abandoned(r) ==
    /\ ~closed /\ UNCHANGED closed
    /\ \/ UNCHANGED <<disk, queue>>
       \/ queue' = NoWork /\ disk' \in {Drained, Read(Drained, r)}

Recorded(r) == r \in disk.records

\* record_nowait's item reaches the file on its own, or the writer fails on it.
DrainNowait ==
    /\ queue # NoWork
    /\ queue' = NoWork
    /\ \/ ~closed /\ disk' = Drained /\ UNCHANGED closed
       \/ closed' = TRUE /\ UNCHANGED disk
    /\ UNCHANGED <<machine, rollout, run, cancel, shown, spent>>

\* Mutant: a snapshot is written without replaying it against the history.
MutWorkAdmissible(s) == s.rollout = rollout \/ disk.last[s.work] # NoWork

WorkAdmissible(s) ==
    /\ s.rollout = rollout \/ disk.last[s.work] # NoWork
    /\ Read(Drained, s).ok

\* Mutant: an ended work leaves its question pending.
MutAdopt(s) == live' = s /\ UNCHANGED pending

\* What an acknowledged snapshot changes in the Machine.
Adopt(s) ==
    /\ live' = s
    /\ pending' = IF s.outcome \in Ended /\ s.asked /\ pending = s.work THEN NoWork ELSE pending

\* Mutant: a record found in the history is taken for this submission's own.
MutConfirms(s) == Recorded(s)

\* A record that is already there only confirms the live one.
Confirms(s) == Recorded(s) /\ live = s

\* persist_owner_work
PersistWork(s, acked) ==
    \/ /\ Recorded(s) \/ ~WorkAdmissible(s)
       /\ \E flushed \in BOOLEAN :
            Flush(flushed) /\ acked = (flushed /\ Confirms(s))
       /\ UNCHANGED <<live, pending>>
    \/ /\ ~Recorded(s) /\ WorkAdmissible(s)
       /\ Write(s, acked)
       /\ IF acked THEN Adopt(s) ELSE UNCHANGED <<live, pending>>

ObservationAdmissible(o) ==
    /\ o.rollout = rollout
    /\ o.outcome # "started" => observed = [o EXCEPT !.outcome = "started"]
    /\ Read(Drained, o).ok

\* persist_evaluation_observation, awaited under a deadline.
PersistObservation(o, acked) ==
    \/ /\ Recorded(o) \/ ~ObservationAdmissible(o)
       /\ ~acked /\ \E flushed \in BOOLEAN : Flush(flushed)
       /\ UNCHANGED observed
    \/ /\ ~Recorded(o) /\ ObservationAdmissible(o)
       /\ Write(o, acked) \/ (~acked /\ Abandoned(o))
       /\ observed' = IF acked THEN o ELSE observed

-----------------------------------------------------------------------------
(* The handler.  A step that fails goes to "fail"; one whose model call may  *)
(* still be running goes to "return" without settling the work.             *)

At(pc) == run.pc = pc
Goto(pc, s) == run' = [pc |-> pc, snap |-> s]

\* handle, for a new work: admission, the start record and its publication.
Submit(w) ==
    /\ At("idle") /\ pending = NoWork
    /\ \A v \in 1 .. (w - 1) : disk.last[v] # NoWork
    /\ \E acked \in BOOLEAN :
        /\ PersistWork(Fresh(w), acked)
        /\ shown' \in IF acked THEN {shown, Fresh(w)} ELSE {shown}
        /\ \/ acked /\ shown' = Fresh(w) /\ Goto("capture", Fresh(w))
           \/ Goto("return", NoWork)
    /\ UNCHANGED <<observed, rollout, cancel, spent>>

\* advance reads every source, then records the evidence.
Capture ==
    /\ At("capture")
    /\ LET s == [run.snap EXCEPT !.evidence = TRUE] IN
        \/ ~cancel /\ \E acked \in BOOLEAN :
            PersistWork(s, acked) /\ Goto(IF acked THEN "decide" ELSE "fail", s)
        \/ Goto("fail", run.snap) /\ UNCHANGED <<store, live, pending>>
    /\ UNCHANGED <<observed, rollout, cancel, shown, spent>>

\* validate_owner re-reads the chosen owner's sources.
Validated(valid, s) ==
    IF valid /\ ~cancel THEN Goto("settle", [s EXCEPT !.outcome = "completed"])
    ELSE Goto("fail", s)

Literal ==
    /\ At("decide")
    /\ \E valid \in BOOLEAN : Validated(valid, run.snap)
    /\ UNCHANGED <<store, machine, rollout, cancel, shown, spent>>

\* No literal owner: capture the evaluator and record its call as spent.
SpendEvaluator ==
    /\ At("decide")
    /\ LET s == [run.snap EXCEPT !.calls = {"evaluator"}] IN
        \/ \E acked \in BOOLEAN :
            PersistWork(s, acked) /\ Goto(IF acked THEN "allocate" ELSE "fail", s)
        \/ Goto("fail", run.snap) /\ UNCHANGED <<store, live, pending>>
    /\ UNCHANGED <<observed, rollout, cancel, shown, spent>>

\* evaluate_captured_choice up to the commit: a failed allocation, start record or
\* publication aborts the operation; an unconfirmed abort leaves it uncertain.
Allocate ==
    /\ At("allocate")
    /\ \/ /\ UNCHANGED <<store, observed>>
          /\ \E pc \in {"fail", "return"} : Goto(pc, run.snap)
       \/ \E acked \in BOOLEAN :
            /\ PersistObservation(Observation(run.snap, "started"), acked)
            /\ acked => ~cancel
            /\ \E pc \in {"fail", "return"} \cup IF acked THEN {"commit"} ELSE {} :
                Goto(pc, run.snap)
    /\ UNCHANGED <<live, pending, rollout, cancel, shown, spent>>

Dispatch(s, call) == spent' = [spent EXCEPT ![s.work] = Append(@, call)]

\* commit: the clunk of data starts the evaluation, unless it was stopped before.
CommitEvaluation ==
    /\ At("commit")
    /\ \/ Dispatch(run.snap, "evaluator")
       \/ UNCHANGED spent
    /\ \E pc \in {"return", "chosen", "nomatch", "ended"} :
        /\ pc \in {"chosen", "nomatch"} => spent' # spent /\ ~cancel
        /\ Goto(pc, run.snap)
    /\ UNCHANGED <<store, machine, rollout, cancel, shown>>

\* The terminal observation is recorded, then published.
SettleEvaluation(result) ==
    /\ At(result)
    /\ \E acked \in BOOLEAN :
        /\ PersistObservation(Observation(run.snap, result), acked)
        /\ acked => result = "ended" \/ ~cancel
        /\ \/ ~acked /\ Goto("return", run.snap)
           \/ acked /\ Goto("fail", run.snap)
           \/ acked /\ result = "chosen" /\ \E valid \in BOOLEAN : Validated(valid, run.snap)
           \/ acked /\ result = "nomatch" /\ \E pc \in {"spend", "wait"} : Goto(pc, run.snap)
    /\ UNCHANGED <<live, pending, rollout, cancel, shown, spent>>

\* Mutant: the spent generation is left to the record that settles the work.
MutSpendGeneration ==
    /\ At("spend")
    /\ Goto("generate", [run.snap EXCEPT !.calls = @ \cup {"generation"}])
    /\ UNCHANGED <<store, machine, rollout, cancel, shown, spent>>

\* An affordable quote: the generation is recorded as spent, under the deadline.
SpendGeneration ==
    /\ At("spend")
    /\ LET s == [run.snap EXCEPT !.calls = @ \cup {"generation"}] IN
        \/ ~cancel /\ \E acked \in BOOLEAN :
            PersistWork(s, acked) /\ Goto(IF acked THEN "generate" ELSE "fail", s)
        \/ Abandoned(s) /\ Goto("fail", s) /\ UNCHANGED <<live, pending>>
        \/ cancel /\ Goto("fail", run.snap) /\ UNCHANGED <<store, live, pending>>
    /\ UNCHANGED <<observed, rollout, cancel, shown, spent>>

\* generate_fallback, and what its result says.
Generate ==
    /\ At("generate")
    /\ \/ UNCHANGED spent /\ \E pc \in {"fail", "return"} : Goto(pc, run.snap)
       \/ /\ ~cancel /\ Dispatch(run.snap, "generation")
          /\ \/ Goto("return", run.snap)
             \/ \E valid \in BOOLEAN : Validated(valid, run.snap)
    /\ UNCHANGED <<store, machine, rollout, cancel, shown>>

\* wait: the question is written, then the parked work, then (without waiting) the
\* acknowledgement that makes the wait recoverable.
Wait ==
    /\ At("wait")
    /\ LET s == [run.snap EXCEPT !.asked = TRUE, !.outcome = "waiting"] IN
        \/ Goto("fail", run.snap) /\ UNCHANGED <<store, live, pending>>
        \/ /\ ~Recorded(s) /\ WorkAdmissible(s) /\ ~closed
           /\ disk' = Read(Drained, s) /\ queue' = Ack(s.work) /\ UNCHANGED closed
           /\ live' = s /\ pending' = s.work
           /\ Goto("settle", s)
        \/ /\ Write(s, FALSE)
           /\ live' = [live EXCEPT !.outcome = "interrupted"]
           /\ UNCHANGED pending
           /\ Goto("fail", s)
    /\ UNCHANGED <<observed, rollout, cancel, shown, spent>>

\* The outcome of advance, recorded by settle.
Settle ==
    /\ run.pc \in {"settle", "fail"}
    /\ LET outcome == CASE cancel -> "cancelled"
                        [] ~cancel /\ At("fail") -> "failed"
                        [] OTHER -> run.snap.outcome
           s == [run.snap EXCEPT !.outcome = outcome]
       IN \E acked \in BOOLEAN : PersistWork(s, acked)
    /\ Goto("return", NoWork)
    /\ UNCHANGED <<observed, rollout, cancel, shown, spent>>

\* advance_accepted_submission publishes the live work once the handler returned.
Return ==
    /\ At("return")
    /\ shown' \in {shown, live}
    /\ run' = Idle /\ cancel' = FALSE
    /\ UNCHANGED <<store, machine, rollout, spent>>

\* handle, for the answer to a parked work's question.
Resume ==
    /\ At("idle") /\ live # NoWork /\ live.outcome = "waiting" /\ pending = live.work
    /\ \E outcome \in Ended : run' = [pc |-> "answer", snap |-> [live EXCEPT !.outcome = outcome]]
    /\ UNCHANGED <<store, machine, rollout, cancel, shown, spent>>

SettleAnswer ==
    /\ At("answer")
    /\ \E acked \in BOOLEAN : PersistWork(run.snap, acked)
    /\ Goto("return", NoWork)
    /\ UNCHANGED <<observed, rollout, cancel, shown, spent>>

\* reset_turn_after_cancelling_host_mounts: a parked work is cancelled first; its
\* question leaves the pending interactions with the acknowledged record.
CancelParked ==
    /\ At("idle") /\ live # NoWork /\ live.outcome = "waiting"
    /\ \E acked \in BOOLEAN : PersistWork([live EXCEPT !.outcome = "cancelled"], acked)
    /\ Goto("return", NoWork)
    /\ UNCHANGED <<observed, rollout, cancel, shown, spent>>

\* The user cancels the running execution.
Cancel ==
    /\ run.pc \notin {"idle", "down", "return", "answer"} /\ ~cancel
    /\ cancel' = TRUE
    /\ UNCHANGED <<store, machine, rollout, run, shown, spent>>

Crash ==
    /\ ~At("down") /\ rollout < MaxCrashes
    /\ disk' \in {disk, Drained} /\ (closed => disk' = disk) /\ queue' = NoWork
    /\ run' = Down /\ cancel' = FALSE
    /\ live' = NoWork /\ observed' = NoWork /\ pending' = NoWork /\ shown' = NoWork
    /\ UNCHANGED <<closed, rollout, spent>>

\* load_from_rollout and the start of the runtime: replay, copy into a new rollout,
\* take up an acknowledged wait again, publish.
Restart ==
    /\ At("down")
    /\ disk.ok
    /\ rollout' = rollout + 1 /\ closed' = FALSE
    /\ live' = Recover(disk)
    /\ observed' = RecoverEvaluation(disk)
    /\ pending' = IF live' # NoWork /\ live'.outcome = "waiting" THEN live'.work ELSE NoWork
    /\ shown' = live'
    /\ run' = Idle
    /\ UNCHANGED <<disk, queue, cancel, spent>>

Next ==
    \/ \E w \in Works : Submit(w)
    \/ Capture \/ Literal \/ SpendEvaluator \/ Allocate \/ CommitEvaluation
    \/ \E result \in {"chosen", "nomatch", "ended"} : SettleEvaluation(result)
    \/ SpendGeneration \/ Generate \/ Wait \/ Settle \/ Return
    \/ Resume \/ SettleAnswer \/ CancelParked \/ Cancel \/ DrainNowait
    \/ Crash \/ Restart

Spec == Init /\ [][Next]_vars

-----------------------------------------------------------------------------
Ledger ==
    INSTANCE WorkLedger WITH
        status <- [w \in Works |-> IF disk.last[w] = NoWork THEN "none"
                                   ELSE disk.last[w].outcome]

\* What a reader of the rollout finds of each work, over every crash, failed or
\* abandoned write, restart and repeated submission, is a run of the ledger: opened
\* once, each model dispatched at most once and only while the work is open, parked
\* before any generation, ended once (persist_owner_work, advance).
ImplementsLedger == Ledger!Spec

\* Every dispatched model is recorded as spent in the rollout, so that no Process that
\* recovers from it can take the call for unspent (advance's persist before dispatch).
SpentIsRecorded ==
    \A w \in Works : \A call \in Range(spent[w]) :
        \E r \in disk.records : r.kind = "work" /\ r.work = w /\ call \in r.calls

\* Whatever mixture of lost, unacknowledged and abandoned records a crash leaves behind,
\* replay accepts it: no conflict of its own making ever stops an Agent from restarting
\* (owner_work::recover, evaluation::recover).
RecoveryNeverFails == disk.ok /\ Drained.ok

\* A work is parked in the Machine exactly when its question is a pending interaction,
\* and what is published as ended is ended on disk (settle, wait, load_from_rollout).
ParkedIsAnswerable ==
    /\ (live # NoWork /\ live.outcome = "waiting") <=> pending # NoWork
    /\ pending # NoWork => live.work = pending
    /\ shown # NoWork /\ shown.outcome \in Ended => Recorded(shown)

\* The three together: what the Machine holds, shows and has spent is what the
\* rollout says, and the rollout can always be read (persist_owner_work, recover,
\* load_from_rollout).
WorkIsAccounted == SpentIsRecorded /\ RecoveryNeverFails /\ ParkedIsAnswerable
=============================================================================
