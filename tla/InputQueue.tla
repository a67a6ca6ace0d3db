------------------------------ MODULE InputQueue ------------------------------
(***************************************************************************)
(* The durable input queue of an Agent Machine: how a submission becomes   *)
(* admitted, queued, dispatched, removed or recovered.                     *)
(*                                                                         *)
(* Three actors share the queue.  The Process loop (runtime/engine.rs)     *)
(* admits and pops submissions while nothing runs.  An execution           *)
(* (advance_accepted_submission) drives one submission at a time.  While   *)
(* it runs, an observer admits what arrives and serves queue controls;     *)
(* the two interleave at every await.  Every admission, dispatch and       *)
(* removal is a record of the rollout file, whose writer may fail after    *)
(* the record became visible or before it did, and which then refuses      *)
(* every later write.  A crash loses all memory; the next Process rebuilds *)
(* the queue from the records and starts paused.                           *)
(***************************************************************************)
EXTENDS Naturals, FiniteSets, Sequences, SequencesExt

CONSTANTS
    Turns,         \* inputs that are Op::Turn
    FollowUps,     \* inputs that are Op::Input in mode FollowUp
    Steers,        \* inputs that are Op::Input in mode Steer
    NextTurns,     \* inputs that are Op::Input in mode NextTurn
    InbandMax,     \* MAX_BROKERED_INBAND_USER_INPUTS
    BufferMax,     \* MAX_BUFFERED_INBAND_USER_INPUTS
    NextMax,       \* MAX_QUEUED_NEXT_TURN_INPUTS
    PendingMax,    \* bound: deliveries stop while this many items are pending
    Mixes,         \* bound: the sets of inputs that may have been sent
    MaxCrashes,    \* bound: crashes explored
    CalmAfter,     \* bound: with more inputs than this sent nothing failed or crashed
    MaxDeferred,   \* bound: deferred actions produced in one Process
    NoInput,       \* no submission
    Resume,        \* the identity of a request response run as a submission
    Deferred       \* a deferred housekeeping action in the ordinary queue

VARIABLES
    disk,      \* what a reader of the rollout finds: admissions, removals, dispatches
    closed,    \* the rollout writer has failed closed
    q,         \* MachineInputQueue
    exec,      \* the Process loop and the execution it drives
    turn,      \* "none" | "active" | "waiting" (has_pending_interaction)
    cancel,    \* the execution's cancellation token
    obs,       \* the observer's handler in progress
    ran,       \* the inputs that entered an Agent turn, in order, over all Processes
    told,      \* inputs reported as ended without execution
    noticed,   \* inputs reported as unprepared, their disposition left to recovery
    inherited, \* inputs this Process recovered from its predecessor
    resumed,   \* /continue was accepted since the recovery
    doubted,   \* inputs one of whose admissions or preparations was reported failed
    budget     \* what is left of the bounds: crashes and deferred actions

vars == <<disk, closed, q, exec, turn, cancel, obs, ran, told, noticed,
          inherited, resumed, doubted, budget>>

Inputs == Turns \cup FollowUps \cup Steers \cup NextTurns

Idle == [pc |-> "idle", sub |-> NoInput, hand |-> NoInput, ids |-> <<>>]
Watching == [op |-> "none", id |-> NoInput]

Init ==
    /\ disk = [admits |-> <<>>, removals |-> {}, dispatched |-> {}]
    /\ closed = FALSE
    /\ q = [pending |-> <<>>, paused |-> FALSE, admitted |-> {}, settled |-> {},
            uncertain |-> {}, rejects |-> {}, active |-> {},
            inband |-> <<>>, buffered |-> <<>>, next |-> <<>>]
    /\ exec = Idle
    /\ turn = "none"
    /\ cancel = FALSE
    /\ obs = Watching
    /\ ran = <<>>
    /\ told = {}
    /\ noticed = {}
    /\ inherited = {}
    /\ resumed = FALSE
    /\ doubted = {}
    /\ budget = [crashes |-> MaxCrashes, deferred |-> MaxDeferred]

-----------------------------------------------------------------------------
(* The rollout writer.  A batch is acknowledged; or it fails with the record *)
(* complete on disk, or with a torn one no reader accepts.  Any failure      *)
(* closes the writer.                                                        *)

Outcomes == IF closed THEN {"refused"} ELSE {"acked", "unacked", "torn"}
Visible(o) == o \in {"acked", "unacked"}

Wrote(o, record) ==
    /\ closed' = (o # "acked")
    /\ disk' = IF Visible(o) THEN record ELSE disk

(* persist_input_removals looks for the exact record before and after writing. *)
Removes(ids, ok) ==
    \/ /\ ids = <<>> \/ ids \in disk.removals
       /\ ok
       /\ UNCHANGED <<disk, closed>>
    \/ /\ ids # <<>> /\ ids \notin disk.removals
       /\ \E o \in Outcomes :
            /\ Wrote(o, [disk EXCEPT !.removals = @ \cup {ids}])
            /\ ok = Visible(o)

Admits(i, ok) ==
    \E o \in Outcomes :
        /\ Wrote(o, [disk EXCEPT !.admits = Append(@, i)])
        /\ ok = (o = "acked")

Dispatches(ids, ok) ==
    \E o \in Outcomes :
        /\ Wrote(o, [disk EXCEPT !.dispatched = @ \cup ToSet(ids)])
        /\ ok = (o = "acked")

\* Mutant: a write that was not acknowledged still settles the inputs.
MutSettled(s, ids, ok) ==
    [s EXCEPT !.settled = @ \cup ToSet(ids), !.uncertain = @ \ ToSet(ids)]

(* The queue's memory of a removal or a dispatch. *)
Settled(s, ids, ok) ==
    IF ok THEN [s EXCEPT !.settled = @ \cup ToSet(ids), !.uncertain = @ \ ToSet(ids)]
          ELSE [s EXCEPT !.uncertain = @ \cup ToSet(ids)]

-----------------------------------------------------------------------------
(* Queue positions. *)

Ordinary(items) == SelectSeq(items, LAMBDA x : x # Deferred)
Housekeeping(items) == SelectSeq(items, LAMBDA x : x = Deferred)

\* Mutant: a pushed submission overtakes the queued ones.
MutPushAll(items, ids) == ids \o Ordinary(items) \o Housekeeping(items)

(* push_submission_ahead_of_deferred *)
PushAll(items, ids) == Ordinary(items) \o ids \o Housekeeping(items)
Push(s, i) == [s EXCEPT !.pending = PushAll(@, <<i>>)]

Without(items, i) == SelectSeq(items, LAMBDA x : x # i)

Drop(s, i) ==
    [s EXCEPT !.pending = Without(@, i), !.inband = Without(@, i),
              !.buffered = Without(@, i), !.next = Without(@, i),
              !.rejects = @ \ {i}]

Queued(s) ==
    ToSet(Ordinary(s.pending)) \cup ToSet(s.inband) \cup ToSet(s.buffered)
        \cup ToSet(s.next)

(* The execution returned: without a pending interaction the Machine is idle *)
(* and nothing is cancellable any more.                                      *)
Ended(s, t) == IF t = "waiting" THEN s ELSE [s EXCEPT !.active = {}]

AcceptsInband == exec.sub \in Turns \cup FollowUps
Return(t) == /\ exec' = [exec EXCEPT !.pc = "settle", !.hand = NoInput, !.ids = <<>>]
             /\ turn' = IF t = "waiting" THEN t ELSE "none"

(* retain_durable_failure *)
Retained(s, i) ==
    [s EXCEPT !.paused = TRUE, !.rejects = @ \cup {i},
              !.pending = IF i \in ToSet(@) THEN @ ELSE PushAll(@, <<i>>)]

(* fail_accepted_input: durable removal, then no queue holds the input. *)
FailAccepted(s, i) ==
    \E ok \in BOOLEAN :
        /\ Removes(<<i>>, ok)
        /\ q' = IF ok THEN Drop(Settled(s, <<i>>, ok), i)
                      ELSE Retained(Settled(s, <<i>>, ok), i)
        /\ told' = IF ok THEN told \cup {i} ELSE told

(* remove_input by the execution: a failed removal buffers the input again. *)
RemoveInput(s, i, t) ==
    \E ok \in BOOLEAN :
        /\ Removes(<<i>>, ok)
        /\ LET r == Settled(s, <<i>>, ok)
           IN q' = Ended(IF ok THEN r ELSE [r EXCEPT !.buffered = Append(@, i)], t)
        /\ told' = IF ok THEN told \cup {i} ELSE told
        /\ Return(t)

(* reject_admission: report the failure, or hold the input behind a pause. *)
RejectAdmission(s, i) ==
    /\ doubted' = doubted \cup {i}
    /\ \/ q' = s
       \/ q' = [Push(s, i) EXCEPT !.paused = TRUE]

(* A capture that fails leaves no record at all. *)
CaptureFails == UNCHANGED <<disk, closed>>

-----------------------------------------------------------------------------
(* The Process loop, while nothing executes. *)

rest == <<ran, noticed, inherited, resumed, budget>>

Sent == q.admitted \cup doubted
Calm == doubted = {} /\ ~closed /\ budget.crashes = MaxCrashes

Sendable(i) ==
    /\ i \notin q.settled \cup q.admitted
    /\ Len(q.pending) < PendingMax
    /\ Sent \cup {i} \in Mixes
    /\ Cardinality(Sent) < CalmAfter \/ Calm

(* A submission arrives.  Settled and admitted identities are ignored. *)
Deliver(i) ==
    /\ exec.pc = "idle" /\ Sendable(i)
    /\ \/ \E ok \in BOOLEAN :
            /\ Admits(i, ok)
            /\ IF ok
               THEN /\ q' = Push([q EXCEPT !.admitted = @ \cup {i}], i)
                    /\ UNCHANGED doubted
               ELSE RejectAdmission(q, i)
       \/ CaptureFails /\ RejectAdmission(q, i)
    /\ UNCHANGED <<rest, exec, turn, cancel, obs, told>>

(* pop_outer: a popped input that is not admitted yet is admitted first. *)
PopOuter ==
    /\ exec.pc = "idle" /\ turn = "none" /\ ~q.paused /\ q.pending # <<>>
    /\ LET i == Head(q.pending)
           s == [q EXCEPT !.pending = Tail(@)]
       IN \/ /\ i = Deferred
             /\ q' = s
             /\ exec' = [Idle EXCEPT !.pc = "deferred"]
             /\ cancel' = FALSE
             /\ UNCHANGED <<disk, closed, doubted>>
          \/ /\ i \in q.settled
             /\ q' = s
             /\ UNCHANGED <<disk, closed, exec, cancel, doubted>>
          \/ /\ i \in q.admitted \ q.settled
             /\ q' = s
             /\ exec' = [Idle EXCEPT !.pc = "begin", !.sub = i]
             /\ UNCHANGED <<disk, closed, cancel, doubted>>
          \/ /\ i \in Inputs \ (q.admitted \cup q.settled)
             /\ \E ok \in BOOLEAN :
                  /\ Admits(i, ok) \/ (~ok /\ CaptureFails)
                  /\ IF ok
                     THEN /\ q' = [s EXCEPT !.admitted = @ \cup {i}]
                          /\ exec' = [Idle EXCEPT !.pc = "begin", !.sub = i]
                          /\ UNCHANGED doubted
                     ELSE RejectAdmission(s, i) /\ UNCHANGED exec
             /\ UNCHANGED cancel
    /\ UNCHANGED <<rest, turn, obs, told>>

(* activate_binding and the orphan-steer check, then the execution starts *)
(* with its identity published.                                           *)
Begin ==
    /\ exec.pc = "begin"
    /\ \/ /\ FailAccepted(q, exec.sub)
          /\ exec' = Idle
          /\ UNCHANGED cancel
       \/ /\ exec.sub \notin Steers
          /\ q' = [q EXCEPT !.active = {exec.sub}]
          /\ exec' = [exec EXCEPT !.pc = "start"]
          /\ cancel' = FALSE
          /\ UNCHANGED <<disk, closed, told>>
    /\ UNCHANGED <<rest, turn, obs, doubted>>

(* A request response for a turn that was left waiting runs by itself. *)
ResumeWaiting ==
    /\ exec.pc = "idle" /\ turn = "waiting"
    /\ exec' = [Idle EXCEPT !.pc = "turn", !.sub = Resume]
    /\ turn' = "active"
    /\ cancel' = FALSE
    /\ UNCHANGED <<rest, disk, closed, q, obs, told, doubted>>

(* The idle interrupt pauses queued work and clears a waiting turn. *)
ClearTurn(s) ==
    /\ q' = IF turn = "waiting"
            THEN [s EXCEPT !.paused = TRUE, !.active = {}, !.buffered = <<>>]
            ELSE s
    /\ turn' = "none"

IdleInterrupt ==
    /\ exec.pc = "idle"
    /\ turn = "waiting" \/ Ordinary(q.pending) # <<>> \/ q.next # <<>>
    /\ ClearTurn([q EXCEPT !.paused = @ \/ Ordinary(q.pending) # <<>> \/ q.next # <<>>])
    /\ UNCHANGED <<rest, disk, closed, exec, cancel, obs, told, doubted>>

(* interrupt_submission while nothing executes. *)
IdleCancel(i) ==
    /\ exec.pc = "idle"
    /\ \/ /\ i \in Queued(q)
          /\ \E ok \in BOOLEAN :
               /\ Removes(<<i>>, ok)
               /\ q' = IF ok THEN [Drop(Settled(q, <<i>>, ok), i) EXCEPT !.paused = TRUE]
                             ELSE Settled(q, <<i>>, ok)
               /\ told' = IF ok THEN told \cup {i} ELSE told
          /\ UNCHANGED turn
       \/ /\ i \in q.active \ Queued(q)
          /\ ClearTurn([q EXCEPT !.paused = TRUE])
          /\ UNCHANGED <<disk, closed, told>>
    /\ UNCHANGED <<rest, exec, cancel, obs, doubted>>

(* /continue; a recovered queue also needs current project authority, which *)
(* the user grants outside the queue.                                       *)
Continue ==
    /\ exec.pc = "idle" /\ q.paused
    /\ q.rejects = {} /\ q.uncertain = {}
    /\ q' = [q EXCEPT !.paused = FALSE]
    /\ resumed' = TRUE
    /\ UNCHANGED <<disk, closed, exec, turn, cancel, obs, ran, told, noticed,
                   inherited, doubted, budget>>

(* /discard: one removal record for everything queued. *)
DiscardSet(s) ==
    FoldLeft(LAMBDA ids, i : IF i \in ToSet(ids) THEN ids ELSE Append(ids, i),
             <<>>, Ordinary(s.pending) \o s.next)

Discard ==
    /\ exec.pc = "idle" /\ q.paused
    /\ LET ids == DiscardSet(q)
       IN \E ok \in BOOLEAN :
            /\ Removes(ids, ok)
            /\ q' = LET r == Settled(q, ids, ok)
                    IN IF ok
                       THEN [r EXCEPT !.pending = Housekeeping(@), !.next = <<>>,
                                      !.rejects = @ \ ToSet(ids), !.paused = FALSE]
                       ELSE r
            /\ told' = IF ok THEN told \cup ToSet(ids) ELSE told
    /\ UNCHANGED <<rest, exec, turn, cancel, obs, doubted>>

-----------------------------------------------------------------------------
(* The execution of one submission. *)

Run(ids) == ran' = ran \o ids
Step(pc) == exec' = [exec EXCEPT !.pc = pc]

(* cancelled_before_start: the cancelled input is removed, not executed. *)
CancelledBeforeStart ==
    /\ cancel
    /\ RemoveInput(q, exec.sub, turn)
    /\ UNCHANGED <<rest, cancel, obs, doubted>>

(* A follow-up is dispatched durably before anything else happens to it. *)
PrepareFollowUp ==
    /\ exec.pc = "start" /\ exec.sub \in FollowUps
    /\ \/ /\ q' = Ended(q, turn)                     \* shadow evaluation failed
          /\ noticed' = noticed \cup {exec.sub}
          /\ doubted' = doubted \cup {exec.sub}
          /\ Return(turn)
          /\ UNCHANGED <<disk, closed>>
       \/ \E ok \in BOOLEAN :
            /\ Dispatches(<<exec.sub>>, ok)
            /\ LET r == Settled(q, <<exec.sub>>, ok)
               IN q' = IF ok THEN r ELSE Ended(r, turn)
            /\ IF ok THEN Step("go") /\ UNCHANGED turn ELSE Return(turn)
            /\ UNCHANGED <<noticed, doubted>>
    /\ UNCHANGED <<cancel, obs, ran, told, inherited, resumed, budget>>

(* drive_turn_submission for a follow-up: the tape lease may be refused. *)
StartFollowUp ==
    /\ exec.pc = "go"
    /\ \/ CancelledBeforeStart
       \/ /\ ~cancel
          /\ \/ /\ q' = [q EXCEPT !.buffered = <<>>]
                /\ Run(<<exec.sub>>)
                /\ turn' = "active"
                /\ Step("turn")
             \/ /\ q' = Ended([q EXCEPT !.buffered = <<>>], turn)
                /\ Return(turn)
                /\ UNCHANGED ran
          /\ UNCHANGED <<disk, closed, cancel, obs, told, noticed, inherited,
                         resumed, doubted, budget>>

(* A next-turn input is retained for the next explicit turn, or removed when *)
(* the queue is full.                                                        *)
QueueNextTurn ==
    /\ exec.pc = "start" /\ exec.sub \in NextTurns
    /\ \/ CancelledBeforeStart
       \/ /\ ~cancel
          /\ \/ /\ Len(q.next) < NextMax
                /\ q' = Ended([q EXCEPT !.next = Append(@, exec.sub)], turn)
                /\ UNCHANGED <<disk, closed, told>>
             \/ /\ Len(q.next) >= NextMax
                /\ \E ok \in BOOLEAN :
                     /\ Removes(<<exec.sub>>, ok)
                     /\ q' = Ended(Settled(q, <<exec.sub>>, ok), turn)
                     /\ told' = IF ok THEN told \cup {exec.sub} ELSE told
          /\ Return(turn)
          /\ UNCHANGED <<rest, cancel, obs, doubted>>

(* begin_turn_dispatch: the correlated set is read first; an incompatible *)
(* turn is removed.                                                       *)
PrepareTurn ==
    /\ exec.pc = "start" /\ exec.sub \in Turns
    /\ \/ CancelledBeforeStart
       \/ /\ ~cancel /\ q.next # <<>>
          /\ RemoveInput([q EXCEPT !.buffered = <<>>], exec.sub, turn)
          /\ UNCHANGED <<rest, cancel, obs, doubted>>
       \/ /\ ~cancel
          /\ q' = [q EXCEPT !.buffered = <<>>]
          /\ exec' = [exec EXCEPT !.pc = "lease", !.ids = Append(q.next, exec.sub)]
          /\ UNCHANGED <<rest, disk, closed, turn, cancel, obs, told, doubted>>

(* The tape lease comes first, then one dispatch record for the set. *)
DispatchTurn ==
    /\ exec.pc = "lease"
    /\ \/ /\ RemoveInput(q, exec.sub, turn)
          /\ UNCHANGED <<rest, cancel, obs, doubted>>
       \/ /\ \E ok \in BOOLEAN :
               /\ Dispatches(exec.ids, ok)
               /\ LET r == Settled(q, exec.ids, ok)
                  IN q' = IF ok THEN r ELSE Ended(r, turn)
               /\ IF ok THEN Step("drain") /\ UNCHANGED turn ELSE Return(turn)
          /\ UNCHANGED <<rest, cancel, obs, told, doubted>>

(* The turn consumes whatever the next-turn queue holds now. *)
StartTurn ==
    /\ exec.pc = "drain"
    /\ Run(Append(q.next, exec.sub))
    /\ q' = [q EXCEPT !.next = <<>>, !.buffered = <<>>, !.active = @ \cup ToSet(q.next)]
    /\ turn' = "active"
    /\ exec' = [exec EXCEPT !.pc = "turn", !.ids = <<>>]
    /\ UNCHANGED <<disk, closed, cancel, obs, told, noticed, inherited, resumed,
                   doubted, budget>>

(* handle_queued_steering_inputs: pop, dispatch durably, join the turn. *)
TakeSteer ==
    /\ exec.pc = "turn" /\ AcceptsInband /\ q.inband # <<>>
    /\ exec' = [exec EXCEPT !.pc = "steer", !.hand = Head(q.inband)]
    /\ q' = [q EXCEPT !.inband = Tail(@)]
    /\ UNCHANGED <<rest, disk, closed, turn, cancel, obs, told, doubted>>

JoinSteer ==
    /\ exec.pc = "steer"
    /\ LET s == exec.hand
       IN \/ /\ q' = Ended([q EXCEPT !.buffered = Append(@, s)], "none")
             /\ Return("none")
             /\ UNCHANGED <<disk, closed, ran>>
          \/ \E ok \in BOOLEAN :
               /\ Dispatches(<<s>>, ok)
               /\ LET r == Settled(q, <<s>>, ok)
                  IN q' = IF ok THEN [r EXCEPT !.active = @ \cup {s}]
                                ELSE Ended([r EXCEPT !.buffered = Append(@, s)], "none")
               /\ IF ok
                  THEN /\ Run(<<s>>)
                       /\ exec' = [exec EXCEPT !.pc = "turn", !.hand = NoInput]
                       /\ UNCHANGED turn
                  ELSE Return("none") /\ UNCHANGED ran
    /\ UNCHANGED <<cancel, obs, told, noticed, inherited, resumed, doubted, budget>>

(* reset_turn, on cancellation inside an active turn. *)
CancelTurn ==
    /\ exec.pc = "turn" /\ cancel
    /\ q' = [q EXCEPT !.buffered = <<>>, !.active = {}]
    /\ turn' = "none"
    /\ Step(IF AcceptsInband THEN "after" ELSE "settle")
    /\ UNCHANGED <<rest, disk, closed, cancel, obs, told, doubted>>

(* The turn yields to a request, completes, or fails. *)
EndTurn ==
    /\ exec.pc = "turn"
    /\ \/ /\ turn' = "waiting"
          /\ Step(IF AcceptsInband THEN "wait" ELSE "settle")
          /\ UNCHANGED q
       \/ /\ turn' = "none"
          /\ q' = [q EXCEPT !.active = {}]
          /\ Step(IF AcceptsInband THEN "after" ELSE "settle")
       \/ /\ q' = Ended(q, "none")
          /\ Return("none")
    /\ UNCHANGED <<rest, disk, closed, cancel, obs, told, doubted>>

(* next_pending_interaction_submission *)
BufferSteer ==
    /\ exec.pc = "wait" /\ q.inband # <<>>
    /\ LET s == Head(q.inband)
           r == [q EXCEPT !.inband = Tail(@)]
       IN \/ /\ Len(q.buffered) < BufferMax
             /\ q' = [r EXCEPT !.buffered = Append(@, s)]
             /\ UNCHANGED <<disk, closed, exec, turn, told>>
          \/ /\ Len(q.buffered) >= BufferMax
             /\ \E ok \in BOOLEAN :
                  /\ Removes(<<s>>, ok)
                  /\ LET d == Settled(r, <<s>>, ok)
                     IN q' = IF ok THEN d ELSE [d EXCEPT !.buffered = Append(@, s)]
                  /\ told' = IF ok THEN told \cup {s} ELSE told
                  /\ IF ok THEN UNCHANGED <<exec, turn>> ELSE Return("waiting")
    /\ UNCHANGED <<rest, cancel, obs, doubted>>

Answer ==
    /\ exec.pc = "wait"
    /\ turn' = "active"
    /\ Step("turn")
    /\ UNCHANGED <<rest, disk, closed, q, cancel, obs, told, doubted>>

(* emit_dropped_in_turn_submissions, then cancel_current_task. *)
CancelWait ==
    /\ exec.pc = "wait" /\ cancel /\ q.inband = <<>>
    /\ \E ok \in BOOLEAN :
         /\ Removes(q.buffered, ok)
         /\ q' = LET r == Settled(q, q.buffered, ok)
                 IN IF ok THEN [r EXCEPT !.buffered = <<>>, !.active = {}] ELSE r
         /\ told' = IF ok THEN told \cup ToSet(q.buffered) ELSE told
         /\ Return(IF ok THEN "none" ELSE "waiting")
    /\ UNCHANGED <<rest, cancel, obs, doubted>>

(* Late steering: whatever is left when the turn is over is removed. *)
TakeLate ==
    /\ exec.pc = "after"
    /\ \/ /\ q.buffered # <<>>
          /\ exec' = [exec EXCEPT !.pc = "late", !.hand = Head(q.buffered)]
          /\ q' = [q EXCEPT !.buffered = Tail(@)]
       \/ /\ q.buffered = <<>> /\ q.inband # <<>>
          /\ exec' = [exec EXCEPT !.pc = "late", !.hand = Head(q.inband)]
          /\ q' = [q EXCEPT !.inband = Tail(@)]
       \/ /\ q.buffered = <<>> /\ q.inband = <<>>
          /\ Step("settle")
          /\ UNCHANGED q
    /\ UNCHANGED <<rest, disk, closed, turn, cancel, obs, told, doubted>>

RemoveLate ==
    /\ exec.pc = "late"
    /\ \E ok \in BOOLEAN :
         /\ Removes(<<exec.hand>>, ok)
         /\ LET r == Settled(q, <<exec.hand>>, ok)
            IN q' = IF ok THEN r ELSE [r EXCEPT !.buffered = Append(@, exec.hand)]
         /\ told' = IF ok THEN told \cup {exec.hand} ELSE told
         /\ IF ok
            THEN exec' = [exec EXCEPT !.pc = "after", !.hand = NoInput] /\ UNCHANGED turn
            ELSE Return("none")
    /\ UNCHANGED <<rest, cancel, obs, doubted>>

(* The observer has stopped: leftovers return to the ordinary queue, a      *)
(* cancelled execution leaves it paused, and deferred actions are appended. *)
Requeued(s) ==
    IF AcceptsInband
    THEN [s EXCEPT !.pending = PushAll(@, s.buffered \o s.inband),
                   !.buffered = <<>>, !.inband = <<>>]
    ELSE s

Settle ==
    /\ exec.pc = "settle" /\ obs = Watching
    /\ \E n \in 0 .. IF AcceptsInband THEN budget.deferred ELSE 0 :
         /\ q' = LET r == Requeued(q)
                 IN [r EXCEPT !.pending = @ \o [k \in 1 .. n |-> Deferred],
                              !.paused = @ \/ cancel]
         /\ budget' = [budget EXCEPT !.deferred = @ - n]
    /\ exec' = Idle
    /\ cancel' = FALSE
    /\ UNCHANGED <<disk, closed, turn, obs, ran, told, noticed, inherited,
                   resumed, doubted>>

-----------------------------------------------------------------------------
(* The observer, while a submission or a deferred action executes. *)

Observing == exec.pc \notin {"idle", "begin"} /\ obs = Watching

(* admit_during_submission, admit_during_deferred: acknowledged admission *)
(* comes before any queue position.                                      *)
ObserveDelivery(i) ==
    /\ Observing /\ Sendable(i)
    /\ \E ok \in BOOLEAN :
         /\ Admits(i, ok) \/ (~ok /\ CaptureFails)
         /\ IF ok
            THEN /\ q' = [q EXCEPT !.admitted = @ \cup {i}]
                 /\ obs' = [op |-> "place", id |-> i]
                 /\ UNCHANGED doubted
            ELSE RejectAdmission(q, i) /\ UNCHANGED obs
    /\ UNCHANGED <<rest, exec, turn, cancel, told>>

(* Steering that does not match the active binding fails; other steering joins *)
(* the turn's broker while it has room; everything else waits its turn.        *)
ToBroker(i) == AcceptsInband /\ i \in Steers /\ Len(q.inband) < InbandMax

ObservePlace ==
    /\ obs.op = "place"
    /\ LET i == obs.id
       IN \/ /\ exec.pc = "deferred"
             /\ q' = Push(q, i)
             /\ cancel' = TRUE
             /\ exec' = [exec EXCEPT !.hand = Deferred]
             /\ UNCHANGED <<disk, closed, told>>
          \/ /\ exec.pc # "deferred" /\ i \in Steers
             /\ FailAccepted(q, i)
             /\ UNCHANGED <<exec, cancel>>
          \/ /\ exec.pc # "deferred"
             /\ q' = IF ToBroker(i) THEN [q EXCEPT !.inband = Append(@, i)] ELSE Push(q, i)
             /\ UNCHANGED <<disk, closed, exec, cancel, told>>
    /\ obs' = Watching
    /\ UNCHANGED <<rest, turn, doubted>>

ObserveInterrupt ==
    /\ Observing
    /\ q' = [q EXCEPT !.paused = TRUE]
    /\ cancel' = TRUE
    /\ UNCHANGED <<rest, disk, closed, exec, turn, obs, told, doubted>>

(* interrupt_submission: look for the input, remove it durably, then look  *)
(* for it again.                                                           *)
ObserveCancel(i) ==
    /\ Observing
    /\ \/ /\ i \in Queued(q)
          /\ obs' = [op |-> "remove", id |-> i]
          /\ UNCHANGED <<q, cancel>>
       \/ /\ i \in q.active \ Queued(q)
          /\ q' = [q EXCEPT !.paused = TRUE]
          /\ cancel' = TRUE
          /\ UNCHANGED obs
    /\ UNCHANGED <<rest, disk, closed, exec, turn, told, doubted>>

ObserveRemoval ==
    /\ obs.op = "remove"
    /\ \E ok \in BOOLEAN :
         /\ Removes(<<obs.id>>, ok)
         /\ q' = Settled(q, <<obs.id>>, ok)
         /\ obs' = IF ok THEN [obs EXCEPT !.op = "retain"] ELSE Watching
    /\ UNCHANGED <<rest, exec, turn, cancel, told, doubted>>

\* Mutant: the acknowledged removal alone reports the cancellation.
MutWithdrawn(removed, active) == ~active

(* The cancellation is reported when the input was still waiting in a queue. *)
Withdrawn(removed, active) == removed /\ ~active

ObserveRetain ==
    /\ obs.op = "retain"
    /\ LET removed == obs.id \in Queued(q)
           active == obs.id \in q.active
       IN /\ q' = [Drop(q, obs.id) EXCEPT !.paused = @ \/ removed \/ active,
                     !.rejects = IF removed THEN @ ELSE q.rejects]
          /\ cancel' = (cancel \/ active)
          /\ told' = IF Withdrawn(removed, active) THEN told \cup {obs.id} ELSE told
    /\ obs' = Watching
    /\ UNCHANGED <<rest, disk, closed, exec, turn, doubted>>

(* A deferred action completes, or a cancelled one stops; it is put back only *)
(* when new work preempted it.                                                *)
DeferredEnds ==
    /\ exec.pc = "deferred" /\ obs = Watching
    /\ \/ UNCHANGED q
       \/ /\ cancel /\ exec.hand = Deferred
          /\ q' = [q EXCEPT !.pending = Append(@, Deferred)]
    /\ exec' = Idle
    /\ cancel' = FALSE
    /\ UNCHANGED <<rest, disk, closed, turn, obs, told, doubted>>

-----------------------------------------------------------------------------
(* The Process ends at any point and another one recovers the rollout. *)

\* Mutant: recovery ignores dispatch records.
MutExcluded == UNION {ToSet(ids) : ids \in disk.removals}

Excluded == disk.dispatched \cup UNION {ToSet(ids) : ids \in disk.removals}

\* Mutant: recovered work starts at once.
MutSuspended(pending) == FALSE

(* Only undispatched work suspends scheduling. *)
Suspended(pending) == pending # <<>>

(* recover_input_queue *)
Recovered ==
    LET pending == SelectSeq(disk.admits, LAMBDA i : i \notin Excluded)
    IN [pending |-> pending, paused |-> Suspended(pending),
        admitted |-> ToSet(disk.admits), settled |-> Excluded, uncertain |-> {},
        rejects |-> {}, active |-> {}, inband |-> <<>>, buffered |-> <<>>, next |-> <<>>]

Restart ==
    /\ budget.crashes > 0 /\ Cardinality(Sent) <= CalmAfter
    /\ budget' = [crashes |-> budget.crashes - 1, deferred |-> MaxDeferred]
    /\ q' = Recovered
    /\ inherited' = ToSet(Recovered.pending)
    /\ closed' = FALSE
    /\ exec' = Idle
    /\ turn' = "none"
    /\ cancel' = FALSE
    /\ obs' = Watching
    /\ noticed' = {}
    /\ resumed' = FALSE
    /\ UNCHANGED <<disk, ran, told, doubted>>

Execution ==
    \/ PrepareFollowUp \/ StartFollowUp \/ QueueNextTurn
    \/ PrepareTurn \/ DispatchTurn \/ StartTurn
    \/ TakeSteer \/ JoinSteer \/ CancelTurn \/ EndTurn
    \/ BufferSteer \/ Answer \/ CancelWait \/ TakeLate \/ RemoveLate \/ Settle

Loop ==
    \/ \E i \in Inputs : Deliver(i) \/ IdleCancel(i)
    \/ PopOuter \/ Begin \/ ResumeWaiting \/ IdleInterrupt \/ Continue \/ Discard

Observer ==
    \/ \E i \in Inputs : ObserveDelivery(i) \/ ObserveCancel(i)
    \/ ObservePlace \/ ObserveInterrupt \/ ObserveRemoval \/ ObserveRetain
    \/ DeferredEnds

Next == Loop \/ Execution \/ Observer \/ Restart

Spec == Init /\ [][Next]_vars

-----------------------------------------------------------------------------
(* What the queue promises. *)

\* No input enters an Agent turn twice: not through repeated delivery, not
\* through requeued leftovers, not through an unacknowledged dispatch, and not
\* through recovery (machine_input_dispatched_v1 precedes every execution).
AtMostOnce == IsInjective(ran)

\* An input reported as ended without execution (cancelled, discarded, excluded
\* or dropped) was not executed before the report and is not executed after it,
\* whatever the execution was doing with it while the observer removed it.  (An
\* input whose admission was rejected while the UI was failing may be queued
\* twice, and its second copy may be cancelled after the first one ran.)
ToldMeansUnrun == told \cap ToSet(ran) \subseteq doubted

FirstAdmitted(i, j) ==
    \E a, b \in DOMAIN disk.admits :
        a < b /\ disk.admits[a] = i /\ disk.admits[b] = j

Fifo(i) == i \in (FollowUps \cup Turns) \ doubted

\* Follow-ups and turns execute in the order in which they were admitted, over
\* pauses, leftovers, deferred actions and recovery; ordinary inputs always wait
\* ahead of housekeeping (push_submission_ahead_of_deferred).  An input whose
\* admission or preparation was reported failed once may lose its place.
FollowUpsInOrder ==
    /\ q.pending = Ordinary(q.pending) \o Housekeeping(q.pending)
    /\ \A a, b \in DOMAIN ran :
         a < b /\ Fifo(ran[a]) /\ Fifo(ran[b]) => ~FirstAdmitted(ran[b], ran[a])

InHand == {exec.sub, exec.hand, obs.id}

\* Memory never runs ahead of the rollout and never loses an accepted input.
\* Everything admitted or settled is so for a reader of the rollout; and an
\* input other than steering that is admitted and not settled is in a queue or in
\* somebody's hands, or was reported as uncertain or unprepared.
NothingLost ==
    /\ q.admitted \subseteq ToSet(disk.admits)
    /\ q.settled \subseteq Excluded
    /\ q.admitted \cap Excluded \subseteq q.settled \cup q.uncertain
    /\ q.admitted \ (q.settled \cup q.uncertain \cup noticed \cup Steers)
          \subseteq Queued(q) \cup InHand

\* Recovered work waits for the user: an input a Process inherited from its
\* predecessor is executed only after /continue was accepted in this Process.
InheritedWaits ==
    \A k \in DOMAIN ran' : k > Len(ran) => ran'[k] \notin inherited \/ resumed

-----------------------------------------------------------------------------
(* Two statements of the sources that the code does not keep. *)

\* "Return unconsumed steering input to the Machine-owned ordinary queue":
\* accepted steering that is neither settled nor uncertain is in a queue or in
\* somebody's hands.
UnconsumedIsReturned ==
    q.admitted \ (q.settled \cup q.uncertain \cup noticed) \subseteq Queued(q) \cup InHand

\* "Removal acknowledgement owns disposition": an input whose removal has been
\* acknowledged is not executed afterwards.
RemovalOwnsDisposition ==
    [][\A k \in DOMAIN ran' :
          k > Len(ran) => <<ran'[k]>> \notin disk.removals \/ ran'[k] \in doubted]_vars
=============================================================================
