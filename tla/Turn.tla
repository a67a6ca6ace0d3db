-------------------------------- MODULE Turn --------------------------------
(***************************************************************************)
(* One agent machine running turns: the generation loop, the Tool batch    *)
(* orchestrator, the requests a call may pause on, the replay of an        *)
(* approved batch, explicit commands, steering, cancellation and the       *)
(* compaction of the tape (crates/agent-engine/src/runtime/transition.rs,  *)
(* transition/*.rs, submission_handlers.rs, turn_support.rs,               *)
(* steering_queue.rs, interaction_tools.rs, mount_request_tool.rs,         *)
(* tool_authorization.rs, tool_execution.rs).                              *)
(*                                                                         *)
(* What a call needs is its kind: "plain" runs, "escalates" is escalated   *)
(* by policy, "unknown" has a recorded effect of unknown status, "both"    *)
(* needs the two, "confirm", "input" and "mount" are the virtual Tools     *)
(* that wait, "plan" is update_plan.  Writes to AgentFS and to the tape    *)
(* lease succeed; a failing generation is modelled.                        *)
(***************************************************************************)
EXTENDS Tape, TLC

CONSTANTS Kinds,       \* the kinds of call a generation may request
          KeepLast,    \* compaction_keep_last
          MaxCalls,    \* bound: calls requested in all
          MaxTurns,    \* bound: turns and commands in all
          MaxMessages, \* bound: messages on the tape when a run or a replay starts
          MaxSteers    \* bound: steering inputs in all

VARIABLES tape,      \* the machine's messages
          kind,      \* what each call made so far needs
          turn,      \* turns and commands started
          start,     \* active_turn_message_start, 0 when there is none
          pc,        \* "idle", "prepare", "generate", "batch" or "wait"
          input,     \* what a run adds before it generates: "new", "steer" or "none"
          batch,     \* the calls of the batch still to handle
          origin,    \* "turn", "replay", "command" or "approved" (a command replayed)
          approved,  \* what was approved for the head of the batch
          pending,   \* the interaction the machine waits for
          replay,    \* pending_tool_replay_batches, by the call of the checkpoint
          command,   \* the explicit command being driven, 0 if none
          commands,  \* ghost: every explicit command
          answers,   \* ghost: how often each call was answered
          steers,    \* steering inputs in the broker
          sent,      \* bound: steering inputs sent
          cancel     \* the turn's cancellation token

vars == <<tape, kind, turn, start, pc, input, batch, origin, approved, pending,
          replay, command, commands, answers, steers, sent, cancel>>

Calls == 1 .. MaxCalls
Nothing == [type |-> "none", call |-> 0]
Replays == {"escalation", "effect"}
Active == pc /= "idle"
NoBatches == [c \in {} |-> <<>>]
\* The kinds of calls that are over are forgotten.
Over == [c \in DOMAIN kind |-> "over"]

Init ==
  /\ tape = <<>> /\ kind = <<>> /\ turn = 0 /\ start = 0
  /\ pc = "idle" /\ input = "none" /\ batch = <<>> /\ origin = "turn" /\ approved = "none"
  /\ pending = Nothing /\ replay = NoBatches /\ command = 0 /\ commands = {}
  /\ answers = [c \in Calls |-> 0] /\ steers = 0 /\ sent = 0 /\ cancel = FALSE

-----------------------------------------------------------------------------
\* Add messages to the tape; every Tool message answers its call.
Write(t) ==
  /\ tape' = t
  /\ answers' = [c \in Calls |-> answers[c]
                   + Cardinality({i \in DOMAIN t : t[i].role = "tool" /\ c \in t[i].ids})
                   - Cardinality({i \in DOMAIN tape : tape[i].role = "tool" /\ c \in tape[i].ids})]

ToolMsg(c) == Msg("tool", {c}, turn)

\* The drive loop ends: no interaction is pending, leftover steers are refused.
Stop ==
  /\ pc' = "idle" /\ batch' = <<>> /\ approved' = "none" /\ pending' = Nothing
  /\ replay' = NoBatches /\ command' = 0 /\ steers' = 0 /\ cancel' = FALSE
  /\ kind' = Over /\ origin' = "turn"
  /\ UNCHANGED <<turn, input, commands, sent>>

Finish == Stop /\ UNCHANGED start

\* Mutant: a command that was answered, but whose answer names no Action, is
\* answered again.
MutMissing(t, c) == IF c = 0 THEN t ELSE Append(t, ToolMsg(c))

\* record_missing_command_action: a command without an answer gets a failed one.
Missing(t, c) == IF c = 0 \/ c \in Responses(t) THEN t ELSE Append(t, ToolMsg(c))

\* reset_turn_after_cancelling_host_mounts answers the mount it cancels.
Settled(t) ==
  IF pending.type = "mount" /\ pending.call \notin Responses(t)
  THEN Append(t, ToolMsg(pending.call)) ELSE t

\* cancel_current_task: nothing stays pending, an unanswered command is failed.
CancelTask(t) == Write(Missing(Settled(t), command)) /\ Finish

-----------------------------------------------------------------------------
(* Submissions *)

\* Op::Turn, or a follow-up while idle.
StartTurn ==
  /\ pc = "idle" /\ turn < MaxTurns /\ Len(tape) < MaxMessages
  /\ turn' = turn + 1 /\ pc' = "prepare" /\ input' = "new" /\ start' = 0
  /\ UNCHANGED <<tape, kind, batch, origin, approved, pending, replay, command,
                 commands, answers, steers, sent, cancel>>

\* handle_explicit_command: the command is its own Tool call.
StartCommand(k) ==
  LET c == Len(kind) + 1 IN
  /\ pc = "idle" /\ turn < MaxTurns /\ Len(tape) < MaxMessages /\ c \in Calls
  /\ turn' = turn + 1 /\ kind' = Append(kind, k)
  /\ Write(tape \o <<Msg("user", {}, turn'), Msg("assistant", {c}, turn')>>)
  /\ start' = 0 /\ pc' = "batch" /\ batch' = <<c>> /\ origin' = "command"
  /\ command' = c /\ commands' = commands \cup {c} /\ approved' = "none"
  /\ UNCHANGED <<input, pending, replay, steers, sent, cancel>>

\* A standalone cd is answered by the machine itself.
ChangeDirectory ==
  LET c == Len(kind) + 1 IN
  /\ pc = "idle" /\ turn < MaxTurns /\ Len(tape) < MaxMessages /\ c \in Calls
  /\ turn' = turn + 1 /\ kind' = Append(kind, "over") /\ commands' = commands \cup {c}
  /\ Write(tape \o <<Msg("user", {}, turn'), Msg("assistant", {c}, turn'), Msg("tool", {c}, turn')>>)
  /\ start' = 0
  /\ UNCHANGED <<pc, input, batch, origin, approved, pending, replay, command, steers, sent, cancel>>

Steer ==
  /\ Active /\ sent < MaxSteers
  /\ steers' = steers + 1 /\ sent' = sent + 1
  /\ UNCHANGED <<tape, kind, turn, start, pc, input, batch, origin, approved, pending, replay,
                 command, commands, answers, cancel>>

Interrupt ==
  /\ Active /\ ~cancel /\ cancel' = TRUE
  /\ UNCHANGED <<tape, kind, turn, start, pc, input, batch, origin, approved, pending, replay,
                 command, commands, answers, steers, sent>>

-----------------------------------------------------------------------------
(* run_turn_with_writer *)

\* Mutant: the turn's start is not moved when the tape is cut.
MutShifted(cut) == start

\* note_tape_compaction: the active turn starts that many messages earlier.
Shifted(cut) == IF start < cut THEN 0 ELSE start - cut

\* An automatic compaction may be skipped, fail, or cut the tape.
Cuts == {1} \cup {RetentionStart(tape, KeepLast)}

\* A run begins: automatic compaction, the cancel check, the run's own input.
Prepare ==
  /\ pc = "prepare"
  /\ \E cut \in Cuts :
       LET t == SubSeq(tape, cut, Len(tape)) IN
       \/ cancel /\ tape' = t /\ start' = Shifted(cut - 1) /\ Stop /\ UNCHANGED answers
       \/ /\ ~cancel
          /\ tape' = IF input = "none" THEN t ELSE Append(t, Msg("user", {}, turn))
          /\ start' = IF input = "new" THEN Len(t) ELSE Shifted(cut - 1)
          /\ pc' = "generate" /\ input' = "none"
          /\ UNCHANGED <<kind, turn, batch, origin, approved, pending, replay, command,
                         commands, answers, steers, sent, cancel>>

\* maybe_compact_mid_turn_if_needed: after a batch or a guardrail's retry.
CompactMidTurn ==
  LET cut == RetentionStart(tape, KeepLast) IN
  /\ pc = "generate" /\ cut > 1
  /\ tape' = SubSeq(tape, cut, Len(tape)) /\ start' = Shifted(cut - 1)
  /\ UNCHANGED <<kind, turn, pc, input, batch, origin, approved, pending, replay, command,
                 commands, answers, steers, sent, cancel>>

GenerationCancelled == pc = "generate" /\ cancel /\ CancelTask(tape)

\* A text answer (or its fallback) ends the turn; so does a failing request.
Reply == pc = "generate" /\ ~cancel /\ Write(Append(tape, Msg("assistant", {}, turn))) /\ Finish
GenerationFails == pc = "generate" /\ ~cancel /\ Write(tape) /\ Finish

\* The assistant message with its calls is on the tape before the first runs.
RequestTools(ks) ==
  LET n == Len(kind)
      ids == [i \in DOMAIN ks |-> n + i] IN
  /\ pc = "generate" /\ ~cancel /\ n + Len(ks) =< MaxCalls
  /\ kind' = Over \o ks /\ batch' = ids /\ origin' = "turn" /\ approved' = "none"
  /\ tape' = Append(tape, Msg("assistant", {ids[i] : i \in DOMAIN ids}, turn))
  /\ pc' = "batch"
  /\ UNCHANGED <<turn, start, input, pending, replay, command, commands, answers, steers, sent, cancel>>

-----------------------------------------------------------------------------
(* orchestrate_tool_batch_internal *)

\* The batch ends the turn; a command without an answer is answered as failed.
EndBatch(t) == Write(Missing(t, command)) /\ Finish

\* The batch is done: generate again; a replayed batch starts a resumed run.
ContinueLoop(t) ==
  \/ /\ origin \in {"turn", "replay"} /\ Write(t)
     /\ pc' = (IF origin = "turn" THEN "generate" ELSE "prepare")
     /\ input' = "none" /\ batch' = <<>> /\ approved' = "none" /\ steers' = 0
     /\ UNCHANGED <<kind, turn, start, origin, pending, replay, command, commands, sent, cancel>>
  \/ origin \in {"command", "approved"} /\ EndBatch(t)

\* Mutant: the calls a steer skips are left without an answer.
MutSkipped(t, rest) == Append(t, Msg("user", {}, turn))

\* handle_queued_steering_inputs: the steer joins the tape, then every call
\* left in the batch is answered as skipped.
Skipped(t, rest) == Append(t, Msg("user", {}, turn)) \o [i \in DOMAIN rest |-> ToolMsg(rest[i])]

\* A call is done and t is the tape: steering may end the batch here; after
\* the last call the loop guard may end the turn.
CallDone(t) ==
  \/ /\ steers > 0 /\ origin /= "command"
     /\ ContinueLoop(Skipped(t, Tail(batch)))
  \/ /\ steers = 0 \/ origin = "command"
     /\ \/ /\ Len(batch) > 1 /\ Write(t)
           /\ batch' = Tail(batch) /\ approved' = "none"
           /\ UNCHANGED <<kind, turn, start, pc, input, origin, pending, replay, command,
                          commands, steers, sent, cancel>>
        \/ Len(batch) = 1 /\ ContinueLoop(t)
        \/ Len(batch) = 1 /\ EndBatch(t)

\* Mutant: the batch kept for the replay leaves out the call that paused.
MutKept == Tail(batch)

\* The calls kept for an approval: from the one that paused to the last.
Kept == batch

\* A call waits: the machine pauses; only a checkpoint that replays keeps
\* the rest of the batch.
Pause(type) ==
  /\ pending' = [type |-> type, call |-> Head(batch)]
  /\ replay' = IF type \in Replays THEN (Head(batch) :> Kept) @@ replay ELSE replay
  /\ pc' = "wait" /\ batch' = <<>> /\ approved' = "none"
  /\ UNCHANGED <<tape, kind, turn, start, input, origin, command, commands, answers, steers,
                 sent, cancel>>

\* before_tool_call: the same call too often in a row.
LoopGuardStops == pc = "batch" /\ EndBatch(tape)

BatchCancelled == pc = "batch" /\ cancel /\ CancelTask(tape)

\* request_confirmation and request_user_input wait; an unusable one ends the turn.
AskUser ==
  /\ pc = "batch" /\ ~cancel /\ kind[Head(batch)] \in {"confirm", "input"}
  /\ Pause(kind[Head(batch)]) \/ EndBatch(tape)

\* update_plan is answered; an unusable one is only reported.
UpdatePlan ==
  /\ pc = "batch" /\ ~cancel /\ kind[Head(batch)] = "plan"
  /\ CallDone(Append(tape, ToolMsg(Head(batch)))) \/ CallDone(tape)

\* request_mount waits for the Host, or is answered when it is refused or
\* cannot be asked for.
RequestMount ==
  /\ pc = "batch" /\ ~cancel /\ kind[Head(batch)] = "mount"
  /\ Pause("mount") \/ CallDone(Append(tape, ToolMsg(Head(batch))))

Virtual == {"confirm", "input", "mount", "plan"}

\* An unavailable Tool and one the policy forbids are answered, and not run.
AnsweredAtOnce ==
  pc = "batch" /\ ~cancel /\ kind[Head(batch)] \notin Virtual
               /\ CallDone(Append(tape, ToolMsg(Head(batch))))

\* authorize_tool_call: the policy escalates and nobody approved that yet.
Escalates == kind[Head(batch)] \in {"escalates", "both"} /\ approved /= "escalation"

ReviewerDenies ==
  pc = "batch" /\ ~cancel /\ Escalates /\ origin \notin {"command", "approved"}
               /\ CallDone(Append(tape, ToolMsg(Head(batch))))

AskHuman == pc = "batch" /\ ~cancel /\ Escalates /\ Pause("escalation")

\* Authorised: by the policy, by the approval being replayed, or by the
\* reviewer, who is never asked about an explicit command.
Authorized ==
  /\ kind[Head(batch)] \notin Virtual
  /\ Escalates => origin \notin {"command", "approved"}

\* execute_allowed_tool_call: an effect of unknown status must be confirmed.
UnknownEffect == kind[Head(batch)] \in {"unknown", "both"} /\ approved /= "effect"

ConfirmUnknown == pc = "batch" /\ ~cancel /\ Authorized /\ UnknownEffect /\ Pause("effect")

Execute ==
  pc = "batch" /\ ~cancel /\ Authorized /\ ~UnknownEffect
               /\ CallDone(Append(tape, ToolMsg(Head(batch))))

\* The token is cancelled while the Tool runs: its result, if there is one,
\* is kept before the turn is reset.
ExecuteCancelled ==
  /\ pc = "batch" /\ ~cancel /\ Authorized /\ ~UnknownEffect
  /\ \/ CancelTask(Append(tape, ToolMsg(Head(batch))))
     \/ CancelTask(tape)

-----------------------------------------------------------------------------
(* next_pending_interaction_submission and Op::Resume *)

\* A resumed run without new input.
Resume(t) ==
  /\ Write(t) /\ pending' = Nothing /\ pc' = "prepare" /\ input' = "none"
  /\ UNCHANGED <<kind, turn, start, batch, origin, approved, command, commands, steers, sent, cancel>>

\* A confirmation, a structured input or the Host's decision is the answer.
Answer ==
  /\ pc = "wait" /\ pending.type \notin Replays
  /\ Resume(IF pending.call \in Responses(tape) THEN tape ELSE Append(tape, ToolMsg(pending.call)))
  /\ UNCHANGED replay

Control == Append(tape, Msg("control", {}, turn))

\* replay_approved_tool_batch_with_writer: the batch kept for the checkpoint
\* runs again, its first call with the approval.
ReplayBatch ==
  /\ batch' = replay[pending.call] /\ approved' = pending.type /\ pc' = "batch"
  /\ replay' = [c \in DOMAIN replay \ {pending.call} |-> replay[c]]

\* A command is replayed as a command: it ends with its answer.
ReplayOrigin == IF command /= 0 THEN "approved" ELSE "replay"

Approve ==
  /\ pc = "wait" /\ pending.type \in Replays /\ Len(tape) < MaxMessages
  /\ Write(Control) /\ pending' = Nothing
  /\ ReplayBatch /\ origin' = ReplayOrigin
  /\ UNCHANGED <<kind, turn, start, input, command, commands, steers, sent, cancel>>

\* A rejected command is answered; a rejected call of a turn is left to the
\* next generation, which reads the control message.
Reject ==
  /\ pc = "wait" /\ pending.type \in Replays
  /\ \/ command /= 0 /\ Write(Missing(Control, command)) /\ Finish
     \/ /\ command = 0 /\ Resume(Control)
        /\ replay' = [c \in DOMAIN replay \ {pending.call} |-> replay[c]]

\* A steer that arrives while the machine waits is buffered, and refused
\* when the turn is over.
BufferSteer ==
  /\ pc = "wait" /\ steers > 0 /\ steers' = 0
  /\ UNCHANGED <<tape, kind, turn, start, pc, input, batch, origin, approved, pending, replay,
                 command, commands, answers, sent, cancel>>

WaitCancelled == pc = "wait" /\ cancel /\ CancelTask(tape)

\* Op::CompactWithOptions, refused while an interaction is pending.
CompactManually ==
  LET cut == RetentionStart(tape, KeepLast) IN
  /\ pc = "idle" /\ cut > 1 /\ tape' = SubSeq(tape, cut, Len(tape)) /\ start' = Shifted(cut - 1)
  /\ UNCHANGED <<kind, turn, pc, input, batch, origin, approved, pending, replay, command,
                 commands, answers, steers, sent, cancel>>

-----------------------------------------------------------------------------
Batches == {<<k>> : k \in Kinds} \cup {<<k, l>> : k, l \in Kinds}

Next ==
  \/ StartTurn \/ ChangeDirectory \/ Steer \/ Interrupt
  \/ \E k \in Kinds \cap {"plain", "escalates", "unknown", "both"} : StartCommand(k)
  \/ Prepare \/ CompactMidTurn \/ CompactManually \/ GenerationCancelled \/ Reply \/ GenerationFails
  \/ \E ks \in Batches : RequestTools(ks)
  \/ LoopGuardStops \/ BatchCancelled \/ AskUser \/ UpdatePlan \/ RequestMount
  \/ AnsweredAtOnce \/ ReviewerDenies \/ AskHuman \/ ConfirmUnknown \/ Execute \/ ExecuteCancelled
  \/ Answer \/ Approve \/ Reject \/ BufferSteer \/ WaitCancelled

Spec == Init /\ [][Next]_vars

-----------------------------------------------------------------------------
\* No call is answered twice on the tape, whatever pauses, replays, steering
\* skips and cancellations it goes through, and a call is answered only after
\* the assistant message that requests it (transition.rs
\* orchestrate_tool_batch_internal, steering_queue.rs, tool_execution.rs,
\* explicit_command.rs record_missing_command_action).
AnsweredOnce == \A c \in Calls : answers[c] =< 1 /\ (answers[c] = 1 => c =< Len(kind))

\* While an approval is pending the batch kept for it starts with the very
\* call the approval shows, and none of the kept calls was answered: an
\* approval runs what was shown, and runs nothing again (transition.rs keys
\* the batch by the latest pending confirmation, submission_handlers.rs
\* approves the batch's first call).
ApprovalReplaysItsCall ==
  pending.type \in Replays =>
    /\ pending.call \in DOMAIN replay
    /\ replay[pending.call] /= <<>> /\ Head(replay[pending.call]) = pending.call
    /\ \A i \in DOMAIN replay[pending.call] : answers[replay[pending.call][i]] = 0

\* A call whose answer somebody depends on gets one: an explicit command when
\* the machine is idle again, a Host Mount request as soon as it is not
\* waited for any more, and every call of a batch a steer cut short
\* (explicit_command.rs, turn_support.rs: "Keep the assistant Tool request
\* and its truthful Host terminal result paired before clearing logical wait
\* state").
OwedStep ==
  /\ pc' = "idle" => \A c \in commands' : answers'[c] = 1
  /\ pending.type = "mount" /\ pending' /= pending => answers'[pending.call] = 1
  /\ steers > 0 /\ steers' = 0 /\ pc = "batch" /\ pc' \in {"generate", "prepare"} =>
       \A i \in DOMAIN batch : i > 1 => answers'[batch[i]] = 1

\* In an active turn the messages from active_turn_message_start on are
\* exactly those of the turn, also after the tape was cut under it
\* (agent_machine/transition_state.rs note_tape_compaction).
TurnStartIsTrue ==
  pc \in {"generate", "batch", "wait"} /\ command = 0 =>
    \A i \in DOMAIN tape : tape[i].turn = turn <=> i > start

-----------------------------------------------------------------------------
\* "approved replay should not emit a second confirmation yield"
\* (runtime/transition/tests/tool_batch/replay_and_effect_contract.inc.rs):
\* a call approved by its user does not pause for approval again.
ApprovalIsEnough == [][
  pc = "batch" /\ approved /= "none" /\ pc' = "wait" => pending'.type \notin Replays]_vars

\* "preserves_assistant_tool_pairing" (tape/tests.rs): a compaction never keeps
\* a Tool answer without the assistant message that requested it.
CompactionKeepsPairs == Responses(tape) \subseteq Asked(tape)
=============================================================================
