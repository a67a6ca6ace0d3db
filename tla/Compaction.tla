----------------------------- MODULE Compaction -----------------------------
(***************************************************************************)
(* Context compaction of one agent machine, the memory flush that precedes *)
(* it, and the "current goal" the memory surfaces derive from what is left *)
(* (crates/agent-engine/src/runtime/compaction.rs, compaction/*.rs,        *)
(* memory_flush.rs, memory_surfaces.rs, transition/turn_execution.rs,      *)
(* agent_machine.rs, agent_machine/transition_state.rs).                   *)
(*                                                                         *)
(* A message counts one token, so does a summary.  A user message is a     *)
(* "goal", an acknowledgement ("ack") or has no text ("blank").  Indices   *)
(* count from 0 as in the code; an Option is a set of at most one element. *)
(* The ghosts say which messages a summary stands for.  Writes to AgentFS  *)
(* and to the rollout succeed.                                             *)
(***************************************************************************)
EXTENDS Tape

CONSTANTS KeepLast,        \* compaction_keep_last
          TriggerMessages, \* compaction_trigger_messages
          Soft, Hard,      \* token thresholds
          Window,          \* context_window_tokens, 0 when unknown
          MinGrowth,       \* AUTO_MID_TURN_COMPACTION_MIN_GROWTH_TOKENS
          MidTurnLimit,    \* AUTO_MID_TURN_COMPACTION_LIMIT
          MaxTrims,        \* max_trim_retries
          Extra,           \* what the pending prompt may add to the estimate
          MaxMessages      \* bound: messages written in all

VARIABLES tape,     \* the machine's messages
          summary,  \* the messages the summary stands for, {} without a summary
          gone,     \* ghost: messages an attempt reported as left out, or rolled back
          active,   \* active_turn_message_start
          plan,     \* plan_snapshot and its two positions
          pc,       \* "idle", "prepare", "loop" or "check" (a mid-turn compaction is due)
          input,    \* the text of the user input the turn starts with
          job,      \* the compaction under way
          stop,     \* "none", "timeout" or "cancel"
          flushed,  \* auto_memory_flush_attempted_in_cycle
          streak,   \* compaction_failure_streak, of which only "at least 2" is told apart
          inTurn,   \* compactions_this_turn
          last,     \* last_compaction_prompt_tokens
          written,  \* ghost: messages written so far
          asked,    \* ghost: goals asked for and not rolled back
          adrift    \* ghost: a compaction cut the active turn

vars == <<tape, summary, gone, active, plan, pc, input, job, stop, flushed, streak,
          inTurn, last, written, asked, adrift>>

Message(role, ids, text) == [role |-> role, ids |-> ids, text |-> text, id |-> written + 1]
Ids(t) == {t[i].id : i \in DOMAIN t}
NoPlan == [set |-> FALSE, start |-> {}, count |-> {}, at |-> 0]
NoJob == [mode |-> "none", phase |-> "none", extra |-> 0, rest |-> <<>>, trims |-> 0]

Init ==
  /\ tape = <<>> /\ summary = {} /\ gone = {} /\ active = {} /\ plan = NoPlan
  /\ pc = "idle" /\ input = "none" /\ job = NoJob /\ stop = "none" /\ flushed = FALSE
  /\ streak = 0 /\ inTurn = 0 /\ last = {} /\ written = 0 /\ asked = {} /\ adrift = FALSE

-----------------------------------------------------------------------------
(* Pressure *)

Estimated(extra) == Len(tape) + (IF summary = {} THEN 0 ELSE 1) + extra

\* is_auto_mid_turn_compaction_emergency
Emergency(tokens) == Window > 0 /\ tokens >= Window - MinGrowth

\* evaluate_compaction_pressure
Level(mode, tokens) ==
  LET hard == \/ mode = "mid" /\ Emergency(tokens)
              \/ Len(tape) > TriggerMessages
              \/ Window > 0 /\ tokens >= Hard
  IN IF mode = "manual" \/ hard THEN "hard"
     ELSE IF mode = "pre" /\ Window > 0 /\ tokens >= Soft THEN "soft" ELSE "below"

\* can_auto_mid_turn_compact
MayCompactMidTurn(tokens) ==
  \/ Emergency(tokens)
  \/ inTurn < MidTurnLimit /\ \A n \in last : tokens > n + MinGrowth

-----------------------------------------------------------------------------
(* What a compaction does to the machine *)

\* Mutant: one message less is handed to the summary than is cut.
MutRegion == SubSeq(tape, 1, RetentionStart(tape, KeepLast) - 2)

\* The messages to summarise: all that the retention does not keep.
Region == SubSeq(tape, 1, RetentionStart(tape, KeepLast) - 1)

\* note_tape_compaction: a position before the cut is forgotten.
Moved(position, cut) == {p - cut : p \in {q \in position : q >= cut}}

\* apply_tape_compaction: the tape keeps its tail, its summary is new.
Apply(stands) ==
  LET cut == RetentionStart(tape, KeepLast) - 1 IN
  /\ tape' = SubSeq(tape, cut + 1, Len(tape))
  /\ summary' = summary \cup stands
  /\ gone' = gone \cup (Ids(SubSeq(tape, 1, Len(Region))) \ stands)
  /\ active' = {IF a >= cut THEN a - cut ELSE 0 : a \in active}
  /\ plan' = [plan EXCEPT !.start = Moved(@, cut), !.count = Moved(@, cut)]
  /\ adrift' = (adrift \/ \E a \in active : a < cut /\ pc /= "idle")

\* A mid-turn compaction that was applied counts against its turn.
Recorded(tokens) ==
  IF job.mode = "mid" THEN inTurn' = inTurn + 1 /\ last' = {tokens} ELSE UNCHANGED <<inTurn, last>>

Done == job' = NoJob /\ stop' = IF stop = "timeout" THEN "none" ELSE stop

Skipped == Done /\ UNCHANGED <<tape, summary, gone, active, plan, adrift, streak, inTurn, last>>

-----------------------------------------------------------------------------
(* maybe_compact_context_with_cancel *)

\* A request is dropped below the soft threshold or when nothing can be cut.
Request(mode, extra) ==
  LET level == Level(mode, Estimated(extra)) IN
  /\ flushed' = IF mode = "pre" /\ level = "below" THEN FALSE ELSE flushed
  /\ job' = IF level = "below" \/ Region = <<>> THEN NoJob
            ELSE [mode |-> mode, phase |-> IF level = "soft" THEN "flush" ELSE "summarise",
                  extra |-> extra, rest |-> Region, trims |-> 0]

\* skipped_memory_flush_attempt: a second flush in the same cycle is skipped.
FlushAgain ==
  /\ job.phase = "flush" /\ flushed /\ stop = "none"
  /\ job' = [job EXCEPT !.phase = "summarise"]
  /\ UNCHANGED <<tape, summary, gone, active, plan, pc, input, stop, flushed, streak,
                 inTurn, last, written, asked, adrift>>

\* perform_memory_flush_attempt: whatever it ends with, success, failure or a
\* skip, uses up the cycle; only a cancelled attempt does not.
Flush ==
  /\ job.phase = "flush" /\ ~flushed /\ flushed' = TRUE
  /\ IF stop = "none" THEN job' = [job EXCEPT !.phase = "summarise"] /\ UNCHANGED stop ELSE Done
  /\ UNCHANGED <<tape, summary, gone, active, plan, pc, input, streak, inTurn, last,
                 written, asked, adrift>>

\* The flush or the summary request is cancelled: the tape stays as it is.
CancelledJob ==
  /\ job.phase /= "none" /\ stop /= "none" /\ job.mode /= "manual"
  /\ Skipped /\ UNCHANGED <<pc, input, flushed, written, asked>>

\* The request fails: the oldest message is left out of the next one.
Trim ==
  /\ job.phase = "summarise" /\ (stop = "none" \/ job.mode = "manual")
  /\ job.trims < MaxTrims /\ Len(job.rest) > 1
  /\ job' = [job EXCEPT !.rest = Tail(@), !.trims = @ + 1]
  /\ UNCHANGED <<tape, summary, gone, active, plan, pc, input, stop, flushed, streak,
                 inTurn, last, written, asked, adrift>>

\* A summary arrives; a prior summary was part of what it summarises.
Summarise ==
  /\ job.phase = "summarise"
  /\ Apply(Ids(job.rest)) /\ streak' = 0
  /\ Recorded(Len(tape') + 1 + job.extra) /\ Done
  /\ UNCHANGED <<pc, input, flushed, written, asked>>

\* degraded_compaction_snippet: the messages that leave a line of text.
HasText(m) == m.text /= "blank"

\* handle_compaction_generation_failure, reached with an empty summary or when
\* no trim is left: the fallback quotes the messages and the prior summary; when
\* both are without text the tape is kept.
Degrade ==
  /\ job.phase = "summarise" /\ streak' = Min({streak + 1, 2})
  /\ LET quoted == {m.id : m \in {Region[i] : i \in {j \in DOMAIN Region : HasText(Region[j])}}} IN
     \/ /\ quoted \cup summary /= {}
        /\ Apply(quoted) /\ Recorded(Len(tape') + 1) /\ Done
     \/ /\ quoted \cup summary = {}
        /\ Done /\ UNCHANGED <<tape, summary, gone, active, plan, adrift, inTurn, last>>
  /\ UNCHANGED <<pc, input, flushed, written, asked>>

-----------------------------------------------------------------------------
(* The turn around it *)

Quiet == job = NoJob
Room(n) == written + n =< MaxMessages

\* Add messages to the tape.
Push(ms) ==
  /\ tape' = tape \o ms /\ written' = written + Len(ms)
  /\ asked' = asked \cup {m.id : m \in {ms[i] : i \in {j \in DOMAIN ms : ms[j].text = "goal"}}}

\* A new turn asks for a compaction before its input is added.
StartTurn(text) ==
  /\ pc = "idle" /\ Quiet /\ Room(2)
  /\ pc' = "prepare" /\ input' = text /\ inTurn' = 0 /\ last' = {} /\ stop' = "none"
  /\ \E extra \in Extra : Request("pre", extra)
  /\ UNCHANGED <<tape, summary, gone, active, plan, streak, written, asked, adrift>>

\* begin_turn, and the turn's input.
Begin ==
  /\ pc = "prepare" /\ Quiet /\ stop = "none"
  /\ active' = {Len(tape)} /\ adrift' = FALSE /\ pc' = "loop" /\ input' = "none"
  /\ Push(<<Message("user", {}, input)>>)
  /\ UNCHANGED <<summary, gone, plan, job, stop, flushed, streak, inTurn, last>>

\* cancel_current_task
Cancelled ==
  /\ pc \in {"prepare", "loop"} /\ Quiet /\ stop = "cancel"
  /\ pc' = "idle" /\ active' = {} /\ plan' = NoPlan /\ stop' = "none" /\ inTurn' = 0 /\ last' = {}
  /\ UNCHANGED <<tape, summary, gone, input, job, flushed, streak, written, asked, adrift>>

\* The model answers: the turn is over.
Answer ==
  /\ pc = "loop" /\ Quiet /\ stop = "none" /\ Room(1)
  /\ Push(<<Message("assistant", {}, "answer")>>) /\ pc' = "idle"
  /\ UNCHANGED <<summary, gone, active, plan, input, job, stop, flushed, streak, inTurn, last, adrift>>

\* The messages of a Tool call and its answer.
Call == <<Message("assistant", {written + 1}, "blank"),
          [role |-> "tool", ids |-> {written + 1}, text |-> "result", id |-> written + 2]>>

\* The model calls a Tool, whose answer is added.
Tool ==
  /\ pc = "loop" /\ Quiet /\ stop = "none" /\ Room(2)
  /\ Push(Call) /\ pc' = "check"
  /\ UNCHANGED <<summary, gone, active, plan, input, job, stop, flushed, streak, inTurn, last, adrift>>

\* handle_update_plan: the plan is positioned after the message that asks for it.
UpdatePlan ==
  /\ pc = "loop" /\ Quiet /\ stop = "none" /\ Room(2)
  /\ plan' = [set |-> TRUE, start |-> active, count |-> {Len(tape) + 1}, at |-> written + 1]
  /\ Push(Call) /\ pc' = "check"
  /\ UNCHANGED <<summary, gone, active, input, job, stop, flushed, streak, inTurn, last, adrift>>

\* Mutant: a steered turn keeps its plan.
MutOutdated(p) == p

\* The plan is no longer the active turn's.
Outdated(p) == [p EXCEPT !.start = {}]

\* A steering input is added after a batch.
Steer(text) ==
  /\ pc = "check" /\ stop = "none" /\ Room(1)
  /\ plan' = Outdated(plan) /\ Push(<<Message("user", {}, text)>>)
  /\ adrift' = (adrift \/ text = "blank")
  /\ UNCHANGED <<summary, gone, active, pc, input, job, stop, flushed, streak, inTurn, last>>

\* A guardrail retries the generation.
Retry ==
  /\ pc = "loop" /\ Quiet /\ stop = "none" /\ pc' = "check"
  /\ UNCHANGED <<tape, summary, gone, active, plan, input, job, stop, flushed, streak,
                 inTurn, last, written, asked, adrift>>

\* maybe_compact_mid_turn_if_needed
MidTurn ==
  /\ pc = "check" /\ pc' = "loop"
  /\ \E extra \in Extra :
       IF MayCompactMidTurn(Estimated(extra)) THEN Request("mid", extra) ELSE UNCHANGED <<job, flushed>>
  /\ UNCHANGED <<tape, summary, gone, active, plan, input, stop, streak, inTurn, last,
                 written, asked, adrift>>

\* Op::CompactWithOptions: nothing can cancel it.
Manual ==
  /\ pc = "idle" /\ Quiet /\ Request("manual", 0) /\ job' /= NoJob
  /\ UNCHANGED <<tape, summary, gone, active, plan, pc, input, stop, streak, inTurn, last,
                 written, asked, adrift>>

\* Where a rollback of n turns cuts: before the n-th last user message.
RemoveFrom(n) == LET users == {i \in DOMAIN tape : tape[i].role = "user"}
                 IN IF Cardinality(users) < n THEN 1
                    ELSE CHOOSE i \in users : Cardinality({j \in users : j >= i}) = n

\* rollback_last_turns and the clearing of the plan; the summary goes with it.
Rollback(n) ==
  /\ pc = "idle" /\ Quiet
  /\ IF \E i \in DOMAIN tape : tape[i].role = "user"
     THEN /\ tape' = SubSeq(tape, 1, RemoveFrom(n) - 1) /\ summary' = {}
          /\ LET removed == Ids(SubSeq(tape, RemoveFrom(n), Len(tape))) IN
             asked' = asked \ removed /\ gone' = gone \cup removed \cup summary
     ELSE UNCHANGED <<tape, summary, asked, gone>>
  /\ plan' = NoPlan
  /\ UNCHANGED <<active, pc, input, job, stop, flushed, streak, inTurn, last, written, adrift>>

\* The turn is cancelled, or the compaction takes too long.
Interrupt ==
  /\ pc /= "idle" /\ stop = "none" /\ stop' \in {"cancel"} \cup (IF Quiet THEN {} ELSE {"timeout"})
  /\ UNCHANGED <<tape, summary, gone, active, plan, pc, input, job, flushed, streak, inTurn,
                 last, written, asked, adrift>>

Next ==
  \/ FlushAgain \/ Flush \/ CancelledJob \/ Trim \/ Summarise \/ Degrade
  \/ Begin \/ Cancelled \/ Answer \/ Tool \/ UpdatePlan \/ Retry \/ MidTurn \/ Manual \/ Interrupt
  \/ \E text \in {"goal", "ack", "blank"} : StartTurn(text) \/ Steer(text)
  \/ \E n \in 1 .. 2 : Rollback(n)

Spec == Init /\ [][Next]_vars

-----------------------------------------------------------------------------
(* memory_surfaces.rs: the goal a refresh of the surfaces writes *)

\* derive_current_goal: the plan of the active turn, a goal the active turn
\* asks for, the last goal of the tape or a plan made after it, the plan, the
\* summary, the last user message.
CurrentGoal ==
  LET users == {i \in DOMAIN tape : tape[i].role = "user" /\ tape[i].text /= "blank"}
      goals == {i \in users : tape[i].text = "goal"}
      goal == Max(goals)
      user == Max(users)
  IN IF plan.set /\ active /= {} /\ plan.start = active THEN [of |-> "plan", id |-> 0]
     ELSE IF users /= {} /\ user \in goals /\ \E a \in active : user - 1 >= a
          THEN [of |-> "message", id |-> tape[user].id]
     ELSE IF goals /= {}
          THEN IF plan.set /\ \E c \in plan.count : c > goal - 1 THEN [of |-> "plan", id |-> 0]
               ELSE [of |-> "message", id |-> tape[goal].id]
     ELSE IF plan.set THEN [of |-> "plan", id |-> 0]
     ELSE IF summary /= {} THEN [of |-> "summary", id |-> 0]
     ELSE IF users /= {} THEN [of |-> "message", id |-> tape[user].id]
     ELSE [of |-> "none", id |-> 0]

-----------------------------------------------------------------------------
\* No compaction loses context without saying so: a message ever written is on
\* the tape, is covered by the summary, was left out by an attempt that reported
\* a retry or a degraded summary, or was rolled back (compaction.rs,
\* maybe_compact_context_with_cancel against AgentMachine::compact_tape, which
\* computes the retention a second time).
ContextIsAccounted ==
  1 .. written \subseteq Ids(tape) \cup summary \cup gone

\* What a summary stands for stays: a rollback removes the last turns and
\* nothing else (agent_machine.rs, "Roll back the last `num_turns` user turns
\* from in-memory context.").
RollbackTakesItsTurns == [][summary \subseteq summary']_vars

\* The goal in the surfaces is the latest one: the last goal the user asked for,
\* or the plan when it was made after that goal, across turns, steering,
\* rollbacks and the positions a compaction moves; as long as no compaction cuts
\* inside the active turn and no steering input comes without text
\* (memory_surfaces.rs, derive_current_goal; transition_state.rs,
\* note_tape_compaction).
GoalIsLatest ==
  (~adrift /\ asked \cap Ids(tape) /= {} /\ Max(asked) \in Ids(tape)) =>
     CurrentGoal = IF plan.set /\ plan.at > Max(asked) THEN [of |-> "plan", id |-> 0]
                   ELSE [of |-> "message", id |-> Max(asked)]
=============================================================================
