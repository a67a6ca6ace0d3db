------------------------------ MODULE Rollout ------------------------------
(***************************************************************************)
(* What an Agent Machine makes durable and gets back: the rollout writer   *)
(* (crates/agent-engine/src/rollout.rs, rollout/writer.rs), the recovery   *)
(* of a machine from a rollout (agent_machine/recovery.rs), the life of a  *)
(* Tool call with effects (runtime/tool_effect_lifecycle.rs,               *)
(* tool_execution.rs), compaction (runtime/compaction.rs), and the choice  *)
(* of the rollout a restarted root resumes (service-manager's              *)
(* agent_runtime/root_recovery.rs).  A rollout file is represented by what *)
(* loading it yields: recovery is a fold over its records.  A crash ends   *)
(* the OS process; what the writer has flushed stays, what is still queued *)
(* is lost, a torn last record is ignored.  Durability is required (with   *)
(* best effort a machine may run without a recorder).                      *)
(***************************************************************************)
EXTENDS Naturals, Sequences, FiniteSets, FiniteSetsExt

CONSTANTS Calls,       \* Tool calls with effects, by name and arguments
          MaxTurns,    \* bound on user turns
          MaxCrashes,  \* bound on crashes
          MaxCalls,    \* bound on the calls the model makes
          MaxQueue     \* bound on the records the writer has not taken yet

Turns == 0..MaxTurns
Keys == Turns \X Calls   \* idempotency keys: user turn ordinal and request fingerprint

VARIABLES
    up,        \* the machine runs
    users,     \* user messages on the tape
    ordinal,   \* user_turn_ordinal
    index,     \* effect_index: key -> "none" | "unknown" | "applied" | "failed"
    waiting,   \* the user turn that waits for an answer across restarts, 0 if none
    turn,      \* the user turn in progress, 0 if none
    call,      \* the Tool call in progress: where it is, its name, whether it is approved
    queue,     \* records on their way to the writer
    failed,    \* the writer failed closed
    file,      \* the rollout this machine writes
    previous,  \* the rollout this machine was recovered from
    selected,  \* root-rollout names this machine's rollout, not the previous one
    began,     \* user turns begun so far (history variable)
    spawned,   \* user turn and call whose process was started (history variable)
    applied,   \* user turn and call whose effect has happened (history variable)
    repeated,  \* an effect that had happened was started again unconfirmed (history variable)
    exposed,   \* an effect was started before the rollout was selected (history variable)
    refused,   \* the evidence of an effect that happened was refused (history variable)
    floor,     \* the highest ordinal a recovery has produced (history variable)
    crashes, calls

memory == <<users, ordinal, index, waiting, turn, call>>
ghosts == <<began, spawned, applied, repeated, exposed, refused, floor>>
disk == <<file, previous, selected>>
vars == <<up, memory, queue, failed, disk, ghosts, crashes, calls>>

NoEffects == [k \in Keys |-> "none"]
Empty == [msgs |-> 0, kept |-> 0, effects |-> NoEffects, waiting |-> 0]
Idle == [at |-> "idle"]

Init ==
    /\ up = TRUE /\ users = 0 /\ ordinal = 0 /\ index = NoEffects /\ waiting = 0
    /\ turn = 0 /\ call = Idle
    /\ queue = <<>> /\ failed = FALSE
    /\ file = Empty /\ previous = Empty /\ selected = TRUE
    /\ began = 0 /\ spawned = {} /\ applied = {} /\ repeated = FALSE /\ exposed = FALSE /\ refused = FALSE /\ floor = 0
    /\ crashes = 0 /\ calls = 0

-----------------------------------------------------------------------------
\* What one more record changes in what a rollout yields when it is loaded:
\* every user message counts for the ordinal, a compaction replaces the tape,
\* the last record of an effect wins, a wait ends with its terminal record.
Load(f, item) ==
    CASE item.type = "user" -> [f EXCEPT !.msgs = @ + 1, !.kept = @ + 1]
      [] item.type = "compacted" -> [f EXCEPT !.kept = item.kept]
      [] item.type = "effect" -> [f EXCEPT !.effects[item.key] = item.status]
      [] item.type = "waiting" -> [f EXCEPT !.waiting = item.turn]

\* record_nowait and flush_nowait: a writer that failed rejects what it receives.
Record(items) ==
    /\ Len(queue) < MaxQueue
    /\ queue' = IF failed THEN queue ELSE queue \o items
Effect(key, status) == [type |-> "effect", key |-> key, status |-> status]

\* The writer task takes the next record and flushes it.
WriteItem ==
    /\ queue # <<>>
    /\ file' = Load(file, Head(queue))
    /\ queue' = Tail(queue)
    /\ UNCHANGED <<up, memory, failed, previous, selected, ghosts, crashes, calls>>

\* A write or a flush fails: nothing more is written.
WriteFails ==
    /\ queue # <<>>
    /\ failed' = TRUE /\ queue' = <<>>
    /\ UNCHANGED <<up, memory, disk, ghosts, crashes, calls>>

\* A flush or a batch that waits for its acknowledgement.
Drained == queue = <<>>

-----------------------------------------------------------------------------
\* A user message starts a turn.
BeginTurn ==
    /\ up /\ turn = 0 /\ waiting = 0 /\ began < MaxTurns
    /\ ordinal < MaxTurns
    /\ began' = began + 1
    /\ turn' = began + 1
    /\ users' = users + 1 /\ ordinal' = ordinal + 1
    /\ Record(<<[type |-> "user"]>>)
    /\ UNCHANGED <<up, index, waiting, call, failed, disk, spawned, applied, repeated,
                   exposed, refused, floor, crashes, calls>>

EndTurn ==
    /\ up /\ turn # 0 /\ call = Idle
    /\ turn' = 0
    /\ UNCHANGED <<up, users, ordinal, index, waiting, call, queue, failed, disk, ghosts, crashes, calls>>

\* The turn stops for a durable wait (a host mount request, an owner's answer);
\* the answer resumes the same turn, in this machine or in a recovered one.
Wait ==
    /\ up /\ turn # 0 /\ call = Idle
    /\ waiting' = turn /\ turn' = 0
    /\ Record(<<[type |-> "waiting", turn |-> turn]>>)
    /\ UNCHANGED <<up, users, ordinal, index, call, failed, disk, ghosts, crashes, calls>>

Answer ==
    /\ up /\ waiting # 0
    /\ turn' = waiting /\ waiting' = 0
    /\ Record(<<[type |-> "waiting", turn |-> 0]>>)
    /\ UNCHANGED <<up, users, ordinal, index, call, failed, disk, ghosts, crashes, calls>>

\* maybe_compact_context_with_cancel replaces the tape by a summary and the
\* messages it retains, also when the summary is a degraded one, and then
\* persists the attempt; a tape that is not reduced is left alone.
Compact(kept) ==
    /\ up /\ call = Idle /\ kept < users
    /\ users' = kept
    /\ Record(<<[type |-> "compacted", kept |-> kept]>>)
    /\ UNCHANGED <<up, ordinal, index, waiting, turn, call, failed, disk, ghosts, crashes, calls>>

\* rollback_last_turns of one turn: in memory only.
Rollback ==
    /\ up /\ turn = 0 /\ waiting = 0 /\ users > 0
    /\ users' = users - 1
    /\ UNCHANGED <<up, ordinal, index, waiting, turn, call, queue, failed, disk, ghosts, crashes, calls>>

-----------------------------------------------------------------------------
Key(c) == <<ordinal, c>>
Real(c) == <<turn, c>>

SetEffect(c, status) ==
    /\ index' = [index EXCEPT ![Key(c)] = status]
    /\ Record(<<Effect(Key(c), status)>>)

\* ToolEffectLifecycle::plan for a call that is not approved.
Plan(c) ==
    CASE index[Key(c)] = "unknown" -> "confirm"
      [] index[Key(c)] = "applied" -> "replay"
      [] OTHER -> "execute"

\* execute_allowed_tool_call asks before it repeats an effect of unknown outcome.
Confirm(c) ==
    /\ up /\ turn # 0 /\ call = Idle /\ calls < MaxCalls
    /\ Plan(c) = "confirm"
    /\ calls' = calls + 1
    /\ call' = [at |-> "confirm", name |-> c, approved |-> FALSE]
    /\ UNCHANGED <<up, users, ordinal, index, waiting, turn, queue, failed, disk, ghosts, crashes>>

\* It answers with the recorded result when the effect is known to be applied.
Replay(c) ==
    /\ up /\ turn # 0 /\ call = Idle /\ calls < MaxCalls
    /\ Plan(c) = "replay"
    /\ calls' = calls + 1
    /\ SetEffect(c, "applied")
    /\ UNCHANGED <<up, users, ordinal, waiting, turn, call, failed, disk, ghosts, crashes>>

\* begin records the effect as unknown and waits for the flush.
Begin(c) ==
    /\ up /\ turn # 0 /\ call = Idle /\ calls < MaxCalls
    /\ Plan(c) = "execute"
    /\ calls' = calls + 1
    /\ SetEffect(c, "unknown")
    /\ call' = [at |-> "begin", name |-> c, approved |-> FALSE]
    /\ UNCHANGED <<up, users, ordinal, waiting, turn, failed, disk, ghosts, crashes>>

\* The user approves the replay (the call runs in spite of the unknown
\* outcome) or rejects it.
Approve ==
    /\ up /\ call.at = "confirm"
    /\ SetEffect(call.name, "unknown")
    /\ call' = [call EXCEPT !.at = "begin", !.approved = TRUE]
    /\ UNCHANGED <<up, users, ordinal, waiting, turn, failed, disk, ghosts, crashes, calls>>

Reject ==
    /\ up /\ call.at = "confirm"
    /\ call' = Idle
    /\ UNCHANGED <<up, users, ordinal, index, waiting, turn, queue, failed, disk, ghosts, crashes, calls>>

\* Mutant: the process is started before the checkpoint is acknowledged.
MutSpawn ==
    /\ up /\ call.at = "begin" /\ ~failed
    /\ call' = [call EXCEPT !.at = "running"]
    /\ spawned' = spawned \cup {Real(call.name)}
    /\ repeated' = (repeated \/ (Real(call.name) \in applied /\ ~call.approved))
    /\ exposed' = (exposed \/ ~selected)
    /\ UNCHANGED <<up, users, ordinal, index, waiting, turn, queue, failed, disk, began, applied,
                   refused, floor, crashes, calls>>

\* The flush is acknowledged and the process is spawned.
Spawn ==
    /\ up /\ call.at = "begin" /\ ~failed /\ Drained
    /\ call' = [call EXCEPT !.at = "running"]
    /\ spawned' = spawned \cup {Real(call.name)}
    /\ repeated' = (repeated \/ (Real(call.name) \in applied /\ ~call.approved))
    /\ exposed' = (exposed \/ ~selected)
    /\ UNCHANGED <<up, users, ordinal, index, waiting, turn, queue, failed, disk, began, applied,
                   refused, floor, crashes, calls>>

\* The checkpoint could not be written: the call is not executed.
CheckpointFails ==
    /\ up /\ call.at = "begin" /\ failed
    /\ SetEffect(call.name, "unknown")
    /\ call' = Idle
    /\ UNCHANGED <<up, users, ordinal, waiting, turn, failed, disk, ghosts, crashes, calls>>

\* The spawned process has its effect, maybe after it was cancelled, or after a crash.
Happen(r) ==
    /\ r \in spawned \ applied
    /\ applied' = applied \cup {r}
    /\ UNCHANGED <<up, memory, queue, failed, disk, began, spawned, repeated, exposed, refused, floor,
                   crashes, calls>>

\* The result is read and the Action evidence is written and made durable: the
\* outcome the Tool reports is recorded, and a reported failure is believed.
Complete(ok) ==
    /\ up /\ call.at = "running" /\ ~failed /\ Drained
    /\ SetEffect(call.name, IF ok THEN "applied" ELSE "failed")
    /\ call' = Idle
    /\ applied' = IF ok THEN applied \cup {Real(call.name)} ELSE applied \ {Real(call.name)}
    /\ spawned' = IF ok THEN spawned ELSE spawned \ {Real(call.name)}
    /\ UNCHANGED <<up, users, ordinal, waiting, turn, failed, disk, began, repeated, exposed, refused, floor,
                   crashes, calls>>

\* Cancellation, a timeout or a result that cannot be read: the outcome is unknown.
Lose ==
    /\ up /\ call.at = "running"
    /\ SetEffect(call.name, "unknown")
    /\ call' = Idle
    /\ UNCHANGED <<up, users, ordinal, waiting, turn, failed, disk, ghosts, crashes, calls>>

\* The Action evidence cannot be made durable: an error that is not a
\* NamespaceToolProcessError, recorded as a failure of the Tool.
EvidenceFails ==
    /\ up /\ call.at = "running" /\ failed
    /\ SetEffect(call.name, "failed")
    /\ call' = Idle
    /\ UNCHANGED <<up, users, ordinal, waiting, turn, failed, disk, ghosts, crashes, calls>>

\* The terminal Action record is refused (a result beyond the document limit):
\* the call is recorded as failed although its process succeeded.
EvidenceRefused ==
    /\ up /\ call.at = "running" /\ ~failed /\ Drained
    /\ Real(call.name) \in applied
    /\ SetEffect(call.name, "failed")
    /\ call' = Idle /\ refused' = TRUE
    /\ UNCHANGED <<up, users, ordinal, waiting, turn, failed, disk, began, spawned, applied, repeated,
                   exposed, floor, crashes, calls>>

-----------------------------------------------------------------------------
\* The OS process ends: queued records are lost.
Crash ==
    /\ up /\ crashes < MaxCrashes
    /\ crashes' = crashes + 1
    /\ up' = FALSE /\ queue' = <<>> /\ failed' = FALSE
    /\ users' = 0 /\ ordinal' = 0 /\ index' = NoEffects /\ waiting' = 0 /\ turn' = 0 /\ call' = Idle
    /\ UNCHANGED <<disk, ghosts, calls>>

\* The user turn of the latest effect, 0 if there is none.
EffectTurn(effects) == Max({0} \cup {k[1] : k \in {e \in Keys : effects[e] # "none"}})

\* root_recovery::select names the rollout to load.
Loaded == IF selected THEN file ELSE previous

\* load_from_rollout_impl: the machine is rebuilt from the selected rollout
\* and writes what it recovered as the first batch of a rollout of its own.
Recover ==
    /\ ~up
    /\ up' = TRUE
    /\ users' = Loaded.kept
    /\ ordinal' = Max({Loaded.msgs, EffectTurn(Loaded.effects)})
    /\ index' = Loaded.effects
    /\ waiting' = Loaded.waiting
    /\ previous' = Loaded /\ selected' = FALSE
    /\ file' = [Loaded EXCEPT !.msgs = Loaded.kept]
    /\ floor' = Max({floor, ordinal'})
    /\ UNCHANGED <<turn, call, queue, failed, began, spawned, applied, repeated, exposed, refused, crashes,
                   calls>>

\* root_recovery::publish, once the engine is ready.
Publish ==
    /\ up /\ ~selected
    /\ selected' = TRUE
    /\ UNCHANGED <<up, memory, queue, failed, file, previous, ghosts, crashes, calls>>

Next ==
    \/ WriteItem \/ WriteFails
    \/ BeginTurn \/ EndTurn \/ Wait \/ Answer \/ Rollback
    \/ \E kept \in 0..MaxTurns : Compact(kept)
    \/ \E c \in Calls : Confirm(c) \/ Replay(c) \/ Begin(c)
    \/ Approve \/ Reject \/ Spawn \/ CheckpointFails
    \/ \E r \in Keys : Happen(r)
    \/ \E ok \in BOOLEAN : Complete(ok)
    \/ Lose \/ EvidenceFails \/ EvidenceRefused
    \/ Crash \/ Recover \/ Publish

Spec == Init /\ [][Next]_vars

-----------------------------------------------------------------------------
\* A Tool effect that happened in a user turn is not started again in that
\* turn without the user's approval, across lost results, writer failures,
\* compaction and restarts (tool_effect_lifecycle.rs plan, begin and complete
\* with recovery.rs).  Two cases are outside: a machine that acts before its
\* rollout is selected, where a crash falls back to a rollout that knows
\* nothing of it, and evidence that is refused.
AppliedOnce == exposed \/ refused \/ ~repeated

\* "same process side effect does not execute twice"
\* (docs/harness/scenarios/autonomy/dedup_side_effect.json): without the
\* exception for evidence that is refused.
EffectsNotRepeated == exposed \/ ~repeated

\* "recovered history should preserve monotonic turn ordinal across repeated
\* recovery" (agent_machine_recovery_tests.rs): a machine recovered again has
\* no lower user turn ordinal than before.
OrdinalKept == up => ordinal >= floor
=============================================================================
