------------------------------ MODULE MCEngine ------------------------------
(***************************************************************************)
(* The engine of an Agent, side by side: the bounded owner program, the    *)
(* queues of inputs, turns, the rollout and its recovery, and the compaction*)
(* of the tape.  They share no state here, so a behaviour moves only the one*)
(* it starts with, and the others are off: the run explores the sum of their*)
(* states and not the product.                                             *)
(***************************************************************************)
EXTENDS OwnerWork

CONSTANTS TurnInputs, FollowUps, Steers, NextTurns, InbandMax, BufferMax, NextMax, PendingMax,
          Mixes, CalmAfter, MaxDeferred, NoInput, Resumption, Deferred, Kinds, KeepLast,
          MaxSteers, EffectCalls, MaxQueue, TriggerMessages, Soft, Hard, Window, MinGrowth,
          MidTurnLimit, MaxTrims, Extra

VARIABLES moves, inputsDisk, inputsClosed, q, exec, turn, inputsCancel, obs, ran, told,
          noticed, inherited, resumed, doubted, budget, tape, kind, turnsTurn, start, pc,
          input, batch, origin, approved, turnsPending, replay, command, commands,
          answers, steers, sent, turnsCancel, up, users, ordinal, index, waiting,
          recordsTurn, call, recordsQueue, failed, file, previous, selected, began,
          spawned, applied, repeated, exposed, refused, floor, crashes, calls,
          contextTape, summary, gone, active, plan, contextPc, contextInput, job, stop,
          flushed, streak, inTurn, last, written, asked, adrift

Queue == INSTANCE InputQueue WITH disk <- inputsDisk, closed <- inputsClosed,
                  cancel <- inputsCancel, Resume <- Resumption,
                  Turns <- TurnInputs
Turn == INSTANCE Turn WITH turn <- turnsTurn, pending <- turnsPending,
                 cancel <- turnsCancel, MaxTurns <- 2, MaxMessages <- 4, MaxCalls <- 3
Rollout == INSTANCE Rollout WITH turn <- recordsTurn, queue <- recordsQueue,
                    MaxTurns <- 2, MaxCalls <- 2, Calls <- EffectCalls
Context == INSTANCE Compaction WITH tape <- contextTape, pc <- contextPc,
                    input <- contextInput, MaxMessages <- 5

inputsPart == <<inputsDisk, inputsClosed, q, exec, turn, inputsCancel, obs, ran, told,
                noticed, inherited, resumed, doubted, budget>>
turnsPart == <<tape, kind, turnsTurn, start, pc, input, batch, origin, approved,
               turnsPending, replay, command, commands, answers, steers, sent,
               turnsCancel>>
recordsPart == <<up, users, ordinal, index, waiting, recordsTurn, call, recordsQueue,
                 failed, file, previous, selected, began, spawned, applied, repeated,
                 exposed, refused, floor, crashes, calls>>
contextPart == <<contextTape, summary, gone, active, plan, contextPc, contextInput, job,
                 stop, flushed, streak, inTurn, last, written, asked, adrift>>
inputsOff == /\ inputsDisk = 0 /\ inputsClosed = 0 /\ q = 0 /\ exec = 0 /\ turn = 0
             /\ inputsCancel = 0 /\ obs = 0 /\ ran = 0 /\ told = 0 /\ noticed = 0
             /\ inherited = 0 /\ resumed = 0 /\ doubted = 0 /\ budget = 0
turnsOff == /\ tape = 0 /\ kind = 0 /\ turnsTurn = 0 /\ start = 0 /\ pc = 0 /\ input = 0
            /\ batch = 0 /\ origin = 0 /\ approved = 0 /\ turnsPending = 0 /\ replay = 0
            /\ command = 0 /\ commands = 0 /\ answers = 0 /\ steers = 0 /\ sent = 0
            /\ turnsCancel = 0
recordsOff == /\ up = 0 /\ users = 0 /\ ordinal = 0 /\ index = 0 /\ waiting = 0
              /\ recordsTurn = 0 /\ call = 0 /\ recordsQueue = 0 /\ failed = 0 /\ file = 0
              /\ previous = 0 /\ selected = 0 /\ began = 0 /\ spawned = 0 /\ applied = 0
              /\ repeated = 0 /\ exposed = 0 /\ refused = 0 /\ floor = 0 /\ crashes = 0
              /\ calls = 0
contextOff == /\ contextTape = 0 /\ summary = 0 /\ gone = 0 /\ active = 0 /\ plan = 0
              /\ contextPc = 0 /\ contextInput = 0 /\ job = 0 /\ stop = 0 /\ flushed = 0
              /\ streak = 0 /\ inTurn = 0 /\ last = 0 /\ written = 0 /\ asked = 0
              /\ adrift = 0

MCInit ==
    /\ moves \in {"work", "inputs", "turns", "records", "context"}
    /\ Init
    /\ IF moves = "inputs" THEN Queue!Init ELSE inputsOff
    /\ IF moves = "turns" THEN Turn!Init ELSE turnsOff
    /\ IF moves = "records" THEN Rollout!Init ELSE recordsOff
    /\ IF moves = "context" THEN Context!Init ELSE contextOff

WorkOnly == moves = "work" /\ UNCHANGED <<moves, inputsPart, turnsPart, recordsPart,
              contextPart>>
InputsOnly == moves = "inputs" /\ UNCHANGED <<moves, vars, turnsPart, recordsPart,
              contextPart>>
TurnsOnly == moves = "turns" /\ UNCHANGED <<moves, vars, inputsPart, recordsPart,
              contextPart>>
RecordsOnly == moves = "records" /\ UNCHANGED <<moves, vars, inputsPart, turnsPart,
              contextPart>>
ContextOnly == moves = "context" /\ UNCHANGED <<moves, vars, inputsPart, turnsPart,
              recordsPart>>

WorkMoves == WorkOnly /\ Next
InputsMoves == InputsOnly /\ Queue!Next
TurnsMoves == TurnsOnly /\ Turn!Next
RecordsMoves == RecordsOnly /\ Rollout!Next
ContextMoves == ContextOnly /\ Context!Next

MCNext == WorkMoves \/ InputsMoves \/ TurnsMoves \/ RecordsMoves \/ ContextMoves

mcVars == <<moves, vars, inputsPart, turnsPart, recordsPart, contextPart>>

MCSpec == MCInit /\ [][MCNext]_mcVars

\* InputQueue: no input is executed twice, one reported as ended without execution
\* is not executed, follow-ups keep their order, and no accepted input is lost.
QueueIsFaithful ==
    moves = "inputs" =>
        Queue!AtMostOnce /\ Queue!ToldMeansUnrun /\ Queue!FollowUpsInOrder /\ Queue!NothingLost

\* Turn: every call has one answer, an approval replays the calls it was asked
\* for, and the start of the active turn is where its messages begin.
TurnsAreAnswered ==
    moves = "turns" =>
        Turn!AnsweredOnce /\ Turn!ApprovalReplaysItsCall /\ Turn!TurnStartIsTrue

\* InputQueue: inherited work waits for the user.  Turn: a call whose answer
\* somebody depends on gets one.
WorkWaitsAndEnds ==
    [][/\ moves = "inputs" => Queue!InheritedWaits
       /\ moves = "turns" => Turn!OwedStep]_mcVars

\* Rollout and Compaction: a recorded effect is applied once over crashes and
\* recoveries; what leaves the tape is in the summary, and the goal shown is the
\* latest one.
HistoryIsKept ==
    /\ moves = "records" => Rollout!AppliedOnce
    /\ moves = "context" => Context!ContextIsAccounted /\ Context!GoalIsLatest
=============================================================================
