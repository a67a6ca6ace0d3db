------------------------------ MODULE MCAgents ------------------------------
(***************************************************************************)
(* Running Agents and those who wait for them, side by side: the activity  *)
(* and the release of an Agent, a child run seen from its parent, and a    *)
(* terminal that attaches.  They share no state here, so a behaviour moves *)
(* only the one it starts with, and the others are off: the run explores the*)
(* sum of their states and not the product.                                *)
(***************************************************************************)
EXTENDS Naturals, Sequences

CONSTANTS MaxBeats, MaxTurns, MaxAttempts, MaxGen, Ids, MaxPid, MaxClears, Faulty,
          MaxFaults, Viewport, MaxOthers

VARIABLES moves, activity, notice, started, text, pending, exec, outcome, turns,
          interrupted, finished, beat, beats, waiter, saw, result, early, errors, reg, at,
          status, aborted, engine, ready, stop, release, gen, read, inputs, attempts, pc,
          cancel, child, code, said, turn, files, seen, last, torn, record, asked,
          verdict, late, launched, root, up, procs, att, owner, tails, tpos, upos, qnews,
          idle, attachInputs, shown, attachPending, reports, polled, poll, attachLast,
          attachPc, clears, faults, out, tape, hydrated, clipped, recon, cells,
          scrollback, boundary, others

\* Conversations of two turns; an answer comes in one piece or in two.
Said(who, words) == [role |-> who, text |-> words]
Answers == {<<"a">>, <<"b">>, <<"a", "b">>, <<"a", "a">>, <<"b", "a">>}
Talks == {<<Said("user", <<"u">>), Said("assistant", x), Said("user", <<"u">>), Said("assistant", y)>> :
            x \in Answers, y \in Answers}

Run == INSTANCE AgentRun WITH Root <- "root", Child <- "child"
Child == INSTANCE ChildRun
Render == INSTANCE Renderer WITH inputs <- attachInputs, pending <- attachPending,
                   last <- attachLast, pc <- attachPc

activityPart == <<activity, notice, started, text, pending, exec, outcome, turns,
                  interrupted, finished, beat, beats, waiter, saw, result, early, errors>>
lifePart == <<reg, at, status, aborted, engine, ready, stop, release>>
childPart == <<gen, read, inputs, attempts, pc, cancel, child, code, said, turn, files,
               seen, last, torn, record, asked, verdict, late>>
attachPart == <<launched, root, up, procs, att, owner, tails, tpos, upos, qnews, idle,
                attachInputs, shown, attachPending, reports, polled, poll, attachLast,
                attachPc, clears, faults>>
screenPart == <<out, tape, hydrated, clipped, recon, cells, scrollback, boundary, others>>
activityOff == /\ activity = 0 /\ notice = 0 /\ started = 0 /\ text = 0 /\ pending = 0
               /\ exec = 0 /\ outcome = 0 /\ turns = 0 /\ interrupted = 0 /\ finished = 0
               /\ beat = 0 /\ beats = 0 /\ waiter = 0 /\ saw = 0 /\ result = 0
               /\ early = 0 /\ errors = 0
lifeOff == /\ reg = 0 /\ at = 0 /\ status = 0 /\ aborted = 0 /\ engine = 0 /\ ready = 0
           /\ stop = 0 /\ release = 0
childOff == /\ gen = 0 /\ read = 0 /\ inputs = 0 /\ attempts = 0 /\ pc = 0 /\ cancel = 0
            /\ child = 0 /\ code = 0 /\ said = 0 /\ turn = 0 /\ files = 0 /\ seen = 0
            /\ last = 0 /\ torn = 0 /\ record = 0 /\ asked = 0 /\ verdict = 0 /\ late = 0
attachOff == /\ launched = 0 /\ root = 0 /\ up = 0 /\ procs = 0 /\ att = 0 /\ owner = 0
             /\ tails = 0 /\ tpos = 0 /\ upos = 0 /\ qnews = 0 /\ idle = 0
             /\ attachInputs = 0 /\ shown = 0 /\ attachPending = 0 /\ reports = 0
             /\ polled = 0 /\ poll = 0 /\ attachLast = 0 /\ attachPc = 0 /\ clears = 0
             /\ faults = 0
screenOff == /\ out = 0 /\ tape = 0 /\ hydrated = 0 /\ clipped = 0 /\ recon = 0 /\ cells = 0
             /\ scrollback = 0 /\ boundary = 0 /\ others = 0

MCInit ==
    /\ moves \in {"activity", "life", "child", "attach", "screen"}
    /\ IF moves = "activity" THEN Run!ActivityInit ELSE activityOff
    /\ IF moves = "life" THEN Run!LifeInit ELSE lifeOff
    /\ IF moves = "child" THEN Child!Init ELSE childOff
    /\ IF moves = "attach" THEN Render!AttachInit ELSE attachOff
    /\ IF moves = "screen" THEN Render!ReconcileInit ELSE screenOff

ActivityOnly == moves = "activity" /\ UNCHANGED <<moves, lifePart, childPart, attachPart,
              screenPart>>
LifeOnly == moves = "life" /\ UNCHANGED <<moves, activityPart, childPart, attachPart,
              screenPart>>
ChildOnly == moves = "child" /\ UNCHANGED <<moves, activityPart, lifePart, attachPart,
              screenPart>>
AttachOnly == moves = "attach" /\ UNCHANGED <<moves, activityPart, lifePart, childPart,
              screenPart>>
ScreenOnly == moves = "screen" /\ UNCHANGED <<moves, activityPart, lifePart, childPart,
              attachPart>>

ActivityMoves == ActivityOnly /\ Run!ActivityNext
LifeMoves == LifeOnly /\ Run!LifeNext
ChildMoves == ChildOnly /\ Child!Next
AttachMoves == AttachOnly /\ Render!AttachNext
ScreenMoves == ScreenOnly /\ Render!ReconcileNext

MCNext == ActivityMoves \/ LifeMoves \/ ChildMoves \/ AttachMoves \/ ScreenMoves

mcVars == <<moves, activityPart, lifePart, childPart, attachPart, screenPart>>

MCFairness ==
    /\ WF_mcVars(\/ ActivityOnly /\ Run!Engine
                 \/ LifeOnly /\ Run!RootDetaches
                 \/ ChildOnly /\ Child!Parent
                 \/ AttachOnly /\ Render!AgentStep)
    /\ WF_mcVars(\/ ActivityOnly /\ Run!Poll
                 \/ LifeOnly /\ Run!Section("root")
                 \/ AttachOnly /\ Render!Client)
    /\ WF_mcVars(\/ LifeOnly /\ Run!Section("child")
                 \/ AttachOnly /\ (Render!Exit \/ Render!Launch))
    /\ \A p \in Run!Pids : WF_mcVars(LifeOnly /\ Run!Drop(p)) /\ WF_mcVars(LifeOnly /\ Run!Exit(p))
    /\ \A who \in Run!Releasers : WF_mcVars(LifeOnly /\ Run!Release(who))

MCSpec == MCInit /\ [][MCNext]_mcVars /\ MCFairness



\* AgentRun: an Agent whose Process exited is soon in no registry, and stays out.
\* An exited Process stays exited, so this is Run!ExitedIsForgotten.
ExitedIsForgotten == <>[](moves = "life" => Run!ExitedForgotten)

\* Renderer: a terminal reports of an input only what happened to it.
OutcomesAreTrue == [][moves = "attach" => Render!ReportStep]_mcVars

=============================================================================
