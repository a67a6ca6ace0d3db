---------------------------- MODULE AgentFiles ------------------------------
(***************************************************************************)
(* What an engine does with the files of its own Agent: it reads its input *)
(* and control notices, and it publishes the outcomes of its Actions.      *)
(***************************************************************************)
EXTENDS Naturals, Sequences, SequencesExt, FiniteSets

-----------------------------------------------------------------------------
(***************************************************************************)
(* How an Agent reads what its clients write: io/input holds the messages  *)
(* as frames, and the aggregate events stream a notice for every committed *)
(* message and every machine/ctl command.  The engine polls the events     *)
(* from control_offset (NamespaceAgentFiles::read_runtime_submissions) and *)
(* at each input notice reads the frame at input_offset.                   *)
(***************************************************************************)

CONSTANTS
    Payloads,   \* subset of {"text", "record", "broken", "raw"}: plain text, a
                \* versioned record, one that does not decode, and bytes that
                \* are not UTF-8
    Commands,   \* subset of {"known", "unknown", "badcwd"}
    MaxWrites,  \* bound on what the clients write
    MaxReadFaults   \* bound on failing file calls

VARIABLES
    input,          \* io/input: the frames
    events,         \* the notices: "input", "other" or a command
    control_offset,
    input_offset,
    call,           \* the read in progress
    submissions,    \* what the engine was given, in order
    missed,         \* input notices whose frame could not be read
    readFaults

feedVars == <<input, events, control_offset, input_offset, call, submissions, missed, readFaults>>

NoCall == [at |-> "none"]

FeedInit ==
    /\ input = <<>>
    /\ events = <<>>
    /\ control_offset = 0
    /\ input_offset = 0
    /\ call = NoCall
    /\ submissions = <<>>
    /\ missed = 0
    /\ readFaults = 0

\* Clients --------------------------------------------------------------------------

\* The clunk of an io/input fid commits the message and announces it.
CommitInput(payload) ==
    /\ Len(events) < MaxWrites
    /\ input' = Append(input, [n |-> Len(input) + 1, payload |-> payload])
    /\ events' = Append(events, "input")
    /\ UNCHANGED <<control_offset, input_offset, call, submissions, missed, readFaults>>

WriteControl(command) ==
    /\ Len(events) < MaxWrites
    /\ events' = Append(events, command)
    /\ UNCHANGED <<input, control_offset, input_offset, call, submissions, missed, readFaults>>

\* The reader -----------------------------------------------------------------------

Given(s) == [kind |-> s, n |-> 0]

\* A poll takes one submission, a batch all that are ready.
read_runtime_submissions(limit) ==
    /\ call = NoCall
    /\ Len(events) > control_offset
    /\ call' = [at |-> "range", limit |-> limit, offset |-> control_offset,
                length |-> Len(events), consumed |-> 0, got |-> <<>>]
    /\ UNCHANGED <<input, events, control_offset, input_offset, submissions, missed, readFaults>>

\* A failed stat or range read leaves both offsets where they are.
ReadFails ==
    /\ call.at = "range"
    /\ readFaults < MaxReadFaults
    /\ readFaults' = readFaults + 1
    /\ call' = NoCall
    /\ UNCHANGED <<input, events, control_offset, input_offset, submissions, missed>>

read_file_range ==
    /\ call.at = "range"
    /\ call' = [call EXCEPT !.at = "line"]
    /\ UNCHANGED <<input, events, control_offset, input_offset, submissions, missed, readFaults>>

Full(c) == Len(c.got) >= c.limit

More(c) == c.offset + c.consumed < c.length

\* The next line: its offset is stored before it is acted on.
NextLine ==
    /\ call.at = "line"
    /\ More(call)
    /\ ~Full(call)

\* parse_one: the frame at input_offset.  Only a frame that is UTF-8 moves it on.
read_next_input_payload(frame) == frame.payload /= "raw"

\* What the caller gets of it; a versioned record that does not decode is an error.
read_next_input_submission(frame) ==
    IF frame.payload = "broken" THEN Given("error") ELSE [kind |-> "input", n |-> frame.n]

InputLine ==
    /\ NextLine
    /\ events[call.offset + call.consumed + 1] = "input"
    /\ control_offset' = call.offset + call.consumed + 1
    /\ LET frame == input[input_offset + 1]
           c == [call EXCEPT !.consumed = @ + 1]
       IN  \/ /\ read_next_input_payload(frame)
              /\ input_offset' = input_offset + 1
              /\ call' = [c EXCEPT !.got = Append(@, read_next_input_submission(frame))]
              /\ UNCHANGED <<missed, readFaults>>
           \/ /\ ~read_next_input_payload(frame)
              /\ call' = [c EXCEPT !.got = Append(@, Given("error"))]
              /\ missed' = missed + 1
              /\ UNCHANGED <<input_offset, readFaults>>
           \/ /\ readFaults < MaxReadFaults
              /\ readFaults' = readFaults + 1
              /\ call' = [c EXCEPT !.got = Append(@, Given("error"))]
              /\ missed' = missed + 1
              /\ UNCHANGED input_offset
    /\ UNCHANGED <<input, events, submissions>>

\* A command that is not known says nothing; a malformed project selector is an error.
machine_control_submission(command) ==
    CASE command = "known"  -> <<Given("control")>>
      [] command = "badcwd" -> <<Given("error")>>
      [] OTHER              -> <<>>

ControlLine ==
    /\ NextLine
    /\ events[call.offset + call.consumed + 1] /= "input"
    /\ control_offset' = call.offset + call.consumed + 1
    /\ call' = [call EXCEPT !.consumed = @ + 1,
                            !.got = @ \o machine_control_submission(
                                            events[call.offset + call.consumed + 1])]
    /\ UNCHANGED <<input, events, input_offset, submissions, missed, readFaults>>

MutReached(c) == c.length

\* Where the call leaves control_offset.
Reached(c) == c.offset + c.consumed

Return ==
    /\ call.at = "line"
    /\ ~More(call) \/ Full(call)
    /\ control_offset' = Reached(call)
    /\ submissions' = submissions \o call.got
    /\ call' = NoCall
    /\ UNCHANGED <<input, events, input_offset, missed, readFaults>>

FeedNext ==
    \/ \E payload \in Payloads : CommitInput(payload)
    \/ \E command \in Commands : WriteControl(command)
    \/ \E limit \in {1, MaxWrites + 1} : read_runtime_submissions(limit)
    \/ ReadFails \/ read_file_range \/ InputLine \/ ControlLine \/ Return

FeedSpec == FeedInit /\ [][FeedNext]_feedVars
-----------------------------------------------------------------------------
Inputs(s) == SelectSeq(s, LAMBDA x : x.kind = "input")

Owed(n) == LET readable == SelectSeq(SubSeq(input, 1, n),
                                      LAMBDA f : f.payload \in {"text", "record"})
           IN  [i \in DOMAIN readable |-> read_next_input_submission(readable[i])]

Noticed(n) == Len(SelectSeq(SubSeq(events, 1, n), LAMBDA e : e = "input"))

Controls(s) == Len(SelectSeq(s, LAMBDA x : x.kind = "control"))

\* What was written is what the engine is given: between reads the inputs delivered
\* are the readable messages up to input_offset, each once and in order, every known
\* command up to control_offset was delivered too, and the reader has taken one
\* message for each notice it passed, less those it could not read.  A message that
\* could not be read is not skipped: the reader stays that many messages behind.
FeedIsExact ==
    call = NoCall =>
        /\ Inputs(submissions) = Owed(input_offset)
        /\ Noticed(control_offset) = input_offset + missed
        /\ Controls(submissions)
              = Len(SelectSeq(SubSeq(events, 1, control_offset), LAMBDA e : e = "known"))

\* plan9-kernel-substrate: a malformed document is rejected when it is committed, so
\* what the stream holds can be read; when every notice has been acted on, and no
\* file call failed, every readable message has been delivered.
CommittedIsReadable ==
    (call = NoCall /\ control_offset = Len(events) /\ readFaults = 0) =>
        Inputs(submissions) = Owed(Len(input))

-----------------------------------------------------------------------------
(***************************************************************************)
(* How an engine publishes the outcome of its Actions: a record becomes an *)
(* entry of AgentFS's actions tree field by field, then an item of the     *)
(* durable rollout, and last its status, which is what watchers wait for.  *)
(* Every file call may fail before or after it took effect.  The outcome   *)
(* of a Tool is published by one attempt; that of a directory selection is *)
(* retained and retried, without repeating the selection itself.  A crash  *)
(* loses the Process with its files; a successor publishes what the        *)
(* rollout holds.                                                          *)
(***************************************************************************)

CONSTANTS
    Ids,         \* the submission ids of directory selections
    Tools,       \* the outcomes of Tools
    Fields,      \* the fields of an Action but its status, in writing order
    MaxSelects,  \* bound on the selections clients submit
    MaxFaults,   \* bound on failing calls
    MaxCrashes,  \* bound on crashes of the Process
    None

VARIABLES
    actions,    \* AgentFS: the entries, each [of, ok, got, status]
    rollout,    \* the durable evidence: a sequence of [of, ok]
    pending,    \* pending_directory_actions: the retained publications
    tool,       \* the publication of a Tool's outcome, or None
    completed,  \* completed_directory_ids
    ran,        \* the Tools that ran
    moved,      \* the selections that changed the cwd of this Process
    again,      \* a selection whose outcome is known changed the cwd once more
    refused,    \* a committed output was written again
    doubted,    \* records whose persisting reported an error after the write
    selects, faults, crashes

actionVars == <<actions, rollout, pending, tool, completed, ran, moved, again, refused, doubted,
                selects, faults, crashes>>

FieldSet == {Fields[i] : i \in DOMAIN Fields}

\* PendingActionPublication
New(of, ok) == [of |-> of, ok |-> ok, id |-> 0, persisted |-> FALSE,
                status_attempted |-> FALSE, field_index |-> 1, field_attempted |-> FALSE]

Entry(of, ok) == [of |-> of, ok |-> ok, got |-> {}, status |-> FALSE]

ActionInit ==
    /\ actions = <<>>
    /\ rollout = <<>>
    /\ pending = <<>>
    /\ tool = None
    /\ completed = {}
    /\ ran = {}
    /\ moved = {}
    /\ again = FALSE
    /\ refused = FALSE
    /\ doubted = {}
    /\ selects = 0
    /\ faults = 0
    /\ crashes = 0

\* Selecting a directory ---------------------------------------------------------------

Held(id) == \E i \in DOMAIN pending : pending[i].of = id

Recorded(id) == \E i \in DOMAIN rollout : rollout[i].of = id

\* An idle engine runs the selection, unless an earlier outcome is still unpublished.
\* An id it knows is not run again.
handle_directory_selection(id) ==
    /\ tool = None
    /\ selects < MaxSelects
    /\ selects' = selects + 1
    /\ IF id \in completed \/ Held(id)
       THEN UNCHANGED <<pending, moved, again>>
       ELSE \/ /\ pending = <<>>
               /\ pending' = <<New(id, TRUE)>>
               /\ moved' = moved \cup {id}
               /\ again' = (again \/ id \in moved \/ Recorded(id))
            \/ /\ pending' = Append(pending, New(id, FALSE))
               /\ UNCHANGED <<moved, again>>
    /\ UNCHANGED <<actions, rollout, tool, completed, ran, refused, doubted, faults, crashes>>

\* During a turn a selection is refused, and the refusal is its outcome.
reject_active_directory(id) ==
    /\ tool /= None
    /\ selects < MaxSelects
    /\ selects' = selects + 1
    /\ pending' = IF id \in completed \/ Held(id) THEN pending
                  ELSE Append(pending, New(id, FALSE))
    /\ UNCHANGED <<actions, rollout, tool, completed, ran, moved, again, refused, doubted,
                   faults, crashes>>

\* A Tool runs, and write_action begins to publish its outcome.
RunTool(t) ==
    /\ tool = None
    /\ t \notin ran
    /\ ran' = ran \cup {t}
    /\ tool' = New(t, TRUE)
    /\ UNCHANGED <<actions, rollout, pending, completed, moved, again, refused, doubted,
                   selects, faults, crashes>>

\* Publishing an Action -----------------------------------------------------------------

Publishing(who) == IF who = "tool" THEN tool /= None ELSE pending /= <<>>

Publication(who) == IF who = "tool" THEN tool ELSE Head(pending)

Kept(who, p) ==
    IF who = "tool" THEN tool' = p /\ UNCHANGED pending
                    ELSE pending' = <<p>> \o Tail(pending) /\ UNCHANGED tool

\* The call failed: publish_directory_actions keeps the publication as it stands for
\* the next round, write_action drops it.
Failed(who, p) ==
    /\ faults < MaxFaults
    /\ faults' = faults + 1
    /\ IF who = "tool" THEN tool' = None /\ UNCHANGED pending ELSE Kept(who, p)


\* The call succeeded; a published selection is completed.
Published(who) ==
    IF who = "tool" THEN tool' = None /\ UNCHANGED <<pending, completed>>
    ELSE /\ completed' = completed \cup {Head(pending).of}
         /\ pending' = Tail(pending)
         /\ UNCHANGED tool

Unmoved == UNCHANGED <<ran, moved, again, selects, crashes>>

\* clone_via_open_retained: opening actions/clone makes the entry; the id is retained as
\* soon as it was read, even if the clunk then fails.
clone_via_open_retained(who) ==
    /\ Publishing(who)
    /\ LET p == Publication(who)
           made == Append(actions, Entry(p.of, p.ok))
           q == [p EXCEPT !.id = Len(made)]
       IN  /\ p.id = 0
           /\ \/ actions' = made /\ Kept(who, q) /\ UNCHANGED faults
              \/ actions' = made /\ (Failed(who, p) \/ Failed(who, q))
              \/ actions' = actions /\ Failed(who, p)
    /\ UNCHANGED <<rollout, completed, refused, doubted>> /\ Unmoved

\* A field that was attempted before is written only if it does not read back: AgentFS
\* refuses to write a committed output.
MutObserved(p) == FALSE

Observed(p) == p.field_attempted /\ Fields[p.field_index] \in actions[p.id].got

WriteField(who) ==
    /\ Publishing(who)
    /\ LET p == Publication(who)
           f == Fields[p.field_index]
           done == [p EXCEPT !.field_index = @ + 1, !.field_attempted = FALSE]
           tried == [p EXCEPT !.field_attempted = TRUE]
           wrote == [actions EXCEPT ![p.id].got = @ \cup {f}]
       IN  /\ p.id /= 0
           /\ p.field_index <= Len(Fields)
           /\ \/ /\ Observed(p)
                 /\ Kept(who, done)
                 /\ UNCHANGED <<actions, refused, faults>>
              \/ /\ ~Observed(p)
                 /\ refused' = (refused \/ (f = "output" /\ f \in actions[p.id].got))
                 /\ \/ actions' = wrote /\ Kept(who, done) /\ UNCHANGED faults
                    \/ actions' = wrote /\ Failed(who, tried)
                    \/ actions' = actions /\ Failed(who, tried)
    /\ UNCHANGED <<rollout, completed, doubted>> /\ Unmoved

\* What must be done before the rollout takes the record, and before the status is set.
MutReady(p) == p.id /= 0

Ready(p) == p.id /= 0 /\ p.field_index > Len(Fields)

\* An error of persist_batch does not tell whether the item was written.
Persist(who) ==
    /\ Publishing(who)
    /\ LET p == Publication(who)
           wrote == Append(rollout, [of |-> p.of, ok |-> p.ok])
       IN  /\ Ready(p)
           /\ ~p.persisted
           /\ \/ /\ rollout' = wrote
                 /\ Kept(who, [p EXCEPT !.persisted = TRUE])
                 /\ UNCHANGED <<faults, doubted>>
              \/ /\ rollout' = wrote
                 /\ doubted' = doubted \cup {p.of}
                 /\ Failed(who, p)
              \/ /\ rollout' = rollout
                 /\ Failed(who, p)
                 /\ UNCHANGED doubted
    /\ UNCHANGED <<actions, completed, refused>> /\ Unmoved

\* The status completes the Action; one that was attempted is read back first.
WriteStatus(who) ==
    /\ Publishing(who)
    /\ LET p == Publication(who)
           tried == [p EXCEPT !.status_attempted = TRUE]
           wrote == [actions EXCEPT ![p.id].status = TRUE]
       IN  /\ p.persisted
           /\ \/ /\ p.status_attempted /\ actions[p.id].status
                 /\ Published(who)
                 /\ UNCHANGED <<actions, faults>>
              \/ /\ ~(p.status_attempted /\ actions[p.id].status)
                 /\ \/ actions' = wrote /\ Published(who) /\ UNCHANGED faults
                    \/ actions' = wrote /\ Failed(who, tried) /\ UNCHANGED completed
                    \/ actions' = actions /\ Failed(who, tried) /\ UNCHANGED completed
    /\ UNCHANGED <<rollout, refused, doubted>> /\ Unmoved

\* Crash and recovery --------------------------------------------------------------------

\* The successor publishes every record of the rollout, unrecorded, before it is ready;
\* the directory ids among them are completed.  (An error of it ends the successor too.)
restore_actions ==
    /\ crashes < MaxCrashes
    /\ crashes' = crashes + 1
    /\ actions' = [i \in DOMAIN rollout |->
                      [of |-> rollout[i].of, ok |-> rollout[i].ok, got |-> FieldSet,
                       status |-> TRUE]]
    /\ completed' = {rollout[i].of : i \in DOMAIN rollout} \cap Ids
    /\ pending' = <<>>
    /\ tool' = None
    /\ moved' = {}
    /\ UNCHANGED <<rollout, ran, again, refused, doubted, selects, faults>>

ActionNext ==
    \/ \E id \in Ids : handle_directory_selection(id) \/ reject_active_directory(id)
    \/ \E t \in Tools : RunTool(t)
    \/ \E who \in {"dir", "tool"} :
          clone_via_open_retained(who) \/ WriteField(who) \/ Persist(who) \/ WriteStatus(who)
    \/ restore_actions

ActionSpec == ActionInit /\ [][ActionNext]_actionVars
-----------------------------------------------------------------------------
Shown(of) == {i \in DOMAIN actions : actions[i].of = of /\ actions[i].status}

\* An Action a watcher sees completed is whole, durable and the only one of its record,
\* though any call may have failed without saying whether it took effect: its fields
\* were all written, the committed output was written once, and the rollout holds it.
\* It is shown twice only where the rollout itself was left in doubt.  A directory
\* selection changes the cwd at most once for its id, a crash between its record and
\* its publication included, and its outcome tells whether it did.
ActionsAreWhole ==
    /\ ~refused
    /\ ~again
    /\ \A i \in DOMAIN actions : actions[i].status =>
          /\ actions[i].got = FieldSet
          /\ \E j \in DOMAIN rollout : rollout[j] = [of |-> actions[i].of, ok |-> actions[i].ok]
    /\ \A of \in (Ids \cup Tools) \ doubted : Cardinality(Shown(of)) <= 1
    /\ \A id \in moved : \A i \in Shown(id) : actions[i].ok
=============================================================================
