----------------------------- MODULE MCContext ------------------------------
(***************************************************************************)
(* What reaches a model and what comes back, side by side: the Memory Store*)
(* and recall, the prompt cache over the Skill registry, the files an engine*)
(* reads its input from and writes its Actions to, and the clients of the  *)
(* model providers.  They share no state here, so a behaviour moves only the*)
(* one it starts with, and the others are off: the run explores the sum of *)
(* their states and not the product.  The Memory Store is explored twice:  *)
(* with two entries, and with one that a Tool may send to a topic.         *)
(***************************************************************************)
EXTENDS Naturals, Sequences

CONSTANTS Workers, MaxWrites, MaxFiles, MaxScan, Numbers, MaxScore, Described,
          MaxResources, MaxEdits, Payloads, Commands, MaxLines, MaxReadFaults, SelectionIds, Tools,
          MaxSelects, MaxFaults, MaxCrashes, Families, Cap, MaxMessages, None

VARIABLES moves, file, inbox, lock, worker, torn, question, notes, blank, bundle, disk,
          log, pc, job, work, cache, prompt, active, published, input, events,
          control_offset, input_offset, call, submissions, missed, readFaults, actions,
          rollout, pending, tool, completed, ran, moved, again, refused, doubted, selects,
          faults, crashes, provider, message, script, pos, net, parser, transport,
          projection, guard, queue, status, receiver, got, tape

\* The results of a consolidation: what it may find in a session.
Finding(k, t, c, d, f) ==
    [kind |-> k, target |-> t, confidence |-> c, disposition |-> d, fact |-> f, supported |-> TRUE]
Plans ==
    {<<Finding("user_identity", None, "high", "promote_now", "a"),
       Finding("mood", None, "high", "promote_now", "b")>>,
     <<Finding("domain_fact", "MEMORY.md", "high", "promote_now", "b"),
       Finding("workflow_rule", None, "low", "promote_now", "b")>>,
     <<Finding("workflow_rule", None, "medium", "promote_now", "a")>>}

\* Two packages that define the same Skill, one of them not there yet, and the
\* edits a user may make to them.
File(needs, level2, refs) == [is |-> "file", needs |-> needs, least |-> 0, level2 |-> level2, refs |-> refs]
Gone == [is |-> "none", needs |-> {}, least |-> 0, level2 |-> FALSE, refs |-> {}]
Unreadable == [Gone EXCEPT !.is = "bad"]
NoYaml == [is |-> "none", yaml |-> [mode |-> None, target |-> None, implicit |-> None]]
Yaml(implicit) == [is |-> "file", yaml |-> [mode |-> None, target |-> None, implicit |-> implicit]]
Packages == <<"p", "q">>
Id == [p \in {"p", "q"} |-> "s"]
NameId == [n \in {"x"} |-> "x"]
Resources == <<"ref">>
Host == [tools |-> {}, executables |-> {}, env |-> {}, delegated |-> TRUE, version |-> 1]
Overrides == [id \in {"s"} |-> [enabled |-> None, implicit |-> None]]
Yamls == {"skill.yaml", "package.yaml", "openai.yaml"}
SkillFiles == {"p", "q"} \X (Yamls \cup {"SKILL.md", "agents", "roots", "level2", "ref"})
OtherFiles == {<<"persona", "lower">>, <<"persona", "upper">>, <<"memory", "MEMORY.md">>,
               <<"daily", "monday">>, <<"daily", "tuesday">>}
Initial ==
    [path \in SkillFiles \cup OtherFiles |->
        CASE path = <<"p", "SKILL.md">> -> File({}, TRUE, {"ref"})
          [] path[2] \in Yamls -> NoYaml
          [] path[2] = "agents" -> [is |-> "file", entries |-> {"x"}]
          [] path[2] = "roots" -> [is |-> "file", names |-> {}]
          [] OTHER -> Gone]
Edit(a, b, to) == [path |-> <<a, b>>, to |-> to]
Edits ==
    {Edit("p", "SKILL.md", File({[type |-> "tool", name |-> "bash"]}, FALSE, {})),
     Edit("p", "SKILL.md", Unreadable),
     Edit("q", "SKILL.md", File({}, FALSE, {"ref"})), Edit("q", "SKILL.md", Gone),
     Edit("p", "skill.yaml", Yaml(FALSE)),
     Edit("p", "level2", File({}, FALSE, {"ref"})), Edit("p", "ref", File({}, FALSE, {})),
     Edit("persona", "upper", File({}, FALSE, {})), Edit("daily", "monday", File({}, FALSE, {})),
     Edit("daily", "tuesday", File({}, FALSE, {})), Edit("daily", "tuesday", File({}, TRUE, {}))}

Fields == <<"name", "output">>

\* What a provider may say: text, text with two calls, a call without arguments.
Messages == {[text |-> <<"a", "b">>, calls |-> <<>>],
             [text |-> <<"a">>, calls |-> <<<<"x", "y">>, <<"z">>>>],
             [text |-> <<>>, calls |-> << <<>> >>]}

\* Messages a Tape may hold.
Part(k, b) == [kind |-> k, by |-> b, id |-> 0]
Msg(r, ps, cs, rs) == [role |-> r, parts |-> ps, calls |-> cs, responses |-> rs]
Res(i) == [id |-> i, content |-> <<Part("text", None)>>]
Shapes == {
    Msg("user", <<Part("text", None)>>, <<>>, <<>>),
    Msg("user", <<Part("blank", None), Part("text", None), Part("image", "url")>>, <<>>, <<>>),
    Msg("user", <<Part("document", "file_data")>>, <<>>, <<>>),
    Msg("user", <<Part("blank", None), Part("image", "file_id")>>, <<>>, <<>>),
    Msg("context", <<Part("text", None), Part("data", None)>>, <<>>, <<>>),
    Msg("system", <<Part("text", None)>>, <<>>, <<>>),
    Msg("assistant", <<Part("thinking", "signed"), Part("text", None)>>, <<11, 12>>, <<>>),
    Msg("assistant", <<Part("thinking", "sealed")>>, <<13>>, <<>>),
    Msg("assistant", <<Part("thinking", "unsigned"), Part("redacted", None), Part("blank", None)>>, <<>>, <<>>),
    Msg("assistant", <<Part("text", None), Part("data", None)>>, <<>>, <<>>),
    Msg("tool", <<>>, <<>>, <<Res(11), Res(12)>>),
    Msg("tool", <<>>, <<>>, <<Res(12)>>),
    Msg("tool", <<>>, <<>>, <<Res(13)>>)}

Mem == INSTANCE Memory WITH MaxEntries <- 2, Retargets <- {}
Topics == INSTANCE Memory WITH MaxEntries <- 1, Retargets <- {"topic"}
Prompt == INSTANCE PromptCache
Files == INSTANCE AgentFiles WITH MaxWrites <- MaxLines, Ids <- SelectionIds
Llm == INSTANCE Providers

memoryPart == <<file, inbox, lock, worker, torn>>
recallPart == <<question, notes, blank, bundle>>
promptPart == <<disk, log, pc, job, work, cache, prompt, active, published>>
feedPart == <<input, events, control_offset, input_offset, call, submissions, missed,
              readFaults>>
actionsPart == <<actions, rollout, pending, tool, completed, ran, moved, again, refused,
                 doubted, selects, faults, crashes>>
replyPart == <<provider, message, script, pos, net, parser, transport, projection, guard,
               queue, status, receiver, got>>
askPart == <<tape>>
memoryOff == file = 0 /\ inbox = 0 /\ lock = 0 /\ worker = 0 /\ torn = 0
recallOff == question = 0 /\ notes = 0 /\ blank = 0 /\ bundle = 0
promptOff == /\ disk = 0 /\ log = 0 /\ pc = 0 /\ job = 0 /\ work = 0 /\ cache = 0
             /\ prompt = 0 /\ active = 0 /\ published = 0
feedOff == /\ input = 0 /\ events = 0 /\ control_offset = 0 /\ input_offset = 0 /\ call = 0
           /\ submissions = 0 /\ missed = 0 /\ readFaults = 0
actionsOff == /\ actions = 0 /\ rollout = 0 /\ pending = 0 /\ tool = 0 /\ completed = 0
              /\ ran = 0 /\ moved = 0 /\ again = 0 /\ refused = 0 /\ doubted = 0
              /\ selects = 0 /\ faults = 0 /\ crashes = 0
replyOff == /\ provider = 0 /\ message = 0 /\ script = 0 /\ pos = 0 /\ net = 0 /\ parser = 0
            /\ transport = 0 /\ projection = 0 /\ guard = 0 /\ queue = 0 /\ status = 0
            /\ receiver = 0 /\ got = 0
askOff == tape = 0

MCInit ==
    /\ moves \in {"memory", "topics", "recall", "prompt", "feed", "actions",
                   "reply", "ask"}
    /\ IF moves = "memory" THEN Mem!StoreInit ELSE IF moves = "topics" THEN Topics!StoreInit ELSE memoryOff
    /\ IF moves = "recall" THEN Mem!RecallInit ELSE recallOff
    /\ IF moves = "prompt" THEN Prompt!Init ELSE promptOff
    /\ IF moves = "feed" THEN Files!FeedInit ELSE feedOff
    /\ IF moves = "actions" THEN Files!ActionInit ELSE actionsOff
    /\ IF moves = "reply" THEN Llm!StreamInit ELSE replyOff
    /\ IF moves = "ask" THEN Llm!InputInit ELSE askOff

MemoryOnly == moves = "memory" /\ UNCHANGED <<moves, recallPart, promptPart, feedPart,
              actionsPart, replyPart, askPart>>
TopicsOnly == moves = "topics" /\ UNCHANGED <<moves, recallPart, promptPart, feedPart,
              actionsPart, replyPart, askPart>>
RecallOnly == moves = "recall" /\ UNCHANGED <<moves, memoryPart, promptPart, feedPart,
              actionsPart, replyPart, askPart>>
PromptOnly == moves = "prompt" /\ UNCHANGED <<moves, memoryPart, recallPart, feedPart,
              actionsPart, replyPart, askPart>>
FeedOnly == moves = "feed" /\ UNCHANGED <<moves, memoryPart, recallPart, promptPart,
              actionsPart, replyPart, askPart>>
ActionsOnly == moves = "actions" /\ UNCHANGED <<moves, memoryPart, recallPart, promptPart,
              feedPart, replyPart, askPart>>
ReplyOnly == moves = "reply" /\ UNCHANGED <<moves, memoryPart, recallPart, promptPart,
              feedPart, actionsPart, askPart>>
AskOnly == moves = "ask" /\ UNCHANGED <<moves, memoryPart, recallPart, promptPart,
              feedPart, actionsPart, replyPart>>

MemoryMoves == MemoryOnly /\ Mem!StoreNext
TopicsMoves == TopicsOnly /\ Topics!StoreNext
RecallMoves == RecallOnly /\ Mem!RecallNext
PromptMoves == PromptOnly /\ Prompt!Next
FeedMoves == FeedOnly /\ Files!FeedNext
ActionsMoves == ActionsOnly /\ Files!ActionNext
ReplyMoves == ReplyOnly /\ Llm!StreamNext
AskMoves == AskOnly /\ Llm!InputNext

MCNext == \/ MemoryMoves \/ TopicsMoves \/ RecallMoves \/ PromptMoves \/ FeedMoves
          \/ ActionsMoves \/ ReplyMoves \/ AskMoves

mcVars == <<moves, memoryPart, recallPart, promptPart, feedPart, actionsPart, replyPart,
            askPart>>

MCSpec == MCInit /\ [][MCNext]_mcVars


\* PromptCache: a prompt is the one its files would give when they were read.
PromptIsFresh == moves = "prompt" => Prompt!PromptIsFresh


=============================================================================
