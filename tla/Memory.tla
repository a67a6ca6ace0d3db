------------------------------ MODULE Memory --------------------------------
(***************************************************************************)
(* The Memory Store of an Agent: what is written to it and what a turn is  *)
(* shown of it.                                                            *)
(***************************************************************************)
EXTENDS Naturals, Sequences, FiniteSets, SequencesExt

-----------------------------------------------------------------------------
(***************************************************************************)
(* The Memory Store that every running instance shares: the turn-end       *)
(* promotion of observations through the inbox, the handoff file and the   *)
(* memory flush (crates/agent-engine/src/runtime/memory_promotion.rs,      *)
(* memory_promotion/storage.rs, memory_surfaces.rs, memory_flush.rs,       *)
(* turn_memory.rs and the deferred actions of engine.rs).                  *)
(*                                                                         *)
(* A file is the sequence of facts it holds and a flag that it was cut to  *)
(* nothing by a rewrite still under way (tokio::fs::write truncates, then  *)
(* writes); of the handoff only the flag is kept.  A lock is an flock: a crash gives it back.  Tools edit an     *)
(* inbox entry without taking its lock.                                    *)
(***************************************************************************)

CONSTANTS Workers,    \* instances sharing the store
          Plans,      \* what a model may answer: sequences of raw writes
          MaxWrites,  \* MEMORY_PROMOTION_MAX_WRITES
          MaxEntries, \* bound: inbox entries staged
          Retargets,      \* targets a Tool may give an entry
          None

VARIABLES file,    \* the shared files: facts and whether they are being rewritten
          inbox,   \* the inbox entries, in the order they were staged
          lock,    \* who holds the flock of a file; an entry has its own holder
          worker,  \* what an instance is doing
          torn     \* ghost: files a crash ever left cut

storeVars == <<file, inbox, lock, worker, torn>>

Store == {"USER.md", "MEMORY.md", "topic", "handoff"}
Index == "topic index"
Idle == [pc |-> "idle", rest |-> <<>>, entry |-> 0, lock |-> None, target |-> None,
         fact |-> None, read |-> <<>>]

StoreInit ==
  /\ file = [f \in Store |-> [facts |-> <<>>, cut |-> FALSE]]
  /\ inbox = <<>> /\ lock = [f \in Store |-> None]
  /\ worker = [w \in Workers |-> Idle] /\ torn = {}

-----------------------------------------------------------------------------
(* What the model's answer becomes *)

\* canonical_target_for_kind
TargetOf(kind) == IF kind \in {"user_identity", "user_preference"} THEN "USER.md" ELSE "MEMORY.md"

\* normalize_memory_promotion_candidate: an unknown kind or confidence, a blank
\* observation, evidence or rationale, or a target of another kind drops it.
Wanted(raw) ==
  /\ raw.kind \in {"user_identity", "user_preference", "domain_fact", "workflow_rule"}
  /\ raw.confidence \in {"high", "medium", "low"}
  /\ raw.fact /= None /\ raw.supported
  /\ raw.target \in {None, TargetOf(raw.kind)}

\* normalize_promotion_disposition
PromoteNow(raw) == raw.disposition = "promote_now" /\ raw.confidence = "high"

\* normalize_memory_promotion_candidates: the first of each observation.
PromotionCandidates(plan) ==
  LET wanted == SelectSeq(plan, Wanted)
      first == {i \in DOMAIN wanted : \A j \in 1 .. i - 1 : wanted[j].fact /= wanted[i].fact}
      order == SetToSortSeq(first, <)
      one(raw) == [target |-> TargetOf(raw.kind), fact |-> raw.fact, now |-> PromoteNow(raw)]
  IN [i \in 1 .. Min({Len(order), MaxWrites}) |-> one(wanted[order[i]])]

-----------------------------------------------------------------------------
(* Steps of an instance *)

At(w, pc) == worker[w].pc = pc
To(w, pc) == worker' = [worker EXCEPT ![w].pc = pc]
Release(w) ==
  /\ lock' = [l \in DOMAIN lock |-> IF lock[l] = w THEN None ELSE lock[l]]
  /\ inbox' = [i \in DOMAIN inbox |-> IF inbox[i].holder = w THEN [inbox[i] EXCEPT !.holder = None]
                                      ELSE inbox[i]]

\* An error or a cancellation ends the job and drops the locks it holds.
GiveUp(w) ==
  /\ Release(w) /\ worker' = [worker EXCEPT ![w] = Idle] /\ UNCHANGED <<file, torn>>

\* run_turn_memory_promotion_job_for_runtime_with_cancel: the plan has arrived.
Begin(w, plan) ==
  /\ At(w, "deferred") /\ PromotionCandidates(plan) /= <<>> /\ Len(inbox) + Len(PromotionCandidates(plan)) =< MaxEntries
  /\ worker' = [worker EXCEPT ![w] = [Idle EXCEPT !.pc = "next", !.rest = PromotionCandidates(plan)]]
  /\ UNCHANGED <<file, inbox, lock, torn>>

\* The deferred action is interrupted, or preempted and queued again, which is
\* seen at ensure_memory_promotion_not_cancelled and at the poll of a lock.
Cancelled(w) ==
  /\ worker[w].pc \in {"next", "inbox", "target", "again"}
  /\ Release(w) /\ \E pc \in {"idle", "deferred"} : worker' = [worker EXCEPT ![w] = [Idle EXCEPT !.pc = pc]]
  /\ UNCHANGED <<file, torn>>

\* stage_inbox_entry
Stage(w) ==
  /\ At(w, "next") /\ worker[w].rest /= <<>>
  /\ LET c == Head(worker[w].rest) IN
     /\ inbox' = Append(inbox, [target |-> c.target, fact |-> c.fact, status |-> "observed",
                             holder |-> None])
     /\ worker' = [worker EXCEPT ![w] = [@ EXCEPT !.pc = IF c.now THEN "inbox" ELSE "next",
                    !.rest = Tail(@), !.entry = IF c.now THEN Len(inbox) + 1 ELSE 0]]
  /\ UNCHANGED <<file, lock, torn>>

\* The candidates are used up.
Finished(w) ==
  /\ At(w, "next") /\ worker[w].rest = <<>>
  /\ worker' = [worker EXCEPT ![w] = Idle] /\ UNCHANGED <<file, inbox, lock, torn>>

-----------------------------------------------------------------------------
(* promote_inbox_entry *)


\* The file whose lock covers a promotion to a target.
LockPath(target) == IF target = "topic" THEN "MEMORY.md" ELSE target

\* acquire_promotion_lock, of the inbox entry, which then says which file is
\* locked next; an entry cut by its own rewrite does not parse.
LockInbox(w) ==
  LET e == inbox[worker[w].entry] IN
  /\ At(w, "inbox") /\ e.holder = None
  /\ IF e.status = "cut" THEN GiveUp(w)
     ELSE /\ inbox' = [inbox EXCEPT ![worker[w].entry].holder = w]
          /\ worker' = [worker EXCEPT ![w] = [@ EXCEPT !.pc = "target", !.lock = LockPath(e.target)]]
          /\ UNCHANGED <<file, lock, torn>>

\* Mutant: the lock is not waited for.
MutMayLock(w, l) == TRUE

MayLock(w, l) == lock[l] = None

\* acquire_promotion_lock, of the file to update.
LockTarget(w) ==
  /\ At(w, "target") /\ MayLock(w, worker[w].lock)
  /\ lock' = [lock EXCEPT ![worker[w].lock] = w] /\ To(w, "again")
  /\ UNCHANGED <<file, inbox, torn>>

\* The entry is read once more under both locks: a target that needs another
\* lock by now ends the promotion.
ReadAgain(w) ==
  /\ At(w, "again")
  /\ LET e == inbox[worker[w].entry] IN
     IF e.status = "cut" \/ LockPath(e.target) /= worker[w].lock \/ e.fact = None THEN GiveUp(w)
     ELSE /\ worker' = [worker EXCEPT ![w] = [@ EXCEPT !.pc = "load", !.target = e.target,
                                                       !.fact = e.fact]]
          /\ UNCHANGED <<file, inbox, lock, torn>>

\* write_text_file cuts the file first; the facts to write are those just read.
Cut(w, f, facts, pc) ==
  /\ file' = [file EXCEPT ![f] = [facts |-> <<>>, cut |-> TRUE]]
  /\ worker' = [worker EXCEPT ![w] = [@ EXCEPT !.pc = pc, !.read = facts]]
  /\ UNCHANGED <<inbox, lock, torn>>

\* Then it writes them.
Fill(w, f) == file' = [file EXCEPT ![f] = [facts |-> worker[w].read, cut |-> FALSE]]

\* append_markdown_section_item: a fact already there is not added again.
With(facts, fact) == IF fact \in Range(facts) THEN facts ELSE Append(facts, fact)

\* The target gets the fact; a file other than a topic that holds it already is
\* not rewritten.
WriteTarget(w) ==
  LET f == worker[w].target
      known == worker[w].fact \in Range(file[f].facts)
  IN
  \/ /\ At(w, "load") /\ known /\ f /= "topic" /\ To(w, "confirm") /\ UNCHANGED <<file, inbox, lock, torn>>
  \/ At(w, "load") /\ (~known \/ f = "topic") /\ Cut(w, f, With(file[f].facts, worker[w].fact), "fill")
  \/ /\ At(w, "fill") /\ Fill(w, f) /\ To(w, IF f = "topic" THEN "index" ELSE "confirm")
     /\ UNCHANGED <<inbox, lock, torn>>

\* A topic is also listed in MEMORY.md.
WriteIndex(w) ==
  \/ At(w, "index") /\ Cut(w, "MEMORY.md", With(file["MEMORY.md"].facts, Index), "fillIndex")
  \/ At(w, "fillIndex") /\ Fill(w, "MEMORY.md") /\ To(w, "confirm") /\ UNCHANGED <<inbox, lock, torn>>

\* The entry becomes "confirmed" by a rewrite of its file, with what was read
\* of it; then both locks are given back.
Confirm(w) ==
  \/ /\ At(w, "confirm") /\ inbox' = [inbox EXCEPT ![worker[w].entry].status = "cut"]
     /\ To(w, "confirming") /\ UNCHANGED <<file, lock, torn>>
  \/ /\ At(w, "confirming")
     /\ worker' = [worker EXCEPT ![w] = [Idle EXCEPT !.pc = "next", !.rest = worker[w].rest]]
     /\ lock' = [l \in DOMAIN lock |-> IF lock[l] = w THEN None ELSE lock[l]]
     /\ inbox' = [inbox EXCEPT ![worker[w].entry] =
                    [target |-> worker[w].target, fact |-> worker[w].fact, status |-> "confirmed",
                     holder |-> None]]
     /\ UNCHANGED <<file, torn>>

-----------------------------------------------------------------------------
(* finalize_turn_memory_best_effort: write_latest_handoff under the file's    *)
(* lock, then the promotion is queued as a deferred action.                   *)

Handoff(w) ==
  \/ /\ At(w, "idle") /\ lock["handoff"] = None /\ lock' = [lock EXCEPT !["handoff"] = w]
     /\ worker' = [worker EXCEPT ![w] = [Idle EXCEPT !.pc = "handoff"]]
     /\ UNCHANGED <<file, inbox, torn>>
  \/ At(w, "handoff") /\ Cut(w, "handoff", <<>>, "handing")
  \/ /\ At(w, "handing") /\ Fill(w, "handoff") /\ Release(w)
     /\ worker' = [worker EXCEPT ![w] = [Idle EXCEPT !.pc = "deferred"]] /\ UNCHANGED torn

-----------------------------------------------------------------------------
(* The surroundings *)

\* A Tool rewrites an entry that waits in the inbox.
EditInbox(i, target) ==
  /\ inbox[i].status = "observed" /\ inbox[i].target /= target
  /\ inbox' = [inbox EXCEPT ![i].target = target]
  /\ UNCHANGED <<file, lock, worker, torn>>

\* The instance dies: its locks are free, a file it was rewriting stays empty.
Crash(w) ==
  /\ ~At(w, "idle") /\ Release(w) /\ worker' = [worker EXCEPT ![w] = Idle]
  /\ LET cut == {f \in Store : file[f].cut /\ (lock[f] = w \/ (At(w, "fill") /\ f = worker[w].target))} IN
     /\ torn' = torn \cup (cut \ {"handoff"})
     /\ file' = [f \in Store |-> IF f \in cut THEN [file[f] EXCEPT !.cut = FALSE] ELSE file[f]]

Step(w) ==
  \/ \E plan \in Plans : Begin(w, plan)
  \/ Cancelled(w) \/ Stage(w) \/ Finished(w) \/ LockInbox(w)
  \/ LockTarget(w) \/ ReadAgain(w) \/ WriteTarget(w) \/ WriteIndex(w) \/ Confirm(w)
  \/ Handoff(w) \/ Crash(w)

StoreNext == \/ \E w \in Workers : Step(w)
             \/ \E i \in DOMAIN inbox, target \in Retargets : EditInbox(i, target)

StoreSpec == StoreInit /\ [][StoreNext]_storeVars

-----------------------------------------------------------------------------
\* The store keeps what it was told: an entry that is confirmed has its fact in
\* the file it names (and its topic in the index of MEMORY.md), no fact stands
\* twice in a file, whatever other instances promote, cancel or hand off at the
\* same time and however a Tool edits the inbox; the exception is a file that a
\* crash left cut in the middle of its rewrite (memory_promotion.rs,
\* promote_inbox_entry with the locks of storage.rs).
StoreKeepsFacts ==
  /\ \A i \in DOMAIN inbox : inbox[i].status = "confirmed" =>
       LET t == inbox[i].target IN
       /\ t \in torn \/ file[t].cut \/ inbox[i].fact \in Range(file[t].facts)
       /\ t = "topic" => \/ "MEMORY.md" \in torn \/ file["MEMORY.md"].cut
                         \/ Index \in Range(file["MEMORY.md"].facts)
  /\ \A f \in Store : IsInjective(file[f].facts)
  /\ \A f \in Store \ {"topic"} : file[f].cut => lock[f] /= None

-----------------------------------------------------------------------------
(***************************************************************************)
(* Which files of the Memory Store a turn is shown: the routing of the     *)
(* user's question to fixed files and to the best matching notes           *)
(* (crates/agent-engine/src/runtime/memory_recall.rs).                     *)
(*                                                                         *)
(* A note is a directory and a number that grows with its path, so that a  *)
(* newer note has a higher one.  A question has the classes its words      *)
(* trigger; its match with a note is the number of its tokens the note's   *)
(* path or text holds.                                                     *)
(***************************************************************************)

CONSTANTS MaxFiles,  \* MAX_RECALL_FILES
          MaxScan,   \* MAX_CANDIDATE_SCAN_FILES
          Numbers,   \* numbers a note may have
          MaxScore   \* bound: tokens a question has

VARIABLES question, \* classes, and the number of tokens
          notes,    \* the notes there are, each with its match
          blank,    \* notes and files without text, or that cannot be read
          bundle    \* the files of the recall bundle, in order

recallVars == <<question, notes, blank, bundle>>

Dirs == {"daily", "episodic", "topics"}
Classes == {"identity", "domain", "continuity", "recent"}

-----------------------------------------------------------------------------
\* Mutant: oldest first.
MutNewestFirst(n, m) == n < m

NewestFirst(n, m) == n > m

\* collect_markdown_files and its recursive form: the newest notes of a
\* directory, newest first.
Collected(dir) ==
  LET order == SetToSortSeq({n \in Numbers : <<dir, n>> \in DOMAIN notes}, NewestFirst)
  IN [i \in 1 .. Min({Len(order), MaxScan}) |-> <<dir, order[i]>>]

\* The notes a question is matched with.
RecallCandidates ==
  LET dated == question.classes \cap {"continuity", "recent"} /= {}
      topics == \/ "domain" \in question.classes
                \/ question.classes \cap Classes = {} /\ question.tokens > 0
  IN (IF dated THEN Range(Collected("episodic")) \cup Range(Collected("daily")) ELSE {})
       \cup (IF topics THEN Range(Collected("topics")) ELSE {})

\* lexical_overlap_score
Score(note) == notes[note]

\* Best match first, then the later path ("topics" after "episodic" after "daily").
Better(a, b) ==
  LET rank(d) == CASE d = "daily" -> 1 [] d = "episodic" -> 2 [] d = "topics" -> 3 IN
  \/ Score(a) > Score(b)
  \/ Score(a) = Score(b) /\ (rank(a[1]) > rank(b[1]) \/ (a[1] = b[1] /\ a[2] > b[2]))

\* The best of those that match at all.
Matched ==
  LET order == SetToSortSeq({c \in RecallCandidates : Score(c) > 0}, Better)
  IN SubSeq(order, 1, Min({Len(order), MaxFiles}))

\* interleave_recent_fallback_paths: daily and episodic notes in turn.
Interleaved ==
  LET d == Collected("daily")
      e == Collected("episodic")
      pair(i) == (IF i =< Len(d) THEN <<d[i]>> ELSE <<>>) \o (IF i =< Len(e) THEN <<e[i]>> ELSE <<>>)
  IN FlattenSeq([i \in 1 .. Max({Len(d), Len(e)}) |-> pair(i)])

\* A question about recent work gets recent notes even where none matches.
Selected ==
  LET unseen(n) == n \notin Range(Matched)
      more == SelectSeq(Interleaved, unseen)
  IN IF "recent" \in question.classes
     THEN Matched \o SubSeq(more, 1, Min({Len(more), MaxFiles - Len(Matched)}))
     ELSE Matched

\* The files a class asks for by itself.
Routed ==
  (IF "identity" \in question.classes THEN <<<<"USER.md", 0>>>> ELSE <<>>)
    \o (IF "domain" \in question.classes THEN <<<<"MEMORY.md", 0>>>> ELSE <<>>)
    \o (IF "continuity" \in question.classes THEN <<<<"LATEST.md", 0>>>> ELSE <<>>)

RecallInit ==
  /\ question \in [classes : SUBSET Classes, tokens : 0 .. MaxScore]
  /\ \E there \in SUBSET (Dirs \X Numbers) :
       notes \in [there -> 0 .. question.tokens] /\ blank \in {{}, {<<"USER.md", 0>>}} \cup {{n} : n \in there}
  /\ bundle = <<>>

\* build_turn_recall_bundle: a question of no class and without tokens gets
\* nothing; a file without text is left out last, its place is not given away.
BuildTurnRecallBundle ==
  LET shown(f) == f \notin blank IN
  /\ question.classes /= {} \/ question.tokens > 0
  /\ bundle' = SelectSeq(Routed \o Selected, shown)
  /\ UNCHANGED <<question, notes, blank>>

RecallNext == BuildTurnRecallBundle
RecallSpec == RecallInit /\ [][RecallNext]_recallVars

-----------------------------------------------------------------------------
\* The bundle is what the question is owed: no file twice, never a worse match
\* in place of a better one of the notes asked for, and a question about recent
\* work shows the newest daily and the newest episodic note unless better
\* matches fill the bundle (memory_recall.rs, build_turn_recall_bundle).
RecallIsRanked ==
  LET shown == Range(bundle) IN
  bundle /= <<>> =>
    /\ IsInjective(bundle)
    /\ \A a, b \in RecallCandidates :
         (a \in shown /\ b \notin shown /\ b \notin blank) => Score(a) >= Score(b) \/ Score(b) = 0
    /\ "recent" \in question.classes =>
         \A d \in {"daily", "episodic"} : \A n \in Numbers :
           (<<d, n>> \in DOMAIN notes /\ (\A m \in Numbers : <<d, m>> \in DOMAIN notes => m =< n)
              /\ <<d, n>> \notin blank) =>
             \/ <<d, n>> \in shown
             \/ Len(Matched) > MaxFiles - 2
=============================================================================
