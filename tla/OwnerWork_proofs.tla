---------------------------- MODULE OwnerWork_proofs ----------------------------
(***************************************************************************)
(* What the rollout, the Machine and the models' calls of owner work have  *)
(* to do with one another, and that OwnerWork implements WorkLedger, for   *)
(* any number of works, crashes and restarts.                              *)
(***************************************************************************)
EXTENDS OwnerWork, TLAPS

Calls == {"evaluator", "generation"}
Before == {"capture", "decide", "allocate", "commit"}
After == {"chosen", "nomatch", "spend", "generate", "wait"}
Mid == Before \cup After \cup {"ended"}
Pcs == Mid \cup {"idle", "down", "fail", "settle", "answer", "return"}
Runs == [pc : Pcs, snap : Snapshots \cup {NoWork}]
Disks == [records : SUBSET (Snapshots \cup Observations),
  last : [Works -> Snapshots \cup {NoWork}],
          acked : SUBSET Works, work : Works \cup {NoWork}, eval : Observations \cup {NoWork},
          ok : BOOLEAN]

TypeOK ==
  /\ disk \in Disks /\ queue \in Acks \cup {NoWork} /\ closed \in BOOLEAN /\ rollout \in Nat
  /\ live \in Snapshots \cup {NoWork} /\ observed \in Observations \cup {NoWork}
  /\ pending \in Works \cup {NoWork} /\ run \in Runs /\ cancel \in BOOLEAN
  /\ shown \in Snapshots \cup {NoWork} /\ spent \in [Works -> Seq(Calls)]

-----------------------------------------------------------------------------
(* The rollout.                                                            *)

\* The last snapshot of a work is one of its records and valid.
LastOf(d, w) ==
  d.last[w] # NoWork => d.last[w] \in d.records /\ d.last[w].work = w /\ Valid(d.last[w])

\* A rollout that replay accepts.
Sound(d) ==
  /\ d \in Disks /\ d.ok
  /\ \A w \in Works : LastOf(d, w)
  /\ d.work # NoWork => d.last[d.work] # NoWork

\* The record still on its way acknowledges a wait.
Queued ==
  queue # NoWork => disk.last[queue.work] # NoWork /\ disk.last[queue.work].outcome = "waiting"

\* What was dispatched for a work, the last snapshot has as spent.
Paid(w) ==
  IF disk.last[w] = NoWork THEN spent[w] = <<>> ELSE Range(spent[w]) \subseteq disk.last[w].calls
AllPaid == \A w \in Works : Paid(w)

-----------------------------------------------------------------------------
(* The Machine.                                                            *)

\* The live work is recorded; it waits exactly while its question is pending;
\* and a work that has just been opened is the rollout's last word on it, unless
\* the writer has failed.
Live ==
  /\ live # NoWork /\ live.outcome # "interrupted" => live \in disk.records
  /\ live # NoWork /\ live.outcome = "waiting" => live.asked /\ pending = live.work
  /\ pending # NoWork => live # NoWork /\ live.outcome = "waiting"
  /\ live # NoWork /\ live.outcome = "started" /\ live.calls = {} =>
       closed \/ disk.last[live.work] = live

ShownEnded == shown # NoWork /\ shown.outcome \in Ended => shown \in disk.records

\* In the middle of a work the handler's snapshot, the Machine's and the rollout's
\* are the same, and the calls before and after the evaluation are known.
Midway ==
  run.pc \in Mid =>
    /\ run.snap \in Snapshots /\ run.snap.outcome = "started"
    /\ live = run.snap /\ disk.last[run.snap.work] = run.snap
    /\ run.pc \in Before => spent[run.snap.work] = <<>>
    /\ run.pc \in After => spent[run.snap.work] = <<"evaluator">>
    /\ run.pc \in {"allocate", "commit"} \cup After => "evaluator" \in run.snap.calls
    /\ run.pc = "generate" => "generation" \in run.snap.calls

\* On the way out only a parked work has a question pending.
Leaving ==
  /\ run.pc = "fail" => run.snap \in Snapshots /\ pending = NoWork
  /\ run.pc = "settle" =>
       /\ run.snap \in Snapshots
       /\ \/ run.snap.outcome = "completed" /\ pending = NoWork
          \/ run.snap.outcome = "waiting" /\ run.snap = live
  /\ run.pc = "answer" =>
       /\ run.snap \in Snapshots /\ run.snap.outcome \in Ended /\ run.snap.asked
       /\ live # NoWork /\ live.outcome = "waiting" /\ live.work = run.snap.work

OwnerInv ==
  /\ TypeOK /\ Sound(disk) /\ Queued /\ AllPaid /\ Live /\ ShownEnded /\ Midway /\ Leaving

-----------------------------------------------------------------------------
(* What a record changes in the rollout.                                   *)

\* The rollout gained nothing that a work's last snapshot depends on.
Kept(d, e) == Sound(e) /\ e.last = d.last /\ d.records \subseteq e.records

\* It gained a snapshot that fits.
Wrote(d, e, s) ==
  /\ Sound(e) /\ WorkFits(d, s)
  /\ e.last[s.work] = s /\ \A w \in Works : w # s.work => e.last[w] = d.last[w]
  /\ d.records \subseteq e.records /\ s \in e.records

\* None is no work, snapshot, acknowledgement or observation.
LEMMA None ==
  /\ NoWork \notin Works /\ NoWork \notin Snapshots /\ NoWork \notin Acks
  /\ NoWork \notin Observations
  BY WorksAssumption

\* Replaying a snapshot.
LEMMA ReadWork ==
  ASSUME NEW d \in Disks, NEW s \in Snapshots
  PROVE  /\ Read(d, s) \in Disks
         /\ Read(d, s).records = d.records \cup {s} /\ Read(d, s).work = s.work
         /\ Read(d, s).last[s.work] = s
         /\ \A w \in Works : w # s.work => Read(d, s).last[w] = d.last[w]
         /\ Read(d, s).ok <=> d.ok /\ WorkFits(d, s)
<1> DEFINE ok == d.ok /\ WorkFits(d, s)
           rs == d.records \cup {s}
           ls == [d.last EXCEPT ![s.work] = s]
<1>1. s.kind = "work" /\ s.work \in Works BY DEF Snapshots
<1>2. d.records \subseteq Snapshots \cup Observations
  /\ d.last \in [Works -> Snapshots \cup {NoWork}]
  BY DEF Disks
<1>3. ok \in BOOLEAN OBVIOUS
<1>4. rs \subseteq Snapshots \cup Observations BY <1>2
<1>5. /\ ls \in [Works -> Snapshots \cup {NoWork}] /\ ls[s.work] = s
      /\ \A w \in Works : w # s.work => ls[w] = d.last[w]
  BY <1>1, <1>2
<1>6. Read(d, s) = [d EXCEPT !.records = rs, !.last = ls, !.work = s.work, !.ok = ok]
  BY <1>1 DEF Read, Disks
<1>7. ok <=> d.ok /\ WorkFits(d, s) OBVIOUS
<1> HIDE DEF ok, rs, ls
<1>8. /\ Read(d, s) \in Disks /\ Read(d, s).records = rs /\ Read(d, s).work = s.work
      /\ Read(d, s).last = ls /\ Read(d, s).ok = ok
  BY <1>1, <1>3, <1>4, <1>5, <1>6 DEF Disks
<1> QED BY <1>5, <1>7, <1>8 DEF rs

\* Replaying an acknowledgement.
LEMMA ReadAck ==
  ASSUME NEW d \in Disks, NEW a \in Acks
  PROVE  /\ Read(d, a) \in Disks
         /\ Read(d, a).records = d.records /\ Read(d, a).work = d.work
         /\ Read(d, a).last = d.last
         /\ Read(d, a).ok <=> d.ok /\ AckFits(d, a)
<1> DEFINE ok == d.ok /\ AckFits(d, a)
           as == d.acked \cup {a.work}
<1>1. a.kind = "ack" /\ a.work \in Works BY DEF Acks
<1>2. as \subseteq Works BY <1>1 DEF Disks
<1>3. ok \in BOOLEAN OBVIOUS
<1>4. Read(d, a) = [d EXCEPT !.acked = as, !.ok = ok]
  BY <1>1 DEF Read, Disks
<1>5. ok <=> d.ok /\ AckFits(d, a) OBVIOUS
<1> HIDE DEF ok, as
<1>6. /\ Read(d, a) \in Disks /\ Read(d, a).records = d.records /\ Read(d, a).work = d.work
      /\ Read(d, a).last = d.last /\ Read(d, a).ok = ok
  BY <1>2, <1>3, <1>4 DEF Disks
<1> QED BY <1>5, <1>6

\* Replaying an observation.
LEMMA ReadEval ==
  ASSUME NEW d \in Disks, NEW o \in Observations
  PROVE  /\ Read(d, o) \in Disks
         /\ Read(d, o).records = d.records \cup {o} /\ Read(d, o).work = d.work
         /\ Read(d, o).last = d.last
<1> DEFINE ok == d.ok /\ ObservationFits(d, o)
           rs == d.records \cup {o}
<1>1. o.kind = "eval" BY DEF Observations
<1>2. rs \subseteq Snapshots \cup Observations BY DEF Disks
<1>3. ok \in BOOLEAN OBVIOUS
<1>4. Read(d, o) = [d EXCEPT !.records = rs, !.eval = o, !.ok = ok]
  BY <1>1 DEF Read, Disks
<1> HIDE DEF ok, rs
<1>5. /\ Read(d, o) \in Disks /\ Read(d, o).records = rs /\ Read(d, o).work = d.work
      /\ Read(d, o).last = d.last
  BY <1>2, <1>3, <1>4 DEF Disks
<1> QED BY <1>5 DEF rs

\* A snapshot that fits leaves the rollout sound.
LEMMA WriteFits ==
  ASSUME NEW d, Sound(d), NEW s \in Snapshots, WorkFits(d, s)
  PROVE  Wrote(d, Read(d, s), s)
<1> DEFINE e == Read(d, s)
<1>1. d \in Disks /\ d.ok /\ \A w \in Works : LastOf(d, w) BY DEF Sound
<1>2. /\ e \in Disks /\ e.records = d.records \cup {s} /\ e.work = s.work /\ e.last[s.work] = s
      /\ \A w \in Works : w # s.work => e.last[w] = d.last[w]
      /\ e.ok
  BY <1>1, ReadWork
<1> HIDE DEF e
<1>3. s.work \in Works /\ Valid(s) /\ s # NoWork BY None DEF Snapshots, WorkFits
<1>4. ASSUME NEW w \in Works PROVE LastOf(e, w)
  BY <1>1, <1>2, <1>3 DEF LastOf
<1>5. Sound(e) BY <1>2, <1>3, <1>4 DEF Sound
<1>6. Wrote(d, e, s) BY <1>2, <1>5 DEF Wrote
<1> QED BY <1>6 DEF e

\* So does an observation that replay accepts.
LEMMA ObserveFits ==
  ASSUME NEW d, Sound(d), NEW o \in Observations, Read(d, o).ok
  PROVE  Kept(d, Read(d, o))
<1> DEFINE e == Read(d, o)
<1>1. d \in Disks /\ \A w \in Works : LastOf(d, w) BY DEF Sound
<1>2. /\ e \in Disks /\ e.records = d.records \cup {o} /\ e.work = d.work /\ e.last = d.last
      /\ e.ok
  BY <1>1, ReadEval
<1> HIDE DEF e
<1>3. ASSUME NEW w \in Works PROVE LastOf(e, w) BY <1>1, <1>2 DEF LastOf
<1>4. Sound(e) BY <1>2, <1>3 DEF Sound
<1>5. Kept(d, e) BY <1>2, <1>4 DEF Kept
<1> QED BY <1>5 DEF e

\* The record on its way changes nothing of it.
LEMMA DrainKeeps ==
  ASSUME OwnerInv
  PROVE  Kept(disk, disk) /\ Kept(disk, Drained)
<1>1. Sound(disk) BY DEF OwnerInv
<1>2. Kept(disk, disk) BY <1>1 DEF Kept
<1>3. CASE queue = NoWork BY <1>2, <1>3 DEF Drained
<1>4. CASE queue # NoWork
  <2> DEFINE e == Read(disk, queue)
  <2>1. queue \in Acks BY <1>4 DEF OwnerInv, TypeOK
  <2>2. disk \in Disks /\ disk.ok /\ \A w \in Works : LastOf(disk, w) BY <1>1 DEF Sound
  <2>3. AckFits(disk, queue) BY <1>4 DEF OwnerInv, Queued, AckFits
  <2>4. e \in Disks /\ e.records = disk.records /\ e.work = disk.work /\ e.last = disk.last
    /\ e.ok
    BY <2>1, <2>2, <2>3, ReadAck
  <2>5. e = Drained BY <1>4 DEF Drained
  <2> HIDE DEF e
  <2>6. ASSUME NEW w \in Works PROVE LastOf(e, w) BY <2>2, <2>4 DEF LastOf
  <2>7. Sound(e) BY <1>1, <2>4, <2>6 DEF Sound
  <2> QED BY <1>2, <2>4, <2>5, <2>7 DEF Kept
<1> QED BY <1>3, <1>4

\* What fits after it fits before it.
LEMMA WriteDrained ==
  ASSUME OwnerInv, NEW s \in Snapshots, WorkFits(disk, s)
  PROVE  Wrote(disk, Read(Drained, s), s)
<1>1. Kept(disk, Drained) BY DrainKeeps
<1> DEFINE d == Drained
<1>2. Kept(disk, d) BY <1>1
<1> HIDE DEF d
<1>3. Sound(d) /\ d.last = disk.last /\ disk.records \subseteq d.records BY <1>2 DEF Kept
<1>4. WorkFits(d, s) BY <1>3 DEF WorkFits
<1>5. Wrote(d, Read(d, s), s) BY <1>3, <1>4, WriteFits
<1> DEFINE e == Read(d, s)
<1>6. Wrote(d, e, s) BY <1>5
<1> HIDE DEF e
<1>7. Wrote(disk, e, s) BY <1>3, <1>6 DEF Wrote
<1> QED BY <1>7 DEF d, e

-----------------------------------------------------------------------------
(* What the writer's operations leave of the rollout and the Machine.       *)

\* A snapshot handed to the writer and waited for: nothing was written, and only
\* the live record is confirmed; or it was written, and either nobody knows or the
\* Machine has adopted it.
Persisted(s, acked) ==
  /\ queue' = NoWork /\ closed' \in BOOLEAN
  /\ \/ /\ Kept(disk, disk') /\ live' = live /\ pending' = pending
        /\ closed => closed'
        /\ acked => Recorded(s) /\ live = s /\ ~closed'
     \/ /\ ~acked /\ closed' /\ ~Recorded(s) /\ Wrote(disk, disk', s)
        /\ live' = live /\ pending' = pending
     \/ /\ acked /\ ~closed' /\ ~Recorded(s) /\ Wrote(disk, disk', s) /\ Adopt(s)

\* An observation, or none, was written.
Noted ==
  /\ Kept(disk, disk') /\ closed' \in BOOLEAN /\ (closed => closed')
  /\ queue' = NoWork \/ (queue' = queue /\ disk' = disk)

\* Read's verdict on a snapshot is the one on the rollout as it stands.
LEMMA AdmissibleFits ==
  ASSUME OwnerInv, NEW s \in Snapshots, Read(Drained, s).ok
  PROVE  WorkFits(disk, s)
<1> DEFINE d == Drained
<1>1. Kept(disk, d) BY DrainKeeps
<1>2. Read(d, s).ok OBVIOUS
<1> HIDE DEF d
<1>3. d \in Disks /\ d.last = disk.last BY <1>1 DEF Kept, Sound
<1>4. WorkFits(d, s) BY <1>2, <1>3, ReadWork
<1> QED BY <1>3, <1>4 DEF WorkFits

\* A flush writes at most the acknowledgement on its way, and fails closed.
LEMMA FlushKeeps ==
  ASSUME OwnerInv, NEW acked \in BOOLEAN, Flush(acked)
  PROVE  /\ Kept(disk, disk') /\ queue' = NoWork /\ closed' \in BOOLEAN /\ (closed => closed')
         /\ acked => ~closed'
<1>1. Kept(disk, disk) /\ Kept(disk, Drained) BY DrainKeeps
<1>2. closed \in BOOLEAN BY DEF OwnerInv, TypeOK
<1>3. disk' = disk \/ disk' = Drained BY Zenon DEF Flush
<1>4. Kept(disk, disk') BY <1>1, <1>3
<1>5. CASE acked
  <2>1. queue' = NoWork /\ ~closed /\ closed' = closed BY Zenon, <1>5 DEF Flush
  <2>2. closed' \in BOOLEAN BY Zenon, <1>2, <2>1
  <2>3. ~closed' BY Zenon, <2>1
  <2> QED BY Zenon, <1>4, <2>1, <2>2, <2>3
<1>6. CASE ~acked
  <2>1. queue' = NoWork /\ closed' = TRUE BY Zenon, <1>6 DEF Flush
  <2>2. closed' \in BOOLEAN BY Zenon, <2>1
  <2>3. closed' BY Zenon, <2>1
  <2> QED BY Zenon, <1>4, <1>6, <2>1, <2>2, <2>3
<1> QED BY Zenon, <1>5, <1>6

\* run_writer: an acknowledged record is written, one that is not may be, and then the
\* writer has failed.
LEMMA WriteWrites ==
  ASSUME OwnerInv, NEW s \in Snapshots, NEW acked \in BOOLEAN, WorkFits(disk, s), Write(s, acked)
  PROVE  /\ queue' = NoWork /\ closed' \in BOOLEAN
         /\ acked => ~closed' /\ Wrote(disk, disk', s)
         /\ ~acked => closed' /\ (Kept(disk, disk') \/ Wrote(disk, disk', s))
<1>1. Kept(disk, disk) /\ Kept(disk, Drained) BY DrainKeeps
<1>2. Wrote(disk, Read(Drained, s), s) BY WriteDrained
<1>3. closed \in BOOLEAN BY DEF OwnerInv, TypeOK
<1>4. CASE acked
  <2>1. queue' = NoWork /\ ~closed /\ closed' = closed /\ disk' = Read(Drained, s)
    BY Zenon, <1>4 DEF Write
  <2>2. closed' \in BOOLEAN BY Zenon, <1>3, <2>1
  <2>3. ~closed' BY Zenon, <2>1
  <2>4. Wrote(disk, disk', s) BY <1>2, <2>1
  <2> QED BY Zenon, <1>4, <2>1, <2>2, <2>3, <2>4
<1>5. CASE ~acked
  <2>1. disk' = disk \/ disk' = Drained \/ disk' = Read(Drained, s) BY Zenon, <1>5 DEF Write
  <2>2. queue' = NoWork /\ closed' = TRUE BY Zenon, <1>5 DEF Write
  <2>3. Kept(disk, disk') \/ Wrote(disk, disk', s) BY <1>1, <1>2, <2>1
  <2> QED BY Zenon, <1>5, <2>2, <2>3
<1> QED BY Zenon, <1>4, <1>5

\* persist_owner_work
LEMMA PersistWorkPersists ==
  ASSUME OwnerInv, NEW s \in Snapshots, NEW acked \in BOOLEAN, PersistWork(s, acked)
  PROVE  Persisted(s, acked)
<1>1. CASE Recorded(s) \/ ~WorkAdmissible(s)
  <2>1. PICK flushed \in BOOLEAN : Flush(flushed) /\ acked = (flushed /\ Confirms(s))
    BY Zenon, <1>1 DEF PersistWork
  <2>2. live' = live /\ pending' = pending BY Zenon, <1>1 DEF PersistWork
  <2>3. /\ Kept(disk, disk') /\ queue' = NoWork /\ closed' \in BOOLEAN /\ (closed => closed')
        /\ flushed => ~closed'
    BY <2>1, FlushKeeps
  <2>4. acked => Recorded(s) /\ live = s /\ ~closed' BY Zenon, <2>1, <2>3 DEF Confirms
  <2> QED BY Zenon, <2>2, <2>3, <2>4 DEF Persisted
<1>2. CASE ~Recorded(s) /\ WorkAdmissible(s)
  <2>1. Write(s, acked) /\ IF acked THEN Adopt(s) ELSE UNCHANGED <<live, pending>>
    BY Zenon, <1>2 DEF PersistWork
  <2>2. WorkFits(disk, s) BY <1>2, AdmissibleFits DEF WorkAdmissible
  <2>3. /\ queue' = NoWork /\ closed' \in BOOLEAN
        /\ acked => ~closed' /\ Wrote(disk, disk', s)
        /\ ~acked => closed' /\ (Kept(disk, disk') \/ Wrote(disk, disk', s))
    BY <2>1, <2>2, WriteWrites
  <2>4. CASE acked BY Zenon, <1>2, <2>1, <2>3, <2>4 DEF Persisted
  <2>5. CASE ~acked
    <3>1. live' = live /\ pending' = pending BY Zenon, <2>1, <2>5
    <3> QED BY Zenon, <1>2, <2>3, <2>5, <3>1 DEF Persisted
  <2> QED BY Zenon, <2>4, <2>5
<1> QED BY Zenon, <1>1, <1>2

\* A write whose wait was dropped.
LEMMA AbandonedWrites ==
  ASSUME OwnerInv, NEW s \in Snapshots, WorkFits(disk, s), Abandoned(s)
  PROVE  /\ closed' = closed /\ (Kept(disk, disk') \/ Wrote(disk, disk', s))
         /\ queue' = NoWork \/ (queue' = queue /\ disk' = disk)
<1>1. Kept(disk, disk) /\ Kept(disk, Drained) BY DrainKeeps
<1>2. Wrote(disk, Read(Drained, s), s) BY WriteDrained
<1>3. /\ disk' = disk \/ disk' = Drained \/ disk' = Read(Drained, s)
      /\ queue' = NoWork \/ (queue' = queue /\ disk' = disk)
  BY Zenon DEF Abandoned
<1>4. Kept(disk, disk') \/ Wrote(disk, disk', s) BY <1>1, <1>2, <1>3
<1> QED BY Zenon, <1>3, <1>4 DEF Abandoned

\* persist_evaluation_observation
LEMMA PersistObservationNotes ==
  ASSUME OwnerInv, NEW o \in Observations, NEW acked \in BOOLEAN, PersistObservation(o, acked)
  PROVE  Noted /\ observed' \in Observations \cup {NoWork}
<1>1. Kept(disk, disk) /\ Kept(disk, Drained) BY DrainKeeps
<1>2. closed \in BOOLEAN /\ observed \in Observations \cup {NoWork} BY DEF OwnerInv, TypeOK
<1>3. CASE Recorded(o) \/ ~ObservationAdmissible(o)
  <2>1. PICK flushed \in BOOLEAN : Flush(flushed) BY Zenon, <1>3 DEF PersistObservation
  <2>2. observed' = observed BY Zenon, <1>3 DEF PersistObservation
  <2>3. Kept(disk, disk') /\ queue' = NoWork /\ closed' \in BOOLEAN /\ (closed => closed')
    BY <2>1, FlushKeeps
  <2> QED BY Zenon, <1>2, <2>2, <2>3 DEF Noted
<1>4. CASE ~Recorded(o) /\ ObservationAdmissible(o)
  <2>1. Write(o, acked) \/ Abandoned(o) BY Zenon, <1>4 DEF PersistObservation
  <2>2. observed' = o \/ observed' = observed BY Zenon, <1>4 DEF PersistObservation
  <2>3. Kept(disk, Read(Drained, o))
    <3> DEFINE d == Drained
    <3>1. Kept(disk, d) /\ Read(d, o).ok BY <1>1, <1>4 DEF ObservationAdmissible
    <3> HIDE DEF d
    <3>2. Sound(d) /\ d.last = disk.last /\ disk.records \subseteq d.records BY <3>1 DEF Kept
    <3>3. Kept(d, Read(d, o)) BY <3>1, <3>2, ObserveFits
    <3> DEFINE e == Read(d, o)
    <3>4. Kept(d, e) BY <3>3
    <3> HIDE DEF e
    <3>5. Kept(disk, e) BY <3>2, <3>4 DEF Kept
    <3> QED BY <3>5 DEF d, e
  <2>4. /\ disk' = disk \/ disk' = Drained \/ disk' = Read(Drained, o)
        /\ queue' = NoWork \/ (queue' = queue /\ disk' = disk)
        /\ closed' = closed \/ closed' = TRUE
    <3>1. CASE Write(o, acked) BY Zenon, <3>1 DEF Write
    <3>2. CASE Abandoned(o) BY Zenon, <3>2 DEF Abandoned
    <3> QED BY <2>1, <3>1, <3>2
  <2>5. Kept(disk, disk') BY <1>1, <2>3, <2>4
  <2>6. closed' \in BOOLEAN /\ (closed => closed')
    <3>1. CASE closed' = closed BY Zenon, <1>2, <3>1
    <3>2. CASE closed' = TRUE BY Zenon, <3>2
    <3> QED BY Zenon, <2>4, <3>1, <3>2
  <2>7. observed' \in Observations \cup {NoWork} BY Zenon, <1>2, <2>2
  <2> QED BY Zenon, <2>4, <2>5, <2>6, <2>7 DEF Noted
<1> QED BY Zenon, <1>3, <1>4

-----------------------------------------------------------------------------
(* Every step moves the rollout and the models' calls in one of three ways. *)

\* A model is dispatched for a work that is open and has the call as spent.
Dispatched(w, call) ==
  /\ disk' = disk /\ disk.last[w] # NoWork /\ disk.last[w].outcome = "started"
  /\ call \in disk.last[w].calls
  /\ spent[w] = IF call = "evaluator" THEN <<>> ELSE <<"evaluator">>
  /\ spent' = [spent EXCEPT ![w] = Append(@, call)]

\* A snapshot is written; a wait only after the evaluation and nothing else.
Snapped(s) ==
  /\ Wrote(disk, disk', s)
  /\ s.outcome = "waiting" => spent[s.work] = <<"evaluator">>

Moves ==
  \/ spent' = spent /\ Kept(disk, disk')
  \/ spent' = spent /\ \E s \in Snapshots : Snapped(s)
  \/ \E w \in Works, call \in Calls : Dispatched(w, call)

\* What the calls of a work are once one more was dispatched.
LEMMA OneMoreCall ==
  ASSUME NEW sp \in Seq(Calls), NEW call \in Calls
  PROVE  Append(sp, call) \in Seq(Calls) /\ Range(Append(sp, call)) = Range(sp) \cup {call}
<1>1. Append(sp, call) \in Seq(Calls) /\ Len(sp) \in Nat /\ DOMAIN sp = 1 .. Len(sp) OBVIOUS
<1>2. /\ DOMAIN Append(sp, call) = 1 .. Len(sp) + 1
      /\ \A i \in 1 .. Len(sp) : Append(sp, call)[i] = sp[i]
      /\ Append(sp, call)[Len(sp) + 1] = call
  OBVIOUS
<1> DEFINE t == Append(sp, call)
           n == Len(sp)
<1>3. /\ n \in Nat /\ DOMAIN sp = 1 .. n /\ DOMAIN t = 1 .. n + 1
      /\ (\A i \in 1 .. n : t[i] = sp[i]) /\ t[n + 1] = call
  BY <1>1, <1>2
<1> HIDE DEF t, n
<1>4. ASSUME NEW i \in DOMAIN t PROVE t[i] \in Range(sp) \cup {call}
  <2>1. CASE i = n + 1 BY <1>3, <2>1
  <2>2. CASE i # n + 1
    <3>1. i \in DOMAIN sp /\ t[i] = sp[i] BY <1>3, <2>2
    <3> QED BY <3>1 DEF Range
  <2> QED BY <2>1, <2>2
<1>5. ASSUME NEW i \in DOMAIN sp PROVE sp[i] \in Range(t)
  <2>1. i \in DOMAIN t /\ t[i] = sp[i] BY <1>3
  <2> QED BY <2>1 DEF Range
<1>6. call \in Range(t)
  <2>1. n + 1 \in DOMAIN t /\ t[n + 1] = call BY <1>3
  <2> QED BY <2>1 DEF Range
<1>7. Range(t) = Range(sp) \cup {call} BY <1>4, <1>5, <1>6 DEF Range
<1> QED BY <1>1, <1>7 DEF t

\* Nothing was dispatched for a work without calls.
LEMMA NoCalls == Range(<<>>) = {}
  BY DEF Range

\* The history stays sound and pays for what was dispatched.
LEMMA MovesKeep ==
  ASSUME OwnerInv, Moves
  PROVE  /\ Sound(disk') /\ AllPaid' /\ spent' \in [Works -> Seq(Calls)]
         /\ disk.records \subseteq disk'.records
<1>1. Sound(disk) /\ spent \in [Works -> Seq(Calls)] /\ \A w \in Works : Paid(w)
  BY DEF OwnerInv, TypeOK, AllPaid
<1>2. CASE spent' = spent /\ Kept(disk, disk')
  <2>1. Sound(disk') /\ disk'.last = disk.last /\ disk.records \subseteq disk'.records
    BY <1>2 DEF Kept
  <2>2. ASSUME NEW w \in Works PROVE Paid(w)' BY <1>1, <1>2, <2>1 DEF Paid
  <2> QED BY <1>1, <1>2, <2>1, <2>2 DEF AllPaid
<1>3. CASE spent' = spent /\ \E s \in Snapshots : Snapped(s)
  <2>1. PICK s \in Snapshots : Wrote(disk, disk', s) BY <1>3 DEF Snapped
  <2>2. /\ Sound(disk') /\ WorkFits(disk, s) /\ disk.records \subseteq disk'.records
        /\ disk'.last[s.work] = s
        /\ \A w \in Works : w # s.work => disk'.last[w] = disk.last[w]
    BY <2>1 DEF Wrote
  <2>3. ASSUME NEW w \in Works PROVE Paid(w)'
    <3>1. Paid(w) /\ spent'[w] = spent[w] BY <1>1, <1>3
    <3>2. CASE w # s.work BY <2>2, <3>1, <3>2 DEF Paid
    <3>3. CASE w = s.work
      <4>1. disk'.last[w] = s /\ s # NoWork BY <2>2, <3>3, None
      <4>2. Range(spent[w]) \subseteq s.calls
        <5>1. CASE disk.last[w] = NoWork BY <3>1, <5>1, NoCalls DEF Paid
        <5>2. CASE disk.last[w] # NoWork
          <6>1. Range(spent[w]) \subseteq disk.last[w].calls BY <3>1, <5>2 DEF Paid
          <6>2. disk.last[w] = s \/ disk.last[w].calls \subseteq s.calls
            BY <2>2, <3>3, <5>2 DEF WorkFits, Follows
          <6> QED BY <6>1, <6>2
        <5> QED BY <5>1, <5>2
      <4> QED BY <3>1, <4>1, <4>2 DEF Paid
    <3> QED BY <3>2, <3>3
  <2> QED BY <1>1, <1>3, <2>2, <2>3 DEF AllPaid
<1>4. CASE \E w \in Works, call \in Calls : Dispatched(w, call)
  <2>1. PICK w \in Works, call \in Calls : Dispatched(w, call) BY <1>4
  <2>2. /\ disk' = disk /\ disk.last[w] # NoWork /\ call \in disk.last[w].calls
        /\ spent' = [spent EXCEPT ![w] = Append(spent[w], call)]
    BY <2>1 DEF Dispatched
  <2>3. /\ Append(spent[w], call) \in Seq(Calls)
        /\ Range(Append(spent[w], call)) = Range(spent[w]) \cup {call}
    BY <1>1, OneMoreCall
  <2> DEFINE sp == Append(spent[w], call)
  <2>4. spent' = [spent EXCEPT ![w] = sp] /\ sp \in Seq(Calls)
    /\ Range(sp) = Range(spent[w]) \cup {call}
    BY <2>2, <2>3
  <2> HIDE DEF sp
  <2>5. /\ spent' \in [Works -> Seq(Calls)] /\ spent'[w] = sp
        /\ \A v \in Works : v # w => spent'[v] = spent[v]
    BY <1>1, <2>4
  <2>6. ASSUME NEW v \in Works PROVE Paid(v)'
    <3>1. CASE v # w BY <1>1, <2>2, <2>5, <3>1 DEF Paid
    <3>2. CASE v = w
      <4>1. Range(spent[w]) \subseteq disk.last[w].calls BY <1>1, <2>2 DEF Paid
      <4>2. Range(sp) \subseteq disk.last[w].calls BY <2>2, <2>4, <4>1
      <4> QED BY <2>2, <2>5, <3>2, <4>2 DEF Paid
    <3> QED BY <3>1, <3>2
  <2> QED BY <1>1, <2>2, <2>5, <2>6 DEF AllPaid
<1> QED BY <1>2, <1>3, <1>4 DEF Moves

\* Such a move is a step of the ledger.
LEMMA MovesLedger ==
  ASSUME OwnerInv, Moves
  PROVE  [Ledger!Next]_(Ledger!vars)
<1> DEFINE st == [w \in Works |-> IF disk.last[w] = NoWork THEN "none" ELSE disk.last[w].outcome]
<1>1. CASE spent' = spent /\ Kept(disk, disk')
  <2>1. disk'.last = disk.last BY <1>1 DEF Kept
  <2>2. st' = st BY <2>1
  <2> QED BY <1>1, <2>2 DEF Ledger!vars
<1>2. CASE spent' = spent /\ \E s \in Snapshots : Snapped(s)
  <2>1. PICK s \in Snapshots : Snapped(s) BY <1>2
  <2> DEFINE w == s.work
             old == disk.last[w]
  <2>2. /\ w \in Works /\ s # NoWork
        /\ s.outcome \in {"started", "waiting", "completed", "failed", "cancelled", "interrupted"}
    BY None DEF Snapshots, Open, Ended
  <2>3. /\ WorkFits(disk, s) /\ disk'.last[w] = s
        /\ \A v \in Works : v # w => disk'.last[v] = disk.last[v]
        /\ s.outcome = "waiting" => spent[w] = <<"evaluator">>
    BY <2>1 DEF Snapped, Wrote
  <2>4. st' = [st EXCEPT ![w] = s.outcome]
    <3>1. ASSUME NEW v \in Works PROVE st'[v] = IF v = w THEN s.outcome ELSE st[v]
      BY <2>2, <2>3
    <3> QED BY <2>2, <3>1
  <2>5. Valid(s) BY <2>3 DEF WorkFits
  <2>6. CASE old = NoWork
    <3>1. s.outcome = "started" BY <2>3, <2>6 DEF WorkFits, Fresh
    <3>2. st[w] = "none" BY <2>2, <2>6
    <3>3. Ledger!Open(w) BY <1>2, <2>4, <3>1, <3>2 DEF Ledger!Open
    <3> QED BY <2>2, <3>3 DEF Ledger!Next
  <2>7. CASE old # NoWork
    <3>1. st[w] = old.outcome BY <2>2, <2>7
    <3>2. old = s \/ Follows(old, s) BY <2>3, <2>7 DEF WorkFits
    <3>3. CASE s.outcome = old.outcome
      <4>1. st' = st BY <2>2, <2>4, <3>1, <3>3
      <4> QED BY <1>2, <4>1 DEF Ledger!vars
    <3>4. CASE s.outcome # old.outcome
      <4>1. Follows(old, s) BY <3>2, <3>4
      <4>2. old.outcome \in {"started", "waiting"} BY <4>1 DEF Follows, Open
      <4>3. CASE s.outcome = "waiting"
        <5>1. Ledger!Park(w) BY <1>2, <2>3, <2>4, <3>1, <3>4, <4>2, <4>3 DEF Ledger!Park
        <5> QED BY <2>2, <5>1 DEF Ledger!Next
      <4>4. CASE s.outcome # "waiting"
        <5>1. s.outcome \in {"completed", "failed", "cancelled"}
          BY <2>2, <2>5, <3>4, <4>1, <4>2, <4>4 DEF Valid, Follows
        <5>2. Ledger!End(w, s.outcome) BY <1>2, <2>4, <3>1, <4>2, <5>1 DEF Ledger!End
        <5> QED BY <2>2, <5>1, <5>2 DEF Ledger!Next, Ledger!Ended
      <4> QED BY <4>3, <4>4
    <3> QED BY <3>3, <3>4
  <2> QED BY <2>6, <2>7
<1>3. CASE \E w \in Works, call \in Calls : Dispatched(w, call)
  <2>1. PICK w \in Works, call \in Calls : Dispatched(w, call) BY <1>3
  <2>2. st' = st /\ st[w] = "started" BY <2>1 DEF Dispatched
  <2>3. Ledger!Spend(w, call) BY <2>1, <2>2 DEF Dispatched, Ledger!Spend
  <2> QED BY <2>3 DEF Ledger!Next, Calls
<1> QED BY <1>1, <1>2, <1>3 DEF Moves

-----------------------------------------------------------------------------
(* What every step has to leave behind, and the ways to get there.          *)

Steady ==
  /\ Moves /\ Queued' /\ Live'
  /\ queue' \in Acks \cup {NoWork} /\ closed' \in BOOLEAN
  /\ live' \in Snapshots \cup {NoWork} /\ pending' \in Works \cup {NoWork}

\* A snapshot that may be written without leaving a question behind.
Releases(s) ==
  \/ Recorded(s)
  \/ /\ s.outcome # "waiting"
     /\ pending = NoWork \/ (s.outcome \in Ended /\ s.asked /\ pending = s.work)

\* No record leaves the rollout.
LEMMA RecordsGrow ==
  ASSUME OwnerInv, Steady
  PROVE  disk.records \subseteq disk'.records
  BY MovesKeep DEF Steady

\* What was published as ended stays recorded.
LEMMA ShownStays ==
  ASSUME OwnerInv, Steady, shown' = shown
  PROVE  ShownEnded' /\ shown' \in Snapshots \cup {NoWork}
<1>1. ShownEnded /\ shown \in Snapshots \cup {NoWork} BY DEF OwnerInv, TypeOK
<1>2. disk.records \subseteq disk'.records BY RecordsGrow
<1> QED BY <1>1, <1>2 DEF ShownEnded

\* The parts together.
LEMMA Together ==
  ASSUME OwnerInv, Steady, rollout' \in Nat, observed' \in Observations \cup {NoWork},
         run' \in Runs, cancel' \in BOOLEAN, shown' \in Snapshots \cup {NoWork},
         ShownEnded', Midway', Leaving'
  PROVE  OwnerInv'
<1>1. Sound(disk') /\ AllPaid' /\ spent' \in [Works -> Seq(Calls)] BY MovesKeep DEF Steady
<1>2. disk' \in Disks BY <1>1 DEF Sound
<1>3. /\ Queued' /\ Live' /\ queue' \in Acks \cup {NoWork} /\ closed' \in BOOLEAN
      /\ live' \in Snapshots \cup {NoWork} /\ pending' \in Works \cup {NoWork}
  BY Zenon DEF Steady
<1>4. TypeOK' BY Zenon, <1>1, <1>2, <1>3 DEF TypeOK
<1> QED BY Zenon, <1>1, <1>3, <1>4 DEF OwnerInv

\* Nothing was written and the Machine is as it was.
LEMMA KeptSteady ==
  ASSUME OwnerInv, Kept(disk, disk'), closed' \in BOOLEAN, closed => closed',
         queue' = NoWork \/ queue' = queue,
         live' = live, pending' = pending, spent' = spent
  PROVE  Steady
<1>1. Moves BY DEF Moves
<1>2. disk'.last = disk.last /\ disk.records \subseteq disk'.records BY DEF Kept
<1>3. Queued' BY <1>2 DEF OwnerInv, Queued
<1>4. Live
  BY DEF OwnerInv
<1>5. Live'
  <2>1. live' # NoWork /\ live'.outcome # "interrupted" => live' \in disk'.records
    BY <1>2, <1>4 DEF Live
  <2>2. live' # NoWork /\ live'.outcome = "waiting" => live'.asked /\ pending' = live'.work
    BY Zenon, <1>4 DEF Live
  <2>3. pending' # NoWork => live' # NoWork /\ live'.outcome = "waiting"
    BY Zenon, <1>4 DEF Live
  <2>4. live' # NoWork /\ live'.outcome = "started" /\ live'.calls = {} =>
          closed' \/ disk'.last[live'.work] = live'
    BY Zenon, <1>2, <1>4 DEF Live
  <2> QED BY Zenon, <2>1, <2>2, <2>3, <2>4 DEF Live
<1>6. /\ queue \in Acks \cup {NoWork} /\ live \in Snapshots \cup {NoWork}
      /\ pending \in Works \cup {NoWork}
  BY DEF OwnerInv, TypeOK
<1>7. queue' \in Acks \cup {NoWork} BY <1>6
<1> QED BY Zenon, <1>1, <1>3, <1>5, <1>6, <1>7 DEF Steady

\* Neither the rollout nor the Machine was touched.
LEMMA StaySteady ==
  ASSUME OwnerInv, UNCHANGED store, live' = live, pending' = pending, spent' = spent
  PROVE  Steady
<1>1. disk' = disk /\ queue' = queue /\ closed' = closed BY DEF store
<1>2. Kept(disk, disk') BY <1>1, DrainKeeps
<1>3. closed \in BOOLEAN BY DEF OwnerInv, TypeOK
<1>4. closed' \in BOOLEAN /\ (closed => closed') BY Zenon, <1>1, <1>3
<1> QED BY Zenon, <1>1, <1>2, <1>4, KeptSteady

\* An observation touches neither the works of the rollout nor the Machine.
LEMMA NotedSteady ==
  ASSUME OwnerInv, Noted, live' = live, pending' = pending, spent' = spent
  PROVE  Steady
<1>1. /\ Kept(disk, disk') /\ closed' \in BOOLEAN /\ (closed => closed')
      /\ queue' = NoWork \/ queue' = queue
  BY Zenon DEF Noted
<1> QED BY Zenon, <1>1, KeptSteady

\* persist_owner_work keeps the Machine and the rollout in step, and what it
\* acknowledges is what both hold.
LEMMA PersistSteady ==
  ASSUME OwnerInv, NEW s \in Snapshots, NEW acked \in BOOLEAN, PersistWork(s, acked),
         spent' = spent, Releases(s)
  PROVE  /\ Steady
         /\ pending' = pending \/ pending' = NoWork
         /\ acked => live' = s /\ s \in disk'.records /\ ~closed'
         /\ acked => (live = s /\ ~closed /\ disk'.last = disk.last) \/ disk'.last[s.work] = s
<1>1. Persisted(s, acked) BY PersistWorkPersists
<1>2. queue' = NoWork /\ closed' \in BOOLEAN BY Zenon, <1>1 DEF Persisted
<1>3. /\ live \in Snapshots \cup {NoWork} /\ pending \in Works \cup {NoWork}
      /\ s.work \in Works /\ s # NoWork /\ closed \in BOOLEAN
  BY None DEF OwnerInv, TypeOK, Snapshots
<1>4. CASE /\ Kept(disk, disk') /\ live' = live /\ pending' = pending
           /\ closed => closed'
           /\ acked => Recorded(s) /\ live = s /\ ~closed'
  <2>1. Steady BY Zenon, <1>2, <1>4, KeptSteady
  <2>2. disk'.last = disk.last /\ disk.records \subseteq disk'.records BY <1>4 DEF Kept
  <2>3. Recorded(s) => s \in disk'.records BY <2>2 DEF Recorded
  <2> QED BY Zenon, <1>4, <2>1, <2>2, <2>3
<1>5. CASE /\ ~acked /\ closed' /\ ~Recorded(s) /\ Wrote(disk, disk', s)
           /\ live' = live /\ pending' = pending
  <2>1. s.outcome # "waiting" BY Zenon, <1>5 DEF Releases
  <2>2. Snapped(s) BY Zenon, <1>5, <2>1 DEF Snapped
  <2>3. Moves BY Zenon, <2>2 DEF Moves
  <2>4. Queued' BY Zenon, <1>2 DEF Queued
  <2>5. disk.records \subseteq disk'.records BY Zenon, <1>5 DEF Wrote
  <2>6. Live BY DEF OwnerInv
  <2>7. live' # NoWork /\ live'.outcome # "interrupted" => live' \in disk'.records
    BY <1>5, <2>5, <2>6 DEF Live
  <2>8. Live' BY Zenon, <1>5, <2>6, <2>7 DEF Live
  <2>9. queue' \in Acks \cup {NoWork} BY Zenon, <1>2
  <2>10. Steady BY Zenon, <1>2, <1>3, <1>5, <2>3, <2>4, <2>8, <2>9 DEF Steady
  <2> QED BY Zenon, <1>5, <2>10
<1>6. CASE acked /\ ~closed' /\ ~Recorded(s) /\ Wrote(disk, disk', s) /\ Adopt(s)
  <2>1. /\ s.outcome # "waiting"
        /\ pending = NoWork \/ (s.outcome \in Ended /\ s.asked /\ pending = s.work)
    BY Zenon, <1>6 DEF Releases
  <2>2. Snapped(s) BY Zenon, <1>6, <2>1 DEF Snapped
  <2>3. Moves BY Zenon, <2>2 DEF Moves
  <2>4. Queued' BY Zenon, <1>2 DEF Queued
  <2>5. s \in disk'.records /\ disk'.last[s.work] = s BY Zenon, <1>6 DEF Wrote
  <2>6. live' = s /\ pending' = NoWork BY Zenon, <1>6, <2>1 DEF Adopt
  <2>7. Live' BY Zenon, <2>1, <2>5, <2>6 DEF Live
  <2>8. queue' \in Acks \cup {NoWork} /\ live' \in Snapshots \cup {NoWork}
        /\ pending' \in Works \cup {NoWork}
    BY Zenon, <1>2, <2>6
  <2>9. Steady BY Zenon, <1>2, <2>3, <2>4, <2>7, <2>8 DEF Steady
  <2> QED BY Zenon, <1>6, <2>5, <2>6, <2>9
<1> QED BY Zenon, <1>1, <1>4, <1>5, <1>6 DEF Persisted

\* A dispatch changes neither the rollout nor the Machine.
LEMMA StaysInStep ==
  ASSUME OwnerInv, Moves, disk' = disk, queue' = queue, closed' = closed, live' = live,
         pending' = pending
  PROVE  Steady
<1>1. /\ queue \in Acks \cup {NoWork} /\ closed \in BOOLEAN /\ live \in Snapshots \cup {NoWork}
      /\ pending \in Works \cup {NoWork} /\ Queued /\ Live
  BY Zenon DEF OwnerInv, TypeOK
<1>2. Queued' BY Zenon, <1>1 DEF Queued
<1>3. Live' BY Zenon, <1>1 DEF Live
<1> QED BY Zenon, <1>1, <1>2, <1>3 DEF Steady

-----------------------------------------------------------------------------
(* Where a step leaves the handler.                                         *)

\* A snapshot with some of its fields changed.
LEMMA SnapFields ==
  ASSUME NEW s \in Snapshots
  PROVE  /\ s.work \in Works /\ s # NoWork
         /\ \A o \in Open \cup Ended \cup {"interrupted"} :
              /\ [s EXCEPT !.outcome = o] \in Snapshots /\ [s EXCEPT !.outcome = o].outcome = o
              /\ [s EXCEPT !.outcome = o].work = s.work
                   /\ [s EXCEPT !.outcome = o].asked = s.asked
              /\ [s EXCEPT !.outcome = o].calls = s.calls
         /\ \A cs \in SUBSET {"evaluator", "generation"} :
              /\ [s EXCEPT !.calls = cs] \in Snapshots /\ [s EXCEPT !.calls = cs].calls = cs
              /\ [s EXCEPT !.calls = cs].outcome = s.outcome
                   /\ [s EXCEPT !.calls = cs].work = s.work
              /\ [s EXCEPT !.calls = cs].rollout = s.rollout
              /\ [s EXCEPT !.calls = cs].evidence = s.evidence
              /\ [s EXCEPT !.calls = cs].asked = s.asked
<1>1. s.work \in Works /\ s # NoWork BY None DEF Snapshots
<1>2. ASSUME NEW o \in Open \cup Ended \cup {"interrupted"}
      PROVE  /\ [s EXCEPT !.outcome = o] \in Snapshots /\ [s EXCEPT !.outcome = o].outcome = o
             /\ [s EXCEPT !.outcome = o].work = s.work /\ [s EXCEPT !.outcome = o].asked = s.asked
             /\ [s EXCEPT !.outcome = o].calls = s.calls
  BY DEF Snapshots
<1>3. ASSUME NEW cs \in SUBSET {"evaluator", "generation"}
      PROVE  /\ [s EXCEPT !.calls = cs] \in Snapshots /\ [s EXCEPT !.calls = cs].calls = cs
             /\ [s EXCEPT !.calls = cs].outcome = s.outcome
                  /\ [s EXCEPT !.calls = cs].work = s.work
             /\ [s EXCEPT !.calls = cs].rollout = s.rollout
             /\ [s EXCEPT !.calls = cs].evidence = s.evidence
             /\ [s EXCEPT !.calls = cs].asked = s.asked
  BY DEF Snapshots
<1> QED BY Zenon, <1>1, <1>2, <1>3

\* No calls in the range, no calls.
LEMMA NothingSpent ==
  ASSUME NEW sp \in Seq(Calls), Range(sp) = {}
  PROVE  sp = <<>>
<1>1. \A i \in DOMAIN sp : sp[i] \in Range(sp) BY DEF Range
<1>2. DOMAIN sp = 1 .. Len(sp) /\ Len(sp) \in Nat OBVIOUS
<1>3. ASSUME Len(sp) # 0 PROVE FALSE
  <2>1. 1 \in DOMAIN sp BY <1>2, <1>3
  <2> QED BY <1>1, <2>1
<1> QED BY <1>3

\* Goto.
LEMMA Went ==
  ASSUME NEW pc \in Pcs, NEW s \in Snapshots \cup {NoWork}, Goto(pc, s)
  PROVE  run' \in Runs /\ run'.pc = pc /\ run'.snap = s
  BY DEF Goto, Runs

\* Where nothing is asked of the handler's snapshot.
LEMMA Out ==
  ASSUME run'.pc \in {"idle", "down", "return"}
  PROVE  Midway' /\ Leaving'
  BY DEF Midway, Leaving, Mid, Before, After

\* At "fail" the handler holds a snapshot and no question is pending.
LEMMA Fails ==
  ASSUME run'.pc = "fail", run'.snap \in Snapshots, pending' = NoWork
  PROVE  Midway' /\ Leaving'
  BY DEF Midway, Leaving, Mid, Before, After

\* At "settle" with a validated owner, no question is pending.
LEMMA Completes ==
  ASSUME run'.pc = "settle", run'.snap \in Snapshots, run'.snap.outcome = "completed",
         pending' = NoWork
  PROVE  Midway' /\ Leaving'
  BY DEF Midway, Leaving, Mid, Before, After

\* validate_owner
LEMMA ValidatedOut ==
  ASSUME NEW valid, NEW s \in Snapshots, pending' = NoWork, Validated(valid, s)
  PROVE  run' \in Runs /\ Midway' /\ Leaving'
<1> DEFINE t == [s EXCEPT !.outcome = "completed"]
<1>1. t \in Snapshots /\ t.outcome = "completed" BY SnapFields DEF Ended
<1>2. Goto("settle", t) \/ Goto("fail", s) BY Zenon DEF Validated
<1> HIDE DEF t
<1>3. CASE Goto("settle", t)
  <2>1. run' \in Runs /\ run'.pc = "settle" /\ run'.snap = t BY <1>1, <1>3, Went DEF Pcs
  <2> QED BY <1>1, <2>1, Completes
<1>4. CASE Goto("fail", s)
  <2>1. run' \in Runs /\ run'.pc = "fail" /\ run'.snap = s BY <1>4, Went DEF Pcs
  <2> QED BY <2>1, Fails
<1> QED BY <1>2, <1>3, <1>4

\* In the middle of a work.
LEMMA MidFacts ==
  ASSUME OwnerInv, run.pc \in Mid
  PROVE  /\ run.snap \in Snapshots /\ run.snap.outcome = "started" /\ live = run.snap
         /\ disk.last[run.snap.work] = run.snap /\ run.snap.work \in Works /\ pending = NoWork
         /\ run.snap # NoWork
<1>1. /\ run.snap \in Snapshots /\ run.snap.outcome = "started" /\ live = run.snap
      /\ disk.last[run.snap.work] = run.snap
  BY DEF OwnerInv, Midway
<1>2. run.snap.work \in Works /\ run.snap # NoWork BY <1>1, SnapFields
<1>3. pending = NoWork BY <1>1 DEF OwnerInv, Live
<1> QED BY <1>1, <1>2, <1>3

\* The rest of the state.
LEMMA Rest ==
  ASSUME OwnerInv
  PROVE  /\ rollout \in Nat /\ observed \in Observations \cup {NoWork} /\ cancel \in BOOLEAN
         /\ run \in Runs /\ live \in Snapshots \cup {NoWork}
  BY DEF OwnerInv, TypeOK

-----------------------------------------------------------------------------
(* The steps.                                                               *)

\* handle: admission, the start record and its publication.
LEMMA SubmitKeeps ==
  ASSUME OwnerInv, NEW w \in Works, Submit(w)
  PROVE  OwnerInv' /\ Moves
<1> DEFINE s == Fresh(w)
<1>1. s \in Snapshots /\ s.outcome = "started" /\ s.calls = {} /\ s.work = w /\ s # NoWork
  <2>1. rollout \in Nat BY Rest
  <2>2. s \in Snapshots BY <2>1 DEF Fresh, Snapshots, Open
  <2>3. s.outcome = "started" /\ s.calls = {} /\ s.work = w BY DEF Fresh
  <2> HIDE DEF s
  <2> QED BY <2>2, <2>3, None
<1>2. PICK acked \in BOOLEAN :
        /\ PersistWork(s, acked)
        /\ shown' \in IF acked THEN {shown, s} ELSE {shown}
        /\ \/ acked /\ shown' = s /\ Goto("capture", s)
           \/ Goto("return", NoWork)
  BY Zenon DEF Submit
<1>3. /\ pending = NoWork /\ observed' = observed /\ rollout' = rollout /\ cancel' = cancel
      /\ spent' = spent
  BY DEF Submit
<1> HIDE DEF s
<1>4. Releases(s) BY Zenon, <1>1, <1>3 DEF Releases
<1>5. /\ Steady
      /\ pending' = pending \/ pending' = NoWork
      /\ acked => live' = s /\ s \in disk'.records /\ ~closed'
      /\ acked => (live = s /\ ~closed /\ disk'.last = disk.last) \/ disk'.last[s.work] = s
  BY <1>1, <1>2, <1>3, <1>4, PersistSteady
<1>6. ShownEnded' /\ shown' \in Snapshots \cup {NoWork}
  <2>1. CASE shown' = shown BY <1>5, <2>1, ShownStays
  <2>2. CASE shown' = s BY <1>1, <2>2 DEF ShownEnded, Ended
  <2> QED BY Zenon, <1>2, <2>1, <2>2
<1>7. run' \in Runs /\ Midway' /\ Leaving'
  <2>1. CASE Goto("return", NoWork)
    <3>1. run' \in Runs /\ run'.pc = "return" BY <2>1, Went DEF Pcs
    <3> QED BY <3>1, Out
  <2>2. CASE acked /\ Goto("capture", s)
    <3>1. run' \in Runs /\ run'.pc = "capture" /\ run'.snap = s
      BY <1>1, <2>2, Went DEF Pcs, Mid, Before
    <3>2. disk'.last[s.work] = s
      <4>1. CASE live = s /\ ~closed /\ disk'.last = disk.last
        <5>1. closed \/ disk.last[live.work] = live BY <1>1, <4>1 DEF OwnerInv, Live
        <5> QED BY Zenon, <4>1, <5>1
      <4> QED BY Zenon, <1>5, <2>2, <4>1
    <3>3. live' = s BY Zenon, <1>5, <2>2
    <3>4. spent'[w] = <<>>
      <4>1. AllPaid' /\ spent' \in [Works -> Seq(Calls)] BY <1>5, MovesKeep DEF Steady
      <4>2. Paid(w)' BY <4>1 DEF AllPaid
      <4>3. Range(spent'[w]) = {} BY <1>1, <3>2, <4>2 DEF Paid
      <4> QED BY <4>1, <4>3, NothingSpent
    <3> QED BY <1>1, <3>1, <3>2, <3>3, <3>4 DEF Midway, Leaving, Mid, Before, After
  <2> QED BY Zenon, <1>2, <2>1, <2>2
<1>8. rollout' \in Nat /\ observed' \in Observations \cup {NoWork} /\ cancel' \in BOOLEAN
  BY Zenon, <1>3, Rest
<1> QED BY Zenon, <1>5, <1>6, <1>7, <1>8, Together DEF Steady

\* A step that publishes nothing.
LEMMA Closes ==
  ASSUME OwnerInv, Steady, run' \in Runs, Midway', Leaving',
         observed' \in Observations \cup {NoWork},
         rollout' = rollout, cancel' = cancel, shown' = shown
  PROVE  OwnerInv' /\ Moves
<1>1. ShownEnded' /\ shown' \in Snapshots \cup {NoWork} BY ShownStays
<1>2. rollout' \in Nat /\ cancel' \in BOOLEAN BY Zenon, Rest
<1>3. OwnerInv' BY Zenon, <1>1, <1>2, Together
<1> QED BY Zenon, <1>3 DEF Steady

\* advance records a snapshot and goes on with it, or fails.
LEMMA StepOn ==
  ASSUME OwnerInv, run.pc \in Mid, spent' = spent,
         NEW s \in Snapshots, s.outcome = "started", s.work = run.snap.work,
         NEW acked \in BOOLEAN, PersistWork(s, acked),
         NEW pc \in Mid, Goto(IF acked THEN pc ELSE "fail", s),
         pc \in Before => spent[s.work] = <<>>,
         pc \in After => spent[s.work] = <<"evaluator">>,
         pc \in {"allocate", "commit"} \cup After => "evaluator" \in s.calls,
         pc = "generate" => "generation" \in s.calls
  PROVE  Steady /\ run' \in Runs /\ Midway' /\ Leaving'
<1>1. /\ live = run.snap /\ disk.last[run.snap.work] = run.snap /\ run.snap.work \in Works
      /\ pending = NoWork
  BY MidFacts
<1>2. Releases(s) BY <1>1 DEF Releases
<1>3. /\ Steady
      /\ pending' = pending \/ pending' = NoWork
      /\ acked => live' = s /\ s \in disk'.records /\ ~closed'
      /\ acked => (live = s /\ ~closed /\ disk'.last = disk.last) \/ disk'.last[s.work] = s
  BY <1>2, PersistSteady
<1>4. CASE acked
  <2>1. Goto(pc, s) BY Zenon, <1>4
  <2>2. run' \in Runs /\ run'.pc = pc /\ run'.snap = s BY <2>1, Went DEF Pcs
  <2>3. live' = s BY Zenon, <1>3, <1>4
  <2>4. disk'.last[s.work] = s
    <3>1. CASE live = s /\ disk'.last = disk.last BY <1>1, <3>1
    <3> QED BY Zenon, <1>3, <1>4, <3>1
  <2>5. Midway' BY <2>2, <2>3, <2>4 DEF Midway
  <2>6. Leaving' BY <2>2 DEF Leaving, Mid, Before, After
  <2> QED BY Zenon, <1>3, <2>2, <2>5, <2>6
<1>5. CASE ~acked
  <2>1. Goto("fail", s) BY Zenon, <1>5
  <2>2. run' \in Runs /\ run'.pc = "fail" /\ run'.snap = s BY <2>1, Went DEF Pcs
  <2>3. pending' = NoWork BY <1>1, <1>3
  <2>4. Midway' /\ Leaving' BY <2>2, <2>3, Fails
  <2> QED BY Zenon, <1>3, <2>2, <2>4
<1> QED BY Zenon, <1>4, <1>5

\* It fails before it records anything.
LEMMA GivesUp ==
  ASSUME OwnerInv, run.pc \in Mid, Goto("fail", run.snap), UNCHANGED <<store, live, pending>>,
         spent' = spent
  PROVE  Steady /\ run' \in Runs /\ Midway' /\ Leaving'
<1>1. run.snap \in Snapshots /\ pending = NoWork BY MidFacts
<1>2. run' \in Runs /\ run'.pc = "fail" /\ run'.snap = run.snap BY <1>1, Went DEF Pcs
<1>3. Steady BY StaySteady
<1>4. pending' = NoWork BY <1>1
<1> QED BY <1>1, <1>2, <1>3, <1>4, Fails

\* advance: the evidence is recorded.
LEMMA CaptureKeeps ==
  ASSUME OwnerInv, Capture
  PROVE  OwnerInv' /\ Moves
<1> DEFINE s == [run.snap EXCEPT !.evidence = TRUE]
<1>1. run.pc = "capture" /\ run.pc \in Mid BY DEF Capture, At, Mid, Before
<1>2. run.snap \in Snapshots /\ run.snap.outcome = "started" BY <1>1, MidFacts
<1>3. s \in Snapshots /\ s.outcome = "started" /\ s.work = run.snap.work
  BY <1>2 DEF Snapshots
<1>4. /\ observed' = observed /\ rollout' = rollout /\ cancel' = cancel /\ shown' = shown
      /\ spent' = spent
  BY DEF Capture
<1>5. spent[run.snap.work] = <<>> BY <1>1 DEF OwnerInv, Midway, Before, Mid
<1>6. \/ \E acked \in BOOLEAN : PersistWork(s, acked)
           /\ Goto(IF acked THEN "decide" ELSE "fail", s)
      \/ Goto("fail", run.snap) /\ UNCHANGED <<store, live, pending>>
  BY Zenon DEF Capture
<1> HIDE DEF s
<1>7. CASE Goto("fail", run.snap) /\ UNCHANGED <<store, live, pending>>
  <2>1. Steady /\ run' \in Runs /\ Midway' /\ Leaving' BY <1>1, <1>4, <1>7, GivesUp
  <2> QED BY Zenon, <1>4, <2>1, Closes, Rest
<1>8. CASE \E acked \in BOOLEAN :
             PersistWork(s, acked) /\ Goto(IF acked THEN "decide" ELSE "fail", s)
  <2>1. PICK acked \in BOOLEAN :
          PersistWork(s, acked) /\ Goto(IF acked THEN "decide" ELSE "fail", s)
    BY Zenon, <1>8
  <2>2. spent[s.work] = <<>> BY <1>3, <1>5
  <2>3. "decide" \in Mid /\ "decide" \notin {"allocate", "commit"} \cup After
    /\ "decide" # "generate"
    BY DEF Mid, Before, After
  <2>4. Steady /\ run' \in Runs /\ Midway' /\ Leaving'
    BY Zenon, <1>1, <1>3, <1>4, <2>1, <2>2, <2>3, StepOn
  <2> QED BY Zenon, <1>4, <2>4, Closes, Rest
<1> QED BY Zenon, <1>6, <1>7, <1>8

\* advance: a literal owner is validated.
LEMMA LiteralKeeps ==
  ASSUME OwnerInv, Literal
  PROVE  OwnerInv' /\ Moves
<1>1. run.pc \in Mid BY DEF Literal, At, Mid, Before
<1>2. run.snap \in Snapshots /\ pending = NoWork BY <1>1, MidFacts
<1>3. /\ UNCHANGED store /\ live' = live /\ pending' = pending /\ spent' = spent
      /\ observed' = observed /\ rollout' = rollout /\ cancel' = cancel /\ shown' = shown
  BY Zenon DEF Literal, machine
<1>4. Steady BY Zenon, <1>3, StaySteady
<1>5. PICK valid \in BOOLEAN : Validated(valid, run.snap) BY Zenon DEF Literal
<1>6. pending' = NoWork BY <1>2, <1>3
<1>7. run' \in Runs /\ Midway' /\ Leaving' BY <1>2, <1>5, <1>6, ValidatedOut
<1> QED BY Zenon, <1>3, <1>4, <1>7, Closes, Rest

\* advance: the evaluator is recorded as spent.
LEMMA SpendEvaluatorKeeps ==
  ASSUME OwnerInv, SpendEvaluator
  PROVE  OwnerInv' /\ Moves
<1> DEFINE s == [run.snap EXCEPT !.calls = {"evaluator"}]
<1>1. run.pc = "decide" /\ run.pc \in Mid BY DEF SpendEvaluator, At, Mid, Before
<1>2. run.snap \in Snapshots /\ run.snap.outcome = "started" BY <1>1, MidFacts
<1>3. s \in Snapshots /\ s.outcome = "started" /\ s.work = run.snap.work
  /\ "evaluator" \in s.calls
  BY <1>2 DEF Snapshots
<1>4. /\ observed' = observed /\ rollout' = rollout /\ cancel' = cancel /\ shown' = shown
      /\ spent' = spent
  BY DEF SpendEvaluator
<1>5. spent[run.snap.work] = <<>> BY <1>1 DEF OwnerInv, Midway, Before, Mid
<1>6. \/ \E acked \in BOOLEAN : PersistWork(s, acked)
           /\ Goto(IF acked THEN "allocate" ELSE "fail", s)
      \/ Goto("fail", run.snap) /\ UNCHANGED <<store, live, pending>>
  BY Zenon DEF SpendEvaluator
<1> HIDE DEF s
<1>7. CASE Goto("fail", run.snap) /\ UNCHANGED <<store, live, pending>>
  <2>1. Steady /\ run' \in Runs /\ Midway' /\ Leaving' BY <1>1, <1>4, <1>7, GivesUp
  <2> QED BY Zenon, <1>4, <2>1, Closes, Rest
<1>8. CASE \E acked \in BOOLEAN :
             PersistWork(s, acked) /\ Goto(IF acked THEN "allocate" ELSE "fail", s)
  <2>1. PICK acked \in BOOLEAN :
          PersistWork(s, acked) /\ Goto(IF acked THEN "allocate" ELSE "fail", s)
    BY Zenon, <1>8
  <2>2. spent[s.work] = <<>> BY <1>3, <1>5
  <2>3. "allocate" \in Mid /\ "allocate" \notin After /\ "allocate" # "generate"
    BY DEF Mid, Before, After
  <2>4. Steady /\ run' \in Runs /\ Midway' /\ Leaving'
    BY Zenon, <1>1, <1>3, <1>4, <2>1, <2>2, <2>3, StepOn
  <2> QED BY Zenon, <1>4, <2>4, Closes, Rest
<1> QED BY Zenon, <1>6, <1>7, <1>8

\* The handler goes on, fails or returns with the snapshot it has.
LEMMA GoesOn ==
  ASSUME OwnerInv, run.pc \in Mid, live' = live, pending' = pending, disk'.last = disk.last,
         NEW pc \in Mid \cup {"fail", "return"}, Goto(pc, run.snap),
         pc \in Before => spent'[run.snap.work] = <<>>,
         pc \in After => spent'[run.snap.work] = <<"evaluator">>,
         pc \in {"allocate", "commit"} \cup After => "evaluator" \in run.snap.calls,
         pc = "generate" => "generation" \in run.snap.calls
  PROVE  run' \in Runs /\ Midway' /\ Leaving'
<1>1. /\ run.snap \in Snapshots /\ run.snap.outcome = "started" /\ live = run.snap
      /\ disk.last[run.snap.work] = run.snap /\ pending = NoWork
  BY MidFacts
<1>2. run' \in Runs /\ run'.pc = pc /\ run'.snap = run.snap BY <1>1, Went DEF Pcs
<1>3. CASE pc = "fail" BY <1>1, <1>2, <1>3, Fails
<1>4. CASE pc = "return" BY <1>2, <1>4, Out
<1>5. CASE pc \in Mid
  <2>1. Midway' BY <1>1, <1>2, <1>5 DEF Midway
  <2>2. Leaving' BY <1>2, <1>5 DEF Leaving, Mid, Before, After
  <2> QED BY <1>2, <2>1, <2>2
<1> QED BY <1>3, <1>4, <1>5

\* An observation of a snapshot.
LEMMA Observes ==
  ASSUME NEW s \in Snapshots, NEW o \in {"started", "chosen", "nomatch", "ended"}
  PROVE  Observation(s, o) \in Observations
  BY DEF Observation, Observations, Snapshots

\* evaluate_captured_choice, up to the commit.
LEMMA AllocateKeeps ==
  ASSUME OwnerInv, Allocate
  PROVE  OwnerInv' /\ Moves
<1> DEFINE o == Observation(run.snap, "started")
<1>1. run.pc = "allocate" /\ run.pc \in Mid BY DEF Allocate, At, Mid, Before
<1>2. run.snap \in Snapshots BY <1>1, MidFacts
<1>3. o \in Observations BY <1>2, Observes
<1>4. /\ rollout' = rollout /\ cancel' = cancel /\ shown' = shown /\ spent' = spent
      /\ live' = live /\ pending' = pending
  BY DEF Allocate
<1>5. spent[run.snap.work] = <<>> /\ "evaluator" \in run.snap.calls
  BY <1>1 DEF OwnerInv, Midway, Before, Mid
<1>6. \/ UNCHANGED <<store, observed>> /\ \E pc \in {"fail", "return"} : Goto(pc, run.snap)
      \/ \E acked \in BOOLEAN : /\ PersistObservation(o, acked)
                                /\ \E pc \in {"fail", "return", "commit"} : Goto(pc, run.snap)
  BY Zenon DEF Allocate
<1> HIDE DEF o
<1>7. Steady /\ disk'.last = disk.last /\ observed' \in Observations \cup {NoWork}
  <2>1. CASE UNCHANGED <<store, observed>>
    <3>1. Steady BY <1>4, <2>1, StaySteady
    <3>2. disk' = disk BY <2>1 DEF store
    <3> QED BY <2>1, <3>1, <3>2, Rest
  <2>2. ASSUME NEW acked \in BOOLEAN, PersistObservation(o, acked)
        PROVE  Steady /\ disk'.last = disk.last /\ observed' \in Observations \cup {NoWork}
    <3>1. Noted /\ observed' \in Observations \cup {NoWork} BY <1>3, <2>2, PersistObservationNotes
    <3>2. Steady BY <1>4, <3>1, NotedSteady
    <3>3. disk'.last = disk.last BY <3>1 DEF Noted, Kept
    <3> QED BY Zenon, <3>1, <3>2, <3>3
  <2> QED BY Zenon, <1>6, <2>1, <2>2
<1>8. PICK pc \in {"fail", "return", "commit"} : Goto(pc, run.snap) BY Zenon, <1>6
<1>9. /\ pc \in Mid \cup {"fail", "return"} /\ pc \notin After /\ pc # "generate"
  BY DEF Mid, Before, After
<1>10. run' \in Runs /\ Midway' /\ Leaving'
  BY Zenon, <1>1, <1>4, <1>5, <1>7, <1>8, <1>9, GoesOn
<1> QED BY Zenon, <1>4, <1>7, <1>10, Closes

\* The clunk that starts the evaluation.
LEMMA CommitEvaluationKeeps ==
  ASSUME OwnerInv, CommitEvaluation
  PROVE  OwnerInv' /\ Moves
<1>1. run.pc = "commit" /\ run.pc \in Mid BY DEF CommitEvaluation, At, Mid, Before
<1>2. /\ run.snap \in Snapshots /\ disk.last[run.snap.work] = run.snap /\ run.snap.work \in Works
      /\ run.snap.outcome = "started" /\ run.snap # NoWork
  BY <1>1, MidFacts
<1>3. spent[run.snap.work] = <<>> /\ "evaluator" \in run.snap.calls
  BY <1>1 DEF OwnerInv, Midway, Before, Mid
<1>4. /\ disk' = disk /\ queue' = queue /\ closed' = closed
      /\ rollout' = rollout /\ cancel' = cancel /\ shown' = shown
      /\ live' = live /\ pending' = pending /\ observed' = observed
  BY DEF CommitEvaluation, store, machine
<1>5. spent' = spent \/ Dispatched(run.snap.work, "evaluator")
  BY <1>2, <1>3, <1>4 DEF CommitEvaluation, Dispatch, Dispatched
<1>6. Moves
  <2>1. Kept(disk, disk') BY <1>4, DrainKeeps
  <2> QED BY <1>2, <1>5, <2>1 DEF Moves, Calls
<1>7. Steady BY <1>4, <1>6, StaysInStep
<1>8. PICK pc \in {"return", "chosen", "nomatch", "ended"} :
        (pc \in {"chosen", "nomatch"} => spent' # spent) /\ Goto(pc, run.snap)
  BY Zenon DEF CommitEvaluation
<1>9. /\ pc \in Mid \cup {"fail", "return"} /\ pc \notin Before \cup {"generate"}
      /\ pc \in After => pc \in {"chosen", "nomatch"}
  BY DEF Mid, Before, After
<1>10. spent' # spent => spent'[run.snap.work] = <<"evaluator">>
  <2>1. spent \in [Works -> Seq(Calls)] BY DEF OwnerInv, TypeOK
  <2> QED BY <1>2, <1>3, <1>5, <2>1 DEF Dispatched
<1>11. run' \in Runs /\ Midway' /\ Leaving'
  BY Zenon, <1>1, <1>3, <1>4, <1>8, <1>9, <1>10, GoesOn
<1> QED BY Zenon, <1>4, <1>7, <1>11, Closes, Rest

\* The terminal observation.
LEMMA SettleEvaluationKeeps ==
  ASSUME OwnerInv, NEW result \in {"chosen", "nomatch", "ended"}, SettleEvaluation(result)
  PROVE  OwnerInv' /\ Moves
<1> DEFINE o == Observation(run.snap, result)
<1>1. run.pc = result /\ run.pc \in Mid BY DEF SettleEvaluation, At, Mid, After
<1>2. run.snap \in Snapshots /\ pending = NoWork BY <1>1, MidFacts
<1>3. o \in Observations BY <1>2, Observes
<1>4. /\ rollout' = rollout /\ cancel' = cancel /\ shown' = shown /\ spent' = spent
      /\ live' = live /\ pending' = pending
  BY DEF SettleEvaluation
<1>5. result \in After => spent[run.snap.work] = <<"evaluator">> /\ "evaluator" \in run.snap.calls
  BY <1>1 DEF OwnerInv, Midway
<1>6. PICK acked \in BOOLEAN :
        /\ PersistObservation(o, acked)
        /\ \/ Goto("return", run.snap)
           \/ Goto("fail", run.snap)
           \/ \E valid \in BOOLEAN : Validated(valid, run.snap)
           \/ result = "nomatch" /\ \E pc \in {"spend", "wait"} : Goto(pc, run.snap)
  BY Zenon DEF SettleEvaluation
<1> HIDE DEF o
<1>7. Noted /\ observed' \in Observations \cup {NoWork} BY <1>3, <1>6, PersistObservationNotes
<1>8. Steady /\ disk'.last = disk.last
  <2>1. Steady BY <1>4, <1>7, NotedSteady
  <2> QED BY <1>7, <2>1 DEF Noted, Kept
<1>9. run' \in Runs /\ Midway' /\ Leaving'
  <2>1. CASE \E pc \in {"return", "fail"} : Goto(pc, run.snap)
    <3>1. PICK pc \in {"return", "fail"} : Goto(pc, run.snap) BY <2>1
    <3>2. /\ pc \in Mid \cup {"fail", "return"}
          /\ pc \notin {"allocate", "commit"} \cup Before \cup After \cup {"generate"}
      BY DEF Before, After
    <3> QED BY Zenon, <1>1, <1>4, <1>8, <3>1, <3>2, GoesOn
  <2>2. CASE \E valid \in BOOLEAN : Validated(valid, run.snap)
    <3>1. PICK valid \in BOOLEAN : Validated(valid, run.snap) BY <2>2
    <3>2. pending' = NoWork BY <1>2, <1>4
    <3> QED BY <1>2, <3>1, <3>2, ValidatedOut
  <2>3. CASE result = "nomatch" /\ \E pc \in {"spend", "wait"} : Goto(pc, run.snap)
    <3>1. PICK pc \in {"spend", "wait"} : Goto(pc, run.snap) BY <2>3
    <3>2. pc \in Mid \cup {"fail", "return"} /\ pc \notin Before \cup {"generate"}
      /\ result \in After
      BY <2>3 DEF Mid, Before, After
    <3>3. spent'[run.snap.work] = <<"evaluator">> /\ "evaluator" \in run.snap.calls
      BY <1>4, <1>5, <3>2
    <3> QED BY Zenon, <1>1, <1>4, <1>8, <3>1, <3>2, <3>3, GoesOn
  <2> QED BY Zenon, <1>6, <2>1, <2>2, <2>3
<1> QED BY Zenon, <1>4, <1>7, <1>8, <1>9, Closes

\* A write that may or may not have reached the rollout while the Machine has
\* already seen the evaluator spent, or the writer has failed.
LEMMA UnknownSteady ==
  ASSUME OwnerInv, NEW s \in Snapshots, Kept(disk, disk') \/ Snapped(s), spent' = spent,
         closed' \in BOOLEAN, queue' = NoWork \/ (queue' = queue /\ disk' = disk),
         live' \in Snapshots \cup {NoWork}, pending = NoWork, pending' = NoWork,
         live' # NoWork /\ live'.outcome # "interrupted" => live' \in disk.records,
         live' # NoWork => live'.outcome # "waiting",
         live' # NoWork /\ live'.outcome = "started" => live'.calls # {}
  PROVE  Steady
<1>1. Moves BY Zenon DEF Moves
<1>2. disk.records \subseteq disk'.records BY <1>1, MovesKeep
<1>3. Queued' BY Zenon DEF OwnerInv, Queued
<1>4. live' # NoWork /\ live'.outcome # "interrupted" => live' \in disk'.records BY <1>2
<1>5. Live' BY Zenon, <1>4 DEF Live
<1>6. queue \in Acks \cup {NoWork} BY DEF OwnerInv, TypeOK
<1>7. queue' \in Acks \cup {NoWork} BY Zenon, <1>6
<1> QED BY Zenon, <1>1, <1>3, <1>5, <1>7 DEF Steady

\* advance: the generation is recorded as spent, under the deadline.
LEMMA SpendGenerationKeeps ==
  ASSUME OwnerInv, SpendGeneration
  PROVE  OwnerInv' /\ Moves
<1> DEFINE cs == run.snap.calls \cup {"generation"}
           s == [run.snap EXCEPT !.calls = cs]
<1>1. run.pc = "spend" /\ run.pc \in Mid BY DEF SpendGeneration, At, Mid, After
<1>2. /\ run.snap \in Snapshots /\ run.snap.outcome = "started" /\ live = run.snap
      /\ disk.last[run.snap.work] = run.snap /\ pending = NoWork /\ run.snap # NoWork
  BY <1>1, MidFacts
<1>3. cs \in SUBSET {"evaluator", "generation"} /\ run.snap.calls \subseteq cs
  /\ "generation" \in cs
  BY <1>2 DEF Snapshots
<1>4. /\ observed' = observed /\ rollout' = rollout /\ cancel' = cancel /\ shown' = shown
      /\ spent' = spent
  BY DEF SpendGeneration
<1>5. spent[run.snap.work] = <<"evaluator">> /\ "evaluator" \in run.snap.calls
  BY <1>1 DEF OwnerInv, Midway, After, Mid
<1>6. \/ \E acked \in BOOLEAN : PersistWork(s, acked)
           /\ Goto(IF acked THEN "generate" ELSE "fail", s)
      \/ Abandoned(s) /\ Goto("fail", s) /\ UNCHANGED <<live, pending>>
      \/ Goto("fail", run.snap) /\ UNCHANGED <<store, live, pending>>
  BY Zenon DEF SpendGeneration
<1> HIDE DEF cs
<1>7. /\ s \in Snapshots /\ s.calls = cs /\ s.outcome = "started" /\ s.work = run.snap.work
      /\ s.rollout = run.snap.rollout /\ s.evidence = run.snap.evidence
      /\ s.asked = run.snap.asked
  BY <1>2, <1>3, SnapFields
<1> HIDE DEF s
<1>8. CASE Goto("fail", run.snap) /\ UNCHANGED <<store, live, pending>>
  <2>1. Steady /\ run' \in Runs /\ Midway' /\ Leaving' BY <1>1, <1>4, <1>8, GivesUp
  <2> QED BY Zenon, <1>4, <2>1, Closes, Rest
<1>9. CASE \E acked \in BOOLEAN :
             PersistWork(s, acked) /\ Goto(IF acked THEN "generate" ELSE "fail", s)
  <2>1. PICK acked \in BOOLEAN :
          PersistWork(s, acked) /\ Goto(IF acked THEN "generate" ELSE "fail", s)
    BY Zenon, <1>9
  <2>2. spent[s.work] = <<"evaluator">> /\ "evaluator" \in s.calls /\ "generation" \in s.calls
    BY <1>3, <1>5, <1>7
  <2>3. "generate" \in Mid /\ "generate" \notin Before BY DEF Mid, Before, After
  <2>4. Steady /\ run' \in Runs /\ Midway' /\ Leaving'
    BY Zenon, <1>1, <1>4, <1>7, <2>1, <2>2, <2>3, StepOn
  <2> QED BY Zenon, <1>4, <2>4, Closes, Rest
<1>10. CASE Abandoned(s) /\ Goto("fail", s) /\ UNCHANGED <<live, pending>>
  <2>1. WorkFits(disk, s)
    <3>1. Follows(run.snap, s) BY <1>2, <1>3, <1>7 DEF Follows, Open
    <3>2. Valid(s) BY <1>7 DEF Valid
    <3> QED BY <1>2, <1>7, <3>1, <3>2 DEF WorkFits
  <2>2. /\ closed' = closed /\ (Kept(disk, disk') \/ Wrote(disk, disk', s))
        /\ queue' = NoWork \/ (queue' = queue /\ disk' = disk)
    BY <1>7, <1>10, <2>1, AbandonedWrites
  <2>3. Kept(disk, disk') \/ Snapped(s) BY Zenon, <1>7, <2>2 DEF Snapped
  <2>4. closed' \in BOOLEAN
    <3>1. closed \in BOOLEAN BY DEF OwnerInv, TypeOK
    <3> QED BY Zenon, <2>2, <3>1
  <2>5. /\ live' = run.snap /\ live' \in Snapshots /\ live'.outcome = "started"
             /\ live'.calls # {}
        /\ pending' = NoWork
    BY <1>2, <1>5, <1>10
  <2>6. live' \in disk.records BY <1>2, <2>5 DEF OwnerInv, Live
  <2>7. Steady BY Zenon, <1>2, <1>4, <1>7, <2>2, <2>3, <2>4, <2>5, <2>6, UnknownSteady
  <2>8. run' \in Runs /\ run'.pc = "fail" /\ run'.snap = s BY <1>7, <1>10, Went DEF Pcs
  <2>9. Midway' /\ Leaving' BY <1>7, <2>5, <2>8, Fails
  <2> QED BY Zenon, <1>4, <2>7, <2>8, <2>9, Closes, Rest
<1> QED BY Zenon, <1>6, <1>8, <1>9, <1>10

\* generate_fallback.
LEMMA GenerateKeeps ==
  ASSUME OwnerInv, Generate
  PROVE  OwnerInv' /\ Moves
<1>1. run.pc = "generate" /\ run.pc \in Mid BY DEF Generate, At, Mid, After
<1>2. /\ run.snap \in Snapshots /\ disk.last[run.snap.work] = run.snap /\ run.snap.work \in Works
      /\ run.snap.outcome = "started" /\ run.snap # NoWork /\ pending = NoWork
  BY <1>1, MidFacts
<1>3. spent[run.snap.work] = <<"evaluator">> /\ "generation" \in run.snap.calls
  BY <1>1 DEF OwnerInv, Midway, After, Mid
<1>4. /\ disk' = disk /\ queue' = queue /\ closed' = closed
      /\ rollout' = rollout /\ cancel' = cancel /\ shown' = shown
      /\ live' = live /\ pending' = pending /\ observed' = observed
  BY DEF Generate, store, machine
<1>5. /\ spent' = spent \/ Dispatch(run.snap, "generation")
      /\ \/ \E pc \in {"fail", "return"} : Goto(pc, run.snap)
         \/ \E valid \in BOOLEAN : Validated(valid, run.snap)
  BY Zenon DEF Generate
<1>6. Moves
  <2>1. Kept(disk, disk') BY <1>4, DrainKeeps
  <2>2. Dispatch(run.snap, "generation") => Dispatched(run.snap.work, "generation")
    BY <1>2, <1>3, <1>4 DEF Dispatch, Dispatched
  <2> QED BY <1>2, <1>5, <2>1, <2>2 DEF Moves, Calls
<1>7. Steady BY <1>4, <1>6, StaysInStep
<1>8. run' \in Runs /\ Midway' /\ Leaving'
  <2>1. CASE \E pc \in {"fail", "return"} : Goto(pc, run.snap)
    <3>1. PICK pc \in {"fail", "return"} : Goto(pc, run.snap) BY <2>1
    <3>2. /\ pc \in Mid \cup {"fail", "return"}
          /\ pc \notin {"allocate", "commit"} \cup Before \cup After \cup {"generate"}
      BY DEF Before, After
    <3> QED BY Zenon, <1>1, <1>4, <3>1, <3>2, GoesOn
  <2>2. CASE \E valid \in BOOLEAN : Validated(valid, run.snap)
    <3>1. PICK valid \in BOOLEAN : Validated(valid, run.snap) BY <2>2
    <3>2. pending' = NoWork BY <1>2, <1>4
    <3> QED BY <1>2, <3>1, <3>2, ValidatedOut
  <2> QED BY <1>5, <2>1, <2>2
<1> QED BY Zenon, <1>4, <1>7, <1>8, Closes, Rest

\* wait: the work is parked, or the write fails and nobody knows.
LEMMA WaitKeeps ==
  ASSUME OwnerInv, Wait
  PROVE  OwnerInv' /\ Moves
<1> DEFINE s == [run.snap EXCEPT !.asked = TRUE, !.outcome = "waiting"]
<1>1. run.pc = "wait" /\ run.pc \in Mid BY DEF Wait, At, Mid, After
<1>2. /\ run.snap \in Snapshots /\ run.snap.outcome = "started" /\ live = run.snap
      /\ disk.last[run.snap.work] = run.snap /\ pending = NoWork /\ run.snap # NoWork
      /\ run.snap.work \in Works
  BY <1>1, MidFacts
<1>3. /\ s \in Snapshots /\ s.outcome = "waiting" /\ s.asked /\ s.work = run.snap.work
      /\ s.rollout = run.snap.rollout /\ s.evidence = run.snap.evidence
      /\ s.calls = run.snap.calls
  BY <1>2 DEF Snapshots, Open
<1>4. /\ observed' = observed /\ rollout' = rollout /\ cancel' = cancel /\ shown' = shown
      /\ spent' = spent
  BY DEF Wait
<1>5. spent[run.snap.work] = <<"evaluator">> BY <1>1 DEF OwnerInv, Midway, After, Mid
<1>6. \/ Goto("fail", run.snap) /\ UNCHANGED <<store, live, pending>>
      \/ /\ ~Recorded(s) /\ WorkAdmissible(s) /\ ~closed
         /\ disk' = Read(Drained, s) /\ queue' = Ack(s.work) /\ UNCHANGED closed
         /\ live' = s /\ pending' = s.work
         /\ Goto("settle", s)
      \/ /\ Write(s, FALSE)
         /\ live' = [live EXCEPT !.outcome = "interrupted"]
         /\ UNCHANGED pending
         /\ Goto("fail", s)
  BY Zenon DEF Wait
<1> HIDE DEF s
<1>7. s # NoWork BY <1>3, None
<1>8. WorkFits(disk, s)
  <2>1. Follows(run.snap, s) BY <1>2, <1>3 DEF Follows, Open
  <2>2. Valid(s) BY <1>3 DEF Valid
  <2> QED BY <1>2, <1>3, <2>1, <2>2 DEF WorkFits
<1>9. CASE Goto("fail", run.snap) /\ UNCHANGED <<store, live, pending>>
  <2>1. Steady /\ run' \in Runs /\ Midway' /\ Leaving' BY <1>1, <1>4, <1>9, GivesUp
  <2> QED BY Zenon, <1>4, <2>1, Closes, Rest
<1>10. CASE /\ disk' = Read(Drained, s) /\ queue' = Ack(s.work) /\ UNCHANGED closed
            /\ live' = s /\ pending' = s.work
            /\ Goto("settle", s)
  <2>1. Wrote(disk, disk', s) BY <1>3, <1>8, <1>10, WriteDrained
  <2>2. Snapped(s) BY <1>3, <1>5, <2>1 DEF Snapped
  <2>3. Moves BY <1>3, <1>4, <2>2 DEF Moves
  <2>4. s \in disk'.records /\ disk'.last[s.work] = s BY <2>1 DEF Wrote
  <2>5. Ack(s.work) \in Acks /\ Ack(s.work).work = s.work BY <1>2, <1>3 DEF Ack, Acks
  <2>6. Queued' BY <1>3, <1>7, <1>10, <2>4, <2>5 DEF Queued
  <2>7. Live' BY <1>3, <1>7, <1>10, <2>4 DEF Live
  <2>8. /\ queue' \in Acks \cup {NoWork} /\ live' \in Snapshots \cup {NoWork}
        /\ pending' \in Works \cup {NoWork}
    BY <1>2, <1>3, <1>10, <2>5
  <2>9. closed' \in BOOLEAN
    <3>1. closed \in BOOLEAN BY DEF OwnerInv, TypeOK
    <3> QED BY Zenon, <1>10, <3>1
  <2>10. Steady BY Zenon, <2>3, <2>6, <2>7, <2>8, <2>9 DEF Steady
  <2>11. run' \in Runs /\ run'.pc = "settle" /\ run'.snap = s BY <1>3, <1>10, Went DEF Pcs
  <2>12. Midway' /\ Leaving'
    BY <1>3, <1>10, <2>11 DEF Midway, Leaving, Mid, Before, After
  <2> QED BY Zenon, <1>4, <2>10, <2>11, <2>12, Closes, Rest
<1>11. CASE /\ Write(s, FALSE)
            /\ live' = [live EXCEPT !.outcome = "interrupted"]
            /\ UNCHANGED pending
            /\ Goto("fail", s)
  <2>1. /\ queue' = NoWork /\ closed' \in BOOLEAN
        /\ Kept(disk, disk') \/ Wrote(disk, disk', s)
    BY <1>3, <1>8, <1>11, WriteWrites
  <2>2. Kept(disk, disk') \/ Snapped(s) BY <1>3, <1>5, <2>1 DEF Snapped
  <2>3. live' \in Snapshots /\ live'.outcome = "interrupted" /\ pending' = NoWork
    BY <1>2, <1>11, SnapFields
  <2>4. Steady BY Zenon, <1>2, <1>3, <1>4, <2>1, <2>2, <2>3, UnknownSteady
  <2>5. run' \in Runs /\ run'.pc = "fail" /\ run'.snap = s BY <1>3, <1>11, Went DEF Pcs
  <2>6. Midway' /\ Leaving' BY <1>3, <2>3, <2>5, Fails
  <2> QED BY Zenon, <1>4, <2>4, <2>5, <2>6, Closes, Rest
<1> QED BY Zenon, <1>6, <1>9, <1>10, <1>11

\* settle, the answer and the cancellation record a snapshot and return.
LEMMA SettlesOut ==
  ASSUME OwnerInv, NEW s \in Snapshots, Releases(s), NEW acked \in BOOLEAN, PersistWork(s, acked),
         Goto("return", NoWork),
         UNCHANGED <<observed, rollout, cancel, shown, spent>>
  PROVE  OwnerInv' /\ Moves
<1>1. /\ observed' = observed /\ rollout' = rollout /\ cancel' = cancel /\ shown' = shown
      /\ spent' = spent
  OBVIOUS
<1>2. Steady BY <1>1, PersistSteady
<1>3. run' \in Runs /\ run'.pc = "return" BY Went DEF Pcs
<1>4. Midway' /\ Leaving' BY <1>3, Out
<1> QED BY Zenon, <1>1, <1>2, <1>3, <1>4, Closes, Rest

\* settle.
LEMMA SettleKeeps ==
  ASSUME OwnerInv, Settle
  PROVE  OwnerInv' /\ Moves
<1> DEFINE outcome == CASE cancel -> "cancelled"
                        [] ~cancel /\ At("fail") -> "failed"
                        [] OTHER -> run.snap.outcome
           s == [run.snap EXCEPT !.outcome = outcome]
<1>1. run.pc \in {"settle", "fail"} /\ run.snap \in Snapshots BY DEF Settle, OwnerInv, Leaving
<1>2. /\ \E acked \in BOOLEAN : PersistWork(s, acked)
      /\ Goto("return", NoWork) /\ UNCHANGED <<observed, rollout, cancel, shown, spent>>
  BY Zenon DEF Settle
<1>3. \/ outcome \in {"cancelled", "failed"} /\ (run.pc = "fail" \/ outcome = "cancelled")
      \/ run.pc = "settle" /\ outcome = run.snap.outcome
  <2>1. CASE cancel BY Zenon, <2>1
  <2>2. CASE ~cancel /\ At("fail") BY Zenon, <2>2 DEF At
  <2>3. CASE ~cancel /\ ~At("fail")
    <3>1. run.pc = "settle" BY <1>1, <2>3 DEF At
    <3> QED BY Zenon, <2>3, <3>1
  <2> QED BY Zenon, <2>1, <2>2, <2>3
<1> HIDE DEF outcome
<1>4. outcome \in Open \cup Ended \cup {"interrupted"}
  BY <1>1, <1>3 DEF Open, Ended, Snapshots
<1>5. /\ s \in Snapshots /\ s.outcome = outcome /\ s.work = run.snap.work
      /\ s.asked = run.snap.asked
  BY <1>1, <1>4, SnapFields
<1>6. Live BY DEF OwnerInv
<1>7. Releases(s)
  <2>1. CASE run.pc = "fail"
    <3>1. pending = NoWork BY <2>1 DEF OwnerInv, Leaving
    <3> QED BY <1>3, <1>5, <2>1, <3>1 DEF Releases
  <2>2. CASE run.pc = "settle" /\ run.snap.outcome = "completed" /\ pending = NoWork
    BY <1>3, <1>5, <2>2 DEF Releases
  <2>3. CASE run.pc = "settle" /\ run.snap.outcome = "waiting" /\ run.snap = live
    <3>1. live # NoWork /\ live \in disk.records /\ live.asked /\ pending = live.work
      <4>1. live # NoWork BY <1>1, <2>3, None
      <4> QED BY <1>6, <2>3, <4>1 DEF Live
    <3>2. CASE outcome = "cancelled" BY <1>5, <2>3, <3>1, <3>2 DEF Releases, Ended
    <3>3. CASE outcome = run.snap.outcome
      <4>1. s = run.snap BY <1>1, <3>3 DEF Snapshots
      <4> QED BY <2>3, <3>1, <4>1 DEF Releases, Recorded
    <3> QED BY <1>3, <2>3, <3>2, <3>3
  <2> QED BY <1>1, <2>1, <2>2, <2>3 DEF OwnerInv, Leaving
<1> HIDE DEF s
<1>8. PICK acked \in BOOLEAN : PersistWork(s, acked) BY Zenon, <1>2
<1> QED BY Zenon, <1>2, <1>5, <1>7, <1>8, SettlesOut

\* The answer to a parked work.
LEMMA SettleAnswerKeeps ==
  ASSUME OwnerInv, SettleAnswer
  PROVE  OwnerInv' /\ Moves
<1>1. PICK acked \in BOOLEAN : PersistWork(run.snap, acked) BY Zenon DEF SettleAnswer
<1>2. Goto("return", NoWork) /\ UNCHANGED <<observed, rollout, cancel, shown, spent>>
  BY Zenon DEF SettleAnswer
<1>3. /\ run.snap \in Snapshots /\ run.snap.outcome \in Ended /\ run.snap.asked
      /\ live # NoWork /\ live.outcome = "waiting" /\ live.work = run.snap.work
  BY DEF SettleAnswer, At, OwnerInv, Leaving
<1>4. pending = run.snap.work BY <1>3 DEF OwnerInv, Live
<1>5. Releases(run.snap) BY <1>3, <1>4 DEF Releases, Ended
<1> QED BY Zenon, <1>1, <1>2, <1>3, <1>5, SettlesOut

\* The cancellation of a parked work.
LEMMA CancelParkedKeeps ==
  ASSUME OwnerInv, CancelParked
  PROVE  OwnerInv' /\ Moves
<1> DEFINE s == [live EXCEPT !.outcome = "cancelled"]
<1>1. PICK acked \in BOOLEAN : PersistWork(s, acked) BY Zenon DEF CancelParked
<1>2. /\ Goto("return", NoWork) /\ UNCHANGED <<observed, rollout, cancel, shown, spent>>
      /\ live # NoWork /\ live.outcome = "waiting"
  BY Zenon DEF CancelParked
<1>3. live \in Snapshots BY <1>2, Rest
<1>4. live.asked /\ pending = live.work BY <1>2 DEF OwnerInv, Live
<1>5. s \in Snapshots /\ s.outcome = "cancelled" /\ s.work = live.work /\ s.asked = live.asked
  BY <1>3, SnapFields DEF Ended
<1>6. Releases(s) BY <1>4, <1>5 DEF Releases, Ended
<1> HIDE DEF s
<1> QED BY Zenon, <1>1, <1>2, <1>5, <1>6, SettlesOut

\* advance_accepted_submission publishes the live work.
LEMMA ReturnKeeps ==
  ASSUME OwnerInv, Return
  PROVE  OwnerInv' /\ Moves
<1>1. /\ UNCHANGED store /\ live' = live /\ pending' = pending /\ spent' = spent
      /\ observed' = observed /\ rollout' = rollout
      /\ run' = Idle /\ cancel' = FALSE /\ shown' \in {shown, live}
  BY Zenon DEF Return, machine
<1>2. Steady BY Zenon, <1>1, StaySteady
<1>3. ShownEnded' /\ shown' \in Snapshots \cup {NoWork}
  <2>1. CASE shown' = shown BY <1>2, <2>1, ShownStays
  <2>2. CASE shown' = live
    <3>1. disk' = disk BY <1>1 DEF store
    <3>2. Live BY DEF OwnerInv
    <3> QED BY <2>2, <3>1, <3>2, Rest DEF Live, ShownEnded, Ended
  <2> QED BY <1>1, <2>1, <2>2
<1>4. run' \in Runs /\ run'.pc = "idle" BY <1>1 DEF Idle, Runs, Pcs
<1>5. Midway' /\ Leaving' BY <1>4, Out
<1>6. cancel' \in BOOLEAN BY Zenon, <1>1
<1>7. rollout' \in Nat /\ observed' \in Observations \cup {NoWork} BY <1>1, Rest
<1>8. OwnerInv' BY Zenon, <1>2, <1>3, <1>4, <1>5, <1>6, <1>7, Together
<1> QED BY Zenon, <1>2, <1>8 DEF Steady

\* handle, for an answer.
LEMMA ResumeKeeps ==
  ASSUME OwnerInv, Resume
  PROVE  OwnerInv' /\ Moves
<1>1. /\ UNCHANGED store /\ live' = live /\ pending' = pending /\ spent' = spent
      /\ observed' = observed /\ rollout' = rollout /\ cancel' = cancel /\ shown' = shown
      /\ live # NoWork /\ live.outcome = "waiting"
  BY Zenon DEF Resume, machine
<1>2. Steady BY Zenon, <1>1, StaySteady
<1>3. PICK outcome \in Ended : run' = [pc |-> "answer",
  snap |-> [live EXCEPT !.outcome = outcome]]
  BY DEF Resume
<1> DEFINE s == [live EXCEPT !.outcome = outcome]
<1>4. live \in Snapshots /\ live.asked
  <2>1. live \in Snapshots BY <1>1, Rest
  <2> QED BY <1>1, <2>1 DEF OwnerInv, Live
<1>5. s \in Snapshots /\ s.outcome \in Ended /\ s.asked /\ s.work = live.work
  BY <1>4, SnapFields
<1>6. run' = [pc |-> "answer", snap |-> s] BY <1>3
<1> HIDE DEF s
<1>7. run' \in Runs /\ run'.pc = "answer" /\ run'.snap = s BY <1>5, <1>6 DEF Runs, Pcs
<1>8. Midway' BY <1>7 DEF Midway, Mid, Before, After
<1>9. Leaving' BY <1>1, <1>5, <1>7 DEF Leaving
<1> QED BY Zenon, <1>1, <1>2, <1>7, <1>8, <1>9, Closes, Rest

\* The user cancels the execution.
LEMMA CancelKeeps ==
  ASSUME OwnerInv, Cancel
  PROVE  OwnerInv' /\ Moves
<1>1. /\ UNCHANGED store /\ live' = live /\ pending' = pending /\ spent' = spent
      /\ observed' = observed /\ rollout' = rollout /\ shown' = shown /\ run' = run
      /\ cancel' = TRUE
  BY Zenon DEF Cancel, machine
<1>2. Steady BY Zenon, <1>1, StaySteady
<1>3. disk' = disk BY <1>1 DEF store
<1>4. Midway' BY <1>1, <1>3 DEF OwnerInv, Midway
<1>5. Leaving' BY Zenon, <1>1 DEF OwnerInv, Leaving
<1>6. ShownEnded' /\ shown' \in Snapshots \cup {NoWork} BY <1>1, <1>2, ShownStays
<1>7. cancel' \in BOOLEAN BY Zenon, <1>1
<1>8. rollout' \in Nat /\ observed' \in Observations \cup {NoWork} /\ run' \in Runs
  BY <1>1, Rest
<1>9. OwnerInv' BY Zenon, <1>2, <1>4, <1>5, <1>6, <1>7, <1>8, Together
<1> QED BY Zenon, <1>2, <1>9 DEF Steady

\* The acknowledgement of a wait reaches the file, or the writer fails on it.
LEMMA DrainNowaitKeeps ==
  ASSUME OwnerInv, DrainNowait
  PROVE  OwnerInv' /\ Moves
<1>1. /\ queue' = NoWork /\ live' = live /\ pending' = pending /\ spent' = spent
      /\ observed' = observed /\ rollout' = rollout /\ shown' = shown /\ run' = run
      /\ cancel' = cancel /\ disk' \in {disk, Drained}
      /\ closed' = closed \/ closed' = TRUE
  BY Zenon DEF DrainNowait, machine
<1>2. Kept(disk, disk') BY <1>1, DrainKeeps
<1>3. closed' \in BOOLEAN /\ (closed => closed')
  <2>1. closed \in BOOLEAN BY DEF OwnerInv, TypeOK
  <2>2. CASE closed' = closed BY Zenon, <2>1, <2>2
  <2>3. CASE closed' = TRUE BY Zenon, <2>3
  <2> QED BY Zenon, <1>1, <2>2, <2>3
<1>4. Steady BY Zenon, <1>1, <1>2, <1>3, KeptSteady
<1>5. disk'.last = disk.last BY <1>2 DEF Kept
<1>6. Midway' BY <1>1, <1>5 DEF OwnerInv, Midway
<1>7. Leaving' BY Zenon, <1>1 DEF OwnerInv, Leaving
<1>8. run' \in Runs /\ observed' \in Observations \cup {NoWork} BY <1>1, Rest
<1> QED BY Zenon, <1>1, <1>4, <1>6, <1>7, <1>8, Closes

\* A crash loses the Machine, and perhaps the record on its way.
LEMMA CrashKeeps ==
  ASSUME OwnerInv, Crash
  PROVE  OwnerInv' /\ Moves
<1>1. /\ disk' \in {disk, Drained} /\ queue' = NoWork /\ run' = Down /\ cancel' = FALSE
      /\ live' = NoWork /\ observed' = NoWork /\ pending' = NoWork /\ shown' = NoWork
      /\ closed' = closed /\ rollout' = rollout /\ spent' = spent
  BY Zenon DEF Crash
<1>2. Kept(disk, disk') BY <1>1, DrainKeeps
<1>3. Moves BY <1>1, <1>2 DEF Moves
<1>4. Queued' /\ Live' /\ ShownEnded' BY <1>1 DEF Queued, Live, ShownEnded
<1>5. closed' \in BOOLEAN
  <2>1. closed \in BOOLEAN BY DEF OwnerInv, TypeOK
  <2> QED BY Zenon, <1>1, <2>1
<1>6. Steady BY Zenon, <1>1, <1>3, <1>4, <1>5 DEF Steady
<1>7. run' \in Runs /\ run'.pc = "down" BY <1>1 DEF Down, Runs, Pcs
<1>8. Midway' /\ Leaving' BY <1>7, Out
<1>9. cancel' \in BOOLEAN BY Zenon, <1>1
<1>10. rollout' \in Nat /\ observed' \in Observations \cup {NoWork}
       /\ shown' \in Snapshots \cup {NoWork}
  BY <1>1, Rest
<1>11. OwnerInv' BY Zenon, <1>4, <1>6, <1>7, <1>8, <1>9, <1>10, Together
<1> QED BY <1>3, <1>11

\* What replay takes up: nothing, an interrupted work, or a recorded one that is not
\* merely started.
LEMMA Recovers ==
  ASSUME OwnerInv
  PROVE  /\ Recover(disk) \in Snapshots \cup {NoWork}
         /\ Recover(disk) # NoWork =>
              \/ Recover(disk).outcome = "interrupted"
              \/ /\ Recover(disk) \in disk.records /\ Valid(Recover(disk))
                 /\ Recover(disk).outcome # "started"
<1> DEFINE work == disk.last[disk.work]
<1>1. Sound(disk) BY DEF OwnerInv
<1>2. CASE disk.work = NoWork BY <1>2 DEF Recover
<1>3. CASE disk.work # NoWork
  <2>1. disk.work \in Works /\ work # NoWork BY <1>1, <1>3 DEF Sound, Disks
  <2>2. work \in Snapshots /\ work \in disk.records /\ Valid(work)
    BY <1>1, <2>1 DEF Sound, Disks, LastOf
  <2>3. \/ Recover(disk) = [work EXCEPT !.outcome = "interrupted"]
        \/ Recover(disk) = work /\ work.outcome # "started"
    BY Zenon, <1>3 DEF Recover
  <2>4. CASE Recover(disk) = [work EXCEPT !.outcome = "interrupted"] BY <2>2, <2>4, SnapFields
  <2>5. CASE Recover(disk) = work /\ work.outcome # "started" BY <2>2, <2>5
  <2> QED BY <2>3, <2>4, <2>5
<1> QED BY <1>2, <1>3

\* load_from_rollout and the start of the runtime.
LEMMA RestartKeeps ==
  ASSUME OwnerInv, Restart
  PROVE  OwnerInv' /\ Moves
<1> DEFINE r == Recover(disk)
<1>1. /\ disk' = disk /\ queue' = queue /\ spent' = spent /\ cancel' = cancel
      /\ rollout' = rollout + 1 /\ closed' = FALSE /\ live' = r /\ shown' = r /\ run' = Idle
      /\ observed' = RecoverEvaluation(disk)
      /\ pending' = IF r # NoWork /\ r.outcome = "waiting" THEN r.work ELSE NoWork
  BY Zenon DEF Restart
<1>2. /\ r \in Snapshots \cup {NoWork}
      /\ r # NoWork =>
           r.outcome = "interrupted" \/ (r \in disk.records /\ Valid(r) /\ r.outcome # "started")
  BY Recovers
<1> HIDE DEF r
<1>3. Kept(disk, disk') BY <1>1, DrainKeeps
<1>4. Moves BY <1>1, <1>3 DEF Moves
<1>5. Queued' BY <1>1 DEF OwnerInv, Queued
<1>6. r # NoWork => r.work \in Works BY <1>2, SnapFields
<1>7. Live'
  <2>1. live' # NoWork /\ live'.outcome # "interrupted" => live' \in disk'.records
    BY <1>1, <1>2
  <2>2. live' # NoWork /\ live'.outcome = "waiting" => live'.asked /\ pending' = live'.work
    BY <1>1, <1>2 DEF Valid
  <2>3. pending' # NoWork => live' # NoWork /\ live'.outcome = "waiting" BY <1>1
  <2>4. ~(live' # NoWork /\ live'.outcome = "started") BY <1>1, <1>2
  <2> QED BY Zenon, <2>1, <2>2, <2>3, <2>4 DEF Live
<1>8. ShownEnded' BY <1>1, <1>2 DEF ShownEnded, Ended
<1>9. closed' \in BOOLEAN BY Zenon, <1>1
<1>10. /\ queue' \in Acks \cup {NoWork} /\ live' \in Snapshots \cup {NoWork}
       /\ pending' \in Works \cup {NoWork}
  BY <1>1, <1>2, <1>6 DEF OwnerInv, TypeOK
<1>11. Steady BY Zenon, <1>4, <1>5, <1>7, <1>9, <1>10 DEF Steady
<1>12. run' \in Runs /\ run'.pc = "idle" BY <1>1 DEF Idle, Runs, Pcs
<1>13. Midway' /\ Leaving' BY <1>12, Out
<1>14. observed' \in Observations \cup {NoWork}
  <2>1. disk.eval \in Observations \cup {NoWork} BY DEF OwnerInv, TypeOK, Disks
  <2> QED BY <1>1, <2>1 DEF RecoverEvaluation, Observations
<1>15. rollout' \in Nat /\ shown' \in Snapshots \cup {NoWork} BY <1>1, <1>2, Rest
<1>16. cancel' \in BOOLEAN BY Zenon, <1>1, Rest
<1>17. OwnerInv' BY Zenon, <1>8, <1>11, <1>12, <1>13, <1>14, <1>15, <1>16, Together
<1> QED BY <1>4, <1>17

-----------------------------------------------------------------------------
\* The first Process starts with an empty rollout.
LEMMA OwnerInit ==
  ASSUME Init
  PROVE  OwnerInv
<1>1. /\ disk = Empty /\ queue = NoWork /\ closed = FALSE /\ rollout = 0
      /\ live = NoWork /\ observed = NoWork /\ pending = NoWork
      /\ run = Idle /\ cancel = FALSE /\ shown = NoWork
      /\ spent = [w \in Works |-> <<>>]
  BY DEF Init
<1>2. /\ Empty \in Disks /\ Empty.ok /\ Empty.work = NoWork
      /\ \A w \in Works : Empty.last[w] = NoWork
  BY DEF Empty, Disks
<1>3. Sound(disk) BY <1>1, <1>2 DEF Sound, LastOf
<1>4. <<>> \in Seq(Calls) OBVIOUS
<1>5. spent \in [Works -> Seq(Calls)] /\ \A w \in Works : spent[w] = <<>> BY <1>1, <1>4
<1>6. run \in Runs /\ run.pc = "idle" BY <1>1 DEF Idle, Runs, Pcs
<1>7. closed \in BOOLEAN /\ cancel \in BOOLEAN BY Zenon, <1>1
<1>8. /\ disk \in Disks /\ queue \in Acks \cup {NoWork} /\ rollout \in Nat
      /\ live \in Snapshots \cup {NoWork} /\ observed \in Observations \cup {NoWork}
      /\ pending \in Works \cup {NoWork} /\ shown \in Snapshots \cup {NoWork}
  BY <1>1, <1>2
<1>9. TypeOK BY Zenon, <1>5, <1>6, <1>7, <1>8 DEF TypeOK
<1>10. Queued /\ Live /\ ShownEnded BY <1>1 DEF Queued, Live, ShownEnded
<1>11. AllPaid BY <1>1, <1>2, <1>5 DEF AllPaid, Paid
<1>12. Midway /\ Leaving BY <1>6 DEF Midway, Leaving, Mid, Before, After
<1> QED BY Zenon, <1>3, <1>9, <1>10, <1>11, <1>12 DEF OwnerInv

\* Every step keeps the invariant and is one of the three moves.
LEMMA OwnerNext ==
  ASSUME OwnerInv, [Next]_vars
  PROVE  OwnerInv' /\ Moves
<1>1. CASE Next
  BY Zenon, <1>1, SubmitKeeps, CaptureKeeps, LiteralKeeps, SpendEvaluatorKeeps, AllocateKeeps,
     CommitEvaluationKeeps, SettleEvaluationKeeps, SpendGenerationKeeps, GenerateKeeps, WaitKeeps,
     SettleKeeps, ReturnKeeps, ResumeKeeps, SettleAnswerKeeps, CancelParkedKeeps, CancelKeeps,
     DrainNowaitKeeps, CrashKeeps, RestartKeeps
  DEF Next
<1>2. CASE UNCHANGED vars
  <2>1. /\ disk' = disk /\ queue' = queue /\ closed' = closed /\ rollout' = rollout
        /\ live' = live /\ observed' = observed /\ pending' = pending /\ run' = run
        /\ cancel' = cancel /\ shown' = shown /\ spent' = spent
    BY <1>2 DEF vars
  <2>2. Kept(disk, disk') BY <2>1, DrainKeeps
  <2>3. Moves BY <2>1, <2>2 DEF Moves
  <2>4. Steady BY <2>1, <2>3, StaysInStep
  <2>5. Midway' BY <2>1 DEF OwnerInv, Midway
  <2>6. Leaving' BY Zenon, <2>1 DEF OwnerInv, Leaving
  <2>7. run' \in Runs /\ observed' \in Observations \cup {NoWork} BY <2>1, Rest
  <2> QED BY Zenon, <2>1, <2>4, <2>5, <2>6, <2>7, Closes
<1> QED BY <1>1, <1>2

\* The invariant implies the property.
LEMMA OwnerImplies ==
  ASSUME OwnerInv
  PROVE  WorkIsAccounted
<1>1. Sound(disk) /\ Live /\ ShownEnded /\ \A w \in Works : Paid(w)
  BY DEF OwnerInv, AllPaid
<1>2. SpentIsRecorded
  <2> SUFFICES ASSUME NEW w \in Works, NEW call \in Range(spent[w])
      PROVE  \E r \in disk.records : r.kind = "work" /\ r.work = w /\ call \in r.calls
    BY DEF SpentIsRecorded
  <2>1. Paid(w) /\ LastOf(disk, w) BY <1>1 DEF Sound
  <2>2. disk.last[w] # NoWork
    <3>1. disk.last[w] = NoWork => spent[w] = <<>> BY <2>1 DEF Paid
    <3> QED BY <3>1, NoCalls
  <2>3. call \in disk.last[w].calls BY <2>1, <2>2 DEF Paid
  <2>4. disk.last[w] \in Snapshots BY <1>1, <2>2 DEF Sound, Disks
  <2>5. disk.last[w].kind = "work" BY <2>4 DEF Snapshots
  <2> QED BY <2>1, <2>2, <2>3, <2>5 DEF LastOf
<1>3. RecoveryNeverFails
  <2>1. Kept(disk, Drained) BY DrainKeeps
  <2>2. Sound(Drained) BY Zenon, <2>1 DEF Kept
  <2>3. disk.ok BY Zenon, <1>1 DEF Sound
  <2>4. Drained.ok BY Zenon, <2>2 DEF Sound
  <2> QED BY Zenon, <2>3, <2>4 DEF RecoveryNeverFails
<1>4. ParkedIsAnswerable
  <2>1. live # NoWork /\ live.outcome = "waiting" => pending # NoWork
    <3>1. live # NoWork => live.work # NoWork
      <4>1. live # NoWork => live \in Snapshots BY Rest
      <4> QED BY <4>1, SnapFields, None
    <3> QED BY <1>1, <3>1 DEF Live
  <2>2. pending # NoWork => live # NoWork /\ live.outcome = "waiting" /\ live.work = pending
    BY <1>1 DEF Live
  <2>3. shown # NoWork /\ shown.outcome \in Ended => Recorded(shown)
    BY <1>1 DEF ShownEnded, Recorded
  <2> QED BY Zenon, <2>1, <2>2, <2>3 DEF ParkedIsAnswerable
<1> QED BY <1>2, <1>3, <1>4 DEF WorkIsAccounted

\* Every dispatched model is recorded as spent, replay accepts whatever lost, failed
\* and abandoned writes and crashes leave in the rollout, and a work is parked in the
\* Machine exactly while its question is pending: for any number of works and
\* crashes (persist_owner_work, run_writer, owner_work::recover,
\* load_from_rollout).
THEOREM OwnerWorkIsAccounted == Spec => []WorkIsAccounted
<1>1. Init => OwnerInv BY OwnerInit
<1>2. OwnerInv /\ [Next]_vars => OwnerInv' BY OwnerNext
<1>3. OwnerInv => WorkIsAccounted BY OwnerImplies
<1> QED BY <1>1, <1>2, <1>3, PTL DEF Spec

\* What a reader of the rollout finds of the works is a run of WorkLedger: opened
\* once, each model dispatched at most once and only while the work is open, the
\* generation never before the evaluation, parked once, ended once, over every crash
\* and restart (advance, settle, wait, persist_owner_work).
THEOREM OwnerImplementsLedger == Spec => ImplementsLedger
<1>1. Init => OwnerInv BY OwnerInit
<1>2. OwnerInv /\ [Next]_vars => OwnerInv' BY OwnerNext
<1>3. Init => Ledger!Init
  <2> SUFFICES ASSUME Init PROVE Ledger!Init OBVIOUS
  <2>1. \A w \in Works : disk.last[w] = NoWork BY DEF Init, Empty
  <2> QED BY <2>1 DEF Init, Ledger!Init
<1>4. OwnerInv /\ [Next]_vars => [Ledger!Next]_(Ledger!vars) BY OwnerNext, MovesLedger
<1> QED BY <1>1, <1>2, <1>3, <1>4, PTL DEF Spec, ImplementsLedger, Ledger!Spec
=============================================================================
