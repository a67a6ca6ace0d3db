--------------------------- MODULE ProcLife_proofs ----------------------------
(***************************************************************************)
(* The end of a process, proved for any number of ctl writes, host exit    *)
(* reports and output writes: an exit is announced, an event has its       *)
(* record and a record its bytes, and a runner does not outlive the exit   *)
(* unnoticed (crates/kernel/src/procfs.rs).                                *)
(***************************************************************************)
EXTENDS ProcLife, FiniteSetTheorems, TLAPS

Exiters == Ctls \cup Hosts
Working == {"wait", "run", "ioEvent", "publishOutput", "exit"}

Stages(a) ==
    CASE a = Clunk -> {"publishRunning", "spawn", "insert", "start", "done"}
      [] a = Runner -> {"none", "publishExited", "done"} \cup Working
      [] a \in Exiters -> {"idle", "publishExited", "done"}
      [] OTHER -> {"idle", "ioEvent", "publishOutput", "done"}

LifeTypeOK ==
    /\ status \in {"running", "exited"} /\ task \in {"none", "live"}
    /\ aborted \in BOOLEAN /\ early \in BOOLEAN
    /\ history \in Seq(Appenders \cup {"running", "exited"})
    /\ output \in Seq(Appenders) /\ ioEvents \in Seq(Appenders)
    /\ DOMAIN pc = Calls \cup {Clunk, Runner}
    /\ \A a \in Calls \cup {Clunk, Runner} : pc[a] \in Stages(a)
    /\ pc = [a \in Calls \cup {Clunk, Runner} |-> pc[a]]
    /\ dropped \subseteq Calls \cup {Clunk, Runner}

\* The clunk comes before the runner: it spawns the task, registers it and is over
\* before the task leaves its start gate; the task deregisters when it exits.
InTurn ==
    /\ pc[Clunk] \in {"publishRunning", "spawn"} => pc[Runner] = "none"
    /\ pc[Runner] \in (Working \ {"wait"}) \cup {"publishExited"} => pc[Clunk] = "done"
    /\ pc[Runner] = "publishExited" => task = "none"
    /\ Clunk \in dropped => pc[Clunk] = "done"

\* An exit is announced by a call, or by a runner nobody will abort any more.
Announced ==
    \/ InHistory("exited")
    \/ \E a \in Exiters : pc[a] = "publishExited"
    \/ dropped \cap Exiters # {}

Announcing ==
    status = "exited" => Announced \/ (pc[Runner] = "publishExited" /\ ~aborted)

\* Only a call that exits the process aborts its runner, and one that finds none says so.
Stopping ==
    /\ aborted => status = "exited"
    /\ status = "exited" => aborted \/ early \/ pc[Runner] \in {"publishExited", "done"}

\* An appender has written bytes before its record, and the record before its event.
Owes(a, stage) == IF pc[a] = stage THEN 1 ELSE 0
Written ==
    \A a \in Appenders :
        /\ Count(history, a) + Owes(a, "publishOutput") <= Count(ioEvents, a)
        /\ Count(ioEvents, a) + Owes(a, "ioEvent") <= Count(output, a)

LifeInv == LifeTypeOK /\ InTurn /\ Announcing /\ Stopping /\ Written

-----------------------------------------------------------------------------
(* Counting.                                                               *)

\* A log holds finitely many entries of an appender.
LEMMA CountIsNat ==
    ASSUME NEW S, NEW s \in Seq(S), NEW e
    PROVE  Count(s, e) \in Nat
<1>1. IsFiniteSet(1 .. Len(s))
  BY FS_Interval
<1>2. IsFiniteSet({i \in DOMAIN s : s[i] = e})
  BY <1>1, FS_Subset, {i \in DOMAIN s : s[i] = e} \subseteq 1 .. Len(s)
<1> QED
  BY <1>2, FS_CardinalityType DEF Count

\* Appending counts one more of the element appended and leaves the others.
LEMMA CountAppend ==
    ASSUME NEW S, NEW s \in Seq(S), NEW x \in S, NEW e
    PROVE  Count(Append(s, x), e) = Count(s, e) + (IF x = e THEN 1 ELSE 0)
<1> DEFINE at(t) == {i \in DOMAIN t : t[i] = e}
<1>1. IsFiniteSet(at(s))
  <2>1. IsFiniteSet(1 .. Len(s))
    BY FS_Interval
  <2> QED
    BY <2>1, FS_Subset, at(s) \subseteq 1 .. Len(s)
<1>2. /\ DOMAIN Append(s, x) = 1 .. (Len(s) + 1) /\ DOMAIN s = 1 .. Len(s) /\ Len(s) \in Nat
      /\ \A i \in 1 .. Len(s) : Append(s, x)[i] = s[i]
      /\ Append(s, x)[Len(s) + 1] = x
  OBVIOUS
<1> HIDE DEF at
<1>5. Count(s, e) = Cardinality(at(s)) /\ Count(Append(s, x), e) = Cardinality(at(Append(s, x)))
  BY DEF Count, at
<1>6. Cardinality(at(s)) \in Nat
  BY <1>1, FS_CardinalityType
<1>3. CASE x = e
  <2>1. at(Append(s, x)) = at(s) \cup {Len(s) + 1}
    BY <1>2, <1>3 DEF at
  <2>2. Len(s) + 1 \notin at(s)
    BY <1>2 DEF at
  <2>3. Cardinality(at(s) \cup {Len(s) + 1}) = Cardinality(at(s)) + 1
    BY <1>1, <2>2, FS_AddElement
  <2> QED
    BY <1>3, <1>5, <2>1, <2>3
<1>4. CASE x # e
  <2>1. at(Append(s, x)) = at(s)
    BY <1>2, <1>4 DEF at
  <2> QED
    BY <1>4, <1>5, <1>6, <2>1
<1> QED
  BY <1>3, <1>4

\* An empty log holds none.
LEMMA CountEmpty == ASSUME NEW e PROVE Count(<<>>, e) = 0
<1>1. {i \in DOMAIN <<>> : <<>>[i] = e} = {}
  OBVIOUS
<1> QED
  BY <1>1, FS_EmptySet DEF Count

-----------------------------------------------------------------------------
(* The stages of each kind of caller.                                      *)

\* The stages a caller of each kind goes through.
LEMMA StagesOf ==
    /\ Stages(Clunk) = {"publishRunning", "spawn", "insert", "start", "done"}
    /\ Stages(Runner) = {"none", "publishExited", "done"} \cup Working
    /\ \A a \in Exiters : Stages(a) = {"idle", "publishExited", "done"}
    /\ \A a \in Writers : Stages(a) = {"idle", "ioEvent", "publishOutput", "done"}
BY CallsAssumption DEF Stages, Clunk, Runner, Exiters, Calls

\* The callers of different kinds differ, from each other and from the events' names.
LEMMA Callers ==
    /\ Clunk # Runner
    /\ \A a \in Calls : a \notin {Clunk, Runner, "running", "exited"}
    /\ Calls = Exiters \cup Writers /\ Exiters \cap Writers = {}
    /\ Appenders = Writers \cup {Runner} /\ Clunk \notin Appenders
    /\ Runner \notin {"running", "exited"}
    /\ "running" \notin Appenders /\ "exited" \notin Appenders
BY CallsAssumption DEF Clunk, Runner, Exiters, Calls, Appenders

\* What is in the history stays there.
LEMMA InHistoryAppend ==
    ASSUME NEW S, history \in Seq(S), NEW x \in S, history' = Append(history, x), NEW e
    PROVE  InHistory(x)' /\ (InHistory(e) => InHistory(e)')
<1>1. /\ DOMAIN history' = 1 .. (Len(history) + 1) /\ DOMAIN history = 1 .. Len(history)
           /\ Len(history) \in Nat
      /\ \A i \in 1 .. Len(history) : history'[i] = history[i]
      /\ history'[Len(history) + 1] = x
  OBVIOUS
<1> QED
  BY <1>1 DEF InHistory

\* What a caller's move to another stage does to the stages.
LEMMA GotoFacts ==
    ASSUME LifeTypeOK, NEW a \in Calls \cup {Clunk, Runner}, NEW stage \in Stages(a),
             Goto(a, stage)
    PROVE  /\ DOMAIN pc' = Calls \cup {Clunk, Runner}
           /\ pc' = [b \in Calls \cup {Clunk, Runner} |-> pc'[b]]
           /\ \A b \in Calls \cup {Clunk, Runner} : pc'[b] \in Stages(b)
           /\ \A b \in Calls \cup {Clunk, Runner} : pc'[b] = IF b = a THEN stage ELSE pc[b]
<1> DEFINE C == Calls \cup {Clunk, Runner}
<1> HIDE DEF C
<1>1. pc = [b \in C |-> pc[b]] /\ DOMAIN pc = C /\ (\A b \in C : pc[b] \in Stages(b)) /\ a \in C
  BY DEF LifeTypeOK, C
<1>2. pc' = [pc EXCEPT ![a] = stage]
  BY DEF Goto
<1>3. pc' = [b \in C |-> IF b = a THEN stage ELSE pc[b]]
  BY <1>1, <1>2
<1>4. \A b \in C : pc'[b] = IF b = a THEN stage ELSE pc[b]
  BY <1>3
<1>5. DOMAIN pc' = C /\ pc' = [b \in C |-> pc'[b]]
  BY <1>3
<1>6. \A b \in C : pc'[b] \in Stages(b)
  BY <1>1, <1>4
<1> QED
  BY <1>4, <1>5, <1>6 DEF C

-----------------------------------------------------------------------------
(* Every step keeps the invariant.                                         *)

\* A process that was just committed satisfies the invariant.
LEMMA LifeInitInv == LifeInit => LifeInv
<1> SUFFICES ASSUME LifeInit PROVE LifeInv
  OBVIOUS
<1>1. /\ pc[Clunk] = "publishRunning" /\ pc[Runner] = "none"
      /\ \A a \in Calls : pc[a] = "idle"
  BY Callers DEF LifeInit
<1>2. LifeTypeOK
  <2>1. DOMAIN pc = Calls \cup {Clunk, Runner}
    /\ pc = [a \in Calls \cup {Clunk, Runner} |-> pc[a]]
    BY DEF LifeInit
  <2>2. \A a \in Calls \cup {Clunk, Runner} : pc[a] \in Stages(a)
    BY <1>1, StagesOf, Callers
  <2>3. /\ history \in Seq(Appenders \cup {"running", "exited"})
        /\ output \in Seq(Appenders) /\ ioEvents \in Seq(Appenders)
    BY DEF LifeInit
  <2>4. /\ status \in {"running", "exited"} /\ task \in {"none", "live"}
        /\ aborted \in BOOLEAN /\ early \in BOOLEAN
             /\ dropped \subseteq Calls \cup {Clunk, Runner}
    BY DEF LifeInit
  <2> QED
    BY <2>1, <2>2, <2>3, <2>4 DEF LifeTypeOK
<1>3. InTurn /\ Announcing /\ Stopping
  BY <1>1 DEF LifeInit, InTurn, Announcing, Stopping, Working
<1>4. Written
  BY <1>1, CountEmpty, Callers DEF LifeInit, Written, Owes
<1> QED
  BY <1>2, <1>3, <1>4 DEF LifeInv

\* The clunk publishes "running".
LEMMA ClunkPublishKeeps ==
    ASSUME LifeInv, NEW hasRunner \in BOOLEAN, ClunkPublish(hasRunner)
    PROVE  LifeInv'
<1>1. LifeTypeOK /\ InTurn /\ Announcing /\ Stopping /\ Written
  BY DEF LifeInv
<1>2. Clunk \in Calls \cup {Clunk, Runner}
  /\ (IF hasRunner THEN "spawn" ELSE "done") \in Stages(Clunk)
       /\ Goto(Clunk, (IF hasRunner THEN "spawn" ELSE "done"))
  BY <1>1, StagesOf, Callers DEF ClunkPublish, Exiters, Appenders, Calls, Working
<1>3. /\ DOMAIN pc' = Calls \cup {Clunk, Runner}
      /\ pc' = [b \in Calls \cup {Clunk, Runner} |-> pc'[b]]
      /\ \A b \in Calls \cup {Clunk, Runner} : pc'[b] \in Stages(b)
      /\ \A b \in Calls \cup {Clunk, Runner} :
           pc'[b] = IF b = Clunk THEN (IF hasRunner THEN "spawn" ELSE "done") ELSE pc[b]
  BY <1>1, <1>2, GotoFacts
<1>9. InHistory("running")' /\ (InHistory("exited") => InHistory("exited")')
  <2> DEFINE S == Appenders \cup {"running", "exited"}
  <2>1. history \in Seq(S) /\ "running" \in S /\ history' = Append(history, "running")
    BY <1>1 DEF ClunkPublish, Publish, LifeTypeOK
  <2> HIDE DEF S
  <2> QED
    BY <2>1, InHistoryAppend
<1>4. LifeTypeOK'
  BY <1>1, <1>3, <1>2, Callers DEF ClunkPublish, LifeTypeOK, Publish, Terminate, Appenders,
    Exiters, Calls
<1>5. InTurn'
  BY <1>1, <1>3, <1>2, StagesOf, Callers DEF ClunkPublish, LifeTypeOK, InTurn, Terminate,
    Working, Exiters, Calls, Appenders
<1>6. Announcing'
  BY <1>9, <1>1, <1>3, <1>2, StagesOf, Callers DEF ClunkPublish, LifeTypeOK, InTurn, Stopping,
    Announcing, Announced, Terminate, Working, Exiters, Calls, Appenders
<1>7. Stopping'
  BY <1>1, <1>3, <1>2, StagesOf, Callers DEF ClunkPublish, LifeTypeOK, InTurn, Stopping,
    Terminate, Working, Exiters, Calls, Appenders
<1>8. Written'
  <2> SUFFICES ASSUME NEW w \in Appenders
               PROVE  /\ Count(history', w) + Owes(w, "publishOutput")' <= Count(ioEvents', w)
                      /\ Count(ioEvents', w) + Owes(w, "ioEvent")' <= Count(output', w)
    BY DEF Written
  <2>1. /\ Count(history, w) \in Nat /\ Count(ioEvents, w) \in Nat /\ Count(output, w) \in Nat
    BY <1>1, CountIsNat DEF LifeTypeOK
  <2>2. /\ Count(history, w) + Owes(w, "publishOutput") <= Count(ioEvents, w)
        /\ Count(ioEvents, w) + Owes(w, "ioEvent") <= Count(output, w)
    BY <1>1 DEF Written
  <2>3. Count(history', w) = Count(history, w) + (IF "running" = w THEN 1 ELSE 0)
    <3> DEFINE S == Appenders \cup {"running", "exited"}
    <3>1. history \in Seq(S) /\ "running" \in S
      BY <1>1, Callers DEF LifeTypeOK, Appenders
    <3>2. history' = Append(history, "running")
      BY DEF ClunkPublish, Publish
    <3> HIDE DEF S
    <3> QED
      BY <3>1, <3>2, CountAppend
  <2> QED
    BY <1>2, <1>3, <2>1, <2>2, <2>3, Callers DEF ClunkPublish, Owes, Publish, Terminate,
      Appenders, Calls, Exiters
<1> QED
  BY <1>4, <1>5, <1>6, <1>7, <1>8 DEF LifeInv

\* It spawns the runner task.
LEMMA ClunkSpawnKeeps ==
    ASSUME LifeInv, ClunkSpawn
    PROVE  LifeInv'
<1>1. LifeTypeOK /\ InTurn /\ Announcing /\ Stopping /\ Written
  BY DEF LifeInv
<1>2. pc[Runner] = "none" /\ pc[Clunk] = "spawn"
  BY <1>1 DEF ClunkSpawn, InTurn
<1>3. /\ DOMAIN pc' = Calls \cup {Clunk, Runner}
      /\ pc' = [b \in Calls \cup {Clunk, Runner} |-> pc'[b]]
      /\ \A b \in Calls \cup {Clunk, Runner} : pc'[b] \in Stages(b)
      /\ pc'[Clunk] = "insert" /\ pc'[Runner] = "wait"
      /\ \A b \in Calls : pc'[b] = pc[b]
  BY <1>1, <1>2, StagesOf, Callers DEF ClunkSpawn, LifeTypeOK, Working
<1>4. LifeTypeOK'
  BY <1>1, <1>3, <1>2, Callers DEF ClunkSpawn, LifeTypeOK, Publish, Terminate, Appenders,
    Exiters, Calls
<1>5. InTurn'
  BY <1>1, <1>3, <1>2, StagesOf, Callers DEF ClunkSpawn, LifeTypeOK, InTurn, Terminate,
    Working, Exiters, Calls, Appenders
<1>6. Announcing'
  BY <1>1, <1>3, <1>2, StagesOf, Callers DEF ClunkSpawn, LifeTypeOK, InTurn, Stopping,
    Announcing, Announced, InHistory, Terminate, Working, Exiters, Calls, Appenders
<1>7. Stopping'
  BY <1>1, <1>3, <1>2, StagesOf, Callers DEF ClunkSpawn, LifeTypeOK, InTurn, Stopping,
    Terminate, Working, Exiters, Calls, Appenders
<1>8. Written'
  <2> SUFFICES ASSUME NEW w \in Appenders
               PROVE  /\ Count(history', w) + Owes(w, "publishOutput")' <= Count(ioEvents', w)
                      /\ Count(ioEvents', w) + Owes(w, "ioEvent")' <= Count(output', w)
    BY DEF Written
  <2>1. /\ Count(history, w) \in Nat /\ Count(ioEvents, w) \in Nat /\ Count(output, w) \in Nat
    BY <1>1, CountIsNat DEF LifeTypeOK
  <2>2. /\ Count(history, w) + Owes(w, "publishOutput") <= Count(ioEvents, w)
        /\ Count(ioEvents, w) + Owes(w, "ioEvent") <= Count(output, w)
    BY <1>1 DEF Written
  <2> QED
    BY <1>2, <1>3, <2>1, <2>2, Callers DEF ClunkSpawn, Owes, Publish, Terminate, Appenders,
      Calls, Exiters
<1> QED
  BY <1>4, <1>5, <1>6, <1>7, <1>8 DEF LifeInv

\* It registers the task.
LEMMA ClunkInsertKeeps ==
    ASSUME LifeInv, ClunkInsert
    PROVE  LifeInv'
<1>1. LifeTypeOK /\ InTurn /\ Announcing /\ Stopping /\ Written
  BY DEF LifeInv
<1>2. Clunk \in Calls \cup {Clunk, Runner} /\ "start" \in Stages(Clunk) /\ Goto(Clunk, "start")
  BY <1>1, StagesOf, Callers DEF ClunkInsert, Exiters, Appenders, Calls, Working
<1>3. /\ DOMAIN pc' = Calls \cup {Clunk, Runner}
      /\ pc' = [b \in Calls \cup {Clunk, Runner} |-> pc'[b]]
      /\ \A b \in Calls \cup {Clunk, Runner} : pc'[b] \in Stages(b)
      /\ \A b \in Calls \cup {Clunk, Runner} : pc'[b] = IF b = Clunk THEN "start" ELSE pc[b]
  BY <1>1, <1>2, GotoFacts
<1>4. LifeTypeOK'
  BY <1>1, <1>3, <1>2, Callers DEF ClunkInsert, LifeTypeOK, Publish, Terminate, Appenders,
    Exiters, Calls
<1>5. InTurn'
  BY <1>1, <1>3, <1>2, StagesOf, Callers DEF ClunkInsert, LifeTypeOK, InTurn, Terminate,
    Working, Exiters, Calls, Appenders
<1>6. Announcing'
  BY <1>1, <1>3, <1>2, StagesOf, Callers DEF ClunkInsert, LifeTypeOK, InTurn, Stopping,
    Announcing, Announced, InHistory, Terminate, Working, Exiters, Calls, Appenders
<1>7. Stopping'
  BY <1>1, <1>3, <1>2, StagesOf, Callers DEF ClunkInsert, LifeTypeOK, InTurn, Stopping,
    Terminate, Working, Exiters, Calls, Appenders
<1>8. Written'
  <2> SUFFICES ASSUME NEW w \in Appenders
               PROVE  /\ Count(history', w) + Owes(w, "publishOutput")' <= Count(ioEvents', w)
                      /\ Count(ioEvents', w) + Owes(w, "ioEvent")' <= Count(output', w)
    BY DEF Written
  <2>1. /\ Count(history, w) \in Nat /\ Count(ioEvents, w) \in Nat /\ Count(output, w) \in Nat
    BY <1>1, CountIsNat DEF LifeTypeOK
  <2>2. /\ Count(history, w) + Owes(w, "publishOutput") <= Count(ioEvents, w)
        /\ Count(ioEvents, w) + Owes(w, "ioEvent") <= Count(output, w)
    BY <1>1 DEF Written
  <2> QED
    BY <1>2, <1>3, <2>1, <2>2, Callers DEF ClunkInsert, Owes, Publish, Terminate, Appenders,
      Calls, Exiters
<1> QED
  BY <1>4, <1>5, <1>6, <1>7, <1>8 DEF LifeInv

\* It opens the start gate.
LEMMA ClunkStartKeeps ==
    ASSUME LifeInv, ClunkStart
    PROVE  LifeInv'
<1>1. LifeTypeOK /\ InTurn /\ Announcing /\ Stopping /\ Written
  BY DEF LifeInv
<1>2. pc[Clunk] = "start"
  BY <1>1 DEF ClunkStart
<1>3. /\ DOMAIN pc' = Calls \cup {Clunk, Runner}
      /\ pc' = [b \in Calls \cup {Clunk, Runner} |-> pc'[b]]
      /\ \A b \in Calls \cup {Clunk, Runner} : pc'[b] \in Stages(b)
      /\ pc'[Clunk] = "done" /\ pc'[Runner] = (IF pc[Runner] = "wait" THEN "run" ELSE pc[Runner])
      /\ \A b \in Calls : pc'[b] = pc[b]
  BY <1>1, <1>2, StagesOf, Callers DEF ClunkStart, LifeTypeOK, Working
<1>4. LifeTypeOK'
  BY <1>1, <1>3, <1>2, Callers DEF ClunkStart, LifeTypeOK, Publish, Terminate, Appenders,
    Exiters, Calls
<1>5. InTurn'
  BY <1>1, <1>3, <1>2, StagesOf, Callers DEF ClunkStart, LifeTypeOK, InTurn, Terminate,
    Working, Exiters, Calls, Appenders
<1>6. Announcing'
  BY <1>1, <1>3, <1>2, StagesOf, Callers DEF ClunkStart, LifeTypeOK, InTurn, Stopping,
    Announcing, Announced, InHistory, Terminate, Working, Exiters, Calls, Appenders
<1>7. Stopping'
  BY <1>1, <1>3, <1>2, StagesOf, Callers DEF ClunkStart, LifeTypeOK, InTurn, Stopping,
    Terminate, Working, Exiters, Calls, Appenders
<1>8. Written'
  <2> SUFFICES ASSUME NEW w \in Appenders
               PROVE  /\ Count(history', w) + Owes(w, "publishOutput")' <= Count(ioEvents', w)
                      /\ Count(ioEvents', w) + Owes(w, "ioEvent")' <= Count(output', w)
    BY DEF Written
  <2>1. /\ Count(history, w) \in Nat /\ Count(ioEvents, w) \in Nat /\ Count(output, w) \in Nat
    BY <1>1, CountIsNat DEF LifeTypeOK
  <2>2. /\ Count(history, w) + Owes(w, "publishOutput") <= Count(ioEvents, w)
        /\ Count(ioEvents, w) + Owes(w, "ioEvent") <= Count(output, w)
    BY <1>1 DEF Written
  <2> QED
    BY <1>2, <1>3, <2>1, <2>2, Callers DEF ClunkStart, Owes, Publish, Terminate, Appenders,
      Calls, Exiters
<1> QED
  BY <1>4, <1>5, <1>6, <1>7, <1>8 DEF LifeInv

\* The gate opens by itself when the clunk was dropped.
LEMMA RunnerUnheldKeeps ==
    ASSUME LifeInv, RunnerUnheld
    PROVE  LifeInv'
<1>1. LifeTypeOK /\ InTurn /\ Announcing /\ Stopping /\ Written
  BY DEF LifeInv
<1>2. Runner \in Calls \cup {Clunk, Runner} /\ "run" \in Stages(Runner) /\ Goto(Runner, "run")
  BY <1>1, StagesOf, Callers DEF RunnerUnheld, Exiters, Appenders, Calls, Working
<1>3. /\ DOMAIN pc' = Calls \cup {Clunk, Runner}
      /\ pc' = [b \in Calls \cup {Clunk, Runner} |-> pc'[b]]
      /\ \A b \in Calls \cup {Clunk, Runner} : pc'[b] \in Stages(b)
      /\ \A b \in Calls \cup {Clunk, Runner} : pc'[b] = IF b = Runner THEN "run" ELSE pc[b]
  BY <1>1, <1>2, GotoFacts
<1>4. LifeTypeOK'
  BY <1>1, <1>3, <1>2, Callers DEF RunnerUnheld, LifeTypeOK, Publish, Terminate, Appenders,
    Exiters, Calls
<1>5. InTurn'
  BY <1>1, <1>3, <1>2, StagesOf, Callers DEF RunnerUnheld, LifeTypeOK, InTurn, Terminate,
    Working, Exiters, Calls, Appenders
<1>6. Announcing'
  BY <1>1, <1>3, <1>2, StagesOf, Callers DEF RunnerUnheld, LifeTypeOK, InTurn, Stopping,
    Announcing, Announced, InHistory, Terminate, Working, Exiters, Calls, Appenders
<1>7. Stopping'
  BY <1>1, <1>3, <1>2, StagesOf, Callers DEF RunnerUnheld, LifeTypeOK, InTurn, Stopping,
    Terminate, Working, Exiters, Calls, Appenders
<1>8. Written'
  <2> SUFFICES ASSUME NEW w \in Appenders
               PROVE  /\ Count(history', w) + Owes(w, "publishOutput")' <= Count(ioEvents', w)
                      /\ Count(ioEvents', w) + Owes(w, "ioEvent")' <= Count(output', w)
    BY DEF Written
  <2>1. /\ Count(history, w) \in Nat /\ Count(ioEvents, w) \in Nat /\ Count(output, w) \in Nat
    BY <1>1, CountIsNat DEF LifeTypeOK
  <2>2. /\ Count(history, w) + Owes(w, "publishOutput") <= Count(ioEvents, w)
        /\ Count(ioEvents, w) + Owes(w, "ioEvent") <= Count(output, w)
    BY <1>1 DEF Written
  <2> QED
    BY <1>2, <1>3, <2>1, <2>2, Callers DEF RunnerUnheld, Owes, Publish, Terminate, Appenders,
      Calls, Exiters
<1> QED
  BY <1>4, <1>5, <1>6, <1>7, <1>8 DEF LifeInv

\* The runner returns.
LEMMA RunnerRunKeeps ==
    ASSUME LifeInv, NEW hasOutput \in BOOLEAN, RunnerRun(hasOutput)
    PROVE  LifeInv'
<1>1. LifeTypeOK /\ InTurn /\ Announcing /\ Stopping /\ Written
  BY DEF LifeInv
<1>2. Runner \in Calls \cup {Clunk, Runner}
  /\ (IF hasOutput THEN "ioEvent" ELSE "exit") \in Stages(Runner)
       /\ Goto(Runner, (IF hasOutput THEN "ioEvent" ELSE "exit"))
  BY <1>1, StagesOf, Callers DEF RunnerRun, Exiters, Appenders, Calls, Working
<1>3. /\ DOMAIN pc' = Calls \cup {Clunk, Runner}
      /\ pc' = [b \in Calls \cup {Clunk, Runner} |-> pc'[b]]
      /\ \A b \in Calls \cup {Clunk, Runner} : pc'[b] \in Stages(b)
      /\ \A b \in Calls \cup {Clunk, Runner} :
           pc'[b] = IF b = Runner THEN (IF hasOutput THEN "ioEvent" ELSE "exit") ELSE pc[b]
  BY <1>1, <1>2, GotoFacts
<1>4. LifeTypeOK'
  BY <1>1, <1>3, <1>2, Callers DEF RunnerRun, LifeTypeOK, Publish, Terminate, Appenders,
    Exiters, Calls
<1>5. InTurn'
  BY <1>1, <1>3, <1>2, StagesOf, Callers DEF RunnerRun, LifeTypeOK, InTurn, Terminate, Working,
    Exiters, Calls, Appenders
<1>6. Announcing'
  BY <1>1, <1>3, <1>2, StagesOf, Callers DEF RunnerRun, LifeTypeOK, InTurn, Stopping,
    Announcing, Announced, InHistory, Terminate, Working, Exiters, Calls, Appenders
<1>7. Stopping'
  BY <1>1, <1>3, <1>2, StagesOf, Callers DEF RunnerRun, LifeTypeOK, InTurn, Stopping,
    Terminate, Working, Exiters, Calls, Appenders
<1>8. Written'
  <2> SUFFICES ASSUME NEW w \in Appenders
               PROVE  /\ Count(history', w) + Owes(w, "publishOutput")' <= Count(ioEvents', w)
                      /\ Count(ioEvents', w) + Owes(w, "ioEvent")' <= Count(output', w)
    BY DEF Written
  <2>1. /\ Count(history, w) \in Nat /\ Count(ioEvents, w) \in Nat /\ Count(output, w) \in Nat
    BY <1>1, CountIsNat DEF LifeTypeOK
  <2>2. /\ Count(history, w) + Owes(w, "publishOutput") <= Count(ioEvents, w)
        /\ Count(ioEvents, w) + Owes(w, "ioEvent") <= Count(output, w)
    BY <1>1 DEF Written
  <2>3. Count(output', w) = Count(output, w) + (IF Runner = w /\ hasOutput THEN 1 ELSE 0)
    <3> DEFINE S == Appenders
    <3>1. output \in Seq(S) /\ Runner \in S
      BY <1>1, Callers DEF LifeTypeOK, Appenders
    <3>2. output' = IF hasOutput THEN Append(output, Runner) ELSE output
      BY DEF RunnerRun, Publish
    <3> HIDE DEF S
    <3> QED
      BY <3>1, <3>2, <2>1, CountAppend
  <2> QED
    BY <1>2, <1>3, <2>1, <2>2, <2>3, Callers DEF RunnerRun, Owes, Publish, Terminate,
      Appenders, Calls, Exiters
<1> QED
  BY <1>4, <1>5, <1>6, <1>7, <1>8 DEF LifeInv

\* It deregisters and exits the table.
LEMMA RunnerExitKeeps ==
    ASSUME LifeInv, NEW c \in ExitCodes, RunnerExit(c)
    PROVE  LifeInv'
<1>1. LifeTypeOK /\ InTurn /\ Announcing /\ Stopping /\ Written
  BY DEF LifeInv
<1>2. Runner \in Calls \cup {Clunk, Runner} /\ "publishExited" \in Stages(Runner)
  /\ Goto(Runner, "publishExited")
  BY <1>1, StagesOf, Callers DEF RunnerExit, Exiters, Appenders, Calls, Working
<1>3. /\ DOMAIN pc' = Calls \cup {Clunk, Runner}
      /\ pc' = [b \in Calls \cup {Clunk, Runner} |-> pc'[b]]
      /\ \A b \in Calls \cup {Clunk, Runner} : pc'[b] \in Stages(b)
      /\ \A b \in Calls \cup {Clunk, Runner} :
           pc'[b] = IF b = Runner THEN "publishExited" ELSE pc[b]
  BY <1>1, <1>2, GotoFacts
<1>4. LifeTypeOK'
  BY <1>1, <1>3, <1>2, Callers DEF RunnerExit, LifeTypeOK, Publish, Terminate, Appenders,
    Exiters, Calls
<1>5. InTurn'
  BY <1>1, <1>3, <1>2, StagesOf, Callers DEF RunnerExit, LifeTypeOK, InTurn, Terminate,
    Working, Exiters, Calls, Appenders
<1>6. Announcing'
  BY <1>1, <1>3, <1>2, StagesOf, Callers DEF RunnerExit, LifeTypeOK, InTurn, Stopping,
    Announcing, Announced, InHistory, Terminate, Working, Exiters, Calls, Appenders
<1>7. Stopping'
  BY <1>1, <1>3, <1>2, StagesOf, Callers DEF RunnerExit, LifeTypeOK, InTurn, Stopping,
    Terminate, Working, Exiters, Calls, Appenders
<1>8. Written'
  <2> SUFFICES ASSUME NEW w \in Appenders
               PROVE  /\ Count(history', w) + Owes(w, "publishOutput")' <= Count(ioEvents', w)
                      /\ Count(ioEvents', w) + Owes(w, "ioEvent")' <= Count(output', w)
    BY DEF Written
  <2>1. /\ Count(history, w) \in Nat /\ Count(ioEvents, w) \in Nat /\ Count(output, w) \in Nat
    BY <1>1, CountIsNat DEF LifeTypeOK
  <2>2. /\ Count(history, w) + Owes(w, "publishOutput") <= Count(ioEvents, w)
        /\ Count(ioEvents, w) + Owes(w, "ioEvent") <= Count(output, w)
    BY <1>1 DEF Written
  <2> QED
    BY <1>2, <1>3, <2>1, <2>2, Callers DEF RunnerExit, Owes, Publish, Terminate, Appenders,
      Calls, Exiters
<1> QED
  BY <1>4, <1>5, <1>6, <1>7, <1>8 DEF LifeInv

\* A ctl write cancels the process.
LEMMA WriteKillKeeps ==
    ASSUME LifeInv, NEW a \in Ctls, WriteKill(a)
    PROVE  LifeInv'
<1>1. LifeTypeOK /\ InTurn /\ Announcing /\ Stopping /\ Written
  BY DEF LifeInv
<1>2. a \in Calls \cup {Clunk, Runner} /\ "publishExited" \in Stages(a)
  /\ Goto(a, "publishExited")
  BY <1>1, StagesOf, Callers DEF WriteKill, Exiters, Appenders, Calls, Working
<1>3. /\ DOMAIN pc' = Calls \cup {Clunk, Runner}
      /\ pc' = [b \in Calls \cup {Clunk, Runner} |-> pc'[b]]
      /\ \A b \in Calls \cup {Clunk, Runner} : pc'[b] \in Stages(b)
      /\ \A b \in Calls \cup {Clunk, Runner} : pc'[b] = IF b = a THEN "publishExited" ELSE pc[b]
  BY <1>1, <1>2, GotoFacts
<1>4. LifeTypeOK'
  BY <1>1, <1>3, <1>2, Callers DEF WriteKill, LifeTypeOK, Publish, Terminate, Appenders,
    Exiters, Calls
<1>5. InTurn'
  BY <1>1, <1>3, <1>2, StagesOf, Callers DEF WriteKill, LifeTypeOK, InTurn, Terminate, Working,
    Exiters, Calls, Appenders
<1>6. Announcing'
  BY <1>1, <1>3, <1>2, StagesOf, Callers DEF WriteKill, LifeTypeOK, InTurn, Stopping,
    Announcing, Announced, InHistory, Terminate, Working, Exiters, Calls, Appenders
<1>7. Stopping'
  BY <1>1, <1>3, <1>2, StagesOf, Callers DEF WriteKill, LifeTypeOK, InTurn, Stopping,
    Terminate, Working, Exiters, Calls, Appenders
<1>8. Written'
  <2> SUFFICES ASSUME NEW w \in Appenders
               PROVE  /\ Count(history', w) + Owes(w, "publishOutput")' <= Count(ioEvents', w)
                      /\ Count(ioEvents', w) + Owes(w, "ioEvent")' <= Count(output', w)
    BY DEF Written
  <2>1. /\ Count(history, w) \in Nat /\ Count(ioEvents, w) \in Nat /\ Count(output, w) \in Nat
    BY <1>1, CountIsNat DEF LifeTypeOK
  <2>2. /\ Count(history, w) + Owes(w, "publishOutput") <= Count(ioEvents, w)
        /\ Count(ioEvents, w) + Owes(w, "ioEvent") <= Count(output, w)
    BY <1>1 DEF Written
  <2> QED
    BY <1>2, <1>3, <2>1, <2>2, Callers DEF WriteKill, Owes, Publish, Terminate, Appenders,
      Calls, Exiters
<1> QED
  BY <1>4, <1>5, <1>6, <1>7, <1>8 DEF LifeInv

\* A host reports the exit.
LEMMA RecordExitKeeps ==
    ASSUME LifeInv, NEW a \in Hosts, NEW c \in ExitCodes, RecordExitOf(a, c)
    PROVE  LifeInv'
<1>1. LifeTypeOK /\ InTurn /\ Announcing /\ Stopping /\ Written
  BY DEF LifeInv
<1>2. a \in Calls \cup {Clunk, Runner}
  /\ (IF status = "running" THEN "publishExited" ELSE "done") \in Stages(a)
       /\ Goto(a, (IF status = "running" THEN "publishExited" ELSE "done"))
  BY <1>1, StagesOf, Callers DEF RecordExitOf, Exiters, Appenders, Calls, Working
<1>3. /\ DOMAIN pc' = Calls \cup {Clunk, Runner}
      /\ pc' = [b \in Calls \cup {Clunk, Runner} |-> pc'[b]]
      /\ \A b \in Calls \cup {Clunk, Runner} : pc'[b] \in Stages(b)
      /\ \A b \in Calls \cup {Clunk, Runner} :
           pc'[b] = IF b = a THEN (IF status = "running" THEN "publishExited" ELSE "done")
                    ELSE pc[b]
  BY <1>1, <1>2, GotoFacts
<1>4. LifeTypeOK'
  BY <1>1, <1>3, <1>2, Callers DEF RecordExitOf, LifeTypeOK, Publish, Terminate, Appenders,
    Exiters, Calls
<1>5. InTurn'
  BY <1>1, <1>3, <1>2, StagesOf, Callers DEF RecordExitOf, LifeTypeOK, InTurn, Terminate,
    Working, Exiters, Calls, Appenders
<1>6. Announcing'
  BY <1>1, <1>3, <1>2, StagesOf, Callers DEF RecordExitOf, LifeTypeOK, InTurn, Stopping,
    Announcing, Announced, InHistory, Terminate, Working, Exiters, Calls, Appenders
<1>7. Stopping'
  BY <1>1, <1>3, <1>2, StagesOf, Callers DEF RecordExitOf, LifeTypeOK, InTurn, Stopping,
    Terminate, Working, Exiters, Calls, Appenders
<1>8. Written'
  <2> SUFFICES ASSUME NEW w \in Appenders
               PROVE  /\ Count(history', w) + Owes(w, "publishOutput")' <= Count(ioEvents', w)
                      /\ Count(ioEvents', w) + Owes(w, "ioEvent")' <= Count(output', w)
    BY DEF Written
  <2>1. /\ Count(history, w) \in Nat /\ Count(ioEvents, w) \in Nat /\ Count(output, w) \in Nat
    BY <1>1, CountIsNat DEF LifeTypeOK
  <2>2. /\ Count(history, w) + Owes(w, "publishOutput") <= Count(ioEvents, w)
        /\ Count(ioEvents, w) + Owes(w, "ioEvent") <= Count(output, w)
    BY <1>1 DEF Written
  <2> QED
    BY <1>2, <1>3, <2>1, <2>2, Callers DEF RecordExitOf, Owes, Publish, Terminate, Appenders,
      Calls, Exiters
<1> QED
  BY <1>4, <1>5, <1>6, <1>7, <1>8 DEF LifeInv

\* The exit is announced.
LEMMA PublishExitedKeeps ==
    ASSUME LifeInv, NEW a \in Exiters \cup {Runner}, PublishExited(a)
    PROVE  LifeInv'
<1>1. LifeTypeOK /\ InTurn /\ Announcing /\ Stopping /\ Written
  BY DEF LifeInv
<1>2. a \in Calls \cup {Clunk, Runner} /\ "done" \in Stages(a) /\ Goto(a, "done")
  BY <1>1, StagesOf, Callers DEF PublishExited, Exiters, Appenders, Calls, Working
<1>3. /\ DOMAIN pc' = Calls \cup {Clunk, Runner}
      /\ pc' = [b \in Calls \cup {Clunk, Runner} |-> pc'[b]]
      /\ \A b \in Calls \cup {Clunk, Runner} : pc'[b] \in Stages(b)
      /\ \A b \in Calls \cup {Clunk, Runner} : pc'[b] = IF b = a THEN "done" ELSE pc[b]
  BY <1>1, <1>2, GotoFacts
<1>9. InHistory("exited")' /\ (InHistory("exited") => InHistory("exited")')
  <2> DEFINE S == Appenders \cup {"running", "exited"}
  <2>1. history \in Seq(S) /\ "exited" \in S /\ history' = Append(history, "exited")
    BY <1>1 DEF PublishExited, Publish, LifeTypeOK
  <2> HIDE DEF S
  <2> QED
    BY <2>1, InHistoryAppend
<1>4. LifeTypeOK'
  BY <1>1, <1>3, <1>2, Callers DEF PublishExited, LifeTypeOK, Publish, Terminate, Appenders,
    Exiters, Calls
<1>5. InTurn'
  BY <1>1, <1>3, <1>2, StagesOf, Callers DEF PublishExited, LifeTypeOK, InTurn, Terminate,
    Working, Exiters, Calls, Appenders
<1>6. Announcing'
  BY <1>9, <1>1, <1>3, <1>2, StagesOf, Callers DEF PublishExited, LifeTypeOK, InTurn, Stopping,
    Announcing, Announced, Terminate, Working, Exiters, Calls, Appenders
<1>7. Stopping'
  BY <1>1, <1>3, <1>2, StagesOf, Callers DEF PublishExited, LifeTypeOK, InTurn, Stopping,
    Terminate, Working, Exiters, Calls, Appenders
<1>8. Written'
  <2> SUFFICES ASSUME NEW w \in Appenders
               PROVE  /\ Count(history', w) + Owes(w, "publishOutput")' <= Count(ioEvents', w)
                      /\ Count(ioEvents', w) + Owes(w, "ioEvent")' <= Count(output', w)
    BY DEF Written
  <2>1. /\ Count(history, w) \in Nat /\ Count(ioEvents, w) \in Nat /\ Count(output, w) \in Nat
    BY <1>1, CountIsNat DEF LifeTypeOK
  <2>2. /\ Count(history, w) + Owes(w, "publishOutput") <= Count(ioEvents, w)
        /\ Count(ioEvents, w) + Owes(w, "ioEvent") <= Count(output, w)
    BY <1>1 DEF Written
  <2>3. Count(history', w) = Count(history, w) + (IF "exited" = w THEN 1 ELSE 0)
    <3> DEFINE S == Appenders \cup {"running", "exited"}
    <3>1. history \in Seq(S) /\ "exited" \in S
      BY <1>1, Callers DEF LifeTypeOK, Appenders
    <3>2. history' = Append(history, "exited")
      BY DEF PublishExited, Publish
    <3> HIDE DEF S
    <3> QED
      BY <3>1, <3>2, CountAppend
  <2> QED
    BY <1>2, <1>3, <2>1, <2>2, <2>3, Callers DEF PublishExited, Owes, Publish, Terminate,
      Appenders, Calls, Exiters
<1> QED
  BY <1>4, <1>5, <1>6, <1>7, <1>8 DEF LifeInv

\* Bytes are appended.
LEMMA WriteOutputKeeps ==
    ASSUME LifeInv, NEW a \in Writers, WriteOutput(a)
    PROVE  LifeInv'
<1>1. LifeTypeOK /\ InTurn /\ Announcing /\ Stopping /\ Written
  BY DEF LifeInv
<1>2. a \in Calls \cup {Clunk, Runner} /\ "ioEvent" \in Stages(a) /\ Goto(a, "ioEvent")
  BY <1>1, StagesOf, Callers DEF WriteOutput, Exiters, Appenders, Calls, Working
<1>3. /\ DOMAIN pc' = Calls \cup {Clunk, Runner}
      /\ pc' = [b \in Calls \cup {Clunk, Runner} |-> pc'[b]]
      /\ \A b \in Calls \cup {Clunk, Runner} : pc'[b] \in Stages(b)
      /\ \A b \in Calls \cup {Clunk, Runner} : pc'[b] = IF b = a THEN "ioEvent" ELSE pc[b]
  BY <1>1, <1>2, GotoFacts
<1>4. LifeTypeOK'
  BY <1>1, <1>3, <1>2, Callers DEF WriteOutput, LifeTypeOK, Publish, Terminate, Appenders,
    Exiters, Calls
<1>5. InTurn'
  BY <1>1, <1>3, <1>2, StagesOf, Callers DEF WriteOutput, LifeTypeOK, InTurn, Terminate,
    Working, Exiters, Calls, Appenders
<1>6. Announcing'
  BY <1>1, <1>3, <1>2, StagesOf, Callers DEF WriteOutput, LifeTypeOK, InTurn, Stopping,
    Announcing, Announced, InHistory, Terminate, Working, Exiters, Calls, Appenders
<1>7. Stopping'
  BY <1>1, <1>3, <1>2, StagesOf, Callers DEF WriteOutput, LifeTypeOK, InTurn, Stopping,
    Terminate, Working, Exiters, Calls, Appenders
<1>8. Written'
  <2> SUFFICES ASSUME NEW w \in Appenders
               PROVE  /\ Count(history', w) + Owes(w, "publishOutput")' <= Count(ioEvents', w)
                      /\ Count(ioEvents', w) + Owes(w, "ioEvent")' <= Count(output', w)
    BY DEF Written
  <2>1. /\ Count(history, w) \in Nat /\ Count(ioEvents, w) \in Nat /\ Count(output, w) \in Nat
    BY <1>1, CountIsNat DEF LifeTypeOK
  <2>2. /\ Count(history, w) + Owes(w, "publishOutput") <= Count(ioEvents, w)
        /\ Count(ioEvents, w) + Owes(w, "ioEvent") <= Count(output, w)
    BY <1>1 DEF Written
  <2>3. Count(output', w) = Count(output, w) + (IF a = w THEN 1 ELSE 0)
    <3> DEFINE S == Appenders
    <3>1. output \in Seq(S) /\ a \in S
      BY <1>1, Callers DEF LifeTypeOK, Appenders
    <3>2. output' = Append(output, a)
      BY DEF WriteOutput, Publish
    <3> HIDE DEF S
    <3> QED
      BY <3>1, <3>2, CountAppend
  <2> QED
    BY <1>2, <1>3, <2>1, <2>2, <2>3, Callers DEF WriteOutput, Owes, Publish, Terminate,
      Appenders, Calls, Exiters
<1> QED
  BY <1>4, <1>5, <1>6, <1>7, <1>8 DEF LifeInv

\* Their record is appended.
LEMMA AppendIoEventKeeps ==
    ASSUME LifeInv, NEW a \in Appenders, AppendIoEvent(a)
    PROVE  LifeInv'
<1>1. LifeTypeOK /\ InTurn /\ Announcing /\ Stopping /\ Written
  BY DEF LifeInv
<1>2. a \in Calls \cup {Clunk, Runner} /\ "publishOutput" \in Stages(a)
  /\ Goto(a, "publishOutput")
  BY <1>1, StagesOf, Callers DEF AppendIoEvent, Exiters, Appenders, Calls, Working
<1>3. /\ DOMAIN pc' = Calls \cup {Clunk, Runner}
      /\ pc' = [b \in Calls \cup {Clunk, Runner} |-> pc'[b]]
      /\ \A b \in Calls \cup {Clunk, Runner} : pc'[b] \in Stages(b)
      /\ \A b \in Calls \cup {Clunk, Runner} : pc'[b] = IF b = a THEN "publishOutput" ELSE pc[b]
  BY <1>1, <1>2, GotoFacts
<1>4. LifeTypeOK'
  BY <1>1, <1>3, <1>2, Callers DEF AppendIoEvent, LifeTypeOK, Publish, Terminate, Appenders,
    Exiters, Calls
<1>5. InTurn'
  BY <1>1, <1>3, <1>2, StagesOf, Callers DEF AppendIoEvent, LifeTypeOK, InTurn, Terminate,
    Working, Exiters, Calls, Appenders
<1>6. Announcing'
  BY <1>1, <1>3, <1>2, StagesOf, Callers DEF AppendIoEvent, LifeTypeOK, InTurn, Stopping,
    Announcing, Announced, InHistory, Terminate, Working, Exiters, Calls, Appenders
<1>7. Stopping'
  BY <1>1, <1>3, <1>2, StagesOf, Callers DEF AppendIoEvent, LifeTypeOK, InTurn, Stopping,
    Terminate, Working, Exiters, Calls, Appenders
<1>8. Written'
  <2> SUFFICES ASSUME NEW w \in Appenders
               PROVE  /\ Count(history', w) + Owes(w, "publishOutput")' <= Count(ioEvents', w)
                      /\ Count(ioEvents', w) + Owes(w, "ioEvent")' <= Count(output', w)
    BY DEF Written
  <2>1. /\ Count(history, w) \in Nat /\ Count(ioEvents, w) \in Nat /\ Count(output, w) \in Nat
    BY <1>1, CountIsNat DEF LifeTypeOK
  <2>2. /\ Count(history, w) + Owes(w, "publishOutput") <= Count(ioEvents, w)
        /\ Count(ioEvents, w) + Owes(w, "ioEvent") <= Count(output, w)
    BY <1>1 DEF Written
  <2>3. Count(ioEvents', w) = Count(ioEvents, w) + (IF a = w THEN 1 ELSE 0)
    <3> DEFINE S == Appenders
    <3>1. ioEvents \in Seq(S) /\ a \in S
      BY <1>1, Callers DEF LifeTypeOK, Appenders
    <3>2. ioEvents' = Append(ioEvents, a)
      BY DEF AppendIoEvent, Publish
    <3> HIDE DEF S
    <3> QED
      BY <3>1, <3>2, CountAppend
  <2> QED
    BY <1>2, <1>3, <2>1, <2>2, <2>3, Callers DEF AppendIoEvent, Owes, Publish, Terminate,
      Appenders, Calls, Exiters
<1> QED
  BY <1>4, <1>5, <1>6, <1>7, <1>8 DEF LifeInv

\* Their event is published.
LEMMA PublishOutputKeeps ==
    ASSUME LifeInv, NEW a \in Appenders, PublishOutput(a)
    PROVE  LifeInv'
<1>1. LifeTypeOK /\ InTurn /\ Announcing /\ Stopping /\ Written
  BY DEF LifeInv
<1>2. a \in Calls \cup {Clunk, Runner}
  /\ (IF a = Runner THEN "exit" ELSE "done") \in Stages(a)
       /\ Goto(a, (IF a = Runner THEN "exit" ELSE "done"))
  BY <1>1, StagesOf, Callers DEF PublishOutput, Exiters, Appenders, Calls, Working
<1>3. /\ DOMAIN pc' = Calls \cup {Clunk, Runner}
      /\ pc' = [b \in Calls \cup {Clunk, Runner} |-> pc'[b]]
      /\ \A b \in Calls \cup {Clunk, Runner} : pc'[b] \in Stages(b)
      /\ \A b \in Calls \cup {Clunk, Runner} :
           pc'[b] = IF b = a THEN (IF a = Runner THEN "exit" ELSE "done") ELSE pc[b]
  BY <1>1, <1>2, GotoFacts
<1>9. InHistory(a)' /\ (InHistory("exited") => InHistory("exited")')
  <2> DEFINE S == Appenders \cup {"running", "exited"}
  <2>1. history \in Seq(S) /\ a \in S /\ history' = Append(history, a)
    BY <1>1 DEF PublishOutput, Publish, LifeTypeOK
  <2> HIDE DEF S
  <2> QED
    BY <2>1, InHistoryAppend
<1>4. LifeTypeOK'
  BY <1>1, <1>3, <1>2, Callers DEF PublishOutput, LifeTypeOK, Publish, Terminate, Appenders,
    Exiters, Calls
<1>5. InTurn'
  BY <1>1, <1>3, <1>2, StagesOf, Callers DEF PublishOutput, LifeTypeOK, InTurn, Terminate,
    Working, Exiters, Calls, Appenders
<1>6. Announcing'
  BY <1>9, <1>1, <1>3, <1>2, StagesOf, Callers DEF PublishOutput, LifeTypeOK, InTurn, Stopping,
    Announcing, Announced, Terminate, Working, Exiters, Calls, Appenders
<1>7. Stopping'
  BY <1>1, <1>3, <1>2, StagesOf, Callers DEF PublishOutput, LifeTypeOK, InTurn, Stopping,
    Terminate, Working, Exiters, Calls, Appenders
<1>8. Written'
  <2> SUFFICES ASSUME NEW w \in Appenders
               PROVE  /\ Count(history', w) + Owes(w, "publishOutput")' <= Count(ioEvents', w)
                      /\ Count(ioEvents', w) + Owes(w, "ioEvent")' <= Count(output', w)
    BY DEF Written
  <2>1. /\ Count(history, w) \in Nat /\ Count(ioEvents, w) \in Nat /\ Count(output, w) \in Nat
    BY <1>1, CountIsNat DEF LifeTypeOK
  <2>2. /\ Count(history, w) + Owes(w, "publishOutput") <= Count(ioEvents, w)
        /\ Count(ioEvents, w) + Owes(w, "ioEvent") <= Count(output, w)
    BY <1>1 DEF Written
  <2>3. Count(history', w) = Count(history, w) + (IF a = w THEN 1 ELSE 0)
    <3> DEFINE S == Appenders \cup {"running", "exited"}
    <3>1. history \in Seq(S) /\ a \in S
      BY <1>1, Callers DEF LifeTypeOK, Appenders
    <3>2. history' = Append(history, a)
      BY DEF PublishOutput, Publish
    <3> HIDE DEF S
    <3> QED
      BY <3>1, <3>2, CountAppend
  <2> QED
    BY <1>2, <1>3, <2>1, <2>2, <2>3, Callers DEF PublishOutput, Owes, Publish, Terminate,
      Appenders, Calls, Exiters
<1> QED
  BY <1>4, <1>5, <1>6, <1>7, <1>8 DEF LifeInv

\* A future is dropped at an await.
LEMMA DropKeeps ==
    ASSUME LifeInv, NEW a \in Calls \cup {Clunk, Runner}, Drop(a)
    PROVE  LifeInv'
<1>1. LifeTypeOK /\ InTurn /\ Announcing /\ Stopping /\ Written
  BY DEF LifeInv
<1>2. a \in Calls \cup {Clunk, Runner} /\ "done" \in Stages(a) /\ Goto(a, "done")
  BY <1>1, StagesOf, Callers DEF Drop, Exiters, Appenders, Calls, Working
<1>3. /\ DOMAIN pc' = Calls \cup {Clunk, Runner}
      /\ pc' = [b \in Calls \cup {Clunk, Runner} |-> pc'[b]]
      /\ \A b \in Calls \cup {Clunk, Runner} : pc'[b] \in Stages(b)
      /\ \A b \in Calls \cup {Clunk, Runner} : pc'[b] = IF b = a THEN "done" ELSE pc[b]
  BY <1>1, <1>2, GotoFacts
<1>4. LifeTypeOK'
  BY <1>1, <1>3, <1>2, Callers DEF Drop, LifeTypeOK, Publish, Terminate, Appenders, Exiters, Calls
<1>5. InTurn'
  BY <1>1, <1>3, <1>2, StagesOf, Callers DEF Drop, LifeTypeOK, InTurn, Terminate, Working,
    Exiters, Calls, Appenders
<1>6. Announcing'
  BY <1>1, <1>3, <1>2, StagesOf, Callers DEF Drop, LifeTypeOK, InTurn, Stopping, Announcing,
    Announced, InHistory, Terminate, Working, Exiters, Calls, Appenders
<1>7. Stopping'
  BY <1>1, <1>3, <1>2, StagesOf, Callers DEF Drop, LifeTypeOK, InTurn, Stopping, Terminate,
    Working, Exiters, Calls, Appenders
<1>8. Written'
  <2> SUFFICES ASSUME NEW w \in Appenders
               PROVE  /\ Count(history', w) + Owes(w, "publishOutput")' <= Count(ioEvents', w)
                      /\ Count(ioEvents', w) + Owes(w, "ioEvent")' <= Count(output', w)
    BY DEF Written
  <2>1. /\ Count(history, w) \in Nat /\ Count(ioEvents, w) \in Nat /\ Count(output, w) \in Nat
    BY <1>1, CountIsNat DEF LifeTypeOK
  <2>2. /\ Count(history, w) + Owes(w, "publishOutput") <= Count(ioEvents, w)
        /\ Count(ioEvents, w) + Owes(w, "ioEvent") <= Count(output, w)
    BY <1>1 DEF Written
  <2> QED
    BY <1>2, <1>3, <2>1, <2>2, Callers DEF Drop, Owes, Publish, Terminate, Appenders, Calls,
      Exiters
<1> QED
  BY <1>4, <1>5, <1>6, <1>7, <1>8 DEF LifeInv

\* Every step of a call, of the runner and of a dropped future keeps it.
LEMMA LifeNextInv == LifeInv /\ [LifeNext]_lifeVars => LifeInv'
<1> SUFFICES ASSUME LifeInv, [LifeNext]_lifeVars PROVE LifeInv'
  OBVIOUS
<1>1. CASE ClunkStep
  BY <1>1, ClunkPublishKeeps, ClunkSpawnKeeps, ClunkInsertKeeps, ClunkStartKeeps DEF ClunkStep
<1>2. CASE RunnerStep
  BY <1>2, RunnerUnheldKeeps, RunnerRunKeeps, RunnerExitKeeps, AppendIoEventKeeps,
    PublishOutputKeeps,
     PublishExitedKeeps DEF RunnerStep, Appenders
<1>3. CASE CallStep
  BY <1>3, WriteKillKeeps, RecordExitKeeps, PublishExitedKeeps, WriteOutputKeeps,
    AppendIoEventKeeps,
     PublishOutputKeeps DEF CallStep, Exiters, Appenders
<1>4. CASE \E a \in Calls \cup {Clunk, Runner} : Drop(a)
  BY <1>4, DropKeeps
<1>5. CASE UNCHANGED lifeVars
  BY <1>5 DEF lifeVars, LifeInv, LifeTypeOK, InTurn, Announcing, Announced, InHistory,
    Stopping, Written, Owes
<1> QED
  BY <1>1, <1>2, <1>3, <1>4, <1>5 DEF LifeNext

\* However the calls of a committed process interleave and wherever their futures are
\* dropped, its exit is announced, every output event has its record and every record
\* its bytes, and a runner at work for an exited process was told to abort or the exit
\* fell into the window before its registration (clunk, write of ctl, record_exit).
THEOREM ProcExitsAreOrderly == LifeSpec => []ExitsAreOrderly
<1>1. LifeInv => ExitsAreOrderly
  <2> SUFFICES ASSUME LifeInv PROVE ExitsAreOrderly
    OBVIOUS
  <2>1. ExitAnnounced
    BY DEF LifeInv, Announcing, Announced, ExitAnnounced, Exiters
  <2>2. EventsHaveBytes
    <3> SUFFICES ASSUME NEW a \in Appenders
                 PROVE Count(history, a) <= Count(ioEvents, a)
                         /\ Count(ioEvents, a) <= Count(output, a)
      BY DEF EventsHaveBytes
    <3>1. /\ Count(history, a) \in Nat /\ Count(ioEvents, a) \in Nat /\ Count(output, a) \in Nat
      BY CountIsNat DEF LifeInv, LifeTypeOK
    <3> QED
      BY <3>1 DEF LifeInv, Written, Owes
  <2>3. RunnerStopped
    BY DEF LifeInv, Stopping, RunnerStopped
  <2> QED
    BY <2>1, <2>2, <2>3 DEF ExitsAreOrderly
<1> QED
  BY <1>1, LifeInitInv, LifeNextInv, PTL DEF LifeSpec
=============================================================================
