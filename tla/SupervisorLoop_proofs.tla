------------------------- MODULE SupervisorLoop_proofs -------------------------
(***************************************************************************)
(* The second half of the Service Manager's proof: what settling, the tick,*)
(* the exits it finds and the stop do to the invariant of                  *)
(* Supervisor_proofs, and the theorem.                                     *)
(***************************************************************************)
EXTENDS Supervisor_proofs

\* handle_exit withdraws the handles of the unit first, whatever follows.
LEMMA HandleExitFacts ==
  ASSUME TypeOK, NEW u \in Units, NEW code \in Codes, NEW stable \in BOOLEAN, NEW next,
         HandleExit(u, code, stable, next)
  PROVE  /\ active' \in [Units -> Nat] /\ active'[u] = NoPid
         /\ \A v \in Units : v # u => active'[v] = active[v]
         /\ posted' \in [Units -> Nat] /\ posted'[u] = NoPid
         /\ \A v \in Units : v # u => posted'[v] = posted[v]
         /\ bound' \in Nat /\ bound' = IF u = Package THEN NoPid ELSE bound
         /\ root' \in Nat /\ rootPid' \in Nat
         /\ UNCHANGED <<requests, stopping, retries>>
  BY DEF HandleExit, Withdraw, TypeOK, NoPid

\* An exit whose bookkeeping went through.
Handles(u, stable, next) ==
  /\ unit' \in [Units -> UnitRecs] /\ \A v \in Units : v # u => unit'[v] = unit[v]
  /\ unit'[u].pid = NoPid /\ unit'[u].status \in {"Backoff"} \cup Terminal
  /\ unit'[u].attempts = IF stable THEN 1 ELSE unit[u].attempts
  /\ unit[u].degraded => unit'[u].degraded
  /\ unit'[u].degraded => unit[u].degraded \/ u \in Required
  /\ unit'[u].status = "Backoff" => system' = system /\ unit'[u].attempts <= RestartLimit
  /\ system' \in {"Booting", "Ready", "Degraded", "Failed", "Stopping"}
  /\ system # "Booting" => system' \in {system, "Degraded"}
  /\ system # "Booting" /\ unit'[u].status # "Backoff" /\ u \in Required =>
       unit'[u].degraded /\ system' = "Degraded"
  /\ system' = "Degraded" => system = "Degraded" \/ (u \in Required /\ unit'[u].degraded)
  /\ pending' = IF unit'[u].status = "Backoff" /\ sup.phase = "run"
                THEN pending \cup {u} ELSE pending
  /\ sup' = IF unit'[u].status = "Backoff" \/ sup.phase = "run"
            THEN next ELSE [sup EXCEPT !.pc = "aborted"]
  /\ streak' \in [Units -> Nat] /\ \A v \in Units : v # u => streak'[v] = streak[v]
  /\ streak'[u] = IF stable THEN 1 ELSE streak[u]

\* One whose release of the Root failed.
GivesUp(u) ==
  /\ u = Root /\ sup' = [sup EXCEPT !.pc = Abandoned]
  /\ UNCHANGED <<unit, system, pending, streak>>

\* handle_exit either gives up because the Root was not released, or records the
\* exit.
LEMMA HandleExitCases ==
  ASSUME TypeOK, NEW u \in Units, NEW code \in Codes, NEW stable \in BOOLEAN, NEW next,
         HandleExit(u, code, stable, next)
  PROVE  GivesUp(u) \/ Handles(u, stable, next)
<1>1. PICK ok \in ReleaseOutcomes(u) :
        \/ /\ ~ok
           /\ sup' = [sup EXCEPT !.pc = Abandoned]
           /\ UNCHANGED <<unit, system, pending, streak>>
        \/ /\ ok
           /\ LET r == RecordExit(unit, u, code, stable) IN
              /\ unit' = r.unit /\ system' = r.system
              /\ pending' = Deadlines(u, r.restart)
              /\ sup' = IF r.restart \/ sup.phase = "run"
                        THEN next ELSE [sup EXCEPT !.pc = "aborted"]
           /\ streak' = IF stable THEN [streak EXCEPT ![u] = 1] ELSE streak
  BY DEF HandleExit
<1>2. CASE ~ok BY Zenon, <1>1, <1>2 DEF ReleaseOutcomes, GivesUp
<1>3. CASE ok
  <2> DEFINE r == RecordExit(unit, u, code, stable)
  <2>1. /\ unit' = r.unit /\ system' = r.system /\ pending' = Deadlines(u, r.restart)
        /\ sup' = IF r.restart \/ sup.phase = "run" THEN next ELSE [sup EXCEPT !.pc = "aborted"]
    BY <1>1, <1>3
  <2>2. streak' = IF stable THEN [streak EXCEPT ![u] = 1] ELSE streak BY <1>1, <1>3
  <2>s. /\ streak' \in [Units -> Nat] /\ \A v \in Units : v # u => streak'[v] = streak[v]
        /\ streak'[u] = IF stable THEN 1 ELSE streak[u]
    BY <2>2 DEF TypeOK
  <2> HIDE DEF r
  <2>3. Recorded(r, unit, u, IF stable THEN 1 ELSE unit[u].attempts)
    <3>1. r = RecordExit(unit, u, code, stable) BY DEF r
    <3>2. /\ unit \in [Units -> UnitRecs]
          /\ system \in {"Booting", "Ready", "Degraded", "Failed", "Stopping"}
      BY DEF TypeOK
    <3> QED BY <3>1, <3>2, RecordFacts
  <2>4. Handles(u, stable, next) BY <2>1, <2>3, <2>s DEF Handles, Deadlines, Recorded
  <2> QED BY <2>4
<1> QED BY <1>1, <1>2, <1>3

\* The Root exits while boot() waits for it, and is not released.
LEMMA SettleGivesUpKeeps ==
  ASSUME SupInv, NEW stable \in BOOLEAN, sup.pc = "await", active[sup.unit] # NoPid,
         proc' = Exited(proc, sup.pid, 1),
         HandleExit(Root, 1, stable, [sup EXCEPT !.pc = "spawn", !.pid = NoPid]), GivesUp(Root)
  PROVE  SupInv'
<1>i. /\ TypeOK /\ Phases /\ Booting /\ Todo /\ Launching /\ Backed /\ Left
      /\ SomeDegraded /\ Owned /\ UnitsInv
  BY DEF SupInv
<1>0. /\ sup.pc = "await" /\ sup.phase = "settle" /\ sup.unit = Root /\ Root \in Units
      /\ active[Root] # NoPid /\ active[Root] = sup.pid /\ unit[Root].pid = sup.pid
  <2>1. Root \in Units /\ sup.unit \in Units /\ sup.phase \in {"boot", "settle", "run"}
    BY <1>i, Constants DEF TypeOK, SupRecs
  <2>2. /\ active[sup.unit] \in {NoPid, sup.pid} /\ unit[sup.unit].pid = sup.pid
        /\ sup.phase = "settle"
    BY <1>i, <2>1 DEF Launching
  <2>3. sup.unit = Root BY <1>i, <2>2 DEF Phases, LaunchPcs
  <2> QED BY <2>1, <2>2, <2>3
<1>p. /\ proc' \in Seq(ProcRecs) /\ DOMAIN proc' = DOMAIN proc
      /\ \A q \in DOMAIN proc : proc'[q].of = proc[q].of
      /\ \A q \in DOMAIN proc : proc'[q].state = "running" => proc[q].state = "running"
           /\ q # sup.pid
  BY <1>i, ExitedFacts DEF TypeOK, Codes
<1>f. /\ active' \in [Units -> Nat] /\ active'[Root] = NoPid
      /\ \A v \in Units : v # Root => active'[v] = active[v]
      /\ posted' \in [Units -> Nat] /\ posted'[Root] = NoPid
      /\ \A v \in Units : v # Root => posted'[v] = posted[v]
      /\ bound' \in Nat /\ bound' = IF Root = Package THEN NoPid ELSE bound
      /\ root' \in Nat /\ rootPid' \in Nat
      /\ UNCHANGED <<requests, stopping, retries>>
  BY <1>i, <1>0, HandleExitFacts DEF Codes
<1>s. sup' \in SupRecs /\ sup'.phase = sup.phase /\ sup'.pc = "aborted"
  /\ sup'.next = sup.next /\ sup'.unit = sup.unit /\ sup'.pid = sup.pid /\ sup'.todo = sup.todo
  BY Zenon, <1>i, <1>0 DEF GivesUp, Abandoned, TypeOK, SupRecs, Pcs, LaunchPcs, IdlePcs
<1>v. UNCHANGED <<unit, system, pending, streak>>
  BY DEF GivesUp
<1>1. TypeOK' BY <1>i, <1>0, <1>p, <1>f, <1>s, <1>v DEF TypeOK
<1>2. Phases' BY <1>i, <1>0, <1>s, <1>v DEF Phases, LaunchPcs, IdlePcs
<1>3. Booting' BY <1>i, <1>0, <1>p, <1>f, <1>s, <1>v, Constants DEF Booting, LaunchPcs
<1>4. Todo' BY <1>i, <1>0, <1>f, <1>s, <1>v DEF Todo, LaunchPcs
<1>5. Launching' BY <1>i, <1>0, <1>p, <1>f, <1>s, <1>v DEF Launching, Running
<1>6. Backed' BY <1>i, <1>0, <1>p, <1>f, <1>s, <1>v, Constants DEF Backed
<1>7. Left' BY <1>i, <1>0, <1>s, <1>v DEF Left
<1>8. SomeDegraded' BY <1>i, <1>0, <1>p, <1>f, <1>s, <1>v DEF SomeDegraded
<1>9. Owned'
  <2>1. ASSUME NEW p \in DOMAIN proc' PROVE OwnedProc(p)'
    <3>1. p \in DOMAIN proc => OwnedProc(p) /\ proc[p].of \in Units /\ p # NoPid
      BY <1>i, ProcOf DEF Owned, TypeOK
    <3>2. CASE p \notin DOMAIN proc BY <3>2, <1>i, <1>0, <1>p, <1>f, <1>s, <1>v DEF OwnedProc,
         InFlight
    <3>3. CASE p \in DOMAIN proc /\ proc[p].of = Root
      BY <3>1, <3>3, <1>i, <1>0, <1>p, <1>f, <1>s, <1>v DEF OwnedProc, InFlight
    <3>4. CASE p \in DOMAIN proc /\ proc[p].of # Root
      BY <3>1, <3>4, <1>i, <1>0, <1>p, <1>f, <1>s, <1>v DEF OwnedProc, InFlight
    <3> QED BY <3>2, <3>3, <3>4
  <2> QED BY <2>1 DEF Owned
<1>10. UnitsInv'
  <2>1. ASSUME NEW w \in Units PROVE UnitInv(w)'
    <3>1. UnitInv(w) BY <1>i DEF UnitsInv
    <3>2. QuietUnit(w)' /\ KnownPids(w)' /\ Watched(w)' /\ QueuedUnit(w)' /\ CountedUnit(w)' /\
         ShownUnit(w)' /\ HeldHandle(w)'
      BY <3>1, <1>i, <1>0, <1>p, <1>f, <1>s, <1>v DEF UnitInv, QuietUnit, Terminal, KnownPids,
           PidOf, Watched, Settled, InFlight, QueuedUnit, CountedUnit, ShownUnit, HeldHandle
    <3> QED BY <3>2 DEF UnitInv
  <2> QED BY <2>1 DEF UnitsInv
<1> QED BY <1>1, <1>2, <1>3, <1>4, <1>5, <1>6, <1>7, <1>8, <1>9, <1>10 DEF SupInv

\* The Root exits while boot() waits for it, and is launched again or given up.
LEMMA SettleHandledKeeps ==
  ASSUME SupInv, NEW stable \in BOOLEAN, sup.pc = "await", active[sup.unit] # NoPid,
         proc' = Exited(proc, sup.pid, 1),
         HandleExit(Root, 1, stable, [sup EXCEPT !.pc = "spawn", !.pid = NoPid]),
         Handles(Root, stable, [sup EXCEPT !.pc = "spawn", !.pid = NoPid])
  PROVE  SupInv'
<1>i. /\ TypeOK /\ Phases /\ Booting /\ Todo /\ Launching /\ Backed /\ Left
      /\ SomeDegraded /\ Owned /\ UnitsInv
  BY DEF SupInv
<1>0. /\ sup.pc = "await" /\ sup.phase = "settle" /\ sup.unit = Root /\ Root \in Units
      /\ active[Root] # NoPid /\ active[Root] = sup.pid /\ unit[Root].pid = sup.pid
  <2>1. Root \in Units /\ sup.unit \in Units /\ sup.phase \in {"boot", "settle", "run"}
    BY <1>i, Constants DEF TypeOK, SupRecs
  <2>2. /\ active[sup.unit] \in {NoPid, sup.pid} /\ unit[sup.unit].pid = sup.pid
        /\ sup.phase = "settle"
    BY <1>i, <2>1 DEF Launching
  <2>3. sup.unit = Root BY <1>i, <2>2 DEF Phases, LaunchPcs
  <2> QED BY <2>1, <2>2, <2>3
<1>p. /\ proc' \in Seq(ProcRecs) /\ DOMAIN proc' = DOMAIN proc
      /\ \A q \in DOMAIN proc : proc'[q].of = proc[q].of
      /\ \A q \in DOMAIN proc : proc'[q].state = "running" => proc[q].state = "running"
           /\ q # sup.pid
  BY <1>i, ExitedFacts DEF TypeOK, Codes
<1>f. /\ active' \in [Units -> Nat] /\ active'[Root] = NoPid
      /\ \A v \in Units : v # Root => active'[v] = active[v]
      /\ posted' \in [Units -> Nat] /\ posted'[Root] = NoPid
      /\ \A v \in Units : v # Root => posted'[v] = posted[v]
      /\ bound' \in Nat /\ bound' = IF Root = Package THEN NoPid ELSE bound
      /\ root' \in Nat /\ rootPid' \in Nat
      /\ UNCHANGED <<requests, stopping, retries>>
  BY <1>i, <1>0, HandleExitFacts DEF Codes
<1>h. /\ unit' \in [Units -> UnitRecs] /\ \A v \in Units : v # Root => unit'[v] = unit[v]
      /\ unit'[Root].pid = NoPid /\ unit'[Root].status \in {"Backoff"} \cup Terminal
      /\ unit[Root].degraded => unit'[Root].degraded
      /\ unit'[Root].degraded => unit[Root].degraded \/ Root \in Required
      /\ unit'[Root].status = "Backoff" => /\ system' = system
                                       /\ unit'[Root].attempts <= RestartLimit
      /\ system' \in {"Booting", "Ready", "Degraded", "Failed", "Stopping"}
      /\ system # "Booting" => system' \in {system, "Degraded"}
      /\ system # "Booting" /\ unit'[Root].status # "Backoff" /\ Root \in Required =>
           unit'[Root].degraded /\ system' = "Degraded"
      /\ system' = "Degraded" =>
           system = "Degraded" \/ (Root \in Required /\ unit'[Root].degraded)
      /\ unit'[Root].attempts = IF stable THEN 1 ELSE unit[Root].attempts
      /\ pending' = IF unit'[Root].status = "Backoff" /\ sup.phase = "run"
                    THEN pending \cup {Root} ELSE pending
      /\ streak' \in [Units -> Nat] /\ \A v \in Units : v # Root => streak'[v] = streak[v]
      /\ streak'[Root] = IF stable THEN 1 ELSE streak[Root]
  BY DEF Handles
<1>s. /\ sup' \in SupRecs /\ sup'.phase = sup.phase /\ sup'.next = sup.next
           /\ sup'.unit = sup.unit
      /\ sup'.todo = sup.todo
      /\ \/ unit'[Root].status = "Backoff" /\ sup'.pc = "spawn" /\ sup'.pid = NoPid
         \/ unit'[Root].status # "Backoff" /\ sup'.pc = "aborted" /\ sup'.pid = sup.pid
  BY Zenon, <1>i, <1>0 DEF Handles, NoPid, TypeOK, SupRecs, Pcs, LaunchPcs, IdlePcs
<1>1. TypeOK' BY <1>i, <1>0, <1>p, <1>f, <1>h, <1>s DEF TypeOK
<1>2. Phases' BY <1>i, <1>0, <1>s DEF Phases, LaunchPcs, IdlePcs
<1>3. Booting' BY <1>i, <1>0, <1>p, <1>f, <1>h, <1>s, Constants DEF Booting, LaunchPcs
<1>4. Todo' BY <1>i, <1>0, <1>f, <1>h, <1>s DEF Todo, LaunchPcs
<1>5. Launching' BY <1>i, <1>0, <1>p, <1>f, <1>h, <1>s DEF Launching, Running
<1>6. Backed' BY <1>i, <1>0, <1>p, <1>f, <1>h, <1>s, Constants DEF Backed
<1>7. Left' BY <1>i, <1>0, <1>h, <1>s DEF Left
<1>8. SomeDegraded' BY <1>i, <1>0, <1>p, <1>f, <1>h, <1>s DEF SomeDegraded
<1>9. Owned'
  <2>1. ASSUME NEW p \in DOMAIN proc' PROVE OwnedProc(p)'
    <3>1. p \in DOMAIN proc => OwnedProc(p) /\ proc[p].of \in Units /\ p # NoPid
      BY <1>i, ProcOf DEF Owned, TypeOK
    <3>2. CASE p \notin DOMAIN proc BY <3>2, <1>i, <1>0, <1>p, <1>f, <1>h, <1>s DEF OwnedProc,
         InFlight
    <3>3. CASE p \in DOMAIN proc /\ proc[p].of = Root
      BY <3>1, <3>3, <1>i, <1>0, <1>p, <1>f, <1>h, <1>s DEF OwnedProc, InFlight
    <3>4. CASE p \in DOMAIN proc /\ proc[p].of # Root
      BY <3>1, <3>4, <1>i, <1>0, <1>p, <1>f, <1>h, <1>s DEF OwnedProc, InFlight
    <3> QED BY <3>2, <3>3, <3>4
  <2> QED BY <2>1 DEF Owned
<1>10. UnitsInv'
  <2>1. ASSUME NEW w \in Units PROVE UnitInv(w)'
    <3>1. UnitInv(w) BY <1>i DEF UnitsInv
    <3>2. QuietUnit(w)'
      BY Zenon, <3>1, <1>i, <1>0, <1>p, <1>f, <1>h, <1>s DEF UnitInv, QuietUnit, Terminal
    <3>3. KnownPids(w)'
      <4>1. CASE w = Root BY <3>1, <4>1, <1>i, <1>0, <1>p, <1>f, <1>h, <1>s DEF UnitInv,
           KnownPids, PidOf, Terminal
      <4>2. CASE w # Root BY <3>1, <4>2, <1>i, <1>0, <1>p, <1>f, <1>h, <1>s DEF UnitInv,
           KnownPids, PidOf, Terminal
      <4> QED BY <4>1, <4>2
    <3>4. Watched(w)'
      <4>1. CASE w = Root BY <3>1, <4>1, <1>i, <1>0, <1>p, <1>f, <1>h, <1>s DEF UnitInv, Watched,
           Settled, InFlight
      <4>2. CASE w # Root BY <3>1, <4>2, <1>i, <1>0, <1>p, <1>f, <1>h, <1>s DEF UnitInv, Watched,
           Settled, InFlight
      <4> QED BY <4>1, <4>2
    <3>5. QueuedUnit(w)'
      <4>1. CASE w = Root BY <3>1, <4>1, <1>i, <1>0, <1>p, <1>f, <1>h, <1>s DEF UnitInv,
           QueuedUnit, InFlight
      <4>2. CASE w # Root BY <3>1, <4>2, <1>i, <1>0, <1>p, <1>f, <1>h, <1>s DEF UnitInv,
           QueuedUnit, InFlight
      <4> QED BY <4>1, <4>2
    <3>6. CountedUnit(w)'
      <4>1. CASE w = Root
        <5>1. CountedUnit(w) /\ RestartLimit \in Nat BY <3>1, Constants DEF UnitInv
        <5>2. streak[w] = unit[w].attempts /\ unit[w].attempts <= RestartLimit + 1
          BY <1>0, <5>1 DEF CountedUnit
        <5>3. /\ unit'[w].attempts = IF stable THEN 1 ELSE unit[w].attempts
              /\ streak'[w] = IF stable THEN 1 ELSE streak[w]
              /\ unit'[w].status = "Backoff" => unit'[w].attempts <= RestartLimit
              /\ unit'[w].status # "Pending"
          BY <1>h, <4>1 DEF Terminal
        <5>4. unit[w].attempts \in Nat BY <1>i DEF TypeOK, UnitRecs
        <5>5. streak'[w] = unit'[w].attempts /\ unit'[w].attempts <= RestartLimit + 1
          BY <5>1, <5>2, <5>3, <5>4
        <5>6. sup'.pc \notin {"terminate", "record"} BY <1>0, <1>s
        <5> QED BY <5>3, <5>5, <5>6 DEF CountedUnit
      <4>2. CASE w # Root BY <3>1, <4>2, <1>0, <1>h, <1>s DEF UnitInv, CountedUnit
      <4> QED BY <4>1, <4>2
    <3>7. ShownUnit(w)'
      <4>1. CASE w = Root BY <3>1, <4>1, <1>i, <1>0, <1>p, <1>f, <1>h, <1>s DEF UnitInv,
           ShownUnit, Terminal
      <4>2. CASE w # Root BY <3>1, <4>2, <1>i, <1>0, <1>p, <1>f, <1>h, <1>s DEF UnitInv,
           ShownUnit, Terminal
      <4> QED BY <4>1, <4>2
    <3>8. HeldHandle(w)'
      <4>1. CASE w = Root BY <3>1, <4>1, <1>i, <1>0, <1>p, <1>f, <1>h, <1>s DEF UnitInv,
           HeldHandle, InFlight
      <4>2. CASE w # Root BY <3>1, <4>2, <1>i, <1>0, <1>p, <1>f, <1>h, <1>s DEF UnitInv,
           HeldHandle, InFlight
      <4> QED BY <4>1, <4>2
    <3> QED BY <3>2, <3>3, <3>4, <3>5, <3>6, <3>7, <3>8 DEF UnitInv
  <2> QED BY <2>1 DEF UnitsInv
<1> QED BY <1>1, <1>2, <1>3, <1>4, <1>5, <1>6, <1>7, <1>8, <1>9, <1>10 DEF SupInv

\* A tick finds the Root exited, and it is not released.
LEMMA ScanGivesUpKeeps ==
  ASSUME SupInv, NEW u \in Units, NEW stable \in BOOLEAN, sup.pc = "scan", sup.todo # {},
         u \in sup.todo, ~Running(active[u]), UNCHANGED proc,
         HandleExit(u, proc[active[u]].code, stable, [sup EXCEPT !.todo = @ \ {u}]), GivesUp(u)
  PROVE  SupInv'
<1>i. /\ TypeOK /\ Phases /\ Booting /\ Todo /\ Launching /\ Backed /\ Left
      /\ SomeDegraded /\ Owned /\ UnitsInv
  BY DEF SupInv
<1>0. /\ sup.pc = "scan" /\ sup.phase = "run" /\ u \in sup.todo /\ active[u] # NoPid
      /\ unit[u].status = "Ready" /\ unit[u].pid = active[u] /\ u \notin pending
           /\ u \notin requests
      /\ active[u] \in DOMAIN proc /\ proc[active[u]].of = u /\ proc[active[u]].state # "running"
      /\ system # "Booting"
  <2>1. sup.todo \subseteq Units /\ sup.phase \in {"boot", "settle", "run"}
    BY <1>i DEF TypeOK, SupRecs
  <2>2. u \in sup.todo OBVIOUS
  <2>3. sup.phase = "run" BY <1>i, <2>1 DEF Phases, LaunchPcs
  <2>4. UnitInv(u) BY <1>i DEF UnitsInv
  <2>5. active[u] # NoPid BY <1>i, <2>2 DEF Todo
  <2>6. unit[u].status = "Ready" /\ unit[u].pid = active[u]
    BY <2>4, <2>5 DEF UnitInv, UnitsInv, Watched, Settled, InFlight
  <2>7. u \notin pending /\ u \notin requests BY <2>4, <2>6 DEF UnitInv, QueuedUnit
  <2>8. active[u] \in DOMAIN proc /\ proc[active[u]].of = u
    BY <2>4, <2>5 DEF UnitInv, KnownPids, PidOf
  <2>9. system # "Booting" BY <1>i, <2>3 DEF Left
  <2> QED BY <2>2, <2>3, <2>5, <2>6, <2>7, <2>8, <2>9 DEF Running
<1>c. proc[active[u]].code \in Codes
  BY <1>i, <1>0, ProcOf DEF TypeOK
<1>f. /\ active' \in [Units -> Nat] /\ active'[u] = NoPid
      /\ \A v \in Units : v # u => active'[v] = active[v]
      /\ posted' \in [Units -> Nat] /\ posted'[u] = NoPid
      /\ \A v \in Units : v # u => posted'[v] = posted[v]
      /\ bound' \in Nat /\ bound' = IF u = Package THEN NoPid ELSE bound
      /\ root' \in Nat /\ rootPid' \in Nat
      /\ UNCHANGED <<requests, stopping, retries>>
  BY <1>i, <1>c, HandleExitFacts
<1>s. sup' \in SupRecs /\ sup'.phase = sup.phase /\ sup'.pc = "dead" /\ sup'.next = sup.next
  /\ sup'.unit = sup.unit /\ sup'.pid = sup.pid /\ sup'.todo = sup.todo
  BY Zenon, <1>i, <1>0 DEF GivesUp, Abandoned, TypeOK, SupRecs, Pcs, LaunchPcs, IdlePcs
<1>v. u = Root /\ UNCHANGED <<unit, system, pending, streak>>
  BY DEF GivesUp
<1>1. TypeOK' BY <1>i, <1>0, <1>c, <1>f, <1>s, <1>v DEF TypeOK
<1>2. Phases' BY <1>i, <1>0, <1>c, <1>s, <1>v DEF Phases, LaunchPcs, IdlePcs
<1>3. Booting' BY <1>i, <1>0, <1>c, <1>f, <1>s, <1>v DEF Booting, LaunchPcs
<1>4. Todo' BY <1>i, <1>0, <1>f, <1>s, <1>v DEF Todo, LaunchPcs
<1>5. Launching' BY <1>i, <1>0, <1>c, <1>f, <1>s, <1>v DEF Launching, Running
<1>6. Backed' BY <1>i, <1>0, <1>c, <1>f, <1>s, <1>v, Constants DEF Backed
<1>7. Left' BY <1>i, <1>0, <1>s, <1>v DEF Left
<1>8. SomeDegraded' BY <1>i, <1>0, <1>c, <1>f, <1>s, <1>v DEF SomeDegraded
<1>9. Owned'
  <2>1. ASSUME NEW p \in DOMAIN proc' PROVE OwnedProc(p)'
    <3>1. p \in DOMAIN proc => OwnedProc(p) /\ proc[p].of \in Units /\ p # NoPid
      BY <1>i, ProcOf DEF Owned, TypeOK
    <3> QED BY <3>1, <1>i, <1>0, <1>c, <1>f, <1>s, <1>v DEF OwnedProc, InFlight
  <2> QED BY <2>1 DEF Owned
<1>10. UnitsInv'
  <2>1. ASSUME NEW w \in Units PROVE UnitInv(w)'
    <3>1. UnitInv(w) BY <1>i DEF UnitsInv
    <3>2. QuietUnit(w)' /\ KnownPids(w)' /\ Watched(w)' /\ QueuedUnit(w)' /\ CountedUnit(w)' /\
         ShownUnit(w)' /\ HeldHandle(w)'
      BY <3>1, <1>i, <1>0, <1>c, <1>f, <1>s, <1>v DEF UnitInv, QuietUnit, Terminal, KnownPids,
           PidOf, Watched, Settled, InFlight, QueuedUnit, CountedUnit, ShownUnit, HeldHandle
    <3> QED BY <3>2 DEF UnitInv
  <2> QED BY <2>1 DEF UnitsInv
<1> QED BY <1>1, <1>2, <1>3, <1>4, <1>5, <1>6, <1>7, <1>8, <1>9, <1>10 DEF SupInv

\* A tick finds an exit and handles it.
LEMMA ScanHandledKeeps ==
  ASSUME SupInv, NEW u \in Units, NEW stable \in BOOLEAN, sup.pc = "scan", sup.todo # {},
         u \in sup.todo, ~Running(active[u]), UNCHANGED proc,
         HandleExit(u, proc[active[u]].code, stable, [sup EXCEPT !.todo = @ \ {u}]),
         Handles(u, stable, [sup EXCEPT !.todo = @ \ {u}])
  PROVE  SupInv'
<1>i. /\ TypeOK /\ Phases /\ Booting /\ Todo /\ Launching /\ Backed /\ Left
      /\ SomeDegraded /\ Owned /\ UnitsInv
  BY DEF SupInv
<1>0. /\ sup.pc = "scan" /\ sup.phase = "run" /\ u \in sup.todo /\ active[u] # NoPid
      /\ unit[u].status = "Ready" /\ unit[u].pid = active[u] /\ u \notin pending
           /\ u \notin requests
      /\ active[u] \in DOMAIN proc /\ proc[active[u]].of = u /\ proc[active[u]].state # "running"
      /\ system # "Booting"
  <2>1. sup.todo \subseteq Units /\ sup.phase \in {"boot", "settle", "run"}
    BY <1>i DEF TypeOK, SupRecs
  <2>2. u \in sup.todo OBVIOUS
  <2>3. sup.phase = "run" BY <1>i, <2>1 DEF Phases, LaunchPcs
  <2>4. UnitInv(u) BY <1>i DEF UnitsInv
  <2>5. active[u] # NoPid BY <1>i, <2>2 DEF Todo
  <2>6. unit[u].status = "Ready" /\ unit[u].pid = active[u]
    BY <2>4, <2>5 DEF UnitInv, UnitsInv, Watched, Settled, InFlight
  <2>7. u \notin pending /\ u \notin requests BY <2>4, <2>6 DEF UnitInv, QueuedUnit
  <2>8. active[u] \in DOMAIN proc /\ proc[active[u]].of = u
    BY <2>4, <2>5 DEF UnitInv, KnownPids, PidOf
  <2>9. system # "Booting" BY <1>i, <2>3 DEF Left
  <2> QED BY <2>2, <2>3, <2>5, <2>6, <2>7, <2>8, <2>9 DEF Running
<1>c. proc[active[u]].code \in Codes
  BY <1>i, <1>0, ProcOf DEF TypeOK
<1>f. /\ active' \in [Units -> Nat] /\ active'[u] = NoPid
      /\ \A v \in Units : v # u => active'[v] = active[v]
      /\ posted' \in [Units -> Nat] /\ posted'[u] = NoPid
      /\ \A v \in Units : v # u => posted'[v] = posted[v]
      /\ bound' \in Nat /\ bound' = IF u = Package THEN NoPid ELSE bound
      /\ root' \in Nat /\ rootPid' \in Nat
      /\ UNCHANGED <<requests, stopping, retries>>
  BY <1>i, <1>c, HandleExitFacts
<1>h. /\ unit' \in [Units -> UnitRecs] /\ \A v \in Units : v # u => unit'[v] = unit[v]
      /\ unit'[u].pid = NoPid /\ unit'[u].status \in {"Backoff"} \cup Terminal
      /\ unit[u].degraded => unit'[u].degraded
      /\ unit'[u].degraded => unit[u].degraded \/ u \in Required
      /\ unit'[u].status = "Backoff" => /\ system' = system
                                       /\ unit'[u].attempts <= RestartLimit
      /\ system' \in {"Booting", "Ready", "Degraded", "Failed", "Stopping"}
      /\ system # "Booting" => system' \in {system, "Degraded"}
      /\ system # "Booting" /\ unit'[u].status # "Backoff" /\ u \in Required =>
           unit'[u].degraded /\ system' = "Degraded"
      /\ system' = "Degraded" =>
           system = "Degraded" \/ (u \in Required /\ unit'[u].degraded)
      /\ unit'[u].attempts = IF stable THEN 1 ELSE unit[u].attempts
      /\ pending' = IF unit'[u].status = "Backoff" /\ sup.phase = "run"
                    THEN pending \cup {u} ELSE pending
      /\ streak' \in [Units -> Nat] /\ \A v \in Units : v # u => streak'[v] = streak[v]
      /\ streak'[u] = IF stable THEN 1 ELSE streak[u]
  BY DEF Handles
<1>s. sup' \in SupRecs /\ sup'.phase = sup.phase /\ sup'.pc = sup.pc /\ sup'.next = sup.next
  /\ sup'.unit = sup.unit /\ sup'.pid = sup.pid /\ sup'.todo = sup.todo \ {u}
  BY Zenon, <1>i, <1>0 DEF Handles, TypeOK, SupRecs, Pcs, LaunchPcs, IdlePcs
<1>1. TypeOK' BY <1>i, <1>0, <1>c, <1>f, <1>h, <1>s DEF TypeOK
<1>2. Phases' BY <1>i, <1>0, <1>c, <1>s DEF Phases, LaunchPcs, IdlePcs
<1>3. Booting' BY <1>i, <1>0, <1>c, <1>f, <1>h, <1>s DEF Booting, LaunchPcs
<1>4. Todo'
  <2>1. ASSUME NEW v \in sup'.todo PROVE active'[v] # NoPid
    <3>1. v \in Units /\ v # u /\ v \in sup.todo BY <1>i, <1>s, <2>1 DEF TypeOK, SupRecs
    <3> QED BY <1>i, <1>0, <1>f, <3>1 DEF Todo
  <2> QED BY <1>0, <1>s, <2>1 DEF Todo, LaunchPcs
<1>5. Launching' BY <1>i, <1>0, <1>c, <1>f, <1>h, <1>s DEF Launching, Running
<1>6. Backed' BY <1>i, <1>0, <1>f, <1>s, Constants DEF Backed
<1>7. Left' BY <1>i, <1>0, <1>h, <1>s DEF Left
<1>8. SomeDegraded'
  <2>1. ASSUME system' = "Degraded" PROVE \E v \in Required : unit'[v].degraded
    <3>1. CASE u \in Required /\ unit'[u].degraded BY <3>1
    <3>2. CASE system = "Degraded"
      <4>1. PICK v \in Required : unit[v].degraded BY <1>i, <1>0, <3>2 DEF SomeDegraded
      <4>2. v \in Units /\ unit'[v].degraded BY <1>h, <4>1, Constants
      <4> QED BY <4>1, <4>2
    <3> QED BY <1>h, <2>1, <3>1, <3>2
  <2> QED BY <2>1 DEF SomeDegraded
<1>9. Owned'
  <2>1. ASSUME NEW p \in DOMAIN proc' PROVE OwnedProc(p)'
    <3>1. p \in DOMAIN proc => OwnedProc(p) /\ proc[p].of \in Units /\ p # NoPid
      BY <1>i, ProcOf DEF Owned, TypeOK
    <3>2. CASE p \notin DOMAIN proc BY <3>2, <1>i, <1>0, <1>c, <1>f, <1>h, <1>s DEF OwnedProc,
         InFlight
    <3>3. CASE p \in DOMAIN proc /\ proc[p].of = u
      BY <3>1, <3>3, <1>i, <1>0, <1>c, <1>f, <1>h, <1>s DEF OwnedProc, InFlight
    <3>4. CASE p \in DOMAIN proc /\ proc[p].of # u
      BY <3>1, <3>4, <1>i, <1>0, <1>c, <1>f, <1>h, <1>s DEF OwnedProc, InFlight
    <3> QED BY <3>2, <3>3, <3>4
  <2> QED BY <2>1 DEF Owned
<1>10. UnitsInv'
  <2>1. ASSUME NEW w \in Units PROVE UnitInv(w)'
    <3>1. UnitInv(w) BY <1>i DEF UnitsInv
    <3>2. QuietUnit(w)'
      BY <3>1, <1>i, <1>0, <1>c, <1>f, <1>h, <1>s DEF UnitInv, QuietUnit, Terminal
    <3>3. KnownPids(w)'
      <4>1. CASE w = u BY <3>1, <4>1, <1>i, <1>0, <1>c, <1>f, <1>h, <1>s DEF UnitInv, KnownPids,
           PidOf, Terminal
      <4>2. CASE w # u BY <3>1, <4>2, <1>i, <1>0, <1>c, <1>f, <1>h, <1>s DEF UnitInv, KnownPids,
           PidOf, Terminal
      <4> QED BY <4>1, <4>2
    <3>4. Watched(w)'
      <4>1. CASE w = u BY <1>0, <1>f, <1>h, <4>1 DEF Watched, Settled, Terminal
      <4>2. CASE w # u
        BY <3>1, <4>2, <1>0, <1>f, <1>h, <1>s DEF UnitInv, Watched, Settled, InFlight
      <4> QED BY <4>1, <4>2
    <3>5. QueuedUnit(w)'
      <4>1. CASE w = u BY <3>1, <4>1, <1>i, <1>0, <1>c, <1>f, <1>h, <1>s DEF UnitInv, QueuedUnit,
           InFlight
      <4>2. CASE w # u BY <3>1, <4>2, <1>i, <1>0, <1>c, <1>f, <1>h, <1>s DEF UnitInv, QueuedUnit,
           InFlight
      <4> QED BY <4>1, <4>2
    <3>6. CountedUnit(w)'
      <4>1. CASE w = u
        <5>1. CountedUnit(w) /\ RestartLimit \in Nat BY <3>1, Constants DEF UnitInv
        <5>2. streak[w] = unit[w].attempts /\ unit[w].attempts <= RestartLimit + 1
          BY <1>0, <5>1 DEF CountedUnit
        <5>3. /\ unit'[w].attempts = IF stable THEN 1 ELSE unit[w].attempts
              /\ streak'[w] = IF stable THEN 1 ELSE streak[w]
              /\ unit'[w].status = "Backoff" => unit'[w].attempts <= RestartLimit
              /\ unit'[w].status # "Pending"
          BY <1>h, <4>1 DEF Terminal
        <5>4. unit[w].attempts \in Nat BY <1>i DEF TypeOK, UnitRecs
        <5>5. streak'[w] = unit'[w].attempts /\ unit'[w].attempts <= RestartLimit + 1
          BY <5>1, <5>2, <5>3, <5>4
        <5>6. sup'.pc \notin {"terminate", "record"} BY <1>0, <1>s
        <5> QED BY <5>3, <5>5, <5>6 DEF CountedUnit
      <4>2. CASE w # u BY <3>1, <4>2, <1>0, <1>h, <1>s DEF UnitInv, CountedUnit
      <4> QED BY <4>1, <4>2
    <3>7. ShownUnit(w)'
      <4>1. CASE w = u BY <3>1, <4>1, <1>i, <1>0, <1>c, <1>f, <1>h, <1>s DEF UnitInv, ShownUnit,
           Terminal
      <4>2. CASE w # u BY <3>1, <4>2, <1>i, <1>0, <1>c, <1>f, <1>h, <1>s DEF UnitInv, ShownUnit,
           Terminal
      <4> QED BY <4>1, <4>2
    <3>8. HeldHandle(w)'
      <4>1. CASE w = u BY <3>1, <4>1, <1>i, <1>0, <1>c, <1>f, <1>h, <1>s DEF UnitInv, HeldHandle,
           InFlight
      <4>2. CASE w # u BY <3>1, <4>2, <1>i, <1>0, <1>c, <1>f, <1>h, <1>s DEF UnitInv, HeldHandle,
           InFlight
      <4> QED BY <4>1, <4>2
    <3> QED BY <3>2, <3>3, <3>4, <3>5, <3>6, <3>7, <3>8 DEF UnitInv
  <2> QED BY <2>1 DEF UnitsInv
<1> QED BY <1>1, <1>2, <1>3, <1>4, <1>5, <1>6, <1>7, <1>8, <1>9, <1>10 DEF SupInv

\* A tick starts with the units it watches.
LEMMA TickKeeps ==
  ASSUME SupInv, Tick
  PROVE  SupInv'
<1>i. /\ TypeOK /\ Phases /\ Booting /\ Todo /\ Launching /\ Backed /\ Left
      /\ SomeDegraded /\ Owned /\ UnitsInv
  BY DEF SupInv
<1>0. sup.pc = "due" /\ sup.phase = "run" /\ sup.todo = {} /\ requests' = {}
  BY <1>i DEF Tick, Idle, TypeOK, SupRecs, Phases, LaunchPcs
<1>q. /\ pending' \subseteq Units /\ pending \subseteq pending'
      /\ \A u \in requests : u \in pending'
      /\ \A u \in pending' : u \in pending \/ u \in requests
  BY Zenon, <1>i, <1>0 DEF Tick, TypeOK, UnitsInv, UnitInv, QueuedUnit, Watched, Settled, InFlight
<1>s. sup' \in SupRecs /\ sup'.phase = sup.phase /\ sup'.pc = "scan" /\ sup'.next = sup.next
      /\ sup'.unit = sup.unit /\ sup'.pid = sup.pid /\ \A u \in sup'.todo : u \in Units
           /\ active[u] # NoPid
  BY Zenon, <1>i DEF Tick, TypeOK, SupRecs, Pcs, LaunchPcs, IdlePcs
<1>v. UNCHANGED <<unit, system, proc, active, posted, bound, root, rootPid, stopping, retries,
  streak>>
  BY DEF Tick
<1>1. TypeOK' BY <1>i, <1>0, <1>q, <1>s, <1>v DEF TypeOK
<1>2. Phases' BY <1>i, <1>0, <1>s, <1>v DEF Phases, LaunchPcs, IdlePcs
<1>3. Booting' BY Zenon, <1>i, <1>0, <1>q, <1>s, <1>v DEF Booting, LaunchPcs
<1>4. Todo' BY Zenon, <1>i, <1>0, <1>q, <1>s, <1>v DEF Todo, LaunchPcs
<1>5. Launching' BY <1>i, <1>0, <1>q, <1>s, <1>v DEF Launching, Running
<1>6. Backed' BY Zenon, <1>i, <1>0, <1>q, <1>s, <1>v DEF Backed
<1>7. Left' BY <1>i, <1>0, <1>s, <1>v DEF Left
<1>8. SomeDegraded' BY <1>i, <1>0, <1>q, <1>s, <1>v DEF SomeDegraded
<1>9. Owned'
  <2>1. ASSUME NEW p \in DOMAIN proc' PROVE OwnedProc(p)'
    <3>1. p \in DOMAIN proc => OwnedProc(p) /\ proc[p].of \in Units /\ p # NoPid
      BY <1>i, ProcOf DEF Owned, TypeOK
    <3> QED BY <3>1, <1>i, <1>0, <1>q, <1>s, <1>v DEF OwnedProc, InFlight
  <2> QED BY <2>1 DEF Owned
<1>10. UnitsInv'
  <2>1. ASSUME NEW w \in Units PROVE UnitInv(w)'
    <3>1. UnitInv(w) BY <1>i DEF UnitsInv
    <3>2. QuietUnit(w)' /\ KnownPids(w)' /\ Watched(w)' /\ QueuedUnit(w)' /\ CountedUnit(w)' /\
         ShownUnit(w)' /\ HeldHandle(w)'
      BY Zenon, <3>1, <1>i, <1>0, <1>q, <1>s, <1>v DEF UnitInv, QuietUnit, Terminal, KnownPids,
        PidOf,
           Watched, Settled, InFlight, QueuedUnit, CountedUnit, ShownUnit, HeldHandle
    <3> QED BY <3>2 DEF UnitInv
  <2> QED BY <2>1 DEF UnitsInv
<1> QED BY <1>1, <1>2, <1>3, <1>4, <1>5, <1>6, <1>7, <1>8, <1>9, <1>10 DEF SupInv

\* A unit whose Process runs is left alone.
LEMMA ScanUnitKeeps ==
  ASSUME SupInv, ScanUnit
  PROVE  SupInv'
<1>i. /\ TypeOK /\ Phases /\ Booting /\ Todo /\ Launching /\ Backed /\ Left
      /\ SomeDegraded /\ Owned /\ UnitsInv
  BY DEF SupInv
<1>0. sup.pc = "scan" /\ sup.phase = "run"
  BY <1>i DEF ScanUnit, TypeOK, SupRecs, Phases, LaunchPcs
<1>s. sup' \in SupRecs /\ sup'.phase = sup.phase /\ sup'.pc = sup.pc /\ sup'.next = sup.next
      /\ sup'.unit = sup.unit /\ sup'.pid = sup.pid /\ sup'.todo \subseteq sup.todo
  BY Zenon, <1>i DEF ScanUnit, TypeOK, SupRecs, Pcs, LaunchPcs, IdlePcs
<1>v. UNCHANGED <<unit, system, requests, proc, active, pending, posted, bound, root, rootPid,
  stopping, retries, streak>>
  BY DEF ScanUnit, manager
<1>1. TypeOK' BY Zenon, <1>i, <1>0, <1>s, <1>v DEF TypeOK
<1>2. Phases' BY Zenon, <1>i, <1>0, <1>s, <1>v DEF Phases, LaunchPcs, IdlePcs
<1>3. Booting' BY Zenon, <1>i, <1>0, <1>s, <1>v DEF Booting, LaunchPcs
<1>4. Todo' BY Zenon, <1>i, <1>0, <1>s, <1>v DEF Todo, LaunchPcs
<1>5. Launching' BY <1>i, <1>0, <1>s, <1>v DEF Launching, Running
<1>6. Backed' BY Zenon, <1>i, <1>0, <1>s, <1>v DEF Backed
<1>7. Left' BY <1>i, <1>0, <1>s, <1>v DEF Left
<1>8. SomeDegraded' BY <1>i, <1>0, <1>s, <1>v DEF SomeDegraded
<1>9. Owned'
  <2>1. ASSUME NEW p \in DOMAIN proc' PROVE OwnedProc(p)'
    <3>1. p \in DOMAIN proc => OwnedProc(p) /\ proc[p].of \in Units /\ p # NoPid
      BY <1>i, ProcOf DEF Owned, TypeOK
    <3> QED BY <3>1, <1>i, <1>0, <1>s, <1>v DEF OwnedProc, InFlight
  <2> QED BY <2>1 DEF Owned
<1>10. UnitsInv'
  <2>1. ASSUME NEW w \in Units PROVE UnitInv(w)'
    <3>1. UnitInv(w) BY <1>i DEF UnitsInv
    <3>2. QuietUnit(w)' /\ KnownPids(w)' /\ Watched(w)' /\ QueuedUnit(w)' /\ CountedUnit(w)' /\
         ShownUnit(w)' /\ HeldHandle(w)'
      BY Zenon, <3>1, <1>i, <1>0, <1>s, <1>v DEF UnitInv, QuietUnit, Terminal, KnownPids,
        PidOf, Watched,
           Settled, InFlight, QueuedUnit, CountedUnit, ShownUnit, HeldHandle
    <3> QED BY <3>2 DEF UnitInv
  <2> QED BY <2>1 DEF UnitsInv
<1> QED BY <1>1, <1>2, <1>3, <1>4, <1>5, <1>6, <1>7, <1>8, <1>9, <1>10 DEF SupInv

\* After the exits come the units whose backoff has passed.
LEMMA ScanDoneKeeps ==
  ASSUME SupInv, NEW due \in SUBSET pending, ScanDone(due)
  PROVE  SupInv'
<1>i. /\ TypeOK /\ Phases /\ Booting /\ Todo /\ Launching /\ Backed /\ Left
      /\ SomeDegraded /\ Owned /\ UnitsInv
  BY DEF SupInv
<1>0. sup.pc = "scan" /\ sup.phase = "run"
  BY <1>i DEF ScanDone, TypeOK, SupRecs, Phases, LaunchPcs
<1>s. sup' \in SupRecs /\ sup'.phase = sup.phase /\ sup'.pc = "due" /\ sup'.next = sup.next
  /\ sup'.unit = sup.unit /\ sup'.pid = sup.pid /\ sup'.todo = due
  BY Zenon, <1>i DEF ScanDone, TypeOK, SupRecs, Pcs, LaunchPcs, IdlePcs
<1>v. UNCHANGED <<unit, system, requests, proc, active, pending, posted, bound, root, rootPid,
  stopping, retries, streak>>
  BY DEF ScanDone, manager
<1>1. TypeOK' BY Zenon, <1>i, <1>0, <1>s, <1>v DEF TypeOK
<1>2. Phases' BY Zenon, <1>i, <1>0, <1>s, <1>v DEF Phases, LaunchPcs, IdlePcs
<1>3. Booting' BY <1>i, <1>0, <1>s, <1>v DEF Booting, LaunchPcs
<1>4. Todo' BY Zenon, <1>i, <1>0, <1>s, <1>v DEF Todo, LaunchPcs
<1>5. Launching' BY <1>i, <1>0, <1>s, <1>v DEF Launching, Running
<1>6. Backed' BY Zenon, <1>i, <1>0, <1>s, <1>v DEF Backed
<1>7. Left' BY Zenon, <1>i, <1>0, <1>s, <1>v DEF Left
<1>8. SomeDegraded' BY <1>i, <1>0, <1>s, <1>v DEF SomeDegraded
<1>9. Owned'
  <2>1. ASSUME NEW p \in DOMAIN proc' PROVE OwnedProc(p)'
    <3>1. p \in DOMAIN proc => OwnedProc(p) /\ proc[p].of \in Units /\ p # NoPid
      BY <1>i, ProcOf DEF Owned, TypeOK
    <3> QED BY <3>1, <1>i, <1>0, <1>s, <1>v DEF OwnedProc, InFlight
  <2> QED BY <2>1 DEF Owned
<1>10. UnitsInv'
  <2>1. ASSUME NEW w \in Units PROVE UnitInv(w)'
    <3>1. UnitInv(w) BY <1>i DEF UnitsInv
    <3>2. QuietUnit(w)' /\ KnownPids(w)' /\ Watched(w)' /\ QueuedUnit(w)' /\ CountedUnit(w)' /\
         ShownUnit(w)' /\ HeldHandle(w)'
      BY Zenon, <3>1, <1>i, <1>0, <1>s, <1>v DEF UnitInv, QuietUnit, Terminal, KnownPids,
        PidOf, Watched,
           Settled, InFlight, QueuedUnit, CountedUnit, ShownUnit, HeldHandle
    <3> QED BY <3>2 DEF UnitInv
  <2> QED BY <2>1 DEF UnitsInv
<1> QED BY <1>1, <1>2, <1>3, <1>4, <1>5, <1>6, <1>7, <1>8, <1>9, <1>10 DEF SupInv

\* The loop ends on shutdown by stopping the Root.
LEMMA StopRootKeeps ==
  ASSUME SupInv, StopRoot
  PROVE  SupInv'
<1>i. /\ TypeOK /\ Phases /\ Booting /\ Todo /\ Launching /\ Backed /\ Left
      /\ SomeDegraded /\ Owned /\ UnitsInv
  BY DEF SupInv
<1>0. sup.pc = "due" /\ sup.phase = "run" /\ sup.pid = NoPid
  BY <1>i DEF StopRoot, Idle, TypeOK, SupRecs, Phases, LaunchPcs, IdlePcs
<1>p. /\ proc' \in Seq(ProcRecs) /\ DOMAIN proc' = DOMAIN proc
      /\ \A q \in DOMAIN proc : proc'[q].of = proc[q].of
      /\ \A q \in DOMAIN proc : proc'[q].state = "running" => proc[q].state = "running"
  BY <1>i, ExitedFacts DEF StopRoot, TypeOK, Codes
<1>s. sup' \in SupRecs /\ sup'.phase = sup.phase /\ sup'.pc \in {"stop", "dead"}
  /\ sup'.next = sup.next
      /\ sup'.unit = sup.unit /\ sup'.pid = sup.pid /\ sup'.todo = sup.todo
  BY Zenon, <1>i DEF StopRoot, TypeOK, SupRecs, Pcs, LaunchPcs, IdlePcs
<1>v. bound' = NoPid /\ bound' \in Nat /\ root' \in Nat /\ UNCHANGED <<unit, system, requests,
  active, pending, posted, rootPid, stopping, retries, streak>>
  BY DEF StopRoot, manager, NoPid
<1>1. TypeOK' BY Zenon, <1>i, <1>0, <1>p, <1>s, <1>v DEF TypeOK
<1>2. Phases' BY <1>i, <1>0, <1>s, <1>v DEF Phases, LaunchPcs, IdlePcs
<1>3. Booting' BY Zenon, <1>i, <1>0, <1>p, <1>s, <1>v DEF Booting, LaunchPcs
<1>4. Todo' BY Zenon, <1>i, <1>0, <1>s, <1>v DEF Todo, LaunchPcs
<1>5. Launching' BY Zenon, <1>i, <1>0, <1>p, <1>s, <1>v DEF Launching, Running
<1>6. Backed' BY Zenon, <1>i, <1>0, <1>p, <1>s, <1>v DEF Backed
<1>7. Left' BY Zenon, <1>i, <1>0, <1>s, <1>v DEF Left
<1>8. SomeDegraded' BY Zenon, <1>i, <1>0, <1>p, <1>s, <1>v DEF SomeDegraded
<1>9. Owned'
  <2>1. ASSUME NEW p \in DOMAIN proc' PROVE OwnedProc(p)'
    <3>1. p \in DOMAIN proc => OwnedProc(p) /\ proc[p].of \in Units /\ p # NoPid
      BY <1>i, ProcOf DEF Owned, TypeOK
    <3> QED BY <3>1, <1>i, <1>0, <1>p, <1>s, <1>v DEF OwnedProc, InFlight
  <2> QED BY <2>1 DEF Owned
<1>10. UnitsInv'
  <2>1. ASSUME NEW w \in Units PROVE UnitInv(w)'
    <3>1. UnitInv(w) BY <1>i DEF UnitsInv
    <3>2. QuietUnit(w)' /\ KnownPids(w)' /\ Watched(w)' /\ QueuedUnit(w)' /\ CountedUnit(w)' /\
         ShownUnit(w)' /\ HeldHandle(w)'
      BY Zenon, <3>1, <1>i, <1>0, <1>p, <1>s, <1>v DEF UnitInv, QuietUnit, Terminal, KnownPids,
        PidOf,
           Watched, Settled, InFlight, QueuedUnit, CountedUnit, ShownUnit, HeldHandle
    <3> QED BY <3>2 DEF UnitInv
  <2> QED BY <2>1 DEF UnitsInv
<1> QED BY <1>1, <1>2, <1>3, <1>4, <1>5, <1>6, <1>7, <1>8, <1>9, <1>10 DEF SupInv

\* Then all units are stopped and withdrawn.
LEMMA StopUnitsKeeps ==
  ASSUME SupInv, StopUnits
  PROVE  SupInv'
<1>i. /\ TypeOK /\ Phases /\ Booting /\ Todo /\ Launching /\ Backed /\ Left
      /\ SomeDegraded /\ Owned /\ UnitsInv
  BY DEF SupInv
<1>0. sup.pc = "stop" /\ sup.phase = "run" /\ sup.pid = NoPid /\ bound = NoPid
  BY Zenon, <1>i DEF StopUnits, TypeOK, SupRecs, Phases, LaunchPcs, IdlePcs, Backed
<1>p. /\ proc' \in Seq(ProcRecs) /\ DOMAIN proc' = DOMAIN proc
      /\ \A p \in DOMAIN proc : proc'[p].of = proc[p].of /\ proc'[p].state # "running"
  <2>1. proc \in Seq(ProcRecs) /\ DOMAIN proc = 1 .. Len(proc) /\ Len(proc) \in Nat
    BY <1>i DEF TypeOK
  <2>2. proc' = [p \in DOMAIN proc |->
                   IF \E u \in Units : active[u] = p /\ Running(p)
                   THEN [proc[p] EXCEPT !.state = "exited", !.code = 0] ELSE proc[p]]
    BY Zenon DEF StopUnits
  <2>3. \A p \in DOMAIN proc : proc[p] \in ProcRecs BY <2>1
  <2>4. ASSUME NEW p \in DOMAIN proc
        PROVE  proc'[p] \in ProcRecs /\ proc'[p].of = proc[p].of /\ proc'[p].state # "running"
    <3>1. proc[p].of \in Units /\ proc[p].state \in {"running", "exited"} BY <2>3 DEF ProcRecs
    <3>2. Running(p) => active[proc[p].of] = p
      BY <1>i, <1>0 DEF Owned, OwnedProc, Running, InFlight
    <3>3. CASE Running(p)
      <4>1. proc'[p] = [proc[p] EXCEPT !.state = "exited", !.code = 0]
        BY Zenon, <2>2, <3>1, <3>2, <3>3
      <4> QED BY Zenon, <2>3, <4>1 DEF ProcRecs, Codes
    <3>4. CASE ~Running(p)
      <4>1. proc'[p] = proc[p] BY Zenon, <2>2, <3>4
      <4> QED BY <2>3, <3>4, <4>1 DEF Running
    <3> QED BY <3>3, <3>4
  <2>5. DOMAIN proc' = 1 .. Len(proc) BY Zenon, <2>1, <2>2
  <2>6. proc' \in [1 .. Len(proc) -> ProcRecs] BY Zenon, <2>1, <2>2, <2>4
  <2>7. proc' \in Seq(ProcRecs) BY <2>1, <2>6
  <2> QED BY <2>1, <2>4, <2>5, <2>7
<1>s. sup' \in SupRecs /\ sup'.phase = sup.phase /\ sup'.pc = "stopped"
  /\ sup'.next = sup.next /\ sup'.unit = sup.unit /\ sup'.pid = sup.pid /\ sup'.todo = sup.todo
  BY Zenon, <1>i DEF StopUnits, TypeOK, SupRecs, Pcs, LaunchPcs, IdlePcs
<1>a. active' \in [Units -> Nat] /\ \A u \in Units : active'[u] = NoPid
  BY Zenon DEF StopUnits, NoPid
<1>k. posted' \in [Units -> Nat] /\ \A u \in Units : posted'[u] = NoPid
  BY Zenon, <1>i, <1>0 DEF StopUnits, TypeOK, Owned, OwnedProc, UnitsInv, UnitInv, HeldHandle,
    InFlight,
       NoPid
<1>v. UNCHANGED <<unit, system, requests, pending, bound, root, rootPid, stopping, retries,
  streak>>
  BY Zenon DEF StopUnits, manager
<1>1. TypeOK' BY Zenon, <1>i, <1>0, <1>p, <1>s, <1>a, <1>k, <1>v DEF TypeOK
<1>2. Phases' BY <1>i, <1>0, <1>s, <1>v DEF Phases, LaunchPcs, IdlePcs
<1>3. Booting' BY Zenon, <1>i, <1>0, <1>p, <1>s, <1>a, <1>k, <1>v DEF Booting, LaunchPcs
<1>4. Todo' BY Zenon, <1>i, <1>0, <1>s, <1>a, <1>v DEF Todo, LaunchPcs
<1>5. Launching' BY Zenon, <1>i, <1>0, <1>p, <1>s, <1>a, <1>k, <1>v DEF Launching, Running
<1>6. Backed' BY Zenon, <1>i, <1>0, <1>p, <1>s, <1>a, <1>k, <1>v DEF Backed
<1>7. Left' BY Zenon, <1>i, <1>0, <1>s, <1>v DEF Left
<1>8. SomeDegraded' BY Zenon, <1>i, <1>0, <1>p, <1>s, <1>a, <1>k, <1>v DEF SomeDegraded
<1>9. Owned'
  <2>1. ASSUME NEW p \in DOMAIN proc' PROVE OwnedProc(p)'
    <3>1. p \in DOMAIN proc => OwnedProc(p) /\ proc[p].of \in Units /\ p # NoPid
      BY <1>i, ProcOf DEF Owned, TypeOK
    <3> QED BY <3>1, <1>i, <1>0, <1>p, <1>s, <1>a, <1>k, <1>v DEF OwnedProc, InFlight
  <2> QED BY <2>1 DEF Owned
<1>10. UnitsInv'
  <2>1. ASSUME NEW w \in Units PROVE UnitInv(w)'
    <3>1. UnitInv(w) BY <1>i DEF UnitsInv
    <3>2. QuietUnit(w)' /\ KnownPids(w)' /\ Watched(w)' /\ QueuedUnit(w)' /\ CountedUnit(w)' /\
         ShownUnit(w)' /\ HeldHandle(w)'
      BY Zenon, <3>1, <1>i, <1>0, <1>p, <1>s, <1>a, <1>k, <1>v DEF UnitInv, QuietUnit, Terminal,
           KnownPids, PidOf, Watched, Settled, InFlight, QueuedUnit, CountedUnit, ShownUnit,
             HeldHandle
    <3> QED BY <3>2 DEF UnitInv
  <2> QED BY <2>1 DEF UnitsInv
<1> QED BY <1>1, <1>2, <1>3, <1>4, <1>5, <1>6, <1>7, <1>8, <1>9, <1>10 DEF SupInv

\* A Process exits by itself, unseen by the task.
LEMMA ProcessExitsKeeps ==
  ASSUME SupInv, NEW p \in DOMAIN proc, NEW code \in Codes, ProcessExits(p, code)
  PROVE  SupInv'
<1>i. /\ TypeOK /\ Phases /\ Booting /\ Todo /\ Launching /\ Backed /\ Left
      /\ SomeDegraded /\ Owned /\ UnitsInv
  BY DEF SupInv
<1>p. /\ proc' \in Seq(ProcRecs) /\ DOMAIN proc' = DOMAIN proc
      /\ \A q \in DOMAIN proc : proc'[q].of = proc[q].of
      /\ \A q \in DOMAIN proc : proc'[q].state = "running" => proc[q].state = "running"
  <2>1. proc \in Seq(ProcRecs) /\ proc' = Exited(proc, p, code) BY <1>i DEF ProcessExits, TypeOK
  <2> QED BY Zenon, <2>1, ExitedFacts
<1>v. UNCHANGED <<unit, system, requests, active, pending, posted, bound, root, rootPid, sup,
  stopping, retries, streak>>
  BY Zenon DEF ProcessExits, manager
<1>1. TypeOK' BY Zenon, <1>i, <1>p, <1>v DEF TypeOK
<1>2. Phases' BY <1>i, <1>v DEF Phases, LaunchPcs, IdlePcs
<1>3. Booting' BY Zenon, <1>i, <1>p, <1>v DEF Booting, LaunchPcs
<1>4. Todo' BY Zenon, <1>i, <1>v DEF Todo, LaunchPcs
<1>5. Launching' BY Zenon, <1>i, <1>p, <1>v DEF Launching, Running
<1>6. Backed' BY <1>i, <1>p, <1>v DEF Backed
<1>7. Left' BY <1>i, <1>v DEF Left
<1>8. SomeDegraded' BY <1>i, <1>p, <1>v DEF SomeDegraded
<1>9. Owned'
  <2>1. ASSUME NEW r \in DOMAIN proc' PROVE OwnedProc(r)'
    <3>1. r \in DOMAIN proc => OwnedProc(r) /\ proc[r].of \in Units /\ r # NoPid
      BY <1>i, ProcOf DEF Owned, TypeOK
    <3> QED BY <3>1, <1>i, <1>p, <1>v DEF OwnedProc, InFlight
  <2> QED BY <2>1 DEF Owned
<1>10. UnitsInv'
  <2>1. ASSUME NEW w \in Units PROVE UnitInv(w)'
    <3>1. UnitInv(w) BY <1>i DEF UnitsInv
    <3>2. QuietUnit(w)'
      BY Zenon, <3>1, <1>i, <1>p, <1>v DEF UnitInv, QuietUnit, Terminal
    <3>3. KnownPids(w)'
      BY Zenon, <3>1, <1>i, <1>p, <1>v DEF UnitInv, KnownPids, PidOf, Terminal
    <3>4. Watched(w)'
      BY Zenon, <3>1, <1>i, <1>p, <1>v DEF UnitInv, Watched, Settled, InFlight
    <3>5. QueuedUnit(w)'
      BY Zenon, <3>1, <1>i, <1>p, <1>v DEF UnitInv, QueuedUnit, InFlight
    <3>6. CountedUnit(w)'
      BY Zenon, <3>1, <1>i, <1>p, <1>v DEF UnitInv, CountedUnit
    <3>7. ShownUnit(w)'
      BY Zenon, <3>1, <1>i, <1>p, <1>v DEF UnitInv, ShownUnit, Terminal
    <3>8. HeldHandle(w)'
      BY <3>1, <1>i, <1>p, <1>v DEF UnitInv, HeldHandle, InFlight
    <3> QED BY <3>2, <3>3, <3>4, <3>5, <3>6, <3>7, <3>8 DEF UnitInv
  <2> QED BY <2>1 DEF UnitsInv
<1> QED BY <1>1, <1>2, <1>3, <1>4, <1>5, <1>6, <1>7, <1>8, <1>9, <1>10 DEF SupInv

\* shutdown() is called.
LEMMA ShutdownKeeps ==
  ASSUME SupInv, Shutdown
  PROVE  SupInv'
<1>i. /\ TypeOK /\ Phases /\ Booting /\ Todo /\ Launching /\ Backed /\ Left
      /\ SomeDegraded /\ Owned /\ UnitsInv
  BY DEF SupInv
<1>0. sup.phase = "run" /\ sup.pc # "aborted"
  BY DEF Shutdown
<1>v. stopping' \in BOOLEAN /\ system' = "Stopping" /\ UNCHANGED <<unit, requests, proc,
  active, pending, posted, bound, root, rootPid, sup, retries, streak>>
  BY DEF Shutdown
<1>1. TypeOK' BY <1>i, <1>0, <1>v DEF TypeOK
<1>2. Phases' BY <1>i, <1>0, <1>v DEF Phases, LaunchPcs, IdlePcs
<1>3. Booting' BY Zenon, <1>i, <1>0, <1>v DEF Booting, LaunchPcs
<1>4. Todo' BY Zenon, <1>i, <1>0, <1>v DEF Todo, LaunchPcs
<1>5. Launching' BY Zenon, <1>i, <1>0, <1>v DEF Launching, Running
<1>6. Backed' BY Zenon, <1>i, <1>0, <1>v DEF Backed
<1>7. Left' BY <1>i, <1>0, <1>v DEF Left
<1>8. SomeDegraded' BY <1>i, <1>0, <1>v DEF SomeDegraded
<1>9. Owned'
  <2>1. ASSUME NEW p \in DOMAIN proc' PROVE OwnedProc(p)'
    <3>1. p \in DOMAIN proc => OwnedProc(p) /\ proc[p].of \in Units /\ p # NoPid
      BY <1>i, ProcOf DEF Owned, TypeOK
    <3> QED BY <3>1, <1>i, <1>0, <1>v DEF OwnedProc, InFlight
  <2> QED BY <2>1 DEF Owned
<1>10. UnitsInv'
  <2>1. ASSUME NEW w \in Units PROVE UnitInv(w)'
    <3>1. UnitInv(w) BY <1>i DEF UnitsInv
    <3>2. QuietUnit(w)'
      BY <3>1, <1>i, <1>0, <1>v DEF UnitInv, QuietUnit, Terminal
    <3>3. KnownPids(w)'
      BY Zenon, <3>1, <1>i, <1>0, <1>v DEF UnitInv, KnownPids, PidOf, Terminal
    <3>4. Watched(w)'
      BY Zenon, <3>1, <1>i, <1>0, <1>v DEF UnitInv, Watched, Settled, InFlight
    <3>5. QueuedUnit(w)'
      BY Zenon, <3>1, <1>i, <1>0, <1>v DEF UnitInv, QueuedUnit, InFlight
    <3>6. CountedUnit(w)'
      BY Zenon, <3>1, <1>i, <1>0, <1>v DEF UnitInv, CountedUnit
    <3>7. ShownUnit(w)'
      BY Zenon, <3>1, <1>i, <1>0, <1>v DEF UnitInv, ShownUnit, Terminal
    <3>8. HeldHandle(w)'
      BY <3>1, <1>i, <1>0, <1>v DEF UnitInv, HeldHandle, InFlight
    <3> QED BY <3>2, <3>3, <3>4, <3>5, <3>6, <3>7, <3>8 DEF UnitInv
  <2> QED BY <2>1 DEF UnitsInv
<1> QED BY <1>1, <1>2, <1>3, <1>4, <1>5, <1>6, <1>7, <1>8, <1>9, <1>10 DEF SupInv

\* A retry written to a failed unit resets its budget and asks for a launch.
LEMMA RetryKeeps ==
  ASSUME SupInv, NEW u \in Units, Retry(u)
  PROVE  SupInv'
<1>i. /\ TypeOK /\ Phases /\ Booting /\ Todo /\ Launching /\ Backed /\ Left
      /\ SomeDegraded /\ Owned /\ UnitsInv
  BY DEF SupInv
<1>0. unit[u].status \in Terminal /\ ((sup.phase = "run") <=> (sup.pc # "aborted"))
  BY <1>i DEF Retry, UnitsInv, UnitInv, QuietUnit
<1>n. sup.unit \in Units /\ (u = sup.unit => sup.pc \notin LaunchPcs)
  BY <1>i, <1>0 DEF TypeOK, SupRecs, Launching, Terminal, LaunchPcs
<1>u. /\ unit' \in [Units -> UnitRecs] /\ \A v \in Units : v # u => unit'[v] = unit[v]
      /\ unit'[u].status = "Pending" /\ unit'[u].pid = unit[u].pid /\ unit'[u].attempts = 0
      /\ unit'[u].degraded = FALSE
  BY Zenon, <1>i DEF Retry, TypeOK, UnitRecs, Statuses
<1>y. /\ \/ system' = "Degraded" /\ \E v \in Units : unit'[v].degraded
         \/ system' = "Ready" /\ ~\E v \in Units : unit'[v].degraded
      /\ requests' = requests \cup {u} /\ retries' \in Nat
  BY <1>i DEF Retry, TypeOK
<1>k. streak' \in [Units -> Nat] /\ streak'[u] = 0 /\ \A v \in Units : v # u =>
  streak'[v] = streak[v]
  BY <1>i DEF Retry, TypeOK
<1>v. UNCHANGED <<proc, active, pending, posted, bound, root, rootPid, sup, stopping>>
  BY DEF Retry
<1>1. TypeOK' BY Zenon, <1>i, <1>0, <1>n, <1>u, <1>y, <1>k, <1>v DEF TypeOK
<1>2. Phases' BY Zenon, <1>i, <1>0, <1>u, <1>v DEF Phases, LaunchPcs, IdlePcs
<1>3. Booting' BY Zenon, <1>i, <1>0, <1>n, <1>u, <1>y, <1>k, <1>v DEF Booting, LaunchPcs
<1>4. Todo' BY Zenon, <1>i, <1>0, <1>u, <1>v DEF Todo, LaunchPcs
<1>5. Launching'
  BY Zenon, <1>i, <1>0, <1>n, <1>u, <1>y, <1>k, <1>v DEF Launching, Running, LaunchPcs
<1>6. Backed' BY Zenon, <1>i, <1>0, <1>n, <1>u, <1>y, <1>k, <1>v DEF Backed
<1>7. Left' BY Zenon, <1>i, <1>0, <1>u, <1>y, <1>v DEF Left
<1>8. SomeDegraded'
  <2>1. ASSUME NEW v \in Units, unit'[v].degraded PROVE v \in Required
    <3>1. v # u /\ unit[v].degraded BY <1>u, <2>1
    <3> QED BY <1>i, <3>1 DEF UnitsInv, UnitInv, ShownUnit
  <2> QED BY <1>y, <2>1 DEF SomeDegraded
<1>9. Owned'
  <2>1. ASSUME NEW p \in DOMAIN proc' PROVE OwnedProc(p)'
    <3>1. p \in DOMAIN proc => OwnedProc(p) /\ proc[p].of \in Units /\ p # NoPid
      BY Zenon, <1>i, ProcOf DEF Owned, TypeOK
    <3> QED BY Zenon, <3>1, <1>i, <1>0, <1>n, <1>u, <1>y, <1>k, <1>v DEF OwnedProc, InFlight
  <2> QED BY <2>1 DEF Owned
<1>10. UnitsInv'
  <2>1. ASSUME NEW w \in Units PROVE UnitInv(w)'
    <3>1. UnitInv(w) BY <1>i DEF UnitsInv
    <3>2. QuietUnit(w)'
      BY Zenon, <3>1, <1>i, <1>0, <1>n, <1>u, <1>y, <1>k, <1>v DEF UnitInv, QuietUnit, Terminal
    <3>3. KnownPids(w)'
      BY Zenon, <3>1, <1>i, <1>0, <1>n, <1>u, <1>y, <1>k, <1>v DEF UnitInv, KnownPids, PidOf,
        Terminal
    <3>4. Watched(w)'
      <4>1. CASE w = u BY Zenon, <3>1, <4>1, <1>i, <1>0, <1>n, <1>u, <1>y, <1>k, <1>v DEF UnitInv,
           Watched, Settled, InFlight, LaunchPcs, Terminal
      <4>2. CASE w # u BY Zenon, <3>1, <4>2, <1>i, <1>0, <1>n, <1>u, <1>y, <1>k, <1>v DEF UnitInv,
           Watched, Settled, InFlight, LaunchPcs, Terminal
      <4> QED BY <4>1, <4>2
    <3>5. QueuedUnit(w)'
      <4>1. CASE w = u BY Zenon, <3>1, <4>1, <1>i, <1>0, <1>n, <1>u, <1>y, <1>k, <1>v DEF UnitInv,
           QueuedUnit, InFlight, LaunchPcs, Terminal
      <4>2. CASE w # u BY Zenon, <3>1, <4>2, <1>i, <1>0, <1>n, <1>u, <1>y, <1>k, <1>v DEF UnitInv,
           QueuedUnit, InFlight, LaunchPcs, Terminal
      <4> QED BY <4>1, <4>2
    <3>6. CountedUnit(w)'
      <4>1. CASE w = u
        <5>1. streak'[w] = 0 /\ unit'[w].attempts = 0 /\ RestartLimit \in Nat
          BY <1>u, <1>k, <4>1, Constants
        <5>2. ~(w = sup'.unit /\ sup'.pc \in {"terminate", "record"})
          BY <1>n, <1>v, <4>1 DEF LaunchPcs
        <5> QED BY <5>1, <5>2 DEF CountedUnit
      <4>2. CASE w # u BY Zenon, <3>1, <4>2, <1>u, <1>k, <1>v DEF UnitInv, CountedUnit
      <4> QED BY <4>1, <4>2
    <3>7. ShownUnit(w)'
      <4>1. CASE w = u BY Zenon, <3>1, <4>1, <1>i, <1>0, <1>n, <1>u, <1>y, <1>k, <1>v DEF UnitInv,
           ShownUnit, Terminal
      <4>2. CASE w # u BY Zenon, <3>1, <4>2, <1>i, <1>0, <1>n, <1>u, <1>y, <1>k, <1>v DEF UnitInv,
           ShownUnit, Terminal
      <4> QED BY <4>1, <4>2
    <3>8. HeldHandle(w)'
      BY Zenon, <3>1, <1>i, <1>0, <1>n, <1>u, <1>y, <1>k, <1>v DEF UnitInv, HeldHandle, InFlight
    <3> QED BY <3>2, <3>3, <3>4, <3>5, <3>6, <3>7, <3>8 DEF UnitInv
  <2> QED BY <2>1 DEF UnitsInv
<1> QED BY <1>1, <1>2, <1>3, <1>4, <1>5, <1>6, <1>7, <1>8, <1>9, <1>10 DEF SupInv

-----------------------------------------------------------------------------
(* The invariant holds initially and every step keeps it.                  *)

\* The invariant holds before boot().
LEMMA SupInitInv == Init => SupInv
<1> SUFFICES ASSUME Init PROVE SupInv OBVIOUS
<1>u. /\ unit \in [Units -> UnitRecs]
      /\ \A u \in Units : /\ unit[u].status = "Pending" /\ unit[u].pid = NoPid
                          /\ unit[u].attempts = 0 /\ unit[u].degraded = FALSE
  BY Zenon DEF Init, UnitRecs, Statuses, NoPid
<1>s. /\ sup \in SupRecs /\ sup.phase = "boot" /\ sup.pc = "next" /\ sup.next = 1
      /\ sup.unit = Root /\ sup.pid = NoPid /\ sup.todo = {}
  BY Zenon, Constants DEF Init, SupRecs, Pcs, LaunchPcs, IdlePcs, NoPid
<1>a. /\ active \in [Units -> Nat] /\ \A u \in Units : active[u] = NoPid
      /\ posted \in [Units -> Nat] /\ \A u \in Units : posted[u] = NoPid
      /\ streak \in [Units -> Nat] /\ \A u \in Units : streak[u] = 0
  BY Zenon DEF Init, NoPid
<1>v. /\ system = "Booting" /\ requests = {} /\ proc = <<>> /\ pending = {} /\ bound = NoPid
      /\ root = NoPid /\ rootPid = NoPid /\ stopping = FALSE /\ retries = 0
  BY DEF Init
<1>1. TypeOK
  <2>1. proc \in Seq(ProcRecs) BY <1>v
  <2>2. bound \in Nat /\ root \in Nat /\ rootPid \in Nat /\ retries \in Nat BY <1>v DEF NoPid
  <2> QED BY Zenon, <1>u, <1>s, <1>a, <1>v, <2>1, <2>2 DEF TypeOK
<1>2. Phases BY <1>s DEF Phases, LaunchPcs, IdlePcs
<1>3. Booting BY <1>u, <1>s, <1>v, Constants DEF Booting, Terminal
<1>4. Todo BY Zenon, <1>s DEF Todo
<1>5. Launching BY Zenon, <1>s DEF Launching
<1>6. Backed BY <1>s, <1>v DEF Backed
<1>7. Left /\ SomeDegraded BY <1>s DEF Left, SomeDegraded
<1>8. Owned BY <1>v DEF Owned
<1>9. UnitsInv
  <2> SUFFICES ASSUME NEW u \in Units PROVE UnitInv(u) BY DEF UnitsInv
  <2>1. QuietUnit(u) BY <1>u DEF QuietUnit, Terminal
  <2>2. KnownPids(u) BY <1>u, <1>a DEF KnownPids, PidOf
  <2>3. Watched(u) BY <1>u, <1>s, <1>a DEF Watched, Settled
  <2>4. QueuedUnit(u) BY Zenon, <1>v DEF QueuedUnit
  <2>5. CountedUnit(u) BY <1>u, <1>s, <1>a, Constants DEF CountedUnit
  <2>6. ShownUnit(u) BY Zenon, <1>u, <1>s DEF ShownUnit
  <2>7. HeldHandle(u) BY <1>a DEF HeldHandle
  <2> QED BY <2>1, <2>2, <2>3, <2>4, <2>5, <2>6, <2>7 DEF UnitInv
<1> QED BY <1>1, <1>2, <1>3, <1>4, <1>5, <1>6, <1>7, <1>8, <1>9 DEF SupInv

\* The readiness wait of the settle phase fails.
LEMMA SettleFailsKeeps == ASSUME SupInv, SettleFails PROVE SupInv'
<1>1. PICK stable \in BOOLEAN :
        HandleExit(Root, 1, stable, [sup EXCEPT !.pc = "spawn", !.pid = NoPid])
  BY DEF SettleFails
<1>2. sup.pc = "await" /\ active[sup.unit] # NoPid /\ proc' = Exited(proc, sup.pid, 1)
  BY DEF SettleFails
<1>3. GivesUp(Root) \/ Handles(Root, stable, [sup EXCEPT !.pc = "spawn", !.pid = NoPid])
  BY <1>1, HandleExitCases, Constants DEF SupInv, Codes
<1> QED BY <1>1, <1>2, <1>3, SettleGivesUpKeeps, SettleHandledKeeps
-----------------------------------------------------------------------------
INSTANCE WellFoundedInduction

\* The tick's next unit is one of those left: a smallest index exists.
LEMMA FirstIsOne ==
  ASSUME NEW us, us \subseteq Units, us # {}
  PROVE  First(us) \in us
<1> DEFINE T == {i \in DOMAIN Names : Names[i] \in us}
<1>1. DOMAIN Names \subseteq Nat /\ DOMAIN Names = 1 .. Len(Names) /\ Len(Names) \in Nat
  BY ConstantsAssumption
<1>2. T # {}
  BY ConstantsAssumption
<1>3. T \subseteq Nat BY <1>1
<1> HIDE DEF T
<1>4. \E i \in T : \A j \in T : ~ (<<j, i>> \in OpToRel(<, Nat))
  BY Zenon, <1>2, <1>3, NatLessThanWellFounded, WFMin
<1>5. PICK i \in T : \A j \in T : ~ (<<j, i>> \in OpToRel(<, Nat)) BY Zenon, <1>4
<1>6. \A j \in T : ~ (j < i)
  BY Zenon, <1>3, <1>5 DEF OpToRel
<1>7. i \in DOMAIN Names /\ Names[i] \in us /\ \A j \in 1 .. i - 1 : Names[j] \notin us
  <2>1. i \in DOMAIN Names /\ Names[i] \in us BY DEF T
  <2>2. ASSUME NEW j \in 1 .. i - 1, Names[j] \in us PROVE FALSE
    <3>1. j \in DOMAIN Names /\ j < i BY <1>1, <2>1
    <3> QED BY <1>6, <2>2, <3>1 DEF T
  <2> QED BY <2>1, <2>2
<1> QED BY <1>7 DEF First

\* A due unit is taken from pending and launched, or the tick ends.
LEMMA LaunchDueKeeps ==
  ASSUME SupInv, LaunchDue
  PROVE  SupInv'
<1>i. /\ TypeOK /\ Phases /\ Booting /\ Todo /\ Launching /\ Backed /\ Left
      /\ SomeDegraded /\ Owned /\ UnitsInv
  BY DEF SupInv
<1>0. sup.pc = "due" /\ sup.phase = "run" /\ sup.todo # {} /\ sup.todo \subseteq Units
  /\ sup.pid = NoPid
  BY <1>i DEF LaunchDue, TypeOK, SupRecs, Phases, LaunchPcs, IdlePcs
<1>u. /\ First(sup.todo) \in sup.todo /\ First(sup.todo) \in Units /\ First(sup.todo) \in pending
      /\ First(sup.todo) \notin requests /\ active[First(sup.todo)] = NoPid
      /\ posted[First(sup.todo)] = NoPid
           /\ unit[First(sup.todo)].status \in {"Pending", "Backoff"}
  <2>1. First(sup.todo) \in sup.todo BY Zenon, <1>0, FirstIsOne
  <2>2. First(sup.todo) \in Units /\ First(sup.todo) \in pending BY <1>i, <1>0, <2>1 DEF Todo
  <2>3. UnitInv(First(sup.todo)) BY <1>i, <2>2 DEF UnitsInv
  <2>4. unit[First(sup.todo)].status \in {"Pending", "Backoff"} /\ First(sup.todo) \notin requests
    BY <2>2, <2>3 DEF UnitInv, QueuedUnit
  <2>5. active[First(sup.todo)] = NoPid
    BY Zenon, <1>0, <2>3, <2>4 DEF UnitInv, UnitsInv, Watched, Settled, InFlight
  <2>6. posted[First(sup.todo)] = NoPid
    BY Zenon, <1>0, <2>3, <2>5 DEF UnitInv, HeldHandle, InFlight
  <2> QED BY Zenon, <2>1, <2>2, <2>4, <2>5, <2>6
<1>s. sup' \in SupRecs /\ sup'.phase = sup.phase /\ sup'.pc = "spawn"
  /\ sup'.next = sup.next /\ sup'.unit = First(sup.todo) /\ sup'.pid = sup.pid
       /\ sup'.todo = sup.todo \ {First(sup.todo)}
  BY Zenon, <1>i, <1>u DEF LaunchDue, TypeOK, SupRecs, Pcs, LaunchPcs, IdlePcs
<1>q. pending' = pending \ {First(sup.todo)}
  BY DEF LaunchDue
<1>v. UNCHANGED <<unit, system, requests, proc, active, posted, bound, root, rootPid, stopping,
  retries, streak>>
  BY DEF LaunchDue, manager
<1>1. TypeOK' BY Zenon, <1>i, <1>0, <1>u, <1>s, <1>q, <1>v DEF TypeOK
<1>2. Phases' BY <1>i, <1>0, <1>u, <1>s, <1>v DEF Phases, LaunchPcs, IdlePcs
<1>3. Booting' BY Zenon, <1>i, <1>0, <1>u, <1>s, <1>q, <1>v DEF Booting, LaunchPcs
<1>4. Todo' BY Zenon, <1>i, <1>0, <1>u, <1>s, <1>q, <1>v DEF Todo, LaunchPcs
<1>5. Launching' BY Zenon, <1>i, <1>0, <1>u, <1>s, <1>q, <1>v DEF Launching, Running
<1>6. Backed' BY Zenon, <1>i, <1>0, <1>u, <1>s, <1>q, <1>v DEF Backed
<1>7. Left' BY <1>i, <1>0, <1>u, <1>s, <1>v DEF Left
<1>8. SomeDegraded' BY <1>i, <1>0, <1>u, <1>s, <1>q, <1>v DEF SomeDegraded
<1>9. Owned'
  <2>1. ASSUME NEW p \in DOMAIN proc' PROVE OwnedProc(p)'
    <3>1. p \in DOMAIN proc => OwnedProc(p) /\ proc[p].of \in Units /\ p # NoPid
      BY <1>i, ProcOf DEF Owned, TypeOK
    <3> QED BY Zenon, <3>1, <1>i, <1>0, <1>u, <1>s, <1>q, <1>v DEF OwnedProc, InFlight
  <2> QED BY <2>1 DEF Owned
<1>10. UnitsInv'
  <2>1. ASSUME NEW w \in Units PROVE UnitInv(w)'
    <3>1. UnitInv(w) BY <1>i DEF UnitsInv
    <3>2. QuietUnit(w)' /\ KnownPids(w)' /\ Watched(w)' /\ QueuedUnit(w)' /\ CountedUnit(w)' /\
         ShownUnit(w)' /\ HeldHandle(w)'
      BY Zenon, <3>1, <1>i, <1>0, <1>u, <1>s, <1>q, <1>v DEF UnitInv, QuietUnit, Terminal,
        KnownPids,
           PidOf, Watched, Settled, InFlight, QueuedUnit, CountedUnit, ShownUnit, HeldHandle
    <3> QED BY <3>2 DEF UnitInv
  <2> QED BY <2>1 DEF UnitsInv
<1> QED BY <1>1, <1>2, <1>3, <1>4, <1>5, <1>6, <1>7, <1>8, <1>9, <1>10 DEF SupInv

\* One exit found by a tick.
LEMMA ScanExitKeeps == ASSUME SupInv, NEW u \in Units, ScanExit(u) PROVE SupInv'
<1>1. PICK stable \in BOOLEAN :
        HandleExit(u, proc[active[u]].code, stable, [sup EXCEPT !.todo = @ \ {u}])
  BY DEF ScanExit
<1>2. /\ sup.pc = "scan" /\ sup.todo # {} /\ u = First(sup.todo) /\ ~Running(active[u])
      /\ UNCHANGED proc
  BY DEF ScanExit
<1>3. u \in sup.todo /\ active[u] # NoPid
  BY Zenon, <1>2, FirstIsOne DEF SupInv, TypeOK, SupRecs, Todo
<1>4. proc[active[u]].code \in Codes
  <2>1. KnownPids(u) BY DEF SupInv, UnitsInv, UnitInv
  <2>2. active[u] \in DOMAIN proc BY <1>3, <2>1 DEF KnownPids, PidOf
  <2>3. proc \in Seq(ProcRecs) BY DEF SupInv, TypeOK
  <2>4. proc[active[u]] \in ProcRecs BY <2>2, <2>3
  <2> QED BY Zenon, <2>4 DEF ProcRecs
<1>5. GivesUp(u) \/ Handles(u, stable, [sup EXCEPT !.todo = @ \ {u}])
  BY <1>1, <1>4, HandleExitCases DEF SupInv
<1> QED BY <1>1, <1>2, <1>3, <1>5, ScanGivesUpKeeps, ScanHandledKeeps

\* Every step keeps the invariant.
LEMMA SupNextInv == SupInv /\ [Next]_vars => SupInv'
<1> SUFFICES ASSUME SupInv, [Next]_vars PROVE SupInv' OBVIOUS
<1>1. CASE Launch
  BY <1>1, SpawnKeeps, SpawnFailsKeeps, PublishKeeps, AwaitedKeeps, AwaitFailsKeeps,
     MarkReadyKeeps, TerminateKeeps, RecordKeeps DEF Launch
<1>2. CASE Boot
  BY <1>2, BootNextKeeps, BootRootKeeps, BootRootFailsKeeps, SettleFailsKeeps DEF Boot
<1>3. CASE Loop
  BY <1>3, TickKeeps, ScanUnitKeeps, LaunchDueKeeps, StopUnitsKeeps, ScanExitKeeps, ScanDoneKeeps
  DEF Loop
<1>4. CASE StopRoot BY <1>4, StopRootKeeps
<1>5. CASE Shutdown BY <1>5, ShutdownKeeps
<1>6. CASE \E u \in Units : Retry(u) BY <1>6, RetryKeeps
<1>7. CASE \E p \in DOMAIN proc, code \in Codes : ProcessExits(p, code)
  BY <1>7, ProcessExitsKeeps
<1>8. CASE UNCHANGED vars
  <2>1. TypeOK' /\ Phases' BY Zenon, <1>8 DEF vars, SupInv, TypeOK, Phases
  <2>2. Booting' /\ Todo' BY Zenon, <1>8 DEF vars, SupInv, Booting, Todo
  <2>3. Launching' BY Zenon, <1>8 DEF vars, SupInv, Launching, Running
  <2>4. Backed' /\ Left' /\ SomeDegraded'
    BY Zenon, <1>8 DEF vars, SupInv, Backed, Left, SomeDegraded
  <2>5. Owned' BY Zenon, <1>8 DEF vars, SupInv, Owned, OwnedProc, InFlight
  <2>6. UnitsInv'
    <3> SUFFICES ASSUME NEW w \in Units PROVE UnitInv(w)' BY Zenon DEF UnitsInv
    <3>1. UnitInv(w) BY Zenon DEF SupInv, UnitsInv
    <3>2. QuietUnit(w)' BY Zenon, <1>8, <3>1 DEF vars, UnitInv, QuietUnit
    <3>3. KnownPids(w)' BY Zenon, <1>8, <3>1 DEF vars, UnitInv, KnownPids, PidOf
    <3>4. Watched(w)' BY Zenon, <1>8, <3>1 DEF vars, UnitInv, Watched, Settled, InFlight
    <3>5. QueuedUnit(w)' BY Zenon, <1>8, <3>1 DEF vars, UnitInv, QueuedUnit, InFlight
    <3>6. CountedUnit(w)' BY Zenon, <1>8, <3>1 DEF vars, UnitInv, CountedUnit
    <3>7. ShownUnit(w)' BY Zenon, <1>8, <3>1 DEF vars, UnitInv, ShownUnit
    <3>8. HeldHandle(w)' BY Zenon, <1>8, <3>1 DEF vars, UnitInv, HeldHandle, InFlight
    <3> QED BY Zenon, <3>2, <3>3, <3>4, <3>5, <3>6, <3>7, <3>8 DEF UnitInv
  <2> QED BY <2>1, <2>2, <2>3, <2>4, <2>5, <2>6 DEF SupInv
<1> QED BY <1>1, <1>2, <1>3, <1>4, <1>5, <1>6, <1>7, <1>8 DEF Next

\* The invariant implies the property.
LEMMA SupInvImplies == SupInv => UnitsAreSupervised
<1> SUFFICES ASSUME SupInv PROVE UnitsAreSupervised OBVIOUS
<1>1. Supervised
  <2> SUFFICES ASSUME sup.phase = "run", sup.pc \notin {"dead", "aborted", "stopped"},
                      NEW u \in Units, ~InFlight(u)
      PROVE  CASE unit[u].status = "Ready" ->
                    active[u] # NoPid /\ active[u] = unit[u].pid /\ u \notin pending
               [] unit[u].status = "Backoff" -> active[u] = NoPid /\ u \in pending
               [] unit[u].status = "Pending" -> active[u] = NoPid /\ u \in requests \cup pending
               [] unit[u].status = "Starting" -> FALSE
               [] OTHER -> active[u] = NoPid /\ u \notin requests \cup pending
    BY DEF Supervised
  <2>1. /\ unit[u].status # "Starting"
        /\ unit[u].status = "Ready" => active[u] # NoPid /\ active[u] = unit[u].pid
        /\ unit[u].status # "Ready" => active[u] = NoPid
        /\ unit[u].status = "Backoff" => u \in pending
        /\ unit[u].status = "Pending" => u \in requests \cup pending
    BY Zenon DEF SupInv, UnitsInv, UnitInv, Watched, Settled
  <2>2. unit[u].status \notin {"Pending", "Backoff"} => u \notin requests \cup pending
    BY Zenon DEF SupInv, UnitsInv, UnitInv, QueuedUnit
  <2> QED BY <2>1, <2>2
<1>2. RestartBudget
  <2> SUFFICES ASSUME NEW u \in Units PROVE streak[u] <= RestartLimit + 1
    BY DEF RestartBudget
  <2>1. CASE u = sup.unit /\ sup.pc \in {"terminate", "record"} /\ sup.pid = NoPid
    <3>1. unit[u].status \in {"Pending", "Backoff"} BY <2>1 DEF SupInv, Launching
    <3>2. unit[u].attempts \in Nat BY DEF SupInv, TypeOK, UnitRecs
    <3>3. CountedUnit(u) BY DEF SupInv, UnitsInv, UnitInv
    <3>4. streak[u] = unit[u].attempts + 1 /\ unit[u].attempts <= RestartLimit
      BY <2>1, <3>1, <3>3 DEF CountedUnit
    <3>5. RestartLimit \in Nat BY Constants
    <3> QED BY <3>2, <3>4, <3>5
  <2>2. CASE ~(u = sup.unit /\ sup.pc \in {"terminate", "record"} /\ sup.pid = NoPid)
    BY <2>2 DEF SupInv, UnitsInv, UnitInv, CountedUnit
  <2> QED BY Zenon, <2>1, <2>2
<1>3. NothingOrphaned
  <2>1. \A p \in DOMAIN proc : Running(p) =>
          LET u == proc[p].of IN active[u] = p \/ (InFlight(u) /\ unit[u].pid = p)
    BY DEF SupInv, Owned, OwnedProc, Running
  <2>2. \A u \in Units : posted[u] # NoPid =>
          active[u] = posted[u] \/ (InFlight(u) /\ sup.pid = posted[u])
    BY DEF SupInv, UnitsInv, UnitInv, HeldHandle
  <2>3. sup.phase # "boot" => bound \in {NoPid, posted[Package]} BY DEF SupInv, Backed
  <2> QED BY <2>1, <2>2, <2>3 DEF NothingOrphaned
<1>4. DegradedShows
  BY Zenon, Constants DEF DegradedShows, SupInv, UnitsInv, UnitInv, ShownUnit, SomeDegraded
<1> QED BY <1>1, <1>2, <1>3, <1>4 DEF UnitsAreSupervised

\* While the supervisor loop runs every unit is watched, due, asked for or ended, no
\* running Process or posted handle is left behind, no unit is launched more often
\* than its budget allows, and a required unit that was given up shows: for any
\* set of Boot Units, any policies and any restart limit, whatever Processes exit,
\* launches fail and retries are written while the tick, launch and handle_exit of
\* the Service Manager run.
THEOREM SupervisorUnitsAreSupervised == Spec => []UnitsAreSupervised
<1>1. Init => SupInv BY SupInitInv
<1>2. SupInv /\ [Next]_vars => SupInv' BY SupNextInv
<1>3. SupInv => UnitsAreSupervised BY SupInvImplies
<1> QED BY <1>1, <1>2, <1>3, PTL DEF Spec
=============================================================================
