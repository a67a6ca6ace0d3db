--------------------------- MODULE Supervisor_proofs ---------------------------
(***************************************************************************)
(* UnitsAreSupervised of the Service Manager, proved for any set of Boot   *)
(* Units, policies and dependency order, any restart budget and any number *)
(* of Processes and retries.                                               *)
(***************************************************************************)
EXTENDS Supervisor, TLAPS

Statuses == {"Pending", "Starting", "Ready", "Backoff", "Exited", "Failed"}
LaunchPcs == {"spawn", "publish", "await", "mark", "terminate", "record"}
IdlePcs == {"next", "due", "scan", "stop", "stopped"}
Pcs == LaunchPcs \cup IdlePcs \cup {"dead", "aborted"}
UnitRecs == [status : Statuses, pid : Nat, attempts : Nat, degraded : BOOLEAN,
             ready_once : BOOLEAN]
ProcRecs == [of : Units, state : {"running", "exited"}, code : Codes]
SupRecs == [phase : {"boot", "settle", "run"}, pc : Pcs, next : Nat, unit : Units, pid : Nat,
            todo : SUBSET Units]

TypeOK ==
  /\ unit \in [Units -> UnitRecs]
  /\ system \in {"Booting", "Ready", "Degraded", "Failed", "Stopping"}
  /\ requests \subseteq Units /\ pending \subseteq Units
  /\ proc \in Seq(ProcRecs)
  /\ active \in [Units -> Nat] /\ posted \in [Units -> Nat]
  /\ bound \in Nat /\ root \in Nat /\ rootPid \in Nat
  /\ sup \in SupRecs
  /\ stopping \in BOOLEAN /\ retries \in Nat /\ streak \in [Units -> Nat]

-----------------------------------------------------------------------------
(* Where the task is.                                                      *)

\* The pcs of each phase; boot launches the units of its order one by one.
Phases ==
  /\ sup.phase = "boot" => sup.pc \in {"next", "aborted"} \cup LaunchPcs
  /\ sup.phase = "settle" => sup.pc \in {"aborted"} \cup LaunchPcs
  /\ sup.phase = "run" => sup.pc # "next"
  /\ sup.phase = "settle" /\ sup.pc \in LaunchPcs => sup.unit = Root
  /\ sup.phase = "boot" => sup.next > 0
  /\ sup.phase = "boot" /\ sup.pc \in LaunchPcs =>
       sup.next <= Len(BootOrder) /\ sup.unit = BootOrder[sup.next]
  /\ sup.pc = "publish" => sup.unit # Root
  /\ sup.pc \in IdlePcs \cup {"spawn"} => sup.pid = NoPid

\* What boot has not come to is untouched, and until the loop runs nothing has
\* failed for good, is due or was asked for again.
Booting ==
  /\ sup.phase = "boot" /\ sup.pc # "aborted" =>
       /\ unit[Root].status = "Pending"
       /\ \A i \in DOMAIN BootOrder :
            i > sup.next \/ (i = sup.next /\ sup.pc = "next") =>
              unit[BootOrder[i]].status = "Pending"
  /\ sup.phase # "run" => sup.todo = {}
  /\ sup.phase # "run" /\ sup.pc # "aborted" => pending = {} /\ requests = {}
  /\ (sup.phase # "run") # (sup.pc = "aborted") => system = "Booting"

\* Until then no unit has been given up either.
QuietUnit(u) == (sup.phase # "run") # (sup.pc = "aborted") => unit[u].status \notin Terminal

\* The units a tick still has to look at are watched, those it still has to
\* launch are due.
Todo ==
  /\ sup.pc = "scan" => \A u \in sup.todo : active[u] # NoPid
  /\ sup.phase = "run" /\ sup.pc \in {"due"} \cup LaunchPcs => sup.todo \subseteq pending

-----------------------------------------------------------------------------
(* What is known of one unit.                                              *)

\* Pids belong to the unit that shows, watches or posts them.
PidOf(u, p) == p = NoPid \/ (p \in DOMAIN proc /\ proc[p].of = u)
KnownPids(u) ==
  /\ PidOf(u, unit[u].pid) /\ PidOf(u, active[u])
  /\ unit[u].status \in {"Pending", "Backoff"} \cup Terminal => unit[u].pid = NoPid
  /\ u = Root => posted[u] = NoPid

\* A unit that is not being launched, while the task is at work.
Settled(u) ==
  /\ unit[u].status # "Starting"
  /\ unit[u].status = "Ready" => active[u] # NoPid /\ active[u] = unit[u].pid
  /\ unit[u].status # "Ready" => active[u] = NoPid
  /\ unit[u].status = "Backoff" => u \in pending
  /\ unit[u].status = "Pending" => sup.phase # "run" \/ u \in requests \cup pending
Watched(u) == sup.pc \notin {"dead", "aborted", "stopped"} => InFlight(u) \/ Settled(u)

\* Only a unit that is down is due, and only one that was just retried is asked for.
QueuedUnit(u) ==
  /\ u \in pending => unit[u].status \in {"Pending", "Backoff"} /\ ~InFlight(u)
  /\ u \in requests => unit[u].status = "Pending" /\ ~InFlight(u) /\ u \notin pending

\* The unit being launched, step by step.
Launching ==
  /\ sup.pc = "spawn" =>
       /\ unit[sup.unit].status \in {"Pending", "Backoff"}
       /\ active[sup.unit] = NoPid /\ posted[sup.unit] = NoPid
  /\ sup.pc \in {"publish", "await", "mark"} =>
       /\ unit[sup.unit].status = "Starting"
       /\ sup.pid # NoPid /\ unit[sup.unit].pid = sup.pid
       /\ active[sup.unit] \in {NoPid, sup.pid} /\ posted[sup.unit] \in {NoPid, sup.pid}
       /\ sup.phase # "settle" => active[sup.unit] = NoPid
  /\ sup.pc \in {"terminate", "record"} =>
       /\ unit[sup.unit].status \in {"Pending", "Backoff", "Starting"}
       /\ unit[sup.unit].status = "Starting" <=> sup.pid # NoPid
       /\ unit[sup.unit].pid = sup.pid
       /\ active[sup.unit] = NoPid /\ posted[sup.unit] \in {NoPid, sup.pid}
  /\ sup.pc = "record" => ~Running(sup.pid)

\* The package tree follows its handle, but for a launch that failed in boot.
Backed ==
  /\ \/ bound \in {NoPid, posted[Package]}
     \/ /\ sup.phase = "boot" /\ sup.unit = Package
        /\ sup.pc \in {"spawn", "publish", "terminate", "record", "aborted"}
  /\ sup.pc \in {"stop", "stopped"} => bound = NoPid

\* Launches are counted twice, in ManagerState's attempts and in the history
\* variable; only a launch without a Process is counted late.
CountedUnit(u) ==
  /\ streak[u] = IF u = sup.unit /\ sup.pc \in {"terminate", "record"} /\ sup.pid = NoPid
                 THEN unit[u].attempts + 1 ELSE unit[u].attempts
  /\ unit[u].attempts <= RestartLimit + 1
  /\ unit[u].status \in {"Pending", "Backoff"} => unit[u].attempts <= RestartLimit

\* Once the loop runs the system has left Booting; a required unit that was given
\* up shows, and only those do.
ShownUnit(u) ==
  /\ unit[u].degraded => u \in Required
  /\ sup.phase = "run" /\ u \in Required /\ unit[u].status \in Terminal =>
       unit[u].degraded /\ system \in {"Degraded", "Stopping"}
Left == sup.phase = "run" /\ sup.pc # "aborted" => system \in {"Ready", "Degraded", "Stopping"}
SomeDegraded ==
  sup.phase = "run" /\ system = "Degraded" => \E u \in Required : unit[u].degraded

\* A running Process is watched or being launched, and so is what is posted.
OwnedProc(p) ==
  proc[p].state = "running" =>
    active[proc[p].of] = p \/ (InFlight(proc[p].of) /\ unit[proc[p].of].pid = p)
Owned == \A p \in DOMAIN proc : OwnedProc(p)
HeldHandle(u) ==
  posted[u] # NoPid => active[u] = posted[u] \/ (InFlight(u) /\ sup.pid = posted[u])

UnitInv(u) ==
  /\ QuietUnit(u) /\ KnownPids(u) /\ Watched(u) /\ QueuedUnit(u) /\ CountedUnit(u)
  /\ ShownUnit(u) /\ HeldHandle(u)
UnitsInv == \A u \in Units : UnitInv(u)

SupInv ==
  /\ TypeOK /\ Phases /\ Booting /\ Todo /\ Launching /\ Backed /\ Left /\ SomeDegraded
  /\ Owned /\ UnitsInv

-----------------------------------------------------------------------------
(* What the operators of the model do.                                     *)

\* What the constants are assumed to be, in the form the proofs use.
LEMMA Constants ==
  /\ Root \in Units /\ Package \in Units /\ Root # Package /\ Required \subseteq Units
  /\ BootOrder \in Seq(Units) /\ \A i \in DOMAIN BootOrder : BootOrder[i] # Root
  /\ \A i, j \in DOMAIN BootOrder : BootOrder[i] = BootOrder[j] => i = j
  /\ RestartLimit \in Nat /\ MaxPids \in Nat
  BY ConstantsAssumption

\* A pid is not the absent one, and its Process is one of a unit.
LEMMA ProcOf ==
  ASSUME proc \in Seq(ProcRecs), NEW p \in DOMAIN proc
  PROVE  p # NoPid /\ proc[p] \in ProcRecs /\ proc[p].of \in Units /\ proc[p].code \in Codes
<1>1. p # NoPid /\ proc[p] \in ProcRecs BY DEF NoPid
<1> QED BY <1>1 DEF ProcRecs

\* A Process that exits keeps its unit, and the others keep their state.
LEMMA ExitedFacts ==
  ASSUME proc \in Seq(ProcRecs), NEW p, NEW code \in Codes
  PROVE  /\ Exited(proc, p, code) \in Seq(ProcRecs)
         /\ DOMAIN Exited(proc, p, code) = DOMAIN proc
         /\ \A q \in DOMAIN proc : Exited(proc, p, code)[q].of = proc[q].of
         /\ \A q \in DOMAIN proc :
              Exited(proc, p, code)[q].state = "running" => proc[q].state = "running" /\ q # p
<1>1. DOMAIN proc = 1 .. Len(proc) /\ Len(proc) \in Nat
  /\ \A q \in DOMAIN proc : proc[q] \in ProcRecs
  OBVIOUS
<1>2. CASE p \in DOMAIN proc /\ proc[p].state = "running"
  <2> DEFINE new == [proc[p] EXCEPT !.state = "exited", !.code = code]
             ps == [proc EXCEPT ![p] = new]
  <2>1. Exited(proc, p, code) = ps BY <1>2 DEF Exited
  <2>2. new \in ProcRecs /\ new.of = proc[p].of /\ new.state = "exited"
    BY Zenon, <1>1, <1>2 DEF ProcRecs
  <2> HIDE DEF new
  <2>3. DOMAIN ps = DOMAIN proc /\ \A q \in DOMAIN proc : ps[q] = IF q = p THEN new ELSE proc[q]
    BY <1>1
  <2>4. ps \in [1 .. Len(proc) -> ProcRecs] BY Zenon, <1>1, <2>2
  <2>5. ps \in Seq(ProcRecs) BY <1>1, <2>4
  <2> HIDE DEF ps
  <2> QED BY <2>1, <2>2, <2>3, <2>5
<1>3. CASE ~(p \in DOMAIN proc /\ proc[p].state = "running")
  <2>1. Exited(proc, p, code) = proc BY <1>3 DEF Exited
  <2> QED BY <1>3, <2>1
<1> QED BY <1>2, <1>3

\* A unit with another launch attempt.
LEMMA StartedFacts ==
  ASSUME NEW r \in UnitRecs, NEW p \in Nat
  PROVE  /\ Started(r, p) \in UnitRecs /\ Started(r, p).status = "Starting"
              /\ Started(r, p).pid = p
         /\ Started(r, p).attempts = r.attempts + 1 /\ Started(r, p).degraded = r.degraded
         /\ Started(r, p).ready_once = r.ready_once
<1> DEFINE n == r.attempts + 1
<1>1. n \in Nat BY DEF UnitRecs
<1>2. Started(r, p) = [r EXCEPT !.attempts = n, !.pid = p, !.status = "Starting"] BY DEF Started
<1>3. n = r.attempts + 1 OBVIOUS
<1> HIDE DEF n
<1> QED BY Zenon, <1>1, <1>2, <1>3 DEF UnitRecs, Statuses

\* A launch appends a Process and changes only its unit.
LEMMA TrackFacts ==
  ASSUME proc \in Seq(ProcRecs), unit \in [Units -> UnitRecs], streak \in [Units -> Nat],
         NEW u \in Units, Track(u)
  PROVE  /\ proc' \in Seq(ProcRecs) /\ Len(proc') = Len(proc) + 1 /\ Len(proc') \in Nat \ {0}
         /\ DOMAIN proc' = DOMAIN proc \cup {Len(proc')} /\ Len(proc') \notin DOMAIN proc
         /\ proc'[Len(proc')].of = u
         /\ \A p \in DOMAIN proc : proc'[p] = proc[p]
         /\ unit' \in [Units -> UnitRecs]
         /\ unit'[u].status = "Starting" /\ unit'[u].pid = Len(proc')
         /\ unit'[u].attempts = unit[u].attempts + 1 /\ unit'[u].degraded = unit[u].degraded
         /\ \A v \in Units : v # u => unit'[v] = unit[v]
         /\ streak' \in [Units -> Nat] /\ streak'[u] = streak[u] + 1
         /\ \A v \in Units : v # u => streak'[v] = streak[v]
<1>1. /\ proc' = Append(proc, [of |-> u, state |-> "running", code |-> 0])
      /\ [of |-> u, state |-> "running", code |-> 0] \in ProcRecs
  BY DEF Track, ProcRecs, Codes
<1>2. /\ proc' \in Seq(ProcRecs) /\ Len(proc') = Len(proc) + 1 /\ Len(proc') \in Nat \ {0}
      /\ proc'[Len(proc')].of = u /\ \A p \in DOMAIN proc : proc'[p] = proc[p]
      /\ DOMAIN proc' = DOMAIN proc \cup {Len(proc')} /\ Len(proc') \notin DOMAIN proc
  BY <1>1
<1>3. unit' = [unit EXCEPT ![u] = Started(@, Len(proc'))]
  BY DEF Track, start_attempt
<1>4. /\ unit' \in [Units -> UnitRecs]
      /\ unit'[u].status = "Starting" /\ unit'[u].pid = Len(proc')
      /\ unit'[u].attempts = unit[u].attempts + 1 /\ unit'[u].degraded = unit[u].degraded
      /\ \A v \in Units : v # u => unit'[v] = unit[v]
  <2>1. /\ DOMAIN unit' = Units /\ unit'[u] = Started(unit[u], Len(proc'))
        /\ unit' = [v \in Units |-> unit'[v]] /\ \A v \in Units : v # u => unit'[v] = unit[v]
    BY Zenon, <1>3
  <2>2. /\ unit'[u] \in UnitRecs /\ unit'[u].status = "Starting" /\ unit'[u].pid = Len(proc')
        /\ unit'[u].attempts = unit[u].attempts + 1 /\ unit'[u].degraded = unit[u].degraded
    BY <1>2, <2>1, StartedFacts
  <2>3. unit' \in [Units -> UnitRecs] BY Zenon, <2>1, <2>2
  <2> QED BY <2>1, <2>2, <2>3
<1>5. /\ streak' \in [Units -> Nat] /\ streak'[u] = streak[u] + 1
      /\ \A v \in Units : v # u => streak'[v] = streak[v]
  BY DEF Track
<1> QED BY <1>2, <1>4, <1>5

\* What record_exit leaves of unit u of us, and of the system.
Recorded(r, us, u, attempts) ==
  /\ r.unit \in [Units -> UnitRecs] /\ \A v \in Units : v # u => r.unit[v] = us[v]
  /\ r.unit[u].pid = NoPid /\ r.unit[u].status \in {"Backoff"} \cup Terminal
  /\ r.unit[u].attempts = attempts
  /\ r.restart \in BOOLEAN /\ (r.restart <=> r.unit[u].status = "Backoff")
  /\ r.restart => r.system = system /\ attempts <= RestartLimit
  /\ us[u].degraded => r.unit[u].degraded
  /\ r.unit[u].degraded => us[u].degraded \/ u \in Required
  /\ r.system \in {"Booting", "Ready", "Degraded", "Failed", "Stopping"}
  /\ system # "Booting" => r.system \in {system, "Degraded"}
  /\ system # "Booting" /\ ~r.restart /\ u \in Required =>
       r.unit[u].degraded /\ r.system = "Degraded"
  /\ r.system = "Degraded" => system = "Degraded" \/ (u \in Required /\ r.unit[u].degraded)

\* The record of an exit or failed launch (record_exit) changes one unit: to
\* Backoff within the budget, else to an end that degrades a required unit and
\* shows in the system.
LEMMA RecordFacts ==
  ASSUME NEW us \in [Units -> UnitRecs], NEW u \in Units, NEW code \in Codes,
           NEW stable \in BOOLEAN,
         system \in {"Booting", "Ready", "Degraded", "Failed", "Stopping"}, NEW r,
         r = RecordExit(us, u, code, stable)
  PROVE  Recorded(r, us, u, IF stable THEN 1 ELSE us[u].attempts)
<1> DEFINE att == IF stable THEN 1 ELSE us[u].attempts
           st == IF ~ShouldRestart(u, code) THEN "Exited"
                 ELSE IF BudgetSpent(att) THEN "Failed" ELSE "Backoff"
           fatal == st \in Terminal /\ u \in Required
           failBoot == fatal /\ system = "Booting" /\ ~us[u].ready_once
           degrade == fatal /\ ~failBoot
           nu == Concluded(us[u], st, att, degrade)
<1>1. /\ r.unit = [us EXCEPT ![u] = nu]
      /\ r.system = IF failBoot THEN "Failed" ELSE IF degrade THEN "Degraded" ELSE system
      /\ r.restart = (st = "Backoff")
  BY DEF RecordExit
<1>2. st \in {"Exited", "Failed", "Backoff"} OBVIOUS
<1>3. att \in Nat BY DEF UnitRecs
<1>4. st = "Backoff" => att <= RestartLimit
  BY <1>3, Constants DEF BudgetSpent
<1>5. us[u].degraded \in BOOLEAN /\ degrade \in BOOLEAN BY DEF UnitRecs
<1>6. /\ nu \in UnitRecs /\ nu.pid = NoPid /\ nu.status = st /\ nu.attempts = att
      /\ nu.degraded = (us[u].degraded \/ degrade)
  <2> HIDE DEF st, att, degrade
  <2> QED BY Zenon, <1>2, <1>3, <1>5 DEF Concluded, UnitRecs, Statuses, NoPid
<1>7. r.unit \in [Units -> UnitRecs] /\ r.unit[u] = nu /\ \A v \in Units : v # u =>
  r.unit[v] = us[v]
  <2> HIDE DEF nu
  <2> QED BY <1>1, <1>6
<1>8. degrade <=> st # "Backoff" /\ u \in Required /\ ~(system = "Booting" /\ ~us[u].ready_once)
  BY <1>2 DEF Terminal
<1>9. failBoot <=> st # "Backoff" /\ u \in Required /\ system = "Booting" /\ ~us[u].ready_once
  BY <1>2 DEF Terminal
<1> HIDE DEF st, att, degrade, failBoot, nu
<1>10. att = IF stable THEN 1 ELSE us[u].attempts BY DEF att
<1>11. Recorded(r, us, u, att)
  BY Zenon, <1>1, <1>2, <1>4, <1>5, <1>6, <1>7, <1>8, <1>9 DEF Terminal, Recorded
<1> QED BY <1>10, <1>11

-----------------------------------------------------------------------------
(* A launch, step by step.                                                 *)

\* boot() takes the next unit of its order, or comes to its end.
LEMMA BootNextKeeps ==
  ASSUME SupInv, BootNext
  PROVE  SupInv'
<1>i. /\ TypeOK /\ Phases /\ Booting /\ Todo /\ Launching /\ Backed /\ Left
      /\ SomeDegraded /\ Owned /\ UnitsInv
  BY DEF SupInv
<1>0. sup.pc = "next" /\ sup.next \in DOMAIN BootOrder /\ sup.phase = "boot" /\ sup.pid = NoPid
  <2>1. /\ sup.pc = "next" /\ sup.next <= Len(BootOrder) /\ sup.next \in Nat
        /\ sup.phase \in {"boot", "settle", "run"}
    BY <1>i DEF BootNext, TypeOK, SupRecs
  <2>2. sup.phase = "boot" BY <1>i, <2>1 DEF Phases, LaunchPcs
  <2>3. sup.next > 0 /\ sup.pid = NoPid BY <1>i, <2>1, <2>2 DEF Phases, IdlePcs
  <2> QED BY <2>1, <2>2, <2>3, Constants
<1>u. BootOrder[sup.next] \in Units /\ BootOrder[sup.next] # Root
  /\ unit[BootOrder[sup.next]].status = "Pending"
      /\ active[BootOrder[sup.next]] = NoPid /\ posted[BootOrder[sup.next]] = NoPid
      /\ pending = {} /\ requests = {}
  <2>1. /\ BootOrder[sup.next] \in Units /\ BootOrder[sup.next] # Root
        /\ unit[BootOrder[sup.next]].status = "Pending" /\ pending = {} /\ requests = {}
    BY <1>i, <1>0, Constants DEF Booting
  <2>2. active[BootOrder[sup.next]] = NoPid
    BY <1>i, <1>0, <2>1 DEF UnitsInv, UnitInv, Watched, Settled, InFlight
  <2>3. posted[BootOrder[sup.next]] = NoPid
    BY <1>i, <1>0, <2>1, <2>2 DEF UnitsInv, UnitInv, HeldHandle, InFlight
  <2> QED BY <2>1, <2>2, <2>3
<1>s. sup' \in SupRecs /\ sup'.phase = sup.phase /\ sup'.pc = "spawn"
  /\ sup'.next = sup.next /\ sup'.unit = BootOrder[sup.next] /\ sup'.pid = sup.pid
       /\ sup'.todo = sup.todo
  BY Zenon, <1>i, <1>u DEF BootNext, TypeOK, SupRecs, Pcs, LaunchPcs, IdlePcs
<1>v. UNCHANGED <<unit, system, requests, proc, active, pending, posted, bound, root, rootPid,
  stopping, retries, streak>>
  BY DEF BootNext, manager
<1>1. TypeOK' BY <1>i, <1>0, <1>u, <1>s, <1>v DEF TypeOK
<1>2. Phases' BY <1>i, <1>0, <1>u, <1>s, <1>v DEF Phases, LaunchPcs, IdlePcs
<1>3. Booting' BY <1>i, <1>0, <1>u, <1>s, <1>v DEF Booting, LaunchPcs
<1>4. Todo' BY <1>i, <1>0, <1>u, <1>s, <1>v DEF Todo, LaunchPcs
<1>5. Launching' BY <1>i, <1>0, <1>u, <1>s, <1>v DEF Launching, Running
<1>6. Backed' BY <1>i, <1>0, <1>u, <1>s, <1>v DEF Backed
<1>7. Left' BY <1>i, <1>0, <1>u, <1>s, <1>v DEF Left
<1>8. SomeDegraded' BY <1>i, <1>0, <1>u, <1>s, <1>v DEF SomeDegraded
<1>9. Owned'
  <2>1. ASSUME NEW p \in DOMAIN proc' PROVE OwnedProc(p)'
    <3>1. p \in DOMAIN proc => OwnedProc(p) /\ proc[p].of \in Units /\ p # NoPid
      BY <1>i, ProcOf DEF Owned, TypeOK
    <3> QED BY <3>1, <1>i, <1>0, <1>u, <1>s, <1>v DEF OwnedProc, InFlight
  <2> QED BY <2>1 DEF Owned
<1>10. UnitsInv'
  <2>1. ASSUME NEW w \in Units PROVE UnitInv(w)'
    <3>1. UnitInv(w) BY <1>i DEF UnitsInv
    <3>2. QuietUnit(w)' /\ KnownPids(w)' /\ Watched(w)' /\ QueuedUnit(w)' /\ CountedUnit(w)' /\
         ShownUnit(w)' /\ HeldHandle(w)'
      BY <3>1, <1>i, <1>0, <1>u, <1>s, <1>v DEF UnitInv, QuietUnit, Terminal, KnownPids, PidOf,
           Watched, Settled, InFlight, QueuedUnit, CountedUnit, ShownUnit, HeldHandle
    <3> QED BY <3>2 DEF UnitInv
  <2> QED BY <2>1 DEF UnitsInv
<1> QED BY <1>1, <1>2, <1>3, <1>4, <1>5, <1>6, <1>7, <1>8, <1>9, <1>10 DEF SupInv

\* boot() launches the Root Agent last and waits for it to settle.
LEMMA BootRootKeeps ==
  ASSUME SupInv, BootRoot
  PROVE  SupInv'
<1>i. /\ TypeOK /\ Phases /\ Booting /\ Todo /\ Launching /\ Backed /\ Left
      /\ SomeDegraded /\ Owned /\ UnitsInv
  BY DEF SupInv
<1>0. /\ sup.pc = "next" /\ sup.phase = "boot" /\ Track(Root) /\ Root \in Units
      /\ unit[Root].status = "Pending" /\ unit[Root].attempts <= RestartLimit
      /\ active[Root] = NoPid /\ unit[Root].attempts \in Nat /\ posted[Root] = NoPid
      /\ streak[Root] = unit[Root].attempts /\ pending = {} /\ requests = {}
  <2>1. /\ sup.pc = "next" /\ Track(Root) /\ Root \in Units /\ unit[Root].attempts \in Nat
        /\ sup.phase \in {"boot", "settle", "run"}
    BY <1>i, Constants DEF BootRoot, TypeOK, SupRecs, UnitRecs
  <2>2. sup.phase = "boot" BY <1>i, <2>1 DEF Phases, LaunchPcs
  <2>3. unit[Root].status = "Pending" /\ pending = {} /\ requests = {}
    BY <1>i, <2>1, <2>2 DEF Booting
  <2>4. active[Root] = NoPid BY <1>i, <2>1, <2>3 DEF UnitsInv, UnitInv, Watched, Settled, InFlight
  <2>5. posted[Root] = NoPid BY <1>i, <2>1 DEF UnitsInv, UnitInv, KnownPids
  <2>6. streak[Root] = unit[Root].attempts /\ unit[Root].attempts <= RestartLimit
    BY <1>i, <2>1, <2>3 DEF UnitsInv, UnitInv, CountedUnit
  <2> QED BY <2>1, <2>2, <2>3, <2>4, <2>5, <2>6
<1>t. /\ proc' \in Seq(ProcRecs) /\ Len(proc') \in Nat \ {0}
      /\ DOMAIN proc' = DOMAIN proc \cup {Len(proc')} /\ Len(proc') \notin DOMAIN proc
      /\ proc'[Len(proc')].of = Root /\ \A p \in DOMAIN proc : proc'[p] = proc[p]
      /\ unit' \in [Units -> UnitRecs]
      /\ unit'[Root].status = "Starting" /\ unit'[Root].pid = Len(proc')
      /\ unit'[Root].attempts = unit[Root].attempts + 1
      /\ unit'[Root].degraded = unit[Root].degraded
      /\ \A v \in Units : v # Root => unit'[v] = unit[v]
      /\ streak' \in [Units -> Nat] /\ streak'[Root] = streak[Root] + 1
      /\ \A v \in Units : v # Root => streak'[v] = streak[v]
  BY <1>i, <1>0, TrackFacts DEF TypeOK, BootRoot
<1>s. sup' \in SupRecs /\ sup'.phase = "settle" /\ sup'.pc = "await" /\ sup'.next = sup.next
  /\ sup'.unit = Root /\ sup'.pid = Len(proc') /\ sup'.todo = sup.todo
  BY Zenon, <1>i, <1>0, <1>t DEF BootRoot, TypeOK, SupRecs, Pcs, LaunchPcs, IdlePcs
<1>v. /\ active' \in [Units -> Nat] /\ active'[Root] = Len(proc')
      /\ \A v \in Units : v # Root => active'[v] = active[v]
      /\ root' \in Nat /\ rootPid' \in Nat
      /\ UNCHANGED <<system, requests, pending, posted, bound, stopping, retries>>
  BY <1>i, <1>0, <1>t DEF BootRoot, Track, TypeOK
<1>1. TypeOK' BY Zenon, <1>i, <1>0, <1>t, <1>s, <1>v DEF TypeOK
<1>2. Phases' BY <1>i, <1>0, <1>s, <1>v, Constants DEF Phases, LaunchPcs, IdlePcs
<1>3. Booting' BY Zenon, <1>i, <1>0, <1>t, <1>s, <1>v, Constants DEF Booting, LaunchPcs
<1>4. Todo' BY <1>i, <1>0, <1>s, <1>v DEF Todo, LaunchPcs
<1>5. Launching' BY Zenon, <1>i, <1>0, <1>t, <1>s, <1>v DEF Launching, Running, NoPid
<1>6. Backed' BY Zenon, <1>i, <1>0, <1>t, <1>s, <1>v, Constants DEF Backed
<1>7. Left' BY <1>i, <1>0, <1>s, <1>v DEF Left
<1>8. SomeDegraded'
  <2>1. \A v \in Units : unit'[v].degraded = unit[v].degraded BY Zenon, <1>t
  <2> QED BY <1>i, <1>s, <1>v, <2>1, Constants DEF SomeDegraded
<1>9. Owned'
  <2>1. ASSUME NEW p \in DOMAIN proc' PROVE OwnedProc(p)'
    <3>1. p \in DOMAIN proc => OwnedProc(p) /\ proc[p].of \in Units /\ p # NoPid
      BY <1>i, ProcOf DEF Owned, TypeOK
    <3>2. CASE p \notin DOMAIN proc
      BY Zenon, <3>2, <1>i, <1>0, <1>t, <1>s, <1>v DEF OwnedProc, InFlight
    <3>3. CASE p \in DOMAIN proc /\ proc[p].of = Root
      BY Zenon, <3>1, <3>3, <1>i, <1>0, <1>t, <1>s, <1>v DEF OwnedProc, InFlight
    <3>4. CASE p \in DOMAIN proc /\ proc[p].of # Root
      BY Zenon, <3>1, <3>4, <1>i, <1>0, <1>t, <1>s, <1>v DEF OwnedProc, InFlight
    <3> QED BY <3>2, <3>3, <3>4
  <2> QED BY <2>1 DEF Owned
<1>10. UnitsInv'
  <2>1. ASSUME NEW w \in Units PROVE UnitInv(w)'
    <3>1. UnitInv(w) BY <1>i DEF UnitsInv
    <3>2. QuietUnit(w)'
      BY Zenon, <3>1, <1>i, <1>0, <1>t, <1>s, <1>v DEF UnitInv, QuietUnit, Terminal
    <3>3. KnownPids(w)'
      <4>1. CASE w = Root BY Zenon, <1>0, <1>t, <1>v, <4>1 DEF KnownPids, PidOf, Terminal
      <4>2. CASE w # Root
        <5>1. unit'[w] = unit[w] /\ active'[w] = active[w] BY Zenon, <1>t, <1>v, <4>2
        <5>2. \A p : PidOf(w, p) => PidOf(w, p)' BY Zenon, <1>t DEF PidOf
        <5>3. KnownPids(w) BY <3>1 DEF UnitInv
        <5> QED BY Zenon, <4>2, <5>1, <5>2, <5>3 DEF KnownPids, PidOf
      <4> QED BY <4>1, <4>2
    <3>4. Watched(w)'
      BY Zenon, <3>1, <1>i, <1>0, <1>t, <1>s, <1>v DEF UnitInv, Watched, Settled, InFlight
    <3>5. QueuedUnit(w)'
      BY Zenon, <3>1, <1>i, <1>0, <1>t, <1>s, <1>v DEF UnitInv, QueuedUnit, InFlight
    <3>6. CountedUnit(w)'
      <4>1. CASE w = Root
        <5>1. /\ streak'[w] = streak[w] + 1 /\ unit'[w].attempts = unit[w].attempts + 1
              /\ unit'[w].status = "Starting"
          BY <1>t, <4>1, Zenon
        <5>2. /\ streak[w] = unit[w].attempts /\ unit[w].attempts \in Nat
              /\ unit[w].attempts <= RestartLimit
          BY <1>0, <4>1, Zenon
        <5>3. RestartLimit \in Nat BY Constants
        <5>4. streak'[w] = unit'[w].attempts /\ unit'[w].attempts <= RestartLimit + 1
          BY <5>1, <5>2, <5>3
        <5>5. sup'.pc \notin {"terminate", "record"} BY <1>s
        <5> QED BY <5>1, <5>4, <5>5 DEF CountedUnit
      <4>2. CASE w # Root BY Zenon, <3>1, <4>2, <1>0, <1>t, <1>s DEF UnitInv, CountedUnit
      <4> QED BY <4>1, <4>2
    <3>7. ShownUnit(w)'
      BY Zenon, <3>1, <1>i, <1>0, <1>t, <1>s, <1>v DEF UnitInv, ShownUnit, Terminal
    <3>8. HeldHandle(w)'
      BY Zenon, <3>1, <1>i, <1>0, <1>t, <1>s, <1>v DEF UnitInv, HeldHandle, InFlight
    <3> QED BY <3>2, <3>3, <3>4, <3>5, <3>6, <3>7, <3>8 DEF UnitInv
  <2> QED BY <2>1 DEF UnitsInv
<1> QED BY <1>1, <1>2, <1>3, <1>4, <1>5, <1>6, <1>7, <1>8, <1>9, <1>10 DEF SupInv

\* A Root Agent that could not be launched ends boot().
LEMMA BootRootFailsKeeps ==
  ASSUME SupInv, BootRootFails
  PROVE  SupInv'
<1>i. /\ TypeOK /\ Phases /\ Booting /\ Todo /\ Launching /\ Backed /\ Left
      /\ SomeDegraded /\ Owned /\ UnitsInv
  BY DEF SupInv
<1>0. sup.pc = "next" /\ sup.phase = "boot"
  BY <1>i DEF BootRootFails, Phases, LaunchPcs, TypeOK, SupRecs
<1>s. sup' \in SupRecs /\ sup'.phase = sup.phase /\ sup'.pc = "aborted"
  /\ sup'.next = sup.next /\ sup'.unit = sup.unit /\ sup'.pid = sup.pid /\ sup'.todo = sup.todo
  BY Zenon, <1>i DEF BootRootFails, TypeOK, SupRecs, Pcs, LaunchPcs, IdlePcs
<1>v. UNCHANGED <<unit, system, requests, proc, active, pending, posted, bound, root, rootPid,
  stopping, retries, streak>>
  BY DEF BootRootFails, manager
<1>1. TypeOK' BY <1>i, <1>0, <1>s, <1>v DEF TypeOK
<1>2. Phases' BY <1>i, <1>0, <1>s, <1>v DEF Phases, LaunchPcs, IdlePcs
<1>3. Booting' BY <1>i, <1>0, <1>s, <1>v DEF Booting, LaunchPcs
<1>4. Todo' BY <1>i, <1>0, <1>s, <1>v DEF Todo, LaunchPcs
<1>5. Launching' BY <1>i, <1>0, <1>s, <1>v DEF Launching, Running
<1>6. Backed' BY <1>i, <1>0, <1>s, <1>v DEF Backed
<1>7. Left' BY <1>i, <1>0, <1>s, <1>v DEF Left
<1>8. SomeDegraded' BY <1>i, <1>0, <1>s, <1>v DEF SomeDegraded
<1>9. Owned'
  <2>1. ASSUME NEW p \in DOMAIN proc' PROVE OwnedProc(p)'
    <3>1. p \in DOMAIN proc => OwnedProc(p) /\ proc[p].of \in Units /\ p # NoPid
      BY <1>i, ProcOf DEF Owned, TypeOK
    <3> QED BY <3>1, <1>i, <1>0, <1>s, <1>v DEF OwnedProc, InFlight
  <2> QED BY <2>1 DEF Owned
<1>10. UnitsInv'
  <2>1. ASSUME NEW w \in Units PROVE UnitInv(w)'
    <3>1. UnitInv(w) BY <1>i DEF UnitsInv
    <3>2. QuietUnit(w)' /\ KnownPids(w)' /\ Watched(w)' /\ QueuedUnit(w)' /\ CountedUnit(w)' /\
         ShownUnit(w)' /\ HeldHandle(w)'
      BY <3>1, <1>i, <1>0, <1>s, <1>v DEF UnitInv, QuietUnit, Terminal, KnownPids, PidOf, Watched,
           Settled, InFlight, QueuedUnit, CountedUnit, ShownUnit, HeldHandle
    <3> QED BY <3>2 DEF UnitInv
  <2> QED BY <2>1 DEF UnitsInv
<1> QED BY <1>1, <1>2, <1>3, <1>4, <1>5, <1>6, <1>7, <1>8, <1>9, <1>10 DEF SupInv

\* start_attempt and spawn_unit: a Process and its unit in Starting.
LEMMA SpawnKeeps ==
  ASSUME SupInv, Spawn
  PROVE  SupInv'
<1>i. /\ TypeOK /\ Phases /\ Booting /\ Todo /\ Launching /\ Backed /\ Left
      /\ SomeDegraded /\ Owned /\ UnitsInv
  BY DEF SupInv
<1>0. /\ sup.pc = "spawn" /\ sup.unit \in Units /\ Track(sup.unit)
      /\ unit[sup.unit].status \in {"Pending", "Backoff"} /\ active[sup.unit] = NoPid
      /\ posted[sup.unit] = NoPid /\ unit[sup.unit].attempts \in Nat
      /\ streak[sup.unit] = unit[sup.unit].attempts
      /\ unit[sup.unit].attempts <= RestartLimit /\ unit[sup.unit].pid = NoPid
  BY <1>i DEF Spawn, TypeOK, SupRecs, UnitRecs, Launching, UnitsInv, UnitInv, CountedUnit,
    KnownPids
<1>t. /\ proc' \in Seq(ProcRecs) /\ Len(proc') \in Nat \ {0}
      /\ DOMAIN proc' = DOMAIN proc \cup {Len(proc')} /\ Len(proc') \notin DOMAIN proc
      /\ proc'[Len(proc')].of = sup.unit /\ \A p \in DOMAIN proc : proc'[p] = proc[p]
      /\ unit' \in [Units -> UnitRecs]
      /\ unit'[sup.unit].status = "Starting" /\ unit'[sup.unit].pid = Len(proc')
      /\ unit'[sup.unit].attempts = unit[sup.unit].attempts + 1
      /\ unit'[sup.unit].degraded = unit[sup.unit].degraded
      /\ \A v \in Units : v # sup.unit => unit'[v] = unit[v]
      /\ streak' \in [Units -> Nat] /\ streak'[sup.unit] = streak[sup.unit] + 1
      /\ \A v \in Units : v # sup.unit => streak'[v] = streak[v]
  BY Zenon, <1>i, <1>0, TrackFacts DEF TypeOK, Spawn
<1>s. sup' \in SupRecs /\ sup'.phase = sup.phase /\ sup'.next = sup.next /\ sup'.unit = sup.unit
      /\ sup'.pid = Len(proc') /\ sup'.todo = sup.todo
      /\ sup'.pc \in {"publish", "await"} /\ (sup'.pc = "publish" => sup.unit # Root)
      /\ (sup'.pc = "await" => sup.unit = Root)
  BY Zenon, <1>i, <1>0, <1>t DEF Spawn, TypeOK, SupRecs, Pcs, LaunchPcs, IdlePcs
<1>v. UNCHANGED <<active, root, rootPid, system, requests, pending, posted, bound, stopping,
  retries>>
  BY DEF Spawn, Track
<1>1. TypeOK' BY Zenon, <1>i, <1>0, <1>t, <1>s, <1>v DEF TypeOK
<1>2. Phases' BY <1>i, <1>0, <1>s, <1>v, Constants DEF Phases, LaunchPcs, IdlePcs
<1>3. Booting'
  <2>1. sup.phase = "boot" =>
          sup.next \in DOMAIN BootOrder /\ sup.unit = BootOrder[sup.next] /\ sup.unit # Root
    <3>1. sup.phase = "boot" =>
            sup.next > 0 /\ sup.next <= Len(BootOrder) /\ sup.unit = BootOrder[sup.next]
      BY <1>i, <1>0 DEF Phases, LaunchPcs
    <3>2. sup.next \in Nat BY <1>i DEF TypeOK, SupRecs
    <3> QED BY <3>1, <3>2, Constants
  <2>2. sup.phase = "boot" => unit[Root].status = "Pending" /\ unit'[Root] = unit[Root]
    BY Zenon, <1>i, <1>0, <1>t, <2>1, Constants DEF Booting
  <2>3. ASSUME sup.phase = "boot", NEW i \in DOMAIN BootOrder, i > sup.next
        PROVE  unit'[BootOrder[i]].status = "Pending"
    <3>1. BootOrder[i] # sup.unit /\ BootOrder[i] \in Units BY <2>1, <2>3, Constants
    <3>2. unit[BootOrder[i]].status = "Pending" BY <1>i, <1>0, <2>3 DEF Booting
    <3> QED BY Zenon, <1>t, <3>1, <3>2
  <2>4. sup'.phase # "boot" \/ sup'.pc # "next" BY <1>0, <1>s
  <2>5. sup'.next = sup.next /\ sup'.phase = sup.phase BY <1>s
  <2>6. sup'.phase = "boot" /\ sup'.pc # "aborted" =>
          /\ unit'[Root].status = "Pending"
          /\ \A i \in DOMAIN BootOrder :
               i > sup'.next \/ (i = sup'.next /\ sup'.pc = "next") =>
                 unit'[BootOrder[i]].status = "Pending"
    BY <2>2, <2>3, <2>4, <2>5
  <2>7. /\ sup'.phase # "run" => sup'.todo = {}
        /\ sup'.phase # "run" /\ sup'.pc # "aborted" => pending' = {} /\ requests' = {}
        /\ (sup'.phase # "run") # (sup'.pc = "aborted") => system' = "Booting"
    BY <1>i, <1>0, <1>s, <1>v DEF Booting
  <2> QED BY <2>6, <2>7 DEF Booting
<1>4. Todo' BY <1>i, <1>0, <1>s, <1>v DEF Todo, LaunchPcs
<1>5. Launching' BY Zenon, <1>i, <1>0, <1>t, <1>s, <1>v DEF Launching, Running, NoPid
<1>6. Backed' BY Zenon, <1>i, <1>0, <1>t, <1>s, <1>v, Constants DEF Backed
<1>7. Left' BY Zenon, <1>i, <1>0, <1>s, <1>v DEF Left
<1>8. SomeDegraded'
  <2>1. \A v \in Units : unit'[v].degraded = unit[v].degraded BY Zenon, <1>t
  <2> QED BY <1>i, <1>s, <1>v, <2>1, Constants DEF SomeDegraded
<1>9. Owned'
  <2>1. ASSUME NEW p \in DOMAIN proc' PROVE OwnedProc(p)'
    <3>1. p \in DOMAIN proc => OwnedProc(p) /\ proc[p].of \in Units /\ p # NoPid
      BY <1>i, ProcOf DEF Owned, TypeOK
    <3>2. CASE p \notin DOMAIN proc
      BY Zenon, <3>2, <1>i, <1>0, <1>t, <1>s, <1>v DEF OwnedProc, InFlight
    <3>3. CASE p \in DOMAIN proc /\ proc[p].of = sup.unit
      BY Zenon, <3>1, <3>3, <1>0, <1>t DEF OwnedProc, InFlight
    <3>4. CASE p \in DOMAIN proc /\ proc[p].of # sup.unit
      BY Zenon, <3>1, <3>4, <1>i, <1>0, <1>t, <1>s, <1>v DEF OwnedProc, InFlight
    <3> QED BY <3>2, <3>3, <3>4
  <2> QED BY <2>1 DEF Owned
<1>10. UnitsInv'
  <2>1. ASSUME NEW w \in Units PROVE UnitInv(w)'
    <3>1. UnitInv(w) BY <1>i DEF UnitsInv
    <3>2. QuietUnit(w)'
      BY Zenon, <3>1, <1>i, <1>0, <1>t, <1>s, <1>v DEF UnitInv, QuietUnit, Terminal
    <3>3. KnownPids(w)'
      BY Zenon, <3>1, <1>i, <1>0, <1>t, <1>s, <1>v DEF UnitInv, KnownPids, PidOf, Terminal
    <3>4. Watched(w)'
      BY Zenon, <3>1, <1>i, <1>0, <1>t, <1>s, <1>v DEF UnitInv, Watched, Settled, InFlight
    <3>5. QueuedUnit(w)'
      BY Zenon, <3>1, <1>i, <1>0, <1>t, <1>s, <1>v DEF UnitInv, QueuedUnit, InFlight
    <3>6. CountedUnit(w)'
      <4>1. CASE w = sup.unit
        <5>1. /\ streak'[w] = streak[w] + 1 /\ unit'[w].attempts = unit[w].attempts + 1
              /\ unit'[w].status = "Starting"
          BY <1>t, <4>1, Zenon
        <5>2. /\ streak[w] = unit[w].attempts /\ unit[w].attempts \in Nat
              /\ unit[w].attempts <= RestartLimit
          BY <1>0, <4>1, Zenon
        <5>3. RestartLimit \in Nat BY Constants
        <5>4. streak'[w] = unit'[w].attempts /\ unit'[w].attempts <= RestartLimit + 1
          BY <5>1, <5>2, <5>3
        <5>5. sup'.pc \notin {"terminate", "record"} BY <1>s
        <5> QED BY <5>1, <5>4, <5>5 DEF CountedUnit
      <4>2. CASE w # sup.unit BY Zenon, <3>1, <4>2, <1>0, <1>t, <1>s DEF UnitInv, CountedUnit
      <4> QED BY <4>1, <4>2
    <3>7. ShownUnit(w)'
      BY Zenon, <3>1, <1>i, <1>0, <1>t, <1>s, <1>v DEF UnitInv, ShownUnit, Terminal
    <3>8. HeldHandle(w)'
      BY Zenon, <3>1, <1>i, <1>0, <1>t, <1>s, <1>v DEF UnitInv, HeldHandle, InFlight
    <3> QED BY <3>2, <3>3, <3>4, <3>5, <3>6, <3>7, <3>8 DEF UnitInv
  <2> QED BY <2>1 DEF UnitsInv
<1> QED BY <1>1, <1>2, <1>3, <1>4, <1>5, <1>6, <1>7, <1>8, <1>9, <1>10 DEF SupInv

\* A spawn that failed leaves no Process, only the attempt to be recorded.
LEMMA SpawnFailsKeeps ==
  ASSUME SupInv, SpawnFails
  PROVE  SupInv'
<1>i. /\ TypeOK /\ Phases /\ Booting /\ Todo /\ Launching /\ Backed /\ Left
      /\ SomeDegraded /\ Owned /\ UnitsInv
  BY DEF SupInv
<1>0. /\ sup.pc = "spawn" /\ sup.unit \in Units /\ sup.pid = NoPid
      /\ streak[sup.unit] = unit[sup.unit].attempts /\ unit[sup.unit].attempts \in Nat
      /\ unit[sup.unit].status \in {"Pending", "Backoff"} /\ unit[sup.unit].pid = NoPid
  BY <1>i DEF SpawnFails, TypeOK, SupRecs, UnitRecs, Launching, UnitsInv, UnitInv, CountedUnit,
       Phases, IdlePcs, KnownPids
<1>s. sup' \in SupRecs /\ sup'.phase = sup.phase /\ sup'.pc = "terminate"
  /\ sup'.next = sup.next /\ sup'.unit = sup.unit /\ sup'.pid = sup.pid /\ sup'.todo = sup.todo
  BY Zenon, <1>i DEF SpawnFails, TypeOK, SupRecs, Pcs, LaunchPcs, IdlePcs
<1>k. streak' \in [Units -> Nat] /\ streak'[sup.unit] = streak[sup.unit] + 1
      /\ \A v \in Units : v # sup.unit => streak'[v] = streak[v]
  BY <1>i, <1>0 DEF SpawnFails, TypeOK
<1>v. UNCHANGED <<unit, system, requests, proc, active, pending, posted, bound, root, rootPid,
  stopping, retries>>
  BY DEF SpawnFails, manager
<1>1. TypeOK' BY <1>i, <1>0, <1>s, <1>k, <1>v DEF TypeOK
<1>2. Phases' BY <1>i, <1>0, <1>s, <1>v DEF Phases, LaunchPcs, IdlePcs
<1>3. Booting' BY <1>i, <1>0, <1>s, <1>k, <1>v DEF Booting, LaunchPcs
<1>4. Todo' BY <1>i, <1>0, <1>s, <1>v DEF Todo, LaunchPcs
<1>5. Launching' BY <1>i, <1>0, <1>s, <1>k, <1>v DEF Launching, Running
<1>6. Backed' BY <1>i, <1>0, <1>s, <1>k, <1>v DEF Backed
<1>7. Left' BY Zenon, <1>i, <1>0, <1>s, <1>v DEF Left
<1>8. SomeDegraded' BY <1>i, <1>0, <1>s, <1>k, <1>v DEF SomeDegraded
<1>9. Owned'
  <2>1. ASSUME NEW p \in DOMAIN proc' PROVE OwnedProc(p)'
    <3>1. p \in DOMAIN proc => OwnedProc(p) /\ proc[p].of \in Units /\ p # NoPid
      BY <1>i, ProcOf DEF Owned, TypeOK
    <3> QED BY <3>1, <1>i, <1>0, <1>s, <1>k, <1>v DEF OwnedProc, InFlight
  <2> QED BY <2>1 DEF Owned
<1>10. UnitsInv'
  <2>1. ASSUME NEW w \in Units PROVE UnitInv(w)'
    <3>1. UnitInv(w) BY <1>i DEF UnitsInv
    <3>2. QuietUnit(w)' /\ KnownPids(w)' /\ Watched(w)' /\ QueuedUnit(w)' /\ CountedUnit(w)' /\
         ShownUnit(w)' /\ HeldHandle(w)'
      BY <3>1, <1>i, <1>0, <1>s, <1>k, <1>v DEF UnitInv, QuietUnit, Terminal, KnownPids, PidOf,
           Watched, Settled, InFlight, QueuedUnit, CountedUnit, ShownUnit, HeldHandle
    <3> QED BY <3>2 DEF UnitInv
  <2> QED BY <2>1 DEF UnitsInv
<1> QED BY <1>1, <1>2, <1>3, <1>4, <1>5, <1>6, <1>7, <1>8, <1>9, <1>10 DEF SupInv

\* The unit is posted in /srv, and the package tree is backed.
LEMMA PublishKeeps ==
  ASSUME SupInv, Publish
  PROVE  SupInv'
<1>i. /\ TypeOK /\ Phases /\ Booting /\ Todo /\ Launching /\ Backed /\ Left
      /\ SomeDegraded /\ Owned /\ UnitsInv
  BY DEF SupInv
<1>0. sup.pc = "publish" /\ sup.unit \in Units /\ sup.unit # Root /\ sup.pid \in Nat
  BY <1>i DEF Publish, TypeOK, SupRecs, Phases
<1>s. sup' \in SupRecs /\ sup'.phase = sup.phase /\ sup'.pc = "await"
  /\ sup'.next = sup.next /\ sup'.unit = sup.unit /\ sup'.pid = sup.pid /\ sup'.todo = sup.todo
  BY Zenon, <1>i DEF Publish, TypeOK, SupRecs, Pcs, LaunchPcs, IdlePcs
<1>k. posted' \in [Units -> Nat] /\ posted'[sup.unit] = sup.pid
      /\ \A v \in Units : v # sup.unit => posted'[v] = posted[v]
  BY <1>i, <1>0 DEF Publish, TypeOK
<1>b. bound' \in Nat /\ bound' = IF sup.unit = Package THEN sup.pid ELSE bound
  BY <1>i, <1>0 DEF Publish, TypeOK
<1>v. UNCHANGED <<unit, system, requests, proc, active, pending, root, rootPid, stopping,
  retries, streak>>
  BY DEF Publish, manager
<1>1. TypeOK' BY <1>i, <1>0, <1>s, <1>k, <1>b, <1>v DEF TypeOK
<1>2. Phases' BY <1>i, <1>0, <1>s, <1>v DEF Phases, LaunchPcs, IdlePcs
<1>3. Booting' BY <1>i, <1>0, <1>s, <1>k, <1>b, <1>v DEF Booting, LaunchPcs
<1>4. Todo' BY <1>i, <1>0, <1>s, <1>v DEF Todo, LaunchPcs
<1>5. Launching' BY <1>i, <1>0, <1>s, <1>k, <1>b, <1>v DEF Launching, Running
<1>6. Backed' BY <1>i, <1>0, <1>s, <1>k, <1>b, <1>v, Constants DEF Backed
<1>7. Left' BY Zenon, <1>i, <1>0, <1>s, <1>v DEF Left
<1>8. SomeDegraded' BY <1>i, <1>0, <1>s, <1>k, <1>b, <1>v DEF SomeDegraded
<1>9. Owned'
  <2>1. ASSUME NEW p \in DOMAIN proc' PROVE OwnedProc(p)'
    <3>1. p \in DOMAIN proc => OwnedProc(p) /\ proc[p].of \in Units /\ p # NoPid
      BY <1>i, ProcOf DEF Owned, TypeOK
    <3> QED BY <3>1, <1>i, <1>0, <1>s, <1>k, <1>b, <1>v DEF OwnedProc, InFlight
  <2> QED BY <2>1 DEF Owned
<1>10. UnitsInv'
  <2>1. ASSUME NEW w \in Units PROVE UnitInv(w)'
    <3>1. UnitInv(w) BY <1>i DEF UnitsInv
    <3>2. QuietUnit(w)' /\ KnownPids(w)' /\ Watched(w)' /\ QueuedUnit(w)' /\ CountedUnit(w)' /\
         ShownUnit(w)' /\ HeldHandle(w)'
      BY Zenon, <3>1, <1>i, <1>0, <1>s, <1>k, <1>b, <1>v DEF UnitInv, QuietUnit, Terminal,
        KnownPids,
           PidOf, Watched, Settled, InFlight, QueuedUnit, CountedUnit, ShownUnit, HeldHandle
    <3> QED BY <3>2 DEF UnitInv
  <2> QED BY <2>1 DEF UnitsInv
<1> QED BY <1>1, <1>2, <1>3, <1>4, <1>5, <1>6, <1>7, <1>8, <1>9, <1>10 DEF SupInv

\* The unit reported readiness in time.
LEMMA AwaitedKeeps ==
  ASSUME SupInv, Awaited
  PROVE  SupInv'
<1>i. /\ TypeOK /\ Phases /\ Booting /\ Todo /\ Launching /\ Backed /\ Left
      /\ SomeDegraded /\ Owned /\ UnitsInv
  BY DEF SupInv
<1>0. sup.pc = "await" /\ sup.unit \in Units
  BY <1>i DEF Awaited, TypeOK, SupRecs
<1>s. sup' \in SupRecs /\ sup'.phase = sup.phase /\ sup'.pc = "mark" /\ sup'.next = sup.next
  /\ sup'.unit = sup.unit /\ sup'.pid = sup.pid /\ sup'.todo = sup.todo
  BY Zenon, <1>i DEF Awaited, TypeOK, SupRecs, Pcs, LaunchPcs, IdlePcs
<1>v. UNCHANGED <<unit, system, requests, proc, active, pending, posted, bound, root, rootPid,
  stopping, retries, streak>>
  BY DEF Awaited, manager
<1>1. TypeOK' BY <1>i, <1>0, <1>s, <1>v DEF TypeOK
<1>2. Phases' BY <1>i, <1>0, <1>s, <1>v DEF Phases, LaunchPcs, IdlePcs
<1>3. Booting' BY <1>i, <1>0, <1>s, <1>v DEF Booting, LaunchPcs
<1>4. Todo' BY <1>i, <1>0, <1>s, <1>v DEF Todo, LaunchPcs
<1>5. Launching' BY <1>i, <1>0, <1>s, <1>v DEF Launching, Running
<1>6. Backed' BY <1>i, <1>0, <1>s, <1>v DEF Backed
<1>7. Left' BY <1>i, <1>0, <1>s, <1>v DEF Left
<1>8. SomeDegraded' BY <1>i, <1>0, <1>s, <1>v DEF SomeDegraded
<1>9. Owned'
  <2>1. ASSUME NEW p \in DOMAIN proc' PROVE OwnedProc(p)'
    <3>1. p \in DOMAIN proc => OwnedProc(p) /\ proc[p].of \in Units /\ p # NoPid
      BY <1>i, ProcOf DEF Owned, TypeOK
    <3> QED BY <3>1, <1>i, <1>0, <1>s, <1>v DEF OwnedProc, InFlight
  <2> QED BY <2>1 DEF Owned
<1>10. UnitsInv'
  <2>1. ASSUME NEW w \in Units PROVE UnitInv(w)'
    <3>1. UnitInv(w) BY <1>i DEF UnitsInv
    <3>2. QuietUnit(w)' /\ KnownPids(w)' /\ Watched(w)' /\ QueuedUnit(w)' /\ CountedUnit(w)' /\
         ShownUnit(w)' /\ HeldHandle(w)'
      BY Zenon, <3>1, <1>i, <1>0, <1>s, <1>v DEF UnitInv, QuietUnit, Terminal, KnownPids,
        PidOf, Watched,
           Settled, InFlight, QueuedUnit, CountedUnit, ShownUnit, HeldHandle
    <3> QED BY <3>2 DEF UnitInv
  <2> QED BY <2>1 DEF UnitsInv
<1> QED BY <1>1, <1>2, <1>3, <1>4, <1>5, <1>6, <1>7, <1>8, <1>9, <1>10 DEF SupInv

\* It did not, or its Process exited.
LEMMA AwaitFailsKeeps ==
  ASSUME SupInv, AwaitFails
  PROVE  SupInv'
<1>i. /\ TypeOK /\ Phases /\ Booting /\ Todo /\ Launching /\ Backed /\ Left
      /\ SomeDegraded /\ Owned /\ UnitsInv
  BY DEF SupInv
<1>0. sup.pc \in {"publish", "await"} /\ sup.unit \in Units /\ active[sup.unit] = NoPid
  /\ sup.pid # NoPid
  BY <1>i DEF AwaitFails, TypeOK, SupRecs, Launching
<1>s. sup' \in SupRecs /\ sup'.phase = sup.phase /\ sup'.pc = "terminate"
  /\ sup'.next = sup.next /\ sup'.unit = sup.unit /\ sup'.pid = sup.pid /\ sup'.todo = sup.todo
  BY Zenon, <1>i DEF AwaitFails, TypeOK, SupRecs, Pcs, LaunchPcs, IdlePcs
<1>p. /\ proc' \in Seq(ProcRecs) /\ DOMAIN proc' = DOMAIN proc
      /\ \A q \in DOMAIN proc : proc'[q].of = proc[q].of
      /\ \A q \in DOMAIN proc : proc'[q].state = "running" => proc[q].state = "running"
  BY <1>i, ExitedFacts DEF AwaitFails, TypeOK, Codes
<1>v. UNCHANGED <<unit, system, requests, active, pending, posted, bound, root, rootPid,
  stopping, retries, streak>>
  BY DEF AwaitFails, manager
<1>1. TypeOK' BY Zenon, <1>i, <1>0, <1>s, <1>p, <1>v DEF TypeOK
<1>2. Phases' BY Zenon, <1>i, <1>0, <1>s, <1>v DEF Phases, LaunchPcs, IdlePcs
<1>3. Booting' BY <1>i, <1>0, <1>s, <1>p, <1>v DEF Booting, LaunchPcs
<1>4. Todo' BY <1>i, <1>0, <1>s, <1>v DEF Todo, LaunchPcs
<1>5. Launching' BY <1>i, <1>0, <1>s, <1>p, <1>v DEF Launching, Running
<1>6. Backed' BY <1>i, <1>0, <1>s, <1>p, <1>v DEF Backed
<1>7. Left' BY <1>i, <1>0, <1>s, <1>v DEF Left
<1>8. SomeDegraded' BY Zenon, <1>i, <1>0, <1>s, <1>p, <1>v DEF SomeDegraded
<1>9. Owned'
  <2>1. ASSUME NEW p \in DOMAIN proc' PROVE OwnedProc(p)'
    <3>1. p \in DOMAIN proc => OwnedProc(p) /\ proc[p].of \in Units /\ p # NoPid
      BY <1>i, ProcOf DEF Owned, TypeOK
    <3> QED BY Zenon, <3>1, <1>i, <1>0, <1>s, <1>p, <1>v DEF OwnedProc, InFlight
  <2> QED BY <2>1 DEF Owned
<1>10. UnitsInv'
  <2>1. ASSUME NEW w \in Units PROVE UnitInv(w)'
    <3>1. UnitInv(w) BY <1>i DEF UnitsInv
    <3>2. QuietUnit(w)' /\ KnownPids(w)' /\ Watched(w)' /\ QueuedUnit(w)' /\ CountedUnit(w)' /\
         ShownUnit(w)' /\ HeldHandle(w)'
      BY Zenon, <3>1, <1>i, <1>0, <1>s, <1>p, <1>v DEF UnitInv, QuietUnit, Terminal, KnownPids,
        PidOf,
           Watched, Settled, InFlight, QueuedUnit, CountedUnit, ShownUnit, HeldHandle
    <3> QED BY <3>2 DEF UnitInv
  <2> QED BY <2>1 DEF UnitsInv
<1> QED BY <1>1, <1>2, <1>3, <1>4, <1>5, <1>6, <1>7, <1>8, <1>9, <1>10 DEF SupInv

\* A failed launch withdraws what it posted and ends its Process.
LEMMA TerminateKeeps ==
  ASSUME SupInv, Terminate
  PROVE  SupInv'
<1>i. /\ TypeOK /\ Phases /\ Booting /\ Todo /\ Launching /\ Backed /\ Left
      /\ SomeDegraded /\ Owned /\ UnitsInv
  BY DEF SupInv
<1>0. /\ sup.pc = "terminate" /\ sup.unit \in Units /\ active[sup.unit] = NoPid
      /\ unit[sup.unit].pid = sup.pid /\ sup.phase \in {"boot", "settle", "run"}
  BY <1>i DEF Terminate, TypeOK, SupRecs, Launching
<1>s. sup' \in SupRecs /\ sup'.phase = sup.phase /\ sup'.next = sup.next /\ sup'.unit = sup.unit
      /\ sup'.pid = sup.pid /\ sup'.todo = sup.todo
      /\ \/ sup'.pc = "record"
         \/ sup.unit = Root /\ sup.phase = "run" /\ sup'.pc = "dead" /\ sup.pid # NoPid
         \/ sup.unit = Root /\ sup.phase # "run" /\ sup'.pc = "aborted" /\ sup.pid # NoPid
  <2>1. PICK ok \in IF sup.pid = NoPid THEN {TRUE} ELSE ReleaseOutcomes(sup.unit) :
          sup' = [sup EXCEPT !.pid = sup.pid, !.pc = IF ok THEN "record" ELSE Abandoned]
    BY Zenon, <1>0 DEF Terminate
  <2> DEFINE pc == IF ok THEN "record" ELSE Abandoned
  <2>2. \/ pc = "record"
        \/ sup.unit = Root /\ sup.phase = "run" /\ pc = "dead" /\ sup.pid # NoPid
        \/ sup.unit = Root /\ sup.phase # "run" /\ pc = "aborted" /\ sup.pid # NoPid
    BY Zenon, <2>1 DEF ReleaseOutcomes, Abandoned
  <2>3. sup' = [sup EXCEPT !.pid = sup.pid, !.pc = pc] BY <2>1
  <2> HIDE DEF pc
  <2>4. sup \in SupRecs /\ pc \in Pcs BY <1>i, <2>2 DEF TypeOK, Pcs, LaunchPcs
  <2>5. sup' \in SupRecs /\ sup'.phase = sup.phase /\ sup'.next = sup.next
        /\ sup'.unit = sup.unit /\ sup'.pid = sup.pid /\ sup'.todo = sup.todo /\ sup'.pc = pc
    BY Zenon, <2>3, <2>4 DEF SupRecs
  <2> QED BY Zenon, <2>2, <2>5
<1>p. /\ proc' \in Seq(ProcRecs) /\ DOMAIN proc' = DOMAIN proc
      /\ \A q \in DOMAIN proc : proc'[q].of = proc[q].of
      /\ \A q \in DOMAIN proc : proc'[q].state = "running" => proc[q].state = "running"
           /\ q # sup.pid
  BY <1>i, ExitedFacts DEF Terminate, Launching, TypeOK, Codes
<1>v. /\ active' = active /\ rootPid' \in Nat
      /\ UNCHANGED <<unit, system, requests, pending, posted, bound, root, stopping, retries,
           streak>>
  BY <1>i, <1>0 DEF Terminate, manager, TypeOK, NoPid
<1>z. posted[Root] = NoPid
  BY Zenon, <1>i, Constants DEF UnitsInv, UnitInv, KnownPids
<1>1. TypeOK' BY Zenon, <1>i, <1>0, <1>s, <1>p, <1>v, <1>z DEF TypeOK
<1>2. Phases' BY Zenon, <1>i, <1>0, <1>s, <1>v, Constants DEF Phases, LaunchPcs, IdlePcs
<1>3. Booting' BY Zenon, <1>i, <1>0, <1>s, <1>p, <1>v, <1>z, Constants DEF Booting, LaunchPcs
<1>4. Todo' BY Zenon, <1>i, <1>0, <1>s, <1>v DEF Todo, LaunchPcs
<1>5. Launching' BY <1>i, <1>0, <1>s, <1>p, <1>v, <1>z DEF Launching, Running
<1>6. Backed' BY <1>i, <1>0, <1>s, <1>p, <1>v, <1>z DEF Backed
<1>7. Left' BY <1>i, <1>0, <1>s, <1>v DEF Left
<1>8. SomeDegraded' BY <1>i, <1>0, <1>s, <1>p, <1>v, <1>z DEF SomeDegraded
<1>9. Owned'
  <2>1. ASSUME NEW p \in DOMAIN proc' PROVE OwnedProc(p)'
    <3>1. p \in DOMAIN proc => OwnedProc(p) /\ proc[p].of \in Units /\ p # NoPid
      BY <1>i, ProcOf DEF Owned, TypeOK
    <3> QED BY <3>1, <1>i, <1>0, <1>s, <1>p, <1>v, <1>z DEF OwnedProc, InFlight
  <2> QED BY <2>1 DEF Owned
<1>10. UnitsInv'
  <2>1. ASSUME NEW w \in Units PROVE UnitInv(w)'
    <3>1. UnitInv(w) BY <1>i DEF UnitsInv
    <3>2. QuietUnit(w)' /\ KnownPids(w)' /\ Watched(w)' /\ QueuedUnit(w)' /\ CountedUnit(w)' /\
         ShownUnit(w)' /\ HeldHandle(w)'
      BY Zenon, <3>1, <1>i, <1>0, <1>s, <1>p, <1>v, <1>z DEF UnitInv, QuietUnit, Terminal,
        KnownPids,
           PidOf, Watched, Settled, InFlight, QueuedUnit, CountedUnit, ShownUnit, HeldHandle
    <3> QED BY <3>2 DEF UnitInv
  <2> QED BY <2>1 DEF UnitsInv
<1> QED BY <1>1, <1>2, <1>3, <1>4, <1>5, <1>6, <1>7, <1>8, <1>9, <1>10 DEF SupInv

\* Then the failed launch is recorded, with another try due or not.
LEMMA RecordKeeps ==
  ASSUME SupInv, Record
  PROVE  SupInv'
<1>i. /\ TypeOK /\ Phases /\ Booting /\ Todo /\ Launching /\ Backed /\ Left
      /\ SomeDegraded /\ Owned /\ UnitsInv
  BY DEF SupInv
<1>0. /\ sup.pc = "record" /\ sup.unit \in Units /\ active[sup.unit] = NoPid
      /\ unit[sup.unit].pid = sup.pid /\ sup.phase \in {"boot", "settle", "run"}
           /\ ~Running(sup.pid)
      /\ unit[sup.unit].status \in {"Pending", "Backoff", "Starting"}
      /\ unit[sup.unit].status = "Starting" <=> sup.pid # NoPid
      /\ unit[sup.unit].attempts \in Nat
  BY <1>i DEF Record, TypeOK, SupRecs, UnitRecs, Launching
<1> DEFINE us == IF sup.pid = NoPid THEN StartFailed(unit, sup.unit) ELSE unit
           r == RecordExit(us, sup.unit, 1, FALSE)
<1>us. /\ us \in [Units -> UnitRecs] /\ \A v \in Units : v # sup.unit => us[v] = unit[v]
       /\ us[sup.unit].degraded = unit[sup.unit].degraded
       /\ us[sup.unit].attempts =
            IF sup.pid = NoPid THEN unit[sup.unit].attempts + 1 ELSE unit[sup.unit].attempts
  <2>1. unit \in [Units -> UnitRecs] /\ NoPid \in Nat BY <1>i DEF TypeOK, NoPid
  <2>2. CASE sup.pid # NoPid BY <2>1, <2>2
  <2>3. CASE sup.pid = NoPid
    <3>1. us = [unit EXCEPT ![sup.unit] = Started(@, NoPid)] BY <2>3 DEF StartFailed
    <3>2. /\ DOMAIN us = Units /\ us[sup.unit] = Started(unit[sup.unit], NoPid)
          /\ us = [v \in Units |-> us[v]] /\ \A v \in Units : v # sup.unit => us[v] = unit[v]
      BY Zenon, <1>0, <2>1, <3>1
    <3>3. /\ us[sup.unit] \in UnitRecs /\ us[sup.unit].attempts = unit[sup.unit].attempts + 1
          /\ us[sup.unit].degraded = unit[sup.unit].degraded
      BY <1>0, <2>1, <3>2, StartedFacts
    <3> HIDE DEF us
    <3>4. us \in [Units -> UnitRecs] BY <2>1, <3>2, <3>3
    <3> QED BY <2>3, <3>2, <3>3, <3>4
  <2> QED BY <2>2, <2>3
<1>rr. /\ unit' = r.unit /\ system' = r.system /\ pending' = Deadlines(sup.unit, r.restart)
       /\ sup' = IF sup.phase = "run"
                 THEN [sup EXCEPT !.pid = NoPid, !.unit = Root, !.pc = "due"]
                 ELSE [sup EXCEPT !.pid = NoPid, !.pc = IF r.restart THEN "spawn" ELSE "aborted"]
  BY DEF Record
<1> HIDE DEF us, r
<1>rf. Recorded(r, us, sup.unit, us[sup.unit].attempts)
  <2>1. 1 \in Codes /\ system \in {"Booting", "Ready", "Degraded", "Failed", "Stopping"}
    BY <1>i DEF TypeOK, Codes
  <2>2. r = RecordExit(us, sup.unit, 1, FALSE) BY DEF r
  <2>3. Recorded(r, us, sup.unit, IF FALSE THEN 1 ELSE us[sup.unit].attempts)
    BY Zenon, <1>0, <1>us, <2>1, <2>2, RecordFacts
  <2> QED BY <2>3
<1>r. /\ unit' \in [Units -> UnitRecs] /\ \A v \in Units : v # sup.unit => unit'[v] = unit[v]
      /\ unit'[sup.unit].pid = NoPid /\ unit'[sup.unit].status \in {"Backoff"} \cup Terminal
      /\ unit[sup.unit].degraded => unit'[sup.unit].degraded
      /\ unit'[sup.unit].degraded => unit[sup.unit].degraded \/ sup.unit \in Required
      /\ unit'[sup.unit].status = "Backoff" => /\ system' = system
                                       /\ unit'[sup.unit].attempts <= RestartLimit
      /\ system' \in {"Booting", "Ready", "Degraded", "Failed", "Stopping"}
      /\ system # "Booting" => system' \in {system, "Degraded"}
      /\ system # "Booting" /\ unit'[sup.unit].status # "Backoff" /\ sup.unit \in Required =>
           unit'[sup.unit].degraded /\ system' = "Degraded"
      /\ system' = "Degraded" =>
           system = "Degraded" \/ (sup.unit \in Required /\ unit'[sup.unit].degraded)
      /\ unit'[sup.unit].attempts =
           IF sup.pid = NoPid THEN unit[sup.unit].attempts + 1 ELSE unit[sup.unit].attempts
  BY <1>rr, <1>rf, <1>us DEF Recorded
<1>q. pending' = IF unit'[sup.unit].status = "Backoff" /\ sup.phase = "run"
                 THEN pending \cup {sup.unit} ELSE pending
  BY <1>rr, <1>rf DEF Deadlines, Recorded
<1>s. /\ sup' \in SupRecs /\ sup'.phase = sup.phase /\ sup'.next = sup.next
      /\ sup'.pid = NoPid /\ sup'.todo = sup.todo
      /\ sup.phase = "run" => sup'.pc = "due" /\ sup'.unit = Root
      /\ sup.phase # "run" =>
           /\ sup'.unit = sup.unit
           /\ sup'.pc = IF unit'[sup.unit].status = "Backoff" THEN "spawn" ELSE "aborted"
  BY Zenon, <1>i, <1>0, <1>rr, <1>rf, Constants DEF Recorded, TypeOK, NoPid, SupRecs, Pcs,
    LaunchPcs, IdlePcs
<1>k. posted' \in [Units -> Nat] /\ posted'[sup.unit] = NoPid
      /\ \A v \in Units : v # sup.unit => posted'[v] = posted[v]
  BY Zenon, <1>i, <1>0 DEF Record, Withdraw, TypeOK, NoPid
<1>b. bound' \in Nat /\ bound' = IF sup.unit = Package /\ sup.phase # "boot" THEN NoPid ELSE bound
  BY <1>i, <1>0 DEF Record, Withdraw, TypeOK, NoPid
<1>v. UNCHANGED <<requests, proc, active, root, rootPid, stopping, retries, streak>>
  BY DEF Record
<1>1. TypeOK' BY Zenon, <1>i, <1>0, <1>r, <1>q, <1>s, <1>k, <1>b, <1>v DEF TypeOK
<1>2. Phases' BY <1>i, <1>0, <1>s, <1>v, Constants DEF Phases, LaunchPcs, IdlePcs
<1>3. Booting'
  <2>1. sup.phase = "boot" =>
          sup.next \in DOMAIN BootOrder /\ sup.unit = BootOrder[sup.next] /\ sup.unit # Root
    <3>1. sup.phase = "boot" =>
            sup.next > 0 /\ sup.next <= Len(BootOrder) /\ sup.unit = BootOrder[sup.next]
      BY <1>i, <1>0 DEF Phases, LaunchPcs
    <3>2. sup.next \in Nat BY <1>i DEF TypeOK, SupRecs
    <3> QED BY <3>1, <3>2, Constants
  <2>2. sup.phase = "boot" => unit[Root].status = "Pending" /\ unit'[Root] = unit[Root]
    BY Zenon, <1>i, <1>0, <1>r, <2>1, Constants DEF Booting
  <2>3. ASSUME sup.phase = "boot", NEW i \in DOMAIN BootOrder, i > sup.next
        PROVE  unit'[BootOrder[i]].status = "Pending"
    <3>1. BootOrder[i] # sup.unit /\ BootOrder[i] \in Units BY <2>1, <2>3, Constants
    <3>2. unit[BootOrder[i]].status = "Pending" BY <1>i, <1>0, <2>3 DEF Booting
    <3> QED BY Zenon, <1>r, <3>1, <3>2
  <2>4. sup'.phase # "boot" \/ sup'.pc # "next" BY <1>0, <1>s
  <2>5. sup'.next = sup.next /\ sup'.phase = sup.phase BY <1>s
  <2>6. sup'.phase = "boot" /\ sup'.pc # "aborted" =>
          /\ unit'[Root].status = "Pending"
          /\ \A i \in DOMAIN BootOrder :
               i > sup'.next \/ (i = sup'.next /\ sup'.pc = "next") =>
                 unit'[BootOrder[i]].status = "Pending"
    BY <2>2, <2>3, <2>4, <2>5
  <2>7. /\ sup'.phase # "run" => sup'.todo = {}
        /\ sup'.phase # "run" /\ sup'.pc # "aborted" => pending' = {} /\ requests' = {}
        /\ (sup'.phase # "run") # (sup'.pc = "aborted") => system' = "Booting"
    BY Zenon, <1>i, <1>0, <1>r, <1>q, <1>s, <1>v DEF Booting
  <2> QED BY <2>6, <2>7 DEF Booting
<1>4. Todo' BY Zenon, <1>i, <1>0, <1>q, <1>s, <1>v DEF Todo, LaunchPcs
<1>5. Launching' BY Zenon, <1>i, <1>0, <1>r, <1>q, <1>s, <1>k, <1>b, <1>v DEF Launching, Running
<1>6. Backed' BY Zenon, <1>i, <1>0, <1>r, <1>q, <1>s, <1>k, <1>b, <1>v, Constants DEF Backed
<1>7. Left' BY Zenon, <1>i, <1>0, <1>r, <1>s, <1>v DEF Left
<1>8. SomeDegraded'
  <2>1. ASSUME sup'.phase = "run",
                 system' = "Degraded" PROVE \E v \in Required : unit'[v].degraded
    <3>1. CASE sup.unit \in Required /\ unit'[sup.unit].degraded BY <3>1
    <3>2. CASE system = "Degraded"
      <4>1. PICK v \in Required : unit[v].degraded BY <1>i, <1>s, <2>1, <3>2 DEF SomeDegraded
      <4>2. v \in Units /\ unit'[v].degraded BY <1>r, <4>1, Constants
      <4> QED BY <4>1, <4>2
    <3> QED BY <1>r, <2>1, <3>1, <3>2
  <2> QED BY <2>1 DEF SomeDegraded
<1>9. Owned'
  <2>1. ASSUME NEW p \in DOMAIN proc' PROVE OwnedProc(p)'
    <3>1. p \in DOMAIN proc => OwnedProc(p) /\ proc[p].of \in Units /\ p # NoPid
      BY <1>i, ProcOf DEF Owned, TypeOK
    <3>2. CASE p \notin DOMAIN proc
      BY Zenon, <3>2, <1>i, <1>0, <1>r, <1>q, <1>s, <1>k, <1>b, <1>v DEF
         OwnedProc, InFlight, Running
    <3>3. CASE p \in DOMAIN proc /\ proc[p].of = sup.unit
      BY Zenon, <3>1, <3>3, <1>0, <1>v DEF OwnedProc, InFlight, Running
    <3>4. CASE p \in DOMAIN proc /\ proc[p].of # sup.unit
      BY Zenon, <3>1, <3>4, <1>i, <1>0, <1>r, <1>q, <1>s, <1>k, <1>b, <1>v DEF OwnedProc,
        InFlight,
        Running
    <3> QED BY <3>2, <3>3, <3>4
  <2> QED BY <2>1 DEF Owned
<1>10. UnitsInv'
  <2>1. ASSUME NEW w \in Units PROVE UnitInv(w)'
    <3>1. UnitInv(w) BY <1>i DEF UnitsInv
    <3>2. QuietUnit(w)'
      BY Zenon, <3>1, <1>i, <1>0, <1>r, <1>q, <1>s, <1>k, <1>b, <1>v DEF UnitInv, QuietUnit,
        Terminal
    <3>3. KnownPids(w)'
      BY Zenon, <3>1, <1>i, <1>0, <1>r, <1>q, <1>s, <1>k, <1>b, <1>v DEF UnitInv, KnownPids,
        PidOf,
           Terminal
    <3>4. Watched(w)'
      <4>1. CASE w = sup.unit
        <5>1. CASE sup.phase = "run"
          BY Zenon, <1>0, <1>r, <1>q, <1>v, <4>1, <5>1 DEF Watched, Settled, Terminal
        <5>2. CASE sup.phase # "run" BY Zenon, <1>0, <1>s, <4>1, <5>2 DEF Watched, InFlight
        <5> QED BY <5>1, <5>2
      <4>2. CASE w # sup.unit
        BY Zenon, <3>1, <4>2, <1>0, <1>r, <1>q, <1>s, <1>v DEF UnitInv, Watched, Settled, InFlight
      <4> QED BY <4>1, <4>2
    <3>5. QueuedUnit(w)'
      BY Zenon, <3>1, <1>i, <1>0, <1>r, <1>q, <1>s, <1>k, <1>b, <1>v DEF UnitInv, QueuedUnit,
        InFlight
    <3>6. CountedUnit(w)'
      <4>1. CASE w = sup.unit
        <5>1. CountedUnit(w) /\ RestartLimit \in Nat BY <3>1, Constants DEF UnitInv
        <5>2. /\ unit[w].attempts \in Nat
              /\ unit'[w].attempts = IF sup.pid = NoPid THEN unit[w].attempts + 1
                                     ELSE unit[w].attempts
          BY Zenon, <1>0, <1>r, <4>1
        <5>3. streak'[w] = unit'[w].attempts
          BY Zenon, <1>0, <1>v, <4>1, <5>1, <5>2 DEF CountedUnit
        <5>4. unit'[w].attempts <= RestartLimit + 1
          BY <1>0, <4>1, <5>1, <5>2 DEF CountedUnit
        <5>5. unit'[w].status = "Backoff" => unit'[w].attempts <= RestartLimit BY <1>r, <4>1
        <5>6. unit'[w].status # "Pending" BY <1>r, <4>1 DEF Terminal
        <5>7. sup'.pc \notin {"terminate", "record"} BY <1>0, <1>s
        <5> QED BY <5>3, <5>4, <5>5, <5>6, <5>7 DEF CountedUnit
      <4>2. CASE w # sup.unit
        BY Zenon, <3>1, <4>2, <1>0, <1>r, <1>s, <1>v DEF UnitInv, CountedUnit
      <4> QED BY <4>1, <4>2
    <3>7. ShownUnit(w)'
      <4>1. CASE w = sup.unit
        <5>1. sup.phase = "run" => system # "Booting" BY <1>i, <1>0 DEF Left
        <5> QED BY Zenon, <3>1, <4>1, <5>1, <1>r, <1>s DEF UnitInv, ShownUnit, Terminal
      <4>2. CASE w # sup.unit
        BY Zenon, <3>1, <4>2, <1>i, <1>0, <1>r, <1>s DEF UnitInv, ShownUnit, Left
      <4> QED BY <4>1, <4>2
    <3>8. HeldHandle(w)'
      BY Zenon, <3>1, <1>i, <1>0, <1>r, <1>q, <1>s, <1>k, <1>b, <1>v DEF UnitInv, HeldHandle,
        InFlight
    <3> QED BY <3>2, <3>3, <3>4, <3>5, <3>6, <3>7, <3>8 DEF UnitInv
  <2> QED BY <2>1 DEF UnitsInv
<1> QED BY <1>1, <1>2, <1>3, <1>4, <1>5, <1>6, <1>7, <1>8, <1>9, <1>10 DEF SupInv

-----------------------------------------------------------------------------
(* Ready units, exits, the loop, and what others do.                       *)

\* A launch that succeeded: mark_ready, and the unit is watched.
LEMMA MarkReadyKeeps ==
  ASSUME SupInv, MarkReady
  PROVE  SupInv'
<1>i. /\ TypeOK /\ Phases /\ Booting /\ Todo /\ Launching /\ Backed /\ Left
      /\ SomeDegraded /\ Owned /\ UnitsInv
  BY DEF SupInv
<1>0. /\ sup.pc = "mark" /\ sup.unit \in Units /\ sup.pid \in Nat
           /\ sup.phase \in {"boot", "settle", "run"}
      /\ sup.next \in Nat /\ sup.pid # NoPid /\ unit[sup.unit].pid = sup.pid
      /\ active[sup.unit] \in {NoPid, sup.pid} /\ posted[sup.unit] \in {NoPid, sup.pid}
      /\ unit[sup.unit].status = "Starting"
  BY <1>i DEF MarkReady, TypeOK, SupRecs, Launching
<1>u. /\ unit' \in [Units -> UnitRecs] /\ \A v \in Units : v # sup.unit => unit'[v] = unit[v]
      /\ unit'[sup.unit].status = "Ready" /\ unit'[sup.unit].pid = unit[sup.unit].pid
      /\ unit'[sup.unit].attempts = unit[sup.unit].attempts
      /\ unit'[sup.unit].degraded = unit[sup.unit].degraded
  BY Zenon, <1>i, <1>0 DEF MarkReady, mark_ready, TypeOK, UnitRecs, Statuses
<1>y. /\ system' \in {"Booting", "Ready", "Degraded", "Failed", "Stopping"}
      /\ \/ system' = "Ready" /\ \A v \in Units : unit'[v].status = "Ready"
         \/ system' = system /\ ~\A v \in Units : unit'[v].status = "Ready"
  BY <1>i DEF MarkReady, mark_ready, TypeOK
<1>a. active' \in [Units -> Nat] /\ active'[sup.unit] = sup.pid
      /\ \A v \in Units : v # sup.unit => active'[v] = active[v]
  BY <1>i, <1>0 DEF MarkReady, TypeOK
<1>s. /\ sup' \in SupRecs /\ sup'.pid = NoPid /\ sup'.todo = sup.todo
      /\ sup.phase = "boot" => /\ sup'.phase = "boot" /\ sup'.pc = "next"
                               /\ sup'.next = sup.next + 1 /\ sup'.unit = sup.unit
      /\ sup.phase = "settle" => /\ sup'.phase = "run" /\ sup'.unit = sup.unit
                                 /\ sup'.pc = IF system' = "Ready" THEN "due" ELSE "aborted"
      /\ sup.phase = "run" => sup'.phase = "run" /\ sup'.pc = "due" /\ sup'.unit = Root
  <2>1. sup \in SupRecs /\ NoPid \in Nat /\ Root \in Units BY <1>i, Constants DEF TypeOK, NoPid
  <2>2. CASE sup.phase = "boot"
    <3> DEFINE n == sup.next + 1
    <3>1. n \in Nat BY <1>0
    <3>2. sup' = [sup EXCEPT !.pc = "next", !.next = n, !.pid = NoPid] BY <2>2 DEF MarkReady
    <3>3. n = sup.next + 1 OBVIOUS
    <3> HIDE DEF n
    <3> QED BY Zenon, <2>1, <2>2, <3>1, <3>2, <3>3 DEF SupRecs, Pcs, LaunchPcs, IdlePcs
  <2>3. CASE sup.phase = "settle"
    <3>1. sup' = [sup EXCEPT !.phase = "run", !.pid = NoPid,
                             !.pc = IF system' = "Ready" THEN "due" ELSE "aborted"]
      BY <2>3 DEF MarkReady
    <3> QED BY Zenon, <2>1, <2>3, <3>1 DEF SupRecs, Pcs, LaunchPcs, IdlePcs
  <2>4. CASE sup.phase = "run"
    <3>1. sup' = [sup EXCEPT !.pc = "due", !.pid = NoPid, !.unit = Root] BY <2>4 DEF MarkReady
    <3> QED BY Zenon, <2>1, <2>4, <3>1 DEF SupRecs, Pcs, LaunchPcs, IdlePcs
  <2> QED BY Zenon, <1>0, <2>2, <2>3, <2>4
<1>v. root' \in Nat /\ rootPid' \in Nat /\ UNCHANGED <<requests, proc, pending, posted, bound,
  stopping, retries, streak>>
  BY <1>i, <1>0 DEF MarkReady, TypeOK
<1>1. TypeOK' BY Zenon, <1>i, <1>0, <1>u, <1>y, <1>a, <1>s, <1>v DEF TypeOK
<1>2. Phases' BY <1>i, <1>0, <1>u, <1>s, <1>v, Constants DEF Phases, LaunchPcs, IdlePcs
<1>3. Booting'
  <2>1. sup.phase = "boot" =>
          sup.next \in DOMAIN BootOrder /\ sup.unit = BootOrder[sup.next] /\ sup.unit # Root
    <3>1. sup.phase = "boot" =>
            sup.next > 0 /\ sup.next <= Len(BootOrder) /\ sup.unit = BootOrder[sup.next]
      BY <1>i, <1>0 DEF Phases, LaunchPcs
    <3> QED BY <1>0, <3>1, Constants
  <2>2. sup.phase = "boot" => unit'[Root].status = "Pending"
    BY <1>i, <1>0, <1>u, <2>1, Constants DEF Booting
  <2>3. ASSUME sup.phase = "boot", NEW i \in DOMAIN BootOrder, i > sup.next
        PROVE  unit'[BootOrder[i]].status = "Pending"
    <3>1. BootOrder[i] # sup.unit /\ BootOrder[i] \in Units BY <2>1, <2>3, Constants
    <3>2. unit[BootOrder[i]].status = "Pending" BY <1>i, <1>0, <2>3 DEF Booting
    <3> QED BY <1>u, <3>1, <3>2
  <2>4. \A i \in DOMAIN BootOrder :
          sup.phase = "boot" /\ (i > sup.next + 1 \/ i = sup.next + 1) => i > sup.next
    BY <1>0, Constants
  <2>5. sup'.phase = "boot" /\ sup'.pc # "aborted" =>
          /\ unit'[Root].status = "Pending"
          /\ \A i \in DOMAIN BootOrder :
               i > sup'.next \/ (i = sup'.next /\ sup'.pc = "next") =>
                 unit'[BootOrder[i]].status = "Pending"
    BY <1>0, <1>s, <2>2, <2>3, <2>4
  <2>6. /\ sup'.phase # "run" => sup'.todo = {}
        /\ sup'.phase # "run" /\ sup'.pc # "aborted" => pending' = {} /\ requests' = {}
    BY Zenon, <1>i, <1>0, <1>s, <1>v DEF Booting
  <2>7. sup.phase # "run" => system = "Booting" BY Zenon, <1>i, <1>0 DEF Booting
  <2>8. sup.phase = "boot" => system' = "Booting" BY <1>0, <1>y, <2>2, <2>7, Constants
  <2>9. (sup'.phase # "run") # (sup'.pc = "aborted") => system' = "Booting"
    BY <1>0, <1>s, <1>y, <2>7, <2>8
  <2> QED BY <2>5, <2>6, <2>9 DEF Booting
<1>4. Todo' BY Zenon, <1>i, <1>0, <1>u, <1>a, <1>s, <1>v DEF Todo, LaunchPcs, Booting
<1>5. Launching' BY Zenon, <1>i, <1>0, <1>u, <1>y, <1>a, <1>s, <1>v DEF Launching, Running
<1>6. Backed' BY Zenon, <1>i, <1>0, <1>u, <1>y, <1>a, <1>s, <1>v DEF Backed
<1>7. Left' BY Zenon, <1>i, <1>0, <1>u, <1>y, <1>s, <1>v DEF Left
<1>8. SomeDegraded'
  <2>1. \A v \in Units : unit'[v].degraded = unit[v].degraded BY <1>u
  <2>2. sup'.phase = "run" /\ system' = "Degraded" => sup.phase = "run" /\ system = "Degraded"
    BY <1>i, <1>0, <1>s, <1>y DEF Booting
  <2> QED BY <1>i, <2>1, <2>2, Constants DEF SomeDegraded
<1>9. Owned'
  <2>1. ASSUME NEW p \in DOMAIN proc' PROVE OwnedProc(p)'
    <3>1. p \in DOMAIN proc => OwnedProc(p) /\ proc[p].of \in Units /\ p # NoPid
      BY <1>i, ProcOf DEF Owned, TypeOK
    <3>2. CASE p \notin DOMAIN proc BY Zenon, <3>2, <1>i, <1>0, <1>u, <1>y, <1>a, <1>s, <1>v DEF
         OwnedProc, InFlight
    <3>3. CASE p \in DOMAIN proc /\ proc[p].of = sup.unit
      BY <3>1, <3>3, <1>i, <1>0, <1>u, <1>y, <1>a, <1>s, <1>v DEF OwnedProc, InFlight
    <3>4. CASE p \in DOMAIN proc /\ proc[p].of # sup.unit
      BY <3>1, <3>4, <1>i, <1>0, <1>u, <1>y, <1>a, <1>s, <1>v DEF OwnedProc, InFlight
    <3> QED BY <3>2, <3>3, <3>4
  <2> QED BY <2>1 DEF Owned
<1>10. UnitsInv'
  <2>1. ASSUME NEW w \in Units PROVE UnitInv(w)'
    <3>1. UnitInv(w) BY <1>i DEF UnitsInv
    <3>2. QuietUnit(w)'
      BY Zenon, <3>1, <1>i, <1>0, <1>u, <1>y, <1>a, <1>s, <1>v DEF UnitInv, QuietUnit, Terminal
    <3>3. KnownPids(w)'
      <4>1. CASE w = sup.unit
        BY Zenon, <3>1, <4>1, <1>i, <1>0, <1>u, <1>y, <1>a, <1>s, <1>v DEF UnitInv,
           KnownPids, PidOf, Terminal
      <4>2. CASE w # sup.unit
        BY Zenon, <3>1, <4>2, <1>i, <1>0, <1>u, <1>y, <1>a, <1>s, <1>v DEF UnitInv,
           KnownPids, PidOf, Terminal
      <4> QED BY <4>1, <4>2
    <3>4. Watched(w)'
      <4>1. CASE w = sup.unit BY Zenon, <1>0, <1>u, <1>a, <4>1 DEF Watched, Settled
      <4>2. CASE w # sup.unit
        <5>1. Settled(w) BY Zenon, <3>1, <4>2, <1>0 DEF UnitInv, Watched, InFlight
        <5>2. ASSUME sup.phase = "settle", sup'.pc # "aborted" PROVE unit'[w].status = "Ready"
          BY <1>i, <1>0, <1>s, <1>y, <5>2 DEF Booting
        <5> QED BY Zenon, <1>0, <1>u, <1>a, <1>s, <1>v, <4>2, <5>1, <5>2 DEF Watched, Settled
      <4> QED BY <4>1, <4>2
    <3>5. QueuedUnit(w)'
      <4>1. CASE w = sup.unit
        BY Zenon, <3>1, <4>1, <1>i, <1>0, <1>u, <1>y, <1>a, <1>s, <1>v DEF UnitInv,
           QueuedUnit, InFlight
      <4>2. CASE w # sup.unit
        BY Zenon, <3>1, <4>2, <1>i, <1>0, <1>u, <1>y, <1>a, <1>s, <1>v DEF UnitInv,
           QueuedUnit, InFlight
      <4> QED BY <4>1, <4>2
    <3>6. CountedUnit(w)'
      <4>1. CASE w = sup.unit
        BY Zenon, <3>1, <4>1, <1>i, <1>0, <1>u, <1>y, <1>a, <1>s, <1>v DEF UnitInv,
           CountedUnit
      <4>2. CASE w # sup.unit
        BY Zenon, <3>1, <4>2, <1>i, <1>0, <1>u, <1>y, <1>a, <1>s, <1>v DEF UnitInv,
           CountedUnit
      <4> QED BY <4>1, <4>2
    <3>7. ShownUnit(w)'
      <4>1. CASE w = sup.unit BY <3>1, <1>0, <1>u, <4>1 DEF UnitInv, ShownUnit, Terminal
      <4>2. CASE w # sup.unit
        <5>1. unit'[w] = unit[w] BY <1>u, <4>2
        <5>2. unit[w].status = "Ready" \/ system' = system BY <1>y, <5>1
        <5>3. sup.phase # "run" => unit[w].status \notin Terminal
          BY <3>1, <1>0 DEF UnitInv, QuietUnit
        <5> QED BY <3>1, <1>0, <1>s, <5>1, <5>2, <5>3 DEF UnitInv, ShownUnit, Terminal
      <4> QED BY <4>1, <4>2
    <3>8. HeldHandle(w)'
      <4>1. CASE w = sup.unit BY <1>0, <1>a, <1>v, <4>1 DEF HeldHandle
      <4>2. CASE w # sup.unit BY <3>1, <1>0, <1>a, <1>v, <4>2 DEF UnitInv, HeldHandle, InFlight
      <4> QED BY <4>1, <4>2
    <3> QED BY <3>2, <3>3, <3>4, <3>5, <3>6, <3>7, <3>8 DEF UnitInv
  <2> QED BY <2>1 DEF UnitsInv
<1> QED BY <1>1, <1>2, <1>3, <1>4, <1>5, <1>6, <1>7, <1>8, <1>9, <1>10 DEF SupInv
=============================================================================
