---------------------------- MODULE ProcFs_proofs ----------------------------
(* Proofs about the process table and /proc, for any number of pids, fids, *)
(* mount paths and live handles and for any exec documents.                *)
EXTENDS ProcFs, TLAPS

USE ProcFsAssumption, WrittenAssumption

\* Pids above the allocator are untouched.
SlotBounds == \A p \in Pids : p >= next => st[p] = "free"

\* A fid walked to ctl names a public process; only a clone fid holds a slot.
FidNodes == \A v \in Views, f \in AllFids :
    /\ fid[v][f].node = "ctl" => fid[v][f].pid \in Pids /\ Public(fid[v][f].pid)
    /\ fid[v][f].clone # 0 => fid[v][f].node = "clone"

\* A slot's spawner is the boot view or a process that was public already.
ParentPublic == \A p \in Pids : st[p] # "free" => Client(parent[p])

\* The history variable covers what a handle grants now.
PeakCovers == \A h \in Handles : Within(hns[h], peak[h])

LEMMA UnboundType == Unbound \in FidRecs
  BY DEF Unbound, FidRecs, Views, Docs

LEMMA ViewZero == 0 \in Views /\ Pids = Views \ {0}
  BY DEF Views, Pids

LEMMA OpenedType ==
    ASSUME NEW r \in FidRecs, NEW m \in {"read", "write"}, NEW p \in Views
    PROVE  LET o == [r EXCEPT !.node = "clone", !.mode = m, !.clone = p] IN
           o \in FidRecs /\ o.node = "clone" /\ o.mode = m /\ o.clone = p
  BY DEF FidRecs

LEMMA ModeType ==
    ASSUME NEW r \in FidRecs, NEW m \in {"read", "write"}
    PROVE  LET o == [r EXCEPT !.mode = m] IN
           o \in FidRecs /\ o.clone = r.clone /\ o.node = r.node /\ o.pid = r.pid
  BY DEF FidRecs

LEMMA WrittenType ==
    ASSUME NEW r \in FidRecs, NEW d \in Docs, NEW fits \in BOOLEAN
    PROVE  LET o == IF fits THEN [r EXCEPT !.doc = d] ELSE [r EXCEPT !.failed = TRUE] IN
           o \in FidRecs /\ o.clone = r.clone /\ o.node = r.node /\ o.mode = r.mode
<1>1. CASE fits BY <1>1 DEF FidRecs
<1>2. CASE ~fits BY <1>2 DEF FidRecs
<1> QED BY <1>1, <1>2

LEMMA SourceType ==
    ASSUME TypeOK, NEW v \in Views, Client(v)
    PROVE  SourceNs(v) \in Namespaces /\ SourceGen(v) \in 0..MaxGen
<1>1. CASE v = 0
  BY <1>1 DEF SourceNs, SourceGen, HandleOf, TypeOK
<1>2. CASE v # 0
  <2>1. v \in Pids BY <1>2 DEF Pids, Views
  <2> QED BY <1>2, <2>1 DEF SourceNs, SourceGen, HandleOf, TypeOK
<1> QED BY <1>1, <1>2

LEMMA JoinType ==
    ASSUME NEW m \in Namespaces, NEW n \in Namespaces
    PROVE  Join(m, n) \in Namespaces /\ Within(m, Join(m, n)) /\ Within(n, Join(m, n))
  BY DEF Join, Namespaces, Within, Access

LEMMA WithinTrans ==
    ASSUME NEW a \in Namespaces, NEW b \in Namespaces, NEW c \in Namespaces,
           Within(a, b), Within(b, c)
    PROVE  Within(a, c)
  BY DEF Within, Namespaces, Access

LEMMA ExitType ==
    ASSUME TypeOK, NEW p \in Pids, NEW c \in Exits, Exit(p, c)
    PROVE  /\ st' \in [Pids -> {"free", "pending", "gone", "running", "exited"}]
           /\ code' \in [Pids -> Exits \cup {NoCode}]
           /\ gens' \in [Pids -> Nat]
           /\ \A q \in Pids : code'[q] # NoCode <=> st'[q] = "exited"
           /\ \A q \in Pids : st'[q] = IF q = p /\ st[q] = "running" THEN "exited" ELSE st[q]
  BY DEF TypeOK, Exit, Exits

LEMMA InitTypeOK == Init => TypeOK
<1> SUFFICES ASSUME Init PROVE TypeOK OBVIOUS
<1>1. fid \in [Views -> [AllFids -> FidRecs]] BY UnboundType DEF Init
<1>2. 0 \in Views BY DEF Views
<1> QED BY <1>1, <1>2 DEF Init, TypeOK, Namespaces, Access, Exits

LEMMA NextTypeOK ==
    TypeOK /\ SlotBounds /\ FidNodes /\ PendingOwned /\ [Next]_vars => TypeOK' /\ SlotBounds'
<1> SUFFICES ASSUME TypeOK, SlotBounds, FidNodes, PendingOwned, [Next]_vars
             PROVE  TypeOK' /\ SlotBounds'
  OBVIOUS
<1> USE ViewZero
<1>0. \A v \in Views, f \in AllFids : fid[v][f] \in FidRecs BY DEF TypeOK
<1>1. ASSUME NEW v \in Views, NEW f \in AllFids, NEW node \in {"clone", "ctl"}, NEW p \in Views,
             Walk(v, f, node, p)
      PROVE  TypeOK' /\ SlotBounds'
  <2>1. [Unbound EXCEPT !.node = node, !.pid = p] \in FidRecs
    BY UnboundType DEF FidRecs, Unbound
  <2> QED BY <1>1, <2>1 DEF Walk, TypeOK, SlotBounds, table, live
<1>2. ASSUME NEW v \in Views, NEW f \in AllFids, NEW m \in {"read", "write"}, OpenClone(v, f, m)
      PROVE  TypeOK' /\ SlotBounds'
  <2>1. next \in Pids /\ next \in Views /\ next + 1 \in 1..MaxPid + 1
    BY <1>2 DEF OpenClone, TypeOK, Pids, Views
  <2>2. SourceNs(v) \in Namespaces /\ SourceGen(v) \in 0..MaxGen
    BY <1>2, SourceType DEF OpenClone
  <2>3. [fid[v][f] EXCEPT !.node = "clone", !.mode = m, !.clone = next] \in FidRecs
    BY <1>0, <2>1, OpenedType
  <2>4. fid' \in [Views -> [AllFids -> FidRecs]]
    BY <1>2, <2>3 DEF OpenClone, TypeOK
  <2>5. st[next] = "free" BY <2>1 DEF SlotBounds, TypeOK
  <2>6. /\ next' = next + 1
        /\ st' = [st EXCEPT ![next] = "pending"]
        /\ parent' = [parent EXCEPT ![next] = v]
        /\ ns' = [ns EXCEPT ![next] = SourceNs(v)]
        /\ pgen' = [pgen EXCEPT ![next] = SourceGen(v)]
        /\ UNCHANGED <<code, listGen, gens, bound, hns, hgen, peak>>
    BY <1>2 DEF OpenClone, live
  <2>7. TypeOK' BY <2>1, <2>2, <2>4, <2>5, <2>6 DEF TypeOK
  <2>8. SlotBounds' BY <2>1, <2>6 DEF SlotBounds, TypeOK, Pids
  <2> QED BY <2>7, <2>8
<1>3. ASSUME NEW v \in Views, NEW f \in AllFids, NEW m \in {"read", "write"}, OpenCtl(v, f, m)
      PROVE  TypeOK' /\ SlotBounds'
  <2>1. [fid[v][f] EXCEPT !.mode = m] \in FidRecs BY <1>0, ModeType
  <2> QED BY <1>3, <2>1 DEF OpenCtl, TypeOK, SlotBounds, table, live
<1>4. ASSUME NEW v \in Views, NEW f \in AllFids, NEW d \in Docs, NEW fits \in BOOLEAN,
             WriteClone(v, f, d, fits)
      PROVE  TypeOK' /\ SlotBounds'
  <2>1. (IF fits THEN [fid[v][f] EXCEPT !.doc = d] ELSE [fid[v][f] EXCEPT !.failed = TRUE])
            \in FidRecs
    BY <1>0, WrittenType
  <2>2. fid' \in [Views -> [AllFids -> FidRecs]] BY <1>4, <2>1 DEF WriteClone, TypeOK
  <2>3. UNCHANGED <<next, st, parent, ns, pgen, code, listGen, gens, bound, hns, hgen, peak>>
    BY <1>4 DEF WriteClone, table, live
  <2> QED BY <2>2, <2>3 DEF TypeOK, SlotBounds
<1>5. ASSUME NEW v \in Views, NEW f \in AllFids, WriteCtl(v, f)
      PROVE  TypeOK' /\ SlotBounds'
  <2>1. fid[v][f].pid \in Pids /\ 130 \in Exits BY <1>5 DEF WriteCtl, FidNodes, Exits
  <2>2. /\ Exit(fid[v][f].pid, 130)
        /\ UNCHANGED <<next, parent, ns, pgen, listGen, fid, bound, hns, hgen, peak>>
    BY <1>5 DEF WriteCtl, live
  <2>3. TypeOK' BY <2>1, <2>2, ExitType DEF TypeOK
  <2>4. SlotBounds' BY <2>1, <2>2, ExitType DEF SlotBounds
  <2> QED BY <2>3, <2>4
<1>6. ASSUME NEW v \in Views, NEW f \in AllFids, ClunkCommit(v, f)
      PROVE  TypeOK' /\ SlotBounds'
  <2> DEFINE p == fid[v][f].clone
  <2>1. p \in Pids BY <1>0, <1>6 DEF ClunkCommit, FidRecs
  <2>2. st[p] = "pending" BY <1>6 DEF ClunkCommit, PendingOwned
  <2>3. fid[v][f].doc.mounts \in Namespaces
    BY <1>0, <1>6 DEF ClunkCommit, Committable, FidRecs, Docs, Specs
  <2>4. fid' \in [Views -> [AllFids -> FidRecs]]
    BY <1>6, UnboundType DEF ClunkCommit, TypeOK
  <2>5. /\ st' = [st EXCEPT ![p] = "running"]
        /\ ns' = [ns EXCEPT ![p] = fid[v][f].doc.mounts]
        /\ listGen' = listGen + 1
        /\ UNCHANGED <<next, parent, pgen, code, gens, bound, hns, hgen, peak>>
    BY <1>6 DEF ClunkCommit, live
  <2> HIDE DEF p
  <2>6. TypeOK' BY <2>1, <2>2, <2>3, <2>4, <2>5 DEF TypeOK
  <2>7. SlotBounds' BY <2>1, <2>2, <2>5 DEF SlotBounds, TypeOK
  <2> QED BY <2>6, <2>7
<1>7. ASSUME NEW v \in Views, NEW f \in AllFids, ClunkReject(v, f)
      PROVE  TypeOK' /\ SlotBounds'
  <2> DEFINE p == fid[v][f].clone
  <2>1. p \in Pids BY <1>0, <1>7 DEF ClunkReject, FidRecs
  <2>2. st[p] = "pending" BY <1>7 DEF ClunkReject, PendingOwned
  <2>3. fid' \in [Views -> [AllFids -> FidRecs]]
    BY <1>7, UnboundType DEF ClunkReject, TypeOK
  <2>4. /\ st' = [st EXCEPT ![p] = "gone"]
        /\ UNCHANGED <<next, parent, ns, pgen, code, listGen, gens, bound, hns, hgen, peak>>
    BY <1>7 DEF ClunkReject, live
  <2> HIDE DEF p
  <2>5. TypeOK' BY <2>1, <2>2, <2>3, <2>4 DEF TypeOK
  <2>6. SlotBounds' BY <2>1, <2>2, <2>4 DEF SlotBounds, TypeOK
  <2> QED BY <2>5, <2>6
<1>8. ASSUME NEW v \in Views, NEW f \in AllFids, ClunkPlain(v, f)
      PROVE  TypeOK' /\ SlotBounds'
  BY <1>8, UnboundType DEF ClunkPlain, TypeOK, SlotBounds, table, live
<1>9. ASSUME NEW p \in Pids, NEW c \in Codes, RecordExit(p, c)
      PROVE  TypeOK' /\ SlotBounds'
  <2>1. c \in Exits BY DEF Exits
  <2>2. Exit(p, c) /\ UNCHANGED <<next, parent, ns, pgen, listGen, fid, bound, hns, hgen, peak>>
    BY <1>9 DEF RecordExit, live
  <2>3. TypeOK' BY <2>1, <2>2, ExitType DEF TypeOK
  <2>4. SlotBounds' BY <2>1, <2>2, ExitType DEF SlotBounds
  <2> QED BY <2>3, <2>4
<1>10. ASSUME NEW h \in Handles, NEW x \in MountPaths, NEW a \in Access, Remount(h, x, a)
      PROVE  TypeOK' /\ SlotBounds'
  <2>1. hns' \in [Handles -> Namespaces] BY <1>10 DEF Remount, TypeOK, Namespaces
  <2>2. Join(peak[h], hns'[h]) \in Namespaces BY <2>1, JoinType DEF TypeOK
  <2>3. peak' \in [Handles -> Namespaces] BY <1>10, <2>2 DEF Remount, TypeOK
  <2> QED BY <1>10, <2>1, <2>3 DEF Remount, TypeOK, SlotBounds, table
<1>11. ASSUME NEW p \in Pids, NEW h \in Handles, BindLive(p, h)
      PROVE  TypeOK' /\ SlotBounds'
  BY <1>11 DEF BindLive, TypeOK, SlotBounds
<1>12. CASE UNCHANGED vars
  BY <1>12 DEF vars, TypeOK, SlotBounds
<1> QED BY <1>1, <1>2, <1>3, <1>4, <1>5, <1>6, <1>7, <1>8, <1>9, <1>10, <1>11, <1>12
       DEF Next, FidStep, HostStep


\* A step that only rewrites one fid, keeping its slot and its node, or that
\* walks a free fid, preserves the fid invariants.
LEMMA FidRewrite ==
    ASSUME TypeOK, FidNodes, PendingOwned,
           NEW v \in Views, NEW f \in AllFids, NEW r \in FidRecs,
           fid' = [fid EXCEPT ![v][f] = r], UNCHANGED <<st, parent>>,
           r.clone = fid[v][f].clone,
           r.clone # 0 => r.node = "clone" /\ r.mode = "write",
           r.node = "ctl" => r.pid \in Pids /\ Public(r.pid)
    PROVE  FidNodes' /\ PendingOwned'
<1>1. \A w \in Views, g \in AllFids : fid'[w][g] = IF w = v /\ g = f THEN r ELSE fid[w][g]
  BY DEF TypeOK
<1>2. \A w \in Views, g \in AllFids : fid'[w][g].clone = fid[w][g].clone
  BY <1>1
<1>3. FidNodes' BY <1>1 DEF FidNodes, Public
<1>4. PendingOwned' BY <1>1, <1>2 DEF PendingOwned
<1> QED BY <1>3, <1>4

\* A clunk that takes pid p out of its fid and out of the pending state.
LEMMA FidRelease ==
    ASSUME TypeOK, FidNodes, PendingOwned,
           NEW v \in Views, NEW f \in AllFids, NEW s \in {"gone", "running"},
           fid[v][f].clone # 0,
           fid' = [fid EXCEPT ![v][f] = Unbound],
           st' = [st EXCEPT ![fid[v][f].clone] = s], UNCHANGED parent
    PROVE  FidNodes' /\ PendingOwned'
<1> DEFINE p == fid[v][f].clone
<1>0. fid[v][f] \in FidRecs /\ p \in Pids /\ st[p] = "pending"
  BY ViewZero DEF TypeOK, FidRecs, PendingOwned
<1>1. \A w \in Views, g \in AllFids : fid'[w][g] = IF w = v /\ g = f THEN Unbound ELSE fid[w][g]
  BY DEF TypeOK
<1>2. Unbound.clone = 0 /\ Unbound.node = "none" BY DEF Unbound
<1>3. \A q \in Pids : st'[q] = IF q = p THEN s ELSE st[q] BY <1>0 DEF TypeOK
<1>4. \A w \in Views, g \in AllFids : fid[w][g].clone # 0 => fid[w][g].clone \in Pids
  BY ViewZero DEF TypeOK, FidRecs
<1>5. FidNodes'
  BY <1>0, <1>1, <1>2, <1>3 DEF FidNodes, Public
<1>6. PendingOwned'
  <2>1. ASSUME NEW q \in Pids, st'[q] = "pending"
        PROVE  \E w \in Views, g \in AllFids : fid'[w][g].clone = q
    <3>1. q # p /\ st[q] = "pending" BY <2>1, <1>3
    <3>2. PICK w \in Views, g \in AllFids : fid[w][g].clone = q BY <3>1 DEF PendingOwned
    <3>3. fid'[w][g] = fid[w][g] BY <1>1, <3>1, <3>2
    <3> QED BY <3>2, <3>3
  <2>2. ASSUME NEW w \in Views, NEW g \in AllFids, fid'[w][g].clone # 0
        PROVE  /\ fid'[w][g].clone \in Pids /\ fid'[w][g].clone # p
               /\ fid'[w][g] = fid[w][g]
    BY <1>1, <1>2, <1>4, <2>2 DEF PendingOwned
  <2>3. \A w \in Views, g \in AllFids :
           fid'[w][g].clone # 0 => st'[fid'[w][g].clone] = "pending"
                                   /\ parent'[fid'[w][g].clone] = w /\ fid'[w][g].mode = "write"
    BY <1>3, <2>2 DEF PendingOwned
  <2>4. \A w, u \in Views, g, h \in AllFids :
           fid'[w][g].clone # 0 /\ fid'[w][g].clone = fid'[u][h].clone => w = u /\ g = h
    BY <2>2 DEF PendingOwned
  <2> QED BY <2>1, <2>3, <2>4 DEF PendingOwned
<1> QED BY <1>5, <1>6

LEMMA NextFids ==
    TypeOK /\ SlotBounds /\ FidNodes /\ PendingOwned /\ [Next]_vars => FidNodes' /\ PendingOwned'
<1> SUFFICES ASSUME TypeOK, SlotBounds, FidNodes, PendingOwned, [Next]_vars
             PROVE  FidNodes' /\ PendingOwned'
  OBVIOUS
<1>0. \A v \in Views, f \in AllFids : fid[v][f] \in FidRecs BY DEF TypeOK
<1> USE ViewZero
<1>1. ASSUME NEW v \in Views, NEW f \in AllFids, NEW node \in {"clone", "ctl"}, NEW p \in Views,
             Walk(v, f, node, p)
      PROVE  FidNodes' /\ PendingOwned'
  <2> DEFINE r == [Unbound EXCEPT !.node = node, !.pid = p]
  <2>1. r \in FidRecs /\ r.clone = 0 /\ r.node = node /\ r.pid = p
    BY UnboundType DEF FidRecs, Unbound
  <2>2. /\ fid' = [fid EXCEPT ![v][f] = r]
        /\ UNCHANGED <<st, parent>> /\ fid[v][f].node = "none"
        /\ node = "ctl" => p \in Pids /\ Public(p)
    BY <1>1 DEF Walk, table
  <2>3. fid[v][f].clone = 0 BY <2>2 DEF FidNodes
  <2> HIDE DEF r
  <2> QED BY <2>1, <2>2, <2>3, FidRewrite
<1>2. ASSUME NEW v \in Views, NEW f \in AllFids, NEW m \in {"read", "write"}, OpenClone(v, f, m)
      PROVE  FidNodes' /\ PendingOwned'
  <2> DEFINE r == [fid[v][f] EXCEPT !.node = "clone", !.mode = m, !.clone = next]
  <2>1. next \in Pids /\ st[next] = "free"
    BY <1>2 DEF OpenClone, TypeOK, Pids, SlotBounds
  <2>a. m = "write" /\ next \in Views BY <1>2, <2>1 DEF OpenClone
  <2>q. fid[v][f] \in FidRecs BY <1>0
  <2>b. r \in FidRecs /\ r.clone = next /\ r.node = "clone" /\ r.mode = m
    BY <2>q, <2>a DEF FidRecs
  <2>2. r \in FidRecs /\ r.clone = next /\ r.node = "clone" /\ r.mode = "write"
    BY <2>a, <2>b
  <2>3. /\ fid' = [fid EXCEPT ![v][f] = r]
        /\ st' = [st EXCEPT ![next] = "pending"]
        /\ parent' = [parent EXCEPT ![next] = v]
    BY <1>2 DEF OpenClone
  <2>4. fid[v][f].clone = 0
    <3>1. CASE fid[v][f].node = "none" BY <3>1 DEF FidNodes
    <3>2. CASE fid[v][f].mode = "none" BY <3>2 DEF PendingOwned
    <3> QED BY <1>2, <3>1, <3>2 DEF OpenClone
  <2> HIDE DEF r
  <2>5. \A w \in Views, g \in AllFids : fid'[w][g] = IF w = v /\ g = f THEN r ELSE fid[w][g]
    BY <2>3 DEF TypeOK
  <2>6. \A q \in Pids : /\ st'[q] = IF q = next THEN "pending" ELSE st[q]
                        /\ parent'[q] = IF q = next THEN v ELSE parent[q]
    BY <2>1, <2>3 DEF TypeOK
  <2>7. \A w \in Views, g \in AllFids : fid[w][g].clone # 0 => fid[w][g].clone \in Pids \ {next}
    BY <1>0, <2>1 DEF FidRecs, PendingOwned
  <2>8. FidNodes' BY <2>1, <2>2, <2>5, <2>6 DEF FidNodes, Public
  <2>9. PendingOwned'
    <3>1. ASSUME NEW q \in Pids, st'[q] = "pending"
          PROVE  \E w \in Views, g \in AllFids : fid'[w][g].clone = q
      <4>1. CASE q = next BY <2>2, <2>5, <4>1
      <4>2. CASE q # next
        <5>1. PICK w \in Views, g \in AllFids : fid[w][g].clone = q
          BY <2>6, <3>1, <4>2 DEF PendingOwned
        <5>2. fid'[w][g] = fid[w][g] BY <2>4, <2>5, <5>1
        <5> QED BY <5>1, <5>2
      <4> QED BY <4>1, <4>2
    <3>2. \A w \in Views, g \in AllFids :
             fid'[w][g].clone # 0 => st'[fid'[w][g].clone] = "pending"
                                     /\ parent'[fid'[w][g].clone] = w /\ fid'[w][g].mode = "write"
      <4> SUFFICES ASSUME NEW w \in Views, NEW g \in AllFids, fid'[w][g].clone # 0
                   PROVE  st'[fid'[w][g].clone] = "pending"
                          /\ parent'[fid'[w][g].clone] = w /\ fid'[w][g].mode = "write"
        OBVIOUS
      <4>1. CASE w = v /\ g = f
        <5>1. fid'[w][g] = r BY <2>5, <4>1
        <5> QED BY <2>1, <2>2, <2>6, <4>1, <5>1
      <4>2. CASE ~(w = v /\ g = f)
        <5>1. fid'[w][g] = fid[w][g] BY <2>5, <4>2
        <5>2. fid[w][g].clone \in Pids \ {next} BY <2>7, <5>1
        <5>3. st[fid[w][g].clone] = "pending" /\ parent[fid[w][g].clone] = w
              /\ fid[w][g].mode = "write"
          BY <5>1 DEF PendingOwned
        <5> QED BY <2>6, <5>1, <5>2, <5>3
      <4> QED BY <4>1, <4>2
    <3>3. \A w, u \in Views, g, h \in AllFids :
             fid'[w][g].clone # 0 /\ fid'[w][g].clone = fid'[u][h].clone => w = u /\ g = h
      <4> SUFFICES ASSUME NEW w \in Views, NEW u \in Views, NEW g \in AllFids, NEW h \in AllFids,
                          fid'[w][g].clone # 0, fid'[w][g].clone = fid'[u][h].clone
                   PROVE  w = u /\ g = h
        OBVIOUS
      <4>1. CASE (w = v /\ g = f) \/ (u = v /\ h = f) BY <2>1, <2>2, <2>5, <2>7, <4>1
      <4>2. CASE ~(w = v /\ g = f) /\ ~(u = v /\ h = f) BY <2>5, <4>2 DEF PendingOwned
      <4> QED BY <4>1, <4>2
    <3> QED BY <3>1, <3>2, <3>3 DEF PendingOwned
  <2> QED BY <2>8, <2>9
<1>3. ASSUME NEW v \in Views, NEW f \in AllFids, NEW m \in {"read", "write"}, OpenCtl(v, f, m)
      PROVE  FidNodes' /\ PendingOwned'
  <2> DEFINE r == [fid[v][f] EXCEPT !.mode = m]
  <2>1. r \in FidRecs /\ r.clone = fid[v][f].clone /\ r.node = fid[v][f].node
                      /\ r.pid = fid[v][f].pid
    BY <1>0, ModeType
  <2>2. /\ fid' = [fid EXCEPT ![v][f] = r] /\ UNCHANGED <<st, parent>>
        /\ fid[v][f].node = "ctl"
    BY <1>3 DEF OpenCtl, table, TypeOK
  <2>3. r.clone = 0 BY <2>1, <2>2 DEF FidNodes
  <2>4. r.pid \in Pids /\ Public(r.pid) BY <2>1, <2>2 DEF FidNodes
  <2> HIDE DEF r
  <2> QED BY <2>1, <2>2, <2>3, <2>4, FidRewrite
<1>4. ASSUME NEW v \in Views, NEW f \in AllFids, NEW d \in Docs, NEW fits \in BOOLEAN,
             WriteClone(v, f, d, fits)
      PROVE  FidNodes' /\ PendingOwned'
  <2> DEFINE r == IF fits THEN [fid[v][f] EXCEPT !.doc = d] ELSE [fid[v][f] EXCEPT !.failed = TRUE]
  <2>1. r \in FidRecs /\ r.clone = fid[v][f].clone /\ r.node = fid[v][f].node
                      /\ r.mode = fid[v][f].mode
    BY <1>0, WrittenType
  <2>2. /\ fid' = [fid EXCEPT ![v][f] = r] /\ UNCHANGED <<st, parent>>
        /\ fid[v][f].mode = "write" /\ fid[v][f].clone # 0
    BY <1>4 DEF WriteClone, table, TypeOK
  <2>3. r.node = "clone" BY <2>1, <2>2 DEF FidNodes
  <2> HIDE DEF r
  <2> QED BY <2>1, <2>2, <2>3, FidRewrite
<1>5. ASSUME NEW p \in Pids, NEW c \in Exits, Exit(p, c), UNCHANGED <<fid, parent>>
      PROVE  FidNodes' /\ PendingOwned'
  <2>1. \A q \in Pids : /\ st'[q] = "pending" <=> st[q] = "pending"
                        /\ Public(q) => Public(q)'
    BY <1>5, ExitType DEF Public
  <2>2. \A v \in Views, f \in AllFids : fid[v][f].clone # 0 => fid[v][f].clone \in Pids
    BY <1>0 DEF FidRecs
  <2> QED BY <1>5, <2>1, <2>2 DEF FidNodes, PendingOwned
<1>6. ASSUME NEW v \in Views, NEW f \in AllFids, WriteCtl(v, f)
      PROVE  FidNodes' /\ PendingOwned'
  <2>1. 130 \in Exits BY DEF Exits
  <2>2. fid[v][f].pid \in Pids BY <1>6 DEF WriteCtl, FidNodes
  <2>3. Exit(fid[v][f].pid, 130) /\ UNCHANGED <<fid, parent>> BY <1>6 DEF WriteCtl
  <2> QED BY <1>5, <2>1, <2>2, <2>3
<1>7. ASSUME NEW v \in Views, NEW f \in AllFids, ClunkCommit(v, f)
      PROVE  FidNodes' /\ PendingOwned'
  BY <1>7, FidRelease DEF ClunkCommit
<1>8. ASSUME NEW v \in Views, NEW f \in AllFids, ClunkReject(v, f)
      PROVE  FidNodes' /\ PendingOwned'
  BY <1>8, FidRelease DEF ClunkReject
<1>9. ASSUME NEW v \in Views, NEW f \in AllFids, ClunkPlain(v, f)
      PROVE  FidNodes' /\ PendingOwned'
  <2>1. Unbound.clone = 0 /\ Unbound.node = "none" BY DEF Unbound
  <2>2. fid' = [fid EXCEPT ![v][f] = Unbound] /\ UNCHANGED <<st, parent>> /\ fid[v][f].clone = 0
    BY <1>9 DEF ClunkPlain, table
  <2> QED BY <2>1, <2>2, UnboundType, FidRewrite
<1>10. ASSUME NEW p \in Pids, NEW c \in Codes, RecordExit(p, c)
       PROVE  FidNodes' /\ PendingOwned'
  <2>1. c \in Exits BY DEF Exits
  <2> QED BY <1>5, <1>10, <2>1 DEF RecordExit
<1>11. ASSUME UNCHANGED <<st, parent, fid>> PROVE FidNodes' /\ PendingOwned'
  BY <1>11 DEF FidNodes, PendingOwned, Public
<1>12. ASSUME NEW h \in Handles, NEW x \in MountPaths, NEW a \in Access, Remount(h, x, a)
       PROVE  FidNodes' /\ PendingOwned'
  BY <1>11, <1>12 DEF Remount, table
<1>13. ASSUME NEW p \in Pids, NEW h \in Handles, BindLive(p, h)
       PROVE  FidNodes' /\ PendingOwned'
  BY <1>11, <1>13 DEF BindLive
<1>14. CASE UNCHANGED vars
  BY <1>11, <1>14 DEF vars
<1> QED BY <1>1, <1>2, <1>3, <1>4, <1>6, <1>7, <1>8, <1>9, <1>10, <1>12, <1>13, <1>14
       DEF Next, FidStep, HostStep

Inv == TypeOK /\ SlotBounds /\ FidNodes /\ PendingOwned /\ ParentPublic /\ PeakCovers /\ SpawnNarrows

LEMMA AuthorityType ==
    ASSUME TypeOK, NEW v \in Views
    PROVE  Authority(v) \in Namespaces
  BY ViewZero, JoinType DEF Authority, TypeOK

LEMMA WithinRefl == ASSUME NEW a \in Namespaces PROVE Within(a, a)
  BY DEF Within, Namespaces, Access

\* What a view can delegate now is within its authority.
LEMMA SourceWithinAuthority ==
    ASSUME TypeOK, PeakCovers, NEW v \in Views
    PROVE  Within(SourceNs(v), Authority(v))
<1>1. CASE v = 0
  BY <1>1 DEF SourceNs, HandleOf, Authority, PeakCovers
<1>2. CASE v # 0
  <2>0. v \in Pids BY <1>2, ViewZero
  <2>1. CASE bound[v] = NoHandle
    <3>1. SourceNs(v) = ns[v] /\ Authority(v) = ns[v] /\ ns[v] \in Namespaces
      BY <1>2, <2>0, <2>1 DEF SourceNs, HandleOf, Authority, TypeOK
    <3> QED BY <3>1, WithinRefl
  <2>2. CASE bound[v] # NoHandle
    <3> DEFINE h == bound[v]
    <3>1. /\ h \in Handles /\ hns[h] \in Namespaces /\ peak[h] \in Namespaces
          /\ ns[v] \in Namespaces /\ Within(hns[h], peak[h])
      BY <2>0, <2>2 DEF TypeOK, PeakCovers
    <3>2. Join(ns[v], peak[h]) \in Namespaces /\ Within(peak[h], Join(ns[v], peak[h]))
      BY <3>1, JoinType
    <3>3. Within(hns[h], Join(ns[v], peak[h])) BY <3>1, <3>2, WithinTrans
    <3> QED BY <1>2, <2>2, <3>3 DEF SourceNs, HandleOf, Authority
  <2> QED BY <2>1, <2>2
<1> QED BY <1>1, <1>2

\* Authority only grows: no step takes away what a public process or the boot
\* view could once delegate.
AuthorityGrows == \A v \in Views : Client(v) => Within(Authority(v), Authority(v)')

LEMMA JoinMono ==
    ASSUME NEW a \in Namespaces, NEW b \in Namespaces, NEW c \in Namespaces, Within(b, c)
    PROVE  Within(Join(a, b), Join(a, c))
  BY DEF Within, Namespaces, Access, Join

LEMMA AuthoritySame ==
    ASSUME TypeOK, UNCHANGED <<bound, peak>>,
           \A p \in Pids : Public(p) => ns'[p] = ns[p]
    PROVE  AuthorityGrows
<1> SUFFICES ASSUME NEW v \in Views, Client(v) PROVE Within(Authority(v), Authority(v)')
  BY DEF AuthorityGrows
<1>1. Authority(v)' = Authority(v)
  <2>1. CASE v = 0 BY <2>1 DEF Authority
  <2>2. CASE v # 0
    <3>1. v \in Pids /\ Public(v) BY <2>2 DEF Client
    <3> QED BY <2>2, <3>1 DEF Authority, Join
  <2> QED BY <2>1, <2>2
<1> QED BY <1>1, AuthorityType, WithinRefl

\* No step takes a public process back, and none rewrites a terminal state.
TerminalStep ==
    \A p \in Pids : /\ Public(p) => Public(p)'
                    /\ st[p] = "exited" => st'[p] = "exited" /\ code'[p] = code[p]

\* A step keeps, narrows, or takes from the spawner the namespace of a slot.
NarrowStep == \A p \in Pids : st'[p] # "free" =>
    \/ st[p] # "free" /\ parent'[p] = parent[p] /\ Within(ns'[p], ns[p])
    \/ Client(parent'[p]) /\ ns'[p] = SourceNs(parent'[p])

LEMMA NarrowKeeps ==
    ASSUME TypeOK, TypeOK', PeakCovers, ParentPublic, SpawnNarrows,
           AuthorityGrows, TerminalStep, NarrowStep
    PROVE  ParentPublic' /\ SpawnNarrows'
<1>1. \A v \in Views : Client(v) => Client(v)'
  BY DEF TerminalStep, Client
<1>2. ASSUME NEW p \in Pids, st'[p] # "free", NEW v \in Views, parent'[p] = v
      PROVE  Client(v)' /\ Within(ns'[p], Authority(v)')
  <2>0. ns'[p] \in Namespaces /\ ns[p] \in Namespaces BY <1>2 DEF TypeOK
  <2>1. Authority(v) \in Namespaces BY AuthorityType
  <2>2. Client(v) /\ Within(ns'[p], Authority(v))
    <3>1. CASE st[p] # "free" /\ parent'[p] = parent[p] /\ Within(ns'[p], ns[p])
      <4>1. Client(v) /\ Within(ns[p], Authority(v)) BY <1>2, <3>1 DEF ParentPublic, SpawnNarrows
      <4> QED BY <2>0, <2>1, <3>1, <4>1, WithinTrans
    <3>2. CASE Client(v) /\ ns'[p] = SourceNs(v)
      BY <3>2, SourceWithinAuthority
    <3> QED BY <1>2, <3>1, <3>2 DEF NarrowStep
  <2>3. Authority(v)' \in Namespaces
    <3>1. CASE v = 0 BY <3>1 DEF Authority, TypeOK
    <3>2. CASE v # 0
      <4>1. v \in Pids BY <3>2, ViewZero
      <4>2. CASE bound'[v] = NoHandle BY <3>2, <4>1, <4>2 DEF Authority, TypeOK
      <4>3. CASE bound'[v] # NoHandle
        <5>1. ns'[v] \in Namespaces /\ peak'[bound'[v]] \in Namespaces
          BY <4>1, <4>3 DEF TypeOK
        <5>2. Join(ns'[v], peak'[bound'[v]]) \in Namespaces BY <5>1, JoinType
        <5> QED BY <3>2, <4>3, <5>2 DEF Authority, Join
      <4> QED BY <4>2, <4>3
    <3> QED BY <3>1, <3>2
  <2>4. Within(Authority(v), Authority(v)') BY <2>2 DEF AuthorityGrows
  <2>5. Within(ns'[p], Authority(v)') BY <2>0, <2>1, <2>2, <2>3, <2>4, WithinTrans
  <2> QED BY <1>1, <2>2, <2>5
<1>3. \A p \in Pids : parent'[p] \in Views BY DEF TypeOK
<1>4. ParentPublic' BY <1>2, <1>3 DEF ParentPublic, Client, Public
<1>5. SpawnNarrows' BY <1>2, <1>3 DEF SpawnNarrows, Authority
<1> QED BY <1>4, <1>5

\* What every step does to authority, terminal states and namespaces.
LEMMA NextSteps ==
    ASSUME TypeOK, SlotBounds, FidNodes, PendingOwned, PeakCovers, [Next]_vars
    PROVE  AuthorityGrows /\ PeakCovers' /\ TerminalStep /\ NarrowStep
<1> USE ViewZero
<1>0. \A p \in Pids : ns[p] \in Namespaces /\ Within(ns[p], ns[p]) BY WithinRefl DEF TypeOK
<1>1. ASSUME UNCHANGED <<st, parent, ns, code, bound, peak, hns>>
      PROVE  AuthorityGrows /\ PeakCovers' /\ TerminalStep /\ NarrowStep
  BY <1>0, <1>1, AuthoritySame DEF PeakCovers, TerminalStep, NarrowStep, Public
<1>2. ASSUME NEW p \in Pids, NEW c \in Exits, Public(p), Exit(p, c),
             UNCHANGED <<parent, ns, bound, peak, hns>>
      PROVE  AuthorityGrows /\ PeakCovers' /\ TerminalStep /\ NarrowStep
  <2>1. \A q \in Pids : /\ st'[q] = IF q = p THEN "exited" ELSE st[q]
                        /\ code'[q] = IF q = p /\ st[p] = "running" THEN c ELSE code[q]
    BY <1>2 DEF Exit, TypeOK, Public
  <2>2. TerminalStep BY <1>2, <2>1 DEF TerminalStep, Public
  <2>3. NarrowStep BY <1>0, <1>2, <2>1 DEF NarrowStep, Public
  <2>4. AuthorityGrows BY <1>2, AuthoritySame
  <2> QED BY <1>2, <2>2, <2>3, <2>4 DEF PeakCovers
<1>3. ASSUME NEW v \in Views, NEW f \in AllFids, NEW m \in {"read", "write"}, OpenClone(v, f, m)
      PROVE  AuthorityGrows /\ PeakCovers' /\ TerminalStep /\ NarrowStep
  <2>1. next \in Pids /\ st[next] = "free" /\ Client(v)
    BY <1>3 DEF OpenClone, TypeOK, Pids, SlotBounds
  <2>2. /\ st' = [st EXCEPT ![next] = "pending"]
        /\ parent' = [parent EXCEPT ![next] = v]
        /\ ns' = [ns EXCEPT ![next] = SourceNs(v)]
        /\ UNCHANGED <<code, bound, peak, hns>>
    BY <1>3 DEF OpenClone, live
  <2>3. \A q \in Pids : /\ st'[q] = IF q = next THEN "pending" ELSE st[q]
                        /\ parent'[q] = IF q = next THEN v ELSE parent[q]
                        /\ ns'[q] = IF q = next THEN SourceNs(v) ELSE ns[q]
    BY <2>1, <2>2 DEF TypeOK
  <2>4. TerminalStep BY <2>1, <2>2, <2>3 DEF TerminalStep, Public
  <2>5. NarrowStep BY <1>0, <2>1, <2>3 DEF NarrowStep
  <2>6. AuthorityGrows BY <2>1, <2>2, <2>3, AuthoritySame DEF Public
  <2> QED BY <2>2, <2>4, <2>5, <2>6 DEF PeakCovers
<1>4. ASSUME NEW v \in Views, NEW f \in AllFids, ClunkCommit(v, f)
      PROVE  AuthorityGrows /\ PeakCovers' /\ TerminalStep /\ NarrowStep
  <2> DEFINE p == fid[v][f].clone
             n == fid[v][f].doc.mounts
  <2>0. fid[v][f] \in FidRecs BY DEF TypeOK
  <2>1. p \in Pids /\ st[p] = "pending"
    BY <1>4, <2>0 DEF ClunkCommit, PendingOwned, FidRecs
  <2>2. /\ st' = [st EXCEPT ![p] = "running"]
        /\ ns' = [ns EXCEPT ![p] = n]
        /\ Within(n, ns[p])
        /\ UNCHANGED <<parent, code, bound, peak, hns>>
    BY <1>4 DEF ClunkCommit, live, Committable, ManifestOk
  <2> HIDE DEF p, n
  <2>3. \A q \in Pids : /\ st'[q] = IF q = p THEN "running" ELSE st[q]
                        /\ ns'[q] = IF q = p THEN n ELSE ns[q]
    BY <2>1, <2>2 DEF TypeOK
  <2>4. TerminalStep BY <2>1, <2>2, <2>3 DEF TerminalStep, Public
  <2>5. NarrowStep BY <1>0, <2>1, <2>2, <2>3 DEF NarrowStep
  <2>6. AuthorityGrows BY <2>1, <2>2, <2>3, AuthoritySame DEF Public
  <2> QED BY <2>2, <2>4, <2>5, <2>6 DEF PeakCovers
<1>5. ASSUME NEW v \in Views, NEW f \in AllFids, ClunkReject(v, f)
      PROVE  AuthorityGrows /\ PeakCovers' /\ TerminalStep /\ NarrowStep
  <2> DEFINE p == fid[v][f].clone
  <2>0. fid[v][f] \in FidRecs BY DEF TypeOK
  <2>1. p \in Pids /\ st[p] = "pending"
    BY <1>5, <2>0 DEF ClunkReject, PendingOwned, FidRecs
  <2>2. st' = [st EXCEPT ![p] = "gone"] /\ UNCHANGED <<parent, ns, code, bound, peak, hns>>
    BY <1>5 DEF ClunkReject, live
  <2> HIDE DEF p
  <2>3. \A q \in Pids : st'[q] = IF q = p THEN "gone" ELSE st[q]
    BY <2>1, <2>2 DEF TypeOK
  <2>4. TerminalStep BY <2>1, <2>2, <2>3 DEF TerminalStep, Public
  <2>5. NarrowStep BY <1>0, <2>1, <2>2, <2>3 DEF NarrowStep
  <2>6. AuthorityGrows BY <2>2, AuthoritySame
  <2> QED BY <2>2, <2>4, <2>5, <2>6 DEF PeakCovers
<1>6. ASSUME NEW h \in Handles, NEW x \in MountPaths, NEW a \in Access, Remount(h, x, a)
      PROVE  AuthorityGrows /\ PeakCovers' /\ TerminalStep /\ NarrowStep
  <2> DEFINE n == [hns[h] EXCEPT ![x] = a]
  <2>1. /\ hns' = [hns EXCEPT ![h] = n]
        /\ peak' = [peak EXCEPT ![h] = Join(peak[h], n)]
        /\ UNCHANGED <<st, parent, ns, code, bound>>
    BY <1>6 DEF Remount, table, TypeOK
  <2>2. n \in Namespaces /\ peak[h] \in Namespaces BY DEF TypeOK, Namespaces
  <2> HIDE DEF n
  <2>3. /\ Join(peak[h], n) \in Namespaces /\ Within(n, Join(peak[h], n))
        /\ Within(peak[h], Join(peak[h], n))
    BY <2>2, JoinType
  <2>4. \A g \in Handles : /\ hns'[g] = IF g = h THEN n ELSE hns[g]
                           /\ peak'[g] = IF g = h THEN Join(peak[h], n) ELSE peak[g]
    BY <2>1 DEF TypeOK
  <2>5. PeakCovers' BY <2>3, <2>4 DEF PeakCovers
  <2>6. \A g \in Handles : /\ peak[g] \in Namespaces /\ peak'[g] \in Namespaces
                           /\ Within(peak[g], peak'[g])
    BY <2>2, <2>3, <2>4, WithinRefl DEF TypeOK
  <2>7. ASSUME NEW v \in Views PROVE Within(Authority(v), Authority(v)')
    <3>1. CASE v = 0 BY <2>6, <3>1 DEF Authority
    <3>2. CASE v # 0
      <4>0. v \in Pids BY <3>2
      <4>1. CASE bound[v] = NoHandle BY <1>0, <2>1, <3>2, <4>0, <4>1 DEF Authority
      <4>2. CASE bound[v] # NoHandle
        <5>1. bound[v] \in Handles BY <4>0, <4>2 DEF TypeOK
        <5>2. Within(Join(ns[v], peak[bound[v]]), Join(ns[v], peak'[bound[v]]))
          BY <1>0, <2>6, <4>0, <5>1, JoinMono
        <5> QED BY <2>1, <3>2, <4>2, <5>2 DEF Authority, Join
      <4> QED BY <4>1, <4>2
    <3> QED BY <3>1, <3>2
  <2> QED BY <1>0, <2>1, <2>5, <2>7 DEF AuthorityGrows, TerminalStep, NarrowStep, Public
<1>7. ASSUME NEW p \in Pids, NEW h \in Handles, BindLive(p, h)
      PROVE  AuthorityGrows /\ PeakCovers' /\ TerminalStep /\ NarrowStep
  <2>1. /\ bound' = [bound EXCEPT ![p] = h] /\ bound[p] = NoHandle
        /\ UNCHANGED <<st, parent, ns, code, hns, peak>>
    BY <1>7 DEF BindLive
  <2>2. \A q \in Pids : bound'[q] = IF q = p THEN h ELSE bound[q] BY <2>1 DEF TypeOK
  <2>3. ASSUME NEW v \in Views PROVE Within(Authority(v), Authority(v)')
    <3>0. Within(Authority(v), Authority(v)) BY AuthorityType, WithinRefl
    <3>1. CASE v = 0 BY <2>1, <3>0, <3>1 DEF Authority
    <3>2. CASE v # 0 /\ v # p
      <4>1. bound'[v] = bound[v] BY <2>2, <3>2
      <4> QED BY <2>1, <3>0, <3>2, <4>1 DEF Authority, Join
    <3>3. CASE v # 0 /\ v = p
      <4>1. peak[h] \in Namespaces /\ h # NoHandle BY DEF TypeOK
      <4>2. Within(ns[p], Join(ns[p], peak[h])) BY <1>0, <4>1, JoinType
      <4> QED BY <2>1, <2>2, <3>3, <4>1, <4>2 DEF Authority, Join
    <3> QED BY <3>1, <3>2, <3>3
  <2> QED BY <1>0, <2>1, <2>3 DEF AuthorityGrows, PeakCovers, TerminalStep, NarrowStep, Public
<1>8. CASE UNCHANGED vars BY <1>1, <1>8 DEF vars
<1>9. CASE FidStep
  <2>1. PICK v \in Views, f \in AllFids :
        \/ \E node \in {"clone", "ctl"}, p \in Views : Walk(v, f, node, p)
        \/ \E m \in {"read", "write"} : OpenClone(v, f, m) \/ OpenCtl(v, f, m)
        \/ \E d \in Docs, fits \in BOOLEAN : WriteClone(v, f, d, fits)
        \/ WriteCtl(v, f)
        \/ ClunkCommit(v, f) \/ ClunkReject(v, f) \/ ClunkPlain(v, f)
    BY <1>9 DEF FidStep
  <2>2. CASE \/ \E node \in {"clone", "ctl"}, p \in Views : Walk(v, f, node, p)
             \/ \E m \in {"read", "write"} : OpenCtl(v, f, m)
             \/ \E d \in Docs, fits \in BOOLEAN : WriteClone(v, f, d, fits)
             \/ ClunkPlain(v, f)
    BY <1>1, <2>2 DEF Walk, OpenCtl, WriteClone, ClunkPlain, table, live
  <2>3. CASE WriteCtl(v, f)
    <3>1. fid[v][f].pid \in Pids /\ Public(fid[v][f].pid) BY <2>3 DEF WriteCtl, FidNodes
    <3>2. Exit(fid[v][f].pid, 130) /\ UNCHANGED <<parent, ns, bound, peak, hns>>
      BY <2>3 DEF WriteCtl, live
    <3> QED BY <1>2, <3>1, <3>2 DEF Exits
  <2> QED BY <1>3, <1>4, <1>5, <2>1, <2>2, <2>3
<1>10. CASE HostStep
  <2>1. CASE \E p \in Pids, c \in Codes : RecordExit(p, c)
    <3>1. PICK p \in Pids, c \in Codes : RecordExit(p, c) BY <2>1
    <3>2. Public(p) /\ Exit(p, c) /\ UNCHANGED <<parent, ns, bound, peak, hns>> /\ c \in Exits
      BY <3>1 DEF RecordExit, live, Exits
    <3> QED BY <1>2, <3>2
  <2> QED BY <1>6, <1>7, <1>10, <2>1 DEF HostStep
<1> QED BY <1>8, <1>9, <1>10 DEF Next

\* The step behind QidFreshness.
FreshStep ==
    /\ (\E p \in Pids : Public(p)' # Public(p)) => listGen' # listGen
    /\ \A p \in Pids : Public(p) =>
          /\ <<st[p], code[p], bound[p]>>' # <<st[p], code[p], bound[p]>> => gens'[p] # gens[p]
          /\ NsFile(p)' # NsFile(p) => NsVersion(p)' # NsVersion(p)

LEMMA NextFresh ==
    ASSUME TypeOK, SlotBounds, FidNodes, PendingOwned, [Next]_vars
    PROVE  FreshStep
<1> USE ViewZero
<1>1. ASSUME \A p \in Pids : Public(p)' = Public(p),
             \A p \in Pids : Public(p) => /\ st'[p] = st[p] /\ code'[p] = code[p]
                                          /\ bound'[p] = bound[p] /\ ns'[p] = ns[p],
             UNCHANGED hns
      PROVE  FreshStep
  BY <1>1 DEF FreshStep, NsFile
<1>2. ASSUME UNCHANGED <<st, ns, code, bound, hns>> PROVE FreshStep
  BY <1>2 DEF FreshStep, NsFile, Public
<1>3. ASSUME NEW p \in Pids, NEW c \in Exits, Public(p), Exit(p, c), UNCHANGED <<ns, bound, hns>>
      PROVE  FreshStep
  <2>1. \A q \in Pids :
          /\ st'[q] = IF q = p THEN "exited" ELSE st[q]
          /\ code'[q] = IF q = p /\ st[p] = "running" THEN c ELSE code[q]
          /\ gens'[q] = IF q = p /\ st[p] = "running" THEN gens[q] + 1 ELSE gens[q]
          /\ gens[q] \in Nat
    BY <1>3 DEF Exit, TypeOK, Public
  <2>2. \A q \in Pids : Public(q)' = Public(q) BY <1>3, <2>1 DEF Public
  <2>3. \A q \in Pids : gens'[q] = gens[q] => st'[q] = st[q] /\ code'[q] = code[q]
    BY <1>3, <2>1 DEF Public
  <2>4. \A q \in Pids : NsFile(q)' = NsFile(q) BY <1>3 DEF NsFile
  <2> QED BY <1>3, <2>2, <2>3, <2>4 DEF FreshStep
<1>4. ASSUME NEW v \in Views, NEW f \in AllFids, NEW m \in {"read", "write"}, OpenClone(v, f, m)
      PROVE  FreshStep
  <2>1. next \in Pids /\ st[next] = "free"
    BY <1>4 DEF OpenClone, TypeOK, Pids, SlotBounds
  <2>2. /\ st' = [st EXCEPT ![next] = "pending"] /\ ns' = [ns EXCEPT ![next] = SourceNs(v)]
        /\ UNCHANGED <<code, bound, hns>>
    BY <1>4 DEF OpenClone, live
  <2>3. \A q \in Pids : /\ st'[q] = IF q = next THEN "pending" ELSE st[q]
                        /\ ns'[q] = IF q = next THEN SourceNs(v) ELSE ns[q]
    BY <2>1, <2>2 DEF TypeOK
  <2> QED BY <1>1, <2>1, <2>2, <2>3 DEF Public
<1>5. ASSUME NEW v \in Views, NEW f \in AllFids, ClunkCommit(v, f)
      PROVE  FreshStep
  <2> DEFINE p == fid[v][f].clone
             n == fid[v][f].doc.mounts
  <2>0. fid[v][f] \in FidRecs BY DEF TypeOK
  <2>1. p \in Pids /\ st[p] = "pending"
    BY <1>5, <2>0 DEF ClunkCommit, PendingOwned, FidRecs
  <2>2. /\ st' = [st EXCEPT ![p] = "running"]
        /\ ns' = [ns EXCEPT ![p] = n]
        /\ listGen' = listGen + 1 /\ listGen \in Nat
        /\ UNCHANGED <<code, bound, hns>>
    BY <1>5 DEF ClunkCommit, live, TypeOK
  <2> HIDE DEF p, n
  <2>3. \A q \in Pids : /\ st'[q] = IF q = p THEN "running" ELSE st[q]
                        /\ ns'[q] = IF q = p THEN n ELSE ns[q]
    BY <2>1, <2>2 DEF TypeOK
  <2>4. listGen' # listGen BY <2>2
  <2>5. \A q \in Pids : Public(q) => /\ st'[q] = st[q] /\ code'[q] = code[q]
                                     /\ bound'[q] = bound[q] /\ NsFile(q)' = NsFile(q)
    BY <2>1, <2>2, <2>3 DEF Public, NsFile
  <2> QED BY <2>4, <2>5 DEF FreshStep
<1>6. ASSUME NEW v \in Views, NEW f \in AllFids, ClunkReject(v, f)
      PROVE  FreshStep
  <2> DEFINE p == fid[v][f].clone
  <2>0. fid[v][f] \in FidRecs BY DEF TypeOK
  <2>1. p \in Pids /\ st[p] = "pending"
    BY <1>6, <2>0 DEF ClunkReject, PendingOwned, FidRecs
  <2>2. st' = [st EXCEPT ![p] = "gone"] /\ UNCHANGED <<ns, code, bound, hns>>
    BY <1>6 DEF ClunkReject, live
  <2> HIDE DEF p
  <2>3. \A q \in Pids : st'[q] = IF q = p THEN "gone" ELSE st[q]
    BY <2>1, <2>2 DEF TypeOK
  <2> QED BY <1>1, <2>1, <2>2, <2>3 DEF Public
<1>7. ASSUME NEW h \in Handles, NEW x \in MountPaths, NEW a \in Access, Remount(h, x, a)
      PROVE  FreshStep
  <2>1. /\ hns' = [hns EXCEPT ![h][x] = a] /\ hgen' = [hgen EXCEPT ![h] = hgen[h] + 1]
        /\ hgen[h] \in Nat /\ UNCHANGED <<st, ns, code, bound, listGen, gens>>
    BY <1>7 DEF Remount, table, TypeOK
  <2>2. hgen'[h] # hgen[h] /\ \A g \in Handles : g # h => hns'[g] = hns[g]
    BY <2>1 DEF TypeOK
  <2>3. ASSUME NEW p \in Pids, NsFile(p)' # NsFile(p) PROVE NsVersion(p)' # NsVersion(p)
    <3>1. bound[p] # NoHandle BY <2>1, <2>3 DEF NsFile
    <3>2. bound[p] \in Handles BY <3>1 DEF TypeOK
    <3>3. bound[p] = h BY <2>1, <2>2, <2>3, <3>1, <3>2 DEF NsFile
    <3> QED BY <2>1, <2>2, <3>1, <3>3 DEF NsVersion
  <2> QED BY <2>1, <2>3 DEF FreshStep, Public
<1>8. ASSUME NEW p \in Pids, NEW h \in Handles, BindLive(p, h)
      PROVE  FreshStep
  <2>1. /\ bound' = [bound EXCEPT ![p] = h] /\ bound[p] = NoHandle
        /\ gens' = [gens EXCEPT ![p] = gens[p] + 1]
        /\ hgen' = [hgen EXCEPT ![h] = hgen[h] + 1]
        /\ UNCHANGED <<st, ns, code, hns, listGen>>
    BY <1>8 DEF BindLive
  <2>2. \A q \in Pids : bound'[q] = IF q = p THEN h ELSE bound[q] BY <2>1 DEF TypeOK
  <2>3. gens'[p] # gens[p] BY <2>1 DEF TypeOK
  <2>4. hgen'[h] = hgen[h] + 1 /\ hgen[h] \in Nat BY <2>1 DEF TypeOK
  <2>5. ASSUME NEW q \in Pids, NsFile(q)' # NsFile(q) PROVE NsVersion(q)' # NsVersion(q)
    <3>1. q = p BY <2>1, <2>2, <2>5 DEF NsFile
    <3>2. NsVersion(q) = 0 BY <2>1, <3>1 DEF NsVersion
    <3>3. NsVersion(q)' = hgen[h] + 1 BY <2>2, <2>4, <3>1 DEF NsVersion
    <3> QED BY <2>4, <3>2, <3>3
  <2>6. \A q \in Pids : q # p => bound'[q] = bound[q] BY <2>2
  <2> QED BY <2>1, <2>3, <2>5, <2>6 DEF FreshStep, Public
<1>9. CASE UNCHANGED vars BY <1>2, <1>9 DEF vars
<1>10. CASE FidStep
  <2>1. PICK v \in Views, f \in AllFids :
        \/ \E node \in {"clone", "ctl"}, p \in Views : Walk(v, f, node, p)
        \/ \E m \in {"read", "write"} : OpenClone(v, f, m) \/ OpenCtl(v, f, m)
        \/ \E d \in Docs, fits \in BOOLEAN : WriteClone(v, f, d, fits)
        \/ WriteCtl(v, f)
        \/ ClunkCommit(v, f) \/ ClunkReject(v, f) \/ ClunkPlain(v, f)
    BY <1>10 DEF FidStep
  <2>2. CASE \/ \E node \in {"clone", "ctl"}, p \in Views : Walk(v, f, node, p)
             \/ \E m \in {"read", "write"} : OpenCtl(v, f, m)
             \/ \E d \in Docs, fits \in BOOLEAN : WriteClone(v, f, d, fits)
             \/ ClunkPlain(v, f)
    BY <1>2, <2>2 DEF Walk, OpenCtl, WriteClone, ClunkPlain, table, live
  <2>3. CASE WriteCtl(v, f)
    <3>1. fid[v][f].pid \in Pids /\ Public(fid[v][f].pid) BY <2>3 DEF WriteCtl, FidNodes
    <3>2. Exit(fid[v][f].pid, 130) /\ UNCHANGED <<ns, bound, hns>>
      BY <2>3 DEF WriteCtl, live
    <3> QED BY <1>3, <3>1, <3>2 DEF Exits
  <2> QED BY <1>4, <1>5, <1>6, <2>1, <2>2, <2>3
<1>11. CASE HostStep
  <2>1. CASE \E p \in Pids, c \in Codes : RecordExit(p, c)
    <3>1. PICK p \in Pids, c \in Codes : RecordExit(p, c) BY <2>1
    <3>2. Public(p) /\ Exit(p, c) /\ UNCHANGED <<ns, bound, hns>> /\ c \in Exits
      BY <3>1 DEF RecordExit, live, Exits
    <3> QED BY <1>3, <3>2
  <2> QED BY <1>7, <1>8, <1>11, <2>1 DEF HostStep
<1> QED BY <1>9, <1>10, <1>11 DEF Next

-----------------------------------------------------------------------------
LEMMA InitInv == Init => Inv
<1> SUFFICES ASSUME Init PROVE Inv OBVIOUS
<1>1. TypeOK BY InitTypeOK
<1>2. \A v \in Views, f \in AllFids : fid[v][f] = Unbound BY DEF Init
<1>3. \A p \in Pids : st[p] = "free" BY DEF Init
<1>4. SlotBounds /\ ParentPublic /\ SpawnNarrows
  BY <1>3 DEF SlotBounds, ParentPublic, SpawnNarrows
<1>5. FidNodes BY <1>2 DEF FidNodes, Unbound
<1>6. PendingOwned
  <2>1. \A v \in Views, f \in AllFids : fid[v][f].clone = 0 BY <1>2 DEF Unbound
  <2>2. \A p \in Pids : st[p] # "pending" BY <1>3
  <2> QED BY <2>1, <2>2 DEF PendingOwned
<1>7. PeakCovers
  <2>1. \A h \in Handles : peak[h] = hns[h] /\ hns[h] \in Namespaces BY DEF Init
  <2> QED BY <2>1, WithinRefl DEF PeakCovers
<1> QED BY <1>1, <1>4, <1>5, <1>6, <1>7 DEF Inv

LEMMA NextInv == Inv /\ [Next]_vars => Inv'
<1> SUFFICES ASSUME Inv, [Next]_vars PROVE Inv' OBVIOUS
<1>1. TypeOK' /\ SlotBounds' BY NextTypeOK DEF Inv
<1>2. FidNodes' /\ PendingOwned' BY NextFids DEF Inv
<1>3. AuthorityGrows /\ PeakCovers' /\ TerminalStep /\ NarrowStep BY NextSteps DEF Inv
<1>4. ParentPublic' /\ SpawnNarrows' BY <1>1, <1>3, NarrowKeeps DEF Inv
<1> QED BY <1>1, <1>2, <1>3, <1>4 DEF Inv

LEMMA SpecInv == Spec => []Inv
  BY InitInv, NextInv, PTL DEF Spec

\* The process table, the fid tables and the handles stay well-formed, and a
\* process has an exit code exactly when it has exited.
THEOREM ProcTypeCorrect == Spec => []TypeOK
<1>1. Inv => TypeOK BY DEF Inv
<1> QED BY <1>1, SpecInv, PTL

\* Clone-via-open never leaks or shares a pending slot.
THEOREM ProcPendingOwned == Spec => []PendingOwned
<1>1. Inv => PendingOwned BY DEF Inv
<1> QED BY <1>1, SpecInv, PTL

\* The commit at clunk never gives a process more than its spawner held.
THEOREM ProcSpawnNarrows == Spec => []SpawnNarrows
<1>1. Inv => SpawnNarrows BY DEF Inv
<1> QED BY <1>1, SpecInv, PTL

\* ProcessTable::exit keeps the first terminal state for good.
THEOREM ProcTerminalOnce == Spec => TerminalOnce
<1>1. Inv /\ [Next]_vars => TerminalStep
  BY NextSteps DEF Inv
<1>2. Inv /\ [Next]_vars => [TerminalStep]_vars BY <1>1
<1> QED BY <1>2, SpecInv, PTL DEF Spec, TerminalOnce, TerminalStep

\* Whatever /proc shows changes only together with the qid version beside it.
THEOREM ProcQidFreshness == Spec => QidFreshness
<1>1. Inv /\ [Next]_vars => FreshStep
  BY NextFresh DEF Inv
<1>2. Inv /\ [Next]_vars => [FreshStep]_vars BY <1>1
<1> QED BY <1>2, SpecInv, PTL DEF Spec, QidFreshness, FreshStep
=============================================================================
