---------------------------- MODULE SystemStore -----------------------------
(***************************************************************************)
(* The store of installed packages, and the adoption of the state of earlier*)
(* installations into the stores of this one.                              *)
(***************************************************************************)
EXTENDS Naturals, FiniteSets, Integers

-----------------------------------------------------------------------------
(***************************************************************************)
(* The Package Service (crates/service-manager/src/package.rs, package/):  *)
(* one package of a Package Store that several Hosts share.  An operation  *)
(* runs under the file lock of the store, reloads the catalog, repairs     *)
(* what an interrupted one left behind, and changes the disk in several    *)
(* steps; a Host may die between any two of them.  A revision is the       *)
(* fingerprint of its snapshot.  The copy of the catalog a Host keeps is   *)
(* reloaded by every operation and is not modelled.                        *)
(***************************************************************************)

CONSTANTS Hosts, Revisions, LeaseIds, None

NotInstalled == [state |-> "none", kind |-> "installed", rev |-> None, refs |-> 0]

VARIABLES
    catalog,   \* the record of the package in catalog.json
    revisions, \* the revisions under revisions/<package>
    stagedPackage,    \* the revisions an unfinished removal set aside, or None
    leases,    \* lease file -> its Host and revision, or None once unlocked
    lock,      \* the Host that holds store.lock
    at,        \* Host -> where its operation is
    op         \* Host -> its operation

packageVars == <<catalog, revisions, stagedPackage, leases, lock, at, op>>

\* q reads its source tree file by file while it may change: any revision.
StoreSnapshots == Revisions

Ops == [name : {"install", "upgrade", "seed"}, rev : StoreSnapshots, lease : {None}]
         \cup [name : {"uninstall", "retire", "list"}, rev : {None}, lease : {None}]
         \cup [name : {"acquire", "release"}, rev : {None}, lease : LeaseIds]

NoOp == [name |-> "list", rev |-> None, lease |-> None]

StoreInit ==
    /\ catalog = NotInstalled
    /\ revisions = {}
    /\ stagedPackage = None
    /\ leases = [l \in LeaseIds |-> None]
    /\ lock = None
    /\ at = [h \in Hosts |-> "idle"]
    /\ op = [h \in Hosts |-> NoOp]

-----------------------------------------------------------------------------
\* leases::active: the revisions of the lease files some process has locked.
Leased == {leases[l].rev : l \in {l \in LeaseIds : leases[l] # None}}

References == Cardinality({l \in LeaseIds : leases[l] # None})

\* Mutant: only what is leased is kept.
MutRetained == Leased

\* gc_one_package_revisions keeps what is leased and what the catalog names.
Retained == Leased \cup {catalog.rev}

\* The cleanup of a revision may fail, which is only reported.
Collect ==
    \/ revisions' = revisions \cap Retained
    \/ UNCHANGED revisions

StoreGoto(h, step) == at' = [at EXCEPT ![h] = step]

\* The operation returns and the transaction lock is dropped.
Return(h) == StoreGoto(h, "idle") /\ lock' = None /\ op' = [op EXCEPT ![h] = NoOp]

\* PackageStoreLock::acquire; what comes back after 500 ms of a busy store has
\* changed nothing, except that a released lease is gone all the same.
Acquire(h, o) ==
    /\ at[h] = "idle" /\ lock = None
    /\ o.name = "acquire" => leases[o.lease] = None
    /\ o.name = "release" => leases[o.lease] # None /\ leases[o.lease].host = h
    /\ lock' = h
    /\ op' = [op EXCEPT ![h] = o]
    /\ StoreGoto(h, "staging")
    /\ UNCHANGED <<catalog, revisions, stagedPackage, leases>>

ReleaseBusy(h, l) ==
    /\ at[h] = "idle" /\ lock # None
    /\ leases[l] # None /\ leases[l].host = h
    /\ leases' = [leases EXCEPT ![l] = None]
    /\ UNCHANGED <<catalog, revisions, stagedPackage, lock, at, op>>

-----------------------------------------------------------------------------
\* load: what a removal set aside goes back when the catalog still has the package,
\* and is deleted otherwise ...
RecoverStaging(h) ==
    /\ at[h] = "staging"
    /\ IF stagedPackage # None /\ catalog.state # "none"
       THEN revisions' = stagedPackage
       ELSE UNCHANGED revisions
    /\ stagedPackage' = None
    /\ StoreGoto(h, "references")
    /\ UNCHANGED <<catalog, leases, lock, op>>

\* ... the references are counted anew and a retiring package without any is
\* dropped from the catalog ...
ReconcileReferences(h) ==
    /\ at[h] = "references"
    /\ catalog' = IF catalog.state = "none" \/ (catalog.state = "retiring" /\ References = 0)
                  THEN NotInstalled
                  ELSE [catalog EXCEPT !.refs = References]
    /\ StoreGoto(h, "collect")
    /\ UNCHANGED <<revisions, stagedPackage, leases, lock, op>>

\* ... and revisions nobody refers to are deleted.
CollectUnreferenced(h) ==
    /\ at[h] = "collect"
    /\ Collect
    /\ StoreGoto(h, "run")
    /\ UNCHANGED <<catalog, stagedPackage, leases, lock, op>>

-----------------------------------------------------------------------------
\* install, upgrade and seed_preinstalled: whether there is a revision to make.
Materializes(o) ==
    \/ o.name = "install" /\ catalog.state = "none"
    \/ o.name = "upgrade" /\ catalog.state = "installed" /\ catalog.kind = "installed" /\ catalog.rev # o.rev
    \/ o.name = "seed" /\ (catalog.state = "none" \/ (catalog.kind = "preinstalled" /\ catalog.rev # o.rev))

\* uninstall and retire_preinstalled: whether the package may be removed.
Removes(o) ==
    \/ o.name = "uninstall" /\ catalog.state # "none" /\ catalog.kind = "installed"
    \/ o.name = "retire" /\ catalog.state = "installed" /\ catalog.kind = "preinstalled"

\* materialize: the revision is built aside and renamed to its place, or is there.
Materialize(h) ==
    /\ at[h] = "run" /\ Materializes(op[h])
    /\ revisions' = revisions \cup {op[h].rev}
    /\ StoreGoto(h, "publish")
    /\ UNCHANGED <<catalog, stagedPackage, leases, lock, op>>

PublishRecord(h) ==
    /\ at[h] = "publish"
    /\ catalog' = [state |-> IF op[h].name = "upgrade" THEN catalog.state ELSE "installed",
                   kind |-> IF op[h].name = "seed" THEN "preinstalled" ELSE "installed",
                   rev |-> op[h].rev, refs |-> catalog.refs]
    /\ StoreGoto(h, "finish")
    /\ UNCHANGED <<revisions, stagedPackage, leases, lock, op>>

\* gc_package_revisions_after_commit, and the cleanup at the end of a release.
Finish(h) ==
    /\ at[h] = "finish"
    /\ Collect
    /\ Return(h)
    /\ UNCHANGED <<catalog, stagedPackage, leases>>

\* remove_package of a package in use only marks it.
Retire(h) ==
    /\ at[h] = "run" /\ Removes(op[h]) /\ catalog.refs > 0
    /\ catalog' = [catalog EXCEPT !.state = "retiring"]
    /\ Return(h)
    /\ UNCHANGED <<revisions, stagedPackage, leases>>

\* The last reference of a retiring package is being released.
LastReference(o) == o.name = "release" /\ catalog.state = "retiring" /\ catalog.refs <= 1

\* stage_package_revisions
Stage(h) ==
    /\ at[h] = "run"
    /\ (Removes(op[h]) /\ catalog.refs = 0) \/ LastReference(op[h])
    /\ stagedPackage' = IF revisions = {} THEN None ELSE revisions
    /\ revisions' = {}
    /\ StoreGoto(h, "unpublish")
    /\ UNCHANGED <<catalog, leases, lock, op>>

\* The lease of a release goes once the catalog without it is on disk.
Drop(h) == leases' = IF op[h].name = "release" THEN [leases EXCEPT ![op[h].lease] = None] ELSE leases

Unpublish(h) ==
    /\ at[h] = "unpublish"
    /\ catalog' = NotInstalled
    /\ Drop(h)
    /\ StoreGoto(h, "discard")
    /\ UNCHANGED <<revisions, stagedPackage, lock, op>>

\* persist_catalog failed, before or after the rename, and the revisions are put
\* back, unless that fails too.  The lease of a release is dropped by its owner.
UnpublishFails(h) ==
    /\ at[h] = "unpublish"
    /\ catalog' \in {catalog, NotInstalled}
    /\ \/ stagedPackage' = None /\ revisions' = IF stagedPackage = None THEN {} ELSE stagedPackage
       \/ UNCHANGED <<stagedPackage, revisions>>
    /\ Drop(h)
    /\ Return(h)

\* discard_staged_package_revisions; a failure is left to the next load.
DiscardStage(h) ==
    /\ at[h] = "discard"
    /\ stagedPackage' \in {None, stagedPackage}
    /\ Return(h)
    /\ UNCHANGED <<catalog, revisions, leases>>

\* verify_revision: the tree of the catalog's revision is there and matches it.
Verified == catalog.rev \in revisions

\* acquire: of an installed package; the lease file is locked first ...
CreateLease(h) ==
    /\ at[h] = "run" /\ op[h].name = "acquire" /\ catalog.state = "installed" /\ Verified
    /\ leases' = [leases EXCEPT ![op[h].lease] = [host |-> h, rev |-> catalog.rev]]
    /\ StoreGoto(h, "count")
    /\ UNCHANGED <<catalog, revisions, stagedPackage, lock, op>>

\* ... and counted in the catalog next.
CountLease(h) ==
    /\ at[h] = "count"
    /\ \/ catalog' = [catalog EXCEPT !.refs = @ + 1] /\ UNCHANGED leases
       \/ leases' = [leases EXCEPT ![op[h].lease] = None] /\ UNCHANGED catalog
    /\ Return(h)
    /\ UNCHANGED <<revisions, stagedPackage>>

\* release of one reference of several.
Release(h) ==
    /\ at[h] = "run" /\ op[h].name = "release" /\ ~LastReference(op[h])
    /\ catalog' = IF catalog.state = "none" THEN catalog ELSE [catalog EXCEPT !.refs = IF @ = 0 THEN 0 ELSE @ - 1]
    /\ Drop(h)
    /\ StoreGoto(h, "finish")
    /\ UNCHANGED <<revisions, stagedPackage, lock, op>>

\* A command that is refused, a list, and an operation that failed on the way.
Refuse(h) ==
    /\ at[h] \in {"staging", "references", "run", "publish"}
    /\ Drop(h)
    /\ Return(h)
    /\ UNCHANGED <<catalog, revisions, stagedPackage>>

\* The Host dies: the operating system drops its locks.
Crash(h) ==
    /\ lock' = IF lock = h THEN None ELSE lock
    /\ leases' = [l \in LeaseIds |-> IF leases[l] # None /\ leases[l].host = h THEN None ELSE leases[l]]
    /\ StoreGoto(h, "idle") /\ op' = [op EXCEPT ![h] = NoOp]
    /\ UNCHANGED <<catalog, revisions, stagedPackage>>

StoreNext ==
    \E h \in Hosts :
        \/ \E o \in Ops : Acquire(h, o)
        \/ \E l \in LeaseIds : ReleaseBusy(h, l)
        \/ RecoverStaging(h) \/ ReconcileReferences(h) \/ CollectUnreferenced(h)
        \/ Materialize(h) \/ PublishRecord(h) \/ Finish(h)
        \/ Retire(h) \/ Stage(h) \/ Unpublish(h) \/ UnpublishFails(h) \/ DiscardStage(h)
        \/ CreateLease(h) \/ CountLease(h) \/ Release(h) \/ Refuse(h) \/ Crash(h)

StoreSpec == StoreInit /\ [][StoreNext]_packageVars

-----------------------------------------------------------------------------
\* The lease is the one its Host is giving up.
Dropping(l) == \E h \in Hosts : op[h].name = "release" /\ op[h].lease = l

\* Wherever Hosts die, fail or race, the content of every package reference a
\* Process holds is on disk, and the next Host to open the store can verify the
\* catalog: the revision it names is in its place, or set aside in full for
\* recover_staging to put back (PackageStore::load, recover, remove_package,
\* gc_one_package_revisions).
StoreIsWhole ==
    /\ \A l \in LeaseIds : leases[l] # None /\ ~Dropping(l) => leases[l].rev \in revisions
    /\ catalog.state # "none" =>
          catalog.rev \in revisions \/ (stagedPackage # None /\ catalog.rev \in stagedPackage /\ revisions = {})

-----------------------------------------------------------------------------
(***************************************************************************)
(* Adopting the store pair of an older installation                        *)
(* (alan/src/installation_migration, os-host/src/installation).            *)
(* `alan legacy-state migrate-installation` copies the durable components  *)
(* of a retired installation into the canonical stores, behind a journal   *)
(* that every store opener reads, and can be rolled back.  A command may   *)
(* fail or be killed between any two file-system operations; the locks it  *)
(* holds go with its process and everything it wrote stays.                *)
(*                                                                         *)
(* The contents of a component are a number: 0 is absent, Partial is a     *)
(* tree of which only a part is there, and every write by anyone makes a   *)
(* new number.  Old binaries do not honour the installation lock: they     *)
(* take the native lock of some components and none for the rest.          *)
(***************************************************************************)

CONSTANTS Runs,        \* concurrent migration commands
          Instances,   \* concurrent ordinary invocations of alan
          Sources,     \* the historical installations
          Comps,       \* services, credentials, managed auth
          Parent,      \* [Comps -> the canonical store that holds the component]
          Trees,       \* the components that are directories
          Unlocked,    \* the components old binaries write without a lock
          MaxVersion, MaxIds 

VARIABLES journal,    \* installation-migration.json
          inventory,  \* installation-recovery-<id>.json
          src, dest,  \* contents of the legacy and of the canonical components
          roots,      \* the staging directories .installation-<id>: <<id, store>>
          stagedCopies,     \* contents of the components in the staging directories
          exclusive,  \* the run that holds the installation lock exclusively
          native,     \* the run that holds the native locks of the source
          run,        \* the commands
          open,       \* the invocations that hold the shared lock
          legacy,     \* is a process of the old installation running?
          work,       \* the contents an invocation last gave each canonical component
          version, ids

adoptionVars == <<journal, inventory, src, dest, roots, stagedCopies, exclusive, native, run,
                  open, legacy, work, version, ids>>

Partial == -1
Stores == {Parent[c] : c \in Comps}
Idle == [pc |-> "off", source |-> None, prev |-> None, j |-> None, at |-> None,
         todo |-> {}]
Present(contents) == {c \in Comps : contents[c] # 0}
\* Any entry of a store besides the legacy roots counts, a staging directory too.
CanonicalPresent == Present(dest) # {} \/ roots # {}
\* Snapshot::read of every component of a source; absent ones are left out.
Snapshots(s) == [c \in Present(src[s]) |-> src[s][c]]

AdoptionInit == /\ journal = None /\ inventory = None
                /\ src \in [Sources -> [Comps -> {0, 1}]]
                /\ \E s \in Sources : Present(src[s]) # {}
                /\ dest = [c \in Comps |-> 0] /\ stagedCopies = [c \in Comps |-> 0]
                /\ roots = {} /\ exclusive = None /\ native = None
                /\ run = [r \in Runs |-> Idle] /\ open = {} /\ legacy = FALSE
                /\ work = [c \in Comps |-> 0] /\ version = 1 /\ ids = 0

-----------------------------------------------------------------------------
(* Other processes                                                         *)

\* InstallationPaths::access: a shared lock, then a journal that is absent or
\* committed, and canonical data unless there is nothing to adopt.
Access(i) == /\ i \notin open /\ exclusive = None
             /\ journal # None => journal.st = "committed"
             /\ CanonicalPresent \/ \A s \in Sources : Present(src[s]) = {}
             /\ open' = open \cup {i}
             /\ UNCHANGED <<journal, inventory, src, dest, roots, stagedCopies, exclusive,
                            native, run, legacy, work, version, ids>>

Close(i) == /\ i \in open /\ open' = open \ {i}
            /\ UNCHANGED <<journal, inventory, src, dest, roots, stagedCopies, exclusive,
                           native, run, legacy, work, version, ids>>

Work(i, c) == /\ i \in open /\ version < MaxVersion
              /\ version' = version + 1
              /\ dest' = [dest EXCEPT ![c] = version']
              /\ work' = [work EXCEPT ![c] = version']
              /\ UNCHANGED <<journal, inventory, src, roots, stagedCopies, exclusive,
                             native, run, open, legacy, ids>>

LegacyToggle == /\ legacy' = ~legacy
                /\ UNCHANGED <<journal, inventory, src, dest, roots, stagedCopies, exclusive,
                               native, run, open, work, version, ids>>

LegacyWrite(s, c) == /\ legacy /\ version < MaxVersion
                     /\ native = None \/ c \in Unlocked
                     /\ version' = version + 1
                     /\ src' = [src EXCEPT ![s][c] = version']
                     /\ UNCHANGED <<journal, inventory, dest, roots, stagedCopies, exclusive,
                                    native, run, open, legacy, work, ids>>

\* validate_pair: every owning reader accepts what is there.
Readable(contents) == \A c \in Comps : contents[c] # Partial

\* SourceLocks::acquire, without waiting.
TakeNative(r) == native = None /\ native' = r

\* check_processes: another alan process of the user, of whatever version.
Quiet(r) == ~legacy /\ open = {} /\ \A o \in Runs \ {r} : run[o].pc = "off"

-----------------------------------------------------------------------------
(* The command                                                             *)

RunGoto(r, pc) == run' = [run EXCEPT ![r].pc = pc]

\* Returning, with an error or not, and being killed: the locks are released.
Leave(r) == /\ run' = [run EXCEPT ![r] = Idle]
            /\ exclusive' = IF exclusive = r THEN None ELSE exclusive
            /\ native' = IF native = r THEN None ELSE native

Stop(r) == /\ run[r].pc # "off" /\ Leave(r)
           /\ UNCHANGED <<journal, inventory, src, dest, roots, stagedCopies, open, legacy,
                          work, version, ids>>

\* A refused command has no effect and is left out; so are a dry run and the
\* retry of a committed adoption, which only read.
Begin(r, s, back) ==
    /\ run[r].pc = "off"
    /\ IF journal = None THEN ~back /\ ~CanonicalPresent
       ELSE /\ journal.st = "rolling" => back
            /\ journal.source = s
            /\ journal.st = "committed" => back
    /\ run' = [run EXCEPT ![r] = [Idle EXCEPT !.pc = IF back THEN "back" ELSE "preflight",
                                              !.source = s, !.prev = journal]]
    /\ UNCHANGED <<journal, inventory, src, dest, roots, stagedCopies, exclusive, native, open,
                   legacy, work, version, ids>>

\* validate_store_pair, SourceLocks::acquire, check_processes and the snapshots.
Preflight(r) ==
    LET me == run[r]
        comps == Snapshots(me.source)
    IN /\ me.pc = "preflight" /\ Readable(src[me.source])
       /\ TakeNative(r) /\ Quiet(r)
       /\ DOMAIN comps # {}
       /\ me.prev # None => me.prev.comps = comps
       /\ run' = [run EXCEPT ![r].pc = "exclude",
                             ![r].j = IF me.prev # None THEN me.prev
                                      ELSE [id |-> 0, source |-> me.source,
                                            st |-> "preparing", comps |-> comps]]
       /\ UNCHANGED <<journal, inventory, src, dest, roots, stagedCopies, exclusive, open,
                      legacy, work, version, ids>>

\* ensure_destination_shape: nothing in the stores but this adoption's own data.
Shape(comps, id) == /\ Present(dest) \subseteq DOMAIN comps
                    /\ \A d \in roots : d[1] = id

Free == open = {} /\ exclusive = None

Exclude(r) ==
    LET me == run[r]
        id == IF me.prev = None THEN ids + 1 ELSE me.j.id
    IN /\ me.pc = "exclude" /\ Free
       /\ journal = me.prev
       /\ me.prev = None => ~CanonicalPresent /\ ids < MaxIds
       /\ Shape(me.j.comps, id)
       /\ exclusive' = r
       /\ ids' = IF me.prev = None THEN ids + 1 ELSE ids
       /\ run' = [run EXCEPT ![r].pc = "journal", ![r].j.id = id]
       /\ UNCHANGED <<journal, inventory, src, dest, roots, stagedCopies, native, open, legacy,
                      work, version>>

WriteJournal(r) ==
    /\ run[r].pc = "journal"
    /\ journal' = run[r].j
    /\ RunGoto(r, "inventory")
    /\ UNCHANGED <<inventory, src, dest, roots, stagedCopies, exclusive, native, open, legacy,
                   work, version, ids>>

\* recovery::load: the inventory of this journal, checked against its fingerprints.
Loaded(j) == inventory # None /\ inventory.id = j.id
RootsAbsent(id) == \A d \in roots : d[1] # id

WriteInventory(r) ==
    LET j == run[r].j
    IN /\ run[r].pc = "inventory"
       /\ IF Loaded(j) THEN inventory' = inventory
          ELSE /\ j.st = "preparing" /\ RootsAbsent(j.id)
               /\ inventory' = [id |-> j.id, comps |-> j.comps]
       /\ run' = [run EXCEPT ![r].pc = IF j.st = "preparing" THEN "roots" ELSE "recheck",
                             ![r].todo = DOMAIN j.comps]
       /\ UNCHANGED <<journal, src, dest, roots, stagedCopies, exclusive, native, open, legacy,
                      work, version, ids>>

PrepareRoot(r, p) ==
    /\ run[r].pc = "roots" /\ <<run[r].j.id, p>> \notin roots
    /\ roots' = roots \cup {<<run[r].j.id, p>>}
    /\ UNCHANGED <<journal, inventory, src, dest, stagedCopies, exclusive, native, run, open,
                   legacy, work, version, ids>>

RootsReady(r) ==
    /\ run[r].pc = "roots" /\ \A p \in Stores : <<run[r].j.id, p>> \in roots
    /\ RunGoto(r, "stage")
    /\ UNCHANGED <<journal, inventory, src, dest, roots, stagedCopies, exclusive, native, open,
                   legacy, work, version, ids>>

\* discard_partial, then the copy; stage() compares every byte with the snapshot.
StageBegin(r, c) ==
    /\ run[r].pc = "stage" /\ c \in run[r].todo
    /\ stagedCopies' = [stagedCopies EXCEPT ![c] = Partial]
    /\ run' = [run EXCEPT ![r].pc = "copy", ![r].at = c, ![r].todo = @ \ {c}]
    /\ UNCHANGED <<journal, inventory, src, dest, roots, exclusive, native, open, legacy,
                   work, version, ids>>

StageEnd(r, c) ==
    LET me == run[r]
    IN /\ me.pc = "copy" /\ me.at = c
       /\ src[me.source][c] = me.j.comps[c]
       /\ stagedCopies' = [stagedCopies EXCEPT ![c] = me.j.comps[c]]
       /\ run' = [run EXCEPT ![r].pc = "stage", ![r].at = None]
       /\ UNCHANGED <<journal, inventory, src, dest, roots, exclusive, native, open,
                      legacy, work, version, ids>>

\* validate_store_pair of the staged pair, then the journal.
Publishing(r) ==
    /\ run[r].pc = "stage" /\ run[r].todo = {} /\ Readable(stagedCopies)
    /\ journal' = [journal EXCEPT !.st = "publishing"]
    /\ run' = [run EXCEPT ![r].pc = "recheck", ![r].j.st = "publishing"]
    /\ UNCHANGED <<inventory, src, dest, roots, stagedCopies, exclusive, native, open, legacy,
                   work, version, ids>>

Unchanged(me) == \A c \in DOMAIN me.j.comps : src[me.source][c] = me.j.comps[c]

Recheck(r) ==
    /\ run[r].pc = "recheck" /\ Quiet(r) /\ Unchanged(run[r])
    /\ run' = [run EXCEPT ![r].pc = "publish", ![r].todo = DOMAIN run[r].j.comps]
    /\ UNCHANGED <<journal, inventory, src, dest, roots, stagedCopies, exclusive, native, open,
                   legacy, work, version, ids>>

Publish(r, c) ==
    LET me == run[r]
        v == me.j.comps[c]
    IN /\ me.pc = "publish" /\ c \in me.todo
       /\ IF dest[c] # 0
          THEN dest[c] = v /\ stagedCopies[c] = 0 /\ UNCHANGED <<dest, stagedCopies>>
          ELSE /\ stagedCopies[c] = v
               /\ dest' = [dest EXCEPT ![c] = v]
               /\ stagedCopies' = [stagedCopies EXCEPT ![c] = 0]
       /\ run' = [run EXCEPT ![r].todo = @ \ {c}]
       /\ UNCHANGED <<journal, inventory, src, roots, exclusive, native, open, legacy,
                      work, version, ids>>

\* validate_pair of the canonical pair, then remove_stage_roots: a directory
\* that is not empty stays and fails the command.
RemoveRoot(r, p) ==
    LET me == run[r]
    IN /\ me.pc \in {"publish", "unroot"} /\ me.todo = {} /\ Readable(dest)
       /\ <<me.j.id, p>> \in roots
       /\ \A c \in Comps : Parent[c] = p => stagedCopies[c] = 0
       /\ roots' = roots \ {<<me.j.id, p>>}
       /\ UNCHANGED <<journal, inventory, src, dest, stagedCopies, exclusive, native, run, open,
                      legacy, work, version, ids>>

Commit(r) ==
    /\ run[r].pc = "publish" /\ run[r].todo = {} /\ RootsAbsent(run[r].j.id)
    /\ journal' = [journal EXCEPT !.st = "committed"]
    /\ Leave(r)
    /\ UNCHANGED <<inventory, src, dest, roots, stagedCopies, open, legacy, work, version, ids>>

-----------------------------------------------------------------------------
(* Rollback                                                                *)

MutUntouched(comps) == TRUE
\* Canonical data that is not what was adopted is new work.
Untouched(comps) == \A c \in DOMAIN comps : dest[c] \in {0, comps[c]}

Back(r) ==
    LET me == run[r]
    IN /\ me.pc = "back" /\ Free
       /\ journal = me.prev /\ Quiet(r)
       /\ \/ /\ Loaded(journal)
             /\ Shape(inventory.comps, journal.id)
             /\ Untouched(inventory.comps)
             /\ exclusive' = r
             /\ run' = [run EXCEPT ![r].pc = "rolling", ![r].j = journal]
             /\ journal' = journal
          \/ /\ ~Loaded(journal)
             /\ journal.st \in {"preparing", "rolling"} /\ ~CanonicalPresent
             /\ journal' = None
             /\ run' = [run EXCEPT ![r] = Idle] /\ exclusive' = exclusive
       /\ UNCHANGED <<inventory, src, dest, roots, stagedCopies, native, open, legacy, work,
                      version, ids>>

RollingBack(r) ==
    /\ run[r].pc = "rolling"
    /\ journal' = [journal EXCEPT !.st = "rolling"]
    /\ run' = [run EXCEPT ![r].pc = "discard", ![r].todo = DOMAIN run[r].j.comps]
    /\ UNCHANGED <<inventory, src, dest, roots, stagedCopies, exclusive, native, open, legacy,
                   work, version, ids>>

\* remove_dir_all takes a tree apart entry by entry; a file goes at once.
Removal(f, c) == \/ f[c] > 0 /\ c \in Trees /\ f' = [f EXCEPT ![c] = Partial]
                 \/ f[c] # 0 /\ f' = [f EXCEPT ![c] = 0]

DiscardCopies(r, c) ==
    /\ run[r].pc = "discard" /\ c \in run[r].todo
    /\ \/ Removal(dest, c) /\ UNCHANGED <<stagedCopies, run>>
       \/ /\ dest[c] = 0 /\ Removal(stagedCopies, c) /\ UNCHANGED <<dest, run>>
       \/ /\ dest[c] = 0 /\ stagedCopies[c] = 0
          /\ run' = [run EXCEPT ![r].todo = @ \ {c},
                                ![r].pc = IF @ = "discard" /\ run[r].todo = {c}
                                          THEN "unroot" ELSE @]
          /\ UNCHANGED <<dest, stagedCopies>>
    /\ UNCHANGED <<journal, inventory, src, roots, exclusive, native, open, legacy, work,
                   version, ids>>

RemoveInventory(r) ==
    /\ run[r].pc = "unroot" /\ RootsAbsent(run[r].j.id)
    /\ inventory' = None
    /\ RunGoto(r, "forget")
    /\ UNCHANGED <<journal, src, dest, roots, stagedCopies, exclusive, native, open, legacy,
                   work, version, ids>>

RemoveJournal(r) ==
    /\ run[r].pc = "forget"
    /\ journal' = None
    /\ Leave(r)
    /\ UNCHANGED <<inventory, src, dest, roots, stagedCopies, open, legacy, work, version, ids>>

-----------------------------------------------------------------------------

Command(r) ==
    \/ Stop(r)
    \/ \E s \in Sources, b \in BOOLEAN : Begin(r, s, b)
    \/ Preflight(r) \/ Exclude(r) \/ WriteJournal(r) \/ WriteInventory(r)
    \/ \E p \in Stores : PrepareRoot(r, p) \/ RemoveRoot(r, p)
    \/ RootsReady(r)
    \/ \E c \in Comps : StageBegin(r, c) \/ StageEnd(r, c) \/ Publish(r, c) \/ DiscardCopies(r, c)
    \/ Publishing(r) \/ Recheck(r) \/ Commit(r)
    \/ Back(r) \/ RollingBack(r) \/ RemoveInventory(r) \/ RemoveJournal(r)

AdoptionNext == \/ \E r \in Runs : Command(r)
                \/ \E i \in Instances : Access(i) \/ Close(i) \/ \E c \in Comps : Work(i, c)
                \/ LegacyToggle
                \/ \E s \in Sources, c \in Comps : LegacyWrite(s, c)

AdoptionSpec == AdoptionInit /\ [][AdoptionNext]_adoptionVars

-----------------------------------------------------------------------------

TypeOK == /\ dest \in [Comps -> Partial..MaxVersion]
          /\ stagedCopies \in [Comps -> Partial..MaxVersion]
          /\ exclusive \in Runs \cup {None} /\ native \in Runs \cup {None}
          /\ open \subseteq Instances

\* Wherever a command stops, an invocation that the installation lock and the
\* journal let in finds the whole adopted pair or none of it, an adoption that
\* can still be published has each component whole in exactly one place, one
\* that is over leaves no staging data behind, and what an invocation wrote to
\* the canonical stores is never removed (InstallationPaths::access, the journal
\* states and the checks of migrate_with_checkpoints and rollback).
AdoptionIsAtomic ==
    /\ open # {} => /\ \A c \in Comps : dest[c] # Partial
                    /\ roots = {}
                    /\ journal # None => DOMAIN journal.comps \subseteq Present(dest)
    /\ journal = None => inventory = None /\ roots = {} /\ Present(stagedCopies) = {}
    /\ journal # None =>
         \A c \in DOMAIN journal.comps :
            /\ journal.st = "publishing" =>
                 {dest[c], stagedCopies[c]} = {0, journal.comps[c]}
            /\ journal.st = "committed" =>
                 dest[c] = IF work[c] # 0 THEN work[c] ELSE journal.comps[c]
    /\ \A c \in Comps : work[c] # 0 => dest[c] = work[c]

\* An interrupted rollback can be completed with --rollback: its checks let it
\* start again from whatever the interrupted command left
\* (transaction.rs, "interrupted rollback must be completed with --rollback").
RollbackCanFinish ==
    (journal # None /\ \A r \in Runs : run[r].pc = "off") =>
        (journal.st = "rolling" /\ Loaded(journal) => Untouched(inventory.comps))
=============================================================================
