------------------------------ MODULE MountFs ------------------------------
(***************************************************************************)
(* The namespace wrapper of the kernel: MountFs presents a mount table as  *)
(* one file server.  A caller-visible ("outer") fid is an entry of the fid *)
(* table; an entry at or below a mount holds a backing fid, bound in the   *)
(* mounted tree, and every operation on it is forwarded there.  The table  *)
(* lock is never held across a backing call, so calls interleave at every  *)
(* await, and a call's future may be dropped at any await.                 *)
(*                                                                         *)
(* State and its counterpart in crates/kernel/src/mountfs.rs:              *)
(*   fids      State.fids: what each outer fid points at                   *)
(*   nextb     NEXT_BACKING                                                *)
(*   bound     the backing fids bound in the mounted trees (external)      *)
(*   call      the futures of the calls in progress                        *)
(*   tasks     the cleanup tasks spawned by dropping a PendingWalk         *)
(*   draining  the backing fids clunk_all took and has not clunked yet     *)
(*   leaked    history: backing fids that lost their last owner by a       *)
(*             failed remove, a cleanup timeout or a dropped call          *)
(***************************************************************************)
EXTENDS Naturals, FiniteSets

CONSTANTS Fids,           \* outer fids other than Fid::ROOT
          Root,           \* Fid::ROOT
          Callers,        \* slots for concurrent calls
          MaxCandidates,  \* longest union the namespace resolves a path to
          MaxBacking,     \* bound on NEXT_BACKING
          Aborts          \* whether futures are dropped and cleanups time out

ASSUME MountAssumption == Root \notin Fids /\ MaxCandidates \in Nat /\ MaxBacking \in Nat

VARIABLES fids, nextb, bound, call, tasks, draining, leaked

mountVars == <<fids, nextb, bound, call, tasks, draining, leaked>>

Outer == Fids \cup {Root}
NoBacking == 0
Backings == 1..MaxBacking

WalkPcs == {"walk", "publish", "retry", "next", "synth", "close", "release"}
OtherPcs == {"create", "insert", "unreserve", "discard", "clunk", "remove",
             "forward", "list", "read", "unlist"}

Free == [kind |-> "free", b |-> NoBacking, dir |-> FALSE]
Synthetic == [kind |-> "synthetic", b |-> NoBacking, dir |-> FALSE]
Published(b, d) == [kind |-> "backing", b |-> b, dir |-> d]
Reserved(b) == [kind |-> "walking", b |-> b, dir |-> FALSE]
CreateReserved == [kind |-> "creating", b |-> NoBacking, dir |-> FALSE]

Idle == [pc |-> "idle", f |-> Root, b |-> NoBacking, left |-> 0, ans |-> "none",
         cancel |-> FALSE]

MountInit ==
    /\ fids = [f \in Outer |-> IF f = Root THEN Synthetic ELSE Free]
    /\ nextb = 1
    /\ bound = {}
    /\ call = [c \in Callers |-> Idle]
    /\ tasks = {}
    /\ draining = {}
    /\ leaked = {}

-----------------------------------------------------------------------------
(* Helpers.                                                                *)

\* A fid that normal operations may use: present and not reserved.
Usable(f) == fids[f].kind \in {"synthetic", "backing"}

\* The entry of f is the reservation made by the walk whose backing fid is b.
Owned(f, b) == fids[f].kind = "walking" /\ fids[f].b = b

Begin(c, pc, f, b, left) ==
    call' = [call EXCEPT ![c] = [Idle EXCEPT !.pc = pc, !.f = f, !.b = b,
                                             !.left = left]]
MoveTo(c, pc) == call' = [call EXCEPT ![c].pc = pc]
Return(c) == call' = [call EXCEPT ![c] = Idle]

\* NEXT_BACKING.fetch_add: never hands out the same fid twice.
MutFresh == IF bound = Backings THEN MaxBacking
            ELSE CHOOSE b \in Backings \ bound : \A x \in Backings \ bound : b <= x
Fresh == nextb
Allocate == nextb <= MaxBacking /\ nextb' = nextb + 1

-----------------------------------------------------------------------------
(* walk                                                                    *)

\* No mount covers the path: published under the same lock that checked it.
StartSyntheticWalk(c, base, f) ==
    /\ call[c].pc = "idle"
    /\ fids[f].kind = "free"
    /\ Usable(base)
    /\ fids' = [fids EXCEPT ![f] = Synthetic]
    /\ UNCHANGED <<nextb, bound, call, tasks, draining, leaked>>

\* k mounts cover the path: the outer fid is reserved for the first of them.
StartWalk(c, base, f, k) ==
    /\ call[c].pc = "idle"
    /\ fids[f].kind = "free"
    /\ Usable(base)
    /\ Allocate
    /\ fids' = [fids EXCEPT ![f] = Reserved(Fresh)]
    /\ Begin(c, "walk", f, Fresh, k - 1)
    /\ UNCHANGED <<bound, tasks, draining, leaked>>

\* The mounted tree carries out the walk.
BackingWalk(c) ==
    /\ call[c].pc = "walk" /\ call[c].ans = "none"
    /\ \/ /\ bound' = bound \cup {call[c].b}
          /\ call' = [call EXCEPT ![c].ans = "ok"]
       \/ /\ call' = [call EXCEPT ![c].ans = "err"]
          /\ UNCHANGED bound
    /\ UNCHANGED <<fids, nextb, tasks, draining, leaked>>

\* PendingWalk::wait: the select is biased, a cancellation wins over an answer.
MutWalkCancelled(c) ==
    /\ call[c].pc = "walk" /\ call[c].cancel
    /\ Return(c)
    /\ UNCHANGED <<fids, nextb, bound, tasks, draining, leaked>>
WalkCancelled(c) ==
    /\ call[c].pc = "walk" /\ call[c].cancel
    /\ MoveTo(c, "close")
    /\ UNCHANGED <<fids, nextb, bound, tasks, draining, leaked>>

WalkAnswered(c) ==
    /\ call[c].pc = "walk" /\ ~call[c].cancel /\ call[c].ans # "none"
    /\ MoveTo(c, IF call[c].ans = "ok" THEN "publish" ELSE "retry")
    /\ UNCHANGED <<fids, nextb, bound, tasks, draining, leaked>>

\* The answer is published only over the walk's own reservation.
MutPublishWalk(c) ==
    /\ call[c].pc = "publish"
    /\ IF fids[call[c].f].kind = "walking"
       THEN /\ \E d \in BOOLEAN :
                  fids' = [fids EXCEPT ![call[c].f] = Published(call[c].b, d)]
            /\ Return(c)
       ELSE /\ MoveTo(c, "close")
            /\ UNCHANGED fids
    /\ UNCHANGED <<nextb, bound, tasks, draining, leaked>>
PublishWalk(c) ==
    /\ call[c].pc = "publish"
    /\ IF Owned(call[c].f, call[c].b)
       THEN /\ \E d \in BOOLEAN :
                  fids' = [fids EXCEPT ![call[c].f] = Published(call[c].b, d)]
            /\ Return(c)
       ELSE /\ MoveTo(c, "close")
            /\ UNCHANGED fids
    /\ UNCHANGED <<nextb, bound, tasks, draining, leaked>>

\* close_backing after a failed candidate (its clunk may run into the timeout),
\* then the next contributor, the synthetic check, or the end of the walk.
CloseBacking(c) ==
    /\ call[c].pc = "retry"
    /\ bound' = bound \ {call[c].b}
    /\ \E pc \in IF call[c].left > 0 THEN {"next"} ELSE {"synth", "close"} :
          MoveTo(c, pc)
    /\ UNCHANGED <<fids, nextb, tasks, draining, leaked>>

\* The reservation moves to the next contributor's backing fid.  When it is
\* gone the future returns, and dropping its PendingWalk spawns a cleanup.
NextCandidate(c) ==
    /\ call[c].pc = "next"
    /\ IF Owned(call[c].f, call[c].b)
       THEN /\ Allocate
            /\ fids' = [fids EXCEPT ![call[c].f] = Reserved(Fresh)]
            /\ call' = [call EXCEPT ![c] = [@ EXCEPT !.pc = "walk", !.b = Fresh,
                                            !.left = @ - 1, !.ans = "none"]]
            /\ UNCHANGED tasks
       ELSE /\ tasks' = tasks \cup
                  {[f |-> call[c].f, b |-> call[c].b, pc |-> "close"]}
            /\ Return(c)
            /\ UNCHANGED <<fids, nextb>>
    /\ UNCHANGED <<bound, draining, leaked>>

\* Every contributor failed but the path is a parent of a deeper mount.
PublishSynthetic(c) ==
    /\ call[c].pc = "synth"
    /\ IF Owned(call[c].f, call[c].b)
       THEN /\ fids' = [fids EXCEPT ![call[c].f] = Synthetic]
            /\ UNCHANGED tasks
       ELSE /\ tasks' = tasks \cup
                  {[f |-> call[c].f, b |-> call[c].b, pc |-> "close"]}
            /\ UNCHANGED fids
    /\ Return(c)
    /\ UNCHANGED <<nextb, bound, draining, leaked>>

\* cleanup, under the lock: give up the reservation if it is still this walk's.
Unreserve(f, b) ==
    fids' = IF Owned(f, b) THEN [fids EXCEPT ![f] = Free] ELSE fids

\* PendingWalk::close, run by the walk itself: first the table, then the clunk.
Close(c) ==
    /\ call[c].pc = "close"
    /\ Unreserve(call[c].f, call[c].b)
    /\ MoveTo(c, "release")
    /\ UNCHANGED <<nextb, bound, tasks, draining, leaked>>

Release(c) ==
    /\ call[c].pc = "release"
    /\ bound' = bound \ {call[c].b}
    /\ Return(c)
    /\ UNCHANGED <<fids, nextb, tasks, draining, leaked>>

\* CLEANUP_TIMEOUT while the backing clunk blocks.
ReleaseTimeout(c) ==
    /\ Aborts
    /\ call[c].pc = "release"
    /\ leaked' = leaked \cup ({call[c].b} \cap bound)
    /\ Return(c)
    /\ UNCHANGED <<fids, nextb, bound, tasks, draining>>

\* The same two steps run by a task that Drop for PendingWalk spawned.
TaskClose(t) ==
    /\ t.pc = "close"
    /\ Unreserve(t.f, t.b)
    /\ tasks' = (tasks \ {t}) \cup {[t EXCEPT !.pc = "release"]}
    /\ UNCHANGED <<nextb, bound, call, draining, leaked>>

TaskRelease(t) ==
    /\ t.pc = "release"
    /\ bound' = bound \ {t.b}
    /\ tasks' = tasks \ {t}
    /\ UNCHANGED <<fids, nextb, call, draining, leaked>>

TaskTimeout(t) ==
    /\ Aborts
    /\ t.pc = "release"
    /\ leaked' = leaked \cup ({t.b} \cap bound)
    /\ tasks' = tasks \ {t}
    /\ UNCHANGED <<fids, nextb, bound, call, draining>>

-----------------------------------------------------------------------------
(* create                                                                  *)

StartCreate(c, base, f) ==
    /\ call[c].pc = "idle"
    /\ fids[f].kind = "free"
    /\ fids[base].kind = "backing" /\ fids[base].dir
    /\ Allocate
    /\ fids' = [fids EXCEPT ![f] = CreateReserved]
    /\ Begin(c, "create", f, Fresh, 0)
    /\ UNCHANGED <<bound, tasks, draining, leaked>>

\* A read-only mount, or a tree that refuses, answers with an error.
BackingCreate(c) ==
    /\ call[c].pc = "create"
    /\ \/ bound' = bound \cup {call[c].b} /\ MoveTo(c, "insert")
       \/ UNCHANGED bound /\ MoveTo(c, "unreserve")
    /\ UNCHANGED <<fids, nextb, tasks, draining, leaked>>

CreateFailed(c) ==
    /\ call[c].pc = "unreserve"
    /\ fids' = [fids EXCEPT ![call[c].f] = Free]
    /\ Return(c)
    /\ UNCHANGED <<nextb, bound, tasks, draining, leaked>>

\* The test is only that some reservation is there; clunk_all may have taken it.
InsertCreated(c) ==
    /\ call[c].pc = "insert"
    /\ IF fids[call[c].f].kind \in {"creating", "walking"}
       THEN /\ \E d \in BOOLEAN :
                  fids' = [fids EXCEPT ![call[c].f] = Published(call[c].b, d)]
            /\ Return(c)
       ELSE /\ MoveTo(c, "discard")
            /\ UNCHANGED fids
    /\ UNCHANGED <<nextb, bound, tasks, draining, leaked>>

DiscardCreated(c) ==
    /\ call[c].pc = "discard"
    /\ bound' = bound \ {call[c].b}
    /\ Return(c)
    /\ UNCHANGED <<fids, nextb, tasks, draining, leaked>>

-----------------------------------------------------------------------------
(* clunk, remove, clunk_all                                                *)

\* The entry goes at once; a reserved walk is told through its cancel channel.
StartClunk(c, f) ==
    /\ call[c].pc = "idle"
    /\ fids[f].kind \in {"synthetic", "backing", "walking"}
    /\ fids' = [fids EXCEPT ![f] = Free]
    /\ call' = [d \in Callers |->
          CASE d = c /\ fids[f].b # NoBacking ->
                  [Idle EXCEPT !.pc = "clunk", !.f = f, !.b = fids[f].b]
            [] call[d].pc \in WalkPcs /\ Owned(f, call[d].b) /\ call[d].f = f ->
                  [call[d] EXCEPT !.cancel = TRUE]
            [] OTHER -> call[d]]
    /\ UNCHANGED <<nextb, bound, tasks, draining, leaked>>

BackingClunk(c) ==
    /\ call[c].pc = "clunk"
    /\ bound' = bound \ {call[c].b}
    /\ Return(c)
    /\ UNCHANGED <<fids, nextb, tasks, draining, leaked>>

\* remove drops the outer entry before it knows what the tree answers.
StartRemove(c, f) ==
    /\ call[c].pc = "idle"
    /\ Usable(f)
    /\ fids' = [fids EXCEPT ![f] = Free]
    /\ IF fids[f].b = NoBacking THEN UNCHANGED call
       ELSE Begin(c, "remove", f, fids[f].b, 0)
    /\ UNCHANGED <<nextb, bound, tasks, draining, leaked>>

\* On success the tree releases the fid; an error (a read-only mount, a tree
\* without remove) leaves it bound, and nothing clunks it.
BackingRemove(c) ==
    /\ call[c].pc = "remove"
    /\ \/ bound' = bound \ {call[c].b} /\ UNCHANGED leaked
       \/ leaked' = leaked \cup {call[c].b} /\ UNCHANGED bound
    /\ Return(c)
    /\ UNCHANGED <<fids, nextb, tasks, draining>>

\* clunk_all takes the whole table, root included; the cancel senders drop with
\* it, which a waiting walk sees as a cancellation.
ClunkAll ==
    /\ fids[Root].kind # "free"
    /\ fids' = [f \in Outer |-> Free]
    /\ draining' = {fids[f].b : f \in Outer} \ {NoBacking}
    /\ call' = [c \in Callers |->
          [call[c] EXCEPT !.cancel =
              @ \/ (call[c].pc \in WalkPcs /\ Owned(call[c].f, call[c].b))]]
    /\ UNCHANGED <<nextb, bound, tasks, leaked>>

ClunkAllNext(b) ==
    /\ draining' = draining \ {b}
    /\ bound' = bound \ {b}
    /\ UNCHANGED <<fids, nextb, call, tasks, leaked>>

-----------------------------------------------------------------------------
(* Forwarded operations and merged listings                                *)

\* open, read, write and stat take the backing fid under the lock and use it
\* after the lock is gone.
StartForward(c, f) ==
    /\ call[c].pc = "idle"
    /\ fids[f].kind = "backing"
    /\ Begin(c, "forward", f, fids[f].b, 0)
    /\ UNCHANGED <<fids, nextb, bound, tasks, draining, leaked>>

Forward(c) ==
    /\ call[c].pc = "forward"
    /\ Return(c)
    /\ UNCHANGED <<fids, nextb, bound, tasks, draining, leaked>>

\* A read of a directory with k contributors to merge.
StartListing(c, f, k) ==
    /\ call[c].pc = "idle"
    /\ fids[f].kind = "backing" /\ fids[f].dir
    /\ Allocate
    /\ Begin(c, "list", f, Fresh, k - 1)
    /\ UNCHANGED <<fids, bound, tasks, draining, leaked>>

\* Walk to one contributor: found, missing (on to the next one), or failed.
ListWalk(c) ==
    /\ call[c].pc = "list"
    /\ \/ /\ bound' = bound \cup {call[c].b}
          /\ MoveTo(c, "read")
          /\ UNCHANGED nextb
       \/ /\ call[c].left > 0 /\ Allocate
          /\ Begin(c, "list", call[c].f, Fresh, call[c].left - 1)
          /\ UNCHANGED bound
       \/ Return(c) /\ UNCHANGED <<nextb, bound>>
    /\ UNCHANGED <<fids, tasks, draining, leaked>>

\* Open and read to the end; the fid is clunked whatever came of it.
ListRead(c) ==
    /\ call[c].pc = "read"
    /\ MoveTo(c, "unlist")
    /\ UNCHANGED <<fids, nextb, bound, tasks, draining, leaked>>

ListClunk(c) ==
    /\ call[c].pc = "unlist"
    /\ bound' = bound \ {call[c].b}
    /\ \/ /\ call[c].left > 0 /\ Allocate
          /\ Begin(c, "list", call[c].f, Fresh, call[c].left - 1)
       \/ Return(c) /\ UNCHANGED nextb
    /\ UNCHANGED <<fids, tasks, draining, leaked>>

-----------------------------------------------------------------------------
\* A call's future is dropped at an await.  Only a walk has an owner whose Drop
\* cleans up; any other call takes the last reference to its backing fid along.
MutDropCall(c) ==
    /\ Aborts
    /\ call[c].pc # "idle"
    /\ leaked' = IF call[c].pc \in WalkPcs THEN leaked
                 ELSE leaked \cup ({call[c].b} \cap bound)
    /\ Return(c)
    /\ UNCHANGED <<fids, nextb, bound, tasks, draining>>
DropCall(c) ==
    /\ Aborts
    /\ call[c].pc # "idle"
    /\ IF call[c].pc \in WalkPcs
       THEN /\ tasks' = tasks \cup
                  {[f |-> call[c].f, b |-> call[c].b, pc |-> "close"]}
            /\ UNCHANGED leaked
       ELSE /\ leaked' = IF call[c].pc = "forward" THEN leaked
                         ELSE leaked \cup ({call[c].b} \cap bound)
            /\ UNCHANGED tasks
    /\ Return(c)
    /\ UNCHANGED <<fids, nextb, bound, draining>>

WalkStep(c) ==
    \/ WalkCancelled(c) \/ WalkAnswered(c) \/ PublishWalk(c) \/ CloseBacking(c)
    \/ NextCandidate(c) \/ PublishSynthetic(c) \/ Close(c) \/ Release(c)

OtherStep(c) ==
    \/ BackingCreate(c) \/ CreateFailed(c) \/ InsertCreated(c)
    \/ DiscardCreated(c) \/ BackingClunk(c) \/ BackingRemove(c) \/ Forward(c)
    \/ ListWalk(c) \/ ListRead(c) \/ ListClunk(c)

Start(c) ==
    \/ \E f \in Fids :
          \/ StartClunk(c, f) \/ StartRemove(c, f) \/ StartForward(c, f)
          \/ \E k \in 1..MaxCandidates : StartListing(c, f, k)
    \/ \E base \in Outer, f \in Fids :
          \/ StartSyntheticWalk(c, base, f)
          \/ \E k \in 1..MaxCandidates : StartWalk(c, base, f, k)
          \/ StartCreate(c, base, f)

MountNext ==
    \/ \E c \in Callers : \/ Start(c) \/ BackingWalk(c) \/ WalkStep(c)
                        \/ OtherStep(c) \/ ReleaseTimeout(c) \/ DropCall(c)
    \/ \E t \in tasks : TaskClose(t) \/ TaskRelease(t) \/ TaskTimeout(t)
    \/ ClunkAll
    \/ \E b \in draining : ClunkAllNext(b)

MountSpec == MountInit /\ [][MountNext]_mountVars

\* The runtime polls every call and task it was given.  Nothing is assumed of
\* BackingWalk: a tree may take for ever to answer a walk.
MountFairness ==
    /\ \A c \in Callers : WF_mountVars(WalkStep(c)) /\ WF_mountVars(OtherStep(c))
    /\ WF_mountVars(\E t \in tasks : TaskClose(t) \/ TaskRelease(t))
    /\ WF_mountVars(\E b \in draining : ClunkAllNext(b))

MountFairSpec == MountSpec /\ MountFairness

-----------------------------------------------------------------------------
(* Properties                                                              *)

\* A fid the caller may use leads to a backing fid that is still bound in its
\* tree, and to one no other fid leads to: a walk or a create that answers after
\* its outer fid was clunked, cancelled or given to another call never publishes,
\* and no late cleanup releases what another fid is using.
UsableIsBound ==
    \A f \in Fids : fids[f].kind = "backing" =>
        /\ fids[f].b \in bound
        /\ \A g \in Fids \ {f} : fids[g].b # fids[f].b

\* An operation forwarded after the table lock was released either still reaches
\* the node its fid named, or a fid nobody uses: a clunk and a later walk racing
\* with it never make it land on another fid's file.
ForwardHitsItsNode ==
    \A c \in Callers : call[c].pc = "forward" =>
        \A f \in Fids \ {call[c].f} : fids[f].b # call[c].b

Holds(c) == call[c].pc \in (WalkPcs \cup OtherPcs) \ {"forward"}
Owners(b) ==
    {f \in Outer : fids[f].b = b}
        \cup {c \in Callers : Holds(c) /\ call[c].b = b}
        \cup {t \in tasks : t.b = b}

\* Every backing fid bound in a tree has somebody who will release it: an entry,
\* a call, a cleanup task or clunk_all.  A walk loses its fid in no way but the
\* cleanup timeout, whether it is cancelled, dropped or overtaken.
BoundIsOwned ==
    \A b \in bound \ leaked : b \in draining \/ Owners(b) # {}

\* The three together: the table of fids and the trees never disagree.
FidsAreSound == UsableIsBound /\ ForwardHitsItsNode /\ BoundIsOwned

\* A backing fid whose outer fid was clunked, removed or abandoned is released in
\* the end, even when the tree never answers the walk that is being cancelled;
\* one a create has just bound becomes an entry instead.
Abandoned(b) == b \in bound \ leaked /\ \A f \in Outer : fids[f].b # b
AbandonedIsReleased == \A b \in Backings : Abandoned(b) ~> ~Abandoned(b)

\* mountfs.rs on clunk_all: it releases "every backing fid owned by this
\* namespace view", so that "connection lifetime and fid lifetime remain
\* identical".
ReleasedOnDisconnect ==
    (/\ fids[Root].kind = "free" /\ draining = {} /\ tasks = {}
     /\ \A c \in Callers : call[c].pc = "idle")
        => bound = {}
=============================================================================
