---------------------------- MODULE MCProcesses -----------------------------
(***************************************************************************)
(* The end of one process, the delivery of its events, and the fids of the *)
(* namespace view it sees, side by side.  They share no state here, so a   *)
(* behaviour moves only the one it starts with: the run explores the sum of*)
(* their states and not the product.                                       *)
(***************************************************************************)
EXTENDS ProcLife, MountFs

VARIABLE moves

MCInit ==
    /\ moves \in {"life", "events", "mounts"}
    /\ LifeInit
    /\ EventsInit
    /\ MountInit

LifeOnly == moves = "life" /\ UNCHANGED <<moves, eventsVars, mountVars>>
EventsOnly == moves = "events" /\ UNCHANGED <<moves, lifeVars, mountVars>>
MountsOnly == moves = "mounts" /\ UNCHANGED <<moves, lifeVars, eventsVars>>

LifeMoves == LifeOnly /\ LifeNext
EventsMoves == EventsOnly /\ EventsNext
MountsMoves == MountsOnly /\ MountNext

MCNext == LifeMoves \/ EventsMoves \/ MountsMoves

mcVars == <<moves, lifeVars, eventsVars, mountVars>>

MCFairness ==
    /\ WF_mcVars(\/ EventsOnly /\ EventsProgress
                 \/ MountsOnly /\ \E t \in tasks : TaskClose(t) \/ TaskRelease(t))
    /\ WF_mcVars(MountsOnly /\ \E b \in draining : ClunkAllNext(b))
    /\ \A c \in Callers : /\ WF_mcVars(MountsOnly /\ WalkStep(c))
                          /\ WF_mcVars(MountsOnly /\ OtherStep(c))

MCSpec == MCInit /\ [][MCNext]_mcVars /\ MCFairness

\* ProcLife and MountFs: every event reaches every registered observer, and a
\* backing fid nobody can name any more is released (EventuallyTold and
\* AbandonedIsReleased of the modules; the events of a run are finitely many, so
\* observers that are told again and again are told for good).
DeliveredAndReleased ==
    \A b \in 1..MaxBacking :
        (\/ moves = "events" /\ ~EverybodyTold
         \/ moves = "mounts" /\ Abandoned(b))
        ~> (\/ moves = "events" /\ EverybodyTold
            \/ moves = "mounts" /\ ~Abandoned(b))
=============================================================================
