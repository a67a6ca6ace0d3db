------------------------------ MODULE MCNaming ------------------------------
(***************************************************************************)
(* The process table, the mount table of a process, and the /srv device,   *)
(* side by side.  They share no state here, so a behaviour moves only the  *)
(* one it starts with: the run explores the sum of their states and not the*)
(* product.                                                                *)
(***************************************************************************)
EXTENDS ProcFs, Namespace

CONSTANTS x

VARIABLES moves

\* One mount path, and exec documents of several generations and rights over it.
MCMountPaths == {x}
Doc(g, a, ds, bad) == [gen |-> g, mounts |-> [y \in MCMountPaths |-> a], descs |-> ds, badFd |-> bad]
MCWritten ==
    {Doc(0, 1, {x}, FALSE), Doc(1, 2, {}, FALSE), Doc(0, 0, {x}, FALSE)}

\* Paths of a mount table.
MCPaths == {<<>>, <<"a">>, <<"a", "t">>}

MCInit ==
    /\ moves \in {"processes", "namespace", "srv"}
    /\ Init
    /\ moves = "processes" \/ \A h \in Handles, y \in MountPaths : hns[h][y] = 0
    /\ NamespaceInit
    /\ SrvInit

ProcessesOnly == moves = "processes" /\ UNCHANGED <<moves, namespaceVars, srvVars>>
NamespaceOnly == moves = "namespace" /\ UNCHANGED <<moves, vars, srvVars>>
SrvOnly == moves = "srv" /\ UNCHANGED <<moves, vars, namespaceVars>>

ProcessesMoves == ProcessesOnly /\ Next
NamespaceMoves == NamespaceOnly /\ NamespaceNext
SrvMoves == SrvOnly /\ SrvNext

MCNext == ProcessesMoves \/ NamespaceMoves \/ SrvMoves

mcVars == <<moves, vars, namespaceVars, srvVars>>

MCSpec == MCInit /\ [][MCNext]_mcVars

=============================================================================
