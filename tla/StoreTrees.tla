---------------------------- MODULE StoreTrees ------------------------------
(***************************************************************************)
(* The trees that keep files: memory files, directories of the host, and the*)
(* content-addressed store they and the Agents keep contents in.           *)
(***************************************************************************)
EXTENDS Naturals, Sequences, FiniteSets

-----------------------------------------------------------------------------
(***************************************************************************)
(* Memory files over the content-addressed store (crates/memfs).  A file   *)
(* is a name bound to a checkpoint root; a write is buffered in its fid    *)
(* and committed when the fid is clunked.  Removing a file unbinds its     *)
(* root and keeps the blocks, so a checkpoint can be bound again later.    *)
(*                                                                         *)
(* A content is its own hash; Empty is the content of a created file.      *)
(* `born` is history: which creation or restoration of the name the file,  *)
(* and the file a fid was walked to, stem from.                            *)
(***************************************************************************)

CONSTANTS Fids, Names, Contents, Empty, None, MaxBirths, MaxCommits

VARIABLES store, files, nextGeneration, births, memFids, commits

memVars == <<store, files, nextGeneration, births, memFids, commits>>

MemInit == /\ store = {}
           /\ files = [n \in Names |-> None]
           /\ nextGeneration = 1
           /\ births = 0
           /\ memFids = [f \in Fids |-> None]
           /\ commits = 0

At(n, generation, born) == [name |-> n, generation |-> generation, born |-> born,
                            open |-> FALSE, doc |-> None]

MemWalk(f, n) == /\ memFids[f] = None /\ files[n] # None
                 /\ memFids' = [memFids EXCEPT ![f] = At(n, files[n].generation, files[n].born)]
                 /\ UNCHANGED <<store, files, nextGeneration, births, commits>>

\* Opening asks only that a file of that name exists.
MemOpen(f) == /\ memFids[f] # None /\ ~memFids[f].open /\ files[memFids[f].name] # None
              /\ memFids' = [memFids EXCEPT ![f].open = TRUE]
              /\ UNCHANGED <<store, files, nextGeneration, births, commits>>

MemWrite(f, doc) == /\ memFids[f] # None /\ memFids[f].open
                    /\ memFids' = [memFids EXCEPT ![f].doc = doc]
                    /\ UNCHANGED <<store, files, nextGeneration, births, commits>>

\* put_file_at_generation and bind_file_root
Put(n, content, generation, born) ==
  /\ store' = store \cup {content}
  /\ files' = [files EXCEPT ![n] = [root |-> content, generation |-> generation, born |-> born]]

MemCreate(f, n) == /\ memFids[f] = None /\ files[n] = None /\ births < MaxBirths
                   /\ Put(n, Empty, nextGeneration, births + 1)
                   /\ nextGeneration' = nextGeneration + 1
                   /\ births' = births + 1
                   /\ memFids' = [memFids EXCEPT ![f] = At(n, nextGeneration, births + 1)]
                   /\ UNCHANGED commits

\* restore_checkpoint: a generation is used up even when the store does not
\* know the root.
Restore(n, root) ==
  /\ births < MaxBirths
  /\ nextGeneration' = nextGeneration + 1
  /\ births' = births + 1
  /\ IF root \in store THEN Put(n, root, nextGeneration, births + 1) ELSE UNCHANGED <<store, files>>
  /\ UNCHANGED <<memFids, commits>>

\* A removal through a fid takes whatever file has the name now.
MemRemove(f) == /\ memFids[f] # None /\ files[memFids[f].name] # None
                /\ files' = [files EXCEPT ![memFids[f].name] = None]
                /\ memFids' = [memFids EXCEPT ![f] = None]
                /\ UNCHANGED <<store, nextGeneration, births, commits>>

\* Mutant: the generation is not compared with the one the fid was walked to.
MutSameGeneration(fid) == files[fid.name] # None

\* put_existing_file
SameGeneration(fid) == files[fid.name] # None /\ files[fid.name].generation = fid.generation

Clunk(f) == /\ memFids[f] # None
            /\ IF memFids[f].doc = None \/ ~SameGeneration(memFids[f])
               THEN UNCHANGED <<store, files, commits>>
               ELSE /\ commits < MaxCommits
                    /\ commits' = commits + 1
                    /\ Put(memFids[f].name, memFids[f].doc, memFids[f].generation, files[memFids[f].name].born)
            /\ memFids' = [memFids EXCEPT ![f] = None]
            /\ UNCHANGED <<nextGeneration, births>>

MemNext == \/ \E f \in Fids : \/ \E n \in Names : MemWalk(f, n) \/ MemCreate(f, n)
                              \/ MemOpen(f) \/ MemRemove(f) \/ Clunk(f)
                              \/ \E doc \in Contents : MemWrite(f, doc)
           \/ \E n \in Names, root \in Contents \cup {Empty} : Restore(n, root)

MemSpec == MemInit /\ [][MemNext]_memVars

\* A buffered write reaches a file only if it is the one the fid was walked to,
\* never a file created or restored under the name since (put_existing_file);
\* and every file's content is in the store, so it can be read.
SavesReachTheirFile ==
  /\ \A f \in Fids :
       (memFids[f] # None /\ memFids'[f] = None /\ commits' # commits) =>
         files[memFids[f].name] # None /\ files[memFids[f].name].born = memFids[f].born
  /\ \A n \in Names : files'[n] # None => files'[n].root \in store'

-----------------------------------------------------------------------------
(***************************************************************************)
(* A host directory served as files (crates/hostfs).  A save is buffered   *)
(* in its fid and committed when the fid is clunked, by checking that the  *)
(* file is still the one that was opened, writing a temporary file beside  *)
(* it and renaming that over it.  The commit holds the server's lock, but  *)
(* other programs of the host change the directory meanwhile, between any  *)
(* two system calls.  The export can be revoked at any time.               *)
(*                                                                         *)
(* One directory of names is modelled.  An entry has a kind, whether it is *)
(* linked more than once, and an identity (device, inode, time and length) *)
(* that is fresh after every change; `by` is history: who wrote it.        *)
(***************************************************************************)

CONSTANTS Writable, MaxChanges 

VARIABLES dir, temp, changes, active, hostFids, commit

hostVars == <<dir, temp, changes, active, hostFids, commit>>

Kinds == {"file", "dir", "symlink"}

Entry(kind, linked, by) == [kind |-> kind, linked |-> linked, id |-> changes + 1, by |-> by]

HostInit == /\ dir \in [Names -> {None, [kind |-> "file", linked |-> FALSE, id |-> 0, by |-> "host"]}]
            /\ temp = FALSE /\ changes = 0 /\ active = TRUE
            /\ hostFids = [f \in Fids |-> None]
            /\ commit = None

Free == commit = None
HostLive == Free /\ active
Tick == changes < MaxChanges /\ changes' = changes + 1

\* Another program of the host: it writes, replaces, links or deletes an entry.
HostChange(n) == /\ Tick
                 /\ \E e \in {None} \cup {Entry(k, l, "host") : k \in Kinds, l \in BOOLEAN} :
                      dir' = [dir EXCEPT ![n] = e]
                 /\ UNCHANGED <<temp, active, hostFids, commit>>

\* A symlink can be walked to only where it may be removed.
HostWalk(f, n) == /\ HostLive /\ hostFids[f] = None /\ dir[n] # None
                  /\ dir[n].kind = "symlink" => Writable
                  /\ hostFids' = [hostFids EXCEPT ![f] = [name |-> n, open |-> FALSE, id |-> None, wrote |-> FALSE]]
                  /\ UNCHANGED <<dir, temp, changes, active, commit>>

\* open for writing, and read-write: the identity of the file is kept.
HostOpen(f) == /\ HostLive /\ Writable /\ hostFids[f] # None /\ ~hostFids[f].open
               /\ LET e == dir[hostFids[f].name]
                  IN /\ e # None /\ e.kind = "file" /\ ~e.linked
                     /\ hostFids' = [hostFids EXCEPT ![f].open = TRUE, ![f].id = e.id]
               /\ UNCHANGED <<dir, temp, changes, active, commit>>

HostWrite(f) == /\ HostLive /\ hostFids[f] # None /\ hostFids[f].open
                /\ dir[hostFids[f].name] # None /\ dir[hostFids[f].name].kind = "file"
                /\ hostFids' = [hostFids EXCEPT ![f].wrote = TRUE]
                /\ UNCHANGED <<dir, temp, changes, active, commit>>

HostCreate(f, n, kind) == /\ HostLive /\ Writable /\ hostFids[f] = None /\ dir[n] = None
                          /\ Tick
                          /\ dir' = [dir EXCEPT ![n] = Entry(kind, FALSE, "alan")]
                          /\ hostFids' = [hostFids EXCEPT ![f] = [name |-> n, open |-> FALSE, id |-> None, wrote |-> FALSE]]
                          /\ UNCHANGED <<temp, active, commit>>

\* remove_entry: whatever has the name now.
HostRemove(f) == /\ HostLive /\ Writable /\ hostFids[f] # None /\ dir[hostFids[f].name] # None
                 /\ dir' = [dir EXCEPT ![hostFids[f].name] = None]
                 /\ hostFids' = [hostFids EXCEPT ![f] = None]
                 /\ UNCHANGED <<temp, changes, active, commit>>

ClunkIdle(f) == /\ HostLive /\ hostFids[f] # None /\ ~hostFids[f].wrote
                /\ hostFids' = [hostFids EXCEPT ![f] = None]
                /\ UNCHANGED <<dir, temp, changes, active, commit>>

\* Mutant: the file is not compared with the one that was opened.
MutSameFile(fid) == dir[fid.name] # None /\ dir[fid.name].kind = "file" /\ ~dir[fid.name].linked

\* The checks of atomic_replace_file.
SameFile(fid) == /\ dir[fid.name] # None /\ dir[fid.name].kind = "file" /\ ~dir[fid.name].linked
                 /\ dir[fid.name].id = fid.id

\* The clunk of a written fid takes the lock and removes the fid; a failed
\* check ends it.
Check(f) == /\ HostLive /\ hostFids[f] # None /\ hostFids[f].wrote
            /\ hostFids' = [hostFids EXCEPT ![f] = None]
            /\ commit' = IF SameFile(hostFids[f]) THEN [fid |-> hostFids[f], pc |-> "temp"] ELSE None
            /\ UNCHANGED <<dir, temp, changes, active>>

\* create_replacement_temp_file, and the write of the buffer; a failure unlinks
\* the temporary file again.
MakeTemp == /\ commit # None /\ commit.pc = "temp"
            /\ \/ temp' = TRUE /\ commit' = [commit EXCEPT !.pc = "rename"]
               \/ UNCHANGED temp /\ commit' = None
            /\ UNCHANGED <<dir, changes, active, hostFids>>

\* The rename fails over a directory, or for a reason of the host's.
Rename == /\ commit # None /\ commit.pc = "rename"
          /\ LET n == commit.fid.name
             IN \/ /\ dir[n] # None => dir[n].kind # "dir"
                   /\ Tick
                   /\ dir' = [dir EXCEPT ![n] = Entry("file", FALSE, "alan")]
                \/ UNCHANGED <<dir, changes>>
          /\ temp' = FALSE /\ commit' = None
          /\ UNCHANGED <<active, hostFids>>

\* Mutant: the export is marked revoked without waiting for the lock.
MutRevoke == /\ active
             /\ active' = FALSE
             /\ hostFids' = [f \in Fids |-> None]
             /\ UNCHANGED <<dir, temp, changes, commit>>

Revoke == /\ Free /\ active
          /\ active' = FALSE
          /\ hostFids' = [f \in Fids |-> None]
          /\ UNCHANGED <<dir, temp, changes, commit>>

HostNext == \/ \E n \in Names : HostChange(n)
            \/ \E f \in Fids : \/ \E n \in Names : \/ HostWalk(f, n)
                                                   \/ \E kind \in {"file", "dir"} : HostCreate(f, n, kind)
                               \/ HostOpen(f) \/ HostWrite(f) \/ HostRemove(f) \/ ClunkIdle(f) \/ Check(f)
            \/ MakeTemp \/ Rename \/ Revoke

HostSpec == HostInit /\ [][HostNext]_hostVars

\* A save never overwrites another save it has not seen, whatever the programs
\* of the host do between its system calls (the identity check of
\* atomic_replace_file, under the lock).
SavesAreNotLost ==
  (commit # None /\ commit.pc = "rename" /\ commit' = None /\ dir' # dir)
    => LET e == dir[commit.fid.name]
       IN e # None => (e.by = "alan" => e.id = commit.fid.id)

\* Once revoke has returned, nothing the export does reaches the directory, and
\* it has left no temporary file there (HostDirFs::revoke).
RevokedIsFinal ==
  ~active => /\ ~temp'
             /\ \A n \in Names : (dir'[n] # dir[n] /\ dir'[n] # None) => dir'[n].by = "host"

-----------------------------------------------------------------------------
(***************************************************************************)
(* The content-addressed store (crates/knowledge).  Blocks and nodes are   *)
(* kept under the hash of their bytes.  A node is a sequence of entries,   *)
(* each a block or an earlier node; a fork starts with its base node.      *)
(* Roots are bound to names or pinned; garbage collection keeps what they  *)
(* reach.                                                                  *)
(*                                                                         *)
(* A hash is the thing hashed: no two contents collide, and a stored       *)
(* content cannot differ from its hash.  A node is [base, blocks] with     *)
(* base None for a checkpoint.                                             *)
(***************************************************************************)

CONSTANTS Bytes, MaxNodes, MaxBlocks

VARIABLES blocks, nodes, roots, pinned

knowledgeVars == <<blocks, nodes, roots, pinned>>

KnowledgeInit == /\ blocks = {} /\ nodes = {} /\ pinned = {}
                 /\ roots = [n \in Names |-> None]

Suffixes == UNION {[1..k -> Bytes] : k \in 1..MaxBlocks}
Blocks(s) == {s[i] : i \in 1..Len(s)}

Room == Cardinality(nodes) < MaxNodes

\* put_block
PutBlock(b) == blocks' = blocks \cup {b} /\ UNCHANGED <<nodes, roots, pinned>>

\* checkpoint_from_blocks and fork_append_blocks, which want their blocks stored
CheckpointFromBlocks(s) == /\ Room /\ Blocks(s) \subseteq blocks
                           /\ nodes' = nodes \cup {[base |-> None, blocks |-> s]}
                           /\ UNCHANGED <<blocks, roots, pinned>>
ForkAppendBlocks(base, s) == /\ base \in nodes /\ Room
                             /\ Blocks(s) \subseteq blocks
                             /\ nodes' = nodes \cup {[base |-> base, blocks |-> s]}
                             /\ UNCHANGED <<blocks, roots, pinned>>

\* checkpoint_from_bytes and fork_append_bytes, which store their blocks first.
\* (A fork of a base that is gone leaves its blocks, as PutBlock does.)
CheckpointFromBytes(s) == /\ Room
                          /\ blocks' = blocks \cup Blocks(s)
                          /\ nodes' = nodes \cup {[base |-> None, blocks |-> s]}
                          /\ UNCHANGED <<roots, pinned>>
ForkAppendBytes(base, s) == /\ base \in nodes /\ Room
                            /\ blocks' = blocks \cup Blocks(s)
                            /\ nodes' = nodes \cup {[base |-> base, blocks |-> s]}
                            /\ UNCHANGED <<roots, pinned>>

BindRoot(n, root) == /\ root \in nodes
                     /\ roots' = [roots EXCEPT ![n] = root]
                     /\ UNCHANGED <<blocks, nodes, pinned>>

UnbindRoot(n) == /\ roots[n] # None
                 /\ roots' = [roots EXCEPT ![n] = None]
                 /\ UNCHANGED <<blocks, nodes, pinned>>

PinRoot(root) == root \in nodes /\ pinned' = pinned \cup {root} /\ UNCHANGED <<blocks, nodes, roots>>
UnpinRoot(root) == root \in pinned /\ pinned' = pinned \ {root} /\ UNCHANGED <<blocks, nodes, roots>>

Live == {roots[n] : n \in {k \in Names : roots[k] # None}} \cup pinned

\* Mutant: the base of a fork is not followed.
MutReachable == Live

\* mark_reachable: the roots, their bases, the bases of those.
Reach[k \in Nat] ==
  IF k = 0 THEN Live
  ELSE Reach[k - 1] \cup {node.base : node \in {m \in Reach[k - 1] \cap nodes : m.base # None}}
Reachable == Reach[MaxNodes]

CollectGarbage == /\ nodes' = nodes \cap Reachable
                  /\ blocks' = blocks \cap UNION {Blocks(node.blocks) : node \in nodes \cap Reachable}
                  /\ UNCHANGED <<roots, pinned>>

KnowledgeNext == \/ \E b \in Bytes : PutBlock(b)
                 \/ \E s \in Suffixes : \/ CheckpointFromBlocks(s) \/ CheckpointFromBytes(s)
                                        \/ \E base \in nodes : ForkAppendBlocks(base, s) \/ ForkAppendBytes(base, s)
                 \/ \E n \in Names : UnbindRoot(n) \/ \E root \in nodes : BindRoot(n, root)
                 \/ \E root \in nodes : PinRoot(root)
                 \/ \E root \in pinned : UnpinRoot(root)
                 \/ CollectGarbage

KnowledgeSpec == KnowledgeInit /\ [][KnowledgeNext]_knowledgeVars

\* verify_node and materialize_node succeed: everything below a node is stored.
Whole(root) == LET RECURSIVE Below(_)
                   Below(node) == /\ node \in nodes
                                  /\ Blocks(node.blocks) \subseteq blocks
                                  /\ node.base # None => Below(node.base)
               IN Below(root)

\* Whatever is forked, bound, pinned and collected, in any order, a root that is
\* bound or pinned can be read to its last block (mark_reachable and
\* collect_garbage), and so can every node that is still stored.
StoredRootsAreWhole == /\ Live \subseteq nodes
                       /\ \A root \in nodes : Whole(root)
=============================================================================
