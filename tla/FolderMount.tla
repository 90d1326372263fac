---------------------------- MODULE FolderMount ----------------------------
(***************************************************************************)
(* A volume opened as a cleartext folder (volume/materialize.rs): its tree *)
(* is exported to `mnt/', where other programs edit it, imported again     *)
(* entry by entry when the folder is closed, sealed, and the folder is     *)
(* shredded.  A folder that is found at unlock is adopted as it is.        *)
(*                                                                         *)
(* The folder belongs to other programs: they may edit it while it is open *)
(* or left over, and while it is being imported.  Nobody edits it while it *)
(* is exported (it is handed out later) or shredded.  Sealing is one step; *)
(* how it can tear the brick is WorkingCopy's matter.  So is check-in.     *)
(* The marker `.bk-unsynced', which a failing Drop leaves and import_tree  *)
(* skips, is left out.                                                     *)
(***************************************************************************)
EXTENDS VolumeTree, FiniteSets

CONSTANTS
  Cut,        \* a file whose writing was cut short, or that was zeroed
  MaxNodes,   \* bound on the tree at the beginning
  MaxEdits,   \* bound on nodes at the beginning and edits, together
  MaxFaults   \* bound on I/O errors and crashes

ASSUME CutAssumption    == Cut \in Data
ASSUME BoundsAssumption ==
  MaxNodes \in Nat /\ MaxEdits \in Nat /\ MaxNodes <= MaxEdits /\ MaxFaults \in Nat

VARIABLES
  sealed,   \* the tree in the brick
  tree,     \* the tree in memory, while the volume is unlocked
  host,     \* the folder
  pc,       \* where the process that has unlocked the volume is
  seen,     \* the entries of the folder that this import has read
  want,     \* history: the tree as the programs found it and left it
  spoilt,   \* history: paths that an interrupted export or shredding got wrong
  missed,   \* history: paths that an import may have got wrong, since they were
            \* edited meanwhile or their directory could not be listed
  edits, faults

hist == <<want, spoilt, missed>>
folderVars == <<sealed, tree, host, pc, seen, want, spoilt, missed, edits, faults>>

FolderTypeOK ==
  /\ sealed \in Trees /\ tree \in Trees
  /\ host \in Trees /\ Treelike(host)
  /\ want \in Trees /\ Treelike(want)
  /\ pc \in {"locked", "open", "importing", "shredding"}
  /\ seen \subseteq Paths /\ spoilt \subseteq Paths /\ missed \subseteq Paths
  /\ edits \in 0 .. MaxEdits /\ faults \in 0 .. MaxFaults
  /\ pc # "importing" => seen = {}
  /\ \A p \in seen : Parent(p) \in seen \cup {Root} /\ Exists(tree, p)

Nodes(v) == {p \in Paths : Exists(v, p)}

\* What list finds, from the root downwards.  A node whose parent is a file, or
\* missing, is still in the map and hidden.
Listed(v)  == {p \in Nodes(v) : \A q \in Ancestors(p) : v[q] = Dir}
Hidden(v)  == Nodes(v) \ Listed(v)
Visible(v) ==
  LET listed == Listed(v)
  IN  [p \in Paths |-> IF p \in listed THEN v[p] ELSE None]

\* The part of a tree at the paths in P, a set that has the parents of its members.
Rooted(P)   == \A p \in P : Parent(p) \in P \cup {Root}
Part(v, P)  == [p \in Paths |-> IF p \in P THEN v[p] ELSE None]
CutAt(v, P) == [p \in Paths |-> IF p \in P THEN Cut ELSE v[p]]

Files(v) == {p \in Paths : IsFile(v, p)}

FolderInit ==
  /\ \E P \in {Q \in SUBSET Paths : IsFiniteSet(Q) /\ Cardinality(Q) <= MaxNodes} :
     \E v \in [P -> (Data \ {Cut}) \cup {Dir}] :
       /\ edits = Cardinality(P)
       /\ sealed = [p \in Paths |-> IF p \in P THEN v[p] ELSE None]
  /\ tree = Empty /\ host = Empty
  /\ pc = "locked"
  /\ seen = {}
  /\ want = Visible(sealed) /\ spoilt = {} /\ missed = {}
  /\ faults = 0

Go(from, to) == pc = from /\ pc' = to

Fault == faults < MaxFaults /\ faults' = faults + 1

\* Where the folder is not what the programs want of it.
Spoil(now) == spoilt' = spoilt \cup {p \in Paths : now[p] # want[p]}

\* A folder that was emptied is not told from one that was never filled.
Forgotten(now, wanted) ==
  LET filled == Visible(sealed)
  IN IF now = Empty THEN {p \in Paths : filled[p] # wanted[p]} ELSE {}

(***************************************************************************)
(* Unlocking.                                                              *)
(***************************************************************************)

\* MaterializedMount::open, export_tree.
Export ==
  /\ Go("locked", "open")
  /\ host = Empty
  /\ tree' = sealed
  /\ host' = Visible(sealed)
  /\ want' = host' /\ spoilt' = {} /\ missed' = {}
  /\ UNCHANGED <<sealed, seen, edits, faults>>

\* An error or a crash leaves what has been exported, the last file perhaps cut
\* short.
ExportStops ==
  /\ Go("locked", "locked")
  /\ Fault
  /\ host = Empty
  /\ \E done \in SUBSET Listed(sealed) :
       /\ Rooted(done)
       /\ \/ host' = Part(sealed, done)
          \/ \E p \in done \cap Files(sealed) : host' = CutAt(Part(sealed, done), {p})
  /\ IF host' = Empty THEN UNCHANGED spoilt ELSE Spoil(host')
  /\ UNCHANGED <<sealed, tree, seen, want, missed, edits>>

\* MaterializedMount::adopt.
Adopt ==
  /\ Go("locked", "open")
  /\ host # Empty
  /\ tree' = sealed
  /\ UNCHANGED <<sealed, host, seen, hist, edits, faults>>

(***************************************************************************)
(* The programs.                                                           *)
(***************************************************************************)

\* A file or a folder at p, or neither, and nothing below it.
Put(v, p, n) ==
  [q \in Paths |-> IF q = p THEN n ELSE IF q \in Below(p) THEN None ELSE v[q]]

\* A file is written or a folder made where there is none, or either is removed.
Edit(p, n) ==
  /\ pc \in {"open", "importing"} \/ (pc = "locked" /\ host # Empty)
  /\ edits < MaxEdits /\ edits' = edits + 1
  /\ IsDir(host, Parent(p))
  /\ n # host[p] /\ n # Cut
  /\ n \in Data => host[p] # Dir
  /\ n = Dir => host[p] = None
  /\ host' = Put(host, p, n)
  /\ want' = Put([q \in Paths |-> IF q \in Ancestors(p) THEN Dir ELSE want[q]], p, n)
  /\ LET touched == AtOrBelow(p) \cup Ancestors(p)
     IN /\ spoilt' = (spoilt \ touched)
                       \cup IF pc = "locked" THEN Forgotten(host', want') ELSE {}
        /\ missed' = IF pc = "importing" THEN missed \cup AtOrBelow(p) ELSE missed \ touched
  /\ UNCHANGED <<sealed, tree, pc, seen, faults>>

(***************************************************************************)
(* Closing.                                                                *)
(***************************************************************************)

\* MaterializedMount::close, or Drop.
Close ==
  /\ Go("open", "importing")
  /\ UNCHANGED <<sealed, tree, host, seen, hist, edits, faults>>

\* The directories that import_tree has gone into.
Entered == {Root} \cup {p \in seen : tree[p] = Dir}

\* One entry of a directory, a file or a directory to go into.
ImportEntry(p) ==
  /\ Go("importing", "importing")
  /\ Exists(host, p) /\ Parent(p) \in Entered /\ p \notin seen
  /\ \/ IsFile(host, p) /\ tree' = Write(tree, p, host[p])
     \/ host[p] = Dir /\ MkdirOk(tree, p) /\ tree' = Mkdir(tree, p)
  /\ seen' = seen \cup {p}
  /\ UNCHANGED <<sealed, host, hist, edits, faults>>

\* mkdir fails where the volume has a file: the folder stays open, and so does the
\* volume with what has been imported.
ImportRefused(p) ==
  /\ Go("importing", "open")
  /\ host[p] = Dir /\ Parent(p) \in Entered /\ p \notin seen
  /\ ~MkdirOk(tree, p)
  /\ seen' = {}
  /\ UNCHANGED <<sealed, tree, host, hist, edits, faults>>

ImportFails ==
  /\ Go("importing", "open")
  /\ Fault
  /\ seen' = {}
  /\ UNCHANGED <<sealed, tree, host, hist, edits>>

\* Mutant: import_tree leaves alone what it has not seen.
SweepNothing(stale) == tree' = tree

\* What import_tree has not seen in the directories it has gone into is removed
\* (remove_vpath) with what it lists below, children first.  It gives up at a
\* directory that has something hidden below, and nobody is told.
Sweep(stale) ==
  LET dirs   == Entered
      unseen == {p \in Nodes(tree) : Parent(p) \in dirs /\ p \notin seen \cup stale}
      listed == Listed(tree) \cap UNION {AtOrBelow(u) : u \in unseen}
      kept   == Nodes(tree) \ listed
      stuck  == {p \in listed : tree[p] = Dir /\ Below(p) \cap kept # {}}
      whole  == {u \in unseen : stuck \cap AtOrBelow(u) = {}}
      must   == listed \cap UNION {AtOrBelow(u) : u \in whole}
  IN \E more \in SUBSET (listed \ (must \cup stuck)) :
       LET gone == must \cup more
       IN /\ \A p \in more : Below(p) \cap listed \subseteq gone
          /\ tree' = Part(tree, Paths \ gone)

\* All that was there has been read; of what was edited meanwhile, a new entry may
\* be missed and a removed one be taken to be there still.  Then Volume::sync.
Seal ==
  /\ Go("importing", "shredding")
  /\ \A p \in Nodes(host) : Parent(p) \in Entered => p \in seen \cup missed
  /\ \E stale \in SUBSET {p \in missed \cap Nodes(tree) : ~Exists(host, p) /\ Parent(p) \in Entered} :
       Sweep(stale)
  /\ sealed' = tree' /\ seen' = {}
  /\ UNCHANGED <<host, hist, edits, faults>>

\* The listing of a directory fails, and nobody is told: at once, and nothing in it
\* is looked at, or half-way, and what has not been read is taken for removed.
SealBlind(d) ==
  /\ Go("importing", "shredding")
  /\ Fault
  /\ d \in Entered
  /\ \A p \in Nodes(host) : Parent(p) \in Entered \ {d} => p \in seen \cup missed
  /\ LET entries == {p \in Paths : Parent(p) = d}
     IN /\ \/ Sweep({})
           \/ entries \cap seen = {} /\ Sweep(entries)
        /\ missed' = missed \cup UNION {AtOrBelow(p) : p \in entries \ seen}
  /\ sealed' = tree' /\ seen' = {}
  /\ UNCHANGED <<host, want, spoilt, edits>>

\* shred_dir: every file is zeroed, then everything is removed.
Shred ==
  /\ Go("shredding", "locked")
  /\ host' = Empty /\ tree' = Empty
  /\ UNCHANGED <<sealed, seen, hist, edits, faults>>

\* An error, which nobody is told of, or a crash at either.
ShredStops ==
  /\ Go("shredding", "locked")
  /\ Fault
  /\ \/ \E zeroed \in SUBSET Files(host) : host' = CutAt(host, zeroed)
     \/ \E left \in SUBSET Nodes(host) :
          Rooted(left) /\ host' = Part(CutAt(host, Files(host)), left)
  /\ tree' = Empty
  /\ IF host' = Empty THEN UNCHANGED spoilt ELSE Spoil(host')
  /\ UNCHANGED <<sealed, seen, want, missed, edits>>

Crash ==
  /\ pc \in {"open", "importing"} /\ pc' = "locked"
  /\ Fault
  /\ tree' = Empty /\ seen' = {}
  /\ spoilt' = spoilt \cup Forgotten(host, want)
  /\ UNCHANGED <<sealed, host, want, missed, edits>>

FolderNext ==
  \/ Export \/ ExportStops \/ Adopt
  \/ \E p \in Paths, n \in Data \cup {Dir, None} : Edit(p, n)
  \/ Close
  \/ \E p \in Paths : ImportEntry(p) \/ ImportRefused(p)
  \/ ImportFails \/ Seal \/ (\E d \in Paths \cup {Root} : SealBlind(d))
  \/ Shred \/ ShredStops \/ Crash

FolderSpec == FolderInit /\ [][FolderNext]_folderVars

(***************************************************************************)
(* Properties.                                                             *)
(***************************************************************************)

\* A directory that import_tree may have been unable to remove, or what is below one.
Sticky(p) ==
  \E u \in Listed(sealed) :
    p \in AtOrBelow(u) /\ sealed[u] = Dir /\ Below(u) \cap Hidden(sealed) # {}

\* Once a folder is sealed, and until it is exported again, the volume has what the
\* programs left in it, path by path: only what was edited while it was imported,
\* what an interrupted export or shredding had cut short or lost, and what a folder
\* that a file took the place of keeps from being removed is excused.
SealedIsWanted ==
  LET found == Visible(sealed)
  IN pc = "shredding" \/ (pc = "locked" /\ host = Empty) =>
       \A p \in Paths \ (spoilt \cup missed) : found[p] = want[p] \/ Sticky(p)

\* The trees are trees of paths throughout, and what is sealed is what is wanted.
ClosesFaithfully == FolderTypeOK /\ SealedIsWanted

=============================================================================
