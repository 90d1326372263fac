----------------------------- MODULE VolumeTree -----------------------------
(***************************************************************************)
(* The tree of an unlocked volume (Vfs of volume/fs.rs): a map from paths  *)
(* to nodes, with no links between them.  The operations of Volume as      *)
(* operators on such a map, each for the calls that succeed and, where     *)
(* there is one, with what a failing call leaves behind.                   *)
(***************************************************************************)
EXTENDS Naturals, SequencesExt

CONSTANTS
  Name,   \* names of files and directories
  Depth,  \* bound on the length of a path
  Data,   \* what a file is
  Dir,    \* a directory
  None    \* no node

ASSUME DepthAssumption == Depth \in Nat \ {0}
ASSUME NodeAssumption  == Dir # None /\ Dir \notin Data /\ None \notin Data

\* Normalised paths but the root, which is the empty one and not in the map.
Root  == <<>>
Paths == SeqOf(Name, Depth) \ {Root}
Trees == [Paths -> Data \cup {Dir, None}]

Empty == [p \in Paths |-> None]

Parent(p)    == Front(p)
AncestorsOf  == [p \in Paths |-> {q \in Paths : IsStrictPrefix(q, p)}]
BelowOf      == [p \in Paths |-> {q \in Paths : IsStrictPrefix(p, q)}]
Ancestors(p) == AncestorsOf[p]
Below(p)     == BelowOf[p]
AtOrBelow(p) == {p} \cup Below(p)

IsFile(v, p)   == v[p] \in Data
IsDir(v, p)    == p # Root => v[p] = Dir
Exists(v, p)   == v[p] # None

\* A tree: whatever is in the map is in a directory.
Treelike(v) == \A p \in Paths : Exists(v, p) => IsDir(v, Parent(p))

\* ensure_parents stops at the first ancestor that is a file, and leaves the
\* directories above it that it has made.
Blocked(v, p) == \E q \in Ancestors(p) : IsFile(v, q)
EnsureParents(v, p) ==
  [q \in Paths |-> IF q \in Ancestors(p) /\ ~Exists(v, q) /\ ~Blocked(v, q)
                   THEN Dir ELSE v[q]]

\* Volume::write does not look at what is at p, be it a directory.
Write(v, p, d) ==
  IF Blocked(v, p) THEN EnsureParents(v, p) ELSE [EnsureParents(v, p) EXCEPT ![p] = d]

MkdirOk(v, p) == ~IsFile(v, p) /\ ~Blocked(v, p)
Mkdir(v, p)   == [EnsureParents(v, p) EXCEPT ![p] = Dir]

UnlinkOk(v, p) == IsFile(v, p)
Unlink(v, p)   == [v EXCEPT ![p] = None]

RmdirOk(v, p) == v[p] = Dir /\ \A q \in Below(p) : ~Exists(v, q)
Rmdir(v, p)   == [v EXCEPT ![p] = None]

\* Where a path in the subtree of `from' goes, and where one in that of `to'
\* comes from.
Moved(p, from, to) == to \o SubSeq(p, Len(from) + 1, Len(p))
Subtree(v, p)      == {q \in Paths : IsPrefix(p, q) /\ Exists(v, q)}

\* Volume::rename, for two paths neither of which is in the other: what is in the
\* way of a moved node is replaced, and what is not stays.
RenameOk(v, from, to) == Exists(v, from) /\ ~Blocked(v, to)
Rename(v, from, to) ==
  LET kept   == EnsureParents(v, to)
      source == {q \in Subtree(v, from) : Moved(q, from, to) \in Paths}
  IN [q \in Paths |->
        IF \E s \in source : q = Moved(s, from, to) THEN v[Moved(q, to, from)]
        ELSE IF IsPrefix(from, q) THEN None ELSE kept[q]]

=============================================================================
