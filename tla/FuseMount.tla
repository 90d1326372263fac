----------------------------- MODULE FuseMount -----------------------------
(***************************************************************************)
(* A mounted volume (crates/blindkey-fuse): the kernel addresses files by  *)
(* inode numbers, the volume by paths, and VolumeFs translates with an     *)
(* inode table that it updates after each operation.                       *)
(*                                                                         *)
(* The kernel is external.  It names what it has looked up, walks only     *)
(* through directories, creates only where nothing is, replaces a file by  *)
(* a file and a directory by a directory only, and moves nothing into or   *)
(* onto itself; whether a directory to be replaced is empty it leaves to   *)
(* the file system.  A program that has a file open goes on using its      *)
(* inode number, whatever happens to its name.                             *)
(*                                                                         *)
(* A file is its identity, given when it is created; its bytes are left    *)
(* out.                                                                    *)
(***************************************************************************)
EXTENDS VolumeTree

CONSTANT MaxIno   \* bound on inode numbers

ASSUME InoAssumption == MaxIno \in Nat \ {0}

RootIno == 1
Ino     == 1 .. MaxIno

Closed == "closed"   \* what a number reaches that is not open,
Lost   == "lost"     \* and one whose file is gone

ASSUME NoneAssumption  == None \notin Ino \cup Paths \cup {Root}
ASSUME ReachAssumption == Closed \notin Data /\ Lost \notin Data

VARIABLES
  vfs,      \* the tree
  byIno,    \* InodeTable: the path of each number,
  byPath,   \* the number of each path,
  next,     \* and the number to be given out next
  live,     \* numbers by which the kernel knows something with a name
  open,     \* numbers that a program has open
  means,    \* history: the file or directory each number was given out for
  broken    \* history: a rename has replaced something

table == <<byIno, byPath, next, means>>
vars  == <<vfs, byIno, byPath, next, live, open, means, broken>>

TypeOK ==
  /\ vfs \in Trees
  /\ byIno \in [Ino -> Paths \cup {Root, None}]
  /\ byPath \in [Paths -> Ino \cup {None}]
  /\ next \in 2 .. MaxIno + 1
  /\ live \subseteq Ino /\ open \subseteq Ino
  /\ means \in [Ino -> Data \cup {Dir, None}]
  /\ \A i \in Ino : i >= next => byIno[i] = None /\ i \notin live \cup open
  /\ broken \in BOOLEAN

\* InodeTable::new.
NewByIno  == [i \in Ino |-> IF i = RootIno THEN Root ELSE None]
NewByPath == [p \in Paths |-> None]
NewMeans  == [i \in Ino |-> IF i = RootIno THEN Dir ELSE None]

Init ==
  /\ vfs = Empty
  /\ byIno = NewByIno /\ byPath = NewByPath /\ next = RootIno + 1 /\ means = NewMeans
  /\ live = {RootIno} /\ open = {}
  /\ broken = FALSE

\* The path the kernel means by a name in a directory it knows.
Entry(i, p) == i \in live /\ means[i] = Dir /\ byIno[i] # None /\ byIno[i] = Parent(p)

\* InodeTable::intern, for a path that leads to node.
Intern(p, node) ==
  IF byPath[p] # None
  THEN UNCHANGED table /\ live' = live \cup {byPath[p]}
  ELSE /\ next \in Ino
       /\ byIno' = [byIno EXCEPT ![next] = p]
       /\ byPath' = [byPath EXCEPT ![p] = next]
       /\ means' = [means EXCEPT ![next] = node]
       /\ next' = next + 1
       /\ live' = live \cup {next}

\* InodeTable::forget_path.
Forget(p) ==
  /\ byPath' = [byPath EXCEPT ![p] = None]
  /\ byIno' = [i \in Ino |-> IF byPath[p] = i THEN None ELSE byIno[i]]
  /\ live' = live \ {byPath[p]}
  /\ UNCHANGED <<next, means>>

(***************************************************************************)
(* What the kernel calls.                                                  *)
(***************************************************************************)

\* lookup, and readdir of one entry.
Lookup(i, p) ==
  /\ Entry(i, p)
  /\ Exists(vfs, p)
  /\ Intern(p, vfs[p])
  /\ UNCHANGED <<vfs, open, broken>>

OpenFile(i) ==
  /\ i \in live /\ means[i] \in Data
  /\ open' = open \cup {i}
  /\ UNCHANGED <<vfs, table, live, broken>>

\* release; the sync it does leaves the tree as it is.
CloseFile(i) ==
  /\ i \in open
  /\ open' = open \ {i}
  /\ UNCHANGED <<vfs, table, live, broken>>

\* write: read the whole file, or nothing if that fails, and write it back.
WriteFile(i) ==
  /\ i \in open /\ byIno[i] # None
  /\ vfs' = Write(vfs, byIno[i], IF IsFile(vfs, byIno[i]) THEN vfs[byIno[i]] ELSE means[i])
  /\ UNCHANGED <<table, live, open, broken>>

\* A new file is not one that is still there, or that someone has open.
Create(i, p) ==
  /\ Entry(i, p)
  /\ ~Exists(vfs, p) /\ ~Blocked(vfs, p)
  /\ \E d \in Data :
       /\ \A q \in Paths : vfs[q] # d
       /\ \A j \in open : means[j] # d
       /\ vfs' = Write(vfs, p, d)
       /\ Intern(p, d)
  /\ open' = open \cup {byPath'[p]}
  /\ UNCHANGED broken

MakeDirectory(i, p) ==
  /\ Entry(i, p)
  /\ ~Exists(vfs, p) /\ MkdirOk(vfs, p)
  /\ vfs' = Mkdir(vfs, p)
  /\ Intern(p, Dir)
  /\ UNCHANGED <<open, broken>>

RemoveFile(i, p) ==
  /\ Entry(i, p) /\ byPath[p] \in live
  /\ UnlinkOk(vfs, p)
  /\ vfs' = Unlink(vfs, p)
  /\ Forget(p)
  /\ UNCHANGED <<open, broken>>

\* Mutant: rmdir does not look for children.
RemoveDirectoryUnchecked(i, p) ==
  /\ Entry(i, p) /\ byPath[p] \in live
  /\ vfs[p] = Dir
  /\ vfs' = Rmdir(vfs, p)
  /\ Forget(p)
  /\ UNCHANGED <<open, broken>>

RemoveDirectory(i, p) ==
  /\ Entry(i, p) /\ byPath[p] \in live
  /\ RmdirOk(vfs, p)
  /\ vfs' = Rmdir(vfs, p)
  /\ Forget(p)
  /\ UNCHANGED <<open, broken>>

\* What the kernel lets through to rename.
MayMove(from, to) ==
  /\ Exists(vfs, from) /\ byPath[from] \in live
  /\ ~IsPrefix(from, to) /\ ~IsPrefix(to, from)
  /\ \/ ~Exists(vfs, to)
     \/ byPath[to] \in live /\ (IsFile(vfs, from) <=> IsFile(vfs, to))

\* Mutant: rename_subtree re-points the entry itself and nothing below it.
RenameEntry(from, to) ==
  /\ byIno' = [i \in Ino |-> IF byIno[i] = from THEN to ELSE byIno[i]]
  /\ byPath' = [byPath EXCEPT ![from] = None, ![to] = byPath[from]]
  /\ UNCHANGED <<next, means>>

\* InodeTable::rename_subtree, in any order: of several numbers for one path the
\* last one is found by it.
RenameSubtree(from, to) ==
  LET moves == {i \in Ino : byIno[i] # None /\ IsPrefix(from, byIno[i])}
      came  == [i \in moves |-> Moved(byIno[i], from, to)]
  IN /\ \A i \in moves : came[i] \in Paths
     /\ byIno' = [i \in Ino |-> IF i \in moves THEN came[i] ELSE byIno[i]]
     /\ \E last \in [{came[i] : i \in moves} -> moves] :
          /\ \A p \in DOMAIN last : came[last[p]] = p
          /\ byPath' = [p \in Paths |->
               IF p \in DOMAIN last THEN last[p]
               ELSE IF \E i \in moves : byIno[i] = p THEN None ELSE byPath[p]]
     /\ UNCHANGED <<next, means>>

Move(i, from, j, to) ==
  /\ Entry(i, from) /\ Entry(j, to)
  /\ MayMove(from, to)
  /\ RenameOk(vfs, from, to)
  /\ \A q \in Subtree(vfs, from) : Moved(q, from, to) \in Paths
  /\ vfs' = Rename(vfs, from, to)
  /\ RenameSubtree(from, to)
  /\ live' = live \ {byPath[to]}
  /\ broken' = (broken \/ Exists(vfs, to))
  /\ UNCHANGED open

\* Unmounted, sealed, and mounted again with a new table: decode_inodes gives
\* the tree that collect_inodes took.
Remount ==
  /\ byIno' = NewByIno /\ byPath' = NewByPath /\ next' = RootIno + 1 /\ means' = NewMeans
  /\ live' = {RootIno} /\ open' = {}
  /\ UNCHANGED <<vfs, broken>>

Next ==
  \/ \E i \in Ino, p \in Paths :
       \/ Lookup(i, p) \/ Create(i, p) \/ MakeDirectory(i, p)
       \/ RemoveFile(i, p) \/ RemoveDirectory(i, p)
  \/ \E i, j \in Ino, from, to \in Paths : Move(i, from, j, to)
  \/ \E i \in Ino : OpenFile(i) \/ CloseFile(i) \/ WriteFile(i)
  \/ Remount

Spec == Init /\ [][Next]_vars

(***************************************************************************)
(* Properties.                                                             *)
(***************************************************************************)

\* The file that an open number reads and writes.
Reach(i) ==
  IF i \notin open THEN Closed
  ELSE IF byIno[i] \in Paths /\ IsFile(vfs, byIno[i]) THEN vfs[byIno[i]]
  ELSE Lost

\* Whatever is in the volume is in a directory, and so can be found, until a rename
\* replaces something.
TreeWhole == broken \/ Treelike(vfs)

\* Tree and inode table are as they should be: what no number of the table can
\* undo, and no name hide.
Consistent == TypeOK /\ TreeWhole

\* Until then the mount is a file system: an open file is read and written where it
\* is, wherever it is moved and whatever takes its name, and nothing is removed but
\* what was asked for.
Posix == INSTANCE PosixTree WITH tree <- vfs, reach <- [i \in Ino |-> Reach(i)],
                                 Handle <- Ino

ImplementsPosix == Posix!Spec

=============================================================================
