----------------------------- MODULE PosixTree -----------------------------
(***************************************************************************)
(* What a program expects of a file system: a tree of files, each of which *)
(* keeps its identity when it is moved, and handles that reach the file    *)
(* they were opened on for as long as it is in the tree, and no other.     *)
(***************************************************************************)
EXTENDS VolumeTree

CONSTANTS
  Handle,   \* names of handles
  Closed,   \* a handle that is not open
  Lost      \* what a handle reaches when its file is gone

VARIABLES
  tree,     \* the tree; a file is its identity
  reach,    \* per handle: the file that reading and writing get to
  broken    \* the promise is off

Init == Treelike(tree) /\ reach = [h \in Handle |-> Closed] /\ ~broken

\* The files that go leave their handles without one.
Lose(files) == reach' = [h \in Handle |-> IF reach[h] \in files THEN Lost ELSE reach[h]]

Free(p) == ~Exists(tree, p) /\ IsDir(tree, Parent(p))

MakeDir ==
  /\ \E p \in Paths : Free(p) /\ tree' = [tree EXCEPT ![p] = Dir]
  /\ UNCHANGED reach

\* A new file is opened at once.
MakeFile ==
  \E p \in Paths, h \in Handle, d \in Data :
    /\ Free(p) /\ reach[h] = Closed
    /\ \A q \in Paths : tree[q] # d
    /\ \A g \in Handle : reach[g] # d
    /\ tree' = [tree EXCEPT ![p] = d]
    /\ reach' = [reach EXCEPT ![h] = d]

Delete ==
  \E p \in Paths :
    /\ Exists(tree, p) /\ \A q \in Below(p) : ~Exists(tree, q)
    /\ tree' = [tree EXCEPT ![p] = None]
    /\ Lose({tree[p]} \cap Data)

\* A file replaces at most a file, a directory at most an empty one.
Move ==
  \E from, to \in Paths :
    /\ ~IsPrefix(from, to) /\ ~IsPrefix(to, from)
    /\ Exists(tree, from) /\ IsDir(tree, Parent(to))
    /\ IF IsFile(tree, from) THEN tree[to] # Dir
       ELSE ~IsFile(tree, to) /\ \A q \in Below(to) : ~Exists(tree, q)
    /\ \A q \in Subtree(tree, from) : Moved(q, from, to) \in Paths
    /\ tree' = [q \in Paths |->
                  IF IsPrefix(to, q)
                  THEN IF Moved(q, to, from) \in Paths THEN tree[Moved(q, to, from)] ELSE None
                  ELSE IF IsPrefix(from, q) THEN None ELSE tree[q]]
    /\ Lose({tree[to]} \cap Data)

Open ==
  /\ \E p \in Paths, h \in Handle :
       IsFile(tree, p) /\ reach[h] = Closed /\ reach' = [reach EXCEPT ![h] = tree[p]]
  /\ UNCHANGED tree

\* One handle, or all of them when the volume is unmounted.
Close ==
  /\ \E H \in SUBSET Handle : reach' = [h \in Handle |-> IF h \in H THEN Closed ELSE reach[h]]
  /\ UNCHANGED tree

Next == MakeDir \/ MakeFile \/ Delete \/ Move \/ Open \/ Close

Spec == Init /\ [][broken' \/ Next]_<<tree, reach>>

=============================================================================
