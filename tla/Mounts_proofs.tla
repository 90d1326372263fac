--------------------------- MODULE Mounts_proofs ---------------------------
(***************************************************************************)
(* Proofs about the two ways a volume is mounted, for every set of names   *)
(* and files and every depth.  FuseMount, for every number of inodes: tree *)
(* and inode table stay as they should be, and the mount implements        *)
(* PosixTree until a rename replaces something.  FolderMount, for every    *)
(* number of edits, crashes and I/O errors: closing the folder is faithful *)
(* to what the programs left in it.                                        *)
(***************************************************************************)
EXTENDS FuseMount, FolderMount, FiniteSetTheorems, SequenceTheorems, TLAPS

-----------------------------------------------------------------------------
(* Paths: prefixes of one another, and what moves with a directory *)

LEMMA PathIs ==
  ASSUME NEW p
  PROVE  p \in Paths <=> p \in Seq(Name) /\ Len(p) \in 1..Depth
  <1>1. Depth \in Nat
    BY DepthAssumption
  <1>2. ASSUME p \in Paths PROVE p \in Seq(Name) /\ Len(p) \in 1..Depth
    <2>1. PICK n \in 0..Depth : p \in [1..n -> Name] /\ p # << >>
      BY <1>2 DEF Paths, SeqOf, Root
    <2>2. p \in Seq(Name)
      BY <1>1, <2>1, SeqDef
    <2>3. Len(p) \in Nat /\ Len(p) # 0
      BY <2>1, <2>2, EmptySeq
    <2>4. Len(p) = n
      BY <1>1, <2>1, <2>2, LenProperties
    <2> QED
      BY <1>1, <2>2, <2>3, <2>4
  <1>3. ASSUME p \in Seq(Name), Len(p) \in 1..Depth PROVE p \in Paths
    <2>1. p \in [1..Len(p) -> Name] /\ Len(p) \in 0..Depth
      BY <1>1, <1>3, LenProperties
    <2>2. p # << >>
      BY <1>1, <1>3, EmptySeq
    <2> QED
      BY <2>1, <2>2 DEF Paths, SeqOf, Root
  <1> QED
    BY <1>2, <1>3

LEMMA RootIs == Root \in Seq(Name) /\ Len(Root) = 0 /\ Root \notin Paths
  BY EmptySeq DEF Root, Paths

LEMMA PrefixIs ==
  ASSUME NEW s \in Seq(Name), NEW t \in Seq(Name)
  PROVE  IsPrefix(s, t) <=> Len(s) <= Len(t) /\ \A i \in 1..Len(s) : s[i] = t[i]
  <1>1. Len(s) \in Nat /\ Len(t) \in Nat
    BY LenProperties
  <1>2. /\ \A i \in 1..Len(s) : s[i] \in Name
        /\ \A i \in 1..Len(t) : t[i] \in Name
    BY ElementOfSeq
  <1> SUFFICES ASSUME Len(s) <= Len(t)
               PROVE  SubSeq(s, 1, Len(s)) = SubSeq(t, 1, Len(s))
                         <=> \A i \in 1..Len(s) : s[i] = t[i]
    BY DEF IsPrefix
  <1> DEFINE a == SubSeq(s, 1, Len(s))
             b == SubSeq(t, 1, Len(s))
  <1>3. /\ a \in Seq(Name) /\ Len(a) = Len(s)
        /\ \A i \in 1..Len(s) : a[i] = s[i]
    <2>1. a = s
      BY SubSeqFull
    <2> QED
      BY <2>1
  <1>4. /\ b \in Seq(Name) /\ Len(b) = Len(s)
        /\ \A i \in 1..Len(s) : b[i] = t[i]
    <2>1. \A i \in 1..Len(s) : t[i] \in Name
      BY <1>1, <1>2
    <2>2. 1 \in Int /\ Len(s) \in Int
      BY <1>1
    <2>3. /\ b \in Seq(Name) /\ Len(b) = IF 1 <= Len(s) THEN Len(s) - 1 + 1 ELSE 0
          /\ \A i \in 1..Len(s) - 1 + 1 : b[i] = t[1 + i - 1]
      BY <2>1, <2>2, SubSeqProperties
    <2> HIDE DEF b
    <2> QED
      BY <1>1, <2>3
  <1>5. a = b => \A i \in 1..Len(s) : s[i] = t[i]
    BY <1>3, <1>4
  <1>6. (\A i \in 1..Len(s) : s[i] = t[i]) => a = b
    <2> HIDE DEF a, b
    <2> QED
      BY <1>3, <1>4, SeqEqual
  <1> QED
    BY <1>5, <1>6

LEMMA PrefixRefl == ASSUME NEW s \in Seq(Name) PROVE IsPrefix(s, s)
  BY PrefixIs, LenProperties

LEMMA PrefixTrans ==
  ASSUME NEW r \in Seq(Name), NEW s \in Seq(Name), NEW t \in Seq(Name),
         IsPrefix(r, s), IsPrefix(s, t)
  PROVE  IsPrefix(r, t)
  <1>1. Len(r) \in Nat /\ Len(s) \in Nat /\ Len(t) \in Nat
    BY LenProperties
  <1>2. /\ Len(r) <= Len(s) /\ \A i \in 1..Len(r) : r[i] = s[i]
        /\ Len(s) <= Len(t) /\ \A i \in 1..Len(s) : s[i] = t[i]
    BY PrefixIs
  <1>3. Len(r) <= Len(t) /\ \A i \in 1..Len(r) : r[i] = t[i]
    BY <1>1, <1>2
  <1> QED
    BY <1>3, PrefixIs

LEMMA PrefixAntisym ==
  ASSUME NEW s \in Seq(Name), NEW t \in Seq(Name), IsPrefix(s, t), IsPrefix(t, s)
  PROVE  s = t
  <1>1. Len(s) \in Nat /\ Len(t) \in Nat
    BY LenProperties
  <1>2. Len(s) <= Len(t) /\ Len(t) <= Len(s) /\ \A i \in 1..Len(s) : s[i] = t[i]
    BY PrefixIs
  <1>3. Len(s) = Len(t)
    BY <1>1, <1>2
  <1> QED
    BY <1>2, <1>3, SeqEqual

\* Two prefixes of one path: one is a prefix of the other.
LEMMA PrefixesLinear ==
  ASSUME NEW r \in Seq(Name), NEW s \in Seq(Name), NEW t \in Seq(Name),
         IsPrefix(r, t), IsPrefix(s, t)
  PROVE  IsPrefix(r, s) \/ IsPrefix(s, r)
  <1>1. Len(r) \in Nat /\ Len(s) \in Nat /\ Len(t) \in Nat
    BY LenProperties
  <1>2. /\ Len(r) <= Len(t) /\ \A i \in 1..Len(r) : r[i] = t[i]
        /\ Len(s) <= Len(t) /\ \A i \in 1..Len(s) : s[i] = t[i]
    BY PrefixIs
  <1>3. CASE Len(r) <= Len(s)
    <2>1. \A i \in 1..Len(r) : r[i] = s[i]
      BY <1>1, <1>2, <1>3
    <2> QED
      BY <2>1, <1>3, PrefixIs
  <1>4. CASE Len(s) <= Len(r)
    <2>1. \A i \in 1..Len(s) : s[i] = r[i]
      BY <1>1, <1>2, <1>4
    <2> QED
      BY <2>1, <1>4, PrefixIs
  <1> QED
    BY <1>1, <1>3, <1>4

LEMMA MovedIs ==
  ASSUME NEW p \in Seq(Name), NEW f \in Seq(Name), NEW t \in Seq(Name), IsPrefix(f, p)
  PROVE  /\ Moved(p, f, t) \in Seq(Name)
         /\ Len(Moved(p, f, t)) = Len(t) + Len(p) - Len(f)
         /\ \A i \in 1..Len(t) : Moved(p, f, t)[i] = t[i]
         /\ \A i \in Len(t) + 1 .. Len(t) + Len(p) - Len(f) :
               Moved(p, f, t)[i] = p[i - Len(t) + Len(f)]
  <1>1. Len(p) \in Nat /\ Len(f) \in Nat /\ Len(t) \in Nat /\ Len(f) <= Len(p)
    BY LenProperties, PrefixIs
  <1> DEFINE s == SubSeq(p, Len(f) + 1, Len(p))
  <1>2. /\ s \in Seq(Name) /\ Len(s) = Len(p) - Len(f)
        /\ \A i \in 1..Len(p) - Len(f) : s[i] = p[Len(f) + i]
    <2>1. \A i \in Len(f) + 1 .. Len(p) : p[i] \in Name
      BY <1>1, ElementOfSeq
    <2>2. Len(f) + 1 \in Int /\ Len(p) \in Int
      BY <1>1
    <2>3. /\ s \in Seq(Name)
          /\ Len(s) = IF Len(f) + 1 <= Len(p) THEN Len(p) - (Len(f) + 1) + 1 ELSE 0
          /\ \A i \in 1..Len(p) - (Len(f) + 1) + 1 : s[i] = p[(Len(f) + 1) + i - 1]
      BY <2>1, <2>2, SubSeqProperties
    <2> HIDE DEF s
    <2> QED
      BY <1>1, <2>3
  <1> HIDE DEF s
  <1>3. Moved(p, f, t) = t \o s
    BY DEF Moved, s
  <1>4. /\ t \o s \in Seq(Name) /\ Len(t \o s) = Len(t) + Len(s)
        /\ \A i \in 1..Len(t) + Len(s) : (t \o s)[i] = IF i <= Len(t) THEN t[i] ELSE s[i - Len(t)]
    <2>1. s \in Seq(Name)
      BY <1>2
    <2> QED
      BY <2>1, ConcatProperties, Zenon
  <1> DEFINE m == t \o s
  <1> HIDE DEF m
  <1>5. /\ m \in Seq(Name) /\ Len(m) = Len(t) + Len(s)
        /\ \A i \in 1..Len(t) + Len(s) : m[i] = IF i <= Len(t) THEN t[i] ELSE s[i - Len(t)]
    BY <1>4, Zenon DEF m
  <1>6. \A i \in 1..Len(t) : m[i] = t[i]
    <2> TAKE i \in 1..Len(t)
    <2>1. i \in 1..Len(t) + Len(s) /\ i <= Len(t)
      BY <1>1, <1>2
    <2> QED
      BY <1>5, <2>1
  <1>7. \A i \in Len(t) + 1 .. Len(t) + Len(p) - Len(f) : m[i] = p[i - Len(t) + Len(f)]
    <2> TAKE i \in Len(t) + 1 .. Len(t) + Len(p) - Len(f)
    <2>1. i \in 1..Len(t) + Len(s) /\ ~(i <= Len(t)) /\ i - Len(t) \in 1..Len(p) - Len(f)
          /\ Len(f) + (i - Len(t)) = i - Len(t) + Len(f)
      BY <1>1, <1>2
    <2> QED
      BY <2>1, <1>2, <1>5
  <1> QED
    BY <1>2, <1>3, <1>5, <1>6, <1>7, <1>1 DEF m

LEMMA MovedPrefix ==
  ASSUME NEW p \in Seq(Name), NEW q \in Seq(Name), NEW f \in Seq(Name), NEW t \in Seq(Name),
         IsPrefix(f, q), IsPrefix(q, p)
  PROVE  IsPrefix(Moved(q, f, t), Moved(p, f, t))
  <1>1. IsPrefix(f, p)
    BY PrefixTrans
  <1>2. /\ Len(p) \in Nat /\ Len(q) \in Nat /\ Len(f) \in Nat /\ Len(t) \in Nat
        /\ Len(f) <= Len(q) /\ Len(q) <= Len(p) /\ \A i \in 1..Len(q) : q[i] = p[i]
    BY LenProperties, PrefixIs
  <1> DEFINE m == Moved(q, f, t)
             n == Moved(p, f, t)
  <1>3. /\ m \in Seq(Name) /\ Len(m) = Len(t) + Len(q) - Len(f)
        /\ \A i \in 1..Len(t) : m[i] = t[i]
        /\ \A i \in Len(t) + 1 .. Len(t) + Len(q) - Len(f) : m[i] = q[i - Len(t) + Len(f)]
    BY MovedIs
  <1>4. /\ n \in Seq(Name) /\ Len(n) = Len(t) + Len(p) - Len(f)
        /\ \A i \in 1..Len(t) : n[i] = t[i]
        /\ \A i \in Len(t) + 1 .. Len(t) + Len(p) - Len(f) : n[i] = p[i - Len(t) + Len(f)]
    BY <1>1, MovedIs
  <1> HIDE DEF m, n
  <1>5. \A i \in 1..Len(m) : m[i] = n[i]
    <2> TAKE i \in 1..Len(m)
    <2>1. CASE i <= Len(t)
      <3>1. i \in 1..Len(t)
        BY <1>2, <1>3, <2>1
      <3> QED
        BY <1>3, <1>4, <3>1
    <2>2. CASE ~(i <= Len(t))
      <3> DEFINE k == i - Len(t) + Len(f)
      <3>1. /\ i \in Len(t) + 1 .. Len(t) + Len(q) - Len(f)
            /\ i \in Len(t) + 1 .. Len(t) + Len(p) - Len(f)
            /\ k \in 1..Len(q)
        BY <1>2, <1>3, <2>2
      <3>2. m[i] = q[k] /\ n[i] = p[k]
        BY <1>3, <1>4, <3>1
      <3> HIDE DEF k
      <3> QED
        BY <1>2, <3>1, <3>2
    <2> QED
      BY <2>1, <2>2
  <1>6. Len(m) <= Len(n)
    BY <1>2, <1>3, <1>4
  <1> QED
    BY <1>3, <1>4, <1>5, <1>6, PrefixIs DEF m, n

LEMMA MovedBack ==
  ASSUME NEW p \in Seq(Name), NEW f \in Seq(Name), NEW t \in Seq(Name), IsPrefix(f, p)
  PROVE  IsPrefix(t, Moved(p, f, t)) /\ Moved(Moved(p, f, t), t, f) = p
  <1> DEFINE m == Moved(p, f, t)
             n == Moved(m, t, f)
  <1>1. /\ Len(p) \in Nat /\ Len(f) \in Nat /\ Len(t) \in Nat
        /\ Len(f) <= Len(p) /\ \A i \in 1..Len(f) : f[i] = p[i]
    BY LenProperties, PrefixIs
  <1>2. /\ m \in Seq(Name) /\ Len(m) = Len(t) + Len(p) - Len(f)
        /\ \A i \in 1..Len(t) : m[i] = t[i]
        /\ \A i \in Len(t) + 1 .. Len(t) + Len(p) - Len(f) : m[i] = p[i - Len(t) + Len(f)]
    BY MovedIs
  <1> HIDE DEF m
  <1>3. IsPrefix(t, m)
    <2>1. Len(t) <= Len(m) /\ \A i \in 1..Len(t) : t[i] = m[i]
      BY <1>1, <1>2
    <2> QED
      BY <1>2, <2>1, PrefixIs
  <1>4. /\ n \in Seq(Name) /\ Len(n) = Len(f) + Len(m) - Len(t)
        /\ \A i \in 1..Len(f) : n[i] = f[i]
        /\ \A i \in Len(f) + 1 .. Len(f) + Len(m) - Len(t) : n[i] = m[i - Len(f) + Len(t)]
    <2>1. m \in Seq(Name)
      BY <1>2
    <2> QED
      BY <2>1, <1>3, MovedIs, Zenon
  <1> HIDE DEF n
  <1>5. Len(n) = Len(p)
    BY <1>1, <1>2, <1>4
  <1>6. \A i \in 1..Len(n) : n[i] = p[i]
    <2> TAKE i \in 1..Len(n)
    <2>1. CASE i <= Len(f)
      <3>1. i \in 1..Len(f)
        BY <1>1, <1>5, <2>1
      <3> QED
        BY <1>1, <1>4, <3>1
    <2>2. CASE ~(i <= Len(f))
      <3> DEFINE k == i - Len(f) + Len(t)
      <3>1. /\ i \in Len(f) + 1 .. Len(f) + Len(m) - Len(t)
            /\ k \in Len(t) + 1 .. Len(t) + Len(p) - Len(f)
            /\ k - Len(t) + Len(f) = i
        BY <1>1, <1>2, <1>5, <2>2
      <3>2. n[i] = m[k]
        BY <1>4, <3>1
      <3> HIDE DEF k
      <3> QED
        BY <1>2, <3>1, <3>2
    <2> QED
      BY <2>1, <2>2
  <1>7. n = p
    BY <1>4, <1>5, <1>6, SeqEqual
  <1> QED
    BY <1>3, <1>7 DEF m, n

LEMMA AncestorIs ==
  ASSUME NEW p \in Paths
  PROVE  /\ Ancestors(p) = {q \in Paths : IsPrefix(q, p) /\ q # p}
         /\ Below(p) = {q \in Paths : IsPrefix(p, q) /\ p # q}
  BY DEF Ancestors, AncestorsOf, Below, BelowOf, IsStrictPrefix

LEMMA ParentIs ==
  ASSUME NEW p \in Paths
  PROVE  /\ Parent(p) \in Paths \cup {Root}
         /\ Parent(p) # p
         /\ Parent(p) \in Paths => Parent(p) \in Ancestors(p)
         /\ \A q \in Ancestors(p) : Parent(p) \in Paths /\ (q = Parent(p) \/ q \in Ancestors(Parent(p)))
  <1> DEFINE u == Parent(p)
             n == Len(p)
  <1>1. p \in Seq(Name) /\ n \in 1..Depth /\ Depth \in Nat
    BY PathIs, DepthAssumption
  <1>0. 1 \in Int /\ n - 1 \in Int
    <2>1. n \in Nat
      BY <1>1, LenProperties
    <2> HIDE DEF n
    <2> QED
      BY <2>1
  <1>2. /\ u \in Seq(Name) /\ Len(u) = n - 1
        /\ \A i \in 1..n - 1 : u[i] = p[i]
    <2>1. \A i \in 1..n - 1 : p[i] \in Name
      BY <1>1, ElementOfSeq
    <2>2. u = SubSeq(p, 1, n - 1)
      BY DEF Parent, Front
    <2> HIDE DEF u
    <2>3. /\ u \in Seq(Name) /\ Len(u) = IF 1 <= n - 1 THEN (n - 1) - 1 + 1 ELSE 0
          /\ \A i \in 1..(n - 1) - 1 + 1 : u[i] = p[1 + i - 1]
      BY <1>0, <2>1, <2>2, SubSeqProperties
    <2>4. n \in Nat \ {0}
      BY <1>1
    <2> HIDE DEF n
    <2>5. Len(u) = n - 1
      BY <2>3, <2>4
    <2>6. \A i \in 1..n - 1 : u[i] = p[i]
      <3> TAKE i \in 1..n - 1
      <3>1. i \in 1..(n - 1) - 1 + 1 /\ 1 + i - 1 = i
        BY <2>4
      <3> QED
        BY <2>3, <3>1
    <2> QED
      BY <2>3, <2>5, <2>6
  <1> HIDE DEF u
  <1>3. u \in Paths \cup {Root}
    <2>1. CASE n = 1
      <3>1. Len(u) = 0
        BY <1>2, <2>1
      <3> QED
        BY <1>2, <3>1, EmptySeq DEF Root
    <2>2. CASE n # 1
      <3>1. Len(u) \in 1..Depth
        BY <1>1, <1>2, <2>2
      <3> QED
        BY <1>2, <3>1, PathIs
    <2> QED
      BY <2>1, <2>2
  <1>4. IsPrefix(u, p) /\ u # p
    BY <1>1, <1>2, PrefixIs
  <1>5. u \in Paths => u \in Ancestors(p)
    BY <1>4, AncestorIs
  <1>6. ASSUME NEW q \in Ancestors(p) PROVE u \in Paths /\ (q = u \/ q \in Ancestors(u))
    <2>1. q \in Paths /\ q \in Seq(Name) /\ Len(q) \in 1..Depth /\ IsPrefix(q, p) /\ q # p
      BY AncestorIs, PathIs
    <2>2. Len(q) <= n /\ \A i \in 1..Len(q) : q[i] = p[i]
      BY <1>1, <2>1, PrefixIs
    <2>3. Len(q) # n
      BY <1>1, <2>1, <2>2, SeqEqual
    <2>4. Len(q) <= Len(u) /\ \A i \in 1..Len(q) : q[i] = u[i]
      BY <1>1, <1>2, <2>1, <2>2, <2>3
    <2>5. IsPrefix(q, u)
      BY <1>2, <2>1, <2>4, PrefixIs
    <2>6. Len(u) \in 1..Depth
      BY <1>1, <1>2, <2>1, <2>4
    <2>7. u \in Paths
      BY <1>2, <2>6, PathIs
    <2> QED
      BY <2>1, <2>5, <2>7, AncestorIs
  <1> QED
    BY <1>3, <1>4, <1>5, <1>6 DEF u

\* What lies on the way to a path that has moved: what lies on the way to the
\* place it moved to, or what has moved with it.
LEMMA AncestorOfMoved ==
  ASSUME NEW p \in Paths, NEW f \in Paths, NEW t \in Paths, IsPrefix(f, p),
         Moved(p, f, t) \in Paths, NEW r \in Ancestors(Moved(p, f, t))
  PROVE  \/ r \in Ancestors(t)
         \/ \E s \in Paths : IsPrefix(f, s) /\ s \in Ancestors(p) /\ r = Moved(s, f, t)
  <1> DEFINE m == Moved(p, f, t)
             s == Moved(r, t, f)
  <1>1. p \in Seq(Name) /\ f \in Seq(Name) /\ t \in Seq(Name) /\ m \in Seq(Name)
    BY PathIs
  <1>2. r \in Paths /\ IsPrefix(r, m) /\ r # m /\ r \in Seq(Name)
    BY AncestorIs, PathIs
  <1>3. IsPrefix(t, m) /\ Moved(m, t, f) = p
    BY <1>1, MovedBack
  <1>4. IsPrefix(r, t) \/ IsPrefix(t, r)
    BY <1>1, <1>2, <1>3, PrefixesLinear
  <1>5. CASE IsPrefix(t, r)
    <2>1. s \in Seq(Name) /\ IsPrefix(f, s) /\ Moved(s, f, t) = r
      BY <1>1, <1>2, <1>5, MovedIs, MovedBack
    <2>2. IsPrefix(s, p)
      BY <1>1, <1>2, <1>3, <1>5, MovedPrefix
    <2>3. s # p
      BY <1>2, <2>1
    <2>4. Len(s) <= Len(p) /\ Len(f) <= Len(s)
      BY <1>1, <2>1, <2>2, PrefixIs
    <2>5. Len(s) \in 1..Depth
      <3>1. Len(p) \in 1..Depth /\ Len(f) \in 1..Depth /\ Depth \in Nat /\ Len(s) \in Nat
        BY <2>1, PathIs, DepthAssumption, LenProperties
      <3> HIDE DEF s
      <3> QED
        BY <2>4, <3>1
    <2>6. s \in Paths
      BY <2>1, <2>5, PathIs
    <2> QED
      BY <2>1, <2>2, <2>3, <2>6, AncestorIs
  <1>6. CASE IsPrefix(r, t) /\ ~IsPrefix(t, r)
    <2>1. r # t
      BY <1>1, <1>6, PrefixRefl
    <2> QED
      BY <1>2, <1>6, <2>1, AncestorIs
  <1> QED
    BY <1>4, <1>5, <1>6

\* The definitions of PosixTree are those of the volume's tree.
LEMMA Same ==
  /\ Posix!Paths = Paths
  /\ \A v, p : Posix!Exists(v, p) <=> Exists(v, p)
  /\ \A v, p : Posix!IsFile(v, p) <=> IsFile(v, p)
  /\ \A v, p : Posix!IsDir(v, p) <=> IsDir(v, p)
  /\ \A p : Posix!Parent(p) = Parent(p)
  /\ \A p, q : Posix!IsPrefix(p, q) <=> IsPrefix(p, q)
  /\ \A p \in Paths : Posix!Below(p) = Below(p)
  /\ \A p, f, t : Posix!Moved(p, f, t) = Moved(p, f, t)
  /\ \A v, p : Posix!Subtree(v, p) = Subtree(v, p)
  <1>1. Posix!Paths = Paths
    BY DEF Posix!Paths, Paths, Posix!SeqOf, SeqOf, Posix!Root, Root
  <1>2. \A p, q : Posix!IsPrefix(p, q) <=> IsPrefix(p, q)
    BY DEF Posix!IsPrefix, IsPrefix
  <1>3. \A v, p : /\ Posix!Exists(v, p) <=> Exists(v, p)
                  /\ Posix!IsFile(v, p) <=> IsFile(v, p)
                  /\ Posix!IsDir(v, p) <=> IsDir(v, p)
    BY DEF Posix!Exists, Exists, Posix!IsFile, IsFile, Posix!IsDir, IsDir, Posix!Root, Root
  <1>4. \A p : Posix!Parent(p) = Parent(p)
    BY DEF Posix!Parent, Parent, Posix!Front, Front
  <1>5. \A p \in Paths : Posix!Below(p) = Below(p)
    BY <1>1, <1>2 DEF Posix!Below, Below, Posix!BelowOf, BelowOf, Posix!IsStrictPrefix, IsStrictPrefix
  <1>6. \A p, f, t : Posix!Moved(p, f, t) = Moved(p, f, t)
    BY DEF Posix!Moved, Moved
  <1>7. \A v, p : Posix!Subtree(v, p) = Subtree(v, p)
    BY <1>1, <1>2, <1>3 DEF Posix!Subtree, Subtree
  <1> QED
    BY <1>1, <1>2, <1>3, <1>4, <1>5, <1>6, <1>7

-----------------------------------------------------------------------------
(* The tree *)

\* Every way to something leads through directories: what Treelike says of one
\* step, said of the whole way, so that it is inductive.
Grown(v) == \A p \in Paths : Exists(v, p) => \A q \in Ancestors(p) : v[q] = Dir

\* A file has one name.
Single(v) == \A p, q \in Paths : v[p] = v[q] /\ v[p] \in Data => p = q

LEMMA GrownTree == ASSUME NEW v, Grown(v) PROVE Treelike(v)
  BY ParentIs DEF Grown, Treelike, IsDir, Exists

LEMMA TreeType ==
  ASSUME NEW v \in Trees, NEW p
  PROVE  /\ EnsureParents(v, p) \in Trees
         /\ \A d \in Data \cup {Dir, None} : Write(v, p, d) \in Trees
         /\ Mkdir(v, p) \in Trees /\ Unlink(v, p) \in Trees /\ Rmdir(v, p) \in Trees
  <1>1. EnsureParents(v, p) \in Trees
    BY DEF EnsureParents, Trees
  <1> QED
    BY <1>1 DEF Write, Mkdir, Unlink, Rmdir, Trees

LEMMA RenameType ==
  ASSUME NEW v \in Trees, NEW from \in Paths, NEW to \in Paths
  PROVE  Rename(v, from, to) \in Trees
  <1> DEFINE source == {q \in Subtree(v, from) : Moved(q, from, to) \in Paths}
             there(q) == \E s \in source : q = Moved(s, from, to)
  <1>1. \A q \in Paths : there(q) => v[Moved(q, to, from)] \in Data \cup {Dir, None}
    <2> SUFFICES ASSUME NEW s \in source PROVE v[Moved(Moved(s, from, to), to, from)] \in Data \cup {Dir, None}
      OBVIOUS
    <2>1. s \in Paths /\ IsPrefix(from, s)
      BY DEF Subtree
    <2>2. Moved(Moved(s, from, to), to, from) = s
      BY <2>1, PathIs, MovedBack
    <2> QED
      BY <2>1, <2>2 DEF Trees
  <1>2. EnsureParents(v, to) \in Trees
    BY TreeType
  <1>3. Rename(v, from, to) =
          [q \in Paths |-> IF there(q) THEN v[Moved(q, to, from)]
                           ELSE IF IsPrefix(from, q) THEN None ELSE EnsureParents(v, to)[q]]
    BY DEF Rename
  <1> HIDE DEF there
  <1> QED
    BY <1>1, <1>2, <1>3 DEF Trees

\* In a tree there is nothing to be made above a name in a directory.
LEMMA Plain ==
  ASSUME NEW v \in Trees, Grown(v), NEW p \in Paths, IsDir(v, Parent(p))
  PROVE  /\ \A q \in Ancestors(p) : v[q] = Dir
         /\ ~Blocked(v, p)
         /\ EnsureParents(v, p) = v
         /\ \A d : Write(v, p, d) = [v EXCEPT ![p] = d]
         /\ Mkdir(v, p) = [v EXCEPT ![p] = Dir]
  <1>1. \A q \in Ancestors(p) : v[q] = Dir
    <2> TAKE q \in Ancestors(p)
    <2>1. Parent(p) \in Paths /\ (q = Parent(p) \/ q \in Ancestors(Parent(p)))
      BY ParentIs
    <2>2. v[Parent(p)] = Dir /\ Exists(v, Parent(p))
      BY <2>1, RootIs, NodeAssumption DEF IsDir, Exists
    <2> QED
      BY <2>1, <2>2 DEF Grown
  <1>2. ~Blocked(v, p)
    BY <1>1, NodeAssumption DEF Blocked, IsFile
  <1>3. EnsureParents(v, p) = v
    BY <1>1, NodeAssumption DEF EnsureParents, Exists, Trees
  <1> QED
    BY <1>1, <1>2, <1>3 DEF Write, Mkdir

LEMMA BelowIs ==
  ASSUME NEW p \in Paths, NEW q \in Paths
  PROVE  q \in Below(p) <=> p \in Ancestors(q)
  BY AncestorIs

\* Nothing is below what is not there, or is a file.
LEMMA NothingBelow ==
  ASSUME NEW v, Grown(v), NEW p \in Paths, v[p] # Dir, NEW q \in Below(p)
  PROVE  q \in Paths /\ ~Exists(v, q)
  BY AncestorIs, BelowIs DEF Grown

LEMMA AddedGrown ==
  ASSUME NEW v \in Trees, Grown(v), NEW p \in Paths, \A q \in Ancestors(p) : v[q] = Dir,
         NEW d, d # None, ~Exists(v, p) \/ v[p] = d
  PROVE  Grown([v EXCEPT ![p] = d])
  <1> DEFINE w == [v EXCEPT ![p] = d]
  <1>1. \A q \in Paths : w[q] = IF q = p THEN d ELSE v[q]
    BY DEF Trees
  <1> SUFFICES ASSUME NEW r \in Paths, Exists(w, r), NEW q \in Ancestors(r) PROVE w[q] = Dir
    BY DEF Grown
  <1>2. q \in Paths /\ q # r
    BY AncestorIs
  <1>3. CASE r = p
    BY <1>1, <1>2, <1>3
  <1>4. CASE r # p
    <2>1. v[q] = Dir
      BY <1>1, <1>4 DEF Grown, Exists
    <2> QED
      BY <1>1, <1>2, <2>1, NodeAssumption DEF Exists
  <1> QED
    BY <1>3, <1>4

LEMMA RemovedGrown ==
  ASSUME NEW v \in Trees, Grown(v), NEW p \in Paths, \A q \in Below(p) : ~Exists(v, q)
  PROVE  Grown([v EXCEPT ![p] = None])
  <1> DEFINE w == [v EXCEPT ![p] = None]
  <1>1. \A q \in Paths : w[q] = IF q = p THEN None ELSE v[q]
    BY DEF Trees
  <1> SUFFICES ASSUME NEW r \in Paths, Exists(w, r), NEW q \in Ancestors(r) PROVE w[q] = Dir
    BY DEF Grown
  <1>2. q \in Paths /\ r # p /\ Exists(v, r)
    BY <1>1, AncestorIs DEF Exists
  <1>3. q # p
    BY <1>2, BelowIs
  <1> QED
    BY <1>1, <1>2, <1>3 DEF Grown


\* A directory or file moved to where nothing is, and all that is in it.
Taken(v, from, to) ==
  [q \in Paths |->
     IF IsPrefix(to, q)
     THEN IF Moved(q, to, from) \in Paths THEN v[Moved(q, to, from)] ELSE None
     ELSE IF IsPrefix(from, q) THEN None ELSE v[q]]

LEMMA TakenIs ==
  ASSUME NEW v \in Trees, Grown(v), NEW from \in Paths, NEW to \in Paths,
         ~Exists(v, to), IsDir(v, Parent(to))
  PROVE  Rename(v, from, to) = Taken(v, from, to)
  <1> DEFINE source == {q \in Subtree(v, from) : Moved(q, from, to) \in Paths}
             there(q) == \E s \in source : q = Moved(s, from, to)
             back(q) == Moved(q, to, from)
  <1>1. Rename(v, from, to) =
          [q \in Paths |-> IF there(q) THEN v[back(q)]
                           ELSE IF IsPrefix(from, q) THEN None ELSE v[q]]
    BY Plain DEF Rename
  <1>2. ASSUME NEW s \in source
        PROVE  s \in Paths /\ Exists(v, s) /\ IsPrefix(to, Moved(s, from, to))
               /\ back(Moved(s, from, to)) = s
    BY PathIs, MovedBack DEF Subtree
  <1>3. ASSUME NEW q \in Paths, IsPrefix(to, q)
        PROVE  /\ ~Exists(v, q)
               /\ there(q) <=> back(q) \in Paths /\ Exists(v, back(q))
    <2>1. ~Exists(v, q)
      <3>1. q = to \/ to \in Ancestors(q)
        BY <1>3, AncestorIs
      <3> QED
        BY <3>1, NodeAssumption DEF Grown, Exists
    <2>2. IsPrefix(from, back(q)) /\ Moved(back(q), from, to) = q
      BY <1>3, PathIs, MovedBack
    <2>3. back(q) \in Paths /\ Exists(v, back(q)) => back(q) \in source
      BY <2>2 DEF Subtree
    <2> QED
      BY <1>2, <2>1, <2>2, <2>3
  <1>4. \A q \in Paths : ~IsPrefix(to, q) => ~there(q)
    BY <1>2
  <1> HIDE DEF there, back
  <1>5. \A q \in Paths :
          (IF there(q) THEN v[back(q)] ELSE IF IsPrefix(from, q) THEN None ELSE v[q])
          = (IF IsPrefix(to, q) THEN IF back(q) \in Paths THEN v[back(q)] ELSE None
             ELSE IF IsPrefix(from, q) THEN None ELSE v[q])
    BY <1>3, <1>4 DEF Exists
  <1> QED
    BY <1>1, <1>5 DEF Taken, back

LEMMA TakenAt ==
  ASSUME NEW v, NEW from \in Paths, NEW to \in Paths, NEW q \in Paths
  PROVE  /\ ~IsPrefix(from, q) /\ ~IsPrefix(to, q) => Taken(v, from, to)[q] = v[q]
         /\ IsPrefix(from, q) /\ Moved(q, from, to) \in Paths
               => Taken(v, from, to)[Moved(q, from, to)] = v[q]
  <1>1. ASSUME IsPrefix(from, q), Moved(q, from, to) \in Paths
        PROVE  Taken(v, from, to)[Moved(q, from, to)] = v[q]
    <2>1. IsPrefix(to, Moved(q, from, to)) /\ Moved(Moved(q, from, to), to, from) = q
      BY <1>1, PathIs, MovedBack
    <2> QED
      BY <1>1, <2>1 DEF Taken
  <1> QED
    BY <1>1 DEF Taken

\* Where what is there after a move was before.
LEMMA TakenFrom ==
  ASSUME NEW v, NEW from \in Paths, NEW to \in Paths, NEW q \in Paths,
         Exists(Taken(v, from, to), q)
  PROVE  \/ /\ IsPrefix(to, q)
            /\ \E s \in Paths : IsPrefix(from, s) /\ q = Moved(s, from, to)
                                /\ Moved(q, to, from) = s /\ Taken(v, from, to)[q] = v[s]
         \/ ~IsPrefix(to, q) /\ ~IsPrefix(from, q) /\ Taken(v, from, to)[q] = v[q]
  <1>1. CASE IsPrefix(to, q)
    <2> DEFINE s == Moved(q, to, from)
    <2>1. s \in Paths /\ Taken(v, from, to)[q] = v[s]
      BY <1>1 DEF Taken, Exists
    <2>2. IsPrefix(from, s) /\ Moved(s, from, to) = q
      BY <1>1, PathIs, MovedBack
    <2> QED
      BY <1>1, <2>1, <2>2
  <1>2. CASE ~IsPrefix(to, q)
    BY <1>2 DEF Taken, Exists
  <1> QED
    BY <1>1, <1>2

LEMMA TakenGrown ==
  ASSUME NEW v \in Trees, Grown(v), NEW from \in Paths, NEW to \in Paths,
         IsDir(v, Parent(to)), ~IsPrefix(from, to), ~IsPrefix(to, from)
  PROVE  Grown(Taken(v, from, to))
  <1> DEFINE w == Taken(v, from, to)
  <1> SUFFICES ASSUME NEW r \in Paths, Exists(w, r), NEW q \in Ancestors(r) PROVE w[q] = Dir
    BY DEF Grown
  <1>1. q \in Paths /\ IsPrefix(q, r) /\ q # r
    BY AncestorIs
  <1>2. ASSUME ~IsPrefix(to, r), ~IsPrefix(from, r), w[r] = v[r]
        PROVE  w[q] = Dir
    <2>1. ~IsPrefix(to, q) /\ ~IsPrefix(from, q)
      BY <1>1, <1>2, PathIs, PrefixTrans
    <2>2. v[q] = Dir
      BY <1>2 DEF Grown, Exists
    <2> QED
      BY <1>1, <2>1, <2>2, TakenAt
  <1>3. ASSUME IsPrefix(to, r), NEW s \in Paths, IsPrefix(from, s), r = Moved(s, from, to),
               w[r] = v[s]
        PROVE  w[q] = Dir
    <2>1. CASE q \in Ancestors(to)
      <3>1. IsPrefix(q, to) /\ q # to
        BY <2>1, AncestorIs
      <3>2. ~IsPrefix(to, q) /\ ~IsPrefix(from, q)
        BY <1>1, <3>1, PathIs, PrefixTrans, PrefixAntisym
      <3>3. v[q] = Dir
        BY <2>1, Plain
      <3> QED
        BY <1>1, <3>2, <3>3, TakenAt
    <2>2. ASSUME NEW a \in Paths, IsPrefix(from, a), a \in Ancestors(s), q = Moved(a, from, to)
          PROVE  w[q] = Dir
      <3>1. v[a] = Dir
        BY <1>3, <2>2 DEF Grown, Exists
      <3> QED
        BY <1>1, <2>2, <3>1, TakenAt
    <2> QED
      BY <1>3, <2>1, <2>2, AncestorOfMoved
  <1> QED
    BY <1>2, <1>3, TakenFrom

LEMMA TakenSingle ==
  ASSUME NEW v \in Trees, Single(v), NEW from \in Paths, NEW to \in Paths
  PROVE  Single(Taken(v, from, to))
  <1> DEFINE w == Taken(v, from, to)
  <1> SUFFICES ASSUME NEW p \in Paths, NEW q \in Paths, w[p] = w[q], w[p] \in Data PROVE p = q
    BY DEF Single
  <1>1. Exists(w, p) /\ Exists(w, q)
    BY NodeAssumption DEF Exists
  <1> DEFINE old(x, s) == w[x] = v[s] /\ s \in Paths
             came(x, s) == IsPrefix(from, s) /\ x = Moved(s, from, to) /\ old(x, s)
             kept(x)    == ~IsPrefix(from, x) /\ old(x, x)
  <1>2. \A x \in {p, q} : (\E s \in Paths : came(x, s)) \/ kept(x)
    BY <1>1, TakenFrom
  <1>3. ASSUME NEW s, NEW t, old(p, s), old(q, t) PROVE s = t
    BY <1>3 DEF Single
  <1> HIDE DEF w
  <1> QED
    BY <1>2, <1>3

-----------------------------------------------------------------------------
(* The inode table, and the inductive invariant *)

Named == \A p \in Paths : byPath[p] # None => byPath[p] < next

\* Until a rename replaces something, the two maps of the table are inverse to
\* each other, and a number that has a path is that of what is there.
Linked ==
  /\ byIno[RootIno] = Root /\ means[RootIno] = Dir
  /\ \A i \in Ino : byIno[i] = Root => i = RootIno
  /\ \A p \in Paths, i \in Ino : byPath[p] = i <=> byIno[i] = p
  /\ \A i \in Ino : byIno[i] \in Paths => vfs[byIno[i]] = means[i] /\ Exists(vfs, byIno[i])
  /\ \A i \in live : byIno[i] # None
  /\ \A i \in open : means[i] \in Data

Good == Grown(vfs) /\ Single(vfs) /\ Linked

IInv == TypeOK /\ Named /\ (broken \/ Good)

Reached == [i \in Ino |-> Reach(i)]

LEMMA ConsistentFromIInv == IInv => Consistent
  BY GrownTree DEF IInv, Good, Consistent, TreeWhole

LEMMA InitIInv == Init => IInv
  <1> SUFFICES ASSUME Init PROVE IInv
    OBVIOUS
  <1> USE DEF Init, NewByIno, NewByPath, NewMeans
  <1>1. RootIno \in Ino /\ next \in 2 .. MaxIno + 1
        /\ \A i \in Ino : i >= next => i # RootIno
    BY InoAssumption DEF Ino, RootIno
  <1>2. TypeOK
    BY <1>1 DEF TypeOK, Trees, Empty
  <1>3. Named
    BY DEF Named
  <1>4. Grown(vfs) /\ Single(vfs)
    BY NodeAssumption DEF Grown, Single, Exists, Empty
  <1>5. Linked
    BY <1>1, RootIs, NoneAssumption DEF Linked
  <1> QED
    BY <1>2, <1>3, <1>4, <1>5 DEF IInv, Good

LEMMA InitPosix == Init => Posix!Init
  <1> SUFFICES ASSUME Init PROVE Posix!Init
    OBVIOUS
  <1>1. Posix!Treelike(vfs)
    BY Same DEF Init, Empty, Posix!Treelike, Exists
  <1>2. Reached = [h \in Ino |-> Closed]
    BY DEF Reached, Reach, Init
  <1> QED
    BY <1>1, <1>2 DEF Posix!Init, Init, Reached

\* What the kernel has looked up is a directory, and so names in it can be used.
LEMMA EntryIs ==
  ASSUME TypeOK, Good, NEW i \in Ino, NEW p \in Paths, Entry(i, p)
  PROVE  IsDir(vfs, Parent(p))
  BY ParentIs DEF Entry, IsDir, Good, Linked

LEMMA OpenIs ==
  ASSUME TypeOK, Good, NEW i \in Ino, byIno[i] # None, means[i] \in Data
  PROVE  byIno[i] \in Paths /\ vfs[byIno[i]] = means[i] /\ IsFile(vfs, byIno[i])
  <1>1. i # RootIno
    BY NodeAssumption DEF Good, Linked
  <1>2. byIno[i] \in Paths
    BY <1>1 DEF TypeOK, Good, Linked
  <1> QED
    BY <1>2 DEF Good, Linked, IsFile

-----------------------------------------------------------------------------
(* Types, whatever has been replaced *)

Typed == TypeOK /\ Named

LEMMA InternTyped ==
  ASSUME Typed, NEW p \in Paths, NEW node \in Data \cup {Dir, None}, Intern(p, node),
         vfs' \in Trees, open' \in {open, open \cup {byPath'[p]}}, broken' = broken
  PROVE  Typed'
  <1>1. CASE byPath[p] # None
    <2>1. byPath[p] \in Ino /\ byPath[p] < next /\ next \in Nat /\ Ino \subseteq Nat
      BY <1>1 DEF Typed, TypeOK, Named, Ino
    <2>2. live' = live \cup {byPath[p]} /\ UNCHANGED <<byIno, byPath, next, means>>
      BY <1>1 DEF Intern, table
    <2>3. \A i \in Ino : i >= next => i # byPath[p]
      <3>1. ASSUME NEW m \in Nat, NEW n \in Nat, m < n PROVE \A i \in Nat : i >= n => i # m
        BY <3>1
      <3> QED
        BY <2>1, <3>1
    <2> QED
      BY <2>1, <2>2, <2>3 DEF Typed, TypeOK, Named
  <1>2. CASE byPath[p] = None
    <2>1. /\ next \in Ino
          /\ byIno' = [byIno EXCEPT ![next] = p]
          /\ byPath' = [byPath EXCEPT ![p] = next]
          /\ means' = [means EXCEPT ![next] = node]
          /\ next' = next + 1
          /\ live' = live \cup {next}
      BY <1>2 DEF Intern
    <2>2. next' \in 2 .. MaxIno + 1 /\ next < next' /\ Ino \subseteq Nat /\ next \in Nat
      BY <2>1, InoAssumption DEF Ino, Typed, TypeOK
    <2>3. \A i \in Ino : i >= next' => i >= next /\ i # next
      BY <2>1, <2>2
    <2>4. byPath' \in [Paths -> Ino \cup {None}] /\ byPath'[p] = next
      BY <2>1 DEF Typed, TypeOK
    <2>5. TypeOK'
      BY <2>1, <2>2, <2>3, <2>4 DEF Typed, TypeOK
    <2>6. Named'
      <3>1. ASSUME NEW q \in Paths, byPath'[q] # None PROVE byPath'[q] < next'
        <4>1. CASE q = p
          BY <2>2, <2>4, <4>1
        <4>2. CASE q # p
          <5>1. byPath'[q] = byPath[q] /\ byPath[q] \in Ino /\ byPath[q] < next
            BY <2>1, <3>1, <4>2 DEF Typed, TypeOK, Named
          <5>2. ASSUME NEW m \in Nat, m < next PROVE m < next'
            BY <2>1, <2>2, <5>2
          <5> QED
            BY <2>2, <5>1, <5>2
        <4> QED
          BY <4>1, <4>2
      <3> QED
        BY <3>1 DEF Named
    <2> QED
      BY <2>5, <2>6 DEF Typed
  <1> QED
    BY <1>1, <1>2

LEMMA ForgetTyped ==
  ASSUME Typed, NEW p \in Paths, Forget(p), vfs' \in Trees, open' = open, broken' = broken
  PROVE  Typed'
  BY DEF Forget, Typed, TypeOK, Named

LEMMA MoveTyped ==
  ASSUME Typed, NEW i, NEW from \in Paths, NEW j, NEW to \in Paths, Move(i, from, j, to)
  PROVE  Typed'
  <1> DEFINE moves == {n \in Ino : byIno[n] # None /\ IsPrefix(from, byIno[n])}
             came  == [n \in moves |-> Moved(byIno[n], from, to)]
  <1>1. PICK last \in [{came[n] : n \in moves} -> moves] :
          byPath' = [p \in Paths |->
               IF p \in DOMAIN last THEN last[p]
               ELSE IF \E n \in moves : byIno[n] = p THEN None ELSE byPath[p]]
    BY DEF Move, RenameSubtree
  <1>2. /\ \A n \in moves : came[n] \in Paths
        /\ byIno' = [n \in Ino |-> IF n \in moves THEN came[n] ELSE byIno[n]]
        /\ next' = next
    BY DEF Move, RenameSubtree
  <1>3. vfs' \in Trees
    BY RenameType DEF Move, Typed, TypeOK
  <1>4. \A n \in moves : n \in Ino /\ ~(n >= next) /\ n < next
    BY InoAssumption DEF Typed, TypeOK, Ino
  <1>5. live' \subseteq live /\ open' = open /\ broken' \in BOOLEAN /\ means' = means
    BY DEF Move, RenameSubtree, Typed, TypeOK
  <1> HIDE DEF moves, came
  <1>6. TypeOK'
    BY <1>1, <1>2, <1>3, <1>4, <1>5 DEF Typed, TypeOK
  <1>7. Named'
    BY <1>1, <1>2, <1>4 DEF Typed, Named
  <1> QED
    BY <1>6, <1>7 DEF Typed

LEMMA RemountTyped == ASSUME Typed, Remount PROVE Typed'
  <1> USE DEF Remount, NewByIno, NewByPath, NewMeans
  <1>1. RootIno \in Ino /\ next' \in 2 .. MaxIno + 1
        /\ \A i \in Ino : i >= next' => i # RootIno
    BY InoAssumption DEF Ino, RootIno
  <1>2. TypeOK'
    BY <1>1 DEF Typed, TypeOK
  <1> QED
    BY <1>2 DEF Typed, Named

LEMMA WriteTyped == ASSUME Typed, NEW i \in Ino, WriteFile(i) PROVE Typed'
  <1>1. vfs' \in Trees
    <2>1. (IF IsFile(vfs, byIno[i]) THEN vfs[byIno[i]] ELSE means[i]) \in Data \cup {Dir, None}
      BY DEF IsFile, Typed, TypeOK
    <2> QED
      BY <2>1, TreeType DEF WriteFile, Typed, TypeOK
  <1> QED
    BY <1>1 DEF WriteFile, Typed, TypeOK, Named, table

-----------------------------------------------------------------------------
(* Calls that name something *)

\* A name that has its number: nothing new.
LEMMA InternKnown ==
  ASSUME Typed, Good, NEW p \in Paths, byPath[p] # None, NEW node, Intern(p, node),
         vfs' = vfs, open' = open
  PROVE  Good' /\ Reached' = Reached
  <1>1. byPath[p] \in Ino /\ byIno[byPath[p]] = p /\ p # None
    BY NoneAssumption DEF Typed, TypeOK, Good, Linked
  <1>2. live' = live \cup {byPath[p]} /\ UNCHANGED <<byIno, byPath, next, means>>
    BY DEF Intern, table
  <1>3. Linked'
    BY <1>1, <1>2 DEF Good, Linked, Exists
  <1>4. Grown(vfs)' /\ Single(vfs)'
    BY DEF Good, Grown, Single, Exists
  <1> QED
    BY <1>2, <1>3, <1>4 DEF Good, Reached, Reach, IsFile

\* A name that gets a number: nobody has the number open, and no other name it.
LEMMA InternNew ==
  ASSUME Typed, Good, NEW p \in Paths, byPath[p] = None, NEW node \in Data \cup {Dir},
         Intern(p, node), vfs' \in Trees, vfs'[p] = node,
         \A q \in Paths : q # p => vfs'[q] = vfs[q],
         open' = open \/ (open' = open \cup {next} /\ node \in Data)
  PROVE  /\ next \in Ino \ open /\ byPath'[p] = next /\ byIno'[next] = p
         /\ Linked'
         /\ \A h \in Ino : h # next => Reach(h)' = IF h \in open' THEN Reach(h) ELSE Closed
  <1>1. /\ next \in Ino
        /\ byIno' = [byIno EXCEPT ![next] = p]
        /\ byPath' = [byPath EXCEPT ![p] = next]
        /\ means' = [means EXCEPT ![next] = node]
        /\ live' = live \cup {next}
    BY DEF Intern
  <1>2. byIno[next] = None /\ next \notin live \cup open /\ next # RootIno
    <2>1. next >= next /\ next # 1
      BY DEF Typed, TypeOK
    <2> QED
      BY <1>1, <2>1 DEF Typed, TypeOK, RootIno
  <1>3. /\ byPath'[p] = next /\ byIno'[next] = p /\ means'[next] = node
        /\ \A q \in Paths : q # p => byPath'[q] = byPath[q]
        /\ \A i \in Ino : i # next => byIno'[i] = byIno[i] /\ means'[i] = means[i]
    BY <1>1 DEF Typed, TypeOK
  <1>4. \A i \in Ino : byIno[i] # p
    BY NoneAssumption DEF Good, Linked
  <1>5. None \notin Ino /\ None \notin Paths /\ RootIno \in Ino /\ Root \notin Paths /\ node # None
    BY NoneAssumption, InoAssumption, RootIs, NodeAssumption DEF Ino, RootIno
  <1>6. Linked'
    <2>1. byIno'[RootIno] = Root /\ means'[RootIno] = Dir
          /\ \A i \in Ino : byIno'[i] = Root => i = RootIno
      BY <1>2, <1>3, <1>5 DEF Good, Linked
    <2>2. \A q \in Paths, i \in Ino : byPath'[q] = i <=> byIno'[i] = q
      <3> TAKE q \in Paths, i \in Ino
      <3>1. CASE q = p
        BY <1>3, <1>4, <3>1
      <3>2. CASE q # p
        <4>1. byPath'[q] = i <=> byIno[i] = q
          BY <1>3, <3>2 DEF Good, Linked
        <4> QED
          BY <1>2, <1>3, <1>5, <3>2, <4>1
      <3> QED
        BY <3>1, <3>2
    <2>3. ASSUME NEW i \in Ino, byIno'[i] \in Paths
          PROVE  vfs'[byIno'[i]] = means'[i] /\ Exists(vfs', byIno'[i])
      <3>1. CASE i = next
        BY <1>3, <1>5, <3>1 DEF Exists
      <3>2. CASE i # next
        <4>1. byIno'[i] = byIno[i] /\ byIno[i] # p /\ means'[i] = means[i]
          BY <1>3, <1>4, <3>2
        <4>2. vfs[byIno[i]] = means[i] /\ Exists(vfs, byIno[i])
          BY <2>3, <4>1 DEF Good, Linked
        <4> QED
          BY <2>3, <4>1, <4>2 DEF Exists
      <3> QED
        BY <3>1, <3>2
    <2>4. \A i \in live' : byIno'[i] # None
      BY <1>1, <1>2, <1>3, <1>5 DEF Good, Linked, Typed, TypeOK
    <2>5. \A i \in open' : means'[i] \in Data
      <3> TAKE i \in open'
      <3>1. CASE i = next
        <4>1. node \in Data
          BY <1>2, <3>1
        <4> QED
          BY <1>3, <3>1, <4>1
      <3>2. CASE i # next
        <4>1. i \in open /\ i \in Ino
          BY <3>2 DEF Typed, TypeOK
        <4> QED
          BY <1>3, <3>2, <4>1 DEF Good, Linked
      <3> QED
        BY <3>1, <3>2
    <2> QED
      BY <2>1, <2>2, <2>3, <2>4, <2>5 DEF Linked
  <1>7. ASSUME NEW h \in Ino, h # next PROVE Reach(h)' = IF h \in open' THEN Reach(h) ELSE Closed
    <2>1. byIno'[h] = byIno[h] /\ byIno[h] # p /\ (h \in open' <=> h \in open)
      BY <1>3, <1>4, <1>7
    <2> QED
      BY <2>1 DEF Reach, IsFile
  <1> QED
    BY <1>1, <1>2, <1>3, <1>6, <1>7

\* A step that the abstract tree takes, or sees nothing of.
Shown == [Posix!Next]_<<vfs, Reached>>

LEMMA LookupGood ==
  ASSUME Typed, Good, NEW i \in Ino, NEW p \in Paths, Lookup(i, p)
  PROVE  Good' /\ Shown
  <1>1. Intern(p, vfs[p]) /\ vfs' = vfs /\ open' = open /\ Exists(vfs, p)
    BY DEF Lookup
  <1>2. CASE byPath[p] # None
    BY <1>1, <1>2, InternKnown DEF Shown
  <1>3. CASE byPath[p] = None
    <2>1. vfs[p] \in Data \cup {Dir} /\ vfs' \in Trees
      BY <1>1 DEF Typed, TypeOK, Trees, Exists
    <2>2. Linked' /\ next \in Ino \ open
          /\ \A h \in Ino : h # next => Reach(h)' = IF h \in open' THEN Reach(h) ELSE Closed
      BY <1>1, <1>3, <2>1, InternNew
    <2>3. \A h \in Ino : Reach(h)' = Reach(h)
      BY <1>1, <2>2 DEF Reach
    <2>4. Grown(vfs)' /\ Single(vfs)'
      BY <1>1 DEF Good, Grown, Single, Exists
    <2> QED
      BY <1>1, <2>2, <2>3, <2>4 DEF Good, Shown, Reached
  <1> QED
    BY <1>2, <1>3

\* A name that is not there has no number.
LEMMA FreeIs ==
  ASSUME Typed, Good, NEW i \in Ino, NEW p \in Paths, Entry(i, p), ~Exists(vfs, p)
  PROVE  byPath[p] = None /\ IsDir(vfs, Parent(p)) /\ Posix!Free(p)
         /\ \A q \in Ancestors(p) : vfs[q] = Dir
  <1>1. byPath[p] = None
    BY DEF Typed, TypeOK, Good, Linked
  <1>2. IsDir(vfs, Parent(p))
    BY EntryIs DEF Typed
  <1> QED
    BY <1>1, <1>2, Plain, Same DEF Posix!Free, Good, Typed, TypeOK

LEMMA MakeDirectoryGood ==
  ASSUME Typed, Good, NEW i \in Ino, NEW p \in Paths, MakeDirectory(i, p)
  PROVE  Good' /\ Shown
  <1>1. Entry(i, p) /\ ~Exists(vfs, p) /\ Intern(p, Dir) /\ open' = open /\ vfs' = Mkdir(vfs, p)
    BY DEF MakeDirectory
  <1>2. byPath[p] = None /\ IsDir(vfs, Parent(p)) /\ Posix!Free(p)
        /\ \A q \in Ancestors(p) : vfs[q] = Dir
    BY <1>1, FreeIs
  <1>3. vfs \in Trees /\ Grown(vfs) /\ Single(vfs)
    BY DEF Typed, TypeOK, Good
  <1>4. vfs' = [vfs EXCEPT ![p] = Dir]
    BY <1>1, <1>2, <1>3, Plain
  <1>5. vfs' \in Trees /\ vfs'[p] = Dir /\ \A q \in Paths : q # p => vfs'[q] = vfs[q]
    BY <1>3, <1>4 DEF Trees
  <1>6. Linked' /\ next \in Ino \ open
        /\ \A h \in Ino : h # next => Reach(h)' = IF h \in open' THEN Reach(h) ELSE Closed
    BY <1>1, <1>2, <1>5, InternNew
  <1>7. Grown(vfs)'
    <2>1. Grown([vfs EXCEPT ![p] = Dir])
      BY <1>1, <1>2, <1>3, NodeAssumption, AddedGrown
    <2> QED
      BY <1>4, <2>1
  <1>8. Single(vfs)'
    BY <1>3, <1>5, NodeAssumption DEF Single
  <1>9. Reached' = Reached
    BY <1>1, <1>6 DEF Reached, Reach
  <1>10. Posix!MakeDir
    BY <1>2, <1>4, <1>9, Same DEF Posix!MakeDir, Reached
  <1> QED
    BY <1>6, <1>7, <1>8, <1>10 DEF Good, Shown, Posix!Next

LEMMA CreateGood ==
  ASSUME Typed, Good, NEW i \in Ino, NEW p \in Paths, Create(i, p)
  PROVE  Good' /\ Shown
  <1>1. PICK d \in Data : /\ \A q \in Paths : vfs[q] # d
                          /\ \A j \in open : means[j] # d
                          /\ vfs' = Write(vfs, p, d)
                          /\ Intern(p, d)
    BY DEF Create
  <1>2. Entry(i, p) /\ ~Exists(vfs, p) /\ open' = open \cup {byPath'[p]}
    BY DEF Create
  <1>3. byPath[p] = None /\ IsDir(vfs, Parent(p)) /\ Posix!Free(p)
        /\ \A q \in Ancestors(p) : vfs[q] = Dir
    BY <1>2, FreeIs
  <1>4. vfs \in Trees /\ Grown(vfs) /\ Single(vfs)
    BY DEF Typed, TypeOK, Good
  <1>5. vfs' = [vfs EXCEPT ![p] = d]
    BY <1>1, <1>3, <1>4, Plain
  <1>6. vfs' \in Trees /\ vfs'[p] = d /\ \A q \in Paths : q # p => vfs'[q] = vfs[q]
    BY <1>4, <1>5 DEF Trees
  <1>7. open' = open \cup {next}
    <2>1. byPath'[p] = next
      BY <1>1, <1>3 DEF Intern, Typed, TypeOK
    <2> QED
      BY <1>2, <2>1
  <1>8. /\ next \in Ino \ open /\ byIno'[next] = p
        /\ Linked'
        /\ \A h \in Ino : h # next => Reach(h)' = IF h \in open' THEN Reach(h) ELSE Closed
    BY <1>1, <1>3, <1>6, <1>7, InternNew
  <1>9. Grown(vfs)'
    <2>1. Grown([vfs EXCEPT ![p] = d])
      BY <1>2, <1>3, <1>4, NodeAssumption, AddedGrown
    <2> QED
      BY <1>5, <2>1
  <1>10. Single(vfs)'
    BY <1>1, <1>4, <1>6 DEF Single
  <1>11. Reached' = [Reached EXCEPT ![next] = d]
    <2>1. PICK n \in Ino : n = next
      BY <1>8
    <2>2. Reach(n)' = d
      <3>1. n \in open' /\ byIno'[n] = p /\ vfs'[p] \in Data
        BY <1>6, <1>7, <1>8, <2>1
      <3> QED
        BY <1>6, <3>1 DEF Reach, IsFile
    <2>3. \A h \in Ino : h # n => Reach(h)' = Reach(h)
      BY <1>7, <1>8, <2>1 DEF Reach
    <2>4. Reached' = [Reached EXCEPT ![n] = d]
      BY <2>2, <2>3 DEF Reached
    <2> QED
      BY <2>1, <2>4
  <1>12. Reached[next] = Closed /\ \A g \in Ino : Reached[g] # d
    BY <1>1, <1>8, ReachAssumption DEF Reached, Reach
  <1>13. Posix!MakeFile
    <2>1. p \in Posix!Paths /\ Posix!Free(p) /\ \A q \in Posix!Paths : vfs[q] # d
      BY <1>1, <1>3, Same
    <2>2. PICK n \in Ino : Reached[n] = Closed /\ Reached' = [Reached EXCEPT ![n] = d]
      BY <1>8, <1>11, <1>12
    <2> QED
      BY <1>5, <1>12, <2>1, <2>2 DEF Posix!MakeFile, Reached
  <1> QED
    BY <1>8, <1>9, <1>10, <1>13 DEF Good, Shown, Posix!Next

-----------------------------------------------------------------------------
(* Calls that remove something *)

LEMMA RemovedGood ==
  ASSUME Typed, Good, NEW p \in Paths, byPath[p] \in live, Exists(vfs, p),
         \A q \in Below(p) : ~Exists(vfs, q),
         vfs' = [vfs EXCEPT ![p] = None], Forget(p), open' = open
  PROVE  Good' /\ Shown
  <1>1. vfs \in Trees /\ Grown(vfs) /\ Single(vfs) /\ Linked
    BY DEF Typed, TypeOK, Good
  <1>2. vfs'[p] = None /\ \A q \in Paths : q # p => vfs'[q] = vfs[q]
    BY <1>1 DEF Trees
  <1>3. PICK k \in Ino : k = byPath[p] /\ byIno[k] = p
    BY DEF Typed, TypeOK, Good, Linked
  <1>4. /\ byIno'[k] = None /\ byPath'[p] = None
        /\ \A i \in Ino : i # k => byIno'[i] = byIno[i] /\ byIno[i] # p
        /\ \A q \in Paths : q # p => byPath'[q] = byPath[q]
        /\ means' = means /\ live' = live \ {k}
    BY <1>3 DEF Forget, Typed, TypeOK, Good, Linked
  <1>5. None \notin Ino /\ None \notin Paths /\ Root \notin Paths /\ RootIno \in Ino /\ None # Root
    BY NoneAssumption, InoAssumption, RootIs DEF Ino, RootIno
  <1>6. Linked'
    <2>1. byIno'[RootIno] = Root /\ means'[RootIno] = Dir
          /\ \A i \in Ino : byIno'[i] = Root => i = RootIno
      BY <1>1, <1>3, <1>4, <1>5 DEF Linked
    <2>2. \A q \in Paths, i \in Ino : byPath'[q] = i <=> byIno'[i] = q
      <3> TAKE q \in Paths, i \in Ino
      <3>1. CASE q = p
        BY <1>4, <1>5, <3>1
      <3>2. CASE q # p
        <4>1. byPath'[q] = i <=> byIno[i] = q
          BY <1>1, <1>4, <3>2 DEF Linked
        <4> QED
          BY <1>3, <1>4, <1>5, <3>2, <4>1
      <3> QED
        BY <3>1, <3>2
    <2>3. ASSUME NEW i \in Ino, byIno'[i] \in Paths
          PROVE  vfs'[byIno'[i]] = means'[i] /\ Exists(vfs', byIno'[i])
      <3>1. i # k /\ byIno'[i] = byIno[i] /\ byIno[i] # p
        BY <1>4, <1>5, <2>3
      <3> QED
        BY <1>1, <1>2, <1>4, <2>3, <3>1 DEF Linked, Exists
    <2>4. \A i \in live' : byIno'[i] # None
      BY <1>1, <1>4 DEF Linked, Typed, TypeOK
    <2>5. \A i \in open' : means'[i] \in Data
      BY <1>1, <1>4 DEF Linked
    <2> QED
      BY <2>1, <2>2, <2>3, <2>4, <2>5 DEF Linked
  <1>7. Grown(vfs)'
    <2>1. Grown([vfs EXCEPT ![p] = None])
      BY <1>1, RemovedGrown
    <2> QED
      BY <2>1
  <1>8. Single(vfs)'
    BY <1>1, <1>2, NodeAssumption DEF Single
  <1>9. \A h \in Ino : Reach(h)' = IF Reach(h) \in {vfs[p]} \cap Data THEN Lost ELSE Reach(h)
    <2> TAKE h \in Ino
    <2>1. CASE h \notin open
      BY <2>1, ReachAssumption DEF Reach
    <2>2. CASE h \in open /\ h = k
      <3>1. Reach(h)' = Lost
        BY <1>4, <1>5, <2>2 DEF Reach
      <3>2. Reach(h) = IF vfs[p] \in Data THEN vfs[p] ELSE Lost
        BY <1>3, <2>2 DEF Reach, IsFile
      <3> QED
        BY <3>1, <3>2
    <2>3. CASE h \in open /\ h # k /\ byIno[h] \in Paths
      <3>1. byIno'[h] = byIno[h] /\ byIno[h] # p /\ vfs'[byIno[h]] = vfs[byIno[h]]
        BY <1>2, <1>4, <2>3
      <3>2. Reach(h)' = Reach(h)
        BY <3>1 DEF Reach, IsFile
      <3>3. Reach(h) \notin {vfs[p]} \cap Data
        BY <1>1, <2>3, <3>1, ReachAssumption DEF Single, Reach, IsFile
      <3> QED
        BY <3>2, <3>3
    <2>4. CASE h \in open /\ h # k /\ byIno[h] \notin Paths
      BY <1>4, <2>4, ReachAssumption DEF Reach
    <2> QED
      BY <2>1, <2>2, <2>3, <2>4
  <1>10. Posix!Delete
    <2>1. p \in Posix!Paths /\ Posix!Exists(vfs, p)
          /\ \A q \in Posix!Below(p) : ~Posix!Exists(vfs, q)
      BY Same
    <2>2. Posix!Lose({vfs[p]} \cap Data)
      BY <1>9 DEF Posix!Lose
    <2> QED
      BY <2>1, <2>2 DEF Posix!Delete
  <1> QED
    BY <1>6, <1>7, <1>8, <1>10 DEF Good, Shown, Posix!Next, Reached

LEMMA RemoveFileGood ==
  ASSUME Typed, Good, NEW i \in Ino, NEW p \in Paths, RemoveFile(i, p)
  PROVE  Good' /\ Shown
  <1>1. vfs[p] \in Data /\ byPath[p] \in live /\ Forget(p) /\ open' = open
        /\ vfs' = [vfs EXCEPT ![p] = None]
    BY DEF RemoveFile, UnlinkOk, Unlink, IsFile
  <1>2. Exists(vfs, p) /\ \A q \in Below(p) : ~Exists(vfs, q)
    BY <1>1, NodeAssumption, NothingBelow DEF Good, Exists
  <1> QED
    BY <1>1, <1>2, RemovedGood

LEMMA RemoveDirectoryGood ==
  ASSUME Typed, Good, NEW i \in Ino, NEW p \in Paths, RemoveDirectory(i, p)
  PROVE  Good' /\ Shown
  <1>1. byPath[p] \in live /\ Forget(p) /\ open' = open /\ vfs' = [vfs EXCEPT ![p] = None]
        /\ Exists(vfs, p) /\ \A q \in Below(p) : ~Exists(vfs, q)
    BY NodeAssumption DEF RemoveDirectory, RmdirOk, Rmdir, Exists
  <1> QED
    BY <1>1, RemovedGood

-----------------------------------------------------------------------------
(* Calls on a number *)

LEMMA OpenFileGood ==
  ASSUME Typed, Good, NEW i \in Ino, OpenFile(i)
  PROVE  Good' /\ Shown
  <1>1. i \in live /\ means[i] \in Data /\ open' = open \cup {i}
        /\ UNCHANGED <<vfs, byIno, byPath, next, means, live>>
    BY DEF OpenFile, table
  <1>2. Linked'
    BY <1>1 DEF Good, Linked, Exists
  <1>3. Good'
    BY <1>1, <1>2 DEF Good, Grown, Single, Exists
  <1>4. byIno[i] \in Paths /\ IsFile(vfs, byIno[i])
    BY <1>1, OpenIs DEF Typed, Good, Linked
  <1>5. \A h \in Ino : h # i => Reach(h)' = Reach(h)
    BY <1>1 DEF Reach, IsFile
  <1>6. Reach(i)' = vfs[byIno[i]]
    BY <1>1, <1>4 DEF Reach, IsFile
  <1>7. CASE i \in open
    <2>1. Reach(i) = vfs[byIno[i]]
      BY <1>4, <1>7 DEF Reach
    <2> QED
      BY <1>1, <1>3, <1>5, <1>6, <2>1 DEF Shown, Reached
  <1>8. CASE i \notin open
    <2>1. Reached[i] = Closed /\ Reached' = [Reached EXCEPT ![i] = vfs[byIno[i]]]
      BY <1>5, <1>6, <1>8 DEF Reached, Reach
    <2>2. Posix!Open
      BY <1>1, <1>4, <2>1, Same DEF Posix!Open, Reached
    <2> QED
      BY <1>3, <2>2 DEF Shown, Posix!Next
  <1> QED
    BY <1>7, <1>8

LEMMA CloseFileGood ==
  ASSUME Typed, Good, NEW i \in Ino, CloseFile(i)
  PROVE  Good' /\ Shown
  <1>1. open' = open \ {i} /\ UNCHANGED <<vfs, byIno, byPath, next, means, live>>
    BY DEF CloseFile, table
  <1>2. Linked'
    BY <1>1 DEF Good, Linked, Exists
  <1>3. Good'
    BY <1>1, <1>2 DEF Good, Grown, Single, Exists
  <1>4. \A h \in Ino : Reach(h)' = IF h \in {i} THEN Closed ELSE Reach(h)
    BY <1>1 DEF Reach, IsFile
  <1>5. Posix!Close
    BY <1>1, <1>4 DEF Posix!Close
  <1> QED
    BY <1>3, <1>5 DEF Shown, Posix!Next, Reached

\* An open file is written where it is, or not at all.
LEMMA WriteFileGood ==
  ASSUME Typed, Good, NEW i \in Ino, WriteFile(i)
  PROVE  vfs' = vfs /\ Good' /\ Shown
  <1>1. i \in open /\ byIno[i] # None /\ UNCHANGED <<byIno, byPath, next, means, live, open>>
        /\ vfs' = Write(vfs, byIno[i], IF IsFile(vfs, byIno[i]) THEN vfs[byIno[i]] ELSE means[i])
    BY DEF WriteFile, table
  <1>2. byIno[i] \in Paths /\ IsFile(vfs, byIno[i])
    BY <1>1, OpenIs DEF Typed, Good, Linked
  <1>3. vfs \in Trees /\ Grown(vfs)
    BY DEF Typed, TypeOK, Good
  <1>4. IsDir(vfs, Parent(byIno[i]))
    BY <1>2, <1>3, GrownTree, NodeAssumption DEF Treelike, Exists, IsFile
  <1>5. vfs' = vfs
    <2>1. vfs' = [vfs EXCEPT ![byIno[i]] = vfs[byIno[i]]]
      BY <1>1, <1>2, <1>3, <1>4, Plain
    <2> QED
      BY <1>3, <2>1 DEF Trees
  <1>6. Linked'
    BY <1>1, <1>5 DEF Good, Linked, Exists
  <1>7. Good'
    BY <1>5, <1>6 DEF Good, Grown, Single, Exists
  <1>8. Reached' = Reached
    BY <1>1, <1>5 DEF Reached, Reach, IsFile
  <1> QED
    BY <1>5, <1>7, <1>8 DEF Shown

LEMMA RemountGood ==
  ASSUME Typed, Good, Remount
  PROVE  Good' /\ Shown
  <1>1. RootIno \in Ino /\ None \notin Ino /\ None \notin Paths /\ Root \notin Paths /\ None # Root
    BY InoAssumption, NoneAssumption, RootIs DEF Ino, RootIno
  <1>2. Linked'
    BY <1>1 DEF Remount, NewByIno, NewByPath, NewMeans, Linked
  <1>3. Good'
    BY <1>2 DEF Remount, Good, Grown, Single, Exists
  <1>4. \A h \in Ino : Reach(h)' = IF h \in Ino THEN Closed ELSE Reach(h)
    BY DEF Remount, Reach
  <1>5. Posix!Close
    BY <1>4 DEF Posix!Close, Remount
  <1> QED
    BY <1>3, <1>5 DEF Shown, Posix!Next, Reached

-----------------------------------------------------------------------------
(* rename, to where nothing is *)

LEMMA MoveGood ==
  ASSUME Typed, Good, NEW i \in Ino, NEW from \in Paths, NEW j \in Ino, NEW to \in Paths,
         Move(i, from, j, to), ~Exists(vfs, to)
  PROVE  Good' /\ Shown
  <1> DEFINE moves == {n \in Ino : byIno[n] # None /\ IsPrefix(from, byIno[n])}
             came  == [n \in moves |-> Moved(byIno[n], from, to)]
  <1>1. vfs \in Trees /\ Grown(vfs) /\ Single(vfs) /\ Linked
    BY DEF Typed, TypeOK, Good
  <1>2. Exists(vfs, from) /\ ~IsPrefix(from, to) /\ ~IsPrefix(to, from)
        /\ IsDir(vfs, Parent(to)) /\ byPath[to] = None
    <2>1. Entry(j, to) /\ MayMove(from, to)
      BY DEF Move
    <2> QED
      BY <2>1, EntryIs, FreeIs DEF MayMove, Typed
  <1>3. vfs' = Taken(vfs, from, to)
    BY <1>1, <1>2, TakenIs DEF Move
  <1>4. PICK last \in [{came[n] : n \in moves} -> moves] :
          /\ \A p \in DOMAIN last : came[last[p]] = p
          /\ byPath' = [p \in Paths |->
               IF p \in DOMAIN last THEN last[p]
               ELSE IF \E n \in moves : byIno[n] = p THEN None ELSE byPath[p]]
    BY DEF Move, RenameSubtree
  <1>5. /\ \A n \in moves : came[n] \in Paths
        /\ byIno' = [n \in Ino |-> IF n \in moves THEN came[n] ELSE byIno[n]]
        /\ means' = means /\ open' = open /\ live' = live \ {byPath[to]}
    BY DEF Move, RenameSubtree
  <1>6. None \notin Ino /\ None \notin Paths /\ Root \notin Paths /\ RootIno \in Ino /\ None # Root
    BY NoneAssumption, InoAssumption, RootIs DEF Ino, RootIno
  <1>7. ~IsPrefix(from, Root)
    <2>1. from \in Seq(Name) /\ Len(from) \in 1..Depth
      BY PathIs
    <2>2. ~(Len(from) <= Len(Root))
      BY <2>1, RootIs, DepthAssumption
    <2> QED
      BY <2>1, <2>2, RootIs, PrefixIs
  \* What stays and what goes, with what is there.
  <1>8. ASSUME NEW n \in Ino, n \in moves
        PROVE  /\ byIno[n] \in Paths /\ came[n] \in Paths /\ byIno'[n] = came[n]
               /\ IsPrefix(to, came[n]) /\ Moved(came[n], to, from) = byIno[n]
               /\ vfs'[came[n]] = vfs[byIno[n]]
    <2>1. byIno[n] \in Paths /\ IsPrefix(from, byIno[n])
      BY <1>7, <1>8 DEF Typed, TypeOK
    <2>2. came[n] \in Paths /\ byIno'[n] = came[n] /\ came[n] = Moved(byIno[n], from, to)
      BY <1>5, <1>8
    <2>3. IsPrefix(to, came[n]) /\ Moved(came[n], to, from) = byIno[n]
      BY <2>1, <2>2, PathIs, MovedBack
    <2>4. vfs'[came[n]] = vfs[byIno[n]]
      BY <1>3, <2>1, <2>2, TakenAt
    <2> QED
      BY <2>1, <2>2, <2>3, <2>4
  <1>9. ASSUME NEW n \in Ino, n \notin moves, byIno[n] \in Paths
        PROVE  /\ byIno'[n] = byIno[n] /\ vfs'[byIno[n]] = vfs[byIno[n]]
               /\ ~IsPrefix(from, byIno[n]) /\ ~IsPrefix(to, byIno[n])
    <2>1. byIno'[n] = byIno[n] /\ ~IsPrefix(from, byIno[n])
      BY <1>5, <1>6, <1>9
    <2>2. ~IsPrefix(to, byIno[n])
      <3>1. Exists(vfs, byIno[n])
        BY <1>1, <1>9 DEF Linked
      <3>2. to # byIno[n] /\ byIno[n] \notin Below(to)
        BY <1>1, <1>2, <3>1, NothingBelow, NodeAssumption DEF Exists
      <3> QED
        BY <1>9, <3>2, AncestorIs
    <2>3. Taken(vfs, from, to)[byIno[n]] = vfs[byIno[n]]
      <3>1. byIno[n] \in Paths /\ ~IsPrefix(from, byIno[n]) /\ ~IsPrefix(to, byIno[n])
        BY <1>9, <2>1, <2>2
      <3> HIDE DEF moves, came
      <3> QED
        BY <3>1, TakenAt
    <2> QED
      BY <1>3, <2>1, <2>2, <2>3
  <1>10. ASSUME NEW n \in Ino, byIno[n] \notin Paths PROVE byIno'[n] = byIno[n]
    <2>1. n \notin moves
      BY <1>8, <1>10
    <2> QED
      BY <1>5, <2>1
  <1> HIDE DEF moves, came
  <1>11. \A n \in Ino : /\ byIno'[n] \in Paths <=> byIno[n] \in Paths
                        /\ byIno[n] \in Paths => vfs'[byIno'[n]] = vfs[byIno[n]]
    BY <1>8, <1>9, <1>10
  <1>12. moves \subseteq Ino
    BY DEF moves
  <1>13. Linked'
    <2>1. byIno'[RootIno] = Root /\ means'[RootIno] = Dir
      BY <1>1, <1>5, <1>6, <1>10 DEF Linked
    <2>2. \A n \in Ino : byIno'[n] = Root => n = RootIno
      BY <1>1, <1>6, <1>10, <1>11 DEF Linked
    <2>3. \A q \in Paths, n \in Ino : byPath'[q] = n <=> byIno'[n] = q
      <3> TAKE q \in Paths, n \in Ino
      <3>1. ASSUME byPath'[q] = n PROVE byIno'[n] = q
        <4>1. CASE q \in DOMAIN last
          <5>1. n \in moves /\ came[n] = q
            BY <1>4, <3>1, <4>1
          <5> QED
            BY <1>8, <5>1
        <4>2. CASE q \notin DOMAIN last
          <5>1. ~(\E m \in moves : byIno[m] = q) /\ byPath[q] = n
            BY <1>4, <1>6, <3>1, <4>2
          <5>2. byIno[n] = q /\ n \notin moves
            BY <1>1, <5>1 DEF Linked
          <5> QED
            BY <1>9, <5>2
        <4> QED
          BY <4>1, <4>2
      <3>2. ASSUME byIno'[n] = q PROVE byPath'[q] = n
        <4>0. byIno[n] \in Paths
          BY <1>11, <3>2
        <4>1. CASE n \in moves
          <5>1. q = came[n] /\ q \in DOMAIN last
            BY <1>4, <1>8, <3>2, <4>1
          <5>2. last[q] \in moves /\ came[last[q]] = q
            BY <1>4, <5>1
          <5>3. byIno[last[q]] = byIno[n]
            BY <1>8, <1>12, <4>1, <5>1, <5>2
          <5>4. last[q] = n
            BY <1>1, <1>12, <4>0, <5>2, <5>3 DEF Linked
          <5> QED
            BY <1>4, <5>1, <5>4
        <4>2. CASE n \notin moves
          <5>1. byIno[n] = q /\ ~IsPrefix(from, q) /\ ~IsPrefix(to, q)
            BY <1>9, <3>2, <4>0, <4>2
          <5>2. q \notin DOMAIN last
            BY <1>4, <1>8, <1>12, <5>1
          <5>3. ~(\E m \in moves : byIno[m] = q)
            BY <5>1 DEF moves
          <5>4. byPath'[q] = byPath[q]
            BY <1>4, <5>2, <5>3
          <5> QED
            BY <1>1, <5>1, <5>4 DEF Linked
        <4> QED
          BY <4>1, <4>2
      <3> QED
        BY <3>1, <3>2
    <2>4. ASSUME NEW n \in Ino, byIno'[n] \in Paths
          PROVE  vfs'[byIno'[n]] = means'[n] /\ Exists(vfs', byIno'[n])
      <3>1. byIno[n] \in Paths /\ vfs'[byIno'[n]] = vfs[byIno[n]]
        BY <1>11, <2>4
      <3> QED
        BY <1>1, <1>5, <3>1 DEF Linked, Exists
    <2>5. \A n \in live' : byIno'[n] # None
      <3> TAKE n \in live'
      <3>1. n \in live /\ n \in Ino /\ byIno[n] # None
        BY <1>1, <1>5 DEF Linked, Typed, TypeOK
      <3> QED
        BY <1>6, <1>10, <1>11, <3>1
    <2>6. \A n \in open' : means'[n] \in Data
      BY <1>1, <1>5 DEF Linked
    <2> QED
      BY <2>1, <2>2, <2>3, <2>4, <2>5, <2>6 DEF Linked
  <1>14. Grown(vfs)' /\ Single(vfs)'
    <2>1. Grown(Taken(vfs, from, to)) /\ Single(Taken(vfs, from, to))
      BY <1>1, <1>2, TakenGrown, TakenSingle
    <2> QED
      BY <1>3, <2>1
  <1>15. \A h \in Ino : Reach(h)' = Reach(h)
    BY <1>5, <1>11 DEF Reach, IsFile
  <1>16. Posix!Move
    <2>1. /\ ~Posix!IsPrefix(from, to) /\ ~Posix!IsPrefix(to, from)
          /\ Posix!Exists(vfs, from) /\ Posix!IsDir(vfs, Posix!Parent(to))
          /\ \A q \in Posix!Subtree(vfs, from) : Posix!Moved(q, from, to) \in Posix!Paths
      BY <1>2, Same DEF Move
    <2>2. vfs[to] = None /\ ~Posix!IsFile(vfs, to)
          /\ \A q \in Posix!Below(to) : ~Posix!Exists(vfs, q)
      BY <1>1, <1>2, Same, NothingBelow, NodeAssumption DEF Exists, IsFile
    <2>3. vfs' = [q \in Posix!Paths |->
                  IF Posix!IsPrefix(to, q)
                  THEN IF Posix!Moved(q, to, from) \in Posix!Paths
                       THEN vfs[Posix!Moved(q, to, from)] ELSE None
                  ELSE IF Posix!IsPrefix(from, q) THEN None ELSE vfs[q]]
      BY <1>3, Same DEF Taken
    <2>4. Posix!Lose({vfs[to]} \cap Data)
      BY <1>15, <2>2, NodeAssumption DEF Posix!Lose
    <2>5. from \in Posix!Paths /\ to \in Posix!Paths
      BY Same
    <2> QED
      BY <2>1, <2>2, <2>3, <2>4, <2>5, NodeAssumption DEF Posix!Move
  <1> QED
    BY <1>13, <1>14, <1>16 DEF Good, Shown, Posix!Next, Reached

-----------------------------------------------------------------------------
(* Every step *)

LEMMA StepTyped == ASSUME Typed, [Next]_vars PROVE Typed'
  <1>1. CASE UNCHANGED vars
    BY <1>1 DEF vars, Typed, TypeOK, Named
  <1>2. ASSUME NEW i \in Ino, NEW p \in Paths, Lookup(i, p) PROVE Typed'
    <2>1. vfs[p] \in Data \cup {Dir, None} /\ vfs \in Trees
      BY DEF Typed, TypeOK, Trees
    <2> QED
      BY <1>2, <2>1, InternTyped DEF Lookup
  <1>3. ASSUME NEW i \in Ino, NEW p \in Paths, Create(i, p) PROVE Typed'
    <2>1. PICK d \in Data : vfs' = Write(vfs, p, d) /\ Intern(p, d)
      BY <1>3 DEF Create
    <2>2. vfs' \in Trees
      BY <2>1, TreeType DEF Typed, TypeOK
    <2> QED
      BY <1>3, <2>1, <2>2, InternTyped DEF Create
  <1>4. ASSUME NEW i \in Ino, NEW p \in Paths, MakeDirectory(i, p) PROVE Typed'
    <2>1. vfs' \in Trees
      BY <1>4, TreeType DEF MakeDirectory, Typed, TypeOK
    <2> QED
      BY <1>4, <2>1, InternTyped DEF MakeDirectory
  <1>5. ASSUME NEW i \in Ino, NEW p \in Paths, RemoveFile(i, p) \/ RemoveDirectory(i, p) PROVE Typed'
    <2>1. vfs' \in Trees
      BY <1>5, TreeType DEF RemoveFile, RemoveDirectory, Typed, TypeOK
    <2> QED
      BY <1>5, <2>1, ForgetTyped DEF RemoveFile, RemoveDirectory
  <1>6. ASSUME NEW i \in Ino, OpenFile(i) \/ CloseFile(i) PROVE Typed'
    BY <1>6 DEF OpenFile, CloseFile, table, Typed, TypeOK, Named
  <1> QED
    BY <1>1, <1>2, <1>3, <1>4, <1>5, <1>6, MoveTyped, WriteTyped, RemountTyped DEF Next

LEMMA StepGood ==
  ASSUME Typed, Good, Next, ~broken'
  PROVE  Good' /\ Shown
  <1>1. ASSUME NEW i \in Ino, NEW j \in Ino, NEW from \in Paths, NEW to \in Paths, Move(i, from, j, to)
        PROVE  Good' /\ Shown
    <2>1. ~Exists(vfs, to)
      BY <1>1 DEF Move
    <2> QED
      BY <1>1, <2>1, MoveGood
  <1> QED
    BY <1>1, LookupGood, CreateGood, MakeDirectoryGood, RemoveFileGood, RemoveDirectoryGood,
       OpenFileGood, CloseFileGood, WriteFileGood, RemountGood DEF Next

\* Once a rename has replaced something, nothing is promised again.
LEMMA StepBroken == ASSUME Typed, [Next]_vars, broken PROVE broken'
  BY DEF Next, vars, Lookup, Create, MakeDirectory, RemoveFile, RemoveDirectory, Move,
         OpenFile, CloseFile, WriteFile, Remount

LEMMA StepIInv ==
  ASSUME IInv, [Next]_vars
  PROVE  IInv' /\ [broken' \/ Posix!Next]_<<vfs, Reached>>
  <1>1. Typed /\ Typed'
    BY StepTyped DEF IInv, Typed
  <1>2. broken' \in BOOLEAN
    BY <1>1 DEF Typed, TypeOK
  <1>3. CASE broken'
    BY <1>1, <1>3 DEF IInv, Typed
  <1>4. CASE ~broken'
    <2>1. Good
      BY <1>1, <1>4, StepBroken DEF IInv
    <2>2. CASE Next
      BY <1>1, <1>4, <2>1, <2>2, StepGood DEF IInv, Typed, Shown
    <2>3. CASE UNCHANGED vars
      <3>1. Good'
        BY <2>1, <2>3 DEF vars, Good, Grown, Single, Linked, Exists
      <3>2. Reached' = Reached /\ vfs' = vfs
        BY <2>3 DEF vars, Reached, Reach, IsFile
      <3> QED
        BY <1>1, <3>1, <3>2 DEF IInv, Typed
    <2> QED
      BY <2>2, <2>3
  <1> QED
    BY <1>2, <1>3, <1>4

LEMMA InvariantHolds == Spec => []IInv
  <1>1. Init => IInv
    BY InitIInv
  <1>2. IInv /\ [Next]_vars => IInv'
    BY StepIInv
  <1> QED
    BY <1>1, <1>2, PTL DEF Spec

-----------------------------------------------------------------------------
(* What holds *)

\* Until a rename replaces something, whatever is in a mounted volume is in a
\* directory of it; and the inode table always is as it should be (VolumeFs and
\* its InodeTable).
THEOREM ConsistentHolds == Spec => []Consistent
  <1>1. IInv => Consistent
    BY ConsistentFromIInv
  <1> QED
    BY <1>1, InvariantHolds, PTL

\* Until then the mount is a file system: however names are made, moved and removed,
\* the number a program has open reads and writes the file it was opened on, and
\* nothing goes but what was asked for (VolumeFs over InodeTable).
THEOREM ImplementsPosixHolds == Spec => ImplementsPosix
  <1>1. Init => Posix!Init
    BY InitPosix
  <1>2. IInv /\ [Next]_vars => [broken' \/ Posix!Next]_<<vfs, [i \in Ino |-> Reach(i)]>>
    BY StepIInv DEF Reached
  <1> QED
    BY <1>1, <1>2, InvariantHolds, PTL DEF Spec, ImplementsPosix, Posix!Spec

-----------------------------------------------------------------------------
(* Ways through the tree *)

LEMMA AncestorOf ==
  ASSUME NEW p \in Paths, NEW q \in Ancestors(p)
  PROVE  q \in Paths /\ q # p /\ Ancestors(q) \subseteq Ancestors(p) /\ p \notin Ancestors(q)
  <1>1. /\ q \in Paths /\ q # p /\ IsPrefix(q, p)
        /\ p \in Seq(Name) /\ q \in Seq(Name)
    BY AncestorIs, PathIs
  <1>2. ASSUME NEW r \in Ancestors(q) PROVE r \in Ancestors(p) /\ r # p
    <2>1. r \in Paths /\ r # q /\ IsPrefix(r, q) /\ r \in Seq(Name)
      BY <1>1, AncestorIs, PathIs
    <2>2. IsPrefix(r, p)
      BY <1>1, <2>1, PrefixTrans
    <2>3. r # p
      BY <1>1, <2>1, PrefixAntisym
    <2> QED
      BY <2>1, <2>2, <2>3, AncestorIs
  <1> QED
    BY <1>1, <1>2

LEMMA AncestorsLinear ==
  ASSUME NEW p \in Paths, NEW q \in {p} \cup Ancestors(p), NEW r \in {p} \cup Ancestors(p)
  PROVE  q = r \/ q \in Ancestors(r) \/ r \in Ancestors(q)
  <1>1. \A x \in {p} \cup Ancestors(p) : x \in Paths /\ IsPrefix(x, p) /\ x \in Seq(Name)
    BY AncestorIs, PathIs, PrefixRefl
  <1>2. IsPrefix(q, r) \/ IsPrefix(r, q)
    <2>1. q \in Seq(Name) /\ r \in Seq(Name) /\ p \in Seq(Name) /\ IsPrefix(q, p) /\ IsPrefix(r, p)
      BY <1>1, PathIs
    <2> QED
      BY <2>1, PrefixesLinear
  <1> QED
    BY <1>1, <1>2, AncestorIs

\* A set of paths that is not empty has one with none of the others above it.
LEMMA Topmost ==
  ASSUME NEW C \in SUBSET Paths, C # {}
  PROVE  \E u \in C : Ancestors(u) \cap C = {}
  <1> DEFINE Less == {r \in Nat \X Nat : r[1] < r[2]}
             I == {Len(c) : c \in C}
  <1>1. IsWellFoundedOn(Less, Nat)
    BY NatLessThanWellFounded, Zenon DEF OpToRel
  <1>2. I \in SUBSET Nat /\ I # {}
    <2>1. \A c \in C : Len(c) \in Nat
      BY PathIs, LenProperties
    <2> QED
      BY <2>1
  <1>3. PICK i \in I : \A n \in I : ~(<<n, i>> \in Less)
    <2> HIDE DEF I
    <2> QED
      BY <1>1, <1>2, WFMin, Zenon
  <1>4. PICK u \in C : Len(u) = i
    BY <1>3
  <1>5. \A c \in C : Len(c) \in Nat /\ Len(u) \in Nat /\ ~(Len(c) < Len(u))
    BY <1>2, <1>3, <1>4
  <1>6. ASSUME NEW a \in Ancestors(u) PROVE Len(a) \in Nat /\ Len(a) < Len(u)
    <2>1. a \in Paths /\ a # u /\ IsPrefix(a, u) /\ a \in Seq(Name) /\ u \in Seq(Name)
      BY AncestorIs, PathIs
    <2>2. Len(a) <= Len(u) /\ \A j \in 1..Len(a) : a[j] = u[j]
      BY <2>1, PrefixIs
    <2>3. Len(a) # Len(u)
      BY <2>1, <2>2, SeqEqual
    <2> QED
      BY <2>1, <2>2, <2>3, LenProperties
  <1> QED
    BY <1>5, <1>6

\* A set that has the parents of its members has the whole way to them.
LEMMA RootedWay ==
  ASSUME NEW P \in SUBSET Paths, Rooted(P), NEW p \in P
  PROVE  Ancestors(p) \subseteq P
  <1> SUFFICES ASSUME NEW a \in Ancestors(p), a \notin P PROVE FALSE
    OBVIOUS
  <1> DEFINE C == {c \in P : a \in Ancestors(c)}
  <1>1. PICK u \in C : Ancestors(u) \cap C = {}
    <2>1. C \in SUBSET Paths /\ C # {}
      OBVIOUS
    <2> HIDE DEF C
    <2> QED
      BY <2>1, Topmost
  <1>2. u \in Paths /\ u \in P /\ a \in Ancestors(u)
    OBVIOUS
  <1>3. /\ Parent(u) \in Paths /\ Parent(u) \in Ancestors(u)
        /\ a = Parent(u) \/ a \in Ancestors(Parent(u))
    BY <1>2, ParentIs
  <1>4. Parent(u) \in P
    BY <1>2, <1>3, RootIs DEF Rooted
  <1> QED
    BY <1>1, <1>3, <1>4

-----------------------------------------------------------------------------
(* What is made of a tree stays one *)

LEMMA VisibleGrown ==
  ASSUME NEW v \in Trees
  PROVE  Visible(v) \in Trees /\ Grown(Visible(v))
  <1>1. Visible(v) \in Trees
    BY DEF Visible, Trees
  <1>2. ASSUME NEW p \in Paths, Exists(Visible(v), p), NEW q \in Ancestors(p)
        PROVE  Visible(v)[q] = Dir
    <2>1. p \in Listed(v)
      BY <1>2 DEF Visible, Exists
    <2>2. v[q] = Dir /\ q \in Paths /\ \A r \in Ancestors(q) : v[r] = Dir
      BY <2>1, AncestorOf DEF Listed
    <2>3. q \in Listed(v)
      BY <2>2, NodeAssumption DEF Listed, Nodes, Exists
    <2> QED
      BY <2>2, <2>3 DEF Visible
  <1> QED
    BY <1>1, <1>2 DEF Grown

LEMMA PutGrown ==
  ASSUME NEW v \in Trees, Grown(v), NEW p \in Paths, \A a \in Ancestors(p) : v[a] = Dir,
         NEW n \in Data \cup {Dir, None}
  PROVE  Put(v, p, n) \in Trees /\ Grown(Put(v, p, n))
  <1> DEFINE w == Put(v, p, n)
  <1>1. \A q \in Paths : w[q] = IF q = p THEN n ELSE IF q \in Below(p) THEN None ELSE v[q]
    BY DEF Put
  <1>2. w \in Trees
    BY DEF Put, Trees
  <1>3. ASSUME NEW q \in Paths, Exists(w, q), NEW a \in Ancestors(q) PROVE w[a] = Dir
    <2>1. a \in Paths /\ q \notin Below(p)
      BY <1>1, <1>3, AncestorOf, AncestorIs DEF Exists
    <2>2. v[a] = Dir
      BY <1>1, <1>3, <2>1 DEF Grown, Exists
    <2>3. a # p
      BY <2>1, <1>3, BelowIs
    <2>4. a \notin Below(p)
      <3>1. a \in Below(p) => p \in Ancestors(a)
        BY <2>1, BelowIs
      <3>2. p \in Ancestors(a) => p \in Ancestors(q)
        BY <1>3, AncestorOf
      <3> QED
        BY <2>1, <3>1, <3>2, BelowIs
    <2> QED
      BY <1>1, <2>1, <2>2, <2>3, <2>4
  <1> QED
    BY <1>2, <1>3 DEF Grown

\* Folders where a way needs them.
RaisedTo(v, p) == [q \in Paths |-> IF q \in Ancestors(p) THEN Dir ELSE v[q]]

LEMMA RaisedGrown ==
  ASSUME NEW v \in Trees, Grown(v), NEW p \in Paths
  PROVE  /\ RaisedTo(v, p) \in Trees /\ Grown(RaisedTo(v, p))
         /\ \A a \in Ancestors(p) : RaisedTo(v, p)[a] = Dir
  <1> DEFINE w == RaisedTo(v, p)
  <1>1. w \in Trees /\ \A q \in Paths : w[q] = IF q \in Ancestors(p) THEN Dir ELSE v[q]
    BY DEF RaisedTo, Trees
  <1>2. \A a \in Ancestors(p) : w[a] = Dir
    BY <1>1, AncestorOf
  <1>3. ASSUME NEW q \in Paths, Exists(w, q), NEW a \in Ancestors(q) PROVE w[a] = Dir
    <2>1. a \in Paths
      BY <1>3, AncestorOf
    <2>2. CASE q \in Ancestors(p)
      BY <1>2, <1>3, <2>2, AncestorOf
    <2>3. CASE q \notin Ancestors(p)
      BY <1>1, <1>3, <2>1, <2>3 DEF Grown, Exists
    <2> QED
      BY <2>2, <2>3
  <1> QED
    BY <1>1, <1>2, <1>3 DEF Grown

LEMMA CutGrown ==
  ASSUME NEW v \in Trees, Grown(v), NEW P \in SUBSET Files(v)
  PROVE  CutAt(v, P) \in Trees /\ Grown(CutAt(v, P)) /\ Nodes(CutAt(v, P)) = Nodes(v)
  <1> DEFINE w == CutAt(v, P)
  <1>1. w \in Trees /\ \A q \in Paths : w[q] = IF q \in P THEN Cut ELSE v[q]
    BY CutAssumption DEF CutAt, Trees
  <1>2. \A q \in P : v[q] \in Data /\ v[q] # None /\ v[q] # Dir /\ Cut # None
    BY CutAssumption, NodeAssumption DEF Files, IsFile
  <1>3. \A q \in Paths : Exists(w, q) <=> Exists(v, q)
    BY <1>1, <1>2 DEF Exists
  <1>4. ASSUME NEW q \in Paths, Exists(w, q), NEW a \in Ancestors(q) PROVE w[a] = Dir
    BY <1>1, <1>2, <1>3, <1>4, AncestorOf DEF Grown
  <1> QED
    BY <1>1, <1>3, <1>4 DEF Grown, Nodes

LEMMA PartGrown ==
  ASSUME NEW v \in Trees, NEW P \in SUBSET Paths, Rooted(P),
         \A p \in P : \A a \in Ancestors(p) : v[a] = Dir
  PROVE  Part(v, P) \in Trees /\ Grown(Part(v, P))
  <1> DEFINE w == Part(v, P)
  <1>1. w \in Trees /\ \A q \in Paths : w[q] = IF q \in P THEN v[q] ELSE None
    BY DEF Part, Trees
  <1>2. ASSUME NEW q \in Paths, Exists(w, q), NEW a \in Ancestors(q) PROVE w[a] = Dir
    <2>1. q \in P
      BY <1>1, <1>2 DEF Exists
    <2>2. a \in P /\ a \in Paths /\ v[a] = Dir
      BY <2>1, <1>2, RootedWay, AncestorOf
    <2> QED
      BY <1>1, <2>2
  <1> QED
    BY <1>1, <1>2 DEF Grown

-----------------------------------------------------------------------------
(* The inductive invariant of the folder *)

Placed ==
  /\ sealed \in Trees /\ tree \in Trees
  /\ host \in Trees /\ Grown(host)
  /\ want \in Trees /\ Grown(want)
  /\ pc \in {"locked", "open", "importing", "shredding"}
  /\ seen \subseteq Paths /\ spoilt \subseteq Paths /\ missed \subseteq Paths
  /\ edits \in 0 .. MaxEdits /\ faults \in 0 .. MaxFaults
  /\ pc # "importing" => seen = {}

\* Of what an import may have got wrong it may have all below wrong.
Deep(P) == \A p \in P : Below(p) \subseteq P

\* What an import has read is there, on a way of directories it has read too.
Reading ==
  /\ \A p \in seen : Exists(tree, p) /\ \A a \in Ancestors(p) : a \in seen /\ tree[a] = Dir
  /\ \A p \in seen \ missed : tree[p] = host[p]

\* A folder that is there is as the programs want it.
Agreed ==
  pc \in {"open", "importing"} \/ (pc = "locked" /\ host # Empty) =>
    \A p \in Paths \ (spoilt \cup missed) : host[p] = want[p]

FolderInv == Placed /\ Deep(missed) /\ Reading /\ Agreed /\ SealedIsWanted

LEMMA ClosesFromFolderInv == FolderInv => ClosesFaithfully
  <1> SUFFICES ASSUME FolderInv PROVE ClosesFaithfully
    OBVIOUS
  <1>1. Treelike(host) /\ Treelike(want)
    BY GrownTree DEF FolderInv, Placed
  <1>2. \A p \in seen : Parent(p) \in seen \cup {Root} /\ Exists(tree, p)
    <2> TAKE p \in seen
    <2>1. p \in Paths
      BY DEF FolderInv, Placed
    <2> QED
      BY <2>1, ParentIs DEF FolderInv, Reading
  <1> QED
    BY <1>1, <1>2 DEF FolderInv, Placed, FolderTypeOK, ClosesFaithfully

LEMMA EmptyGrown == Empty \in Trees /\ Grown(Empty)
  BY DEF Empty, Trees, Grown, Exists

LEMMA InitFolder == FolderInit => FolderInv
  <1> SUFFICES ASSUME FolderInit PROVE FolderInv
    OBVIOUS
  <1>1. PICK P \in {Q \in SUBSET Paths : IsFiniteSet(Q) /\ Cardinality(Q) <= MaxNodes} :
          \E v \in [P -> (Data \ {Cut}) \cup {Dir}] :
            /\ edits = Cardinality(P)
            /\ sealed = [p \in Paths |-> IF p \in P THEN v[p] ELSE None]
    BY DEF FolderInit
  <1>2. edits \in 0 .. MaxEdits
    <2>1. Cardinality(P) \in Nat /\ Cardinality(P) <= MaxNodes
      BY <1>1, FS_CardinalityType
    <2> QED
      BY <1>1, <2>1, BoundsAssumption
  <1>3. sealed \in Trees
    BY <1>1 DEF Trees
  <1>4. Visible(sealed) \in Trees /\ Grown(Visible(sealed))
    BY <1>3, VisibleGrown
  <1>5. Placed
    BY <1>2, <1>3, <1>4, EmptyGrown, BoundsAssumption DEF Placed, FolderInit
  <1>6. Deep(missed) /\ Reading /\ Agreed /\ SealedIsWanted
    BY DEF FolderInit, Deep, Reading, Agreed, SealedIsWanted
  <1> QED
    BY <1>5, <1>6 DEF FolderInv

-----------------------------------------------------------------------------
(* Removing what is no longer there *)

LEMMA AtOrBelowIs ==
  ASSUME NEW p \in Paths, NEW q \in Paths
  PROVE  q \in AtOrBelow(p) <=> q = p \/ p \in Ancestors(q)
  BY BelowIs DEF AtOrBelow

\* What is outside a set that has all below its members is not below one of them.
LEMMA DeepOut ==
  ASSUME NEW M \in SUBSET Paths, Deep(M), NEW p \in Paths \ M
  PROVE  \A a \in Ancestors(p) : a \in Paths \ M
  BY AncestorOf, BelowIs DEF Deep

\* A directory of v that may have had to stay, or what is below one.
Stays(v, p) ==
  \E u \in Listed(v) : p \in AtOrBelow(u) /\ v[u] = Dir /\ Below(u) \cap Hidden(v) # {}

LEMMA StickyIs == \A p : Sticky(p) <=> Stays(sealed, p)
  BY DEF Sticky, Stays

\* After a sweep the volume has what the folder has, but for what is in M: what has
\* been read is not removed, and what has not been read and stays is stuck.
LEMMA SweepKeeps ==
  ASSUME Placed, Reading, NEW M \in SUBSET Paths, Deep(M), missed \subseteq M,
         \A p \in Nodes(host) : Parent(p) \in Entered => p \in seen \cup M,
         NEW stale \in SUBSET M, Sweep(stale)
  PROVE  /\ tree' \in Trees
         /\ \A p \in Paths \ M : Visible(tree')[p] = host[p] \/ Stays(tree', p)
  <1> DEFINE unseen == {p \in Nodes(tree) : Parent(p) \in Entered /\ p \notin seen \cup stale}
             listed == Listed(tree) \cap UNION {AtOrBelow(u) : u \in unseen}
             kept   == Nodes(tree) \ listed
             stuck  == {p \in listed : tree[p] = Dir /\ Below(p) \cap kept # {}}
             whole  == {u \in unseen : stuck \cap AtOrBelow(u) = {}}
             must   == listed \cap UNION {AtOrBelow(u) : u \in whole}
  <1>1. PICK gone : must \subseteq gone /\ gone \subseteq listed /\ tree' = Part(tree, Paths \ gone)
    <2>1. PICK more \in SUBSET (listed \ (must \cup stuck)) :
            tree' = Part(tree, Paths \ (must \cup more))
      BY DEF Sweep
    <2> QED
      BY <2>1
  <1> DEFINE w == Part(tree, Paths \ gone)
  <1>2. /\ w \in Trees
        /\ \A p \in Paths : w[p] = IF p \in gone THEN None ELSE tree[p]
    BY DEF Placed, Part, Trees
  <1>3. Listed(tree) \subseteq Nodes(tree) /\ Nodes(tree) \subseteq Paths
    BY DEF Listed, Nodes
  <1>4. ASSUME NEW p \in seen PROVE p \in Paths /\ p \notin listed /\ w[p] = tree[p]
    <2>1. p \in Paths
      BY DEF Placed
    <2>2. ASSUME NEW u \in unseen, p \in AtOrBelow(u) PROVE FALSE
      <3>0. u \in Paths /\ u \notin seen
        BY <1>3
      <3>1. p = u \/ u \in Ancestors(p)
        BY <2>1, <2>2, <3>0, AtOrBelowIs
      <3>2. u \in seen
        BY <3>1 DEF Reading
      <3> QED
        BY <3>0, <3>2
    <2>3. p \notin listed
      <3> HIDE DEF unseen
      <3> QED
        BY <2>2
    <2> HIDE DEF w, listed, must
    <2> QED
      BY <1>1, <1>2, <2>1, <2>3
  <1> HIDE DEF w, listed
  <1> SUFFICES ASSUME NEW p \in Paths \ M PROVE Visible(w)[p] = host[p] \/ Stays(w, p)
    BY <1>1, <1>2 DEF w
  <1>5. p \in Paths /\ \A a \in Ancestors(p) : a \in Paths \ M
    BY DeepOut
  <1> DEFINE way == {p} \cup Ancestors(p)
  <1>6. \A a \in way : a \in Paths \ M /\ Ancestors(a) \subseteq Ancestors(p)
    BY <1>5, AncestorOf
  \* The topmost of the way to p that has not been read.
  <1>7. ASSUME ~(way \subseteq seen)
        PROVE  \E u \in way \ seen : Ancestors(u) \subseteq seen
    <2> DEFINE C == way \ seen
    <2>1. C \in SUBSET Paths /\ C # {}
      BY <1>6, <1>7
    <2>2. PICK u \in C : Ancestors(u) \cap C = {}
      <3> HIDE DEF C
      <3> QED
        BY <2>1, Topmost
    <2> QED
      BY <1>6, <2>2
  <1>8. ASSUME NEW u \in way, Ancestors(u) \subseteq seen,
               \A a \in Ancestors(u) : tree[a] = Dir
        PROVE  Parent(u) \in Entered
    <2>1. Parent(u) \in Ancestors(u) \cup {Root}
      BY <1>6, ParentIs
    <2> QED
      BY <1>8, <2>1 DEF Entered
  <1> HIDE DEF way
  <1>9. CASE Exists(host, p)
    <2>1. \A a \in Ancestors(p) : host[a] = Dir
      BY <1>5, <1>9 DEF Placed, Grown
    <2>2. way \subseteq seen
      <3> SUFFICES ASSUME ~(way \subseteq seen) PROVE FALSE
        OBVIOUS
      <3>1. PICK u \in way \ seen : Ancestors(u) \subseteq seen
        BY <1>7
      <3>2. \A a \in Ancestors(u) : tree[a] = Dir
        BY <1>5, <1>6, <2>1, <3>1 DEF Reading
      <3>3. Parent(u) \in Entered
        BY <1>8, <3>1, <3>2
      <3>4. u \in Nodes(host)
        BY <1>6, <1>9, <2>1, NodeAssumption DEF way, Nodes, Exists
      <3> QED
        BY <1>6, <3>1, <3>3, <3>4
    <2>3. \A a \in way : w[a] = host[a]
      BY <1>4, <1>6, <2>2 DEF Reading
    <2>4. p \in Listed(w)
      BY <1>5, <1>9, <2>1, <2>3 DEF Listed, Nodes, Exists, way
    <2> QED
      BY <1>5, <2>3, <2>4 DEF Visible, way
  <1>10. CASE ~Exists(host, p)
    <2> SUFFICES ASSUME p \in Listed(w) PROVE Stays(w, p)
      BY <1>5, <1>10 DEF Visible, Exists
    <2>1. /\ Exists(w, p) /\ w[p] = tree[p]
          /\ \A a \in Ancestors(p) : w[a] = Dir /\ tree[a] = Dir
      BY <1>2, <1>5, NodeAssumption DEF Listed, Nodes, Exists
    <2>2. p \notin seen
      BY <1>5, <1>10, <2>1 DEF Reading, Exists
    <2>3. PICK u \in way \ seen : Ancestors(u) \subseteq seen
      BY <1>7, <2>2 DEF way
    <2>4. u \in Paths /\ u \notin M /\ Ancestors(u) \subseteq Ancestors(p)
      BY <1>6, <2>3
    <2>5. u \in unseen /\ p \in AtOrBelow(u)
      <3>1. Parent(u) \in Entered
        BY <1>8, <2>1, <2>3, <2>4
      <3>2. Exists(tree, u)
        BY <2>1, <2>3, NodeAssumption DEF way, Exists
      <3> QED
        BY <1>5, <2>3, <2>4, <3>1, <3>2, AtOrBelowIs DEF Nodes, way
    <2>6. p \in listed /\ p \notin gone
      <3>1. p \in Listed(tree)
        BY <1>5, <2>1 DEF Listed, Nodes, Exists
      <3> QED
        BY <1>2, <1>5, <2>1, <2>5, <3>1 DEF listed, Exists
    <2>7. PICK s \in stuck : s \in AtOrBelow(u)
      BY <1>1, <2>5, <2>6
    <2>8. s \in listed /\ tree[s] = Dir /\ s \in Listed(tree) /\ s \in Paths
      BY <1>3, <2>7 DEF listed
    <2>9. PICK k \in Below(s) : k \in Nodes(tree) /\ k \notin listed
      BY <2>7
    <2>10. k \in Below(u)
      <3>1. s = u \/ u \in Ancestors(s)
        BY <2>4, <2>7, <2>8, AtOrBelowIs
      <3>2. k \in Paths /\ s \in Ancestors(k)
        BY <1>3, <2>8, <2>9, BelowIs
      <3>3. u \in Ancestors(k)
        BY <3>1, <3>2, AncestorOf
      <3> QED
        BY <2>4, <3>2, <3>3, BelowIs
    <2>11. k \notin Listed(tree)
      BY <2>5, <2>9, <2>10 DEF listed, AtOrBelow
    <2>12. k \in Hidden(w)
      <3>1. k \in Paths /\ w[k] = tree[k] /\ Exists(w, k)
        BY <1>1, <1>2, <1>3, <2>9 DEF Nodes, Exists
      <3>2. PICK a \in Ancestors(k) : tree[a] # Dir
        BY <2>9, <2>11 DEF Listed
      <3>3. w[a] # Dir
        BY <1>2, <3>1, <3>2, AncestorOf, NodeAssumption
      <3> QED
        BY <3>1, <3>2, <3>3 DEF Hidden, Listed, Nodes
    <2>13. tree[u] = Dir
      BY <2>4, <2>7, <2>8, AtOrBelowIs DEF Listed
    <2>14. u \in Listed(w) /\ w[u] = Dir
      BY <2>1, <2>3, <2>4, <2>13, NodeAssumption DEF Listed, Nodes, Exists, way
    <2> QED
      BY <2>5, <2>10, <2>12, <2>14 DEF Stays
  <1> QED
    BY <1>9, <1>10

-----------------------------------------------------------------------------
(* Every step keeps it *)

\* Where neither the brick nor what is wanted changes, and nothing new is asked.
LEMMA StillWanted ==
  ASSUME SealedIsWanted, UNCHANGED <<sealed, want, missed>>, spoilt \subseteq spoilt',
         pc' = "shredding" \/ (pc' = "locked" /\ host' = Empty)
           => pc = "shredding" \/ (pc = "locked" /\ host = Empty)
  PROVE  SealedIsWanted'
  BY DEF SealedIsWanted, Sticky

\* Where the folder is recorded as spoilt, all the rest of it is as it is wanted.
LEMMA SpoilAgrees ==
  ASSUME FolderInv, host' \in Trees, Grown(host'), tree' \in Trees, pc' = "locked", seen' = {},
         IF host' = Empty THEN UNCHANGED spoilt ELSE Spoil(host'),
         pc = "shredding" \/ (pc = "locked" /\ host = Empty), Fault,
         UNCHANGED <<sealed, want, missed, edits>>
  PROVE  FolderInv'
  <1>1. Placed'
    <2>1. spoilt' \subseteq Paths
      BY DEF FolderInv, Placed, Spoil
    <2>2. faults' \in 0 .. MaxFaults
      BY BoundsAssumption DEF FolderInv, Placed, Fault
    <2> QED
      BY <2>1, <2>2 DEF FolderInv, Placed
  <1>2. Deep(missed)' /\ Reading'
    BY DEF FolderInv, Deep, Reading
  <1>3. Agreed'
    BY DEF Agreed, Spoil
  <1>4. SealedIsWanted'
    <2>1. spoilt \subseteq spoilt'
      BY DEF Spoil
    <2> QED
      BY <2>1, StillWanted DEF FolderInv
  <1> QED
    BY <1>1, <1>2, <1>3, <1>4 DEF FolderInv

LEMMA ExportKeeps == ASSUME FolderInv, Export PROVE FolderInv'
  <1>1. Visible(sealed) \in Trees /\ Grown(Visible(sealed))
    BY VisibleGrown DEF FolderInv, Placed
  <1>2. Placed'
    BY <1>1 DEF FolderInv, Placed, Export, Go
  <1>3. Deep(missed)' /\ Reading' /\ Agreed' /\ SealedIsWanted'
    BY DEF FolderInv, Placed, Deep, Reading, Agreed, SealedIsWanted, Export, Go
  <1> QED
    BY <1>2, <1>3 DEF FolderInv

LEMMA ExportStopsKeeps == ASSUME FolderInv, ExportStops PROVE FolderInv'
  <1>1. PICK done \in SUBSET Listed(sealed) :
          /\ Rooted(done)
          /\ \/ host' = Part(sealed, done)
             \/ \E p \in done \cap Files(sealed) : host' = CutAt(Part(sealed, done), {p})
    BY DEF ExportStops
  <1> DEFINE h == Part(sealed, done)
  <1>2. h \in Trees /\ Grown(h)
    <2>1. sealed \in Trees /\ done \in SUBSET Paths /\ Rooted(done)
      BY <1>1 DEF FolderInv, Placed, Listed, Nodes
    <2>2. \A p \in done : \A a \in Ancestors(p) : sealed[a] = Dir
      BY DEF Listed
    <2> QED
      BY <2>1, <2>2, PartGrown
  <1>3. ASSUME NEW p \in done \cap Files(sealed)
        PROVE  CutAt(h, {p}) \in Trees /\ Grown(CutAt(h, {p}))
    <2>1. {p} \in SUBSET Files(h)
      BY DEF Files, IsFile, Part
    <2> HIDE DEF h
    <2> QED
      BY <1>2, <2>1, CutGrown
  <1>4. host' \in Trees /\ Grown(host')
    BY <1>1, <1>2, <1>3
  <1>5. tree' \in Trees /\ seen' = {}
    BY DEF FolderInv, Placed, ExportStops, Go
  <1> QED
    BY <1>4, <1>5, SpoilAgrees DEF ExportStops, Go

LEMMA AdoptKeeps == ASSUME FolderInv, Adopt PROVE FolderInv'
  <1>1. Placed' /\ Deep(missed)' /\ Reading' /\ Agreed'
    BY DEF FolderInv, Placed, Deep, Reading, Agreed, Adopt, Go, hist
  <1>2. SealedIsWanted'
    BY DEF SealedIsWanted, Adopt, Go
  <1> QED
    BY <1>1, <1>2 DEF FolderInv

LEMMA EditKeeps ==
  ASSUME FolderInv, NEW p \in Paths, NEW n \in Data \cup {Dir, None}, Edit(p, n)
  PROVE  FolderInv'
  <1> DEFINE touched == AtOrBelow(p) \cup Ancestors(p)
  <1>1. /\ host' = Put(host, p, n) /\ want' = Put(RaisedTo(want, p), p, n)
        /\ UNCHANGED <<sealed, tree, pc, seen, faults>>
        /\ pc \in {"open", "importing"} \/ (pc = "locked" /\ host # Empty)
        /\ IsDir(host, Parent(p)) /\ edits < MaxEdits /\ edits' = edits + 1
    BY DEF Edit, RaisedTo
  <1>2. /\ spoilt' = (spoilt \ touched)
                       \cup IF pc = "locked" THEN Forgotten(host', want') ELSE {}
        /\ missed' = IF pc = "importing" THEN missed \cup AtOrBelow(p) ELSE missed \ touched
    BY DEF Edit
  <1>3. /\ host \in Trees /\ Grown(host) /\ want \in Trees /\ Grown(want)
        /\ spoilt \subseteq Paths /\ missed \subseteq Paths
    BY DEF FolderInv, Placed
  <1>4. \A a \in Ancestors(p) : host[a] = Dir
    BY <1>1, <1>3, Plain
  <1>5. host' \in Trees /\ Grown(host')
    BY <1>1, <1>3, <1>4, PutGrown
  <1>6. want' \in Trees /\ Grown(want')
    <2>1. /\ RaisedTo(want, p) \in Trees /\ Grown(RaisedTo(want, p))
          /\ \A a \in Ancestors(p) : RaisedTo(want, p)[a] = Dir
      BY <1>3, RaisedGrown
    <2> QED
      BY <1>1, <2>1, PutGrown
  <1>7. \A q \in Paths : q \in AtOrBelow(p) <=> q = p \/ p \in Ancestors(q)
    BY AtOrBelowIs
  <1>8. touched \subseteq Paths
    BY AncestorIs, AncestorOf DEF AtOrBelow
  <1>9. Placed'
    <2>1. spoilt' \subseteq Paths /\ missed' \subseteq Paths
      BY <1>2, <1>3, <1>8 DEF Forgotten
    <2>2. edits' \in 0 .. MaxEdits
      BY <1>1, BoundsAssumption DEF FolderInv, Placed
    <2> QED
      BY <1>1, <1>5, <1>6, <2>1, <2>2 DEF FolderInv, Placed
  <1>10. Deep(missed')
    <2> SUFFICES ASSUME NEW q \in missed', NEW r \in Below(q) PROVE r \in missed'
      BY DEF Deep
    <2>1. q \in Paths /\ r \in Paths /\ q \in Ancestors(r)
      BY <1>9, AncestorIs, BelowIs DEF Placed
    <2>2. q \in missed => r \in missed
      BY DEF FolderInv, Deep
    <2>3. q \in AtOrBelow(p) => r \in AtOrBelow(p)
      BY <1>7, <2>1, AncestorOf
    <2>4. r \in Ancestors(p) => q \in Ancestors(p)
      BY <2>1, AncestorOf
    <2>5. r \in AtOrBelow(p) => q \in touched
      BY <1>7, <2>1, AncestorsLinear
    <2> QED
      BY <1>2, <2>2, <2>3, <2>4, <2>5
  <1>11. \A q \in Paths \ touched : host'[q] = host[q] /\ want'[q] = want[q]
    BY <1>1 DEF Put, RaisedTo, AtOrBelow
  <1>12. Reading'
    <2>1. ASSUME NEW q \in seen \ missed' PROVE tree[q] = host'[q]
      <3>1. pc = "importing"
        BY <2>1 DEF FolderInv, Placed
      <3>2. q \in Paths /\ q \notin AtOrBelow(p) /\ q \notin missed
        BY <1>2, <2>1, <3>1 DEF FolderInv, Placed
      <3>3. host'[q] = host[q]
        BY <1>1, <3>2 DEF Put, AtOrBelow
      <3> QED
        BY <2>1, <3>2, <3>3 DEF FolderInv, Reading
    <2> QED
      BY <1>1, <2>1 DEF FolderInv, Reading
  <1>13. \A q \in touched : host'[q] = want'[q]
    <2> TAKE q \in touched
    <2>1. q \in Paths
      BY <1>8
    <2>2. CASE q \in AtOrBelow(p)
      BY <1>1, <2>1, <2>2 DEF Put, AtOrBelow
    <2>3. CASE q \in Ancestors(p) /\ q \notin AtOrBelow(p)
      BY <1>1, <1>4, <2>1, <2>3 DEF Put, RaisedTo, AtOrBelow
    <2> QED
      BY <2>2, <2>3
  <1>14. Agreed'
    <2> SUFFICES ASSUME NEW q \in Paths \ (spoilt' \cup missed') PROVE host'[q] = want'[q]
      BY DEF Agreed
    <2>1. CASE q \in touched
      BY <1>13, <2>1
    <2>2. CASE q \notin touched
      <3>1. q \notin spoilt /\ q \notin missed
        BY <1>2, <2>2
      <3> QED
        BY <1>1, <1>11, <2>2, <3>1 DEF FolderInv, Agreed
    <2> QED
      BY <2>1, <2>2
  <1>15. SealedIsWanted'
    <2> SUFFICES ASSUME pc = "locked", host' = Empty,
                        NEW q \in Paths \ (spoilt' \cup missed')
                 PROVE  Visible(sealed)[q] = want'[q]
      BY <1>1 DEF SealedIsWanted
    <2> QED
      BY <1>2 DEF Forgotten
  <1> QED
    BY <1>9, <1>10, <1>12, <1>14, <1>15 DEF FolderInv

LEMMA CloseKeeps == ASSUME FolderInv, Close PROVE FolderInv'
  <1>1. Placed' /\ Deep(missed)' /\ Reading' /\ Agreed'
    BY DEF FolderInv, Placed, Deep, Reading, Agreed, Close, Go, hist
  <1>2. SealedIsWanted'
    BY DEF SealedIsWanted, Close, Go
  <1> QED
    BY <1>1, <1>2 DEF FolderInv

LEMMA ImportEntryKeeps ==
  ASSUME FolderInv, NEW p \in Paths, ImportEntry(p)
  PROVE  FolderInv'
  <1>1. /\ pc = "importing" /\ pc' = "importing" /\ Exists(host, p) /\ Parent(p) \in Entered
        /\ p \notin seen /\ seen' = seen \cup {p}
        /\ UNCHANGED <<sealed, host, want, spoilt, missed, edits, faults>>
    BY DEF ImportEntry, Go, hist
  <1>2. tree \in Trees /\ host \in Trees /\ seen \subseteq Paths
    BY DEF FolderInv, Placed
  <1>3. \A a \in Ancestors(p) : a \in seen /\ tree[a] = Dir
    <2> TAKE a \in Ancestors(p)
    <2>1. Parent(p) \in Paths /\ (a = Parent(p) \/ a \in Ancestors(Parent(p)))
      BY ParentIs
    <2>2. Parent(p) \in seen /\ tree[Parent(p)] = Dir
      BY <1>1, <2>1, RootIs DEF Entered
    <2> QED
      BY <2>1, <2>2 DEF FolderInv, Reading
  <1>4. EnsureParents(tree, p) = tree /\ ~Blocked(tree, p)
    BY <1>2, <1>3, NodeAssumption DEF EnsureParents, Blocked, Exists, IsFile, Trees
  <1>5. tree' = [tree EXCEPT ![p] = host[p]]
    BY <1>4 DEF ImportEntry, Write, Mkdir
  <1>6. tree' \in Trees /\ tree'[p] = host[p] /\ \A q \in Paths \ {p} : tree'[q] = tree[q]
    <2>1. host[p] \in Data \cup {Dir, None}
      BY <1>2 DEF Trees
    <2> QED
      BY <1>2, <1>5, <2>1 DEF Trees
  <1>7. Placed' /\ Deep(missed)' /\ Agreed'
    BY <1>1, <1>6 DEF FolderInv, Placed, Deep, Agreed
  <1>8. Reading'
    <2>1. ASSUME NEW q \in seen, NEW a \in Ancestors(q) PROVE a # p /\ a \in Paths
      BY <1>1, <1>2, <2>1, AncestorOf DEF FolderInv, Reading
    <2>2. \A q \in seen : q \in Paths /\ q # p
      BY <1>1, <1>2
    <2>3. \A a \in Ancestors(p) : a \in Paths /\ a # p
      BY AncestorOf
    <2>4. ASSUME NEW q \in seen'
          PROVE  Exists(tree', q) /\ \A a \in Ancestors(q) : a \in seen' /\ tree'[a] = Dir
      <3>1. CASE q = p
        BY <1>1, <1>3, <1>6, <2>3, <3>1 DEF Exists
      <3>2. CASE q \in seen
        BY <1>1, <1>6, <2>1, <2>2, <3>2 DEF FolderInv, Reading, Exists
      <3> QED
        BY <1>1, <3>1, <3>2
    <2>5. \A q \in seen' \ missed' : tree'[q] = host'[q]
      BY <1>1, <1>6, <2>2 DEF FolderInv, Reading
    <2> QED
      BY <2>4, <2>5 DEF Reading
  <1>9. SealedIsWanted'
    BY <1>1 DEF SealedIsWanted
  <1> QED
    BY <1>7, <1>8, <1>9 DEF FolderInv

LEMMA ImportRefusedKeeps ==
  ASSUME FolderInv, NEW p \in Paths, ImportRefused(p)
  PROVE  FolderInv'
  <1>1. Placed' /\ Deep(missed)' /\ Reading' /\ Agreed'
    BY DEF FolderInv, Placed, Deep, Reading, Agreed, ImportRefused, Go, hist
  <1>2. SealedIsWanted'
    BY DEF SealedIsWanted, ImportRefused, Go
  <1> QED
    BY <1>1, <1>2 DEF FolderInv

LEMMA ImportFailsKeeps == ASSUME FolderInv, ImportFails PROVE FolderInv'
  <1>1. faults' \in 0 .. MaxFaults
    BY BoundsAssumption DEF FolderInv, Placed, Fault, ImportFails
  <1>2. Placed' /\ Deep(missed)' /\ Reading' /\ Agreed'
    BY <1>1 DEF FolderInv, Placed, Deep, Reading, Agreed, ImportFails, Go, hist
  <1>3. SealedIsWanted'
    BY DEF SealedIsWanted, ImportFails, Go
  <1> QED
    BY <1>2, <1>3 DEF FolderInv

\* What a sweep leaves is sealed.
LEMMA SealingKeeps ==
  ASSUME FolderInv, pc = "importing", pc' = "shredding", seen' = {}, sealed' = tree',
         missed' \in SUBSET Paths, Deep(missed'), missed \subseteq missed',
         \A p \in Nodes(host) : Parent(p) \in Entered => p \in seen \cup missed',
         NEW stale \in SUBSET missed', Sweep(stale),
         UNCHANGED <<host, want, spoilt, edits>>, faults' \in 0 .. MaxFaults
  PROVE  FolderInv'
  <1>1. /\ tree' \in Trees
        /\ \A p \in Paths \ missed' : Visible(tree')[p] = host[p] \/ Stays(tree', p)
    <2>1. Placed /\ Reading
      BY DEF FolderInv
    <2> QED
      BY <2>1, SweepKeeps
  <1>2. Placed'
    BY <1>1 DEF FolderInv, Placed
  <1>3. Reading' /\ Agreed'
    BY DEF Reading, Agreed
  <1>4. SealedIsWanted'
    <2> SUFFICES ASSUME NEW p \in Paths \ (spoilt \cup missed')
                 PROVE  Visible(tree')[p] = want[p] \/ Sticky(p)'
      BY DEF SealedIsWanted
    <2>1. host[p] = want[p]
      BY DEF FolderInv, Agreed
    <2>2. Sticky(p)' <=> Stays(tree', p)
      BY DEF Sticky, Stays
    <2> QED
      BY <1>1, <2>1, <2>2
  <1> QED
    BY <1>2, <1>3, <1>4 DEF FolderInv

LEMMA SealKeeps == ASSUME FolderInv, Seal PROVE FolderInv'
  <1>1. PICK stale \in SUBSET missed : Sweep(stale)
    BY DEF Seal
  <1>2. /\ pc = "importing" /\ pc' = "shredding" /\ seen' = {} /\ sealed' = tree'
        /\ UNCHANGED <<host, want, spoilt, missed, edits, faults>>
        /\ \A p \in Nodes(host) : Parent(p) \in Entered => p \in seen \cup missed
    BY DEF Seal, Go, hist
  <1>3. missed \in SUBSET Paths /\ Deep(missed) /\ faults \in 0 .. MaxFaults
    BY DEF FolderInv, Placed
  <1> QED
    BY <1>1, <1>2, <1>3, SealingKeeps

LEMMA SealBlindKeeps ==
  ASSUME FolderInv, NEW d \in Paths \cup {Root}, SealBlind(d)
  PROVE  FolderInv'
  <1> DEFINE entries == {p \in Paths : Parent(p) = d}
             dark    == UNION {AtOrBelow(p) : p \in entries \ seen}
  <1>1. /\ pc = "importing" /\ pc' = "shredding" /\ seen' = {} /\ sealed' = tree'
        /\ UNCHANGED <<host, want, spoilt, edits>> /\ Fault
        /\ \A p \in Nodes(host) : Parent(p) \in Entered \ {d} => p \in seen \cup missed
    BY DEF SealBlind, Go
  <1>2. missed' = missed \cup dark
    BY DEF SealBlind
  <1>3. \A p \in entries \ seen : p \in dark /\ p \in Paths
    BY DEF AtOrBelow
  <1>4. PICK stale \in {{}, entries} : Sweep(stale) /\ stale \subseteq missed'
    <2>1. Sweep({}) \/ (entries \cap seen = {} /\ Sweep(entries))
      BY DEF SealBlind
    <2>2. entries \cap seen = {} => entries \subseteq missed'
      BY <1>2, <1>3
    <2> QED
      BY <2>1, <2>2
  <1>5. missed \in SUBSET Paths /\ Deep(missed)
    BY DEF FolderInv, Placed
  <1>6. missed' \in SUBSET Paths /\ missed \subseteq missed'
    <2>1. \A p \in Paths : AtOrBelow(p) \subseteq Paths
      BY AncestorIs DEF AtOrBelow
    <2>2. dark \subseteq Paths
      BY <2>1
    <2> QED
      BY <1>2, <1>5, <2>2
  <1>7. Deep(missed')
    <2> SUFFICES ASSUME NEW q \in missed', NEW r \in Below(q) PROVE r \in missed'
      BY DEF Deep
    <2>1. q \in Paths /\ r \in Paths /\ q \in Ancestors(r)
      BY <1>6, AncestorIs, BelowIs
    <2>2. CASE q \in missed
      BY <1>2, <1>5, <2>2 DEF Deep
    <2>3. CASE q \in dark
      <3>1. PICK p \in entries \ seen : q \in AtOrBelow(p)
        BY <2>3
      <3>2. p \in Paths
        BY <1>3, <3>1
      <3>3. q = p \/ p \in Ancestors(q)
        BY <2>1, <3>1, <3>2, AtOrBelowIs
      <3>4. r \in AtOrBelow(p)
        BY <2>1, <3>2, <3>3, AtOrBelowIs, AncestorOf
      <3>5. r \in dark
        BY <3>1, <3>4
      <3> QED
        BY <1>2, <3>5
    <2> QED
      BY <1>2, <2>2, <2>3
  <1>8. \A p \in Nodes(host) : Parent(p) \in Entered => p \in seen \cup missed'
    BY <1>1, <1>2, <1>3 DEF Nodes
  <1>9. faults' \in 0 .. MaxFaults
    BY <1>1, BoundsAssumption DEF FolderInv, Placed, Fault
  <1> HIDE DEF entries, dark
  <1> QED
    BY <1>1, <1>4, <1>6, <1>7, <1>8, <1>9, SealingKeeps

LEMMA ShredKeeps == ASSUME FolderInv, Shred PROVE FolderInv'
  <1>1. Placed' /\ Deep(missed)' /\ Reading' /\ Agreed'
    BY EmptyGrown DEF FolderInv, Placed, Deep, Reading, Agreed, Shred, Go, hist
  <1>2. SealedIsWanted'
    BY StillWanted DEF FolderInv, Shred, Go, hist
  <1> QED
    BY <1>1, <1>2 DEF FolderInv

LEMMA ShredStopsKeeps == ASSUME FolderInv, ShredStops PROVE FolderInv'
  <1>1. host \in Trees /\ Grown(host)
    BY DEF FolderInv, Placed
  <1>2. host' \in Trees /\ Grown(host')
    <2>1. ASSUME NEW zeroed \in SUBSET Files(host)
          PROVE  CutAt(host, zeroed) \in Trees /\ Grown(CutAt(host, zeroed))
      BY <1>1, CutGrown
    <2>2. ASSUME NEW left \in SUBSET Nodes(host), Rooted(left)
          PROVE  /\ Part(CutAt(host, Files(host)), left) \in Trees
                 /\ Grown(Part(CutAt(host, Files(host)), left))
      <3> DEFINE h == CutAt(host, Files(host))
      <3>1. h \in Trees /\ Grown(h) /\ Nodes(h) = Nodes(host)
        BY <1>1, CutGrown
      <3>2. left \in SUBSET Paths /\ \A p \in left : \A a \in Ancestors(p) : h[a] = Dir
        BY <3>1 DEF Nodes, Grown
      <3> HIDE DEF h
      <3>3. Part(h, left) \in Trees /\ Grown(Part(h, left))
        BY <2>2, <3>1, <3>2, PartGrown
      <3> QED
        BY <3>3 DEF h
    <2> QED
      BY <2>1, <2>2 DEF ShredStops
  <1>3. tree' \in Trees /\ seen' = {}
    BY EmptyGrown DEF FolderInv, Placed, ShredStops, Go
  <1> QED
    BY <1>2, <1>3, SpoilAgrees DEF ShredStops, Go

LEMMA CrashKeeps == ASSUME FolderInv, Crash PROVE FolderInv'
  <1>1. /\ pc \in {"open", "importing"} /\ pc' = "locked" /\ Fault /\ tree' = Empty /\ seen' = {}
        /\ spoilt' = spoilt \cup Forgotten(host, want)
        /\ UNCHANGED <<sealed, host, want, missed, edits>>
    BY DEF Crash
  <1>2. faults' \in 0 .. MaxFaults
    BY <1>1, BoundsAssumption DEF FolderInv, Placed, Fault
  <1>3. Placed'
    BY <1>1, <1>2, EmptyGrown DEF FolderInv, Placed, Forgotten
  <1>4. Deep(missed)' /\ Reading' /\ Agreed'
    BY <1>1 DEF FolderInv, Deep, Reading, Agreed
  <1>5. SealedIsWanted'
    BY <1>1 DEF SealedIsWanted, Forgotten
  <1> QED
    BY <1>3, <1>4, <1>5 DEF FolderInv

LEMMA FolderStep == ASSUME FolderInv, [FolderNext]_folderVars PROVE FolderInv'
  <1>1. CASE UNCHANGED folderVars
    BY <1>1 DEF folderVars, hist, FolderInv, Placed, Deep, Reading, Entered, Agreed,
                SealedIsWanted, Sticky
  <1>2. CASE FolderNext
    <2>1. CASE Export \/ ExportStops \/ Adopt \/ Close
      BY <2>1, ExportKeeps, ExportStopsKeeps, AdoptKeeps, CloseKeeps
    <2>2. CASE \E p \in Paths, n \in Data \cup {Dir, None} : Edit(p, n)
      BY <2>2, EditKeeps
    <2>3. CASE \E p \in Paths : ImportEntry(p) \/ ImportRefused(p)
      BY <2>3, ImportEntryKeeps, ImportRefusedKeeps
    <2>4. CASE ImportFails \/ Seal \/ (\E d \in Paths \cup {Root} : SealBlind(d))
      BY <2>4, ImportFailsKeeps, SealKeeps, SealBlindKeeps
    <2>5. CASE Shred \/ ShredStops \/ Crash
      BY <2>5, ShredKeeps, ShredStopsKeeps, CrashKeeps
    <2> QED
      BY <1>2, <2>1, <2>2, <2>3, <2>4, <2>5 DEF FolderNext
  <1> QED
    BY <1>1, <1>2

\* Once a folder is sealed, and until it is exported again, the volume has what the
\* programs left in it, but for what was edited while it was imported, what an
\* interrupted export or shredding had cut short or lost, and what a folder that a
\* file took the place of keeps from being removed: for every volume and every
\* sequence of edits, crashes and I/O errors.
THEOREM ClosesFaithfullyHolds == FolderSpec => []ClosesFaithfully
  <1>1. FolderInv /\ [FolderNext]_folderVars => FolderInv'
    BY FolderStep
  <1> QED
    BY <1>1, InitFolder, ClosesFromFolderInv, PTL DEF FolderSpec

=============================================================================
