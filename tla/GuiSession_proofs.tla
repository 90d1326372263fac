-------------------------- MODULE GuiSession_proofs --------------------------
(***************************************************************************)
(* What GuiSession's window owes the vault file, for every set of titles,  *)
(* queries, imports and settings and every bound.                          *)
(***************************************************************************)
EXTENDS GuiSession, FiniteSetTheorems, SequenceTheorems, TLAPS

\* A save that succeeds writes what memory holds.
LEMMA SavedIsHeld ==
  ASSUME NEW v, Saves(v)
  PROVE  SavedWhenSaidSo'
BY DEF Saves, Remember, SavedWhenSaidSo, Open, Locked

\* One that fails is remembered.
LEMMA FailureIsKnown ==
  ASSUME NEW v, SaveFails(v)
  PROVE  SavedWhenSaidSo'
BY DEF SaveFails, Remember, SavedWhenSaidSo

\* A locked window holds nothing that it could lose.
LEMMA NothingToLose ==
  ASSUME Lock
  PROVE  SavedWhenSaidSo'
BY DEF Lock, SavedWhenSaidSo, Open, Locked

\* The step is one that leaves file, memory and the memory of a failure alone.
LEMMA NothingWritten ==
  ASSUME SavedWhenSaidSo, UNCHANGED <<disk, vault, unsaved>>
  PROVE  SavedWhenSaidSo'
BY DEF SavedWhenSaidSo, Open, Locked

\* Each step of the window keeps the promise.
LEMMA StepKeepsSaved ==
  ASSUME SavedWhenSaidSo, [Next]_vars
  PROVE  SavedWhenSaidSo'
<1>1. CASE SelectRow \/ Move \/ Type \/ ToggleReveal \/ RevealTimeout
  BY <1>1, NothingWritten DEF SelectRow, Move, Type, ToggleReveal, RevealTimeout, Chose, hist
<1>2. CASE CopyPassword
  BY <1>2, SavedIsHeld, FailureIsKnown DEF CopyPassword
<1>3. CASE BeginAdd \/ BeginEdit \/ CancelEditor
  BY <1>3, NothingWritten DEF BeginAdd, BeginEdit, CancelEditor, hist
<1>4. CASE CommitAdd
  BY <1>4, SavedIsHeld, FailureIsKnown DEF CommitAdd
<1>5. CASE CommitEdit
  BY <1>5, SavedIsHeld, FailureIsKnown DEF CommitEdit
<1>6. CASE Delete
  BY <1>6, SavedIsHeld, FailureIsKnown DEF Delete
<1>7. CASE LoadImport \/ CancelImport \/ StartEnroll \/ CancelEnroll \/ CodeSaved
  BY <1>7, NothingWritten DEF LoadImport, CancelImport, StartEnroll, CancelEnroll, CodeSaved, hist
<1>8. CASE CommitImport
  BY <1>8, SavedIsHeld, FailureIsKnown DEF CommitImport
<1>9. CASE SetPadding
  BY <1>9, SavedIsHeld, FailureIsKnown DEF SetPadding
<1>10. CASE FinishEnroll
  BY <1>10, SavedIsHeld, FailureIsKnown DEF FinishEnroll
<1>11. CASE Unlock \/ Create
  BY <1>11 DEF Unlock, Create, Opened, SavedWhenSaidSo, Open, Locked
<1>12. CASE LockNow \/ Quit
  BY <1>12, NothingToLose DEF LockNow, Quit
<1>13. CASE Frame
  <2>1. CASE Lock
    BY <2>1, NothingToLose
  <2>2. CASE UNCHANGED <<vault, ui, hist>>
    BY <2>2, <1>13, NothingWritten DEF Frame, hist
  <2> QED BY <2>1, <2>2, <1>13 DEF Frame
<1>14. CASE Leave \/ SetLocks \/ StartJob \/ JobEnds \/ TimerFires \/ CliCopies \/ OtherCopies
  BY <1>14, NothingWritten DEF Leave, SetLocks, StartJob, JobEnds, TimerFires, CliCopies, OtherCopies, hist
<1>15. CASE UNCHANGED vars
  BY <1>15, NothingWritten DEF vars, hist
<1> QED BY <1>1, <1>2, <1>3, <1>4, <1>5, <1>6, <1>7, <1>8, <1>9, <1>10, <1>11,
           <1>12, <1>13, <1>14, <1>15 DEF Next

\* Unless the last save failed, and the window said so, what the open vault holds is
\* in the file, so that locking, quitting or a kill loses nothing: whatever is edited,
\* imported, deleted or enrolled, and however often saves failed before (main.rs:605).
THEOREM NothingUnsaved == Spec => []SavedWhenSaidSo
<1>1. Init => SavedWhenSaidSo
  BY DEF Init, SavedWhenSaidSo, Open, Locked
<1>2. SavedWhenSaidSo /\ [Next]_vars => SavedWhenSaidSo'
  BY StepKeepsSaved
<1> QED BY <1>1, <1>2, PTL DEF Spec

(***************************************************************************)
(* The list, the selection and the form: what the helpers yield.           *)
(***************************************************************************)

\* A set of numbers that is not empty has a least one.
LEMMA LeastOf ==
  ASSUME NEW I \in SUBSET Nat, I # {}
  PROVE  \E i \in I : \A n \in I : ~(n < i)
<1> DEFINE Less == {r \in Nat \X Nat : r[1] < r[2]}
<1>1. IsWellFoundedOn(Less, Nat)
  BY NatLessThanWellFounded, Zenon DEF OpToRel
<1>2. PICK i \in I : \A n \in I : ~(<<n, i>> \in Less)
  BY <1>1, WFMin, Zenon
<1> QED
  BY <1>2

\* What the recursion of Those demands of f at n.
Grown(f, s, I, n) ==
  IF n = 0 THEN << >> ELSE IF n \in I THEN Append(f[n - 1], s[n]) ELSE f[n - 1]

\* That recursion has a solution.
LEMMA ThoseExist ==
  ASSUME NEW S, NEW s \in Seq(S), NEW I
  PROVE  \E f : f = [n \in 0 .. Len(s) |-> Grown(f, s, I, n)]
<1> DEFINE Solved(m) == \E f : f = [n \in 0 .. m |-> Grown(f, s, I, n)]
           Bad == {m \in 0 .. Len(s) : ~Solved(m)}
<1>0. Len(s) \in Nat /\ Len(s) \in 0 .. Len(s) /\ Bad \in SUBSET Nat
  OBVIOUS
<1>1. SUFFICES ASSUME Bad # {} PROVE FALSE
  BY <1>0
<1>2. PICK m \in Bad : \A k \in Bad : ~(k < m)
  BY <1>0, <1>1, LeastOf
<1>3. m \in 0 .. Len(s) /\ ~Solved(m) /\ \A k \in 0 .. Len(s) : k < m => Solved(k)
  BY <1>2
<1> HIDE DEF Bad
<1>4. CASE m = 0
  <2> DEFINE z == [n \in 0 .. 0 |-> << >>]
  <2>1. z = [n \in 0 .. 0 |-> Grown(z, s, I, n)]
    BY DEF Grown
  <2> QED BY <2>1, <1>3, <1>4
<1>5. CASE m # 0
  <2>1. m \in Nat /\ m - 1 \in 0 .. Len(s) /\ m - 1 < m
    BY <1>0, <1>3, <1>5
  <2>2. PICK f : f = [n \in 0 .. m - 1 |-> Grown(f, s, I, n)]
    BY <2>1, <1>3
  <2> HIDE DEF Solved
  <2> DEFINE g == [n \in 0 .. m |-> IF n < m THEN f[n] ELSE Grown(f, s, I, m)]
  <2>3. \A n \in 0 .. m : n # 0 => g[n - 1] = f[n - 1]
    BY <2>1
  <2>4. \A n \in 0 .. m - 1 : f[n] = Grown(f, s, I, n)
    BY <2>2, Zenon
  <2>5. \A n \in 0 .. m : g[n] = Grown(f, s, I, n)
    BY <2>1, <2>4
  <2>6. \A n \in 0 .. m : Grown(g, s, I, n) = Grown(f, s, I, n)
    <3> HIDE DEF g
    <3> QED BY <2>3 DEF Grown
  <2>7. g = [n \in 0 .. m |-> g[n]]
    OBVIOUS
  <2> HIDE DEF g
  <2>8. g = [n \in 0 .. m |-> Grown(g, s, I, n)]
    BY <2>5, <2>6, <2>7
  <2> QED BY <2>8, <1>3 DEF Solved
<1> QED BY <1>4, <1>5

\* t is taken from the places of s in I, from each of the first n at most once.
TakenFrom(t, s, I, n) ==
  \E g \in [DOMAIN t -> (1 .. n) \cap I] :
    IsInjective(g) /\ \A k \in DOMAIN t : t[k] = s[g[k]]

\* What Those takes is taken from the places in I, each at most once.
LEMMA ThoseAre ==
  ASSUME NEW S, NEW s \in Seq(S), NEW I
  PROVE  Those(s, I) \in Seq(S) /\ TakenFrom(Those(s, I), s, I, Len(s))
<1> DEFINE F[n \in 0 .. Len(s)] ==
             IF n = 0 THEN << >> ELSE IF n \in I THEN Append(F[n - 1], s[n]) ELSE F[n - 1]
<1>1. Those(s, I) = F[Len(s)]
  BY DEF Those
<1>2. F = [n \in 0 .. Len(s) |->
             IF n = 0 THEN << >> ELSE IF n \in I THEN Append(F[n - 1], s[n]) ELSE F[n - 1]]
  <2>1. \E f : f = [n \in 0 .. Len(s) |->
             IF n = 0 THEN << >> ELSE IF n \in I THEN Append(f[n - 1], s[n]) ELSE f[n - 1]]
    BY ThoseExist DEF Grown
  <2> QED BY <2>1, Zenon
<1> HIDE DEF F
<1>3. \A n \in 0 .. Len(s) :
        F[n] = IF n = 0 THEN << >> ELSE IF n \in I THEN Append(F[n - 1], s[n]) ELSE F[n - 1]
  BY <1>2, Zenon
<1> DEFINE Good(n) == F[n] \in Seq(S) /\ TakenFrom(F[n], s, I, n)
           Bad == {n \in 0 .. Len(s) : ~Good(n)}
<1>4. Len(s) \in Nat /\ Len(s) \in 0 .. Len(s) /\ Bad \in SUBSET Nat
  OBVIOUS
<1>5. SUFFICES ASSUME Bad # {} PROVE FALSE
  BY <1>1, <1>4
<1>6. PICK n \in Bad : \A k \in Bad : ~(k < n)
  BY <1>4, <1>5, LeastOf
<1>7. n \in 0 .. Len(s) /\ ~Good(n) /\ \A k \in 0 .. Len(s) : k < n => Good(k)
  BY <1>6
<1> HIDE DEF Bad
<1>8. CASE n = 0
  <2>1. F[0] = << >>
    BY <1>3, <1>4
  <2>2. TakenFrom(<< >>, s, I, 0)
    <3>1. << >> \in [DOMAIN << >> -> (1 .. 0) \cap I] /\ DOMAIN << >> = {}
      OBVIOUS
    <3> QED BY <3>1 DEF TakenFrom, IsInjective
  <2> QED BY <1>7, <1>8, <2>1, <2>2
<1>9. CASE n # 0
  <2>1. n \in Nat /\ n - 1 \in 0 .. Len(s) /\ n - 1 < n /\ n \in 1 .. Len(s)
    BY <1>4, <1>7, <1>9
  <2> DEFINE t == F[n - 1]
  <2>2. t \in Seq(S) /\ TakenFrom(t, s, I, n - 1)
    BY <2>1, <1>7
  <2>3. F[n] = IF n \in I THEN Append(t, s[n]) ELSE t
    BY <1>3, <1>7, <1>9
  <2> HIDE DEF t
  <2>4. PICK g \in [DOMAIN t -> (1 .. n - 1) \cap I] :
          IsInjective(g) /\ \A k \in DOMAIN t : t[k] = s[g[k]]
    BY <2>2 DEF TakenFrom
  <2>5. CASE n \in I
    <3> DEFINE u == Append(t, s[n])
               h == [k \in DOMAIN u |-> IF k \in DOMAIN t THEN g[k] ELSE n]
    <3>1. /\ u \in Seq(S) /\ DOMAIN t = 1 .. Len(t) /\ Len(t) \in Nat
          /\ DOMAIN u = 1 .. Len(t) + 1 /\ u[Len(t) + 1] = s[n]
          /\ \A k \in DOMAIN t : u[k] = t[k]
      BY <2>1, <2>2
    <3> HIDE DEF u
    <3>2. \A k \in DOMAIN t : g[k] \in 1 .. n - 1 /\ g[k] \in I
      BY <2>4
    <3>3. h \in [DOMAIN u -> (1 .. n) \cap I]
      BY <2>1, <2>5, <3>1, <3>2
    <3>4. IsInjective(h)
      BY <2>1, <2>4, <3>1, <3>2 DEF IsInjective
    <3>5. \A k \in DOMAIN u : u[k] = s[h[k]]
      BY <2>4, <3>1
    <3>6. TakenFrom(u, s, I, n)
      BY <3>3, <3>4, <3>5 DEF TakenFrom
    <3> QED BY <1>7, <2>3, <2>5, <3>1, <3>6 DEF u
  <2>6. CASE n \notin I
    <3>1. g \in [DOMAIN t -> (1 .. n) \cap I]
      BY <2>1, <2>4
    <3>2. TakenFrom(t, s, I, n)
      BY <3>1, <2>4 DEF TakenFrom
    <3> QED BY <1>7, <2>2, <2>3, <2>6, <3>2
  <2> QED BY <2>5, <2>6
<1> QED BY <1>8, <1>9

(***************************************************************************)
(* What memory and the file may hold.                                      *)
(***************************************************************************)

Vaults == [entries : Seq(Entry), top : 0 .. MaxEntries, second : BOOLEAN, there : BOOLEAN]

\* The ids of the entries v differ from each other.
Distinct(v) == \A i, j \in DOMAIN v.entries : v.entries[i].id = v.entries[j].id => i = j

Sound(v) ==
  /\ v \in Vaults /\ Distinct(v)
  /\ v.top \in Ids(v) \cup {None}
  /\ v.there \/ v = NoVault

LEMMA BoundIs == MaxEntries \in Nat
BY BoundsAssumption

\* There are no more entries than ids: the place of an entry is in Id.
LEMMA SizeIs ==
  ASSUME NEW v, Sound(v)
  PROVE  /\ DOMAIN v.entries = 1 .. Len(v.entries) /\ Len(v.entries) \in Nat
         /\ DOMAIN v.entries \subseteq Id
         /\ \A i \in DOMAIN v.entries : v.entries[i] \in Entry
<1> DEFINE n == Len(v.entries)
           f == [i \in 1 .. n |-> v.entries[i].id]
<1>1. v.entries \in Seq(Entry) /\ Distinct(v)
  BY DEF Sound, Vaults
<1>2. n \in Nat /\ DOMAIN v.entries = 1 .. n /\ \A i \in 1 .. n : v.entries[i] \in Entry
  BY <1>1
<1>3. f \in Injection(1 .. n, 1 .. MaxEntries)
  <2>1. f \in [1 .. n -> 1 .. MaxEntries]
    BY <1>2 DEF Entry, Id
  <2>2. \A i, j \in 1 .. n : v.entries[i].id = v.entries[j].id => i = j
    BY <1>1, <1>2 DEF Distinct
  <2>3. IsInjective(f)
    BY <2>2 DEF IsInjective
  <2> QED BY <2>1, <2>3 DEF Injection
<1> HIDE DEF n, f
<1>4. /\ IsFiniteSet(1 .. MaxEntries) /\ Cardinality(1 .. MaxEntries) = MaxEntries
      /\ Cardinality(1 .. n) = n
  <2>1. \A m \in Nat : IsFiniteSet(1 .. m) /\ Cardinality(1 .. m) = m
    <3> TAKE m \in Nat
    <3>1. m \in Int /\ 1 \in Int
      OBVIOUS
    <3>2. IsFiniteSet(1 .. m) /\ Cardinality(1 .. m) = IF 1 > m THEN 0 ELSE m - 1 + 1
      BY <3>1, FS_Interval
    <3> QED BY <3>2
  <2> QED BY <2>1, <1>2, BoundIs
<1>5. n <= MaxEntries
  BY <1>3, <1>4, FS_Injection
<1> QED
  BY <1>2, <1>5, BoundIs DEF Id, n

\* Which entry is the first of its title.
LEMMA FirstIs ==
  ASSUME NEW v, v.entries \in Seq(Entry), NEW i \in DOMAIN v.entries, NEW t,
         v.entries[i].title = t, \A k \in 1 .. i - 1 : v.entries[k].title # t
  PROVE  FirstOf(v, t) = i
<1> DEFINE P(j) == v.entries[j].title = t /\ \A k \in 1 .. j - 1 : v.entries[k].title # t
<1>1. P(i)
  OBVIOUS
<1>2. \A j \in DOMAIN v.entries : P(j) => j = i
  <2> SUFFICES ASSUME NEW j \in DOMAIN v.entries, P(j) PROVE j = i
    OBVIOUS
  <2>1. i \in Nat /\ j \in Nat /\ i >= 1 /\ j >= 1
    OBVIOUS
  <2>2. ~(j < i)
    <3>1. SUFFICES ASSUME j < i PROVE FALSE
      OBVIOUS
    <3>2. j \in 1 .. i - 1
      BY <2>1, <3>1
    <3> QED BY <3>2
  <2>3. ~(i < j)
    <3>1. SUFFICES ASSUME i < j PROVE FALSE
      OBVIOUS
    <3>2. i \in 1 .. j - 1
      BY <2>1, <3>1
    <3> QED BY <3>2
  <2> QED BY <2>1, <2>2, <2>3
<1> HIDE DEF P
<1>3. (CHOOSE j \in DOMAIN v.entries : P(j)) = i
  BY <1>1, <1>2
<1> QED BY <1>3 DEF FirstOf, P

\* If there is an entry of the title, there is a first one.
LEMMA FirstExists ==
  ASSUME NEW v, v.entries \in Seq(Entry), NEW t, Has(v, t)
  PROVE  /\ FirstOf(v, t) \in DOMAIN v.entries
         /\ v.entries[FirstOf(v, t)].title = t
         /\ \A k \in 1 .. FirstOf(v, t) - 1 : v.entries[k].title # t
<1> DEFINE J == {i \in DOMAIN v.entries : v.entries[i].title = t}
<1>1. J \in SUBSET Nat /\ J # {}
  BY DEF Has
<1>2. PICK i \in J : \A n \in J : ~(n < i)
  BY <1>1, LeastOf
<1>3. \A k \in 1 .. i - 1 : v.entries[k].title # t
  <2> SUFFICES ASSUME NEW k \in 1 .. i - 1 PROVE k \notin J /\ k \in DOMAIN v.entries
    OBVIOUS
  <2> QED BY <1>2
<1>4. FirstOf(v, t) = i
  BY <1>2, <1>3, FirstIs
<1> QED BY <1>2, <1>3, <1>4

\* While no title is doubled, each entry is the first of its title.
LEMMA FirstAlone ==
  ASSUME NEW v, v.entries \in Seq(Entry), ~Twins(v), NEW i \in DOMAIN v.entries
  PROVE  FirstOf(v, v.entries[i].title) = i
<1>1. \A k \in 1 .. i - 1 : v.entries[k].title # v.entries[i].title
  <2> SUFFICES ASSUME NEW k \in 1 .. i - 1
               PROVE  k \in DOMAIN v.entries /\ k # i
    BY DEF Twins
  <2> QED OBVIOUS
<1> QED BY <1>1, FirstIs

\* What an entry that was there and has the title t is first of, it stays first of
\* when others are added behind it.
LEMMA FirstStays ==
  ASSUME NEW v, v.entries \in Seq(Entry), NEW w, w.entries \in Seq(Entry),
         Len(v.entries) <= Len(w.entries),
         \A i \in DOMAIN v.entries : w.entries[i] = v.entries[i],
         NEW t, Has(v, t)
  PROVE  Has(w, t) /\ FirstOf(w, t) = FirstOf(v, t)
<1> DEFINE i == FirstOf(v, t)
<1>1. i \in DOMAIN v.entries /\ v.entries[i].title = t /\ \A k \in 1 .. i - 1 : v.entries[k].title # t
  BY FirstExists
<1> HIDE DEF i
<1>2. i \in DOMAIN w.entries /\ w.entries[i].title = t
  BY <1>1
<1>3. \A k \in 1 .. i - 1 : w.entries[k].title # t
  BY <1>1
<1>4. FirstOf(w, t) = i
  BY <1>2, <1>3, FirstIs
<1> QED BY <1>2, <1>4 DEF Has, i

\* Of n ids that are free some sequence has each at most once.
LEMMA FreeIds ==
  ASSUME NEW used \in SUBSET Id, NEW n \in Nat, Cardinality(used) + n <= MaxEntries
  PROVE  LET free == SetToSeq(Id \ used) IN
           /\ 1 .. n \subseteq DOMAIN free /\ IsInjective(free)
           /\ \A k \in DOMAIN free : free[k] \in Id \ used
<1> DEFINE S == Id \ used
           c == Cardinality(S)
<1>1. IsFiniteSet(Id) /\ Cardinality(Id) = MaxEntries
  <2>1. MaxEntries \in Int /\ 1 \in Int
    BY BoundIs
  <2>2. IsFiniteSet(1 .. MaxEntries)
        /\ Cardinality(1 .. MaxEntries) = IF 1 > MaxEntries THEN 0 ELSE MaxEntries - 1 + 1
    BY <2>1, FS_Interval
  <2> QED BY <2>2, BoundIs DEF Id
<1>2. IsFiniteSet(used) /\ IsFiniteSet(S)
  <2>1. S \in SUBSET Id
    OBVIOUS
  <2> QED BY <1>1, <2>1, FS_Subset
<1>3. Cardinality(used) \in Nat /\ c \in Nat /\ ExistsBijection(1 .. c, S)
  BY <1>2, FS_CardinalityType
<1>4. c = MaxEntries - Cardinality(used)
  <2>1. Id \cap used = used
    OBVIOUS
  <2>2. c = Cardinality(Id) - Cardinality(Id \cap used)
    BY <1>1, FS_Difference
  <2> QED BY <1>1, <2>1, <2>2
<1>5. n <= c
  BY <1>3, <1>4, BoundIs
<1>6. \E f \in [1 .. c -> S] : IsInjective(f)
  BY <1>3, Zenon DEF ExistsBijection, Bijection, Injection
<1>7. SetToSeq(S) \in [1 .. c -> S] /\ IsInjective(SetToSeq(S))
  BY <1>6, Zenon DEF SetToSeq
<1> HIDE DEF c
<1>8. 1 .. n \subseteq 1 .. c
  BY <1>3, <1>5
<1> QED BY <1>7, <1>8

LEMMA FreshIs ==
  ASSUME Sound(vault), Sound(disk), Room(1)
  PROVE  FreshId \in Id /\ FreshId \notin Ids(vault)
<1> DEFINE used == Ids(vault) \cup Ids(disk)
<1>1. used \in SUBSET Id
  BY SizeIs DEF Ids, Entry
<1> HIDE DEF used
<1>2. Cardinality(used) + 1 <= MaxEntries
  BY DEF Room, used
<1>3. \E i \in Id : i \notin used
  <2>1. 1 \in DOMAIN SetToSeq(Id \ used)
    BY <1>1, <1>2, FreeIds
  <2>2. SetToSeq(Id \ used)[1] \in Id \ used
    BY <1>1, <1>2, <2>1, FreeIds
  <2> QED BY <2>2
<1>4. (CHOOSE i \in Id : i \notin used) \in Id /\ (CHOOSE i \in Id : i \notin used) \notin used
  BY <1>3, Zenon
<1> QED BY <1>4, Zenon DEF FreshId, used

(***************************************************************************)
(* Changes of memory that keep it sound.                                   *)
(***************************************************************************)

\* v is the open vault.
There(v) == Sound(v) /\ v.there

LEMMA ThereIsOpen ==
  ASSUME NEW v, There(v)
  PROVE  v # NoVault
BY DEF There, NoVault

LEMMA TopThere ==
  ASSUME NEW v, There(v), NEW i \in DOMAIN v.entries
  PROVE  There([v EXCEPT !.top = v.entries[i].id])
<1> DEFINE w == [v EXCEPT !.top = v.entries[i].id]
<1>1. v \in Vaults /\ v.there = TRUE /\ Distinct(v) /\ v.entries[i] \in Entry
  BY SizeIs DEF There, Sound, Vaults
<1>2. v.entries[i].id \in 0 .. MaxEntries
  BY <1>1, BoundIs DEF Entry, Id
<1>3. w \in Vaults /\ w.entries = v.entries /\ w.there /\ w.top = v.entries[i].id
  BY <1>1, <1>2 DEF Vaults
<1> HIDE DEF w
<1>4. w.top \in Ids(w)
  BY <1>3 DEF Ids
<1>5. Distinct(w)
  BY <1>1, <1>3 DEF Distinct
<1>6. There(w)
  BY <1>3, <1>4, <1>5 DEF There, Sound
<1> QED BY <1>6 DEF w

LEMMA SecondThere ==
  ASSUME NEW v, There(v)
  PROVE  There([v EXCEPT !.second = TRUE])
<1> DEFINE w == [v EXCEPT !.second = TRUE]
<1>1. v \in Vaults /\ v.there = TRUE /\ Distinct(v) /\ v.top \in Ids(v) \cup {None}
  BY DEF There, Sound, Vaults
<1>2. w \in Vaults /\ w.entries = v.entries /\ w.there /\ w.top = v.top
  BY <1>1 DEF Vaults
<1> HIDE DEF w
<1>3. There(w)
  BY <1>1, <1>2 DEF There, Sound, Distinct, Ids
<1> QED BY <1>3 DEF w

\* Entries that can be added to v: their ids are new and differ from each other.
New(v, es) ==
  /\ es \in Seq(Entry)
  /\ \A n \in DOMAIN es : es[n].id \notin Ids(v)
  /\ \A m, n \in DOMAIN es : es[m].id = es[n].id => m = n

With(v, es) == [v EXCEPT !.entries = @ \o es]

\* w has es behind the entries of v.
Behind(v, es, w) ==
  /\ Len(w.entries) = Len(v.entries) + Len(es)
  /\ \A i \in DOMAIN v.entries : w.entries[i] = v.entries[i]
  /\ \A n \in DOMAIN es : w.entries[Len(v.entries) + n] = es[n]

LEMMA MoreThere ==
  ASSUME NEW v, There(v), NEW es, New(v, es)
  PROVE  There(With(v, es)) /\ Behind(v, es, With(v, es))
<1> DEFINE w == With(v, es)
<1>0. w = [v EXCEPT !.entries = @ \o es]
  BY DEF With
<1> HIDE DEF w
<1> USE DEF New
<1> DEFINE a == Len(v.entries)
           b == Len(es)
<1>1. v \in Vaults /\ v.entries \in Seq(Entry) /\ v.there = TRUE /\ Distinct(v)
      /\ v.top \in Ids(v) \cup {None}
  BY DEF There, Sound, Vaults
<1>2. a \in Nat /\ b \in Nat /\ DOMAIN v.entries = 1 .. a /\ DOMAIN es = 1 .. b
  BY <1>1
<1>3. w \in Vaults /\ w.entries = v.entries \o es /\ w.there /\ w.top = v.top
  <2>1. v.entries \o es \in Seq(Entry)
    BY <1>1, ConcatProperties
  <2> QED BY <1>0, <1>1, <2>1 DEF Vaults
<1>4. /\ w.entries \in Seq(Entry)
      /\ Len(w.entries) = a + b /\ DOMAIN w.entries = 1 .. a + b
      /\ \A i \in 1 .. a + b : w.entries[i] = IF i <= a THEN v.entries[i] ELSE es[i - a]
  BY <1>1, <1>3, ConcatProperties
<1> HIDE DEF a, b, w, Behind
<1>8. /\ \A i \in 1 .. a : w.entries[i] = v.entries[i]
      /\ \A n \in 1 .. b : w.entries[a + n] = es[n]
      /\ \A i \in 1 .. a + b : i > a => i - a \in 1 .. b /\ w.entries[i] = es[i - a]
  BY <1>2, <1>4
<1>5. Distinct(w)
  <2> SUFFICES ASSUME NEW i \in 1 .. a + b, NEW j \in 1 .. a + b, w.entries[i].id = w.entries[j].id
               PROVE  i = j
    BY <1>4 DEF Distinct
  <2>1. \A k \in 1 .. a : v.entries[k].id \in Ids(v)
    BY <1>2 DEF Ids
  <2>2. CASE i <= a /\ j <= a
    <3>1. i \in 1 .. a /\ j \in 1 .. a
      BY <2>2, <1>2
    <3>2. v.entries[i].id = v.entries[j].id
      BY <3>1, <1>8
    <3> QED BY <3>1, <3>2, <1>1, <1>2 DEF Distinct
  <2>3. CASE i <= a /\ j > a
    <3>1. i \in 1 .. a /\ j - a \in 1 .. b
      BY <2>3, <1>2, <1>8
    <3>2. w.entries[i].id \in Ids(v) /\ w.entries[j].id \notin Ids(v)
      BY <2>1, <2>3, <3>1, <1>2, <1>8
    <3> QED BY <3>2
  <2>4. CASE i > a /\ j <= a
    <3>1. j \in 1 .. a /\ i - a \in 1 .. b
      BY <2>4, <1>2, <1>8
    <3>2. w.entries[j].id \in Ids(v) /\ w.entries[i].id \notin Ids(v)
      BY <2>1, <2>4, <3>1, <1>2, <1>8
    <3> QED BY <3>2
  <2>5. CASE i > a /\ j > a
    <3>1. i - a \in 1 .. b /\ j - a \in 1 .. b /\ es[i - a].id = es[j - a].id
      BY <2>5, <1>8
    <3>2. i - a = j - a
      BY <3>1, <1>2
    <3> QED BY <3>2, <1>2
  <2> QED BY <2>2, <2>3, <2>4, <2>5, <1>2
<1>6. Ids(v) \subseteq Ids(w)
  BY <1>2, <1>4, <1>8 DEF Ids
<1>7. There(w)
  BY <1>1, <1>3, <1>5, <1>6 DEF There, Sound
<1> QED BY <1>2, <1>4, <1>7, <1>8 DEF a, b, w, Behind

\* Changing an entry and keeping its id.
LEMMA EditThere ==
  ASSUME NEW v, There(v), NEW i \in DOMAIN v.entries,
         NEW e \in Entry, e.id = v.entries[i].id
  PROVE  LET w == [v EXCEPT !.entries[i] = e] IN
           /\ There(w) /\ DOMAIN w.entries = DOMAIN v.entries
           /\ w.entries[i] = e
           /\ \A j \in DOMAIN v.entries : w.entries[j].id = v.entries[j].id
<1> DEFINE w == [v EXCEPT !.entries[i] = e]
<1>1. v \in Vaults /\ v.entries \in Seq(Entry) /\ v.there = TRUE /\ Distinct(v)
      /\ v.top \in Ids(v) \cup {None}
  BY DEF There, Sound, Vaults
<1>2. w \in Vaults /\ w.entries = [v.entries EXCEPT ![i] = e] /\ w.there /\ w.top = v.top
  <2>1. [v.entries EXCEPT ![i] = e] \in Seq(Entry)
    BY <1>1
  <2> QED BY <1>1, <2>1 DEF Vaults
<1> HIDE DEF w
<1>3. DOMAIN w.entries = DOMAIN v.entries /\ w.entries[i] = e
      /\ \A j \in DOMAIN v.entries : w.entries[j].id = v.entries[j].id
  BY <1>1, <1>2
<1>4. Distinct(w)
  BY <1>1, <1>3 DEF Distinct
<1>5. Ids(w) = Ids(v)
  BY <1>3 DEF Ids
<1> QED BY <1>1, <1>2, <1>3, <1>4, <1>5 DEF There, Sound, w

LEMMA WithoutThere ==
  ASSUME NEW v, There(v), NEW t
  PROVE  There(Without(v, t))
<1> DEFINE I == {i \in DOMAIN v.entries : v.entries[i].title # t}
           kept == Those(v.entries, I)
           w == Without(v, t)
<1>1. v \in Vaults /\ v.entries \in Seq(Entry) /\ v.there = TRUE /\ Distinct(v)
      /\ v.top \in Ids(v) \cup {None}
  BY DEF There, Sound, Vaults
<1>2. kept \in Seq(Entry) /\ TakenFrom(kept, v.entries, I, Len(v.entries))
  BY <1>1, ThoseAre
<1>3. PICK g \in [DOMAIN kept -> (1 .. Len(v.entries)) \cap I] :
        IsInjective(g) /\ \A k \in DOMAIN kept : kept[k] = v.entries[g[k]]
  BY <1>2 DEF TakenFrom
<1>4. /\ w.entries = kept /\ w \in Vaults /\ w.there = TRUE
      /\ w.top = IF \E i \in DOMAIN kept : kept[i].id = v.top THEN v.top ELSE None
  <2> DEFINE top == IF \E i \in DOMAIN kept : kept[i].id = v.top THEN v.top ELSE None
  <2>1. w = [v EXCEPT !.entries = kept, !.top = top]
    BY DEF Without
  <2>2. top \in 0 .. MaxEntries
    BY <1>1, BoundIs DEF Vaults, None
  <2> HIDE DEF w, kept, top
  <2>3. w \in Vaults /\ w.entries = kept /\ w.there = TRUE /\ w.top = top
    BY <1>1, <1>2, <2>1, <2>2 DEF Vaults
  <2> QED BY <2>3 DEF top
<1> HIDE DEF w, kept, I
<1>5. Distinct(w)
  <2> SUFFICES ASSUME NEW i \in DOMAIN kept, NEW j \in DOMAIN kept, kept[i].id = kept[j].id
               PROVE  i = j
    BY <1>4 DEF Distinct
  <2>1. g[i] \in DOMAIN v.entries /\ g[j] \in DOMAIN v.entries
    BY <1>1, <1>3
  <2>2. v.entries[g[i]].id = v.entries[g[j]].id
    BY <1>3
  <2>3. g[i] = g[j]
    BY <1>1, <2>1, <2>2 DEF Distinct
  <2> QED BY <1>3, <2>3 DEF IsInjective
<1>6. w.top \in Ids(w) \cup {None}
  BY <1>4 DEF Ids
<1> QED BY <1>4, <1>5, <1>6 DEF There, Sound, w

(***************************************************************************)
(* The window.                                                             *)
(***************************************************************************)

RowLists == Seq(Id \X Title)

Uis ==
  [sel : 0 .. MaxEntries, reveal : BOOLEAN, query : Query, items : RowLists,
   editor : 0 .. MaxEntries + 1, orig : Title \cup {""}, review : Imports \cup {<< >>},
   enroll : BOOLEAN, code : BOOLEAN]

\* Each row of a query stands for an entry.
LEMMA RowsAre ==
  ASSUME NEW v, Sound(v), NEW q
  PROVE  /\ Rows(v, q) \in RowLists
         /\ \A n \in DOMAIN Rows(v, q) : Rows(v, q)[n][1] \in DOMAIN v.entries
<1> DEFINE D    == DOMAIN v.entries
           hit(i) == v.entries[i].title \in Hits[q]
           all  == [i \in D |-> i]
           I    == {i \in DOMAIN all : hit(i) /\ v.entries[i].id = v.top}
           J    == {i \in DOMAIN all : hit(i) /\ v.entries[i].id # v.top}
           x    == Those(all, I) \o Those(all, J)
<1>1. D = 1 .. Len(v.entries) /\ Len(v.entries) \in Nat /\ D \subseteq Id
      /\ \A i \in D : v.entries[i] \in Entry
  BY SizeIs
<1>2. all \in Seq(D)
  BY <1>1
<1>3. Rows(v, q) = [n \in 1 .. Len(x) |-> <<x[n], v.entries[x[n]].title>>]
  BY DEF Rows
<1> HIDE DEF I, J, all, D
<1>4. Those(all, I) \in Seq(D) /\ Those(all, J) \in Seq(D)
  BY <1>2, ThoseAre
<1>5. x \in Seq(D)
  BY <1>4, ConcatProperties
<1> HIDE DEF x
<1>6. Len(x) \in Nat /\ \A n \in 1 .. Len(x) : x[n] \in D
  BY <1>5
<1>7. \A n \in 1 .. Len(x) : <<x[n], v.entries[x[n]].title>> \in Id \X Title
  BY <1>1, <1>6 DEF Entry
<1>8. Rows(v, q) \in RowLists
  BY <1>3, <1>6, <1>7 DEF RowLists
<1> QED BY <1>3, <1>6, <1>8 DEF D

\* What the next frame shows differs from u in the list only.
LEMMA ShowsIs ==
  ASSUME NEW u \in Uis, NEW v, Sound(v), NEW dropped \in BOOLEAN
  PROVE  LET w == Shows(u, v, dropped) IN
           /\ w \in Uis
           /\ w.sel = u.sel /\ w.query = u.query /\ w.editor = u.editor /\ w.orig = u.orig
<1>1. Rows(v, u.query) \in RowLists
  BY RowsAre
<1>2. CASE Shows(u, v, dropped) = u
  BY <1>2
<1>3. CASE Shows(u, v, dropped) = [u EXCEPT !.items = Rows(v, u.query)]
  BY <1>1, <1>3 DEF Uis
<1> QED BY <1>2, <1>3 DEF Shows

\* It is computed anew once the cache is dropped, and for another query.
LEMMA ShowsAnew ==
  ASSUME NEW u \in Uis, NEW v
  PROVE  /\ Shows(u, v, TRUE).items = Rows(v, u.query)
         /\ u.query # ui.query => Shows(u, v, FALSE).items = Rows(v, u.query)
<1>1. [u EXCEPT !.items = Rows(v, u.query)].items = Rows(v, u.query)
  BY DEF Uis
<1> QED BY <1>1 DEF Shows

(***************************************************************************)
(* The inductive invariant.  What is around the vault has its type; what   *)
(* is held is sound, and a locked window holds nothing; and while no save  *)
(* has failed the list is fresh, and while no title is doubled either the  *)
(* selection means the entry that was chosen and the form the entry that   *)
(* it was opened for.  The last is needed because the form finds its entry *)
(* by the title, and selects it by the title once it is saved.             *)
(***************************************************************************)

Around ==
  /\ away \in {"here", "idle", "minimized", "blurred"}
  /\ locks \in Settings
  /\ job \in {"none", "running", "ended"}
  /\ clip \in Id \cup {Other}
  /\ bare \in BOOLEAN
  /\ \A t \in timers : t.of \in Id /\ t.by \in {"gui", "cli"}
  /\ ~unsaved \/ failed

Kept ==
  /\ Sound(disk) /\ Sound(vault) /\ ui \in Uis
  /\ Locked => ui = Blank

Selected(v, u, c) ==
  /\ u.sel # None => u.sel \in DOMAIN v.entries /\ v.entries[u.sel].id = c
  /\ u.editor \notin {None, Adding} =>
       Has(v, u.orig) /\ v.entries[FirstOf(v, u.orig)].id = u.editor

Faithful ==
  Open =>
    /\ ~doubled => ~Twins(vault)
    /\ ~failed  => ui.items = Rows(vault, ui.query)
    /\ ~failed /\ ~doubled => Selected(vault, ui, chosen)

IInv == Around /\ Kept /\ Faithful

LEMMA NothingIsSound == Sound(NoVault)
<1>1. NoVault \in Vaults
  BY BoundIs DEF NoVault, Vaults, None
<1> QED BY <1>1 DEF Sound, NoVault, Distinct, None

LEMMA BlankIs == Blank \in Uis
<1>1. << >> \in RowLists
  BY DEF RowLists
<1>2. None \in 0 .. MaxEntries /\ None \in 0 .. MaxEntries + 1
  BY BoundIs DEF None
<1>3. "" \in Query
  BY HitsAssumption
<1> QED BY <1>1, <1>2, <1>3 DEF Blank, Uis

LEMMA InvariantSuffices ==
  ASSUME IInv
  PROVE  ShowsWhatIs
<1>1. ASSUME NEW v, Sound(v)
      PROVE  /\ v.entries \in Seq(Entry)
             /\ \A i, j \in DOMAIN v.entries : v.entries[i].id = v.entries[j].id => i = j
             /\ v.top \in Ids(v) \cup {None} /\ {v.second, v.there} \subseteq BOOLEAN
  BY <1>1 DEF Sound, Vaults, Distinct
<1>2. \A n \in DOMAIN ui.items : ui.items[n][1] \in Id /\ ui.items[n][2] \in Title
  <2>1. ui.items \in Seq(Id \X Title)
    BY DEF IInv, Kept, Uis, RowLists
  <2> QED BY <2>1
<1>3. TypeOK
  <2>1. ui.sel \in 0 .. MaxEntries /\ ui.query \in Query /\ (ui.review # << >> => ui.review \in Imports)
    BY DEF IInv, Kept, Uis
  <2>2. Sound(disk) /\ Sound(vault) /\ (Locked => ui = Blank) /\ Around
    BY DEF IInv, Kept
  <2>3. \A v \in {disk, vault} :
          /\ v.entries \in Seq(Entry)
          /\ \A i, j \in DOMAIN v.entries : v.entries[i].id = v.entries[j].id => i = j
          /\ v.top \in Ids(v) \cup {None} /\ {v.second, v.there} \subseteq BOOLEAN
    BY <1>1, <2>2
  <2>4. /\ away \in {"here", "idle", "minimized", "blurred"}
        /\ locks \in Settings
        /\ job \in {"none", "running", "ended"}
        /\ clip \in Id \cup {Other}
        /\ bare \in BOOLEAN
        /\ \A t \in timers : t.of \in Id /\ t.by \in {"gui", "cli"}
        /\ ~unsaved \/ failed
    BY <2>2 DEF Around
  <2> QED BY <1>2, <2>1, <2>2, <2>3, <2>4, Zenon DEF TypeOK
<1>4. SelectionMeans /\ ListFresh
  BY DEF IInv, Faithful, Selected, SelectionMeans, ListFresh, Shown, Entries
<1> QED BY <1>3, <1>4 DEF ShowsWhatIs

\* Steps that write nothing.
LEMMA UiStep ==
  ASSUME IInv, Open, UNCHANGED <<disk, vault, failed, doubled>>, ui' \in Uis,
         ~failed => ui'.items = Rows(vault, ui'.query),
         ~failed /\ ~doubled => Selected(vault, ui', chosen')
  PROVE  Kept' /\ Faithful'
<1>1. Kept'
  BY DEF IInv, Kept, Open, Locked, Sound, Ids, Distinct
<1>2. Faithful'
  BY DEF IInv, Faithful, Open, Locked
<1> QED BY <1>1, <1>2

\* Steps that save v, which memory holds from then on even if the save fails.
LEMMA WriteStep ==
  ASSUME IInv, Open, NEW v, There(v), Saves(v) \/ SaveFails(v), ui' \in Uis,
         Saves(v) /\ ~failed => ui'.items = Rows(v, ui'.query),
         Saves(v) /\ ~failed /\ ~doubled /\ ~Twins(v) => Selected(v, ui', chosen')
  PROVE  Kept' /\ Faithful'
<1>1. Sound(v) /\ v # NoVault
  BY ThereIsOpen DEF There
<1>2. vault' = v /\ disk' \in {disk, v} /\ doubled' = (doubled \/ Twins(v))
  BY DEF Saves, SaveFails, Remember
<1>3. Sound(vault)' /\ Sound(disk)'
  BY <1>1, <1>2 DEF IInv, Kept, Sound, Ids, Distinct
<1>4. Kept'
  BY <1>1, <1>2, <1>3 DEF Kept, Locked
<1>5. Faithful'
  <2>1. CASE Saves(v)
    BY <1>2, <2>1 DEF Saves, Faithful
  <2>2. CASE SaveFails(v)
    BY <1>2, <2>2 DEF SaveFails, Faithful
  <2> QED BY <2>1, <2>2
<1> QED BY <1>4, <1>5

\* Locking, and opening what is sound.
LEMMA LockStep ==
  ASSUME IInv, Lock, UNCHANGED disk
  PROVE  Kept' /\ Faithful'
<1>1. Sound(vault)' /\ Sound(disk)'
  BY NothingIsSound DEF IInv, Kept, Lock, Sound, Ids, Distinct
<1> QED BY <1>1, BlankIs DEF Lock, LockedUi, Kept, Faithful, Open, Locked

LEMMA OpenStep ==
  ASSUME NEW v, There(v), Opened(v), Sound(disk')
  PROVE  Kept' /\ Faithful'
<1>1. Sound(v) /\ v # NoVault
  BY ThereIsOpen DEF There
<1>2. vault' = v /\ doubled' = Twins(v) /\ ui' = Shows(Blank, v, TRUE)
  BY DEF Opened
<1>3. /\ ui' \in Uis /\ ui'.sel = None /\ ui'.editor = None
      /\ ui'.items = Rows(v, ui'.query)
  <2>1. Blank.sel = None /\ Blank.editor = None
    BY DEF Blank
  <2>2. /\ ui' \in Uis /\ ui'.sel = Blank.sel /\ ui'.editor = Blank.editor
        /\ ui'.query = Blank.query
    BY <1>1, <1>2, BlankIs, ShowsIs
  <2>3. ui'.items = Rows(v, Blank.query)
    BY <1>1, <1>2, BlankIs, ShowsAnew
  <2> QED BY <2>1, <2>2, <2>3
<1>4. Sound(vault)' /\ Sound(disk)'
  BY <1>1, <1>2 DEF Sound, Ids, Distinct
<1>5. Kept'
  BY <1>1, <1>2, <1>3, <1>4 DEF Kept, Locked
<1>6. Faithful'
  BY <1>2, <1>3 DEF Faithful, Selected
<1> QED BY <1>5, <1>6

(***************************************************************************)
(* Each action keeps what is held and what is shown.                       *)
(***************************************************************************)

\* What the invariant says of an open window.
LEMMA OpenIs ==
  ASSUME IInv, Open
  PROVE  /\ There(vault) /\ Sound(vault) /\ Sound(disk) /\ ui \in Uis
         /\ vault.entries \in Seq(Entry)
         /\ ~doubled => ~Twins(vault)
         /\ ~failed  => ui.items = Rows(vault, ui.query)
         /\ ~failed /\ ~doubled => Selected(vault, ui, chosen)
<1>1. Sound(vault) /\ Sound(disk) /\ ui \in Uis /\ vault # NoVault
  BY DEF IInv, Kept, Open, Locked
<1>2. There(vault) /\ vault.entries \in Seq(Entry)
  BY <1>1 DEF There, Sound, Vaults
<1> QED BY <1>1, <1>2 DEF IInv, Faithful

\* A row of the list is chosen.
LEMMA RowChosen ==
  ASSUME IInv, Acts, UNCHANGED <<disk, vault>>, NEW n \in DOMAIN ui.items,
         ui' = [ui EXCEPT !.sel = ui.items[n][1], !.reveal = FALSE],
         Chose(ui.items[n][1])
  PROVE  Kept' /\ Faithful'
<1> DEFINE i == ui.items[n][1]
<1>1. Open
  BY DEF Acts
<1>2. i \in 0 .. MaxEntries
  <2>1. ui.items \in Seq(Id \X Title)
    BY <1>1, OpenIs DEF Uis, RowLists
  <2> QED BY <2>1, BoundIs DEF Id
<1>3. ~failed => i \in DOMAIN vault.entries
  BY <1>1, OpenIs, RowsAre
<1> HIDE DEF i
<1>4. /\ ui' \in Uis /\ ui'.sel = i /\ ui'.items = ui.items /\ ui'.query = ui.query
      /\ ui'.editor = ui.editor /\ ui'.orig = ui.orig
  BY <1>1, <1>2, OpenIs DEF Uis, i
<1>5. chosen' = vault.entries[i].id /\ UNCHANGED <<failed, doubled>>
  BY DEF Chose, Entries, i
<1>6. ~failed /\ ~doubled => Selected(vault, ui', chosen')
  BY <1>1, <1>3, <1>4, <1>5, OpenIs DEF Selected
<1>7. ~failed => ui'.items = Rows(vault, ui'.query)
  BY <1>1, <1>4, OpenIs
<1> QED BY <1>1, <1>4, <1>5, <1>6, <1>7, UiStep

LEMMA SelectRowStep ==
  ASSUME IInv, SelectRow
  PROVE  Kept' /\ Faithful'
BY RowChosen DEF SelectRow

LEMMA MoveStep ==
  ASSUME IInv, Move
  PROVE  Kept' /\ Faithful'
<1> DEFINE n == Len(ui.items)
           P == {p \in 1 .. n : ui.items[p][1] = ui.sel}
           p == IF P = {} THEN 0 ELSE CHOOSE p \in P : TRUE
           new(down) == IF P = {} THEN 1
                        ELSE IF down THEN IF p < n THEN p + 1 ELSE n
                        ELSE IF p > 1 THEN p - 1 ELSE 1
<1>1. Acts /\ UNCHANGED <<disk, vault>> /\ n > 0
  BY DEF Move
<1>2. PICK down \in BOOLEAN :
        ui' = [ui EXCEPT !.sel = ui.items[new(down)][1], !.reveal = FALSE] /\ Chose(ui.items[new(down)][1])
  BY DEF Move
<1>3. n \in Nat /\ DOMAIN ui.items = 1 .. n
  <2>1. ui \in Uis
    BY <1>1, OpenIs DEF Acts
  <2>2. ui.items \in Seq(Id \X Title)
    BY <2>1 DEF Uis, RowLists
  <2> QED BY <2>2
<1>4. P # {} => p \in 1 .. n
  <2>1. P \subseteq 1 .. n
    OBVIOUS
  <2>2. P # {} => (CHOOSE k \in P : TRUE) \in P
    <3> HIDE DEF P
    <3> QED OBVIOUS
  <2> HIDE DEF P, n
  <2> QED BY <2>1, <2>2
<1> HIDE DEF p, P, n
<1>5. new(down) \in 1 .. n
  BY <1>1, <1>3, <1>4
<1> QED BY <1>1, <1>2, <1>3, <1>5, RowChosen

LEMMA TypeStep ==
  ASSUME IInv, Type
  PROVE  Kept' /\ Faithful'
<1>1. Open /\ UNCHANGED <<disk, vault, failed, doubled, chosen>>
  BY DEF Type, Acts, hist
<1>2. PICK q \in Query \ {ui.query} : ui' = Shows([ui EXCEPT !.query = q], vault, FALSE)
  BY DEF Type
<1> DEFINE u == [ui EXCEPT !.query = q]
<1>3. u \in Uis /\ u.query # ui.query /\ u.sel = ui.sel /\ u.editor = ui.editor /\ u.orig = ui.orig
  BY <1>1, OpenIs DEF Uis
<1> HIDE DEF u
<1>4. /\ ui' \in Uis /\ ui'.sel = ui.sel /\ ui'.query = u.query /\ ui'.editor = ui.editor
      /\ ui'.orig = ui.orig
  BY <1>1, <1>2, <1>3, OpenIs, ShowsIs DEF u
<1>5. ui'.items = Rows(vault, ui'.query)
  BY <1>2, <1>3, <1>4, ShowsAnew DEF u
<1>6. ~failed /\ ~doubled => Selected(vault, ui', chosen')
  BY <1>1, <1>4, OpenIs DEF Selected
<1> QED BY <1>1, <1>4, <1>5, <1>6, UiStep

\* Steps that leave the list, the selection and the form as they are.
LEMMA SameStep ==
  ASSUME IInv, Open, UNCHANGED <<disk, vault, failed, doubled, chosen>>, ui' \in Uis,
         ui'.items = ui.items, ui'.query = ui.query, ui'.sel = ui.sel,
         \/ ui'.editor = ui.editor /\ ui'.orig = ui.orig
         \/ ui'.editor \in {None, Adding}
  PROVE  Kept' /\ Faithful'
<1>1. ~failed => ui'.items = Rows(vault, ui'.query)
  BY OpenIs
<1>2. ~failed /\ ~doubled => Selected(vault, ui', chosen')
  BY OpenIs DEF Selected
<1> QED BY <1>1, <1>2, UiStep

LEMMA PlainStep ==
  ASSUME IInv,
         \/ ToggleReveal \/ RevealTimeout \/ BeginAdd \/ CancelEditor
         \/ LoadImport \/ CancelImport \/ StartEnroll \/ CancelEnroll \/ CodeSaved
  PROVE  Kept' /\ Faithful'
<1>1. Open /\ UNCHANGED <<disk, vault, failed, doubled, chosen>>
  BY DEF ToggleReveal, RevealTimeout, BeginAdd, CancelEditor, LoadImport, CancelImport,
         StartEnroll, CancelEnroll, CodeSaved, Acts, hist
<1>2. ui \in Uis /\ Adding \in 0 .. MaxEntries + 1 /\ None \in 0 .. MaxEntries + 1
  BY <1>1, OpenIs, BoundIs DEF Adding, None
<1>3. /\ ui' \in Uis /\ ui'.items = ui.items /\ ui'.query = ui.query /\ ui'.sel = ui.sel
      /\ \/ ui'.editor = ui.editor /\ ui'.orig = ui.orig
         \/ ui'.editor \in {None, Adding}
  <2>1. CASE ToggleReveal
    BY <1>2, <2>1 DEF ToggleReveal, Uis
  <2>2. CASE RevealTimeout
    BY <1>2, <2>2 DEF RevealTimeout, Uis
  <2>3. CASE BeginAdd
    BY <1>2, <2>3 DEF BeginAdd, Uis
  <2>4. CASE CancelEditor
    BY <1>2, <2>4 DEF CancelEditor, Uis
  <2>5. CASE LoadImport
    BY <1>2, <2>5 DEF LoadImport, Uis
  <2>6. CASE CancelImport
    BY <1>2, <2>6 DEF CancelImport, Uis
  <2>7. CASE StartEnroll
    BY <1>2, <2>7 DEF StartEnroll, Uis
  <2>8. CASE CancelEnroll
    BY <1>2, <2>8 DEF CancelEnroll, Uis
  <2>9. CASE CodeSaved
    BY <1>2, <2>9 DEF CodeSaved, Uis
  <2> QED BY <2>1, <2>2, <2>3, <2>4, <2>5, <2>6, <2>7, <2>8, <2>9
<1> QED BY <1>1, <1>3, SameStep

\* The form is opened for an entry, which is the first of its title as long as no
\* title is doubled.
LEMMA BeginEditStep ==
  ASSUME IInv, BeginEdit
  PROVE  Kept' /\ Faithful'
<1>1. Open /\ UNCHANGED <<disk, vault, failed, doubled, chosen>>
  BY DEF BeginEdit, Acts, hist
<1> DEFINE e == vault.entries[ui.sel]
<1>2. ui.sel \in DOMAIN vault.entries /\ ui' = [ui EXCEPT !.editor = e.id, !.orig = e.title]
  BY DEF BeginEdit, Shown, Entries
<1>3. e \in Entry
  BY <1>1, <1>2, OpenIs, SizeIs
<1> HIDE DEF e
<1>4. /\ ui' \in Uis /\ ui'.items = ui.items /\ ui'.query = ui.query /\ ui'.sel = ui.sel
      /\ ui'.editor = e.id /\ ui'.orig = e.title
  <2>1. e.id \in 0 .. MaxEntries + 1 /\ e.title \in Title
    BY <1>3, BoundIs DEF Entry, Id
  <2>2. ui \in Uis
    BY <1>1, OpenIs
  <2> QED BY <1>2, <2>1, <2>2 DEF Uis
<1>5. ~doubled => Has(vault, e.title) /\ vault.entries[FirstOf(vault, e.title)].id = e.id
  <2>1. Has(vault, e.title)
    BY <1>2 DEF Has, e
  <2>2. ~doubled => FirstOf(vault, e.title) = ui.sel
    BY <1>1, <1>2, OpenIs, FirstAlone DEF e
  <2> QED BY <2>1, <2>2 DEF e
<1>6. ~failed /\ ~doubled => Selected(vault, ui', chosen')
  BY <1>1, <1>4, <1>5, OpenIs DEF Selected
<1> QED BY <1>1, <1>4, <1>6, OpenIs, UiStep

\* A save that succeeds, after which the window shows u and a fresh list.
LEMMA SavedStep ==
  ASSUME IInv, Open, NEW v, There(v), Saves(v), NEW u \in Uis, ui' = Shows(u, v, TRUE),
         ~failed /\ ~doubled /\ ~Twins(v) => Selected(v, u, chosen')
  PROVE  Kept' /\ Faithful'
<1>1. Sound(v) /\ ~SaveFails(v)
  BY DEF There, Saves, SaveFails
<1>2. ui' \in Uis /\ ui'.sel = u.sel /\ ui'.query = u.query /\ ui'.editor = u.editor /\ ui'.orig = u.orig
  BY <1>1, ShowsIs
<1>3. ui'.items = Rows(v, ui'.query)
  BY <1>2, ShowsAnew
<1>4. ~failed /\ ~doubled /\ ~Twins(v) => Selected(v, ui', chosen')
  BY <1>2 DEF Selected
<1> QED BY <1>2, <1>3, <1>4, WriteStep

\* One that fails: nothing is said of the list and the selection from then on.
LEMMA FailedStep ==
  ASSUME IInv, Open, NEW v, There(v), SaveFails(v), ui' \in Uis
  PROVE  Kept' /\ Faithful'
<1>1. ~Saves(v)
  BY DEF Saves, SaveFails
<1> QED BY <1>1, WriteStep

LEMMA FailedShows ==
  ASSUME IInv, Open, NEW v, There(v), SaveFails(v), NEW u \in Uis, NEW d \in BOOLEAN,
         ui' = Shows(u, v, d)
  PROVE  Kept' /\ Faithful'
<1>1. ui' \in Uis
  BY ShowsIs DEF There
<1> QED BY <1>1, FailedStep

\* What the selection and the form mean is kept by entries that are added behind.
LEMMA SelectedStays ==
  ASSUME NEW v, There(v), NEW w, There(w), NEW u \in Uis, NEW c, Selected(v, u, c),
         Len(v.entries) <= Len(w.entries),
         \A i \in DOMAIN v.entries : w.entries[i] = v.entries[i]
  PROVE  Selected(w, u, c)
<1>1. /\ v.entries \in Seq(Entry) /\ w.entries \in Seq(Entry)
      /\ DOMAIN v.entries \subseteq DOMAIN w.entries
  BY DEF There, Sound, Vaults
<1>2. ASSUME Has(v, u.orig)
      PROVE  /\ Has(w, u.orig) /\ FirstOf(w, u.orig) = FirstOf(v, u.orig)
             /\ FirstOf(v, u.orig) \in DOMAIN v.entries
  BY <1>1, <1>2, FirstStays, FirstExists
<1> QED BY <1>1, <1>2 DEF Selected

LEMMA CopyPasswordStep ==
  ASSUME IInv, CopyPassword
  PROVE  Kept' /\ Faithful'
<1> DEFINE v == [vault EXCEPT !.top = vault.entries[ui.sel].id]
<1>1. Open /\ ui.sel \in DOMAIN vault.entries /\ chosen' = chosen /\ ui' = Shows(ui, v, TRUE)
      /\ (Saves(v) \/ SaveFails(v))
  BY DEF CopyPassword, Acts, Shown, Entries
<1>2. There(v)
  BY <1>1, OpenIs, TopThere
<1>3. v.entries = vault.entries
  BY <1>1, OpenIs DEF Sound, Vaults
<1> HIDE DEF v
<1>4. ~failed /\ ~doubled => Selected(v, ui, chosen')
  BY <1>1, <1>2, <1>3, OpenIs, SelectedStays
<1>5. CASE Saves(v)
  BY <1>1, <1>2, <1>4, <1>5, OpenIs, SavedStep
<1>6. CASE SaveFails(v)
  BY <1>1, <1>2, <1>6, OpenIs, FailedShows
<1> QED BY <1>1, <1>5, <1>6

LEMMA CommitAddStep ==
  ASSUME IInv, CommitAdd
  PROVE  Kept' /\ Faithful'
<1>1. Open /\ Room(1)
  BY DEF CommitAdd, Acts
<1>2. PICK t \in Title :
        LET w == [vault EXCEPT !.entries = Append(@, NewEntry(FreshId, t))] IN
          /\ ~Has(vault, t)
          /\ \/ Saves(w) /\ Committed(w, t) /\ chosen' = FreshId
             \/ SaveFails(w) /\ ui' = Shows(ui, w, FALSE) /\ UNCHANGED chosen
  BY DEF CommitAdd
<1> DEFINE e == NewEntry(FreshId, t)
           v == [vault EXCEPT !.entries = Append(@, e)]
<1>3. FreshId \in Id /\ FreshId \notin Ids(vault)
  BY <1>1, OpenIs, FreshIs
<1>4. e \in Entry /\ e.id = FreshId /\ e.title = t
  BY <1>3 DEF NewEntry, Entry
<1> HIDE DEF e
<1>5. v = [vault EXCEPT !.entries = @ \o <<e>>]
  <2>1. vault.entries \in Seq(Entry)
    BY <1>1, OpenIs
  <2>2. Append(vault.entries, e) = vault.entries \o <<e>>
    BY <2>1, <1>4, AppendIsConcat
  <2> QED BY <2>2
<1> DEFINE n == Len(vault.entries) + 1
<1>6. /\ There(v) /\ Len(v.entries) = n /\ v.entries[n] = e
      /\ \A i \in DOMAIN vault.entries : v.entries[i] = vault.entries[i]
  <2> DEFINE es == <<e>>
  <2>1. es \in Seq(Entry) /\ DOMAIN es = {1} /\ es[1] = e /\ Len(es) = 1
    BY <1>4
  <2>2. There(vault)
    BY <1>1, OpenIs
  <2>3. v = With(vault, es)
    BY <1>5 DEF With
  <2> HIDE DEF v, es
  <2>4. \A i \in DOMAIN es : es[i].id \notin Ids(vault)
    BY <2>1, <1>3, <1>4
  <2>5. \A i, j \in DOMAIN es : es[i].id = es[j].id => i = j
    BY <2>1
  <2>6. New(vault, es)
    BY <2>1, <2>4, <2>5 DEF New
  <2>7. There(v) /\ Behind(vault, es, v)
    BY <2>2, <2>3, <2>6, MoreThere
  <2> QED BY <2>1, <2>7 DEF Behind
<1> HIDE DEF v
<1>7. v.entries \in Seq(Entry) /\ vault.entries \in Seq(Entry) /\ n \in DOMAIN v.entries
  BY <1>1, <1>6, OpenIs DEF There, Sound, Vaults
<1>8. ~Has(vault, t) => FirstOf(v, t) = n
  <2> SUFFICES ASSUME ~Has(vault, t) PROVE FirstOf(v, t) = n
    OBVIOUS
  <2>1. \A k \in 1 .. n - 1 : v.entries[k].title # t
    BY <1>6, <1>7 DEF Has
  <2>2. v.entries[n].title = t
    BY <1>4, <1>6
  <2> HIDE DEF n
  <2> QED BY <1>7, <2>1, <2>2, FirstIs
<1> DEFINE u == [ui EXCEPT !.editor = None, !.orig = "", !.sel = n, !.reveal = FALSE]
<1>9. u \in Uis /\ u.sel = n /\ u.editor = None
  <2>1. ui \in Uis
    BY <1>1, OpenIs
  <2>2. n \in 0 .. MaxEntries /\ None \in 0 .. MaxEntries + 1
    BY <1>6, <1>7, SizeIs, BoundIs DEF There, Id, None
  <2> HIDE DEF n
  <2> QED BY <2>1, <2>2 DEF Uis
<1>10. CASE Saves(v) /\ Committed(v, t) /\ chosen' = FreshId /\ ~Has(vault, t)
  <2>1. ui' = Shows(u, v, TRUE)
    <3>1. FirstOf(v, t) = n
      BY <1>8, <1>10
    <3>2. ui' = Shows([ui EXCEPT !.editor = None, !.orig = "", !.sel = FirstOf(v, t),
                                 !.reveal = FALSE], v, TRUE)
      BY <1>10 DEF Committed
    <3> QED BY <3>1, <3>2
  <2> HIDE DEF u, n
  <2>2. Selected(v, u, chosen')
    BY <1>4, <1>6, <1>7, <1>9, <1>10 DEF Selected
  <2> QED BY <1>1, <1>6, <1>9, <1>10, <2>1, <2>2, SavedStep
<1>11. CASE SaveFails(v) /\ ui' = Shows(ui, v, FALSE)
  BY <1>1, <1>6, <1>11, OpenIs, FailedShows
<1>12. \/ Saves(v) /\ Committed(v, t) /\ chosen' = FreshId /\ ~Has(vault, t)
       \/ SaveFails(v) /\ ui' = Shows(ui, v, FALSE)
  BY <1>2 DEF v, e
<1> QED BY <1>10, <1>11, <1>12

LEMMA CommitEditStep ==
  ASSUME IInv, CommitEdit
  PROVE  Kept' /\ Faithful'
<1> DEFINE i == FirstOf(vault, ui.orig)
           old == vault.entries[i]
           edited(t, flip) == [vault EXCEPT !.entries[i] = Edited(old, t, flip)]
<1>1. Open /\ ui.editor \notin {None, Adding} /\ Has(vault, ui.orig)
  BY DEF CommitEdit, Acts
<1>2. PICK t \in Title, flip \in BOOLEAN :
        \/ Saves(edited(t, flip)) /\ Committed(edited(t, flip), t) /\ chosen' = ui.editor
        \/ SaveFails(edited(t, flip)) /\ ui' = Shows(ui, edited(t, flip), FALSE)
  BY DEF CommitEdit, Entries
<1> DEFINE e == Edited(old, t, flip)
           v == edited(t, flip)
<1>3. i \in DOMAIN vault.entries
  BY <1>1, OpenIs, FirstExists
<1>4. e \in Entry /\ e.id = old.id /\ e.title = t
  <2>1. old \in Entry
    BY <1>1, <1>3, OpenIs, SizeIs
  <2> HIDE DEF old
  <2> QED BY <2>1 DEF Entry, Edited
<1>5. \/ Saves(v) /\ Committed(v, t) /\ chosen' = ui.editor
      \/ SaveFails(v) /\ ui' = Shows(ui, v, FALSE)
  <2> HIDE DEF edited
  <2> QED BY <1>2
<1>11. v = [vault EXCEPT !.entries[i] = e]
  OBVIOUS
<1> HIDE DEF e, i, v
<1>6. /\ There(v) /\ DOMAIN v.entries = DOMAIN vault.entries /\ v.entries[i] = e
      /\ v.entries \in Seq(Entry)
  <2>1. There(vault)
    BY <1>1, OpenIs
  <2>2. There(v) /\ DOMAIN v.entries = DOMAIN vault.entries /\ v.entries[i] = e
    BY <1>3, <1>4, <1>11, <2>1, EditThere
  <2> QED BY <2>2 DEF There, Sound, Vaults
<1> HIDE DEF old
<1> DEFINE u == [ui EXCEPT !.editor = None, !.orig = "", !.sel = FirstOf(v, t), !.reveal = FALSE]
<1>7. FirstOf(v, t) \in DOMAIN v.entries
  BY <1>3, <1>4, <1>6, FirstExists DEF Has
<1>8. u \in Uis /\ u.sel = FirstOf(v, t) /\ u.editor = None
  <2>1. ui \in Uis
    BY <1>1, OpenIs
  <2>2. FirstOf(v, t) \in 0 .. MaxEntries /\ None \in 0 .. MaxEntries + 1
    BY <1>6, <1>7, SizeIs, BoundIs DEF There, Id, None
  <2> QED BY <2>1, <2>2 DEF Uis
<1>9. CASE Saves(v) /\ Committed(v, t) /\ chosen' = ui.editor
  <2>1. ui' = Shows(u, v, TRUE)
    BY <1>9 DEF Committed
  <2> HIDE DEF u
  <2>2. ~Twins(v) => FirstOf(v, t) = i
    BY <1>3, <1>4, <1>6, FirstAlone
  <2>3. ~failed /\ ~doubled => old.id = ui.editor
    BY <1>1, OpenIs DEF Selected, i, old
  <2>4. ~failed /\ ~doubled /\ ~Twins(v) => Selected(v, u, chosen')
    BY <1>4, <1>6, <1>7, <1>8, <1>9, <2>2, <2>3 DEF Selected
  <2> QED BY <1>1, <1>6, <1>8, <1>9, <2>1, <2>4, SavedStep
<1>10. CASE SaveFails(v) /\ ui' = Shows(ui, v, FALSE)
  BY <1>1, <1>6, <1>10, OpenIs, FailedShows
<1> QED BY <1>5, <1>9, <1>10

LEMMA DeleteStep ==
  ASSUME IInv, Delete
  PROVE  Kept' /\ Faithful'
<1> DEFINE v == Without(vault, ui.orig)
           u == [ui EXCEPT !.editor = None, !.orig = "", !.sel = None, !.reveal = FALSE]
<1>1. Open
  BY DEF Delete, Acts
<1>2. \/ Saves(v) /\ ui' = Shows(u, v, TRUE)
      \/ SaveFails(v) /\ ui' = Shows(ui, v, FALSE)
  BY DEF Delete, Deleted
<1>3. There(v)
  BY <1>1, OpenIs, WithoutThere
<1>4. u \in Uis /\ u.sel = None /\ u.editor = None
  <2>1. ui \in Uis /\ None \in 0 .. MaxEntries /\ None \in 0 .. MaxEntries + 1
    BY <1>1, OpenIs, BoundIs DEF None
  <2> QED BY <2>1 DEF Uis
<1> HIDE DEF u, v
<1>5. Selected(v, u, chosen')
  BY <1>4 DEF Selected
<1>6. CASE Saves(v) /\ ui' = Shows(u, v, TRUE)
  BY <1>1, <1>3, <1>4, <1>5, <1>6, SavedStep
<1>7. CASE SaveFails(v) /\ ui' = Shows(ui, v, FALSE)
  BY <1>1, <1>3, <1>7, OpenIs, FailedShows
<1> QED BY <1>2, <1>6, <1>7

LEMMA CommitImportStep ==
  ASSUME IInv, CommitImport
  PROVE  Kept' /\ Faithful'
<1> DEFINE used == Ids(vault) \cup Ids(disk)
           free == SetToSeq(Id \ used)
           es == [n \in DOMAIN ui.review |-> NewEntry(free[n], ui.review[n])]
           v == [vault EXCEPT !.entries = @ \o es]
           u == [ui EXCEPT !.review = << >>]
<1>1. Open /\ ui.review # << >> /\ Room(Len(ui.review)) /\ chosen' = chosen
  BY DEF CommitImport, Acts
<1>2. \/ Saves(v) /\ ui' = Shows(u, v, TRUE)
      \/ SaveFails(v) /\ ui' = Shows(u, v, FALSE)
  BY DEF CommitImport
<1>3. u \in Uis /\ u.sel = ui.sel /\ u.editor = ui.editor /\ u.orig = ui.orig
  BY <1>1, OpenIs DEF Uis
<1>4. ui.review \in Seq(Title)
  BY <1>1, OpenIs, ImportAssumption DEF Uis
<1> DEFINE n == Len(ui.review)
<1>5. n \in Nat /\ DOMAIN ui.review = 1 .. n
  BY <1>4
<1>6. used \in SUBSET Id
  BY <1>1, OpenIs, SizeIs DEF Ids, Entry
<1>7. Cardinality(used) + n <= MaxEntries
  BY <1>1 DEF Room
<1> HIDE DEF used, u
<1>8. 1 .. n \subseteq DOMAIN free /\ IsInjective(free)
      /\ \A k \in DOMAIN free : free[k] \in Id \ used
  <2> HIDE DEF n
  <2> QED BY <1>5, <1>6, <1>7, FreeIds
<1> HIDE DEF free
<1>9. New(vault, es)
  <2>1. \A k \in 1 .. n : NewEntry(free[k], ui.review[k]) \in Entry
    BY <1>4, <1>5, <1>8 DEF NewEntry, Entry
  <2>2. es \in Seq(Entry)
    BY <1>5, <2>1
  <2>3. \A k \in 1 .. n : es[k].id = free[k]
    BY <1>5 DEF NewEntry
  <2>4. DOMAIN es = 1 .. n
    BY <1>5
  <2> HIDE DEF es, n
  <2>5. \A k \in DOMAIN es : es[k].id \notin Ids(vault)
    BY <1>8, <2>3, <2>4 DEF used
  <2>6. \A k, m \in DOMAIN es : es[k].id = es[m].id => k = m
    BY <1>8, <2>3, <2>4 DEF IsInjective
  <2> QED BY <2>2, <2>5, <2>6 DEF New
<1>10. v = With(vault, es)
  BY DEF With
<1> HIDE DEF v, es
<1>11. There(v) /\ Behind(vault, es, v)
  BY <1>1, <1>9, <1>10, OpenIs, MoreThere
<1>12. Len(vault.entries) <= Len(v.entries) /\ \A i \in DOMAIN vault.entries : v.entries[i] = vault.entries[i]
  <2>1. Len(vault.entries) \in Nat /\ Len(es) \in Nat
    BY <1>1, <1>9, OpenIs DEF New
  <2> QED BY <1>11, <2>1 DEF Behind
<1>13. ~failed /\ ~doubled => Selected(v, ui, chosen')
  BY <1>1, <1>11, <1>12, OpenIs, SelectedStays
<1>14. ~failed /\ ~doubled => Selected(v, u, chosen')
  BY <1>3, <1>13 DEF Selected
<1>15. CASE Saves(v) /\ ui' = Shows(u, v, TRUE)
  BY <1>1, <1>3, <1>11, <1>14, <1>15, SavedStep
<1>16. CASE SaveFails(v) /\ ui' = Shows(u, v, FALSE)
  BY <1>1, <1>3, <1>11, <1>16, FailedShows
<1> QED BY <1>2, <1>15, <1>16

LEMMA FinishEnrollStep ==
  ASSUME IInv, FinishEnroll
  PROVE  Kept' /\ Faithful'
<1> DEFINE v == [vault EXCEPT !.second = TRUE]
           u == [ui EXCEPT !.enroll = FALSE, !.code = TRUE]
<1>1. Open /\ chosen' = chosen
  BY DEF FinishEnroll, Acts
<1>2. \/ Saves(v) /\ ui' = Shows(u, v, TRUE)
      \/ SaveFails(v) /\ ui' = ui
  BY DEF FinishEnroll
<1>3. There(v) /\ v.entries = vault.entries
  <2>1. vault \in Vaults /\ There(vault)
    BY <1>1, OpenIs DEF Sound
  <2> QED BY <2>1, SecondThere DEF Vaults
<1>4. u \in Uis /\ u.sel = ui.sel /\ u.editor = ui.editor /\ u.orig = ui.orig
  BY <1>1, OpenIs DEF Uis
<1> HIDE DEF v, u
<1>5. ~failed /\ ~doubled => Selected(v, u, chosen')
  <2>1. ~failed /\ ~doubled => Selected(vault, ui, chosen)
    BY <1>1, OpenIs
  <2> QED BY <1>1, <1>3, <1>4, <2>1 DEF Selected, Has, FirstOf
<1>6. CASE Saves(v) /\ ui' = Shows(u, v, TRUE)
  BY <1>1, <1>3, <1>4, <1>5, <1>6, SavedStep
<1>7. CASE SaveFails(v) /\ ui' = ui
  BY <1>1, <1>3, <1>7, OpenIs, FailedStep
<1> QED BY <1>2, <1>6, <1>7

LEMMA SetPaddingStep ==
  ASSUME IInv, SetPadding
  PROVE  Kept' /\ Faithful'
<1>1. Open /\ ui' = ui /\ chosen' = chosen /\ (Saves(vault) \/ SaveFails(vault))
  BY DEF SetPadding, Acts
<1>2. ~failed => ui'.items = Rows(vault, ui'.query)
  BY <1>1, OpenIs
<1>3. ~failed /\ ~doubled => Selected(vault, ui', chosen')
  BY <1>1, OpenIs
<1> QED BY <1>1, <1>2, <1>3, OpenIs, WriteStep

LEMMA UnlockStep ==
  ASSUME IInv, Unlock \/ Create
  PROVE  Kept' /\ Faithful'
<1>1. CASE Unlock
  <2>1. Sound(disk) /\ disk # NoVault /\ disk' = disk /\ Opened(disk)
    BY <1>1 DEF Unlock, IInv, Kept
  <2>2. There(disk)
    BY <2>1 DEF There, Sound
  <2>3. Sound(disk')
    BY <2>1
  <2> QED BY <2>1, <2>2, <2>3, OpenStep
<1>2. CASE Create
  <2> DEFINE v == Of(<< >>)
  <2>1. v \in Vaults /\ v.entries = << >> /\ v.top = None /\ v.there
    BY BoundIs DEF Of, Vaults, None
  <2> HIDE DEF v
  <2>2. There(v)
    BY <2>1 DEF There, Sound, Distinct
  <2>3. disk' = v /\ Opened(v)
    BY <1>2 DEF Create, v
  <2>4. Sound(disk')
    BY <2>2, <2>3 DEF There
  <2> QED BY <2>2, <2>3, <2>4, OpenStep
<1> QED BY <1>1, <1>2

\* Steps around the window, which may lock it.
LEMMA OutsideStep ==
  ASSUME IInv,
         \/ LockNow \/ Frame \/ Leave \/ SetLocks \/ StartJob \/ JobEnds
         \/ TimerFires \/ CliCopies \/ OtherCopies \/ Quit \/ UNCHANGED vars
  PROVE  Kept' /\ Faithful'
<1>1. CASE Lock /\ UNCHANGED disk
  BY <1>1, LockStep
<1>2. CASE UNCHANGED <<disk, vault, ui, hist>>
  <2>1. Kept'
    BY <1>2 DEF IInv, Kept, Locked, Sound, Ids, Distinct
  <2>2. Faithful'
    BY <1>2 DEF IInv, Faithful, Open, Locked, hist
  <2> QED BY <2>1, <2>2
<1>3. CASE LockNow \/ Quit
  BY <1>1, <1>3 DEF LockNow, Quit
<1>4. CASE Frame
  BY <1>1, <1>2, <1>4 DEF Frame
<1>5. CASE Leave \/ SetLocks \/ StartJob \/ JobEnds \/ TimerFires \/ CliCopies \/ OtherCopies
           \/ UNCHANGED vars
  BY <1>2, <1>5 DEF Leave, SetLocks, StartJob, JobEnds, TimerFires, CliCopies, OtherCopies, vars
<1> QED BY <1>3, <1>4, <1>5

LEMMA HeldStep ==
  ASSUME IInv, [Next]_vars
  PROVE  Kept' /\ Faithful'
<1>1. CASE SelectRow \/ Move \/ Type
  BY <1>1, SelectRowStep, MoveStep, TypeStep
<1>2. CASE \/ ToggleReveal \/ RevealTimeout \/ BeginAdd \/ CancelEditor
           \/ LoadImport \/ CancelImport \/ StartEnroll \/ CancelEnroll \/ CodeSaved
  BY <1>2, PlainStep
<1>3. CASE CopyPassword \/ BeginEdit \/ CommitAdd \/ CommitEdit \/ Delete
  BY <1>3, CopyPasswordStep, BeginEditStep, CommitAddStep, CommitEditStep, DeleteStep
<1>4. CASE CommitImport \/ SetPadding \/ FinishEnroll \/ Unlock \/ Create
  BY <1>4, CommitImportStep, SetPaddingStep, FinishEnrollStep, UnlockStep
<1>5. CASE \/ LockNow \/ Frame \/ Leave \/ SetLocks \/ StartJob \/ JobEnds
           \/ TimerFires \/ CliCopies \/ OtherCopies \/ Quit \/ UNCHANGED vars
  BY <1>5, OutsideStep
<1> QED BY <1>1, <1>2, <1>3, <1>4, <1>5 DEF Next

\* However memory, file and the memory of failures are treated: an unsaved change is
\* one whose save failed since the vault was unlocked.
Recorded == (~unsaved \/ failed)'

LEMMA RecordedBy ==
  ASSUME Around,
         \/ UNCHANGED <<unsaved, failed>> \/ Lock
         \/ \E v : Saves(v) \/ SaveFails(v) \/ Opened(v)
  PROVE  Recorded
BY DEF Around, Recorded, Lock, Saves, SaveFails, Opened

LEMMA AroundStep ==
  ASSUME IInv, [Next]_vars
  PROVE  Around'
<1>0. Around /\ (Open => Sound(vault)) /\ Sound(disk)
  BY DEF IInv, Kept
<1> DEFINE Rest == UNCHANGED <<away, locks, job, clip, timers, bare>>
<1>1. ASSUME Rest, Recorded PROVE Around'
  BY <1>0, <1>1 DEF Around, Recorded
<1>2. CASE \/ SelectRow \/ Move \/ Type \/ ToggleReveal \/ RevealTimeout
           \/ BeginAdd \/ BeginEdit \/ CancelEditor
  <2>1. Rest /\ UNCHANGED <<unsaved, failed>>
    BY <1>2 DEF SelectRow, Move, Type, ToggleReveal, RevealTimeout, BeginAdd, BeginEdit, CancelEditor,
         Acts, Still, Chose, hist, clips
  <2> QED BY <1>0, <1>1, <2>1, RecordedBy
<1>3. CASE LoadImport \/ CancelImport \/ StartEnroll \/ CancelEnroll \/ CodeSaved
  <2>1. Rest /\ UNCHANGED <<unsaved, failed>>
    BY <1>3 DEF LoadImport, CancelImport, StartEnroll, CancelEnroll, CodeSaved, Acts, Still, hist,
         clips
  <2> QED BY <1>0, <1>1, <2>1, RecordedBy
<1>4. CASE CommitAdd \/ CommitEdit \/ Delete
  <2>1. Rest /\ \E v : Saves(v) \/ SaveFails(v)
    BY <1>4, Zenon DEF CommitAdd, CommitEdit, Delete, Acts, Still, clips
  <2> QED BY <1>0, <1>1, <2>1, RecordedBy
<1>5. CASE CommitImport \/ SetPadding \/ FinishEnroll
  <2>1. Rest /\ \E v : Saves(v) \/ SaveFails(v)
    BY <1>5, Zenon DEF CommitImport, SetPadding, FinishEnroll, Acts, Still, clips
  <2> QED BY <1>0, <1>1, <2>1, RecordedBy
<1>6. CASE Unlock \/ Create
  <2>1. Rest /\ \E v : Opened(v)
    BY <1>6, Zenon DEF Unlock, Create, Still, clips
  <2> QED BY <1>0, <1>1, <2>1, RecordedBy
<1>7. CASE LockNow
  <2>1. Rest /\ Lock
    BY <1>7 DEF LockNow, Acts, Still, clips
  <2> QED BY <1>0, <1>1, <2>1, RecordedBy
<1>8. CASE CopyPassword
  <2> DEFINE e == Entries[ui.sel]
  <2>1. /\ UNCHANGED <<away, locks, job>> /\ clip' = e.id /\ bare' = FALSE
        /\ timers' = timers \cup {[n |-> copies, of |-> e.id, by |-> "gui"]}
        /\ Open /\ ui.sel \in DOMAIN Entries
    BY <1>8 DEF CopyPassword, Acts, Shown
  <2>2. \E v : Saves(v) \/ SaveFails(v)
    BY <1>8, Zenon DEF CopyPassword
  <2>3. Recorded
    BY <1>0, <2>2, RecordedBy
  <2>4. e.id \in Id
    BY <1>0, <2>1, SizeIs DEF Entries, Entry
  <2>5. bare' \in BOOLEAN
    BY <2>1
  <2> HIDE DEF e
  <2>6. clip' \in Id \cup {Other} /\ \A t \in timers' : t.of \in Id /\ t.by \in {"gui", "cli"}
    BY <1>0, <2>1, <2>4 DEF Around
  <2>7. UNCHANGED <<away, locks, job>>
    BY <2>1
  <2> QED BY <1>0, <2>3, <2>5, <2>6, <2>7 DEF Around, Recorded
<1>9. CASE Frame
  <2>1. UNCHANGED <<away, locks, clip, timers, bare>> /\ job' \in {job, "none"}
    BY <1>9 DEF Frame, clips
  <2>2. Lock \/ UNCHANGED <<unsaved, failed>>
    BY <1>9 DEF Frame, hist
  <2>3. Recorded
    BY <1>0, <2>2, RecordedBy
  <2> QED BY <1>0, <2>1, <2>3 DEF Around, Recorded
<1>10. CASE Leave
  BY <1>0, <1>10 DEF Leave, Around, hist, clips
<1>11. CASE SetLocks
  BY <1>0, <1>11 DEF SetLocks, Acts, Around, hist, clips
<1>12. CASE StartJob \/ JobEnds
  BY <1>0, <1>12 DEF StartJob, JobEnds, Around, hist, clips
<1>13. CASE TimerFires
  <2>1. PICK t \in timers :
               /\ timers' = timers \ {t} /\ clip' \in {Cleared(t), clip}
               /\ bare' = bare \/ bare' = (bare \/ LastFor(t))
    BY <1>13 DEF TimerFires
  <2>2. clip' \in {clip, Other} /\ bare' \in BOOLEAN
    BY <1>0, <2>1 DEF Cleared, Around
  <2>3. UNCHANGED <<away, locks, job, unsaved, failed>>
    BY <1>13 DEF TimerFires, hist
  <2> QED BY <1>0, <2>1, <2>2, <2>3 DEF Around
<1>14. CASE CliCopies
  <2>1. PICK i \in Ids(disk) :
               /\ clip' = i
               /\ timers' \in {timers, timers \cup {[n |-> copies, of |-> i, by |-> "cli"]}}
               /\ bare' = FALSE \/ bare' = (\A t \in timers : t.of # i)
    BY <1>14 DEF CliCopies
  <2>2. i \in Id
    BY <1>0, SizeIs DEF Ids, Entry
  <2>3. UNCHANGED <<away, locks, job, unsaved, failed>>
    BY <1>14 DEF CliCopies, hist
  <2>4. bare' \in BOOLEAN
    BY <2>1
  <2>5. clip' \in Id \cup {Other} /\ \A t \in timers' : t.of \in Id /\ t.by \in {"gui", "cli"}
    BY <1>0, <2>1, <2>2 DEF Around
  <2> QED BY <1>0, <2>3, <2>4, <2>5 DEF Around
<1>15. CASE OtherCopies
  BY <1>0, <1>15 DEF OtherCopies, Around, hist
<1>16. CASE Quit
  <2>1. Lock /\ UNCHANGED <<away, locks, clip, bare>> /\ job' = "none" /\ timers' \subseteq timers
    BY <1>16 DEF Quit
  <2>2. Recorded
    BY <1>0, <2>1, RecordedBy
  <2> QED BY <1>0, <2>1, <2>2 DEF Around, Recorded
<1>17. CASE UNCHANGED vars
  BY <1>0, <1>17 DEF vars, Around, hist, clips
<1> QED BY <1>2, <1>3, <1>4, <1>5, <1>6, <1>7, <1>8, <1>9, <1>10, <1>11,
           <1>12, <1>13, <1>14, <1>15, <1>16, <1>17 DEF Next

LEMMA InitHolds ==
  ASSUME Init
  PROVE  IInv
<1> DEFINE es == [i \in DOMAIN Stored |-> NewEntry(i, Stored[i])]
           v  == Of(es)
<1>1. es \in Seq(Entry) /\ \A i \in DOMAIN es : es[i].id = i
  <2>1. DOMAIN Stored = 1 .. Len(Stored) /\ Len(Stored) \in Nat /\ Len(Stored) <= MaxEntries
    BY ImportAssumption
  <2>2. \A i \in DOMAIN Stored : NewEntry(i, Stored[i]) \in Entry /\ NewEntry(i, Stored[i]).id = i
    BY <2>1, ImportAssumption, BoundIs DEF NewEntry, Entry, Id
  <2> QED BY <2>1, <2>2
<1> HIDE DEF es
<1>2. Sound(v)
  <2>1. v \in Vaults /\ v.entries = es /\ v.top = None /\ v.there
    BY <1>1, BoundIs DEF Of, Vaults, None
  <2> QED BY <1>1, <2>1 DEF Sound, Distinct
<1> HIDE DEF v
<1>3. disk \in {NoVault, v} /\ vault = NoVault /\ ui = Blank
  BY DEF Init, v, es
<1>4. Kept /\ Faithful
  BY <1>2, <1>3, NothingIsSound, BlankIs DEF Kept, Faithful, Open, Locked
<1>5. Around
  BY DEF Init, Around
<1> QED BY <1>4, <1>5 DEF IInv

\* What the window shows, and acts on, is what the vault holds: the list is what the
\* query finds, and what is revealed, copied, edited or deleted is what the user
\* chose, whatever was added, renamed, imported or reordered since, unless a save
\* failed or titles are doubled; and a locked window holds nothing (main.rs:1142).
THEOREM ShowsWhatIsHolds == Spec => []ShowsWhatIs
<1>1. Init => IInv
  BY InitHolds
<1>2. IInv /\ [Next]_vars => IInv'
  BY HeldStep, AroundStep DEF IInv
<1>3. IInv => ShowsWhatIs
  BY InvariantSuffices
<1> QED BY <1>1, <1>2, <1>3, PTL DEF Spec
=============================================================================
