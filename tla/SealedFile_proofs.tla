------------------------- MODULE SealedFile_proofs -------------------------
(***************************************************************************)
(* What TLC checks of SealedFile for two programs and four files, proved   *)
(* for any number of programs, files, entries, edits and faults.           *)
(***************************************************************************)
EXTENDS SealedFile, SequenceTheorems, WellFoundedInduction, TLAPS

(***************************************************************************)
(* Types, and what the helpers on trees yield.                             *)
(***************************************************************************)

Trees == UNION {[P -> Seq(Nat)] : P \in SUBSET Path}

Kinds  == {"seal", "append", "open"}
Phases == {"idle", "ready", "read", "stage", "promote", "sweep", "done"}

Jobs ==
  [kind : Kinds, phase : Phases, args : Seq(Source), second : BOOLEAN,
   todo : SUBSET (Entry \cup Path), got : Seq(Nat), made : Trees, good : BOOLEAN,
   feed : SUBSET Path, over : BOOLEAN, walk : SUBSET Path, cancel : BOOLEAN, early : BOOLEAN, ok : BOOLEAN,
   alone : BOOLEAN, touched : SUBSET Source, before : Trees]

Boxes == [files : Trees, good : BOOLEAN, there : BOOLEAN]

Typed ==
  /\ src \in [Source -> Content]
  /\ box \in Boxes
  /\ dest \in Trees /\ staging \in Trees
  /\ job \in [Job -> Jobs]
  /\ left \in BOOLEAN
  /\ started \in 0 .. MaxJobs /\ edits \in 0 .. MaxEdits /\ faults \in 0 .. MaxFaults

LEMMA TreeIs ==
  ASSUME NEW t \in Trees
  PROVE  DOMAIN t \subseteq Path /\ (\A p \in DOMAIN t : t[p] \in Seq(Nat)) /\ IsTree(t)
BY DEF Trees, IsTree

LEMMA EmptyIs == Empty \in Trees /\ DOMAIN Empty = {}
<1>1. Empty \in [{} -> Seq(Nat)]
  BY DEF Empty
<1> QED
  BY <1>1 DEF Trees

LEMMA PutIs ==
  ASSUME NEW t \in Trees, NEW p \in Path, NEW c \in Seq(Nat)
  PROVE  /\ Put(t, p, c) \in Trees
         /\ DOMAIN Put(t, p, c) = DOMAIN t \cup {p}
         /\ Put(t, p, c)[p] = c
         /\ \A q \in DOMAIN t : q # p => Put(t, p, c)[q] = t[q]
<1>1. Put(t, p, c) \in [DOMAIN t \cup {p} -> Seq(Nat)]
  BY TreeIs DEF Put
<1>2. DOMAIN t \cup {p} \in SUBSET Path
  BY TreeIs
<1> QED
  BY <1>1, <1>2 DEF Put, Trees

LEMMA WithoutIs ==
  ASSUME NEW t \in Trees, NEW P
  PROVE  /\ Without(t, P) \in Trees
         /\ DOMAIN Without(t, P) = DOMAIN t \ P
         /\ \A q \in DOMAIN t \ P : Without(t, P)[q] = t[q]
<1>1. Without(t, P) \in [DOMAIN t \ P -> Seq(Nat)]
  BY TreeIs DEF Without
<1>2. DOMAIN t \ P \in SUBSET Path
  BY TreeIs
<1> QED
  BY <1>1, <1>2 DEF Without, Trees

LEMMA BoundsHold == MaxJobs \in Nat /\ MaxEdits \in Nat /\ MaxFaults \in Nat
BY BoundsAssumption

LEMMA LeastOf ==
  ASSUME NEW I \in SUBSET Nat, I # {}
  PROVE  \E i \in I : \A n \in I : ~(n < i)
<1> DEFINE Less == {r \in Nat \X Nat : r[1] < r[2]}
<1>1. IsWellFoundedOn(Less, Nat)
  BY NatLessThanWellFounded, Zenon DEF OpToRel
<1>2. PICK i \in I : \A n \in I : ~(<<n, i>> \in Less)
  BY <1>1, WFMin, Zenon
<1> QED
  BY <1>2

\* Of some paths of the sealed file one comes first.
LEMMA EarliestIs ==
  ASSUME NEW P \in SUBSET Path, P # {}
  PROVE  Earliest(P) \in P
<1> DEFINE I == {i \in DOMAIN Order : Order[i] \in P}
<1>1. I \subseteq Nat /\ DOMAIN Order = 1 .. Len(Order) /\ Len(Order) \in Nat
  BY OrderAssumption
<1>2. I # {}
  BY DEF Path, ToSet
<1>3. PICK i \in I : \A n \in I : ~(n < i)
  BY <1>1, <1>2, LeastOf
<1>5. \A n \in 1 .. i - 1 : Order[n] \notin P
  BY <1>1, <1>3
<1>6. i \in DOMAIN Order /\ Order[i] \in P
  OBVIOUS
<1> QED
  BY <1>5, <1>6 DEF Earliest

\* It is the path of the entry that is being read.
LEMMA CurrentIs ==
  ASSUME NEW k \in Jobs, k.todo \subseteq Entry, k.todo # {}
  PROVE  Current(k) \in k.todo
<1> DEFINE P == {f.path : f \in k.todo}
<1>1. P \in SUBSET Path /\ P # {}
  BY DEF Entry
<1>2. Earliest(P) \in P
  BY <1>1, EarliestIs
<1>3. \E e \in k.todo : e.path = Earliest(P)
  BY <1>2
<1> QED
  BY <1>3 DEF Current

(***************************************************************************)
(* What a job knows of itself, and what it may rely on while no other one  *)
(* is at work.                                                             *)
(***************************************************************************)

\* Of the record of a job: early means that a step ahead looks at the flag.
Knows(j, k) ==
  /\ k.phase = "idle" => k = Idle
  /\ k.kind = "open"  => k.phase \notin {"idle", "read"}
  /\ k.kind # "open"  => k.phase \notin {"stage", "promote", "sweep"}
  /\ k.phase = "ready" => k.got = << >>
  /\ k.phase = "read" =>
       /\ k.todo \subseteq Entry
       /\ k.got # << >> => k.todo # {} /\ Len(k.got) < Current(k).size
  /\ k.phase = "stage" =>
       k.todo \subseteq DOMAIN k.made /\ k.feed \subseteq DOMAIN k.made /\ (k.over => k.todo = {})
  /\ k.ok => k.phase \in {"sweep", "done"}
  /\ k.early => /\ k.cancel /\ j \in Cancellable /\ ~k.ok /\ k.phase # "promote"
                /\ k.phase = "stage" => ~k.over

\* As long as a job is alone no other one is at work.
Solo ==
  \A j \in Job : job[j].alone /\ job[j].phase # "idle" => \A i \in Job \ {j} : ~Busy(i)

\* The folder is as a job has found it, until that has seen the archive's end.
Untouched(d, k) ==
  k.kind = "open" /\ k.alone /\ (k.phase \in {"ready", "stage"} \/ k.early) => d = k.before

Shape ==
  /\ Typed
  /\ \A j \in Job : Knows(j, job[j])
  /\ Solo
  /\ \A j \in Job : Untouched(dest, job[j])
  /\ NothingLeft

LEMMA IdleIs == Idle \in Jobs
BY EmptyIs DEF Idle, Jobs, Kinds, Phases

\* The next step of one job leaves the records of the others alone.
LEMMA ToIs ==
  ASSUME Typed, NEW j \in Job, NEW k \in Jobs, To(j, k)
  PROVE  job' \in [Job -> Jobs] /\ job'[j] = k /\ \A i \in Job \ {j} : job'[i] = job[i]
BY DEF To, Typed

\* A step of a job at work, which may write to the folder, disturbs no other job's.
LEMMA StepKeeps ==
  ASSUME Shape, NEW j \in Job, NEW k \in Jobs, To(j, k), Knows(j, k),
         job[j].phase # "idle", k.alone => k.phase = "idle" \/ job[j].alone,
         k.phase \notin {"idle", "done"} => Busy(j),
         dest' = dest \/ Busy(j), Untouched(dest', k)
  PROVE  /\ job' \in [Job -> Jobs]
         /\ (\A i \in Job : Knows(i, job[i]))'
         /\ Solo'
         /\ (\A i \in Job : Untouched(dest, job[i]))'
<1>1. job' \in [Job -> Jobs] /\ job'[j] = k /\ \A i \in Job \ {j} : job'[i] = job[i]
  BY ToIs DEF Shape
<1>2. (\A i \in Job : Knows(i, job[i]))'
  BY <1>1 DEF Shape
<1>3. Solo'
  <2> SUFFICES ASSUME NEW i \in Job, job'[i].alone, job'[i].phase # "idle",
                      NEW l \in Job \ {i}
               PROVE  job'[l].phase \in {"idle", "done"}
    BY DEF Solo, Busy
  <2>1. job[i].alone /\ job[i].phase # "idle"
    BY <1>1
  <2>2. job[l].phase \in {"idle", "done"}
    BY <2>1 DEF Shape, Solo, Busy
  <2> QED
    BY <1>1, <2>2 DEF Busy
<1>4. ASSUME NEW i \in Job PROVE Untouched(dest', job'[i])
  <2>1. CASE i = j
    BY <1>1, <2>1
  <2>2. CASE i # j /\ dest' = dest
    BY <1>1, <2>2 DEF Shape
  <2>3. CASE i # j /\ Busy(j)
    <3>1. job'[i] = job[i]
      BY <1>1, <2>3
    <3>2. job[i].kind = "open" => job[i].phase # "idle"
      BY DEF Shape, Knows
    <3>3. ~(job[i].alone /\ job[i].phase # "idle")
      BY <2>3 DEF Shape, Solo
    <3> QED
      BY <3>1, <3>2, <3>3 DEF Untouched
  <2> QED
    BY <2>1, <2>2, <2>3
<1> QED
  BY <1>1, <1>2, <1>3, <1>4

\* A job that fails puts nothing into the folder, and sweeps up behind it.
LEMMA FailsKeeps ==
  ASSUME Shape, NEW j \in Job, Busy(j), job[j].phase # "sweep", Fails(j), left' = left
  PROVE  /\ job' \in [Job -> Jobs]
         /\ (\A i \in Job : Knows(i, job[i]))'
         /\ Solo'
         /\ (\A i \in Job : Untouched(dest, job[i]))'
         /\ NothingLeft'
<1> DEFINE k == job[j]
           f == Failed(k)
<1>1. k \in Jobs /\ k.phase \notin {"idle", "done"}
  BY DEF Shape, Typed, Busy
<1>2. /\ f \in Jobs /\ f.ok = FALSE /\ f.kind = k.kind /\ f.alone = k.alone
      /\ f.early = k.early /\ f.cancel = k.cancel /\ f.before = k.before
      /\ f.phase = IF Extracting(k) THEN "sweep" ELSE "done"
  BY <1>1 DEF Failed, Jobs, Phases
<1>3. To(j, f) /\ UNCHANGED <<src, box, dest, staging>>
  BY DEF Fails
<1> HIDE DEF f
<1>4. Knows(j, f)
  BY <1>1, <1>2 DEF Shape, Knows, Extracting
<1>5. Untouched(dest', f)
  <2>1. Untouched(dest, k)
    BY DEF Shape
  <2>2. CASE k.early
    BY <1>2, <1>3, <2>1, <2>2 DEF Untouched
  <2>3. CASE ~k.early
    BY <1>2, <1>3, <2>3 DEF Untouched
  <2> QED
    BY <2>2, <2>3
<1>6. NothingLeft'
  <2>1. job'[j] = f /\ \A i \in Job \ {j} : job'[i] = job[i]
    BY <1>2, <1>3, ToIs DEF Shape
  <2>2. Extracting(k) => Extracting(f)
    BY <1>2 DEF Extracting
  <2> QED
    BY <1>3, <2>1, <2>2 DEF Shape, NothingLeft
<1> QED
  BY <1>1, <1>2, <1>3, <1>4, <1>5, <1>6, StepKeeps DEF Busy

(***************************************************************************)
(* The first states, and a job that is started.                            *)
(***************************************************************************)

LEMMA SealedIs == Sealed \subseteq Trees
BY InputAssumption DEF Trees

LEMMA InitShapes == Init => Shape
<1> SUFFICES ASSUME Init PROVE Shape
  OBVIOUS
<1>1. src \in [Source -> Content]
  <2>1. \E c \in Content : \A d \in Content : Len(c) >= Len(d)
    BY ContentAssumption
  <2>2. (CHOOSE c \in Content : \A d \in Content : Len(c) >= Len(d)) \in Content
    BY <2>1
  <2> QED
    BY <2>2 DEF Init
<1>2. \A P \in SUBSET Path : [p \in P |-> <<0>>] \in Trees
  <2> SUFFICES ASSUME NEW P \in SUBSET Path PROVE [p \in P |-> <<0>>] \in Trees
    OBVIOUS
  <2>1. [p \in P |-> <<0>>] \in [P -> Seq(Nat)]
    OBVIOUS
  <2> QED
    BY <2>1 DEF Trees
<1>3. box \in Boxes
  <2>1. CASE box = None
    BY <2>1, EmptyIs DEF None, Boxes
  <2>2. CASE box # None
    <3>1. PICK t \in Sealed : box = [files |-> t, good |-> TRUE, there |-> TRUE]
      BY <2>2 DEF Init
    <3>2. t \in Trees
      BY SealedIs
    <3> QED
      BY <3>1, <3>2 DEF Boxes
  <2> QED
    BY <2>1, <2>2
<1>4. dest \in Trees
  <2>1. CASE dest = Empty
    BY <2>1, EmptyIs
  <2>2. CASE dest # Empty
    <3>1. PICK o \in Older : dest = [p \in {o} |-> <<0>>]
      BY <2>2 DEF Init
    <3>2. {o} \in SUBSET Path
      BY InputAssumption
    <3> QED
      BY <3>1, <3>2, <1>2
  <2> QED
    BY <2>1, <2>2
<1>5. job \in [Job -> Jobs] /\ \A j \in Job : job[j] = Idle
  BY IdleIs DEF Init
<1>6. Typed
  <2>1. staging = Empty /\ left = FALSE /\ started = 0 /\ edits = 0 /\ faults = 0
    BY DEF Init
  <2>2. staging \in Trees
    BY <2>1, EmptyIs
  <2>3. started \in 0 .. MaxJobs /\ edits \in 0 .. MaxEdits /\ faults \in 0 .. MaxFaults
    BY <2>1, BoundsHold
  <2> QED
    BY <1>1, <1>3, <1>4, <1>5, <2>1, <2>2, <2>3 DEF Typed
<1>7. \A j \in Job : Knows(j, job[j]) /\ Untouched(dest, job[j])
  BY <1>5 DEF Idle, Knows, Untouched
<1>8. Solo
  BY <1>5 DEF Idle, Solo
<1>9. NothingLeft
  BY DEF Init, NothingLeft
<1> QED
  BY <1>6, <1>7, <1>8, <1>9 DEF Shape

\* Whoever starts looks whether it is alone; whoever was at work is so no more.
LEMMA StartedIs ==
  ASSUME Shape, NEW j \in Job, job[j].phase = "idle", NEW k \in Jobs,
         job' = Started(j, k)
  PROVE  /\ job' \in [Job -> Jobs]
         /\ job'[j] = [k EXCEPT !.phase = "ready", !.alone = \A i \in Job \ {j} : ~Busy(i),
                                !.before = IF k.kind = "open" THEN dest ELSE Empty]
         /\ \A i \in Job \ {j} :
              job'[i] = [job[i] EXCEPT !.alone = job[i].alone /\ job[i].phase = "idle"]
<1>1. dest \in Trees /\ Empty \in Trees /\ job \in [Job -> Jobs]
  BY EmptyIs DEF Shape, Typed
<1> DEFINE alone == \A i \in Job \ {j} : ~Busy(i)
           r == [k EXCEPT !.phase = "ready", !.alone = alone,
                          !.before = IF k.kind = "open" THEN dest ELSE Empty]
           o(i) == [job[i] EXCEPT !.alone = job[i].alone /\ job[i].phase = "idle"]
<1>2. alone \in BOOLEAN
  OBVIOUS
<1>3. r \in Jobs
  <2> HIDE DEF alone
  <2> QED
    BY <1>1, <1>2 DEF Jobs, Phases
<1>4. ASSUME NEW i \in Job PROVE o(i) \in Jobs
  <2>1. (job[i].alone /\ job[i].phase = "idle") \in BOOLEAN
    OBVIOUS
  <2> QED
    BY <1>1, <2>1 DEF Jobs
<1>5. job' = [i \in Job |-> IF i = j THEN r ELSE o(i)]
  BY Zenon DEF Started
<1> HIDE DEF r, o
<1>6. job' \in [Job -> Jobs] /\ job'[j] = r /\ \A i \in Job \ {j} : job'[i] = o(i)
  BY <1>3, <1>4, <1>5
<1> QED
  BY <1>6 DEF r, o

LEMMA StartedKeeps ==
  ASSUME Shape, NEW j \in Job, job[j].phase = "idle",
         NEW k \in Jobs, k.got = << >>, ~k.early, ~k.ok,
         job' = Started(j, k), UNCHANGED <<dest, staging, left>>
  PROVE  /\ job' \in [Job -> Jobs]
         /\ (\A i \in Job : Knows(i, job[i]))'
         /\ Solo'
         /\ (\A i \in Job : Untouched(dest, job[i]))'
         /\ NothingLeft'
<1> DEFINE alone == \A i \in Job \ {j} : ~Busy(i)
           r == job'[j]
<1>1. job \in [Job -> Jobs] /\ \A i \in Job : Knows(i, job[i]) /\ Untouched(dest, job[i])
  BY DEF Shape, Typed
<1>2. job' \in [Job -> Jobs]
  BY StartedIs
<1>3. /\ r.kind = k.kind /\ r.phase = "ready" /\ r.got = k.got /\ r.ok = k.ok
      /\ r.early = k.early /\ (r.alone <=> alone)
      /\ r.before = IF k.kind = "open" THEN dest ELSE Empty
  <2> HIDE DEF alone
  <2>1. r = [k EXCEPT !.phase = "ready", !.alone = alone,
                      !.before = IF k.kind = "open" THEN dest ELSE Empty]
    BY StartedIs, Zenon DEF alone
  <2> QED
    BY <2>1 DEF Jobs
<1>4. ASSUME NEW i \in Job \ {j}
      PROVE  /\ job'[i].kind = job[i].kind /\ job'[i].phase = job[i].phase
             /\ job'[i].alone <=> job[i].alone /\ job[i].phase = "idle"
             /\ Knows(i, job'[i]) /\ Untouched(dest', job'[i])
             /\ Extracting(job'[i]) <=> Extracting(job[i])
  <2> DEFINE q == job[i]
             n == job'[i]
  <2>1. n = [q EXCEPT !.alone = q.alone /\ q.phase = "idle"] /\ q \in Jobs
    BY StartedIs, <1>1
  <2>2. /\ n.kind = q.kind /\ n.phase = q.phase /\ n.got = q.got /\ n.ok = q.ok
        /\ n.todo = q.todo /\ n.made = q.made /\ n.early = q.early /\ n.cancel = q.cancel
        /\ n.feed = q.feed /\ n.over = q.over
        /\ n.before = q.before /\ (n.alone <=> q.alone /\ q.phase = "idle")
    BY <2>1 DEF Jobs
  <2>3. Current(n) = Current(q)
    BY <2>2 DEF Current
  <2>4. q.phase = "idle" => n = q
    <3> SUFFICES ASSUME q.phase = "idle" PROVE n = q
      OBVIOUS
    <3>1. q = Idle
      BY <1>1 DEF Knows
    <3>2. q.alone = TRUE
      BY <3>1 DEF Idle
    <3>3. (q.alone /\ q.phase = "idle") = TRUE
      BY <3>2
    <3>4. n = [q EXCEPT !.alone = TRUE]
      BY <2>1, <3>3, Zenon
    <3> QED
      BY <3>2, <3>4, <2>1 DEF Jobs
  <2>5. Knows(i, n)
    BY <2>2, <2>3, <2>4, <1>1 DEF Knows
  <2>6. Untouched(dest', n)
    BY <2>2, <1>1 DEF Untouched
  <2> QED
    BY <2>2, <2>5, <2>6 DEF Extracting
<1>5. (\A i \in Job : Knows(i, job[i]))'
  <2>1. Knows(j, r)
    BY <1>3 DEF Knows
  <2> QED
    BY <1>4, <2>1
<1>6. Solo'
  <2> SUFFICES ASSUME NEW i \in Job, job'[i].alone, job'[i].phase # "idle",
                      NEW l \in Job \ {i}
               PROVE  job'[l].phase \in {"idle", "done"}
    BY DEF Solo, Busy
  <2>1. i = j
    BY <1>4
  <2>2. job[l].phase \in {"idle", "done"}
    BY <1>3, <2>1 DEF Busy
  <2> QED
    BY <1>4, <2>1, <2>2
<1>7. (\A i \in Job : Untouched(dest, job[i]))'
  <2>1. Untouched(dest', r)
    BY <1>3 DEF Untouched
  <2> QED
    BY <1>4, <2>1
<1>8. NothingLeft'
  <2>1. ~Extracting(job[j])
    BY DEF Extracting
  <2> QED
    BY <1>4, <2>1 DEF Shape, NothingLeft
<1> QED
  BY <1>2, <1>5, <1>6, <1>7, <1>8

\* A new seal finds no sealed file, adding begins with what one holds.
LEMMA StartIs ==
  ASSUME Shape, NEW j \in Job, Start(j)
  PROVE  \E k \in Jobs : /\ k.got = << >> /\ k.early = FALSE /\ k.ok = FALSE
                         /\ job' = Started(j, k)
                         /\ k.kind = "seal" => ~box.there
                         /\ k.kind = "append" => k.made = box.files
<1>1. CASE StartSeal(j)
  <2>1. PICK a \in Args, second \in BOOLEAN :
          job' = Started(j, [Idle EXCEPT !.kind = "seal", !.args = a, !.second = second])
    BY <1>1 DEF StartSeal
  <2>2. a \in Seq(Source) /\ ~box.there
    BY <1>1, InputAssumption DEF StartSeal
  <2> DEFINE k == [Idle EXCEPT !.kind = "seal", !.args = a, !.second = second]
  <2>3. k \in Jobs /\ k.kind = "seal" /\ k.got = << >> /\ k.early = FALSE /\ k.ok = FALSE
    BY <2>2, IdleIs DEF Jobs, Kinds, Idle
  <2> HIDE DEF k
  <2>4. job' = Started(j, k)
    BY <2>1 DEF k
  <2> QED
    BY <2>2, <2>3, <2>4
<1>2. CASE StartAppend(j)
  <2>1. PICK a \in Args \cup {<< >>} :
          job' = Started(j, [Idle EXCEPT !.kind = "append", !.args = a, !.made = box.files])
    BY <1>2 DEF StartAppend
  <2>2. a \in Seq(Source)
    <3>1. CASE a \in Args
      BY <3>1, InputAssumption
    <3>2. CASE a = << >>
      BY <3>2
    <3> QED
      BY <3>1, <3>2
  <2>3. box.files \in Trees
    BY DEF Shape, Typed, Boxes
  <2> DEFINE k == [Idle EXCEPT !.kind = "append", !.args = a, !.made = box.files]
  <2>4. k \in Jobs /\ k.kind = "append" /\ k.made = box.files
          /\ k.got = << >> /\ k.early = FALSE /\ k.ok = FALSE
    BY <2>2, <2>3, IdleIs DEF Jobs, Kinds, Idle
  <2>5. job' = Started(j, k)
    BY <2>1 DEF k
  <2> HIDE DEF k
  <2> QED
    BY <2>4, <2>5
<1>3. CASE StartOpen(j)
  <2>1. job' = Started(j, [Idle EXCEPT !.kind = "open", !.made = box.files,
                                       !.good = box.good])
    BY <1>3 DEF StartOpen
  <2>2. box.files \in Trees /\ box.good \in BOOLEAN
    BY DEF Shape, Typed, Boxes
  <2> DEFINE k == [Idle EXCEPT !.kind = "open", !.made = box.files, !.good = box.good]
  <2>3. k \in Jobs /\ k.kind = "open" /\ k.got = << >> /\ k.early = FALSE /\ k.ok = FALSE
    BY <2>2, IdleIs DEF Jobs, Kinds, Idle
  <2>4. job' = Started(j, k)
    BY <2>1 DEF k
  <2> HIDE DEF k
  <2> QED
    BY <2>3, <2>4
<1> QED
  BY <1>1, <1>2, <1>3 DEF Start

LEMMA StartKeeps ==
  ASSUME Shape, NEW j \in Job, Start(j)
  PROVE  Shape'
<1>1. PICK k \in Jobs : /\ k.got = << >> /\ k.early = FALSE /\ k.ok = FALSE
                        /\ job' = Started(j, k)
  BY StartIs
<1>2. /\ job[j].phase = "idle" /\ started < MaxJobs /\ started' = started + 1
      /\ UNCHANGED <<src, box, dest, staging, left, edits, faults>>
  BY DEF Start
<1>3. started' \in 0 .. MaxJobs
  BY <1>2, BoundsHold DEF Shape, Typed
<1>4. /\ job' \in [Job -> Jobs]
      /\ (\A i \in Job : Knows(i, job[i]))'
      /\ Solo'
      /\ (\A i \in Job : Untouched(dest, job[i]))'
      /\ NothingLeft'
  BY <1>1, <1>2, StartedKeeps
<1>5. Typed'
  BY <1>2, <1>3, <1>4 DEF Shape, Typed
<1> QED
  BY <1>4, <1>5 DEF Shape

(***************************************************************************)
(* The steps of a job.                                                     *)
(***************************************************************************)

\* A step of a job that neither fails nor disturbs what is beside it.
LEMMA ToKeeps ==
  ASSUME Shape, NEW j \in Job, NEW k \in Jobs, To(j, k), Knows(j, k),
         Busy(j), k.alone = job[j].alone,
         Untouched(dest', k), NothingLeft',
         src' = src, box' \in Boxes, dest' \in Trees, staging' \in Trees, left' \in BOOLEAN,
         started' = started, edits' = edits, faults' \in 0 .. MaxFaults
  PROVE  Shape'
<1>1. /\ job' \in [Job -> Jobs]
      /\ (\A i \in Job : Knows(i, job[i]))'
      /\ Solo'
      /\ (\A i \in Job : Untouched(dest, job[i]))'
  BY StepKeeps DEF Busy
<1>2. Typed'
  BY <1>1 DEF Shape, Typed
<1> QED
  BY <1>1, <1>2 DEF Shape

\* What a job that is extracting leaves in the staging folder, it goes on to sweep.
LEMMA ExtractsOn ==
  ASSUME Shape, NEW j \in Job, NEW k \in Jobs, To(j, k), left' = left,
         Extracting(k) \/ (~Extracting(job[j]) /\ staging' = staging) \/ staging' = Empty
  PROVE  NothingLeft'
<1>1. job'[j] = k /\ \A i \in Job \ {j} : job'[i] = job[i]
  BY ToIs DEF Shape
<1> QED
  BY <1>1 DEF Shape, NothingLeft

\* The steps that leave the folders alone and do not fail.
LEMMA FailKeeps ==
  ASSUME Shape, NEW j \in Job, Busy(j), job[j].phase # "sweep", Fails(j),
         left' = left, started' = started, edits' = edits, faults' \in 0 .. MaxFaults
  PROVE  Shape'
<1>1. /\ job' \in [Job -> Jobs]
      /\ (\A i \in Job : Knows(i, job[i]))'
      /\ Solo'
      /\ (\A i \in Job : Untouched(dest, job[i]))'
      /\ NothingLeft'
  BY FailsKeeps
<1>2. Typed'
  BY <1>1 DEF Shape, Typed, Fails
<1> QED
  BY <1>1, <1>2 DEF Shape

LEMMA ContentIs == \A c \in Content : c \in Seq(Nat)
BY ContentAssumption

LEMMA CollectedIs ==
  ASSUME Typed, NEW args \in Seq(Source)
  PROVE  Collected(args) \subseteq Entry
<1> SUFFICES ASSUME NEW i \in 1 .. Len(args)
             PROVE  [path |-> Name[args[i]], from |-> args[i], size |-> Len(src[args[i]])]
                      \in Entry
  BY DEF Collected
<1>1. args[i] \in Source
  OBVIOUS
<1>2. Name[args[i]] \in Path
  BY <1>1, NameAssumption
<1>3. src[args[i]] \in Seq(Nat)
  BY <1>1, ContentIs DEF Typed
<1>4. Len(src[args[i]]) \in Nat
  BY <1>3
<1> QED
  BY <1>1, <1>2, <1>4 DEF Entry

LEMMA CollectKeeps ==
  ASSUME Shape, NEW j \in Job, Collect(j), UNCHANGED <<left, started, edits, faults>>
  PROVE  Shape'
<1>1. /\ job[j] \in Jobs /\ Knows(j, job[j]) /\ Busy(j)
      /\ job[j].phase = "ready" /\ job[j].kind \in {"seal", "append"}
  BY DEF Shape, Typed, Collect, Busy
<1>2. CASE Cancelled(j)
  BY <1>1, <1>2, FailKeeps DEF Collect, Shape, Typed
<1>3. CASE ~Cancelled(j)
  <2> DEFINE k == [job[j] EXCEPT !.phase = "read", !.todo = Collected(job[j].args)]
  <2>1. To(j, k) /\ UNCHANGED <<src, box, dest, staging>>
    BY <1>3 DEF Collect
  <2>2. Collected(job[j].args) \subseteq Entry
    BY <1>1, CollectedIs DEF Shape, Jobs
  <2>3. /\ k \in Jobs /\ k.phase = "read" /\ k.kind = job[j].kind /\ k.alone = job[j].alone
        /\ k.got = job[j].got /\ k.todo = Collected(job[j].args) /\ k.ok = job[j].ok
        /\ k.early = job[j].early /\ k.cancel = job[j].cancel
    BY <1>1, <2>2 DEF Jobs, Phases
  <2> HIDE DEF k
  <2>4. Knows(j, k)
    BY <1>1, <2>2, <2>3 DEF Knows
  <2>5. Untouched(dest', k)
    BY <1>1, <2>3 DEF Untouched
  <2>6. NothingLeft'
    BY <1>1, <2>1, <2>3, ExtractsOn DEF Extracting
  <2> QED
    BY <1>1, <2>1, <2>3, <2>4, <2>5, <2>6, ToKeeps DEF Shape, Typed
<1> QED
  BY <1>2, <1>3

\* What has been read grows by one block of the file, or is all that there was.
LEMMA GotIs ==
  ASSUME Typed, NEW k \in Jobs, k.todo \subseteq Entry, k.todo # {}, ~Missing(k)
  PROVE  /\ Current(k) \in k.todo /\ Current(k) \in Entry
         /\ Got(k) \in Seq(Nat)
         /\ Len(k.got) < Current(k).size =>
              /\ Len(Got(k)) = Len(k.got) + 1
              /\ Len(Got(k)) <= Len(src[Current(k).from])
              /\ \A m \in 1 .. Len(k.got) : Got(k)[m] = k.got[m]
              /\ Got(k)[Len(k.got) + 1] = src[Current(k).from][Len(k.got) + 1]
         /\ ~(Len(k.got) < Current(k).size) => Got(k) = k.got
<1> DEFINE e == Current(k)
           c == src[e.from]
<1>1. e \in k.todo /\ e \in Entry
  BY CurrentIs
<1>2. e.from \in Source /\ e.size \in Nat
  BY <1>1 DEF Entry
<1>3. c \in Seq(Nat) /\ k.got \in Seq(Nat)
  BY <1>2, ContentIs DEF Typed, Jobs
<1>4. Len(c) \in Nat /\ Len(k.got) \in Nat
  BY <1>3
<1>5. CASE More(k)
  <2>1. Got(k) = Append(k.got, c[Len(k.got) + 1])
    BY <1>5 DEF Got
  <2>2. Len(k.got) < e.size /\ Len(k.got) < Len(c)
    BY <1>4, <1>5 DEF More, Missing
  <2>3. c[Len(k.got) + 1] \in Nat
    <3>1. Len(k.got) + 1 \in 1 .. Len(c)
      BY <1>4, <2>2
    <3> QED
      BY <1>3, <3>1
  <2> HIDE DEF c
  <2>4. /\ Got(k) \in Seq(Nat) /\ Len(Got(k)) = Len(k.got) + 1
        /\ \A m \in 1 .. Len(k.got) : Got(k)[m] = k.got[m]
        /\ Got(k)[Len(k.got) + 1] = c[Len(k.got) + 1]
    BY <1>3, <2>1, <2>3
  <2> QED
    BY <1>1, <1>4, <2>2, <2>4 DEF c
<1>6. CASE ~More(k)
  <2>1. Got(k) = k.got /\ ~(Len(k.got) < e.size)
    BY <1>6 DEF Got, More
  <2> QED
    BY <1>1, <1>3, <2>1
<1> QED
  BY <1>5, <1>6

LEMMA ReadIs ==
  ASSUME Typed, NEW k \in Jobs, k.todo \subseteq Entry, k.todo # {}, ~Missing(k)
  PROVE  /\ Read(k) \in Jobs
         /\ \A f \in {"kind", "phase", "args", "second", "good", "walk", "cancel", "early",
                      "ok", "alone", "touched", "before"} : Read(k)[f] = k[f]
         /\ Len(Got(k)) < Current(k).size =>
              Read(k).todo = k.todo /\ Read(k).made = k.made /\ Read(k).got = Got(k)
         /\ ~(Len(Got(k)) < Current(k).size) =>
              /\ Read(k).todo = k.todo \ {Current(k)} /\ Read(k).got = << >>
              /\ Read(k).made = Put(k.made, Current(k).path, Got(k))
<1> DEFINE e == Current(k)
           got == Got(k)
<1>1. got \in Seq(Nat) /\ e \in Entry
  BY GotIs
<1>2. Put(k.made, e.path, got) \in Trees
  BY <1>1, PutIs DEF Entry, Jobs
<1>3. Read(k) = IF Len(got) < e.size THEN [k EXCEPT !.got = got]
                ELSE [k EXCEPT !.got = << >>, !.todo = k.todo \ {e},
                               !.made = Put(k.made, e.path, got)]
  BY DEF Read
<1> HIDE DEF e, got
<1>4. CASE Len(got) < e.size
  <2>1. Read(k) = [k EXCEPT !.got = got]
    BY <1>3, <1>4
  <2> QED
    BY <1>1, <1>4, <2>1 DEF Jobs, e, got
<1>5. CASE ~(Len(got) < e.size)
  <2>1. Read(k) = [k EXCEPT !.got = << >>, !.todo = k.todo \ {e},
                            !.made = Put(k.made, e.path, got)]
    BY <1>3, <1>5
  <2>2. k.todo \ {e} \in SUBSET (Entry \cup Path) /\ << >> \in Seq(Nat)
    OBVIOUS
  <2> QED
    BY <1>1, <1>2, <1>5, <2>1, <2>2 DEF Jobs, e, got
<1> QED
  BY <1>4, <1>5

LEMMA ReadBlockKeeps ==
  ASSUME Shape, NEW j \in Job, ReadBlock(j), UNCHANGED <<left, started, edits, faults>>
  PROVE  Shape'
<1> DEFINE k == job[j]
<1>1. k \in Jobs /\ Knows(j, k) /\ Busy(j) /\ k.phase = "read" /\ k.todo # {}
  BY DEF Shape, Typed, ReadBlock, Busy
<1>2. k.todo \subseteq Entry /\ k.kind # "open"
  BY <1>1 DEF Knows
<1>3. CASE Cancelled(j) \/ Missing(k)
  <2>1. Fails(j)
    BY <1>3 DEF ReadBlock
  <2> QED
    BY <1>1, <2>1, FailKeeps DEF Shape, Typed
<1>4. CASE ~(Cancelled(j) \/ Missing(k))
  <2> DEFINE n == Read(k)
             e == Current(k)
  <2>1. To(j, n) /\ UNCHANGED <<src, box, dest, staging>>
    BY <1>4 DEF ReadBlock
  <2>2. Typed /\ ~Missing(k)
    BY <1>4 DEF Shape
  <2>3. /\ n \in Jobs /\ n.phase = "read" /\ n.kind = k.kind /\ n.alone = k.alone
        /\ n.ok = k.ok /\ n.early = k.early /\ n.cancel = k.cancel
        /\ Len(Got(k)) < e.size => n.todo = k.todo /\ n.got = Got(k)
        /\ ~(Len(Got(k)) < e.size) => n.todo = k.todo \ {e} /\ n.got = << >>
    BY <1>1, <1>2, <2>2, ReadIs
  <2>4. n.todo \subseteq Entry /\ (n.got # << >> => n.todo # {} /\ Len(n.got) < Current(n).size)
    <3>1. CASE Len(Got(k)) < e.size
      <4>1. n.todo = k.todo /\ n.got = Got(k)
        BY <2>3, <3>1
      <4>2. Current(n) = e
        BY <4>1 DEF Current
      <4> QED
        BY <1>1, <1>2, <3>1, <4>1, <4>2
    <3>2. CASE ~(Len(Got(k)) < e.size)
      BY <1>2, <2>3, <3>2
    <3> QED
      BY <3>1, <3>2
  <2> HIDE DEF n
  <2>5. Knows(j, n)
    BY <1>1, <2>3, <2>4 DEF Knows
  <2>6. Untouched(dest', n)
    BY <1>2, <2>3 DEF Untouched
  <2>7. NothingLeft'
    BY <1>1, <2>1, <2>3, ExtractsOn DEF Extracting, n
  <2> QED
    BY <1>1, <2>1, <2>3, <2>5, <2>6, <2>7, ToKeeps DEF Shape, Typed, n
<1> QED
  BY <1>3, <1>4

LEMMA WriteBoxKeeps ==
  ASSUME Shape, NEW j \in Job, WriteBox(j), UNCHANGED <<left, started, edits, faults>>
  PROVE  Shape'
<1> DEFINE k == job[j]
           n == Finished(k)
<1>1. k \in Jobs /\ Knows(j, k) /\ Busy(j) /\ k.phase = "read"
  BY DEF Shape, Typed, WriteBox, Busy
<1>2. CASE Cancelled(j)
  BY <1>1, <1>2, FailKeeps DEF WriteBox, Shape, Typed
<1>3. CASE ~Cancelled(j)
  <2>1. box' = Written(k) /\ To(j, n) /\ UNCHANGED <<src, dest, staging>>
    BY <1>3 DEF WriteBox
  <2>2. Written(k) \in Boxes
    <3>1. (~k.second) \in BOOLEAN /\ k.made \in Trees
      BY <1>1 DEF Jobs
    <3> QED
      BY <3>1 DEF Written, Boxes
  <2>3. /\ n \in Jobs /\ n.phase = "done" /\ n.kind = k.kind /\ n.alone = k.alone
        /\ n.early = k.early /\ n.cancel = k.cancel
    BY <1>1 DEF Finished, Jobs, Phases
  <2> HIDE DEF n
  <2>4. Knows(j, n)
    BY <1>1, <1>3, <2>3 DEF Knows, Cancelled
  <2>5. Untouched(dest', n)
    BY <1>1, <2>3 DEF Untouched, Knows
  <2>6. NothingLeft'
    BY <1>1, <2>1, <2>3, ExtractsOn DEF Extracting
  <2> QED
    BY <1>1, <2>1, <2>2, <2>3, <2>4, <2>5, <2>6, ToKeeps DEF Shape, Typed
<1> QED
  BY <1>2, <1>3

LEMMA PrepareKeeps ==
  ASSUME Shape, NEW j \in Job, Prepare(j), UNCHANGED <<left, started, edits, faults>>
  PROVE  Shape'
<1> DEFINE k == job[j]
           m == [k EXCEPT !.phase = "stage", !.todo = DOMAIN k.made,
                          !.feed = {}, !.over = FALSE]
           n == IF k.good THEN m ELSE [k EXCEPT !.phase = "sweep"]
<1>1. /\ k \in Jobs /\ Knows(j, k) /\ Busy(j) /\ k.phase = "ready" /\ k.kind = "open"
      /\ Untouched(dest, k)
  BY DEF Shape, Typed, Prepare, Busy
<1>2. To(j, n) /\ staging' = Empty /\ UNCHANGED <<src, box, dest>>
  BY DEF Prepare
<1>3. DOMAIN k.made \subseteq Path
  BY <1>1, TreeIs DEF Jobs
<1>4. /\ n \in Jobs /\ n.kind = k.kind /\ n.alone = k.alone /\ n.ok = k.ok
      /\ n.early = k.early /\ n.cancel = k.cancel /\ n.before = k.before
      /\ \/ n.phase = "sweep"
         \/ n.phase = "stage" /\ n.todo = DOMAIN n.made /\ n.feed = {} /\ n.over = FALSE
  <2>1. CASE ~k.good
    <3>1. n = [k EXCEPT !.phase = "sweep"]
      BY <2>1
    <3> QED
      BY <1>1, <3>1 DEF Jobs, Phases
  <2>2. CASE k.good
    <3>1. n = m
      BY <2>2
    <3> QED
      BY <1>1, <1>3, <3>1 DEF Jobs, Phases
  <2> QED
    BY <2>1, <2>2
<1> HIDE DEF n
<1>5. Knows(j, n)
  BY <1>1, <1>4 DEF Knows
<1>6. Untouched(dest', n)
  BY <1>1, <1>2, <1>4 DEF Untouched
<1>7. NothingLeft'
  BY <1>2, <1>4, ExtractsOn
<1> QED
  BY <1>1, <1>2, <1>4, <1>5, <1>6, <1>7, EmptyIs, ToKeeps DEF Shape, Typed

\* The staging folder once p has been staged, and the record of the job that did.
Staged(t, k, p) ==
  Put(Without(t, {d \in Path : <<d, p>> \in Draft}), p, k.made[p])

Stepped(k, p) == [k EXCEPT !.feed = k.feed \ {p}]

LEMMA StagedIs ==
  ASSUME NEW t \in Trees, NEW k \in Jobs, NEW p \in DOMAIN k.made
  PROVE  /\ Staged(t, k, p) \in Trees
         /\ p \in Path
         /\ DOMAIN Staged(t, k, p) = {d \in DOMAIN t : <<d, p>> \notin Draft} \cup {p}
         /\ Staged(t, k, p)[p] = k.made[p]
         /\ \A d \in DOMAIN t : d # p /\ <<d, p>> \notin Draft => Staged(t, k, p)[d] = t[d]
<1> DEFINE D == {d \in Path : <<d, p>> \in Draft}
           w == Without(t, D)
<1>1. k.made \in Trees
  BY DEF Jobs
<1>2. p \in Path /\ k.made[p] \in Seq(Nat) /\ DOMAIN t \subseteq Path
  BY <1>1, TreeIs
<1>3. w \in Trees /\ DOMAIN w = DOMAIN t \ D /\ \A q \in DOMAIN t \ D : w[q] = t[q]
  BY WithoutIs
<1> DEFINE c == k.made[p]
           n == Put(w, p, c)
<1> HIDE DEF w, c
<1>4. /\ n \in Trees /\ DOMAIN n = DOMAIN w \cup {p} /\ n[p] = c
      /\ \A q \in DOMAIN w : q # p => n[q] = w[q]
  <2>1. w \in Trees /\ p \in Path /\ c \in Seq(Nat)
    BY <1>2, <1>3 DEF c
  <2> QED
    BY <2>1, PutIs
<1> HIDE DEF n
<1>5. Staged(t, k, p) = n
  BY DEF Staged, n, w, c
<1> QED
  BY <1>2, <1>3, <1>4, <1>5 DEF c

LEMMA FirstIs == \A P, n : First(P, n) \subseteq P
BY DEF First

LEMMA NextChunkKeeps ==
  ASSUME Shape, NEW j \in Job, NextChunk(j), UNCHANGED <<left, started, edits, faults>>
  PROVE  Shape'
<1> DEFINE k == job[j]
<1>1. /\ k \in Jobs /\ Knows(j, k) /\ Busy(j) /\ k.phase = "stage" /\ Untouched(dest, k)
  BY DEF Shape, Typed, NextChunk, Busy
<1>2. k.todo \subseteq DOMAIN k.made /\ DOMAIN k.made \subseteq Path /\ k.kind = "open"
  BY <1>1, TreeIs DEF Knows, Jobs, Kinds
<1>3. CASE Cancelled(j)
  <2>1. Fails(j)
    BY <1>3 DEF NextChunk
  <2> QED
    BY <1>1, <2>1, FailKeeps DEF Shape, Typed
<1>4. CASE ~Cancelled(j)
  <2>1. PICK n \in 0 .. Len(Order), over \in BOOLEAN :
               LET P == First(k.todo, n) IN
               /\ over => P = k.todo
               /\ To(j, [k EXCEPT !.feed = P, !.todo = k.todo \ P, !.over = over])
    BY <1>4 DEF NextChunk
  <2> DEFINE P == First(k.todo, n)
             m == [k EXCEPT !.feed = P, !.todo = k.todo \ P, !.over = over]
  <2>2. P \subseteq k.todo
    BY FirstIs
  <2>3. To(j, m) /\ (over => P = k.todo) /\ UNCHANGED <<src, box, dest, staging>>
    BY <1>4, <2>1 DEF NextChunk
  <2> HIDE DEF P
  <2>4. /\ m \in Jobs /\ m.phase = "stage" /\ m.kind = k.kind /\ m.alone = k.alone
        /\ m.ok = k.ok /\ m.early = k.early /\ m.cancel = k.cancel /\ m.before = k.before
        /\ m.feed = P /\ m.todo = k.todo \ P /\ m.over = over /\ m.made = k.made
    BY <1>1, <1>2, <2>2 DEF Jobs
  <2> HIDE DEF m
  <2>5. Knows(j, m)
    BY <1>1, <1>2, <1>4, <2>2, <2>3, <2>4 DEF Knows, Cancelled
  <2>6. Untouched(dest', m)
    BY <1>1, <2>3, <2>4 DEF Untouched
  <2>7. NothingLeft'
    BY <1>2, <2>3, <2>4, ExtractsOn DEF Extracting
  <2> QED
    BY <1>1, <2>3, <2>4, <2>5, <2>6, <2>7, ToKeeps DEF Shape, Typed
<1> QED
  BY <1>3, <1>4

LEMMA StageKeeps ==
  ASSUME Shape, NEW j \in Job, Stage(j), UNCHANGED <<left, started, edits, faults>>
  PROVE  Shape'
<1> DEFINE k == job[j]
           p == Earliest(k.feed)
           n == Stepped(k, p)
<1>1. /\ k \in Jobs /\ Knows(j, k) /\ Busy(j) /\ k.phase = "stage" /\ k.feed # {}
      /\ Untouched(dest, k)
  BY DEF Shape, Typed, Stage, Busy
<1>2. k.feed \subseteq DOMAIN k.made /\ k.kind = "open"
  BY <1>1 DEF Knows, Jobs, Kinds
<1>3. CASE Clash(staging, p)
  <2>1. Fails(j)
    BY <1>3 DEF Stage
  <2> QED
    BY <1>1, <2>1, FailKeeps DEF Shape, Typed
<1>4. CASE ~Clash(staging, p)
  <2>1. staging' = Staged(staging, k, p) /\ To(j, n) /\ UNCHANGED <<src, box, dest>>
    BY <1>4 DEF Stage, Staged, Stepped
  <2>2. p \in k.feed
    <3>1. DOMAIN k.made \subseteq Path
      BY <1>1, TreeIs DEF Jobs
    <3> QED
      BY <1>1, <1>2, <3>1, EarliestIs
  <2>3. staging' \in Trees
    BY <1>1, <1>2, <2>1, <2>2, StagedIs DEF Shape, Typed
  <2> HIDE DEF p
  <2>4. /\ n \in Jobs /\ n.phase = "stage" /\ n.kind = k.kind /\ n.alone = k.alone
        /\ n.ok = k.ok /\ n.early = k.early /\ n.cancel = k.cancel /\ n.before = k.before
        /\ n.feed = k.feed \ {p} /\ n.todo = k.todo /\ n.over = k.over /\ n.made = k.made
    BY <1>1 DEF Jobs, Stepped
  <2> HIDE DEF n
  <2>5. Knows(j, n)
    BY <1>1, <1>2, <1>4, <2>4 DEF Knows
  <2>6. Untouched(dest', n)
    BY <1>1, <2>1, <2>4 DEF Untouched
  <2>7. NothingLeft'
    BY <1>2, <2>1, <2>4, ExtractsOn DEF Extracting
  <2> QED
    BY <1>1, <2>1, <2>3, <2>4, <2>5, <2>6, <2>7, ToKeeps DEF Shape, Typed
<1> QED
  BY <1>3, <1>4

LEMMA VerifyKeeps ==
  ASSUME Shape, NEW j \in Job, Verify(j), UNCHANGED <<left, started, edits, faults>>
  PROVE  Shape'
<1> DEFINE k == job[j]
           n == [k EXCEPT !.phase = "promote", !.walk = DOMAIN staging]
<1>1. k \in Jobs /\ Knows(j, k) /\ Busy(j) /\ k.phase = "stage" /\ k.over
  BY DEF Shape, Typed, Verify, Busy
<1>2. To(j, n) /\ UNCHANGED <<src, box, dest, staging>>
  BY DEF Verify
<1>3. DOMAIN staging \subseteq Path
  BY TreeIs DEF Shape, Typed
<1>4. /\ n \in Jobs /\ n.phase = "promote" /\ n.kind = k.kind /\ n.alone = k.alone
      /\ n.ok = k.ok /\ n.early = k.early
  BY <1>1, <1>3 DEF Jobs, Phases
<1> HIDE DEF n
<1>5. Knows(j, n)
  BY <1>1, <1>4 DEF Knows
<1>6. Untouched(dest', n)
  BY <1>1, <1>4 DEF Untouched, Knows
<1>7. NothingLeft'
  BY <1>1, <1>2, <1>4, ExtractsOn DEF Extracting, Knows, Jobs, Kinds
<1> QED
  BY <1>1, <1>2, <1>4, <1>5, <1>6, <1>7, ToKeeps DEF Shape, Typed

\* The staging folder once an entry has been moved within it.
Within(t, h) == Put(Without(t, {h[1]}), h[2], t[h[1]])

LEMMA WithinIs ==
  ASSUME NEW t \in Trees, NEW h \in Hidden, h[1] \in DOMAIN t
  PROVE  /\ Within(t, h) \in Trees
         /\ DOMAIN Within(t, h) = (DOMAIN t \ {h[1]}) \cup {h[2]}
         /\ Within(t, h)[h[2]] = t[h[1]]
         /\ \A q \in DOMAIN t : q # h[1] /\ q # h[2] => Within(t, h)[q] = t[q]
<1> DEFINE a == h[1]
           p == h[2]
           w == Without(t, {a})
           c == t[a]
<1>1. p \in Path /\ c \in Seq(Nat)
  BY NameAssumption, TreeIs
<1>2. w \in Trees /\ DOMAIN w = DOMAIN t \ {a} /\ \A q \in DOMAIN t \ {a} : w[q] = t[q]
  BY WithoutIs
<1> HIDE DEF w, c, p
<1> DEFINE n == Put(w, p, c)
<1>3. /\ n \in Trees /\ DOMAIN n = DOMAIN w \cup {p} /\ n[p] = c
      /\ \A q \in DOMAIN w : q # p => n[q] = w[q]
  <2>1. w \in Trees /\ p \in Path /\ c \in Seq(Nat)
    BY <1>1, <1>2
  <2> QED
    BY <2>1, PutIs
<1> HIDE DEF n
<1>4. Within(t, h) = n
  BY DEF Within, n, w, c, p
<1> QED
  BY <1>2, <1>3, <1>4 DEF c, p

\* A step of promotion that goes well leaves the job in it.
LEMMA PromotingKeeps ==
  ASSUME Shape, NEW j \in Job, job[j].phase = "promote", NEW P \in SUBSET Path,
         To(j, [job[j] EXCEPT !.walk = P]),
         dest' \in Trees, staging' \in Trees,
         UNCHANGED <<src, box, left, started, edits, faults>>
  PROVE  Shape'
<1> DEFINE k == job[j]
           n == [k EXCEPT !.walk = P]
<1>1. k \in Jobs /\ Knows(j, k) /\ Busy(j)
  BY DEF Shape, Typed, Busy
<1>2. /\ n \in Jobs /\ n.phase = "promote" /\ n.kind = k.kind /\ n.alone = k.alone
      /\ n.ok = k.ok /\ n.early = k.early
  BY <1>1 DEF Jobs
<1>3. To(j, n)
  OBVIOUS
<1> HIDE DEF n
<1>4. Knows(j, n)
  BY <1>1, <1>2 DEF Knows
<1>5. Untouched(dest', n)
  BY <1>1, <1>2 DEF Untouched, Knows
<1>6. NothingLeft'
  BY <1>1, <1>2, <1>3, ExtractsOn DEF Extracting, Knows, Jobs, Kinds
<1> QED
  BY <1>1, <1>2, <1>3, <1>4, <1>5, <1>6, ToKeeps DEF Shape, Typed

LEMMA PromoteKeeps ==
  ASSUME Shape, NEW j \in Job, Promote(j), UNCHANGED <<left, started, edits, faults>>
  PROVE  Shape'
<1> DEFINE k == job[j]
<1>1. k \in Jobs /\ Busy(j) /\ k.phase = "promote"
  BY DEF Shape, Typed, Promote, Busy
<1>2. PICK p \in k.walk :
        IF p \notin DOMAIN staging \/ Clash(dest, p) THEN Fails(j)
        ELSE /\ dest' = Put(dest, p, staging[p]) /\ staging' = Without(staging, {p})
             /\ To(j, [k EXCEPT !.walk = k.walk \ {p}])
             /\ UNCHANGED <<src, box>>
  BY DEF Promote
<1>3. CASE p \notin DOMAIN staging \/ Clash(dest, p)
  BY <1>1, <1>2, <1>3, FailKeeps DEF Shape, Typed
<1>4. CASE ~(p \notin DOMAIN staging \/ Clash(dest, p))
  <2>1. dest \in Trees /\ staging \in Trees /\ staging[p] \in Seq(Nat) /\ p \in Path
    BY <1>4, TreeIs DEF Shape, Typed
  <2>2. dest' \in Trees
    <3>1. Put(dest, p, staging[p]) \in Trees
      <4> DEFINE c == staging[p]
      <4>1. c \in Seq(Nat) /\ dest \in Trees /\ p \in Path
        BY <2>1
      <4> HIDE DEF c
      <4>2. Put(dest, p, c) \in Trees
        BY <4>1, PutIs
      <4> QED
        BY <4>2 DEF c
    <3> QED
      BY <1>2, <1>4, <3>1
  <2>3. staging' \in Trees
    <3>1. Without(staging, {p}) \in Trees
      BY <2>1, WithoutIs
    <3> QED
      BY <1>2, <1>4, <3>1
  <2>4. k.walk \ {p} \in SUBSET Path
    BY <1>1 DEF Jobs
  <2> QED
    BY <1>1, <1>2, <1>4, <2>2, <2>3, <2>4, PromotingKeeps
<1> QED
  BY <1>3, <1>4

LEMMA PromoteWithinKeeps ==
  ASSUME Shape, NEW j \in Job, PromoteWithin(j), UNCHANGED <<left, started, edits, faults>>
  PROVE  Shape'
<1> DEFINE k == job[j]
<1>1. k \in Jobs /\ Busy(j) /\ k.phase = "promote"
  BY DEF Shape, Typed, PromoteWithin, Busy
<1>2. PICK h \in Hidden :
        \/ Fails(j)
        \/ /\ h[1] \in DOMAIN staging /\ staging' = Within(staging, h)
           /\ To(j, [k EXCEPT !.walk = k.walk \ {h[1]}])
           /\ UNCHANGED <<src, box, dest>>
  BY DEF PromoteWithin, Within
<1>3. CASE Fails(j)
  BY <1>1, <1>3, FailKeeps DEF Shape, Typed
<1>4. CASE ~Fails(j)
  <2>1. staging' \in Trees
    BY <1>2, <1>4, WithinIs DEF Shape, Typed
  <2>2. k.walk \ {h[1]} \in SUBSET Path
    BY <1>1 DEF Jobs
  <2> QED
    BY <1>1, <1>2, <1>4, <2>1, <2>2, PromotingKeeps DEF Shape, Typed
<1> QED
  BY <1>3, <1>4

LEMMA PromotedKeeps ==
  ASSUME Shape, NEW j \in Job, Promoted(j), UNCHANGED <<left, started, edits, faults>>
  PROVE  Shape'
<1> DEFINE k == job[j]
           n == [k EXCEPT !.phase = "sweep", !.ok = TRUE]
<1>1. k \in Jobs /\ Knows(j, k) /\ Busy(j) /\ k.phase = "promote"
  BY DEF Shape, Typed, Promoted, Busy
<1>2. To(j, n) /\ UNCHANGED <<src, box, dest, staging>>
  BY DEF Promoted
<1>3. /\ n \in Jobs /\ n.phase = "sweep" /\ n.kind = k.kind /\ n.alone = k.alone
      /\ n.early = k.early
  BY <1>1 DEF Jobs, Phases
<1> HIDE DEF n
<1>4. Knows(j, n) /\ n.kind = "open"
  BY <1>1, <1>3 DEF Knows, Jobs, Kinds
<1>5. Untouched(dest', n)
  BY <1>1, <1>3 DEF Untouched, Knows
<1>6. NothingLeft'
  BY <1>2, <1>3, <1>4, ExtractsOn DEF Extracting
<1> QED
  BY <1>1, <1>2, <1>3, <1>4, <1>5, <1>6, ToKeeps DEF Shape, Typed

\* The record of a job that has swept up behind it, or failed to.
LEMMA SweptIs ==
  ASSUME Shape, NEW j \in Job, job[j].phase = "sweep"
  PROVE  LET n == [job[j] EXCEPT !.phase = "done"] IN
         /\ n \in Jobs /\ n.phase = "done" /\ n.kind = job[j].kind /\ n.ok = job[j].ok
         /\ n.alone = job[j].alone /\ n.made = job[j].made /\ n.before = job[j].before
         /\ Knows(j, n) /\ Untouched(dest, n)
<1> DEFINE k == job[j]
           n == [k EXCEPT !.phase = "done"]
<1>1. k \in Jobs /\ Knows(j, k) /\ Untouched(dest, k)
  BY DEF Shape, Typed
<1>2. /\ n \in Jobs /\ n.phase = "done" /\ n.kind = k.kind /\ n.alone = k.alone
      /\ n.ok = k.ok /\ n.early = k.early /\ n.cancel = k.cancel /\ n.before = k.before
      /\ n.made = k.made
  BY <1>1 DEF Jobs, Phases
<1> HIDE DEF n
<1>3. Knows(j, n)
  BY <1>1, <1>2 DEF Knows
<1>4. Untouched(dest, n)
  BY <1>1, <1>2 DEF Untouched
<1> QED
  BY <1>2, <1>3, <1>4 DEF n

LEMMA SweepKeeps ==
  ASSUME Shape, NEW j \in Job, Sweep(j), UNCHANGED <<left, started, edits, faults>>
  PROVE  Shape'
<1> DEFINE n == [job[j] EXCEPT !.phase = "done"]
<1>1. job[j].phase = "sweep" /\ Busy(j)
  BY DEF Sweep, Busy
<1>2. To(j, n) /\ staging' = Empty /\ UNCHANGED <<src, box, dest>>
  BY DEF Sweep
<1>3. n \in Jobs /\ n.alone = job[j].alone /\ Knows(j, n) /\ Untouched(dest, n)
  BY <1>1, SweptIs
<1> HIDE DEF n
<1>4. NothingLeft'
  BY <1>2, <1>3, ExtractsOn
<1> QED
  BY <1>1, <1>2, <1>3, <1>4, EmptyIs, ToKeeps DEF Shape, Typed

LEMMA FaultCounts ==
  ASSUME Typed, faults < MaxFaults, faults' = faults + 1
  PROVE  faults' \in 0 .. MaxFaults
BY BoundsHold DEF Typed

LEMMA SweepFailsKeeps ==
  ASSUME Shape, NEW j \in Job, SweepFails(j)
  PROVE  Shape'
<1> DEFINE n == [job[j] EXCEPT !.phase = "done"]
<1>1. job[j].phase = "sweep" /\ Busy(j)
  BY DEF SweepFails, Busy
<1>2. To(j, n) /\ left' = TRUE /\ UNCHANGED <<src, box, dest, staging, started, edits>>
  BY DEF SweepFails
<1>3. n \in Jobs /\ n.alone = job[j].alone /\ Knows(j, n) /\ Untouched(dest, n)
  BY <1>1, SweptIs
<1> HIDE DEF n
<1>4. NothingLeft'
  BY <1>2 DEF NothingLeft
<1>5. faults' \in 0 .. MaxFaults
  BY FaultCounts DEF SweepFails, Shape
<1> QED
  BY <1>1, <1>2, <1>3, <1>4, <1>5, ToKeeps DEF Shape, Typed

\* A job that is acknowledged, or killed.
LEMMA IdlesKeeps ==
  ASSUME Shape, NEW j \in Job, job[j].phase # "idle", To(j, Idle),
         UNCHANGED <<src, box, dest, staging, started, edits>>,
         faults' \in 0 .. MaxFaults,
         left' = (left \/ Extracting(job[j]))
  PROVE  Shape'
<1>1. Knows(j, Idle) /\ Untouched(dest', Idle) /\ Idle.phase = "idle"
  BY DEF Knows, Untouched, Idle
<1>2. /\ job' \in [Job -> Jobs]
      /\ (\A i \in Job : Knows(i, job[i]))'
      /\ Solo'
      /\ (\A i \in Job : Untouched(dest, job[i]))'
  BY <1>1, IdleIs, StepKeeps
<1>3. NothingLeft'
  <2>1. job'[j] = Idle /\ \A i \in Job \ {j} : job'[i] = job[i]
    BY IdleIs, ToIs DEF Shape
  <2> QED
    BY <2>1 DEF Shape, NothingLeft
<1>4. left' \in BOOLEAN
  OBVIOUS
<1>5. Typed'
  BY <1>2, <1>4 DEF Shape, Typed
<1> QED
  BY <1>2, <1>3, <1>5 DEF Shape

LEMMA AcknowledgeKeeps ==
  ASSUME Shape, NEW j \in Job, Acknowledge(j), UNCHANGED <<left, started, edits, faults>>
  PROVE  Shape'
<1>1. /\ job[j].phase = "done" /\ To(j, Idle)
      /\ UNCHANGED <<src, box, dest, staging, left, started, edits, faults>>
  BY DEF Acknowledge
<1>2. ~Extracting(job[j]) /\ left \in BOOLEAN /\ faults \in 0 .. MaxFaults
  BY <1>1 DEF Extracting, Shape, Typed
<1>3. left' = (left \/ Extracting(job[j]))
  <2>1. left' = left /\ Extracting(job[j]) = FALSE
    BY <1>1, <1>2
  <2> HIDE DEF Extracting
  <2> QED
    BY <1>2, <2>1, Zenon
<1> QED
  BY <1>1, <1>2, <1>3, IdlesKeeps

LEMMA CrashKeeps ==
  ASSUME Shape, NEW j \in Job, Crash(j)
  PROVE  Shape'
<1>1. faults' \in 0 .. MaxFaults
  BY FaultCounts DEF Crash, Shape
<1> QED
  BY <1>1, IdlesKeeps DEF Crash, Busy

LEMMA ErrorKeeps ==
  ASSUME Shape, NEW j \in Job, Error(j)
  PROVE  Shape'
<1>1. faults' \in 0 .. MaxFaults
  BY FaultCounts DEF Error, Shape
<1> QED
  BY <1>1, FailKeeps DEF Error

LEMMA CancelKeeps ==
  ASSUME Shape, NEW j \in Job, Cancel(j)
  PROVE  Shape'
<1> DEFINE k == job[j]
           early == k.phase \in {"ready", "read"} \/ (k.phase = "stage" /\ ~k.over)
           n == [k EXCEPT !.cancel = TRUE, !.early = early]
<1>1. /\ k \in Jobs /\ Knows(j, k) /\ Busy(j) /\ Untouched(dest, k) /\ j \in Cancellable
      /\ k.phase \notin {"idle", "done"}
  BY DEF Shape, Typed, Cancel, Busy
<1>2. To(j, n) /\ UNCHANGED <<src, box, dest, staging, left, started, edits, faults>>
  BY DEF Cancel
<1>3. early \in BOOLEAN
  OBVIOUS
<1>4. /\ n \in Jobs /\ n.kind = k.kind /\ n.phase = k.phase /\ n.todo = k.todo
      /\ n.feed = k.feed /\ n.over = k.over
      /\ n.got = k.got /\ n.made = k.made /\ n.ok = k.ok /\ n.alone = k.alone
      /\ n.before = k.before /\ n.cancel = TRUE /\ n.early = early
  <2> HIDE DEF early
  <2> QED
    BY <1>1, <1>3 DEF Jobs
<1>5. Current(n) = Current(k)
  BY <1>4 DEF Current
<1> HIDE DEF n
<1>6. Knows(j, n)
  BY <1>1, <1>4, <1>5 DEF Knows
<1>7. Untouched(dest', n)
  BY <1>1, <1>2, <1>4 DEF Untouched, Knows
<1>8. NothingLeft'
  BY <1>2, <1>4, ExtractsOn DEF Extracting
<1> QED
  BY <1>1, <1>2, <1>4, <1>6, <1>7, <1>8, ToKeeps DEF Shape, Typed

\* A source that changes is noted, and nothing else of any job is.
LEMMA EditIs ==
  ASSUME Shape, NEW s \in Source, EditSource(s)
  PROVE  /\ src' \in [Source -> Content] /\ \A t \in Source \ {s} : src'[t] = src[t]
         /\ job' \in [Job -> Jobs]
         /\ \A j \in Job :
              /\ \A f \in {"kind", "phase", "args", "second", "todo", "got", "made", "good", "feed", "over",
                           "walk", "cancel", "early", "ok", "alone", "before"} :
                   job'[j][f] = job[j][f]
              /\ job'[j].touched =
                   IF job[j].phase # "idle" /\ s \in ToSet(job[j].args)
                   THEN job[j].touched \cup {s} ELSE job[j].touched
              /\ job[j].phase = "idle" => job'[j] = job[j]
         /\ edits' \in 0 .. MaxEdits
         /\ UNCHANGED <<box, dest, staging, left, started, faults>>
<1>1. PICK c \in Content \ {src[s]} : src' = [src EXCEPT ![s] = c]
  BY DEF EditSource
<1>2. src' \in [Source -> Content] /\ \A t \in Source \ {s} : src'[t] = src[t]
  BY <1>1 DEF Shape, Typed
<1>3. edits' \in 0 .. MaxEdits
  BY BoundsHold DEF EditSource, Shape, Typed
<1>4. ASSUME NEW j \in Job
      PROVE  /\ job'[j] \in Jobs
             /\ \A f \in {"kind", "phase", "args", "second", "todo", "got", "made", "good", "feed", "over",
                          "walk", "cancel", "early", "ok", "alone", "before"} :
                  job'[j][f] = job[j][f]
             /\ job'[j].touched =
                  IF job[j].phase # "idle" /\ s \in ToSet(job[j].args)
                  THEN job[j].touched \cup {s} ELSE job[j].touched
             /\ job[j].phase = "idle" => job'[j] = job[j]
  <2> DEFINE n == [job[j] EXCEPT !.touched = job[j].touched \cup {s}]
  <2>1. job[j] \in Jobs
    BY DEF Shape, Typed
  <2>2. job'[j] = IF job[j].phase # "idle" /\ s \in ToSet(job[j].args) THEN n ELSE job[j]
    BY DEF EditSource
  <2>3. /\ n \in Jobs /\ n.touched = job[j].touched \cup {s}
        /\ \A f \in {"kind", "phase", "args", "second", "todo", "got", "made", "good", "feed", "over",
                     "walk", "cancel", "early", "ok", "alone", "before"} : n[f] = job[j][f]
    BY <2>1 DEF Jobs
  <2> HIDE DEF n
  <2> QED
    BY <2>1, <2>2, <2>3
<1>5. job' \in [Job -> Jobs]
  <2>1. \E F : job' = [j \in Job |-> F[j]]
    <3>1. job' = [j \in Job |-> job'[j]]
      BY DEF EditSource
    <3> QED
      BY <3>1
  <2> QED
    BY <1>4, <2>1
<1> QED
  BY <1>2, <1>3, <1>4, <1>5 DEF EditSource

LEMMA EditKeeps ==
  ASSUME Shape, NEW s \in Source, EditSource(s)
  PROVE  Shape'
<1>1. /\ src' \in [Source -> Content] /\ job' \in [Job -> Jobs]
      /\ edits' \in 0 .. MaxEdits
      /\ UNCHANGED <<box, dest, staging, left, started, faults>>
  BY EditIs
<1>2. Typed'
  BY <1>1 DEF Shape, Typed
<1>3. ASSUME NEW j \in Job
      PROVE  /\ job'[j].kind = job[j].kind /\ job'[j].phase = job[j].phase
             /\ job'[j].alone = job[j].alone
             /\ Knows(j, job'[j]) /\ Untouched(dest', job'[j])
  <2> DEFINE q == job[j]
             n == job'[j]
  <2>1. /\ n.kind = q.kind /\ n.phase = q.phase /\ n.todo = q.todo /\ n.got = q.got
        /\ n.feed = q.feed /\ n.over = q.over
        /\ n.made = q.made /\ n.cancel = q.cancel /\ n.early = q.early /\ n.ok = q.ok
        /\ n.alone = q.alone /\ n.before = q.before /\ (q.phase = "idle" => n = q)
    BY EditIs
  <2>2. Current(n) = Current(q)
    BY <2>1 DEF Current
  <2>3. Knows(j, n)
    BY <2>1, <2>2 DEF Shape, Knows
  <2>4. Untouched(dest', n)
    BY <1>1, <2>1 DEF Shape, Untouched
  <2> QED
    BY <2>1, <2>3, <2>4
<1>4. Solo'
  BY <1>3 DEF Shape, Solo, Busy
<1>5. NothingLeft'
  BY <1>1, <1>3 DEF Shape, NothingLeft, Extracting
<1> QED
  BY <1>2, <1>3, <1>4, <1>5 DEF Shape

LEMMA StepShapes ==
  ASSUME Shape, NEW j \in Job, Step(j)
  PROVE  Shape'
<1>1. UNCHANGED <<left, started, edits, faults>>
  BY DEF Step
<1> QED
  BY <1>1, CollectKeeps, ReadBlockKeeps, WriteBoxKeeps, PrepareKeeps, NextChunkKeeps,
     StageKeeps, VerifyKeeps, PromoteKeeps, PromoteWithinKeeps, PromotedKeeps, SweepKeeps, AcknowledgeKeeps DEF Step

LEMMA NextShapes == Shape /\ [Next]_vars => Shape'
<1> SUFFICES ASSUME Shape, [Next]_vars PROVE Shape'
  OBVIOUS
<1>1. CASE UNCHANGED vars
  <2>1. UNCHANGED <<src, box, dest, staging, job, left, started, edits, faults>>
    BY <1>1 DEF vars
  <2>2. Typed' /\ NothingLeft' /\ Solo'
    BY <2>1 DEF Shape, Typed, NothingLeft, Solo, Busy
  <2>3. \A j \in Job : Knows(j, job'[j]) /\ Untouched(dest', job'[j])
    BY <2>1 DEF Shape
  <2> QED
    BY <2>2, <2>3 DEF Shape
<1>2. CASE Next
  BY <1>2, StartKeeps, StepShapes, CancelKeeps, ErrorKeeps, SweepFailsKeeps, CrashKeeps,
     EditKeeps DEF Next
<1> QED
  BY <1>1, <1>2

LEMMA ShapeShows == Shape => TypeOK /\ NothingLeft
<1> SUFFICES ASSUME Shape PROVE TypeOK /\ NothingLeft
  OBVIOUS
<1>1. ASSUME NEW j \in Job
      PROVE  LET k == job[j] IN
             /\ k.kind \in {"seal", "append", "open"}
             /\ k.phase \in {"idle", "ready", "read", "stage", "promote", "sweep", "done"}
             /\ k.phase = "read" => k.todo \subseteq Entry
             /\ k.phase = "stage" => k.todo \subseteq Path
             /\ k.got \in Seq(Nat) /\ IsTree(k.made)
             /\ {k.feed, k.walk} \subseteq SUBSET Path /\ k.touched \subseteq Source
             /\ k.early => k.cancel /\ j \in Cancellable
             /\ k.phase = "read" /\ k.got # << >> =>
                  k.todo # {} /\ Len(k.got) < Current(k).size
  <2> DEFINE k == job[j]
  <2>1. k \in Jobs /\ Knows(j, k)
    BY DEF Shape, Typed
  <2>2. IsTree(k.made) /\ DOMAIN k.made \subseteq Path
    BY <2>1, TreeIs DEF Jobs
  <2>3. k.phase = "stage" => k.todo \subseteq Path
    BY <2>1, <2>2 DEF Knows
  <2> QED
    BY <2>1, <2>2, <2>3 DEF Jobs, Kinds, Phases, Knows
<1>2. IsTree(box.files) /\ {box.good, box.there} \subseteq BOOLEAN
  BY TreeIs DEF Shape, Typed, Boxes
<1>3. IsTree(dest) /\ IsTree(staging)
  BY TreeIs DEF Shape, Typed
<1>4. TypeOK
  BY <1>1, <1>2, <1>3 DEF Shape, Typed, TypeOK
<1> QED
  BY <1>4 DEF Shape

(***************************************************************************)
(* What is extracted, what is sealed and what is kept, while it is being   *)
(* done.  s, b, d and t are the sources, the sealed file and the folders.  *)
(***************************************************************************)

Holds(t, k, p) == p \in DOMAIN t /\ t[p] = k.made[p]

\* An entry is still to be staged, or staged, or to be moved, or in the folder.
Delivers(d, t, k) ==
  k.kind = "open" /\ k.alone =>
    \A p \in DOMAIN k.made \ Lost(k.made) :
      /\ k.phase = "stage" => p \in k.todo \/ p \in k.feed \/ Holds(t, k, p)
      /\ k.phase = "promote" => IF p \in k.walk THEN Holds(t, k, p) ELSE Holds(d, k, p)
      /\ k.phase \in {"sweep", "done"} /\ k.ok => Holds(d, k, p)

\* p holds what has been sealed: its own entry, or another by a lapse.
AsSealed(k, p, c) == \E q \in DOMAIN k.made : c = k.made[q] /\ (p = q \/ p \in Lost(k.made))

\* What is staged is as sealed; what is to be moved is, and what the folder has besides
\* what it had.
Keeps(d, t, k) ==
  k.kind = "open" /\ k.alone =>
    /\ k.phase = "stage" => \A p \in DOMAIN t : p \in DOMAIN k.made /\ t[p] = k.made[p]
    /\ k.phase = "promote" =>
         /\ k.walk \subseteq DOMAIN k.made
         /\ \A p \in k.walk : p \in DOMAIN t => AsSealed(k, p, t[p])
    /\ DOMAIN k.before \subseteq DOMAIN d
    /\ \A p \in DOMAIN d : (p \in DOMAIN k.before /\ d[p] = k.before[p]) \/ AsSealed(k, p, d[p])

\* The i-th file named has been read, as it is.
Entered(s, k, i) ==
  Name[k.args[i]] \in DOMAIN k.made /\ k.made[Name[k.args[i]]] = s[k.args[i]]

\* An entry is to be read from the last of the files that have its name.
Meant(k, e) ==
  \E i \in 1 .. Len(k.args) : IsLast(k.args, i) /\ e.from = k.args[i] /\ e.path = Name[e.from]

Due(k, i) == i \in 1 .. Len(k.args) /\ IsLast(k.args, i) /\ k.args[i] \notin k.touched

\* A file that nobody writes to has the size that was taken; what has been read
\* of it is its beginning; and it is still to be read, or has been.
Reads(s, k) ==
  /\ k.phase = "read" =>
       /\ \A e \in k.todo : Meant(k, e)
       /\ \A e \in k.todo : e.from \notin k.touched => e.size = Len(s[e.from])
       /\ k.todo # {} /\ Current(k).from \notin k.touched =>
            \A n \in 1 .. Len(k.got) : k.got[n] = s[Current(k).from][n]
       /\ \A i \in 1 .. Len(k.args) :
            Due(k, i) => (\E e \in k.todo : e.from = k.args[i]) \/ Entered(s, k, i)
  /\ k.phase = "done" /\ k.ok /\ k.kind # "open" =>
       \A i \in 1 .. Len(k.args) : Due(k, i) => Entered(s, k, i)

\* There is no sealed file yet; or all its entries will be in the new one too,
\* unchanged unless a file of that name was named.
Adds(b, k) ==
  k.alone /\ k.phase \in {"ready", "read"} =>
    /\ k.kind = "seal" => ~b.there
    /\ k.kind = "append" =>
         \A p \in DOMAIN b.files :
           /\ p \in DOMAIN k.made
           /\ (\A i \in 1 .. Len(k.args) : Name[k.args[i]] # p) => k.made[p] = b.files[p]

Agrees(s, b, d, t, k) == Delivers(d, t, k) /\ Keeps(d, t, k) /\ Reads(s, k) /\ Adds(b, k)

Sound ==
  /\ Shape
  /\ \A j \in Job : Agrees(src, box, dest, staging, job[j])
  /\ ~box.there => DOMAIN box.files = {}

\* What a job at work changes, no other one relies on.
LEMMA ToAgrees ==
  ASSUME Sound, NEW j \in Job, NEW k \in Jobs, To(j, k), src' = src,
         UNCHANGED <<box, dest, staging>> \/ Busy(j),
         Agrees(src', box', dest', staging', k)
  PROVE  (\A i \in Job : Agrees(src, box, dest, staging, job[i]))'
<1>1. job'[j] = k /\ \A i \in Job \ {j} : job'[i] = job[i]
  BY ToIs DEF Sound, Shape
<1> SUFFICES ASSUME NEW i \in Job PROVE Agrees(src', box', dest', staging', job'[i])
  OBVIOUS
<1>2. CASE i = j
  BY <1>1, <1>2
<1>3. CASE i # j /\ UNCHANGED <<box, dest, staging>>
  BY <1>1, <1>3 DEF Sound
<1>4. CASE i # j /\ Busy(j)
  <2>1. job'[i] = job[i] /\ Reads(src', job[i])
    BY <1>1, <1>4 DEF Sound, Agrees
  <2>2. job[i].kind = "open" => job[i].phase # "idle"
    BY DEF Sound, Shape, Knows
  <2>3. ~(job[i].alone /\ job[i].phase # "idle")
    BY <1>4 DEF Sound, Shape, Solo
  <2> QED
    BY <2>1, <2>2, <2>3 DEF Agrees, Delivers, Keeps, Adds
<1> QED
  BY <1>2, <1>3, <1>4

LEMMA FailAgrees ==
  ASSUME Sound, NEW j \in Job, Busy(j), Fails(j)
  PROVE  (\A i \in Job : Agrees(src, box, dest, staging, job[i]))'
<1> DEFINE n == Failed(job[j])
<1>1. /\ n \in Jobs /\ n.ok = FALSE /\ n.phase \in {"sweep", "done"} /\ n.kind = job[j].kind
      /\ n.alone = job[j].alone /\ n.before = job[j].before /\ n.made = job[j].made
  <2>1. job[j] \in Jobs
    BY DEF Sound, Shape, Typed
  <2> QED
    BY <2>1 DEF Jobs, Phases, Failed
<1>2. To(j, n) /\ UNCHANGED <<src, box, dest, staging>>
  BY DEF Fails
<1> HIDE DEF n
<1>3. Keeps(dest', staging', n)
  <2>1. Keeps(dest, staging, job[j])
    BY DEF Sound, Agrees
  <2> QED
    BY <1>1, <1>2, <2>1 DEF Keeps, AsSealed
<1>4. Agrees(src', box', dest', staging', n)
  BY <1>1, <1>3 DEF Agrees, Delivers, Reads, Adds
<1> QED
  BY <1>1, <1>2, <1>4, ToAgrees

LEMMA StartAgrees ==
  ASSUME Sound, NEW j \in Job, Start(j)
  PROVE  (\A i \in Job : Agrees(src, box, dest, staging, job[i]))'
<1>1. job[j].phase = "idle" /\ UNCHANGED <<src, box, dest, staging>>
  BY DEF Start
<1>2. PICK k \in Jobs : /\ job' = Started(j, k)
                        /\ k.kind = "seal" => ~box.there
                        /\ k.kind = "append" => k.made = box.files
  BY StartIs DEF Sound
<1> SUFFICES ASSUME NEW i \in Job PROVE Agrees(src', box', dest', staging', job'[i])
  OBVIOUS
<1>3. CASE i = j
  <2> DEFINE alone == \A l \in Job \ {j} : ~Busy(l)
             n == job'[j]
  <2>1. n = [k EXCEPT !.phase = "ready", !.alone = alone,
                      !.before = IF k.kind = "open" THEN dest ELSE Empty]
    BY <1>1, <1>2, StartedIs, Zenon DEF Sound
  <2> HIDE DEF alone
  <2>2. /\ n.phase = "ready" /\ n.kind = k.kind /\ n.made = k.made
        /\ k.kind = "open" => n.before = dest
    BY <2>1 DEF Jobs
  <2>3. k.kind = "append" => n.made = box'.files
    BY <1>1, <1>2, <2>2
  <2> HIDE DEF n
  <2>4. Keeps(dest', staging', n)
    BY <1>1, <2>2 DEF Keeps
  <2> QED
    BY <1>1, <1>2, <1>3, <2>2, <2>3, <2>4 DEF Agrees, Delivers, Reads, Adds, n
<1>4. CASE i # j
  <2> DEFINE q == job[i]
             n == job'[i]
  <2>1. n = [q EXCEPT !.alone = q.alone /\ q.phase = "idle"] /\ q \in Jobs
    BY <1>1, <1>2, <1>4, StartedIs DEF Sound, Shape, Typed
  <2>2. /\ n.kind = q.kind /\ n.phase = q.phase /\ n.args = q.args /\ n.todo = q.todo
        /\ n.got = q.got /\ n.made = q.made /\ n.ok = q.ok /\ n.touched = q.touched
        /\ n.feed = q.feed /\ n.walk = q.walk /\ n.before = q.before
        /\ (n.alone <=> q.alone /\ q.phase = "idle")
    BY <2>1 DEF Jobs
  <2>3. Agrees(src, box, dest, staging, q) /\ (q.kind = "open" => q.phase # "idle")
    BY DEF Sound, Shape, Knows
  <2>4. Delivers(dest, staging, n) /\ Keeps(dest, staging, n) /\ Adds(box, n)
    BY <2>2, <2>3 DEF Delivers, Keeps, Adds
  <2>5. Reads(src, n)
    <3>1. Current(n) = Current(q) /\ \A e : Meant(n, e) <=> Meant(q, e)
      BY <2>2 DEF Current, Meant
    <3>2. \A l : (Due(n, l) <=> Due(q, l)) /\ (Entered(src, n, l) <=> Entered(src, q, l))
      BY <2>2 DEF Due, Entered
    <3> QED
      BY <2>2, <2>3, <3>1, <3>2 DEF Agrees, Reads
  <2> QED
    BY <1>1, <2>4, <2>5 DEF Agrees
<1> QED
  BY <1>3, <1>4

LEMMA CollectAgrees ==
  ASSUME Sound, NEW j \in Job, Collect(j)
  PROVE  (\A i \in Job : Agrees(src, box, dest, staging, job[i]))'
<1> DEFINE q == job[j]
           k == [q EXCEPT !.phase = "read", !.todo = Collected(q.args)]
<1>1. /\ q \in Jobs /\ Knows(j, q) /\ Busy(j) /\ Agrees(src, box, dest, staging, q)
      /\ q.phase = "ready" /\ q.kind \in {"seal", "append"}
  BY DEF Sound, Shape, Typed, Collect, Busy
<1>2. CASE Cancelled(j)
  BY <1>1, <1>2, FailAgrees DEF Collect
<1>3. CASE ~Cancelled(j)
  <2>1. To(j, k) /\ UNCHANGED <<src, box, dest, staging>>
    BY <1>3 DEF Collect
  <2>2. q.args \in Seq(Source) /\ Collected(q.args) \subseteq Entry
    BY <1>1, CollectedIs DEF Sound, Shape, Jobs
  <2>3. /\ k \in Jobs /\ k.phase = "read" /\ k.kind = q.kind /\ k.alone = q.alone
        /\ k.got = << >> /\ k.todo = Collected(q.args) /\ k.args = q.args
        /\ k.touched = q.touched /\ k.made = q.made
    BY <1>1, <2>2 DEF Jobs, Phases, Knows
  <2> HIDE DEF k
  <2>4. ASSUME NEW e \in k.todo
        PROVE  Meant(k, e) /\ e.size = Len(src[e.from])
    <3>1. PICK i \in 1 .. Len(q.args) :
            /\ IsLast(q.args, i)
            /\ e = [path |-> Name[q.args[i]], from |-> q.args[i], size |-> Len(src[q.args[i]])]
      BY <2>3 DEF Collected
    <3> QED
      BY <2>3, <3>1 DEF Meant
  <2>5. ASSUME NEW i \in 1 .. Len(k.args), Due(k, i)
        PROVE  \E e \in k.todo : e.from = k.args[i]
    <3> DEFINE e == [path |-> Name[q.args[i]], from |-> q.args[i],
                     size |-> Len(src[q.args[i]])]
    <3>1. e \in Collected(q.args)
      BY <2>3, <2>5 DEF Collected, Due
    <3> QED
      BY <2>3, <3>1
  <2>6. \A n \in 1 .. Len(k.got) : FALSE
    BY <2>3
  <2>7. Reads(src, k)
    BY <2>3, <2>4, <2>5, <2>6 DEF Reads
  <2>8. Delivers(dest, staging, k) /\ Keeps(dest, staging, k) /\ Adds(box, k)
    BY <1>1, <2>3 DEF Agrees, Delivers, Keeps, Adds
  <2>9. Agrees(src', box', dest', staging', k)
    BY <2>1, <2>7, <2>8 DEF Agrees
  <2> QED
    BY <1>1, <2>1, <2>3, <2>9, ToAgrees
<1> QED
  BY <1>2, <1>3

\* Two files of one name are not both the last one.
LEMMA LastIsOne ==
  ASSUME NEW args \in Seq(Source), NEW i \in 1 .. Len(args), NEW l \in 1 .. Len(args),
         IsLast(args, i), IsLast(args, l), Name[args[i]] = Name[args[l]]
  PROVE  i = l
<1>1. Len(args) \in Nat
  OBVIOUS
<1>2. ~(i < l)
  BY <1>1 DEF IsLast
<1>3. ~(l < i)
  BY <1>1 DEF IsLast
<1> QED
  BY <1>1, <1>2, <1>3

LEMMA ReadBlockAgrees ==
  ASSUME Sound, NEW j \in Job, ReadBlock(j)
  PROVE  (\A i \in Job : Agrees(src, box, dest, staging, job[i]))'
<1> DEFINE k == job[j]
           e == Current(k)
<1>1. /\ k \in Jobs /\ Knows(j, k) /\ Busy(j) /\ Agrees(src, box, dest, staging, k)
      /\ k.phase = "read" /\ k.todo # {}
  BY DEF Sound, Shape, Typed, ReadBlock, Busy
<1>2. k.todo \subseteq Entry /\ k.kind # "open" /\ Typed
  BY <1>1 DEF Knows, Sound, Shape
<1>3. CASE Cancelled(j) \/ Missing(k)
  <2>1. Fails(j)
    BY <1>3 DEF ReadBlock
  <2> QED
    BY <1>1, <2>1, FailAgrees
<1>4. CASE ~(Cancelled(j) \/ Missing(k))
  <2> DEFINE n == Read(k)
             got == Got(k)
  <2>1. To(j, n) /\ UNCHANGED <<src, box, dest, staging>>
    BY <1>4 DEF ReadBlock
  <2>2. e \in k.todo /\ e.from \in Source /\ e.path \in Path /\ e.size \in Nat
    BY <1>1, <1>2, CurrentIs DEF Entry
  <2>3. src[e.from] \in Seq(Nat) /\ k.got \in Seq(Nat)
    BY <1>1, <1>2, <2>2, ContentIs DEF Typed, Jobs
  <2>4. Len(k.got) \in Nat /\ Len(src[e.from]) \in Nat
    BY <2>3
  <2>5. /\ n \in Jobs
        /\ n.kind = k.kind /\ n.phase = k.phase /\ n.args = k.args /\ n.alone = k.alone
        /\ n.touched = k.touched /\ n.ok = k.ok
        /\ Len(got) < e.size =>
             n.todo = k.todo /\ n.made = k.made /\ n.got = got
        /\ ~(Len(got) < e.size) =>
             /\ n.todo = k.todo \ {e} /\ n.got = << >>
             /\ n.made = Put(k.made, e.path, got)
    BY <1>1, <1>2, <1>4, ReadIs
  <2>6. /\ got \in Seq(Nat)
        /\ Len(k.got) < e.size =>
              /\ Len(got) = Len(k.got) + 1 /\ Len(got) <= Len(src[e.from])
              /\ \A m \in 1 .. Len(k.got) : got[m] = k.got[m]
              /\ got[Len(k.got) + 1] = src[e.from][Len(k.got) + 1]
        /\ ~(Len(k.got) < e.size) => got = k.got
    BY <1>1, <1>2, <1>4, GotIs
  <2>7. k.got # << >> => Len(k.got) < e.size
    BY <1>1 DEF Knows
  <2> HIDE DEF n, got
  <2>18. ~(Len(got) < e.size) =>
           /\ e.path \in DOMAIN n.made /\ n.made[e.path] = got
           /\ \A p \in DOMAIN k.made : p # e.path => p \in DOMAIN n.made /\ n.made[p] = k.made[p]
    <3> SUFFICES ASSUME ~(Len(got) < e.size)
                 PROVE  /\ e.path \in DOMAIN n.made /\ n.made[e.path] = got
                        /\ \A p \in DOMAIN k.made :
                             p # e.path => p \in DOMAIN n.made /\ n.made[p] = k.made[p]
      OBVIOUS
    <3> DEFINE made == k.made
               p == e.path
               put == Put(made, p, got)
    <3>1. n.made = put /\ made \in Trees /\ p \in Path
      BY <1>1, <2>2, <2>5 DEF Jobs
    <3> HIDE DEF made, p
    <3>2. /\ DOMAIN put = DOMAIN made \cup {p} /\ put[p] = got
          /\ \A q \in DOMAIN made : q # p => put[q] = made[q]
      BY <2>6, <3>1, PutIs
    <3> HIDE DEF put
    <3> QED
      BY <3>1, <3>2 DEF made, p
  <2>8. e.from \notin k.touched =>
          /\ e.size = Len(src[e.from])
          /\ \A m \in 1 .. Len(got) : got[m] = src[e.from][m]
          /\ ~(Len(got) < e.size) => Len(got) = Len(src[e.from])
    <3> SUFFICES ASSUME e.from \notin k.touched
                 PROVE  /\ e.size = Len(src[e.from])
                        /\ \A m \in 1 .. Len(got) : got[m] = src[e.from][m]
                        /\ ~(Len(got) < e.size) => Len(got) = Len(src[e.from])
      OBVIOUS
    <3>1. e.size = Len(src[e.from]) /\ \A m \in 1 .. Len(k.got) : k.got[m] = src[e.from][m]
      BY <1>1, <2>2 DEF Agrees, Reads
    <3> HIDE DEF e
    <3>2. CASE Len(k.got) < e.size
      <4>1. \A m \in 1 .. Len(got) : m \in 1 .. Len(k.got) \/ m = Len(k.got) + 1
        BY <2>4, <2>6, <3>2
      <4>2. \A m \in 1 .. Len(got) : got[m] = src[e.from][m]
        BY <2>6, <3>1, <3>2, <4>1
      <4>3. Len(got) = Len(k.got) + 1 /\ Len(got) <= Len(src[e.from])
        BY <2>6, <3>2
      <4> QED
        BY <2>4, <3>1, <4>2, <4>3
    <3>3. CASE ~(Len(k.got) < e.size)
      <4>1. got = << >> /\ k.got = << >>
        BY <2>6, <2>7, <3>3
      <4>2. e.size = 0
        BY <2>2, <2>4, <3>3, <4>1
      <4> QED
        BY <3>1, <4>1, <4>2
    <3> QED
      BY <3>2, <3>3
  <2> HIDE DEF e
  <2>9. ASSUME NEW i \in 1 .. Len(k.args), Due(k, i)
        PROVE  (\E f \in n.todo : f.from = k.args[i]) \/ Entered(src, n, i)
    <3>1. (\E f \in k.todo : f.from = k.args[i]) \/ Entered(src, k, i)
      BY <1>1, <2>9 DEF Agrees, Reads
    <3>2. CASE Len(got) < e.size
      BY <2>5, <3>1, <3>2 DEF Entered
    <3>3. CASE ~(Len(got) < e.size) /\ e.path = Name[k.args[i]]
      <4>1. PICK l \in 1 .. Len(k.args) :
              IsLast(k.args, l) /\ e.from = k.args[l] /\ e.path = Name[e.from]
        BY <1>1, <2>2 DEF Agrees, Reads, Meant
      <4>2. l = i
        BY <1>1, <2>9, <3>3, <4>1, LastIsOne DEF Due, Jobs
      <4>3. e.from = k.args[i] /\ e.from \notin k.touched
        BY <2>9, <4>1, <4>2 DEF Due
      <4>4. Len(got) = Len(src[e.from])
        BY <2>8, <3>3, <4>3
      <4>5. got = src[e.from]
        <5> DEFINE c == src[e.from]
        <5>1. \A m \in 1 .. Len(got) : got[m] = c[m]
          BY <2>8, <4>3
        <5>2. c \in Seq(Nat) /\ Len(got) = Len(c)
          BY <2>3, <4>4
        <5> HIDE DEF c
        <5>3. got = c
          BY <2>6, <5>1, <5>2, SeqEqual
        <5> QED
          BY <5>3 DEF c
      <4>6. e.path \in DOMAIN n.made /\ n.made[e.path] = got
        BY <2>18, <3>3
      <4> QED
        BY <2>5, <3>3, <4>3, <4>5, <4>6 DEF Entered
    <3>4. CASE ~(Len(got) < e.size) /\ e.path # Name[k.args[i]]
      <4>1. CASE \E f \in k.todo : f.from = k.args[i]
        <5>1. PICK f \in k.todo : f.from = k.args[i]
          BY <4>1
        <5>2. f.path = Name[k.args[i]]
          BY <1>1, <5>1 DEF Agrees, Reads, Meant
        <5> QED
          BY <2>5, <3>4, <5>1, <5>2
      <4>2. CASE Entered(src, k, i)
        <5> DEFINE p == Name[k.args[i]]
        <5>1. p \in DOMAIN k.made /\ k.made[p] = src[k.args[i]]
          BY <4>2 DEF Entered
        <5>2. p \in DOMAIN n.made /\ n.made[p] = k.made[p]
          BY <2>18, <3>4, <5>1
        <5> QED
          BY <2>5, <5>1, <5>2 DEF Entered
      <4> QED
        BY <3>1, <4>1, <4>2
    <3> QED
      BY <3>2, <3>3, <3>4
  <2>10. n.todo \subseteq k.todo
    BY <2>5
  <2>11. \A f \in n.todo : Meant(n, f) /\ (f.from \notin n.touched => f.size = Len(src[f.from]))
    BY <1>1, <2>5, <2>10 DEF Agrees, Reads, Meant
  <2>12. n.todo # {} /\ Current(n).from \notin n.touched =>
           \A m \in 1 .. Len(n.got) : n.got[m] = src[Current(n).from][m]
    <3>1. CASE Len(got) < e.size
      <4>1. Current(n) = e
        BY <2>5, <3>1 DEF Current, e
      <4> QED
        BY <2>5, <2>8, <3>1, <4>1
    <3>2. CASE ~(Len(got) < e.size)
      BY <2>5, <3>2
    <3> QED
      BY <3>1, <3>2
  <2>13. Reads(src, n)
    <3>1. \A i \in 1 .. Len(n.args) : Due(n, i) =>
            (\E f \in n.todo : f.from = n.args[i]) \/ Entered(src, n, i)
      BY <2>5, <2>9 DEF Due
    <3> QED
      BY <1>1, <2>5, <2>11, <2>12, <3>1 DEF Reads
  <2>14. Delivers(dest, staging, n) /\ Keeps(dest, staging, n)
    BY <1>2, <2>5 DEF Delivers, Keeps
  <2>15. Adds(box, n)
    <3>1. ASSUME NEW p \in DOMAIN k.made
          PROVE  /\ p \in DOMAIN n.made
                 /\ (\A i \in 1 .. Len(k.args) : Name[k.args[i]] # p) => n.made[p] = k.made[p]
      <4>1. CASE Len(got) < e.size
        BY <2>5, <3>1, <4>1
      <4>2. CASE ~(Len(got) < e.size)
        <5>1. Meant(k, e)
          BY <1>1, <2>2 DEF Agrees, Reads
        <5>2. (\A i \in 1 .. Len(k.args) : Name[k.args[i]] # p) => p # e.path
          BY <5>1 DEF Meant
        <5> QED
          BY <2>18, <3>1, <4>2, <5>2
      <4> QED
        BY <4>1, <4>2
    <3> QED
      BY <1>1, <2>5, <3>1 DEF Agrees, Adds
  <2>16. Agrees(src', box', dest', staging', n)
    BY <2>1, <2>13, <2>14, <2>15 DEF Agrees
  <2> QED
    BY <1>1, <2>1, <2>5, <2>16, ToAgrees
<1> QED
  BY <1>3, <1>4

LEMMA WriteBoxAgrees ==
  ASSUME Sound, NEW j \in Job, WriteBox(j)
  PROVE  (\A i \in Job : Agrees(src, box, dest, staging, job[i]))'
<1> DEFINE k == job[j]
           n == Finished(k)
<1>1. /\ k \in Jobs /\ Knows(j, k) /\ Busy(j) /\ Agrees(src, box, dest, staging, k)
      /\ k.phase = "read" /\ k.todo = {} /\ k.kind # "open"
  BY DEF Sound, Shape, Typed, WriteBox, Busy, Knows
<1>2. CASE Cancelled(j)
  BY <1>1, <1>2, FailAgrees DEF WriteBox
<1>3. CASE ~Cancelled(j)
  <2>1. To(j, n) /\ UNCHANGED <<src, dest, staging>>
    BY <1>3 DEF WriteBox
  <2>2. /\ n \in Jobs /\ n.phase = "done" /\ n.kind = k.kind /\ n.args = k.args
        /\ n.made = k.made /\ n.touched = k.touched
    BY <1>1 DEF Finished, Jobs, Phases
  <2> HIDE DEF n
  <2>3. \A i \in 1 .. Len(k.args) : Due(k, i) => Entered(src, k, i)
    BY <1>1 DEF Agrees, Reads
  <2>4. Reads(src, n)
    BY <2>2, <2>3 DEF Reads, Due, Entered
  <2>5. Agrees(src', box', dest', staging', n)
    BY <1>1, <2>1, <2>2, <2>4 DEF Agrees, Delivers, Keeps, Adds
  <2> QED
    BY <1>1, <2>1, <2>2, <2>5, ToAgrees
<1> QED
  BY <1>2, <1>3

LEMMA PrepareAgrees ==
  ASSUME Sound, NEW j \in Job, Prepare(j)
  PROVE  (\A i \in Job : Agrees(src, box, dest, staging, job[i]))'
<1> DEFINE k == job[j]
           m == [k EXCEPT !.phase = "stage", !.todo = DOMAIN k.made,
                          !.feed = {}, !.over = FALSE]
           n == IF k.good THEN m ELSE [k EXCEPT !.phase = "sweep"]
<1>1. /\ k \in Jobs /\ Knows(j, k) /\ Busy(j) /\ k.phase = "ready" /\ k.kind = "open"
      /\ Keeps(dest, staging, k)
  BY DEF Sound, Shape, Typed, Prepare, Busy, Agrees
<1>2. To(j, n) /\ staging' = Empty /\ UNCHANGED <<src, box, dest>>
  BY DEF Prepare
<1>3. DOMAIN k.made \subseteq Path
  BY <1>1, TreeIs DEF Jobs
<1>4. /\ n \in Jobs /\ n.kind = k.kind /\ n.alone = k.alone /\ n.made = k.made
      /\ n.before = k.before
      /\ \/ n.phase = "sweep" /\ n.ok = FALSE
         \/ n.phase = "stage" /\ n.todo = DOMAIN n.made
  <2>1. CASE ~k.good
    <3>1. n = [k EXCEPT !.phase = "sweep"]
      BY <2>1
    <3> QED
      BY <1>1, <3>1 DEF Jobs, Phases, Knows
  <2>2. CASE k.good
    <3>1. n = m
      BY <2>2
    <3> QED
      BY <1>1, <1>3, <3>1 DEF Jobs, Phases
  <2> QED
    BY <2>1, <2>2
<1> HIDE DEF n
<1>5. Keeps(dest', staging', n)
  BY <1>1, <1>2, <1>4, EmptyIs DEF Keeps, AsSealed
<1>6. Agrees(src', box', dest', staging', n)
  BY <1>4, <1>5 DEF Agrees, Delivers, Reads, Adds
<1> QED
  BY <1>1, <1>2, <1>4, <1>6, ToAgrees

LEMMA NextChunkAgrees ==
  ASSUME Sound, NEW j \in Job, NextChunk(j)
  PROVE  (\A i \in Job : Agrees(src, box, dest, staging, job[i]))'
<1> DEFINE k == job[j]
<1>1. /\ k \in Jobs /\ Knows(j, k) /\ Busy(j) /\ Agrees(src, box, dest, staging, k)
      /\ k.phase = "stage" /\ k.feed = {}
  BY DEF Sound, Shape, Typed, NextChunk, Busy
<1>2. CASE Cancelled(j)
  BY <1>1, <1>2, FailAgrees DEF NextChunk
<1>3. CASE ~Cancelled(j)
  <2>1. PICK n \in 0 .. Len(Order), over \in BOOLEAN :
               To(j, [k EXCEPT !.feed = First(k.todo, n), !.todo = k.todo \ First(k.todo, n),
                               !.over = over])
    BY <1>3 DEF NextChunk
  <2> DEFINE P == First(k.todo, n)
             m == [k EXCEPT !.feed = P, !.todo = k.todo \ P, !.over = over]
  <2>2. To(j, m) /\ UNCHANGED <<src, box, dest, staging>>
    BY <1>3, <2>1 DEF NextChunk
  <2>3. P \subseteq k.todo /\ k.todo \subseteq DOMAIN k.made /\ DOMAIN k.made \subseteq Path
    BY <1>1, FirstIs, TreeIs DEF Knows, Jobs
  <2> HIDE DEF P
  <2>4. /\ m \in Jobs /\ m.phase = "stage" /\ m.kind = k.kind /\ m.alone = k.alone
        /\ m.feed = P /\ m.todo = k.todo \ P /\ m.made = k.made /\ m.before = k.before
    BY <1>1, <2>3 DEF Jobs
  <2> HIDE DEF m
  <2>5. Delivers(dest, staging, m)
    BY <1>1, <2>4 DEF Agrees, Delivers, Holds
  <2>6. Keeps(dest, staging, m)
    BY <1>1, <2>4 DEF Agrees, Keeps, AsSealed
  <2>7. Agrees(src', box', dest', staging', m)
    BY <2>2, <2>4, <2>5, <2>6 DEF Agrees, Reads, Adds
  <2> QED
    BY <1>1, <2>2, <2>4, <2>7, ToAgrees
<1> QED
  BY <1>2, <1>3

\* What is staged later is no draft of what has been staged, nor does it lie there.
LEMMA StageAgrees ==
  ASSUME Sound, NEW j \in Job, Stage(j)
  PROVE  (\A i \in Job : Agrees(src, box, dest, staging, job[i]))'
<1> DEFINE k == job[j]
           p == Earliest(k.feed)
           n == Stepped(k, p)
<1>1. /\ k \in Jobs /\ Knows(j, k) /\ Busy(j) /\ Agrees(src, box, dest, staging, k)
      /\ k.phase = "stage" /\ k.feed # {} /\ k.feed \subseteq DOMAIN k.made
  BY DEF Sound, Shape, Typed, Stage, Busy, Knows
<1>2. CASE Clash(staging, p)
  <2>1. Fails(j)
    BY <1>2 DEF Stage
  <2> QED
    BY <1>1, <2>1, FailAgrees
<1>3. CASE ~Clash(staging, p)
  <2>1. staging' = Staged(staging, k, p) /\ To(j, n) /\ UNCHANGED <<src, box, dest>>
    BY <1>3 DEF Stage, Staged, Stepped
  <2>2. p \in k.feed
    <3>1. DOMAIN k.made \subseteq Path
      BY <1>1, TreeIs DEF Jobs
    <3> QED
      BY <1>1, <3>1, EarliestIs
  <2> HIDE DEF p
  <2>3. /\ n \in Jobs /\ n.phase = "stage" /\ n.kind = k.kind /\ n.alone = k.alone
        /\ n.todo = k.todo /\ n.feed = k.feed \ {p} /\ n.made = k.made /\ n.before = k.before
    BY <1>1 DEF Jobs, Stepped
  <2> HIDE DEF n
  <2>4. /\ DOMAIN staging' = {d \in DOMAIN staging : <<d, p>> \notin Draft} \cup {p}
        /\ staging'[p] = k.made[p]
        /\ \A d \in DOMAIN staging :
             d # p /\ <<d, p>> \notin Draft => staging'[d] = staging[d]
    <3> DEFINE st == Staged(staging, k, p)
    <3>1. staging \in Trees /\ k \in Jobs /\ p \in DOMAIN k.made
      BY <1>1, <2>2 DEF Sound, Shape, Typed
    <3> HIDE DEF k
    <3>2. /\ DOMAIN st = {d \in DOMAIN staging : <<d, p>> \notin Draft} \cup {p}
          /\ st[p] = k.made[p]
          /\ \A d \in DOMAIN staging : d # p /\ <<d, p>> \notin Draft => st[d] = staging[d]
      BY <3>1, StagedIs
    <3>3. staging' = st
      BY <2>1
    <3> HIDE DEF st
    <3> QED
      BY <3>2, <3>3
  <2>5. Delivers(dest', staging', n)
    <3> SUFFICES ASSUME k.kind = "open", k.alone, NEW q \in DOMAIN k.made \ Lost(k.made)
                 PROVE  q \in k.todo \/ q \in k.feed \ {p} \/ Holds(staging', k, q)
      BY <2>3 DEF Delivers, Holds, Lost
    <3>1. q \in k.todo \/ q \in k.feed \/ Holds(staging, k, q)
      BY <1>1 DEF Agrees, Delivers
    <3>2. CASE q = p
      BY <2>4, <3>2 DEF Holds
    <3>3. CASE q # p
      <4>1. <<q, p>> \notin Draft
        BY <1>1, <2>2, <3>3 DEF Lost
      <4> QED
        BY <2>4, <3>1, <3>3, <4>1 DEF Holds
    <3> QED
      BY <3>2, <3>3
  <2>6. Keeps(dest', staging', n)
    <3>1. Keeps(dest, staging, k)
      BY <1>1 DEF Agrees
    <3>2. Lost(n.made) = Lost(k.made) /\ DOMAIN n.made = DOMAIN k.made
      BY <2>3
    <3>3. ASSUME k.kind = "open", k.alone, NEW q \in DOMAIN staging'
          PROVE  q \in DOMAIN k.made /\ staging'[q] = k.made[q]
      BY <1>1, <2>2, <2>4, <3>1, <3>3 DEF Keeps
    <3> QED
      BY <2>1, <2>3, <3>1, <3>2, <3>3 DEF Keeps, AsSealed
  <2>7. Agrees(src', box', dest', staging', n)
    BY <2>3, <2>5, <2>6 DEF Agrees, Reads, Adds
  <2> QED
    BY <1>1, <2>1, <2>3, <2>7, ToAgrees
<1> QED
  BY <1>2, <1>3

LEMMA VerifyAgrees ==
  ASSUME Sound, NEW j \in Job, Verify(j)
  PROVE  (\A i \in Job : Agrees(src, box, dest, staging, job[i]))'
<1> DEFINE k == job[j]
           n == [k EXCEPT !.phase = "promote", !.walk = DOMAIN staging]
<1>1. /\ k \in Jobs /\ Busy(j) /\ Agrees(src, box, dest, staging, k)
      /\ k.phase = "stage" /\ k.todo = {} /\ k.feed = {}
  BY DEF Sound, Shape, Typed, Verify, Busy, Knows
<1>2. To(j, n) /\ UNCHANGED <<src, box, dest, staging>>
  BY DEF Verify
<1>3. DOMAIN staging \subseteq Path
  BY TreeIs DEF Sound, Shape, Typed
<1>4. /\ n \in Jobs /\ n.phase = "promote" /\ n.kind = k.kind /\ n.alone = k.alone
      /\ n.made = k.made /\ n.walk = DOMAIN staging /\ n.before = k.before
  BY <1>1, <1>3 DEF Jobs, Phases
<1> HIDE DEF n
<1>5. Delivers(dest, staging, n)
  <2> SUFFICES ASSUME k.kind = "open", k.alone, NEW q \in DOMAIN k.made \ Lost(k.made)
               PROVE  q \in DOMAIN staging /\ staging[q] = k.made[q]
    BY <1>4 DEF Delivers, Holds, Lost
  <2> QED
    BY <1>1 DEF Agrees, Delivers, Holds
<1>6. Keeps(dest, staging, n)
  BY <1>1, <1>4 DEF Agrees, Keeps, AsSealed
<1>7. Agrees(src', box', dest', staging', n)
  BY <1>2, <1>4, <1>5, <1>6 DEF Agrees, Reads, Adds
<1> QED
  BY <1>1, <1>2, <1>4, <1>7, ToAgrees

\* A file that is moved away from its place, and over no other that is to be delivered.
LEMMA PromotingAgrees ==
  ASSUME Sound, NEW j \in Job, job[j].phase = "promote", NEW p \in job[j].walk,
         To(j, [job[j] EXCEPT !.walk = job[j].walk \ {p}]), UNCHANGED <<src, box>>,
         dest' \in Trees, staging' \in Trees, DOMAIN dest \subseteq DOMAIN dest',
         \A q \in DOMAIN dest' : (q \in DOMAIN dest /\ dest'[q] = dest[q])
                                    \/ (q = p /\ p \in DOMAIN staging /\ dest'[q] = staging[p]),
         \A q \in DOMAIN staging' :
              (q \in DOMAIN staging /\ staging'[q] = staging[q])
           \/ (<<p, q>> \in Hidden /\ p \in DOMAIN staging /\ staging'[q] = staging[p]),
         \A q \in DOMAIN staging : q # p => q \in DOMAIN staging',
         p \in DOMAIN job[j].made \ Lost(job[j].made) =>
           p \in DOMAIN dest' /\ dest'[p] = staging[p]
  PROVE  (\A i \in Job : Agrees(src, box, dest, staging, job[i]))'
<1> DEFINE k == job[j]
           n == [k EXCEPT !.walk = k.walk \ {p}]
<1>1. k \in Jobs /\ Busy(j) /\ Agrees(src, box, dest, staging, k)
  BY DEF Sound, Shape, Typed, Busy
<1>2. To(j, n)
  OBVIOUS
<1>3. /\ n \in Jobs /\ n.phase = "promote" /\ n.kind = k.kind /\ n.alone = k.alone
      /\ n.made = k.made /\ n.walk = k.walk \ {p} /\ n.before = k.before
  BY <1>1 DEF Jobs
<1> HIDE DEF n
<1>4. ASSUME k.kind = "open", k.alone
      PROVE  /\ k.walk \subseteq DOMAIN k.made
             /\ \A q \in k.walk : q \in DOMAIN staging => AsSealed(k, q, staging[q])
             /\ \A q \in DOMAIN dest :
                  (q \in DOMAIN k.before /\ dest[q] = k.before[q]) \/ AsSealed(k, q, dest[q])
             /\ DOMAIN k.before \subseteq DOMAIN dest
  BY <1>1, <1>4 DEF Agrees, Keeps
<1>5. \A q \in DOMAIN k.made : <<p, q>> \in Hidden /\ p \in DOMAIN k.made => q \in Lost(k.made)
  BY DEF Lost
<1>6. Delivers(dest', staging', n)
  <2> SUFFICES ASSUME k.kind = "open", k.alone, NEW q \in DOMAIN k.made \ Lost(k.made)
               PROVE  IF q \in k.walk \ {p} THEN Holds(staging', k, q)
                                            ELSE Holds(dest', k, q)
    BY <1>3 DEF Delivers, Holds, Lost
  <2>1. IF q \in k.walk THEN Holds(staging, k, q) ELSE Holds(dest, k, q)
    BY <1>1 DEF Agrees, Delivers
  <2>2. CASE q = p
    BY <2>1, <2>2 DEF Holds
  <2>3. CASE q # p /\ q \in k.walk
    <3>1. <<p, q>> \notin Hidden
      BY <1>4, <1>5
    <3> QED
      BY <2>1, <2>3, <3>1 DEF Holds
  <2>4. CASE q # p /\ q \notin k.walk
    BY <2>1, <2>4 DEF Holds
  <2> QED
    BY <2>2, <2>3, <2>4
<1>7. Keeps(dest', staging', n)
  <2> SUFFICES ASSUME k.kind = "open", k.alone
               PROVE  /\ k.walk \ {p} \subseteq DOMAIN k.made
                      /\ \A q \in k.walk \ {p} :
                           q \in DOMAIN staging' => AsSealed(k, q, staging'[q])
                      /\ DOMAIN k.before \subseteq DOMAIN dest'
                      /\ \A q \in DOMAIN dest' : \/ q \in DOMAIN k.before /\ dest'[q] = k.before[q]
                                                 \/ AsSealed(k, q, dest'[q])
    BY <1>3 DEF Keeps, AsSealed
  <2>1. ASSUME NEW q \in k.walk \ {p}, q \in DOMAIN staging'
        PROVE  AsSealed(k, q, staging'[q])
    <3>1. CASE q \in DOMAIN staging /\ staging'[q] = staging[q]
      BY <1>4, <3>1
    <3>2. CASE <<p, q>> \in Hidden /\ p \in DOMAIN staging /\ staging'[q] = staging[p]
      <4>1. q \in Lost(k.made)
        BY <1>4, <1>5, <3>2
      <4> QED
        BY <1>4, <3>2, <4>1 DEF AsSealed
    <3> QED
      BY <2>1, <3>1, <3>2
  <2>2. ASSUME NEW q \in DOMAIN dest'
        PROVE  (q \in DOMAIN k.before /\ dest'[q] = k.before[q]) \/ AsSealed(k, q, dest'[q])
    <3>1. CASE q \in DOMAIN dest /\ dest'[q] = dest[q]
      BY <1>4, <3>1
    <3>2. CASE q = p /\ p \in DOMAIN staging /\ dest'[q] = staging[p]
      BY <1>4, <3>2
    <3> QED
      BY <2>2, <3>1, <3>2
  <2> QED
    BY <1>4, <2>1, <2>2
<1>8. Agrees(src', box', dest', staging', n)
  BY <1>3, <1>6, <1>7 DEF Agrees, Reads, Adds
<1> QED
  BY <1>1, <1>2, <1>3, <1>8, ToAgrees

LEMMA PromoteAgrees ==
  ASSUME Sound, NEW j \in Job, Promote(j)
  PROVE  (\A i \in Job : Agrees(src, box, dest, staging, job[i]))'
<1> DEFINE k == job[j]
<1>1. k \in Jobs /\ Busy(j) /\ k.phase = "promote" /\ dest \in Trees /\ staging \in Trees
  BY DEF Sound, Shape, Typed, Promote, Busy
<1>2. PICK p \in k.walk :
        IF p \notin DOMAIN staging \/ Clash(dest, p) THEN Fails(j)
        ELSE /\ dest' = Put(dest, p, staging[p]) /\ staging' = Without(staging, {p})
             /\ To(j, [k EXCEPT !.walk = k.walk \ {p}])
             /\ UNCHANGED <<src, box>>
  BY DEF Promote
<1>3. CASE p \notin DOMAIN staging \/ Clash(dest, p)
  BY <1>1, <1>2, <1>3, FailAgrees
<1>4. CASE ~(p \notin DOMAIN staging \/ Clash(dest, p))
  <2>1. staging[p] \in Seq(Nat) /\ p \in Path
    BY <1>1, <1>4, TreeIs
  <2>2. /\ dest' \in Trees /\ DOMAIN dest' = DOMAIN dest \cup {p} /\ dest'[p] = staging[p]
        /\ \A q \in DOMAIN dest : q # p => dest'[q] = dest[q]
    <3> DEFINE c == staging[p]
               d == Put(dest, p, c)
    <3>1. dest' = d
      BY <1>2, <1>4
    <3>2. c \in Seq(Nat) /\ dest \in Trees /\ p \in Path
      BY <1>1, <2>1
    <3> HIDE DEF c
    <3>3. /\ d \in Trees /\ DOMAIN d = DOMAIN dest \cup {p} /\ d[p] = c
          /\ \A q \in DOMAIN dest : q # p => d[q] = dest[q]
      BY <3>2, PutIs
    <3> HIDE DEF d
    <3> QED
      BY <3>1, <3>3 DEF c
  <2>3. /\ staging' \in Trees /\ DOMAIN staging' = DOMAIN staging \ {p}
        /\ \A q \in DOMAIN staging \ {p} : staging'[q] = staging[q]
    <3> DEFINE w == Without(staging, {p})
    <3>1. w \in Trees /\ DOMAIN w = DOMAIN staging \ {p}
            /\ \A q \in DOMAIN staging \ {p} : w[q] = staging[q]
      BY <1>1, WithoutIs
    <3>2. staging' = w
      BY <1>2, <1>4
    <3> HIDE DEF w
    <3> QED
      BY <3>1, <3>2
  <2> QED
    BY <1>1, <1>2, <1>4, <2>2, <2>3, PromotingAgrees
<1> QED
  BY <1>3, <1>4

LEMMA PromoteWithinAgrees ==
  ASSUME Sound, NEW j \in Job, PromoteWithin(j)
  PROVE  (\A i \in Job : Agrees(src, box, dest, staging, job[i]))'
<1> DEFINE k == job[j]
<1>1. /\ k \in Jobs /\ Busy(j) /\ k.phase = "promote" /\ dest \in Trees /\ staging \in Trees
      /\ Agrees(src, box, dest, staging, k)
  BY DEF Sound, Shape, Typed, PromoteWithin, Busy
<1>2. PICK h \in Hidden :
        /\ h[1] \in k.walk
        /\ \/ Fails(j)
           \/ /\ h[1] \in DOMAIN staging /\ staging' = Within(staging, h)
              /\ To(j, [k EXCEPT !.walk = k.walk \ {h[1]}])
              /\ UNCHANGED <<src, box, dest>>
  BY DEF PromoteWithin, Within
<1>3. CASE Fails(j)
  BY <1>1, <1>3, FailAgrees
<1>4. CASE ~Fails(j)
  <2>1. /\ staging' \in Trees /\ DOMAIN staging' = (DOMAIN staging \ {h[1]}) \cup {h[2]}
        /\ staging'[h[2]] = staging[h[1]]
        /\ \A q \in DOMAIN staging : q # h[1] /\ q # h[2] => staging'[q] = staging[q]
    BY <1>1, <1>2, <1>4, WithinIs
  <2>2. <<h[1], h[2]>> \in Hidden
    <3>1. h = <<h[1], h[2]>>
      BY NameAssumption
    <3> QED
      BY <3>1
  <2> DEFINE a == h[1]
             p == h[2]
  <2>3. /\ a \in k.walk /\ a \in DOMAIN staging /\ <<a, p>> \in Hidden
        /\ To(j, [k EXCEPT !.walk = k.walk \ {a}]) /\ UNCHANGED <<src, box, dest>>
        /\ staging' \in Trees /\ DOMAIN staging' = (DOMAIN staging \ {a}) \cup {p}
        /\ staging'[p] = staging[a]
        /\ \A q \in DOMAIN staging : q # a /\ q # p => staging'[q] = staging[q]
    BY <1>2, <1>4, <2>1, <2>2
  <2> HIDE DEF a, p
  <2>4. \A q \in DOMAIN staging' :
             (q \in DOMAIN staging /\ staging'[q] = staging[q])
          \/ (<<a, q>> \in Hidden /\ a \in DOMAIN staging /\ staging'[q] = staging[a])
    BY <2>3
  <2>5. \A q \in DOMAIN staging : q # a => q \in DOMAIN staging'
    BY <2>3
  <2>6. a \in Lost(k.made) \/ a \notin DOMAIN k.made
    <3> SUFFICES ASSUME a \in DOMAIN k.made PROVE a \in Lost(k.made)
      OBVIOUS
    <3> QED
      BY DEF Lost, a
  <2> QED
    BY <1>1, <2>3, <2>4, <2>5, <2>6, PromotingAgrees
<1> QED
  BY <1>3, <1>4

LEMMA PromotedAgrees ==
  ASSUME Sound, NEW j \in Job, Promoted(j)
  PROVE  (\A i \in Job : Agrees(src, box, dest, staging, job[i]))'
<1> DEFINE k == job[j]
           n == [k EXCEPT !.phase = "sweep", !.ok = TRUE]
<1>1. /\ k \in Jobs /\ Busy(j) /\ Agrees(src, box, dest, staging, k)
      /\ k.phase = "promote" /\ k.walk = {}
  BY DEF Sound, Shape, Typed, Promoted, Busy
<1>2. To(j, n) /\ UNCHANGED <<src, box, dest, staging>>
  BY DEF Promoted
<1>3. /\ n \in Jobs /\ n.phase = "sweep" /\ n.kind = k.kind /\ n.alone = k.alone /\ n.made = k.made
      /\ n.before = k.before
  BY <1>1 DEF Jobs, Phases
<1> HIDE DEF n
<1>4. Delivers(dest, staging, n)
  <2> SUFFICES ASSUME k.kind = "open", k.alone, NEW q \in DOMAIN k.made \ Lost(k.made)
               PROVE  Holds(dest, k, q)
    BY <1>3 DEF Delivers, Holds, Lost
  <2>1. IF q \in k.walk THEN Holds(staging, k, q) ELSE Holds(dest, k, q)
    BY <1>1 DEF Agrees, Delivers
  <2>2. q \notin k.walk
    BY <1>1
  <2> QED
    BY <2>1, <2>2
<1>5. Keeps(dest, staging, n)
  BY <1>1, <1>3 DEF Agrees, Keeps, AsSealed
<1>6. Agrees(src', box', dest', staging', n)
  BY <1>2, <1>3, <1>4, <1>5 DEF Agrees, Reads, Adds
<1> QED
  BY <1>1, <1>2, <1>3, <1>6, ToAgrees

\* A job that has swept up behind it, or failed to, is through.
LEMMA SweptAgrees ==
  ASSUME Sound, NEW j \in Job, job[j].phase = "sweep",
         To(j, [job[j] EXCEPT !.phase = "done"]), UNCHANGED <<src, box, dest>>
  PROVE  (\A i \in Job : Agrees(src, box, dest, staging, job[i]))'
<1> DEFINE k == job[j]
           n == [k EXCEPT !.phase = "done"]
<1>1. k \in Jobs /\ Busy(j) /\ Agrees(src, box, dest, staging, k) /\ k.kind = "open"
  BY DEF Sound, Shape, Typed, Busy, Knows, Jobs, Kinds
<1>2. /\ n \in Jobs /\ n.phase = "done" /\ n.kind = k.kind /\ n.ok = k.ok
      /\ n.alone = k.alone /\ n.made = k.made /\ n.before = k.before
  BY SweptIs DEF Sound
<1> HIDE DEF n
<1>3. Delivers(dest', staging', n)
  <2> SUFFICES ASSUME k.kind = "open", k.alone, k.ok, NEW q \in DOMAIN k.made \ Lost(k.made)
               PROVE  Holds(dest, k, q)
    BY <1>2 DEF Delivers, Holds, Lost
  <2> QED
    BY <1>1 DEF Agrees, Delivers
<1>4. Keeps(dest', staging', n)
  BY <1>1, <1>2 DEF Agrees, Keeps, AsSealed
<1>5. Agrees(src', box', dest', staging', n)
  BY <1>1, <1>2, <1>3, <1>4 DEF Agrees, Reads, Adds
<1> QED
  BY <1>1, <1>2, <1>5, ToAgrees DEF n

LEMMA IdlesAgree ==
  ASSUME Sound, NEW j \in Job, To(j, Idle), UNCHANGED <<src, box, dest, staging>>
  PROVE  (\A i \in Job : Agrees(src, box, dest, staging, job[i]))'
<1>1. Agrees(src', box', dest', staging', Idle)
  BY DEF Agrees, Delivers, Keeps, Reads, Adds, Idle
<1> QED
  BY <1>1, IdleIs, ToAgrees

\* A job promises the same once it has been told to stop.
LEMMA CancelAgrees ==
  ASSUME Sound, NEW j \in Job, Cancel(j)
  PROVE  (\A i \in Job : Agrees(src, box, dest, staging, job[i]))'
<1> DEFINE k == job[j]
           early == k.phase \in {"ready", "read"} \/ (k.phase = "stage" /\ ~k.over)
           n == [k EXCEPT !.cancel = TRUE, !.early = early]
<1>1. k \in Jobs /\ Agrees(src, box, dest, staging, k)
  BY DEF Sound, Shape, Typed
<1>2. To(j, n) /\ UNCHANGED <<src, box, dest, staging>>
  BY DEF Cancel
<1>3. early \in BOOLEAN
  OBVIOUS
<1>4. /\ n \in Jobs /\ n.kind = k.kind /\ n.phase = k.phase /\ n.args = k.args
      /\ n.todo = k.todo /\ n.got = k.got /\ n.made = k.made /\ n.ok = k.ok
      /\ n.alone = k.alone /\ n.walk = k.walk /\ n.touched = k.touched
      /\ n.feed = k.feed /\ n.before = k.before
  <2> HIDE DEF early
  <2> QED
    BY <1>1, <1>3 DEF Jobs
<1> HIDE DEF n
<1>5. Delivers(dest, staging, n) /\ Keeps(dest, staging, n) /\ Adds(box, n)
  BY <1>1, <1>4 DEF Agrees, Delivers, Keeps, Adds, Holds, AsSealed
<1>6. Reads(src, n)
  <2>1. Current(n) = Current(k) /\ \A e : Meant(n, e) <=> Meant(k, e)
    BY <1>4 DEF Current, Meant
  <2>2. \A l : (Due(n, l) <=> Due(k, l)) /\ (Entered(src, n, l) <=> Entered(src, k, l))
    BY <1>4 DEF Due, Entered
  <2> QED
    BY <1>1, <1>4, <2>1, <2>2 DEF Agrees, Reads
<1>7. Agrees(src', box', dest', staging', n)
  BY <1>2, <1>5, <1>6 DEF Agrees
<1> QED
  BY <1>2, <1>4, <1>7, ToAgrees

\* Whoever has named a source notes that it is written to, and expects nothing of it.
LEMMA EditAgrees ==
  ASSUME Sound, NEW s \in Source, EditSource(s)
  PROVE  (\A i \in Job : Agrees(src, box, dest, staging, job[i]))'
<1> SUFFICES ASSUME NEW i \in Job PROVE Agrees(src', box', dest', staging', job'[i])
  OBVIOUS
<1> DEFINE k == job[i]
           n == job'[i]
<1>1. Shape
  BY DEF Sound
<1>2. /\ UNCHANGED <<box, dest, staging>> /\ \A c \in Source \ {s} : src'[c] = src[c]
      /\ n.kind = k.kind /\ n.phase = k.phase /\ n.args = k.args /\ n.todo = k.todo
      /\ n.got = k.got /\ n.made = k.made /\ n.ok = k.ok /\ n.alone = k.alone
      /\ n.walk = k.walk /\ n.feed = k.feed /\ n.before = k.before
      /\ n.touched = IF k.phase # "idle" /\ s \in ToSet(k.args)
                     THEN k.touched \cup {s} ELSE k.touched
  BY <1>1, EditIs
<1>3. k \in Jobs /\ Knows(i, k) /\ Agrees(src, box, dest, staging, k) /\ k.args \in Seq(Source)
  BY DEF Sound, Shape, Typed, Jobs
<1>4. Delivers(dest, staging, n) /\ Keeps(dest, staging, n) /\ Adds(box, n)
  BY <1>2, <1>3 DEF Agrees, Delivers, Keeps, Adds, Holds, AsSealed
<1>5. CASE k.phase \notin {"read", "done"}
  BY <1>2, <1>4, <1>5 DEF Agrees, Reads
<1>6. CASE k.phase \in {"read", "done"}
  <2>1. \A l \in 1 .. Len(k.args) : k.args[l] \in Source /\ k.args[l] \in ToSet(k.args)
    BY <1>3 DEF ToSet
  <2>2. ASSUME NEW l \in 1 .. Len(k.args), k.args[l] \notin n.touched
        PROVE  k.args[l] \notin k.touched /\ src'[k.args[l]] = src[k.args[l]]
    <3>1. k.args[l] # s
      BY <1>2, <1>6, <2>1, <2>2
    <3> QED
      BY <1>2, <2>1, <2>2, <3>1
  <2>3. \A l \in 1 .. Len(k.args) : Due(n, l) =>
          Due(k, l) /\ (Entered(src, k, l) => Entered(src', n, l))
    BY <1>2, <2>2 DEF Due, Entered
  <2>4. ASSUME NEW e \in k.todo, Meant(k, e), e.from \notin n.touched
        PROVE  e.from \notin k.touched /\ src'[e.from] = src[e.from]
    BY <2>2, <2>4 DEF Meant
  <2>5. Current(n) = Current(k) /\ \A e : Meant(n, e) <=> Meant(k, e)
    BY <1>2 DEF Current, Meant
  <2>6. k.phase = "read" /\ k.todo # {} => Current(k) \in k.todo
    BY <1>3, CurrentIs DEF Knows
  <2>7. Reads(src, k)
    BY <1>3 DEF Agrees
  <2>8. CASE k.phase = "done"
    <3>1. Reads(src', n)
      BY <1>2, <2>3, <2>7, <2>8 DEF Reads
    <3> QED
      BY <1>2, <1>4, <3>1 DEF Agrees
  <2>9. CASE k.phase = "read"
    <3>1. \A e \in k.todo : Meant(k, e) /\ (e.from \notin k.touched => e.size = Len(src[e.from]))
      BY <2>7, <2>9 DEF Reads
    <3>2. \A e \in n.todo : Meant(n, e) /\ (e.from \notin n.touched => e.size = Len(src'[e.from]))
      BY <1>2, <2>4, <2>5, <3>1
    <3>3. n.todo # {} /\ Current(n).from \notin n.touched =>
            \A m \in 1 .. Len(n.got) : n.got[m] = src'[Current(n).from][m]
      BY <1>2, <2>4, <2>5, <2>6, <2>7, <2>9, <3>1 DEF Reads
    <3>4. \A l \in 1 .. Len(n.args) :
            Due(n, l) => (\E e \in n.todo : e.from = n.args[l]) \/ Entered(src', n, l)
      BY <1>2, <2>3, <2>7, <2>9 DEF Reads
    <3>5. Reads(src', n)
      BY <1>2, <2>9, <3>2, <3>3, <3>4 DEF Reads
    <3> QED
      BY <1>2, <1>4, <3>5 DEF Agrees
  <2> QED
    BY <1>6, <2>8, <2>9
<1> QED
  BY <1>5, <1>6

LEMMA StepAgrees ==
  ASSUME Sound, NEW j \in Job, Step(j)
  PROVE  (\A i \in Job : Agrees(src, box, dest, staging, job[i]))'
<1>1. CASE Sweep(j)
  BY <1>1, SweptAgrees DEF Sweep
<1>2. CASE Acknowledge(j)
  BY <1>2, IdlesAgree DEF Acknowledge
<1> QED
  BY <1>1, <1>2, CollectAgrees, ReadBlockAgrees, WriteBoxAgrees, PrepareAgrees, NextChunkAgrees,
     StageAgrees, VerifyAgrees, PromoteAgrees, PromoteWithinAgrees, PromotedAgrees DEF Step

\* The sealed file is written by WriteBox only, which leaves one there.
LEMMA BoxIs ==
  ASSUME [Next]_vars
  PROVE  box' = box \/ \E j \in Job :
           /\ WriteBox(j) /\ ~Cancelled(j) /\ job[j].phase = "read"
           /\ box' = Written(job[j]) /\ To(j, Finished(job[j]))
<1>1. CASE UNCHANGED vars
  BY <1>1 DEF vars
<1>2. ASSUME NEW s \in Source, EditSource(s) PROVE box' = box
  BY <1>2 DEF EditSource
<1>3. ASSUME NEW j \in Job, Start(j) \/ Cancel(j) \/ Error(j) \/ SweepFails(j) \/ Crash(j)
      PROVE  box' = box
  BY <1>3 DEF Start, Cancel, Error, Fails, SweepFails, Crash
<1>4. ASSUME NEW j \in Job, Step(j), ~WriteBox(j) PROVE box' = box
  <2>1. CASE Collect(j) \/ ReadBlock(j)
    BY <2>1 DEF Collect, ReadBlock, Fails
  <2>2. CASE Prepare(j) \/ NextChunk(j) \/ Stage(j) \/ Verify(j)
    BY <2>2 DEF Prepare, NextChunk, Stage, Verify, Fails
  <2>3. CASE Promote(j) \/ PromoteWithin(j)
    BY <2>3 DEF Promote, PromoteWithin, Fails
  <2>4. CASE Promoted(j) \/ Sweep(j) \/ Acknowledge(j)
    BY <2>4 DEF Promoted, Sweep, Acknowledge
  <2> QED
    BY <1>4, <2>1, <2>2, <2>3, <2>4 DEF Step
<1>5. ASSUME NEW j \in Job, WriteBox(j)
      PROVE  box' = box \/ (/\ WriteBox(j) /\ ~Cancelled(j) /\ job[j].phase = "read"
                            /\ box' = Written(job[j]) /\ To(j, Finished(job[j])))
  BY <1>5 DEF WriteBox, Fails
<1> QED
  BY <1>1, <1>2, <1>3, <1>4, <1>5 DEF Next

LEMMA InitSound == Init => Sound
<1> SUFFICES ASSUME Init PROVE Sound
  OBVIOUS
<1>1. \A j \in Job : Agrees(src, box, dest, staging, job[j])
  <2>1. \A j \in Job : job[j] = Idle
    BY DEF Init
  <2>2. Agrees(src, box, dest, staging, Idle)
    BY DEF Agrees, Delivers, Keeps, Reads, Adds, Idle
  <2> QED
    BY <2>1, <2>2
<1>2. ~box.there => DOMAIN box.files = {}
  BY EmptyIs DEF Init, None
<1> QED
  BY <1>1, <1>2, InitShapes DEF Sound

LEMMA NextSound == Sound /\ [Next]_vars => Sound'
<1> SUFFICES ASSUME Sound, [Next]_vars PROVE Sound'
  OBVIOUS
<1>1. Shape'
  BY NextShapes DEF Sound
<1>2. (~box.there => DOMAIN box.files = {})'
  BY BoxIs DEF Sound, Written
<1>3. (\A i \in Job : Agrees(src, box, dest, staging, job[i]))'
  <2>1. CASE UNCHANGED vars
    <3>1. UNCHANGED <<src, box, dest, staging, job>>
      BY <2>1 DEF vars
    <3> QED
      BY <3>1 DEF Sound
  <2>2. ASSUME NEW j \in Job, Error(j)
        PROVE  (\A i \in Job : Agrees(src, box, dest, staging, job[i]))'
    BY <2>2, FailAgrees DEF Error
  <2>3. ASSUME NEW j \in Job, SweepFails(j)
        PROVE  (\A i \in Job : Agrees(src, box, dest, staging, job[i]))'
    BY <2>3, SweptAgrees DEF SweepFails
  <2>4. ASSUME NEW j \in Job, Crash(j)
        PROVE  (\A i \in Job : Agrees(src, box, dest, staging, job[i]))'
    BY <2>4, IdlesAgree DEF Crash
  <2> QED
    BY <2>1, <2>2, <2>3, <2>4, StartAgrees, StepAgrees, CancelAgrees, EditAgrees DEF Next
<1> QED
  BY <1>1, <1>2, <1>3 DEF Sound

LEMMA SoundShows == Sound => SealedAsIs /\ Extracted /\ FailsClean
<1> SUFFICES ASSUME Sound PROVE SealedAsIs /\ Extracted /\ FailsClean
  OBVIOUS
<1>1. SealedAsIs
  <2> SUFFICES ASSUME NEW j \in Job, job[j].phase = "done", job[j].ok, job[j].kind # "open",
                      NEW i \in 1 .. Len(job[j].args),
                      job[j].args[i] \notin job[j].touched, IsLast(job[j].args, i)
               PROVE  Entered(src, job[j], i)
    BY DEF SealedAsIs, Entered
  <2>1. Reads(src, job[j])
    BY DEF Sound, Agrees
  <2> QED
    BY <2>1 DEF Reads, Due
<1>2. Extracted
  BY DEF Sound, Agrees, Delivers, Holds, Extracted
<1>3. \A j \in Job : job[j].kind = "open" /\ job[j].alone => WholeEntries(job[j])
  BY DEF Sound, Agrees, Keeps, AsSealed, WholeEntries
<1>4. FailClosed
  BY <1>3 DEF Sound, Shape, Knows, Untouched, FailClosed
<1> QED
  BY <1>1, <1>2, <1>4, ShapeShows DEF Sound, FailsClean

\* What is sealed, added or encrypted anew is what the files held, block by block,
\* for each file that nobody wrote to from the collection of the names on.
THEOREM SealedAsIsHolds == Spec => []SealedAsIs
BY InitSound, NextSound, SoundShows, PTL DEF Spec

\* An extraction that reports success has put every entry in its place, but for
\* the lapses that Lost names.
THEOREM ExtractedHolds == Spec => []Extracted
BY InitSound, NextSound, SoundShows, PTL DEF Spec

\* C64: an extraction puts nothing into the folder before its last chunk is decrypted,
\* however it ends; whole entries from then on; and nothing stays in the staging folder
\* once it has ended: however many programs are at work, and wherever one fails.
THEOREM FailsCleanHolds == Spec => []FailsClean
BY InitSound, NextSound, SoundShows, PTL DEF Spec

\* Writing the sealed file keeps the entries that are not replaced by name, and a
\* new sealed file is put over no other: unless another job has run meanwhile.
Keeping ==
  box'.there /\ box' # box =>
    \A j \in Job :
      (job[j].phase = "read" /\ job'[j].phase = "done" /\ job'[j].ok /\ job[j].alone) =>
        /\ job[j].kind = "seal" => ~box.there
        /\ \A p \in DOMAIN box.files :
             /\ p \in DOMAIN box'.files
             /\ (\A i \in 1 .. Len(job[j].args) : Name[job[j].args[i]] # p) =>
                  box'.files[p] = box.files[p]

LEMMA SoundKeeps == Sound /\ [Next]_vars => Keeping
<1> SUFFICES ASSUME Sound, [Next]_vars, box' # box,
                    NEW j \in Job, job[j].phase = "read", job'[j].phase = "done", job[j].alone
             PROVE  /\ job[j].kind = "seal" => ~box.there
                    /\ \A p \in DOMAIN box.files :
                         /\ p \in DOMAIN box'.files
                         /\ (\A i \in 1 .. Len(job[j].args) : Name[job[j].args[i]] # p) =>
                              box'.files[p] = box.files[p]
  BY DEF Keeping
<1> DEFINE k == job[j]
<1>1. PICK i \in Job : box' = Written(job[i]) /\ To(i, Finished(job[i]))
  BY BoxIs
<1>2. i = j
  BY <1>1 DEF To, Sound, Shape, Typed
<1>3. box'.files = k.made
  BY <1>1, <1>2 DEF Written
<1>4. k \in Jobs /\ Knows(j, k) /\ Adds(box, k) /\ k.kind # "open"
  BY DEF Sound, Shape, Typed, Agrees, Knows
<1>5. CASE k.kind = "seal"
  <2>1. ~box.there
    BY <1>4, <1>5 DEF Adds
  <2> QED
    BY <1>5, <2>1 DEF Sound
<1>6. CASE k.kind = "append"
  BY <1>3, <1>4, <1>6 DEF Adds
<1> QED
  BY <1>4, <1>5, <1>6 DEF Jobs, Kinds

THEOREM EntriesKeptHolds == Spec => EntriesKept
<1>1. Sound /\ [Next]_vars => [Keeping]_vars
  BY SoundKeeps
<1>2. Spec => [][Keeping]_vars
  BY <1>1, InitSound, NextSound, PTL DEF Spec
<1> QED
  BY <1>2 DEF EntriesKept, Keeping
=============================================================================
