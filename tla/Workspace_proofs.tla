-------------------------- MODULE Workspace_proofs --------------------------
(***************************************************************************)
(* What TLC checks of Workspace for two volumes, proved for any number of  *)
(* volumes, directories, edits, jobs, commands and faults.                 *)
(***************************************************************************)
EXTENDS Workspace, TLAPS

(***************************************************************************)
(* The types of the state, and what the window and its threads know.       *)
(***************************************************************************)

\* Volumes in memory, between steps.
Volumes == {h \in [of : Brick, has : SUBSET Token, ver : Nat, base : Nat] : h.base = h.ver}

Disks ==
  [brick  : [Brick -> Images \cup {None}], folder : [Dir -> (SUBSET Token) \cup {None}],
   cut : SUBSET Dir, harmed : SUBSET Brick, undone : SUBSET Edit]

\* A folder that is not whole is one.
Stores == {s \in Disks : \A d \in s.cut : s.folder[d] # None}

Windows ==
  [on : BOOLEAN, live : Volumes \cup {None}, path : Dir \cup {None}, unlocked : BOOLEAN,
   slot : BOOLEAN, tracked : {"none", "create", "mount"}, ask : Brick \cup {None}, form : BOOLEAN]

Creating == {"idle", "started", "created", "failed"}
Mounting == {"idle", "started", "opened", "exporting", "ready", "validated", "failed"}
Commands == {"idle", "create", "rewrite", "trust"}

Jobs(places) == [at : places, of : Brick \cup {None}, h : Volumes \cup {None}]

Typed ==
  /\ store \in Stores
  /\ anchor \in [Brick -> Anchors \cup {None}]
  /\ win \in Windows
  /\ job \in [create : Jobs(Creating), mount : Jobs(Mounting)]
  /\ cli \in Jobs(Commands)
  /\ meant \in [Edit -> Brick \cup {None}] /\ owner \in [Dir -> Brick \cup {None}]
  /\ loose \subseteq Dir
  /\ work \in 0 .. MaxWork /\ faults \in 0 .. MaxFaults

\* A job or a command that is under way knows its brick.
Knows(j) == IF j.at = "idle" THEN j = Idle ELSE j.of \in Brick

\* A thread that has opened a volume holds it until it hands it over, and what
\* it handed over is there for as long as the window has not given up the slot.
ThreadsKnow ==
  /\ Knows(job.create) /\ job.create.h = None
  /\ Knows(job.mount)
  /\ job.mount.at \notin {"opened", "exporting", "ready"} => job.mount.h = None
  /\ job.mount.at \in {"opened", "exporting"} => job.mount.h # None
  /\ job.mount.at = "ready" => (job.mount.h # None <=> win.slot)
  /\ job.mount.h # None => job.mount.h.of = job.mount.of

CommandKnows ==
  /\ Knows(cli)
  /\ cli.h # None => cli.h.of = cli.of /\ cli.h.ver # 0
  /\ cli.at \in {"rewrite", "trust"} <=> cli.h # None

\* An awaited mount without a slot was begun before an eject, so nothing is open.
WindowKnows ==
  /\ win.tracked = "create" => job.create.at # "idle"
  /\ win.tracked = "mount" => job.mount.at # "idle"
  /\ win.tracked = "mount" /\ ~win.slot => win.live = None
  /\ ~win.on => win = Closed /\ job.create = Idle /\ job.mount = Idle
  /\ HeldIsShown

Shape == Typed /\ ThreadsKnow /\ CommandKnows /\ WindowKnows

Assumptions == HomeAssumption /\ BoundsAssumption /\ TokenAssumption /\ NoneAssumption

\* The assumptions on the constants, as one fact.
LEMMA AssumptionsHold == Assumptions
BY HomeAssumption, BoundsAssumption, TokenAssumption, NoneAssumption DEF Assumptions

LEMMA BoundsHold == MaxEdits \in Nat /\ MaxWork \in Nat /\ MaxFaults \in Nat
BY BoundsAssumption

(***************************************************************************)
(* What the operators on the disk and on volumes in memory yield.          *)
(***************************************************************************)

\* What is written is one brick, whole or torn, and it may be harmed by that.
LEMMA RewrittenIs ==
  ASSUME NEW s \in Stores, NEW h \in Volumes, NEW whole \in BOOLEAN, NEW sound \in BOOLEAN
  PROVE  /\ Rewritten(s, h, whole, sound) \in Stores
         /\ Rewritten(s, h, whole, sound).brick =
              [s.brick EXCEPT ![h.of] = [has |-> h.has, ver |-> h.ver + 1, whole |-> whole]]
         /\ Rewritten(s, h, whole, sound).folder = s.folder
         /\ Rewritten(s, h, whole, sound).cut = s.cut
         /\ Rewritten(s, h, whole, sound).undone = s.undone
         /\ Rewritten(s, h, whole, sound).harmed = s.harmed \cup IF sound THEN {} ELSE {h.of}
<1>1. h.of \in Brick /\ h.has \in SUBSET Token /\ h.ver \in Nat
  BY DEF Volumes
<1>2. [has |-> h.has, ver |-> h.ver + 1, whole |-> whole] \in Images
  BY <1>1 DEF Images
<1> QED
  BY <1>1, <1>2 DEF Rewritten, Stores, Disks

\* Writing changes one brick, and harms it if it was not the one that was read.
LEMMA WriteIs ==
  ASSUME NEW s \in Stores, NEW h \in Volumes
  PROVE  /\ Write(s, h) \in Stores
         /\ Write(s, h).brick =
              [s.brick EXCEPT ![h.of] = [has |-> h.has, ver |-> h.ver + 1, whole |-> TRUE]]
         /\ Write(s, h).folder = s.folder /\ Write(s, h).cut = s.cut
         /\ Write(s, h).undone = s.undone
         /\ Write(s, h).harmed = s.harmed \cup IF Current(s, h) THEN {} ELSE {h.of}
<1> DEFINE sound == Current(s, h)
           whole == TRUE
<1>1. sound \in BOOLEAN
  BY DEF Current
<1> HIDE DEF sound, whole
<1>2. whole \in BOOLEAN /\ Write(s, h) = Rewritten(s, h, whole, sound)
  BY DEF Write, sound, whole
<1>3. /\ Write(s, h) \in Stores
      /\ Write(s, h).brick =
           [s.brick EXCEPT ![h.of] = [has |-> h.has, ver |-> h.ver + 1, whole |-> whole]]
      /\ Write(s, h).folder = s.folder /\ Write(s, h).cut = s.cut
      /\ Write(s, h).undone = s.undone
      /\ Write(s, h).harmed = s.harmed \cup IF sound THEN {} ELSE {h.of}
  BY <1>1, <1>2, RewrittenIs
<1> QED
  BY <1>3 DEF sound, whole

\* A write that is cut short harms the brick also when no folder has its content.
LEMMA TornIs ==
  ASSUME NEW s \in Stores, NEW h \in Volumes
  PROVE  /\ Tear(s, h) \in Stores
         /\ Tear(s, h).brick =
              [s.brick EXCEPT ![h.of] = [has |-> h.has, ver |-> h.ver + 1, whole |-> FALSE]]
         /\ Tear(s, h).folder = s.folder /\ Tear(s, h).cut = s.cut
         /\ Tear(s, h).undone = s.undone
         /\ Tear(s, h).harmed =
              s.harmed \cup IF Current(s, h) /\ Whole(s, h.of) THEN {} ELSE {h.of}
<1> DEFINE sound == Current(s, h) /\ Whole(s, h.of)
           whole == FALSE
<1>1. sound \in BOOLEAN
  BY DEF Current, Whole
<1> HIDE DEF sound, whole
<1>2. whole \in BOOLEAN /\ Tear(s, h) = Rewritten(s, h, whole, sound)
  BY DEF Tear, sound, whole
<1>3. /\ Tear(s, h) \in Stores
      /\ Tear(s, h).brick =
           [s.brick EXCEPT ![h.of] = [has |-> h.has, ver |-> h.ver + 1, whole |-> whole]]
      /\ Tear(s, h).folder = s.folder /\ Tear(s, h).cut = s.cut
      /\ Tear(s, h).undone = s.undone
      /\ Tear(s, h).harmed = s.harmed \cup IF sound THEN {} ELSE {h.of}
  BY <1>1, <1>2, RewrittenIs
<1> QED
  BY <1>3 DEF sound, whole

\* Importing takes over what the folder holds, and the volume stays the same.
LEMMA ImportedIs ==
  ASSUME NEW s \in Stores, NEW h \in Volumes
  PROVE  /\ Imported(s, h) \in Volumes
         /\ Imported(s, h).of = h.of /\ Imported(s, h).ver = h.ver
         /\ Imported(s, h).has = IF Folder(s, h.of) = None THEN h.has ELSE Folder(s, h.of)
<1>1. h.of \in Brick /\ Mnt(h.of) \in Dir
  BY AssumptionsHold DEF Volumes, Assumptions, HomeAssumption, Mnt
<1>2. Folder(s, h.of) \in (SUBSET Token) \cup {None}
  BY <1>1 DEF Stores, Disks, Folder
<1> QED
  BY <1>1, <1>2 DEF Imported, Volumes

\* The next version of a volume holds the same.
LEMMA Next1Is ==
  ASSUME NEW h \in Volumes
  PROVE  /\ Next1(h) \in Volumes
         /\ Next1(h).of = h.of /\ Next1(h).ver = h.ver + 1 /\ Next1(h).has = h.has
BY DEF Next1, Handle, Volumes

\* Shredding takes one folder away.
LEMMA ShreddedIs ==
  ASSUME NEW s \in Stores, NEW b \in Brick
  PROVE  /\ Shredded(s, b) \in Stores
         /\ Shredded(s, b).brick = s.brick /\ Shredded(s, b).harmed = s.harmed
         /\ Shredded(s, b).undone = s.undone
         /\ Shredded(s, b).cut = s.cut \ {Mnt(b)}
         /\ Shredded(s, b).folder = [s.folder EXCEPT ![Mnt(b)] = None]
BY DEF Shredded, Stores, Disks

\* What was imported is in the file then, and half a folder harms it.
LEMMA SealedFromIs ==
  ASSUME NEW s \in Stores, NEW h \in Volumes
  PROVE  /\ SealedFrom(s, h) \in Stores
         /\ SealedFrom(s, h).brick =
              [s.brick EXCEPT ![h.of] = [has   |-> Imported(s, h).has, ver |-> h.ver + 1,
                                         whole |-> TRUE]]
         /\ SealedFrom(s, h).folder = s.folder /\ SealedFrom(s, h).cut = s.cut
         /\ SealedFrom(s, h).undone = s.undone
         /\ SealedFrom(s, h).harmed =
              s.harmed \cup IF Current(s, h) /\ Mnt(h.of) \notin s.cut THEN {} ELSE {h.of}
<1> DEFINE i == Imported(s, h)
           sound == Current(s, h) /\ Mnt(h.of) \notin s.cut
           whole == TRUE
<1>1. i \in Volumes /\ i.of = h.of /\ i.ver = h.ver
  BY ImportedIs
<1>2. sound \in BOOLEAN /\ whole \in BOOLEAN
  BY DEF Current
<1>3. SealedFrom(s, h) = Rewritten(s, i, whole, sound)
  BY DEF SealedFrom
<1> HIDE DEF i, sound, whole
<1>4. /\ SealedFrom(s, h) \in Stores
      /\ SealedFrom(s, h).brick =
           [s.brick EXCEPT ![i.of] = [has |-> i.has, ver |-> i.ver + 1, whole |-> whole]]
      /\ SealedFrom(s, h).folder = s.folder /\ SealedFrom(s, h).cut = s.cut
      /\ SealedFrom(s, h).undone = s.undone
      /\ SealedFrom(s, h).harmed = s.harmed \cup IF sound THEN {} ELSE {i.of}
  BY <1>1, <1>2, <1>3, RewrittenIs
<1> QED
  BY <1>1, <1>4 DEF i, sound, whole

\* Sealing does both.
LEMMA SealedIs ==
  ASSUME NEW s \in Stores, NEW h \in Volumes
  PROVE  /\ Sealed(s, h) \in Stores
         /\ Sealed(s, h).folder = [s.folder EXCEPT ![Mnt(h.of)] = None]
<1>1. h.of \in Brick
  BY DEF Volumes
<1>2. SealedFrom(s, h) \in Stores /\ SealedFrom(s, h).folder = s.folder
  BY SealedFromIs
<1>3. Sealed(s, h) = Shredded(SealedFrom(s, h), h.of)
  BY DEF Sealed
<1> QED
  BY <1>1, <1>2, <1>3, ShreddedIs

\* A second write leaves the folder away.
LEMMA SealedTwiceIs ==
  ASSUME NEW s \in Stores, NEW h \in Volumes
  PROVE  /\ SealedTwice(s, h) \in Stores
         /\ SealedTwice(s, h).folder = [s.folder EXCEPT ![Mnt(h.of)] = None]
<1>1. Imported(s, h) \in Volumes
  BY ImportedIs
<1>2. Next1(Imported(s, h)) \in Volumes
  BY <1>1, Next1Is, Zenon
<1>3. Sealed(s, h) \in Stores /\ Sealed(s, h).folder = [s.folder EXCEPT ![Mnt(h.of)] = None]
  BY SealedIs
<1>4. /\ Write(Sealed(s, h), Next1(Imported(s, h))) \in Stores
      /\ Write(Sealed(s, h), Next1(Imported(s, h))).folder = Sealed(s, h).folder
  BY <1>2, <1>3, WriteIs, Zenon
<1> QED
  BY <1>3, <1>4 DEF SealedTwice

\* Half a shredding comes after the write; the folder is still there, with less in it.
LEMMA HalfShreddedIs ==
  ASSUME NEW s \in Stores, NEW h \in Volumes, NEW x \in HalfShredded(s, h)
  PROVE  /\ x \in Stores
         /\ x.brick = SealedFrom(s, h).brick /\ x.harmed = SealedFrom(s, h).harmed
         /\ x.undone = SealedFrom(s, h).undone
         /\ \/ x = SealedFrom(s, h)
            \/ \E P \in SUBSET Folder(s, h.of) :
                 /\ Folder(s, h.of) # None /\ P # None
                 /\ x.folder = [s.folder EXCEPT ![Mnt(h.of)] = P]
                 /\ x.cut = s.cut \cup {Mnt(h.of)}
         /\ \A d \in Dir : x.folder[d] # None => s.folder[d] # None
<1> DEFINE w == SealedFrom(s, h)
<1>1. w \in Stores /\ w.folder = s.folder /\ w.cut = s.cut
  BY SealedFromIs
<1>2. h.of \in Brick /\ Mnt(h.of) \in Dir
  BY AssumptionsHold DEF Volumes, Assumptions, HomeAssumption, Mnt
<1>3. /\ Folder(s, h.of) # None
      /\ \/ x = w
         \/ \E P \in SUBSET Folder(s, h.of) :
              x = [w EXCEPT !.folder[Mnt(h.of)] = P, !.cut = @ \cup {Mnt(h.of)}]
  BY DEF HalfShredded
<1> HIDE DEF w
<1>4. CASE x = w
  BY <1>1, <1>4 DEF w
<1>5. ASSUME NEW P \in SUBSET Folder(s, h.of),
             x = [w EXCEPT !.folder[Mnt(h.of)] = P, !.cut = @ \cup {Mnt(h.of)}]
      PROVE  /\ x \in Stores
             /\ x.brick = w.brick /\ x.harmed = w.harmed /\ x.undone = w.undone
             /\ P # None
             /\ x.folder = [s.folder EXCEPT ![Mnt(h.of)] = P]
             /\ x.cut = s.cut \cup {Mnt(h.of)}
             /\ \A d \in Dir : x.folder[d] # None => s.folder[d] # None
  <2>1. Folder(s, h.of) \in SUBSET Token
    BY <1>2, <1>3 DEF Folder, Stores, Disks
  <2>2. P \in SUBSET Token /\ P # None
    BY <2>1, AssumptionsHold DEF Assumptions, NoneAssumption
  <2>3. /\ x.brick = w.brick /\ x.harmed = w.harmed /\ x.undone = w.undone
        /\ x.folder = [s.folder EXCEPT ![Mnt(h.of)] = P]
        /\ x.cut = s.cut \cup {Mnt(h.of)} /\ x \in Disks
    BY <1>1, <1>2, <1>5, <2>2 DEF Stores, Disks
  <2>4. \A d \in Dir : x.folder[d] = IF d = Mnt(h.of) THEN P ELSE s.folder[d]
    BY <1>2, <2>3 DEF Stores, Disks
  <2>5. x \in Stores
    BY <1>1, <1>2, <2>2, <2>3, <2>4 DEF Stores, Disks
  <2> QED
    BY <1>2, <1>3, <2>2, <2>3, <2>4, <2>5 DEF Folder
<1> QED
  BY <1>3, <1>4, <1>5 DEF w

\* A seal that does not come to its end opens no folder.
LEMMA InterruptedIs ==
  ASSUME NEW s \in Stores, NEW h \in Volumes, NEW x \in Interrupted(s, h)
  PROVE  x \in Stores /\ \A d \in Dir : x.folder[d] # None => s.folder[d] # None
<1>1. Imported(s, h) \in Volumes
  BY ImportedIs
<1>2. Tear(s, Imported(s, h)) \in Stores /\ Tear(s, Imported(s, h)).folder = s.folder
  BY <1>1, TornIs, Zenon
<1>3. x = Tear(s, Imported(s, h)) \/ x \in HalfShredded(s, h)
  BY DEF Interrupted
<1> QED
  BY <1>2, <1>3, HalfShreddedIs

\* Dropping a mount that is none changes nothing.
LEMMA DroppedIs ==
  ASSUME NEW s \in Stores, NEW h \in Volumes \cup {None}
  PROVE  /\ Dropped(s, h) \in Stores
         /\ \A d \in Dir : Dropped(s, h).folder[d] # None =>
              s.folder[d] # None /\ ~(h # None /\ d = Mnt(h.of))
<1>1. CASE h = None
  BY <1>1 DEF Dropped
<1>2. CASE h # None
  <2>1. h \in Volumes
    BY <1>2
  <2>2. Sealed(s, h) \in Stores /\ Sealed(s, h).folder = [s.folder EXCEPT ![Mnt(h.of)] = None]
    BY <2>1, SealedIs
  <2>3. Dropped(s, h) = Sealed(s, h)
    BY <1>2 DEF Dropped
  <2> QED
    BY <2>2, <2>3 DEF Stores, Disks
<1> QED
  BY <1>1, <1>2

\* What reads a brick holds its version.
LEMMA OpenedIs ==
  ASSUME Typed, NEW b \in Brick, Readable(b)
  PROVE  /\ Opened(b) \in Volumes /\ Opened(b).of = b
         /\ Opened(b).ver = store.brick[b].ver /\ Opened(b).has = store.brick[b].has
<1>1. store.brick[b] \in Images
  BY DEF Typed, Stores, Disks, Readable
<1> QED
  BY <1>1 DEF Opened, Handle, Volumes, Images

\* A new volume is empty.
LEMMA NewIs ==
  ASSUME NEW b \in Brick
  PROVE  /\ New(b) \in Volumes /\ New(b).of = b /\ New(b).ver = 0 /\ New(b).has = {}
         /\ NewAnchor \in Anchors
BY DEF New, Handle, Volumes, NewAnchor, Anchors

\* Creating a volume writes it twice.
LEMMA CreatedIs ==
  ASSUME NEW s \in Stores, NEW b \in Brick
  PROVE  Created(s, b) \in Stores /\ Created(s, b).folder = s.folder
<1>1. New(b) \in Volumes
  BY NewIs
<1>2. Next1(New(b)) \in Volumes
  BY <1>1, Next1Is, Zenon
<1>3. Write(s, New(b)) \in Stores /\ Write(s, New(b)).folder = s.folder
  BY <1>1, WriteIs, Zenon
<1>4. /\ Created(s, b) \in Stores
      /\ Created(s, b).folder = Write(s, New(b)).folder
  BY <1>2, <1>3, WriteIs, Zenon DEF Created
<1> QED
  BY <1>3, <1>4

\* Dropping a volume takes its folder away, or a fault has left it.
LEMMA DropIs ==
  ASSUME Typed, NEW s \in Stores, NEW h \in Volumes \cup {None}, Drop(s, h)
  PROVE  /\ store' \in Stores /\ loose' \subseteq Dir /\ faults' \in 0 .. MaxFaults
         /\ loose \subseteq loose'
         /\ \A d \in Dir : store'.folder[d] # None =>
              s.folder[d] # None /\ (h # None /\ d = Mnt(h.of) => d \in loose')
<1>1. CASE store' = Dropped(s, h) /\ UNCHANGED <<loose, faults>>
  BY <1>1, DroppedIs DEF Typed
<1>2. CASE h # None /\ store' \in {s} \cup Interrupted(s, h) /\ loose' = loose \cup {Mnt(h.of)} /\ Fault
  <2>1. h \in Volumes /\ Mnt(h.of) \in Dir
    BY <1>2, AssumptionsHold DEF Volumes, Assumptions, HomeAssumption, Mnt
  <2>2. store' \in Stores /\ \A d \in Dir : store'.folder[d] # None => s.folder[d] # None
    <3>1. CASE store' = s
      BY <3>1
    <3>2. CASE store' \in Interrupted(s, h)
      BY <2>1, <3>2, InterruptedIs
    <3> QED
      BY <1>2, <3>1, <3>2
  <2>3. faults' \in 0 .. MaxFaults
    BY <1>2, AssumptionsHold DEF Fault, Typed, Assumptions, BoundsAssumption
  <2> QED
    BY <1>2, <2>1, <2>2, <2>3 DEF Typed
<1> QED
  BY <1>1, <1>2 DEF Drop

\* A mount in the slot is one that was handed over.
LEMMA InSlotIs ==
  ASSUME Shape
  PROVE  /\ InSlot \in Volumes \cup {None}
         /\ InSlot # None => InSlot = job.mount.h /\ job.mount.at = "ready" /\ win.slot
         /\ job.mount.at = "ready" => InSlot = job.mount.h
BY DEF Shape, Typed, ThreadsKnow, InSlot, Jobs

(***************************************************************************)
(* The window, its threads and the files are in a state that they can be   *)
(* in, whichever step comes next.                                          *)
(***************************************************************************)

LEMMA ShapeInit == Init => Shape
<1> SUFFICES ASSUME Init PROVE Shape
  OBVIOUS
<1>1. \A b \in Brick : First(b) \in Images
  BY DEF First, Image, Images, Token
<1>2. store \in Stores
  BY <1>1 DEF Init, Stores, Disks
<1>3. win \in Windows
  BY DEF Init, Windows, Launched, Closed
<1>4. cli \in Jobs(Commands) /\ job \in [create : Jobs(Creating), mount : Jobs(Mounting)]
  BY DEF Init, Jobs, Idle, Creating, Mounting, Commands
<1>5. work \in 0 .. MaxWork /\ faults \in 0 .. MaxFaults
  BY BoundsHold DEF Init
<1>6. Typed
  BY <1>2, <1>3, <1>4, <1>5 DEF Init, Typed
<1> QED
  BY <1>6 DEF Init, Shape, ThreadsKnow, CommandKnows, WindowKnows, HeldIsShown, Knows, Idle,
     Launched, Closed

\* What does not concern the window or a command leaves them as they are.
LEMMA ShapeOfDialogs ==
  ASSUME Shape, ShowForm \/ Launch \/ (\E b \in Brick : AskMount(b) \/ StartCreate(b))
  PROVE  Shape'
<1> USE DEF Shape, ThreadsKnow, CommandKnows, WindowKnows, HeldIsShown, Knows
<1>1. CASE ShowForm
  BY <1>1 DEF ShowForm, Typed, Windows, UI, Busy
<1>2. CASE Launch
  BY <1>2 DEF Launch, Typed, Windows, Launched, Closed
<1>3. ASSUME NEW b \in Brick, AskMount(b) PROVE Shape'
  BY <1>3 DEF AskMount, Typed, Windows, UI, Busy
<1>4. ASSUME NEW b \in Brick, StartCreate(b) PROVE Shape'
  <2>1. work' \in 0 .. MaxWork
    BY <1>4, BoundsHold DEF StartCreate, Start, Work, Typed
  <2>2. win' \in Windows
    BY <1>4 DEF StartCreate, Typed, Windows
  <2>3. [at |-> "started", of |-> b, h |-> None] \in Jobs(Creating)
    BY DEF Jobs, Creating
  <2>4. job' \in [create : Jobs(Creating), mount : Jobs(Mounting)]
    BY <1>4, <2>3 DEF StartCreate, Start, Typed
  <2>5. Typed'
    BY <1>4, <2>1, <2>2, <2>4 DEF StartCreate, Start, Typed
  <2> QED
    BY <1>4, <2>5 DEF StartCreate, Start, Typed, Windows, Idle, UI
<1> QED
  BY <1>1, <1>2, <1>3, <1>4

\* Taking what a thread has left, or dropping it, leaves the window as it can be.
LEMMA ShapeOfTaking ==
  ASSUME Shape, StartMount \/ TakeReady \/ TakeValidated \/ TakeCreated
                \/ (\E k \in {"create", "mount"} : TakeFailed(k))
  PROVE  Shape'
<1> USE DEF Shape, ThreadsKnow, CommandKnows, WindowKnows, HeldIsShown, Knows
<1>a. Idle \in Jobs(Creating) /\ Idle \in Jobs(Mounting)
  BY DEF Idle, Jobs, Creating, Mounting
<1>b. win.live \in Volumes \cup {None} /\ store \in Stores
  BY DEF Typed, Windows
<1>c. InSlot \in Volumes \cup {None}
  BY InSlotIs
<1>1. CASE StartMount
  <2>1. work' \in 0 .. MaxWork
    BY <1>1, BoundsHold DEF StartMount, Start, Work, Typed
  <2>2. store' \in Stores /\ loose' \subseteq Dir /\ faults' \in 0 .. MaxFaults
    BY <1>1, <1>b, <1>c, DropIs DEF StartMount
  <2>3. win.ask \in Brick /\ win' \in Windows
    BY <1>1 DEF StartMount, Typed, Windows
  <2>4. [at |-> "started", of |-> win.ask, h |-> None] \in Jobs(Mounting)
    BY <2>3 DEF Jobs, Mounting
  <2>5. job' \in [create : Jobs(Creating), mount : Jobs(Mounting)]
    BY <1>1, <2>4 DEF StartMount, Start, Typed
  <2>6. Typed'
    BY <1>1, <2>1, <2>2, <2>3, <2>5 DEF StartMount, Typed
  <2> QED
    BY <1>1, <2>3, <2>6 DEF StartMount, Start, Typed, Windows, Idle, UI
<1>2. CASE TakeReady
  <2>1. store' \in Stores /\ loose' \subseteq Dir /\ faults' \in 0 .. MaxFaults
    BY <1>2, <1>b, DropIs DEF TakeReady
  <2>2. job.mount.of \in Brick /\ Mnt(job.mount.of) \in Dir
    BY <1>2, AssumptionsHold DEF TakeReady, Typed, Jobs, Assumptions, HomeAssumption, Mnt
  <2>3. win' \in Windows
    BY <1>2, <2>2 DEF TakeReady, Typed, Windows, Jobs
  <2>4. job' \in [create : Jobs(Creating), mount : Jobs(Mounting)]
    BY <1>2, <1>a DEF TakeReady, Typed
  <2>5. Typed'
    BY <1>2, <2>1, <2>3, <2>4 DEF TakeReady, Typed
  <2> QED
    BY <1>2, <2>5 DEF TakeReady, Typed, Windows, Idle, UI
<1>3. CASE TakeValidated
  <2>1. store' \in Stores /\ loose' \subseteq Dir /\ faults' \in 0 .. MaxFaults
    BY <1>3, <1>b, DropIs DEF TakeValidated
  <2>2. win' \in Windows
    BY <1>3 DEF TakeValidated, Typed, Windows
  <2>3. job' \in [create : Jobs(Creating), mount : Jobs(Mounting)]
    BY <1>3, <1>a DEF TakeValidated, Typed
  <2>4. Typed'
    BY <1>3, <2>1, <2>2, <2>3 DEF TakeValidated, Typed
  <2> QED
    BY <1>3, <2>4 DEF TakeValidated, Typed, Windows, Idle, UI
<1>4. CASE TakeCreated
  <2>1. win' \in Windows
    BY <1>4 DEF TakeCreated, Typed, Windows
  <2>2. job' \in [create : Jobs(Creating), mount : Jobs(Mounting)]
    BY <1>4, <1>a DEF TakeCreated, Typed
  <2>3. Typed'
    BY <1>4, <2>1, <2>2 DEF TakeCreated, Typed
  <2> QED
    BY <1>4, <2>3 DEF TakeCreated, Typed, Windows, Idle, UI
<1>5. ASSUME NEW k \in {"create", "mount"}, TakeFailed(k) PROVE Shape'
  <2>1. store' \in Stores /\ loose' \subseteq Dir /\ faults' \in 0 .. MaxFaults
    BY <1>5, <1>b, <1>c, DropIs DEF TakeFailed
  <2>2. win' \in Windows
    BY <1>5 DEF TakeFailed, Typed, Windows
  <2>3. job' \in [create : Jobs(Creating), mount : Jobs(Mounting)]
    BY <1>5, <1>a DEF TakeFailed, Typed
  <2>4. Typed'
    BY <1>5, <2>1, <2>2, <2>3 DEF TakeFailed, Typed
  <2>5. CASE k = "mount"
    BY <1>5, <2>4, <2>5 DEF TakeFailed, Typed, Windows, Idle, UI
  <2>6. CASE k = "create"
    <3>1. job'.create = Idle /\ job'.mount = IF InSlot # None THEN Idle ELSE job.mount
      BY <1>5, <2>6 DEF TakeFailed, Typed
    <3>2. win.tracked = "create" /\ win'.tracked = "none"
      BY <1>5, <2>6 DEF TakeFailed, Typed, Windows
    <3>3. Knows(job'.create) /\ job'.create.h = None
      BY <3>1 DEF Idle
    <3>4. CASE InSlot # None
      BY <1>5, <2>4, <2>6, <3>1, <3>2, <3>3, <3>4 DEF TakeFailed, Typed, Windows, Idle, UI
    <3>5. CASE InSlot = None
      BY <1>5, <2>4, <2>6, <3>1, <3>2, <3>3, <3>5, InSlotIs DEF TakeFailed, Typed, Windows, Idle, UI
    <3> QED
      BY <3>4, <3>5
  <2> QED
    BY <2>5, <2>6
<1> QED
  BY <1>1, <1>2, <1>3, <1>4, <1>5

\* Sealing what the window holds takes its folder away.
LEMMA SealLiveIs ==
  ASSUME Shape
  PROVE  /\ SealLive \in Stores
         /\ win.live = None => SealLive = store
         /\ \A d \in Dir : SealLive.folder[d] # None =>
              store.folder[d] # None /\ ~(win.live # None /\ d = Mnt(win.live.of))
<1>1. win.live \in Volumes \cup {None} /\ store \in Stores
  BY DEF Shape, Typed, Windows
<1>2. CASE win.live = None
  BY <1>1, <1>2 DEF SealLive
<1>3. CASE win.live # None
  <2>1. win.live \in Volumes
    BY <1>1, <1>3
  <2>2. SealLive = SealedTwice(store, win.live)
    BY <1>3 DEF SealLive
  <2>3. /\ SealLive \in Stores
        /\ SealLive.folder = [store.folder EXCEPT ![Mnt(win.live.of)] = None]
    BY <1>1, <2>1, <2>2, SealedTwiceIs
  <2> QED
    BY <1>1, <1>3, <2>3 DEF Stores, Disks
<1> QED
  BY <1>2, <1>3

\* Where the shredding failed, the folder is left, and what was in the slot is sealed.
LEMMA UnshreddedIs ==
  ASSUME Shape, NEW left \in SUBSET Dir, Unshredded(left)
  PROVE  /\ store' \in Stores /\ loose' \subseteq Dir /\ faults' \in 0 .. MaxFaults
         /\ loose \cup left \subseteq loose'
         /\ win.live # None /\ Mnt(win.live.of) \in loose'
         /\ \A d \in Dir : store'.folder[d] # None =>
              store.folder[d] # None /\ ~(InSlot # None /\ d = Mnt(InSlot.of))
<1>1. win.live \in Volumes /\ win.live # None /\ store \in Stores
  BY DEF Shape, Typed, Windows, Unshredded
<1>2. Mnt(win.live.of) \in Dir
  BY <1>1, AssumptionsHold DEF Volumes, Assumptions, HomeAssumption, Mnt
<1> DEFINE n == Next1(Imported(store, win.live))
<1>3. n \in Volumes
  <2>1. Imported(store, win.live) \in Volumes
    BY <1>1, ImportedIs
  <2> QED
    BY <2>1, Next1Is
<1>4. PICK x \in HalfShredded(store, win.live) : store' = Dropped(Write(x, n), InSlot)
  BY DEF Unshredded
<1> HIDE DEF n
<1>5. x \in Stores /\ \A d \in Dir : x.folder[d] # None => store.folder[d] # None
  BY <1>1, <1>4, HalfShreddedIs
<1>6. Write(x, n) \in Stores /\ Write(x, n).folder = x.folder
  BY <1>3, <1>5, WriteIs
<1>7. InSlot \in Volumes \cup {None}
  BY InSlotIs
<1>8. /\ store' \in Stores
      /\ \A d \in Dir : store'.folder[d] # None =>
           Write(x, n).folder[d] # None /\ ~(InSlot # None /\ d = Mnt(InSlot.of))
  BY <1>4, <1>6, <1>7, DroppedIs
<1>9. faults' \in 0 .. MaxFaults
  BY BoundsHold DEF Unshredded, Fault, Shape, Typed
<1>10. loose' = loose \cup left \cup {Mnt(win.live.of)} /\ loose \subseteq Dir
  BY DEF Unshredded, Shape, Typed
<1> QED
  BY <1>1, <1>2, <1>5, <1>6, <1>8, <1>9, <1>10

\* Where a thread exports to, nothing is in the slot.
LEMMA ExportingIs ==
  ASSUME Shape
  PROVE  /\ Exporting \subseteq Dir
         /\ Exporting # {} => InSlot = None
         /\ job.mount.at = "exporting" => Exporting = {Mnt(job.mount.h.of)}
<1>1. job.mount.at = "exporting" => job.mount.h \in Volumes
  BY DEF Shape, Typed, ThreadsKnow, Jobs
<1>2. \A h \in Volumes : Mnt(h.of) \in Dir
  BY AssumptionsHold DEF Volumes, Assumptions, HomeAssumption, Mnt
<1> QED
  BY <1>1, <1>2 DEF Exporting, InSlot

\* An eject and a quit take away what the window holds and what is in the slot, or
\* know it to be left; a quit also knows where a thread was exporting.
LEMMA ClosingIs ==
  ASSUME Shape, Eject \/ Quit
  PROVE  /\ store' \in Stores /\ loose' \subseteq Dir /\ faults' \in 0 .. MaxFaults
         /\ loose \subseteq loose'
         /\ \A d \in Dir : store'.folder[d] # None =>
              /\ store.folder[d] # None
              /\ win.live # None /\ d = Mnt(win.live.of) => d \in loose'
              /\ InSlot # None /\ d = Mnt(InSlot.of) => d \in loose'
         /\ Quit => Exporting \subseteq loose'
<1>a. /\ InSlot \in Volumes \cup {None} /\ SealLive \in Stores /\ Typed
      /\ \A d \in Dir : SealLive.folder[d] # None =>
           store.folder[d] # None /\ ~(win.live # None /\ d = Mnt(win.live.of))
  BY InSlotIs, SealLiveIs DEF Shape
<1>b. /\ Exporting \subseteq Dir /\ (Exporting # {} => InSlot = None)
      /\ loose \subseteq Dir /\ faults \in 0 .. MaxFaults /\ store \in Stores
  BY ExportingIs DEF Shape, Typed
<1>1. ASSUME Drop(SealLive, InSlot)
      PROVE  /\ store' \in Stores /\ loose' \subseteq Dir /\ faults' \in 0 .. MaxFaults
             /\ loose \subseteq loose'
             /\ \A d \in Dir : store'.folder[d] # None =>
                  /\ store.folder[d] # None
                  /\ win.live # None /\ d = Mnt(win.live.of) => d \in loose'
                  /\ InSlot # None /\ d = Mnt(InSlot.of) => d \in loose'
  <2>1. /\ store' \in Stores /\ loose' \subseteq Dir /\ faults' \in 0 .. MaxFaults
        /\ loose \subseteq loose'
        /\ \A d \in Dir : store'.folder[d] # None =>
             SealLive.folder[d] # None /\ (InSlot # None /\ d = Mnt(InSlot.of) => d \in loose')
    BY <1>a, <1>1, DropIs
  <2> QED
    BY <1>a, <2>1
<1>2. CASE Quit
  <2>1. CASE Exporting = {} /\ Drop(SealLive, InSlot)
    BY <1>1, <2>1
  <2>2. CASE Unshredded(Exporting)
    BY <1>b, <2>2, UnshreddedIs
  <2>3. CASE /\ Exporting # {}
             /\ store' = SealLive /\ loose' = loose \cup Exporting
             /\ UNCHANGED faults
    BY <1>a, <1>b, <2>3
  <2>4. CASE /\ win.live = None /\ win.path = None /\ InSlot # None
             /\ loose' = loose \cup {Mnt(InSlot.of)}
             /\ UNCHANGED <<store, faults>>
    <3>1. Mnt(InSlot.of) \in Dir
      BY <1>a, <2>4, AssumptionsHold DEF Volumes, Assumptions, HomeAssumption, Mnt
    <3> QED
      BY <1>a, <1>b, <2>4, <3>1
  <2> QED
    BY <1>2, <2>1, <2>2, <2>3, <2>4 DEF Quit
<1>3. CASE Eject /\ ~Quit
  <2>1. CASE Drop(SealLive, InSlot)
    BY <1>1, <1>3, <2>1
  <2>2. CASE Unshredded({})
    <3>1. {} \in SUBSET Dir
      OBVIOUS
    <3> QED
      BY <1>3, <2>2, <3>1, UnshreddedIs
  <2> QED
    BY <1>3, <2>1, <2>2 DEF Eject
<1> QED
  BY <1>2, <1>3

\* Ejecting, quitting and crashing leave it as it can be.
LEMMA ShapeOfEjecting ==
  ASSUME Shape, Eject \/ EjectFails \/ Quit \/ Crash
  PROVE  Shape'
<1> USE DEF Shape, ThreadsKnow, CommandKnows, WindowKnows, HeldIsShown, Knows
<1>a. Idle \in Jobs(Creating) /\ Idle \in Jobs(Mounting) /\ Closed \in Windows
  BY DEF Idle, Jobs, Creating, Mounting, Closed, Windows
<1>b. win.live \in Volumes \cup {None} /\ store \in Stores /\ SealLive \in Stores
  BY SealLiveIs DEF Typed, Windows
<1>c. InSlot \in Volumes \cup {None}
  BY InSlotIs
<1>d. [create |-> Idle, mount |-> Idle] \in [create : Jobs(Creating), mount : Jobs(Mounting)]
  BY <1>a
<1>e. ASSUME win.live # None
      PROVE  /\ win.live \in Volumes /\ Imported(store, win.live) \in Volumes
             /\ Imported(store, win.live).of = win.live.of
             /\ Next1(Imported(store, win.live)) \in Volumes
             /\ Next1(Imported(store, win.live)).of = win.live.of
  <2>1. Imported(store, win.live) \in Volumes /\ Imported(store, win.live).of = win.live.of
    BY <1>b, <1>e, ImportedIs
  <2> QED
    BY <1>b, <1>e, <2>1, Next1Is
<1>1. CASE Eject
  <2>1. store' \in Stores /\ loose' \subseteq Dir /\ faults' \in 0 .. MaxFaults
    BY <1>1, ClosingIs
  <2>2. win' \in Windows
    BY <1>1 DEF Eject, Ejected, Typed, Windows
  <2>3. [job.mount EXCEPT !.h = None] \in Jobs(Mounting)
    BY DEF Typed, Jobs
  <2>4. job' \in [create : Jobs(Creating), mount : Jobs(Mounting)]
    BY <1>1, <1>a, <2>3 DEF Eject, SlotDropped, Typed
  <2>5. Typed'
    BY <1>1, <2>1, <2>2, <2>4 DEF Eject, Typed
  <2>6. /\ job'.create = job.create
        /\ \/ job'.mount = job.mount /\ InSlot = None
           \/ job'.mount = Idle /\ InSlot # None /\ win.tracked # "mount"
           \/ job'.mount = [job.mount EXCEPT !.h = None] /\ InSlot # None
    <3>1. job' = SlotDropped
      BY <1>1 DEF Eject
    <3>2. CASE InSlot = None
      BY <3>1, <3>2 DEF SlotDropped, Typed
    <3>3. CASE InSlot # None /\ win.tracked = "mount"
      BY <3>1, <3>3 DEF SlotDropped, Typed
    <3>4. CASE InSlot # None /\ win.tracked # "mount"
      BY <3>1, <3>4 DEF SlotDropped, Typed
    <3> QED
      BY <3>2, <3>3, <3>4
  <2> QED
    BY <1>1, <2>5, <2>6, InSlotIs DEF Eject, Ejected, Typed, Windows, Jobs, Idle, UI
<1>2. CASE EjectFails
  <2>1. faults' \in 0 .. MaxFaults
    BY <1>2, BoundsHold DEF EjectFails, Fault, Typed
  <2>2. store' \in Stores /\ win' \in Windows /\ win'.live # None /\ win'.live.of = win.live.of
    <3>1. CASE UNCHANGED <<store, win>>
      BY <1>2, <3>1 DEF EjectFails, Typed
    <3>2. CASE /\ store' = Tear(store, Imported(store, win.live))
               /\ win' = [win EXCEPT !.live = Next1(Imported(store, @))]
      <4>1. store' \in Stores
        BY <1>2, <3>2, <1>b, <1>e, TornIs DEF EjectFails
      <4>2. win' \in Windows /\ win'.live = Next1(Imported(store, win.live))
        BY <1>2, <3>2, <1>e DEF EjectFails, Typed, Windows
      <4>3. Next1(Imported(store, win.live)) # None
        BY <1>2, <1>e, AssumptionsHold DEF EjectFails, Assumptions, NoneAssumption, Volumes
      <4> QED
        BY <1>2, <1>e, <4>1, <4>2, <4>3 DEF EjectFails
    <3> QED
      BY <1>2, <3>1, <3>2 DEF EjectFails
  <2>3. Typed'
    BY <1>2, <2>1, <2>2 DEF EjectFails, Typed
  <2>4. win'.tracked = win.tracked /\ win'.slot = win.slot /\ win'.on = win.on
        /\ win'.unlocked = win.unlocked /\ win'.path = win.path
    BY <1>2 DEF EjectFails, Typed, Windows
  <2> QED
    BY <1>2, <2>2, <2>3, <2>4 DEF EjectFails, UI
<1>3. CASE Quit
  <2>1. store' \in Stores /\ loose' \subseteq Dir /\ faults' \in 0 .. MaxFaults
    BY <1>3, ClosingIs
  <2>2. Typed'
    BY <1>3, <2>1, <1>a, <1>d DEF Quit, Typed
  <2> QED
    BY <1>3, <2>2 DEF Quit, Closed, Idle
<1>4. CASE Crash
  <2>1. faults' \in 0 .. MaxFaults
    BY <1>4, BoundsHold DEF Crash, Fault, Typed
  <2>2. store' \in Stores
    <3>1. ASSUME NEW h \in {win.live, InSlot} \ {None}, store' \in Interrupted(store, h)
          PROVE  store' \in Stores
      <4>1. h \in Volumes
        BY <1>b, <1>c
      <4> QED
        BY <1>b, <3>1, <4>1, InterruptedIs
    <3>2. ASSUME win.live # None,
                 store' = Tear(Sealed(store, win.live), Next1(Imported(store, win.live)))
          PROVE  store' \in Stores
      <4>1. Sealed(store, win.live) \in Stores
        BY <3>2, <1>b, <1>e, SealedIs
      <4> QED
        BY <3>2, <4>1, <1>e, TornIs
    <3> QED
      BY <1>4, <1>b, <3>1, <3>2 DEF Crash
  <2>3. loose' \subseteq Dir
    BY <1>4 DEF Crash
  <2>4. Typed'
    BY <1>4, <2>1, <2>2, <2>3, <1>a, <1>d DEF Crash, Typed
  <2> QED
    BY <1>4, <2>4 DEF Crash, Closed, Idle
<1> QED
  BY <1>1, <1>2, <1>3, <1>4

\* A thread that ends leaves its result, or nothing.
LEMMA EndsIs ==
  ASSUME Shape, NEW k \in {"create", "mount"}, NEW at,
         k = "create" => at \in Creating \ {"idle"},
         k = "mount"  => at \in Mounting \ {"idle"},
         job[k].at # "idle", Ends(k, at)
  PROVE  /\ job' \in [create : Jobs(Creating), mount : Jobs(Mounting)]
         /\ \A i \in {"create", "mount"} :
              IF i # k THEN job'[i] = job[i]
              ELSE /\ win.tracked = k => job'[k].at = at /\ job'[k].of = job[k].of
                                         /\ job'[k].of \in Brick
                   /\ win.tracked # k => job'[k] = Idle
                   /\ job'[k].h = None /\ Knows(job'[k])
<1>1. job[k].of \in Brick
  BY DEF Shape, ThreadsKnow, Knows
<1>2. CASE win.tracked = k
  <2>1. Result(k, at) = [job[k] EXCEPT !.at = at, !.h = None]
    BY <1>2 DEF Result
  <2>2. CASE k = "create"
    <3>1. Result(k, at) \in Jobs(Creating)
      BY <2>1, <2>2 DEF Shape, Typed, Jobs
    <3> QED
      BY <1>1, <1>2, <2>1, <2>2, <3>1 DEF Ends, Shape, Typed, Jobs, Knows
  <2>3. CASE k = "mount"
    <3>1. Result(k, at) \in Jobs(Mounting)
      BY <2>1, <2>3 DEF Shape, Typed, Jobs
    <3> QED
      BY <1>1, <1>2, <2>1, <2>3, <3>1 DEF Ends, Shape, Typed, Jobs, Knows
  <2> QED
    BY <2>2, <2>3
<1>3. CASE win.tracked # k
  <2>1. Result(k, at) = Idle /\ Idle \in Jobs(Creating) /\ Idle \in Jobs(Mounting)
    BY <1>3 DEF Result, Idle, Jobs, Creating, Mounting
  <2> QED
    BY <1>3, <2>1 DEF Ends, Shape, Typed, Knows, Idle
<1> QED
  BY <1>2, <1>3

\* What was exported joins what is in the folder.
LEMMA ExportedIs ==
  ASSUME NEW s \in Stores, NEW h \in Volumes, Folder(s, h.of) # None
  PROVE  /\ Exported(s, h) \in Stores
         /\ Exported(s, h).brick = s.brick /\ Exported(s, h).undone = s.undone
         /\ Exported(s, h).folder =
              [s.folder EXCEPT ![Mnt(h.of)] = Folder(s, h.of) \cup h.has]
         /\ Exported(s, h).cut = s.cut \ {Mnt(h.of)}
         /\ Exported(s, h).harmed = s.harmed \cup IF Current(s, h) THEN {} ELSE {h.of}
         /\ Folder(s, h.of) \cup h.has # None
<1>1. h.of \in Brick /\ Mnt(h.of) \in Dir /\ h.has \in SUBSET Token
  BY AssumptionsHold DEF Volumes, Assumptions, HomeAssumption, Mnt
<1> DEFINE all == Folder(s, h.of) \cup h.has
<1>2. all \in SUBSET Token /\ all # None
  <2>1. Folder(s, h.of) \in SUBSET Token
    BY <1>1 DEF Folder, Stores, Disks
  <2>2. all \in SUBSET Token
    BY <1>1, <2>1
  <2> HIDE DEF all
  <2> QED
    BY <2>2, AssumptionsHold DEF Assumptions, NoneAssumption
<1>3. Exported(s, h) =
        [s EXCEPT !.folder[Mnt(h.of)] = all, !.cut = @ \ {Mnt(h.of)},
                  !.harmed = @ \cup IF Current(s, h) THEN {} ELSE {h.of}]
  BY <1>1 DEF Exported, Folder, Stores, Disks
<1> HIDE DEF all
<1>4. /\ Exported(s, h).brick = s.brick /\ Exported(s, h).undone = s.undone
      /\ Exported(s, h).folder = [s.folder EXCEPT ![Mnt(h.of)] = all]
      /\ Exported(s, h).cut = s.cut \ {Mnt(h.of)}
      /\ Exported(s, h).harmed = s.harmed \cup IF Current(s, h) THEN {} ELSE {h.of}
      /\ Exported(s, h) \in Disks
  <2> DEFINE harmed == s.harmed \cup IF Current(s, h) THEN {} ELSE {h.of}
  <2>1. harmed \in SUBSET Brick
    BY <1>1 DEF Stores, Disks
  <2>2. Exported(s, h) =
          [s EXCEPT !.folder[Mnt(h.of)] = all, !.cut = s.cut \ {Mnt(h.of)}, !.harmed = harmed]
    BY <1>3 DEF Stores, Disks
  <2> HIDE DEF harmed
  <2>3. /\ Exported(s, h).brick = s.brick /\ Exported(s, h).undone = s.undone
        /\ Exported(s, h).folder = [s.folder EXCEPT ![Mnt(h.of)] = all]
        /\ Exported(s, h).cut = s.cut \ {Mnt(h.of)}
        /\ Exported(s, h).harmed = harmed
    BY <1>1, <1>2, <2>2 DEF Stores, Disks
  <2>4. Exported(s, h) \in Disks
    BY <1>1, <1>2, <2>1, <2>2 DEF Stores, Disks
  <2> QED
    BY <2>3, <2>4 DEF harmed
<1>5. Exported(s, h) \in Stores
  BY <1>1, <1>2, <1>4 DEF Stores, Disks
<1> QED
  BY <1>2, <1>4, <1>5 DEF all

\* An export begins in a folder of its own.
LEMMA ExportIs ==
  ASSUME Shape, MountExport
  PROVE  LET h == job.mount.h
         IN /\ h \in Volumes /\ h # None /\ h.of \in Brick /\ Mnt(h.of) \in Dir
            /\ h.of = job.mount.of /\ store' \in Stores
            /\ store'.brick = store.brick /\ store'.undone = store.undone
            /\ store'.harmed = store.harmed
            /\ \E P \in SUBSET h.has :
                 P # None /\ store'.folder = [store.folder EXCEPT ![Mnt(h.of)] = P]
            /\ store'.cut = store.cut \cup {Mnt(h.of)}
            /\ job' \in [create : Jobs(Creating), mount : Jobs(Mounting)]
            /\ job'.create = job.create /\ job'.mount = [job.mount EXCEPT !.at = "exporting"]
            /\ owner' \in [Dir -> Brick \cup {None}]
<1> DEFINE h == job.mount.h
<1>1. /\ h \in Volumes /\ h # None /\ h.of \in Brick /\ Mnt(h.of) \in Dir
      /\ h.of = job.mount.of /\ h.has \in SUBSET Token
  BY AssumptionsHold
  DEF MountExport, Shape, ThreadsKnow, Typed, Jobs, Volumes, Assumptions, HomeAssumption, Mnt
<1>2. PICK P \in SUBSET h.has :
        store' = [store EXCEPT !.folder[Mnt(h.of)] = P, !.cut = @ \cup {Mnt(h.of)}]
  BY DEF MountExport
<1>3. /\ job' = [job EXCEPT !.mount.at = "exporting"]
      /\ owner' = [owner EXCEPT ![Mnt(h.of)] = h.of]
  BY DEF MountExport
<1>4. store \in Stores /\ job \in [create : Jobs(Creating), mount : Jobs(Mounting)]
      /\ owner \in [Dir -> Brick \cup {None}]
  BY DEF Shape, Typed
<1>5. [job.mount EXCEPT !.at = "exporting"] \in Jobs(Mounting)
  BY <1>4 DEF Jobs, Mounting
<1>6. /\ job' \in [create : Jobs(Creating), mount : Jobs(Mounting)]
      /\ job'.create = job.create /\ job'.mount = [job.mount EXCEPT !.at = "exporting"]
  BY <1>3, <1>4, <1>5
<1> HIDE DEF h
<1>7. P \in SUBSET Token /\ P # None
  BY <1>1, AssumptionsHold DEF Assumptions, NoneAssumption
<1>8. /\ store'.brick = store.brick /\ store'.undone = store.undone
      /\ store'.harmed = store.harmed
      /\ store'.folder = [store.folder EXCEPT ![Mnt(h.of)] = P]
      /\ store'.cut = store.cut \cup {Mnt(h.of)} /\ store' \in Disks
  BY <1>1, <1>2, <1>4, <1>7 DEF Stores, Disks
<1>9. store' \in Stores
  BY <1>1, <1>4, <1>7, <1>8 DEF Stores, Disks
<1>10. owner' \in [Dir -> Brick \cup {None}]
  BY <1>1, <1>3, <1>4
<1> QED
  BY <1>1, <1>6, <1>7, <1>8, <1>9, <1>10 DEF h

\* A mount is handed over and known to be, or dropped.
LEMMA HandOverIs ==
  ASSUME Shape, NEW s \in Stores, job.mount.at \in {"opened", "exporting"},
         HandOver(s, job.mount.h)
  PROVE  LET h == job.mount.h
         IN /\ h \in Volumes /\ h # None /\ h.of \in Brick /\ Mnt(h.of) \in Dir
            /\ h.of = job.mount.of
            /\ store' \in Stores /\ loose' \subseteq Dir /\ faults' \in 0 .. MaxFaults
            /\ job' \in [create : Jobs(Creating), mount : Jobs(Mounting)]
            /\ job'.create = job.create /\ Knows(job'.mount)
            /\ \/ /\ win.slot /\ store' = s /\ loose' = loose \ {Mnt(h.of)}
                  /\ job'.mount = [job.mount EXCEPT !.at = "ready"]
               \/ /\ ~win.slot /\ Drop(s, h) /\ loose \subseteq loose'
                  /\ job'.mount.h = None
                  /\ win.tracked = "mount" => job'.mount.at = "ready"
                  /\ win.tracked # "mount" => job'.mount = Idle
                  /\ \A d \in Dir : store'.folder[d] # None =>
                       s.folder[d] # None /\ (d = Mnt(h.of) => d \in loose')
<1> DEFINE h == job.mount.h
<1>1. /\ h \in Volumes /\ h # None /\ h.of \in Brick /\ Mnt(h.of) \in Dir
      /\ h.of = job.mount.of
  BY AssumptionsHold
  DEF Shape, ThreadsKnow, Typed, Jobs, Volumes, Assumptions, HomeAssumption, Mnt
<1>2. Typed
  BY DEF Shape
<1>3. CASE win.slot
  <2>1. /\ store' = s /\ loose' = loose \ {Mnt(h.of)}
        /\ job' = [job EXCEPT !.mount.at = "ready"] /\ UNCHANGED faults
    BY <1>3 DEF HandOver
  <2>2. [job.mount EXCEPT !.at = "ready"] \in Jobs(Mounting)
    BY <1>2 DEF Typed, Jobs, Mounting
  <2>3. /\ job' \in [create : Jobs(Creating), mount : Jobs(Mounting)]
        /\ job'.create = job.create /\ job'.mount = [job.mount EXCEPT !.at = "ready"]
    BY <1>2, <2>1, <2>2 DEF Typed
  <2>4. job'.mount.at = "ready" /\ job'.mount.of \in Brick
    BY <1>1, <1>2, <2>3 DEF Typed, Jobs
  <2>5. Knows(job'.mount)
    BY <2>4 DEF Knows
  <2> HIDE DEF h
  <2>6. loose' \subseteq Dir /\ faults' \in 0 .. MaxFaults
    BY <1>2, <2>1 DEF Typed
  <2> QED
    BY <1>1, <1>3, <2>1, <2>3, <2>5, <2>6 DEF h
<1>4. CASE ~win.slot
  <2>1. Drop(s, h) /\ Ends("mount", "ready")
    BY <1>4 DEF HandOver
  <2>2. /\ job' \in [create : Jobs(Creating), mount : Jobs(Mounting)]
        /\ job'.create = job.create /\ job'.mount.h = None /\ Knows(job'.mount)
        /\ win.tracked = "mount" => job'.mount.at = "ready"
        /\ win.tracked # "mount" => job'.mount = Idle
    BY <2>1, EndsIs DEF Creating, Mounting
  <2> HIDE DEF h
  <2>3. /\ store' \in Stores /\ loose' \subseteq Dir /\ faults' \in 0 .. MaxFaults
        /\ loose \subseteq loose'
        /\ \A d \in Dir : store'.folder[d] # None =>
             s.folder[d] # None /\ (h # None /\ d = Mnt(h.of) => d \in loose')
    BY <1>1, <1>2, <2>1, DropIs
  <2> QED
    BY <1>1, <1>4, <2>1, <2>2, <2>3 DEF h
<1> QED
  BY <1>3, <1>4

LEMMA ShapeOfThreads ==
  ASSUME Shape, Threads
  PROVE  Shape'
<1> USE DEF Shape, ThreadsKnow, CommandKnows, WindowKnows, HeldIsShown
<1>1. ASSUME NEW k \in {"create", "mount"}, Refused(k) PROVE Shape'
  <2>1. Ends(k, "failed") /\ job[k].at = "started"
    BY <1>1 DEF Refused
  <2>2. Typed'
    BY <1>1, <2>1, EndsIs DEF Refused, Typed, Creating, Mounting
  <2>3. CASE k = "create"
    <3>1. job'.mount = job.mount /\ job'.create.h = None /\ Knows(job'.create)
          /\ (win.tracked = "create" => job'.create.at = "failed")
      BY <2>1, <2>3, EndsIs DEF Creating, Mounting
    <3> QED
      BY <1>1, <2>1, <2>2, <2>3, <3>1 DEF Refused, Idle
  <2>4. CASE k = "mount"
    <3>1. job'.create = job.create /\ job'.mount.h = None /\ Knows(job'.mount)
          /\ (win.tracked = "mount" => job'.mount.at = "failed")
          /\ (win.tracked # "mount" => job'.mount = Idle)
      BY <2>1, <2>4, EndsIs DEF Creating, Mounting
    <3> QED
      BY <1>1, <2>1, <2>2, <2>4, <3>1 DEF Refused, Idle
  <2> QED
    BY <2>3, <2>4
<1>2. CASE CreateRun \/ CreateFails
  <2>1. job.create.at = "started" /\ job.create.of \in Brick
    BY <1>2 DEF CreateRun, CreateFails, Knows
  <2>2. store' \in Stores /\ faults' \in 0 .. MaxFaults
    <3>1. CASE CreateRun
      BY <2>1, <3>1, CreatedIs DEF CreateRun, Typed
    <3>2. CASE CreateFails
      <4>1. New(job.create.of) \in Volumes
        BY <2>1, NewIs
      <4>2. store' \in Stores
        BY <3>2, <4>1, TornIs DEF CreateFails, Typed
      <4> QED
        BY <3>2, <4>2, BoundsHold DEF CreateFails, Fault, Typed
    <3> QED
      BY <1>2, <3>1, <3>2
  <2>3. anchor' \in [Brick -> Anchors \cup {None}]
    BY <1>2, <2>1, NewIs DEF CreateRun, CreateFails, Typed
  <2>4. /\ job' \in [create : Jobs(Creating), mount : Jobs(Mounting)]
        /\ job'.mount = job.mount /\ job'.create.h = None /\ Knows(job'.create)
        /\ win.tracked = "create" => job'.create.at # "idle"
    <3>1. CASE CreateRun
      BY <2>1, <3>1, EndsIs DEF CreateRun, Creating, Mounting
    <3>2. CASE CreateFails
      BY <2>1, <3>2, EndsIs DEF CreateFails, Creating, Mounting
    <3> QED
      BY <1>2, <3>1, <3>2
  <2>5. Typed'
    BY <1>2, <2>2, <2>3, <2>4 DEF CreateRun, CreateFails, Typed
  <2> QED
    BY <1>2, <2>1, <2>4, <2>5 DEF CreateRun, CreateFails, Idle
<1>3. CASE MountOpen
  <2>1. job.mount.of \in Brick
    BY <1>3 DEF MountOpen, Knows
  <2>2. Opened(job.mount.of) \in Volumes /\ Opened(job.mount.of).of = job.mount.of
    BY <1>3, <2>1, OpenedIs DEF MountOpen
  <2>3. [at |-> "opened", of |-> job.mount.of, h |-> Opened(job.mount.of)] \in Jobs(Mounting)
    BY <2>1, <2>2 DEF Jobs, Mounting
  <2>4. /\ job' \in [create : Jobs(Creating), mount : Jobs(Mounting)]
        /\ job'.create = job.create
        /\ job'.mount = [at |-> "opened", of |-> job.mount.of, h |-> Opened(job.mount.of)]
    BY <1>3, <2>3 DEF MountOpen, Typed
  <2>5. Typed'
    BY <1>3, <2>4 DEF MountOpen, Typed
  <2>6. Opened(job.mount.of) # None
    BY <2>2, AssumptionsHold DEF Assumptions, NoneAssumption, Volumes
  <2> QED
    BY <1>3, <2>1, <2>2, <2>4, <2>5, <2>6 DEF MountOpen, Knows, Idle
<1>4. CASE MountExport
  <2>1. /\ store' \in Stores /\ job' \in [create : Jobs(Creating), mount : Jobs(Mounting)]
        /\ job'.create = job.create /\ job'.mount = [job.mount EXCEPT !.at = "exporting"]
        /\ owner' \in [Dir -> Brick \cup {None}] /\ job.mount.at = "opened"
    BY <1>4, ExportIs DEF MountExport
  <2>2. Typed'
    BY <1>4, <2>1 DEF MountExport, Typed
  <2>3. /\ job'.mount.at = "exporting" /\ job'.mount.h = job.mount.h
        /\ job'.mount.of = job.mount.of
    BY <2>1 DEF Typed, Jobs
  <2> QED
    BY <1>4, <2>1, <2>2, <2>3 DEF MountExport, Knows, Idle
<1>5. ASSUME NEW s \in Stores, HandOver(s, job.mount.h), MountAdopt \/ MountFolder
      PROVE  Shape'
  <2> DEFINE h == job.mount.h
  <2>1. job.mount.at \in {"opened", "exporting"}
    BY <1>5 DEF MountAdopt, MountFolder
  <2>2. /\ h \in Volumes /\ h # None /\ h.of \in Brick /\ Mnt(h.of) \in Dir
        /\ h.of = job.mount.of
        /\ store' \in Stores /\ loose' \subseteq Dir /\ faults' \in 0 .. MaxFaults
        /\ job' \in [create : Jobs(Creating), mount : Jobs(Mounting)]
        /\ job'.create = job.create /\ Knows(job'.mount)
        /\ \/ win.slot /\ job'.mount = [job.mount EXCEPT !.at = "ready"]
           \/ /\ ~win.slot /\ job'.mount.h = None
              /\ win.tracked = "mount" => job'.mount.at = "ready"
              /\ win.tracked # "mount" => job'.mount = Idle
    BY <1>5, <2>1, HandOverIs
  <2>3. owner' \in [Dir -> Brick \cup {None}] /\ UNCHANGED <<anchor, win, cli, meant, work>>
    BY <1>5, <2>2 DEF MountAdopt, MountFolder, Typed
  <2>4. Typed'
    BY <2>2, <2>3 DEF Typed
  <2>5. CASE win.slot
    <3>1. /\ job'.mount.at = "ready" /\ job'.mount.h = job.mount.h
          /\ job'.mount.of = job.mount.of
      BY <2>2, <2>5 DEF Typed, Jobs
    <3> QED
      BY <2>1, <2>2, <2>3, <2>4, <2>5, <3>1 DEF Idle
  <2>6. CASE ~win.slot
    BY <2>1, <2>2, <2>3, <2>4, <2>6 DEF Idle
  <2> QED
    BY <2>5, <2>6
<1>6. CASE MountAdopt
  BY <1>5, <1>6 DEF MountAdopt, Typed
<1>7. CASE MountFolder
  <2>1. job.mount.h \in Volumes
    BY <1>7 DEF MountFolder, Typed, Jobs
  <2>2. Exported(store, job.mount.h) \in Stores
    BY <1>7, <2>1, ExportedIs DEF MountFolder, Typed
  <2> QED
    BY <1>5, <1>7, <2>2 DEF MountFolder
<1>8. CASE MountFolderFails
  <2>1. Ends("mount", "validated") /\ job.mount.at \in {"opened", "exporting"}
    BY <1>8 DEF MountFolderFails
  <2>2. faults' \in 0 .. MaxFaults /\ loose' \subseteq Dir
    BY <1>8, BoundsHold, ExportingIs DEF MountFolderFails, Fault, Typed
  <2>3. /\ job' \in [create : Jobs(Creating), mount : Jobs(Mounting)]
        /\ job'.create = job.create /\ job'.mount.h = None /\ Knows(job'.mount)
        /\ win.tracked = "mount" => job'.mount.at = "validated"
        /\ win.tracked # "mount" => job'.mount = Idle
    BY <2>1, EndsIs DEF Creating, Mounting
  <2>4. Typed'
    BY <1>8, <2>2, <2>3 DEF MountFolderFails, Typed
  <2> QED
    BY <1>8, <2>1, <2>3, <2>4 DEF MountFolderFails, Idle
<1> QED
  BY <1>1, <1>2, <1>3, <1>4, <1>6, <1>7, <1>8 DEF Threads

LEMMA ShapeOfOthers ==
  ASSUME Shape, Others
  PROVE  Shape'
<1> USE DEF Shape, ThreadsKnow, CommandKnows, WindowKnows, HeldIsShown
<1>1. ASSUME NEW i \in Edit, NEW d \in Dir, EditFolder(i, d) PROVE Shape'
  <2>1. store.folder[d] \in SUBSET Token /\ i \in Token
    BY <1>1 DEF EditFolder, Typed, Stores, Disks, Token
  <2>2. store' \in Stores
    <3> DEFINE all == store.folder[d] \cup {i}
    <3>1. all \in SUBSET Token
      BY <2>1
    <3>2. store' = [store EXCEPT !.folder[d] = all]
      BY <1>1 DEF EditFolder, Typed, Stores, Disks
    <3> HIDE DEF all
    <3>3. all # None
      BY <3>1, AssumptionsHold DEF Assumptions, NoneAssumption
    <3> QED
      BY <3>1, <3>2, <3>3 DEF Typed, Stores, Disks
  <2>3. meant' \in [Edit -> Brick \cup {None}]
    BY <1>1 DEF EditFolder, Typed
  <2>4. Typed'
    BY <1>1, <2>2, <2>3 DEF EditFolder, Typed
  <2> QED
    BY <1>1, <2>4 DEF EditFolder
<1>2. ASSUME NEW b \in Brick, Restore(b) PROVE Shape'
  <2>1. First(b) \in Images
    BY DEF First, Image, Images, Token
  <2>2. faults' \in 0 .. MaxFaults
    BY <1>2, BoundsHold DEF Restore, Fault, Typed
  <2>3. store' \in Stores
    <3> DEFINE harmed == store.harmed \cup ({h.of : h \in Handles} \cap {b})
               undone == store.undone \cup (store.brick[b].has \cap Edit)
    <3>1. harmed \in SUBSET Brick /\ undone \in SUBSET Edit
      BY DEF Typed, Stores, Disks
    <3>2. store' = [store EXCEPT !.brick[b] = First(b), !.harmed = harmed, !.undone = undone]
      BY <1>2 DEF Restore
    <3> HIDE DEF harmed, undone
    <3> QED
      BY <2>1, <3>1, <3>2 DEF Typed, Stores, Disks
  <2>4. Typed'
    BY <1>2, <2>2, <2>3 DEF Restore, Typed
  <2> QED
    BY <1>2, <2>4 DEF Restore
<1> QED
  BY <1>1, <1>2 DEF Others

LEMMA ShapeOfCommands ==
  ASSUME Shape, Command
  PROVE  Shape'
<1> USE DEF Shape, ThreadsKnow, CommandKnows, WindowKnows, HeldIsShown, Knows
<1>a. Idle \in Jobs(Commands)
  BY DEF Idle, Jobs, Commands
<1>1. ASSUME NEW b \in Brick, CliCreate(b) PROVE Shape'
  <2>1. work' \in 0 .. MaxWork
    BY <1>1, BoundsHold DEF CliCreate, Work, Typed
  <2>2. [at |-> "create", of |-> b, h |-> None] \in Jobs(Commands)
    BY DEF Jobs, Commands
  <2>3. Typed'
    BY <1>1, <2>1, <2>2 DEF CliCreate, Typed
  <2> QED
    BY <1>1, <2>3 DEF CliCreate
<1>2. ASSUME NEW b \in Brick, NEW op \in {"rewrite", "trust"}, CliOpen(op, b) PROVE Shape'
  <2>1. work' \in 0 .. MaxWork
    BY <1>2, BoundsHold DEF CliOpen, Work, Typed
  <2>2. Opened(b) \in Volumes /\ Opened(b).of = b /\ Opened(b).ver # 0
    <3>1. store.brick[b] \in Images
      BY <1>2 DEF CliOpen, Readable, Typed, Stores, Disks
    <3> QED
      BY <1>2, <3>1, OpenedIs DEF CliOpen, Images
  <2>3. [at |-> op, of |-> b, h |-> Opened(b)] \in Jobs(Commands) /\ Opened(b) # None
    BY <2>2, AssumptionsHold DEF Jobs, Commands, Assumptions, NoneAssumption, Volumes
  <2>4. Typed'
    BY <1>2, <2>1, <2>3 DEF CliOpen, Typed
  <2> QED
    BY <1>2, <2>2, <2>3, <2>4 DEF CliOpen
<1>3. CASE CliCreated
  <2>1. cli.of \in Brick
    BY <1>3 DEF CliCreated
  <2>2. store' \in Stores
    BY <1>3, <2>1, CreatedIs DEF CliCreated, Typed
  <2>3. anchor' \in [Brick -> Anchors \cup {None}]
    BY <1>3, <2>1, NewIs DEF CliCreated, Typed
  <2>4. Typed'
    BY <1>3, <1>a, <2>2, <2>3 DEF CliCreated, Typed
  <2> QED
    BY <1>3, <2>4 DEF CliCreated, Idle
<1>4. CASE CliRewrite
  <2>1. cli.h \in Volumes
    BY <1>4 DEF CliRewrite, Typed, Jobs
  <2>2. store' \in Stores
    BY <1>4, <2>1, WriteIs DEF CliRewrite, Typed
  <2>3. Typed'
    BY <1>4, <1>a, <2>2 DEF CliRewrite, Typed
  <2> QED
    BY <1>4, <2>3 DEF CliRewrite, Idle
<1>5. CASE CliTrust
  <2>1. cli.h \in Volumes /\ cli.h.ver # 0 /\ cli.of \in Brick
    BY <1>5 DEF CliTrust, Typed, Jobs
  <2>2. cli.h.has \in SUBSET Token /\ cli.h.ver \in Nat \ {0}
    BY <2>1 DEF Volumes
  <2>3. [ver |-> cli.h.ver, has |-> cli.h.has] \in Anchors
    BY <2>2 DEF Anchors
  <2>4. anchor' \in [Brick -> Anchors \cup {None}]
    BY <1>5, <2>1, <2>3 DEF CliTrust, Typed
  <2>5. Typed'
    BY <1>5, <1>a, <2>4 DEF CliTrust, Typed
  <2> QED
    BY <1>5, <2>5 DEF CliTrust, Idle
<1>6. CASE CliDies
  <2>1. store' \in Stores /\ faults' \in 0 .. MaxFaults
    <3>1. CASE UNCHANGED <<store, faults>>
      BY <3>1 DEF Typed
    <3>2. CASE Fault /\ store' = Tear(store, IF cli.h = None THEN New(cli.of) ELSE cli.h)
      <4>1. (IF cli.h = None THEN New(cli.of) ELSE cli.h) \in Volumes
        BY <1>6, NewIs DEF CliDies, Typed, Jobs, Idle
      <4>2. store' \in Stores
        BY <3>2, <4>1, TornIs DEF Typed
      <4> QED
        BY <3>2, <4>2, BoundsHold DEF Fault, Typed
    <3> QED
      BY <1>6, <3>1, <3>2 DEF CliDies
  <2>2. Typed'
    BY <1>6, <1>a, <2>1 DEF CliDies, Typed
  <2> QED
    BY <1>6, <2>2 DEF CliDies, Idle
<1> QED
  BY <1>1, <1>2, <1>3, <1>4, <1>5, <1>6 DEF Command

\* Every step leaves the window, its threads and the files as they can be.
LEMMA ShapeSteps == Shape /\ [Next]_vars => Shape'
<1> SUFFICES ASSUME Shape, [Next]_vars PROVE Shape'
  OBVIOUS
<1>1. CASE Window
  BY <1>1, ShapeOfDialogs, ShapeOfTaking, ShapeOfEjecting DEF Window
<1>2. CASE UNCHANGED vars
  BY <1>2 DEF vars, Shape, Typed, ThreadsKnow, CommandKnows, WindowKnows, HeldIsShown, Knows
<1> QED
  BY <1>1, <1>2, ShapeOfThreads, ShapeOfOthers, ShapeOfCommands DEF Next

LEMMA ShapeHolds == Spec => []Shape
BY ShapeInit, ShapeSteps, PTL DEF Spec

\* The window, its threads and the files are in a state that they can be in: a
\* folder that is held is one that Eject is offered for.
THEOREM CoherentHolds == Spec => []Coherent
<1>1. Shape => Coherent
  <2> SUFFICES ASSUME Shape PROVE Coherent
    OBVIOUS
  <2> USE DEF Shape
  <2>1. \A b \in Brick : store.brick[b] # None =>
          /\ store.brick[b].has \subseteq Token /\ store.brick[b].ver \in Nat \ {0}
          /\ store.brick[b].whole \in BOOLEAN
    BY DEF Typed, Stores, Disks, Images
  <2>2. store.folder \in [Dir -> (SUBSET Token) \cup {None}]
        /\ store.cut \subseteq {d \in Dir : store.folder[d] # None}
        /\ store.harmed \subseteq Brick /\ store.undone \subseteq Edit
    BY DEF Typed, Stores, Disks
  <2>3. \A b \in Brick : anchor[b] # None =>
          anchor[b].has \subseteq Token /\ anchor[b].ver \in Nat \ {0}
    BY DEF Typed, Anchors
  <2>4. \A h \in Handles : IsHandle(h)
    <3>1. Handles \subseteq Volumes
      BY DEF Handles, Typed, Windows, Jobs
    <3> QED
      BY <3>1 DEF IsHandle, Volumes
  <2>5. /\ {win.on, win.unlocked, win.slot, win.form} \subseteq BOOLEAN
        /\ win.path \in Dir \cup {None} /\ win.ask \in Brick \cup {None}
        /\ win.tracked \in {"none", "create", "mount"}
    BY DEF Typed, Windows
  <2>6. win.tracked # "none" => job[win.tracked] # Idle
    <3>1. CASE win.tracked = "create"
      BY <3>1 DEF WindowKnows, Idle
    <3>2. CASE win.tracked = "mount"
      BY <3>2 DEF WindowKnows, Idle
    <3> QED
      BY <2>5, <3>1, <3>2
  <2>7. /\ job.create.at \in {"idle", "started", "created", "failed"}
        /\ job.mount.at \in {"idle", "started", "opened", "exporting", "ready", "validated", "failed"}
        /\ cli.at \in {"idle", "create", "rewrite", "trust"}
    BY DEF Typed, Jobs, Creating, Mounting, Commands
  <2>8. /\ ~win.on => win = Closed /\ job.create = Idle /\ job.mount = Idle
        /\ HeldIsShown
    BY DEF WindowKnows
  <2>9. /\ meant \in [Edit -> Brick \cup {None}] /\ owner \in [Dir -> Brick \cup {None}]
        /\ loose \subseteq Dir
        /\ work \in 0 .. MaxWork /\ faults \in 0 .. MaxFaults
    BY DEF Typed
  <2> QED
    BY <2>1, <2>2, <2>3, <2>4, <2>5, <2>6, <2>7, <2>8, <2>9 DEF Coherent, TypeOK
<1> QED
  BY <1>1, ShapeHolds, PTL

(***************************************************************************)
(* Whoever is to seal a folder: the window that shows it, the thread that  *)
(* exports to it or hands it over, or nobody since a fault, a crash or a   *)
(* hasty quit.                                                             *)
(***************************************************************************)

Covered(d) ==
  \/ d \in loose
  \/ win.live # None /\ Mnt(win.live.of) = d
  \/ /\ job.mount.at \in {"exporting", "ready"} /\ job.mount.h # None
     /\ Mnt(job.mount.h.of) = d

FoldersCovered == \A d \in Dir : store.folder[d] # None => Covered(d)

\* What writes files only, and leaves the window's mounts alone, opens no folder.
LEMMA CoveredIfSame ==
  ASSUME FoldersCovered, store'.folder = store.folder, loose' = loose,
         win'.live = win.live, job'.mount = job.mount
  PROVE  FoldersCovered'
BY DEF FoldersCovered, Covered

\* Whatever the window does to a mount that it holds, or that waits in the slot,
\* the mount's folder is shredded or known to be left.
LEMMA WindowCovers ==
  ASSUME Shape, FoldersCovered, Window
  PROVE  FoldersCovered'
<1> USE DEF Shape
<1>a. win.live \in Volumes \cup {None} /\ store \in Stores /\ SealLive \in Stores
  BY SealLiveIs DEF Typed, Windows
<1>b. InSlot \in Volumes \cup {None}
  BY InSlotIs
<1>1. CASE ShowForm \/ Launch \/ TakeCreated
  <2>1. win'.live = win.live /\ job'.mount = job.mount
    <3>1. CASE ShowForm
      BY <3>1 DEF ShowForm, Typed, Windows
    <3>2. CASE Launch
      BY <3>2 DEF Launch, WindowKnows, Launched, Closed
    <3>3. CASE TakeCreated
      BY <3>3 DEF TakeCreated, Typed, Windows
    <3> QED
      BY <1>1, <3>1, <3>2, <3>3
  <2> QED
    BY <1>1, <2>1, CoveredIfSame DEF ShowForm, Launch, TakeCreated
<1>2. ASSUME NEW b \in Brick, AskMount(b) \/ StartCreate(b) PROVE FoldersCovered'
  <2>1. win'.live = win.live /\ job'.mount = job.mount
    BY <1>2 DEF AskMount, StartCreate, Start, Typed, Windows
  <2> QED
    BY <1>2, <2>1, CoveredIfSame DEF AskMount, StartCreate
<1>3. CASE StartMount
  <2>1. win'.live = win.live
    BY <1>3 DEF StartMount, Typed, Windows
  <2>2. Drop(store, InSlot)
    BY <1>3 DEF StartMount
  <2>3. /\ loose \subseteq loose'
        /\ \A d \in Dir : store'.folder[d] # None =>
             store.folder[d] # None /\ (InSlot # None /\ d = Mnt(InSlot.of) => d \in loose')
    BY <1>a, <1>b, <2>2, DropIs
  <2>4. job.mount.at \notin {"exporting"}
    BY <1>3 DEF StartMount
  <2> QED
    BY <2>1, <2>3, <2>4, InSlotIs DEF FoldersCovered, Covered
<1>4. CASE TakeReady
  <2> DEFINE h == IF win.slot THEN win.live ELSE None
  <2>1. Drop(store, h)
    BY <1>4 DEF TakeReady
  <2>2. h \in Volumes \cup {None}
    BY <1>a
  <2>3. /\ loose \subseteq loose'
        /\ \A d \in Dir : store'.folder[d] # None =>
             store.folder[d] # None /\ (h # None /\ d = Mnt(h.of) => d \in loose')
    BY <1>a, <2>1, <2>2, DropIs
  <2>4. win'.live = IF win.slot THEN job.mount.h ELSE win.live
    BY <1>4 DEF TakeReady, Typed, Windows
  <2>5. job.mount.h # None <=> win.slot
    BY <1>4 DEF TakeReady, ThreadsKnow
  <2>6. ~win.slot => win.live = None
    BY <1>4 DEF TakeReady, WindowKnows
  <2>7. job.mount.at = "ready"
    BY <1>4 DEF TakeReady
  <2> QED
    BY <2>3, <2>4, <2>5, <2>6, <2>7 DEF FoldersCovered, Covered
<1>5. CASE TakeValidated
  <2>1. Drop(store, win.live)
    BY <1>5 DEF TakeValidated
  <2>2. /\ loose \subseteq loose'
        /\ \A d \in Dir : store'.folder[d] # None =>
             store.folder[d] # None /\ (win.live # None /\ d = Mnt(win.live.of) => d \in loose')
    BY <1>a, <2>1, DropIs
  <2>3. job.mount.at \notin {"exporting", "ready"}
    BY <1>5 DEF TakeValidated
  <2> QED
    BY <2>2, <2>3 DEF FoldersCovered, Covered
<1>6. ASSUME NEW k \in {"create", "mount"}, TakeFailed(k) PROVE FoldersCovered'
  <2>1. win'.live = win.live
    BY <1>6 DEF TakeFailed, Typed, Windows
  <2>2. Drop(store, InSlot)
    BY <1>6 DEF TakeFailed
  <2>3. /\ loose \subseteq loose'
        /\ \A d \in Dir : store'.folder[d] # None =>
             store.folder[d] # None /\ (InSlot # None /\ d = Mnt(InSlot.of) => d \in loose')
    BY <1>a, <1>b, <2>2, DropIs
  <2>4. job'.mount = job.mount \/ job.mount.at = "failed" \/ InSlot # None
    BY <1>6 DEF TakeFailed, Typed
  <2> QED
    BY <2>1, <2>3, <2>4, InSlotIs DEF FoldersCovered, Covered
<1>7. CASE Eject \/ Quit
  <2>1. /\ loose \subseteq loose'
        /\ \A d \in Dir : store'.folder[d] # None =>
             /\ store.folder[d] # None
             /\ win.live # None /\ d = Mnt(win.live.of) => d \in loose'
             /\ InSlot # None /\ d = Mnt(InSlot.of) => d \in loose'
        /\ Quit => Exporting \subseteq loose'
    BY <1>7, ClosingIs
  <2>2. CASE Quit
    BY <2>1, <2>2, InSlotIs, ExportingIs DEF FoldersCovered, Covered
  <2>3. CASE Eject
    <3>1. job'.mount = job.mount \/ InSlot # None
      BY <2>3 DEF Eject, SlotDropped, Typed
    <3> QED
      BY <2>1, <3>1, InSlotIs DEF FoldersCovered, Covered
  <2> QED
    BY <1>7, <2>2, <2>3
<1>8. CASE EjectFails
  <2>1. store'.folder = store.folder /\ win'.live # None /\ win'.live.of = win.live.of
    <3>1. CASE UNCHANGED <<store, win>>
      BY <1>8, <3>1 DEF EjectFails
    <3>2. CASE /\ store' = Tear(store, Imported(store, win.live))
               /\ win' = [win EXCEPT !.live = Next1(Imported(store, @))]
      <4>1. Imported(store, win.live) \in Volumes /\ Imported(store, win.live).of = win.live.of
        BY <1>8, <1>a, ImportedIs DEF EjectFails
      <4>2. Next1(Imported(store, win.live)) \in Volumes
            /\ Next1(Imported(store, win.live)).of = win.live.of
        BY <4>1, Next1Is
      <4>3. Next1(Imported(store, win.live)) # None
        BY <4>2, AssumptionsHold DEF Assumptions, NoneAssumption, Volumes
      <4>4. store'.folder = store.folder
        BY <1>a, <3>2, <4>1, TornIs
      <4> QED
        BY <3>2, <4>2, <4>3, <4>4 DEF Typed, Windows
    <3> QED
      BY <1>8, <3>1, <3>2 DEF EjectFails
  <2> QED
    BY <1>8, <2>1 DEF EjectFails, FoldersCovered, Covered
<1>9. CASE Crash
  BY <1>9 DEF Crash, FoldersCovered, Covered
<1> QED
  BY <1>1, <1>2, <1>3, <1>4, <1>5, <1>6, <1>7, <1>8, <1>9 DEF Window

\* A thread hands its folder over, or seals it if nobody waits for it.
LEMMA ThreadsCover ==
  ASSUME Shape, FoldersCovered, Threads
  PROVE  FoldersCovered'
<1> USE DEF Shape
<1>1. ASSUME NEW k \in {"create", "mount"}, Refused(k) PROVE FoldersCovered'
  <2>1. job.mount.at = "started" \/ job'.mount = job.mount
    BY <1>1 DEF Refused, Ends, Typed
  <2> QED
    BY <1>1, <2>1 DEF Refused, FoldersCovered, Covered
<1>2. CASE CreateRun \/ CreateFails
  <2>1. job.create.of \in Brick
    BY <1>2 DEF CreateRun, CreateFails, ThreadsKnow, Knows
  <2>2. New(job.create.of) \in Volumes /\ store \in Stores
    BY <2>1, NewIs DEF Typed
  <2>3. store'.folder = store.folder
    <3>1. CASE CreateRun
      BY <2>1, <2>2, <3>1, CreatedIs DEF CreateRun
    <3>2. CASE CreateFails
      BY <2>2, <3>2, TornIs DEF CreateFails
    <3> QED
      BY <1>2, <3>1, <3>2
  <2>4. job'.mount = job.mount
    BY <1>2 DEF CreateRun, CreateFails, Ends, Typed
  <2> QED
    BY <1>2, <2>3, <2>4, CoveredIfSame DEF CreateRun, CreateFails
<1>3. CASE MountOpen
  <2>1. job'.mount.at = "opened" /\ job.mount.at = "started"
    BY <1>3 DEF MountOpen, Typed
  <2>2. UNCHANGED <<store, win, loose>>
    BY <1>3 DEF MountOpen
  <2> QED
    BY <2>1, <2>2 DEF FoldersCovered, Covered
<1>4. CASE MountExport
  <2> DEFINE h == job.mount.h
  <2>1. /\ h # None /\ Mnt(h.of) \in Dir
        /\ job'.mount = [job.mount EXCEPT !.at = "exporting"]
        /\ \A d \in Dir : d # Mnt(h.of) => store'.folder[d] = store.folder[d]
    BY <1>4, ExportIs DEF Typed, Stores, Disks
  <2>2. job'.mount.at = "exporting" /\ job'.mount.h = h
    BY <2>1 DEF Typed, Jobs
  <2>3. job.mount.at = "opened" /\ UNCHANGED <<win, loose>>
    BY <1>4 DEF MountExport
  <2> QED
    BY <2>1, <2>2, <2>3 DEF FoldersCovered, Covered
<1>5. ASSUME NEW s \in Stores, HandOver(s, job.mount.h), MountAdopt \/ MountFolder,
             \A d \in Dir : s.folder[d] # None => store.folder[d] # None
      PROVE  FoldersCovered'
  <2> DEFINE h == job.mount.h
  <2>1. job.mount.at \in {"opened", "exporting"}
    BY <1>5 DEF MountAdopt, MountFolder
  <2>2. /\ h # None /\ Mnt(h.of) \in Dir
        /\ \/ /\ win.slot /\ store' = s /\ loose' = loose \ {Mnt(h.of)}
              /\ job'.mount = [job.mount EXCEPT !.at = "ready"]
           \/ /\ ~win.slot /\ loose \subseteq loose'
              /\ \A d \in Dir : store'.folder[d] # None =>
                   s.folder[d] # None /\ (d = Mnt(h.of) => d \in loose')
    BY <1>5, <2>1, HandOverIs
  <2>3. win' = win
    BY <1>5 DEF MountAdopt, MountFolder
  <2>4. CASE win.slot
    <3>1. job'.mount.at = "ready" /\ job'.mount.h = h
      BY <2>2, <2>4 DEF Typed, Jobs
    <3> QED
      BY <1>5, <2>2, <2>3, <2>4, <3>1 DEF FoldersCovered, Covered
  <2>5. CASE ~win.slot
    BY <1>5, <2>2, <2>3, <2>5 DEF FoldersCovered, Covered
  <2> QED
    BY <2>4, <2>5
<1>6. CASE MountAdopt
  <2>1. HandOver(store, job.mount.h) /\ store \in Stores
    BY <1>6 DEF MountAdopt, Typed
  <2> QED
    BY <1>5, <1>6, <2>1
<1>7. CASE MountFolder
  <2>1. /\ job.mount.h \in Volumes /\ Folder(store, job.mount.h.of) # None /\ store \in Stores
        /\ HandOver(Exported(store, job.mount.h), job.mount.h)
    BY <1>7 DEF MountFolder, Typed, Jobs, ThreadsKnow
  <2>2. /\ Exported(store, job.mount.h) \in Stores
        /\ Exported(store, job.mount.h).folder =
             [store.folder EXCEPT ![Mnt(job.mount.h.of)] =
               Folder(store, job.mount.h.of) \cup job.mount.h.has]
    BY <2>1, ExportedIs
  <2>3. \A d \in Dir : Exported(store, job.mount.h).folder[d] # None => store.folder[d] # None
    BY <2>1, <2>2 DEF Folder, Stores, Disks
  <2> QED
    BY <1>5, <1>7, <2>1, <2>2, <2>3
<1>8. CASE MountFolderFails
  <2>1. /\ loose' = loose \cup Exporting /\ UNCHANGED <<store, win>>
        /\ job.mount.at \in {"opened", "exporting"}
    BY <1>8 DEF MountFolderFails
  <2> QED
    BY <2>1, ExportingIs DEF FoldersCovered, Covered
<1> QED
  BY <1>1, <1>2, <1>3, <1>4, <1>6, <1>7, <1>8 DEF Threads

\* Others and the commands open no folder.
LEMMA OthersCover ==
  ASSUME Shape, FoldersCovered, Others \/ Command
  PROVE  FoldersCovered'
<1> USE DEF Shape
<1>1. ASSUME NEW i \in Edit, NEW d \in Dir, EditFolder(i, d) PROVE FoldersCovered'
  <2>1. \A e \in Dir : e # d => store'.folder[e] = store.folder[e]
    BY <1>1 DEF EditFolder, Typed, Stores, Disks
  <2> QED
    BY <1>1, <2>1 DEF EditFolder, FoldersCovered, Covered
<1>2. ASSUME NEW b \in Brick, Restore(b) PROVE FoldersCovered'
  <2>1. store'.folder = store.folder
    BY <1>2 DEF Restore, Typed, Stores, Disks
  <2> QED
    BY <1>2, <2>1, CoveredIfSame DEF Restore
<1>3. ASSUME NEW b \in Brick, CliCreate(b) \/ \E op \in {"rewrite", "trust"} : CliOpen(op, b)
      PROVE FoldersCovered'
  BY <1>3, CoveredIfSame DEF CliCreate, CliOpen
<1>4. CASE CliCreated \/ CliRewrite \/ CliTrust \/ CliDies
  <2>1. /\ cli.h # None => cli.h \in Volumes
        /\ cli.at = "rewrite" => cli.h # None
        /\ cli.at # "idle" => cli.of \in Brick
        /\ store \in Stores
    BY DEF Typed, Jobs, CommandKnows, Knows
  <2>2. store'.folder = store.folder
    <3>1. CASE CliCreated
      BY <2>1, <3>1, CreatedIs DEF CliCreated
    <3>2. CASE CliRewrite
      BY <2>1, <3>2, WriteIs DEF CliRewrite
    <3>3. CASE CliTrust
      BY <3>3 DEF CliTrust
    <3>4. CASE CliDies
      <4>1. CASE UNCHANGED <<store, faults>>
        BY <4>1
      <4>2. CASE store' = Tear(store, IF cli.h = None THEN New(cli.of) ELSE cli.h)
        <5>1. (IF cli.h = None THEN New(cli.of) ELSE cli.h) \in Volumes
          BY <2>1, <3>4, NewIs DEF CliDies, Idle, CommandKnows, Knows
        <5> QED
          BY <2>1, <4>2, <5>1, TornIs
      <4> QED
        BY <3>4, <4>1, <4>2 DEF CliDies
    <3> QED
      BY <1>4, <3>1, <3>2, <3>3, <3>4
  <2> QED
    BY <1>4, <2>2, CoveredIfSame DEF CliCreated, CliRewrite, CliTrust, CliDies
<1> QED
  BY <1>1, <1>2, <1>3, <1>4 DEF Others, Command

LEMMA CoveredHolds == Spec => [](Shape /\ FoldersCovered)
<1>1. Init => FoldersCovered
  BY DEF Init, FoldersCovered
<1>2. Shape /\ FoldersCovered /\ [Next]_vars => FoldersCovered'
  <2> SUFFICES ASSUME Shape, FoldersCovered, [Next]_vars PROVE FoldersCovered'
    OBVIOUS
  <2>1. CASE UNCHANGED vars
    BY <2>1, CoveredIfSame DEF vars
  <2> QED
    BY <2>1, WindowCovers, ThreadsCover, OthersCover DEF Next
<1> QED
  BY <1>1, <1>2, ShapeHolds, PTL DEF Spec

\* A window that was closed, however, has left no cleartext but where a fault, a
\* crash, an export that was going on or a hasty quit had left it.
THEOREM QuitSealsHolds == Spec => []QuitSeals
<1>1. Shape /\ FoldersCovered => QuitSeals
  BY DEF Shape, WindowKnows, FoldersCovered, Covered, QuitSeals, Closed, Idle
<1> QED
  BY <1>1, CoveredHolds, PTL

(***************************************************************************)
(* What the files hold, for volumes none of which shares its directory     *)
(* with another, and so the name mnt/ of its folder.                       *)
(***************************************************************************)

Apart == \A b \in Brick : Alone(b)

AnchorMaps == [Brick -> Anchors \cup {None}]
EditMaps   == [Edit -> Brick \cup {None}]

\* The edits in has were made to b.
Own(m, b, has) == \A x \in has : x = b \/ (x \in Edit /\ m[x] = b)

InFile(s, b, i)   == s.brick[b] # None /\ s.brick[b].whole /\ i \in s.brick[b].has
InFolder(s, b, i) == Folder(s, b) # None /\ i \in Folder(s, b)

\* EditKept, for a disk and a history of the edits.
Kept(s, m) ==
  \A i \in Edit : m[i] # None =>
    i \in s.undone \/ m[i] \in s.harmed \/ InFile(s, m[i], i) \/ InFolder(s, m[i], i)

\* A brick that nobody harmed has the edits that its anchor has, and its folder, if it
\* is a whole one, has them too.  One that was there beforehand has version 1 from there.
Intact(s, a, b) ==
  /\ s.brick[b] = None => a[b] = None
  /\ b \in Stored => b \in s.brick[b].has /\ (s.brick[b].ver = 1 => s.brick[b].has = {b})
  /\ Whole(s, b) => s.brick[b].has \subseteq Folder(s, b)
  /\ a[b] # None =>
       /\ a[b].ver <= s.brick[b].ver => a[b].has \subseteq s.brick[b].has
       /\ b \in Stored /\ a[b].ver = 1 => a[b].has = {b}

Good(s, a, m) ==
  /\ \A b \in Brick : s.brick[b] # None => Own(m, b, s.brick[b].has)
  /\ \A b \in Brick : Folder(s, b) # None => Own(m, b, Folder(s, b)) /\ s.brick[b] # None
  /\ \A b \in Stored : s.brick[b] # None
  /\ \A b \in Brick : b \notin s.harmed => Intact(s, a, b)
  /\ Kept(s, m)

\* A volume in memory is no newer than its file, and one of the same version is the same.
Behind(s, m, h) ==
  /\ Own(m, h.of, h.has) /\ s.brick[h.of] # None
  /\ h.of \notin s.harmed =>
       /\ h.ver <= s.brick[h.of].ver /\ h.has \subseteq s.brick[h.of].has
       /\ h.ver = s.brick[h.of].ver => h.has = s.brick[h.of].has
       /\ h.of \in Stored /\ h.ver = 1 => h.has = {h.of}

\* What may write a file was not opened from one that is older than the anchor.
Fresh(s, a, h) == h.of \notin s.harmed /\ a[h.of] # None => a[h.of].ver <= s.brick[h.of].ver

\* Writing g over the file that it knows loses nothing.
Fits(s, a, m, g) ==
  /\ Own(m, g.of, g.has)
  /\ g.of \notin s.harmed /\ Current(s, g) =>
       /\ s.brick[g.of] # None => s.brick[g.of].has \subseteq g.has
       /\ Whole(s, g.of) => g.has \subseteq Folder(s, g.of)
       /\ Fresh(s, a, g)

\* From one disk to another, for whoever holds a volume.
Steady(s, t, a, m) ==
  /\ Good(t, a, m)
  /\ \A h \in Volumes : Behind(s, m, h) => Behind(t, m, h)
  /\ \A h \in Volumes : Fresh(s, a, h) => Fresh(t, a, h)

\* Writing what fits, or what harms, whole or cut short over a folder that has it all.
LEMMA WritingKeeps ==
  ASSUME NEW s \in Stores, NEW t \in Stores, NEW a \in AnchorMaps, NEW m \in EditMaps,
         NEW g \in Volumes, NEW im \in Images, im.has = g.has, im.ver = g.ver + 1,
         Good(s, a, m), Own(m, g.of, g.has),
         t.brick = [s.brick EXCEPT ![g.of] = im], t.folder = s.folder, t.cut = s.cut,
         t.undone = s.undone, s.harmed \subseteq t.harmed,
         g.of \notin t.harmed =>
           Current(s, g) /\ Fits(s, a, m, g) /\ (im.whole \/ Whole(s, g.of))
  PROVE  Steady(s, t, a, m) /\ Behind(t, m, Next1(g)) /\ Fresh(t, a, Next1(g))
<1> DEFINE b == g.of
<1>1. b \in Brick /\ g.ver \in Nat /\ g.base = g.ver /\ im # None
  BY AssumptionsHold DEF Volumes, Assumptions, NoneAssumption
<1>2. t.brick[b] = im /\ \A c \in Brick : c # b => t.brick[c] = s.brick[c]
  BY <1>1 DEF Stores, Disks
<1>3. \A c \in Brick : Folder(t, c) = Folder(s, c) /\ (Whole(t, c) <=> Whole(s, c))
  BY DEF Folder, Whole
<1>4. ASSUME b \notin t.harmed
      PROVE  /\ Current(s, g) /\ b \notin s.harmed
             /\ s.brick[b] = None => g.ver = 0 /\ b \notin Stored /\ a[b] = None
             /\ s.brick[b] # None =>
                  /\ s.brick[b].ver = g.ver /\ g.ver # 0 /\ s.brick[b].has \subseteq g.has
                  /\ a[b] # None => a[b].ver <= g.ver
             /\ Whole(s, b) => g.has \subseteq Folder(s, b)
             /\ im.whole \/ Whole(s, b)
  <2>1. Current(s, g) /\ b \notin s.harmed
    BY <1>4
  <2>2. /\ s.brick[b] = None => g.ver = 0
        /\ s.brick[b] # None => s.brick[b].ver = g.ver /\ g.ver # 0
    BY <1>1, <2>1 DEF Current, Version, Stores, Disks, Images
  <2> QED
    BY <1>1, <1>4, <2>1, <2>2 DEF Fits, Fresh, Good, Intact
<1>5. \A c \in Brick : t.brick[c] # None => Own(m, c, t.brick[c].has)
  BY <1>2 DEF Good
<1>6. \A c \in Brick : c \notin t.harmed => Intact(t, a, c)
  <2>1. ASSUME NEW c \in Brick, c \notin t.harmed, c # b PROVE Intact(t, a, c)
    BY <1>2, <1>3, <2>1 DEF Good, Intact
  <2>2. ASSUME b \notin t.harmed PROVE Intact(t, a, b)
    <3>1. Intact(s, a, b)
      BY <1>1, <1>4, <2>2 DEF Good
    <3>2. b \in Stored => b \in g.has /\ g.ver # 0
      BY <1>4, <2>2, <3>1 DEF Intact
    <3>3. a[b] # None => a[b].has \subseteq g.has /\ (b \in Stored /\ a[b].ver = 1 => a[b].has = {b})
      BY <1>4, <2>2, <3>1 DEF Intact
    <3> QED
      BY <1>1, <1>2, <1>3, <1>4, <2>2, <3>2, <3>3 DEF Intact
  <2> QED
    BY <2>1, <2>2
<1>7. Kept(t, m)
  <2> SUFFICES ASSUME NEW i \in Edit, m[i] # None, i \notin t.undone, m[i] \notin t.harmed
               PROVE  InFile(t, m[i], i) \/ InFolder(t, m[i], i)
    BY DEF Kept
  <2>1. m[i] \in Brick
    BY DEF EditMaps
  <2>2. InFile(s, m[i], i) \/ InFolder(s, m[i], i)
    BY DEF Good, Kept
  <2>3. CASE InFolder(s, m[i], i)
    BY <1>3, <2>1, <2>3 DEF InFolder
  <2>4. CASE InFile(s, m[i], i) /\ m[i] # b
    BY <1>2, <2>1, <2>4 DEF InFile
  <2>5. CASE InFile(s, m[i], i) /\ m[i] = b
    <3>1. i \in g.has
      BY <1>4, <2>5 DEF InFile
    <3>2. CASE im.whole
      BY <1>1, <1>2, <2>5, <3>1, <3>2 DEF InFile
    <3>3. CASE Whole(s, b)
      BY <1>1, <1>3, <1>4, <2>5, <3>1, <3>3 DEF InFolder, Whole
    <3> QED
      BY <1>4, <2>5, <3>2, <3>3
  <2> QED
    BY <2>2, <2>3, <2>4, <2>5
<1>8. Good(t, a, m)
  BY <1>1, <1>2, <1>3, <1>5, <1>6, <1>7 DEF Good
<1>9. ASSUME NEW h \in Volumes, Behind(s, m, h) PROVE Behind(t, m, h)
  <2>1. CASE h.of # b
    BY <1>2, <1>9, <2>1 DEF Behind, Volumes
  <2>2. CASE h.of = b
    <3>1. Own(m, h.of, h.has) /\ t.brick[h.of] # None
      BY <1>1, <1>2, <1>9, <2>2 DEF Behind
    <3>2. ASSUME b \notin t.harmed
          PROVE  h.ver <= g.ver /\ h.has \subseteq g.has /\ (b \in Stored /\ h.ver = 1 => h.has = {b})
      BY <1>4, <1>9, <2>2, <3>2 DEF Behind
    <3>3. h.ver \in Nat
      BY DEF Volumes
    <3> QED
      BY <1>1, <1>2, <2>2, <3>1, <3>2, <3>3 DEF Behind
  <2> QED
    BY <2>1, <2>2
<1>10. ASSUME NEW h \in Volumes, Fresh(s, a, h) PROVE Fresh(t, a, h)
  <2>1. CASE h.of # b
    BY <1>2, <1>10, <2>1 DEF Fresh, Volumes
  <2>2. CASE h.of = b
    <3>1. ASSUME b \notin t.harmed, a[b] # None PROVE a[b].ver <= g.ver + 1
      <4>1. a[b].ver \in Nat /\ a[b].ver <= g.ver
        BY <1>1, <1>4, <3>1 DEF AnchorMaps, Anchors
      <4> QED
        BY <1>1, <4>1
    <3> QED
      BY <1>2, <2>2, <3>1 DEF Fresh
  <2> QED
    BY <2>1, <2>2
<1>11. Next1(g) \in Volumes /\ Next1(g).of = b /\ Next1(g).ver = g.ver + 1 /\ Next1(g).has = g.has
  BY Next1Is
<1>12. Behind(t, m, Next1(g))
  <2>1. ASSUME b \notin t.harmed, b \in Stored PROVE g.ver # 0
    BY <1>4, <2>1
  <2> QED
    BY <1>1, <1>2, <1>11, <2>1 DEF Behind
<1>13. Fresh(t, a, Next1(g))
  <2>1. ASSUME b \notin t.harmed, a[b] # None PROVE a[b].ver <= g.ver + 1
    <3>1. a[b].ver \in Nat /\ a[b].ver <= g.ver
      BY <1>1, <1>4, <2>1 DEF AnchorMaps, Anchors
    <3> QED
      BY <1>1, <3>1
  <2> QED
    BY <1>2, <1>11, <2>1 DEF Fresh
<1> QED
  BY <1>8, <1>9, <1>10, <1>12, <1>13 DEF Steady

\* A folder whose file holds all that it holds may go, or lose some of that.
LEMMA LosingKeeps ==
  ASSUME Apart, NEW s \in Stores, NEW t \in Stores, NEW a, NEW m \in EditMaps, NEW b \in Brick,
         NEW P, Good(s, a, m),
         t.brick = s.brick, t.harmed = s.harmed, t.undone = s.undone,
         t.folder = [s.folder EXCEPT ![Mnt(b)] = P],
         t.cut \ {Mnt(b)} = s.cut \ {Mnt(b)},
         P # None => P \in SUBSET Folder(s, b) /\ Mnt(b) \in t.cut /\ Folder(s, b) # None,
         b \notin s.harmed /\ Folder(s, b) # None =>
           s.brick[b].whole /\ Folder(s, b) \subseteq s.brick[b].has
  PROVE  Steady(s, t, a, m)
<1>1. /\ Folder(t, b) = P /\ ~Whole(t, b)
      /\ \A c \in Brick : c # b => Folder(t, c) = Folder(s, c) /\ (Whole(t, c) <=> Whole(s, c))
  <2>1. \A c \in Brick : Mnt(c) \in Dir /\ (c # b => Mnt(c) # Mnt(b))
    BY AssumptionsHold DEF Apart, Alone, Assumptions, HomeAssumption, Mnt
  <2>2. Folder(t, b) = P /\ \A c \in Brick : c # b => Folder(t, c) = Folder(s, c)
    BY <2>1 DEF Folder, Stores, Disks
  <2>3. \A c \in Brick : c # b => (Mnt(c) \in t.cut <=> Mnt(c) \in s.cut)
    BY <2>1
  <2> QED
    BY <2>2, <2>3 DEF Whole
<1>2. \A c \in Brick : c \notin t.harmed => Intact(t, a, c)
  BY <1>1 DEF Good, Intact
<1>3. Kept(t, m)
  <2> SUFFICES ASSUME NEW i \in Edit, m[i] # None, i \notin t.undone, m[i] \notin t.harmed
               PROVE  InFile(t, m[i], i) \/ InFolder(t, m[i], i)
    BY DEF Kept
  <2>1. m[i] \in Brick
    BY DEF EditMaps
  <2>2. InFile(s, m[i], i) \/ InFolder(s, m[i], i)
    BY DEF Good, Kept
  <2>3. CASE InFile(s, m[i], i)
    BY <2>3 DEF InFile
  <2>4. CASE InFolder(s, m[i], i) /\ m[i] # b
    BY <1>1, <2>1, <2>4 DEF InFolder
  <2>5. CASE InFolder(s, m[i], i) /\ m[i] = b
    BY <2>5 DEF InFolder, InFile, Good
  <2> QED
    BY <2>2, <2>3, <2>4, <2>5
<1>4. Good(t, a, m)
  BY <1>1, <1>2, <1>3 DEF Good, Own
<1>5. \A h \in Volumes : Behind(s, m, h) => Behind(t, m, h)
  BY DEF Behind
<1>6. \A h \in Volumes : Fresh(s, a, h) => Fresh(t, a, h)
  BY DEF Fresh
<1> QED
  BY <1>4, <1>5, <1>6 DEF Steady

\* Two steps on end.
LEMMA SteadyIsTransitive ==
  ASSUME NEW s, NEW t, NEW u, NEW a, NEW m, Steady(s, t, a, m), Steady(t, u, a, m)
  PROVE  Steady(s, u, a, m)
BY DEF Steady

\* What fits the file it was read from: the volume itself, what its folder holds if it
\* is a whole one, and for a file that is not there, nothing.
LEMMA Fitting ==
  ASSUME NEW s \in Stores, NEW a \in AnchorMaps, NEW m \in EditMaps, NEW h \in Volumes,
         Good(s, a, m), Behind(s, m, h), Fresh(s, a, h)
  PROVE  /\ Fits(s, a, m, h) /\ Own(m, h.of, Imported(s, h).has)
         /\ Mnt(h.of) \notin s.cut => Fits(s, a, m, Imported(s, h))
<1> DEFINE b == h.of
<1>1. b \in Brick /\ h.base = h.ver
  BY DEF Volumes
<1>2. b \notin s.harmed /\ h.base = Version(s, b) =>
        /\ h.has = s.brick[b].has
        /\ Whole(s, b) => s.brick[b].has \subseteq Folder(s, b)
  BY <1>1 DEF Version, Behind, Good, Intact
<1>3. Fits(s, a, m, h)
  BY <1>1, <1>2 DEF Fits, Current, Behind
<1>4. /\ Imported(s, h) \in Volumes /\ Imported(s, h).of = b /\ Imported(s, h).ver = h.ver
      /\ Imported(s, h).has = IF Folder(s, b) = None THEN h.has ELSE Folder(s, b)
      /\ Imported(s, h).base = h.base
  <2>1. Imported(s, h) \in Volumes
    BY ImportedIs
  <2> QED
    BY <2>1, <1>1, ImportedIs DEF Volumes
<1>5. Own(m, b, Imported(s, h).has)
  BY <1>1, <1>4 DEF Behind, Good
<1>6. ASSUME Mnt(b) \notin s.cut PROVE Fits(s, a, m, Imported(s, h))
  BY <1>1, <1>2, <1>4, <1>5, <1>6 DEF Fits, Current, Fresh, Whole
<1> QED
  BY <1>3, <1>5, <1>6

LEMMA NewFits ==
  ASSUME NEW s \in Stores, NEW a \in AnchorMaps, NEW m \in EditMaps, NEW b \in Brick,
         Good(s, a, m)
  PROVE  Fits(s, a, m, New(b))
<1>1. New(b).of = b /\ New(b).ver = 0 /\ New(b).has = {} /\ New(b).base = 0
  BY DEF New, Handle
<1>2. Current(s, New(b)) => s.brick[b] = None
  BY <1>1 DEF Current, Version, Stores, Disks, Images
<1>3. b \notin s.harmed /\ s.brick[b] = None => a[b] = None
  BY DEF Good, Intact
<1> QED
  BY <1>1, <1>2, <1>3 DEF Fits, Fresh, Own

LEMMA WriteKeeps ==
  ASSUME NEW s \in Stores, NEW a \in AnchorMaps, NEW m \in EditMaps, NEW g \in Volumes,
         Good(s, a, m), Fits(s, a, m, g)
  PROVE  /\ Steady(s, Write(s, g), a, m)
         /\ Behind(Write(s, g), m, Next1(g)) /\ Fresh(Write(s, g), a, Next1(g))
<1>1. g.of \in Brick /\ g.has \in SUBSET Token /\ g.ver \in Nat
  BY DEF Volumes
<1> DEFINE im == [has |-> g.has, ver |-> g.ver + 1, whole |-> TRUE]
<1>2. im \in Images /\ im.has = g.has /\ im.ver = g.ver + 1 /\ im.whole
  BY <1>1 DEF Images
<1>3. /\ Write(s, g) \in Stores
      /\ Write(s, g).brick = [s.brick EXCEPT ![g.of] = im]
      /\ Write(s, g).folder = s.folder /\ Write(s, g).cut = s.cut
      /\ Write(s, g).undone = s.undone /\ s.harmed \subseteq Write(s, g).harmed
      /\ g.of \notin Write(s, g).harmed => Current(s, g)
  BY WriteIs
<1>4. Own(m, g.of, g.has)
  BY DEF Fits
<1> HIDE DEF im
<1> QED
  BY <1>2, <1>3, <1>4, WritingKeeps

\* A torn write needs to fit only if it does not harm.
LEMMA TearKeeps ==
  ASSUME NEW s \in Stores, NEW a \in AnchorMaps, NEW m \in EditMaps, NEW g \in Volumes,
         Good(s, a, m), Own(m, g.of, g.has), Whole(s, g.of) => Fits(s, a, m, g)
  PROVE  /\ Steady(s, Tear(s, g), a, m)
         /\ Behind(Tear(s, g), m, Next1(g)) /\ Fresh(Tear(s, g), a, Next1(g))
<1>1. g.of \in Brick /\ g.has \in SUBSET Token /\ g.ver \in Nat
  BY DEF Volumes
<1> DEFINE im == [has |-> g.has, ver |-> g.ver + 1, whole |-> FALSE]
<1>2. im \in Images /\ im.has = g.has /\ im.ver = g.ver + 1
  BY <1>1 DEF Images
<1>3. /\ Tear(s, g) \in Stores
      /\ Tear(s, g).brick = [s.brick EXCEPT ![g.of] = im]
      /\ Tear(s, g).folder = s.folder /\ Tear(s, g).cut = s.cut
      /\ Tear(s, g).undone = s.undone /\ s.harmed \subseteq Tear(s, g).harmed
      /\ g.of \notin Tear(s, g).harmed => Current(s, g) /\ Whole(s, g.of)
  BY TornIs
<1> HIDE DEF im
<1> QED
  BY <1>2, <1>3, WritingKeeps

\* A volume that is held, by whoever may write it.
Writer(s, a, m, h) == h \in Volumes /\ Behind(s, m, h) /\ Fresh(s, a, h)

\* The write of a seal: what was imported from half a folder harms the brick.
LEMMA SealedFromKeeps ==
  ASSUME NEW s \in Stores, NEW a \in AnchorMaps, NEW m \in EditMaps, NEW h,
         Good(s, a, m), Writer(s, a, m, h)
  PROVE  LET w == SealedFrom(s, h)
             n == Next1(Imported(s, h))
         IN /\ w \in Stores /\ Steady(s, w, a, m) /\ w.folder = s.folder
            /\ n \in Volumes /\ n.of = h.of /\ Writer(w, a, m, n)
            /\ Folder(w, h.of) # None =>
                 w.brick[h.of].whole /\ Folder(w, h.of) \subseteq w.brick[h.of].has
            /\ Steady(s, Tear(s, Imported(s, h)), a, m)
            /\ Writer(Tear(s, Imported(s, h)), a, m, n)
<1> DEFINE i == Imported(s, h)
           w == SealedFrom(s, h)
           n == Next1(i)
           im == [has |-> i.has, ver |-> i.ver + 1, whole |-> TRUE]
<1>1. h \in Volumes /\ h.of \in Brick /\ Behind(s, m, h) /\ Fresh(s, a, h)
  BY DEF Writer, Volumes
<1>2. /\ i \in Volumes /\ i.of = h.of /\ i.ver = h.ver
      /\ i.has = IF Folder(s, h.of) = None THEN h.has ELSE Folder(s, h.of)
  BY <1>1, ImportedIs
<1>3. n \in Volumes /\ n.of = h.of
  BY <1>2, Next1Is
<1>4. Own(m, i.of, i.has) /\ (Mnt(h.of) \notin s.cut => Fits(s, a, m, i))
  BY <1>1, <1>2, Fitting
<1>5. im \in Images /\ im.has = i.has /\ im.ver = i.ver + 1 /\ im.whole
  BY <1>2 DEF Volumes, Images
<1>6. /\ w \in Stores /\ w.brick = [s.brick EXCEPT ![i.of] = im]
      /\ w.folder = s.folder /\ w.cut = s.cut /\ w.undone = s.undone
      /\ w.harmed =
           s.harmed \cup IF Current(s, h) /\ Mnt(h.of) \notin s.cut THEN {} ELSE {h.of}
  BY <1>1, <1>2, SealedFromIs
<1>7. Current(s, h) <=> Current(s, i)
  <2>1. i.base = h.base
    BY <1>1, <1>2 DEF Volumes
  <2> QED
    BY <1>2, <2>1 DEF Current
<1> HIDE DEF i, w, im
<1>8. Steady(s, w, a, m) /\ Behind(w, m, n) /\ Fresh(w, a, n)
  <2>1. /\ s.harmed \subseteq w.harmed
        /\ i.of \notin w.harmed => Current(s, i) /\ Fits(s, a, m, i) /\ (im.whole \/ Whole(s, i.of))
    BY <1>2, <1>4, <1>5, <1>6, <1>7
  <2> QED
    BY <1>2, <1>4, <1>5, <1>6, <2>1, WritingKeeps
<1>9. w.brick[h.of] = im
  BY <1>1, <1>2, <1>6 DEF Stores, Disks
<1>10. Folder(w, h.of) # None => w.brick[h.of].whole /\ Folder(w, h.of) \subseteq w.brick[h.of].has
  BY <1>2, <1>5, <1>6, <1>9 DEF Folder
<1>11. Steady(s, Tear(s, i), a, m) /\ Behind(Tear(s, i), m, n) /\ Fresh(Tear(s, i), a, n)
  <2>1. Whole(s, i.of) => Fits(s, a, m, i)
    BY <1>2, <1>4 DEF Whole
  <2> QED
    BY <1>2, <1>4, <2>1, TearKeeps
<1> HIDE DEF n
<1> QED
  BY <1>3, <1>6, <1>8, <1>10, <1>11 DEF Writer, i, w, n

\* Sealing keeps it all, and so does the second write of an eject.
LEMMA SealingKeeps ==
  ASSUME Apart, NEW s \in Stores, NEW a \in AnchorMaps, NEW m \in EditMaps, NEW h,
         Good(s, a, m), Writer(s, a, m, h)
  PROVE  /\ Steady(s, Sealed(s, h), a, m) /\ Steady(s, SealedTwice(s, h), a, m)
         /\ Fits(Sealed(s, h), a, m, Next1(Imported(s, h)))
         /\ Next1(Imported(s, h)) \in Volumes /\ Sealed(s, h) \in Stores
<1> DEFINE w == SealedFrom(s, h)
           n == Next1(Imported(s, h))
           t == Sealed(s, h)
<1>1. h \in Volumes /\ h.of \in Brick
  BY DEF Writer, Volumes
<1>2. /\ w \in Stores /\ Steady(s, w, a, m) /\ n \in Volumes /\ Writer(w, a, m, n)
      /\ Folder(w, h.of) # None =>
           w.brick[h.of].whole /\ Folder(w, h.of) \subseteq w.brick[h.of].has
  BY SealedFromKeeps
<1>3. t = Shredded(w, h.of)
  BY DEF Sealed
<1>4. SealedTwice(s, h) = Write(t, n)
  BY DEF SealedTwice
<1> HIDE DEF w, n, t
<1>5. /\ t \in Stores /\ t.brick = w.brick /\ t.harmed = w.harmed /\ t.undone = w.undone
      /\ t.folder = [w.folder EXCEPT ![Mnt(h.of)] = None] /\ t.cut = w.cut \ {Mnt(h.of)}
  BY <1>1, <1>2, <1>3, ShreddedIs
<1>6. Good(w, a, m)
  BY <1>2 DEF Steady
<1>7. t.cut \ {Mnt(h.of)} = w.cut \ {Mnt(h.of)}
  BY <1>5
<1>8. Steady(w, t, a, m)
  <2> DEFINE P == None
  <2>1. /\ t.folder = [w.folder EXCEPT ![Mnt(h.of)] = P]
        /\ P # None => P \in SUBSET Folder(w, h.of) /\ Mnt(h.of) \in t.cut /\ Folder(w, h.of) # None
    BY <1>5
  <2> HIDE DEF P
  <2> QED
    BY <1>1, <1>2, <1>5, <1>6, <1>7, <2>1, LosingKeeps
<1>9. Steady(s, t, a, m)
  BY <1>2, <1>8, SteadyIsTransitive
<1>10. Good(t, a, m) /\ Behind(t, m, n) /\ Fresh(t, a, n)
  BY <1>2, <1>8 DEF Steady, Writer
<1>11. Fits(t, a, m, n)
  BY <1>2, <1>5, <1>10, Fitting
<1>12. Steady(t, SealedTwice(s, h), a, m)
  BY <1>2, <1>4, <1>5, <1>10, <1>11, WriteKeeps
<1>13. Steady(s, SealedTwice(s, h), a, m)
  BY <1>9, <1>12, SteadyIsTransitive
<1> QED
  BY <1>2, <1>5, <1>9, <1>11, <1>13 DEF n, t

\* A shredding that ends early keeps it all, too, in the file.
LEMMA HalfShreddingKeeps ==
  ASSUME Apart, NEW s \in Stores, NEW a \in AnchorMaps, NEW m \in EditMaps, NEW h,
         Good(s, a, m), Writer(s, a, m, h), NEW x \in HalfShredded(s, h)
  PROVE  Steady(s, x, a, m) /\ Writer(x, a, m, Next1(Imported(s, h)))
<1> DEFINE w == SealedFrom(s, h)
           n == Next1(Imported(s, h))
<1>1. h \in Volumes /\ h.of \in Brick
  BY DEF Writer, Volumes
<1>2. /\ w \in Stores /\ Steady(s, w, a, m) /\ n \in Volumes /\ Writer(w, a, m, n)
      /\ w.folder = s.folder
      /\ Folder(w, h.of) # None =>
           w.brick[h.of].whole /\ Folder(w, h.of) \subseteq w.brick[h.of].has
  BY SealedFromKeeps
<1>3. w.cut = s.cut
  BY <1>1, SealedFromIs
<1>4. /\ x \in Stores
      /\ x.brick = w.brick /\ x.harmed = w.harmed /\ x.undone = w.undone
      /\ \/ x = w
         \/ \E P \in SUBSET Folder(s, h.of) :
              /\ Folder(s, h.of) # None /\ P # None
              /\ x.folder = [s.folder EXCEPT ![Mnt(h.of)] = P]
              /\ x.cut = s.cut \cup {Mnt(h.of)}
  <2>1. /\ x \in Stores
        /\ x.brick = SealedFrom(s, h).brick /\ x.harmed = SealedFrom(s, h).harmed
        /\ x.undone = SealedFrom(s, h).undone
        /\ \/ x = SealedFrom(s, h)
           \/ \E P \in SUBSET Folder(s, h.of) :
                /\ Folder(s, h.of) # None /\ P # None
                /\ x.folder = [s.folder EXCEPT ![Mnt(h.of)] = P]
                /\ x.cut = s.cut \cup {Mnt(h.of)}
        /\ \A d \in Dir : x.folder[d] # None => s.folder[d] # None
    BY <1>1, HalfShreddedIs
  <2> QED
    BY <2>1
<1> HIDE DEF w, n
<1>5. Good(w, a, m)
  BY <1>2 DEF Steady
<1>6. Steady(w, x, a, m)
  <2>1. CASE x = w
    BY <1>5, <2>1 DEF Steady
  <2>2. ASSUME NEW P \in SUBSET Folder(s, h.of), Folder(s, h.of) # None, P # None,
               x.folder = [s.folder EXCEPT ![Mnt(h.of)] = P],
               x.cut = s.cut \cup {Mnt(h.of)}
        PROVE  Steady(w, x, a, m)
    <3>1. Folder(w, h.of) = Folder(s, h.of)
      BY <1>2 DEF Folder
    <3>2. /\ x.folder = [w.folder EXCEPT ![Mnt(h.of)] = P]
          /\ x.cut \ {Mnt(h.of)} = w.cut \ {Mnt(h.of)}
          /\ P \in SUBSET Folder(w, h.of) /\ Mnt(h.of) \in x.cut /\ Folder(w, h.of) # None
      BY <1>2, <1>3, <2>2, <3>1
    <3> QED
      BY <1>1, <1>2, <1>4, <1>5, <3>2, LosingKeeps
  <2> QED
    BY <1>4, <2>1, <2>2
<1>7. Steady(s, x, a, m)
  BY <1>2, <1>6, SteadyIsTransitive
<1> QED
  BY <1>2, <1>6, <1>7 DEF Steady, Writer, n

\* And so does every other end of a seal.
LEMMA InterruptingKeeps ==
  ASSUME Apart, NEW s \in Stores, NEW a \in AnchorMaps, NEW m \in EditMaps, NEW h,
         Good(s, a, m), Writer(s, a, m, h), NEW x \in Interrupted(s, h)
  PROVE  Steady(s, x, a, m)
<1>1. x = Tear(s, Imported(s, h)) \/ x \in HalfShredded(s, h)
  BY DEF Interrupted
<1> QED
  BY <1>1, SealedFromKeeps, HalfShreddingKeeps

\* A mount that is dropped, sealed or not.
LEMMA DroppingKeeps ==
  ASSUME Apart, NEW s \in Stores, NEW a \in AnchorMaps, NEW m \in EditMaps, NEW h,
         Good(s, a, m), h # None => Writer(s, a, m, h)
  PROVE  /\ Steady(s, Dropped(s, h), a, m)
         /\ Drop(s, h) => Steady(s, store', a, m)
<1>1. Steady(s, s, a, m)
  BY DEF Steady
<1>2. Steady(s, Dropped(s, h), a, m)
  BY <1>1, SealingKeeps DEF Dropped
<1>3. ASSUME h # None, store' \in {s} \cup Interrupted(s, h) PROVE Steady(s, store', a, m)
  BY <1>1, <1>3, InterruptingKeeps
<1> QED
  BY <1>2, <1>3 DEF Drop

\* Creating a volume where there was none, or over one, which harms it.
LEMMA CreatingKeeps ==
  ASSUME NEW s \in Stores, NEW a \in AnchorMaps, NEW m \in EditMaps, NEW b \in Brick,
         Good(s, a, m)
  PROVE  /\ Steady(s, Created(s, b), a, m)
         /\ Good(Created(s, b), [a EXCEPT ![b] = NewAnchor], m)
         /\ \A h \in Volumes :
              Fresh(s, a, h) => Fresh(Created(s, b), [a EXCEPT ![b] = NewAnchor], h)
         /\ Steady(s, Tear(s, New(b)), a, m)
<1> DEFINE w == Write(s, New(b))
           t == Created(s, b)
           n == [a EXCEPT ![b] = NewAnchor]
<1>1. New(b) \in Volumes /\ New(b).of = b /\ Fits(s, a, m, New(b))
  BY NewIs, NewFits
<1>2. Next1(New(b)) \in Volumes /\ Next1(New(b)).of = b /\ Next1(New(b)).ver = 1
  BY <1>1, NewIs, Next1Is
<1>3. Steady(s, w, a, m) /\ Behind(w, m, Next1(New(b))) /\ Fresh(w, a, Next1(New(b)))
      /\ Steady(s, Tear(s, New(b)), a, m)
  BY <1>1, WriteKeeps, TearKeeps DEF Fits
<1>4. w \in Stores
  BY <1>1, WriteIs
<1>5. Good(w, a, m) /\ Fits(w, a, m, Next1(New(b)))
  BY <1>2, <1>3, <1>4, Fitting DEF Steady
<1>6. t = Write(w, Next1(New(b)))
  BY DEF Created
<1>7. Steady(w, t, a, m) /\ t \in Stores
  <2>1. Steady(w, Write(w, Next1(New(b))), a, m)
    BY <1>2, <1>4, <1>5, WriteKeeps
  <2>2. Write(w, Next1(New(b))) \in Stores
    BY <1>2, <1>4, WriteIs
  <2> QED
    BY <1>6, <2>1, <2>2
<1>8. Steady(s, t, a, m)
  BY <1>3, <1>7, SteadyIsTransitive
<1>9. b \notin t.harmed => s.brick[b] = None
  <2>1. w.harmed \subseteq t.harmed
    BY <1>2, <1>4, <1>6, WriteIs
  <2>2. ~Current(s, New(b)) => b \in w.harmed
    BY <1>1, WriteIs
  <2>3. Current(s, New(b)) => s.brick[b] = None
    BY DEF Current, New, Handle, Version, Stores, Disks, Images
  <2> QED
    BY <2>1, <2>2, <2>3
<1>10. t.brick[b] # None /\ t.brick[b].ver >= 1
  <2>1. t.brick[b].ver = 2 /\ t.brick[b] \in Images
    <3> DEFINE n1 == Next1(New(b))
    <3>1. t.brick = [w.brick EXCEPT ![b] =
                       [has |-> n1.has, ver |-> n1.ver + 1, whole |-> TRUE]]
      <4>1. n1 \in Volumes /\ n1.of = b /\ t = Write(w, n1) /\ w \in Stores
        BY <1>2, <1>4, <1>6
      <4> HIDE DEF n1, w, t
      <4> QED
        BY <4>1, WriteIs
    <3>2. t.brick[b] = [has |-> n1.has, ver |-> n1.ver + 1, whole |-> TRUE]
      BY <1>4, <3>1 DEF Stores, Disks
    <3>3. n1.ver + 1 = 2
      BY <1>2
    <3>4. t.brick[b].ver = 2
      BY <3>2, <3>3
    <3>5. t.brick[b] \in Images
      BY <1>2, <3>2, <3>3 DEF Volumes, Images
    <3> QED
      BY <3>4, <3>5
  <2> QED
    BY <2>1, AssumptionsHold DEF Assumptions, NoneAssumption
<1> HIDE DEF w, t
<1>11. n[b] = NewAnchor /\ \A c \in Brick : c # b => n[c] = a[c]
  BY DEF AnchorMaps
<1>12. NewAnchor # None /\ NewAnchor.ver = 1 /\ NewAnchor.has = {}
  BY NewIs, AssumptionsHold DEF NewAnchor, Assumptions, NoneAssumption
<1> HIDE DEF n
<1>13. Good(t, n, m)
  <2>1. ASSUME NEW c \in Brick, c \notin t.harmed PROVE Intact(t, n, c)
    <3>1. Intact(t, a, c)
      BY <1>8, <2>1 DEF Steady, Good
    <3>2. CASE c # b
      BY <1>11, <3>1, <3>2 DEF Intact
    <3>3. CASE c = b
      <4>1. b \notin Stored
        BY <1>9, <2>1, <3>3 DEF Good
      <4> QED
        BY <1>10, <1>11, <1>12, <3>1, <3>3, <4>1 DEF Intact
    <3> QED
      BY <3>2, <3>3
  <2> QED
    BY <1>8, <2>1 DEF Steady, Good
<1>14. ASSUME NEW h \in Volumes, Fresh(s, a, h) PROVE Fresh(t, n, h)
  <2>1. Fresh(t, a, h) /\ h.of \in Brick
    BY <1>8, <1>14 DEF Steady, Volumes
  <2> QED
    BY <1>10, <1>11, <1>12, <2>1 DEF Fresh
<1> QED
  BY <1>3, <1>8, <1>13, <1>14 DEF t, n

(***************************************************************************)
(* Every step keeps what the files, the anchors and those who hold a       *)
(* volume know of one another.                                             *)
(***************************************************************************)

Held(s, a, m, h) == h # None => Writer(s, a, m, h)

\* A folder was opened for a volume of its directory.
OwnersKnown ==
  \A d \in Dir : /\ owner[d] # None => Mnt(owner[d]) = d
                 /\ store.folder[d] # None => owner[d] # None

\* A command that trusts a volume opens it however old it is.
CommandHolds ==
  cli.h # None => /\ cli.h \in Volumes /\ Behind(store, meant, cli.h)
                  /\ cli.at = "rewrite" => Fresh(store, anchor, cli.h)

Sound ==
  /\ Good(store, anchor, meant)
  /\ OwnersKnown
  /\ Held(store, anchor, meant, win.live)
  /\ Held(store, anchor, meant, job.mount.h)
  /\ CommandHolds

\* Of whoever holds a volume, each still knows it.
LEMMA HeldKeeps ==
  ASSUME NEW s, NEW t, NEW a, NEW m, NEW h, Steady(s, t, a, m), Held(s, a, m, h)
  PROVE  Held(t, a, m, h)
BY DEF Steady, Held, Writer

\* A step of the window or of a thread that opens nothing.
LEMMA SoundAfter ==
  ASSUME Sound, Steady(store, store', anchor, meant), UNCHANGED <<anchor, meant>>,
         owner' = owner, \A d \in Dir : store'.folder[d] # None => store.folder[d] # None,
         \/ win'.live \in {None, win.live, job.mount.h}
         \/ Held(store', anchor, meant, win'.live),
         job'.mount.h \in {None, job.mount.h},
         cli' = cli \/ cli' = Idle
  PROVE  Sound'
<1>1. OwnersKnown'
  BY DEF Sound, OwnersKnown
<1>2. Held(store', anchor, meant, win'.live)
  BY HeldKeeps DEF Sound, Held
<1>3. Held(store', anchor, meant, job'.mount.h)
  BY HeldKeeps DEF Sound, Held
<1>4. CommandHolds'
  BY DEF Sound, CommandHolds, Steady, Idle
<1>5. Good(store', anchor, meant)
  BY DEF Steady
<1> QED
  BY <1>1, <1>2, <1>3, <1>4, <1>5 DEF Sound

LEMMA StandingKeeps == ASSUME Sound PROVE Steady(store, store, anchor, meant)
BY DEF Sound, Steady

\* A shredding that failed, and the second write of the eject that took no notice.
LEMMA UnshreddedKeeps ==
  ASSUME Apart, Shape, Sound, NEW left, Unshredded(left)
  PROVE  Steady(store, store', anchor, meant)
<1> DEFINE n == Next1(Imported(store, win.live))
<1>1. /\ store \in Stores /\ anchor \in AnchorMaps /\ meant \in EditMaps
      /\ win.live # None /\ Good(store, anchor, meant)
      /\ Writer(store, anchor, meant, win.live)
  BY DEF Shape, Typed, AnchorMaps, EditMaps, Unshredded, Sound, Held
<1>2. PICK x \in HalfShredded(store, win.live) : store' = Dropped(Write(x, n), InSlot)
  BY DEF Unshredded
<1>3. Held(store, anchor, meant, InSlot)
  BY InSlotIs DEF Sound, Held
<1>4. Steady(store, x, anchor, meant) /\ Writer(x, anchor, meant, n)
  BY <1>1, HalfShreddingKeeps
<1>5. x \in Stores
  BY <1>1, HalfShreddedIs DEF Writer
<1> HIDE DEF n
<1>6. Good(x, anchor, meant) /\ n \in Volumes /\ Fits(x, anchor, meant, n)
  BY <1>1, <1>4, <1>5, Fitting DEF Steady, Writer
<1> DEFINE y == Write(x, n)
<1>7. Steady(x, y, anchor, meant) /\ y \in Stores
  BY <1>1, <1>5, <1>6, WriteKeeps, WriteIs
<1> HIDE DEF y
<1>8. Steady(store, y, anchor, meant) /\ Good(y, anchor, meant)
  BY <1>4, <1>7, SteadyIsTransitive DEF Steady
<1>9. Held(y, anchor, meant, InSlot)
  BY <1>3, <1>8, HeldKeeps
<1>10. Steady(y, Dropped(y, InSlot), anchor, meant)
  BY <1>1, <1>7, <1>8, <1>9, DroppingKeeps DEF Held
<1> QED
  BY <1>2, <1>8, <1>10, SteadyIsTransitive DEF y

\* Whatever an eject or a quit seals or leaves, nothing is lost.
LEMMA ClosingKeeps ==
  ASSUME Apart, Shape, Sound, Eject \/ Quit
  PROVE  Steady(store, store', anchor, meant)
<1>a. /\ store \in Stores /\ anchor \in AnchorMaps /\ meant \in EditMaps
      /\ win.live \in Volumes \cup {None} /\ SealLive \in Stores
      /\ Good(store, anchor, meant) /\ Held(store, anchor, meant, win.live)
  BY SealLiveIs DEF Shape, Typed, Windows, AnchorMaps, EditMaps, Sound
<1>b. Held(store, anchor, meant, InSlot)
  BY InSlotIs DEF Sound, Held
<1>1. Steady(store, SealLive, anchor, meant)
  <2>1. CASE win.live = None
    BY <2>1, StandingKeeps DEF SealLive
  <2>2. CASE win.live # None
    BY <1>a, <2>2, SealingKeeps DEF SealLive, Held
  <2> QED
    BY <2>1, <2>2
<1>2. Held(SealLive, anchor, meant, InSlot) /\ Good(SealLive, anchor, meant)
  BY <1>b, <1>1, HeldKeeps DEF Steady
<1>3. ASSUME Drop(SealLive, InSlot) PROVE Steady(store, store', anchor, meant)
  <2>1. Steady(SealLive, store', anchor, meant)
    BY <1>a, <1>2, <1>3, DroppingKeeps DEF Held
  <2> QED
    BY <1>1, <2>1, SteadyIsTransitive
<1>4. ASSUME store' \in {store, SealLive} PROVE Steady(store, store', anchor, meant)
  BY <1>1, <1>4, StandingKeeps
<1>5. CASE Quit
  BY <1>3, <1>4, <1>5, UnshreddedKeeps DEF Quit
<1>6. CASE Eject
  BY <1>3, <1>6, UnshreddedKeeps DEF Eject
<1> QED
  BY <1>5, <1>6

LEMMA SoundOfWindow ==
  ASSUME Apart, Shape, Sound, Window
  PROVE  Sound'
<1> USE DEF Shape
<1>a. /\ store \in Stores /\ anchor \in AnchorMaps /\ meant \in EditMaps
      /\ win.live \in Volumes \cup {None} /\ SealLive \in Stores
  BY SealLiveIs DEF Typed, Windows, AnchorMaps, EditMaps
<1>b. Held(store, anchor, meant, InSlot)
  BY InSlotIs DEF Sound, Held
<1>c. /\ Good(store, anchor, meant) /\ Steady(store, store, anchor, meant)
      /\ Held(store, anchor, meant, win.live)
  BY StandingKeeps DEF Sound
<1>d. ASSUME NEW h \in Volumes \cup {None}, Held(store, anchor, meant, h), Drop(store, h)
      PROVE  /\ Steady(store, store', anchor, meant)
             /\ \A d \in Dir : store'.folder[d] # None => store.folder[d] # None
  BY <1>a, <1>c, <1>d, DroppingKeeps, DropIs DEF Held
<1>e. InSlot \in Volumes \cup {None}
  BY InSlotIs
<1>1. CASE ShowForm \/ Launch \/ TakeCreated
  <2>1. win'.live = win.live /\ job'.mount = job.mount
    <3>1. CASE ShowForm
      BY <3>1 DEF ShowForm, Typed, Windows
    <3>2. CASE Launch
      BY <3>2 DEF Launch, WindowKnows, Launched, Closed
    <3>3. CASE TakeCreated
      BY <3>3 DEF TakeCreated, Typed, Windows
    <3> QED
      BY <1>1, <3>1, <3>2, <3>3
  <2>2. UNCHANGED <<store, anchor, meant, owner, cli>>
    BY <1>1 DEF ShowForm, Launch, TakeCreated
  <2> QED
    BY <1>c, <2>1, <2>2, SoundAfter
<1>2. ASSUME NEW b \in Brick, AskMount(b) \/ StartCreate(b) PROVE Sound'
  <2>1. win'.live = win.live /\ job'.mount = job.mount
    BY <1>2 DEF AskMount, StartCreate, Start, Typed, Windows
  <2>2. UNCHANGED <<store, anchor, meant, owner, cli>>
    BY <1>2 DEF AskMount, StartCreate
  <2> QED
    BY <1>c, <2>1, <2>2, SoundAfter
<1>3. CASE StartMount
  <2>1. win'.live = win.live /\ job'.mount.h = None
    BY <1>3 DEF StartMount, Start, Typed, Windows
  <2>2. Drop(store, InSlot) /\ UNCHANGED <<anchor, meant, owner, cli>>
    BY <1>3 DEF StartMount
  <2> QED
    BY <1>b, <1>d, <1>e, <2>1, <2>2, SoundAfter
<1>4. CASE TakeReady
  <2> DEFINE h == IF win.slot THEN win.live ELSE None
  <2>1. win'.live \in {win.live, job.mount.h} /\ job'.mount.h = None
    BY <1>4 DEF TakeReady, Typed, Windows, Idle
  <2>2. Drop(store, h) /\ UNCHANGED <<anchor, meant, owner, cli>>
    BY <1>4 DEF TakeReady
  <2>3. h \in Volumes \cup {None} /\ Held(store, anchor, meant, h)
    BY <1>a, <1>c DEF Held
  <2> HIDE DEF h
  <2> QED
    BY <1>d, <2>1, <2>2, <2>3, SoundAfter
<1>5. CASE TakeValidated
  <2>1. win'.live = None /\ job'.mount.h = None
    BY <1>5 DEF TakeValidated, Typed, Windows, Idle
  <2>2. Drop(store, win.live) /\ UNCHANGED <<anchor, meant, owner, cli>>
    BY <1>5 DEF TakeValidated
  <2> QED
    BY <1>a, <1>c, <1>d, <2>1, <2>2, SoundAfter
<1>6. ASSUME NEW k \in {"create", "mount"}, TakeFailed(k) PROVE Sound'
  <2>1. win'.live = win.live /\ job'.mount.h \in {None, job.mount.h}
    BY <1>6 DEF TakeFailed, Typed, Windows, Idle
  <2>2. Drop(store, InSlot) /\ UNCHANGED <<anchor, meant, owner, cli>>
    BY <1>6 DEF TakeFailed
  <2> QED
    BY <1>b, <1>d, <1>e, <2>1, <2>2, SoundAfter
<1>7. CASE Eject \/ Quit
  <2>1. Steady(store, store', anchor, meant)
    BY <1>7, ClosingKeeps
  <2>2. \A d \in Dir : store'.folder[d] # None => store.folder[d] # None
    BY <1>7, ClosingIs
  <2>3. win'.live = None /\ job'.mount.h \in {None, job.mount.h}
    <3>1. CASE Quit
      BY <3>1 DEF Quit, Closed, Idle
    <3>2. CASE Eject
      <4>1. win'.live = None
        BY <3>2 DEF Eject, Ejected, Typed, Windows
      <4>2. job' = SlotDropped
        BY <3>2 DEF Eject
      <4>3. CASE InSlot = None
        BY <4>1, <4>2, <4>3 DEF SlotDropped, Typed
      <4>4. CASE InSlot # None
        BY <4>1, <4>2, <4>4 DEF SlotDropped, Typed, Jobs, Idle
      <4> QED
        BY <4>3, <4>4
    <3> QED
      BY <1>7, <3>1, <3>2
  <2>4. UNCHANGED <<anchor, meant, owner, cli>>
    BY <1>7 DEF Eject, Quit
  <2> QED
    BY <2>1, <2>2, <2>3, <2>4, SoundAfter
<1>f. ASSUME win.live # None
      PROVE  /\ win.live \in Volumes /\ Writer(store, anchor, meant, win.live)
             /\ Imported(store, win.live) \in Volumes
             /\ Next1(Imported(store, win.live)) \in Volumes
             /\ Fits(Sealed(store, win.live), anchor, meant, Next1(Imported(store, win.live)))
             /\ Steady(store, Sealed(store, win.live), anchor, meant)
             /\ Sealed(store, win.live) \in Stores
             /\ \A d \in Dir : Sealed(store, win.live).folder[d] # None => store.folder[d] # None
  <2>1. win.live \in Volumes /\ Writer(store, anchor, meant, win.live)
    BY <1>a, <1>c, <1>f DEF Held
  <2>2. \A d \in Dir : Sealed(store, win.live).folder[d] # None => store.folder[d] # None
    <3>1. Sealed(store, win.live).folder = [store.folder EXCEPT ![Mnt(win.live.of)] = None]
      BY <1>a, <2>1, SealedIs
    <3> QED
      BY <1>a, <3>1 DEF Stores, Disks
  <2>3. Imported(store, win.live) \in Volumes
    BY <1>a, <2>1, ImportedIs
  <2> QED
    BY <1>a, <1>c, <2>1, <2>2, <2>3, SealingKeeps
<1>g. ASSUME win.live # None
      PROVE  LET t == Tear(store, Imported(store, win.live))
             IN /\ Steady(store, t, anchor, meant) /\ t.folder = store.folder
                /\ Writer(t, anchor, meant, Next1(Imported(store, win.live)))
  BY <1>a, <1>c, <1>f, <1>g, SealedFromKeeps, TornIs
<1>8. CASE EjectFails
  <2>1. UNCHANGED <<anchor, job, meant, owner, cli>>
    BY <1>8 DEF EjectFails
  <2>2. CASE UNCHANGED <<store, win>>
    <3>1. store' = store /\ win'.live = win.live /\ job'.mount.h = job.mount.h
      BY <2>1, <2>2
    <3>2. Steady(store, store', anchor, meant)
      BY <1>c, <3>1
    <3> QED
      BY <2>1, <3>1, <3>2, SoundAfter
  <2>3. CASE /\ store' = Tear(store, Imported(store, win.live))
             /\ win' = [win EXCEPT !.live = Next1(Imported(store, @))]
    <3>1. win.live # None
      BY <1>8 DEF EjectFails
    <3>2. win'.live = Next1(Imported(store, win.live))
      BY <2>3 DEF Typed, Windows
    <3>3. /\ Steady(store, store', anchor, meant) /\ store'.folder = store.folder
          /\ Writer(store', anchor, meant, Next1(Imported(store, win.live)))
      BY <1>g, <2>3, <3>1
    <3>4. Held(store', anchor, meant, win'.live)
      BY <3>2, <3>3 DEF Held
    <3> QED
      BY <2>1, <3>3, <3>4, SoundAfter
  <2> QED
    BY <1>8, <2>2, <2>3 DEF EjectFails
<1>9. CASE Crash
  <2>1. win'.live = None /\ job'.mount.h = None /\ UNCHANGED <<anchor, meant, owner, cli>>
    BY <1>9 DEF Crash, Closed, Idle
  <2>2. CASE store' = store
    BY <1>c, <2>1, <2>2, SoundAfter
  <2>3. ASSUME NEW h \in {win.live, InSlot} \ {None}, store' \in Interrupted(store, h)
        PROVE  Sound'
    <3>1. h \in Volumes /\ Writer(store, anchor, meant, h)
      BY <1>a, <1>b, <1>c, <1>e DEF Held
    <3>2. Steady(store, store', anchor, meant)
      BY <1>a, <1>c, <2>3, <3>1, InterruptingKeeps
    <3>3. \A d \in Dir : store'.folder[d] # None => store.folder[d] # None
      BY <1>a, <2>3, <3>1, InterruptedIs
    <3> QED
      BY <2>1, <3>2, <3>3, SoundAfter
  <2>4. CASE /\ win.live # None
             /\ store' = Tear(Sealed(store, win.live), Next1(Imported(store, win.live)))
    <3>1. Good(Sealed(store, win.live), anchor, meant)
      BY <1>f, <2>4 DEF Steady
    <3>2. Steady(Sealed(store, win.live), store', anchor, meant)
      BY <1>a, <1>f, <2>4, <3>1, TearKeeps DEF Fits
    <3>3. Steady(store, store', anchor, meant)
      BY <1>f, <2>4, <3>2, SteadyIsTransitive
    <3>4. store'.folder = Sealed(store, win.live).folder
      BY <1>f, <2>4, TornIs
    <3> QED
      BY <1>f, <2>1, <2>4, <3>3, <3>4, SoundAfter
  <2> QED
    BY <1>9, <2>2, <2>3, <2>4 DEF Crash
<1> QED
  BY <1>1, <1>2, <1>3, <1>4, <1>5, <1>6, <1>7, <1>8, <1>9 DEF Window

\* A volume that was read from a file that opens is the same as the file.
LEMMA OpeningHolds ==
  ASSUME Shape, Sound, NEW b \in Brick, Readable(b)
  PROVE  /\ Opened(b) \in Volumes /\ Behind(store, meant, Opened(b))
         /\ IsFresh(b) => Fresh(store, anchor, Opened(b))
<1>1. /\ Opened(b) \in Volumes /\ Opened(b).of = b
      /\ Opened(b).ver = store.brick[b].ver /\ Opened(b).has = store.brick[b].has
  BY OpenedIs DEF Shape
<1>2. Opened(b).ver \in Nat
  BY <1>1 DEF Volumes
<1>3. Behind(store, meant, Opened(b))
  BY <1>1, <1>2 DEF Behind, Sound, Good, Readable, Intact
<1>4. ASSUME IsFresh(b), anchor[b] # None PROVE anchor[b].ver <= store.brick[b].ver
  BY <1>4 DEF IsFresh
<1> QED
  BY <1>1, <1>3, <1>4 DEF Fresh

\* A folder that gets content of its volume, some of it or all of it: then it is a whole
\* one, and a volume that has not read the last save is harmed.
LEMMA GainingKeeps ==
  ASSUME Apart, NEW s \in Stores, NEW t \in Stores, NEW a, NEW m \in EditMaps, NEW h,
         Good(s, a, m), Writer(s, a, m, h), NEW P,
         t.brick = s.brick, t.undone = s.undone, s.harmed \subseteq t.harmed,
         t.folder = [s.folder EXCEPT ![Mnt(h.of)] = P],
         t.cut \ {Mnt(h.of)} = s.cut \ {Mnt(h.of)},
         P # None, Own(m, h.of, P), Folder(s, h.of) # None => Folder(s, h.of) \subseteq P,
         Mnt(h.of) \notin t.cut => h.has \subseteq P /\ (h.of \notin t.harmed => Current(s, h))
  PROVE  Steady(s, t, a, m)
<1> DEFINE b == h.of
<1>1. h \in Volumes /\ b \in Brick /\ h.base = h.ver /\ Behind(s, m, h)
  BY DEF Writer, Volumes
<1>2. /\ Folder(t, b) = P /\ (Whole(t, b) <=> Mnt(b) \notin t.cut)
      /\ \A c \in Brick : c # b => Folder(t, c) = Folder(s, c) /\ (Whole(t, c) <=> Whole(s, c))
  <2>1. \A c \in Brick : Mnt(c) \in Dir /\ (c # b => Mnt(c) # Mnt(b))
    BY <1>1, AssumptionsHold DEF Apart, Alone, Assumptions, HomeAssumption, Mnt
  <2>2. Folder(t, b) = P /\ \A c \in Brick : c # b => Folder(t, c) = Folder(s, c)
    BY <1>1, <2>1 DEF Folder, Stores, Disks
  <2>3. \A c \in Brick : c # b => (Mnt(c) \in t.cut <=> Mnt(c) \in s.cut)
    BY <2>1
  <2> QED
    BY <2>2, <2>3 DEF Whole
<1>3. b \notin t.harmed /\ Mnt(b) \notin t.cut => h.has = s.brick[b].has
  BY <1>1 DEF Current, Version, Behind
<1>4. \A c \in Brick : c \notin t.harmed => Intact(t, a, c)
  BY <1>2, <1>3 DEF Good, Intact
<1>5. Kept(t, m)
  <2> SUFFICES ASSUME NEW i \in Edit, m[i] # None, i \notin t.undone, m[i] \notin t.harmed
               PROVE  InFile(t, m[i], i) \/ InFolder(t, m[i], i)
    BY DEF Kept
  <2>1. m[i] \in Brick
    BY DEF EditMaps
  <2>2. InFile(s, m[i], i) \/ InFolder(s, m[i], i)
    BY DEF Good, Kept
  <2>3. CASE InFile(s, m[i], i)
    BY <2>3 DEF InFile
  <2>4. CASE InFolder(s, m[i], i)
    BY <1>2, <2>1, <2>4 DEF InFolder
  <2> QED
    BY <2>2, <2>3, <2>4
<1>6. Good(t, a, m)
  BY <1>1, <1>2, <1>4, <1>5 DEF Good, Behind
<1>7. \A g \in Volumes : Behind(s, m, g) => Behind(t, m, g)
  BY DEF Behind
<1>8. \A g \in Volumes : Fresh(s, a, g) => Fresh(t, a, g)
  BY DEF Fresh
<1> QED
  BY <1>6, <1>7, <1>8 DEF Steady

\* What a thread has exported of a volume, in the end all of it, is content of its own.
LEMMA ExportedKeeps ==
  ASSUME Apart, Shape, Sound, job.mount.h # None, Folder(store, job.mount.h.of) # None
  PROVE  Steady(store, Exported(store, job.mount.h), anchor, meant)
<1> DEFINE h == job.mount.h
           t == Exported(store, h)
           P == Folder(store, h.of) \cup h.has
<1>1. /\ h \in Volumes /\ h.of \in Brick /\ store \in Stores /\ meant \in EditMaps
      /\ Good(store, anchor, meant) /\ Writer(store, anchor, meant, h)
  BY DEF Shape, Typed, Jobs, Volumes, EditMaps, Sound, Held
<1>2. /\ t \in Stores
      /\ t.brick = store.brick /\ t.undone = store.undone
      /\ t.folder = [store.folder EXCEPT ![Mnt(h.of)] = P]
      /\ t.cut = store.cut \ {Mnt(h.of)}
      /\ t.harmed = store.harmed \cup IF Current(store, h) THEN {} ELSE {h.of}
      /\ P # None
  BY <1>1, ExportedIs
<1>3. /\ Own(meant, h.of, P) /\ Folder(store, h.of) \subseteq P /\ h.has \subseteq P
  BY <1>1 DEF Good, Own, Writer, Behind
<1> HIDE DEF h, t, P
<1>4. /\ store.harmed \subseteq t.harmed /\ (h.of \notin t.harmed => Current(store, h))
      /\ t.cut \ {Mnt(h.of)} = store.cut \ {Mnt(h.of)}
  BY <1>2
<1>5. Steady(store, t, anchor, meant)
  BY <1>1, <1>2, <1>3, <1>4, GainingKeeps
<1> QED
  BY <1>5 DEF h, t

LEMMA ExportKeeps ==
  ASSUME Apart, Shape, Sound, MountExport
  PROVE  Steady(store, store', anchor, meant)
<1> DEFINE h == job.mount.h
<1>1. /\ h \in Volumes /\ h # None /\ h.of \in Brick /\ Mnt(h.of) \in Dir
      /\ store' \in Stores
      /\ store'.brick = store.brick /\ store'.undone = store.undone
      /\ store'.harmed = store.harmed
      /\ \E P \in SUBSET h.has :
           P # None /\ store'.folder = [store.folder EXCEPT ![Mnt(h.of)] = P]
      /\ store'.cut = store.cut \cup {Mnt(h.of)}
  BY ExportIs
<1>2. /\ store \in Stores /\ meant \in EditMaps
      /\ Good(store, anchor, meant) /\ Writer(store, anchor, meant, h)
  BY <1>1 DEF Shape, Typed, EditMaps, Sound, Held
<1>3. Folder(store, h.of) # None => Folder(store, h.of) = {}
  BY DEF MountExport, Bare
<1> HIDE DEF h
<1>4. PICK P \in SUBSET h.has :
        P # None /\ store'.folder = [store.folder EXCEPT ![Mnt(h.of)] = P]
  BY <1>1
<1>5. /\ Own(meant, h.of, P) /\ (Folder(store, h.of) # None => Folder(store, h.of) \subseteq P)
      /\ Mnt(h.of) \in store'.cut /\ store'.cut \ {Mnt(h.of)} = store.cut \ {Mnt(h.of)}
      /\ store.harmed \subseteq store'.harmed
  BY <1>1, <1>2, <1>3 DEF Own, Writer, Behind
<1> QED
  BY <1>1, <1>2, <1>4, <1>5, GainingKeeps

LEMMA SoundOfThreads ==
  ASSUME Apart, Shape, Sound, Threads
  PROVE  Sound'
<1> USE DEF Shape
<1>a. store \in Stores /\ anchor \in AnchorMaps /\ meant \in EditMaps
  BY DEF Typed, AnchorMaps, EditMaps
<1>b. Good(store, anchor, meant) /\ Steady(store, store, anchor, meant)
  BY StandingKeeps DEF Sound
<1>1. ASSUME NEW k \in {"create", "mount"}, Refused(k) PROVE Sound'
  <2>1. job'.mount.h \in {None, job.mount.h}
    BY <1>1 DEF Refused, Ends, Result, Typed, Jobs, Idle
  <2>2. UNCHANGED <<store, anchor, win, cli, meant, owner>>
    BY <1>1 DEF Refused
  <2> QED
    BY <1>b, <2>1, <2>2, SoundAfter
<1>2. CASE CreateRun
  <2>1. job.create.of \in Brick
    BY <1>2 DEF CreateRun, ThreadsKnow, Knows
  <2>2. job'.mount = job.mount
    BY <1>2 DEF CreateRun, Ends, Typed
  <2>3. /\ Good(store', anchor', meant) /\ Steady(store, store', anchor, meant)
        /\ \A h \in Volumes : Fresh(store, anchor, h) => Fresh(store', anchor', h)
    BY <1>2, <1>a, <1>b, <2>1, CreatingKeeps DEF CreateRun
  <2>4. \A h \in Volumes : Behind(store, meant, h) => Behind(store', meant, h)
    BY <2>3 DEF Steady
  <2>5. store'.folder = store.folder /\ UNCHANGED <<win, cli, meant, owner>>
    BY <1>2, <1>a, <2>1, CreatedIs DEF CreateRun
  <2> QED
    BY <2>2, <2>3, <2>4, <2>5 DEF Sound, Held, Writer, OwnersKnown, CommandHolds
<1>3. CASE CreateFails
  <2>1. job.create.of \in Brick
    BY <1>3 DEF CreateFails, ThreadsKnow, Knows
  <2>2. job'.mount = job.mount
    BY <1>3 DEF CreateFails, Ends, Typed
  <2>3. Steady(store, store', anchor, meant)
    BY <1>3, <1>a, <1>b, <2>1, CreatingKeeps DEF CreateFails
  <2>4. store'.folder = store.folder
    BY <1>3, <1>a, <2>1, NewIs, TornIs DEF CreateFails
  <2>5. UNCHANGED <<anchor, win, cli, meant, owner>>
    BY <1>3 DEF CreateFails
  <2> QED
    BY <2>2, <2>3, <2>4, <2>5, SoundAfter
<1>4. CASE MountOpen
  <2>1. job.mount.of \in Brick /\ Readable(job.mount.of) /\ IsFresh(job.mount.of)
    BY <1>4 DEF MountOpen, ThreadsKnow, Knows
  <2>2. job'.mount.h = Opened(job.mount.of)
    BY <1>4 DEF MountOpen, Typed
  <2>3. UNCHANGED <<store, anchor, win, cli, meant, owner>>
    BY <1>4 DEF MountOpen
  <2>4. Writer(store, anchor, meant, Opened(job.mount.of))
    BY <2>1, OpeningHolds DEF Writer
  <2> QED
    BY <2>2, <2>3, <2>4 DEF Sound, Held, OwnersKnown, CommandHolds
<1>5. CASE MountExport
  <2> DEFINE h == job.mount.h
  <2>1. /\ h \in Volumes /\ h # None /\ h.of \in Brick /\ Mnt(h.of) \in Dir
        /\ job'.mount = [job.mount EXCEPT !.at = "exporting"]
        /\ \A d \in Dir : d # Mnt(h.of) => store'.folder[d] = store.folder[d]
    BY <1>5, <1>a, ExportIs DEF Stores, Disks
  <2>2. UNCHANGED <<anchor, win, cli, meant>> /\ owner' = [owner EXCEPT ![Mnt(h.of)] = h.of]
    BY <1>5 DEF MountExport
  <2>3. job'.mount.h = h
    BY <2>1 DEF Typed, Jobs
  <2>4. Steady(store, store', anchor, meant)
    BY <1>5, ExportKeeps
  <2>5. OwnersKnown'
    BY <2>1, <2>2, AssumptionsHold DEF Sound, OwnersKnown, Typed, Assumptions, NoneAssumption
  <2>6. Held(store', anchor, meant, job'.mount.h) /\ Held(store', anchor, meant, win.live)
    BY <2>3, <2>4, HeldKeeps DEF Sound, Held
  <2>7. CommandHolds'
    BY <2>2, <2>4 DEF Sound, CommandHolds, Steady
  <2>8. Good(store', anchor, meant)
    BY <2>4 DEF Steady
  <2> QED
    BY <2>2, <2>5, <2>6, <2>7, <2>8 DEF Sound
<1>6. ASSUME NEW s \in Stores, Steady(store, s, anchor, meant), HandOver(s, job.mount.h),
             \A d \in Dir : s.folder[d] # None => store.folder[d] # None,
             MountAdopt \/ MountFolder
      PROVE  Sound'
  <2> DEFINE h == job.mount.h
  <2>1. job.mount.at \in {"opened", "exporting"} /\ UNCHANGED <<anchor, win, cli, meant>>
        /\ \/ owner' = owner
           \/ owner' = [owner EXCEPT ![Mnt(h.of)] = h.of]
    BY <1>6 DEF MountAdopt, MountFolder
  <2>2. /\ h \in Volumes /\ h # None /\ h.of \in Brick /\ Mnt(h.of) \in Dir
        /\ \/ win.slot /\ store' = s /\ job'.mount = [job.mount EXCEPT !.at = "ready"]
           \/ /\ ~win.slot /\ Drop(s, h) /\ job'.mount.h = None
              /\ \A d \in Dir : store'.folder[d] # None => s.folder[d] # None
    BY <1>6, <2>1, HandOverIs
  <2>3. /\ Steady(store, store', anchor, meant) /\ job'.mount.h \in {None, h}
        /\ \A d \in Dir : store'.folder[d] # None => store.folder[d] # None
    <3>1. CASE win.slot
      BY <1>6, <2>2, <3>1 DEF Typed, Jobs
    <3>2. CASE ~win.slot
      <4>1. Writer(s, anchor, meant, h) /\ Good(s, anchor, meant)
        BY <1>6, <2>2 DEF Steady, Writer, Sound, Held
      <4>2. Steady(s, store', anchor, meant)
        BY <1>a, <1>6, <2>2, <3>2, <4>1, DroppingKeeps
      <4>3. Steady(store, store', anchor, meant)
        BY <1>6, <4>2, SteadyIsTransitive
      <4> QED
        BY <1>6, <2>2, <3>2, <4>3
    <3> QED
      BY <3>1, <3>2
  <2>4. OwnersKnown'
    BY <2>1, <2>2, <2>3, AssumptionsHold
    DEF Sound, OwnersKnown, Typed, Assumptions, NoneAssumption
  <2>5. Held(store', anchor, meant, job'.mount.h) /\ Held(store', anchor, meant, win.live)
    BY <2>3, HeldKeeps DEF Sound, Held
  <2>6. CommandHolds'
    BY <2>1, <2>3 DEF Sound, CommandHolds, Steady
  <2>7. Good(store', anchor, meant)
    BY <2>3 DEF Steady
  <2> QED
    BY <2>1, <2>4, <2>5, <2>6, <2>7 DEF Sound
<1>7. CASE MountAdopt
  <2>1. HandOver(store, job.mount.h)
    BY <1>7 DEF MountAdopt
  <2> QED
    BY <1>a, <1>b, <1>6, <1>7, <2>1
<1>8. CASE MountFolder
  <2>1. /\ job.mount.h \in Volumes /\ job.mount.h # None
        /\ Folder(store, job.mount.h.of) # None
        /\ HandOver(Exported(store, job.mount.h), job.mount.h)
    BY <1>8 DEF MountFolder, Typed, Jobs, ThreadsKnow
  <2>2. /\ Exported(store, job.mount.h) \in Stores
        /\ Exported(store, job.mount.h).folder =
             [store.folder EXCEPT ![Mnt(job.mount.h.of)] =
               Folder(store, job.mount.h.of) \cup job.mount.h.has]
    BY <1>a, <2>1, ExportedIs
  <2>3. \A d \in Dir : Exported(store, job.mount.h).folder[d] # None => store.folder[d] # None
    BY <1>a, <2>1, <2>2 DEF Folder, Stores, Disks
  <2>4. Steady(store, Exported(store, job.mount.h), anchor, meant)
    BY <2>1, ExportedKeeps
  <2> QED
    BY <1>6, <1>8, <2>1, <2>2, <2>3, <2>4
<1>9. CASE MountFolderFails
  <2>1. job'.mount.h \in {None, job.mount.h}
    BY <1>9 DEF MountFolderFails, Ends, Result, Typed, Jobs, Idle
  <2>2. UNCHANGED <<store, anchor, win, cli, meant, owner>>
    BY <1>9 DEF MountFolderFails
  <2> QED
    BY <1>b, <2>1, <2>2, SoundAfter
<1> QED
  BY <1>1, <1>2, <1>3, <1>4, <1>5, <1>7, <1>8, <1>9 DEF Threads

\* An edit goes to the volume that the folder was opened for.
LEMMA SoundOfEdits ==
  ASSUME Apart, Shape, Sound, NEW i \in Edit, NEW d \in Dir, EditFolder(i, d)
  PROVE  Sound'
<1> USE DEF Shape
<1> DEFINE o == owner[d]
<1>a. /\ store \in Stores /\ anchor \in AnchorMaps /\ meant \in EditMaps
      /\ Good(store, anchor, meant) /\ Held(store, anchor, meant, win.live)
      /\ Held(store, anchor, meant, job.mount.h) /\ CommandHolds
  BY DEF Typed, AnchorMaps, EditMaps, Sound
<1>1. /\ store.folder[d] # None /\ meant[i] = None
      /\ store' = [store EXCEPT !.folder[d] = @ \cup {i}]
      /\ meant' = [meant EXCEPT ![i] = o]
      /\ UNCHANGED <<anchor, win, job, cli, owner>>
  BY DEF EditFolder
<1>2. o \in Brick /\ Mnt(o) = d
  BY <1>1 DEF Sound, OwnersKnown, Typed
<1>3. /\ store'.brick = store.brick /\ store'.harmed = store.harmed
      /\ store'.undone = store.undone
      /\ Folder(store', o) = Folder(store, o) \cup {i} /\ Folder(store, o) # None
      /\ Folder(store', o) # None
      /\ \A c \in Brick : c # o => Folder(store', c) = Folder(store, c)
      /\ store'.cut = store.cut
  <2>1. \A c \in Brick : Mnt(c) \in Dir /\ (c # o => Mnt(c) # d)
    BY <1>2, AssumptionsHold DEF Apart, Alone, Assumptions, HomeAssumption, Mnt
  <2>2. /\ store'.brick = store.brick /\ store'.harmed = store.harmed
        /\ store'.undone = store.undone /\ store'.cut = store.cut
        /\ store'.folder = [store.folder EXCEPT ![d] = store.folder[d] \cup {i}]
    BY <1>a, <1>1 DEF Stores, Disks
  <2>3. store.folder[d] \in SUBSET Token /\ i \in Token
    BY <1>a, <1>1 DEF Stores, Disks, Token
  <2>4. store.folder[d] \cup {i} # None
    BY <2>3, AssumptionsHold DEF Assumptions, NoneAssumption
  <2> QED
    BY <1>a, <1>1, <1>2, <2>1, <2>2, <2>4 DEF Folder, Stores, Disks
<1>4. meant'[i] = o /\ \A x \in Edit : x # i => meant'[x] = meant[x]
  BY <1>a, <1>1 DEF EditMaps
<1> HIDE DEF o
<1>5. \A b \in Brick : \A has : Own(meant, b, has) => Own(meant', b, has)
  BY <1>1, <1>4, AssumptionsHold DEF Own, Assumptions, NoneAssumption
<1>6. Own(meant', o, Folder(store', o))
  BY <1>a, <1>2, <1>3, <1>4, <1>5 DEF Good, Own
<1>7. \A c \in Brick : c \notin store'.harmed => Intact(store', anchor, c)
  BY <1>a, <1>2, <1>3 DEF Good, Intact, Whole
<1>8. Kept(store', meant')
  <2> SUFFICES ASSUME NEW x \in Edit, meant'[x] # None, x \notin store'.undone,
                      meant'[x] \notin store'.harmed
               PROVE  InFile(store', meant'[x], x) \/ InFolder(store', meant'[x], x)
    BY DEF Kept
  <2>1. CASE x = i
    BY <1>3, <1>4, <2>1 DEF InFolder
  <2>2. CASE x # i
    <3>1. meant'[x] = meant[x] /\ meant[x] \in Brick
      BY <1>a, <1>4, <2>2 DEF EditMaps
    <3>2. InFile(store, meant[x], x) \/ InFolder(store, meant[x], x)
      BY <1>a, <1>3, <3>1 DEF Good, Kept
    <3> QED
      BY <1>3, <3>1, <3>2 DEF InFile, InFolder
  <2> QED
    BY <2>1, <2>2
<1>9. Good(store', anchor, meant')
  BY <1>a, <1>2, <1>3, <1>5, <1>6, <1>7, <1>8, AssumptionsHold
  DEF Good, Assumptions, HomeAssumption
<1>10. \A h \in Volumes : Behind(store, meant, h) => Behind(store', meant', h)
  BY <1>3, <1>5 DEF Behind, Volumes
<1>11. \A h \in Volumes : Fresh(store, anchor, h) => Fresh(store', anchor, h)
  BY <1>3 DEF Fresh
<1>12. OwnersKnown'
  <2>1. \A e \in Dir : store'.folder[e] # None => store.folder[e] # None
    BY <1>a, <1>1 DEF Stores, Disks
  <2> QED
    BY <1>1, <2>1 DEF Sound, OwnersKnown
<1> QED
  BY <1>a, <1>1, <1>9, <1>10, <1>11, <1>12 DEF Sound, Held, Writer, CommandHolds

\* Putting back the first version undoes edits, and harms whoever holds a volume.
LEMMA SoundOfRestoring ==
  ASSUME Apart, Shape, Sound, NEW b \in Brick, Restore(b)
  PROVE  Sound'
<1> USE DEF Shape
<1> DEFINE k == store.brick[b]
<1>a. /\ store \in Stores /\ anchor \in AnchorMaps /\ meant \in EditMaps
      /\ Good(store, anchor, meant) /\ Held(store, anchor, meant, win.live)
      /\ Held(store, anchor, meant, job.mount.h) /\ CommandHolds
  BY DEF Typed, AnchorMaps, EditMaps, Sound
<1>1. b \in Stored /\ k # None /\ UNCHANGED <<anchor, win, job, cli, meant, owner>>
  BY <1>a DEF Restore, Good
<1>2. First(b) \in Images /\ First(b) # None /\ First(b).has = {b} /\ First(b).ver = 1
  <2>1. First(b) \in Images /\ First(b).has = {b} /\ First(b).ver = 1
    BY DEF First, Image, Images, Token
  <2> QED
    BY <2>1, AssumptionsHold DEF Assumptions, NoneAssumption
<1>3. /\ store'.brick = [store.brick EXCEPT ![b] = First(b)]
      /\ store'.folder = store.folder /\ store'.cut = store.cut
      /\ store'.harmed = store.harmed \cup ({h.of : h \in Handles} \cap {b})
      /\ store'.undone = store.undone \cup (k.has \cap Edit)
  <2> DEFINE harmed == store.harmed \cup ({h.of : h \in Handles} \cap {b})
             undone == store.undone \cup (k.has \cap Edit)
  <2>1. store' = [store EXCEPT !.brick[b] = First(b), !.harmed = harmed, !.undone = undone]
    BY DEF Restore
  <2> HIDE DEF harmed, undone
  <2>2. /\ store'.brick = [store.brick EXCEPT ![b] = First(b)]
        /\ store'.folder = store.folder /\ store'.cut = store.cut
        /\ store'.harmed = harmed /\ store'.undone = undone
    BY <1>a, <2>1 DEF Stores, Disks
  <2> QED
    BY <2>2 DEF harmed, undone
<1> HIDE DEF k
<1>4. /\ store'.brick[b] = First(b)
      /\ \A c \in Brick : c # b => store'.brick[c] = store.brick[c]
      /\ \A c \in Brick : Folder(store', c) = Folder(store, c)
      /\ \A c \in Brick : Whole(store', c) <=> Whole(store, c)
      /\ store.harmed \subseteq store'.harmed
      /\ \A h \in Handles : h.of = b => b \in store'.harmed
  BY <1>a, <1>3 DEF Stores, Disks, Folder, Whole
<1>5. Own(meant, b, {b})
  BY DEF Own
<1>6. ASSUME NEW c \in Brick, c \notin store'.harmed PROVE Intact(store', anchor, c)
  <2>1. Intact(store, anchor, c)
    BY <1>a, <1>4, <1>6 DEF Good
  <2>2. CASE c # b
    BY <1>4, <2>1, <2>2 DEF Intact
  <2>3. CASE c = b
    <3>1. b \in k.has /\ (Whole(store, b) => b \in Folder(store, b))
      BY <1>1, <2>1, <2>3 DEF Intact, k
    <3>2. anchor[b] # None =>
            /\ anchor[b].ver <= 1 => anchor[b].has = {b}
            /\ anchor[b].ver = 1 => anchor[b].has = {b}
      BY <1>a, <1>1, <2>1, <2>3 DEF Intact, AnchorMaps, Anchors
    <3> QED
      BY <1>1, <1>2, <1>4, <2>3, <3>1, <3>2 DEF Intact
  <2> QED
    BY <2>2, <2>3
<1>7. Kept(store', meant)
  <2> SUFFICES ASSUME NEW x \in Edit, meant[x] # None, x \notin store'.undone,
                      meant[x] \notin store'.harmed
               PROVE  InFile(store', meant[x], x) \/ InFolder(store', meant[x], x)
    BY DEF Kept
  <2>1. meant[x] \in Brick /\ (InFile(store, meant[x], x) \/ InFolder(store, meant[x], x))
    BY <1>a, <1>3 DEF EditMaps, Good, Kept
  <2>2. InFile(store, meant[x], x) => meant[x] # b
    BY <1>3 DEF InFile, k
  <2> QED
    BY <1>4, <2>1, <2>2 DEF InFile, InFolder
<1>8. Good(store', anchor, meant)
  BY <1>a, <1>1, <1>2, <1>4, <1>5, <1>6, <1>7, AssumptionsHold
  DEF Good, Assumptions, HomeAssumption
<1>9. ASSUME NEW h \in Volumes, h \in Handles, Behind(store, meant, h) PROVE Behind(store', meant, h)
  <2>1. CASE h.of # b
    BY <1>4, <1>9, <2>1 DEF Behind, Volumes
  <2>2. CASE h.of = b
    BY <1>2, <1>4, <1>9, <2>2 DEF Behind
  <2> QED
    BY <2>1, <2>2
<1>10. ASSUME NEW h \in Volumes, h \in Handles, Fresh(store, anchor, h)
       PROVE  Fresh(store', anchor, h)
  <2>1. CASE h.of # b
    BY <1>4, <1>10, <2>1 DEF Fresh, Volumes
  <2>2. CASE h.of = b
    BY <1>4, <1>10, <2>2 DEF Fresh
  <2> QED
    BY <2>1, <2>2
<1>11. OwnersKnown'
  BY <1>1, <1>3 DEF Sound, OwnersKnown
<1>12. \A h \in {win.live, job.mount.h, cli.h} : h # None => h \in Handles
  BY DEF Handles
<1> QED
  BY <1>a, <1>1, <1>8, <1>9, <1>10, <1>11, <1>12 DEF Sound, Held, Writer, CommandHolds

LEMMA SoundOfCommands ==
  ASSUME Apart, Shape, Sound, Command
  PROVE  Sound'
<1> USE DEF Shape
<1>a. store \in Stores /\ anchor \in AnchorMaps /\ meant \in EditMaps
  BY DEF Typed, AnchorMaps, EditMaps
<1>b. Good(store, anchor, meant) /\ Steady(store, store, anchor, meant)
  BY StandingKeeps DEF Sound
<1>1. ASSUME NEW b \in Brick, CliCreate(b) PROVE Sound'
  BY <1>1 DEF CliCreate, Sound, OwnersKnown, CommandHolds
<1>2. ASSUME NEW b \in Brick, NEW op \in {"rewrite", "trust"}, CliOpen(op, b) PROVE Sound'
  <2>1. /\ Opened(b) \in Volumes /\ Behind(store, meant, Opened(b))
        /\ op = "rewrite" => Fresh(store, anchor, Opened(b))
    BY <1>2, OpeningHolds DEF CliOpen
  <2>2. cli'.h = Opened(b) /\ cli'.at = op /\ UNCHANGED <<store, anchor, win, job, meant, owner>>
    BY <1>2 DEF CliOpen
  <2>3. CommandHolds'
    BY <2>1, <2>2 DEF CommandHolds
  <2> QED
    BY <2>2, <2>3 DEF Sound, OwnersKnown
<1>3. CASE CliCreated
  <2>1. cli.of \in Brick
    BY <1>3 DEF CliCreated, CommandKnows, Knows
  <2>2. /\ Good(store', anchor', meant) /\ Steady(store, store', anchor, meant)
        /\ \A h \in Volumes : Fresh(store, anchor, h) => Fresh(store', anchor', h)
    BY <1>3, <1>a, <1>b, <2>1, CreatingKeeps DEF CliCreated
  <2>3. \A h \in Volumes : Behind(store, meant, h) => Behind(store', meant, h)
    BY <2>2 DEF Steady
  <2>4. store'.folder = store.folder /\ UNCHANGED <<win, job, meant, owner>> /\ cli'.h = None
    BY <1>3, <1>a, <2>1, CreatedIs DEF CliCreated, Idle
  <2> QED
    BY <2>2, <2>3, <2>4 DEF Sound, Held, Writer, OwnersKnown, CommandHolds
<1>4. CASE CliRewrite
  <2>1. cli.h \in Volumes /\ Behind(store, meant, cli.h) /\ Fresh(store, anchor, cli.h)
    BY <1>4 DEF CliRewrite, CommandKnows, Sound, CommandHolds
  <2>2. Fits(store, anchor, meant, cli.h)
    BY <1>a, <1>b, <2>1, Fitting
  <2>3. Steady(store, store', anchor, meant)
    BY <1>4, <1>a, <1>b, <2>1, <2>2, WriteKeeps DEF CliRewrite
  <2>4. store'.folder = store.folder
    BY <1>4, <1>a, <2>1, WriteIs DEF CliRewrite
  <2>5. UNCHANGED <<anchor, win, job, meant, owner>> /\ cli' = Idle
    BY <1>4 DEF CliRewrite
  <2> QED
    BY <2>3, <2>4, <2>5, SoundAfter
<1>5. CASE CliTrust
  <2> DEFINE h == cli.h
             b == h.of
  <2>1. /\ h \in Volumes /\ h.ver # 0 /\ Behind(store, meant, h) /\ b \in Brick
        /\ b = cli.of
    BY <1>5 DEF CliTrust, CommandKnows, Sound, CommandHolds, Volumes
  <2>2. /\ anchor'[b] = [ver |-> h.ver, has |-> h.has]
        /\ \A c \in Brick : c # b => anchor'[c] = anchor[c]
        /\ UNCHANGED <<store, win, job, meant, owner>> /\ cli'.h = None
    BY <1>5, <1>a, <2>1 DEF CliTrust, AnchorMaps, Idle
  <2> HIDE DEF h
  <2>3. ASSUME NEW c \in Brick, c \notin store.harmed PROVE Intact(store, anchor', c)
    <3>1. Intact(store, anchor, c)
      BY <1>b, <2>3 DEF Good
    <3>2. CASE c # b
      BY <2>2, <3>1, <3>2 DEF Intact
    <3>3. CASE c = b
      BY <2>1, <2>2, <2>3, <3>1, <3>3 DEF Intact, Behind
    <3> QED
      BY <3>2, <3>3
  <2>4. Good(store, anchor', meant)
    BY <1>b, <2>3 DEF Good
  <2>5. ASSUME NEW g \in Volumes, Fresh(store, anchor, g) PROVE Fresh(store, anchor', g)
    <3>1. CASE g.of # b
      BY <2>2, <2>5, <3>1 DEF Fresh, Volumes
    <3>2. CASE g.of = b
      BY <2>1, <2>2, <3>2 DEF Fresh, Behind
    <3> QED
      BY <3>1, <3>2
  <2> QED
    BY <2>2, <2>4, <2>5 DEF Sound, Held, Writer, OwnersKnown, CommandHolds
<1>6. CASE CliDies
  <2>1. UNCHANGED <<anchor, win, job, meant, owner>> /\ cli' = Idle
    BY <1>6 DEF CliDies
  <2>2. CASE UNCHANGED <<store, faults>>
    BY <1>b, <2>1, <2>2, SoundAfter
  <2>3. CASE cli.at # "trust" /\ cli.h = None /\ store' = Tear(store, New(cli.of))
    <3>1. cli.of \in Brick
      BY <1>6 DEF CliDies, CommandKnows, Knows
    <3>2. Steady(store, store', anchor, meant)
      BY <1>a, <1>b, <2>3, <3>1, CreatingKeeps
    <3>3. store'.folder = store.folder
      BY <1>a, <2>3, <3>1, NewIs, TornIs
    <3> QED
      BY <2>1, <3>2, <3>3, SoundAfter
  <2>4. CASE cli.at # "trust" /\ cli.h # None /\ store' = Tear(store, cli.h)
    <3>1. cli.h \in Volumes /\ Behind(store, meant, cli.h) /\ Fresh(store, anchor, cli.h)
      BY <2>4 DEF CommandKnows, Sound, CommandHolds
    <3>2. Fits(store, anchor, meant, cli.h)
      BY <1>a, <1>b, <3>1, Fitting
    <3>3. Steady(store, store', anchor, meant)
      BY <1>a, <1>b, <2>4, <3>1, <3>2, TearKeeps DEF Fits
    <3>4. store'.folder = store.folder
      BY <1>a, <2>4, <3>1, TornIs
    <3> QED
      BY <2>1, <3>3, <3>4, SoundAfter
  <2> QED
    BY <1>6, <2>2, <2>3, <2>4 DEF CliDies
<1> QED
  BY <1>1, <1>2, <1>3, <1>4, <1>5, <1>6 DEF Command

LEMMA SoundInit == ASSUME Init PROVE Sound
<1>1. /\ store.harmed = {}
      /\ \A b \in Brick : store.brick[b] = (IF b \in Stored THEN First(b) ELSE None)
      /\ \A d \in Dir : store.folder[d] = None
      /\ \A b \in Brick : anchor[b] = None
      /\ \A i \in Edit : meant[i] = None
      /\ \A d \in Dir : owner[d] = None
      /\ win.live = None /\ job.mount.h = None /\ cli.h = None
  BY DEF Init, Launched, Closed, Idle
<1>2. \A b \in Brick : Folder(store, b) = None
  BY <1>1, AssumptionsHold DEF Folder, Assumptions, HomeAssumption, Mnt
<1>3. \A b \in Brick : First(b) # None /\ First(b).has = {b} /\ First(b).ver = 1
  <2>1. \A b \in Brick : First(b) \in Images /\ First(b).has = {b} /\ First(b).ver = 1
    BY DEF First, Image, Images, Token
  <2> QED
    BY <2>1, AssumptionsHold DEF Assumptions, NoneAssumption
<1>4. Good(store, anchor, meant)
  BY <1>1, <1>2, <1>3, AssumptionsHold
  DEF Good, Intact, Whole, Kept, Own, Assumptions, HomeAssumption
<1> QED
  BY <1>1, <1>4 DEF Sound, OwnersKnown, Held, CommandHolds

LEMMA SoundHolds == ASSUME Apart PROVE Spec => [](Shape /\ Sound)
<1>1. Init => Sound
  BY SoundInit
<1>2. Shape /\ Sound /\ [Next]_vars => Sound'
  <2> SUFFICES ASSUME Shape, Sound, [Next]_vars PROVE Sound'
    OBVIOUS
  <2>1. CASE UNCHANGED vars
    BY <2>1 DEF vars, Sound, OwnersKnown, CommandHolds
  <2>2. CASE Others
    BY <2>2, SoundOfEdits, SoundOfRestoring DEF Others
  <2> QED
    BY <2>1, <2>2, SoundOfWindow, SoundOfThreads, SoundOfCommands DEF Next
<1> QED
  BY <1>1, <1>2, ShapeHolds, PTL DEF Spec

\* No volume gets what another holds, whatever threads, windows and commands do
\* to volumes of which each has its directory for itself.
THEOREM OwnContentHolds == ASSUME Apart PROVE Spec => []OwnContent
<1>1. Sound => OwnContent
  BY DEF Sound, Good, Own, OwnContent
<1> QED
  BY <1>1, SoundHolds, PTL

\* An edit made in a volume's folder stays in the folder or in the volume, unless the
\* brick was harmed (written by one who had not read its last save, torn with no whole
\* folder beside it, or sealed from half a folder) or an older one put back.
THEOREM EditKeptHolds == ASSUME Apart PROVE Spec => []EditKept
<1>1. Shape /\ Sound => EditKept
  BY DEF Sound, Good, Kept, InFile, InFolder, EditKept, Readable
<1> QED
  BY <1>1, SoundHolds, PTL

\* A volume opens with all that it had when this device last trusted it, unless it was
\* harmed in one of these ways.
THEOREM OpensWhatIsTrustedHolds == ASSUME Apart PROVE Spec => OpensWhatIsTrusted
<1> DEFINE Opens ==
      \A b \in Brick :
        job'.mount.at = "opened" /\ job.mount.at = "started" /\ job'.mount.of = b
          /\ anchor[b] # None /\ b \notin store.harmed
        => anchor[b].has \subseteq job'.mount.h.has
<1>1. Shape /\ Sound /\ [Next]_vars => [Opens]_vars
  <2> SUFFICES ASSUME Shape, Sound, Next, NEW b \in Brick,
                      job'.mount.at = "opened", job.mount.at = "started", job'.mount.of = b,
                      anchor[b] # None, b \notin store.harmed
               PROVE  anchor[b].has \subseteq job'.mount.h.has
    OBVIOUS
  <2>1. MountOpen
    <3> USE DEF Shape, Typed
    <3>1. ASSUME Window PROVE FALSE
      <4>1. job'.mount \notin {job.mount, Idle}
        BY DEF Idle
      <4>2. StartMount => job'.mount.at = "started"
        BY DEF StartMount, Start
      <4>3. ~TakeReady /\ ~TakeValidated
        BY DEF TakeReady, TakeValidated
      <4>4. ~\E k \in {"create", "mount"} : TakeFailed(k)
        BY <4>1 DEF TakeFailed
      <4>5. ~TakeCreated
        BY <4>1 DEF TakeCreated
      <4>6. ~Quit /\ ~Crash
        BY <4>1 DEF Quit, Crash
      <4>7. ASSUME Eject PROVE FALSE
        <5>1. job' = SlotDropped
          BY <4>7 DEF Eject
        <5>2. InSlot = None
          BY InSlotIs
        <5> QED
          BY <4>1, <5>1, <5>2 DEF SlotDropped
      <4>8. ~ShowForm /\ ~EjectFails /\ ~Launch /\ ~\E c \in Brick : AskMount(c)
        BY <4>1 DEF ShowForm, EjectFails, Launch, AskMount
      <4>9. ~\E c \in Brick : StartCreate(c)
        BY <4>1 DEF StartCreate, Start
      <4> QED
        BY <3>1, <4>2, <4>3, <4>4, <4>5, <4>6, <4>7, <4>8, <4>9 DEF Window
    <3>2. ASSUME Others \/ Command PROVE FALSE
      BY <3>2 DEF Others, EditFolder, Restore, Command, CliCreate, CliOpen, CliCreated,
         CliRewrite, CliTrust, CliDies
    <3>3. ~\E k \in {"create", "mount"} : Refused(k)
      <4> SUFFICES ASSUME NEW k \in {"create", "mount"}, Refused(k) PROVE FALSE
        OBVIOUS
      <4>1. k = "create" => job'.mount = job.mount
        BY DEF Refused, Ends
      <4>2. k = "mount" => job'.mount = Result("mount", "failed")
        BY DEF Refused, Ends
      <4>3. Result("mount", "failed").at \in {"failed", "idle"}
        BY DEF Result, Jobs, Idle
      <4> QED
        BY <4>1, <4>2, <4>3
    <3>4. ~CreateRun /\ ~CreateFails
      BY DEF CreateRun, CreateFails, Ends
    <3>5. ~MountAdopt /\ ~MountExport /\ ~MountFolder /\ ~MountFolderFails
      BY DEF MountAdopt, MountExport, MountFolder, MountFolderFails
    <3> QED
      BY <3>1, <3>2, <3>3, <3>4, <3>5 DEF Next, Threads
  <2>2. /\ job.mount.of \in Brick /\ Readable(job.mount.of) /\ IsFresh(job.mount.of)
        /\ job'.mount.h = Opened(job.mount.of) /\ job'.mount.of = job.mount.of
    BY <2>1 DEF MountOpen, Shape, ThreadsKnow, Knows, Typed
  <2>3. job'.mount.h.has = store.brick[b].has /\ anchor[b].ver <= store.brick[b].ver
    BY <2>2, OpenedIs DEF Shape, IsFresh
  <2> QED
    BY <2>3 DEF Sound, Good, Intact
<1> QED
  BY <1>1, SoundHolds, PTL DEF Spec, OpensWhatIsTrusted
=============================================================================
