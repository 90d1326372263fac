----------------------------- MODULE Workspace -----------------------------
(***************************************************************************)
(* Volumes on a local disk and those who open them (UC-25, UC-26): the     *)
(* window's workspace, with its dialogs, the threads that create a volume  *)
(* or open its folder, unlocking another volume, ejecting and quitting;    *)
(* the commands that create, rewrite and trust a volume; and the freshness *)
(* anchor.  No lock is taken: every open volume is a copy in memory, and   *)
(* saving writes the file where it is.                                     *)
(*                                                                         *)
(* The content of a volume is the set of the edits it holds.  An action is *)
(* a frame of the window, a step of a thread or of a command; what a save  *)
(* reads, writes and shreds is one step, unless a failure or a crash parts *)
(* it; an export takes several, since the window can be closed meanwhile.  *)
(* The folder is the cleartext one (FUSE is FuseMount's matter, paths, and *)
(* edits while a folder is imported or shredded, are FolderMount's, and    *)
(* volumes of a sync folder are WorkingCopy's).                            *)
(***************************************************************************)
EXTENDS Naturals, FiniteSets

CONSTANTS
  Brick,     \* where volume files are
  Dir,       \* the directories
  Home,      \* which brick lies in which directory
  Stored,    \* the bricks that exist beforehand
  None,
  MaxEdits, MaxWork, MaxFaults   \* bounds: edits, jobs and commands, faults

ASSUME HomeAssumption   == Home \in [Brick -> Dir] /\ Stored \subseteq Brick
ASSUME BoundsAssumption == {MaxEdits, MaxWork, MaxFaults} \subseteq Nat

VARIABLES
  store,    \* the disk: bricks and folders (and, as history, the folders that
            \* are not whole, bricks that were harmed, and edits that were undone)
  anchor,   \* what this device last trusted of each brick
  win,      \* the window
  job,      \* its threads
  cli,      \* a command
  meant,    \* history: the brick that an edit was made to
  owner,    \* history: the brick that a folder was opened for
  loose,    \* history: folders that a fault, a crash or a hasty quit left, and
            \* that nobody has opened since
  work, faults

vars == <<store, anchor, win, job, cli, meant, owner, loose, work, faults>>

Edit  == 1 .. MaxEdits
Token == Edit \cup Brick   \* a brick stands for what it held beforehand

\* A volume in memory: base is the version of the file that it last read or wrote.
Handle(b, has, ver) == [of |-> b, has |-> has, ver |-> ver, base |-> ver]
Image(has, ver)     == [has |-> has, ver |-> ver, whole |-> TRUE]
First(b)            == Image({b}, 1)

\* What is on the disk of a volume, and what is trusted of one.
Images  == [has : SUBSET Token, ver : Nat \ {0}, whole : BOOLEAN]
Anchors == [has : SUBSET Token, ver : Nat \ {0}]

\* Edits are none of the bricks, and None is nothing else.
ASSUME TokenAssumption == Brick \cap Edit = {}
ASSUME NoneAssumption  ==
  /\ None \notin Brick \cup Dir
  /\ (\A has \in SUBSET Token : has # None) /\ None \notin Images /\ None \notin Anchors
  /\ None \notin [of : Brick, has : SUBSET Token, ver : Nat, base : Nat]

Idle   == [at |-> "idle", of |-> None, h |-> None]
Closed == [on |-> FALSE, live |-> None, path |-> None, unlocked |-> FALSE,
           slot |-> FALSE, tracked |-> "none", ask |-> None, form |-> FALSE]
Launched == [Closed EXCEPT !.on = TRUE]

\* Mutant: one folder for all volumes.
MntShared(b) == CHOOSE d \in Dir : TRUE

\* The folder of a volume: mnt/ beside its file.
Mnt(b) == Home[b]

Folder(s, b) == s.folder[Mnt(b)]

Handles == {h \in {win.live, job.mount.h, cli.h} : h # None}

IsHandle(h) ==
  /\ h.of \in Brick /\ h.has \subseteq Token
  /\ h.base \in Nat /\ h.ver \in Nat /\ h.base <= h.ver

TypeOK ==
  /\ \A b \in Brick : store.brick[b] # None =>
       /\ store.brick[b].has \subseteq Token /\ store.brick[b].ver \in Nat \ {0}
       /\ store.brick[b].whole \in BOOLEAN
  /\ store.folder \in [Dir -> (SUBSET Token) \cup {None}]
  /\ store.cut \subseteq {d \in Dir : store.folder[d] # None}
  /\ store.harmed \subseteq Brick /\ store.undone \subseteq Edit
  /\ \A b \in Brick : anchor[b] # None =>
       anchor[b].has \subseteq Token /\ anchor[b].ver \in Nat \ {0}
  /\ {win.on, win.unlocked, win.slot, win.form} \subseteq BOOLEAN
  /\ win.path \in Dir \cup {None} /\ win.ask \in Brick \cup {None}
  /\ win.tracked \in {"none", "create", "mount"}
  /\ win.tracked # "none" => job[win.tracked] # Idle
  /\ job.create.at \in {"idle", "started", "created", "failed"}
  /\ job.mount.at \in {"idle", "started", "opened", "exporting", "ready", "validated", "failed"}
  /\ cli.at \in {"idle", "create", "rewrite", "trust"}
  /\ \A h \in Handles : IsHandle(h)
  /\ ~win.on => win = Closed /\ job.create = Idle /\ job.mount = Idle
  /\ meant \in [Edit -> Brick \cup {None}] /\ owner \in [Dir -> Brick \cup {None}]
  /\ loose \subseteq Dir
  /\ work \in 0 .. MaxWork /\ faults \in 0 .. MaxFaults

Init ==
  /\ store = [brick  |-> [b \in Brick |-> IF b \in Stored THEN First(b) ELSE None],
              folder |-> [d \in Dir |-> None], cut |-> {},
              harmed |-> {}, undone |-> {}]
  /\ anchor = [b \in Brick |-> None]
  /\ win = Launched
  /\ job = [create |-> Idle, mount |-> Idle]
  /\ cli = Idle
  /\ meant = [i \in Edit |-> None] /\ owner = [d \in Dir |-> None]
  /\ loose = {}
  /\ work = 0 /\ faults = 0

Fault == faults < MaxFaults /\ faults' = faults + 1
Work  == work < MaxWork /\ work' = work + 1

(***************************************************************************)
(* Saving and opening a volume.                                            *)
(***************************************************************************)

\* Version 0 is no file.
Version(s, b) == IF s.brick[b] = None THEN 0 ELSE s.brick[b].ver

Next1(h) == Handle(h.of, h.has, h.ver + 1)

Current(s, h) == h.base = Version(s, h.of)

\* persist and write_file_secure: the next version over whatever the file is.
\* A brick is harmed by a volume that has not read its last save.
Rewritten(s, h, whole, sound) ==
  [s EXCEPT !.brick[h.of] = [has |-> h.has, ver |-> h.ver + 1, whole |-> whole],
            !.harmed = @ \cup IF sound THEN {} ELSE {h.of}]

Write(s, h) == Rewritten(s, h, TRUE, Current(s, h))

\* A folder that has all of its volume, which one that was exported or shredded in
\* part has not.
Whole(s, b) == Folder(s, b) # None /\ Mnt(b) \notin s.cut

\* Where the write is cut short, the brick is harmed also if what it had is in no folder.
Tear(s, h) == Rewritten(s, h, FALSE, Current(s, h) /\ Whole(s, h.of))

\* import_tree: what the folder holds; a folder that is missing changes nothing.
Imported(s, h) == IF Folder(s, h.of) = None THEN h ELSE [h EXCEPT !.has = Folder(s, h.of)]

\* What is not in the folder is removed from the volume: half a folder harms it.
SealedFrom(s, h) ==
  Rewritten(s, Imported(s, h), TRUE, Current(s, h) /\ Mnt(h.of) \notin s.cut)

Shredded(s, b) == [s EXCEPT !.folder[Mnt(b)] = None, !.cut = @ \ {Mnt(b)}]

\* Mutant: the folder is shredded, and what it held is not imported.
SealedStale(s, h) == Shredded(Write(s, h), h.of)

\* Drop of a folder: import, sync, shred.
Sealed(s, h) == Shredded(SealedFrom(s, h), h.of)

\* Eject closes the volume once more, which writes it a second time.
SealedTwice(s, h) == Write(Sealed(s, h), Next1(Imported(s, h)))

Dropped(s, h) == IF h = None THEN s ELSE Sealed(s, h)

\* shred_dir zeroes file after file and removes them in the end, and ignores errors.
HalfShredded(s, h) ==
  LET w == SealedFrom(s, h)
  IN IF Folder(s, h.of) = None THEN {}
     ELSE {w} \cup {[w EXCEPT !.folder[Mnt(h.of)] = P, !.cut = @ \cup {Mnt(h.of)}] :
                      P \in (SUBSET Folder(s, h.of)) \ {Folder(s, h.of)}}

\* What a seal may leave that does not come to its end: the write may have torn the file.
Interrupted(s, h) == {Tear(s, Imported(s, h))} \cup HalfShredded(s, h)

\* A mount is dropped, or there is none.  If importing, writing or shredding fails,
\* the folder stays; the threads that the process takes with it count as failing.
Drop(s, h) ==
  \/ /\ store' = Dropped(s, h)
     /\ UNCHANGED <<loose, faults>>
  \/ /\ h # None
     /\ store' \in {s} \cup Interrupted(s, h)
     /\ loose' = loose \cup {Mnt(h.of)}
     /\ Fault

\* Mutant: an older version passes, only a fork of the same version does not.
IsFreshForked(b) ==
  anchor[b] # None /\ store.brick[b].ver = anchor[b].ver => store.brick[b].has = anchor[b].has

\* verify_fresh: not older than what is trusted, and no fork of the same version.
IsFresh(b) ==
  anchor[b] # None =>
    /\ store.brick[b].ver >= anchor[b].ver
    /\ (store.brick[b].ver = anchor[b].ver => store.brick[b].has = anchor[b].has)

\* open_inner: a torn file does not authenticate.
Readable(b) == store.brick[b] # None /\ store.brick[b].whole
Opened(b)   == Handle(b, store.brick[b].has, store.brick[b].ver)

\* Volume::create saves version 1, trusts it, and closing it saves version 2.
New(b)        == Handle(b, {}, 0)
Created(s, b) == Write(Write(s, New(b)), Next1(New(b)))
NewAnchor     == [ver |-> 1, has |-> {}]

(***************************************************************************)
(* The window.                                                             *)
(***************************************************************************)

UI == win.on

\* job_running: until a frame has taken the result of the thread.
Busy == win.tracked # "none"

\* A volume is chosen, or dropped on the window; also while a folder is open.
AskMount(b) ==
  /\ UI /\ ~Busy
  /\ store.brick[b] # None
  /\ win' = [win EXCEPT !.ask = b]
  /\ UNCHANGED <<store, anchor, job, cli, meant, owner, loose, work, faults>>

ShowForm ==
  /\ UI /\ ~Busy /\ ~win.unlocked /\ ~win.form
  /\ win' = [win EXCEPT !.form = TRUE]
  /\ UNCHANGED <<store, anchor, job, cli, meant, owner, loose, work, faults>>

Start(k, b) ==
  /\ job' = [job EXCEPT ![k] = [at |-> "started", of |-> b, h |-> None]]
  /\ Work

\* The other dialog may have a thread running, whose result is then not awaited.
StartCreate(b) ==
  /\ UI /\ win.form
  /\ store.brick[b] = None
  /\ job.create = Idle   \* bound: one thread that creates
  /\ Start("create", b)
  /\ win' = [win EXCEPT !.form = FALSE, !.tracked = "create"]
  /\ UNCHANGED <<store, anchor, cli, meant, owner, loose, faults>>

\* A mount whose thread was not awaited is in the slot, and is dropped with it.
InSlot == IF win.slot /\ job.mount.at = "ready" THEN job.mount.h ELSE None

StartMount ==
  /\ UI /\ win.ask # None
  /\ job.mount.at \in {"idle", "ready"}   \* bound: one thread that mounts
  /\ Start("mount", win.ask)
  /\ win' = [win EXCEPT !.ask = None, !.tracked = "mount", !.slot = TRUE]
  /\ Drop(store, InSlot)
  /\ UNCHANGED <<anchor, cli, meant, owner>>

\* The frame that takes a result: a folder that was handed over replaces the one
\* that is open, which is dropped.  After an eject there is nothing to take.
TakeReady ==
  /\ UI /\ win.tracked = "mount" /\ job.mount.at = "ready"
  /\ win' = [win EXCEPT !.tracked = "none", !.slot = FALSE, !.unlocked = TRUE,
                        !.path = Mnt(job.mount.of),
                        !.live = IF win.slot THEN job.mount.h ELSE @]
  /\ Drop(store, IF win.slot THEN win.live ELSE None)
  /\ job' = [job EXCEPT !.mount = Idle]
  /\ UNCHANGED <<anchor, cli, meant, owner, work>>

\* Mutant: the folder that is open is kept, but no longer shown.
TakeValidatedKeeping ==
  /\ UI /\ win.tracked = "mount" /\ job.mount.at = "validated"
  /\ win' = [win EXCEPT !.tracked = "none", !.unlocked = TRUE, !.path = None]
  /\ job' = [job EXCEPT !.mount = Idle]
  /\ UNCHANGED <<store, anchor, cli, meant, owner, loose, work, faults>>

\* The volume opened, its folder did not.
TakeValidated ==
  /\ UI /\ win.tracked = "mount" /\ job.mount.at = "validated"
  /\ win' = [win EXCEPT !.tracked = "none", !.unlocked = TRUE, !.path = None, !.live = None]
  /\ Drop(store, win.live)
  /\ job' = [job EXCEPT !.mount = Idle]
  /\ UNCHANGED <<anchor, cli, meant, owner, work>>

TakeCreated ==
  /\ UI /\ win.tracked = "create" /\ job.create.at = "created"
  /\ win' = [win EXCEPT !.tracked = "none", !.unlocked = TRUE]
  /\ job' = [job EXCEPT !.create = Idle]
  /\ UNCHANGED <<store, anchor, cli, meant, owner, loose, work, faults>>

\* An error gives up the slot, too.
TakeFailed(k) ==
  /\ UI /\ win.tracked = k /\ job[k].at = "failed"
  /\ win' = [win EXCEPT !.tracked = "none", !.slot = FALSE]
  /\ Drop(store, InSlot)
  /\ job' = [job EXCEPT ![k] = Idle, !.mount = IF k = "mount" \/ InSlot # None THEN Idle ELSE @]
  /\ UNCHANGED <<anchor, cli, meant, owner, work>>

\* What a successful eject leaves of the window.
Ejected == [win EXCEPT !.live = None, !.path = None, !.slot = FALSE, !.unlocked = FALSE]

\* seal, without which the rest of eject is not reached.
SealLive == IF win.live = None THEN store ELSE SealedTwice(store, win.live)

\* The folder could not be shredded, of which eject is told nothing.
Unshredded(left) ==
  /\ win.live # None
  /\ \E s \in HalfShredded(store, win.live) :
       store' = Dropped(Write(s, Next1(Imported(store, win.live))), InSlot)
  /\ loose' = loose \cup left \cup {Mnt(win.live.of)}
  /\ Fault

SlotDropped == [job EXCEPT !.mount = IF InSlot = None THEN @
                                     ELSE IF win.tracked = "mount" THEN [@ EXCEPT !.h = None] ELSE Idle]

Eject ==
  /\ UI /\ win.unlocked
  /\ win' = Ejected
  /\ job' = SlotDropped
  /\ Drop(SealLive, InSlot) \/ Unshredded({})
  /\ UNCHANGED <<anchor, cli, meant, owner, work>>

\* The mount stays as it is, with what it has imported; the file may be torn.
EjectFails ==
  /\ UI /\ win.unlocked /\ win.live # None
  /\ \/ UNCHANGED <<store, win>>
     \/ /\ store' = Tear(store, Imported(store, win.live))
        /\ win' = [win EXCEPT !.live = Next1(Imported(store, @))]
  /\ Fault
  /\ UNCHANGED <<anchor, job, cli, meant, owner, loose, work>>

\* Mutant: a close that could not be sealed is not cancelled.
QuitAnyway ==
  /\ UI
  /\ win' = Closed /\ job' = [create |-> Idle, mount |-> Idle]
  /\ store' = IF win.live # None /\ Folder(store, win.live.of) # None THEN store ELSE SealLive
  /\ UNCHANGED <<anchor, cli, meant, owner, loose, work, faults>>

\* The folder that a thread is exporting to.
Exporting == IF job.mount.at = "exporting" THEN {Mnt(job.mount.h.of)} ELSE {}

\* The close button ejects first what the window knows to be open, and is
\* cancelled while that fails.  Running threads end with the process, an export in
\* the middle of it; a mount that only the slot knows is dropped, or ends with it, too.
Quit ==
  /\ UI
  /\ win' = Closed /\ job' = [create |-> Idle, mount |-> Idle]
  /\ \/ Exporting = {} /\ Drop(SealLive, InSlot)
     \/ Unshredded(Exporting)
     \/ /\ Exporting # {}
        /\ store' = SealLive /\ loose' = loose \cup Exporting
        /\ UNCHANGED faults
     \/ /\ win.live = None /\ win.path = None /\ InSlot # None
        /\ loose' = loose \cup {Mnt(InSlot.of)}
        /\ UNCHANGED <<store, faults>>
  /\ UNCHANGED <<anchor, cli, meant, owner, work>>

\* The process is killed; in the middle of an eject, the first write, the shredding
\* or the second write is cut short.
Crash ==
  /\ UI /\ Fault
  /\ win' = Closed /\ job' = [create |-> Idle, mount |-> Idle]
  /\ \/ store' = store
     \/ \E h \in {win.live, InSlot} \ {None} : store' \in Interrupted(store, h)
     \/ /\ win.live # None
        /\ store' = Tear(Sealed(store, win.live), Next1(Imported(store, win.live)))
  /\ loose' = {d \in Dir : store'.folder[d] # None}
  /\ UNCHANGED <<anchor, cli, meant, owner, work>>

Launch ==
  /\ ~win.on
  /\ win' = Launched
  /\ UNCHANGED <<store, anchor, job, cli, meant, owner, loose, work, faults>>

(***************************************************************************)
(* The threads.  The flag that cancels one is looked at once, at first.    *)
(***************************************************************************)

\* What an awaited thread leaves for the window.
Result(k, at) == IF win.tracked = k THEN [job[k] EXCEPT !.at = at, !.h = None] ELSE Idle

Ends(k, at) == job' = [job EXCEPT ![k] = Result(k, at)]

\* Cancelled, a wrong passphrase, an unreadable keyfile, or whatever refuses the file.
Refused(k) ==
  /\ job[k].at = "started"
  /\ Ends(k, "failed")
  /\ UNCHANGED <<store, anchor, win, cli, meant, owner, loose, work, faults>>

CreateRun ==
  /\ job.create.at = "started"
  /\ store' = Created(store, job.create.of)
  /\ anchor' = [anchor EXCEPT ![job.create.of] = NewAnchor]
  /\ Ends("create", "created")
  /\ UNCHANGED <<win, cli, meant, owner, loose, work, faults>>

CreateFails ==
  /\ job.create.at = "started" /\ Fault
  /\ store' = Tear(store, New(job.create.of))
  /\ Ends("create", "failed")
  /\ UNCHANGED <<anchor, win, cli, meant, owner, loose, work>>

MountOpen ==
  LET b == job.mount.of
  IN /\ job.mount.at = "started"
     /\ Readable(b) /\ IsFresh(b)
     /\ job' = [job EXCEPT !.mount = [at |-> "opened", of |-> b, h |-> Opened(b)]]
     /\ UNCHANGED <<store, anchor, win, cli, meant, owner, loose, work, faults>>

\* open_or_adopt: a folder that has something in it is taken as it is, one that an
\* export or a shredding left behind, too.
Bare(s, b) == Folder(s, b) = None \/ (Folder(s, b) = {} /\ Whole(s, b))

\* The mount is handed over; if the window has given up the slot, it ends here.
HandOver(s, h) ==
  IF win.slot
  THEN /\ store' = s /\ loose' = loose \ {Mnt(h.of)}
       /\ job' = [job EXCEPT !.mount.at = "ready"]
       /\ UNCHANGED faults
  ELSE Drop(s, h) /\ Ends("mount", "ready")

MountAdopt ==
  LET h == job.mount.h
  IN /\ job.mount.at = "opened" /\ ~Bare(store, h.of)
     /\ HandOver(store, h)
     /\ owner' = [owner EXCEPT ![Mnt(h.of)] = h.of]
     /\ UNCHANGED <<anchor, win, cli, meant, work>>

\* export_tree has come so far that some of the volume is in the folder, or the
\* beginning of a file; a folder with nothing in it is as none.
MountExport ==
  LET h == job.mount.h
  IN /\ job.mount.at = "opened" /\ Bare(store, h.of)
     /\ \E P \in SUBSET h.has :
          store' = [store EXCEPT !.folder[Mnt(h.of)] = P, !.cut = @ \cup {Mnt(h.of)}]
     /\ owner' = [owner EXCEPT ![Mnt(h.of)] = h.of]
     /\ job' = [job EXCEPT !.mount.at = "exporting"]
     /\ UNCHANGED <<anchor, win, cli, meant, loose, work, faults>>

\* A volume that has not read the last save exports one that will undo it.
Exported(s, h) ==
  [s EXCEPT !.folder[Mnt(h.of)] = @ \cup h.has, !.cut = @ \ {Mnt(h.of)},
            !.harmed = @ \cup IF Current(s, h) THEN {} ELSE {h.of}]

MountFolder ==
  LET h == job.mount.h
  IN /\ job.mount.at = "exporting" /\ Folder(store, h.of) # None
     /\ HandOver(Exported(store, h), h)
     /\ UNCHANGED <<anchor, win, cli, meant, owner, work>>

\* What was exported is left, and the volume is not.  Where the folder is gone, an
\* export fails by itself.
MountFolderFails ==
  /\ job.mount.at \in {"opened", "exporting"}
  /\ Ends("mount", "validated")
  /\ loose' = loose \cup Exporting
  /\ \/ Fault
     \/ Exporting # {} /\ Folder(store, job.mount.h.of) = None /\ UNCHANGED faults
  /\ UNCHANGED <<store, anchor, win, cli, meant, owner, work>>

(***************************************************************************)
(* Programs that edit an open or a left folder, and one that puts an older *)
(* copy of a volume back.                                                  *)
(***************************************************************************)

EditFolder(i, d) ==
  /\ store.folder[d] # None
  /\ meant[i] = None /\ \A j \in Edit : j < i => meant[j] # None
  /\ store' = [store EXCEPT !.folder[d] = @ \cup {i}]
  /\ meant' = [meant EXCEPT ![i] = owner[d]]
  /\ UNCHANGED <<anchor, win, job, cli, owner, loose, work, faults>>

\* Under a volume that is open, it is as if it had been overwritten.
Restore(b) ==
  /\ b \in Stored /\ Fault
  /\ store' = [store EXCEPT !.brick[b] = First(b),
                            !.harmed = @ \cup ({h.of : h \in Handles} \cap {b}),
                            !.undone = @ \cup (store.brick[b].has \cap Edit)]
  /\ UNCHANGED <<anchor, win, job, cli, meant, owner, loose, work>>

(***************************************************************************)
(* Commands.  Another process; the passphrase is asked for in between.     *)
(***************************************************************************)

CliCreate(b) ==
  /\ cli = Idle /\ Work
  /\ store.brick[b] = None
  /\ cli' = [at |-> "create", of |-> b, h |-> None]
  /\ UNCHANGED <<store, anchor, win, job, meant, owner, loose, faults>>

\* trust-anchor opens a volume whatever the anchor says.
CliOpen(op, b) ==
  /\ cli = Idle /\ Work
  /\ Readable(b) /\ (op # "trust" => IsFresh(b))
  /\ cli' = [at |-> op, of |-> b, h |-> Opened(b)]
  /\ UNCHANGED <<store, anchor, win, job, meant, owner, loose, faults>>

CliCreated ==
  /\ cli.at = "create"
  /\ store' = Created(store, cli.of)
  /\ anchor' = [anchor EXCEPT ![cli.of] = NewAnchor]
  /\ cli' = Idle
  /\ UNCHANGED <<win, job, meant, owner, loose, work, faults>>

\* resize and upgrade-kdf.
CliRewrite ==
  /\ cli.at = "rewrite"
  /\ store' = Write(store, cli.h)
  /\ cli' = Idle
  /\ UNCHANGED <<anchor, win, job, meant, owner, loose, work, faults>>

CliTrust ==
  /\ cli.at = "trust"
  /\ anchor' = [anchor EXCEPT ![cli.of] = [ver |-> cli.h.ver, has |-> cli.h.has]]
  /\ cli' = Idle
  /\ UNCHANGED <<store, win, job, meant, owner, loose, work, faults>>

\* The command ends before it has done anything, or amid its write.
CliDies ==
  /\ cli # Idle
  /\ \/ UNCHANGED <<store, faults>>
     \/ /\ cli.at # "trust" /\ Fault
        /\ store' = Tear(store, IF cli.h = None THEN New(cli.of) ELSE cli.h)
  /\ cli' = Idle
  /\ UNCHANGED <<anchor, win, job, meant, owner, loose, work>>

Window ==
  \/ ShowForm \/ StartMount \/ TakeReady \/ TakeValidated \/ TakeCreated
  \/ Eject \/ EjectFails \/ Quit \/ Crash \/ Launch
  \/ \E b \in Brick : AskMount(b) \/ StartCreate(b)
  \/ \E k \in {"create", "mount"} : TakeFailed(k)

Threads ==
  \/ CreateRun \/ CreateFails \/ MountOpen
  \/ MountAdopt \/ MountExport \/ MountFolder \/ MountFolderFails
  \/ \E k \in {"create", "mount"} : Refused(k)

Others ==
  \/ \E i \in Edit, d \in Dir : EditFolder(i, d)
  \/ \E b \in Brick : Restore(b)

Command ==
  \/ CliCreated \/ CliRewrite \/ CliTrust \/ CliDies
  \/ \E b \in Brick : CliCreate(b) \/ \E op \in {"rewrite", "trust"} : CliOpen(op, b)

Next == Window \/ Threads \/ Others \/ Command

Spec == Init /\ [][Next]_vars

(***************************************************************************)
(* Properties.                                                             *)
(***************************************************************************)

\* A brick that has its directory for itself.
Alone(b) == \A c \in Brick : Mnt(c) = Mnt(b) => c = b

\* An edit made in a volume's folder is in the folder or in the volume, however it
\* was opened, replaced by another, ejected, dropped or left by a crash, unless the
\* file was written by one who had not read its last save, was torn with no whole
\* folder beside it, was sealed from half a folder (an export that failed, or that a
\* quit or a crash ended, leaves one, and so does a shredding; the next unlock takes
\* it for the volume), or was put back by hand.
EditKept ==
  \A i \in Edit : meant[i] # None =>
    LET b == meant[i]
    IN \/ i \in store.undone
       \/ Readable(b) /\ i \in store.brick[b].has
       \/ Folder(store, b) # None /\ i \in Folder(store, b)
       \/ b \in store.harmed

\* No volume gets what another holds, by whatever folder or thread.
OwnContent ==
  \A b \in Brick : store.brick[b] # None =>
    \A x \in store.brick[b].has : x = b \/ (x \in Edit /\ meant[x] = b)

\* A folder that the window holds is one it shows: Eject is offered, and so quitting
\* seals it.
HeldIsShown == win.live # None => win.unlocked /\ win.path = Mnt(win.live.of)

\* The window, its threads and the files are in a state that they can be in.
Coherent == TypeOK /\ HeldIsShown

\* A window that was closed has left no cleartext, but where a fault had left it,
\* where a thread was still exporting it, or was about to have it shown; and not
\* where a later unlock has taken over what was left.
QuitSeals == ~win.on => \A d \in Dir : store.folder[d] # None => d \in loose

\* A volume that opens has everything that it had when this device last trusted it,
\* unless it was harmed: written by one who had not read its last save, torn with no
\* whole folder beside it, or sealed from half a folder.
OpensWhatIsTrusted ==
  [][\A b \in Brick :
       job'.mount.at = "opened" /\ job.mount.at = "started" /\ job'.mount.of = b
         /\ anchor[b] # None /\ b \notin store.harmed
       => anchor[b].has \subseteq job'.mount.h.has]_vars

=============================================================================
