---------------------------- MODULE WorkingCopy ----------------------------
(***************************************************************************)
(* The volume working copy (UC-30): a closed brick is copied out of a      *)
(* folder that some sync client owns, edited as a cleartext tree beside    *)
(* the copy, sealed back into the copy and put back over the sync-folder   *)
(* brick.  crates/blindkey-core/src/volume/working_copy.rs holds the       *)
(* session; the order in which mounting, sealing and check-in follow each  *)
(* other is that of crates/blindkey-gui/src/volume_gui.rs, which mounts    *)
(* the copy as a cleartext folder or, where it can, with FUSE.             *)
(*                                                                         *)
(* One process works on each session; the processes of different sessions, *)
(* the sync client and crashes interleave at every file-system operation.  *)
(* Everything a crash keeps is in `source', `temps', `litter' and the      *)
(* session directory (`phase', `fp', `brick', `tree').  What goes wrong in *)
(* a behaviour (a crash, an I/O error, a remote write) is counted and      *)
(* bounded by MaxFaults.                                                   *)
(***************************************************************************)
EXTENDS Naturals

CONSTANTS
  Session,   \* ids of session directories under volumes/work
  Fuse,      \* those whose process can mount with FUSE
  Content,   \* byte contents a whole .vltd can have
  Inode,     \* inode numbers the sync folder hands out
  Torn,      \* a brick whose in-place rewrite was cut short
  Missing,   \* no file there, or the placeholder of an evicted one
  None,      \* no value
  MaxFaults  \* bound on crashes, I/O errors and remote writes

ASSUME FuseAssumption    == Fuse \subseteq Session
ASSUME ContentAssumption == {Torn, Missing, None} \cap Content = {}
ASSUME MarkerAssumption  == Torn # Missing /\ Torn # None /\ Missing # None
ASSUME PhaseAssumption   == None \notin {"copied", "mounted", "unmounted", "checkin"}
ASSUME InodeAssumption   == Inode # {}
ASSUME FaultsAssumption  == MaxFaults \in Nat

VARIABLES
  source,    \* the brick in the sync folder: its bytes and its inode
  temps,     \* the .bk-checkin.tmp a process is writing, per session
  litter,    \* a .bk-checkin.tmp that no process holds any more is there
  phase,     \* the phase in state.json; None: there is no state.json
  fp,        \* the outer fingerprint taken at checkout
  brick,     \* bytes of the session's brick.vltd
  tree,      \* the cleartext folder mnt/ beside it
  pc,        \* where the session's process is
  used,      \* contents that occurred so far (sealing never repeats one)
  raced,     \* history: sessions whose matching re-hash of source is outdated
  unsaved,   \* history: edits that are neither delivered nor discarded
  carrier,   \* history: the brick content that holds all of those edits
  maimed,    \* history: sessions that adopted a tree that was not whole
  dropped,   \* history: sessions whose discard was interrupted
  faults     \* what went wrong so far

disk == <<phase, fp, brick, tree>>
sync == <<source, temps, litter>>
hist == <<used, raced, unsaved, carrier, maimed, dropped>>
vars == <<source, temps, litter, phase, fp, brick, tree, pc,
          used, raced, unsaved, carrier, maimed, dropped, faults>>

Phases == {"copied", "mounted", "unmounted", "checkin"}
\* No folder; an empty one; some of the files; all of them; all, and edited.
Trees  == {"none", "empty", "partial", "clean", "dirty"}
Steps  == {"new", "gone", "idle", "copying", "verify", "held", "exporting",
           "opened", "mounted", "sealing", "shredding", "unmounting",
           "served", "serving", "syncing", "flushing",
           "guard", "assert", "stage", "recheck", "replace",
           "e8check", "e8stage", "e8replace", "remove", "discard"}

File == [bytes : Content \cup {Torn, Missing}, ino : Inode]

TypeOK ==
  /\ source \in File
  /\ temps \in [Session -> Content \cup {Torn, None}]
  /\ litter \in BOOLEAN
  /\ phase \in [Session -> Phases \cup {None}]
  /\ fp \in [Session -> File \cup {None}]
  /\ brick \in [Session -> Content \cup {Torn, None}]
  /\ tree \in [Session -> Trees]
  /\ pc \in [Session -> Steps]
  /\ used \subseteq Content
  /\ raced \subseteq Session
  /\ unsaved \in [Session -> BOOLEAN]
  /\ carrier \in [Session -> Content \cup {None}]
  /\ maimed \subseteq Session
  /\ dropped \subseteq Session
  /\ faults \in 0 .. MaxFaults

Init ==
  /\ source \in [bytes : Content, ino : Inode]
  /\ temps = [s \in Session |-> None]
  /\ litter = FALSE
  /\ phase = [s \in Session |-> None]
  /\ fp = [s \in Session |-> None]
  /\ brick = [s \in Session |-> None]
  /\ tree = [s \in Session |-> "none"]
  /\ pc = [s \in Session |-> "new"]
  /\ used = {source.bytes}
  /\ raced = {}
  /\ unsaved = [s \in Session |-> FALSE]
  /\ carrier = [s \in Session |-> None]
  /\ maimed = {}
  /\ dropped = {}
  /\ faults = 0

Go(s, from, to) == pc[s] = from /\ pc' = [pc EXCEPT ![s] = to]

Fault == faults < MaxFaults /\ faults' = faults + 1

\* A failure that the state explains is not counted.
FaultUnless(cause) == IF cause THEN UNCHANGED faults ELSE Fault

\* Mutant: the inode is not compared, so a replaced brick may go unnoticed.
SourceUnchangedByHash(s) == fp[s] # None /\ source.bytes = fp[s].bytes

\* assert_source_unchanged: size, hash, device and inode all as at checkout.
SourceUnchanged(s) == source = fp[s]

(***************************************************************************)
(* Checkout.  A checkout that is refused before it made the directory      *)
(* leaves nothing behind and is no step.  Session ids are random, so an id *)
(* is used once.                                                           *)
(***************************************************************************)

\* assert_hydrated_for_checkout, the magic and the idle probe; they also refuse
\* beside a temporary of the sync client, which may be there at any time.
Hydrated == source.bytes # Missing

CheckoutHash(s) ==
  /\ Go(s, "new", "copying")
  /\ Hydrated
  /\ fp' = [fp EXCEPT ![s] = source]
  /\ UNCHANGED <<sync, phase, brick, tree, hist, faults>>

\* Mutant: a brick that was evicted since it was hashed is copied all the same.
CheckoutCopyUnchecked(s) ==
  /\ Go(s, "copying", "verify")
  /\ brick' = [brick EXCEPT ![s] = source.bytes]
  /\ UNCHANGED <<sync, phase, fp, tree, hist, faults>>

\* The copy, then the second hash; the source may change before, between and
\* after.  A failed copy or a changed source takes the directory away.
CheckoutCopy(s) ==
  /\ source.bytes # Missing
  /\ Go(s, "copying", "verify")
  /\ brick' = [brick EXCEPT ![s] = source.bytes]
  /\ UNCHANGED <<sync, phase, fp, tree, hist, faults>>

CheckoutCopyFails(s) ==
  /\ Go(s, "copying", "gone")
  /\ fp' = [fp EXCEPT ![s] = None]
  /\ FaultUnless(source.bytes = Missing)
  /\ UNCHANGED <<sync, phase, brick, tree, hist>>

\* set_phase / write_sidecar: a temporary, fsync, rename.
SetPhase(s, p) == phase' = [phase EXCEPT ![s] = p]

\* Mutant: the sidecar is left to the first phase change.
CheckoutVerifyOnly(s) ==
  /\ Go(s, "verify", "held")
  /\ source.bytes = fp[s].bytes
  /\ UNCHANGED <<sync, disk, hist, faults>>

CheckoutVerify(s) ==
  /\ Go(s, "verify", "held")
  /\ source.bytes = fp[s].bytes
  /\ SetPhase(s, "copied")
  /\ UNCHANGED <<sync, fp, brick, tree, hist, faults>>

CheckoutChanged(s) ==
  /\ Go(s, "verify", "gone")
  /\ source.bytes # fp[s].bytes
  /\ brick' = [brick EXCEPT ![s] = None]
  /\ fp' = [fp EXCEPT ![s] = None]
  /\ UNCHANGED <<sync, phase, tree, hist, faults>>

(***************************************************************************)
(* Mount, edit, seal (the cleartext folder).                               *)
(***************************************************************************)

\* open_or_adopt without a folder or with an empty one: Volume::open succeeded,
\* the folder is made anew and the export starts.
MountExport(s) ==
  /\ Go(s, "held", "exporting")
  /\ brick[s] \in Content
  /\ tree[s] \in {"none", "empty"}
  /\ tree' = [tree EXCEPT ![s] = "empty"]
  /\ UNCHANGED <<sync, phase, fp, brick, hist, faults>>

ExportFile(s) ==
  /\ Go(s, "exporting", "exporting")
  /\ tree[s] = "empty"
  /\ tree' = [tree EXCEPT ![s] = "partial"]
  /\ UNCHANGED <<sync, phase, fp, brick, hist, faults>>

ExportDone(s) ==
  /\ Go(s, "exporting", "opened")
  /\ tree' = [tree EXCEPT ![s] = "clean"]
  /\ UNCHANGED <<sync, phase, fp, brick, hist, faults>>

\* A full disk, say: the error is shown, the half-made folder stays.
ExportFails(s) ==
  /\ Go(s, "exporting", "held")
  /\ Fault
  /\ UNCHANGED <<sync, disk, hist>>

\* Mutant: a leftover folder is exported afresh, like an empty one.
MountReexport(s) ==
  /\ Go(s, "held", "exporting")
  /\ brick[s] \in Content
  /\ tree[s] \notin {"none", "empty"}
  /\ tree' = [tree EXCEPT ![s] = "empty"]
  /\ UNCHANGED <<sync, phase, fp, brick, hist, faults>>

\* open_or_adopt on a leftover folder that is not empty takes it as it is.
MountAdopt(s) ==
  /\ Go(s, "held", "opened")
  /\ brick[s] \in Content
  /\ tree[s] \notin {"none", "empty"}
  /\ maimed' = IF tree[s] = "partial" THEN maimed \cup {s} ELSE maimed
  /\ UNCHANGED <<sync, disk, used, raced, unsaved, carrier, dropped, faults>>

MarkMounted(s) ==
  /\ Go(s, "opened", "mounted") \/ Go(s, "served", "serving")
  /\ SetPhase(s, "mounted")
  /\ UNCHANGED <<sync, fp, brick, tree, hist, faults>>

\* Not while the folder is imported or shredded, when programs could write to it too:
\* what becomes of that is FolderMount's matter (`missed').
Edit(s) ==
  /\ pc[s] = "mounted"
  /\ tree[s] # "dirty"
  /\ tree' = [tree EXCEPT ![s] = IF @ = "clean" THEN "dirty" ELSE @]
  /\ unsaved' = [unsaved EXCEPT ![s] = TRUE]
  /\ carrier' = [carrier EXCEPT ![s] = None]
  /\ UNCHANGED <<sync, phase, fp, brick, pc, used, raced, maimed, dropped, faults>>

\* MaterializedMount::close: Volume::sync rewrites the brick where it is.
SealBegin(s) ==
  /\ Go(s, "mounted", "sealing")
  /\ brick' = [brick EXCEPT ![s] = Torn]
  /\ UNCHANGED <<sync, phase, fp, tree, hist, faults>>

\* The rewrite is complete: new bytes, that hold every edit but those a folder
\* that was not whole has lost.
Rewritten(s, edited) ==
  \E c \in Content \ used :
    /\ brick' = [brick EXCEPT ![s] = c]
    /\ used' = used \cup {c}
    /\ carrier' = [carrier EXCEPT ![s] = IF edited /\ s \notin maimed THEN c ELSE None]

SealDone(s) ==
  /\ Go(s, "sealing", "shredding")
  /\ Rewritten(s, unsaved[s])
  /\ UNCHANGED <<sync, phase, fp, tree, raced, unsaved, maimed, dropped, faults>>

\* The error hands the mount back; nothing is shredded.
SealFails(s) ==
  /\ Go(s, "sealing", "mounted")
  /\ Fault
  /\ UNCHANGED <<sync, disk, hist>>

\* shred_dir: the files are overwritten one by one, then removed one by one.
ShredFile(s) ==
  /\ pc[s] = "shredding"
  /\ tree[s] # "empty"
  /\ tree' = [tree EXCEPT ![s] = IF @ = "partial" THEN "empty" ELSE "partial"]
  /\ UNCHANGED <<sync, phase, fp, brick, pc, hist, faults>>

ShredDone(s) ==
  /\ Go(s, "shredding", "unmounting")
  /\ tree[s] = "empty"
  /\ tree' = [tree EXCEPT ![s] = "none"]
  /\ UNCHANGED <<sync, phase, fp, brick, hist, faults>>

\* Its errors are ignored: what could not be removed stays.
ShredFails(s) ==
  /\ Go(s, "shredding", "unmounting")
  /\ Fault
  /\ UNCHANGED <<sync, disk, hist>>

(***************************************************************************)
(* The same with FUSE: mnt/ is only the mount point, the files are in the  *)
(* memory of the process, and closing or syncing one rewrites the brick.   *)
(***************************************************************************)

\* Where mounting with FUSE fails, open_or_adopt is tried instead.
MountFuse(s) ==
  /\ s \in Fuse
  /\ Go(s, "held", "served")
  /\ brick[s] \in Content
  /\ tree[s] \in {"none", "empty"}
  /\ tree' = [tree EXCEPT ![s] = "empty"]
  /\ UNCHANGED <<sync, phase, fp, brick, hist, faults>>

\* release or fsync of an edited file; at the end, teardown after the unmount.
FuseSync(s) ==
  /\ Go(s, "serving", "syncing") \/ Go(s, "serving", "flushing")
  /\ brick' = [brick EXCEPT ![s] = Torn]
  /\ UNCHANGED <<sync, phase, fp, tree, hist, faults>>

\* With whatever was edited since.  teardown leaves the mount point where it is.
FuseSyncDone(s) ==
  /\ Go(s, "syncing", "serving") \/ Go(s, "flushing", "unmounting")
  /\ \E edited \in {unsaved[s], TRUE} :
       /\ unsaved' = [unsaved EXCEPT ![s] = edited]
       /\ Rewritten(s, edited)
  /\ UNCHANGED <<sync, phase, fp, tree, raced, maimed, dropped, faults>>

\* Both ignore the error, before the first byte or in the middle.
FuseSyncFails(s) ==
  /\ \/ Go(s, "syncing", "serving")
     \/ Go(s, "flushing", "unmounting")
     \/ Go(s, "serving", "unmounting")
  /\ Fault
  /\ UNCHANGED <<sync, disk, hist>>

\* eject: with a mount, after sealing it; without one (quit), right away.
MarkUnmounted(s) ==
  /\ Go(s, "unmounting", "guard") \/ Go(s, "held", "guard")
  /\ SetPhase(s, "unmounted")
  /\ UNCHANGED <<sync, fp, brick, tree, hist, faults>>

(***************************************************************************)
(* Check-in.                                                               *)
(***************************************************************************)

\* Resume checkin in the GUI, `volume checkin ID' on the command line.
Resume(s) ==
  /\ Go(s, "idle", "guard")
  /\ UNCHANGED <<sync, disk, hist, faults>>

\* Mutant: the phase alone decides.
CheckinAllowedByPhase(s) == phase[s] # "mounted"

CheckinAllowed(s) == tree[s] = "none" /\ phase[s] # "mounted"

\* A cleartext folder, phase mounted, or (a fault) a temporary of the sync
\* client beside the brick (E10).
CheckinRefused(s) ==
  /\ Go(s, "guard", "held")
  /\ FaultUnless(~CheckinAllowed(s))
  /\ UNCHANGED <<sync, disk, hist>>

Delivered(s, bytes) ==
  unsaved' = [unsaved EXCEPT ![s] = @ /\ bytes # carrier[s]]

WorkIsSource(s) == brick[s] # None /\ brick[s] = source.bytes

\* E3: an earlier attempt already put these bytes there.  cleanup_checkin_temps
\* takes every temporary of this brick, other sessions' included.
CheckinAlreadyDone(s) ==
  /\ CheckinAllowed(s)
  /\ WorkIsSource(s)
  /\ Go(s, "guard", "remove")
  /\ temps' = [t \in Session |-> None]
  /\ litter' = FALSE
  /\ Delivered(s, brick[s])
  /\ UNCHANGED <<source, disk, used, raced, carrier, maimed, dropped, faults>>

CheckinDiffers(s) ==
  /\ CheckinAllowed(s)
  /\ ~WorkIsSource(s)
  /\ Go(s, "guard", "assert")
  /\ UNCHANGED <<sync, disk, hist, faults>>

CheckinAssert(s) ==
  /\ SourceUnchanged(s)
  /\ Go(s, "assert", "stage")
  /\ SetPhase(s, "checkin")
  /\ UNCHANGED <<sync, fp, brick, tree, hist, faults>>

CheckinRemoteChanged(s) ==
  /\ ~SourceUnchanged(s)
  /\ Go(s, "assert", "held")
  /\ UNCHANGED <<sync, disk, hist, faults>>

\* copy_brick to a fresh sibling, then fsync (on the fallback, the copy of the
\* out-of-tree staging file).
StageTemp(s) ==
  /\ brick[s] # None
  /\ Go(s, "stage", "recheck") \/ Go(s, "e8stage", "e8replace")
  /\ temps' = [temps EXCEPT ![s] = brick[s]]
  /\ UNCHANGED <<source, litter, disk, hist, faults>>

\* The copy or the fsync fails; the temporary may stay.
StageTempFails(s) ==
  /\ Go(s, "stage", "held") \/ Go(s, "e8stage", "held")
  /\ litter' \in {litter, TRUE}
  /\ raced' = raced \ {s}
  /\ FaultUnless(brick[s] = None)
  /\ UNCHANGED <<source, temps, disk, used, unsaved, carrier, maimed, dropped>>

\* The second assert_source_unchanged, before the rename (or, on the
\* fallback, before the copy into the sync folder).
CheckinRecheck(s) ==
  /\ SourceUnchanged(s)
  /\ Go(s, "recheck", "replace") \/ Go(s, "e8check", "e8stage")
  /\ UNCHANGED <<sync, disk, hist, faults>>

RecheckRemoteChanged(s) ==
  /\ ~SourceUnchanged(s)
  /\ Go(s, "recheck", "held") \/ Go(s, "e8check", "held")
  /\ temps' = [temps EXCEPT ![s] = None]
  /\ UNCHANGED <<source, litter, disk, hist, faults>>

\* Sessions whose re-hash of the source matched and that have yet to replace it.
Window == {s \in Session : pc[s] \in {"replace", "e8stage", "e8replace"}}

\* rename of the temporary over the brick; it brings its own inode along.
Replace(s) ==
  /\ temps[s] # None
  /\ Go(s, "replace", "remove") \/ Go(s, "e8replace", "remove")
  /\ \E i \in Inode :
       /\ source.bytes # Missing => i # source.ino
       /\ source' = [bytes |-> temps[s], ino |-> i]
  /\ temps' = [temps EXCEPT ![s] = None]
  /\ Delivered(s, temps[s])
  /\ raced' = Window \ {s}
  /\ UNCHANGED <<litter, disk, used, carrier, maimed, dropped, faults>>

\* E8: the temporary is removed; the first failure goes to the fallback.  The
\* rename also fails when another session's clean-up took the temporary.
ReplaceFails(s) ==
  /\ Go(s, "replace", "e8check") \/ Go(s, "e8replace", "held")
  /\ temps' = [temps EXCEPT ![s] = None]
  /\ raced' = raced \ {s}
  /\ FaultUnless(temps[s] = None)
  /\ UNCHANGED <<source, litter, disk, used, unsaved, carrier, maimed, dropped>>

\* remove_dir_all of the session directory.
Remove(s) ==
  /\ Go(s, "remove", "gone") \/ Go(s, "discard", "gone")
  /\ phase' = [phase EXCEPT ![s] = None]
  /\ brick' = [brick EXCEPT ![s] = None]
  /\ tree' = [tree EXCEPT ![s] = "none"]
  /\ fp' = [fp EXCEPT ![s] = None]
  /\ UNCHANGED <<sync, hist, faults>>

\* The operator gives the edits up (resume window, `work-discard').
Discard(s) ==
  /\ Go(s, "idle", "discard")
  /\ unsaved' = [unsaved EXCEPT ![s] = FALSE]
  /\ UNCHANGED <<sync, disk, used, raced, carrier, maimed, dropped, faults>>

\* state.json cannot be written.  Marking a mount or its end goes on without it;
\* a check-in stops there.
SidecarFails(s) ==
  /\ \/ Go(s, "opened", "mounted") \/ Go(s, "served", "serving")
     \/ Go(s, "unmounting", "guard") \/ Go(s, "held", "guard")
     \/ SourceUnchanged(s) /\ Go(s, "assert", "held")
  /\ Fault
  /\ UNCHANGED <<sync, disk, hist>>

(***************************************************************************)
(* The process ends (quit, kill -9, power loss).  A directory without      *)
(* state.json is never listed again.                                       *)
(***************************************************************************)

Abandon(s) ==
  /\ Fault
  /\ pc' = [pc EXCEPT ![s] = IF phase'[s] = None THEN "gone" ELSE "idle"]
  /\ litter' = (litter \/ temps[s] # None)
  /\ temps' = [temps EXCEPT ![s] = None]
  /\ raced' = raced \ {s}
  /\ UNCHANGED <<source, fp, used, unsaved, carrier, maimed>>

Crash(s) ==
  /\ pc[s] \notin {"new", "gone", "idle", "remove", "discard"}
  /\ UNCHANGED <<phase, brick, tree, dropped>>
  /\ Abandon(s)

\* Cut short, remove_dir_all has taken any part of the directory.
CrashInRemove(s) ==
  /\ pc[s] \in {"remove", "discard"}
  /\ phase' \in {phase, [phase EXCEPT ![s] = None]}
  /\ brick' \in {brick, [brick EXCEPT ![s] = None]}
  /\ tree' \in IF tree[s] = "none" THEN {tree}
               ELSE {[tree EXCEPT ![s] = t] : t \in {"none", "empty", "partial", tree[s]}}
  /\ dropped' = IF pc[s] = "discard" THEN dropped \cup {s} ELSE dropped
  /\ Abandon(s)

(***************************************************************************)
(* The sync client: it may put anything over the brick at any time, evict  *)
(* it or delete it, in place or as a new file.                             *)
(***************************************************************************)

RemoteWrite ==
  /\ Fault
  /\ source' \in [bytes : Content \cup {Missing}, ino : Inode]
  /\ source' # source
  /\ used' = used \cup ({source'.bytes} \cap Content)
  /\ raced' = Window
  /\ UNCHANGED <<temps, litter, disk, pc, unsaved, carrier, maimed, dropped>>

Checkout(s) ==
  \/ CheckoutHash(s) \/ CheckoutCopy(s) \/ CheckoutCopyFails(s)
  \/ CheckoutVerify(s) \/ CheckoutChanged(s)

Mount(s) ==
  \/ MountExport(s) \/ ExportFile(s) \/ ExportDone(s) \/ ExportFails(s) \/ MountAdopt(s)
  \/ MarkMounted(s) \/ Edit(s)
  \/ SealBegin(s) \/ SealDone(s) \/ SealFails(s)
  \/ ShredFile(s) \/ ShredDone(s) \/ ShredFails(s) \/ MarkUnmounted(s)
  \/ MountFuse(s) \/ FuseSync(s) \/ FuseSyncDone(s) \/ FuseSyncFails(s)

Checkin(s) ==
  \/ CheckinRefused(s) \/ CheckinAlreadyDone(s) \/ CheckinDiffers(s)
  \/ CheckinAssert(s) \/ CheckinRemoteChanged(s)
  \/ StageTemp(s) \/ StageTempFails(s)
  \/ CheckinRecheck(s) \/ RecheckRemoteChanged(s)
  \/ Replace(s) \/ ReplaceFails(s) \/ Remove(s)

SessionNext(s) ==
  Checkout(s) \/ Mount(s) \/ Resume(s) \/ Checkin(s) \/ Discard(s)
  \/ SidecarFails(s) \/ Crash(s) \/ CrashInRemove(s)

Next == (\E s \in Session : SessionNext(s)) \/ RemoteWrite

Spec == Init /\ [][Next]_vars

(***************************************************************************)
(* Properties.                                                             *)
(***************************************************************************)

Installs(s) == pc[s] \in {"replace", "e8replace"} /\ pc'[s] = "remove"

\* C101, as far as the code can keep it: a check-in only ever replaces the brick
\* the session was checked out from, bytes and inode; anything else it destroys
\* was written after the last re-hash of that check-in.
ReplacesOnlyFingerprinted ==
  [][\A s \in Session : Installs(s) => source = fp[s] \/ s \in raced]_vars

\* Edits that were saved stay in the cleartext tree or in the sealed working copy
\* until they are delivered or discarded, whatever fails in between.  There are
\* two ways to lose them: to adopt a folder whose export or shredding had been
\* cut short, and to be stopped while a FUSE mount rewrites the brick, which
\* has no folder to fall back on.
NoEditLost ==
  \A s \in Session : unsaved[s] =>
    \/ tree[s] \in {"clean", "dirty"}
    \/ carrier[s] # None /\ brick[s] = carrier[s]
    \/ s \in maimed
    \/ s \in Fuse /\ tree[s] = "empty" /\ brick[s] = Torn

\* A check-in puts all the edits of its session into the sync folder, never an
\* older state of the working copy.
DeliversAllEdits ==
  [][\A s \in Session \ maimed : Installs(s) => ~unsaved'[s]]_vars

\* E2: no brick whose sealing was interrupted reaches the sync folder, unless a
\* discard had been interrupted too and its session was then checked in.
SourceWhole == source.bytes = Torn => dropped # {}

\* Every cleartext folder a dead process leaves has a sidecar, so that the scan
\* at launch finds it; only an interrupted discard can leave one without.
LeftoverTreeListed ==
  \A s \in Session : tree[s] # "none" => phase[s] # None \/ s \in dropped

=============================================================================
