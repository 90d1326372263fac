------------------------- MODULE WorkingCopy_proofs -------------------------
(***************************************************************************)
(* What TLC checks of WorkingCopy for one and two sessions, proved for any *)
(* number of sessions, contents, inodes and faults.                        *)
(***************************************************************************)
EXTENDS WorkingCopy, TLAPS

\* The steps between the guards of checkin_with and the end of the session.
CheckinSteps == {"assert", "stage", "recheck", "replace",
                 "e8check", "e8stage", "e8replace", "remove"}

\* Nothing has been edited, and nothing mounted, before a checkout is complete.
FreshSession(s) ==
  pc[s] \in {"new", "copying", "verify"} => ~unsaved[s] /\ tree[s] = "none"

\* From the first sidecar to the removal of the directory there is a sidecar.
HasSidecar(s) ==
  pc[s] \notin {"new", "copying", "verify", "gone"} => phase[s] # None

\* A folder that is open is whole, or known not to be.
OpenTree(s) ==
  pc[s] \in {"opened", "mounted", "sealing"} =>
    tree[s] \in {"clean", "dirty"} \/ (tree[s] = "partial" /\ s \in maimed)

\* A FUSE mount has an empty folder for its mount point.
MountPoint(s) ==
  pc[s] \in {"served", "serving", "syncing", "flushing"} => s \in Fuse /\ tree[s] = "empty"

\* Only a brick that opened is exported.
ExportedBrick(s) == pc[s] = "exporting" => brick[s] \in Content

\* Shredding starts after the brick, with every edit in it, was written to its
\* end.
SealedBrick(s) ==
  pc[s] = "shredding" =>
    brick[s] \in Content /\ (unsaved[s] => carrier[s] = brick[s] \/ s \in maimed)

\* Past its guards a check-in has no folder to worry about.
NoTreeInCheckin(s) == pc[s] \in CheckinSteps => tree[s] = "none"

\* A temporary is the whole working copy.
StagedBrick(s) ==
  temps[s] # None =>
    pc[s] \in {"recheck", "replace", "e8replace"} /\ temps[s] = brick[s]

\* The directory goes away only when it holds no edit that counts.
NothingToLose(s) ==
  /\ pc[s] = "remove" => ~unsaved[s] \/ s \in maimed
  /\ pc[s] = "discard" => ~unsaved[s]

EditKept(s) ==
  unsaved[s] => \/ tree[s] \in {"clean", "dirty"}
                \/ carrier[s] # None /\ brick[s] = carrier[s]
                \/ s \in maimed
                \/ s \in Fuse /\ tree[s] = "empty" /\ brick[s] = Torn

\* A torn working copy stands beside its folder, so no guard lets it through.
TornHasTree(s) == brick[s] = Torn => tree[s] # "none" \/ dropped # {}

\* The re-hash that matched still speaks of the brick that is there.
Fingerprinted(s) == s \in Window \ raced => source = fp[s]

TreeListed(s) == tree[s] # "none" => phase[s] # None \/ s \in dropped

SessionInv(s) ==
  /\ FreshSession(s)
  /\ HasSidecar(s)
  /\ OpenTree(s)
  /\ MountPoint(s)
  /\ ExportedBrick(s)
  /\ SealedBrick(s)
  /\ NoTreeInCheckin(s)
  /\ StagedBrick(s)
  /\ NothingToLose(s)
  /\ EditKept(s)
  /\ TornHasTree(s)
  /\ Fingerprinted(s)
  /\ TreeListed(s)

IInv == TypeOK /\ SourceWhole /\ \A s \in Session : SessionInv(s)

Assumptions == ContentAssumption /\ MarkerAssumption /\ PhaseAssumption

\* The assumptions on the constants, as one fact.
LEMMA AssumptionsHold == Assumptions
BY ContentAssumption, MarkerAssumption, PhaseAssumption DEF Assumptions

(***************************************************************************)
(* Type correctness.                                                       *)
(***************************************************************************)

\* A brick and no session: the initial state is well typed.
LEMMA TypeInit == Init => TypeOK
<1> SUFFICES ASSUME Init PROVE TypeOK
  OBVIOUS
<1>1. source \in File /\ source.bytes \in Content
  BY DEF Init, File
<1>2. 0 \in 0 .. MaxFaults
  BY FaultsAssumption
<1> QED
  BY <1>1, <1>2 DEF Init, TypeOK, Trees, Steps, Phases

\* The count of faults stays within its bound.
LEMMA FaultsBounded ==
  ASSUME TypeOK, NEW cause \in BOOLEAN, Fault \/ FaultUnless(cause)
  PROVE  faults' \in 0 .. MaxFaults
BY FaultsAssumption DEF TypeOK, Fault, FaultUnless

\* Every step, of a session, a crash or the sync client, keeps the types.
LEMMA TypeNext == TypeOK /\ [Next]_vars => TypeOK'
<1> SUFFICES ASSUME TypeOK, [Next]_vars PROVE TypeOK'
  OBVIOUS
<1> USE DEF Go, SetPhase, sync, disk, hist
<1>f. ASSUME NEW c \in BOOLEAN, Fault \/ FaultUnless(c) PROVE faults' \in 0 .. MaxFaults
  BY <1>f, FaultsBounded
<1>1. CASE UNCHANGED vars
  BY <1>1 DEF vars, TypeOK
<1>2. ASSUME NEW s \in Session, Checkout(s) PROVE TypeOK'
  <2>1. CASE CheckoutHash(s)
    BY <2>1 DEF CheckoutHash, TypeOK, Steps
  <2>2. CASE CheckoutCopy(s)
    BY <2>2 DEF CheckoutCopy, TypeOK, Steps, File
  <2>3. CASE CheckoutCopyFails(s)
    <3>1. faults' \in 0 .. MaxFaults
      BY <2>3, <1>f DEF CheckoutCopyFails
    <3> QED
      BY <2>3, <3>1 DEF CheckoutCopyFails, TypeOK, Steps
  <2>4. CASE CheckoutVerify(s)
    BY <2>4 DEF CheckoutVerify, TypeOK, Steps, Phases
  <2>5. CASE CheckoutChanged(s)
    BY <2>5 DEF CheckoutChanged, TypeOK, Steps
  <2> QED
    BY <1>2, <2>1, <2>2, <2>3, <2>4, <2>5 DEF Checkout
<1>3. ASSUME NEW s \in Session, Mount(s) PROVE TypeOK'
  <2> USE DEF TypeOK, Steps, Trees
  <2>1. CASE MountExport(s) \/ ExportFile(s) \/ ExportDone(s)
    BY <2>1 DEF MountExport, ExportFile, ExportDone
  <2>2. CASE ExportFails(s) \/ SealFails(s) \/ ShredFails(s) \/ FuseSyncFails(s)
    <3>1. faults' \in 0 .. MaxFaults
      BY <2>2, <1>f DEF ExportFails, SealFails, ShredFails, FuseSyncFails
    <3> QED
      BY <2>2, <3>1 DEF ExportFails, SealFails, ShredFails, FuseSyncFails
  <2>3. CASE MountAdopt(s)
    BY <2>3 DEF MountAdopt
  <2>4. CASE MarkMounted(s) \/ MarkUnmounted(s)
    BY <2>4 DEF MarkMounted, MarkUnmounted, Phases
  <2>5. CASE Edit(s)
    BY <2>5 DEF Edit
  <2>6. CASE SealBegin(s)
    BY <2>6 DEF SealBegin
  <2>7. CASE SealDone(s)
    BY <2>7 DEF SealDone, Rewritten
  <2>8. CASE ShredFile(s) \/ ShredDone(s)
    BY <2>8 DEF ShredFile, ShredDone
  <2>9. CASE MountFuse(s) \/ FuseSync(s)
    BY <2>9 DEF MountFuse, FuseSync
  <2>10. CASE FuseSyncDone(s)
    <3>1. PICK edited \in {unsaved[s], TRUE} :
            unsaved' = [unsaved EXCEPT ![s] = edited] /\ Rewritten(s, edited)
      BY <2>10 DEF FuseSyncDone
    <3>2. edited \in BOOLEAN
      OBVIOUS
    <3>3. unsaved' \in [Session -> BOOLEAN]
      BY <3>1, <3>2
    <3>4. PICK c \in Content :
            /\ brick' = [brick EXCEPT ![s] = c]
            /\ used' = used \cup {c}
            /\ carrier' = [carrier EXCEPT ![s] = c] \/ carrier' = [carrier EXCEPT ![s] = None]
      BY <3>1 DEF Rewritten
    <3>5. pc' \in [Session -> Steps]
      BY <2>10 DEF FuseSyncDone
    <3> QED
      BY <2>10, <3>3, <3>4, <3>5 DEF FuseSyncDone
  <2> QED
    BY <1>3, <2>1, <2>2, <2>3, <2>4, <2>5, <2>6, <2>7, <2>8, <2>9, <2>10 DEF Mount
<1>4. ASSUME NEW s \in Session, Checkin(s) PROVE TypeOK'
  <2> USE DEF TypeOK, Steps
  <2>1. CASE CheckinRefused(s)
    <3>1. faults' \in 0 .. MaxFaults
      BY <2>1, <1>f DEF CheckinRefused, CheckinAllowed
    <3> QED
      BY <2>1, <3>1 DEF CheckinRefused
  <2>2. CASE CheckinAlreadyDone(s)
    BY <2>2 DEF CheckinAlreadyDone, Delivered
  <2>3. CASE CheckinDiffers(s) \/ CheckinRemoteChanged(s) \/ CheckinRecheck(s)
    BY <2>3 DEF CheckinDiffers, CheckinRemoteChanged, CheckinRecheck
  <2>4. CASE CheckinAssert(s)
    BY <2>4 DEF CheckinAssert, Phases
  <2>5. CASE StageTemp(s)
    BY <2>5 DEF StageTemp
  <2>6. CASE StageTempFails(s)
    <3>1. faults' \in 0 .. MaxFaults
      BY <2>6, <1>f DEF StageTempFails
    <3> QED
      BY <2>6, <3>1 DEF StageTempFails
  <2>7. CASE RecheckRemoteChanged(s)
    BY <2>7 DEF RecheckRemoteChanged
  <2>8. CASE Replace(s)
    BY <2>8 DEF Replace, Delivered, Window, File
  <2>9. CASE ReplaceFails(s)
    <3>1. faults' \in 0 .. MaxFaults
      BY <2>9, <1>f DEF ReplaceFails
    <3> QED
      BY <2>9, <3>1 DEF ReplaceFails
  <2>10. CASE Remove(s)
    BY <2>10 DEF Remove, Trees
  <2> QED
    BY <1>4, <2>1, <2>2, <2>3, <2>4, <2>5, <2>6, <2>7, <2>8, <2>9, <2>10 DEF Checkin
<1>5. ASSUME NEW s \in Session, Resume(s) \/ Discard(s) \/ SidecarFails(s) PROVE TypeOK'
  <2>1. CASE Resume(s) \/ Discard(s)
    BY <2>1 DEF Resume, Discard, TypeOK, Steps
  <2>2. CASE SidecarFails(s)
    <3>1. faults' \in 0 .. MaxFaults
      BY <2>2, <1>f DEF SidecarFails
    <3> QED
      BY <2>2, <3>1 DEF SidecarFails, TypeOK, Steps
  <2> QED
    BY <1>5, <2>1, <2>2
<1>6. ASSUME NEW s \in Session, Crash(s) \/ CrashInRemove(s) PROVE TypeOK'
  <2>1. faults' \in 0 .. MaxFaults
    BY <1>6, <1>f DEF Crash, CrashInRemove, Abandon
  <2>2. litter' \in BOOLEAN /\ dropped' \subseteq Session
    BY <1>6 DEF Crash, CrashInRemove, Abandon, TypeOK
  <2>3. /\ phase' \in [Session -> Phases \cup {None}]
        /\ brick' \in [Session -> Content \cup {Torn, None}]
        /\ tree' \in [Session -> Trees]
    BY <1>6 DEF Crash, CrashInRemove, TypeOK, Trees
  <2> QED
    BY <1>6, <2>1, <2>2, <2>3 DEF Crash, CrashInRemove, Abandon, TypeOK, Steps
<1>7. ASSUME RemoteWrite PROVE TypeOK'
  <2>1. faults' \in 0 .. MaxFaults
    BY <1>7, <1>f DEF RemoteWrite
  <2>2. source' \in File
    BY <1>7 DEF RemoteWrite, File
  <2> QED
    BY <1>7, <2>1, <2>2 DEF RemoteWrite, Window, TypeOK
<1> QED
  BY <1>1, <1>2, <1>3, <1>4, <1>5, <1>6, <1>7 DEF Next, SessionNext

\* Every variable keeps its type, whatever is interrupted where.
THEOREM TypeCorrect == Spec => []TypeOK
BY TypeInit, TypeNext, PTL DEF Spec

(***************************************************************************)
(* What a step of session s leaves of another session t: everything but a  *)
(* temporary it may clean up and a brick it may replace, and the latter    *)
(* only by recording it.                                                   *)
(***************************************************************************)

Undisturbed(t) ==
  /\ pc'[t] = pc[t] /\ phase'[t] = phase[t] /\ fp'[t] = fp[t]
  /\ brick'[t] = brick[t] /\ tree'[t] = tree[t]
  /\ unsaved'[t] = unsaved[t] /\ carrier'[t] = carrier[t]
  /\ t \in maimed => t \in maimed'
  /\ dropped \subseteq dropped'
  /\ temps'[t] \in {temps[t], None}
  /\ \/ source' = source /\ (t \in raced => t \in raced')
     \/ t \in Window => t \in raced'

\* A session that a step leaves undisturbed keeps its invariant.
LEMMA UndisturbedKeeps ==
  ASSUME NEW t \in Session, SessionInv(t), Undisturbed(t)
  PROVE  SessionInv(t)'
<1>1. FreshSession(t)' /\ HasSidecar(t)' /\ OpenTree(t)' /\ MountPoint(t)'
      /\ ExportedBrick(t)' /\ SealedBrick(t)' /\ NoTreeInCheckin(t)'
  BY DEF SessionInv, Undisturbed, FreshSession, HasSidecar, OpenTree, MountPoint,
         ExportedBrick, SealedBrick, NoTreeInCheckin, CheckinSteps
<1>2. StagedBrick(t)' /\ NothingToLose(t)' /\ EditKept(t)'
  BY DEF SessionInv, Undisturbed, StagedBrick, NothingToLose, EditKept
<1>3. TornHasTree(t)' /\ TreeListed(t)'
  BY DEF SessionInv, Undisturbed, TornHasTree, TreeListed
<1>4. Fingerprinted(t)'
  BY DEF SessionInv, Undisturbed, Fingerprinted, Window
<1> QED
  BY <1>1, <1>2, <1>3, <1>4 DEF SessionInv

\* A step of one session leaves every other one undisturbed.
LEMMA OthersUndisturbed ==
  ASSUME TypeOK, NEW s \in Session, SessionNext(s), NEW t \in Session, t # s
  PROVE  Undisturbed(t)
<1> USE DEF TypeOK, Undisturbed, Go, SetPhase, sync, disk, hist
<1>1. CASE Checkout(s)
  BY <1>1 DEF Checkout, CheckoutHash, CheckoutCopy, CheckoutCopyFails, CheckoutVerify,
              CheckoutChanged
<1>2. CASE Mount(s)
  <2>1. CASE MountExport(s) \/ ExportFile(s) \/ ExportDone(s) \/ ExportFails(s) \/ MountAdopt(s)
    BY <2>1 DEF MountExport, ExportFile, ExportDone, ExportFails, MountAdopt
  <2>2. CASE MarkMounted(s) \/ MarkUnmounted(s) \/ Edit(s)
    BY <2>2 DEF MarkMounted, MarkUnmounted, Edit
  <2>3. CASE \/ SealBegin(s) \/ SealDone(s) \/ SealFails(s)
             \/ ShredFile(s) \/ ShredDone(s) \/ ShredFails(s)
    BY <2>3 DEF SealBegin, SealDone, Rewritten, SealFails, ShredFile, ShredDone, ShredFails
  <2>4. CASE MountFuse(s) \/ FuseSync(s) \/ FuseSyncDone(s) \/ FuseSyncFails(s)
    BY <2>4 DEF MountFuse, FuseSync, FuseSyncDone, FuseSyncFails, Rewritten
  <2> QED
    BY <1>2, <2>1, <2>2, <2>3, <2>4 DEF Mount
<1>3. CASE Checkin(s)
  <2>1. CASE CheckinRefused(s) \/ CheckinDiffers(s) \/ CheckinAssert(s)
             \/ CheckinRemoteChanged(s) \/ CheckinRecheck(s)
    BY <2>1 DEF CheckinRefused, CheckinDiffers, CheckinAssert, CheckinRemoteChanged,
                CheckinRecheck
  <2>2. CASE CheckinAlreadyDone(s)
    BY <2>2 DEF CheckinAlreadyDone, Delivered
  <2>3. CASE StageTemp(s) \/ StageTempFails(s) \/ RecheckRemoteChanged(s) \/ ReplaceFails(s)
    BY <2>3 DEF StageTemp, StageTempFails, RecheckRemoteChanged, ReplaceFails
  <2>4. CASE Replace(s)
    BY <2>4 DEF Replace, Delivered
  <2>5. CASE Remove(s)
    BY <2>5 DEF Remove
  <2> QED
    BY <1>3, <2>1, <2>2, <2>3, <2>4, <2>5 DEF Checkin
<1>4. CASE Resume(s) \/ Discard(s) \/ SidecarFails(s)
  BY <1>4 DEF Resume, Discard, SidecarFails
<1>5. CASE Crash(s)
  BY <1>5 DEF Crash, Abandon
<1>6. CASE CrashInRemove(s)
  <2>1. phase'[t] = phase[t] /\ brick'[t] = brick[t] /\ tree'[t] = tree[t]
    BY <1>6 DEF CrashInRemove
  <2> QED
    BY <1>6, <2>1 DEF CrashInRemove, Abandon
<1> QED
  BY <1>1, <1>2, <1>3, <1>4, <1>5, <1>6 DEF SessionNext

(***************************************************************************)
(* What a step of session s does to the invariant of s itself.             *)
(***************************************************************************)

\* Every step of a checkout keeps the invariant of its session.
LEMMA CheckoutKeeps ==
  ASSUME TypeOK, SourceWhole, NEW s \in Session, SessionInv(s), Checkout(s)
  PROVE  SessionInv(s)' /\ SourceWhole'
<1> USE AssumptionsHold DEF Assumptions, ContentAssumption, MarkerAssumption,
        PhaseAssumption, TypeOK, SessionInv, FreshSession, HasSidecar, OpenTree, MountPoint,
        ExportedBrick, SealedBrick, NoTreeInCheckin, CheckinSteps, StagedBrick,
        NothingToLose, EditKept, TornHasTree, Fingerprinted, TreeListed, SourceWhole, Window, Go, SetPhase, sync, disk, hist
<1>1. CASE CheckoutHash(s)
  BY <1>1 DEF CheckoutHash
<1>2. CASE CheckoutCopy(s)
  BY <1>2 DEF CheckoutCopy
<1>3. CASE CheckoutCopyFails(s)
  BY <1>3 DEF CheckoutCopyFails
<1>4. CASE CheckoutVerify(s)
  BY <1>4 DEF CheckoutVerify, Phases
<1>5. CASE CheckoutChanged(s)
  BY <1>5 DEF CheckoutChanged
<1> QED
  BY <1>1, <1>2, <1>3, <1>4, <1>5 DEF Checkout

\* So does every step of mounting, editing and sealing.
LEMMA MountKeeps ==
  ASSUME TypeOK, SourceWhole, NEW s \in Session, SessionInv(s), Mount(s)
  PROVE  SessionInv(s)' /\ SourceWhole'
<1> USE AssumptionsHold DEF Assumptions, ContentAssumption, MarkerAssumption,
        PhaseAssumption, TypeOK, SessionInv, FreshSession, HasSidecar, OpenTree, MountPoint,
        ExportedBrick, SealedBrick, NoTreeInCheckin, CheckinSteps, StagedBrick,
        NothingToLose, EditKept, TornHasTree, Fingerprinted, TreeListed, SourceWhole, Window, Go, SetPhase, sync, disk, hist
<1>1. CASE MountExport(s) \/ ExportFile(s)
  BY <1>1 DEF MountExport, ExportFile
<1>2. CASE ExportDone(s) \/ ExportFails(s)
  BY <1>2 DEF ExportDone, ExportFails
<1>3. CASE MountAdopt(s)
  BY <1>3 DEF MountAdopt, Trees
<1>4. CASE MarkMounted(s) \/ MarkUnmounted(s)
  BY <1>4 DEF MarkMounted, MarkUnmounted, Phases
<1>5. CASE Edit(s)
  BY <1>5 DEF Edit
<1>6. CASE SealBegin(s) \/ SealFails(s)
  BY <1>6 DEF SealBegin, SealFails
<1>7. CASE SealDone(s)
  BY <1>7 DEF SealDone, Rewritten
<1>8. CASE ShredFile(s) \/ ShredDone(s) \/ ShredFails(s)
  BY <1>8 DEF ShredFile, ShredDone, ShredFails
<1>9. CASE MountFuse(s) \/ FuseSync(s)
  BY <1>9 DEF MountFuse, FuseSync
<1>10. CASE FuseSyncDone(s) \/ FuseSyncFails(s)
  BY <1>10 DEF FuseSyncDone, FuseSyncFails, Rewritten
<1> QED
  BY <1>1, <1>2, <1>3, <1>4, <1>5, <1>6, <1>7, <1>8, <1>9, <1>10 DEF Mount

\* So does every step of a check-in, the fallback included.
LEMMA CheckinKeeps ==
  ASSUME TypeOK, SourceWhole, NEW s \in Session, SessionInv(s), Checkin(s)
  PROVE  SessionInv(s)' /\ SourceWhole'
<1> USE AssumptionsHold DEF Assumptions, ContentAssumption, MarkerAssumption,
        PhaseAssumption, TypeOK, SessionInv, FreshSession, HasSidecar, OpenTree, MountPoint,
        ExportedBrick, SealedBrick, NoTreeInCheckin, CheckinSteps, StagedBrick,
        NothingToLose, EditKept, TornHasTree, Fingerprinted, TreeListed, SourceWhole, Window, Go, SetPhase, sync, disk, hist
<1>1. CASE CheckinRefused(s)
  BY <1>1 DEF CheckinRefused
<1>2. CASE CheckinAlreadyDone(s)
  BY <1>2 DEF CheckinAlreadyDone, CheckinAllowed, WorkIsSource, Delivered
<1>3. CASE CheckinDiffers(s)
  BY <1>3 DEF CheckinDiffers, CheckinAllowed
<1>4. CASE CheckinAssert(s) \/ CheckinRemoteChanged(s)
  BY <1>4 DEF CheckinAssert, CheckinRemoteChanged, Phases
<1>5. CASE StageTemp(s)
  BY <1>5 DEF StageTemp
<1>6. CASE StageTempFails(s)
  BY <1>6 DEF StageTempFails
<1>7. CASE CheckinRecheck(s)
  BY <1>7 DEF CheckinRecheck, SourceUnchanged
<1>8. CASE RecheckRemoteChanged(s)
  BY <1>8 DEF RecheckRemoteChanged
<1>9. CASE Replace(s)
  <2>1. temps[s] = brick[s] /\ tree[s] = "none"
    BY <1>9 DEF Replace
  <2>2. SourceWhole'
    BY <1>9, <2>1 DEF Replace
  <2>3. ~unsaved'[s] \/ s \in maimed'
    BY <1>9, <2>1 DEF Replace, Delivered
  <2> QED
    BY <1>9, <2>1, <2>2, <2>3 DEF Replace
<1>10. CASE ReplaceFails(s)
  BY <1>10 DEF ReplaceFails
<1>11. CASE Remove(s)
  BY <1>11 DEF Remove
<1> QED
  BY <1>1, <1>2, <1>3, <1>4, <1>5, <1>6, <1>7, <1>8, <1>9, <1>10, <1>11 DEF Checkin

\* So do resuming, discarding and a crash at any point.
LEMMA EndKeeps ==
  ASSUME TypeOK, SourceWhole, NEW s \in Session, SessionInv(s),
         Resume(s) \/ Discard(s) \/ SidecarFails(s) \/ Crash(s) \/ CrashInRemove(s)
  PROVE  SessionInv(s)' /\ SourceWhole'
<1> USE AssumptionsHold DEF Assumptions, ContentAssumption, MarkerAssumption,
        PhaseAssumption, TypeOK, SessionInv, FreshSession, HasSidecar, OpenTree, MountPoint,
        ExportedBrick, SealedBrick, NoTreeInCheckin, CheckinSteps,
        StagedBrick, NothingToLose, EditKept, TornHasTree, Fingerprinted, TreeListed,
        SourceWhole, Window, Go, SetPhase, sync, disk, hist
<1>1. CASE Resume(s)
  BY <1>1 DEF Resume
<1>2. CASE Discard(s)
  BY <1>2 DEF Discard
<1>3. CASE Crash(s)
  BY <1>3 DEF Crash, Abandon
<1>4. CASE CrashInRemove(s)
  BY <1>4 DEF CrashInRemove, Abandon
<1>5. CASE SidecarFails(s)
  BY <1>5 DEF SidecarFails
<1> QED
  BY <1>1, <1>2, <1>3, <1>4, <1>5

(***************************************************************************)
(* The inductive invariant and what follows from it.                       *)
(***************************************************************************)

\* The inductive invariant holds before the first checkout.
LEMMA IInvInit == Init => IInv
<1> SUFFICES ASSUME Init PROVE IInv
  OBVIOUS
<1>1. SourceWhole
  BY AssumptionsHold DEF Assumptions, ContentAssumption, Init, SourceWhole
<1>2. ASSUME NEW s \in Session PROVE SessionInv(s)
  BY AssumptionsHold DEF Assumptions, MarkerAssumption, Init, SessionInv, FreshSession,
     HasSidecar, OpenTree, MountPoint, ExportedBrick, SealedBrick, NoTreeInCheckin,
     CheckinSteps, StagedBrick, NothingToLose, EditKept, TornHasTree, Fingerprinted, TreeListed, Window
<1> QED
  BY <1>1, <1>2, TypeInit DEF IInv

\* Every step keeps the inductive invariant.
LEMMA IInvNext == IInv /\ [Next]_vars => IInv'
<1> SUFFICES ASSUME IInv, [Next]_vars PROVE IInv'
  OBVIOUS
<1>1. TypeOK'
  BY TypeNext DEF IInv
<1>2. CASE UNCHANGED vars
  <2>1. SourceWhole'
    BY <1>2 DEF IInv, SourceWhole, vars
  <2>2. ASSUME NEW t \in Session PROVE Undisturbed(t)
    BY <1>2 DEF Undisturbed, vars
  <2> QED
    BY <1>1, <2>1, <2>2, UndisturbedKeeps DEF IInv
<1>3. ASSUME NEW s \in Session, SessionNext(s) PROVE IInv'
  <2>1. SessionInv(s)' /\ SourceWhole'
    BY <1>3, CheckoutKeeps, MountKeeps, CheckinKeeps, EndKeeps DEF SessionNext, IInv
  <2>2. ASSUME NEW t \in Session, t # s PROVE SessionInv(t)'
    BY <1>3, <2>2, OthersUndisturbed, UndisturbedKeeps DEF IInv
  <2> QED
    BY <1>1, <2>1, <2>2 DEF IInv
<1>4. CASE RemoteWrite
  <2>1. SourceWhole'
    BY <1>4, AssumptionsHold
    DEF RemoteWrite, SourceWhole, Assumptions, ContentAssumption, MarkerAssumption
  <2>2. ASSUME NEW t \in Session PROVE Undisturbed(t)
    BY <1>4 DEF RemoteWrite, Undisturbed, disk
  <2> QED
    BY <1>1, <2>1, <2>2, UndisturbedKeeps DEF IInv
<1> QED
  BY <1>2, <1>3, <1>4 DEF Next

\* So it holds throughout.
LEMMA Invariance == Spec => []IInv
BY IInvInit, IInvNext, PTL DEF Spec

\* Whatever fails or is killed, edits are in the folder or in the sealed working
\* copy until they are delivered or given up.
THEOREM NoEditIsLost == Spec => []NoEditLost
<1>1. IInv => NoEditLost
  BY DEF IInv, SessionInv, EditKept, NoEditLost
<1> QED
  BY <1>1, Invariance, PTL

\* Without an interrupted discard the sync folder never holds a torn brick.
THEOREM SourceStaysWhole == Spec => []SourceWhole
<1>1. IInv => SourceWhole
  BY DEF IInv
<1> QED
  BY <1>1, Invariance, PTL

\* A leftover folder has the sidecar that the scan at launch looks for.
THEOREM LeftoverIsListed == Spec => []LeftoverTreeListed
<1>1. IInv => LeftoverTreeListed
  BY DEF IInv, SessionInv, TreeListed, LeftoverTreeListed
<1> QED
  BY <1>1, Invariance, PTL

\* Only one action gets a session from the window to "remove".
LEMMA InstallIsReplace ==
  ASSUME TypeOK, [Next]_vars, NEW s \in Session, Installs(s)
  PROVE  Replace(s)
<1> USE DEF TypeOK, Installs, Go, SetPhase, sync, disk, hist
<1>1. ~UNCHANGED vars
  BY DEF vars
<1>2. ~RemoteWrite
  BY DEF RemoteWrite
<1>3. PICK t \in Session : SessionNext(t)
  BY <1>1, <1>2 DEF Next
<1>4. t = s
  BY <1>3, OthersUndisturbed DEF Undisturbed
<1>5. ~Checkout(s)
  BY DEF Checkout, CheckoutHash, CheckoutCopy, CheckoutCopyFails, CheckoutVerify,
         CheckoutChanged
<1>6. ~Mount(s)
  BY DEF Mount, MountExport, ExportFile, ExportDone, ExportFails, MountAdopt, MarkMounted,
         Edit, SealBegin, SealDone, SealFails, ShredFile, ShredDone, ShredFails,
         MarkUnmounted, MountFuse, FuseSync, FuseSyncDone, FuseSyncFails
<1>7. ~(Resume(s) \/ Discard(s) \/ SidecarFails(s) \/ Crash(s) \/ CrashInRemove(s))
  BY DEF Resume, Discard, SidecarFails, Crash, CrashInRemove, Abandon
<1>8. Checkin(s) => Replace(s)
  BY DEF Checkin, CheckinRefused, CheckinAlreadyDone, CheckinDiffers, CheckinAssert,
         CheckinRemoteChanged, StageTemp, StageTempFails, CheckinRecheck,
         RecheckRemoteChanged, ReplaceFails, Remove
<1> QED
  BY <1>3, <1>4, <1>5, <1>6, <1>7, <1>8 DEF SessionNext

\* C101: nothing but the fingerprinted brick, or what was written after the last
\* look at it, is replaced.
THEOREM OnlyFingerprintedReplaced == Spec => ReplacesOnlyFingerprinted
<1>1. IInv /\ [Next]_vars =>
        \A s \in Session : Installs(s) => source = fp[s] \/ s \in raced
  BY DEF IInv, SessionInv, Fingerprinted, Window, Installs
<1> QED
  BY <1>1, Invariance, PTL DEF Spec, ReplacesOnlyFingerprinted

\* What a check-in puts into the sync folder holds every edit of the session.
THEOREM AllEditsDelivered == Spec => DeliversAllEdits
<1>1. IInv /\ [Next]_vars =>
        \A s \in Session \ maimed : Installs(s) => ~unsaved'[s]
  <2> SUFFICES ASSUME IInv, [Next]_vars, NEW s \in Session \ maimed, Installs(s)
               PROVE  ~unsaved'[s]
    OBVIOUS
  <2>1. Replace(s)
    BY InstallIsReplace DEF IInv
  <2>2. temps[s] = brick[s] /\ tree[s] = "none" /\ EditKept(s)
    BY <2>1 DEF IInv, SessionInv, StagedBrick, NoTreeInCheckin, CheckinSteps, Replace, Go
  <2> QED
    BY <2>1, <2>2 DEF Replace, Delivered, EditKept, IInv, TypeOK
<1> QED
  BY <1>1, Invariance, PTL DEF Spec, DeliversAllEdits

=============================================================================
