----------------------------- MODULE VaultFile -----------------------------
(***************************************************************************)
(* One vault.vlt on one machine, the processes that open and save it, and  *)
(* the local rollback anchor beside it (constraints C16 and C32).          *)
(*                                                                         *)
(* Two kinds of process: a command of blindkey-cli reads the vault, asks   *)
(* its questions, saves once and ends; the window of blindkey-gui keeps    *)
(* the vault it read in memory and saves it after every change, be it only *)
(* the use counter of a copied password.  Both write the same temporary,   *)
(* vault.vlt.tmp, and rename it over the vault; nothing but the anchor is  *)
(* locked.  How a temporary shared by several writers behaves is in        *)
(* TempRename, where `file', `tmp' and `fd' are.                           *)
(***************************************************************************)
EXTENDS Naturals, TempRename

CONSTANTS
  Gui,        \* the processes that are windows; the others are commands
  Update,     \* changes to the vault; every save brings a new one
  MaxFaults   \* bound on crashes, I/O errors and rollbacks

ASSUME GuiAssumption    == Gui \subseteq Proc
ASSUME MarkerAssumption ==
  /\ Torn # Absent
  /\ \A m \in {Torn, Absent} : m \notin [ver : Nat, ups : SUBSET Update]
ASSUME FaultsAssumption == MaxFaults \in Nat

VARIABLES
  anchor,     \* the last-seen version in <vault_id>.state
  pc, mem,    \* per process: where it is, and the vault it holds
  fresh,      \* updates not made yet
  acked,      \* history: updates whose save was reported as done
  noted,      \* history: the highest version a finished save recorded
  floor,      \* history: per process, noted when it read the vault
  top,        \* history: the highest version vault.vlt ever had
  gens,       \* history: the vaults vault.vlt ever was
  rolled,     \* history: the storage has served an older vault
  overlapped, \* history: a process read the vault while another held it
  faults      \* what went wrong so far

procs == <<pc, mem, fd>>
hist  == <<acked, noted, floor, top, gens, rolled, overlapped>>
vars  == <<file, tmp, fileBy, tmpBy, anchor, pc, mem, fd, fresh,
           acked, noted, floor, top, gens, rolled, overlapped, faults>>

Version == Nat
Vault   == [ver : Version, ups : SUBSET Update]
Empty   == [ver |-> 1, ups |-> {}]

Steps == {"out", "read", "seen", "open", "saved", "tmp", "writing", "written", "note"}

TypeOK ==
  /\ file \in Vault \cup {Torn}
  /\ tmp \in Vault \cup {Torn, Absent}
  /\ fileBy \subseteq Proc /\ tmpBy \subseteq Proc
  /\ anchor \in Version
  /\ pc \in [Proc -> Steps]
  /\ mem \in [Proc -> Vault]
  /\ fd \in [Proc -> Places]
  /\ fresh \subseteq Update /\ acked \subseteq Update
  /\ noted \in Version /\ top \in Version
  /\ floor \in [Proc -> Version]
  /\ gens \subseteq Vault
  /\ rolled \in BOOLEAN /\ overlapped \in BOOLEAN
  /\ faults \in 0 .. MaxFaults

\* cmd_init and try_create: the first save has version 1 and seeds the anchor.
Init ==
  /\ file = Empty /\ tmp = Absent
  /\ fileBy = {} /\ tmpBy = {}
  /\ anchor = 1
  /\ pc = [p \in Proc |-> "out"]
  /\ mem = [p \in Proc |-> Empty]
  /\ fd = [p \in Proc |-> "none"]
  /\ fresh = Update /\ acked = {}
  /\ noted = 1 /\ top = 1
  /\ floor = [p \in Proc |-> 1]
  /\ gens = {Empty}
  /\ rolled = FALSE /\ overlapped = FALSE
  /\ faults = 0

Go(p, from, to) == pc[p] = from /\ pc' = [pc EXCEPT ![p] = to]

Fault == faults < MaxFaults /\ faults' = faults + 1

\* A failure that the state explains is not counted.
FaultUnless(cause) == IF cause THEN UNCHANGED faults ELSE Fault

Higher(v, w) == IF v >= w THEN v ELSE w

\* Where a process goes when a save is over: a command ends, a window goes on.
After(p) == IF p \in Gui THEN "open" ELSE "out"

(***************************************************************************)
(* Opening: read the file, unlock it, then compare with the anchor.        *)
(***************************************************************************)

ReadVault(p) ==
  /\ Go(p, "out", "read")
  /\ file # Torn
  /\ mem' = [mem EXCEPT ![p] = file]
  /\ floor' = [floor EXCEPT ![p] = noted]
  /\ overlapped' = (overlapped \/ \E q \in Proc : pc[q] # "out")
  /\ UNCHANGED <<disk, anchor, fd, fresh, acked, noted, top, gens, rolled, faults>>

\* rollback::check.
Regressed(p) == mem[p].ver < anchor

GuardOk(p) ==
  /\ ~Regressed(p)
  /\ Go(p, "read", "seen")
  /\ UNCHANGED <<disk, anchor, mem, fd, fresh, hist, faults>>

\* Mutant: the version is written as it comes, without the maximum.
AdvanceTo(v) == anchor' = v

\* advance_anchor: re-read and written under flock, so one step.
Advance(v) == anchor' = Higher(anchor, v)

GuardAdvance(p) ==
  /\ Go(p, "seen", "open")
  /\ Advance(mem[p].ver)
  /\ UNCHANGED <<disk, mem, fd, fresh, hist, faults>>

\* A window shows a warning and goes on; a command exits with code 2 or, told
\* to by a flag or by the operator, goes on; the anchor stays.
GuardRegressed(p) ==
  /\ Regressed(p)
  /\ Go(p, "read", "open") \/ (p \notin Gui /\ Go(p, "read", "out"))
  /\ UNCHANGED <<disk, anchor, mem, fd, fresh, hist, faults>>

\* A command that changes nothing ends; a window is locked or closed.
Close(p) ==
  /\ Go(p, "open", "out")
  /\ UNCHANGED <<disk, anchor, mem, fd, fresh, hist, faults>>

(***************************************************************************)
(* Saving: save_body counts the version up in memory, write_vault writes   *)
(* the temporary and renames it, note_saved advances the anchor.           *)
(***************************************************************************)

\* Mutant: the anchor is advanced before the vault is written.
SaveNoted(p) ==
  /\ Go(p, "open", "saved")
  /\ \E u \in fresh :
       /\ fresh' = fresh \ {u}
       /\ mem' = [mem EXCEPT ![p] = [ver |-> @.ver + 1, ups |-> @.ups \cup {u}]]
  /\ Advance(mem'[p].ver)
  /\ UNCHANGED <<disk, fd, hist, faults>>

\* Mutant: the version is not counted up.
SaveUncounted(p) ==
  /\ Go(p, "open", "saved")
  /\ \E u \in fresh :
       /\ fresh' = fresh \ {u}
       /\ mem' = [mem EXCEPT ![p] = [ver |-> @.ver, ups |-> @.ups \cup {u}]]
  /\ UNCHANGED <<disk, anchor, fd, hist, faults>>

Save(p) ==
  /\ Go(p, "open", "saved")
  /\ \E u \in fresh :
       /\ fresh' = fresh \ {u}
       /\ mem' = [mem EXCEPT ![p] = [ver |-> @.ver + 1, ups |-> @.ups \cup {u}]]
  /\ UNCHANGED <<disk, anchor, fd, hist, faults>>

OpenTmp(p) ==
  /\ Go(p, "saved", "tmp")
  /\ Truncate(p)
  /\ UNCHANGED <<anchor, mem, fresh, hist, faults>>

WriteBegin(p) ==
  /\ Go(p, "tmp", "writing")
  /\ Begin(p)
  /\ UNCHANGED <<anchor, mem, fresh, hist, faults>>

\* History: v is in vault.vlt now.
Published(v) ==
  IF v = Torn THEN UNCHANGED <<gens, top>>
  ELSE gens' = gens \cup {v} /\ top' = Higher(top, v.ver)

WriteEnd(p) ==
  /\ Go(p, "writing", "written")
  /\ Finish(p, mem[p])
  /\ Published(file')
  /\ UNCHANGED <<anchor, mem, fresh, acked, noted, floor, rolled, overlapped, faults>>

\* Mutant: a temporary that is gone counts as renamed.
RenameUnchecked(p) ==
  /\ Go(p, "written", "note")
  /\ file' = tmp /\ fileBy' = tmpBy
  /\ tmp' = Absent /\ tmpBy' = {}
  /\ fd' = [[q \in Proc |-> Moved(q)] EXCEPT ![p] = "none"]
  /\ UNCHANGED <<anchor, mem, fresh, hist, faults>>

Rename(p) ==
  /\ Go(p, "written", "note")
  /\ Install(p)
  /\ Published(file')
  /\ UNCHANGED <<anchor, mem, fresh, acked, noted, floor, rolled, overlapped, faults>>

\* Opening, writing or renaming fails, the latter also when the temporary is no
\* longer there.  The command reports it and ends; the window stays open with
\* the change, and its version, in memory.
SaveFails(p) ==
  /\ \E at \in {"saved", "tmp", "writing", "written"} : Go(p, at, After(p))
  /\ FaultUnless(pc[p] = "written" /\ tmp = Absent)
  /\ GiveUp(p)
  /\ UNCHANGED <<anchor, mem, fresh, hist>>

\* Mutant: the save is reported as done whether or not the rename succeeded.
NoteSavedUnchecked(p) ==
  /\ Go(p, "note", After(p)) \/ Go(p, "written", After(p))
  /\ Advance(mem[p].ver)
  /\ noted' = Higher(noted, mem[p].ver)
  /\ acked' = acked \cup mem[p].ups
  /\ UNCHANGED <<disk, mem, fd, fresh, floor, top, gens, rolled, overlapped, faults>>

NoteSaved(p) ==
  /\ Go(p, "note", After(p))
  /\ Advance(mem[p].ver)
  /\ noted' = Higher(noted, mem[p].ver)
  /\ acked' = acked \cup mem[p].ups
  /\ UNCHANGED <<disk, mem, fd, fresh, floor, top, gens, rolled, overlapped, faults>>

(***************************************************************************)
(* What else happens.                                                      *)
(***************************************************************************)

Crash(p) ==
  /\ pc[p] # "out"
  /\ Fault
  /\ pc' = [pc EXCEPT ![p] = "out"]
  /\ GiveUp(p)
  /\ UNCHANGED <<anchor, mem, fresh, hist>>

\* The storage replaces the vault by one it had before.
Rollback ==
  /\ Fault
  /\ \E v \in gens : v # file /\ file' = v
  /\ fileBy' = {}
  /\ fd' = [q \in Proc |-> IF fd[q] = "file" THEN "lost" ELSE fd[q]]
  /\ rolled' = TRUE
  /\ UNCHANGED <<tmp, tmpBy, anchor, pc, mem, fresh, acked, noted, floor, top, gens, overlapped>>

Open(p) == ReadVault(p) \/ GuardOk(p) \/ GuardAdvance(p) \/ GuardRegressed(p) \/ Close(p)

Write(p) ==
  \/ Save(p) \/ OpenTmp(p) \/ WriteBegin(p) \/ WriteEnd(p) \/ Rename(p)
  \/ SaveFails(p) \/ NoteSaved(p)

Next == (\E p \in Proc : Open(p) \/ Write(p) \/ Crash(p)) \/ Rollback

Spec == Init /\ [][Next]_vars

(***************************************************************************)
(* Properties.                                                             *)
(***************************************************************************)

\* C32: as long as the processes of this machine take turns, vault.vlt is a whole
\* vault wherever a save is cut short, and a save that was reported as done stays
\* in it, in any order of crashes, failed saves and later saves, unless the
\* storage goes back.
AckedUnlessOverlapped ==
  overlapped \/ (file # Torn /\ (rolled \/ acked \subseteq file.ups))

\* UC-07 3.4 (3): the anchor is advanced after the rename, so it is never ahead
\* of every vault there has been, wherever a save is cut short.
AnchorNotAhead == overlapped \/ anchor <= top

\* C16: whoever gets past the guard without a warning holds a vault at least as
\* new as any whose save had been finished when it read the file, whatever the
\* storage served and whoever else was at work.
NoSilentRegression ==
  \A p \in Proc : pc[p] = "seen" => mem[p].ver >= floor[p]

\* The warning is raised only about a vault that the storage did take back,
\* unless processes overlap.
NoFalseAlarm ==
  \A p \in Proc : pc[p] = "read" /\ Regressed(p) => rolled \/ overlapped

\* All of this at once, and more: while the processes take turns and the storage
\* does not go back, the vault is a VaultStore.  Nobody asks before the rename
\* whether the file is still the one that was read, and yet whatever was saved,
\* reported or not, is in every vault that is put over it, under a later version.
Store == INSTANCE VaultStore WITH
  value <- file, copy <- [p \in Proc |-> IF pc[p] = "out" THEN Absent ELSE mem[p]],
  mark <- anchor, loose <- overlapped \/ rolled, None <- Absent

ImplementsStore == Store!Spec

=============================================================================
