---------------------------- MODULE Vault_proofs ----------------------------
(***************************************************************************)
(* A vault as a file and as a body.  First VaultFile: the rollback guard,  *)
(* the atomic save, and the versioned store they implement, proved for any *)
(* number of processes, windows, updates and faults.  Then Body, vaults    *)
(* and sealed files alike: what was written is what is read, for all       *)
(* lengths of fields, files, chunks and parts, and any number of edits and *)
(* saves.                                                                  *)
(***************************************************************************)
EXTENDS VaultFile, Body, FiniteSetTheorems, SequenceTheorems, TLAPS

(***************************************************************************)
(* Type correctness.                                                       *)
(***************************************************************************)

\* A vault nobody has open: the initial state is well typed.
LEMMA TypeInit == Init => TypeOK
<1> SUFFICES ASSUME Init PROVE TypeOK
  OBVIOUS
<1>1. Empty \in Vault /\ 1 \in Version
  BY DEF Empty, Vault, Version
<1>2. 0 \in 0 .. MaxFaults
  BY FaultsAssumption
<1> QED
  BY <1>1, <1>2 DEF Init, TypeOK, Steps, Places

\* The count of faults stays within its bound.
LEMMA FaultsBounded ==
  ASSUME TypeOK, NEW cause \in BOOLEAN, Fault \/ FaultUnless(cause)
  PROVE  faults' \in 0 .. MaxFaults
BY FaultsAssumption DEF TypeOK, Fault, FaultUnless

\* What a write leaves behind is a vault or torn.
LEMMA OutcomesType ==
  ASSUME TypeOK, NEW p \in Proc, NEW by
  PROVE  Outcomes(p, by, mem[p]) \subseteq Vault \cup {Torn}
BY DEF TypeOK, Outcomes

\* Recording a vault in the history keeps the history's types.
LEMMA PublishedType ==
  ASSUME TypeOK, NEW v \in Vault \cup {Torn}, Published(v)
  PROVE  gens' \subseteq Vault /\ top' \in Version
BY DEF TypeOK, Published, Higher, Vault, Version

\* Every step keeps the types.
LEMMA TypeNext == TypeOK /\ [Next]_vars => TypeOK'
<1> SUFFICES ASSUME TypeOK, [Next]_vars PROVE TypeOK'
  OBVIOUS
<1> USE DEF Go, After, disk, hist, Steps
<1>1. ASSUME NEW p \in Proc, Open(p) PROVE TypeOK'
  <2>1. CASE ReadVault(p)
    BY <2>1 DEF TypeOK, ReadVault
  <2>2. CASE GuardOk(p)
    BY <2>2 DEF TypeOK, GuardOk
  <2>3. CASE GuardAdvance(p)
    BY <2>3 DEF TypeOK, GuardAdvance, Advance, Higher, Vault
  <2>4. CASE GuardRegressed(p)
    BY <2>4 DEF TypeOK, GuardRegressed
  <2>5. CASE Close(p)
    BY <2>5 DEF TypeOK, Close
  <2> QED
    BY <1>1, <2>1, <2>2, <2>3, <2>4, <2>5 DEF Open
<1>2. ASSUME NEW p \in Proc, Write(p) PROVE TypeOK'
  <2>1. CASE Save(p)
    <3>1. PICK u \in Update :
            /\ fresh' = fresh \ {u}
            /\ mem' = [mem EXCEPT ![p] = [ver |-> @.ver + 1, ups |-> @.ups \cup {u}]]
      BY <2>1 DEF Save, TypeOK
    <3>2. [ver |-> mem[p].ver + 1, ups |-> mem[p].ups \cup {u}] \in Vault
      BY DEF TypeOK, Vault, Version
    <3> QED
      BY <2>1, <3>1, <3>2 DEF TypeOK, Save
  <2>2. CASE OpenTmp(p)
    BY <2>2 DEF TypeOK, OpenTmp, Truncate, Places
  <2>3. CASE WriteBegin(p)
    BY <2>3 DEF TypeOK, WriteBegin, Begin
  <2>4. CASE WriteEnd(p)
    <3>1. file' \in Vault \cup {Torn} /\ tmp' \in Vault \cup {Torn, Absent}
      BY <2>4, OutcomesType DEF TypeOK, WriteEnd, Finish
    <3>2. gens' \subseteq Vault /\ top' \in Version
      BY <2>4, <3>1, PublishedType DEF WriteEnd
    <3> QED
      BY <2>4, <3>1, <3>2 DEF TypeOK, WriteEnd, Finish
  <2>5. CASE Rename(p)
    <3>1. file' \in Vault \cup {Torn}
      BY <2>5 DEF TypeOK, Rename, Install
    <3>2. gens' \subseteq Vault /\ top' \in Version
      BY <2>5, <3>1, PublishedType DEF Rename
    <3>3. fd' \in [Proc -> Places]
      BY <2>5 DEF TypeOK, Rename, Install, Moved, Places
    <3> QED
      BY <2>5, <3>1, <3>2, <3>3 DEF TypeOK, Rename, Install
  <2>6. CASE SaveFails(p)
    <3>1. faults' \in 0 .. MaxFaults
      BY <2>6, FaultsBounded DEF SaveFails
    <3> QED
      BY <2>6, <3>1 DEF TypeOK, SaveFails, GiveUp, Places
  <2>7. CASE NoteSaved(p)
    BY <2>7 DEF TypeOK, NoteSaved, Advance, Higher, Vault
  <2> QED
    BY <1>2, <2>1, <2>2, <2>3, <2>4, <2>5, <2>6, <2>7 DEF Write
<1>3. ASSUME NEW p \in Proc, Crash(p) PROVE TypeOK'
  <2>1. faults' \in 0 .. MaxFaults
    BY <1>3, FaultsBounded DEF Crash
  <2> QED
    BY <1>3, <2>1 DEF TypeOK, Crash, GiveUp, Places
<1>4. CASE Rollback
  <2>1. faults' \in 0 .. MaxFaults
    BY <1>4, FaultsBounded DEF Rollback
  <2> QED
    BY <1>4, <2>1 DEF TypeOK, Rollback, Places
<1>5. CASE UNCHANGED vars
  BY <1>5 DEF TypeOK, vars
<1> QED
  BY <1>1, <1>2, <1>3, <1>4, <1>5 DEF Next

\* Every variable keeps its type.
THEOREM TypeCorrect == Spec => []TypeOK
BY TypeInit, TypeNext, PTL DEF Spec

(***************************************************************************)
(* The guard.  The anchor is never below a version a finished save has     *)
(* recorded, so whoever compares with it compares with more than was       *)
(* recorded when it read the vault.                                        *)
(***************************************************************************)

\* The part of the guard that holds of every process at every step.
Recorded ==
  /\ noted <= anchor
  /\ \A p \in Proc : floor[p] <= noted
  /\ NoSilentRegression

\* Every step keeps it: recorded versions and the anchor only go up, and a step
\* past the guard compares with the anchor.
LEMMA RecordedNext == TypeOK /\ Recorded /\ [Next]_vars => Recorded'
<1> SUFFICES ASSUME TypeOK, Recorded, [Next]_vars PROVE Recorded'
  OBVIOUS
<1> USE DEF TypeOK, Version, Vault, Recorded, NoSilentRegression, Go, After, disk, hist
<1>1. ASSUME NEW p \in Proc, Open(p) PROVE Recorded'
  <2>1. CASE ReadVault(p)
    BY <2>1 DEF ReadVault
  <2>2. CASE GuardOk(p)
    BY <2>2 DEF GuardOk, Regressed
  <2>3. CASE GuardAdvance(p)
    BY <2>3 DEF GuardAdvance, Advance, Higher
  <2>4. CASE GuardRegressed(p)
    BY <2>4 DEF GuardRegressed
  <2>5. CASE Close(p)
    BY <2>5 DEF Close
  <2> QED
    BY <1>1, <2>1, <2>2, <2>3, <2>4, <2>5 DEF Open
<1>2. ASSUME NEW p \in Proc, Write(p) PROVE Recorded'
  <2>1. CASE Save(p)
    BY <2>1 DEF Save
  <2>2. CASE OpenTmp(p) \/ WriteBegin(p) \/ WriteEnd(p)
    BY <2>2 DEF OpenTmp, WriteBegin, WriteEnd, Truncate, Begin, Finish
  <2>3. CASE Rename(p) \/ SaveFails(p)
    BY <2>3 DEF Rename, SaveFails, Install, GiveUp
  <2>4. CASE NoteSaved(p)
    BY <2>4 DEF NoteSaved, Advance, Higher
  <2> QED
    BY <1>2, <2>1, <2>2, <2>3, <2>4 DEF Write
<1>3. ASSUME NEW p \in Proc, Crash(p) PROVE Recorded'
  BY <1>3 DEF Crash, GiveUp
<1>4. CASE Rollback
  BY <1>4 DEF Rollback
<1>5. CASE UNCHANGED vars
  BY <1>5 DEF vars
<1> QED
  BY <1>1, <1>2, <1>3, <1>4, <1>5 DEF Next

\* C16: nobody gets past the guard without a warning holding a vault older than
\* one whose save had been finished when it read the file.
THEOREM NoRegressionIsSilent == Spec => []NoSilentRegression
<1>1. Init => Recorded
  BY DEF Init, Recorded, NoSilentRegression, Version
<1>2. Recorded => NoSilentRegression
  BY DEF Recorded
<1> QED
  BY <1>1, <1>2, RecordedNext, TypeCorrect, PTL DEF Spec

(***************************************************************************)
(* Saves, as long as the processes take turns.                             *)
(***************************************************************************)

\* The one process that has the vault open, if there is one.
Alone == \A p, q \in Proc : pc[p] # "out" /\ pc[q] # "out" => p = q

\* Its temporary: opened, begun, and at last the vault it has in memory.
OwnTmp(p) ==
  /\ fd[p] # "none" => pc[p] \in {"tmp", "writing", "written"}
  /\ pc[p] \in {"tmp", "writing", "written"} => fd[p] = "tmp"
  /\ pc[p] = "tmp" => tmpBy = {}
  /\ pc[p] = "writing" => tmpBy = {p}
  /\ pc[p] = "written" => tmp = mem[p]

\* No vault is ahead of top: none there ever was, and none that the anchor is
\* about to be advanced to.
BelowTop ==
  /\ file \in gens
  /\ anchor <= top
  /\ \A v \in gens : v.ver <= top
  /\ \A p \in Proc : pc[p] \in {"read", "seen", "note"} => mem[p].ver <= top

\* What the process holds has everything the file has, and a later version once
\* it is being saved.
Holds(p) ==
  /\ pc[p] # "out" => mem[p].ver >= file.ver /\ file.ups \subseteq mem[p].ups
  /\ pc[p] \in {"read", "seen", "note"} => mem[p] = file
  /\ pc[p] \in {"saved", "tmp", "writing", "written"} => mem[p].ver > file.ver

\* Unless the storage went back, the file has all that was reported as saved and
\* is not behind the anchor.
UpToDate ==
  /\ anchor <= file.ver
  /\ acked \subseteq file.ups
  /\ \A p \in Proc : Holds(p)

Turns ==
  ~overlapped => /\ Alone
                 /\ \A p \in Proc : OwnTmp(p)
                 /\ BelowTop
                 /\ rolled \/ UpToDate

\* Opening keeps it: the process that reads is the only one, or they overlap.
LEMMA OpenKeepsTurns ==
  ASSUME TypeOK, Turns, NEW p \in Proc, Open(p)
  PROVE  Turns'
<1> USE DEF TypeOK, Version, Vault, Turns, Alone, OwnTmp, BelowTop, UpToDate, Holds,
            Go, disk, hist
<1>1. CASE ReadVault(p)
  <2> SUFFICES ASSUME ~overlapped'
               PROVE  (Alone /\ (\A q \in Proc : OwnTmp(q)) /\ BelowTop
                         /\ (rolled \/ UpToDate))'
    OBVIOUS
  <2>1. \A q \in Proc : pc[q] = "out"
    BY <1>1 DEF ReadVault
  <2>2. /\ pc' = [pc EXCEPT ![p] = "read"] /\ mem' = [mem EXCEPT ![p] = file]
        /\ UNCHANGED <<file, anchor, acked, gens, top, rolled, tmp, tmpBy, fd>>
    BY <1>1 DEF ReadVault
  <2>3. Alone' /\ (\A q \in Proc : OwnTmp(q))'
    <3>1. ~overlapped
      BY <1>1 DEF ReadVault
    <3>2. \A q \in Proc : fd'[q] = "none" /\ pc'[q] = IF q = p THEN "read" ELSE "out"
      BY <2>1, <2>2, <3>1
    <3> QED
      BY <3>2
  <2>4. BelowTop'
    BY <1>1, <2>1, <2>2 DEF ReadVault
  <2>5. (rolled \/ UpToDate)'
    <3>1. file.ver \in Nat /\ mem'[p] = file
      BY <1>1, <2>2 DEF ReadVault
    <3>2. \A q \in Proc : Holds(q)'
      BY <2>1, <2>2, <3>1
    <3>3. rolled \/ (anchor <= file.ver /\ acked \subseteq file.ups)
      BY <1>1 DEF ReadVault
    <3> QED
      BY <2>2, <3>2, <3>3
  <2> QED
    BY <2>3, <2>4, <2>5
<1>2. CASE GuardOk(p)
  BY <1>2 DEF GuardOk
<1>3. CASE GuardAdvance(p)
  BY <1>3 DEF GuardAdvance, Advance, Higher
<1>4. CASE GuardRegressed(p)
  BY <1>4 DEF GuardRegressed
<1>5. CASE Close(p)
  BY <1>5 DEF Close
<1> QED
  BY <1>1, <1>2, <1>3, <1>4, <1>5 DEF Open

\* So does every step of a save, failed ones included.
LEMMA WriteKeepsTurns ==
  ASSUME TypeOK, Turns, NEW p \in Proc, Write(p)
  PROVE  Turns'
<1> USE MarkerAssumption
    DEF TypeOK, Version, Vault, Turns, Alone, OwnTmp, BelowTop, UpToDate, Holds,
        Go, After, disk, hist
<1>1. CASE Save(p)
  BY <1>1 DEF Save
<1>2. CASE OpenTmp(p)
  BY <1>2 DEF OpenTmp, Truncate
<1>3. CASE WriteBegin(p)
  BY <1>3 DEF WriteBegin, Begin
<1>4. CASE WriteEnd(p)
  BY <1>4 DEF WriteEnd, Finish, Outcomes, Published, Higher
<1>5. CASE Rename(p)
  <2> SUFFICES ASSUME ~overlapped'
               PROVE  (Alone /\ (\A q \in Proc : OwnTmp(q)) /\ BelowTop
                         /\ (rolled \/ UpToDate))'
    OBVIOUS
  <2>1. ~overlapped /\ pc[p] = "written" /\ tmp = mem[p] /\ fd[p] = "tmp"
        /\ mem[p] \in Vault
    BY <1>5 DEF Rename, Install
  <2>2. \A q \in Proc : q # p => pc[q] = "out" /\ fd[q] = "none"
    BY <2>1
  <2>3. /\ pc' = [pc EXCEPT ![p] = "note"] /\ file' = mem[p]
        /\ \A q \in Proc : fd'[q] = "none"
        /\ UNCHANGED <<anchor, mem, acked, rolled>>
    BY <1>5, <2>1, <2>2 DEF Rename, Install, Moved
  <2>4. gens' = gens \cup {mem[p]} /\ top' = Higher(top, mem[p].ver)
    BY <1>5, <2>1, <2>3 DEF Rename, Install, Published
  <2>5. Alone' /\ (\A q \in Proc : OwnTmp(q))'
    BY <2>2, <2>3
  <2>6. BelowTop'
    <3> DEFINE v == mem[p].ver
    <3>1. v \in Nat /\ top' \in Nat /\ top <= top' /\ v <= top'
      BY <2>1, <2>4 DEF Higher
    <3>2. \A w \in gens' : w.ver <= top'
      BY <2>1, <2>4, <3>1
    <3>3. (\A q \in Proc : pc[q] \in {"read", "seen", "note"} => mem[q].ver <= top)'
      BY <2>2, <2>3, <3>1
    <3> QED
      BY <2>1, <2>3, <2>4, <3>1, <3>2, <3>3
  <2>7. (rolled \/ UpToDate)'
    BY <2>1, <2>2, <2>3
  <2> QED
    BY <2>5, <2>6, <2>7
<1>6. CASE SaveFails(p)
  BY <1>6 DEF SaveFails, GiveUp
<1>7. CASE NoteSaved(p)
  BY <1>7 DEF NoteSaved, Advance, Higher
<1> QED
  BY <1>1, <1>2, <1>3, <1>4, <1>5, <1>6, <1>7 DEF Write

\* So do a crash and a storage that goes back.
LEMMA FaultKeepsTurns ==
  ASSUME TypeOK, Turns, Rollback \/ \E p \in Proc : Crash(p)
  PROVE  Turns'
<1> USE DEF TypeOK, Version, Vault, Turns, Alone, OwnTmp, BelowTop, UpToDate, Holds,
            disk, hist
<1>1. CASE Rollback
  BY <1>1 DEF Rollback
<1>2. ASSUME NEW p \in Proc, Crash(p) PROVE Turns'
  BY <1>2 DEF Crash, GiveUp
<1> QED
  BY <1>1, <1>2

\* So it holds throughout.
LEMMA TurnsInvariant == Spec => []Turns
<1>1. Init => Turns
  BY DEF Init, Empty, Turns, Alone, OwnTmp, BelowTop, UpToDate, Holds
<1>2. TypeOK /\ Turns /\ [Next]_vars => Turns'
  <2> SUFFICES ASSUME TypeOK, Turns, [Next]_vars PROVE Turns'
    OBVIOUS
  <2>1. CASE UNCHANGED vars
    BY <2>1 DEF vars, Turns, Alone, OwnTmp, BelowTop, UpToDate, Holds
  <2> QED
    BY <2>1, OpenKeepsTurns, WriteKeepsTurns, FaultKeepsTurns DEF Next
<1> QED
  BY <1>1, <1>2, TypeCorrect, PTL DEF Spec

\* C32: as long as the processes take turns, the vault is whole wherever a save
\* is cut short, and what was reported as saved stays in it.
THEOREM AckedWhenTakingTurns == Spec => []AckedUnlessOverlapped
<1>1. TypeOK /\ Turns => overlapped \/ file # Torn
  BY MarkerAssumption DEF TypeOK, Vault, Version, Turns, BelowTop
<1>2. Turns => overlapped \/ rolled \/ file = Torn \/ acked \subseteq file.ups
  BY DEF Turns, UpToDate
<1>3. TypeOK /\ Turns => AckedUnlessOverlapped
  BY <1>1, <1>2 DEF AckedUnlessOverlapped
<1> QED
  BY <1>3, TypeCorrect, TurnsInvariant, PTL

\* As long as they do, the anchor never gets ahead of the vault, not even when a
\* save is cut short between the rename and the anchor.
THEOREM AnchorStaysBehind == Spec => []AnchorNotAhead
<1>1. Turns => AnchorNotAhead
  BY DEF Turns, BelowTop, AnchorNotAhead
<1> QED
  BY <1>1, TurnsInvariant, PTL

\* As long as they do, a warning means that the storage went back.
THEOREM AlarmsAreTrue == Spec => []NoFalseAlarm
<1>1. TypeOK /\ Turns => NoFalseAlarm
  BY DEF TypeOK, Vault, Version, Turns, UpToDate, BelowTop, Holds, Regressed, NoFalseAlarm
<1> QED
  BY <1>1, TypeCorrect, TurnsInvariant, PTL

(***************************************************************************)
(* The abstract store.                                                     *)
(***************************************************************************)

\* What the processes hold, as the store has it.
Copies == [p \in Proc |-> IF pc[p] = "out" THEN Absent ELSE mem[p]]

storeVars == <<file, Copies, anchor, overlapped \/ rolled>>

\* A step of p, as long as nobody overlaps and the storage does not go back, is
\* one of the store's or none of it.
StoreStep(p) == Store!Take(p) \/ Store!Change(p) \/ Store!Put(p) \/ Store!Note(p)
                  \/ Store!Release(p) \/ UNCHANGED <<file, Copies, anchor>>

\* A process that is at work has a copy, and nobody's copy but the one of whoever
\* takes a step changes.
LEMMA CopiesAre ==
  ASSUME TypeOK
  PROVE  \A p \in Proc : Copies[p] # Absent <=> pc[p] # "out"
BY MarkerAssumption DEF TypeOK, Vault, Version, Copies

LEMMA ReleasedIs ==
  ASSUME TypeOK, NEW p \in Proc, pc' = [pc EXCEPT ![p] = "out"], UNCHANGED mem
  PROVE  Copies' = Store!Released(p)
BY DEF TypeOK, Copies, Store!Released

LEMMA CopiesStay ==
  ASSUME TypeOK, NEW p \in Proc, NEW s \in Steps, pc[p] # "out", s # "out",
         pc' = [pc EXCEPT ![p] = s], UNCHANGED mem
  PROVE  UNCHANGED Copies
BY DEF TypeOK, Copies

\* Opening: the vault is taken by the only process there is, and the anchor
\* follows it.
LEMMA OpenIsStoreStep ==
  ASSUME TypeOK, Turns, ~overlapped, ~rolled, ~overlapped', NEW p \in Proc, Open(p)
  PROVE  StoreStep(p)
<1> USE DEF Go, disk, hist, Steps
<1>1. CASE ReadVault(p)
  <2>1. \A q \in Proc : pc[q] = "out"
    BY <1>1 DEF ReadVault
  <2>2. Copies' = [Copies EXCEPT ![p] = file]
    BY <1>1, <2>1 DEF ReadVault, Copies, TypeOK
  <2> QED
    BY <1>1, <2>1, <2>2, CopiesAre DEF ReadVault, Copies, Store!Take, StoreStep
<1>2. CASE GuardOk(p)
  BY <1>2, CopiesStay DEF GuardOk, StoreStep
<1>3. CASE GuardAdvance(p)
  <2>1. UNCHANGED <<file, Copies>>
    BY <1>3, CopiesStay DEF GuardAdvance
  <2>2. mem[p] = file /\ anchor <= file.ver /\ mem[p] \in Vault /\ anchor \in Nat
    BY <1>3 DEF GuardAdvance, Turns, UpToDate, Holds, TypeOK, Version
  <2>3. Copies[p] = file
    BY <1>3, <2>2 DEF GuardAdvance, Copies
  <2>4. anchor' = file.ver
    BY <1>3, <2>2 DEF GuardAdvance, Advance, Higher, Vault, Version
  <2> QED
    BY <2>1, <2>2, <2>3, <2>4 DEF Store!Note, StoreStep, Copies
<1>4. CASE GuardRegressed(p)
  <2>1. CASE Go(p, "read", "open")
    BY <1>4, <2>1, CopiesStay DEF GuardRegressed, StoreStep
  <2>2. CASE Go(p, "read", "out")
    BY <1>4, <2>2, ReleasedIs DEF GuardRegressed, StoreStep, Store!Release, Copies
  <2> QED
    BY <1>4, <2>1, <2>2 DEF GuardRegressed
<1>5. CASE Close(p)
  BY <1>5, ReleasedIs DEF Close, StoreStep, Store!Release, Copies
<1> QED
  BY <1>1, <1>2, <1>3, <1>4, <1>5 DEF Open

\* Saving: the change is one of the copy, and the rename the compare-and-swap that
\* the code does not ask for.
LEMMA WriteIsStoreStep ==
  ASSUME TypeOK, Turns, ~overlapped, ~rolled, ~overlapped', NEW p \in Proc, Write(p)
  PROVE  StoreStep(p)
<1> USE DEF Go, After, disk, hist, Steps
<1>1. CASE Save(p)
  <2>1. PICK u \in fresh :
          mem' = [mem EXCEPT ![p] = [ver |-> @.ver + 1, ups |-> @.ups \cup {u}]]
    BY <1>1 DEF Save
  <2>2. Copies[p] = mem[p] /\ mem[p] \in Vault
    BY <1>1 DEF Save, Copies, TypeOK
  <2>3. Copies' = [Copies EXCEPT ![p] = [ver |-> mem[p].ver + 1, ups |-> mem[p].ups \cup {u}]]
    BY <1>1, <2>1 DEF Save, Copies, TypeOK
  <2>4. u \in Update /\ Copies[p] # Absent
    BY <1>1, <2>1, CopiesAre DEF Save, TypeOK
  <2> QED
    BY <1>1, <2>2, <2>3, <2>4 DEF Save, Store!Change, StoreStep, Copies
<1>2. CASE OpenTmp(p)
  BY <1>2, CopiesStay DEF OpenTmp, Truncate, StoreStep
<1>3. CASE WriteBegin(p)
  <2>1. fd[p] = "tmp"
    BY <1>3 DEF WriteBegin, Turns, OwnTmp
  <2> QED
    BY <1>3, <2>1, CopiesStay DEF WriteBegin, Begin, StoreStep
<1>4. CASE WriteEnd(p)
  <2>1. fd[p] = "tmp"
    BY <1>4 DEF WriteEnd, Turns, OwnTmp
  <2> QED
    BY <1>4, <2>1, CopiesStay DEF WriteEnd, Finish, StoreStep
<1>5. CASE Rename(p)
  <2>1. tmp = mem[p] /\ mem[p].ver > file.ver /\ file.ups \subseteq mem[p].ups
    BY <1>5 DEF Rename, Turns, OwnTmp, UpToDate, Holds
  <2>2. Copies[p] = mem[p] /\ Copies[p] # Absent
    BY <1>5, CopiesAre DEF Rename, Copies
  <2>3. UNCHANGED <<Copies, anchor>> /\ file' = mem[p]
    BY <1>5, <2>1, CopiesStay DEF Rename, Install
  <2> QED
    BY <2>1, <2>2, <2>3 DEF Store!Put, StoreStep, Copies
<1>6. CASE SaveFails(p)
  <2>1. UNCHANGED <<file, anchor, mem>> /\ pc[p] # "out"
    BY <1>6 DEF SaveFails, GiveUp
  <2>2. CASE p \in Gui
    BY <1>6, <2>1, <2>2, CopiesStay DEF SaveFails, StoreStep
  <2>3. CASE p \notin Gui
    <3>1. Copies' = Store!Released(p)
      BY <1>6, <2>1, <2>3, ReleasedIs DEF SaveFails
    <3> QED
      BY <2>1, <3>1 DEF StoreStep, Store!Release, Copies
  <2> QED
    BY <2>2, <2>3
<1>7. CASE NoteSaved(p)
  <2>1. mem[p] = file /\ anchor <= file.ver /\ mem[p] \in Vault /\ anchor \in Nat
    BY <1>7 DEF NoteSaved, Turns, UpToDate, Holds, TypeOK, Version
  <2>2. Copies[p] = file /\ UNCHANGED file
    BY <1>7, <2>1 DEF NoteSaved, Copies
  <2>3. anchor' = file.ver
    BY <1>7, <2>1 DEF NoteSaved, Advance, Higher, Vault, Version
  <2>4. Copies' = Copies \/ Copies' = Store!Released(p)
    BY <1>7, CopiesStay, ReleasedIs DEF NoteSaved
  <2> QED
    BY <2>1, <2>2, <2>3, <2>4 DEF Store!Note, StoreStep, Copies
<1> QED
  BY <1>1, <1>2, <1>3, <1>4, <1>5, <1>6, <1>7 DEF Write

\* Every step is one of the store's.
LEMMA StepIsStoreStep ==
  ASSUME TypeOK, Turns, [Next]_vars
  PROVE  [Store!Next]_storeVars
<1> SUFFICES ASSUME ~overlapped', ~rolled' PROVE [~(overlapped \/ rolled) /\ Store!Step]_storeVars
  BY DEF Store!Next
<1>1. ~(overlapped \/ rolled)
  BY DEF Next, Open, Write, ReadVault, GuardOk, GuardAdvance, GuardRegressed, Close, Save,
         OpenTmp, WriteBegin, WriteEnd, Rename, SaveFails, NoteSaved, Crash, Rollback,
         hist, vars
<1>2. ASSUME NEW p \in Proc, StoreStep(p) PROVE [Store!Step]_storeVars
  BY <1>1, <1>2 DEF StoreStep, Store!Step, storeVars
<1>3. ASSUME NEW p \in Proc, Open(p) \/ Write(p) PROVE [Store!Step]_storeVars
  <2>1. StoreStep(p)
    BY <1>1, <1>3, OpenIsStoreStep, WriteIsStoreStep
  <2> QED
    BY <1>2, <2>1
<1>4. ASSUME NEW p \in Proc, Crash(p) PROVE [Store!Step]_storeVars
  <2>1. Copies' = Store!Released(p)
    BY <1>4, ReleasedIs DEF Crash
  <2> QED
    BY <1>2, <1>4, <2>1 DEF Crash, GiveUp, disk, StoreStep, Store!Release, Copies
<1>5. ~Rollback
  BY DEF Rollback
<1>6. CASE UNCHANGED vars
  BY <1>6 DEF vars, storeVars, Copies
<1> QED
  BY <1>1, <1>3, <1>4, <1>5, <1>6 DEF Next

\* C32 and C16 together: while the processes take turns and the storage does not go
\* back, the vault and its anchor are a store that is only written with
\* compare-and-swap, though the code compares nothing before it renames.
THEOREM ImplementsStoreHolds == Spec => ImplementsStore
<1>1. Init => Store!Init
  BY DEF Init, Empty, Store!Init
<1>2. TypeOK /\ Turns /\ [Next]_vars => [Store!Next]_storeVars
  BY StepIsStoreStep
<1> QED
  BY <1>1, <1>2, TypeCorrect, TurnsInvariant, PTL
  DEF Spec, ImplementsStore, Store!Spec, storeVars, Copies

-----------------------------------------------------------------------------
(***************************************************************************)
(* Numbers and sequences.                                                  *)
(***************************************************************************)

\* A set of numbers that is not empty has a least one.
LEMMA LeastOf ==
  ASSUME NEW I \in SUBSET Nat, I # {}
  PROVE  \E i \in I : \A n \in I : ~(n < i)
<1> DEFINE Less == {r \in Nat \X Nat : r[1] < r[2]}
<1>1. IsWellFoundedOn(Less, Nat)
  BY NatLessThanWellFounded, Zenon DEF OpToRel
<1>2. PICK i \in I : \A n \in I : ~(<<n, i>> \in Less)
  BY <1>1, WFMin, Zenon
<1> QED
  BY <1>2

\* What is in a set at 0 and from each step to the next is in it throughout.
LEMMA StepByStep ==
  ASSUME NEW n \in Nat, NEW G, 0 \in G, \A i \in 0 .. n : i \in G /\ i + 1 <= n => i + 1 \in G
  PROVE  \A i \in 0 .. n : i \in G
<1> DEFINE Bad == {i \in 0 .. n : i \notin G}
<1> SUFFICES ASSUME Bad # {} PROVE FALSE
  OBVIOUS
<1>1. Bad \in SUBSET Nat
  OBVIOUS
<1>2. PICK i \in Bad : \A k \in Bad : ~(k < i)
  <2> HIDE DEF Bad
  <2> QED BY <1>1, LeastOf
<1>3. i \in 0 .. n /\ i # 0 /\ i \notin G
  BY <1>2
<1>4. i - 1 \in 0 .. n /\ i - 1 \notin Bad
  BY <1>2, <1>3
<1> QED
  BY <1>3, <1>4

\* The recursion that joins the first m of the sequences ss has a solution.
LEMMA JoinExists ==
  ASSUME NEW ss, NEW m \in Nat
  PROVE  \E f : f = [i \in 1 .. m |-> IF i = 1 THEN ss[i] ELSE f[i - 1] \o ss[i]]
<1> DEFINE Solved(k) == \E f : f = [i \in 1 .. k |-> IF i = 1 THEN ss[i] ELSE f[i - 1] \o ss[i]]
           G == {k \in 0 .. m : Solved(k)}
<1>1. 0 \in G
  <2> DEFINE z == [i \in 1 .. 0 |-> << >>]
  <2>1. z = [i \in 1 .. 0 |-> IF i = 1 THEN ss[i] ELSE z[i - 1] \o ss[i]]
    OBVIOUS
  <2> HIDE DEF z
  <2>2. Solved(0)
    BY <2>1
  <2> HIDE DEF Solved
  <2> QED BY <2>2
<1>2. ASSUME NEW k \in 0 .. m, k \in G, k + 1 <= m PROVE k + 1 \in G
  <2>1. PICK f : f = [i \in 1 .. k |-> IF i = 1 THEN ss[i] ELSE f[i - 1] \o ss[i]]
    BY <1>2
  <2> DEFINE g == [i \in 1 .. k + 1 |-> IF i <= k THEN f[i]
                                        ELSE IF i = 1 THEN ss[i] ELSE f[i - 1] \o ss[i]]
             T(h, i) == IF i = 1 THEN ss[i] ELSE h[i - 1] \o ss[i]
  <2>2. \A i \in 1 .. k : f[i] = T(f, i)
    BY <2>1, Zenon
  <2>3. \A i \in 1 .. k + 1 : i # 1 => i - 1 \in 1 .. k + 1 /\ g[i - 1] = f[i - 1]
    OBVIOUS
  <2>4. \A i \in 1 .. k + 1 : g[i] = T(f, i)
    <3> HIDE DEF T
    <3>1. ASSUME NEW i \in 1 .. k + 1 PROVE g[i] = T(f, i)
      <4>1. CASE i <= k
        BY <2>2, <3>1, <4>1
      <4>2. CASE ~(i <= k)
        BY <4>2 DEF T
      <4> QED BY <4>1, <4>2
    <3> QED BY <3>1
  <2>5. \A i \in 1 .. k + 1 : T(g, i) = T(f, i)
    <3> HIDE DEF g
    <3> QED BY <2>3
  <2>6. g = [i \in 1 .. k + 1 |-> g[i]]
    OBVIOUS
  <2> HIDE DEF g, T
  <2>7. g = [i \in 1 .. k + 1 |-> T(g, i)]
    BY <2>4, <2>5, <2>6
  <2>8. \E h : h = [i \in 1 .. k + 1 |-> T(h, i)]
    BY <2>7
  <2>9. Solved(k + 1)
    BY <2>8 DEF T
  <2> HIDE DEF Solved
  <2> QED BY <1>2, <2>9
<1>3. m \in G
  <2> HIDE DEF G
  <2> QED BY <1>1, <1>2, StepByStep
<1> QED BY <1>3

\* The sequences ss, as far as the i-th, joined.
Join(ss, i) == FlattenSeq(SubSeq(ss, 1, i))

\* Joined, one more sequence comes behind the others.
LEMMA FlattenAppend ==
  ASSUME NEW S, NEW ss \in Seq(Seq(S)), NEW s \in Seq(S)
  PROVE  FlattenSeq(Append(ss, s)) = FlattenSeq(ss) \o s
<1> DEFINE n == Len(ss)
           tt == Append(ss, s)
           F[i \in 1 .. n] == IF i = 1 THEN ss[i] ELSE F[i - 1] \o ss[i]
           H[i \in 1 .. n + 1] == IF i = 1 THEN tt[i] ELSE H[i - 1] \o tt[i]
<1>1. n \in Nat /\ Len(tt) = n + 1 /\ tt[n + 1] = s /\ \A i \in 1 .. n : tt[i] = ss[i]
  BY AppendProperties
<1>2. F = [i \in 1 .. n |-> IF i = 1 THEN ss[i] ELSE F[i - 1] \o ss[i]]
  <2>1. \E f : f = [i \in 1 .. n |-> IF i = 1 THEN ss[i] ELSE f[i - 1] \o ss[i]]
    BY <1>1, JoinExists
  <2> QED BY <2>1, Zenon
<1>3. H = [i \in 1 .. n + 1 |-> IF i = 1 THEN tt[i] ELSE H[i - 1] \o tt[i]]
  <2>1. \E f : f = [i \in 1 .. n + 1 |-> IF i = 1 THEN tt[i] ELSE f[i - 1] \o tt[i]]
    <3>1. n + 1 \in Nat
      BY <1>1
    <3> HIDE DEF tt, n
    <3> QED BY <3>1, JoinExists
  <2> QED BY <2>1, Zenon
<1>4. FlattenSeq(ss) = IF n = 0 THEN ss ELSE F[n]
  BY DEF FlattenSeq
<1>5. FlattenSeq(tt) = H[n + 1]
  <2>1. Len(tt) # 0 /\ Len(tt) = n + 1
    BY <1>1
  <2>2. FlattenSeq(tt) = IF Len(tt) = 0 THEN tt ELSE
          LET flatten[i \in 1 .. Len(tt)] == IF i = 1 THEN tt[i] ELSE flatten[i - 1] \o tt[i]
          IN flatten[Len(tt)]
    BY DEF FlattenSeq
  <2> HIDE DEF tt
  <2> QED BY <2>1, <2>2
<1> HIDE DEF F, H
<1>6. /\ \A i \in 1 .. n : F[i] = IF i = 1 THEN ss[i] ELSE F[i - 1] \o ss[i]
      /\ \A i \in 1 .. n + 1 : H[i] = IF i = 1 THEN tt[i] ELSE H[i - 1] \o tt[i]
  BY <1>2, <1>3, Zenon
<1> HIDE DEF tt
<1>7. \A i \in 1 .. n : H[i] = F[i]
  <2> DEFINE G == {i \in 0 .. n : i = 0 \/ H[i] = F[i]}
  <2>1. ASSUME NEW i \in 0 .. n, i \in G, i + 1 <= n PROVE i + 1 \in G
    <3>1. i + 1 \in 1 .. n /\ i + 1 \in 1 .. n + 1 /\ (i + 1) - 1 = i /\ tt[i + 1] = ss[i + 1]
      BY <1>1, <2>1
    <3> QED BY <1>6, <2>1, <3>1
  <2>2. 0 \in G
    BY <1>1
  <2> HIDE DEF G
  <2>3. \A i \in 0 .. n : i \in G
    BY <1>1, <2>1, <2>2, StepByStep
  <2> QED BY <1>1, <2>3 DEF G
<1>8. CASE n = 0
  <2>1. ss = << >> /\ << >> \o s = s
    BY <1>8
  <2>2. FlattenSeq(tt) = FlattenSeq(ss) \o s
    BY <1>1, <1>4, <1>5, <1>6, <1>8, <2>1
  <2> QED BY <2>2 DEF tt
<1>9. CASE n # 0
  <2>1. n \in 1 .. n /\ n + 1 \in 1 .. n + 1 /\ (n + 1) - 1 = n /\ n + 1 # 1
    BY <1>1, <1>9
  <2>2. FlattenSeq(tt) = FlattenSeq(ss) \o s
    <3>1. H[n + 1] = H[n] \o tt[n + 1]
      BY <1>6, <2>1
    <3> QED BY <1>1, <1>4, <1>5, <1>7, <1>9, <2>1, <3>1
  <2> QED BY <2>2 DEF tt
<1> QED BY <1>8, <1>9

\* The first i of a sequence are the first i - 1 and the i-th.
LEMMA FrontStep ==
  ASSUME NEW S, NEW s \in Seq(S), NEW i \in 1 .. Len(s)
  PROVE  SubSeq(s, 1, i) = Append(SubSeq(s, 1, i - 1), s[i])
<1>1. 1 \in 1 .. Len(s) /\ i \in 1 .. i /\ Len(s) \in Nat /\ s[i] \in S
  BY LenProperties, ElementOfSeq
<1>2. SubSeq(s, 1, i) = SubSeq(s, 1, i - 1) \o <<s[i]>>
  BY <1>1, SubSeqRecursiveSecond
<1>3. SubSeq(s, 1, i - 1) \in Seq(S)
  BY <1>1, SubSeqProperties, ElementOfSeq
<1> QED BY <1>1, <1>2, <1>3, AppendIsConcat

\* The first a of a sequence.
LEMMA FrontIs ==
  ASSUME NEW S, NEW s \in Seq(S), NEW a \in 0 .. Len(s)
  PROVE  /\ SubSeq(s, 1, a) \in Seq(S) /\ Len(SubSeq(s, 1, a)) = a
         /\ SubSeq(s, 1, a) = [x \in 1 .. a |-> s[x]]
         /\ \A x \in 1 .. a : SubSeq(s, 1, a)[x] = s[x]
<1>1. Len(s) \in Nat /\ a \in Nat
  BY LenProperties
<1>2. \A x \in 1 .. a : s[x] \in S
  BY <1>1, ElementOfSeq
<1>3. /\ SubSeq(s, 1, a) \in Seq(S)
      /\ Len(SubSeq(s, 1, a)) = IF 1 <= a THEN a - 1 + 1 ELSE 0
      /\ \A x \in 1 .. a - 1 + 1 : SubSeq(s, 1, a)[x] = s[1 + x - 1]
  BY <1>1, <1>2, SubSeqProperties
<1> DEFINE u == SubSeq(s, 1, a)
<1> HIDE DEF u
<1>4. u \in Seq(S) /\ Len(u) = a /\ \A x \in 1 .. a : u[x] = s[x]
  <2>1. Len(u) = a /\ a - 1 + 1 = a /\ \A x \in 1 .. a : 1 + x - 1 = x
    BY <1>1, <1>3 DEF u
  <2> QED BY <1>3, <2>1 DEF u
<1>5. u = [x \in 1 .. Len(u) |-> u[x]]
  BY <1>4, LenProperties
<1> QED BY <1>4, <1>5 DEF u

LEMMA JoinIs ==
  ASSUME NEW S, NEW ss \in Seq(Seq(S))
  PROVE  /\ Join(ss, 0) = << >>
         /\ Join(ss, Len(ss)) = FlattenSeq(ss)
         /\ \A i \in 1 .. Len(ss) : Join(ss, i) = Join(ss, i - 1) \o ss[i]
         /\ \A i \in 0 .. Len(ss) : Join(ss, i) \in Seq(S)
<1>0. Len(ss) \in Nat
  BY LenProperties
<1>1. Join(ss, 0) = << >>
  BY SubSeqEmpty DEF Join, FlattenSeq
<1>2. Join(ss, Len(ss)) = FlattenSeq(ss)
  BY SubSeqFull DEF Join
<1>3. ASSUME NEW i \in 1 .. Len(ss) PROVE Join(ss, i) = Join(ss, i - 1) \o ss[i]
  <2>1. SubSeq(ss, 1, i) = Append(SubSeq(ss, 1, i - 1), ss[i])
    BY FrontStep
  <2>2. SubSeq(ss, 1, i - 1) \in Seq(Seq(S)) /\ ss[i] \in Seq(S)
    BY <1>0, SubSeqProperties, ElementOfSeq
  <2> QED BY <2>1, <2>2, FlattenAppend DEF Join
<1>4. \A i \in 0 .. Len(ss) : Join(ss, i) \in Seq(S)
  <2> DEFINE G == {i \in 0 .. Len(ss) : Join(ss, i) \in Seq(S)}
  <2>1. 0 \in G
    <3>1. << >> \in Seq(S) /\ 0 \in 0 .. Len(ss)
      BY <1>0
    <3> QED BY <1>1, <3>1
  <2>2. ASSUME NEW i \in 0 .. Len(ss), i \in G, i + 1 <= Len(ss) PROVE i + 1 \in G
    <3>1. i + 1 \in 1 .. Len(ss) /\ (i + 1) - 1 = i /\ i + 1 \in 0 .. Len(ss)
      BY <1>0, <2>2
    <3>2. Join(ss, i + 1) = Join(ss, i) \o ss[i + 1] /\ Join(ss, i) \in Seq(S) /\ ss[i + 1] \in Seq(S)
      BY <1>3, <2>2, <3>1, ElementOfSeq
    <3> QED BY <3>1, <3>2, ConcatProperties
  <2> HIDE DEF G
  <2>3. \A i \in 0 .. Len(ss) : i \in G
    BY <1>0, <2>1, <2>2, StepByStep
  <2> QED BY <2>3 DEF G
<1> QED BY <1>1, <1>2, <1>3, <1>4

LEMMA FlattenType ==
  ASSUME NEW S, NEW ss \in Seq(Seq(S))
  PROVE  FlattenSeq(ss) \in Seq(S)
<1>1. Len(ss) \in 0 .. Len(ss)
  BY LenProperties
<1> QED BY <1>1, JoinIs

\* s is where b begins behind a.
LEMMA Behind ==
  ASSUME NEW S, NEW a \in Seq(S), NEW b \in Seq(S), NEW s, s = a \o b
  PROVE  /\ s \in Seq(S) /\ Len(a) \in Nat /\ Len(b) \in Nat /\ Len(s) = Len(a) + Len(b)
         /\ \A x \in 1 .. Len(a) : s[x] = a[x]
         /\ \A x \in 1 .. Len(b) : s[Len(a) + x] = b[x]
<1>1. Len(a) \in Nat /\ Len(b) \in Nat
  BY LenProperties
<1>2. /\ s \in Seq(S) /\ Len(s) = Len(a) + Len(b)
      /\ \A x \in 1 .. Len(a) + Len(b) : s[x] = IF x <= Len(a) THEN a[x] ELSE b[x - Len(a)]
  BY ConcatProperties, Zenon
<1>3. ASSUME NEW x \in 1 .. Len(b) PROVE s[Len(a) + x] = b[x]
  <2>1. Len(a) + x \in 1 .. Len(a) + Len(b) /\ ~(Len(a) + x <= Len(a)) /\ (Len(a) + x) - Len(a) = x
    BY <1>1
  <2> QED BY <1>2, <2>1
<1>4. \A x \in 1 .. Len(a) : s[x] = a[x]
  BY <1>1, <1>2
<1> QED BY <1>1, <1>2, <1>3, <1>4

LEMMA JoinStep ==
  ASSUME NEW S, NEW ss \in Seq(Seq(S)), NEW i \in 1 .. Len(ss)
  PROVE  /\ Len(Join(ss, i - 1)) \in Nat /\ Len(ss[i]) \in Nat
         /\ Len(Join(ss, i)) = Len(Join(ss, i - 1)) + Len(ss[i])
         /\ \A x \in 1 .. Len(Join(ss, i - 1)) : Join(ss, i)[x] = Join(ss, i - 1)[x]
         /\ \A x \in 1 .. Len(ss[i]) : Join(ss, i)[Len(Join(ss, i - 1)) + x] = ss[i][x]
<1>1. Join(ss, i - 1) \in Seq(S) /\ ss[i] \in Seq(S) /\ Join(ss, i) = Join(ss, i - 1) \o ss[i]
  <2>1. i - 1 \in 0 .. Len(ss)
    BY LenProperties
  <2> QED BY <2>1, JoinIs, ElementOfSeq
<1> QED BY <1>1, Behind

\* What is joined first stays where it is.
LEMMA JoinGrows ==
  ASSUME NEW S, NEW ss \in Seq(Seq(S)), NEW i \in 0 .. Len(ss), NEW k \in i .. Len(ss)
  PROVE  /\ Len(Join(ss, i)) \in Nat /\ Len(Join(ss, k)) \in Nat
         /\ Len(Join(ss, i)) <= Len(Join(ss, k))
         /\ \A x \in 1 .. Len(Join(ss, i)) : Join(ss, k)[x] = Join(ss, i)[x]
<1> DEFINE n == Len(ss)
           P(j) == Len(Join(ss, i)) <= Len(Join(ss, j))
                     /\ \A x \in 1 .. Len(Join(ss, i)) : Join(ss, j)[x] = Join(ss, i)[x]
           G == {j \in 0 .. n : j < i \/ P(j)}
<1>1. n \in Nat /\ i \in 0 .. n /\ k \in 0 .. n /\ ~(k < i)
  BY LenProperties
<1>2. \A j \in 0 .. n : Len(Join(ss, j)) \in Nat
  BY JoinIs, LenProperties
<1>3. P(i)
  BY <1>1, <1>2
<1>4. 0 \in G
  BY <1>1, <1>3
<1>5. ASSUME NEW j \in 0 .. n, j \in G, j + 1 <= n PROVE j + 1 \in G
  <2>1. j + 1 \in 1 .. n /\ (j + 1) - 1 = j /\ j + 1 \in 0 .. n
    BY <1>1, <1>5
  <2>2. j + 1 < i \/ j + 1 = i \/ (i <= j /\ ~(j < i))
    BY <1>1, <2>1
  <2>3. CASE i <= j /\ ~(j < i)
    <3>1. P(j)
      BY <1>5, <2>3
    <3>2. /\ Len(Join(ss, j)) \in Nat /\ Len(ss[j + 1]) \in Nat
          /\ Len(Join(ss, j + 1)) = Len(Join(ss, j)) + Len(ss[j + 1])
          /\ \A x \in 1 .. Len(Join(ss, j)) : Join(ss, j + 1)[x] = Join(ss, j)[x]
      <4> DEFINE h == j + 1
      <4>1. h \in 1 .. Len(ss) /\ h - 1 = j
        BY <2>1
      <4> HIDE DEF h
      <4>2. /\ Len(Join(ss, h - 1)) \in Nat /\ Len(ss[h]) \in Nat
            /\ Len(Join(ss, h)) = Len(Join(ss, h - 1)) + Len(ss[h])
            /\ \A x \in 1 .. Len(Join(ss, h - 1)) : Join(ss, h)[x] = Join(ss, h - 1)[x]
        BY <4>1, JoinStep, ZenonT(60)
      <4> QED BY <4>1, <4>2 DEF h
    <3>3. Len(Join(ss, i)) \in Nat
      BY <1>1, <1>2
    <3>4. P(j + 1)
      BY <3>1, <3>2, <3>3, SMTT(30)
    <3> QED BY <2>1, <3>4
  <2>4. CASE j + 1 < i
    BY <2>1, <2>4
  <2>5. CASE j + 1 = i
    BY <1>3, <2>1, <2>5
  <2> QED BY <2>2, <2>3, <2>4, <2>5
<1>6. k \in G
  <2> HIDE DEF G
  <2>1. \A j \in 0 .. n : j \in G
    BY <1>1, <1>4, <1>5, StepByStep
  <2> QED BY <1>1, <2>1
<1>7. P(k)
  BY <1>1, <1>6
<1> QED BY <1>1, <1>2, <1>7

\* Where the i-th of the sequences is when all are joined.
LEMMA JoinAt ==
  ASSUME NEW S, NEW ss \in Seq(Seq(S)), NEW i \in 1 .. Len(ss)
  PROVE  /\ Len(Join(ss, i - 1)) \in Nat /\ Len(ss[i]) \in Nat
         /\ Len(Join(ss, i)) = Len(Join(ss, i - 1)) + Len(ss[i])
         /\ Len(FlattenSeq(ss)) \in Nat
         /\ Len(Join(ss, i)) <= Len(FlattenSeq(ss))
         /\ \A x \in 1 .. Len(ss[i]) : FlattenSeq(ss)[Len(Join(ss, i - 1)) + x] = ss[i][x]
<1> DEFINE n == Len(ss)
<1>1. i \in 0 .. n /\ n \in i .. n
  BY LenProperties
<1>2. Join(ss, n) = FlattenSeq(ss)
  BY JoinIs
<1>3. /\ Len(Join(ss, i)) \in Nat /\ Len(FlattenSeq(ss)) \in Nat
      /\ Len(Join(ss, i)) <= Len(FlattenSeq(ss))
      /\ \A x \in 1 .. Len(Join(ss, i)) : FlattenSeq(ss)[x] = Join(ss, i)[x]
  BY <1>1, <1>2, JoinGrows
<1>4. /\ Len(Join(ss, i - 1)) \in Nat /\ Len(ss[i]) \in Nat
      /\ Len(Join(ss, i)) = Len(Join(ss, i - 1)) + Len(ss[i])
      /\ \A x \in 1 .. Len(ss[i]) : Join(ss, i)[Len(Join(ss, i - 1)) + x] = ss[i][x]
  BY JoinStep
<1>5. ASSUME NEW x \in 1 .. Len(ss[i]) PROVE FlattenSeq(ss)[Len(Join(ss, i - 1)) + x] = ss[i][x]
  <2>1. Len(Join(ss, i - 1)) + x \in 1 .. Len(Join(ss, i))
    BY <1>4
  <2> QED BY <1>3, <1>4, <2>1
<1> QED BY <1>3, <1>4, <1>5

(***************************************************************************)
(* Records and fields: what is read is what was written.                   *)
(***************************************************************************)

Bits == Int \X (0 .. MaxSaves) \X Nat
Raw  == Seq(Bits)

LEMMA ByteIs ==
  ASSUME NEW n \in Int
  PROVE  Byte(n) \in Bits /\ Byte(n)[1] = n /\ Byte(n)[2] = 0
BY BoundsAssumption DEF Byte, Bits

LEMMA RecordIs ==
  ASSUME NEW tag \in Nat, NEW t \in Raw
  PROVE  /\ Record(tag, t) \in Raw /\ Len(t) \in Nat /\ Len(Record(tag, t)) = Len(t) + 2
         /\ Record(tag, t)[1] = Byte(tag) /\ Record(tag, t)[2] = Byte(Len(t))
         /\ \A x \in 1 .. Len(t) : Record(tag, t)[2 + x] = t[x]
<1> DEFINE h == <<Byte(tag), Byte(Len(t))>>
<1>1. Byte(tag) \in Bits /\ Byte(Len(t)) \in Bits /\ Len(t) \in Nat
  BY LenProperties, ByteIs DEF Raw
<1>2. h \in Seq(Bits) /\ Len(h) = 2 /\ h[1] = Byte(tag) /\ h[2] = Byte(Len(t))
  BY <1>1
<1>3. Record(tag, t) = h \o t
  BY DEF Record
<1> HIDE DEF h
<1>4. /\ Record(tag, t) \in Seq(Bits) /\ Len(Record(tag, t)) = Len(h) + Len(t)
      /\ \A x \in 1 .. Len(h) : Record(tag, t)[x] = h[x]
      /\ \A x \in 1 .. Len(t) : Record(tag, t)[Len(h) + x] = t[x]
  <2> DEFINE r == Record(tag, t)
  <2>1. h \in Seq(Bits) /\ t \in Seq(Bits) /\ r = h \o t
    BY <1>2, <1>3 DEF Raw
  <2> HIDE DEF r
  <2>2. /\ r \in Seq(Bits) /\ Len(h) \in Nat /\ Len(t) \in Nat /\ Len(r) = Len(h) + Len(t)
        /\ \A x \in 1 .. Len(h) : r[x] = h[x]
        /\ \A x \in 1 .. Len(t) : r[Len(h) + x] = t[x]
    BY <2>1, Behind
  <2> QED BY <2>2 DEF r
<1> QED BY <1>1, <1>2, <1>4 DEF Raw

Records(m) == [i \in DOMAIN m |-> Record(m[i][1], m[i][2])]

LEMMA RecordsType ==
  ASSUME NEW m \in Seq(Nat \X Raw)
  PROVE  /\ Records(m) \in Seq(Raw) /\ Len(Records(m)) = Len(m) /\ Len(m) \in Nat
         /\ \A i \in 1 .. Len(m) :
              m[i][1] \in Nat /\ m[i][2] \in Raw /\ Records(m)[i] = Record(m[i][1], m[i][2])
         /\ Written(m) = FlattenSeq(Records(m)) /\ Written(m) \in Raw
<1>1. Len(m) \in Nat /\ DOMAIN m = 1 .. Len(m)
  BY LenProperties
<1>2. \A i \in 1 .. Len(m) : m[i] \in Nat \X Raw
  BY ElementOfSeq
<1>3. \A i \in 1 .. Len(m) : m[i][1] \in Nat /\ m[i][2] \in Raw
  BY <1>2
<1>4. \A i \in 1 .. Len(m) : Record(m[i][1], m[i][2]) \in Raw
  BY <1>3, RecordIs
<1>5. Records(m) \in Seq(Raw) /\ Len(Records(m)) = Len(m)
  BY <1>1, <1>4 DEF Records
<1> QED BY <1>1, <1>3, <1>5, FlattenType DEF Records, Written, Raw

\* Where the fields of s begin, as the recursion of Fields has it.
Next0(s, x) == IF x > Len(s) THEN x ELSE x + HeaderLen + s[x + 1][1]

LEMMA StartsExist ==
  ASSUME NEW s, NEW m \in Nat
  PROVE  \E f : f = [i \in 0 .. m |-> IF i = 0 THEN 1 ELSE Next0(s, f[i - 1])]
<1> DEFINE Solved(k) == \E f : f = [i \in 0 .. k |-> IF i = 0 THEN 1 ELSE Next0(s, f[i - 1])]
           G == {k \in 0 .. m : Solved(k)}
<1>1. 0 \in G
  <2> DEFINE z == [i \in 0 .. 0 |-> 1]
  <2>1. z = [i \in 0 .. 0 |-> IF i = 0 THEN 1 ELSE Next0(s, z[i - 1])]
    OBVIOUS
  <2> HIDE DEF z
  <2>2. Solved(0)
    BY <2>1
  <2> HIDE DEF Solved
  <2> QED BY <2>2
<1>2. ASSUME NEW k \in 0 .. m, k \in G, k + 1 <= m PROVE k + 1 \in G
  <2>1. PICK f : f = [i \in 0 .. k |-> IF i = 0 THEN 1 ELSE Next0(s, f[i - 1])]
    BY <1>2
  <2> DEFINE T(h, i) == IF i = 0 THEN 1 ELSE Next0(s, h[i - 1])
             g == [i \in 0 .. k + 1 |-> IF i <= k THEN f[i] ELSE T(f, i)]
  <2>2. \A i \in 0 .. k : f[i] = T(f, i)
    BY <2>1, Zenon
  <2>3. \A i \in 0 .. k + 1 : i # 0 => i - 1 \in 0 .. k + 1 /\ g[i - 1] = f[i - 1]
    OBVIOUS
  <2>4. \A i \in 0 .. k + 1 : g[i] = T(f, i)
    <3> HIDE DEF T
    <3>1. ASSUME NEW i \in 0 .. k + 1 PROVE g[i] = T(f, i)
      <4>1. CASE i <= k
        BY <2>2, <3>1, <4>1
      <4>2. CASE ~(i <= k)
        BY <4>2
      <4> QED BY <4>1, <4>2
    <3> QED BY <3>1
  <2>5. \A i \in 0 .. k + 1 : T(g, i) = T(f, i)
    <3> HIDE DEF g
    <3> QED BY <2>3
  <2>6. g = [i \in 0 .. k + 1 |-> g[i]]
    OBVIOUS
  <2> HIDE DEF g, T
  <2>7. g = [i \in 0 .. k + 1 |-> T(g, i)]
    BY <2>4, <2>5, <2>6
  <2>8. \E h : h = [i \in 0 .. k + 1 |-> T(h, i)]
    BY <2>7
  <2>9. Solved(k + 1)
    BY <2>8 DEF T
  <2> HIDE DEF Solved
  <2> QED BY <1>2, <2>9
<1>3. m \in G
  <2> HIDE DEF G
  <2> QED BY <1>1, <1>2, StepByStep
<1> QED BY <1>3

\* Fields finds the fields of what Written wrote.
LEMMA FieldsOfWritten ==
  ASSUME NEW m \in Seq(Nat \X Raw)
  PROVE  Fields(Written(m)) = m
<1> DEFINE s == Written(m)
           ss == Records(m)
           N == Len(m)
           L == Len(s)
           off(i) == Len(Join(ss, i))
           st[i \in 0 .. L] ==
             IF i = 0 THEN 1
             ELSE IF st[i - 1] > L THEN st[i - 1]
             ELSE st[i - 1] + HeaderLen + s[st[i - 1] + 1][1]
           n == CHOOSE n \in 0 .. L : st[n] > L /\ \A i \in 0 .. n - 1 : st[i] <= L
<1>1. Fields(s) = [i \in 1 .. n |-> <<s[st[i - 1]][1], SubSeq(s, st[i - 1] + HeaderLen, st[i] - 1)>>]
  BY DEF Fields
<1>2. /\ ss \in Seq(Raw) /\ Len(ss) = N /\ N \in Nat /\ s = FlattenSeq(ss) /\ s \in Raw /\ L \in Nat
      /\ \A i \in 1 .. N : m[i][1] \in Nat /\ m[i][2] \in Raw /\ ss[i] = Record(m[i][1], m[i][2])
  BY RecordsType, LenProperties DEF Raw
<1>3. \A i \in 0 .. L : st[i] = IF i = 0 THEN 1 ELSE Next0(s, st[i - 1])
  <2>1. \E f : f = [i \in 0 .. L |-> IF i = 0 THEN 1
                                    ELSE IF f[i - 1] > L THEN f[i - 1]
                                    ELSE f[i - 1] + HeaderLen + s[f[i - 1] + 1][1]]
    BY <1>2, StartsExist, ZenonT(60) DEF Next0
  <2>2. st = [i \in 0 .. L |-> IF i = 0 THEN 1
                                    ELSE IF st[i - 1] > L THEN st[i - 1]
                                    ELSE st[i - 1] + HeaderLen + s[st[i - 1] + 1][1]]
    BY <2>1, Zenon
  <2> HIDE DEF st
  <2>3. \A i \in 0 .. L : st[i] = IF i = 0 THEN 1
                                    ELSE IF st[i - 1] > L THEN st[i - 1]
                                    ELSE st[i - 1] + HeaderLen + s[st[i - 1] + 1][1]
    BY <2>2, Zenon
  <2> QED BY <2>3 DEF Next0
<1> HIDE DEF st, n
<1>4. m = [i \in 1 .. N |-> m[i]] /\ \A i \in 1 .. N : m[i] \in Nat \X Raw
  <2>1. DOMAIN m = 1 .. N /\ m = [i \in DOMAIN m |-> m[i]]
    BY LenProperties
  <2> QED BY <2>1, ElementOfSeq
<1> HIDE DEF s, ss, N
<1>3a. Len(Join(ss, 0)) = 0 /\ Join(ss, N) = s
  <2>1. ss \in Seq(Seq(Bits))
    BY <1>2 DEF Raw
  <2>2. Join(ss, 0) = << >> /\ Join(ss, Len(ss)) = FlattenSeq(ss)
    BY <2>1, JoinIs, Zenon
  <2> QED BY <1>2, <2>2
<1>4a. \A i \in 1 .. N :
        /\ off(i - 1) \in Nat /\ off(i) = off(i - 1) + 2 + Len(m[i][2]) /\ off(i) <= L
        /\ Len(m[i][2]) \in Nat
        /\ s[off(i - 1) + 1] = Byte(m[i][1]) /\ s[off(i - 1) + 2] = Byte(Len(m[i][2]))
        /\ \A x \in 1 .. Len(m[i][2]) : s[off(i - 1) + 2 + x] = m[i][2][x]
  <2> SUFFICES ASSUME NEW i \in 1 .. N
               PROVE  /\ off(i - 1) \in Nat /\ off(i) = off(i - 1) + 2 + Len(m[i][2]) /\ off(i) <= L
                      /\ Len(m[i][2]) \in Nat
                      /\ s[off(i - 1) + 1] = Byte(m[i][1]) /\ s[off(i - 1) + 2] = Byte(Len(m[i][2]))
                      /\ \A x \in 1 .. Len(m[i][2]) : s[off(i - 1) + 2 + x] = m[i][2][x]
    OBVIOUS
  <2> DEFINE r == ss[i]
             t == m[i][2]
  <2>1. /\ r \in Raw /\ Len(t) \in Nat /\ Len(r) = Len(t) + 2
        /\ r[1] = Byte(m[i][1]) /\ r[2] = Byte(Len(t)) /\ \A x \in 1 .. Len(t) : r[2 + x] = t[x]
    <3>1. m[i][1] \in Nat /\ t \in Raw /\ r = Record(m[i][1], t)
      BY <1>2
    <3> HIDE DEF r, t
    <3> QED BY <3>1, RecordIs
  <2>2. /\ off(i - 1) \in Nat /\ off(i) = off(i - 1) + Len(r) /\ off(i) <= L
        /\ \A x \in 1 .. Len(r) : s[off(i - 1) + x] = r[x]
    <3>1. ss \in Seq(Seq(Bits)) /\ i \in 1 .. Len(ss) /\ s = FlattenSeq(ss)
      BY <1>2 DEF Raw
    <3> QED BY <3>1, JoinAt
  <2> HIDE DEF r, t, off, L
  <2>3. s[off(i - 1) + 1] = r[1] /\ s[off(i - 1) + 2] = r[2]
    BY <2>1, <2>2
  <2>4. ASSUME NEW x \in 1 .. Len(t) PROVE s[off(i - 1) + 2 + x] = t[x]
    <3>1. 2 + x \in 1 .. Len(r) /\ off(i - 1) + 2 + x = off(i - 1) + (2 + x)
      BY <2>1, <2>2
    <3> QED BY <2>1, <2>2, <3>1
  <2>5. off(i) = off(i - 1) + 2 + Len(t)
    BY <2>1, <2>2
  <2> QED BY <2>1, <2>2, <2>3, <2>4, <2>5 DEF t
<1>5. off(0) = 0 /\ off(N) = L /\ \A i \in 0 .. N : off(i) \in Nat
  <2>2. off(0) = 0 /\ off(N) = L
    BY <1>3a
  <2> HIDE DEF off
  <2>3. ASSUME NEW i \in 0 .. N PROVE off(i) \in Nat
    <3>1. i = 0 \/ i \in 1 .. N
      BY <1>2
    <3>2. \A x, y \in Nat : x + 2 + y \in Nat
      OBVIOUS
    <3>3. CASE i = 0
      BY <2>2, <3>3
    <3>4. CASE i \in 1 .. N
      <4>1. off(i - 1) \in Nat /\ off(i) = off(i - 1) + 2 + Len(m[i][2]) /\ Len(m[i][2]) \in Nat
        BY <1>4a, <3>4
      <4> QED BY <3>2, <4>1
    <3> QED BY <3>1, <3>3, <3>4
  <2> QED BY <2>2, <2>3
<1> HIDE DEF off
<1>6. \A i \in 0 .. N : i <= L /\ i <= off(i) /\ st[i] = off(i) + 1
  <2> DEFINE G == {i \in 0 .. N : i <= L /\ i <= off(i) /\ st[i] = off(i) + 1}
  <2> HIDE DEF L
  <2>1. 0 \in G
    BY <1>2, <1>3, <1>5
  <2>2. ASSUME NEW i \in 0 .. N, i \in G, i + 1 <= N PROVE i + 1 \in G
    <3> DEFINE j == i + 1
    <3>1. j \in 1 .. N /\ j \in 0 .. N /\ j - 1 = i /\ j = i + 1
      BY <1>2, <2>2
    <3> HIDE DEF j
    <3>2. /\ off(i) \in Nat /\ off(j) = off(i) + 2 + Len(m[j][2]) /\ off(j) <= L
          /\ Len(m[j][2]) \in Nat /\ s[off(i) + 2] = Byte(Len(m[j][2]))
      BY <1>4a, <3>1
    <3>3. st[i] = off(i) + 1 /\ i <= off(i)
      BY <2>2
    <3>4. j \in 0 .. L /\ j # 0 /\ j <= off(j)
      BY <1>2, <3>1, <3>2, <3>3, SMTT(30)
    <3>5. st[j] = Next0(s, st[i])
      BY <1>3, <3>1, <3>4
    <3>6. Next0(s, st[i]) = st[i] + 2 + s[off(i) + 2][1]
      <4>1. ~(st[i] > L) /\ st[i] + 1 = off(i) + 2
        BY <1>2, <3>2, <3>3, SMTT(30)
      <4> QED BY <4>1 DEF Next0, HeaderLen, L
    <3>7. s[off(i) + 2][1] = Len(m[j][2])
      BY <3>2 DEF Byte
    <3>8. st[j] = off(j) + 1
      <4>1. st[j] = off(i) + 1 + 2 + Len(m[j][2])
        BY <3>3, <3>5, <3>6, <3>7
      <4>2. \A y, z \in Nat : y + 1 + 2 + z = (y + 2 + z) + 1
        OBVIOUS
      <4> QED BY <3>2, <4>1, <4>2
    <3>9. j \in G
      BY <3>1, <3>4, <3>8
    <3> QED BY <3>1, <3>9
  <2> HIDE DEF G
  <2>3. \A i \in 0 .. N : i \in G
    BY <1>2, <2>1, <2>2, StepByStep
  <2> QED BY <2>3 DEF G
<1>7. n = N
  <2> HIDE DEF L
  <2> DEFINE Q(k) == st[k] > L /\ \A i \in 0 .. k - 1 : st[i] <= L
  <2>1. N \in 0 .. L /\ st[N] > L
    BY <1>2, <1>5, <1>6
  <2>2. ASSUME NEW i \in 0 .. N - 1 PROVE st[i] <= L
    <3>1. i + 1 \in 1 .. N /\ (i + 1) - 1 = i /\ i \in 0 .. N
      <4>1. N \in Nat
        BY <1>2
      <4> QED BY <4>1
    <3>2. off(i) \in Nat /\ off(i + 1) = off(i) + 2 + Len(m[i + 1][2]) /\ off(i + 1) <= L /\ Len(m[i + 1][2]) \in Nat
      BY <1>4a, <3>1
    <3> QED BY <1>2, <1>6, <3>1, <3>2, SMTT(30)
  <2>3. Q(N)
    BY <2>1, <2>2
  <2>4. ASSUME NEW k \in 0 .. L, Q(k) PROVE k = N
    <3>1. ~(k < N)
      <4> SUFFICES ASSUME k < N PROVE FALSE
        OBVIOUS
      <4>1. k \in 0 .. N - 1
        BY <1>2
      <4>2. st[k] <= L /\ st[k] > L /\ st[k] \in Nat
        BY <1>2, <1>5, <1>6, <2>2, <2>4, <4>1
      <4> QED BY <1>2, <4>2
    <3>2. ~(N < k)
      <4> SUFFICES ASSUME N < k PROVE FALSE
        OBVIOUS
      <4>1. N \in 0 .. k - 1
        BY <1>2
      <4>2. st[N] <= L /\ st[N] \in Nat
        BY <1>2, <1>5, <1>6, <2>4, <4>1
      <4> QED BY <1>2, <2>1, <4>2
    <3> QED BY <1>2, <3>1, <3>2
  <2> HIDE DEF Q
  <2>5. (CHOOSE k \in 0 .. L : Q(k)) = N
    BY <2>1, <2>3, <2>4
  <2> QED BY <2>5 DEF n, Q
<1>8. ASSUME NEW i \in 1 .. N
      PROVE  <<s[st[i - 1]][1], SubSeq(s, st[i - 1] + HeaderLen, st[i] - 1)>> = m[i]
  <2> DEFINE t == m[i][2]
             u == SubSeq(s, st[i - 1] + HeaderLen, st[i] - 1)
             a == off(i - 1)
  <2>1. i - 1 \in 0 .. N /\ i \in 0 .. N /\ m[i] = <<m[i][1], m[i][2]>> /\ t \in Seq(Bits) /\ m[i][1] \in Nat
    <3>1. m[i] \in Nat \X Raw
      BY <1>4
    <3>2. t \in Raw /\ m[i] = <<m[i][1], m[i][2]>> /\ m[i][1] \in Nat
      BY <3>1
    <3> QED BY <1>2, <3>2 DEF Raw
  <2>2. st[i - 1] = a + 1 /\ st[i] = a + 3 + Len(t) /\ a \in Nat /\ Len(t) \in Nat /\ a + 2 + Len(t) <= L
        /\ s[a + 1] = Byte(m[i][1]) /\ \A x \in 1 .. Len(t) : s[a + 2 + x] = t[x]
    <3> HIDE DEF L
    <3> QED BY <1>4a, <1>6, <2>1
  <2> HIDE DEF t, a, s, L, N
  <2>3. s[st[i - 1]][1] = m[i][1]
    BY <2>2 DEF Byte
  <2>4. u = SubSeq(s, a + 3, a + 2 + Len(t))
    BY <2>2 DEF HeaderLen
  <2>5. \A x \in a + 3 .. a + 2 + Len(t) : s[x] \in Bits
    BY <1>2, <2>2, ElementOfSeq, SMTT(30) DEF Raw, L
  <2>6. /\ u \in Seq(Bits) /\ Len(u) = Len(t)
        /\ \A x \in 1 .. Len(t) : u[x] = s[a + 2 + x]
    <3> HIDE DEF u
    <3>1. /\ u \in Seq(Bits) /\ Len(u) = IF a + 3 <= a + 2 + Len(t) THEN (a + 2 + Len(t)) - (a + 3) + 1 ELSE 0
          /\ \A x \in 1 .. (a + 2 + Len(t)) - (a + 3) + 1 : u[x] = s[(a + 3) + x - 1]
      <4>1. a + 3 \in Int /\ a + 2 + Len(t) \in Int
        BY <2>2, SMTT(30)
      <4> DEFINE b == a + 3
                 e == a + 2 + Len(t)
      <4>2. b \in Int /\ e \in Int /\ u = SubSeq(s, b, e) /\ \A x \in b .. e : s[x] \in Bits
        BY <2>4, <2>5, <4>1
      <4> HIDE DEF b, e
      <4>3. /\ SubSeq(s, b, e) \in Seq(Bits) /\ Len(SubSeq(s, b, e)) = IF b <= e THEN e - b + 1 ELSE 0
            /\ \A x \in 1 .. e - b + 1 : SubSeq(s, b, e)[x] = s[b + x - 1]
        BY ONLY <4>2, SubSeqProperties
      <4> QED BY <4>2, <4>3 DEF b, e
    <3>2. (a + 2 + Len(t)) - (a + 3) + 1 = Len(t) /\ Len(u) = Len(t)
      BY <2>2, <3>1
    <3>3. \A x \in 1 .. Len(t) : (a + 3) + x - 1 = a + 2 + x
      BY <2>2
    <3> QED BY <3>1, <3>2, <3>3
  <2>7. u = t
    <3> HIDE DEF u
    <3> QED BY <2>1, <2>2, <2>6, SeqEqual
  <2> QED BY <2>1, <2>3, <2>7 DEF t
<1>9. Fields(s) = [i \in 1 .. N |-> m[i]]
  BY <1>1, <1>7, <1>8
<1> QED BY <1>4, <1>9 DEF s

(***************************************************************************)
(* Lengths, and the cipher.                                                *)
(***************************************************************************)

\* Sequences of the same lengths are as long when they are joined.
LEMMA SameLengths ==
  ASSUME NEW S, NEW ss \in Seq(Seq(S)), NEW tt \in Seq(Seq(S)), Len(ss) = Len(tt),
         \A i \in 1 .. Len(ss) : Len(ss[i]) = Len(tt[i])
  PROVE  /\ \A i \in 0 .. Len(ss) : Len(Join(ss, i)) = Len(Join(tt, i))
         /\ Len(FlattenSeq(ss)) = Len(FlattenSeq(tt))
<1> DEFINE n == Len(ss)
           G == {i \in 0 .. n : Len(Join(ss, i)) = Len(Join(tt, i))}
<1>1. n \in Nat
  BY LenProperties
<1>2. /\ Join(ss, 0) = << >> /\ Join(ss, n) = FlattenSeq(ss)
      /\ Join(tt, 0) = << >> /\ Join(tt, n) = FlattenSeq(tt)
  BY JoinIs
<1>3. 0 \in G
  BY <1>1, <1>2
<1>4. ASSUME NEW i \in 0 .. n, i \in G, i + 1 <= n PROVE i + 1 \in G
  <2> DEFINE h == i + 1
  <2>1. h \in 1 .. Len(ss) /\ h \in 1 .. Len(tt) /\ h - 1 = i /\ h \in 0 .. n
    BY <1>1, <1>4
  <2> HIDE DEF h
  <2>2. Len(Join(ss, h)) = Len(Join(ss, h - 1)) + Len(ss[h])
    BY <2>1, JoinStep
  <2>3. Len(Join(tt, h)) = Len(Join(tt, h - 1)) + Len(tt[h])
    BY <2>1, JoinStep
  <2>4. h \in G
    BY <1>4, <2>1, <2>2, <2>3
  <2> QED BY <2>4 DEF h
<1> HIDE DEF G
<1>5. \A i \in 0 .. n : i \in G
  BY <1>1, <1>3, <1>4, StepByStep
<1>6. \A i \in 0 .. n : Len(Join(ss, i)) = Len(Join(tt, i))
  BY <1>5 DEF G
<1>7. n \in 0 .. n
  BY <1>1
<1>8. Len(Join(ss, n)) = Len(Join(tt, n))
  BY <1>6, <1>7
<1> QED BY <1>2, <1>6, <1>8

Plain     == Int \X {0} \X {0}
PlainText == Seq(Plain)

LEMMA PlainIs ==
  /\ Plain \subseteq Bits /\ PlainText \subseteq Raw
  /\ \A n \in Int : Byte(n) \in Plain
  /\ \A n \in Int, l \in Nat : Bytes(n, l) \in PlainText /\ Len(Bytes(n, l)) = l
<1>1. Plain \subseteq Bits
  BY BoundsAssumption DEF Plain, Bits
<1>2. PlainText \subseteq Raw
  BY <1>1, SeqMonotonic DEF PlainText, Raw
<1>3. \A n \in Int : Byte(n) \in Plain
  BY DEF Byte, Plain
<1>4. \A n \in Int, l \in Nat : Bytes(n, l) \in PlainText /\ Len(Bytes(n, l)) = l
  BY <1>3 DEF Bytes, PlainText
<1> QED BY <1>1, <1>2, <1>3, <1>4

\* The cipher undoes what it did.
LEMMA KeystreamTwice ==
  ASSUME NEW t \in PlainText, NEW k \in 1 .. MaxSaves, NEW p \in Nat
  PROVE  /\ Keystream(t, k, p) \in Raw /\ Len(Keystream(t, k, p)) = Len(t) /\ Len(t) \in Nat
         /\ Keystream(Keystream(t, k, p), k, p) = t
         /\ \A i \in 1 .. Len(t) : Keystream(t, k, p)[i] = <<t[i][1], k, p + i - 1>>
<1> DEFINE u == Keystream(t, k, p)
<1>1. Len(t) \in Nat /\ DOMAIN t = 1 .. Len(t) /\ t = [i \in 1 .. Len(t) |-> t[i]]
      /\ \A i \in 1 .. Len(t) : t[i] \in Plain
  BY LenProperties, ElementOfSeq DEF PlainText
<1>2. k \in 0 .. MaxSaves /\ k # 0
  BY BoundsAssumption
<1>3. \A i \in 1 .. Len(t) : Xor(t[i], k, p + i - 1) = <<t[i][1], k, p + i - 1>>
  BY <1>1 DEF Xor, Plain
<1>4. \A i \in 1 .. Len(t) : <<t[i][1], k, p + i - 1>> \in Bits
  BY <1>1, <1>2 DEF Plain, Bits
<1>5. u = [i \in 1 .. Len(t) |-> <<t[i][1], k, p + i - 1>>]
  BY <1>1, <1>3 DEF Keystream
<1>6. u \in Raw /\ Len(u) = Len(t) /\ DOMAIN u = 1 .. Len(t)
  BY <1>1, <1>4, <1>5 DEF Raw
<1>7. \A i \in 1 .. Len(t) : Xor(u[i], k, p + i - 1) = t[i]
  BY <1>1, <1>2, <1>5 DEF Xor, Plain, Byte
<1> HIDE DEF u
<1>8. Keystream(u, k, p) = t
  BY <1>1, <1>6, <1>7 DEF Keystream
<1>9. \A i \in 1 .. Len(t) : u[i] = <<t[i][1], k, p + i - 1>>
  BY <1>5
<1> QED BY <1>1, <1>6, <1>8, <1>9 DEF u

SecretTexts(m) == [i \in DOMAIN m |-> IF m[i][1] \in Protected THEN m[i][2] ELSE << >>]

LEMMA SecretsType ==
  ASSUME NEW m \in Seq(Nat \X Raw)
  PROVE  /\ SecretTexts(m) \in Seq(Raw) /\ Len(SecretTexts(m)) = Len(m) /\ Len(m) \in Nat
         /\ DOMAIN m = 1 .. Len(m)
         /\ \A i \in 1 .. Len(m) :
              SecretTexts(m)[i] = IF m[i][1] \in Protected THEN m[i][2] ELSE << >>
         /\ Secrets(m) = FlattenSeq(SecretTexts(m)) /\ Secrets(m) \in Raw
         /\ \A i \in 1 .. Len(m) :
              FieldAt(m, i) = Len(Join(SecretTexts(m), i - 1)) /\ FieldAt(m, i) \in Nat
<1> DEFINE ss == SecretTexts(m)
<1>1. Len(m) \in Nat /\ DOMAIN m = 1 .. Len(m)
  BY LenProperties
<1>2. \A i \in 1 .. Len(m) : m[i] \in Nat \X Raw
  BY ElementOfSeq
<1>3. \A i \in 1 .. Len(m) : m[i][2] \in Raw /\ << >> \in Raw
  BY <1>2 DEF Raw
<1>4. ss = [i \in 1 .. Len(m) |-> IF m[i][1] \in Protected THEN m[i][2] ELSE << >>]
  BY <1>1 DEF SecretTexts
<1>5. ss \in Seq(Raw) /\ Len(ss) = Len(m)
  BY <1>1, <1>3, <1>4
<1>6. Secrets(m) = FlattenSeq(ss)
  BY DEF Secrets, SecretTexts
<1> HIDE DEF ss
<1>7. FlattenSeq(ss) \in Raw
  BY <1>5, FlattenType DEF Raw
<1>8. ASSUME NEW i \in 1 .. Len(m)
      PROVE  FieldAt(m, i) = Len(Join(ss, i - 1)) /\ FieldAt(m, i) \in Nat
  <2> DEFINE a == i - 1
             u == SubSeq(m, 1, a)
  <2>1. a \in 0 .. Len(m) /\ a \in 0 .. Len(ss)
    BY <1>1, <1>5
  <2>2. u \in Seq(Nat \X Raw) /\ Len(u) = a /\ \A x \in 1 .. a : u[x] = m[x]
    BY <2>1, FrontIs
  <2>3. /\ Len(SubSeq(ss, 1, a)) = a /\ SubSeq(ss, 1, a) \in Seq(Raw)
        /\ \A x \in 1 .. a : SubSeq(ss, 1, a)[x] = ss[x]
    BY <1>5, <2>1, FrontIs
  <2> HIDE DEF u, a
  <2>4. DOMAIN u = 1 .. a /\ \A x \in 1 .. a : x \in 1 .. Len(m)
    BY <1>1, <2>1, <2>2, LenProperties
  <2>5. \A x \in 1 .. a : (IF u[x][1] \in Protected THEN u[x][2] ELSE << >>) = ss[x]
    BY <1>4, <2>2, <2>4
  <2>6. [x \in DOMAIN u |-> IF u[x][1] \in Protected THEN u[x][2] ELSE << >>]
          = [x \in 1 .. a |-> ss[x]]
    BY <2>4, <2>5
  <2>7. SubSeq(ss, 1, a) = [x \in 1 .. a |-> ss[x]]
    BY <1>5, <2>1, FrontIs
  <2>8. FieldAt(m, i) = Len(Join(ss, a))
    BY <2>6, <2>7 DEF FieldAt, Secrets, Join, u, a
  <2>9. Join(ss, a) \in Seq(Bits)
    BY <1>5, <2>1, JoinIs DEF Raw
  <2> QED BY <2>8, <2>9, LenProperties DEF a
<1>9. \A i \in 1 .. Len(m) : ss[i] = IF m[i][1] \in Protected THEN m[i][2] ELSE << >>
  BY <1>4
<1> QED BY <1>1, <1>5, <1>6, <1>7, <1>8, <1>9 DEF ss

EntryMeant == Seq(Nat \X PlainText)

LEMMA EntryType ==
  ASSUME NEW m \in EntryMeant
  PROVE  /\ m \in Seq(Nat \X Raw) /\ Len(m) \in Nat /\ DOMAIN m = 1 .. Len(m)
         /\ \A i \in 1 .. Len(m) :
              m[i] = <<m[i][1], m[i][2]>> /\ m[i][1] \in Nat /\ m[i][2] \in PlainText /\ m[i][2] \in Raw
<1>1. Nat \X PlainText \subseteq Nat \X Raw
  BY PlainIs
<1>2. m \in Seq(Nat \X Raw)
  BY <1>1, SeqMonotonic DEF EntryMeant
<1>3. \A i \in 1 .. Len(m) : m[i] \in Nat \X PlainText
  BY ElementOfSeq DEF EntryMeant
<1>4. Len(m) \in Nat /\ DOMAIN m = 1 .. Len(m)
  BY LenProperties DEF EntryMeant
<1>5. ASSUME NEW i \in 1 .. Len(m)
      PROVE  m[i] = <<m[i][1], m[i][2]>> /\ m[i][1] \in Nat /\ m[i][2] \in PlainText /\ m[i][2] \in Raw
  <2>1. m[i] \in Nat \X PlainText
    BY <1>3
  <2>2. m[i] = <<m[i][1], m[i][2]>> /\ m[i][1] \in Nat /\ m[i][2] \in PlainText
    BY <2>1
  <2> QED BY <2>2, PlainIs
<1> QED BY <1>2, <1>4, <1>5

\* Enciphering keeps the tags and all lengths.
LEMMA EncipheredIs ==
  ASSUME NEW m \in EntryMeant, NEW k \in 1 .. MaxSaves, NEW p \in Nat,
         NEW c, c = Enciphered(m, k, p)
  PROVE  /\ c \in Seq(Nat \X Raw) /\ Len(c) = Len(m) /\ DOMAIN c = 1 .. Len(m)
         /\ \A i \in 1 .. Len(m) :
              /\ c[i][1] = m[i][1] /\ Len(c[i][2]) = Len(m[i][2])
              /\ c[i][2] = IF m[i][1] \in Protected THEN Keystream(m[i][2], k, p + FieldAt(m, i))
                           ELSE m[i][2]
              /\ FieldAt(c, i) = FieldAt(m, i) /\ FieldAt(m, i) \in Nat
         /\ Len(Secrets(c)) = Len(Secrets(m)) /\ Len(Secrets(m)) \in Nat
         /\ Len(Written(c)) = Len(Written(m))
<1>1. /\ m \in Seq(Nat \X Raw) /\ Len(m) \in Nat /\ DOMAIN m = 1 .. Len(m)
      /\ \A i \in 1 .. Len(m) :
           m[i] = <<m[i][1], m[i][2]>> /\ m[i][1] \in Nat /\ m[i][2] \in PlainText /\ m[i][2] \in Raw
  BY EntryType
<1>2. \A i \in 1 .. Len(m) : FieldAt(m, i) \in Nat
  BY <1>1, SecretsType
<1> DEFINE x(i) == IF m[i][1] \in Protected THEN Keystream(m[i][2], k, p + FieldAt(m, i)) ELSE m[i][2]
<1>3. ASSUME NEW i \in 1 .. Len(m) PROVE x(i) \in Raw /\ Len(x(i)) = Len(m[i][2])
  <2> DEFINE t == m[i][2]
             q == p + FieldAt(m, i)
  <2>1. t \in PlainText /\ t \in Raw /\ FieldAt(m, i) \in Nat
    BY <1>1, <1>2, <1>3
  <2>1a. q \in Nat
    <3> HIDE DEF t
    <3> QED BY <2>1
  <2> HIDE DEF t, q
  <2>2. Keystream(t, k, q) \in Raw /\ Len(Keystream(t, k, q)) = Len(t)
    BY <2>1, <2>1a, KeystreamTwice
  <2> QED BY <2>1, <2>2 DEF t, q
<1>4. c = [i \in 1 .. Len(m) |-> <<m[i][1], x(i)>>]
  BY <1>1 DEF Enciphered
<1> HIDE DEF x
<1>5. c \in Seq(Nat \X Raw) /\ Len(c) = Len(m) /\ DOMAIN c = 1 .. Len(m)
  BY <1>1, <1>3, <1>4
<1>6. \A i \in 1 .. Len(m) : c[i][1] = m[i][1] /\ c[i][2] = x(i) /\ Len(c[i][2]) = Len(m[i][2])
  BY <1>3, <1>4
<1>7. /\ \A i \in 1 .. Len(m) : FieldAt(c, i) = FieldAt(m, i)
      /\ Len(Secrets(c)) = Len(Secrets(m)) /\ Len(Secrets(m)) \in Nat
  <2> DEFINE ss == SecretTexts(c)
             tt == SecretTexts(m)
  <2>1. /\ ss \in Seq(Raw) /\ Len(ss) = Len(c) /\ Secrets(c) = FlattenSeq(ss)
        /\ \A i \in 1 .. Len(c) : FieldAt(c, i) = Len(Join(ss, i - 1))
        /\ \A i \in 1 .. Len(c) : ss[i] = IF c[i][1] \in Protected THEN c[i][2] ELSE << >>
    BY <1>5, SecretsType
  <2>2. /\ tt \in Seq(Raw) /\ Len(tt) = Len(m) /\ Secrets(m) = FlattenSeq(tt) /\ Secrets(m) \in Raw
        /\ \A i \in 1 .. Len(m) : FieldAt(m, i) = Len(Join(tt, i - 1))
        /\ \A i \in 1 .. Len(m) : tt[i] = IF m[i][1] \in Protected THEN m[i][2] ELSE << >>
    BY <1>1, SecretsType
  <2> HIDE DEF ss, tt
  <2>3. ASSUME NEW i \in 1 .. Len(ss) PROVE Len(ss[i]) = Len(tt[i])
    <3>1. i \in 1 .. Len(m) /\ i \in 1 .. Len(c)
      BY <1>5, <2>1
    <3>2. c[i][1] = m[i][1] /\ Len(c[i][2]) = Len(m[i][2])
      BY <1>6, <3>1
    <3>3. /\ ss[i] = IF c[i][1] \in Protected THEN c[i][2] ELSE << >>
          /\ tt[i] = IF m[i][1] \in Protected THEN m[i][2] ELSE << >>
      BY <2>1, <2>2, <3>1
    <3> QED BY <3>2, <3>3
  <2>4. /\ \A i \in 0 .. Len(ss) : Len(Join(ss, i)) = Len(Join(tt, i))
        /\ Len(FlattenSeq(ss)) = Len(FlattenSeq(tt))
    <3>1. ss \in Seq(Seq(Bits)) /\ tt \in Seq(Seq(Bits)) /\ Len(ss) = Len(tt)
      BY <1>5, <2>1, <2>2 DEF Raw
    <3> QED BY <2>3, <3>1, SameLengths
  <2>5. Len(Secrets(m)) \in Nat
    BY <2>2, LenProperties DEF Raw
  <2>6. \A i \in 1 .. Len(m) : i - 1 \in 0 .. Len(ss)
    BY <1>1, <1>5, <2>1
  <2> QED BY <1>5, <2>1, <2>2, <2>4, <2>5, <2>6
<1>8. Len(Written(c)) = Len(Written(m))
  <2> DEFINE ss == Records(c)
             tt == Records(m)
  <2>1. /\ ss \in Seq(Raw) /\ Len(ss) = Len(c) /\ Written(c) = FlattenSeq(ss)
        /\ \A i \in 1 .. Len(c) :
             c[i][1] \in Nat /\ c[i][2] \in Raw /\ ss[i] = Record(c[i][1], c[i][2])
    BY <1>5, RecordsType
  <2>2. /\ tt \in Seq(Raw) /\ Len(tt) = Len(m) /\ Written(m) = FlattenSeq(tt)
        /\ \A i \in 1 .. Len(m) :
             m[i][1] \in Nat /\ m[i][2] \in Raw /\ tt[i] = Record(m[i][1], m[i][2])
    BY <1>1, RecordsType
  <2> HIDE DEF ss, tt
  <2>3. ASSUME NEW i \in 1 .. Len(ss) PROVE Len(ss[i]) = Len(tt[i])
    <3>1. i \in 1 .. Len(c) /\ i \in 1 .. Len(m)
      BY <1>5, <2>1
    <3>2. Len(Record(c[i][1], c[i][2])) = Len(c[i][2]) + 2
      BY <2>1, <3>1, RecordIs
    <3>3. Len(Record(m[i][1], m[i][2])) = Len(m[i][2]) + 2
      BY <2>2, <3>1, RecordIs
    <3> QED BY <1>6, <2>1, <2>2, <3>1, <3>2, <3>3
  <2>4. Len(FlattenSeq(ss)) = Len(FlattenSeq(tt))
    <3>1. ss \in Seq(Seq(Bits)) /\ tt \in Seq(Seq(Bits)) /\ Len(ss) = Len(tt)
      BY <1>5, <2>1, <2>2 DEF Raw
    <3> QED BY <2>3, <3>1, SameLengths
  <2> QED BY <2>1, <2>2, <2>4
<1> QED BY <1>2, <1>5, <1>6, <1>7, <1>8 DEF x

FieldType == [tag : Nat, ct : Raw, key : 0 .. MaxSaves, at : Nat]

\* What was enciphered and read back means what it meant.
LEMMA MeaningOfSealed ==
  ASSUME NEW m \in EntryMeant, NEW k \in 1 .. MaxSaves, NEW p \in Nat,
         NEW c, c = Enciphered(m, k, p)
  PROVE  Sealed(c, k, p) \in Seq(FieldType) /\ Meaning(Sealed(c, k, p)) = m
<1> DEFINE e == Sealed(c, k, p)
<1>1. /\ m \in Seq(Nat \X Raw) /\ Len(m) \in Nat /\ DOMAIN m = 1 .. Len(m)
      /\ \A i \in 1 .. Len(m) :
           m[i] = <<m[i][1], m[i][2]>> /\ m[i][1] \in Nat /\ m[i][2] \in PlainText /\ m[i][2] \in Raw
  BY EntryType
<1>2. /\ c \in Seq(Nat \X Raw) /\ Len(c) = Len(m) /\ DOMAIN c = 1 .. Len(m)
      /\ \A i \in 1 .. Len(m) :
           /\ c[i][1] = m[i][1] /\ Len(c[i][2]) = Len(m[i][2])
           /\ c[i][2] = IF m[i][1] \in Protected THEN Keystream(m[i][2], k, p + FieldAt(m, i))
                        ELSE m[i][2]
           /\ FieldAt(c, i) = FieldAt(m, i) /\ FieldAt(m, i) \in Nat
  BY EncipheredIs
<1>3. \A i \in 1 .. Len(m) : c[i] \in Nat \X Raw /\ c[i][2] \in Raw
  <2>1. \A i \in 1 .. Len(c) : c[i] \in Nat \X Raw
    BY <1>2, ElementOfSeq
  <2> QED BY <1>2, <2>1
<1>4. e = [i \in 1 .. Len(m) |-> IF c[i][1] \in Protected
             THEN [tag |-> c[i][1], ct |-> c[i][2], key |-> k, at |-> p + FieldAt(c, i)]
             ELSE [tag |-> c[i][1], ct |-> c[i][2], key |-> 0, at |-> 0]]
  BY <1>2 DEF Sealed, Field
<1> HIDE DEF e
<1>5. k \in 0 .. MaxSaves /\ k # 0 /\ 0 \in 0 .. MaxSaves
  BY BoundsAssumption
<1>6. \A i \in 1 .. Len(m) : e[i] \in FieldType
  BY <1>1, <1>2, <1>3, <1>4, <1>5 DEF FieldType
<1>7. e \in Seq(FieldType) /\ DOMAIN e = 1 .. Len(m)
  BY <1>1, <1>4, <1>6
<1>8. ASSUME NEW i \in 1 .. Len(m) PROVE <<e[i].tag, Expose(e[i])>> = m[i]
  <2>1. CASE m[i][1] \in Protected
    <3> DEFINE t == m[i][2]
               q == p + FieldAt(m, i)
    <3>1. e[i].tag = m[i][1] /\ e[i].ct = Keystream(t, k, q) /\ e[i].key = k /\ e[i].at = q
      BY <1>2, <1>4, <2>1
    <3>2. t \in PlainText /\ q \in Nat
      BY <1>1, <1>2
    <3> HIDE DEF t, q
    <3>3. Keystream(Keystream(t, k, q), k, q) = t
      BY <3>2, KeystreamTwice
    <3>4. Expose(e[i]) = t
      BY <1>5, <3>1, <3>3 DEF Expose
    <3> QED BY <1>1, <3>1, <3>4 DEF t
  <2>2. CASE m[i][1] \notin Protected
    <3>1. e[i].tag = m[i][1] /\ e[i].ct = m[i][2] /\ e[i].key = 0
      BY <1>2, <1>4, <2>2
    <3> QED BY <1>1, <3>1 DEF Expose
  <2> QED BY <2>1, <2>2
<1>9. m = [i \in 1 .. Len(m) |-> m[i]]
  BY <1>1
<1>10. Meaning(e) = m
  BY <1>7, <1>8, <1>9 DEF Meaning
<1> QED BY <1>7, <1>10 DEF e

(***************************************************************************)
(* Where each record is in the text that is written.                       *)
(***************************************************************************)

\* The text r is in the text t, behind its first c bytes.
Has(t, c, r) == c + Len(r) <= Len(t) /\ \A x \in 1 .. Len(r) : t[c + x] = r[x]

LEMMA HasConcat ==
  ASSUME NEW a \in Raw, NEW b \in Raw, NEW s, s = a \o b
  PROVE  /\ s \in Raw /\ Len(a) \in Nat /\ Len(b) \in Nat /\ Len(s) = Len(a) + Len(b)
         /\ Has(s, 0, a) /\ Has(s, Len(a), b)
<1>0. a \in Seq(Bits) /\ b \in Seq(Bits)
  BY DEF Raw
<1>1. /\ s \in Seq(Bits) /\ Len(a) \in Nat /\ Len(b) \in Nat /\ Len(s) = Len(a) + Len(b)
      /\ \A x \in 1 .. Len(a) : s[x] = a[x]
      /\ \A x \in 1 .. Len(b) : s[Len(a) + x] = b[x]
  BY <1>0, Behind
<1>2. \A x \in 1 .. Len(a) : 0 + x = x
  BY <1>1
<1> QED BY <1>1, <1>2 DEF Has, Raw

LEMMA HasWithin ==
  ASSUME NEW t \in Raw, NEW u \in Raw, NEW r \in Raw, NEW c \in Nat, NEW d \in Nat,
         Has(t, c, u), Has(u, d, r)
  PROVE  Has(t, c + d, r)
<1>1. Len(t) \in Nat /\ Len(u) \in Nat /\ Len(r) \in Nat
  BY LenProperties DEF Raw
<1>2. (c + d) + Len(r) <= Len(t)
  BY <1>1 DEF Has
<1>3. ASSUME NEW x \in 1 .. Len(r) PROVE t[(c + d) + x] = r[x]
  <2>1. d + x \in 1 .. Len(u) /\ (c + d) + x = c + (d + x)
    BY <1>1 DEF Has
  <2> QED BY <2>1 DEF Has
<1> QED BY <1>2, <1>3 DEF Has

\* Each of the texts that are joined has its place.
LEMMA HasJoined ==
  ASSUME NEW ss \in Seq(Raw), NEW i \in 1 .. Len(ss)
  PROVE  /\ Len(Join(ss, i - 1)) \in Nat /\ Len(ss[i]) \in Nat
         /\ Len(Join(ss, i)) = Len(Join(ss, i - 1)) + Len(ss[i])
         /\ ss[i] \in Raw /\ FlattenSeq(ss) \in Raw
         /\ Has(FlattenSeq(ss), Len(Join(ss, i - 1)), ss[i])
<1>1. ss \in Seq(Seq(Bits))
  BY DEF Raw
<1>2. /\ Len(Join(ss, i - 1)) \in Nat /\ Len(ss[i]) \in Nat
      /\ Len(Join(ss, i)) = Len(Join(ss, i - 1)) + Len(ss[i])
      /\ Len(FlattenSeq(ss)) \in Nat
      /\ Len(Join(ss, i)) <= Len(FlattenSeq(ss))
      /\ \A x \in 1 .. Len(ss[i]) : FlattenSeq(ss)[Len(Join(ss, i - 1)) + x] = ss[i][x]
  BY <1>1, JoinAt
<1>3. ss[i] \in Raw
  BY ElementOfSeq
<1>4. FlattenSeq(ss) \in Raw
  BY <1>1, FlattenType DEF Raw
<1> QED BY <1>2, <1>3, <1>4 DEF Has

LEMMA JoinLengths ==
  ASSUME NEW ss \in Seq(Raw)
  PROVE  /\ Len(ss) \in Nat /\ FlattenSeq(ss) \in Raw
         /\ Len(Join(ss, 0)) = 0 /\ Join(ss, Len(ss)) = FlattenSeq(ss)
         /\ \A i \in 0 .. Len(ss) : Len(Join(ss, i)) \in Nat /\ Len(Join(ss, i)) <= Len(FlattenSeq(ss))
<1>1. ss \in Seq(Seq(Bits)) /\ Len(ss) \in Nat
  BY LenProperties DEF Raw
<1>2. /\ Join(ss, 0) = << >>
      /\ Join(ss, Len(ss)) = FlattenSeq(ss)
  BY <1>1, JoinIs
<1>3. ASSUME NEW i \in 0 .. Len(ss)
      PROVE  Len(Join(ss, i)) \in Nat /\ Len(Join(ss, i)) <= Len(FlattenSeq(ss))
  <2> DEFINE k == Len(ss)
  <2>1. k \in i .. Len(ss)
    BY <1>1
  <2>2. Len(Join(ss, i)) \in Nat /\ Len(Join(ss, i)) <= Len(Join(ss, k))
    <3> HIDE DEF k
    <3> QED BY <1>1, <2>1, JoinGrows
  <2> QED BY <1>2, <2>2
<1>4. FlattenSeq(ss) \in Raw
  BY <1>1, FlattenType DEF Raw
<1> QED BY <1>1, <1>2, <1>3, <1>4

SecretsOf(ms) == [j \in DOMAIN ms |-> Secrets(ms[j])]

LEMMA EntryAtIs ==
  ASSUME NEW ms \in Seq(EntryMeant)
  PROVE  /\ Len(ms) \in Nat /\ EntryAt(ms, 1) = 0
         /\ \A i \in 1 .. Len(ms) + 1 : EntryAt(ms, i) \in Nat
         /\ \A i \in 1 .. Len(ms) :
              EntryAt(ms, i + 1) = EntryAt(ms, i) + Len(Secrets(ms[i])) /\ Len(Secrets(ms[i])) \in Nat
<1> DEFINE ss == SecretsOf(ms)
<1>1. Len(ms) \in Nat /\ DOMAIN ms = 1 .. Len(ms)
  BY LenProperties
<1>2. ASSUME NEW i \in 1 .. Len(ms) PROVE Secrets(ms[i]) \in Raw
  <2>1. ms[i] \in EntryMeant
    BY ElementOfSeq
  <2>2. ms[i] \in Seq(Nat \X Raw)
    BY <2>1, EntryType
  <2> QED BY <2>2, SecretsType
<1>3. ss \in Seq(Raw) /\ Len(ss) = Len(ms) /\ \A i \in 1 .. Len(ms) : ss[i] = Secrets(ms[i])
  BY <1>1, <1>2 DEF SecretsOf
<1> HIDE DEF ss
<1>4. ASSUME NEW i \in 1 .. Len(ms) + 1 PROVE EntryAt(ms, i) = Len(Join(ss, i - 1))
  <2> DEFINE a == i - 1
  <2>1. a \in 0 .. Len(ss)
    BY <1>1, <1>3
  <2> HIDE DEF a
  <2>2. SubSeq(ss, 1, a) = [x \in 1 .. a |-> ss[x]]
    BY <1>3, <2>1, FrontIs
  <2>3. \A x \in 1 .. a : ss[x] = Secrets(ms[x])
    BY <1>1, <1>3, <2>1
  <2>4. SubSeq(ss, 1, a) = [x \in 1 .. a |-> Secrets(ms[x])]
    BY <2>2, <2>3
  <2> QED BY <2>4 DEF EntryAt, Join, a
<1>5. /\ Len(Join(ss, 0)) = 0
      /\ \A i \in 0 .. Len(ss) : Len(Join(ss, i)) \in Nat
  BY <1>3, JoinLengths
<1>6. EntryAt(ms, 1) = 0
  <2>1. 1 \in 1 .. Len(ms) + 1 /\ 1 - 1 = 0
    BY <1>1
  <2> QED BY <1>4, <1>5, <2>1
<1>7. \A i \in 1 .. Len(ms) + 1 : i - 1 \in 0 .. Len(ss)
  BY <1>1, <1>3
<1>8. ASSUME NEW i \in 1 .. Len(ms)
      PROVE  EntryAt(ms, i + 1) = EntryAt(ms, i) + Len(Secrets(ms[i])) /\ Len(Secrets(ms[i])) \in Nat
  <2>1. i \in 1 .. Len(ss) /\ i \in 1 .. Len(ms) + 1 /\ i + 1 \in 1 .. Len(ms) + 1 /\ (i + 1) - 1 = i
    BY <1>1, <1>3
  <2>2. Len(Join(ss, i)) = Len(Join(ss, i - 1)) + Len(ss[i]) /\ Len(ss[i]) \in Nat
    BY <1>3, <2>1, HasJoined
  <2>3. EntryAt(ms, i + 1) = Len(Join(ss, i))
    BY <1>4, <2>1
  <2> QED BY <1>3, <1>4, <2>1, <2>2, <2>3
<1> QED BY <1>1, <1>4, <1>5, <1>6, <1>7, <1>8

EntryRecords(ms, k) == [i \in DOMAIN ms |-> Record(ENTRY, EntryText(ms, k, i))]

LEMMA EntryTextIs ==
  ASSUME NEW ms \in Seq(EntryMeant), NEW k \in 1 .. MaxSaves
  PROVE  /\ EntryRecords(ms, k) \in Seq(Raw) /\ Len(EntryRecords(ms, k)) = Len(ms) /\ Len(ms) \in Nat
         /\ \A i \in 1 .. Len(ms) :
              /\ EntryRecords(ms, k)[i] = Record(ENTRY, EntryText(ms, k, i))
              /\ EntryText(ms, k, i) \in Raw
              /\ Len(EntryText(ms, k, i)) = Len(Written(ms[i]))
              /\ Fields(EntryText(ms, k, i)) = Enciphered(ms[i], k, EntryAt(ms, i))
              /\ ms[i] \in EntryMeant
<1>1. Len(ms) \in Nat /\ DOMAIN ms = 1 .. Len(ms) /\ \A i \in 1 .. Len(ms) + 1 : EntryAt(ms, i) \in Nat
  BY LenProperties, EntryAtIs
<1>2. ASSUME NEW i \in 1 .. Len(ms)
      PROVE  /\ EntryText(ms, k, i) \in Raw /\ ms[i] \in EntryMeant
             /\ Len(EntryText(ms, k, i)) = Len(Written(ms[i]))
             /\ Fields(EntryText(ms, k, i)) = Enciphered(ms[i], k, EntryAt(ms, i))
             /\ Record(ENTRY, EntryText(ms, k, i)) \in Raw
  <2> DEFINE p == EntryAt(ms, i)
             m == ms[i]
             c == Enciphered(m, k, p)
             t == Written(c)
  <2>1. m \in EntryMeant /\ p \in Nat
    BY <1>1, ElementOfSeq
  <2> HIDE DEF m, p
  <2>2. c \in Seq(Nat \X Raw) /\ Len(Written(c)) = Len(Written(m))
    <3> DEFINE d == Enciphered(m, k, p)
    <3>1. d = Enciphered(m, k, p)
      OBVIOUS
    <3> HIDE DEF d
    <3>2. d \in Seq(Nat \X Raw) /\ Len(Written(d)) = Len(Written(m))
      BY <2>1, <3>1, EncipheredIs
    <3> QED BY <3>2 DEF d
  <2> HIDE DEF c
  <2>3. t \in Raw /\ Fields(t) = c
    BY <2>2, RecordsType, FieldsOfWritten
  <2>4. EntryText(ms, k, i) = t
    BY DEF EntryText, m, p, c
  <2> HIDE DEF t
  <2>5. Record(ENTRY, t) \in Raw
    <3>1. ENTRY \in Nat
      BY DEF ENTRY
    <3> QED BY <2>3, <3>1, RecordIs
  <2>6. Len(t) = Len(Written(m))
    BY <2>2 DEF t
  <2> QED BY <2>1, <2>3, <2>4, <2>5, <2>6 DEF m, p, c
<1>3. EntryRecords(ms, k) = [i \in 1 .. Len(ms) |-> Record(ENTRY, EntryText(ms, k, i))]
  BY <1>1 DEF EntryRecords
<1> QED BY <1>1, <1>2, <1>3

KeyRecord(k) == Record(KEY, <<Byte(k)>>)
EndRecord    == Record(END, << >>)

\* A vault: the key, the entries one behind another, the end.
LEMMA PayloadIs ==
  ASSUME NEW ms \in Seq(EntryMeant), NEW k \in 1 .. MaxSaves
  PROVE  /\ Payload(ms, k) \in Raw /\ Len(Payload(ms, k)) \in Nat
         /\ Has(Payload(ms, k), 0, KeyRecord(k))
         /\ \A i \in 1 .. Len(ms) :
              Has(Payload(ms, k), 3 + Len(Join(EntryRecords(ms, k), i - 1)), EntryRecords(ms, k)[i])
         /\ Has(Payload(ms, k), 3 + Len(Join(EntryRecords(ms, k), Len(ms))), EndRecord)
         /\ Len(Payload(ms, k)) = 5 + Len(Join(EntryRecords(ms, k), Len(ms)))
<1> DEFINE rs == EntryRecords(ms, k)
           a == KeyRecord(k)
           b == FlattenSeq(rs)
           ab == a \o b
           c == EndRecord
           t == ab \o c
<1>1. rs \in Seq(Raw) /\ Len(rs) = Len(ms) /\ Len(ms) \in Nat
  BY EntryTextIs
<1>2. a \in Raw /\ Len(a) = 3
  <2>1. k \in Int /\ KEY \in Nat
    BY BoundsAssumption DEF KEY
  <2>2. <<Byte(k)>> \in Raw /\ Len(<<Byte(k)>>) = 1
    BY <2>1, ByteIs DEF Raw
  <2> DEFINE u == <<Byte(k)>>
  <2> HIDE DEF u
  <2>3. Record(KEY, u) \in Raw /\ Len(Record(KEY, u)) = Len(u) + 2
    BY <2>1, <2>2, RecordIs DEF u
  <2> QED BY <2>2, <2>3 DEF KeyRecord, u
<1>3. c \in Raw /\ Len(c) = 2
  <2> DEFINE u == << >>
  <2>1. END \in Nat /\ u \in Raw /\ Len(u) = 0
    BY DEF END, Raw
  <2> HIDE DEF u
  <2>2. Record(END, u) \in Raw /\ Len(Record(END, u)) = Len(u) + 2
    BY <2>1, RecordIs
  <2> QED BY <2>1, <2>2 DEF EndRecord, u
<1>4. Payload(ms, k) = t
  BY DEF Payload, KeyRecord, EndRecord, EntryRecords
<1> HIDE DEF rs, a, c
<1>5. b \in Raw /\ Len(Join(rs, 0)) = 0 /\ Join(rs, Len(rs)) = b
  BY <1>1, JoinLengths
<1> HIDE DEF b
<1>6. /\ ab \in Raw /\ Len(a) \in Nat /\ Len(b) \in Nat /\ Len(ab) = Len(a) + Len(b)
      /\ Has(ab, 0, a) /\ Has(ab, Len(a), b)
  BY <1>2, <1>5, HasConcat
<1> HIDE DEF ab
<1>7. /\ t \in Raw /\ Len(ab) \in Nat /\ Len(c) \in Nat /\ Len(t) = Len(ab) + Len(c)
      /\ Has(t, 0, ab) /\ Has(t, Len(ab), c)
  BY <1>3, <1>6, HasConcat
<1> HIDE DEF t
<1>8. Has(t, 0, a)
  BY <1>2, <1>6, <1>7, HasWithin
<1>9. Has(t, 3, b)
  BY <1>2, <1>5, <1>6, <1>7, HasWithin
<1>10. ASSUME NEW i \in 1 .. Len(ms) PROVE Has(t, 3 + Len(Join(rs, i - 1)), rs[i])
  <2>1. Len(Join(rs, i - 1)) \in Nat /\ rs[i] \in Raw /\ Has(b, Len(Join(rs, i - 1)), rs[i])
    BY <1>1, HasJoined DEF b
  <2> QED BY <1>5, <1>7, <1>9, <2>1, HasWithin
<1>11. Len(t) = 5 + Len(b) /\ Len(ab) = 3 + Len(b) /\ Join(rs, Len(ms)) = b
  BY <1>1, <1>2, <1>3, <1>5, <1>6, <1>7
<1> QED BY <1>4, <1>6, <1>7, <1>8, <1>10, <1>11 DEF rs, a, c

File == [path : Nat, body : PlainText]

PartEnd(s, i) == IF i * PartLen < Len(s) THEN i * PartLen ELSE Len(s)

HeaderRecord(f)  == Record(FILE_HDR, <<Byte(f.path), Byte(Len(f.body))>>)
PartRecord(s, i) == Record(FILE_PART, SubSeq(s, PartEnd(s, i - 1) + 1, PartEnd(s, i)))
Ending           == Record(FILE_END, << >>)

\* The parts of a file follow one another and end with it.
LEMMA PartsAre ==
  ASSUME NEW s \in PlainText
  PROVE  /\ Len(Parts(s)) \in Nat /\ Parts(s) \in Seq(Raw) /\ Len(s) \in Nat
         /\ PartEnd(s, 0) = 0 /\ PartEnd(s, Len(Parts(s))) = Len(s)
         /\ \A i \in 0 .. Len(Parts(s)) : PartEnd(s, i) \in 0 .. Len(s)
         /\ \A i \in 1 .. Len(Parts(s)) :
              /\ Parts(s)[i] = PartRecord(s, i)
              /\ PartEnd(s, i - 1) < PartEnd(s, i) /\ PartEnd(s, i) <= PartEnd(s, i - 1) + PartLen
              /\ SubSeq(s, PartEnd(s, i - 1) + 1, PartEnd(s, i)) \in PlainText
              /\ Len(SubSeq(s, PartEnd(s, i - 1) + 1, PartEnd(s, i))) = PartEnd(s, i) - PartEnd(s, i - 1)
              /\ \A x \in 1 .. PartEnd(s, i) - PartEnd(s, i - 1) :
                   SubSeq(s, PartEnd(s, i - 1) + 1, PartEnd(s, i))[x] = s[PartEnd(s, i - 1) + x]
<1> DEFINE n == Len(s)
           d == PartLen
           P == (n + d - 1) \div d
           e(i) == PartEnd(s, i)
<1>1. n \in Nat /\ d \in Nat \ {0}
  BY LenProperties, SizeAssumption DEF PlainText
<1>2. Parts(s) = [i \in 1 .. P |-> Record(FILE_PART, SubSeq(s, (i - 1) * d + 1, e(i)))]
  BY DEF Parts, PartEnd
<1>3. \A i \in Nat : e(i) = IF i * d < n THEN i * d ELSE n
  BY DEF PartEnd
<1> HIDE DEF n, d, e
<1>4. P \in Nat /\ P * d <= n + d - 1 /\ n + d - 1 < P * d + d
  <2> DEFINE m == n + d - 1
  <2>1. m \in Nat
    BY <1>1
  <2> HIDE DEF m
  <2>2. m \div d \in Nat /\ (m \div d) * d <= m /\ m < (m \div d) * d + d
    BY <1>1, <2>1
  <2> QED BY <2>2 DEF m
<1> HIDE DEF P
<1>5. \A i \in Nat : i * d \in Nat /\ (i + 1) * d = i * d + d
  BY <1>1
<1>6. \A i \in 0 .. P : i < P => i * d < n
  <2>1. ASSUME NEW i \in 0 .. P, i < P PROVE i * d < n
    <3>1. i \in Nat /\ i + 1 \in Nat /\ i + 1 <= P
      BY <1>4, <2>1
    <3>2. (i + 1) * d <= P * d
      BY <1>1, <1>4, <3>1
    <3>3. i * d + d <= n + d - 1 /\ i * d \in Nat
      BY <1>1, <1>4, <1>5, <3>1, <3>2
    <3> QED BY <1>1, <3>3
  <2> QED BY <2>1
<1>7. e(0) = 0 /\ e(P) = n
  <2>1. 0 * d = 0 /\ P * d \in Nat /\ P \in Nat /\ ~(P * d < n)
    BY <1>1, <1>4, <1>5
  <2> QED BY <1>1, <1>3, <2>1
<1>8. \A i \in 0 .. P : e(i) \in 0 .. n
  BY <1>1, <1>3, <1>4, <1>5
<1>9. ASSUME NEW i \in 1 .. P
      PROVE  (i - 1) * d = e(i - 1) /\ e(i - 1) < e(i) /\ e(i) <= e(i - 1) + d /\ e(i) <= n
             /\ e(i - 1) \in Nat /\ e(i) \in Nat
  <2> DEFINE h == i - 1
  <2>1. h \in Nat /\ h \in 0 .. P /\ h < P /\ i = h + 1 /\ i \in Nat
    BY <1>4
  <2> HIDE DEF h
  <2>2. h * d < n /\ h * d \in Nat /\ i * d = h * d + d
    BY <1>5, <1>6, <2>1
  <2>3. e(h) = h * d /\ e(i) = IF i * d < n THEN i * d ELSE n
    BY <1>3, <2>1, <2>2
  <2>4. e(h) < e(i) /\ e(i) <= e(h) + d /\ e(i) <= n /\ e(h) \in Nat /\ e(i) \in Nat
    BY <1>1, <2>2, <2>3
  <2> QED BY <2>3, <2>4 DEF h
<1>10. ASSUME NEW i \in 1 .. P
       PROVE  LET u == SubSeq(s, e(i - 1) + 1, e(i))
              IN /\ u \in PlainText /\ Len(u) = e(i) - e(i - 1)
                 /\ \A x \in 1 .. e(i) - e(i - 1) : u[x] = s[e(i - 1) + x]
  <2> DEFINE a == e(i - 1) + 1
             b == e(i)
             l == e(i) - e(i - 1)
             u == SubSeq(s, a, b)
  <2>1. a \in Nat \ {0} /\ b \in Nat /\ a <= b /\ b <= n /\ l = b - a + 1 /\ e(i - 1) = a - 1 /\ l \in Nat
    BY <1>1, <1>9
  <2> HIDE DEF a, b, l
  <2>2. \A x \in a .. b : s[x] \in Plain
    BY <1>1, <2>1, ElementOfSeq DEF n, PlainText
  <2>3. /\ u \in Seq(Plain)
        /\ Len(u) = IF a <= b THEN b - a + 1 ELSE 0
        /\ \A x \in 1 .. b - a + 1 : u[x] = s[a + x - 1]
    BY <2>1, <2>2, SubSeqProperties
  <2> HIDE DEF u
  <2>4. \A x \in 1 .. l : a + x - 1 = e(i - 1) + x
    BY <2>1
  <2>5. u \in PlainText /\ Len(u) = l /\ \A x \in 1 .. l : u[x] = s[e(i - 1) + x]
    BY <2>1, <2>3, <2>4 DEF PlainText
  <2> QED BY <2>5 DEF u, a, b, l
<1>11. /\ Len(Parts(s)) = P /\ Parts(s) \in Seq(Raw)
       /\ \A i \in 1 .. P : Parts(s)[i] = PartRecord(s, i)
  <2>1. ASSUME NEW i \in 1 .. P
        PROVE  PartRecord(s, i) \in Raw /\ Record(FILE_PART, SubSeq(s, (i - 1) * d + 1, e(i))) = PartRecord(s, i)
    <3> DEFINE u == SubSeq(s, e(i - 1) + 1, e(i))
    <3>1. u \in PlainText
      BY <1>10
    <3>2. PartRecord(s, i) = Record(FILE_PART, u)
      BY DEF PartRecord, e
    <3> HIDE DEF u
    <3>3. u \in Raw /\ FILE_PART \in Nat
      BY <3>1, PlainIs DEF FILE_PART
    <3>4. Record(FILE_PART, u) \in Raw
      BY <3>3, RecordIs
    <3> QED BY <1>9, <3>2, <3>4 DEF u
  <2>2. Parts(s) = [i \in 1 .. P |-> PartRecord(s, i)]
    BY <1>2, <2>1
  <2> QED BY <1>4, <2>1, <2>2
<1> QED BY <1>1, <1>4, <1>7, <1>8, <1>9, <1>10, <1>11 DEF n, d, e

LEMMA FileRecordsAre ==
  ASSUME NEW f \in File
  PROVE  /\ FileRecords(f) \in Seq(Raw) /\ Len(FileRecords(f)) = Len(Parts(f.body)) + 1
         /\ Len(Parts(f.body)) \in Nat
         /\ FileRecords(f)[1] = HeaderRecord(f)
         /\ \A i \in 1 .. Len(Parts(f.body)) : FileRecords(f)[i + 1] = PartRecord(f.body, i)
<1> DEFINE a == <<HeaderRecord(f)>>
           b == Parts(f.body)
           r == FileRecords(f)
<1>1. f.path \in Nat /\ f.body \in PlainText /\ Len(f.body) \in Nat
  <2>1. f.path \in Nat /\ f.body \in PlainText
    BY DEF File
  <2> QED BY <2>1, LenProperties DEF PlainText
<1>2. b \in Seq(Raw) /\ Len(b) \in Nat /\ \A i \in 1 .. Len(b) : b[i] = PartRecord(f.body, i)
  BY <1>1, PartsAre
<1>3. HeaderRecord(f) \in Raw
  <2> DEFINE u == <<Byte(f.path), Byte(Len(f.body))>>
  <2>1. Byte(f.path) \in Bits /\ Byte(Len(f.body)) \in Bits
    BY <1>1, ByteIs
  <2>2. u \in Raw /\ FILE_HDR \in Nat
    BY <2>1 DEF Raw, FILE_HDR
  <2> HIDE DEF u
  <2>3. Record(FILE_HDR, u) \in Raw
    BY <2>2, RecordIs
  <2> QED BY <2>3 DEF HeaderRecord, u
<1>4. a \in Seq(Raw) /\ Len(a) = 1 /\ a[1] = HeaderRecord(f)
  BY <1>3
<1>5. r = a \o b
  BY DEF FileRecords, HeaderRecord
<1> HIDE DEF a, b, r
<1>6. /\ r \in Seq(Raw) /\ Len(a) \in Nat /\ Len(b) \in Nat /\ Len(r) = Len(a) + Len(b)
      /\ \A x \in 1 .. Len(a) : r[x] = a[x]
      /\ \A x \in 1 .. Len(b) : r[Len(a) + x] = b[x]
  <2>1. a \in Seq(Raw) /\ b \in Seq(Raw) /\ r = a \o b
    BY <1>2, <1>4, <1>5
  <2> QED BY <2>1, Behind
<1>7. \A i \in 1 .. Len(b) : r[i + 1] = b[i]
  <2>1. \A i \in 1 .. Len(b) : 1 + i = i + 1
    BY <1>2
  <2> QED BY <1>4, <1>6, <2>1
<1> QED BY <1>2, <1>4, <1>6, <1>7 DEF b, r

FileTexts(fs) == [i \in DOMAIN fs |-> FileText(fs[i])]

\* Behind so many records of the i-th file.
FileAt(fs, i, b) == Len(Join(FileTexts(fs), i - 1)) + Len(Join(FileRecords(fs[i]), b))

LEMMA FileTextsAre ==
  ASSUME NEW fs \in Seq(File)
  PROVE  /\ FileTexts(fs) \in Seq(Raw) /\ Len(FileTexts(fs)) = Len(fs) /\ Len(fs) \in Nat
         /\ DOMAIN fs = 1 .. Len(fs)
         /\ \A i \in 1 .. Len(fs) : fs[i] \in File /\ FileTexts(fs)[i] = FlattenSeq(FileRecords(fs[i]))
         /\ FilesText(fs) = FlattenSeq(FileTexts(fs)) /\ FilesText(fs) \in Raw
         /\ \A i \in 1 .. Len(fs) : FilesText(SubSeq(fs, 1, i - 1)) = Join(FileTexts(fs), i - 1)
<1> DEFINE ss == FileTexts(fs)
<1>1. Len(fs) \in Nat /\ DOMAIN fs = 1 .. Len(fs) /\ \A i \in 1 .. Len(fs) : fs[i] \in File
  BY LenProperties, ElementOfSeq
<1>2. ASSUME NEW i \in 1 .. Len(fs) PROVE FileText(fs[i]) \in Raw
  <2> DEFINE f == fs[i]
             r == FileRecords(f)
  <2>1. f \in File
    BY <1>1
  <2> HIDE DEF f
  <2>2. r \in Seq(Raw)
    BY <2>1, FileRecordsAre
  <2> HIDE DEF r
  <2>3. FlattenSeq(r) \in Raw
    BY <2>2, JoinLengths
  <2> QED BY <2>3 DEF FileText, f, r
<1>3. ss = [i \in 1 .. Len(fs) |-> FileText(fs[i])]
  BY <1>1 DEF FileTexts
<1>4. ss \in Seq(Raw) /\ Len(ss) = Len(fs)
  BY <1>1, <1>2, <1>3
<1>5. FilesText(fs) = FlattenSeq(ss)
  BY DEF FilesText, FileTexts
<1> HIDE DEF ss
<1>6. FlattenSeq(ss) \in Raw
  BY <1>4, JoinLengths
<1>7. ASSUME NEW i \in 1 .. Len(fs) PROVE FilesText(SubSeq(fs, 1, i - 1)) = Join(ss, i - 1)
  <2> DEFINE a == i - 1
             u == SubSeq(fs, 1, a)
  <2>1. a \in 0 .. Len(ss) /\ a \in 0 .. Len(fs)
    BY <1>1, <1>4
  <2> HIDE DEF a
  <2>2. u \in Seq(File) /\ Len(u) = a /\ \A x \in 1 .. a : u[x] = fs[x]
    BY <2>1, FrontIs
  <2>3. SubSeq(ss, 1, a) = [x \in 1 .. a |-> ss[x]]
    BY <1>4, <2>1, FrontIs
  <2> HIDE DEF u
  <2>4. DOMAIN u = 1 .. a /\ \A x \in 1 .. a : FileText(u[x]) = ss[x]
    BY <1>1, <1>3, <2>1, <2>2, LenProperties
  <2>5. [x \in DOMAIN u |-> FileText(u[x])] = [x \in 1 .. a |-> ss[x]]
    BY <2>4
  <2> QED BY <2>3, <2>5 DEF FilesText, Join, u, a
<1>8. \A i \in 1 .. Len(fs) : ss[i] = FlattenSeq(FileRecords(fs[i]))
  BY <1>3 DEF FileText
<1> QED BY <1>1, <1>4, <1>5, <1>6, <1>7, <1>8 DEF ss

\* A sealed file: the records of each file one behind another, the end.
LEMMA ArchiveIs ==
  ASSUME NEW fs \in Seq(File)
  PROVE  /\ ArchiveText(fs) \in Raw /\ Len(ArchiveText(fs)) \in Nat
         /\ Len(Join(FileTexts(fs), 0)) = 0
         /\ \A i \in 1 .. Len(fs) :
              /\ FileAt(fs, i, 0) = Len(Join(FileTexts(fs), i - 1)) /\ FileAt(fs, i, 0) \in Nat
              /\ FileAt(fs, i, Len(FileRecords(fs[i]))) = Len(Join(FileTexts(fs), i))
              /\ \A b \in 1 .. Len(FileRecords(fs[i])) :
                   /\ FileAt(fs, i, b - 1) \in Nat /\ FileAt(fs, i, b) \in Nat
                   /\ FileAt(fs, i, b) = FileAt(fs, i, b - 1) + Len(FileRecords(fs[i])[b])
                   /\ FileRecords(fs[i])[b] \in Raw
                   /\ Has(ArchiveText(fs), FileAt(fs, i, b - 1), FileRecords(fs[i])[b])
         /\ Len(Join(FileTexts(fs), Len(fs))) \in Nat
         /\ Has(ArchiveText(fs), Len(Join(FileTexts(fs), Len(fs))), Ending)
         /\ Len(ArchiveText(fs)) = Len(Join(FileTexts(fs), Len(fs))) + 2
<1> DEFINE ss == FileTexts(fs)
           a == FlattenSeq(ss)
           c == Ending
           t == a \o c
<1>1. /\ ss \in Seq(Raw) /\ Len(ss) = Len(fs) /\ Len(fs) \in Nat
      /\ \A i \in 1 .. Len(fs) : fs[i] \in File /\ ss[i] = FlattenSeq(FileRecords(fs[i]))
      /\ FilesText(fs) = a
  BY FileTextsAre
<1>2. c \in Raw /\ Len(c) = 2
  <2> DEFINE u == << >>
  <2>1. FILE_END \in Nat /\ u \in Raw /\ Len(u) = 0
    BY DEF FILE_END, Raw
  <2> HIDE DEF u
  <2>2. Record(FILE_END, u) \in Raw /\ Len(Record(FILE_END, u)) = Len(u) + 2
    BY <2>1, RecordIs
  <2> QED BY <2>1, <2>2 DEF Ending, u
<1>3. ArchiveText(fs) = t
  BY <1>1 DEF ArchiveText, Ending
<1> HIDE DEF ss, c
<1>4. /\ a \in Raw /\ Len(Join(ss, 0)) = 0 /\ Join(ss, Len(ss)) = a
      /\ \A i \in 0 .. Len(ss) : Len(Join(ss, i)) \in Nat
  BY <1>1, JoinLengths
<1> HIDE DEF a
<1>5. /\ t \in Raw /\ Len(a) \in Nat /\ Len(c) \in Nat /\ Len(t) = Len(a) + Len(c)
      /\ Has(t, 0, a) /\ Has(t, Len(a), c)
  BY <1>2, <1>4, HasConcat
<1> HIDE DEF t
<1>6. ASSUME NEW i \in 1 .. Len(fs)
      PROVE  /\ FileAt(fs, i, 0) = Len(Join(ss, i - 1)) /\ FileAt(fs, i, 0) \in Nat
             /\ FileAt(fs, i, Len(FileRecords(fs[i]))) = Len(Join(ss, i))
             /\ \A b \in 1 .. Len(FileRecords(fs[i])) :
                  /\ FileAt(fs, i, b - 1) \in Nat /\ FileAt(fs, i, b) \in Nat
                  /\ FileAt(fs, i, b) = FileAt(fs, i, b - 1) + Len(FileRecords(fs[i])[b])
                  /\ FileRecords(fs[i])[b] \in Raw
                  /\ Has(t, FileAt(fs, i, b - 1), FileRecords(fs[i])[b])
  <2> DEFINE f == fs[i]
             rr == FileRecords(f)
             p == Len(Join(ss, i - 1))
             u == ss[i]
  <2>1. f \in File /\ u = FlattenSeq(rr) /\ \A b \in Nat : FileAt(fs, i, b) = p + Len(Join(rr, b))
    BY <1>1 DEF FileAt, ss
  <2>2. /\ p \in Nat /\ Len(Join(ss, i)) = p + Len(u) /\ u \in Raw /\ Has(a, p, u)
    <3>1. i \in 1 .. Len(ss)
      BY <1>1
    <3> QED BY <1>1, <3>1, HasJoined DEF a
  <2> HIDE DEF p, u, f
  <2>3. rr \in Seq(Raw)
    BY <2>1, FileRecordsAre
  <2> HIDE DEF rr
  <2>4. /\ Len(rr) \in Nat /\ Len(Join(rr, 0)) = 0 /\ Join(rr, Len(rr)) = u
    BY <2>1, <2>3, JoinLengths
  <2>5. Has(t, p, u)
    BY <1>4, <1>5, <2>2, HasWithin
  <2>6. ASSUME NEW b \in 1 .. Len(rr)
        PROVE  /\ FileAt(fs, i, b - 1) \in Nat /\ FileAt(fs, i, b) \in Nat
               /\ FileAt(fs, i, b) = FileAt(fs, i, b - 1) + Len(rr[b])
               /\ rr[b] \in Raw
               /\ Has(t, FileAt(fs, i, b - 1), rr[b])
    <3>1. /\ Len(Join(rr, b - 1)) \in Nat /\ Len(rr[b]) \in Nat
          /\ Len(Join(rr, b)) = Len(Join(rr, b - 1)) + Len(rr[b])
          /\ rr[b] \in Raw /\ Has(u, Len(Join(rr, b - 1)), rr[b])
      BY <2>1, <2>3, HasJoined
    <3>2. b \in Nat /\ b - 1 \in Nat
      BY <2>4
    <3>3. FileAt(fs, i, b) = p + Len(Join(rr, b)) /\ FileAt(fs, i, b - 1) = p + Len(Join(rr, b - 1))
      BY <2>1, <3>2
    <3>4. Has(t, p + Len(Join(rr, b - 1)), rr[b])
      BY <1>5, <2>2, <2>5, <3>1, HasWithin
    <3>5. p + Len(Join(rr, b)) = (p + Len(Join(rr, b - 1))) + Len(rr[b])
          /\ p + Len(Join(rr, b)) \in Nat /\ p + Len(Join(rr, b - 1)) \in Nat
      <4>1. \A x, y, z \in Nat : x + (y + z) = (x + y) + z /\ x + (y + z) \in Nat /\ x + y \in Nat
        OBVIOUS
      <4> HIDE DEF f
      <4> DEFINE y == Len(Join(rr, b - 1))
                 z == Len(rr[b])
      <4>2. p \in Nat /\ y \in Nat /\ z \in Nat /\ Len(Join(rr, b)) = y + z
        BY <2>2, <3>1
      <4> HIDE DEF y, z
      <4>3. p + Len(Join(rr, b)) = (p + y) + z /\ p + Len(Join(rr, b)) \in Nat /\ p + y \in Nat
        BY <4>1, <4>2
      <4> QED BY <4>3 DEF y, z
    <3> QED BY <3>1, <3>3, <3>4, <3>5
  <2>7. FileAt(fs, i, 0) = p /\ FileAt(fs, i, Len(rr)) = Len(Join(ss, i))
    <3>1. FileAt(fs, i, 0) = p + Len(Join(rr, 0)) /\ FileAt(fs, i, Len(rr)) = p + Len(Join(rr, Len(rr)))
      BY <2>1, <2>4
    <3>2. p + 0 = p
      BY <2>2
    <3> QED BY <2>2, <2>4, <3>1, <3>2
  <2> QED BY <2>2, <2>6, <2>7 DEF p, rr, f
<1>7. /\ Len(Join(ss, Len(fs))) \in Nat /\ Has(t, Len(Join(ss, Len(fs))), c)
      /\ Len(t) = Len(Join(ss, Len(fs))) + 2
  BY <1>1, <1>2, <1>4, <1>5
<1> QED BY <1>3, <1>4, <1>5, <1>6, <1>7 DEF ss, c

(***************************************************************************)
(* Chunks.                                                                 *)
(***************************************************************************)

\* Where the j-th of n chunks of l bytes ends.
End(l, n, j) == IF j = n THEN l ELSE j * ChunkLen

BytesOf(cs) == [i \in DOMAIN cs |-> cs[i].bytes]

\* The chunks cs cut the text t, each but the last when it is full.
Cuts(cs, t) ==
  LET n == Len(cs)
      l == Len(t)
  IN /\ l \in Nat /\ n \in Nat \ {0} /\ DOMAIN cs = 1 .. n
     /\ cs \in Seq([last : BOOLEAN, bytes : Raw])
     /\ cs[n].last = TRUE /\ \A j \in 1 .. n : j # n => cs[j].last = FALSE
     /\ End(l, n, 0) = 0 /\ End(l, n, n) = l
     /\ \A j \in 0 .. n : End(l, n, j) \in 0 .. l
     /\ \A j \in 1 .. n :
          /\ cs[j].bytes \in Raw
          /\ End(l, n, j) = End(l, n, j - 1) + Len(cs[j].bytes) /\ Len(cs[j].bytes) \in Nat
          /\ \A x \in 1 .. Len(cs[j].bytes) : cs[j].bytes[x] = t[End(l, n, j - 1) + x]

LEMMA ChunkedIs ==
  ASSUME NEW t \in Raw, NEW cs, cs = Chunked(t)
  PROVE  Cuts(cs, t) /\ \A j \in 1 .. Len(cs) : Len(cs[j].bytes) <= ChunkLen
<1> DEFINE n == Len(cs)
           l == Len(t)
           d == ChunkLen
           m == Len(t) \div d
           e(j) == End(l, n, j)
           q == m + 1
<1>1. l \in Nat /\ d \in Nat \ {0}
  BY LenProperties, SizeAssumption DEF Raw
<1> HIDE DEF l
<1>2. cs = [i \in 1 .. q |-> [last |-> i = q,
                              bytes |-> SubSeq(t, (i - 1) * d + 1, IF i = q THEN l ELSE i * d)]]
  BY DEF Chunked, l
<1> HIDE DEF d
<1>3. m \in Nat /\ m * d \in Nat /\ m * d <= l /\ l < m * d + d
  BY <1>1 DEF l
<1> HIDE DEF m
<1>4. n = q /\ n = m + 1 /\ n \in Nat \ {0} /\ DOMAIN cs = 1 .. n
  <2>1. q \in Nat \ {0} /\ q = m + 1
    BY <1>3
  <2> HIDE DEF q
  <2> QED BY <1>2, <2>1
<1> HIDE DEF q, n
<1> DEFINE f(i) == SubSeq(t, (i - 1) * d + 1, IF i = n THEN l ELSE i * d)
           c(i) == [last |-> i = n, bytes |-> f(i)]
<1>4a. cs = [i \in 1 .. n |-> c(i)]
  BY <1>2, <1>4
<1> HIDE DEF f
<1>4b. /\ \A i \in 1 .. n : cs[i].bytes = f(i) /\ cs[i] = c(i)
       /\ cs[n].last = TRUE /\ \A i \in 1 .. n : i # n => cs[i].last = FALSE
  <2>1. \A i \in 1 .. n : cs[i].bytes = f(i)
    BY <1>4a
  <2>2. \A i \in 1 .. n : cs[i].last = (i = n)
    BY <1>4a
  <2>3. n \in 1 .. n
    BY <1>4
  <2> HIDE DEF c
  <2>4. \A i \in 1 .. n : cs[i] = c(i)
    BY <1>4a
  <2> QED BY <2>1, <2>2, <2>3, <2>4
<1>5. \A j \in 0 .. n : e(j) = IF j = n THEN l ELSE j * d
  BY DEF End, d
<1> HIDE DEF e
<1>6. \A j \in 0 .. n : j # n => j * d \in Nat /\ j * d <= l /\ (j + 1) * d = j * d + d
  <2>1. ASSUME NEW j \in 0 .. n, j # n PROVE j * d \in Nat /\ j * d <= l /\ (j + 1) * d = j * d + d
    <3>1. j \in Nat /\ j <= m
      BY <1>3, <1>4, <2>1
    <3>2. j * d <= m * d /\ j * d \in Nat /\ (j + 1) * d = j * d + d
      BY <1>1, <1>3, <3>1
    <3> QED BY <1>1, <1>3, <3>2
  <2> QED BY <2>1
<1>7. e(0) = 0 /\ e(n) = l
  <2>1. 0 * d = 0 /\ 0 \in 0 .. n /\ n \in 0 .. n /\ 0 # n
    BY <1>1, <1>4
  <2> QED BY <1>5, <2>1
<1>8. \A j \in 0 .. n : e(j) \in 0 .. l
  BY <1>1, <1>5, <1>6
<1>9. ASSUME NEW j \in 1 .. n
      PROVE  /\ cs[j].bytes = SubSeq(t, e(j - 1) + 1, e(j))
             /\ e(j - 1) \in Nat /\ e(j) \in Nat /\ e(j) <= l
             /\ e(j - 1) <= e(j) /\ e(j) <= e(j - 1) + d
  <2> DEFINE h == j - 1
  <2>1. h \in 0 .. n /\ h # n /\ j = h + 1 /\ j \in 0 .. n /\ h \in Nat /\ (j = n => h = m)
    BY <1>3, <1>4
  <2> HIDE DEF h
  <2>2. e(h) = h * d /\ h * d \in Nat /\ h * d <= l /\ j * d = h * d + d
    BY <1>5, <1>6, <2>1
  <2>3. e(j) = IF j = n THEN l ELSE j * d
    BY <1>5, <2>1
  <2>4. e(h) \in Nat /\ e(j) \in Nat /\ e(j) <= l /\ e(h) <= e(j)
    BY <1>1, <1>8, <2>1, <2>2, <2>3
  <2>5. e(j) <= e(h) + d
    <3>1. CASE j = n
      BY <1>1, <1>3, <2>1, <2>2, <2>3, <3>1
    <3>2. CASE j # n
      BY <1>1, <2>2, <2>3, <3>2
    <3> QED BY <3>1, <3>2
  <2>6. cs[j].bytes = SubSeq(t, h * d + 1, IF j = n THEN l ELSE j * d)
    <3> HIDE DEF c
    <3> QED BY <1>4b DEF h, f
  <2>7. cs[j].bytes = SubSeq(t, e(h) + 1, e(j))
    BY <2>2, <2>3, <2>6
  <2> QED BY <2>4, <2>5, <2>6, <2>7 DEF h
<1>10. ASSUME NEW j \in 1 .. n
       PROVE  /\ cs[j].bytes \in Raw
              /\ e(j) = e(j - 1) + Len(cs[j].bytes) /\ Len(cs[j].bytes) \in Nat
              /\ \A x \in 1 .. Len(cs[j].bytes) : cs[j].bytes[x] = t[e(j - 1) + x]
  <2> DEFINE u == cs[j].bytes
             a == e(j - 1) + 1
             b == e(j)
  <2>1. /\ u = SubSeq(t, a, b) /\ a \in Nat \ {0} /\ b \in Nat /\ b <= l /\ a <= b + 1
        /\ e(j - 1) = a - 1
    <3>1. cs[j].bytes = SubSeq(t, e(j - 1) + 1, e(j))
      BY <1>9
    <3>2. e(j - 1) \in Nat /\ e(j) \in Nat /\ e(j) <= l /\ e(j - 1) <= e(j)
      BY <1>9
    <3>3. \A x, y \in Nat : x <= y => x + 1 \in Nat \ {0} /\ x + 1 <= y + 1 /\ x = (x + 1) - 1
      OBVIOUS
    <3> QED BY <3>1, <3>2, <3>3
  <2> HIDE DEF u, a, b
  <2>2. \A x \in a .. b : t[x] \in Bits
    BY <1>1, <2>1, ElementOfSeq DEF Raw, l
  <2>3. /\ SubSeq(t, a, b) \in Seq(Bits)
        /\ Len(SubSeq(t, a, b)) = IF a <= b THEN b - a + 1 ELSE 0
        /\ \A x \in 1 .. b - a + 1 : SubSeq(t, a, b)[x] = t[a + x - 1]
    BY <2>1, <2>2, SubSeqProperties
  <2>4. Len(u) = b - a + 1 /\ Len(u) \in Nat /\ b = (a - 1) + Len(u) /\ u \in Raw
    BY <2>1, <2>3 DEF Raw
  <2>5. \A x \in 1 .. Len(u) : u[x] = t[(a - 1) + x]
    <3>1. \A x \in 1 .. Len(u) : a + x - 1 = (a - 1) + x
      BY <2>1, <2>4
    <3> QED BY <2>1, <2>3, <2>4, <3>1
  <2> QED BY <2>1, <2>4, <2>5 DEF u, b
<1>11. ASSUME NEW j \in 1 .. n PROVE Len(cs[j].bytes) <= d
  <2>2. e(j - 1) \in Nat /\ e(j) <= e(j - 1) + d /\ e(j) = e(j - 1) + Len(cs[j].bytes) /\ Len(cs[j].bytes) \in Nat
    BY <1>9, <1>10
  <2> QED BY <1>1, <2>2
<1>12. cs \in Seq([last : BOOLEAN, bytes : Raw])
  <2>1. ASSUME NEW j \in 1 .. n PROVE c(j) \in [last : BOOLEAN, bytes : Raw]
    <3> DEFINE b == f(j)
               a == j = n
    <3>1. b \in Raw
      BY <1>4b, <1>10
    <3>2. c(j) = [last |-> a, bytes |-> b] /\ a \in BOOLEAN
      OBVIOUS
    <3> HIDE DEF a, b, c
    <3> QED BY <3>1, <3>2
  <2> DEFINE R == [last : BOOLEAN, bytes : Raw]
  <2>2. \A j \in 1 .. n : c(j) \in R
    BY <2>1
  <2> HIDE DEF c, R
  <2>3. cs \in [1 .. n -> R] /\ n \in Nat
    BY <1>4, <1>4a, <2>2
  <2>4. cs \in Seq(R)
    BY <2>3, IsASeq
  <2> QED BY <2>4 DEF R
<1> HIDE DEF c
<1> QED BY <1>1, <1>4, <1>4b, <1>7, <1>8, <1>10, <1>11, <1>12 DEF d, e, n, l, Cuts

\* The chunks of a text are the text.
LEMMA ChunksOfText ==
  ASSUME NEW t \in Raw
  PROVE  FlattenSeq(BytesOf(Chunked(t))) = t
<1> DEFINE cs == Chunked(t)
           n == Len(cs)
           l == Len(t)
           e(j) == End(l, n, j)
           bs == BytesOf(cs)
<1>1. /\ l \in Nat /\ n \in Nat \ {0} /\ DOMAIN cs = 1 .. n
      /\ e(0) = 0 /\ e(n) = l
      /\ \A j \in 0 .. n : e(j) \in 0 .. l
      /\ \A j \in 1 .. n :
           /\ cs[j].bytes \in Raw
           /\ e(j) = e(j - 1) + Len(cs[j].bytes) /\ Len(cs[j].bytes) \in Nat
           /\ \A x \in 1 .. Len(cs[j].bytes) : cs[j].bytes[x] = t[e(j - 1) + x]
  <2>1. cs = Chunked(t)
    OBVIOUS
  <2> HIDE DEF cs
  <2>2. Cuts(cs, t)
    BY <2>1, ChunkedIs
  <2> QED BY <2>2 DEF Cuts
<1> HIDE DEF cs, n, l, e
<1>2. bs \in Seq(Raw) /\ Len(bs) = n /\ \A j \in 1 .. n : bs[j] = cs[j].bytes
  BY <1>1 DEF BytesOf
<1> HIDE DEF bs
<1>3. bs \in Seq(Seq(Bits)) /\ Join(bs, 0) = << >> /\ Join(bs, n) = FlattenSeq(bs)
  <2>1. bs \in Seq(Seq(Bits))
    BY <1>2 DEF Raw
  <2>2. Join(bs, 0) = << >> /\ Join(bs, Len(bs)) = FlattenSeq(bs)
    BY <2>1, JoinIs
  <2> QED BY <1>2, <2>1, <2>2
<1> DEFINE Good(j) == Len(Join(bs, j)) = e(j) /\ \A x \in 1 .. e(j) : Join(bs, j)[x] = t[x]
           G == {j \in 0 .. n : Good(j)}
<1>4. 0 \in G
  <2>1. Len(Join(bs, 0)) = 0 /\ 1 .. 0 = {} /\ 0 \in 0 .. n
    BY <1>1, <1>3
  <2> QED BY <1>1, <2>1
<1>5. ASSUME NEW i \in 0 .. n, i \in G, i + 1 <= n PROVE i + 1 \in G
  <2> DEFINE j == i + 1
  <2>1. j \in 1 .. n /\ j - 1 = i /\ j \in 0 .. n /\ j \in 1 .. Len(bs)
    <3>1. n \in Nat /\ Len(bs) = n /\ i \in 0 .. n /\ i + 1 <= n
      BY <1>1, <1>2, <1>5
    <3> HIDE DEF G
    <3> QED BY <3>1
  <2> HIDE DEF j
  <2>2. /\ Len(Join(bs, j - 1)) \in Nat /\ Len(bs[j]) \in Nat
        /\ Len(Join(bs, j)) = Len(Join(bs, j - 1)) + Len(bs[j])
        /\ \A x \in 1 .. Len(Join(bs, j - 1)) : Join(bs, j)[x] = Join(bs, j - 1)[x]
        /\ \A x \in 1 .. Len(bs[j]) : Join(bs, j)[Len(Join(bs, j - 1)) + x] = bs[j][x]
    BY <1>3, <2>1, JoinStep
  <2>3. Good(i)
    BY <1>5
  <2>4. e(j) = e(i) + Len(bs[j]) /\ \A x \in 1 .. Len(bs[j]) : bs[j][x] = t[e(i) + x]
    <3> HIDE DEF G, Good
    <3>1. e(j) = e(j - 1) + Len(bs[j])
      BY <1>1, <1>2, <2>1, ZenonT(60)
    <3>2. \A x \in 1 .. Len(bs[j]) : bs[j][x] = t[e(j - 1) + x]
      BY <1>1, <1>2, <2>1
    <3> QED BY <2>1, <3>1, <3>2
  <2>5. Len(Join(bs, j)) = e(j) /\ e(i) \in Nat
    BY <2>1, <2>2, <2>3, <2>4
  <2>6. ASSUME NEW x \in 1 .. e(j) PROVE Join(bs, j)[x] = t[x]
    <3>1. CASE x <= e(i)
      BY <2>1, <2>2, <2>3, <2>5, <3>1
    <3>2. CASE ~(x <= e(i))
      <4> DEFINE y == x - e(i)
      <4>1. y \in 1 .. Len(bs[j]) /\ x = e(i) + y
        BY <2>2, <2>4, <2>5, <3>2
      <4> HIDE DEF y
      <4>2. Join(bs, j)[e(i) + y] = bs[j][y] /\ bs[j][y] = t[e(i) + y]
        BY <2>1, <2>2, <2>3, <2>4, <4>1
      <4> QED BY <4>1, <4>2
    <3> QED BY <3>1, <3>2
  <2>7. j \in G
    BY <2>1, <2>5, <2>6
  <2> QED BY <2>7 DEF j
<1>6. n \in G
  <2> HIDE DEF G
  <2>1. \A i \in 0 .. n : i \in G
    BY <1>1, <1>4, <1>5, StepByStep
  <2> QED BY <1>1, <2>1
<1>7. Len(FlattenSeq(bs)) = l /\ \A x \in 1 .. l : FlattenSeq(bs)[x] = t[x]
  BY <1>1, <1>3, <1>6
<1>8. FlattenSeq(bs) \in Raw
  BY <1>2, JoinLengths
<1>9. FlattenSeq(bs) = t
  BY <1>1, <1>7, <1>8, SeqEqual DEF l, Raw
<1> QED BY <1>9 DEF bs, cs

(***************************************************************************)
(* The inductive invariant.                                                *)
(***************************************************************************)

Entry  == Seq(FieldType)
Kept   == IF kind = "vault" THEN Seq(Entry) ELSE Seq(File)
Meants == IF kind = "vault" THEN Seq(EntryMeant) ELSE Seq(File)

RdType == [phase : {"idle", "chunk", "record", "done", "failed"},
           way : {"vault", "list", "extract"},
           rest : Seq([last : BOOLEAN, bytes : Raw]), pending : Raw,
           key : 0 .. version, at : Nat,
           got : Kept,
           part : Seq([path : Nat, size : Nat, body : PlainText]), end : BOOLEAN]

BodyTypes ==
  /\ kind \in {"vault", "sealed"} /\ open \in BOOLEAN
  /\ version \in 0 .. MaxSaves /\ edits \in 0 .. MaxEdits
  /\ meant \in Meants /\ saved \in Meants
  /\ rd \in RdType

\* The text on the disk is what was saved, then zeros.
Whole  == FlattenSeq(BytesOf(chunks))
OnDisk == Text(saved, version)

Stored ==
  chunks # << >> =>
    /\ version \in 1 .. MaxSaves
    /\ Whole \in Raw /\ chunks = Chunked(Whole)
    /\ OnDisk \in Raw /\ Has(Whole, 0, OnDisk)
    /\ \A x \in Len(OnDisk) + 1 .. Len(Whole) : Whole[x] = Byte(0)

Shown ==
  /\ open => rd = Unread /\ content \in Kept /\ View = meant
  /\ ~open => chunks # << >> /\ meant = saved

\* The chunks the reader r was given, and where the j-th ends.
Given(r)    == IF r.way = "list" THEN <<[last |-> TRUE, bytes |-> Whole]>> ELSE chunks
Bound(r, j) == End(Len(Whole), Len(Given(r)), j)
FedTo(r, j) == r.rest = SubSeq(Given(r), j + 1, Len(Given(r)))

\* It has read c bytes of the text; pending are those up to the end of chunk j.
Stands(r, j, c) ==
  /\ FedTo(r, j)
  /\ c + Len(r.pending) = Bound(r, j)
  /\ \A x \in 1 .. Len(r.pending) : r.pending[x] = Whole[c + x]

Gathered(r) ==
  /\ Len(r.got) <= Len(saved)
  /\ \A i \in 1 .. Len(r.got) :
       (IF kind = "vault" THEN Meaning(r.got[i]) ELSE r.got[i]) = saved[i]

\* Behind so many entries of a vault.
InVault(r, c) ==
  /\ r.part = << >> /\ r.at = EntryAt(saved, Len(r.got) + 1)
  /\ \/ r.key = 0 /\ r.got = << >> /\ c = 0
     \/ r.key = version /\ c = 3 + Len(Join(EntryRecords(saved, version), Len(r.got)))

\* Before the first file, or behind b parts of the next one.
InSealed(r, c) ==
  \/ r.part = << >> /\ r.got = << >> /\ c = 0
  \/ LET i == Len(r.got) + 1
         s == saved[i].body
     IN /\ i <= Len(saved)
        /\ \E b \in 0 .. Len(Parts(s)) :
             /\ c = FileAt(saved, i, b + 1)
             /\ r.part = <<[path |-> saved[i].path, size |-> Len(s), body |-> SubSeq(s, 1, PartEnd(s, b))]>>

\* Behind the last record there are zeros.
Past(r, j) ==
  /\ FedTo(r, j)
  /\ Len(OnDisk) <= Bound(r, j)
  /\ \A x \in 1 .. Len(r.pending) : r.pending[x] = Byte(0)
  /\ Len(r.got) = Len(saved) /\ r.part = << >>
  /\ kind = "vault" => r.key = version
  /\ r.phase = "record" => r.way = "vault"

Reader(r) ==
  r.phase \in {"chunk", "record"} =>
    \E j \in 0 .. Len(Given(r)) :
      \/ r.end /\ Past(r, j)
      \/ /\ ~r.end
         /\ \E c \in 0 .. Len(Whole) :
              Stands(r, j, c) /\ IF kind = "vault" THEN InVault(r, c) ELSE InSealed(r, c)

ReadsOf(r) ==
  r.phase # "idle" =>
    /\ r.way = "vault" <=> kind = "vault"
    /\ Gathered(r) /\ Reader(r)
    /\ r.phase = "done" => Len(r.got) = Len(saved)

Reads == ReadsOf(rd)

BodyInv == BodyTypes /\ Stored /\ Shown /\ Reads

LEMMA Idle == Unread.phase = "idle"
BY DEF Unread

LEMMA UnreadIs == ASSUME version \in Nat PROVE Unread \in RdType
<1>1. /\ << >> \in Seq([last : BOOLEAN, bytes : Raw]) /\ << >> \in Raw /\ << >> \in Kept
      /\ << >> \in Seq([path : Nat, size : Nat, body : PlainText])
      /\ 0 \in 0 .. version
  BY DEF Raw, Kept
<1> QED BY <1>1 DEF Unread, RdType

\* What is on the disk and how it is cut.
LEMMA GivenIs ==
  ASSUME Stored, chunks # << >>, NEW r \in RdType
  PROVE  Cuts(Given(r), Whole) /\ Cuts(chunks, Whole)
         /\ \A j \in 1 .. Len(chunks) : Len(chunks[j].bytes) <= ChunkLen
<1>1. Whole \in Raw /\ chunks = Chunked(Whole)
  BY DEF Stored
<1>2. Cuts(chunks, Whole) /\ \A j \in 1 .. Len(chunks) : Len(chunks[j].bytes) <= ChunkLen
  BY <1>1, ChunkedIs
<1>3. CASE r.way = "list"
  <2> DEFINE b == [last |-> TRUE, bytes |-> Whole]
             g == <<b>>
             l == Len(Whole)
  <2>1. Given(r) = g
    BY <1>3 DEF Given
  <2>2. b.last = TRUE /\ b.bytes = Whole /\ b \in [last : BOOLEAN, bytes : Raw]
    BY <1>1
  <2>3. l \in Nat /\ ChunkLen \in Nat
    BY <1>1, LenProperties, SizeAssumption DEF Raw
  <2> HIDE DEF b
  <2>4. /\ Len(g) = 1 /\ DOMAIN g = 1 .. 1 /\ g \in Seq([last : BOOLEAN, bytes : Raw])
        /\ g[1] = b /\ \A j \in 1 .. 1 : j = 1
    BY <2>2
  <2> HIDE DEF g, l
  <2>5. End(l, 1, 0) = 0 /\ End(l, 1, 1) = l
    BY <2>3 DEF End
  <2>6. \A j \in 0 .. 1 : End(l, 1, j) \in 0 .. l
    BY <2>3, <2>5
  <2>7. \A x \in 1 .. l : 0 + x = x
    BY <2>3
  <2>8. ASSUME NEW j \in 1 .. 1
        PROVE  /\ g[j].bytes \in Raw
               /\ End(l, 1, j) = End(l, 1, j - 1) + Len(g[j].bytes) /\ Len(g[j].bytes) \in Nat
               /\ \A x \in 1 .. Len(g[j].bytes) : g[j].bytes[x] = Whole[End(l, 1, j - 1) + x]
    <3>1. j = 1 /\ j - 1 = 0 /\ g[j].bytes = Whole /\ Len(g[j].bytes) = l
      BY <2>2, <2>4 DEF l
    <3> QED BY <1>1, <2>3, <2>5, <2>7, <3>1
  <2>9. g[1].last = TRUE /\ \A j \in 1 .. 1 : j # 1 => g[j].last = FALSE
    BY <2>2, <2>4
  <2>10. Cuts(g, Whole)
    BY <2>3, <2>4, <2>5, <2>6, <2>8, <2>9 DEF Cuts, l
  <2> QED BY <1>2, <2>1, <2>10
<1>4. CASE r.way # "list"
  BY <1>2, <1>4 DEF Given
<1> QED BY <1>3, <1>4

\* A step of the reader: the rest stays as it is.
LEMMA StepKeeps ==
  ASSUME BodyInv, ~open, NEW r \in RdType, Step(r), ReadsOf(r)
  PROVE  BodyInv'
<1>1. /\ kind' = kind /\ open' = open /\ content' = content /\ chunks' = chunks /\ version' = version
      /\ edits' = edits /\ meant' = meant /\ saved' = saved /\ rd' = r
  BY DEF Step
<1>2. ~open /\ chunks # << >> /\ meant = saved
  BY DEF BodyInv, Shown
<1>3. Whole' = Whole /\ OnDisk' = OnDisk /\ Kept' = Kept /\ Meants' = Meants
  BY <1>1 DEF Whole, BytesOf, OnDisk, Text, Kept, Meants
<1>4. BodyTypes'
  BY <1>1, <1>3 DEF BodyInv, BodyTypes, RdType
<1>5. Stored'
  BY <1>1, <1>3 DEF BodyInv, Stored
<1>6. Shown'
  BY <1>1, <1>2 DEF Shown
<1>7. Gathered(rd)' <=> Gathered(r)
  BY <1>1 DEF Gathered
<1>8. Given(rd)' = Given(r)
  BY <1>1, <1>3 DEF Given
<1>9. \A j : FedTo(rd, j)' <=> FedTo(r, j)
  BY <1>1, <1>8 DEF FedTo
<1>10. \A j : Bound(rd, j)' = Bound(r, j)
  BY <1>3, <1>8 DEF Bound
<1>11. \A j, c : Stands(rd, j, c)' <=> Stands(r, j, c)
  BY <1>1, <1>3, <1>9, <1>10 DEF Stands
<1>12. \A c : InVault(rd, c)' <=> InVault(r, c)
  BY <1>1 DEF InVault
<1>13. \A c : InSealed(rd, c)' <=> InSealed(r, c)
  BY <1>1 DEF InSealed
<1>14. \A j : Past(rd, j)' <=> Past(r, j)
  BY <1>1, <1>3, <1>9, <1>10 DEF Past
<1>15. Reader(rd)' <=> Reader(r)
  BY <1>1, <1>3, <1>8, <1>11, <1>12, <1>13, <1>14 DEF Reader
<1>16. Reads'
  BY <1>1, <1>7, <1>15 DEF Reads, ReadsOf
<1> QED BY <1>4, <1>5, <1>6, <1>16 DEF BodyInv

LEMMA StepIs ==
  ASSUME BodyInv, rd.phase # "idle", NEW r \in RdType, Step(r), ReadsOf(r)
  PROVE  BodyInv'
<1>1. ~open
  BY Idle DEF BodyInv, Shown
<1> QED BY <1>1, StepKeeps

(***************************************************************************)
(* Reading records.                                                        *)
(***************************************************************************)

LEMMA RdIs ==
  ASSUME BodyInv, rd.phase # "idle"
  PROVE  /\ ~open /\ chunks # << >> /\ meant = saved /\ rd \in RdType
         /\ Stored /\ version \in 1 .. MaxSaves /\ version \in Nat /\ Whole \in Raw /\ OnDisk \in Raw
         /\ Len(Whole) \in Nat /\ Len(OnDisk) \in Nat
         /\ rd.pending \in Raw /\ Len(rd.pending) \in Nat /\ rd.key \in Nat
         /\ Cuts(Given(rd), Whole) /\ Len(Given(rd)) \in Nat \ {0}
         /\ kind \in {"vault", "sealed"} /\ (rd.way = "vault" <=> kind = "vault")
         /\ Gathered(rd) /\ Reader(rd)
<1>1. ~open /\ chunks # << >> /\ meant = saved /\ rd \in RdType /\ Stored
  BY Idle DEF BodyInv, Shown, BodyTypes
<1>2. version \in 1 .. MaxSaves /\ version \in Nat /\ Whole \in Raw /\ OnDisk \in Raw
  BY <1>1, BoundsAssumption DEF Stored
<1>3. rd.pending \in Raw /\ rd.key \in Nat
  BY <1>1 DEF RdType
<1>4. Len(Whole) \in Nat /\ Len(OnDisk) \in Nat /\ Len(rd.pending) \in Nat
  BY <1>2, <1>3, LenProperties DEF Raw
<1>5. Cuts(Given(rd), Whole)
  BY <1>1, GivenIs
<1>6. Len(Given(rd)) \in Nat \ {0}
  BY <1>5 DEF Cuts
<1> QED BY <1>1, <1>2, <1>3, <1>4, <1>5, <1>6 DEF BodyInv, BodyTypes, Reads, ReadsOf

\* The record that comes next in the text is the one that is read next.
LEMMA NextRecord ==
  ASSUME BodyInv, rd.phase # "idle", NEW j, NEW c \in Nat, Stands(rd, j, c), Bound(rd, j) \in Nat,
         NEW tag \in Nat, NEW t \in Raw, Has(Whole, c, Record(tag, t))
  PROVE  /\ ~Short => rd.pending[1][1] = tag /\ Length0 = Len(t)
         /\ ~Partial => /\ ~Short /\ rd.pending[1][1] = tag /\ Length0 = Len(t)
                        /\ Value = t /\ Beyond \in RdType /\ Stands(Beyond, j, c + 2 + Len(t))
                        /\ c + 2 + Len(t) \in 0 .. Len(Whole)
         /\ ~Partial <=> Len(t) + 2 <= Len(rd.pending)
         /\ Len(t) \in Nat
<1> DEFINE p == rd.pending
           r == Record(tag, t)
<1>1. /\ rd \in RdType /\ Whole \in Raw /\ Len(Whole) \in Nat
      /\ p \in Raw /\ Len(p) \in Nat
  BY RdIs
<1>2. /\ r \in Raw /\ Len(t) \in Nat /\ Len(r) = Len(t) + 2
      /\ r[1] = Byte(tag) /\ r[2] = Byte(Len(t)) /\ \A x \in 1 .. Len(t) : r[2 + x] = t[x]
  BY RecordIs
<1>3. /\ c + Len(r) <= Len(Whole) /\ \A x \in 1 .. Len(r) : Whole[c + x] = r[x]
      /\ c + Len(p) = Bound(rd, j) /\ \A x \in 1 .. Len(p) : p[x] = Whole[c + x]
      /\ FedTo(rd, j)
  BY DEF Has, Stands
<1>4. Short <=> Len(p) < 2
  BY DEF Short, HeaderLen
<1> HIDE DEF p, r
<1>5. ASSUME ~Short PROVE p[1][1] = tag /\ p[2][1] = Len(t)
  <2>1. p[1] = r[1] /\ p[2] = r[2]
    <3>1. 1 \in 1 .. Len(p) /\ 2 \in 1 .. Len(p) /\ 1 \in 1 .. Len(r) /\ 2 \in 1 .. Len(r)
      BY <1>1, <1>2, <1>4, <1>5
    <3> QED BY <1>3, <3>1
  <2> QED BY <1>2, <2>1 DEF Byte
<1>6. ~Short => Length0 = Len(t)
  BY <1>5 DEF Length0, p
<1>7. ~Partial <=> Len(t) + 2 <= Len(p)
  <2>1. Partial <=> IF Short THEN TRUE ELSE Len(p) < 2 + Length0
    BY DEF Partial, HeaderLen, p
  <2> QED BY <1>1, <1>2, <1>4, <1>6, <2>1
<1>8. ASSUME ~Partial
      PROVE  /\ ~Short /\ Value = t /\ Beyond \in RdType /\ Stands(Beyond, j, c + 2 + Len(t))
             /\ c + 2 + Len(t) \in 0 .. Len(Whole)
  <2> DEFINE n == Len(t)
             d == c + 2 + n
             u == SubSeq(p, 3, 2 + n)
             w == SubSeq(p, 2 + n + 1, Len(p))
  <2>1. ~Short /\ n + 2 <= Len(p) /\ n \in Nat
    BY <1>1, <1>2, <1>4, <1>7, <1>8
  <2>2. Value = u /\ Beyond = [rd EXCEPT !.pending = w]
    <3>1. Length0 = n /\ HeaderLen = 2
      BY <1>6, <2>1 DEF HeaderLen
    <3>2. Value = SubSeq(p, 2 + 1, 2 + n) /\ Beyond = [rd EXCEPT !.pending = SubSeq(p, 2 + n + 1, Len(p))]
      BY <3>1 DEF Value, Beyond, p
    <3>3. 2 + 1 = 3
      OBVIOUS
    <3> QED BY <3>2, <3>3
  <2> HIDE DEF n
  <2>3. \A x \in 3 .. 2 + n : p[x] \in Bits
    BY <1>1, <2>1, ElementOfSeq DEF Raw
  <2>4. /\ u \in Seq(Bits)
        /\ Len(u) = IF 3 <= 2 + n THEN (2 + n) - 3 + 1 ELSE 0
        /\ \A x \in 1 .. (2 + n) - 3 + 1 : u[x] = p[3 + x - 1]
    BY <2>1, <2>3, SubSeqProperties
  <2> HIDE DEF u
  <2>5. Len(u) = n /\ \A x \in 1 .. n : u[x] = p[2 + x]
    <3>1. (2 + n) - 3 + 1 = n /\ \A x \in 1 .. n : 3 + x - 1 = 2 + x
      BY <2>1
    <3> QED BY <2>1, <2>4, <3>1
  <2>6. ASSUME NEW x \in 1 .. n PROVE u[x] = t[x]
    <3>1. 2 + x \in 1 .. Len(p) /\ 2 + x \in 1 .. Len(r)
      BY <1>1, <1>2, <2>1 DEF n
    <3>2. p[2 + x] = Whole[c + (2 + x)] /\ Whole[c + (2 + x)] = r[2 + x] /\ r[2 + x] = t[x]
      BY <1>2, <1>3, <3>1 DEF n
    <3> QED BY <2>5, <3>2
  <2>7. u = t
    <3>1. t \in Seq(Bits) /\ Len(t) = n
      BY DEF Raw, n
    <3> QED BY <2>4, <2>5, <2>6, <3>1, SeqEqual
  <2>8. \A x \in 2 + n + 1 .. Len(p) : p[x] \in Bits
    BY <1>1, <2>1, ElementOfSeq DEF Raw
  <2>9. /\ w \in Seq(Bits)
        /\ Len(w) = IF 2 + n + 1 <= Len(p) THEN Len(p) - (2 + n + 1) + 1 ELSE 0
        /\ \A x \in 1 .. Len(p) - (2 + n + 1) + 1 : w[x] = p[(2 + n + 1) + x - 1]
    <3> DEFINE a == 2 + n + 1
               q == Len(p)
    <3>1. a \in Nat /\ a >= 1 /\ q \in Nat /\ a <= q + 1 /\ \A x \in a .. q : p[x] \in Bits
      BY <1>1, <2>1, <2>8
    <3> HIDE DEF a, q
    <3>2. /\ SubSeq(p, a, q) \in Seq(Bits)
          /\ Len(SubSeq(p, a, q)) = IF a <= q THEN q - a + 1 ELSE 0
          /\ \A x \in 1 .. q - a + 1 : SubSeq(p, a, q)[x] = p[a + x - 1]
      BY <3>1, SubSeqProperties
    <3> QED BY <3>2 DEF a, q
  <2> HIDE DEF w
  <2>10. Len(w) = Len(p) - (2 + n) /\ \A x \in 1 .. Len(w) : w[x] = p[2 + n + x]
    <3>1. Len(p) - (2 + n + 1) + 1 = Len(p) - (2 + n) /\ Len(w) = Len(p) - (2 + n)
      BY <1>1, <2>1, <2>9
    <3>2. \A x \in 1 .. Len(w) : (2 + n + 1) + x - 1 = 2 + n + x
      BY <2>1, <3>1
    <3> QED BY <2>9, <3>1, <3>2
  <2>11. \A x \in 1 .. Len(w) : w[x] = Whole[d + x]
    <3>1. ASSUME NEW x \in 1 .. Len(w) PROVE w[x] = Whole[d + x]
      <4>1. 2 + n + x \in 1 .. Len(p) /\ c + (2 + n + x) = d + x
        BY <1>1, <2>1, <2>10, SMTT(30)
      <4>2. p[2 + n + x] = Whole[c + (2 + n + x)]
        BY <1>3, <4>1
      <4> QED BY <2>10, <4>1, <4>2
    <3> QED BY <3>1
  <2>12. d + Len(w) = Bound(rd, j) /\ d \in 0 .. Len(Whole)
    <3>1. d + Len(w) = c + Len(p)
      BY <1>1, <2>1, <2>10
    <3>2. d <= Len(Whole) /\ d \in Nat
      BY <1>1, <1>2, <1>3, <2>1 DEF n
    <3> QED BY <1>1, <1>3, <3>1, <3>2
  <2>13. Beyond \in RdType /\ Beyond.pending = w /\ Beyond.rest = rd.rest /\ Beyond.way = rd.way
    BY <1>1, <2>2, <2>9 DEF RdType, Raw
  <2>14. Given(Beyond) = Given(rd)
    BY <2>13 DEF Given
  <2>15. FedTo(Beyond, j) /\ Bound(Beyond, j) = Bound(rd, j)
    BY <1>3, <2>13, <2>14 DEF FedTo, Bound
  <2> HIDE DEF d
  <2>16. Stands(Beyond, j, d)
    BY <2>11, <2>12, <2>13, <2>15 DEF Stands
  <2> QED BY <2>1, <2>2, <2>7, <2>12, <2>13, <2>16 DEF n, d
<1> QED BY <1>2, <1>5, <1>6, <1>7, <1>8 DEF p

LEMMA OnDiskHas ==
  ASSUME BodyInv, rd.phase # "idle", NEW c \in Nat, NEW r \in Raw, Has(OnDisk, c, r)
  PROVE  Has(Whole, c, r)
<1>1. Whole \in Raw /\ OnDisk \in Raw /\ Has(Whole, 0, OnDisk)
  BY RdIs DEF Stored
<1>2. Has(Whole, 0 + c, r) /\ 0 + c = c
  BY <1>1, HasWithin
<1> QED BY <1>2

KeyNext(c) == rd.key = 0 /\ rd.got = << >> /\ c = 0 /\ Has(Whole, c, KeyRecord(version))

EntryNext(c, i) ==
  /\ i = Len(rd.got) + 1 /\ i \in 1 .. Len(saved) /\ rd.key = version
  /\ Has(Whole, c, Record(ENTRY, EntryText(saved, version, i)))
  /\ c + 2 + Len(EntryText(saved, version, i)) = 3 + Len(Join(EntryRecords(saved, version), i))

EndNext(c) ==
  /\ Len(rd.got) = Len(saved) /\ rd.key = version
  /\ Has(Whole, c, EndRecord) /\ c + 2 = Len(OnDisk)

LEMMA VaultNext ==
  ASSUME BodyInv, rd.phase # "idle", kind = "vault", NEW c \in Nat, InVault(rd, c)
  PROVE  /\ saved \in Seq(EntryMeant) /\ Len(saved) \in Nat /\ Len(rd.got) \in 0 .. Len(saved)
         /\ rd.got \in Seq(Entry)
         /\ KeyNext(c) \/ (\E i \in 1 .. Len(saved) : EntryNext(c, i)) \/ EndNext(c)
<1> DEFINE N == Len(saved)
           k == version
           rs == EntryRecords(saved, k)
           g == Len(rd.got)
           t == Payload(saved, k)
<1>1. /\ version \in 1 .. MaxSaves /\ Whole \in Raw /\ OnDisk \in Raw /\ Gathered(rd) /\ rd \in RdType
  BY RdIs
<1>2. saved \in Seq(EntryMeant) /\ OnDisk = t /\ rd.got \in Seq(Entry)
  BY <1>1 DEF BodyInv, BodyTypes, Meants, OnDisk, Text, RdType, Kept
<1>3. N \in Nat /\ g \in 0 .. N
  BY <1>1, <1>2, LenProperties DEF Gathered
<1>4. /\ Has(t, 0, KeyRecord(k))
      /\ \A i \in 1 .. N : Has(t, 3 + Len(Join(rs, i - 1)), rs[i])
      /\ Has(t, 3 + Len(Join(rs, N)), EndRecord)
      /\ Len(t) = 5 + Len(Join(rs, N))
  BY <1>1, <1>2, PayloadIs
<1>5. /\ rs \in Seq(Raw) /\ Len(rs) = N
      /\ \A i \in 1 .. N :
              /\ rs[i] = Record(ENTRY, EntryText(saved, k, i))
              /\ EntryText(saved, k, i) \in Raw
  BY <1>1, <1>2, EntryTextIs
<1> HIDE DEF rs, t, k
<1>6. \A i \in 0 .. N : Len(Join(rs, i)) \in Nat
  BY <1>5, JoinLengths
<1>7. CASE rd.key = 0 /\ rd.got = << >> /\ c = 0
  <2>1. KeyRecord(k) \in Raw
    <3> DEFINE u == <<Byte(k)>>
    <3>1. u \in Raw /\ KEY \in Nat
      <4>1. k \in Int
        BY <1>1 DEF k
      <4> QED BY <4>1, ByteIs DEF Raw, KEY
    <3> HIDE DEF u
    <3>2. Record(KEY, u) \in Raw
      BY <3>1, RecordIs
    <3> QED BY <3>2 DEF KeyRecord, u
  <2>2. Has(OnDisk, c, KeyRecord(k))
    BY <1>2, <1>4, <1>7
  <2>3. Has(Whole, c, KeyRecord(k))
    BY <2>1, <2>2, OnDiskHas
  <2> QED BY <1>2, <1>3, <1>7, <2>3 DEF KeyNext, k
<1>8. CASE rd.key = version /\ c = 3 + Len(Join(rs, g)) /\ g < N
  <2> DEFINE i == g + 1
  <2>1. i \in 1 .. N /\ i - 1 = g /\ i = g + 1
    BY <1>3, <1>8
  <2> HIDE DEF i
  <2>2. rs[i] \in Raw /\ Len(Join(rs, i)) = Len(Join(rs, g)) + Len(rs[i]) /\ Len(Join(rs, g)) \in Nat
    BY <1>5, <2>1, HasJoined
  <2>3. Has(OnDisk, c, rs[i])
    BY <1>2, <1>4, <1>8, <2>1
  <2>4. Has(Whole, c, rs[i])
    BY <2>2, <2>3, OnDiskHas
  <2> DEFINE u == EntryText(saved, k, i)
  <2>5. rs[i] = Record(ENTRY, u) /\ u \in Raw /\ ENTRY \in Nat
    BY <1>5, <2>1 DEF ENTRY
  <2> HIDE DEF u
  <2>6. Len(rs[i]) = Len(u) + 2 /\ Len(u) \in Nat
    BY <2>5, RecordIs
  <2>7. c + 2 + Len(u) = 3 + Len(Join(rs, i))
    BY <1>8, <2>2, <2>6
  <2>8. EntryNext(c, i)
    BY <1>8, <2>1, <2>4, <2>5, <2>7 DEF EntryNext, u, rs, k
  <2> QED BY <1>2, <1>3, <2>1, <2>8
<1>9. CASE rd.key = version /\ c = 3 + Len(Join(rs, g)) /\ ~(g < N)
  <2>1. g = N
    BY <1>3, <1>9
  <2>2. EndRecord \in Raw
    <3>1. END \in Nat /\ << >> \in Raw
      BY DEF END, Raw
    <3> QED BY <3>1, RecordIs DEF EndRecord
  <2>3. Has(OnDisk, c, EndRecord)
    BY <1>2, <1>4, <1>9, <2>1
  <2>4. Has(Whole, c, EndRecord)
    BY <2>2, <2>3, OnDiskHas
  <2>5. c + 2 = Len(OnDisk)
    BY <1>2, <1>3, <1>4, <1>6, <1>9, <2>1
  <2> QED BY <1>2, <1>3, <1>9, <2>1, <2>4, <2>5 DEF EndNext
<1> QED BY <1>7, <1>8, <1>9 DEF InVault, rs, k

LEMMA SameStands ==
  ASSUME NEW q, NEW r, r.rest = q.rest, r.pending = q.pending, r.way = q.way
  PROVE  /\ Given(r) = Given(q)
         /\ \A j : Bound(r, j) = Bound(q, j) /\ (FedTo(r, j) <=> FedTo(q, j))
         /\ \A j, c : Stands(r, j, c) <=> Stands(q, j, c)
<1>1. Given(r) = Given(q)
  BY DEF Given
<1>2. \A j : Bound(r, j) = Bound(q, j) /\ (FedTo(r, j) <=> FedTo(q, j))
  BY <1>1 DEF Bound, FedTo
<1> QED BY <1>1, <1>2 DEF Stands

\* Where the reader is, as long as it reads.
LEMMA Cursor ==
  ASSUME BodyInv, rd.phase \in {"chunk", "record"}
  PROVE  \E j \in 0 .. Len(Given(rd)) :
           /\ Bound(rd, j) \in 0 .. Len(Whole)
           /\ \/ rd.end /\ Past(rd, j)
              \/ /\ ~rd.end
                 /\ \E c \in 0 .. Len(Whole) :
                      Stands(rd, j, c) /\ IF kind = "vault" THEN InVault(rd, c) ELSE InSealed(rd, c)
<1>1. Reader(rd) /\ Cuts(Given(rd), Whole)
  BY RdIs
<1>2. \A j \in 0 .. Len(Given(rd)) : Bound(rd, j) \in 0 .. Len(Whole)
  BY <1>1 DEF Cuts, Bound
<1> QED BY <1>1, <1>2 DEF Reader

LEMMA FailKeeps == ASSUME BodyInv, rd.phase # "idle", Fail PROVE BodyInv'
<1> DEFINE r == [rd EXCEPT !.phase = "failed"]
<1>1. rd \in RdType /\ Gathered(rd) /\ (rd.way = "vault" <=> kind = "vault")
  BY RdIs
<1>2. r \in RdType /\ r.phase = "failed" /\ r.way = rd.way /\ r.got = rd.got
  BY <1>1 DEF RdType
<1>3. Step(r)
  BY DEF Fail
<1> HIDE DEF r
<1>4. Gathered(r)
  BY <1>1, <1>2 DEF Gathered
<1>5. ReadsOf(r)
  BY <1>1, <1>2, <1>4 DEF ReadsOf, Reader
<1> QED BY <1>2, <1>3, <1>5, StepIs

\* Behind the end only records of the end are read.
LEMMA PastReads ==
  ASSUME BodyInv, NEW tag, Reading(tag), rd.end
  PROVE  tag = END /\ Length0 = 0
<1>1. rd.phase = "record" /\ ~Partial /\ tag = rd.pending[1][1]
  BY DEF Reading
<1>2. PICK j : Past(rd, j)
  BY <1>1, Cursor
<1>3. rd.pending \in Raw /\ Len(rd.pending) \in Nat
  BY <1>1, RdIs
<1>4. Len(rd.pending) >= 2
  BY <1>1, <1>3 DEF Partial, Short, HeaderLen
<1>5. rd.pending[1] = Byte(0) /\ rd.pending[2] = Byte(0)
  BY <1>2, <1>3, <1>4 DEF Past
<1> QED BY <1>1, <1>5 DEF Byte, END, Length0

\* While a vault is read, a complete record is the next one of the vault.
LEMMA VaultReads ==
  ASSUME BodyInv, NEW tag, Reading(tag), kind = "vault", ~rd.end
  PROVE  \E j \in 0 .. Len(Given(rd)), c \in Nat :
           /\ Bound(rd, j) \in 0 .. Len(Whole) /\ Stands(rd, j, c) /\ InVault(rd, c)
           /\ Beyond \in RdType /\ Stands(Beyond, j, c + 2 + Length0)
           /\ c + 2 + Length0 \in 0 .. Len(Whole)
           /\ \/ KeyNext(c) /\ tag = KEY /\ Value = <<Byte(version)>> /\ Length0 = 1
              \/ tag = ENTRY /\ \E i \in 1 .. Len(saved) :
                   EntryNext(c, i) /\ Value = EntryText(saved, version, i) /\ Length0 = Len(Value)
              \/ EndNext(c) /\ tag = END /\ Length0 = 0
<1>1. rd.phase = "record" /\ rd.phase # "idle" /\ ~Partial /\ tag = rd.pending[1][1]
  BY DEF Reading
<1>2. PICK j \in 0 .. Len(Given(rd)) :
        /\ Bound(rd, j) \in 0 .. Len(Whole)
        /\ \E c \in 0 .. Len(Whole) : Stands(rd, j, c) /\ InVault(rd, c)
  BY <1>1, Cursor
<1>3. PICK c \in 0 .. Len(Whole) : Stands(rd, j, c) /\ InVault(rd, c)
  BY <1>2
<1>4. Len(Whole) \in Nat /\ version \in 1 .. MaxSaves /\ version \in Nat
  BY <1>1, RdIs
<1>5. c \in Nat /\ Bound(rd, j) \in Nat
  BY <1>2, <1>3, <1>4
<1>6. /\ saved \in Seq(EntryMeant)
      /\ KeyNext(c) \/ (\E i \in 1 .. Len(saved) : EntryNext(c, i)) \/ EndNext(c)
  BY <1>1, <1>3, <1>5, VaultNext
<1>7. CASE KeyNext(c)
  <2> DEFINE u == <<Byte(version)>>
  <2>1. u \in Raw /\ KEY \in Nat /\ Len(u) = 1
    BY <1>4, ByteIs DEF Raw, KEY
  <2>2. Has(Whole, c, Record(KEY, u))
    BY <1>7 DEF KeyNext, KeyRecord
  <2> HIDE DEF u
  <2>3. /\ rd.pending[1][1] = KEY /\ Length0 = Len(u)
        /\ Value = u /\ Beyond \in RdType /\ Stands(Beyond, j, c + 2 + Len(u))
        /\ c + 2 + Len(u) \in 0 .. Len(Whole)
    BY <1>1, <1>3, <1>5, <2>1, <2>2, NextRecord
  <2> QED BY <1>1, <1>2, <1>3, <1>5, <1>7, <2>1, <2>3 DEF u
<1>8. CASE \E i \in 1 .. Len(saved) : EntryNext(c, i)
  <2>1. PICK i \in 1 .. Len(saved) : EntryNext(c, i)
    BY <1>8
  <2> DEFINE u == EntryText(saved, version, i)
  <2>2. u \in Raw /\ ENTRY \in Nat
    BY <1>4, <1>6, <2>1, EntryTextIs DEF ENTRY
  <2>3. Has(Whole, c, Record(ENTRY, u))
    BY <2>1 DEF EntryNext
  <2> HIDE DEF u
  <2>4. /\ rd.pending[1][1] = ENTRY /\ Length0 = Len(u)
        /\ Value = u /\ Beyond \in RdType /\ Stands(Beyond, j, c + 2 + Len(u))
        /\ c + 2 + Len(u) \in 0 .. Len(Whole)
    BY <1>1, <1>3, <1>5, <2>2, <2>3, NextRecord
  <2> QED BY <1>1, <1>2, <1>3, <1>5, <2>1, <2>4 DEF u
<1>9. CASE EndNext(c)
  <2> DEFINE u == << >>
  <2>1. u \in Raw /\ END \in Nat /\ Len(u) = 0
    BY DEF Raw, END
  <2>2. Has(Whole, c, Record(END, u))
    BY <1>9 DEF EndNext, EndRecord
  <2> HIDE DEF u
  <2>3. /\ rd.pending[1][1] = END /\ Length0 = Len(u)
        /\ Value = u /\ Beyond \in RdType /\ Stands(Beyond, j, c + 2 + Len(u))
        /\ c + 2 + Len(u) \in 0 .. Len(Whole)
    BY <1>1, <1>3, <1>5, <2>1, <2>2, NextRecord
  <2> QED BY <1>1, <1>2, <1>3, <1>5, <1>9, <2>1, <2>3 DEF u
<1> QED BY <1>6, <1>7, <1>8, <1>9

\* Where the files are in a sealed file.
FilesEnd == Len(Join(FileTexts(saved), Len(saved)))

LEMMA FilesOnDisk ==
  ASSUME BodyInv, rd.phase # "idle", kind = "sealed"
  PROVE  /\ saved \in Seq(File) /\ Len(saved) \in Nat
         /\ rd.got \in Seq(File) /\ Len(rd.got) \in 0 .. Len(saved)
         /\ Len(saved) # 0 => FileAt(saved, 1, 0) = 0
         /\ FilesEnd \in Nat /\ Has(Whole, FilesEnd, Ending) /\ FilesEnd + 2 = Len(OnDisk)
         /\ Len(saved) = 0 => FilesEnd = 0
         /\ \A i \in 1 .. Len(saved) :
              /\ saved[i] \in File /\ Len(Parts(saved[i].body)) \in Nat
              /\ FileAt(saved, i, 0) \in Nat /\ FileAt(saved, i, 1) = FileAt(saved, i, 0) + Len(HeaderRecord(saved[i]))
              /\ Has(Whole, FileAt(saved, i, 0), HeaderRecord(saved[i]))
              /\ FileAt(saved, i, Len(Parts(saved[i].body)) + 1)
                   = IF i = Len(saved) THEN FilesEnd ELSE FileAt(saved, i + 1, 0)
              /\ \A b \in 1 .. Len(Parts(saved[i].body)) :
                   /\ FileAt(saved, i, b) \in Nat
                   /\ FileAt(saved, i, b + 1) = FileAt(saved, i, b) + Len(PartRecord(saved[i].body, b))
                   /\ Has(Whole, FileAt(saved, i, b), PartRecord(saved[i].body, b))
<1> DEFINE N == Len(saved)
           t == ArchiveText(saved)
           J(i) == Len(Join(FileTexts(saved), i))
           at(i, b) == FileAt(saved, i, b)
<1>1. Whole \in Raw /\ OnDisk \in Raw /\ Gathered(rd) /\ rd \in RdType
  BY RdIs
<1>2. saved \in Seq(File) /\ OnDisk = t /\ rd.got \in Seq(File)
  BY <1>1 DEF BodyInv, BodyTypes, Meants, OnDisk, Text, RdType, Kept
<1>3. N \in Nat /\ Len(rd.got) \in 0 .. N
  BY <1>1, <1>2, LenProperties DEF Gathered
<1>4. /\ J(0) = 0 /\ FilesEnd = J(N) /\ FilesEnd \in Nat
      /\ Has(t, FilesEnd, Ending) /\ Len(t) = FilesEnd + 2
      /\ \A i \in 1 .. N :
              /\ at(i, 0) = J(i - 1) /\ at(i, 0) \in Nat
              /\ at(i, Len(FileRecords(saved[i]))) = J(i)
              /\ \A b \in 1 .. Len(FileRecords(saved[i])) :
                   /\ at(i, b - 1) \in Nat /\ at(i, b) \in Nat
                   /\ at(i, b) = at(i, b - 1) + Len(FileRecords(saved[i])[b])
                   /\ FileRecords(saved[i])[b] \in Raw
                   /\ Has(t, at(i, b - 1), FileRecords(saved[i])[b])
  BY <1>2, ArchiveIs DEF FilesEnd
<1> HIDE DEF t, J, at
<1>5. Ending \in Raw
  <2>1. FILE_END \in Nat /\ << >> \in Raw
    BY DEF FILE_END, Raw
  <2> QED BY <2>1, RecordIs DEF Ending
<1>6. Has(Whole, FilesEnd, Ending)
  BY <1>2, <1>4, <1>5, OnDiskHas
<1>7. N = 0 => FilesEnd = 0
  BY <1>4
<1>8. N # 0 => at(1, 0) = 0
  <2>1. N # 0 => 1 \in 1 .. N /\ 1 - 1 = 0
    BY <1>3
  <2> QED BY <1>4, <2>1
<1>9. ASSUME NEW i \in 1 .. N
      PROVE  /\ saved[i] \in File /\ Len(Parts(saved[i].body)) \in Nat
             /\ at(i, 0) \in Nat /\ at(i, 1) = at(i, 0) + Len(HeaderRecord(saved[i]))
             /\ Has(Whole, at(i, 0), HeaderRecord(saved[i]))
             /\ at(i, Len(Parts(saved[i].body)) + 1) = IF i = N THEN FilesEnd ELSE at(i + 1, 0)
             /\ \A b \in 1 .. Len(Parts(saved[i].body)) :
                  /\ at(i, b) \in Nat
                  /\ at(i, b + 1) = at(i, b) + Len(PartRecord(saved[i].body, b))
                  /\ Has(Whole, at(i, b), PartRecord(saved[i].body, b))
  <2> DEFINE f == saved[i]
             rr == FileRecords(f)
             p == Len(Parts(f.body))
  <2>1. f \in File
    BY <1>2, ElementOfSeq
  <2> HIDE DEF f
  <2>2. /\ Len(rr) = p + 1 /\ p \in Nat /\ rr[1] = HeaderRecord(f)
        /\ \A b \in 1 .. p : rr[b + 1] = PartRecord(f.body, b)
    BY <2>1, FileRecordsAre
  <2>3. /\ at(i, 0) \in Nat /\ at(i, Len(rr)) = J(i)
        /\ \A b \in 1 .. Len(rr) :
             /\ at(i, b - 1) \in Nat /\ at(i, b) \in Nat
             /\ at(i, b) = at(i, b - 1) + Len(rr[b])
             /\ rr[b] \in Raw
             /\ Has(t, at(i, b - 1), rr[b])
    BY <1>4 DEF f
  <2> HIDE DEF rr, p
  <2>4. 1 \in 1 .. Len(rr) /\ 1 - 1 = 0 /\ \A b \in 1 .. p : b + 1 \in 1 .. Len(rr) /\ (b + 1) - 1 = b
    BY <2>2
  <2>5. at(i, 1) = at(i, 0) + Len(HeaderRecord(f)) /\ HeaderRecord(f) \in Raw /\ Has(t, at(i, 0), HeaderRecord(f))
    BY <2>2, <2>3, <2>4
  <2>6. Has(Whole, at(i, 0), HeaderRecord(f))
    BY <1>2, <2>3, <2>5, OnDiskHas
  <2>7. ASSUME NEW b \in 1 .. p
        PROVE  /\ at(i, b) \in Nat /\ at(i, b + 1) = at(i, b) + Len(PartRecord(f.body, b))
               /\ Has(Whole, at(i, b), PartRecord(f.body, b))
    <3>1. at(i, b) \in Nat /\ at(i, b + 1) = at(i, b) + Len(PartRecord(f.body, b))
          /\ PartRecord(f.body, b) \in Raw /\ Has(t, at(i, b), PartRecord(f.body, b))
      BY <2>2, <2>3, <2>4
    <3>2. Has(Whole, at(i, b), PartRecord(f.body, b))
      BY <1>2, <3>1, OnDiskHas
    <3> QED BY <3>1, <3>2
  <2>8. at(i, p + 1) = IF i = N THEN FilesEnd ELSE at(i + 1, 0)
    <3>1. at(i, p + 1) = J(i)
      BY <2>2, <2>3
    <3>2. i # N => i + 1 \in 1 .. N /\ (i + 1) - 1 = i
      BY <1>3
    <3> QED BY <1>4, <3>1, <3>2
  <2> QED BY <2>1, <2>2, <2>3, <2>5, <2>6, <2>7, <2>8 DEF f, p
<1> QED BY <1>2, <1>3, <1>4, <1>6, <1>7, <1>8, <1>9 DEF at

\* The reader of a sealed file is behind so many files.
FilesRead(i) ==
  \/ i = 0 /\ rd.part = << >> /\ rd.got = << >>
  \/ /\ i = Len(rd.got) + 1 /\ i \in 1 .. Len(saved)
     /\ rd.part = <<[path |-> saved[i].path, size |-> Len(saved[i].body), body |-> saved[i].body]>>

HeaderNext(c, i) ==
  /\ i \in 1 .. Len(saved) /\ FilesRead(i - 1)
  /\ Has(Whole, c, HeaderRecord(saved[i])) /\ c + Len(HeaderRecord(saved[i])) = FileAt(saved, i, 1)

PartNext(c, i, b) ==
  /\ i = Len(rd.got) + 1 /\ i \in 1 .. Len(saved)
  /\ b \in 1 .. Len(Parts(saved[i].body))
  /\ rd.part = <<[path |-> saved[i].path, size |-> Len(saved[i].body),
                  body |-> SubSeq(saved[i].body, 1, PartEnd(saved[i].body, b - 1))]>>
  /\ Has(Whole, c, PartRecord(saved[i].body, b))
  /\ c + Len(PartRecord(saved[i].body, b)) = FileAt(saved, i, b + 1)

FileEndNext(c) == FilesRead(Len(saved)) /\ Has(Whole, c, Ending) /\ c + 2 = Len(OnDisk)

LEMMA SealedNext ==
  ASSUME BodyInv, rd.phase # "idle", kind = "sealed", NEW c \in Nat, InSealed(rd, c)
  PROVE  \/ \E i \in 1 .. Len(saved) : HeaderNext(c, i)
         \/ \E i \in 1 .. Len(saved) : \E b \in 1 .. Len(Parts(saved[i].body)) : PartNext(c, i, b)
         \/ FileEndNext(c)
<1> DEFINE N == Len(saved)
           P(i) == Len(Parts(saved[i].body))
           at(i, b) == FileAt(saved, i, b)
           E == FilesEnd
<1>1. /\ saved \in Seq(File) /\ N \in Nat /\ Len(rd.got) \in 0 .. N
      /\ N # 0 => at(1, 0) = 0
      /\ E \in Nat /\ Has(Whole, E, Ending) /\ E + 2 = Len(OnDisk) /\ (N = 0 => E = 0)
      /\ \A i \in 1 .. N :
              /\ saved[i] \in File /\ P(i) \in Nat
              /\ at(i, 0) \in Nat /\ at(i, 1) = at(i, 0) + Len(HeaderRecord(saved[i]))
              /\ Has(Whole, at(i, 0), HeaderRecord(saved[i]))
              /\ at(i, P(i) + 1) = IF i = N THEN E ELSE at(i + 1, 0)
              /\ \A b \in 1 .. P(i) :
                   /\ at(i, b) \in Nat
                   /\ at(i, b + 1) = at(i, b) + Len(PartRecord(saved[i].body, b))
                   /\ Has(Whole, at(i, b), PartRecord(saved[i].body, b))
  BY FilesOnDisk
<1> HIDE DEF N, P, at, E
<1>2. ASSUME NEW i \in 0 .. N, FilesRead(i), c = IF i = N THEN E ELSE at(i + 1, 0)
      PROVE  (\E k \in 1 .. N : HeaderNext(c, k)) \/ FileEndNext(c)
  <2>1. CASE i = N
    BY <1>1, <1>2, <2>1 DEF FileEndNext, N
  <2>2. CASE i # N
    <3>1. i + 1 \in 1 .. N /\ (i + 1) - 1 = i /\ c = at(i + 1, 0)
      BY <1>1, <1>2, <2>2
    <3>2. HeaderNext(c, i + 1)
      BY <1>1, <1>2, <3>1 DEF HeaderNext, N, at
    <3> QED BY <3>1, <3>2
  <2> QED BY <2>1, <2>2
<1>3. CASE rd.part = << >> /\ rd.got = << >> /\ c = 0
  <2>1. 0 \in 0 .. N /\ FilesRead(0) /\ 0 + 1 = 1 /\ c = IF 0 = N THEN E ELSE at(0 + 1, 0)
    BY <1>1, <1>3 DEF FilesRead
  <2>2. (\E k \in 1 .. N : HeaderNext(c, k)) \/ FileEndNext(c)
    BY <1>2, <2>1
  <2> QED BY <2>2 DEF N
<1>4. CASE ~(rd.part = << >> /\ rd.got = << >> /\ c = 0)
  <2> DEFINE i == Len(rd.got) + 1
             s == saved[i].body
  <2>1. i <= N /\ \E b \in 0 .. Len(Parts(s)) :
             /\ c = at(i, b + 1)
             /\ rd.part = <<[path |-> saved[i].path, size |-> Len(s), body |-> SubSeq(s, 1, PartEnd(s, b))]>>
    BY <1>4 DEF InSealed, N, at
  <2>2. i \in 1 .. N /\ i = Len(rd.got) + 1
    BY <1>1, <2>1, SMTT(30)
  <2>3. PICK b \in 0 .. Len(Parts(s)) :
             /\ c = at(i, b + 1)
             /\ rd.part = <<[path |-> saved[i].path, size |-> Len(s), body |-> SubSeq(s, 1, PartEnd(s, b))]>>
    BY <2>1
  <2> HIDE DEF i
  <2>4. s \in PlainText /\ P(i) \in Nat /\ P(i) = Len(Parts(s))
    BY <1>1, <2>2 DEF File, P
  <2>5. CASE b = P(i)
    <3>1. PartEnd(s, b) = Len(s)
      BY <2>4, <2>5, PartsAre
    <3>2. SubSeq(s, 1, Len(s)) = s
      BY <2>4, SubSeqFull DEF PlainText
    <3>3. FilesRead(i)
      BY <2>2, <2>3, <3>1, <3>2 DEF FilesRead, N
    <3>4. c = IF i = N THEN E ELSE at(i + 1, 0)
      BY <1>1, <2>2, <2>3, <2>5
    <3>5. i \in 0 .. N
      BY <1>1, <2>2
    <3>6. (\E k \in 1 .. N : HeaderNext(c, k)) \/ FileEndNext(c)
      BY <1>2, <3>3, <3>4, <3>5
    <3> QED BY <3>6 DEF N
  <2>6. CASE b # P(i)
    <3>1. b + 1 \in 1 .. P(i) /\ (b + 1) - 1 = b
      BY <2>3, <2>4, <2>6
    <3>2. PartNext(c, i, b + 1)
      BY <1>1, <2>2, <2>3, <3>1 DEF PartNext, N, P, at
    <3> QED BY <2>2, <3>1, <3>2 DEF N, P
  <2> QED BY <2>5, <2>6
<1> QED BY <1>3, <1>4

\* While a sealed file is read, a complete record is the next one of it.
LEMMA SealedReads ==
  ASSUME BodyInv, NEW tag, Reading(tag), kind = "sealed", ~rd.end
  PROVE  \E j \in 0 .. Len(Given(rd)), c \in Nat :
           /\ Beyond \in RdType /\ Stands(Beyond, j, c + 2 + Length0)
           /\ c + 2 + Length0 \in 0 .. Len(Whole) /\ Bound(rd, j) \in 0 .. Len(Whole)
           /\ \/ tag = FILE_HDR /\ \E i \in 1 .. Len(saved) :
                   /\ HeaderNext(c, i) /\ c + 2 + Length0 = FileAt(saved, i, 1)
                   /\ Value = <<Byte(saved[i].path), Byte(Len(saved[i].body))>>
              \/ tag = FILE_PART /\ \E i \in 1 .. Len(saved) : \E b \in 1 .. Len(Parts(saved[i].body)) :
                   /\ PartNext(c, i, b) /\ c + 2 + Length0 = FileAt(saved, i, b + 1)
                   /\ Value = SubSeq(saved[i].body, PartEnd(saved[i].body, b - 1) + 1, PartEnd(saved[i].body, b))
                   /\ Length0 = Len(Value)
              \/ FileEndNext(c) /\ tag = FILE_END /\ c + 2 + Length0 = Len(OnDisk)
<1>1. rd.phase = "record" /\ rd.phase # "idle" /\ ~Partial /\ tag = rd.pending[1][1]
  BY DEF Reading
<1>2. PICK j \in 0 .. Len(Given(rd)) :
        /\ Bound(rd, j) \in 0 .. Len(Whole)
        /\ \E c \in 0 .. Len(Whole) : Stands(rd, j, c) /\ InSealed(rd, c)
  BY <1>1, Cursor
<1>3. PICK c \in 0 .. Len(Whole) : Stands(rd, j, c) /\ InSealed(rd, c)
  BY <1>2
<1>4. Len(Whole) \in Nat
  BY <1>1, RdIs
<1>5. c \in Nat /\ Bound(rd, j) \in Nat
  BY <1>2, <1>3, <1>4
<1>6. ASSUME NEW g \in Nat, NEW u \in Raw, Has(Whole, c, Record(g, u))
      PROVE  /\ rd.pending[1][1] = g /\ Length0 = Len(u) /\ Len(u) \in Nat
             /\ Value = u /\ Beyond \in RdType /\ Stands(Beyond, j, c + 2 + Len(u))
             /\ c + 2 + Len(u) \in 0 .. Len(Whole)
             /\ c + Len(Record(g, u)) = c + 2 + Len(u)
  <2>1. /\ rd.pending[1][1] = g /\ Length0 = Len(u) /\ Len(u) \in Nat
        /\ Value = u /\ Beyond \in RdType /\ Stands(Beyond, j, c + 2 + Len(u))
        /\ c + 2 + Len(u) \in 0 .. Len(Whole)
    BY <1>1, <1>3, <1>5, <1>6, NextRecord
  <2>2. Len(Record(g, u)) = Len(u) + 2
    BY <1>6, RecordIs
  <2> QED BY <1>5, <2>1, <2>2
<1>7. saved \in Seq(File) /\ Len(saved) \in Nat
  BY <1>1, FilesOnDisk
<1>8. \/ \E i \in 1 .. Len(saved) : HeaderNext(c, i)
      \/ \E i \in 1 .. Len(saved) : \E b \in 1 .. Len(Parts(saved[i].body)) : PartNext(c, i, b)
      \/ FileEndNext(c)
  BY <1>1, <1>3, <1>5, SealedNext
<1>9. CASE \E i \in 1 .. Len(saved) : HeaderNext(c, i)
  <2>1. PICK i \in 1 .. Len(saved) : HeaderNext(c, i)
    BY <1>9
  <2> DEFINE u == <<Byte(saved[i].path), Byte(Len(saved[i].body))>>
  <2>2. saved[i].path \in Int /\ Len(saved[i].body) \in Int
    <3>1. saved[i] \in File
      BY <1>7, <2>1, ElementOfSeq
    <3>2. saved[i].path \in Nat /\ saved[i].body \in PlainText
      BY <3>1 DEF File
    <3> QED BY <3>2, LenProperties DEF PlainText
  <2>3. u \in Raw /\ FILE_HDR \in Nat
    BY <2>2, ByteIs DEF Raw, FILE_HDR
  <2>4. /\ Has(Whole, c, Record(FILE_HDR, u))
        /\ c + Len(Record(FILE_HDR, u)) = FileAt(saved, i, 1)
    BY <2>1 DEF HeaderNext, HeaderRecord
  <2> HIDE DEF u
  <2>5. /\ rd.pending[1][1] = FILE_HDR /\ Length0 = Len(u) /\ Len(u) \in Nat
        /\ Value = u /\ Beyond \in RdType /\ Stands(Beyond, j, c + 2 + Len(u))
        /\ c + 2 + Len(u) \in 0 .. Len(Whole)
        /\ c + Len(Record(FILE_HDR, u)) = c + 2 + Len(u)
    BY <1>6, <2>3, <2>4
  <2>6. /\ tag = FILE_HDR /\ Stands(Beyond, j, c + 2 + Length0) /\ c + 2 + Length0 \in 0 .. Len(Whole)
        /\ c + 2 + Length0 = FileAt(saved, i, 1)
    BY <1>1, <2>4, <2>5
  <2> QED BY <1>2, <1>5, <2>1, <2>5, <2>6 DEF u
<1>10. CASE \E i \in 1 .. Len(saved) : \E b \in 1 .. Len(Parts(saved[i].body)) : PartNext(c, i, b)
  <2>1. PICK i \in 1 .. Len(saved) : \E b \in 1 .. Len(Parts(saved[i].body)) : PartNext(c, i, b)
    BY <1>10
  <2> DEFINE s == saved[i].body
  <2>2. PICK b \in 1 .. Len(Parts(s)) : PartNext(c, i, b)
    BY <2>1
  <2> DEFINE u == SubSeq(s, PartEnd(s, b - 1) + 1, PartEnd(s, b))
  <2>3. u \in Raw /\ FILE_PART \in Nat
    <3>1. saved[i] \in File
      BY <1>7, <2>1, ElementOfSeq
    <3>2. s \in PlainText
      BY <3>1 DEF File
    <3> HIDE DEF s
    <3>3. u \in PlainText
      BY <2>2, <3>2, PartsAre
    <3> QED BY <3>3, PlainIs DEF FILE_PART
  <2>4. /\ Has(Whole, c, Record(FILE_PART, u))
        /\ c + Len(Record(FILE_PART, u)) = FileAt(saved, i, b + 1)
    BY <2>2 DEF PartNext, PartRecord
  <2> HIDE DEF u
  <2>5. /\ rd.pending[1][1] = FILE_PART /\ Length0 = Len(u) /\ Len(u) \in Nat
        /\ Value = u /\ Beyond \in RdType /\ Stands(Beyond, j, c + 2 + Len(u))
        /\ c + 2 + Len(u) \in 0 .. Len(Whole)
        /\ c + Len(Record(FILE_PART, u)) = c + 2 + Len(u)
    BY <1>6, <2>3, <2>4
  <2>6. /\ tag = FILE_PART /\ Stands(Beyond, j, c + 2 + Length0) /\ c + 2 + Length0 \in 0 .. Len(Whole)
        /\ c + 2 + Length0 = FileAt(saved, i, b + 1) /\ Length0 = Len(Value)
    BY <1>1, <2>4, <2>5
  <2> QED BY <1>2, <1>5, <2>1, <2>2, <2>5, <2>6 DEF u
<1>11. CASE FileEndNext(c)
  <2> DEFINE u == << >>
  <2>1. u \in Raw /\ FILE_END \in Nat /\ Len(u) = 0
    BY DEF Raw, FILE_END
  <2>2. Has(Whole, c, Record(FILE_END, u)) /\ c + 2 = Len(OnDisk)
    BY <1>11 DEF FileEndNext, Ending
  <2> HIDE DEF u
  <2>3. /\ rd.pending[1][1] = FILE_END /\ Length0 = Len(u)
        /\ Value = u /\ Beyond \in RdType /\ Stands(Beyond, j, c + 2 + Len(u))
        /\ c + 2 + Len(u) \in 0 .. Len(Whole)
    BY <1>6, <2>1, <2>2
  <2>4. /\ tag = FILE_END /\ Stands(Beyond, j, c + 2 + Length0) /\ c + 2 + Length0 \in 0 .. Len(Whole)
        /\ c + 2 + Length0 = Len(OnDisk)
    BY <1>1, <1>5, <2>1, <2>2, <2>3
  <2> QED BY <1>2, <1>5, <1>11, <2>3, <2>4
<1> QED BY <1>8, <1>9, <1>10, <1>11

(***************************************************************************)
(* Each step of the reader.                                                *)
(***************************************************************************)

LEMMA ReaderStep ==
  ASSUME BodyInv, rd.phase # "idle", NEW r \in RdType, Step(r), r.way = rd.way, r.phase # "done",
         Gathered(r), NEW j \in 0 .. Len(Given(rd)),
         \/ r.end /\ Past(r, j)
         \/ ~r.end /\ \E c \in 0 .. Len(Whole) :
                         Stands(r, j, c) /\ IF kind = "vault" THEN InVault(r, c) ELSE InSealed(r, c)
  PROVE  BodyInv'
<1>1. (rd.way = "vault" <=> kind = "vault")
  BY RdIs
<1>2. Given(r) = Given(rd)
  BY DEF Given
<1>3. Reader(r)
  BY <1>2 DEF Reader
<1>4. ReadsOf(r)
  BY <1>1, <1>3 DEF ReadsOf
<1> QED BY <1>4, StepIs

\* Beyond is the reader but for what is pending.
LEMMA BeyondIs ==
  ASSUME BodyInv, rd.phase # "idle"
  PROVE  /\ Beyond.phase = rd.phase /\ Beyond.way = rd.way /\ Beyond.rest = rd.rest
         /\ Beyond.key = rd.key /\ Beyond.at = rd.at /\ Beyond.got = rd.got
         /\ Beyond.part = rd.part /\ Beyond.end = rd.end
<1>1. rd \in RdType
  BY RdIs
<1> QED BY <1>1 DEF Beyond, RdType

LEMMA WaitKeeps == ASSUME BodyInv, Wait PROVE BodyInv'
<1> DEFINE r == [rd EXCEPT !.phase = "chunk"]
<1>1. rd.phase = "record" /\ rd.phase # "idle" /\ Step(r)
  BY DEF Wait
<1>2. rd \in RdType /\ Gathered(rd)
  BY <1>1, RdIs
<1>3. /\ r \in RdType /\ r.phase = "chunk" /\ r.way = rd.way /\ r.rest = rd.rest /\ r.pending = rd.pending
      /\ r.key = rd.key /\ r.at = rd.at /\ r.got = rd.got /\ r.part = rd.part /\ r.end = rd.end
  BY <1>2 DEF RdType
<1> HIDE DEF r
<1>4. Gathered(r)
  BY <1>2, <1>3 DEF Gathered
<1>5. PICK j \in 0 .. Len(Given(rd)) :
           \/ rd.end /\ Past(rd, j)
           \/ /\ ~rd.end
              /\ \E c \in 0 .. Len(Whole) :
                   Stands(rd, j, c) /\ IF kind = "vault" THEN InVault(rd, c) ELSE InSealed(rd, c)
  BY <1>1, Cursor
<1>6. /\ \A i : Bound(r, i) = Bound(rd, i) /\ (FedTo(r, i) <=> FedTo(rd, i))
      /\ \A i, c : Stands(r, i, c) <=> Stands(rd, i, c)
  BY <1>3, SameStands
<1>7. CASE rd.end /\ Past(rd, j)
  <2>1. Past(r, j)
    BY <1>3, <1>6, <1>7 DEF Past
  <2> QED BY <1>1, <1>3, <1>4, <1>7, <2>1, ReaderStep
<1>8. CASE ~(rd.end /\ Past(rd, j))
  <2>1. PICK c \in 0 .. Len(Whole) :
          Stands(rd, j, c) /\ IF kind = "vault" THEN InVault(rd, c) ELSE InSealed(rd, c)
    BY <1>5, <1>8
  <2>2. Stands(r, j, c) /\ ~r.end
    BY <1>3, <1>5, <1>6, <1>8, <2>1
  <2>3. (InVault(r, c) <=> InVault(rd, c)) /\ (InSealed(r, c) <=> InSealed(rd, c))
    BY <1>3 DEF InVault, InSealed
  <2> QED BY <1>1, <1>3, <1>4, <2>1, <2>2, <2>3, ReaderStep
<1> QED BY <1>7, <1>8

LEMMA ReadKeyKeeps == ASSUME BodyInv, ReadKey PROVE BodyInv'
<1> DEFINE r == [Beyond EXCEPT !.key = Value[1][1]]
<1>1. Reading(KEY) /\ Step(r) /\ rd.phase # "idle" /\ rd.phase = "record"
  BY DEF ReadKey, Reading
<1>2. ~rd.end
  BY <1>1, PastReads DEF KEY, END
<1>3. kind = "vault"
  <2>1. kind \in {"vault", "sealed"}
    BY <1>1, RdIs
  <2>2. ASSUME kind = "sealed" PROVE FALSE
    BY <1>1, <1>2, <2>2, SealedReads DEF KEY, FILE_HDR, FILE_PART, FILE_END
  <2> QED BY <2>1, <2>2
<1>4. PICK j \in 0 .. Len(Given(rd)), c \in Nat :
        /\ InVault(rd, c) /\ Beyond \in RdType /\ Stands(Beyond, j, c + 2 + Length0)
        /\ c + 2 + Length0 \in 0 .. Len(Whole)
        /\ KeyNext(c) /\ Value = <<Byte(version)>> /\ Length0 = 1
  <2>1. KEY # ENTRY /\ KEY # END
    BY DEF KEY, ENTRY, END
  <2> QED BY <1>1, <1>2, <1>3, <2>1, VaultReads
<1>5. version \in 1 .. MaxSaves /\ Gathered(rd)
  BY <1>1, RdIs
<1>6. Value[1][1] = version
  BY <1>4 DEF Byte
<1>7. /\ r \in RdType /\ r.key = version /\ r.rest = Beyond.rest /\ r.pending = Beyond.pending
      /\ r.way = rd.way /\ r.phase = "record" /\ r.at = rd.at /\ r.got = rd.got /\ r.part = rd.part
      /\ ~r.end
  <2>1. version \in 0 .. version
    BY <1>5, BoundsAssumption
  <2>2. r = [Beyond EXCEPT !.key = version]
    BY <1>6
  <2> QED BY <1>1, <1>2, <1>4, <2>1, <2>2, BeyondIs DEF RdType
<1> HIDE DEF r
<1>8. Gathered(r)
  BY <1>5, <1>7 DEF Gathered
<1>9. Stands(r, j, 3)
  <2>1. c + 2 + Length0 = 3
    BY <1>4 DEF KeyNext
  <2>2. r.way = Beyond.way
    BY <1>1, <1>7, BeyondIs
  <2> QED BY <1>4, <1>7, <2>1, <2>2, SameStands
<1>10. 3 \in 0 .. Len(Whole) /\ rd.got = << >>
  BY <1>4 DEF KeyNext
<1>11. InVault(r, 3)
  <2>1. Len(r.got) = 0
    BY <1>7, <1>10
  <2>2. Len(Join(EntryRecords(saved, version), 0)) = 0
    <3>1. saved \in Seq(EntryMeant)
      BY <1>3 DEF BodyInv, BodyTypes, Meants
    <3>2. EntryRecords(saved, version) \in Seq(Raw)
      BY <1>5, <3>1, EntryTextIs
    <3> QED BY <3>2, JoinLengths
  <2> QED BY <1>4, <1>7, <2>1, <2>2 DEF InVault
<1> QED BY <1>1, <1>3, <1>4, <1>7, <1>8, <1>9, <1>10, <1>11, ReaderStep

LEMMA ReadEntryKeeps == ASSUME BodyInv, ReadEntry PROVE BodyInv'
<1> DEFINE m == Fields(Value)
           r == [Beyond EXCEPT !.got = Append(@, Sealed(m, rd.key, rd.at)), !.at = @ + Len(Secrets(m))]
<1>1. Reading(ENTRY) /\ rd.phase # "idle" /\ rd.phase = "record" /\ (Fail \/ Step(r))
  BY DEF ReadEntry, Reading
<1>2. ~rd.end
  BY <1>1, PastReads DEF ENTRY, END
<1>3. kind = "vault"
  <2>1. kind \in {"vault", "sealed"}
    BY <1>1, RdIs
  <2>2. ASSUME kind = "sealed" PROVE FALSE
    BY <1>1, <1>2, <2>2, SealedReads DEF ENTRY, FILE_HDR, FILE_PART, FILE_END
  <2> QED BY <2>1, <2>2
<1>4. PICK j \in 0 .. Len(Given(rd)), c \in Nat :
        /\ InVault(rd, c) /\ Beyond \in RdType /\ Stands(Beyond, j, c + 2 + Length0)
        /\ c + 2 + Length0 \in 0 .. Len(Whole)
        /\ \E i \in 1 .. Len(saved) :
             EntryNext(c, i) /\ Value = EntryText(saved, version, i) /\ Length0 = Len(Value)
  <2>1. ENTRY # KEY /\ ENTRY # END
    BY DEF KEY, ENTRY, END
  <2> QED BY <1>1, <1>2, <1>3, <2>1, VaultReads
<1>5. PICK i \in 1 .. Len(saved) :
        EntryNext(c, i) /\ Value = EntryText(saved, version, i) /\ Length0 = Len(Value)
  BY <1>4
<1>6. version \in 1 .. MaxSaves /\ Gathered(rd) /\ rd \in RdType
  BY <1>1, RdIs
<1>7. saved \in Seq(EntryMeant) /\ rd.got \in Seq(Entry)
  BY <1>3, <1>6 DEF BodyInv, BodyTypes, Meants, RdType, Kept
<1>8. i = Len(rd.got) + 1 /\ rd.key = version /\ rd.at = EntryAt(saved, i) /\ rd.part = << >>
  BY <1>4, <1>5 DEF EntryNext, InVault
<1> DEFINE e == Sealed(m, rd.key, rd.at)
<1>9. saved[i] \in EntryMeant /\ m = Enciphered(saved[i], version, EntryAt(saved, i))
  BY <1>5, <1>6, <1>7, EntryTextIs
<1>10. EntryAt(saved, i) \in Nat
       /\ EntryAt(saved, i + 1) = EntryAt(saved, i) + Len(Secrets(saved[i])) /\ Len(Secrets(saved[i])) \in Nat
  <2>1. i \in 1 .. Len(saved) + 1 /\ Len(saved) \in Nat
    BY <1>7, LenProperties
  <2> QED BY <1>7, <2>1, EntryAtIs
<1> DEFINE p == EntryAt(saved, i)
<1>11. e \in Entry /\ Meaning(e) = saved[i]
  <2> DEFINE s == saved[i]
  <2>1. s \in EntryMeant /\ version \in 1 .. MaxSaves /\ p \in Nat /\ m = Enciphered(s, version, p)
    BY <1>6, <1>9, <1>10
  <2>2. e = Sealed(m, version, p)
    BY <1>8
  <2> HIDE DEF s, p, m
  <2>3. Sealed(m, version, p) \in Seq(FieldType) /\ Meaning(Sealed(m, version, p)) = s
    BY <2>1, MeaningOfSealed
  <2> QED BY <2>2, <2>3 DEF Entry, s
<1>12. Len(Secrets(m)) = Len(Secrets(saved[i]))
  <2> DEFINE s == saved[i]
  <2>1. s \in EntryMeant /\ version \in 1 .. MaxSaves /\ p \in Nat /\ m = Enciphered(s, version, p)
    BY <1>6, <1>9, <1>10
  <2> HIDE DEF s, p, m
  <2>2. Len(Secrets(m)) = Len(Secrets(s))
    BY <2>1, EncipheredIs
  <2> QED BY <2>2 DEF s
<1> HIDE DEF m, p
<1> HIDE DEF e
<1>13. /\ r \in RdType /\ r.key = version /\ r.rest = Beyond.rest /\ r.pending = Beyond.pending
       /\ r.way = rd.way /\ r.phase = "record" /\ r.part = rd.part /\ ~r.end
       /\ r.at = EntryAt(saved, i + 1) /\ r.got = Append(rd.got, e)
  <2>1. Append(rd.got, e) \in Kept
    BY <1>3, <1>7, <1>11, AppendProperties DEF Kept
  <2>2. EntryAt(saved, i + 1) \in Nat /\ EntryAt(saved, i + 1) = rd.at + Len(Secrets(m))
    BY <1>8, <1>10, <1>12
  <2>3. /\ Beyond.phase = rd.phase /\ Beyond.way = rd.way
        /\ Beyond.key = rd.key /\ Beyond.at = rd.at /\ Beyond.got = rd.got
        /\ Beyond.part = rd.part /\ Beyond.end = rd.end
    BY <1>1, BeyondIs
  <2>4. r = [Beyond EXCEPT !.got = Append(rd.got, e), !.at = rd.at + Len(Secrets(m))]
    BY <1>4, <2>3 DEF e, RdType
  <2> DEFINE g == Append(rd.got, e)
             a == EntryAt(saved, i + 1)
  <2>5. r = [Beyond EXCEPT !.got = g, !.at = a] /\ g \in Kept /\ a \in Nat
    BY <2>1, <2>2, <2>4
  <2> HIDE DEF r, g, a
  <2>6. /\ r \in RdType /\ r.key = Beyond.key /\ r.rest = Beyond.rest /\ r.pending = Beyond.pending
        /\ r.way = Beyond.way /\ r.phase = Beyond.phase /\ r.part = Beyond.part /\ r.end = Beyond.end
        /\ r.at = a /\ r.got = g
    BY <1>4, <2>5 DEF RdType
  <2> QED BY <1>1, <1>2, <1>8, <2>3, <2>6 DEF g, a
<1> HIDE DEF r
<1>14. Len(r.got) = i /\ r.got[i] = e /\ \A x \in 1 .. i - 1 : r.got[x] = rd.got[x]
  BY <1>7, <1>8, <1>11, <1>13, AppendProperties, LenProperties
<1>15. Gathered(r)
  <2>1. \A x \in 1 .. i : x \in 1 .. i - 1 \/ x = i
    BY <1>7, LenProperties
  <2>2. \A x \in 1 .. i - 1 : Meaning(r.got[x]) = saved[x]
    <3>1. Len(rd.got) = i - 1
      BY <1>7, <1>8, LenProperties
    <3> QED BY <1>3, <1>6, <1>14, <3>1 DEF Gathered
  <2>3. Len(r.got) <= Len(saved)
    BY <1>7, <1>14, LenProperties
  <2> QED BY <1>3, <1>11, <1>14, <2>1, <2>2, <2>3 DEF Gathered
<1> DEFINE d == c + 2 + Length0
<1>16. Stands(r, j, d)
  <2>1. r.way = Beyond.way
    BY <1>1, <1>13, BeyondIs
  <2> QED BY <1>4, <1>13, <2>1, SameStands
<1>17. InVault(r, d)
  <2>1. d = 3 + Len(Join(EntryRecords(saved, version), i))
    BY <1>5 DEF EntryNext
  <2> QED BY <1>8, <1>13, <1>14, <2>1 DEF InVault
<1>18. d \in 0 .. Len(Whole)
  BY <1>4
<1> HIDE DEF d
<1>19. CASE Fail
  BY <1>1, <1>19, FailKeeps
<1>20. CASE Step(r)
  BY <1>1, <1>3, <1>4, <1>13, <1>15, <1>16, <1>17, <1>18, <1>20, ReaderStep
<1> QED BY <1>1, <1>19, <1>20 DEF r, m

\* What follows a record of the end, or of nothing but zeros, is zeros.
LEMMA ReadEndKeeps == ASSUME BodyInv, ReadEnd PROVE BodyInv'
<1> DEFINE r == [Beyond EXCEPT !.end = TRUE, !.phase = "chunk"]
<1>1. Reading(END) /\ Step(r) /\ rd.phase # "idle" /\ rd.phase = "record" /\ rd.way = "vault"
  BY DEF ReadEnd, Reading
<1>2. /\ kind = "vault" /\ Gathered(rd) /\ rd \in RdType /\ Stored /\ chunks # << >>
      /\ Len(Whole) \in Nat /\ Len(OnDisk) \in Nat /\ rd.pending \in Raw /\ Len(rd.pending) \in Nat
  BY <1>1, RdIs
<1>3. /\ Beyond.way = rd.way /\ Beyond.rest = rd.rest /\ Beyond.key = rd.key
      /\ Beyond.at = rd.at /\ Beyond.got = rd.got /\ Beyond.part = rd.part /\ Beyond.end = rd.end
  BY <1>1, BeyondIs
<1>4. ASSUME Beyond \in RdType
      PROVE  /\ r \in RdType /\ r.end = TRUE /\ r.phase = "chunk" /\ r.way = rd.way /\ r.rest = rd.rest
             /\ r.pending = Beyond.pending /\ r.key = rd.key /\ r.got = rd.got /\ r.part = rd.part
  BY <1>3, <1>4 DEF RdType
<1> HIDE DEF r
<1>5. ASSUME Beyond \in RdType, NEW j \in 0 .. Len(Given(rd)), FedTo(rd, j),
             Len(OnDisk) <= Bound(rd, j), Len(rd.got) = Len(saved), rd.part = << >>, rd.key = version,
             \A x \in 1 .. Len(Beyond.pending) : Beyond.pending[x] = Byte(0)
      PROVE  BodyInv'
  <2>1. /\ r \in RdType /\ r.end = TRUE /\ r.phase = "chunk" /\ r.way = rd.way /\ r.rest = rd.rest
        /\ r.pending = Beyond.pending /\ r.key = rd.key /\ r.got = rd.got /\ r.part = rd.part
    BY <1>4, <1>5
  <2>2. Given(r) = Given(rd)
    BY <2>1 DEF Given
  <2>3. FedTo(r, j) /\ Bound(r, j) = Bound(rd, j)
    BY <1>5, <2>1, <2>2 DEF FedTo, Bound
  <2>4. Past(r, j)
    BY <1>5, <2>1, <2>3 DEF Past
  <2>5. Gathered(r)
    BY <1>2, <2>1 DEF Gathered
  <2> QED BY <1>1, <2>1, <2>4, <2>5, ReaderStep
<1>6. CASE rd.end
  <2>1. Length0 = 0
    BY <1>1, <1>6, PastReads
  <2>2. PICK j \in 0 .. Len(Given(rd)) : Past(rd, j)
    BY <1>1, <1>6, Cursor
  <2> DEFINE p == rd.pending
             q == Len(p)
             w == SubSeq(p, 3, q)
  <2>3. Beyond = [rd EXCEPT !.pending = w]
    <3>1. HeaderLen + Length0 + 1 = 3
      BY <2>1 DEF HeaderLen
    <3> QED BY <3>1 DEF Beyond
  <2>4. q \in Nat /\ p \in Raw /\ \A x \in 1 .. q : p[x] = Byte(0)
    BY <1>2, <2>2 DEF Past
  <2> HIDE DEF p, q
  <2>5. \A x \in 3 .. q : p[x] \in Bits
    <3>1. Byte(0) \in Bits
      BY ByteIs
    <3> QED BY <2>4, <3>1
  <2>6. /\ w \in Seq(Bits)
        /\ Len(w) = IF 3 <= q THEN q - 3 + 1 ELSE 0
        /\ \A x \in 1 .. q - 3 + 1 : w[x] = p[3 + x - 1]
    BY <2>4, <2>5, SubSeqProperties
  <2> HIDE DEF w
  <2>7. \A x \in 1 .. Len(w) : w[x] = Byte(0)
    <3>1. \A x \in 1 .. Len(w) : x \in 1 .. q - 3 + 1 /\ 3 + x - 1 \in 1 .. q
      BY <2>4, <2>6
    <3> QED BY <2>4, <2>6, <3>1
  <2>8. Beyond \in RdType /\ Beyond.pending = w
    BY <1>2, <2>3, <2>6 DEF RdType, Raw
  <2> QED BY <1>2, <1>5, <2>2, <2>7, <2>8 DEF Past
<1>7. CASE ~rd.end
  <2>1. PICK j \in 0 .. Len(Given(rd)), c \in Nat :
          /\ Bound(rd, j) \in 0 .. Len(Whole) /\ Stands(rd, j, c) /\ InVault(rd, c)
          /\ Beyond \in RdType /\ Stands(Beyond, j, c + 2 + Length0)
          /\ EndNext(c) /\ Length0 = 0
    <3>1. END # KEY /\ END # ENTRY
      BY DEF KEY, ENTRY, END
    <3> QED BY <1>1, <1>2, <1>7, <3>1, VaultReads
  <2> DEFINE w == Beyond.pending
             o == Len(OnDisk)
             b == Bound(rd, j)
  <2>2. /\ FedTo(rd, j) /\ Len(rd.got) = Len(saved) /\ rd.key = version /\ rd.part = << >>
        /\ c + 2 + Length0 = o
    BY <2>1 DEF EndNext, InVault, Stands
  <2>3. Bound(Beyond, j) = b
    BY <1>3 DEF Bound, Given
  <2>4. o + Len(w) = b /\ \A x \in 1 .. Len(w) : w[x] = Whole[o + x]
    BY <2>1, <2>2, <2>3 DEF Stands
  <2>5. w \in Raw /\ Len(w) \in Nat /\ o \in Nat /\ b \in 0 .. Len(Whole)
    <3>1. w \in Raw
      BY <2>1 DEF RdType
    <3> QED BY <1>2, <2>1, <3>1, LenProperties DEF Raw
  <2>6. \A x \in o + 1 .. Len(Whole) : Whole[x] = Byte(0)
    BY <1>2 DEF Stored
  <2>7. \A x \in 1 .. Len(w) : w[x] = Byte(0)
    <3>1. \A x \in 1 .. Len(w) : o + x \in o + 1 .. Len(Whole)
      BY <1>2, <2>4, <2>5
    <3> QED BY <2>4, <2>6, <3>1
  <2>8. o <= b
    BY <2>4, <2>5
  <2> QED BY <1>5, <2>1, <2>2, <2>7, <2>8
<1> QED BY <1>6, <1>7

\* A sealed file's records are read before the end of the archive only.
LEMMA SealedOnly ==
  ASSUME BodyInv, NEW tag \in {FILE_HDR, FILE_PART, FILE_END}, Reading(tag)
  PROVE  kind = "sealed" /\ ~rd.end /\ rd.phase # "idle" /\ rd.phase = "record"
<1>1. rd.phase # "idle" /\ rd.phase = "record"
  BY DEF Reading
<1>2. ~rd.end
  BY PastReads DEF FILE_HDR, FILE_PART, FILE_END, END
<1>3. kind \in {"vault", "sealed"}
  BY <1>1, RdIs
<1>4. ASSUME kind = "vault" PROVE FALSE
  BY <1>2, <1>4, VaultReads DEF FILE_HDR, FILE_PART, FILE_END, KEY, ENTRY, END
<1> QED BY <1>1, <1>2, <1>3, <1>4

LEMMA ReadPartKeeps == ASSUME BodyInv, ReadPart PROVE BodyInv'
<1> DEFINE theFile == rd.part[1]
           q == <<[path |-> theFile.path, size |-> theFile.size, body |-> theFile.body \o Value]>>
           r == [Beyond EXCEPT !.part = q]
<1>1. Reading(FILE_PART) /\ (Fail \/ Step(r))
  BY DEF ReadPart
<1>2. kind = "sealed" /\ ~rd.end /\ rd.phase # "idle" /\ rd.phase = "record"
  BY <1>1, SealedOnly
<1>3. PICK j \in 0 .. Len(Given(rd)), c \in Nat :
        /\ Beyond \in RdType /\ Stands(Beyond, j, c + 2 + Length0) /\ c + 2 + Length0 \in 0 .. Len(Whole)
        /\ \E i \in 1 .. Len(saved) : \E b \in 1 .. Len(Parts(saved[i].body)) :
             /\ PartNext(c, i, b) /\ c + 2 + Length0 = FileAt(saved, i, b + 1)
             /\ Value = SubSeq(saved[i].body, PartEnd(saved[i].body, b - 1) + 1, PartEnd(saved[i].body, b))
  <2>1. FILE_PART # FILE_HDR /\ FILE_PART # FILE_END
    BY DEF FILE_HDR, FILE_PART, FILE_END
  <2> QED BY <1>1, <1>2, <2>1, SealedReads
<1>4. PICK i \in 1 .. Len(saved) : \E b \in 1 .. Len(Parts(saved[i].body)) :
             /\ PartNext(c, i, b) /\ c + 2 + Length0 = FileAt(saved, i, b + 1)
             /\ Value = SubSeq(saved[i].body, PartEnd(saved[i].body, b - 1) + 1, PartEnd(saved[i].body, b))
  BY <1>3
<1> DEFINE s == saved[i].body
           f == saved[i]
           d == c + 2 + Length0
<1>5. PICK b \in 1 .. Len(Parts(s)) :
             /\ PartNext(c, i, b) /\ d = FileAt(saved, i, b + 1)
             /\ Value = SubSeq(s, PartEnd(s, b - 1) + 1, PartEnd(s, b))
  BY <1>4
<1>6. saved \in Seq(File) /\ f \in File /\ Gathered(rd)
  BY <1>2, <1>4, FilesOnDisk, RdIs
<1>7. f.path \in Nat /\ s \in PlainText /\ Len(s) \in Nat
  <2>1. f.path \in Nat /\ s \in PlainText
    BY <1>6 DEF File
  <2> QED BY <2>1, LenProperties DEF PlainText
<1>8. /\ i = Len(rd.got) + 1
      /\ rd.part = <<[path |-> f.path, size |-> Len(s), body |-> SubSeq(s, 1, PartEnd(s, b - 1))]>>
  BY <1>5 DEF PartNext
<1>9. SubSeq(s, 1, PartEnd(s, b - 1)) \o Value = SubSeq(s, 1, PartEnd(s, b)) /\ SubSeq(s, 1, PartEnd(s, b)) \in PlainText
  <2> DEFINE y == PartEnd(s, b - 1)
             z == PartEnd(s, b)
             t == s
             a == SubSeq(t, 1, y)
             v == SubSeq(t, y + 1, z)
             w == SubSeq(t, 1, z)
  <2>1. /\ y \in 0 .. Len(t) /\ z \in 0 .. Len(t) /\ y < z
        /\ v \in PlainText /\ Len(v) = z - y /\ \A x \in 1 .. z - y : v[x] = t[y + x]
    <3>1. Len(Parts(s)) \in Nat
      BY <1>7, PartsAre
    <3>2. b \in 0 .. Len(Parts(s)) /\ b - 1 \in 0 .. Len(Parts(s))
      BY <3>1
    <3> QED BY <1>7, <3>2, PartsAre
  <2>2. t \in Seq(Plain) /\ Len(t) \in Nat
    BY <1>7 DEF PlainText
  <2> HIDE DEF y, z, t, v
  <2>3. a \in Seq(Plain) /\ Len(a) = y /\ \A x \in 1 .. y : a[x] = t[x]
    BY <2>1, <2>2, FrontIs
  <2>4. w \in Seq(Plain) /\ Len(w) = z /\ \A x \in 1 .. z : w[x] = t[x]
    BY <2>1, <2>2, FrontIs
  <2> DEFINE u == a \o v
  <2>5. a \in Seq(Plain) /\ v \in Seq(Plain) /\ u = a \o v
    BY <2>1, <2>3 DEF PlainText
  <2> HIDE DEF a, w, u
  <2>6. /\ u \in Seq(Plain) /\ Len(a) \in Nat /\ Len(v) \in Nat /\ Len(u) = Len(a) + Len(v)
        /\ \A x \in 1 .. Len(a) : u[x] = a[x]
        /\ \A x \in 1 .. Len(v) : u[Len(a) + x] = v[x]
    BY <2>5, Behind
  <2>7. y \in Nat /\ z \in Nat /\ Len(u) = z
    BY <2>1, <2>2, <2>3, <2>6
  <2>8. ASSUME NEW x \in 1 .. z PROVE u[x] = w[x]
    <3>1. CASE x <= y
      <4>1. x \in 1 .. y
        BY <2>7, <3>1
      <4> QED BY <2>3, <2>4, <2>6, <4>1
    <3>2. CASE ~(x <= y)
      <4>1. x - y \in 1 .. z - y /\ y + (x - y) = x
        BY <2>7, <3>2
      <4>2. u[y + (x - y)] = v[x - y] /\ v[x - y] = t[y + (x - y)]
        BY <2>1, <2>3, <2>6, <4>1
      <4> QED BY <2>4, <4>1, <4>2
    <3> QED BY <3>1, <3>2
  <2>9. u = w
    BY <2>4, <2>6, <2>7, <2>8, SeqEqual
  <2> QED BY <1>5, <2>4, <2>9 DEF a, w, u, v, y, z, t, PlainText
<1> DEFINE p == SubSeq(s, 1, PartEnd(s, b))
           g == <<[path |-> f.path, size |-> Len(s), body |-> p]>>
<1>10. q = g
  <2> DEFINE o == [path |-> f.path, size |-> Len(s), body |-> SubSeq(s, 1, PartEnd(s, b - 1))]
  <2>1. theFile = o /\ o.path = f.path /\ o.size = Len(s) /\ o.body = SubSeq(s, 1, PartEnd(s, b - 1))
    <3>1. rd.part = <<o>>
      BY <1>8
    <3>2. theFile = o
      BY <3>1
    <3> QED BY <3>2
  <2> HIDE DEF o, theFile, f, s
  <2>2. theFile.path = f.path /\ theFile.size = Len(s) /\ theFile.body \o Value = p
    BY <1>9, <2>1
  <2> QED BY <2>2
<1>11. g \in Seq([path : Nat, size : Nat, body : PlainText])
  BY <1>7, <1>9
<1>12. r = [Beyond EXCEPT !.part = g]
  BY <1>10
<1> HIDE DEF q, g, r, s, f, d
<1>13. /\ r \in RdType /\ r.phase = rd.phase /\ r.way = rd.way /\ r.rest = Beyond.rest
       /\ r.pending = Beyond.pending /\ r.got = rd.got /\ r.part = g /\ r.end = rd.end
  <2>1. /\ r \in RdType /\ r.phase = Beyond.phase /\ r.way = Beyond.way /\ r.rest = Beyond.rest
        /\ r.pending = Beyond.pending /\ r.got = Beyond.got /\ r.part = g /\ r.end = Beyond.end
    BY <1>3, <1>11, <1>12 DEF RdType
  <2> QED BY <1>2, <2>1, BeyondIs
<1>14. Gathered(r)
  BY <1>6, <1>13 DEF Gathered
<1>15. Stands(r, j, d)
  <2>1. r.way = Beyond.way
    BY <1>2, <1>13, BeyondIs
  <2> QED BY <1>3, <1>13, <2>1, SameStands DEF d
<1>16. InSealed(r, d)
  <2>1. Len(Parts(s)) \in Nat /\ b \in 0 .. Len(Parts(s))
    <3>1. Len(Parts(s)) \in Nat
      BY <1>7, PartsAre
    <3> QED BY <3>1
  <2>2. i = Len(r.got) + 1 /\ i <= Len(saved)
    <3>1. Len(saved) \in Nat
      BY <1>2, FilesOnDisk
    <3> QED BY <1>8, <1>13, <3>1
  <2> QED BY <1>5, <1>13, <2>1, <2>2 DEF InSealed, g, f, s
<1>17. d \in 0 .. Len(Whole)
  BY <1>3 DEF d
<1>18. CASE Fail
  BY <1>2, <1>18, FailKeeps
<1>19. CASE Step(r)
  BY <1>2, <1>3, <1>13, <1>14, <1>15, <1>16, <1>17, <1>19, ReaderStep
<1> QED BY <1>1, <1>18, <1>19 DEF r, q

\* The file that was read in part is complete when the next record is another one's.
LEMMA CompleteIs ==
  ASSUME BodyInv, rd.phase # "idle", kind = "sealed", NEW i \in 0 .. Len(saved), FilesRead(i),
         Beyond \in RdType, NEW r, r = Complete(Beyond)
  PROVE  /\ ~WrongSize /\ r \in RdType /\ r.phase = rd.phase /\ r.way = rd.way /\ r.rest = Beyond.rest
         /\ r.pending = Beyond.pending /\ r.part = << >> /\ r.end = rd.end /\ Len(r.got) = i /\ Gathered(r)
<1>1. /\ saved \in Seq(File) /\ Len(saved) \in Nat /\ rd.got \in Seq(File) /\ Len(rd.got) \in 0 .. Len(saved)
  BY FilesOnDisk
<1>2. Gathered(rd)
  BY RdIs
<1>3. Beyond.part = rd.part /\ Beyond.got = rd.got /\ Beyond.phase = rd.phase /\ Beyond.way = rd.way /\ Beyond.end = rd.end
  BY BeyondIs
<1>4. ASSUME NEW g \in Seq(File), r = [Beyond EXCEPT !.part = << >>, !.got = g]
      PROVE  /\ r \in RdType /\ r.phase = rd.phase /\ r.way = rd.way /\ r.rest = Beyond.rest
             /\ r.pending = Beyond.pending /\ r.part = << >> /\ r.end = rd.end /\ r.got = g
  <2>1. g \in Kept /\ << >> \in Seq([path : Nat, size : Nat, body : PlainText])
    BY <1>4 DEF Kept
  <2>2. /\ r \in RdType /\ r.phase = Beyond.phase /\ r.way = Beyond.way /\ r.rest = Beyond.rest
        /\ r.pending = Beyond.pending /\ r.part = << >> /\ r.end = Beyond.end /\ r.got = g
    BY <1>4, <2>1 DEF RdType
  <2> QED BY <1>3, <2>2
<1>5. CASE i = 0 /\ rd.part = << >> /\ rd.got = << >>
  <2>1. r = [Beyond EXCEPT !.part = << >>, !.got = rd.got]
    BY <1>3, <1>5 DEF Complete, RdType
  <2>2. /\ r \in RdType /\ r.phase = rd.phase /\ r.way = rd.way /\ r.rest = Beyond.rest
        /\ r.pending = Beyond.pending /\ r.part = << >> /\ r.end = rd.end /\ r.got = rd.got
    BY <1>1, <1>4, <2>1
  <2>3. Gathered(r)
    BY <1>2, <2>2 DEF Gathered
  <2>4. ~WrongSize
    BY <1>5 DEF WrongSize
  <2> QED BY <1>5, <2>2, <2>3, <2>4
<1>6. CASE /\ i = Len(rd.got) + 1 /\ i \in 1 .. Len(saved)
           /\ rd.part = <<[path |-> saved[i].path, size |-> Len(saved[i].body), body |-> saved[i].body]>>
  <2> DEFINE o == [path |-> saved[i].path, size |-> Len(saved[i].body), body |-> saved[i].body]
             f == [path |-> rd.part[1].path, body |-> rd.part[1].body]
  <2>1. rd.part = <<o>> /\ rd.part # << >> /\ rd.part[1] = o
    BY <1>6
  <2>2. o.path = saved[i].path /\ o.size = Len(saved[i].body) /\ o.body = saved[i].body
    OBVIOUS
  <2>3. saved[i] \in File
    BY <1>1, <1>6, ElementOfSeq
  <2> HIDE DEF o
  <2>4. ~WrongSize
    BY <2>1, <2>2 DEF WrongSize
  <2>5. f = saved[i]
    <3>1. f = [path |-> saved[i].path, body |-> saved[i].body]
      BY <2>1, <2>2
    <3>2. saved[i] = [path |-> saved[i].path, body |-> saved[i].body]
      BY <2>3 DEF File
    <3> QED BY <3>1, <3>2
  <2>6. r = [Beyond EXCEPT !.part = << >>, !.got = Append(rd.got, saved[i])]
    <3>1. r = [Beyond EXCEPT !.part = << >>, !.got = Append(rd.got, f)]
      BY <1>3, <2>1 DEF Complete
    <3> QED BY <2>5, <3>1
  <2> DEFINE g == Append(rd.got, saved[i])
  <2>7. /\ g \in Seq(File) /\ Len(g) = i /\ g[i] = saved[i] /\ \A x \in 1 .. i - 1 : g[x] = rd.got[x]
    BY <1>1, <1>6, <2>3, AppendProperties, LenProperties
  <2>8. r = [Beyond EXCEPT !.part = << >>, !.got = g]
    BY <2>6
  <2> HIDE DEF g
  <2>9. /\ r \in RdType /\ r.phase = rd.phase /\ r.way = rd.way /\ r.rest = Beyond.rest
        /\ r.pending = Beyond.pending /\ r.part = << >> /\ r.end = rd.end /\ r.got = g
    BY <1>4, <2>7, <2>8
  <2>10. Gathered(r)
    <3>1. \A x \in 1 .. i - 1 : x \in 1 .. Len(rd.got)
      BY <1>1, <1>6
    <3>2. \A x \in 1 .. i - 1 : rd.got[x] = saved[x]
      BY <1>2, <3>1 DEF Gathered
    <3>3. \A x \in 1 .. i : x \in 1 .. i - 1 \/ x = i
      BY <1>1, <1>6
    <3>4. i <= Len(saved)
      BY <1>1, <1>6
    <3> QED BY <2>7, <2>9, <3>2, <3>3, <3>4 DEF Gathered
  <2> QED BY <2>4, <2>7, <2>9, <2>10
<1> QED BY <1>5, <1>6 DEF FilesRead

LEMMA ReadHeaderKeeps == ASSUME BodyInv, ReadHeader PROVE BodyInv'
<1> DEFINE q == Complete(Beyond)
           h == <<[path |-> Value[1][1], size |-> Value[2][1], body |-> << >>]>>
           r == [q EXCEPT !.part = h]
<1>1. Reading(FILE_HDR) /\ (Fail \/ Step(r))
  BY DEF ReadHeader
<1>2. kind = "sealed" /\ ~rd.end /\ rd.phase # "idle" /\ rd.phase = "record"
  BY <1>1, SealedOnly
<1>3. PICK j \in 0 .. Len(Given(rd)), c \in Nat :
        /\ Beyond \in RdType /\ Stands(Beyond, j, c + 2 + Length0) /\ c + 2 + Length0 \in 0 .. Len(Whole)
        /\ \E i \in 1 .. Len(saved) :
             /\ HeaderNext(c, i) /\ c + 2 + Length0 = FileAt(saved, i, 1)
             /\ Value = <<Byte(saved[i].path), Byte(Len(saved[i].body))>>
  <2>1. FILE_HDR # FILE_PART /\ FILE_HDR # FILE_END
    BY DEF FILE_HDR, FILE_PART, FILE_END
  <2> QED BY <1>1, <1>2, <2>1, SealedReads
<1>4. PICK i \in 1 .. Len(saved) :
             /\ HeaderNext(c, i) /\ c + 2 + Length0 = FileAt(saved, i, 1)
             /\ Value = <<Byte(saved[i].path), Byte(Len(saved[i].body))>>
  BY <1>3
<1> DEFINE s == saved[i].body
           d == c + 2 + Length0
<1>5. saved \in Seq(File) /\ saved[i] \in File /\ Len(saved) \in Nat
  BY <1>2, <1>4, FilesOnDisk
<1>6. saved[i].path \in Nat /\ s \in PlainText /\ Len(s) \in Nat
  <2>1. saved[i].path \in Nat /\ s \in PlainText
    BY <1>5 DEF File
  <2> QED BY <2>1, LenProperties DEF PlainText
<1>7. h = <<[path |-> saved[i].path, size |-> Len(s), body |-> << >>]>>
  <2>1. Value[1] = Byte(saved[i].path) /\ Value[2] = Byte(Len(s))
    BY <1>4
  <2>2. Value[1][1] = saved[i].path /\ Value[2][1] = Len(s)
    BY <2>1 DEF Byte
  <2> QED BY <2>2
<1>8. h \in Seq([path : Nat, size : Nat, body : PlainText])
  <2>1. << >> \in PlainText
    BY DEF PlainText
  <2> QED BY <1>6, <1>7, <2>1
<1>9. i - 1 \in 0 .. Len(saved) /\ FilesRead(i - 1)
  BY <1>4, <1>5 DEF HeaderNext
<1> HIDE DEF q
<1>10. /\ q \in RdType /\ q.phase = rd.phase /\ q.way = rd.way /\ q.rest = Beyond.rest
       /\ q.pending = Beyond.pending /\ q.end = rd.end /\ Len(q.got) = i - 1 /\ Gathered(q)
  <2>1. q = Complete(Beyond)
    BY DEF q
  <2> QED BY <1>2, <1>3, <1>9, <2>1, CompleteIs
<1> HIDE DEF h
<1>11. /\ r \in RdType /\ r.phase = rd.phase /\ r.way = rd.way /\ r.rest = Beyond.rest
       /\ r.pending = Beyond.pending /\ r.end = rd.end /\ r.got = q.got /\ r.part = h
  <2>1. /\ r \in RdType /\ r.phase = q.phase /\ r.way = q.way /\ r.rest = q.rest
        /\ r.pending = q.pending /\ r.end = q.end /\ r.got = q.got /\ r.part = h
    BY <1>8, <1>10 DEF RdType
  <2> QED BY <1>10, <2>1
<1> HIDE DEF r, d
<1>12. Gathered(r)
  BY <1>10, <1>11 DEF Gathered
<1>13. Stands(r, j, d)
  <2>1. r.way = Beyond.way
    BY <1>2, <1>11, BeyondIs
  <2> QED BY <1>3, <1>11, <2>1, SameStands DEF d
<1>14. InSealed(r, d)
  <2>1. Len(Parts(s)) \in Nat /\ PartEnd(s, 0) = 0
    BY <1>6, PartsAre
  <2>2. 0 \in 0 .. Len(Parts(s)) /\ 0 + 1 = 1
    BY <2>1
  <2>3. SubSeq(s, 1, 0) = << >>
    BY SubSeqEmpty
  <2>4. i = Len(r.got) + 1 /\ i <= Len(saved)
    BY <1>5, <1>10, <1>11
  <2>5. h = <<[path |-> saved[i].path, size |-> Len(s), body |-> SubSeq(s, 1, PartEnd(s, 0))]>>
    BY <1>7, <2>1, <2>3
  <2>6. d = FileAt(saved, i, 0 + 1)
    BY <1>4, <2>2 DEF d
  <2>7. /\ i <= Len(saved)
        /\ \E b \in 0 .. Len(Parts(s)) :
             /\ d = FileAt(saved, i, b + 1)
             /\ r.part = <<[path |-> saved[i].path, size |-> Len(s), body |-> SubSeq(s, 1, PartEnd(s, b))]>>
    BY <1>11, <2>2, <2>4, <2>5, <2>6
  <2> QED BY <2>4, <2>7 DEF InSealed
<1>15. d \in 0 .. Len(Whole)
  BY <1>3 DEF d
<1>16. CASE Fail
  BY <1>2, <1>16, FailKeeps
<1>17. CASE Step(r)
  BY <1>2, <1>3, <1>11, <1>12, <1>13, <1>14, <1>15, <1>17, ReaderStep
<1> QED BY <1>1, <1>16, <1>17 DEF r, q, h

LEMMA ReadFileEndKeeps == ASSUME BodyInv, ReadFileEnd PROVE BodyInv'
<1> DEFINE q == Complete(Beyond)
           r == [q EXCEPT !.end = TRUE, !.phase = "chunk"]
<1>1. Reading(FILE_END) /\ (Fail \/ Step(r))
  BY DEF ReadFileEnd
<1>2. kind = "sealed" /\ ~rd.end /\ rd.phase # "idle" /\ rd.phase = "record"
  BY <1>1, SealedOnly
<1>3. PICK j \in 0 .. Len(Given(rd)), c \in Nat :
        /\ Beyond \in RdType /\ Stands(Beyond, j, c + 2 + Length0) /\ Bound(rd, j) \in 0 .. Len(Whole)
        /\ FileEndNext(c) /\ c + 2 + Length0 = Len(OnDisk)
  <2>1. FILE_END # FILE_PART /\ FILE_END # FILE_HDR
    BY DEF FILE_HDR, FILE_PART, FILE_END
  <2> QED BY <1>1, <1>2, <2>1, SealedReads
<1>4. /\ saved \in Seq(File) /\ Len(saved) \in Nat /\ Stored /\ chunks # << >>
      /\ Len(Whole) \in Nat /\ Len(OnDisk) \in Nat
  BY <1>2, FilesOnDisk, RdIs
<1>5. Len(saved) \in 0 .. Len(saved) /\ FilesRead(Len(saved))
  BY <1>3, <1>4 DEF FileEndNext
<1> HIDE DEF q
<1>6. /\ q \in RdType /\ q.way = rd.way /\ q.rest = Beyond.rest
      /\ q.pending = Beyond.pending /\ Len(q.got) = Len(saved) /\ Gathered(q) /\ q.part = << >>
  <2>1. q = Complete(Beyond)
    BY DEF q
  <2> QED BY <1>2, <1>3, <1>5, <2>1, CompleteIs
<1>7. /\ r \in RdType /\ r.phase = "chunk" /\ r.way = rd.way /\ r.rest = Beyond.rest
      /\ r.pending = Beyond.pending /\ r.end = TRUE /\ r.got = q.got /\ r.part = << >>
  <2>1. /\ r \in RdType /\ r.phase = "chunk" /\ r.way = q.way /\ r.rest = q.rest
        /\ r.pending = q.pending /\ r.end = TRUE /\ r.got = q.got /\ r.part = q.part
    BY <1>6 DEF RdType
  <2> QED BY <1>6, <2>1
<1> HIDE DEF r
<1>8. Gathered(r)
  BY <1>6, <1>7 DEF Gathered
<1> DEFINE o == Len(OnDisk)
           w == r.pending
           b == Bound(rd, j)
<1>9. Stands(r, j, o)
  <2>1. r.way = Beyond.way
    BY <1>2, <1>7, BeyondIs
  <2> QED BY <1>3, <1>7, <2>1, SameStands
<1>10. Bound(r, j) = b
  BY <1>7 DEF Bound, Given
<1>11. o + Len(w) = b /\ (\A x \in 1 .. Len(w) : w[x] = Whole[o + x]) /\ FedTo(r, j)
  BY <1>9, <1>10 DEF Stands
<1>12. Len(w) \in Nat /\ o \in Nat /\ b \in 0 .. Len(Whole)
  <2>1. w \in Raw
    BY <1>7 DEF RdType
  <2> QED BY <1>3, <1>4, <2>1, LenProperties DEF Raw
<1>13. \A x \in o + 1 .. Len(Whole) : Whole[x] = Byte(0)
  BY <1>4 DEF Stored
<1>14. \A x \in 1 .. Len(w) : w[x] = Byte(0)
  <2>1. \A x \in 1 .. Len(w) : o + x \in o + 1 .. Len(Whole)
    BY <1>4, <1>11, <1>12
  <2> QED BY <1>11, <1>13, <2>1
<1>15. o <= b
  BY <1>11, <1>12
<1>16. Past(r, j)
  BY <1>2, <1>6, <1>7, <1>10, <1>11, <1>14, <1>15 DEF Past
<1>17. CASE Fail
  BY <1>2, <1>17, FailKeeps
<1>18. CASE Step(r)
  BY <1>2, <1>3, <1>7, <1>8, <1>16, <1>18, ReaderStep
<1> QED BY <1>1, <1>17, <1>18 DEF r, q

LEMMA ChunkIs ==
  ASSUME BodyInv, rd.phase # "idle", NEW j \in 0 .. Len(Given(rd)), FedTo(rd, j), rd.rest # << >>,
         NEW b, b = Head(rd.rest).bytes
  PROVE  /\ j + 1 \in 0 .. Len(Given(rd)) /\ Tail(rd.rest) \in Seq([last : BOOLEAN, bytes : Raw])
         /\ Tail(rd.rest) = SubSeq(Given(rd), (j + 1) + 1, Len(Given(rd)))
         /\ b \in Raw /\ Len(b) \in Nat
         /\ Bound(rd, j) \in 0 .. Len(Whole) /\ Bound(rd, j + 1) \in 0 .. Len(Whole)
         /\ Bound(rd, j + 1) = Bound(rd, j) + Len(b)
         /\ \A x \in 1 .. Len(b) : b[x] = Whole[Bound(rd, j) + x]
<1> DEFINE g == Given(rd)
           n == Len(g)
           l == Len(Whole)
           i == j + 1
<1>1. /\ n \in Nat \ {0} /\ g \in Seq([last : BOOLEAN, bytes : Raw]) /\ l \in Nat
      /\ \A k \in 0 .. n : End(l, n, k) \in 0 .. l
      /\ \A k \in 1 .. n :
          /\ g[k].bytes \in Raw
          /\ End(l, n, k) = End(l, n, k - 1) + Len(g[k].bytes) /\ Len(g[k].bytes) \in Nat
          /\ \A x \in 1 .. Len(g[k].bytes) : g[k].bytes[x] = Whole[End(l, n, k - 1) + x]
  <2>1. Cuts(Given(rd), Whole)
    BY RdIs
  <2> QED BY <2>1 DEF Cuts
<1>2. rd.rest = SubSeq(g, i, n)
  BY DEF FedTo
<1>3. \A k : Bound(rd, k) = End(l, n, k)
  BY DEF Bound
<1> HIDE DEF g, n, l
<1>4. j \in 0 .. n
  BY DEF g, n
<1>5. i \in 1 .. n /\ i - 1 = j /\ i \in 0 .. n /\ j \in 0 .. n
  <2>1. j # n
    <3>1. ASSUME j = n PROVE FALSE
      <4>1. i \in Int /\ n \in Int /\ n < i
        BY <1>1, <3>1
      <4>2. SubSeq(g, i, n) = << >>
        BY <4>1, SubSeqEmpty
      <4> QED BY <1>2, <4>2
    <3> QED BY <3>1
  <2> QED BY <1>1, <1>4, <2>1
<1> HIDE DEF i
<1>6. n \in i .. Len(g)
  BY <1>1, <1>5 DEF n
<1>7. i \in 1 .. Len(g)
  BY <1>5 DEF n
<1>8. Head(SubSeq(g, i, n)) = g[i] /\ Tail(SubSeq(g, i, n)) = SubSeq(g, i + 1, n)
  BY <1>1, <1>6, <1>7, HeadTailOfSubSeq
<1>9. b = g[i].bytes /\ Tail(rd.rest) = SubSeq(g, i + 1, n)
  BY <1>2, <1>8
<1>10. Tail(rd.rest) \in Seq([last : BOOLEAN, bytes : Raw])
  <2>1. rd \in RdType
    BY RdIs
  <2>2. rd.rest \in Seq([last : BOOLEAN, bytes : Raw])
    BY <2>1 DEF RdType
  <2> QED BY <2>2, HeadTailProperties
<1>11. /\ b \in Raw /\ Len(b) \in Nat /\ Bound(rd, j) \in 0 .. l /\ Bound(rd, i) \in 0 .. l
       /\ Bound(rd, i) = Bound(rd, j) + Len(b)
       /\ \A x \in 1 .. Len(b) : b[x] = Whole[Bound(rd, j) + x]
  <2>1. Bound(rd, j) = End(l, n, j) /\ Bound(rd, i) = End(l, n, i)
    BY <1>3
  <2> QED BY <1>1, <1>5, <1>9, <2>1
<1> QED BY <1>5, <1>9, <1>10, <1>11 DEF g, n, l, i

LEMMA NextChunkKeeps == ASSUME BodyInv, NextChunk PROVE BodyInv'
<1> DEFINE b == Head(rd.rest).bytes
           r1 == [rd EXCEPT !.rest = Tail(@)]
           r2 == Fed(Head(rd.rest))
<1>1. rd.phase = "chunk" /\ rd.phase # "idle" /\ rd.rest # << >>
  BY DEF NextChunk
<1>2. Fail \/ (rd.end /\ rd.way # "vault" /\ Step(r1)) \/ (~(rd.end /\ rd.way # "vault") /\ Step(r2))
  BY DEF NextChunk
<1>3. /\ rd \in RdType /\ Gathered(rd) /\ Stored /\ chunks # << >> /\ Len(Whole) \in Nat /\ Len(OnDisk) \in Nat
      /\ rd.pending \in Raw /\ Len(rd.pending) \in Nat
      /\ (rd.way = "vault" <=> kind = "vault")
  BY <1>1, RdIs
<1>4. PICK j \in 0 .. Len(Given(rd)) :
           /\ Bound(rd, j) \in 0 .. Len(Whole)
           /\ \/ rd.end /\ Past(rd, j)
              \/ /\ ~rd.end
                 /\ \E c \in 0 .. Len(Whole) :
                      Stands(rd, j, c) /\ IF kind = "vault" THEN InVault(rd, c) ELSE InSealed(rd, c)
  BY <1>1, Cursor
<1>5. FedTo(rd, j)
  BY <1>4 DEF Past, Stands
<1> HIDE DEF b
<1>6. /\ j + 1 \in 0 .. Len(Given(rd)) /\ Tail(rd.rest) \in Seq([last : BOOLEAN, bytes : Raw])
      /\ Tail(rd.rest) = SubSeq(Given(rd), (j + 1) + 1, Len(Given(rd)))
      /\ b \in Raw /\ Len(b) \in Nat
      /\ Bound(rd, j) \in 0 .. Len(Whole) /\ Bound(rd, j + 1) \in 0 .. Len(Whole)
      /\ Bound(rd, j + 1) = Bound(rd, j) + Len(b)
      /\ \A x \in 1 .. Len(b) : b[x] = Whole[Bound(rd, j) + x]
  <2>1. b = Head(rd.rest).bytes
    BY DEF b
  <2> QED BY <1>1, <1>5, <2>1, ChunkIs
<1> DEFINE i == j + 1
           B == Bound(rd, j)
           B1 == Bound(rd, i)
<1>7. CASE Fail
  BY <1>1, <1>7, FailKeeps
<1>8. CASE rd.end /\ rd.way # "vault" /\ Step(r1)
  <2>1. /\ r1 \in RdType /\ r1.phase = "chunk" /\ r1.way = rd.way /\ r1.rest = Tail(rd.rest) /\ r1.pending = rd.pending
        /\ r1.key = rd.key /\ r1.got = rd.got /\ r1.part = rd.part /\ r1.end = TRUE
    BY <1>1, <1>3, <1>6, <1>8 DEF RdType
  <2> HIDE DEF r1, i
  <2>2. Given(r1) = Given(rd)
    BY <2>1 DEF Given
  <2>3. FedTo(r1, i) /\ Bound(r1, i) = B1
    BY <1>6, <2>1, <2>2 DEF FedTo, Bound, i
  <2>4. Past(rd, j)
    BY <1>4, <1>8
  <2>5. Len(OnDisk) <= B1
    <3>1. Len(OnDisk) <= B /\ B1 = B + Len(b)
      BY <1>6, <2>4 DEF Past, i
    <3>2. B \in Nat /\ Len(b) \in Nat
      BY <1>3, <1>6
    <3> HIDE DEF B, B1
    <3> QED BY <1>3, <3>1, <3>2
  <2>6. Past(r1, i)
    BY <2>1, <2>3, <2>4, <2>5 DEF Past
  <2>7. Gathered(r1)
    BY <1>3, <2>1 DEF Gathered
  <2>8. i \in 0 .. Len(Given(rd))
    BY <1>6 DEF i
  <2> QED BY <1>1, <1>8, <2>1, <2>6, <2>7, <2>8, ReaderStep
<1>9. CASE ~(rd.end /\ rd.way # "vault") /\ Step(r2)
  <2> DEFINE w == rd.pending \o b
  <2>1. w \in Raw
    BY <1>3, <1>6, Behind DEF Raw
  <2>2. /\ r2 \in RdType /\ r2.phase = "record" /\ r2.way = rd.way /\ r2.rest = Tail(rd.rest) /\ r2.pending = w
        /\ r2.key = rd.key /\ r2.at = rd.at /\ r2.got = rd.got /\ r2.part = rd.part /\ r2.end = rd.end
    BY <1>3, <1>6, <2>1 DEF RdType, Fed, b
  <2>3. /\ Len(w) = Len(rd.pending) + Len(b) /\ Len(w) \in Nat
        /\ \A x \in 1 .. Len(rd.pending) : w[x] = rd.pending[x]
        /\ \A x \in 1 .. Len(b) : w[Len(rd.pending) + x] = b[x]
    <3>1. rd.pending \in Seq(Bits) /\ b \in Seq(Bits) /\ w = rd.pending \o b
      BY <1>3, <1>6 DEF Raw
    <3> HIDE DEF w
    <3>2. /\ Len(w) = Len(rd.pending) + Len(b)
          /\ \A x \in 1 .. Len(rd.pending) : w[x] = rd.pending[x]
          /\ \A x \in 1 .. Len(b) : w[Len(rd.pending) + x] = b[x]
      BY <3>1, Behind
    <3> QED BY <1>3, <1>6, <3>2
  <2> HIDE DEF r2, w, i
  <2>4. Given(r2) = Given(rd)
    BY <2>2 DEF Given
  <2>5. FedTo(r2, i) /\ Bound(r2, i) = B1 /\ i \in 0 .. Len(Given(rd))
    BY <1>6, <2>2, <2>4 DEF FedTo, Bound, i
  <2>6. Gathered(r2)
    BY <1>3, <2>2 DEF Gathered
  <2> DEFINE p == rd.pending
  <2>7. /\ B \in Nat /\ B1 = B + Len(b) /\ Len(b) \in Nat /\ Len(p) \in Nat /\ B1 <= Len(Whole)
        /\ \A x \in 1 .. Len(b) : b[x] = Whole[B + x]
    BY <1>3, <1>6 DEF i
  <2> HIDE DEF B, B1, p
  <2>8. \A x \in 1 .. Len(w) : x \in 1 .. Len(p) \/ (x - Len(p) \in 1 .. Len(b) /\ Len(p) + (x - Len(p)) = x)
    BY <2>3, <2>7 DEF p
  <2>9. CASE rd.end
    <3>1. Past(rd, j)
      BY <1>4, <2>9
    <3>2. Len(OnDisk) <= B /\ \A x \in 1 .. Len(p) : p[x] = Byte(0)
      BY <3>1 DEF Past, B, p
    <3>3. Len(OnDisk) <= B1
      BY <1>3, <2>7, <3>2
    <3>4. \A x \in 1 .. Len(b) : b[x] = Byte(0)
      <4>1. \A x \in 1 .. Len(b) : B + x \in Len(OnDisk) + 1 .. Len(Whole)
        BY <1>3, <2>7, <3>2
      <4> QED BY <1>3, <2>7, <4>1 DEF Stored
    <3>5. \A x \in 1 .. Len(w) : w[x] = Byte(0)
      BY <2>3, <2>8, <3>2, <3>4 DEF p
    <3>6. Past(r2, i)
      BY <1>9, <2>2, <2>5, <2>9, <3>1, <3>3, <3>5 DEF Past
    <3> QED BY <1>1, <1>9, <2>2, <2>5, <2>6, <2>9, <3>6, ReaderStep
  <2>10. CASE ~rd.end
    <3>1. PICK c \in 0 .. Len(Whole) :
            Stands(rd, j, c) /\ IF kind = "vault" THEN InVault(rd, c) ELSE InSealed(rd, c)
      BY <1>4, <2>10
    <3>2. c + Len(p) = B /\ \A x \in 1 .. Len(p) : p[x] = Whole[c + x]
      BY <3>1 DEF Stands, B, p
    <3>3. c \in Nat
      BY <1>3, <3>1
    <3>4. c + Len(w) = B1
      <4>1. Len(w) = Len(p) + Len(b)
        BY <2>3 DEF p
      <4>2. \A x, y, z \in Nat : x + (y + z) = (x + y) + z
        OBVIOUS
      <4>3. c + (Len(p) + Len(b)) = (c + Len(p)) + Len(b)
        BY <2>7, <3>3, <4>2
      <4> QED BY <2>7, <3>2, <4>1, <4>3
    <3>5. ASSUME NEW x \in 1 .. Len(w) PROVE w[x] = Whole[c + x]
      <4>1. CASE x \in 1 .. Len(p)
        BY <2>3, <3>2, <4>1 DEF p
      <4>2. CASE x - Len(p) \in 1 .. Len(b) /\ Len(p) + (x - Len(p)) = x
        <5>1. w[x] = b[x - Len(p)] /\ b[x - Len(p)] = Whole[B + (x - Len(p))]
          BY <2>3, <2>7, <4>2 DEF p
        <5>2. B + (x - Len(p)) = c + x
          <6>1. \A u, y, z \in Nat : (u + y) + (z - y) = u + z
            OBVIOUS
          <6>2. x \in Nat
            BY <2>3
          <6>3. (c + Len(p)) + (x - Len(p)) = c + x
            BY <2>7, <3>3, <6>1, <6>2
          <6> QED BY <3>2, <6>3
        <5> QED BY <5>1, <5>2
      <4> QED BY <2>8, <4>1, <4>2
    <3>6. Stands(r2, i, c)
      BY <2>2, <2>5, <3>4, <3>5 DEF Stands
    <3>7. (InVault(r2, c) <=> InVault(rd, c)) /\ (InSealed(r2, c) <=> InSealed(rd, c))
      BY <2>2 DEF InVault, InSealed
    <3> QED BY <1>1, <1>9, <2>2, <2>5, <2>6, <2>10, <3>1, <3>6, <3>7, ReaderStep
  <2> QED BY <2>9, <2>10
<1> QED BY <1>2, <1>7, <1>8, <1>9

LEMMA FinishKeeps == ASSUME BodyInv, FinishReading PROVE BodyInv'
<1> DEFINE r == [rd EXCEPT !.phase = "done", !.pending = << >>]
<1>1. rd.phase = "chunk" /\ rd.phase # "idle"
  BY DEF FinishReading
<1>2. \/ Fail
      \/ rd.end /\ rd.way = "extract" /\ Step(r)
      \/ /\ rd.end /\ open' = TRUE /\ content' = rd.got /\ rd' = Unread
         /\ UNCHANGED <<kind, chunks, version, edits, meant, saved>>
  BY DEF FinishReading
<1>3. /\ rd \in RdType /\ Gathered(rd) /\ (rd.way = "vault" <=> kind = "vault") /\ meant = saved
  BY <1>1, RdIs
<1>4. rd.end => Len(rd.got) = Len(saved)
  BY <1>1, Cursor DEF Past
<1>5. CASE Fail
  BY <1>1, <1>5, FailKeeps
<1>6. CASE rd.end /\ rd.way = "extract" /\ Step(r)
  <2>1. << >> \in Raw
    BY DEF Raw
  <2>2. r \in RdType /\ r.phase = "done" /\ r.way = rd.way /\ r.got = rd.got
    BY <1>3, <2>1 DEF RdType
  <2> HIDE DEF r
  <2>3. Gathered(r)
    BY <1>3, <2>2 DEF Gathered
  <2>4. ReadsOf(r)
    BY <1>3, <1>4, <1>6, <2>2, <2>3 DEF ReadsOf, Reader
  <2> QED BY <1>1, <1>6, <2>2, <2>4, StepIs
<1>7. CASE /\ rd.end /\ open' = TRUE /\ content' = rd.got /\ rd' = Unread
           /\ UNCHANGED <<kind, chunks, version, edits, meant, saved>>
  <2>1. Whole' = Whole /\ OnDisk' = OnDisk /\ Kept' = Kept /\ Meants' = Meants /\ Stored' /\ RdType' = RdType
    <3>1. Whole' = Whole /\ OnDisk' = OnDisk /\ Kept' = Kept /\ Meants' = Meants
      BY <1>7 DEF Whole, BytesOf, OnDisk, Text, Kept, Meants
    <3> QED BY <1>7, <3>1 DEF BodyInv, Stored, RdType
  <2>2. BodyTypes'
    <3>1. version \in Nat /\ Unread \in RdType
      <4>1. version \in Nat
        BY BoundsAssumption DEF BodyInv, BodyTypes
      <4> QED BY <4>1, UnreadIs
    <3> QED BY <1>7, <2>1, <3>1 DEF BodyInv, BodyTypes
  <2>3. rd.got \in Kept
    BY <1>3 DEF RdType
  <2> DEFINE g == rd.got
             M(e) == IF kind = "vault" THEN Meaning(e) ELSE e
             v == [i \in DOMAIN g |-> M(g[i])]
  <2>4. View' = v
    <3>1. \A e : Meaning(e)' = Meaning(e)
      BY DEF Meaning, Expose, Keystream, Xor, Garbage, Byte
    <3> QED BY <1>7 DEF View, Meaning, Expose, Keystream, Xor, Garbage, Byte
  <2>5. v = saved
    <3>1. DOMAIN g = 1 .. Len(g)
      <4>1. \E S : g \in Seq(S)
        BY <2>3 DEF Kept
      <4> QED BY <4>1, LenProperties
    <3>2. \E S : saved \in Seq(S)
      BY DEF BodyInv, BodyTypes, Meants
    <3>3. DOMAIN saved = 1 .. Len(saved) /\ saved = [i \in 1 .. Len(saved) |-> saved[i]]
      BY <3>2, LenProperties
    <3>4. Len(g) = Len(saved) /\ \A i \in 1 .. Len(g) : M(g[i]) = saved[i]
      BY <1>3, <1>4, <1>7 DEF Gathered
    <3> HIDE DEF g, M
    <3>5. v = [i \in 1 .. Len(saved) |-> saved[i]]
      BY <3>1, <3>4
    <3> QED BY <3>3, <3>5
  <2>6. Shown'
    BY <1>3, <1>7, <2>1, <2>3, <2>4, <2>5 DEF Shown
  <2>7. Reads'
    BY <1>7, Idle DEF Reads, ReadsOf
  <2> QED BY <2>1, <2>2, <2>6, <2>7 DEF BodyInv
<1> QED BY <1>2, <1>5, <1>6, <1>7

LEMMA RefuseKeeps == ASSUME BodyInv, Refuse PROVE BodyInv'
<1>1. rd.phase # "idle" /\ Fail
  BY DEF Refuse
<1> QED BY <1>1, FailKeeps

\* A reader that has just begun is at the beginning of the text.
LEMMA OpenKeeps == ASSUME BodyInv, NEW way \in {"vault", "list", "extract"}, OpenBody(way) PROVE BodyInv'
<1> DEFINE b == [last |-> Last(chunks).last, bytes |-> Whole]
           s == IF way = "list" THEN <<b>> ELSE chunks
           r == [Unread EXCEPT !.way = way, !.phase = "chunk", !.rest = s]
<1>1. /\ ~open /\ Step(r) /\ way \in IF kind = "vault" THEN {"vault"} ELSE {"list", "extract"}
  BY DEF OpenBody, Whole, BytesOf, Step
<1>2. chunks # << >> /\ Stored /\ kind \in {"vault", "sealed"}
  BY <1>1 DEF BodyInv, Shown, BodyTypes
<1>3. Cuts(chunks, Whole) /\ Whole \in Raw /\ Unread \in RdType
  <2>1. version \in Nat
    BY <1>2, BoundsAssumption DEF Stored
  <2>2. Unread \in RdType
    BY <2>1, UnreadIs
  <2> QED BY <1>2, <2>2, GivenIs DEF Stored
<1>4. b = [last |-> TRUE, bytes |-> Whole] /\ b \in [last : BOOLEAN, bytes : Raw]
      /\ chunks \in Seq([last : BOOLEAN, bytes : Raw])
  <2>1. Last(chunks).last = TRUE /\ chunks \in Seq([last : BOOLEAN, bytes : Raw])
    BY <1>3 DEF Cuts, Last
  <2> QED BY <1>3, <2>1
<1>5. s \in Seq([last : BOOLEAN, bytes : Raw])
  <2>1. \A x \in [last : BOOLEAN, bytes : Raw] : <<x>> \in Seq([last : BOOLEAN, bytes : Raw])
    OBVIOUS
  <2>2. <<b>> \in Seq([last : BOOLEAN, bytes : Raw])
    BY <1>4, <2>1, Zenon
  <2> QED BY <1>4, <2>2
<1>6. s = IF way = "list" THEN <<[last |-> TRUE, bytes |-> Whole]>> ELSE chunks
  <2>1. <<b>> = <<[last |-> TRUE, bytes |-> Whole]>>
    BY <1>4, Zenon
  <2> QED BY <2>1
<1> HIDE DEF s
<1>7. /\ r \in RdType /\ r.phase = "chunk" /\ r.way = way /\ r.rest = s /\ r.pending = << >>
      /\ r.key = 0 /\ r.at = 0 /\ r.got = << >> /\ r.part = << >> /\ ~r.end
  <2>1. r \in RdType
    BY <1>3, <1>5 DEF RdType
  <2> QED BY <2>1 DEF Unread
<1> HIDE DEF r
<1>8. Given(r) = s
  BY <1>6, <1>7 DEF Given
<1>9. Cuts(Given(r), Whole)
  BY <1>2, <1>7, GivenIs
<1>10. Len(s) \in Nat /\ End(Len(Whole), Len(s), 0) = 0 /\ Len(Whole) \in Nat
  BY <1>8, <1>9 DEF Cuts
<1>11. FedTo(r, 0)
  <2>1. SubSeq(s, 1, Len(s)) = s /\ 0 + 1 = 1
    BY <1>5, SubSeqFull
  <2> QED BY <1>7, <1>8, <2>1 DEF FedTo
<1>12. Stands(r, 0, 0)
  <2>1. Bound(r, 0) = 0
    BY <1>8, <1>10 DEF Bound
  <2> QED BY <1>7, <1>11, <2>1 DEF Stands
<1>13. saved \in Meants /\ Len(saved) \in Nat
  <2>1. saved \in Meants
    BY DEF BodyInv, BodyTypes
  <2>2. \E S : saved \in Seq(S)
    BY <2>1 DEF Meants
  <2> QED BY <2>1, <2>2, LenProperties
<1>14. IF kind = "vault" THEN InVault(r, 0) ELSE InSealed(r, 0)
  <2>1. CASE kind = "vault"
    <3>1. saved \in Seq(EntryMeant)
      BY <1>13, <2>1 DEF Meants
    <3>2. EntryAt(saved, 1) = 0 /\ Len(r.got) + 1 = 1
      BY <1>7, <3>1, EntryAtIs
    <3> QED BY <1>7, <2>1, <3>2 DEF InVault
  <2>2. CASE kind # "vault"
    BY <1>7, <2>2 DEF InSealed
  <2> QED BY <2>1, <2>2
<1>15. Gathered(r)
  BY <1>7, <1>13 DEF Gathered
<1>16. Reader(r)
  <2>1. 0 \in 0 .. Len(Given(r)) /\ 0 \in 0 .. Len(Whole)
    BY <1>8, <1>10
  <2> QED BY <1>7, <1>12, <1>14, <2>1 DEF Reader
<1>17. ReadsOf(r)
  BY <1>1, <1>2, <1>7, <1>15, <1>16 DEF ReadsOf
<1> QED BY <1>1, <1>7, <1>17, StepKeeps

\* What the disk keeps while nothing is read.
LEMMA DiskKeeps ==
  ASSUME BodyInv, kind' = kind, chunks' = chunks, version' = version, saved' = saved, edits' \in 0 .. MaxEdits,
         open' \in BOOLEAN, meant' \in Meants, rd' = Unread,
         open' => content' \in Kept /\ View' = meant',
         ~open' => chunks # << >> /\ meant' = saved
  PROVE  BodyInv'
<1>1. Whole' = Whole /\ OnDisk' = OnDisk /\ Kept' = Kept /\ Meants' = Meants
  BY DEF Whole, BytesOf, OnDisk, Text, Kept, Meants
<1>2. Stored' /\ RdType' = RdType
  BY <1>1 DEF BodyInv, Stored, RdType
<1>3. BodyTypes'
  <2>1. version \in Nat
    BY BoundsAssumption DEF BodyInv, BodyTypes
  <2>2. Unread \in RdType
    BY <2>1, UnreadIs
  <2> QED BY <1>1, <1>2, <2>2 DEF BodyInv, BodyTypes
<1>4. Shown'
  BY <1>1 DEF Shown
<1>5. Reads'
  BY Idle DEF Reads, ReadsOf
<1> QED BY <1>2, <1>3, <1>4, <1>5 DEF BodyInv

LEMMA CloseKeeps == ASSUME BodyInv, CloseBody PROVE BodyInv'
<1>1. /\ kind' = kind /\ chunks' = chunks /\ version' = version /\ saved' = saved /\ edits' = edits
      /\ open' = FALSE /\ meant' = saved /\ rd' = Unread /\ chunks # << >>
  BY DEF CloseBody
<1>2. edits \in 0 .. MaxEdits /\ saved \in Meants
  BY DEF BodyInv, BodyTypes
<1> QED BY <1>1, <1>2, DiskKeeps

LEMMA InitKeeps == BodyInit => BodyInv
<1> SUFFICES ASSUME BodyInit PROVE BodyInv
  OBVIOUS
<1>1. /\ kind \in {"vault", "sealed"} /\ open = TRUE /\ content = << >> /\ chunks = << >> /\ version = 0
      /\ rd = Unread /\ edits = 0 /\ meant = << >> /\ saved = << >>
  BY DEF BodyInit
<1>2. << >> \in Kept /\ << >> \in Meants /\ 0 \in 0 .. MaxSaves /\ 0 \in 0 .. MaxEdits
  BY BoundsAssumption DEF Kept, Meants
<1>3. View = << >>
  BY <1>1 DEF View
<1>4. BodyTypes
  BY <1>1, <1>2, UnreadIs DEF BodyTypes
<1>5. Stored /\ Shown
  BY <1>1, <1>2, <1>3 DEF Stored, Shown
<1>6. Reads
  BY <1>1, Idle DEF Reads, ReadsOf
<1> QED BY <1>4, <1>5, <1>6 DEF BodyInv

(***************************************************************************)
(* Each step of the program that has the file open.                        *)
(***************************************************************************)

LEMMA SaveKeeps == ASSUME BodyInv, NEW pad \in Padding, SaveBody(pad) PROVE BodyInv'
<1> DEFINE k == version + 1
           t == Text(meant, k)
           z == Bytes(0, pad)
           w == t \o z
<1>1. /\ kind' = kind /\ open' = open /\ content' = content /\ rd' = rd /\ edits' = edits /\ meant' = meant
      /\ open /\ version < MaxSaves /\ chunks' = Chunked(Text(View, k) \o z)
      /\ version' = k /\ saved' = meant
  BY DEF SaveBody
<1>2. /\ kind \in {"vault", "sealed"} /\ version \in 0 .. MaxSaves /\ edits \in 0 .. MaxEdits /\ meant \in Meants
      /\ rd = Unread /\ content \in Kept /\ View = meant
  BY <1>1 DEF BodyInv, BodyTypes, Shown
<1>3. k \in 1 .. MaxSaves
  BY <1>1, <1>2, BoundsAssumption
<1> HIDE DEF k
<1>4. t \in Raw
  <2>1. CASE kind = "vault"
    <3>1. meant \in Seq(EntryMeant) /\ t = Payload(meant, k)
      BY <1>2, <2>1 DEF Meants, Text
    <3> QED BY <1>3, <3>1, PayloadIs
  <2>2. CASE kind = "sealed"
    <3>1. meant \in Seq(File) /\ t = ArchiveText(meant)
      BY <1>2, <2>2 DEF Meants, Text
    <3> QED BY <3>1, ArchiveIs
  <2> QED BY <1>2, <2>1, <2>2
<1>5. z \in Raw /\ pad \in Nat /\ Len(z) = pad /\ \A x \in 1 .. pad : z[x] = Byte(0)
  <2>1. pad \in Nat /\ 0 \in Int
    BY LengthAssumption
  <2>2. z \in PlainText /\ Len(z) = pad
    BY <2>1, PlainIs
  <2>3. z \in Raw
    BY <2>2, PlainIs
  <2> QED BY <2>1, <2>2, <2>3 DEF Bytes
<1>6. chunks' = Chunked(w)
  BY <1>1, <1>2
<1>7. OnDisk' = t
  BY <1>1 DEF OnDisk, Text
<1> HIDE DEF t, z, w
<1>8. /\ w \in Raw /\ Len(t) \in Nat /\ Len(z) \in Nat /\ Len(w) = Len(t) + Len(z)
      /\ Has(w, 0, t) /\ Has(w, Len(t), z)
  <2>1. w = t \o z
    BY DEF w
  <2> QED BY <1>4, <1>5, <2>1, HasConcat
<1>9. Whole' = w
  <2>1. FlattenSeq(BytesOf(Chunked(w))) = w
    BY <1>8, ChunksOfText
  <2>2. Whole' = FlattenSeq(BytesOf(chunks'))
    BY DEF Whole, BytesOf
  <2> QED BY <1>6, <2>1, <2>2
<1>10. \A x \in Len(t) + 1 .. Len(w) : w[x] = Byte(0)
  <2>1. ASSUME NEW x \in Len(t) + 1 .. Len(w) PROVE w[x] = Byte(0)
    <3>1. x - Len(t) \in 1 .. Len(z) /\ Len(t) + (x - Len(t)) = x
      BY <1>8
    <3>2. w[Len(t) + (x - Len(t))] = z[x - Len(t)]
      BY <1>8, <3>1 DEF Has
    <3> QED BY <1>5, <3>1, <3>2
  <2> QED BY <2>1
<1>11. Stored'
  BY <1>1, <1>3, <1>4, <1>6, <1>7, <1>8, <1>9, <1>10 DEF Stored
<1>12. Kept' = Kept /\ Meants' = Meants
  BY <1>1 DEF Kept, Meants
<1>13. BodyTypes'
  <2>1. version' \in 0 .. MaxSaves /\ version' \in Nat
    BY <1>1, <1>3, BoundsAssumption
  <2>2. Unread' \in RdType'
    <3>1. /\ << >> \in Seq([last : BOOLEAN, bytes : Raw]) /\ << >> \in Raw /\ << >> \in Kept'
          /\ << >> \in Seq([path : Nat, size : Nat, body : PlainText])
          /\ 0 \in 0 .. version'
      BY <2>1 DEF Raw, Kept
    <3> QED BY <3>1 DEF Unread, RdType
  <2> QED BY <1>1, <1>2, <1>12, <2>1, <2>2 DEF BodyTypes, Unread
<1>14. View' = View
  BY <1>1 DEF View, Meaning, Expose, Keystream, Xor, Garbage, Byte
<1>15. Shown'
  BY <1>1, <1>2, <1>12, <1>14 DEF Shown
<1>16. Reads'
  BY <1>1, <1>2, Idle DEF Reads, ReadsOf
<1> QED BY <1>11, <1>13, <1>15, <1>16 DEF BodyInv

Meanings(es) == [i \in DOMAIN es |-> Meaning(es[i])]

\* An edit is kept when what is shown is what is meant.
LEMMA EditKeeps ==
  ASSUME BodyInv, Edit, meant' \in Meants, content' \in Kept,
         IF kind = "vault" THEN Meanings(content') = meant' ELSE content' = meant'
  PROVE  BodyInv'
<1>1. /\ kind' = kind /\ open' = open /\ chunks' = chunks /\ version' = version /\ rd' = rd /\ saved' = saved
      /\ open /\ edits < MaxEdits /\ edits' = edits + 1
  BY DEF Edit
<1>2. rd = Unread /\ edits \in 0 .. MaxEdits /\ open \in BOOLEAN
  BY <1>1 DEF BodyInv, BodyTypes, Shown
<1>3. edits' \in 0 .. MaxEdits
  BY <1>1, <1>2, BoundsAssumption
<1>4. View' = [i \in DOMAIN content' |-> IF kind = "vault" THEN Meaning(content'[i]) ELSE content'[i]]
  BY <1>1 DEF View, Meaning, Expose, Keystream, Xor, Garbage, Byte
<1>5. View' = meant'
  <2>1. CASE kind = "vault"
    BY <1>4, <2>1 DEF Meanings
  <2>2. CASE kind # "vault"
    <3>1. \E S : content' \in Seq(S)
      BY DEF Kept
    <3>2. content' = [i \in DOMAIN content' |-> content'[i]]
      BY <3>1
    <3> QED BY <1>4, <2>2, <3>2
  <2> QED BY <2>1, <2>2
<1> QED BY <1>1, <1>2, <1>3, <1>5, DiskKeeps

\* What the program shows, in the words of each kind.
LEMMA ShownIs ==
  ASSUME BodyInv, open
  PROVE  /\ kind = "vault" => /\ content \in Seq(Entry) /\ meant \in Seq(EntryMeant)
                              /\ meant = Meanings(content)
         /\ kind = "sealed" => content \in Seq(File) /\ meant = content
<1>1. content \in Kept /\ View = meant /\ meant \in Meants
  BY DEF BodyInv, BodyTypes, Shown
<1>2. ASSUME kind = "vault" PROVE content \in Seq(Entry) /\ meant \in Seq(EntryMeant) /\ meant = Meanings(content)
  BY <1>1, <1>2 DEF Kept, Meants, View, Meanings
<1>3. ASSUME kind = "sealed" PROVE content \in Seq(File) /\ meant = content
  <2>1. content \in Seq(File)
    BY <1>1, <1>3 DEF Kept
  <2>2. content = [i \in DOMAIN content |-> content[i]]
    BY <2>1
  <2> QED BY <1>1, <1>3, <2>1, <2>2 DEF View
<1> QED BY <1>2, <1>3

\* A field that was never saved means what it holds.
FreshType == [tag : Nat, ct : PlainText, key : {0}, at : {0}]

LEMMA FieldIs ==
  ASSUME NEW tag \in Nat, NEW s \in PlainText
  PROVE  /\ Field(tag, s) \in FreshType /\ Field(tag, s) \in FieldType
         /\ Field(tag, s).tag = tag /\ Expose(Field(tag, s)) = s
<1>1. s \in Raw
  BY PlainIs
<1> QED BY <1>1, BoundsAssumption DEF Field, FreshType, FieldType, Expose

LEMMA FreshIs ==
  ASSUME NEW e \in Seq(FreshType)
  PROVE  e \in Entry /\ Meaning(e) \in EntryMeant
<1>1. Len(e) \in Nat /\ DOMAIN e = 1 .. Len(e) /\ \A i \in 1 .. Len(e) : e[i] \in FreshType
  BY LenProperties, ElementOfSeq
<1>2. FreshType \subseteq FieldType
  BY PlainIs, BoundsAssumption DEF FreshType, FieldType
<1>3. e \in Entry
  BY <1>2, SeqMonotonic DEF Entry
<1>4. \A i \in 1 .. Len(e) : <<e[i].tag, Expose(e[i])>> \in Nat \X PlainText
  BY <1>1 DEF FreshType, Expose
<1>5. Meaning(e) \in EntryMeant
  BY <1>1, <1>4 DEF Meaning, EntryMeant
<1> QED BY <1>3, <1>5

LEMMA NewEntryIs ==
  ASSUME NEW t \in Nat, NEW n \in Nat, NEW pw \in Nat, NEW notes \in Nat, NEW otp \in BOOLEAN
  PROVE  NewEntry(t, n, pw, notes, otp) \in Entry /\ Meaning(NewEntry(t, n, pw, notes, otp)) \in EntryMeant
<1> DEFINE a == Field(TITLE, <<Byte(t)>>)
           b == Field(PASSWORD, Bytes(n, pw))
           c == Field(NOTES, Bytes(n, notes))
           d == Field(OTP, Bytes(n, 1))
           x == <<a, b, c>>
           y == IF otp THEN <<d>> ELSE << >>
           e == x \o y
<1>1. <<Byte(t)>> \in PlainText /\ Bytes(n, pw) \in PlainText /\ Bytes(n, notes) \in PlainText /\ Bytes(n, 1) \in PlainText
  BY PlainIs DEF PlainText
<1>2. TITLE \in Nat /\ PASSWORD \in Nat /\ NOTES \in Nat /\ OTP \in Nat
  BY DEF TITLE, PASSWORD, NOTES, OTP
<1>3. a \in FreshType /\ b \in FreshType /\ c \in FreshType /\ d \in FreshType
  BY <1>1, <1>2, FieldIs
<1>4. NewEntry(t, n, pw, notes, otp) = e
  BY DEF NewEntry
<1> HIDE DEF a, b, c, d
<1>5. x \in Seq(FreshType) /\ y \in Seq(FreshType)
  BY <1>3
<1>6. e \in Seq(FreshType)
  BY <1>5, ConcatProperties
<1> QED BY <1>4, <1>6, FreshIs

LEMMA MeaningsIs ==
  ASSUME NEW es \in Seq(Entry)
  PROVE  /\ Len(es) \in Nat /\ DOMAIN es = 1 .. Len(es)
         /\ Len(Meanings(es)) = Len(es) /\ DOMAIN Meanings(es) = 1 .. Len(es)
         /\ \A i \in 1 .. Len(es) : Meanings(es)[i] = Meaning(es[i]) /\ es[i] \in Entry
<1>1. Len(es) \in Nat /\ DOMAIN es = 1 .. Len(es) /\ \A i \in 1 .. Len(es) : es[i] \in Entry
  BY LenProperties, ElementOfSeq
<1>2. Meanings(es) = [i \in 1 .. Len(es) |-> Meaning(es[i])]
  BY <1>1 DEF Meanings
<1> QED BY <1>1, <1>2

LEMMA AddKeeps ==
  ASSUME BodyInv, NEW t \in Title, NEW pw \in Length, NEW notes \in Length, NEW otp \in BOOLEAN,
         AddEntry(t, pw, notes, otp)
  PROVE  BodyInv'
<1> DEFINE e == NewEntry(t, edits + 1, pw, notes, otp)
           m == Meaning(e)
<1>1. /\ Edit /\ kind = "vault" /\ open
      /\ content' = Append(content, e) /\ meant' = Append(meant, m)
  BY DEF AddEntry, Edit
<1>2. /\ content \in Seq(Entry) /\ meant \in Seq(EntryMeant) /\ meant = Meanings(content)
      /\ edits \in 0 .. MaxEdits
  BY <1>1, ShownIs DEF BodyInv, BodyTypes
<1>3. t \in Nat /\ pw \in Nat /\ notes \in Nat /\ edits + 1 \in Nat
  BY <1>2, LengthAssumption
<1>4. e \in Entry /\ m \in EntryMeant
  BY <1>3, NewEntryIs
<1> HIDE DEF e
<1> DEFINE a == Append(content, e)
           b == Append(meant, m)
           n == Len(content)
<1>5. /\ n \in Nat /\ Len(meant) = n /\ DOMAIN meant = 1 .. n
      /\ \A i \in 1 .. n : meant[i] = Meaning(content[i])
  BY <1>2, MeaningsIs
<1>6. a \in Seq(Entry) /\ Len(a) = n + 1 /\ a[n + 1] = e /\ \A i \in 1 .. n : a[i] = content[i]
  BY <1>2, <1>4, AppendProperties, LenProperties
<1> HIDE DEF m
<1>7. b \in Seq(EntryMeant) /\ Len(b) = n + 1 /\ b[n + 1] = m /\ \A i \in 1 .. n : b[i] = meant[i]
  BY <1>2, <1>4, <1>5, AppendProperties, LenProperties
<1> HIDE DEF a, b, n
<1>8. DOMAIN b = 1 .. n + 1 /\ b = [i \in 1 .. n + 1 |-> b[i]]
  BY <1>7, LenProperties
<1>9. DOMAIN a = 1 .. n + 1 /\ \A i \in 1 .. n + 1 : i \in 1 .. n \/ i = n + 1
  BY <1>5, <1>6, LenProperties
<1>10. \A i \in 1 .. n + 1 : Meaning(a[i]) = b[i]
  BY <1>5, <1>6, <1>7, <1>9 DEF m
<1>11. Meanings(a) = b
  BY <1>8, <1>9, <1>10 DEF Meanings
<1>12. content' \in Kept /\ meant' \in Meants /\ Meanings(content') = meant'
  BY <1>1, <1>6, <1>7, <1>11 DEF Kept, Meants, a, b
<1> QED BY <1>1, <1>12, EditKeeps

LEMMA FirstIs ==
  ASSUME NEW P \in SUBSET Nat, P # {}
  PROVE  First(P) \in P
<1>1. PICK i \in P : \A j \in P : ~(j < i)
  BY LeastOf
<1>2. \A j \in P : i <= j
  BY <1>1
<1> QED BY <1>2 DEF First

\* A field of an entry changes as its meaning does.
LEMMA ChangedIs ==
  ASSUME NEW e \in Entry, Meaning(e) \in EntryMeant, NEW f \in Nat, NEW s \in PlainText
  PROVE  /\ Changed(e, f, Field(f, s)) \in Entry
         /\ Meaning(Changed(e, f, Field(f, s))) = Changed(Meaning(e), f, <<f, s>>)
         /\ Changed(Meaning(e), f, <<f, s>>) \in EntryMeant
<1> DEFINE x == Field(f, s)
           y == <<f, s>>
           m == Meaning(e)
           n == Len(e)
<1>1. x \in FieldType /\ x.tag = f /\ Expose(x) = s /\ y \in Nat \X PlainText
  BY FieldIs
<1>2. /\ n \in Nat /\ DOMAIN e = 1 .. n /\ e \in Seq(FieldType) /\ \A i \in 1 .. n : e[i] \in FieldType
  BY LenProperties, ElementOfSeq DEF Entry
<1>3. m = [i \in 1 .. n |-> <<e[i].tag, Expose(e[i])>>]
  BY <1>2 DEF Meaning
<1>4. /\ m \in Seq(Nat \X PlainText) /\ Len(m) = n /\ DOMAIN m = 1 .. n
      /\ \A i \in 1 .. n : m[i] = <<e[i].tag, Expose(e[i])>> /\ m[i] \in Nat \X PlainText
  BY <1>2, <1>3, LenProperties, ElementOfSeq DEF EntryMeant
<1>5. y = <<x.tag, Expose(x)>>
  BY <1>1
<1> HIDE DEF x, y, m, n
<1>6. ASSUME NEW a \in Seq(FieldType), NEW b \in Seq(Nat \X PlainText), NEW k \in Nat,
             Len(a) = k, Len(b) = k, \A i \in 1 .. k : b[i] = <<a[i].tag, Expose(a[i])>>
      PROVE  Meaning(a) = b
  <2>1. DOMAIN a = 1 .. k /\ DOMAIN b = 1 .. k /\ b = [i \in 1 .. k |-> b[i]]
    BY <1>6, LenProperties
  <2> QED BY <1>6, <2>1 DEF Meaning
<1>7. CASE f \in DOMAIN e
  <2> DEFINE a == [e EXCEPT ![f] = x]
             b == [m EXCEPT ![f] = y]
  <2>1. a \in Seq(FieldType) /\ Len(a) = n /\ \A i \in 1 .. n : a[i] = IF i = f THEN x ELSE e[i]
    BY <1>1, <1>2, <1>7, ExceptSeq, LenProperties
  <2>2. b \in Seq(Nat \X PlainText) /\ Len(b) = n /\ \A i \in 1 .. n : b[i] = IF i = f THEN y ELSE m[i]
    BY <1>1, <1>2, <1>4, <1>7, ExceptSeq, LenProperties
  <2>3. Changed(e, f, x) = a /\ Changed(m, f, y) = b
    BY <1>2, <1>4, <1>7 DEF Changed
  <2> HIDE DEF a, b
  <2>4. \A i \in 1 .. n : b[i] = <<a[i].tag, Expose(a[i])>>
    BY <1>4, <1>5, <2>1, <2>2
  <2>5. Meaning(a) = b
    BY <1>2, <1>6, <2>1, <2>2, <2>4
  <2> QED BY <2>1, <2>2, <2>3, <2>5 DEF x, y, m, Entry, EntryMeant
<1>8. CASE f \notin DOMAIN e
  <2> DEFINE a == Append(e, x)
             b == Append(m, y)
  <2>1. a \in Seq(FieldType) /\ Len(a) = n + 1 /\ a[n + 1] = x /\ \A i \in 1 .. n : a[i] = e[i]
    BY <1>1, <1>2, AppendProperties, LenProperties DEF n
  <2>2. b \in Seq(Nat \X PlainText) /\ Len(b) = n + 1 /\ b[n + 1] = y /\ \A i \in 1 .. n : b[i] = m[i]
    BY <1>1, <1>2, <1>4, AppendProperties, LenProperties
  <2>3. Changed(e, f, x) = a /\ Changed(m, f, y) = b
    BY <1>2, <1>4, <1>8 DEF Changed
  <2> HIDE DEF a, b
  <2>4. \A i \in 1 .. n + 1 : i \in 1 .. n \/ i = n + 1
    BY <1>2
  <2>5. \A i \in 1 .. n + 1 : b[i] = <<a[i].tag, Expose(a[i])>>
    BY <1>4, <1>5, <2>1, <2>2, <2>4
  <2>6. n + 1 \in Nat
    BY <1>2
  <2>7. Meaning(a) = b
    BY <1>6, <2>1, <2>2, <2>5, <2>6
  <2> QED BY <2>1, <2>2, <2>3, <2>7 DEF x, y, m, Entry, EntryMeant
<1> QED BY <1>7, <1>8

LEMMA ChangeKeeps ==
  ASSUME BodyInv, NEW t \in Title, NEW f \in PASSWORD .. OTP, NEW l \in Length, ChangeEntry(t, f, l)
  PROVE  BodyInv'
<1> DEFINE i == First(Titled(t))
           s == Bytes(edits + 1, l)
           n == Len(content)
<1>1. /\ Edit /\ kind = "vault" /\ open /\ Titled(t) # {}
      /\ content' = [content EXCEPT ![i] = Changed(content[i], f, Field(f, s))]
      /\ meant' = [meant EXCEPT ![i] = Changed(meant[i], f, <<f, s>>)]
  BY DEF ChangeEntry, Edit
<1>2. /\ content \in Seq(Entry) /\ meant \in Seq(EntryMeant) /\ meant = Meanings(content)
      /\ edits \in 0 .. MaxEdits
  BY <1>1, ShownIs DEF BodyInv, BodyTypes
<1>3. f \in Nat /\ s \in PlainText
  <2>1. edits + 1 \in Int /\ l \in Nat
    BY <1>2, LengthAssumption
  <2>2. f \in Nat
    BY DEF PASSWORD, OTP
  <2> QED BY <2>1, <2>2, PlainIs
<1>4. /\ n \in Nat /\ DOMAIN content = 1 .. n /\ Len(meant) = n /\ DOMAIN meant = 1 .. n
      /\ \A x \in 1 .. n : meant[x] = Meaning(content[x]) /\ content[x] \in Entry /\ meant[x] \in EntryMeant
  BY <1>2, MeaningsIs, ElementOfSeq
<1>5. i \in 1 .. n
  <2>1. Titled(t) \in SUBSET Nat /\ Titled(t) \subseteq 1 .. n
    BY <1>4 DEF Titled
  <2> QED BY <1>1, <2>1, FirstIs
<1> HIDE DEF i, s, n
<1> DEFINE e == content[i]
           x == Changed(e, f, Field(f, s))
           y == Changed(meant[i], f, <<f, s>>)
<1>6. x \in Entry /\ Meaning(x) = y /\ y \in EntryMeant
  <2>1. e \in Entry /\ Meaning(e) \in EntryMeant /\ meant[i] = Meaning(e)
    BY <1>4, <1>5
  <2> HIDE DEF e
  <2> QED BY <1>3, <2>1, ChangedIs
<1> DEFINE a == [content EXCEPT ![i] = x]
           b == [meant EXCEPT ![i] = y]
<1> HIDE DEF x, y
<1>7. a \in Seq(Entry) /\ Len(a) = n /\ \A k \in 1 .. n : a[k] = IF k = i THEN x ELSE content[k]
  BY <1>2, <1>4, <1>5, <1>6, ExceptSeq, LenProperties DEF n
<1>8. b \in Seq(EntryMeant) /\ Len(b) = n /\ \A k \in 1 .. n : b[k] = IF k = i THEN y ELSE meant[k]
  BY <1>2, <1>4, <1>5, <1>6, ExceptSeq, LenProperties
<1>9. content' = a /\ meant' = b
  BY <1>1 DEF x, y, i, s
<1> HIDE DEF a, b
<1>10. Meanings(a) = b
  <2>1. DOMAIN a = 1 .. n /\ DOMAIN b = 1 .. n /\ b = [k \in 1 .. n |-> b[k]]
    BY <1>4, <1>7, <1>8, LenProperties
  <2>2. \A k \in 1 .. n : Meaning(a[k]) = b[k]
    BY <1>4, <1>6, <1>7, <1>8
  <2> QED BY <2>1, <2>2 DEF Meanings
<1>11. content' \in Kept /\ meant' \in Meants /\ Meanings(content') = meant'
  BY <1>1, <1>7, <1>8, <1>9, <1>10 DEF Kept, Meants
<1> QED BY <1>1, <1>11, EditKeeps

Picked(s, P) == [i \in DOMAIN s |-> IF i \in P THEN <<s[i]>> ELSE << >>]

LEMMA ThoseType ==
  ASSUME NEW S, NEW s \in Seq(S), NEW P
  PROVE  /\ Picked(s, P) \in Seq(Seq(S)) /\ Len(Picked(s, P)) = Len(s) /\ Len(s) \in Nat
         /\ \A i \in 1 .. Len(s) : Picked(s, P)[i] = IF i \in P THEN <<s[i]>> ELSE << >>
         /\ Those(s, P) = FlattenSeq(Picked(s, P)) /\ Those(s, P) \in Seq(S)
<1>1. Len(s) \in Nat /\ DOMAIN s = 1 .. Len(s) /\ \A i \in 1 .. Len(s) : s[i] \in S
  BY LenProperties, ElementOfSeq
<1>2. Picked(s, P) = [i \in 1 .. Len(s) |-> IF i \in P THEN <<s[i]>> ELSE << >>]
  BY <1>1 DEF Picked
<1>3. \A i \in 1 .. Len(s) : (IF i \in P THEN <<s[i]>> ELSE << >>) \in Seq(S)
  BY <1>1
<1>4. Picked(s, P) \in Seq(Seq(S)) /\ Len(Picked(s, P)) = Len(s)
  BY <1>1, <1>2, <1>3
<1>5. Those(s, P) = FlattenSeq(Picked(s, P))
  BY DEF Those, Picked
<1>6. Those(s, P) \in Seq(S)
  BY <1>4, <1>5, FlattenType
<1> QED BY <1>1, <1>2, <1>4, <1>5, <1>6

LEMMA MeaningsConcat ==
  ASSUME NEW a \in Seq(Entry), NEW b \in Seq(Entry)
  PROVE  Meanings(a \o b) = Meanings(a) \o Meanings(b)
<1> DEFINE s == a \o b
           u == Meanings(a)
           v == Meanings(b)
           w == u \o v
           T == {Meaning(e) : e \in Entry}
<1>1. s = a \o b
  OBVIOUS
<1> HIDE DEF s
<1>2. /\ s \in Seq(Entry) /\ Len(a) \in Nat /\ Len(b) \in Nat /\ Len(s) = Len(a) + Len(b)
      /\ \A x \in 1 .. Len(a) : s[x] = a[x]
      /\ \A x \in 1 .. Len(b) : s[Len(a) + x] = b[x]
  BY <1>1, Behind
<1>3. /\ \A x \in 1 .. Len(a) : u[x] = Meaning(a[x]) /\ a[x] \in Entry
      /\ \A x \in 1 .. Len(b) : v[x] = Meaning(b[x]) /\ b[x] \in Entry
      /\ u = [x \in 1 .. Len(a) |-> Meaning(a[x])] /\ v = [x \in 1 .. Len(b) |-> Meaning(b[x])]
  BY MeaningsIs DEF Meanings
<1>4. u \in Seq(T) /\ v \in Seq(T) /\ Len(u) = Len(a) /\ Len(v) = Len(b)
  BY <1>2, <1>3
<1>5. w = u \o v
  OBVIOUS
<1> HIDE DEF u, v, w, T
<1>6. /\ w \in Seq(T) /\ Len(u) \in Nat /\ Len(v) \in Nat /\ Len(w) = Len(u) + Len(v)
      /\ \A x \in 1 .. Len(u) : w[x] = u[x]
      /\ \A x \in 1 .. Len(v) : w[Len(u) + x] = v[x]
  <2>1. u \in Seq(T) /\ v \in Seq(T) /\ w = u \o v
    BY <1>4, <1>5
  <2> QED BY <2>1, Behind
<1>7. /\ Len(s) \in Nat /\ DOMAIN s = 1 .. Len(s)
  BY <1>2, LenProperties
<1>8. ASSUME NEW x \in 1 .. Len(s) PROVE Meaning(s[x]) = w[x]
  <2>1. CASE x <= Len(a)
    <3>1. x \in 1 .. Len(a)
      BY <1>2, <2>1
    <3> QED BY <1>2, <1>3, <1>4, <1>6, <3>1
  <2>2. CASE ~(x <= Len(a))
    <3>1. x - Len(a) \in 1 .. Len(b) /\ Len(a) + (x - Len(a)) = x
      BY <1>2, <2>2
    <3>2. s[Len(a) + (x - Len(a))] = b[x - Len(a)] /\ w[Len(a) + (x - Len(a))] = v[x - Len(a)]
      BY <1>2, <1>4, <1>6, <3>1
    <3> QED BY <1>3, <3>1, <3>2
  <2> QED BY <2>1, <2>2
<1>9. DOMAIN w = 1 .. Len(s) /\ w = [x \in 1 .. Len(s) |-> w[x]]
  BY <1>2, <1>4, <1>6, LenProperties
<1>10. Meanings(s) = w
  BY <1>7, <1>8, <1>9 DEF Meanings
<1> QED BY <1>10 DEF s, u, v, w

\* What stays means what it meant.
LEMMA ThoseMean ==
  ASSUME NEW es \in Seq(Entry), NEW ms \in Seq(EntryMeant), ms = Meanings(es), NEW P
  PROVE  Meanings(Those(es, P)) = Those(ms, P)
<1> DEFINE A == Picked(es, P)
           B == Picked(ms, P)
           n == Len(es)
           G == {i \in 0 .. n : Meanings(Join(A, i)) = Join(B, i)}
<1>1. /\ A \in Seq(Seq(Entry)) /\ Len(A) = n /\ n \in Nat
      /\ \A i \in 1 .. n : A[i] = IF i \in P THEN <<es[i]>> ELSE << >>
      /\ Those(es, P) = FlattenSeq(A)
  BY ThoseType
<1>2. n = Len(ms) /\ \A i \in 1 .. n : ms[i] = Meaning(es[i]) /\ es[i] \in Entry
  BY MeaningsIs
<1>3. /\ B \in Seq(Seq(EntryMeant)) /\ Len(B) = n
      /\ \A i \in 1 .. n : B[i] = IF i \in P THEN <<ms[i]>> ELSE << >>
      /\ Those(ms, P) = FlattenSeq(B)
  BY <1>2, ThoseType
<1> HIDE DEF A, B, n
<1>4. /\ Join(A, 0) = << >> /\ Join(A, n) = FlattenSeq(A)
      /\ \A i \in 1 .. n : Join(A, i) = Join(A, i - 1) \o A[i]
      /\ \A i \in 0 .. n : Join(A, i) \in Seq(Entry)
  BY <1>1, JoinIs
<1>5. /\ Join(B, 0) = << >> /\ Join(B, n) = FlattenSeq(B)
      /\ \A i \in 1 .. n : Join(B, i) = Join(B, i - 1) \o B[i]
  BY <1>3, JoinIs
<1>6. Meanings(<< >>) = << >>
  BY DEF Meanings
<1>7. 0 \in G
  BY <1>1, <1>4, <1>5, <1>6
<1>8. ASSUME NEW i \in 0 .. n, i \in G, i + 1 <= n PROVE i + 1 \in G
  <2> DEFINE h == i + 1
  <2>1. h \in 1 .. n /\ h - 1 = i /\ h \in 0 .. n
    BY <1>1, <1>8
  <2> HIDE DEF h
  <2>2. Meanings(A[h]) = B[h] /\ A[h] \in Seq(Entry)
    <3>1. CASE h \in P
      <4>1. es[h] \in Entry /\ A[h] = <<es[h]>> /\ B[h] = <<Meaning(es[h])>>
        BY <1>1, <1>2, <1>3, <2>1, <3>1
      <4>2. \A e \in Entry : <<e>> \in Seq(Entry) /\ Meanings(<<e>>) = <<Meaning(e)>>
        <5>1. ASSUME NEW e \in Entry PROVE <<e>> \in Seq(Entry) /\ Meanings(<<e>>) = <<Meaning(e)>>
          <6> HIDE DEF G
          <6>1. DOMAIN <<e>> = 1 .. 1 /\ <<e>>[1] = e /\ \A k \in 1 .. 1 : k = 1
            OBVIOUS
          <6>2. Meanings(<<e>>) = [k \in 1 .. 1 |-> Meaning(e)]
            BY <6>1 DEF Meanings
          <6> QED BY <6>2
        <5> QED BY <5>1
      <4> QED BY <4>1, <4>2
    <3>2. CASE h \notin P
      BY <1>1, <1>3, <1>6, <2>1, <3>2
    <3> QED BY <3>1, <3>2
  <2>3. Meanings(Join(A, i) \o A[h]) = Meanings(Join(A, i)) \o Meanings(A[h])
    BY <1>4, <2>2, MeaningsConcat
  <2>4. Join(A, h) = Join(A, i) \o A[h] /\ Join(B, h) = Join(B, i) \o B[h]
    BY <1>4, <1>5, <2>1
  <2>5. Meanings(Join(A, h)) = Join(B, h)
    BY <1>8, <2>2, <2>3, <2>4
  <2> QED BY <2>1, <2>5 DEF h
<1> HIDE DEF G
<1>9. \A i \in 0 .. n : i \in G
  BY <1>1, <1>7, <1>8, StepByStep
<1>10. n \in G
  BY <1>1, <1>9
<1> QED BY <1>1, <1>3, <1>4, <1>5, <1>10 DEF G

LEMMA RemoveKeeps == ASSUME BodyInv, NEW t \in Title, RemoveEntry(t) PROVE BodyInv'
<1> DEFINE P == DOMAIN content \ Titled(t)
           a == Those(content, P)
           b == Those(meant, P)
<1>1. Edit /\ kind = "vault" /\ open /\ content' = a /\ meant' = b
  BY DEF RemoveEntry, Edit
<1>2. content \in Seq(Entry) /\ meant \in Seq(EntryMeant) /\ meant = Meanings(content)
  BY <1>1, ShownIs
<1>3. a \in Seq(Entry) /\ b \in Seq(EntryMeant) /\ Meanings(a) = b
  <2> HIDE DEF P
  <2>1. a \in Seq(Entry)
    BY <1>2, ThoseType
  <2>2. b \in Seq(EntryMeant)
    BY <1>2, ThoseType
  <2>3. Meanings(a) = b
    BY <1>2, ThoseMean
  <2> QED BY <2>1, <2>2, <2>3
<1>4. content' \in Kept /\ meant' \in Meants /\ Meanings(content') = meant'
  BY <1>1, <1>3 DEF Kept, Meants
<1> QED BY <1>1, <1>4, EditKeeps

LEMMA PutKeeps == ASSUME BodyInv, NEW t \in Title, NEW l \in Length, PutFile(t, l) PROVE BodyInv'
<1> DEFINE f == [path |-> t, body |-> Bytes(edits + 1, l)]
           P == {i \in DOMAIN content : content[i].path < t}
           Q == {i \in DOMAIN content : content[i].path > t}
           x == Those(content, P)
           y == Those(content, Q)
           a == x \o <<f>> \o y
<1>1. Edit /\ kind = "sealed" /\ open
  BY DEF PutFile, Edit
<1>2. content \in Seq(File) /\ meant = content /\ edits \in 0 .. MaxEdits
  BY <1>1, ShownIs DEF BodyInv, BodyTypes
<1>3. content' = a /\ meant' = a
  BY <1>2 DEF PutFile
<1>4. f \in File
  <2>1. edits + 1 \in Int /\ l \in Nat /\ t \in Nat
    BY <1>2, LengthAssumption
  <2>2. Bytes(edits + 1, l) \in PlainText
    BY <2>1, PlainIs
  <2> QED BY <2>1, <2>2 DEF File
<1> HIDE DEF f, P, Q
<1>5. x \in Seq(File) /\ y \in Seq(File)
  BY <1>2, ThoseType
<1> HIDE DEF x, y
<1>6. a \in Seq(File)
  <2>1. <<f>> \in Seq(File)
    BY <1>4
  <2>2. x \o <<f>> \in Seq(File)
    BY <1>5, <2>1, ConcatProperties
  <2> QED BY <1>5, <2>2, ConcatProperties
<1> HIDE DEF a
<1>7. content' \in Kept /\ meant' \in Meants /\ content' = meant'
  BY <1>1, <1>3, <1>6 DEF Kept, Meants
<1> QED BY <1>1, <1>7, EditKeeps

(***************************************************************************)
(* What a program that has the file open shows is what the user meant.     *)
(***************************************************************************)

LEMMA BodyInvStutters == ASSUME BodyInv, UNCHANGED bodyVars PROVE BodyInv'
<1>1. /\ kind' = kind /\ open' = open /\ content' = content /\ chunks' = chunks /\ version' = version
      /\ edits' = edits /\ meant' = meant /\ saved' = saved /\ rd' = rd
  BY DEF bodyVars
<1>2. open \in BOOLEAN /\ edits \in 0 .. MaxEdits /\ meant \in Meants /\ rd \in RdType /\ ReadsOf(rd)
  BY DEF BodyInv, BodyTypes, Reads
<1>3. CASE ~open
  <2>1. Step(rd)
    BY <1>1 DEF Step
  <2> QED BY <1>2, <1>3, <2>1, StepKeeps
<1>4. CASE open
  <2>1. rd = Unread /\ content \in Kept /\ View = meant
    BY <1>4 DEF BodyInv, Shown
  <2>2. View' = View
    BY <1>1 DEF View, Meaning, Expose, Keystream, Xor, Garbage, Byte
  <2> QED BY <1>1, <1>2, <1>4, <2>1, <2>2, DiskKeeps
<1> QED BY <1>2, <1>3, <1>4

LEMMA BodyInvNext == BodyInv /\ [BodyNext]_bodyVars => BodyInv'
<1> SUFFICES ASSUME BodyInv, [BodyNext]_bodyVars PROVE BodyInv'
  OBVIOUS
<1>1. CASE \E t \in Title, pw, notes \in Length, otp \in BOOLEAN : AddEntry(t, pw, notes, otp)
  BY <1>1, AddKeeps
<1>2. CASE \E t \in Title, f \in PASSWORD .. OTP, l \in Length : ChangeEntry(t, f, l)
  BY <1>2, ChangeKeeps
<1>3. CASE \E t \in Title : RemoveEntry(t)
  BY <1>3, RemoveKeeps
<1>4. CASE \E t \in Title, l \in Length : PutFile(t, l)
  BY <1>4, PutKeeps
<1>5. CASE \E pad \in Padding : SaveBody(pad)
  BY <1>5, SaveKeeps
<1>6. CASE CloseBody
  BY <1>6, CloseKeeps
<1>7. CASE \E way \in {"vault", "list", "extract"} : OpenBody(way)
  BY <1>7, OpenKeeps
<1>8. CASE NextChunk
  BY <1>8, NextChunkKeeps
<1>9. CASE Wait
  BY <1>9, WaitKeeps
<1>10. CASE Refuse
  BY <1>10, RefuseKeeps
<1>11. CASE ReadKey
  BY <1>11, ReadKeyKeeps
<1>12. CASE ReadEntry
  BY <1>12, ReadEntryKeeps
<1>13. CASE ReadEnd
  BY <1>13, ReadEndKeeps
<1>14. CASE ReadHeader
  BY <1>14, ReadHeaderKeeps
<1>15. CASE ReadPart
  BY <1>15, ReadPartKeeps
<1>16. CASE ReadFileEnd
  BY <1>16, ReadFileEndKeeps
<1>17. CASE FinishReading
  BY <1>17, FinishKeeps
<1>18. CASE UNCHANGED bodyVars
  BY <1>18, BodyInvStutters
<1> QED BY <1>1, <1>2, <1>3, <1>4, <1>5, <1>6, <1>7, <1>8, <1>9, <1>10, <1>11, <1>12, <1>13, <1>14, <1>15,
           <1>16, <1>17, <1>18 DEF BodyNext

THEOREM BodyInvariant == BodySpec => []BodyInv
<1>1. BodyInit => BodyInv
  BY InitKeeps
<1>2. BodyInv /\ [BodyNext]_bodyVars => BodyInv'
  BY BodyInvNext
<1> QED BY <1>1, <1>2, PTL DEF BodySpec

LEMMA RawIsText == ASSUME NEW s \in Raw PROVE IsText(s)
<1>1. DOMAIN s = 1 .. Len(s) /\ \A i \in 1 .. Len(s) : s[i] \in Bits
  BY LenProperties, ElementOfSeq DEF Raw
<1> QED BY <1>1 DEF IsText, IsByte, Bits

LEMMA GotIs ==
  ASSUME BodyInv, rd.phase # "idle", NEW got,
         got = [i \in DOMAIN rd.got |-> IF kind = "vault" THEN Meaning(rd.got[i]) ELSE rd.got[i]]
  PROVE  IsPrefix(got, saved) /\ (rd.phase = "done" => got = saved)
<1> DEFINE n == Len(rd.got)
           M(i) == IF kind = "vault" THEN Meaning(rd.got[i]) ELSE rd.got[i]
<1>1. /\ n <= Len(saved) /\ \A i \in 1 .. n : M(i) = saved[i]
      /\ rd.phase = "done" => n = Len(saved)
  BY DEF BodyInv, Reads, ReadsOf, Gathered
<1>2. \E S : rd.got \in Seq(S)
  <2>1. rd.got \in Kept
    BY DEF BodyInv, BodyTypes, RdType
  <2> QED BY <2>1 DEF Kept
<1>3. n \in Nat /\ DOMAIN rd.got = 1 .. n
  BY <1>2, LenProperties
<1>4. PICK T : saved \in Seq(T)
  BY DEF BodyInv, BodyTypes, Meants
<1>5. Len(saved) \in Nat /\ DOMAIN saved = 1 .. Len(saved)
  BY <1>4, LenProperties
<1>6. got = [i \in 1 .. n |-> saved[i]]
  BY <1>1, <1>3
<1>7. n \in 0 .. Len(saved)
  <2>1. n \in Nat /\ Len(saved) \in Nat /\ n <= Len(saved)
    BY <1>1, <1>3, <1>5
  <2> HIDE DEF n
  <2> QED BY <2>1
<1> HIDE DEF n, M
<1>8. \A i \in 1 .. n : saved[i] \in T
  <2>1. \A i \in 1 .. n : i \in 1 .. Len(saved)
    BY <1>5, <1>7
  <2> QED BY <1>4, <2>1, ElementOfSeq
<1>9. got \in Seq(T) /\ Len(got) = n
  BY <1>3, <1>6, <1>8
<1>10. SubSeq(got, 1, n) = got
  BY <1>9, SubSeqFull
<1>11. SubSeq(saved, 1, n) = [x \in 1 .. n |-> saved[x]]
  BY <1>4, <1>7, FrontIs
<1>12. IsPrefix(got, saved)
  BY <1>6, <1>7, <1>9, <1>10, <1>11, <1>1, <1>5 DEF IsPrefix, n
<1>13. ASSUME rd.phase = "done" PROVE got = saved
  <2>1. n = Len(saved)
    BY <1>1, <1>13 DEF n
  <2> QED BY <1>5, <1>6, <2>1, <1>4
<1> QED BY <1>12, <1>13

LEMMA InvImpliesReads == BodyInv => ReadsWhatWasMeant
<1> SUFFICES ASSUME BodyInv PROVE ReadsWhatWasMeant
  OBVIOUS
<1>1. /\ kind \in {"vault", "sealed"} /\ open \in BOOLEAN /\ version \in 0 .. MaxSaves /\ edits \in 0 .. MaxEdits
      /\ rd \in RdType
  BY DEF BodyInv, BodyTypes
<1>2. ASSUME NEW i \in DOMAIN chunks PROVE IsText(chunks[i].bytes) /\ Len(chunks[i].bytes) <= ChunkLen
  <2>1. chunks # << >>
    BY <1>2
  <2>2. Cuts(chunks, Whole) /\ \A j \in 1 .. Len(chunks) : Len(chunks[j].bytes) <= ChunkLen
    BY <1>1, <2>1, GivenIs DEF BodyInv
  <2>3. DOMAIN chunks = 1 .. Len(chunks) /\ chunks[i].bytes \in Raw
    BY <1>2, <2>2 DEF Cuts
  <2> QED BY <1>2, <2>2, <2>3, RawIsText
<1>3. /\ rd.phase \in {"idle", "chunk", "record", "done", "failed"} /\ rd.way \in {"vault", "list", "extract"}
      /\ rd.pending \in Raw /\ rd.key \in 0 .. version /\ rd.at \in Nat
  BY <1>1 DEF RdType
<1>4. (open => rd = Unread) /\ (open => View = meant)
  BY DEF BodyInv, Shown
<1>5. BodyTypeOK
  BY <1>1, <1>2, <1>3, <1>4, RawIsText DEF BodyTypeOK
<1> QED BY <1>4, <1>5, GotIs DEF ReadsWhatWasMeant

\* What a program that has the file open shows is what the user put there, and
\* what a reader has gathered is the beginning of what was saved, for every
\* length of chunks, parts and padding and every number of edits and saves.
THEOREM WhatWasMeantIsRead == BodySpec => []ReadsWhatWasMeant
BY BodyInvariant, InvImpliesReads, PTL

(***************************************************************************)
(* The keystream.                                                          *)
(***************************************************************************)

\* In s only bytes at lo .. hi - 1 of the keystream of k serve, each later than
\* the ones before it.
Serves(s, k, lo, hi) ==
  /\ \A x \in 1 .. Len(s) : s[x][2] = 0 \/ (s[x][2] = k /\ lo <= s[x][3] /\ s[x][3] < hi)
  /\ \A x, y \in 1 .. Len(s) : x < y /\ s[x][2] # 0 /\ s[y][2] # 0 => s[x][3] < s[y][3]

LEMMA PlainServes ==
  ASSUME NEW s \in PlainText, NEW k, NEW p \in Nat
  PROVE  Serves(s, k, p, p)
<1>1. \A i \in 1 .. Len(s) : s[i] \in Plain
  BY LenProperties, ElementOfSeq DEF PlainText
<1> QED BY <1>1 DEF Serves, Plain

LEMMA ServesConcat ==
  ASSUME NEW k, NEW lo \in Nat, NEW mid \in Nat, NEW hi \in Nat, lo <= mid, mid <= hi,
         NEW a \in Raw, Serves(a, k, lo, mid), NEW b \in Raw, Serves(b, k, mid, hi),
         NEW s, s = a \o b
  PROVE  Serves(s, k, lo, hi)
<1> DEFINE n == Len(a)
<1>1. /\ s \in Raw /\ n \in Nat /\ Len(b) \in Nat /\ Len(s) = n + Len(b)
      /\ \A x \in 1 .. n : s[x] = a[x]
      /\ \A x \in 1 .. Len(b) : s[n + x] = b[x]
  BY Behind DEF Raw
<1> HIDE DEF n
<1>2. /\ \A x \in 1 .. n : s[x][3] \in Nat
      /\ \A x \in 1 .. Len(s) : s[x][3] \in Nat
  <2>1. \A x \in 1 .. Len(s) : s[x] \in Bits
    BY <1>1, ElementOfSeq DEF Raw
  <2>2. \A x \in 1 .. n : x \in 1 .. Len(s)
    BY <1>1
  <2> QED BY <2>1, <2>2 DEF Bits
<1>3. ASSUME NEW x \in 1 .. Len(s)
      PROVE  \/ x \in 1 .. n /\ s[x] = a[x]
             \/ x > n /\ x - n \in 1 .. Len(b) /\ s[x] = b[x - n]
  <2>1. CASE x <= n
    <3>1. x \in 1 .. n
      BY <1>1, <2>1
    <3> QED BY <1>1, <3>1
  <2>2. CASE ~(x <= n)
    <3>1. x > n /\ x - n \in 1 .. Len(b) /\ n + (x - n) = x
      BY <1>1, <2>2
    <3> QED BY <1>1, <3>1
  <2> QED BY <2>1, <2>2
<1>4. /\ \A x \in 1 .. n : a[x][2] = 0 \/ (a[x][2] = k /\ lo <= a[x][3] /\ a[x][3] < mid)
      /\ \A x, y \in 1 .. n : x < y /\ a[x][2] # 0 /\ a[y][2] # 0 => a[x][3] < a[y][3]
      /\ \A x \in 1 .. Len(b) : b[x][2] = 0 \/ (b[x][2] = k /\ mid <= b[x][3] /\ b[x][3] < hi)
      /\ \A x, y \in 1 .. Len(b) : x < y /\ b[x][2] # 0 /\ b[y][2] # 0 => b[x][3] < b[y][3]
  BY DEF Serves, n
<1>5. ASSUME NEW x \in 1 .. Len(s)
      PROVE  s[x][2] = 0 \/ (s[x][2] = k /\ lo <= s[x][3] /\ s[x][3] < hi)
  <2>1. s[x][3] \in Nat
    BY <1>2
  <2>2. CASE x \in 1 .. n /\ s[x] = a[x]
    BY <1>4, <2>1, <2>2
  <2>3. CASE x > n /\ x - n \in 1 .. Len(b) /\ s[x] = b[x - n]
    BY <1>4, <2>1, <2>3, SMTT(30)
  <2> QED BY <1>3, <2>2, <2>3
<1>6. ASSUME NEW x \in 1 .. Len(s), NEW y \in 1 .. Len(s), x < y, s[x][2] # 0, s[y][2] # 0
      PROVE  s[x][3] < s[y][3]
  <2>1. s[x][3] \in Nat /\ s[y][3] \in Nat /\ x \in Nat /\ y \in Nat
    BY <1>1, <1>2, SMTT(30)
  <2>2. CASE y \in 1 .. n /\ s[y] = a[y]
    <3>1. x \in 1 .. n
      BY <1>1, <1>6, <2>2
    <3>2. s[x] = a[x]
      BY <1>1, <3>1
    <3> QED BY <1>4, <1>6, <2>2, <3>1, <3>2
  <2>3. CASE y > n /\ y - n \in 1 .. Len(b) /\ s[y] = b[y - n]
    <3>1. CASE x \in 1 .. n /\ s[x] = a[x]
      <4>1. s[x][3] < mid /\ mid <= s[y][3]
        BY <1>4, <1>6, <2>3, <3>1
      <4> QED BY <2>1, <4>1, SMTT(30)
    <3>2. CASE x > n /\ x - n \in 1 .. Len(b) /\ s[x] = b[x - n]
      <4>1. x - n < y - n
        BY <1>1, <1>6, <2>1
      <4> QED BY <1>4, <1>6, <2>3, <3>2, <4>1
    <3> QED BY <1>3, <3>1, <3>2
  <2> QED BY <1>3, <2>2, <2>3
<1> QED BY <1>5, <1>6 DEF Serves

LEMMA ServesJoined ==
  ASSUME NEW k, NEW ss \in Seq(Raw), NEW f, \A i \in 0 .. Len(ss) : f[i] \in Nat,
         \A i \in 1 .. Len(ss) : f[i - 1] <= f[i] /\ Serves(ss[i], k, f[i - 1], f[i])
  PROVE  Serves(FlattenSeq(ss), k, f[0], f[Len(ss)])
<1> DEFINE n == Len(ss)
           P(i) == f[0] <= f[i] /\ Serves(Join(ss, i), k, f[0], f[i])
           G == {i \in 0 .. n : P(i)}
<1>1. /\ ss \in Seq(Seq(Bits)) /\ n \in Nat /\ \A i \in 1 .. n : ss[i] \in Raw
  BY LenProperties, ElementOfSeq DEF Raw
<1>2. /\ Join(ss, 0) = << >> /\ Join(ss, n) = FlattenSeq(ss)
      /\ \A i \in 1 .. n : Join(ss, i) = Join(ss, i - 1) \o ss[i]
      /\ \A i \in 0 .. n : Join(ss, i) \in Raw
  BY <1>1, JoinIs DEF Raw
<1>3. f[0] \in Nat /\ \A i \in 0 .. n : f[i] \in Nat
  BY <1>1
<1> HIDE DEF n
<1>4. 0 \in G
  <2>1. Serves(<< >>, k, f[0], f[0])
    BY DEF Serves
  <2> QED BY <1>1, <1>2, <1>3, <2>1
<1>5. ASSUME NEW i \in 0 .. n, i \in G, i + 1 <= n PROVE i + 1 \in G
  <2> DEFINE h == i + 1
  <2>1. h \in 1 .. n /\ h - 1 = i /\ h \in 0 .. n
    BY <1>1, <1>5
  <2> HIDE DEF h
  <2>2. f[i] \in Nat /\ f[h] \in Nat /\ f[i] <= f[h] /\ Serves(ss[h], k, f[i], f[h])
    BY <1>3, <2>1 DEF n
  <2>3. f[0] <= f[i] /\ Serves(Join(ss, i), k, f[0], f[i])
    BY <1>5
  <2> DEFINE a == Join(ss, i)
             b == ss[h]
             s == Join(ss, h)
             lo == f[0]
             mid == f[i]
             hi == f[h]
  <2>4. a \in Raw /\ b \in Raw /\ s = a \o b
    BY <1>1, <1>2, <2>1
  <2>5. lo \in Nat /\ mid \in Nat /\ hi \in Nat /\ lo <= mid /\ mid <= hi
    BY <1>3, <2>2, <2>3
  <2>6. Serves(a, k, lo, mid) /\ Serves(b, k, mid, hi)
    BY <2>2, <2>3
  <2> HIDE DEF a, b, s, lo, mid, hi
  <2>7. Serves(s, k, lo, hi)
    BY <2>4, <2>5, <2>6, ServesConcat
  <2>8. lo <= hi
    BY <2>5
  <2> QED BY <2>1, <2>7, <2>8 DEF h, s, lo, hi
<1> HIDE DEF G
<1>6. \A i \in 0 .. n : i \in G
  BY <1>1, <1>4, <1>5, StepByStep
<1>7. n \in G
  BY <1>1, <1>6
<1> QED BY <1>2, <1>7 DEF G, n

LEMMA RecordServes ==
  ASSUME NEW k, NEW lo \in Nat, NEW hi \in Nat, lo <= hi, NEW tag \in Nat, NEW t \in Raw, Serves(t, k, lo, hi)
  PROVE  Serves(Record(tag, t), k, lo, hi)
<1> DEFINE a == <<Byte(tag), Byte(Len(t))>>
           s == Record(tag, t)
<1>1. Len(t) \in Int
  BY LenProperties DEF Raw
<1>2. a \in PlainText /\ a \in Raw
  <2>1. Byte(tag) \in Plain /\ Byte(Len(t)) \in Plain
    BY <1>1, PlainIs
  <2>2. a \in PlainText
    BY <2>1 DEF PlainText
  <2> QED BY <2>2, PlainIs
<1>3. s = a \o t
  BY DEF Record
<1> HIDE DEF a, s
<1>4. Serves(a, k, lo, lo) /\ lo <= lo
  BY <1>2, PlainServes
<1>5. Serves(s, k, lo, hi)
  BY <1>2, <1>3, <1>4, ServesConcat
<1> QED BY <1>5 DEF s

LEMMA KeystreamServes ==
  ASSUME NEW t \in PlainText, NEW k \in 1 .. MaxSaves, NEW p \in Nat
  PROVE  Serves(Keystream(t, k, p), k, p, p + Len(t))
<1> DEFINE c == Keystream(t, k, p)
<1>1. Len(c) = Len(t) /\ Len(t) \in Nat /\ \A i \in 1 .. Len(t) : c[i] = <<t[i][1], k, p + i - 1>>
  BY KeystreamTwice
<1> HIDE DEF c
<1>2. \A i \in 1 .. Len(t) : c[i][2] = k /\ c[i][3] = p + i - 1
  BY <1>1
<1>3. Serves(c, k, p, p + Len(t))
  BY <1>1, <1>2, SMTT(30) DEF Serves
<1> QED BY <1>3 DEF c

\* The secrets of an entry use the keystream from p on, one behind another.
LEMMA EntryServes ==
  ASSUME NEW m \in EntryMeant, NEW k \in 1 .. MaxSaves, NEW p \in Nat,
         NEW c, c = Enciphered(m, k, p)
  PROVE  Serves(Written(c), k, p, p + Len(Secrets(m)))
<1> DEFINE n == Len(m)
           ss == SecretTexts(m)
           rs == Records(c)
           f == [i \in 0 .. n |-> p + Len(Join(ss, i))]
<1>1. /\ m \in Seq(Nat \X Raw) /\ n \in Nat
      /\ \A i \in 1 .. n : m[i][1] \in Nat /\ m[i][2] \in PlainText
  BY EntryType
<1>2. /\ c \in Seq(Nat \X Raw) /\ Len(c) = n
      /\ \A i \in 1 .. n :
              c[i][2] = IF m[i][1] \in Protected THEN Keystream(m[i][2], k, p + FieldAt(m, i))
                        ELSE m[i][2]
  <2>1. /\ c \in Seq(Nat \X Raw) /\ Len(c) = Len(m) /\ DOMAIN c = 1 .. Len(m)
        /\ \A i \in 1 .. Len(m) :
              /\ c[i][1] = m[i][1] /\ Len(c[i][2]) = Len(m[i][2])
              /\ c[i][2] = IF m[i][1] \in Protected THEN Keystream(m[i][2], k, p + FieldAt(m, i))
                           ELSE m[i][2]
              /\ FieldAt(c, i) = FieldAt(m, i) /\ FieldAt(m, i) \in Nat
        /\ Len(Secrets(c)) = Len(Secrets(m)) /\ Len(Secrets(m)) \in Nat
        /\ Len(Written(c)) = Len(Written(m))
    <3> HIDE DEF n, ss, rs, f
    <3> QED BY EncipheredIs, SMTT(30)
  <2> QED BY <2>1 DEF n
<1>3. /\ rs \in Seq(Raw) /\ Len(rs) = n
      /\ \A i \in 1 .. n : c[i][1] \in Nat /\ c[i][2] \in Raw /\ rs[i] = Record(c[i][1], c[i][2])
      /\ Written(c) = FlattenSeq(rs)
  BY <1>2, RecordsType
<1>4. /\ ss \in Seq(Raw) /\ Len(ss) = n
      /\ \A i \in 1 .. n : ss[i] = IF m[i][1] \in Protected THEN m[i][2] ELSE << >>
      /\ Secrets(m) = FlattenSeq(ss)
      /\ \A i \in 1 .. n : FieldAt(m, i) = Len(Join(ss, i - 1)) /\ FieldAt(m, i) \in Nat
  BY <1>1, SecretsType
<1> HIDE DEF n, ss, rs
<1>5. /\ Len(Join(ss, 0)) = 0 /\ Join(ss, n) = FlattenSeq(ss)
      /\ \A i \in 0 .. n : Len(Join(ss, i)) \in Nat
      /\ \A i \in 1 .. n : Len(Join(ss, i)) = Len(Join(ss, i - 1)) + Len(ss[i]) /\ Len(ss[i]) \in Nat
  <2>1. \A i \in 1 .. n : Len(Join(ss, i)) = Len(Join(ss, i - 1)) + Len(ss[i]) /\ Len(ss[i]) \in Nat
    BY <1>4, HasJoined
  <2> QED BY <1>4, <2>1, JoinLengths
<1>6. \A i \in 0 .. n : f[i] = p + Len(Join(ss, i)) /\ f[i] \in Nat
  BY <1>5
<1> HIDE DEF f
<1>7. ASSUME NEW i \in 1 .. n PROVE f[i - 1] <= f[i] /\ Serves(rs[i], k, f[i - 1], f[i])
  <2> DEFINE q == p + FieldAt(m, i)
             t == m[i][2]
  <2>1. i - 1 \in 0 .. n /\ i \in 0 .. n
    BY <1>1
  <2>2. q \in Nat /\ f[i - 1] = q /\ f[i] \in Nat
    BY <1>4, <1>6, <2>1
  <2>3. f[i] = q + Len(ss[i]) /\ Len(ss[i]) \in Nat
    <3>1. \A x, y, z \in Nat : x + (y + z) = (x + y) + z
      OBVIOUS
    <3> DEFINE y == Len(Join(ss, i - 1))
               z == Len(ss[i])
    <3>2. y \in Nat /\ z \in Nat /\ f[i] = p + (y + z) /\ q = p + y
      BY <1>4, <1>5, <1>6, <2>1
    <3> HIDE DEF y, z, q
    <3>3. f[i] = q + z
      BY <3>1, <3>2
    <3> QED BY <3>2, <3>3 DEF z
  <2>4. t \in PlainText /\ c[i][1] \in Nat /\ c[i][2] \in Raw /\ rs[i] = Record(c[i][1], c[i][2])
    BY <1>1, <1>3
  <2> HIDE DEF q, t
  <2>5. Serves(c[i][2], k, q, f[i])
    <3>1. CASE m[i][1] \in Protected
      <4>1. c[i][2] = Keystream(t, k, q) /\ ss[i] = t
        BY <1>2, <1>4, <3>1 DEF t, q
      <4>2. Serves(Keystream(t, k, q), k, q, q + Len(t))
        BY <2>2, <2>4, KeystreamServes
      <4> QED BY <2>3, <4>1, <4>2
    <3>2. CASE m[i][1] \notin Protected
      <4>1. c[i][2] = t /\ Len(ss[i]) = 0
        BY <1>2, <1>4, <3>2 DEF t
      <4>2. f[i] = q
        BY <2>2, <2>3, <4>1
      <4> QED BY <2>2, <2>4, <4>1, <4>2, PlainServes
    <3> QED BY <3>1, <3>2
  <2>6. q <= f[i]
    BY <2>2, <2>3
  <2>7. Serves(Record(c[i][1], c[i][2]), k, q, f[i])
    BY <2>2, <2>4, <2>5, <2>6, RecordServes
  <2> QED BY <2>2, <2>4, <2>6, <2>7
<1>8. Serves(FlattenSeq(rs), k, f[0], f[Len(rs)])
  BY <1>3, <1>6, <1>7, ServesJoined
<1>9. f[0] = p /\ f[Len(rs)] = p + Len(Secrets(m))
  <2>1. 0 \in 0 .. n /\ n \in 0 .. n
    BY <1>1
  <2>2. f[0] = p + Len(Join(ss, 0)) /\ f[n] = p + Len(Join(ss, n))
    BY <1>6, <2>1
  <2>3. p + 0 = p
    OBVIOUS
  <2>4. f[0] = p
    BY <1>5, <2>2, <2>3
  <2>5. f[Len(rs)] = p + Len(Secrets(m))
    BY <1>3, <1>4, <1>5, <2>2
  <2> QED BY <2>4, <2>5
<1> QED BY <1>3, <1>8, <1>9

\* No byte of the keystream serves twice in a vault.
LEMMA PayloadServes ==
  ASSUME NEW ms \in Seq(EntryMeant), NEW k \in 1 .. MaxSaves
  PROVE  \E hi \in Nat : Serves(Payload(ms, k), k, 0, hi)
<1> DEFINE n == Len(ms)
           rs == EntryRecords(ms, k)
           f == [i \in 0 .. n |-> EntryAt(ms, i + 1)]
           a == KeyRecord(k)
           b == FlattenSeq(rs)
           c == EndRecord
<1>1. /\ n \in Nat /\ EntryAt(ms, 1) = 0
      /\ \A i \in 1 .. n + 1 : EntryAt(ms, i) \in Nat
      /\ \A i \in 1 .. n :
           EntryAt(ms, i + 1) = EntryAt(ms, i) + Len(Secrets(ms[i])) /\ Len(Secrets(ms[i])) \in Nat
  BY EntryAtIs
<1>2. /\ rs \in Seq(Raw) /\ Len(rs) = n
      /\ \A i \in 1 .. n : rs[i] = Record(ENTRY, EntryText(ms, k, i)) /\ EntryText(ms, k, i) \in Raw
                           /\ ms[i] \in EntryMeant
  BY EntryTextIs
<1>3. Payload(ms, k) = a \o b \o c
  BY DEF Payload, KeyRecord, EndRecord, EntryRecords
<1> HIDE DEF n, rs
<1>4. \A i \in 0 .. n : f[i] = EntryAt(ms, i + 1) /\ f[i] \in Nat
  <2>1. \A i \in 0 .. n : i + 1 \in 1 .. n + 1
    BY <1>1
  <2> QED BY <1>1, <2>1
<1> HIDE DEF f
<1>5. ASSUME NEW i \in 1 .. n PROVE f[i - 1] <= f[i] /\ Serves(rs[i], k, f[i - 1], f[i])
  <2> DEFINE p == EntryAt(ms, i)
             m == ms[i]
             u == Enciphered(m, k, p)
             l == Len(Secrets(m))
  <2>1. i - 1 \in 0 .. n /\ i \in 0 .. n /\ (i - 1) + 1 = i
    BY <1>1
  <2>2. f[i - 1] = p /\ f[i] = p + l /\ p \in Nat /\ l \in Nat /\ f[i] \in Nat
    BY <1>1, <1>4, <2>1
  <2>3. m \in EntryMeant /\ EntryText(ms, k, i) = Written(u) /\ Written(u) \in Raw
    BY <1>2 DEF EntryText
  <2> HIDE DEF p, m, l
  <2>4. Serves(Written(u), k, p, p + Len(Secrets(m)))
    BY <2>2, <2>3, EntryServes
  <2>5. p <= f[i]
    BY <2>2
  <2>6. ENTRY \in Nat
    BY DEF ENTRY
  <2> HIDE DEF u
  <2>7. Serves(Written(u), k, p, f[i])
    BY <2>2, <2>4 DEF l
  <2>8. Serves(Record(ENTRY, Written(u)), k, p, f[i])
    BY <2>2, <2>3, <2>5, <2>6, <2>7, RecordServes
  <2> QED BY <1>2, <2>2, <2>3, <2>5, <2>8
<1>6. Serves(FlattenSeq(rs), k, f[0], f[Len(rs)])
  BY <1>2, <1>4, <1>5, ServesJoined
<1> DEFINE hi == f[n]
<1>7. f[0] = 0 /\ hi \in Nat /\ f[Len(rs)] = hi
  <2>1. 0 \in 0 .. n /\ n \in 0 .. n /\ 0 + 1 = 1
    BY <1>1
  <2> QED BY <1>1, <1>2, <1>4, <2>1
<1> HIDE DEF hi
<1>8. b \in Raw /\ Serves(b, k, 0, hi)
  <2>1. b \in Raw
    BY <1>2, JoinLengths
  <2> QED BY <1>6, <1>7, <2>1
<1>9. a \in Raw /\ Serves(a, k, 0, 0)
  <2> DEFINE u == <<Byte(k)>>
  <2>1. Byte(k) \in Plain /\ KEY \in Nat
    BY PlainIs DEF KEY
  <2>2. u \in PlainText /\ u \in Raw
    <3>1. u \in PlainText
      BY <2>1 DEF PlainText
    <3> QED BY <3>1, PlainIs
  <2>3. a = Record(KEY, u)
    BY DEF KeyRecord
  <2> HIDE DEF u
  <2>4. Serves(u, k, 0, 0)
    BY <2>2, PlainServes
  <2>5. Serves(Record(KEY, u), k, 0, 0)
    BY <2>1, <2>2, <2>4, RecordServes
  <2>6. Record(KEY, u) \in Raw
    BY <2>1, <2>2, RecordIs
  <2> QED BY <2>3, <2>5, <2>6
<1>10. c \in Raw /\ Serves(c, k, hi, hi)
  <2> DEFINE u == << >>
  <2>1. u \in PlainText /\ u \in Raw /\ END \in Nat
    BY DEF PlainText, Raw, END
  <2>2. c = Record(END, u)
    BY DEF EndRecord
  <2> HIDE DEF u
  <2>3. Serves(u, k, hi, hi)
    BY <1>7, <2>1, PlainServes
  <2>4. Serves(Record(END, u), k, hi, hi)
    BY <1>7, <2>1, <2>3, RecordServes
  <2>5. Record(END, u) \in Raw
    BY <2>1, RecordIs
  <2> QED BY <2>2, <2>4, <2>5
<1> HIDE DEF a, b, c
<1> DEFINE ab == a \o b
           t == ab \o c
<1>11. ab \in Raw
  BY <1>8, <1>9, HasConcat
<1>12. Serves(ab, k, 0, hi)
  <2>1. 0 <= 0 /\ 0 <= hi /\ 0 \in Nat
    BY <1>7
  <2>2. ab = a \o b
    OBVIOUS
  <2> HIDE DEF ab
  <2> QED BY <1>7, <1>8, <1>9, <2>1, <2>2, ServesConcat
<1> HIDE DEF ab
<1>13. Serves(t, k, 0, hi)
  <2>1. 0 <= hi /\ hi <= hi /\ 0 \in Nat
    BY <1>7
  <2>2. t = ab \o c
    OBVIOUS
  <2> HIDE DEF t
  <2> QED BY <1>7, <1>10, <1>11, <1>12, <2>1, <2>2, ServesConcat
<1>14. Payload(ms, k) = t
  BY <1>3 DEF ab
<1> QED BY <1>7, <1>13, <1>14

\* A sealed file has no secret fields.
LEMMA ArchiveIsPlain == ASSUME NEW fs \in Seq(File) PROVE ArchiveText(fs) \in PlainText
<1>1. ASSUME NEW tag \in Nat, NEW t \in PlainText PROVE Record(tag, t) \in PlainText
  <2> DEFINE a == <<Byte(tag), Byte(Len(t))>>
  <2>1. Len(t) \in Int
    BY LenProperties DEF PlainText
  <2>2. Byte(tag) \in Plain /\ Byte(Len(t)) \in Plain
    BY <2>1, PlainIs
  <2>3. a \in Seq(Plain) /\ t \in Seq(Plain)
    BY <2>2 DEF PlainText
  <2> HIDE DEF a
  <2>4. a \o t \in Seq(Plain)
    BY <2>3, ConcatProperties
  <2> QED BY <2>4 DEF Record, a, PlainText
<1>2. ASSUME NEW f \in File PROVE FileText(f) \in PlainText
  <2> DEFINE r == FileRecords(f)
             n == Len(Parts(f.body))
  <2>1. /\ r \in Seq(Raw) /\ Len(r) = n + 1 /\ n \in Nat /\ r[1] = HeaderRecord(f)
        /\ \A i \in 1 .. n : r[i + 1] = PartRecord(f.body, i)
    BY FileRecordsAre
  <2>2. f.path \in Nat /\ f.body \in PlainText /\ Len(f.body) \in Nat
    <3>1. f.path \in Nat /\ f.body \in PlainText
      BY DEF File
    <3> QED BY <3>1, LenProperties DEF PlainText
  <2>3. HeaderRecord(f) \in PlainText
    <3> DEFINE u == <<Byte(f.path), Byte(Len(f.body))>>
    <3>1. Byte(f.path) \in Plain /\ Byte(Len(f.body)) \in Plain
      BY <2>2, PlainIs
    <3>2. u \in PlainText /\ FILE_HDR \in Nat
      BY <3>1 DEF PlainText, FILE_HDR
    <3> HIDE DEF u
    <3>3. Record(FILE_HDR, u) \in PlainText
      BY <1>1, <3>2
    <3> QED BY <3>3 DEF HeaderRecord, u
  <2>4. \A i \in 1 .. n : PartRecord(f.body, i) \in PlainText
    <3>1. ASSUME NEW i \in 1 .. n PROVE PartRecord(f.body, i) \in PlainText
      <4> DEFINE u == SubSeq(f.body, PartEnd(f.body, i - 1) + 1, PartEnd(f.body, i))
      <4>1. u \in PlainText /\ FILE_PART \in Nat
        BY <2>2, PartsAre DEF FILE_PART
      <4> HIDE DEF u
      <4>2. Record(FILE_PART, u) \in PlainText
        BY <1>1, <4>1
      <4> QED BY <4>2 DEF PartRecord, u
    <3> QED BY <3>1
  <2> HIDE DEF r, n
  <2>5. \A i \in 1 .. n + 1 : r[i] \in PlainText
    <3>1. \A i \in 1 .. n + 1 : i = 1 \/ (i - 1 \in 1 .. n /\ (i - 1) + 1 = i)
      BY <2>1
    <3> QED BY <2>1, <2>3, <2>4, <3>1
  <2>6. r \in Seq(PlainText)
    <3>1. r = [i \in 1 .. n + 1 |-> r[i]] /\ n + 1 \in Nat
      BY <2>1, LenProperties
    <3> QED BY <2>5, <3>1
  <2>7. FlattenSeq(r) \in PlainText
    BY <2>6, FlattenType DEF PlainText
  <2> QED BY <2>7 DEF FileText, r
<1> DEFINE ss == FileTexts(fs)
<1>3. /\ Len(fs) \in Nat /\ DOMAIN fs = 1 .. Len(fs) /\ \A i \in 1 .. Len(fs) : fs[i] \in File
      /\ FilesText(fs) = FlattenSeq(ss)
  BY FileTextsAre
<1>4. ss \in Seq(PlainText)
  <2>1. ss = [i \in 1 .. Len(fs) |-> FileText(fs[i])]
    BY <1>3 DEF FileTexts
  <2> QED BY <1>2, <1>3, <2>1
<1> HIDE DEF ss
<1>5. FilesText(fs) \in PlainText
  BY <1>3, <1>4, FlattenType DEF PlainText
<1>6. Ending \in PlainText
  <2>1. << >> \in PlainText /\ FILE_END \in Nat
    BY DEF PlainText, FILE_END
  <2> QED BY <1>1, <2>1 DEF Ending
<1>7. FilesText(fs) \o Ending \in PlainText
  BY <1>5, <1>6, ConcatProperties DEF PlainText
<1> QED BY <1>7 DEF ArchiveText, Ending

LEMMA InvImpliesOnce == BodyInv => KeystreamOnce
<1> SUFFICES ASSUME BodyInv PROVE KeystreamOnce
  OBVIOUS
<1> DEFINE secrets == {i \in DOMAIN Whole : Whole[i][2] # 0}
<1>1. KeystreamOnce <=> \A i, j \in secrets :
        i # j => <<Whole[i][2], Whole[i][3]>> # <<Whole[j][2], Whole[j][3]>>
  BY DEF KeystreamOnce, Whole, BytesOf
<1>2. CASE chunks = << >>
  <2>1. BytesOf(chunks) = << >>
    BY <1>2 DEF BytesOf
  <2>2. << >> \in Seq(Raw) /\ Len(<< >>) = 0
    OBVIOUS
  <2>3. Join(<< >>, 0) = << >> /\ Join(<< >>, Len(<< >>)) = FlattenSeq(<< >>)
    BY <2>2, JoinIs DEF Raw
  <2>4. Whole = << >>
    BY <2>1, <2>2, <2>3 DEF Whole
  <2>5. secrets = {}
    BY <2>4
  <2> QED BY <1>1, <2>5
<1>3. CASE chunks # << >>
  <2> DEFINE o == OnDisk
             n == Len(o)
             k == version
  <2>1. /\ k \in 1 .. MaxSaves /\ Whole \in Raw /\ o \in Raw /\ Has(Whole, 0, o)
        /\ \A x \in n + 1 .. Len(Whole) : Whole[x] = Byte(0)
    BY <1>3 DEF BodyInv, Stored
  <2>2. n \in Nat /\ Len(Whole) \in Nat /\ DOMAIN Whole = 1 .. Len(Whole)
    BY <2>1, LenProperties DEF Raw
  <2>3. PICK hi \in Nat : Serves(o, k, 0, hi)
    <3>1. kind \in {"vault", "sealed"} /\ saved \in Meants
      BY DEF BodyInv, BodyTypes
    <3>2. CASE kind = "vault"
      <4>1. saved \in Seq(EntryMeant) /\ o = Payload(saved, k)
        BY <3>1, <3>2 DEF Meants, OnDisk, Text
      <4> HIDE DEF o, k
      <4> QED BY <2>1, <4>1, PayloadServes
    <3>3. CASE kind = "sealed"
      <4>1. saved \in Seq(File) /\ o = ArchiveText(saved)
        BY <3>1, <3>3 DEF Meants, OnDisk, Text
      <4> HIDE DEF o, k
      <4>2. o \in PlainText
        BY <4>1, ArchiveIsPlain
      <4>3. Serves(o, k, 0, 0) /\ 0 \in Nat
        BY <4>2, PlainServes
      <4> QED BY <4>3
    <3> QED BY <3>1, <3>2, <3>3
  <2> HIDE DEF o, n, k
  <2>4. \A x \in 1 .. n : Whole[x] = o[x]
    <3>1. \A x \in 1 .. n : 0 + x = x
      BY <2>2
    <3> QED BY <2>1, <3>1 DEF Has, n
  <2>5. ASSUME NEW i \in secrets PROVE i \in 1 .. n /\ Whole[i] = o[i] /\ o[i][2] # 0
    <3>1. i \in 1 .. Len(Whole) /\ Whole[i][2] # 0
      BY <2>2
    <3>2. i \notin n + 1 .. Len(Whole)
      BY <2>1, <3>1 DEF Byte
    <3>3. i \in 1 .. n
      BY <2>2, <3>1, <3>2
    <3> QED BY <2>4, <3>1, <3>3
  <2>6. \A x \in 1 .. n : o[x][3] \in Nat
    <3>1. \A x \in 1 .. n : o[x] \in Bits
      BY <2>1, ElementOfSeq DEF Raw, n
    <3> QED BY <3>1 DEF Bits
  <2>7. ASSUME NEW i \in secrets, NEW j \in secrets, i # j PROVE Whole[i][3] # Whole[j][3]
    <3>1. /\ i \in 1 .. n /\ Whole[i] = o[i] /\ o[i][2] # 0
          /\ j \in 1 .. n /\ Whole[j] = o[j] /\ o[j][2] # 0
      BY <2>5
    <3>2. i < j \/ j < i
      BY <2>2, <2>7, <3>1
    <3>3. o[i][3] < o[j][3] \/ o[j][3] < o[i][3]
      BY <2>3, <3>1, <3>2 DEF Serves, n
    <3>4. o[i][3] \in Nat /\ o[j][3] \in Nat
      BY <2>6, <3>1
    <3> QED BY <3>1, <3>3, <3>4
  <2>8. \A i, j \in secrets : i # j => <<Whole[i][2], Whole[i][3]>> # <<Whole[j][2], Whole[j][3]>>
    BY <2>7
  <2> QED BY <1>1, <2>8
<1> QED BY <1>2, <1>3

\* Within a file no byte of the keystream serves twice, however many entries
\* and saves there are.
THEOREM KeystreamServesOnce == BodySpec => []KeystreamOnce
BY BodyInvariant, InvImpliesOnce, PTL

(***************************************************************************)
(* What cannot be opened.                                                  *)
(***************************************************************************)

\* A record of the files begins behind the first p bytes of the text.
IsRecord(p) ==
  \/ p = FilesEnd
  \/ \E i \in 1 .. Len(saved) : \E b \in 0 .. Len(Parts(saved[i].body)) : p = FileAt(saved, i, b)

\* The i-th chunk ends between the two bytes of such a record's header.
CutAt(i) == \E p \in Nat : IsRecord(p) /\ p + 1 = i * ChunkLen

\* So many chunks the reader was given.
GivenTo(r) == Len(Given(r)) - Len(r.rest)

\* A sealed file is extracted as far as no header is cut.
Uncut(r) ==
  kind = "sealed" /\ r.way = "extract" /\ r.phase \in {"chunk", "record"} =>
    IF r.end THEN ~HeaderSplit
    ELSE \A i \in Nat : CutAt(i) => i >= GivenTo(r) /\ (r.phase = "chunk" => i # GivenTo(r))

\* Not a whole record.
Piece(p) == IF Len(p) < HeaderLen THEN TRUE ELSE Len(p) < HeaderLen + p[2][1]

LongEntry == \E i \in DOMAIN saved : TooLong(saved[i])

OpensFor(r) ==
  /\ r.phase = "failed" => IF kind = "vault" THEN LongEntry ELSE r.way = "extract" /\ HeaderSplit
  /\ kind = "vault" => \A i \in DOMAIN r.got : ~TooLong(saved[i])
  /\ r.phase = "done" => ~HeaderSplit
  /\ Uncut(r)
  /\ r.phase = "chunk" /\ ~r.end => Piece(r.pending)

OpensInv == OpensFor(rd)

\* The multiples of a number are those that it divides.
LEMMA Divides ==
  ASSUME NEW n \in Nat, NEW d \in Nat, d # 0
  PROVE  n % d = 0 <=> \E i \in Nat : n = i * d
<1> DEFINE q == n \div d
           r == n % d
<1>1. q \in Nat /\ r \in Nat /\ r < d /\ n = (q * d) + r
  OBVIOUS
<1> HIDE DEF q, r
<1>2. ASSUME NEW i \in Nat, n = i * d PROVE r = 0
  <2>1. CASE i <= q
    <3>1. i * d <= q * d /\ i * d \in Nat /\ q * d \in Nat
      BY <1>1, <2>1
    <3> QED BY <1>1, <1>2, <3>1
  <2>2. CASE q + 1 <= i
    <3>1. (q + 1) * d <= i * d /\ (q + 1) * d = q * d + d /\ i * d \in Nat /\ q * d \in Nat
      BY <1>1, <2>2
    <3> QED BY <1>1, <1>2, <3>1
  <2> QED BY <1>1, <2>1, <2>2
<1>3. ASSUME r = 0 PROVE n = q * d
  BY <1>1, <1>3
<1> QED BY <1>1, <1>2, <1>3 DEF r

\* The records of a file follow one another within the text of the file.
LEMMA WithinFile ==
  ASSUME NEW fs \in Seq(File), NEW i \in 1 .. Len(fs),
         NEW n, n = Len(Parts(fs[i].body)), NEW b \in 0 .. n
  PROVE  /\ n \in Nat /\ FileAt(fs, i, b) \in Nat /\ FileAt(fs, i, b + 1) \in Nat
         /\ Len(Join(FileTexts(fs), i - 1)) \in Nat /\ Len(Join(FileTexts(fs), i)) \in Nat
         /\ Len(Join(FileTexts(fs), i - 1)) <= FileAt(fs, i, b)
         /\ FileAt(fs, i, b) + 2 <= FileAt(fs, i, b + 1)
         /\ FileAt(fs, i, b + 1) <= Len(Join(FileTexts(fs), i))
         /\ \A k \in b + 1 .. n : FileAt(fs, i, b + 1) <= FileAt(fs, i, k)
<1> DEFINE rs == FileRecords(fs[i])
           J == Len(Join(FileTexts(fs), i - 1))
           L(k) == Len(Join(rs, k))
<1>1. fs[i] \in File
  BY FileTextsAre
<1>2. rs \in Seq(Raw) /\ Len(rs) = n + 1 /\ n \in Nat
  BY <1>1, FileRecordsAre
<1>3. /\ J \in Nat /\ FileAt(fs, i, Len(rs)) = Len(Join(FileTexts(fs), i))
      /\ FileAt(fs, i, b + 1) = FileAt(fs, i, b) + Len(rs[b + 1])
      /\ FileAt(fs, i, b) \in Nat /\ FileAt(fs, i, b + 1) \in Nat
  <2>1. b + 1 \in 1 .. Len(rs) /\ (b + 1) - 1 = b
    BY <1>2
  <2> QED BY <2>1, ArchiveIs
<1>4. \A k \in 0 .. n + 1 : FileAt(fs, i, k) = J + L(k)
  BY DEF FileAt
<1>5. \A k \in 0 .. n + 1 : \A m \in k .. n + 1 : L(k) \in Nat /\ L(m) \in Nat /\ L(k) <= L(m)
  BY <1>2, JoinGrows DEF Raw
<1>6. Len(rs[b + 1]) \in Nat /\ 2 <= Len(rs[b + 1])
  <2>1. CASE b = 0
    <3>1. rs[1] = HeaderRecord(fs[i])
      BY <1>1, FileRecordsAre
    <3>2. Len(HeaderRecord(fs[i])) = 4
      BY DEF HeaderRecord, Record
    <3>3. b + 1 = 1
      BY <2>1
    <3>4. Len(rs[b + 1]) = 4
      BY <3>1, <3>2, <3>3
    <3> QED BY <3>4
  <2>2. CASE b # 0
    <3>1. b \in 1 .. n
      BY <1>2, <2>2
    <3> DEFINE t == SubSeq(fs[i].body, PartEnd(fs[i].body, b - 1) + 1, PartEnd(fs[i].body, b))
    <3>2. rs[b + 1] = Record(FILE_PART, t)
      BY <1>1, <3>1, FileRecordsAre DEF PartRecord
    <3>3. t \in PlainText
      BY <1>1, <3>1, PartsAre DEF File
    <3> HIDE DEF t
    <3>4. t \in Raw /\ FILE_PART \in Nat
      BY <3>3, PlainIs DEF FILE_PART
    <3>5. Len(Record(FILE_PART, t)) = Len(t) + 2 /\ Len(t) \in Nat
      BY <3>4, RecordIs
    <3> QED BY <3>2, <3>5
  <2> QED BY <2>1, <2>2
<1> HIDE DEF L, J, rs
<1>7. L(b) \in Nat /\ L(b + 1) \in Nat /\ L(n + 1) \in Nat /\ L(b + 1) <= L(n + 1)
  BY <1>2, <1>5
<1>8. \A k \in b + 1 .. n : L(b + 1) <= L(k) /\ L(k) \in Nat
  BY <1>2, <1>5, SMTT(30)
<1>9. /\ FileAt(fs, i, b) = J + L(b) /\ FileAt(fs, i, b + 1) = J + L(b + 1)
      /\ FileAt(fs, i, n + 1) = J + L(n + 1)
      /\ \A k \in b + 1 .. n : FileAt(fs, i, k) = J + L(k)
  BY <1>2, <1>4
<1>10. \A k \in b + 1 .. n : FileAt(fs, i, b + 1) <= FileAt(fs, i, k)
  <2> SUFFICES ASSUME NEW k \in b + 1 .. n PROVE FileAt(fs, i, b + 1) <= FileAt(fs, i, k)
    OBVIOUS
  <2> DEFINE x == L(b + 1)
             y == L(k)
  <2>1. x \in Nat /\ y \in Nat /\ x <= y /\ J \in Nat
    BY <1>3, <1>7, <1>8
  <2>2. FileAt(fs, i, b + 1) = J + x /\ FileAt(fs, i, k) = J + y
    BY <1>9
  <2> HIDE DEF x, y
  <2> QED BY <2>1, <2>2
<1>11. FileAt(fs, i, b + 1) <= FileAt(fs, i, n + 1) /\ FileAt(fs, i, n + 1) \in Nat
  <2> DEFINE x == L(b + 1)
             y == L(n + 1)
  <2>1. x \in Nat /\ y \in Nat /\ x <= y /\ J \in Nat
    BY <1>3, <1>7
  <2>2. FileAt(fs, i, b + 1) = J + x /\ FileAt(fs, i, n + 1) = J + y
    BY <1>9
  <2> HIDE DEF x, y
  <2> QED BY <2>1, <2>2
<1>12. J <= FileAt(fs, i, b)
  BY <1>3, <1>7, <1>9
<1>13. FileAt(fs, i, b) + 2 <= FileAt(fs, i, b + 1)
  BY <1>3, <1>6
<1>14. FileAt(fs, i, n + 1) = Len(Join(FileTexts(fs), i))
  BY <1>2, <1>3
<1> QED BY <1>2, <1>3, <1>10, <1>11, <1>12, <1>13, <1>14 DEF J

\* A record of the files begins at c and ends at e.
Spans(c, e) ==
  \/ c = FilesEnd /\ e = c + 2
  \/ \E i \in 1 .. Len(saved) : \E b \in 0 .. Len(Parts(saved[i].body)) :
       c = FileAt(saved, i, b) /\ e = FileAt(saved, i, b + 1)

\* A record has a header, and all records end before the end of the files.
LEMMA RecordPlace ==
  ASSUME saved \in Seq(File), NEW i \in 1 .. Len(saved), NEW b \in 0 .. Len(Parts(saved[i].body))
  PROVE  /\ FileAt(saved, i, b) \in Nat /\ FileAt(saved, i, b + 1) \in Nat /\ FilesEnd \in Nat
         /\ FileAt(saved, i, b) + 2 <= FileAt(saved, i, b + 1)
         /\ FileAt(saved, i, b + 1) <= FilesEnd
<1> DEFINE J(k) == Len(Join(FileTexts(saved), k))
           x == FileAt(saved, i, b)
           y == FileAt(saved, i, b + 1)
<1>1. FileTexts(saved) \in Seq(Raw) /\ Len(FileTexts(saved)) = Len(saved) /\ Len(saved) \in Nat
  BY FileTextsAre
<1>2. x \in Nat /\ y \in Nat /\ J(i) \in Nat /\ x + 2 <= y /\ y <= J(i)
  BY WithinFile
<1>3. J(i) <= J(Len(saved)) /\ J(Len(saved)) \in Nat
  <2>1. i \in 0 .. Len(FileTexts(saved)) /\ Len(saved) \in i .. Len(FileTexts(saved))
    BY <1>1
  <2> QED BY <1>1, <2>1, JoinGrows DEF Raw
<1>4. FilesEnd = J(Len(saved))
  BY DEF FilesEnd
<1> HIDE DEF J, x, y
<1>5. y <= FilesEnd /\ FilesEnd \in Nat
  BY <1>2, <1>3, <1>4
<1> QED BY <1>2, <1>5 DEF x, y

\* Records do not overlap.
LEMMA TwoRecords ==
  ASSUME saved \in Seq(File), NEW i \in 1 .. Len(saved), NEW b \in 0 .. Len(Parts(saved[i].body)),
         NEW k \in 1 .. Len(saved), NEW d \in 0 .. Len(Parts(saved[k].body)),
         i < k \/ (i = k /\ b < d)
  PROVE  FileAt(saved, i, b + 1) <= FileAt(saved, k, d)
<1>1. CASE i < k
  <2> DEFINE J(m) == Len(Join(FileTexts(saved), m))
             y == FileAt(saved, i, b + 1)
             z == FileAt(saved, k, d)
  <2>1. FileTexts(saved) \in Seq(Raw) /\ Len(FileTexts(saved)) = Len(saved) /\ Len(saved) \in Nat
    BY FileTextsAre
  <2>2. y \in Nat /\ J(i) \in Nat /\ y <= J(i)
    BY WithinFile
  <2>3. z \in Nat /\ J(k - 1) \in Nat /\ J(k - 1) <= z
    BY WithinFile
  <2>4. J(i) <= J(k - 1)
    <3>1. i \in 0 .. Len(FileTexts(saved)) /\ k - 1 \in i .. Len(FileTexts(saved))
      BY <1>1, <2>1
    <3> QED BY <2>1, <3>1, JoinGrows DEF Raw
  <2> HIDE DEF J, y, z
  <2>5. y <= z
    BY <2>2, <2>3, <2>4
  <2> QED BY <2>5 DEF y, z
<1>2. CASE i = k /\ b < d
  <2>1. Len(Parts(saved[i].body)) \in Nat
    BY WithinFile
  <2>2. d \in b + 1 .. Len(Parts(saved[i].body))
    BY <1>2, <2>1
  <2> QED BY <1>2, <2>2, WithinFile
<1> QED BY <1>1, <1>2

\* A record begins where another one does, or the one ends before the other begins.
LEMMA Apart ==
  ASSUME saved \in Seq(File), NEW p, IsRecord(p), NEW c, NEW e, Spans(c, e)
  PROVE  /\ p \in Nat /\ c \in Nat /\ e \in Nat /\ FilesEnd \in Nat
         /\ p <= FilesEnd /\ c + 2 <= e
         /\ p = c \/ p + 2 <= c \/ e <= p
<1>1. FilesEnd \in Nat
  BY ArchiveIs DEF FilesEnd
<1>2. CASE p = FilesEnd /\ c = FilesEnd /\ e = c + 2
  BY <1>1, <1>2
<1>3. ASSUME p = FilesEnd, NEW k \in 1 .. Len(saved), NEW d \in 0 .. Len(Parts(saved[k].body)),
             c = FileAt(saved, k, d), e = FileAt(saved, k, d + 1)
      PROVE  p \in Nat /\ c \in Nat /\ e \in Nat /\ c + 2 <= e /\ e <= p
  BY <1>3, RecordPlace
<1>4. ASSUME c = FilesEnd, e = c + 2, NEW i \in 1 .. Len(saved), NEW b \in 0 .. Len(Parts(saved[i].body)),
             p = FileAt(saved, i, b)
      PROVE  p \in Nat /\ c \in Nat /\ e \in Nat /\ c + 2 <= e /\ p + 2 <= c
  <2> DEFINE y == FileAt(saved, i, b + 1)
  <2>1. p \in Nat /\ y \in Nat /\ p + 2 <= y /\ y <= c
    BY <1>4, RecordPlace
  <2> HIDE DEF y
  <2> QED BY <1>1, <1>4, <2>1
<1>5. ASSUME NEW i \in 1 .. Len(saved), NEW b \in 0 .. Len(Parts(saved[i].body)), p = FileAt(saved, i, b),
             NEW k \in 1 .. Len(saved), NEW d \in 0 .. Len(Parts(saved[k].body)),
             c = FileAt(saved, k, d), e = FileAt(saved, k, d + 1)
      PROVE  /\ p \in Nat /\ c \in Nat /\ e \in Nat /\ c + 2 <= e /\ p <= FilesEnd
             /\ p = c \/ p + 2 <= c \/ e <= p
  <2> DEFINE y == FileAt(saved, i, b + 1)
  <2>1. p \in Nat /\ y \in Nat /\ p + 2 <= y /\ y <= FilesEnd
    BY <1>5, RecordPlace
  <2>2. c \in Nat /\ e \in Nat /\ c + 2 <= e
    BY <1>5, RecordPlace
  <2>3. i < k \/ (i = k /\ b < d) => y <= c
    BY <1>5, TwoRecords
  <2>4. k < i \/ (k = i /\ d < b) => e <= p
    BY <1>5, TwoRecords
  <2>5. i = k /\ b = d => p = c
    BY <1>5
  <2>6. i \in Nat /\ k \in Nat
    BY <1>5
  <2>7. i = k => b \in Int /\ d \in Int
    <3>1. Len(Parts(saved[i].body)) \in Nat /\ Len(Parts(saved[k].body)) \in Nat
      BY WithinFile
    <3> QED BY <3>1
  <2> HIDE DEF y
  <2> QED BY <1>1, <2>1, <2>2, <2>3, <2>4, <2>5, <2>6, <2>7
<1>6. \/ c = FilesEnd /\ e = c + 2
      \/ \E k \in 1 .. Len(saved) : \E d \in 0 .. Len(Parts(saved[k].body)) :
           c = FileAt(saved, k, d) /\ e = FileAt(saved, k, d + 1)
  BY DEF Spans
<1>7. \/ p = FilesEnd
      \/ \E i \in 1 .. Len(saved) : \E b \in 0 .. Len(Parts(saved[i].body)) : p = FileAt(saved, i, b)
  BY DEF IsRecord
<1>8. CASE p = FilesEnd
  <2>1. ASSUME NEW k \in 1 .. Len(saved), NEW d \in 0 .. Len(Parts(saved[k].body)),
               c = FileAt(saved, k, d), e = FileAt(saved, k, d + 1)
        PROVE  p \in Nat /\ c \in Nat /\ e \in Nat /\ c + 2 <= e /\ e <= p
    BY <1>3, <1>8, <2>1
  <2> QED BY <1>1, <1>2, <1>6, <1>8, <2>1
<1>9. CASE p # FilesEnd
  <2>0. PICK i \in 1 .. Len(saved) : \E b \in 0 .. Len(Parts(saved[i].body)) : p = FileAt(saved, i, b)
    BY <1>7, <1>9
  <2>1. PICK b \in 0 .. Len(Parts(saved[i].body)) : p = FileAt(saved, i, b)
    BY <2>0
  <2>2. CASE c = FilesEnd /\ e = c + 2
    <3>1. p \in Nat /\ c \in Nat /\ e \in Nat /\ c + 2 <= e /\ p + 2 <= c
      BY <1>4, <2>1, <2>2
    <3> QED BY <1>1, <2>2, <3>1
  <2>3. CASE \E k \in 1 .. Len(saved) : \E d \in 0 .. Len(Parts(saved[k].body)) :
               c = FileAt(saved, k, d) /\ e = FileAt(saved, k, d + 1)
    BY <1>1, <1>5, <2>1, <2>3
  <2> QED BY <1>6, <2>2, <2>3
<1> QED BY <1>8, <1>9

\* A header is split if and only if some chunk ends within it.
LEMMA SplitIs ==
  ASSUME saved \in Seq(File)
  PROVE  HeaderSplit <=> \E i \in Nat : CutAt(i)
<1> DEFINE Cut(n) == (n + 1) % ChunkLen = 0
           At(i, k) == Len(FilesText(SubSeq(saved, 1, i - 1)))
                         + Len(FlattenSeq(SubSeq(FileRecords(saved[i]), 1, k - 1)))
<1>1. HeaderSplit <=> \/ Cut(Len(FilesText(saved)))
                      \/ \E i \in DOMAIN saved : \E k \in DOMAIN FileRecords(saved[i]) : Cut(At(i, k))
  BY DEF HeaderSplit
<1>2. DOMAIN saved = 1 .. Len(saved) /\ Len(FilesText(saved)) = FilesEnd
  <2>1. /\ DOMAIN saved = 1 .. Len(saved) /\ Len(saved) = Len(FileTexts(saved))
        /\ FilesText(saved) = FlattenSeq(FileTexts(saved)) /\ FileTexts(saved) \in Seq(Raw)
    BY FileTextsAre
  <2>2. Join(FileTexts(saved), Len(FileTexts(saved))) = FlattenSeq(FileTexts(saved))
    BY <2>1, JoinLengths
  <2>3. FilesText(saved) = Join(FileTexts(saved), Len(saved))
    BY <2>1, <2>2
  <2> QED BY <2>1, <2>3 DEF FilesEnd
<1>3. ASSUME NEW i \in 1 .. Len(saved)
      PROVE  /\ DOMAIN FileRecords(saved[i]) = 1 .. Len(Parts(saved[i].body)) + 1
             /\ Len(Parts(saved[i].body)) \in Nat
  <2>1. saved[i] \in File
    BY FileTextsAre
  <2>2. /\ FileRecords(saved[i]) \in Seq(Raw) /\ Len(FileRecords(saved[i])) = Len(Parts(saved[i].body)) + 1
        /\ Len(Parts(saved[i].body)) \in Nat
    BY <2>1, FileRecordsAre
  <2> QED BY <2>2, LenProperties
<1>4. \A i \in 1 .. Len(saved) : \A k : At(i, k) = FileAt(saved, i, k - 1)
  <2>1. \A i \in 1 .. Len(saved) : FilesText(SubSeq(saved, 1, i - 1)) = Join(FileTexts(saved), i - 1)
    BY FileTextsAre
  <2> QED BY <2>1 DEF FileAt, Join
<1> HIDE DEF At
<1>5. HeaderSplit <=> \E p : IsRecord(p) /\ Cut(p)
  <2>1. ASSUME NEW i \in 1 .. Len(saved), NEW k \in DOMAIN FileRecords(saved[i]), Cut(At(i, k))
        PROVE  IsRecord(At(i, k))
    <3>1. k - 1 \in 0 .. Len(Parts(saved[i].body))
      BY <1>3, <2>1
    <3> QED BY <1>4, <3>1 DEF IsRecord
  <2>2. ASSUME NEW i \in 1 .. Len(saved), NEW b \in 0 .. Len(Parts(saved[i].body)), Cut(FileAt(saved, i, b))
        PROVE  \E k \in DOMAIN FileRecords(saved[i]) : Cut(At(i, k))
    <3>1. b + 1 \in DOMAIN FileRecords(saved[i]) /\ (b + 1) - 1 = b
      BY <1>3, <2>2
    <3>2. At(i, b + 1) = FileAt(saved, i, b)
      BY <1>4, <3>1
    <3> QED BY <2>2, <3>1, <3>2
  <2> HIDE DEF Cut
  <2>3. ASSUME HeaderSplit PROVE \E p : IsRecord(p) /\ Cut(p)
    <3>1. CASE Cut(Len(FilesText(saved)))
      BY <1>2, <3>1 DEF IsRecord
    <3>2. CASE \E i \in DOMAIN saved : \E k \in DOMAIN FileRecords(saved[i]) : Cut(At(i, k))
      BY <1>2, <2>1, <3>2
    <3> QED BY <1>1, <2>3, <3>1, <3>2
  <2>4. ASSUME NEW p, IsRecord(p), Cut(p) PROVE HeaderSplit
    BY <1>1, <1>2, <2>2, <2>4 DEF IsRecord
  <2> QED BY <2>3, <2>4
<1>6. \A p : IsRecord(p) => p \in Nat
  BY Apart DEF Spans
<1>7. \A p \in Nat : Cut(p) <=> \E i \in Nat : p + 1 = i * ChunkLen
  <2> SUFFICES ASSUME NEW p \in Nat PROVE Cut(p) <=> \E i \in Nat : p + 1 = i * ChunkLen
    OBVIOUS
  <2>1. ChunkLen \in Nat /\ ChunkLen # 0 /\ p + 1 \in Nat
    BY SizeAssumption
  <2> QED BY <2>1, Divides
<1> HIDE DEF Cut
<1> QED BY <1>5, <1>6, <1>7 DEF CutAt

\* What comes next in a sealed file is one of its records, and not too long.
LEMMA SealedRecord ==
  ASSUME BodyInv, rd.phase # "idle", kind = "sealed", NEW c \in Nat, InSealed(rd, c)
  PROVE  /\ saved \in Seq(File)
         /\ \E tag \in Nat, t \in Raw :
              Has(Whole, c, Record(tag, t)) /\ Len(t) \in Nat /\ Len(t) <= PartLen + 2 /\ Spans(c, c + 2 + Len(t))
<1>1. saved \in Seq(File) /\ Len(saved) \in Nat /\ FilesEnd \in Nat /\ FilesEnd + 2 = Len(OnDisk)
  BY FilesOnDisk
<1>2. PartLen \in Nat /\ FILE_HDR \in Nat /\ FILE_PART \in Nat /\ FILE_END \in Nat
  BY SizeAssumption DEF FILE_HDR, FILE_PART, FILE_END
<1>3. ASSUME NEW i \in 1 .. Len(saved), HeaderNext(c, i)
      PROVE  \E tag \in Nat, t \in Raw :
               Has(Whole, c, Record(tag, t)) /\ Len(t) \in Nat /\ Len(t) <= PartLen + 2 /\ Spans(c, c + 2 + Len(t))
  <2> DEFINE t == <<Byte(saved[i].path), Byte(Len(saved[i].body))>>
  <2>1. saved[i] \in File
    BY FileTextsAre, <1>1
  <2>2. saved[i].path \in Int /\ Len(saved[i].body) \in Int
    BY <2>1, LenProperties DEF File, PlainText
  <2>3. t \in Raw /\ Len(t) = 2
    BY <2>2, ByteIs DEF Raw
  <2>4. HeaderRecord(saved[i]) = Record(FILE_HDR, t)
    BY DEF HeaderRecord
  <2> HIDE DEF t
  <2>9. Len(t) \in Nat /\ Len(t) <= PartLen + 2
    BY <1>2, <2>3
  <2>10. Len(Record(FILE_HDR, t)) = Len(t) + 2
    BY <1>2, <2>3, RecordIs
  <2>5. Len(HeaderRecord(saved[i])) = 4 /\ Has(Whole, c, Record(FILE_HDR, t))
    BY <1>3, <2>3, <2>4, <2>10 DEF HeaderNext
  <2>6. c + 4 = FileAt(saved, i, 1) /\ FileAt(saved, i, 1) = FileAt(saved, i, 0) + 4 /\ FileAt(saved, i, 0) \in Nat
        /\ Len(Parts(saved[i].body)) \in Nat
    BY <1>3, <2>5, FilesOnDisk DEF HeaderNext
  <2>7. c = FileAt(saved, i, 0) /\ c + 2 + Len(t) = FileAt(saved, i, 0 + 1) /\ 0 \in 0 .. Len(Parts(saved[i].body))
    BY <2>3, <2>6
  <2>8. Spans(c, c + 2 + Len(t))
    BY <2>7 DEF Spans
  <2> QED BY <1>2, <2>3, <2>5, <2>8, <2>9
<1>4. ASSUME NEW i \in 1 .. Len(saved), NEW b \in 1 .. Len(Parts(saved[i].body)), PartNext(c, i, b)
      PROVE  \E tag \in Nat, t \in Raw :
               Has(Whole, c, Record(tag, t)) /\ Len(t) \in Nat /\ Len(t) <= PartLen + 2 /\ Spans(c, c + 2 + Len(t))
  <2> DEFINE s == saved[i].body
             t == SubSeq(s, PartEnd(s, b - 1) + 1, PartEnd(s, b))
  <2>1. saved[i] \in File
    BY FileTextsAre, <1>1
  <2>2. s \in PlainText
    BY <2>1 DEF File
  <2>3. /\ t \in PlainText /\ Len(t) = PartEnd(s, b) - PartEnd(s, b - 1)
        /\ PartEnd(s, b) <= PartEnd(s, b - 1) + PartLen
        /\ Len(Parts(s)) \in Nat /\ \A k \in 0 .. Len(Parts(s)) : PartEnd(s, k) \in 0 .. Len(s)
    BY <2>2, PartsAre
  <2>4. PartRecord(s, b) = Record(FILE_PART, t)
    BY DEF PartRecord
  <2>5. b - 1 \in 0 .. Len(Parts(s)) /\ b \in 0 .. Len(Parts(s)) /\ Len(s) \in Nat
    BY <2>2, <2>3, LenProperties DEF PlainText
  <2>6. PartEnd(s, b - 1) \in Nat /\ PartEnd(s, b) \in Nat
    BY <2>3, <2>5
  <2> HIDE DEF t
  <2>7. t \in Raw /\ Len(t) \in Nat
    BY <2>3, PlainIs, LenProperties DEF PlainText
  <2>8. Len(t) <= PartLen + 2
    BY <1>2, <2>3, <2>6, <2>7
  <2>9. Len(PartRecord(s, b)) = Len(t) + 2 /\ Has(Whole, c, Record(FILE_PART, t))
    BY <1>2, <1>4, <2>4, <2>7, RecordIs DEF PartNext
  <2>10. /\ c + (Len(t) + 2) = FileAt(saved, i, b + 1)
         /\ FileAt(saved, i, b + 1) = FileAt(saved, i, b) + (Len(t) + 2) /\ FileAt(saved, i, b) \in Nat
    BY <1>4, <2>9, FilesOnDisk DEF PartNext
  <2>11. c = FileAt(saved, i, b) /\ c + 2 + Len(t) = FileAt(saved, i, b + 1)
    BY <2>7, <2>10
  <2>12. Spans(c, c + 2 + Len(t))
    BY <2>5, <2>11 DEF Spans
  <2> QED BY <1>2, <2>7, <2>8, <2>9, <2>12
<1>5. ASSUME FileEndNext(c)
      PROVE  \E tag \in Nat, t \in Raw :
               Has(Whole, c, Record(tag, t)) /\ Len(t) \in Nat /\ Len(t) <= PartLen + 2 /\ Spans(c, c + 2 + Len(t))
  <2>1. Has(Whole, c, Record(FILE_END, << >>)) /\ c + 2 = Len(OnDisk)
    BY <1>5 DEF FileEndNext, Ending
  <2>2. << >> \in Raw /\ Len(<< >>) = 0
    BY DEF Raw
  <2>3. c = FilesEnd /\ c + 2 + 0 = c + 2
    BY <1>1, <2>1
  <2>4. Spans(c, c + 2 + 0)
    BY <2>3 DEF Spans
  <2> QED BY <1>2, <2>1, <2>2, <2>4
<1>6. \/ \E i \in 1 .. Len(saved) : HeaderNext(c, i)
      \/ \E i \in 1 .. Len(saved) : \E b \in 1 .. Len(Parts(saved[i].body)) : PartNext(c, i, b)
      \/ FileEndNext(c)
  BY SealedNext
<1> DEFINE G == \E tag \in Nat, t \in Raw :
               Has(Whole, c, Record(tag, t)) /\ Len(t) \in Nat /\ Len(t) <= PartLen + 2 /\ Spans(c, c + 2 + Len(t))
<1>7. /\ \A i \in 1 .. Len(saved) : HeaderNext(c, i) => G
      /\ \A i \in 1 .. Len(saved) : \A b \in 1 .. Len(Parts(saved[i].body)) : PartNext(c, i, b) => G
      /\ FileEndNext(c) => G
  BY <1>3, <1>4, <1>5
<1> HIDE DEF G
<1>8. G
  BY <1>6, <1>7
<1> QED BY <1>1, <1>8 DEF G

\* What comes next in a vault is a record, and not too long unless an entry is.
LEMMA VaultRecord ==
  ASSUME BodyInv, rd.phase # "idle", kind = "vault", NEW c \in Nat, InVault(rd, c)
  PROVE  \E tag \in Nat, t \in Raw :
           Has(Whole, c, Record(tag, t)) /\ Len(t) \in Nat /\ (Len(t) <= MaxEntry \/ LongEntry)
<1>1. saved \in Seq(EntryMeant) /\ Len(saved) \in Nat /\ version \in 1 .. MaxSaves
  BY VaultNext, RdIs
<1>2. MaxEntry \in Nat /\ 1 <= MaxEntry /\ KEY \in Nat /\ ENTRY \in Nat /\ END \in Nat
  BY SizeAssumption DEF KEY, ENTRY, END
<1>3. ASSUME KeyNext(c)
      PROVE  \E tag \in Nat, t \in Raw :
               Has(Whole, c, Record(tag, t)) /\ Len(t) \in Nat /\ (Len(t) <= MaxEntry \/ LongEntry)
  <2> DEFINE t == <<Byte(version)>>
  <2>1. Byte(version) \in Bits
    BY <1>1, ByteIs
  <2>2. t \in Raw /\ Len(t) = 1
    BY <2>1 DEF Raw
  <2>3. Has(Whole, c, Record(KEY, t))
    BY <1>3 DEF KeyNext, KeyRecord
  <2> HIDE DEF t
  <2>4. Len(t) \in Nat /\ Len(t) <= MaxEntry
    BY <1>2, <2>2
  <2> QED BY <1>2, <2>2, <2>3, <2>4
<1>4. ASSUME NEW i \in 1 .. Len(saved), EntryNext(c, i)
      PROVE  \E tag \in Nat, t \in Raw :
               Has(Whole, c, Record(tag, t)) /\ Len(t) \in Nat /\ (Len(t) <= MaxEntry \/ LongEntry)
  <2> DEFINE t == EntryText(saved, version, i)
  <2>1. t \in Raw /\ Len(t) = Len(Written(saved[i]))
    BY <1>1, EntryTextIs
  <2>2. Has(Whole, c, Record(ENTRY, t))
    BY <1>4 DEF EntryNext
  <2>3. Len(t) \in Nat
    BY <2>1, LenProperties DEF Raw
  <2>4. i \in DOMAIN saved
    BY <1>1, LenProperties
  <2>5. Len(t) <= MaxEntry \/ LongEntry
    BY <1>2, <2>1, <2>3, <2>4 DEF LongEntry, TooLong
  <2> HIDE DEF t
  <2> QED BY <1>2, <2>1, <2>2, <2>3, <2>5
<1>5. ASSUME EndNext(c)
      PROVE  \E tag \in Nat, t \in Raw :
               Has(Whole, c, Record(tag, t)) /\ Len(t) \in Nat /\ (Len(t) <= MaxEntry \/ LongEntry)
  <2>1. Has(Whole, c, Record(END, << >>))
    BY <1>5 DEF EndNext, EndRecord
  <2>2. << >> \in Raw /\ Len(<< >>) = 0 /\ 0 <= MaxEntry
    BY <1>2 DEF Raw
  <2> QED BY <1>2, <2>1, <2>2
<1>6. KeyNext(c) \/ (\E i \in 1 .. Len(saved) : EntryNext(c, i)) \/ EndNext(c)
  BY VaultNext
<1> DEFINE G == \E tag \in Nat, t \in Raw :
               Has(Whole, c, Record(tag, t)) /\ Len(t) \in Nat /\ (Len(t) <= MaxEntry \/ LongEntry)
<1>7. /\ KeyNext(c) => G
      /\ \A i \in 1 .. Len(saved) : EntryNext(c, i) => G
      /\ EndNext(c) => G
  BY <1>3, <1>4, <1>5
<1> HIDE DEF G
<1>8. G
  BY <1>6, <1>7
<1> QED BY <1>8 DEF G

\* How many chunks the reader was given.
LEMMA FedIs ==
  ASSUME BodyInv, rd.phase # "idle", NEW j \in 0 .. Len(Given(rd)), FedTo(rd, j)
  PROVE  /\ GivenTo(rd) = j /\ (rd.rest = << >> <=> j = Len(Given(rd)))
         /\ Len(rd.rest) = Len(Given(rd)) - j
<1> DEFINE g == Given(rd)
           n == Len(g)
<1>1. g \in Seq([last : BOOLEAN, bytes : Raw]) /\ n \in Nat
  BY RdIs DEF Cuts
<1>2. rd.rest = SubSeq(g, j + 1, n)
  BY DEF FedTo
<1> HIDE DEF g, n
<1>5. j \in 0 .. n
  BY DEF n, g
<1>3. \A i \in j + 1 .. n : g[i] \in [last : BOOLEAN, bytes : Raw]
  <2> SUFFICES ASSUME NEW i \in j + 1 .. n PROVE g[i] \in [last : BOOLEAN, bytes : Raw]
    OBVIOUS
  <2>1. i \in 1 .. Len(g)
    BY <1>1, <1>5 DEF n
  <2> QED BY <1>1, <2>1, ElementOfSeq
<1>4. Len(rd.rest) = IF j + 1 <= n THEN n - (j + 1) + 1 ELSE 0
  BY <1>1, <1>2, <1>3, SubSeqProperties DEF n, g
<1>6. Len(rd.rest) = n - j
  BY <1>1, <1>4, <1>5
<1>7. rd.rest = << >> <=> Len(rd.rest) = 0
  <2>1. rd.rest \in Seq([last : BOOLEAN, bytes : Raw])
    BY RdIs DEF RdType
  <2> QED BY <2>1, EmptySeq
<1> QED BY <1>1, <1>5, <1>6, <1>7 DEF GivenTo, n, g

\* When all chunks are read, the next record is there.
LEMMA NoPieceAtEnd ==
  ASSUME BodyInv, rd.phase # "idle", NEW j, NEW c \in Nat, Stands(rd, j, c), Bound(rd, j) = Len(Whole),
         NEW tag \in Nat, NEW t \in Raw, Has(Whole, c, Record(tag, t))
  PROVE  ~Partial
<1>1. Len(Whole) \in Nat /\ Len(rd.pending) \in Nat
  BY RdIs
<1>2. (~Partial <=> Len(t) + 2 <= Len(rd.pending)) /\ Len(t) \in Nat
  BY <1>1, NextRecord
<1>3. Len(Record(tag, t)) = Len(t) + 2
  BY RecordIs
<1>4. c + (Len(t) + 2) <= Len(Whole) /\ c + Len(rd.pending) = Len(Whole)
  BY <1>3 DEF Has, Stands
<1> QED BY <1>1, <1>2, <1>4

\* A step of the reader.
LEMMA StepOpens ==
  ASSUME NEW r, Step(r), OpensFor(r)
  PROVE  OpensInv'
<1>1. /\ kind' = kind /\ chunks' = chunks /\ saved' = saved /\ rd' = r
  BY DEF Step
<1>2. HeaderSplit' = HeaderSplit /\ LongEntry' = LongEntry
  BY <1>1 DEF HeaderSplit, LongEntry
<1>3. \A i : CutAt(i)' <=> CutAt(i)
  BY <1>1 DEF CutAt, IsRecord, FilesEnd
<1>4. GivenTo(rd)' = GivenTo(r)
  BY <1>1 DEF GivenTo, Given, Whole, BytesOf
<1>5. Uncut(rd)' <=> Uncut(r)
  BY <1>1, <1>2, <1>3, <1>4 DEF Uncut
<1>6. \A i : TooLong(saved[i])' <=> TooLong(saved[i])
  BY <1>1 DEF TooLong
<1> QED BY <1>1, <1>2, <1>5, <1>6 DEF OpensInv, OpensFor

\* A reader that has not begun.
LEMMA UnreadOpens == ASSUME rd' = Unread PROVE OpensInv'
<1>1. /\ rd'.phase = "idle" /\ rd'.got = << >>
  BY DEF Unread
<1>2. Uncut(rd)'
  BY <1>1 DEF Uncut
<1>3. DOMAIN rd'.got = {}
  BY <1>1
<1> QED BY <1>1, <1>2, <1>3 DEF OpensInv, OpensFor

LEMMA PieceIs == Partial <=> Piece(rd.pending)
BY DEF Partial, Short, Length0, Piece

\* A record that spans some text is a record.
LEMMA SpansIs == ASSUME NEW c, NEW e, Spans(c, e) PROVE IsRecord(c)
BY DEF Spans, IsRecord

\* What the reader is for the other properties it stays when it reads a record.
LEMMA ReadOpens ==
  ASSUME OpensInv, rd.phase = "record", NEW r, r.phase = "record", r.way = rd.way, r.rest = rd.rest,
         r.end = rd.end, kind = "vault" => \A i \in DOMAIN r.got : ~TooLong(saved[i])
  PROVE  OpensFor(r)
<1>1. GivenTo(r) = GivenTo(rd)
  BY DEF GivenTo, Given
<1>2. Uncut(rd)
  BY DEF OpensInv, OpensFor
<1>3. Uncut(r)
  BY <1>1, <1>2 DEF Uncut
<1> QED BY <1>3 DEF OpensFor

\* Where the reader of a sealed file is that has not seen the end.
LEMMA SealedPlace ==
  ASSUME BodyInv, kind = "sealed", rd.phase \in {"chunk", "record"}, ~rd.end
  PROVE  \E j \in 0 .. Len(Given(rd)), c \in Nat, tag \in Nat, t \in Raw :
           /\ GivenTo(rd) = j /\ Bound(rd, j) \in Nat /\ Stands(rd, j, c)
           /\ rd.rest = << >> => j = Len(Given(rd))
           /\ Has(Whole, c, Record(tag, t)) /\ Len(t) \in Nat /\ Len(t) <= PartLen + 2
           /\ Spans(c, c + 2 + Len(t)) /\ saved \in Seq(File)
<1>0. rd.phase # "idle" /\ Len(Whole) \in Nat
  BY RdIs
<1>1. PICK j \in 0 .. Len(Given(rd)) :
        /\ Bound(rd, j) \in 0 .. Len(Whole)
        /\ \/ rd.end /\ Past(rd, j)
           \/ /\ ~rd.end
              /\ \E c \in 0 .. Len(Whole) :
                   Stands(rd, j, c) /\ IF kind = "vault" THEN InVault(rd, c) ELSE InSealed(rd, c)
  BY Cursor
<1>2. PICK c \in 0 .. Len(Whole) : Stands(rd, j, c) /\ InSealed(rd, c)
  BY <1>1
<1>3. c \in Nat /\ Bound(rd, j) \in Nat
  BY <1>0, <1>1
<1>4. PICK tag \in Nat, t \in Raw :
        Has(Whole, c, Record(tag, t)) /\ Len(t) \in Nat /\ Len(t) <= PartLen + 2 /\ Spans(c, c + 2 + Len(t))
  BY <1>0, <1>2, <1>3, SealedRecord
<1>5. saved \in Seq(File)
  BY <1>0, FilesOnDisk
<1>6. FedTo(rd, j)
  BY <1>2 DEF Stands
<1>7. GivenTo(rd) = j /\ (rd.rest = << >> => j = Len(Given(rd)))
  BY <1>0, <1>6, FedIs
<1> QED BY <1>2, <1>3, <1>4, <1>5, <1>7

\* Where the reader of a vault is that has not seen the end.
LEMMA VaultPlace ==
  ASSUME BodyInv, kind = "vault", rd.phase \in {"chunk", "record"}, ~rd.end
  PROVE  \E j \in 0 .. Len(Given(rd)), c \in Nat, tag \in Nat, t \in Raw :
           /\ Bound(rd, j) \in Nat /\ Stands(rd, j, c)
           /\ rd.rest = << >> => j = Len(Given(rd))
           /\ Has(Whole, c, Record(tag, t)) /\ Len(t) \in Nat /\ (Len(t) <= MaxEntry \/ LongEntry)
<1>0. rd.phase # "idle" /\ Len(Whole) \in Nat
  BY RdIs
<1>1. PICK j \in 0 .. Len(Given(rd)) :
        /\ Bound(rd, j) \in 0 .. Len(Whole)
        /\ \/ rd.end /\ Past(rd, j)
           \/ /\ ~rd.end
              /\ \E c \in 0 .. Len(Whole) :
                   Stands(rd, j, c) /\ IF kind = "vault" THEN InVault(rd, c) ELSE InSealed(rd, c)
  BY Cursor
<1>2. PICK c \in 0 .. Len(Whole) : Stands(rd, j, c) /\ InVault(rd, c)
  BY <1>1
<1>3. c \in Nat /\ Bound(rd, j) \in Nat
  BY <1>0, <1>1
<1>4. PICK tag \in Nat, t \in Raw :
        Has(Whole, c, Record(tag, t)) /\ Len(t) \in Nat /\ (Len(t) <= MaxEntry \/ LongEntry)
  BY <1>0, <1>2, <1>3, VaultRecord
<1>6. FedTo(rd, j)
  BY <1>2 DEF Stands
<1>7. rd.rest = << >> => j = Len(Given(rd))
  BY <1>0, <1>6, FedIs
<1> QED BY <1>2, <1>3, <1>4, <1>7

LEMMA WaitOpens == ASSUME BodyInv, OpensInv, Wait PROVE OpensInv'
<1> DEFINE r == [rd EXCEPT !.phase = "chunk"]
<1>1. rd.phase = "record" /\ ~Malformed /\ Partial /\ Step(r)
  BY DEF Wait
<1>2. rd.phase # "idle" /\ rd \in RdType /\ Len(rd.pending) \in Nat /\ Len(Given(rd)) \in Nat /\ Len(Whole) \in Nat
  BY <1>1, RdIs
<1>3. /\ r.phase = "chunk" /\ r.way = rd.way /\ r.rest = rd.rest /\ r.end = rd.end
      /\ r.got = rd.got /\ r.pending = rd.pending
  BY <1>2 DEF RdType
<1> HIDE DEF r
<1>4. GivenTo(r) = GivenTo(rd)
  BY <1>3 DEF GivenTo, Given
<1>5. Uncut(rd) /\ (kind = "vault" => \A i \in DOMAIN r.got : ~TooLong(saved[i]))
  BY <1>3 DEF OpensInv, OpensFor
<1>6. ASSUME kind = "sealed", rd.way = "extract", ~rd.end, NEW i \in Nat, CutAt(i), i = GivenTo(rd) PROVE FALSE
  <2>1. PICK j \in 0 .. Len(Given(rd)), c \in Nat, tag \in Nat, t \in Raw :
           /\ GivenTo(rd) = j /\ Bound(rd, j) \in Nat /\ Stands(rd, j, c)
           /\ rd.rest = << >> => j = Len(Given(rd))
           /\ Has(Whole, c, Record(tag, t)) /\ Len(t) \in Nat /\ Len(t) <= PartLen + 2
           /\ Spans(c, c + 2 + Len(t)) /\ saved \in Seq(File)
    BY <1>1, <1>6, SealedPlace
  <2>2. j # Len(Given(rd))
    <3>1. CASE j = Len(Given(rd))
      <4>1. Bound(rd, j) = Len(Whole)
        BY <3>1 DEF Bound, End
      <4> QED BY <1>1, <1>2, <2>1, <4>1, NoPieceAtEnd
    <3> QED BY <3>1
  <2>3. PICK p \in Nat : IsRecord(p) /\ p + 1 = i * ChunkLen
    BY <1>6 DEF CutAt
  <2>4. Bound(rd, j) = p + 1 /\ c + Len(rd.pending) = p + 1
    BY <1>6, <2>1, <2>2, <2>3 DEF Bound, End, Stands
  <2>5. p = c \/ p + 2 <= c \/ c + 2 + Len(t) <= p
    BY <2>1, <2>3, Apart
  <2>6. ~Partial <=> Len(t) + 2 <= Len(rd.pending)
    BY <1>2, <2>1, NextRecord
  <2>7. p # c
    <3>1. ASSUME p = c PROVE FALSE
      <4> DEFINE l == Len(rd.pending)
      <4>1. l \in Nat /\ p \in Nat /\ p + l = p + 1
        BY <1>2, <2>3, <2>4, <3>1
      <4> HIDE DEF l
      <4>3. l = 1
        BY <4>1
      <4>2. Short /\ rd.pending # << >>
        BY <4>3 DEF Short, HeaderLen, l
      <4> QED BY <1>1, <1>6, <4>2 DEF Malformed
    <3> QED BY <3>1
  <2> QED BY <1>1, <1>2, <2>1, <2>4, <2>5, <2>6, <2>7, SMTT(30)
<1>7. Uncut(r)
  BY <1>1, <1>3, <1>4, <1>5, <1>6 DEF Uncut
<1>8. OpensFor(r)
  BY <1>1, <1>3, <1>5, <1>7, PieceIs DEF OpensFor
<1> QED BY <1>1, <1>8, StepOpens

LEMMA RefuseOpens == ASSUME BodyInv, OpensInv, Refuse PROVE OpensInv'
<1> DEFINE r == [rd EXCEPT !.phase = "failed"]
<1>1. rd.phase = "record" /\ Malformed /\ Step(r)
  BY DEF Refuse, Fail
<1>2. /\ rd.phase # "idle" /\ rd \in RdType /\ Len(rd.pending) \in Nat /\ Len(Given(rd)) \in Nat
      /\ Len(Whole) \in Nat /\ (rd.way = "vault" <=> kind = "vault") /\ kind \in {"vault", "sealed"}
  BY <1>1, RdIs
<1>3. r.phase = "failed" /\ r.way = rd.way /\ r.got = rd.got
  BY <1>2 DEF RdType
<1> HIDE DEF r
<1>4. kind = "vault" => \A i \in DOMAIN r.got : ~TooLong(saved[i])
  BY <1>3 DEF OpensInv, OpensFor
<1>5. Uncut(r)
  BY <1>3 DEF Uncut
<1>6. ASSUME kind = "vault" PROVE LongEntry
  <2>1. ~Short /\ Length0 > MaxEntry /\ MaxEntry \in Nat
    BY <1>1, <1>2, <1>6, SizeAssumption DEF Malformed, Limit
  <2>2. CASE rd.end
    <3>1. PICK j \in 0 .. Len(Given(rd)) : Past(rd, j) \/ ~rd.end
      BY <1>1, Cursor
    <3>2. \A x \in 1 .. Len(rd.pending) : rd.pending[x] = Byte(0)
      BY <2>2, <3>1 DEF Past
    <3>3. 2 \in 1 .. Len(rd.pending)
      BY <1>2, <2>1 DEF Short, HeaderLen
    <3>4. Length0 = 0
      BY <3>2, <3>3 DEF Length0, Byte
    <3> QED BY <2>1, <3>4
  <2>3. CASE ~rd.end
    <3>1. PICK j \in 0 .. Len(Given(rd)), c \in Nat, tag \in Nat, t \in Raw :
             /\ Bound(rd, j) \in Nat /\ Stands(rd, j, c)
             /\ rd.rest = << >> => j = Len(Given(rd))
             /\ Has(Whole, c, Record(tag, t)) /\ Len(t) \in Nat /\ (Len(t) <= MaxEntry \/ LongEntry)
      BY <1>1, <1>6, <2>3, VaultPlace
    <3>2. Length0 = Len(t)
      BY <1>2, <2>1, <3>1, NextRecord
    <3> QED BY <2>1, <3>1, <3>2
  <2> QED BY <2>2, <2>3
<1>7. ASSUME kind = "sealed" PROVE rd.way = "extract" /\ HeaderSplit
  <2>1. ~rd.end
    <3>1. PICK j \in 0 .. Len(Given(rd)) : Past(rd, j) \/ ~rd.end
      BY <1>1, Cursor
    <3> QED BY <1>1, <1>2, <1>7, <3>1 DEF Past
  <2>2. PICK j \in 0 .. Len(Given(rd)), c \in Nat, tag \in Nat, t \in Raw :
           /\ GivenTo(rd) = j /\ Bound(rd, j) \in Nat /\ Stands(rd, j, c)
           /\ rd.rest = << >> => j = Len(Given(rd))
           /\ Has(Whole, c, Record(tag, t)) /\ Len(t) \in Nat /\ Len(t) <= PartLen + 2
           /\ Spans(c, c + 2 + Len(t)) /\ saved \in Seq(File)
    BY <1>1, <1>7, <2>1, SealedPlace
  <2>3. rd.way \in {"list", "extract"}
    BY <1>2, <1>7 DEF RdType
  <2>4. Short
    <3>1. ASSUME ~Short PROVE FALSE
      <4>1. Length0 = Len(t)
        BY <1>2, <2>2, <3>1, NextRecord
      <4>2. Length0 > PartLen + 2 /\ PartLen \in Nat
        BY <1>1, <2>3, <3>1, SizeAssumption DEF Malformed, Limit
      <4> QED BY <2>2, <4>1, <4>2
    <3> QED BY <3>1
  <2> DEFINE l == Len(rd.pending)
             b == Bound(rd, j)
             w == Len(Whole)
  <2>5. l \in Nat /\ l < 2 /\ c + l = b
    BY <1>2, <2>2, <2>4 DEF Short, HeaderLen, Stands
  <2>6. l # 0
    <3>1. rd.pending # << >> /\ rd.pending \in Raw
      BY <1>1, <1>2, <2>4 DEF Malformed, RdType
    <3> QED BY <3>1, EmptySeq DEF Raw
  <2>7. c + (Len(t) + 2) <= w
    <3>1. Len(Record(tag, t)) = Len(t) + 2
      BY <2>2, RecordIs
    <3> QED BY <2>2, <3>1 DEF Has
  <2> HIDE DEF l, b, w
  <2>8. b = c + 1 /\ b # w
    <3>1. l = 1
      BY <2>5, <2>6
    <3> QED BY <1>2, <2>2, <2>5, <2>7, <3>1 DEF w
  <2>9. j # Len(Given(rd)) /\ j * ChunkLen = c + 1
    BY <2>8 DEF Bound, End, b, w
  <2>10. rd.way = "extract"
    <3>1. ASSUME rd.way = "list" PROVE FALSE
      <4>1. Len(Given(rd)) = 1
        BY <3>1 DEF Given
      <4>2. j = 0
        BY <2>2, <2>9, <4>1
      <4>3. ChunkLen \in Nat
        BY SizeAssumption
      <4>4. j * ChunkLen = 0
        BY <4>2, <4>3
      <4> QED BY <2>2, <2>9, <4>4
    <3> QED BY <2>3, <3>1
  <2>11. IsRecord(c)
    BY <2>2, SpansIs
  <2>12. j \in Nat /\ CutAt(j)
    BY <1>2, <2>2, <2>9, <2>11 DEF CutAt
  <2> QED BY <2>2, <2>10, <2>12, SplitIs
<1>8. OpensFor(r)
  BY <1>2, <1>3, <1>4, <1>5, <1>6, <1>7 DEF OpensFor
<1> QED BY <1>1, <1>8, StepOpens

LEMMA ReadKeyOpens == ASSUME BodyInv, OpensInv, ReadKey PROVE OpensInv'
<1> DEFINE k == Value[1][1]
           r == [Beyond EXCEPT !.key = k]
<1>1. rd.phase = "record" /\ Step(r)
  BY DEF ReadKey, Reading
<1>2. rd.phase # "idle" /\ rd \in RdType
  BY <1>1, RdIs
<1> HIDE DEF k
<1>3. /\ r.phase = rd.phase /\ r.way = rd.way /\ r.rest = rd.rest /\ r.end = rd.end /\ r.got = rd.got
  BY <1>2 DEF RdType, Beyond
<1> HIDE DEF r
<1>4. kind = "vault" => \A i \in DOMAIN r.got : ~TooLong(saved[i])
  BY <1>3 DEF OpensInv, OpensFor
<1>5. OpensFor(r)
  BY <1>1, <1>3, <1>4, ReadOpens
<1> QED BY <1>1, <1>5, StepOpens

LEMMA ReadEndOpens == ASSUME BodyInv, OpensInv, ReadEnd PROVE OpensInv'
<1> DEFINE r == [Beyond EXCEPT !.end = TRUE, !.phase = "chunk"]
<1>1. rd.phase = "record" /\ rd.way = "vault" /\ Step(r)
  BY DEF ReadEnd, Reading
<1>2. rd.phase # "idle" /\ rd \in RdType /\ kind = "vault"
  BY <1>1, RdIs
<1>3. r.phase = "chunk" /\ r.end = TRUE /\ r.got = rd.got
  BY <1>2 DEF RdType, Beyond
<1> HIDE DEF r
<1>4. \A i \in DOMAIN r.got : ~TooLong(saved[i])
  BY <1>2, <1>3 DEF OpensInv, OpensFor
<1>5. OpensFor(r)
  BY <1>2, <1>3, <1>4 DEF OpensFor, Uncut
<1> QED BY <1>1, <1>5, StepOpens

LEMMA ReadEntryOpens == ASSUME BodyInv, OpensInv, ReadEntry PROVE OpensInv'
<1> DEFINE m == Fields(Value)
           long == \E x \in DOMAIN m : Len(m[x][2]) > MaxField
           e == Sealed(m, rd.key, rd.at)
           d == Len(Secrets(m))
           r == [Beyond EXCEPT !.got = Append(@, e), !.at = @ + d]
           q == [rd EXCEPT !.phase = "failed"]
<1>1. Reading(ENTRY) /\ IF rd.key = 0 \/ long THEN Step(q) ELSE Step(r)
  BY DEF ReadEntry, Fail
<1>2. rd.phase = "record" /\ ~Malformed /\ ~Partial /\ rd.phase # "idle"
  BY <1>1 DEF Reading
<1>3. rd \in RdType /\ (rd.way = "vault" <=> kind = "vault") /\ kind \in {"vault", "sealed"}
  BY <1>2, RdIs
<1>4. ~rd.end
  BY <1>1, PastReads DEF ENTRY, END
<1>5. kind = "vault"
  <2>1. ASSUME kind = "sealed" PROVE FALSE
    BY <1>1, <1>4, <2>1, SealedReads DEF ENTRY, FILE_HDR, FILE_PART, FILE_END
  <2> QED BY <1>3, <2>1
<1>6. PICK c \in Nat, i \in 1 .. Len(saved) :
         InVault(rd, c) /\ EntryNext(c, i) /\ Value = EntryText(saved, version, i) /\ Length0 = Len(Value)
  BY <1>1, <1>4, <1>5, VaultReads DEF ENTRY, KEY, END
<1>7. /\ saved \in Seq(EntryMeant) /\ Len(saved) \in Nat /\ rd.got \in Seq(Entry)
      /\ Len(rd.got) \in Nat /\ version \in 1 .. MaxSaves
  <2>1. saved \in Seq(EntryMeant) /\ Len(saved) \in Nat /\ Len(rd.got) \in 0 .. Len(saved) /\ rd.got \in Seq(Entry)
    BY <1>2, <1>5, <1>6, VaultNext
  <2> QED BY <1>2, <2>1, RdIs
<1>8. i = Len(rd.got) + 1 /\ rd.key = version /\ rd.key # 0 /\ i \in DOMAIN saved
  <2>1. i = Len(rd.got) + 1 /\ rd.key = version
    BY <1>6 DEF EntryNext
  <2>2. i \in DOMAIN saved
    BY <1>6, <1>7, LenProperties
  <2> QED BY <1>7, <2>1, <2>2
<1> DEFINE a == EntryAt(saved, i)
           t == saved[i]
<1>9. a \in Nat /\ t \in EntryMeant /\ m = Enciphered(t, version, a) /\ Len(Value) = Len(Written(t))
  <2>1. t \in EntryMeant /\ Len(EntryText(saved, version, i)) = Len(Written(saved[i]))
        /\ Fields(EntryText(saved, version, i)) = Enciphered(saved[i], version, EntryAt(saved, i))
    BY <1>6, <1>7, EntryTextIs
  <2>2. a \in Nat
    <3>1. i \in 1 .. Len(saved) + 1
      BY <1>6, <1>7
    <3> QED BY <1>7, <3>1, EntryAtIs
  <2> QED BY <1>6, <2>1, <2>2
<1> HIDE DEF m, a, t
<1>10. DOMAIN m = DOMAIN t /\ \A x \in DOMAIN t : Len(m[x][2]) = Len(t[x][2])
  <2>1. /\ Len(m) = Len(t) /\ DOMAIN m = 1 .. Len(t)
        /\ \A x \in 1 .. Len(t) : Len(m[x][2]) = Len(t[x][2])
    BY <1>7, <1>9, EncipheredIs
  <2>2. DOMAIN t = 1 .. Len(t)
    BY <1>9, EntryType
  <2> QED BY <2>1, <2>2
<1>11. TooLong(t) <=> long \/ Len(Value) > MaxEntry
  BY <1>9, <1>10 DEF TooLong
<1>12. ~(Length0 > MaxEntry)
  BY <1>2, <1>3, <1>5 DEF Malformed, Partial, Limit
<1>13. CASE long /\ Step(q)
  <2>1. q.phase = "failed" /\ q.got = rd.got
    BY <1>3 DEF RdType
  <2> HIDE DEF q, long
  <2>2. LongEntry
    BY <1>8, <1>11, <1>13 DEF LongEntry, t
  <2>3. \A x \in DOMAIN q.got : ~TooLong(saved[x])
    BY <1>5, <2>1 DEF OpensInv, OpensFor
  <2>4. OpensFor(q)
    BY <1>5, <2>1, <2>2, <2>3 DEF OpensFor, Uncut
  <2> QED BY <1>13, <2>4, StepOpens
<1>14. CASE ~long /\ Step(r)
  <2> HIDE DEF e, d
  <2>1. /\ r.phase = rd.phase /\ r.way = rd.way /\ r.rest = rd.rest /\ r.end = rd.end
        /\ r.got = Append(rd.got, e)
    BY <1>3 DEF RdType, Beyond
  <2> HIDE DEF r, long
  <2>2. ~TooLong(saved[i])
    BY <1>6, <1>11, <1>12, <1>14 DEF t
  <2>3. DOMAIN r.got = 1 .. Len(rd.got) + 1 /\ DOMAIN rd.got = 1 .. Len(rd.got)
    <3>1. DOMAIN rd.got = 1 .. Len(rd.got)
      BY <1>7, LenProperties
    <3>2. DOMAIN Append(rd.got, e) = 1 .. Len(rd.got) + 1
      BY <1>7
    <3> QED BY <2>1, <3>1, <3>2
  <2>4. \A x \in DOMAIN rd.got : ~TooLong(saved[x])
    BY <1>5 DEF OpensInv, OpensFor
  <2>5. ASSUME NEW x \in DOMAIN r.got PROVE ~TooLong(saved[x])
    <3>1. x \in DOMAIN rd.got \/ x = i
      BY <1>7, <1>8, <2>3
    <3> QED BY <2>2, <2>4, <3>1
  <2>6. OpensFor(r)
    BY <1>2, <2>1, <2>5, ReadOpens
  <2> QED BY <1>14, <2>6, StepOpens
<1>15. (long /\ Step(q)) \/ (~long /\ Step(r))
  <2> HIDE DEF long, q, r
  <2> QED BY <1>1, <1>8
<1> HIDE DEF long, q, r
<1> QED BY <1>13, <1>14, <1>15

LEMMA ReadHeaderOpens == ASSUME BodyInv, OpensInv, ReadHeader PROVE OpensInv'
<1> DEFINE v == <<[path |-> Value[1][1], size |-> Value[2][1], body |-> << >>]>>
           u == Complete(Beyond)
           r == [u EXCEPT !.part = v]
<1>1. Reading(FILE_HDR) /\ (~WrongSize => Step(r))
  BY DEF ReadHeader
<1>2. kind = "sealed" /\ ~rd.end /\ rd.phase # "idle" /\ rd.phase = "record"
  BY <1>1, SealedOnly
<1>3. PICK i \in 1 .. Len(saved) : \E c \in Nat : HeaderNext(c, i)
  BY <1>1, <1>2, SealedReads DEF FILE_HDR, FILE_PART, FILE_END
<1>4. FilesRead(i - 1) /\ Beyond \in RdType /\ i - 1 \in 0 .. Len(saved)
  <2>1. FilesRead(i - 1)
    BY <1>3 DEF HeaderNext
  <2>2. Beyond \in RdType
    BY <1>1, <1>2, SealedReads
  <2>3. Len(saved) \in Nat
    BY <1>2, FilesOnDisk
  <2> QED BY <1>3, <2>1, <2>2, <2>3
<1> HIDE DEF v
<1>5. /\ ~WrongSize /\ u \in RdType /\ u.phase = rd.phase /\ u.way = rd.way /\ u.rest = Beyond.rest
      /\ u.end = rd.end
  BY <1>2, <1>4, CompleteIs
<1> HIDE DEF u
<1>6. r.phase = "record" /\ r.way = rd.way /\ r.rest = rd.rest /\ r.end = rd.end
  BY <1>2, <1>5, BeyondIs DEF RdType
<1> HIDE DEF r
<1>7. OpensFor(r)
  BY <1>2, <1>6, ReadOpens
<1> QED BY <1>1, <1>5, <1>7, StepOpens

LEMMA ReadPartOpens == ASSUME BodyInv, OpensInv, ReadPart PROVE OpensInv'
<1> DEFINE h == rd.part[1]
           v == <<[path |-> h.path, size |-> h.size, body |-> h.body \o Value]>>
           r == [Beyond EXCEPT !.part = v]
           bad == rd.part = << >> \/ Len(h.body) + Length0 > h.size
<1>1. Reading(FILE_PART) /\ (~bad => Step(r))
  BY DEF ReadPart
<1>2. kind = "sealed" /\ ~rd.end /\ rd.phase # "idle" /\ rd.phase = "record"
  BY <1>1, SealedOnly
<1>3a. PICK c \in Nat : \E i \in 1 .. Len(saved) : \E b \in 1 .. Len(Parts(saved[i].body)) :
           /\ PartNext(c, i, b) /\ c + 2 + Length0 = FileAt(saved, i, b + 1)
           /\ Value = SubSeq(saved[i].body, PartEnd(saved[i].body, b - 1) + 1, PartEnd(saved[i].body, b))
           /\ Length0 = Len(Value)
  <2>1. FILE_PART # FILE_HDR /\ FILE_PART # FILE_END
    BY DEF FILE_HDR, FILE_PART, FILE_END
  <2> QED BY <1>1, <1>2, <2>1, SealedReads
<1>3. PICK i \in 1 .. Len(saved) : \E b \in 1 .. Len(Parts(saved[i].body)) :
           /\ PartNext(c, i, b) /\ c + 2 + Length0 = FileAt(saved, i, b + 1)
           /\ Value = SubSeq(saved[i].body, PartEnd(saved[i].body, b - 1) + 1, PartEnd(saved[i].body, b))
           /\ Length0 = Len(Value)
  BY <1>3a
<1>4. PICK b \in 1 .. Len(Parts(saved[i].body)) :
           /\ PartNext(c, i, b)
           /\ Value = SubSeq(saved[i].body, PartEnd(saved[i].body, b - 1) + 1, PartEnd(saved[i].body, b))
           /\ Length0 = Len(Value)
  BY <1>3
<1> DEFINE s == saved[i].body
           x == PartEnd(s, b - 1)
           y == PartEnd(s, b)
           p == SubSeq(s, 1, x)
<1>5. s \in PlainText
  <2>1. saved \in Seq(File)
    BY <1>2, FilesOnDisk
  <2>2. saved[i] \in File
    BY <1>3, <2>1, FileTextsAre
  <2> QED BY <2>2 DEF File
<1>6. /\ x \in Nat /\ y \in Nat /\ y <= Len(s) /\ Len(s) \in Nat /\ x <= Len(s)
      /\ Len(SubSeq(s, x + 1, y)) = y - x
  <2>1. /\ Len(Parts(s)) \in Nat /\ Len(s) \in Nat
        /\ \A k \in 0 .. Len(Parts(s)) : PartEnd(s, k) \in 0 .. Len(s)
        /\ Len(SubSeq(s, PartEnd(s, b - 1) + 1, PartEnd(s, b))) = PartEnd(s, b) - PartEnd(s, b - 1)
    BY <1>4, <1>5, PartsAre
  <2>2. b - 1 \in 0 .. Len(Parts(s)) /\ b \in 0 .. Len(Parts(s))
    BY <1>4, <2>1
  <2>3. x \in 0 .. Len(s) /\ y \in 0 .. Len(s)
    BY <2>1, <2>2
  <2> QED BY <2>1, <2>3
<1>7. rd.part = <<[path |-> saved[i].path, size |-> Len(s), body |-> p]>> /\ Length0 = y - x
  BY <1>4, <1>6 DEF PartNext
<1>8. Len(p) = x
  <2>1. s \in Seq(Plain) /\ x \in 0 .. Len(s)
    BY <1>5, <1>6 DEF PlainText
  <2> HIDE DEF s, x
  <2> QED BY <2>1, FrontIs
<1>9. ~bad
  <2> HIDE DEF s, x, y, p
  <2>1. h.body = p /\ h.size = Len(s) /\ rd.part # << >>
    BY <1>7
  <2>2. x + (y - x) <= Len(s)
    BY <1>6
  <2> QED BY <1>6, <1>7, <1>8, <2>1, <2>2
<1> HIDE DEF v, bad
<1>10. Beyond \in RdType
  BY <1>1, <1>2, SealedReads
<1>11. r.phase = "record" /\ r.way = rd.way /\ r.rest = rd.rest /\ r.end = rd.end
  BY <1>2, <1>10, BeyondIs DEF RdType
<1> HIDE DEF r
<1>12. OpensFor(r)
  BY <1>2, <1>11, ReadOpens
<1> QED BY <1>1, <1>9, <1>12, StepOpens

\* No more is read than the chunks hold.
LEMMA BoundAtMost ==
  ASSUME BodyInv, rd.phase # "idle", rd.way = "extract", NEW j \in 0 .. Len(Given(rd))
  PROVE  Bound(rd, j) <= j * ChunkLen /\ Bound(rd, j) \in Nat /\ j * ChunkLen \in Nat
<1> DEFINE n == Len(chunks)
           l == Len(Whole)
           b == Len(chunks[n].bytes)
<1>1. ChunkLen \in Nat
  BY SizeAssumption
<1>2. Given(rd) = chunks
  BY DEF Given
<1>3. /\ l \in Nat /\ n \in Nat \ {0}
      /\ End(l, n, n) = l /\ End(l, n, n) = End(l, n, n - 1) + b /\ b \in Nat /\ b <= ChunkLen
  <2>1. Cuts(chunks, Whole) /\ \A i \in 1 .. Len(chunks) : Len(chunks[i].bytes) <= ChunkLen
    BY RdIs, GivenIs
  <2>2. n \in Nat \ {0} /\ l \in Nat
    BY <2>1 DEF Cuts
  <2>3. n \in 1 .. n
    BY <2>2
  <2> QED BY <2>1, <2>2, <2>3 DEF Cuts
<1> HIDE DEF n, l, b
<1>4. l = (n - 1) * ChunkLen + b /\ n * ChunkLen = (n - 1) * ChunkLen + ChunkLen /\ (n - 1) * ChunkLen \in Nat
  BY <1>1, <1>3 DEF End
<1>5. l <= n * ChunkLen
  <2> DEFINE x == (n - 1) * ChunkLen
             y == n * ChunkLen
  <2>1. l = x + b /\ y = x + ChunkLen /\ x \in Nat
    BY <1>4
  <2> HIDE DEF x, y
  <2>2. b \in Nat /\ b <= ChunkLen /\ ChunkLen \in Nat
    BY <1>1, <1>3
  <2>3. l <= y
    BY <2>1, <2>2
  <2> QED BY <2>3 DEF y
<1>6. j \in 0 .. n /\ Bound(rd, j) = End(l, n, j)
  BY <1>2 DEF Bound, n, l
<1>7. j \in Nat /\ j * ChunkLen \in Nat
  BY <1>1, <1>3, <1>6
<1>8. CASE j = n
  <2>1. Bound(rd, j) = l
    BY <1>6, <1>8 DEF End
  <2> QED BY <1>3, <1>5, <1>7, <1>8, <2>1
<1>9. CASE j # n
  <2>1. Bound(rd, j) = j * ChunkLen
    BY <1>6, <1>9 DEF End
  <2> QED BY <1>7, <2>1
<1> QED BY <1>8, <1>9

LEMMA ReadFileEndOpens == ASSUME BodyInv, OpensInv, ReadFileEnd PROVE OpensInv'
<1> DEFINE u == Complete(Beyond)
           r == [u EXCEPT !.end = TRUE, !.phase = "chunk"]
<1>1. Reading(FILE_END) /\ (~WrongSize => Step(r))
  BY DEF ReadFileEnd
<1>2. kind = "sealed" /\ ~rd.end /\ rd.phase # "idle" /\ rd.phase = "record"
  BY <1>1, SealedOnly
<1>3. PICK j \in 0 .. Len(Given(rd)), c \in Nat :
        /\ Beyond \in RdType /\ Stands(Beyond, j, c + 2 + Length0)
        /\ Bound(rd, j) \in 0 .. Len(Whole)
        /\ FileEndNext(c) /\ c + 2 + Length0 = Len(OnDisk)
  BY <1>1, <1>2, SealedReads DEF FILE_HDR, FILE_PART, FILE_END
<1>4. FilesRead(Len(saved)) /\ saved \in Seq(File) /\ Len(saved) \in 0 .. Len(saved)
  <2>1. saved \in Seq(File) /\ Len(saved) \in Nat
    BY <1>2, FilesOnDisk
  <2> QED BY <1>3, <2>1 DEF FileEndNext
<1>5. /\ ~WrongSize /\ u \in RdType /\ u.phase = rd.phase /\ u.way = rd.way
  BY <1>2, <1>3, <1>4, CompleteIs
<1> HIDE DEF u
<1>6. r.phase = "chunk" /\ r.way = rd.way /\ r.end = TRUE
  BY <1>5 DEF RdType
<1> HIDE DEF r
<1>7. ASSUME rd.way = "extract", HeaderSplit PROVE FALSE
  <2>1. PICK i \in Nat : CutAt(i)
    BY <1>4, <1>7, SplitIs
  <2>2. PICK p \in Nat : IsRecord(p) /\ p + 1 = i * ChunkLen
    BY <2>1 DEF CutAt
  <2>3. /\ Given(Beyond) = Given(rd) /\ Bound(Beyond, j) = Bound(rd, j)
    <3>1. Beyond.way = rd.way
      BY <1>2, BeyondIs
    <3>2. Given(Beyond) = Given(rd)
      BY <3>1 DEF Given
    <3> QED BY <3>2 DEF Bound
  <2>4. FedTo(rd, j)
    <3>1. FedTo(Beyond, j) /\ Beyond.rest = rd.rest
      BY <1>2, <1>3, BeyondIs DEF Stands
    <3> QED BY <2>3, <3>1 DEF FedTo
  <2>5. GivenTo(rd) = j
    BY <1>2, <2>4, FedIs
  <2>6. i >= j
    BY <1>2, <1>7, <2>1, <2>5 DEF OpensInv, OpensFor, Uncut
  <2>7. Bound(rd, j) <= j * ChunkLen /\ Bound(rd, j) \in Nat /\ j * ChunkLen \in Nat
    BY <1>2, <1>7, BoundAtMost
  <2>8. j * ChunkLen <= i * ChunkLen
    <3>1. ChunkLen \in Nat /\ j \in Nat
      BY <1>2, <1>3, SizeAssumption, RdIs
    <3>2. \A x, y, d \in Nat : x <= y => x * d <= y * d
      OBVIOUS
    <3> QED BY <2>6, <3>1, <3>2
  <2>9. FilesEnd \in Nat /\ FilesEnd + 2 <= Bound(rd, j)
    <3>1. FilesEnd \in Nat /\ FilesEnd + 2 = Len(OnDisk)
      BY <1>2, FilesOnDisk
    <3>2. Len(OnDisk) + Len(Beyond.pending) = Bound(rd, j) /\ Len(Beyond.pending) \in Nat
      <4>1. Len(Beyond.pending) \in Nat
        BY <1>3, LenProperties DEF RdType, Raw
      <4> QED BY <1>3, <2>3, <4>1 DEF Stands
    <3> QED BY <3>1, <3>2
  <2>10. p <= FilesEnd
    <3>1. Spans(FilesEnd, FilesEnd + 2)
      BY DEF Spans
    <3> QED BY <1>4, <2>2, <3>1, Apart
  <2> DEFINE x == j * ChunkLen
             y == i * ChunkLen
             b == Bound(rd, j)
  <2>11. b <= x /\ x <= y /\ p + 1 = y /\ FilesEnd + 2 <= b /\ x \in Nat /\ b \in Nat
    BY <2>2, <2>7, <2>8, <2>9
  <2> HIDE DEF x, y, b
  <2> QED BY <2>2, <2>9, <2>10, <2>11
<1>8. Uncut(r)
  BY <1>6, <1>7 DEF Uncut
<1>9. OpensFor(r)
  BY <1>2, <1>6, <1>8 DEF OpensFor
<1> QED BY <1>1, <1>5, <1>9, StepOpens

\* The next chunk has the mark it should have.
LEMMA HeadIs ==
  ASSUME BodyInv, rd.phase # "idle", NEW j \in 0 .. Len(Given(rd)), FedTo(rd, j), rd.rest # << >>
  PROVE  /\ Authentic(Head(rd.rest), rd.rest) /\ Len(Tail(rd.rest)) = Len(rd.rest) - 1
         /\ Len(rd.rest) \in Nat /\ Len(Given(rd)) \in Nat
<1> DEFINE g == Given(rd)
           n == Len(g)
           i == j + 1
<1>1. /\ g \in Seq([last : BOOLEAN, bytes : Raw]) /\ n \in Nat \ {0}
      /\ g[n].last = TRUE /\ \A k \in 1 .. n : k # n => g[k].last = FALSE
  <2>1. Cuts(Given(rd), Whole)
    BY RdIs
  <2> QED BY <2>1 DEF Cuts
<1>2. rd.rest = SubSeq(g, i, n)
  BY DEF FedTo
<1>3. Len(rd.rest) = n - j
  BY FedIs
<1>4. rd.rest \in Seq([last : BOOLEAN, bytes : Raw])
  BY RdIs DEF RdType
<1>5. j \in 0 .. n
  BY DEF g, n
<1>6. j # n
  <2>1. Len(rd.rest) # 0
    BY <1>4, EmptySeq
  <2> HIDE DEF n
  <2> QED BY <1>1, <1>3, <2>1
<1> HIDE DEF g, n
<1>7. i \in 1 .. n /\ (n - j = 1 <=> i = n)
  BY <1>1, <1>5, <1>6
<1>8. i \in 1 .. Len(g) /\ n \in i .. Len(g)
  BY <1>1, <1>7 DEF n
<1> HIDE DEF i
<1>9. Head(rd.rest) = g[i]
  BY <1>1, <1>2, <1>8, HeadTailOfSubSeq
<1>10. g[i].last = (i = n)
  BY <1>1, <1>7
<1>11. Len(Tail(rd.rest)) = Len(rd.rest) - 1
  BY <1>4, HeadTailProperties
<1>12. Len(rd.rest) \in Nat
  BY <1>4, LenProperties
<1>13. Authentic(Head(rd.rest), rd.rest)
  BY <1>3, <1>7, <1>9, <1>10 DEF Authentic
<1> QED BY <1>1, <1>11, <1>12, <1>13 DEF n, g

LEMMA NextChunkOpens == ASSUME BodyInv, OpensInv, NextChunk PROVE OpensInv'
<1> DEFINE c == Head(rd.rest)
           r1 == [rd EXCEPT !.rest = Tail(@)]
           r2 == Fed(c)
           zeros == ToSet(c.bytes) \subseteq {Byte(0)}
           over == rd.end /\ rd.way # "vault"
<1>1. rd.phase = "chunk" /\ rd.phase # "idle" /\ rd.rest # << >>
  BY DEF NextChunk
<1>2. /\ rd \in RdType /\ Stored /\ Len(Whole) \in Nat /\ Len(OnDisk) \in Nat
      /\ (rd.way = "vault" <=> kind = "vault")
  BY <1>1, RdIs
<1>3. PICK j \in 0 .. Len(Given(rd)) : FedTo(rd, j) /\ (rd.end => Past(rd, j))
  BY <1>1, Cursor DEF Past, Stands
<1>4. /\ Authentic(c, rd.rest) /\ Len(Tail(rd.rest)) = Len(rd.rest) - 1
      /\ Len(rd.rest) \in Nat /\ Len(Given(rd)) \in Nat
  BY <1>1, <1>3, HeadIs
<1>5. IF over THEN (zeros /\ Step(r1)) \/ (~zeros /\ Fail) ELSE Step(r2)
  BY <1>4 DEF NextChunk
<1>6. Uncut(rd) /\ (kind = "vault" => \A i \in DOMAIN rd.got : ~TooLong(saved[i]))
  BY DEF OpensInv, OpensFor
<1>7. /\ r1.phase = "chunk" /\ r1.way = rd.way /\ r1.end = rd.end /\ r1.got = rd.got
  BY <1>1, <1>2 DEF RdType
<1>8. /\ r2.phase = "record" /\ r2.way = rd.way /\ r2.rest = Tail(rd.rest) /\ r2.end = rd.end /\ r2.got = rd.got
  BY <1>2 DEF RdType, Fed
<1> HIDE DEF r1, r2
<1>9. CASE over
  <2> DEFINE b == c.bytes
             B == Bound(rd, j)
  <2>1. /\ b \in Raw /\ Len(b) \in Nat /\ B \in 0 .. Len(Whole) /\ Bound(rd, j + 1) \in 0 .. Len(Whole)
        /\ Bound(rd, j + 1) = B + Len(b) /\ \A x \in 1 .. Len(b) : b[x] = Whole[B + x]
    BY <1>1, <1>3, ChunkIs
  <2>2. Len(OnDisk) <= B
    BY <1>3, <1>9 DEF Past
  <2>3. \A x \in Len(OnDisk) + 1 .. Len(Whole) : Whole[x] = Byte(0)
    BY <1>1, RdIs DEF Stored
  <2>4. zeros
    <3> HIDE DEF B
    <3>1. B \in Nat /\ B + Len(b) <= Len(Whole)
      BY <1>2, <2>1
    <3> HIDE DEF b
    <3>2. \A x \in 1 .. Len(b) : B + x \in Len(OnDisk) + 1 .. Len(Whole)
      BY <1>2, <2>1, <2>2, <3>1
    <3>3. \A x \in 1 .. Len(b) : b[x] = Byte(0)
      BY <2>1, <2>3, <3>2
    <3>4. DOMAIN b = 1 .. Len(b)
      BY <2>1, LenProperties DEF Raw
    <3>5. ToSet(b) \subseteq {Byte(0)}
      BY <3>3, <3>4 DEF ToSet
    <3> QED BY <3>5 DEF b
  <2>5. Step(r1)
    BY <1>5, <1>9, <2>4
  <2> HIDE DEF zeros, over, c
  <2>6. kind # "vault"
    BY <1>2, <1>9 DEF over
  <2>7. Uncut(r1)
    BY <1>1, <1>6, <1>7, <1>9 DEF Uncut, over
  <2>8. OpensFor(r1)
    BY <1>7, <1>9, <2>6, <2>7 DEF OpensFor, over
  <2> QED BY <2>5, <2>8, StepOpens
<1>10. CASE ~over
  <2> HIDE DEF zeros, c
  <2>1. Step(r2)
    BY <1>5, <1>10
  <2>2. GivenTo(r2) = GivenTo(rd) + 1 /\ GivenTo(rd) \in Int
    <3>1. Given(r2) = Given(rd)
      BY <1>8 DEF Given
    <3>2. Len(r2.rest) = Len(rd.rest) - 1
      BY <1>4, <1>8
    <3>3. GivenTo(r2) = Len(Given(rd)) - (Len(rd.rest) - 1)
      BY <3>1, <3>2 DEF GivenTo
    <3>4. GivenTo(rd) = Len(Given(rd)) - Len(rd.rest)
      BY DEF GivenTo
    <3> DEFINE x == Len(Given(rd))
               y == Len(rd.rest)
    <3>5. x \in Nat /\ y \in Nat /\ GivenTo(r2) = x - (y - 1) /\ GivenTo(rd) = x - y
      BY <1>4, <3>3, <3>4
    <3> HIDE DEF x, y
    <3> QED BY <3>5
  <2>3. Uncut(r2)
    <3>1. SUFFICES ASSUME kind = "sealed", rd.way = "extract" PROVE Uncut(r2)
      BY <1>8 DEF Uncut
    <3>2. ~rd.end
      BY <1>10, <3>1 DEF over
    <3>3. \A i \in Nat : CutAt(i) => i >= GivenTo(rd) /\ i # GivenTo(rd)
      BY <1>1, <1>6, <3>1, <3>2 DEF Uncut
    <3>4. \A i \in Nat : CutAt(i) => i >= GivenTo(r2)
      BY <2>2, <3>3
    <3> QED BY <1>8, <3>2, <3>4 DEF Uncut
  <2>4. OpensFor(r2)
    BY <1>6, <1>8, <2>3 DEF OpensFor
  <2> QED BY <2>1, <2>4, StepOpens
<1> QED BY <1>9, <1>10

LEMMA FinishOpens == ASSUME BodyInv, OpensInv, FinishReading PROVE OpensInv'
<1> DEFINE r == [rd EXCEPT !.phase = "done", !.pending = << >>]
           bad == \/ ~rd.end \/ rd.part # << >>
                  \/ (rd.way = "vault" /\ rd.key = 0)
                  \/ (rd.way = "extract" /\ ~(ToSet(rd.pending) \subseteq {Byte(0)}))
<1>1. rd.phase = "chunk" /\ rd.phase # "idle" /\ rd.rest = << >>
  BY DEF FinishReading
<1>2. IF bad THEN Fail ELSE (rd.way = "extract" /\ Step(r)) \/ rd' = Unread
  BY DEF FinishReading
<1>3. /\ rd \in RdType /\ Len(Whole) \in Nat /\ (rd.way = "vault" <=> kind = "vault")
      /\ kind \in {"vault", "sealed"} /\ version \in 1 .. MaxSaves
      /\ rd.pending \in Raw /\ Len(rd.pending) \in Nat
  BY <1>1, RdIs
<1>4. rd.end
  <2> SUFFICES ASSUME ~rd.end PROVE FALSE
    OBVIOUS
  <2>1. Partial
    BY <1>1, PieceIs DEF OpensInv, OpensFor
  <2>2. PICK j \in 0 .. Len(Given(rd)), c \in Nat, tag \in Nat, t \in Raw :
           Stands(rd, j, c) /\ (rd.rest = << >> => j = Len(Given(rd))) /\ Has(Whole, c, Record(tag, t))
    <3>1. CASE kind = "vault"
      BY <1>1, <3>1, VaultPlace
    <3>2. CASE kind = "sealed"
      BY <1>1, <3>2, SealedPlace
    <3> QED BY <1>3, <3>1, <3>2
  <2>3. Bound(rd, j) = Len(Whole)
    BY <1>1, <2>2 DEF Bound, End
  <2> QED BY <1>1, <2>1, <2>2, <2>3, NoPieceAtEnd
<1>5. PICK j \in 0 .. Len(Given(rd)) : Past(rd, j)
  BY <1>1, <1>4, Cursor
<1>6. ~bad
  <2>1. rd.part = << >>
    BY <1>5 DEF Past
  <2>2. rd.way = "vault" => rd.key # 0
    <3>1. version # 0
      BY <1>3, BoundsAssumption
    <3> QED BY <1>3, <1>5, <3>1 DEF Past
  <2>3. ToSet(rd.pending) \subseteq {Byte(0)}
    <3>1. DOMAIN rd.pending = 1 .. Len(rd.pending)
      BY <1>3, LenProperties DEF Raw
    <3>2. \A x \in DOMAIN rd.pending : rd.pending[x] = Byte(0)
      BY <1>5, <3>1 DEF Past
    <3> QED BY <3>2 DEF ToSet
  <2> QED BY <1>4, <2>1, <2>2, <2>3
<1> HIDE DEF bad
<1>7. CASE rd' = Unread
  BY <1>7, UnreadOpens
<1>8. CASE rd.way = "extract" /\ Step(r)
  <2>1. r.phase = "done" /\ kind # "vault"
    BY <1>3, <1>8 DEF RdType
  <2> HIDE DEF r
  <2>2. ~HeaderSplit
    BY <1>1, <1>3, <1>4, <1>8, <2>1 DEF OpensInv, OpensFor, Uncut
  <2>3. Uncut(r)
    BY <2>1 DEF Uncut
  <2>4. OpensFor(r)
    BY <2>1, <2>2, <2>3 DEF OpensFor
  <2> QED BY <1>8, <2>4, StepOpens
<1> QED BY <1>2, <1>6, <1>7, <1>8

LEMMA OpenOpens == ASSUME BodyInv, NEW way \in {"vault", "list", "extract"}, OpenBody(way) PROVE OpensInv'
<1> DEFINE b == [last |-> Last(chunks).last, bytes |-> Whole]
           s == IF way = "list" THEN <<b>> ELSE chunks
           r == [Unread EXCEPT !.way = way, !.phase = "chunk", !.rest = s]
<1>1. /\ ~open /\ Step(r) /\ way \in IF kind = "vault" THEN {"vault"} ELSE {"list", "extract"}
  BY DEF OpenBody, Whole, BytesOf, Step
<1> HIDE DEF s
<1>2. /\ r.phase = "chunk" /\ r.way = way /\ r.rest = s /\ r.pending = << >> /\ r.got = << >> /\ ~r.end
  BY DEF Unread
<1> HIDE DEF r
<1>3. Piece(r.pending)
  <2>1. Len(r.pending) = 0
    BY <1>2
  <2> QED BY <2>1 DEF Piece, HeaderLen
<1>4. DOMAIN r.got = {}
  BY <1>2
<1>5. ASSUME way = "extract", NEW i \in Nat, CutAt(i) PROVE i >= GivenTo(r) /\ i # GivenTo(r)
  <2>1. chunks # << >> /\ Stored
    BY <1>1 DEF BodyInv, Shown
  <2>2. Cuts(chunks, Whole)
    BY <2>1, ChunkedIs DEF Stored
  <2>3. Len(chunks) \in Nat
    BY <2>2 DEF Cuts
  <2>4. GivenTo(r) = 0
    <3>1. Given(r) = chunks /\ r.rest = chunks
      BY <1>2, <1>5 DEF Given, s
    <3> QED BY <2>3, <3>1 DEF GivenTo
  <2>5. PICK p \in Nat : p + 1 = i * ChunkLen
    BY <1>5 DEF CutAt
  <2>6. i # 0
    <3>1. ChunkLen \in Nat
      BY SizeAssumption
    <3> QED BY <2>5, <3>1
  <2> QED BY <2>4, <2>6
<1>6. Uncut(r)
  BY <1>2, <1>5 DEF Uncut
<1>7. OpensFor(r)
  BY <1>2, <1>3, <1>4, <1>6 DEF OpensFor
<1> QED BY <1>1, <1>7, StepOpens

\* While a program has the contents open, nothing is read.
LEMMA OpenIsUnread == ASSUME BodyInv, open PROVE rd = Unread
BY DEF BodyInv, Shown

LEMMA OpensNext == BodyInv /\ OpensInv /\ [BodyNext]_bodyVars => OpensInv'
<1> SUFFICES ASSUME BodyInv, OpensInv, [BodyNext]_bodyVars PROVE OpensInv'
  OBVIOUS
<1>0. open /\ rd' = rd => OpensInv'
  BY OpenIsUnread, UnreadOpens
<1>1. CASE \E t \in Title, pw, notes \in Length, otp \in BOOLEAN : AddEntry(t, pw, notes, otp)
  BY <1>0, <1>1 DEF AddEntry, Edit
<1>2. CASE \E t \in Title, f \in PASSWORD .. OTP, l \in Length : ChangeEntry(t, f, l)
  BY <1>0, <1>2 DEF ChangeEntry, Edit
<1>3. CASE \E t \in Title : RemoveEntry(t)
  BY <1>0, <1>3 DEF RemoveEntry, Edit
<1>4. CASE \E t \in Title, l \in Length : PutFile(t, l)
  BY <1>0, <1>4 DEF PutFile, Edit
<1>5. CASE \E pad \in Padding : SaveBody(pad)
  BY <1>0, <1>5 DEF SaveBody
<1>6. CASE CloseBody
  BY <1>6, UnreadOpens DEF CloseBody
<1>7. CASE \E way \in {"vault", "list", "extract"} : OpenBody(way)
  BY <1>7, OpenOpens
<1>8. CASE NextChunk
  BY <1>8, NextChunkOpens
<1>9. CASE Wait
  BY <1>9, WaitOpens
<1>10. CASE Refuse
  BY <1>10, RefuseOpens
<1>11. CASE ReadKey
  BY <1>11, ReadKeyOpens
<1>12. CASE ReadEntry
  BY <1>12, ReadEntryOpens
<1>13. CASE ReadEnd
  BY <1>13, ReadEndOpens
<1>14. CASE ReadHeader
  BY <1>14, ReadHeaderOpens
<1>15. CASE ReadPart
  BY <1>15, ReadPartOpens
<1>16. CASE ReadFileEnd
  BY <1>16, ReadFileEndOpens
<1>17. CASE FinishReading
  BY <1>17, FinishOpens
<1>18. CASE UNCHANGED bodyVars
  <2>1. /\ kind' = kind /\ chunks' = chunks /\ saved' = saved /\ rd' = rd /\ open' = open
        /\ content' = content /\ version' = version /\ edits' = edits /\ meant' = meant
    BY <1>18 DEF bodyVars
  <2>2. Step(rd)
    BY <2>1 DEF Step
  <2> QED BY <2>2, StepOpens DEF OpensInv
<1> QED BY <1>1, <1>2, <1>3, <1>4, <1>5, <1>6, <1>7, <1>8, <1>9, <1>10, <1>11, <1>12, <1>13, <1>14, <1>15,
           <1>16, <1>17, <1>18 DEF BodyNext

\* What was written opens again, wherever the chunks end and whatever the padding, but for a vault with
\* a field or an entry beyond the limits that only reading knows, and a sealed file that is extracted and
\* has a header cut by the end of a chunk; and in these two cases it never does.
THEOREM WhatIsWrittenOpens == BodySpec => []OpensUnless
<1>1. BodyInit => OpensInv
  <2> SUFFICES ASSUME BodyInit PROVE OpensInv
    OBVIOUS
  <2>1. rd.phase = "idle" /\ rd.got = << >>
    BY DEF BodyInit, Unread
  <2>2. Uncut(rd) /\ DOMAIN rd.got = {}
    BY <2>1 DEF Uncut
  <2> QED BY <2>1, <2>2 DEF OpensInv, OpensFor
<1>2. BodyInv /\ OpensInv /\ [BodyNext]_bodyVars => OpensInv'
  BY OpensNext
<1>3. BodyInv /\ OpensInv => OpensUnless
  BY DEF OpensInv, OpensFor, OpensUnless, LongEntry
<1> QED BY <1>1, <1>2, <1>3, BodyInvariant, PTL DEF BodySpec

=============================================================================
