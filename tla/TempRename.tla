----------------------------- MODULE TempRename -----------------------------
(***************************************************************************)
(* A file that several processes replace by writing a temporary beside it  *)
(* and renaming that, where all of them use the same name for the          *)
(* temporary: write_vault of blindkey-cli and blindkey-gui, write_json of  *)
(* blindkey-agent.  A process that opened the temporary keeps writing to   *)
(* that very file wherever a rename has put it since (`fd').               *)
(***************************************************************************)

CONSTANTS
  Proc,    \* processes, or threads, that save
  Torn,    \* a file that is neither of the things someone saved
  Absent   \* no file

VARIABLES
  file,    \* the file
  tmp,     \* the temporary
  fileBy,  \* who wrote to what is now the file
  tmpBy,   \* who wrote to the temporary since it was truncated
  fd       \* per process: where the temporary it opened is now

disk == <<file, tmp, fileBy, tmpBy>>

Places == {"none", "tmp", "file", "lost"}

\* create(true).truncate(true): a temporary that is there is taken over as it
\* is, whoever else has it open.
Truncate(p) ==
  /\ tmp' = Torn /\ tmpBy' = {}
  /\ fd' = [fd EXCEPT ![p] = "tmp"]
  /\ UNCHANGED <<file, fileBy>>

\* write_all, begun: the file p opened is no longer what anyone saved.
Begin(p) ==
  /\ IF fd[p] = "tmp" THEN tmp' = Torn /\ tmpBy' = tmpBy \cup {p}
                      ELSE UNCHANGED <<tmp, tmpBy>>
  /\ IF fd[p] = "file" THEN file' = Torn /\ fileBy' = fileBy \cup {p}
                       ELSE UNCHANGED <<file, fileBy>>
  /\ UNCHANGED fd

\* What the file of a writer holds when its last byte is out: its value, if no
\* one else wrote there; with another writer the longer one shows; and if the
\* file was truncated in between there is a hole in it.
Outcomes(p, by, value) ==
  IF p \notin by THEN {Torn} ELSE IF by = {p} THEN {value} ELSE {value, Torn}

Finish(p, value) ==
  /\ tmp' \in IF fd[p] = "tmp" THEN Outcomes(p, tmpBy, value) ELSE {tmp}
  /\ file' \in IF fd[p] = "file" THEN Outcomes(p, fileBy, value) ELSE {file}
  /\ UNCHANGED <<fileBy, tmpBy, fd>>

\* The temporary becomes the file for everyone who has it open, and whoever was
\* writing to the old file writes to one without a name.
Moved(q) == IF fd[q] = "tmp" THEN "file" ELSE IF fd[q] = "file" THEN "lost" ELSE fd[q]

\* rename: it fails if the temporary is gone.
Install(p) ==
  /\ tmp # Absent
  /\ file' = tmp /\ fileBy' = tmpBy
  /\ tmp' = Absent /\ tmpBy' = {}
  /\ fd' = [[q \in Proc |-> Moved(q)] EXCEPT ![p] = "none"]

\* The process gives up, or ends.
GiveUp(p) == fd' = [fd EXCEPT ![p] = "none"] /\ UNCHANGED disk

=============================================================================
