---------------------------- MODULE SealedFile ----------------------------
(***************************************************************************)
(* A sealed file (UC-23) as programs write it and extract it: sealing some *)
(* files, adding files to it (--append), and extracting it into a folder,  *)
(* each by a job of several steps that the user may cancel and that may    *)
(* fail or be killed anywhere.  The files may be edited meanwhile, and the *)
(* window, its terminal sister and the command line may work at the same   *)
(* time.  What opens a sealed file is in Unlocking; here opening succeeds  *)
(* or fails.                                                               *)
(*                                                                         *)
(* A file is a short sequence of blocks, read one by one; a block is the   *)
(* edit it comes from.  Writing the sealed file is one step: a temporary,  *)
(* fsync and rename (the temporary's own hazards are in VaultFile).        *)
(***************************************************************************)
EXTENDS Naturals, Sequences, FiniteSets, SequencesExt

CONSTANTS
  Job,          \* the programs at work
  Cancellable,  \* those with a cancel button: the window and the terminal one
  Source,       \* files that may be sealed
  Args,         \* the lists of files that are named together
  Order,        \* paths inside the sealed file, in the order of its entries
  Name,         \* the path a source gets: its own name, or that below a folder
  Draft,        \* <<t, p>>: p is staged under the name t before it is renamed
  Below,        \* <<p, q>>: q has p for a folder
  Hidden,       \* <<q, p>>: q is p below `.vltf-partial/'
  Content,      \* what a source may hold
  Older,        \* files that the folder to extract to may hold beforehand
  Sealed,       \* what a file that is already sealed may hold
  MaxJobs, MaxEdits, MaxFaults   \* bounds

Path == ToSet(Order)

ASSUME JobAssumption    == Cancellable \subseteq Job
ASSUME NameAssumption   == Name \in [Source -> Path] /\ Hidden \subseteq Path \X Path
ASSUME OrderAssumption  == Order \in Seq(Path)
ASSUME InputAssumption  == /\ Args \subseteq Seq(Source)
                           /\ Older \subseteq Path
                           /\ \A f \in Sealed : \E P \in SUBSET Path : f \in [P -> Seq(Nat)]
ASSUME ContentAssumption ==
  /\ Content \subseteq Seq(Nat)
  /\ \E c \in Content : \A d \in Content : Len(c) >= Len(d)
ASSUME BoundsAssumption == {MaxJobs, MaxEdits, MaxFaults} \subseteq Nat

VARIABLES
  src,      \* the sources
  box,      \* the sealed file
  dest,     \* the folder to extract to
  staging,  \* its `.vltf-partial/'
  job,      \* what each program is doing
  left,     \* history: a crash, or a failed removal, left `.vltf-partial/' behind
  started, edits, faults

vars == <<src, box, dest, staging, job, left, started, edits, faults>>

IsTree(t) == DOMAIN t \subseteq Path /\ \A p \in DOMAIN t : t[p] \in Seq(Nat)
Empty == << >>
None  == [files |-> Empty, good |-> FALSE, there |-> FALSE]

Put(t, p, c) == [q \in DOMAIN t \cup {p} |-> IF q = p THEN c ELSE t[q]]
Without(t, P) == [q \in DOMAIN t \ P |-> t[q]]

Idle ==
  [kind |-> "seal", phase |-> "idle", args |-> << >>, second |-> FALSE,
   todo |-> {}, got |-> << >>, made |-> Empty, good |-> TRUE,
   feed |-> {}, over |-> FALSE, walk |-> {},
   cancel |-> FALSE, early |-> FALSE, ok |-> FALSE,
   alone |-> TRUE, touched |-> {}, before |-> Empty]

\* An entry: the path it gets, the file it is read from, and the size that file had.
Entry == [path : Path, from : Source, size : Nat]

\* Of some paths the one whose entry comes first.
Earliest(P) ==
  Order[CHOOSE i \in DOMAIN Order : Order[i] \in P /\ \A n \in 1 .. i - 1 : Order[n] \notin P]

\* The entry that is being read.
Current(k) == CHOOSE e \in k.todo : e.path = Earliest({f.path : f \in k.todo})

TypeOK ==
  /\ src \in [Source -> Content]
  /\ IsTree(box.files) /\ {box.good, box.there} \subseteq BOOLEAN
  /\ IsTree(dest) /\ IsTree(staging)
  /\ \A j \in Job :
       /\ job[j].kind \in {"seal", "append", "open"}
       /\ job[j].phase \in {"idle", "ready", "read", "stage", "promote", "sweep", "done"}
       /\ job[j].phase = "read" => job[j].todo \subseteq Entry
       /\ job[j].phase = "stage" => job[j].todo \subseteq Path
       /\ job[j].got \in Seq(Nat) /\ IsTree(job[j].made)
       /\ {job[j].feed, job[j].walk} \subseteq SUBSET Path /\ job[j].touched \subseteq Source
       /\ job[j].early => job[j].cancel /\ j \in Cancellable
       \* Only the files that are being staged or moved are in the staging folder.
       /\ job[j].phase = "read" /\ job[j].got # << >> =>
            job[j].todo # {} /\ Len(job[j].got) < Current(job[j]).size
  /\ left \in BOOLEAN
  /\ started \in 0 .. MaxJobs /\ edits \in 0 .. MaxEdits /\ faults \in 0 .. MaxFaults

\* There may be a sealed file, and the folder may hold a file of the user's.
Init ==
  /\ src = [s \in Source |-> CHOOSE c \in Content : \A d \in Content : Len(c) >= Len(d)]
  /\ box \in {None} \cup {[files |-> t, good |-> TRUE, there |-> TRUE] : t \in Sealed}
  /\ dest \in {Empty} \cup {[p \in {o} |-> <<0>>] : o \in Older}
  /\ staging = Empty
  /\ job = [j \in Job |-> Idle]
  /\ left = FALSE /\ started = 0 /\ edits = 0 /\ faults = 0

Busy(j)      == job[j].phase \notin {"idle", "done"}
Extracting(k) == k.kind = "open" /\ k.phase \in {"stage", "promote", "sweep"}
Cancelled(j) == job[j].cancel

\* A job that was alone is so no more once another one works.
Started(j, k) ==
  LET alone == \A i \in Job \ {j} : ~Busy(i) IN
    [i \in Job |->
       IF i = j THEN [k EXCEPT !.phase = "ready", !.alone = alone,
                        !.before = IF k.kind = "open" THEN dest ELSE Empty]
                ELSE [job[i] EXCEPT !.alone = @ /\ job[i].phase = "idle"]]

\* The next step of job j, with its record k.
To(j, k) == job' = [job EXCEPT ![j] = k]

Failed(k) == [k EXCEPT !.phase = IF Extracting(k) THEN "sweep" ELSE "done", !.ok = FALSE]

Finished(k) == [k EXCEPT !.phase = "done", !.ok = TRUE]

Fails(j) == To(j, Failed(job[j])) /\ UNCHANGED <<src, box, dest, staging>>

-----------------------------------------------------------------------------
(* Sealing and adding.                                                     *)

\* Sealing refuses a file that is there; the question is asked before the
\* password is.  The window can enroll a second factor at once.
StartSeal(j) ==
  /\ ~box.there
  /\ \E a \in Args, second \in BOOLEAN :
       /\ second => j \in Cancellable
       /\ job' = Started(j, [Idle EXCEPT !.kind = "seal", !.args = a, !.second = second])

\* Mutant: an empty archive is begun, not the one that was read.
StartAppendAnew(j) ==
  /\ box.there /\ box.good
  /\ \E a \in Args \cup {<< >>} :
       job' = Started(j, [Idle EXCEPT !.kind = "append", !.args = a])

\* The sealed file is read and opened at the beginning.  With no files to add
\* this is what rotating its data key does: all is encrypted anew.
StartAppend(j) ==
  /\ box.there /\ box.good
  /\ \E a \in Args \cup {<< >>} :
       job' = Started(j, [Idle EXCEPT !.kind = "append", !.args = a, !.made = box.files])

\* Mutant: the first of two files with one name is sealed.
CollectedFirst(args) ==
  {[path |-> Name[args[i]], from |-> args[i], size |-> Len(src[args[i]])] :
     i \in {i \in 1 .. Len(args) : \A n \in 1 .. i - 1 : Name[args[n]] # Name[args[i]]}}

\* No later argument has the name of this one.
IsLast(args, i) == \A n \in i + 1 .. Len(args) : Name[args[n]] # Name[args[i]]

\* Of two files with one name the last one is sealed.
Collected(args) ==
  {[path |-> Name[args[i]], from |-> args[i], size |-> Len(src[args[i]])] :
     i \in {i \in 1 .. Len(args) : IsLast(args, i)}}

\* Names and sizes are taken first, then the files are read.
Collect(j) ==
  /\ job[j].phase = "ready" /\ job[j].kind \in {"seal", "append"}
  /\ IF Cancelled(j) THEN Fails(j)
     ELSE /\ To(j, [job[j] EXCEPT !.phase = "read", !.todo = Collected(job[j].args)])
          /\ UNCHANGED <<src, box, dest, staging>>

\* As many bytes are read as the file had: of an empty one none.
More(k) == Len(k.got) < Current(k).size

\* What has been read once the next block has.
Got(k) ==
  IF More(k) THEN Append(k.got, src[Current(k).from][Len(k.got) + 1]) ELSE k.got

Read(k) ==
  IF Len(Got(k)) < Current(k).size
  THEN [k EXCEPT !.got = Got(k)]
  ELSE [k EXCEPT !.got = << >>, !.todo = @ \ {Current(k)},
                 !.made = Put(@, Current(k).path, Got(k))]

\* The file has become shorter than it was.
Missing(k) == More(k) /\ Len(k.got) >= Len(src[Current(k).from])

\* Mutant: for a file that has become shorter it waits for the rest.
ReadBlockPatient(j) ==
  /\ job[j].phase = "read" /\ job[j].todo # {} /\ ~Missing(job[j])
  /\ IF Cancelled(j) THEN Fails(j)
     ELSE To(j, Read(job[j])) /\ UNCHANGED <<src, box, dest, staging>>

\* A file that has become shorter is an error; what was added to one since is
\* not looked at.
ReadBlock(j) ==
  /\ job[j].phase = "read" /\ job[j].todo # {}
  /\ IF Cancelled(j) \/ Missing(job[j]) THEN Fails(j)
     ELSE To(j, Read(job[j])) /\ UNCHANGED <<src, box, dest, staging>>

\* With a second factor the body gets the header that the job began with, whose
\* seed is not the one it was encrypted under.
Written(k) == [files |-> k.made, good |-> ~k.second, there |-> TRUE]

\* The file is written in one step, over whatever is there by now.
WriteBox(j) ==
  /\ job[j].phase = "read" /\ job[j].todo = {}
  /\ IF Cancelled(j) THEN Fails(j)
     ELSE /\ box' = Written(job[j])
          /\ To(j, Finished(job[j]))
          /\ UNCHANGED <<src, dest, staging>>

-----------------------------------------------------------------------------
(* Extracting.                                                             *)

StartOpen(j) ==
  /\ box.there
  /\ job' = Started(j, [Idle EXCEPT !.kind = "open", !.made = box.files, !.good = box.good])

\* `.vltf-partial' is emptied, then the whole body is authenticated, then
\* decrypted from its beginning.
Prepare(j) ==
  /\ job[j].phase = "ready" /\ job[j].kind = "open"
  /\ staging' = Empty
  /\ To(j, IF job[j].good
           THEN [job[j] EXCEPT !.phase = "stage", !.todo = DOMAIN job[j].made,
                   !.feed = {}, !.over = FALSE]
           ELSE [job[j] EXCEPT !.phase = "sweep"])
  /\ UNCHANGED <<src, box, dest>>

\* The entries of P among the first n.
First(P, n) == {p \in P : \E i \in 1 .. n : i \in DOMAIN Order /\ Order[i] = p}

\* The next chunk of the body is decrypted: it completes some entries, and may be
\* the last one.  Only here the flag is looked at.  (A chunk that completes none and
\* is not the last leaves all as it is.)
NextChunk(j) ==
  /\ job[j].phase = "stage" /\ job[j].feed = {} /\ ~job[j].over
  /\ \/ Cancelled(j) /\ Fails(j)
     \/ /\ ~Cancelled(j)
        /\ \E n \in 0 .. Len(Order), over \in BOOLEAN :
             LET P == First(job[j].todo, n) IN
               /\ over => P = job[j].todo
               /\ To(j, [job[j] EXCEPT !.feed = P, !.todo = @ \ P, !.over = over])
        /\ UNCHANGED <<src, box, dest, staging>>

\* A file cannot be where a folder is, nor a folder where a file is.
Clash(t, p) == \E q \in DOMAIN t : <<p, q>> \in Below \/ <<q, p>> \in Below

\* Mutant: files are written into the folder at once.
StageInPlace(j) ==
  /\ job[j].phase = "stage" /\ job[j].feed # {}
  /\ LET k == job[j]
         p == Earliest(k.feed)
     IN  IF Clash(dest, p) THEN Fails(j)
         ELSE /\ dest' = Put(dest, p, k.made[p])
              /\ To(j, [k EXCEPT !.feed = @ \ {p}])
              /\ UNCHANGED <<src, box, staging>>

\* The files of a chunk are written, each under its draft's name and renamed.
Stage(j) ==
  /\ job[j].phase = "stage" /\ job[j].feed # {}
  /\ LET k == job[j]
         p == Earliest(k.feed)
     IN  IF Clash(staging, p) THEN Fails(j)
         ELSE /\ staging' = Put(Without(staging, {t \in Path : <<t, p>> \in Draft}),
                                p, k.made[p])
              /\ To(j, [k EXCEPT !.feed = @ \ {p}])
              /\ UNCHANGED <<src, box, dest>>

\* Mutant: files that are there already are skipped.
VerifySkipping(j) ==
  /\ job[j].phase = "stage" /\ job[j].feed = {} /\ job[j].over
  /\ To(j, [job[j] EXCEPT !.phase = "promote", !.walk = DOMAIN staging \ DOMAIN dest])
  /\ UNCHANGED <<src, box, dest, staging>>

\* The end of the archive has been seen: what is in the staging folder now is moved.
Verify(j) ==
  /\ job[j].phase = "stage" /\ job[j].feed = {} /\ job[j].over
  /\ To(j, [job[j] EXCEPT !.phase = "promote", !.walk = DOMAIN staging])
  /\ UNCHANGED <<src, box, dest, staging>>

\* File by file, in the order of the directory.
Promote(j) ==
  /\ job[j].phase = "promote"
  /\ \E p \in job[j].walk :
       /\ \A h \in Hidden : h[1] # p
       /\ IF p \notin DOMAIN staging \/ Clash(dest, p) THEN Fails(j)
          ELSE /\ dest' = Put(dest, p, staging[p])
               /\ staging' = Without(staging, {p})
               /\ To(j, [job[j] EXCEPT !.walk = @ \ {p}])
               /\ UNCHANGED <<src, box>>

\* What goes below `.vltf-partial' is moved within the staging folder: over the file
\* of that name when it has not been moved yet, and else to where it is swept away.
\* (A folder of that name stays when its files have been moved.)
PromoteWithin(j) ==
  /\ job[j].phase = "promote"
  /\ \E h \in Hidden :
       /\ h[1] \in job[j].walk
       /\ IF \/ h[1] \notin DOMAIN staging \/ Clash(staging, h[2])
             \/ \E q \in DOMAIN job[j].made : <<h[2], q>> \in Below
          THEN Fails(j)
          ELSE /\ staging' = Put(Without(staging, {h[1]}), h[2], staging[h[1]])
               /\ To(j, [job[j] EXCEPT !.walk = @ \ {h[1]}])
               /\ UNCHANGED <<src, box, dest>>

Promoted(j) ==
  /\ job[j].phase = "promote" /\ job[j].walk = {}
  /\ To(j, [job[j] EXCEPT !.phase = "sweep", !.ok = TRUE])
  /\ UNCHANGED <<src, box, dest, staging>>

\* Whether it went well or not, the staging folder is removed.
Sweep(j) ==
  /\ job[j].phase = "sweep"
  /\ staging' = Empty
  /\ To(j, [job[j] EXCEPT !.phase = "done"])
  /\ UNCHANGED <<src, box, dest>>

-----------------------------------------------------------------------------
(* The user and the machine.                                               *)

Start(j) ==
  /\ job[j].phase = "idle" /\ started < MaxJobs
  /\ StartSeal(j) \/ StartAppend(j) \/ StartOpen(j)
  /\ started' = started + 1
  /\ UNCHANGED <<src, box, dest, staging, left, edits, faults>>

\* The result is shown, and another job may be started.
Acknowledge(j) ==
  /\ job[j].phase = "done"
  /\ To(j, Idle)
  /\ UNCHANGED <<src, box, dest, staging>>

Step(j) ==
  /\ \/ Collect(j) \/ ReadBlock(j) \/ WriteBox(j)
     \/ Prepare(j) \/ NextChunk(j) \/ Stage(j) \/ Verify(j) \/ Promote(j) \/ PromoteWithin(j)
     \/ Promoted(j) \/ Sweep(j)
     \/ Acknowledge(j)
  /\ UNCHANGED <<left, started, edits, faults>>

\* `early': there is still a step ahead that looks at the flag.
Cancel(j) ==
  /\ j \in Cancellable /\ Busy(j) /\ ~job[j].cancel
  /\ To(j, [job[j] EXCEPT !.cancel = TRUE,
              !.early = job[j].phase \in {"ready", "read"}
                          \/ (job[j].phase = "stage" /\ ~job[j].over)])
  /\ UNCHANGED <<src, box, dest, staging, left, started, edits, faults>>

\* Another program writes to a source that a job is about to read; at another
\* time this changes only what the next job finds.
EditSource(s) ==
  /\ edits < MaxEdits
  /\ \E j \in Job : job[j].phase \in {"ready", "read"} /\ s \in ToSet(job[j].args)
  /\ \E c \in Content \ {src[s]} : src' = [src EXCEPT ![s] = c]
  /\ job' = [j \in Job |->
               IF job[j].phase # "idle" /\ s \in ToSet(job[j].args)
               THEN [job[j] EXCEPT !.touched = @ \cup {s}] ELSE job[j]]
  /\ edits' = edits + 1
  /\ UNCHANGED <<box, dest, staging, left, started, faults>>

\* A wrong password, a failing read, write or rename, a file that is gone.
Error(j) ==
  /\ faults < MaxFaults /\ Busy(j) /\ job[j].phase # "sweep"
  /\ Fails(j)
  /\ faults' = faults + 1 /\ UNCHANGED <<left, started, edits>>

\* Removing the staging folder may fail, which nobody is told.
SweepFails(j) ==
  /\ faults < MaxFaults /\ job[j].phase = "sweep"
  /\ To(j, [job[j] EXCEPT !.phase = "done"])
  /\ left' = TRUE /\ faults' = faults + 1
  /\ UNCHANGED <<src, box, dest, staging, started, edits>>

Crash(j) ==
  /\ faults < MaxFaults /\ Busy(j)
  /\ To(j, Idle)
  /\ left' = (left \/ Extracting(job[j])) /\ faults' = faults + 1
  /\ UNCHANGED <<src, box, dest, staging, started, edits>>

Next ==
  \/ \E j \in Job : Start(j) \/ Step(j) \/ Cancel(j) \/ Error(j) \/ SweepFails(j) \/ Crash(j)
  \/ \E s \in Source : EditSource(s)

\* A job's thread runs on, and its window or terminal polls for the result.
Fairness == \A j \in Job : WF_vars(Step(j))

Spec == Init /\ [][Next]_vars /\ Fairness

-----------------------------------------------------------------------------
(* Properties.                                                             *)

\* What is sealed is what the files held: for a file that nobody wrote to while
\* the job ran, and that no later argument of the same name replaces.
SealedAsIs ==
  \A j \in Job :
    (job[j].phase = "done" /\ job[j].ok /\ job[j].kind # "open") =>
      \A i \in 1 .. Len(job[j].args) :
        LET s == job[j].args[i] IN
          (/\ s \notin job[j].touched
           /\ IsLast(job[j].args, i)) =>
            Name[s] \in DOMAIN job[j].made /\ job[j].made[Name[s]] = src[s]

\* Writing the sealed file replaces no entry but those named on the command
\* line, and a new sealed file replaces none: provided no other job ran meanwhile.
EntriesKept ==
  [][box'.there /\ box' # box =>
       \A j \in Job :
         (job[j].phase = "read" /\ job'[j].phase = "done" /\ job'[j].ok /\ job[j].alone) =>
           /\ job[j].kind = "seal" => ~box.there
           /\ \A p \in DOMAIN box.files :
                /\ p \in DOMAIN box'.files
                /\ (\A i \in 1 .. Len(job[j].args) : Name[job[j].args[i]] # p) =>
                     box'.files[p] = box.files[p]]_vars

\* Lapses of extraction that are not reported: an entry that is the draft of a
\* later one, an entry below the staging folder, and the one that this one is moved
\* over.
Lost(files) ==
  {p \in DOMAIN files : \/ \E q \in DOMAIN files \ {p} : <<p, q>> \in Draft
                        \/ \E h \in Hidden : h[1] \in DOMAIN files /\ p \in {h[1], h[2]}}

\* An extraction that reports success has put every entry into the folder, as
\* it was sealed, but for the lapses: if it was the only one at work.
Extracted ==
  \A j \in Job :
    (job[j].phase = "done" /\ job[j].ok /\ job[j].kind = "open" /\ job[j].alone) =>
      \A p \in DOMAIN job[j].made \ Lost(job[j].made) :
        p \in DOMAIN dest /\ dest[p] = job[j].made[p]

\* The folder has what it had before the job, but for whole entries: under their own
\* paths, or under that of another by a lapse.
WholeEntries(k) ==
  /\ DOMAIN k.before \subseteq DOMAIN dest
  /\ \A p \in DOMAIN dest :
       \/ p \in DOMAIN k.before /\ dest[p] = k.before[p]
       \/ \E q \in DOMAIN k.made : dest[p] = k.made[q] /\ (p = q \/ p \in Lost(k.made))

\* C64: until the whole container has been read nothing is put into the folder, and
\* a job that was cancelled before its last chunk was decrypted puts nothing there and
\* writes no file.  From then on the job may still fail between two files: what it has
\* moved stays, and is whole.
FailClosed ==
  \A j \in Job :
    /\ job[j].early => ~job[j].ok
    /\ (job[j].kind = "open" /\ job[j].alone) =>
         /\ (job[j].early \/ job[j].phase = "stage") => dest = job[j].before
         /\ Extracting(job[j]) \/ job[j].phase = "done" => WholeEntries(job[j])

\* C64: nothing decrypted stays in the staging folder when nobody is extracting,
\* unless a program was killed or the removal failed.
NothingLeft ==
  (\A j \in Job : ~Extracting(job[j])) /\ ~left => staging = Empty

\* C64 as a whole: a job leaves nothing in the staging folder, however it ends; and
\* the folder is as before until all has been decrypted, and never has a part of a file.
FailsClean == TypeOK /\ FailClosed /\ NothingLeft

\* Every job ends, and the next one can be started.
JobsEnd == \A j \in Job : job[j].phase # "idle" ~> job[j].phase = "idle"

\* UC-23, 5.5: what was sealed can be opened again.
SealedOpens == box.there => box.good
=============================================================================
