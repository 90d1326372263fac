----------------------------- MODULE GuiSession -----------------------------
(***************************************************************************)
(* The window's session with a vault (UC-20, UC-21, UC-06): unlocking and  *)
(* locking it by hand, by idleness, by minimizing and by losing the focus; *)
(* the list with its search cache, the selection, revealing and copying;   *)
(* the form that adds, edits and deletes an entry; the import; enrolling a *)
(* keyfile; and the threads that clear the clipboard, with the detached    *)
(* process that does it for the command line.                              *)
(*                                                                         *)
(* An action is a frame: what the window polls and checks at its beginning *)
(* and what one click or key does in it.  An entry has an id, a title and  *)
(* a bit that each edit of its other fields flips.  A save fails or it is  *)
(* whole (what a save does to the file is in VaultFile).                   *)
(***************************************************************************)
EXTENDS Naturals, Sequences, FiniteSets, SequencesExt

CONSTANTS
  Title,      \* titles
  Query,      \* what is typed into the search field
  Hits,       \* the titles that a query matches
  Imports,    \* the lists of titles that an imported file may hold
  Stored,     \* the vault that exists beforehand: its titles
  Settings,   \* the settings: lock when idle, lock when the focus is lost
  MaxEntries, MaxChanges, MaxCopies, MaxFaults   \* bounds

ASSUME HitsAssumption   == "" \in Query /\ Hits \in [Query -> SUBSET Title]
ASSUME ImportAssumption == /\ Imports \subseteq Seq(Title)
                           /\ Stored \in Seq(Title) /\ Len(Stored) <= MaxEntries
ASSUME SettingsAssumption == Settings \subseteq [idle : BOOLEAN, blur : BOOLEAN]
ASSUME BoundsAssumption == {MaxEntries, MaxChanges, MaxCopies, MaxFaults} \subseteq Nat

VARIABLES
  disk,     \* the vault file
  vault,    \* the open vault
  ui,       \* the fields of the window that belong to the open vault
  away,     \* where the user is, as far as the window knows
  locks,    \* the settings in force
  job,      \* a job that seals, opens or mounts
  running,  \* the window's process is there
  clip,     \* the clipboard
  timers,   \* the threads and processes that will clear it
  bare,     \* history: of what was copied last nobody has undertaken to clear it,
            \* or whoever has could not
  unsaved,  \* history: a save failed and none has succeeded since
  failed,   \* history: a save failed since the vault was unlocked
  doubled,  \* history: two entries shared a title since then
  chosen,   \* history: the id of the entry the user chose last
  changes, copies, faults

hist == <<unsaved, failed, doubled, chosen>>
clips == <<clip, timers, bare>>
vars == <<disk, vault, ui, away, locks, job, running, clips, hist, changes, copies, faults>>

None == 0
Id    == 1 .. MaxEntries
Entry == [id : Id, title : Title, bit : BOOLEAN]

\* The clipboard holds the password of an entry, or nothing of the vault's.
Other == None

NoVault == [entries |-> << >>, top |-> None, second |-> FALSE, there |-> FALSE]

Of(entries) == [entries |-> entries, top |-> None, second |-> FALSE, there |-> TRUE]
Locked == vault = NoVault
Open   == ~Locked
Entries == vault.entries

NewEntry(i, t) == [id |-> i, title |-> t, bit |-> FALSE]
Ids(v)     == {v.entries[i].id : i \in DOMAIN v.entries}
Twins(v)   == \E i, j \in DOMAIN v.entries : i # j /\ v.entries[i].title = v.entries[j].title

\* What locking leaves.
Blank ==
  [sel |-> None, reveal |-> FALSE, query |-> "", items |-> << >>,
   editor |-> None, orig |-> "", review |-> << >>, enroll |-> FALSE, code |-> FALSE]

LockedUi == Blank

TypeOK ==
  /\ \A v \in {disk, vault} :
       /\ v.entries \in Seq(Entry)
       /\ \A i, j \in DOMAIN v.entries : v.entries[i].id = v.entries[j].id => i = j
       /\ v.top \in Ids(v) \cup {None} /\ {v.second, v.there} \subseteq BOOLEAN
  /\ ui.sel \in 0 .. MaxEntries /\ ui.query \in Query
  /\ \A n \in DOMAIN ui.items : ui.items[n][1] \in Id /\ ui.items[n][2] \in Title
  /\ ui.review # << >> => ui.review \in Imports
  /\ away \in {"here", "idle", "minimized", "blurred"}
  /\ locks \in Settings
  /\ job \in {"none", "running", "ended"}
  /\ clip \in Id \cup {Other}
  /\ bare \in BOOLEAN
  /\ \A t \in timers : t.of \in Id /\ t.by \in {"gui", "cli"}
  /\ ~unsaved \/ failed
  \* A locked window holds nothing of the vault, whichever way it was locked.
  /\ Locked => ui = Blank

Init ==
  /\ disk \in {NoVault, Of([i \in DOMAIN Stored |-> NewEntry(i, Stored[i])])}
  /\ vault = NoVault /\ ui = Blank
  /\ away = "here" /\ locks \in Settings
  /\ job = "none" /\ running = TRUE
  /\ clip = Other /\ timers = {} /\ bare = FALSE
  /\ unsaved = FALSE /\ failed = FALSE /\ doubled = FALSE /\ chosen = None
  /\ changes = 0 /\ copies = 0 /\ faults = 0

-----------------------------------------------------------------------------
(* The list and its cache.                                                 *)

\* Of s what is at the places in I (SelectSeq, in a form that can be proved about).
Those(s, I) ==
  LET F[n \in 0 .. Len(s)] ==
        IF n = 0 THEN << >> ELSE IF n \in I THEN Append(F[n - 1], s[n]) ELSE F[n - 1]
  IN  F[Len(s)]

\* The rows that a query finds: what was used comes first.
Rows(v, q) ==
  LET hit(i) == v.entries[i].title \in Hits[q]
      all    == [i \in DOMAIN v.entries |-> i]
      used   == Those(all, {i \in DOMAIN all : hit(i) /\ v.entries[i].id = v.top})
      rest   == Those(all, {i \in DOMAIN all : hit(i) /\ v.entries[i].id # v.top})
  IN  [n \in 1 .. Len(used \o rest) |-> <<(used \o rest)[n], v.entries[(used \o rest)[n]].title>>]

\* What the fields u show in the next frame, with v open: the list is computed
\* anew if the cache was dropped, as each change must do that the list could
\* show, or if the query or the number of entries differs.
Shows(u, v, dropped) ==
  IF ~dropped /\ u.query = ui.query /\ Len(v.entries) = Len(Entries) THEN u
  ELSE [u EXCEPT !.items = Rows(v, u.query)]

\* A click or a key in the open window.
Acts == running /\ Open /\ away = "here" /\ UNCHANGED <<away, running>>

Still == UNCHANGED <<locks, job, clips, copies>>

\* The user chose the row or the entry i.
Chose(i) == chosen' = Entries[i].id /\ UNCHANGED <<unsaved, failed, doubled>>

SelectRow ==
  /\ Acts /\ Still /\ UNCHANGED <<disk, vault, changes, faults>>
  /\ \E n \in DOMAIN ui.items :
       /\ ui' = [ui EXCEPT !.sel = ui.items[n][1], !.reveal = FALSE]
       /\ Chose(ui.items[n][1])

\* The arrow keys: only when no other window is open; they stop at the ends.
Move ==
  /\ Acts /\ Still /\ UNCHANGED <<disk, vault, changes, faults>>
  /\ ui.editor = None /\ ui.review = << >>
  /\ LET n == Len(ui.items)
         P == {p \in 1 .. n : ui.items[p][1] = ui.sel}
     IN /\ n > 0
        /\ \E down \in BOOLEAN :
             LET p == IF P = {} THEN 0 ELSE CHOOSE p \in P : TRUE
                 new == IF P = {} THEN 1
                        ELSE IF down THEN IF p < n THEN p + 1 ELSE n
                        ELSE IF p > 1 THEN p - 1 ELSE 1
             IN ui' = [ui EXCEPT !.sel = ui.items[new][1], !.reveal = FALSE] /\ Chose(ui.items[new][1])

Type ==
  /\ Acts /\ Still /\ UNCHANGED <<disk, vault, hist, changes, faults>>
  /\ \E q \in Query \ {ui.query} : ui' = Shows([ui EXCEPT !.query = q], vault, FALSE)

Shown == ui.sel \in DOMAIN Entries

ToggleReveal ==
  /\ Acts /\ Still /\ UNCHANGED <<disk, vault, hist, changes, faults>>
  /\ Shown
  /\ ui' = [ui EXCEPT !.reveal = ~@]

RevealTimeout ==
  /\ running /\ Open /\ ui.reveal
  /\ ui' = [ui EXCEPT !.reveal = FALSE]
  /\ UNCHANGED <<disk, vault, away, locks, job, running, clips, hist, changes, copies, faults>>

-----------------------------------------------------------------------------
(* Saving.                                                                 *)

Change == changes < MaxChanges /\ changes' = changes + 1

\* v is what memory holds now; doubled is kept with it.
Remember(v) == vault' = v /\ doubled' = (doubled \/ Twins(v))

Saves(v) ==
  Remember(v) /\ disk' = v /\ unsaved' = FALSE /\ UNCHANGED <<failed, faults>>

SaveFails(v) ==
  /\ Remember(v) /\ faults < MaxFaults /\ faults' = faults + 1
  /\ unsaved' = TRUE /\ failed' = TRUE /\ UNCHANGED disk

\* The first entry of the title, whatever its case.
FirstOf(v, t) == CHOOSE i \in DOMAIN v.entries :
                   v.entries[i].title = t /\ \A k \in 1 .. i - 1 : v.entries[k].title # t
Has(v, t)     == \E i \in DOMAIN v.entries : v.entries[i].title = t

FreshId == CHOOSE i \in Id : i \notin Ids(vault) \cup Ids(disk)
Room(n) == Cardinality(Ids(vault) \cup Ids(disk)) + n <= MaxEntries

\* All entries of the title go.
Without(v, t) ==
  LET kept == Those(v.entries, {i \in DOMAIN v.entries : v.entries[i].title # t}) IN
    [v EXCEPT !.entries = kept,
       !.top = IF \E i \in DOMAIN kept : kept[i].id = v.top THEN v.top ELSE None]

\* Copying a password counts a use, and saves the count as well as it can.  (A copy
\* that fails changes nothing.)
CopyPassword ==
  /\ Acts /\ Change /\ UNCHANGED <<locks, job, chosen>>
  /\ Shown /\ copies < MaxCopies /\ copies' = copies + 1
  /\ LET e == Entries[ui.sel]
         v == [vault EXCEPT !.top = e.id]
     IN /\ clip' = e.id /\ bare' = FALSE
        /\ timers' = timers \cup {[n |-> copies, of |-> e.id, by |-> "gui"]}
        /\ ui' = Shows(ui, v, TRUE)
        /\ Saves(v) \/ SaveFails(v)

-----------------------------------------------------------------------------
(* The form.  editor is the id of the entry it was opened for (orig: the   *)
(* title that entry had), or MaxEntries + 1 for an entry to be added.      *)

Adding == MaxEntries + 1

\* A bound: the user opens the form, the import and the enrolment one at a time,
\* and none once the changes are used up.
OneDialog == ui.review = << >> /\ ~ui.enroll /\ ~ui.code /\ changes < MaxChanges

BeginAdd ==
  /\ Acts /\ Still /\ UNCHANGED <<disk, vault, hist, changes, faults>>
  /\ ui.editor # Adding /\ OneDialog
  /\ ui' = [ui EXCEPT !.editor = Adding, !.orig = ""]

BeginEdit ==
  /\ Acts /\ Still /\ UNCHANGED <<disk, vault, hist, changes, faults>>
  /\ Shown /\ OneDialog
  /\ ui' = [ui EXCEPT !.editor = Entries[ui.sel].id, !.orig = Entries[ui.sel].title]

CancelEditor ==
  /\ Acts /\ Still /\ UNCHANGED <<disk, vault, hist, changes, faults>>
  /\ ui.editor # None
  /\ ui' = [ui EXCEPT !.editor = None, !.orig = ""]

\* After a save the form is closed and the first entry of the title selected;
\* after a failed one the form stays, and the list is not brought up to date.
\* Mutant: the list's cache is not dropped.
CommittedStale(v, t) ==
  ui' = Shows([ui EXCEPT !.editor = None, !.orig = "", !.sel = FirstOf(v, t), !.reveal = FALSE], v, FALSE)

Committed(v, t) ==
  ui' = Shows([ui EXCEPT !.editor = None, !.orig = "", !.sel = FirstOf(v, t), !.reveal = FALSE], v, TRUE)

CommitAdd ==
  /\ Acts /\ Still /\ Change
  /\ ui.editor = Adding /\ Room(1)
  /\ \E t \in Title :
       LET v == [vault EXCEPT !.entries = Append(@, NewEntry(FreshId, t))] IN
         /\ ~Has(vault, t)
         /\ \/ Saves(v) /\ Committed(v, t) /\ chosen' = FreshId
            \/ SaveFails(v) /\ ui' = Shows(ui, v, FALSE) /\ UNCHANGED chosen

Edited(e, t, flip) == [e EXCEPT !.title = t, !.bit = IF flip THEN ~e.bit ELSE e.bit]

\* Only adding asks whether the title is taken.  The form cannot find its entry any
\* more after a rename that was not saved.
CommitEdit ==
  /\ Acts /\ Still /\ Change
  /\ ui.editor \notin {None, Adding} /\ Has(vault, ui.orig)
  /\ \E t \in Title, flip \in BOOLEAN :
       LET i == FirstOf(vault, ui.orig)
           v == [vault EXCEPT !.entries[i] = Edited(Entries[i], t, flip)]
       IN \/ Saves(v) /\ Committed(v, t) /\ chosen' = ui.editor
          \/ SaveFails(v) /\ ui' = Shows(ui, v, FALSE) /\ UNCHANGED chosen

Deleted(v) ==
  ui' = Shows([ui EXCEPT !.editor = None, !.orig = "", !.sel = None, !.reveal = FALSE], v, TRUE)

\* Mutant: the entry is deleted from memory only.
DeleteUnsaved ==
  /\ Acts /\ Still /\ Change /\ UNCHANGED <<disk, unsaved, failed, chosen, faults>>
  /\ ui.editor \notin {None, Adding}
  /\ Remember(Without(vault, ui.orig)) /\ Deleted(Without(vault, ui.orig))

Delete ==
  /\ Acts /\ Still /\ Change /\ UNCHANGED chosen
  /\ ui.editor \notin {None, Adding}
  /\ LET v == Without(vault, ui.orig) IN
       \/ Saves(v) /\ Deleted(v)
       \/ SaveFails(v) /\ ui' = Shows(ui, v, FALSE)

-----------------------------------------------------------------------------
(* Import, padding, and a keyfile as second factor.                        *)

LoadImport ==
  /\ Acts /\ Still /\ UNCHANGED <<disk, vault, hist, changes, faults>>
  /\ OneDialog /\ ui.editor = None
  /\ \E r \in Imports : ui' = [ui EXCEPT !.review = r]

CancelImport ==
  /\ Acts /\ Still /\ UNCHANGED <<disk, vault, hist, changes, faults>>
  /\ ui.review # << >> /\ ui' = [ui EXCEPT !.review = << >>]

\* Titles that exist are imported once more.
CommitImport ==
  /\ Acts /\ Still /\ Change /\ UNCHANGED chosen
  /\ ui.review # << >> /\ Room(Len(ui.review))
  /\ LET free == SetToSeq(Id \ (Ids(vault) \cup Ids(disk)))
         v == [vault EXCEPT !.entries = @ \o [n \in DOMAIN ui.review |-> NewEntry(free[n], ui.review[n])]]
     IN \/ Saves(v) /\ ui' = Shows([ui EXCEPT !.review = << >>], v, TRUE)
        \/ SaveFails(v) /\ ui' = Shows([ui EXCEPT !.review = << >>], v, FALSE)

\* Changing the padding saves all that memory holds (it is a step only when that
\* is more than the file holds).
SetPadding ==
  /\ Acts /\ Still /\ Change /\ UNCHANGED <<chosen, ui>>
  /\ unsaved
  /\ Saves(vault) \/ SaveFails(vault)

StartEnroll ==
  /\ Acts /\ Still /\ UNCHANGED <<disk, vault, hist, changes, faults>>
  /\ ~vault.second /\ OneDialog /\ ui.editor = None /\ ui' = [ui EXCEPT !.enroll = TRUE]

CancelEnroll ==
  /\ Acts /\ Still /\ UNCHANGED <<disk, vault, hist, changes, faults>>
  /\ ui.enroll /\ ui' = [ui EXCEPT !.enroll = FALSE]

\* The recovery code is shown only after the save.
FinishEnroll ==
  /\ Acts /\ Still /\ Change /\ UNCHANGED chosen
  /\ ui.enroll /\ ~vault.second
  /\ LET v == [vault EXCEPT !.second = TRUE] IN
       \/ Saves(v) /\ ui' = Shows([ui EXCEPT !.enroll = FALSE, !.code = TRUE], v, TRUE)
       \/ SaveFails(v) /\ UNCHANGED ui

CodeSaved ==
  /\ Acts /\ Still /\ UNCHANGED <<disk, vault, hist, changes, faults>>
  /\ ui.code /\ ui' = [ui EXCEPT !.code = FALSE]

-----------------------------------------------------------------------------
(* Unlocking and locking.                                                  *)

Opened(v) ==
  /\ vault' = v /\ ui' = Shows(Blank, v, TRUE)
  /\ unsaved' = FALSE /\ failed' = FALSE /\ doubled' = Twins(v) /\ chosen' = None

Unlock ==
  /\ running /\ away = "here" /\ Locked /\ disk # NoVault
  /\ Opened(disk)
  /\ UNCHANGED <<disk, away, running, changes, faults>> /\ Still

Create ==
  /\ running /\ away = "here" /\ Locked /\ disk = NoVault
  /\ disk' = Of(<< >>) /\ Opened(Of(<< >>))
  /\ UNCHANGED <<away, running, changes, faults>> /\ Still

Lock ==
  /\ vault' = NoVault /\ ui' = LockedUi
  /\ unsaved' = FALSE /\ failed' = FALSE /\ doubled' = FALSE /\ chosen' = None

LockNow == Acts /\ Still /\ Lock /\ UNCHANGED <<disk, changes, faults>>

\* Mutant: minimizing locks only when locking by idleness is on.
MustLockWhenOn ==
  \/ locks.idle /\ away \in {"idle", "minimized"}
  \/ locks.blur /\ away = "blurred"

MustLock ==
  \/ away = "minimized"
  \/ locks.idle /\ away = "idle"
  \/ locks.blur /\ away = "blurred"

\* A frame without a click: a job that has ended is taken notice of, and then,
\* in the same frame, the window is locked if it must be.
Frame ==
  /\ running
  /\ job' = IF job = "ended" THEN "none" ELSE job
  /\ IF Open /\ job # "running" /\ MustLock THEN Lock
     ELSE UNCHANGED <<vault, ui, hist>>
  /\ UNCHANGED <<disk, away, locks, running, clips, changes, copies, faults>>

Leave ==
  /\ running
  /\ IF away # "here" THEN away' = "here"
     ELSE \/ away' = "minimized"
          \/ locks.idle /\ away' = "idle"
          \/ locks.blur /\ away' = "blurred"
  /\ UNCHANGED <<disk, vault, ui, locks, job, running, clips, hist, changes, copies, faults>>

\* The settings window.
SetLocks ==
  /\ Acts /\ locks' \in Settings \ {locks}
  /\ UNCHANGED <<disk, vault, ui, job, clips, hist, changes, copies, faults>>

StartJob ==
  /\ running /\ away = "here" /\ job = "none" /\ job' = "running" /\ Change
  /\ UNCHANGED <<disk, vault, ui, away, locks, running, clips, hist, copies, faults>>

JobEnds ==
  /\ running /\ job = "running" /\ job' = "ended"
  /\ UNCHANGED <<disk, vault, ui, away, locks, running, clips, hist, changes, copies, faults>>

-----------------------------------------------------------------------------
(* The clipboard.  A timer clears it if it still holds that password.         *)

\* Mutant: the thread of the window ends without clearing.
ClearedNot(t) == IF t.by = "gui" THEN clip ELSE Other

Cleared(t) == IF clip = t.of THEN Other ELSE clip

\* t is the last that will clear what is on the clipboard.
LastFor(t) == clip = t.of /\ \A u \in timers \ {t} : u.of # t.of

\* Reading the clipboard or clearing it may fail, which nobody is told.
TimerFires ==
  /\ \E t \in timers :
       /\ timers' = timers \ {t}
       /\ \/ clip' = Cleared(t) /\ UNCHANGED bare
          \/ UNCHANGED clip /\ bare' = (bare \/ LastFor(t))
  /\ UNCHANGED <<disk, vault, ui, away, locks, job, running, hist, changes, copies, faults>>

\* The command line leaves a process behind that will clear the clipboard: but not when
\* it is told to clear nothing, nor when the process cannot be started.
CliCopies ==
  /\ copies < MaxCopies /\ copies' = copies + 1 /\ Change
  /\ \E i \in Ids(disk) :
       /\ clip' = i
       /\ \/ /\ timers' = timers \cup {[n |-> copies, of |-> i, by |-> "cli"]}
             /\ bare' = FALSE
          \/ UNCHANGED timers /\ bare' = (\A t \in timers : t.of # i)
  /\ UNCHANGED <<disk, vault, ui, away, locks, job, running, hist, faults>>

\* Another program copies something, or the window a user name: no timer is set.
OtherCopies ==
  /\ clip # Other /\ clip' = Other /\ bare' = FALSE
  /\ UNCHANGED <<disk, vault, ui, away, locks, job, running, timers, hist, changes, copies, faults>>

\* The window's threads end with it; a process of the command line does not.
Quit ==
  /\ running /\ running' = FALSE
  /\ Lock /\ job' = "none" /\ timers' = {t \in timers : t.by = "cli"}
  /\ UNCHANGED <<disk, away, locks, clip, bare, changes, copies, faults>>

Next ==
  \/ SelectRow \/ Move \/ Type \/ ToggleReveal \/ RevealTimeout
  \/ CopyPassword
  \/ BeginAdd \/ BeginEdit \/ CancelEditor \/ CommitAdd \/ CommitEdit \/ Delete
  \/ LoadImport \/ CancelImport \/ CommitImport \/ SetPadding
  \/ StartEnroll \/ CancelEnroll \/ FinishEnroll \/ CodeSaved
  \/ Unlock \/ Create \/ LockNow \/ Frame \/ Leave \/ SetLocks \/ StartJob \/ JobEnds
  \/ TimerFires \/ CliCopies \/ OtherCopies \/ Quit

\* The window draws a frame each second while the vault is open, jobs end, and
\* threads that sleep wake up.
Fairness == WF_vars(Frame) /\ WF_vars(JobEnds) /\ WF_vars(TimerFires)

Spec == Init /\ [][Next]_vars /\ Fairness

-----------------------------------------------------------------------------
(* Properties.                                                             *)

\* The selection is kept as an index.  While titles are unique and no save has
\* failed, the entry at that index is the one the user chose, whatever was added,
\* deleted, renamed or reordered meanwhile: what is revealed or copied is what
\* was chosen.
SelectionMeans ==
  Open /\ ui.sel # None /\ ~failed /\ ~doubled =>
    Shown /\ Entries[ui.sel].id = chosen

\* The list, which is kept from frame to frame, is what the query would find,
\* unless a save failed: no change forgets to drop the cache.
ListFresh ==
  Open /\ ~failed => ui.items = Rows(vault, ui.query)

\* What the window shows, and acts on, is what the vault holds.
ShowsWhatIs == TypeOK /\ SelectionMeans /\ ListFresh

\* Unless the last save failed, and the window said so, what the open vault
\* holds is in the file: locking, quitting or a kill loses nothing.
SavedWhenSaidSo ==
  Open /\ ~unsaved => vault = disk

\* When the user has gone (minimized, idle, or elsewhere with that setting on),
\* the vault is locked or the user comes back: a job delays it and ends.
LocksWhenLeft ==
  (Open /\ away # "here") ~> (Locked \/ away = "here")

\* A copied password leaves the clipboard, whatever else is copied meanwhile, before or
\* after: unless the window that copied it is closed first, the command line was told
\* not to clear it or could not start the process that would, or whoever was to clear it
\* could not, be it one or several.
Owed(i) == clip = i /\ ~bare /\ (running \/ \E t \in timers : t.of = i)

ClipboardCleared == \A i \in Id : Owed(i) ~> ~Owed(i)

=============================================================================
