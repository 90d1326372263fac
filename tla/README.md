# blindkey: a TLA+ model of what it keeps

blindkey is a secrets manager in Rust: a password vault in one file, sealed files,
encrypted volumes, a window, a command line, and a broker that lends secrets to
programs. Most of its hazards lie where its files meet other actors (a sync client that
owns the folder a volume lives in, a second process on the same vault, a crash between
two renames), and in long sequences of legal calls (enrolling, saving, rotating; selecting,
editing, failing to save). This project models those parts, checks them with TLC and
proves the main results with TLAPS. It speaks of the program's control and of the order
of its operations, and takes its cryptography for what it promises.

## 1. The system

| component | state | operations | interacts with | hard because | correct when |
|---|---|---|---|---|---|
| working copy (`volume/working_copy.rs`, driven by `volume_gui.rs`) | session directory: `state.json`, `brick.vltd`, `mnt/`; temporaries in the sync folder | checkout, set_phase, checkin, E8 fallback, discard, list, resume | sync client, materialised or FUSE mount, other sessions | every step can be the last; the sync client writes at any time; two locations hold the edits | no edit is lost, no torn or foreign brick is replaced, leftovers are found again |
| materialised mount (`volume/materialize.rs`) | folder `mnt/` | open, adopt, close (import, sync, shred), Drop | VFS, working copy | partial export and partial shred; adopt takes what it finds | import after any crash changes only what the user changed |
| volume VFS and persist (`volume/mod.rs`, `fs.rs`, `anchor.rs`) | path tree, version, brick, anchor | list, read, write, mkdir, unlink, rmdir, rename, truncate, sync | materialised and FUSE mount | brick rewritten in place; path-prefix maps for a tree | the tree stays a tree; a torn brick is detected |
| FUSE file system (`blindkey-fuse/session.rs`) | inode table, VFS in memory | lookup, create, rename, unlink, write, release, fsync | kernel, VFS | inode numbers outlive paths | an inode names one file |
| volume workspace (`gui/volume_gui.rs`, `cli/commands/volume.rs`) | open volume, dialogs, hand-off slot, threads | create, mount, unlock another, eject, quit; create, resize, trust-anchor | mounts, anchor, other processes | threads finish after the dialog that began them; volumes are copies in memory | what is held is shown, edits survive, quitting leaves no cleartext |
| vault file (`cli/commands/mod.rs`, `gui/main.rs`) | `vault.vlt`, `vault.vlt.tmp` | open, save | other processes, storage | no lock; one temporary for all | whole after any crash, no finished save lost |
| rollback anchor (`rollback/mod.rs`) | `<vault_id>.state` | check, advance (under flock) | vault file | read, checked and written at different times | no silent regression, no false alarm |
| stanzas (`envelope/`, `vault.rs`, `sealed.rs`) | the header's list of wrapped keys | enrol, remove, refresh, upgrade-kdf, rotate, open | tokens, the owner's memory | each operation rewrites the list in its own way | whoever was told a way in has it; a second factor stays required |
| body (`vault.rs`, `format/`, `crypto/stream.rs`) | entries or files; records, keystream, chunks | add, edit, remove, save, open, list, extract | vault file, sealed file | fields sealed under keys of earlier saves; readers that work chunk by chunk | what was put in comes out, and everything written can be read |
| sealed files (`sealed.rs`, `sealed_gui.rs`, `cli` and `tui` `sealed.rs`) | `.vltf`, `.vltf-partial/` | seal, append, open, cancel | other programs, the file system | steps that fail, are cancelled or overtaken | fails clean, seals what was there, extracts all |
| agent broker (`blindkey-agent`) | handle store, audit log | use, allow, revoke | clients, command line | a thread per connection, whole store loaded and saved | a revoked or used-up handle stays so |
| clipboard holder (`blindkey-clip`) | clipboard | copy, clear after delay | other programs | two holders, clear only if unchanged | the secret goes, a foreign content stays |
| GUI session (`gui/main.rs`) | open vault, list cache, selection, form, locks | unlock, select, edit, import, enrol, lock, quit | vault file, clipboard, jobs | an index into a cached list; saves that fail; jobs that hold off the lock | what is shown is what is; it locks in the end |
| front ends (`cli/main.rs`, `tui`, GUI drawing) | none that lasts | parse, print, draw | all of the above | | |
| search, frecency, TOTP, generator, import, audit, crypto | none | functions | vault body | boundaries | they compute what their reference says |
| hardware, platform layer | tokens | calls | stanzas, working copy | | |

The parts talk through files (vault, temporaries, anchor, session directory,
sync folder, handle store), through one hand-off slot between the GUI and its
mount job, through the clipboard, and through the broker's socket.

## 2. Modules

| module | models | composes |
|---|---|---|
| `WorkingCopy` | working copy, with the materialised and FUSE mounts as its steps, the sync client, crashes | |
| `MCWorkingCopy` | symmetry for TLC | `WorkingCopy` |
| `WorkingCopy_proofs` | inductive invariant and theorems | `WorkingCopy`, `TLAPS` |
| `VaultFile` | vault file and rollback anchor, windows and commands as processes, a storage that goes back | |
| `TempRename` | a file that several processes replace through one shared temporary | |
| `VaultStore` | what the vault file and its anchor implement while the processes take turns | |
| `MCVaultFile` | symmetry for TLC | `VaultFile` |
| `AgentBroker` | the broker's threads, its prompts, the handle store, `allow` and `revoke` | `TempRename` |
| `MCAgentBroker` | symmetry for TLC | `AgentBroker` |
| `AgentBroker_proofs` | inductive invariants and theorems | `AgentBroker`, `TLAPS` |
| `VolumeTree` | the tree of an unlocked volume and the operations on it, as operators | |
| `FuseMount` | the FUSE handlers and their inode table, the kernel as the environment | `VolumeTree` |
| `PosixTree` | abstract: a tree of files with identities, and handles that reach them | `VolumeTree` |
| `MCFuseMount` | symmetry for TLC | `FuseMount` |
| `FolderMount` | export, adoption, import, sealing and shredding of a cleartext folder, the programs that edit it as the environment | `VolumeTree` |
| `MCFolderMount` | symmetry for TLC | `FolderMount` |
| `Mounts_proofs` | lemmas on paths and trees; inductive invariants of both mounts; refinement of `PosixTree` | `FuseMount`, `FolderMount`, `TLAPS` |
| `Unlocking`, `MCUnlocking` | the stanzas of a vault or sealed file, and every command that changes them | |
| `Unlocking_proofs` | inductive invariant and theorems | `Unlocking`, `TLAPS` |
| `SealedFile`, `MCSealedFile` | sealing, adding and extracting as jobs of several steps | |
| `SealedFile_proofs` | inductive invariants and theorems | `SealedFile`, `TLAPS` |
| `GuiSession`, `MCGuiSession` | the window with a vault, frame by frame, and the clipboard | |
| `GuiSession_proofs` | lemmas on lists and ids, inductive invariant and theorems | `GuiSession`, `TLAPS` |
| `Workspace`, `MCWorkspace` | volumes on a local disk, the window's dialogs and threads, commands | |
| `Workspace_proofs` | inductive invariants and theorems | `Workspace`, `TLAPS` |
| `Body`, `MCBody` | what is written into a vault or sealed file, byte for byte, and how it is read back | |
| `Vault_proofs` | inductive invariants and theorems; refinement of `VaultStore`; lemmas on texts, records and chunks | `VaultFile`, `Body`, `TLAPS` |

`VaultFile` extends `TempRename` too: `write_vault` of the command line and of the
window and `write_json` of the broker save in the same way, and differ in what they
save and in what they do when it fails. `FuseMount` and `FolderMount` are the two ways
a volume's tree is changed; `WorkingCopy` has both as steps on one folder, whole,
partial, edited or gone, and adds the session around them.

### WorkingCopy

`source` is the brick in the sync folder (bytes and inode), `temps` and `litter`
the check-in temporaries beside it, held and abandoned. `phase`, `fp`, `brick`
and `tree` are the session directory: `state.json`'s phase and fingerprint,
`brick.vltd`, `mnt/`. `pc` is where the session's process is. Contents are model
values: sealing never yields the same bytes twice (fresh nonces), so it picks an
unused one; `Torn` is a brick whose in-place rewrite was cut short and `Missing`
stands for an evicted or deleted file. A tree is absent, empty, partial, clean or
edited, which is all the guards and the properties tell apart. Programs edit it while it is
mounted; what they write while it is imported or shredded is followed in `FolderMount`.

| action | code |
|---|---|
| `CheckoutHash` … `CheckoutChanged` | `WorkingCopySession::checkout`, one step per read of the source and one per write of the directory |
| `MountExport`, `ExportFile`, `ExportDone`, `ExportFails`, `MountAdopt` | `MaterializedMount::open_or_adopt` in `run_mount_job` |
| `MountFuse`, `FuseSync`, `FuseSyncDone`, `FuseSyncFails` | `mount_volume`, `release`, `fsync`, `teardown` |
| `MarkMounted`, `MarkUnmounted`, `SidecarFails` | the two `let _ = s.set_phase(..)` of the GUI, and `write_sidecar` failing |
| `SealBegin` … `ShredFails` | `MaterializedMount::close`: import, in-place sync, shred |
| `CheckinRefused` … `Remove` | `checkin_with` and `e8_fallback_replace`, one step per file-system operation that another actor could come between |
| `Discard`, `Crash`, `CrashInRemove`, `Resume` | discard; the end of the process at any step, with what `remove_dir_all` had taken; the resume window |
| `RemoteWrite` | the sync client: any bytes, in place or as a new file, eviction, deletion |

### VaultFile

A process reads the vault (`ReadVault`), compares versions (`GuardOk`,
`GuardAdvance`, `GuardRegressed`), changes and counts up in memory (`Save`),
truncates the common temporary (`OpenTmp`), writes it (`WriteBegin`, `WriteEnd`),
renames it (`Rename`) and advances the anchor (`NoteSaved`). `fd`, of `TempRename`,
tells where the file a writer has open is now: still the temporary, the vault itself
since another process renamed it, or without a name. Thus two writers of one
temporary behave as POSIX has it. A vault is its version and the set of updates in it. A command ends
after one save or a failure; a window keeps its vault, and the version it counted
up, in memory. `advance_anchor` runs under `flock` and is one step.

### AgentBroker

A connection is served once, by a thread: it loads the store and finds the handle
(`Lookup`, or `Refuse`), prints its prompt (`Ask`), gets hold of stdin (`TakeStdin`)
and a line (`Answer`), spawns the destination (`Deliver`, `DeliverFails`), waits for
it (`ChildEnds`, where `consume_use` is applied to the store it loaded at the
beginning) and saves that store (`SaveOpen` … `SaveFails`). `Allow` and `Revoke` are
the commands. `shown` is what is on the broker's terminal; the operator answers the
last prompt, and `reader` is the thread that gets the line. A store maps a handle to
its remaining uses, or `Gone`; titles, destinations and the socket protocol are left
out. A store that was cut short is refused, one with nothing in it loads as an empty one (`Loaded`).
`BLINDKEY_AGENT_AUTO_APPROVE`, for tests, is not modelled. `ledger` is the
abstract store: each operation applied to it in one step, when its rename takes
effect.

### VolumeTree

`Vfs` maps normalised paths to nodes. There are no links between nodes, so that the
map is a tree (`Treelike`) is up to the operations. Each has an operator for the map
it leaves and, where it may refuse, one for when it does not (`MkdirOk`, `UnlinkOk`,
`RmdirOk`, `RenameOk`). `Write` puts a file at a path whatever is there, a directory
included; its children then stay in the map, hidden. `Rename` onto a directory merges.
The length of a path is bounded by `Depth`.

### FuseMount

`byIno`, `byPath` and `next` are `InodeTable`; `Intern`, `Forget` and `RenameSubtree`
its methods. `RenameSubtree` goes through a `HashMap`: where two numbers move to one
path, `last` picks which of them ends up in `byPath`. `means` is history: what a number was
given out for. A file is its identity; its bytes, sizes and attributes are left out.

| action | code |
|---|---|
| `Lookup` | `lookup`, and each entry of `readdir` |
| `OpenFile`, `WriteFile`, `CloseFile` | `open`, `write`, `release` |
| `Create`, `MakeDirectory`, `RemoveFile`, `RemoveDirectory`, `Move` | `create`, `mkdir`, `unlink`, `rmdir`, `rename` |
| `Remount` | teardown, seal, and a new mount with a new table |

The kernel is external: it names only what it has looked up, creates only where nothing
is, and replaces a file by a file and a directory by a directory (`Entry`, `MayMove`).
Whether a directory that is replaced is empty it leaves to the file system.

`PosixTree` is what programs expect: the same map of paths, and per handle the file it reaches.
`FuseMount` implements it with `vfs` as the tree, inode numbers as handles, and for each number
the file that `Reach` finds through the table: `Closed` if nobody has it open, `Lost` if the table
leads nowhere. So a `rename` must move a whole directory in one step and take every open number
with it, and no call may change a file that another number has open.

### FolderMount

`sealed` is the tree in the brick, `tree` the one in memory, `host` the folder `mnt/`.
`want` is history: what the programs would find in the volume if it were theirs
directly. It begins anew with each export, since programs go on from what they find; that what
they find is what they left, `ClosesFaithfully` says of the brick for as long as it is the only one to
have it, that is from the moment it is sealed until it is exported. `spoilt` and `missed` are the paths an interrupted export or shredding, or an
import during which somebody edited or a listing failed, may have got wrong.

| action | code |
|---|---|
| `Export`, `ExportStops`, `Adopt` | `open` with `export_tree`, whole or cut short; `adopt` |
| `Edit` | another program, at any time but during export and shredding |
| `Close`, `ImportEntry`, `ImportRefused`, `ImportFails` | `close` or `Drop`, `import_tree` one entry at a time, its refusal to make a directory over a file, its errors |
| `Seal`, `SealBlind` | the end of `import_tree`, where what was not seen is removed from the volume (`Sweep`, with `remove_vpath` giving up at directories that have something hidden), then `sync`; the same when a listing failed without a word |
| `Shred`, `ShredStops`, `Crash` | `shred_dir`, whole or cut short at zeroing or at removing; the end of the process |

The marker `.bk-unsynced` is left out: import skips it.

### Unlocking

`file` is the header: its kind, its stanzas, and the kdf parameters and data key that are
current. The password stanzas are a list, since an upgrade and a rotation tell the master
password's from the recovery code's by their order; the others are told apart by their type, and
are a set. A stanza is what it was made from (type, secret, factor, kdf, key), and
opens if all of that is met again (`Unwraps`, `DeviceUnwraps`). `Brought` is what the owner
types and plugs in; every command starts by opening the file with it (`Opening`), so typing
errors go as far as the code lets them. `told` is history: the ways in that a command told
the owner of. `lapsed` are those that a later command ended without a word; it names
exactly the cases, and each is a line of section 5.

| action | code |
|---|---|
| `ChangeEntries` | any command that saves the vault, with the YubiKey refresh of `save_vault` (`Saved`) |
| `EnrollKeyfile`, `EnrollYubikey`, `EnrollYubikeyRefused`, `EnrollFido2`, `EnrollTpm` | `cmd_enroll_*`; the refusal that has programmed slot 2 already |
| `RemoveStanza`, `UpgradeKdf`, `RotateDataKey` | `cmd_stanzas`, `cmd_upgrade_kdf`, `cmd_rotate_data_key` |
| `MachineChanges` | PCR 7 changes |

### SealedFile

`box` is the sealed file, `dest` and `staging` the folder to extract to and its
`.vltf-partial`, `job[j]` what a program is doing. A file is a sequence of blocks, of an empty one
none, read one by one, so that an edit may fall between two; a file that has become shorter than
it was is an error, what was added to one is not read. What a job has still `todo` is a set,
taken in the `Order` of the entries' paths, which is how the archive has them. `touched`, `alone` and `early` are history: what was
written to while a job ran, whether another one worked meanwhile, and whether it was cancelled
before its last look at the flag.

An extraction takes the body chunk by chunk (`NextChunk`), and only there looks at the flag; a
chunk completes any number of entries (`feed`), which are then staged one by one, and may be the last
(`over`). So a cancel that comes after the last chunk was decrypted has no effect, neither while its
files are staged nor while they are moved. `Promote` moves an entry to its place;
`PromoteWithin` one that is stored below `.vltf-partial/` (`Hidden` pairs it with the name that
it is moved to), within the staging folder and over whatever is there. Both fail where a file and a folder
meet, and an `Error` may come between any two: what was moved before stays where it is.

| action | code |
|---|---|
| `StartSeal`, `StartAppend`, `Collect`, `ReadBlock`, `WriteBox` | `cmd_seal`, `collect_entries`, `stream_file_parts`, `seal_entries`, `save_preserving_body` |
| `StartOpen`, `Prepare`, `NextChunk`, `Stage`, `Verify`, `Promote`, `PromoteWithin`, `Promoted`, `Sweep` | `extract_to_dir`, `extract_streaming`, `write_staged_file`, `promote_staging` |
| `Cancel`, `Error`, `SweepFails`, `Crash`, `EditSource`, `Acknowledge` | the cancel flag, errors, the ignored error of the clean-up, a kill, other programs, the poll that takes the result |

### GuiSession

An action is a frame: what the window polls and checks at its beginning, and one click or key.
`disk` and `vault` are the file and the open vault, `ui` the fields that belong to it (the
selection is an index, `items` the cached rows), `away` where the user is as far as the window
knows. `unsaved`, `failed`, `doubled` and `chosen` are history. `timers` are the threads of the
window and the detached process of the command line that clear the clipboard. Reading it or
clearing it may fail, of which nobody is told (`TimerFires`); the command line may start no such process, when
it is told `--timeout 0` or when starting it fails after the copy was made (`CliCopies`). `bare`
is history: nobody who could still clear what is on the clipboard has undertaken to.

| action | code |
|---|---|
| `SelectRow`, `Move`, `Type`, `ToggleReveal`, `RevealTimeout`, `CopyPassword` | `unlocked_screen`, `copy_password` |
| `BeginAdd` … `Delete` | the form: `commit_editor`, `delete_from_editor` |
| `LoadImport` … `CommitImport`, `SetPadding`, `StartEnroll` … `CodeSaved` | import, settings, keyfile enrolment |
| `Unlock`, `Create`, `LockNow`, `Frame`, `Leave`, `SetLocks`, `StartJob`, `JobEnds`, `Quit` | `try_unlock`, `try_create`, `lock`, `update` with `enforce_auto_lock` and `enforce_focus_lock` |
| `TimerFires`, `CliCopies`, `OtherCopies` | `schedule_clear`, `run_clipboard_holder`, other programs |

### Workspace

`store` is the disk (bricks with version and content, folders), `anchor` what the device
trusts, `win` the window, `job` its creating and its mounting thread, `cli` a command. The
content of a volume is the set of edits in it. `meant` and `owner` are history: where an edit
was made, and for which volume a folder was opened. `Write` is `persist` with `write_file_secure`,
in place and without a look at what is there; who had not read the last save harms it. `Tear` is
a write that is cut short: it harms the brick too, unless a whole folder still holds what was to be in it.

An export is two steps of its thread (`MountExport`, `MountFolder`): in between the folder has some
of the volume's content, and the thread may fail, be killed, or be ended by closing the window. Shredding may
likewise be cut short, or not get a file or the folder removed (`HalfShredded`, in `Drop`,
`Unshredded` and `Crash`). Such a folder is `cut`; the next unlock adopts it as it would a whole one
(`MountAdopt`, `Bare`), and sealing from it harms the brick, since what is not in the folder
is removed from the volume (`SealedFrom`). `harmed`, `undone` and `cut` are history.

| action | code |
|---|---|
| `AskMount`, `ShowForm`, `StartCreate`, `StartMount`, `TakeReady`, `TakeValidated`, `TakeCreated`, `TakeFailed` | dialogs and `poll_worker` |
| `Eject`, `EjectFails`, `Quit`, `Crash`, `Launch` | `eject`, `prepare_quit`, the process ends or begins |
| `Refused`, `CreateRun`, `CreateFails`, `MountOpen`, `MountAdopt`, `MountExport`, `MountFolder`, `MountFolderFails` | `run_create_job`, `run_mount_job`, `open_or_adopt`, `export_tree`, `handoff_live` |
| `CliCreate` … `CliDies` | `cmd_create`, `cmd_resize`, `cmd_upgrade_kdf`, `cmd_trust_anchor` |
| `EditFolder`, `Restore` | programs that edit the folder, storage that goes back |

### Body

A byte is the number it stands for and the keystream byte (key and position) that covers it;
deciphering with another one gives `Garbage`. A header stands for six bytes and has two.
Contents become records (`Payload`, `ArchiveText`), records a byte sequence, that is cut
into chunks (`Chunked`); a reader takes them one by one and keeps what is not yet a whole
record, as `parse_from_stream_ciphertext` and `ArchiveIncrementalParser` do, each with its own
idea of what is incomplete and what malformed (`Partial`, `Malformed`). Secret fields that were
read stay enciphered under their save's key (`Sealed`, `Expose`).

| action | code |
|---|---|
| `AddEntry`, `ChangeEntry`, `RemoveEntry`, `PutFile` | `Vault::add_entry`, `entry_mut`, `remove`; `merge_entries_from_blob` |
| `SaveBody`, `CloseBody`, `OpenBody` | `save_body` and `seal_entries` (a new key, serialise, pad, cut), lock, `open_inner` |
| `NextChunk`, `Wait`, `ReadKey`, `ReadEntry`, `ReadEnd`, `ReadHeader`, `ReadPart`, `ReadFileEnd`, `FinishReading` | the two incremental readers |
| `Refuse`, `WrongSize`, `Beyond` | their errors |

## 3. Runs

| run | asks | result |
|---|---|---|
| `working_copies` | two sessions on one brick: do edits survive, does the source stay whole, are leftovers listed, whom may a check-in replace and what with | holds |
| `vault_file` | what saving and the anchor guarantee | holds |
| `agent_broker` | is the store what atomic operations make of it, who is delivered, is every request answered | holds |
| `fuse_mount` | are the path map and the inode table together a file system | holds, until a rename replaces something |
| `folder_mount` | is the sealed volume what the programs left in the folder | holds, path by path, but for what is excused below |
| `unlocking` | after any sequence of commands: which ways in are open, which are shut | holds, but for what lapsed |
| `sealed_file` | what is sealed, what is extracted, what a failure leaves, do jobs end | holds |
| `sealed_opens` | can what was sealed be opened again | violated: a file that the window seals with a second factor never opens |
| `gui_session` | is what is shown what is; is what was said to be saved saved; does it lock; does the clipboard clear | holds |
| `workspace` | are edits kept, volumes kept apart, is cleartext gone after quitting, does an old copy open | holds |
| `body` | does what was put in come back, is keystream used once, what cannot be read | holds, with two exceptions it names |
| `split_header` | can every undamaged sealed file be extracted | violated: not if a record's header lies across two chunks |

### What the models found

Two runs end in a counterexample, and both are defects that lose a user's data:

- `sealed_opens`. The window seals with a keyfile or a YubiKey by putting the container's
  header (`save_preserving_body`) before a body that was written under a fresh clone of it.
  Seed and nonce prefix differ, so the body authenticates with no factor.
- `split_header`. `read_record` calls one to five bytes of a header malformed, though the
  extraction feeds it chunk by chunk. Part records are 65,542 bytes and chunks 65,536, so every
  file of some 700 MB meets it, and smaller ones by chance. The vault's own reader
  (`IncrementalTlv`) waits for the rest, as `OpensUnless` says of it.

Other properties of passing runs carry the condition under which the code keeps them; each
condition stands for a place where the code does less than a document says:

- `NoEditLost` and `LeftoverTreeListed` are all that holds of an eject under FUSE: the mount
  point `mnt/` stays behind, eject and check-in refuse beside any `mnt/`, so it never checks in
  (`volume_gui.rs:712`, against UC-30:61); the edits stay in the session, and are listed.
- `SourceWhole` excuses an interrupted discard. A seal that is cut short leaves a torn
  brick with its folder; a discard that is cut short may take just the folder; then
  nothing stops the torn brick from being checked in.
- `AckedUnlessOverlapped` and `ImplementsStore` excuse processes that hold the
  vault at the same time: no lock is taken and the file is not read again, so they lose each
  other's updates (UC-03:237 says otherwise), and one may rename the shared temporary while the
  other writes it.
- `StoreIsLedger` excuses processes that hold the handle store at the same time: a request
  saves the store it loaded before its prompt, so a handle revoked meanwhile is back
  (`unix.rs:92`). A use is counted after the delivery and its result dropped (`unix.rs:91`): a
  handle with no uses left is delivered (AGENT_BROKER.md:30).
- `DeliveredAsMeant` excuses two prompts that wait at once: then the operator's line,
  meant for the last prompt, goes to whichever thread holds stdin, and UC-16's "Approve
  = this one use" does not hold.
- `Consistent` and `ImplementsPosix` end with the first rename that replaces something
  (`broken`). It leaves two numbers for one path (`session.rs:92`); a directory that is
  not empty is merged into; and a write through a number that has gone stale makes the file
  again, or puts it over a directory.
- `ClosesFaithfully` excuses, path by path: what was edited while it was imported or could
  not be listed (`missed`); what an interrupted export or shredding got wrong and
  nobody has edited since (`materialize.rs:79` adopts whatever it finds), and a folder that was
  emptied before a crash, which is exported anew (`spoilt`); and what is below a folder that
  cannot be removed since it has hidden nodes (`Sticky`). Nothing excuses a path for
  what befell another one, except that one.
- `PromisesKept` and `SecondFactorHolds` excuse what `lapsed` names: a save with the YubiKey
  plugged in keeps only it and the recovery stanza, and re-wraps under whatever opened the
  file; `upgrade-kdf` strands every Argon2 stanza but the first password one, kills the recovery
  code and lets the master password alone open a file with a second factor (`vault.rs:835`);
  FIDO2 and TPM stanzas of a sealed file or beside a second factor are never tried; a rotation
  compares neither the recovery code nor the keyfile it is given; `enroll yubikey` on a sealed
  file programs slot 2 before it looks whether it may (`commands/mod.rs:1448`).
- `Extracted` leaves out three kinds of entries (`Lost`), and success is reported for all: one
  whose name is the draft of another (`x.zip` is staged as `x.vltf-part`); one below
  `.vltf-partial/`, which is swept away; and one whose name the latter takes inside the
  staging folder (`.vltf-partial/k` is moved over the staged `k`, `sealed.rs:1197`), which then
  has its bytes. `SealedAsIs` leaves out a file that was edited while it was read; both, and
  `EntriesKept`, two jobs that overlap.
- `FailsClean` is what holds of an extraction that ends badly. Until all of the file is decrypted, and
  if it is cancelled before that, the folder is as it was. From then on files are moved one by
  one: if one cannot be (`sealed.rs:1187`), the job reports failure and those before it
  stay, whole and authenticated. A cancel that comes later has no effect. The staging folder
  goes unless the program is killed or the removal fails.
- `ShowsWhatIs` holds while titles are unique and no save failed: entries are found by title
  (`main.rs:746`), so an edit or a deletion of one of two twins meets the first, or both.
- `ClipboardCleared` excuses a window that was closed, since its threads die with it, and a
  secret that nobody clears: `--timeout 0`, a process that could not be started after the copy was made
  (`commands/mod.rs:1911`), a clipboard that could not be read or cleared when the time had
  come (`clip.rs:16-19`, `commands/mod.rs:1929-1932`). Nobody is told of the latter.
- `EditKept` and `OpensWhatIsTrusted` excuse a volume that was `harmed`: written by one who had not
  read its last save; torn with no whole folder beside it; or sealed from half a folder. The last is an
  export or a shredding that failed, or that a kill or closing the window ended. The next unlock
  adopts what it left (`materialize.rs:77`), as `docs/adr/0010-volume-macos-mount-matrix.md` wants
  of leftovers, and closing it removes from the volume all that had not been exported
  (`materialize.rs:216`), under a later version, which the anchor lets pass.
- `QuitSeals` excuses a folder that a failure or a kill left, and one that was still being exported,
  or was handed over but not yet shown, when the window was closed: `prepare_quit`
  (`volume_gui.rs:766`) asks for what is open, and an export is not. Its thread ends with the process, and
  what it had written stays in the clear until somebody unlocks the volume again.
- `OwnContent` excuses two volumes in one directory, which share `mnt/`.
- `OpensUnless` names two things that are written and never read again: the header above, and
  a field over 1 MiB or an entry over 16 MiB, which `write_record` and `Entry::serialize` write
  and `Entry::parse` refuses: a vault with one cannot be opened any more. (The usage record has the limit of
  an entry, too, and would be a third; it takes some half a million entries, and is not in the model.)

`NoSilentRegression` needs no such condition: it holds whoever else is at work; nor do `OneKey`,
`NeverShut` and `SavedWhenSaidSo`.

### Bounds

`MaxFaults` bounds what goes wrong in a behaviour: crashes, I/O errors, remote
writes, rollbacks. A failure that the state itself explains (a rename of a
temporary that another session's clean-up took) is free. With two sessions, two faults suffice
to have both check-ins interleave with each other and with a remote write on either side, or
for a torn seal, its crash and what follows. Three contents allow two sessions to seal one brick
each. Two inodes tell a rename from an in-place write. `Update` has three members, so that the
window can save twice around a save of the command, or the other way round.
For the broker, two requests and a command overlap in every way two holders and a
third can, one handle with a single use makes the second use meet the empty budget,
and two faults allow a killed broker and a failed save in one behaviour.
Of a mounted volume, four numbers for two names, two levels and two files suffice for a
directory with a file in it to be moved, its number kept, and a second one to be made in
its place. A folder has three levels, so
that a hidden node may itself be in a directory; at most two nodes to begin with, in any
arrangement that the map can hold, hidden ones too, since an earlier session may have
left them; and with them at most three nodes and edits, under two faults, so that a torn
export can be adopted, edited, closed and shredded in part. Two file contents and `Cut`
tell a whole file, its successor and its ruin apart.

`Unlocking` allows two of each: recovery codes, kdf settings, data keys, YubiKey secrets and
machine states, so that each may be the stale one; commands that change none of them are
unlimited. `SealedFile` has two jobs, of which one can be cancelled, two files of one name, a
name that is the draft of another, a path below the staging folder and the file that it is moved
over, one edit and one fault; the sealed files to begin with have the draft and its entry, or the hidden path
and its victim with other bytes, and the files to seal are two blocks or empty.
`GuiSession` has up to three entries of two titles, two changes and one failing save: enough for
a selection to go stale after a failed delete, an import of a twin, or a rename; and two copies, of one
secret or of two, by the window and the command line in either order. `Workspace` has
two volumes in two directories, one edit besides what a volume held beforehand, four jobs or
commands and one fault: enough for a volume to be trusted, an export to fail or be killed, its folder
to be adopted and closed, and the volume to be opened once more. No action tells edits apart, and the
properties speak of one at a time. In `Body` a chunk
has five bytes, a header two and a file part two, and fields are one or three long where two are
read again: every record can meet the end of a chunk at every byte, and a payload can be a
multiple of the chunk; three edits and two saves let a field of the first save meet the key of
the second. Only there deadlock is checked: the other systems end when session ids, contents,
updates or jobs are used up.

### Fairness

`WorkingCopy`, `VaultFile`, `FuseMount`, `FolderMount`, `Unlocking`, `Workspace` and `Body` have
safety properties only, and no step of theirs is
assumed to happen. `AgentBroker`'s `FairSpec` has weak fairness of `Progress(c)` for
each connection: its thread is scheduled, the operator answers a prompt in the end,
and a destination ends. The first is the operating system's, the other two are what
the code relies on itself: `read_line` and `Command::status` have no timeout. Nothing
is assumed of commands, of new requests, or of what stops. Under it
`EveryRequestAnswered` says that no thread waits for stdin for ever. `SealedFile` has weak
fairness of each job's next step, including the poll that takes its result: a thread is
scheduled, and the window and the terminal poll while a job runs. `GuiSession` has it for the
frame (the window asks to be drawn each second while a vault is open), for the end of a job
(which `SealedFile` shows) and for timers that sleep a fixed time; not for the user.

## 4. Proofs

All the theorems are for every set of sessions, processes, contents, updates and
handles, names and paths, volumes, codes and keys, every budget and every `MaxFaults`; they assume
what the modules' ASSUMEs say (the markers are no contents, the bounds are numbers), which TLC
evaluates for each run's values.

`WorkingCopy_proofs`. None of the properties is inductive. `IInv` is `TypeOK`,
`SourceWhole` and, per session, `SessionInv`: what is known at each position of the
process. Its heart is `EditKept` with three facts that support it: shredding only
starts when the brick holds every edit (`SealedBrick`), no step past the guards of
a check-in sees a folder (`NoTreeInCheckin`), and a temporary is the whole brick
(`StagedBrick`). `TornHasTree`, a torn brick always has a folder beside it, is what
keeps it out of the sync folder. `Fingerprinted` says that the re-hash that
matched is still true, or the session is in `raced`. `OthersUndisturbed` shows that
a step of one session leaves the others' part of the invariant alone, so the
induction is per session: `CheckoutKeeps`, `MountKeeps`, `CheckinKeeps`,
`EndKeeps`.

`Vault_proofs`, the file. `Recorded` (the anchor is at least `noted`, which is at least
every `floor`, and whoever is past the guard has looked at the anchor) gives
`NoRegressionIsSilent` without any assumption on who overlaps. `Turns` describes
the state while no two processes have overlapped: at most one process is at work,
the descriptors and the temporary are its own, the file is whole and holds every
acknowledged update, and the anchor is at most `top`. It gives the other four, and the
refinement `ImplementsStoreHolds`: the code renames its temporary over whatever the file has
become, and `Turns` says why that is a compare-and-swap none the less: what is about to be
installed has everything the file has, and a later version. `OpenIsStoreStep` and
`WriteIsStoreStep` map each action to the step of `VaultStore` that it is, or to none.

`AgentBroker_proofs`. `Known` makes the types inductive: whoever is at work knows its
operation, and there are as many prompts on the screen as threads that wait, so
`Answer` always finds one. `Turns` describes the store while no two processes have
overlapped: the holder's snapshot is the store until it is about to save, then its
operation applied to the store, and that is what its temporary holds; hence the rename
makes of the file what `ledger` becomes. `Prompted` says of one prompt at a time that
it is the waiting thread's own.

`GuiSession_proofs`. `SavedWhenSaidSo` is inductive as it stands: a step writes what it puts
into memory, or remembers that it failed, or closes the vault, or touches neither file nor
memory. The proof is by these four kinds (`SavedIsHeld`, `FailureIsKnown`, `NothingToLose`,
`NothingWritten`); it needs no bound, no uniqueness of titles and no type.
`ShowsWhatIs` needs more (`IInv`). The rows and the selection are indexes, so the vault that
they point into must be sound: ids that differ, hence no more entries than ids (`SizeIs`). The
form finds its entry by title and selects it by title once it is saved, so `Faithful` adds that the
title it was opened with still leads to the entry it was opened for (`Selected`); without that an
edit could select an entry nobody chose. Entries that are added behind leave the first of a title
where it was (`FirstStays`); an edit leaves the ids where they are (`EditThere`). Each action
writes nothing (`UiStep`), saves and drops the cache (`SavedStep`), fails to save (`FailedStep`),
opens or locks. `Those`, what a list keeps at some places, is a recursive function: that it exists and
takes each place at most once is proved by the least counterexample (`ThoseExist`, `ThoseAre`).

`Unlocking_proofs`. The four properties come from one invariant of a file in memory, since a
command edits the stanzas and then saves them, which may edit them again. `Shape`: every stanza
yields the current key, there is one of each type besides one or two password stanzas, one
second factor at most, and the first password stanza opens under the current parameters.
`Keeps`: for each way in that was told and has not lapsed, the stanza that is behind it.
`Required`: with a second factor the first password stanza is not under the master password,
unless that lapsed. Each edit has a lemma that it keeps the three (`TwoFactorSound`,
`DeviceSound`, `WithoutSound`, `UpgradedSound`, `RewrappedSound`, `SavedSound`); a rotation wraps
under secrets that it compares with nothing, so its lemma says which ways then lapse
(`RotatedSaved`).

`SealedFile_proofs`. `Shape` says what a job knows of itself (`Knows`), that a job which has
been alone so far is alone now (`Solo`), and that the folder is as an extraction found it until
it has seen the archive's end (`Untouched`); with `AsSealed`, that whatever is in the staging folder
or has been moved is a whole entry, that gives `FailsClean`. `Agrees` ties what a job has
done so far to the disk: an entry is still to be staged, or staged, or to be moved, or in its
place (`Delivers`); the blocks read so far are the beginning of a file that nobody wrote to, whose
size is the one that was taken (`Reads`); the entries of an older sealed file are among those to
be written (`Adds`). `ToAgrees` shows that a job's step disturbs no other job's part. The
constants are assumed to be what they stand for (`Order` a sequence of paths, `Content`
sequences with a longest one: files are finite).

`Workspace_proofs`. `Shape` has the types and what the window, the threads and a command know
of each other: a mount that is awaited without its slot was begun before an eject, and then
nothing is open. With `HeldIsShown` it is inductive and gives `CoherentHolds`; `FoldersCovered` (every
folder is held by the window, by the slot or by a thread that exports to it, or is `loose`) gives `QuitSealsHolds`. The other three
theorems have the hypothesis `Apart`, that no two volumes share a directory: two that do share
the one folder `mnt/` and the code does get their contents mixed up, so without it the statements
are false. `Apart` is what the run's two volumes in two directories are. `Sound` then says of the
disk that bricks and folders hold their own edits, that a brick nobody harmed has all that its
anchor has and no more than its folder, if that is whole (`Intact`), and of every volume in memory that it is not
ahead of its file (`Behind`) and was not opened from one older than the anchor (`Fresh`);
`WriteKeeps`, `TearKeeps` and `SealedFromKeeps` are the lemmas that all writers share: of a write
that comes to its end, of one that is cut short, and of one from a folder, which harms the brick if that folder
is half of one. `HalfShreddingKeeps`, `GainingKeeps` and `ExportedKeeps` are those of the folder alone.

`Mounts_proofs`. First lemmas on paths, for any names and depth: prefixes are an order,
linear below one path; `Moved` undoes itself (`MovedBack`) and keeps what is above what
(`AncestorOfMoved`). Then on trees. `Treelike` speaks of one step up, which a rename of a whole
directory does not keep by itself; `Grown` speaks of the whole way up, and does. In such a tree
`ensure_parents` has nothing to make (`Plain`), and `Rename` to where nothing is is the plain move of a
subtree (`TakenIs`), which keeps `Grown` and that a file has one name (`Single`). The table's part is
`Linked`: its two maps are inverse to each other, what has a number's path is what the number was
given out for, and whatever the kernel knows has a path. `IInv` is the types, `Named` (only numbers
already given out are in the table), and, until a rename replaces something, `Grown`, `Single` and
`Linked`. Each call has a lemma that it keeps these and is a step of `PosixTree` or none of it, from which
`ConsistentHolds` and `ImplementsPosixHolds` follow. After a replacing rename only the types are kept:
the code then leaves two numbers for one path, which is why the promise ends there.

The other half is `ClosesFaithfullyHolds`, with the same lemmas on paths and trees. `FolderInv` adds to the
property that a folder that is there is what the programs want, but for `spoilt` and `missed` (`Agreed`);
that `missed` has with a path all below it (`Deep`), as what could not be listed could not be gone into;
and that what an import has read is in the volume as in the folder, on a way of directories it
has read too (`Reading`). The step that matters is the sweep (`SweepKeeps`). A path that is in the
folder has been read with the whole way to it: else take the topmost of the way that was not
(`Topmost`); its parent was gone into, so the listing had it. And a path that is not in the folder, yet
still in the volume, is below an entry that import went to remove and that stopped at
a directory with something hidden below; what is hidden stays hidden, so the excuse `Sticky` still
applies to what is sealed. The number of nodes at the beginning is assumed to be within the
bound on edits, which counts both. The module's two halves stand side by side, so each is proved in
a context that has the other's constants; neither uses the other's assumptions.

`Vault_proofs`, the body. What `FlattenSeq` makes of sequences is a recursion over data, which
cannot be proved by an induction theorem here; the recursion is a function on `0 .. n`, though, and what
holds at 0 and from each number to the next holds throughout (`StepByStep`, from the least number of
a set). From that follow where each record lies in the text that is written (`PayloadIs`,
`FileTextsAre`), that an entry parsed is the entry written (`MeaningOfSealed`: a cipher applied twice
gives back the text, since reader and writer count the same keystream positions), and that the chunks joined are
the text (`ChunkedIs`). `BodyInv` then says of the reader where it stands: `Stands` (so many bytes
are consumed, and the pending ones are those of the text up to the end of the last chunk it was given),
`InVault` and `InSealed` (it is behind so many records, with the keystream's position that belongs to
them, or so many parts of a file), `Past` (behind the last one there are zeros); and of whoever has the
file open that each field means what the user put there (`Shown`). A complete record at such
a place is the next one that was written (`VaultNext`, `SealedNext`), whatever the chunks cut. `KeystreamServesOnce`
is about the text alone: in it positions under one key only grow (`Serves`, `PayloadServes`).

`WhatIsWrittenOpens` needs `OpensInv` besides. A sealed file that is extracted is waited for
at the end of a chunk, so its invariant must look ahead: no header is cut by the chunks the reader was
given (`Uncut`), nor by the one at whose end it waits. It keeps this since at the end of a
chunk it has either read all records so far, or lies within one record; records follow
one another and none overlaps another (`Apart`, from `WithinFile` and `TwoRecords`), so a header that is
cut there would be the one the reader is at, with one byte pending, and that it refuses
(`RefuseOpens`, `WaitOpens`). `SplitIs` says that some header is cut if and only if `HeaderSplit`. For a vault
the invariant says which entries it has read and that these were not too long. That a file is never
found short at its end (`NoPieceAtEnd`) follows from where the reader stands, and so does that the
marks on the chunks are right (`HeadIs`) and that only zeros follow the last record.

Only model-checked. Liveness (`EveryRequestAnswered`, `JobsEnd`, `LocksWhenLeft`,
`ClipboardCleared`) is out of the prover's reach; every other property of a passing run is a theorem,
under the hypotheses named above where there are any.

## 5. Not modelled, and why

Cryptography, byte layouts and device calls: no control worth a model, or out of
its reach. Power loss that undoes an unsynced rename (`write_vault` ignores the
error of `sync_all` and does not sync the directory) is only there as `Rollback`.
macOS' coordinated replace is `Replace`. The command line's `checkout MOUNTPOINT`
never returns from its mount, so its session stays `mounted`; this is noted but not
in the model. Two processes on the same session (the window and `volume checkin`)
are not excluded by the code and not in the model. Bytes, sizes and attributes of files are not
modelled in the mounts, nor is a failing `sync` in `FolderMount`, where sealing is one step
(`WorkingCopy` has it in parts). Of the broker, the MCP front, the audit log and a second broker that
takes over the socket are left out. The terminal UI's browser only reads. Search, frecency, TOTP,
the generator, the audit and the import's parsers are functions of their input, under property
tests; what they return appears where it is used.

Hazards that are real and that no model here reaches, beyond the list of the project file: a
check-in's temporary that was abandoned stays in the sync folder (`working_copy.rs:393`); a handle
may expire while its prompt waits (`unix.rs:48`); the MCP server loads the handle store once
(`mcp.rs:234`); an audit line and its newline are two writes (`store.rs:88`); a size set by a
program is allocated at once (`session.rs:213`); a poisoned mutex skips the last sync
(`session.rs:537`); a path's length is written in 16 bits (`fs.rs:73`); a vault written by a later
version with protected fields of an unknown tag would be read with a wrong keystream offset
(`entry.rs:224`).

## 6. Plan

1. (done) `WorkingCopy`, `VaultFile` and `AgentBroker` with their proofs; `VolumeTree`,
   `FuseMount`, `FolderMount`; `Unlocking`, `SealedFile`, `GuiSession`, `Workspace`, `Body`.
2. (done) The proofs for `Unlocking`, `SealedFile`, `GuiSession` and `Workspace`; that the mount implements
   `PosixTree`; that closing a folder is faithful.
3. (done) `VaultFile` implements `VaultStore`, a versioned register with compare-and-swap,
   while processes take turns; what `Body` reads is what was written, no keystream serves twice,
   and what was written opens but for the two cases above.
4. `WorkingCopy` implements an abstract "optimistic replace" (a register with
   compare-and-swap, up to the window), as a refinement.
5. The command line's mount chain on a working copy, and two processes on one session.
