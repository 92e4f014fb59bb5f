# ObsidiSync in TLA+

A formal model of ObsidiSync: a Rust server that keeps Obsidian vaults in git
repositories, and the Obsidian plugin that synchronises devices with it. The
modules model the parts where devices, tablets, retries and crashes meet; TLC
checks them on small instances and TLAPS proves the main results for every value
of the constants. Source paths are relative to the repository.

Contents: [inventory](#inventory), [modules](#modules-and-the-code),
[runs](#runs-and-bounds), [findings](#what-the-runs-found), [fairness](#fairness),
[proofs](#proofs), [not modelled](#not-modelled), [plan](#plan).

## Inventory

| Component | State | Operations | Hard behaviour | What makes it correct |
|---|---|---|---|---|
| Vault service (`rust-server/src/vault.rs`) | git branch, working tree, `binary-manifest.json`, `pending-conflicts.json`, `devices.json` | `sync`, `resolve`, `register`, history | stale bases, conflicts that are written and cleaned up, errors half way | nobody's unseen edit is overwritten; a conflict stays frozen until resolved; the tree is clean between operations |
| Merge of a file (`apply_text_upsert`, `apply_text_delete`, `merge_text_file`) | none | three-way merge, binary comparison | missing sides, missing acknowledgements, NUL bytes | both sides of a merge survive |
| WebDAV (`vault/dav.rs`, `webdav.rs`) | the same vault: text and directories in the working tree, other files in the binary manifest | PUT, DELETE, MOVE, COPY, MKCOL | writes beside a pending conflict; directories, overlapping paths, a request that stops half way | last write wins, the branch stays linear; nothing outside the granted folder changes; what is moved arrives |
| Plugin sync (`src/gitService.ts`, `vaultState.ts`, `manifest.ts`) | files, `localManifest`, `serverHead`, `running`, `syncQueued` | sync, resolve, reset, first sync, force push, overwrite | edits while waiting, lost answers, failed downloads, killed app | what counts as synced is on the server; devices converge |
| InkVault (`vault/inkvault.rs`) | ledger, `inkvault-publication.json`, `inkvault-render.json`, uploads | publish, delete, resolve, recover | a crash between any two writes, replays, PDF collisions | a note's source and PDF change together, never lost or half published |
| Upload staging (`vault.rs`) | `<id>.json`, `<id>.bin` | init, append, complete, read | crash between append and state | a completed upload is the file |
| Remote (`vault.rs`, `remote.rs`) | `origin/<branch>` | fetch, rebase, push | push races, unpushed commits | nothing committed is lost |
| Sessions and logins (`app_session.rs`, `auth.rs`, `oidc_login.rs`) | `sessions.json`, `password.json`, pending login states | begin, callback, first-time setup, log in, refresh, verify | two setups or two uses of a token at once, a provider asked in the middle, expiry, restarts | a token or state leads to one session; no session is lost to another's write; the first password stays |
| Throttle (`auth_throttle.rs`) | failures and locks per address and name, in memory | look, count, clear | requests that were let through before the lock | a lock holds for its time |
| Device passwords (`device_passwords.rs`) | `device-passwords.json` | create, revoke, authenticate | read, change, write of a file by racing requests | a revoked one never returns; the limit holds |
| Nextcloud login flow (`nextcloud.rs`) | flows, in memory | start, submit, poll | double submit, two polls, expiry, a restart between storing and completing | credentials are handed out once, and work |
| Saber renderer (`saber/sync.rs`, with the pure modules beside it) | the queue of paths per device, tasks | schedule, render | one delay per upload, the batch goes to whoever wakes first, several tasks at once | no scheduled path is forgotten: the PDF shows the note |
| Push to Saber (`saber/push.rs`) | `saber-push.json`, queue, scanned vaults | schedule, run | the record is read and written under a lock, but the vault counts as scanned before it is; a failure after a push | a PDF is pushed once per listing, and at least once |
| History, activity, version metadata | git, a metadata file | reads | none | |
| Conflict parser and resolver dialog (`conflictParser.ts`, `conflictResolverModal.ts`) | the user's choices | parse, assemble | nested and broken markers | what is kept is what was chosen |

How they interact: every write of a vault (plugin sync and resolve, WebDAV,
renderer, push, InkVault) runs under the vault's lock (`with_lock`), which first
finishes an interrupted InkVault publication. Devices meet only through the
vault: each holds the head of its last sync (`serverHead`) and the manifest of
what it believes is synced, and sends the difference. The server answers with the
git diff from that head. Nothing is transactional: an operation that fails leaves
the repository as it is, and the next `sync` commits what it finds.

The tablet's side adds two kinds of spawned tasks. A WebDAV request of a Saber
device schedules renderings of the notes it changed; a sync of the plugin that succeeds
schedules the push of the PDFs that its markdown notes list, into the folder that the
renderer reads. Every other commit that changes a markdown note (a resolution, a WebDAV
request, a sync that fails later) schedules no push. Access is the last meeting point: a session of the plugin confirms a
login flow, the flow makes a device password, the app polls for it and makes
WebDAV requests with it, which the throttle counts.

Every hazard, with its line, is in `PROJECT.json` under `hazards`, those that
nothing covers yet included.

## Modules and the code

| Module | Models |
|---|---|
| `VaultText` | one file: `TextUpsert`, `TextDelete`, `MergeTextFile`, `BinaryChange` |
| `VaultServer` | the server's handlers, complete and stopped half way; extends `VaultText` |
| `VaultServerProofs` | theorems about the two |
| `VaultSync` | the plugin's devices, step by step, using the handlers of `VaultServer`, which it extends |
| `FirstSync` | reset registration, force push and overwrite from the server; extends `VaultSync` |
| `VaultSyncProofs` | theorems about `VaultSync` and `FirstSync` |
| `InkPairs` | the abstract specification: a branch of whole ledgers that grows by one publication at a time |
| `InkPublication` | the publication protocol with crashes; implements `InkPairs` |
| `InkPublicationProofs` | theorems about it, the refinement included |
| `DavTree` | the granted folder's files and directories under WebDAV requests |
| `DavTreeProofs` | theorems about it |
| `AppSessions` | browser and password login, `sessions.json` and its refresh tokens |
| `AppSessionsProofs` | theorems about it |
| `DeviceAccess` | login flow, device passwords, throttle, composed with `AppSessions`, which it extends |
| `DeviceAccessProofs` | theorems about the composition |
| `SaberRenderer` | the folder of a Saber device and the tasks that render its notes |
| `SaberRendererProofs` | theorems about it |
| `TabletPush` | the tasks that push PDFs, composed with `SaberRenderer`, which it extends |
| `TabletPushProofs` | theorems about the composition |
| `MCVaultServer`, `MCVaultSync`, `MCFirstSync`, `MCInkPublication`, `MCAccess`, `MCTabletPush`, `MCDavTree` | instances for TLC |

**VaultText / VaultServer.** A text is a function from regions to values: regions
are the parts git merges independently. All texts with conflict markers are one
value, `Markers`. A binary file is an opaque manifest entry. A commit is its
position in `commits`: the branch is linear because every operation commits on
the head under the lock. `commits`, `work`, `pending` and `acks` are the branch,
the working tree with the binary manifest, `pending-conflicts.json` and the
`paths` of `devices.json`. `HandleSync` is the whole of `sync_with_sources` (the
commit of what was found, the merge of every change, the conflict answer with its
clean-up, the commit, the pending answer, the diff, the acknowledgements);
`SyncStops...`, `ResolveStops` and `DavStops` are the places where `?` or a crash
leaves it. `HandleResolve` overwrites and clears the pending paths. `HandleDav`
is any WebDAV write: what it leaves at the paths it touches.

**VaultSync.** A device has its files (`disk`), `localManifest` (`synced`),
`serverHead` (`base`), the conflicts it last reported and the operation that
holds `running` (`op`). `StartSync` computes the differences and sends them;
`ServerSyncs` is the handler; `ApplyFile` puts one file of the answer on the disk
and, except after a conflict, in the manifest; `FinishSync` records head and
manifest. Resolving is the same in `StartResolve`, `ServerResolves`,
`FinishResolve`. Between any two of these another device, a tablet or a user may
act, a request or an answer is lost (`AnswerLost`), a download fails
(`DownloadFails`), the app is killed (`AppKilled`, with the manifest last saved)
or the server stops half way (`ServerStops`). The n-th edit writes the value n,
so a value names an edit; `seen` is a history variable: the values a device's
user was ever shown at a path. A marker file shows its user what the server has, and
is never taken for the one of an earlier conflict. A resolution counts as an edit
when it writes a text of the user's own. `skipped` is another history variable: the
paths a device's last resolution was not told of. The answer to a resolution lists no
deletions, yet `FinishResolve` moves the head (`src/gitService.ts:532`), so what
changed at those paths stays unknown (`LeftOut`) until a sync sends or receives the path.

**FirstSync.** `VaultSync` with `initialSyncDone` (`setUp`) and the dialog. Devices
begin set up; `ResetRegistration` makes one like a new device with files in its folder.
The dialog stays open while other things happen, a sync from the file history view
included, so a choice may come late. `Choose` begins an exclusive operation like a sync
(`op`): `ServerProbed` answers the probe, a sync without changes from an empty
manifest; a push goes on with `StartPush`, `ServerPushes` (the handler of any sync)
and `FinishPush`, an overwrite with `DeleteMissing`, the file by file `ApplyFile` of
`VaultSync` and `FinishOverwrite`. The ordinary syncs, edits and resolutions of all
devices go on around it; the other device stands for the tablet, too. `partial` is a history variable: devices whose first sync
raced with another, or whose probe was no list of the whole vault.

**InkPublication.** A vault's ledger maps notes to source packages and PDF paths
to PDFs. A package is one value: revision, content, PDF path and annotated PDF;
the PDF rendered from it is told apart by it. A request carries the package that
results from it; that a package may be invalid for any other reason is the choice
of `Refuse`. The steps follow the code: `Begin` takes the lock, recovery is
`MoveRef`, `WriteLedger`, `SetReady`, `RemoveJournal` (these four also end every
publication), then `ReadRequest` (which uses the uploads up), the decision
(`Refuse`, `AnswerAtOnce`, `Accept`), `Rendered` or `RenderFails`, `WriteJournal`,
`Acknowledge`. `Crash` may come between any two and leaves only what is on the
disk. `OrdinaryWrites` stands for every other writer behind
`guard_inkvault_paths`, a crash before its commit included.

**DavTree.** A path is the sequence of its segments and names a file or a
directory for good. `at` is every file's content, `dirs` the directories of the
working tree: a directory that holds only manifest entries exists without being
there, which is why `IsDir` asks for either. A request holds the vault's lock to its
end, so it is one step; `MoveOrCopy` is `dav_move_or_copy` with the clearing
of the destination *before* the files of the source are read, as the code has it. In
`DeleteStops` and `MoveStops` the working tree keeps what was done (files first, then
their directories, from below: `Removals`) and the manifest, saved at the end, is as it was. `last` is a history variable: the request and what
was at its source.

**AppSessions.** The n-th session is the number n, so is its refresh token; the same
for login states. A request is a record `call[c]` that goes through the stages at
which it waits: `exchange` and `authorize` (the identity provider), `setup` and
`issue` (between two writes), `issuing` (between reading and writing
`sessions.json`). `passwordLock` and `sessionLock` are the mutexes of the stores,
`copy` is what the holder read. `RefreshTake` is the refresh up to the provider's
answer, with the removal of the token that comes first; `RefreshIssue` and
`CallFails` are the two ends. `Pruned` is the pruning before each write. A restart
(`SessionCrash`) keeps the files and forgets requests, locks and login states.
`record` is what the file stores about a session, `issued` counts.

**DeviceAccess.** `flows`, `credential` and `throttle` are in memory, `devices` is
the file. A visit goes through the stages of the form's submission (`Submit` or
`Create`, `InsertRead`, `InsertWrite`, `Complete`), of a revocation (`RevokeRead`,
`RevokeWrite`) or of a WebDAV request: `AuthCheck` looks at the throttle, `AuthFails`
and `AuthFinds` look at the store, `AuthStamps` writes the last use,
`RecordFailure` and `RecordSuccess` count. Other requests come between any two,
and the clock ticks. `Failed` is one key of `record_failure`, with windows, locks and
the tidying of the map (`Tracked`). `handedOut` and `revoked` are history variables.

**SaberRenderer.** The contents of a note and of its asset are the number of the
request that wrote them; a PDF is the pair it was rendered from. Each request
spawns the task of its number: `Enqueue` adds the paths, `TakeBatch` (after the
delay) takes *all* that are queued, `LoadCipher` needs `config.sbc`, then the
notes one by one, each with separate vault operations (`ReadNote`, `ReadAsset`,
`WritePdf` or `ErasePdf`) between which the device goes on. `stale` is a history
variable: notes whose scheduled path the code gave up (a failure, a restart, a
missing `config.sbc`) or that two tasks render at once; it ends when the note is
touched while nobody renders it.

**TabletPush.** A markdown note lists a set of PDFs, or is untagged, or gone.
`Commit` is any change of the vault. `Sync` is that of a sync which succeeds, and
spawns the task of its number; `CommitUnscheduled` is that of a resolution, a WebDAV
request or a sync that fails after its commit, and spawns none. The task: `QueueDocs`, `TakeDocs` (all that wait),
`ListPaths`, `MarkScanned` (after a start the whole vault is scanned, and counts as
scanned from here on), `Lock` (reads `saber-push.json`), a scan per note
(`ScanTagged`, `ScanUntagged` with the forgetting of PDFs nobody lists any more), a
push per PDF (`PushAsset`, `PushNote`, or `SkipPushed`, `NotPushed`), `Save`.
`PushFails` goes on with the next PDF; `RunFails` and `RunAborts` drop the run and the
holder's copy. History variables: `missed` (notes that were changed by a commit without a
task, or of which something was not there or failed; a complete scan of the note ends
it), `pushes`, `unlisted`, `orphaned` and `unrecorded` (events that excuse
another push).

## Runs and bounds

| Run | Asks | Bounds |
|---|---|---|
| `vault_server` | the server against any sequence of requests: `TypeOK`, `WorkIsHead`, `NoMarkersCommitted`, `AckedPathsExisted`, `PendingFrozen` | 2 devices, 1 note, 1 binary file, 3 values, 3 commits before the last operation, 1 fault |
| `sync_two_notes` | `SyncTypeOK`, `SyncDropsOnlySeen`, `PendingCopyKept`, `ResolveNeverDropsUnseen` | 2 devices, 2 notes of 2 regions, 3 edits, also during a sync; no faults; devices, notes and regions are interchangeable |
| `sync_faulty` | `SyncedWasCommitted`, `SyncDropsOnlyBase` | 2 devices, 1 note, 2 edits, 1 each of: lost message, interrupt, reset, stopped handler |
| `first_sync` | `SetUpMatchesBase`, `PushSparesLater` | as `sync_faulty`, with the reset of the sync state or of the registration, and no stopped handler |
| `sync_converge` | `ManifestMatchesBase`, `DevicesConverge` (liveness) | 2 devices, 2 notes, 2 edits or tablet writes, 1 lost message; half of the texts contain NUL bytes |
| `ink_publication` | `InkTypeOK`, `JournalFitsBranch`, `AnsweredIsDurable`, `PublishesAtomically` (the refinement of `InkPairs`), `PublishesOverBase`, `OtherPdfsKept`, `JournalRollsForward` (liveness) | 2 notes that may annotate a scan or the other's PDF, 2 PDF paths, 1 scan, revisions 1 and 2, 3 commits, 1 crash |
| `access` | `AccessTypeOK`, `TokensSingleUse`, `RevokedStaysOut`, `DeviceLimit`, `HandedOutWorks`, `SessionsNotLost`, `FirstPasswordStays`, `HandedOutOnce`, `LockHolds` | 2 calls and 2 visits at a time (interchangeable), both login modes, 1 user, 1 address, 2 passwords to choose; 3 sessions or 2 device passwords, 3 together; at most 2 sessions and 1 device password kept; 1 flow, 1 login state; lifetimes, window and lock of one tick, 1 tick, 1 restart |
| `tablet` | `PushTypeOK`, `PdfIsCurrent`, `PushedOncePerListing`, `ListedIsPushed`, `TabletSettles` (liveness) | 2 PDFs or Saber notes, 2 markdown notes that list the first or nothing or do not exist; 2 requests of the device, 3 commits (syncs or others) of one markdown note each, 1 fault, 3 of all these together |
| `dav_move_up` | `MovedIsThere`, violated | a granted folder with a directory in a directory, a text and a binary file in each, a file beside the folder; 2 requests |
| `sync_edit_while_syncing`, `sync_delete_after_interrupt`, `first_overwrite` | one documented statement each, which is violated | as small as shows it |

Why these are enough. A merge relates three contents, so three values and two
regions reach every row of the decision in `apply_text_upsert`, merges and
clashes alike. A hazard of a sync needs one device that is behind and one that is
ahead: theirs and mine over the common start, and a third edit where the base is
itself recent. `sync_converge` has two edits, because every state of its graph is visited
for liveness. Two notes are needed
where one conflict meets another change, and in `sync_converge` for a resolution that
is not told of another note's deletion. Publication compares an old and a new
revision of a note and a second note that wants its path; two revisions, notes
and paths give every combination, and three commits let a device's base be two
behind. `Uploading = {TRUE}`: every request names uploads; a request that carries
its files passes the same steps with fewer refusals. `MaxCommits` only stops new
operations from starting; in the `VaultSync` runs it is never reached before the
edits run out. `CHECK_DEADLOCK FALSE` is set where the system stops at a bound (`vault_server`,
`access`) or comes to rest (`tablet`, `dav_move_up`).

A race for a store needs two requests that hold a copy, so `access` has two of each
kind, and the limits are reached by the second (one device password, two sessions,
one tracked key). One tick makes everything expire that was there before it. A
third session prunes the first. In `tablet` two markdown notes of one list are what
"another note lists it, too" needs; the third event is the second sync, the
restart or the failure that follows. With three commits a sync, a commit that schedules
nothing and another sync come in every order. `Mixed = FALSE` in both runs: the requests of the
two halves of a composition do not overlap in time (a login with a visit, a rendering
with a push), though each finds the state the other left. The
proofs hold for `Mixed = TRUE`, too.

The runs of `FirstSync` have a `VIEW` without `seen`: no guard reads it and none of their
properties names it. One note is enough there, because a probe, a push and an
overwrite treat each path alone, and the answer that lists nothing is the same for all.

Some properties are stated for less than everything, on purpose.
`WorkIsHead` and `NoMarkersCommitted` speak of operations that run to their end (after
a crash the next sync does commit what was left, markers included).
`SyncDropsOnlySeen` and `ResolveNeverDropsUnseen` hold while nothing was lost,
interrupted or stopped (`Undisturbed`): an answer that is lost leaves a pending path its
user was never shown, and an interrupted download leaves newer files over an older base.
They speak of texts, because a binary conflict sends no file, and the first leaves out
`BlindDeletions`: a request that deletes a file its base commit does not have gives the
server nothing to compare with. `SyncDropsOnlyBase` is what holds after any failure,
in terms of the base commit rather than of what was shown; `SyncNeverDropsUnseen` is the
whole promise, which `sync_delete_after_interrupt` refutes. `ManifestMatchesBase` and
`DevicesConverge` leave out, per device, the paths its last resolution was not told of
(`skipped`); without that neither holds. `ListedIsPushed` and `TabletSettles` leave out
the notes in `missed`: a list that a resolution or a WebDAV request made is
pushed only when a later sync changes the note again, or after a restart.
`OtherPdfsKept` lets an update leave out the annotated PDF, as the code does.

## What the runs found

- **An edit during a sync is counted as synced** (`sync_edit_while_syncing`).
  `performSync` records the manifest of the disk at the end
  (`src/gitService.ts:341`). An edit made between the upload and that line is in
  it, so it is not uploaded until the file changes again. The comment at 524-525
  describes exactly this mistake for `resolveConflicts`, which avoids it.
- **A deletion can overwrite a newer edit** (`sync_delete_after_interrupt`).
  `apply_text_delete` (`vault.rs:2064`) deletes when the device's base does not
  have the path; the comment at 2057-2059 argues that a device only deletes what
  its base holds. A sync that was interrupted between two files breaks that, and without
  any failure so does a file created during a sync: it counts as synced
  (`src/gitService.ts:341`) although the new base does not have it.
- **"Overwrite local" can delete everything and bring nothing** (`first_overwrite`).
  `probeServerState` (`src/gitService.ts:448-459`) looks at the head and the files of
  the answer, not at its status. For a device with a pending conflict the server
  answers "conflict" without files (`vault.rs:397-407`), so `overwriteLocalFromServer`
  deletes every local file, applies nothing, and records the head with an empty
  manifest: no later sync brings the files back. A device gets there when its user
  resets the registration to get out of a conflict, or when a force push met one
  ("Try again") and the user overwrites instead. Only the backup, if it was not
  declined, has the files. The same happens, in part, when the dialog is used after a
  sync from the file history has set the head: the probe is then only a diff.
- **Moving a directory onto one above it loses it** (`dav_move_up`). With
  `Overwrite: T`, MOVE or COPY of `t/a/b` to `t/a` first clears `t/a`
  (`vault/dav.rs:374-389`), the source included, then brings the files that are
  left of the source: none. The request succeeds. Only the opposite nesting, a destination below
  the source, is refused. `MovedUnlessUp` is the statement without this case; it is
  proved.

Also, without a run:

- A force push does not look at the files of its answer and records the head of the
  answer with its own files as the manifest. What another device committed between
  probe and push is then counted as known and the next edit of the file overwrites it,
  although `README.md:393` says the server "matches this device". `PushSparesLater`
  is what does hold: the push itself destroys nothing newer than its probe. After a
  push that met a conflict the path is pending, so every "Try again" meets it again.
- A device that resolves a conflict can miss another device's deletion for good. The
  answer to a resolution has no deletions (`resolve_with_sources`), but `resolveConflicts`
  records its head (`src/gitService.ts:532`), so no later diff contains them: the file
  stays on this device and nowhere else, and its next edit there brings it
  back. `SameVaultInTheEnd` in `VaultSync` states the promise of one vault on all
  devices; it does not hold, already within the bounds of `sync_converge`. What holds
  is `DevicesConverge`, path by path but for `skipped`.
- `README.md:376` says that each linked PDF is pushed on the next sync. A list that comes
  with a resolution (`http.rs:973-986`), with a WebDAV request, or with a sync that fails
  after its commit (`http.rs:851`) is scheduled by nobody, and the next sync scans
  only what it changed itself. `ListedOnNextSync` in `TabletPush` states the promise; it
  does not hold, already within the bounds of `tablet`.
- `docs/INKVAULT_NOTES_V1.md:49-51` says that the base of an annotated PDF stays fixed.
  `sync_inkvault_locked` compares it only if the new manifest names one
  (`vault/inkvault.rs:414`); an update without `basePdfHash` is published, and the PDF
  is rendered anew without the original below the ink. `BaseStaysFixed` in
  `InkPublication` states the promise; it does not hold.
- `README.md:457` says a path is pending for its device until *it* resolves it;
  `resolve_with_sources` (`vault.rs:1026`) clears by path, whoever resolves. The second
  device is offered the path because its own upload was refused there.
  `PendingUntilItsDeviceResolves` in `VaultSync` states the promise; it does not hold.
- `docs/INKVAULT_NOTES_V1.md:67-68` keeps completed uploads for a retry after a failed
  render; `read_upload_content` (`vault.rs:1971`) removes them as it reads.
  `FailedRenderKeepsUpload` in `InkPublication` states the promise; it does not hold.
- `docs/INKVAULT_NOTES_V1.md:89` says renaming a managed PDF is rejected; the code and
  its tests move it.
- `README.md:378` promises one push per device until the tag is removed. The notes of a
  sync are scanned in the order of their names. When a link moves from one note to a
  later one in one sync, the earlier note's scan forgets the PDF before the later one
  lists it, and it is pushed again. `PushedOncePerTag` in `TabletPush` states the
  promise; it needs two notes changed in one sync (`MaxChanged = 2`), which the
  run `tablet` leaves out. `PushedOncePerListing` is the weaker promise that holds.
- A PDF that reaches the vault after the note that lists it is pushed only when the note
  changes or the server restarts: a sync schedules markdown files only (`missed`). This,
  too, breaks `ListedOnNextSync`.
- `saber/sync.rs:28` and `README.md:370` speak of a delay after the last upload; the code
  renders when the delay of the *first* upload is over, and of each later one.
- MOVE of a directory without files makes it vanish; the destination is not
  created. PUT does not look at what is above its path, so a binary file and files
  below it can exist together.
- A store that cannot be read counts as a failed login (`AuthErrs`), so a full disk can
  lock a name.

## Fairness

`VaultSync`: weak fairness of `StartSync` (the plugin synchronises on a timer) and of
the plugin's own steps; and no request stays sent for ever, which says of the server's
handlers what weak fairness would while the branch may still grow, and
which TLC evaluates faster. None for users: nothing makes
anybody edit or resolve, so `DevicesConverge` excuses a vault with a pending
conflict. `InkPublication`: weak fairness of `Call` (devices keep synchronising,
and every operation recovers first), and of the steps of the operation that holds
the lock. `TabletPush`: weak fairness of each renderer task and each push run: they are
spawned on the runtime, sleep on timers, and wait for a mutex that serves in order.
None for the device and the users, so `TabletSettles` speaks of what is left to
do when they rest. No fairness is assumed of crashes or faults, and both are bounded.
`DavTree`, `AppSessions` and `DeviceAccess` have safety properties only.

## Proofs

`VaultServerProofs` proves, for any devices, paths, texts and bounds:
`UpsertKeepsBothSides` (an accepted upload keeps every region either side
changed), `TypeCorrect`, `WorkStaysHead`, `MarkersStayOut`, `AcksAreOfCommits`,
`PendingStaysFrozen`. The inductive invariant is the conjunction of `TypeOK`,
`WorkIsHead`, `NoMarkersCommitted` and `AckedPathsExisted`: that no markers are
committed needs the clean tree (else the next sync commits them), and that an
acknowledged path was committed needs the types of the trees. There is one lemma
per handler; those about one file (`MergeTextFileClean`, `TextUpsertOutcome`,
`TextDeleteOutcome`) carry the case analysis. `PendingStaysFrozen` follows from
the types alone: the pending path is refused by `ChangeOutcome`, so the commit
does not touch it, and every other operation that touches it clears it.

`VaultSyncProofs` proves every safety property of `VaultSync` and `FirstSync` that a
passing run checks. Its types (`TypeInv`) describe the operation under way: what was sent,
what answer came back, which of its files are left (`Ops`), so that every tree an
operation refers to is on the branch; `SyncInv` adds that only the plain operations
occur without `FirstSync`. On these rest:

- `SyncsDropOnlyBase`, a case analysis of one change (`TextUpsertDrops`, `OutcomeDrops`):
  an accepted upload loses only regions that were the base's. It needs no invariant
  but the types, which is why it survives every failure.
- `SyncsDropOnlySeen` and `ResolvesDropOnlySeen`, with `SeenInv`: everything a
  device may name as its base, has on its disk, counts as synced or is being sent was
  shown to its user, and a path that is pending for a device still holds what
  the conflict showed. The second half needs the path to be frozen, and the answer of a
  conflict to be applied (`ToShow`): this is where a lost answer would break it.
- `WhatIsSyncedWasCommitted`, with `CommittedInv`: until an answer has been worked off, the
  disk holds what the request carried, and each file the answer leaves out either was
  committed before or was taken as it is. The second is `TextUpsertEcho`: an
  upload the merge answers with the device's own base is that base. The theorem assumes
  `EditWhileSyncing = FALSE`, without which the run `sync_edit_while_syncing` refutes it.
- `ManifestsMatchBase`, with `ManifestInv`: a request is exactly the difference between
  disk and manifest, and what a successful answer leaves out is on the disk as the new
  head has it (`LeftOutOnDisk`). It assumes users who wait and no
  interruption so far (`Uninterrupted`); lost messages, stopped handlers, resets of
  the local state and any number of notes are allowed. A path that a resolution
  was not told of stays out (`skipped`) until a sync names it.
- `PushesSpareLater`, with `FirstInv`: the files of a probe are those of the head it
  names, so a push has a base and deletes nothing that base lacks (`PushInv`).
- `SetUpsMatchBase`, with `MatchInv`: of a device that no other raced, what is known
  at each stage about the difference between its disk and the commit it will
  record. It assumes users who wait, too.

`InkPublicationProofs` proves all the safety properties of `InkPublication` and
that it implements `InkPairs`. The inductive invariant `IInv` has four parts:
the types; `BranchFits` (every ledger on the branch is whole; the working ledger
has the sources of the head unless a journal is being carried out, and its managed
PDFs are whole too; the journal fits the branch); `StepFits` (what each step may
rely on: no journal while deciding, the journal's ledger once the ref has moved);
`RequestFits` (what was checked of the request still holds until the journal is
written). The checks of the decision are needed *later*, when the journal is
written, and again after a crash, when the request is gone and only the journal is
left; this is why the invariant speaks of the journal rather than of the request.
The refinement follows: `MoveRef` is the only step that changes the branch during
a publication, ordinary commits change no source, everything else stutters.

`DavTreeProofs` proves that no request changes anything outside the granted folder
(`FolderIsTheLimit`), that MOVE and COPY bring every file unless the destination is
above the source (`MovesBringTheirFiles`), and that COPY takes nothing
(`CopiesKeepTheirSource`), for every set of paths. They rest on two facts about
paths: being within is transitive (`WithinTransitive`), and of two directories above
one path one is within the other (`AboveComparable`), so a destination that is neither
above nor below the source shares no file with it (`SourceIsDisjoint`). The only
invariant needed is the type of `at`. `OutsideKept` and `CopyKeepsSource` are
proved, not run.

`AppSessionsProofs` proves `SessionTypesCorrect`, `TokensAreSingleUse`,
`FirstPasswordIsKept` and `NoSessionLost` with the invariant `SessionInv`. `TokensSingleUse` alone is not
inductive: a token may be used up in the file, in the lock holder's copy, in a call
that waits for the provider, or in a session. `TokenInv` says that these exclude one
another: a state that is pending, or a token that is stored, is with no call and of no
session (`UnusedStates`, `UnusedTokens`); one that is with a call is with no other and
of no session (`UsedOnce`). `StoreLocked` says that a call that has read the store
holds the lock and a copy of what the file holds, `SetupLocked` that a call about to
write the password holds the other lock and that there is none. `NoSessionLost` needs
`StoreLocked`, for the write stores a copy, and `NewestKept`: of some numbers, one that is
not among the newest `MaxSessions` has that many newer ones *among those*. Otherwise the
largest that was dropped would have only kept ones above it, too few to be dropped.

`DeviceAccessProofs` first shows that every step of the composition is a step or a
stutter of `AppSessions` (`SessionsAreKept`), so its theorems carry over. `AccessInv`
adds: the holder of the file's lock has what the file holds, less what it
revokes, and looked at the limit (`LockFits`), which gives `DeviceLimit` and
`RevokedStaysOut`; identities are given out in order (`Numbered`); what a flow
holds or a poll handed out was stored for it (`FlowsFit`), which gives
`HandedOutWorks` and `HandedOutOnce`; no lock lasts longer than `LockTime`
(`LocksEnd`), which `LockHolds` needs where `until` is written anew.

`SaberRendererProofs` proves `PdfsAreCurrent`. Per note the invariant says: unless it is
stale, at most one task is rendering it (`Alone`), and it is awaited or the
task's copies, or the PDF if there is none, are current (`UpToDate`). The first half
is what makes the second survive: of two renderings of a note the older may write last.

`TabletPushProofs` carries that invariant through the pushes (each makes its note stale
until the device touches it) and proves `OncePerListing`. Its invariant is a ledger per
PDF: `pushes`, plus one if the record lets it be pushed again, is at most one more than
what excuses a push. It must hold of the lock holder's copy *and* of the file: a run
that is dropped loses its copy, and the file, in which its pushes are not, counts again.
`RunsFit` ties the two: what the holder pushed is in its copy and listed by a note it
has read, so that forgetting a PDF always follows a note that ceased to list it.
`CommitBegins` treats syncs and other commits alike: the notes that changed are in the
run that begins, or marked as left out. `ListedArePushed` rests on `ListingInv`, which
follows a note from the commit to the record: unless it is left out, either a batch,
queued or taken, has it, or its PDFs are in the lock holder's copy or still before the
holder, *and* in the file unless the holder has read the note (`ListingKept`). The file
matters for a run that stops: what it had read is missed, the rest must have been there
before. Until the first scan nothing is known of the record; `ScanCovers` says that a
run about to scan everything has each tagged note in its list of paths, or another batch
has it, since the paths are listed some steps before the scan is marked.

The proofs assume the named ASSUMEs of the modules only (`TextAssumption`,
`ServerAssumption`, `SyncAssumption`, `PublicationAssumption`, `SessionAssumption`, `DeviceAssumption`,
`RendererAssumption`, `PushAssumption`; the theorems on `DavTree` assume `PathsOK`): model
values differ from the data, bounds and lifetimes are naturals, limits are positive,
the first ledger is whole, notes are numbered. None bounds the number of requests,
users, notes, faults or restarts.

Only model-checked: the liveness properties `DevicesConverge`, `JournalRollsForward`
and `TabletSettles` (fairness is beyond this prover). Each safety property of a passing run
is proved.

## Not modelled

No remote: fetch, rebase and push change the branch under every handler. No staging of
uploads: they arrive whole in `VaultServer`. No queue of syncs in
`VaultSync`, and no backup in `FirstSync`: it lies outside the synchronised paths. Of
WebDAV, ETags, ranges, PROPFIND, locks (they are advisory) and the times of uploads are left out. `SaberRenderer` has one device with an encryption
password and one asset per note, in a flat folder: a directory that is moved or
deleted is not told apart into its notes, and a note that cannot be read is
`NoteFails` after its first read. `TabletPush` has one Saber device. The renderers
themselves (`inkvault/`, the drawing and encryption in `saber/`), the conflict parser,
CBOR and PDF code are pure functions of large data. HTTP routing, pages, settings and dialogs
have no state of interest. Cryptography (tokens, password hashes, Saber's encryption) is
out of scope.
Each part is listed in `PROJECT.json` with its reason.

## Plan

Done: the server and its clients, publication, WebDAV trees, sessions and device
access, the tablet's tasks. What is left, in this order:

1. `SyncRunner`: `running`, `syncQueued`, timer, save and startup syncs
   (`gitService.ts:271-293`, `main.ts`); a requested sync eventually runs.
2. `UploadStaging`: init, append, complete, consume, with crashes; a completed
   upload is the file that was sent.
3. `RemoteIntegration`: a remote that others push to.
4. Pure algorithms: manifest difference, conflict parser.
