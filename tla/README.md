# ORIGAMI3: TLA+ models

ORIGAMI3 is an origami design program: a Rust core (`crates/`), a Tauri desktop
application (`apps/desktop`) and a browser version (`apps/web`). These modules
model the parts of it that keep the user's work: what survives a crash, a failed
write, a second window or a closed tab, which work a save, a discard or an exit may
touch, and whether the screens end with the document that is stored.

## Inventory

| Part | Where | State it keeps | Operations | Talks to |
|---|---|---|---|---|
| Crash recovery | `apps/desktop/src-tauri/src/autosave.rs` | index file, active payload, one file per carried candidate, session and transaction lock files | start, autosave every 30 s, set aside, restore, discard, discard after save, discard at exit | document store (mutex), other processes (lock files) |
| Document store | `apps/desktop/src-tauri/src/store.rs` | document, provenance of creases, undo and redo stacks, dirty flag, path, persisted text, pose | edits, sequence operations, undo, redo, new, open, import, save, restore | commands (mutex), user's files |
| Commands | `commands.rs` | none besides the proposal jobs | one per request of the front end; pose and replay computed outside the store lock | front end (IPC), store, autosave |
| Front-end queue | `apps/desktop/src/store/ipcQueue.ts`, `services/commandService.ts`, `generationGate.ts` | tail promise, newest request per key, generation numbers | run, runLatest, applyView | commands, screens |
| Replay, pose, fold-all runtimes | `store/services/*Runtime.ts` | generations, pending request, playback position | play, seek, solve, preview, stop | queue, workers |
| Proposal jobs | `commands.rs:1592-2302`; in the browser `apps/web/src/backend/proposalJobRegistry.ts`, `proposal.worker.ts`; the wizard in `store/services/proposalActions.ts` | table of jobs, a cell with progress and cancel flag for each; in the browser a worker and the last progress for each; the wizard's skeleton, candidates, history and job | generate, progress, cancel; in the wizard open, edit, move tips, undo, apply | worker threads, the wizard |
| Web recovery | `apps/web/src/recovery/` | scheduler: document generation, revision, saved revision, debounce timer, current and restored candidate, queue of promises; repository: metadata in IndexedDB, payloads in OPFS or IndexedDB | edit, flush, save succeeded, new, open, import, discard, restore | browser storage, web core, the user's files |
| Web core client, file tokens | `apps/web/src/backend/coreWorkerClient.ts`, `platform/` | pending calls by id, reference counts | call, answer, failure (rejects what is pending); acquire, release | worker messages |
| Web application core | `crates/ori3-app-core` | as the document store | as the document store | WebAssembly bindings |
| Geometry, layers, rigid and soft folding, search, export | `crates/ori3-*` | none across calls | pure functions over floating point | document store, commands |

What is hard in it:

* **Crash recovery**: one directory shared by several processes; each operation is
  three to six file writes, any of which may fail or be the last one before the
  process dies. Correct means: nothing a process was told is safe gets lost;
  it is offered again; saved work is not; a candidate goes only when the user says so.
* **Document store**: a hundred-step undo history, provenance keyed by step ids,
  and a save that must notice another program's write. Correct means: history is
  a linear timeline; provenance belongs to its step; a clean document is on disk;
  a save overwrites only what the work descends from.
* **Front end**: answers of the back end arrive in order but after the state they
  were asked for; requests are dropped when a newer one is queued. Correct means:
  the newest view is the last shown; a dropped request was superseded; nothing
  computed from an old document is sent as an edit of a newer one.
* **Web recovery**: a checkpoint is six awaits long (snapshot, number, payload,
  metadata, clean-up, answer); edits, timers, a save and a closed tab come between
  any two, and OPFS may refuse what IndexedDB takes. Correct means: what counts as
  flushed can be restored as it is, what is listed can be read, and a candidate is
  replaced only by a later state of its own work and goes only when it is refused or saved.
* **Jobs and workers**: a job may be cancelled, finished and asked for its progress
  at the same time, while the user already looks at another skeleton. Correct means:
  no candidates after a granted cancellation, and what was made is otherwise handed
  out; a late answer is not shown; every job ends and leaves nothing behind.

The complete list of hazards, each with its line, is `hazards` in `PROJECT.json`.

## Modules

| Module | What it is |
|---|---|
| `Autosave` | crash recovery: several processes over one directory |
| `MCAutosave` | the small instances of it that TLC explores |
| `AutosaveProofs` | theorems about `Autosave`, with proofs |
| `AutosaveOfferProofs` | theorems about the candidates `Autosave` offers, with proofs |
| `DocumentStore` | one process's document: edits, undo, files, and the other programs that write those files |
| `MCDocumentStore` | the small instances of it that TLC explores |
| `EditHistory` | what undo and redo promise, without saying how; `DocumentStore` implements it |
| `DocumentStoreProofs` | theorems about `DocumentStore`, with proofs |
| `IpcQueue` | the queue of calls, as operators on its value |
| `CallLine` | what the queue promises, without saying how; `Desk` implements it |
| `Desk` | one desktop window: screens, timers, the queue and the store that answers |
| `MCDesk` | the inputs TLC explores |
| `DeskProofs` | theorems about `IpcQueue`, the calls of `Desk` and what its screens show, with proofs |
| `CandidateShelf` | what the browser's recovery area promises; `WebRecovery` implements it |
| `WebRecovery` | one browser tab: scheduler, storage, commands of the user |
| `MCWebRecovery` | the instance TLC explores |
| `WebRecoveryProofs` | theorems about `WebRecovery`, with proofs |
| `JobContract` | what the wizard may expect of a calculation; both back ends implement it |
| `JobTable` | the desktop's back end: table, cells, threads and their workers |
| `JobWorkers` | the browser's: registry, web workers and their messages |
| `Proposals` | the wizard, composed with the back end it runs on |
| `JobTableProofs`, `JobWorkersProofs` | theorems about the two back ends, with proofs |
| `ProposalsProofs` | theorems about the wizard on its back end, with proofs |

### Autosave

State. `disk` is the app-data directory: the index (`AutosaveIndex`: next id,
active entry, carried candidates), the active payload, the candidates' payloads
and an autosave of an old version. `tx` is the operation that holds the
transaction lock. `life[s]` says whether process `s` runs, which is what
`is_live_session` reads off the session lock file, and `mem[s]` is its document
store (document and dirty flag). `closing` holds the processes that have found their
work saved and wait to remove the slot. A document is the sequence of edits that made
it. `opened`, `mine`, `shelf` and `spent` are history variables: what the user
restored, what the program has told it is safe, and how much of each bound is used.

Operations. Every operation of the code takes the transaction lock, reads the
index and the payloads, computes, and writes files one by one. Nobody else
writes while it holds the lock, so `Begin` computes all of its writes (a plan) as
an operator over the directory as it is, `WriteFile` does one of them,
`WriteFails` makes one fail as the code reports it (`?` ends the operation,
`.ok()` ignores it), and `Finish` returns to the caller. `Crash` may come
between any two.

| Action | Code |
|---|---|
| `Start` | `spawn`, `prepare_session`, `startup_index`, `reconcile_payload_files`, `import_legacy_candidate` |
| `Change` | an edit, undo or redo: `DocumentStore::commit` |
| `Autosave` | `run_once`, `write_snapshot` |
| `Replace`, `ReplaceSaved` | `replace_document_command` of `document_new` and `document_open`, `preserve_before_document_change_locked` |
| `Restore` | `recovery_restore`, `restore_candidate` |
| `DiscardCandidate` | `discard_candidate` |
| `Save` | `document_save`, `discard_after_save_locked` |
| `Close`, `Exit` | `discard_if_clean` on clean work: the look at the store (1380-1385), and the discard under the locks of the recovery files (1307), which does not look again |
| `Leave` | `discard_if_clean` on unsaved work, which leaves everything |
| `Crash`, `WriteFails`, `Damage` | the environment: a killed process, a failing write or removal, a file truncated from outside |

Left out: `document_path`, `step_count` and `saved_at_ms` as information for the
dialog (`saved_at_ms` stays as a stamp, since it decides whether two payloads are
equal byte for byte); the backup copy of a damaged index; the version 1 index
(its upgrade changes the number only); builds for systems other than Windows, whose lock functions
return an error. The file locks themselves are the operating system's and are
modelled by `tx` and `life`.

Modelled although easy to overlook: the recovery dialog may be stale, so
`DiscardCandidate` also takes a candidate that is the source of the active work;
`Change` may happen while an autosave is writing, because the store is locked
only while the copy is taken. Every command is asynchronous (`#[tauri::command(async)]`), so
a process may run any of them between `Close` and `Exit`, and its autosave thread too. An edit
or a restore there is *late*: the exit will not look at it. `MaxLate` bounds them, `spent.late`
counts them, and the statements about lost work are made for none. A save makes the document clean
before the recovery files go and its error leaves them there.

### DocumentStore

State. `doc`, `creases` (`step_creases`, as a function from step ids), `faces`,
`undo`, `redo`, `dirty`, `path` and `persisted` (`persisted_file`) are the
fields of `DocumentStore`; `file` is what each file holds. `path` and the
arguments of `Open` and `Save` are names, and `Real` says which file a name
leads to, so two names may lead to one file as they do for `canonicalize`.
`screen` is the document the front end shows (`Shown`), then those of the answers on
their way to it; `MaxLag` bounds how many these are. `basis` (the text on disk the work in
hand grew from), `crashed` (the unsaved work of a killed process, as the autosave kept it)
and `spent` are history.

A crease pattern is an opaque value, since which pattern an edit yields is
geometry; a step keeps its id, whether it was made as a pose (the kind the user may
give it later decides nothing here), which operation made it and a revision that
`UpdateStep` flips. The lines a step added are represented by
the operation that added them, which is what provenance is about.

| Action | Code |
|---|---|
| `EditPattern`, `ReplaceCreasePattern` | `apply_edits`, `edit_document` |
| `ApplyProposal` | `apply_proposal`; proposals with a repeated id are refused (`IsInjective`) |
| `PushStep` | `SeqOp::PushStep`, with the id `recordPoseStep` chose from the document it showed (`nextStepId`) |
| `RemoveStep`, `MoveStep`, `UpdateStep` | the `SeqOp` of the same name |
| `Fold` | `FoldThrough`, `CreaseOnlyTop` (with or without a recorded pose), `FlatMotion`, `Technique` |
| `Undo`, `Redo` | `undo`, `redo` |
| `NewDocument`, `Open`, `ImportFold`, `Save`, `Restore` | the methods of the same name |
| `Crash` | the process dies with unsaved work; what `autosave_snapshot` gave is kept |
| `OtherProgram` | any other program writes or deletes a file |

`Replace` is `commit_prebuilt` and every edit goes through it, so an operation
that changes nothing leaves the history alone and does not make the work dirty,
as in the code. An operation that returns an error changes nothing and is no
step. Every operation runs under one mutex (`State<Mutex<DocumentStore>>`), so
each is one action; for `Save` this also needs that nobody writes between its
comparison and its replacement of the file, which the lock file of
commands.rs:477 gives with respect to other ORIGAMI3 processes. A program that
does not know that lock can write in that window, and nothing in the code claims
otherwise.

A request of the front end was made for the document it showed, which may be some answers
older than the one it meets. `PushStep` therefore takes its number from `Shown`, and
`UpdateStep` puts a step of `Shown`, with one change, in the place of the first step with its
id; `RemoveStep` removes all steps with the id, as `retain` does. Such a request is *late* if
it meets another step than it was made for: a pose whose number is taken, a step whose
namesake has changed. `spent.late` counts them and `MaxLate` bounds them. Requests made for
older screens that do not mistake a step are not late, and are in every run with `MaxLag` 1.

What comes from outside (`Foreign`,
`Imported`) numbers its steps apart (`OutsideTexts`), as files written by the
program do; a file edited by hand may not, and `MoveStep` then refuses.

Left out: `InsertStep`, which no part of the program sends any more; the preview
operations, which change nothing; `pose_angles`, a warm start for a numerical
solver; the display settings and the paper, which travel with the pattern.

### IpcQueue, CallLine, Desk

`IpcQueue` is `ipcQueue.ts`: `Run` appends a call that must be made, `RunLatest`
one that the next `RunLatest` may replace as long as nothing was appended behind it
and it has not started. A call carries the number `latestSeq` had when it was made;
`IsLatest` is the `isLatest` of its answer.

`Desk` is one window. `ui` is the part of `useAppStore` and of the runtimes that
decides what is asked and what is drawn; `store` is the document behind the
queue, reduced to a version, its step ids and the two histories of ids;
`queue` is the value of `IpcQueue`. An action is one turn of the event loop, with
everything the handler does before it waits again:

| Action | Code |
|---|---|
| `Edit`, `NewDocument`, `Adopt`, `Undo`, `Redo` | `documentActions.ts`, `proposalActions.ts`, through `runViewCommand` |
| `Select`, `TogglePlay`, `Tick` | `selectStep`, `togglePlay`, the frame of the playback |
| `SetAngle`, `ClearDriver`, `FinishAngle`, `PoseTimer` | `poseRuntime.ts`: intents, the timer, `runPoseSolve` |
| `RecordPoseStep`, `MoveStep`, `MoveOn` | `poseReplayActions.ts`; `MoveOn` is the part after `waitForDocChange` |
| `RequestFold`, `ResolveFold` | the two stages of `foldThrough` |
| `Plain` | a save or an export as a call that only waits its turn |
| `StartCall`, `Answer` | the queue's turn, and the answer with its handler (`AnswerChange`, `AnswerReplay`, `AnswerPose`, `AnswerPreview`, `AnswerPlain`) |
| `GoOn` | what awaits a change after its own picture has settled: `after` holds it, `Ready` says which may go on |

A handler is an operator from one `ui` to the next; `ask` is the call it makes and
is always empty between turns. `due` says that a frame of playback has been asked
for, and no input falls between that and the frame. A picture is the version,
position and completeness it was computed from; `seen` remembers whether the last
one was drawn for the document on screen, for an older one, or dropped.
A change may fail whenever the store could refuse it; moves, pushes, undo and redo
fail only when the store's own condition says so.

Left out: the preview of the whole folding (`foldAllRuntime`, with a queue of its
own), the display settings, and the content of documents, which is `DocumentStore`'s.
Of the crease angles the model keeps whether there are any: whether they are still those a
posed fold recorded (`poseBeforeMatchesDrivers`) is a choice when the fold goes on, and the
history of angles is reduced to one bend that can be taken back and put back.

### WebRecovery, CandidateShelf

A work is the set of its edits, so that "a later state of the same work" is a
superset and the content of a candidate needs no other structure. `disk` survives
the tab: the next number, the metadata with the place of the payload, both payload
stores, and the user's files. `core` is the worker's document and dirty flag,
`sch` the fields of `AutosaveScheduler`, `ops` its queue of promises with the
running operation first, `cmd` the command of the user under way. `sch.mine` is a
history variable: the candidates written for the work in hand, and its source.

| Action | Code |
|---|---|
| `FlushStarts` to `FlushAnswers` | the operation `flushNow` queues, between two awaits each, through `saveCheckpointLocked`, `writePayload`, `ignoreDeleteFailure` |
| `ClearStarts`, `ClearsMetadata`, `ClearsPayload` | the operation `markExplicitSaveSucceeded` queues, through `discardCandidateLocked` |
| `DebounceFires`, `CheckpointFires` | the two timers |
| `EditOrSave`, `NewOrOpen`, `Restore`, `Discard` | a command arrives; new, open, import and restore wait for `flushNow` first (`AwaitsFlush`) |
| `CoreEdits` to `CoreSaves`, `WritesFile` | the worker carries it out; the file is written between the worker's two halves of a save |
| `EditAnswered`, `ReplaceAnswered`, `RestoreAnswered`, `SaveAnswered` | the continuation in `WebRecoveryRuntime` |
| `DiscardsMetadata`, `DiscardsPayload` | `discardCandidate` for the user |
| `CloseTab` | the tab is closed or reloaded; `App.tsx` begins with a new document |

`flushNow` returns either its own operation or the queue with errors caught;
`wake` says which of the two a command waits for. Any storage operation may fail
(`Storage`). Three facts of the platform are in the guards: the worker answers in the
order it was asked (`AnswersInOrder`, `late`), the continuation of a committed
write runs before a read that saw it (`Clicks`), and the front end sends one
command at a time (its queue). Since the bridge makes its list anew when a choice
arrives, `recovery_check` is left out and the user may choose any candidate there
is. Reading metadata and allocating a number are one step: a tab closed
between them loses a number, nothing else. The queue per candidate in the
repository adds nothing for one tab, whose operations on a candidate are already
in one queue or excluded by `AssociatedCandidateIds`. Two tabs are not modelled:
there is no lock between them and the code says so (WebRecoveryRepository.ts:63).

### JobContract, JobTable, JobWorkers, Proposals

`runtime` is chosen at the start and stays, as in runtime.ts:43; one of the two
back ends then does nothing. `ui` is the part of the store's proposal slice that
decides what is asked and shown. A skeleton is the round in which its tree was drawn
and a number that grows with each move of its tips; candidates are known by the
skeleton they were calculated from.

On the desktop each call of the screens runs on a thread of its own, and a job has one
more thread for each candidate. A step is what happens under one lock, that of the
table or that of a cell. In the browser the registry is on the thread of the
screens, so an answer and its handler are one turn, and the worker's messages
arrive in order until it is terminated.

| Action | Code |
|---|---|
| `OpenWizard`, `SetSkeleton`, `CloseWizard`, `Apply` | the methods of `proposalActions.ts`, with `invalidateProposalJob` (`Abandon`) |
| `MoveTip`, `UndoMove`, `RedoMove` | `setProposalTipPosition` and the wizard's own history |
| `GenerateProposal`, `PollProgress`, `TakeProgress`, `TakeAnswer`, `BarWasFull` | `runProposalGeneration`, `watchProposalProgress`, `holdFullProposalBar` |
| `StartJob`, `Invalid`, `Pack`, `BeginVerifying`, `EndWorker`, `Gather`, `Complete`, `Prune` | `run_proposal_job`, `generate_candidates`, `ProposalJobs::start`, `finish`, `prune` |
| `FindForCancel`, `CancelJob`, `ReadProgress` | `ProposalJobs::cancel` in its two locks, `snapshot` |
| `OpenSession`, `CancelSession`, `HearReady` to `HearError`, `ReadyTimeout`, `WorkerError` | `proposalJobRegistry.ts` |
| `Load`, `Prepare`, `GenerateCandidate`, `VerifyCandidate`, `HandOut` | `proposal.worker.ts` |

Whether a search succeeds, gives up at its watchdog or panics is a choice, and so is the
number of ways to pack the skeleton. `FewWorkers` bounds how many candidates
desktop jobs calculate at once. Reading the progress is one step although the code takes
the cell out of the table first: a cell that left the table does not change.
Moves of a tip that follow each other closely share one moment of the history and are one move.

Left out: `dispose` of the registry and `disposeJob`, which come with the end of the
page; which of the candidates is selected; the texts of warnings and errors; the
change of the document by an adoption, which is `Adopt` of `Desk` and
`ApplyProposal` of `DocumentStore`.

## Properties

| Property | Says |
|---|---|
| `TypeOK` | types of all variables |
| `NoWorkLost` | for every work the program was told is safe, one of the versions owed is on disk at every moment |
| `OwedIsOffered` | with one process at a time it is also offered to the user |
| `SavedIsNotOffered` | if everything was saved and everybody left normally, nothing is offered |
| `IndexSound` | between any two writes the index validates and the active payload it names exists |
| `AutosaveNeverWedged` | whatever failed before, the next autosave can be planned |
| `CandidateLeavesOnlyByUser` | a candidate's file goes only when the user discards it or saves the work restored from it |
| `OverwriteOnlyBySource` | a candidate's file is replaced only by the work restored from it |
| `DirtyEventuallySafe` | unsaved work reaches the disk |
| `FacesOfDocument` | the cached faces are those of the document on screen, after undo, restore and import too |
| `HistoryBounded` | what can be undone and redone together stays within `MAX_UNDO`, although only a commit looks at the limit |
| `StepIdsUnique` | no two steps have one id in any state undo and redo can reach |
| `CreasesOfTheStep` | in each of those states, the lines recorded under a step's id are the ones that step added |
| `HistoryKept` | the two stacks implement `EditHistory`: one line of states, one more for every operation |
| `CleanIsPersisted` | a work that counts as saved is the text its file was last known to hold, or a new document |
| `OnlySeenIsOverwritten` | a save to the work's own file, under whatever name, replaces no text the work does not descend from (violated after a restart, see findings) |
| `OnlySeenUntilRestart` | the same for work that was not brought back after a crash |
| `QueueIsSound` | only the last waiting call can be replaced, only if it may be dropped, and the line is in the order of asking |
| `LineSpec` | the desk's calls implement `CallLine` |
| `ShownIsStored` | when no change is open, the screens show the stored document, although answers come while newer calls wait and later ones fail |
| `PictureIsTheOneWanted` | when all has settled and the last picture was drawn for the document on screen, it is the wanted one, as long as step ids are unique |
| `RunsOnWhatItWasMadeFor` | a fold or a move of a step runs on the document for which it was made |
| `BusyEnds` | the fold tools are released after every fold |
| `ScreenFollows` | as `PictureIsTheOneWanted`, for a picture asked for under any document (violated with `DeskFollow.cfg`, see findings) |
| `ListedIsReadable` | metadata never names a payload that is gone |
| `UnsavedIsKept` | unsaved work that counts as flushed can be restored exactly as it is |
| `SavedIsCleared` | after a save that reports no failure no candidate of this work is left |
| `ShelfSpec` | the recovery area implements `CandidateShelf`: a number of its own, replaced only by later states, gone only when refused or saved |
| `DirtyEventuallyKept` | unsaved work reaches the recovery area, although a write fails |
| `ContractKept` | `Proposals` implements `JobContract` on either back end: one answer per job, and of candidates and a granted cancellation only one |
| `NothingMadeIsLost` | no order in which the workers count makes a finished job look inconsistent and drops its candidates |
| `ProgressIsAccepted` | no message of a sound worker breaks the registry's rule for progress, which would end the job |
| `ArrivalsFitTheScreen` | candidates that arrive were calculated from the skeleton now on the screen, to the last tip |
| `CandidatesAreOfThisTree` | nor does the wizard's undo bring back candidates of another tree |
| `ProgressGrows` | the bar of a job never goes back, although polls overtake answers and later jobs |
| `WaitsForSomething` | a busy wizard waits for an answer that is to come and will count; an idle one has left no worker behind |
| `JobsEnd` | every job ends and gives up its place in the wizard, the table and the worker |

`StepIdsUnique` and `CreasesOfTheStep` hold as long as no request came late (see
`DocumentStore`). `DeskIds.cfg` shows, on the side of the screens, that two poses can be numbered
alike, and `store_poses`, on the side of the store, what a pose with the id of a fold does to
the fold's lines.

An obligation is a set of versions rather than one version, because between the
start and the end of an autosave either the last autosave or the new one may be
found. It is dropped only by a save, by the user discarding that content, by the
user going on from a document that is clean, or when a file is damaged from outside.

`NoWorkLost` has limits in the code itself, which the runs' bounds state. One process at a
time and no failed write: it holds (`autosave_crash`). Several processes alive: it holds,
whatever write fails, as long as nothing has been restored (`NoSharedWorkIsLost`, below);
among two it still holds when one restores what they themselves have left
(`autosave_pair`, whose two processes are the only ones there are), and fails when it is the
work of an earlier process (`autosave_inherit`). With a failed write it fails in a single
process too, after a restore or with an old autosave to import, in instances no
run explores: when what is left is not taken over at startup, the program goes on all the same
(autosave.rs:1459), so that its next autosave inherits the source of the work it should have
taken over, or, with the autosave of an old version not imported, a save removes it.
And with no failure at all it fails for what comes late: an edit that is committed and
autosaved after the exit has found the work saved (`autosave_exit`). `OwedIsOffered` fails with it,
and has `spent.late = 0` among its conditions.

`SavedIsNotOffered` and `CandidateLeavesOnlyByUser` are about one process at a time. Of the hazards
with two processes alive, `autosave_inherit` shows one, and the other is noted below
(autosave.rs:1068).

## Runs

| Run | Instance | Shows |
|---|---|---|
| `autosave_crash` | three processes, one alive at a time, an old autosave to import; in one history at most three of: two kills, a restore, and a discard or a damaged file | 2.1M states. `NoWorkLost`, `OwedIsOffered`, `SavedIsNotOffered`, `CandidateLeavesOnlyByUser` across kills between any two writes. Three processes: one leaves work, one is killed while it takes it over, one finds it |
| `autosave_pair` | two processes alive together, one kill, one failing write, one damaged file, one restore | 3.6M states. The slot is shared: every order of the two processes' operations, and failures combine |
| `autosave_fair` | two processes, one failing write, fairness | 148k states. `DirtyEventuallySafe` |
| `autosave_inherit` | two alive of three, one restore | expected violation, see findings |
| `autosave_exit` | one process, one late edit, nothing fails | expected violation, see findings |
| `store_edits` | two patterns, two proposals, a FOLD file, four edits of which two make steps, `MAX_UNDO` 2, a screen up to one answer behind | 311k states. The history and provenance properties, over every order of edits, undo and redo, no request late |
| `store_files` | three names for two files, two writes of other programs, two edits or imports, a FOLD file, one crash | 972k states. `CleanIsPersisted` and `OnlySeenUntilRestart` through every order of open, save, crash and restore |
| `store_restore` | as `store_files`, without the FOLD file and with one write of another program | expected violation, see findings |
| `store_poses` | as `store_edits` without proposals and the FOLD file, with one late request | expected violation, see findings |
| `desk` | one or two steps at first, any three inputs of fourteen kinds | 469k states. All properties of the desk |
| `web` | four commands, two edits or imports, one failing storage operation, one closed tab, two operations of timers waiting | 664k states. All properties of the recovery area |
| `proposals` | two jobs of at most two candidates, a history of one state, two moves of tips, two rounds of the wizard, one poll on its way | 648k states, both back ends. All properties of proposals |

Bounds. One kind of edit and documents of at most one edit are enough to tell
"blank", "edited" and "the other work" apart; ids go to 3 (one for the import or
the first work set aside, one for the second, and the limit itself), so
exhaustion happens in every run. Every property about candidates involves at
most one candidate, the active work and one more process. `CHECK_DEADLOCK FALSE`:
when all processes have ended, the system stops, and the bounds stop it too.
Each run was also tried with a larger constant during development where that finished.

In the store, a history of two states is the smallest that can be full while one
state has been undone, and four edits fill it, overflow it and leave something
to redo. Provenance goes wrong with two steps and one removal; ids go to 3, so
that a new step need not collide. One answer on its way is enough for the screen to be
behind. A wrong overwrite needs two names of
one file, one other file to have saved to in between, and a write by somebody
else. `NewDocument` is always possible, so deadlock is checked in the store's runs.

On the desk, a wrong picture or number takes one call that runs, one that waits
and one that is asked for while they do: three inputs, beside the calls that
timers and answers make by themselves. In the browser, the longest story is edit,
closed tab, restore, edit, save; two edits tell a work, its later state and another
work apart; a second operation of a timer is what finds everything flushed when its
turn comes. In the wizard, a late answer needs a second job or a second round; two
candidates let one worker count while another sets the phase or falls over.
Desktop jobs that run at once share one worker and a last job alone may use two, since
what two workers do to one cell does not depend on other jobs. The proofs below do not
depend on any of these bounds.

Fairness. `WriteFile` and `Finish` are weakly fair: a process that holds the lock
runs on (the run has no kills). `Autosave` is strongly fair for each process: the
thread wakes every 30 s for ever (autosave.rs:1462) and polls the lock every 10 ms
while another process may take it again and again, at the pace of a user's clicks.
In `desk`, the event loop runs what is ready, a call that may start does, the back
end answers every call with a result or an error, and timers fire. In `web`,
promises go on, the worker answers and the 30 s checkpoint fires; the debounce timer
need not. In `proposals`, threads run, answers arrive, the bar's timer and the timer
for a worker that does not get ready fire; that a worker gets ready, or that a poll or a
cancellation arrives, is not assumed. No fairness is assumed of the user.

`DeskFollow.cfg` and `DeskIds.cfg` (module `MCDesk`, two or three inputs) are kept for running
by hand: they reproduce the last two findings, on the screens, and are not among the runs.

## Findings

* `autosave_inherit`: `write_snapshot` (autosave.rs:1070) takes
  `source_candidate_id` from the active entry even when that entry belongs to
  another live process. Window A restores candidate 1; window B starts another
  document, so its unsaved work is snapshotted, with source 1, and set aside: it
  replaces candidate 1. What A restored is now only in A's memory, and a kill of A
  before its next autosave loses it. The comment at autosave.rs:1214 promises that
  the source stays until a save, so that an abnormal end right after the restore
  loses nothing. For the same reason a save in B deletes candidate 1
  (`CandidateLeavesOnlyByUser` fails in the same instance), against the comment at
  autosave.rs:1363.
* `autosave_exit`: `discard_if_clean` finds the work saved under the store lock, lets go of it
  (autosave.rs:1385), and waits for the locks of the recovery files (1307), which the autosave
  thread may hold. An edit on its way is committed and autosaved; the exit then removes the slot,
  which is its own session's, and the work is in no file. The comment at autosave.rs:1378
  promises that unsaved work is left for the next recovery, as does lib.rs:116.
* `store_restore`: `restore` (store.rs:1392) takes the file as it is at that moment
  for the baseline of the next save. Open, edit, crash; another program writes
  the file; restore, save: its text is replaced without a word. The comment on
  `persisted_file` (store.rs:334-335) promises a comparison with the text as of
  the opening or the last save. The autosave does not keep that text, so the
  restore has nothing else to compare with.
* `store_poses`: `recordPoseStep` numbers a pose from the document on the screen, and the store takes
  it under that id (store.rs:728-731). With a fold ahead of it (asked for and not yet shown, or
  brought back by a redo) the pose comes with the fold's id, `record_frontend_step` records that this id added no
  line, and `record_step_creases` (store.rs:2821) drops the fold's lines. The comments at
  store.rs:322 and 2818 tie to a step's id the lines it added, and the empty record to a step that
  added none.
* `DeskFollow.cfg`: the only step is removed and the removal undone at once. The
  answer with the empty document asks for a flat pose, numbered after the undo
  that already waits; it is drawn last, over the picture of the newer document
  (commandService.ts:305). ipcQueue.ts:7-8 says this cannot happen.
* `DeskIds.cfg`: `recordPoseStep` (poseReplayActions.ts:460) numbers the step from the
  document on the screen. With a request ahead of it that adds a step, both get
  one id and the store takes both; moving a step is refused from then on.

Seen on the way, without a statement in the repository that they contradict:

* With two windows open, B's autosave turns A's slot into a candidate (autosave.rs:1068);
  A saves and exits, and its saved work is offered at the next start.
* The adoption of a proposal does not close an open question about a fold
  (proposalActions.ts:768): answered afterwards, the fold runs on the adopted
  document. `RunsOnWhatItWasMadeFor` names this exception.
* `undoneDocumentChanges` counts an undo that failed behind a newer call as done
  if no error is shown (poseReplayActions.ts:161).
* A replay that is dropped because a newer call waits has no successor if that
  call is a save or a failed change: the picture stays behind until the next input.
  `PictureIsTheOneWanted` therefore speaks of pictures that were drawn.
* Two steps with one id (`DeskIds.cfg`) also let a drawn picture go wrong: a step is
  selected and moved; before the move is asked for, playback starts anew from the
  start of the sequence; the picture asked for by the selection is drawn; the move
  stops the playback, whose frame would have drawn the start, and is then refused. The
  position is the start, the picture is that of the step, and nothing draws it again. TLC
  found this when the invariant of the proof was tried on such documents; it
  is why `PictureIsTheOneWanted` asks for `StepIdsUnique`.
* In the browser, a save whose clean-up removed a restored candidate's metadata but
  not its payload keeps the association; every later save of that work then
  reports a failed clean-up, since the metadata is gone (AutosaveScheduler.ts:197).
* The id of a removed step without provenance (of a proposal, or of an old file) is
  given to the next fold (store.rs:2769). No lines change hands by this.
* `UpdateStep` carries the whole step as the screens showed it (contextAngleSteps.tsx:463, 512): sent
  before an answer is shown, it puts back what an earlier change of that step had replaced.
* In the browser, `document_save` of the worker may be refused or lost after the user's file was
  written (browserDocumentInvoker.ts:433): the work then stays unsaved although its file holds it.
  `WebRecovery` has no such case, since commands come one at a time and the worker answers.

## Proofs

`AutosaveProofs` proves, for any number of processes, ids, documents and for any bounds:

* `TypeCorrect`: `Spec => []TypeOK`;
* `IndexAlwaysSound`: `Spec => []IndexSound`;
* `NeverWedged`: `Spec => []AutosaveNeverWedged`;
* `OverwrittenOnlyBySource`: `Spec => OverwriteOnlyBySource`;

and with one process at a time and more than one id:

* `NoWorkIsLost`: `Spec => [](spent.fault = 0 /\ spent.late = 0 => NoWorkLost)`;
* `NoWorkIsEverLost`: `Spec => []NoWorkLost` where no write fails and nothing is late;

and with any number of processes at once:

* `NoSharedWorkIsLost`: `Spec => [](spent.restore = 0 /\ spent.late = 0 => NoWorkLost)`, failed
  writes included, where there is no autosave of an old version to import;
* `NoImportedWorkIsLost`:
  `Spec => [](spent.restore = 0 /\ spent.fault = 0 /\ spent.late = 0 => NoWorkLost)` where there may be one, and more than one id.

Assumptions: `BoundsAssumption` (the bounds are natural numbers, at least one id),
`ValuesAssumption` and `TransactionAssumption` (the values standing for "none" and the like
are distinct from the others); TLC evaluates them in every run.

Argument. `IndexSound` is not inductive: whether it survives the next write
depends on what the rest of the plan does. The invariant `IInv` adds that the plan
of the operation under way is *aligned* with the directory: each of its writes,
applied to the directory as the previous ones leave it, keeps the index valid and
its payload present. For each operator that builds plans (`SetAside`,
`TakeSnapshot`, `RestorePlan`, ...) a lemma says that it turns a good draft into a
good draft; `Begin` then starts from an aligned plan, `WriteFile` drops its head,
and a failed or skipped write ends the plan or skips a removal that only takes
away what the index no longer names. `AutosaveNeverWedged` follows from
`IndexSound` and the definition of the snapshot plan.

`OverwriteOnlyBySource` speaks of a single write, but what the write may do was
decided when its plan was made, on a disk that is not the one it meets: removals
before it may have failed and been passed over. `Orderly` therefore follows all the
disks a plan may lead to (`Leads`), and asks of each of its writes to a candidate
that on every such disk the place is free, or the active payload goes back to its
own source (`Careful`). Besides, while it is readable, the active payload names the
source the index names (`Tidy`, `Polite`), so that the index, which the code looks at,
and the file, of which the property speaks, cannot disagree. The lemmas go through the
operators that build plans once more (`SetAside`, `TakeSnapshot`, ...).

`NoWorkLost` is proved first for one process at a time (`MaxLive <= 1`) and as long as no
write has failed and nothing has come late at an exit (`NoWorkIsEverLost` restates it as the
invariant the runs check, for `MaxFault = 0` and `MaxLate = 0`). Kills between any two writes,
any number of restarts, damaged files, restores and discards remain, and so does all else that
may run between `Close` and `Exit`. These hypotheses are limits of the code (see Properties), and
so is the last, `MaxId > 1`: with a single id no candidate could ever be given one. As long as
nothing is late, the work of a process that closes stays saved (`ClosingClean`), which is what
its exit relies on; the invariants below are kept as long as nothing disturbs them
(`Undisturbed`, and `Regime` for several processes).

It is far from inductive: a version may be on disk and yet be about to be replaced by a
write that the next operation will rightly plan. The invariant `Secure` says where
a version is worth something (`Stands`): in the active payload, provided the index names
it or is corrupt, since otherwise the next start would not look there; in a candidate
that is not the one the active work is linked to (`LinkOf`), or in that one if both
hold the same; or in the autosave of an old version that was not yet imported.
Between two operations (`AtRest`) what the running process owes itself is in its slot, and
nothing on the shelf depends on the slot or on the linked candidate (`Settled`), so that its
own autosaves may replace either; a slot it could not take over at startup is not
linked (`~Returns`). During an operation (`UnderWay`) the rest of the plan is a `Course`:
a sequence of disks, each of which supports everything owed before and after the
operation, so that it may be cut off at any write, to a disk that fulfils what the
operation promises (`Ends`). Lemmas show how a candidate, an index and a payload
are added to a course (`EmitGoing`, `UnlinkGoing`, ...), then that each plan is one
(`AutosaveKept`, `ReplaceKept`, `RestoreKept`, `DiscardKept`, `DropKept`, `StartKept`), then
that each action keeps `Secure`. Before its first operation a process owes nothing,
and no index names it (`Unborn`); without this its start would take the slot for its own.

For several processes the argument is another one. `Secure` may assume that nobody else
owes anything, and that every removal is done; neither holds here. What makes up for
it is that nothing was restored: no payload has a source (`Plain`), so that a candidate once
written is never replaced, and a plan has at most one removal, its last write. An
obligation is *firm* (`Firm`) if one of its versions is in a candidate, or is in the slot
and whoever takes the slot next sets it aside (`Guards`): the index is corrupt, names a
process that has gone, or names the very process that owes it. The invariant
`Shared` says that the disk bears all obligations (`Bears`) and that the plan under way
reaches, over disks that bear them, one that fulfils what the operation promised, with its
removal or without (`Reaches`, `Promised`), so that a removal that fails and is passed
over is covered like a kill before it. A process that goes away makes obligations nobody's
and slots anybody's (`GoneCovers`); one that starts was never named (`BearsBorn`). The first
start of all on an old autosave is a case of its own (`Pristine`, `FirstStart`): until its
first write the work is in a file that no plan but that one will read.

`AutosaveOfferProofs` proves, with one process at a time and more than one id:

* `OwedIsAlwaysOffered`: `Spec => []OwedIsOffered`;
* `SavedIsNeverOffered`: `Spec => []SavedIsNotOffered`;
* `CandidateStays`: `Spec => CandidateLeavesOnlyByUser`, where no write fails and nothing is late.
  A write that
  failed may leave another work's link in the index, and the next save then clears
  the candidate behind it.

Argument. `Secure` knows which file holds a work; what is offered is what the index lists,
and between two operations the index may be missing a candidate: because it was damaged
and built again, or because no id was left when the candidate was found. `Laid` adds
to `Secure` what is true of the index. `Packed`: the ids from the next one on were given in
order, so that an index counting from the first again never skips a candidate and a
draft that finds no id free (`Room`) means that the disk has none either (`Vacant`).
`Served`, of the disk an operation of the only process ends in: while there are ids every
candidate is listed, the slot is free or that process's own, and its link is
to the candidate it restored. `Clear`: as long as nothing went wrong and nothing was
left, there is no candidate at all, and the slot is empty or a living process's own. The disks between two writes need
only stay packed and lose no candidate but the one the user named (`Spared`); this
is the `Through` part of each plan's lemma (`AddTame`, `IndexTame`, ...), and it gives
`CandidateStays` at once.

`DocumentStoreProofs` proves, for any patterns, files, names, texts and bounds:

* `TypeCorrect`: `Spec => []TypeOK`;
* `StepIdsStayUnique`: `Spec => [](spent.late = 0 => StepIdsUnique)`;
* `StepsKeepTheirCreases`: `Spec => [](spent.late = 0 => StepIdsUnique /\ CreasesOfTheStep)`;
* `FacesFollowDocument`: `Spec => []FacesOfDocument`;
* `HistoryIsBounded`: `Spec => []HistoryBounded`;
* `CleanWorkIsPersisted`: `Spec => []CleanIsPersisted`;
* `NothingUnseenIsOverwritten`: `Spec => OnlySeenUntilRestart`;
* `StoreKeepsHistory`: `Spec => HistoryKept`, the refinement of `EditHistory`.

Assumptions: `StoreBounds` and `StoreValues` (bounds are natural numbers, values
standing for "none" are distinct from the others) and `OutsideTexts` (texts from
outside number their steps apart, and claim no line of a step made here).
`OutsideTexts` is what makes the theorems say something about the program's own
doing; the numbers in other people's files are not its doing.

Argument. Call a text *good* if it has the right type, its step ids are unique
and its provenance is that of its steps. For each way the code builds a text
(insert, remove, move, update, recut, a proposal, an import, dropping provenance
for a file) a lemma says that it turns good texts into good texts; the one that
matters is `InsertedGood`, where the id of the new step must be fresh and the
provenance under it is overwritten. For a pose it is fresh as long as the request is not
late: that its number is free in the document it was numbered for does not matter. The
invariant `IInv` says that *every* text around is good as long as no request came late, and has
the right type in any case (`Holds(Good)` and `Holds(Snapshot)`, so that the lemmas serve both):
the work in hand, both stacks, every file and what a crash left. The stacks must be in it because undo brings them back, and
the files because opening one does; that is why `CreasesOfTheStep` alone is not
inductive. `CleanIsPersisted` additionally needs that dropping provenance twice
is dropping it once (`RetainedGood`). The run `store_edits` checks `CreasesOfTheStep`
without files; that it also holds through saving, opening and crashes is this theorem.

`NothingUnseenIsOverwritten` rests on a further invariant: as long as the process
was never restarted, the baseline is the text the work grew from. `store_restore`
shows that this does not hold any longer after a restart. For `StoreKeepsHistory` the two stacks
and the current text are laid out as one sequence (`undo`, the text, `redo`
reversed); lemmas on its elements show that undo and redo leave it alone and
move one place along it, and that a commit cuts it behind the current place and
adds one, dropping the oldest if `MAX_UNDO` are behind.

`DeskProofs` proves, for any inputs and any number of them:

* `QueueAlwaysSound`: `Spec => []QueueIsSound`;
* `CallsAreMadeInLine`: `Spec => LineSpec`, the refinement of `CallLine`.

Argument. Both are about the queue alone, whatever the screens do with it: `Good`
is `QueueSound` with the shape of the queue's value. Lemmas say that `Run`,
`RunLatest`, `Start` and `Finish` keep a queue good and what each does to the two
sets of waiting numbers; `Turn` makes at most one call, so every action is one of
the four, or two in a row when an answer asks for the next call. The order of the
line is needed for `Make` (the first is the oldest) and the rule about the
replaceable place for `AskInstead` (nothing firm is between the two).

About the screens, `DeskProofs` proves, for any inputs and any number of them:

* `DeskTypeCorrect`: `Spec => []TypeOK`;
* `ShownIsAlwaysStored`: `Spec => []ShownIsStored`;
* `AlwaysRunsOnWhatItWasMadeFor`: `Spec => []RunsOnWhatItWasMadeFor`;
* `PictureIsAlwaysTheOneWanted`: `Spec => []PictureIsTheOneWanted`.

Assumption: `DeskValues` (`MaxInputs` is a natural number, and `Null` is none of the
values it stands beside); TLC evaluates it in every run of the desk.

Argument. None of the last three is inductive: each speaks of a moment, and what holds
then was decided turns before. The invariant `DeskSound` says what is true of the calls
that are still open. First, the screens always show the document of the store, because
each answer is shown even if others wait. Then:

* `LineSound`, about the calls that change the document. `FoldsFit`: a fold was made
  for the document of the store, and no other change is ahead of it, or a proposal has been
  adopted since (or is ahead of it). `QuestionFits` says the same of the question of a fold
  that is on the screen, where the fold that ends the very wait of that question
  does not count; hence `Owners`: no two folds end one wait. `MovesFit`: nothing that changes
  the document is ahead of a move of a step, so its step and its target exist when it
  runs. `LastChange` is what `ChangeSettled` relies on: `docChange` is the last of
  the open changes. `FirmCalls`: only pictures may be dropped.
* `PicturesRight`: no call for a picture is of a newer intent or document than
  the screens, and the call made last, if it is for a picture, asks for the one wanted
  now. An answer is only drawn if it is of the current intent and nothing waits behind it.
* `Comes`: if the picture that was drawn last is not the one wanted, another is on its way.
  Two cases are exempt. Playback that has just jumped to the start (`Jump`) asks with its
  next frame; a move that is refused, which takes two steps with one id, asks for nothing.

Each handler has a lemma on the fields it changes (`SelectStepIs`, `ShowResultIs`,
`FollowedIs`, ...). `LineTurn`, `LineAnswered` and `PictureTurn` say what a call made, an
answer and a new picture do to the three parts; `TurnGoesOn` puts them together, and the lemma
of each action (`EditGoesOn`, `MoveOnGoesOn`, `AnswerChangeGoesOn`, ...) shows that its handler
meets their conditions (`Proceeds`, `Looks`). TLC has found `DeskSound` to hold on all
states of `desk` and of a document that starts with a repeated id.

`WebRecoveryProofs` proves, for any bounds:

* `TypeCorrect`, `ListedIsAlwaysReadable`, `UnsavedIsAlwaysKept`,
  `SavedIsAlwaysCleared`: `Spec => []P` for `TypeOK`, `ListedIsReadable`,
  `UnsavedIsKept` and `SavedIsCleared`;
* `ImplementsShelf`: `Spec => ShelfSpec`, the refinement of `CandidateShelf`.

Assumptions: `BoundsAssumption` (bounds are natural numbers, the value for "none" is
not a work and not a place) and `AbsentAssumption` (nor is it a command).

Argument. None of the four is inductive, because what an operation does after an
await depends on what happened before it. `IInv` has one part for each thing the
code relies on there. `Line`: only the first operation has started, it belongs to
the document generation of now, and at most one operation is waited for.
`Quiet`: a command that replaces the work waits until nothing in the queue will touch
the storage, so no checkpoint of one work meets the candidates of another. `Checkpoint`
and `Removal`: where the payload and the metadata are at each step of the running
operation, and that a refused candidate is not the one being written. `Kept`: which
candidate holds the work in hand. `Mine`: that a candidate written for the work is
one the next save clears, or the one just being written. `Past`: that candidates
hold earlier states of the work, which is what makes each write a renewal. Lemmas on
the queue (`LineGoesOn`, `LineSettles`, `LineGrows`, ...) and on the shelf
(`SameShelf`, `Leaves`) are shared by the actions. For the refinement every action is
a step of the shelf or is not seen there.

`JobTableProofs` proves, for any ids of jobs and any number of candidates:

* `TableKeepsNoDead`: `TableSpec => []TableHoldsTheLiving`;
* `WhatIsMadeIsHandedOut`: `TableSpec => NothingMadeIsLost`;
* `TableKeepsContract`: `TableSpec => TableContract!Spec`, the refinement of `JobContract`.

Argument. `NothingMadeIsLost` would fail if a cell could count past its total, or reach
its end before the job does, since the last count may set the phase to failed. `IInv` says,
by where the thread stands: whether the job is in the table; while the
workers run, that the cell has counted exactly those that have ended
(`CountIsRight`, by cardinality); that the cancel flag and the phase `Cancelled` go
together; and that a call that has found the cell of a job that is gone finds its
outcome in it. The last part is what makes a late cancellation refused.

`JobWorkersProofs` proves, for any ids of jobs and any number of candidates:

* `ProgressAlwaysAccepted`: `WorkersSpec => []ProgressIsAccepted`;
* `WorkersKeepContract`: `WorkersSpec => WorkersContract!Spec`.

Argument. The registry looks at messages long after the worker has gone on, so `IInv`
speaks of all that are on their way: from the progress last heard to where the
worker stands, each message of progress follows the one before it (`Chain`), and
a message that ends the job is the last. Lemmas say that the chain stays one when
its head is heard (`ChainTail`) and when the worker says the next thing (`ChainGrows`).
Both proof modules assume that `Candidates` is a natural number. They are about the
back ends by themselves, called in any order by anyone.

`ProposalsProofs` proves, for any bounds:

* `TypeCorrect`, `CandidatesStayOfThisTree`, `AlwaysWaitsForSomething`,
  `ProgressIsAlwaysAccepted`: `Spec => []P` for `TypeOK`, `CandidatesAreOfThisTree`,
  `WaitsForSomething` and `ProgressIsAccepted`;
* `ArrivalsAlwaysFit`, `ProgressAlwaysGrows`, `WhatIsMadeIsHandedOut`: `Spec => A` for
  `ArrivalsFitTheScreen`, `ProgressGrows` and `NothingMadeIsLost`;
* `ContractIsKept`: `Spec => ContractKept`, the refinement of `JobContract` by whichever
  back end the program runs on.

Assumption: `ProposalsBounds` (bounds are natural numbers).

Argument. `IInv` puts four parts together. `Right` speaks of the wizard alone: a busy
wizard waits for the job it started last, on the skeleton it still shows (`Attends`),
and both its histories hold moments of one tree. `Joined` ties it to the back end: the
other back end is untouched; the job it waits for is pending until the bar is held
full; a living worker is that of this job; and what it shows of
a job is not ahead of anything it may yet hear of it, be it a poll on its way back, the
cell or the next message (`BarIsRight`), without which a poll that is overtaken could
turn the bar back. The other two parts are the invariants of the back ends: every turn
of the program is a step of theirs or none (`StepsOfBackEnds`), so what was
proved of them by themselves carries over (`BackEndsAreUsedAsSuch`). `FewWorkers`, the
bound on the instance TLC explores, is not used anywhere.

Only model-checked: `NoWorkLost` when several processes run and one restores
(`autosave_pair`), and the four liveness properties, which are beyond the prover.

## Plan

What is left, the behaviour that costs the user most first.

1. *Core worker client* (`coreWorkerClient.ts`): pending calls by id, and what is
   rejected when the worker fails. Property: every call is settled exactly once.
2. *Pose of the store*: `pose_angles`, written back after the store was unlocked
   (commands.rs:908), with the intents of `Desk`.
3. *Preview of the whole folding* (`foldAllRuntime`): a second queue beside the first.
4. *File tokens*: reference counts of the browser's file handles.
5. *Control of the search*: the watchdog and the order in which `ori3-propose` gives up.

## Not modelled

* The geometry (`ori3-cp`, `ori3-geometry`, `ori3-layers`, `ori3-rigid`,
  `ori3-soft`) and the search for proposals (`ori3-propose`): floating-point
  numbers and numerical solvers. Their results enter as "any pattern".
* File formats and export (`ori3-export`, `ori3-model`): conversions of text and
  numbers. What matters of them here, that a text which was written is read back
  as it was and that provenance of removed steps is dropped, is in `Retained`.
* The web application core (`ori3-app-core`): a second implementation of the
  document store; only what the recovery area depends on is in `WebRecovery`.
* The client of the core worker, the reference counts of file handles and the preview
  of the whole folding: within reach, see the plan.
* Screens and bindings: no state of their own that outlives a render.
