# A TLA+ model of OpenLess

OpenLess turns speech into text on desktop, Android and HarmonyOS. Almost all of
its decisions are taken in one Rust crate,
`src/openless-all/app/crates/openless-core`; the hosts (Tauri, egui, Android,
Harmony) feed it events and carry out its side effects. This directory models the
parts of that crate where concurrency, failures and ordering make the code hard
to test, checks them with TLC and proves the most important invariants with TLAPS.

Paths below are relative to `src/openless-all/app/crates/openless-core/src/`
unless they start with `src/`.

## The system and its components

| Component | State it keeps | Operations | Hard behaviour |
|---|---|---|---|
| **Voice and activity gates** `voice_session.rs` | one lease of the microphone; a counter and a "cleanup abandoned" flag per domain | acquire, release, hold/drop of native resources; begin, nest, end work; cleanup holds | guards outlive the session that took them; cancellation precedes native clean-up |
| **Runtime restore admission** `cloud_sync_e2ee_store/mod.rs` and the idle probes of `api.rs`, `qa_service.rs`, `selection_service.rs`, `selection_voice_service.rs` | `restoring`, the durable restore marker | begin/end of a restore, four probes, `is_recovering` at every admission | probes take one lock after another while work is being admitted |
| **Hotkey interpreter** `hotkey_interpreter.rs` | held press, session's press, overtaking edges, debounce and cooldown times | press, release, combined, after_modifier_grace, start_finished, terminal, combo_cancelled | edges out of order, bounce, modifier grace |
| **Hotkey dispatch** `api.rs` (`dispatch_dictation_hotkey_edge`), host `hotkey_loops.rs` | one async task per edge | dispatch of an edge: interpret, arm, wait, reserve, start, stop, cancel | decisions taken under one lock and carried out under another, next to a UI doing the same |
| **Dictation session** `api.rs` | phase, session id, fault clean-up, context, history row, feedback window | start, stop, cancel, fault, auto-stop | four handlers of different callers meet in one session; each waits for resources another one closes |
| **Dictation engine** `dictation_engine.rs` | a registry of sessions, each with flags, a recording and a transcription session | start, early stop, finish, cancel | every one of the four may take the recording and close it; the others join that close or find nothing |
| **Buffered transcription, standby and retry** `dictation_engine.rs` | the audio of a recognizer that is starting, its Notify; what the session would cancel, two once-only flags | feed, attach, finish, cancel; race with the local standby, cloud retry | waiting for an attach done by another task; a cancellation meets a recognizer that starts late or was just replaced |
| **Text insertion** `api.rs` (`ActiveTextInsertion`), `streaming_insert.rs` | pending and typed text, newest partial, terminal state, cached clean-up result, registry entry | push delta, push partial, finish, cancel, retry | two loops, a finalization and a clean-up share one native session |
| **Sync write gate** `cloud_sync_e2ee_store/gate.rs`, `persistence.rs` | persisted generation, intents and restore marker; in memory: active permits, exclusive lease, fault flag, epoch, pending notification | begin/commit/abort/drop of a permit, exclusive permits, reconcile, mark/finish restore, coherent token, open | a save whose outcome is unknown, crashes, overlapping permits, lock-free readers |
| **Restore journal** `cloud_sync_e2ee_documents/restore.rs`, `cloud_sync_e2ee_store/` | a journal file per scope (Prepared/Committed/RolledBack); marker and receipts in the gate's file | preview, apply, recover every registered scope, finish, clear | crash or error at each of its writes, lists read before a lock |
| **Automatic sync** `cloud_sync_e2ee/service.rs` | watch receiver, debounce, retries | start, auto_sync, run_once | changes merged or missed by the loop |
| **Sync cycle** `cloud_sync_e2ee/service.rs`, `cloud_sync_e2ee_protocol/transport.rs` | three copies of the baseline, a pending operation, a preview, generations recorded with them; the server's head and receipts | sync, review, apply a decision, reconcile a pending operation | lost answers, requests that arrive late, expired receipts, crashes between any two durable writes, edits at any time |
| **Capture and merge** `cloud_sync_e2ee_store/capture.rs`, `cloud_sync_e2ee_documents/merge.rs` | tombstones beside the native data | capture, diff, resolve | deletions are derived from a baseline that may be stale |
| **Question answering** `qa_service.rs`, host `qa_adapter.rs` | one snapshot (phase, conversation, messages); a presentation mutex; the host's registry of runtime sessions | begin and finish a recording, submit, ask, edit, confirm, cancel, dismiss, fault | a device, a context or an answer that arrives after its turn was cancelled; a close next to the opening of the panel |
| **Selection voice** `selection_voice_service.rs`, host `selection_voice_session.rs` | one state (phase, session, intent, preview, ticket); the insertion target and the slot of the capture in the host | begin, end, process, confirm intent, set, apply and cancel a preview | the state is left between any two model calls; two tasks of a session and its cancellation share target and slot |
| Selection rewriting `selection_service.rs` | a phase | begin, steps, cancel | one active operation, cancellation |
| Less Computer agent, remote input, local models, providers, marketplace, stores, hosts, UI | various | – | mostly I/O; see "Not modelled" |

How they interact: a key edge is queued by the host's listener, dispatched by a
bridge thread or a spawned task, interpreted under the hotkey lock and carried
out on the session under the state lock. A session first claims the lease of the
voice gate; claims are refused while a restore is admitted or the write gate
needs recovery. Every save of a tracked file goes through a permit of the write
gate, whose commits wake the automatic sync; a sync captures all files
optimistically and may restore them under the exclusive permit, after the
runtime restore admission has found every domain idle.

What makes each of them correct:

* gates: native work of two sessions never overlaps; counters are exact; a
  released lease is given up; nothing runs during or on top of a half done restore;
* hotkey: a key-up ends hold-to-talk however late or early it is seen; a
  companion key ends its press wherever it meets it; bounces and queued presses
  open nothing; the microphone is not left armed;
* write gate: no silent change on disk, an exact runtime flag, a coherent
  capture, notifications that end at the last commit and never go back;
* restore journal: a restore happens entirely or not at all, once, and only over
  the data its preview showed; its caller hears how it ended; whatever a crash
  leaves behind is found and settled;
* automatic sync: every committed user change is followed by a sync;
* sync cycle: no edit is lost, an operation given up never commits, all devices
  agree on one log of versions, and Ready means committed;
* text insertion: one native call at a time, the final text exactly once,
  nothing after a cancellation, no composition left behind;
* transcription: a recognizer gets the whole audio in order or is not asked; a
  cancellation reaches the one in use, a cloud recognizer that starts later is not
  used, none outlives the session, every call returns;
* question answering: a turn that ended leaves no microphone, lease or runtime
  session, an answer follows its question, an active turn is shown, an offered
  edit can be applied;
* selection voice: the same of its microphone, a text is inserted at most once and
  finds no target any more once its command is cancelled;
* dictation session: a recording is visible and owns the lease, an ended session
  leaves nothing behind (but for one recording draft, see *Runs*), a stop ends the
  session it was meant for, every call returns.

## Modules

| Module | Models | State ↔ code |
|---|---|---|
| `VoiceGate` | both gates and the restore admission | `active` = `VoiceSessionGate.active`; `running`, `abandoned` = `RuntimeActivityState`; `busy` = the non-terminal phases of QA, selection and selection voice; `restore`, `probed` = `restoring` and the position in `begin_runtime_restore`; `pending`, `fault` = what the write gate's runtime flag reports |
| `HotkeyInterpreter` | `HotkeyInterpreter`, as pure operators on a record | field by field; each operator returns the next record and an intent |
| `HotkeyDispatch` | listener, bridges, edge tasks, and the session they act on | `pc`, `target` = locals of `dispatch_dictation_hotkey_edge`; `phase`, `sid` = `state.dictation`; `inStart` = starts that have not returned; `cleaning` = adapters being cancelled; `lease` = the voice gate's slot |
| `SyncWriteGate` | the write gate with its writers, restores, readers and crashes | `disk` = the state file; `stored`, `active`, `lease`, `fault`, `epoch`, `change` = `State`; `blocked` = `runtime_blocked`; `channel` = the watch channel; `sending` = changes taken but not yet offered |
| `SyncWriteGateProofs` | its inductive invariant and theorems | |
| `AtomicRestore` | abstract: what a restore promises, with no journal, crash or recovery in sight | `data`, `generation`, and for each restore the generation it was previewed at, its fate, and what its caller was told |
| `RestoreJournal` | a restore and its recovery, durable write by durable write, between ordinary edits | `disk`, `stored`, `fault` = the gate's file, its copy, `io_fault`; `journal` = the journal files; `pc`, `cur` = position and journal of `apply_sync_restore` or `recover_sync_restore`; `todo`, `asked` = the scope list of the running and of the waiting `recover_registered`; `plans` = previews not yet applied |
| `RestoreJournalProofs` | its inductive invariant, its theorems and the refinement | |
| `AutoSyncTrigger` | the watch loop of `CloudSyncE2eeService::start`, on top of `SyncWriteGate` | `unseen` = receiver has a new value; `triggered` = generation at the last triggered sync |
| `SyncMerge` | capture and three-way merge, as operators on images | an entry is nothing, a live document or a tombstone; `Chosen` = `diff_sync_documents` for one document, `Capture` = tombstones of `capture.rs` |
| `VaultLog` | abstract: a vault is a log of versions, a baseline is one of them and only moves forward | `log`, and for each device its three copies `agreed` |
| `SyncCycle` | the sync cycle of several devices against one compare-and-swap server | `stored`, `registry`, `known` = baseline in `LocalStorage`, in `ScopeState`, in `Runtime`; `pending` = the durable record; `pc`, `mode`, `hand` = position and locals of `run_once` or `apply_restore`; `current` = which recorded generations are the present one; `head`, `requests`, `committed`, `expired` = the server |
| `SyncCycleProofs` | its inductive invariant, its theorems and the refinement of `VaultLog` | |
| `TextInsertion` | one `ActiveTextInsertion`, its registry entry and the retry worker | `stream`, `newest`, `intake` = `TextInsertionState`; `terminal`, `result` = `terminal`, `cancel_result`; `flush`, `show`, `commit`, `cleanup` = the spawned tasks; `asleep` = who waits on `drained`; `document`, `composition`, `clipboard` = the host |
| `VoiceInputProofs` | the inductive invariants and theorems of `VoiceGate`, `HotkeyDispatch` and `TextInsertion` | |
| `DictationEngine` | `PipelineDictationEngine` | `registered` = its `sessions`; `flags`, `stored` = `PipelineSession`; `microphone`, `provider` = the native handles; `opening`, `finishing` = tasks of `own_voice_effect` |
| `BufferedTranscription` | `BufferedTranscriptionSession` with the recorder that feeds it, `attach_buffered_transcription` and the recognizers | `buffer` = `BufferedTranscriptionState`; `attach` = position and `first_chunk` of the attachment, and whose future it is; `asleep`, `permit` = its `Notify`; `audio` = the recorder's callback and `has_nonzero_pcm`; `state`, `fed`, `asked`, `late` = what happened to each recognizer |
| `Transcription` | `start`, `finish`, `cancel` of the engine around that buffer, `LocalStandby`, `retry_transcription` | `pc` = positions of the three tasks; `flags` = `cancelled`, `transcription_cancelled`, `transcription_finished`; `recording`, `transcription`, `buffered` = `PipelineResources`; `call` = the future of `transcription.finish()`; `standby` = `LocalStandby.run`; `attempt` = of the retry |
| `TranscriptionProofs` | its inductive invariant and theorems | |
| `DictationSession` | `start_reserved_dictation`, `stop_dictation`, `cancel_dictation`, `report_recording_fault`, `cancel_session_adapters` around that engine | `phase`, `current`, `faultOf` = `MutableState`; `lease`, `revoked`, `Held` = the voice gate's slot and holds; `start`, `stop`, `early`, `cancel`, `fault`, `tear` = positions of the handlers |
| `DictationSessionProofs` | its inductive invariant and theorems | |
| `VoiceCapture` | the lease of the voice gate with one native capture per session, as operators | `lease`, `revoked` = the slot of `VoiceSessionGate` and the cancelled tokens; `mic` = the capture of `start_voice_capture`, from its `VoiceResourceHold` to the end of its clean-up |
| `SelectionVoice` | `SelectionVoiceService` and the desktop workflow of a command, on top of `VoiceCapture` | `voice` = `SelectionVoiceState`; `start`, `end`, `teardown`, `apply` = positions of `begin_` and `end_selection_voice_session`, of a cancellation outside its lock, of a confirmation; `target`, `slot` = the host's insertion target and `selection_voice_capture` |
| `QaService` | `QaService`, the desktop's registry of runtime sessions, and the edits and commands it shares with `SelectionVoice` | `qa`, `previous`, `presenter`, `window` = the snapshot, what a turn restores, the presentation mutex, the panel; `turn`, `fault`, `close` = positions and locals of the calls; `runtime`, `installed` = `qa_adapter.rs`'s sessions and their captures |
| `QaServiceProofs` | the inductive invariants and theorems of both | |
| `QaEditProofs` | on top of it: which texts are inserted, and where | |
| `MC*` | instances for TLC | |

Steps are what runs between two awaits or two acquisitions of a lock. Slips
(definitions marked "Slip") are plausible bugs kept next to the definition they
deform; substituting one for the definition must break the property it targets.

Four modules contain the voice lease: `VoiceGate` in detail, `DictationSession`
with the holds its own tasks take (`Held`), `HotkeyDispatch` as the session
that occupies it (`SettleLease`), and `VoiceCapture` for the questions and
commands, whose one hold is that of the capture. `QaService` extends
`SelectionVoice`: an edit is a preview of the selection voice service owned by a
conversation, and a command routed to the panel goes on in `RouteStep`. `DictationSession` takes the text insertion as
one resource, prepared, ready, committing or gone; `TextInsertion` is what
happens inside. `DictationEngine` takes the recognition as one step with an outcome;
`Transcription` is what happens there, and leaves out what only `DictationEngine`
has: the early stop and two teardowns of one session. `VoiceGate` and `SyncWriteGate` share the recovery flag:
`WriteFault`, `MarkPending` and `FinishPending` of the former are what the latter
does in detail. `SyncWriteGate` in turn keeps a restore's decision and its
replacement as one step each and has every detail of permits; `RestoreJournal`
has every write of a restore, and takes a successful edit as one step, since the
exclusive permit keeps the two apart. `SyncCycle` takes the whole restore as the
atomic step `Restore`, which is what `AtomicRestore` promises.

`RestoreJournal` implements `AtomicRestore` under the mapping `Abstract`. The commit
point is the journal: while the marker on disk names a journal of its own
operation, the data is what that journal decides (`Data`), whatever the files
hold; once its phase is Committed the restore has happened, though nobody has
counted the generation yet (`Counted`) or written a receipt (`FateOf`).

Abstractions worth knowing:

* `HotkeyDispatch`: everything after Recording is one phase `Finalizing`, in
  which a session can only end. The double-click mode behaves as Toggle in the
  modelled file. Only `Auto` compares the time of a key-up, so only there it is kept.
* `SyncWriteGate`: the synchronised files are one version number, `content`;
  `recorded` is the version the persisted generation stands for. They are
  history for the properties and no guard reads them for an ordinary write.
  A `SaveFails` leaves either the old or the new state file, as a directory
  flush that fails after the rename does. A restore's replacement and roll back
  are one step each.
* `RestoreJournal`: an image is a version number; a replacement that fails leaves
  the old image, the new one or a mixture (`Torn`). A write that fails leaves
  the old or the new file. A journal that cannot be opened (locked key) is a
  failing `OpenJournal`. One recovery waits for its turn at a time. `ended` and
  `told` are history: the receipt that reached the disk, the caller's answer.
* `AutoSyncTrigger`: debounce and retries are "some time later"; the sync
  itself is taken to capture the generation current when it starts.
* `SyncCycle`: a document's content is the number of the edit that wrote it; two
  edits never write equal content. Fetching the head and capturing are one step,
  as nothing local is read before the capture; so are making an operation
  durable and submitting it, since a crash between the two is a request that
  never arrives. A refusal that is no conflict is a fault. Receipts expire only
  while their operation is pending and no request for it is under way. Nobody
  joins, leaves or deletes the vault, and keys, consent and the selection of
  scopes are fixed. `edits`, the `edit` of a removal and what each place stands
  for are history: `saw` of a device's documents, `intent` of its decision or
  pending operation, `view` of each version of the vault. An edit replaces what
  its document stood for, a merge inherits from both sides.
* `TextInsertion`: the two lock sections at the start of `cancel` are one step
  (the second reads what the first leaves alone). Deltas are pieces of one text,
  and may repeat or miss a piece. `failed` and `closed` of the partials are one
  `intake`; the scheduled flags are the positions of the loops. A native call
  takes any time and, where the code allows for it, fails with any part done.
* `DictationSession`: a session types into an application or writes a note.
  Each of the four calls is made at most once per session, at any time. A wait
  for `phase_changed` ends when its condition holds (the code enables the
  notification before it looks). A provider's work, polishing included, is one
  step with an outcome. The callers themselves are not abandoned and the
  backend is not shut down.
* `Transcription`: chunks are numbered in the order they are recorded; the archive
  holds them all. A future that `finish` holds advances only where `finish` polls
  it. Any recognizer may fail, stay silent or answer at any time; a failed start
  may be retryable or not. Polishing is the end of a finished
  transcription. `take_progress_notifications` has only its empty default in this
  repository, so its error path is left out; so are the events
  a full buffer (`LimitReached`) and a failed background start (`Fatal`) send, and
  the archive's own moves. `BufferedTranscriptionSession` also serves captures
  outside the engine (`ports.rs`, `start_voice_capture`), with callers of their own.
* `VoiceCapture`: a capture is a position; the recorder and the recognizer
  behind it close together (`closing` to `ended`).
* `SelectionVoice`: texts are left out, a preview knows the session it was
  generated from. `Resolve` and `Route` choose any intent the heuristics and the
  picker allow.
* `QaService`: a turn has a fresh id, a message is its role and turn. A provider
  answers, fails or stays silent. A spoken and a typed turn share the calls from
  `answer_input` on. A confirmed edit's dismissal is the close of its turn.

## Runs

Passing runs (`MCVoiceGate`, `MCHotkeyDispatch`, `MCSyncWriteGate`, `MCRestoreJournal`,
`MCAutoSync`, `MCSyncCycle`, `MCTextInsertion`, `MCDictation`, `MCTranscription`,
`MCQa`):

| Run | Bounds | Shows |
|---|---|---|
| `voice_gate` | 2 sessions × 2 kinds, 2 resource holds, 2 domains, 2 workers, a restore and crashes at any time; fairness | exclusive native ownership, an admitted or half finished restore is alone, a released lease is freed |
| `hotkey` | five budgets, one per behaviour: 2 presses on their own in Hold, Auto and Toggle, or one next to a session of the UI; 3 or 4 instants; companion key on the first press, bare modifier or not | a press that ended owns no session, no session opened after its key-up or companion key, no surprise start, no microphone left armed |
| `sync_gate` | 2 writers, 1 reader, failing saves, restores, crashes; generation ≤ 2, epoch ≤ 3 in a process, 2 writes | no silent change, exact flag, nothing unreconciled admitted, restore and intents apart, coherent captures, generations name data, notifications monotone |
| `restore_journal` | 2 scopes, 3 versions (edits and restores together), 2 failing writes or crashes; fairness | refines `AtomicRestore`; journals stay registered, edits meet whole data only, receipts agree with journals, recovery ends |
| `auto_sync` | 3 writers on a working disk, crashes, generation ≤ 4, epoch ≤ 4, 3 writes; fairness | a user change is followed by a sync |
| `sync_cycle` | 2 devices, 2 documents, 3 revisions; 3 edits without a fault or 2 edits with one | no edit is lost, what was given up does not commit, refines `VaultLog`, Ready means committed |
| `text_insertion` | a text of three characters with a space, two texts to commit (the streamed one, another), 2 partials, 2 callers that cancel, Windows or not; fairness | one native call at a time, exact delivery, quiet after a cancellation, no composition left, callers return |
| `dictation` | 2 sessions, the first may be stopped, cancelled and hit by a fault; fairness | lease owned while the microphone is open, recording visible, nothing left behind but the draft of one race, a stop ends its own session, every call returns |
| `transcription` | 1 session, 2 chunks of audio, 2 retries, with and without a fallback and an archive, three ways to attach; fairness | audio whole and in order, no recognizer left running, a cancellation reaches the cloud recognizer or retry in use, one that starts late is not used, a late standby gives no text, every call returns |
| `questions` | seven budgets: 2 spoken turns whose recorders do not fail, 2 spoken turns of which the first is not finished and its recorder may fail, 2 turns typed or edits with 1 selection session, and 1 command routed to 1 turn, each with 1 close; without a close, 2 turns spoken or typed whose recorders may fail, 2 turns typed or edits with 2 selection sessions, and 2 commands | exclusive microphone, nothing left of a turn or a command, answers in order, active turns shown, the target of an edit is kept, each text inserted at most once, and no target found for it after its command was cancelled |

Why these are enough. Two sessions, two holds and two workers are what an
overlap, a late drop and a nested hold need; every property about them is also
proved for any number. With two presses one can be late while the other is
current, and the instants exceed debounce, hold threshold and cooldown, whose
order in the model is that of the code (250, 350 and 450 ms). Two permits make
an overlap; the third writer of `auto_sync` makes a change survive two
overlapping ends. Two to three writes and generations let a failed save, a
recovery and a second write follow each other, and the epoch bound leaves room
for a restore between them. Two scopes make a
recovery visit one that is settled before one that is not; three versions are an
edit between a preview and its restore, or between a restore and the replay of
its left over journal; two faults are one that interrupts a restore and one that
interrupts its recovery. Two devices are a writer and the one that overtakes
it; three revisions are the common baseline, what the other committed and what
is made of both; two documents make a merge take one from each side. Two
partials are one that is shown while the next is waiting; two callers and the
retry worker are a cancellation, one that joins it, and one that comes back. The
second session of `dictation` is the successor that late steps of the first
could harm; it can start, record and fail to start by itself. Two chunks are one taken
before the recognizer answered and one that arrives while it is forwarded; two
retries are `CLOUD_RETRY`, of which the second finds the flags the first left. Two commands
are one that is torn down and its successor; two turns are a question and the
one that follows or revises it; one close next to them races with each of their
steps, and with a fault of the first one's recorder while the second goes on, and a confirmed edit brings another. With two
selection sessions TLC finds two ways in which a late task of the first overwrites the
target of the second: a cancelled command whose start still captures its own
(`selection_voice_session.rs:414`), and a turn that is being dismissed between its
generated edit and the binding of its target (`qa_adapter.rs:569`). The second session
then refuses to insert. The repository promises nothing there, so
`TargetIsKept` excepts exactly these two steps (`Overtaken`) and says that nothing
else takes a target away. Deadlock is not checked where the bounds (presses,
writes, epochs, calls per session) let the system stop; `voice_gate` and
`sync_cycle` check it.

Fairness. `voice_gate`: a resource hold is owned by a spawned task that
runs on when its caller goes away, and ends. `auto_sync`: an operation under a
permit finishes, the committing thread goes on to offer its change, the
debounce timer fires; nothing is assumed of users or crashes. `restore_journal`:
a restore or recovery is a detached task that goes on, and recovery is asked for
at each start and before each sync (`recover`, `service.rs:430`) and gets its
turn: the runtime becomes idle because nothing is admitted while the gate asks
for recovery. Faults are bounded, so `RecoveryEnds` speaks of what happens once
they stop. `text_insertion`: spawned loops and native calls go on; a canceller
woken by the end of a clean-up reads its result before the retry worker, which
sleeps 50 ms or more, opens the terminal again (the one strong fairness);
nobody has to speak, stop or cancel. `dictation`: as long as some task of the
executor or the native side can go on, one does; nothing in the module goes
round, so each of them gets its turn; among its calls is the stop that a
key-up makes while its session starts. `transcription`: the executor runs every
task that can run. Recognizers owe nothing: `CallsReturn` claims that `cancel`
returns although none of them ever answers, and that `start` and `finish` return
under the further hypothesis that recognizers and recorder do (`ProviderStep`).

Violations: what a comment or document says and the code does not keep.

| Run | What TLC shows |
|---|---|
| `sync_stuck` | Between the two baseline writes of `run_once` a step fails; the user deletes a document that is new in the baseline; no tombstone is recorded and every later merge answers `MissingTombstone`. |
| `dictation_overlap` | A cancellation meets the end of its start: the starter's teardown holds the lease, the canceller's closes the recorder, and the lease is free while the recorder still closes. |

More gaps are known and have no run of their own.

* A key-up decided while its session starts may be carried out, a lock later, on
  a session another caller opened in between, against the comment at
  `hotkey_interpreter.rs:191`; what does hold is in `EndedPressOwnsNothing` and
  `OwnStopOnly`.
* On a failing disk a committed user change that was kept back for an overlapping
  permit is lost to the notification when that permit's end fails: `auto_sync`
  is about a disk that works.
* A document a merge restored, deleted by the user before the merge was recorded
  as baseline, leaves no tombstone, and the next sync brings it back
  (`service.rs:1955`), a relative of `sync_stuck`.
* Two devices that deleted the same document from the same baseline have
  tombstones of equal revision and each prefers its own (`merge.rs:550`); no
  property is about the uploads this causes.
* A command cancelled before its start has set the host's target
  (`selection_voice_session.rs:416`) may set it over that of the next command and
  then clear it: the next capture is discarded and the session records without
  a microphone. `NothingLeftBehind` asks only that a microphone that is open is reachable.
* A turn that fails while its context is prepared drops its conversation but not
  the conversation's edit preview; a dismissal then has no owner to clear
  (`qa_service.rs:674`), and the selection voice service stays in Preview until
  Escape.
* A fault while a note is being stopped fails the session; the engine then refuses
  to go on as cancelled (`api.rs:9429`), an outcome for which `stop_dictation`
  settles no history (`:8249`). When it also resets the session before
  `report_recording_fault` looks (`:9052`), nobody settles the draft, and the
  row stays "recording". `RestIsClean` excepts exactly this (`DraftIsOrphaned`).
* A standby does not look at the cancellation when its recognizer starts
  (`dictation_engine.rs:1496`): it is fed and asked until `finish` polls the flag, 25 ms
  later at most. `CancellationIsFinal` says of it only that its text is not used;
  `NoneLeft`, that it is ended.
* A confirmation copies its target, then focuses it, compares the selection and inserts,
  without a second look (`selection_voice_session.rs:791`, `:809`). A cancellation in
  between returns, and the text is inserted all the same: `CancelledFindsNoTarget` is
  about the look only.
* A confirmation of a command's text names no session
  (`selection_voice_session.rs:755`): stalled across a cancellation and a new
  command it confirms the new preview.

`RecordingIsVisible` is about a session that records: a start that was
cancelled between publishing its session and showing the feedback leaves the
feedback shown until the next session hides it.

## Proofs

`VoiceInputProofs` on `VoiceGate`, for every set of sessions, kinds and domains and finite sets
of guards: type correctness, `ExclusiveNativeOwner` with exact resource
counts, exact domain counters and `RestoreIsAlone`. The inductive invariant adds
to these what the probe
knows: a probed gate is still idle (`ProbedVoiceIdle`, `ProbedDomainIdle`)
because every admission looks at `restoring` under the same lock, and probes of
a restore that is admitted are complete (`ProbeProgress`). Counting uses that
adding or removing one guard changes a finite cardinality by one.

`SyncWriteGateProofs`, for every set of writers and readers, every bound, and
disks that fail or do not: type correctness and the five safety properties of
the run. The inductive invariant has five parts beside the types. `GateInv`
relates memory to disk: which of the two knows more after a failed save, and
what the lease and the markers exclude. `DataInv` ties the effect of every
permit to `content` and `recorded`; `UncertainIsAnnounced` and `UnblockedIsSound`
follow from these two. `ReadInv` says that a token whose epoch is current has
seen no version but the present one, hence `TokenSound`. `NotifyInv` orders the
channel, the changes being sent and the generation across the failed saves that
leave disk and memory apart, hence `NotificationsNeverGoBack`. `NameInv`, for
`GenerationNamesData`: a generation that named a version still stands for it, in
the copy in memory and in the one on disk, unless a pending intent accounts for
the change, and what a pending restore would put back is what its generation
names. Each action is one step of the proof, each part one step below it; lemmas
state what a save leaves in the record field by field.

`RestoreJournalProofs`, for any finite set of scopes and any number of versions
and faults: type correctness, `JournalsAccountedFor`, `FreeMeansWhole` and the
refinement `ImplementsAtomicRestore` (`RestoresAreAtomic`). The inductive invariant, `JournalInv`, has two halves.
`StateInv` says what the files say of each other wherever a crash may leave
them: torn data has its journal, a pending restore has no verdict yet and still
fits the generation it was previewed at, every receipt carries the verdict, and
every journal is registered. `CursorInv` says what the running operation knows at
each position: that the marker is its own and the journal on disk is the one in
hand, that nothing was replaced before, and which image the data is after. Only
the first half survives a crash, which is why it must be enough to start a
recovery from (`OpenJournalStep`). For the refinement, `Seen` is what the abstract
specification sees; every step leaves it alone but an edit, a preview, the
journal's commit (`RefinedSaveCommitted`), the receipt of a roll back
(`RefinedEnding`) and the end of `apply_sync_restore` (`RefinedTelling`).

`SyncCycleProofs`, for any sets of devices and documents and any budget of edits
and faults: `OnlyPendingCommits`, `SyncedMeansCommitted`, the refinement of
`VaultLog` (`BaselinesFollowTheVault`) and `EditsSurvive` (`NothingIsLost`). The inductive invariant, `LogInv`, has four
parts. `VaultInv`: the committed operations are the versions of the vault, one
per revision, and the last one is the head. `RequestInv`: a request that could
still win its compare-and-swap is pending on its device; everything that gives
a pending operation up has seen it committed, refused or outdated. `DeviceInv`:
each copy of a baseline is a version, the one in memory is no newer than the
stored one, the stored one no newer than what the task or the pending operation
is about to make of it, and a decision or an upload finds nothing pending.
`CycleInv` adds `ImageInv`, what a generation that is still current says of the
captured image: what was captured, made pending or agreed on under it is what a
capture would give now. Registering a newer baseline could change a capture
without an edit; it does not, as the tombstones it would bring are already
written. History variables play no part in these two.

`HistInv` adds to `LogInv` what the histories say. `ViewInv`: each version of the vault
stands for all that the versions before it stood for. `SeenInv`, for each
device: its documents stand for all that each copy of its baseline stands for
(`LocalSeen`), and so does what it decided, has pending, is about to restore or
to upload, or shows as a preview. The merge keeps this by `ChosenInherits`: of two entries it
drops the one that is the baseline's, and the other side has seen that one,
because it covers the baseline. An earlier form of the property kept one
ancestry per edit. Proving it failed, and TLC found the reason in four edits on three
devices: two tombstones of one baseline are equal entries with different pasts.
The histories are therefore kept per place.

`VoiceInputProofs` on `TextInsertion`, for any texts, any callers and any bound on the partials:
type correctness, `NativeCallsInTurn`, `DeliveredExactly`, `ReleasedClean` and the
action property `CancelledIsQuiet`. The inductive invariant says
who may be inside the native session: a loop that is off, with its intake
closed, stays off; the stop is past both loops before it claims the terminal,
and the clean-up drains them before it calls the host; the terminal admits one of
the two. For the delivery it adds that a document without a failure holds
exactly the text the stream counts as typed.

`VoiceInputProofs` on `HotkeyDispatch`, for any numbers of presses and of sessions
of the UI, any chords, modes and clock: `EndedPressOwnsNothing` and `NoStaleStart`,
under one hypothesis, `RoomForMarkers`. The interpreter remembers the key-up or the companion
key that overtook its press in a queue of 64 markers
(`hotkey_interpreter.rs:22`, `:24`) and evicts the oldest. Sixty-four more edges that
overtake other presses, all dispatched while the task of one press is still
undecided, would make it forget that this press has ended; the hypothesis excludes
just this: an edge evicts no marker of an undecided press. `EnoughRoom` proves that it holds by itself when there
are no more presses than places, as in the run. The inductive
invariant, `DispatchInv`, follows a press through its three tasks. `SerialInv`:
the bridge hands on one press at a time. `HeldInv` and `BoundInv`: what the interpreter
and the tasks know of a press at each position. `CompanionInv` and `ReleaseInv`: an edge that
was dispatched before the press was decided is remembered, or has taken its start
away. `CoolInv`: a press that is given a start came after the cooldown. `OpenInv`
and `OwnInv`: the session a press opened is its own until an edge has taken it
over, whose task then ends it; `HoldInv` and `EndInv`: the key-up finds the
press it belongs to and is about to stop the session.

`TranscriptionProofs`, for any length of a recording and any number of attempts:
type correctness, `CancellationIsFinal`, `NoneLeft` and `FedInOrder`. Each property has its
part of the inductive invariant. Who is given audio (`AttachInv`, `RetryInv`): a
task is where its attachment is, and an attempt that will get the recording has
got nothing yet; the type of what is fed already needs this. `LateInv`: whoever
starts late finds the cancellation, and nothing takes that back; a late standby may
still be fed and asked, but its session is cancelled and yields no text. `ReachInv`: what
a cancellation has in its hands is what the session still stores, because a
cancelled session stores nothing new, and a flag that shields the current attempt
was raised by a release of this attempt. `OrderInv`: what was fed, what the attachment carries and
what the buffer holds are the recording from its first chunk to its last, and
the recorder is closed before anything is asked. `LeftInv`: a recognizer that is
live has somebody about to end it, `finish` while it waits or releases, else the
cancellation that took the flag from it, and `finish` gives the first one up only
when that is done. A task's control is proved once (`StartGoes`, `FinishGoes`,
`CancelGoes`) and the parts follow from those steps.

`DictationSessionProofs`, for any number of sessions of which any may be stopped,
cancelled or hit by a fault: type correctness and the four safety properties of
the run. The inductive invariant, `DictationInv`, asks one question of each
session and each thing it holds: who is still responsible for it? `OrderInv` says which
handlers may run beside which. `LeaseInv`: a session that has started has the
lease, or gave it up and nobody holds it. `EngineInv` and `ReleaseInv`: an open
recorder is stored or in the hands of its opening, a closing one in the hands of
whoever took it, and what is registered or live after a revocation has a teardown that
will take it. `InsertionInv` and `DraftInv` say the same of the text insertion and of
the recording draft, for which in one case nobody is: after the stop of a note that was refused, with a
fault that came too late. `PhaseInv` ties the phase to the handlers of the session
that is shown: a successor replaces it only when none of them can touch the
phase any more, which is why `OwnStopOnly` and `RecordingIsVisible` hold. A
handler's step is proved once for its own session; frame lemmas (`Unseen`,
`Elsewhere`) say what it leaves alone of the others.

`QaServiceProofs`, for any numbers of turns, sessions and dismissals and any
budgets, of `QaService` with `SelectionVoice` on top of `VoiceCapture`: type
correctness, `InsertedOnce`, `OneMicrophone`, `AnswerFollowsItsQuestion`,
`ActiveTurnIsShown` and `NothingLeftBehind`, with its half about questions
as a theorem of its own (`QaNoneLeft`). The invariants build on each other. `TypeInv` holds, beside the types,
who may still insert which text: a text awaiting insertion was not inserted and has no other
confirmation. `MessageInv`: the question of the turn that asks is the last
message. `ShownInv`: whoever opens the panel has the presentation mutex, and only
the last turn does. `PanelInv` adds the owners of previews and conversations and, for
each turn, who has to give back its lease and its runtime session (`OwnedInv`).
`CommandInv` says the same of a command: its target is set before its capture
opens, and each of its microphone and slot is the next step of its start, its end, its
teardown or of the turn it was routed to.

`QaEditProofs`, on top of it: `CancelledFindsNoTarget` and `TargetIsKept`. `ApplyInv` ties a confirmed text to its session: a
command that goes on has its host informed when it is cancelled (`Controlled`), a turn binds
no preview that is being inserted (`Binding`), and a confirmation whose session the
service no longer applies is about to be told so or finds no target (`Disowned`); hence
no confirmation finds a target for a cancelled command, and none is claimed to stop that had found it. `TargetInv` says who may set or clear
the target: two turns never make a preview of one conversation (`OneMaker`), a turn
that binds the preview on offer names its session (`Bound`), and a task that forgets
a target, or an insertion that succeeded, belongs to a session that ended (`Cleared`,
`Applied`).

The proofs assume only the named assumptions on the constants
(`ConstantsAssumption`, `GateAssumption`, `OriginAssumption`,
`InterpreterAssumption`, `DispatchAssumption`, `JournalAssumption`,
`CycleAssumption`, `TextInsertionAssumption`,
`MaxSessionAssumption`, `QaAssumption`, and `BoundsAssumption` of three modules), which TLC
evaluates in the runs.

Only model-checked is all liveness, as it is beyond the prover: `ReleasedLeaseDrains`, `RecoveryEnds`, `UserChangeIsSynced`,
`CallersReturn`, `HandlersReturn`, `CallsReturn`; that the calls of the question panel
return is not checked at all. `ResourcesExact` and `RunningExact` of
`VoiceGate` and the type invariants that no run lists are parts of the proved
inductive invariants; that of `SyncCycle` was checked with TLC under the bounds of its run,
and so was `DispatchTypeOK`, whose part without the bounds, `DispatchTypes`, is proved.

## Not modelled

* Dictation: silence monitor, voice activation, the cloud note, context updates,
  abandoned callers, shutdown, pending captures, polishing, and the captures
  without a dictation (`start_voice_capture`, `start_transcription`).
* Registry of gates by path, corrupt state or journal
  files: file formats and look-ups without interleavings of their own.
* Power loss that undoes an unsynced rename or removal: the code syncs both.
  The lease on Android's own settings that a local restore also takes.
* `HotkeyInterpreter::reset`: a hot swap of the binding and a restore of the preferences
  call it (`api.rs:2972`, `:6636`, `:6665`, `:6815`), and so does a voice question started from the recording key
  (`start_voice_question_from_recording_key`, `:5625`). That one waits for the dispatch gate,
  cancels a session that starts or records, discards the provisional microphones
  and resets the interpreter, with the markers of presses that still wait at the
  gate. `EndedPressOwnsNothing`, `NoStaleStart` and their theorems say
  nothing of a press whose marker was reset.
* Creating, joining and deleting a vault, password changes, consent and the
  channels of the settings; documents merged by value. Cryptography and HTTP are
  left out for good.
* Question answering: tool approvals, the live answer, whether the panel offers to
  apply or revert an edit and the revert itself, empty inputs, the wording kept in the history, a panel
  that fails to hide. Selection voice: how an intent is guessed and an
  edit is planned; whose text a confirmation inserts. Selection rewriting is in
  `VoiceGate` only, as a domain that is busy or not.
* Less Computer, remote input, local models, providers, marketplace, hosts and
  UI: I/O around external services with little shared state.

## Plan

Done: both gates, hotkey, restore journal, automatic sync, sync cycle, text
insertion, dictation session and engine, transcription, questions and commands,
and the proofs above.

Left, in this order:

1. The reset by a voice question from the recording key, with the lease the question
   then takes, in `HotkeyDispatch`.
2. The composition of `Transcription` with the early stop of `DictationEngine`.
3. The hand-over of a native start (`own_voice_start`) as a detail of
   `VoiceGate`'s holds, with callers that go away.
4. The tool approvals and the revert of `QaService`.
