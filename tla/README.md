# SalesTalk in TLA+

SalesTalk is an Electron application that records sales calls, transcribes them,
shows answers to objections during the call and produces minutes and compliance
reviews afterwards; a Cloudflare worker adds accounts, shared knowledge and a
mobile upload. This directory specifies the parts of it where several handlers,
timers, callbacks, failing stores and crashes meet, checks them with TLC on small
instances and proves part of them with TLAPS for every instance.

All paths are relative to the repository root. `src/main/ipc/index.ts` is
abbreviated to `ipc`.

## 1. Inventory

The desktop main process is one event loop: whatever runs between two `await`s is
atomic, and at every `await` any other handler may run. Stores are JSON files
with an in-memory cache; most serialise their mutations through a
`mutationQueue`. `PROJECT.json` lists every component with its files; this table
says what is hard about each one.

| component | state | operations | hard behaviour | what makes it correct |
|---|---|---|---|---|
| STT jobs (`audio-stt-job-runner`, `local-stt-job-store`, `local-transcript-store`) | job records with status, run token and progress; revisions with parent; the active revision | create, retry, cancel, run, activate, reconcile at start | two runs, cancel against activation, compare-and-set on the active revision, failures in three stores, crash | no double execution, terminal jobs stay, a cancelled job is never published, a completed one is complete everywhere |
| Activity store | minutes, latest minute, reviews, audit log with a hash chain | set, append, list, verify | order of queued mutations, a first read outside the queue, a value read before the language model answers, a refused write | the latest minute follows the active revision; what was answered is in the audit log |
| Recording session (`ipc`) | `callState`, `activeCallId`, `realtimeAudioOwner`, three promises, service singletons | start/stop a call, start/stop a diagnostic | every `await` of a start or an end, six failure paths, waiting for each other | one call at a time, nothing left running, audited before captured |
| Native capture service | session id, callbacks, sink | start, stop, chunk callback | reuse of a running service; a stop that is still draining | chunks go to the sink of the running call |
| Updater | update downloaded, retry timer | downloaded, retry, call ended | a timer racing starts and ends | never during a call, never forgotten, prompt |
| Audio checkpoint | manifest, encrypted segments, WAVs, pending audit entry | write, drain, recover, finalize, discard, retain, maintain | two writers of one file, each step may fail, crash anywhere | no audio lost, no removal unaudited, retention kept |
| Audio asset store (`local-audio-asset-store`) | a document with the wrapped master key, encrypted files, readable copies | import, lease, clean-up, quota | the document written by two processes, crashes between file and document | a listed asset decrypts, readable copies are a job's own or known leftovers, the quota holds |
| Compliance, organization and call stores | one JSON file each, cache first | rule sets and their revisions, submit, review, activate; roles | cache replaced before the write, no queue, a file overwritten in place | rules in force are the ones that were reviewed |
| Knowledge (`local-knowledge-store`, `cloudflare/src/company-knowledge.ts`) | candidates, items, local copies on each desktop | extract, push, list, sync, review, search | two reviewers, stale lists, a minute replaced by a newer one, the cloud unreachable | a review is whole and final, local copies follow the cloud |
| Realtime STT client (`stt.ts` and its providers) | connection state, attempts, buffer | start, stop, send, reconnect | a lost connection while flushing, a helper that failed and has not exited, a late transcript at the end of a call | audio in order and in its call, reconnecting ends |
| Objection pipeline, overlay, control window | run id; objection and answer shown | final transcript, dismissal, messages | a superseded or dismissed run that ends late | an answer is shown with its own objection |
| Cloud accounts (`cloudflare/src/account-lifecycle.ts`) | members, invitations, resets, credentials, audit chain | invite, accept, reset, disable, change password | checks read before a D1 batch, guards inside it, mail that is not delivered | tokens used once, an active admin remains, chain without gaps |
| Cloud upload and queue (`cloudflare/src/index.ts`) | pending uploads, calls, jobs, segments | sign, consume, queue message | two PUTs, redelivery, a queue that refuses | one transcript per upload, no stuck job |
| Cloud client and settings panel (`cloudflare-api.ts`, control window) | session token, requests under way | login, invitation or reset, password change, logout, status, upload and wait | answers out of order, buttons that do not block each other | the saved session goes forward |
| Mobile recorder (`mobile/`) | reducer state, recorder, uploads | consent, record, upload, poll, reset, logout | late results after a reset or a logout | done means transcribed, the busy screen ends |

The stores call each other only through the handlers of `ipc`; the recording
session drives the native service, the STT client, the call store, the audit log
and the checkpoint store; the end of a call calls the updater back; importing or
recovering audio creates STT jobs; final transcripts feed the objection pipeline;
minutes feed the knowledge candidates. The desktop and the phone reach the worker
over HTTP only.

## 2. Plan

Done, in this order: `SttJobs`, `RecordingSession` with `Updater`, `AudioCheckpoint`;
`CloudAccounts`; `UploadPromise` as the abstract specification of the upload,
`CloudUpload` that implements it, and `MobileRecorder` on top of the promise;
`CompanyKnowledge`; `SttClient` and `ObjectionPipeline`, composed in `LiveCall`;
`RuleSets`; `AudioLibrary`, extended to the cloud client in `DesktopCloud`. Every
safety property of every run is stated by a theorem of one of the eight proof modules
(section 5), some under a hypothesis without which it is not true of the code.

Left, in this order:

1. The revisions of `SttJobs` as an implementation of a compare-and-set register.
2. Login with its lockout in `CloudAccounts`.
3. Weaker hypotheses for the theorems of `AudioCheckpoint` that need `Races = {}`: which
   operation of the manager may run during which part of a recording.

## 3. Modules

Those that need it EXTEND `Undefined`, whose constant `None` is the null and undefined of the
source, so that one proof module can be about two of them.

### SttJobs

One call with its jobs, the runs of `AudioSttJobRunner.run` (a run is named after
its `runToken`), the users in the `transcripts.activateRevision` handler and the
writers in `minutes.generate`. The store operations are atomic because each store
runs them through its `mutationQueue`; every `await` between them is a step of
`pc`. A revision carries the name of the job that committed it, which
`commitRevision` makes unique. Three things needed care:

* the activity store's queue is explicit (`activityQueue`): an activation queues
  its `setLatestMeetingMinute` in the same turn, and two activations queue theirs
  in the order of the activations, which is what keeps the latest minute right;
* progress is kept only while the job runs, because nothing reads it otherwise;
* `activator`, `published` and `overtaken` are history variables for the
  properties; no action reads them.

`Faults` names the stores that may refuse and whether the app may stop. A refused
write leaves the store as it was (`writeFileAtomic` runs before the cache is
replaced in these stores). A write that is reported as failed only after its
rename is modelled for the minute that `setMeetingAnalysis` stores before its
audit entry, not for every store. The activity store's file counts as read: what its
first read does, outside the queue, is in `RuleSets`. The fetch to the speech provider ends in every
case (abort, answer or the timeouts of the HTTP client), so `Transcribe` or
`TranscribeFails` always happens eventually.

### Updater and RecordingSession

`Updater` holds the state of `UpdateManager` and its operations as action
operators that take the answer of `isInCall`; `RecordingSession` EXTENDS it and
supplies that answer from its own state, exactly where the code calls it.
`RecordingSession` has one frame (`pc`, `work`, `taken`) per invocation of
`startRecordingSession`, `stopRecordingSession`, `startAudioDiagnosticSession`
and `stopAudioDiagnosticSession`. The promises are Booleans; a handler that awaits
one goes on before any other event (`Settled`), as promise continuations do. The
native module is external: one controller, one callback, and a `stopCapture` that
ignores its session id, as `NAPIBridge.mm` implements it. What the checkpoint is
in detail belongs to `AudioCheckpoint`; here it is `none`, `recording`,
`finalized` or `discarded`.

The audio of a call is `buffered` when its sink took it, `persisted` when the sink wrote
it, and its sink is `drained` once a stop of the services has closed it; a drain may fail
with the audio written or not, and then sets `activeCheckpointStopFailed`
(`ServicesStopped`). Discarding the checkpoint of a failed start is three steps: the
summary is read (`discard`), the audit entry appended (`discardAudit`), the directory
removed (`discardRemove`), and each may fail. That nothing is written between the summary
and the removal is what `AudioSurvives` has to show.

### AudioCheckpoint

One call's checkpoint, with the two processes that write its manifest: the
recording session (sink, finalization, discarding after a failed start) which
takes no lock, and whoever holds `withRecoveryCallLock` (`recoverCheckpoint`,
`discardCheckpoint`, `updateCheckpointRetention`, and the two phases of
`runCheckpointMaintenance`, each its own operation). A read of the manifest and
the write that follows it are two steps. A segment is `<<speaker, n>>`, what the
n-th flush of that speaker writes. Every step may fail, a removal may stop
half-way, `writeManifest` may fail before or after its rename, and the app may
stop anywhere. Writing the WAVs of one recovery is one step: they are recreated
from nothing by every attempt; what fails before the `try` of the recovery leaves the
manifest at `recovering` (`FailsUntried`). An import looks at what the call has by then:
the handler lists the file names once, but `importAudioFile` looks for call and file name
again inside the store's queue (`local-audio-asset-store.ts` 115-122), so that a name is
never imported twice and one asset per speaker stands for all. `Races` allows what is
dangerous: `retain`, a retention change during the recording; `start`, recovering or
discarding a checkpoint whose call is still starting.

### CloudAccounts

One organization in D1, with `Requests` handlers of the worker at a time; workers
share nothing but the database. A handler reads with one statement after the
other, each a step, and ends in one `database.batch`, which commits or rolls back
as a whole; what the batch does not check again is what the request has `read`.
The stages of a request are `resolved` (its session belongs to an active account),
`read` (target or token read and checked), `batch` (the head of the audit chain
read, the last read of every handler) and, after a token was issued, `send`.
`Abandon` is everything that ends a request without a write: a refusal, a
rolled-back batch, a batch that changed no row, a worker that stops.

* `entries` counts the entries per sequence number; `SequenceFree` is the UNIQUE
  index of migration 0007, without which two requests could append after the same
  head.
* A credential is its `session_version`; passwords and their hashes do not appear.
  `ended` remembers the highest version whose sessions were ended.
* `overtaken` names members for whom a batch committed against the check of its
  own handler, or whose reset was half-way when they logged out. The safety
  properties exclude them, and `accounts_stale` is about them: the exclusions are
  what the code does not guarantee.
* Expiry is a token nobody uses any more. Login and its lockout, several
  organizations and roles, and the bootstrap of the first credential are left
  out; the seeded members have credentials from the start.

### CloudUpload, UploadPromise, MobileRecorder

`UploadPromise` is what somebody who uploads a recording can rely on: kept once,
acknowledged only when kept and under way, reported only with a transcript. It is
at-least-once: several transcripts of one upload are allowed, and a completed job
may be taken up again, because the code does both.

`CloudUpload` is the worker: the signed one-time link, the PUT as the five writes it
makes (R2, rows, message, link, answer), and the queue consumer. The ids of call,
asset and job are drawn with the link, so one name stands for all. A statement or
batch of D1 is atomic, every await between them a step. The queue is external:
at least once, at most `MaxDeliveries` times, overlapping if `Faults` has
`duplicate`. It implements the promise under the mapping at its end
(`Visits` = `Uploads`, `kept` = audio and rows exist, `underWay` = a message exists, `ready` = the job says
completed): `PromiseKept` is checked by TLC and proved.

`MobileRecorder` EXTENDS `UploadPromise`: the phone runs against the promise and not
against the worker, which is what the refinement is for. The reducer is one operator
per event; the refs of the screen are lost at a logout, its promises are not. The
answer of a login may come after a late failure of an earlier upload has left the idle
state, and is taken to carry the token under the name the client reads (see below).

### CompanyKnowledge

Desktops with a local store each, the tables of the cloud, and the IPC handlers that
extract, push, list and review. A candidate is known by call, minute and text, the
unique key of its table. Every batch appends to the audit chain right after reading its
head and is rolled back as a whole when it lost the race, so both are one step; what
a request read before that is stale. `Blocked` are candidates with a blocked legal
risk. A minute may be extracted again, an older one too.

### SttClient, ObjectionPipeline, LiveCall

`SttClient` is `ResilientSTTClient` of each call over the provider its mode resolves
to. `chain` says where its pending `start()` or `reconnect()` waits; `link` is the
socket or the helper, with `broken` for a helper that reported an error and has not
exited. `ObjectionPipeline` has one run per final utterance of the customer; a run,
its objection and its answer share a name. The overlay and the control window get the
same messages and treat them differently (`OverlayReducer`, `ControlHandler`).
`LiveCall` composes them: a sequence of calls, the chunks captured in them, and the
transcripts on their way to the store of a call and to the pipeline.

### RuleSets

The handlers for rule sets and roles over three files. The compliance and the
organization store change the cache, then overwrite the file in place, with no queue;
the activity store queues, replaces its file by a rename and changes the cache last.
A file that is being overwritten is `Broken`, and stays so when the write fails, two
overlap, or the application stops; a store that cannot read its file starts from its
defaults. `StartFiles` are the states an earlier session may have left: it wrote them with
the same handlers, so `RuleSetsAssumption` takes each one for reviewed or for `Broken`.

The audit log has a first read of its own (`get`, `local-activity-store.ts` 286-318):
`ReadLog` reads the file, `Migrate` writes it if it was missing or of an older form
(`migrate`), `Loaded` assigns the cache, and between any two of them others go on. An append
does this at the head of the queue; a handler that lists (`List`) does it outside of the
queue, and so may put an older log back, in the file or in the cache. `over` marks an entry
that was written while such a read was under way; `AnsweredIsAudited` leaves these out, for
they can be lost (see the disagreements). A first read that fails is an error of its
handler, since only a missing file (ENOENT) is taken for an empty log.

### AudioLibrary and DesktopCloud

`AudioLibrary` is the directory of audio files with the processes that work on it: the
application, and `salestalk transcribe` as a process of its own with its own copy of
the document. An import waits for its turn in the process, reads the document, checks
the quota, encrypts, persists. A job finds its asset in the document, reads the document a
second time from the cache (`Document`), decrypts into a readable copy (`Decrypt`, the
temporary file and the copy it is renamed to), leases it (`Materialize`) and gives it back.

* `Legacy` are assets without encryption metadata, which a document from before the
  encryption lists (`Earlier`; `tests/unit/local-audio-asset-store.test.ts:67` keeps them);
  their file is leased as it is (`LeasePlain`), and so is that of any asset whose metadata
  the second read does not have.
* The removal of a readable copy may fail in the clean-up of the lease, after a failed
  decryption and in the sweep (`Discarded`, `Swept`), and the code swallows that. `left`
  marks such a copy, and one whose process died.
* A file has size one. The code measures it before its import waits for its turn
  (`local-audio-asset-store.ts:108`): that it does not grow until it is encrypted is taken
  for granted, and what the related directories hold is part of the constant `MaxBytes`.
  An asset has a call of its own; repeated imports of one file are in `AudioCheckpoint`.

`DesktopCloud` EXTENDS it by the session token, the requests of the settings panel, and the
upload with its wait. The worker is what the client sees: the session version of an account
and the state of a job. `beside` is a history variable: a login, or a redeemed link, began
while a password change was under way.

## 4. What the runs show

The `MC_*` modules name the values; the `.cfg` files choose them. Deadlock is not
checked in any run: in all these systems nothing has to happen when every handler
has returned and nobody asks for more.

| run | instance | shows |
|---|---|---|
| `stt_faults` | 3 jobs, 2 runs, 1 writer, all stores fail, crashes | `NoDoubleRun`, `CompletedIsPublished`, `PublishedSiblingsExclude`, `TerminalIsFinal` |
| `stt_activity` | 2 jobs, 2 runs, 1 user, activity store fails, crashes | `FailedIsNotLeftActive` |
| `stt_user` | 2 jobs, 2 runs, 1 user, no failures, fairness | `CancelledNeverPublished`, `LatestFollowsActive`, `ClaimedJobEnds` |
| `session_calls` | 2 calls, 2 starts, 2 stops, 1 diagnostic start and stop, all failures, fairness | `NothingRunsWhenQuiet`, `CaptureIsCovered` (checkpoint and consent entry before audio), `OneOpenCall`, `AudioSurvives`, `UpdaterIsSound` (never during a call, never forgotten), `HandlersReturn` |
| `checkpoint_recovery` | 3 segments of 2 speakers, 1 retention change, 2 failures or crashes, fairness | `RemovalIsAudited`, `NoAudioLost`, `RecoveryIsWhole`, `LoggedRetentionApplies`, `PendingIsAudited`, `ExpiredIsRemoved` |
| `accounts_races` | 2 administrators (1 seeded), 2 requests, 2 tokens, 4 audit entries, versions to 3, mail and manual delivery | `ChainIsLinear`, `ActiveAdminRemains`, `TokensMatchAccounts`, `EndedStaysEnded`, `CompletedMeansRotated` |
| `upload_delivery` | 1 upload, 2 PUTs, 2 consumers, 4 deliveries, all faults, fairness | `PromiseKept` (the refinement), `AnsweredEnds` |
| `mobile_recorder` | 2 uploads, 2 flows, 2 microphones, fairness of the flows | `ShownWasTranscribed`, `UploadEnds` |
| `knowledge_review` | 2 desktops, 2 calls, 3 candidates with one text, 1 of them blocked, 2 handlers, 5 requests | `ReviewIsWhole`, `LocalFollowsCloud`, `DecisionIsFinal` |
| `live_answers` | 2 calls, 3 chunks with 2 utterances, a buffer of 2, 1 reconnection, fairness | `AudioStaysInItsCall`, `AnswerFitsObjection`, `ReconnectionSettles` |
| `rule_sets` | 1 set beside the agency's own, 3 requests, 2 at a time, listing ones too, 1 failure, 1 restart, a start file that is broken or holds a pending set, a log that is current or to be migrated | `InForceWasReviewed`, `AnsweredIsAudited` |
| `desktop_audio` | 2 slots, 3 operations, 4 assets, 1 of them without encryption, 2 accounts, 1 job, a quota of 2 files, 1 crash, any removal may fail | `AudioIsGuarded`, `StorageIsBounded`, `SessionGoesForward` |

### Bounds

Two runs and two users are enough for each pair of handlers to race; the
third job of `stt_faults` is needed for a retry next to two siblings. Two calls
are needed because what is dangerous in the session is a handler of the first one
acting on the second; two invocations of start and stop are needed for one of them
to wait for the other.
Handlers may be invoked again after they return, except the runs, whose token is
new each time. Three segments give one speaker two of them, so that an asset can
be shorter than the audio, and the other one a file of its own. Two failures
allow an attempt and its clean-up to fail both. `MaxChanges` bounds retention
changes, `MaxFaults` failures and crashes together; a call id is used once, as
`createCall` draws fresh ones. Two requests are what a race over one row takes;
a third one acts before or after the two, since requests end and begin again. Two
administrators can disable each other, two tokens supersede each other, and four
audit entries allow inviting, accepting, resetting and one more change with
another request in between. Both members can be invited, reset and disabled.

One upload is enough in `upload_delivery` because nothing in the worker relates two
of them (the proof has any number); two PUTs race for one link, two consumers for one
message, and `MaxDeliveries` is 1 + `max_retries`. The phone needs two uploads
and two flows for an old visit to answer into a new one. Three candidates with one
text are a duplicate within a call and one across calls and desktops; five requests
allow two extractions, two reviews and a list. The live call takes one utterance per
call and one chunk between them; a buffer of two drops a chunk; `MaxReconnect` 1 is one
reconnection and one giving up. `ContextSize` 1 suffices as no property of the run is
about the context. In `rule_sets` a set may start as pending, so that three requests
reach every later state; a lost log entry takes one append beside one reader. In
`desktop_audio` a quota of two files lets a third import be refused, and two slots hold the application's operation
beside a command, or two requests that save a token; three operations are enough for an
older answer to be saved over a newer one. `MaxAsks`, `MaxRuns`, `MaxTexts`, `MaxRequests`,
`MaxChunks`, `MaxBusy`, `MaxFailures`, `MaxRestarts`, `MaxStarted`, `MaxCrashes`,
`MaxVersion` and `MaxBytes` are the bounds of the counters they name; the last one is
the program's own limit.

Symmetry is used for jobs and runs, tokens and requests, handlers, and for slots,
assets and accounts, in runs without liveness and without ordering among the values;
members, desktops and calls are not symmetric, as they are seeded differently.

Why failures are off in one run: `LatestFollowsActive` is about the order of
successful operations, and a minute that cannot be restored after a failed audit
entry violates it trivially; `ClaimedJobEnds` needs a job file that can be
written. `PublishedSiblingsExclude` is stated for jobs alone, since a user may
legitimately make a parent active again between two jobs.

### Fairness

* `SttJobs!FairSpec`: weak fairness of every started run and user. Promises
  settle: a store operation ends, and so does the request to the provider. No
  user has to start anything, and no crash has to happen.
* `RecordingSession!FairSpec`: weak fairness of started starts and stops only.
  A diagnostic, the microphone and the updater need not ever do anything.
* `AudioCheckpoint!FairSpec`: weak fairness of the operations that are under way
  and of the end of a recording, and strong fairness of `BeginExpire`: the
  maintenance comes back every interval (`startCheckpointMaintenance`), and the
  lock, a promise chain, serves its waiters in order, so an expiry that is
  possible again and again is done. Failures are bounded, so an attempt
  eventually meets none.
* `CloudUpload!UploadFairness`: weak fairness of a PUT and a consumer that were
  started, strong fairness of a delivery: the queue delivers again what was not
  acknowledged, though a consumer may be busy in between. No client has to send
  anything. A worker that stops is not excused by fairness but by `stranded`.
* `MobileRecorder!RecorderSpec`: weak fairness of each step of an upload that was
  started: a request is answered or fails, polling has a deadline. Nobody has to press
  a button, and the cloud has to do nothing.
* `LiveCall!FairSpec`: weak fairness of a client's timers, of its connection attempts
  (an error, or the helper's timeout) and of disconnecting (the helper is given five
  seconds).
* `CloudAccounts`, `CompanyKnowledge`, `RuleSets` and `DesktopCloud` have no fairness:
  a request may be abandoned at every step, and nothing goes on after it.

### Disagreements found

Each of these is a behaviour of the model that follows the code step by step and
contradicts a property one would expect, often one the repository states. None is among
the runs of `PROJECT.json`; where a `.cfg` is named, running TLC on it by hand shows the
violation, otherwise the property is in the module and can be put into the `.cfg` of its
run.

Recordings and transcripts

* `MC_SttJobs_override.cfg`, `RunRespectsUser`: `tests/unit/local-transcript-store.test.ts:224`
  "rejects stale activation so a background job cannot override a user selection", but a
  revision the user chose while the job transcribed is its parent, and is overridden.
* `minutes.generate` (`ipc` 731-743) stores its minute as the latest one without looking at
  the active revision again: with a writer `LatestFollowsActive` does not hold, which is
  why `stt_user` has none.
* `MC_RecordingSession_orphan.cfg`, `EndStopsCapture`: a second, delayed stop of a
  diagnostic sets `realtimeAudioOwner` to `none` under a call, whose end then
  leaves the microphone captured (`ipc` 1299, 2960-2963, 3020).
* `MC_RecordingSession_install.cfg`, `InstallIsPrompt`: the listeners of the end of a call
  run before `callEndPromise` is reset, so that a deferred update is deferred again
  (`ipc` 2999-3003; `updater.ts:61-64`).
* `MC_AudioCheckpoint_retention.cfg`, `PendingIsAudited`: the manifest of the next flush
  overwrites a retention change made during the recording, with its pending audit entry
  (`audio-checkpoint-store.ts` 601-610; `docs/meetily-adoption-plan.md:92`).
* `MC_AudioCheckpoint_listing.cfg`, `ListingWorks`: one directory without a manifest, left by
  a crash, stops listing, recovery and expiry of all calls (`audio-checkpoint-store.ts:341`).

Live call

* `MC_LiveCall_stop.cfg`, `SttStopsWithCall`: "商談終了で…STT が停止する"
  (`docs/live-zoom-e2e-checklist.md:116`), but a client that sleeps before a reconnection
  connects again after `stop()` (`stt.ts` 79-92).
* `OverlayStartsWaiting`: "待機中" at the start of a call (checklist, line 47), but nothing
  resets the overlay between calls.
* `AnswerReachesOverlay`: the overlay lets the cancellation of a superseded run clear the
  objection of its successor (`overlay-state.ts:57`), and ignores the answer that follows;
  the control window shows it.
* `ContextIsOfTheCall` (with `ContextSize` 2): the context window is not emptied between calls.
* A flush loses the chunk whose send fails (`stt.ts` 102-108); attempts are counted afresh
  after each connection, so that a helper that reported an error and never exits would be
  reconnected to as long as audio comes (`ReconnectionSettles` holds because the chunks of a call are
  bounded, and each round takes one); a detection that fails after `onDetected` leaves the overlay
  generating; a dismissal cancels the active run whichever objection it names.

Accounts, cloud and phone

* `MC_CloudAccounts_stale.cfg`, `IssuedAsChecked`: a repeated invitation that read the
  membership before it was accepted takes it back to invited
  (`account-lifecycle.ts` 360-364). A member who is disabled before accepting and
  enabled afterwards is active without a credential.
* `MC_MobileRecorder_consent.cfg`, `RecordsOnlyWithConsent`: "cannot record without consent"
  (`recorder-machine.ts:86`), but the consent can be unticked while the microphone is being
  asked for; the recorder then starts and the reducer stays in `ready`.
* After a logout with an upload under way, its failure followed by a reset leads to `ready`
  without a session, and the answer of an earlier upload is shown as the result
  of the next visit.
* The client of the phone reads `sessionToken` from the answer of a login
  (`recorder-api.ts` 74-78); the worker answers `token` (`cloudflare/src/index.ts:860`,
  `auth.ts` 69-87). The tests of the phone answer `sessionToken` themselves
  (`tests/unit/recorder-api.test.ts:17`). `Login` models the client's side.
* `LoggedOutHoldsNoSession`: the button for a new password does not block the others
  (control `App.tsx` 1577-1593); a change that overlaps a logout saves its token after it.
* `MC_DesktopCloud_sessions.cfg`, `EverySessionGoesForward`: for the same reason a login may
  begin beside a password change, and the older of the two answers be saved last
  (`cloudflare-api.ts:118`): the application then holds a session that has ended.
* `UploadedIsAudited`: when the wait for an uploaded job fails, the call exists on the
  worker and no local audit entry names it (`ipc` 1383-1422).

Knowledge, rule sets, audio files

* `MC_CompanyKnowledge_supersede.cfg`, `NewestIsKept`: "旧revision候補のsupersede"
  (`docs/mvp-release-roadmap.md:130`), but pushing the pending candidates of an older
  minute supersedes those of the newer one (`ipc` 1945-1968).
* `SearchIsApproved`: "承認済みだけ検索対象" (line 127), but a local copy is found after its
  item was marked for revalidation in the cloud.
* Two reviewers of candidates with one content, the check of both before the batch of
  either, publish two items: `ReviewIsWhole` says what holds nevertheless.
* `AnswerIsKept`, `OneRevisionInForce` (two sets, four requests): two first reads at once lose
  a written rule set; an approved revision that was superseded can be activated again
  beside its successor. A truncated compliance or organization file is silently replaced by
  the defaults; a refused write stays in the cache; a change is in force before its audit
  entry; the only local administrator can give up the role.
* `MC_RuleSets_readers.cfg`, `EveryAnswerIsAudited`: the first read of the activity store by
  a handler that lists waits for no queue. It writes the log it read, if that was missing or
  of an older form, and assigns it to the cache, after an append that has answered: the
  entry is gone from the file, or with the next append (`local-activity-store.ts` 52,
  286-318).
* `ListedStaysListed` (without symmetry): the application and a command write the whole
  document back, so each may drop what the other imported, though `docs/cli.md:272` needs
  "no coordination". The command imports without an audit entry, and `minutes` without a
  call takes the last of a list that is newest first (`commands.ts:298`,
  `local-call-store.ts:59`).
* A refused `persist` leaves an encrypted file nobody lists, which counts against the quota;
  the clean-up removes readable copies older than six hours, leased or not.
* A refused removal of a readable copy is swallowed (`local-audio-asset-store.ts` 214, 218,
  396): it stays until that sweep. And a job that found its asset, but whose second read of
  the document misses it because another first read replaced the cache, leases the encrypted
  file as if it were plain (lines 182-189).

## 5. What is proved

All theorems hold for any values of the constants their modules' assumptions allow: any
sets of jobs, calls, members, handlers and faults, any bounds. Where a theorem needs
more, the hypothesis is in its statement and the reason is here. Each proof has an
inductive invariant, TLC-checked on an instance first, with one case per action. Two proof
modules are about two modules each: `CloudUpload_proofs` about the worker and the phone that
relies on it, `RecordingSession_proofs` about the session and `LiveCall`, what runs inside.

| Theorem | States | Holds if |
|---|---|---|
| `SttJobs_proofs` `RunTokenIsExclusive` | `NoDoubleRun` | always |
| `CancelExcludesPublishing` | `CancelledNeverPublished` | always |
| `CompletionIsComplete` | `CompletedIsPublished` | always |
| `TerminalStaysFinal` | `TerminalIsFinal` | always |
| `FailuresAreUndone` | `FailedIsNotLeftActive` | the job and the transcript store write |
| `SiblingsExclude` | `PublishedSiblingsExclude` | no user activates by hand |
| `LatestIsOfActive` | `LatestFollowsActive` | the activity store writes, no crash, no other writer |
| `CloudAccounts_proofs` `ChainStaysLinear` | `ChainIsLinear` | always |
| `EndingIsFinal` | `EndedStaysEnded` | always |
| `AdminStays` | `ActiveAdminRemains` | always |
| `TokensStayMatched` | `TokensMatchAccounts` | always |
| `CompletionsAreTrue` | `CompletedMeansRotated` | always |
| `CloudUpload_proofs` `UploadKeepsPromise` | `PromiseKept` | always |
| `DoneMeansTranscribed` | `ShownWasTranscribed` | the cloud keeps `UploadPromise` |
| `DesktopCloud_proofs` `AudioStaysGuarded` | `AudioIsGuarded` | always |
| `QuotaIsKept` | `StorageIsBounded` | always |
| `SessionMovesForward` | `SessionGoesForward` | always (the property excepts a login beside a password change) |
| `RecordingSession_proofs` `OneCallIsOpen` | `OneOpenCall` | always |
| `RecordedAudioSurvives` | `AudioSurvives` | `OneStopper` |
| `CapturesAreAudited` | part of `CaptureIsCovered` | always |
| `DeferredStaysArmed` | part of `UpdaterIsSound` | always |
| `NothingKeepsRunning` | `NothingRunsWhenQuiet` | `OneStopper` |
| `CallsAreCovered` | `CaptureIsCovered` | `OneStopper` |
| `UpdatesWait` | `UpdaterIsSound` | `OneStopper` |
| `CallEndsSilence` | `EndStopsCapture` | `OneStopper` |
| `AnswersAreUnderTheirObjection` | `AnswerFitsObjection` | always |
| `AudioIsOfItsCall` | `AudioStaysInItsCall` | always |
| `AudioCheckpoint_proofs` `RemovalsAreAudited` | `RemovalIsAudited` | always |
| `LoggedRetentionIsKept` | `LoggedRetentionApplies` | no retention change while recording |
| `PendingEntriesAreKept` | `PendingIsAudited` | no retention change while recording |
| `CheckpointedAudioIsKept` | `NoAudioLost` | `Races = {}` |
| `RecoveriesAreWhole` | `RecoveryIsWhole` | `Races = {}` |
| `CompanyKnowledge_proofs` `ReviewsAreWhole` | `ReviewIsWhole` | always |
| `DecisionsAreFinal` | `DecisionIsFinal` | always |
| `DesktopsFollow` | `LocalFollowsCloud` | always |
| `RuleSets_proofs` `InForceIsReviewed` | `InForceWasReviewed` | always |
| `AnswersAreAudited` | `AnsweredIsAudited` | always (the property excepts entries written while a listing handler made the first read) |

The types of `SttJobs`, `CloudAccounts`, `CloudUpload` and `RecordingSession` are theorems
of their own (`TypeCorrect`, `AccountsTyped`, `UploadTypes`); elsewhere the typing is a
conjunct of the invariant.

### SttJobs_proofs

`IInv` adds to `TypeOK` what a run knows at each of its labels (`RunKnows`): from the
activation on it holds its token with progress 90, which `requestCancel` refuses, so a job
with a published revision cannot become cancelled (`PublishedIsLate`); and revision, minute
and audit entry accumulate in the order of the code, which gives `CompletedIsPublished`.
`NoDoubleRun` needs to know which job a run works for; `TerminalStaysFinal` follows because
a run that marks its job holds its token, and the job is therefore running.

Three properties are not true of the code under every failure. Each hypothesis holds in
the run that checks the property:

* `FailuresAreUndone`: a job whose revision its run made active is completed,
  interrupted, or its run is still at work to complete or undo (`ActivationIsWatched`). If
  the job store refuses the completion and the transcript store the undo, the revision
  stays active and the job is failed.
* `SiblingsExclude`: every active revision is a leaf of the revisions in force
  (`ActiveIsLeaf`), so only one of two jobs with the same base finds it active. A user may
  go back to the base, and then the second job rightly completes too.
* `LatestIsOfActive`: the last pending `setLatest` of the activity queue is for the active
  revision (`LatestIsOnItsWay`). A refused write, a crash with a queue in memory or a
  `minutes.generate` of an older revision leave another minute the latest.

### CloudAccounts_proofs

`IInv` adds that requests and tokens name members (`WellAddressed`), that the head a
request has read is the number of an entry (`HeadsExist`), and that nothing was ended for a
member without a credential (`VersionsGrow`). `HeadsExist` is why the index is enough: the
number after a head that exists is free only if the head is still the last entry. The
actions are split into those that only change the record of their request (`Reads`) and
those that write (`Writes`). `AdminStays` rests on the condition inside the UPDATE: more
than one active administrator means that there is one besides the member disabled.

`Matching` says of every request what it will find when it writes (`Knows`), of every
member which token the account waits for (`Awaits`, `Matched`), except for the members
`overtaken` in the middle of a request, which the properties leave out for the same reason.
`CompletionsAreTrue` rests on what no step takes back (`Kept`): versions grow, tokens that
were claimed stay claimed.

### CloudUpload_proofs

The refinement needs to know at each step what was stored before it: a message is sent
only for rows that exist, an answer given only after the message, a job completed only
after its transcript. `UploadInv` says so of the database (`Stored`: audio, then rows, then
message), of the requests (`Requests`) and of the consumers (`Deliveries`). It is inductive
because nothing is ever removed: another worker can repeat a step, not take it back. Then
every step is one of the abstract actions or a stutter (`NextPromise`); `SetRunning` and
`MarkFailed` on a completed job map to `TakeUpAgain`.

`DoneMeansTranscribed` is about the phone over `UploadPromise` alone, which is what the
first theorem makes of the worker. `Trust` says that whatever the phone holds of a visit,
shown, saved or in an answer under way, is no more than the promise has done for it, and
that the promise takes no transcript back.

### DesktopCloud_proofs

Two processes write the document and neither sees the cache of the other, so what an
operation holds may be old and may even have another key than the one on disk. `GuardInv`
therefore says of every copy of the document, on disk, in a cache or in hand, that it is
whole: it lists only files that were written under its own key (`Documents`). It is
inductive because no action removes a file, so whichever copy is written over the other is
a whole one. `Operations` adds that the file of an import exists before its entry is
written, and which steps each kind of operation may be at.

`QuotaIsKept`: one import at a time has the turn of `mutationQueue` (`Turns`), and the room
it measured is kept for the file it writes, a torn one included (`Budget`). The quota is
that of the application, as in the property: the command has its own queue and its own
measure.

`SessionMovesForward` needs to know who may be saving a token (`SessionInv`). A login or a
redeemed link is `Alone`: `cloudflareAuthPending` keeps the others away, and `beside` says
that no password change was under way when it began. Several password changes may overlap,
but they carry the session's version and the worker's UPDATE accepts that version once, so
of those that were answered one is newer than whatever the others carry (`Newest`).

### RecordingSession_proofs

The invariant has three layers. `Order` needs nothing: the promises `recordingStartPromise`,
`callEndPromise` and `diagnosticStartPromise` and the session state keep all but one caller
from being in the middle of something, so what a handler read before an await still holds
after it (`Knows`). It gives the one open call, the audited capture and the armed timer of
the updater, however stops of a diagnostic interleave.

`Served` says what runs at each label of a handler and which sink and context a call has.
It needs `OneStopper`, that no two stops of a diagnostic overlap, because the code has no
promise for them: a second stop that was delayed resets the owner of a call that started
meanwhile (`ipc/index.ts:1299`), whose end then skips the native stop. With two stops TLC
violates `EndStopsCapture` that way (`MC_RecordingSession_orphan.cfg`); the run
`session_calls` has one, and the hazard is listed.

`Sinks` rests on both: where a handler stands after its sink was emptied, nothing captures
for it any more (`Emptied`), so the chunk count that `getSummary` returned is still zero
when the directory is removed, two awaits later, and a call whose drain failed is not
finalized. A sink of a call that does not exist yet is empty (`NewIsEmpty`).

The last part is about what runs inside a call, `LiveCall`, for any calls, utterances and messages under way.
`AnswersInv` says what the control window will be showing when it comes to each message of
its inbox: an answer is only sent after the objection it belongs to, and nothing that
replaces the objection is between the two unless the answer is of the later one. `Audio`
says that what a client has heard followed by what it still buffers is one rising sequence
in the order of capture, of chunks of its own call, whatever reconnects and whatever is
dropped, and that a transcript is owed by the client whose call it is stored under.

### AudioCheckpoint_proofs

`Control` says where the session and the manager may be and what they hold in hand, and is
inductive whatever races; a removal comes only from the steps after the audit entry.

The other four properties need that one process at a time works with the manifest, and no
lock ensures it: the manager's operations are serialized with each other, the session's are
not with them. `Phases` and `Calm` say how far the order of a recording ensures it.
`Retention` holds if the retention is not changed during the recording, and without that
TLC violates `PendingIsAudited`. `Audio` also needs that the manager leaves the checkpoint
of a starting or recording call alone (`Races = {}`): whoever writes a manifest has then
read the one on disk, however often it is interrupted and repeated. The run that checks
`NoAudioLost` has the same setting, so the theorem assumes nothing the run does not.

### CompanyKnowledge_proofs

What a request found out before its batch may be stale. `Informed` names the exceptions the
batch relies on: whether a candidate is blocked never changes, an item found as a duplicate
may need a review but never disappears, and the status is read again by the claim. `Final`
says what no step takes back; so a desktop that works from a decision, or lists one, may be
late and still follows the cloud.

### RuleSets_proofs

Handlers, cache and file hold different documents, and overwriting has no queue. So
`CopiesAreReviewed` says of each copy by itself, the cache, the file and what a handler will
write, that it is reviewed or `Broken`; nobody has to know which copy wins.
`AnswersAreAudited` uses the queue of the activity store: whoever appends is at the head of
it (`LogIsQueued`). A first read outside the queue may replace the file or the cache by an
older log all the same, so again each copy is asked by itself: the file, the cache, what a
handler has read and what it is about to write hold every entry that was promised (`Knows`,
`GoodWriter`). An entry is promised only if no such read was under way when it was renamed
into the file, so every read that comes later finds it.

## 6. What is only model-checked

* Liveness: `ClaimedJobEnds`, `HandlersReturn`, `ExpiredIsRemoved`, `AnsweredEnds`,
  `UploadEnds`, `ReconnectionSettles`. The prover does not reason about fairness and ENABLED.
* The theorems with a hypothesis say nothing without it. Each hypothesis excludes behaviours
  of the code, named above, in which the property fails or, for `Races` other than
  "retain", may fail; the runs have the same settings.
* That the model follows the code is read, not proved.
* One call at a time in `SttJobs` and `AudioCheckpoint`: their stores keep records
  of different calls apart, except for the one latest minute and the one listing.

## 7. Not modelled

* Views: what the windows draw, the layers of the overlay, the tables of the call library.
  Some of their handlers apply an answer without checking that the call it belongs to is
  still selected (`CallLibrary.tsx` 80-148, 165-168); nothing but the view depends on it.
* Language models, prompts, guardrails, the evaluation of compliance rules and the search
  services: stateless; a call that fails is a failing step of its caller. Which text they
  return is left open everywhere.
* `src/main/machines/objection-pipeline.machine.ts` is used by its unit test only.
* Native code behind one controller and one callback; bootstrap, preload and windows;
  parsing and formatting, such as the schemas of `src/shared` and the routing of the
  worker; byte quotas and encryption of the checkpoint.
* `cloudflare/worker-configuration.d.ts`, some 14 500 generated lines of declarations, has
  no behaviour.
* Login lockout, organizations of one tenant and the bootstrap of the first credential in
  the worker; the development mock call; the unlocked first load of the job store; the
  one-time adoption of legacy knowledge entries and analyses.
* The other commands of the command line start one operation and exit. `record start`
  exits its process right after the start (`cli/index.ts` 267-273), and `record stop` in a
  process of its own has nothing to stop.
