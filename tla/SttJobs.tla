------------------------------ MODULE SttJobs ------------------------------
(***************************************************************************)
(* The speech-to-text jobs of one call: AudioSttJobRunner, the job store,  *)
(* the transcript-revision store and the activity store (minutes, audit),  *)
(* together with the IPC handlers that race with the runner: cancelling,   *)
(* retrying, activating a revision by hand and regenerating the minute.    *)
(*                                                                         *)
(* A revision is named after the job that committed it (commitRevision     *)
(* keeps one revision per sttJobId); Live is the original revision.  The   *)
(* operations of a store run one at a time (its mutationQueue), so each is *)
(* one atomic step.  The order in which operations that are already queued *)
(* at the activity store run is kept in activityQueue: an activation       *)
(* queues its setLatestMeetingMinute in the same turn of the event loop.   *)
(***************************************************************************)
EXTENDS Undefined, Naturals, Sequences

CONSTANTS
    Jobs,      \* job ids
    Runs,      \* runTokens: the invocations of AudioSttJobRunner.run
    Users,     \* invocations of the transcripts.activateRevision handler
    Writers,   \* invocations of the minutes.generate handler
    Live,      \* the call's original (live) revision
    Faults     \* what may fail: "jobs", "transcripts", "activity", "crash"

ASSUME SttAssumption ==
    /\ Live \notin Jobs
    /\ None \notin Jobs \cup Runs \cup Users \cup Writers \cup {Live}
    /\ Runs \cap Users = {} /\ Runs \cap Writers = {} /\ Users \cap Writers = {}
    /\ Faults \subseteq {"jobs", "transcripts", "activity", "crash"}

VARIABLES
    status,        \* local-stt-jobs.json, per job
    runToken,
    progress,      \* progressPercent while running, 0 otherwise (nothing reads it then)
    resultOf,      \* transcriptRevisionId
    interrupted,   \* the job failed because the app stopped under it
    parent,        \* local-transcripts.json: parentRevisionId, None if not committed
    active,        \* activeRevisionByCallId
    minutes,       \* local-activity.json: revisions that have a minute
    latest,        \* revision of latestMeetingMinute
    audited,       \* revisions with a transcript.revision_activated entry
    activityQueue, \* handlers whose operation waits in the activity store
    pc,            \* where each handler is; the next four are its locals
    subject,       \* the job claimed, the revision to activate or to summarise
    current,       \* user: the active revision when the handler read it
    prevMinute,    \* the minute to restore when the audit fails
    aborted,       \* runs whose AbortController was aborted
    activator,     \* history: who made the active revision active
    published,     \* history: jobs whose own run activated their revision
    overtaken      \* history: live runs during which a user changed the active revision

jobVars == <<status, runToken, progress, resultOf, interrupted>>
transcriptVars == <<parent, active>>
activityVars == <<minutes, latest, audited, activityQueue>>
locals == <<subject, current, prevMinute, aborted, overtaken>>
history == <<activator, published>>
vars == <<jobVars, transcriptVars, activityVars, pc, locals, history>>

Revisions == Jobs \cup {Live}
Handlers == Runs \cup Users \cup Writers
Statuses == {"absent", "queued", "running", "completed", "failed", "cancelled"}
Terminal == {"completed", "failed", "cancelled"}
Labels == {"idle", "prepare", "transcribe", "transcribed", "commit", "committed", "ready",
           "reported", "activate", "setLatest", "audit", "restoreMinute", "rollback",
           "complete", "failWithRevision", "fail", "done", "generate", "select"}
Finished == {"idle", "done"}

\* A revision exists: it was committed, or the live one was created with the first
\* activeRevisionByCallId entry.
Exists(v) == IF v = Live THEN active # None ELSE parent[v] # None

\* findJobOrThrow found the job cancelled: the store returns it unchanged.
Cancelled(r) == status[subject[r]] = "cancelled"
\* assertRunningToken.
HoldsToken(r) == status[subject[r]] = "running" /\ runToken[subject[r]] = r
\* The job leaves the running state: no token, and its progress is not read any more.
Release(j) ==
    /\ runToken' = [runToken EXCEPT ![j] = None]
    /\ progress' = [progress EXCEPT ![j] = 0]

Goto(h, label) == pc' = [pc EXCEPT ![h] = label] /\ UNCHANGED locals
\* The handler returns or throws: its locals are gone.
Return(h) ==
    /\ pc' = [pc EXCEPT ![h] = IF h \in Runs THEN "done" ELSE "idle"]
    /\ subject' = [subject EXCEPT ![h] = None]
    /\ current' = [current EXCEPT ![h] = None]
    /\ prevMinute' = [prevMinute EXCEPT ![h] = None]
    /\ aborted' = aborted \ {h}
    /\ overtaken' = overtaken \ {h}

\* The operation at the head of the activity store's mutationQueue is h's.
AtHead(h) == activityQueue # <<>> /\ Head(activityQueue) = h
Enqueue(h) == activityQueue' = Append(activityQueue, h)
Dequeue == activityQueue' = Tail(activityQueue)
\* h's operation is over and the handler queues its next one at once.
Requeue(h) == activityQueue' = Append(Tail(activityQueue), h)
MinuteOf(v) == IF v \in minutes THEN v ELSE None

Init ==
    /\ status = [j \in Jobs |-> "absent"]
    /\ runToken = [j \in Jobs |-> None]
    /\ progress = [j \in Jobs |-> 0]
    /\ resultOf = [j \in Jobs |-> None]
    /\ interrupted = [j \in Jobs |-> FALSE]
    /\ parent = [j \in Jobs |-> None]
    /\ active = None
    /\ minutes = {} /\ latest = None /\ audited = {} /\ activityQueue = <<>>
    /\ pc = [h \in Handlers |-> "idle"]
    /\ subject = [h \in Handlers |-> None]
    /\ current = [h \in Handlers |-> None]
    /\ prevMinute = [h \in Handlers |-> None]
    /\ aborted = {} /\ overtaken = {}
    /\ activator = "none" /\ published = {}

-----------------------------------------------------------------------------
(* The job store outside a run. *)

\* createQueuedJob: a new job has no token, no progress and no result.
QueueNew(j) ==
    /\ status[j] = "absent"
    /\ status' = [status EXCEPT ![j] = "queued"]
    /\ UNCHANGED <<runToken, progress, resultOf, interrupted, transcriptVars, activityVars,
                   pc, locals, history>>

\* createAudioSttJob: the job is stored; its audit entry (stt_job.created) is not one of
\* those the properties follow.
CreateJob(j) == QueueNew(j)

\* retryJob leaves the terminal source alone and queues a new job.
RetryJob(source, j) ==
    /\ status[source] \in Terminal
    /\ QueueNew(j)

\* Mutant: cancelling stays possible after activation-ready progress.
RequestCancelLate(j) ==
    /\ status[j] \in {"queued", "running"}
    /\ status' = [status EXCEPT ![j] = "cancelled"]
    /\ Release(j)
    /\ aborted' = aborted \cup {r \in Runs : subject[r] = j}
    /\ UNCHANGED <<resultOf, interrupted, transcriptVars, activityVars,
                   pc, subject, current, prevMinute, overtaken, history>>

\* cancel: requestCancel, then the AbortController of the job's run.
RequestCancel(j) ==
    /\ \/ status[j] = "queued"
       \/ status[j] = "running" /\ progress[j] < 90
    /\ status' = [status EXCEPT ![j] = "cancelled"]
    /\ Release(j)
    /\ aborted' = aborted \cup {r \in Runs : subject[r] = j}
    /\ UNCHANGED <<resultOf, interrupted, transcriptVars, activityVars,
                   pc, subject, current, prevMinute, overtaken, history>>

-----------------------------------------------------------------------------
(* AudioSttJobRunner.run *)

\* Mutant: a job that is already running is claimed again.
ClaimRunning(r, j) ==
    /\ pc[r] = "idle"
    /\ status[j] \in {"queued", "running"}
    /\ status' = [status EXCEPT ![j] = "running"]
    /\ runToken' = [runToken EXCEPT ![j] = r]
    /\ progress' = [progress EXCEPT ![j] = 10]
    /\ subject' = [subject EXCEPT ![r] = j]
    /\ pc' = [pc EXCEPT ![r] = "prepare"]
    /\ UNCHANGED <<resultOf, interrupted, transcriptVars, activityVars,
                   current, prevMinute, aborted, overtaken, history>>

\* Mutant: the job id is stored where the token belongs.
ClaimSwapped(r, j) ==
    /\ pc[r] = "idle"
    /\ status[j] = "queued"
    /\ status' = [status EXCEPT ![j] = "running"]
    /\ runToken' = [runToken EXCEPT ![j] = j]
    /\ progress' = [progress EXCEPT ![j] = 10]
    /\ subject' = [subject EXCEPT ![r] = j]
    /\ pc' = [pc EXCEPT ![r] = "prepare"]
    /\ UNCHANGED <<resultOf, interrupted, transcriptVars, activityVars,
                   current, prevMinute, aborted, overtaken, history>>

ClaimQueued(r, j) ==
    /\ pc[r] = "idle"
    /\ status[j] = "queued"
    /\ status' = [status EXCEPT ![j] = "running"]
    /\ runToken' = [runToken EXCEPT ![j] = r]
    /\ progress' = [progress EXCEPT ![j] = 10]
    /\ subject' = [subject EXCEPT ![r] = j]
    /\ pc' = [pc EXCEPT ![r] = "prepare"]
    /\ UNCHANGED <<resultOf, interrupted, transcriptVars, activityVars,
                   current, prevMinute, aborted, overtaken, history>>

\* updateProgress followed by throwIfAborted: the run stops if the job was cancelled,
\* goes on if it still holds the token and fails otherwise.
UpdateProgress(r, from, percent, next) ==
    /\ pc[r] = from
    /\ \/ Cancelled(r) /\ Return(r) /\ UNCHANGED progress
       \/ /\ HoldsToken(r)
          /\ progress' = [progress EXCEPT ![subject[r]] = percent]
          /\ Goto(r, IF r \in aborted THEN "fail" ELSE next)
       \/ "jobs" \in Faults /\ ~Cancelled(r) /\ Goto(r, "fail") /\ UNCHANGED progress
    /\ UNCHANGED <<status, runToken, resultOf, interrupted, transcriptVars, activityVars, history>>

Prepare(r) == UpdateProgress(r, "prepare", 25, "transcribe")
AfterTranscribe(r) == UpdateProgress(r, "transcribed", 70, "commit")
AfterCommit(r) == UpdateProgress(r, "committed", 85, "ready")
AfterReady(r) == UpdateProgress(r, "reported", 90, "activate")

\* The asset is missing, the provider the job names is not there any more, or it answers
\* or fails (an abort makes it fail).
RunStep(r, from, next) ==
    /\ pc[r] = from
    /\ Goto(r, next)
    /\ UNCHANGED <<jobVars, transcriptVars, activityVars, history>>

AssetMissing(r) == RunStep(r, "prepare", "fail")
ProviderMissing(r) == RunStep(r, "transcribe", "fail")
Transcribe(r) == RunStep(r, "transcribe", "transcribed")
TranscribeFails(r) == RunStep(r, "transcribe", "fail")

\* ensureLiveOriginalRevision: a call without any revision first gets its live one.
Base == IF active = None THEN Live ELSE active

\* commitRevision: the parent is the revision active at that moment.
CommitRevision(r) ==
    LET j == subject[r]
    IN  /\ pc[r] = "commit"
        /\ \/ /\ IF parent[j] # None
                 THEN UNCHANGED transcriptVars
                 ELSE /\ parent' = [parent EXCEPT ![j] = Base]
                      /\ active' = Base
              /\ Goto(r, "committed")
           \/ "transcripts" \in Faults /\ Goto(r, "fail") /\ UNCHANGED transcriptVars
        /\ UNCHANGED <<jobVars, activityVars, history>>

\* handleRevisionReadyAudioSttJob: the minute is stored first, then its audit entries.
RevisionReady(r) ==
    /\ pc[r] = "ready"
    /\ \/ minutes' = minutes \cup {subject[r]} /\ Goto(r, "reported")
       \/ /\ "activity" \in Faults
          /\ minutes' \in {minutes, minutes \cup {subject[r]}}
          /\ Goto(r, "failWithRevision")
    /\ UNCHANGED <<jobVars, transcriptVars, latest, audited, activityQueue, history>>

\* Mutant: activateRevision without the expected revision.
ActivateUnchecked(r) ==
    LET j == subject[r]
    IN  /\ pc[r] = "activate"
        /\ active' = j
        /\ activator' = "run"
        /\ published' = published \cup {j}
        /\ prevMinute' = [prevMinute EXCEPT ![r] = MinuteOf(parent[j])]
        /\ Enqueue(r)
        /\ pc' = [pc EXCEPT ![r] = "setLatest"]
        /\ UNCHANGED <<jobVars, parent, minutes, latest, audited, subject, current, aborted,
                       overtaken>>

\* activateRevision with the parent as the expected revision.  On success
\* handleActivatedAudioSttJob queues setLatestMeetingMinute.
Activate(r) ==
    LET j == subject[r]
    IN  /\ pc[r] = "activate"
        /\ \/ /\ active = parent[j]
              /\ active' = j
              /\ activator' = "run"
              /\ published' = published \cup {j}
              /\ prevMinute' = [prevMinute EXCEPT ![r] = MinuteOf(parent[j])]
              /\ Enqueue(r)
              /\ pc' = [pc EXCEPT ![r] = "setLatest"]
              /\ UNCHANGED <<subject, current, aborted, overtaken>>
           \/ /\ active # parent[j] \/ "transcripts" \in Faults
              /\ Goto(r, "fail")
              /\ UNCHANGED <<active, activator, published, activityQueue>>
        /\ UNCHANGED <<jobVars, parent, minutes, latest, audited>>

\* Mutant: the activation forgets the latest minute.
SetLatestForgotten(r) ==
    /\ pc[r] = "setLatest" /\ AtHead(r)
    /\ Requeue(r) /\ Goto(r, "audit")
    /\ UNCHANGED <<jobVars, transcriptVars, minutes, latest, audited, history>>

\* handleActivatedAudioSttJob: latestMeetingMinute, then the audit entry; if the entry
\* cannot be written the parent's minute, where it has one, becomes the latest again.
SetLatest(r) ==
    /\ pc[r] = "setLatest" /\ AtHead(r)
    /\ \/ latest' = subject[r] /\ Requeue(r) /\ Goto(r, "audit")
       \/ "activity" \in Faults /\ Dequeue /\ Goto(r, "rollback") /\ UNCHANGED latest
    /\ UNCHANGED <<jobVars, transcriptVars, minutes, audited, history>>

\* Mutant: an error of the audit log is swallowed.
AuditBestEffort(r) ==
    /\ pc[r] = "audit" /\ AtHead(r)
    /\ \/ audited' = audited \cup {subject[r]}
       \/ "activity" \in Faults /\ UNCHANGED audited
    /\ Dequeue /\ Goto(r, "complete")
    /\ UNCHANGED <<jobVars, transcriptVars, minutes, latest, history>>

AuditActivated(r) ==
    /\ pc[r] = "audit" /\ AtHead(r)
    /\ \/ audited' = audited \cup {subject[r]} /\ Dequeue /\ Goto(r, "complete")
       \/ /\ "activity" \in Faults
          /\ IF prevMinute[r] # None
             THEN Requeue(r) /\ Goto(r, "restoreMinute")
             ELSE Dequeue /\ Goto(r, "rollback")
          /\ UNCHANGED audited
    /\ UNCHANGED <<jobVars, transcriptVars, minutes, latest, history>>

\* Restoring may fail too; either way the run goes on to undo its activation.
RestoreMinute(r) ==
    /\ pc[r] = "restoreMinute" /\ AtHead(r)
    /\ latest' \in {latest, prevMinute[r]}
    /\ Dequeue /\ Goto(r, "rollback")
    /\ UNCHANGED <<jobVars, transcriptVars, minutes, audited, history>>

\* Mutant: the activation is only undone when there is a minute to go back to.
RollbackWithMinute(r) ==
    LET j == subject[r]
    IN  /\ pc[r] = "rollback"
        /\ \/ /\ active = j /\ prevMinute[r] # None
              /\ active' = parent[j] /\ activator' = "rollback"
              /\ Goto(r, "failWithRevision")
           \/ /\ active # j \/ prevMinute[r] = None
              /\ Goto(r, "fail")
              /\ UNCHANGED <<active, activator>>
        /\ UNCHANGED <<jobVars, parent, activityVars, published>>

\* The catch of onActivated: back to the parent if the revision is still the active one.
Rollback(r) ==
    LET j == subject[r]
    IN  /\ pc[r] = "rollback"
        /\ \/ /\ active = j
              /\ active' = parent[j] /\ activator' = "rollback"
              /\ Goto(r, "failWithRevision")
           \/ /\ active # j \/ "transcripts" \in Faults
              /\ Goto(r, "fail")
              /\ UNCHANGED <<active, activator>>
        /\ UNCHANGED <<jobVars, parent, activityVars, published>>

CompleteJob(r) ==
    LET j == subject[r]
    IN  /\ pc[r] = "complete"
        /\ \/ /\ HoldsToken(r)
              /\ status' = [status EXCEPT ![j] = "completed"]
              /\ resultOf' = [resultOf EXCEPT ![j] = j]
              /\ Release(j)
              /\ Return(r)
           \/ /\ "jobs" \in Faults
              /\ Goto(r, "fail")
              /\ UNCHANGED <<status, runToken, progress, resultOf>>
        /\ UNCHANGED <<interrupted, transcriptVars, activityVars, history>>

\* Mutant: failJob without the check for a cancelled job.
MarkFailedAlways(r, revision) ==
    LET j == subject[r]
    IN  /\ status' = [status EXCEPT ![j] = "failed"]
        /\ resultOf' = [resultOf EXCEPT ![j] = IF revision = None THEN @ ELSE revision]
        /\ Release(j)

\* failJob: a cancelled job is returned unchanged.
MarkFailed(r, revision) ==
    LET j == subject[r]
    IN  \/ Cancelled(r) /\ UNCHANGED <<status, runToken, progress, resultOf>>
        \/ /\ HoldsToken(r)
           /\ status' = [status EXCEPT ![j] = "failed"]
           /\ resultOf' = [resultOf EXCEPT ![j] = IF revision = None THEN @ ELSE revision]
           /\ Release(j)

\* The failJob of an inner catch names the revision; when it throws, the outer catch calls
\* failJob again, and when that throws the run is rejected.
FailWithRevision(r) ==
    /\ pc[r] = "failWithRevision"
    /\ \/ MarkFailed(r, subject[r]) /\ Return(r)
       \/ /\ "jobs" \in Faults
          /\ Goto(r, "fail")
          /\ UNCHANGED <<status, runToken, progress, resultOf>>
    /\ UNCHANGED <<interrupted, transcriptVars, activityVars, history>>

\* Mutant: the outer catch returns without telling the job store.
FailSilently(r) ==
    /\ pc[r] = "fail"
    /\ Return(r)
    /\ UNCHANGED <<jobVars, transcriptVars, activityVars, history>>

Fail(r) ==
    /\ pc[r] = "fail"
    /\ \/ MarkFailed(r, None)
       \/ "jobs" \in Faults /\ UNCHANGED <<status, runToken, progress, resultOf>>
    /\ Return(r)
    /\ UNCHANGED <<interrupted, transcriptVars, activityVars, history>>

Run(r) ==
    \/ \E j \in Jobs : ClaimQueued(r, j)
    \/ AssetMissing(r) \/ Prepare(r)
    \/ ProviderMissing(r) \/ Transcribe(r) \/ TranscribeFails(r) \/ AfterTranscribe(r)
    \/ CommitRevision(r) \/ AfterCommit(r)
    \/ RevisionReady(r) \/ AfterReady(r)
    \/ Activate(r) \/ SetLatest(r) \/ AuditActivated(r) \/ RestoreMinute(r) \/ Rollback(r)
    \/ CompleteJob(r) \/ FailWithRevision(r) \/ Fail(r)

-----------------------------------------------------------------------------
(* The transcripts.activateRevision handler. *)

\* listRevisions: what is active now, and its minute in case it must come back.
SelectRevision(u, v) ==
    /\ pc[u] = "idle"
    /\ Exists(v)
    /\ subject' = [subject EXCEPT ![u] = v]
    /\ current' = [current EXCEPT ![u] = active]
    /\ prevMinute' = [prevMinute EXCEPT ![u] = MinuteOf(active)]
    /\ pc' = [pc EXCEPT ![u] = "generate"]
    /\ UNCHANGED <<jobVars, transcriptVars, activityVars, aborted, overtaken, history>>

\* generateMeetingMinuteForCall with setAsLatest false.
UserGenerate(u) ==
    /\ pc[u] = "generate"
    /\ \/ minutes' = minutes \cup {subject[u]} /\ Goto(u, "select")
       \/ /\ "activity" \in Faults
          /\ minutes' \in {minutes, minutes \cup {subject[u]}}
          /\ Return(u)
    /\ UNCHANGED <<jobVars, transcriptVars, latest, audited, activityQueue, history>>

UserActivate(u) ==
    /\ pc[u] = "select"
    /\ \/ /\ active = current[u]
          /\ active' = subject[u]
          /\ activator' = "user"
          /\ overtaken' = IF subject[u] = active THEN overtaken
                          ELSE {r \in Runs : pc[r] \notin Finished}
          /\ Enqueue(u)
          /\ pc' = [pc EXCEPT ![u] = "setLatest"]
          /\ UNCHANGED <<subject, current, prevMinute, aborted>>
       \/ /\ active # current[u] \/ "transcripts" \in Faults
          /\ Return(u)
          /\ UNCHANGED <<active, activator, activityQueue>>
    /\ UNCHANGED <<jobVars, parent, minutes, latest, audited, published>>

UserSetLatest(u) ==
    /\ pc[u] = "setLatest" /\ AtHead(u)
    /\ \/ latest' = subject[u] /\ Requeue(u) /\ Goto(u, "audit")
       \/ "activity" \in Faults /\ Dequeue /\ Goto(u, "rollback") /\ UNCHANGED latest
    /\ UNCHANGED <<jobVars, transcriptVars, minutes, audited, history>>

UserAudit(u) ==
    /\ pc[u] = "audit" /\ AtHead(u)
    /\ \/ audited' = audited \cup {subject[u]} /\ Return(u)
       \/ "activity" \in Faults /\ Goto(u, "rollback") /\ UNCHANGED audited
    /\ Dequeue
    /\ UNCHANGED <<jobVars, transcriptVars, minutes, latest, history>>

\* The handler's catch: if the revision cannot be put back the minute stays as it is.
UserRollback(u) ==
    /\ pc[u] = "rollback"
    /\ \/ /\ active = subject[u]
          /\ active' = current[u] /\ activator' = "rollback"
          /\ IF prevMinute[u] # None
             THEN Enqueue(u) /\ Goto(u, "restoreMinute")
             ELSE Return(u) /\ UNCHANGED activityQueue
       \/ /\ active # subject[u] \/ "transcripts" \in Faults
          /\ Return(u)
          /\ UNCHANGED <<active, activator, activityQueue>>
    /\ UNCHANGED <<jobVars, parent, minutes, latest, audited, published>>

UserRestore(u) ==
    /\ pc[u] = "restoreMinute" /\ AtHead(u)
    /\ latest' \in {latest, prevMinute[u]}
    /\ Dequeue /\ Return(u)
    /\ UNCHANGED <<jobVars, transcriptVars, minutes, audited, history>>

User(u) ==
    \/ \E v \in Revisions : SelectRevision(u, v)
    \/ UserGenerate(u) \/ UserActivate(u) \/ UserSetLatest(u) \/ UserAudit(u)
    \/ UserRollback(u) \/ UserRestore(u)

-----------------------------------------------------------------------------
(* The minutes.generate handler, transcription during the call, restarts. *)

\* getActiveTranscriptRevisionId, then the language model is asked.
GenerateStart(w) ==
    /\ pc[w] = "idle"
    /\ active # None
    /\ subject' = [subject EXCEPT ![w] = active]
    /\ pc' = [pc EXCEPT ![w] = "generate"]
    /\ UNCHANGED <<jobVars, transcriptVars, activityVars, current, prevMinute, aborted,
                   overtaken, history>>

\* setMeetingAnalysis with setAsLatest left out: the minute becomes the latest one.
GenerateFinish(w) ==
    /\ pc[w] = "generate"
    /\ minutes' = minutes \cup {subject[w]}
    /\ latest' = subject[w]
    /\ Return(w)
    /\ UNCHANGED <<jobVars, transcriptVars, audited, activityQueue, history>>

\* appendTranscript: the first segment creates and activates the live revision.
AppendTranscript ==
    /\ active = None
    /\ active' = Base
    /\ UNCHANGED <<jobVars, parent, activityVars, pc, locals, history>>

\* The app stops and starts again: the handlers are gone, the stores are as they were
\* persisted, and reconcileInterruptedRunningJobs fails the jobs left running.
Restart ==
    LET lost == {j \in Jobs : status[j] = "running"}
    IN  /\ "crash" \in Faults
        /\ \E h \in Handlers : pc[h] \notin Finished
        /\ status' = [j \in Jobs |-> IF j \in lost THEN "failed" ELSE status[j]]
        /\ runToken' = [j \in Jobs |-> IF j \in lost THEN None ELSE runToken[j]]
        /\ progress' = [j \in Jobs |-> IF j \in lost THEN 0 ELSE progress[j]]
        /\ interrupted' = [j \in Jobs |-> interrupted[j] \/ j \in lost]
        /\ activityQueue' = <<>>
        /\ pc' = [h \in Handlers |-> IF h \in Runs /\ pc[h] # "idle" THEN "done" ELSE "idle"]
        /\ subject' = [h \in Handlers |-> None]
        /\ current' = [h \in Handlers |-> None]
        /\ prevMinute' = [h \in Handlers |-> None]
        /\ aborted' = {} /\ overtaken' = {}
        /\ UNCHANGED <<resultOf, transcriptVars, minutes, latest, audited, history>>

Next ==
    \/ \E j \in Jobs : CreateJob(j) \/ RequestCancel(j)
    \/ \E source, j \in Jobs : RetryJob(source, j)
    \/ \E r \in Runs : Run(r)
    \/ \E u \in Users : User(u)
    \/ \E w \in Writers : GenerateStart(w) \/ GenerateFinish(w)
    \/ AppendTranscript
    \/ Restart

Spec == Init /\ [][Next]_vars

\* Promises are settled: every started handler keeps taking steps, in whatever order the
\* event loop picks.  Nothing makes a user start a handler or the app crash.
Continue(h) == pc[h] \notin Finished /\ (IF h \in Runs THEN Run(h) ELSE User(h))
FairSpec == Spec /\ \A h \in Runs \cup Users : WF_vars(Continue(h))

-----------------------------------------------------------------------------
(* Properties. *)

\* Every variable keeps its type (the records of the three stores and the handlers).
TypeOK ==
    /\ status \in [Jobs -> Statuses]
    /\ runToken \in [Jobs -> Runs \cup {None}]
    /\ progress \in [Jobs -> {0, 10, 25, 70, 85, 90}]
    /\ resultOf \in [Jobs -> Jobs \cup {None}]
    /\ interrupted \in [Jobs -> BOOLEAN]
    /\ parent \in [Jobs -> Revisions \cup {None}]
    /\ active \in Revisions \cup {None}
    /\ minutes \subseteq Revisions /\ audited \subseteq Revisions
    /\ latest \in Revisions \cup {None}
    /\ activityQueue \in Seq(Runs \cup Users)
    /\ pc \in [Handlers -> Labels]
    /\ subject \in [Handlers -> Revisions \cup {None}]
    /\ current \in [Handlers -> Revisions \cup {None}]
    /\ prevMinute \in [Handlers -> Revisions \cup {None}]
    /\ activator \in {"none", "run", "user", "rollback"}
    /\ published \subseteq Jobs
    /\ aborted \subseteq Runs /\ overtaken \subseteq Runs

\* The run token prevents double execution: a run that has not returned either holds its
\* job's token or works for a job that was cancelled under it, so two live runs never
\* share a job (claimQueued, assertRunningToken, requestCancel).
NoDoubleRun ==
    \A r \in Runs : pc[r] \notin Finished => Cancelled(r) \/ HoldsToken(r)

\* Cancelling and activating exclude each other: a job that ends up cancelled never had
\* its revision activated by its run, however the two handlers interleave.
CancelledNeverPublished ==
    \A j \in Jobs : status[j] = "cancelled" => j \notin published

\* A completed job left every trace of its success in all three stores: its revision is
\* committed and was activated, has a minute and an audit entry.
CompletedIsPublished ==
    \A j \in Jobs : status[j] = "completed" =>
        /\ resultOf[j] = j
        /\ parent[j] # None
        /\ j \in minutes \cap audited \cap published

\* When the activity store fails after an activation the run undoes it: a revision stays
\* active for a failed job only where somebody else activated it, or the app stopped.
FailedIsNotLeftActive ==
    \A j \in Jobs :
        status[j] = "failed" /\ ~interrupted[j] /\ active = j => activator # "run"

\* Jobs that raced on the same parent revision are not both completed: the second one
\* loses the compare-and-set of activateRevision (no user selects revisions here).
PublishedSiblingsExclude ==
    \A j, k \in Jobs :
        status[j] = "completed" /\ status[k] = "completed" /\ parent[j] = parent[k] => j = k

\* When nothing is waiting in the activity store and nobody is generating, the latest
\* minute is the minute of the revision that was activated last.
LatestFollowsActive ==
    /\ activator # "none"
    /\ activityQueue = <<>>
    /\ \A w \in Writers : pc[w] = "idle"
    => latest = active

\* A terminal job is never reopened or relabelled, whatever late step of a run or of a
\* cancel arrives (completeJob and failJob return a cancelled job unchanged).
TerminalIsFinal ==
    [][\A j \in Jobs : status[j] \in Terminal => status'[j] = status[j]]_vars

\* activateRevision refuses when the active revision changed during processing: a
\* background job does not override a revision the user switched to while the job ran.
RunRespectsUser ==
    [][\A r \in Runs : pc[r] = "activate" /\ pc'[r] = "setLatest" => r \notin overtaken]_vars

\* A claimed job reaches a terminal state (no job-store write fails).
ClaimedJobEnds ==
    \A j \in Jobs : status[j] = "running" ~> status[j] \in Terminal

=============================================================================
