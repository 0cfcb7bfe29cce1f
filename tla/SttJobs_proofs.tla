-------------------------- MODULE SttJobs_proofs --------------------------
(***************************************************************************)
(* Safety of the speech-to-text jobs for every number of jobs, runs, users *)
(* and regenerating handlers and for every set of faults.  The last three  *)
(* theorems hold only where certain stores do not fail or certain handlers *)
(* do not interfere; each states its hypotheses.                           *)
(***************************************************************************)
EXTENDS SttJobs, TLAPS

\* The labels of a run between two of the facts it establishes.
BeforeActivation == {"prepare", "transcribe", "transcribed", "commit", "committed", "ready",
                     "reported", "activate"}
AfterActivation == {"setLatest", "audit", "restoreMinute", "rollback", "complete"}
NotCancellable == {"activate"} \cup AfterActivation
WithMinute == {"reported"} \cup NotCancellable
WithRevision == {"committed", "ready"} \cup WithMinute

\* What a run that has not returned knows about its job, the further it got the more.
RunKnows(r) ==
    pc[r] \notin Finished =>
        /\ subject[r] \in Jobs
        /\ Cancelled(r) \/ HoldsToken(r)
        /\ pc[r] \in NotCancellable => HoldsToken(r) /\ progress[subject[r]] = 90
        /\ pc[r] \in BeforeActivation => subject[r] \notin published
        /\ pc[r] \in AfterActivation => subject[r] \in published
        /\ pc[r] \in WithRevision => parent[subject[r]] # None
        /\ pc[r] \in WithMinute => subject[r] \in minutes
        /\ pc[r] = "complete" => subject[r] \in audited

\* A job whose run activated its revision is beyond the point where it can be cancelled.
PublishedIsLate ==
    \A j \in published :
        \/ status[j] \in {"completed", "failed"}
        \/ status[j] = "running" /\ progress[j] = 90

\* A handler that is not a run works on a revision.
HasSubject ==
    \A h \in Users \cup Writers : pc[h] \notin Finished => subject[h] \in Revisions

\* The inductive invariant.
IInv ==
    /\ TypeOK
    /\ HasSubject
    /\ \A r \in Runs : RunKnows(r)
    /\ PublishedIsLate
    /\ CompletedIsPublished

-----------------------------------------------------------------------------
(* Type correctness. *)

\* What Goto and Return do to the handler frames.
FrameTypeOK ==
    /\ pc \in [Handlers -> Labels]
    /\ subject \in [Handlers -> Revisions \cup {None}]
    /\ current \in [Handlers -> Revisions \cup {None}]
    /\ prevMinute \in [Handlers -> Revisions \cup {None}]
    /\ aborted \subseteq Runs /\ overtaken \subseteq Runs

\* Returning from a handler, or moving it to another label, keeps the frames well typed.
LEMMA FrameMoves ==
    ASSUME FrameTypeOK, NEW h \in Handlers, NEW label \in Labels,
           Return(h) \/ Goto(h, label)
    PROVE  FrameTypeOK'
  <1>1. CASE Goto(h, label)
    BY <1>1 DEF FrameTypeOK, Goto, locals
  <1>2. CASE Return(h)
    BY <1>2 DEF FrameTypeOK, Return, Labels
  <1>3. QED  BY <1>1, <1>2

\* The queue of the activity store stays a sequence of handlers.
LEMMA QueueMoves ==
    ASSUME activityQueue \in Seq(Runs \cup Users), NEW h \in Runs \cup Users,
           \/ Enqueue(h)
           \/ AtHead(h) /\ (Dequeue \/ Requeue(h))
           \/ UNCHANGED activityQueue
    PROVE  activityQueue' \in Seq(Runs \cup Users)
  BY DEF Enqueue, AtHead, Dequeue, Requeue

\* A step of the runner keeps every variable typed.
LEMMA RunTypeOK ==
    ASSUME TypeOK, NEW r \in Runs, Run(r), subject[r] \in Jobs \/ pc[r] \in Finished
    PROVE  TypeOK'
  <1>0. r \in Handlers /\ FrameTypeOK
    BY DEF Handlers, TypeOK, FrameTypeOK
  <1>. USE DEF jobVars, transcriptVars, activityVars, history
  <1>1. ASSUME NEW j \in Jobs, ClaimQueued(r, j) PROVE TypeOK'
    BY <1>0, <1>1 DEF TypeOK, ClaimQueued, Statuses, Revisions, Labels
  <1>2. ASSUME NEW from, NEW percent \in {25, 70, 85, 90}, NEW next \in Labels,
               subject[r] \in Jobs, UpdateProgress(r, from, percent, next)
        PROVE  TypeOK'
    <2>1. FrameTypeOK'
      BY <1>0, <1>2, FrameMoves DEF UpdateProgress, Labels
    <2>2. progress' \in [Jobs -> {0, 10, 25, 70, 85, 90}]
      BY <1>2 DEF UpdateProgress, TypeOK
    <2>3. QED  BY <1>2, <2>1, <2>2 DEF UpdateProgress, TypeOK, FrameTypeOK
  <1>3. CASE Prepare(r) \/ AfterTranscribe(r) \/ AfterCommit(r) \/ AfterReady(r)
    <2>1. pc[r] \notin Finished
      BY <1>3 DEF Prepare, AfterTranscribe, AfterCommit, AfterReady, UpdateProgress,
                  Finished
    <2>2. QED  BY <1>2, <1>3, <2>1 DEF Prepare, AfterTranscribe, AfterCommit,
                                       AfterReady, Labels
  <1>4. CASE AssetMissing(r) \/ ProviderMissing(r) \/ Transcribe(r) \/ TranscribeFails(r)
    <2>1. FrameTypeOK'
      BY <1>0, <1>4, FrameMoves
         DEF AssetMissing, ProviderMissing, Transcribe, TranscribeFails, RunStep, Labels
    <2>2. QED
      BY <1>4, <2>1 DEF AssetMissing, ProviderMissing, Transcribe, TranscribeFails,
                        RunStep, TypeOK, FrameTypeOK
  <1>5. CASE CommitRevision(r)
    <2>1. FrameTypeOK'
      BY <1>0, <1>5, FrameMoves DEF CommitRevision, Base, Labels
    <2>2. parent' \in [Jobs -> Revisions \cup {None}] /\ active' \in Revisions \cup {None}
      BY <1>5 DEF CommitRevision, Base, TypeOK, Revisions
    <2>3. QED  BY <1>5, <2>1, <2>2 DEF CommitRevision, Base, TypeOK, FrameTypeOK
  <1>6. CASE RevisionReady(r)
    <2>1. FrameTypeOK' /\ subject[r] \in Jobs
      BY <1>0, <1>6, FrameMoves DEF RevisionReady, Labels, Finished
    <2>2. QED  BY <1>6, <2>1 DEF RevisionReady, TypeOK, FrameTypeOK, Revisions
  <1>7. CASE Activate(r)
    <2>1. subject[r] \in Jobs
      BY <1>7 DEF Activate, Finished
    <2>2. FrameTypeOK'
      <3>1. CASE Goto(r, "fail")
        BY <1>0, <3>1, FrameMoves DEF Labels
      <3>2. CASE ~Goto(r, "fail")
        BY <1>0, <1>7, <2>1, <3>2 DEF Activate, FrameTypeOK, TypeOK, MinuteOf, Labels
      <3>3. QED  BY <3>1, <3>2
    <2>3. activityQueue' \in Seq(Runs \cup Users)
      BY <1>7, QueueMoves DEF Activate, TypeOK
    <2>4. QED  BY <1>7, <2>1, <2>2, <2>3 DEF Activate, TypeOK, FrameTypeOK, Revisions
  <1>8. CASE SetLatest(r) \/ AuditActivated(r) \/ RestoreMinute(r)
    <2>1. subject[r] \in Jobs
      BY <1>8 DEF SetLatest, AuditActivated, RestoreMinute, Finished
    <2>2. FrameTypeOK'
      BY <1>0, <1>8, FrameMoves DEF SetLatest, AuditActivated, RestoreMinute, Labels
    <2>3. activityQueue' \in Seq(Runs \cup Users)
      BY <1>8, QueueMoves DEF SetLatest, AuditActivated, RestoreMinute, TypeOK
    <2>4. latest' \in Revisions \cup {None} /\ audited' \subseteq Revisions
      BY <1>0, <1>8, <2>1 DEF SetLatest, AuditActivated, RestoreMinute, TypeOK, Revisions
    <2>5. QED
      BY <1>8, <2>2, <2>3, <2>4
         DEF SetLatest, AuditActivated, RestoreMinute, TypeOK, FrameTypeOK
  <1>9. CASE Rollback(r)
    <2>1. FrameTypeOK' /\ subject[r] \in Jobs
      BY <1>0, <1>9, FrameMoves DEF Rollback, Labels, Finished
    <2>2. QED  BY <1>9, <2>1 DEF Rollback, TypeOK, FrameTypeOK
  <1>10. CASE CompleteJob(r) \/ FailWithRevision(r) \/ Fail(r)
    <2>1. FrameTypeOK' /\ subject[r] \in Jobs
      BY <1>0, <1>10, FrameMoves DEF CompleteJob, FailWithRevision, Fail, Labels, Finished
    <2>2. status' \in [Jobs -> Statuses] /\ resultOf' \in [Jobs -> Jobs \cup {None}]
      BY <1>10, <2>1
         DEF CompleteJob, FailWithRevision, Fail, MarkFailed, TypeOK, Statuses
    <2>3. /\ runToken' \in [Jobs -> Runs \cup {None}]
          /\ progress' \in [Jobs -> {0, 10, 25, 70, 85, 90}]
      BY <1>10, <2>1 DEF CompleteJob, FailWithRevision, Fail, MarkFailed, Release, TypeOK
    <2>4. QED
      BY <1>10, <2>1, <2>2, <2>3
         DEF CompleteJob, FailWithRevision, Fail, TypeOK, FrameTypeOK
  <1>11. QED
    BY <1>1, <1>3, <1>4, <1>5, <1>6, <1>7, <1>8, <1>9, <1>10 DEF Run

\* A step of the activateRevision handler keeps every variable typed.
LEMMA UserTypeOK ==
    ASSUME TypeOK, NEW u \in Users, User(u), subject[u] \in Revisions \/ pc[u] \in Finished
    PROVE  TypeOK'
  <1>0. u \in Handlers /\ u \in Runs \cup Users /\ FrameTypeOK
    BY DEF Handlers, TypeOK, FrameTypeOK
  <1>. USE DEF jobVars, transcriptVars, activityVars, history
  <1>1. ASSUME NEW v \in Revisions, SelectRevision(u, v) PROVE TypeOK'
    <2>1. FrameTypeOK'
      BY <1>0, <1>1 DEF SelectRevision, FrameTypeOK, TypeOK, MinuteOf, Labels
    <2>2. QED  BY <1>1, <2>1 DEF SelectRevision, TypeOK, FrameTypeOK
  <1>2. CASE UserGenerate(u)
    <2>1. FrameTypeOK' /\ subject[u] \in Revisions
      BY <1>0, <1>2, FrameMoves DEF UserGenerate, Labels, Finished
    <2>2. QED  BY <1>2, <2>1 DEF UserGenerate, TypeOK, FrameTypeOK
  <1>3. CASE UserActivate(u)
    <2>1. subject[u] \in Revisions
      BY <1>3 DEF UserActivate, Finished
    <2>2. FrameTypeOK'
      <3>1. CASE Return(u)
        BY <1>0, <3>1, FrameMoves DEF Labels
      <3>2. CASE ~Return(u)
        BY <1>0, <1>3, <3>2 DEF UserActivate, FrameTypeOK, Labels
      <3>3. QED  BY <3>1, <3>2
    <2>3. activityQueue' \in Seq(Runs \cup Users)
      BY <1>0, <1>3, QueueMoves DEF UserActivate, TypeOK
    <2>4. QED  BY <1>3, <2>1, <2>2, <2>3 DEF UserActivate, TypeOK, FrameTypeOK
  <1>4. CASE UserSetLatest(u) \/ UserAudit(u) \/ UserRestore(u)
    <2>1. subject[u] \in Revisions
      BY <1>4 DEF UserSetLatest, UserAudit, UserRestore, Finished
    <2>2. FrameTypeOK'
      BY <1>0, <1>4, FrameMoves DEF UserSetLatest, UserAudit, UserRestore, Labels
    <2>3. activityQueue' \in Seq(Runs \cup Users)
      BY <1>0, <1>4, QueueMoves DEF UserSetLatest, UserAudit, UserRestore, TypeOK
    <2>4. latest' \in Revisions \cup {None} /\ audited' \subseteq Revisions
      BY <1>0, <1>4, <2>1 DEF UserSetLatest, UserAudit, UserRestore, TypeOK
    <2>5. QED
      BY <1>4, <2>2, <2>3, <2>4
         DEF UserSetLatest, UserAudit, UserRestore, TypeOK, FrameTypeOK
  <1>5. CASE UserRollback(u)
    <2>1. FrameTypeOK'
      BY <1>0, <1>5, FrameMoves DEF UserRollback, Labels
    <2>2. activityQueue' \in Seq(Runs \cup Users)
      BY <1>0, <1>5, QueueMoves DEF UserRollback, TypeOK
    <2>3. active' \in Revisions \cup {None}
      BY <1>0, <1>5 DEF UserRollback, TypeOK
    <2>4. QED  BY <1>5, <2>1, <2>2, <2>3 DEF UserRollback, TypeOK, FrameTypeOK
  <1>6. QED  BY <1>1, <1>2, <1>3, <1>4, <1>5 DEF User

\* The steps outside the two kinds of handlers keep every variable typed.
LEMMA OtherTypeOK ==
    ASSUME TypeOK,
           \/ \E j \in Jobs : CreateJob(j) \/ RequestCancel(j)
           \/ \E source, j \in Jobs : RetryJob(source, j)
           \/ \E w \in Writers :
                 /\ subject[w] \in Revisions \/ pc[w] \in Finished
                 /\ GenerateStart(w) \/ GenerateFinish(w)
           \/ AppendTranscript \/ Restart
    PROVE  TypeOK'
  <1>0. FrameTypeOK
    BY DEF TypeOK, FrameTypeOK
  <1>. USE DEF jobVars, transcriptVars, activityVars, history, locals
  <1>1. ASSUME NEW j \in Jobs, CreateJob(j) PROVE TypeOK'
    BY <1>1 DEF CreateJob, QueueNew, TypeOK, Statuses
  <1>2. ASSUME NEW j \in Jobs, RequestCancel(j) PROVE TypeOK'
    BY <1>2 DEF RequestCancel, Release, TypeOK, Statuses
  <1>3. ASSUME NEW w \in Writers, GenerateStart(w) PROVE TypeOK'
    BY <1>3 DEF GenerateStart, TypeOK, Handlers, Labels
  <1>4. ASSUME NEW w \in Writers, GenerateFinish(w),
               subject[w] \in Revisions \/ pc[w] \in Finished
        PROVE  TypeOK'
    <2>1. w \in Handlers /\ subject[w] \in Revisions
      BY <1>4 DEF GenerateFinish, Finished, Handlers
    <2>2. FrameTypeOK'
      BY <1>0, <1>4, <2>1, FrameMoves DEF GenerateFinish, Labels
    <2>3. QED  BY <1>4, <2>1, <2>2 DEF GenerateFinish, TypeOK, FrameTypeOK
  <1>5. CASE AppendTranscript
    BY <1>5 DEF AppendTranscript, Base, TypeOK, Revisions
  <1>6. CASE Restart
    BY <1>6 DEF Restart, TypeOK, Statuses, Labels
  <1>7. QED  BY <1>1, <1>2, <1>3, <1>4, <1>5, <1>6 DEF RetryJob, CreateJob

-----------------------------------------------------------------------------
(* The inductive invariant. *)

\* The parts of IInv about the jobs and their runs.
JobInv ==
    /\ \A r \in Runs : RunKnows(r)
    /\ PublishedIsLate
    /\ CompletedIsPublished

\* A step of the runner preserves what every run knows and what publishing a job implies.
LEMMA RunJobInv ==
    ASSUME TypeOK, JobInv, NEW r \in Runs, Run(r)
    PROVE  JobInv'
  <1>0. r \in Handlers /\ RunKnows(r) /\ None \notin Runs \cup Jobs
    BY SttAssumption DEF Handlers, JobInv
  <1>. USE DEF jobVars, transcriptVars, activityVars, history, locals
  <1>. USE
     DEF Finished, BeforeActivation, AfterActivation, NotCancellable, WithMinute,
         WithRevision
  <1>1. ASSUME NEW j \in Jobs, ClaimQueued(r, j) PROVE JobInv'
    <2>1. ASSUME NEW q \in Runs PROVE RunKnows(q)'
      BY <1>0, <1>1, <2>1
         DEF ClaimQueued, RunKnows, HoldsToken, Cancelled, JobInv, TypeOK,
             PublishedIsLate, Handlers
    <2>2. PublishedIsLate'
      BY <1>1 DEF ClaimQueued, PublishedIsLate, JobInv, TypeOK
    <2>3. CompletedIsPublished'
      BY <1>1 DEF ClaimQueued, CompletedIsPublished, JobInv, TypeOK
    <2>4. QED  BY <2>1, <2>2, <2>3 DEF JobInv
  <1>2. CASE Prepare(r) \/ AfterTranscribe(r) \/ AfterCommit(r) \/ AfterReady(r)
    <2>1. subject[r] \in Jobs
      BY <1>0, <1>2
         DEF RunKnows, Prepare, AfterTranscribe, AfterCommit, AfterReady,
             UpdateProgress
    <2>2. ASSUME NEW q \in Runs, q # r PROVE RunKnows(q)'
      BY <1>0, <1>2, <2>1, <2>2
         DEF Prepare, AfterTranscribe, AfterCommit, AfterReady, UpdateProgress, Goto,
             Return, RunKnows, HoldsToken, Cancelled, JobInv, TypeOK, Handlers
    <2>3. RunKnows(r)'
      BY <1>0, <1>2, <2>1
         DEF Prepare, AfterTranscribe, AfterCommit, AfterReady, UpdateProgress, Goto,
             Return, RunKnows, HoldsToken, Cancelled, JobInv, TypeOK, Handlers
    <2>4. PublishedIsLate'
      BY <1>0, <1>2, <2>1
         DEF Prepare, AfterTranscribe, AfterCommit, AfterReady, UpdateProgress,
             PublishedIsLate, RunKnows, HoldsToken, Cancelled, JobInv, TypeOK
    <2>5. CompletedIsPublished'
      BY <1>0, <1>2, <2>1
         DEF Prepare, AfterTranscribe, AfterCommit, AfterReady, UpdateProgress,
             CompletedIsPublished, RunKnows, HoldsToken, Cancelled, JobInv, TypeOK
    <2>6. QED  BY <2>2, <2>3, <2>4, <2>5 DEF JobInv
  <1>3. CASE AssetMissing(r) \/ ProviderMissing(r) \/ Transcribe(r) \/ TranscribeFails(r)
    <2>1. subject[r] \in Jobs
      BY <1>0, <1>3 DEF RunKnows, AssetMissing, ProviderMissing, Transcribe,
                        TranscribeFails, RunStep
    <2>2. ASSUME NEW q \in Runs, q # r PROVE RunKnows(q)'
      BY <1>0, <1>3, <2>1, <2>2
         DEF AssetMissing, ProviderMissing, Transcribe, TranscribeFails, RunStep, Goto,
             Return,
             RunKnows, HoldsToken, Cancelled, JobInv, TypeOK, Handlers
    <2>3. RunKnows(r)'
      BY <1>0, <1>3, <2>1
         DEF AssetMissing, ProviderMissing, Transcribe, TranscribeFails, RunStep, Goto,
             Return,
             RunKnows, HoldsToken, Cancelled, JobInv, TypeOK, Handlers
    <2>4. PublishedIsLate'
      BY <1>0, <1>3, <2>1
         DEF AssetMissing, ProviderMissing, Transcribe, TranscribeFails, RunStep,
             PublishedIsLate,
             RunKnows, HoldsToken, Cancelled, JobInv, TypeOK
    <2>5. CompletedIsPublished'
      BY <1>0, <1>3, <2>1
         DEF AssetMissing, ProviderMissing, Transcribe, TranscribeFails, RunStep,
             CompletedIsPublished,
             RunKnows, HoldsToken, Cancelled, JobInv, TypeOK
    <2>6. QED  BY <2>2, <2>3, <2>4, <2>5 DEF JobInv
  <1>4. CASE CommitRevision(r)
    <2>1. subject[r] \in Jobs
      BY <1>0, <1>4 DEF RunKnows, CommitRevision
    <2>2. ASSUME NEW q \in Runs, q # r PROVE RunKnows(q)'
      BY <1>0, <1>4, <2>1, <2>2
         DEF CommitRevision, Base, Goto, Return, RunKnows, HoldsToken, Cancelled, JobInv,
             TypeOK, Handlers
    <2>3. RunKnows(r)'
      <3>1. (IF active = None THEN Live ELSE active) # None
        BY SttAssumption
      <3>2. Goto(r, "committed") => parent'[subject[r]] # None
        BY <1>0, <1>4, <2>1, <3>1 DEF CommitRevision, Base, Goto, TypeOK
      <3>3. QED
        BY <1>0, <1>4, <2>1, <3>2
           DEF CommitRevision, Base, Goto, Return, RunKnows, HoldsToken, Cancelled, JobInv,
               TypeOK, Handlers
    <2>4. PublishedIsLate'
      BY <1>0, <1>4, <2>1
         DEF CommitRevision, Base, PublishedIsLate, RunKnows, HoldsToken, Cancelled, JobInv,
             TypeOK
    <2>5. CompletedIsPublished'
      BY <1>0, <1>4, <2>1
         DEF CommitRevision, Base, CompletedIsPublished, RunKnows, HoldsToken, Cancelled,
             JobInv, TypeOK
    <2>6. QED  BY <2>2, <2>3, <2>4, <2>5 DEF JobInv
  <1>5. CASE RevisionReady(r)
    <2>1. subject[r] \in Jobs
      BY <1>0, <1>5 DEF RunKnows, RevisionReady
    <2>2. ASSUME NEW q \in Runs, q # r PROVE RunKnows(q)'
      BY <1>0, <1>5, <2>1, <2>2
         DEF RevisionReady, Goto, Return, RunKnows, HoldsToken, Cancelled, JobInv,
             TypeOK, Handlers
    <2>3. RunKnows(r)'
      BY <1>0, <1>5, <2>1
         DEF RevisionReady, Goto, Return, RunKnows, HoldsToken, Cancelled, JobInv,
             TypeOK, Handlers
    <2>4. PublishedIsLate'
      BY <1>0, <1>5, <2>1
         DEF RevisionReady, PublishedIsLate, RunKnows, HoldsToken, Cancelled, JobInv,
             TypeOK
    <2>5. CompletedIsPublished'
      BY <1>0, <1>5, <2>1
         DEF RevisionReady, CompletedIsPublished, RunKnows, HoldsToken, Cancelled,
             JobInv, TypeOK
    <2>6. QED  BY <2>2, <2>3, <2>4, <2>5 DEF JobInv
  <1>6. CASE Activate(r)
    <2>1. subject[r] \in Jobs
      BY <1>0, <1>6 DEF RunKnows, Activate
    <2>2. ASSUME NEW q \in Runs, q # r PROVE RunKnows(q)'
      BY <1>0, <1>6, <2>1, <2>2
         DEF Activate, Goto, Return, RunKnows, HoldsToken, Cancelled, JobInv, TypeOK,
             Handlers
    <2>3. RunKnows(r)'
      BY <1>0, <1>6, <2>1
         DEF Activate, Goto, Return, RunKnows, HoldsToken, Cancelled, JobInv, TypeOK,
             Handlers
    <2>4. PublishedIsLate'
      BY <1>0, <1>6, <2>1
         DEF Activate, PublishedIsLate, RunKnows, HoldsToken, Cancelled, JobInv, TypeOK
    <2>5. CompletedIsPublished'
      BY <1>0, <1>6, <2>1
         DEF Activate, CompletedIsPublished, RunKnows, HoldsToken, Cancelled, JobInv,
             TypeOK
    <2>6. QED  BY <2>2, <2>3, <2>4, <2>5 DEF JobInv
  <1>7. CASE SetLatest(r) \/ AuditActivated(r) \/ RestoreMinute(r)
    <2>1. subject[r] \in Jobs
      BY <1>0, <1>7 DEF RunKnows, SetLatest, AuditActivated, RestoreMinute
    <2>2. ASSUME NEW q \in Runs, q # r PROVE RunKnows(q)'
      BY <1>0, <1>7, <2>1, <2>2
         DEF SetLatest, AuditActivated, RestoreMinute, Goto, Return, RunKnows,
             HoldsToken, Cancelled, JobInv, TypeOK, Handlers
    <2>3. RunKnows(r)'
      BY <1>0, <1>7, <2>1
         DEF SetLatest, AuditActivated, RestoreMinute, Goto, Return, RunKnows,
             HoldsToken, Cancelled, JobInv, TypeOK, Handlers
    <2>4. PublishedIsLate'
      BY <1>0, <1>7, <2>1
         DEF SetLatest, AuditActivated, RestoreMinute, PublishedIsLate, RunKnows,
             HoldsToken, Cancelled, JobInv, TypeOK
    <2>5. CompletedIsPublished'
      BY <1>0, <1>7, <2>1
         DEF SetLatest, AuditActivated, RestoreMinute, CompletedIsPublished, RunKnows,
             HoldsToken, Cancelled, JobInv, TypeOK
    <2>6. QED  BY <2>2, <2>3, <2>4, <2>5 DEF JobInv
  <1>8. CASE Rollback(r)
    <2>1. subject[r] \in Jobs
      BY <1>0, <1>8 DEF RunKnows, Rollback
    <2>2. ASSUME NEW q \in Runs, q # r PROVE RunKnows(q)'
      BY <1>0, <1>8, <2>1, <2>2
         DEF Rollback, Goto, Return, RunKnows, HoldsToken, Cancelled, JobInv, TypeOK,
             Handlers
    <2>3. RunKnows(r)'
      BY <1>0, <1>8, <2>1
         DEF Rollback, Goto, Return, RunKnows, HoldsToken, Cancelled, JobInv, TypeOK,
             Handlers
    <2>4. PublishedIsLate'
      BY <1>0, <1>8, <2>1
         DEF Rollback, PublishedIsLate, RunKnows, HoldsToken, Cancelled, JobInv, TypeOK
    <2>5. CompletedIsPublished'
      BY <1>0, <1>8, <2>1
         DEF Rollback, CompletedIsPublished, RunKnows, HoldsToken, Cancelled, JobInv,
             TypeOK
    <2>6. QED  BY <2>2, <2>3, <2>4, <2>5 DEF JobInv
  <1>9. CASE CompleteJob(r)
    <2>1. subject[r] \in Jobs
      BY <1>0, <1>9 DEF RunKnows, CompleteJob, Release
    <2>2. ASSUME NEW q \in Runs, q # r PROVE RunKnows(q)'
      BY <1>0, <1>9, <2>1, <2>2
         DEF CompleteJob, Release, Goto, Return, RunKnows, HoldsToken, Cancelled,
             JobInv, TypeOK, Handlers
    <2>3. RunKnows(r)'
      BY <1>0, <1>9, <2>1
         DEF CompleteJob, Release, Goto, Return, RunKnows, HoldsToken, Cancelled,
             JobInv, TypeOK, Handlers
    <2>4. PublishedIsLate'
      BY <1>0, <1>9, <2>1
         DEF CompleteJob, Release, PublishedIsLate, RunKnows, HoldsToken, Cancelled,
             JobInv, TypeOK
    <2>5. CompletedIsPublished'
      BY <1>0, <1>9, <2>1
         DEF CompleteJob, Release, CompletedIsPublished, RunKnows, HoldsToken,
             Cancelled, JobInv, TypeOK
    <2>6. QED  BY <2>2, <2>3, <2>4, <2>5 DEF JobInv
  <1>10. CASE FailWithRevision(r) \/ Fail(r)
    <2>1. subject[r] \in Jobs
      BY <1>0, <1>10 DEF RunKnows, FailWithRevision, Fail, MarkFailed, Release
    <2>2. ASSUME NEW q \in Runs, q # r PROVE RunKnows(q)'
      BY <1>0, <1>10, <2>1, <2>2
         DEF FailWithRevision, Fail, MarkFailed, Release, Goto, Return, RunKnows,
             HoldsToken, Cancelled, JobInv, TypeOK, Handlers
    <2>3. RunKnows(r)'
      BY <1>0, <1>10, <2>1
         DEF FailWithRevision, Fail, MarkFailed, Release, Goto, Return, RunKnows,
             HoldsToken, Cancelled, JobInv, TypeOK, Handlers
    <2>4. PublishedIsLate'
      BY <1>0, <1>10, <2>1
         DEF FailWithRevision, Fail, MarkFailed, Release, PublishedIsLate, RunKnows,
             HoldsToken, Cancelled, JobInv, TypeOK
    <2>5. CompletedIsPublished'
      BY <1>0, <1>10, <2>1
         DEF FailWithRevision, Fail, MarkFailed, Release, CompletedIsPublished,
             RunKnows, HoldsToken, Cancelled, JobInv, TypeOK
    <2>6. QED  BY <2>2, <2>3, <2>4, <2>5 DEF JobInv
  <1>11. QED  BY <1>1, <1>2, <1>3, <1>4, <1>5, <1>6, <1>7, <1>8, <1>9, <1>10 DEF Run

\* A step of the activateRevision handler leaves the jobs and their runs alone.
LEMMA UserJobInv ==
    ASSUME TypeOK, JobInv, NEW u \in Users, User(u)
    PROVE  JobInv'
  <1>1. u \in Handlers /\ u \notin Runs
    BY SttAssumption DEF Handlers
  <1>2. /\ UNCHANGED <<status, runToken, progress, resultOf, parent, published>>
        /\ minutes \subseteq minutes' /\ audited \subseteq audited'
    BY DEF User, SelectRevision, UserGenerate, UserActivate, UserSetLatest, UserAudit,
           UserRollback, UserRestore, jobVars, transcriptVars, activityVars, history
  <1>3. \A r \in Runs : pc'[r] = pc[r] /\ subject'[r] = subject[r]
    BY <1>1 DEF User, SelectRevision, UserGenerate, UserActivate, UserSetLatest, UserAudit,
           UserRollback, UserRestore, Goto, Return, locals, TypeOK, Handlers
  <1>4. \A r \in Runs : RunKnows(r)'
    BY <1>2, <1>3 DEF RunKnows, HoldsToken, Cancelled, JobInv
  <1>5. PublishedIsLate' /\ CompletedIsPublished'
    BY <1>2 DEF PublishedIsLate, CompletedIsPublished, JobInv
  <1>6. QED  BY <1>4, <1>5 DEF JobInv

\* Neither do the other handlers, a restart or a cancel break what the runs know.
LEMMA OtherJobInv ==
    ASSUME TypeOK, JobInv,
           \/ \E j \in Jobs : CreateJob(j) \/ RequestCancel(j)
           \/ \E source, j \in Jobs : RetryJob(source, j)
           \/ \E w \in Writers : GenerateStart(w) \/ GenerateFinish(w)
           \/ AppendTranscript \/ Restart
    PROVE  JobInv'
  <1>. USE DEF jobVars, transcriptVars, activityVars, history, locals
  <1>1. ASSUME NEW j \in Jobs, CreateJob(j) PROVE JobInv'
    <2>1. ASSUME NEW r \in Runs PROVE RunKnows(r)'
      BY <1>1, <2>1 DEF CreateJob, QueueNew, RunKnows, HoldsToken, Cancelled, JobInv, TypeOK
    <2>2. PublishedIsLate' /\ CompletedIsPublished'
      BY <1>1 DEF CreateJob, QueueNew, PublishedIsLate, CompletedIsPublished, JobInv, TypeOK
    <2>3. QED  BY <2>1, <2>2 DEF JobInv
  <1>2. ASSUME NEW j \in Jobs, RequestCancel(j) PROVE JobInv'
    <2>1. ASSUME NEW r \in Runs PROVE RunKnows(r)'
      BY <1>2, <2>1 DEF RequestCancel, Release, RunKnows, HoldsToken, Cancelled,
                        JobInv, TypeOK
    <2>2. PublishedIsLate'
      BY <1>2 DEF RequestCancel, Release, PublishedIsLate, JobInv, TypeOK
    <2>3. CompletedIsPublished'
      BY <1>2 DEF RequestCancel, CompletedIsPublished, JobInv, TypeOK
    <2>4. QED  BY <2>1, <2>2, <2>3 DEF JobInv
  <1>3. ASSUME NEW w \in Writers, GenerateStart(w) \/ GenerateFinish(w) PROVE JobInv'
    <2>1. w \in Handlers /\ w \notin Runs
      BY SttAssumption DEF Handlers
    <2>2. \A r \in Runs : pc'[r] = pc[r] /\ subject'[r] = subject[r]
      BY <1>3, <2>1 DEF GenerateStart, GenerateFinish, Return, TypeOK, Handlers
    <2>3. \A r \in Runs : RunKnows(r)'
      BY <1>3, <2>2 DEF GenerateStart, GenerateFinish, RunKnows, HoldsToken, Cancelled,
                        JobInv
    <2>4. PublishedIsLate' /\ CompletedIsPublished'
      BY <1>3 DEF GenerateStart, GenerateFinish, PublishedIsLate, CompletedIsPublished,
                  JobInv
    <2>5. QED  BY <2>3, <2>4 DEF JobInv
  <1>4. CASE AppendTranscript
    BY <1>4 DEF AppendTranscript, Base, RunKnows, HoldsToken, Cancelled, PublishedIsLate,
                CompletedIsPublished, JobInv
  <1>5. CASE Restart
    <2>1. ASSUME NEW r \in Runs PROVE RunKnows(r)'
      BY <1>5, <2>1 DEF Restart, RunKnows, Finished, Handlers
    <2>2. PublishedIsLate' /\ CompletedIsPublished'
      BY <1>5 DEF Restart, PublishedIsLate, CompletedIsPublished, JobInv, TypeOK
    <2>3. QED  BY <2>1, <2>2 DEF JobInv
  <1>6. QED  BY <1>1, <1>2, <1>3, <1>4, <1>5 DEF RetryJob, CreateJob

\* The handlers other than runs keep working on a revision.
LEMMA HasSubjectStep ==
    ASSUME TypeOK, HasSubject, Next
    PROVE  HasSubject'
  <1>. SUFFICES ASSUME NEW h \in Users \cup Writers, pc'[h] \notin Finished
                PROVE  subject'[h] \in Revisions
    BY DEF HasSubject
  <1>0. h \in Handlers /\ h \notin Runs /\ None \notin Revisions
    BY SttAssumption DEF Handlers, Revisions
  <1>. USE DEF locals, Finished
  <1>1. ASSUME pc'[h] = pc[h], subject'[h] = subject[h] PROVE subject'[h] \in Revisions
    BY <1>1 DEF HasSubject
  <1>2. ASSUME NEW r \in Runs, Run(r) PROVE pc'[h] = pc[h] /\ subject'[h] = subject[h]
    BY <1>0, <1>2
       DEF Run, ClaimQueued, AssetMissing, Prepare, ProviderMissing, Transcribe,
           TranscribeFails,
           AfterTranscribe, CommitRevision, AfterCommit, RevisionReady, AfterReady,
           Activate,
           SetLatest, AuditActivated, RestoreMinute, Rollback, CompleteJob,
           FailWithRevision,
           Fail, RunStep, UpdateProgress, Goto, Return, TypeOK
  <1>3. ASSUME NEW u \in Users, User(u), u # h
        PROVE  pc'[h] = pc[h] /\ subject'[h] = subject[h]
    BY <1>0, <1>3
       DEF User, SelectRevision, UserGenerate, UserActivate, UserSetLatest, UserAudit,
           UserRollback, UserRestore, Goto, Return, TypeOK
  <1>4. ASSUME h \in Users, User(h) PROVE subject'[h] \in Revisions
    BY <1>0, <1>4
       DEF User, SelectRevision, UserGenerate, UserActivate, UserSetLatest, UserAudit,
           UserRollback, UserRestore, Goto, Return, TypeOK, HasSubject, Handlers
  <1>5. ASSUME NEW w \in Writers, GenerateStart(w) \/ GenerateFinish(w)
        PROVE  subject'[h] \in Revisions
    BY <1>0, <1>5 DEF GenerateStart, GenerateFinish, Return, TypeOK, HasSubject, Handlers
  <1>6. ASSUME \/ \E j \in Jobs : CreateJob(j) \/ RequestCancel(j)
               \/ \E source, j \in Jobs : RetryJob(source, j)
               \/ AppendTranscript
        PROVE  pc'[h] = pc[h] /\ subject'[h] = subject[h]
    BY <1>6 DEF CreateJob, QueueNew, RequestCancel, RetryJob, AppendTranscript, Base
  <1>7. CASE Restart
    BY <1>0, <1>7 DEF Restart
  <1>8. QED  BY <1>1, <1>2, <1>3, <1>4, <1>5, <1>6, <1>7 DEF Next

\* The inductive invariant holds when the stores are empty and nothing runs.
LEMMA InitIInv == Init => IInv
  <1>. SUFFICES ASSUME Init PROVE IInv
    OBVIOUS
  <1>1. TypeOK
    BY DEF Init, TypeOK, Statuses, Labels
  <1>2. HasSubject /\ \A r \in Runs : RunKnows(r)
    BY DEF Init, HasSubject, RunKnows, Finished, Handlers
  <1>3. PublishedIsLate /\ CompletedIsPublished
    BY DEF Init, PublishedIsLate, CompletedIsPublished
  <1>4. QED  BY <1>1, <1>2, <1>3 DEF IInv

\* Every step of every handler, a crash and restart included, preserves it.
LEMMA NextIInv == IInv /\ [Next]_vars => IInv'
  <1>. SUFFICES ASSUME IInv, [Next]_vars PROVE IInv'
    OBVIOUS
  <1>0. TypeOK /\ HasSubject /\ JobInv
    BY DEF IInv, JobInv
  <1>1. ASSUME NEW r \in Runs, Run(r) PROVE TypeOK' /\ JobInv'
    <2>1. subject[r] \in Jobs \/ pc[r] \in Finished
      BY <1>0 DEF JobInv, RunKnows
    <2>2. QED  BY <1>0, <1>1, <2>1, RunTypeOK, RunJobInv
  <1>2. ASSUME NEW u \in Users, User(u) PROVE TypeOK' /\ JobInv'
    <2>1. subject[u] \in Revisions \/ pc[u] \in Finished
      BY <1>0 DEF HasSubject
    <2>2. QED  BY <1>0, <1>2, <2>1, UserTypeOK, UserJobInv
  <1>3. ASSUME \/ \E j \in Jobs : CreateJob(j) \/ RequestCancel(j)
               \/ \E source, j \in Jobs : RetryJob(source, j)
               \/ \E w \in Writers : GenerateStart(w) \/ GenerateFinish(w)
               \/ AppendTranscript \/ Restart
        PROVE  TypeOK' /\ JobInv'
    <2>1. \A w \in Writers : subject[w] \in Revisions \/ pc[w] \in Finished
      BY <1>0 DEF HasSubject
    <2>2. QED  BY <1>0, <1>3, <2>1, OtherTypeOK, OtherJobInv
  <1>4. CASE Next
    <2>1. TypeOK' /\ JobInv'
      BY <1>1, <1>2, <1>3, <1>4 DEF Next
    <2>2. QED  BY <1>0, <1>4, <2>1, HasSubjectStep DEF IInv, JobInv
  <1>5. CASE UNCHANGED vars
    BY <1>5 DEF vars, jobVars, transcriptVars, activityVars, locals, history, IInv, TypeOK,
                FrameTypeOK, HasSubject, RunKnows, HoldsToken, Cancelled, PublishedIsLate,
                CompletedIsPublished
  <1>6. QED  BY <1>4, <1>5

\* So it holds throughout every behaviour.
LEMMA Invariance == Spec => []IInv
  BY InitIInv, NextIInv, PTL DEF Spec

\* No step of any handler changes the status of a terminal job.
LEMMA TerminalStays ==
    ASSUME IInv, Next, NEW j \in Jobs, status[j] \in Terminal
    PROVE  status'[j] = status[j]
  <1>. USE DEF jobVars, Terminal, IInv, TypeOK
  <1>1. ASSUME NEW r \in Runs, Run(r) PROVE status'[j] = status[j]
    <2>1. pc[r] \notin Finished => subject[r] \in Jobs
      BY DEF RunKnows
    <2>2. QED
      BY <1>1, <2>1
         DEF Run, ClaimQueued, AssetMissing, Prepare, ProviderMissing, Transcribe,
             TranscribeFails,
             AfterTranscribe, CommitRevision, AfterCommit, RevisionReady, AfterReady,
             Activate, SetLatest, AuditActivated, RestoreMinute, Rollback, CompleteJob,
             FailWithRevision, Fail, RunStep, UpdateProgress, MarkFailed, HoldsToken
  <1>2. ASSUME NEW u \in Users, User(u) PROVE status'[j] = status[j]
    BY <1>2 DEF User, SelectRevision, UserGenerate, UserActivate, UserSetLatest,
                UserAudit,
                UserRollback, UserRestore
  <1>3. ASSUME NEW k \in Jobs, CreateJob(k) \/ RequestCancel(k) PROVE status'[j] = status[j]
    BY <1>3 DEF CreateJob, QueueNew, RequestCancel
  <1>4. ASSUME NEW w \in Writers, GenerateStart(w) \/ GenerateFinish(w)
        PROVE  status'[j] = status[j]
    BY <1>4 DEF GenerateStart, GenerateFinish
  <1>5. CASE AppendTranscript \/ Restart
    BY <1>5 DEF AppendTranscript, Base, Restart
  <1>6. QED  BY <1>1, <1>2, <1>3, <1>4, <1>5 DEF Next, RetryJob, CreateJob

-----------------------------------------------------------------------------
(* The theorems. *)

\* The stores and the handlers keep their types (local-stt-job-store.ts,
\* local-transcript-store.ts, local-activity-store.ts).
THEOREM TypeCorrect == Spec => []TypeOK
  <1>1. IInv => TypeOK
    BY DEF IInv
  <1>2. QED  BY <1>1, Invariance, PTL

\* The run token prevents double execution, with any number of runs and crashes.
THEOREM RunTokenIsExclusive == Spec => []NoDoubleRun
  <1>1. IInv => NoDoubleRun
    BY DEF IInv, RunKnows, NoDoubleRun
  <1>2. QED  BY <1>1, Invariance, PTL

\* A job that is cancelled never had its revision activated by its run: the progress a
\* cancel checks and the one the run stores before activating exclude each other.
THEOREM CancelExcludesPublishing == Spec => []CancelledNeverPublished
  <1>1. IInv => CancelledNeverPublished
    BY DEF IInv, TypeOK, PublishedIsLate, CancelledNeverPublished
  <1>2. QED  BY <1>1, Invariance, PTL

\* A completed job has its revision, its minute and its audit entry, in whatever way the
\* stores failed before.
THEOREM CompletionIsComplete == Spec => []CompletedIsPublished
  <1>1. IInv => CompletedIsPublished
    BY DEF IInv
  <1>2. QED  BY <1>1, Invariance, PTL

\* No step of any handler reopens or relabels a terminal job.
THEOREM TerminalStaysFinal == Spec => TerminalIsFinal
  <1>1. IInv /\ [Next]_vars =>
          [\A j \in Jobs : status[j] \in Terminal => status'[j] = status[j]]_vars
    BY TerminalStays
  <1>2. QED  BY <1>1, Invariance, PTL DEF Spec, TerminalIsFinal

-----------------------------------------------------------------------------
(* What is active, and who watches over it. *)

\* A handler that takes a step leaves the frames of the others alone.
LEMMA OthersStay ==
    ASSUME TypeOK, NEW h \in Handlers, NEW q \in Handlers, q # h,
           \/ h \in Runs /\ Run(h)
           \/ h \in Users /\ User(h)
           \/ h \in Writers /\ (GenerateStart(h) \/ GenerateFinish(h))
    PROVE  pc'[q] = pc[q] /\ subject'[q] = subject[q]
  <1>. USE DEF locals
  <1>1. CASE Run(h)
    BY <1>1
       DEF Run, ClaimQueued, AssetMissing, Prepare, ProviderMissing, Transcribe,
           TranscribeFails, AfterTranscribe, CommitRevision, AfterCommit, RevisionReady,
           AfterReady, Activate, SetLatest, AuditActivated, RestoreMinute, Rollback,
           CompleteJob, FailWithRevision, Fail, RunStep, UpdateProgress, Goto, Return, TypeOK
  <1>2. CASE User(h)
    BY <1>2
       DEF User, SelectRevision, UserGenerate, UserActivate, UserSetLatest, UserAudit,
           UserRollback, UserRestore, Goto, Return, TypeOK
  <1>3. CASE GenerateStart(h) \/ GenerateFinish(h)
    BY <1>3 DEF GenerateStart, GenerateFinish, Return, TypeOK
  <1>4. QED  BY <1>1, <1>2, <1>3

\* The steps of a run between its claim and its activation, and those that end it.
Early(r) ==
    \/ \E j \in Jobs : ClaimQueued(r, j)
    \/ AssetMissing(r) \/ Prepare(r)
    \/ ProviderMissing(r) \/ Transcribe(r) \/ TranscribeFails(r) \/ AfterTranscribe(r)
    \/ CommitRevision(r) \/ AfterCommit(r)
    \/ RevisionReady(r) \/ AfterReady(r)
    \/ Activate(r) /\ pc'[r] # "setLatest"
    \/ FailWithRevision(r) \/ Fail(r)

\* What those steps leave alone: what is active changes only from nothing to the live
\* revision, and only a revision that was not activated gets a parent.
LEMMA EarlySteps ==
    ASSUME IInv, NEW r \in Runs, Early(r)
    PROVE  /\ pc[r] \notin AfterActivation /\ pc'[r] \notin AfterActivation
           /\ UNCHANGED <<activator, published>>
           /\ (pc[r] # "commit" => UNCHANGED transcriptVars)
           /\ pc[r] = "commit" =>
                /\ subject[r] \in Jobs /\ subject[r] \notin published
                /\ \/ UNCHANGED transcriptVars
                   \/ /\ parent' = [parent EXCEPT ![subject[r]] = Base] /\ active' = Base
           /\ \A j \in Jobs : status'[j] = "completed" => status[j] = "completed"
  <1>. USE DEF jobVars, transcriptVars, activityVars, history, locals
  <1>0. r \in Handlers /\ RunKnows(r) /\ TypeOK
    BY DEF Handlers, IInv
  <1>1. ASSUME NEW j \in Jobs, ClaimQueued(r, j)
        PROVE  /\ pc[r] = "idle" /\ pc'[r] = "prepare"
               /\ UNCHANGED <<activator, published, parent, active>>
               /\ \A k \in Jobs : status'[k] = "completed" => status[k] = "completed"
    BY <1>0, <1>1 DEF ClaimQueued, TypeOK
  <1>2. CASE AssetMissing(r) \/ ProviderMissing(r) \/ Transcribe(r) \/ TranscribeFails(r)
    BY <1>0, <1>2
       DEF AssetMissing, ProviderMissing, Transcribe, TranscribeFails, RunStep, Goto, TypeOK,
           AfterActivation
  <1>3. CASE Prepare(r) \/ AfterTranscribe(r) \/ AfterCommit(r) \/ AfterReady(r)
    BY <1>0, <1>3
       DEF Prepare, AfterTranscribe, AfterCommit, AfterReady, UpdateProgress, Goto, Return,
           TypeOK, AfterActivation
  <1>4. CASE CommitRevision(r)
    BY <1>0, <1>4
       DEF CommitRevision, Goto, TypeOK, AfterActivation, RunKnows, Finished, BeforeActivation
  <1>5. CASE RevisionReady(r)
    BY <1>0, <1>5 DEF RevisionReady, Goto, TypeOK, AfterActivation
  <1>6. CASE Activate(r) /\ pc'[r] # "setLatest"
    BY <1>0, <1>6 DEF Activate, Goto, TypeOK, AfterActivation
  <1>7. CASE FailWithRevision(r) \/ Fail(r)
    <2>1. subject[r] \in Jobs
      BY <1>0, <1>7 DEF FailWithRevision, Fail, RunKnows, Finished
    <2>2. \A j \in Jobs : status'[j] = "completed" => status[j] = "completed"
      BY <1>0, <1>7, <2>1 DEF FailWithRevision, Fail, MarkFailed, TypeOK
    <2>3. pc[r] \in {"fail", "failWithRevision"} /\ pc'[r] \in {"fail", "done"}
      BY <1>0, <1>7 DEF FailWithRevision, Fail, Goto, Return, TypeOK
    <2>4. QED  BY <1>7, <2>2, <2>3 DEF FailWithRevision, Fail, AfterActivation
  <1>8. QED
    BY <1>1, <1>2, <1>3, <1>4, <1>5, <1>6, <1>7 DEF Early, AfterActivation

\* The steps in the middle: what is active stays, and the run goes on or gives up.
LEMMA AuditSteps ==
    ASSUME IInv, NEW r \in Runs, SetLatest(r) \/ AuditActivated(r) \/ RestoreMinute(r)
    PROVE  /\ pc[r] \in AfterActivation /\ pc'[r] \in AfterActivation
           /\ subject'[r] = subject[r]
           /\ UNCHANGED <<status, active, parent, activator, published, interrupted>>
  <1>1. r \in Handlers /\ TypeOK
    BY DEF Handlers, IInv
  <1>2. QED
    BY <1>1 DEF SetLatest, AuditActivated, RestoreMinute, Goto, TypeOK, AfterActivation,
                jobVars, transcriptVars, activityVars, history, locals

\* A run activates its revision on its parent, and undoes that or completes.
LEMMA ActivationSteps ==
    ASSUME IInv, NEW r \in Runs
    PROVE  /\ Activate(r) /\ pc'[r] = "setLatest" =>
                /\ pc[r] = "activate" /\ subject[r] \in Jobs /\ subject'[r] = subject[r]
                /\ active = parent[subject[r]] /\ active' = subject[r] /\ activator' = "run"
                /\ published' = published \cup {subject[r]} /\ UNCHANGED <<parent, jobVars>>
           /\ Rollback(r) =>
                /\ pc[r] = "rollback" /\ pc'[r] \notin AfterActivation
                /\ subject[r] \in Jobs
                /\ \/ /\ active = subject[r] /\ active' = parent[subject[r]]
                      /\ activator' = "rollback"
                   \/ /\ active # subject[r] \/ "transcripts" \in Faults
                      /\ UNCHANGED <<active, activator>>
                /\ UNCHANGED <<parent, published, jobVars>>
           /\ CompleteJob(r) =>
                /\ pc[r] = "complete" /\ pc'[r] \notin AfterActivation
                /\ subject[r] \in Jobs
                /\ \/ status' = [status EXCEPT ![subject[r]] = "completed"]
                   \/ "jobs" \in Faults /\ UNCHANGED status
                /\ UNCHANGED <<active, activator, parent, published, interrupted>>
  <1>. USE DEF jobVars, transcriptVars, activityVars, history, locals
  <1>1. r \in Handlers /\ TypeOK /\ RunKnows(r)
    BY DEF Handlers, IInv
  <1>2. CASE Activate(r) /\ pc'[r] = "setLatest"
    BY <1>1, <1>2 DEF Activate, Rollback, CompleteJob, Goto, TypeOK, RunKnows, Finished
  <1>3. CASE Rollback(r)
    BY <1>1, <1>3
       DEF Activate, Rollback, CompleteJob, Goto, TypeOK, RunKnows, Finished, AfterActivation
  <1>4. CASE CompleteJob(r)
    BY <1>1, <1>4
       DEF Activate, Rollback, CompleteJob, Goto, Return, TypeOK, RunKnows, Finished,
           AfterActivation
  <1>5. QED  BY <1>2, <1>3, <1>4

\* Every step of a run is of one of these kinds.
LEMMA RunKinds ==
    ASSUME NEW r \in Runs, Run(r), IInv
    PROVE  \/ Early(r)
           \/ Activate(r) /\ pc'[r] = "setLatest"
           \/ SetLatest(r) \/ AuditActivated(r) \/ RestoreMinute(r)
           \/ Rollback(r) \/ CompleteJob(r)
  BY DEF Run, Early

\* The job that a run made active is completed, or was interrupted, or its run is still at
\* work to complete or to undo it.
ActivationIsWatched ==
    active \in Jobs /\ activator = "run" =>
        \/ interrupted[active] \/ status[active] = "completed"
        \/ \E r \in Runs : pc[r] \in AfterActivation /\ subject[r] = active

\* A step of a run keeps the activation watched: it is the run that made it.
LEMMA WatchedByRun ==
    ASSUME IInv, ActivationIsWatched, NEW r \in Runs, Run(r), Next,
           "jobs" \notin Faults, "transcripts" \notin Faults
    PROVE  ActivationIsWatched'
  <1>. SUFFICES ASSUME active' \in Jobs, activator' = "run"
                PROVE  \/ interrupted'[active'] \/ status'[active'] = "completed"
                       \/ \E q \in Runs : pc'[q] \in AfterActivation /\ subject'[q] = active'
    BY DEF ActivationIsWatched
  <1>1. TypeOK /\ Runs \subseteq Handlers /\ Live \notin Jobs
    BY SttAssumption DEF IInv, Handlers
  <1>2. \A q \in Runs \ {r} : pc'[q] = pc[q] /\ subject'[q] = subject[q]
    BY <1>1, OthersStay
  <1>3. interrupted' = interrupted
    BY DEF Run, ClaimQueued, AssetMissing, Prepare, ProviderMissing, Transcribe,
           TranscribeFails, AfterTranscribe, CommitRevision, AfterCommit, RevisionReady,
           AfterReady, Activate, SetLatest, AuditActivated, RestoreMinute, Rollback,
           CompleteJob, FailWithRevision, Fail, RunStep, UpdateProgress, jobVars
  <1>4. status[active'] = "completed" => status'[active'] = "completed"
    BY TerminalStays DEF Terminal
  <1>5. CASE Early(r)
    <2>1. active' = active /\ activator' = activator
      BY <1>1, <1>5, EarlySteps DEF Base, transcriptVars
    <2>2. pc[r] \notin AfterActivation
      BY <1>5, EarlySteps
    <2>3. QED  BY <1>2, <1>3, <1>4, <2>1, <2>2 DEF ActivationIsWatched
  <1>6. CASE Activate(r) /\ pc'[r] = "setLatest"
    BY <1>6, ActivationSteps DEF AfterActivation
  <1>7. CASE SetLatest(r) \/ AuditActivated(r) \/ RestoreMinute(r)
    <2>1. /\ active' = active /\ activator' = activator /\ pc'[r] \in AfterActivation
          /\ subject'[r] = subject[r]
      BY <1>7, AuditSteps
    <2>2. QED  BY <1>2, <1>3, <1>4, <2>1 DEF ActivationIsWatched
  <1>8. CASE Rollback(r)
    <2>1. active # subject[r] /\ active' = active /\ activator' = activator
      BY <1>8, ActivationSteps
    <2>2. QED  BY <1>2, <1>3, <1>4, <2>1 DEF ActivationIsWatched
  <1>9. CASE CompleteJob(r)
    <2>1. /\ active' = active /\ activator' = activator
          /\ status' = [status EXCEPT ![subject[r]] = "completed"]
      BY <1>9, ActivationSteps
    <2>2. subject[r] = active => status'[active] = "completed"
      BY <1>1, <2>1 DEF TypeOK
    <2>3. QED  BY <1>2, <1>3, <1>4, <2>1, <2>2 DEF ActivationIsWatched
  <1>10. QED  BY <1>5, <1>6, <1>7, <1>8, <1>9, RunKinds

\* Every step keeps it watched; a restart interrupts the job.
LEMMA WatchedStep ==
    ASSUME IInv, ActivationIsWatched, [Next]_vars,
           "jobs" \notin Faults, "transcripts" \notin Faults
    PROVE  ActivationIsWatched'
  <1>1. CASE UNCHANGED vars
    BY <1>1 DEF ActivationIsWatched, vars, jobVars, transcriptVars, history, locals
  <1>2. SUFFICES ASSUME Next PROVE ActivationIsWatched'
    BY <1>1
  <1>3. ASSUME NEW r \in Runs, Run(r) PROVE ActivationIsWatched'
    BY <1>2, <1>3, WatchedByRun
  <1>4. TypeOK /\ Runs \subseteq Handlers /\ Live \notin Jobs
    BY SttAssumption DEF IInv, Handlers
  <1>5. active' \in Jobs /\ status[active'] = "completed" => status'[active'] = "completed"
    BY <1>2, TerminalStays DEF Terminal
  <1>6. ASSUME active' \in Jobs /\ activator' = "run" =>
                   active' = active /\ activator' = activator,
               interrupted' = interrupted,
               \A r \in Runs : pc'[r] = pc[r] /\ subject'[r] = subject[r]
        PROVE  ActivationIsWatched'
    BY <1>5, <1>6 DEF ActivationIsWatched
  <1>7. ASSUME NEW u \in Users, User(u) PROVE ActivationIsWatched'
    <2>1. \A r \in Runs : pc'[r] = pc[r] /\ subject'[r] = subject[r]
      BY <1>4, <1>7, OthersStay, SttAssumption DEF Handlers
    <2>2. interrupted' = interrupted
      BY <1>7 DEF User, SelectRevision, UserGenerate, UserActivate, UserSetLatest, UserAudit,
                  UserRollback, UserRestore, jobVars
    <2>3. activator' = "run" => active' = active /\ activator' = activator
      BY <1>7 DEF User, SelectRevision, UserGenerate, UserActivate, UserSetLatest, UserAudit,
                  UserRollback, UserRestore, transcriptVars, history
    <2>4. QED  BY <1>6, <2>1, <2>2, <2>3
  <1>8. ASSUME NEW w \in Writers, GenerateStart(w) \/ GenerateFinish(w)
        PROVE  ActivationIsWatched'
    <2>1. \A r \in Runs : pc'[r] = pc[r] /\ subject'[r] = subject[r]
      BY <1>4, <1>8, OthersStay, SttAssumption DEF Handlers
    <2>2. QED
      BY <1>6, <1>8, <2>1 DEF GenerateStart, GenerateFinish, jobVars, transcriptVars, history
  <1>9. ASSUME NEW j \in Jobs, CreateJob(j) \/ RequestCancel(j) PROVE ActivationIsWatched'
    BY <1>6, <1>9 DEF CreateJob, QueueNew, RequestCancel, transcriptVars, history, locals
  <1>10. CASE AppendTranscript
    BY <1>4, <1>6, <1>10 DEF AppendTranscript, Base, jobVars, history, locals
  <1>11. CASE Restart
    <2>1. SUFFICES ASSUME active \in Jobs, activator = "run"
                   PROVE  interrupted'[active] \/ status'[active] = "completed"
      BY <1>11 DEF Restart, ActivationIsWatched, transcriptVars, history
    <2>2. /\ active' = active
          /\ interrupted[active] \/ status[active] = "running" => interrupted'[active]
      BY <1>11, <2>1 DEF Restart, transcriptVars
    <2>3. ASSUME NEW r \in Runs, pc[r] \in AfterActivation, subject[r] = active
          PROVE  status[active] = "running"
      BY <2>3 DEF IInv, RunKnows, AfterActivation, NotCancellable, Finished, HoldsToken
    <2>4. QED  BY <1>5, <2>1, <2>2, <2>3 DEF ActivationIsWatched
  <1>12. QED  BY <1>2, <1>3, <1>7, <1>8, <1>9, <1>10, <1>11 DEF Next, RetryJob, CreateJob

\* When the activity store fails after an activation the run undoes it, as long as the other
\* two stores work: a revision stays active for a failed job only where somebody else made it
\* active, or the app stopped in between.
THEOREM FailuresAreUndone ==
    ASSUME "jobs" \notin Faults, "transcripts" \notin Faults
    PROVE  Spec => []FailedIsNotLeftActive
  <1>1. IInv /\ ActivationIsWatched => FailedIsNotLeftActive
    BY DEF IInv, RunKnows, AfterActivation, NotCancellable, Finished, HoldsToken,
           ActivationIsWatched, FailedIsNotLeftActive
  <1>2. IInv /\ ActivationIsWatched /\ [Next]_vars => ActivationIsWatched'
    BY WatchedStep
  <1>3. Init => ActivationIsWatched
    BY DEF Init, ActivationIsWatched
  <1>4. QED  BY <1>1, <1>2, <1>3, Invariance, PTL DEF Spec

-----------------------------------------------------------------------------
(* Jobs that raced on the same parent. *)

\* The activation of a job is in force: it is completed, or its run has activated the
\* revision and has not undone it yet.
InForce(j) ==
    \/ status[j] = "completed"
    \/ \E r \in Runs : pc[r] \in AfterActivation /\ subject[r] = j

\* Nothing in force was committed on the active revision, and nothing in force has a sibling
\* in force: what is active is a leaf of the revisions the runs published.
ActiveIsLeaf ==
    /\ active = None => \A j \in Jobs : parent[j] = None
    /\ \A j \in Jobs : parent[j] \in Jobs => parent[j] \in published
    /\ active \in Jobs => active \in published
    /\ \A j \in Jobs : InForce(j) => parent[j] # active
    /\ \A j, k \in Jobs : InForce(j) /\ InForce(k) /\ parent[j] = parent[k] => j = k

\* A job in force was published and its revision is committed.
LEMMA InForceIsPublished ==
    ASSUME IInv, NEW j \in Jobs, InForce(j)
    PROVE  j \in published /\ parent[j] # None
  BY DEF InForce, IInv, RunKnows, CompletedIsPublished, AfterActivation, WithRevision,
         WithMinute, NotCancellable, Finished

\* Where no revision moves, ending a run or a job only takes jobs out of force.
LEMMA LeafKept ==
    ASSUME ActiveIsLeaf, UNCHANGED <<parent, active, published>>,
           \A j \in Jobs : InForce(j)' => InForce(j)
    PROVE  ActiveIsLeaf'
  <1>. HIDE DEF InForce
  <1>1. QED  BY DEF ActiveIsLeaf

\* A run's step preserves the leaf: activating is a compare-and-set on the parent.
LEMMA LeafByRun ==
    ASSUME IInv, ActiveIsLeaf, NEW r \in Runs, Run(r)
    PROVE  ActiveIsLeaf'
  <1>1. TypeOK /\ r \in Handlers /\ RunKnows(r) /\ Runs \subseteq Handlers
    BY DEF IInv, Handlers
  <1>2. \A q \in Runs \ {r} : pc'[q] = pc[q] /\ subject'[q] = subject[q]
    BY <1>1, OthersStay
  <1>3. Live \notin Jobs /\ None \notin Jobs /\ None # Live
    BY SttAssumption
  <1>4. CASE Early(r)
    <2>1. \A j \in Jobs : InForce(j)' => InForce(j)
      BY <1>2, <1>4, EarlySteps DEF InForce
    <2>2. published' = published
      BY <1>4, EarlySteps
    <2>3. CASE UNCHANGED transcriptVars
      BY <2>1, <2>2, <2>3, LeafKept DEF transcriptVars
    <2>4. CASE ~UNCHANGED transcriptVars
      <3>1. PICK s \in Jobs : s = subject[r]
        BY <1>4, <2>4, EarlySteps
      <3>2. /\ s \notin published
            /\ parent' = [parent EXCEPT ![s] = Base] /\ active' = Base
        BY <1>4, <2>4, <3>1, EarlySteps
      <3>3. ~InForce(s)
        BY <3>2, InForceIsPublished
      <3>4. /\ parent'[s] = Base
            /\ \A j \in Jobs \ {s} : parent'[j] = parent[j]
        BY <1>1, <3>2 DEF TypeOK
      <3>5. ASSUME NEW j \in Jobs, InForce(j) PROVE parent[j] # None /\ j # s
        BY <3>3, <3>5, InForceIsPublished
      <3>6. Base # None /\ (active # None => Base = active) /\ (Base \in Jobs => Base = active)
        BY <1>3 DEF Base
      <3>7. \A j \in Jobs : InForce(j) => parent[j] # Base
        BY <3>5, <3>6 DEF ActiveIsLeaf
      <3>. HIDE DEF InForce, Base
      <3>8. QED
        BY <2>1, <2>2, <3>2, <3>4, <3>5, <3>6, <3>7 DEF ActiveIsLeaf
    <2>5. QED  BY <2>3, <2>4
  <1>5. CASE Activate(r) /\ pc'[r] = "setLatest"
    <2>1. PICK s \in Jobs : s = subject[r]
      BY <1>5, ActivationSteps
    <2>2. /\ active = parent[s] /\ active' = s /\ parent' = parent
          /\ published' = published \cup {s} /\ s \notin published
      BY <1>1, <1>5, <2>1, ActivationSteps DEF RunKnows, Finished, BeforeActivation
    <2>3. \A j \in Jobs : InForce(j)' => InForce(j) \/ j = s
      BY <1>2, <1>5, <2>1, ActivationSteps DEF InForce, jobVars
    <2>4. \A j \in Jobs : parent[j] # s
      BY <2>2 DEF ActiveIsLeaf
    <2>. HIDE DEF InForce
    <2>5. QED  BY <1>3, <2>2, <2>3, <2>4 DEF ActiveIsLeaf
  <1>6. CASE SetLatest(r) \/ AuditActivated(r) \/ RestoreMinute(r)
    <2>1. \A j \in Jobs : InForce(j)' => InForce(j)
      BY <1>2, <1>6, AuditSteps DEF InForce
    <2>2. QED  BY <1>6, <2>1, AuditSteps, LeafKept
  <1>7. CASE Rollback(r)
    <2>1. PICK s \in Jobs : s = subject[r]
      BY <1>7, ActivationSteps
    <2>2. pc[r] = "rollback" /\ pc'[r] \notin AfterActivation
          /\ UNCHANGED <<parent, published, status>>
      BY <1>7, ActivationSteps DEF jobVars
    <2>3. \A j \in Jobs : InForce(j)' => InForce(j)
      BY <1>2, <2>2 DEF InForce
    <2>4. CASE active' = active
      BY <2>2, <2>3, <2>4, LeafKept
    <2>5. CASE active' # active
      <3>1. active = s /\ active' = parent[s]
        BY <1>7, <2>1, <2>5, ActivationSteps
      <3>2. status[s] = "running" /\ runToken[s] = r
        BY <1>1, <2>1, <2>2
           DEF RunKnows, Finished, NotCancellable, AfterActivation, HoldsToken
      <3>3. ASSUME NEW q \in Runs, pc[q] \in AfterActivation, subject[q] = s PROVE q = r
        BY <3>2, <3>3
           DEF IInv, RunKnows, Finished, NotCancellable, AfterActivation, HoldsToken
      <3>4. ~InForce(s)'
        BY <1>2, <2>2, <3>2, <3>3 DEF InForce
      <3>5. InForce(s)
        BY <2>1, <2>2 DEF InForce, AfterActivation
      <3>6. parent[s] # None
        BY <3>5, InForceIsPublished
      <3>. HIDE DEF InForce
      <3>7. QED  BY <2>2, <2>3, <3>1, <3>4, <3>5, <3>6 DEF ActiveIsLeaf
    <2>6. QED  BY <2>4, <2>5
  <1>8. CASE CompleteJob(r)
    <2>1. PICK s \in Jobs : s = subject[r]
      BY <1>8, ActivationSteps
    <2>2. /\ pc[r] = "complete" /\ pc'[r] \notin AfterActivation
          /\ UNCHANGED <<parent, active, published>>
          /\ \A j \in Jobs : status'[j] = "completed" => status[j] = "completed" \/ j = s
      BY <1>1, <1>8, <2>1, ActivationSteps DEF TypeOK
    <2>3. \A j \in Jobs : InForce(j)' => InForce(j)
      BY <1>2, <2>1, <2>2 DEF InForce, AfterActivation
    <2>4. QED  BY <2>2, <2>3, LeafKept
  <1>9. QED  BY <1>4, <1>5, <1>6, <1>7, <1>8, RunKinds

\* Every step preserves the leaf when no user selects revisions.
LEMMA LeafStep ==
    ASSUME IInv, ActiveIsLeaf, [Next]_vars, Users = {}
    PROVE  ActiveIsLeaf'
  <1>1. TypeOK /\ Runs \subseteq Handlers /\ Live \notin Jobs /\ None # Live
    BY SttAssumption DEF IInv, Handlers
  <1>. USE DEF jobVars, transcriptVars, history, locals
  <1>2. ASSUME UNCHANGED <<parent, active, published>>,
               \A j \in Jobs : status'[j] = "completed" => status[j] = "completed",
               \A r \in Runs : pc'[r] = pc[r] /\ subject'[r] = subject[r]
        PROVE  ActiveIsLeaf'
    BY <1>2, LeafKept DEF InForce
  <1>3. CASE UNCHANGED vars
    BY <1>2, <1>3 DEF vars
  <1>4. ASSUME NEW r \in Runs, Run(r) PROVE ActiveIsLeaf'
    BY <1>4, LeafByRun
  <1>5. ASSUME NEW w \in Writers, GenerateStart(w) \/ GenerateFinish(w) PROVE ActiveIsLeaf'
    <2>1. \A r \in Runs : pc'[r] = pc[r] /\ subject'[r] = subject[r]
      BY <1>1, <1>5, OthersStay, SttAssumption DEF Handlers
    <2>2. QED  BY <1>2, <1>5, <2>1 DEF GenerateStart, GenerateFinish
  <1>6. ASSUME NEW j \in Jobs, CreateJob(j) \/ RequestCancel(j) PROVE ActiveIsLeaf'
    BY <1>1, <1>2, <1>6 DEF CreateJob, QueueNew, RequestCancel, TypeOK
  <1>7. CASE AppendTranscript
    <2>1. \A j \in Jobs : InForce(j)' => InForce(j)
      BY <1>7 DEF AppendTranscript, InForce
    <2>2. \A j \in Jobs : parent[j] = None /\ ~InForce(j)
      BY <1>7, InForceIsPublished DEF AppendTranscript, ActiveIsLeaf
    <2>3. active' = Live /\ UNCHANGED <<parent, published>>
      BY <1>7 DEF AppendTranscript, Base
    <2>. HIDE DEF InForce
    <2>4. QED  BY <1>1, <2>1, <2>2, <2>3 DEF ActiveIsLeaf
  <1>8. CASE Restart
    <2>1. \A j \in Jobs : InForce(j)' => InForce(j)
      BY <1>1, <1>8 DEF Restart, InForce, AfterActivation
    <2>2. QED  BY <1>8, <2>1, LeafKept DEF Restart
  <1>9. QED  BY <1>3, <1>4, <1>5, <1>6, <1>7, <1>8 DEF Next, RetryJob, CreateJob

\* Of the jobs that started from the same revision at most one completes, whatever fails: the
\* compare-and-set of activateRevision refuses the others.  (With a user who goes back to the
\* parent revision by hand, a second one may follow.)
THEOREM SiblingsExclude ==
    ASSUME Users = {}
    PROVE  Spec => []PublishedSiblingsExclude
  <1>1. ActiveIsLeaf => PublishedSiblingsExclude
    BY DEF ActiveIsLeaf, InForce, PublishedSiblingsExclude
  <1>2. IInv /\ ActiveIsLeaf /\ [Next]_vars => ActiveIsLeaf'
    BY LeafStep
  <1>3. Init => ActiveIsLeaf
    BY SttAssumption DEF Init, ActiveIsLeaf, InForce, AfterActivation, Handlers
  <1>4. QED  BY <1>1, <1>2, <1>3, Invariance, PTL DEF Spec

-----------------------------------------------------------------------------
(* The latest minute. *)

\* Places in the activity store's queue, and the ones whose operation is to set the latest
\* minute; the others write an audit entry.
Places == 1..Len(activityQueue)
Pending(i) == pc[activityQueue[i]] = "setLatest"
Sound(h) == pc[h] \notin {"rollback", "restoreMinute"}

\* The latest minute is that of the active revision or the last operation on its way to it
\* will make it so.
LatestIsOnItsWay ==
    /\ \A h \in Runs \cup Users : Sound(h)
    /\ \A i \in Places : pc[activityQueue[i]] \in {"setLatest", "audit"}
    /\ \A i, k \in Places : activityQueue[i] = activityQueue[k] => i = k
    /\ active = None => activator = "none" /\ activityQueue = <<>>
    /\ \A i \in Places :
          Pending(i) /\ (\A k \in Places : Pending(k) => k <= i)
              => subject[activityQueue[i]] = active
    /\ (\A i \in Places : ~Pending(i)) /\ activator # "none" => latest = active

\* All handlers but h stay where they are.
Others(h) == \A q \in (Runs \cup Users) \ {h} : pc'[q] = pc[q] /\ subject'[q] = subject[q]

\* Who waits in the activity store is a handler.
LEMMA Waiting ==
    ASSUME TypeOK
    PROVE  /\ Len(activityQueue) \in Nat
           /\ \A i \in Places : activityQueue[i] \in Runs \cup Users
  BY DEF TypeOK, Places

\* A step of a handler that does not wait, of the job store or of the call.
LEMMA LatestKept ==
    ASSUME TypeOK, LatestIsOnItsWay, UNCHANGED <<activityQueue, latest, activator>>,
           active' = active \/ (active = None /\ active' # None),
           \A h \in Runs \cup Users :
              \/ pc'[h] = pc[h] /\ subject'[h] = subject[h]
              \/ pc[h] \notin {"setLatest", "audit"} /\ Sound(h)'
    PROVE  LatestIsOnItsWay'
  <1>1. Places' = Places /\ \A i \in Places : activityQueue'[i] = activityQueue[i]
    BY DEF Places
  <1>2. ASSUME NEW i \in Places
        PROVE  /\ pc'[activityQueue[i]] = pc[activityQueue[i]]
               /\ subject'[activityQueue[i]] = subject[activityQueue[i]]
    BY Waiting DEF LatestIsOnItsWay
  <1>3. \A i \in Places : Pending(i)' = Pending(i)
    BY <1>1, <1>2 DEF Pending
  <1>4. \A h \in Runs \cup Users : Sound(h)'
    BY DEF LatestIsOnItsWay, Sound
  <1>5. active = None => Places = {}
    BY DEF LatestIsOnItsWay, Places
  <1>. HIDE DEF Places, Pending, Sound
  <1>6. QED  BY <1>1, <1>2, <1>3, <1>4, <1>5 DEF LatestIsOnItsWay

\* An activation queues the operation that sets the latest minute behind all others.
LEMMA LatestQueued ==
    ASSUME TypeOK, LatestIsOnItsWay, NEW h \in Runs \cup Users, Others(h), Enqueue(h),
           pc[h] \notin {"setLatest", "audit"}, pc'[h] = "setLatest",
           subject'[h] = active', active' # None
    PROVE  LatestIsOnItsWay'
  <1>1. Len(activityQueue) \in Nat /\ Places' = 1..(Len(activityQueue) + 1)
    BY DEF Enqueue, Places, TypeOK
  <1>2. PICK last \in Nat : last = Len(activityQueue) + 1
    BY <1>1
  <1>3. /\ Places' = Places \cup {last} /\ last \notin Places
        /\ \A i \in Places : i < last /\ i \in Nat
    BY <1>1, <1>2 DEF Places
  <1>4. activityQueue'[last] = h /\ \A i \in Places : activityQueue'[i] = activityQueue[i]
    BY <1>1, <1>2 DEF Enqueue, Places, TypeOK
  <1>5. ASSUME NEW i \in Places
        PROVE  /\ activityQueue[i] # h
               /\ pc'[activityQueue[i]] = pc[activityQueue[i]]
    BY Waiting DEF LatestIsOnItsWay, Others
  <1>6. Pending(last)' /\ subject'[h] = active'
    BY <1>4, <1>2 DEF Pending
  <1>7. \A q \in Runs \cup Users : Sound(q)'
    BY DEF LatestIsOnItsWay, Others, Sound
  <1>. HIDE DEF Places, Pending, Sound
  <1>8. \A i \in Places' : pc'[activityQueue'[i]] \in {"setLatest", "audit"}
    BY <1>3, <1>4, <1>5 DEF LatestIsOnItsWay
  <1>9. \A i, k \in Places' : activityQueue'[i] = activityQueue'[k] => i = k
    BY <1>3, <1>4, <1>5 DEF LatestIsOnItsWay
  <1>10. ASSUME NEW i \in Places', \A k \in Places' : Pending(k)' => k <= i PROVE i = last
    BY <1>3, <1>6, <1>10
  <1>11. QED  BY <1>3, <1>4, <1>6, <1>7, <1>8, <1>9, <1>10 DEF LatestIsOnItsWay

\* The operation at the head sets the latest minute, and its handler queues its audit entry.
LEMMA LatestSet ==
    ASSUME TypeOK, LatestIsOnItsWay, NEW h \in Runs \cup Users, Others(h), AtHead(h),
           pc[h] = "setLatest", pc'[h] = "audit", Requeue(h), latest' = subject[h],
           UNCHANGED <<active, activator>>
    PROVE  LatestIsOnItsWay'
  <1>1. PICK last \in Nat \ {0} : last = Len(activityQueue)
    BY DEF AtHead, TypeOK
  <1>2. Places = 1..last /\ Places' = 1..last /\ activityQueue[1] = h
    BY <1>1 DEF Requeue, Places, TypeOK, AtHead
  <1>3. /\ activityQueue'[last] = h
        /\ \A i \in 1..(last - 1) : activityQueue'[i] = activityQueue[i + 1]
    BY <1>1 DEF Requeue, TypeOK, AtHead
  <1>4. ASSUME NEW i \in 1..(last - 1)
        PROVE  /\ i + 1 \in Places /\ activityQueue[i + 1] # h
               /\ pc'[activityQueue'[i]] = pc[activityQueue[i + 1]]
               /\ subject'[activityQueue'[i]] = subject[activityQueue[i + 1]]
               /\ Pending(i)' = Pending(i + 1)
    <2>1. i + 1 \in Places /\ 1 \in Places /\ i + 1 # 1
      BY <1>1, <1>2
    <2>2. activityQueue[i + 1] # h
      BY <1>2, <2>1 DEF LatestIsOnItsWay
    <2>3. activityQueue[i + 1] \in (Runs \cup Users) \ {h}
      BY <2>1, <2>2, Waiting
    <2>4. QED  BY <1>3, <2>1, <2>2, <2>3 DEF Others, Pending
  <1>5. ~Pending(last)'
    BY <1>3 DEF Pending
  <1>6. Pending(1)
    BY <1>2 DEF Pending
  <1>7. \A q \in Runs \cup Users : Sound(q)'
    BY DEF LatestIsOnItsWay, Others, Sound
  <1>8. \A i \in Places' : i = last \/ i \in 1..(last - 1)
    BY <1>1, <1>2
  <1>9. active # None
    BY DEF LatestIsOnItsWay, AtHead
  <1>. HIDE DEF Places, Pending, Sound
  <1>10. \A i \in Places' : pc'[activityQueue'[i]] \in {"setLatest", "audit"}
    BY <1>3, <1>4, <1>8 DEF LatestIsOnItsWay
  <1>11. ASSUME NEW i \in Places', NEW k \in Places', activityQueue'[i] = activityQueue'[k]
         PROVE  i = k
    <2>1. CASE i = last \/ k = last
      BY <1>3, <1>4, <1>8, <1>11, <2>1
    <2>2. CASE i # last /\ k # last
      <3>1. i \in 1..(last - 1) /\ k \in 1..(last - 1)
        BY <1>8, <2>2
      <3>2. activityQueue[i + 1] = activityQueue[k + 1]
        BY <1>3, <1>11, <3>1
      <3>3. i + 1 = k + 1
        BY <1>4, <3>1, <3>2 DEF LatestIsOnItsWay
      <3>4. QED  BY <3>1, <3>3
    <2>3. QED  BY <2>1, <2>2
  <1>12. ASSUME NEW i \in Places', Pending(i)', \A k \in Places' : Pending(k)' => k <= i
         PROVE  subject'[activityQueue'[i]] = active'
    <2>1. i \in 1..(last - 1)
      BY <1>5, <1>8, <1>12
    <2>2. Pending(i + 1) /\ i + 1 \in Places
      BY <1>4, <1>12, <2>1
    <2>3. ASSUME NEW k \in Places, Pending(k) PROVE k <= i + 1
      <3>1. CASE k = 1
        BY <2>1, <3>1
      <3>2. CASE k # 1
        <4>1. k - 1 \in 1..(last - 1) /\ k - 1 \in Places' /\ k = (k - 1) + 1
          BY <1>1, <1>2, <3>2
        <4>2. Pending(k - 1)'
          BY <1>4, <2>3, <4>1
        <4>3. k - 1 <= i
          BY <1>12, <4>1, <4>2
        <4>4. QED  BY <4>1, <4>3, <2>1
      <3>3. QED  BY <3>1, <3>2
    <2>4. subject[activityQueue[i + 1]] = active
      BY <2>2, <2>3 DEF LatestIsOnItsWay
    <2>5. QED  BY <1>4, <2>1, <2>4
  <1>13. ASSUME \A i \in Places' : ~Pending(i)' PROVE latest' = active'
    <2>1. ASSUME NEW k \in Places, Pending(k) PROVE k <= 1
      <3>1. SUFFICES ASSUME k # 1 PROVE FALSE
        BY <1>2
      <3>2. k - 1 \in 1..(last - 1) /\ k - 1 \in Places' /\ k = (k - 1) + 1
        BY <1>1, <1>2, <3>1
      <3>3. QED  BY <1>4, <1>13, <2>1, <3>2
    <2>2. 1 \in Places
      BY <1>1, <1>2
    <2>3. subject[activityQueue[1]] = active
      BY <1>6, <2>1, <2>2 DEF LatestIsOnItsWay
    <2>4. QED  BY <1>2, <2>3
  <1>14. QED  BY <1>7, <1>9, <1>10, <1>11, <1>12, <1>13 DEF LatestIsOnItsWay

\* The operation at the head writes the audit entry, and its handler waits no more.
LEMMA LatestAudited ==
    ASSUME TypeOK, LatestIsOnItsWay, NEW h \in Runs \cup Users, Others(h), AtHead(h),
           pc[h] = "audit", Sound(h)', Dequeue, UNCHANGED <<active, activator, latest>>
    PROVE  LatestIsOnItsWay'
  <1>1. PICK last \in Nat \ {0} : last = Len(activityQueue)
    BY DEF AtHead, TypeOK
  <1>2. Places = 1..last /\ Places' = 1..(last - 1) /\ activityQueue[1] = h
    BY <1>1 DEF Dequeue, Places, TypeOK, AtHead
  <1>3. \A i \in Places' : activityQueue'[i] = activityQueue[i + 1]
    BY <1>1, <1>2 DEF Dequeue, TypeOK, AtHead
  <1>4. ASSUME NEW i \in Places'
        PROVE  /\ i + 1 \in Places /\ activityQueue[i + 1] # h
               /\ pc'[activityQueue'[i]] = pc[activityQueue[i + 1]]
               /\ subject'[activityQueue'[i]] = subject[activityQueue[i + 1]]
               /\ Pending(i)' = Pending(i + 1)
    <2>1. i + 1 \in Places /\ 1 \in Places /\ i + 1 # 1
      BY <1>1, <1>2
    <2>2. activityQueue[i + 1] # h
      BY <1>2, <2>1 DEF LatestIsOnItsWay
    <2>3. activityQueue[i + 1] \in (Runs \cup Users) \ {h}
      BY <2>1, <2>2, Waiting
    <2>4. QED  BY <1>3, <2>1, <2>2, <2>3 DEF Others, Pending
  <1>5. ASSUME NEW k \in Places, Pending(k)
        PROVE  k - 1 \in Places' /\ k = (k - 1) + 1 /\ Pending(k - 1)'
    <2>1. k # 1
      BY <1>2, <1>5 DEF Pending
    <2>2. k - 1 \in Places' /\ k = (k - 1) + 1
      BY <1>1, <1>2, <2>1
    <2>3. QED  BY <1>4, <1>5, <2>2
  <1>6. \A q \in Runs \cup Users : Sound(q)'
    BY DEF LatestIsOnItsWay, Others, Sound
  <1>7. active # None /\ Places' \subseteq Nat /\ Places \subseteq Nat
    BY <1>1, <1>2 DEF LatestIsOnItsWay, AtHead
  <1>. HIDE DEF Places, Pending, Sound
  <1>8. \A i \in Places' : pc'[activityQueue'[i]] \in {"setLatest", "audit"}
    BY <1>4 DEF LatestIsOnItsWay
  <1>9. ASSUME NEW i \in Places', NEW k \in Places', activityQueue'[i] = activityQueue'[k]
        PROVE  i = k
    <2>1. i + 1 = k + 1
      BY <1>3, <1>4, <1>9 DEF LatestIsOnItsWay
    <2>2. QED  BY <1>7, <2>1
  <1>10. ASSUME NEW i \in Places', Pending(i)', \A k \in Places' : Pending(k)' => k <= i
         PROVE  subject'[activityQueue'[i]] = active'
    <2>1. Pending(i + 1) /\ i + 1 \in Places
      BY <1>4, <1>10
    <2>2. ASSUME NEW k \in Places, Pending(k) PROVE k <= i + 1
      BY <1>5, <1>7, <1>10, <2>2
    <2>3. subject[activityQueue[i + 1]] = active
      BY <2>1, <2>2 DEF LatestIsOnItsWay
    <2>4. QED  BY <1>4, <2>3
  <1>11. (\A i \in Places' : ~Pending(i)') => \A k \in Places : ~Pending(k)
    BY <1>5
  <1>12. QED  BY <1>6, <1>7, <1>8, <1>9, <1>10, <1>11 DEF LatestIsOnItsWay

\* A step of the runner: activating queues the operation, the audit ends the wait.
LEMMA LatestByRun ==
    ASSUME IInv, LatestIsOnItsWay, NEW r \in Runs, Run(r), "activity" \notin Faults
    PROVE  LatestIsOnItsWay'
  <1>1. TypeOK /\ r \in Handlers /\ Runs \cup Users \subseteq Handlers /\ RunKnows(r)
    BY DEF IInv, Handlers
  <1>2. Others(r)
    BY <1>1, OthersStay DEF Others
  <1>3. Sound(r) /\ None \notin Jobs /\ Live # None
    BY SttAssumption DEF LatestIsOnItsWay
  <1>. USE DEF jobVars, transcriptVars, activityVars, history, locals
  <1>4. ASSUME UNCHANGED <<activityQueue, latest, activator>>,
               active' = active \/ (active = None /\ active' # None),
               pc[r] \notin {"setLatest", "audit"}, Sound(r)'
        PROVE  LatestIsOnItsWay'
    BY <1>1, <1>2, <1>4, LatestKept DEF Others
  <1>5. ASSUME NEW j \in Jobs, ClaimQueued(r, j) PROVE LatestIsOnItsWay'
    BY <1>1, <1>4, <1>5 DEF ClaimQueued, Sound, TypeOK
  <1>6. CASE Prepare(r) \/ AfterTranscribe(r) \/ AfterCommit(r) \/ AfterReady(r)
    BY <1>1, <1>4, <1>6
       DEF Prepare, AfterTranscribe, AfterCommit, AfterReady, UpdateProgress, Goto, Return,
           Sound, TypeOK
  <1>7. CASE AssetMissing(r) \/ ProviderMissing(r) \/ Transcribe(r) \/ TranscribeFails(r)
    BY <1>1, <1>4, <1>7
       DEF AssetMissing, ProviderMissing, Transcribe, TranscribeFails, RunStep, Goto, Sound,
           TypeOK
  <1>8. CASE CommitRevision(r)
    BY <1>1, <1>3, <1>4, <1>8 DEF CommitRevision, Base, Goto, Sound, TypeOK
  <1>9. CASE RevisionReady(r)
    BY <1>1, <1>4, <1>9 DEF RevisionReady, Goto, Sound, TypeOK
  <1>10. CASE Activate(r) /\ pc'[r] # "setLatest"
    BY <1>1, <1>4, <1>10 DEF Activate, Goto, Sound, TypeOK
  <1>11. CASE Activate(r) /\ pc'[r] = "setLatest"
    <2>1. /\ subject[r] \in Jobs /\ active' = subject[r] /\ subject'[r] = subject[r]
          /\ pc[r] = "activate"
      BY <1>11, ActivationSteps
    <2>2. Enqueue(r)
      BY <1>1, <1>11 DEF Activate, Goto, TypeOK
    <2>3. QED  BY <1>1, <1>2, <1>3, <1>11, <2>1, <2>2, LatestQueued
  <1>12. CASE SetLatest(r)
    <2>1. /\ pc[r] = "setLatest" /\ AtHead(r) /\ latest' = subject[r] /\ Requeue(r)
          /\ Goto(r, "audit") /\ UNCHANGED <<active, activator>>
      BY <1>12 DEF SetLatest
    <2>2. pc'[r] = "audit"
      BY <1>1, <2>1 DEF Goto, TypeOK
    <2>3. QED  BY <1>1, <1>2, <2>1, <2>2, LatestSet
  <1>13. CASE AuditActivated(r)
    <2>1. /\ pc[r] = "audit" /\ AtHead(r) /\ Dequeue /\ Goto(r, "complete")
          /\ UNCHANGED <<active, activator, latest>>
      BY <1>13 DEF AuditActivated
    <2>2. Sound(r)'
      BY <1>1, <2>1 DEF Goto, TypeOK, Sound
    <2>3. QED  BY <1>1, <1>2, <2>1, <2>2, LatestAudited
  <1>14. ~RestoreMinute(r) /\ ~Rollback(r)
    BY <1>3 DEF RestoreMinute, Rollback, Sound
  <1>15. CASE CompleteJob(r) \/ FailWithRevision(r) \/ Fail(r)
    BY <1>1, <1>4, <1>15 DEF CompleteJob, FailWithRevision, Fail, Goto, Return, Sound, TypeOK
  <1>16. QED
    BY <1>5, <1>6, <1>7, <1>8, <1>9, <1>10, <1>11, <1>12, <1>13, <1>14, <1>15 DEF Run

\* The same for the handler with which a user activates a revision.
LEMMA LatestByUser ==
    ASSUME IInv, LatestIsOnItsWay, NEW u \in Users, User(u), "activity" \notin Faults
    PROVE  LatestIsOnItsWay'
  <1>1. /\ TypeOK /\ u \in Handlers /\ Runs \cup Users \subseteq Handlers /\ u \notin Runs
        /\ pc[u] \notin Finished => subject[u] \in Revisions
    BY SttAssumption DEF IInv, Handlers, HasSubject
  <1>2. Others(u)
    BY <1>1, OthersStay DEF Others
  <1>3. Sound(u) /\ None \notin Revisions
    BY SttAssumption DEF LatestIsOnItsWay, Revisions
  <1>. USE DEF jobVars, transcriptVars, activityVars, history, locals
  <1>4. ASSUME UNCHANGED <<activityQueue, latest, activator, active>>,
               pc[u] \notin {"setLatest", "audit"}, Sound(u)'
        PROVE  LatestIsOnItsWay'
    BY <1>1, <1>2, <1>4, LatestKept DEF Others
  <1>5. ASSUME NEW v \in Revisions, SelectRevision(u, v) PROVE LatestIsOnItsWay'
    BY <1>1, <1>4, <1>5 DEF SelectRevision, Sound, TypeOK
  <1>6. CASE UserGenerate(u)
    BY <1>1, <1>4, <1>6 DEF UserGenerate, Goto, Sound, TypeOK
  <1>7. CASE UserActivate(u) /\ ~Enqueue(u)
    BY <1>1, <1>4, <1>7 DEF UserActivate, Return, Sound, TypeOK
  <1>8. CASE UserActivate(u) /\ Enqueue(u)
    <2>1. activityQueue' # activityQueue
      BY <1>1, <1>8 DEF Enqueue, TypeOK
    <2>2. /\ pc[u] = "select" /\ active' = subject[u] /\ UNCHANGED subject
          /\ pc' = [pc EXCEPT ![u] = "setLatest"]
      BY <1>8, <2>1 DEF UserActivate
    <2>3. pc'[u] = "setLatest" /\ active' # None
      BY <1>1, <1>3, <2>2 DEF TypeOK, Finished
    <2>4. QED  BY <1>1, <1>2, <1>8, <2>2, <2>3, LatestQueued
  <1>9. CASE UserSetLatest(u)
    <2>1. /\ pc[u] = "setLatest" /\ AtHead(u) /\ latest' = subject[u] /\ Requeue(u)
          /\ Goto(u, "audit") /\ UNCHANGED <<active, activator>>
      BY <1>9 DEF UserSetLatest
    <2>2. pc'[u] = "audit"
      BY <1>1, <2>1 DEF Goto, TypeOK
    <2>3. QED  BY <1>1, <1>2, <2>1, <2>2, LatestSet
  <1>10. CASE UserAudit(u)
    <2>1. /\ pc[u] = "audit" /\ AtHead(u) /\ Dequeue /\ Return(u)
          /\ UNCHANGED <<active, activator, latest>>
      BY <1>10 DEF UserAudit
    <2>2. Sound(u)'
      BY <1>1, <2>1 DEF Return, TypeOK, Sound
    <2>3. QED  BY <1>1, <1>2, <2>1, <2>2, LatestAudited
  <1>11. ~UserRollback(u) /\ ~UserRestore(u)
    BY <1>3 DEF UserRollback, UserRestore, Sound
  <1>12. QED  BY <1>5, <1>6, <1>7, <1>8, <1>9, <1>10, <1>11 DEF User

\* Every step, when no minute is regenerated by hand and no write of the activity store fails.
LEMMA LatestStep ==
    ASSUME IInv, LatestIsOnItsWay, [Next]_vars,
           "activity" \notin Faults, "crash" \notin Faults, Writers = {}
    PROVE  LatestIsOnItsWay'
  <1>1. TypeOK /\ Live # None
    BY SttAssumption DEF IInv
  <1>. USE DEF jobVars, transcriptVars, activityVars, history, locals
  <1>2. ASSUME UNCHANGED <<activityQueue, latest, activator, pc, subject>>,
               active' = active \/ (active = None /\ active' # None)
        PROVE  LatestIsOnItsWay'
    BY <1>1, <1>2, LatestKept
  <1>3. CASE UNCHANGED vars
    BY <1>2, <1>3 DEF vars
  <1>4. ASSUME NEW j \in Jobs, CreateJob(j) \/ RequestCancel(j) PROVE LatestIsOnItsWay'
    BY <1>2, <1>4 DEF CreateJob, QueueNew, RequestCancel
  <1>5. CASE AppendTranscript
    BY <1>1, <1>2, <1>5 DEF AppendTranscript, Base
  <1>6. ~Restart
    BY DEF Restart
  <1>7. QED
    BY <1>3, <1>4, <1>5, <1>6, LatestByRun, LatestByUser DEF Next, RetryJob, CreateJob

\* Once the activity store is idle the latest minute is that of the revision activated last,
\* by a run or by a user, in whatever order their operations were queued.
THEOREM LatestIsOfActive ==
    ASSUME "activity" \notin Faults, "crash" \notin Faults, Writers = {}
    PROVE  Spec => []LatestFollowsActive
  <1>1. LatestIsOnItsWay => LatestFollowsActive
    BY DEF LatestIsOnItsWay, LatestFollowsActive, Places
  <1>2. IInv /\ LatestIsOnItsWay /\ [Next]_vars => LatestIsOnItsWay'
    BY LatestStep
  <1>3. Init => LatestIsOnItsWay
    BY DEF Init, LatestIsOnItsWay, Places, Sound, Handlers
  <1>4. QED  BY <1>1, <1>2, <1>3, Invariance, PTL DEF Spec

=============================================================================
