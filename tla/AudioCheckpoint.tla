-------------------------- MODULE AudioCheckpoint --------------------------
(***************************************************************************)
(* The encrypted audio checkpoint of one call: what the sink of the        *)
(* recording writes while the call runs, what the end of the call or a     *)
(* later recovery turns into audio assets, and who may remove it when.     *)
(*                                                                         *)
(* Two processes read, modify and write the manifest file.  The session is *)
(* the recording itself: its sink, and finalizeActiveCheckpoint or         *)
(* discardFailedStartCheckpoint, neither of which takes a lock.  The       *)
(* manager is whoever holds withRecoveryCallLock: recovering, discarding,  *)
(* changing the retention, and the two phases of the maintenance.  A       *)
(* segment is what one flush writes.  Keys, HMACs and quotas are left out; *)
(* where they can make a step fail the step may fail.                      *)
(***************************************************************************)
EXTENDS Undefined, Naturals, FiniteSets

CONSTANTS
    Speakers,
    Segments,      \* <<speaker, n>>: what the n-th flush of the speaker writes
    MaxChanges,    \* bound: retention changes
    MaxFaults,     \* bound: failing steps and crashes
    Races          \* "retain": the retention is changed during a recording;
                   \* "start": a checkpoint is recovered or discarded while its call starts

Changes == 0..MaxChanges
Manifest == [state : {"recording", "recoverable", "recovering", "partial"},
             segs : SUBSET Segments, retention : Changes, pending : Changes]

ASSUME CheckpointAssumption ==
    /\ Segments \subseteq Speakers \X Nat
    /\ None \notin Segments \cup Manifest
    /\ MaxChanges \in Nat /\ MaxFaults \in Nat
    /\ Races \subseteq {"retain", "start"}

VARIABLES
    dir,        \* the session directory exists
    disk,       \* manifest.json, None if there is none
    files,      \* segment files
    wavs,       \* recovered-audio/<call>: the segments in each speaker's WAV, {} if none
    assets,     \* audio assets of the call: the segments in each speaker's asset
    log,        \* checkpoint.* audit entries
    changesLogged,  \* retention changes with a checkpoint.retention_updated entry
    callEnded,
    expired,    \* retention changes (0: the initial one) whose deadline has passed
    changes,    \* retention changes staged so far
    phase,      \* the recording
    activeCall, \* activeCallId is this call
    sink,       \* "none", "open", "closed"
    sinkFailed,
    sinkSegs,   \* the segments in the sink's own copy of the manifest
    buffered,   \* captured, not flushed yet
    flushing,   \* the segment whose file is written and whose manifest is not
    op, pc, seen,   \* per process: operation, where it is, the manifest it has read
    durable,    \* history: flushed successfully
    faults

recordVars == <<assets, log, changesLogged, callEnded>>
fileVars == <<dir, disk, files, wavs>>
sinkVars == <<sink, sinkFailed, sinkSegs, buffered, flushing, durable>>
sessionVars == <<phase, activeCall>>
timeVars == <<expired, changes>>
procVars == <<op, pc, seen>>
vars == <<recordVars, fileVars, sinkVars, sessionVars, timeVars, procVars, faults>>

Procs == {"session", "manager"}
Fresh == [state |-> "recording", segs |-> {}, retention |-> 0, pending |-> 0]
NoAudio == [speaker \in Speakers |-> {}]

Of(segs, speaker) == {s \in segs : s[1] = speaker}
\* readAuthenticatedManifestOrNull finds a manifest.
Found == disk # None
IsExpired == Found /\ disk.retention \in expired
Pending == IF Found THEN disk.pending ELSE 0

\* A step fails: a write, the audit log, the asset store or the call store refuses.
Fault == faults < MaxFaults /\ faults' = faults + 1

\* The bytes of every call's segments, WAVs and assets are counted against one quota.
OverQuota == Fault

Goto(p, label) == pc' = [pc EXCEPT ![p] = label] /\ UNCHANGED <<op, seen>>
\* p goes on with the manifest it has read or written.
Hold(p, manifest, label) ==
    /\ pc' = [pc EXCEPT ![p] = label]
    /\ seen' = [seen EXCEPT ![p] = manifest]
    /\ UNCHANGED op
Finish(p) ==
    /\ pc' = [pc EXCEPT ![p] = "idle"]
    /\ op' = [op EXCEPT ![p] = "none"]
    /\ seen' = [seen EXCEPT ![p] = Fresh]
Begin(p, operation, label) ==
    /\ pc[p] = "idle"
    /\ pc' = [pc EXCEPT ![p] = label]
    /\ op' = [op EXCEPT ![p] = operation]
    /\ UNCHANGED seen

Init ==
    /\ dir = FALSE /\ disk = None /\ files = {} /\ wavs = NoAudio
    /\ assets = NoAudio /\ log = {} /\ changesLogged = {} /\ callEnded = FALSE
    /\ expired = {} /\ changes = 0
    /\ phase = "before" /\ activeCall = FALSE
    /\ sink = "none" /\ sinkFailed = FALSE /\ sinkSegs = {} /\ buffered = {}
    /\ flushing = None /\ durable = {}
    /\ op = [p \in Procs |-> "none"] /\ pc = [p \in Procs |-> "idle"]
    /\ seen = [p \in Procs |-> Fresh]
    /\ faults = 0

-----------------------------------------------------------------------------
(* The recording and its sink. *)

\* beginRecording: the directories, then the manifest; a failure removes the directories.
BeginRecording ==
    /\ \/ /\ phase = "before" /\ phase' = "over" /\ OverQuota
          /\ UNCHANGED <<dir, disk, sink>>
       \/ /\ phase = "before" /\ phase' = "creating" /\ dir' = TRUE
          /\ UNCHANGED <<disk, sink, faults>>
       \/ /\ phase = "creating" /\ phase' = "starting" /\ disk' = Fresh /\ sink' = "open"
          /\ UNCHANGED <<dir, faults>>
       \/ /\ phase = "creating" /\ phase' = "over" /\ dir' = FALSE /\ Fault
          /\ UNCHANGED <<disk, sink>>
    /\ UNCHANGED <<files, wavs, recordVars, sinkFailed, sinkSegs, buffered, flushing, durable,
                   activeCall, timeVars, procVars>>

\* write: a chunk is queued and buffered, unless the queue is over its limit.
Capture(s) ==
    /\ sink = "open" /\ ~sinkFailed
    /\ s \notin sinkSegs /\ {t \in Of(Segments, s[1]) : t[2] < s[2]} \subseteq sinkSegs
    /\ \/ Of(buffered, s[1]) = {} /\ buffered' = buffered \cup {s}
          /\ UNCHANGED <<sinkFailed, faults>>
       \/ Fault /\ sinkFailed' = TRUE /\ UNCHANGED buffered
    /\ UNCHANGED <<recordVars, fileVars, sink, sinkSegs, flushing, durable, sessionVars, timeVars,
                   procVars>>

\* flushSegment up to its try: the encrypted segment is written.
FlushFile(s) ==
    /\ sink # "none" /\ ~sinkFailed /\ flushing = None
    /\ s \in buffered
    /\ \/ /\ dir
          /\ files' = files \cup {s} /\ flushing' = s
          /\ UNCHANGED <<sinkFailed, faults>>
       \/ /\ ~dir
          /\ sinkFailed' = TRUE
          /\ UNCHANGED <<files, flushing, faults>>
       \/ /\ Fault
          /\ sinkFailed' = TRUE
          /\ UNCHANGED <<files, flushing>>
    /\ UNCHANGED <<recordVars, dir, disk, wavs, sink, sinkSegs, buffered, durable, sessionVars,
                   timeVars, procVars>>

\* Mutant: the state is not carried over into the new manifest.
StatelessManifest(s) == [Fresh EXCEPT !.segs = sinkSegs \cup {s}, !.state = None]

\* The manifest of the sink with the new segment: nothing is read from the disk.
SinkManifest(s) == [Fresh EXCEPT !.segs = sinkSegs \cup {s}]

\* The try of flushSegment: if the manifest is not written the segment is removed again, also
\* when the write is reported as failed only after its rename.
FlushManifest ==
    /\ flushing # None
    /\ \/ /\ dir
          /\ disk' = SinkManifest(flushing)
          /\ sinkSegs' = sinkSegs \cup {flushing}
          /\ durable' = durable \cup {flushing}
          /\ buffered' = buffered \ {flushing}
          /\ UNCHANGED <<files, sinkFailed, faults>>
       \/ /\ \/ ~dir /\ UNCHANGED <<disk, faults>>
             \/ dir /\ Fault /\ disk' \in {disk, SinkManifest(flushing)}
          /\ files' = files \ {flushing}
          /\ sinkFailed' = TRUE
          /\ UNCHANGED <<sinkSegs, durable, buffered>>
    /\ flushing' = None
    /\ UNCHANGED <<recordVars, dir, wavs, sink, sessionVars, timeVars, procVars>>

\* startRecordingSession is through, or its native capture did not start.
StartSucceeds ==
    /\ phase = "starting"
    /\ phase' = "recording" /\ activeCall' = TRUE
    /\ UNCHANGED <<recordVars, fileVars, sinkVars, timeVars, procVars, faults>>

\* The services are stopped: drain closes the sink and flushes what is buffered.
Stop ==
    /\ \/ phase = "recording" /\ UNCHANGED faults
       \/ phase = "starting" /\ Fault
    /\ phase' = "draining" /\ sink' = "closed"
    /\ UNCHANGED <<recordVars, fileVars, sinkFailed, sinkSegs, buffered, flushing, durable,
                   activeCall, timeVars, procVars>>

\* Mutant: what is still buffered is not waited for.
DrainedEarly == phase = "draining" /\ flushing = None

Drained == phase = "draining" /\ flushing = None /\ (sinkFailed \/ buffered = {})

\* endCurrentCallOnce and the failure path of startRecordingSessionOnce: only a drained
\* checkpoint is finalized, or discarded when the start failed before any audio.
AfterDrain ==
    /\ Drained
    /\ IF activeCall
       THEN /\ IF sinkFailed THEN UNCHANGED procVars ELSE Begin("session", "finalize", "mark")
            /\ UNCHANGED callEnded
       ELSE /\ callEnded' = TRUE
            /\ IF ~sinkFailed /\ Found /\ disk.segs = {}
               THEN Begin("session", "discardStart", "replay")
               ELSE UNCHANGED procVars
    /\ phase' = "finalizing"
    /\ UNCHANGED <<assets, log, changesLogged, fileVars, sinkVars, activeCall, timeVars, faults>>

\* The session is idle again; endCall is called if finalizing did not do it.
SessionOver ==
    /\ phase = "finalizing" /\ pc["session"] = "idle"
    /\ phase' = "over" /\ activeCall' = FALSE
    /\ \/ callEnded' = TRUE /\ UNCHANGED faults
       \/ Fault /\ UNCHANGED callEnded
    /\ UNCHANGED <<assets, log, changesLogged, fileVars, sinkVars, timeVars, procVars>>

Session ==
    \/ BeginRecording \/ StartSucceeds \/ Stop \/ AfterDrain \/ SessionOver
    \/ \E s \in Segments : Capture(s) \/ FlushFile(s)
    \/ FlushManifest

-----------------------------------------------------------------------------
(* Steps the operations share.  recover and finalize reset a checkpoint they have marked when
   they fail, whatever the other process has made of it meanwhile. *)

Removes == {"recover", "finalize", "discard", "discardStart", "expire"}
Resetting == {"partial", "partialWrite", "reset", "resetWrite"}
TriedByRecover == {"materialize", "import", "endCall", "replay", "append", "complete",
                   "completeWrite", "audit"}

Fail(p) ==
    IF \/ op[p] = "recover" /\ pc[p] \in TriedByRecover
       \/ op[p] = "finalize" /\ pc[p] \notin {"reset", "resetWrite"}
    THEN Goto(p, "reset")
    ELSE Finish(p)

\* The step fails because of cond, or because something else refuses.
FailsIf(p, cond) == Fail(p) /\ ((cond /\ UNCHANGED faults) \/ Fault)

\* writeManifest: it needs the session directory, and may fail before or after its rename.
Write(manifest) == dir /\ disk' = manifest /\ UNCHANGED faults
WriteFails(p, manifest) ==
    /\ \/ ~dir /\ UNCHANGED <<disk, faults>>
       \/ dir /\ Fault /\ disk' \in {disk, manifest}
    /\ Fail(p)

\* resetRecoveringState has nothing to do.
AlreadyReset(p) == pc[p] = "reset" /\ disk.state # "recovering"

OnlyManifest == UNCHANGED <<recordVars, dir, files, wavs, sinkVars, sessionVars, timeVars>>
OnlyRecords == UNCHANGED <<fileVars, sinkVars, sessionVars, timeVars>>

\* updateState and resetRecoveringState: the manifest is read here and written in SetState.
ReadState(p) ==
    /\ pc[p] \in {"mark", "partial", "reset"}
    /\ \/ /\ Found
          /\ IF AlreadyReset(p)
             THEN Finish(p)
             ELSE Hold(p, disk, CASE pc[p] = "mark" -> "markWrite"
                                  [] pc[p] = "partial" -> "partialWrite"
                                  [] pc[p] = "reset" -> "resetWrite")
          /\ UNCHANGED faults
       \/ FailsIf(p, ~Found)
    /\ OnlyManifest /\ UNCHANGED disk

SetState(p) ==
    LET state == CASE pc[p] = "markWrite" -> "recovering"
                   [] pc[p] = "partialWrite" -> "partial"
                   [] pc[p] = "resetWrite" -> "recoverable"
        manifest == [seen[p] EXCEPT !.state = state]
    IN  /\ pc[p] \in {"markWrite", "partialWrite", "resetWrite"}
        /\ \/ /\ Write(manifest)
              /\ CASE pc[p] = "markWrite" -> Hold(p, manifest, "materialize")
                   [] pc[p] = "partialWrite" /\ op[p] = "finalize" -> Goto(p, "reset")
                   [] OTHER -> Finish(p)
           \/ WriteFails(p, manifest)
        /\ OnlyManifest

\* Every segment file the manifest names is there and passes its checks.
Decrypts(segs) == segs \subseteq files

\* A failure before the try block of recoverToWavFiles: the recovery ends with the checkpoint
\* marked, the finalization resets it.
FailsUntried(p) == Fault /\ IF op[p] = "finalize" THEN Goto(p, "reset") ELSE Finish(p)

\* recoverToWavFiles after it has marked the checkpoint: the old WAVs are removed, then every
\* segment of the manifest that was read is decrypted into its speaker's WAV.
Materialize(p) ==
    LET segs == seen[p].segs
        audio == [speaker \in Speakers |-> Of(segs, speaker)]
    IN  /\ pc[p] = "materialize"
        /\ \/ /\ segs # {} /\ Decrypts(segs)
              /\ wavs' = audio /\ Goto(p, "import") /\ UNCHANGED faults
           \/ /\ segs = {}
              /\ wavs' = NoAudio /\ Goto(p, "partial") /\ UNCHANGED faults
           \/ FailsIf(p, ~Decrypts(segs)) /\ wavs' = NoAudio
           \/ OverQuota /\ Goto(p, "partial") /\ wavs' = NoAudio
           \/ FailsUntried(p) /\ wavs' \in {wavs, NoAudio}
        /\ UNCHANGED <<recordVars, dir, disk, files, sinkVars, sessionVars, timeVars>>

\* Mutant: a call that has an asset already gets no further ones.
ImportOnce(p) ==
    LET left == {speaker \in Speakers : Of(seen[p].segs, speaker) # {}}
    IN  /\ pc[p] = "import"
        /\ \/ /\ \E speaker \in Speakers : assets[speaker] # {}
              /\ Goto(p, "endCall") /\ UNCHANGED <<assets, faults>>
           \/ /\ \A speaker \in Speakers : assets[speaker] = {}
              /\ \E speaker \in left :
                    wavs[speaker] # {} /\ assets' = [assets EXCEPT ![speaker] = wavs[speaker]]
              /\ UNCHANGED <<procVars, faults>>
           \/ /\ FailsIf(p, \E speaker \in left : wavs[speaker] = {})
              /\ UNCHANGED assets
        /\ UNCHANGED <<log, changesLogged, callEnded>> /\ OnlyRecords

\* importRecoveredAudioAssets: one asset per speaker; a file name the call has already is not
\* imported again.  It lists the names once, but importAudioFile looks for the name again in
\* the store's queue (local-audio-asset-store.ts 115-122), so two imports at once make no
\* second asset; the WAV may be gone by then, which is one of the faults.
Import(p) ==
    LET left == {speaker \in Speakers :
                   Of(seen[p].segs, speaker) # {} /\ assets[speaker] = {}}
    IN  /\ pc[p] = "import"
        /\ \/ left = {} /\ Goto(p, "endCall") /\ UNCHANGED <<assets, faults>>
           \/ /\ \E speaker \in left :
                    wavs[speaker] # {} /\ assets' = [assets EXCEPT ![speaker] = wavs[speaker]]
              /\ UNCHANGED <<procVars, faults>>
           \/ /\ FailsIf(p, \E speaker \in left : wavs[speaker] = {})
              /\ UNCHANGED assets
        /\ UNCHANGED <<log, changesLogged, callEnded>> /\ OnlyRecords

\* Mutant: a call store that refuses is ignored.
EndCallBestEffort(p) ==
    /\ pc[p] = "endCall"
    /\ Goto(p, "replay")
    /\ \/ callEnded' = TRUE /\ UNCHANGED faults
       \/ Fault /\ UNCHANGED callEnded
    /\ UNCHANGED <<assets, log, changesLogged>> /\ OnlyRecords

EndCall(p) ==
    /\ pc[p] = "endCall"
    /\ \/ callEnded' = TRUE /\ Goto(p, "replay") /\ UNCHANGED faults
       \/ Fault /\ Fail(p) /\ UNCHANGED callEnded
    /\ UNCHANGED <<assets, log, changesLogged>> /\ OnlyRecords

\* After replayPendingCheckpointAudit, and at the end of updateCheckpointRetention.
Replayed(p) ==
    CASE op[p] \in Removes -> Goto(p, "audit")
      [] op[p] = "retain" -> Goto(p, "stage")
      [] OTHER -> Finish(p)

\* getPendingAuditEntry; a retention that was just staged must find its entry.
Replay(p) ==
    /\ pc[p] = "replay"
    /\ \/ Pending # 0 /\ Hold(p, disk, "append") /\ UNCHANGED faults
       \/ Pending = 0 /\ op[p] # "staged" /\ Replayed(p) /\ UNCHANGED faults
       \/ FailsIf(p, Pending = 0 /\ op[p] = "staged")
    /\ OnlyManifest /\ UNCHANGED disk

AppendPending(p) ==
    /\ pc[p] = "append"
    /\ \/ /\ changesLogged' = changesLogged \cup {seen[p].pending}
          /\ Goto(p, "complete") /\ UNCHANGED faults
       \/ Fault /\ Fail(p) /\ UNCHANGED changesLogged
    /\ UNCHANGED <<assets, log, callEnded>> /\ OnlyRecords

\* completePendingAudit: read, compare the id, and write in CompleteWrite.
Complete(p) ==
    /\ pc[p] = "complete"
    /\ \/ Pending = seen[p].pending /\ Hold(p, disk, "completeWrite") /\ UNCHANGED faults
       \/ Found /\ Pending = 0 /\ Replayed(p) /\ UNCHANGED faults
       \/ FailsIf(p, ~Found \/ Pending \notin {0, seen[p].pending})
    /\ OnlyManifest /\ UNCHANGED disk

CompleteWrite(p) ==
    LET manifest == [seen[p] EXCEPT !.pending = 0]
    IN  /\ pc[p] = "completeWrite"
        /\ \/ Write(manifest) /\ Replayed(p)
           \/ WriteFails(p, manifest)
        /\ OnlyManifest

\* stageRetention: read, and write in StageWrite.
Stage(p) ==
    /\ pc[p] = "stage"
    /\ \/ Found /\ Hold(p, disk, "stageWrite") /\ UNCHANGED faults
       \/ FailsIf(p, ~Found)
    /\ OnlyManifest /\ UNCHANGED disk

\* Mutant: the retention itself is only changed once its entry is logged.
StageEntryOnly(p) ==
    LET manifest == [seen[p] EXCEPT !.pending = changes + 1]
    IN  /\ pc[p] = "stageWrite"
        /\ changes' = changes + 1
        /\ \/ /\ Write(manifest)
              /\ pc' = [pc EXCEPT ![p] = "replay"]
              /\ op' = [op EXCEPT ![p] = "staged"]
              /\ UNCHANGED seen
           \/ WriteFails(p, manifest)
        /\ UNCHANGED <<recordVars, dir, files, wavs, sinkVars, sessionVars, expired>>

StageWrite(p) ==
    LET manifest == [seen[p] EXCEPT !.retention = changes + 1, !.pending = changes + 1]
    IN  /\ pc[p] = "stageWrite"
        /\ changes' = changes + 1
        /\ \/ /\ Write(manifest)
              /\ pc' = [pc EXCEPT ![p] = "replay"]
              /\ op' = [op EXCEPT ![p] = "staged"]
              /\ UNCHANGED seen
           \/ WriteFails(p, manifest)
        /\ UNCHANGED <<recordVars, dir, files, wavs, sinkVars, sessionVars, expired>>

\* The entry has an id made of the call and the operation, so that repeating an operation
\* that was interrupted writes the same entry.
Entry(operation) ==
    CASE operation = "recover" -> "recovered"
      [] operation = "finalize" -> "finalized"
      [] operation \in {"discard", "discardStart"} -> "discarded"

\* Mutant: the audit log is written on a best-effort basis.
AuditBestEffort(p) ==
    /\ pc[p] = "audit" /\ op[p] # "expire"
    /\ \/ log' = log \cup {Entry(op[p])} /\ UNCHANGED faults
       \/ Fault /\ UNCHANGED log
    /\ Goto(p, "removeWavs")
    /\ UNCHANGED <<assets, changesLogged, callEnded>> /\ OnlyRecords

\* The audit entry of the operation; nothing is removed without it.
Audit(p) ==
    /\ pc[p] = "audit" /\ op[p] # "expire"
    /\ \/ log' = log \cup {Entry(op[p])} /\ Goto(p, "removeWavs") /\ UNCHANGED faults
       \/ Fault /\ Fail(p) /\ UNCHANGED log
    /\ UNCHANGED <<assets, changesLogged, callEnded>> /\ OnlyRecords

\* The entry of the system for a checkpoint that expired.
AuditExpired(p) ==
    /\ pc[p] = "audit" /\ op[p] = "expire"
    /\ \/ log' = log \cup {"expired"} /\ Goto(p, "removeWavs") /\ UNCHANGED faults
       \/ Fault /\ Fail(p) /\ UNCHANGED log
    /\ UNCHANGED <<assets, changesLogged, callEnded>> /\ OnlyRecords

RemoveWavs(p) ==
    /\ pc[p] = "removeWavs"
    /\ \/ wavs' = NoAudio /\ Goto(p, "remove") /\ UNCHANGED faults
       \/ Fault /\ Fail(p) /\ UNCHANGED wavs
    /\ UNCHANGED <<recordVars, dir, disk, files, sinkVars, sessionVars, timeVars>>

\* store.discard: the directory with everything in it; rm may stop half-way.
Remove(p) ==
    /\ pc[p] = "remove"
    /\ \/ dir' = FALSE /\ disk' = None /\ files' = {} /\ Finish(p) /\ UNCHANGED faults
       \/ /\ Fault /\ Fail(p)
          /\ files' \in SUBSET files /\ disk' \in {disk, None}
          /\ UNCHANGED dir
    /\ UNCHANGED <<recordVars, wavs, sinkVars, sessionVars, timeVars>>

Step(p) ==
    \/ ReadState(p) \/ SetState(p) \/ Materialize(p) \/ Import(p) \/ EndCall(p)
    \/ Replay(p) \/ AppendPending(p) \/ Complete(p) \/ CompleteWrite(p)
    \/ Stage(p) \/ StageWrite(p) \/ Audit(p) \/ AuditExpired(p) \/ RemoveWavs(p) \/ Remove(p)

-----------------------------------------------------------------------------
(* What the holder of the recovery lock starts. *)

\* withRecoveryCallLock: one operation after the other.
TakeLock(operation, label) == Begin("manager", operation, label)

OnlyBegins == UNCHANGED <<recordVars, fileVars, sinkVars, sessionVars, timeVars, faults>>

\* toSummary: a checkpoint still being recorded, as far as activeCallId tells.
ShownAsRecording == disk.state = "recording" /\ activeCall
Allowed(race, when) == race \in Races \/ phase \notin when

BeginRecover ==
    /\ Found /\ ~ShownAsRecording /\ ~IsExpired
    /\ Allowed("start", {"creating", "starting", "draining"})
    /\ TakeLock("recover", "mark")
    /\ OnlyBegins

\* Mutant: discarding does not replay a pending retention entry.
DiscardAtOnce ==
    /\ Found /\ ~ShownAsRecording
    /\ Allowed("start", {"creating", "starting", "draining"})
    /\ TakeLock("discard", "audit")
    /\ OnlyBegins

BeginDiscard ==
    /\ Found /\ ~ShownAsRecording
    /\ Allowed("start", {"creating", "starting", "draining"})
    /\ TakeLock("discard", "replay")
    /\ OnlyBegins

BeginRetain ==
    /\ Found /\ changes < MaxChanges
    /\ Allowed("retain", {"creating", "starting", "recording", "draining", "finalizing"})
    /\ TakeLock("retain", "replay")
    /\ OnlyBegins

\* runCheckpointMaintenance, first phase.
BeginReplay ==
    /\ Pending # 0
    /\ TakeLock("replay", "replay")
    /\ OnlyBegins

\* Mutant: a checkpoint that is being recovered does not expire.
ExpireIdle ==
    /\ Found /\ IsExpired /\ ~activeCall /\ disk.state # "recovering"
    /\ TakeLock("expire", "replay")
    /\ OnlyBegins

\* runCheckpointMaintenance, second phase.
BeginExpire ==
    /\ Found /\ IsExpired /\ ~activeCall
    /\ TakeLock("expire", "replay")
    /\ OnlyBegins

\* A deadline passes, days after the recording started.
DeadlinePasses ==
    /\ Found /\ phase \notin {"creating", "starting"}
    /\ expired' = expired \cup {disk.retention}
    /\ expired' # expired
    /\ UNCHANGED <<recordVars, fileVars, sinkVars, sessionVars, changes, procVars, faults>>

\* The app stops and starts again: what is on the disk is what is left.
Restart ==
    /\ phase \notin {"before", "over"} \/ pc["manager"] # "idle"
    /\ Fault
    /\ phase' = (IF phase = "before" THEN "before" ELSE "over")
    /\ activeCall' = FALSE
    /\ sink' = (IF sink = "none" THEN "none" ELSE "closed")
    /\ sinkFailed' = FALSE /\ buffered' = {} /\ flushing' = None
    /\ \/ UNCHANGED <<dir, disk, files>>
       \/ /\ \E p \in Procs : pc[p] = "remove"
          /\ files' \in SUBSET files /\ disk' \in {disk, None}
          /\ UNCHANGED dir
    /\ op' = [p \in Procs |-> "none"] /\ pc' = [p \in Procs |-> "idle"]
    /\ seen' = [p \in Procs |-> Fresh]
    /\ UNCHANGED <<recordVars, wavs, sinkSegs, durable, timeVars>>

Manager == BeginRecover \/ BeginDiscard \/ BeginRetain \/ BeginReplay \/ BeginExpire

Next ==
    \/ Session
    \/ Manager
    \/ \E p \in Procs : Step(p)
    \/ DeadlinePasses
    \/ Restart

Spec == Init /\ [][Next]_vars

\* A started operation goes on; the timer of the maintenance comes back, and the lock serves
\* its waiters in the order of their arrival.
FairSpec ==
    /\ Spec
    /\ \A p \in Procs : WF_vars(Step(p))
    /\ WF_vars(FlushManifest) /\ WF_vars(AfterDrain) /\ WF_vars(SessionOver)
    /\ SF_vars(BeginExpire)

-----------------------------------------------------------------------------
(* Properties. *)

\* Every variable keeps its type.
TypeOK ==
    /\ dir \in BOOLEAN /\ disk \in Manifest \cup {None} /\ files \subseteq Segments
    /\ wavs \in [Speakers -> SUBSET Segments] /\ assets \in [Speakers -> SUBSET Segments]
    /\ log \subseteq {"recovered", "finalized", "discarded", "expired"}
    /\ changesLogged \subseteq 1..MaxChanges /\ callEnded \in BOOLEAN
    /\ expired \subseteq Changes /\ changes \in Changes
    /\ phase \in {"before", "creating", "starting", "recording", "draining", "finalizing", "over"}
    /\ activeCall \in BOOLEAN
    /\ sink \in {"none", "open", "closed"} /\ sinkFailed \in BOOLEAN
    /\ sinkSegs \subseteq Segments /\ buffered \subseteq Segments /\ durable \subseteq Segments
    /\ flushing \in Segments \cup {None}
    /\ op \in [Procs -> Removes \cup {"none", "retain", "staged", "replay"}]
    /\ pc \in [Procs -> TriedByRecover \cup Resetting \cup
                 {"idle", "mark", "markWrite", "stage", "stageWrite", "removeWavs", "remove"}]
    /\ seen \in [Procs -> Manifest]
    /\ faults \in 0..MaxFaults

Removed == sink # "none" /\ disk = None

\* Destructive operations are not done before their audit entry is written, whatever fails
\* and wherever the app stops.
RemovalIsAudited == Removed => log # {}

\* Audio that reached the checkpoint is not lost: when the checkpoint is gone and nobody
\* discarded it, in time or by hand, all of it is in the audio assets of the call.
NoAudioLost ==
    Removed /\ log \cap {"discarded", "expired"} = {} =>
        \A s \in durable : s \in assets[s[1]]

\* Once the recording is over, what exists of a speaker's asset is all of it.
AssetIsWhole ==
    phase = "over" =>
        \A s \in durable : assets[s[1]] # {} => s \in assets[s[1]]
\* A call whose checkpoint was finalized or recovered has ended.
RecoveredIsEnded == log \cap {"finalized", "recovered"} # {} => callEnded

\* A recovery that was logged left nothing undone, whatever was interrupted and repeated
\* before: an asset holds all the audio of its speaker once the recording is over (a shorter
\* one would never be replaced, since its file name exists), and a call whose checkpoint was
\* finalized or recovered has ended.
RecoveryIsWhole == AssetIsWhole /\ RecoveredIsEnded

\* The pending entry of a retention change leaves the checkpoint only for the audit log.
PendingIsAudited ==
    [][\A n \in 1..MaxChanges :
         disk # None /\ disk.pending = n =>
           \/ disk' # None /\ disk'.pending = n
           \/ n \in changesLogged']_vars

\* What the audit log says of the retention is what is kept to: the checkpoint has the
\* retention of the last change that was logged, or of a later one.
LoggedRetentionApplies ==
    disk # None => \A n \in changesLogged : n <= disk.retention

\* An expired checkpoint does not stay: unless its retention is changed it is removed, also
\* after a crash in the middle of a recovery.
ExpiredIsRemoved ==
    (phase = "over" /\ IsExpired) ~> (disk = None \/ ~IsExpired)

\* Every checkpoint directory that is left behind can be listed: listSummaries and with it
\* recovery and maintenance of all calls stop at a directory without manifest.
ListingWorks ==
    dir /\ disk = None =>
        phase = "creating" \/ \E p \in Procs : pc[p] = "remove"
=============================================================================
