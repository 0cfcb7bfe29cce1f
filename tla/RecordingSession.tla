-------------------------- MODULE RecordingSession --------------------------
(***************************************************************************)
(* The recording session of the main process: the singleton state shared   *)
(* by starting and ending a call and by starting and stopping a standalone *)
(* audio diagnostic, the native capture and speech-to-text services behind *)
(* it, the call, audit and checkpoint records it leaves, and the updater   *)
(* that must not install meanwhile.                                        *)
(*                                                                         *)
(* A handler is one invocation of an IPC or salestalk:// handler; between  *)
(* two of its steps it awaits something and any other handler may run.     *)
(* What runs without awaiting is one step.  A NativeAudioCaptureService is *)
(* named after the call whose checkpoint sink it writes to, Diag for the   *)
(* service of a diagnostic, which has no sink.  The native module itself   *)
(* (one controller, one registered callback) is external.                  *)
(***************************************************************************)
EXTENDS Undefined, Updater, Naturals, FiniteSets

CONSTANTS
    Calls,         \* call ids
    Starters,      \* invocations of startRecordingSession
    Enders,        \* invocations of stopRecordingSession
    DiagStarters,  \* invocations of startAudioDiagnosticSession
    DiagStoppers,  \* invocations of stopAudioDiagnosticSession
    Diag,
    Faults         \* what may fail: "start", "audit", "endCall", "finalize", "drain"

ASSUME RecordingAssumption ==
    /\ Diag \notin Calls /\ None \notin Calls \cup {Diag}
    /\ Starters \cap (Enders \cup DiagStarters \cup DiagStoppers) = {}
    /\ Enders \cap (DiagStarters \cup DiagStoppers) = {}
    /\ DiagStarters \cap DiagStoppers = {}
    /\ Faults \subseteq {"start", "audit", "endCall", "finalize", "drain"}

VARIABLES
    inCall,          \* callState.status = 'in_call'
    activeCall,      \* activeCallId
    owner,           \* realtimeAudioOwner
    diagPending,     \* diagnosticStartPromise is set
    startPending,    \* recordingStartPromise is set
    endPending,      \* callEndPromise is set
    sttClient,       \* activeSttClient is set
    service,         \* activeNativeAudioCaptureService
    sessions,        \* services that hold a sessionId
    capturing,       \* native module: the controller exists
    listener,        \* native module: the service whose callbacks are registered
    checkpointCall,  \* activeCheckpointCallId (with activeCheckpointSink)
    stopFailed,      \* activeCheckpointStopFailed
    hasContext,      \* activeRecordingContext is set
    callStatus,      \* the call store
    checkpoint,      \* the checkpoint of each call
    buffered,        \* sinks with audio that is not in the checkpoint yet
    persisted,       \* checkpoints whose manifest counts a chunk
    drained,         \* sinks that were drained, and so closed
    audited,         \* targets of recording.consent_captured / recording.started entries
    pc, work, taken  \* per handler: where it is, its call, the service it is stopping

sessionVars == <<inCall, activeCall, owner>>
promises == <<diagPending, startPending, endPending>>
services == <<sttClient, service, sessions, capturing, listener>>
checkpointVars == <<checkpointCall, stopFailed, hasContext>>
stores == <<callStatus, checkpoint, buffered, persisted, drained, audited>>
audio == <<buffered, persisted, drained>>
frames == <<pc, work, taken>>
vars == <<sessionVars, promises, services, checkpointVars, stores, frames, updaterVars>>

Handlers == Starters \cup Enders \cup DiagStarters \cup DiagStoppers
Targets == Calls \cup {Diag}

\* Mutant: only a call that was started counts.
CallStarted == inCall

\* isRecordingInProgress, the updater's isInCall.
RecordingInProgress == inCall \/ startPending \/ endPending

Goto(h, label) == pc' = [pc EXCEPT ![h] = label]
Finish(h) ==
    /\ pc' = [pc EXCEPT ![h] = "idle"]
    /\ work' = [work EXCEPT ![h] = None]

\* A handler that awaits a promise goes on once it is settled.  Continuations run before
\* anything else the event loop has, and nothing runs after the app has quit.
Waiting(h) ==
    \/ pc[h] \in {"awaitEnd", "joinEnd"} /\ endPending
    \/ pc[h] = "awaitStart" /\ startPending
Resumable(h) == pc[h] \in {"awaitEnd", "joinEnd", "awaitStart"} /\ ~Waiting(h)
Settled == \A h \in Handlers : ~Resumable(h)
At(h, label) ==
    /\ pc[h] = label /\ ~Waiting(h)
    /\ Settled \/ Resumable(h)
    /\ ~installed

Init ==
    /\ inCall = FALSE /\ activeCall = None /\ owner = "none"
    /\ diagPending = FALSE /\ startPending = FALSE /\ endPending = FALSE
    /\ sttClient = FALSE /\ service = None /\ sessions = {}
    /\ capturing = FALSE /\ listener = None
    /\ checkpointCall = None /\ stopFailed = FALSE /\ hasContext = FALSE
    /\ callStatus = [c \in Calls |-> "absent"]
    /\ checkpoint = [c \in Calls |-> "none"]
    /\ buffered = {} /\ persisted = {} /\ drained = {} /\ audited = {}
    /\ pc = [h \in Handlers |-> "idle"]
    /\ work = [h \in Handlers |-> None]
    /\ taken = [h \in Handlers |-> None]
    /\ UpdaterInit

-----------------------------------------------------------------------------
(* Services. *)

\* stopRealtimeAudioServices up to its await: the references are gone and the module's
\* stopCapture, which ignores the session id, has taken effect.
StopServices(h, next) ==
    /\ taken' = [taken EXCEPT ![h] = service]
    /\ service' = None
    /\ sttClient' = FALSE
    /\ sessions' = sessions \ {service}
    /\ capturing' = (capturing /\ service \notin sessions)
    /\ Goto(h, next)
    /\ UNCHANGED listener

\* flushSegment: what the sink of c held back is in the checkpoint.
Flush(c) ==
    /\ buffered' = buffered \ {c}
    /\ persisted' = persisted \cup ({c} \cap buffered)

\* Mutant: a drain that failed is not remembered.
ServicesStoppedQuietly(h) ==
    /\ taken' = [taken EXCEPT ![h] = None]
    /\ drained' = drained \cup ({taken[h]} \cap Calls)
    /\ \/ Flush(taken[h])
       \/ "drain" \in Faults /\ taken[h] \in Calls /\ UNCHANGED <<buffered, persisted>>
    /\ UNCHANGED stopFailed

\* Promise.allSettled is through: the taken service has closed and drained its sink.  When
\* stopCapture or the drain failed, with the audio written or not, and a checkpoint is
\* active, activeCheckpointStopFailed is set.
ServicesStopped(h) ==
    /\ taken' = [taken EXCEPT ![h] = None]
    /\ drained' = drained \cup ({taken[h]} \cap Calls)
    /\ \/ Flush(taken[h]) /\ UNCHANGED stopFailed
       \/ /\ "drain" \in Faults /\ taken[h] \in Calls
          /\ Flush(taken[h]) \/ UNCHANGED <<buffered, persisted>>
          /\ stopFailed' = (stopFailed \/ checkpointCall # None)

\* startNativeAudioCapture with the sink of target up to its await: the service that exists
\* is reused, and one that holds a session does not start again.
NativeStart(target) ==
    LET used == IF service = None THEN target ELSE service
    IN  /\ service' = used
        /\ listener' = IF service = None THEN target ELSE listener
        /\ capturing' = (capturing \/ used \notin sessions)
        /\ UNCHANGED <<sttClient, sessions>>

\* Without a service the native module has to be found first.
ModuleMissing == service = None /\ "start" \in Faults /\ UNCHANGED services

\* startCapture has settled.
NativeStarted(ok) ==
    /\ \/ ok
       \/ service \notin sessions /\ "start" \in Faults
    /\ capturing' = (capturing /\ ok)
    /\ sessions' = IF ok THEN sessions \cup {service} ELSE sessions
    /\ UNCHANGED <<sttClient, service, listener>>

\* runRecordingStartFailureCleanup: the services are stopped, and only after a failed audit
\* of a call is that call ended.
CleanUp(h, reason) ==
    StopServices(h, IF reason = "call_audit_failed" THEN "endOwner" ELSE "ownerStopped")

\* appendRecordingAuditLogs, the consent and the start of the recording.
LogRecording(target) == audited' = audited \cup {target}

-----------------------------------------------------------------------------
(* startRecordingSession *)

\* The start is over: recordingStartPromise is reset and the handler returns.
StartOver(h) == startPending' = FALSE /\ Finish(h)

\* The part of startRecordingSession and startRecordingSessionOnce before the first await.
BeginStart(h) ==
    /\ IF inCall \/ startPending \/ diagPending \/ owner = "diagnostic"
       THEN Finish(h) /\ UNCHANGED startPending
       ELSE startPending' = TRUE /\ Goto(h, "permission") /\ UNCHANGED work
    /\ UNCHANGED <<taken, sessionVars, diagPending, endPending, services, checkpointVars, stores,
                   updaterVars>>

StartRequest(h) ==
    /\ At(h, "idle")
    /\ IF endPending
       THEN /\ Goto(h, "awaitEnd")
            /\ UNCHANGED <<sessionVars, promises, services, checkpointVars, stores, work, taken,
                           updaterVars>>
       ELSE BeginStart(h)

StartAfterEnd(h) == At(h, "awaitEnd") /\ BeginStart(h)

\* assertPermission and the permission preflight; what is left is started.
StartPermitted(h) ==
    /\ At(h, "permission")
    /\ \/ Goto(h, "stt") /\ UNCHANGED <<startPending, work>>
       \/ "start" \in Faults /\ StartOver(h)
    /\ UNCHANGED <<taken, sessionVars, diagPending, endPending, services, checkpointVars, stores,
                   updaterVars>>

\* Mutant: the client that did not get connected is forgotten.
StartSttForgets(h) ==
    /\ At(h, "stt")
    /\ sttClient' = TRUE
    /\ \/ Goto(h, "create") /\ UNCHANGED <<startPending, work>>
       \/ "start" \in Faults /\ StartOver(h)
    /\ UNCHANGED <<sessionVars, diagPending, endPending, service, sessions, capturing, listener,
                   checkpointVars, stores, taken, updaterVars>>

\* tryStartSTT; the client exists even when it does not get connected.
StartStt(h) ==
    /\ At(h, "stt")
    /\ \/ /\ sttClient' = TRUE /\ Goto(h, "create")
          /\ UNCHANGED <<service, sessions, capturing, listener, taken>>
       \/ "start" \in Faults /\ StopServices(h, "stopped")
    /\ UNCHANGED <<sessionVars, promises, checkpointVars, stores, work, updaterVars>>

\* createCall; without a call record the services are stopped again.
StartCreateCall(h) ==
    /\ At(h, "create")
    /\ \/ \E c \in Calls :
             /\ callStatus[c] = "absent"
             /\ callStatus' = [callStatus EXCEPT ![c] = "open"]
             /\ work' = [work EXCEPT ![h] = c]
             /\ Goto(h, "audit")
             /\ UNCHANGED <<services, taken>>
       \/ "start" \in Faults /\ CleanUp(h, "call_create_failed")
          /\ UNCHANGED <<callStatus, work>>
    /\ UNCHANGED <<sessionVars, promises, checkpointVars, checkpoint, audio, audited, updaterVars>>

\* Mutant: the recording goes on without its audit entries.
StartAuditBestEffort(h) ==
    /\ At(h, "audit")
    /\ \/ audited' = audited \cup {work[h]}
       \/ "audit" \in Faults /\ UNCHANGED audited
    /\ Goto(h, "checkpoint")
    /\ UNCHANGED <<sessionVars, promises, services, checkpointVars, callStatus, checkpoint,
                   audio, work, taken, updaterVars>>

StartAudit(h) ==
    /\ At(h, "audit")
    /\ \/ /\ LogRecording(work[h]) /\ Goto(h, "checkpoint")
          /\ UNCHANGED <<services, taken>>
       \/ "audit" \in Faults /\ CleanUp(h, "call_audit_failed") /\ UNCHANGED audited
    /\ UNCHANGED <<sessionVars, promises, checkpointVars, callStatus, checkpoint, audio,
                   work, updaterVars>>

\* Mutant: a call without a checkpoint is not ended.
StartCheckpointLeaks(h) ==
    /\ At(h, "checkpoint")
    /\ \/ /\ checkpoint' = [checkpoint EXCEPT ![work[h]] = "recording"]
          /\ checkpointCall' = work[h] /\ stopFailed' = FALSE /\ hasContext' = TRUE
          /\ Goto(h, "native")
       \/ /\ "start" \in Faults /\ Goto(h, "stopLast")
          /\ UNCHANGED <<checkpoint, checkpointVars>>
    /\ UNCHANGED <<sessionVars, promises, services, callStatus, audio, audited, work, taken,
                   updaterVars>>

\* beginRecording.
StartCheckpoint(h) ==
    /\ At(h, "checkpoint")
    /\ \/ /\ checkpoint' = [checkpoint EXCEPT ![work[h]] = "recording"]
          /\ checkpointCall' = work[h] /\ stopFailed' = FALSE /\ hasContext' = TRUE
          /\ Goto(h, "native")
       \/ /\ "start" \in Faults /\ Goto(h, "endFirst")
          /\ UNCHANGED <<checkpoint, checkpointVars>>
    /\ UNCHANGED <<sessionVars, promises, services, callStatus, audio, audited, work, taken,
                   updaterVars>>

\* tryStartNativeAudioCapture with the call's sink.
StartNative(h) ==
    /\ \/ At(h, "native") /\ NativeStart(work[h]) /\ Goto(h, "nativeWait")
       \/ At(h, "native") /\ ModuleMissing /\ Goto(h, "nativeFailed")
       \/ At(h, "nativeWait") /\ NativeStarted(TRUE) /\ Goto(h, "started")
       \/ At(h, "nativeWait") /\ NativeStarted(FALSE) /\ Goto(h, "nativeFailed")
    /\ UNCHANGED <<sessionVars, promises, checkpointVars, stores, work, taken, updaterVars>>

StartFinish(h) ==
    /\ At(h, "started")
    /\ inCall' = TRUE /\ activeCall' = work[h] /\ owner' = "call"
    /\ StartOver(h)
    /\ UNCHANGED <<diagPending, endPending, services, checkpointVars, stores, taken, updaterVars>>

\* The failure paths: each stops the services, where that is not under way already, and ends
\* the call it has created.
StartStopServices(h) ==
    /\ \/ At(h, "nativeFailed") /\ StopServices(h, "endDiscard")
       \/ At(h, "stopLast") /\ StopServices(h, "stopped")
    /\ UNCHANGED <<sessionVars, promises, checkpointVars, stores, work, updaterVars>>

\* calls.endCall(...).catch(...).
EndCallRecord(c) ==
    \/ callStatus' = [callStatus EXCEPT ![c] = "ended"]
    \/ "endCall" \in Faults /\ callStatus' = [callStatus EXCEPT ![c] = "unended"]

StartEndCall(h) ==
    /\ \E label \in {"endFirst", "endOwner", "endDiscard"} : At(h, label)
    /\ EndCallRecord(work[h])
    /\ \/ /\ At(h, "endFirst") /\ Goto(h, "stopLast")
          /\ UNCHANGED <<stopFailed, audio, taken, startPending, owner, work>>
       \/ /\ At(h, "endOwner") /\ owner' = "none" /\ ServicesStopped(h) /\ StartOver(h)
       \/ /\ At(h, "endDiscard") /\ ServicesStopped(h) /\ Goto(h, "discard")
          /\ UNCHANGED <<startPending, owner, work>>
    /\ UNCHANGED <<inCall, activeCall, diagPending, endPending, services, checkpointCall,
                   hasContext, checkpoint, audited, updaterVars>>

StartStopped(h) ==
    /\ At(h, "stopped") \/ At(h, "ownerStopped")
    /\ owner' = IF pc[h] = "ownerStopped" THEN "none" ELSE owner
    /\ ServicesStopped(h) /\ StartOver(h)
    /\ UNCHANGED <<inCall, activeCall, diagPending, endPending, services, checkpointCall,
                   hasContext, callStatus, checkpoint, audited, updaterVars>>

\* discardFailedStartCheckpoint has returned or thrown.
DiscardOver(h) ==
    /\ checkpointCall' = None /\ stopFailed' = FALSE /\ hasContext' = FALSE
    /\ StartOver(h)

\* A checkpoint whose sink failed is kept, and one that getSummary finds audio in, or cannot
\* read; the others are discarded once the audit log has said so.
DiscardFailedStart(h) ==
    /\ \/ /\ At(h, "discard")
          /\ \/ /\ ~stopFailed /\ work[h] \notin persisted
                /\ Goto(h, "discardAudit")
                /\ UNCHANGED <<startPending, checkpointVars, work>>
             \/ /\ stopFailed \/ work[h] \in persisted \/ "start" \in Faults
                /\ DiscardOver(h)
          /\ UNCHANGED checkpoint
       \/ /\ At(h, "discardAudit")
          /\ \/ Goto(h, "discardRemove") /\ UNCHANGED <<startPending, checkpointVars, work>>
             \/ "audit" \in Faults /\ DiscardOver(h)
          /\ UNCHANGED checkpoint
       \/ /\ At(h, "discardRemove")
          /\ \/ checkpoint' = [checkpoint EXCEPT ![work[h]] = "discarded"]
             \/ "start" \in Faults /\ UNCHANGED checkpoint
          /\ DiscardOver(h)
    /\ UNCHANGED <<sessionVars, diagPending, endPending, services, callStatus, audio, audited,
                   taken, updaterVars>>

Start(h) ==
    \/ StartRequest(h) \/ StartAfterEnd(h) \/ StartPermitted(h) \/ StartStt(h)
    \/ StartCreateCall(h) \/ StartAudit(h) \/ StartCheckpoint(h) \/ StartNative(h)
    \/ StartFinish(h) \/ StartStopServices(h) \/ StartEndCall(h) \/ StartStopped(h)
    \/ DiscardFailedStart(h)

-----------------------------------------------------------------------------
(* stopRecordingSession *)

\* Where a call goes from the stopped services: finalizeActiveCheckpoint, or endCall alone.
AfterStop(c, failed) ==
    IF c # None /\ checkpointCall = c /\ hasContext /\ ~failed THEN "finalize" ELSE "endCall"

\* The end of endCurrentCallOnce: the state is idle again, then the listeners are told, while
\* callEndPromise is still set if anything was awaited.
SessionIdle(c, isInCall) ==
    /\ IF c # None /\ checkpointCall = c
       THEN checkpointCall' = None /\ stopFailed' = FALSE
       ELSE UNCHANGED <<checkpointCall, stopFailed>>
    /\ hasContext' = FALSE
    /\ inCall' = FALSE /\ activeCall' = None
    /\ owner' = IF owner = "call" THEN "none" ELSE owner
    /\ IF c # None \/ inCall \/ owner = "call"
       THEN OnCallEnded(isInCall)
       ELSE UNCHANGED updaterVars

\* endCurrentCall and the part of endCurrentCallOnce before its first await.
BeginEnd(h) ==
    /\ \/ /\ endPending /\ Goto(h, "joinEnd")
          /\ UNCHANGED <<sessionVars, endPending, services, checkpointVars, work, taken,
                         updaterVars>>
       \/ /\ ~endPending /\ owner = "call"
          /\ work' = [work EXCEPT ![h] = activeCall]
          /\ endPending' = TRUE
          /\ StopServices(h, "endStop")
          /\ UNCHANGED <<sessionVars, checkpointVars, updaterVars>>
       \/ /\ ~endPending /\ owner # "call" /\ activeCall # None
          /\ work' = [work EXCEPT ![h] = activeCall]
          /\ endPending' = TRUE
          /\ Goto(h, AfterStop(activeCall, stopFailed))
          /\ UNCHANGED <<sessionVars, services, checkpointVars, taken, updaterVars>>
       \/ /\ ~endPending /\ owner # "call" /\ activeCall = None
          /\ SessionIdle(None, FALSE)
          /\ Finish(h)
          /\ UNCHANGED <<endPending, services, taken>>
    /\ UNCHANGED <<diagPending, startPending, stores>>

\* Mutant: a pending start is not awaited.
EndImpatiently(h) == At(h, "idle") /\ BeginEnd(h)

EndRequest(h) ==
    /\ At(h, "idle")
    /\ IF startPending
       THEN /\ Goto(h, "awaitStart")
            /\ UNCHANGED <<sessionVars, promises, services, checkpointVars, stores, work, taken,
                           updaterVars>>
       ELSE BeginEnd(h)

EndAfterStart(h) == At(h, "awaitStart") /\ BeginEnd(h)

EndJoined(h) ==
    /\ At(h, "joinEnd")
    /\ Finish(h)
    /\ UNCHANGED <<sessionVars, promises, services, checkpointVars, stores, taken, updaterVars>>

EndStopped(h) ==
    /\ At(h, "endStop")
    /\ ServicesStopped(h)
    /\ Goto(h, AfterStop(work[h], stopFailed'))
    /\ UNCHANGED <<sessionVars, promises, services, checkpointCall, hasContext, callStatus,
                   checkpoint, audited, work, updaterVars>>

\* finalizeActiveCheckpoint ends the call on its way; when a later step fails the checkpoint
\* is kept and endCall is called again.
EndFinalize(h) ==
    /\ At(h, "finalize")
    /\ \/ /\ checkpoint' = [checkpoint EXCEPT ![work[h]] = "finalized"]
          /\ callStatus' = [callStatus EXCEPT ![work[h]] = "ended"]
          /\ Goto(h, "endIdle")
       \/ /\ "finalize" \in Faults
          /\ callStatus' \in {callStatus, [callStatus EXCEPT ![work[h]] = "ended"]}
          /\ Goto(h, "endCall")
          /\ UNCHANGED checkpoint
    /\ UNCHANGED <<sessionVars, promises, services, checkpointVars, audio, audited, work, taken,
                   updaterVars>>

EndCall(h) ==
    /\ At(h, "endCall")
    /\ IF work[h] = None THEN UNCHANGED callStatus ELSE EndCallRecord(work[h])
    /\ Goto(h, "endIdle")
    /\ UNCHANGED <<sessionVars, promises, services, checkpointVars, checkpoint, audio, audited,
                   work, taken, updaterVars>>

\* Mutant: callEndPromise is not reset.
EndFinishForgets(h) ==
    /\ At(h, "endIdle")
    /\ SessionIdle(work[h], TRUE)
    /\ Finish(h)
    /\ UNCHANGED <<promises, services, stores, taken>>

EndFinish(h) ==
    /\ At(h, "endIdle")
    /\ SessionIdle(work[h], TRUE)
    /\ endPending' = FALSE
    /\ Finish(h)
    /\ UNCHANGED <<diagPending, startPending, services, stores, taken>>

End(h) ==
    \/ EndRequest(h) \/ EndAfterStart(h) \/ EndJoined(h) \/ EndStopped(h)
    \/ EndFinalize(h) \/ EndCall(h) \/ EndFinish(h)

-----------------------------------------------------------------------------
(* startAudioDiagnosticSession, stopAudioDiagnosticSession *)

CallInProgress == inCall \/ startPending \/ endPending \/ owner = "call"

DiagOver(h) == diagPending' = FALSE /\ Finish(h)

DiagRequest(h) ==
    /\ At(h, "idle")
    /\ ~CallInProgress /\ ~diagPending /\ owner # "diagnostic"
    /\ diagPending' = TRUE
    /\ Goto(h, "permission")
    /\ UNCHANGED <<sessionVars, startPending, endPending, services, checkpointVars, stores, work,
                   taken, updaterVars>>

DiagPermitted(h) ==
    /\ At(h, "permission")
    /\ \/ Goto(h, "stt") /\ UNCHANGED <<diagPending, work>>
       \/ "start" \in Faults /\ DiagOver(h)
    /\ UNCHANGED <<sessionVars, startPending, endPending, services, checkpointVars, stores, taken,
                   updaterVars>>

DiagStt(h) ==
    /\ At(h, "stt")
    /\ \/ /\ sttClient' = TRUE /\ Goto(h, "audit")
          /\ UNCHANGED <<service, sessions, capturing, listener, taken>>
       \/ "start" \in Faults /\ StopServices(h, "ownerStopped")
    /\ UNCHANGED <<sessionVars, promises, checkpointVars, stores, work, updaterVars>>

DiagAudit(h) ==
    /\ At(h, "audit")
    /\ \/ /\ LogRecording(Diag) /\ Goto(h, "native")
          /\ UNCHANGED <<services, taken>>
       \/ "audit" \in Faults /\ CleanUp(h, "diagnostic_audit_failed") /\ UNCHANGED audited
    /\ UNCHANGED <<sessionVars, promises, checkpointVars, callStatus, checkpoint, audio,
                   work, updaterVars>>

DiagNative(h) ==
    /\ \/ At(h, "native") /\ NativeStart(Diag) /\ Goto(h, "nativeWait") /\ UNCHANGED taken
       \/ At(h, "native") /\ ModuleMissing /\ Goto(h, "nativeFailed") /\ UNCHANGED taken
       \/ At(h, "nativeWait") /\ NativeStarted(TRUE) /\ Goto(h, "started") /\ UNCHANGED taken
       \/ At(h, "nativeWait") /\ NativeStarted(FALSE) /\ Goto(h, "nativeFailed") /\ UNCHANGED taken
       \/ At(h, "nativeFailed") /\ StopServices(h, "ownerStopped")
    /\ UNCHANGED <<sessionVars, promises, checkpointVars, stores, work, updaterVars>>

DiagFinish(h) ==
    /\ At(h, "started")
    /\ owner' = "diagnostic"
    /\ DiagOver(h)
    /\ UNCHANGED <<inCall, activeCall, startPending, endPending, services, checkpointVars, stores,
                   taken, updaterVars>>

DiagFailed(h) ==
    /\ At(h, "ownerStopped")
    /\ owner' = "none"
    /\ ServicesStopped(h) /\ DiagOver(h)
    /\ UNCHANGED <<inCall, activeCall, startPending, endPending, services, checkpointCall,
                   hasContext, callStatus, checkpoint, audited, updaterVars>>

DiagStart(h) ==
    \/ DiagRequest(h) \/ DiagPermitted(h) \/ DiagStt(h) \/ DiagAudit(h)
    \/ DiagNative(h) \/ DiagFinish(h) \/ DiagFailed(h)

DiagStopRequest(h) ==
    /\ At(h, "idle")
    /\ ~CallInProgress /\ ~diagPending /\ owner = "diagnostic"
    /\ StopServices(h, "diagStop")
    /\ UNCHANGED <<sessionVars, promises, checkpointVars, stores, work, updaterVars>>

\* The services are stopped: the session is free, whoever owns it now.
DiagStopped(h) ==
    /\ At(h, "diagStop")
    /\ owner' = "none"
    /\ ServicesStopped(h) /\ Finish(h)
    /\ UNCHANGED <<inCall, activeCall, promises, services, checkpointCall, hasContext, callStatus,
                   checkpoint, audited, updaterVars>>

DiagStop(h) == DiagStopRequest(h) \/ DiagStopped(h)

-----------------------------------------------------------------------------
(* The native module and the updater. *)

\* onAudioChunk: the registered service writes the chunk to its open sink, which holds it back
\* until a segment is full.
AudioChunk ==
    /\ Settled /\ ~installed
    /\ capturing /\ listener \in Calls \ drained
    /\ checkpoint[listener] = "recording"
    /\ \/ buffered' = buffered \cup {listener} /\ UNCHANGED persisted
       \/ buffered' = buffered \ {listener} /\ persisted' = persisted \cup {listener}
    /\ UNCHANGED <<sessionVars, promises, services, checkpointVars, callStatus, checkpoint, drained,
                   audited, frames, updaterVars>>

UpdaterStep ==
    /\ Settled /\ ~installed
    /\ OnUpdateDownloaded(RecordingInProgress) \/ Retry(RecordingInProgress)
    /\ UNCHANGED <<sessionVars, promises, services, checkpointVars, stores, frames>>

Next ==
    \/ \E h \in Starters : Start(h)
    \/ \E h \in Enders : End(h)
    \/ \E h \in DiagStarters : DiagStart(h)
    \/ \E h \in DiagStoppers : DiagStop(h)
    \/ AudioChunk
    \/ UpdaterStep

Spec == Init /\ [][Next]_vars

\* A start or an end that is under way goes on.  What a user, the network or the native module
\* never has to do is not assumed: start a handler, record a chunk, publish an update.
Started(h) == pc[h] # "idle"
Fairness ==
    /\ \A h \in Starters : WF_pc(Started(h) /\ Start(h))
    /\ \A h \in Enders : WF_pc(Started(h) /\ End(h))
FairSpec == Spec /\ Fairness

-----------------------------------------------------------------------------
(* Properties. *)

\* Every variable keeps its type.
TypeOK ==
    /\ inCall \in BOOLEAN /\ activeCall \in Calls \cup {None}
    /\ owner \in {"none", "diagnostic", "call"}
    /\ diagPending \in BOOLEAN /\ startPending \in BOOLEAN /\ endPending \in BOOLEAN
    /\ sttClient \in BOOLEAN /\ service \in Targets \cup {None} /\ sessions \subseteq Targets
    /\ capturing \in BOOLEAN /\ listener \in Targets \cup {None}
    /\ checkpointCall \in Calls \cup {None} /\ stopFailed \in BOOLEAN /\ hasContext \in BOOLEAN
    /\ callStatus \in [Calls -> {"absent", "open", "ended", "unended"}]
    /\ checkpoint \in [Calls -> {"none", "recording", "finalized", "discarded"}]
    /\ buffered \subseteq Calls /\ persisted \subseteq Calls /\ drained \subseteq Calls
    /\ audited \subseteq Targets
    /\ pc \in [Handlers -> {"idle", "awaitEnd", "permission", "stt", "create", "audit",
          "checkpoint", "native", "nativeWait", "started", "nativeFailed", "stopLast", "stopped",
          "ownerStopped", "endFirst", "endOwner", "endDiscard", "discard", "discardAudit",
          "discardRemove", "awaitStart", "joinEnd", "endStop", "finalize", "endCall", "endIdle",
          "diagStop"}]
    /\ work \in [Handlers -> Calls \cup {None}]
    /\ taken \in [Handlers -> Targets \cup {None}]
    /\ UpdaterTypeOK

\* Nobody is starting, ending or recording anything.
Quiet ==
    /\ ~inCall /\ owner = "none" /\ ~diagPending /\ ~startPending /\ ~endPending
    /\ \A h \in Handlers : pc[h] = "idle"

\* Whatever way a start, a stop or a diagnostic ends, the failed ones included: when no
\* session is left nothing captures audio and no service is referenced any more.
NothingRunsWhenQuiet == Quiet => ~capturing /\ ~sttClient /\ service = None

\* stopRecordingSession ends "whatever session the singleton state holds": when the call is
\* over the microphone is not captured any more, whatever ran before the call.
EndStopsCapture == [][inCall /\ ~inCall' => ~capturing' /\ service' = None]_vars

\* Until a call is being ended the microphone feeds its open checkpoint, and the context its
\* end will finalize the checkpoint with is there.
CallIsCheckpointed ==
    inCall /\ ~endPending =>
              /\ capturing /\ owner = "call"
              /\ activeCall \in Calls \ drained
              /\ listener = activeCall /\ service = activeCall
              /\ checkpointCall = activeCall /\ hasContext

\* Audio is captured only for a target whose consent was written to the audit log.
CaptureIsAudited == capturing => listener \in audited

\* A recorded call and its capture belong together: until the call is being ended the
\* microphone feeds the open checkpoint of exactly that call, and it never runs for a call
\* or a diagnostic without a consent entry, whatever starts, stops and fails around it.
CaptureIsCovered == CallIsCheckpointed /\ CaptureIsAudited

\* One session, never parallel ones: at most one call is being recorded, and a call that was
\* created is ended, unless the call store refused, by the time nothing runs.
OneOpenCall ==
    LET open == {c \in Calls : callStatus[c] = "open"}
    IN  Cardinality(open) <= 1 /\ (Quiet => open = {})

\* Recorded audio survives, whichever way its call goes.  A checkpoint some of whose audio
\* never left its sink, because the drain failed or is still to come, stays open: it is not
\* made an audio file that lacks the end of the call.  And one that holds audio is never
\* discarded, however late the audio of a start that failed came before getSummary, the
\* audit entry and the removal, which await each other.
AudioSurvives ==
    /\ \A c \in buffered : checkpoint[c] = "recording"
    /\ \A c \in persisted : checkpoint[c] \in {"recording", "finalized"}

\* No update while a call is recorded, started or ended.
InstallSparesCalls ==
    installed => /\ \A c \in Calls : callStatus[c] # "open"
                 /\ ~capturing \/ listener = Diag

\* A deferred update is installed, or its timer is armed.
DeferredIsArmed == updateDownloaded => installed \/ pendingRetry

\* The app never quits for an update in the middle of a call, its start or its end, and an
\* update deferred for that reason is not forgotten (UpdateManager).
UpdaterIsSound == InstallSparesCalls /\ DeferredIsArmed

\* onCallEnded exists so that a deferred install can proceed immediately instead of waiting
\* for the next 15-minute tick: the end of a call installs the downloaded update.
InstallIsPrompt == [][inCall /\ ~inCall' /\ updateDownloaded => installed']_vars

\* Starts and ends wait for each other, never for ever: each of them returns.
HandlersReturn == \A h \in Starters \cup Enders : Started(h) ~> ~Started(h) \/ installed
=============================================================================
