--------------------------- MODULE MobileRecorder ---------------------------
(***************************************************************************)
(* The recorder on the salesperson's phone (mobile/App.tsx with its        *)
(* reducer, mobile/lib/recorder-machine.ts, and its client of the worker,  *)
(* mobile/lib/recorder-api.ts), composed with what the cloud promises it   *)
(* (UploadPromise, which CloudUpload implements).                          *)
(*                                                                         *)
(* Handlers of the page are atomic up to their awaits: a request for the   *)
(* microphone and an upload go on whatever the user does meanwhile.        *)
(* Logging out unmounts the screen; its refs are lost and its promises are *)
(* not, and the reducer that receives what they dispatch lives on.         *)
(***************************************************************************)
EXTENDS Undefined, UploadPromise

CONSTANTS
    Flows,    \* calls of upload() in flight
    MaxAsks,  \* requests for the microphone open at a time
    MaxRuns,  \* MediaRecorders started
    MaxTexts  \* transcripts of an upload

ASSUME RecorderAssumption ==
    /\ None \notin Visits
    /\ MaxAsks \in Nat /\ MaxRuns \in Nat /\ MaxTexts \in Nat

VARIABLES
    phone,     \* the reducer's state: status, consentGranted, callId with transcriptCount
    session,   \* whether the client has a session token
    asks,      \* pending getUserMedia requests of the screen shown
    goneAsks,  \* those of a screen that was left
    current,   \* mediaRecorderRef holds a recorder
    running,   \* MediaRecorders that capture sound
    closing,   \* the recorder was stopped and its onstop has not run
    blob,      \* recordedBlobRef holds a recording
    flow,      \* uploads of the page: step and upload
    sent       \* uploads whose audio was sent

micVars == <<asks, goneAsks, current, running, closing, blob>>
cloudVars == <<sent, promiseVars>>
phoneVars == <<phone, session, micVars, flow>>
recorderVars == <<phoneVars, cloudVars>>

NoFlow == [step |-> "idle", upload |-> None]
Initial == [status |-> "idle", consent |-> FALSE, shown |-> None]

RecorderInit ==
    /\ Init /\ sent = {}
    /\ phone = Initial /\ session = FALSE
    /\ asks = 0 /\ goneAsks = 0 /\ running = 0
    /\ current = FALSE /\ closing = FALSE /\ blob = FALSE
    /\ flow = [f \in Flows |-> NoFlow]

-----------------------------------------------------------------------------
(* recorderReducer.  An event that a status does not expect changes nothing. *)

Move(s, from, to) == IF s.status = from THEN [s EXCEPT !.status = to] ELSE s

LoginOk(s) == Move(s, "idle", "ready")
Grant(s) ==
    IF s.status = "ready" THEN [s EXCEPT !.status = "consented", !.consent = TRUE] ELSE s
Revoke(s) ==
    IF s.status = "consented" THEN [s EXCEPT !.status = "ready", !.consent = FALSE] ELSE s
Start(s) == IF s.consent THEN Move(s, "consented", "recording") ELSE s
Stop(s) == Move(s, "recording", "recorded")
BeginUpload(s) == Move(s, "recorded", "uploading")
Processed(s, u) ==
    IF s.status = "uploading" THEN [s EXCEPT !.status = "done", !.shown = u] ELSE s
Fail(s) == [s EXCEPT !.status = "error"]
Reset(s) == [Initial EXCEPT !.status = "ready"]

-----------------------------------------------------------------------------
(* Session and consent. *)

\* A login is answered with the token under the name the client reads (login and
\* readSessionToken in recorder-api.ts), or a saved session is restored.  It is asked for in
\* idle; a late FAIL of an upload may have left idle when it is answered, and without a
\* session that is the only way to have left it.
Login ==
    /\ ~session
    /\ session' = TRUE /\ phone' = LoginOk(phone)
    /\ UNCHANGED <<micVars, flow, cloudVars>>

\* The button is shown in every status; a running recorder is not stopped.
Logout ==
    /\ phone.status # "idle"
    /\ session' = FALSE /\ phone' = Initial
    /\ goneAsks' = goneAsks + asks /\ asks' = 0
    /\ current' = FALSE /\ closing' = FALSE /\ blob' = FALSE
    /\ UNCHANGED <<running, flow, cloudVars>>

TickConsent ==
    /\ phone.status \in {"ready", "consented"}
    /\ phone' = IF phone.consent THEN Revoke(phone) ELSE Grant(phone)
    /\ UNCHANGED <<session, micVars, flow, cloudVars>>

-----------------------------------------------------------------------------
(* The microphone. *)

\* The record button: getUserMedia is asked, and may be asked again before it answers.
StartRecording ==
    /\ phone.status = "consented" /\ phone.consent
    /\ asks + goneAsks < MaxAsks
    /\ asks' = asks + 1
    /\ UNCHANGED <<phone, session, goneAsks, current, running, closing, blob, flow, cloudVars>>

\* The recorder starts and replaces the one the ref held; only then is START dispatched.
MicGranted ==
    /\ asks > 0 /\ running < MaxRuns
    /\ asks' = asks - 1
    /\ running' = running + 1 /\ current' = TRUE
    /\ phone' = Start(phone)
    /\ UNCHANGED <<session, goneAsks, closing, blob, flow, cloudVars>>

\* The promise of a screen that was left: its recorder has nobody to stop it.
GoneMicGranted ==
    /\ goneAsks > 0 /\ running < MaxRuns
    /\ goneAsks' = goneAsks - 1 /\ running' = running + 1
    /\ phone' = Start(phone)
    /\ UNCHANGED <<session, asks, current, closing, blob, flow, cloudVars>>

MicDenied ==
    /\ \/ asks > 0 /\ asks' = asks - 1 /\ UNCHANGED goneAsks
       \/ goneAsks > 0 /\ goneAsks' = goneAsks - 1 /\ UNCHANGED asks
    /\ UNCHANGED <<phone, session, current, running, closing, blob, flow, cloudVars>>

StopRecording ==
    /\ phone.status = "recording"
    /\ phone' = Stop(phone)
    /\ current' = FALSE
    /\ IF current THEN running' = running - 1 /\ closing' = TRUE
       ELSE UNCHANGED <<running, closing>>
    /\ UNCHANGED <<session, asks, goneAsks, blob, flow, cloudVars>>

\* onstop puts the chunks together and releases the microphone.
RecorderStopped ==
    /\ closing /\ closing' = FALSE /\ blob' = TRUE
    /\ UNCHANGED <<phone, session, asks, goneAsks, current, running, flow, cloudVars>>

ResetRecording ==
    /\ phone.status \in {"recorded", "done", "error"}
    /\ phone' = Reset(phone) /\ blob' = FALSE
    /\ UNCHANGED <<session, asks, goneAsks, current, running, closing, flow, cloudVars>>

-----------------------------------------------------------------------------
(* upload(): uploadRecording asks for a link, sends the audio and polls. *)

In(f, step) == flow[f].step = step
Target(f) == flow[f].upload
Turn(f, step) == flow' = [flow EXCEPT ![f].step = step]

PressUpload(f) ==
    /\ phone.status = "recorded" /\ blob /\ In(f, "idle")
    /\ phone' = BeginUpload(phone) /\ Turn(f, "signing")
    /\ UNCHANGED <<session, micVars, cloudVars>>

\* The ids of a link are drawn for it alone.
GetLink(f, u) ==
    /\ In(f, "signing") /\ session
    /\ u \notin sent /\ \A g \in Flows : Target(g) # u
    /\ flow' = [flow EXCEPT ![f] = [step |-> "sending", upload |-> u]]
    /\ UNCHANGED <<phone, session, micVars, cloudVars>>

SendAudio(f) ==
    /\ In(f, "sending") /\ Turn(f, "waiting")
    /\ sent' = sent \cup {Target(f)}
    /\ UNCHANGED <<phone, session, micVars, promiseVars>>

Acknowledged(f) ==
    /\ In(f, "waiting") /\ Target(f) \in told
    /\ Turn(f, "polling")
    /\ UNCHANGED <<phone, session, micVars, cloudVars>>

\* Mutant: a poll that finds the job running counts as the last one.
PollAny(f) ==
    /\ In(f, "polling") /\ session /\ Target(f) \in underWay
    /\ Turn(f, "counting")
    /\ UNCHANGED <<phone, session, micVars, cloudVars>>
PollCompleted(f) ==
    /\ In(f, "polling") /\ session /\ Target(f) \in ready
    /\ Turn(f, "counting")
    /\ UNCHANGED <<phone, session, micVars, cloudVars>>

\* UPLOADED and PROCESSED are dispatched in one go, whatever the phone shows by now.
CountTranscripts(f) ==
    /\ In(f, "counting") /\ session
    /\ phone' = Processed(phone, Target(f))
    /\ flow' = [flow EXCEPT ![f] = NoFlow]
    /\ UNCHANGED <<session, micVars, cloudVars>>

\* Mutant: a failure is reported only while the flow is polling.
FlowFailsLate(f) ==
    /\ ~In(f, "idle")
    /\ phone' = IF In(f, "polling") THEN Fail(phone) ELSE phone
    /\ flow' = [flow EXCEPT ![f] = NoFlow]
    /\ UNCHANGED <<session, micVars, cloudVars>>
\* No session, a request refused or lost, a failed job, two minutes without an end.
FlowFails(f) ==
    /\ ~In(f, "idle")
    /\ phone' = Fail(phone)
    /\ flow' = [flow EXCEPT ![f] = NoFlow]
    /\ UNCHANGED <<session, micVars, cloudVars>>

-----------------------------------------------------------------------------
\* What the client awaits ends: a request is answered or fails, polling has a deadline.
Advance(f) ==
    \/ (\E u \in Visits : GetLink(f, u)) \/ SendAudio(f) \/ Acknowledged(f)
    \/ PollCompleted(f) \/ CountTranscripts(f) \/ FlowFails(f)

\* The cloud works on what it was sent, whatever the phone makes of it.
CloudStep ==
    /\ \E u \in sent :
         \/ Keep(u) \/ HandOver(u) \/ Tell(u) \/ Report(u) \/ TakeUpAgain(u)
         \/ texts[u] < MaxTexts /\ AddTranscript(u)
    /\ UNCHANGED <<phoneVars, sent>>

RecorderNext ==
    \/ Login \/ Logout \/ TickConsent
    \/ StartRecording \/ MicGranted \/ GoneMicGranted \/ MicDenied
    \/ StopRecording \/ RecorderStopped \/ ResetRecording
    \/ \E f \in Flows : PressUpload(f) \/ Advance(f)
    \/ CloudStep

\* Nobody is obliged to press a button.
RecorderSpec ==
    /\ RecorderInit /\ [][RecorderNext]_recorderVars
    /\ \A f \in Flows : WF_recorderVars(Advance(f))

-----------------------------------------------------------------------------
(* Properties. *)

\* The phone reports a visit as done only if the cloud holds a transcript of it, also when
\* an upload of a session left long ago answers (pollSttJob, PROCESSED).
ShownWasTranscribed == phone.shown # None => texts[phone.shown] > 0

\* The busy screen, which has no button but the logout, is left again: every upload ends
\* in PROCESSED or FAIL, and the answer of an older upload takes no newer one's away.
UploadEnds == phone.status = "uploading" ~> phone.status # "uploading"

\* "Hard gate: cannot record without consent" (recorder-machine.ts, START): no recorder
\* starts while the customer's consent is not ticked.
RecordsOnlyWithConsent == [][running' > running => phone.consent]_recorderVars
=============================================================================
