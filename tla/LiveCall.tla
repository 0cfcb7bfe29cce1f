------------------------------ MODULE LiveCall ------------------------------
(* A sequence of calls on one desktop: the call's state in                 *)
(* src/main/ipc/index.ts, the speech-to-text client of each call, and the  *)
(* objection pipeline all calls share.  A chunk of audio is silent or      *)
(* holds one final utterance of the customer.  What a start and an end do  *)
(* to the recording is in RecordingSession; here they start and stop the   *)
(* client.                                                                 *)
EXTENDS Undefined, SttClient

CONSTANTS
    MaxChunks,      \* bound: chunks captured in all
    Voiced,         \* the chunks that hold an utterance
    ContextSize     \* contextWindowSize

Chunks == 1..MaxChunks

ASSUME LiveAssumption ==
    /\ Clients \subseteq Nat
    /\ MaxChunks \in Nat /\ Voiced \subseteq Chunks
    /\ ContextSize \in Nat
    /\ None \notin Chunks \cup Clients

VARIABLES
    phase,      \* the call: idle, dialing (startSTT), opening (createCall to native capture),
                \* in_call, ending
    activeStt,  \* activeSttClient
    callId,     \* activeCallId
    captured,   \* chunks captured so far
    stored,     \* <<call, client, chunk>>: transcripts in the store of a call
    writing,    \* utterances whose transcript is being stored, in order
    current, stage, recent, overlay, control, inbox, asked

Pipeline == INSTANCE ObjectionPipeline WITH Utterances <- Voiced

callVars == <<phase, activeStt, callId, captured, stored, writing>>
pipeVars == <<current, stage, recent, overlay, control, inbox, asked>>
liveVars == <<sttVars, callVars, pipeVars>>

LiveInit ==
    /\ SttInit
    /\ Pipeline!PipelineInit
    /\ phase = "idle"
    /\ activeStt = None
    /\ callId = None
    /\ captured = 0
    /\ stored = {}
    /\ writing = <<>>

-----------------------------------------------------------------------------
(* The call *)

\* startRecordingSession: the client of a new call starts.
StartCall(c) ==
    /\ phase = "idle"
    /\ \A d \in Clients : d < c => kind[d] # "new"
    /\ kind[c] = "new"
    /\ StartSTT(c)
    /\ phase' = "dialing"
    /\ activeStt' = c
    /\ UNCHANGED <<callId, captured, stored, writing, pipeVars>>

\* startSTT() returns: the call is opened, or the services are stopped again.
SttStarted ==
    /\ phase = "dialing" /\ chain[activeStt] = "none"
    /\ conn[activeStt] = "connected"
    /\ phase' = "opening"
    /\ UNCHANGED <<sttVars, activeStt, callId, captured, stored, writing, pipeVars>>

StartFails ==
    /\ \/ phase = "dialing" /\ chain[activeStt] = "none" /\ conn[activeStt] # "connected"
       \/ phase = "opening"
    /\ StopSTT(activeStt)
    /\ phase' = "ending"
    /\ activeStt' = None
    /\ UNCHANGED <<callId, captured, stored, writing, pipeVars>>

\* The call is recorded: capture runs and the overlay is shown.
CallStarts ==
    /\ phase = "opening"
    /\ phase' = "in_call"
    /\ callId' = activeStt
    /\ UNCHANGED <<sttVars, activeStt, captured, stored, writing, pipeVars>>

\* endCurrentCallOnce: the active run is cancelled, the client is taken away and stopped.
EndLiveCall ==
    /\ phase = "in_call"
    /\ current' = None
    /\ StopSTT(activeStt)
    /\ phase' = "ending"
    /\ activeStt' = None
    /\ UNCHANGED <<callId, captured, stored, writing, stage, recent, overlay, control,
                   inbox, asked>>

\* Mutant: the end of the call does not wait for the client.
CallEndsAtOnce ==
    /\ phase = "ending"
    /\ phase' = "idle"
    /\ callId' = None
    /\ UNCHANGED <<sttVars, activeStt, captured, stored, writing, pipeVars>>

\* The client has stopped: the call is over.
CallEnds ==
    /\ phase = "ending" /\ stopping = {}
    /\ phase' = "idle"
    /\ callId' = None
    /\ UNCHANGED <<sttVars, activeStt, captured, stored, writing, pipeVars>>

-----------------------------------------------------------------------------
(* Audio, transcripts and answers *)

\* The capture, which starts as the last thing before the call does, hands a chunk to the
\* client of the moment.
Capture ==
    /\ phase = "in_call" /\ captured < MaxChunks
    /\ captured' = captured + 1
    /\ SendAudio(activeStt, captured + 1)
    /\ UNCHANGED <<phase, activeStt, callId, stored, writing, pipeVars>>

\* A transcript arrives: outside a call it is only shown; in a call it is stored under the
\* call of the moment, and then goes to the pipeline.
Transcript(c, n) ==
    /\ Transcribe(c, n)
    /\ IF callId # None
       THEN /\ stored' = stored \cup {<<callId, c, n>>}
            /\ writing' = Append(writing, n)
       ELSE UNCHANGED <<stored, writing>>
    /\ UNCHANGED <<phase, activeStt, callId, captured, pipeVars>>

\* The transcript is stored, or storing it failed: the pipeline gets the utterance, in
\* whatever call there is by then.
Written ==
    /\ writing # <<>>
    /\ writing' = Tail(writing)
    /\ Pipeline!HandleTranscript(Head(writing), callId # None)
    /\ UNCHANGED <<sttVars, phase, activeStt, callId, captured, stored>>

Pipe ==
    /\ Pipeline!PipelineStep
    /\ UNCHANGED <<sttVars, callVars>>

Stt ==
    /\ \E c \in Clients : SttStep(c) \/ Disconnected(c)
    /\ UNCHANGED <<callVars, pipeVars>>

LiveNext ==
    \/ \E c \in Clients : StartCall(c)
    \/ SttStarted
    \/ StartFails
    \/ CallStarts
    \/ EndLiveCall
    \/ CallEnds
    \/ Capture
    \/ \E c \in Clients, n \in Voiced : Transcript(c, n)
    \/ Written
    \/ Pipe
    \/ Stt

LiveSpec == LiveInit /\ [][LiveNext]_liveVars

\* Timers fire, connection attempts end (an error, or the helper's timeout of 15 seconds) and
\* disconnections end (the socket closes; the helper is given 5 seconds).
LiveFairSpec ==
    /\ LiveSpec
    /\ \A c \in Clients :
        /\ WF_liveVars(SttProgress(c) /\ UNCHANGED <<callVars, pipeVars>>)
        /\ WF_liveVars(Disconnected(c) /\ UNCHANGED <<callVars, pipeVars>>)

-----------------------------------------------------------------------------
(* Properties *)

AnswerFitsObjection == Pipeline!AnswerFitsObjection

\* Audio is heard in order, and a transcript is stored under the call whose client heard it:
\* a transcript that is still coming when the call ends finds the call still there.
AudioStaysInItsCall ==
    /\ AudioHeardInOrder
    /\ \A t \in stored : t[1] = t[2]

\* "On the end of a call the overlay disappears and STT stops" (docs/live-zoom-e2e-checklist):
\* between calls no client connects.
SttStopsWithCall == phase = "idle" => \A c \in Clients : conn[c] # "connected"

\* "On the start of a call the overlay is shown (waiting)" (docs/live-zoom-e2e-checklist).
OverlayStartsWaiting == [][CallStarts => overlay.objection = None]_liveVars

\* "The moment an objection is detected, an answer is shown on the overlay"
\* (sales-assistant-prd): the answer of the current run appears there.
AnswerReachesOverlay ==
    [][\A u \in Voiced :
        Pipeline!Generate(u) /\ current = u => overlay'.response = u]_liveVars

\* An utterance is judged among those of its own call.
ContextIsOfTheCall ==
    [][\A u \in Voiced :
        stage[u] = "none" /\ stage'[u] = "detecting" =>
            \A c \in Clients : u \in ToSet(heard[c]) => ToSet(recent') \subseteq ToSet(heard[c])]_liveVars
=============================================================================
