---------------------- MODULE RecordingSession_proofs ----------------------
(***************************************************************************)
(* The safety properties of the recording session, for any number of       *)
(* calls, of starts, ends and diagnostics, and for any set of faults.      *)
(*                                                                         *)
(* The invariant has three layers.  Order needs no assumption: the         *)
(* promises (recordingStartPromise, callEndPromise and                     *)
(* diagnosticStartPromise) and the session state keep all but one caller   *)
(* from being in the middle of something, so what a handler read before    *)
(* an await still holds after it (Knows).  It gives the single open call,  *)
(* the audit of what is captured and the armed retry timer.  Served says   *)
(* what runs at each label of a handler, and which sink and context a call *)
(* has.  It needs OneStopper, that no two stops of a diagnostic overlap: a *)
(* second one, delayed until a call has started, resets the owner of that  *)
(* call, and what Served says is then not true of the code                 *)
(* (EndStopsCapture is violated that way).  Sinks is a layer on top: where *)
(* a sink was emptied nothing captures, so what getSummary or the drain    *)
(* found still holds when the checkpoint is removed or made a file.        *)
(*                                                                         *)
(* The last part is about what runs inside a call (LiveCall): its audio,   *)
(* its transcripts and its answers.  AnswersInv says what the control      *)
(* window will show when it comes to each message of its inbox; Audio      *)
(* says that what a client has heard and what it still buffers are one     *)
(* sequence in the order of capture, and whose audio a transcript owes.    *)
(***************************************************************************)
EXTENDS RecordingSession, LiveCall, FiniteSetTheorems, SequenceTheorems, TLAPS

\* The three variables of the sinks stand for themselves in every step below.
USE DEF audio

\* Where a handler has not begun anything: it can be asked, or awaits a promise.
Rest == {"idle", "awaitEnd", "awaitStart", "joinEnd"}
Active(h) == pc[h] \notin Rest
Callers == Starters \cup Enders \cup DiagStarters

StartLabels == {"idle", "awaitEnd", "permission", "stt", "create", "audit", "checkpoint", "native",
                "nativeWait", "started", "nativeFailed", "stopLast", "stopped", "ownerStopped",
                "endFirst", "endOwner", "endDiscard", "discard", "discardAudit", "discardRemove"}
EndLabels == {"idle", "awaitStart", "joinEnd", "endStop", "finalize", "endCall", "endIdle"}
DiagLabels == {"idle", "permission", "stt", "audit", "native", "nativeWait", "started",
               "nativeFailed", "ownerStopped"}
Labels == StartLabels \cup EndLabels \cup DiagLabels \cup {"diagStop"}

\* A start that has created its call and not ended it.
WithCall == {"audit", "checkpoint", "native", "nativeWait", "started", "nativeFailed",
             "endFirst", "endOwner", "endDiscard"}

\* What the handler h can rely on where it is.
Knows(h) ==
    /\ h \in Starters => pc[h] \in StartLabels
    /\ h \in Enders => pc[h] \in EndLabels
    /\ h \in DiagStarters => pc[h] \in DiagLabels
    /\ h \in DiagStoppers => pc[h] \in {"idle", "diagStop"}
    /\ h \in Starters /\ pc[h] \in WithCall => work[h] \in Calls /\ callStatus[work[h]] = "open"
    /\ h \in Starters /\ pc[h] \in {"checkpoint", "native"} => work[h] \in audited
    /\ h \in DiagStarters /\ pc[h] = "native" => Diag \in audited
    /\ pc[h] = "nativeWait" => service # None
    /\ h \in Enders /\ Active(h) => work[h] = activeCall
    /\ h \in Enders /\ pc[h] = "endIdle" => callStatus[activeCall] # "open"

\* A caller that has begun is announced by its promise, and there is one at a time.
Promised ==
    /\ \A h \in Starters : Active(h) => startPending
    /\ \A h \in Enders : Active(h) => endPending
    /\ \A h \in DiagStarters : Active(h) => diagPending
    /\ \A h, g \in Callers : Active(h) /\ Active(g) => h = g

\* The session is starting, in a call, in a diagnostic or idle; an install ends all of it.
Modes ==
    /\ startPending => ~inCall /\ owner = "none" /\ ~diagPending
    /\ diagPending => ~inCall /\ owner = "none"
    /\ endPending => inCall
    /\ inCall <=> activeCall # None
    /\ owner = "call" => inCall
    /\ owner = "diagnostic" => ~inCall
    /\ installed => ~inCall /\ ~startPending

\* An open call is the active one, or a start has it in hand.
OpenIsWorkedOn ==
    \A c \in Calls : callStatus[c] = "open" =>
        c = activeCall \/ \E h \in Starters : pc[h] \in WithCall /\ work[h] = c

\* The registered callbacks are those of the service, and of an audited target.
Heard ==
    /\ service # None => listener = service
    /\ listener # None => listener \in audited
    /\ capturing => listener # None

Order ==
    /\ TypeOK /\ Promised /\ Modes /\ OpenIsWorkedOn /\ Heard
    /\ \A h \in Handlers : Knows(h)
    /\ DeferredIsArmed

FramesTyped == pc \in [Handlers -> Labels] /\ work \in [Handlers -> Calls \cup {None}]
               /\ taken \in [Handlers -> Targets \cup {None}]

StoresTyped ==
    /\ callStatus \in [Calls -> {"absent", "open", "ended", "unended"}]
    /\ checkpoint \in [Calls -> {"none", "recording", "finalized", "discarded"}]
    /\ buffered \subseteq Calls /\ persisted \subseteq Calls /\ drained \subseteq Calls
    /\ audited \subseteq Targets
    /\ checkpointCall \in Calls \cup {None} /\ stopFailed \in BOOLEAN /\ hasContext \in BOOLEAN

\* The other handlers stay where they are.
Others(h) == \A g \in Handlers \ {h} :
    pc'[g] = pc[g] /\ work'[g] = work[g] /\ taken'[g] = taken[g]

SessionTyped ==
    /\ inCall \in BOOLEAN /\ activeCall \in Calls \cup {None}
    /\ owner \in {"none", "diagnostic", "call"}
    /\ diagPending \in BOOLEAN /\ startPending \in BOOLEAN /\ endPending \in BOOLEAN
    /\ UpdaterTypeOK

ServicesTyped ==
    /\ sttClient \in BOOLEAN /\ service \in Targets \cup {None} /\ sessions \subseteq Targets
    /\ capturing \in BOOLEAN /\ listener \in Targets \cup {None}

LEMMA Typing == TypeOK <=> FramesTyped /\ StoresTyped /\ SessionTyped /\ ServicesTyped
  BY DEF TypeOK, FramesTyped, StoresTyped, SessionTyped, ServicesTyped, Labels, StartLabels,
         EndLabels, DiagLabels

SinksTyped ==
    /\ buffered \subseteq Calls /\ persisted \subseteq Calls /\ drained \subseteq Calls
    /\ stopFailed \in BOOLEAN

LEMMA StoppedTyped ==
    ASSUME StoresTyped, NEW h \in Handlers, ServicesStopped(h)
    PROVE  SinksTyped'
  BY DEF StoresTyped, ServicesStopped, Flush, SinksTyped

LEMMA StopServicesTyped ==
    ASSUME TypeOK, NEW h \in Handlers, NEW l, StopServices(h, l)
    PROVE  ServicesTyped' /\ taken' \in [Handlers -> Targets \cup {None}]
  BY DEF TypeOK, StopServices, ServicesTyped, Targets

\* What a step of a start can do to the services.
LEMMA StartServices ==
    ASSUME Order, NEW h \in Starters, Start(h)
    PROVE  ServicesTyped' /\ taken' \in [Handlers -> Targets \cup {None}]
<1>0. TypeOK /\ ServicesTyped /\ taken \in [Handlers -> Targets \cup {None}] /\ Knows(h)
      /\ h \in Handlers
  BY Typing DEF Order, FramesTyped, Handlers
<1>1. ASSUME NEW l, StopServices(h, l)
      PROVE  ServicesTyped' /\ taken' \in [Handlers -> Targets \cup {None}]
  BY <1>0, <1>1, StopServicesTyped
<1>2. CASE UNCHANGED services /\ UNCHANGED taken
  BY <1>0, <1>2 DEF services, ServicesTyped
<1>3. CASE ServicesStopped(h) /\ UNCHANGED services
  BY <1>0, <1>3 DEF services, ServicesTyped, ServicesStopped
<1>4. CASE StartStt(h)
  BY <1>0, <1>1, <1>4 DEF StartStt, ServicesTyped
<1>5. CASE StartNative(h)
  BY <1>0, <1>2, <1>5, RecordingAssumption
     DEF StartNative, NativeStart, NativeStarted, ServicesTyped, Targets, ModuleMissing, At, Knows, WithCall
<1>6. CASE StartCreateCall(h) \/ StartAudit(h) \/ StartStopServices(h)
  BY <1>0, <1>1, <1>2, <1>6 DEF StartCreateCall, StartAudit, StartStopServices, CleanUp
<1>7. QED BY <1>2, <1>3, <1>4, <1>5, <1>6
     DEF Start, StartRequest, StartAfterEnd, BeginStart, StartPermitted, StartCheckpoint, StartFinish,
         StartEndCall, StartStopped, DiscardFailedStart

\* The frame of the handler whose turn it is.
LEMMA Turn ==
    ASSUME TypeOK, NEW h \in Handlers
    PROVE  /\ \A l \in Labels : Goto(h, l) =>
                 pc' \in [Handlers -> Labels] /\ \A g \in Handlers \ {h} : pc'[g] = pc[g]
           /\ Finish(h) => /\ pc' \in [Handlers -> Labels] /\ work' \in [Handlers -> Calls \cup {None}]
                           /\ \A g \in Handlers \ {h} : pc'[g] = pc[g] /\ work'[g] = work[g]
           /\ UNCHANGED pc => pc' \in [Handlers -> Labels] /\ \A g \in Handlers \ {h} : pc'[g] = pc[g]
           /\ UNCHANGED work => /\ work' \in [Handlers -> Calls \cup {None}]
                                /\ \A g \in Handlers \ {h} : work'[g] = work[g]
           /\ \A c \in Calls \cup {None} : work' = [work EXCEPT ![h] = c] =>
                 /\ work' \in [Handlers -> Calls \cup {None}]
                 /\ \A g \in Handlers \ {h} : work'[g] = work[g]
           /\ UNCHANGED taken \/ (\E t : taken' = [taken EXCEPT ![h] = t]) =>
                 \A g \in Handlers \ {h} : taken'[g] = taken[g]
           /\ \A l \in Labels : Goto(h, l) => pc'[h] = l
           /\ Finish(h) => pc'[h] = "idle" /\ work'[h] = None
<1>1. /\ pc \in [Handlers -> Labels] /\ work \in [Handlers -> Calls \cup {None}]
      /\ taken \in [Handlers -> Targets \cup {None}] /\ "idle" \in Labels
  BY Typing DEF FramesTyped, Labels, StartLabels
<1>2. QED BY <1>1 DEF Goto, Finish

LEMMA StartFrames ==
    ASSUME Order, NEW h \in Starters, Start(h)
    PROVE  FramesTyped' /\ Others(h)
<1>0. TypeOK /\ h \in Handlers /\ ServicesTyped
  BY Typing DEF Order, Handlers
<1>1. taken' \in [Handlers -> Targets \cup {None}]
  BY StartServices
<1>2. UNCHANGED taken \/ \E t : taken' = [taken EXCEPT ![h] = t]
  BY DEF Start, StartRequest, StartAfterEnd, BeginStart, StartPermitted, StartStt, StartCreateCall,
         StartAudit, StartCheckpoint, StartNative, StartFinish, StartStopServices, StartEndCall,
         StartStopped, DiscardFailedStart, StopServices, ServicesStopped, CleanUp, StartOver, DiscardOver
<1>3. Finish(h) \/ \E l \in Labels : Goto(h, l) /\
                     (UNCHANGED work \/ \E c \in Calls : work' = [work EXCEPT ![h] = c])
  <2> USE DEF Labels, StartLabels, StartOver
  <2>1. CASE StartRequest(h) \/ StartAfterEnd(h)
    BY <2>1 DEF StartRequest, StartAfterEnd, BeginStart
  <2>2. CASE StartPermitted(h) \/ StartStt(h)
    BY <2>2 DEF StartPermitted, StartStt, StopServices
  <2>3. CASE StartCreateCall(h) \/ StartAudit(h)
    <3>1. \A reason : CleanUp(h, reason) => Goto(h, "endOwner") \/ Goto(h, "ownerStopped")
      BY DEF CleanUp, StopServices
    <3>2. QED BY <2>3, <3>1 DEF StartCreateCall, StartAudit
  <2>4. CASE StartCheckpoint(h) \/ StartNative(h) \/ StartFinish(h)
    BY <2>4 DEF StartCheckpoint, StartNative, StartFinish
  <2>5. CASE StartStopServices(h) \/ StartEndCall(h) \/ StartStopped(h) \/ DiscardFailedStart(h)
    BY <2>5 DEF StartStopServices, StopServices, StartEndCall, StartStopped, DiscardFailedStart, DiscardOver
  <2>6. QED BY <2>1, <2>2, <2>3, <2>4, <2>5 DEF Start
<1>4. QED BY <1>0, <1>1, <1>2, <1>3, Turn DEF FramesTyped, Others

LEMMA StartTyped ==
    ASSUME Order, NEW h \in Starters, Start(h)
    PROVE  StoresTyped' /\ SessionTyped'
<1>0. /\ StoresTyped /\ SessionTyped /\ Knows(h) /\ h \in Handlers
      /\ work[h] \in Calls \cup {None}
  BY Typing DEF Order, Handlers, FramesTyped
<1>1. CASE StartRequest(h) \/ StartAfterEnd(h) \/ StartPermitted(h) \/ StartStt(h)
  <2>1. startPending' \in BOOLEAN
    BY <1>0, <1>1 DEF StartRequest, StartAfterEnd, BeginStart, StartPermitted, StartStt, StartOver,
       SessionTyped, promises
  <2>3. UNCHANGED <<sessionVars, diagPending, endPending, checkpointVars, stores, updaterVars>>
    <3>1. CASE StartRequest(h) \/ StartAfterEnd(h)
      BY <3>1 DEF StartRequest, StartAfterEnd, BeginStart, promises
    <3>2. CASE StartPermitted(h)
      BY <3>2 DEF StartPermitted
    <3>3. CASE StartStt(h)
      BY <3>3 DEF StartStt, promises
    <3>4. QED BY <1>1, <3>1, <3>2, <3>3
  <2>2. QED BY <1>0, <2>1, <2>3 DEF StoresTyped, SessionTyped, sessionVars, checkpointVars, stores,
            updaterVars, UpdaterTypeOK
<1>2. CASE StartCreateCall(h)
  <2>1. callStatus' \in [Calls -> {"absent", "open", "ended", "unended"}]
    BY <1>0, <1>2 DEF StartCreateCall, StoresTyped
  <2>2. UNCHANGED <<sessionVars, promises, checkpointVars, checkpoint, audio, audited,
                    updaterVars>>
    BY <1>2 DEF StartCreateCall
  <2>3. QED BY <1>0, <2>1, <2>2 DEF StoresTyped, SessionTyped, sessionVars, promises,
            checkpointVars, updaterVars, UpdaterTypeOK
<1>3. CASE StartAudit(h)
  <2>1. audited' \subseteq Targets
    BY <1>0, <1>3 DEF StartAudit, LogRecording, Knows, WithCall, At, Targets, StoresTyped
  <2>2. UNCHANGED <<sessionVars, promises, checkpointVars, callStatus, checkpoint, audio,
                    updaterVars>>
    BY <1>3 DEF StartAudit
  <2>3. QED BY <1>0, <2>1, <2>2 DEF StoresTyped, SessionTyped, sessionVars, promises,
            checkpointVars, updaterVars, UpdaterTypeOK
<1>4. CASE StartCheckpoint(h)
  <2>0. work[h] \in Calls
    BY <1>0, <1>4 DEF StartCheckpoint, Knows, WithCall, At
  <2>1. /\ checkpoint' \in [Calls -> {"none", "recording", "finalized", "discarded"}]
        /\ checkpointCall' \in Calls \cup {None}
    BY <1>0, <1>4, <2>0 DEF StartCheckpoint, StoresTyped, checkpointVars
  <2>2. stopFailed' \in BOOLEAN /\ hasContext' \in BOOLEAN
    BY <1>0, <1>4 DEF StartCheckpoint, StoresTyped, checkpointVars
  <2>3. UNCHANGED <<sessionVars, promises, callStatus, audio, audited, updaterVars>>
    BY <1>4 DEF StartCheckpoint
  <2>4. QED BY <1>0, <2>1, <2>2, <2>3 DEF StoresTyped, SessionTyped, sessionVars, promises,
            updaterVars, UpdaterTypeOK
<1>5. CASE StartNative(h) \/ StartStopServices(h)
  <2>1. UNCHANGED <<sessionVars, promises, checkpointVars, stores, updaterVars>>
    BY <1>5 DEF StartNative, StartStopServices
  <2>2. QED BY <1>0, <2>1 DEF StoresTyped, SessionTyped, sessionVars, promises, checkpointVars,
            stores, updaterVars, UpdaterTypeOK
<1>6. CASE StartFinish(h)
  <2>1. /\ inCall' \in BOOLEAN /\ startPending' \in BOOLEAN /\ owner' \in {"none", "diagnostic", "call"}
        /\ activeCall' \in Calls \cup {None}
    BY <1>0, <1>6 DEF StartFinish, StartOver
  <2>2. UNCHANGED <<diagPending, endPending, checkpointVars, stores, updaterVars>>
    BY <1>6 DEF StartFinish
  <2>3. QED BY <1>0, <2>1, <2>2 DEF StoresTyped, SessionTyped, checkpointVars, stores,
            updaterVars, UpdaterTypeOK
<1>7. CASE StartEndCall(h) \/ StartStopped(h)
  <2>1. /\ callStatus' \in [Calls -> {"absent", "open", "ended", "unended"}]
        /\ owner' \in {"none", "diagnostic", "call"} /\ startPending' \in BOOLEAN
    BY <1>0, <1>7 DEF StartEndCall, StartStopped, EndCallRecord, StartOver,
       StoresTyped, SessionTyped
  <2>4. SinksTyped'
    BY <1>0, <1>7, StoppedTyped DEF StartEndCall, StartStopped, StoresTyped, SinksTyped
  <2>2. UNCHANGED <<inCall, activeCall, diagPending, endPending, checkpointCall,
                    hasContext, checkpoint, audited, updaterVars>>
    BY <1>7 DEF StartEndCall, StartStopped
  <2>3. QED BY <1>0, <2>1, <2>2, <2>4 DEF StoresTyped, SinksTyped, SessionTyped, updaterVars,
            UpdaterTypeOK
<1>8. CASE DiscardFailedStart(h)
  <2>1. /\ checkpoint' \in [Calls -> {"none", "recording", "finalized", "discarded"}]
        /\ checkpointCall' \in Calls \cup {None}
        /\ stopFailed' \in BOOLEAN /\ hasContext' \in BOOLEAN /\ startPending' \in BOOLEAN
    BY <1>0, <1>8 DEF DiscardFailedStart, DiscardOver, StartOver, StoresTyped, SessionTyped,
       checkpointVars
  <2>2. UNCHANGED <<sessionVars, diagPending, endPending, callStatus, audio, audited,
                    updaterVars>>
    BY <1>8 DEF DiscardFailedStart
  <2>3. QED BY <1>0, <2>1, <2>2 DEF StoresTyped, SessionTyped, sessionVars, updaterVars, UpdaterTypeOK
<1>9. QED BY <1>1, <1>2, <1>3, <1>4, <1>5, <1>6, <1>7, <1>8 DEF Start

LEMMA StartTypeOK ==
    ASSUME Order, NEW h \in Starters, Start(h)
    PROVE  TypeOK' /\ Others(h)
  BY StartServices, StartFrames, StartTyped, Typing, PTL

-----------------------------------------------------------------------------
(* The same for the end of a call. *)

LEMMA EndServices ==
    ASSUME Order, NEW h \in Enders, End(h)
    PROVE  ServicesTyped' /\ taken' \in [Handlers -> Targets \cup {None}]
<1>0. TypeOK /\ ServicesTyped /\ taken \in [Handlers -> Targets \cup {None}] /\ h \in Handlers
  BY Typing DEF Order, FramesTyped, Handlers
<1>1. ASSUME NEW l, StopServices(h, l)
      PROVE  ServicesTyped' /\ taken' \in [Handlers -> Targets \cup {None}]
  BY <1>0, <1>1, StopServicesTyped
<1>2. CASE UNCHANGED services /\ UNCHANGED taken
  BY <1>0, <1>2 DEF services, ServicesTyped
<1>3. CASE ServicesStopped(h) /\ UNCHANGED services
  BY <1>0, <1>3 DEF services, ServicesTyped, ServicesStopped
<1>4. BeginEnd(h) => (UNCHANGED services /\ UNCHANGED taken) \/ \E l : StopServices(h, l)
  BY DEF BeginEnd
<1>5. QED BY <1>1, <1>2, <1>3, <1>4
     DEF End, EndRequest, EndAfterStart, EndJoined, EndStopped, EndFinalize, EndCall, EndFinish

LEMMA EndFrames ==
    ASSUME Order, NEW h \in Enders, End(h)
    PROVE  FramesTyped' /\ Others(h)
<1>0. TypeOK /\ h \in Handlers /\ ServicesTyped /\ activeCall \in Calls \cup {None}
  BY Typing DEF Order, Handlers, TypeOK
<1>1. taken' \in [Handlers -> Targets \cup {None}]
  BY EndServices
<1>2. UNCHANGED taken \/ \E t : taken' = [taken EXCEPT ![h] = t]
  BY DEF End, EndRequest, EndAfterStart, EndJoined, EndStopped, EndFinalize, EndCall, EndFinish,
         BeginEnd, StopServices, ServicesStopped
<1>3. Finish(h) \/ \E l \in Labels : Goto(h, l) /\
                     (UNCHANGED work \/ \E c \in Calls \cup {None} : work' = [work EXCEPT ![h] = c])
  <2> USE DEF Labels, EndLabels
  <2>0. \A c, f : AfterStop(c, f) \in Labels
    BY DEF AfterStop
  <2>1. CASE BeginEnd(h)
    BY <1>0, <2>0, <2>1 DEF BeginEnd, StopServices
  <2>2. CASE EndRequest(h) \/ EndAfterStart(h)
    BY <2>1, <2>2 DEF EndRequest, EndAfterStart
  <2>3. CASE EndJoined(h) \/ EndFinalize(h) \/ EndCall(h) \/ EndFinish(h)
    BY <2>3 DEF EndJoined, EndFinalize, EndCall, EndFinish
  <2>4. CASE EndStopped(h)
    BY <2>0, <2>4 DEF EndStopped
  <2>5. QED BY <2>2, <2>3, <2>4 DEF End
<1>4. QED BY <1>0, <1>1, <1>2, <1>3, Turn DEF FramesTyped, Others

LEMMA SessionIdleTyped ==
    ASSUME TypeOK, NEW c \in Calls \cup {None}, NEW b \in BOOLEAN, SessionIdle(c, b)
    PROVE  /\ checkpointCall' \in Calls \cup {None} /\ stopFailed' \in BOOLEAN
           /\ hasContext' \in BOOLEAN /\ inCall' \in BOOLEAN
           /\ activeCall' \in Calls \cup {None} /\ owner' \in {"none", "diagnostic", "call"}
           /\ UpdaterTypeOK'
<1>1. checkpointCall' \in Calls \cup {None} /\ stopFailed' \in BOOLEAN
  BY DEF TypeOK, SessionIdle
<1>2. inCall' \in BOOLEAN /\ activeCall' \in Calls \cup {None} /\ hasContext' \in BOOLEAN
      /\ owner' \in {"none", "diagnostic", "call"}
  BY DEF TypeOK, SessionIdle
<1>3. UpdaterTypeOK'
  <2>1. OnCallEnded(b) \/ UNCHANGED updaterVars
    BY DEF SessionIdle
  <2>2. QED BY <2>1 DEF TypeOK, OnCallEnded, TryInstall, UpdaterTypeOK, updaterVars
<1>4. QED BY <1>1, <1>2, <1>3

LEMMA EndTyped ==
    ASSUME Order, NEW h \in Enders, End(h)
    PROVE  StoresTyped' /\ SessionTyped'
<1>0. /\ StoresTyped /\ SessionTyped /\ Knows(h) /\ h \in Handlers /\ TypeOK
      /\ work[h] \in Calls \cup {None}
  BY Typing DEF Order, Handlers, FramesTyped
<1>1. CASE BeginEnd(h)
  <2>1. UNCHANGED <<diagPending, startPending, stores>>
    BY <1>1 DEF BeginEnd
  <2>2. CASE SessionIdle(None, FALSE) /\ UNCHANGED endPending
    BY <1>0, <2>1, <2>2, SessionIdleTyped DEF StoresTyped, SessionTyped, stores
  <2>3. CASE UNCHANGED <<sessionVars, checkpointVars, updaterVars>>
    <3>1. endPending' \in BOOLEAN
      BY <1>0, <1>1 DEF BeginEnd, SessionTyped
    <3>2. QED BY <1>0, <2>1, <2>3, <3>1 DEF StoresTyped, SessionTyped, stores, sessionVars,
          checkpointVars, updaterVars, UpdaterTypeOK
  <2>4. QED BY <1>1, <2>2, <2>3 DEF BeginEnd
<1>2. CASE EndRequest(h) \/ EndAfterStart(h) \/ EndJoined(h)
  <2>1. CASE UNCHANGED <<sessionVars, promises, checkpointVars, stores, updaterVars>>
    BY <1>0, <2>1 DEF StoresTyped, SessionTyped, sessionVars, promises, checkpointVars,
            stores, updaterVars, UpdaterTypeOK
  <2>2. QED BY <1>1, <1>2, <2>1 DEF EndRequest, EndAfterStart, EndJoined
<1>3. CASE EndStopped(h)
  <2>1. SinksTyped'
    BY <1>0, <1>3, StoppedTyped DEF EndStopped
  <2>2. UNCHANGED <<sessionVars, promises, checkpointCall, hasContext, callStatus,
                   checkpoint, audited, updaterVars>>
    BY <1>3 DEF EndStopped
  <2>3. QED BY <1>0, <2>1, <2>2 DEF StoresTyped, SinksTyped, SessionTyped, sessionVars, promises,
            updaterVars, UpdaterTypeOK
<1>4. CASE EndFinalize(h) \/ EndCall(h)
  <2>1. /\ callStatus' \in [Calls -> {"absent", "open", "ended", "unended"}]
        /\ checkpoint' \in [Calls -> {"none", "recording", "finalized", "discarded"}]
    BY <1>0, <1>4 DEF EndFinalize, EndCall, EndCallRecord, StoresTyped
  <2>2. UNCHANGED <<sessionVars, promises, checkpointVars, audio, audited,
                    updaterVars>>
    BY <1>4 DEF EndFinalize, EndCall
  <2>3. QED BY <1>0, <2>1, <2>2 DEF StoresTyped, SessionTyped, sessionVars, promises,
            checkpointVars, updaterVars, UpdaterTypeOK
<1>5. CASE EndFinish(h)
  <2>1. SessionIdle(work[h], TRUE) /\ endPending' \in BOOLEAN
        /\ UNCHANGED <<diagPending, startPending, stores>>
    BY <1>5 DEF EndFinish
  <2>2. QED BY <1>0, <2>1, SessionIdleTyped DEF StoresTyped, SessionTyped, stores
<1>6. QED BY <1>2, <1>3, <1>4, <1>5 DEF End

LEMMA EndTypeOK ==
    ASSUME Order, NEW h \in Enders, End(h)
    PROVE  TypeOK' /\ Others(h)
  BY EndServices, EndFrames, EndTyped, Typing, PTL

-----------------------------------------------------------------------------
(* The same for the diagnostics, the native module and the updater. *)

LEMMA DiagTypeOK ==
    ASSUME Order, NEW h \in DiagStarters \cup DiagStoppers, DiagStart(h) \/ DiagStop(h)
    PROVE  TypeOK' /\ Others(h)
<1>0. /\ TypeOK /\ FramesTyped /\ StoresTyped /\ SessionTyped /\ ServicesTyped
      /\ h \in Handlers
  BY Typing DEF Order, Handlers
<1>1. ASSUME NEW l, StopServices(h, l)
      PROVE  ServicesTyped' /\ taken' \in [Handlers -> Targets \cup {None}]
  BY <1>0, <1>1, StopServicesTyped
<1>2. ServicesTyped' /\ taken' \in [Handlers -> Targets \cup {None}]
  <2>1. CASE UNCHANGED services /\ UNCHANGED taken
    BY <1>0, <2>1 DEF services, ServicesTyped, FramesTyped
  <2>2. CASE ServicesStopped(h) /\ UNCHANGED services
    BY <1>0, <2>2 DEF services, ServicesTyped, ServicesStopped, FramesTyped
  <2>3. CASE DiagStt(h)
    BY <1>0, <1>1, <2>3 DEF DiagStt, ServicesTyped, FramesTyped
  <2>4. CASE DiagAudit(h) \/ DiagStopRequest(h)
    BY <1>1, <2>1, <2>4 DEF DiagAudit, DiagStopRequest, CleanUp
  <2>5. CASE DiagNative(h)
    <3>1. Knows(h)
      BY <1>0 DEF Order
    <3>2. CASE pc[h] = "nativeWait"
      <4>1. service \in Targets /\ UNCHANGED taken /\ \E ok \in BOOLEAN : NativeStarted(ok)
        BY <1>0, <2>5, <3>1, <3>2 DEF DiagNative, At, Knows, ServicesTyped
      <4>2. QED BY <1>0, <4>1 DEF NativeStarted, ServicesTyped, FramesTyped
    <3>3. CASE pc[h] # "nativeWait"
      <4>1. CASE NativeStart(Diag) /\ UNCHANGED taken
        BY <1>0, <4>1 DEF NativeStart, ServicesTyped, FramesTyped, Targets
      <4>2. QED BY <1>1, <2>1, <2>5, <3>3, <4>1 DEF DiagNative, At, ModuleMissing
    <3>4. QED BY <3>2, <3>3
  <2>6. QED BY <2>1, <2>2, <2>3, <2>4, <2>5
       DEF DiagStart, DiagStop, DiagRequest, DiagPermitted, DiagFinish, DiagFailed, DiagStopped
<1>3. UNCHANGED taken \/ \E t : taken' = [taken EXCEPT ![h] = t]
  BY DEF DiagStart, DiagStop, DiagRequest, DiagPermitted, DiagStt, DiagAudit, DiagNative, DiagFinish,
         DiagFailed, DiagStopRequest, DiagStopped, StopServices, ServicesStopped, CleanUp
<1>4. Finish(h) \/ \E l \in Labels : Goto(h, l) /\ UNCHANGED work
  <2> USE DEF Labels, StartLabels, EndLabels, DiagLabels, DiagOver
  <2>1. CASE DiagRequest(h) \/ DiagPermitted(h) \/ DiagStt(h)
    BY <2>1 DEF DiagRequest, DiagPermitted, DiagStt, StopServices
  <2>2. CASE DiagAudit(h)
    BY <2>2 DEF DiagAudit, CleanUp, StopServices
  <2>3. CASE DiagNative(h)
    BY <2>3 DEF DiagNative, StopServices
  <2>4. CASE DiagFinish(h) \/ DiagFailed(h) \/ DiagStop(h)
    BY <2>4 DEF DiagFinish, DiagFailed, DiagStop, DiagStopRequest, DiagStopped, StopServices
  <2>5. QED BY <2>1, <2>2, <2>3, <2>4 DEF DiagStart
<1>5. FramesTyped' /\ Others(h)
  BY <1>0, <1>2, <1>3, <1>4, Turn DEF FramesTyped, Others
<1>6. StoresTyped' /\ SessionTyped'
  <2>1. /\ SinksTyped' /\ audited' \subseteq Targets
        /\ owner' \in {"none", "diagnostic", "call"} /\ diagPending' \in BOOLEAN
    <3>1. CASE DiagStop(h) \/ DiagFailed(h) \/ DiagFinish(h)
      <4>1. SinksTyped'
        BY <1>0, <3>1, StoppedTyped DEF DiagStop, DiagStopRequest, DiagStopped, DiagFailed,
           DiagFinish, SinksTyped, StoresTyped, checkpointVars, stores
      <4>2. QED BY <1>0, <3>1, <4>1 DEF DiagStop, DiagStopRequest, DiagStopped, DiagFailed,
           DiagFinish, DiagOver, StoresTyped, SessionTyped, sessionVars, promises, stores
    <3>2. CASE DiagRequest(h) \/ DiagPermitted(h) \/ DiagStt(h) \/ DiagNative(h)
      BY <1>0, <3>2 DEF DiagRequest, DiagPermitted, DiagStt, DiagNative, DiagOver, StoresTyped,
         SinksTyped, SessionTyped, sessionVars, promises, checkpointVars, stores
    <3>3. CASE DiagAudit(h)
      BY <1>0, <3>3 DEF DiagAudit, LogRecording, Targets, StoresTyped, SinksTyped, SessionTyped,
         sessionVars, promises, checkpointVars
    <3>4. QED BY <3>1, <3>2, <3>3 DEF DiagStart
  <2>2. UNCHANGED <<inCall, activeCall, startPending, endPending, checkpointCall, hasContext,
                    callStatus, checkpoint, updaterVars>>
    BY DEF DiagStart, DiagStop, DiagRequest, DiagPermitted, DiagStt, DiagAudit, DiagNative,
           DiagFinish, DiagFailed, DiagStopRequest, DiagStopped, sessionVars, promises,
           checkpointVars, stores
  <2>3. QED BY <1>0, <2>1, <2>2 DEF StoresTyped, SinksTyped, SessionTyped, updaterVars, UpdaterTypeOK
<1>7. QED BY <1>2, <1>5, <1>6, Typing, PTL

LEMMA OutsideTypeOK ==
    ASSUME Order, AudioChunk \/ UpdaterStep
    PROVE  TypeOK' /\ UNCHANGED <<frames, sessionVars, promises, services, checkpointVars>>
           /\ UNCHANGED <<callStatus, checkpoint, drained, audited>>
<1>1. UNCHANGED <<frames, sessionVars, promises, services, checkpointVars, callStatus, checkpoint,
                  drained, audited>>
  BY DEF AudioChunk, UpdaterStep, stores
<1>2. buffered' \subseteq Calls /\ persisted' \subseteq Calls
  BY DEF Order, TypeOK, AudioChunk, UpdaterStep, stores
<1>3. UpdaterTypeOK'
  BY DEF Order, TypeOK, AudioChunk, UpdaterStep, OnUpdateDownloaded, Retry, TryInstall,
         RecordingInProgress, UpdaterTypeOK, updaterVars
<1>4. QED BY <1>1, <1>2, <1>3 DEF Order, TypeOK, frames, sessionVars, promises, services,
         checkpointVars

-----------------------------------------------------------------------------
(* What a step does to the session and to the promises. *)

Elsewhere == <<services, checkpointVars, stores>>

LEMMA StartShape ==
    ASSUME Order, NEW h \in Starters, Start(h)
    PROVE  /\ UNCHANGED <<updaterVars, diagPending, endPending>> /\ ~installed
           /\ \/ /\ ~Active(h) /\ pc'[h] \in {"idle", "awaitEnd"}
                 /\ UNCHANGED <<sessionVars, startPending, Elsewhere>>
              \/ /\ ~Active(h) /\ pc'[h] = "permission"
                 /\ ~inCall /\ ~startPending /\ ~diagPending /\ owner # "diagnostic"
                 /\ startPending' = TRUE /\ UNCHANGED <<sessionVars, Elsewhere>>
              \/ /\ Active(h) /\ pc'[h] \in StartLabels \ Rest
                 /\ UNCHANGED <<sessionVars, startPending>>
              \/ /\ Active(h) /\ pc[h] # "started" /\ pc'[h] = "idle" /\ startPending' = FALSE
                 /\ UNCHANGED <<inCall, activeCall>> /\ owner' \in {owner, "none"}
              \/ /\ pc[h] = "started" /\ pc'[h] = "idle" /\ startPending' = FALSE
                 /\ inCall' = TRUE /\ activeCall' = work[h] /\ owner' = "call"
                 /\ UNCHANGED Elsewhere
<1>0. /\ TypeOK /\ h \in Handlers /\ pc \in [Handlers -> Labels]
      /\ work \in [Handlers -> Calls \cup {None}]
  BY Typing DEF Order, Handlers, FramesTyped
<1>a. \A l : Goto(h, l) => pc'[h] = l
  BY <1>0 DEF Goto
<1>b. Finish(h) => pc'[h] = "idle"
  BY <1>0 DEF Finish
<1> USE DEF Active, Rest, StartLabels, At, StartOver
<1>1. CASE BeginStart(h) /\ ~Active(h) /\ ~installed
  BY <1>1, <1>a, <1>b DEF BeginStart, Elsewhere
<1>2. CASE StartRequest(h) \/ StartAfterEnd(h)
  <2>1. CASE BeginStart(h)
    BY <1>1, <1>2, <2>1 DEF StartRequest, StartAfterEnd
  <2>2. CASE ~BeginStart(h)
    BY <1>2, <2>2, <1>a DEF StartRequest, StartAfterEnd, Elsewhere, promises
  <2>3. QED BY <2>1, <2>2
<1>3. CASE StartPermitted(h)
  BY <1>3, <1>a, <1>b DEF StartPermitted, sessionVars
<1>4. CASE StartStt(h) \/ StartCreateCall(h) \/ StartAudit(h)
  BY <1>4, <1>a DEF StartStt, StartCreateCall, StartAudit, CleanUp, StopServices, promises
<1>5. CASE StartCheckpoint(h) \/ StartNative(h) \/ StartStopServices(h)
  BY <1>5, <1>a DEF StartCheckpoint, StartNative, StartStopServices, StopServices, promises
<1>6. CASE StartFinish(h)
  BY <1>6, <1>b DEF StartFinish, Elsewhere
<1>7. CASE StartEndCall(h)
  BY <1>7, <1>a, <1>b DEF StartEndCall, sessionVars
<1>8. CASE StartStopped(h) \/ DiscardFailedStart(h)
  BY <1>8, <1>a, <1>b DEF StartStopped, DiscardFailedStart, DiscardOver, sessionVars
<1>9. QED BY <1>2, <1>3, <1>4, <1>5, <1>6, <1>7, <1>8 DEF Start

LEMMA EndShape ==
    ASSUME Order, NEW h \in Enders, End(h)
    PROVE  /\ UNCHANGED <<diagPending, startPending>> /\ ~installed
           /\ \/ /\ ~Active(h) /\ pc'[h] \in {"idle", "awaitStart", "joinEnd"}
                 /\ UNCHANGED <<sessionVars, endPending, services, stores, updaterVars>>
              \/ /\ ~Active(h) /\ pc'[h] \in {"endStop", "finalize", "endCall"}
                 /\ inCall /\ ~endPending /\ endPending' = TRUE /\ work'[h] = activeCall
                 /\ UNCHANGED <<sessionVars, stores, updaterVars>>
              \/ /\ Active(h) /\ pc'[h] \in {"finalize", "endCall", "endIdle"}
                 /\ UNCHANGED <<sessionVars, endPending, services, updaterVars>>
                 /\ work'[h] = work[h]
              \/ /\ pc[h] = "endIdle" /\ pc'[h] = "idle" /\ endPending' = FALSE
                 /\ inCall' = FALSE /\ activeCall' = None
                 /\ owner' = IF owner = "call" THEN "none" ELSE owner
                 /\ OnCallEnded(TRUE) \/ UNCHANGED updaterVars
                 /\ UNCHANGED <<services, stores>>
<1>0. /\ TypeOK /\ Modes /\ h \in Handlers /\ pc \in [Handlers -> Labels]
      /\ work \in [Handlers -> Calls \cup {None}]
  BY Typing DEF Order, Handlers, FramesTyped
<1>a. \A l : Goto(h, l) => pc'[h] = l
  BY <1>0 DEF Goto
<1>b. Finish(h) => pc'[h] = "idle"
  BY <1>0 DEF Finish
<1> USE DEF Active, Rest, EndLabels, At
<1>1. CASE BeginEnd(h) /\ ~Active(h) /\ ~installed
  <2>0. UNCHANGED <<diagPending, startPending, stores>>
    BY <1>1 DEF BeginEnd
  <2>1. CASE endPending /\ Goto(h, "joinEnd") /\ UNCHANGED <<sessionVars, endPending, services, updaterVars>>
    BY <1>1, <2>0, <2>1, <1>a
  <2>2. CASE /\ ~endPending /\ inCall /\ endPending' = TRUE /\ work' = [work EXCEPT ![h] = activeCall]
             /\ Goto(h, "endStop") \/ Goto(h, AfterStop(activeCall, stopFailed))
             /\ UNCHANGED <<sessionVars, updaterVars>>
    <3>1. pc'[h] \in {"endStop", "finalize", "endCall"} /\ work'[h] = activeCall
      BY <2>2, <1>0, <1>a DEF AfterStop
    <3>2. QED BY <1>1, <2>0, <2>2, <3>1
  <2>3. CASE /\ ~endPending /\ owner # "call" /\ activeCall = None /\ SessionIdle(None, FALSE)
             /\ Finish(h) /\ UNCHANGED <<endPending, services>>
    <3>1. ~inCall
      BY <1>0, <2>3 DEF Modes
    <3>2. UNCHANGED <<sessionVars, updaterVars>>
      BY <1>0, <2>3, <3>1 DEF SessionIdle, sessionVars, TypeOK
    <3>3. QED BY <1>1, <2>0, <2>3, <3>2, <1>b
  <2>4. owner = "call" \/ activeCall # None => inCall
    BY <1>0 DEF Modes
  <2>5. QED
    <3>1. CASE ~endPending /\ owner = "call"
      BY <1>1, <2>2, <2>4, <3>1 DEF BeginEnd, StopServices
    <3>2. CASE ~(~endPending /\ owner = "call")
      BY <1>1, <2>1, <2>2, <2>3, <2>4, <3>2 DEF BeginEnd
    <3>3. QED BY <3>1, <3>2
<1>2. CASE EndRequest(h) \/ EndAfterStart(h)
  <2>1. CASE BeginEnd(h)
    BY <1>1, <1>2, <2>1 DEF EndRequest, EndAfterStart
  <2>2. CASE ~BeginEnd(h)
    BY <1>2, <2>2, <1>a DEF EndRequest, EndAfterStart, promises
  <2>3. QED BY <2>1, <2>2
<1>3. CASE EndJoined(h)
  BY <1>3, <1>b DEF EndJoined, promises
<1>4. CASE EndStopped(h)
  <2>1. pc'[h] \in {"finalize", "endCall"}
    BY <1>4, <1>a DEF EndStopped, AfterStop
  <2>2. QED BY <1>4, <2>1 DEF EndStopped, promises
<1>5. CASE EndFinalize(h) \/ EndCall(h)
  BY <1>5, <1>a DEF EndFinalize, EndCall, promises
<1>6. CASE EndFinish(h)
  BY <1>6, <1>b DEF EndFinish, SessionIdle
<1>7. QED BY <1>2, <1>3, <1>4, <1>5, <1>6 DEF End

LEMMA DiagShape ==
    ASSUME Order, NEW h \in DiagStarters, DiagStart(h)
    PROVE  /\ UNCHANGED <<updaterVars, startPending, endPending, inCall, activeCall>> /\ ~installed
           /\ UNCHANGED <<callStatus, checkpoint>>
           /\ \/ /\ ~Active(h) /\ pc'[h] = "permission" /\ diagPending' = TRUE
                 /\ ~CallInProgress /\ ~diagPending /\ owner # "diagnostic"
                 /\ UNCHANGED <<owner, Elsewhere>>
              \/ /\ Active(h) /\ pc'[h] \in DiagLabels \ Rest
                 /\ UNCHANGED <<owner, diagPending>>
              \/ /\ Active(h) /\ pc'[h] = "idle" /\ diagPending' = FALSE
                 /\ owner' \in {owner, "diagnostic", "none"} /\ UNCHANGED <<services, audited>>
<1>0. /\ TypeOK /\ h \in Handlers /\ pc \in [Handlers -> Labels]
      /\ work \in [Handlers -> Calls \cup {None}]
  BY Typing DEF Order, Handlers, FramesTyped
<1>a. \A l : Goto(h, l) => pc'[h] = l
  BY <1>0 DEF Goto
<1>b. Finish(h) => pc'[h] = "idle"
  BY <1>0 DEF Finish
<1> USE DEF Active, Rest, DiagLabels, At, DiagOver
<1>1. CASE DiagRequest(h)
  BY <1>1, <1>a DEF DiagRequest, sessionVars, stores, Elsewhere
<1>2. CASE DiagPermitted(h)
  BY <1>2, <1>a, <1>b DEF DiagPermitted, sessionVars, stores
<1>3. CASE DiagStt(h) \/ DiagAudit(h)
  BY <1>3, <1>a DEF DiagStt, DiagAudit, CleanUp, StopServices, sessionVars, promises, stores
<1>4. CASE DiagNative(h)
  BY <1>4, <1>a DEF DiagNative, StopServices, sessionVars, promises, stores
<1>5. CASE DiagFinish(h) \/ DiagFailed(h)
  BY <1>5, <1>b DEF DiagFinish, DiagFailed, stores
<1>6. QED BY <1>1, <1>2, <1>3, <1>4, <1>5 DEF DiagStart

LEMMA DiagStopShape ==
    ASSUME Order, NEW h \in DiagStoppers, DiagStop(h)
    PROVE  /\ UNCHANGED <<updaterVars, promises, inCall, activeCall>> /\ ~installed
           /\ UNCHANGED <<callStatus, checkpoint, audited>>
           /\ \/ /\ ~Active(h) /\ pc'[h] = "diagStop" /\ UNCHANGED owner
                 /\ ~CallInProgress /\ ~diagPending /\ owner = "diagnostic"
              \/ /\ pc[h] = "diagStop" /\ pc'[h] = "idle" /\ owner' = "none" /\ UNCHANGED services
<1>0. /\ TypeOK /\ h \in Handlers /\ pc \in [Handlers -> Labels]
      /\ work \in [Handlers -> Calls \cup {None}]
  BY Typing DEF Order, Handlers, FramesTyped
<1>a. \A l : Goto(h, l) => pc'[h] = l
  BY <1>0 DEF Goto
<1>b. Finish(h) => pc'[h] = "idle"
  BY <1>0 DEF Finish
<1>1. QED BY <1>a, <1>b DEF DiagStop, DiagStopRequest, DiagStopped, StopServices, Active, Rest, At,
         sessionVars, stores

-----------------------------------------------------------------------------
(* The promises keep the handlers apart, and the session is in one mode. *)

\* Where the other handlers are.
LEMMA Apart ==
    ASSUME NEW h \in Handlers, Others(h)
    PROVE  \A g \in Handlers : g # h => (Active(g)' <=> Active(g)) /\ pc'[g] = pc[g]
  BY DEF Others, Active

LEMMA Kinds ==
    /\ \A h \in Starters : h \notin Enders /\ h \notin DiagStarters /\ h \notin DiagStoppers
    /\ \A h \in Enders : h \notin Starters /\ h \notin DiagStarters /\ h \notin DiagStoppers
    /\ \A h \in DiagStarters : h \notin Starters /\ h \notin Enders /\ h \notin DiagStoppers
    /\ \A h \in DiagStoppers : h \notin Starters /\ h \notin Enders /\ h \notin DiagStarters
    /\ Starters \subseteq Handlers /\ Enders \subseteq Handlers
    /\ DiagStarters \subseteq Handlers /\ DiagStoppers \subseteq Handlers
    /\ Callers \subseteq Handlers
  BY RecordingAssumption DEF Handlers, Callers

LEMMA StartModes ==
    ASSUME Order, NEW h \in Starters, Start(h)
    PROVE  Promised' /\ Modes'
<1>0. /\ Promised /\ Modes /\ TypeOK /\ Knows(h) /\ Others(h) /\ h \in Handlers /\ h \in Callers
  BY StartTypeOK, Kinds DEF Order, Callers
<1>1. UNCHANGED installed /\ ~installed
  BY StartShape DEF updaterVars
<1>2. Promised'
  <2>1. CASE Active(h)
    <3>1. startPending /\ \A g \in Callers : g # h => ~Active(g)
      BY <1>0, <2>1 DEF Promised
    <3>2. startPending' \/ ~Active(h)'
      BY <3>1, StartShape DEF Active, Rest
    <3>3. QED BY <1>0, <3>1, <3>2, Apart, Kinds DEF Promised, Callers
  <2>2. CASE ~Active(h) /\ ~Active(h)'
    <3>1. UNCHANGED promises
      BY <2>2, StartShape DEF promises, Active, Rest, StartLabels
    <3>2. QED BY <1>0, <2>2, <3>1, Apart, Kinds DEF Promised, Callers, promises
  <2>3. CASE ~Active(h) /\ Active(h)'
    <3>1. ~startPending /\ startPending' /\ ~inCall /\ ~diagPending /\ UNCHANGED <<endPending, diagPending>>
      BY <2>3, StartShape DEF Active, Rest
    <3>2. \A g \in Callers : ~Active(g)
      BY <1>0, <3>1 DEF Promised, Modes, Callers
    <3>3. QED BY <1>0, <2>3, <3>1, <3>2, Apart, Kinds DEF Promised, Callers
  <2>4. QED BY <2>1, <2>2, <2>3
<1>3. Modes'
  <2>1. CASE UNCHANGED <<sessionVars, promises>>
    BY <1>0, <1>1, <2>1 DEF Modes, sessionVars, promises
  <2>2. CASE ~inCall /\ ~diagPending /\ owner # "diagnostic" /\ startPending' = TRUE /\ UNCHANGED <<sessionVars, diagPending, endPending>>
    <3>1. owner = "none"
      BY <1>0, <2>2 DEF Modes, TypeOK
    <3>2. QED BY <1>0, <1>1, <2>2, <3>1 DEF Modes, sessionVars
  <2>3. CASE /\ Active(h) /\ startPending' = FALSE /\ UNCHANGED <<inCall, activeCall, diagPending, endPending>>
             /\ owner' \in {owner, "none"}
    <3>1. startPending
      BY <1>0, <2>3 DEF Promised
    <3>2. QED BY <1>0, <1>1, <2>3, <3>1 DEF Modes
  <2>4. CASE /\ pc[h] = "started" /\ startPending' = FALSE /\ UNCHANGED <<diagPending, endPending>>
             /\ inCall' = TRUE /\ activeCall' = work[h] /\ owner' = "call"
    <3>1. work[h] # None /\ startPending
      BY <1>0, <2>4, RecordingAssumption DEF Knows, WithCall, Promised, Active, Rest
    <3>2. QED BY <1>0, <1>1, <2>4, <3>1 DEF Modes
  <2>5. QED BY <2>1, <2>2, <2>3, <2>4, StartShape DEF promises
<1>4. QED BY <1>2, <1>3

LEMMA EndModes ==
    ASSUME Order, NEW h \in Enders, End(h)
    PROVE  Promised' /\ Modes'
<1>0. /\ Promised /\ Modes /\ TypeOK /\ Knows(h) /\ Others(h) /\ h \in Handlers /\ h \in Callers
  BY EndTypeOK, Kinds DEF Order, Callers
<1>1. ~installed /\ (UNCHANGED updaterVars => ~installed')
  BY EndShape DEF updaterVars
<1>2. Promised'
  <2>1. CASE Active(h)
    <3>1. endPending /\ \A g \in Callers : g # h => ~Active(g)
      BY <1>0, <2>1 DEF Promised
    <3>2. endPending' \/ ~Active(h)'
      BY <3>1, EndShape DEF Active, Rest
    <3>3. QED BY <1>0, <3>1, <3>2, Apart, Kinds DEF Promised, Callers
  <2>2. CASE ~Active(h) /\ ~Active(h)'
    <3>1. UNCHANGED promises
      BY <2>2, EndShape DEF promises, Active, Rest
    <3>2. QED BY <1>0, <2>2, <3>1, Apart, Kinds DEF Promised, Callers, promises
  <2>3. CASE ~Active(h) /\ Active(h)'
    <3>1. inCall /\ ~endPending /\ endPending' /\ UNCHANGED <<startPending, diagPending>>
      BY <2>3, EndShape DEF Active, Rest
    <3>2. \A g \in Callers : ~Active(g)
      BY <1>0, <3>1 DEF Promised, Modes, Callers
    <3>3. QED BY <1>0, <2>3, <3>1, <3>2, Apart, Kinds DEF Promised, Callers
  <2>4. QED BY <2>1, <2>2, <2>3
<1>3. Modes'
  <2>1. CASE UNCHANGED <<sessionVars, promises, updaterVars>>
    BY <1>0, <1>1, <2>1 DEF Modes, sessionVars, promises
  <2>2. CASE inCall /\ endPending' = TRUE /\ UNCHANGED <<sessionVars, diagPending, startPending, updaterVars>>
    BY <1>0, <1>1, <2>2 DEF Modes, sessionVars
  <2>3. CASE /\ pc[h] = "endIdle" /\ endPending' = FALSE /\ inCall' = FALSE /\ activeCall' = None
             /\ owner' = IF owner = "call" THEN "none" ELSE owner
             /\ UNCHANGED <<diagPending, startPending>>
    <3>1. endPending /\ inCall
      BY <1>0, <2>3 DEF Promised, Active, Rest, Modes
    <3>2. QED BY <1>0, <1>1, <2>3, <3>1 DEF Modes
  <2>4. QED BY <2>1, <2>2, <2>3, EndShape DEF promises
<1>4. QED BY <1>2, <1>3

LEMMA DiagModes ==
    ASSUME Order, NEW h \in DiagStarters, DiagStart(h)
    PROVE  Promised' /\ Modes'
<1>0. /\ Promised /\ Modes /\ TypeOK /\ Others(h) /\ h \in Handlers /\ h \in Callers
  BY DiagTypeOK, Kinds DEF Order, Callers
<1>1. ~installed' /\ UNCHANGED <<startPending, endPending, inCall, activeCall>>
  BY DiagShape DEF updaterVars
<1>2. Promised'
  <2>1. CASE Active(h)
    <3>1. diagPending /\ \A g \in Callers : g # h => ~Active(g)
      BY <1>0, <2>1 DEF Promised
    <3>2. diagPending' \/ ~Active(h)'
      BY <3>1, DiagShape DEF Active, Rest
    <3>3. QED BY <1>0, <3>1, <3>2, Apart, Kinds DEF Promised, Callers
  <2>2. CASE ~Active(h)
    <3>1. ~CallInProgress /\ diagPending' /\ ~diagPending /\ Active(h)'
      BY <2>2, DiagShape DEF Active, Rest
    <3>2. \A g \in Callers : ~Active(g)
      BY <1>0, <3>1 DEF Promised, Modes, Callers, CallInProgress
    <3>3. QED BY <1>0, <1>1, <2>2, <3>1, <3>2, Apart, Kinds DEF Promised, Callers
  <2>3. QED BY <2>1, <2>2
<1>3. Modes'
  <2>1. CASE diagPending /\ UNCHANGED <<owner, diagPending>>
    BY <1>0, <1>1, <2>1 DEF Modes
  <2>2. CASE ~CallInProgress /\ owner # "diagnostic" /\ diagPending' = TRUE /\ UNCHANGED owner
    <3>1. owner = "none"
      BY <1>0, <2>2 DEF CallInProgress, TypeOK
    <3>2. QED BY <1>0, <1>1, <2>2, <3>1 DEF Modes, CallInProgress
  <2>3. CASE diagPending /\ diagPending' = FALSE /\ owner' \in {owner, "diagnostic", "none"}
    BY <1>0, <1>1, <2>3 DEF Modes
  <2>4. Active(h) => diagPending
    BY <1>0 DEF Promised
  <2>5. QED BY <2>1, <2>2, <2>3, <2>4, DiagShape
<1>4. QED BY <1>2, <1>3

LEMMA DiagStopModes ==
    ASSUME Order, NEW h \in DiagStoppers, DiagStop(h)
    PROVE  Promised' /\ Modes'
<1>0. /\ Promised /\ Modes /\ TypeOK /\ Others(h) /\ h \in Handlers /\ h \notin Callers
  BY DiagTypeOK, Kinds DEF Order, Callers
<1>1. ~installed' /\ UNCHANGED <<promises, inCall, activeCall>> /\ owner' \in {owner, "none"}
  BY DiagStopShape DEF updaterVars
<1>2. Promised'
  BY <1>0, <1>1, Apart, Kinds DEF Promised, Callers, promises
<1>3. Modes'
  BY <1>0, <1>1 DEF Modes, promises
<1>4. QED BY <1>2, <1>3

LEMMA OutsideModes ==
    ASSUME Order, AudioChunk \/ UpdaterStep
    PROVE  Promised' /\ Modes'
<1>0. Promised /\ Modes /\ TypeOK /\ UNCHANGED <<frames, sessionVars, promises>>
  BY OutsideTypeOK DEF Order
<1>1. Promised'
  BY <1>0 DEF Promised, Active, frames, promises
<1>2. installed' => ~inCall /\ ~startPending
  BY <1>0 DEF AudioChunk, UpdaterStep, OnUpdateDownloaded, Retry, TryInstall, RecordingInProgress,
     Modes, updaterVars
<1>3. QED BY <1>0, <1>1, <1>2 DEF Modes, sessionVars, promises

-----------------------------------------------------------------------------
(* What the handlers know about their calls. *)

LEMMA KnowsFrame ==
    ASSUME Order, NEW h \in Handlers, Others(h),
           \/ UNCHANGED <<service, callStatus, activeCall, audited>>
           \/ \A g \in Callers : g # h => ~Active(g)
    PROVE  \A g \in Handlers : g # h => Knows(g)'
<1> SUFFICES ASSUME NEW g \in Handlers, g # h PROVE Knows(g)'
  OBVIOUS
<1>1. pc'[g] = pc[g] /\ work'[g] = work[g] /\ Knows(g)
  BY DEF Others, Order
<1>2. CASE UNCHANGED <<service, callStatus, activeCall, audited>>
  BY <1>1, <1>2 DEF Knows, Active
<1>3. CASE g \in Callers /\ pc[g] \in Rest
  BY <1>1, <1>3 DEF Knows, Active, Rest, WithCall
<1>4. CASE g \in DiagStoppers
  BY <1>1, <1>4, Kinds DEF Knows
<1>5. QED BY <1>2, <1>3, <1>4 DEF Handlers, Callers, Active

\* The call of a start.
LEMMA StartWithCall ==
    ASSUME Order, NEW h \in Starters, Start(h)
    PROVE  \/ /\ pc[h] \in WithCall /\ pc'[h] \in WithCall
              /\ work'[h] = work[h] /\ UNCHANGED callStatus
              /\ pc'[h] \in {"checkpoint", "native"} => work[h] \in audited'
           \/ /\ pc[h] \in WithCall /\ pc'[h] \notin WithCall
              /\ work[h] \in Calls /\ callStatus'[work[h]] # "open"
              /\ \A c \in Calls : c # work[h] => callStatus'[c] = callStatus[c]
           \/ /\ pc[h] = "started" /\ pc'[h] = "idle"
              /\ UNCHANGED callStatus /\ activeCall' = work[h]
           \/ /\ pc[h] = "create" /\ pc'[h] = "audit" /\ work'[h] \in Calls /\ callStatus'[work'[h]] = "open"
              /\ \A c \in Calls : c # work'[h] => callStatus'[c] = callStatus[c]
           \/ /\ pc[h] \notin WithCall /\ pc'[h] \notin WithCall /\ UNCHANGED callStatus
<1>0. /\ TypeOK /\ h \in Handlers /\ pc \in [Handlers -> Labels] /\ Knows(h)
      /\ work \in [Handlers -> Calls \cup {None}]
      /\ callStatus \in [Calls -> {"absent", "open", "ended", "unended"}]
  BY Typing DEF Order, Handlers, FramesTyped, StoresTyped
<1>a. \A l : Goto(h, l) => pc'[h] = l
  BY <1>0 DEF Goto
<1>b. Finish(h) => pc'[h] = "idle"
  BY <1>0 DEF Finish
<1> USE DEF WithCall, At, StartOver
<1>1. CASE StartRequest(h) \/ StartAfterEnd(h) \/ StartPermitted(h)
  <2>1. pc[h] \notin WithCall /\ pc'[h] \notin WithCall
    BY <1>1, <1>a, <1>b DEF StartRequest, StartAfterEnd, StartPermitted, BeginStart
  <2>2. UNCHANGED callStatus
    BY <1>1 DEF StartRequest, StartAfterEnd, StartPermitted, BeginStart, stores
  <2>3. QED BY <2>1, <2>2
<1>2. CASE StartStt(h)
  BY <1>2, <1>a DEF StartStt, StopServices, stores
<1>3. CASE StartCreateCall(h)
  <2>1. CASE CleanUp(h, "call_create_failed") /\ UNCHANGED callStatus
    BY <1>3, <2>1, <1>a DEF StartCreateCall, CleanUp, StopServices
  <2>2. CASE \E c \in Calls : /\ callStatus' = [callStatus EXCEPT ![c] = "open"]
                              /\ work' = [work EXCEPT ![h] = c] /\ Goto(h, "audit")
    BY <1>3, <2>2, <1>0, <1>a DEF StartCreateCall
  <2>3. QED BY <1>3, <2>1, <2>2 DEF StartCreateCall
<1>4. CASE StartAudit(h)
  BY <1>4, <1>a DEF StartAudit, CleanUp, StopServices, LogRecording
<1>5. CASE StartCheckpoint(h) \/ StartNative(h)
  <2>1. UNCHANGED <<callStatus, work, audited>>
    BY <1>5 DEF StartCheckpoint, StartNative, stores
  <2>2. pc[h] \in {"checkpoint", "native", "nativeWait"}
        /\ pc'[h] \in {"native", "nativeWait", "nativeFailed", "started", "endFirst"}
    BY <1>5, <1>a DEF StartCheckpoint, StartNative
  <2>3. pc'[h] \in {"checkpoint", "native"} => pc[h] = "checkpoint"
    BY <1>5, <1>a DEF StartCheckpoint, StartNative
  <2>4. QED BY <1>0, <2>1, <2>2, <2>3 DEF Knows
<1>6. CASE StartFinish(h)
  BY <1>6, <1>b DEF StartFinish, stores
<1>7. CASE StartStopServices(h)
  BY <1>7, <1>a DEF StartStopServices, StopServices, stores
<1>8. CASE StartEndCall(h)
  <2>1. pc[h] \in WithCall /\ pc'[h] \notin WithCall
    BY <1>8, <1>a, <1>b DEF StartEndCall
  <2>2. work[h] \in Calls /\ EndCallRecord(work[h])
    BY <1>0, <1>8, <2>1 DEF StartEndCall, Knows
  <2>3. QED BY <1>0, <2>1, <2>2 DEF EndCallRecord
<1>9. CASE StartStopped(h) \/ DiscardFailedStart(h)
  BY <1>9, <1>a, <1>b DEF StartStopped, DiscardFailedStart, DiscardOver
<1>10. QED BY <1>1, <1>2, <1>3, <1>4, <1>5, <1>6, <1>7, <1>8, <1>9 DEF Start

LEMMA StartKnows ==
    ASSUME Order, NEW h \in Starters, Start(h)
    PROVE  (\A g \in Handlers : Knows(g)') /\ OpenIsWorkedOn'
<1>0. /\ TypeOK /\ h \in Handlers /\ Others(h) /\ Knows(h) /\ Promised /\ Modes /\ OpenIsWorkedOn
      /\ h \in Callers
  BY StartTypeOK DEF Order, Handlers, Callers
<1>1. Active(h) => \A g \in Callers : g # h => ~Active(g)
  BY <1>0 DEF Promised
<1>2. ~Active(h) => UNCHANGED <<service, callStatus, activeCall, audited>>
  <2>1. ~Active(h) => UNCHANGED <<sessionVars, Elsewhere>>
    BY StartShape DEF Active, Rest
  <2>2. QED BY <2>1 DEF sessionVars, Elsewhere, services, stores
<1>3. \A g \in Handlers : g # h => Knows(g)'
  BY <1>0, <1>1, <1>2, KnowsFrame
<1>4. Knows(h)'
  <2>1. pc'[h] \in StartLabels
    BY StartShape DEF Active, Rest, StartLabels
  <2>2. pc'[h] \in WithCall => work'[h] \in Calls /\ callStatus'[work'[h]] = "open"
    BY <1>0, StartWithCall DEF Knows, WithCall
  <2>3. pc'[h] \in {"checkpoint", "native"} => work'[h] \in audited'
    BY <1>0, StartWithCall DEF Knows, WithCall
  <2>4. pc'[h] = "nativeWait" => service' # None
    <3>1. pc'[h] = "nativeWait" => NativeStart(work[h]) /\ At(h, "native")
      <4>0. pc \in [Handlers -> Labels] /\ work \in [Handlers -> Calls \cup {None}]
        BY <1>0, Typing DEF FramesTyped
      <4>a. \A l : Goto(h, l) => pc'[h] = l
        BY <1>0, <4>0 DEF Goto
      <4>b. Finish(h) => pc'[h] = "idle"
        BY <1>0, <4>0 DEF Finish
      <4>1. CASE StartNative(h)
        BY <4>1, <4>a DEF StartNative
      <4>2. CASE StartRequest(h) \/ StartAfterEnd(h) \/ StartPermitted(h) \/ StartStt(h) \/ StartFinish(h)
        BY <4>2, <4>a, <4>b DEF StartRequest, StartAfterEnd, BeginStart, StartPermitted, StartStt,
           StartFinish, StartOver, StopServices
      <4>3. CASE StartCreateCall(h) \/ StartAudit(h) \/ StartCheckpoint(h) \/ StartStopServices(h)
        BY <4>3, <4>a DEF StartCreateCall, StartAudit, StartCheckpoint, StartStopServices,
           StopServices, CleanUp
      <4>4. CASE StartEndCall(h) \/ StartStopped(h) \/ DiscardFailedStart(h)
        BY <4>4, <4>a, <4>b DEF StartEndCall, StartStopped, DiscardFailedStart, DiscardOver, StartOver
      <4>5. QED BY <4>1, <4>2, <4>3, <4>4 DEF Start
    <3>2. QED BY <1>0, <3>1, RecordingAssumption DEF NativeStart, At, Knows, WithCall
  <2>5. QED BY <2>1, <2>2, <2>3, <2>4, Kinds DEF Knows
<1>5. OpenIsWorkedOn'
  <2> SUFFICES ASSUME NEW c \in Calls, callStatus'[c] = "open"
               PROVE  c = activeCall' \/ \E g \in Starters : pc'[g] \in WithCall /\ work'[g] = c
    BY DEF OpenIsWorkedOn
  <2>1. CASE pc'[h] = "audit" /\ work'[h] = c
    BY <2>1 DEF WithCall
  <2>2. CASE callStatus[c] = "open"
    <3>1. CASE c = activeCall
      <4>1. UNCHANGED activeCall
        <5>1. pc[h] # "started"
          BY <1>0, <3>1, RecordingAssumption DEF Promised, Modes, Active, Rest
        <5>2. QED BY <5>1, StartShape DEF sessionVars
      <4>2. QED BY <3>1, <4>1
    <3>2. ASSUME NEW g \in Starters, pc[g] \in WithCall, work[g] = c
          PROVE  c = activeCall' \/ \E k \in Starters : pc'[k] \in WithCall /\ work'[k] = c
      <4>1. CASE g = h
        <5>1. (pc'[h] \in WithCall /\ work'[h] = c) \/ activeCall' = c \/ callStatus'[c] # "open"
          BY <3>2, <4>1, StartWithCall DEF WithCall
        <5>2. QED BY <4>1, <5>1
      <4>2. CASE g # h
        BY <1>0, <3>2, <4>2, Kinds DEF Others
      <4>3. QED BY <4>1, <4>2
    <3>3. QED BY <1>0, <2>2, <3>1, <3>2 DEF OpenIsWorkedOn
  <2>3. callStatus[c] = "open" \/ (pc'[h] = "audit" /\ work'[h] = c)
    BY StartWithCall DEF WithCall
  <2>4. QED BY <2>1, <2>2, <2>3
<1>6. QED BY <1>3, <1>4, <1>5

\* The call of an end.
LEMMA EndCallShape ==
    ASSUME Order, NEW h \in Enders, End(h)
    PROVE  /\ \A c \in Calls : callStatus'[c] = "open" => callStatus[c] = "open"
           /\ pc'[h] = "endIdle" => callStatus'[activeCall] # "open"
           /\ pc'[h] # "nativeWait"
<1>0. /\ TypeOK /\ h \in Handlers /\ pc \in [Handlers -> Labels] /\ Knows(h)
      /\ callStatus \in [Calls -> {"absent", "open", "ended", "unended"}]
  BY Typing DEF Order, Handlers, FramesTyped, StoresTyped
<1>a. \A l : Goto(h, l) => pc'[h] = l
  BY <1>0 DEF Goto
<1>b. Finish(h) => pc'[h] = "idle"
  BY <1>0 DEF Finish
<1>c. pc[h] \in {"finalize", "endCall"} => work[h] = activeCall /\ activeCall \in Calls
  <2>1. ASSUME pc[h] \in {"finalize", "endCall"} PROVE work[h] = activeCall /\ inCall
    BY <1>0, <2>1 DEF Knows, Order, Promised, Modes, Active, Rest
  <2>2. activeCall \in Calls \cup {None} /\ (inCall => activeCall # None)
    BY <1>0 DEF TypeOK, Order, Modes
  <2>3. QED BY <2>1, <2>2
<1>1. CASE EndFinalize(h)
  <2>1. pc[h] = "finalize"
    BY <1>1 DEF EndFinalize, At
  <2>2. QED BY <1>0, <1>1, <2>1, <1>a, <1>c DEF EndFinalize
<1>2. CASE EndCall(h)
  <2>1. pc[h] = "endCall" /\ pc'[h] = "endIdle"
    BY <1>2, <1>a DEF EndCall, At
  <2>2. EndCallRecord(activeCall)
    BY <1>2, <2>1, <1>c, RecordingAssumption DEF EndCall
  <2>3. QED BY <1>0, <2>1, <2>2, <1>c DEF EndCallRecord
<1>3. CASE UNCHANGED callStatus /\ pc'[h] \in {"idle", "awaitStart", "joinEnd", "endStop", "finalize", "endCall"}
  BY <1>3
<1>4. CASE BeginEnd(h)
  <2>1. UNCHANGED callStatus
    BY <1>4 DEF BeginEnd, stores
  <2>2. pc'[h] \in {"idle", "joinEnd", "endStop", "finalize", "endCall"}
    BY <1>4, <1>a, <1>b DEF BeginEnd, StopServices, AfterStop
  <2>3. QED BY <1>3, <2>1, <2>2
<1>5. CASE EndStopped(h)
  <2>1. pc'[h] \in {"finalize", "endCall"}
    BY <1>5, <1>a DEF EndStopped, AfterStop
  <2>2. QED BY <1>3, <1>5, <2>1 DEF EndStopped
<1>6. CASE EndRequest(h) \/ EndAfterStart(h) \/ EndJoined(h) \/ EndFinish(h)
  BY <1>3, <1>4, <1>6, <1>a, <1>b DEF EndRequest, EndAfterStart, EndJoined, EndFinish, stores
<1>7. QED BY <1>1, <1>2, <1>5, <1>6 DEF End

LEMMA EndKnows ==
    ASSUME Order, NEW h \in Enders, End(h)
    PROVE  (\A g \in Handlers : Knows(g)') /\ OpenIsWorkedOn'
<1>0. /\ TypeOK /\ h \in Handlers /\ Others(h) /\ Knows(h) /\ Promised /\ Modes /\ OpenIsWorkedOn
      /\ h \in Callers
  BY EndTypeOK DEF Order, Handlers, Callers
<1>1. Active(h) => endPending /\ \A g \in Callers : g # h => ~Active(g)
  BY <1>0 DEF Promised
<1>2. (\A g \in Callers : g # h => ~Active(g)) \/ UNCHANGED <<service, callStatus, activeCall, audited>>
  <2>1. CASE ~Active(h) /\ inCall /\ ~endPending
    BY <1>0, <2>1 DEF Promised, Modes, Callers
  <2>2. CASE UNCHANGED <<sessionVars, services, stores>>
    BY <2>2 DEF sessionVars, services, stores
  <2>3. QED BY <1>1, <2>1, <2>2, EndShape DEF Active, Rest
<1>3. \A g \in Handlers : g # h => Knows(g)'
  BY <1>0, <1>2, KnowsFrame
<1>4. Knows(h)'
  <2>1. pc'[h] \in EndLabels
    BY EndShape DEF EndLabels
  <2>2. pc'[h] \notin Rest => work'[h] = activeCall'
    BY <1>0, EndShape DEF Knows, Rest, sessionVars, Active
  <2>3. pc'[h] = "endIdle" => callStatus'[activeCall'] # "open"
    BY EndShape, EndCallShape DEF sessionVars
  <2>4. QED BY <2>1, <2>2, <2>3, EndCallShape, Kinds DEF Knows, Active
<1>5. OpenIsWorkedOn'
  <2> SUFFICES ASSUME NEW c \in Calls, callStatus'[c] = "open"
               PROVE  c = activeCall' \/ \E g \in Starters : pc'[g] \in WithCall /\ work'[g] = c
    BY DEF OpenIsWorkedOn
  <2>1. callStatus[c] = "open"
    BY EndCallShape
  <2>2. CASE c = activeCall
    <3>1. UNCHANGED activeCall \/ (pc[h] = "endIdle" /\ UNCHANGED callStatus)
      BY EndShape DEF sessionVars, stores
    <3>2. QED BY <1>0, <2>1, <2>2, <3>1 DEF Knows
  <2>3. ASSUME NEW g \in Starters, pc[g] \in WithCall, work[g] = c
        PROVE  \E k \in Starters : pc'[k] \in WithCall /\ work'[k] = c
    BY <1>0, <2>3, Kinds DEF Others
  <2>4. QED BY <1>0, <2>1, <2>2, <2>3 DEF OpenIsWorkedOn
<1>6. QED BY <1>3, <1>4, <1>5

\* A handler of another kind does not touch the calls.
LEMMA OpenFrame ==
    ASSUME OpenIsWorkedOn, NEW h \in Handlers, h \notin Starters, Others(h),
           UNCHANGED <<callStatus, activeCall>>
    PROVE  OpenIsWorkedOn'
  BY Kinds DEF OpenIsWorkedOn, Others

LEMMA DiagKnows ==
    ASSUME Order, NEW h \in DiagStarters, DiagStart(h)
    PROVE  (\A g \in Handlers : Knows(g)') /\ OpenIsWorkedOn'
<1>0. /\ TypeOK /\ h \in Handlers /\ Others(h) /\ Knows(h) /\ Promised /\ Modes /\ OpenIsWorkedOn
      /\ h \in Callers
  BY DiagTypeOK DEF Order, Handlers, Callers
<1>1. (\A g \in Callers : g # h => ~Active(g)) \/ UNCHANGED <<service, callStatus, activeCall, audited>>
  <2>1. CASE Active(h)
    BY <1>0, <2>1 DEF Promised
  <2>2. CASE ~Active(h)
    BY <2>2, DiagShape DEF Elsewhere, services, stores
  <2>3. QED BY <2>1, <2>2
<1>2. \A g \in Handlers : g # h => Knows(g)'
  BY <1>0, <1>1, KnowsFrame
<1>3. Knows(h)'
  <2>0. pc \in [Handlers -> Labels]
    BY <1>0, Typing DEF FramesTyped
  <2>a. \A l : Goto(h, l) => pc'[h] = l
    BY <1>0, <2>0 DEF Goto
  <2>b. Finish(h) => pc'[h] = "idle"
    BY <1>0, <2>0 DEF Finish
  <2>1. pc'[h] \in DiagLabels
    BY DiagShape DEF DiagLabels
  <2>2. /\ pc'[h] = "native" => Diag \in audited'
        /\ pc'[h] = "nativeWait" => service' # None
    <3>1. CASE DiagAudit(h)
      BY <3>1, <2>a DEF DiagAudit, LogRecording, CleanUp, StopServices
    <3>2. CASE DiagNative(h)
      BY <3>2, <2>a, RecordingAssumption DEF DiagNative, NativeStart, StopServices
    <3>3. CASE DiagRequest(h) \/ DiagPermitted(h) \/ DiagStt(h) \/ DiagFinish(h) \/ DiagFailed(h)
      BY <3>3, <2>a, <2>b DEF DiagRequest, DiagPermitted, DiagStt, DiagFinish, DiagFailed, DiagOver,
         StopServices
    <3>4. QED BY <3>1, <3>2, <3>3 DEF DiagStart
  <2>3. QED BY <2>1, <2>2, Kinds DEF Knows
<1>4. OpenIsWorkedOn'
  BY <1>0, DiagShape, OpenFrame, Kinds
<1>5. QED BY <1>2, <1>3, <1>4

LEMMA DiagStopKnows ==
    ASSUME Order, NEW h \in DiagStoppers, DiagStop(h)
    PROVE  (\A g \in Handlers : Knows(g)') /\ OpenIsWorkedOn'
<1>0. /\ TypeOK /\ h \in Handlers /\ Others(h) /\ Knows(h) /\ Promised /\ Modes /\ OpenIsWorkedOn
      /\ h \notin Callers
  BY DiagTypeOK, Kinds DEF Order, Callers
<1>1. (\A g \in Callers : g # h => ~Active(g)) \/ UNCHANGED <<service, callStatus, activeCall, audited>>
  <2>1. CASE ~CallInProgress /\ ~diagPending
    BY <1>0, <2>1 DEF Promised, CallInProgress, Callers
  <2>2. CASE UNCHANGED services
    BY <2>2, DiagStopShape DEF services
  <2>3. QED BY <2>1, <2>2, DiagStopShape
<1>2. \A g \in Handlers : g # h => Knows(g)'
  BY <1>0, <1>1, KnowsFrame
<1>3. Knows(h)'
  BY DiagStopShape, Kinds DEF Knows
<1>4. OpenIsWorkedOn'
  BY <1>0, DiagStopShape, OpenFrame, Kinds
<1>5. QED BY <1>2, <1>3, <1>4

LEMMA OutsideKnows ==
    ASSUME Order, AudioChunk \/ UpdaterStep
    PROVE  (\A g \in Handlers : Knows(g)') /\ OpenIsWorkedOn'
<1>1. UNCHANGED <<pc, work, taken, service, callStatus, activeCall, audited>>
  BY OutsideTypeOK DEF frames, services, sessionVars
<1>2. \A g \in Handlers : Knows(g)'
  BY <1>1 DEF Order, Knows, Active
<1>3. OpenIsWorkedOn'
  BY <1>1 DEF Order, OpenIsWorkedOn
<1>4. QED BY <1>2, <1>3

-----------------------------------------------------------------------------
(* Who is heard, what becomes of the audio, and the updater. *)

LEMMA HeardKept ==
    ASSUME Order, audited \subseteq audited', NEW h \in Handlers,
           UNCHANGED services \/ (\E l : StopServices(h, l)) \/ NativeStarted(TRUE)
             \/ NativeStarted(FALSE)
             \/ UNCHANGED <<service, sessions, capturing, listener>>
             \/ \E t \in audited : t # None /\ NativeStart(t)
    PROVE  Heard'
<1>1. Heard /\ TypeOK
  BY DEF Order
<1>2. CASE UNCHANGED <<service, capturing, listener>>
  BY <1>1, <1>2 DEF Heard
<1>3. CASE \E l : StopServices(h, l)
  BY <1>1, <1>3 DEF Heard, StopServices
<1>4. CASE NativeStarted(TRUE) \/ NativeStarted(FALSE)
  BY <1>1, <1>4 DEF Heard, NativeStarted
<1>5. CASE \E t \in audited : t # None /\ NativeStart(t)
  BY <1>1, <1>5 DEF Heard, NativeStart
<1>6. QED BY <1>2, <1>3, <1>4, <1>5 DEF services

LEMMA StartHeard ==
    ASSUME Order, NEW h \in Starters, Start(h)
    PROVE  Heard' /\ DeferredIsArmed'
<1>0. /\ TypeOK /\ h \in Handlers /\ Knows(h) /\ DeferredIsArmed
      /\ work \in [Handlers -> Calls \cup {None}]
  BY Typing DEF Order, Handlers, FramesTyped
<1>1. audited \subseteq audited'
  BY DEF Start, StartRequest, StartAfterEnd, BeginStart, StartPermitted, StartStt, StartCreateCall,
         StartAudit, LogRecording, StartCheckpoint, StartNative, StartFinish, StartStopServices,
         StartEndCall, StartStopped, DiscardFailedStart, stores
<1>2. Heard'
  <2>1. CASE StartNative(h)
    <3>1. pc[h] = "native" => work[h] \in audited /\ work[h] # None
      BY <1>0, RecordingAssumption DEF Knows, WithCall
    <3>2. QED BY <1>0, <1>1, <2>1, <3>1, HeardKept DEF StartNative, At, ModuleMissing
  <2>2. CASE UNCHANGED services \/ (\E l : StopServices(h, l))
             \/ UNCHANGED <<service, sessions, capturing, listener>>
    BY <1>0, <1>1, <2>2, HeardKept
  <2>3. QED BY <2>1, <2>2
       DEF Start, StartRequest, StartAfterEnd, BeginStart, StartPermitted, StartStt, StartCreateCall,
           StartAudit, StartCheckpoint, StartFinish, StartStopServices, CleanUp,
           StartEndCall, StartStopped, DiscardFailedStart
<1>3. DeferredIsArmed'
  BY <1>0, StartShape DEF DeferredIsArmed, updaterVars
<1>4. QED BY <1>2, <1>3

LEMMA EndHeard ==
    ASSUME Order, NEW h \in Enders, End(h)
    PROVE  Heard' /\ DeferredIsArmed'
<1>0. TypeOK /\ h \in Handlers /\ DeferredIsArmed
  BY DEF Order, Handlers
<1>1. UNCHANGED audited
  BY DEF End, EndRequest, EndAfterStart, EndJoined, EndStopped, EndFinalize, EndCall, EndFinish,
         BeginEnd, stores
<1>2. Heard'
  <2>1. BeginEnd(h) => UNCHANGED services \/ (\E l : StopServices(h, l))
    BY DEF BeginEnd
  <2>2. UNCHANGED services \/ (\E l : StopServices(h, l))
    BY <2>1
     DEF End, EndRequest, EndAfterStart, EndJoined, EndStopped, EndFinalize, EndCall, EndFinish
  <2>3. QED BY <1>0, <1>1, <2>2, HeardKept
<1>3. DeferredIsArmed'
  <2>1. CASE UNCHANGED updaterVars
    BY <1>0, <2>1 DEF DeferredIsArmed, updaterVars
  <2>2. CASE OnCallEnded(TRUE)
    BY <1>0, <2>2 DEF DeferredIsArmed, OnCallEnded, TryInstall, updaterVars
  <2>3. QED BY <2>1, <2>2, EndShape
<1>4. QED BY <1>2, <1>3

LEMMA DiagHeard ==
    ASSUME Order, NEW h \in DiagStarters \cup DiagStoppers,
           \/ h \in DiagStarters /\ DiagStart(h)
           \/ h \in DiagStoppers /\ DiagStop(h)
    PROVE  Heard' /\ DeferredIsArmed'
<1>0. TypeOK /\ h \in Handlers /\ DeferredIsArmed /\ Knows(h)
  BY DEF Order, Handlers
<1>1. UNCHANGED updaterVars
  BY DiagShape, DiagStopShape
<1>2. audited \subseteq audited'
  BY DEF DiagStart, DiagStop, DiagRequest, DiagPermitted, DiagStt, DiagAudit, DiagNative, DiagFinish,
         DiagFailed, DiagStopRequest, DiagStopped, LogRecording, stores
<1>3. Heard'
  <2>1. CASE DiagNative(h)
    <3>0. h \in DiagStarters
      BY <2>1, <1>0, Kinds DEF Knows, DiagNative, At
    <3>1. pc[h] = "native" => Diag \in audited /\ Diag # None
      BY <1>0, <3>0, RecordingAssumption DEF Knows
    <3>2. QED BY <1>0, <1>2, <2>1, <3>1, HeardKept DEF DiagNative, At, ModuleMissing
  <2>2. CASE UNCHANGED services \/ (\E l : StopServices(h, l))
             \/ UNCHANGED <<service, sessions, capturing, listener>>
    BY <1>0, <1>2, <2>2, HeardKept
  <2>3. QED BY <2>1, <2>2
       DEF DiagStart, DiagStop, DiagRequest, DiagPermitted, DiagStt, DiagAudit, DiagFinish,
           DiagFailed, DiagStopRequest, DiagStopped, CleanUp
<1>4. QED BY <1>0, <1>1, <1>3 DEF DeferredIsArmed, updaterVars

LEMMA OutsideHeard ==
    ASSUME Order, AudioChunk \/ UpdaterStep
    PROVE  Heard' /\ DeferredIsArmed'
<1>1. UNCHANGED <<services, audited>>
  BY OutsideTypeOK
<1>2. Heard'
  BY <1>1 DEF Order, Heard, services
<1>3. DeferredIsArmed'
  <2>1. CASE AudioChunk
    BY <2>1 DEF Order, DeferredIsArmed, AudioChunk, updaterVars
  <2>2. CASE UpdaterStep
    <3>1. TryInstall(RecordingInProgress)
      BY <2>2 DEF UpdaterStep, OnUpdateDownloaded, Retry
    <3>2. CASE RecordingInProgress
      BY <3>1, <3>2 DEF TryInstall, DeferredIsArmed
    <3>3. CASE ~RecordingInProgress
      BY <3>1, <3>3 DEF TryInstall, DeferredIsArmed
    <3>4. QED BY <3>2, <3>3
  <2>3. QED BY <2>1, <2>2
<1>4. QED BY <1>2, <1>3

-----------------------------------------------------------------------------
(* The order of the handlers is kept. *)

LEMMA OrderInit ==
    ASSUME Init
    PROVE  Order
<1>1. TypeOK
  BY DEF Init, TypeOK, UpdaterInit, UpdaterTypeOK
<1>2. Promised /\ Modes /\ OpenIsWorkedOn /\ Heard /\ DeferredIsArmed
  BY Kinds DEF Init, UpdaterInit, Promised, Modes, OpenIsWorkedOn, Heard, DeferredIsArmed,
         Active, Rest, Callers
<1>3. \A h \in Handlers : Knows(h)
  BY DEF Init, Knows, Active, Rest, StartLabels, EndLabels, DiagLabels, WithCall
<1>4. QED BY <1>1, <1>2, <1>3 DEF Order

LEMMA OrderStep ==
    ASSUME Order, [Next]_vars
    PROVE  Order'
<1>1. ASSUME NEW h \in Starters, Start(h) PROVE Order'
  BY <1>1, StartTypeOK, StartModes, StartKnows, StartHeard DEF Order
<1>2. ASSUME NEW h \in Enders, End(h) PROVE Order'
  BY <1>2, EndTypeOK, EndModes, EndKnows, EndHeard DEF Order
<1>3. ASSUME NEW h \in DiagStarters, DiagStart(h) PROVE Order'
  BY <1>3, DiagTypeOK, DiagModes, DiagKnows, DiagHeard DEF Order
<1>4. ASSUME NEW h \in DiagStoppers, DiagStop(h) PROVE Order'
  BY <1>4, DiagTypeOK, DiagStopModes, DiagStopKnows, DiagHeard DEF Order
<1>5. CASE AudioChunk \/ UpdaterStep
  BY <1>5, OutsideTypeOK, OutsideModes, OutsideKnows, OutsideHeard DEF Order
<1>6. CASE UNCHANGED vars
  <2> USE <1>6 DEF vars, sessionVars, promises, services, checkpointVars, stores, frames, updaterVars
  <2>1. TypeOK'
    BY DEF Order, TypeOK, UpdaterTypeOK
  <2>2. Promised' /\ Modes' /\ OpenIsWorkedOn' /\ Heard' /\ DeferredIsArmed'
    BY DEF Order, Promised, Active, Modes, OpenIsWorkedOn, Heard, DeferredIsArmed
  <2>3. \A h \in Handlers : Knows(h)'
    BY DEF Order, Knows, Active
  <2>4. QED BY <2>1, <2>2, <2>3 DEF Order
<1>7. QED BY <1>1, <1>2, <1>3, <1>4, <1>5, <1>6 DEF Next

LEMMA OrderHolds == Spec => []Order
  BY OrderInit, OrderStep, PTL DEF Spec

-----------------------------------------------------------------------------
(* Which services run: the part of the invariant that needs diagnostic     *)
(* stops not to overlap.                                                   *)

\* Stops of a diagnostic do not overlap.
OneStopper == \A x, y \in DiagStoppers : x = y

Silent == service = None /\ ~capturing /\ sessions = {}
Free == Silent /\ ~sttClient
Running(t) == service = t /\ sessions = {t} /\ capturing

\* Where a handler is while the services it has stopped settle.
StopLabels == {"stopped", "ownerStopped", "endOwner", "endDiscard", "endStop", "diagStop"}

\* What runs while a start for the target t is at its label.
Holds(h, t) ==
    /\ pc[h] \in {"permission", "stt"} => Free
    /\ pc[h] \in {"create", "audit", "checkpoint", "native", "endFirst", "stopLast"} => Silent
    /\ pc[h] = "nativeWait" => service = t /\ sessions = {} /\ capturing
    /\ pc[h] = "started" => Running(t)
    /\ pc[h] = "nativeFailed" => service \in {t, None} /\ sessions = {} /\ ~capturing
    /\ pc[h] \in StopLabels \cup {"discard", "discardAudit", "discardRemove"} => Free

\* What holds while the handler h is where it is.
Local(h) ==
    /\ h \in Starters /\ Active(h) => Holds(h, work[h])
    /\ h \in DiagStarters /\ Active(h) => Holds(h, Diag)
    /\ h \in DiagStoppers /\ Active(h) => owner = "diagnostic" /\ Free
    /\ h \in Starters /\ pc[h] \in {"native", "nativeWait", "started"} =>
          checkpointCall = work[h] /\ hasContext
    /\ h \in Starters /\ pc[h] \in {"audit", "checkpoint", "native", "nativeWait", "started"} =>
          work[h] \notin drained
    /\ taken[h] # None => pc[h] \in StopLabels
    /\ h \in DiagStarters \cup DiagStoppers => taken[h] \notin Calls

\* A call that was not created yet has left no trace.
AbsentIsFresh ==
    \A c \in Calls : callStatus[c] = "absent" =>
        c \notin drained /\ c # service /\ \A h \in Handlers : taken[h] # c

\* What runs in each mode of the session.
Session ==
    /\ endPending => Free
    /\ owner = "diagnostic" => (\E h \in DiagStoppers : Active(h)) \/ Running(Diag)
    /\ ~inCall /\ owner = "none" /\ ~startPending /\ ~diagPending => Free
    /\ ~inCall /\ ~startPending /\ capturing => listener = Diag
    /\ inCall /\ ~endPending =>
          /\ Running(activeCall) /\ owner = "call"
          /\ checkpointCall = activeCall /\ hasContext /\ activeCall \notin drained

Served == Session /\ AbsentIsFresh /\ \A h \in Handlers : Local(h)

LEMMA Alone ==
    ASSUME OneStopper, Order, Served
    PROVE  \A g, h \in Handlers : Active(g) /\ Active(h) => g = h
<1>1. \A h \in DiagStoppers : Active(h) => \A g \in Callers : ~Active(g)
  <2> SUFFICES ASSUME NEW h \in DiagStoppers, Active(h) PROVE \A g \in Callers : ~Active(g)
    OBVIOUS
  <2>1. owner = "diagnostic"
    BY Kinds DEF Served, Local
  <2>2. ~startPending /\ ~diagPending /\ ~endPending
    BY <2>1 DEF Order, Modes
  <2>3. QED BY <2>2 DEF Order, Promised, Callers
<1>2. \A g, h \in Callers : Active(g) /\ Active(h) => g = h
  BY DEF Order, Promised
<1>3. QED BY <1>1, <1>2 DEF OneStopper, Handlers, Callers

LEMMA LocalFrame ==
    ASSUME Order, NEW h \in Handlers, Others(h), \A g \in Handlers : Local(g),
           \/ \A g \in Handlers : g # h => ~Active(g)
           \/ /\ UNCHANGED <<services, drained, checkpointCall, owner>>
              /\ UNCHANGED hasContext \/ \A g \in Starters : ~Active(g)
    PROVE  \A g \in Handlers : g # h => Local(g)'
<1> SUFFICES ASSUME NEW g \in Handlers, g # h PROVE Local(g)'
  OBVIOUS
<1>1. pc'[g] = pc[g] /\ work'[g] = work[g] /\ taken'[g] = taken[g] /\ Local(g)
  BY DEF Others
<1>2. CASE pc[g] \in Rest
  BY <1>1, <1>2 DEF Local, Active, Rest
<1>3. CASE pc[g] \notin Rest /\ UNCHANGED <<services, drained, checkpointCall, owner>>
           /\ (UNCHANGED hasContext \/ g \notin Starters)
  <2>1. Holds(g, work[g]) => Holds(g, work[g])'
    BY <1>1, <1>3 DEF Holds, services, Free, Silent, Running
  <2>2. Holds(g, Diag) => Holds(g, Diag)'
    BY <1>1, <1>3 DEF Holds, services, Free, Silent, Running
  <2>3. (Active(g)' <=> Active(g)) /\ (Free => Free') /\ UNCHANGED <<drained, checkpointCall, owner>>
    BY <1>1, <1>3 DEF Active, services, Free, Silent
  <2>4. QED BY <1>1, <1>3, <2>1, <2>2, <2>3 DEF Local
<1>4. QED BY <1>2, <1>3 DEF Active

LEMMA FreshKept ==
    ASSUME AbsentIsFresh, NEW h \in Handlers, Others(h),
           \A c \in Calls : callStatus'[c] = "absent" => callStatus[c] = "absent",
           drained' \subseteq drained \cup ({taken[h]} \cap Calls),
           \A c \in Calls : callStatus[c] = "absent" => service' \in {service, None} \/ service' # c,
           taken'[h] \in {taken[h], service, None}
    PROVE  AbsentIsFresh'
<1> SUFFICES ASSUME NEW c \in Calls, callStatus'[c] = "absent"
             PROVE  c \notin drained' /\ c # service' /\ \A g \in Handlers : taken'[g] # c
  BY DEF AbsentIsFresh
<1>1. callStatus[c] = "absent" /\ c # None /\ c \notin drained /\ c # service
      /\ \A g \in Handlers : taken[g] # c
  BY RecordingAssumption DEF AbsentIsFresh
<1>2. \A g \in Handlers : g # h => taken'[g] = taken[g]
  BY DEF Others
<1>3. QED BY <1>1, <1>2

\* Stopping what a start or a session runs leaves nothing running.
LEMMA StopFrees ==
    ASSUME TypeOK, NEW h \in Handlers, NEW l, StopServices(h, l),
           Silent \/ (service \in {work[h], Diag, None} /\ sessions = {} /\ ~capturing)
             \/ \E t : Running(t)
    PROVE  Free' /\ taken'[h] = service /\ UNCHANGED listener
<1>1. taken \in [Handlers -> Targets \cup {None}]
  BY DEF TypeOK
<1>2. sessions' = {} /\ ~capturing'
  BY DEF StopServices, Silent, Running
<1>3. service' = None /\ ~sttClient' /\ taken'[h] = service /\ UNCHANGED listener
  BY <1>1 DEF StopServices
<1>4. QED BY <1>2, <1>3 DEF Free, Silent

-----------------------------------------------------------------------------
(* The services and the sink of a start. *)

LEMMA StartServes ==
    ASSUME Order, NEW h \in Starters, Start(h), Active(h), Local(h)
    PROVE  /\ Active(h)' => Holds(h, work[h])'
           /\ pc'[h] = "idle" => Free' \/ (pc[h] = "started" /\ UNCHANGED services)
           /\ service' \in {service, None} \/ (pc[h] = "native" /\ service' = work[h])
<1>0. /\ TypeOK /\ h \in Handlers /\ pc \in [Handlers -> Labels] /\ Knows(h)
      /\ work \in [Handlers -> Calls \cup {None}] /\ Holds(h, work[h])
  BY Typing DEF Order, Handlers, FramesTyped, Local
<1>a. \A l : Goto(h, l) => pc'[h] = l
  BY <1>0 DEF Goto
<1>b. Finish(h) => pc'[h] = "idle"
  BY <1>0 DEF Finish
<1>c. ASSUME NEW l, StopServices(h, l),
             pc[h] \in {"stt", "create", "audit", "stopLast", "nativeFailed"}
      PROVE  Free' /\ pc'[h] = l /\ service' = None
  <2>1. Silent \/ (service \in {work[h], Diag, None} /\ sessions = {} /\ ~capturing)
    BY <1>0, <1>c DEF Holds, Free
  <2>2. Free'
    BY <1>0, <1>c, <2>1, StopFrees
  <2>3. QED BY <1>a, <1>c, <2>2 DEF StopServices
<1>d. ASSUME UNCHANGED services PROVE (Free => Free') /\ (Silent => Silent') /\ UNCHANGED service
  BY <1>d DEF services, Free, Silent
<1>e. Free' => Silent'
  BY DEF Free
<1> USE DEF At
<1>1. CASE StartRequest(h) \/ StartAfterEnd(h)
  BY <1>1 DEF StartRequest, StartAfterEnd, Active, Rest
<1>2. CASE StartPermitted(h)
  <2>1. Free' /\ pc'[h] \in {"stt", "idle"}
    BY <1>0, <1>2, <1>a, <1>b, <1>d DEF StartPermitted, StartOver, Holds
  <2>2. QED BY <2>1, <1>2, <1>d DEF Holds, StartPermitted, StopLabels
<1>3. CASE StartStt(h)
  <2>1. CASE StopServices(h, "stopped")
    BY <1>3, <2>1, <1>c DEF StartStt, Holds
  <2>2. CASE sttClient' = TRUE /\ Goto(h, "create") /\ UNCHANGED <<service, sessions, capturing, listener, taken>>
    <3>1. Silent' /\ pc'[h] = "create"
      BY <1>0, <1>3, <1>a, <2>2 DEF StartStt, Holds, Free, Silent
    <3>2. QED BY <2>2, <3>1 DEF Holds, StopLabels
  <2>3. QED BY <1>3, <2>1, <2>2 DEF StartStt
<1>4. CASE StartCreateCall(h)
  <2>1. CASE CleanUp(h, "call_create_failed")
    BY <1>4, <2>1, <1>c, <1>e DEF StartCreateCall, CleanUp, Holds
  <2>2. CASE UNCHANGED services /\ Goto(h, "audit")
    <3>1. Silent' /\ pc'[h] = "audit"
      BY <1>0, <1>4, <1>a, <1>d, <2>2 DEF StartCreateCall, Holds
    <3>2. QED BY <2>2, <3>1, <1>d DEF Holds, StopLabels
  <2>3. QED BY <1>4, <2>1, <2>2 DEF StartCreateCall
<1>5. CASE StartAudit(h)
  <2>1. CASE CleanUp(h, "call_audit_failed")
    BY <1>5, <2>1, <1>c, <1>e DEF StartAudit, CleanUp, Holds
  <2>2. CASE UNCHANGED services /\ Goto(h, "checkpoint")
    <3>1. Silent' /\ pc'[h] = "checkpoint"
      BY <1>0, <1>5, <1>a, <1>d, <2>2 DEF StartAudit, Holds
    <3>2. QED BY <2>2, <3>1, <1>d DEF Holds, StopLabels
  <2>3. QED BY <1>5, <2>1, <2>2 DEF StartAudit
<1>6. CASE StartCheckpoint(h)
  <2>1. Silent' /\ pc'[h] \in {"native", "endFirst"}
    BY <1>0, <1>6, <1>a, <1>d DEF StartCheckpoint, Holds
  <2>2. QED BY <1>6, <1>d, <2>1 DEF StartCheckpoint, Holds, StopLabels
<1>7. CASE StartNative(h)
  <2>0. UNCHANGED work
    BY <1>7 DEF StartNative
  <2>1. CASE pc[h] = "native"
    <3>1. Silent
      BY <1>0, <2>1 DEF Holds
    <3>2. CASE NativeStart(work[h]) /\ Goto(h, "nativeWait")
      <4>1. service' = work[h] /\ sessions' = {} /\ capturing'
        BY <3>1, <3>2 DEF NativeStart, Silent
      <4>2. QED BY <2>0, <2>1, <3>2, <4>1, <1>a DEF Holds, StopLabels
    <3>3. CASE ModuleMissing /\ Goto(h, "nativeFailed")
      <4>1. service' = None /\ sessions' = {} /\ ~capturing'
        BY <3>1, <3>3 DEF ModuleMissing, Silent, services
      <4>2. QED BY <3>3, <4>1, <1>a DEF Holds, StopLabels
    <3>4. QED BY <1>7, <2>1, <3>2, <3>3 DEF StartNative
  <2>2. CASE pc[h] = "nativeWait"
    <3>1. service = work[h] /\ sessions = {} /\ capturing
      BY <1>0, <2>2 DEF Holds
    <3>2. CASE NativeStarted(TRUE) /\ Goto(h, "started")
      <4>1. service' = work[h] /\ sessions' = {work[h]} /\ capturing'
        BY <3>1, <3>2 DEF NativeStarted
      <4>2. QED BY <2>0, <3>1, <3>2, <4>1, <1>a DEF Holds, StopLabels, Running
    <3>3. CASE NativeStarted(FALSE) /\ Goto(h, "nativeFailed")
      <4>1. service' = work[h] /\ sessions' = {} /\ ~capturing'
        BY <3>1, <3>3 DEF NativeStarted
      <4>2. QED BY <2>0, <3>1, <3>3, <4>1, <1>a DEF Holds, StopLabels
    <3>4. QED BY <1>7, <2>2, <3>2, <3>3 DEF StartNative
  <2>3. QED BY <1>7, <2>1, <2>2 DEF StartNative
<1>8. CASE StartFinish(h)
  BY <1>8, <1>b, <1>d DEF StartFinish, StartOver, Active, Rest
<1>9. CASE StartStopServices(h)
  BY <1>9, <1>c DEF StartStopServices, Holds
<1>10. CASE StartEndCall(h)
  <2>1. CASE pc[h] = "endFirst"
    <3>1. Silent' /\ pc'[h] = "stopLast"
      BY <1>0, <1>10, <2>1, <1>a, <1>d DEF StartEndCall, Holds
    <3>2. QED BY <1>10, <3>1, <1>d DEF StartEndCall, Holds, StopLabels
  <2>2. CASE pc[h] \in {"endOwner", "endDiscard"}
    <3>1. Free' /\ pc'[h] \in {"idle", "discard"}
      BY <1>0, <1>10, <2>2, <1>a, <1>b, <1>d DEF StartEndCall, StartOver, Holds, StopLabels
    <3>2. QED BY <1>10, <3>1, <1>d DEF StartEndCall, Holds, StopLabels
  <2>3. QED BY <1>10, <2>1, <2>2 DEF StartEndCall
<1>11. CASE StartStopped(h) \/ DiscardFailedStart(h)
  <2>1. Free' /\ pc'[h] \in {"idle", "discardAudit", "discardRemove"} /\ UNCHANGED services
    BY <1>0, <1>11, <1>a, <1>b, <1>d
       DEF StartStopped, DiscardFailedStart, DiscardOver, StartOver, Holds, StopLabels
  <2>2. QED BY <2>1, <1>11, <1>d DEF Holds, Active, Rest, StopLabels, StartStopped, DiscardFailedStart
<1>12. QED BY <1>1, <1>2, <1>3, <1>4, <1>5, <1>6, <1>7, <1>8, <1>9, <1>10, <1>11 DEF Start

LEMMA StartTakes ==
    ASSUME Order, NEW h \in Starters, Start(h), Local(h)
    PROVE  /\ taken'[h] \in {taken[h], service, None}
           /\ taken'[h] # None => pc'[h] \in StopLabels
           /\ drained' \subseteq drained \cup ({taken[h]} \cap Calls)
           /\ drained' = drained \/ pc[h] \in StopLabels
<1>0. /\ TypeOK /\ h \in Handlers /\ pc \in [Handlers -> Labels]
      /\ taken \in [Handlers -> Targets \cup {None}]
      /\ taken[h] # None => pc[h] \in StopLabels
  BY Typing DEF Order, Handlers, FramesTyped, Local
<1>a. \A l : Goto(h, l) => pc'[h] = l
  BY <1>0 DEF Goto
<1>b. \A l : StopServices(h, l) => pc'[h] = l /\ taken'[h] = service
  BY <1>0 DEF StopServices, Goto
<1>c. ServicesStopped(h) => taken'[h] = None /\ drained' \subseteq drained \cup ({taken[h]} \cap Calls)
  BY <1>0 DEF ServicesStopped
<1> USE DEF At, StopLabels
<1>1. CASE UNCHANGED <<taken, drained>> /\ pc[h] \notin StopLabels
  BY <1>0, <1>1
<1>2. CASE StartStt(h) \/ StartCreateCall(h) \/ StartAudit(h)
  <2>1. UNCHANGED drained /\ pc[h] \notin StopLabels
    BY <1>2 DEF StartStt, StartCreateCall, StartAudit, stores
  <2>2. UNCHANGED taken \/ (\E l \in StopLabels : StopServices(h, l))
    BY <1>2 DEF StartStt, StartCreateCall, StartAudit, CleanUp
  <2>3. QED BY <1>1, <1>b, <2>1, <2>2
<1>3. CASE StartStopServices(h)
  BY <1>3, <1>b DEF StartStopServices, stores
<1>4. CASE StartEndCall(h) \/ StartStopped(h)
  BY <1>0, <1>1, <1>4, <1>c DEF StartEndCall, StartStopped
<1>5. QED BY <1>1, <1>2, <1>3, <1>4
   DEF Start, StartRequest, StartAfterEnd, BeginStart, StartPermitted, StartCheckpoint, StartNative,
       StartFinish, DiscardFailedStart, stores

\* The sink of the call that a start is about to record.
LEMMA StartSinks ==
    ASSUME Order, NEW h \in Starters, Start(h), Local(h), AbsentIsFresh
    PROVE  /\ pc'[h] \in {"native", "nativeWait", "started"} =>
                 checkpointCall' = work'[h] /\ hasContext'
           /\ pc'[h] \in {"audit", "checkpoint", "native", "nativeWait", "started"} =>
                 work'[h] \notin drained'
           /\ pc[h] = "started" => UNCHANGED Elsewhere
<1>0. /\ TypeOK /\ h \in Handlers /\ pc \in [Handlers -> Labels] /\ Knows(h)
      /\ work \in [Handlers -> Calls \cup {None}]
  BY Typing DEF Order, Handlers, FramesTyped
<1>a. \A l : Goto(h, l) => pc'[h] = l
  BY <1>0 DEF Goto
<1>b. Finish(h) => pc'[h] = "idle"
  BY <1>0 DEF Finish
<1> USE DEF At, StartOver
<1>1. CASE pc'[h] \notin {"audit", "checkpoint", "native", "nativeWait", "started"} /\ pc[h] # "started"
  BY <1>1
<1>2. CASE StartCreateCall(h)
  <2>1. CASE CleanUp(h, "call_create_failed")
    BY <1>1, <1>2, <2>1, <1>a DEF CleanUp, StopServices, StartCreateCall
  <2>2. ASSUME NEW c \in Calls, callStatus[c] = "absent", work' = [work EXCEPT ![h] = c], Goto(h, "audit")
        PROVE  pc'[h] = "audit" /\ work'[h] \notin drained'
    BY <1>0, <1>2, <1>a, <2>2 DEF AbsentIsFresh, StartCreateCall
  <2>3. pc[h] = "create"
    BY <1>2 DEF StartCreateCall
  <2>4. QED BY <1>2, <2>1, <2>2, <2>3 DEF StartCreateCall
<1>3. CASE StartAudit(h)
  BY <1>3, <1>a DEF StartAudit, CleanUp, StopServices, Local
<1>4. CASE StartCheckpoint(h)
  BY <1>4, <1>a DEF StartCheckpoint, Local
<1>5. CASE StartNative(h)
  BY <1>5, <1>a DEF StartNative, Local, checkpointVars, stores
<1>6. CASE StartFinish(h)
  BY <1>6, <1>b DEF StartFinish, Elsewhere
<1>7. CASE StartRequest(h) \/ StartAfterEnd(h) \/ StartPermitted(h) \/ StartStt(h)
  BY <1>1, <1>7, <1>a, <1>b DEF StartRequest, StartAfterEnd, BeginStart, StartPermitted, StartStt, StopServices
<1>8. CASE StartStopServices(h) \/ StartEndCall(h) \/ StartStopped(h) \/ DiscardFailedStart(h)
  BY <1>1, <1>8, <1>a, <1>b DEF StartStopServices, StopServices, StartEndCall, StartStopped,
     DiscardFailedStart, DiscardOver
<1>9. QED BY <1>2, <1>3, <1>4, <1>5, <1>6, <1>7, <1>8 DEF Start

LEMMA AbsentOnce ==
    ASSUME Order, NEW h \in Handlers,
           (h \in Starters /\ Start(h)) \/ (h \in Enders /\ End(h))
    PROVE  \A c \in Calls : callStatus'[c] = "absent" => callStatus[c] = "absent"
<1>0. callStatus \in [Calls -> {"absent", "open", "ended", "unended"}]
  BY DEF Order, TypeOK
<1>1. CASE UNCHANGED callStatus
  BY <1>1
<1>2. ASSUME NEW c, EndCallRecord(c)
      PROVE  \A d \in Calls : callStatus'[d] = "absent" => callStatus[d] = "absent"
  BY <1>0, <1>2 DEF EndCallRecord
<1>3. CASE Start(h)
  BY <1>0, <1>1, <1>2, <1>3
     DEF Start, StartRequest, StartAfterEnd, BeginStart, StartPermitted, StartStt, StartCreateCall,
         StartAudit, StartCheckpoint, StartNative, StartFinish, StartStopServices, StartEndCall,
         StartStopped, DiscardFailedStart, stores
<1>4. CASE End(h)
  <2>1. CASE EndFinalize(h)
    BY <1>0, <2>1 DEF EndFinalize
  <2>2. CASE ~EndFinalize(h)
    BY <1>1, <1>2, <1>4, <2>2
       DEF End, EndRequest, EndAfterStart, EndJoined, EndStopped, EndCall, EndFinish, BeginEnd, stores
  <2>3. QED BY <2>1, <2>2
<1>5. QED BY <1>3, <1>4

LEMMA StartServed ==
    ASSUME OneStopper, Order, Served, NEW h \in Starters, Start(h)
    PROVE  Served'
<1>0. /\ TypeOK /\ h \in Handlers /\ Others(h) /\ Knows(h) /\ Promised /\ Modes /\ Local(h)
      /\ Session /\ AbsentIsFresh /\ Order'
  <2>1. Order'
    BY OrderStep DEF Next
  <2>2. QED BY <2>1, StartTypeOK DEF Order, Served, Handlers
<1>1. Active(h) => /\ \A g \in Handlers : g # h => ~Active(g)
                   /\ startPending /\ ~inCall /\ owner = "none" /\ ~endPending /\ ~diagPending
  BY <1>0, Alone DEF Promised, Modes
<1>2. ~Active(h) => UNCHANGED <<sessionVars, endPending, diagPending, services, checkpointVars, stores>>
  BY StartShape DEF Elsewhere, Active, Rest
<1>3. \A g \in Handlers : g # h => Local(g)'
  <2>1. ~Active(h) => UNCHANGED <<services, drained, checkpointCall, hasContext, owner>>
    BY <1>2 DEF stores, checkpointVars, sessionVars
  <2>2. QED BY <1>0, <1>1, <2>1, LocalFrame DEF Served
<1>4. ~Active(h) /\ Active(h)' => Free /\ pc'[h] = "permission" /\ startPending'
  <2>1. ASSUME ~Active(h), Active(h)'
        PROVE  pc'[h] = "permission" /\ ~inCall /\ ~startPending /\ ~diagPending /\ owner # "diagnostic" /\ startPending'
    BY <2>1, StartShape DEF Active, Rest
  <2>2. QED BY <1>0, <2>1 DEF Session, Modes, TypeOK
<1>5. Local(h)'
  <2>1. Active(h)' => Holds(h, work[h])'
    <3>1. CASE Active(h)
      BY <1>0, <3>1, StartServes
    <3>2. CASE ~Active(h) /\ Active(h)'
      <4>1. Free' /\ pc'[h] = "permission"
        BY <1>2, <1>4, <3>2 DEF services, Free, Silent
      <4>2. QED BY <4>1 DEF Holds, StopLabels
    <3>3. QED BY <3>1, <3>2
  <2>2. QED BY <1>0, <2>1, StartTakes, StartSinks, Kinds DEF Local
<1>6. AbsentIsFresh'
  <2>1. \A c \in Calls : callStatus[c] = "absent" => service' \in {service, None} \/ service' # c
    <3>1. pc[h] = "native" => callStatus[work[h]] = "open"
      BY <1>0 DEF Knows, WithCall
    <3>2. service' \in {service, None} \/ (pc[h] = "native" /\ service' = work[h])
      BY <1>0, <1>2, StartServes DEF services
    <3>3. QED BY <3>1, <3>2
  <2>2. QED BY <1>0, <2>1, AbsentOnce, StartTakes, FreshKept
<1>7. Session'
  <2>1. CASE ~Active(h)
    <3>1. (Active(h)' /\ startPending') \/ UNCHANGED startPending
      BY <2>1, StartShape DEF Active, Rest
    <3>2. (Free => Free') /\ (\A t : Running(t) => Running(t)')
      BY <1>2, <2>1 DEF services, Free, Silent, Running
    <3>3. (\E g \in DiagStoppers : Active(g)) => (\E g \in DiagStoppers : Active(g)')
      BY <1>0, Apart, Kinds
    <3>4. UNCHANGED <<inCall, activeCall, owner, endPending, diagPending, capturing, listener,
                      checkpointCall, hasContext, drained>>
      BY <1>2, <2>1 DEF sessionVars, services, checkpointVars, stores
    <3>5. owner' = "diagnostic" => (\E g \in DiagStoppers : Active(g)') \/ Running(Diag)'
      BY <1>0, <3>2, <3>3, <3>4 DEF Session
    <3>6. inCall' /\ ~endPending' =>
            /\ owner' = "call" /\ checkpointCall' = activeCall' /\ hasContext' /\ activeCall' \notin drained'
      BY <1>0, <3>4 DEF Session
    <3>7. inCall' /\ ~endPending' => Running(activeCall)'
      <4>1. inCall' /\ ~endPending' => inCall /\ ~endPending
        BY <3>4
      <4>2. QED BY <1>0, <1>2, <2>1, <3>4, <4>1 DEF Session, Running, services
    <3>8. endPending' => Free'
      BY <1>0, <3>2, <3>4 DEF Session
    <3>9. ~inCall' /\ ~startPending' => ~inCall /\ ~startPending
      BY <3>1, <3>4
    <3>10. (~inCall' /\ owner' = "none" /\ ~startPending' /\ ~diagPending' => Free')
           /\ (~inCall' /\ ~startPending' /\ capturing' => listener' = Diag)
      BY <1>0, <3>2, <3>4, <3>9 DEF Session
    <3>11. QED BY <3>5, <3>6, <3>7, <3>8, <3>10 DEF Session, Running, Active
  <2>2. CASE Active(h) /\ Active(h)'
    <3>1. startPending' /\ ~inCall' /\ owner' = "none" /\ ~endPending'
      BY <1>1, <2>2, StartShape DEF Active, Rest, sessionVars
    <3>2. QED BY <3>1 DEF Session
  <2>3. CASE Active(h) /\ pc'[h] = "idle" /\ Free'
    <3>1. ~endPending' /\ owner' \in {"none", "call"} /\ (inCall' => pc[h] = "started")
      BY <1>1, <2>3, StartShape DEF sessionVars, StartLabels, Rest
    <3>2. CASE pc[h] = "started"
      <4>1. Running(work[h]) /\ UNCHANGED services
        BY <1>0, <2>3, <3>2, StartSinks DEF Local, Holds, Elsewhere
      <4>2. QED BY <2>3, <4>1 DEF services, Free, Silent, Running
    <3>3. CASE pc[h] # "started"
      BY <2>3, <3>1, <3>3 DEF Session, Free, Silent
    <3>4. QED BY <3>2, <3>3
  <2>4. CASE pc[h] = "started" /\ pc'[h] = "idle"
    <3>1. Running(work[h]) /\ checkpointCall = work[h] /\ hasContext /\ work[h] \notin drained
      BY <1>0, <2>4 DEF Local, Holds, Active, Rest
    <3>2. /\ inCall' = TRUE /\ activeCall' = work[h] /\ owner' = "call" /\ UNCHANGED Elsewhere
          /\ ~endPending'
      BY <1>1, <2>4, StartShape DEF Active, Rest, StartLabels
    <3>3. QED BY <3>1, <3>2 DEF Session, Running, Elsewhere, services, checkpointVars, stores
  <2>5. QED
    <3>1. Active(h) => Active(h)' \/ pc'[h] = "idle"
      BY StartShape DEF Active, Rest
    <3>2. QED BY <1>0, <2>1, <2>2, <2>3, <2>4, <3>1, StartServes
<1>8. QED BY <1>3, <1>5, <1>6, <1>7 DEF Served

-----------------------------------------------------------------------------
(* The services and the sink of a call that is ended. *)

LEMMA EndTakes ==
    ASSUME Order, NEW h \in Enders, End(h), Local(h), Session
    PROVE  /\ taken'[h] \in {taken[h], service, None}
           /\ taken'[h] # None => pc'[h] \in StopLabels
           /\ drained' \subseteq drained \cup ({taken[h]} \cap Calls)
           /\ ~Active(h) => /\ UNCHANGED <<drained, checkpointCall>>
                            /\ UNCHANGED hasContext \/ (~startPending /\ ~inCall)
           /\ ~Active(h) /\ Active(h)' => Free'
<1>0. /\ TypeOK /\ h \in Handlers /\ pc \in [Handlers -> Labels] /\ Modes
      /\ taken \in [Handlers -> Targets \cup {None}]
      /\ taken[h] # None => pc[h] \in StopLabels
  BY Typing DEF Order, Handlers, FramesTyped, Local
<1>a. \A l : Goto(h, l) => pc'[h] = l
  BY <1>0 DEF Goto
<1>b. Finish(h) => pc'[h] = "idle"
  BY <1>0 DEF Finish
<1> USE DEF At, StopLabels
<1>1. CASE BeginEnd(h) /\ ~Active(h) /\ ~startPending
  <2>0. UNCHANGED drained /\ taken[h] = None
    BY <1>0, <1>1 DEF BeginEnd, stores, Active, Rest
  <2>1. CASE inCall /\ ~endPending
    <3>1. owner = "call" /\ Running(activeCall)
      BY <2>1 DEF Session
    <3>2. StopServices(h, "endStop") /\ UNCHANGED checkpointVars
      BY <1>1, <2>1, <3>1 DEF BeginEnd
    <3>3. Free' /\ taken'[h] = service
      BY <1>0, <3>1, <3>2, StopFrees
    <3>4. pc'[h] = "endStop"
      BY <1>a, <3>2 DEF StopServices
    <3>5. QED BY <2>0, <3>2, <3>3, <3>4 DEF checkpointVars
  <2>2. CASE endPending
    BY <1>1, <2>0, <2>2, <1>a DEF BeginEnd, Active, Rest, checkpointVars
  <2>3. CASE ~inCall /\ ~endPending
    <3>1. owner # "call" /\ activeCall = None
      BY <1>0, <2>3 DEF Modes
    <3>2. SessionIdle(None, FALSE) /\ Finish(h) /\ UNCHANGED taken
      BY <1>1, <2>3, <3>1 DEF BeginEnd
    <3>3. QED BY <1>1, <2>0, <2>3, <3>2, <1>b DEF SessionIdle, Active, Rest
  <2>4. QED BY <2>1, <2>2, <2>3
<1>2. CASE EndRequest(h) \/ EndAfterStart(h)
  <2>1. CASE BeginEnd(h) /\ ~startPending
    BY <1>1, <1>2, <2>1 DEF EndRequest, EndAfterStart, Active, Rest
  <2>2. CASE EndRequest(h) /\ startPending
    BY <1>0, <2>2, <1>a DEF EndRequest, Active, Rest, checkpointVars, stores
  <2>3. QED BY <1>2, <2>1, <2>2 DEF EndRequest, EndAfterStart, Waiting
<1>3. CASE EndJoined(h) \/ EndFinalize(h) \/ EndCall(h) \/ EndFinish(h)
  <2>1. UNCHANGED <<taken, drained>> /\ pc[h] \notin StopLabels
    BY <1>3 DEF EndJoined, EndFinalize, EndCall, EndFinish, stores
  <2>2. Active(h) \/ (EndJoined(h) /\ ~Active(h)')
    BY <1>3, <1>b DEF EndJoined, EndFinalize, EndCall, EndFinish, Active, Rest
  <2>3. QED BY <1>0, <2>1, <2>2 DEF EndJoined, checkpointVars
<1>4. CASE EndStopped(h)
  BY <1>0, <1>4 DEF EndStopped, ServicesStopped, Active, Rest
<1>5. QED BY <1>2, <1>3, <1>4 DEF End

LEMMA EndServed ==
    ASSUME OneStopper, Order, Served, NEW h \in Enders, End(h)
    PROVE  Served'
<1>0. /\ TypeOK /\ h \in Handlers /\ Others(h) /\ Knows(h) /\ Promised /\ Modes /\ Local(h)
      /\ Session /\ AbsentIsFresh
  BY EndTypeOK DEF Order, Served, Handlers
<1>1. ASSUME Active(h) \/ (inCall /\ ~endPending)
      PROVE  \A g \in Handlers : g # h => ~Active(g)
  <2>1. CASE Active(h)
    BY <1>0, <2>1, Alone
  <2>2. CASE inCall /\ ~endPending
    <3>1. ~startPending /\ ~diagPending /\ owner # "diagnostic"
      BY <1>0, <2>2 DEF Modes
    <3>2. QED BY <1>0, <2>2, <3>1, Kinds DEF Promised, Served, Local, Handlers
  <2>3. QED BY <1>1, <2>1, <2>2
<1>2. Active(h) => endPending /\ inCall /\ owner # "diagnostic" /\ Free
  BY <1>0 DEF Promised, Modes, Session
<1>3. \A g \in Handlers : g # h => Local(g)'
  <2>1. CASE Active(h) \/ (inCall /\ ~endPending)
    BY <1>0, <1>1, <2>1, LocalFrame DEF Served
  <2>2. CASE ~Active(h) /\ ~(inCall /\ ~endPending)
    <3>1. UNCHANGED <<services, drained, checkpointCall, owner>>
      BY <1>0, <2>2, EndShape, EndTakes DEF sessionVars, Active, Rest
    <3>2. UNCHANGED hasContext \/ \A g \in Starters : ~Active(g)
      BY <1>0, <2>2, EndTakes DEF Promised
    <3>3. QED BY <1>0, <3>1, <3>2, LocalFrame DEF Served
  <2>3. QED BY <2>1, <2>2
<1>4. Local(h)'
  BY <1>0, EndTakes, Kinds DEF Local
<1>5. AbsentIsFresh'
  <2>1. service' \in {service, None}
    <3>1. CASE UNCHANGED services
      BY <3>1 DEF services
    <3>2. CASE ~Active(h) /\ Active(h)'
      BY <1>0, <3>2, EndTakes DEF Free, Silent
    <3>3. QED BY <3>1, <3>2, EndShape DEF Active, Rest
  <2>2. QED BY <1>0, <2>1, AbsentOnce, EndTakes, FreshKept
<1>6. Session'
  <2>1. CASE ~Active(h) /\ ~Active(h)'
    <3>1. UNCHANGED <<sessionVars, promises, services, drained, checkpointCall>>
          /\ (UNCHANGED hasContext \/ ~inCall)
      BY <1>0, <2>1, EndShape, EndTakes DEF promises, Active, Rest
    <3>2. (Free => Free') /\ (\A t : Running(t) => Running(t)')
      BY <3>1 DEF services, Free, Silent, Running
    <3>3. (\E g \in DiagStoppers : Active(g)) => (\E g \in DiagStoppers : Active(g)')
      BY <1>0, Apart, Kinds
    <3>4. UNCHANGED <<inCall, activeCall, owner, startPending, endPending, diagPending, capturing,
                      listener, checkpointCall, drained>>
      BY <3>1 DEF sessionVars, services, promises
    <3>5. owner' = "diagnostic" => (\E g \in DiagStoppers : Active(g)') \/ Running(Diag)'
      BY <1>0, <3>2, <3>3, <3>4 DEF Session
    <3>6. inCall' /\ ~endPending' =>
            /\ owner' = "call" /\ checkpointCall' = activeCall' /\ hasContext' /\ activeCall' \notin drained'
      BY <1>0, <3>1, <3>4 DEF Session
    <3>7. inCall' /\ ~endPending' => Running(activeCall)'
      BY <1>0, <3>1, <3>4 DEF Session, Running, services
    <3>8. (endPending' => Free') /\ (~inCall' /\ ~startPending' /\ capturing' => listener' = Diag)
      BY <1>0, <3>2, <3>4 DEF Session
    <3>9. ~inCall' /\ owner' = "none" /\ ~startPending' /\ ~diagPending' => Free'
      BY <1>0, <3>2, <3>4 DEF Session
    <3>10. QED BY <3>5, <3>6, <3>7, <3>8, <3>9 DEF Session, Running, Active
  <2>2. CASE ~Active(h) /\ Active(h)'
    <3>1. Free'
      BY <1>0, <2>2, EndTakes
    <3>2. inCall' /\ endPending' /\ owner' # "diagnostic"
      BY <1>0, <2>2, EndShape DEF Active, Rest, sessionVars, Modes
    <3>3. QED BY <3>1, <3>2 DEF Session
  <2>3. CASE Active(h) /\ Active(h)'
    <3>1. inCall' /\ endPending' /\ owner' # "diagnostic" /\ Free'
      BY <1>2, <2>3, EndShape DEF Active, Rest, sessionVars, services, Free, Silent
    <3>2. QED BY <3>1 DEF Session
  <2>4. CASE pc[h] = "endIdle" /\ pc'[h] = "idle"
    <3>1. ~inCall' /\ ~endPending' /\ owner' # "diagnostic" /\ Free'
      BY <1>2, <2>4, EndShape DEF Active, Rest, services, Free, Silent
    <3>2. QED BY <3>1 DEF Session, Free, Silent
  <2>5. QED BY <2>1, <2>2, <2>3, <2>4, EndShape DEF Active, Rest
<1>7. QED BY <1>3, <1>4, <1>5, <1>6 DEF Served

-----------------------------------------------------------------------------
(* The services of a diagnostic. *)

LEMMA DiagServes ==
    ASSUME Order, NEW h \in DiagStarters, DiagStart(h), Active(h), Local(h)
    PROVE  /\ Active(h)' => Holds(h, Diag)'
           /\ pc'[h] = "idle" => ((Free' /\ owner' \in {owner, "none"})
                                  \/ (Running(Diag)' /\ owner' = "diagnostic"))
           /\ service' \in {service, None, Diag}
           /\ taken'[h] # None => pc'[h] \in StopLabels
           /\ taken'[h] \in {taken[h], service, None} /\ taken'[h] \notin Calls
           /\ UNCHANGED drained
<1>0. /\ TypeOK /\ h \in Handlers /\ pc \in [Handlers -> Labels] /\ Knows(h)
      /\ taken \in [Handlers -> Targets \cup {None}]
      /\ work \in [Handlers -> Calls \cup {None}] /\ Holds(h, Diag)
      /\ taken[h] \notin Calls /\ (taken[h] # None => pc[h] \in StopLabels)
      /\ None \notin Calls /\ Diag \notin Calls
  BY Typing, RecordingAssumption DEF Order, Handlers, FramesTyped, Local
<1>a. \A l : Goto(h, l) => pc'[h] = l
  BY <1>0 DEF Goto
<1>b. Finish(h) => pc'[h] = "idle"
  BY <1>0 DEF Finish
<1>c. ASSUME NEW l, StopServices(h, l), pc[h] \in {"stt", "audit", "nativeFailed"}
      PROVE  Free' /\ pc'[h] = l /\ service' = None /\ taken'[h] = service /\ service \in {Diag, None}
  <2>1. /\ Silent \/ (service \in {Diag, None} /\ sessions = {} /\ ~capturing)
        /\ service \in {Diag, None}
    BY <1>0, <1>c DEF Holds, Free, Silent
  <2>2. Free' /\ taken'[h] = service
    BY <1>0, <1>c, <2>1, StopFrees
  <2>3. QED BY <1>a, <1>c, <2>1, <2>2 DEF StopServices
<1>d. ASSUME UNCHANGED services PROVE (Free => Free') /\ (Silent => Silent') /\ UNCHANGED service
  BY <1>d DEF services, Free, Silent
<1>e. Free' => Silent'
  BY DEF Free
<1>f. UNCHANGED drained
  <2>1. ServicesStopped(h) => UNCHANGED drained
    BY <1>0 DEF ServicesStopped
  <2>2. QED BY <2>1 DEF DiagStart, DiagRequest, DiagPermitted, DiagStt, DiagAudit, DiagNative,
                       DiagFinish, DiagFailed, stores
<1> USE DEF At
<1>1. CASE DiagRequest(h)
  BY <1>1 DEF DiagRequest, Active, Rest
<1>2. CASE DiagPermitted(h)
  <2>1. Free' /\ pc'[h] \in {"stt", "idle"} /\ UNCHANGED <<taken, owner, service>> /\ pc[h] = "permission"
    BY <1>0, <1>2, <1>a, <1>b, <1>d DEF DiagPermitted, DiagOver, Holds, sessionVars
  <2>2. taken'[h] = None
    BY <1>0, <2>1 DEF StopLabels
  <2>3. Holds(h, Diag)'
    BY <2>1 DEF Holds, StopLabels
  <2>4. Free' /\ owner' \in {owner, "none"} /\ service' \in {service, None, Diag}
    BY <2>1
  <2>5. taken'[h] \in {taken[h], service, None} /\ taken'[h] \notin Calls
    BY <1>0, <2>2
  <2>6. QED BY <1>f, <2>2, <2>3, <2>4, <2>5
<1>3. CASE DiagStt(h)
  <2>1. CASE StopServices(h, "ownerStopped")
    BY <1>0, <1>3, <2>1, <1>c, <1>f DEF DiagStt, Holds, StopLabels
  <2>2. CASE sttClient' = TRUE /\ Goto(h, "audit") /\ UNCHANGED <<service, sessions, capturing, listener, taken>>
    <3>1. Silent' /\ pc'[h] = "audit" /\ pc[h] = "stt"
      BY <1>0, <1>3, <1>a, <2>2 DEF DiagStt, Holds, Free, Silent
    <3>2. QED BY <1>0, <1>f, <2>2, <3>1 DEF Holds, StopLabels
  <2>3. QED BY <1>3, <2>1, <2>2 DEF DiagStt
<1>4. CASE DiagAudit(h)
  <2>1. CASE CleanUp(h, "diagnostic_audit_failed")
    <3>1. StopServices(h, "ownerStopped") /\ pc[h] = "audit"
      BY <1>4, <2>1 DEF DiagAudit, CleanUp
    <3>2. QED BY <1>0, <3>1, <1>c, <1>f DEF Holds, StopLabels
  <2>2. CASE UNCHANGED services /\ UNCHANGED taken /\ Goto(h, "native")
    <3>1. Silent' /\ pc'[h] = "native" /\ pc[h] = "audit"
      BY <1>0, <1>4, <1>a, <1>d, <2>2 DEF DiagAudit, Holds
    <3>2. QED BY <1>0, <1>d, <1>f, <2>2, <3>1 DEF Holds, StopLabels
  <2>3. QED BY <1>4, <2>1, <2>2 DEF DiagAudit
<1>5. CASE DiagNative(h)
  <2>1. CASE pc[h] = "native"
    <3>1. Silent
      BY <1>0, <2>1 DEF Holds
    <3>2. CASE NativeStart(Diag) /\ Goto(h, "nativeWait") /\ UNCHANGED taken
      <4>1. service' = Diag /\ sessions' = {} /\ capturing' /\ pc'[h] = "nativeWait"
        BY <3>1, <3>2, <1>a DEF NativeStart, Silent
      <4>2. QED BY <1>0, <1>f, <2>1, <3>2, <4>1 DEF Holds, StopLabels
    <3>3. CASE ModuleMissing /\ Goto(h, "nativeFailed") /\ UNCHANGED taken
      <4>1. service' = None /\ sessions' = {} /\ ~capturing' /\ pc'[h] = "nativeFailed"
        BY <3>1, <3>3, <1>a DEF ModuleMissing, Silent, services
      <4>2. QED BY <1>0, <1>f, <2>1, <3>3, <4>1 DEF Holds, StopLabels
    <3>4. QED BY <1>5, <2>1, <3>2, <3>3 DEF DiagNative
  <2>2. CASE pc[h] = "nativeWait"
    <3>1. service = Diag /\ sessions = {} /\ capturing
      BY <1>0, <2>2 DEF Holds
    <3>2. CASE NativeStarted(TRUE) /\ Goto(h, "started") /\ UNCHANGED taken
      <4>1. service' = Diag /\ sessions' = {Diag} /\ capturing' /\ pc'[h] = "started"
        BY <3>1, <3>2, <1>a DEF NativeStarted
      <4>2. QED BY <1>0, <1>f, <2>2, <3>2, <4>1 DEF Holds, StopLabels, Running
    <3>3. CASE NativeStarted(FALSE) /\ Goto(h, "nativeFailed") /\ UNCHANGED taken
      <4>1. service' = Diag /\ sessions' = {} /\ ~capturing' /\ pc'[h] = "nativeFailed"
        BY <3>1, <3>3, <1>a DEF NativeStarted
      <4>2. QED BY <1>0, <1>f, <2>2, <3>3, <4>1 DEF Holds, StopLabels
    <3>4. QED BY <1>5, <2>2, <3>2, <3>3 DEF DiagNative
  <2>3. CASE pc[h] = "nativeFailed"
    <3>1. StopServices(h, "ownerStopped")
      BY <1>5, <2>3 DEF DiagNative
    <3>2. QED BY <1>0, <2>3, <3>1, <1>c, <1>f DEF Holds, StopLabels
  <2>4. QED BY <1>5, <2>1, <2>2, <2>3 DEF DiagNative
<1>6. CASE DiagFinish(h)
  <2>1. Running(Diag) /\ pc[h] = "started" /\ pc'[h] = "idle" /\ owner' = "diagnostic"
        /\ UNCHANGED <<services, taken>>
    BY <1>0, <1>6, <1>b DEF DiagFinish, DiagOver, Holds
  <2>2. Running(Diag)' /\ service' = service
    BY <2>1 DEF services, Running
  <2>3. taken'[h] = None /\ ~Active(h)'
    BY <1>0, <2>1 DEF StopLabels, Active, Rest
  <2>4. Running(Diag)' /\ owner' = "diagnostic" /\ service' \in {service, None, Diag}
    BY <2>1, <2>2
  <2>5. taken'[h] \in {taken[h], service, None} /\ taken'[h] \notin Calls
    BY <1>0, <2>3
  <2>6. QED BY <1>f, <2>3, <2>4, <2>5
<1>7. CASE DiagFailed(h)
  <2>1. Free /\ pc'[h] = "idle" /\ owner' = "none" /\ UNCHANGED services /\ taken'[h] = None
    BY <1>0, <1>7, <1>b DEF DiagFailed, DiagOver, Holds, ServicesStopped, StopLabels
  <2>2. QED BY <1>0, <1>d, <1>f, <2>1 DEF Active, Rest
<1>8. QED BY <1>1, <1>2, <1>3, <1>4, <1>5, <1>6, <1>7 DEF DiagStart

LEMMA DiagServed ==
    ASSUME OneStopper, Order, Served, NEW h \in DiagStarters, DiagStart(h)
    PROVE  Served'
<1>0. /\ TypeOK /\ h \in Handlers /\ Others(h) /\ Knows(h) /\ Promised /\ Modes /\ Local(h)
      /\ Session /\ AbsentIsFresh /\ Heard' /\ Diag \notin Calls /\ Diag # None
  BY DiagTypeOK, DiagHeard, RecordingAssumption DEF Order, Served, Handlers
<1>1. Active(h) => \A g \in Handlers : g # h => ~Active(g)
  BY <1>0, Alone
<1>2. Active(h) => diagPending /\ ~inCall /\ ~startPending /\ ~endPending /\ owner = "none"
  BY <1>0 DEF Promised, Modes
<1>3. ~Active(h) => /\ pc'[h] = "permission" /\ diagPending' /\ UNCHANGED <<owner, Elsewhere, taken>>
                   /\ ~CallInProgress /\ ~diagPending /\ owner = "none"
  <2>1. ASSUME ~Active(h)
        PROVE  /\ pc'[h] = "permission" /\ diagPending' /\ UNCHANGED <<owner, Elsewhere>>
               /\ ~CallInProgress /\ ~diagPending /\ owner # "diagnostic"
    BY <2>1, DiagShape
  <2>2. ~Active(h) => DiagRequest(h)
    BY DEF Active, Rest, DiagStart, DiagPermitted, DiagStt, DiagAudit, DiagNative, DiagFinish,
           DiagFailed, At
  <2>3. QED BY <1>0, <2>1, <2>2 DEF DiagRequest, CallInProgress, TypeOK
<1>4. ~Active(h) => Free /\ Free'
  <2>1. ~Active(h) => Free
    BY <1>0, <1>3 DEF Session, CallInProgress
  <2>2. QED BY <1>3, <2>1 DEF Elsewhere, services, Free, Silent
<1>5. \A g \in Handlers : g # h => Local(g)'
  <2>1. CASE Active(h)
    BY <1>0, <1>1, <2>1, LocalFrame DEF Served
  <2>2. CASE ~Active(h)
    <3>1. UNCHANGED <<services, drained, checkpointCall, hasContext, owner>>
      BY <1>3, <2>2 DEF Elsewhere, stores, checkpointVars
    <3>2. QED BY <1>0, <3>1, LocalFrame DEF Served
  <2>3. QED BY <2>1, <2>2
<1>6. Local(h)'
  <2>1. CASE Active(h)
    BY <1>0, <2>1, DiagServes, Kinds DEF Local
  <2>2. CASE ~Active(h)
    <3>1. Holds(h, Diag)'
      BY <1>3, <1>4, <2>2 DEF Holds, StopLabels
    <3>2. taken'[h] = None
      BY <1>0, <1>3, <2>2 DEF Local, Active, Rest, StopLabels
    <3>3. QED BY <1>0, <1>3, <2>2, <3>1, <3>2, Kinds, RecordingAssumption DEF Local
  <2>3. QED BY <2>1, <2>2
<1>7. AbsentIsFresh'
  <2>1. drained' = drained /\ service' \in {service, None, Diag} /\ taken'[h] \in {taken[h], service, None}
    BY <1>0, <1>3, DiagServes DEF Elsewhere, services, stores
  <2>2. UNCHANGED callStatus
    BY DiagShape
  <2>3. QED BY <1>0, <2>1, <2>2, FreshKept
<1>8. Session'
  <2>0. UNCHANGED <<inCall, startPending, endPending>>
    BY DiagShape
  <2>1. CASE ~Active(h)
    <3>1. ~inCall' /\ owner' = "none" /\ ~endPending' /\ Free'
      BY <1>3, <1>4, <2>0, <2>1 DEF CallInProgress
    <3>2. QED BY <3>1 DEF Session, Free, Silent
  <2>2. CASE Active(h) /\ Active(h)'
    <3>1. ~inCall' /\ owner' = "none" /\ ~endPending' /\ diagPending'
      BY <1>2, <2>0, <2>2, DiagShape DEF Active, Rest
    <3>2. capturing' => listener' = Diag
      <4>1. Holds(h, Diag)' /\ pc'[h] \in DiagLabels \ Rest
        BY <1>0, <2>2, DiagServes, DiagShape DEF Active, Rest
      <4>2. capturing' => service' = Diag
        BY <4>1 DEF Holds, DiagLabels, Rest, StopLabels, Free, Silent, Running
      <4>3. QED BY <1>0, <4>2 DEF Heard
    <3>3. QED BY <3>1, <3>2 DEF Session
  <2>3. CASE Active(h) /\ pc'[h] = "idle" /\ Free' /\ owner' \in {owner, "none"}
    <3>1. ~inCall' /\ owner' = "none" /\ ~endPending'
      BY <1>2, <2>0, <2>3
    <3>2. QED BY <2>3, <3>1 DEF Session, Free, Silent
  <2>4. CASE Active(h) /\ Running(Diag)' /\ owner' = "diagnostic"
    <3>1. ~inCall' /\ ~endPending' /\ listener' = Diag
      BY <1>0, <1>2, <2>0, <2>4 DEF Heard, Running
    <3>2. QED BY <2>4, <3>1 DEF Session
  <2>5. QED BY <1>0, <2>1, <2>2, <2>3, <2>4, DiagServes, DiagShape DEF Active, Rest
<1>9. QED BY <1>5, <1>6, <1>7, <1>8 DEF Served

LEMMA DiagStopServed ==
    ASSUME OneStopper, Order, Served, NEW h \in DiagStoppers, DiagStop(h)
    PROVE  Served'
<1>0. /\ TypeOK /\ h \in Handlers /\ Others(h) /\ Modes /\ Local(h) /\ Session /\ AbsentIsFresh
      /\ Diag \notin Calls /\ Diag # None /\ None \notin Calls /\ h \notin Starters /\ h \notin DiagStarters
      /\ taken[h] \notin Calls /\ taken \in [Handlers -> Targets \cup {None}]
  BY DiagTypeOK, RecordingAssumption, Kinds DEF Order, Served, Local, TypeOK
<1>1. UNCHANGED <<promises, inCall, activeCall, callStatus>>
  BY DiagStopShape
<1>2. UNCHANGED <<drained, checkpointCall, hasContext>>
  BY <1>0 DEF DiagStop, DiagStopRequest, DiagStopped, ServicesStopped, stores, checkpointVars
<1>3. CASE DiagStopRequest(h)
  <2>1. ~Active(h) /\ ~CallInProgress /\ ~diagPending /\ owner = "diagnostic" /\ StopServices(h, "diagStop")
        /\ UNCHANGED owner
    BY <1>3 DEF DiagStopRequest, At, Active, Rest, sessionVars
  <2>2. Running(Diag)
    BY <1>0, <2>1 DEF Session, OneStopper
  <2>3. Free' /\ taken'[h] = Diag /\ pc'[h] = "diagStop"
    <3>1. Free' /\ taken'[h] = service
      BY <1>0, <2>1, <2>2, StopFrees
    <3>2. pc'[h] = "diagStop"
      BY <1>3, DiagStopShape DEF DiagStopRequest, At
    <3>3. QED BY <2>2, <3>1, <3>2 DEF Running
  <2>4. \A g \in Handlers : g # h => ~Active(g)
    <3>1. \A g \in Callers : ~Active(g)
      BY <1>0, <2>1 DEF Order, Promised, CallInProgress, Callers
    <3>2. QED BY <3>1 DEF OneStopper, Callers, Handlers
  <2>5. \A g \in Handlers : g # h => Local(g)'
    BY <1>0, <2>4, LocalFrame DEF Served
  <2>6. Local(h)'
    BY <1>0, <2>1, <2>3 DEF Local, StopLabels
  <2>7. AbsentIsFresh'
    BY <1>0, <1>1, <1>2, <2>2, <2>3, FreshKept DEF Free, Silent, Running
  <2>8. Session'
    <3>1. ~inCall' /\ ~endPending' /\ Active(h)' /\ owner' = "diagnostic"
      BY <1>1, <2>1, <2>3 DEF CallInProgress, promises, Active, Rest
    <3>2. QED BY <2>3, <3>1 DEF Session, Free, Silent
  <2>9. QED BY <2>5, <2>6, <2>7, <2>8 DEF Served
<1>4. CASE DiagStopped(h)
  <2>1. Active(h) /\ owner = "diagnostic" /\ Free /\ owner' = "none" /\ UNCHANGED services
        /\ taken'[h] = None /\ ~Active(h)'
    <3>1. pc[h] = "diagStop" /\ owner' = "none" /\ UNCHANGED services /\ taken'[h] = None
      BY <1>0, <1>4 DEF DiagStopped, At, ServicesStopped
    <3>2. pc'[h] = "idle"
      BY <3>1, DiagStopShape DEF Active, Rest
    <3>3. QED BY <1>0, <3>1, <3>2 DEF Active, Rest, Local
  <2>2. \A g \in Handlers : g # h => ~Active(g)
    BY <1>0, <2>1, Alone
  <2>3. \A g \in Handlers : g # h => Local(g)'
    BY <1>0, <2>2, LocalFrame DEF Served
  <2>4. Local(h)'
    <3>1. pc'[h] \in Rest
      BY <2>1 DEF Active
    <3>2. QED BY <1>0, <2>1, <3>1 DEF Local, Rest
  <2>5. AbsentIsFresh'
    BY <1>0, <1>1, <1>2, <2>1, FreshKept DEF services
  <2>6. Free'
    BY <2>1 DEF services, Free, Silent
  <2>7. Session'
    <3>1. ~inCall' /\ owner' = "none"
      BY <1>0, <1>1, <2>1 DEF Modes
    <3>2. QED BY <2>6, <3>1 DEF Session, Free, Silent
  <2>8. QED BY <2>3, <2>4, <2>5, <2>7 DEF Served
<1>5. QED BY <1>3, <1>4 DEF DiagStop

LEMMA OutsideServed ==
    ASSUME Served, UNCHANGED <<frames, sessionVars, promises, services, checkpointVars>>,
           UNCHANGED <<callStatus, drained>>
    PROVE  Served'
<1> USE DEF frames, sessionVars, promises, services, checkpointVars
<1>1. Session'
  BY DEF Served, Session, Active, Free, Silent, Running
<1>2. AbsentIsFresh'
  BY DEF Served, AbsentIsFresh
<1>3. ASSUME NEW h \in Handlers PROVE Local(h)'
  BY DEF Served, Local, Active, Holds, Free, Silent, Running
<1>4. QED BY <1>1, <1>2, <1>3 DEF Served

LEMMA ServedInit ==
    ASSUME Init
    PROVE  Served
<1>1. Session /\ AbsentIsFresh
  BY RecordingAssumption DEF Init, Session, AbsentIsFresh, Free, Silent
<1>2. \A h \in Handlers : Local(h)
  BY RecordingAssumption DEF Init, Local, Active, Rest
<1>3. QED BY <1>1, <1>2 DEF Served

LEMMA ServedStep ==
    ASSUME OneStopper, Order, Served, [Next]_vars
    PROVE  Served'
<1>1. CASE AudioChunk \/ UpdaterStep
  BY <1>1, OutsideTypeOK, OutsideServed
<1>2. CASE UNCHANGED vars
  BY <1>2, OutsideServed DEF vars, stores
<1>3. QED BY <1>1, <1>2, StartServed, EndServed, DiagServed, DiagStopServed DEF Next

LEMMA InService == OneStopper => (Spec => [](Order /\ Served))
<1> SUFFICES ASSUME OneStopper PROVE Spec => [](Order /\ Served)
  OBVIOUS
<1>1. Init => Order /\ Served
  BY OrderInit, ServedInit
<1>2. Order /\ Served /\ [Next]_vars => (Order /\ Served)'
  BY OrderStep, ServedStep
<1>3. QED BY <1>1, <1>2, PTL DEF Spec

-----------------------------------------------------------------------------
(* What becomes of the audio that a sink took: from the failed start to    *)
(* the removal of its checkpoint, and from the stop of a call to its file. *)

\* The audio of the call of h, where h is about to decide on its checkpoint.
Emptied(h) ==
    /\ h \in Starters =>
         /\ pc[h] \in {"audit", "checkpoint", "native"} => work[h] \notin buffered
         /\ pc[h] = "nativeFailed" => service = work[h] \/ work[h] \notin buffered
         /\ pc[h] = "endDiscard" => taken[h] = work[h] \/ work[h] \notin buffered
         /\ pc[h] \in {"native", "nativeWait", "nativeFailed", "endDiscard"} => checkpointCall = work[h]
         /\ pc[h] = "discard" => stopFailed \/ work[h] \notin buffered
         /\ pc[h] \in {"discardAudit", "discardRemove"} => work[h] \notin buffered \cup persisted
    /\ h \in Enders =>
         /\ pc[h] = "endStop" => taken[h] = work[h]
         /\ pc[h] = "finalize" => work[h] \notin buffered

\* A call that was not created yet has no audio and no checkpoint.
NewIsEmpty == \A c \in Calls : callStatus[c] = "absent" =>
    c \notin buffered \cup persisted /\ checkpoint[c] # "recording"

Sinks == AudioSurvives /\ NewIsEmpty /\ \A h \in Handlers : Emptied(h)

LEMMA EmptiedFrame ==
    ASSUME NEW h \in Handlers, Others(h), \A g \in Handlers : Emptied(g),
           \/ \A g \in Handlers : g # h => ~Active(g)
           \/ UNCHANGED <<service, buffered, persisted, checkpointCall, stopFailed>>
    PROVE  \A g \in Handlers : g # h => Emptied(g)'
<1> SUFFICES ASSUME NEW g \in Handlers, g # h PROVE Emptied(g)'
  OBVIOUS
<1>1. pc'[g] = pc[g] /\ work'[g] = work[g] /\ taken'[g] = taken[g] /\ Emptied(g)
  BY DEF Others
<1>2. CASE pc[g] \in Rest
  BY <1>1, <1>2 DEF Emptied, Rest
<1>3. CASE UNCHANGED <<service, buffered, persisted, checkpointCall, stopFailed>>
  BY <1>1, <1>3 DEF Emptied
<1>4. QED BY <1>2, <1>3 DEF Active

\* Services that have stopped add nothing to what their sinks took.
LEMMA StoppedKeepsAudio ==
    ASSUME NEW h \in Handlers, ServicesStopped(h), TypeOK
    PROVE  /\ buffered' \subseteq buffered /\ persisted' \subseteq persisted \cup buffered
           /\ checkpointCall # None => stopFailed' \/ taken[h] \notin buffered'
  BY DEF ServicesStopped, Flush, TypeOK

LEMMA AudioKept ==
    ASSUME AudioSurvives, NewIsEmpty, TypeOK,
           buffered' \subseteq buffered, persisted' \subseteq persisted \cup buffered,
           \A c \in Calls : callStatus'[c] = "absent" =>
               callStatus[c] = "absent" /\ checkpoint'[c] \in {checkpoint[c], "finalized", "discarded"},
           \A c \in buffered : checkpoint'[c] \in {checkpoint[c], "recording"},
           \A c \in persisted : checkpoint'[c] \in {checkpoint[c], "recording", "finalized"}
    PROVE  AudioSurvives' /\ NewIsEmpty'
  BY DEF AudioSurvives, NewIsEmpty, TypeOK

LEMMA StartEmpties ==
    ASSUME Order, NEW h \in Starters, Start(h), Active(h), Local(h), Emptied(h), NewIsEmpty
    PROVE  Emptied(h)'
<1>0. /\ TypeOK /\ h \in Handlers /\ pc \in [Handlers -> Labels] /\ Knows(h)
      /\ work \in [Handlers -> Calls \cup {None}] /\ h \notin Enders /\ Holds(h, work[h])
      /\ taken \in [Handlers -> Targets \cup {None}]
  BY Typing, Kinds DEF Order, Handlers, FramesTyped, Local
<1>a. \A l : Goto(h, l) => pc'[h] = l
  BY <1>0 DEF Goto
<1>b. Finish(h) => pc'[h] = "idle"
  BY <1>0 DEF Finish
<1>c. \A l : StopServices(h, l) => pc'[h] = l /\ taken'[h] = service
  BY <1>0 DEF StopServices, Goto
<1> USE DEF At, StartOver
<1>1. CASE pc'[h] \in {"idle", "permission", "stt", "create", "started", "stopLast", "stopped",
                       "ownerStopped", "endFirst", "endOwner"}
  BY <1>0, <1>1 DEF Emptied
<1>2. CASE StartRequest(h) \/ StartAfterEnd(h) \/ StartPermitted(h) \/ StartStt(h) \/ StartFinish(h)
           \/ StartStopped(h)
  <2>1. pc'[h] \in {"idle", "permission", "stt", "create", "stopped"}
    BY <1>2, <1>a, <1>b, <1>c DEF StartRequest, StartAfterEnd, BeginStart, StartPermitted, StartStt,
       StartFinish, StartStopped, Active, Rest
  <2>2. QED BY <1>1, <2>1
<1>3. CASE StartCreateCall(h)
  <2>1. CASE CleanUp(h, "call_create_failed")
    BY <1>1, <1>c, <2>1 DEF CleanUp
  <2>2. ASSUME NEW c \in Calls, callStatus[c] = "absent", work' = [work EXCEPT ![h] = c],
               Goto(h, "audit"), UNCHANGED audio
        PROVE  Emptied(h)'
    <3>1. pc'[h] = "audit" /\ work'[h] = c /\ c \notin buffered'
      BY <1>0, <1>a, <2>2 DEF NewIsEmpty
    <3>2. QED BY <1>0, <3>1 DEF Emptied
  <2>3. QED BY <1>3, <2>1, <2>2 DEF StartCreateCall
<1>4. CASE StartAudit(h)
  <2>1. CASE CleanUp(h, "call_audit_failed")
    BY <1>1, <1>c, <2>1 DEF CleanUp
  <2>2. CASE Goto(h, "checkpoint")
    BY <1>0, <1>4, <1>a, <2>2 DEF StartAudit, Emptied
  <2>3. QED BY <1>4, <2>1, <2>2 DEF StartAudit
<1>5. CASE StartCheckpoint(h)
  <2>1. CASE Goto(h, "endFirst")
    BY <1>1, <1>a, <2>1
  <2>2. CASE Goto(h, "native") /\ checkpointCall' = work[h]
    BY <1>0, <1>5, <1>a, <2>2 DEF StartCheckpoint, Emptied
  <2>3. QED BY <1>5, <2>1, <2>2 DEF StartCheckpoint
<1>6. CASE StartNative(h)
  <2>0. UNCHANGED <<work, buffered, checkpointCall>> /\ checkpointCall = work[h]
    BY <1>6 DEF StartNative, stores, checkpointVars, Emptied
  <2>1. CASE Goto(h, "nativeWait") \/ Goto(h, "started")
    BY <1>0, <1>a, <2>0, <2>1 DEF Emptied
  <2>2. CASE At(h, "native") /\ Goto(h, "nativeFailed")
    BY <1>0, <1>a, <2>0, <2>2 DEF Emptied
  <2>3. CASE At(h, "nativeWait") /\ NativeStarted(FALSE) /\ Goto(h, "nativeFailed")
    <3>1. service' = work[h]
      BY <1>0, <2>3 DEF Holds, NativeStarted
    <3>2. QED BY <1>0, <1>a, <2>0, <2>3, <3>1 DEF Emptied
  <2>4. QED BY <1>6, <2>1, <2>2, <2>3 DEF StartNative
<1>7. CASE StartStopServices(h)
  <2>1. CASE StopServices(h, "stopped")
    BY <1>1, <1>c, <2>1
  <2>2. CASE At(h, "nativeFailed") /\ StopServices(h, "endDiscard")
    <3>1. UNCHANGED <<work, buffered, checkpointCall>>
      BY <1>7 DEF StartStopServices, stores, checkpointVars
    <3>2. QED BY <1>0, <1>c, <2>2, <3>1 DEF Emptied
  <2>3. QED BY <1>7, <2>1, <2>2 DEF StartStopServices
<1>8. CASE StartEndCall(h)
  <2>1. CASE Goto(h, "stopLast") \/ Finish(h)
    BY <1>1, <1>a, <1>b, <2>1
  <2>2. CASE At(h, "endDiscard") /\ ServicesStopped(h) /\ Goto(h, "discard") /\ UNCHANGED work
    <3>1. checkpointCall = work[h] /\ work[h] \in Calls
      BY <1>0, <2>2 DEF Emptied, Knows, WithCall
    <3>2. stopFailed' \/ work[h] \notin buffered'
      BY <1>0, <2>2, <3>1, StoppedKeepsAudio, RecordingAssumption DEF Emptied
    <3>3. QED BY <1>0, <1>a, <2>2, <3>2 DEF Emptied
  <2>3. QED BY <1>8, <2>1, <2>2 DEF StartEndCall
<1>9. CASE DiscardFailedStart(h)
  <2>0. UNCHANGED <<buffered, persisted>>
    BY <1>9 DEF DiscardFailedStart
  <2>1. CASE Finish(h)
    BY <1>1, <1>b, <2>1
  <2>2. CASE At(h, "discard") /\ ~stopFailed /\ work[h] \notin persisted /\ Goto(h, "discardAudit")
             /\ UNCHANGED work
    BY <1>0, <1>a, <2>0, <2>2 DEF Emptied
  <2>3. CASE At(h, "discardAudit") /\ Goto(h, "discardRemove") /\ UNCHANGED work
    BY <1>0, <1>a, <2>0, <2>3 DEF Emptied
  <2>4. QED BY <1>9, <2>1, <2>2, <2>3 DEF DiscardFailedStart, DiscardOver
<1>10. QED BY <1>2, <1>3, <1>4, <1>5, <1>6, <1>7, <1>8, <1>9 DEF Start

LEMMA StartKeepsAudio ==
    ASSUME Order, NEW h \in Starters, Start(h), Sinks
    PROVE  AudioSurvives' /\ NewIsEmpty'
<1>0. TypeOK /\ h \in Handlers /\ AudioSurvives /\ NewIsEmpty /\ Emptied(h) /\ Knows(h)
  BY DEF Order, Handlers, Sinks
<1>1. buffered' \subseteq buffered /\ persisted' \subseteq persisted \cup buffered
  BY <1>0, StoppedKeepsAudio
     DEF Start, StartRequest, StartAfterEnd, BeginStart, StartPermitted, StartStt, StartCreateCall,
         StartAudit, StartCheckpoint, StartNative, StartFinish, StartStopServices, StartEndCall,
         StartStopped, DiscardFailedStart, stores
<1>2. \A c \in Calls : callStatus'[c] = "absent" => callStatus[c] = "absent"
  BY <1>0, AbsentOnce
<1>3. CASE UNCHANGED checkpoint
  BY <1>0, <1>1, <1>2, <1>3, AudioKept DEF TypeOK
<1>4. CASE StartCheckpoint(h)
  <2>1. work[h] \in Calls /\ callStatus[work[h]] = "open"
    BY <1>0, <1>4 DEF StartCheckpoint, At, Knows, WithCall
  <2>2. \A c \in Calls : checkpoint'[c] = checkpoint[c] \/ (c = work[h] /\ checkpoint'[c] = "recording")
    BY <1>0, <1>4 DEF StartCheckpoint, TypeOK
  <2>3. UNCHANGED callStatus
    BY <1>4 DEF StartCheckpoint
  <2>4. QED BY <1>0, <1>1, <2>1, <2>2, <2>3, AudioKept DEF TypeOK
<1>5. CASE DiscardFailedStart(h) /\ pc[h] = "discardRemove"
  <2>1. work[h] \notin buffered \cup persisted
    BY <1>0, <1>5 DEF Emptied
  <2>2. \A c \in Calls : c # work[h] => checkpoint'[c] = checkpoint[c]
    BY <1>0, <1>5 DEF DiscardFailedStart, TypeOK
  <2>3. UNCHANGED callStatus
    BY <1>5 DEF DiscardFailedStart
  <2>4. checkpoint'[work[h]] \in {checkpoint[work[h]], "discarded"} \/ work[h] \notin Calls
    BY <1>0, <1>5 DEF DiscardFailedStart, TypeOK
  <2>5. QED BY <1>0, <1>1, <2>1, <2>2, <2>3, <2>4, AudioKept DEF TypeOK
<1>6. QED BY <1>3, <1>4, <1>5
     DEF Start, StartRequest, StartAfterEnd, BeginStart, StartPermitted, StartStt, StartCreateCall,
         StartAudit, StartNative, StartFinish, StartStopServices, StartEndCall,
         StartStopped, DiscardFailedStart, stores, At

LEMMA StartSinksKept ==
    ASSUME OneStopper, Order, Served, Sinks, NEW h \in Starters, Start(h)
    PROVE  Sinks'
<1>0. h \in Handlers /\ Others(h) /\ Local(h) /\ NewIsEmpty /\ \A g \in Handlers : Emptied(g)
  BY StartTypeOK DEF Handlers, Served, Sinks
<1>1. AudioSurvives' /\ NewIsEmpty'
  BY StartKeepsAudio
<1>2. CASE Active(h)
  <2>1. \A g \in Handlers : g # h => ~Active(g)
    BY <1>0, <1>2, Alone
  <2>2. \A g \in Handlers : g # h => Emptied(g)'
    BY <1>0, <2>1, EmptiedFrame
  <2>3. Emptied(h)'
    BY <1>0, <1>2, StartEmpties
  <2>4. QED BY <1>1, <2>2, <2>3 DEF Sinks
<1>3. CASE ~Active(h)
  <2>1. UNCHANGED Elsewhere /\ pc'[h] \in {"idle", "awaitEnd", "permission"}
    BY <1>3, StartShape DEF Active, Rest
  <2>2. \A g \in Handlers : g # h => Emptied(g)'
    BY <1>0, <2>1, EmptiedFrame DEF Elsewhere, services, checkpointVars, stores
  <2>3. Emptied(h)'
    BY <2>1, Kinds DEF Emptied
  <2>4. QED BY <1>1, <2>2, <2>3 DEF Sinks
<1>4. QED BY <1>2, <1>3

LEMMA EndEmpties ==
    ASSUME Order, NEW h \in Enders, End(h), Local(h), Session, Emptied(h)
    PROVE  /\ Emptied(h)'
           /\ buffered' \subseteq buffered /\ persisted' \subseteq persisted \cup buffered
           /\ ~Active(h) => UNCHANGED <<service, buffered, persisted, checkpointCall, stopFailed>>
                \/ (inCall /\ ~endPending)
           /\ UNCHANGED checkpoint \/ (pc[h] = "finalize" /\ work[h] \notin buffered
                 /\ checkpoint' = [checkpoint EXCEPT ![work[h]] = "finalized"])
<1>0. /\ TypeOK /\ h \in Handlers /\ pc \in [Handlers -> Labels] /\ Modes /\ Knows(h)
      /\ work \in [Handlers -> Calls \cup {None}] /\ h \notin Starters
      /\ taken \in [Handlers -> Targets \cup {None}] /\ Promised
  BY Typing, Kinds DEF Order, Handlers, FramesTyped
<1>a. \A l : Goto(h, l) => pc'[h] = l
  BY <1>0 DEF Goto
<1>b. Finish(h) => pc'[h] = "idle"
  BY <1>0 DEF Finish
<1> USE DEF At
<1>1. CASE pc'[h] \notin {"endStop", "finalize"} /\ UNCHANGED <<buffered, persisted, checkpoint>>
           /\ (~Active(h) => UNCHANGED <<service, checkpointCall, stopFailed>>)
  BY <1>0, <1>1 DEF Emptied
<1>2. CASE BeginEnd(h) /\ ~Active(h)
  <2>1. UNCHANGED <<buffered, persisted, checkpoint>>
    BY <1>2 DEF BeginEnd, stores
  <2>2. CASE inCall /\ ~endPending
    <3>1. owner = "call" /\ Running(activeCall)
      BY <2>2 DEF Session
    <3>2. StopServices(h, "endStop") /\ work' = [work EXCEPT ![h] = activeCall]
      BY <1>2, <2>2, <3>1 DEF BeginEnd
    <3>3. pc'[h] = "endStop" /\ taken'[h] = activeCall /\ work'[h] = activeCall
      BY <1>0, <1>a, <3>1, <3>2 DEF StopServices, Running
    <3>4. QED BY <1>0, <2>1, <2>2, <3>3 DEF Emptied
  <2>3. CASE endPending
    <3>1. pc'[h] = "joinEnd" /\ UNCHANGED <<services, checkpointVars>>
      BY <1>2, <1>a, <2>3 DEF BeginEnd
    <3>2. QED BY <1>1, <2>1, <3>1 DEF services, checkpointVars
  <2>4. CASE ~inCall /\ ~endPending
    <3>1. owner # "call" /\ activeCall = None
      BY <1>0, <2>4 DEF Modes
    <3>2. SessionIdle(None, FALSE) /\ Finish(h) /\ UNCHANGED services
      BY <1>2, <2>4, <3>1 DEF BeginEnd
    <3>3. QED BY <1>1, <1>b, <2>1, <3>2 DEF SessionIdle, services
  <2>5. QED BY <2>2, <2>3, <2>4
<1>3. CASE EndRequest(h) \/ EndAfterStart(h)
  <2>1. ~Active(h)
    BY <1>3 DEF EndRequest, EndAfterStart, Active, Rest
  <2>2. CASE BeginEnd(h)
    BY <1>2, <2>1, <2>2
  <2>3. CASE ~BeginEnd(h)
    <3>1. pc'[h] = "awaitStart" /\ UNCHANGED <<services, checkpointVars, stores>>
      BY <1>3, <1>a, <2>3 DEF EndRequest, EndAfterStart
    <3>2. QED BY <1>1, <3>1 DEF services, checkpointVars, stores
  <2>4. QED BY <2>2, <2>3
<1>4. CASE EndJoined(h)
  BY <1>1, <1>4, <1>b DEF EndJoined, services, checkpointVars, stores
<1>5. CASE EndStopped(h)
  <2>0. /\ pc[h] = "endStop" /\ taken[h] = work[h] /\ Active(h) /\ ServicesStopped(h)
        /\ UNCHANGED <<work, checkpoint>> /\ Goto(h, AfterStop(work[h], stopFailed'))
    BY <1>0, <1>5 DEF EndStopped, Emptied, Active, Rest
  <2>1. pc'[h] = AfterStop(work[h], stopFailed')
    BY <1>a, <2>0
  <2>2. pc'[h] = "finalize" => work[h] \notin buffered'
    BY <1>0, <2>0, <2>1, StoppedKeepsAudio DEF AfterStop
  <2>3. pc'[h] \in {"finalize", "endCall"}
    BY <2>1 DEF AfterStop
  <2>4. QED BY <1>0, <2>0, <2>2, <2>3, StoppedKeepsAudio DEF Emptied
<1>6. CASE EndFinalize(h) \/ EndCall(h) \/ EndFinish(h)
  <2>0. Active(h) /\ UNCHANGED <<buffered, persisted>>
    BY <1>6 DEF EndFinalize, EndCall, EndFinish, stores, Active, Rest
  <2>1. pc'[h] \in {"endIdle", "endCall", "idle"}
    BY <1>6, <1>a, <1>b DEF EndFinalize, EndCall, EndFinish
  <2>2. UNCHANGED checkpoint \/ (pc[h] = "finalize"
           /\ checkpoint' = [checkpoint EXCEPT ![work[h]] = "finalized"])
    BY <1>6 DEF EndFinalize, EndCall, EndFinish, stores
  <2>3. QED BY <1>0, <2>0, <2>1, <2>2 DEF Emptied
<1>7. QED BY <1>3, <1>4, <1>5, <1>6 DEF End

LEMMA EndSinksKept ==
    ASSUME OneStopper, Order, Served, Sinks, NEW h \in Enders, End(h)
    PROVE  Sinks'
<1>0. /\ h \in Handlers /\ Others(h) /\ Local(h) /\ Session /\ NewIsEmpty /\ AudioSurvives /\ TypeOK
      /\ (\A g \in Handlers : Emptied(g)) /\ Promised /\ Modes
  BY EndTypeOK DEF Handlers, Served, Sinks, Order
<1>1. AudioSurvives' /\ NewIsEmpty'
  <2>1. \A c \in Calls : callStatus'[c] = "absent" => callStatus[c] = "absent"
    BY <1>0, AbsentOnce
  <2>2. \A c \in Calls : checkpoint'[c] = checkpoint[c]
                         \/ (checkpoint'[c] = "finalized" /\ c \notin buffered)
    BY <1>0, EndEmpties DEF TypeOK
  <2>3. buffered' \subseteq buffered /\ persisted' \subseteq persisted \cup buffered
    BY <1>0, EndEmpties
  <2>4. QED BY <1>0, <2>1, <2>2, <2>3, AudioKept DEF TypeOK
<1>2. \A g \in Handlers : g # h => Emptied(g)'
  <2>1. CASE Active(h)
    <3>1. \A g \in Handlers : g # h => ~Active(g)
      BY <1>0, <2>1, Alone
    <3>2. QED BY <1>0, <3>1, EmptiedFrame
  <2>2. CASE inCall /\ ~endPending /\ ~Active(h)
    <3>1. \A g \in Callers : ~Active(g)
      BY <1>0, <2>2 DEF Promised, Modes, Callers
    <3>2. \A g \in DiagStoppers : ~Active(g)
      BY <1>0, <2>2, Kinds DEF Modes, Served, Local
    <3>3. QED BY <1>0, <3>1, <3>2, EmptiedFrame DEF Handlers, Callers
  <2>3. CASE UNCHANGED <<service, buffered, persisted, checkpointCall, stopFailed>>
    BY <1>0, <2>3, EmptiedFrame
  <2>4. QED BY <1>0, <2>1, <2>2, <2>3, EndEmpties
<1>3. Emptied(h)'
  BY <1>0, EndEmpties
<1>4. QED BY <1>1, <1>2, <1>3 DEF Sinks

LEMMA DiagSinksKept ==
    ASSUME OneStopper, Order, Served, Sinks, NEW h \in DiagStarters \cup DiagStoppers,
           \/ h \in DiagStarters /\ DiagStart(h)
           \/ h \in DiagStoppers /\ DiagStop(h)
    PROVE  Sinks'
<1>0. /\ h \in Handlers /\ Others(h) /\ NewIsEmpty /\ AudioSurvives /\ TypeOK
      /\ (\A g \in Handlers : Emptied(g)) /\ Promised /\ Modes /\ Session
  BY DiagTypeOK DEF Handlers, Served, Sinks, Order
<1>1. UNCHANGED <<callStatus, checkpoint>>
  BY DiagShape, DiagStopShape
<1>2. buffered' \subseteq buffered /\ persisted' \subseteq persisted \cup buffered
  BY <1>0, StoppedKeepsAudio
     DEF DiagStart, DiagStop, DiagRequest, DiagPermitted, DiagStt, DiagAudit, DiagNative, DiagFinish,
         DiagFailed, DiagStopRequest, DiagStopped, stores
<1>3. AudioSurvives' /\ NewIsEmpty'
  BY <1>0, <1>1, <1>2, AudioKept DEF TypeOK
<1>4. \A g \in Handlers : g # h => ~Active(g)
  <2>1. CASE Active(h)
    BY <1>0, <2>1, Alone
  <2>2. CASE ~Active(h)
    <3>1. ~CallInProgress /\ ~diagPending
      BY <2>2, DiagShape, DiagStopShape DEF Active, Rest
    <3>2. \A g \in Callers : ~Active(g)
      BY <1>0, <3>1 DEF Promised, CallInProgress, Callers
    <3>3. \A g \in DiagStoppers : Active(g) => g = h
      <4>1. CASE h \in DiagStoppers
        BY <4>1 DEF OneStopper
      <4>2. CASE h \in DiagStarters /\ DiagStart(h)
        <5>1. owner # "diagnostic"
          BY <2>2, <4>2, DiagShape DEF Active
        <5>2. QED BY <5>1, Kinds DEF Served, Local
      <4>3. QED BY <4>1, <4>2
    <3>4. QED BY <3>2, <3>3 DEF Handlers, Callers
  <2>3. QED BY <2>1, <2>2
<1>5. \A g \in Handlers : Emptied(g)'
  <2>1. h \notin Starters /\ h \notin Enders
    BY Kinds
  <2>2. QED BY <1>0, <1>4, <2>1, EmptiedFrame DEF Emptied
<1>6. QED BY <1>3, <1>5 DEF Sinks

\* A chunk only comes while something captures, and nothing does where a sink was emptied.
LEMMA ChunkSinksKept ==
    ASSUME Order, Served, Sinks, AudioChunk
    PROVE  Sinks'
<1>0. /\ UNCHANGED <<pc, work, taken, service, checkpointCall, stopFailed, callStatus, checkpoint>>
      /\ capturing /\ checkpoint[listener] = "recording" /\ listener \in Calls /\ TypeOK
      /\ buffered' \subseteq buffered \cup {listener} /\ persisted' \subseteq persisted \cup {listener}
  BY OutsideTypeOK DEF AudioChunk, frames, services, checkpointVars, Order
<1>1. AudioSurvives' /\ NewIsEmpty'
  BY <1>0 DEF Sinks, AudioSurvives, NewIsEmpty
<1>2. ASSUME NEW h \in Handlers PROVE Emptied(h)'
  <2>1. Emptied(h) /\ Local(h) /\ Promised /\ Session
    BY DEF Sinks, Served, Order
  <2>2. CASE h \in Starters
    <3>1. pc[h] \notin {"audit", "checkpoint", "native", "nativeFailed", "endDiscard", "discard",
                       "discardAudit", "discardRemove"}
      BY <1>0, <2>1, <2>2 DEF Local, Holds, Active, Rest, Free, Silent, StopLabels
    <3>2. QED BY <1>0, <2>1, <2>2, <3>1, Kinds DEF Emptied
  <2>3. CASE h \in Enders
    <3>1. pc[h] # "finalize"
      BY <1>0, <2>1, <2>3 DEF Promised, Session, Active, Rest, Free, Silent
    <3>2. QED BY <1>0, <2>1, <2>3, <3>1, Kinds DEF Emptied
  <2>4. QED BY <2>2, <2>3 DEF Emptied
<1>3. QED BY <1>1, <1>2 DEF Sinks

LEMMA SinksInit ==
    ASSUME Init
    PROVE  Sinks
  BY DEF Init, Sinks, AudioSurvives, NewIsEmpty, Emptied

LEMMA SinksStep ==
    ASSUME OneStopper, Order, Served, Sinks, [Next]_vars
    PROVE  Sinks'
<1>1. CASE UpdaterStep \/ UNCHANGED vars
  <2>1. UNCHANGED <<pc, work, taken, service, checkpointVars, stores>>
    BY <1>1 DEF UpdaterStep, vars, frames, services
  <2>2. QED BY <2>1 DEF Sinks, AudioSurvives, NewIsEmpty, Emptied, checkpointVars, stores
<1>2. QED BY <1>1, StartSinksKept, EndSinksKept, DiagSinksKept, ChunkSinksKept DEF Next

-----------------------------------------------------------------------------
(* The theorems. *)

\* Every variable keeps its type, whatever handlers interleave.
THEOREM TypeCorrect == Spec => []TypeOK
  BY OrderHolds, PTL DEF Order

\* The microphone never runs for a target whose consent and start were not written to the
\* audit log (appendRecordingAuditLogs before the native capture), however stops overlap.
THEOREM CapturesAreAudited == Spec => []CaptureIsAudited
<1>1. Order => CaptureIsAudited
  BY DEF Order, Heard, CaptureIsAudited
<1>2. QED BY <1>1, OrderHolds, PTL

\* Recorded audio survives: a checkpoint that lacks audio its sink took is not closed, and one
\* that holds audio is not discarded, whatever fails in the start, the drain or the end of its
\* call (discardFailedStartCheckpoint, finalizeActiveCheckpoint, activeCheckpointStopFailed).
THEOREM RecordedAudioSurvives == OneStopper => (Spec => []AudioSurvives)
<1> SUFFICES ASSUME OneStopper PROVE Spec => []AudioSurvives
  OBVIOUS
<1>1. Init => Order /\ Served /\ Sinks
  BY OrderInit, ServedInit, SinksInit
<1>2. Order /\ Served /\ Sinks /\ [Next]_vars => (Order /\ Served /\ Sinks)'
  BY OrderStep, ServedStep, SinksStep
<1>3. Sinks => AudioSurvives
  BY DEF Sinks
<1>4. QED BY <1>1, <1>2, <1>3, PTL DEF Spec

\* Two open calls are one: an open call is the active one or the one a start is working on.
LEMMA OpenIsUnique ==
    ASSUME Order, NEW c \in Calls, NEW d \in Calls, callStatus[c] = "open", callStatus[d] = "open"
    PROVE  c = d
<1>1. ASSUME NEW a \in Calls, callStatus[a] = "open", a # activeCall
      PROVE  startPending /\ \E h \in Starters : Active(h) /\ work[h] = a
  BY <1>1 DEF Order, OpenIsWorkedOn, Promised, Active, Rest, WithCall
<1>2. ~startPending \/ activeCall = None
  BY DEF Order, Modes
<1>3. c # None /\ d # None
  BY RecordingAssumption
<1>4. \A h, g \in Starters : Active(h) /\ Active(g) => h = g
  BY DEF Order, Promised, Callers
<1>5. QED BY <1>1, <1>2, <1>3, <1>4

\* One session, never parallel ones: at most one call record is open at a time, and when no
\* handler runs and no session is left none is (startRecordingSession, endCurrentCall).
THEOREM OneCallIsOpen == Spec => []OneOpenCall
<1>1. ASSUME Order PROVE OneOpenCall
  <2> DEFINE open == {c \in Calls : callStatus[c] = "open"}
  <2>1. Cardinality(open) <= 1
    <3>1. CASE open = {}
      BY <3>1, FS_EmptySet
    <3>2. CASE open # {}
      <4>1. PICK c \in open : TRUE
        BY <3>2
      <4>2. open = {c}
        BY <1>1, <4>1, OpenIsUnique
      <4>3. Cardinality({c}) = 1
        BY FS_Singleton
      <4>4. QED BY <4>2, <4>3
    <3>3. QED BY <3>1, <3>2
  <2>2. Quiet => open = {}
    <3>1. Quiet => activeCall = None /\ \A h \in Starters : pc[h] \notin WithCall
      BY <1>1, Kinds DEF Order, Modes, Quiet, WithCall
    <3>2. QED BY <1>1, <3>1, RecordingAssumption DEF Order, OpenIsWorkedOn
  <2>3. QED BY <2>1, <2>2 DEF OneOpenCall
<1>2. QED BY <1>1, OrderHolds, PTL

\* A downloaded update that was deferred for a call has its timer armed until it is installed
\* (UpdateManager.tryInstall).
THEOREM DeferredStaysArmed == Spec => []DeferredIsArmed
<1>1. Order => DeferredIsArmed
  BY DEF Order
<1>2. QED BY <1>1, OrderHolds, PTL

\* Whatever way a start, a stop or a diagnostic ended, when nothing is left of it nothing
\* captures audio and no service is referenced (stopRealtimeAudioServices on every path).
THEOREM NothingKeepsRunning == OneStopper => (Spec => []NothingRunsWhenQuiet)
<1>1. Order /\ Served => NothingRunsWhenQuiet
  BY DEF Served, Session, Quiet, NothingRunsWhenQuiet, Free, Silent
<1>2. QED BY <1>1, InService, PTL

\* Until a call is being ended the microphone feeds the open checkpoint of exactly that call,
\* and what is captured was consented to (startRecordingSessionOnce, endCurrentCallOnce).
THEOREM CallsAreCovered == OneStopper => (Spec => []CaptureIsCovered)
<1>1. ASSUME Order, Served PROVE CaptureIsCovered
  <2>1. CaptureIsAudited
    BY <1>1 DEF Order, Heard, CaptureIsAudited
  <2>2. ASSUME inCall, ~endPending
        PROVE  /\ capturing /\ owner = "call"
               /\ activeCall \in Calls \ drained
               /\ listener = activeCall /\ service = activeCall
               /\ checkpointCall = activeCall /\ hasContext
    <3>1. /\ Running(activeCall) /\ owner = "call"
          /\ checkpointCall = activeCall /\ hasContext /\ activeCall \notin drained
      BY <1>1, <2>2 DEF Served, Session
    <3>2. activeCall \in Calls
      BY <1>1, <2>2 DEF Order, Modes, TypeOK
    <3>3. listener = activeCall
      BY <1>1, <3>1, <3>2, RecordingAssumption DEF Order, Heard, Running
    <3>4. QED BY <3>1, <3>2, <3>3 DEF Running
  <2>3. QED BY <2>1, <2>2 DEF CaptureIsCovered, CallIsCheckpointed
<1>2. QED BY <1>1, InService, PTL

\* quitAndInstall never comes in the middle of a call, of its start or of its end, and a
\* deferred update is not forgotten (UpdateManager with isRecordingInProgress).
THEOREM UpdatesWait == OneStopper => (Spec => []UpdaterIsSound)
<1>1. ASSUME Order, Served PROVE UpdaterIsSound
  <2>1. DeferredIsArmed
    BY <1>1 DEF Order
  <2>2. ASSUME installed
        PROVE  (\A c \in Calls : callStatus[c] # "open") /\ (~capturing \/ listener = Diag)
    <3>1. ~inCall /\ ~startPending /\ activeCall = None
      BY <1>1, <2>2 DEF Order, Modes
    <3>2. \A h \in Starters : pc[h] \notin WithCall
      BY <1>1, <3>1 DEF Order, Promised, Active, Rest, WithCall
    <3>3. \A c \in Calls : callStatus[c] # "open"
      BY <1>1, <3>1, <3>2, RecordingAssumption DEF Order, OpenIsWorkedOn
    <3>4. QED BY <1>1, <3>1, <3>3 DEF Served, Session
  <2>3. QED BY <2>1, <2>2 DEF UpdaterIsSound, InstallSparesCalls
<1>2. QED BY <1>1, InService, PTL

\* When a call is over the microphone is not captured any more (stopRecordingSession ends
\* whatever session the singleton state holds).
THEOREM CallEndsSilence == OneStopper => (Spec => EndStopsCapture)
<1> SUFFICES ASSUME OneStopper PROVE Spec => EndStopsCapture
  OBVIOUS
<1>1. ASSUME Order, Served, Next, inCall, ~inCall'
      PROVE  ~capturing' /\ service' = None
  <2>1. PICK h \in Enders : End(h)
    BY <1>1, StartShape, DiagShape, DiagStopShape, OutsideTypeOK DEF Next, sessionVars, Order, Modes,
       Promised
  <2>2. pc[h] = "endIdle" /\ UNCHANGED services
    BY <1>1, <2>1, EndShape DEF sessionVars
  <2>3. Free
    <3>1. endPending
      BY <1>1, <2>2 DEF Order, Promised, Active, Rest
    <3>2. QED BY <1>1, <3>1 DEF Served, Session
  <2>4. QED BY <2>2, <2>3 DEF Free, Silent, services
<1>2. Order /\ Served /\ [Next]_vars => [inCall /\ ~inCall' => ~capturing' /\ service' = None]_vars
  BY <1>1
<1>3. QED BY <1>2, InService, PTL DEF EndStopsCapture, Spec

-----------------------------------------------------------------------------
(* Inside a call: the live transcript and its answers. *)

Windows == [objection : Voiced \cup {None}, response : Voiced \cup {None}]
RunStages == {"none", "detecting", "searching", "generating", "done"}

PipelineTyped ==
    /\ inbox \in Seq(Pipeline!Message)
    /\ overlay \in Windows /\ control \in Windows
    /\ stage \in [Voiced -> RunStages]
    /\ asked \in Voiced \cup {None}
    /\ writing \in Seq(Voiced)

\* A message that leaves the objection u of the control window in place.
Keeps(u, m) == m.type = "RESPONSE" \/ (m.type = "DETECTED" /\ m.of = u)
                                   \/ (m.type = "CANCELLED" /\ m.of # u)

\* When the control window comes to message i of its inbox, it will show the objection u.
Showing(u, i) ==
    \/ control.objection = u /\ \A j \in 1..(i - 1) : Keeps(u, inbox[j])
    \/ \E k \in 1..(i - 1) :
          /\ inbox[k] = [type |-> "DETECTED", of |-> u]
          /\ \A j \in (k + 1)..(i - 1) : Keeps(u, inbox[j])

\* A window shows an answer under its objection; so will the control window with every answer
\* on its way to it, and with the one the run in force may still give.
Answers ==
    /\ overlay.response # None => overlay.response = overlay.objection
    /\ control.response # None => control.response = control.objection
    /\ \A i \in 1..Len(inbox), u \in Voiced :
          inbox[i].type = "RESPONSE" /\ inbox[i].of = u => Showing(u, i)
    /\ \A u \in Voiced : current = u /\ stage[u] \in {"searching", "generating"} =>
          Showing(u, Len(inbox) + 1)

AnswersInv == PipelineTyped /\ Answers

\* What a place in the inbox finds depends on the messages before it.
LEMMA ShowingBefore ==
  ASSUME NEW u \in Voiced, NEW i \in Nat, UNCHANGED control,
         \A j \in 1..(i - 1) : inbox'[j] = inbox[j], Showing(u, i)
  PROVE  Showing(u, i)'
<1>1. CASE control.objection = u /\ \A j \in 1..(i - 1) : Keeps(u, inbox[j])
  BY <1>1 DEF Showing, Keeps
<1>2. CASE \E k \in 1..(i - 1) :
             /\ inbox[k] = [type |-> "DETECTED", of |-> u]
             /\ \A j \in (k + 1)..(i - 1) : Keeps(u, inbox[j])
  <2>1. PICK k \in 1..(i - 1) :
             /\ inbox[k] = [type |-> "DETECTED", of |-> u]
             /\ \A j \in (k + 1)..(i - 1) : Keeps(u, inbox[j])
    BY <1>2
  <2>2. inbox'[k] = inbox[k] /\ \A j \in (k + 1)..(i - 1) : inbox'[j] = inbox[j]
    OBVIOUS
  <2>3. QED BY <2>1, <2>2 DEF Showing, Keeps
<1>3. QED BY <1>1, <1>2 DEF Showing

\* A message is appended: what was going to be shown still is, unless it is taken away.
LEMMA ShowingAppend ==
  ASSUME PipelineTyped, NEW m \in Pipeline!Message, NEW u \in Voiced,
         inbox' = Append(inbox, m), UNCHANGED control
  PROVE  /\ \A i \in 1..(Len(inbox) + 1) : Showing(u, i) => Showing(u, i)'
         /\ Showing(u, Len(inbox) + 1) /\ Keeps(u, m) => Showing(u, Len(inbox) + 1)'
         /\ m = [type |-> "DETECTED", of |-> u] => Showing(u, Len(inbox) + 1)'
<1>1. /\ Len(inbox) \in Nat /\ inbox'[Len(inbox) + 1] = m
      /\ \A i \in 1..Len(inbox) : inbox'[i] = inbox[i]
      /\ Len(inbox') = Len(inbox) + 1
  BY DEF PipelineTyped
<1>2. ASSUME NEW i \in 1..(Len(inbox) + 1), Showing(u, i) PROVE Showing(u, i)'
  BY <1>1, <1>2, ShowingBefore
<1>3. ASSUME Showing(u, Len(inbox) + 1), Keeps(u, m) PROVE Showing(u, Len(inbox) + 1)'
  <2>1. CASE control.objection = u /\ \A j \in 1..Len(inbox) : Keeps(u, inbox[j])
    BY <1>1, <1>3, <2>1 DEF Showing, Keeps
  <2>2. CASE \E k \in 1..Len(inbox) :
               /\ inbox[k] = [type |-> "DETECTED", of |-> u]
               /\ \A j \in (k + 1)..Len(inbox) : Keeps(u, inbox[j])
    <3>1. PICK k \in 1..Len(inbox) :
               /\ inbox[k] = [type |-> "DETECTED", of |-> u]
               /\ \A j \in (k + 1)..Len(inbox) : Keeps(u, inbox[j])
      BY <2>2
    <3>2. inbox'[k] = inbox[k] /\ \A j \in (k + 1)..Len(inbox) : inbox'[j] = inbox[j]
      BY <1>1
    <3>3. k \in 1..Len(inbox') /\ \A j \in (k + 1)..Len(inbox') :
                                   j \in (k + 1)..Len(inbox) \/ j = Len(inbox) + 1
      BY <1>1
    <3>4. k \in 1..((Len(inbox') + 1) - 1) /\ inbox'[k] = [type |-> "DETECTED", of |-> u]
      BY <1>1, <3>1, <3>2, <3>3
    <3>5. ASSUME NEW j \in (k + 1)..Len(inbox') PROVE Keeps(u, inbox'[j])
      <4>1. CASE j \in (k + 1)..Len(inbox)
        BY <3>1, <3>2, <4>1
      <4>2. CASE j = Len(inbox) + 1
        BY <1>1, <1>3, <4>2
      <4>3. QED BY <3>3, <4>1, <4>2
    <3>6. (Len(inbox') + 1) - 1 = Len(inbox')
      BY <1>1
    <3>7. QED BY <3>4, <3>5, <3>6 DEF Showing, Keeps
  <2>3. (Len(inbox) + 1) - 1 = Len(inbox)
    BY <1>1
  <2>4. QED BY <1>3, <2>1, <2>2, <2>3 DEF Showing
<1>4. ASSUME m = [type |-> "DETECTED", of |-> u] PROVE Showing(u, Len(inbox) + 1)'
  BY <1>1, <1>4 DEF Showing, Keeps
<1>5. QED BY <1>2, <1>3, <1>4

\* What the overlay makes of a message fits as well.
LEMMA OverlayFits ==
  ASSUME NEW s \in Windows, NEW m \in Pipeline!Message, m.type # "reply",
         s.response # None => s.response = s.objection
  PROVE  LET t == Pipeline!OverlayReducer(s, m)
         IN  t \in Windows /\ (t.response # None => t.response = t.objection)
<1>1. m.type \in {"DETECTED", "RESPONSE", "CANCELLED"} /\ m.of \in Voiced
  BY DEF Pipeline!Message
<1>2. CASE m.type = "DETECTED" /\ s.objection = m.of
  <2>1. Pipeline!OverlayReducer(s, m) = s
    BY <1>2, Zenon DEF Pipeline!OverlayReducer
  <2>2. QED BY <2>1
<1>3. CASE m.type = "DETECTED" /\ s.objection # m.of
  <2>1. Pipeline!OverlayReducer(s, m) = [objection |-> m.of, response |-> None]
    BY <1>3, Zenon DEF Pipeline!OverlayReducer
  <2>2. QED BY <1>1, <2>1 DEF Windows
<1>4. CASE m.type = "RESPONSE" /\ s.objection # m.of
  <2>1. Pipeline!OverlayReducer(s, m) = s
    BY <1>4, Zenon DEF Pipeline!OverlayReducer
  <2>2. QED BY <2>1
<1>5. CASE m.type = "RESPONSE" /\ s.objection = m.of
  <2>1. Pipeline!OverlayReducer(s, m) = [s EXCEPT !.response = m.of]
    BY <1>5, Zenon DEF Pipeline!OverlayReducer
  <2>2. QED BY <1>1, <1>5, <2>1 DEF Windows
<1>6. CASE m.type = "CANCELLED"
  <2>1. Pipeline!OverlayReducer(s, m) = [s EXCEPT !.objection = None, !.response = None]
    BY <1>6, Zenon DEF Pipeline!OverlayReducer
  <2>2. QED BY <2>1 DEF Windows
<1>7. QED BY <1>1, <1>2, <1>3, <1>4, <1>5, <1>6

\* Both windows are told: an answer only if its objection will be shown when it comes.
LEMMA SendStep ==
  ASSUME AnswersInv, NEW m \in Pipeline!Message, m.type # "reply",
         overlay' = Pipeline!OverlayReducer(overlay, m),
         inbox' = Append(inbox, m), UNCHANGED <<control, writing>>,
         asked' \in Voiced \cup {None}, stage' \in [Voiced -> RunStages],
         m.type = "RESPONSE" => Showing(m.of, Len(inbox) + 1),
         \A u \in Voiced : current' = u /\ stage'[u] \in {"searching", "generating"} =>
             \/ m = [type |-> "DETECTED", of |-> u]
             \/ Keeps(u, m) /\ current = u /\ stage[u] \in {"searching", "generating"}
  PROVE  AnswersInv'
<1>1. /\ inbox' \in Seq(Pipeline!Message) /\ Len(inbox') = Len(inbox) + 1
      /\ inbox'[Len(inbox) + 1] = m /\ \A i \in 1..Len(inbox) : inbox'[i] = inbox[i]
  BY DEF AnswersInv, PipelineTyped
<1>2. overlay' \in Windows /\ (overlay'.response # None => overlay'.response = overlay'.objection)
  BY OverlayFits DEF AnswersInv, PipelineTyped, Answers
<1>3. PipelineTyped'
  BY <1>1, <1>2 DEF AnswersInv, PipelineTyped
<1>5. m.of \in Voiced /\ Len(inbox) \in Nat
  BY DEF AnswersInv, PipelineTyped, Pipeline!Message
<1>6. ASSUME NEW i \in 1..Len(inbox'), NEW u \in Voiced,
             inbox'[i].type = "RESPONSE", inbox'[i].of = u
      PROVE  Showing(u, i)'
  <2>1. i \in 1..(Len(inbox) + 1) /\ (Showing(u, i) => Showing(u, i)')
    BY <1>1, <1>5, ShowingAppend DEF AnswersInv
  <2>2. CASE i \in 1..Len(inbox)
    BY <1>1, <1>6, <2>1, <2>2 DEF AnswersInv, Answers
  <2>3. CASE i = Len(inbox) + 1
    BY <1>1, <1>6, <2>1, <2>3
  <2>4. QED BY <1>5, <2>1, <2>2, <2>3
<1>7. ASSUME NEW u \in Voiced, current' = u, stage'[u] \in {"searching", "generating"}
      PROVE  Showing(u, Len(inbox) + 1)'
  BY <1>7, ShowingAppend DEF AnswersInv, Answers
<1>8. Answers'
  BY <1>2, <1>6, <1>7 DEF AnswersInv, Answers
<1>9. QED BY <1>3, <1>8 DEF AnswersInv

\* What the control window makes of the message that comes first.
LEMMA ControlStep ==
  ASSUME AnswersInv, inbox # <<>>, control' = Pipeline!ControlHandler(control, Head(inbox))
  PROVE  /\ control' \in Windows
         /\ control'.response # None => control'.response = control'.objection
         /\ \A u \in Voiced :
              /\ control.objection = u /\ Keeps(u, Head(inbox)) => control'.objection = u
              /\ Head(inbox) = [type |-> "DETECTED", of |-> u] => control'.objection = u
<1> DEFINE h == Head(inbox)
<1>1. h \in Pipeline!Message /\ 1 \in 1..Len(inbox) /\ h = inbox[1]
  BY DEF AnswersInv, PipelineTyped
<1>2. h.type \in {"DETECTED", "RESPONSE", "CANCELLED", "reply"} /\ h.of \in Voiced
  BY <1>1 DEF Pipeline!Message
<1>3. control \in Windows /\ (control.response # None => control.response = control.objection)
  BY DEF AnswersInv, PipelineTyped, Answers
<1>4. ASSUME h.type = "RESPONSE" PROVE control.objection = h.of
  <2>1. Showing(h.of, 1)
    BY <1>1, <1>2, <1>4 DEF AnswersInv, Answers
  <2>2. 1..(1 - 1) = {}
    OBVIOUS
  <2>3. QED BY <2>1, <2>2 DEF Showing
<1> HIDE DEF h
<1>5. control' = Pipeline!ControlHandler(control, h)
  BY DEF h
<1>6. CASE h.type = "DETECTED"
  <2>1. control' = [objection |-> h.of, response |-> None]
    BY <1>5, <1>6, Zenon DEF Pipeline!ControlHandler
  <2>2. QED BY <1>2, <1>6, <2>1 DEF Windows, Keeps, h
<1>7. CASE h.type = "RESPONSE"
  <2>1. control' = [control EXCEPT !.response = h.of]
    BY <1>5, <1>7, Zenon DEF Pipeline!ControlHandler
  <2>2. QED BY <1>2, <1>3, <1>4, <1>7, <2>1 DEF Windows, Keeps, h
<1>8. CASE h.type = "CANCELLED"
  <2>1. control' = [objection |-> IF control.objection = h.of THEN None ELSE control.objection,
                    response |-> IF control.response = h.of THEN None ELSE control.response]
    BY <1>5, <1>8, Zenon DEF Pipeline!ControlHandler
  <2>2. QED BY <1>2, <1>3, <1>8, <2>1 DEF Windows, Keeps, h
<1>9. CASE h.type = "reply"
  <2>1. control' = [objection |-> None, response |-> None]
    BY <1>5, <1>9, Zenon DEF Pipeline!ControlHandler
  <2>2. QED BY <1>2, <1>9, <2>1 DEF Windows, Keeps, h
<1>10. QED BY <1>2, <1>6, <1>7, <1>8, <1>9

\* The first message is delivered: what the later ones will find is what they would have found.
LEMMA DeliverStep ==
  ASSUME AnswersInv, Pipeline!Deliver, UNCHANGED writing
  PROVE  AnswersInv'
<1>1. /\ inbox # <<>> /\ inbox' = Tail(inbox) /\ UNCHANGED <<overlay, stage, current, writing>>
      /\ control' = Pipeline!ControlHandler(control, Head(inbox))
      /\ asked' \in {asked, None}
  BY DEF Pipeline!Deliver
<1>2. /\ control' \in Windows
      /\ control'.response # None => control'.response = control'.objection
      /\ \A u \in Voiced :
           /\ control.objection = u /\ Keeps(u, Head(inbox)) => control'.objection = u
           /\ Head(inbox) = [type |-> "DETECTED", of |-> u] => control'.objection = u
  BY <1>1, ControlStep
<1>3. /\ inbox' \in Seq(Pipeline!Message) /\ Len(inbox) \in Nat /\ Len(inbox') = Len(inbox) - 1
      /\ Head(inbox) = inbox[1] /\ \A i \in 1..Len(inbox') : inbox'[i] = inbox[i + 1]
  BY <1>1 DEF AnswersInv, PipelineTyped
<1>4. ASSUME NEW u \in Voiced, NEW i \in 1..Len(inbox), Showing(u, i + 1)
      PROVE  Showing(u, i)'
  <2>1. CASE control.objection = u /\ \A j \in 1..i : Keeps(u, inbox[j])
    <3>1. control'.objection = u
      BY <1>2, <1>3, <2>1
    <3>2. \A j \in 1..(i - 1) : Keeps(u, inbox[j + 1]) /\ inbox'[j] = inbox[j + 1]
      BY <1>3, <2>1
    <3>3. QED BY <3>1, <3>2 DEF Showing, Keeps
  <2>2. CASE \E k \in 1..i : /\ inbox[k] = [type |-> "DETECTED", of |-> u]
                             /\ \A j \in (k + 1)..i : Keeps(u, inbox[j])
    <3>1. PICK k \in 1..i : /\ inbox[k] = [type |-> "DETECTED", of |-> u]
                            /\ \A j \in (k + 1)..i : Keeps(u, inbox[j])
      BY <2>2
    <3>2. \A j \in k..(i - 1) : Keeps(u, inbox[j + 1]) /\ inbox'[j] = inbox[j + 1]
      BY <1>3, <3>1
    <3>3. CASE k = 1
      BY <1>2, <1>3, <3>1, <3>2, <3>3 DEF Showing, Keeps
    <3>4. CASE k # 1
      <4>1. k - 1 \in 1..(i - 1) /\ inbox'[k - 1] = [type |-> "DETECTED", of |-> u]
        BY <1>3, <3>1, <3>4
      <4>2. QED BY <3>2, <4>1 DEF Showing, Keeps
    <3>5. QED BY <3>3, <3>4
  <2>3. QED BY <1>4, <2>1, <2>2 DEF Showing
<1>5. PipelineTyped'
  BY <1>1, <1>2, <1>3 DEF AnswersInv, PipelineTyped
<1>6. ASSUME NEW i \in 1..Len(inbox'), NEW u \in Voiced,
             inbox'[i].type = "RESPONSE", inbox'[i].of = u
      PROVE  Showing(u, i)'
  <2>1. i \in 1..Len(inbox) /\ i + 1 \in 1..Len(inbox) /\ inbox'[i] = inbox[i + 1]
    BY <1>3
  <2>2. Showing(u, i + 1)
    BY <1>6, <2>1 DEF AnswersInv, Answers
  <2>3. QED BY <1>4, <2>1, <2>2
<1>7. ASSUME NEW u \in Voiced, current' = u, stage'[u] \in {"searching", "generating"}
      PROVE  Showing(u, Len(inbox) + 1)'
  <2>1. Showing(u, Len(inbox) + 1)
    BY <1>1, <1>7 DEF AnswersInv, Answers
  <2>2. PICK n \in 1..Len(inbox) : n = Len(inbox)
    <3>1. Len(inbox') \in Nat
      BY <1>3
    <3>2. Len(inbox) \in 1..Len(inbox)
      BY <1>3, <3>1
    <3>3. QED BY <3>2
  <2>3. Showing(u, n)'
    BY <1>4, <2>1, <2>2
  <2>4. n = Len(inbox') + 1
    BY <1>3, <2>2
  <2>5. QED BY <2>3, <2>4, Zenon DEF Showing
<1>8. Answers'
  BY <1>1, <1>2, <1>6, <1>7 DEF AnswersInv, Answers
<1>9. QED BY <1>5, <1>8 DEF AnswersInv

\* A run moves on without a message, or the call ends: nothing new is promised.
LEMMA RunStep ==
  ASSUME AnswersInv, UNCHANGED <<inbox, overlay, control>>,
         stage' \in [Voiced -> RunStages], asked' \in Voiced \cup {None},
         writing' \in Seq(Voiced),
         \A u \in Voiced : current' = u /\ stage'[u] \in {"searching", "generating"} =>
             current = u /\ stage[u] \in {"searching", "generating"}
  PROVE  AnswersInv'
<1>1. PipelineTyped'
  BY DEF AnswersInv, PipelineTyped
<1>2. \A u \in Voiced, i \in 1..(Len(inbox) + 1) : Showing(u, i) => Showing(u, i)'
  BY DEF Showing
<1>3. Len(inbox) + 1 \in 1..(Len(inbox) + 1)
  BY DEF AnswersInv, PipelineTyped
<1>4. \A u \in Voiced : Showing(u, Len(inbox) + 1) => Showing(u, Len(inbox) + 1)'
  BY <1>3 DEF Showing
<1>5. Answers'
  BY <1>2, <1>3, <1>4 DEF AnswersInv, Answers
<1>6. QED BY <1>1, <1>5 DEF AnswersInv

\* A dismissal: no run is in force, and the two messages it adds are no answers.
LEMMA DismissStep ==
  ASSUME AnswersInv, None \notin Voiced, Pipeline!Dismiss, UNCHANGED writing
  PROVE  AnswersInv'
<1> DEFINE m == [type |-> "CANCELLED", of |-> asked]
           r == [type |-> "reply", of |-> asked]
<1>1. /\ asked # None /\ current' = None /\ UNCHANGED <<stage, control, asked, writing>>
      /\ overlay' = Pipeline!OverlayReducer(overlay, m)
      /\ inbox' = inbox \o <<m, r>>
  BY DEF Pipeline!Dismiss
<1>2. m \in Pipeline!Message /\ r \in Pipeline!Message
      /\ m.type = "CANCELLED" /\ r.type = "reply"
  BY <1>1 DEF AnswersInv, PipelineTyped, Pipeline!Message
<1> HIDE DEF m, r
<1>3. overlay' \in Windows /\ (overlay'.response # None => overlay'.response = overlay'.objection)
  BY <1>1, <1>2, OverlayFits DEF AnswersInv, PipelineTyped, Answers
<1>4. /\ inbox' \in Seq(Pipeline!Message) /\ Len(inbox) \in Nat /\ Len(inbox') = Len(inbox) + 2
      /\ \A i \in 1..Len(inbox) : inbox'[i] = inbox[i]
      /\ inbox'[Len(inbox) + 1] = m /\ inbox'[Len(inbox) + 2] = r
  BY <1>1, <1>2 DEF AnswersInv, PipelineTyped
<1>5. PipelineTyped'
  BY <1>1, <1>3, <1>4 DEF AnswersInv, PipelineTyped
<1>6. ASSUME NEW i \in 1..Len(inbox'), NEW u \in Voiced,
             inbox'[i].type = "RESPONSE", inbox'[i].of = u
      PROVE  Showing(u, i)'
  <2>1. i \in 1..Len(inbox)
    BY <1>2, <1>4, <1>6
  <2>2. Showing(u, i)
    BY <1>4, <1>6, <2>1 DEF AnswersInv, Answers
  <2>3. \A j \in 1..(i - 1) : inbox'[j] = inbox[j]
    BY <1>4, <2>1
  <2>4. i \in Nat /\ UNCHANGED control
    BY <1>1, <2>1
  <2>5. QED BY <2>2, <2>3, <2>4, ShowingBefore
<1>7. Answers'
  BY <1>1, <1>3, <1>6 DEF AnswersInv, Answers
<1>8. QED BY <1>5, <1>7 DEF AnswersInv

\* The pipeline goes on, or a window acts.
LEMMA PipelineSteps ==
  ASSUME AnswersInv, None \notin Voiced, Pipeline!PipelineStep, UNCHANGED writing
  PROVE  AnswersInv'
<1>1. CASE Pipeline!Deliver
  BY <1>1, DeliverStep
<1>2. CASE Pipeline!AskDismiss
  BY <1>2, RunStep DEF Pipeline!AskDismiss, AnswersInv, PipelineTyped, Windows
<1>3. CASE Pipeline!Dismiss
  BY <1>3, DismissStep
<1>4. ASSUME NEW u \in Voiced,
             \/ Pipeline!Detect(u) \/ Pipeline!Search(u)
             \/ Pipeline!Generate(u) \/ Pipeline!RunFails(u)
      PROVE  AnswersInv'
  <2>1. /\ UNCHANGED <<current, control, asked, writing>>
        /\ stage \in [Voiced -> RunStages] /\ asked \in Voiced \cup {None}
        /\ writing \in Seq(Voiced)
    BY <1>4 DEF Pipeline!Detect, Pipeline!Search, Pipeline!Generate,
                Pipeline!RunFails, AnswersInv, PipelineTyped
  <2>2. \A t \in {"DETECTED", "RESPONSE", "CANCELLED"} :
          LET m == [type |-> t, of |-> u]
          IN  m \in Pipeline!Message /\ m.type = t /\ m.of = u
    BY DEF Pipeline!Message
  <2>3. ASSUME NEW s \in RunStages, stage' = [stage EXCEPT ![u] = s], UNCHANGED <<inbox, overlay>>,
               s \in {"searching", "generating"} => stage[u] \in {"searching", "generating"}
        PROVE  AnswersInv'
    BY <2>1, <2>3, RunStep
  <2>4. ASSUME stage' = [stage EXCEPT ![u] = "done"], current # u,
               Pipeline!Send("CANCELLED", u)
        PROVE  AnswersInv'
    <3> DEFINE m == [type |-> "CANCELLED", of |-> u]
    <3>1. /\ m \in Pipeline!Message /\ m.type = "CANCELLED" /\ m.of = u
          /\ overlay' = Pipeline!OverlayReducer(overlay, m) /\ inbox' = Append(inbox, m)
      BY <2>2, <2>4 DEF Pipeline!Send
    <3> HIDE DEF m
    <3>2. stage' \in [Voiced -> RunStages] /\ \A w \in Voiced \ {u} : stage'[w] = stage[w]
      BY <2>1, <2>4 DEF RunStages
    <3>3. \A w \in Voiced : current' = w /\ stage'[w] \in {"searching", "generating"} =>
             Keeps(w, m) /\ current = w /\ stage[w] \in {"searching", "generating"}
      BY <2>1, <2>4, <3>1, <3>2 DEF Keeps
    <3>4. QED BY <2>1, <3>1, <3>2, <3>3, SendStep
  <2>5. CASE Pipeline!Detect(u)
    <3>1. CASE /\ current = u /\ Pipeline!Send("DETECTED", u)
               /\ stage' = [stage EXCEPT ![u] = "searching"]
      <4> DEFINE m == [type |-> "DETECTED", of |-> u]
      <4>1. /\ m \in Pipeline!Message /\ m.type = "DETECTED"
            /\ overlay' = Pipeline!OverlayReducer(overlay, m) /\ inbox' = Append(inbox, m)
        BY <2>2, <3>1 DEF Pipeline!Send
      <4>2. \A w \in Voiced : current' = w => m = [type |-> "DETECTED", of |-> w]
        BY <2>1, <3>1
      <4> HIDE DEF m
      <4>3. stage' \in [Voiced -> RunStages]
        BY <2>1, <3>1 DEF RunStages
      <4>4. QED BY <2>1, <4>1, <4>2, <4>3, SendStep
    <3>2. CASE stage' = [stage EXCEPT ![u] = "done"] /\ UNCHANGED <<overlay, inbox>>
      BY <2>3, <3>2 DEF RunStages
    <3>3. \/ /\ current = u /\ Pipeline!Send("DETECTED", u)
             /\ stage' = [stage EXCEPT ![u] = "searching"]
          \/ stage' = [stage EXCEPT ![u] = "done"] /\ UNCHANGED <<overlay, inbox>>
      BY <2>5, Zenon DEF Pipeline!Detect, Pipeline!IsCurrentRun
    <3>4. QED BY <3>1, <3>2, <3>3
  <2>6. CASE Pipeline!Search(u)
    <3>1. CASE stage' = [stage EXCEPT ![u] = "generating"] /\ UNCHANGED <<overlay, inbox>>
      BY <2>3, <2>6, <3>1 DEF RunStages, Pipeline!Search
    <3>2. QED BY <2>4, <2>6, <3>1 DEF Pipeline!Search, Pipeline!IsCurrentRun
  <2>7. CASE Pipeline!Generate(u)
    <3>1. CASE current = u
      <4> DEFINE m == [type |-> "RESPONSE", of |-> u]
      <4>1. /\ m \in Pipeline!Message /\ m.type = "RESPONSE" /\ m.of = u
            /\ overlay' = Pipeline!OverlayReducer(overlay, m) /\ inbox' = Append(inbox, m)
        BY <2>2, <2>7, <3>1
           DEF Pipeline!Generate, Pipeline!IsCurrentRun, Pipeline!Send
      <4> HIDE DEF m
      <4>2. Showing(u, Len(inbox) + 1)
        BY <2>7, <3>1 DEF Pipeline!Generate, AnswersInv, Answers
      <4>3. stage' \in [Voiced -> RunStages] /\ stage'[u] = "done"
        BY <2>1, <2>7 DEF RunStages, Pipeline!Generate
      <4>4. \A w \in Voiced : current' = w => stage'[w] = "done"
        BY <2>1, <3>1, <4>3
      <4>5. QED BY <2>1, <4>1, <4>2, <4>3, <4>4, SendStep
    <3>2. CASE current # u
      BY <2>4, <2>7, <3>2 DEF Pipeline!Generate, Pipeline!IsCurrentRun
    <3>3. QED BY <3>1, <3>2
  <2>8. CASE Pipeline!RunFails(u)
    BY <2>3, <2>8 DEF Pipeline!RunFails, RunStages
  <2>9. QED BY <1>4, <2>5, <2>6, <2>7, <2>8
<1>5. QED BY <1>1, <1>2, <1>3, <1>4 DEF Pipeline!PipelineStep

\* The call, its client and its transcripts.
LEMMA AnswersNext ==
  ASSUME AnswersInv, None \notin Voiced, [LiveNext]_(liveVars)
  PROVE  AnswersInv'
<1>1. /\ stage \in [Voiced -> RunStages] /\ asked \in Voiced \cup {None}
      /\ writing \in Seq(Voiced)
  BY DEF AnswersInv, PipelineTyped
<1>2. ASSUME UNCHANGED <<current, stage, overlay, control, inbox, asked>>,
             writing' \in Seq(Voiced)
      PROVE  AnswersInv'
  BY <1>1, <1>2, RunStep
<1>3. CASE UNCHANGED liveVars
  BY <1>1, <1>2, <1>3 DEF liveVars, callVars, pipeVars
<1>4. CASE Pipe
  BY <1>4, PipelineSteps DEF Pipe, callVars
<1>5. CASE Written
  <2>1. Head(writing) \in Voiced /\ writing' \in Seq(Voiced)
    BY <1>1, <1>5 DEF Written
  <2>2. PICK u \in Voiced : u = Head(writing)
    BY <2>1
  <2>3. /\ UNCHANGED <<overlay, control, inbox, asked>>
        /\ \/ current' = u /\ stage' = [stage EXCEPT ![u] = "detecting"]
           \/ UNCHANGED <<current, stage>>
    BY <1>5, <2>2 DEF Written, Pipeline!HandleTranscript
  <2>4. CASE UNCHANGED <<current, stage>>
    BY <1>2, <2>1, <2>3, <2>4
  <2>5. CASE current' = u /\ stage' = [stage EXCEPT ![u] = "detecting"]
    <3>1. stage' \in [Voiced -> RunStages] /\ stage'[u] = "detecting"
      BY <1>1, <2>5 DEF RunStages
    <3>2. \A w \in Voiced : current' = w => stage'[w] = "detecting"
      BY <2>5, <3>1
    <3>3. QED BY <1>1, <2>1, <2>3, <3>1, <3>2, RunStep
  <2>6. QED BY <2>3, <2>4, <2>5
<1>6. CASE EndLiveCall
  BY <1>1, <1>6, RunStep DEF EndLiveCall
<1>7. ASSUME NEW c \in Clients, NEW n \in Voiced, Transcript(c, n) PROVE AnswersInv'
  <2>1. writing' \in Seq(Voiced)
    BY <1>1, <1>7 DEF Transcript
  <2>2. QED BY <1>2, <1>7, <2>1 DEF Transcript, pipeVars
<1>8. CASE \/ \E c \in Clients : StartCall(c)
           \/ SttStarted \/ StartFails \/ CallStarts \/ CallEnds
           \/ Capture \/ Stt
  <2>1. UNCHANGED <<current, stage, overlay, control, inbox, asked, writing>>
    BY <1>8 DEF StartCall, SttStarted, StartFails, CallStarts,
                CallEnds, Capture, Stt, pipeVars, callVars
  <2>2. QED BY <1>1, <1>2, <2>1
<1>9. QED BY <1>3, <1>4, <1>5, <1>6, <1>7, <1>8 DEF LiveNext

\* An answer is never shown under another objection than its own (isCurrentRun, the two
\* reducers), whatever is said, detected, dismissed or delivered late, and over any calls.
THEOREM AnswersAreUnderTheirObjection ==
  ASSUME LiveAssumption
  PROVE  LiveSpec => []AnswerFitsObjection
<1>1. None \notin Voiced
  BY DEF LiveAssumption, Chunks
<1>2. LiveInit => AnswersInv
  <2> SUFFICES ASSUME LiveInit PROVE AnswersInv
    OBVIOUS
  <2>1. /\ current = None /\ stage = [u \in Voiced |-> "none"]
        /\ overlay = [objection |-> None, response |-> None]
        /\ control = [objection |-> None, response |-> None]
        /\ inbox = <<>> /\ asked = None /\ writing = <<>>
    BY DEF LiveInit, Pipeline!PipelineInit
  <2>2. PipelineTyped
    <3>1. <<>> \in Seq(Pipeline!Message) /\ <<>> \in Seq(Voiced)
      OBVIOUS
    <3>2. [objection |-> None, response |-> None] \in Windows
      BY DEF Windows
    <3>3. stage \in [Voiced -> RunStages]
      BY <2>1 DEF RunStages
    <3>4. QED BY <2>1, <3>1, <3>2, <3>3 DEF PipelineTyped
  <2>3. Len(inbox) = 0 /\ \A u \in Voiced : stage[u] = "none"
    BY <2>1
  <2>4. Answers
    <3>1. overlay.response = None /\ control.response = None
      BY <2>1
    <3>2. 1..Len(inbox) = {}
      BY <2>3
    <3>3. QED BY <2>3, <3>1, <3>2 DEF Answers
  <2>5. QED BY <2>2, <2>4 DEF AnswersInv
<1>3. AnswersInv /\ [LiveNext]_(liveVars) => AnswersInv'
  BY <1>1, AnswersNext
<1>4. AnswersInv => AnswerFitsObjection
  BY DEF AnswersInv, Answers, AnswerFitsObjection, Pipeline!AnswerFitsObjection
<1>5. QED BY <1>2, <1>3, <1>4, PTL DEF LiveSpec

-----------------------------------------------------------------------------
(* The audio of a call. *)

Rises(s) == \A i, j \in 1..Len(s) : i < j => s[i] < s[j]

\* What a client has heard, then what it still buffers, is in the order of capture.
InOrder(c) ==
    /\ Rises(heard[c]) /\ Rises(buffer[c])
    /\ \A i \in 1..Len(heard[c]), j \in 1..Len(buffer[c]) : heard[c][i] < buffer[c][j]
    /\ \A i \in 1..Len(heard[c]) : heard[c][i] <= captured
    /\ \A j \in 1..Len(buffer[c]) : buffer[c][j] <= captured
    /\ conn[c] = "connected" => buffer[c] = <<>>

\* A call has a client, which alone takes its audio; what the client owes after the call it
\* owes until it has stopped.
Belongs ==
    /\ phase \in {"dialing", "opening", "in_call"} => activeStt \in Clients
    /\ phase = "in_call" => callId = activeStt
    /\ \A c \in Clients : buffer[c] # <<>> => phase = "in_call" /\ activeStt = c
    /\ \A c \in Clients : pending[c] # {} =>
          \/ phase = "in_call" /\ activeStt = c /\ link[c] # "down"
          \/ phase = "ending" /\ callId = c /\ c \in stopping
    /\ \A t \in stored : t[1] = t[2]

AudioTyped ==
    /\ captured \in Nat
    /\ conn \in [Clients -> ConnectionState]
    /\ heard \in [Clients -> Seq(Nat)] /\ buffer \in [Clients -> Seq(Nat)]
    /\ pending \in [Clients -> SUBSET Nat]
    /\ link \in [Clients -> {"down", "open", "broken"}]

Audio == AudioTyped /\ Belongs /\ \A c \in Clients : InOrder(c)

\* A buffer that takes the next chunk, and may drop its oldest ones, is still in order.
LEMMA BufferOrder ==
  ASSUME BufferMax \in Nat, NEW b \in Seq(Nat), NEW k \in Nat, Rises(b),
         \A j \in 1..Len(b) : b[j] <= k
  PROVE  LET new == BufferChunk(b, k + 1)
         IN  /\ new \in Seq(Nat) /\ Rises(new)
             /\ \A j \in 1..Len(new) : new[j] <= k + 1
             /\ \A h \in Nat : h <= k /\ (\A j \in 1..Len(b) : h < b[j]) =>
                                  \A j \in 1..Len(new) : h < new[j]
<1> DEFINE all == Append(b, k + 1)
           m == Len(all) - (IF Len(all) > BufferMax THEN BufferMax ELSE Len(all)) + 1
           new == BufferChunk(b, k + 1)
<1>1. all \in Seq(Nat) /\ Len(all) = Len(b) + 1 /\ Len(b) \in Nat
      /\ all[Len(b) + 1] = k + 1 /\ \A j \in 1..Len(b) : all[j] = b[j] /\ b[j] \in Nat
  OBVIOUS
<1>2. new = SubSeq(all, m, Len(all))
  BY DEF BufferChunk
<1> HIDE DEF all, new
<1>3. m \in 1..(Len(all) + 1)
  <2>1. CASE Len(all) > BufferMax
    BY <1>1, <2>1
  <2>2. CASE ~(Len(all) > BufferMax)
    BY <1>1, <2>2
  <2>3. QED BY <2>1, <2>2
<1> HIDE DEF m
<1>4. \A i \in m..Len(all) : all[i] \in Nat
  BY <1>1, <1>3
<1>5. /\ new \in Seq(Nat) /\ Len(new) = Len(all) - m + 1
      /\ \A i \in 1..Len(new) : new[i] = all[m + i - 1]
  <2>1. m \in Int /\ Len(all) \in Int
    BY <1>1, <1>3
  <2>2. new \in Seq(Nat) /\ Len(new) = (IF m <= Len(all) THEN Len(all) - m + 1 ELSE 0)
        /\ \A i \in 1..(Len(all) - m + 1) : new[i] = all[m + i - 1]
    BY <1>2, <1>4, <2>1, SubSeqProperties
  <2>3. Len(new) = Len(all) - m + 1
    BY <1>1, <1>3, <2>2
  <2>4. QED BY <2>2, <2>3
<1>6. \A i, j \in 1..Len(all) : i < j => all[i] < all[j]
  <2> SUFFICES ASSUME NEW i \in 1..Len(all), NEW j \in 1..Len(all), i < j
               PROVE  all[i] < all[j]
    OBVIOUS
  <2>1. i \in 1..Len(b) /\ all[i] = b[i] /\ b[i] \in Nat
    BY <1>1
  <2>2. CASE j \in 1..Len(b)
    <3>1. all[j] = b[j] /\ b[i] < b[j]
      BY <1>1, <2>1, <2>2 DEF Rises
    <3>2. QED BY <2>1, <3>1
  <2>3. CASE j = Len(b) + 1
    <3>1. all[j] = k + 1 /\ b[i] <= k
      BY <1>1, <2>1, <2>3
    <3>2. QED BY <2>1, <3>1
  <2>4. j \in 1..Len(b) \/ j = Len(b) + 1
    <3>1. j \in Nat /\ 1 <= j /\ j <= Len(b) + 1
      BY <1>1
    <3>2. Len(b) \in Nat
      BY <1>1
    <3>3. QED BY <3>1, <3>2
  <2>5. QED BY <2>2, <2>3, <2>4
<1>7. \A i \in 1..Len(new) : m + i - 1 \in 1..Len(all)
  BY <1>1, <1>3, <1>5
<1>8. Rises(new)
  <2> SUFFICES ASSUME NEW i \in 1..Len(new), NEW j \in 1..Len(new), i < j
               PROVE  new[i] < new[j]
    BY DEF Rises
  <2>1. m + i - 1 < m + j - 1 /\ m + i - 1 \in 1..Len(all) /\ m + j - 1 \in 1..Len(all)
    BY <1>1, <1>3, <1>5, <1>7
  <2>2. all[m + i - 1] < all[m + j - 1]
    BY <1>6, <2>1
  <2>3. QED BY <1>5, <2>2
<1>9. \A j \in 1..Len(new) : new[j] <= k + 1
  <2>1. \A i \in 1..Len(all) : all[i] <= k + 1
    <3> TAKE i \in 1..Len(all)
    <3>1. CASE i \in 1..Len(b)
      <4>1. all[i] = b[i] /\ b[i] \in Nat /\ b[i] <= k
        BY <1>1, <3>1
      <4>2. QED BY <4>1
    <3>2. CASE i = Len(b) + 1
      BY <1>1, <3>2
    <3>3. QED BY <1>1, <3>1, <3>2
  <2>2. QED BY <1>5, <1>7, <2>1
<1>10. ASSUME NEW h \in Nat, h <= k, \A j \in 1..Len(b) : h < b[j], NEW j \in 1..Len(new)
       PROVE  h < new[j]
  <2>1. \A i \in 1..Len(all) : h < all[i]
    <3> TAKE i \in 1..Len(all)
    <3>1. CASE i \in 1..Len(b)
      BY <1>1, <1>10, <3>1
    <3>2. CASE i = Len(b) + 1
      BY <1>1, <1>10, <3>2
    <3>3. QED BY <1>1, <3>1, <3>2
  <2>2. QED BY <1>5, <1>7, <2>1
<1>11. QED BY <1>5, <1>8, <1>9, <1>10 DEF new

\* A step that takes no audio: a buffer stays, loses its oldest chunk, or is cleared.
LEMMA InOrderKept ==
  ASSUME AudioTyped, NEW c \in Clients, InOrder(c), UNCHANGED captured, heard'[c] = heard[c],
         \/ buffer'[c] = buffer[c]
            /\ (conn'[c] = "connected" => conn[c] = "connected" \/ buffer[c] = <<>>)
         \/ buffer'[c] = <<>>
         \/ buffer[c] # <<>> /\ buffer'[c] = Tail(buffer[c]) /\ conn'[c] # "connected"
  PROVE  InOrder(c)'
<1>1. heard[c] \in Seq(Nat) /\ buffer[c] \in Seq(Nat)
  BY DEF AudioTyped
<1>2. CASE buffer'[c] = buffer[c]
  BY <1>2 DEF InOrder
<1>3. CASE buffer'[c] = <<>>
  BY <1>3 DEF InOrder, Rises
<1>4. CASE buffer[c] # <<>> /\ buffer'[c] = Tail(buffer[c]) /\ conn'[c] # "connected"
  <2>1. Len(buffer'[c]) = Len(buffer[c]) - 1 /\ Len(buffer[c]) \in Nat
        /\ \A i \in 1..Len(buffer'[c]) : buffer'[c][i] = buffer[c][i + 1]
    BY <1>1, <1>4
  <2>2. QED BY <1>1, <1>4, <2>1 DEF InOrder, Rises
<1>5. QED BY <1>2, <1>3, <1>4

\* A step that takes no audio and leaves the call alone.
LEMMA BelongsKept ==
  ASSUME Belongs, UNCHANGED <<phase, activeStt, callId, stored>>,
         \A d \in Clients : buffer'[d] # <<>> => buffer[d] # <<>>,
         \A d \in Clients : pending'[d] # {} =>
             /\ pending[d] # {} /\ (link[d] # "down" => link'[d] # "down")
             /\ d \in stopping => d \in stopping'
  PROVE  Belongs'
  BY DEF Belongs

\* reconnect() leaves the client reconnecting or failed.
LEMMA ReconnectStep ==
  ASSUME AudioTyped, NEW c \in Clients, NEW made, Reconnect(c, made)
  PROVE  \E s \in {"reconnecting", "failed"} : conn' = [conn EXCEPT ![c] = s]
  BY DEF Reconnect

\* One client changes without taking audio.
LEMMA ClientStep ==
  ASSUME Audio, NEW c \in Clients, UNCHANGED <<phase, activeStt, callId, stored, captured, heard>>,
         NEW s \in ConnectionState, conn' = [conn EXCEPT ![c] = s],
         NEW b \in {buffer[c], <<>>, Tail(buffer[c])}, buffer' = [buffer EXCEPT ![c] = b],
         b # <<>> => buffer[c] # <<>>,
         NEW l \in {"down", "open", "broken"}, link' = [link EXCEPT ![c] = l],
         NEW p \in {pending[c], {}}, pending' = [pending EXCEPT ![c] = p],
         p # {} => stopping' = stopping /\ (link[c] # "down" => l # "down"),
         s = "connected" => b = <<>> \/ (b = buffer[c] /\ conn[c] = "connected"),
         stopping \ {c} \subseteq stopping'
  PROVE  Audio'
<1> USE DEF Audio
<1>1. AudioTyped'
  <2>1. b \in Seq(Nat)
    <3>1. buffer[c] \in Seq(Nat)
      BY DEF AudioTyped
    <3>2. CASE b = <<>>
      BY <3>2
    <3>3. CASE b # <<>>
      <4>1. buffer[c] # <<>> /\ (b = buffer[c] \/ b = Tail(buffer[c]))
        BY <3>3
      <4>2. Tail(buffer[c]) \in Seq(Nat)
        BY <3>1, <4>1, HeadTailProperties
      <4>3. QED BY <3>1, <4>1, <4>2
    <3>4. QED BY <3>2, <3>3
  <2>2. p \in SUBSET Nat
    BY DEF AudioTyped
  <2>3. QED BY <2>1, <2>2 DEF AudioTyped
<1>2. \A d \in Clients : InOrder(d)'
  <2>1. /\ conn'[c] = s /\ buffer'[c] = b
        /\ \A d \in Clients \ {c} : conn'[d] = conn[d] /\ buffer'[d] = buffer[d]
    BY DEF AudioTyped
  <2>2. InOrder(c)'
    BY <2>1, InOrderKept
  <2>3. \A d \in Clients \ {c} : InOrder(d)'
    BY <2>1, InOrderKept
  <2>4. QED BY <2>2, <2>3
<1>3. Belongs'
  <2>1. /\ buffer'[c] = b /\ pending'[c] = p /\ link'[c] = l
        /\ \A d \in Clients \ {c} :
             buffer'[d] = buffer[d] /\ pending'[d] = pending[d] /\ link'[d] = link[d]
    BY DEF AudioTyped
  <2>2. QED BY <2>1, BelongsKept
<1>4. QED BY <1>1, <1>2, <1>3

\* An event of the client that takes no audio.
LEMMA QuietStt ==
  ASSUME Audio, NEW c \in Clients, UNCHANGED <<phase, activeStt, callId, stored, captured>>,
         \/ Wake(c) \/ ConnectedToBroken(c) \/ ConnectFails(c)
         \/ LinkLost(c) \/ HelperFails(c) \/ Disconnected(c)
  PROVE  Audio'
<1> USE DEF Audio
<1>1. /\ conn[c] \in ConnectionState /\ conn = [conn EXCEPT ![c] = conn[c]]
      /\ buffer = [buffer EXCEPT ![c] = buffer[c]]
      /\ link[c] \in {"down", "open", "broken"} /\ link = [link EXCEPT ![c] = link[c]]
      /\ pending = [pending EXCEPT ![c] = pending[c]]
      /\ conn[c] = "connected" => buffer[c] = <<>>
      /\ buffer[c] \in Seq(Nat)
  BY DEF AudioTyped, InOrder
<1>2. CASE Wake(c)
  BY ClientStep, <1>1, <1>2 DEF Wake, StartClient, ConnectionState
<1>3. CASE ConnectedToBroken(c)
  <2>1. CASE buffer[c] = <<>>
    BY ClientStep, <1>1, <1>3, <2>1 DEF ConnectedToBroken, ConnectionState
  <2>2. CASE buffer[c] # <<>>
    <3>1. PICK s \in {"reconnecting", "failed"} : conn' = [conn EXCEPT ![c] = s]
      BY <1>3, <2>2, ReconnectStep DEF ConnectedToBroken
    <3>2. QED BY ClientStep, <1>1, <1>3, <2>2, <3>1 DEF ConnectedToBroken, ConnectionState
  <2>3. QED BY <2>1, <2>2
<1>4. CASE ConnectFails(c)
  <2>1. PICK s \in {"reconnecting", "failed"} : conn' = [conn EXCEPT ![c] = s]
    BY <1>4, ReconnectStep DEF ConnectFails
  <2>2. QED BY ClientStep, <1>1, <1>4, <2>1 DEF ConnectFails, ConnectionState
<1>5. CASE LinkLost(c)
  BY ClientStep, <1>1, <1>5 DEF LinkLost
<1>6. CASE HelperFails(c)
  BY ClientStep, <1>1, <1>6 DEF HelperFails
<1>7. CASE Disconnected(c)
  BY ClientStep, <1>1, <1>7 DEF Disconnected, ConnectionState
<1>8. QED BY <1>2, <1>3, <1>4, <1>5, <1>6, <1>7

\* Two parts in order, the first before the second, are in order together.
LEMMA OrderJoined ==
  ASSUME NEW h \in Seq(Nat), NEW b \in Seq(Nat), NEW k \in Nat, Rises(h), Rises(b),
         \A i \in 1..Len(h), j \in 1..Len(b) : h[i] < b[j],
         \A i \in 1..Len(h) : h[i] <= k, \A j \in 1..Len(b) : b[j] <= k
  PROVE  Rises(h \o b) /\ \A i \in 1..Len(h \o b) : (h \o b)[i] <= k
<1> DEFINE all == h \o b
<1>1. /\ Len(all) = Len(h) + Len(b) /\ Len(h) \in Nat /\ Len(b) \in Nat
      /\ \A i \in 1..Len(h) : all[i] = h[i]
      /\ \A i \in (Len(h) + 1)..Len(all) : i - Len(h) \in 1..Len(b) /\ all[i] = b[i - Len(h)]
  OBVIOUS
<1> HIDE DEF all
<1>2. \A i \in 1..Len(all) : i \in 1..Len(h) \/ i \in (Len(h) + 1)..Len(all)
  <2>1. Len(all) \in Nat /\ Len(h) \in Nat
    BY <1>1
  <2>2. QED BY <2>1
<1>3. ASSUME NEW i \in 1..Len(all) PROVE all[i] <= k
  <2>1. CASE i \in 1..Len(h)
    BY <1>1, <2>1
  <2>2. CASE i \in (Len(h) + 1)..Len(all)
    BY <1>1, <2>2
  <2>3. QED BY <1>2, <2>1, <2>2
<1>4. ASSUME NEW i \in 1..Len(all), NEW j \in 1..Len(all), i < j PROVE all[i] < all[j]
  <2>1. CASE j \in 1..Len(h)
    <3>1. i \in 1..Len(h)
      BY <1>1, <1>4, <2>1
    <3>2. all[i] = h[i] /\ all[j] = h[j]
      BY <1>1, <2>1, <3>1
    <3>3. QED BY <1>4, <2>1, <3>1, <3>2 DEF Rises
  <2>2. CASE j \in (Len(h) + 1)..Len(all) /\ i \in 1..Len(h)
    BY <1>1, <2>2
  <2>3. CASE j \in (Len(h) + 1)..Len(all) /\ i \in (Len(h) + 1)..Len(all)
    <3>1. /\ i - Len(h) \in 1..Len(b) /\ j - Len(h) \in 1..Len(b) /\ i - Len(h) < j - Len(h)
          /\ all[i] = b[i - Len(h)] /\ all[j] = b[j - Len(h)]
      BY <1>1, <1>4, <2>3
    <3>2. QED BY <3>1 DEF Rises
  <2>4. QED BY <1>2, <2>1, <2>2, <2>3
<1>5. QED BY <1>3, <1>4 DEF Rises, all

\* Time goes on: a client that takes nothing stays in order.
LEMMA InOrderLater ==
  ASSUME AudioTyped, NEW d \in Clients, InOrder(d), captured' \in Nat, captured <= captured',
         heard'[d] = heard[d], buffer'[d] = buffer[d], conn'[d] = conn[d]
  PROVE  InOrder(d)'
<1>1. heard[d] \in Seq(Nat) /\ buffer[d] \in Seq(Nat) /\ captured \in Nat
  BY DEF AudioTyped
<1>2. /\ \A i \in 1..Len(heard[d]) : heard[d][i] \in Nat /\ heard[d][i] <= captured
      /\ \A j \in 1..Len(buffer[d]) : buffer[d][j] \in Nat /\ buffer[d][j] <= captured
  <2>1. /\ \A i \in 1..Len(heard[d]) : heard[d][i] \in Nat
        /\ \A j \in 1..Len(buffer[d]) : buffer[d][j] \in Nat
    BY <1>1
  <2>2. QED BY <2>1 DEF InOrder
<1>3. /\ \A i \in 1..Len(heard[d]) : heard[d][i] <= captured'
      /\ \A j \in 1..Len(buffer[d]) : buffer[d][j] <= captured'
  BY <1>1, <1>2
<1>4. QED BY <1>3 DEF InOrder

\* A connection is made and the buffer flushed.
LEMMA ConnectedStep ==
  ASSUME Audio, NEW c \in Clients, Connected(c),
         UNCHANGED <<phase, activeStt, callId, stored, captured>>
  PROVE  Audio'
<1> USE DEF Audio
<1>1. /\ conn' = [conn EXCEPT ![c] = "connected"] /\ buffer' = [buffer EXCEPT ![c] = <<>>]
      /\ link' = [link EXCEPT ![c] = "open"] /\ UNCHANGED stopping
      /\ "connected" \in ConnectionState
  BY DEF Connected, ConnectionState
<1>2. CASE UNCHANGED <<heard, pending>>
  <2>1. pending' = [pending EXCEPT ![c] = pending[c]]
    BY <1>2 DEF AudioTyped
  <2>2. QED BY <1>1, <1>2, <2>1, ClientStep
<1>3. CASE /\ heard' = [heard EXCEPT ![c] = @ \o buffer[c]]
           /\ pending' = [pending EXCEPT ![c] = @ \cup ToSet(buffer[c])]
  <2>1. heard[c] \in Seq(Nat) /\ buffer[c] \in Seq(Nat) /\ captured \in Nat /\ captured' = captured
    BY DEF AudioTyped
  <2>2. heard[c] \o buffer[c] \in Seq(Nat)
    BY <2>1
  <2>3. ToSet(buffer[c]) \subseteq Nat /\ (buffer[c] = <<>> => ToSet(buffer[c]) = {})
    BY <2>1 DEF ToSet
  <2>4. AudioTyped'
    BY <1>1, <1>3, <2>1, <2>2, <2>3 DEF AudioTyped
  <2>5. /\ heard'[c] = heard[c] \o buffer[c] /\ buffer'[c] = <<>> /\ link'[c] = "open"
        /\ pending'[c] = pending[c] \cup ToSet(buffer[c])
        /\ \A d \in Clients \ {c} :
             /\ heard'[d] = heard[d] /\ buffer'[d] = buffer[d] /\ conn'[d] = conn[d]
             /\ link'[d] = link[d] /\ pending'[d] = pending[d]
    BY <1>1, <1>3 DEF AudioTyped
  <2>6. Rises(heard[c] \o buffer[c])
        /\ \A i \in 1..Len(heard[c] \o buffer[c]) : (heard[c] \o buffer[c])[i] <= captured
    <3>1. /\ Rises(heard[c]) /\ Rises(buffer[c])
          /\ \A i \in 1..Len(heard[c]), j \in 1..Len(buffer[c]) : heard[c][i] < buffer[c][j]
          /\ \A i \in 1..Len(heard[c]) : heard[c][i] <= captured
          /\ \A j \in 1..Len(buffer[c]) : buffer[c][j] <= captured
      BY DEF InOrder
    <3>2. QED BY <2>1, <3>1, OrderJoined
  <2>7. InOrder(c)'
    <3> DEFINE new == heard[c] \o buffer[c]
    <3>1. Rises(new) /\ \A i \in 1..Len(new) : new[i] <= captured
      BY <2>6
    <3>2. heard'[c] = new
      BY <2>5
    <3> HIDE DEF new
    <3>3. QED BY <2>1, <2>5, <3>1, <3>2 DEF InOrder, Rises
  <2>8. \A d \in Clients \ {c} : InOrder(d)'
    BY <2>5, InOrderKept
  <2>9. pending'[c] # {} => pending[c] # {} \/ buffer[c] # <<>>
    BY <2>3, <2>5
  <2>10. Belongs'
    BY <1>1, <2>5, <2>9 DEF Belongs
  <2>11. QED BY <2>4, <2>7, <2>8, <2>10
<1>4. QED BY <1>2, <1>3 DEF Connected, Take

\* A chunk is captured: the provider takes it after all it has taken, or it is buffered.
LEMMA CaptureStep ==
  ASSUME Audio, BufferMax \in Nat, Capture
  PROVE  Audio'
<1> USE DEF Audio
<1> DEFINE n == captured + 1
<1>1. PICK c \in Clients : c = activeStt
  BY DEF Belongs, Capture
<1>2. /\ phase = "in_call" /\ captured' = n /\ captured \in Nat /\ captured' \in Nat
      /\ UNCHANGED <<phase, activeStt, callId, stored, stopping, link>>
      /\ SendAudio(c, n)
  BY <1>1 DEF Capture, SendAudio, AudioTyped
<1>3. heard[c] \in Seq(Nat) /\ buffer[c] \in Seq(Nat) /\ n \in Nat
  BY <1>2 DEF AudioTyped
<1> HIDE DEF n
<1>4. ASSUME NEW s \in ConnectionState \ {"connected"}, conn' = [conn EXCEPT ![c] = s],
             buffer' = [buffer EXCEPT ![c] = BufferChunk(@, n)], UNCHANGED <<heard, pending>>
      PROVE  Audio'
  <2> DEFINE new == BufferChunk(buffer[c], n)
  <2>1. /\ new \in Seq(Nat) /\ Rises(new) /\ \A j \in 1..Len(new) : new[j] <= n
        /\ \A h \in Nat : h <= captured /\ (\A j \in 1..Len(buffer[c]) : h < buffer[c][j]) =>
                             \A j \in 1..Len(new) : h < new[j]
    BY <1>2, <1>3, BufferOrder DEF InOrder, n
  <2> HIDE DEF new
  <2>2. buffer' = [buffer EXCEPT ![c] = new]
    BY <1>4 DEF new
  <2>3. /\ conn'[c] = s /\ buffer'[c] = new
        /\ \A d \in Clients \ {c} : buffer'[d] = buffer[d] /\ conn'[d] = conn[d]
    BY <1>4, <2>2 DEF AudioTyped
  <2>4. AudioTyped'
    BY <1>2, <1>4, <2>1, <2>2 DEF AudioTyped
  <2>5. \A i \in 1..Len(heard[c]) : heard[c][i] \in Nat /\ heard[c][i] <= captured
    BY <1>3 DEF InOrder
  <2>6. \A i \in 1..Len(heard[c]), j \in 1..Len(new) : heard[c][i] < new[j]
    BY <2>1, <2>5 DEF InOrder
  <2>7. \A i \in 1..Len(heard[c]) : heard[c][i] <= n
    BY <1>2, <2>5 DEF n
  <2>8. InOrder(c)'
    BY <1>2, <1>4, <2>1, <2>3, <2>6, <2>7 DEF InOrder, Rises
  <2>9. captured <= captured'
    BY <1>2 DEF n
  <2>10. \A d \in Clients \ {c} : InOrder(d)'
    BY <1>2, <1>4, <2>3, <2>9, InOrderLater
  <2>11. Belongs'
    BY <1>1, <1>2, <1>4, <2>3 DEF Belongs
  <2>12. QED BY <2>4, <2>8, <2>10, <2>11
<1>5. CASE conn[c] # "connected" /\ buffer' = [buffer EXCEPT ![c] = BufferChunk(@, n)]
           /\ UNCHANGED <<conn, heard, pending>>
  <2>1. conn' = [conn EXCEPT ![c] = conn[c]] /\ conn[c] \in ConnectionState \ {"connected"}
    BY <1>5 DEF AudioTyped
  <2>2. QED BY <1>4, <1>5, <2>1
<1>6. CASE buffer' = [buffer EXCEPT ![c] = BufferChunk(@, n)]
           /\ Reconnect(c, attempts[c]) /\ UNCHANGED <<heard, pending>>
  <2>1. PICK s \in {"reconnecting", "failed"} : conn' = [conn EXCEPT ![c] = s]
    BY <1>6, ReconnectStep
  <2>2. s \in ConnectionState \ {"connected"}
    BY DEF ConnectionState
  <2>3. QED BY <1>4, <1>6, <2>1, <2>2
<1>7. CASE conn[c] = "connected" /\ link[c] = "open" /\ Take(c, <<n>>)
           /\ UNCHANGED <<conn, buffer>>
  <2>1. buffer[c] = <<>>
    BY <1>7 DEF InOrder
  <2>2. CASE UNCHANGED <<heard, pending>>
    <3>1. captured <= captured'
      BY <1>2 DEF n
    <3>2. \A d \in Clients : InOrder(d)'
      BY <1>2, <1>7, <2>2, <3>1, InOrderLater
    <3>3. AudioTyped'
      BY <1>2, <1>7, <2>2 DEF AudioTyped
    <3>4. Belongs'
      BY <1>2, <1>7, <2>2 DEF Belongs
    <3>5. QED BY <3>2, <3>3, <3>4
  <2>3. CASE /\ heard' = [heard EXCEPT ![c] = @ \o <<n>>]
             /\ pending' = [pending EXCEPT ![c] = @ \cup ToSet(<<n>>)]
    <3>1. ToSet(<<n>>) \subseteq Nat
      BY <1>3 DEF ToSet
    <3>2. heard[c] \o <<n>> \in Seq(Nat) /\ <<n>> \in Seq(Nat)
      BY <1>3
    <3>3. AudioTyped'
      BY <1>2, <1>7, <2>3, <3>1, <3>2 DEF AudioTyped
    <3>4. /\ heard'[c] = heard[c] \o <<n>>
          /\ \A d \in Clients \ {c} : heard'[d] = heard[d] /\ pending'[d] = pending[d]
      BY <2>3 DEF AudioTyped
    <3>5. /\ \A i \in 1..Len(heard[c]) : heard[c][i] < n
          /\ Len(<<n>>) = 1 /\ <<n>>[1] = n
      BY <1>2, <1>3 DEF InOrder, n
    <3>6. Rises(heard[c] \o <<n>>)
          /\ \A i \in 1..Len(heard[c] \o <<n>>) : (heard[c] \o <<n>>)[i] <= n
      <4>1. /\ Rises(heard[c]) /\ Rises(<<n>>)
            /\ \A i \in 1..Len(heard[c]) : heard[c][i] <= n
            /\ \A i \in 1..Len(heard[c]), j \in 1..Len(<<n>>) : heard[c][i] < <<n>>[j]
            /\ \A j \in 1..Len(<<n>>) : <<n>>[j] <= n
        <5>1. \A i \in 1..Len(heard[c]) : heard[c][i] \in Nat
          BY <1>3
        <5>2. \A i \in 1..Len(heard[c]) : heard[c][i] <= n
          BY <1>3, <3>5, <5>1
        <5>3. Rises(<<n>>) /\ \A j \in 1..Len(<<n>>) : j = 1
          BY <3>5 DEF Rises
        <5>4. Rises(heard[c])
          BY DEF InOrder
        <5>5. QED BY <1>3, <3>5, <5>2, <5>3, <5>4
      <4>2. QED BY <1>3, <3>2, <4>1, OrderJoined
    <3>7. InOrder(c)'
      BY <1>2, <1>7, <2>1, <3>4, <3>6 DEF InOrder, Rises
    <3>8. captured <= captured'
      BY <1>2 DEF n
    <3>9. \A d \in Clients \ {c} : InOrder(d)'
      BY <1>2, <1>7, <3>4, <3>8, InOrderLater
    <3>10. Belongs'
      BY <1>1, <1>2, <1>7, <3>4 DEF Belongs
    <3>11. QED BY <3>3, <3>7, <3>9, <3>10
  <2>4. QED BY <1>7, <2>2, <2>3 DEF Take
<1>8. QED BY <1>2, <1>5, <1>6, <1>7 DEF SendAudio

\* stop(): the buffer is cleared; what is still owed is owed by a client that is stopping.
LEMMA StopStep ==
  ASSUME Audio, NEW c \in Clients, StopSTT(c), phase' = "ending",
         UNCHANGED <<captured, callId, stored>>,
         \A d \in Clients : pending[d] # {} => d = c /\ callId = c /\ link[c] # "down",
         \A d \in Clients : buffer[d] # <<>> => d = c
  PROVE  Audio'
<1> USE DEF Audio
<1>1. /\ buffer' = [buffer EXCEPT ![c] = <<>>] /\ link' = [link EXCEPT ![c] = "down"]
      /\ pending' = [pending EXCEPT ![c] = Owed(c)]
      /\ Owed(c) \in {pending[c], {}} /\ UNCHANGED heard
  BY DEF StopSTT, Owed
<1>2. /\ conn' = conn \/ conn' = [conn EXCEPT ![c] = "disconnected"]
      /\ "disconnected" \in ConnectionState
      /\ link[c] # "down" => stopping' = stopping \cup {c}
  BY DEF StopSTT, ConnectionState
<1>3. AudioTyped'
  <2>1. conn' \in [Clients -> ConnectionState]
    BY <1>2 DEF AudioTyped
  <2>2. pending' \in [Clients -> SUBSET Nat]
    BY <1>1 DEF AudioTyped
  <2>3. buffer' \in [Clients -> Seq(Nat)] /\ link' \in [Clients -> {"down", "open", "broken"}]
    BY <1>1 DEF AudioTyped
  <2>4. QED BY <1>1, <2>1, <2>2, <2>3 DEF AudioTyped
<1>4. /\ buffer'[c] = <<>> /\ pending'[c] \in {pending[c], {}}
      /\ \A d \in Clients \ {c} :
           buffer'[d] = buffer[d] /\ pending'[d] = pending[d] /\ conn'[d] = conn[d]
  BY <1>1, <1>2 DEF AudioTyped
<1>5. \A d \in Clients : InOrder(d)'
  <2>1. InOrder(c)'
    BY <1>1, <1>4, InOrderKept
  <2>2. \A d \in Clients \ {c} : InOrder(d)'
    BY <1>1, <1>4, InOrderKept
  <2>3. QED BY <2>1, <2>2
<1>6. Belongs'
  BY <1>2, <1>4 DEF Belongs
<1>7. QED BY <1>3, <1>5, <1>6

\* The call and its transcripts.
LEMMA AudioNext ==
  ASSUME Audio, BufferMax \in Nat, None \notin Clients, [LiveNext]_(liveVars)
  PROVE  Audio'
<1> USE DEF Audio
<1>1. ASSUME UNCHANGED <<captured, conn, heard, buffer, pending, link, stopping>>, Belongs'
      PROVE  Audio'
  <2>1. AudioTyped'
    BY <1>1 DEF AudioTyped
  <2>2. \A c \in Clients : InOrder(c)'
    BY <1>1, InOrderKept
  <2>3. QED BY <1>1, <2>1, <2>2
<1>2. CASE \/ UNCHANGED liveVars \/ Pipe \/ Written
  <2>1. UNCHANGED <<captured, conn, heard, buffer, pending, link, stopping,
                    phase, activeStt, callId, stored>>
    BY <1>2 DEF liveVars, Pipe, Written, sttVars, callVars
  <2>2. Belongs'
    BY <2>1 DEF Belongs
  <2>3. QED BY <1>1, <2>1, <2>2
<1>3. CASE SttStarted \/ CallStarts
  <2>1. /\ UNCHANGED <<captured, conn, heard, buffer, pending, link, stopping, activeStt, stored>>
        /\ \/ phase = "dialing" /\ phase' = "opening" /\ callId' = callId
           \/ phase = "opening" /\ phase' = "in_call" /\ callId' = activeStt
    BY <1>3 DEF SttStarted, CallStarts, sttVars
  <2>2. Belongs'
    BY <2>1 DEF Belongs
  <2>3. QED BY <1>1, <2>1, <2>2
<1>4. CASE CallEnds
  <2>1. /\ UNCHANGED <<captured, conn, heard, buffer, pending, link, stopping, activeStt, stored>>
        /\ phase = "ending" /\ phase' = "idle" /\ stopping = {}
    BY <1>4 DEF CallEnds, sttVars
  <2>2. Belongs'
    BY <2>1 DEF Belongs
  <2>3. QED BY <1>1, <2>1, <2>2
<1>5. ASSUME NEW c \in Clients, StartCall(c) PROVE Audio'
  <2>1. /\ UNCHANGED <<captured, heard, buffer, pending, link, stopping, callId, stored>>
        /\ phase = "idle" /\ phase' = "dialing" /\ activeStt' = c
        /\ conn' = [conn EXCEPT ![c] = "connecting"]
    BY <1>5 DEF StartCall, StartSTT, StartClient
  <2>2. "connecting" \in ConnectionState
    BY DEF ConnectionState
  <2>3. AudioTyped'
    BY <2>1, <2>2 DEF AudioTyped
  <2>4. \A d \in Clients : conn'[d] = "connected" => conn[d] = "connected"
    BY <2>1 DEF AudioTyped
  <2>5. \A d \in Clients : InOrder(d)'
    BY <2>1, <2>4, InOrderKept
  <2>6. Belongs'
    BY <2>1 DEF Belongs
  <2>7. QED BY <2>3, <2>5, <2>6
<1>6. CASE StartFails
  <2>1. PICK c \in Clients : c = activeStt
    BY <1>6 DEF StartFails, Belongs
  <2>2. /\ StopSTT(c) /\ phase \in {"dialing", "opening"} /\ phase' = "ending"
        /\ UNCHANGED <<captured, callId, stored>>
    BY <1>6, <2>1 DEF StartFails
  <2>3. \A d \in Clients : pending[d] = {} /\ buffer[d] = <<>>
    BY <2>2 DEF Belongs
  <2>4. QED BY <2>2, <2>3, StopStep
<1>7. CASE EndLiveCall
  <2>1. PICK c \in Clients : c = activeStt
    BY <1>7 DEF EndLiveCall, Belongs
  <2>2. /\ StopSTT(c) /\ phase = "in_call" /\ phase' = "ending"
        /\ UNCHANGED <<captured, callId, stored>>
    BY <1>7, <2>1 DEF EndLiveCall
  <2>3. /\ \A d \in Clients : pending[d] # {} => d = c /\ callId = c /\ link[c] # "down"
        /\ \A d \in Clients : buffer[d] # <<>> => d = c
    BY <2>1, <2>2 DEF Belongs
  <2>4. QED BY <2>2, <2>3, StopStep
<1>8. CASE Capture
  BY <1>8, CaptureStep
<1>9. ASSUME NEW c \in Clients, NEW n \in Voiced, Transcript(c, n) PROVE Audio'
  <2>1. /\ UNCHANGED <<captured, conn, heard, buffer, link, stopping, phase, activeStt, callId>>
        /\ n \in pending[c] /\ pending' = [pending EXCEPT ![c] = @ \ {n}]
        /\ stored' = stored \/ (callId # None /\ stored' = stored \cup {<<callId, c, n>>})
    BY <1>9 DEF Transcript, Transcribe
  <2>2. \A d \in Clients : pending'[d] \subseteq pending[d]
    BY <2>1 DEF AudioTyped
  <2>3. callId = c
    BY <2>1 DEF Belongs
  <2>4. \A t \in stored' : t[1] = t[2]
    BY <2>1, <2>3 DEF Belongs
  <2>5. Belongs'
    BY <2>1, <2>2, <2>4 DEF Belongs
  <2>6. AudioTyped'
    BY <2>1 DEF AudioTyped
  <2>7. \A d \in Clients : InOrder(d)'
    BY <2>1, InOrderKept
  <2>8. QED BY <2>5, <2>6, <2>7
<1>10. CASE Stt
  <2>1. UNCHANGED <<phase, activeStt, callId, stored, captured>>
    BY <1>10 DEF Stt, callVars
  <2>2. PICK c \in Clients : SttStep(c) \/ Disconnected(c)
    BY <1>10 DEF Stt
  <2>3. QED BY <2>1, <2>2, ConnectedStep, QuietStt DEF SttStep
<1>11. QED BY <1>2, <1>3, <1>4, <1>5, <1>6, <1>7, <1>8, <1>9, <1>10 DEF LiveNext

\* Audio is heard in the order of capture, and a transcript is stored under the call whose
\* client heard it (sendAudio, bufferChunk, flushBufferedChunks, stop, handleTranscript): for
\* any number of calls and of reconnections, any size of the buffer and any provider.
THEOREM AudioIsOfItsCall ==
  ASSUME SttAssumption, LiveAssumption
  PROVE  LiveSpec => []AudioStaysInItsCall
<1>1. BufferMax \in Nat /\ None \notin Clients
  BY DEF SttAssumption, LiveAssumption
<1>2. LiveInit => Audio
  <2> SUFFICES ASSUME LiveInit PROVE Audio
    OBVIOUS
  <2>1. /\ conn = [c \in Clients |-> "disconnected"] /\ buffer = [c \in Clients |-> <<>>]
        /\ link = [c \in Clients |-> "down"] /\ stopping = {}
        /\ heard = [c \in Clients |-> <<>>] /\ pending = [c \in Clients |-> {}]
        /\ phase = "idle" /\ captured = 0 /\ stored = {}
    BY DEF LiveInit, SttInit
  <2>2. AudioTyped
    BY <2>1 DEF AudioTyped, ConnectionState
  <2>3. Belongs
    BY <2>1 DEF Belongs
  <2>4. \A c \in Clients : InOrder(c)
    BY <2>1 DEF InOrder, Rises
  <2>5. QED BY <2>2, <2>3, <2>4 DEF Audio
<1>3. Audio /\ [LiveNext]_(liveVars) => Audio'
  BY <1>1, AudioNext
<1>4. Audio => AudioStaysInItsCall
  BY DEF Audio, Belongs, InOrder, Rises, AudioStaysInItsCall, AudioHeardInOrder
<1>5. QED BY <1>2, <1>3, <1>4, PTL DEF LiveSpec
=============================================================================
