------------------------------ MODULE Updater ------------------------------
(***************************************************************************)
(* UpdateManager: a downloaded update is installed when no call is in      *)
(* progress; otherwise one retry timer is armed.  isInCall and the moments *)
(* of onCallEnded come from the recording session, so each operation takes *)
(* the answer of isInCall as a parameter.  quitAndInstall ends the app.    *)
(***************************************************************************)

VARIABLES
    updateDownloaded,
    pendingRetry,      \* the retry timer is armed
    installed          \* quitAndInstall was called

updaterVars == <<updateDownloaded, pendingRetry, installed>>

UpdaterInit == updateDownloaded = FALSE /\ pendingRetry = FALSE /\ installed = FALSE

UpdaterTypeOK ==
    updateDownloaded \in BOOLEAN /\ pendingRetry \in BOOLEAN /\ installed \in BOOLEAN

\* tryInstall: install and cancel the timer, or make sure that one is armed.
TryInstall(isInCall) ==
    /\ pendingRetry' = isInCall
    /\ installed' = ~isInCall

\* The update-downloaded event of the driver.
OnUpdateDownloaded(isInCall) ==
    /\ ~updateDownloaded
    /\ updateDownloaded' = TRUE
    /\ TryInstall(isInCall)

\* Mutant: the timer fires once and is not armed again.
RetryOnce(isInCall) ==
    /\ pendingRetry
    /\ pendingRetry' = FALSE
    /\ installed' = ~isInCall
    /\ UNCHANGED updateDownloaded

\* The retry timer fires.
Retry(isInCall) ==
    /\ pendingRetry
    /\ TryInstall(isInCall)
    /\ UNCHANGED updateDownloaded

\* onCallEnded: a downloaded update is tried at once.
OnCallEnded(isInCall) ==
    IF updateDownloaded
    THEN TryInstall(isInCall) /\ UNCHANGED updateDownloaded
    ELSE UNCHANGED updaterVars
=============================================================================
