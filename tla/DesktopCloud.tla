---------------------------- MODULE DesktopCloud ----------------------------
(***************************************************************************)
(* The desktop application as a client of the Worker: the session token it *)
(* keeps, the requests of the settings panel that replace or delete it,    *)
(* and the upload of an audio file with the wait for its job - beside the  *)
(* operations on the local audio files (AudioLibrary), with which they     *)
(* share the process, the audit log and the control window.                *)
(*                                                                         *)
(* The Worker is what the client sees of it: the session version of an     *)
(* account (CloudAccounts has the rest) and the jobs of uploads            *)
(* (CloudUpload).  A token names its account and the version it was signed *)
(* for.  Other devices of the account change its version at any time.      *)
(***************************************************************************)
EXTENDS AudioLibrary

CONSTANTS
    Accounts,
    Jobs,        \* ids of cloud jobs, with the calls they belong to
    MaxVersion   \* bound: session_version

ASSUME CloudAssumption ==
    /\ None \notin Accounts \cup Jobs
    /\ Accounts # {}
    /\ MaxVersion \in Nat \ {0}

VARIABLES
    session,   \* the secret cloudflare_session_token, NoToken if there is none
    shown,     \* cloudflareStatus.authenticated in the control window
    request,   \* per slot: the token its operation holds and the job it waits for
    version,   \* auth_credentials.session_version
    job,       \* the jobs of uploads
    beside     \* history: a login, or a redeemed link, began beside a password change

cloudVars == <<session, shown, request, version, job, beside>>
desktopVars == <<libraryVars, cloudVars>>

NoToken == [account |-> None, version |-> 0]
NoRequest == [token |-> NoToken, job |-> None]
NoJob == [state |-> "none", account |-> None]

DesktopInit ==
    /\ LibraryInit
    /\ session = NoToken /\ shown = FALSE
    /\ request = [o \in Slots |-> NoRequest]
    /\ version = [a \in Accounts |-> 1]
    /\ job = [j \in Jobs |-> NoJob]
    /\ beside = FALSE

Current(a) == [account |-> a, version |-> version[a]]
\* assertSession and resolveSessionContext.
Accepted(token) == token.account \in Accounts /\ token = Current(token.account)
\* The Worker answers a request for j that carries the token: the accounts belong to
\* different organizations.
Served(token, j) == Accepted(token) /\ (j # None => job[j].account = token.account)

Asks(o, kind, step) == op[o].kind = kind /\ op[o].step = step
\* The operation of o starts with the token it read.
Ask(o, kind, step, token) ==
    /\ Start(o, [Idle EXCEPT !.kind = kind, !.step = step])
    /\ request' = [request EXCEPT ![o].token = token]
    /\ UNCHANGED <<index, stored, plaintext, cache, holder, audited, crashes>>
Proceed(o, step) ==
    /\ Goto(o, step)
    /\ UNCHANGED <<index, stored, plaintext, cache, holder, audited, started, crashes>>
Answer(o) ==
    /\ Finished(o)
    /\ request' = [request EXCEPT ![o] = NoRequest]
    /\ UNCHANGED <<index, stored, plaintext, audited, started, crashes>>
\* An answered request hands the client a token.
Hand(o, token) == request' = [request EXCEPT ![o].token = token] /\ Proceed(o, "answered")
Bump(a) ==
    /\ version[a] < MaxVersion
    /\ version' = [version EXCEPT ![a] = @ + 1]

-----------------------------------------------------------------------------
(* The session. *)

Pending(kinds) == \E o \in Slots : op[o].kind \in kinds
\* Mutant: only a logout disables the buttons.
LogoutPending == Pending({"logout"})
\* cloudflareAuthPending disables the buttons; that of the password change does not set it.
AuthPending == Pending({"login", "redeem", "logout"})

\* A login, the first password of an account and its login, or a token from a mail with a
\* new password.
StartLogin(o, kind, a) ==
    /\ ~AuthPending
    /\ Ask(o, kind, "sent", [account |-> a, version |-> 0])
    /\ beside' = (beside \/ Pending({"change"}))
    /\ UNCHANGED <<session, shown, version, job>>
\* The Worker signs for the version it read.
LoginServed(o) ==
    /\ Asks(o, "login", "sent")
    /\ Hand(o, Current(request[o].token.account))
    /\ UNCHANGED <<session, shown, version, job, beside>>
\* acceptInvitation and completePasswordReset set the password and end the older sessions.
RedeemServed(o) ==
    /\ Asks(o, "redeem", "sent")
    /\ LET a == request[o].token.account
       IN  Bump(a) /\ Hand(o, [account |-> a, version |-> version[a] + 1])
    /\ UNCHANGED <<session, shown, job, beside>>

StartChange(o) ==
    /\ shown /\ ~AuthPending
    /\ session # NoToken
    /\ Ask(o, "change", "sent", session)
    /\ UNCHANGED <<session, shown, version, job, beside>>
\* changePassword: UPDATE ... WHERE session_version = the one of the token.
ChangeServed(o) ==
    /\ Asks(o, "change", "sent") /\ Accepted(request[o].token)
    /\ LET a == request[o].token.account
       IN  Bump(a) /\ Hand(o, [account |-> a, version |-> version[a] + 1])
    /\ UNCHANGED <<session, shown, job, beside>>

\* The Worker refuses: wrong password, locked account, used token, ended session, or
\* somebody else's change came first.
AuthRefused(o) ==
    /\ op[o].kind \in {"login", "redeem", "change"} /\ At(o, "sent")
    /\ op[o].kind = "change" => ~Accepted(request[o].token)
    /\ shown' = FALSE
    /\ Answer(o)
    /\ UNCHANGED <<session, version, job, beside>>

\* saveSessionToken, then the window shows the status.
SaveToken(o) ==
    /\ op[o].kind \in {"login", "redeem", "change"} /\ At(o, "answered")
    /\ session' = request[o].token
    /\ shown' = TRUE
    /\ Answer(o)
    /\ UNCHANGED <<version, job, beside>>

StartLogout(o) ==
    /\ shown /\ ~AuthPending
    /\ Ask(o, "logout", "sent", session)
    /\ UNCHANGED <<session, shown, version, job, beside>>
\* invalidateSessions ends every session of the user, the uploads' too.
LogoutServed(o) ==
    /\ Asks(o, "logout", "sent") /\ Accepted(request[o].token)
    /\ Bump(request[o].token.account)
    /\ Proceed(o, "answered")
    /\ UNCHANGED <<session, shown, request, job, beside>>
\* The token is deleted in the end, whether or not the Worker was reached.
ForgetToken(o) ==
    /\ Asks(o, "logout", "sent") \/ Asks(o, "logout", "answered")
    /\ session' = NoToken
    /\ shown' = FALSE
    /\ Answer(o)
    /\ UNCHANGED <<version, job, beside>>

StartStatus(o) ==
    /\ session # NoToken
    /\ Ask(o, "status", "sent", session)
    /\ UNCHANGED <<session, shown, version, job, beside>>
\* Without a token there is nothing to ask: the status, or the change, is refused.
NotConfigured ==
    /\ session = NoToken /\ shown
    /\ shown' = FALSE
    /\ UNCHANGED <<libraryVars, session, request, version, job, beside>>
\* GET /v1/context.
StatusServed(o) ==
    /\ Asks(o, "status", "sent")
    /\ Proceed(o, IF Accepted(request[o].token) THEN "accepted" ELSE "refused")
    /\ UNCHANGED cloudVars
ShowStatus(o) ==
    /\ op[o].kind = "status"
    /\ shown' = At(o, "accepted")
    /\ Answer(o)
    /\ UNCHANGED <<session, version, job, beside>>

\* The request does not come through, or its answer does not, or the token is not saved: the
\* window keeps the status it shows.
AuthFails(o) ==
    /\ op[o].kind \in {"login", "redeem", "change"}
    /\ Answer(o)
    /\ UNCHANGED <<session, shown, version, job, beside>>

-----------------------------------------------------------------------------
(* Uploading an audio file. *)

\* The button is disabled while an upload runs.  The token is read once, for every request.
StartUpload(o) ==
    /\ session # NoToken
    /\ \A q \in Slots : op[q].kind # "upload"
    /\ Ask(o, "upload", "url", session)
    /\ UNCHANGED <<session, shown, version, job, beside>>

UploadUrl(o) ==
    /\ Asks(o, "upload", "url") /\ Served(request[o].token, None)
    /\ Proceed(o, "put")
    /\ UNCHANGED cloudVars
\* The signed URL needs no session: the Worker stores the audio and queues the job.
Put(o, j) ==
    /\ Asks(o, "upload", "put") /\ job[j] = NoJob
    /\ job' = [job EXCEPT ![j] = [state |-> "queued", account |-> request[o].token.account]]
    /\ request' = [request EXCEPT ![o].job = j]
    /\ Proceed(o, "poll")
    /\ UNCHANGED <<session, shown, version, beside>>
\* The job is terminal, or the wait is over after two minutes with the last answer.
Waited(o) ==
    /\ Asks(o, "upload", "poll") /\ Served(request[o].token, request[o].job)
    /\ Proceed(o, "count")
    /\ UNCHANGED cloudVars
\* fetchTranscriptCount: a refusal counts as no segment.
Counted(o) ==
    /\ Asks(o, "upload", "count")
    /\ Proceed(o, "audit")
    /\ UNCHANGED cloudVars
AuditUpload(o) ==
    /\ Asks(o, "upload", "audit")
    /\ audited' = audited \cup {request[o].job}
    /\ Finished(o)
    /\ request' = [request EXCEPT ![o] = NoRequest]
    /\ UNCHANGED <<index, stored, plaintext, started, crashes, session, shown, version, job, beside>>

\* The handler throws the Worker's refusal.
UploadRefused(o) ==
    /\ Asks(o, "upload", "url") \/ Asks(o, "upload", "poll")
    /\ ~Served(request[o].token, request[o].job)
    /\ Answer(o)
    /\ UNCHANGED <<session, shown, version, job, beside>>
\* A request, the audit log or the file fails.  What the Worker has by then stays there.
UploadFails(o) ==
    /\ op[o].kind = "upload"
    /\ Answer(o)
    /\ UNCHANGED <<session, shown, version, job, beside>>

-----------------------------------------------------------------------------
(* The rest of the world. *)

\* A logout, a password change or an administrator elsewhere.
Elsewhere(a) ==
    /\ Bump(a)
    /\ UNCHANGED <<libraryVars, session, shown, request, job, beside>>
JobEnds(j) ==
    /\ job[j].state = "queued"
    /\ \E state \in {"completed", "failed"} : job' = [job EXCEPT ![j].state = state]
    /\ UNCHANGED <<libraryVars, session, shown, request, version, beside>>

\* The application dies.  secretStore.set writes in place: a token that was being saved is
\* the old one, the new one, or not readable.
CloudCrash(p) ==
    LET lost == {o \in Slots : op[o] # Idle /\ Process(o) = p}
        saving == {o \in lost : op[o].kind \in {"login", "redeem", "change"} /\ At(o, "answered")}
    IN  /\ request' = [o \in Slots |-> IF o \in lost THEN NoRequest ELSE request[o]]
        /\ session' \in {session} \cup UNION {{NoToken, request[o].token} : o \in saving}
        /\ shown' = (shown /\ p # Gui)
        /\ UNCHANGED <<version, job, beside>>

SessionStep(o) ==
    \/ \E a \in Accounts, kind \in {"login", "redeem"} : StartLogin(o, kind, a)
    \/ LoginServed(o) \/ RedeemServed(o) \/ AuthRefused(o) \/ SaveToken(o) \/ AuthFails(o)
    \/ StartChange(o) \/ ChangeServed(o)
    \/ StartLogout(o) \/ LogoutServed(o) \/ ForgetToken(o)
    \/ StartStatus(o) \/ StatusServed(o) \/ ShowStatus(o)
UploadStep(o) ==
    \/ StartUpload(o) \/ UploadUrl(o) \/ Waited(o) \/ Counted(o) \/ AuditUpload(o)
    \/ \E j \in Jobs : Put(o, j)
    \/ UploadRefused(o) \/ UploadFails(o)

DesktopNext ==
    \/ LibraryStep /\ UNCHANGED cloudVars
    \/ \E p \in Processes : Crash(p) /\ CloudCrash(p)
    \/ \E o \in Slots : SessionStep(o) \/ UploadStep(o)
    \/ NotConfigured
    \/ \E a \in Accounts : Elsewhere(a)
    \/ \E j \in Jobs : JobEnds(j)

DesktopSpec == DesktopInit /\ [][DesktopNext]_desktopVars

-----------------------------------------------------------------------------
(* Properties. *)

\* The application never puts an older session of an account back over a newer one, whatever
\* answers late, is refused or dies while its token is saved - as long as no login and no
\* redeemed link began beside a password change.
Forward ==
    session # NoToken /\ session'.account = session.account =>
        session'.version >= session.version
SessionGoesForward == [][beside \/ Forward]_desktopVars

\* Does not hold: the button of the password change does not disable the others, and of two
\* answers the older one may be saved last.
EverySessionGoesForward == [][Forward]_desktopVars

\* Does not hold: a password change that overlaps a logout saves its token afterwards.
\* After a logout, with no request under way, the application holds no session.
LoggedOutHoldsNoSession ==
    ~shown /\ (\A o \in Slots : op[o] = Idle) => session = NoToken

\* Does not hold: a failed wait leaves the call of an upload without its audit entry.
\* Every call an ended upload made on the Worker has its import and its consent audited.
UploadedIsAudited ==
    \A j \in Jobs : job[j] # NoJob =>
        j \in audited \/ \E o \in Slots : request[o].job = j

\* Does not hold with two processes: the application writes its own copy of the document
\* back over the command's, and so do two first reads of one process.
\* What an operation listed stays listed.
ListedStaysListed == [][index.assets \subseteq index'.assets]_libraryVars

=============================================================================
