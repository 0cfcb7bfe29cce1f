--------------------------- MODULE CloudAccounts ---------------------------
(***************************************************************************)
(* The accounts of one organization in the Cloudflare worker: sessions,    *)
(* invitations, password resets, membership status, the delivery of the    *)
(* action tokens by mail, and the audit chain of the tenant in D1.         *)
(*                                                                         *)
(* A request reads what it needs with one statement after the other and    *)
(* ends in one database.batch, which is atomic; requests of other workers  *)
(* run in between.  Everything a batch relies on and does not check again  *)
(* is a value read earlier, kept in the request's record.  Each batch that *)
(* is audited inserts the entry after the chain head it read, and the      *)
(* UNIQUE index on (tenant_id, sequence) rolls it back when somebody else  *)
(* was first.                                                              *)
(*                                                                         *)
(* A user has one membership, so a member is both.  Which role a member    *)
(* gets is fixed: Admins stands for the two administrator roles.  There are *)
(* no times: see Unconsumed for expiry; login lockout is left out.         *)
(***************************************************************************)
EXTENDS Undefined, Naturals, FiniteSets

CONSTANTS
    Members,     \* users with their memberships
    Admins,      \* members with an administrator role
    Seeded,      \* members who exist, with credentials, from the start
    Tokens,      \* ids of action tokens
    Requests,    \* requests being served at the same time
    Modes,       \* AUTH_EMAIL_DELIVERY_MODE: subset of {"email", "manual"}
    MaxAudit,    \* bound: entries of the audit chain
    MaxVersion   \* bound: session_version

ASSUME AccountsAssumption ==
    /\ Admins \subseteq Members /\ Seeded \subseteq Members
    /\ IsFiniteSet(Members)
    /\ Seeded \cap Admins # {}
    /\ None \notin Members \cup Tokens
    /\ Modes \subseteq {"email", "manual"}
    /\ MaxAudit \in Nat \ {0} /\ MaxVersion \in Nat \ {0}

VARIABLES
    status,      \* organization_memberships.status, "absent" if there is no row
    version,     \* auth_credentials.session_version, 0 if there is no row
    mustReset,   \* must_reset_password
    awaited,     \* active_password_reset_token_id
    token,       \* auth_action_tokens with their auth_action_deliveries
    entries,     \* audit_logs: how many entries carry each sequence number
    lastEntry,   \* what the newest entry says
    request,     \* the requests in flight with what they have read
    ended,       \* history: the highest version of a member whose sessions were ended
    overtaken    \* history: members a batch or a logout changed against its own check

accountVars == <<status, version, mustReset, awaited>>
auditVars == <<entries, lastEntry>>
vars == <<accountVars, token, auditVars, request, ended, overtaken>>

Statuses == {"absent", "invited", "active", "disabled"}
AdminOps == {"invite", "reset", "disable", "enable"}
Ops == AdminOps \cup {"logout", "change", "accept", "complete",
                      "accepted", "cancelled", "failed"}
Kinds == {"none", "invited", "accepted", "reset", "completed", "disabled", "enabled",
          "deliveryAccepted", "deliveryCancelled", "deliveryFailed"}

NoToken == [type |-> "none", owner |-> None, state |-> "new", delivery |-> "none"]
Idle == [step |-> "idle", op |-> "none", actor |-> None, member |-> None, token |-> None,
         status |-> "absent", version |-> 0, head |-> 0, tries |-> 0]

\* assertLoginAccountAllowed and assertSessionAccountAllowed.
AccountAllowed(m) == status[m] = "active" /\ version[m] > 0 /\ ~mustReset[m]

\* latestAuditChainHead: the highest sequence number, 0 for an empty chain.
ChainHead ==
    LET used == {n \in 1..MaxAudit : entries[n] > 0}
    IN  IF used = {} THEN 0 ELSE CHOOSE n \in used : \A k \in used : k <= n

\* Mutant: without the UNIQUE index.
SequenceAlwaysFree(r) == request[r].head < MaxAudit
\* The entry that r inserts does not violate audit_logs_tenant_sequence_unique_idx.
SequenceFree(r) == request[r].head < MaxAudit /\ entries[request[r].head + 1] = 0
\* What the hash of an entry covers, as far as the properties tell entries apart.
Entry(r, kind) == [kind |-> kind, member |-> request[r].member]
Append(r, kind) ==
    /\ SequenceFree(r)
    /\ entries' = [entries EXCEPT ![request[r].head + 1] = @ + 1]
    /\ lastEntry' = Entry(r, kind)

\* Expiry needs no state of its own: an expired token is one that nobody uses any more.
Unconsumed(t) == token[t].state = "open"
\* UPDATE auth_action_tokens SET consumed_at ... for the tokens in ts not consumed yet.
Consumed(ts) ==
    [t \in Tokens |-> IF t \in ts /\ Unconsumed(t)
                      THEN [token[t] EXCEPT !.state = "consumed"] ELSE token[t]]
TokensOf(m, types) == {t \in Tokens : token[t].owner = m /\ token[t].type \in types}
NewToken(type, m) == [type |-> type, owner |-> m, state |-> "open", delivery |-> "pending"]
\* Mutant: the older tokens stay valid.
SupersedeNone(t, type, m) ==
    /\ token[t].state = "new"
    /\ token' = [token EXCEPT ![t] = NewToken(type, m)]
\* The older tokens of that type are consumed and t is inserted with a pending delivery.
Supersede(t, type, m) ==
    /\ token[t].state = "new"
    /\ token' = [Consumed(TokensOf(m, {type})) EXCEPT ![t] = NewToken(type, m)]

\* The sessions of m that are out are signed for its version or a lower one.
EndSessions(m) == ended' = [ended EXCEPT ![m] = version[m]]

Init ==
    /\ status = [m \in Members |-> IF m \in Seeded THEN "active" ELSE "absent"]
    /\ version = [m \in Members |-> IF m \in Seeded THEN 1 ELSE 0]
    /\ mustReset = [m \in Members |-> FALSE]
    /\ awaited = [m \in Members |-> None]
    /\ token = [t \in Tokens |-> NoToken]
    /\ entries = [n \in 1..MaxAudit |-> 0]
    /\ lastEntry = [kind |-> "none", member |-> None]
    /\ request = [r \in Requests |-> Idle]
    /\ ended = [m \in Members |-> 0]
    /\ overtaken = {}

At(r, step, op) == request[r].step = step /\ request[r].op = op
Finish(r) == request' = [request EXCEPT ![r] = Idle]

-----------------------------------------------------------------------------
(* Requests of every kind. *)

\* assertAdminCanManageOrganization.
MayManage(m, op) == op \in AdminOps => m \in Admins

\* assertSession, resolveSessionContext and the administrator check of the handler.  A login
\* is not a step: it writes none of this state, and every allowed account may have logged in.
Resolve(r, m, op) ==
    /\ request[r] = Idle
    /\ AccountAllowed(m)
    /\ MayManage(m, op)
    /\ request' = [request EXCEPT ![r] =
                     [Idle EXCEPT !.step = "resolved", !.op = op,
                                  !.actor = IF op \in {"logout", "change", "disable"} THEN m ELSE None,
                                  !.version = IF op = "change" THEN version[m] ELSE 0]]
    /\ UNCHANGED <<accountVars, token, auditVars, ended, overtaken>>

\* The chain head is read after everything else and before the batch.
ReadHead(r) ==
    /\ request[r].step = "read"
    /\ request' = [request EXCEPT ![r].step = "batch", ![r].head = ChainHead]
    /\ UNCHANGED <<accountVars, token, auditVars, ended, overtaken>>

\* An await throws, a batch is rolled back or changes no row, or the worker stops.
Abandon(r) ==
    /\ request[r] # Idle
    /\ Finish(r)
    /\ UNCHANGED <<accountVars, token, auditVars, ended, overtaken>>

-----------------------------------------------------------------------------
(* Logout and change of the password. *)

\* Does the completion of a reset of m wait between its read and its batch?
Completing(m) == \E q \in Requests : request[q].op = "complete" /\ request[q].member = m

\* invalidateSessions, whatever has happened to the account since the session was resolved.
Logout(r) ==
    LET m == request[r].actor IN
    /\ At(r, "resolved", "logout")
    /\ version[m] < MaxVersion
    /\ version' = [version EXCEPT ![m] = @ + 1]
    /\ EndSessions(m)
    /\ overtaken' = IF Completing(m) THEN overtaken \cup {m} ELSE overtaken
    /\ Finish(r)
    /\ UNCHANGED <<status, mustReset, awaited, token, auditVars>>

\* Mutant: without session_version = ? in the WHERE clause.
ChangeUnguarded(r) ==
    LET m == request[r].actor next == request[r].version + 1 IN
    /\ At(r, "resolved", "change")
    /\ ~mustReset[m]
    /\ next <= MaxVersion
    /\ version' = [version EXCEPT ![m] = next]
    /\ EndSessions(m)
    /\ Finish(r)
    /\ UNCHANGED <<status, mustReset, awaited, token, auditVars, overtaken>>

\* changePassword is a compare-and-set on session_version.
ChangePassword(r) ==
    LET m == request[r].actor next == request[r].version + 1 IN
    /\ At(r, "resolved", "change")
    /\ version[m] = request[r].version /\ ~mustReset[m]
    /\ next <= MaxVersion
    /\ version' = [version EXCEPT ![m] = next]
    /\ EndSessions(m)
    /\ Finish(r)
    /\ UNCHANGED <<status, mustReset, awaited, token, auditVars, overtaken>>

-----------------------------------------------------------------------------
(* Invitations. *)

InviteRead(r, u) ==
    /\ At(r, "resolved", "invite")
    /\ status[u] \notin {"active", "disabled"} /\ version[u] = 0
    /\ request' = [request EXCEPT ![r].step = "read", ![r].member = u, ![r].status = status[u]]
    /\ UNCHANGED <<accountVars, token, auditVars, ended, overtaken>>

\* An existing membership is set to invited whatever it has become; a new one must not
\* collide with the unique user of another.
CreateInvitation(r, t) ==
    LET u == request[r].member IN
    /\ At(r, "batch", "invite")
    /\ request[r].status = "absent" => status[u] = "absent"
    /\ status' = [status EXCEPT ![u] = "invited"]
    /\ Supersede(t, "invite", u)
    /\ Append(r, "invited")
    /\ request' = [request EXCEPT ![r].step = "send", ![r].token = t, ![r].status = "absent",
                                  ![r].head = 0]
    /\ overtaken' = IF status[u] \in {"absent", "invited"} /\ version[u] = 0
                    THEN overtaken ELSE overtaken \cup {u}
    /\ UNCHANGED <<version, mustReset, awaited, ended>>

\* findActionToken and assertUsableActionToken find the token usable.
Usable(t, type) == token[t].type = type /\ Unconsumed(t)

\* The message may have left, or the answer
\* with the token, while the request that issued it still waits.
AcceptRead(r, t) ==
    LET u == token[t].owner IN
    /\ request[r] = Idle
    /\ Usable(t, "invite")
    /\ status[u] = "invited" /\ version[u] = 0
    /\ request' = [request EXCEPT ![r] = [Idle EXCEPT !.step = "read", !.op = "accept",
                                                      !.member = u, !.token = t]]
    /\ UNCHANGED <<accountVars, token, auditVars, ended, overtaken>>

\* Mutant: without consumed_at IS NULL.
ClaimAgain(r) == token' = Consumed({request[r].token})
\* consumeActionTokenStatement: the expiry is compared with the time of the first check.
Claim(r) ==
    /\ Unconsumed(request[r].token)
    /\ token' = Consumed({request[r].token})

\* insertCredentialStatement: user_id is the key of the table.
InsertCredential(u) == version[u] = 0 /\ version' = [version EXCEPT ![u] = 1]

\* The session is signed for version 1, the one the credential is inserted with.
AcceptInvitation(r) ==
    LET u == request[r].member IN
    /\ At(r, "batch", "accept")
    /\ Claim(r)
    /\ InsertCredential(u)
    /\ status' = [status EXCEPT ![u] = IF @ = "invited" THEN "active" ELSE @]
    /\ Append(r, "accepted")
    /\ Finish(r)
    /\ UNCHANGED <<mustReset, awaited, ended, overtaken>>

-----------------------------------------------------------------------------
(* Password resets. *)

\* findMembershipForAdmin.
HasMembership(u) == status[u] # "absent"

ResetRead(r, u) ==
    /\ At(r, "resolved", "reset")
    /\ HasMembership(u) /\ status[u] = "active" /\ version[u] > 0
    /\ request' = [request EXCEPT ![r].step = "read", ![r].member = u]
    /\ UNCHANGED <<accountVars, token, auditVars, ended, overtaken>>

\* Nothing in the batch looks at the status again.
IssuePasswordReset(r, t) ==
    LET u == request[r].member IN
    /\ At(r, "batch", "reset")
    /\ version[u] < MaxVersion
    /\ Supersede(t, "password_reset", u)
    /\ mustReset' = [mustReset EXCEPT ![u] = TRUE]
    /\ version' = [version EXCEPT ![u] = @ + 1]
    /\ awaited' = [awaited EXCEPT ![u] = t]
    /\ Append(r, "reset")
    /\ EndSessions(u)
    /\ overtaken' = IF status[u] = "active" THEN overtaken ELSE overtaken \cup {u}
    /\ request' = [request EXCEPT ![r].step = "send", ![r].token = t, ![r].head = 0]
    /\ UNCHANGED status

CompleteRead(r, t) ==
    LET u == token[t].owner IN
    /\ request[r] = Idle
    /\ Usable(t, "password_reset")
    /\ status[u] = "active" /\ mustReset[u]
    /\ request' = [request EXCEPT ![r] = [Idle EXCEPT !.step = "read", !.op = "complete",
                                                      !.member = u, !.token = t,
                                                      !.version = version[u]]]
    /\ UNCHANGED <<accountVars, token, auditVars, ended, overtaken>>

\* The WHERE clause of the credential update.
Rotates(r) ==
    LET u == request[r].member IN
    /\ mustReset[u] /\ version[u] = request[r].version /\ awaited[u] = request[r].token

CompletePasswordReset(r) ==
    LET u == request[r].member next == request[r].version + 1 IN
    /\ At(r, "batch", "complete")
    /\ Claim(r)
    /\ Rotates(r)
    /\ next <= MaxVersion
    /\ mustReset' = [mustReset EXCEPT ![u] = FALSE]
    /\ awaited' = [awaited EXCEPT ![u] = None]
    /\ version' = [version EXCEPT ![u] = next]
    /\ Append(r, "completed")
    /\ EndSessions(u)
    /\ Finish(r)
    /\ UNCHANGED <<status, overtaken>>

\* The token is claimed and the entry inserted, but the credential is left as it is; the
\* assertion on the number of changed rows comes after the commit.
CompleteWithoutRotation(r) ==
    /\ At(r, "batch", "complete")
    /\ Claim(r)
    /\ ~Rotates(r)
    /\ Append(r, "completed")
    /\ Finish(r)
    /\ UNCHANGED <<accountVars, ended, overtaken>>

-----------------------------------------------------------------------------
(* Membership status. *)

\* assertMembershipStatusChangeAllowed: nobody disables himself, and an invitation is
\* accepted by the one who was invited.
StatusChangeAllowed(r, u) ==
    /\ request[r].op = "disable" => u # request[r].actor
    /\ request[r].op = "enable" => status[u] # "invited"

StatusRead(r, u) ==
    /\ request[r].step = "resolved" /\ request[r].op \in {"disable", "enable"}
    /\ HasMembership(u)
    /\ StatusChangeAllowed(r, u)
    /\ request' = [request EXCEPT ![r].step = "read", ![r].actor = None, ![r].member = u,
                                  ![r].status = status[u],
                                  ![r].version = IF request[r].op = "disable" THEN version[u] ELSE 0]
    /\ UNCHANGED <<accountVars, token, auditVars, ended, overtaken>>

\* Mutant: the last administrator can be disabled.
AnybodyMayLeave(u) == u \in Members
\* The condition on the last active administrator inside the UPDATE.
MayLeave(u) ==
    \/ u \notin Admins
    \/ status[u] # "active"
    \/ Cardinality({a \in Admins : status[a] = "active"}) > 1

\* The credential is updated if there was one when the membership was read.
DisableMembership(r) ==
    LET u == request[r].member
        hasCredential == request[r].version > 0
    IN
    /\ At(r, "batch", "disable")
    /\ status[u] = request[r].status /\ MayLeave(u)
    /\ version[u] < MaxVersion
    /\ status' = [status EXCEPT ![u] = "disabled"]
    /\ token' = Consumed(TokensOf(u, {"invite", "password_reset"}))
    /\ version' = [version EXCEPT ![u] = IF hasCredential THEN @ + 1 ELSE @]
    /\ mustReset' = [mustReset EXCEPT ![u] = @ /\ ~hasCredential]
    /\ awaited' = [awaited EXCEPT ![u] = IF hasCredential THEN None ELSE @]
    /\ ended' = [ended EXCEPT ![u] = IF hasCredential THEN version[u] ELSE @]
    /\ Append(r, "disabled")
    /\ Finish(r)
    /\ UNCHANGED overtaken

EnableMembership(r) ==
    LET u == request[r].member IN
    /\ At(r, "batch", "enable")
    /\ status[u] = request[r].status
    /\ status' = [status EXCEPT ![u] = "active"]
    /\ Append(r, "enabled")
    /\ Finish(r)
    /\ UNCHANGED <<version, mustReset, awaited, token, ended, overtaken>>

-----------------------------------------------------------------------------
(* Delivery of an action token: sendAuthActionEmail. *)

\* assertAuthEmailDeliveryConfigured: the mode a token is delivered in.
Delivers(r, mode) == request[r].step = "send" /\ mode \in Modes

\* The mail service took the message; the chain head is read next.
SendAccepted(r) ==
    /\ Delivers(r, "email")
    /\ request' = [request EXCEPT ![r].step = "batch", ![r].op = "accepted", ![r].head = ChainHead]
    /\ UNCHANGED <<accountVars, token, auditVars, ended, overtaken>>

\* manual_beta: nothing is sent, the administrator gets the token in the end.
SendManually(r) ==
    /\ Delivers(r, "manual")
    /\ request' = [request EXCEPT ![r].step = "batch", ![r].op = "cancelled", ![r].head = ChainHead]
    /\ UNCHANGED <<accountVars, token, auditVars, ended, overtaken>>

DeliveryAccepted(r) ==
    LET t == request[r].token IN
    /\ At(r, "batch", "accepted")
    /\ token[t].delivery = "pending"
    /\ token' = [token EXCEPT ![t].delivery = "accepted"]
    /\ Append(r, "deliveryAccepted")
    /\ Finish(r)
    /\ UNCHANGED <<accountVars, ended, overtaken>>

DeliveryCancelled(r) ==
    LET t == request[r].token IN
    /\ At(r, "batch", "cancelled")
    /\ token[t].delivery = "pending"
    /\ token' = [token EXCEPT ![t].delivery = "cancelled"]
    /\ Append(r, "deliveryCancelled")
    /\ Finish(r)
    /\ UNCHANGED <<accountVars, ended, overtaken>>

\* The mail service reported an error, though the message may have left nevertheless.
\* The compensating batch is not audited: the entry follows on its own.
DeliveryFailed(r) ==
    LET t == request[r].token
        u == request[r].member
        compensated == token[t].type = "password_reset" /\ awaited[u] = t
    IN
    /\ request[r].step = "send" /\ "email" \in Modes
    /\ token[t].delivery = "pending"
    /\ token' = [Consumed({t}) EXCEPT ![t].delivery = "failed"]
    /\ mustReset' = [mustReset EXCEPT ![u] = @ /\ ~compensated]
    /\ awaited' = [awaited EXCEPT ![u] = IF compensated THEN None ELSE @]
    /\ request' = [request EXCEPT ![r].step = "read", ![r].op = "failed", ![r].tries = 1]
    /\ UNCHANGED <<status, version, auditVars, ended, overtaken>>

AuditFailure(r) ==
    /\ At(r, "batch", "failed")
    /\ Append(r, "deliveryFailed")
    /\ Finish(r)
    /\ UNCHANGED <<accountVars, token, ended, overtaken>>

\* Mutant: the attempts are not counted against the limit.
RetryAuditAgain(r) ==
    /\ At(r, "batch", "failed")
    /\ request[r].tries <= 3
    /\ request' = [request EXCEPT ![r].tries = @ + 1, ![r].head = ChainHead]
    /\ UNCHANGED <<accountVars, token, auditVars, ended, overtaken>>

\* The insert threw: the head is read again, AUTH_DELIVERY_AUDIT_RETRY_ATTEMPTS is 3.
RetryAudit(r) ==
    /\ At(r, "batch", "failed")
    /\ request[r].tries < 3
    /\ request' = [request EXCEPT ![r].tries = @ + 1, ![r].head = ChainHead]
    /\ UNCHANGED <<accountVars, token, auditVars, ended, overtaken>>

-----------------------------------------------------------------------------
Sessions(r) ==
    \/ \E m \in Members, op \in AdminOps \cup {"logout", "change"} : Resolve(r, m, op)
    \/ Logout(r) \/ ChangePassword(r)

Invitations(r) ==
    \/ \E u \in Members : InviteRead(r, u)
    \/ \E t \in Tokens : CreateInvitation(r, t) \/ AcceptRead(r, t)
    \/ AcceptInvitation(r)

Resets(r) ==
    \/ \E u \in Members : ResetRead(r, u)
    \/ \E t \in Tokens : IssuePasswordReset(r, t) \/ CompleteRead(r, t)
    \/ CompletePasswordReset(r) \/ CompleteWithoutRotation(r)

Memberships(r) ==
    \/ \E u \in Members : StatusRead(r, u)
    \/ DisableMembership(r) \/ EnableMembership(r)

Deliveries(r) ==
    \/ SendAccepted(r) \/ SendManually(r)
    \/ DeliveryAccepted(r) \/ DeliveryCancelled(r)
    \/ DeliveryFailed(r) \/ AuditFailure(r) \/ RetryAudit(r)

Next ==
    \E r \in Requests :
        \/ ReadHead(r) \/ Abandon(r)
        \/ Sessions(r) \/ Invitations(r) \/ Resets(r) \/ Memberships(r) \/ Deliveries(r)

Spec == Init /\ [][Next]_vars

-----------------------------------------------------------------------------
(* Properties. *)

\* Every variable has its type.
TypeOK ==
    /\ status \in [Members -> Statuses]
    /\ version \in [Members -> 0..MaxVersion]
    /\ mustReset \in [Members -> BOOLEAN]
    /\ awaited \in [Members -> Tokens \cup {None}]
    /\ token \in [Tokens -> [type : {"none", "invite", "password_reset"},
                             owner : Members \cup {None},
                             state : {"new", "open", "consumed"},
                             delivery : {"none", "pending", "accepted", "failed", "cancelled"}]]
    /\ entries \in [1..MaxAudit -> Nat]
    /\ lastEntry \in [kind : Kinds, member : Members \cup {None}]
    /\ request \in [Requests -> [step : {"idle", "resolved", "read", "batch", "send"},
                                 op : Ops \cup {"none"}, actor : Members \cup {None},
                                 member : Members \cup {None}, token : Tokens \cup {None},
                                 status : Statuses, version : 0..MaxVersion,
                                 head : 0..MaxAudit, tries : 0..3]]
    /\ ended \in [Members -> 0..MaxVersion]
    /\ overtaken \subseteq Members

\* Although every request reads the head of the chain some time before it appends to it,
\* the tenant's audit chain has no fork and no gap: the sequence numbers up to its head
\* are used by one entry each, and no others are.
ChainIsLinear ==
    \E n \in 0..MaxAudit : \A k \in 1..MaxAudit : entries[k] = IF k <= n THEN 1 ELSE 0

\* Two administrators who disable each other, one of them with a session resolved before
\* it was ended, never leave the organization without an active administrator; only an
\* invitation that overtakes its own check can (see IssuedAsChecked).
ActiveAdminRemains ==
    \/ \E a \in Admins : status[a] = "active"
    \/ overtaken \cap Admins # {}

\* A token that can still be claimed is the one its account waits for: an invitation of a
\* member who is invited, the only reset of an active member who must reset.  And a
\* member who must reset is waiting for a token not used up.  The members left out are
\* those of IssuedAsChecked, and those logged out between the check and the batch of the
\* completion of their reset.
TokensMatchAccounts ==
    /\ \A t \in Tokens : Unconsumed(t) /\ token[t].owner \notin overtaken =>
        LET u == token[t].owner IN
        /\ token[t].type = "invite" =>
            /\ status[u] = "invited"
            /\ \A k \in TokensOf(u, {"invite"}) : Unconsumed(k) => k = t
        /\ token[t].type = "password_reset" =>
            status[u] = "active" /\ mustReset[u] /\ awaited[u] = t
    /\ \A m \in Members \ overtaken : mustReset[m] =>
        awaited[m] # None /\ Unconsumed(awaited[m])

\* Ending the sessions of a member (disabling, a reset, a new password, a logout) is
\* final: no later change of the version, made from a value read before, brings back the
\* version of a session that was ended.
EndedStaysEnded == \A m \in Members : version[m] > 0 => version[m] > ended[m]

\* The audit entry that a reset was completed is true: the same batch gave the member a
\* new password and version and cleared the flag.  The exception is a member who was
\* logged out between the check and the batch of the completion.
CompletedMeansRotated ==
    [][entries' # entries /\ lastEntry'.kind = "completed" =>
          \/ lastEntry'.member \in overtaken
          \/ /\ version'[lastEntry'.member] = version[lastEntry'.member] + 1
             /\ ~mustReset'[lastEntry'.member]]_vars

\* A reset is issued to an active member and an invitation to one who has not accepted
\* any: what the handlers assert (membership_not_active, membership_already_active,
\* membership_disabled) holds when their batch commits.
IssuedAsChecked ==
    [][entries' # entries =>
        /\ lastEntry'.kind = "reset" => status[lastEntry'.member] = "active"
        /\ lastEntry'.kind = "invited" => status[lastEntry'.member] \in {"absent", "invited"}]_vars
=============================================================================
