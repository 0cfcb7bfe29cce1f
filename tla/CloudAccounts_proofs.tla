----------------------- MODULE CloudAccounts_proofs -----------------------
(***************************************************************************)
(* Safety of the accounts for every number of members, tokens and requests *)
(* and for any length of the audit chain.                                  *)
(*                                                                         *)
(* IInv is about the chain, the sessions and the administrators.  Matching *)
(* is about the tokens: it needs to know of every request in flight what   *)
(* of the things it has read its batch can still rely on (Knows), and that *)
(* nothing any other request does takes it away (Kept).                    *)
(***************************************************************************)
EXTENDS CloudAccounts, FiniteSetTheorems, TLAPS

\* A request that works on somebody, and a token that was issued, name a member.
Addressed(q) ==
    /\ q.step = "resolved" /\ q.op \in {"logout", "change", "disable"} => q.actor \in Members
    /\ q.step \in {"read", "batch", "send"} => q.member \in Members
WellAddressed ==
    /\ \A r \in Requests : Addressed(request[r])
    /\ \A t \in Tokens : token[t].state # "new" => token[t].owner \in Members

\* The head a request has read was, and stays, the number of an entry.
HeadsExist ==
    \A r \in Requests : request[r].head = 0 \/ entries[request[r].head] > 0

\* Without a credential no session was ever ended.
VersionsGrow ==
    \A m \in Members :
        \/ version[m] = 0 /\ ended[m] = 0
        \/ version[m] > ended[m]

\* The type of the requests, and what their records have to do with the other state.
RequestType ==
    [step : {"idle", "resolved", "read", "batch", "send"}, op : Ops \cup {"none"},
     actor : Members \cup {None}, member : Members \cup {None}, token : Tokens \cup {None},
     status : Statuses, version : 0..MaxVersion, head : 0..MaxAudit, tries : 0..3]
RequestsOK ==
    /\ request \in [Requests -> RequestType]
    /\ \A r \in Requests :
        /\ Addressed(request[r])
        /\ request[r].head = 0 \/ entries[request[r].head] > 0

\* The inductive invariant.  ChainIsLinear needs HeadsExist: the number after a head that
\* exists is free only if nothing was appended since.
IInv ==
    /\ TypeOK
    /\ WellAddressed
    /\ HeadsExist
    /\ ChainIsLinear
    /\ VersionsGrow
    /\ ActiveAdminRemains

-----------------------------------------------------------------------------
(* The audit chain. *)

\* The head of a linear chain is the number of its last entry.
LEMMA HeadOfLinearChain ==
    ASSUME ChainIsLinear
    PROVE  /\ ChainHead \in 0..MaxAudit
           /\ ChainHead = 0 \/ entries[ChainHead] > 0
           /\ \A k \in 1..MaxAudit : entries[k] = IF k <= ChainHead THEN 1 ELSE 0
  <1>1. PICK n \in 0..MaxAudit : \A k \in 1..MaxAudit : entries[k] = IF k <= n THEN 1 ELSE 0
    BY DEF ChainIsLinear
  <1>. DEFINE used == {k \in 1..MaxAudit : entries[k] > 0}
  <1>2. used = 1..n
    BY <1>1, AccountsAssumption
  <1>3. CASE n = 0
    BY <1>1, <1>2, <1>3 DEF ChainHead
  <1>4. CASE n # 0
    <2>1. n \in used /\ \A k \in used : k <= n
      BY <1>2, <1>4
    <2>2. \A h \in used : (\A k \in used : k <= h) => h = n
      BY <1>2, <2>1
    <2>3. ChainHead = n
      BY <2>1, <2>2 DEF ChainHead
    <2>4. QED  BY <1>1, <2>1, <2>3
  <1>5. QED  BY <1>3, <1>4

\* The entry that a batch appends after the head it read extends a linear chain by one:
\* whoever read an older head finds the number taken.
LEMMA AppendExtends ==
    ASSUME TypeOK, HeadsExist, ChainIsLinear, NEW r \in Requests, NEW kind, Append(r, kind)
    PROVE  /\ ChainIsLinear'
           /\ entries' \in [1..MaxAudit -> Nat]
           /\ \A k \in 1..MaxAudit : entries[k] > 0 => entries'[k] > 0
  <1>1. PICK n \in 0..MaxAudit : \A k \in 1..MaxAudit : entries[k] = IF k <= n THEN 1 ELSE 0
    BY DEF ChainIsLinear
  <1>. DEFINE head == request[r].head
  <1>2. head \in 0..MaxAudit /\ head < MaxAudit /\ MaxAudit \in Nat
    BY AccountsAssumption DEF TypeOK, Append, Entry, SequenceFree
  <1>3. head = n
    <2>1. entries[head + 1] = 0
      BY DEF Append, Entry, SequenceFree
    <2>2. head = 0 \/ entries[head] > 0
      BY DEF HeadsExist
    <2>3. QED  BY <1>1, <1>2, <2>1, <2>2
  <1>4. entries' = [entries EXCEPT ![head + 1] = @ + 1] /\ entries \in [1..MaxAudit -> Nat]
    BY DEF Append, Entry, TypeOK
  <1>5. \A k \in 1..MaxAudit : entries'[k] = IF k <= n + 1 THEN 1 ELSE 0
    BY <1>1, <1>2, <1>3, <1>4
  <1>6. n + 1 \in 0..MaxAudit
    BY <1>2, <1>3
  <1>7. ChainIsLinear'
    BY <1>5, <1>6 DEF ChainIsLinear
  <1>. HIDE DEF head
  <1>8. entries' \in [1..MaxAudit -> Nat]
    BY <1>4, <1>2
  <1>9. \A k \in 1..MaxAudit : entries[k] > 0 => entries'[k] > 0
    BY <1>4, <1>2
  <1>10. QED  BY <1>7, <1>8, <1>9

-----------------------------------------------------------------------------
(* Type correctness. *)

\* The actions that only change the record of their request.
Reads(r) ==
    \/ \E m \in Members, op \in AdminOps \cup {"logout", "change"} : Resolve(r, m, op)
    \/ \E u \in Members : InviteRead(r, u) \/ ResetRead(r, u) \/ StatusRead(r, u)
    \/ \E t \in Tokens : AcceptRead(r, t) \/ CompleteRead(r, t)
    \/ ReadHead(r) \/ Abandon(r) \/ SendAccepted(r) \/ SendManually(r) \/ RetryAudit(r)

\* The actions that write.
Writes(r) ==
    \/ Logout(r) \/ ChangePassword(r)
    \/ \E t \in Tokens : CreateInvitation(r, t) \/ IssuePasswordReset(r, t)
    \/ AcceptInvitation(r) \/ CompletePasswordReset(r) \/ CompleteWithoutRotation(r)
    \/ DisableMembership(r) \/ EnableMembership(r)
    \/ DeliveryAccepted(r) \/ DeliveryCancelled(r) \/ DeliveryFailed(r) \/ AuditFailure(r)

\* A reading step changes the record of its request only.
LEMMA ReadsOnly ==
    ASSUME NEW r \in Requests, Reads(r)
    PROVE  UNCHANGED <<accountVars, token, auditVars, ended, overtaken>>
  BY DEF Reads, Resolve, MayManage, InviteRead, ResetRead, StatusRead, StatusChangeAllowed,
         HasMembership, AcceptRead, Usable, CompleteRead,
         ReadHead, Abandon, Delivers, SendAccepted, SendManually, RetryAudit



\* One request moves to a record that is typed, addressed and whose head exists.
LEMMA RequestMoves ==
    ASSUME RequestsOK, NEW r \in Requests, NEW q \in RequestType,
           Addressed(q), q.head = 0 \/ entries'[q.head] > 0,
           \A k \in 1..MaxAudit : entries[k] > 0 => entries'[k] > 0,
           request' = [request EXCEPT ![r] = q]
    PROVE  RequestsOK'
  <1>1. request' \in [Requests -> RequestType]
    BY DEF RequestsOK
  <1>2. \A p \in Requests : request'[p] = IF p = r THEN q ELSE request[p]
    BY DEF RequestsOK
  <1>3. \A p \in Requests : request[p].head \in 0..MaxAudit
    BY DEF RequestsOK, RequestType
  <1>4. \A p \in Requests :
          Addressed(request'[p]) /\ (request'[p].head = 0 \/ entries'[request'[p].head] > 0)
    BY <1>2, <1>3, AccountsAssumption DEF RequestsOK
  <1>5. RequestType' = RequestType /\ \A p : Addressed(p)' = Addressed(p)
    BY DEF RequestType, Addressed
  <1>6. QED  BY <1>1, <1>4 DEF RequestsOK, Addressed, RequestType


\* The record of a request that is not served is one of them.
LEMMA IdleTyped == Idle \in RequestType /\ Addressed(Idle) /\ Idle.head = 0
  <1>1. 0 \in 0..MaxVersion /\ 0 \in 0..MaxAudit /\ "absent" \in Statuses
    BY AccountsAssumption DEF Statuses
  <1>2. QED  BY <1>1 DEF Idle, RequestType, Addressed

\* A reading step leaves the requests typed, addressed to members and their heads existing.
LEMMA ReadsTyped ==
    ASSUME IInv, NEW r \in Requests, Reads(r)
    PROVE  RequestsOK'
  <1>1. UNCHANGED <<accountVars, token, auditVars, ended, overtaken>>
    BY ReadsOnly
  <1>2. ChainHead \in 0..MaxAudit /\ (ChainHead = 0 \/ entries[ChainHead] > 0)
    BY HeadOfLinearChain DEF IInv
  <1>3. RequestsOK
    BY DEF IInv, TypeOK, WellAddressed, HeadsExist, RequestsOK, RequestType
  <1>4. ASSUME NEW q \in RequestType, Addressed(q), q.head = 0 \/ entries[q.head] > 0,
               request' = [request EXCEPT ![r] = q]
        PROVE  RequestsOK'
    BY <1>1, <1>3, <1>4, RequestMoves DEF auditVars
  <1>5. /\ request[r] \in RequestType /\ Addressed(request[r])
        /\ request[r].head = 0 \/ entries[request[r].head] > 0
    BY <1>3 DEF RequestsOK
  <1>6. \A m \in Members : status[m] \in Statuses /\ version[m] \in 0..MaxVersion
    BY DEF IInv, TypeOK
  <1>7. ASSUME NEW m \in Members, NEW op \in AdminOps \cup {"logout", "change"}, Resolve(r, m, op)
        PROVE  RequestsOK'
    <2>. DEFINE a == IF op \in {"logout", "change", "disable"} THEN m ELSE None
                v == IF op = "change" THEN version[m] ELSE 0
                q == [Idle EXCEPT !.step = "resolved", !.op = op, !.actor = a, !.version = v]
    <2>1. a \in Members \cup {None} /\ v \in 0..MaxVersion /\ op \in Ops
      BY <1>6, AccountsAssumption DEF Ops
    <2>2. op \in {"logout", "change", "disable"} => a \in Members
      OBVIOUS
    <2>3. q \in RequestType /\ Addressed(q) /\ q.head = 0
      <3>. HIDE DEF a, v
      <3>1. q \in RequestType /\ q.head = 0
        BY <2>1, IdleTyped DEF RequestType
      <3>2. q.step = "resolved" /\ q.op = op /\ q.actor = a
        BY IdleTyped DEF RequestType
      <3>3. QED  BY <2>2, <3>1, <3>2 DEF Addressed
    <2>4. QED  BY <1>4, <1>7, <2>3 DEF Resolve, MayManage
  <1>8. ASSUME NEW u \in Members, InviteRead(r, u)
        PROVE  RequestsOK'
    <2>. DEFINE q == [request[r] EXCEPT !.step = "read", !.member = u, !.status = status[u]]
    <2>1. q \in RequestType /\ Addressed(q) /\ q.head = request[r].head
      BY <1>5, <1>6 DEF RequestType, Addressed
    <2>2. request' = [request EXCEPT ![r] = q]
      BY <1>3, <1>8 DEF InviteRead
    <2>3. QED  BY <1>4, <1>5, <2>1, <2>2
  <1>9. ASSUME NEW u \in Members, ResetRead(r, u)
        PROVE  RequestsOK'
    <2>. DEFINE q == [request[r] EXCEPT !.step = "read", !.member = u]
    <2>1. q \in RequestType /\ Addressed(q) /\ q.head = request[r].head
      BY <1>5 DEF RequestType, Addressed
    <2>2. request' = [request EXCEPT ![r] = q]
      BY <1>3, <1>9 DEF ResetRead, HasMembership
    <2>3. QED  BY <1>4, <1>5, <2>1, <2>2
  <1>10. ASSUME NEW u \in Members, StatusRead(r, u)
         PROVE  RequestsOK'
    <2>. DEFINE v == IF request[r].op = "disable" THEN version[u] ELSE 0
                q == [request[r] EXCEPT !.step = "read", !.actor = None, !.member = u,
                                        !.status = status[u], !.version = v]
    <2>1. v \in 0..MaxVersion
      BY <1>6, AccountsAssumption
    <2>2. q \in RequestType /\ Addressed(q) /\ q.head = request[r].head
      <3>. HIDE DEF v
      <3>. QED  BY <1>5, <1>6, <2>1 DEF RequestType, Addressed
    <2>3. request' = [request EXCEPT ![r] = q]
      BY <1>3, <1>10 DEF StatusRead, StatusChangeAllowed, HasMembership
    <2>4. QED  BY <1>4, <1>5, <2>2, <2>3
  <1>11. ASSUME NEW t \in Tokens, AcceptRead(r, t) \/ CompleteRead(r, t)
         PROVE  RequestsOK'
    <2>. DEFINE u == token[t].owner
    <2>1. u \in Members
      BY <1>11 DEF AcceptRead, Usable, CompleteRead, Unconsumed, IInv, WellAddressed
    <2>2. CASE AcceptRead(r, t)
      <3>. DEFINE q == [Idle EXCEPT !.step = "read", !.op = "accept", !.member = u, !.token = t]
      <3>1. q \in RequestType /\ Addressed(q) /\ q.head = 0
        BY <2>1, IdleTyped DEF RequestType, Addressed, Ops
      <3>2. QED  BY <1>4, <2>2, <3>1 DEF AcceptRead, Usable
    <2>3. CASE CompleteRead(r, t)
      <3>. DEFINE q == [Idle EXCEPT !.step = "read", !.op = "complete", !.member = u,
                                    !.token = t, !.version = version[u]]
      <3>1. q \in RequestType /\ Addressed(q) /\ q.head = 0
        BY <1>6, <2>1, IdleTyped DEF RequestType, Addressed, Ops
      <3>2. QED  BY <1>4, <2>3, <3>1 DEF CompleteRead, Usable
    <2>4. QED  BY <1>11, <2>2, <2>3
  <1>12. CASE ReadHead(r)
    <2>. DEFINE q == [request[r] EXCEPT !.step = "batch", !.head = ChainHead]
    <2>1. q \in RequestType /\ Addressed(q) /\ q.head = ChainHead
      BY <1>2, <1>5, <1>12 DEF ReadHead, RequestType, Addressed
    <2>2. request' = [request EXCEPT ![r] = q]
      BY <1>3, <1>12 DEF ReadHead
    <2>3. QED  BY <1>2, <1>4, <2>1, <2>2
  <1>13. ASSUME NEW op \in {"accepted", "cancelled"}, request[r].step = "send",
                request' = [request EXCEPT ![r].step = "batch", ![r].op = op, ![r].head = ChainHead]
         PROVE  RequestsOK'
    <2>. DEFINE q == [request[r] EXCEPT !.step = "batch", !.op = op, !.head = ChainHead]
    <2>1. q \in RequestType /\ Addressed(q) /\ q.head = ChainHead
      BY <1>2, <1>5, <1>13 DEF RequestType, Addressed, Ops
    <2>2. request' = [request EXCEPT ![r] = q]
      BY <1>3, <1>13
    <2>3. QED  BY <1>2, <1>4, <2>1, <2>2
  <1>14. CASE SendAccepted(r) \/ SendManually(r)
    BY <1>13, <1>14 DEF Delivers, SendAccepted, SendManually
  <1>15. CASE RetryAudit(r)
    <2>. DEFINE q == [request[r] EXCEPT !.tries = @ + 1, !.head = ChainHead]
    <2>1. q \in RequestType /\ Addressed(q) /\ q.head = ChainHead
      <3>1. request[r].tries + 1 \in 0..3
        BY <1>5, <1>15 DEF RetryAudit, RequestType
      <3>2. QED  BY <1>2, <1>5, <1>15, <3>1 DEF RetryAudit, At, RequestType, Addressed
    <2>2. request' = [request EXCEPT ![r] = q]
      BY <1>3, <1>15 DEF RetryAudit
    <2>3. QED  BY <1>2, <1>4, <2>1, <2>2
  <1>16. CASE Abandon(r)
    BY <1>4, <1>16, IdleTyped DEF Abandon, Finish
  <1>17. QED
    BY <1>7, <1>8, <1>9, <1>10, <1>11, <1>12, <1>14, <1>15, <1>16 DEF Reads

\* A writing step appends to the chain or leaves it alone.
LEMMA WritesChain ==
    ASSUME IInv, NEW r \in Requests, Writes(r)
    PROVE  /\ ChainIsLinear'
           /\ entries' \in [1..MaxAudit -> Nat]
           /\ \A k \in 1..MaxAudit : entries[k] > 0 => entries'[k] > 0
           /\ lastEntry' \in [kind : Kinds, member : Members \cup {None}]
  <1>1. (\E kind \in Kinds : Append(r, kind)) \/ UNCHANGED auditVars
    BY DEF Writes, Logout, ChangePassword, CreateInvitation, IssuePasswordReset,
           AcceptInvitation, InsertCredential, CompletePasswordReset, CompleteWithoutRotation,
           DisableMembership, EnableMembership, DeliveryAccepted, DeliveryCancelled,
           DeliveryFailed, AuditFailure, Kinds
  <1>2. CASE UNCHANGED auditVars
    BY <1>2 DEF IInv, TypeOK, ChainIsLinear, auditVars
  <1>3. ASSUME NEW kind \in Kinds, Append(r, kind)
        PROVE  /\ ChainIsLinear'
               /\ entries' \in [1..MaxAudit -> Nat]
               /\ \A k \in 1..MaxAudit : entries[k] > 0 => entries'[k] > 0
               /\ lastEntry' \in [kind : Kinds, member : Members \cup {None}]
    <2>1. request[r].member \in Members \cup {None}
      BY DEF IInv, TypeOK
    <2>2. lastEntry' \in [kind : Kinds, member : Members \cup {None}]
      BY <1>3, <2>1 DEF Append, Entry
    <2>3. QED  BY <1>3, <2>2, AppendExtends DEF IInv
  <1>4. QED  BY <1>1, <1>2, <1>3

\* A writing step ends its request or hands it on to the delivery.
LEMMA WritesRequest ==
    ASSUME IInv, NEW r \in Requests, Writes(r)
    PROVE  RequestsOK'
  <1>1. RequestsOK
    BY DEF IInv, TypeOK, WellAddressed, HeadsExist, RequestsOK, RequestType
  <1>2. ASSUME NEW q \in RequestType, Addressed(q), q.head = 0 \/ entries'[q.head] > 0,
               request' = [request EXCEPT ![r] = q]
        PROVE  RequestsOK'
    BY <1>1, <1>2, RequestMoves, WritesChain
  <1>3. request[r] \in RequestType
    BY <1>1 DEF RequestsOK
  <1>4. Addressed(request[r])
    BY <1>1 DEF RequestsOK
  <1>5. 1 \in 0..3 /\ 0 \in 0..MaxAudit
    BY AccountsAssumption
  <1>6. request[r].head = 0 \/ entries'[request[r].head] > 0
    <2>1. request[r].head \in 0..MaxAudit /\ MaxAudit \in Nat
      BY <1>1, AccountsAssumption DEF RequestsOK, RequestType
    <2>2. QED  BY <1>1, <2>1, WritesChain DEF RequestsOK
  <1>7. ASSUME Finish(r) PROVE RequestsOK'
    BY <1>2, <1>7, IdleTyped DEF Finish
  <1>8. ASSUME NEW t \in Tokens, CreateInvitation(r, t) PROVE RequestsOK'
    <2>. DEFINE q == [request[r] EXCEPT !.step = "send", !.token = t, !.status = "absent",
                                        !.head = 0]
    <2>1. q \in RequestType /\ Addressed(q) /\ q.head = 0
      <3>1. request[r].step = "batch"
        BY <1>8 DEF CreateInvitation, At
      <3>2. q \in RequestType /\ q.head = 0
        BY <1>3, <1>5 DEF RequestType, Statuses
      <3>3. q.step = "send" /\ q.member = request[r].member
        BY <1>3 DEF RequestType
      <3>4. QED  BY <1>4, <3>1, <3>2, <3>3 DEF Addressed
    <2>2. request' = [request EXCEPT ![r] = q]
      BY <1>1, <1>8 DEF CreateInvitation
    <2>3. QED  BY <1>2, <2>1, <2>2
  <1>9. ASSUME NEW t \in Tokens, IssuePasswordReset(r, t) PROVE RequestsOK'
    <2>. DEFINE q == [request[r] EXCEPT !.step = "send", !.token = t, !.head = 0]
    <2>1. q \in RequestType /\ Addressed(q) /\ q.head = 0
      <3>1. request[r].step = "batch"
        BY <1>9 DEF IssuePasswordReset, At
      <3>2. q \in RequestType /\ q.head = 0
        BY <1>3, <1>5 DEF RequestType
      <3>3. q.step = "send" /\ q.member = request[r].member
        BY <1>3 DEF RequestType
      <3>4. QED  BY <1>4, <3>1, <3>2, <3>3 DEF Addressed
    <2>2. request' = [request EXCEPT ![r] = q]
      BY <1>1, <1>9 DEF IssuePasswordReset
    <2>3. QED  BY <1>2, <2>1, <2>2
  <1>10. CASE DeliveryFailed(r)
    <2>. DEFINE q == [request[r] EXCEPT !.step = "read", !.op = "failed", !.tries = 1]
    <2>1. q \in RequestType /\ Addressed(q) /\ q.head = request[r].head
      <3>1. request[r].step = "send"
        BY <1>10 DEF DeliveryFailed
      <3>2. q \in RequestType /\ q.head = request[r].head
        BY <1>3, <1>5 DEF RequestType, Ops
      <3>3. q.step = "read" /\ q.member = request[r].member
        BY <1>3 DEF RequestType
      <3>4. QED  BY <1>4, <3>1, <3>2, <3>3 DEF Addressed
    <2>2. request' = [request EXCEPT ![r] = q]
      BY <1>1, <1>10 DEF DeliveryFailed
    <2>3. QED  BY <1>2, <1>6, <2>1, <2>2
  <1>11. QED
    BY <1>7, <1>8, <1>9, <1>10
       DEF Writes, Logout, ChangePassword, AcceptInvitation, InsertCredential, CompletePasswordReset,
           CompleteWithoutRotation, DisableMembership, EnableMembership, DeliveryAccepted,
           DeliveryCancelled, AuditFailure

\* The types of the accounts and the tokens.
AccountsOK ==
    /\ status \in [Members -> Statuses]
    /\ version \in [Members -> 0..MaxVersion]
    /\ mustReset \in [Members -> BOOLEAN]
    /\ awaited \in [Members -> Tokens \cup {None}]
    /\ ended \in [Members -> 0..MaxVersion]
    /\ overtaken \subseteq Members
TokenType ==
    [type : {"none", "invite", "password_reset"}, owner : Members \cup {None},
     state : {"new", "open", "consumed"},
     delivery : {"none", "pending", "accepted", "failed", "cancelled"}]
TokensOK ==
    /\ token \in [Tokens -> TokenType]
    /\ \A t \in Tokens : token[t].state # "new" => token[t].owner \in Members

\* Consuming tokens and issuing one leave them typed and owned.
LEMMA TokensMove ==
    ASSUME TokensOK, NEW ts
    PROVE  /\ Consumed(ts) \in [Tokens -> TokenType]
           /\ \A t \in Tokens : Consumed(ts)[t].state # "new" => token[t].state # "new"
           /\ \A t \in Tokens : Consumed(ts)[t].owner = token[t].owner
  <1>1. ASSUME NEW t \in Tokens
        PROVE  /\ [token[t] EXCEPT !.state = "consumed"] \in TokenType
               /\ [token[t] EXCEPT !.state = "consumed"].owner = token[t].owner
               /\ token[t] \in TokenType
    BY DEF TokensOK, TokenType
  <1>2. QED  BY <1>1 DEF Consumed, Unconsumed

\* The new token belongs to the member it is issued to.
LEMMA TokenIssued ==
    ASSUME TokensOK, NEW u \in Members, NEW t \in Tokens, NEW type \in {"invite", "password_reset"},
           Supersede(t, type, u)
    PROVE  TokensOK'
  <1>1. NewToken(type, u) \in TokenType /\ NewToken(type, u).owner = u
    BY DEF NewToken, TokenType
  <1>. DEFINE old == Consumed(TokensOf(u, {type}))
  <1>2. /\ old \in [Tokens -> TokenType]
        /\ \A k \in Tokens : old[k].state # "new" => old[k].owner \in Members
    BY TokensMove DEF TokensOK
  <1>3. token' = [old EXCEPT ![t] = NewToken(type, u)]
    BY DEF Supersede
  <1>4. QED  BY <1>1, <1>2, <1>3 DEF TokensOK, TokenType

\* A writing step leaves the accounts and the tokens typed.
LEMMA WritesAccounts ==
    ASSUME IInv, NEW r \in Requests, Writes(r)
    PROVE  AccountsOK' /\ TokensOK'
  <1>1. AccountsOK /\ TokensOK
    BY DEF IInv, TypeOK, WellAddressed, AccountsOK, TokensOK, TokenType
  <1>2. /\ request[r].actor \in Members \cup {None} /\ request[r].member \in Members \cup {None}
        /\ request[r].token \in Tokens \cup {None} /\ request[r].version \in 0..MaxVersion
        /\ request[r].step \in {"read", "batch", "send"} => request[r].member \in Members
        /\ MaxVersion \in Nat \ {0}
    BY AccountsAssumption DEF IInv, TypeOK, WellAddressed, Addressed
  <1>3. CASE Logout(r)
    <2>1. request[r].actor \in Members
      BY <1>3 DEF Logout, At, IInv, WellAddressed, Addressed
    <2>2. QED
      BY <1>1, <1>2, <1>3, <2>1 DEF Logout, EndSessions, AccountsOK, TokensOK, TokenType
  <1>4. CASE ChangePassword(r)
    <2>1. request[r].actor \in Members
      BY <1>4 DEF ChangePassword, At, IInv, WellAddressed, Addressed
    <2>2. QED
      BY <1>1, <1>2, <1>4, <2>1 DEF ChangePassword, EndSessions, AccountsOK, TokensOK, TokenType
  <1>5. ASSUME NEW t \in Tokens, CreateInvitation(r, t) PROVE AccountsOK' /\ TokensOK'
    <2>1. request[r].member \in Members
      BY <1>2, <1>5 DEF CreateInvitation, At
    <2>2. TokensOK'
      BY <1>1, <1>5, <2>1, TokenIssued DEF CreateInvitation
    <2>3. QED  BY <1>1, <1>5, <2>1, <2>2 DEF CreateInvitation, AccountsOK, Statuses
  <1>6. ASSUME NEW t \in Tokens, IssuePasswordReset(r, t) PROVE AccountsOK' /\ TokensOK'
    <2>1. request[r].member \in Members
      BY <1>2, <1>6 DEF IssuePasswordReset, At
    <2>2. TokensOK'
      BY <1>1, <1>6, <2>1, TokenIssued DEF IssuePasswordReset
    <2>3. QED
      BY <1>1, <1>2, <1>6, <2>1, <2>2 DEF IssuePasswordReset, EndSessions, AccountsOK
  <1>7. ASSUME NEW ts, token' = Consumed(ts) PROVE TokensOK'
    BY <1>1, <1>7, TokensMove DEF TokensOK, TokenType
  <1>8. CASE AcceptInvitation(r)
    <2>1. request[r].member \in Members /\ TokensOK'
      BY <1>2, <1>7, <1>8 DEF AcceptInvitation, InsertCredential, At, Claim
    <2>2. QED  BY <1>1, <1>2, <1>8, <2>1 DEF AcceptInvitation, InsertCredential, AccountsOK, Statuses
  <1>9. CASE CompletePasswordReset(r)
    <2>1. request[r].member \in Members /\ TokensOK'
      BY <1>2, <1>7, <1>9 DEF CompletePasswordReset, At, Claim
    <2>2. QED
      BY <1>1, <1>2, <1>9, <2>1 DEF CompletePasswordReset, EndSessions, AccountsOK
  <1>10. CASE CompleteWithoutRotation(r)
    <2>1. TokensOK'
      BY <1>7, <1>10 DEF CompleteWithoutRotation, Claim
    <2>2. QED  BY <1>1, <1>10, <2>1 DEF CompleteWithoutRotation, AccountsOK, accountVars
  <1>11. CASE DisableMembership(r)
    <2>1. request[r].member \in Members /\ TokensOK'
      BY <1>2, <1>7, <1>11 DEF DisableMembership, At
    <2>2. status' \in [Members -> Statuses] /\ overtaken' \subseteq Members
      BY <1>1, <1>11 DEF DisableMembership, AccountsOK, Statuses
    <2>3. version' \in [Members -> 0..MaxVersion] /\ ended' \in [Members -> 0..MaxVersion]
      BY <1>1, <1>2, <1>11, <2>1 DEF DisableMembership, AccountsOK
    <2>4. mustReset' \in [Members -> BOOLEAN]
      BY <1>1, <1>11, Zenon DEF DisableMembership, AccountsOK
    <2>5. awaited' \in [Members -> Tokens \cup {None}]
      BY <1>1, <1>11 DEF DisableMembership, AccountsOK
    <2>6. QED  BY <2>1, <2>2, <2>3, <2>4, <2>5 DEF AccountsOK
  <1>12. CASE EnableMembership(r)
    BY <1>1, <1>12 DEF EnableMembership, AccountsOK, TokensOK, TokenType, Statuses
  <1>13. CASE DeliveryAccepted(r) \/ DeliveryCancelled(r)
    <2>1. AccountsOK'
      BY <1>1, <1>13 DEF DeliveryAccepted, DeliveryCancelled, AccountsOK, accountVars
    <2>2. TokensOK'
      BY <1>1, <1>13 DEF DeliveryAccepted, DeliveryCancelled, TokensOK, TokenType
    <2>3. QED  BY <2>1, <2>2
  <1>14. CASE DeliveryFailed(r)
    <2>. DEFINE t == request[r].token
                old == Consumed({t})
    <2>1. /\ old \in [Tokens -> TokenType]
          /\ \A k \in Tokens : old[k].state # "new" => old[k].owner \in Members
      BY <1>1, TokensMove DEF TokensOK
    <2>2. token' = [old EXCEPT ![t].delivery = "failed"]
      BY <1>14 DEF DeliveryFailed
    <2>3. TokensOK'
      <3>1. ASSUME NEW k \in Tokens
            PROVE  /\ [old[k] EXCEPT !.delivery = "failed"] \in TokenType
                   /\ [old[k] EXCEPT !.delivery = "failed"].state = old[k].state
                   /\ [old[k] EXCEPT !.delivery = "failed"].owner = old[k].owner
        <4>. HIDE DEF old
        <4>. QED  BY <2>1 DEF TokenType
      <3>2. /\ token' \in [Tokens -> TokenType]
            /\ \A k \in Tokens : token'[k].state # "new" => token'[k].owner \in Members
        <4>. HIDE DEF old, t
        <4>. QED  BY <2>1, <2>2, <3>1
      <3>3. QED  BY <3>2 DEF TokensOK, TokenType
    <2>4. mustReset' \in [Members -> BOOLEAN]
      BY <1>1, <1>14, Zenon DEF DeliveryFailed, AccountsOK
    <2>5. awaited' \in [Members -> Tokens \cup {None}]
      BY <1>1, <1>14 DEF DeliveryFailed, AccountsOK
    <2>6. QED  BY <1>1, <1>14, <2>3, <2>4, <2>5 DEF DeliveryFailed, AccountsOK
  <1>15. CASE AuditFailure(r)
    BY <1>1, <1>15 DEF AuditFailure, AccountsOK, TokensOK, TokenType, accountVars
  <1>16. QED
    BY <1>3, <1>4, <1>5, <1>6, <1>8, <1>9, <1>10, <1>11, <1>12, <1>13, <1>14, <1>15 DEF Writes

-----------------------------------------------------------------------------
(* The versions of the sessions and the administrators. *)

\* Ended sessions stay below the version: each change of it is an increment, or a
\* compare-and-set whose comparison makes it one.
LEMMA WritesVersions ==
    ASSUME IInv, NEW r \in Requests, Writes(r)
    PROVE  VersionsGrow'
  <1>1. /\ version \in [Members -> 0..MaxVersion] /\ ended \in [Members -> 0..MaxVersion]
        /\ MaxVersion \in Nat /\ VersionsGrow
        /\ \A m \in Members : version[m] \in Nat /\ ended[m] \in Nat
    BY AccountsAssumption DEF IInv, TypeOK
  <1>2. ASSUME NEW u,
               version' = [version EXCEPT ![u] = @ + 1],
               ended' = [ended EXCEPT ![u] = version[u]]
        PROVE  VersionsGrow'
    BY <1>1, <1>2 DEF VersionsGrow
  <1>3. ASSUME UNCHANGED <<version, ended>> PROVE VersionsGrow'
    BY <1>1, <1>3 DEF VersionsGrow
  <1>4. CASE Logout(r)
    BY <1>2, <1>4 DEF Logout, EndSessions
  <1>5. CASE ChangePassword(r)
    BY <1>2, <1>5 DEF ChangePassword, EndSessions
  <1>6. CASE AcceptInvitation(r)
    BY <1>1, <1>6 DEF AcceptInvitation, InsertCredential, VersionsGrow
  <1>7. ASSUME NEW t \in Tokens, IssuePasswordReset(r, t) PROVE VersionsGrow'
    BY <1>2, <1>7 DEF IssuePasswordReset, EndSessions
  <1>8. CASE CompletePasswordReset(r)
    BY <1>2, <1>8 DEF CompletePasswordReset, Rotates, EndSessions
  <1>9. CASE DisableMembership(r)
    <2>1. CASE request[r].version > 0
      BY <1>1, <1>9, <2>1 DEF DisableMembership, VersionsGrow
    <2>2. CASE ~(request[r].version > 0)
      BY <1>1, <1>9, <2>2 DEF DisableMembership, VersionsGrow
    <2>3. QED  BY <2>1, <2>2
  <1>10. ASSUME NEW t \in Tokens, CreateInvitation(r, t) PROVE VersionsGrow'
    BY <1>3, <1>10 DEF CreateInvitation
  <1>11. CASE CompleteWithoutRotation(r) \/ EnableMembership(r) \/ DeliveryAccepted(r)
              \/ DeliveryCancelled(r) \/ DeliveryFailed(r) \/ AuditFailure(r)
    BY <1>3, <1>11
       DEF CompleteWithoutRotation, EnableMembership, DeliveryAccepted, DeliveryCancelled,
           DeliveryFailed, AuditFailure, accountVars
  <1>12. QED
    BY <1>4, <1>5, <1>6, <1>7, <1>8, <1>9, <1>10, <1>11 DEF Writes

\* When more than one administrator is active, another one than u is.
LEMMA AnotherAdmin ==
    ASSUME NEW u, Cardinality({a \in Admins : status[a] = "active"}) > 1
    PROVE  \E a \in Admins \ {u} : status[a] = "active"
  <1>. DEFINE S == {a \in Admins : status[a] = "active"}
  <1>1. IsFiniteSet(S)
    BY AccountsAssumption, FS_Subset, S \in SUBSET Members
  <1>2. SUFFICES ASSUME S \subseteq {u} PROVE FALSE
    OBVIOUS
  <1>3. IsFiniteSet({u}) /\ Cardinality({u}) = 1
    BY FS_Singleton
  <1>4. Cardinality(S) <= 1
    BY <1>2, <1>3, FS_Subset
  <1>5. Cardinality(S) \in Nat
    BY <1>1, FS_CardinalityType
  <1>6. QED  BY <1>4, <1>5

\* An administrator leaves the active ones only if another one stays, or overtaken.
LEMMA WritesAdmins ==
    ASSUME IInv, NEW r \in Requests, Writes(r)
    PROVE  ActiveAdminRemains'
  <1>1. status \in [Members -> Statuses] /\ Admins \subseteq Members /\ ActiveAdminRemains
    BY AccountsAssumption DEF IInv, TypeOK
  <1>2. ASSUME overtaken \subseteq overtaken',
               \A a \in Admins : status[a] = "active" => status'[a] = "active"
        PROVE  ActiveAdminRemains'
    BY <1>1, <1>2 DEF ActiveAdminRemains
  <1>3. CASE DisableMembership(r)
    <2>. DEFINE u == request[r].member
    <2>1. MayLeave(u) /\ status' = [status EXCEPT ![u] = "disabled"] /\ overtaken' = overtaken
      BY <1>3 DEF DisableMembership
    <2>2. CASE u \notin Admins \/ status[u] # "active"
      BY <1>1, <1>2, <2>1, <2>2
    <2>3. CASE Cardinality({a \in Admins : status[a] = "active"}) > 1
      <3>1. PICK a \in Admins \ {u} : status[a] = "active"
        BY <2>3, AnotherAdmin
      <3>2. status'[a] = "active"
        BY <1>1, <2>1, <3>1
      <3>3. QED  BY <3>2 DEF ActiveAdminRemains
    <2>4. QED  BY <2>1, <2>2, <2>3 DEF MayLeave
  <1>4. ASSUME NEW t \in Tokens, CreateInvitation(r, t) PROVE ActiveAdminRemains'
    <2>. DEFINE u == request[r].member
    <2>1. status' = [status EXCEPT ![u] = "invited"] /\ overtaken \subseteq overtaken'
      BY <1>4 DEF CreateInvitation
    <2>2. CASE u \in Admins /\ status[u] = "active"
      <3>1. u \in overtaken'
        BY <1>4, <2>2 DEF CreateInvitation
      <3>2. QED  BY <2>2, <3>1 DEF ActiveAdminRemains
    <2>3. CASE ~(u \in Admins /\ status[u] = "active")
      BY <1>1, <1>2, <2>1, <2>3
    <2>4. QED  BY <2>2, <2>3
  <1>5. CASE AcceptInvitation(r) \/ EnableMembership(r)
    BY <1>1, <1>2, <1>5 DEF AcceptInvitation, InsertCredential, EnableMembership
  <1>6. ASSUME NEW t \in Tokens, IssuePasswordReset(r, t) PROVE ActiveAdminRemains'
    BY <1>2, <1>6 DEF IssuePasswordReset
  <1>7. CASE \/ Logout(r) \/ ChangePassword(r) \/ CompletePasswordReset(r)
             \/ CompleteWithoutRotation(r) \/ DeliveryAccepted(r) \/ DeliveryCancelled(r)
             \/ DeliveryFailed(r) \/ AuditFailure(r)
    BY <1>2, <1>7
       DEF Logout, ChangePassword, CompletePasswordReset, CompleteWithoutRotation,
           DeliveryAccepted, DeliveryCancelled, DeliveryFailed, AuditFailure, accountVars
  <1>8. QED  BY <1>3, <1>4, <1>5, <1>6, <1>7 DEF Writes

-----------------------------------------------------------------------------
(* The invariant and the theorems. *)

LEMMA InitIInv == Init => IInv
  <1>. SUFFICES ASSUME Init PROVE IInv
    OBVIOUS
  <1>1. 0 \in 0..MaxVersion /\ 1 \in 0..MaxVersion /\ 0 \in 0..MaxAudit /\ MaxAudit \in Nat
    BY AccountsAssumption
  <1>2. request \in [Requests -> RequestType]
        /\ \A r \in Requests : Addressed(request[r]) /\ request[r].head = 0
    BY IdleTyped DEF Init
  <1>3. TypeOK
    BY <1>1, <1>2 DEF Init, TypeOK, RequestType, Statuses, Kinds, NoToken
  <1>4. WellAddressed /\ HeadsExist
    BY <1>2 DEF Init, WellAddressed, HeadsExist, NoToken
  <1>5. ChainIsLinear
    BY <1>1 DEF Init, ChainIsLinear
  <1>6. VersionsGrow
    BY <1>1 DEF Init, VersionsGrow
  <1>7. ActiveAdminRemains
    BY AccountsAssumption DEF Init, ActiveAdminRemains
  <1>8. QED  BY <1>3, <1>4, <1>5, <1>6, <1>7 DEF IInv

\* Every step is one of the two kinds.
LEMMA ReadsOrWrites ==
    ASSUME NEW r \in Requests,
           \/ ReadHead(r) \/ Abandon(r)
           \/ Sessions(r) \/ Invitations(r) \/ Resets(r) \/ Memberships(r) \/ Deliveries(r)
    PROVE  Reads(r) \/ Writes(r)
  BY DEF Sessions, Invitations, Resets, Memberships, Deliveries, Reads, Writes

LEMMA NextIInv == IInv /\ [Next]_vars => IInv'
  <1>. SUFFICES ASSUME IInv, [Next]_vars PROVE IInv'
    OBVIOUS
  <1>1. CASE UNCHANGED vars
    BY <1>1
       DEF IInv, TypeOK, WellAddressed, Addressed, HeadsExist, ChainIsLinear, VersionsGrow,
           ActiveAdminRemains, vars, accountVars, auditVars
  <1>2. ASSUME NEW r \in Requests, Reads(r) PROVE IInv'
    <2>1. UNCHANGED <<accountVars, token, auditVars, ended, overtaken>>
      BY <1>2, ReadsOnly
    <2>2. RequestsOK'
      BY <1>2, ReadsTyped
    <2>3. TypeOK' /\ WellAddressed' /\ HeadsExist'
      BY <2>1, <2>2
         DEF IInv, TypeOK, RequestsOK, RequestType, WellAddressed, HeadsExist, accountVars,
             auditVars
    <2>4. ChainIsLinear' /\ VersionsGrow' /\ ActiveAdminRemains'
      BY <2>1
         DEF IInv, ChainIsLinear, VersionsGrow, ActiveAdminRemains, accountVars, auditVars
    <2>5. QED  BY <2>3, <2>4 DEF IInv
  <1>3. ASSUME NEW r \in Requests, Writes(r) PROVE IInv'
    <2>1. RequestsOK' /\ AccountsOK' /\ TokensOK'
      BY <1>3, WritesRequest, WritesAccounts
    <2>2. TypeOK' /\ WellAddressed' /\ HeadsExist'
      BY <1>3, <2>1, WritesChain
         DEF TypeOK, RequestsOK, RequestType, AccountsOK, TokensOK, TokenType, WellAddressed,
             HeadsExist
    <2>3. QED
      BY <1>3, <2>2, WritesChain, WritesVersions, WritesAdmins DEF IInv
  <1>4. QED  BY <1>1, <1>2, <1>3, ReadsOrWrites DEF Next

LEMMA Inductive == Spec => []IInv
  BY InitIInv, NextIInv, PTL DEF Spec

\* Every variable of the accounts keeps its type.
THEOREM AccountsTyped == Spec => []TypeOK
  <1>1. IInv => TypeOK
    BY DEF IInv
  <1>2. QED  BY <1>1, Inductive, PTL

\* However many requests append at the same time, the audit chain of the tenant has no fork
\* and no gap: the UNIQUE index alone orders what the requests read too early.
THEOREM ChainStaysLinear == Spec => []ChainIsLinear
  <1>1. IInv => ChainIsLinear
    BY DEF IInv
  <1>2. QED  BY <1>1, Inductive, PTL

\* Sessions that were ended by a logout, a reset, a new password or by disabling the member
\* never become valid again, whatever was read before.
THEOREM EndingIsFinal == Spec => []EndedStaysEnded
  <1>1. IInv => EndedStaysEnded
    <2>. SUFFICES ASSUME IInv, NEW m \in Members, version[m] > 0
                  PROVE  version[m] > ended[m]
      BY DEF EndedStaysEnded
    <2>. QED  BY DEF IInv, VersionsGrow
  <1>2. QED  BY <1>1, Inductive, PTL

\* Disabling never takes the last active administrator, with any number of administrators
\* who disable each other at the same time.
THEOREM AdminStays == Spec => []ActiveAdminRemains
  <1>1. IInv => ActiveAdminRemains
    BY DEF IInv
  <1>2. QED  BY <1>1, Inductive, PTL
-----------------------------------------------------------------------------
(* Tokens and the accounts that wait for them. *)

\* The token t was issued for m, and is perhaps consumed.
Issued(t, type, m) ==
    /\ t \in Tokens
    /\ token[t].type = type /\ token[t].owner = m /\ token[t].state # "new"

\* What of that which the record q of a request says still holds when its batch comes.
Knows(q) ==
    /\ q.step = "resolved" /\ q.op \in {"logout", "change"} => version[q.actor] > 0
    /\ q.step = "send" => \E type \in {"invite", "password_reset"} : Issued(q.token, type, q.member)
    /\ q.step \in {"read", "batch"} =>
        /\ q.op = "accept" => Issued(q.token, "invite", q.member)
        /\ q.op = "reset" => version[q.member] > 0
        /\ q.op = "enable" => q.status # "invited"
        /\ q.op = "disable" /\ q.version > 0 => version[q.member] > 0
        /\ q.op = "disable" /\ q.version = 0 /\ q.status \in {"active", "disabled"}
             /\ q.member \notin overtaken =>
               version[q.member] = 0 /\ status[q.member] \in {"active", "disabled"}
        /\ q.op = "complete" =>
             /\ Issued(q.token, "password_reset", q.member)
             /\ q.member \notin overtaken /\ Unconsumed(q.token) => version[q.member] = q.version

\* An account waits for a reset token of its own, and has a credential to reset.
Awaits(m) ==
    /\ awaited[m] # None => Issued(awaited[m], "password_reset", m)
    /\ mustReset[m] => version[m] > 0

\* TokensMatchAccounts for one member.
Matched(m) ==
    /\ \A t \in Tokens : Unconsumed(t) /\ token[t].owner = m =>
        /\ token[t].type = "invite" =>
            /\ status[m] = "invited"
            /\ \A k \in Tokens : Unconsumed(k) /\ token[k].owner = m /\ token[k].type = "invite" =>
                 k = t
        /\ token[t].type = "password_reset" =>
            status[m] = "active" /\ mustReset[m] /\ awaited[m] = t
    /\ mustReset[m] => awaited[m] # None /\ Unconsumed(awaited[m])

Matching ==
    /\ \A r \in Requests : Knows(request[r])
    /\ \A m \in Members : Awaits(m)
    /\ \A m \in Members \ overtaken : Matched(m)

\* What Matching says of the members is the property.
LEMMA MatchingMatches ==
    ASSUME IInv, Matching
    PROVE  TokensMatchAccounts
  <1>1. \A t \in Tokens : Unconsumed(t) => token[t].owner \in Members
    BY DEF IInv, WellAddressed, Unconsumed
  <1>2. QED  BY <1>1 DEF Matching, Matched, TokensMatchAccounts, TokensOf

\* What no step takes back, and what the records of the requests rest on.
Kept ==
    /\ overtaken \subseteq overtaken'
    /\ \A m \in Members : version[m] > 0 => version'[m] > 0
    /\ \A t \in Tokens : token[t].state # "new" =>
        /\ token'[t].type = token[t].type /\ token'[t].owner = token[t].owner
        /\ token'[t].state # "new"
        /\ token'[t].state = "open" => token[t].state = "open"
    /\ \A m \in Members \ overtaken' : version[m] = 0 /\ status[m] \in {"active", "disabled"} =>
         version'[m] = 0 /\ status'[m] \in {"active", "disabled"}
    /\ \A m \in Members \ overtaken' : \A t \in Tokens :
         Completing(m) /\ Issued(t, "password_reset", m) /\ token'[t].state = "open" =>
           version'[m] = version[m]

\* A request that does not move knows what it knew.
LEMMA KeptKnows ==
    ASSUME Kept, NEW q \in RequestType, Addressed(q), Knows(q),
           q.op = "complete" => Completing(q.member)
    PROVE  Knows(q)'
  <1>1. ASSUME NEW t, NEW type, NEW m, Issued(t, type, m) PROVE Issued(t, type, m)'
    BY <1>1 DEF Issued, Kept
  <1>2. q.step = "resolved" /\ q.op \in {"logout", "change"} => version'[q.actor] > 0
    BY DEF Kept, Knows, Addressed
  <1>3. q.step = "send" => \E type \in {"invite", "password_reset"} : Issued(q.token, type, q.member)'
    BY <1>1 DEF Knows
  <1>4. ASSUME q.step \in {"read", "batch"}
        PROVE  /\ q.op = "accept" => Issued(q.token, "invite", q.member)'
               /\ q.op = "reset" => version'[q.member] > 0
               /\ q.op = "enable" => q.status # "invited"
               /\ q.op = "disable" /\ q.version > 0 => version'[q.member] > 0
               /\ q.op = "disable" /\ q.version = 0 /\ q.status \in {"active", "disabled"}
                     /\ q.member \notin overtaken' =>
                   version'[q.member] = 0 /\ status'[q.member] \in {"active", "disabled"}
               /\ q.op = "complete" =>
                    /\ Issued(q.token, "password_reset", q.member)'
                    /\ q.member \notin overtaken' /\ token'[q.token].state = "open" =>
                         version'[q.member] = q.version
    <2>1. q.member \in Members
      BY <1>4 DEF Addressed
    <2>2. (q.op = "accept" => Issued(q.token, "invite", q.member)') /\ (q.op = "enable" => q.status # "invited")
      BY <1>1, <1>4 DEF Knows
    <2>3. /\ q.op = "reset" => version'[q.member] > 0
          /\ q.op = "disable" /\ q.version > 0 => version'[q.member] > 0
      BY <1>4, <2>1 DEF Knows, Kept
    <2>4. ASSUME q.op = "disable", q.version = 0, q.status \in {"active", "disabled"},
                 q.member \notin overtaken'
          PROVE  version'[q.member] = 0 /\ status'[q.member] \in {"active", "disabled"}
      <3>1. q.member \notin overtaken
        BY <2>4 DEF Kept
      <3>2. version[q.member] = 0 /\ status[q.member] \in {"active", "disabled"}
        BY <1>4, <2>4, <3>1 DEF Knows
      <3>3. QED  BY <2>1, <2>4, <3>2 DEF Kept
    <2>5. ASSUME q.op = "complete"
          PROVE  /\ Issued(q.token, "password_reset", q.member)'
                 /\ q.member \notin overtaken' /\ token'[q.token].state = "open" =>
                      version'[q.member] = q.version
      <3>1. Issued(q.token, "password_reset", q.member)
        BY <1>4, <2>5 DEF Knows
      <3>2. q.token \in Tokens /\ token[q.token].state # "new"
        BY <3>1 DEF Issued
      <3>3. ASSUME q.member \notin overtaken', token'[q.token].state = "open"
            PROVE  version'[q.member] = q.version
        <4>1. q.member \notin overtaken /\ Unconsumed(q.token)
          BY <3>2, <3>3 DEF Kept, Unconsumed
        <4>2. version[q.member] = q.version
          BY <1>4, <2>5, <4>1 DEF Knows
        <4>3. version'[q.member] = version[q.member]
          BY <2>1, <2>5, <3>1, <3>2, <3>3 DEF Kept
        <4>4. QED  BY <4>2, <4>3
      <3>4. QED  BY <1>1, <3>1, <3>3
    <2>6. QED  BY <2>2, <2>3, <2>4, <2>5
  <1>5. QED  BY <1>2, <1>3, <1>4 DEF Knows, Unconsumed

LEMMA IdleKnows == Knows(Idle)
  BY DEF Knows, Idle

\* A reading step puts into the record of its request what it has just read.
LEMMA ReadsKnow ==
    ASSUME IInv, Matching, NEW r \in Requests, Reads(r)
    PROVE  \E q : request' = [request EXCEPT ![r] = q] /\ Knows(q)
  <1>1. request[r] \in RequestType /\ Knows(request[r])
    BY DEF IInv, TypeOK, RequestType, Matching
  <1>2. ASSUME NEW m \in Members, NEW op \in AdminOps \cup {"logout", "change"}, Resolve(r, m, op)
        PROVE  \E q : request' = [request EXCEPT ![r] = q] /\ Knows(q)
    <2>. DEFINE a == IF op \in {"logout", "change", "disable"} THEN m ELSE None
                v == IF op = "change" THEN version[m] ELSE 0
                q == [Idle EXCEPT !.step = "resolved", !.op = op, !.actor = a, !.version = v]
    <2>1. version[m] > 0 /\ (op \in {"logout", "change"} => a = m)
      BY <1>2 DEF Resolve, AccountAllowed
    <2>2. Knows(q)
      <3>. HIDE DEF a, v
      <3>1. q.step = "resolved" /\ q.op = op /\ q.actor = a
        BY DEF Idle
      <3>. HIDE DEF q
      <3>2. QED  BY <2>1, <3>1 DEF Knows
    <2>3. QED  BY <1>2, <2>2 DEF Resolve, MayManage
  <1>3. ASSUME NEW u \in Members, InviteRead(r, u) \/ ResetRead(r, u)
        PROVE  \E q : request' = [request EXCEPT ![r] = q] /\ Knows(q)
    <2>1. CASE InviteRead(r, u)
      <3>. DEFINE q == [request[r] EXCEPT !.step = "read", !.member = u, !.status = status[u]]
      <3>1. q.step = "read" /\ q.op = "invite"
        BY <1>1, <2>1 DEF InviteRead, At, RequestType
      <3>2. request' = [request EXCEPT ![r] = q]
        BY <2>1 DEF InviteRead, IInv, TypeOK
      <3>3. Knows(q)
        <4>. HIDE DEF q
        <4>. QED  BY <3>1 DEF Knows
      <3>4. QED  BY <3>2, <3>3
    <2>2. CASE ResetRead(r, u)
      <3>. DEFINE q == [request[r] EXCEPT !.step = "read", !.member = u]
      <3>1. q.step = "read" /\ q.op = "reset" /\ q.member = u /\ version[u] > 0
        BY <1>1, <2>2 DEF ResetRead, At, RequestType
      <3>2. request' = [request EXCEPT ![r] = q]
        BY <2>2 DEF ResetRead, IInv, TypeOK
      <3>3. Knows(q)
        <4>. HIDE DEF q
        <4>. QED  BY <3>1 DEF Knows
      <3>4. QED  BY <3>2, <3>3
    <2>3. QED  BY <1>3, <2>1, <2>2
  <1>4. ASSUME NEW u \in Members, StatusRead(r, u)
        PROVE  \E q : request' = [request EXCEPT ![r] = q] /\ Knows(q)
    <2>. DEFINE v == IF request[r].op = "disable" THEN version[u] ELSE 0
                q == [request[r] EXCEPT !.step = "read", !.actor = None, !.member = u,
                                        !.status = status[u], !.version = v]
    <2>1. /\ q.step = "read" /\ q.op \in {"disable", "enable"} /\ q.member = u
          /\ q.status = status[u] /\ q.version = v /\ q.op = request[r].op
      <3>. HIDE DEF v
      <3>. QED  BY <1>1, <1>4 DEF StatusRead, RequestType
    <2>2. q.op = "enable" => status[u] # "invited"
      BY <1>4, <2>1 DEF StatusRead, StatusChangeAllowed
    <2>3. request' = [request EXCEPT ![r] = q]
      BY <1>4 DEF StatusRead, IInv, TypeOK
    <2>4. q.op = "disable" => q.version = version[u]
      BY <2>1
    <2>5. Knows(q)
      <3>. HIDE DEF q, v
      <3>. QED  BY <2>1, <2>2, <2>4 DEF Knows
    <2>6. QED  BY <2>3, <2>5
  <1>5. ASSUME NEW t \in Tokens, AcceptRead(r, t) \/ CompleteRead(r, t)
        PROVE  \E q : request' = [request EXCEPT ![r] = q] /\ Knows(q)
    <2>. DEFINE u == token[t].owner
    <2>1. CASE AcceptRead(r, t)
      <3>. DEFINE q == [Idle EXCEPT !.step = "read", !.op = "accept", !.member = u, !.token = t]
      <3>1. q.step = "read" /\ q.op = "accept" /\ q.member = u /\ q.token = t
        BY DEF Idle
      <3>2. Issued(t, "invite", u)
        BY <2>1 DEF AcceptRead, Usable, Unconsumed, Issued
      <3>3. Knows(q)
        <4>. HIDE DEF q, u
        <4>. QED  BY <3>1, <3>2 DEF Knows
      <3>4. QED  BY <2>1, <3>3 DEF AcceptRead
    <2>2. CASE CompleteRead(r, t)
      <3>. DEFINE q == [Idle EXCEPT !.step = "read", !.op = "complete", !.member = u,
                                    !.token = t, !.version = version[u]]
      <3>1. /\ q.step = "read" /\ q.op = "complete" /\ q.member = u /\ q.token = t
            /\ q.version = version[u]
        BY DEF Idle
      <3>2. Issued(t, "password_reset", u)
        BY <2>2 DEF CompleteRead, Usable, Unconsumed, Issued
      <3>3. Knows(q)
        <4>. HIDE DEF q, u
        <4>. QED  BY <3>1, <3>2 DEF Knows
      <3>4. QED  BY <2>2, <3>3 DEF CompleteRead
    <2>3. QED  BY <1>5, <2>1, <2>2
  <1>6. CASE ReadHead(r)
    <2>. DEFINE q == [request[r] EXCEPT !.step = "batch", !.head = ChainHead]
    <2>1. /\ request[r].step = "read" /\ q.step = "batch" /\ q.op = request[r].op
          /\ q.member = request[r].member /\ q.token = request[r].token
          /\ q.status = request[r].status /\ q.version = request[r].version
      BY <1>1, <1>6 DEF ReadHead, RequestType
    <2>2. Knows(q)
      <3>. HIDE DEF q
      <3>. QED  BY <1>1, <2>1 DEF Knows
    <2>3. QED  BY <1>6, <2>2 DEF ReadHead, IInv, TypeOK
  <1>7. CASE SendAccepted(r) \/ SendManually(r)
    <2>1. PICK op \in {"accepted", "cancelled"} :
            request' = [request EXCEPT ![r].step = "batch", ![r].op = op, ![r].head = ChainHead]
      BY <1>7 DEF Delivers, SendAccepted, SendManually
    <2>. DEFINE q == [request[r] EXCEPT !.step = "batch", !.op = op, !.head = ChainHead]
    <2>2. q.step = "batch" /\ q.op = op
      BY <1>1 DEF RequestType
    <2>3. Knows(q)
      <3>. HIDE DEF q
      <3>. QED  BY <2>2 DEF Knows
    <2>4. QED  BY <2>1, <2>3 DEF IInv, TypeOK
  <1>8. CASE RetryAudit(r)
    <2>. DEFINE q == [request[r] EXCEPT !.tries = @ + 1, !.head = ChainHead]
    <2>1. q.step = "batch" /\ q.op = "failed"
      BY <1>1, <1>8 DEF RequestType, RetryAudit, At
    <2>2. Knows(q)
      <3>. HIDE DEF q
      <3>. QED  BY <2>1 DEF Knows
    <2>3. QED  BY <1>8, <2>2 DEF RetryAudit, IInv, TypeOK
  <1>9. CASE Abandon(r)
    BY <1>9, IdleKnows DEF Abandon, Finish
  <1>10. QED
    BY <1>2, <1>3, <1>4, <1>5, <1>6, <1>7, <1>8, <1>9 DEF Reads

\* A reading step keeps the match.
LEMMA ReadsMatch ==
    ASSUME IInv, Matching, NEW r \in Requests, Reads(r)
    PROVE  Matching'
  <1>1. UNCHANGED <<status, version, mustReset, awaited, token, overtaken>>
    BY ReadsOnly DEF accountVars
  <1>2. PICK q : request' = [request EXCEPT ![r] = q] /\ Knows(q)
    BY ReadsKnow
  <1>3. ASSUME NEW p \in Requests PROVE Knows(request'[p])
    BY <1>2 DEF Matching, IInv, TypeOK
  <1>4. QED  BY <1>1, <1>3 DEF Matching, Matched, Awaits, Knows, Issued, Unconsumed

\* The tokens ts, and no others, are consumed if they were open.
Using(ts) ==
    \A k \in Tokens :
        /\ token'[k].type = token[k].type /\ token'[k].owner = token[k].owner
        /\ token'[k].state = IF k \in ts /\ token[k].state = "open" THEN "consumed"
                             ELSE token[k].state

\* The token t is issued for m, and takes the place of the ones of its type.
Issuing(t, type, m) ==
    /\ token[t].state = "new"
    /\ token'[t].type = type /\ token'[t].owner = m /\ token'[t].state = "open"
    /\ \A k \in Tokens \ {t} :
        /\ token'[k].type = token[k].type /\ token'[k].owner = token[k].owner
        /\ token'[k].state = IF token[k].owner = m /\ token[k].type = type
                                /\ token[k].state = "open" THEN "consumed" ELSE token[k].state

\* The operators that consume, issue and deliver tokens, field by field.
LEMMA ConsumedUses ==
    ASSUME IInv, NEW ts
    PROVE  \A k \in Tokens :
            /\ Consumed(ts)[k] \in TokenType
            /\ Consumed(ts)[k].type = token[k].type /\ Consumed(ts)[k].owner = token[k].owner
            /\ Consumed(ts)[k].state = IF k \in ts /\ token[k].state = "open" THEN "consumed"
                                       ELSE token[k].state
  <1>1. ASSUME NEW k \in Tokens
        PROVE  /\ [token[k] EXCEPT !.state = "consumed"] \in TokenType /\ token[k] \in TokenType
               /\ [token[k] EXCEPT !.state = "consumed"].type = token[k].type
               /\ [token[k] EXCEPT !.state = "consumed"].owner = token[k].owner
               /\ [token[k] EXCEPT !.state = "consumed"].state = "consumed"
    BY DEF IInv, TypeOK, TokenType
  <1>2. QED  BY <1>1 DEF Consumed, Unconsumed

LEMMA SupersedeIssues ==
    ASSUME IInv, NEW t \in Tokens, NEW type, NEW m, Supersede(t, type, m)
    PROVE  Issuing(t, type, m)
  <1>. DEFINE old == Consumed(TokensOf(m, {type}))
  <1>1. \A k \in Tokens :
            /\ old[k].type = token[k].type /\ old[k].owner = token[k].owner
            /\ old[k].state = IF token[k].owner = m /\ token[k].type = type
                                 /\ token[k].state = "open" THEN "consumed" ELSE token[k].state
    BY ConsumedUses DEF TokensOf
  <1>2. token' = [old EXCEPT ![t] = NewToken(type, m)] /\ token[t].state = "new"
    BY DEF Supersede
  <1>3. DOMAIN old = Tokens
    BY DEF Consumed
  <1>4. /\ NewToken(type, m).type = type /\ NewToken(type, m).owner = m
        /\ NewToken(type, m).state = "open"
    BY DEF NewToken
  <1>. HIDE DEF old
  <1>5. token'[t] = NewToken(type, m) /\ \A k \in Tokens \ {t} : token'[k] = old[k]
    BY <1>2, <1>3
  <1>6. QED  BY <1>1, <1>2, <1>4, <1>5 DEF Issuing

LEMMA DeliveriesUse ==
    ASSUME IInv, NEW r \in Requests
    PROVE  /\ DeliveryAccepted(r) \/ DeliveryCancelled(r) => Using({})
           /\ DeliveryFailed(r) => Using({request[r].token})
  <1>1. ASSUME NEW f \in [Tokens -> TokenType], NEW t, NEW d,
               token' = [f EXCEPT ![t].delivery = d]
        PROVE  \A k \in Tokens : /\ token'[k].type = f[k].type /\ token'[k].owner = f[k].owner
                                 /\ token'[k].state = f[k].state
    <2>1. ASSUME NEW k \in Tokens
          PROVE  /\ [f[k] EXCEPT !.delivery = d].type = f[k].type
                 /\ [f[k] EXCEPT !.delivery = d].owner = f[k].owner
                 /\ [f[k] EXCEPT !.delivery = d].state = f[k].state
      BY DEF TokenType
    <2>2. QED  BY <1>1, <2>1
  <1>2. token \in [Tokens -> TokenType]
    BY DEF IInv, TypeOK, TokenType
  <1>3. CASE DeliveryAccepted(r) \/ DeliveryCancelled(r)
    <2>1. \A k \in Tokens : /\ token'[k].type = token[k].type /\ token'[k].owner = token[k].owner
                            /\ token'[k].state = token[k].state
      BY <1>1, <1>2, <1>3 DEF DeliveryAccepted, DeliveryCancelled
    <2>2. QED  BY <1>3, <2>1 DEF Using, DeliveryAccepted, DeliveryCancelled, DeliveryFailed, At
  <1>4. CASE DeliveryFailed(r)
    <2>. DEFINE f == Consumed({request[r].token})
    <2>1. f \in [Tokens -> TokenType]
      <3>1. DOMAIN f = Tokens /\ f = [k \in Tokens |-> f[k]]
        BY DEF Consumed
      <3>2. \A k \in Tokens : f[k] \in TokenType
        BY ConsumedUses
      <3>. HIDE DEF f
      <3>3. QED  BY <3>1, <3>2
    <2>2. token' = [f EXCEPT ![request[r].token].delivery = "failed"]
      BY <1>4 DEF DeliveryFailed
    <2>3. \A k \in Tokens : /\ token'[k].type = f[k].type /\ token'[k].owner = f[k].owner
                            /\ token'[k].state = f[k].state
      <3>. HIDE DEF f
      <3>. QED  BY <1>1, <2>1, <2>2
    <2>4. Using({request[r].token})
      BY <2>3, ConsumedUses DEF Using
    <2>5. ~(DeliveryAccepted(r) \/ DeliveryCancelled(r))
      BY <1>4 DEF DeliveryFailed, DeliveryAccepted, DeliveryCancelled, At
    <2>6. QED  BY <2>4, <2>5
  <1>5. QED  BY <1>3, <1>4

LEMMA ConsumedUsing ==
    ASSUME IInv, NEW ts, token' = Consumed(ts)
    PROVE  Using(ts)
  BY ConsumedUses DEF Using

\* The token k is one of those that v was issued, before or after the step.
Touches(k, v) ==
    \/ token[k].owner = v /\ token[k].state # "new"
    \/ token'[k].owner = v /\ token'[k].state # "new"

\* A member goes on waiting for a token that stays its own.
LEMMA AwaitsStays ==
    ASSUME Kept, NEW v \in Members, Awaits(v), awaited'[v] = awaited[v],
           mustReset'[v] => mustReset[v]
    PROVE  Awaits(v)'
  BY DEF Kept, Awaits, Issued

\* Nothing changes for a member whose account and tokens are left alone.
LEMMA OthersMatch ==
    ASSUME NEW v \in Members, Awaits(v),
           status'[v] = status[v], mustReset'[v] = mustReset[v], awaited'[v] = awaited[v],
           version[v] > 0 => version'[v] > 0,
           \A k \in Tokens : Touches(k, v) =>
             /\ token'[k].owner = token[k].owner /\ token'[k].type = token[k].type
             /\ token'[k].state = token[k].state
    PROVE  Awaits(v)' /\ (Matched(v) => Matched(v)')
  <1>1. Awaits(v)'
    BY DEF Awaits, Issued, Touches
  <1>2. ASSUME Matched(v) PROVE Matched(v)'
    BY <1>2 DEF Awaits, Issued, Matched, Unconsumed, Touches
  <1>3. QED  BY <1>1, <1>2

\* What has to hold after a writing step.
Good ==
    /\ Kept
    /\ \A m \in Members : Awaits(m)'
    /\ \A m \in Members \ overtaken' : Matched(m)'

\* What is known of the request r and of the accounts in every state.
LEMMA Given ==
    ASSUME IInv, Matching, NEW r \in Requests
    PROVE  /\ request[r].step \in {"read", "batch", "send"} => request[r].member \in Members
           /\ request[r].step = "resolved" /\ request[r].op \in {"logout", "change"} =>
                request[r].actor \in Members
           /\ Knows(request[r])
           /\ \A m \in Members :
                /\ Awaits(m) /\ (m \notin overtaken => Matched(m))
                /\ version[m] \in Nat /\ mustReset[m] \in BOOLEAN
           /\ \A t \in Tokens : token[t].state # "new" => token[t].owner \in Members
           /\ status \in [Members -> Statuses] /\ version \in [Members -> 0..MaxVersion]
           /\ mustReset \in [Members -> BOOLEAN]
           /\ awaited \in [Members -> Tokens \cup {None}]
           /\ request[r].version \in Nat
           /\ None \notin Members \cup Tokens
  BY AccountsAssumption DEF IInv, TypeOK, WellAddressed, Addressed, Matching

\* A logout takes away the version a completion has read, and overtakes its member.
LEMMA LogoutMatches ==
    ASSUME IInv, Matching, NEW r \in Requests, Logout(r)
    PROVE  Good
  <1>. DEFINE u == request[r].actor
  <1>1. u \in Members /\ version[u] > 0
    BY Given DEF Logout, At, Knows
  <1>2. /\ version' = [version EXCEPT ![u] = @ + 1]
        /\ overtaken' = IF Completing(u) THEN overtaken \cup {u} ELSE overtaken
        /\ UNCHANGED <<status, mustReset, awaited, token>>
    BY DEF Logout
  <1>. HIDE DEF u
  <1>3. \A m \in Members : version'[m] = IF m = u THEN version[m] + 1 ELSE version[m]
    BY <1>2, Given
  <1>4. Kept
    BY <1>1, <1>2, <1>3, Given DEF Kept
  <1>5. \A m \in Members : Awaits(m)' /\ (Matched(m) => Matched(m)')
    BY <1>2, <1>3, Given, OthersMatch
  <1>6. QED  BY <1>2, <1>4, <1>5, Given DEF Good

\* A new password is refused to who must reset, so nobody waits for it to be completed.
LEMMA ChangeMatches ==
    ASSUME IInv, Matching, NEW r \in Requests, ChangePassword(r)
    PROVE  Good
  <1>. DEFINE u == request[r].actor
  <1>1. u \in Members /\ version[u] > 0 /\ ~mustReset[u]
    BY Given DEF ChangePassword, At, Knows
  <1>2. /\ version' = [version EXCEPT ![u] = version[u] + 1]
        /\ UNCHANGED <<status, mustReset, awaited, token, overtaken>>
    BY DEF ChangePassword
  <1>. HIDE DEF u
  <1>3. \A m \in Members : version'[m] = IF m = u THEN version[m] + 1 ELSE version[m]
    BY <1>2, Given
  <1>4. \A t \in Tokens : u \notin overtaken /\ Issued(t, "password_reset", u) => token[t].state # "open"
    BY <1>1, Given DEF Issued, Matched, Unconsumed
  <1>5. Kept
    BY <1>1, <1>2, <1>3, <1>4, Given DEF Kept
  <1>6. \A m \in Members : Awaits(m)' /\ (Matched(m) => Matched(m)')
    BY <1>2, <1>3, Given, OthersMatch
  <1>7. QED  BY <1>2, <1>5, <1>6, Given DEF Good

\* The member of an invitation is invited with no other token open, or overtaken.
LEMMA InvitationMatches ==
    ASSUME IInv, Matching, NEW r \in Requests, NEW t \in Tokens, CreateInvitation(r, t)
    PROVE  Good
  <1>1. PICK u \in Members : u = request[r].member
    BY Given DEF CreateInvitation, At
  <1>2. /\ status' = [status EXCEPT ![u] = "invited"] /\ Issuing(t, "invite", u)
        /\ overtaken' = IF status[u] \in {"absent", "invited"} /\ version[u] = 0
                        THEN overtaken ELSE overtaken \cup {u}
        /\ UNCHANGED <<version, mustReset, awaited>>
    BY <1>1, SupersedeIssues DEF CreateInvitation
  <1>3. /\ status'[u] = "invited" /\ \A m \in Members \ {u} : status'[m] = status[m]
        /\ overtaken \subseteq overtaken'
        /\ u \notin overtaken' => u \notin overtaken /\ status[u] \in {"absent", "invited"}
    BY <1>1, <1>2, Given
  <1>4. Kept
    BY <1>1, <1>2, <1>3, Given DEF Kept, Issuing
  <1>5. \A m \in Members \ {u} : Awaits(m)' /\ (Matched(m) => Matched(m)')
    <2>1. \A k \in Tokens : \A m \in Members \ {u} : Touches(k, m) =>
             /\ token'[k].owner = token[k].owner /\ token'[k].type = token[k].type
             /\ token'[k].state = token[k].state
      BY <1>2, Given DEF Issuing, Touches
    <2>2. QED  BY <1>2, <1>3, <2>1, Given, OthersMatch
  <1>6. Awaits(u)'
    BY <1>2, <1>4, Given, AwaitsStays
  <1>7. ASSUME u \notin overtaken' PROVE Matched(u)'
    <2>1. Matched(u) /\ status[u] \in {"absent", "invited"}
      BY <1>1, <1>3, <1>7, Given
    <2>2. ~mustReset[u]
      BY <1>1, <2>1, Given DEF Matched, Awaits, Issued
    <2>3. \A k \in Tokens : token[k].state = "open" /\ token[k].owner = u =>
            token[k].type # "password_reset"
      BY <2>1 DEF Matched, Unconsumed
    <2>4. QED  BY <1>2, <1>3, <2>2, <2>3 DEF Issuing, Matched, Unconsumed
  <1>8. QED  BY <1>3, <1>4, <1>5, <1>6, <1>7, Given DEF Good

\* Who claims an invitation was invited, and has no other token open.
LEMMA AcceptMatches ==
    ASSUME IInv, Matching, NEW r \in Requests, AcceptInvitation(r)
    PROVE  Good
  <1>0. request[r].member \in Members /\ Issued(request[r].token, "invite", request[r].member)
    BY Given DEF AcceptInvitation, At, Knows
  <1>1. PICK u \in Members, t \in Tokens :
          /\ u = request[r].member /\ t = request[r].token
          /\ Issued(t, "invite", u) /\ Unconsumed(t)
    BY <1>0 DEF AcceptInvitation, Claim, Issued
  <1>2. /\ Using({t}) /\ version[u] = 0 /\ version' = [version EXCEPT ![u] = 1]
        /\ status' = [status EXCEPT ![u] = IF @ = "invited" THEN "active" ELSE @]
        /\ UNCHANGED <<mustReset, awaited, overtaken>>
    BY <1>1, ConsumedUsing DEF AcceptInvitation, Claim, InsertCredential
  <1>3. /\ version'[u] = 1
        /\ \A m \in Members \ {u} : version'[m] = version[m] /\ status'[m] = status[m]
    BY <1>1, <1>2, Given
  <1>4. ~mustReset[u]
    BY <1>1, <1>2, Given DEF Awaits
  <1>5. u \notin overtaken => /\ status[u] = "invited"
                              /\ \A k \in Tokens : token[k].state = "open" /\ token[k].owner = u
                                    /\ token[k].type = "invite" => k = t
    BY <1>1, Given DEF Matched, Issued, Unconsumed
  <1>6. \A k \in Tokens : u \notin overtaken /\ Issued(k, "password_reset", u) => token[k].state # "open"
    BY <1>1, <1>4, Given DEF Issued, Matched, Unconsumed
  <1>7. Kept
    BY <1>1, <1>2, <1>3, <1>5, <1>6, Given DEF Kept, Using, Unconsumed
  <1>8. \A m \in Members \ {u} : Awaits(m)' /\ (Matched(m) => Matched(m)')
    <2>1. \A k \in Tokens : \A m \in Members \ {u} : Touches(k, m) =>
             /\ token'[k].owner = token[k].owner /\ token'[k].type = token[k].type
             /\ token'[k].state = token[k].state
      BY <1>1, <1>2 DEF Using, Issued, Touches
    <2>2. QED  BY <1>2, <1>3, <2>1, Given, OthersMatch
  <1>9. Awaits(u)'
    BY <1>2, <1>7, Given, AwaitsStays
  <1>10. ASSUME u \notin overtaken PROVE Matched(u)'
    BY <1>1, <1>2, <1>4, <1>5, <1>6, <1>10 DEF Using, Matched, Unconsumed, Issued
  <1>11. QED  BY <1>2, <1>7, <1>8, <1>9, <1>10, Given DEF Good

\* A reset takes the place of the older ones of an active member, or the member is overtaken.
LEMMA ResetMatches ==
    ASSUME IInv, Matching, NEW r \in Requests, NEW t \in Tokens, IssuePasswordReset(r, t)
    PROVE  Good
  <1>0. request[r].member \in Members /\ version[request[r].member] > 0
    BY Given DEF IssuePasswordReset, At, Knows
  <1>1. PICK u \in Members : u = request[r].member /\ version[u] > 0
    BY <1>0
  <1>2. /\ Issuing(t, "password_reset", u)
        /\ mustReset' = [mustReset EXCEPT ![u] = TRUE]
        /\ version' = [version EXCEPT ![u] = version[u] + 1]
        /\ awaited' = [awaited EXCEPT ![u] = t]
        /\ overtaken' = IF status[u] = "active" THEN overtaken ELSE overtaken \cup {u}
        /\ status' = status
    BY <1>1, SupersedeIssues DEF IssuePasswordReset
  <1>3. /\ version'[u] = version[u] + 1 /\ mustReset'[u] /\ awaited'[u] = t
        /\ \A m \in Members \ {u} : /\ version'[m] = version[m] /\ mustReset'[m] = mustReset[m]
                                    /\ awaited'[m] = awaited[m]
        /\ overtaken \subseteq overtaken'
        /\ u \notin overtaken' => u \notin overtaken /\ status[u] = "active"
    BY <1>1, <1>2, Given
  <1>4. Kept
    <2>1. \A k \in Tokens : Issued(k, "password_reset", u) => token'[k].state # "open"
      BY <1>2 DEF Issuing, Issued
    <2>2. QED  BY <1>1, <1>2, <1>3, <2>1, Given DEF Kept, Issuing
  <1>5. \A m \in Members \ {u} : Awaits(m)' /\ (Matched(m) => Matched(m)')
    <2>1. \A k \in Tokens : \A m \in Members \ {u} : Touches(k, m) =>
             /\ token'[k].owner = token[k].owner /\ token'[k].type = token[k].type
             /\ token'[k].state = token[k].state
      BY <1>2, Given DEF Issuing, Touches
    <2>2. QED  BY <1>2, <1>3, <2>1, Given, OthersMatch
  <1>6. Awaits(u)'
    BY <1>1, <1>2, <1>3, Given DEF Awaits, Issued, Issuing
  <1>7. ASSUME u \notin overtaken' PROVE Matched(u)'
    <2>1. Matched(u) /\ status[u] = "active"
      BY <1>1, <1>3, <1>7, Given
    <2>2. \A k \in Tokens : token[k].state = "open" /\ token[k].owner = u => token[k].type # "invite"
      BY <2>1 DEF Matched, Unconsumed
    <2>3. \A k \in Tokens : token'[k].state = "open" /\ token'[k].owner = u =>
            /\ token'[k].type # "invite"
            /\ token'[k].type = "password_reset" => k = t
      BY <1>2, <2>2 DEF Issuing
    <2>4. awaited'[u] # None /\ token'[awaited'[u]].state = "open"
      BY <1>2, <1>3, Given DEF Issuing
    <2>5. QED  BY <1>2, <1>3, <2>1, <2>3, <2>4 DEF Matched, Unconsumed
  <1>8. QED  BY <1>3, <1>4, <1>5, <1>6, <1>7, Given DEF Good

\* Whoever claims a reset and changes the credential was the one the account waited for.
LEMMA CompleteMatches ==
    ASSUME IInv, Matching, NEW r \in Requests, CompletePasswordReset(r)
    PROVE  Good
  <1>0. request[r].member \in Members /\ Issued(request[r].token, "password_reset", request[r].member)
    BY Given DEF CompletePasswordReset, At, Knows
  <1>1. PICK u \in Members, t \in Tokens :
          /\ u = request[r].member /\ t = request[r].token /\ Issued(t, "password_reset", u)
    BY <1>0 DEF Issued
  <1>2. /\ Using({t}) /\ mustReset[u] /\ awaited[u] = t
        /\ mustReset' = [mustReset EXCEPT ![u] = FALSE]
        /\ awaited' = [awaited EXCEPT ![u] = None]
        /\ version' = [version EXCEPT ![u] = version[u] + 1]
        /\ UNCHANGED <<status, overtaken>>
    BY <1>1, ConsumedUsing DEF CompletePasswordReset, Claim, Rotates
  <1>3. /\ version'[u] = version[u] + 1 /\ ~mustReset'[u] /\ awaited'[u] = None
        /\ \A m \in Members \ {u} : /\ version'[m] = version[m] /\ mustReset'[m] = mustReset[m]
                                    /\ awaited'[m] = awaited[m]
        /\ version[u] > 0
    BY <1>1, <1>2, Given DEF Awaits
  <1>4. \A k \in Tokens : u \notin overtaken /\ Issued(k, "password_reset", u) => token'[k].state # "open"
    BY <1>1, <1>2, Given DEF Issued, Matched, Unconsumed, Using
  <1>5. Kept
    BY <1>1, <1>2, <1>3, <1>4, Given DEF Kept, Using
  <1>6. \A m \in Members \ {u} : Awaits(m)' /\ (Matched(m) => Matched(m)')
    <2>1. \A k \in Tokens : \A m \in Members \ {u} : Touches(k, m) =>
             /\ token'[k].owner = token[k].owner /\ token'[k].type = token[k].type
             /\ token'[k].state = token[k].state
      BY <1>1, <1>2 DEF Using, Issued, Touches
    <2>2. QED  BY <1>2, <1>3, <2>1, Given, OthersMatch
  <1>7. Awaits(u)'
    BY <1>3 DEF Awaits
  <1>8. ASSUME u \notin overtaken PROVE Matched(u)'
    <2>1. Matched(u)
      BY <1>8, Given
    <2>2. \A k \in Tokens : token'[k].state = "open" /\ token'[k].owner = u =>
            token'[k].type # "password_reset"
      BY <1>1, <1>2, <1>4, <1>8 DEF Using, Issued
    <2>3. QED  BY <1>2, <1>3, <2>1, <2>2 DEF Matched, Unconsumed, Using
  <1>9. QED  BY <1>2, <1>5, <1>6, <1>7, <1>8, Given DEF Good

\* Only somebody who was overtaken claims a reset without changing the credential.
LEMMA ClaimedInVain ==
    ASSUME IInv, Matching, NEW r \in Requests, CompleteWithoutRotation(r)
    PROVE  /\ request[r].member \in overtaken
           /\ Issued(request[r].token, "password_reset", request[r].member)
  <1>1. /\ request[r].member \in Members
        /\ Issued(request[r].token, "password_reset", request[r].member)
        /\ request[r].member \notin overtaken /\ Unconsumed(request[r].token) =>
             version[request[r].member] = request[r].version
    BY Given DEF CompleteWithoutRotation, At, Knows
  <1>2. Unconsumed(request[r].token) /\ ~Rotates(r)
    BY DEF CompleteWithoutRotation, Claim
  <1>3. request[r].member \notin overtaken => Matched(request[r].member)
    BY <1>1, Given
  <1>4. QED  BY <1>1, <1>2, <1>3 DEF Matched, Issued, Rotates

LEMMA InVainMatches ==
    ASSUME IInv, Matching, NEW r \in Requests, CompleteWithoutRotation(r)
    PROVE  Good
  <1>1. PICK u \in overtaken, t \in Tokens :
          /\ u = request[r].member /\ t = request[r].token /\ Issued(t, "password_reset", u)
    BY ClaimedInVain DEF Issued
  <1>2. /\ Using({t}) /\ UNCHANGED <<status, version, mustReset, awaited, overtaken>>
    BY <1>1, ConsumedUsing DEF CompleteWithoutRotation, Claim, accountVars
  <1>3. Kept
    BY <1>2 DEF Kept, Using
  <1>4. \A m \in Members : Awaits(m)'
    BY <1>2, <1>3, Given, AwaitsStays
  <1>5. ASSUME NEW m \in Members \ overtaken PROVE Matched(m)'
    <2>1. \A k \in Tokens : Touches(k, m) =>
             /\ token'[k].owner = token[k].owner /\ token'[k].type = token[k].type
             /\ token'[k].state = token[k].state
      BY <1>1, <1>2 DEF Using, Issued, Touches
    <2>2. QED  BY <1>2, <2>1, Given, OthersMatch
  <1>6. QED  BY <1>2, <1>3, <1>4, <1>5 DEF Good

\* A member who is enabled was not invited when the batch began, so no invitation is open.
LEMMA EnableMatches ==
    ASSUME IInv, Matching, NEW r \in Requests, EnableMembership(r)
    PROVE  Good
  <1>0. request[r].member \in Members /\ request[r].status # "invited"
    BY Given DEF EnableMembership, At, Knows
  <1>1. PICK u \in Members : u = request[r].member /\ status[u] # "invited"
    BY <1>0 DEF EnableMembership
  <1>2. /\ status' = [status EXCEPT ![u] = "active"]
        /\ UNCHANGED <<version, mustReset, awaited, token, overtaken>>
    BY <1>1 DEF EnableMembership
  <1>3. status'[u] = "active" /\ \A m \in Members \ {u} : status'[m] = status[m]
    BY <1>2, Given
  <1>4. Kept
    BY <1>2, <1>3 DEF Kept
  <1>5. \A m \in Members : Awaits(m)'
    BY <1>2, <1>4, Given, AwaitsStays
  <1>6. \A m \in Members \ {u} : Matched(m) => Matched(m)'
    BY <1>2, <1>3, Given, OthersMatch
  <1>7. ASSUME u \notin overtaken PROVE Matched(u)'
    <2>1. Matched(u)
      BY <1>7, Given
    <2>2. QED  BY <1>1, <1>2, <1>3, <2>1 DEF Matched, Unconsumed
  <1>8. QED  BY <1>2, <1>4, <1>5, <1>6, <1>7, Given DEF Good

\* Disabling consumes every token of the member.  Whoever must reset has a credential, which
\* the batch clears the flag of, though it only knows whether there was one when it read.
LEMMA DisableMatches ==
    ASSUME IInv, Matching, NEW r \in Requests, DisableMembership(r)
    PROVE  Good
  <1>. DEFINE has == request[r].version > 0
  <1>1. PICK u \in Members : u = request[r].member
    BY Given DEF DisableMembership, At
  <1>2. /\ status[u] = request[r].status
        /\ status' = [status EXCEPT ![u] = "disabled"]
        /\ token' = Consumed(TokensOf(u, {"invite", "password_reset"}))
        /\ version' = [version EXCEPT ![u] = IF has THEN @ + 1 ELSE @]
        /\ mustReset' = [mustReset EXCEPT ![u] = @ /\ ~has]
        /\ awaited' = [awaited EXCEPT ![u] = IF has THEN None ELSE @]
        /\ overtaken' = overtaken
    BY <1>1 DEF DisableMembership
  <1>3. Using(TokensOf(u, {"invite", "password_reset"}))
    BY <1>2, ConsumedUsing
  <1>4. /\ has \in BOOLEAN /\ status'[u] = "disabled"
        /\ \A m \in Members \ {u} :
             /\ status'[m] = status[m] /\ version'[m] = version[m]
             /\ mustReset'[m] = mustReset[m] /\ awaited'[m] = awaited[m]
        /\ version'[u] = IF has THEN version[u] + 1 ELSE version[u]
        /\ awaited'[u] = IF has THEN None ELSE awaited[u]
    BY <1>2, Given
  <1>5. mustReset'[u] => mustReset[u] /\ ~has
    BY <1>2, Given, Zenon
  <1>6. u \notin overtaken /\ ~has => ~mustReset[u]
    <2>1. SUFFICES ASSUME u \notin overtaken, ~has, mustReset[u] PROVE FALSE
      OBVIOUS
    <2>2. awaited[u] # None /\ Unconsumed(awaited[u]) /\ version[u] > 0
          /\ Issued(awaited[u], "password_reset", u)
      BY <2>1, Given DEF Matched, Awaits
    <2>3. status[u] = "active"
      BY <2>1, <2>2, Given DEF Matched, Issued
    <2>4. request[r].version = 0
      BY <2>1, Given
    <2>5. version[u] = 0
      <3>1. Knows(request[r])
        BY Given
      <3>2. request[r].step = "batch" /\ request[r].op = "disable"
        BY DEF DisableMembership, At
      <3>3. QED  BY <1>1, <1>2, <2>1, <2>3, <2>4, <3>1, <3>2 DEF Knows
    <2>6. QED  BY <2>2, <2>5
  <1>7. has => version[u] > 0
    BY <1>1, Given DEF DisableMembership, At, Knows
  <1>8. Kept
    <2>1. \A m \in Members : version[m] > 0 => version'[m] > 0
      BY <1>4, Given
    <2>2. \A m \in Members : version[m] = 0 /\ status[m] \in {"active", "disabled"} =>
            version'[m] = 0 /\ status'[m] \in {"active", "disabled"}
      BY <1>4, <1>7, Given
    <2>3. \A k \in Tokens : Issued(k, "password_reset", u) => token'[k].state # "open"
      BY <1>3 DEF Using, Issued, TokensOf
    <2>4. \A m \in Members, k \in Tokens :
            Issued(k, "password_reset", m) /\ token'[k].state = "open" => version'[m] = version[m]
      BY <1>4, <2>3
    <2>5. \A t \in Tokens : token[t].state # "new" =>
            /\ token'[t].type = token[t].type /\ token'[t].owner = token[t].owner
            /\ token'[t].state # "new"
            /\ token'[t].state = "open" => token[t].state = "open"
      BY <1>3 DEF Using
    <2>6. QED  BY <1>2, <2>1, <2>2, <2>4, <2>5 DEF Kept
  <1>9. \A m \in Members \ {u} : Awaits(m)' /\ (Matched(m) => Matched(m)')
    <2>1. \A k \in Tokens : \A m \in Members \ {u} : Touches(k, m) =>
             /\ token'[k].owner = token[k].owner /\ token'[k].type = token[k].type
             /\ token'[k].state = token[k].state
      BY <1>3 DEF Using, Touches, TokensOf
    <2>2. QED  BY <1>4, <1>8, <2>1, Given, OthersMatch DEF Kept
  <1>10. Awaits(u)'
    <2>1. CASE has
      BY <1>4, <1>5, <2>1 DEF Awaits
    <2>2. CASE ~has
      BY <1>4, <1>5, <1>8, <2>2, Given, AwaitsStays
    <2>3. QED  BY <2>1, <2>2
  <1>11. ASSUME u \notin overtaken PROVE Matched(u)'
    <2>1. ~mustReset'[u]
      BY <1>5, <1>6, <1>11
    <2>2. \A k \in Tokens : token'[k].state = "open" /\ token'[k].owner = u =>
            token'[k].type \notin {"invite", "password_reset"}
      BY <1>3 DEF Using, TokensOf
    <2>3. QED  BY <2>1, <2>2 DEF Matched, Unconsumed
  <1>12. QED  BY <1>2, <1>8, <1>9, <1>10, <1>11, Given DEF Good

\* A delivery that failed consumes its token and lets the account wait for it no longer.
LEMMA FailedMatches ==
    ASSUME IInv, Matching, NEW r \in Requests, DeliveryFailed(r)
    PROVE  Good
  <1>0. /\ request[r].member \in Members
        /\ \E type \in {"invite", "password_reset"} :
              Issued(request[r].token, type, request[r].member)
    BY Given DEF DeliveryFailed, Knows
  <1>1. PICK u \in Members, t \in Tokens, type \in {"invite", "password_reset"} :
          u = request[r].member /\ t = request[r].token /\ Issued(t, type, u)
    BY <1>0 DEF Issued
  <1>. DEFINE over == token[t].type = "password_reset" /\ awaited[u] = t
  <1>2. /\ Using({t})
        /\ mustReset' = [mustReset EXCEPT ![u] = @ /\ ~over]
        /\ awaited' = [awaited EXCEPT ![u] = IF over THEN None ELSE @]
        /\ UNCHANGED <<status, version, overtaken>>
    BY <1>1, DeliveriesUse DEF DeliveryFailed
  <1>3. Kept
    BY <1>2 DEF Kept, Using
  <1>4. /\ awaited'[u] = IF over THEN None ELSE awaited[u]
        /\ \A m \in Members \ {u} : mustReset'[m] = mustReset[m] /\ awaited'[m] = awaited[m]
    BY <1>2, Given
  <1>5. mustReset'[u] <=> mustReset[u] /\ ~over
    BY <1>2, Given, Zenon
  <1>6. \A m \in Members \ {u} : Awaits(m)' /\ (Matched(m) => Matched(m)')
    <2>1. \A k \in Tokens : \A m \in Members \ {u} : Touches(k, m) =>
             /\ token'[k].owner = token[k].owner /\ token'[k].type = token[k].type
             /\ token'[k].state = token[k].state
      BY <1>1, <1>2 DEF Using, Issued, Touches
    <2>2. QED  BY <1>2, <1>4, <2>1, Given, OthersMatch
  <1>7. Awaits(u)'
    <2>1. CASE over
      BY <1>4, <1>5, <2>1 DEF Awaits
    <2>2. CASE ~over
      BY <1>3, <1>4, <1>5, <2>2, Given, AwaitsStays
    <2>3. QED  BY <2>1, <2>2
  <1>8. ASSUME u \notin overtaken PROVE Matched(u)'
    <2>1. Matched(u) /\ Awaits(u)
      BY <1>8, Given
    <2>2. CASE over
      <3>1. \A k \in Tokens : token'[k].state = "open" /\ token'[k].owner = u =>
              token'[k].type # "password_reset"
        BY <1>2, <2>1, <2>2 DEF Using, Matched, Unconsumed
      <3>2. QED  BY <1>2, <1>5, <2>1, <2>2, <3>1 DEF Using, Matched, Unconsumed
    <2>3. CASE ~over
      <3>1. awaited'[u] = awaited[u] /\ (mustReset'[u] <=> mustReset[u])
        BY <1>4, <1>5, <2>3
      <3>2. awaited[u] # t
        BY <1>1, <2>1, <2>3, Given DEF Awaits, Issued
      <3>3. awaited[u] # None => awaited[u] \in Tokens
        BY <2>1 DEF Awaits, Issued
      <3>4. mustReset[u] => awaited[u] # None /\ token'[awaited[u]].state = "open"
        BY <1>2, <2>1, <3>2, <3>3 DEF Using, Matched, Unconsumed
      <3>5. QED  BY <1>2, <2>1, <3>1, <3>4 DEF Using, Matched, Unconsumed
    <2>4. QED  BY <2>2, <2>3
  <1>9. QED  BY <1>2, <1>3, <1>6, <1>7, <1>8, Given DEF Good

\* The other steps of a delivery, and its entries, leave tokens and accounts as they are.
LEMMA DeliveryMatches ==
    ASSUME IInv, Matching, NEW r \in Requests,
           DeliveryAccepted(r) \/ DeliveryCancelled(r) \/ AuditFailure(r)
    PROVE  Good
  <1>1. Using({}) /\ UNCHANGED <<status, version, mustReset, awaited, overtaken>>
    <2>1. CASE DeliveryAccepted(r) \/ DeliveryCancelled(r)
      BY <2>1, DeliveriesUse DEF DeliveryAccepted, DeliveryCancelled, accountVars
    <2>2. CASE AuditFailure(r)
      BY <2>2 DEF AuditFailure, accountVars, Using
    <2>3. QED  BY <2>1, <2>2
  <1>2. Kept
    BY <1>1 DEF Kept, Using
  <1>3. \A m \in Members : Awaits(m)' /\ (Matched(m) => Matched(m)')
    BY <1>1, Given, OthersMatch DEF Using
  <1>4. QED  BY <1>1, <1>2, <1>3, Given DEF Good

\* A writing step ends its request, hands it on to the delivery, or leaves an entry to write.
LEMMA WritesKnow ==
    ASSUME IInv, Matching, NEW r \in Requests, Writes(r)
    PROVE  \E q : request' = [request EXCEPT ![r] = q] /\ Knows(q)'
  <1>1. request[r] \in RequestType /\ request \in [Requests -> RequestType]
    BY DEF IInv, TypeOK, RequestType
  <1>2. Knows(Idle)'
    BY DEF Knows, Idle
  <1>3. ASSUME Finish(r) PROVE \E q : request' = [request EXCEPT ![r] = q] /\ Knows(q)'
    BY <1>2, <1>3 DEF Finish
  <1>4. ASSUME NEW t \in Tokens, CreateInvitation(r, t)
        PROVE  \E q : request' = [request EXCEPT ![r] = q] /\ Knows(q)'
    <2>1. PICK q : q = [request[r] EXCEPT !.step = "send", !.token = t, !.status = "absent",
                                          !.head = 0]
      OBVIOUS
    <2>2. q.step = "send" /\ q.token = t /\ q.member = request[r].member
      BY <1>1, <2>1 DEF RequestType
    <2>3. Issuing(t, "invite", q.member)
      BY <1>4, <2>2, SupersedeIssues DEF CreateInvitation
    <2>4. Knows(q)'
      BY <2>2, <2>3 DEF Knows, Issued, Issuing
    <2>5. request' = [request EXCEPT ![r] = q]
      BY <1>1, <1>4, <2>1 DEF CreateInvitation
    <2>6. QED  BY <2>4, <2>5
  <1>5. ASSUME NEW t \in Tokens, IssuePasswordReset(r, t)
        PROVE  \E q : request' = [request EXCEPT ![r] = q] /\ Knows(q)'
    <2>1. PICK q : q = [request[r] EXCEPT !.step = "send", !.token = t, !.head = 0]
      OBVIOUS
    <2>2. q.step = "send" /\ q.token = t /\ q.member = request[r].member
      BY <1>1, <2>1 DEF RequestType
    <2>3. Issuing(t, "password_reset", q.member)
      BY <1>5, <2>2, SupersedeIssues DEF IssuePasswordReset
    <2>4. Knows(q)'
      BY <2>2, <2>3 DEF Knows, Issued, Issuing
    <2>5. request' = [request EXCEPT ![r] = q]
      BY <1>1, <1>5, <2>1 DEF IssuePasswordReset
    <2>6. QED  BY <2>4, <2>5
  <1>6. ASSUME DeliveryFailed(r) PROVE \E q : request' = [request EXCEPT ![r] = q] /\ Knows(q)'
    <2>1. PICK q : q = [request[r] EXCEPT !.step = "read", !.op = "failed", !.tries = 1]
      OBVIOUS
    <2>2. q.step = "read" /\ q.op = "failed"
      BY <1>1, <2>1 DEF RequestType
    <2>3. Knows(q)'
      BY <2>2 DEF Knows
    <2>4. request' = [request EXCEPT ![r] = q]
      BY <1>1, <1>6, <2>1 DEF DeliveryFailed
    <2>5. QED  BY <2>3, <2>4
  <1>7. QED
    BY <1>3, <1>4, <1>5, <1>6
       DEF Writes, Logout, ChangePassword, AcceptInvitation, InsertCredential, CompletePasswordReset,
           CompleteWithoutRotation, DisableMembership, EnableMembership, DeliveryAccepted,
           DeliveryCancelled, AuditFailure

\* A writing step keeps the match.
LEMMA WritesMatch ==
    ASSUME IInv, Matching, NEW r \in Requests, Writes(r)
    PROVE  Matching'
  <1>1. Good
    BY LogoutMatches, ChangeMatches, InvitationMatches, AcceptMatches, ResetMatches,
       CompleteMatches, InVainMatches, EnableMatches, DisableMatches, FailedMatches,
       DeliveryMatches DEF Writes
  <1>2. PICK q : request' = [request EXCEPT ![r] = q] /\ Knows(q)'
    BY WritesKnow
  <1>3. ASSUME NEW p \in Requests PROVE Knows(request[p])'
    <2>1. CASE p = r
      <3>1. request'[p] = q
        BY <1>2, <2>1 DEF IInv, TypeOK
      <3>2. QED  BY <1>2, <3>1 DEF Knows, Issued, Unconsumed
    <2>2. CASE p # r
      <3>1. PICK x \in RequestType : x = request[p]
        BY DEF IInv, TypeOK, RequestType
      <3>2. request'[p] = x
        BY <1>2, <2>2, <3>1 DEF IInv, TypeOK
      <3>3. Addressed(x) /\ Knows(x) /\ (x.op = "complete" => Completing(x.member))
        BY <3>1 DEF IInv, WellAddressed, Matching, Completing
      <3>4. Knows(x)'
        BY <1>1, <3>3, KeptKnows DEF Good
      <3>5. QED  BY <3>2, <3>4 DEF Knows, Issued, Unconsumed
    <2>3. QED  BY <2>1, <2>2
  <1>4. QED  BY <1>1, <1>3 DEF Matching, Good

LEMMA InitMatching == Init => Matching
  <1>. SUFFICES ASSUME Init PROVE Matching
    OBVIOUS
  <1>1. \A r \in Requests : Knows(request[r])
    BY IdleKnows DEF Init
  <1>2. \A t \in Tokens : token[t].state = "new"
    BY DEF Init, NoToken
  <1>3. QED  BY <1>1, <1>2 DEF Init, Matching, Awaits, Matched, Unconsumed

LEMMA MatchingInductive == Spec => []Matching
  <1>1. IInv /\ Matching /\ [Next]_vars => Matching'
    <2>. SUFFICES ASSUME IInv, Matching, [Next]_vars PROVE Matching'
      OBVIOUS
    <2>1. CASE UNCHANGED vars
      BY <2>1 DEF Matching, Matched, Awaits, Knows, Issued, Unconsumed, vars, accountVars
    <2>2. CASE Next
      BY <2>2, ReadsOrWrites, ReadsMatch, WritesMatch DEF Next
    <2>3. QED  BY <2>1, <2>2
  <1>2. QED  BY <1>1, InitMatching, Inductive, PTL DEF Spec

\* A token that can be claimed is the one its account waits for, and whoever must reset is
\* waiting for a token that can be claimed: invitations, resets, failed deliveries, status
\* changes and new passwords never get out of step, except for members who were overtaken.
THEOREM TokensStayMatched == Spec => []TokensMatchAccounts
  <1>1. IInv /\ Matching => TokensMatchAccounts
    BY MatchingMatches
  <1>2. QED  BY <1>1, Inductive, MatchingInductive, PTL

\* The entry that a reset was completed is written with the new password and version, except
\* for members who were logged out in the middle of it.
THEOREM CompletionsAreTrue == Spec => CompletedMeansRotated
  <1>1. IInv /\ Matching /\ [Next]_vars =>
          [entries' # entries /\ lastEntry'.kind = "completed" =>
              \/ lastEntry'.member \in overtaken
              \/ /\ version'[lastEntry'.member] = version[lastEntry'.member] + 1
                 /\ ~mustReset'[lastEntry'.member]]_vars
    <2>. SUFFICES ASSUME IInv, Matching, Next, entries' # entries, lastEntry'.kind = "completed"
                  PROVE  \/ lastEntry'.member \in overtaken
                         \/ /\ version'[lastEntry'.member] = version[lastEntry'.member] + 1
                            /\ ~mustReset'[lastEntry'.member]
      OBVIOUS
    <2>1. PICK r \in Requests : Writes(r)
      BY ReadsOrWrites, ReadsOnly DEF Next, auditVars
    <2>2. CASE CompletePasswordReset(r)
      <3>1. lastEntry'.member = request[r].member
        BY <2>2 DEF CompletePasswordReset, Append, Entry
      <3>2. request[r].member \in Members
        BY <2>2, Given DEF CompletePasswordReset, At
      <3>3. QED  BY <2>2, <3>1, <3>2, Given DEF CompletePasswordReset, Rotates
    <2>3. CASE CompleteWithoutRotation(r)
      BY <2>3, ClaimedInVain DEF CompleteWithoutRotation, Append, Entry
    <2>4. CASE ~CompletePasswordReset(r) /\ ~CompleteWithoutRotation(r)
      <3>1. UNCHANGED auditVars \/ \E kind \in Kinds \ {"completed"} : Append(r, kind)
        BY <2>1, <2>4
           DEF Writes, Logout, ChangePassword, CreateInvitation, IssuePasswordReset,
               AcceptInvitation, InsertCredential, DisableMembership, EnableMembership,
               DeliveryAccepted, DeliveryCancelled, DeliveryFailed, AuditFailure, Kinds
      <3>2. QED  BY <3>1 DEF Append, Entry, auditVars
    <2>5. QED  BY <2>2, <2>3, <2>4
  <1>2. QED  BY <1>1, Inductive, MatchingInductive, PTL DEF Spec, CompletedMeansRotated
=============================================================================
