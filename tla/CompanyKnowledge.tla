-------------------------- MODULE CompanyKnowledge --------------------------
(***************************************************************************)
(* Knowledge candidates of an organization: extracted from the minutes of  *)
(* a call on the desktop that holds the call, pushed to the cloud (the     *)
(* tables knowledge_candidates, _items and the audit chain of              *)
(* cloudflare/src/company-knowledge.ts), listed and reviewed on every      *)
(* desktop, each with a local copy (local-knowledge-store.ts) that keeps   *)
(* working without the cloud (the knowledge handlers of main/ipc).         *)
(*                                                                         *)
(* Steps.  A mutation of a local store is atomic, its queue orders them.   *)
(* A batch of D1 is atomic.  Every batch here appends to the audit chain   *)
(* under the next sequence number, read right before it; a batch that      *)
(* another one overtook is rolled back as a whole, so the read of the head *)
(* and a batch that succeeds are one step.  What a request read before     *)
(* that may be stale.                                                      *)
(*                                                                         *)
(* A candidate is known by its call, the number of the minute it was       *)
(* extracted from, each with a transcript revision of its own, and the     *)
(* text: the unique key of the table, and the local store keeps one id     *)
(* for it.                                                                 *)
(***************************************************************************)
EXTENDS Undefined, Naturals, FiniteSets

CONSTANTS
    Desktops, Calls, Texts,
    Candidates,  \* what the minutes contain
    Blocked,     \* candidates with legalRisk blocked
    Home,        \* the desktop that holds a call and its minutes
    Handlers,    \* invocations of IPC handlers in flight
    MaxRequests  \* what users and generated minutes ask for in a behaviour

ASSUME KnowledgeAssumption ==
    /\ Candidates \subseteq [call : Calls, minute : Nat \ {0}, text : Texts]
    /\ Blocked \subseteq Candidates
    /\ Home \in [Calls -> Desktops]
    /\ MaxRequests \in Nat
    /\ None \notin Candidates \cup Texts \cup Desktops \cup Calls

VARIABLES
    cand,      \* status of a candidate in the cloud
    item,      \* status of the knowledge item published for a candidate, with its revision
    wording,   \* the text that was published for a candidate
    dupOf,     \* the candidate whose item a candidate marked duplicate repeats
    reviews,   \* entries about reviews of a candidate in the audit chain of the cloud
    latest,    \* newest minute of a call candidates were extracted from, 0 for none
    local,     \* status of a candidate in the local store of a desktop
    entries,   \* knowledge entries of the local store of a desktop
    logged,    \* reviews in the local audit log of a desktop
    handler,   \* handlers in flight
    requests   \* what was asked for so far

cloudVars == <<cand, item, wording, dupOf, reviews>>
localVars == <<local, entries, logged>>
vars == <<cloudVars, latest, localVars, handler, requests>>

Statuses == {"pending", "approved", "rejected", "superseded", "duplicate"}
Reviewed == {"approved", "rejected", "duplicate"}
Rows == [Candidates -> Statuses \cup {"none"}]
NoRows == [c \in Candidates |-> "none"]

Idle == [at |-> "idle", desk |-> None, lists |-> FALSE, todo |-> {}, batch |-> {},
         rows |-> NoRows, cand |-> None, approve |-> FALSE, text |-> None, dup |-> None,
         known |-> FALSE]

\* A store without a file starts empty.
LocalInit ==
    /\ local = [d \in Desktops |-> NoRows]
    /\ entries = [d \in Desktops |-> {}]
    /\ logged = [d \in Desktops |-> {}]

Init ==
    /\ cand = NoRows
    /\ item = [c \in Candidates |-> "none"]
    /\ wording = [c \in Candidates |-> None]
    /\ dupOf = [c \in Candidates |-> None]
    /\ reviews = [c \in Candidates |-> 0]
    /\ latest = [k \in Calls |-> 0]
    /\ LocalInit
    /\ handler = [h \in Handlers |-> Idle]
    /\ requests = 0

At(h, step) == handler[h].at = step
Desk(h) == handler[h].desk
Go(h, step) == handler' = [handler EXCEPT ![h].at = step]
Finish(h) == handler' = [handler EXCEPT ![h] = Idle]

Ask == requests < MaxRequests /\ requests' = requests + 1

SameCall(c, e) == c.call = e.call
SameMinute(c, e) == SameCall(c, e) /\ c.minute = e.minute
OfMinute(k, n) == {c \in Candidates : c.call = k /\ c.minute = n}

-----------------------------------------------------------------------------
(* Extraction: extractAndSaveCompanyKnowledgeCandidates. *)

\* saveCandidates: pending candidates of other minutes are superseded, entries published
\* from another revision need a review, and what is new is pending.  (A draft is compared
\* with entries by hashes of different fields, so no draft is ever found a duplicate.)
SaveCandidates(d, k, n) ==
    /\ local' = [local EXCEPT ![d] = [c \in Candidates |->
         CASE c.call = k /\ c.minute # n /\ @[c] = "pending" -> "superseded"
           [] c \in OfMinute(k, n) /\ @[c] = "none" -> "pending"
           [] OTHER -> @[c]]]
    /\ entries' = [entries EXCEPT ![d] = {
         IF e.source # None /\ e.source.call = k /\ e.source.minute # n
         THEN [e EXCEPT !.status = "needs_review"] ELSE e : e \in @}]

\* From the minute of the active revision, after it was generated, or of any revision on
\* request: an older one may be named, or be made active again.
Extract(h, k, n) ==
    /\ At(h, "idle") /\ Ask
    /\ OfMinute(k, n) # {}
    /\ latest' = [latest EXCEPT ![k] = IF n > @ THEN n ELSE @]
    /\ SaveCandidates(Home[k], k, n)
    /\ handler' = [handler EXCEPT ![h] = [Idle EXCEPT !.at = "push", !.desk = Home[k],
                                                      !.batch = OfMinute(k, n)]]
    /\ UNCHANGED <<cloudVars, logged>>

-----------------------------------------------------------------------------
(* saveKnowledgeCandidates in the cloud: one batch for the candidates of one minute. *)

\* A batch has candidates, all of one minute.
ValidBatch(S) == S # {} /\ \A c, e \in S : SameMinute(c, e)
OtherMinute(S, c) == \E b \in S : SameCall(b, c) /\ b.minute # c.minute
\* INSERT OR IGNORE: a candidate that has a row keeps it.
Inserts(S, c) == c \in S /\ cand[c] = "none"
\* The answer: a handler that lists goes on with it, an extraction is over.
PushAnswered(h) == IF handler[h].lists THEN Go(h, "saved") ELSE Finish(h)

\* Mutant: the other candidates of the call are superseded in whatever status they are.
PushAll(h) ==
    LET batch == handler[h].batch IN
    /\ At(h, "push") /\ ValidBatch(batch)
    /\ cand' = [c \in Candidates |->
         CASE cand[c] # "none" /\ OtherMinute(batch, c) -> "superseded"
           [] Inserts(batch, c) -> "pending"
           [] OTHER -> cand[c]]
    /\ UNCHANGED item
    /\ PushAnswered(h)
    /\ UNCHANGED <<wording, dupOf, reviews, latest, localVars, requests>>
Push(h) ==
    LET batch == handler[h].batch IN
    /\ At(h, "push") /\ ValidBatch(batch)
    /\ cand' = [c \in Candidates |->
         CASE cand[c] = "pending" /\ OtherMinute(batch, c) -> "superseded"
           [] Inserts(batch, c) -> "pending"
           [] OTHER -> cand[c]]
    /\ item' = [c \in Candidates |->
         IF item[c] = "active" /\ OtherMinute(batch, c) THEN "needs_revalidation" ELSE item[c]]
    /\ PushAnswered(h)
    /\ UNCHANGED <<wording, dupOf, reviews, latest, localVars, requests>>

-----------------------------------------------------------------------------
(* Listing: local candidates that are pending are pushed first, minute by minute, *)
(* and what the cloud answers replaces the local rows (syncCandidates).           *)

Minute(S, c) == {e \in S : SameMinute(c, e)}
\* The handler h goes on with the next batch of the candidates S, or with the list itself.
NextBatch(h, d, S) ==
    LET Listing(step, batch) ==
          handler' = [handler EXCEPT ![h] = [Idle EXCEPT !.at = step, !.desk = d, !.lists = TRUE,
                                                 !.batch = batch, !.todo = S \ batch]]
    IN  IF S = {} THEN Listing("list", {}) ELSE \E c \in S : Listing("push", Minute(S, c))

List(h, d) ==
    /\ At(h, "idle") /\ Ask
    /\ NextBatch(h, d, {c \in Candidates : local[d][c] = "pending"})
    /\ UNCHANGED <<cloudVars, latest, localVars>>

\* What a handler asks for: the rows of the minute after its batch, or all of them.
AskedRows(h) == IF At(h, "list") THEN Candidates
                ELSE UNION {Minute(Candidates, b) : b \in handler[h].batch}

\* listKnowledgeCandidates.
ReadRows(h) ==
    /\ At(h, "saved") \/ At(h, "list")
    /\ handler' = [handler EXCEPT ![h] = [@ EXCEPT
         !.at = IF At(h, "saved") THEN "savedRows" ELSE "allRows",
         !.rows = [c \in Candidates |-> IF c \in AskedRows(h) THEN cand[c] ELSE "none"]]]
    /\ UNCHANGED <<cloudVars, latest, localVars, requests>>

Sync(d, rows) ==
    local' = [local EXCEPT ![d] = [c \in Candidates |-> IF rows[c] # "none" THEN rows[c] ELSE @[c]]]

SyncRows(h) ==
    /\ \/ At(h, "savedRows") /\ NextBatch(h, Desk(h), handler[h].todo)
       \/ At(h, "allRows") /\ Finish(h)
    /\ Sync(Desk(h), handler[h].rows)
    /\ UNCHANGED <<cloudVars, latest, entries, logged, requests>>

-----------------------------------------------------------------------------
(* Review: reviewCandidate of the desktop and reviewKnowledgeCandidate of the cloud. *)

HasRow(c) == cand[c] # "none"

\* The local copy, if there is one, must not be blocked for an approval.
Review(h, d, c, approve, x) ==
    /\ At(h, "idle") /\ Ask /\ HasRow(c)
    /\ ~(approve /\ local[d][c] # "none" /\ c \in Blocked)
    /\ handler' = [handler EXCEPT ![h] = [Idle EXCEPT !.at = "find", !.desk = d, !.cand = c,
                     !.approve = approve, !.text = x, !.known = local[d][c] # "none"]]
    /\ UNCHANGED <<cloudVars, latest, localVars>>

FindCandidate(h) ==
    LET c == handler[h].cand IN
    /\ At(h, "find") /\ HasRow(c) /\ cand[c] = "pending"
    /\ ~(handler[h].approve /\ c \in Blocked)
    /\ Go(h, IF handler[h].approve THEN "found" ELSE "claim")
    /\ UNCHANGED <<cloudVars, latest, localVars, requests>>

\* Active items with the same text; two approvals may both find none.
FindDuplicate(h) ==
    LET Same == {e \in Candidates : item[e] = "active" /\ wording[e] = handler[h].text} IN
    /\ At(h, "found")
    /\ \E e \in IF Same = {} THEN {None} ELSE Same :
         handler' = [handler EXCEPT ![h].dup = e, ![h].at = "claim"]
    /\ UNCHANGED <<cloudVars, latest, localVars, requests>>

\* The entry of the audit chain, inserted if the claim of the same batch changed the row.
LogInCloud(c) == reviews' = [reviews EXCEPT ![c] = @ + 1]

\* What the batch of a review leaves for the candidate c that it claims.
Decide(h, c) ==
    LET publishes == handler[h].approve /\ handler[h].dup = None IN
    /\ cand' = [cand EXCEPT ![c] = IF publishes THEN "approved"
                                   ELSE IF handler[h].approve THEN "duplicate" ELSE "rejected"]
    /\ item' = IF publishes THEN [item EXCEPT ![c] = "active"] ELSE item
    /\ wording' = IF publishes THEN [wording EXCEPT ![c] = handler[h].text] ELSE wording
    /\ dupOf' = [dupOf EXCEPT ![c] = handler[h].dup]
    /\ LogInCloud(c)

\* Mutant: the claim does not ask for the status again.
ClaimAnyway(h) ==
    /\ At(h, "claim") /\ Decide(h, handler[h].cand) /\ Go(h, "reviewed")
    /\ UNCHANGED <<latest, localVars, requests>>
\* Mutant: nobody looks whether the claim changed a row.
ClaimUnasserted(h) ==
    LET c == handler[h].cand IN
    /\ At(h, "claim") /\ Go(h, "reviewed")
    /\ IF cand[c] = "pending" THEN Decide(h, c) ELSE UNCHANGED cloudVars
    /\ UNCHANGED <<latest, localVars, requests>>
\* Item, revision, outbox row and audit entry are inserted if the claim changed the row; a
\* request whose claim changed nothing is refused (assertD1MutationChanged).
Claim(h) ==
    LET c == handler[h].cand IN
    /\ At(h, "claim")
    /\ IF cand[c] = "pending" THEN Decide(h, c) /\ Go(h, "reviewed")
       ELSE UNCHANGED cloudVars /\ Finish(h)
    /\ UNCHANGED <<latest, localVars, requests>>

\* What a search of the local store finds.
Found(d) == {e \in entries[d] : e.status = "approved"}
SameEntry(d, x) == \E e \in Found(d) : e.text = x
ReplaceCandidate(d, c, status) == local' = [local EXCEPT ![d][c] = status]

\* reviewCandidate of the local store; it throws if a sync has replaced the pending row.
ReviewLocally(h) ==
    LET c == handler[h].cand
        d == Desk(h)
        x == handler[h].text
        status == CASE ~handler[h].approve -> "rejected"
                    [] handler[h].approve /\ SameEntry(d, x) -> "duplicate"
                    [] OTHER -> "approved"
    IN
    /\ At(h, "reviewed")
    /\ IF ~handler[h].known THEN UNCHANGED <<local, entries>> /\ Go(h, "local")
       ELSE IF local[d][c] # "pending" THEN UNCHANGED <<local, entries>> /\ Finish(h)
       ELSE /\ ReplaceCandidate(d, c, status)
            /\ entries' = [entries EXCEPT ![d] = IF status # "approved" THEN @ ELSE
                             @ \cup {[source |-> c, text |-> x, status |-> "approved"]}]
            /\ Go(h, "local")
    /\ UNCHANGED <<cloudVars, latest, logged, requests>>

\* The row the cloud answered with: a reviewed row does not change any more.
SyncReviewed(h) ==
    LET c == handler[h].cand IN
    /\ At(h, "local") /\ Go(h, "synced")
    /\ Sync(Desk(h), [NoRows EXCEPT ![c] = cand[c]])
    /\ UNCHANGED <<cloudVars, latest, entries, logged, requests>>

LogReview(h) ==
    /\ At(h, "synced") /\ Finish(h)
    /\ logged' = [logged EXCEPT ![Desk(h)] = @ \cup {handler[h].cand}]
    /\ UNCHANGED <<cloudVars, latest, local, entries, requests>>

-----------------------------------------------------------------------------
(* Entries made by hand, and handlers that end early. *)

CreateEntry(d, x) ==
    /\ Ask
    /\ entries' = [entries EXCEPT ![d] =
         @ \cup {[source |-> None, text |-> x, status |-> "approved"]}]
    /\ UNCHANGED <<cloudVars, latest, local, logged, handler>>

DeleteEntry(d, e) ==
    /\ Ask /\ e \in entries[d]
    /\ entries' = [entries EXCEPT ![d] = @ \ {e}]
    /\ UNCHANGED <<cloudVars, latest, local, logged, handler>>

\* The cloud refuses or is out of reach, its answer is lost, a local file cannot be
\* written, or the app is closed: what was done stays done.
GiveUp(h) ==
    /\ ~At(h, "idle") /\ Finish(h)
    /\ UNCHANGED <<cloudVars, latest, localVars, requests>>

-----------------------------------------------------------------------------
Step(h) ==
    \/ Push(h) \/ ReadRows(h) \/ SyncRows(h)
    \/ FindCandidate(h) \/ FindDuplicate(h) \/ Claim(h)
    \/ ReviewLocally(h) \/ SyncReviewed(h) \/ LogReview(h) \/ GiveUp(h)

Next ==
    \/ \E h \in Handlers :
         \/ Step(h)
         \/ \E c \in Candidates : Extract(h, c.call, c.minute)
         \/ \E d \in Desktops : List(h, d)
         \/ \E d \in Desktops, c \in Candidates, approve \in BOOLEAN, x \in Texts :
              Review(h, d, c, approve, x)
    \/ \E d \in Desktops : \/ \E x \in Texts : CreateEntry(d, x)
                           \/ \E e \in entries[d] : DeleteEntry(d, e)

Spec == Init /\ [][Next]_vars

-----------------------------------------------------------------------------
(* Properties. *)

\* A review in the cloud happens as a whole and once, whoever races for the candidate: an
\* approved candidate has its item, a duplicate the item it repeats, each exactly one
\* entry in the audit chain, and nothing blocked is published (reviewKnowledgeCandidate).
ReviewIsWhole ==
    \A c \in Candidates :
        /\ item[c] # "none" <=> cand[c] = "approved"
        /\ reviews[c] = IF cand[c] \in Reviewed THEN 1 ELSE 0
        /\ cand[c] = "duplicate" => /\ dupOf[c] # None
                                    /\ item[dupOf[c]] # "none"
        /\ c \in Blocked => cand[c] \notin {"approved", "duplicate"}

\* A decision is final: later lists, pushes of stale local candidates and other reviewers
\* do not take it back, and an item that needs revalidation is never active again.
DecisionIsFinal ==
    [][\A c \in Candidates :
         /\ cand[c] \notin {"none", "pending"} => cand'[c] = cand[c]
         /\ item[c] = "needs_revalidation" => item'[c] = item[c]]_vars

\* A desktop publishes and logs nothing of its own: the entry of a candidate in a local
\* store, and the local audit entry of a review, have a review in the cloud behind them.
LocalFollowsCloud ==
    \A d \in Desktops :
        /\ \A e \in entries[d] : e.source # None => cand[e.source] \in {"approved", "duplicate"}
        /\ \A c \in logged[d] : cand[c] \in Reviewed

\* Candidates of an OLD revision are superseded ("旧revision候補のsupersede",
\* docs/mvp-release-roadmap.md): those of the newest minute never are.
NewestIsKept ==
    \A c \in Candidates : cand[c] = "superseded" => c.minute < latest[c.call]

\* Only approved knowledge is searched, local copies included: an entry published from a
\* candidate is found on no desktop while its item in the cloud needs revalidation and
\* nobody is at work.
SearchIsApproved ==
    (\A h \in Handlers : At(h, "idle")) =>
        \A d \in Desktops : \A e \in Found(d) :
            e.source # None => item[e.source] # "needs_revalidation"
=============================================================================
