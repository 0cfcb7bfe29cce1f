------------------------------ MODULE RuleSets ------------------------------
(***************************************************************************)
(* Compliance rule sets and roles on the desktop: the handlers of          *)
(* main/ipc with the three JSON files behind them.  Rule sets              *)
(* (local-compliance-store.ts) and memberships                             *)
(* (local-organization-store.ts) are kept by stores that change their      *)
(* cache first and overwrite the file in place with no queue; the audit    *)
(* log (local-activity-store.ts) queues its mutations, replaces its file   *)
(* by an atomic rename and changes its cache last, but reads its file for  *)
(* the first time outside the queue too, for whoever only lists.           *)
(*                                                                         *)
(* Steps.  Node runs a handler to its next input or output, so what        *)
(* happens between two of them is one step.  A file overwritten in place   *)
(* is Broken from its truncation to the end of the write, and may stay     *)
(* Broken when two writes overlap, one fails or the application stops.  A  *)
(* store that cannot read its file starts from its defaults and writes     *)
(* them.  A file that does not exist yet is Broken too: the stores treat   *)
(* both alike.                                                             *)
(*                                                                         *)
(* The rules of a set are one text, 0 for none.  The insurer's preset,     *)
(* which the handlers refuse to change, is left out.                       *)
(***************************************************************************)
EXTENDS Undefined, Naturals, Sequences, FiniteSets

CONSTANTS
    Base,         \* the agency's own rule set, approved from the start
    Sets,         \* identities of sets and revisions created later
    Texts,        \* wordings of the rules of a set
    StartFiles,   \* rule sets an earlier session may have left in the file
    Requests,     \* invocations of handlers, each used once
    MaxBusy,      \* handlers in flight
    MaxFailures,  \* reads and writes that fail
    MaxRestarts,
    Broken

All == Sets \cup {Base}
Statuses == {"none", "draft", "pending", "approved", "rejected"}
Roles == {"agency_admin", "agent"}
RuleSet == [status : Statuses, active : BOOLEAN, root : All \cup {None},
            text : Texts \cup {0}, submitted : Texts \cup {0}]

\* The rules d: what is in force was approved, and what is approved or pending has the very
\* text that was submitted.
Reviewed(d) ==
    \A s \in All :
        /\ d[s].active => d[s].status = "approved"
        /\ d[s].status \in {"pending", "approved"} => d[s].text = d[s].submitted
        /\ d[s].status \in {"pending", "approved"} /\ s # Base => d[s].text # 0

\* An earlier session wrote the file by the same handlers.
ASSUME RuleSetsAssumption ==
    /\ Base \notin Sets /\ None \notin All
    /\ Texts \subseteq Nat \ {0}
    /\ {None, Broken} \cap [All -> RuleSet] = {} /\ \A rs \in SUBSET Requests : rs # None
    /\ StartFiles \subseteq {d \in [All -> RuleSet] : Reviewed(d)} \cup {Broken}
    /\ {MaxBusy, MaxFailures, MaxRestarts} \subseteq Nat

VARIABLES
    cache,     \* what the stores "rules" and "org" hold, None before the first read
    file,      \* what their files hold
    queue,     \* requests waiting for, and the head holding, the activity store
    logged,    \* requests with an entry in the audit log in memory, None before the first read
    logFile,   \* requests with an entry in the audit log on disk
    migrate,   \* the log file is missing or of an older form: the first read writes it
    req,       \* the handlers
    failures, restarts

stores == <<cache, file>>
log == <<queue, logged, logFile, migrate>>
vars == <<stores, log, req, failures, restarts>>

NoSet == [status |-> "none", active |-> FALSE, root |-> None, text |-> 0, submitted |-> 0]
DefaultRules == [s \in All |->
    IF s = Base THEN [NoSet EXCEPT !.status = "approved", !.active = TRUE, !.root = Base]
    ELSE NoSet]
Default == [rules |-> DefaultRules, org |-> "agency_admin"]

Ops == [kind : {"create"}, set : Sets]
       \cup [kind : {"revise"}, set : Sets, from : All]
       \cup [kind : {"edit"}, set : All, text : Texts \cup {0}]
       \cup [kind : {"submit"}, set : All]
       \cup [kind : {"review", "setActive"}, set : All, yes : BOOLEAN]
       \cup [kind : {"role"}, role : Roles]
Target(o) == IF o.kind = "role" THEN "org" ELSE "rules"

Idle == [at |-> "idle", op |-> None, store |-> None, next |-> None, fill |-> FALSE,
         over |-> FALSE]

Init ==
    /\ cache = [rules |-> None, org |-> None]
    /\ \E f \in StartFiles : file = [rules |-> f, org |-> Default.org]
    /\ queue = <<>> /\ logged = None /\ logFile = {} /\ migrate \in BOOLEAN
    /\ req = [r \in Requests |-> Idle]
    /\ failures = 0 /\ restarts = 0

Over == {"idle", "ok", "listed", "error", "gone"}
At(r, step) == req[r].at = step
End(r, how) == req' = [req EXCEPT ![r] = [Idle EXCEPT !.at = how]]
Busy == {r \in Requests : req[r].at \notin Over}
Fault == failures < MaxFailures /\ failures' = failures + 1

-----------------------------------------------------------------------------
(* What the operations do to the rule sets d. *)

\* Mutant: rules are edited whatever the status of their set.
EditableAlways(d, s) == d[s].status # "none"
Editable(d, s) == d[s].status \in {"draft", "rejected"}

\* The guard of an operation, and what it leaves.
Accepts(d, o) ==
    CASE o.kind = "create" -> d[o.set].status = "none"
      [] o.kind = "revise" -> d[o.set].status = "none" /\ d[o.from].status = "approved"
      [] o.kind = "edit" -> Editable(d, o.set) /\ (o.text = 0 => d[o.set].text # 0)
      [] o.kind = "submit" -> d[o.set].status \in {"draft", "rejected"} /\ d[o.set].text # 0
      [] o.kind = "review" -> d[o.set].status = "pending"
      [] o.kind = "setActive" -> d[o.set].status # "none"
                                 /\ (o.yes => d[o.set].status = "approved")

Create(d, o) == [d EXCEPT ![o.set] = [NoSet EXCEPT !.status = "draft", !.root = o.set]]

\* A revision starts as a copy of the rules it revises.
Revise(d, o) ==
    [d EXCEPT ![o.set] = [NoSet EXCEPT !.status = "draft", !.root = d[o.from].root,
                                       !.text = d[o.from].text]]

Edit(d, o) == [d EXCEPT ![o.set].text = o.text]

Submit(d, o) ==
    [d EXCEPT ![o.set].status = "pending", ![o.set].active = FALSE,
              ![o.set].submitted = d[o.set].text]

\* An approved revision is in force instead of every other revision of its root.
ReviewLeaves(d, o, s) ==
    CASE s = o.set -> [d[s] EXCEPT !.status = IF o.yes THEN "approved" ELSE "rejected",
                                   !.active = o.yes]
      [] s # o.set /\ o.yes /\ d[s].root = d[o.set].root -> [d[s] EXCEPT !.active = FALSE]
      [] OTHER -> d[s]

Review(d, o) == [s \in All |-> ReviewLeaves(d, o, s)]

SetActive(d, o) == [d EXCEPT ![o.set].active = o.yes]

Applied(d, o) ==
    CASE o.kind = "create" -> Create(d, o)
      [] o.kind = "revise" -> Revise(d, o)
      [] o.kind = "edit" -> Edit(d, o)
      [] o.kind = "submit" -> Submit(d, o)
      [] o.kind = "review" -> Review(d, o)
      [] o.kind = "setActive" -> SetActive(d, o)
      [] o.kind = "role" -> o.role

-----------------------------------------------------------------------------
(* A handler up to its next input or output.  c is what the caches hold. *)

ReadFirst(r, o, store, c) ==
    /\ cache' = c
    /\ req' = [req EXCEPT ![r] = [Idle EXCEPT !.at = "reading", !.op = o, !.store = store]]

Perform(r, o, c) ==
    CASE c[Target(o)] = None -> ReadFirst(r, o, Target(o), c)
      [] c[Target(o)] # None /\ (o.kind = "role" \/ Accepts(c.rules, o)) ->
           LET next == Applied(c[Target(o)], o) IN
           /\ cache' = [c EXCEPT ![Target(o)] = next]
           /\ req' = [req EXCEPT ![r] = [Idle EXCEPT !.at = "opening", !.op = o,
                                         !.store = Target(o), !.next = next]]
      [] OTHER -> cache' = c /\ End(r, "error")

\* assertPermission: rules:manage, rules:approve and organization:manage are the admin's.
Authorize(r, o, c) ==
    IF c.org = None THEN ReadFirst(r, o, "org", c)
    ELSE IF c.org = "agency_admin" THEN Perform(r, o, c)
    ELSE cache' = c /\ End(r, "error")

Resume(r, c) ==
    IF req[r].store = "org" THEN Authorize(r, req[r].op, c) ELSE Perform(r, req[r].op, c)

Request(r, o) ==
    /\ At(r, "idle") /\ Cardinality(Busy) < MaxBusy
    /\ Authorize(r, o, cache)
    /\ UNCHANGED <<file, log, failures, restarts>>

-----------------------------------------------------------------------------
(* get: the first read of a store.  Several may be under way. *)

Defaults(r) ==
    LET store == req[r].store IN
    /\ cache' = [cache EXCEPT ![store] = Default[store]]
    /\ req' = [req EXCEPT ![r].at = "opening", ![r].fill = TRUE, ![r].next = Default[store]]

ReadFile(r) ==
    /\ At(r, "reading")
    /\ IF file[req[r].store] = Broken THEN Defaults(r)
       ELSE Resume(r, [cache EXCEPT ![req[r].store] = file[req[r].store]])
    /\ UNCHANGED <<file, log, failures, restarts>>

ReadFails(r) == At(r, "reading") /\ Fault /\ Defaults(r) /\ UNCHANGED <<file, log, restarts>>

-----------------------------------------------------------------------------
(* persist: writeFile truncates and writes.  The organization store changes its *)
(* data in place, so what it writes is what it holds by then.                   *)

Writing(store) == {r \in Requests : At(r, "writing") /\ req[r].store = store}

Open(r) ==
    LET store == req[r].store
        content == IF store = "org" THEN cache.org ELSE req[r].next
        others == Writing(store)
    IN
    /\ At(r, "opening")
    /\ file' = [file EXCEPT ![store] = Broken]
    /\ req' = [q \in Requests |->
         CASE q = r -> [req[r] EXCEPT !.at = "writing", !.next = content, !.over = others # {}]
           [] q \in others -> [req[q] EXCEPT !.over = TRUE]
           [] OTHER -> req[q]]
    /\ UNCHANGED <<cache, log, failures, restarts>>

Write(r) ==
    /\ At(r, "writing")
    /\ \E content \in {req[r].next} \cup (IF req[r].over THEN {Broken} ELSE {}) :
         file' = [file EXCEPT ![req[r].store] = content]
    /\ IF req[r].fill
       THEN Resume(r, cache) /\ UNCHANGED queue
       ELSE /\ req' = [req EXCEPT ![r] = [Idle EXCEPT !.at = "auditing", !.store = req[r].store]]
            /\ queue' = Append(queue, r) /\ UNCHANGED cache
    /\ UNCHANGED <<logged, logFile, migrate, failures, restarts>>

\* A write refused at once leaves the file, one that fails later leaves it Broken.
WriteFails(r) ==
    /\ req[r].at \in {"opening", "writing"} /\ Fault
    /\ End(r, "error")
    /\ UNCHANGED <<stores, log, restarts>>

-----------------------------------------------------------------------------
(* The activity store's get: its first read, by the head of the queue or, outside *)
(* of it, by a handler that lists.  Several may be under way.                     *)

Loading == {"asked", "migrating", "loaded"}

\* Who has written no store has no entry to sign.
Lists(r) == req[r].store = None
Readers == {r \in Requests : req[r].at \in Loading /\ Lists(r)}

\* Mutant: a mutation does not wait for the one before it.
NoQueue(r) == TRUE
HasTurn(r) == queue # <<>> /\ Head(queue) = r
LeaveQueue == queue' = Tail(queue)

\* The entry of r, signed onto the log that get returned.
Signed(entries, r) == entries \cup {r}
Sign(r, entries) ==
    req' = [req EXCEPT ![r] = [Idle EXCEPT !.at = "appending", !.next = Signed(entries, r)]]

\* tasks.list, auditLogs.list and the other handlers that only read.
List(r) ==
    /\ At(r, "idle") /\ Cardinality(Busy) < MaxBusy
    /\ IF logged = None THEN req' = [req EXCEPT ![r] = [Idle EXCEPT !.at = "asked"]]
       ELSE End(r, "listed")
    /\ UNCHANGED <<stores, log, failures, restarts>>

ReadLog(r) ==
    /\ At(r, "asked")
    /\ req' = [req EXCEPT ![r].next = logFile,
                          ![r].at = IF migrate THEN "migrating" ELSE "loaded"]
    /\ UNCHANGED <<stores, log, failures, restarts>>

Migrate(r) ==
    /\ At(r, "migrating")
    /\ logFile' = req[r].next /\ migrate' = FALSE
    /\ req' = [req EXCEPT ![r].at = "loaded"]
    /\ UNCHANGED <<stores, queue, logged, failures, restarts>>

Loaded(r) ==
    /\ At(r, "loaded")
    /\ logged' = req[r].next
    /\ IF Lists(r) THEN End(r, "listed") ELSE Sign(r, req[r].next)
    /\ UNCHANGED <<stores, queue, logFile, migrate, failures, restarts>>

-----------------------------------------------------------------------------
(* appendAuditLogs: one mutation of the activity store at a time.  over marks an *)
(* entry that was written while a first read outside the queue was under way.    *)

AppendEntry(r) ==
    /\ At(r, "auditing") /\ HasTurn(r)
    /\ IF logged = None THEN req' = [req EXCEPT ![r].at = "asked"] ELSE Sign(r, logged)
    /\ UNCHANGED <<stores, log, failures, restarts>>

Rename(r) ==
    /\ At(r, "appending")
    /\ logFile' = req[r].next /\ migrate' = FALSE
    /\ req' = [req EXCEPT ![r].at = "renamed", ![r].over = Readers # {}]
    /\ UNCHANGED <<stores, queue, logged, failures, restarts>>

Appended(r) ==
    /\ At(r, "renamed")
    /\ logged' = req[r].next
    /\ LeaveQueue
    /\ req' = [req EXCEPT ![r] = [Idle EXCEPT !.at = "ok", !.over = req[r].over]]
    /\ UNCHANGED <<stores, logFile, migrate, failures, restarts>>

\* The log cannot be read or parsed, its rename is not reached, or its directory cannot be
\* synced after it.
LogFails(r) ==
    /\ req[r].at \in Loading \cup {"appending", "renamed"} /\ Fault
    /\ End(r, "error")
    /\ IF req[r].at \in Loading /\ Lists(r) THEN UNCHANGED queue ELSE LeaveQueue
    /\ UNCHANGED <<stores, logged, logFile, migrate, restarts>>

-----------------------------------------------------------------------------
\* The application stops, at any point, and is started again.
Restart ==
    /\ restarts < MaxRestarts /\ restarts' = restarts + 1
    /\ cache' = [rules |-> None, org |-> None]
    /\ logged' = None /\ queue' = <<>>
    /\ req' = [r \in Requests |-> IF r \in Busy THEN [Idle EXCEPT !.at = "gone"] ELSE req[r]]
    /\ UNCHANGED <<file, logFile, migrate, failures>>

Handle(r) ==
    \/ ReadFile(r) \/ ReadFails(r)
    \/ Open(r) \/ Write(r) \/ WriteFails(r)
    \/ AppendEntry(r) \/ ReadLog(r) \/ Migrate(r) \/ Loaded(r)
    \/ Rename(r) \/ Appended(r) \/ LogFails(r)

Next ==
    \/ \E r \in Requests, o \in Ops : Request(r, o)
    \/ \E r \in Requests : List(r) \/ Handle(r)
    \/ Restart

Spec == Init /\ [][Next]_vars

-----------------------------------------------------------------------------
(* Properties. *)

\* What the store or its file holds, and what is about to be written.
Held == {cache.rules, file.rules}
        \cup {req[r].next : r \in {q \in Requests : req[q].at \in {"opening", "writing"}
                                                    /\ req[q].store = "rules"}}

\* Every rule set in force was approved, and an approved or pending one has the very rules
\* that were submitted, through edits, revisions, lost updates, failures and restarts
\* (assertRuleSetEditable, updateRuleSetStatus, setRuleSetActive).
InForceWasReviewed == \A d \in Held \ {None, Broken} : Reviewed(d)

\* A handler that answered has its entry in the audit log on disk, whatever runs beside
\* it, fails after it or stops the application (the queue of LocalActivityStore.mutate and
\* the order of its write and its cache), unless a handler that lists was reading the log
\* for the first time when the entry was written.
AnsweredIsAudited == \A r \in Requests : At(r, "ok") /\ ~req[r].over => r \in logFile

\* Demonstration, not a claim of the repository: no exception.  A first read outside the
\* queue puts an older log back, in the file or in the cache.
EveryAnswerIsAudited == \A r \in Requests : At(r, "ok") => r \in logFile

\* Demonstration, not a claim of the repository: a set that is written is in the cache.
\* Two first reads at once lose it.
AnswerIsKept ==
    cache.rules # None => \A r \in Requests :
        At(r, "writing") /\ ~req[r].fill /\ req[r].op.kind \in {"create", "revise"}
            => cache.rules[req[r].op.set].status # "none"

\* Demonstration: one revision of a set is in force.  An approved revision that was
\* superseded can be activated again beside the one that superseded it.
OneRevisionInForce ==
    cache.rules # None => \A s, t \in All :
        cache.rules[s].active /\ cache.rules[t].active /\ cache.rules[s].root = cache.rules[t].root
            => s = t
=============================================================================
