--------------------------- MODULE RuleSets_proofs ---------------------------
(***************************************************************************)
(* For any sets, texts, requests, failures and restarts: what is in force  *)
(* was reviewed, and who was answered is in the audit log.                 *)
(*                                                                         *)
(* The rules.  Caches, files and what a handler is about to write may be   *)
(* copies of different age, and any of them may replace any other.  So     *)
(* each of them has to be reviewed by itself, and the operations have to   *)
(* keep that of whatever copy they start from.                             *)
(*                                                                         *)
(* The log.  Whoever appends has the head of the queue, so no other        *)
(* mutation changes the log until the entry is in it.  A first read        *)
(* outside the queue may still put an older log back, so every copy, the   *)
(* memory, the file, what was read and what is about to be written, has to *)
(* hold by itself the entries that are promised.                           *)
(***************************************************************************)
EXTENDS RuleSets, TLAPS

Rules == [All -> RuleSet]
Good(d) == d \in Rules /\ Reviewed(d)
RoleValue == Roles \cup {None, Broken}

GoodCache(c) ==
    /\ c \in [rules : Rules \cup {None}, org : RoleValue]
    /\ c.rules = None \/ Good(c.rules)

GoodFile(f) ==
    /\ f \in [rules : Rules \cup {Broken}, org : RoleValue]
    /\ f.rules = Broken \/ Good(f.rules)

LogSteps == Loading \cup {"appending", "renamed"}
Steps == {"reading", "opening", "writing", "auditing"} \cup LogSteps
Handler == [at : Over \cup Steps, op : Ops \cup {None}, store : {"rules", "org", None},
            next : Rules \cup RoleValue \cup SUBSET Requests, fill : BOOLEAN, over : BOOLEAN]

\* What a handler h knows of its operation, and what it is about to write.
GoodHandler(h) ==
    /\ h \in Handler
    /\ h.at \in {"reading", "opening", "writing"} => h.op \in Ops /\ h.store \in {"rules", "org"}
    /\ h.at \in {"opening", "writing"} =>
         IF h.store = "rules" THEN Good(h.next) ELSE h.next \in RoleValue

CopiesAreReviewed ==
    /\ GoodCache(cache) /\ GoodFile(file)
    /\ req \in [Requests -> Handler]
    /\ \A r \in Requests : GoodHandler(req[r])

\* Whose entry is promised, and a copy of the log that has them all.
Answered == {r \in Requests : At(r, "ok") /\ ~req[r].over}
Knows(entries) == entries \subseteq Requests /\ Answered \subseteq entries

\* What the handler r knows of the log.
GoodWriter(r) ==
    /\ req[r].at \in LogSteps => HasTurn(r) \/ r \in Readers
    /\ req[r].at \in LogSteps \ {"asked"} => Knows(req[r].next)
    /\ req[r].at \in {"appending", "renamed"} => logged # None /\ r \in req[r].next
    /\ At(r, "renamed") /\ ~req[r].over => r \in logFile /\ Readers = {}

LogIsQueued ==
    /\ queue \in Seq(Requests)
    /\ Knows(logFile) /\ (logged # None => Knows(logged))
    /\ \A r \in Requests : GoodWriter(r)

RulesInv == CopiesAreReviewed /\ LogIsQueued

-----------------------------------------------------------------------------
(* The operations on the rules. *)

\* A new set, empty or copied from an approved one, is a draft that is not in force.
LEMMA DraftIsGood ==
    ASSUME NEW d, Good(d), NEW s \in All, NEW x \in RuleSet,
           x.status = "draft", ~x.active
    PROVE  Good([d EXCEPT ![s] = x])
  BY DEF Good, Rules, Reviewed

\* Whatever copy of the rules an accepted operation starts from, it leaves reviewed rules.
LEMMA AppliedIsGood ==
    ASSUME NEW d, Good(d), NEW o \in Ops, o.kind # "role", Accepts(d, o)
    PROVE  Good(Applied(d, o))
<1> USE RuleSetsAssumption
<1>1. CASE o.kind = "create"
  <2> DEFINE x == [NoSet EXCEPT !.status = "draft", !.root = o.set]
  <2>1. o.set \in All /\ Applied(d, o) = [d EXCEPT ![o.set] = x]
    BY <1>1 DEF Ops, All, Applied, Create
  <2>2. x \in RuleSet /\ x.status = "draft" /\ ~x.active
    BY <2>1 DEF NoSet, RuleSet, Statuses
  <2>3. Good([d EXCEPT ![o.set] = x])
    BY <2>1, <2>2, DraftIsGood
  <2>4. QED BY <2>1, <2>3
<1>2. CASE o.kind = "revise"
  <2> DEFINE x == [NoSet EXCEPT !.status = "draft", !.root = d[o.from].root,
                                !.text = d[o.from].text]
  <2>1. o.set \in All /\ o.from \in All /\ Applied(d, o) = [d EXCEPT ![o.set] = x]
    BY <1>2 DEF Ops, All, Applied, Revise
  <2>2. x \in RuleSet /\ x.status = "draft" /\ ~x.active
    BY <2>1 DEF NoSet, RuleSet, Statuses, Good, Rules
  <2>3. Good([d EXCEPT ![o.set] = x])
    BY <2>1, <2>2, DraftIsGood
  <2>4. QED BY <2>1, <2>3
<1>3. CASE o.kind = "edit"
  <2>1. /\ o.set \in All /\ o.text \in Texts \cup {0} /\ Applied(d, o) = Edit(d, o)
        /\ d[o.set].status \in {"draft", "rejected"}
    BY <1>3 DEF Ops, Applied, Accepts, Editable
  <2>2. Applied(d, o) \in Rules
    BY <2>1 DEF Good, Rules, RuleSet, Edit
  <2>3. QED BY <2>1, <2>2 DEF Good, Rules, Reviewed, RuleSet, Edit
<1>4. CASE o.kind = "submit"
  <2>1. /\ o.set \in All /\ Applied(d, o) = Submit(d, o) /\ d[o.set].text # 0
    BY <1>4 DEF Ops, Applied, Accepts
  <2>2. Applied(d, o) \in Rules
    BY <2>1 DEF Good, Rules, RuleSet, Statuses, Submit
  <2>3. QED BY <2>1, <2>2 DEF Good, Rules, Reviewed, RuleSet, Submit
<1>5. CASE o.kind = "review"
  <2>1. /\ o.set \in All /\ o.yes \in BOOLEAN /\ Applied(d, o) = Review(d, o)
        /\ d[o.set].status = "pending"
    BY <1>5 DEF Ops, Applied, Accepts
  <2> DEFINE e(s) == ReviewLeaves(d, o, s)
  <2>2. \A s \in All :
          /\ e(s) \in RuleSet
          /\ e(s).text = d[s].text /\ e(s).submitted = d[s].submitted
          /\ s = o.set => e(s).status \in {"approved", "rejected"}
                          /\ (e(s).active => e(s).status = "approved")
          /\ s # o.set => e(s).status = d[s].status /\ (e(s).active => d[s].active)
    <3> SUFFICES ASSUME NEW s \in All, d[s] \in RuleSet
                 PROVE  /\ e(s) \in RuleSet
                        /\ e(s).text = d[s].text /\ e(s).submitted = d[s].submitted
                        /\ s = o.set => e(s).status \in {"approved", "rejected"}
                                        /\ (e(s).active => e(s).status = "approved")
                        /\ s # o.set => e(s).status = d[s].status /\ (e(s).active => d[s].active)
      BY DEF Good, Rules
    <3>1. CASE s = o.set
      <4>1. e(s) = [d[s] EXCEPT !.status = IF o.yes THEN "approved" ELSE "rejected",
                                !.active = o.yes]
        BY <3>1 DEF ReviewLeaves
      <4>2. QED BY <2>1, <3>1, <4>1 DEF RuleSet, Statuses
    <3>2. CASE s # o.set
      <4>1. e(s) \in {d[s], [d[s] EXCEPT !.active = FALSE]}
        BY <3>2 DEF ReviewLeaves
      <4>2. QED BY <3>2, <4>1 DEF RuleSet
    <3>3. QED BY <3>1, <3>2
  <2>3. Applied(d, o) = [s \in All |-> e(s)]
    BY <2>1 DEF Review
  <2> HIDE DEF e
  <2>4. Applied(d, o) \in Rules
    BY <2>2, <2>3 DEF Rules
  <2>5. QED BY <2>1, <2>2, <2>3, <2>4 DEF Good, Reviewed
<1>6. CASE o.kind = "setActive"
  <2>1. /\ o.set \in All /\ o.yes \in BOOLEAN /\ Applied(d, o) = SetActive(d, o)
        /\ o.yes => d[o.set].status = "approved"
    BY <1>6 DEF Ops, Applied, Accepts
  <2>2. Applied(d, o) \in Rules
    BY <2>1 DEF Good, Rules, RuleSet, SetActive
  <2>3. QED BY <2>1, <2>2 DEF Good, Rules, Reviewed, RuleSet, SetActive
<1>7. QED BY <1>1, <1>2, <1>3, <1>4, <1>5, <1>6 DEF Ops
-----------------------------------------------------------------------------
(* A handler up to its next input or output. *)

\* What authorizing and performing leave: a reviewed cache, and a handler that reads, writes
\* reviewed rules, or has ended.
Leaves(r, c) ==
    /\ GoodCache(cache')
    /\ \E h \in Handler : /\ req' = [req EXCEPT ![r] = h]
                          /\ h.at \in {"reading", "opening", "error"}
                          /\ GoodHandler(h)

LEMMA EndedIsGood ==
    ASSUME NEW how \in Over
    PROVE  GoodHandler([Idle EXCEPT !.at = how])
  BY DEF Handler, Idle, Over, GoodHandler, RoleValue

LEMMA RefusedStep ==
    ASSUME NEW r \in Requests, NEW c, GoodCache(c), cache' = c, End(r, "error")
    PROVE  Leaves(r, c)
<1> DEFINE h == [Idle EXCEPT !.at = "error"]
<1>1. GoodHandler(h)
  BY EndedIsGood DEF Over
<1>2. h.at = "error" /\ req' = [req EXCEPT ![r] = h]
  BY DEF Idle, End
<1> HIDE DEF h
<1>3. QED BY <1>1, <1>2 DEF Leaves, GoodHandler

LEMMA PerformStep ==
    ASSUME NEW r \in Requests, NEW o \in Ops, NEW c, GoodCache(c), Perform(r, o, c)
    PROVE  Leaves(r, c)
<1>1. Target(o) \in {"rules", "org"}
  BY DEF Target
<1>2. CASE c[Target(o)] = None
  <2> DEFINE h == [Idle EXCEPT !.at = "reading", !.op = o, !.store = Target(o)]
  <2>1. cache' = c /\ req' = [req EXCEPT ![r] = h]
    BY <1>2 DEF Perform, ReadFirst
  <2>2. GoodHandler(h) /\ h \in Handler /\ h.at = "reading"
    BY <1>1 DEF GoodHandler, Handler, Idle, RoleValue, Steps
  <2> HIDE DEF h
  <2>3. QED BY <2>1, <2>2 DEF Leaves
<1>3. CASE c[Target(o)] # None /\ (o.kind = "role" \/ Accepts(c.rules, o))
  <2> DEFINE next == Applied(c[Target(o)], o)
             h == [Idle EXCEPT !.at = "opening", !.op = o, !.store = Target(o), !.next = next]
  <2>1. cache' = [c EXCEPT ![Target(o)] = next] /\ req' = [req EXCEPT ![r] = h]
    BY <1>3 DEF Perform
  <2>2. CASE o.kind = "role"
    <3>1. Target(o) = "org" /\ next \in RoleValue
      BY <2>2 DEF Target, Applied, Ops, RoleValue
    <3> HIDE DEF next
    <3>2. GoodCache(cache')
      BY <2>1, <3>1 DEF GoodCache
    <3>3. GoodHandler(h) /\ h \in Handler /\ h.at = "opening"
      BY <3>1 DEF GoodHandler, Handler, Idle, Steps
    <3> HIDE DEF h
    <3>4. QED BY <2>1, <3>2, <3>3 DEF Leaves
  <2>3. CASE o.kind # "role"
    <3>1. Target(o) = "rules" /\ Good(c.rules) /\ Accepts(c.rules, o)
      BY <1>3, <2>3 DEF Target, GoodCache
    <3>2. Good(next)
      BY <2>3, <3>1, AppliedIsGood
    <3> HIDE DEF next
    <3>3. GoodCache(cache')
      BY <2>1, <3>1, <3>2 DEF GoodCache, Good
    <3>4. GoodHandler(h) /\ h \in Handler /\ h.at = "opening"
      BY <3>1, <3>2 DEF GoodHandler, Handler, Idle, Steps, Good
    <3> HIDE DEF h
    <3>5. QED BY <2>1, <3>3, <3>4 DEF Leaves
  <2>4. QED BY <2>2, <2>3
<1>4. CASE c[Target(o)] # None /\ ~(o.kind = "role" \/ Accepts(c.rules, o))
  <2>1. cache' = c /\ End(r, "error")
    BY <1>4 DEF Perform
  <2>2. QED BY <2>1, RefusedStep
<1>5. QED BY <1>2, <1>3, <1>4

LEMMA AuthorizeStep ==
    ASSUME NEW r \in Requests, NEW o \in Ops, NEW c, GoodCache(c), Authorize(r, o, c)
    PROVE  Leaves(r, c)
<1>1. CASE c.org = None
  <2> DEFINE h == [Idle EXCEPT !.at = "reading", !.op = o, !.store = "org"]
  <2>1. cache' = c /\ req' = [req EXCEPT ![r] = h]
    BY <1>1 DEF Authorize, ReadFirst
  <2>2. GoodHandler(h) /\ h \in Handler /\ h.at = "reading"
    BY DEF GoodHandler, Handler, Idle, RoleValue, Steps
  <2> HIDE DEF h
  <2>3. QED BY <2>1, <2>2 DEF Leaves
<1>2. CASE c.org # None /\ c.org = "agency_admin"
  BY <1>2, PerformStep DEF Authorize
<1>3. CASE c.org # None /\ c.org # "agency_admin"
  BY <1>3, RefusedStep DEF Authorize
<1>4. QED BY <1>1, <1>2, <1>3

LEMMA ResumeStep ==
    ASSUME NEW r \in Requests, req[r].op \in Ops, NEW c, GoodCache(c), Resume(r, c)
    PROVE  Leaves(r, c)
  BY PerformStep, AuthorizeStep DEF Resume

\* A handler is replaced: the others keep what they know.
LEMMA ReplacedStep ==
    ASSUME CopiesAreReviewed, NEW r \in Requests, NEW h, GoodHandler(h),
           req' = [req EXCEPT ![r] = h], GoodCache(cache'), GoodFile(file')
    PROVE  CopiesAreReviewed'
<1>1. req' \in [Requests -> Handler]
  BY DEF CopiesAreReviewed, GoodHandler
<1>2. \A q \in Requests : req'[q] \in {req[q], h}
  BY DEF CopiesAreReviewed
<1>3. QED BY <1>1, <1>2 DEF CopiesAreReviewed, GoodCache, GoodFile, GoodHandler, Good, Rules

LEMMA LeavesReviewed ==
    ASSUME CopiesAreReviewed, NEW r \in Requests, NEW c, Leaves(r, c), GoodFile(file')
    PROVE  CopiesAreReviewed'
  BY ReplacedStep DEF Leaves

LEMMA EndReviewed ==
    ASSUME CopiesAreReviewed, NEW r \in Requests, NEW how \in Over, End(r, how),
           UNCHANGED cache, GoodFile(file')
    PROVE  CopiesAreReviewed'
  BY EndedIsGood, ReplacedStep DEF End, CopiesAreReviewed

\* The defaults are reviewed: the agency's own rules, approved from the start.
LEMMA DefaultsAreGood == Good(Default.rules) /\ Default.org \in Roles
  BY RuleSetsAssumption
  DEF Good, Default, DefaultRules, NoSet, Rules, RuleSet, Statuses, All, Reviewed, Roles

LEMMA InitReviewed == Init => CopiesAreReviewed
<1> SUFFICES ASSUME Init PROVE CopiesAreReviewed
  OBVIOUS
<1>1. GoodCache(cache)
  BY DEF Init, GoodCache, RoleValue
<1>2. GoodFile(file)
  <2>1. PICK f \in StartFiles : file = [rules |-> f, org |-> Default.org]
    BY DEF Init
  <2>2. f = Broken \/ Good(f)
    BY RuleSetsAssumption DEF Good, Rules
  <2>3. QED BY <2>1, <2>2, DefaultsAreGood DEF GoodFile, RoleValue, Good
<1>3. GoodHandler(Idle)
  BY DEF Handler, Idle, Over, GoodHandler, RoleValue
<1>4. QED BY <1>1, <1>2, <1>3 DEF Init, CopiesAreReviewed, GoodHandler

LEMMA HandleReviewed ==
    ASSUME CopiesAreReviewed, LogIsQueued, NEW r \in Requests, Handle(r)
    PROVE  CopiesAreReviewed'
<1>0. /\ GoodCache(cache) /\ GoodFile(file) /\ GoodHandler(req[r]) /\ req[r] \in Handler
      /\ req \in [Requests -> Handler]
  BY DEF CopiesAreReviewed
<1>1. CASE At(r, "reading") /\ Defaults(r) /\ UNCHANGED file
  <2> DEFINE store == req[r].store
             h == [req[r] EXCEPT !.at = "opening", !.fill = TRUE, !.next = Default[store]]
  <2>1. store \in {"rules", "org"} /\ req[r].op \in Ops
    BY <1>0, <1>1 DEF GoodHandler, At
  <2>2. GoodCache(cache')
    BY <1>0, <1>1, <2>1, DefaultsAreGood DEF GoodCache, Defaults, RoleValue, Good
  <2>3. GoodHandler(h)
    BY <1>0, <2>1, DefaultsAreGood DEF GoodHandler, Handler, Steps, RoleValue, Good
  <2>4. req' = [req EXCEPT ![r] = h]
    BY <1>0, <1>1 DEF Defaults
  <2> HIDE DEF h
  <2>5. QED BY <1>0, <1>1, <2>2, <2>3, <2>4, ReplacedStep
<1>2. CASE ReadFile(r)
  <2> DEFINE c == [cache EXCEPT ![req[r].store] = file[req[r].store]]
  <2>1. req[r].store \in {"rules", "org"} /\ req[r].op \in Ops /\ UNCHANGED file
    BY <1>0, <1>2 DEF GoodHandler, At, ReadFile
  <2>2. CASE file[req[r].store] = Broken
    BY <1>1, <1>2, <2>2 DEF ReadFile
  <2>3. CASE file[req[r].store] # Broken
    <3>1. GoodCache(c)
      BY <1>0, <2>1, <2>3 DEF GoodCache, GoodFile, RoleValue, Good
    <3>2. Resume(r, c)
      BY <1>2, <2>3 DEF ReadFile
    <3> HIDE DEF c
    <3>3. QED BY <1>0, <2>1, <3>1, <3>2, ResumeStep, LeavesReviewed
  <2>4. QED BY <2>2, <2>3
<1>3. CASE ReadFails(r)
  BY <1>1, <1>3 DEF ReadFails
<1>4. CASE Open(r)
  <2> DEFINE content == IF req[r].store = "org" THEN cache.org ELSE req[r].next
             others == Writing(req[r].store)
             h(q) == CASE q = r -> [req[r] EXCEPT !.at = "writing", !.next = content,
                                                  !.over = others # {}]
                       [] q # r /\ q \in others -> [req[q] EXCEPT !.over = TRUE]
                       [] OTHER -> req[q]
  <2>1. \A q \in Requests : GoodHandler(h(q))
    <3>1. GoodHandler([req[r] EXCEPT !.at = "writing", !.next = content, !.over = others # {}])
      BY <1>0, <1>4 DEF Open, At, GoodHandler, Handler, Steps, GoodCache
    <3>2. ASSUME NEW q \in Requests PROVE GoodHandler([req[q] EXCEPT !.over = TRUE])
      <4> DEFINE g == [req[q] EXCEPT !.over = TRUE]
      <4>1. GoodHandler(req[q]) /\ req[q] \in Handler
        BY DEF CopiesAreReviewed
      <4>2. /\ g \in Handler /\ g.at = req[q].at /\ g.op = req[q].op
            /\ g.store = req[q].store /\ g.next = req[q].next
        BY <4>1 DEF Handler
      <4> HIDE DEF g
      <4>3. GoodHandler(g)
        BY <4>1, <4>2 DEF GoodHandler
      <4>4. QED BY <4>3 DEF g
    <3>3. \A q \in Requests : h(q) = req[q] \/ h(q) = [req[q] EXCEPT !.over = TRUE]
                             \/ h(q) = [req[r] EXCEPT !.at = "writing", !.next = content,
                                                      !.over = others # {}]
      OBVIOUS
    <3> HIDE DEF h, content, others
    <3>4. QED BY <3>1, <3>2, <3>3 DEF CopiesAreReviewed
  <2>2. req' = [q \in Requests |-> h(q)] /\ UNCHANGED cache
    BY <1>4 DEF Open, Writing, At
  <2>3. GoodFile(file')
    BY <1>0, <1>4 DEF Open, GoodFile, RoleValue, GoodHandler, At
  <2> HIDE DEF h
  <2>4. QED BY <1>0, <2>1, <2>2, <2>3 DEF CopiesAreReviewed, GoodHandler
<1>5. CASE Write(r)
  <2>1. /\ req[r].store \in {"rules", "org"} /\ req[r].op \in Ops
        /\ IF req[r].store = "rules" THEN Good(req[r].next) ELSE req[r].next \in RoleValue
    BY <1>0, <1>5 DEF GoodHandler, At, Write
  <2>2. GoodFile(file')
    <3>1. PICK content \in {req[r].next, Broken} : file' = [file EXCEPT ![req[r].store] = content]
      BY <1>5 DEF Write
    <3>2. QED BY <1>0, <2>1, <3>1 DEF GoodFile, RoleValue, Good
  <2>3. CASE req[r].fill
    BY <1>0, <1>5, <2>1, <2>2, <2>3, ResumeStep, LeavesReviewed DEF Write
  <2>4. CASE ~req[r].fill
    <3> DEFINE h == [Idle EXCEPT !.at = "auditing", !.store = req[r].store]
    <3>1. req' = [req EXCEPT ![r] = h] /\ UNCHANGED cache
      BY <1>5, <2>4 DEF Write
    <3>2. GoodHandler(h)
      BY <2>1 DEF GoodHandler, Handler, Idle, Steps, RoleValue
    <3> HIDE DEF h
    <3>3. QED BY <1>0, <2>2, <3>1, <3>2, ReplacedStep
  <2>5. QED BY <2>3, <2>4
<1>6. CASE WriteFails(r)
  BY <1>0, <1>6, EndReviewed DEF WriteFails, stores, Over
<1>7. ASSUME NEW entries, entries \subseteq Requests, Sign(r, entries), UNCHANGED <<cache, file>>
      PROVE  CopiesAreReviewed'
  <2> DEFINE h == [Idle EXCEPT !.at = "appending", !.next = Signed(entries, r)]
  <2>1. req' = [req EXCEPT ![r] = h]
    BY <1>7 DEF Sign
  <2>2. GoodHandler(h)
    BY <1>7 DEF GoodHandler, Handler, Idle, Steps, LogSteps, Signed
  <2>3. QED BY <1>0, <1>7, <2>1, <2>2, ReplacedStep
<1>8. ASSUME NEW h \in Handler, h.at \in LogSteps, req' = [req EXCEPT ![r] = h],
             UNCHANGED stores
      PROVE  CopiesAreReviewed'
  <2>1. GoodHandler(h)
    BY <1>8 DEF GoodHandler, LogSteps, Loading
  <2>2. QED BY <1>0, <1>8, <2>1, ReplacedStep DEF stores
<1>9. CASE AppendEntry(r)
  <2>1. CASE logged = None
    <3> DEFINE h == [req[r] EXCEPT !.at = "asked"]
    <3>1. req' = [req EXCEPT ![r] = h] /\ UNCHANGED stores
      BY <1>9, <2>1 DEF AppendEntry
    <3>2. h \in Handler /\ h.at \in LogSteps
      BY <1>0 DEF Handler, Steps, LogSteps, Loading
    <3> HIDE DEF h
    <3>3. QED BY <1>8, <3>1, <3>2
  <2>2. CASE logged # None
    BY <1>7, <1>9, <2>2 DEF AppendEntry, stores, LogIsQueued, Knows
  <2>3. QED BY <2>1, <2>2
<1>10. CASE ReadLog(r)
  <2> DEFINE h == [req[r] EXCEPT !.next = logFile, !.at = IF migrate THEN "migrating" ELSE "loaded"]
  <2>1. req' = [req EXCEPT ![r] = h] /\ UNCHANGED stores
    BY <1>10 DEF ReadLog
  <2>2. h \in Handler /\ h.at \in LogSteps
    BY <1>0 DEF Handler, Steps, LogSteps, Loading, LogIsQueued, Knows
  <2> HIDE DEF h
  <2>3. QED BY <1>8, <2>1, <2>2
<1>11. CASE Migrate(r)
  <2> DEFINE h == [req[r] EXCEPT !.at = "loaded"]
  <2>1. req' = [req EXCEPT ![r] = h] /\ UNCHANGED stores
    BY <1>11 DEF Migrate
  <2>2. h \in Handler /\ h.at \in LogSteps
    BY <1>0 DEF Handler, Steps, LogSteps, Loading
  <2> HIDE DEF h
  <2>3. QED BY <1>8, <2>1, <2>2
<1>12. CASE Loaded(r)
  <2>1. req[r].next \subseteq Requests /\ UNCHANGED <<cache, file>>
    BY <1>12 DEF Loaded, At, LogIsQueued, GoodWriter, Knows, LogSteps, Loading, stores
  <2>2. CASE Lists(r)
    BY <1>0, <1>12, <2>1, <2>2, EndReviewed DEF Loaded, Over
  <2>3. CASE ~Lists(r)
    BY <1>7, <1>12, <2>1, <2>3 DEF Loaded
  <2>4. QED BY <2>2, <2>3
<1>13. CASE Rename(r)
  <2> DEFINE h == [req[r] EXCEPT !.at = "renamed", !.over = Readers # {}]
  <2>1. req' = [req EXCEPT ![r] = h] /\ UNCHANGED stores
    BY <1>13 DEF Rename
  <2>2. h \in Handler /\ h.at \in LogSteps
    BY <1>0 DEF Handler, Steps, LogSteps
  <2> HIDE DEF h
  <2>3. QED BY <1>8, <2>1, <2>2
<1>14. CASE Appended(r)
  <2> DEFINE h == [Idle EXCEPT !.at = "ok", !.over = req[r].over]
  <2>1. req' = [req EXCEPT ![r] = h] /\ UNCHANGED <<cache, file>>
    BY <1>14 DEF Appended, stores
  <2>2. GoodHandler(h)
    BY <1>0 DEF GoodHandler, Handler, Idle, Over, RoleValue
  <2>3. QED BY <1>0, <2>1, <2>2, ReplacedStep
<1>15. CASE LogFails(r)
  BY <1>0, <1>15, EndReviewed DEF LogFails, stores, Over
<1>16. QED BY <1>2, <1>3, <1>4, <1>5, <1>6, <1>9, <1>10, <1>11, <1>12, <1>13, <1>14, <1>15
       DEF Handle

LEMMA NextReviewed ==
    ASSUME CopiesAreReviewed, LogIsQueued, [Next]_vars
    PROVE  CopiesAreReviewed'
<1>1. CASE \E r \in Requests, o \in Ops : Request(r, o)
  <2>1. PICK r \in Requests, o \in Ops : Authorize(r, o, cache) /\ UNCHANGED file
    BY <1>1 DEF Request
  <2>2. GoodCache(cache) /\ GoodFile(file')
    BY <2>1 DEF CopiesAreReviewed
  <2>3. QED BY <2>1, <2>2, AuthorizeStep, LeavesReviewed
<1>2. CASE \E r \in Requests : Handle(r)
  BY <1>2, HandleReviewed
<1>6. CASE \E r \in Requests : List(r)
  <2>1. PICK r \in Requests : List(r)
    BY <1>6
  <2>2. GoodFile(file') /\ GoodCache(cache') /\ UNCHANGED cache
    BY <2>1 DEF CopiesAreReviewed, List, stores, GoodFile, GoodCache
  <2>3. CASE logged = None
    <3> DEFINE h == [Idle EXCEPT !.at = "asked"]
    <3>1. req' = [req EXCEPT ![r] = h]
      BY <2>1, <2>3 DEF List
    <3>2. GoodHandler(h)
      BY DEF GoodHandler, Handler, Idle, Steps, LogSteps, Loading, RoleValue
    <3>3. QED BY <2>2, <3>1, <3>2, ReplacedStep
  <2>4. CASE logged # None
    BY <2>1, <2>2, <2>4, EndReviewed DEF List, Over
  <2>5. QED BY <2>3, <2>4
<1>3. CASE Restart
  <2> DEFINE h(r) == IF r \in Busy THEN [Idle EXCEPT !.at = "gone"] ELSE req[r]
  <2>1. \A r \in Requests : GoodHandler(h(r))
    BY EndedIsGood DEF CopiesAreReviewed, Over
  <2>2. req' = [r \in Requests |-> h(r)]
    BY <1>3 DEF Restart
  <2> HIDE DEF h
  <2>3. GoodCache(cache') /\ GoodFile(file')
    BY <1>3 DEF Restart, CopiesAreReviewed, GoodCache, RoleValue
  <2>4. QED BY <2>1, <2>2, <2>3 DEF CopiesAreReviewed, GoodHandler
<1>4. CASE UNCHANGED vars
  BY <1>4 DEF vars, stores, CopiesAreReviewed, GoodCache, GoodFile, GoodHandler
<1>5. QED BY <1>1, <1>2, <1>3, <1>4, <1>6 DEF Next

-----------------------------------------------------------------------------
(* The log. *)

\* Steps outside the log leave it in order: a handler that changes is not at the log and has
\* not answered, and more requests may queue.
LEMMA QuietStep ==
    ASSUME LogIsQueued,
           \A q \in Requests :
              \/ req'[q].at \notin LogSteps \cup {"ok"}
              \/ /\ req'[q].at = req[q].at /\ req'[q].next = req[q].next
                 /\ req'[q].over = req[q].over /\ req'[q].store = req[q].store,
           queue' \in Seq(Requests), queue # <<>> => queue' # <<>> /\ Head(queue') = Head(queue),
           UNCHANGED <<logged, logFile>>
    PROVE  LogIsQueued'
<1>1. Answered' \subseteq Answered /\ Readers' \subseteq Readers
  BY DEF Answered, Readers, Lists, At, LogSteps
<1>2. \A entries : Knows(entries) => Knows(entries)'
  BY <1>1 DEF Knows
<1>3. ASSUME NEW q \in Requests PROVE GoodWriter(q)'
  <2>1. CASE req'[q].at \notin LogSteps \cup {"ok"}
    BY <2>1 DEF GoodWriter, At, LogSteps
  <2>2. CASE req'[q].at = req[q].at /\ req'[q].next = req[q].next
             /\ req'[q].over = req[q].over /\ req'[q].store = req[q].store
    <3>1. GoodWriter(q) /\ (HasTurn(q) => HasTurn(q)') /\ (q \in Readers => q \in Readers')
      BY <2>2 DEF LogIsQueued, HasTurn, Readers, Lists
    <3>2. QED BY <1>1, <1>2, <2>2, <3>1 DEF GoodWriter, At
  <2>3. QED BY <2>1, <2>2
<1>4. QED BY <1>2, <1>3 DEF LogIsQueued

LEMMA QueueStep ==
    ASSUME LogIsQueued, NEW r \in Requests, NEW h, req \in [Requests -> Handler],
           req' = [req EXCEPT ![r] = h], h.at \notin LogSteps \cup {"ok"},
           queue' = queue \/ queue' = Append(queue, r),
           UNCHANGED <<logged, logFile>>
    PROVE  LogIsQueued'
<1>1. queue' \in Seq(Requests) /\ (queue # <<>> => queue' # <<>> /\ Head(queue') = Head(queue))
  BY DEF LogIsQueued
<1>2. \A q \in Requests : req'[q] = IF q = r THEN h ELSE req[q]
  OBVIOUS
<1>3. QED BY <1>1, <1>2, QuietStep

\* Whoever has the turn is alone: nobody else is in the queue's part of the log.
LEMMA OneTurn ==
    ASSUME LogIsQueued, NEW r \in Requests, HasTurn(r), NEW q \in Requests \ {r},
           req[q].at \in LogSteps
    PROVE  q \in Readers
  BY DEF LogIsQueued, GoodWriter, HasTurn

\* A handler at the log moves on, with a copy of the log that has what is promised.
LEMMA MovesOn ==
    ASSUME LogIsQueued, req \in [Requests -> Handler], NEW r \in Requests, NEW h,
           req' = [req EXCEPT ![r] = h], h.at # "ok",
           Answered' \subseteq Answered,
           UNCHANGED queue, Knows(logFile'), logged' # None => Knows(logged'),
           logged # None => logged' # None,
           \A q \in Requests \ {r} :
              At(q, "renamed") /\ ~req[q].over => Readers' = {} /\ UNCHANGED logFile,
           GoodWriter(r)'
    PROVE  LogIsQueued'
<1>1. \A q \in Requests : req'[q] = IF q = r THEN h ELSE req[q]
  OBVIOUS
<1>2. \A entries : Knows(entries) => Knows(entries)'
  BY DEF Knows
<1>3. ASSUME NEW q \in Requests \ {r} PROVE GoodWriter(q)'
  <2>1. GoodWriter(q) /\ (HasTurn(q) => HasTurn(q)') /\ (q \in Readers => q \in Readers')
    BY <1>1 DEF LogIsQueued, HasTurn, Readers, Lists
  <2>2. req'[q] = req[q]
    BY <1>1
  <2>3. QED BY <1>2, <2>1, <2>2 DEF GoodWriter, At
<1>4. QED BY <1>2, <1>3 DEF LogIsQueued, Knows

\* The head of the queue leaves it: who is still at the log only reads.
LEMMA LeavesTurn ==
    ASSUME LogIsQueued, req \in [Requests -> Handler], NEW r \in Requests, HasTurn(r), LeaveQueue,
           NEW h, req' = [req EXCEPT ![r] = h], h.at \notin LogSteps,
           Knows(logFile)', (logged # None => Knows(logged))',
           \A q \in Readers \ {r} : \A entries : Knows(entries) => Knows(entries)',
           UNCHANGED logFile
    PROVE  LogIsQueued'
<1>1. \A q \in Requests : req'[q] = IF q = r THEN h ELSE req[q]
  OBVIOUS
<1>2. queue' \in Seq(Requests)
  BY DEF LogIsQueued, HasTurn, LeaveQueue
<1>3. GoodWriter(r)'
  BY <1>1 DEF GoodWriter, LogSteps, At
<1>4. ASSUME NEW q \in Requests \ {r} PROVE GoodWriter(q)'
  <2>1. req'[q] = req[q] /\ GoodWriter(q)
    BY <1>1 DEF LogIsQueued
  <2>2. CASE req[q].at \in LogSteps
    <3>1. q \in Readers /\ q \in Readers' /\ req[q].at \in Loading
      BY <2>1, <2>2, OneTurn DEF Readers, Lists
    <3>2. QED BY <2>1, <3>1 DEF GoodWriter, At, Loading, LogSteps
  <2>3. CASE req[q].at \notin LogSteps
    BY <2>1, <2>3 DEF GoodWriter, LogSteps, At
  <2>4. QED BY <2>2, <2>3
<1>5. QED BY <1>2, <1>3, <1>4 DEF LogIsQueued

LEMMA HandleLogged ==
    ASSUME CopiesAreReviewed, LogIsQueued, NEW r \in Requests, Handle(r)
    PROVE  LogIsQueued'
<1>0. /\ GoodCache(cache) /\ GoodFile(file) /\ GoodHandler(req[r]) /\ req[r] \in Handler
      /\ req \in [Requests -> Handler]
  BY DEF CopiesAreReviewed
<1>1. ASSUME NEW c, Leaves(r, c), UNCHANGED log PROVE LogIsQueued'
  BY <1>0, <1>1, QueueStep DEF Leaves, log, LogSteps, Loading
<1>2. ASSUME At(r, "reading"), Defaults(r), UNCHANGED log PROVE LogIsQueued'
  <2> DEFINE h == [req[r] EXCEPT !.at = "opening", !.fill = TRUE, !.next = Default[req[r].store]]
  <2>1. req' = [req EXCEPT ![r] = h] /\ h.at = "opening"
    BY <1>0, <1>2 DEF Defaults, Handler
  <2> HIDE DEF h
  <2>2. QED BY <1>0, <1>2, <2>1, QueueStep DEF log, LogSteps, Loading
<1>3. CASE ReadFile(r)
  <2> DEFINE c == [cache EXCEPT ![req[r].store] = file[req[r].store]]
  <2>1. req[r].store \in {"rules", "org"} /\ req[r].op \in Ops
    BY <1>0, <1>3 DEF GoodHandler, At, ReadFile
  <2>2. CASE file[req[r].store] = Broken
    BY <1>2, <1>3, <2>2 DEF ReadFile
  <2>3. CASE file[req[r].store] # Broken
    <3>1. GoodCache(c)
      BY <1>0, <2>1, <2>3 DEF GoodCache, GoodFile, RoleValue, Good
    <3>2. Resume(r, c) /\ UNCHANGED log
      BY <1>3, <2>3 DEF ReadFile
    <3> HIDE DEF c
    <3>3. QED BY <1>1, <2>1, <3>1, <3>2, ResumeStep
  <2>4. QED BY <2>2, <2>3
<1>4. CASE ReadFails(r)
  BY <1>2, <1>4 DEF ReadFails
<1>5. CASE Open(r)
  <2>1. ASSUME NEW q \in Requests
        PROVE  /\ req'[q].at = IF q = r THEN "writing" ELSE req[q].at
               /\ q # r => req'[q] = req[q] \/ req'[q].at = "writing"
    <3>1. req[q] \in Handler
      BY <1>0
    <3>2. CASE q = r
      <4>1. req'[q] = [req[r] EXCEPT !.at = "writing",
                         !.next = IF req[r].store = "org" THEN cache.org ELSE req[r].next,
                         !.over = Writing(req[r].store) # {}]
        BY <1>5, <3>2 DEF Open, Writing, At
      <4>2. QED BY <3>1, <3>2, <4>1 DEF Handler
    <3>3. CASE q # r
      <4>1. \/ req'[q] = req[q]
            \/ req[q].at = "writing" /\ req'[q] = [req[q] EXCEPT !.over = TRUE]
        BY <1>5, <3>3 DEF Open, Writing, At
      <4>2. QED BY <3>1, <3>3, <4>1 DEF Handler
    <3>4. QED BY <3>2, <3>3
  <2>2. UNCHANGED log /\ At(r, "opening")
    BY <1>5 DEF Open
  <2>3. \A q \in Requests : req'[q].at \notin LogSteps \cup {"ok"} \/ req'[q] = req[q]
    BY <2>1 DEF LogSteps, Loading
  <2>4. QED BY <2>2, <2>3, QuietStep DEF log, LogIsQueued
<1>6. CASE Write(r)
  <2>1. CASE req[r].fill
    <3>1. Resume(r, cache) /\ UNCHANGED log /\ req[r].op \in Ops
      BY <1>0, <1>6, <2>1 DEF Write, GoodHandler, At, log
    <3>2. QED BY <1>0, <1>1, <3>1, ResumeStep
  <2>2. CASE ~req[r].fill
    <3> DEFINE h == [Idle EXCEPT !.at = "auditing", !.store = req[r].store]
    <3>1. /\ req' = [req EXCEPT ![r] = h] /\ h.at = "auditing"
          /\ queue' = Append(queue, r) /\ UNCHANGED <<logged, logFile>>
      BY <1>6, <2>2 DEF Write, Idle
    <3> HIDE DEF h
    <3>2. QED BY <1>0, <3>1, QueueStep DEF LogSteps, Loading
  <2>3. QED BY <2>1, <2>2
<1>7. CASE WriteFails(r)
  <2>1. /\ req' = [req EXCEPT ![r] = [Idle EXCEPT !.at = "error"]] /\ UNCHANGED log
        /\ [Idle EXCEPT !.at = "error"].at = "error"
    BY <1>7 DEF WriteFails, End, Idle
  <2>2. QED BY <1>0, <2>1, QueueStep DEF log, LogSteps, Loading
<1>8. ASSUME NEW h, req' = [req EXCEPT ![r] = h], h.at # "ok" PROVE Answered' \subseteq Answered
  BY <1>0, <1>8 DEF Answered, At
<1>9. GoodWriter(r) /\ \A entries : Knows(entries) => Knows(Signed(entries, r))
  BY DEF LogIsQueued, Knows, Signed
<1>10. \A q \in Requests \ {r} : At(q, "renamed") /\ ~req[q].over =>
          ~HasTurn(r) /\ Readers = {} /\ logged # None
  BY OneTurn DEF LogIsQueued, GoodWriter, Readers, At, LogSteps, Loading
\* Whoever has the turn and reads the log, or has read it, is the only one to sign it.
<1>11. ASSUME NEW entries, Knows(entries), HasTurn(r), Sign(r, entries),
              logged' = entries, UNCHANGED <<queue, logFile>>
       PROVE  LogIsQueued'
  <2> DEFINE h == [Idle EXCEPT !.at = "appending", !.next = Signed(entries, r)]
  <2>1. req' = [req EXCEPT ![r] = h] /\ h.at = "appending" /\ h.next = Signed(entries, r)
    BY <1>11 DEF Sign, Idle
  <2> HIDE DEF h
  <2>2. logged' # None
    BY <1>11, RuleSetsAssumption DEF Knows
  <2>3. Answered' \subseteq Answered
    BY <1>8, <2>1
  <2>4. GoodWriter(r)'
    BY <1>0, <1>9, <1>11, <2>1, <2>2, <2>3
    DEF GoodWriter, At, HasTurn, Knows, Signed, LogSteps, Loading
  <2>5. QED BY <1>0, <1>10, <1>11, <2>1, <2>2, <2>3, <2>4, MovesOn DEF LogIsQueued
<1>12. CASE AppendEntry(r)
  <2>1. CASE logged = None
    <3> DEFINE h == [req[r] EXCEPT !.at = "asked"]
    <3>1. req' = [req EXCEPT ![r] = h] /\ h.at = "asked" /\ HasTurn(r) /\ UNCHANGED log
      BY <1>0, <1>12, <2>1 DEF AppendEntry, Handler
    <3> HIDE DEF h
    <3>2. Answered' \subseteq Answered
      BY <1>8, <3>1
    <3>3. GoodWriter(r)'
      BY <1>0, <3>1 DEF GoodWriter, At, HasTurn, log, LogSteps
    <3>4. QED BY <1>0, <1>10, <3>1, <3>2, <3>3, MovesOn DEF LogIsQueued, log
  <2>2. CASE logged # None
    BY <1>11, <1>12, <2>2 DEF AppendEntry, log, LogIsQueued
  <2>3. QED BY <2>1, <2>2
<1>13. CASE ReadLog(r)
  <2> DEFINE h == [req[r] EXCEPT !.next = logFile, !.at = IF migrate THEN "migrating" ELSE "loaded"]
  <2>1. /\ req' = [req EXCEPT ![r] = h] /\ h.at \in {"migrating", "loaded"} /\ h.next = logFile
        /\ h.store = req[r].store /\ At(r, "asked") /\ UNCHANGED log
    BY <1>0, <1>13 DEF ReadLog, Handler
  <2> HIDE DEF h
  <2>2. Answered' \subseteq Answered
    BY <1>8, <2>1
  <2>3. Readers' = Readers
    BY <1>0, <2>1 DEF Readers, Lists, At, Loading
  <2>4. GoodWriter(r)'
    BY <1>0, <1>9, <2>1, <2>2, <2>3
    DEF GoodWriter, At, HasTurn, log, LogSteps, Loading, Knows, LogIsQueued
  <2>5. QED BY <1>0, <1>10, <2>1, <2>2, <2>3, <2>4, MovesOn DEF LogIsQueued, log
<1>14. CASE Migrate(r)
  <2> DEFINE h == [req[r] EXCEPT !.at = "loaded"]
  <2>1. /\ req' = [req EXCEPT ![r] = h] /\ h.at = "loaded" /\ h.next = req[r].next
        /\ h.store = req[r].store /\ At(r, "migrating") /\ UNCHANGED <<queue, logged>>
        /\ logFile' = req[r].next
    BY <1>0, <1>14 DEF Migrate, Handler
  <2> HIDE DEF h
  <2>2. Answered' \subseteq Answered
    BY <1>8, <2>1
  <2>3. Readers' = Readers
    BY <1>0, <2>1 DEF Readers, Lists, At, Loading
  <2>4. Knows(req[r].next) /\ (HasTurn(r) \/ r \in Readers)
    BY <1>9, <2>1 DEF GoodWriter, At, LogSteps, Loading
  <2>5. GoodWriter(r)'
    BY <1>0, <2>1, <2>2, <2>3, <2>4 DEF GoodWriter, At, HasTurn, LogSteps, Loading, Knows
  <2>6. QED BY <1>0, <1>10, <2>1, <2>2, <2>3, <2>4, <2>5, MovesOn DEF LogIsQueued
<1>15. CASE Loaded(r)
  <2>1. /\ At(r, "loaded") /\ logged' = req[r].next /\ UNCHANGED <<queue, logFile>>
        /\ Knows(req[r].next) /\ (HasTurn(r) \/ r \in Readers)
    BY <1>9, <1>15 DEF Loaded, GoodWriter, At, LogSteps, Loading
  <2>2. CASE Lists(r)
    <3> DEFINE h == [Idle EXCEPT !.at = "listed"]
    <3>1. req' = [req EXCEPT ![r] = h] /\ h.at = "listed"
      BY <1>15, <2>2 DEF Loaded, End, Idle
    <3> HIDE DEF h
    <3>2. Answered' \subseteq Answered
      BY <1>8, <3>1
    <3>3. logged' # None
      BY <2>1, RuleSetsAssumption DEF Knows
    <3>4. GoodWriter(r)' /\ Readers' \subseteq Readers
      BY <1>0, <3>1 DEF GoodWriter, At, LogSteps, Loading, Readers, Lists
    <3>5. QED BY <1>0, <1>10, <2>1, <3>1, <3>2, <3>3, <3>4, MovesOn DEF LogIsQueued
  <2>3. CASE ~Lists(r)
    BY <1>11, <1>15, <2>1, <2>3 DEF Loaded, Readers
  <2>4. QED BY <2>2, <2>3
<1>16. ASSUME req[r].at \in {"appending", "renamed"}
       PROVE  HasTurn(r) /\ Knows(req[r].next) /\ r \in req[r].next /\ logged # None
  BY <1>9, <1>16 DEF GoodWriter, Readers, LogSteps, Loading
<1>17. CASE Rename(r)
  <2> DEFINE h == [req[r] EXCEPT !.at = "renamed", !.over = Readers # {}]
  <2>1. /\ req' = [req EXCEPT ![r] = h] /\ h.at = "renamed" /\ h.next = req[r].next
        /\ h.over = (Readers # {}) /\ req[r].at = "appending" /\ UNCHANGED <<queue, logged>>
        /\ logFile' = req[r].next
    BY <1>0, <1>17 DEF Rename, Handler, At
  <2> HIDE DEF h
  <2>2. Answered' \subseteq Answered
    BY <1>8, <2>1
  <2>3. Readers' \subseteq Readers
    BY <1>0, <2>1 DEF Readers, Lists, Loading
  <2>4. GoodWriter(r)'
    BY <1>0, <1>16, <2>1, <2>2, <2>3 DEF GoodWriter, At, HasTurn, LogSteps, Loading, Knows
  <2>5. QED BY <1>0, <1>10, <1>16, <2>1, <2>2, <2>3, <2>4, MovesOn DEF LogIsQueued
<1>18. CASE Appended(r)
  <2> DEFINE h == [Idle EXCEPT !.at = "ok", !.over = req[r].over]
  <2>1. /\ req' = [req EXCEPT ![r] = h] /\ h.at = "ok" /\ h.over = req[r].over
        /\ req[r].at = "renamed" /\ logged' = req[r].next /\ UNCHANGED logFile /\ LeaveQueue
    BY <1>18 DEF Appended, At, Idle
  <2> HIDE DEF h
  <2>2. Answered' \subseteq Answered \cup {q \in {r} : ~req[r].over}
    BY <1>0, <2>1 DEF Answered, At
  <2>3. ~req[r].over => r \in logFile /\ Readers = {}
    BY <1>9, <2>1 DEF GoodWriter, At
  <2>4. Knows(logFile)' /\ Knows(logged)'
    BY <1>16, <2>1, <2>2, <2>3 DEF LogIsQueued, Knows
  <2>5. \A q \in Readers \ {r} : Answered' \subseteq Answered
    BY <2>2, <2>3
  <2>6. QED BY <1>0, <1>16, <2>1, <2>4, <2>5, LeavesTurn DEF Knows, LogSteps, Loading
<1>19. CASE LogFails(r)
  <2> DEFINE h == [Idle EXCEPT !.at = "error"]
  <2>1. /\ req' = [req EXCEPT ![r] = h] /\ h.at = "error" /\ req[r].at \in LogSteps
        /\ UNCHANGED <<logged, logFile>> /\ IF r \in Readers THEN UNCHANGED queue ELSE LeaveQueue
    BY <1>19 DEF LogFails, End, Idle, LogSteps, Readers
  <2> HIDE DEF h
  <2>2. Answered' \subseteq Answered
    BY <1>8, <2>1
  <2>3. CASE r \in Readers
    BY <1>0, <2>1, <2>3, QueueStep DEF LogSteps, Loading
  <2>4. CASE r \notin Readers
    <3>1. HasTurn(r)
      BY <1>9, <2>1, <2>4 DEF GoodWriter
    <3>2. Knows(logFile)' /\ (logged # None => Knows(logged))'
      BY <2>1, <2>2 DEF LogIsQueued, Knows
    <3>3. QED BY <1>0, <2>1, <2>2, <2>4, <3>1, <3>2, LeavesTurn DEF Knows, LogSteps, Loading
  <2>5. QED BY <2>3, <2>4
<1>20. QED BY <1>3, <1>4, <1>5, <1>6, <1>7, <1>12, <1>13, <1>14, <1>15, <1>17, <1>18, <1>19
       DEF Handle

LEMMA NextLogged ==
    ASSUME CopiesAreReviewed, LogIsQueued, [Next]_vars
    PROVE  LogIsQueued'
<1>1. CASE \E r \in Requests, o \in Ops : Request(r, o)
  <2>1. PICK r \in Requests, o \in Ops : Authorize(r, o, cache) /\ UNCHANGED log
    BY <1>1 DEF Request
  <2>2. GoodCache(cache) /\ req \in [Requests -> Handler]
    BY DEF CopiesAreReviewed
  <2>3. QED BY <2>1, <2>2, AuthorizeStep, QueueStep DEF Leaves, log, LogSteps, Loading
<1>2. CASE \E r \in Requests : Handle(r)
  BY <1>2, HandleLogged
<1>3. CASE Restart
  <2>1. \A r \in Requests : req'[r].at \notin LogSteps /\ (req'[r].at = "ok" => req'[r] = req[r])
    BY <1>3 DEF Restart, Idle, Busy, Over, LogSteps, Loading
  <2>2. queue' = <<>> /\ logged' = None /\ logFile' = logFile /\ Answered' \subseteq Answered
    BY <1>3, <2>1 DEF Restart, Answered, At
  <2>3. QED BY <2>1, <2>2 DEF LogIsQueued, GoodWriter, Knows, LogSteps, At
<1>4. CASE UNCHANGED vars
  BY <1>4, QuietStep DEF vars, log, LogIsQueued
<1>5. CASE \E r \in Requests : List(r)
  <2>1. PICK r \in Requests : List(r)
    BY <1>5
  <2>2. req \in [Requests -> Handler] /\ UNCHANGED log /\ At(r, "idle")
    BY <2>1 DEF CopiesAreReviewed, List
  <2>3. CASE logged = None
    <3> DEFINE h == [Idle EXCEPT !.at = "asked"]
    <3>1. req' = [req EXCEPT ![r] = h] /\ h.at = "asked" /\ h.store = None
      BY <2>1, <2>3 DEF List, Idle
    <3> HIDE DEF h
    <3>2. Answered' \subseteq Answered /\ r \in Readers'
      BY <2>2, <3>1 DEF Answered, At, Readers, Lists, Loading
    <3>3. GoodWriter(r)' /\ \A q \in Requests : ~(At(q, "renamed") /\ ~req[q].over)
      BY <2>2, <2>3, <3>1, <3>2 DEF GoodWriter, At, LogSteps, LogIsQueued
    <3>4. QED BY <2>2, <2>3, <3>1, <3>2, <3>3, MovesOn DEF LogIsQueued, log
  <2>4. CASE logged # None
    <3> DEFINE h == [Idle EXCEPT !.at = "listed"]
    <3>1. req' = [req EXCEPT ![r] = h] /\ h.at = "listed"
      BY <2>1, <2>4 DEF List, End, Idle
    <3> HIDE DEF h
    <3>2. QED BY <2>2, <3>1, QueueStep DEF log, LogSteps, Loading
  <2>5. QED BY <2>3, <2>4
<1>6. QED BY <1>1, <1>2, <1>3, <1>4, <1>5 DEF Next

LEMMA RulesInductive == Spec => []RulesInv
<1>1. Init => RulesInv
  <2>1. ASSUME Init PROVE LogIsQueued
    BY <2>1 DEF Init, LogIsQueued, GoodWriter, Knows, Answered, Readers, LogSteps, Loading, At, Idle
  <2>2. QED BY <2>1, InitReviewed DEF RulesInv
<1>2. RulesInv /\ [Next]_vars => RulesInv'
  BY NextReviewed, NextLogged DEF RulesInv
<1>3. QED BY <1>1, <1>2, PTL DEF Spec

\* Every rule set in force was approved, with the rules that were submitted, whatever is
\* edited, revised, lost, overwritten or restarted meanwhile.
THEOREM InForceIsReviewed == Spec => []InForceWasReviewed
<1>1. RulesInv => InForceWasReviewed
  BY DEF RulesInv, CopiesAreReviewed, GoodCache, GoodFile, GoodHandler, Good, InForceWasReviewed,
         Held
<1>2. QED BY <1>1, RulesInductive, PTL

\* A handler that answered has its entry in the audit log on disk, however the appends and
\* the first reads of listing handlers interleave and fail, if no such read was under way
\* when its entry was written.
THEOREM AnswersAreAudited == Spec => []AnsweredIsAudited
<1>1. RulesInv => AnsweredIsAudited
  BY DEF RulesInv, LogIsQueued, Knows, Answered, AnsweredIsAudited
<1>2. QED BY <1>1, RulesInductive, PTL
=============================================================================
