----------------------- MODULE CompanyKnowledge_proofs -----------------------
(***************************************************************************)
(* For any desktops, calls, candidates and reviewers: a review in the      *)
(* cloud happens as a whole and once, it is never taken back, and the      *)
(* desktops only follow it.                                                *)
(*                                                                         *)
(* What a request found out before its batch may be stale, with two        *)
(* exceptions the batch relies on: whether a candidate is blocked never    *)
(* changes, and an item that was found as a duplicate may need a review    *)
(* meanwhile but never disappears.  The status itself is read again by the *)
(* claim.  After the claim the desktop works from a decision that nobody   *)
(* takes back, so its copies may come late and still follow the cloud.     *)
(***************************************************************************)
EXTENDS CompanyKnowledge, TLAPS

Reviewing == {"find", "found", "claim", "reviewed", "local", "synced"}
Listing == {"push", "saved", "savedRows", "list", "allRows"}
Handler == [at : {"idle"} \cup Reviewing \cup Listing, desk : Desktops \cup {None},
            lists : BOOLEAN, todo : SUBSET Candidates, batch : SUBSET Candidates,
            rows : Rows, cand : Candidates \cup {None}, approve : BOOLEAN,
            text : Texts \cup {None}, dup : Candidates \cup {None}, known : BOOLEAN]
Entry == [source : Candidates \cup {None}, text : Texts \cup {None},
          status : {"approved", "needs_review"}]

CloudTyped ==
    /\ cand \in Rows
    /\ item \in [Candidates -> {"none", "active", "needs_revalidation"}]
    /\ dupOf \in [Candidates -> Candidates \cup {None}]
    /\ reviews \in [Candidates -> Nat]

\* What the handler x has found out, and what of it still holds when it is used.
Informed(x) ==
    /\ x \in Handler
    /\ x.at \in Reviewing => x.cand \in Candidates
    /\ x.at = "found" => x.approve
    /\ x.at \in {"found", "claim"} /\ x.approve => x.cand \notin Blocked
    /\ x.at = "claim" /\ x.approve /\ x.dup # None => item[x.dup] # "none"
    /\ x.at \in {"reviewed", "local", "synced"} =>
         cand[x.cand] \in IF x.approve THEN {"approved", "duplicate"} ELSE Reviewed

HandlersInformed ==
    /\ handler \in [Handlers -> Handler]
    /\ \A h \in Handlers : Informed(handler[h])

LocalTyped ==
    /\ entries \in [Desktops -> SUBSET Entry]
    /\ logged \in [Desktops -> SUBSET Candidates]

KnowledgeInv ==
    /\ CloudTyped /\ ReviewIsWhole
    /\ HandlersInformed
    /\ LocalTyped /\ LocalFollowsCloud

\* What no step may take back.
Final ==
    \A c \in Candidates :
        /\ cand[c] \notin {"none", "pending"} => cand'[c] = cand[c]
        /\ item[c] # "none" => item'[c] # "none"
        /\ item[c] = "needs_revalidation" => item'[c] = item[c]

-----------------------------------------------------------------------------
(* The cloud. *)

\* Only the batches change the cloud.
LEMMA OnlyBatches ==
    ASSUME [Next]_vars
    PROVE  (\E h \in Handlers : Push(h) \/ Claim(h)) \/ UNCHANGED cloudVars
  BY DEF Next, vars, Step, ReadRows, SyncRows, FindCandidate, FindDuplicate, ReviewLocally,
         SyncReviewed, LogReview, GiveUp, Extract, List, Review, CreateEntry, DeleteEntry,
         localVars

LEMMA PushStep ==
    ASSUME CloudTyped, ReviewIsWhole, NEW h \in Handlers, Push(h)
    PROVE  CloudTyped' /\ ReviewIsWhole' /\ Final
<1> DEFINE batch == handler[h].batch
           row(c) == CASE cand[c] = "pending" /\ OtherMinute(batch, c) -> "superseded"
                       [] Inserts(batch, c) -> "pending"
                       [] OTHER -> cand[c]
           it(c) == IF item[c] = "active" /\ OtherMinute(batch, c)
                    THEN "needs_revalidation" ELSE item[c]
<1>1. /\ cand' = [c \in Candidates |-> row(c)] /\ item' = [c \in Candidates |-> it(c)]
      /\ UNCHANGED <<wording, dupOf, reviews>>
  BY DEF Push
<1>2. \A c \in Candidates :
        /\ row(c) \in Statuses \cup {"none"}
        /\ cand[c] \notin {"none", "pending"} => row(c) = cand[c]
        /\ cand[c] \in {"none", "pending"} => row(c) \in {"none", "pending", "superseded"}
  BY DEF CloudTyped, Rows, Statuses, Inserts
<1>3. \A c \in Candidates :
        /\ it(c) \in {"none", "active", "needs_revalidation"}
        /\ it(c) = "none" <=> item[c] = "none"
        /\ item[c] = "needs_revalidation" => it(c) = item[c]
  BY DEF CloudTyped
<1> HIDE DEF row, it
<1>4. CloudTyped'
  BY <1>1, <1>2, <1>3 DEF CloudTyped, Rows
<1>5. Final
  BY <1>1, <1>2, <1>3 DEF Final
<1>6. ReviewIsWhole'
  <2> SUFFICES ASSUME NEW c \in Candidates
               PROVE  /\ item'[c] # "none" <=> cand'[c] = "approved"
                      /\ reviews'[c] = IF cand'[c] \in Reviewed THEN 1 ELSE 0
                      /\ cand'[c] = "duplicate" => dupOf'[c] # None /\ item'[dupOf'[c]] # "none"
                      /\ c \in Blocked => cand'[c] \notin {"approved", "duplicate"}
    BY DEF ReviewIsWhole
  <2>1. /\ cand'[c] \in Reviewed \/ cand[c] \in Reviewed => cand'[c] = cand[c]
        /\ item'[c] = "none" <=> item[c] = "none"
    BY <1>1, <1>2, <1>3 DEF Reviewed
  <2>2. cand[c] = "duplicate" => dupOf[c] \in Candidates
    BY DEF ReviewIsWhole, CloudTyped
  <2>3. QED BY <1>1, <1>3, <2>1, <2>2 DEF ReviewIsWhole, Reviewed
<1>7. QED BY <1>4, <1>5, <1>6

LEMMA ClaimStep ==
    ASSUME CloudTyped, ReviewIsWhole, NEW h \in Handlers, Informed(handler[h]), Claim(h)
    PROVE  CloudTyped' /\ ReviewIsWhole' /\ Final
<1> DEFINE c == handler[h].cand
           x == handler[h]
<1>0. c \in Candidates /\ x \in Handler
  BY DEF Claim, At, Informed, Reviewing
<1>1. CASE cand[c] # "pending"
  <2>1. UNCHANGED cloudVars
    BY <1>1 DEF Claim
  <2>2. QED BY <2>1 DEF cloudVars, CloudTyped, ReviewIsWhole, Final
<1>2. CASE cand[c] = "pending"
  <2> DEFINE publishes == x.approve /\ x.dup = None
             decision == IF publishes THEN "approved"
                         ELSE IF x.approve THEN "duplicate" ELSE "rejected"
  <2>1. /\ cand' = [cand EXCEPT ![c] = decision]
        /\ item' = IF publishes THEN [item EXCEPT ![c] = "active"] ELSE item
        /\ dupOf' = [dupOf EXCEPT ![c] = x.dup]
        /\ reviews' = [reviews EXCEPT ![c] = @ + 1]
    BY <1>2 DEF Claim, Decide, LogInCloud
  <2>2. CloudTyped'
    BY <1>0, <2>1 DEF CloudTyped, Rows, Statuses, Handler
  <2>3. item[c] = "none" /\ reviews[c] = 0
    BY <1>0, <1>2 DEF ReviewIsWhole, Reviewed
  <2>4. Final
    BY <1>0, <1>2, <2>1, <2>3 DEF Final, CloudTyped, Rows
  <2>5. /\ x.approve => c \notin Blocked
        /\ x.approve /\ x.dup # None => x.dup \in Candidates /\ item[x.dup] # "none"
    BY <1>0 DEF Claim, At, Informed, Handler
  <2>6. ReviewIsWhole'
    <3> SUFFICES ASSUME NEW e \in Candidates
                 PROVE  /\ item'[e] # "none" <=> cand'[e] = "approved"
                        /\ reviews'[e] = IF cand'[e] \in Reviewed THEN 1 ELSE 0
                        /\ cand'[e] = "duplicate" => dupOf'[e] # None /\ item'[dupOf'[e]] # "none"
                        /\ e \in Blocked => cand'[e] \notin {"approved", "duplicate"}
      BY DEF ReviewIsWhole
    <3>1. CASE e = c
      BY <1>0, <2>1, <2>3, <2>4, <2>5, <3>1 DEF CloudTyped, Rows, Reviewed, Final
    <3>2. CASE e # c
      <4>1. /\ cand'[e] = cand[e] /\ item'[e] = item[e]
            /\ dupOf'[e] = dupOf[e] /\ reviews'[e] = reviews[e]
        BY <1>0, <2>1, <3>2 DEF CloudTyped, Rows
      <4>2. cand[e] = "duplicate" => dupOf[e] \in Candidates
        BY DEF ReviewIsWhole, CloudTyped
      <4>3. QED BY <2>4, <4>1, <4>2 DEF ReviewIsWhole, Final
    <3>3. QED BY <3>1, <3>2
  <2>7. QED BY <2>2, <2>4, <2>6
<1>3. QED BY <1>1, <1>2

LEMMA CloudStep ==
    ASSUME KnowledgeInv, [Next]_vars
    PROVE  CloudTyped' /\ ReviewIsWhole' /\ Final
<1>1. CASE \E h \in Handlers : Push(h) \/ Claim(h)
  BY <1>1, PushStep, ClaimStep DEF KnowledgeInv, HandlersInformed
<1>2. CASE UNCHANGED cloudVars
  BY <1>2 DEF cloudVars, KnowledgeInv, CloudTyped, ReviewIsWhole, Final
<1>3. QED BY <1>1, <1>2, OnlyBatches

-----------------------------------------------------------------------------
(* The handlers. *)

\* What a handler found out still holds after a step of anybody else.
LEMMA InformedStays ==
    ASSUME Final, NEW x, Informed(x)
    PROVE  Informed(x)'
<1>1. x \in Handler
  BY DEF Informed
<1>2. x.at = "claim" /\ x.approve /\ x.dup # None => item'[x.dup] # "none"
  BY <1>1 DEF Informed, Final, Handler
<1>3. x.at \in {"reviewed", "local", "synced"} => cand'[x.cand] = cand[x.cand]
  BY DEF Informed, Final, Reviewing, Reviewed
<1>4. QED BY <1>2, <1>3 DEF Informed

LEMMA OneHandler ==
    ASSUME HandlersInformed, Final, NEW h \in Handlers, NEW x, Informed(x)',
           handler' = [handler EXCEPT ![h] = x]
    PROVE  HandlersInformed'
<1>1. handler' \in [Handlers -> Handler]
  BY DEF HandlersInformed, Informed
<1>2. ASSUME NEW g \in Handlers PROVE Informed(handler[g])'
  <2>1. CASE g = h
    <3>1. handler'[g] = x
      BY <2>1 DEF HandlersInformed
    <3>2. QED BY <3>1 DEF Informed
  <2>2. CASE g # h
    <3>1. handler'[g] = handler[g] /\ Informed(handler[g])
      BY <2>2 DEF HandlersInformed
    <3>2. QED BY <3>1, InformedStays DEF Informed
  <2>3. QED BY <2>1, <2>2
<1>3. QED BY <1>1, <1>2 DEF HandlersInformed

LEMMA HandlersStay ==
    ASSUME HandlersInformed, Final, UNCHANGED handler
    PROVE  HandlersInformed'
<1>1. ASSUME NEW g \in Handlers PROVE Informed(handler[g])'
  BY InformedStays DEF HandlersInformed, Informed
<1>2. QED BY <1>1 DEF HandlersInformed

LEMMA IdleIsInformed == Informed(Idle)
  BY DEF Informed, Idle, Handler, Reviewing, Rows, NoRows

\* A handler that lists or extracts has nothing to know.
LEMMA ListingIsInformed ==
    ASSUME NEW x \in Handler, x.at \in Listing
    PROVE  Informed(x)
  BY DEF Informed, Listing, Reviewing

\* The next batch, or the list, of a handler with the pending candidates S.
LEMMA NextBatchStep ==
    ASSUME HandlersInformed, Final, NEW h \in Handlers, NEW d \in Desktops \cup {None},
           NEW S \in SUBSET Candidates, NextBatch(h, d, S)
    PROVE  HandlersInformed'
<1> DEFINE x(step, b) == [Idle EXCEPT !.at = step, !.desk = d, !.lists = TRUE,
                                      !.batch = b, !.todo = S \ b]
<1>1. PICK step \in {"list", "push"}, b \in SUBSET S : handler' = [handler EXCEPT ![h] = x(step, b)]
  BY DEF NextBatch, Minute
<1>2. x(step, b) \in Handler /\ x(step, b).at \in Listing
  BY DEF Idle, Handler, Listing, Rows, NoRows
<1> HIDE DEF x
<1>3. Informed(x(step, b))'
  BY <1>2, ListingIsInformed DEF Informed, Listing, Reviewing
<1>4. QED BY <1>1, <1>3, OneHandler

\* The steps that end a handler.
LEMMA FinishStep ==
    ASSUME HandlersInformed, Final, NEW h \in Handlers, Finish(h)
    PROVE  HandlersInformed'
<1>1. Informed(Idle)'
  BY IdleIsInformed, InformedStays
<1>2. QED BY <1>1, OneHandler DEF Finish

LEMMA StepInformed ==
    ASSUME CloudTyped, HandlersInformed, CloudTyped', Final, NEW h \in Handlers, Step(h)
    PROVE  HandlersInformed'
<1> DEFINE x == handler[h]
<1>0. x \in Handler /\ Informed(x)
  BY DEF HandlersInformed
<1>1. CASE Push(h)
  <2>1. CASE x.lists
    <3> DEFINE y == [x EXCEPT !.at = "saved"]
    <3>1. handler' = [handler EXCEPT ![h] = y] /\ y \in Handler /\ y.at = "saved"
      BY <1>0, <1>1, <2>1 DEF Push, PushAnswered, Go, Handler, Listing
    <3> HIDE DEF y
    <3>2. QED BY <3>1, ListingIsInformed, InformedStays, OneHandler DEF Listing
  <2>2. CASE ~x.lists
    BY <1>1, <2>2, FinishStep DEF Push, PushAnswered
  <2>3. QED BY <2>1, <2>2
<1>2. CASE ReadRows(h)
  <2> DEFINE rows == [c \in Candidates |-> IF c \in AskedRows(h) THEN cand[c] ELSE "none"]
             step == IF x.at = "saved" THEN "savedRows" ELSE "allRows"
             y == [x EXCEPT !.at = step, !.rows = rows]
  <2>1. handler' = [handler EXCEPT ![h] = y]
    BY <1>2 DEF ReadRows, At
  <2>2. rows \in Rows
    BY DEF CloudTyped, Rows
  <2> HIDE DEF rows
  <2>3. y \in Handler /\ y.at \in Listing
    BY <1>0, <2>2 DEF Handler, Listing
  <2> HIDE DEF y
  <2>4. QED BY <2>1, <2>3, ListingIsInformed, InformedStays, OneHandler
<1>3. CASE SyncRows(h)
  <2>1. x.todo \in SUBSET Candidates /\ Desk(h) \in Desktops \cup {None}
    BY <1>0 DEF Handler, Desk
  <2>2. QED BY <1>3, <2>1, NextBatchStep, FinishStep DEF SyncRows
<1>4. CASE FindCandidate(h)
  <2> DEFINE step == IF x.approve THEN "found" ELSE "claim"
             y == [x EXCEPT !.at = step]
  <2>1. handler' = [handler EXCEPT ![h] = y] /\ x.at = "find"
    BY <1>4 DEF FindCandidate, Go, At
  <2>2. /\ y \in Handler /\ y.at = step /\ y.cand = x.cand
        /\ y.approve = x.approve /\ y.dup = x.dup
    BY <1>0 DEF Handler, Reviewing
  <2> HIDE DEF y
  <2>3. x.at = "find" /\ x.cand \in Candidates /\ (x.approve => x.cand \notin Blocked)
    BY <1>0, <1>4 DEF FindCandidate, At, Informed, Reviewing
  <2>4. Informed(y)
    BY <2>2, <2>3 DEF Informed
  <2>5. QED BY <2>1, <2>4, InformedStays, OneHandler
<1>5. CASE FindDuplicate(h)
  <2>1. PICK e \in Candidates \cup {None} :
          /\ handler' = [handler EXCEPT ![h].dup = e, ![h].at = "claim"]
          /\ e # None => item[e] # "none"
    BY <1>5 DEF FindDuplicate
  <2> DEFINE y == [x EXCEPT !.dup = e, !.at = "claim"]
  <2>2. handler' = [handler EXCEPT ![h] = y]
    BY <2>1 DEF HandlersInformed
  <2>3. /\ y \in Handler /\ y.at = "claim" /\ y.cand = x.cand
        /\ y.approve = x.approve /\ y.dup = e
    BY <1>0 DEF Handler, Reviewing
  <2> HIDE DEF y
  <2>4. x.at = "found"
    BY <1>5 DEF FindDuplicate, At
  <2>5. Informed(y)
    BY <1>0, <2>1, <2>3, <2>4 DEF Informed, Reviewing
  <2>6. QED BY <2>2, <2>5, InformedStays, OneHandler
<1>6. CASE Claim(h)
  <2>1. CASE cand[x.cand] = "pending"
    <3>0. PICK y : y = [x EXCEPT !.at = "reviewed"]
      OBVIOUS
    <3>1. handler' = [handler EXCEPT ![h] = y] /\ x.at = "claim"
      BY <1>6, <2>1, <3>0 DEF Claim, Go, At
    <3>2. y \in Handler /\ y.at = "reviewed" /\ y.cand = x.cand /\ y.approve = x.approve
      BY <1>0, <3>0 DEF Handler, Reviewing
    <3>3. x.cand \in Candidates
      BY <1>0, <3>1 DEF Informed, Reviewing
    <3>4. cand'[x.cand] = IF x.approve /\ x.dup = None THEN "approved"
                          ELSE IF x.approve THEN "duplicate" ELSE "rejected"
      BY <1>6, <2>1, <3>3 DEF Claim, Decide, CloudTyped, Rows
    <3>5. Informed(y)'
      BY <3>2, <3>3, <3>4 DEF Informed, Reviewed
    <3>6. QED BY <3>1, <3>5, OneHandler
  <2>2. CASE cand[x.cand] # "pending"
    BY <1>6, <2>2, FinishStep DEF Claim
  <2>3. QED BY <2>1, <2>2
<1>7. ASSUME NEW step \in {"local", "synced"}, Go(h, step), x.at \in {"reviewed", "local"}
      PROVE  HandlersInformed'
  <2> DEFINE y == [x EXCEPT !.at = step]
  <2>1. handler' = [handler EXCEPT ![h] = y]
    BY <1>7 DEF Go
  <2>2. y \in Handler /\ y.at = step /\ y.cand = x.cand /\ y.approve = x.approve
    BY <1>0 DEF Handler, Reviewing
  <2> HIDE DEF y
  <2>3. Informed(y)
    BY <1>0, <1>7, <2>2 DEF Informed, Reviewing
  <2>4. QED BY <2>1, <2>3, InformedStays, OneHandler
<1>8. CASE ReviewLocally(h)
  BY <1>7, <1>8, FinishStep DEF ReviewLocally, At
<1>9. CASE SyncReviewed(h)
  BY <1>7, <1>9 DEF SyncReviewed, At
<1>10. CASE LogReview(h) \/ GiveUp(h)
  BY <1>10, FinishStep DEF LogReview, GiveUp
<1>11. QED BY <1>1, <1>2, <1>3, <1>4, <1>5, <1>6, <1>8, <1>9, <1>10 DEF Step

LEMMA NextInformed ==
    ASSUME CloudTyped, HandlersInformed, CloudTyped', Final, [Next]_vars
    PROVE  HandlersInformed'
<1> USE KnowledgeAssumption
<1>1. ASSUME NEW h \in Handlers, Step(h) PROVE HandlersInformed'
  BY <1>1, StepInformed
<1>2. ASSUME NEW h \in Handlers, NEW c \in Candidates, Extract(h, c.call, c.minute)
      PROVE  HandlersInformed'
  <2> DEFINE y == [Idle EXCEPT !.at = "push", !.desk = Home[c.call],
                               !.batch = OfMinute(c.call, c.minute)]
  <2>1. handler' = [handler EXCEPT ![h] = y]
    BY <1>2 DEF Extract
  <2>2. Home[c.call] \in Desktops /\ OfMinute(c.call, c.minute) \in SUBSET Candidates
    BY DEF OfMinute
  <2>3. y \in Handler /\ y.at = "push"
    BY <2>2 DEF Handler, Idle, Listing, Rows, NoRows
  <2> HIDE DEF y
  <2>4. QED BY <2>1, <2>3, ListingIsInformed, InformedStays, OneHandler DEF Listing
<1>3. ASSUME NEW h \in Handlers, NEW d \in Desktops, List(h, d) PROVE HandlersInformed'
  BY <1>3, NextBatchStep DEF List
<1>4. ASSUME NEW h \in Handlers, NEW d \in Desktops, NEW c \in Candidates,
             NEW approve \in BOOLEAN, NEW x \in Texts, Review(h, d, c, approve, x)
      PROVE  HandlersInformed'
  <2>1. PICK y : y = [Idle EXCEPT !.at = "find", !.desk = d, !.cand = c, !.approve = approve,
                                  !.text = x, !.known = local[d][c] # "none"]
    OBVIOUS
  <2>2. handler' = [handler EXCEPT ![h] = y]
    BY <1>4, <2>1 DEF Review
  <2>3. y \in Handler /\ y.at = "find" /\ y.cand = c
    BY <2>1 DEF Handler, Idle, Reviewing, Rows, NoRows
  <2>4. Informed(y)
    BY <2>3 DEF Informed
  <2>5. QED BY <2>2, <2>4, InformedStays, OneHandler
<1>5. CASE \E d \in Desktops : \/ \E x \in Texts : CreateEntry(d, x)
                               \/ \E e \in entries[d] : DeleteEntry(d, e)
  BY <1>5, HandlersStay DEF CreateEntry, DeleteEntry
<1>6. CASE UNCHANGED vars
  BY <1>6, HandlersStay DEF vars
<1>7. QED BY <1>1, <1>2, <1>3, <1>4, <1>5, <1>6 DEF Next

-----------------------------------------------------------------------------
(* The local stores. *)

\* What a local store may have: entries made by hand, and those of candidates the cloud
\* has decided to keep.
Follows(e) == e.source # None => cand[e.source] \in {"approved", "duplicate"}

LEMMA LocalStays ==
    ASSUME LocalTyped, LocalFollowsCloud, Final,
           entries' \in [Desktops -> SUBSET Entry], logged' \in [Desktops -> SUBSET Candidates],
           \A d \in Desktops, e \in Entry : e \in entries'[d] =>
             (\E o \in entries[d] : o.source = e.source) \/ Follows(e)',
           \A d \in Desktops : \A c \in logged'[d] \ logged[d] : cand'[c] \in Reviewed
    PROVE  LocalTyped' /\ LocalFollowsCloud'
<1>1. LocalTyped'
  BY DEF LocalTyped
<1>2. ASSUME NEW d \in Desktops, NEW e \in entries'[d], e.source # None
      PROVE  cand'[e.source] \in {"approved", "duplicate"}
  <2>1. CASE \E o \in entries[d] : o.source = e.source
    BY <1>2, <2>1 DEF LocalTyped, Entry, LocalFollowsCloud, Final
  <2>2. CASE Follows(e)'
    BY <1>2, <2>2 DEF Follows
  <2>3. QED BY <1>2, <2>1, <2>2
<1>3. ASSUME NEW d \in Desktops, NEW c \in logged'[d]
      PROVE  cand'[c] \in Reviewed
  BY DEF LocalTyped, LocalFollowsCloud, Final, Reviewed
<1>4. QED BY <1>1, <1>2, <1>3 DEF LocalFollowsCloud

\* The batches and the lists leave the entries and the log alone.
LEMMA LocalSame ==
    ASSUME LocalTyped, LocalFollowsCloud, Final, UNCHANGED <<entries, logged>>
    PROVE  LocalTyped' /\ LocalFollowsCloud'
  BY LocalStays DEF LocalTyped

LEMMA ReviewLocallyStep ==
    ASSUME LocalTyped, LocalFollowsCloud, Final,
           NEW h \in Handlers, Informed(handler[h]), ReviewLocally(h)
    PROVE  LocalTyped' /\ LocalFollowsCloud'
<1> DEFINE c == handler[h].cand
           d == Desk(h)
           new == [source |-> c, text |-> handler[h].text, status |-> "approved"]
<1>1. c \in Candidates /\ new \in Entry /\ UNCHANGED <<cand, logged>>
  BY DEF ReviewLocally, At, Informed, Reviewing, Handler, Entry, cloudVars
<1>2. CASE UNCHANGED entries
  BY <1>1, <1>2, LocalSame
<1>3. CASE entries' # entries
  <2>1. entries' = [entries EXCEPT ![d] = @ \cup {new}] /\ handler[h].approve
    <3>1. entries = [entries EXCEPT ![d] = @]
      BY DEF LocalTyped
    <3>2. handler[h].known /\ local[d][c] = "pending"
      BY <1>3 DEF ReviewLocally
    <3>3. CASE handler[h].approve /\ ~SameEntry(d, handler[h].text)
      BY <3>2, <3>3 DEF ReviewLocally
    <3>4. CASE handler[h].approve /\ SameEntry(d, handler[h].text)
      BY <1>3, <3>1, <3>2, <3>4 DEF ReviewLocally
    <3>5. CASE ~handler[h].approve
      BY <1>3, <3>1, <3>2, <3>5 DEF ReviewLocally
    <3>6. QED BY <3>3, <3>4, <3>5
  <2>2. entries' \in [Desktops -> SUBSET Entry]
    BY <1>1, <2>1 DEF LocalTyped
  <2>3. cand[c] \in {"approved", "duplicate"}
    BY <2>1 DEF ReviewLocally, At, Informed
  <2>4. ASSUME NEW b \in Desktops, NEW e \in entries'[b]
        PROVE  e \in entries[b] \/ Follows(e)'
    BY <1>1, <2>1, <2>3 DEF LocalTyped, Follows
  <2>5. QED BY <1>1, <2>2, <2>4, LocalStays DEF LocalTyped
<1>4. QED BY <1>2, <1>3

LEMMA NextFollows ==
    ASSUME KnowledgeInv, Final, [Next]_vars
    PROVE  LocalTyped' /\ LocalFollowsCloud'
<1>0. LocalTyped /\ LocalFollowsCloud /\ \A h \in Handlers : Informed(handler[h])
  BY DEF KnowledgeInv, HandlersInformed
<1>1. ASSUME NEW h \in Handlers, Step(h) PROVE LocalTyped' /\ LocalFollowsCloud'
  <2>1. CASE ReviewLocally(h)
    BY <1>0, <2>1, ReviewLocallyStep
  <2>2. CASE LogReview(h)
    <3>1. /\ handler[h].cand \in Candidates /\ cand[handler[h].cand] \in Reviewed
          /\ logged' = [logged EXCEPT ![Desk(h)] = @ \cup {handler[h].cand}]
          /\ UNCHANGED <<cand, entries>>
      BY <1>0, <2>2 DEF LogReview, At, Informed, Reviewing, Reviewed, cloudVars
    <3>2. logged' \in [Desktops -> SUBSET Candidates]
      BY <1>0, <3>1 DEF LocalTyped
    <3>3. \A d \in Desktops : \A c \in logged'[d] \ logged[d] : cand'[c] \in Reviewed
      BY <1>0, <3>1 DEF LocalTyped
    <3>4. QED BY <1>0, <3>1, <3>2, <3>3, LocalStays DEF LocalTyped
  <2>3. CASE UNCHANGED <<entries, logged>>
    BY <1>0, <2>3, LocalSame
  <2>4. QED BY <1>1, <2>1, <2>2, <2>3
          DEF Step, Push, ReadRows, SyncRows, FindCandidate, FindDuplicate, Claim,
              SyncReviewed, GiveUp, localVars
<1>2. ASSUME NEW h \in Handlers, NEW k, NEW n, Extract(h, k, n)
      PROVE  LocalTyped' /\ LocalFollowsCloud'
  <2> DEFINE d == Home[k]
             f(e) == IF e.source # None /\ e.source.call = k /\ e.source.minute # n
                     THEN [e EXCEPT !.status = "needs_review"] ELSE e
  <2>1. entries' = [entries EXCEPT ![d] = {f(e) : e \in @}] /\ UNCHANGED logged
    BY <1>2 DEF Extract, SaveCandidates
  <2>2. \A e \in Entry : f(e) \in Entry /\ f(e).source = e.source
    BY DEF Entry
  <2> HIDE DEF f
  <2>3. entries' \in [Desktops -> SUBSET Entry]
    BY <1>0, <2>1, <2>2 DEF LocalTyped
  <2>4. \A b \in Desktops, e \in Entry : e \in entries'[b] =>
          \E o \in entries[b] : o.source = e.source
    BY <1>0, <2>1, <2>2 DEF LocalTyped
  <2>5. QED BY <1>0, <2>1, <2>3, <2>4, LocalStays DEF LocalTyped
<1>3. ASSUME NEW d \in Desktops, NEW x \in Texts, CreateEntry(d, x)
      PROVE  LocalTyped' /\ LocalFollowsCloud'
  <2> DEFINE new == [source |-> None, text |-> x, status |-> "approved"]
  <2>1. /\ entries' = [entries EXCEPT ![d] = @ \cup {new}] /\ UNCHANGED logged
        /\ new \in Entry /\ new.source = None
    BY <1>3 DEF CreateEntry, Entry
  <2> HIDE DEF new
  <2>2. entries' \in [Desktops -> SUBSET Entry]
    BY <1>0, <2>1 DEF LocalTyped
  <2>3. \A b \in Desktops, e \in Entry : e \in entries'[b] => e \in entries[b] \/ Follows(e)'
    BY <1>0, <2>1 DEF LocalTyped, Follows
  <2>4. QED BY <1>0, <2>1, <2>2, <2>3, LocalStays DEF LocalTyped
<1>4. ASSUME NEW d \in Desktops, NEW e \in entries[d], DeleteEntry(d, e)
      PROVE  LocalTyped' /\ LocalFollowsCloud'
  <2>1. entries' = [entries EXCEPT ![d] = @ \ {e}] /\ UNCHANGED logged
    BY <1>4 DEF DeleteEntry
  <2>2. entries' \in [Desktops -> SUBSET Entry]
    BY <1>0, <2>1 DEF LocalTyped
  <2>3. \A b \in Desktops, o \in Entry : o \in entries'[b] => o \in entries[b]
    BY <1>0, <2>1 DEF LocalTyped
  <2>4. QED BY <1>0, <2>1, <2>2, <2>3, LocalStays DEF LocalTyped
<1>5. CASE \E h \in Handlers, d \in Desktops : List(h, d)
  BY <1>0, <1>5, LocalSame DEF List, localVars
<1>6. CASE \E h \in Handlers, d \in Desktops, c \in Candidates, approve \in BOOLEAN, x \in Texts :
             Review(h, d, c, approve, x)
  BY <1>0, <1>6, LocalSame DEF Review, localVars
<1>7. CASE UNCHANGED vars
  BY <1>0, <1>7, LocalSame DEF vars, localVars
<1>8. QED BY <1>1, <1>2, <1>3, <1>4, <1>5, <1>6, <1>7 DEF Next

-----------------------------------------------------------------------------
LEMMA KnowledgeStep == KnowledgeInv /\ [Next]_vars => KnowledgeInv' /\ Final
  BY CloudStep, NextInformed, NextFollows DEF KnowledgeInv

LEMMA KnowledgeInductive == Spec => []KnowledgeInv
<1>1. Init => KnowledgeInv
  <2> SUFFICES ASSUME Init PROVE KnowledgeInv
    OBVIOUS
  <2>1. CloudTyped /\ ReviewIsWhole
    BY DEF Init, CloudTyped, ReviewIsWhole, Rows, NoRows, Reviewed
  <2>2. HandlersInformed
    BY IdleIsInformed DEF Init, HandlersInformed, Informed
  <2>3. LocalTyped /\ LocalFollowsCloud
    BY DEF Init, LocalInit, LocalTyped, LocalFollowsCloud
  <2>4. QED BY <2>1, <2>2, <2>3 DEF KnowledgeInv
<1>2. KnowledgeInv /\ [Next]_vars => KnowledgeInv'
  BY KnowledgeStep
<1>3. QED BY <1>1, <1>2, PTL DEF Spec

\* An approved candidate has its item, a duplicate the item it repeats, each exactly one
\* entry in the audit chain, whoever reviews, pushes or gives up meanwhile.
THEOREM ReviewsAreWhole == Spec => []ReviewIsWhole
<1>1. KnowledgeInv => ReviewIsWhole
  BY DEF KnowledgeInv
<1>2. QED BY <1>1, KnowledgeInductive, PTL

\* No list, push or later review takes a decision back.
THEOREM DecisionsAreFinal == Spec => DecisionIsFinal
<1>1. KnowledgeInv /\ [Next]_vars =>
        [\A c \in Candidates :
           /\ cand[c] \notin {"none", "pending"} => cand'[c] = cand[c]
           /\ item[c] = "needs_revalidation" => item'[c] = item[c]]_vars
  BY KnowledgeStep DEF Final
<1>2. QED BY <1>1, KnowledgeInductive, PTL DEF Spec, DecisionIsFinal

\* What a desktop publishes or logs of a candidate, the cloud has decided before.
THEOREM DesktopsFollow == Spec => []LocalFollowsCloud
<1>1. KnowledgeInv => LocalFollowsCloud
  BY DEF KnowledgeInv
<1>2. QED BY <1>1, KnowledgeInductive, PTL
=============================================================================
