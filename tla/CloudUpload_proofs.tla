------------------------- MODULE CloudUpload_proofs -------------------------
(***************************************************************************)
(* The upload and the queue of the cloud keep the promise of UploadPromise *)
(* for every number of uploads, requests, consumers and deliveries and     *)
(* under every fault.                                                      *)
(*                                                                         *)
(* What a worker does next relies on what it has already written, and no   *)
(* other worker takes that back: audio, rows and messages are only ever    *)
(* added.  Stored says so of the database, Requests and Deliveries of the  *)
(* steps of the two kinds of worker; together they are inductive.          *)
(*                                                                         *)
(* The second part is about the one who relies on the promise: the phone   *)
(* of MobileRecorder, whose cloud does what UploadPromise allows and       *)
(* nothing else.  Trust says what a report, a flow of the page and the     *)
(* screen each imply about the transcripts the cloud holds.                *)
(***************************************************************************)
EXTENDS CloudUpload, MobileRecorder, TLAPS

\* What is stored later was stored earlier: the audio, then the rows, then the message.
Stored ==
    \A u \in Uploads :
        /\ job[u] # "none" => u \in object
        /\ message[u] # "none" => job[u] # "none"
        /\ u \in answered => message[u] # "none"

\* A request has an upload and what its step has stored.
Requests ==
    \A p \in Puts :
        /\ put[p].step # "idle" => put[p].upload \in Uploads
        /\ put[p].step = "kept" => put[p].upload \in object
        /\ put[p].step = "inserted" => job[put[p].upload] # "none"
        /\ put[p].step = "sent" => message[put[p].upload] # "none"

\* A consumer has a message, and past the insert its transcript.
Deliveries ==
    \A c \in Consumers :
        /\ consumer[c].step # "idle" =>
             consumer[c].upload \in Uploads /\ message[consumer[c].upload] # "none"
        /\ consumer[c].step \in {"inserted", "acking"} => inserted[consumer[c].upload] > 0

UploadInv == UploadTypeOK /\ Stored /\ Requests /\ Deliveries

\* Nothing is stored, sent or under way at the start.
LEMMA InitUpload == UploadInit => UploadInv
  BY DEF UploadInit, UploadInv, UploadTypeOK, Stored, Requests, Deliveries, Free,
         LinkStates, JobStates, MessageStates, PutSteps, ConsumerSteps

USE DEF LinkStates, JobStates, MessageStates, PutSteps, ConsumerSteps, Free,
        linkVars, rowVars, queueVars

-----------------------------------------------------------------------------
(* Steps of the requests. *)

\* A link is signed or expires, or the clients start a request.
LEMMA LinkStep ==
  ASSUME UploadInv, NEW u \in Uploads,
         \/ SignUpload(u) \/ LinkExpires(u)
         \/ \E p \in Puts : PutArrives(p, u) \/ DirectArrives(p, u)
  PROVE  UploadInv'
<1>1. CASE SignUpload(u) \/ LinkExpires(u)
  BY <1>1 DEF UploadInv, UploadTypeOK, Stored, Requests, Deliveries, SignUpload, LinkExpires
<1>2. ASSUME NEW p \in Puts, PutArrives(p, u) \/ DirectArrives(p, u)
      PROVE  UploadInv'
  <2>1. /\ put' = [put EXCEPT ![p] = [step |-> put'[p].step, upload |-> u]]
        /\ put'[p].step \in {"verified", "fresh"}
    BY <1>2 DEF UploadInv, UploadTypeOK, PutArrives, Signed, Payload, DirectArrives
  <2>2. UNCHANGED <<link, late, object, job, message, deliveries, inserted, consumer,
                    answered, stranded>>
    BY <1>2 DEF PutArrives, Signed, Payload, DirectArrives
  <2>3. UploadTypeOK' /\ Stored' /\ Deliveries'
    BY <2>1, <2>2 DEF UploadInv, UploadTypeOK, Stored, Deliveries
  <2>4. Requests'
    BY <2>1, <2>2 DEF UploadInv, UploadTypeOK, Requests
  <2>5. QED BY <2>3, <2>4 DEF UploadInv
<1>3. QED BY <1>1, <1>2

\* A request writes audio, row and message in this order, or is refused or stopped between.
LEMMA PutStep ==
  ASSUME UploadInv, NEW p \in Puts, Put(p) \/ PutFails(p)
  PROVE  UploadInv'
<1> USE DEF UploadInv, UploadTypeOK, At, Upload, Go, Close
<1>1. CASE ReadLink(p)
  BY <1>1 DEF Stored, Requests, Deliveries, ReadLink
<1>2. CASE MarkExpired(p)
  BY <1>2 DEF Stored, Requests, Deliveries, MarkExpired
<1>3. CASE KeepAudio(p)
  BY <1>3 DEF Stored, Requests, Deliveries, KeepAudio
<1>4. CASE InsertRows(p)
  <2>1. CASE job[Upload(p)] = "none"
    <3>1. /\ put[p].upload \in Uploads /\ put[p].upload \in object
          /\ job' = [job EXCEPT ![put[p].upload] = "queued"]
          /\ put' = [put EXCEPT ![p].step = "inserted"]
          /\ UNCHANGED <<linkVars, object, inserted, queueVars, consumer, answered, stranded>>
      BY <1>4, <2>1 DEF Requests, InsertRows
    <3>2. UploadTypeOK'
      BY <3>1 DEF linkVars, queueVars
    <3>3. Stored'
      BY <3>1 DEF Stored, queueVars
    <3>4. Requests'
      BY <3>1 DEF Requests, queueVars
    <3>5. Deliveries'
      BY <3>1 DEF Deliveries, queueVars
    <3>6. QED BY <3>2, <3>3, <3>4, <3>5
  <2>2. CASE job[Upload(p)] # "none"
    BY <1>4, <2>2 DEF Stored, Requests, Deliveries, InsertRows
  <2>3. QED BY <2>1, <2>2
<1>5. CASE SendMessage(p)
  <2>1. UploadTypeOK' /\ Stored'
    BY <1>5 DEF Stored, Requests, SendMessage
  <2>2. Requests'
    BY <1>5 DEF Requests, SendMessage
  <2>3. Deliveries'
    BY <1>5 DEF Deliveries, SendMessage
  <2>4. QED BY <2>1, <2>2, <2>3
<1>6. CASE Answer(p)
  BY <1>6 DEF Stored, Requests, Deliveries, Answer
<1>7. CASE PutFails(p)
  BY <1>7 DEF Stored, Requests, Deliveries, PutFails
<1>8. QED BY <1>1, <1>2, <1>3, <1>4, <1>5, <1>6, <1>7 DEF Put

-----------------------------------------------------------------------------
(* Steps of the consumers. *)

\* A consumer works on a message that was sent, and marks the job after its transcript.
LEMMA ConsumerStep ==
  ASSUME UploadInv, NEW c \in Consumers,
         Consume(c) \/ ConsumerStops(c) \/ \E u \in Uploads : Deliver(c, u)
  PROVE  UploadInv'
<1> DEFINE a == consumer[c].upload
<1> USE DEF UploadInv, UploadTypeOK, Doing, Audio, Proceed, SetJob, Return
<1>1. ASSUME NEW u \in Uploads, Deliver(c, u) PROVE UploadInv'
  <2>1. UploadTypeOK' BY <1>1 DEF Deliver
  <2>2. Stored' /\ Requests' BY <1>1 DEF Stored, Requests, Deliver
  <2>3. Deliveries' BY <1>1 DEF Deliveries, Deliver
  <2>4. QED BY <2>1, <2>2, <2>3
<1>2. CASE SetRunning(c)
  <2>1. UploadTypeOK' /\ Stored' BY <1>2 DEF Stored, Deliveries, SetRunning
  <2>2. Requests' BY <1>2 DEF Requests, Stored, Deliveries, SetRunning
  <2>3. Deliveries' BY <1>2 DEF Deliveries, SetRunning
  <2>4. QED BY <2>1, <2>2, <2>3
<1>3. CASE Transcribe(c)
  BY <1>3 DEF Stored, Requests, Deliveries, Transcribe
<1>4. CASE InsertSegments(c)
  <2>1. a \in Uploads /\ inserted[a] \in Nat
    BY <1>4 DEF Deliveries, InsertSegments
  <2>2. inserted' \in [Uploads -> Nat]
    BY <1>4, <2>1 DEF InsertSegments
  <2>3. UploadTypeOK'
    BY <1>4, <2>2 DEF InsertSegments
  <2>4. Stored' /\ Requests'
    BY <1>4 DEF Stored, Requests, InsertSegments
  <2>5. Deliveries' BY <1>4, <2>1 DEF Deliveries, InsertSegments
  <2>6. QED BY <2>3, <2>4, <2>5
<1>5. CASE Complete(c)
  <2>1. UploadTypeOK' /\ Stored' BY <1>5 DEF Stored, Deliveries, Complete
  <2>2. Requests' BY <1>5 DEF Requests, Stored, Deliveries, Complete
  <2>3. Deliveries' BY <1>5 DEF Deliveries, Complete
  <2>4. QED BY <2>1, <2>2, <2>3
<1>6. CASE Ack(c)
  <2>1. UploadTypeOK' /\ Stored' BY <1>6 DEF Stored, Deliveries, Ack
  <2>2. Requests' BY <1>6 DEF Requests, Ack
  <2>3. Deliveries' BY <1>6 DEF Deliveries, Ack
  <2>4. QED BY <2>1, <2>2, <2>3
<1>7. CASE ConsumerFails(c)
  BY <1>7 DEF Stored, Requests, Deliveries, ConsumerFails
<1>8. CASE MarkFailed(c)
  <2>1. UploadTypeOK' /\ Stored' BY <1>8 DEF Stored, Deliveries, MarkFailed
  <2>2. Requests' BY <1>8 DEF Requests, Stored, Deliveries, MarkFailed
  <2>3. Deliveries' BY <1>8 DEF Deliveries, MarkFailed
  <2>4. QED BY <2>1, <2>2, <2>3
<1>9. CASE ConsumerStops(c)
  <2>1. UploadTypeOK' /\ Stored' BY <1>9 DEF Stored, Deliveries, ConsumerStops
  <2>2. Requests' BY <1>9 DEF Requests, ConsumerStops
  <2>3. Deliveries' BY <1>9 DEF Deliveries, ConsumerStops
  <2>4. QED BY <2>1, <2>2, <2>3
<1>10. QED
  BY <1>1, <1>2, <1>3, <1>4, <1>5, <1>6, <1>7, <1>8, <1>9 DEF Consume

\* UploadInv is inductive.
LEMMA NextUpload == UploadInv /\ [UploadNext]_uploadVars => UploadInv'
<1> SUFFICES ASSUME UploadInv, [UploadNext]_uploadVars PROVE UploadInv'
  OBVIOUS
<1>1. CASE UNCHANGED uploadVars
  BY <1>1 DEF UploadInv, UploadTypeOK, Stored, Requests, Deliveries, uploadVars
<1>2. CASE UploadNext
  BY <1>2, LinkStep, PutStep, ConsumerStep DEF UploadNext, UploadStep
<1>3. QED BY <1>1, <1>2

\* Every variable of the upload keeps its type (all handlers of the upload and the queue).
THEOREM UploadTypes == UploadSpec => []UploadTypeOK
<1>1. UploadInv => UploadTypeOK BY DEF UploadInv
<1>2. QED BY <1>1, InitUpload, NextUpload, PTL DEF UploadSpec

-----------------------------------------------------------------------------
(* The refinement. *)

PromiseStep == [Promise!Next]_<<Kept, UnderWay, answered, inserted, Ready>>

\* A step that leaves the audio, the status, the messages and the answers alone.
LEMMA Stutter ==
  ASSUME UNCHANGED <<object, job, message, answered, inserted>>
  PROVE  PromiseStep
  BY DEF PromiseStep, Kept, UnderWay, Ready

\* What a request writes is a step of the promise, or none.
LEMMA PutPromise ==
  ASSUME UploadInv, NEW p \in Puts, Put(p) \/ PutFails(p)
  PROVE  PromiseStep
<1> DEFINE u == put[p].upload
<1> USE DEF UploadInv, UploadTypeOK, At, Upload, Go, Close
<1>1. CASE ReadLink(p) \/ MarkExpired(p) \/ PutFails(p)
  BY <1>1, Stutter DEF ReadLink, MarkExpired, PutFails
<1>2. CASE KeepAudio(p)
  <2>1. Kept' = Kept
    BY <1>2 DEF KeepAudio, Kept, Stored, Requests
  <2>2. UNCHANGED <<UnderWay, answered, inserted, Ready>>
    BY <1>2 DEF KeepAudio, UnderWay, Ready
  <2>3. QED BY <2>1, <2>2 DEF PromiseStep
<1>3. CASE InsertRows(p)
  <2>1. CASE job[u] # "none"
    BY <1>3, <2>1, Stutter DEF InsertRows
  <2>2. CASE job[u] = "none"
    <3>1. u \in object /\ u \in Uploads /\ job' = [job EXCEPT ![u] = "queued"]
      BY <1>3, <2>2 DEF InsertRows, Requests
    <3>2. UNCHANGED <<object, message, answered, inserted>>
      BY <1>3 DEF InsertRows
    <3>3. u \notin Kept /\ Kept' = Kept \cup {u}
      BY <2>2, <3>1, <3>2 DEF Kept
    <3>4. Ready' = Ready
      BY <2>2, <3>1, <3>2 DEF Ready
    <3>5. UnderWay' = UnderWay
      BY <3>2 DEF UnderWay
    <3>6. Promise!Keep(u)
      BY <3>2, <3>3, <3>4, <3>5 DEF Promise!Keep
    <3>7. QED BY <3>1, <3>6 DEF PromiseStep, Promise!Next
  <2>3. QED BY <2>1, <2>2
<1>4. CASE SendMessage(p)
  <2>1. u \in Uploads /\ job[u] # "none" /\ u \in object
    BY <1>4 DEF SendMessage, Requests, Stored
  <2>2. UnderWay' = UnderWay \cup {u}
    BY <1>4, <2>1 DEF SendMessage, UnderWay
  <2>3. u \in Kept /\ UNCHANGED <<Kept, answered, inserted, Ready>>
    BY <1>4, <2>1 DEF SendMessage, Kept, Ready
  <2>4. CASE u \in UnderWay
    BY <2>2, <2>3, <2>4 DEF PromiseStep
  <2>5. CASE u \notin UnderWay
    BY <2>1, <2>2, <2>3, <2>5 DEF PromiseStep, Promise!Next, Promise!HandOver
  <2>6. QED BY <2>4, <2>5
<1>5. CASE Answer(p)
  <2>1. u \in UnderWay /\ u \in Uploads
    BY <1>5 DEF Answer, Requests, UnderWay
  <2>2. answered' = answered \cup {u} /\ UNCHANGED <<Kept, UnderWay, inserted, Ready>>
    BY <1>5 DEF Answer, Kept, UnderWay, Ready
  <2>3. QED BY <2>1, <2>2 DEF PromiseStep, Promise!Next, Promise!Tell
<1>6. QED BY <1>1, <1>2, <1>3, <1>4, <1>5 DEF Put

\* What a consumer writes is a step of the promise, or none.
LEMMA ConsumerPromise ==
  ASSUME UploadInv, NEW c \in Consumers,
         Consume(c) \/ ConsumerStops(c) \/ \E u \in Uploads : Deliver(c, u)
  PROVE  PromiseStep
<1> DEFINE a == consumer[c].upload
<1> USE DEF UploadInv, UploadTypeOK, Doing, Audio, Proceed, SetJob
<1>1. CASE (\E u \in Uploads : Deliver(c, u)) \/ Transcribe(c) \/ ConsumerFails(c)
  BY <1>1, Stutter DEF Deliver, Transcribe, ConsumerFails
<1>2. ASSUME consumer[c].step # "idle"
      PROVE  a \in Uploads /\ message[a] # "none" /\ job[a] # "none" /\ a \in object
  BY <1>2 DEF Deliveries, Stored
<1>3. ASSUME message' = [message EXCEPT ![a] = message'[a]], message'[a] # "none",
             consumer[c].step # "idle"
      PROVE  UnderWay' = UnderWay
  BY <1>2, <1>3 DEF UnderWay
<1>4. ASSUME NEW s \in {"running", "failed"}, job' = [job EXCEPT ![a] = s],
             UNCHANGED <<object, answered, inserted>>, UnderWay' = UnderWay,
             consumer[c].step # "idle"
      PROVE  PromiseStep
  <2>1. Kept' = Kept BY <1>2, <1>4 DEF Kept
  <2>2. Ready' = Ready \ {a} BY <1>2, <1>4 DEF Ready
  <2>3. QED
    BY <1>2, <1>4, <2>1, <2>2 DEF PromiseStep, Promise!Next, Promise!TakeUpAgain
<1>5. ASSUME UNCHANGED <<object, job, answered, inserted>>, UnderWay' = UnderWay
      PROVE  PromiseStep
  BY <1>5 DEF PromiseStep, Kept, Ready
<1>6. CASE SetRunning(c)
  <2>1. UnderWay' = UnderWay BY <1>6 DEF SetRunning, UnderWay
  <2>2. QED BY <1>4, <1>6, <2>1 DEF SetRunning
<1>7. CASE InsertSegments(c)
  <2>1. UNCHANGED <<Kept, UnderWay, answered, Ready>>
    BY <1>7 DEF InsertSegments, Kept, UnderWay, Ready
  <2>2. a \in UnderWay /\ inserted' = [inserted EXCEPT ![a] = @ + 1]
    BY <1>2, <1>7 DEF InsertSegments, UnderWay
  <2>3. QED BY <1>2, <1>7, <2>1, <2>2 DEF PromiseStep, Promise!Next, Promise!AddTranscript, UnderWay
<1>8. CASE Complete(c)
  <2>1. inserted[a] > 0 /\ a \in Uploads /\ job[a] # "none" /\ a \in object
    BY <1>2, <1>8 DEF Complete, Deliveries
  <2>2. Kept' = Kept /\ UnderWay' = UnderWay
    BY <1>8, <2>1 DEF Complete, Kept, UnderWay
  <2>3. Ready' = Ready \cup {a}
    BY <1>8, <2>1 DEF Complete, Ready
  <2>4. QED
    BY <1>8, <2>1, <2>2, <2>3 DEF Complete, PromiseStep, Promise!Next, Promise!Report
<1>9. CASE Ack(c)
  <2>1. UnderWay' = UnderWay BY <1>2, <1>3, <1>9 DEF Ack
  <2>2. QED BY <1>5, <1>9, <2>1 DEF Ack
<1>10. CASE MarkFailed(c)
  <2>1. message' = [message EXCEPT ![a] = message'[a]] /\ message'[a] # "none"
    BY <1>2, <1>10 DEF MarkFailed, Return
  <2>2. UnderWay' = UnderWay BY <1>3, <1>10, <2>1 DEF MarkFailed
  <2>3. QED BY <1>4, <1>10, <2>2 DEF MarkFailed
<1>11. CASE ConsumerStops(c)
  <2>1. message' = [message EXCEPT ![a] = message'[a]] /\ message'[a] # "none"
    BY <1>2, <1>11 DEF ConsumerStops, Return
  <2>2. UnderWay' = UnderWay BY <1>3, <1>11, <2>1 DEF ConsumerStops
  <2>3. QED BY <1>5, <1>11, <2>2 DEF ConsumerStops
<1>12. QED BY <1>1, <1>6, <1>7, <1>8, <1>9, <1>10, <1>11 DEF Consume

\* Every step of the upload is a step of the promise or a stutter.
LEMMA NextPromise == UploadInv /\ [UploadNext]_uploadVars => PromiseStep
<1> SUFFICES ASSUME UploadInv, [UploadNext]_uploadVars PROVE PromiseStep
  OBVIOUS
<1>1. CASE UNCHANGED uploadVars
  BY <1>1, Stutter DEF uploadVars
<1>2. ASSUME NEW u \in Uploads, \/ SignUpload(u) \/ LinkExpires(u)
                                \/ \E p \in Puts : PutArrives(p, u) \/ DirectArrives(p, u)
      PROVE  PromiseStep
  BY <1>2, Stutter DEF SignUpload, LinkExpires, PutArrives, Signed, Payload, DirectArrives
<1>3. CASE UploadNext
  BY <1>2, <1>3, PutPromise, ConsumerPromise DEF UploadNext, UploadStep
<1>4. QED BY <1>1, <1>3

\* Signed links, uploads and the queue implement the at-least-once promise (persistAudioUpload,
\* consumeSignedAudioUpload, processSttQueueMessage), whatever fails in between.
THEOREM UploadKeepsPromise == UploadSpec => PromiseKept
<1>1. UploadInit => Promise!Init
  BY DEF UploadInit, Promise!Init, Kept, UnderWay, Ready
<1>2. UploadInv /\ [UploadNext]_uploadVars => [Promise!Next]_(Promise!promiseVars)
  BY NextPromise DEF PromiseStep, Promise!promiseVars
<1>3. QED BY <1>1, <1>2, InitUpload, NextUpload, PTL DEF UploadSpec, PromiseKept, Promise!Spec

-----------------------------------------------------------------------------
(* The phone relies on the promise. *)

FlowSteps == {"idle", "signing", "sending", "waiting", "polling", "counting"}
Statuses == {"idle", "ready", "consented", "recording", "recorded", "uploading", "done", "error"}
Phones == [status : Statuses, consent : BOOLEAN, shown : Visits \cup {None}]
Targets == [step : FlowSteps, upload : Visits \cup {None}]

PhoneTyped ==
    /\ texts \in [Visits -> Nat]
    /\ ready \subseteq Visits /\ sent \subseteq Visits
    /\ flow \in [Flows -> Targets]
    /\ phone \in Phones

\* What the cloud reports it has, and what a flow or the screen took from a report.
Trust ==
    /\ \A u \in ready : texts[u] > 0
    /\ \A f \in Flows :
          /\ flow[f].step \in {"sending", "waiting", "polling"} => flow[f].upload \in Visits
          /\ flow[f].step = "counting" =>
               flow[f].upload \in Visits /\ texts[flow[f].upload] > 0
    /\ phone.shown # None => texts[phone.shown] > 0

\* The user and the microphone move the phone; no flow and no report is touched.
LEMMA ScreenStep ==
  ASSUME PhoneTyped, Trust, UNCHANGED <<texts, ready, sent, flow>>,
         phone' \in Phones, phone'.shown \in {phone.shown, None}
  PROVE  PhoneTyped' /\ Trust'
<1>1. PhoneTyped'
  BY DEF PhoneTyped
<1>2. Trust'
  BY DEF Trust
<1>3. QED BY <1>1, <1>2

\* A flow moves, or ends and is forgotten.
LEMMA FlowStep ==
  ASSUME PhoneTyped, Trust, NEW f \in Flows, NEW new \in Targets,
         flow' = [flow EXCEPT ![f] = new],
         new.step \in {"sending", "waiting", "polling", "counting"} => new.upload \in Visits,
         new.step = "counting" => texts[new.upload] > 0,
         phone' \in Phones,
         phone'.shown # phone.shown /\ phone'.shown # None => texts[phone'.shown] > 0,
         sent' \subseteq Visits, UNCHANGED <<texts, ready>>
  PROVE  PhoneTyped' /\ Trust'
<1>1. PhoneTyped'
  BY DEF PhoneTyped
<1>2. flow'[f] = new /\ \A g \in Flows \ {f} : flow'[g] = flow[g]
  BY DEF PhoneTyped
<1>3. Trust'
  BY <1>2 DEF Trust
<1>4. QED BY <1>1, <1>3

\* The events of the reducer keep the phone typed, and but for PROCESSED show nothing new.
LEMMA Reducer ==
  ASSUME PhoneTyped
  PROVE  /\ \A s \in {LoginOk(phone), Grant(phone), Revoke(phone),
                      Start(phone), Stop(phone), BeginUpload(phone),
                      Fail(phone), Reset(phone), Initial} :
              s \in Phones /\ s.shown \in {phone.shown, None}
         /\ \A u \in Visits :
              /\ Processed(phone, u) \in Phones
              /\ Processed(phone, u).shown \in {phone.shown, u}
<1> USE DEF PhoneTyped, Phones, Statuses, Move, Initial
<1>1. \A s \in {LoginOk(phone), Start(phone), Stop(phone),
                BeginUpload(phone)} :
        s \in Phones /\ s.shown = phone.shown
  BY DEF LoginOk, Start, Stop, BeginUpload
<1>2. \A s \in {Grant(phone), Revoke(phone), Fail(phone)} :
        s \in Phones /\ s.shown = phone.shown
  BY DEF Grant, Revoke, Fail
<1>3. Initial \in Phones /\ Initial.shown = None
  OBVIOUS
<1>4. Reset(phone) \in Phones /\ Reset(phone).shown = None
  BY DEF Reset
<1>5. \A u \in Visits :
        /\ Processed(phone, u) \in Phones
        /\ Processed(phone, u).shown \in {phone.shown, u}
  BY DEF Processed
<1> HIDE DEF PhoneTyped, Phones, Statuses, Move, Initial
<1>6. QED BY <1>1, <1>2, <1>3, <1>4, <1>5

\* The buttons, the microphone and the recorder.
LEMMA ButtonStep ==
  ASSUME PhoneTyped, Trust,
         \/ Login \/ Logout \/ TickConsent
         \/ StartRecording \/ MicGranted \/ GoneMicGranted
         \/ MicDenied \/ StopRecording \/ RecorderStopped
         \/ ResetRecording
  PROVE  PhoneTyped' /\ Trust'
<1>1. phone \in Phones
  BY DEF PhoneTyped
<1>2. phone' \in {phone, LoginOk(phone), Grant(phone), Revoke(phone),
                  Start(phone), Stop(phone), Reset(phone), Initial}
  BY DEF Login, Logout, TickConsent, StartRecording,
         MicGranted, GoneMicGranted, MicDenied, StopRecording,
         RecorderStopped, ResetRecording
<1>3. UNCHANGED <<texts, ready, sent, flow>>
  BY DEF Login, Logout, TickConsent, StartRecording,
         MicGranted, GoneMicGranted, MicDenied, StopRecording,
         RecorderStopped, ResetRecording, cloudVars, promiseVars
<1>4. QED BY <1>1, <1>2, <1>3, Reducer, ScreenStep

\* An upload of the page goes on.
LEMMA PageStep ==
  ASSUME PhoneTyped, Trust, NEW f \in Flows, PressUpload(f) \/ Advance(f)
  PROVE  PhoneTyped' /\ Trust'
<1> USE DEF In, Target, Turn, cloudVars, promiseVars
<1>1. flow[f] \in Targets /\ phone \in Phones /\ sent \subseteq Visits
  BY DEF PhoneTyped
<1>2. ASSUME NEW step \in FlowSteps, flow' = [flow EXCEPT ![f].step = step],
             step \in {"sending", "waiting", "polling", "counting"} => flow[f].upload \in Visits,
             step = "counting" => texts[flow[f].upload] > 0,
             phone' \in Phones, phone'.shown \in {phone.shown, None},
             sent' \subseteq Visits, UNCHANGED <<texts, ready>>
      PROVE  PhoneTyped' /\ Trust'
  <2> DEFINE new == [flow[f] EXCEPT !.step = step]
  <2>1. new \in Targets /\ new.step = step /\ new.upload = flow[f].upload
    BY <1>1 DEF Targets
  <2>2. flow' = [flow EXCEPT ![f] = new]
    BY <1>2
  <2> HIDE DEF new
  <2>3. QED BY <1>2, <2>1, <2>2, FlowStep
<1>3. CASE PressUpload(f)
  BY <1>2, <1>3, <1>1, Reducer DEF PressUpload, FlowSteps
<1>4. ASSUME NEW u \in Visits, GetLink(f, u) PROVE PhoneTyped' /\ Trust'
  <2>1. [step |-> "sending", upload |-> u] \in Targets
    BY DEF Targets, FlowSteps
  <2>2. QED BY <1>1, <1>4, <2>1, FlowStep DEF GetLink, micVars
<1>5. CASE SendAudio(f)
  BY <1>1, <1>2, <1>5 DEF SendAudio, Trust, FlowSteps
<1>6. CASE Acknowledged(f)
  BY <1>1, <1>2, <1>6 DEF Acknowledged, Trust, FlowSteps
<1>7. CASE PollCompleted(f)
  BY <1>1, <1>2, <1>7 DEF PollCompleted, Trust, FlowSteps
<1>8. NoFlow \in Targets /\ NoFlow.step = "idle"
  BY DEF NoFlow, Targets, FlowSteps
<1>9. CASE CountTranscripts(f)
  <2>1. flow[f].upload \in Visits /\ texts[flow[f].upload] > 0
    BY <1>9 DEF CountTranscripts, Trust
  <2>2. phone' \in Phones /\ phone'.shown \in {phone.shown, flow[f].upload}
    BY <1>9, <2>1, Reducer DEF CountTranscripts
  <2>3. QED BY <1>1, <1>8, <1>9, <2>1, <2>2, FlowStep DEF CountTranscripts
<1>10. CASE FlowFails(f)
  <2>1. phone' \in Phones /\ phone'.shown \in {phone.shown, None}
    BY <1>10, Reducer DEF FlowFails
  <2>2. QED BY <1>1, <1>8, <1>10, <2>1, FlowStep DEF FlowFails
<1>11. QED BY <1>3, <1>4, <1>5, <1>6, <1>7, <1>9, <1>10 DEF Advance

\* The cloud works: transcripts are never taken back, and a report needs one.
LEMMA CloudWorks ==
  ASSUME PhoneTyped, Trust, CloudStep
  PROVE  PhoneTyped' /\ Trust'
<1>1. UNCHANGED <<phone, flow, sent>>
  BY DEF CloudStep, phoneVars
<1>2. PICK u \in Visits :
        \/ Keep(u) \/ HandOver(u) \/ Tell(u) \/ Report(u)
        \/ TakeUpAgain(u) \/ AddTranscript(u)
  BY DEF CloudStep, PhoneTyped
<1>3. /\ texts' \in [Visits -> Nat]
      /\ \A v \in Visits : texts[v] > 0 => texts'[v] > 0
      /\ ready' \subseteq Visits
      /\ \A v \in ready' : texts'[v] > 0
  BY <1>2 DEF Keep, HandOver, Tell, Report, TakeUpAgain,
              AddTranscript, PhoneTyped, Trust
<1>4. PhoneTyped'
  BY <1>1, <1>3 DEF PhoneTyped
<1>5. Trust'
  BY <1>1, <1>3 DEF PhoneTyped, Trust, Phones
<1>6. QED BY <1>4, <1>5

\* A step of the phone or of its cloud keeps both.
LEMMA NextTrust ==
  PhoneTyped /\ Trust /\ [RecorderNext]_(recorderVars) => PhoneTyped' /\ Trust'
<1> SUFFICES ASSUME PhoneTyped, Trust, [RecorderNext]_(recorderVars)
             PROVE  PhoneTyped' /\ Trust'
  OBVIOUS
<1>1. CASE UNCHANGED recorderVars
  BY <1>1 DEF PhoneTyped, Trust, recorderVars, phoneVars, cloudVars,
              promiseVars
<1>2. CASE RecorderNext
  BY <1>2, ButtonStep, PageStep, CloudWorks DEF RecorderNext
<1>3. QED BY <1>1, <1>2

\* The phone reports a visit as done only if the cloud holds a transcript of it (pollSttJob,
\* PROCESSED): of the promise it needs that only a transcribed upload is reported and that no
\* transcript is taken back, and no answer of an older upload or session can mislead it.
THEOREM DoneMeansTranscribed == RecorderSpec => []ShownWasTranscribed
<1>1. RecorderInit => PhoneTyped /\ Trust
  <2> SUFFICES ASSUME RecorderInit PROVE PhoneTyped /\ Trust
    OBVIOUS
  <2>1. /\ texts = [u \in Visits |-> 0] /\ ready = {} /\ sent = {}
        /\ phone = Initial /\ flow = [f \in Flows |-> NoFlow]
    BY DEF RecorderInit, Init
  <2>2. PhoneTyped
    BY <2>1 DEF PhoneTyped, Phones, Statuses, Targets, FlowSteps, Initial, NoFlow
  <2>3. Trust
    BY <2>1 DEF Trust, Initial, NoFlow
  <2>4. QED BY <2>2, <2>3
<1>2. PhoneTyped /\ Trust => ShownWasTranscribed
  BY DEF Trust, ShownWasTranscribed
<1>3. QED BY <1>1, <1>2, NextTrust, PTL DEF RecorderSpec
=============================================================================
