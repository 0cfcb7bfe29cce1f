---------------------------- MODULE CloudUpload ----------------------------
(***************************************************************************)
(* Uploading audio to the Cloudflare worker (cloudflare/src/index.ts): the *)
(* signed one-time link, the PUT that stores the audio in R2 and the rows  *)
(* in D1 and sends the job to the queue, and the queue consumer that has   *)
(* the audio transcribed.                                                  *)
(*                                                                         *)
(* Workers share nothing but D1, R2 and the queue; every await of a        *)
(* handler is a step.  A statement or batch of D1 is atomic.  The ids of   *)
(* call, asset and job are drawn with the link, so one name stands for     *)
(* them, and the primary keys make a second insert for it fail.  The queue *)
(* delivers a message until it is acknowledged, at most MaxDeliveries      *)
(* times, and may deliver it while another worker still has it.            *)
(***************************************************************************)
EXTENDS Undefined, Naturals, FiniteSets

CONSTANTS
    Uploads,        \* uploads, each with the ids drawn for it
    Puts,           \* PUT (and POST) requests with a body being served
    Consumers,      \* invocations of the queue handler
    MaxDeliveries,  \* 1 + max_retries of wrangler.jsonc
    Faults          \* subset of {"put", "provider", "worker", "duplicate"}

ASSUME UploadAssumption ==
    /\ None \notin Uploads
    /\ MaxDeliveries \in Nat \ {0}
    /\ Faults \subseteq {"put", "provider", "worker", "duplicate"}

VARIABLES
    link,        \* pending_audio_uploads.status, "none" if there is no row
    late,        \* links older than 15 minutes
    object,      \* audio objects in R2
    job,         \* stt_jobs.status, "none" until the rows are inserted
    message,     \* the message of the job in the queue
    deliveries,  \* how often it was delivered
    inserted,    \* how many transcripts were inserted into transcript_segments
    put,         \* requests in flight
    consumer,    \* queue invocations in flight
    answered,    \* uploads that were acknowledged with 201
    stranded     \* uploads whose worker stopped, until the message is delivered again

rowVars == <<job, inserted>>
queueVars == <<message, deliveries>>
linkVars == <<link, late>>
uploadVars == <<linkVars, object, rowVars, queueVars, put, consumer, answered, stranded>>

LinkStates == {"none", "open", "consumed", "expired"}
JobStates == {"none", "queued", "running", "completed", "failed"}
MessageStates == {"none", "queued", "acked", "dropped"}
PutSteps == {"idle", "verified", "expiring", "fresh", "kept", "inserted", "sent"}
ConsumerSteps == {"idle", "taken", "running", "text", "inserted", "failing", "acking"}

Free == [step |-> "idle", upload |-> None]

UploadInit ==
    /\ link = [u \in Uploads |-> "none"]
    /\ late = {}
    /\ object = {}
    /\ job = [u \in Uploads |-> "none"]
    /\ message = [u \in Uploads |-> "none"]
    /\ deliveries = [u \in Uploads |-> 0]
    /\ inserted = [u \in Uploads |-> 0]
    /\ put = [p \in Puts |-> Free]
    /\ consumer = [c \in Consumers |-> Free]
    /\ answered = {} /\ stranded = {}

\* Ids nobody has drawn yet.
Fresh(u) ==
    /\ link[u] = "none" /\ u \notin object /\ job[u] = "none"
    /\ \A p \in Puts : put[p].upload # u

At(p, step) == put[p].step = step
Upload(p) == put[p].upload
Go(p, step) == put' = [put EXCEPT ![p].step = step]
Close(p) == put' = [put EXCEPT ![p] = Free]

-----------------------------------------------------------------------------
(* The link. *)

\* POST /v1/audio-upload-urls: ids are drawn and the pending row is inserted.
SignUpload(u) ==
    /\ Fresh(u)
    /\ link' = [link EXCEPT ![u] = "open"]
    /\ UNCHANGED <<late, object, rowVars, queueVars, put, consumer, answered, stranded>>

\* Fifteen minutes pass; the token and the row name the same time.
LinkExpires(u) ==
    /\ link[u] # "none" /\ u \notin late
    /\ late' = late \cup {u}
    /\ UNCHANGED <<link, object, rowVars, queueVars, put, consumer, answered, stranded>>

-----------------------------------------------------------------------------
(* The upload. *)

\* A token parses and is of this worker if it was signed when the ids of u were drawn.
Signed(u) == link[u] # "none"
\* The token carries the ids drawn with the link, so the request needs none of its own.
Payload(u) == [step |-> "verified", upload |-> u]

\* PUT: signature, expiry and length are checked.
PutArrives(p, u) ==
    /\ At(p, "idle") /\ Signed(u) /\ u \notin late
    /\ put' = [put EXCEPT ![p] = Payload(u)]
    /\ UNCHANGED <<linkVars, object, rowVars, queueVars, consumer, answered, stranded>>

\* POST /v1/audio-assets: an upload without a link, under ids of its own.
DirectArrives(p, u) ==
    /\ At(p, "idle") /\ Fresh(u)
    /\ put' = [put EXCEPT ![p] = [step |-> "fresh", upload |-> u]]
    /\ UNCHANGED <<linkVars, object, rowVars, queueVars, consumer, answered, stranded>>

\* The row is read: anything but pending is refused, an expired one is marked so.
ReadLink(p) ==
    /\ At(p, "verified")
    /\ IF link[Upload(p)] # "open" THEN Close(p)
       ELSE Go(p, IF Upload(p) \in late THEN "expiring" ELSE "fresh")
    /\ UNCHANGED <<linkVars, object, rowVars, queueVars, consumer, answered, stranded>>

\* markPendingUpload sets the status whatever it has become since.
MarkExpired(p) ==
    /\ At(p, "expiring")
    /\ link' = [link EXCEPT ![Upload(p)] = "expired"]
    /\ Close(p)
    /\ UNCHANGED <<late, object, rowVars, queueVars, consumer, answered, stranded>>

\* Mutant: the rows come first and the audio is stored afterwards.
KeepNothing(p) ==
    /\ At(p, "fresh") /\ Go(p, "kept")
    /\ UNCHANGED <<linkVars, object, rowVars, queueVars, consumer, answered, stranded>>
KeepAudio(p) ==
    /\ At(p, "fresh") /\ Go(p, "kept")
    /\ object' = object \cup {Upload(p)}
    /\ UNCHANGED <<linkVars, rowVars, queueVars, consumer, answered, stranded>>

\* One batch inserts call, asset and job; the primary keys let only one request do so.
InsertRows(p) ==
    /\ At(p, "kept")
    /\ IF job[Upload(p)] = "none"
       THEN job' = [job EXCEPT ![Upload(p)] = "queued"] /\ Go(p, "inserted")
       ELSE UNCHANGED job /\ Close(p)
    /\ UNCHANGED <<linkVars, object, inserted, queueVars, consumer, answered, stranded>>

SendMessage(p) ==
    /\ At(p, "inserted") /\ Go(p, "sent")
    /\ message' = [message EXCEPT ![Upload(p)] = "queued"]
    /\ UNCHANGED <<linkVars, object, rowVars, deliveries, consumer, answered, stranded>>

\* The link is consumed if it is still pending, and the client is answered.
Answer(p) ==
    /\ At(p, "sent") /\ Close(p)
    /\ link' = [link EXCEPT ![Upload(p)] = IF @ = "open" THEN "consumed" ELSE @]
    /\ answered' = answered \cup {Upload(p)}
    /\ UNCHANGED <<late, object, rowVars, queueVars, consumer, stranded>>

\* R2, D1 or the queue refuse, or the worker stops; what was done stays done.
PutFails(p) ==
    /\ "put" \in Faults /\ ~At(p, "idle") /\ Close(p)
    /\ UNCHANGED <<linkVars, object, rowVars, queueVars, consumer, answered, stranded>>

Put(p) ==
    \/ ReadLink(p) \/ MarkExpired(p) \/ KeepAudio(p)
    \/ InsertRows(p) \/ SendMessage(p) \/ Answer(p)

-----------------------------------------------------------------------------
(* The queue and its consumer. *)

Doing(c, step) == consumer[c].step = step
Audio(c) == consumer[c].upload
Proceed(c, step) == consumer' = [consumer EXCEPT ![c].step = step]
SetJob(c, state) == job' = [job EXCEPT ![Audio(c)] = state]
\* The invocation ends without an acknowledgement: the last delivery was in vain.
Return(c) ==
    /\ consumer' = [consumer EXCEPT ![c] = Free]
    /\ message' = [message EXCEPT ![Audio(c)] =
                     IF @ = "queued" /\ deliveries[Audio(c)] = MaxDeliveries THEN "dropped" ELSE @]
    /\ UNCHANGED deliveries

Deliver(c, u) ==
    /\ Doing(c, "idle")
    /\ message[u] = "queued" /\ deliveries[u] < MaxDeliveries
    /\ "duplicate" \in Faults \/ \A d \in Consumers : Audio(d) # u
    /\ deliveries' = [deliveries EXCEPT ![u] = @ + 1]
    /\ consumer' = [consumer EXCEPT ![c] = [step |-> "taken", upload |-> u]]
    /\ stranded' = stranded \ {u}
    /\ UNCHANGED <<linkVars, object, rowVars, message, put, answered>>

SetRunning(c) ==
    /\ Doing(c, "taken") /\ Proceed(c, "running")
    /\ SetJob(c, "running")
    /\ UNCHANGED <<linkVars, object, inserted, queueVars, put, answered, stranded>>

\* The audio is read from R2 and Deepgram answers.
Transcribe(c) ==
    /\ Doing(c, "running") /\ Audio(c) \in object /\ Proceed(c, "text")
    /\ UNCHANGED <<linkVars, object, rowVars, queueVars, put, answered, stranded>>

\* A transcript without text counts as inserted, though insertTranscriptSegments has nothing
\* to insert for it.
InsertSegments(c) ==
    /\ Doing(c, "text") /\ Proceed(c, "inserted")
    /\ inserted' = [inserted EXCEPT ![Audio(c)] = @ + 1]
    /\ UNCHANGED <<linkVars, object, job, queueVars, put, answered, stranded>>

\* Mutant: the job is completed before its segments are inserted.
CompleteEarly(c) ==
    /\ (Doing(c, "text") \/ Doing(c, "inserted")) /\ Proceed(c, "acking")
    /\ SetJob(c, "completed")
    /\ UNCHANGED <<linkVars, object, inserted, queueVars, put, answered, stranded>>
Complete(c) ==
    /\ Doing(c, "inserted") /\ Proceed(c, "acking")
    /\ SetJob(c, "completed")
    /\ UNCHANGED <<linkVars, object, inserted, queueVars, put, answered, stranded>>

Ack(c) ==
    /\ Doing(c, "acking")
    /\ consumer' = [consumer EXCEPT ![c] = Free]
    /\ message' = [message EXCEPT ![Audio(c)] = "acked"]
    /\ UNCHANGED <<linkVars, object, rowVars, deliveries, put, answered, stranded>>

\* The audio is missing, Deepgram refuses, or D1 refuses the segments or the status.
ConsumerFails(c) ==
    /\ \/ Doing(c, "running") /\ ("provider" \in Faults \/ Audio(c) \notin object)
       \/ (Doing(c, "text") \/ Doing(c, "inserted")) /\ "provider" \in Faults
    /\ Proceed(c, "failing")
    /\ UNCHANGED <<linkVars, object, rowVars, queueVars, put, answered, stranded>>

\* Mutant: the error is recorded and not thrown again.
SwallowFailure(c) ==
    /\ Doing(c, "failing")
    /\ consumer' = [consumer EXCEPT ![c] = Free]
    /\ message' = [message EXCEPT ![Audio(c)] = "acked"]
    /\ UNCHANGED <<linkVars, object, rowVars, deliveries, put, answered, stranded>>
\* The job is marked as failed, whatever another delivery made of it, and the error thrown.
MarkFailed(c) ==
    /\ Doing(c, "failing")
    /\ SetJob(c, "failed") /\ Return(c)
    /\ UNCHANGED <<linkVars, object, inserted, put, answered, stranded>>

\* The worker stops, or D1 refuses one of the updates outside the try block.
ConsumerStops(c) ==
    /\ "worker" \in Faults /\ ~Doing(c, "idle")
    /\ Return(c)
    /\ stranded' = stranded \cup {Audio(c)}
    /\ UNCHANGED <<linkVars, object, rowVars, put, answered>>

Consume(c) ==
    \/ SetRunning(c) \/ Transcribe(c) \/ InsertSegments(c) \/ Complete(c)
    \/ Ack(c) \/ ConsumerFails(c) \/ MarkFailed(c)

-----------------------------------------------------------------------------
UploadStep ==
    \/ \E u \in Uploads : LinkExpires(u) \/ \E c \in Consumers : Deliver(c, u)
    \/ \E p \in Puts : Put(p) \/ PutFails(p) \/ \E u \in Uploads : DirectArrives(p, u)
    \/ \E c \in Consumers : Consume(c) \/ ConsumerStops(c)

UploadNext ==
    \/ UploadStep
    \/ \E u \in Uploads : SignUpload(u) \/ \E p \in Puts : PutArrives(p, u)

\* The worker runtime goes on with what it has accepted, and the queue delivers.
UploadFairness ==
    /\ \A p \in Puts : WF_uploadVars(Put(p))
    /\ \A c \in Consumers :
         /\ WF_uploadVars(Consume(c))
         /\ \A u \in Uploads : SF_uploadVars(Deliver(c, u))

UploadSpec == UploadInit /\ [][UploadNext]_uploadVars /\ UploadFairness

-----------------------------------------------------------------------------
(* Properties. *)

UploadTypeOK ==
    /\ link \in [Uploads -> LinkStates]
    /\ late \subseteq Uploads
    /\ object \subseteq Uploads
    /\ job \in [Uploads -> JobStates]
    /\ message \in [Uploads -> MessageStates]
    /\ deliveries \in [Uploads -> Nat]
    /\ inserted \in [Uploads -> Nat]
    /\ put \in [Puts -> [step : PutSteps, upload : Uploads \cup {None}]]
    /\ consumer \in [Consumers -> [step : ConsumerSteps, upload : Uploads \cup {None}]]
    /\ answered \subseteq Uploads /\ stranded \subseteq Uploads

Kept == {u \in object : job[u] # "none"}
UnderWay == {u \in Uploads : message[u] # "none"}
Ready == {u \in Uploads : job[u] = "completed"}

Promise == INSTANCE UploadPromise WITH
    Visits <- Uploads, kept <- Kept, underWay <- UnderWay, told <- answered,
    texts <- inserted, ready <- Ready

\* The upload and the queue implement the at-least-once promise: whatever PUTs, retries,
\* duplicates and failures meet, an upload is kept once, acknowledged only when its audio,
\* rows and message exist, and completed only with a transcript (persistAudioUpload,
\* consumeSignedAudioUpload, processSttQueueMessage).
PromiseKept == Promise!Spec

\* Every acknowledged upload ends as completed or failed for good, however often its message
\* is delivered, unless a worker stops and the queue delivers no more (max_retries, the
\* error that processSttQueueMessage throws again).
AnsweredEnds ==
    \A u \in Uploads :
        u \in answered ~> [](job[u] \in {"completed", "failed"} \/ u \in stranded)
=============================================================================
