--------------------------- MODULE UploadPromise ---------------------------
(***************************************************************************)
(* What the cloud promises somebody who uploads a recording, whatever its  *)
(* workers and its queue do: the audio and its call are kept once, an      *)
(* upload is acknowledged only when they are kept and its transcription is *)
(* under way, only kept audio is transcribed, and what is reported as      *)
(* transcribed has a transcript.  It is an at-least-once promise: there    *)
(* may be several transcripts, and a finished job may be taken up again.   *)
(***************************************************************************)
EXTENDS Naturals

CONSTANT Visits   \* the visits whose recordings are uploaded, each one upload

VARIABLES
    kept,         \* uploads whose audio, call and job are stored
    underWay,     \* uploads handed to the queue
    told,         \* uploads acknowledged to the client
    texts,        \* how many transcripts an upload has
    ready         \* uploads reported as transcribed

promiseVars == <<kept, underWay, told, texts, ready>>

Init ==
    /\ kept = {} /\ underWay = {} /\ told = {} /\ ready = {}
    /\ texts = [u \in Visits |-> 0]

Keep(u) ==
    /\ u \notin kept
    /\ kept' = kept \cup {u}
    /\ UNCHANGED <<underWay, told, texts, ready>>

HandOver(u) ==
    /\ u \in kept \ underWay
    /\ underWay' = underWay \cup {u}
    /\ UNCHANGED <<kept, told, texts, ready>>

Tell(u) ==
    /\ u \in underWay
    /\ told' = told \cup {u}
    /\ UNCHANGED <<kept, underWay, texts, ready>>

AddTranscript(u) ==
    /\ u \in underWay
    /\ texts' = [texts EXCEPT ![u] = @ + 1]
    /\ UNCHANGED <<kept, underWay, told, ready>>

Report(u) ==
    /\ texts[u] > 0
    /\ ready' = ready \cup {u}
    /\ UNCHANGED <<kept, underWay, told, texts>>

\* The job of u is taken up again, or a late failure replaces its status.
TakeUpAgain(u) ==
    /\ ready' = ready \ {u}
    /\ UNCHANGED <<kept, underWay, told, texts>>

Next ==
    \E u \in Visits :
        Keep(u) \/ HandOver(u) \/ Tell(u) \/ AddTranscript(u) \/ Report(u) \/ TakeUpAgain(u)

Spec == Init /\ [][Next]_promiseVars
=============================================================================
