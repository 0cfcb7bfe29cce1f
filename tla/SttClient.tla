----------------------------- MODULE SttClient -----------------------------
(* The realtime speech-to-text client of a call: ResilientSTTClient        *)
(* (src/main/services/stt.ts) over a Deepgram socket, the Apple helper     *)
(* process, or the providers that stand in for them (manual, unavailable). *)
(* Each call gets a client of its own. A chunk of audio is its number in   *)
(* the order of capture. Flushing the buffer has no other await than the   *)
(* provider's sendAudio, which never leaves the microtask queue, so it is  *)
(* one step.                                                               *)
EXTENDS Integers, Sequences, SequencesExt, FiniteSets

CONSTANTS
    Clients,        \* one per call
    Settings,          \* Settings[c]: the settings (sttProviderMode) client c may be created under
    MaxReconnect,   \* STT_MAX_RECONNECT
    BufferMax       \* chunks that fit in STT_BUFFER_MAX_MS

ASSUME SttAssumption ==
    /\ Settings \in [Clients ->
          SUBSET {"local_first", "deepgram_fallback", "deepgram_only", "manual_only"}]
    /\ MaxReconnect \in Nat
    /\ BufferMax \in Nat

VARIABLES
    kind,       \* kind[c]: the provider behind the client; "new": not created yet
    conn,       \* conn[c]: ConnectionState of the client
    attempts,   \* attempts[c]: reconnectAttempts
    chain,      \* chain[c]: where its pending start() or reconnect() waits;
                \* "aborted": in connect(), and its socket or process was disconnected
    buffer,     \* buffer[c]: bufferedChunks
    link,       \* link[c]: the provider's socket or process; "broken": a helper that reported
                \* an error and has not exited yet
    stopping,   \* the clients in stop(), waiting for disconnect()
    heard,      \* heard[c]: the chunks the provider has taken, in order
    pending     \* pending[c]: those a transcript may still come back for

sttVars == <<kind, conn, attempts, chain, buffer, link, stopping, heard, pending>>

ConnectionState == {"disconnected", "connecting", "connected", "reconnecting", "failed"}

SttInit ==
    /\ kind = [c \in Clients |-> "new"]
    /\ conn = [c \in Clients |-> "disconnected"]
    /\ attempts = [c \in Clients |-> 0]
    /\ chain = [c \in Clients |-> "none"]
    /\ buffer = [c \in Clients |-> <<>>]
    /\ link = [c \in Clients |-> "down"]
    /\ stopping = {}
    /\ heard = [c \in Clients |-> <<>>]
    /\ pending = [c \in Clients |-> {}]

-----------------------------------------------------------------------------
(* Parts of the client *)

\* The provider behind a mode.  The helper is there or it is not; without a key for the
\* socket the client is not created, and the call not started.
Resolves(mode) ==
    CASE mode = "manual_only" -> {"manual"}
      [] mode = "deepgram_only" -> {"deepgram"}
      [] mode = "deepgram_fallback" -> {"apple", "deepgram"}
      [] mode = "local_first" -> {"apple", "unavailable"}

\* These two resolve or reject in the turn of connect(), before anything else runs.
Settling(c) == kind[c] \in {"manual", "unavailable"} /\ chain[c] = "dialing"

\* The buffer drops its oldest chunks beyond the limit.
BufferChunk(b, n) ==
    LET all == Append(b, n)
    IN  SubSeq(all, Len(all) - (IF Len(all) > BufferMax THEN BufferMax ELSE Len(all)) + 1, Len(all))

\* Mutant: an attempt is not counted.
ReconnectForever(c, made) ==
    /\ conn' = [conn EXCEPT ![c] = "reconnecting"]
    /\ chain' = [chain EXCEPT ![c] = "sleeping"]
    /\ UNCHANGED attempts

\* reconnect() after `made` attempts: give up, or sleep before the next one.
Reconnect(c, made) ==
    IF made >= MaxReconnect
    THEN /\ conn' = [conn EXCEPT ![c] = "failed"]
         /\ chain' = [chain EXCEPT ![c] = "none"]
         /\ attempts' = [attempts EXCEPT ![c] = made]
    ELSE /\ conn' = [conn EXCEPT ![c] = "reconnecting"]
         /\ chain' = [chain EXCEPT ![c] = "sleeping"]
         /\ attempts' = [attempts EXCEPT ![c] = made + 1]

\* The provider takes chunks; the manual one drops them.
Take(c, chunks) ==
    IF kind[c] = "manual" THEN UNCHANGED <<heard, pending>>
    ELSE /\ heard' = [heard EXCEPT ![c] = @ \o chunks]
         /\ pending' = [pending EXCEPT ![c] = @ \cup ToSet(chunks)]

\* The transcripts that may still come after disconnect(): a socket answers for what it took
\* until it is closed, the output of a helper is closed first.
Owed(c) == IF kind[c] = "apple" THEN {} ELSE pending[c]

-----------------------------------------------------------------------------
(* Operations and events *)

\* start(): the state is set and the provider connects.
StartClient(c) ==
    /\ conn' = [conn EXCEPT ![c] = "connecting"]
    /\ chain' = [chain EXCEPT ![c] = "dialing"]
    /\ UNCHANGED <<attempts, buffer, stopping, heard, pending>>

\* The first start, on the provider the settings resolve to.
StartSTT(c) ==
    /\ \E mode \in Settings[c] : \E k \in Resolves(mode) : kind' = [kind EXCEPT ![c] = k]
    /\ StartClient(c)
    /\ UNCHANGED link

\* The sleep of reconnect() ends: start() again, whatever has happened to the client since.
Wake(c) ==
    /\ chain[c] = "sleeping"
    /\ StartClient(c)
    /\ UNCHANGED <<kind, link>>

\* Mutant: the chunks are sent and stay in the buffer.
ConnectedKeepsBuffer(c) ==
    /\ chain[c] = "dialing" /\ link[c] = "down" /\ kind[c] # "unavailable"
    /\ link' = [link EXCEPT ![c] = "open"]
    /\ attempts' = [attempts EXCEPT ![c] = 0]
    /\ conn' = [conn EXCEPT ![c] = "connected"]
    /\ chain' = [chain EXCEPT ![c] = "none"]
    /\ Take(c, buffer[c])
    /\ UNCHANGED <<kind, buffer, stopping>>

\* A new socket opens or a new helper is ready: the attempts are forgotten, the buffer flushed.
Connected(c) ==
    /\ chain[c] = "dialing" /\ link[c] = "down" /\ kind[c] # "unavailable"
    /\ link' = [link EXCEPT ![c] = "open"]
    /\ attempts' = [attempts EXCEPT ![c] = 0]
    /\ conn' = [conn EXCEPT ![c] = "connected"]
    /\ chain' = [chain EXCEPT ![c] = "none"]
    /\ Take(c, buffer[c])
    /\ buffer' = [buffer EXCEPT ![c] = <<>>]
    /\ UNCHANGED <<kind, stopping>>

\* The helper that failed has not exited: connect() returns at once.  The first buffered
\* chunk leaves the buffer, is refused, and a reconnection starts from no attempts.
ConnectedToBroken(c) ==
    /\ chain[c] = "dialing" /\ link[c] = "broken"
    /\ IF buffer[c] = <<>>
       THEN /\ attempts' = [attempts EXCEPT ![c] = 0]
            /\ conn' = [conn EXCEPT ![c] = "connected"]
            /\ chain' = [chain EXCEPT ![c] = "none"]
            /\ UNCHANGED buffer
       ELSE /\ buffer' = [buffer EXCEPT ![c] = Tail(@)]
            /\ Reconnect(c, 0)
    /\ UNCHANGED <<kind, link, stopping, heard, pending>>

\* connect() rejects: refused, timed out, disconnected meanwhile, or no provider at all.
ConnectFails(c) ==
    /\ chain[c] \in {"dialing", "aborted"}
    /\ chain[c] = "dialing" => link[c] # "broken" /\ kind[c] # "manual"
    /\ Reconnect(c, attempts[c])
    /\ UNCHANGED <<kind, buffer, link, stopping, heard, pending>>

\* The connection is gone, and the transcripts it owed with it: the network or the service
\* closes the socket, the helper exits.
LinkLost(c) ==
    /\ \/ kind[c] = "deepgram" /\ link[c] = "open"
       \/ kind[c] = "apple" /\ link[c] \in {"open", "broken"}
    /\ link' = [link EXCEPT ![c] = "down"]
    /\ pending' = [pending EXCEPT ![c] = {}]
    /\ UNCHANGED <<kind, conn, attempts, chain, buffer, stopping, heard>>

\* The helper writes an error: it is remembered and the process is told to terminate.
HelperFails(c) ==
    /\ kind[c] = "apple" /\ link[c] = "open"
    /\ link' = [link EXCEPT ![c] = "broken"]
    /\ UNCHANGED <<kind, conn, attempts, chain, buffer, stopping, heard, pending>>

\* sendAudio(): to the provider when connected; a chunk it refuses is buffered and the
\* client reconnects.
SendAudio(c, n) ==
    /\ ~Settling(c)
    /\ UNCHANGED <<kind, link, stopping>>
    /\ \/ /\ conn[c] # "connected"
          /\ buffer' = [buffer EXCEPT ![c] = BufferChunk(@, n)]
          /\ UNCHANGED <<conn, attempts, chain, heard, pending>>
       \/ /\ conn[c] = "connected" /\ link[c] = "open"
          /\ Take(c, <<n>>)
          /\ UNCHANGED <<conn, attempts, chain, buffer>>
       \/ /\ conn[c] = "connected" /\ link[c] # "open"
          /\ buffer' = [buffer EXCEPT ![c] = BufferChunk(@, n)]
          /\ Reconnect(c, attempts[c])
          /\ UNCHANGED <<heard, pending>>

\* stop(): the buffer and the attempts are cleared and the provider disconnects.  A pending
\* connect() will reject; a sleeping reconnect() is left to its timer.
StopSTT(c) ==
    /\ ~Settling(c)
    /\ buffer' = [buffer EXCEPT ![c] = <<>>]
    /\ attempts' = [attempts EXCEPT ![c] = 0]
    /\ link' = [link EXCEPT ![c] = "down"]
    /\ chain' = [chain EXCEPT ![c] = IF @ = "dialing" THEN "aborted" ELSE @]
    /\ pending' = [pending EXCEPT ![c] = Owed(c)]
    /\ IF link[c] = "down" /\ chain[c] # "dialing"
       THEN conn' = [conn EXCEPT ![c] = "disconnected"] /\ UNCHANGED stopping
       ELSE stopping' = stopping \cup {c} /\ UNCHANGED conn
    /\ UNCHANGED <<kind, heard>>

\* The socket is closed or the helper has exited: stop() ends.
Disconnected(c) ==
    /\ c \in stopping
    /\ stopping' = stopping \ {c}
    /\ pending' = [pending EXCEPT ![c] = {}]
    /\ conn' = [conn EXCEPT ![c] = "disconnected"]
    /\ UNCHANGED <<kind, attempts, chain, buffer, link, heard>>

\* The provider delivers the transcript of a chunk.
Transcribe(c, n) ==
    /\ n \in pending[c]
    /\ pending' = [pending EXCEPT ![c] = @ \ {n}]
    /\ UNCHANGED <<kind, conn, attempts, chain, buffer, link, stopping, heard>>

SttStep(c) ==
    \/ Wake(c)
    \/ Connected(c)
    \/ ConnectedToBroken(c)
    \/ ConnectFails(c)
    \/ LinkLost(c)
    \/ HelperFails(c)

\* A timer fires, a connection attempt ends, a disconnection ends.
SttProgress(c) == Wake(c) \/ Connected(c) \/ ConnectedToBroken(c) \/ ConnectFails(c)

-----------------------------------------------------------------------------
(* Properties *)

\* Whatever is buffered, refused and sent again, a provider takes the audio of its call in
\* the order of capture and no chunk twice (sendAudio, bufferChunk, flushBufferedChunks).
AudioHeardInOrder ==
    \A c \in Clients : \A i, j \in 1..Len(heard[c]) : i < j => heard[c][i] < heard[c][j]

\* A reconnection comes to an end: the client is connected, or has given up.
ReconnectionSettles == \A c \in Clients : chain[c] # "none" ~> chain[c] = "none"
=============================================================================
