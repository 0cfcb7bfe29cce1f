---------------------------- MODULE MC_LiveCall ----------------------------
(* Small instances of LiveCall: two calls of a few utterances.             *)
EXTENDS LiveCall

TwoCalls == {1, 2}
FirstAndLast == {1, 3}
\* The first call over the socket, the second over the helper where there is one, or with
\* the transcript typed by hand.
SocketThenHelper == <<{"deepgram_only"}, {"local_first", "manual_only"}>>
=============================================================================
