------------------------ MODULE MC_RecordingSession ------------------------
(* Small instances of RecordingSession: two calls, one or two           *)
(* invocations of each handler.                                            *)
EXTENDS RecordingSession

CONSTANTS c1, c2, s1, s2, e1, e2, d1, x1, x2

TwoCalls == {c1, c2}
OneStarter == {s1}
TwoStarters == {s1, s2}
OneEnder == {e1}
TwoEnders == {e1, e2}
OneDiagStarter == {d1}
OneDiagStopper == {x1}
TwoDiagStoppers == {x1, x2}
Nobody == {}

AllFaults == {"start", "audit", "endCall", "finalize", "drain"}
NoFaults == {}
=============================================================================
