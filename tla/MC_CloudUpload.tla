--------------------------- MODULE MC_CloudUpload ---------------------------
(* One upload, two requests with its audio, two queue invocations.         *)
EXTENDS CloudUpload

CONSTANTS u1, p1, p2, c1, c2

OneUpload == {u1}
TwoPuts == {p1, p2}
TwoConsumers == {c1, c2}
AllFaults == {"put", "provider", "worker", "duplicate"}
=============================================================================
