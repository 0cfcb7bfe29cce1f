----------------------------- MODULE Undefined -----------------------------
(* null and undefined of the source: what a slot holds that holds nothing.  *)
CONSTANT None
=============================================================================
