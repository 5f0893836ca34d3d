---------------------------- MODULE MCWebWorker -----------------------------
(* Two clicks on Init, two messages of every kind. *)
EXTENDS WebWorker

AllKinds == {"state", "execute", "other", "shadow", "array", "invalid"}
=============================================================================
