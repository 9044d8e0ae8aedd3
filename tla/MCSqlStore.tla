----------------------------- MODULE MCSqlStore -----------------------------
(***************************************************************************)
(* A small instance of SqlStore.  The requests are transition() calls of   *)
(* runtime.py and reconciler.py that lead through every kind of outcome: a *)
(* start with its lease, guarded and unguarded moves out of it, a re-arm.  *)
(***************************************************************************)
EXTENDS SqlStore, TLC

Req(from, to, guarded) == [from |-> from, to |-> to, guarded |-> guarded]

MCRequests ==
  {Req({"planned"}, "approved", FALSE),
   Req({"approved"}, "started", FALSE),
   Req({"started"}, "receipt_recorded", TRUE),
   Req({"started"}, "unknown", FALSE),
   Req({"unknown"}, "approved", FALSE)}

MCSymmetry == Permutations(Conns)
=============================================================================
