----------------------------- MODULE Reconciler -----------------------------
(***************************************************************************)
(* openonce/reconciler.py: run_once, run by one or more reconcilers.  Each *)
(* scan hands out a snapshot of the record; the probe and the move follow  *)
(* later, with whatever happened to the record in between.  `step` is the  *)
(* operation a reconciler is about to perform and `held` the attempt       *)
(* number in its snapshot.                                                 *)
(*                                                                         *)
(* run_once reads the clock once, before its scans.  A scan with an older  *)
(* `now` only leaves out records that a scan with the current one returns, *)
(* so the model scans with the current clock.  Records come one at a time  *)
(* and a later scan may follow any earlier one (`--watch` loops), so the   *)
(* two phases are two actions.                                             *)
(***************************************************************************)
EXTENDS EffectStore, World

CONSTANT Reconcilers

VARIABLES step, held

reconciler == <<step, held>>

ReconcilerSteps == {"idle", "expired", "probe", "happened", "close", "missed", "escalate"}

Then(r, s, n) ==
  /\ step' = [step EXCEPT ![r] = s]
  /\ held' = [held EXCEPT ![r] = n]

Done(r) == Then(r, "idle", 0)

\* Mutant: the lease of a started record is not looked at.
ScanStartedLive(r) ==
  /\ step[r] = "idle"
  /\ Scanned("started")
  /\ Then(r, "expired", 0)
  /\ UNCHANGED <<eff, world>>

\* Phase 1: a started record past its grace whose lease has run out.
ScanStarted(r) ==
  /\ step[r] = "idle"
  /\ Scanned("started")
  /\ ~LeaseLive
  /\ Then(r, "expired", 0)
  /\ UNCHANGED <<eff, world>>

\* ... is parked: by its state alone, with no second look at the lease.
ParkExpired(r) ==
  /\ step[r] = "expired"
  /\ \/ Transition({"started"}, "unknown", None, eff)
     \/ Lost({"started"}, "unknown", None)
  /\ Done(r)
  /\ UNCHANGED world

\* Phase 2: an unknown record past its grace.
ScanUnknown(r) ==
  /\ step[r] = "idle"
  /\ Scanned("unknown")
  /\ Then(r, "probe", eff.attempt)
  /\ UNCHANGED <<eff, world>>

\* Mutant: no evidence that it happened is evidence that it did not.
ProbeGuess(r) ==
  /\ step[r] = "probe"
  /\ \/ landed > 0 /\ Then(r, "happened", 0)
     \/ Then(r, "missed", held[r])
  /\ UNCHANGED <<eff, world>>

\* _resolve up to the verdict.  A prober tells the truth about the world at
\* the time it looks, or nothing: it is missing, raises, is inconclusive, or
\* the capability and conformance rules do not let its answer count.
Probe(r) ==
  /\ step[r] = "probe"
  /\ \/ landed > 0 /\ Then(r, "happened", 0)
     \/ landed = 0 /\ Then(r, "missed", held[r])
     \/ Then(r, "escalate", 0)
  /\ UNCHANGED <<eff, world>>

\* HAPPENED: record the probe's receipt ...
RecordProbe(r) ==
  /\ step[r] = "happened"
  /\ \/ /\ Transition({"unknown"}, "receipt_recorded", None,
                      [eff EXCEPT !.result = "receipt"])
        /\ Then(r, "close", 0)
     \/ Lost({"unknown"}, "receipt_recorded", None) /\ Done(r)
  /\ UNCHANGED world

\* ... and commit it.
CloseProbe(r) ==
  /\ step[r] = "close"
  /\ \/ Transition({"receipt_recorded"}, "committed", None, eff)
     \/ Lost({"receipt_recorded"}, "committed", None)
  /\ Done(r)
  /\ UNCHANGED world

\* NOT_HAPPENED: fail the effect when the snapshot has no attempts left,
\* otherwise arm it again.
ResolveMissed(r) ==
  /\ step[r] = "missed"
  /\ \/ /\ held[r] >= MaxAttempts
        /\ \/ Transition({"unknown"}, "failed", None, [eff EXCEPT !.result = "exhausted"])
           \/ Lost({"unknown"}, "failed", None)
     \/ /\ held[r] < MaxAttempts
        /\ \/ Transition({"unknown"}, "approved", None, [eff EXCEPT !.result = NoResult])
           \/ Lost({"unknown"}, "approved", None)
  /\ Done(r)
  /\ UNCHANGED world

\* Mutant: what cannot be resolved is left as it is.
EscalateNot(r) == step[r] = "escalate" /\ Done(r) /\ UNCHANGED <<eff, world>>

\* _escalate: a human has to look.
Escalate(r) ==
  /\ step[r] = "escalate"
  /\ \/ Transition({"unknown"}, "human_review", None, eff)
     \/ Lost({"unknown"}, "human_review", None)
  /\ Done(r)
  /\ UNCHANGED world

\* The process dies between two of its operations.
ReconcilerDies(r) ==
  /\ step[r] # "idle"
  /\ Done(r)
  /\ UNCHANGED <<eff, world>>

Reconcile(r) ==
  \/ ScanStarted(r) \/ ParkExpired(r) \/ ScanUnknown(r) \/ Probe(r)
  \/ RecordProbe(r) \/ CloseProbe(r) \/ ResolveMissed(r) \/ Escalate(r)

ReconcilerInit ==
  /\ step = [r \in Reconcilers |-> "idle"]
  /\ held = [r \in Reconcilers |-> 0]

ReconcilerTypeOK ==
  /\ step \in [Reconcilers -> ReconcilerSteps]
  /\ held \in [Reconcilers -> Nat]
=============================================================================
