---------------------------- MODULE EffectStore -----------------------------
(***************************************************************************)
(* The ledger's record of ONE idempotency key, and the two atomic          *)
(* primitives of openonce/store: create_or_get and transition.  No         *)
(* operation of the program relates two keys, so one record is the whole   *)
(* ledger as far as an effect is concerned.                                *)
(*                                                                         *)
(* Instants are kept as distances from now, which only Tick moves:         *)
(* `lease` is lease_expires_at - now (0 once expired), `age` is            *)
(* now - updated_at, saturated at the grace period that scans compare it   *)
(* with and counted only in the states that are scanned.                   *)
(***************************************************************************)
EXTENDS Integers, EffectStates

CONSTANTS
  Workers,       \* worker_id of each Runtime instance
  Fingerprints,  \* args_fingerprint values callers bring for the key
  None,          \* Python's None
  MaxAttempts,   \* the record's max_attempts
  LeaseSeconds,  \* ticks an executor's lease lasts
  Grace          \* ticks a scanned record must have been left alone

ASSUME NoneAssumption  == None \notin Workers \cup Fingerprints
ASSUME AttemptsAssumption == MaxAttempts \in Nat \ {0}
ASSUME TimesAssumption == LeaseSeconds \in Nat \ {0} /\ Grace \in Nat

VARIABLE eff     \* the record of the key, or Absent

\* EffectResult: the ok results by who produced the value, then the failures.
OkResults   == {"value",      \* the handler returned it
                "receipt",    \* a prober found it
                "manual"}     \* a human supplied it
FailResults == {"error",      \* the handler raised a definitive failure
                "exhausted"}  \* resolved as not happened, no attempts left
NoResult    == "none"

Effects == [state   : States \cup {"absent"},
            attempt : Nat,
            result  : OkResults \cup FailResults \cup {NoResult},
            lease   : 0..LeaseSeconds,
            owner   : Workers \cup {None},
            age     : 0..Grace,
            args    : Fingerprints \cup {None}]

Absent == [state |-> "absent", attempt |-> 0, result |-> NoResult, lease |-> 0,
           owner |-> None, age |-> 0, args |-> None]

LeaseLive == eff.lease > 0

\* Mutant: the insert is not conditional on the key being unused.
CreateAgain(fp) == eff' = [Absent EXCEPT !.state = "planned", !.args = fp]

\* create_or_get won: the key's UNIQUE constraint admits one insert.
Create(fp) ==
  /\ eff.state = "absent"
  /\ eff' = [Absent EXCEPT !.state = "planned", !.args = fp]

\* transition's compare: the state, the table and, for a caller that passes
\* require_lease_owner, a live lease that must be its own.
Accepts(from, to, who) ==
  /\ eff.state \in from
  /\ CanTransition(eff.state, to)
  /\ who # None /\ LeaseLive => eff.owner = who

\* Mutant: a move leaves updated_at as it was.
TransitionUndated(from, to, who, rec) ==
  /\ Accepts(from, to, who)
  /\ eff' = [rec EXCEPT !.state = to]

\* transition succeeded: `rec` is the record with set_fields applied.
Transition(from, to, who, rec) ==
  /\ Accepts(from, to, who)
  /\ eff' = [rec EXCEPT !.state = to, !.age = 0]

\* transition returned None: nothing is changed or journaled.
Lost(from, to, who) == ~Accepts(from, to, who) /\ UNCHANGED eff

\* Mutant: the grace period is not waited for.
ScannedAtOnce(s) == eff.state = s

\* scan_states({s}, updated_before = now - grace)
Scanned(s) == eff.state = s /\ eff.age >= Grace

\* Mutant: an expired lease goes on counting.
StoreTickPast ==
  eff' = [eff EXCEPT
            !.lease = @ - 1,
            !.age   = IF eff.state \in Reconcilable /\ @ < Grace THEN @ + 1 ELSE @]

\* One tick of the clock, as the record sees it.
StoreTick ==
  eff' = [eff EXCEPT
            !.lease = IF @ > 0 THEN @ - 1 ELSE 0,
            !.age   = IF eff.state \in Reconcilable /\ @ < Grace THEN @ + 1 ELSE @]

StoreInit == eff = Absent
=============================================================================
