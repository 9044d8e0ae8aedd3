---------------------------- MODULE EffectStates ----------------------------
(***************************************************************************)
(* The effect lifecycle of openonce/state.py: the states, the table of     *)
(* legal moves every store consults before it changes a record, and the    *)
(* classes of states that replay and reconciliation are about.             *)
(***************************************************************************)

States == {"planned", "requires_approval", "approved", "denied", "started",
           "receipt_recorded", "committed", "failed", "unknown",
           "human_review", "canceled"}

\* TRANSITIONS: the states a record may move to from each state.
Transitions ==
  [planned           |-> {"requires_approval", "approved", "denied", "canceled"},
   requires_approval |-> {"approved", "denied", "canceled"},
   approved          |-> {"started", "canceled"},
   started           |-> {"receipt_recorded", "failed", "unknown"},
   receipt_recorded  |-> {"committed", "human_review"},
   unknown           |-> {"receipt_recorded", "approved", "failed", "human_review"},
   human_review      |-> {"committed", "approved", "failed", "canceled"},
   failed            |-> {"approved"},
   committed         |-> {},
   denied            |-> {},
   canceled          |-> {}]

CanTransition(from, to) == to \in Transitions[from]

\* States whose cached result is replayed to duplicate callers.
Replayable == {"committed", "failed"}

\* States the reconciler drives forward; their age is what its scans read.
Reconcilable == {"started", "unknown"}
=============================================================================
