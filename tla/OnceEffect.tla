----------------------------- MODULE OnceEffect -----------------------------
(***************************************************************************)
(* What OpenOnce promises beyond DurableEffect where a deployment keeps    *)
(* its times and leaves every uncertain record to one resolver: the side   *)
(* effect takes place at most once, before the effect is settled and never *)
(* after; an effect that is settled as failed never took place; and every  *)
(* caller that is given an outcome, the one whose handler ran included, is *)
(* given the settled one.                                                  *)
(***************************************************************************)
EXTENDS DurableEffect

\* The side effect takes place, for the only time.
TakePlaceOnce ==
  /\ phase = "undecided"
  /\ landings = 0
  /\ landings' = 1
  /\ UNCHANGED <<phase, outcome>>

SettleNotHappened == landings = 0 /\ SettleFailed

\* Callers may learn the outcome in the very step that settles it.
Learn == \A c \in Callers : told'[c] \in {told[c], Nothing, outcome'}

OnceNext ==
  /\ Learn
  /\ \/ Ask \/ TakePlaceOnce \/ SettleHappened \/ SettleNotHappened \/ Refuse
     \/ UNCHANGED <<phase, outcome, landings>>

OnceSpec == DurableInit /\ [][OnceNext]_abstract
=============================================================================
