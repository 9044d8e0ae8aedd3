--------------------------- MODULE DurableEffect ----------------------------
(***************************************************************************)
(* What OpenOnce promises its users about one effect whatever the timing,  *)
(* the crashes and the number of workers, reconcilers and people: the      *)
(* abstract specification that OpenOnce is shown to implement.             *)
(*                                                                         *)
(* An effect is undecided until it is settled, and is settled once: as     *)
(* happened, only if the side effect took place; as failed; or as refused, *)
(* and then the side effect never took place and never will.  A caller     *)
(* that is given an outcome by replay is given the settled one.            *)
(***************************************************************************)
EXTENDS Integers

CONSTANTS Callers, OkOutcomes, FailOutcomes, Nothing

VARIABLES
  phase,     \* where the effect stands
  outcome,   \* the settled result, Nothing while there is none
  landings,  \* how often the side effect took place
  told       \* the outcome each caller was last given by replay, or Nothing

abstract == <<phase, outcome, landings, told>>

Phases == {"unasked", "undecided", "happened", "failed", "refused"}

DurableInit ==
  /\ phase = "unasked"
  /\ outcome = Nothing
  /\ landings = 0
  /\ told = [c \in Callers |-> Nothing]

\* A first caller asks for the effect.
Ask ==
  /\ phase = "unasked"
  /\ phase' = "undecided"
  /\ UNCHANGED <<outcome, landings>>

\* The side effect takes place, for an effect that somebody let through.
TakePlace ==
  /\ phase \notin {"unasked", "refused"}
  /\ landings' \in {landings, landings + 1}
  /\ UNCHANGED <<phase, outcome>>

SettleHappened ==
  /\ phase = "undecided"
  /\ landings > 0
  /\ phase' = "happened"
  /\ outcome' \in OkOutcomes
  /\ UNCHANGED landings

SettleFailed ==
  /\ phase = "undecided"
  /\ phase' = "failed"
  /\ outcome' \in FailOutcomes
  /\ UNCHANGED landings

Refuse ==
  /\ phase = "undecided"
  /\ landings = 0
  /\ phase' = "refused"
  /\ UNCHANGED <<outcome, landings>>

\* At any time callers may learn the settled outcome, and forget what they
\* learned; they never learn anything else.
Tell == \A c \in Callers : told'[c] \in {told[c], Nothing, outcome}

DurableNext ==
  /\ Tell
  /\ \/ Ask \/ TakePlace \/ SettleHappened \/ SettleFailed \/ Refuse
     \/ UNCHANGED <<phase, outcome, landings>>

DurableSpec == DurableInit /\ [][DurableNext]_abstract
=============================================================================
