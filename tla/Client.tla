------------------------------- MODULE Client -------------------------------
(***************************************************************************)
(* The people who settle what the library will not settle by itself, with  *)
(* the operations of openonce/client.py that the CLI's approve, deny,      *)
(* resolve-happened and resolve-not-happened commands call.  approve and   *)
(* deny are one move; the two resolutions first read the record and then   *)
(* move it from the state they read.                                       *)
(*                                                                         *)
(* What a person decides is outside the code.  The model's people look at  *)
(* the provider before they resolve an outcome and report what they see;   *)
(* Handled and ReviewApprovable say which records they act on at all.      *)
(***************************************************************************)
EXTENDS EffectStore, World

CONSTANTS
  People,
  Handled,           \* the states in which a person acts on a record
  ReviewApprovable,  \* may a person approve() a record in human_review
  MaxApprovals       \* bound: approve() re-arms no record past this attempt

ASSUME ClientAssumption ==
  /\ Handled \subseteq States
  /\ ReviewApprovable \in BOOLEAN

VARIABLES task, read

client == <<task, read>>

Tasks == {"idle", "happened", "close", "not_happened"}

NoRead == [state |-> "absent", attempt |-> 0]

Take(p, x, r) ==
  /\ task' = [task EXCEPT ![p] = x]
  /\ read' = [read EXCEPT ![p] = r]

Finish(p) == Take(p, "idle", NoRead)

\* Mutant: a settled failure may be approved too, as the table would allow.
ApproveFailed(p) ==
  /\ task[p] = "idle"
  /\ Transition({"requires_approval", "failed"}, "approved", None, eff)
  /\ UNCHANGED <<world, client>>

\* approve(): REQUIRES_APPROVAL or HUMAN_REVIEW -> APPROVED, nothing else set.
Approve(p) ==
  /\ task[p] = "idle"
  /\ eff.state \in Handled
  /\ eff.state = "human_review" => ReviewApprovable /\ eff.attempt < MaxApprovals
  /\ Transition({"requires_approval", "human_review"}, "approved", None, eff)
  /\ UNCHANGED <<world, client>>

\* deny()
Deny(p) ==
  /\ task[p] = "idle"
  /\ eff.state \in Handled
  /\ Transition({"requires_approval"}, "denied", None, eff)
  /\ UNCHANGED <<world, client>>

\* resolve_happened(), up to the state it read.
ReadHappened(p) ==
  /\ task[p] = "idle"
  /\ eff.state \in Handled \cap {"unknown", "human_review", "receipt_recorded"}
  /\ landed > 0
  /\ Take(p, "happened", [state |-> eff.state, attempt |-> 0])
  /\ UNCHANGED <<eff, world>>

\* An unknown effect gets the receipt first and is committed by a second
\* move; a reviewed or already receipted one is committed with the receipt.
RecordHappened(p) ==
  LET receipted == [eff EXCEPT !.result = "manual"]
      from      == {read[p].state}
  IN /\ task[p] = "happened"
     /\ \/ /\ read[p].state = "unknown"
           /\ \/ /\ Transition(from, "receipt_recorded", None, receipted)
                 /\ Take(p, "close", NoRead)
              \/ Lost(from, "receipt_recorded", None) /\ Finish(p)
        \/ /\ read[p].state # "unknown"
           /\ \/ Transition(from, "committed", None, receipted)
              \/ Lost(from, "committed", None)
           /\ Finish(p)
     /\ UNCHANGED world

CloseHappened(p) ==
  /\ task[p] = "close"
  /\ \/ Transition({"receipt_recorded"}, "committed", None, eff)
     \/ Lost({"receipt_recorded"}, "committed", None)
  /\ Finish(p)
  /\ UNCHANGED world

\* Mutant: whatever state the effect is in, it is taken to await a review.
ReadNotHappenedAny(p) ==
  /\ task[p] = "idle"
  /\ eff.state # "absent"
  /\ landed = 0
  /\ Take(p, "not_happened", [state |-> eff.state, attempt |-> eff.attempt])
  /\ UNCHANGED <<eff, world>>

\* resolve_not_happened(), up to the state and the attempt it read.
ReadNotHappened(p) ==
  /\ task[p] = "idle"
  /\ eff.state \in Handled \cap {"unknown", "human_review"}
  /\ landed = 0
  /\ Take(p, "not_happened", [state |-> eff.state, attempt |-> eff.attempt])
  /\ UNCHANGED <<eff, world>>

ApplyNotHappened(p) ==
  LET from == {read[p].state}
  IN /\ task[p] = "not_happened"
     /\ \/ /\ read[p].attempt >= MaxAttempts
           /\ \/ Transition(from, "failed", None, [eff EXCEPT !.result = "exhausted"])
              \/ Lost(from, "failed", None)
        \/ /\ read[p].attempt < MaxAttempts
           /\ \/ Transition(from, "approved", None, [eff EXCEPT !.result = NoResult])
              \/ Lost(from, "approved", None)
     /\ Finish(p)
     /\ UNCHANGED world

\* The command is killed between two of its operations.
Abandon(p) ==
  /\ task[p] # "idle"
  /\ Finish(p)
  /\ UNCHANGED <<eff, world>>

Operate(p) ==
  \/ Approve(p) \/ Deny(p)
  \/ ReadHappened(p) \/ RecordHappened(p) \/ CloseHappened(p)
  \/ ReadNotHappened(p) \/ ApplyNotHappened(p)

ClientInit ==
  /\ task = [p \in People |-> "idle"]
  /\ read = [p \in People |-> NoRead]

ClientTypeOK ==
  /\ task \in [People -> Tasks]
  /\ read \in [People -> [state : States \cup {"absent"}, attempt : Nat]]
=============================================================================
