------------------------------- MODULE World --------------------------------
(***************************************************************************)
(* The provider a handler calls, which is outside the repository: how many *)
(* times the side effect has really taken place, and whether a request     *)
(* that its executor has already given up on is still on its way.          *)
(* This is the fact the ledger is trying to be right about.                *)
(***************************************************************************)
EXTENDS Integers

CONSTANT MaxLandings   \* where `landed` saturates; two show a duplicate

ASSUME LandingsAssumption == MaxLandings \in Nat \ {0}

VARIABLES landed, wire

world == <<landed, wire>>

\* The provider carries the request out.
Happens == landed' = IF landed < MaxLandings THEN landed + 1 ELSE landed

\* A request abandoned by its handler (a timeout, a crash) may have been sent.
MaybeSent == wire' \in {wire, TRUE} /\ UNCHANGED landed

\* An abandoned request arrives after all.
LateLanding ==
  /\ wire
  /\ Happens
  /\ wire' = FALSE

WorldInit == landed = 0 /\ wire = FALSE
=============================================================================
