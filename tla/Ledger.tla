------------------------------- MODULE Ledger -------------------------------
(***************************************************************************)
(* What every store of openonce/store promises about one effect, whatever  *)
(* keeps it: a record that is inserted once and then moves along the       *)
(* table, and a journal that grows by one entry, for exactly that move, in *)
(* the same instant.  SqlStore is shown to implement it.                   *)
(***************************************************************************)
EXTENDS Integers, Sequences, EffectStates

VARIABLES
  state,     \* the record's state, "absent" before the insert
  journal    \* the effect's journal entries in the order of seq

ledger == <<state, journal>>

\* The journal keeps what it has and gains the entry of this move.
Journaled ==
  /\ Len(journal') = Len(journal) + 1
  /\ \A i \in 1..Len(journal) : journal'[i] = journal[i]
  /\ journal'[Len(journal')].from = state
  /\ journal'[Len(journal')].to = state'

Insert == state = "absent" /\ state' = "planned" /\ Journaled

Move == state # "absent" /\ CanTransition(state, state') /\ Journaled

LedgerInit == state = "absent" /\ journal = << >>

LedgerSpec == LedgerInit /\ [][Insert \/ Move]_ledger
=============================================================================
