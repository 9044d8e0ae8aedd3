----------------------------- MODULE MCOpenOnce -----------------------------
(***************************************************************************)
(* OpenOnce for model checking: two or three threads, each on a worker of  *)
(* its own, calling with the same or with different arguments.             *)
(***************************************************************************)
EXTENDS OpenOnce, TLC

CONSTANTS t1, t2, t3, f1, f2

MCThreads == {t1, t2, t3}

\* One Runtime per thread: a worker is named after its thread.
MCWorkerOf == [t \in Threads |-> t]

\* Everybody asks for the same thing.
SameArgs == [t \in Threads |-> f1]

\* t3 uses the key for something else.
OtherArgs == [t \in Threads |-> IF t = t3 THEN f2 ELSE f1]

MCSymmetry == Permutations(Threads)
=============================================================================
