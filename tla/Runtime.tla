------------------------------ MODULE Runtime -------------------------------
(***************************************************************************)
(* openonce/runtime.py: Runtime.execute, run by many threads on one key.   *)
(*                                                                         *)
(* An action is one operation on the ledger with the local code up to the  *)
(* next one, so the threads interleave exactly where the code leaves the   *)
(* store's lock.  `pc` says which operation a thread is about to perform;  *)
(* `seen` is the attempt number in the record it holds, the one field of   *)
(* that possibly stale copy the code goes on to use (0 where it does not); *)
(* `got` is how the thread's last call ended.                              *)
(***************************************************************************)
EXTENDS EffectStore, World

CONSTANTS
  Threads,       \* concurrent callers of execute
  WorkerOf,      \* the Runtime (worker_id) a thread runs on
  ArgsOf,        \* the args_fingerprint a thread's call computes
  MaxRuns        \* where `runs` saturates, so that the model stays finite

ASSUME RuntimeAssumption ==
  /\ WorkerOf \in [Threads -> Workers]
  /\ ArgsOf \in [Threads -> Fingerprints]
  /\ MaxRuns \in Nat \ {0}

VARIABLES pc, seen, got,
          runs     \* how often a handler has been invoked (a history variable)

local    == <<pc, seen, got, runs>>
runtime  == <<eff, world, local>>

\* What a call that reports on the effect raises, beside a replayed result.
Signals == {"invalid", "mismatch", "pending", "denied", "unknown", "in_flight",
            "policy_error", "interrupted"}
\* The worker's own outcome, told without reading it back from the ledger.
OwnOutcomes == {"own_value", "own_error"}
Answers == OkResults \cup FailResults \cup Signals \cup OwnOutcomes \cup {NoResult}

\* In these a handler is running; "landed" once its side effect took place.
InHandler == {"calling", "landed"}
Steps == InHandler \cup {"idle", "admit", "gate", "start", "rejoin", "wait", "expire",
           "receipt", "lost", "review", "commit", "park", "retry", "rearm", "fail"}

Goto(t, step, n) ==
  /\ pc'   = [pc EXCEPT ![t] = step]
  /\ seen' = [seen EXCEPT ![t] = n]
  /\ got'  = [got EXCEPT ![t] = NoResult]
  /\ UNCHANGED runs

Answer(t, a) ==
  /\ pc'   = [pc EXCEPT ![t] = "idle"]
  /\ seen' = [seen EXCEPT ![t] = 0]
  /\ got'  = [got EXCEPT ![t] = a]
  /\ UNCHANGED runs

-----------------------------------------------------------------------------
\* Mutant: a follower parks an executor whose lease is still live.
FollowAnyLease(t) ==
  \/ eff.state \in Replayable /\ Answer(t, eff.result)
  \/ eff.state = "approved" /\ Goto(t, "start", eff.attempt)
  \/ eff.state = "started" /\ Goto(t, "expire", 0)
  \/ eff.state \in States \ {"committed", "failed", "approved", "started"}
     /\ Answer(t, "unknown")

\* Mutant: an armed effect is left to whoever armed it.
FollowNeverStarts(t) ==
  \/ eff.state \in Replayable /\ Answer(t, eff.result)
  \/ eff.state = "started" /\ ~LeaseLive /\ Goto(t, "expire", 0)
  \/ eff.state \in {"denied", "canceled", "requires_approval", "unknown", "human_review"}
     /\ Answer(t, "unknown")
  \/ eff.state \in {"planned", "approved", "receipt_recorded"} /\ Goto(t, "wait", 0)
  \/ eff.state = "started" /\ LeaseLive /\ Goto(t, "wait", 0)

\* _follow on a record just read: replay it, surface its parked state, take
\* over an armed one, park a dead executor's, or wait for a live one.
Follow(t) ==
  \/ eff.state \in Replayable /\ Answer(t, eff.result)
  \/ eff.state = "requires_approval" /\ Answer(t, "pending")
  \/ eff.state \in {"denied", "canceled"} /\ Answer(t, "denied")
  \/ eff.state \in {"unknown", "human_review"} /\ Answer(t, "unknown")
  \/ eff.state = "approved" /\ Goto(t, "start", eff.attempt)
  \/ eff.state = "started" /\ ~LeaseLive /\ Goto(t, "expire", 0)
  \/ eff.state = "started" /\ LeaseLive /\ Goto(t, "wait", 0)
  \/ eff.state \in {"planned", "receipt_recorded"} /\ Goto(t, "wait", 0)

\* execute up to the lookup: the ledger first, preflight only for a new key.
Call(t) ==
  /\ pc[t] = "idle"
  /\ UNCHANGED <<eff, world>>
  /\ \/ eff.state = "absent" /\ (Answer(t, "invalid") \/ Goto(t, "admit", 0))
     \/ eff.state # "absent" /\ eff.args # ArgsOf[t] /\ Answer(t, "mismatch")
     \/ eff.state # "absent" /\ eff.args = ArgsOf[t] /\ Follow(t)

\* Mutant: the loser of the admission race does not compare fingerprints.
AdmitUnchecked(t) ==
  /\ pc[t] = "admit"
  /\ UNCHANGED world
  /\ \/ Create(ArgsOf[t]) /\ Goto(t, "gate", 0)
     \/ eff.state # "absent" /\ UNCHANGED eff /\ Follow(t)

\* _admit, and the loser's second look at the fingerprint.
Admit(t) ==
  /\ pc[t] = "admit"
  /\ UNCHANGED world
  /\ \/ Create(ArgsOf[t]) /\ Goto(t, "gate", 0)
     \/ /\ eff.state # "absent"
        /\ UNCHANGED eff
        /\ \/ eff.args # ArgsOf[t] /\ Answer(t, "mismatch")
           \/ eff.args = ArgsOf[t] /\ Follow(t)

\* Mutant: an effect that needs approval is executed while it waits for it.
GateGoesOn(t) ==
  /\ pc[t] = "gate"
  /\ UNCHANGED world
  /\ \/ Transition({"planned"}, "approved", None, eff) /\ Goto(t, "start", eff.attempt)
     \/ Transition({"planned"}, "requires_approval", None, eff) /\ Goto(t, "calling", 1)

\* _gate.  The policy may give any verdict, or raise; that the move out of
\* planned cannot be lost is what the code asserts (see SingleAdmitter).
Gate(t) ==
  /\ pc[t] = "gate"
  /\ UNCHANGED world
  /\ \/ Transition({"planned"}, "approved", None, eff) /\ Goto(t, "start", eff.attempt)
     \/ Transition({"planned"}, "requires_approval", None, eff) /\ Answer(t, "pending")
     \/ Transition({"planned"}, "denied", None, eff) /\ Answer(t, "denied")
     \/ UNCHANGED eff /\ Answer(t, "policy_error")

\* The polling loop's re-read, and the re-read of a thread that lost the
\* race to start.
Reread(t) ==
  /\ pc[t] \in {"wait", "rejoin"}
  /\ UNCHANGED <<eff, world>>
  /\ Follow(t)

\* Mutant: the polling loop has no deadline.
GiveUpNever(t) == pc[t] = "wait" /\ FALSE

\* wait_timeout has passed.
GiveUp(t) ==
  /\ pc[t] = "wait"
  /\ UNCHANGED <<eff, world>>
  /\ Answer(t, "in_flight")

\* A follower parks the attempt of an executor it found dead.
Expire(t) ==
  /\ pc[t] = "expire"
  /\ UNCHANGED world
  /\ \/ Transition({"started"}, "unknown", None, eff)
     \/ Lost({"started"}, "unknown", None)
  /\ Answer(t, "unknown")

-----------------------------------------------------------------------------
\* _run_attempt up to the handler call: the attempt number comes from the
\* thread's own copy of the record.
Leased(t) == [eff EXCEPT !.attempt = seen[t] + 1,
                         !.lease   = LeaseSeconds,
                         !.owner   = WorkerOf[t]]

Start(t) ==
  /\ pc[t] = "start"
  /\ UNCHANGED world
  /\ \/ /\ Transition({"approved"}, "started", None, Leased(t))
        /\ runs' = IF runs < MaxRuns THEN runs + 1 ELSE runs
        /\ pc'   = [pc EXCEPT ![t] = "calling"]
        /\ seen' = [seen EXCEPT ![t] = @ + 1]
        /\ UNCHANGED got
     \/ Lost({"approved"}, "started", None) /\ Goto(t, "rejoin", 0)

\* The handler's request is carried out while the handler waits for it.
Land(t) ==
  /\ pc[t] = "calling"
  /\ Happens
  /\ pc' = [pc EXCEPT ![t] = "landed"]
  /\ UNCHANGED <<eff, wire, seen, got, runs>>

\* The handler returns: its side effect is done.
HandlerReturns(t) ==
  /\ pc[t] = "landed"
  /\ Goto(t, "receipt", 0)
  /\ UNCHANGED <<eff, world>>

\* It raises an error that says the side effect did not happen: one to retry
\* while attempts remain (_retry_or_fail), or a definitive failure.
HandlerRefuses(t) ==
  /\ pc[t] = "calling"
  /\ \/ seen[t] < MaxAttempts /\ Goto(t, "retry", 0)
     \/ Goto(t, "fail", 0)
  /\ UNCHANGED <<eff, world>>

\* Mutant: an ambiguous error is taken for a definitive failure.
HandlerLosesTrackFails(t) ==
  /\ pc[t] \in InHandler
  /\ UNCHANGED eff
  /\ IF pc[t] = "calling" THEN MaybeSent ELSE UNCHANGED world
  /\ Goto(t, "fail", 0)

\* Mutant: an ambiguous error is retried like one that says it did not happen.
HandlerLosesTrackRetries(t) ==
  /\ pc[t] \in InHandler
  /\ UNCHANGED eff
  /\ IF pc[t] = "calling" THEN MaybeSent ELSE UNCHANGED world
  /\ Goto(t, "retry", 0)

\* It raises an error that leaves the outcome open, or a BaseException that
\* execute lets through, the record still started.
HandlerLosesTrack(t) ==
  /\ pc[t] \in InHandler
  /\ UNCHANGED eff
  /\ IF pc[t] = "calling" THEN MaybeSent ELSE UNCHANGED world
  /\ Goto(t, "park", 0) \/ Answer(t, "interrupted")

\* STARTED -> UNKNOWN after an ambiguous exception.
Park(t) ==
  /\ pc[t] = "park"
  /\ UNCHANGED world
  /\ \/ Transition({"started"}, "unknown", WorkerOf[t], eff)
     \/ Lost({"started"}, "unknown", WorkerOf[t])
  /\ Answer(t, "unknown")

\* _retry_or_fail, first move: its success is not looked at.
Retry(t) ==
  /\ pc[t] = "retry"
  /\ UNCHANGED world
  /\ \/ Transition({"started"}, "unknown", WorkerOf[t], eff)
     \/ Lost({"started"}, "unknown", WorkerOf[t])
  /\ Goto(t, "rearm", 0)

\* _retry_or_fail, second move: UNKNOWN -> APPROVED, whoever made it UNKNOWN.
Rearm(t) ==
  /\ pc[t] = "rearm"
  /\ UNCHANGED world
  /\ \/ /\ Transition({"unknown"}, "approved", None, eff)
        /\ Goto(t, "start", eff.attempt)
     \/ Lost({"unknown"}, "approved", None) /\ Goto(t, "fail", 0)

\* _record_failure: whether or not it was recorded, the caller gets its error.
Fail(t) ==
  /\ pc[t] = "fail"
  /\ UNCHANGED world
  /\ \/ Transition({"started"}, "failed", WorkerOf[t], [eff EXCEPT !.result = "error"])
     \/ Lost({"started"}, "failed", WorkerOf[t])
  /\ Answer(t, "own_error")

\* Mutant: the receipt is recorded without the result.
ReceiptBare(t) ==
  /\ pc[t] = "receipt"
  /\ UNCHANGED world
  /\ \/ /\ Transition({"started"}, "receipt_recorded", WorkerOf[t], eff)
        /\ Goto(t, "commit", 0)
     \/ Lost({"started"}, "receipt_recorded", WorkerOf[t]) /\ Goto(t, "lost", 0)

\* The receipt; the provider's receipt contract decides what comes next.
Receipt(t) ==
  /\ pc[t] = "receipt"
  /\ UNCHANGED world
  /\ \/ /\ Transition({"started"}, "receipt_recorded", WorkerOf[t],
                      [eff EXCEPT !.result = "value"])
        /\ Goto(t, "commit", 0) \/ Goto(t, "review", 0)
     \/ Lost({"started"}, "receipt_recorded", WorkerOf[t]) /\ Goto(t, "lost", 0)

\* The lease was taken: report what the ledger says by now.
LostLease(t) ==
  /\ pc[t] = "lost"
  /\ UNCHANGED <<eff, world>>
  /\ \/ eff.state \in Replayable /\ Answer(t, eff.result)
     \/ eff.state \notin Replayable /\ Answer(t, "unknown")

\* The receipt broke the contract.
Review(t) ==
  /\ pc[t] = "review"
  /\ UNCHANGED world
  /\ \/ Transition({"receipt_recorded"}, "human_review", None, eff)
     \/ Lost({"receipt_recorded"}, "human_review", None)
  /\ Answer(t, "unknown")

\* The commit: the caller gets its own value, committed by this move or not.
Commit(t) ==
  /\ pc[t] = "commit"
  /\ UNCHANGED world
  /\ \/ Transition({"receipt_recorded"}, "committed", None, eff)
     \/ Lost({"receipt_recorded"}, "committed", None)
  /\ Answer(t, "own_value")

-----------------------------------------------------------------------------
\* A process dies: every call it was serving ends without an answer, and the
\* requests its handlers had sent may still arrive.
Crash(w) ==
  LET dead == {t \in Threads : WorkerOf[t] = w}
  IN /\ \E t \in dead : pc[t] # "idle"
     /\ IF \E t \in dead : pc[t] = "calling" THEN MaybeSent ELSE UNCHANGED world
     /\ pc'   = [t \in Threads |-> IF t \in dead THEN "idle" ELSE pc[t]]
     /\ seen' = [t \in Threads |-> IF t \in dead THEN 0 ELSE seen[t]]
     /\ got'  = [t \in Threads |-> IF t \in dead THEN NoResult ELSE got[t]]
     /\ UNCHANGED <<eff, runs>>

HandlerEnds(t) == HandlerReturns(t) \/ HandlerRefuses(t) \/ HandlerLosesTrack(t)

\* What a thread inside a call does next.
Proceed(t) ==
  \/ Admit(t) \/ Gate(t) \/ Reread(t) \/ GiveUp(t) \/ Expire(t)
  \/ Start(t) \/ HandlerEnds(t) \/ Park(t) \/ Retry(t) \/ Rearm(t) \/ Fail(t)
  \/ Receipt(t) \/ LostLease(t) \/ Review(t) \/ Commit(t)

RuntimeInit ==
  /\ pc   = [t \in Threads |-> "idle"]
  /\ seen = [t \in Threads |-> 0]
  /\ got  = [t \in Threads |-> NoResult]
  /\ runs = 0

RuntimeTypeOK ==
  /\ pc \in [Threads -> Steps]
  /\ seen \in [Threads -> Nat]
  /\ got \in [Threads -> Answers]
  /\ runs \in 0..MaxRuns
=============================================================================
