--------------------------- MODULE OpenOnceProofs ---------------------------
(***************************************************************************)
(* What holds of OpenOnce for any number of workers, threads, reconcilers, *)
(* people, attempts and ticks, proved with TLAPS.  IndInv is shown to be   *)
(* inductive, one conjunct at a time; the safety theorems follow from it,  *)
(* and with it every step of OpenOnce is shown to be a step of             *)
(* DurableEffect or to leave what a user sees alone.                       *)
(***************************************************************************)
EXTENDS OpenOnce, TLAPS

-----------------------------------------------------------------------------
(* The record.                                                             *)

\* The instants a move of the record sets are in range.
LEMMA InRange ==
  /\ 0 \in 0..Grace
  /\ 0 \in 0..LeaseSeconds
  /\ LeaseSeconds \in 0..LeaseSeconds
  BY TimesAssumption DEF TimesAssumption

\* The record a worker starts an attempt with.
LEMMA LeasedTyped ==
  ASSUME TypeOK, NEW t \in Threads
  PROVE  /\ Leased(t) \in Effects
         /\ Leased(t).result = eff.result
         /\ Leased(t).args = eff.args
<1>1. seen[t] + 1 \in Nat /\ WorkerOf[t] \in Workers
  BY RuntimeAssumption DEF TypeOK, RuntimeTypeOK, RuntimeAssumption
<1>. QED
  BY <1>1, InRange DEF Leased, TypeOK, Effects

\* A tick moves the timers of the record only.
LEMMA Ticked ==
  ASSUME eff \in Effects, StoreTick
  PROVE  /\ eff' \in Effects
         /\ eff'.state = eff.state
         /\ eff'.result = eff.result
         /\ eff'.args = eff.args
<1>1. (IF eff.lease > 0 THEN eff.lease - 1 ELSE 0) \in 0..LeaseSeconds
  BY TimesAssumption DEF TimesAssumption, Effects
<1>2. (IF eff.state \in Reconcilable /\ eff.age < Grace THEN eff.age + 1 ELSE eff.age)
        \in 0..Grace
  BY TimesAssumption DEF TimesAssumption, Effects
<1>. QED
  BY <1>1, <1>2 DEF StoreTick, Effects

-----------------------------------------------------------------------------
(* The moves of the record, and what moves in the world.                   *)

SameEffect ==
  eff'.state = eff.state /\ eff'.result = eff.result /\ eff'.args = eff.args

Moves(from, to) ==
  eff.state \in from /\ eff'.state = to /\ eff'.args = eff.args

\* All that the program ever does to the record, which is less than what the
\* transition table allows: no failure is armed again, nothing is canceled,
\* and a move that says it happened has seen that it did.
LedgerMove ==
  \/ SameEffect
  \/ eff.state = "absent" /\ eff'.state = "planned" /\ eff'.result = NoResult
  \/ Moves({"planned"}, "requires_approval")
  \/ Moves({"planned", "requires_approval"}, "denied")
  \/ Moves({"planned", "requires_approval", "unknown", "human_review"}, "approved")
  \/ Moves({"approved"}, "started")
  \/ Moves({"started"}, "unknown")
  \/ Moves({"started", "unknown"}, "receipt_recorded")
       /\ landed > 0 /\ eff'.result \in OkResults
  \/ Moves({"receipt_recorded", "human_review"}, "committed")
       /\ landed > 0 /\ eff'.result \in OkResults
  \/ Moves({"started", "unknown", "human_review"}, "failed")
       /\ eff'.result \in FailResults
  \/ Moves({"unknown", "receipt_recorded"}, "human_review")

\* States in which nobody has let the effect through.
Held == {"absent", "planned", "requires_approval", "denied"}

\* The world moves only for an effect that somebody let through.
WorldMove ==
  /\ landed' \in {landed, landed + 1} /\ landed' \in 0..MaxLandings
  /\ wire' \in BOOLEAN
  /\ landed' # landed \/ wire' # wire => SameEffect /\ eff.state \notin Held

\* Outcomes a caller may be given, by replay or as the worker that ran.
Outcomes == OkResults \cup FailResults \cup OwnOutcomes

\* What a step of thread t does to t, and what it needs to do it.
ThreadMove(t) ==
  /\ pc'[t] = "gate" => eff.state = "absent" /\ eff'.state = "planned"
  /\ eff.state = "planned" /\ ~SameEffect => pc[t] = "gate" /\ pc'[t] # "gate"
  /\ pc'[t] \in InHandler => pc[t] \in InHandler \/ eff'.state = "started"
  /\ pc'[t] \in {"landed", "receipt"} => landed' > 0
  /\ pc'[t] \notin {"idle", "admit"} \/ got'[t] \in Outcomes => eff'.args = ArgsOf[t]
  /\ got'[t] \in OkResults \cup FailResults =>
       \/ got'[t] = got[t]
       \/ SameEffect /\ eff.state \in Replayable /\ got'[t] = eff.result

\* A step of thread t.
WorkerMove(t) ==
  /\ eff' \in Effects
  /\ LedgerMove
  /\ WorldMove
  /\ RuntimeTypeOK'
  /\ ThreadMove(t)
  /\ \A u \in Threads \ {t} : pc'[u] = pc[u] /\ got'[u] = got[u]

-----------------------------------------------------------------------------
(* The threads.                                                            *)

\* Where a thread goes on.
LEMMA WentOn ==
  ASSUME RuntimeTypeOK, NEW t \in Threads, NEW s \in Steps, NEW n \in Nat,
         Goto(t, s, n)
  PROVE  /\ RuntimeTypeOK'
         /\ pc'[t] = s /\ got'[t] = NoResult
         /\ \A u \in Threads \ {t} : pc'[u] = pc[u] /\ got'[u] = got[u]
  BY DEF RuntimeTypeOK, Goto, Answers

\* How a thread's call ends.
LEMMA Answered ==
  ASSUME RuntimeTypeOK, NEW t \in Threads, NEW a \in Answers, Answer(t, a)
  PROVE  /\ RuntimeTypeOK'
         /\ pc'[t] = "idle" /\ got'[t] = a
         /\ \A u \in Threads \ {t} : pc'[u] = pc[u] /\ got'[u] = got[u]
  BY DEF RuntimeTypeOK, Answer, Steps

\* A step that does not touch the world.
LEMMA WorldKept ==
  ASSUME TypeOK, UNCHANGED world
  PROVE  WorldMove /\ landed' = landed
  BY DEF WorldMove, world, TypeOK

\* _follow only looks: it replays what is settled, or goes on.
LEMMA FollowMove ==
  ASSUME IndInv, NEW t \in Threads, Follow(t), UNCHANGED <<eff, world>>,
         eff.args = ArgsOf[t]
  PROVE  WorkerMove(t)
<1>1. TypeOK /\ RuntimeTypeOK /\ eff \in Effects /\ ResultMatchesState
  BY DEF IndInv, TypeOK
<1>2. WorldMove /\ SameEffect /\ LedgerMove /\ eff' \in Effects
  BY <1>1, WorldKept DEF SameEffect, LedgerMove
<1>3. CASE \E s \in {"start", "expire", "wait"}, n \in Nat : Goto(t, s, n)
  BY <1>1, <1>2, <1>3, WentOn
  DEF WorkerMove, ThreadMove, Steps, InHandler, OkResults, FailResults, OwnOutcomes,
      NoResult, Outcomes
<1>4. CASE \E a \in {"pending", "denied", "unknown"} : Answer(t, a)
  BY <1>1, <1>2, <1>4, Answered
  DEF WorkerMove, ThreadMove, Answers, Signals, InHandler, OkResults, FailResults,
      OwnOutcomes, Outcomes
<1>5. CASE eff.state \in Replayable /\ Answer(t, eff.result)
  <2>1. eff.result \in OkResults \cup FailResults
    BY <1>1, <1>5 DEF ResultMatchesState, Replayable
  <2>2. /\ RuntimeTypeOK'
        /\ pc'[t] = "idle" /\ got'[t] = eff.result
        /\ \A u \in Threads \ {t} : pc'[u] = pc[u] /\ got'[u] = got[u]
    BY <1>1, <1>5, <2>1, Answered DEF Answers
  <2>. QED
    BY <1>2, <1>5, <2>2 DEF WorkerMove, ThreadMove, InHandler
<1>. QED
  BY <1>1, <1>3, <1>4, <1>5 DEF Follow, Effects

\* Up to the gate: the lookup, the admission and the policy.
LEMMA AdmissionMove ==
  ASSUME IndInv, NEW t \in Threads, Call(t) \/ Admit(t) \/ Gate(t) \/ Reread(t) \/ GiveUp(t)
  PROVE  WorkerMove(t)
<1>. USE DEF InHandler, OkResults, FailResults, OwnOutcomes, NoResult, Outcomes
<1>1. TypeOK /\ RuntimeTypeOK /\ eff \in Effects /\ ArgsOf[t] \in Fingerprints
  BY RuntimeAssumption DEF IndInv, TypeOK, RuntimeAssumption
<1>2. CASE Call(t)
  <2>1. SameEffect /\ LedgerMove /\ WorldMove /\ eff' \in Effects
    BY <1>1, <1>2, WorldKept DEF Call, SameEffect, LedgerMove
  <2>2. CASE Answer(t, "invalid") \/ Answer(t, "mismatch")
    BY <1>1, <2>1, <2>2, Answered DEF WorkerMove, ThreadMove, Answers, Signals
  <2>3. CASE Goto(t, "admit", 0)
    BY <1>1, <2>1, <2>3, WentOn DEF WorkerMove, ThreadMove, Steps
  <2>4. CASE eff.args = ArgsOf[t] /\ Follow(t)
    BY <1>2, <2>4, FollowMove DEF Call
  <2>. QED
    BY <1>2, <2>2, <2>3, <2>4 DEF Call
<1>3. CASE Admit(t)
  <2>1. CASE Create(ArgsOf[t]) /\ Goto(t, "gate", 0)
    <3>1. /\ eff' \in Effects /\ eff.state = "absent" /\ eff'.state = "planned"
          /\ eff'.result = NoResult /\ eff'.args = ArgsOf[t]
      BY <1>1, <2>1, InRange DEF Create, Absent, Effects, States
    <3>2. WorldMove
      BY <1>1, <1>3, WorldKept DEF Admit
    <3>. QED
      BY <1>1, <2>1, <3>1, <3>2, WentOn DEF WorkerMove, ThreadMove, LedgerMove, Steps
  <2>2. CASE UNCHANGED <<eff, world>> /\ Answer(t, "mismatch")
    <3>1. SameEffect /\ LedgerMove /\ WorldMove /\ eff' \in Effects
      BY <1>1, <2>2, WorldKept DEF SameEffect, LedgerMove
    <3>. QED
      BY <1>1, <2>2, <3>1, Answered DEF WorkerMove, ThreadMove, Answers, Signals
  <2>3. CASE UNCHANGED <<eff, world>> /\ eff.args = ArgsOf[t] /\ Follow(t)
    BY <2>3, FollowMove
  <2>. QED
    BY <1>3, <2>1, <2>2, <2>3 DEF Admit
<1>4. CASE Gate(t)
  <2>1. WorldMove /\ pc[t] = "gate" /\ eff.args = ArgsOf[t]
    BY <1>1, <1>4, WorldKept DEF Gate, IndInv, WorksOnOwnArguments
  <2>2. CASE Transition({"planned"}, "approved", None, eff) /\ Goto(t, "start", eff.attempt)
    <3>1. eff' \in Effects /\ LedgerMove /\ eff'.args = eff.args
      BY <1>1, <2>2, InRange DEF Transition, Accepts, Effects, LedgerMove, Moves, States
    <3>. QED
      BY <1>1, <2>1, <2>2, <3>1, WentOn DEF WorkerMove, ThreadMove, Steps, Effects
  <2>3. CASE Transition({"planned"}, "requires_approval", None, eff) /\ Answer(t, "pending")
    <3>1. eff' \in Effects /\ LedgerMove /\ eff'.args = eff.args
      BY <1>1, <2>3, InRange DEF Transition, Accepts, Effects, LedgerMove, Moves, States
    <3>. QED
      BY <1>1, <2>1, <2>3, <3>1, Answered DEF WorkerMove, ThreadMove, Answers, Signals
  <2>4. CASE Transition({"planned"}, "denied", None, eff) /\ Answer(t, "denied")
    <3>1. eff' \in Effects /\ LedgerMove /\ eff'.args = eff.args
      BY <1>1, <2>4, InRange DEF Transition, Accepts, Effects, LedgerMove, Moves, States
    <3>. QED
      BY <1>1, <2>1, <2>4, <3>1, Answered DEF WorkerMove, ThreadMove, Answers, Signals
  <2>5. CASE UNCHANGED eff /\ Answer(t, "policy_error")
    <3>1. eff' \in Effects /\ LedgerMove /\ SameEffect
      BY <1>1, <2>5 DEF LedgerMove, SameEffect
    <3>. QED
      BY <1>1, <2>1, <2>5, <3>1, Answered DEF WorkerMove, ThreadMove, Answers, Signals
  <2>. QED
    BY <1>4, <2>2, <2>3, <2>4, <2>5 DEF Gate
<1>5. CASE Reread(t)
  BY <1>5, FollowMove DEF Reread, IndInv, WorksOnOwnArguments
<1>6. CASE GiveUp(t)
  <2>1. SameEffect /\ LedgerMove /\ WorldMove /\ eff' \in Effects
    BY <1>1, <1>6, WorldKept DEF GiveUp, SameEffect, LedgerMove
  <2>. QED
    BY <1>1, <1>6, <2>1, Answered DEF GiveUp, WorkerMove, ThreadMove, Answers, Signals
<1>. QED
  BY <1>2, <1>3, <1>4, <1>5, <1>6

\* The attempt: the start, the handler and what it does to the world.
LEMMA AttemptMove ==
  ASSUME IndInv, NEW t \in Threads, Start(t) \/ Land(t) \/ HandlerEnds(t)
  PROVE  WorkerMove(t)
<1>. USE DEF InHandler, OkResults, FailResults, OwnOutcomes, NoResult, Outcomes
<1>1. /\ TypeOK /\ RuntimeTypeOK /\ eff \in Effects
      /\ landed \in 0..MaxLandings /\ wire \in BOOLEAN /\ seen[t] \in Nat
  BY DEF IndInv, TypeOK, RuntimeTypeOK
<1>2. pc[t] \notin {"idle", "admit"} => eff.args = ArgsOf[t]
  BY DEF IndInv, WorksOnOwnArguments
<1>3. pc[t] \in InHandler => eff.state \notin Held
  BY DEF IndInv, NothingBeforeApproval, Held
<1>4. CASE Start(t)
  <2>1. WorldMove /\ pc[t] = "start"
    BY <1>1, <1>4, WorldKept DEF Start
  <2>2. CASE Transition({"approved"}, "started", None, Leased(t))
    <3>1. eff' \in Effects /\ eff'.args = eff.args /\ eff'.state = "started"
          /\ eff.state = "approved"
      <4>1. Leased(t) \in Effects /\ Leased(t).args = eff.args
        BY <1>1, LeasedTyped
      <4>. QED
        BY <2>2, <4>1, InRange DEF Transition, Accepts, Effects, States
    <3>2. LedgerMove /\ ~SameEffect
      BY <3>1 DEF LedgerMove, Moves, SameEffect
    <3>3. /\ runs' = IF runs < MaxRuns THEN runs + 1 ELSE runs
          /\ pc'   = [pc EXCEPT ![t] = "calling"]
          /\ seen' = [seen EXCEPT ![t] = @ + 1]
          /\ got'  = got
      BY <1>4, <2>2 DEF Start, Lost, Transition
    <3>4. runs' \in 0..MaxRuns
      BY <1>1, <3>3, RuntimeAssumption DEF RuntimeTypeOK, RuntimeAssumption
    <3>5. RuntimeTypeOK'
      BY <1>1, <3>3, <3>4 DEF RuntimeTypeOK, Steps
    <3>. QED
      BY <1>1, <1>2, <2>1, <3>1, <3>2, <3>3, <3>5 DEF WorkerMove, ThreadMove, RuntimeTypeOK
  <2>3. CASE Lost({"approved"}, "started", None) /\ Goto(t, "rejoin", 0)
    <3>1. SameEffect /\ LedgerMove /\ eff' \in Effects
      BY <1>1, <2>3 DEF Lost, SameEffect, LedgerMove
    <3>. QED
      BY <1>1, <1>2, <2>1, <2>3, <3>1, WentOn DEF WorkerMove, ThreadMove, SameEffect, Steps
  <2>. QED
    BY <1>4, <2>2, <2>3 DEF Start, Lost, Transition
<1>5. CASE Land(t)
  <2>1. SameEffect /\ LedgerMove /\ eff' \in Effects
    BY <1>1, <1>5 DEF Land, SameEffect, LedgerMove
  <2>2. landed' \in {landed, landed + 1} /\ landed' \in 0..MaxLandings /\ landed' > 0
    BY <1>1, <1>5, LandingsAssumption DEF Land, Happens, LandingsAssumption
  <2>3. WorldMove
    BY <1>1, <1>3, <1>5, <2>1, <2>2 DEF Land, WorldMove
  <2>4. RuntimeTypeOK'
    BY <1>1, <1>5 DEF Land, RuntimeTypeOK, Steps
  <2>. QED
    BY <1>1, <1>2, <1>5, <2>1, <2>2, <2>3, <2>4
    DEF Land, WorkerMove, ThreadMove, RuntimeTypeOK, SameEffect
<1>6. CASE HandlerReturns(t)
  <2>1. SameEffect /\ LedgerMove /\ WorldMove /\ eff' \in Effects /\ landed' = landed
    BY <1>1, <1>6, WorldKept DEF HandlerReturns, SameEffect, LedgerMove
  <2>2. landed > 0
    BY <1>6 DEF HandlerReturns, IndInv, Evidence
  <2>. QED
    BY <1>1, <1>2, <1>6, <2>1, <2>2, WentOn
    DEF HandlerReturns, WorkerMove, ThreadMove, Steps, SameEffect
<1>7. CASE HandlerRefuses(t)
  <2>1. SameEffect /\ LedgerMove /\ WorldMove /\ eff' \in Effects
    BY <1>1, <1>7, WorldKept DEF HandlerRefuses, SameEffect, LedgerMove
  <2>. QED
    BY <1>1, <1>2, <1>7, <2>1, WentOn
    DEF HandlerRefuses, WorkerMove, ThreadMove, Steps, SameEffect
<1>8. CASE HandlerLosesTrack(t)
  <2>1. SameEffect /\ LedgerMove /\ eff' \in Effects
    BY <1>1, <1>8 DEF HandlerLosesTrack, SameEffect, LedgerMove
  <2>2. WorldMove
    BY <1>1, <1>3, <1>8, <2>1 DEF HandlerLosesTrack, MaybeSent, WorldMove, world
  <2>3. CASE Goto(t, "park", 0)
    BY <1>1, <1>2, <1>8, <2>1, <2>2, <2>3, WentOn
    DEF HandlerLosesTrack, WorkerMove, ThreadMove, Steps, SameEffect
  <2>4. CASE Answer(t, "interrupted")
    BY <1>1, <2>1, <2>2, <2>4, Answered DEF WorkerMove, ThreadMove, Answers, Signals, SameEffect
  <2>. QED
    BY <1>8, <2>3, <2>4 DEF HandlerLosesTrack
<1>. QED
  BY <1>4, <1>5, <1>6, <1>7, <1>8 DEF HandlerEnds

\* What a thread records of its attempt, or learns when it cannot.
LEMMA RecordMove ==
  ASSUME IndInv, NEW t \in Threads,
         \/ Expire(t) \/ Park(t) \/ Retry(t) \/ Rearm(t) \/ Fail(t)
         \/ Receipt(t) \/ LostLease(t) \/ Review(t) \/ Commit(t)
  PROVE  WorkerMove(t)
<1>. USE DEF InHandler, OkResults, FailResults, OwnOutcomes, NoResult, Outcomes
<1>1. TypeOK /\ RuntimeTypeOK /\ eff \in Effects /\ seen[t] \in Nat
  BY DEF IndInv, TypeOK, RuntimeTypeOK
<1>2. pc[t] \notin {"idle", "admit"} => eff.args = ArgsOf[t]
  BY DEF IndInv, WorksOnOwnArguments
<1>3. UNCHANGED world => WorldMove /\ landed' = landed
  BY <1>1, WorldKept
<1>4. UNCHANGED eff => SameEffect /\ LedgerMove /\ eff' \in Effects
  BY <1>1 DEF SameEffect, LedgerMove
<1>5. ASSUME LedgerMove, eff' \in Effects, eff'.args = eff.args, UNCHANGED world,
             eff.state # "planned" \/ SameEffect, pc[t] \notin {"idle", "admit"},
             \/ \E a \in {"unknown", "own_error", "own_value"} : Answer(t, a)
             \/ \E s \in {"rearm", "start", "fail", "commit", "review", "lost"}, n \in Nat :
                   Goto(t, s, n)
      PROVE  WorkerMove(t)
  <2>1. CASE \E a \in {"unknown", "own_error", "own_value"} : Answer(t, a)
    BY <1>1, <1>2, <1>3, <1>5, <2>1, Answered DEF WorkerMove, ThreadMove, Answers, Signals
  <2>2. CASE \E s \in {"rearm", "start", "fail", "commit", "review", "lost"}, n \in Nat :
               Goto(t, s, n)
    BY <1>1, <1>2, <1>3, <1>5, <2>2, WentOn DEF WorkerMove, ThreadMove, Steps
  <2>. QED
    BY <1>5, <2>1, <2>2
<1>6. CASE Expire(t) \/ Park(t) \/ Retry(t)
  <2>1. \/ eff.state # "planned" /\ LedgerMove /\ eff' \in Effects /\ eff'.args = eff.args
        \/ UNCHANGED eff
    <3>1. ASSUME NEW who, Transition({"started"}, "unknown", who, eff)
          PROVE  /\ eff' \in Effects /\ eff'.args = eff.args
                 /\ eff.state = "started" /\ eff'.state = "unknown"
      BY <1>1, <3>1, InRange DEF Transition, Accepts, Effects, States
    <3>2. ASSUME NEW who, Transition({"started"}, "unknown", who, eff)
          PROVE  eff.state # "planned" /\ LedgerMove
      <4>1. Moves({"started"}, "unknown")
        BY <3>1, <3>2 DEF Moves
      <4>. QED
        BY <3>1, <3>2, <4>1 DEF LedgerMove
    <3>. QED
      BY <1>6, <3>1, <3>2 DEF Expire, Park, Retry, Lost
  <2>. QED
    BY <1>1, <1>4, <1>5, <1>6, <2>1 DEF Expire, Park, Retry, SameEffect
<1>7. CASE Rearm(t)
  <2>1. \/ eff.state # "planned" /\ LedgerMove /\ eff' \in Effects /\ eff'.args = eff.args
        \/ UNCHANGED eff
    <3>1. CASE Transition({"unknown"}, "approved", None, eff)
      <4>1. /\ eff' \in Effects /\ eff'.args = eff.args
            /\ eff.state = "unknown" /\ eff'.state = "approved"
        BY <1>1, <3>1, InRange DEF Transition, Accepts, Effects, States
      <4>2. Moves({"planned", "requires_approval", "unknown", "human_review"}, "approved")
        BY <4>1 DEF Moves
      <4>. QED
        BY <4>1, <4>2 DEF LedgerMove
    <3>. QED
      BY <1>7, <3>1 DEF Rearm, Lost
  <2>. QED
    BY <1>1, <1>4, <1>5, <1>7, <2>1 DEF Rearm, SameEffect, Effects
<1>8. CASE Fail(t)
  <2>1. \/ eff.state # "planned" /\ LedgerMove /\ eff' \in Effects /\ eff'.args = eff.args
        \/ UNCHANGED eff
    <3>1. CASE Transition({"started"}, "failed", WorkerOf[t], [eff EXCEPT !.result = "error"])
      <4>1. /\ eff' \in Effects /\ eff'.args = eff.args
            /\ eff.state = "started" /\ eff'.state = "failed" /\ eff'.result = "error"
        BY <1>1, <3>1, InRange DEF Transition, Accepts, Effects, States
      <4>. QED
        BY <4>1 DEF LedgerMove, Moves
    <3>. QED
      BY <1>8, <3>1 DEF Fail, Lost
  <2>. QED
    BY <1>1, <1>4, <1>5, <1>8, <2>1 DEF Fail, SameEffect
<1>9. CASE Receipt(t)
  <2>1. landed > 0
    BY <1>9 DEF Receipt, IndInv, Evidence
  <2>2. \/ eff.state # "planned" /\ LedgerMove /\ eff' \in Effects /\ eff'.args = eff.args
        \/ UNCHANGED eff
    <3>1. CASE Transition({"started"}, "receipt_recorded", WorkerOf[t],
                          [eff EXCEPT !.result = "value"])
      <4>1. /\ eff' \in Effects /\ eff'.args = eff.args
            /\ eff.state = "started" /\ eff'.state = "receipt_recorded" /\ eff'.result = "value"
        BY <1>1, <3>1, InRange DEF Transition, Accepts, Effects, States
      <4>. QED
        BY <2>1, <4>1 DEF LedgerMove, Moves
    <3>. QED
      BY <1>9, <3>1 DEF Receipt, Lost
  <2>. QED
    BY <1>1, <1>4, <1>5, <1>9, <2>2 DEF Receipt, SameEffect
<1>10. CASE LostLease(t)
  <2>1. CASE eff.state \in Replayable /\ Answer(t, eff.result)
    <3>1. eff.result \in Answers
      BY <1>1, <2>1 DEF IndInv, ResultMatchesState, Replayable, Answers
    <3>. QED
      BY <1>1, <1>2, <1>3, <1>4, <1>10, <2>1, <3>1, Answered
      DEF LostLease, WorkerMove, ThreadMove, SameEffect
  <2>2. CASE Answer(t, "unknown")
    BY <1>1, <1>4, <1>5, <1>10, <2>2 DEF LostLease, SameEffect
  <2>. QED
    BY <1>10, <2>1, <2>2 DEF LostLease
<1>11. CASE Review(t)
  <2>1. \/ eff.state # "planned" /\ LedgerMove /\ eff' \in Effects /\ eff'.args = eff.args
        \/ UNCHANGED eff
    <3>1. CASE Transition({"receipt_recorded"}, "human_review", None, eff)
      BY <1>1, <3>1, InRange DEF Transition, Accepts, Effects, LedgerMove, Moves, States
    <3>. QED
      BY <1>11, <3>1 DEF Review, Lost
  <2>. QED
    BY <1>1, <1>4, <1>5, <1>11, <2>1 DEF Review, SameEffect
<1>12. CASE Commit(t)
  <2>1. eff.state = "receipt_recorded" => landed > 0 /\ eff.result \in OkResults
    BY DEF IndInv, Evidence, ResultMatchesState
  <2>2. \/ eff.state # "planned" /\ LedgerMove /\ eff' \in Effects /\ eff'.args = eff.args
        \/ UNCHANGED eff
    <3>1. CASE Transition({"receipt_recorded"}, "committed", None, eff)
      <4>1. /\ eff' \in Effects /\ eff'.args = eff.args /\ eff'.result = eff.result
            /\ eff.state = "receipt_recorded" /\ eff'.state = "committed"
        BY <1>1, <3>1, InRange DEF Transition, Accepts, Effects, States
      <4>. QED
        BY <2>1, <4>1 DEF LedgerMove, Moves
    <3>. QED
      BY <1>12, <3>1 DEF Commit, Lost
  <2>. QED
    BY <1>1, <1>4, <1>5, <1>12, <2>2 DEF Commit, SameEffect
<1>. QED
  BY <1>6, <1>7, <1>8, <1>9, <1>10, <1>11, <1>12

-----------------------------------------------------------------------------
(* The reconcilers and the people.                                         *)

\* What either does to the record: nothing to one that is still planned.
ResolverMove ==
  /\ eff' \in Effects
  /\ LedgerMove
  /\ eff.state = "planned" => SameEffect
  /\ UNCHANGED world

\* A step that leaves the record alone.
LEMMA RecordKept ==
  ASSUME TypeOK, UNCHANGED <<eff, world>>
  PROVE  ResolverMove
  BY DEF TypeOK, ResolverMove, LedgerMove, SameEffect

\* A step of reconciler r: it goes on to record a probe's "happened" only if
\* the side effect took place.
SweepMove(r) ==
  /\ ResolverMove
  /\ ReconcilerTypeOK'
  /\ step'[r] = "happened" => landed > 0
  /\ \A q \in Reconcilers \ {r} : step'[q] = step[q]

\* Where a reconciler goes on.
LEMMA ThenMove ==
  ASSUME IndInv, NEW r \in Reconcilers, NEW s \in ReconcilerSteps, NEW n \in Nat,
         Then(r, s, n), ResolverMove, s = "happened" => landed > 0
  PROVE  SweepMove(r)
  BY DEF IndInv, TypeOK, ReconcilerTypeOK, Then, SweepMove

\* A reconciler's step is one of a few moves of the record: it parks a started
\* one, and records, fails, re-arms or escalates an unknown one.
LEMMA ReconcilerMove ==
  ASSUME IndInv, NEW r \in Reconcilers, Reconcile(r)
  PROVE  SweepMove(r)
<1>. USE DEF OkResults, FailResults, NoResult
<1>1. TypeOK /\ eff \in Effects /\ held[r] \in Nat
  BY DEF IndInv, TypeOK, ReconcilerTypeOK
<1>2. CASE ScanStarted(r) \/ ScanUnknown(r) \/ Probe(r)
  <2>1. ResolverMove /\ eff.attempt \in Nat
    BY <1>1, <1>2, RecordKept DEF ScanStarted, ScanUnknown, Probe, Effects
  <2>. QED
    BY <1>1, <1>2, <2>1, ThenMove DEF ScanStarted, ScanUnknown, Probe, ReconcilerSteps
<1>3. ASSUME ResolverMove, Done(r)
      PROVE  SweepMove(r)
  BY <1>3, ThenMove DEF Done, ReconcilerSteps
<1>4. CASE ParkExpired(r)
  <2>1. CASE Transition({"started"}, "unknown", None, eff)
    <3>1. /\ eff' \in Effects /\ eff'.args = eff.args
          /\ eff.state = "started" /\ eff'.state = "unknown"
      BY <1>1, <2>1, InRange DEF Transition, Accepts, Effects, States
    <3>. QED
      BY <1>3, <1>4, <3>1 DEF ParkExpired, ResolverMove, LedgerMove, Moves
  <2>. QED
    BY <1>1, <1>3, <1>4, <2>1, RecordKept DEF ParkExpired, Lost
<1>5. CASE RecordProbe(r)
  <2>1. landed > 0
    BY <1>5 DEF RecordProbe, IndInv, Evidence
  <2>2. CASE Transition({"unknown"}, "receipt_recorded", None,
                        [eff EXCEPT !.result = "receipt"])
             /\ Then(r, "close", 0)
    <3>1. /\ eff' \in Effects /\ eff'.args = eff.args
          /\ eff.state = "unknown" /\ eff'.state = "receipt_recorded"
          /\ eff'.result \in OkResults
      BY <1>1, <2>2, InRange DEF Transition, Accepts, Effects, States
    <3>2. ResolverMove
      BY <1>5, <2>1, <3>1 DEF RecordProbe, ResolverMove, LedgerMove, Moves
    <3>. QED
      BY <2>2, <3>2, ThenMove DEF ReconcilerSteps
  <2>. QED
    BY <1>1, <1>3, <1>5, <2>2, RecordKept DEF RecordProbe, Lost
<1>6. CASE CloseProbe(r)
  <2>1. CASE Transition({"receipt_recorded"}, "committed", None, eff)
    <3>1. /\ eff' \in Effects /\ eff'.args = eff.args /\ eff'.result = eff.result
          /\ eff.state = "receipt_recorded" /\ eff'.state = "committed"
      BY <1>1, <2>1, InRange DEF Transition, Accepts, Effects, States
    <3>2. landed > 0 /\ eff.result \in OkResults
      BY <3>1 DEF IndInv, Evidence, ResultMatchesState
    <3>. QED
      BY <1>3, <1>6, <3>1, <3>2 DEF CloseProbe, ResolverMove, LedgerMove, Moves
  <2>. QED
    BY <1>1, <1>3, <1>6, <2>1, RecordKept DEF CloseProbe, Lost
<1>7. CASE ResolveMissed(r)
  <2>1. CASE Transition({"unknown"}, "failed", None, [eff EXCEPT !.result = "exhausted"])
    <3>1. /\ eff' \in Effects /\ eff'.args = eff.args
          /\ eff.state = "unknown" /\ eff'.state = "failed"
          /\ eff'.result \in FailResults
      BY <1>1, <2>1, InRange DEF Transition, Accepts, Effects, States
    <3>. QED
      BY <1>3, <1>7, <3>1 DEF ResolveMissed, ResolverMove, LedgerMove, Moves
  <2>2. CASE Transition({"unknown"}, "approved", None, [eff EXCEPT !.result = NoResult])
    <3>1. /\ eff' \in Effects /\ eff'.args = eff.args
          /\ eff.state = "unknown" /\ eff'.state = "approved"
      BY <1>1, <2>2, InRange DEF Transition, Accepts, Effects, States
    <3>. QED
      BY <1>3, <1>7, <3>1 DEF ResolveMissed, ResolverMove, LedgerMove, Moves
  <2>. QED
    BY <1>1, <1>3, <1>7, <2>1, <2>2, RecordKept DEF ResolveMissed, Lost
<1>8. CASE Escalate(r)
  <2>1. CASE Transition({"unknown"}, "human_review", None, eff)
    <3>1. /\ eff' \in Effects /\ eff'.args = eff.args
          /\ eff.state = "unknown" /\ eff'.state = "human_review"
      BY <1>1, <2>1, InRange DEF Transition, Accepts, Effects, States
    <3>. QED
      BY <1>3, <1>8, <3>1 DEF Escalate, ResolverMove, LedgerMove, Moves
  <2>. QED
    BY <1>1, <1>3, <1>8, <2>1, RecordKept DEF Escalate, Lost
<1>. QED
  BY <1>2, <1>4, <1>5, <1>6, <1>7, <1>8 DEF Reconcile

\* A step of person p: what they go on to apply is about an open outcome.
PersonMove(p) ==
  /\ ResolverMove
  /\ ClientTypeOK'
  /\ task'[p] = "happened" =>
       landed > 0 /\ read'[p].state \in {"unknown", "human_review", "receipt_recorded"}
  /\ task'[p] = "not_happened" => read'[p].state \in {"unknown", "human_review"}
  /\ \A q \in People \ {p} : task'[q] = task[q] /\ read'[q] = read[q]

\* A person who is done with a record, or goes on to commit it.
LEMMA TookMove ==
  ASSUME IndInv, NEW p \in People, NEW x \in {"idle", "close"}, Take(p, x, NoRead),
         ResolverMove
  PROVE  PersonMove(p)
  BY DEF IndInv, TypeOK, ClientTypeOK, Take, PersonMove, NoRead, Tasks

\* A person's step is one of a few moves of the record, from a state that
\* awaits a person.
LEMMA ClientMove ==
  ASSUME IndInv, NEW p \in People, Operate(p)
  PROVE  PersonMove(p)
<1>. USE DEF OkResults, FailResults, NoResult
<1>1. TypeOK /\ ClientTypeOK /\ eff \in Effects
  BY DEF IndInv, TypeOK
<1>2. ASSUME ResolverMove, Finish(p)
      PROVE  PersonMove(p)
  BY <1>2, TookMove DEF Finish
<1>3. ASSUME ResolverMove, UNCHANGED client
      PROVE  PersonMove(p)
  BY <1>1, <1>3 DEF client, PersonMove, ClientTypeOK, IndInv, Evidence, ReadsOpenOutcomes
<1>4. CASE Approve(p)
  <2>1. /\ eff' \in Effects /\ eff'.args = eff.args
        /\ eff.state \in {"requires_approval", "human_review"} /\ eff'.state = "approved"
    BY <1>1, <1>4, InRange DEF Approve, Transition, Accepts, Effects, States
  <2>. QED
    BY <1>3, <1>4, <2>1 DEF Approve, ResolverMove, LedgerMove, Moves
<1>5. CASE Deny(p)
  <2>1. /\ eff' \in Effects /\ eff'.args = eff.args
        /\ eff.state = "requires_approval" /\ eff'.state = "denied"
    BY <1>1, <1>5, InRange DEF Deny, Transition, Accepts, Effects, States
  <2>. QED
    BY <1>3, <1>5, <2>1 DEF Deny, ResolverMove, LedgerMove, Moves
<1>6. CASE ReadHappened(p) \/ ReadNotHappened(p)
  <2>1. ResolverMove
    BY <1>1, <1>6, RecordKept DEF ReadHappened, ReadNotHappened
  <2>2. [state |-> eff.state, attempt |-> eff.attempt]
          \in [state : States \cup {"absent"}, attempt : Nat]
    BY <1>1 DEF Effects
  <2>. QED
    BY <1>1, <1>6, <2>1, <2>2
    DEF ReadHappened, ReadNotHappened, Take, PersonMove, ClientTypeOK, Tasks
<1>7. CASE RecordHappened(p)
  <2>1. /\ landed > 0
        /\ read[p].state \in {"unknown", "human_review", "receipt_recorded"}
    BY <1>7 DEF RecordHappened, IndInv, Evidence, ReadsOpenOutcomes
  <2>2. CASE /\ Transition({read[p].state}, "receipt_recorded", None,
                            [eff EXCEPT !.result = "manual"])
             /\ read[p].state = "unknown"
             /\ Take(p, "close", NoRead)
    <3>1. /\ eff' \in Effects /\ eff'.args = eff.args
          /\ eff.state = "unknown" /\ eff'.state = "receipt_recorded"
          /\ eff'.result \in OkResults
      BY <1>1, <2>2, InRange DEF Transition, Accepts, Effects, States
    <3>2. ResolverMove
      BY <1>7, <2>1, <3>1 DEF RecordHappened, ResolverMove, LedgerMove, Moves
    <3>. QED
      BY <2>2, <3>2, TookMove
  <2>3. CASE /\ Transition({read[p].state}, "committed", None,
                            [eff EXCEPT !.result = "manual"])
             /\ read[p].state # "unknown"
             /\ Finish(p)
    <3>1. /\ eff' \in Effects /\ eff'.args = eff.args
          /\ eff.state \in {"receipt_recorded", "human_review"} /\ eff'.state = "committed"
          /\ eff'.result \in OkResults
      BY <1>1, <2>1, <2>3, InRange DEF Transition, Accepts, Effects, States
    <3>. QED
      BY <1>2, <1>7, <2>1, <2>3, <3>1 DEF RecordHappened, ResolverMove, LedgerMove, Moves
  <2>4. CASE UNCHANGED eff /\ Finish(p)
    BY <1>1, <1>2, <1>7, <2>4, RecordKept DEF RecordHappened
  <2>. QED
    BY <1>7, <2>2, <2>3, <2>4 DEF RecordHappened, Lost
<1>8. CASE CloseHappened(p)
  <2>1. CASE Transition({"receipt_recorded"}, "committed", None, eff)
    <3>1. /\ eff' \in Effects /\ eff'.args = eff.args /\ eff'.result = eff.result
          /\ eff.state = "receipt_recorded" /\ eff'.state = "committed"
      BY <1>1, <2>1, InRange DEF Transition, Accepts, Effects, States
    <3>2. landed > 0 /\ eff.result \in OkResults
      BY <3>1 DEF IndInv, Evidence, ResultMatchesState
    <3>. QED
      BY <1>2, <1>8, <3>1, <3>2 DEF CloseHappened, ResolverMove, LedgerMove, Moves
  <2>. QED
    BY <1>1, <1>2, <1>8, <2>1, RecordKept DEF CloseHappened, Lost
<1>9. CASE ApplyNotHappened(p)
  <2>1. read[p].state \in {"unknown", "human_review"}
    BY <1>9 DEF ApplyNotHappened, IndInv, ReadsOpenOutcomes
  <2>2. CASE Transition({read[p].state}, "failed", None, [eff EXCEPT !.result = "exhausted"])
    <3>1. /\ eff' \in Effects /\ eff'.args = eff.args
          /\ eff.state \in {"unknown", "human_review"} /\ eff'.state = "failed"
          /\ eff'.result \in FailResults
      BY <1>1, <2>1, <2>2, InRange DEF Transition, Accepts, Effects, States
    <3>. QED
      BY <1>2, <1>9, <3>1 DEF ApplyNotHappened, ResolverMove, LedgerMove, Moves
  <2>3. CASE Transition({read[p].state}, "approved", None, [eff EXCEPT !.result = NoResult])
    <3>1. /\ eff' \in Effects /\ eff'.args = eff.args
          /\ eff.state \in {"unknown", "human_review"} /\ eff'.state = "approved"
      BY <1>1, <2>1, <2>3, InRange DEF Transition, Accepts, Effects, States
    <3>. QED
      BY <1>2, <1>9, <3>1 DEF ApplyNotHappened, ResolverMove, LedgerMove, Moves
  <2>. QED
    BY <1>1, <1>2, <1>9, <2>2, <2>3, RecordKept DEF ApplyNotHappened, Lost
<1>. QED
  BY <1>4, <1>5, <1>6, <1>7, <1>8, <1>9 DEF Operate

-----------------------------------------------------------------------------
(* The invariant is inductive.                                             *)

\* What follows from a move of the record for the invariant's conjuncts about
\* the record itself.
LEMMA LedgerKeeps ==
  ASSUME IndInv, LedgerMove, eff' \in Effects, landed' \in Nat, landed' >= landed
  PROVE  /\ ResultMatchesState'
         /\ eff'.state \in {"receipt_recorded", "committed"} => landed' > 0
         /\ eff'.state \in Held => eff.state \in Held
         /\ eff.state # "absent" => eff'.args = eff.args /\ eff'.state # "absent"
         /\ eff'.state = "absent" => eff'.args = eff.args /\ eff.state = "absent"
         /\ eff.state \in Replayable => SameEffect
<1>. USE DEF LedgerMove, SameEffect, Moves, Held, Replayable
<1>1. eff \in Effects /\ landed \in 0..MaxLandings
  BY DEF IndInv, TypeOK
<1>2. ResultMatchesState'
  BY DEF IndInv, ResultMatchesState
<1>3. eff'.state \in {"receipt_recorded", "committed"} => landed' > 0
  BY <1>1, LandingsAssumption DEF IndInv, Evidence, LandingsAssumption
<1>. QED
  BY <1>2, <1>3

\* IndInv holds when the ledger is empty and nobody has called.
LEMMA InitKeeps == Init => IndInv
<1>. SUFFICES ASSUME Init PROVE IndInv
  OBVIOUS
<1>. USE DEF Init, StoreInit, WorldInit, RuntimeInit, ReconcilerInit, ClientInit, NoResult
<1>1. Absent \in Effects /\ Absent.state = "absent" /\ Absent.args = None
  BY InRange DEF Absent, Effects
<1>2. TypeOK
  <2>1. RuntimeTypeOK
    BY RuntimeAssumption DEF RuntimeTypeOK, Steps, Answers, RuntimeAssumption
  <2>2. ReconcilerTypeOK
    BY DEF ReconcilerTypeOK, ReconcilerSteps
  <2>3. ClientTypeOK
    BY DEF ClientTypeOK, Tasks, NoRead
  <2>4. landed \in 0..MaxLandings /\ deaths \in 0..MaxDeaths
    BY LandingsAssumption, OpenOnceAssumption DEF LandingsAssumption, OpenOnceAssumption
  <2>. QED
    BY <1>1, <2>1, <2>2, <2>3, <2>4 DEF TypeOK
<1>3. SingleAdmitter /\ ResultMatchesState /\ NothingBeforeApproval
  BY <1>1 DEF SingleAdmitter, ResultMatchesState, NothingBeforeApproval, InHandler
<1>4. ServedOwnArguments /\ ToldIsSettled
  BY DEF ServedOwnArguments, ToldIsSettled, OkResults, FailResults, OwnOutcomes
<1>5. Evidence /\ WorksOnOwnArguments /\ ReadsOpenOutcomes
  BY <1>1 DEF Evidence, WorksOnOwnArguments, ReadsOpenOutcomes
<1>. QED
  BY <1>2, <1>3, <1>4, <1>5 DEF IndInv

\* A step of a thread.
LEMMA WorkerKeeps ==
  ASSUME IndInv, NEW t \in Threads, WorkerMove(t), UNCHANGED <<reconciler, client, deaths>>
  PROVE  IndInv'
<1>1. /\ eff' \in Effects /\ LedgerMove /\ WorldMove /\ ThreadMove(t)
      /\ \A u \in Threads \ {t} : pc'[u] = pc[u] /\ got'[u] = got[u]
      /\ step' = step /\ task' = task /\ read' = read
  BY DEF WorkerMove, reconciler, client
<1>2. landed \in 0..MaxLandings /\ landed' \in Nat /\ landed' >= landed /\ landed' <= landed + 1
  BY <1>1, LandingsAssumption DEF IndInv, TypeOK, WorldMove, LandingsAssumption
<1>3. TypeOK'
  BY <1>1 DEF IndInv, TypeOK, WorkerMove, WorldMove, ReconcilerTypeOK, ClientTypeOK, reconciler, client
<1>4. /\ ResultMatchesState'
      /\ eff'.state \in {"receipt_recorded", "committed"} => landed' > 0
      /\ eff'.state \in Held => eff.state \in Held
      /\ eff.state # "absent" => eff'.args = eff.args /\ eff'.state # "absent"
      /\ eff'.state = "absent" => eff'.args = eff.args /\ eff.state = "absent"
      /\ eff.state \in Replayable => SameEffect
  BY <1>1, <1>2, LedgerKeeps
<1>5. SingleAdmitter'
  BY <1>1, <1>4 DEF IndInv, SingleAdmitter, ThreadMove, SameEffect
<1>6. NothingBeforeApproval'
  BY <1>1, <1>4 DEF IndInv, NothingBeforeApproval, ThreadMove, WorldMove, Held
<1>7. ServedOwnArguments'
  <2>1. \A u \in Threads : got[u] \in Outcomes => eff.state # "absent"
    BY RuntimeAssumption, NoneAssumption
    DEF IndInv, ServedOwnArguments, WorksOnOwnArguments, Outcomes, RuntimeAssumption, NoneAssumption
  <2>. QED
    BY <1>1, <1>4, <2>1 DEF IndInv, ServedOwnArguments, ThreadMove, Outcomes
<1>8. Evidence'
  BY <1>1, <1>2, <1>4 DEF IndInv, Evidence, ThreadMove
<1>9. ToldIsSettled'
  BY <1>1, <1>4 DEF IndInv, ToldIsSettled, ThreadMove, SameEffect
<1>10. WorksOnOwnArguments'
  <2>1. \A u \in Threads : pc[u] \notin {"idle", "admit"} => eff.state # "absent"
    BY RuntimeAssumption, NoneAssumption
    DEF IndInv, WorksOnOwnArguments, RuntimeAssumption, NoneAssumption
  <2>. QED
    BY <1>1, <1>4, <2>1 DEF IndInv, WorksOnOwnArguments, ThreadMove
<1>11. ReadsOpenOutcomes'
  BY <1>1 DEF IndInv, ReadsOpenOutcomes
<1>. QED
  BY <1>3, <1>4, <1>5, <1>6, <1>7, <1>8, <1>9, <1>10, <1>11 DEF IndInv

\* A step of a reconciler, of a person, or of one that dies: neither the world
\* nor any thread moves.
LEMMA ResolverKeeps ==
  ASSUME IndInv, ResolverMove, UNCHANGED local, deaths' \in 0..MaxDeaths,
         ReconcilerTypeOK', ClientTypeOK',
         \A r \in Reconcilers : step'[r] = "happened" => landed > 0,
         \A p \in People : task'[p] = "happened" => landed > 0,
         ReadsOpenOutcomes'
  PROVE  IndInv'
<1>1. /\ eff' \in Effects /\ LedgerMove
      /\ eff.state = "planned" => SameEffect
      /\ landed' = landed /\ wire' = wire /\ pc' = pc /\ got' = got
  BY DEF ResolverMove, world, local
<1>2. landed' \in Nat /\ landed' >= landed
  BY <1>1, LandingsAssumption DEF IndInv, TypeOK, LandingsAssumption
<1>3. TypeOK'
  BY <1>1 DEF IndInv, TypeOK, RuntimeTypeOK, local
<1>4. /\ ResultMatchesState'
      /\ eff'.state \in {"receipt_recorded", "committed"} => landed' > 0
      /\ eff'.state \in Held => eff.state \in Held
      /\ eff.state # "absent" => eff'.args = eff.args /\ eff'.state # "absent"
      /\ eff'.state = "absent" => eff'.args = eff.args /\ eff.state = "absent"
      /\ eff.state \in Replayable => SameEffect
  BY <1>1, <1>2, LedgerKeeps
<1>5. SingleAdmitter'
  BY <1>1 DEF IndInv, SingleAdmitter, SameEffect
<1>6. NothingBeforeApproval'
  BY <1>1, <1>4 DEF IndInv, NothingBeforeApproval, Held
<1>7. ServedOwnArguments'
  <2>1. \A u \in Threads : got[u] \in Outcomes => eff.state # "absent"
    BY RuntimeAssumption, NoneAssumption
    DEF IndInv, ServedOwnArguments, WorksOnOwnArguments, Outcomes, RuntimeAssumption, NoneAssumption
  <2>. QED
    BY <1>1, <1>4, <2>1 DEF IndInv, ServedOwnArguments, Outcomes
<1>8. Evidence'
  BY <1>1, <1>4 DEF IndInv, Evidence
<1>9. ToldIsSettled'
  BY <1>1, <1>4 DEF IndInv, ToldIsSettled, SameEffect
<1>10. WorksOnOwnArguments'
  <2>1. \A u \in Threads : pc[u] \notin {"idle", "admit"} => eff.state # "absent"
    BY RuntimeAssumption, NoneAssumption
    DEF IndInv, WorksOnOwnArguments, RuntimeAssumption, NoneAssumption
  <2>. QED
    BY <1>1, <1>4, <2>1 DEF IndInv, WorksOnOwnArguments
<1>. QED
  BY <1>3, <1>4, <1>5, <1>6, <1>7, <1>8, <1>9, <1>10 DEF IndInv

\* A process dies with the calls it serves; the record does not notice.
LEMMA CrashKeeps ==
  ASSUME IndInv, NEW w \in Workers, Crash(w), UNCHANGED <<reconciler, client>>,
         deaths' \in 0..MaxDeaths
  PROVE  IndInv'
<1>1. eff' = eff /\ landed' = landed /\ step' = step /\ task' = task /\ read' = read
  <2>1. eff' = eff /\ landed' = landed
    BY DEF Crash, MaybeSent, world
  <2>. QED
    BY <2>1 DEF reconciler, client
<1>2. ASSUME NEW t \in Threads
      PROVE  \/ pc'[t] = pc[t] /\ got'[t] = got[t]
             \/ pc'[t] = "idle" /\ got'[t] = NoResult
  <2>. DEFINE dead == {u \in Threads : WorkerOf[u] = w}
  <2>1. /\ pc'[t] = IF t \in dead THEN "idle" ELSE pc[t]
        /\ got'[t] = IF t \in dead THEN NoResult ELSE got[t]
    BY DEF Crash
  <2>. QED
    BY <2>1
<1>3. wire' \in BOOLEAN /\ (wire' # wire => \E t \in Threads : pc[t] \in InHandler)
  BY DEF Crash, MaybeSent, world, InHandler, IndInv, TypeOK
<1>4. TypeOK'
  <2>1. RuntimeTypeOK'
    BY DEF Crash, IndInv, TypeOK, RuntimeTypeOK, Steps, Answers
  <2>. QED
    BY <1>1, <1>3, <2>1 DEF IndInv, TypeOK, ReconcilerTypeOK, ClientTypeOK, reconciler, client
<1>5. SingleAdmitter' /\ ResultMatchesState' /\ NothingBeforeApproval'
  BY <1>1, <1>2, <1>3
  DEF IndInv, SingleAdmitter, ResultMatchesState, NothingBeforeApproval, InHandler
<1>6. ServedOwnArguments' /\ ToldIsSettled' /\ WorksOnOwnArguments'
  BY <1>1, <1>2
  DEF IndInv, ServedOwnArguments, ToldIsSettled, WorksOnOwnArguments, OkResults, FailResults,
      OwnOutcomes, NoResult
<1>7. Evidence' /\ ReadsOpenOutcomes'
  BY <1>1, <1>2 DEF IndInv, Evidence, ReadsOpenOutcomes
<1>. QED
  BY <1>4, <1>5, <1>6, <1>7 DEF IndInv

\* The clock moves the timers of the record and nothing IndInv speaks of.
LEMMA TickKeeps ==
  ASSUME IndInv, Tick
  PROVE  IndInv'
<1>1. eff \in Effects
  BY DEF IndInv, TypeOK
<1>2. /\ eff' \in Effects /\ eff'.state = eff.state /\ eff'.result = eff.result
      /\ eff'.args = eff.args
  BY <1>1, Ticked DEF Tick
<1>3. /\ landed' = landed /\ wire' = wire /\ pc' = pc /\ seen' = seen /\ got' = got
      /\ runs' = runs /\ step' = step /\ held' = held /\ task' = task /\ read' = read
      /\ deaths' = deaths
  BY DEF Tick, world, local, reconciler, client
<1>4. TypeOK'
  BY <1>2, <1>3 DEF IndInv, TypeOK, RuntimeTypeOK, ReconcilerTypeOK, ClientTypeOK
<1>5. SingleAdmitter' /\ ResultMatchesState' /\ NothingBeforeApproval'
  BY <1>2, <1>3 DEF IndInv, SingleAdmitter, ResultMatchesState, NothingBeforeApproval
<1>6. ServedOwnArguments' /\ ToldIsSettled' /\ WorksOnOwnArguments'
  BY <1>2, <1>3 DEF IndInv, ServedOwnArguments, ToldIsSettled, WorksOnOwnArguments
<1>7. Evidence' /\ ReadsOpenOutcomes'
  BY <1>2, <1>3 DEF IndInv, Evidence, ReadsOpenOutcomes
<1>. QED
  BY <1>4, <1>5, <1>6, <1>7 DEF IndInv

\* A request on its way belongs to an effect that was let through.
LEMMA StraggleKeeps ==
  ASSUME IndInv, Straggle
  PROVE  IndInv'
<1>1. /\ eff' = eff /\ pc' = pc /\ seen' = seen /\ got' = got /\ runs' = runs
      /\ step' = step /\ held' = held /\ task' = task /\ read' = read /\ deaths' = deaths
  BY DEF Straggle, local, reconciler, client
<1>2. wire /\ ~wire' /\ wire' \in BOOLEAN
  BY DEF Straggle, LateLanding
<1>3. landed' \in 0..MaxLandings /\ landed' > 0
  BY LandingsAssumption
  DEF IndInv, TypeOK, Straggle, LateLanding, Happens, LandingsAssumption
<1>4. TypeOK'
  BY <1>1, <1>2, <1>3 DEF IndInv, TypeOK, RuntimeTypeOK, ReconcilerTypeOK, ClientTypeOK
<1>5. SingleAdmitter' /\ ResultMatchesState' /\ NothingBeforeApproval'
  BY <1>1, <1>2 DEF IndInv, SingleAdmitter, ResultMatchesState, NothingBeforeApproval
<1>6. ServedOwnArguments' /\ ToldIsSettled' /\ WorksOnOwnArguments'
  BY <1>1 DEF IndInv, ServedOwnArguments, ToldIsSettled, WorksOnOwnArguments
<1>7. Evidence' /\ ReadsOpenOutcomes'
  BY <1>1, <1>3 DEF IndInv, Evidence, ReadsOpenOutcomes
<1>. QED
  BY <1>4, <1>5, <1>6, <1>7 DEF IndInv

\* Every step of a thread is a WorkerMove.
LEMMA ThreadSteps ==
  ASSUME IndInv, NEW t \in Threads, Worker(t)
  PROVE  WorkerMove(t)
  BY AdmissionMove, AttemptMove, RecordMove DEF Worker, Proceed

\* A death of a worker, a reconciler or a command leaves IndInv as it is.
LEMMA DeathKeeps ==
  ASSUME IndInv, Death
  PROVE  IndInv'
<1>1. deaths' \in 0..MaxDeaths
  BY OpenOnceAssumption DEF Death, IndInv, TypeOK, OpenOnceAssumption
<1>2. ASSUME NEW w \in Workers, Crash(w), UNCHANGED <<reconciler, client>>
      PROVE  IndInv'
  BY <1>1, <1>2, CrashKeeps
<1>3. ASSUME NEW r \in Reconcilers, ReconcilerDies(r), UNCHANGED <<local, client>>
      PROVE  IndInv'
  <2>1. ResolverMove
    BY <1>3, RecordKept DEF ReconcilerDies, IndInv
  <2>2. SweepMove(r)
    BY <1>3, <2>1, ThenMove DEF ReconcilerDies, Done, ReconcilerSteps
  <2>3. task' = task /\ read' = read
    BY <1>3 DEF client
  <2>. QED
    BY <1>1, <1>3, <2>1, <2>2, <2>3, ResolverKeeps
    DEF SweepMove, IndInv, TypeOK, ClientTypeOK, Evidence, ReadsOpenOutcomes
<1>4. ASSUME NEW p \in People, Abandon(p), UNCHANGED <<local, reconciler>>
      PROVE  IndInv'
  <2>1. ResolverMove
    BY <1>4, RecordKept DEF Abandon, IndInv
  <2>2. PersonMove(p)
    BY <1>4, <2>1, TookMove DEF Abandon, Finish
  <2>3. step' = step /\ held' = held
    BY <1>4 DEF reconciler
  <2>. QED
    BY <1>1, <1>4, <2>1, <2>2, <2>3, ResolverKeeps
    DEF PersonMove, IndInv, TypeOK, ReconcilerTypeOK, Evidence, ReadsOpenOutcomes
<1>. QED
  BY <1>2, <1>3, <1>4 DEF Death

\* IndInv is inductive: every step keeps it.
LEMMA NextKeeps == IndInv /\ [Next]_vars => IndInv'
<1>. SUFFICES ASSUME IndInv, [Next]_vars PROVE IndInv'
  OBVIOUS
<1>1. CASE Tick
  BY <1>1, TickKeeps
<1>2. CASE Straggle
  BY <1>2, StraggleKeeps
<1>3. ASSUME NEW t \in Threads, Worker(t)
      PROVE  IndInv'
  BY <1>3, ThreadSteps, WorkerKeeps DEF Worker
<1>4. ASSUME NEW r \in Reconcilers, Sweep(r)
      PROVE  IndInv'
  <2>1. SweepMove(r)
    BY <1>4, ReconcilerMove DEF Sweep
  <2>2. UNCHANGED local /\ deaths' = deaths /\ task' = task /\ read' = read
    BY <1>4 DEF Sweep, client
  <2>. QED
    BY <2>1, <2>2, ResolverKeeps
    DEF SweepMove, IndInv, TypeOK, ClientTypeOK, Evidence, ReadsOpenOutcomes
<1>5. ASSUME NEW p \in People, Person(p)
      PROVE  IndInv'
  <2>1. PersonMove(p)
    BY <1>5, ClientMove DEF Person
  <2>2. UNCHANGED local /\ deaths' = deaths /\ step' = step /\ held' = held
    BY <1>5 DEF Person, reconciler
  <2>. QED
    BY <2>1, <2>2, ResolverKeeps
    DEF PersonMove, IndInv, TypeOK, ReconcilerTypeOK, Evidence, ReadsOpenOutcomes
<1>6. CASE Death
  BY <1>6, DeathKeeps
<1>7. CASE UNCHANGED vars
  <2>. USE <1>7 DEF vars, world, local, reconciler, client, IndInv
  <2>1. TypeOK'
    BY DEF TypeOK, RuntimeTypeOK, ReconcilerTypeOK, ClientTypeOK
  <2>2. SingleAdmitter' /\ ResultMatchesState' /\ NothingBeforeApproval'
    BY DEF SingleAdmitter, ResultMatchesState, NothingBeforeApproval
  <2>3. ServedOwnArguments' /\ ToldIsSettled' /\ WorksOnOwnArguments'
    BY DEF ServedOwnArguments, ToldIsSettled, WorksOnOwnArguments
  <2>4. Evidence' /\ ReadsOpenOutcomes'
    BY DEF Evidence, ReadsOpenOutcomes
  <2>. QED
    BY <2>1, <2>2, <2>3, <2>4
<1>. QED
  BY <1>1, <1>2, <1>3, <1>4, <1>5, <1>6, <1>7 DEF Next

\* IndInv holds in every reachable state.
THEOREM Invariance == Spec => []IndInv
  BY InitKeeps, NextKeeps, PTL DEF Spec

-----------------------------------------------------------------------------
(* Safety, whatever the timing and the number of actors.                   *)

\* Every variable always holds a value of its kind.
THEOREM TypeCorrect == Spec => []TypeOK
  BY Invariance, PTL DEF IndInv

\* The thread at the policy gate is alone there and holds a planned record:
\* the assertion at the end of _gate never fails.
THEOREM GateIsHeldAlone == Spec => []SingleAdmitter
  BY Invariance, PTL DEF IndInv

\* What is replayed matches the state it is replayed for: the assertion in
\* _replay never fails.
THEOREM ReplaysAreSound == Spec => []ResultMatchesState
  BY Invariance, PTL DEF IndInv

\* Nothing happens for an effect that nobody has let through, nor for one
\* that was denied.
THEOREM ApprovalComesFirst == Spec => []NothingBeforeApproval
  BY Invariance, PTL DEF IndInv

\* A caller is told an outcome only for its own arguments.
THEOREM OutcomesAreForOwnArguments == Spec => []ServedOwnArguments
  BY Invariance, PTL DEF IndInv

-----------------------------------------------------------------------------
(* OpenOnce implements DurableEffect.                                      *)

\* The phases of the effect, state by state.
LEMMA Phases ==
  /\ (Phase = "unasked") <=> (eff.state = "absent")
  /\ (Phase = "happened") <=> (eff.state = "committed")
  /\ (Phase = "failed") <=> (eff.state = "failed")
  /\ (Phase = "refused") <=> (eff.state = "denied")
  /\ Phase \in {"unasked", "happened", "failed", "refused", "undecided"}
  BY DEF Phase

\* The initial state is one of the promise.
LEMMA InitKeepsPromise == Init => Promise!DurableInit
<1>. SUFFICES ASSUME Init PROVE Promise!DurableInit
  OBVIOUS
<1>1. eff.state = "absent" /\ landed = 0
  BY DEF Init, StoreInit, WorldInit, Absent
<1>2. Phase = "unasked" /\ Outcome = NoResult
  BY <1>1, Phases DEF Outcome, Replayable
<1>3. Told = [c \in Threads |-> NoResult]
  BY DEF Init, RuntimeInit, Told, NoResult, OkResults, FailResults
<1>. QED
  BY <1>1, <1>2, <1>3 DEF Promise!DurableInit

\* A move of the record and of the world, as the promise has it.
LEMMA MovesKeepPromise ==
  ASSUME IndInv, LedgerMove, WorldMove, Promise!Tell
  PROVE  Promise!DurableNext
<1>. USE DEF Replayable, Held, NoResult
<1>. USE DEF Promise!DurableNext, Promise!Ask, Promise!TakePlace, Promise!SettleHappened,
             Promise!SettleFailed, Promise!Refuse
<1>1. CASE SameEffect
  <2>1. Phase' = Phase /\ Outcome' = Outcome
    BY <1>1 DEF SameEffect, Phase, Outcome
  <2>. QED
    BY <1>1, <2>1, Phases DEF WorldMove
<1>2. CASE ~SameEffect
  <2>1. landed' = landed
    BY <1>2 DEF WorldMove
  <2>2. CASE eff.state = "absent" /\ eff'.state = "planned"
    <3>1. Phase = "unasked" /\ Phase' = "undecided" /\ Outcome = NoResult /\ Outcome' = NoResult
      BY <2>2 DEF Phase, Outcome
    <3>. QED
      BY <2>1, <3>1
  <2>3. CASE eff.state \in {"planned", "requires_approval"} /\ eff'.state = "denied"
    <3>1. Phase = "undecided" /\ Phase' = "refused" /\ Outcome = NoResult /\ Outcome' = NoResult
      BY <2>3 DEF Phase, Outcome
    <3>2. landed = 0
      BY <2>3 DEF IndInv, NothingBeforeApproval
    <3>. QED
      BY <2>1, <3>1, <3>2
  <2>4. CASE /\ eff.state \in {"receipt_recorded", "human_review"} /\ eff'.state = "committed"
             /\ landed > 0 /\ eff'.result \in OkResults
    <3>1. Phase = "undecided" /\ Phase' = "happened" /\ Outcome' \in OkResults
      BY <2>4 DEF Phase, Outcome
    <3>. QED
      BY <2>1, <2>4, <3>1
  <2>5. CASE /\ eff.state \in {"started", "unknown", "human_review"} /\ eff'.state = "failed"
             /\ eff'.result \in FailResults
    <3>1. Phase = "undecided" /\ Phase' = "failed" /\ Outcome' \in FailResults
      BY <2>5 DEF Phase, Outcome
    <3>. QED
      BY <2>1, <3>1
  <2>6. CASE /\ eff.state \notin {"absent", "committed", "failed", "denied"}
             /\ eff'.state \notin {"absent", "committed", "failed", "denied"}
    <3>1. Phase' = Phase /\ Outcome' = Outcome
      BY <2>6 DEF Phase, Outcome
    <3>. QED
      BY <2>1, <3>1
  <2>. QED
    BY <1>2, <2>2, <2>3, <2>4, <2>5, <2>6 DEF LedgerMove, Moves
<1>. QED
  BY <1>1, <1>2

\* Threads whose answer is as it was have been told what they were.
LEMMA ToldAsBefore ==
  ASSUME NEW t \in Threads, got'[t] = got[t]
  PROVE  Told'[t] = Told[t]
  BY DEF Told

\* A thread without a replayed outcome has been told nothing.
LEMMA ToldNothing ==
  ASSUME NEW t \in Threads, got'[t] \notin OkResults \cup FailResults
  PROVE  Told'[t] = NoResult
  BY DEF Told

\* A thread that answers tells the settled outcome or none.
LEMMA WorkerTells ==
  ASSUME IndInv, NEW t \in Threads, WorkerMove(t)
  PROVE  Promise!Tell
<1>. SUFFICES ASSUME NEW u \in Threads
             PROVE  Told'[u] \in {Told[u], NoResult, Outcome}
  BY DEF Promise!Tell
<1>1. CASE got'[u] = got[u]
  BY <1>1, ToldAsBefore
<1>2. CASE got'[u] \notin OkResults \cup FailResults
  BY <1>2, ToldNothing
<1>3. CASE got'[u] # got[u] /\ got'[u] \in OkResults \cup FailResults
  <2>1. eff.state \in Replayable /\ got'[u] = eff.result
    BY <1>3 DEF WorkerMove, ThreadMove
  <2>. QED
    BY <1>3, <2>1 DEF Told, Outcome
<1>. QED
  BY <1>1, <1>2, <1>3

\* Nobody but a thread tells, and a thread that dies forgets.
LEMMA OthersTell ==
  ASSUME \A t \in Threads : got'[t] = got[t] \/ got'[t] = NoResult
  PROVE  Promise!Tell
<1>. SUFFICES ASSUME NEW u \in Threads
             PROVE  Told'[u] \in {Told[u], NoResult, Outcome}
  BY DEF Promise!Tell
<1>. QED
  BY ToldAsBefore, ToldNothing DEF NoResult, OkResults, FailResults

\* Every step moves the record and the world as LedgerMove and WorldMove say,
\* and tells the callers no outcome but the settled one.
LEMMA StepMoves ==
  IndInv /\ [Next]_vars => LedgerMove /\ WorldMove /\ Promise!Tell
<1>. SUFFICES ASSUME IndInv, [Next]_vars
             PROVE  LedgerMove /\ WorldMove /\ Promise!Tell
  OBVIOUS
<1>1. TypeOK
  BY DEF IndInv
<1>2. ASSUME NEW t \in Threads, Worker(t)
      PROVE  LedgerMove /\ WorldMove /\ Promise!Tell
  BY <1>2, ThreadSteps, WorkerTells DEF WorkerMove
<1>3. ASSUME ResolverMove, UNCHANGED local
      PROVE  LedgerMove /\ WorldMove /\ Promise!Tell
  <2>1. Promise!Tell
    BY <1>3, OthersTell DEF local
  <2>. QED
    BY <1>1, <1>3, <2>1, WorldKept DEF ResolverMove
<1>4. CASE Tick
  <2>1. SameEffect
    BY <1>1, <1>4, Ticked DEF Tick, TypeOK, SameEffect
  <2>2. LedgerMove /\ WorldMove
    BY <1>1, <1>4, <2>1, WorldKept DEF Tick, LedgerMove
  <2>. QED
    BY <1>4, <2>2, OthersTell DEF Tick, local
<1>5. CASE Straggle
  <2>1. eff' = eff /\ wire /\ wire' = FALSE
    BY <1>5 DEF Straggle, LateLanding
  <2>2. eff.state \notin Held
    BY <2>1 DEF IndInv, NothingBeforeApproval, Held
  <2>3. landed' \in {landed, landed + 1} /\ landed' \in 0..MaxLandings
    BY <1>1, <1>5, LandingsAssumption
    DEF TypeOK, Straggle, LateLanding, Happens, LandingsAssumption
  <2>4. LedgerMove /\ WorldMove
    BY <2>1, <2>2, <2>3 DEF LedgerMove, SameEffect, WorldMove
  <2>. QED
    BY <1>5, <2>4, OthersTell DEF Straggle, local
<1>6. ASSUME NEW r \in Reconcilers, Sweep(r)
      PROVE  LedgerMove /\ WorldMove /\ Promise!Tell
  BY <1>3, <1>6, ReconcilerMove DEF Sweep, SweepMove
<1>7. ASSUME NEW p \in People, Person(p)
      PROVE  LedgerMove /\ WorldMove /\ Promise!Tell
  BY <1>3, <1>7, ClientMove DEF Person, PersonMove
<1>8. CASE Death
  <2>1. ASSUME NEW w \in Workers, Crash(w)
        PROVE  LedgerMove /\ WorldMove /\ Promise!Tell
    <3>1. \A t \in Threads : got'[t] = got[t] \/ got'[t] = NoResult
      BY <2>1 DEF Crash
    <3>2. SameEffect /\ landed' = landed
      BY <2>1 DEF Crash, MaybeSent, world, SameEffect
    <3>3. wire' \in BOOLEAN /\ (wire' # wire => \E t \in Threads : pc[t] \in InHandler)
      BY <1>1, <2>1 DEF Crash, MaybeSent, world, InHandler, TypeOK
    <3>4. LedgerMove /\ WorldMove
      BY <1>1, <3>2, <3>3
      DEF LedgerMove, WorldMove, Held, IndInv, NothingBeforeApproval, TypeOK
    <3>. QED
      BY <3>1, <3>4, OthersTell
  <2>2. ASSUME UNCHANGED <<eff, world, local>>
        PROVE  LedgerMove /\ WorldMove /\ Promise!Tell
    BY <1>1, <1>3, <2>2, RecordKept
  <2>. QED
    BY <1>8, <2>1, <2>2 DEF Death, ReconcilerDies, Abandon
<1>9. CASE UNCHANGED vars
  BY <1>1, <1>3, <1>9, RecordKept DEF vars
<1>. QED
  BY <1>2, <1>4, <1>5, <1>6, <1>7, <1>8, <1>9 DEF Next

\* Every step is a step of the promise.
LEMMA StepsKeepPromise == IndInv /\ [Next]_vars => Promise!DurableNext
  BY StepMoves, MovesKeepPromise

\* OpenOnce implements DurableEffect: whatever the timing, an effect is
\* settled once and for all, as happened only if it took place, as refused
\* only if it never does, and every replay tells the settled outcome.
THEOREM PromiseKept == Spec => KeepsPromise
<1>1. Init => Promise!DurableInit
  BY InitKeepsPromise
<1>2. IndInv /\ [Next]_vars => [Promise!DurableNext]_(Promise!abstract)
  BY StepsKeepPromise
<1>. QED
  BY <1>1, <1>2, Invariance, PTL DEF Spec, KeepsPromise, Promise!DurableSpec
=============================================================================
