----------------------------- MODULE TimelyProofs -----------------------------
(***************************************************************************)
(* What holds of OpenOnce in a deployment that keeps its times and leaves  *)
(* every uncertain record to one resolver (TimelyDeployment), for any      *)
(* number of workers, threads, attempts, deaths and ticks: the side effect *)
(* takes place at most once, and OpenOnce implements OnceEffect.  Both     *)
(* rest on TimelyInv, which is shown to be inductive relative to IndInv.   *)
(***************************************************************************)
EXTENDS OpenOnceProofs

-----------------------------------------------------------------------------
(* Who may be about to move the record, by the state that it is in.        *)

\* States in which nobody is at work on the record but, under review, a person.
Calm == {"absent", "planned", "requires_approval", "approved", "denied",
         "committed", "failed", "human_review", "canceled"}

\* What holds in the proofs below before every step.
Timed == TimelyDeployment /\ IndInv /\ TimelyInv

\* A calm record has no thread and no reconciler at work on it.
LEMMA NobodyAtWork ==
  ASSUME Timed, eff.state \in Calm
  PROVE  /\ \A t \in Threads : pc[t] \notin Busy \cup {"expire"}
         /\ \A r \in Reconcilers : step[r] = "idle"
         /\ ~wire
<1>1. \A t \in Threads : pc[t] \notin Busy \cup {"expire"}
  BY DEF Timed, TimelyInv, FindsItsRecord, FindsItDead, StaysDead, Calm, Busy
<1>2. \A r \in Reconcilers : step[r] = "idle"
  BY DEF Timed, TimelyInv, FindsItDead, StaysDead, ResolvesWhatItRead, Calm,
         IndInv, TypeOK, ReconcilerTypeOK, ReconcilerSteps
<1>3. ~wire
  BY DEF Timed, TimelyInv, LandsOnce, Calm
<1>. QED
  BY <1>1, <1>2, <1>3

\* A person is at work on records under review only.
LEMMA NoPersonAtWork ==
  ASSUME Timed, eff.state # "human_review"
  PROVE  \A p \in People : task[p] = "idle"
  BY DEF Timed, TimelyInv, ResolvesWhatItRead

\* A busy thread has the record to itself.
LEMMA BusyAlone ==
  ASSUME Timed, NEW t \in Threads, pc[t] \in Busy
  PROVE  /\ \A u \in Threads \ {t} : pc[u] \notin Busy \cup {"expire"}
         /\ \A r \in Reconcilers : step[r] = "idle"
         /\ \A p \in People : task[p] = "idle"
         /\ eff.state \notin Calm
<1>1. \/ eff.state = "started" /\ LeaseLive
      \/ eff.state = "unknown" /\ eff.age = 0 /\ pc[t] = "rearm"
      \/ eff.state = "receipt_recorded"
  BY DEF Timed, TimelyInv, FindsItsRecord, Busy
<1>2. \A u \in Threads \ {t} : pc[u] \notin Busy \cup {"expire"}
  BY <1>1 DEF Timed, TimelyInv, WorksAlone, FindsItDead, StaysDead
<1>3. \A r \in Reconcilers : step[r] = "idle"
  BY <1>1, TimesAssumption DEF TimesAssumption, Timed, TimelyDeployment, TimelyInv, FindsItDead, StaysDead,
              ResolvesWhatItRead, IndInv, TypeOK, ReconcilerTypeOK, ReconcilerSteps
<1>. QED
  BY <1>1, <1>2, <1>3, NoPersonAtWork DEF Calm

-----------------------------------------------------------------------------
(* Ways in which a step keeps TimelyInv.                                   *)

\* Nobody tells its own outcome but the worker that records it.
LEMMA CallersAgree ==
  ASSUME Timed, LedgerMove, eff' \in Effects, landed' \in Nat, landed' >= landed,
         \A t \in Threads : got'[t] = got[t] \/ got'[t] \notin OwnOutcomes
  PROVE  FirstCallerAgrees'
<1>1. eff.state \in Replayable => SameEffect
  BY LedgerKeeps DEF Timed
<1>. QED
  BY <1>1 DEF Timed, TimelyInv, FirstCallerAgrees, SameEffect, Replayable, OwnOutcomes

\* A step to a calm record that leaves nobody at work on it.
LEMMA CalmKeeps ==
  ASSUME Timed, eff'.state \in Calm, UNCHANGED world,
         \A t \in Threads : pc'[t] \notin Busy \cup {"expire"},
         \A r \in Reconcilers : step'[r] = "idle",
         \A p \in People : task'[p] = "idle",
         ~wire,
         eff'.state \in {"approved", "failed"} => landed = 0,
         FirstCallerAgrees'
  PROVE  TimelyInv'
<1>1. landed' = landed /\ wire' = wire /\ landed <= 1
  BY DEF world, Timed, TimelyInv, LandsOnce
<1>2. WorksAlone' /\ FindsItsRecord'
  BY DEF WorksAlone, FindsItsRecord, Busy
<1>3. LandsOnce'
  BY <1>1 DEF LandsOnce, Busy, UnderLease, InHandler
<1>4. FindsItDead' /\ ResolvesWhatItRead'
  BY DEF FindsItDead, ResolvesWhatItRead
<1>. QED
  BY <1>2, <1>3, <1>4 DEF TimelyInv

\* A thread only looks at the record, and goes on to something that needs no
\* hold on it.
LEMMA LookKeeps ==
  ASSUME Timed, NEW t \in Threads, UNCHANGED <<eff, world, reconciler, client>>,
         \A u \in Threads \ {t} : pc'[u] = pc[u] /\ got'[u] = got[u],
         pc'[t] \notin Busy,
         pc'[t] = "expire" => eff.state = "started" /\ ~LeaseLive,
         got'[t] = got[t] \/ got'[t] \notin OwnOutcomes
  PROVE  TimelyInv'
<1>1. /\ eff' = eff /\ landed' = landed /\ wire' = wire /\ step' = step
      /\ task' = task /\ read' = read /\ LeaseLive' = LeaseLive
  BY DEF world, reconciler, client, LeaseLive
<1>2. \A u \in Threads : pc'[u] \in Busy => u # t /\ pc'[u] = pc[u]
  OBVIOUS
<1>3. WorksAlone' /\ FindsItsRecord'
  BY <1>1, <1>2 DEF Timed, TimelyInv, WorksAlone, FindsItsRecord, Busy
<1>4. LandsOnce'
  BY <1>1, <1>2 DEF Timed, TimelyInv, LandsOnce, Busy, UnderLease, InHandler
<1>5. \A u \in Threads : pc'[u] = "rearm" => pc[u] = "rearm"
  BY <1>2 DEF Busy
<1>6. FindsItDead'
  BY <1>1, <1>5 DEF Timed, TimelyInv, FindsItDead, StaysDead
<1>7. ResolvesWhatItRead'
  BY <1>1, <1>2 DEF Timed, TimelyInv, ResolvesWhatItRead
<1>8. FirstCallerAgrees'
  BY <1>1 DEF Timed, TimelyInv, FirstCallerAgrees, OwnOutcomes
<1>. QED
  BY <1>3, <1>4, <1>6, <1>7, <1>8 DEF TimelyInv

\* The executor goes on with its attempt, or is through with it.
LEMMA AttemptKeeps ==
  ASSUME Timed, NEW t \in Threads, pc[t] \in UnderLease,
         UNCHANGED <<eff, reconciler, client>>,
         \A u \in Threads \ {t} : pc'[u] = pc[u] /\ got'[u] = got[u],
         pc'[t] \in UnderLease \cup {"idle"},
         got'[t] = got[t] \/ got'[t] \notin OwnOutcomes,
         landed' \in Nat, landed' <= 1, wire' => landed' = 0,
         pc'[t] \in {"calling", "retry", "fail"} => landed' = 0 /\ ~wire'
  PROVE  TimelyInv'
<1>1. /\ eff' = eff /\ step' = step /\ task' = task /\ read' = read
      /\ LeaseLive' = LeaseLive
  BY DEF reconciler, client, LeaseLive
<1>2. eff.state = "started" /\ eff.owner = WorkerOf[t] /\ LeaseLive
  BY DEF Timed, TimelyInv, FindsItsRecord
<1>3. /\ \A u \in Threads \ {t} : pc'[u] \notin Busy \cup {"expire"}
      /\ \A r \in Reconcilers : step'[r] = "idle"
      /\ \A p \in People : task'[p] = "idle"
  BY <1>1, BusyAlone DEF Busy
<1>4. pc'[t] \in UnderLease \/ pc'[t] \notin Busy \cup {"expire"}
  BY DEF Busy, UnderLease, InHandler
<1>5. WorksAlone' /\ FindsItsRecord'
  BY <1>1, <1>2, <1>3, <1>4 DEF WorksAlone, FindsItsRecord, Busy, UnderLease, InHandler
<1>6. LandsOnce'
  BY <1>1, <1>2, <1>3, <1>4 DEF LandsOnce, Busy, UnderLease, InHandler
<1>7. FindsItDead' /\ ResolvesWhatItRead'
  BY <1>1, <1>3, <1>4 DEF FindsItDead, ResolvesWhatItRead, UnderLease, InHandler
<1>8. FirstCallerAgrees'
  BY <1>1 DEF Timed, TimelyInv, FirstCallerAgrees, OwnOutcomes
<1>. QED
  BY <1>5, <1>6, <1>7, <1>8 DEF TimelyInv

-----------------------------------------------------------------------------
(* The threads.                                                            *)

\* A thread that follows another's attempt only looks at the record.
LEMMA FollowLooks ==
  ASSUME Timed, NEW t \in Threads, Follow(t)
  PROVE  /\ \A u \in Threads \ {t} : pc'[u] = pc[u] /\ got'[u] = got[u]
         /\ pc'[t] \notin Busy
         /\ pc'[t] = "expire" => eff.state = "started" /\ ~LeaseLive
         /\ got'[t] \notin OwnOutcomes
<1>. USE DEF Busy, UnderLease, InHandler, OwnOutcomes
<1>1. RuntimeTypeOK /\ eff \in Effects /\ eff.attempt \in Nat /\ ResultMatchesState
  BY DEF Timed, IndInv, TypeOK, Effects
<1>2. CASE eff.state \in Replayable /\ Answer(t, eff.result)
  <2>1. eff.result \in OkResults \cup FailResults
    BY <1>1, <1>2 DEF ResultMatchesState, Replayable
  <2>. QED
    BY <1>1, <1>2, <2>1, Answered DEF Answers, OkResults, FailResults
<1>3. CASE \E a \in {"pending", "denied", "unknown"} : Answer(t, a)
  BY <1>1, <1>3, Answered DEF Answers, Signals
<1>4. CASE Goto(t, "start", eff.attempt) \/ Goto(t, "wait", 0)
  BY <1>1, <1>4, WentOn DEF Steps, NoResult
<1>5. CASE eff.state = "started" /\ ~LeaseLive /\ Goto(t, "expire", 0)
  BY <1>1, <1>5, WentOn DEF Steps, NoResult
<1>. QED
  BY <1>2, <1>3, <1>4, <1>5 DEF Follow

\* The lookup, the admission, the policy and the wait.
LEMMA AdmissionTimed ==
  ASSUME Timed, NEW t \in Threads, UNCHANGED <<reconciler, client>>,
         Call(t) \/ Admit(t) \/ Gate(t) \/ Reread(t) \/ GiveUp(t)
  PROVE  TimelyInv'
<1>. USE DEF InHandler, OwnOutcomes
<1>1. RuntimeTypeOK /\ eff \in Effects /\ eff.attempt \in Nat /\ WorkerMove(t)
  BY AdmissionMove DEF Timed, IndInv, TypeOK, Effects
<1>2. step' = step /\ task' = task
  BY DEF reconciler, client
<1>3. ASSUME UNCHANGED <<eff, world>>,
             \/ \E a \in Signals : Answer(t, a)
             \/ Goto(t, "admit", 0)
             \/ Follow(t)
      PROVE  TimelyInv'
  <2>1. CASE \E a \in Signals : Answer(t, a)
    BY <1>1, <1>3, <2>1, Answered, LookKeeps DEF Answers, Signals, Busy, UnderLease
  <2>2. CASE Goto(t, "admit", 0)
    BY <1>1, <1>3, <2>2, WentOn, LookKeeps DEF Steps, NoResult, Busy, UnderLease
  <2>3. CASE Follow(t)
    BY <1>3, <2>3, FollowLooks, LookKeeps
  <2>. QED
    BY <1>3, <2>1, <2>2, <2>3
<1>4. ASSUME eff.state \in {"absent", "planned"}, eff'.state \in Calm, UNCHANGED world,
             \/ \E s \in {"gate", "start"}, n \in Nat : Goto(t, s, n)
             \/ \E a \in {"pending", "denied"} : Answer(t, a)
      PROVE  TimelyInv'
  <2>1. /\ pc'[t] \notin Busy \cup {"expire"} /\ got'[t] \notin OwnOutcomes
        /\ \A u \in Threads \ {t} : pc'[u] = pc[u] /\ got'[u] = got[u]
    <3>1. CASE \E s \in {"gate", "start"}, n \in Nat : Goto(t, s, n)
      BY <1>1, <3>1, WentOn DEF Steps, NoResult, Busy, UnderLease
    <3>2. CASE \E a \in {"pending", "denied"} : Answer(t, a)
      BY <1>1, <3>2, Answered DEF Answers, Signals, Busy, UnderLease
    <3>. QED
      BY <1>4, <3>1, <3>2
  <2>2. /\ \A u \in Threads : pc'[u] \notin Busy \cup {"expire"}
        /\ \A r \in Reconcilers : step'[r] = "idle"
        /\ \A p \in People : task'[p] = "idle"
        /\ ~wire
    BY <1>2, <1>4, <2>1, NobodyAtWork, NoPersonAtWork DEF Calm
  <2>3. landed = 0
    BY <1>4 DEF Timed, IndInv, NothingBeforeApproval
  <2>4. FirstCallerAgrees'
    BY <1>1, <1>4, <2>1, <2>3, CallersAgree DEF WorkerMove, world
  <2>. QED
    BY <1>4, <2>2, <2>3, <2>4, CalmKeeps
<1>5. CASE Call(t)
  BY <1>3, <1>5 DEF Call, Signals
<1>6. CASE Admit(t)
  <2>1. CASE Create(ArgsOf[t]) /\ Goto(t, "gate", 0)
    <3>1. eff.state = "absent" /\ eff'.state = "planned"
      BY <2>1 DEF Create, Absent
    <3>. QED
      BY <1>4, <1>6, <2>1, <3>1 DEF Admit, Calm
  <2>. QED
    BY <1>3, <1>6, <2>1 DEF Admit, Signals
<1>7. CASE Gate(t)
  <2>1. ASSUME NEW s \in {"approved", "requires_approval", "denied"},
               Transition({"planned"}, s, None, eff)
        PROVE  eff.state = "planned" /\ eff'.state \in Calm
    BY <1>1, <2>1 DEF Transition, Accepts, Effects, Calm
  <2>. QED
    BY <1>1, <1>3, <1>4, <1>7, <2>1 DEF Gate, Signals
<1>8. CASE Reread(t) \/ GiveUp(t)
  BY <1>3, <1>8 DEF Reread, GiveUp, Signals
<1>. QED
  BY <1>5, <1>6, <1>7, <1>8

\* A thread takes the armed effect; whoever comes late joins the callers again.
LEMMA StartTimed ==
  ASSUME Timed, NEW t \in Threads, UNCHANGED <<reconciler, client>>, Start(t)
  PROVE  TimelyInv'
<1>. USE DEF InHandler, OwnOutcomes
<1>1. /\ RuntimeTypeOK /\ eff \in Effects /\ seen[t] \in Nat /\ WorkerMove(t)
      /\ pc[t] = "start" /\ UNCHANGED world
      /\ step' = step /\ task' = task
  BY AttemptMove DEF Timed, IndInv, TypeOK, RuntimeTypeOK, Start, reconciler, client
<1>2. CASE Transition({"approved"}, "started", None, Leased(t))
  <2>1. /\ eff.state = "approved" /\ eff'.state = "started"
        /\ eff'.owner = WorkerOf[t] /\ eff'.lease = LeaseSeconds
    <3>1. Leased(t) \in Effects /\ Leased(t).owner = WorkerOf[t]
          /\ Leased(t).lease = LeaseSeconds
      BY <1>1, LeasedTyped DEF Timed, IndInv, Leased, TypeOK, Effects
    <3>. QED
      BY <1>2, <3>1 DEF Transition, Accepts, Effects
  <2>2. pc' = [pc EXCEPT ![t] = "calling"] /\ got' = got
    BY <1>2 DEF Start, Lost, Transition
  <2>3. LeaseLive'
    BY <2>1, TimesAssumption DEF LeaseLive, TimesAssumption
  <2>4. landed = 0 /\ landed' = landed /\ ~wire /\ ~wire'
    BY <1>1, <2>1, NobodyAtWork DEF Timed, TimelyInv, LandsOnce, world, Calm
  <2>5. /\ pc'[t] = "calling"
        /\ \A u \in Threads \ {t} : pc'[u] \notin Busy \cup {"expire"}
        /\ \A r \in Reconcilers : step'[r] = "idle"
        /\ \A p \in People : task'[p] = "idle"
    BY <1>1, <2>1, <2>2, NobodyAtWork, NoPersonAtWork DEF Calm, RuntimeTypeOK
  <2>6. WorksAlone' /\ FindsItsRecord'
    BY <2>1, <2>3, <2>5 DEF WorksAlone, FindsItsRecord, Busy, UnderLease
  <2>7. LandsOnce'
    BY <2>1, <2>4 DEF LandsOnce
  <2>8. FindsItDead' /\ ResolvesWhatItRead'
    BY <2>5 DEF FindsItDead, ResolvesWhatItRead
  <2>9. FirstCallerAgrees'
    BY <1>1, <2>2, <2>4, CallersAgree DEF WorkerMove
  <2>. QED
    BY <2>6, <2>7, <2>8, <2>9 DEF TimelyInv
<1>3. CASE UNCHANGED eff /\ Goto(t, "rejoin", 0)
  BY <1>1, <1>3, WentOn, LookKeeps DEF Steps, NoResult, Busy, UnderLease
<1>. QED
  BY <1>2, <1>3 DEF Start, Lost

\* The handler runs, and its side effect takes place while it does, for the
\* only time.
LEMMA HandlerTimed ==
  ASSUME Timed, NEW t \in Threads, UNCHANGED <<reconciler, client>>,
         Land(t) \/ HandlerEnds(t)
  PROVE  TimelyInv'
<1>. USE DEF InHandler, OwnOutcomes, UnderLease
<1>1. /\ RuntimeTypeOK /\ landed \in Nat /\ landed <= 1 /\ (wire => landed = 0)
      /\ pc[t] = "calling" => landed = 0 /\ ~wire
      /\ UNCHANGED eff
  BY LandingsAssumption
  DEF LandingsAssumption, Timed, IndInv, TypeOK, TimelyInv, LandsOnce,
      Land, HandlerEnds, HandlerReturns, HandlerRefuses, HandlerLosesTrack
<1>2. CASE Land(t)
  <2>1. landed' \in Nat /\ landed' = 1 /\ ~wire'
    BY <1>1, <1>2, LandingsAssumption DEF Land, Happens, LandingsAssumption
  <2>2. /\ pc'[t] = "landed" /\ got' = got
        /\ \A u \in Threads \ {t} : pc'[u] = pc[u]
    BY <1>1, <1>2 DEF Land, RuntimeTypeOK
  <2>. QED
    BY <1>1, <1>2, <2>1, <2>2, AttemptKeeps DEF Land
<1>3. CASE HandlerReturns(t)
  BY <1>1, <1>3, WentOn, AttemptKeeps DEF HandlerReturns, Steps, NoResult, world
<1>4. CASE HandlerRefuses(t)
  BY <1>1, <1>4, WentOn, AttemptKeeps DEF HandlerRefuses, Steps, NoResult, world
<1>5. CASE HandlerLosesTrack(t)
  <2>1. landed' = landed /\ (wire' => landed' = 0)
    BY <1>1, <1>5 DEF HandlerLosesTrack, MaybeSent, world
  <2>2. /\ pc'[t] \in {"park", "idle"} /\ got'[t] \notin OwnOutcomes
        /\ \A u \in Threads \ {t} : pc'[u] = pc[u] /\ got'[u] = got[u]
    <3>1. CASE Goto(t, "park", 0)
      BY <1>1, <3>1, WentOn DEF Steps, NoResult
    <3>2. CASE Answer(t, "interrupted")
      BY <1>1, <3>2, Answered DEF Answers, Signals
    <3>. QED
      BY <1>5, <3>1, <3>2 DEF HandlerLosesTrack
  <2>. QED
    BY <1>1, <1>5, <2>1, <2>2, AttemptKeeps DEF HandlerLosesTrack
<1>. QED
  BY <1>2, <1>3, <1>4, <1>5 DEF HandlerEnds

\* The attempt is parked as unknown: by its executor, which may arm it again
\* before anybody else looks, or by others once the lease has run out.
LEMMA UnknownKeeps ==
  ASSUME Timed, eff.state = "started", eff'.state = "unknown", eff'.age = 0,
         UNCHANGED world,
         \A u \in Threads : pc'[u] \in Busy => pc'[u] = "rearm",
         \A u, v \in Threads : pc'[u] = "rearm" /\ pc'[v] \in {"rearm", "expire"} => u = v,
         \A u \in Threads : pc'[u] = "rearm" =>
           landed = 0 /\ ~wire /\ \A r \in Reconcilers : step'[r] = "idle",
         \A r \in Reconcilers : step'[r] \in {"idle", "expired"},
         \A p \in People : task'[p] = "idle",
         FirstCallerAgrees'
  PROVE  TimelyInv'
<1>1. landed' = landed /\ wire' = wire /\ landed <= 1 /\ (wire => landed = 0)
  BY DEF world, Timed, TimelyInv, LandsOnce
<1>2. WorksAlone' /\ FindsItsRecord'
  BY DEF WorksAlone, FindsItsRecord, Busy, UnderLease, InHandler
<1>3. LandsOnce'
  BY <1>1, TimesAssumption
  DEF LandsOnce, Busy, UnderLease, InHandler, Timed, TimelyDeployment, TimesAssumption
<1>4. FindsItDead' /\ ResolvesWhatItRead'
  BY DEF FindsItDead, StaysDead, ResolvesWhatItRead
<1>. QED
  BY <1>2, <1>3, <1>4 DEF TimelyInv

\* What the ledger accepts from the worker that holds the lease.
LEMMA OwnerIsHeard ==
  ASSUME Timed, NEW t \in Threads, pc[t] \in UnderLease,
         NEW to \in {"receipt_recorded", "failed", "unknown"}
  PROVE  eff.state = "started" /\ Accepts({"started"}, to, WorkerOf[t])
<1>1. eff.state = "started" /\ eff.owner = WorkerOf[t]
  BY DEF Timed, TimelyInv, FindsItsRecord
<1>. QED
  BY <1>1 DEF Accepts, CanTransition, Transitions

\* The executor gives its attempt up: parked, to be retried, or failed.
LEMMA GiveUpTimed ==
  ASSUME Timed, NEW t \in Threads, UNCHANGED <<reconciler, client>>,
         Park(t) \/ Retry(t) \/ Fail(t)
  PROVE  TimelyInv'
<1>. USE DEF InHandler, OwnOutcomes
<1>1. /\ RuntimeTypeOK /\ eff \in Effects /\ WorkerMove(t)
      /\ pc[t] \in {"park", "retry", "fail"} /\ UNCHANGED world
      /\ step' = step /\ task' = task
      /\ landed' \in Nat /\ landed' >= landed
  BY RecordMove, LandingsAssumption
  DEF LandingsAssumption, Timed, IndInv, TypeOK, Park, Retry, Fail, reconciler, client, world
<1>2. /\ \A u \in Threads \ {t} : pc[u] \notin Busy \cup {"expire"}
      /\ \A r \in Reconcilers : step'[r] = "idle"
      /\ \A p \in People : task'[p] = "idle"
  BY <1>1, BusyAlone DEF Busy, UnderLease
<1>3. eff.state = "started" /\ \A to \in {"failed", "unknown"} :
        Accepts({"started"}, to, WorkerOf[t])
  BY <1>1, OwnerIsHeard DEF UnderLease
<1>4. pc[t] \in {"retry", "fail"} => landed = 0 /\ ~wire
  BY DEF Timed, TimelyInv, LandsOnce
<1>5. CASE Park(t) \/ Retry(t)
  <2>1. eff'.state = "unknown" /\ eff'.age = 0
    BY <1>1, <1>3, <1>5, InRange DEF Park, Retry, Lost, Transition, Effects
  <2>2. /\ pc'[t] = "idle" \/ (pc'[t] = "rearm" /\ landed = 0 /\ ~wire)
        /\ got'[t] \notin OwnOutcomes
        /\ \A u \in Threads \ {t} : pc'[u] = pc[u] /\ got'[u] = got[u]
    <3>1. CASE Park(t)
      BY <1>1, <3>1, Answered DEF Park, Answers, Signals
    <3>2. CASE Retry(t)
      BY <1>1, <1>4, <3>2, WentOn DEF Retry, Steps, NoResult
    <3>. QED
      BY <1>5, <3>1, <3>2
  <2>3. FirstCallerAgrees'
    BY <1>1, <2>2, CallersAgree DEF WorkerMove
  <2>. QED
    BY <1>1, <1>2, <1>3, <2>1, <2>2, <2>3, UnknownKeeps DEF Busy, UnderLease
<1>6. CASE Fail(t)
  <2>1. eff'.state = "failed" /\ eff'.result = "error"
    BY <1>1, <1>3, <1>6, InRange DEF Fail, Lost, Transition, Effects
  <2>2. /\ pc'[t] = "idle" /\ got'[t] = "own_error"
        /\ \A u \in Threads \ {t} : pc'[u] = pc[u] /\ got'[u] = got[u]
    BY <1>1, <1>6, Answered DEF Fail, Answers
  <2>3. FirstCallerAgrees'
    BY <1>3, <2>1, <2>2 DEF Timed, TimelyInv, FirstCallerAgrees
  <2>. QED
    BY <1>1, <1>2, <1>4, <1>6, <2>1, <2>2, <2>3, CalmKeeps DEF Fail, Calm, Busy, UnderLease
<1>. QED
  BY <1>5, <1>6

\* _retry_or_fail finds the record as it left it, and arms it again.
LEMMA RearmTimed ==
  ASSUME Timed, NEW t \in Threads, UNCHANGED <<reconciler, client>>, Rearm(t)
  PROVE  TimelyInv' /\ landed = 0 /\ pc'[t] = "start"
<1>. USE DEF InHandler, OwnOutcomes
<1>1. /\ RuntimeTypeOK /\ eff \in Effects /\ eff.attempt \in Nat /\ WorkerMove(t)
      /\ pc[t] = "rearm" /\ UNCHANGED world
      /\ step' = step /\ task' = task
      /\ landed' \in Nat /\ landed' >= landed
  BY RecordMove, LandingsAssumption
  DEF LandingsAssumption, Timed, IndInv, TypeOK, Effects, Rearm, reconciler, client, world
<1>2. /\ \A u \in Threads \ {t} : pc[u] \notin Busy \cup {"expire"}
      /\ \A r \in Reconcilers : step'[r] = "idle"
      /\ \A p \in People : task'[p] = "idle"
  BY <1>1, BusyAlone DEF Busy
<1>3. landed = 0 /\ ~wire /\ eff.state = "unknown"
  BY <1>1 DEF Timed, TimelyInv, LandsOnce, FindsItsRecord
<1>4. Accepts({"unknown"}, "approved", None)
  BY <1>3 DEF Accepts, CanTransition, Transitions
<1>5. eff'.state = "approved" /\ Goto(t, "start", eff.attempt)
  BY <1>1, <1>4, InRange DEF Rearm, Lost, Transition, Effects
<1>6. /\ pc'[t] = "start" /\ got'[t] \notin OwnOutcomes
      /\ \A u \in Threads \ {t} : pc'[u] = pc[u] /\ got'[u] = got[u]
  BY <1>1, <1>5, WentOn DEF Steps, NoResult
<1>7. FirstCallerAgrees'
  BY <1>1, <1>6, CallersAgree DEF WorkerMove
<1>. QED
  BY <1>1, <1>2, <1>3, <1>5, <1>6, <1>7, CalmKeeps DEF Calm, Busy, UnderLease

\* The receipt is recorded, by a worker that still holds its lease.
LEMMA ReceiptTimed ==
  ASSUME Timed, NEW t \in Threads, UNCHANGED <<reconciler, client>>, Receipt(t)
  PROVE  TimelyInv'
<1>. USE DEF InHandler, OwnOutcomes
<1>1. /\ RuntimeTypeOK /\ eff \in Effects /\ WorkerMove(t)
      /\ pc[t] = "receipt" /\ UNCHANGED world
      /\ step' = step /\ task' = task
      /\ landed' \in Nat /\ landed' >= landed
  BY RecordMove, LandingsAssumption
  DEF LandingsAssumption, Timed, IndInv, TypeOK, Receipt, reconciler, client, world
<1>2. /\ \A u \in Threads \ {t} : pc[u] \notin Busy \cup {"expire"}
      /\ \A r \in Reconcilers : step'[r] = "idle"
      /\ \A p \in People : task'[p] = "idle"
  BY <1>1, BusyAlone DEF Busy, UnderLease
<1>3. Accepts({"started"}, "receipt_recorded", WorkerOf[t])
  BY <1>1, OwnerIsHeard DEF UnderLease
<1>4. /\ eff'.state = "receipt_recorded" /\ eff'.result = "value"
      /\ Goto(t, "commit", 0) \/ Goto(t, "review", 0)
  BY <1>1, <1>3, InRange DEF Receipt, Lost, Transition, Effects
<1>5. /\ pc'[t] \in {"commit", "review"} /\ got'[t] \notin OwnOutcomes
      /\ \A u \in Threads \ {t} : pc'[u] = pc[u] /\ got'[u] = got[u]
  BY <1>1, <1>4, WentOn DEF Steps, NoResult
<1>6. landed' = landed /\ landed' <= 1 /\ ~wire'
  BY <1>1 DEF world, Timed, IndInv, TypeOK, Evidence, TimelyInv, LandsOnce
<1>7. \A u \in Threads \ {t} : pc'[u] \notin Busy \cup {"expire"}
  BY <1>2, <1>5
<1>8. WorksAlone' /\ FindsItsRecord'
  BY <1>4, <1>5, <1>7 DEF WorksAlone, FindsItsRecord, Busy, UnderLease
<1>9. LandsOnce'
  BY <1>4, <1>5, <1>6, <1>7 DEF LandsOnce, Busy, UnderLease
<1>10. FindsItDead' /\ ResolvesWhatItRead'
  BY <1>2, <1>5, <1>7 DEF FindsItDead, ResolvesWhatItRead
<1>11. FirstCallerAgrees'
  BY <1>1, <1>5, CallersAgree DEF WorkerMove
<1>. QED
  BY <1>8, <1>9, <1>10, <1>11 DEF TimelyInv

\* The worker commits the receipt that it recorded, or hands it to a human.
LEMMA CommitTimed ==
  ASSUME Timed, NEW t \in Threads, UNCHANGED <<reconciler, client>>, Review(t) \/ Commit(t)
  PROVE  TimelyInv'
<1>. USE DEF InHandler, OwnOutcomes
<1>1. /\ RuntimeTypeOK /\ eff \in Effects /\ WorkerMove(t)
      /\ pc[t] \in {"review", "commit"} /\ UNCHANGED world
      /\ step' = step /\ task' = task
      /\ landed' \in Nat /\ landed' >= landed
  BY RecordMove, LandingsAssumption
  DEF LandingsAssumption, Timed, IndInv, TypeOK, Review, Commit, reconciler, client, world
<1>2. /\ \A u \in Threads \ {t} : pc[u] \notin Busy \cup {"expire"}
      /\ \A r \in Reconcilers : step'[r] = "idle"
      /\ \A p \in People : task'[p] = "idle"
  BY <1>1, BusyAlone DEF Busy
<1>3. eff.state = "receipt_recorded" /\ eff.result = "value" /\ ~wire
  BY <1>1 DEF Timed, TimelyInv, FindsItsRecord, LandsOnce
<1>4. \A to \in {"human_review", "committed"} : Accepts({"receipt_recorded"}, to, None)
  BY <1>3 DEF Accepts, CanTransition, Transitions
<1>5. \/ Review(t) /\ eff'.state = "human_review"
      \/ Commit(t) /\ eff'.state = "committed" /\ eff'.result = "value"
  BY <1>1, <1>3, <1>4, InRange DEF Review, Commit, Lost, Transition, Effects
<1>6. /\ pc'[t] = "idle"
      /\ got'[t] \in OwnOutcomes => got'[t] = "own_value" /\ eff'.state = "committed"
      /\ \A u \in Threads \ {t} : pc'[u] = pc[u] /\ got'[u] = got[u]
  <2>1. CASE Review(t)
    BY <1>1, <2>1, Answered DEF Review, Answers, Signals
  <2>2. CASE Commit(t) /\ eff'.state = "committed"
    BY <1>1, <2>2, Answered DEF Commit, Answers
  <2>. QED
    BY <1>5, <2>1, <2>2
<1>7. FirstCallerAgrees'
  BY <1>3, <1>5, <1>6 DEF Timed, TimelyInv, FirstCallerAgrees
<1>. QED
  BY <1>1, <1>2, <1>3, <1>5, <1>6, <1>7, CalmKeeps DEF Calm, Busy, UnderLease

\* A follower parks the attempt of an executor whose lease has run out.
LEMMA ExpireTimed ==
  ASSUME Timed, NEW t \in Threads, UNCHANGED <<reconciler, client>>,
         Expire(t) \/ LostLease(t)
  PROVE  TimelyInv'
<1>. USE DEF InHandler, OwnOutcomes
<1>1. /\ RuntimeTypeOK /\ eff \in Effects /\ WorkerMove(t)
      /\ pc[t] \in {"expire", "lost"} /\ UNCHANGED world
      /\ step' = step /\ task' = task
      /\ landed' \in Nat /\ landed' >= landed
  BY RecordMove, LandingsAssumption
  DEF LandingsAssumption, Timed, IndInv, TypeOK, Expire, LostLease, reconciler, client, world
<1>2. /\ pc'[t] = "idle" /\ got'[t] \notin OwnOutcomes
      /\ \A u \in Threads \ {t} : pc'[u] = pc[u] /\ got'[u] = got[u]
  <2>1. \/ Answer(t, "unknown")
        \/ eff.state \in Replayable /\ Answer(t, eff.result)
    BY DEF Expire, LostLease
  <2>2. eff.state \in Replayable => eff.result \in OkResults \cup FailResults
    BY DEF Timed, IndInv, ResultMatchesState, Replayable
  <2>. QED
    BY <1>1, <2>1, <2>2, Answered DEF Answers, Signals, OkResults, FailResults
<1>3. CASE UNCHANGED eff
  BY <1>1, <1>2, <1>3, LookKeeps DEF Busy, UnderLease
<1>4. CASE Expire(t) /\ Transition({"started"}, "unknown", None, eff)
  <2>1. eff.state = "started" /\ eff'.state = "unknown" /\ eff'.age = 0
    BY <1>1, <1>4, InRange DEF Transition, Accepts, Effects
  <2>2. ~LeaseLive
    BY <1>4, <2>1 DEF Expire, Timed, TimelyInv, FindsItDead, StaysDead
  <2>3. \A u \in Threads : pc'[u] \notin Busy
    BY <1>2, <2>1, <2>2 DEF Timed, TimelyInv, FindsItsRecord, Busy, UnderLease
  <2>4. \A r \in Reconcilers : step'[r] \in {"idle", "expired"}
    BY <1>1, <2>1
    DEF Timed, TimelyInv, ResolvesWhatItRead, IndInv, TypeOK, ReconcilerTypeOK, ReconcilerSteps
  <2>5. \A p \in People : task'[p] = "idle"
    BY <1>1, <2>1, NoPersonAtWork
  <2>6. FirstCallerAgrees'
    BY <1>1, <1>2, CallersAgree DEF WorkerMove
  <2>. QED
    BY <1>1, <2>1, <2>3, <2>4, <2>5, <2>6, UnknownKeeps DEF Busy
<1>. QED
  BY <1>3, <1>4 DEF Expire, LostLease, Lost

\* Every step of a thread keeps TimelyInv.
LEMMA WorkerTimed ==
  ASSUME Timed, NEW t \in Threads, Worker(t)
  PROVE  TimelyInv'
<1>1. UNCHANGED <<reconciler, client>>
  BY DEF Worker
<1>. QED
  BY <1>1, AdmissionTimed, StartTimed, HandlerTimed, GiveUpTimed, RearmTimed, ReceiptTimed,
     CommitTimed, ExpireTimed DEF Worker, Proceed

-----------------------------------------------------------------------------
(* The reconciler and the person.                                          *)

\* A step that is no thread's tells no caller anything.
LEMMA ResolverAgrees ==
  ASSUME Timed, ResolverMove, UNCHANGED local
  PROVE  FirstCallerAgrees'
<1>1. landed' = landed /\ landed \in Nat /\ got' = got /\ LedgerMove /\ eff' \in Effects
  BY LandingsAssumption
  DEF LandingsAssumption, ResolverMove, world, local, Timed, IndInv, TypeOK
<1>. QED
  BY <1>1, CallersAgree

\* A record that was left unknown for the grace period is the reconciler's:
\* no thread is at work on it and nothing is on its way any more.
LEMMA GraceIsOver ==
  ASSUME Timed, eff.state = "unknown", eff.age >= Grace
  PROVE  /\ \A t \in Threads : pc[t] \notin Busy \cup {"expire"}
         /\ \A p \in People : task[p] = "idle"
         /\ ~wire
<1>1. eff.age # 0 /\ ~(eff.age < Grace)
  BY TimesAssumption
  DEF TimesAssumption, Timed, TimelyDeployment, IndInv, TypeOK, Effects
<1>2. \A t \in Threads : pc[t] \notin Busy \cup {"expire"}
  BY <1>1 DEF Timed, TimelyInv, FindsItsRecord, FindsItDead, Busy
<1>3. ~wire
  BY <1>1 DEF Timed, TimelyInv, LandsOnce
<1>. QED
  BY <1>2, <1>3, NoPersonAtWork

\* An executor whose lease has run out is not at work any more.
LEMMA DeadIsGone ==
  ASSUME Timed, eff.state = "started", ~LeaseLive
  PROVE  /\ \A t \in Threads : pc[t] \notin Busy
         /\ \A p \in People : task[p] = "idle"
  BY NoPersonAtWork DEF Timed, TimelyInv, FindsItsRecord, Busy

\* What the reconciler is about to do, while the record stays as it is.
LEMMA SweepLooks ==
  ASSUME Timed, UNCHANGED <<eff, world, local, client>>,
         \A r \in Reconcilers : step'[r] \in ReconcilerSteps,
         \A r \in Reconcilers : step'[r] = "expired" => eff.state = "started" /\ ~LeaseLive,
         \A r \in Reconcilers : step'[r] \in {"probe", "happened", "missed", "escalate"} =>
           eff.state = "unknown" /\ eff.age >= Grace,
         \A r \in Reconcilers : step'[r] = "missed" => landed = 0,
         \A r \in Reconcilers : step'[r] # "close"
  PROVE  TimelyInv'
<1>1. /\ eff' = eff /\ landed' = landed /\ wire' = wire /\ pc' = pc /\ got' = got
      /\ task' = task /\ read' = read /\ LeaseLive' = LeaseLive
  BY DEF world, local, client, LeaseLive
<1>2. WorksAlone' /\ FindsItsRecord' /\ LandsOnce' /\ FirstCallerAgrees'
  BY <1>1 DEF Timed, TimelyInv, WorksAlone, FindsItsRecord, LandsOnce, FirstCallerAgrees
<1>3. FindsItDead' /\ ResolvesWhatItRead'
  BY <1>1 DEF Timed, TimelyInv, FindsItDead, StaysDead, ResolvesWhatItRead
<1>. QED
  BY <1>2, <1>3 DEF TimelyInv

\* Every step of the reconciler keeps TimelyInv.
LEMMA SweepTimed ==
  ASSUME Timed, NEW r \in Reconcilers, Sweep(r)
  PROVE  TimelyInv'
<1>1. /\ Reconcile(r) /\ ResolverMove /\ step \in [Reconcilers -> ReconcilerSteps]
      /\ eff \in Effects /\ UNCHANGED <<world, local, client>>
      /\ \A q \in Reconcilers : q = r
  BY ReconcilerMove
  DEF Sweep, SweepMove, ResolverMove, Timed, TimelyDeployment, IndInv, TypeOK, ReconcilerTypeOK
<1>2. pc' = pc /\ task' = task /\ FirstCallerAgrees'
  BY <1>1, ResolverAgrees DEF local, client
<1>3. ASSUME NEW s, NEW n, Then(r, s, n)
      PROVE  \A q \in Reconcilers : step'[q] = s
  BY <1>1, <1>3 DEF Then
<1>4. ASSUME UNCHANGED eff, Done(r)
      PROVE  TimelyInv'
  BY <1>1, <1>3, <1>4, SweepLooks DEF Done, ReconcilerSteps
<1>5. CASE ScanStarted(r)
  BY <1>1, <1>3, <1>5, SweepLooks DEF ScanStarted, Scanned, ReconcilerSteps
<1>6. CASE ScanUnknown(r)
  BY <1>1, <1>3, <1>6, SweepLooks DEF ScanUnknown, Scanned, ReconcilerSteps
<1>7. CASE Probe(r)
  <2>1. eff.state = "unknown" /\ eff.age >= Grace
    BY <1>7 DEF Probe, Timed, TimelyInv, ResolvesWhatItRead
  <2>. QED
    BY <1>1, <1>3, <1>7, <2>1, SweepLooks DEF Probe, ReconcilerSteps
<1>8. CASE ParkExpired(r)
  <2>1. CASE Transition({"started"}, "unknown", None, eff)
    <3>1. eff.state = "started" /\ eff'.state = "unknown" /\ eff'.age = 0
      BY <1>1, <2>1, InRange DEF Transition, Accepts, Effects
    <3>2. ~LeaseLive
      BY <1>8, <3>1 DEF ParkExpired, Timed, TimelyInv, FindsItDead, StaysDead
    <3>3. \A q \in Reconcilers : step'[q] = "idle"
      BY <1>3, <1>8 DEF ParkExpired, Done
    <3>. QED
      BY <1>1, <1>2, <3>1, <3>2, <3>3, DeadIsGone, UnknownKeeps DEF Busy
  <2>. QED
    BY <1>4, <1>8, <2>1 DEF ParkExpired, Lost
<1>9. CASE RecordProbe(r)
  <2>1. eff.state = "unknown" /\ eff.age >= Grace
    BY <1>9 DEF RecordProbe, Timed, TimelyInv, ResolvesWhatItRead
  <2>2. CASE /\ Transition({"unknown"}, "receipt_recorded", None,
                           [eff EXCEPT !.result = "receipt"])
             /\ Then(r, "close", 0)
    <3>1. eff'.state = "receipt_recorded"
      BY <1>1, <2>2, InRange DEF Transition, Effects
    <3>2. /\ \A t \in Threads : pc'[t] \notin Busy \cup {"expire"}
          /\ \A p \in People : task'[p] = "idle"
          /\ ~wire
      BY <1>2, <2>1, GraceIsOver
    <3>3. \A q \in Reconcilers : step'[q] = "close"
      BY <1>3, <2>2
    <3>4. landed' = landed /\ wire' = wire /\ landed <= 1
      BY <1>1 DEF world, Timed, TimelyInv, LandsOnce
    <3>5. WorksAlone' /\ FindsItsRecord'
      BY <3>2 DEF WorksAlone, FindsItsRecord, Busy
    <3>6. LandsOnce'
      BY <3>1, <3>2, <3>4 DEF LandsOnce, Busy, UnderLease, InHandler
    <3>7. FindsItDead' /\ ResolvesWhatItRead'
      BY <3>1, <3>2, <3>3 DEF FindsItDead, ResolvesWhatItRead
    <3>. QED
      BY <1>2, <3>5, <3>6, <3>7 DEF TimelyInv
  <2>. QED
    BY <1>4, <1>9, <2>2 DEF RecordProbe, Lost
<1>10. CASE CloseProbe(r)
  <2>1. CASE Transition({"receipt_recorded"}, "committed", None, eff)
    <3>1. eff.state = "receipt_recorded" /\ eff'.state = "committed"
      BY <1>1, <2>1, InRange DEF Transition, Accepts, Effects
    <3>2. \A t \in Threads : pc'[t] \notin Busy \cup {"expire"}
      BY <1>2, <1>10, <3>1
      DEF CloseProbe, Timed, TimelyInv, ResolvesWhatItRead, FindsItDead, StaysDead
    <3>3. ~wire /\ \A p \in People : task'[p] = "idle"
      BY <1>2, <3>1, NoPersonAtWork DEF Timed, TimelyInv, LandsOnce
    <3>4. \A q \in Reconcilers : step'[q] = "idle"
      BY <1>3, <1>10 DEF CloseProbe, Done
    <3>. QED
      BY <1>1, <1>2, <3>1, <3>2, <3>3, <3>4, CalmKeeps DEF Calm
  <2>. QED
    BY <1>4, <1>10, <2>1 DEF CloseProbe, Lost
<1>11. CASE ResolveMissed(r) \/ Escalate(r)
  <2>1. /\ eff.state = "unknown" /\ eff.age >= Grace
        /\ ResolveMissed(r) => landed = 0
        /\ \A q \in Reconcilers : step'[q] = "idle"
    BY <1>3, <1>11 DEF ResolveMissed, Escalate, Done, Timed, TimelyInv, ResolvesWhatItRead
  <2>2. ASSUME eff'.state \in {"failed", "approved", "human_review"},
               eff'.state \in {"failed", "approved"} => landed = 0
        PROVE  TimelyInv'
    BY <1>1, <1>2, <2>1, <2>2, GraceIsOver, CalmKeeps DEF Calm
  <2>3. CASE \/ Transition({"unknown"}, "failed", None, [eff EXCEPT !.result = "exhausted"])
             \/ Transition({"unknown"}, "approved", None, [eff EXCEPT !.result = NoResult])
    <3>1. eff'.state \in {"failed", "approved"}
      BY <1>1, <2>3, InRange DEF Transition, Effects
    <3>2. ResolveMissed(r)
      BY <1>1, <1>11, <2>1, <2>3, <3>1, InRange DEF Escalate, Lost, Transition, Effects
    <3>. QED
      BY <2>1, <2>2, <3>1, <3>2
  <2>4. CASE Transition({"unknown"}, "human_review", None, eff)
    <3>1. eff'.state = "human_review"
      BY <1>1, <2>4, InRange DEF Transition, Effects
    <3>. QED
      BY <2>2, <3>1
  <2>. QED
    BY <1>4, <1>11, <2>3, <2>4 DEF ResolveMissed, Escalate, Lost
<1>. QED
  BY <1>1, <1>5, <1>6, <1>7, <1>8, <1>9, <1>10, <1>11 DEF Reconcile

\* Every step of the person keeps TimelyInv.
LEMMA PersonTimed ==
  ASSUME Timed, NEW p \in People, Person(p)
  PROVE  TimelyInv'
<1>1. /\ Operate(p) /\ ResolverMove /\ ClientTypeOK
      /\ eff \in Effects /\ UNCHANGED <<world, local, reconciler>>
      /\ \A q \in People : q = p
  BY ClientMove
  DEF Person, PersonMove, ResolverMove, Timed, TimelyDeployment, IndInv, TypeOK
<1>2. pc' = pc /\ step' = step /\ FirstCallerAgrees'
  BY <1>1, ResolverAgrees DEF local, reconciler
<1>3. ASSUME NEW x, NEW y, Take(p, x, y)
      PROVE  \A q \in People : task'[q] = x /\ read'[q] = y
  BY <1>1, <1>3 DEF Take, ClientTypeOK
<1>4. ASSUME eff.state \in Calm, eff'.state \in Calm, \A q \in People : task'[q] = "idle",
             eff'.state \in {"approved", "failed"} => landed = 0
      PROVE  TimelyInv'
  BY <1>1, <1>2, <1>4, NobodyAtWork, CalmKeeps
<1>5. CASE Approve(p) \/ Deny(p)
  <2>1. eff.state = "requires_approval" /\ eff'.state \in {"approved", "denied"}
    BY <1>1, <1>5, InRange
    DEF Approve, Deny, Transition, Accepts, Effects, Timed, TimelyDeployment
  <2>2. landed = 0
    BY <2>1 DEF Timed, IndInv, NothingBeforeApproval
  <2>3. \A q \in People : task'[q] = "idle"
    BY <1>1, <1>5 DEF Approve, Deny, client
  <2>. QED
    BY <1>4, <2>1, <2>2, <2>3 DEF Calm
<1>6. CASE ReadHappened(p) \/ ReadNotHappened(p)
  <2>1. eff.state = "human_review" /\ eff' = eff
    BY <1>6 DEF ReadHappened, ReadNotHappened, Timed, TimelyDeployment
  <2>2. \A q \in People : /\ task'[q] \in {"happened", "not_happened"}
                          /\ task'[q] = "not_happened" => landed = 0
                          /\ read'[q].state = "human_review"
    BY <1>3, <1>6, <2>1 DEF ReadHappened, ReadNotHappened
  <2>3. landed' = landed /\ wire' = wire /\ got' = got /\ LeaseLive' = LeaseLive
    BY <1>1, <2>1 DEF world, local, LeaseLive
  <2>4. WorksAlone' /\ FindsItsRecord' /\ LandsOnce' /\ FindsItDead'
    BY <1>2, <2>1, <2>3
    DEF Timed, TimelyInv, WorksAlone, FindsItsRecord, LandsOnce, FindsItDead, StaysDead
  <2>5. ResolvesWhatItRead'
    BY <1>2, <2>1, <2>2, <2>3 DEF Timed, TimelyInv, ResolvesWhatItRead
  <2>. QED
    BY <1>2, <2>4, <2>5 DEF TimelyInv
<1>7. CASE RecordHappened(p)
  <2>1. eff.state = "human_review" /\ read[p].state = "human_review"
    BY <1>7 DEF RecordHappened, Timed, TimelyInv, ResolvesWhatItRead
  <2>2. \A q \in People : task'[q] = "idle"
    BY <1>3, <1>7, <2>1 DEF RecordHappened, Finish
  <2>3. eff'.state \in {"committed", "human_review"}
    BY <1>1, <1>7, <2>1, InRange DEF RecordHappened, Lost, Transition, Effects
  <2>. QED
    BY <1>4, <2>1, <2>2, <2>3 DEF Calm
<1>8. CASE CloseHappened(p)
  BY <1>8 DEF CloseHappened, Timed, TimelyInv, ResolvesWhatItRead
<1>9. CASE ApplyNotHappened(p)
  <2>1. eff.state = "human_review" /\ landed = 0
    BY <1>9 DEF ApplyNotHappened, Timed, TimelyInv, ResolvesWhatItRead
  <2>2. \A q \in People : task'[q] = "idle"
    BY <1>3, <1>9 DEF ApplyNotHappened, Finish
  <2>3. eff'.state \in {"failed", "approved", "human_review"}
    BY <1>1, <1>9, <2>1, InRange DEF ApplyNotHappened, Lost, Transition, Effects
  <2>. QED
    BY <1>4, <2>1, <2>2, <2>3 DEF Calm
<1>. QED
  BY <1>1, <1>5, <1>6, <1>7, <1>8, <1>9 DEF Operate

-----------------------------------------------------------------------------
(* The clock, the requests on their way and the deaths.                    *)

\* Time passes only while handlers are within their leases and requests on
\* their way within the grace period.
LEMMA TickTimed ==
  ASSUME Timed, Tick
  PROVE  TimelyInv'
<1>1. /\ landed' = landed /\ wire' = wire /\ pc' = pc /\ got' = got /\ step' = step
      /\ task' = task /\ read' = read
  BY DEF Tick, world, local, reconciler, client
<1>2. /\ eff \in Effects /\ eff.lease \in Nat /\ eff.age \in Nat /\ eff.age <= Grace
      /\ Grace \in Nat
  BY TimesAssumption DEF TimesAssumption, Timed, IndInv, TypeOK, Effects
<1>3. InTime
  BY DEF Tick, Timed, TimelyDeployment
<1>4. /\ eff'.state = eff.state /\ eff'.result = eff.result /\ eff'.owner = eff.owner
      /\ eff'.lease = (IF eff.lease > 0 THEN eff.lease - 1 ELSE 0)
      /\ eff'.age = (IF eff.state \in Reconcilable /\ eff.age < Grace
                       THEN eff.age + 1 ELSE eff.age)
  BY <1>2 DEF Tick, StoreTick, Effects
<1>5. /\ ~LeaseLive => ~LeaseLive'
      /\ eff.lease > 1 => LeaseLive'
      /\ eff.age >= Grace => eff'.age >= Grace
      /\ eff.state = "unknown" /\ eff.age + 1 < Grace => eff'.age < Grace
  BY <1>2, <1>4 DEF LeaseLive
<1>6. \A t \in Threads : pc[t] \in InHandler \cup {"idle", "wait"}
  BY <1>3 DEF InTime
<1>7. WorksAlone' /\ FirstCallerAgrees'
  BY <1>1, <1>4 DEF Timed, TimelyInv, WorksAlone, FirstCallerAgrees
<1>8. FindsItsRecord'
  BY <1>1, <1>3, <1>4, <1>5, <1>6
  DEF InTime, Timed, TimelyInv, FindsItsRecord, UnderLease, InHandler
<1>9. LandsOnce'
  BY <1>1, <1>3, <1>4, <1>5 DEF InTime, Timed, TimelyInv, LandsOnce
<1>10. FindsItDead'
  BY <1>1, <1>4, <1>5, <1>6 DEF InHandler, Timed, TimelyInv, FindsItDead, StaysDead
<1>11. ResolvesWhatItRead'
  BY <1>1, <1>4, <1>5 DEF Timed, TimelyInv, ResolvesWhatItRead
<1>. QED
  BY <1>7, <1>8, <1>9, <1>10, <1>11 DEF TimelyInv

\* A request that arrives late finds that nothing has landed, and nobody who
\* takes it that nothing will.
LEMMA StraggleTimed ==
  ASSUME Timed, Straggle
  PROVE  TimelyInv'
<1>1. /\ eff' = eff /\ pc' = pc /\ got' = got /\ step' = step /\ task' = task
      /\ read' = read /\ LeaseLive' = LeaseLive /\ ~wire'
  BY DEF Straggle, LateLanding, local, reconciler, client, LeaseLive
<1>2. /\ eff.state = "started" \/ (eff.state = "unknown" /\ eff.age < Grace)
      /\ \A t \in Threads : pc[t] \notin {"calling", "retry", "rearm", "fail"}
      /\ landed = 0
  BY DEF Straggle, LateLanding, Timed, TimelyInv, LandsOnce
<1>3. landed' = 1
  BY <1>2, LandingsAssumption DEF Straggle, LateLanding, Happens, LandingsAssumption
<1>4. WorksAlone' /\ FindsItsRecord' /\ FindsItDead' /\ FirstCallerAgrees'
  BY <1>1
  DEF Timed, TimelyInv, WorksAlone, FindsItsRecord, FindsItDead, StaysDead, FirstCallerAgrees
<1>5. LandsOnce'
  BY <1>1, <1>2, <1>3 DEF LandsOnce
<1>6. ResolvesWhatItRead'
  <2>1. \A r \in Reconcilers : step[r] # "missed"
    BY <1>2, TimesAssumption
    DEF TimesAssumption, Timed, TimelyInv, ResolvesWhatItRead, IndInv, TypeOK, Effects
  <2>2. \A p \in People : task[p] = "idle"
    BY <1>2, NoPersonAtWork
  <2>. QED
    BY <1>1, <2>1, <2>2 DEF Timed, TimelyInv, ResolvesWhatItRead
<1>. QED
  BY <1>4, <1>5, <1>6 DEF TimelyInv

\* A worker that dies leaves its record started, and perhaps a request on its
\* way; nobody else is at work on it.
LEMMA CrashTimed ==
  ASSUME Timed, NEW w \in Workers, Crash(w), UNCHANGED <<reconciler, client>>
  PROVE  TimelyInv'
<1>1. /\ eff' = eff /\ landed' = landed /\ step' = step /\ task' = task /\ read' = read
      /\ LeaseLive' = LeaseLive
  <2>1. eff' = eff /\ landed' = landed
    BY DEF Crash, MaybeSent, world
  <2>. QED
    BY <2>1 DEF reconciler, client, LeaseLive
<1>2. \A t \in Threads : \/ pc'[t] = pc[t] /\ got'[t] = got[t] /\ WorkerOf[t] # w
                         \/ pc'[t] = "idle" /\ got'[t] = NoResult /\ WorkerOf[t] = w
  <2>. DEFINE dead == {u \in Threads : WorkerOf[u] = w}
  <2>1. \A t \in Threads : /\ pc'[t] = IF t \in dead THEN "idle" ELSE pc[t]
                           /\ got'[t] = IF t \in dead THEN NoResult ELSE got[t]
    BY DEF Crash
  <2>. QED
    BY <2>1
<1>3. \/ wire' = wire
      \/ \E t \in Threads : pc[t] = "calling" /\ WorkerOf[t] = w
  BY DEF Crash, world
<1>4. WorksAlone' /\ FindsItsRecord' /\ FindsItDead' /\ FirstCallerAgrees'
  <2>1. WorksAlone'
    BY <1>2 DEF Timed, TimelyInv, WorksAlone, Busy, UnderLease, InHandler
  <2>2. FindsItsRecord'
    BY <1>1, <1>2 DEF Timed, TimelyInv, FindsItsRecord, UnderLease, InHandler
  <2>3. FindsItDead'
    BY <1>1, <1>2 DEF Timed, TimelyInv, FindsItDead, StaysDead
  <2>4. FirstCallerAgrees'
    BY <1>1, <1>2 DEF Timed, TimelyInv, FirstCallerAgrees, NoResult
  <2>. QED
    BY <2>1, <2>2, <2>3, <2>4
<1>5. LandsOnce'
  <2>1. CASE wire' = wire
    BY <1>1, <1>2, <2>1 DEF Timed, TimelyInv, LandsOnce
  <2>2. ASSUME NEW t \in Threads, pc[t] = "calling", WorkerOf[t] = w
        PROVE  LandsOnce'
    <3>1. eff.state = "started" /\ landed = 0
      BY <2>2 DEF Timed, TimelyInv, FindsItsRecord, LandsOnce, UnderLease, InHandler
    <3>2. \A u \in Threads : pc'[u] \notin Busy
      BY <1>2, <2>2, BusyAlone DEF Busy, UnderLease, InHandler
    <3>. QED
      BY <1>1, <3>1, <3>2 DEF LandsOnce, Busy, UnderLease, InHandler
  <2>. QED
    BY <1>3, <2>1, <2>2
<1>6. ResolvesWhatItRead'
  BY <1>1, <1>2 DEF Timed, TimelyInv, ResolvesWhatItRead, Busy, UnderLease, InHandler
<1>. QED
  BY <1>4, <1>5, <1>6 DEF TimelyInv

\* Whoever dies leaves the others what TimelyInv says of them.
LEMMA DeathTimed ==
  ASSUME Timed, Death
  PROVE  TimelyInv'
<1>1. ASSUME NEW w \in Workers, Crash(w), UNCHANGED <<reconciler, client>>
      PROVE  TimelyInv'
  BY <1>1, CrashTimed
<1>2. ASSUME UNCHANGED <<eff, world, local>>,
             \A r \in Reconcilers : step'[r] = step[r] \/ step'[r] = "idle",
             \A p \in People : \/ task'[p] = task[p] /\ read'[p] = read[p]
                               \/ task'[p] = "idle"
      PROVE  TimelyInv'
  <2>1. /\ eff' = eff /\ landed' = landed /\ wire' = wire /\ pc' = pc /\ got' = got
        /\ LeaseLive' = LeaseLive
    BY <1>2 DEF world, local, LeaseLive
  <2>2. WorksAlone' /\ FindsItsRecord' /\ LandsOnce' /\ FirstCallerAgrees'
    BY <2>1 DEF Timed, TimelyInv, WorksAlone, FindsItsRecord, LandsOnce, FirstCallerAgrees
  <2>3. FindsItDead'
    BY <1>2, <2>1 DEF Timed, TimelyInv, FindsItDead, StaysDead
  <2>4. ResolvesWhatItRead'
    BY <1>2, <2>1 DEF Timed, TimelyInv, ResolvesWhatItRead
  <2>. QED
    BY <2>2, <2>3, <2>4 DEF TimelyInv
<1>3. ASSUME NEW r \in Reconcilers, ReconcilerDies(r), UNCHANGED <<local, client>>
      PROVE  TimelyInv'
  <2>1. \A q \in Reconcilers : step'[q] = step[q] \/ step'[q] = "idle"
    BY <1>3 DEF ReconcilerDies, Done, Then, Timed, IndInv, TypeOK, ReconcilerTypeOK
  <2>. QED
    BY <1>2, <1>3, <2>1 DEF ReconcilerDies, client
<1>4. ASSUME NEW p \in People, Abandon(p), UNCHANGED <<local, reconciler>>
      PROVE  TimelyInv'
  <2>1. \A q \in People : \/ task'[q] = task[q] /\ read'[q] = read[q]
                          \/ task'[q] = "idle"
    BY <1>4 DEF Abandon, Finish, Take, Timed, IndInv, TypeOK, ClientTypeOK
  <2>. QED
    BY <1>2, <1>4, <2>1 DEF Abandon, reconciler
<1>. QED
  BY <1>1, <1>3, <1>4 DEF Death

-----------------------------------------------------------------------------
(* The invariant is inductive in such a deployment.                        *)

\* TimelyInv holds when the ledger is empty and nobody has called.
LEMMA InitTimed == Init => TimelyInv
<1>. SUFFICES ASSUME Init PROVE TimelyInv
  OBVIOUS
<1>. USE DEF Init, StoreInit, WorldInit, RuntimeInit, ReconcilerInit, ClientInit
<1>1. eff.state = "absent"
  BY DEF Absent
<1>2. WorksAlone /\ FindsItsRecord /\ LandsOnce
  BY <1>1 DEF WorksAlone, FindsItsRecord, LandsOnce, Busy, UnderLease, InHandler
<1>3. FindsItDead /\ ResolvesWhatItRead /\ FirstCallerAgrees
  BY DEF FindsItDead, ResolvesWhatItRead, FirstCallerAgrees, NoResult
<1>. QED
  BY <1>2, <1>3 DEF TimelyInv

\* Every step keeps TimelyInv where IndInv holds.
LEMMA NextTimed == Timed /\ [Next]_vars => TimelyInv'
<1>. SUFFICES ASSUME Timed, [Next]_vars PROVE TimelyInv'
  OBVIOUS
<1>1. CASE UNCHANGED vars
  <2>1. /\ eff' = eff /\ landed' = landed /\ wire' = wire /\ pc' = pc /\ got' = got
        /\ step' = step /\ task' = task /\ read' = read /\ LeaseLive' = LeaseLive
    BY <1>1 DEF vars, world, local, reconciler, client, LeaseLive
  <2>2. WorksAlone' /\ FindsItsRecord' /\ LandsOnce' /\ FirstCallerAgrees'
    BY <2>1 DEF Timed, TimelyInv, WorksAlone, FindsItsRecord, LandsOnce, FirstCallerAgrees
  <2>3. FindsItDead' /\ ResolvesWhatItRead'
    BY <2>1 DEF Timed, TimelyInv, FindsItDead, StaysDead, ResolvesWhatItRead
  <2>. QED
    BY <2>2, <2>3 DEF TimelyInv
<1>. QED
  BY <1>1, TickTimed, StraggleTimed, WorkerTimed, SweepTimed, PersonTimed, DeathTimed DEF Next

\* In a deployment that keeps its times, who is at work on the record finds it
\* as it left it and has it to itself, in every reachable state.
THEOREM TimelyInvariance == TimelyDeployment => (Spec => []TimelyInv)
<1>. SUFFICES ASSUME TimelyDeployment PROVE Spec => []TimelyInv
  OBVIOUS
<1>1. Init => IndInv /\ TimelyInv
  BY InitKeeps, InitTimed
<1>2. (IndInv /\ TimelyInv) /\ [Next]_vars => (IndInv /\ TimelyInv)'
  BY NextKeeps, NextTimed DEF Timed
<1>. QED
  BY <1>1, <1>2, PTL DEF Spec

-----------------------------------------------------------------------------
(* Safety of such a deployment.                                            *)

\* The side effect takes place at most once.
THEOREM LandsAtMostOnce == TimelyDeployment => (Spec => []AtMostOnce)
<1>. SUFFICES ASSUME TimelyDeployment PROVE Spec => []AtMostOnce
  OBVIOUS
<1>1. TimelyInv => AtMostOnce
  BY DEF TimelyInv, LandsOnce, AtMostOnce
<1>. QED
  BY <1>1, TimelyInvariance, PTL

\* An effect that is settled as failed did not happen, and is not going to.
THEOREM FailuresDidNotHappen == TimelyDeployment => (Spec => []FailedDidNotHappen)
<1>. SUFFICES ASSUME TimelyDeployment PROVE Spec => []FailedDidNotHappen
  OBVIOUS
<1>1. TimelyInv => FailedDidNotHappen
  BY DEF TimelyInv, LandsOnce, FailedDidNotHappen
<1>. QED
  BY <1>1, TimelyInvariance, PTL

\* Two handlers never run at the same time.
THEOREM HandlersRunAlone == TimelyDeployment => (Spec => []OneHandler)
<1>. SUFFICES ASSUME TimelyDeployment PROVE Spec => []OneHandler
  OBVIOUS
<1>1. TimelyInv => OneHandler
  BY DEF TimelyInv, WorksAlone, OneHandler, Busy, UnderLease
<1>. QED
  BY <1>1, TimelyInvariance, PTL

\* The worker that ran the handler tells its caller, without a look at the
\* ledger, what every replay will tell.
THEOREM FirstCallerIsTold == TimelyDeployment => (Spec => []FirstCallerAgrees)
<1>. SUFFICES ASSUME TimelyDeployment PROVE Spec => []FirstCallerAgrees
  OBVIOUS
<1>1. TimelyInv => FirstCallerAgrees
  BY DEF TimelyInv
<1>. QED
  BY <1>1, TimelyInvariance, PTL

\* An effect whose outcome was open is armed again only when it has not
\* happened and is not going to.
THEOREM RearmedOnEvidence == TimelyDeployment => (Spec => NeverBlindlyRearmed)
<1>. SUFFICES ASSUME TimelyDeployment PROVE Spec => NeverBlindlyRearmed
  OBVIOUS
<1>. DEFINE Rearmed == eff.state \in {"unknown", "human_review"} /\ eff'.state = "approved"
                         => landed = 0 /\ ~wire
<1>1. IndInv /\ TimelyInv /\ TimelyInv' /\ [Next]_vars => Rearmed
  <2>. SUFFICES ASSUME IndInv, TimelyInv', [Next]_vars,
                       eff.state \in {"unknown", "human_review"}, eff'.state = "approved"
                PROVE  landed = 0 /\ ~wire
    OBVIOUS
  <2>1. landed' = landed /\ wire' = wire
    BY StepMoves DEF WorldMove, SameEffect
  <2>2. landed' = 0 /\ ~wire'
    BY DEF TimelyInv, LandsOnce
  <2>. QED
    BY <2>1, <2>2
<1>. QED
  BY <1>1, Invariance, TimelyInvariance, PTL DEF Spec, NeverBlindlyRearmed

\* A handler's retry arms no attempt but its own, and nothing came of that.
THEOREM RetriesOwnAttempt == TimelyDeployment => (Spec => RetryArmsOwnAttempt)
<1>. SUFFICES ASSUME TimelyDeployment PROVE Spec => RetryArmsOwnAttempt
  OBVIOUS
<1>. DEFINE Armed == \A t \in Threads : pc[t] = "rearm" /\ pc'[t] = "start" => landed = 0
<1>1. TimelyInv => Armed
  BY DEF TimelyInv, LandsOnce
<1>. QED
  BY <1>1, TimelyInvariance, PTL DEF RetryArmsOwnAttempt

\* While its lease is live nobody but the executor moves a started effect.
THEOREM LeaseIsKept == TimelyDeployment => (Spec => LiveLeaseKept)
<1>. SUFFICES ASSUME TimelyDeployment PROVE Spec => LiveLeaseKept
  OBVIOUS
<1>. DEFINE Kept == eff.state = "started" /\ LeaseLive /\ eff'.state # "started"
                      => \E t \in Threads : WorkerOf[t] = eff.owner /\ pc'[t] # pc[t]
<1>1. IndInv /\ TimelyInv /\ [Next]_vars => Kept
  <2>. SUFFICES ASSUME Timed, [Next]_vars,
                       eff.state = "started", LeaseLive, eff'.state # "started"
                PROVE  \E t \in Threads : WorkerOf[t] = eff.owner /\ pc'[t] # pc[t]
    BY DEF Timed
  <2>1. /\ eff \in Effects /\ RuntimeTypeOK
        /\ \A r \in Reconcilers : step[r] = "idle"
        /\ \A p \in People : task[p] = "idle"
        /\ \A t \in Threads : pc[t] # "expire"
    BY NoPersonAtWork DEF Timed, TimelyInv, FindsItDead, StaysDead, ResolvesWhatItRead,
                          IndInv, TypeOK, ReconcilerTypeOK, ReconcilerSteps
  <2>2. ASSUME NEW t \in Threads, Worker(t)
        PROVE  pc[t] \in UnderLease /\ pc'[t] # pc[t]
    <3>1. CASE Park(t) \/ Retry(t) \/ Fail(t) \/ Receipt(t)
      BY <2>1, <3>1
      DEF Park, Retry, Fail, Receipt, UnderLease, Answer, Goto, RuntimeTypeOK
    <3>2. CASE \/ Call(t) \/ Reread(t) \/ GiveUp(t) \/ LostLease(t)
               \/ Land(t) \/ HandlerEnds(t)
      <4>1. UNCHANGED eff
        BY <3>2 DEF Call, Reread, GiveUp, LostLease, Land, HandlerEnds, HandlerReturns,
                    HandlerRefuses, HandlerLosesTrack
      <4>. QED
        BY <4>1
    <3>3. CASE Admit(t) \/ Gate(t) \/ Start(t) \/ Rearm(t) \/ Review(t) \/ Commit(t)
      BY <3>3
      DEF Admit, Gate, Start, Rearm, Review, Commit, Create, Lost, Transition, Accepts
    <3>4. CASE Expire(t)
      BY <2>1, <3>4 DEF Expire
    <3>. QED
      BY <2>2, <3>1, <3>2, <3>3, <3>4 DEF Worker, Proceed
  <2>3. ASSUME NEW r \in Reconcilers, Sweep(r)
        PROVE  FALSE
    BY <2>1, <2>3
    DEF Sweep, Reconcile, ScanStarted, ScanUnknown, ParkExpired, Probe, RecordProbe,
        CloseProbe, ResolveMissed, Escalate
  <2>4. ASSUME NEW p \in People, Person(p)
        PROVE  FALSE
    BY <2>1, <2>4
    DEF Person, Operate, Approve, Deny, ReadHappened, RecordHappened, CloseHappened,
        ReadNotHappened, ApplyNotHappened, Transition, Accepts
  <2>5. ~Tick /\ ~Straggle /\ ~Death /\ eff' # eff
    BY <2>1, Ticked
    DEF Tick, Straggle, Death, Crash, ReconcilerDies, Abandon
  <2>6. \E t \in Threads : Worker(t)
    BY <2>3, <2>4, <2>5 DEF Next, vars
  <2>. QED
    BY <2>2, <2>6 DEF Timed, TimelyInv, FindsItsRecord
<1>. QED
  BY <1>1, Invariance, TimelyInvariance, PTL DEF Spec, LiveLeaseKept

-----------------------------------------------------------------------------
(* Such a deployment implements OnceEffect.                                *)

\* The initial state is one of the promise.
LEMMA InitOnce == Init => Once!DurableInit
<1>. SUFFICES ASSUME Init PROVE Once!DurableInit
  OBVIOUS
<1>1. eff.state = "absent" /\ landed = 0
  BY DEF Init, StoreInit, WorldInit, Absent
<1>2. Phase = "unasked" /\ Outcome = NoResult
  BY <1>1, Phases DEF Outcome, Replayable
<1>3. Learned = [c \in Threads |-> NoResult]
  BY DEF Init, RuntimeInit, Learned, Told, NoResult, OkResults, FailResults
<1>. QED
  BY <1>1, <1>2, <1>3 DEF Once!DurableInit

\* Whatever callers were told after a step, by replay or at first hand, is the
\* outcome.
LEMMA LearnedIsSettled ==
  ASSUME IndInv', TimelyInv', NEW t \in Threads
  PROVE  Learned'[t] \in {NoResult, Outcome'}
<1>1. got'[t] \in OkResults \cup FailResults => Outcome' = got'[t]
  BY DEF IndInv, ToldIsSettled, Outcome
<1>2. /\ got'[t] = "own_value" => Outcome' = "value"
      /\ got'[t] = "own_error" => Outcome' = "error"
  BY DEF TimelyInv, FirstCallerAgrees, Outcome, Replayable
<1>. QED
  BY <1>1, <1>2 DEF Learned, Told

\* A move of the record and of the world, as the promise has it.
LEMMA MovesOnce ==
  ASSUME IndInv, TimelyInv, TimelyInv', LedgerMove, WorldMove, Once!Learn
  PROVE  Once!OnceNext
<1>. USE DEF Replayable, Held, NoResult
<1>. USE DEF Once!OnceNext, Once!Ask, Once!TakePlaceOnce, Once!SettleHappened,
             Once!SettleNotHappened, Once!SettleFailed, Once!Refuse
<1>1. CASE SameEffect
  <2>1. Phase' = Phase /\ Outcome' = Outcome
    BY <1>1 DEF SameEffect, Phase, Outcome
  <2>2. CASE landed' # landed
    <3>1. landed = 0 /\ landed' = 1
      BY <2>2, LandingsAssumption
      DEF LandingsAssumption, WorldMove, IndInv, TypeOK, TimelyInv, LandsOnce
    <3>2. eff.state \notin {"absent", "denied", "committed", "failed"}
      BY <1>1, <2>2, <3>1
      DEF WorldMove, SameEffect, IndInv, Evidence, TimelyInv, LandsOnce
    <3>3. Phase = "undecided"
      BY <3>2 DEF Phase
    <3>. QED
      BY <2>1, <3>1, <3>3
  <2>. QED
    BY <2>1, <2>2
<1>2. CASE ~SameEffect
  <2>1. landed' = landed
    BY <1>2 DEF WorldMove
  <2>2. CASE eff.state = "absent" /\ eff'.state = "planned"
    <3>1. Phase = "unasked" /\ Phase' = "undecided" /\ Outcome = NoResult /\ Outcome' = NoResult
      BY <2>2 DEF Phase, Outcome
    <3>. QED
      BY <2>1, <3>1
  <2>3. CASE eff.state \in {"planned", "requires_approval"} /\ eff'.state = "denied"
    <3>1. Phase = "undecided" /\ Phase' = "refused" /\ Outcome = NoResult /\ Outcome' = NoResult
      BY <2>3 DEF Phase, Outcome
    <3>2. landed = 0
      BY <2>3 DEF IndInv, NothingBeforeApproval
    <3>. QED
      BY <2>1, <3>1, <3>2
  <2>4. CASE /\ eff.state \in {"receipt_recorded", "human_review"} /\ eff'.state = "committed"
             /\ landed > 0 /\ eff'.result \in OkResults
    <3>1. Phase = "undecided" /\ Phase' = "happened" /\ Outcome' \in OkResults
      BY <2>4 DEF Phase, Outcome
    <3>. QED
      BY <2>1, <2>4, <3>1
  <2>5. CASE /\ eff.state \in {"started", "unknown", "human_review"} /\ eff'.state = "failed"
             /\ eff'.result \in FailResults
    <3>1. Phase = "undecided" /\ Phase' = "failed" /\ Outcome' \in FailResults
      BY <2>5 DEF Phase, Outcome
    <3>2. landed = 0
      BY <2>1, <2>5 DEF TimelyInv, LandsOnce
    <3>. QED
      BY <2>1, <3>1, <3>2
  <2>6. CASE /\ eff.state \notin {"absent", "committed", "failed", "denied"}
             /\ eff'.state \notin {"absent", "committed", "failed", "denied"}
    <3>1. Phase' = Phase /\ Outcome' = Outcome
      BY <2>6 DEF Phase, Outcome
    <3>. QED
      BY <2>1, <3>1
  <2>. QED
    BY <1>2, <2>2, <2>3, <2>4, <2>5, <2>6 DEF LedgerMove, Moves
<1>. QED
  BY <1>1, <1>2

\* In a deployment that keeps its times OpenOnce implements OnceEffect: the
\* side effect takes place once, before the effect is settled and never after,
\* a failure never took place, and all callers learn the same outcome.
THEOREM OnceIsKept == TimelyDeployment => (Spec => KeepsOnce)
<1>. SUFFICES ASSUME TimelyDeployment PROVE Spec => KeepsOnce
  OBVIOUS
<1>1. Init => Once!DurableInit
  BY InitOnce
<1>2. (IndInv /\ TimelyInv) /\ (IndInv /\ TimelyInv)' /\ [Next]_vars
        => [Once!OnceNext]_(Once!abstract)
  <2>. SUFFICES ASSUME IndInv, TimelyInv, IndInv', TimelyInv', [Next]_vars
                PROVE  Once!OnceNext
    OBVIOUS
  <2>1. \A t \in Threads : Learned'[t] \in {NoResult, Outcome'}
    BY LearnedIsSettled
  <2>2. Once!Learn
    BY <2>1 DEF Once!Learn
  <2>. QED
    BY <2>2, StepMoves, MovesOnce
<1>. QED
  BY <1>1, <1>2, Invariance, TimelyInvariance, PTL DEF Spec, KeepsOnce, Once!OnceSpec
=============================================================================
