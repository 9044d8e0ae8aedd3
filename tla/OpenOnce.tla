------------------------------ MODULE OpenOnce ------------------------------
(***************************************************************************)
(* The whole system on one idempotency key: the threads that call execute, *)
(* the reconcilers, the people, the provider and the clock, sharing the    *)
(* ledger's record; and the properties of their composition.               *)
(***************************************************************************)
EXTENDS Runtime, Reconciler, Client

CONSTANTS
  Timely,       \* do workers and requests keep to the times configured
  MaxDeaths     \* bound on process deaths

ASSUME OpenOnceAssumption == Timely \in BOOLEAN /\ MaxDeaths \in Nat

VARIABLE deaths

vars == <<eff, world, local, reconciler, client, deaths>>

\* What LeaseSeconds and Grace are chosen for: a worker does not sit a tick
\* between two of its ledger operations, a handler ends before its lease
\* does, and an abandoned request arrives within the grace of the parked
\* record.
InTime ==
  /\ \A t \in Threads : pc[t] \in InHandler \cup {"idle", "wait"}
  /\ \A t \in Threads : pc[t] \in InHandler => eff.lease > 1
  /\ wire /\ eff.state = "unknown" => eff.age + 1 < Grace

Tick ==
  /\ Timely => InTime
  /\ StoreTick
  /\ UNCHANGED <<world, local, reconciler, client, deaths>>

\* A request that nobody waits for arrives at the provider.
Straggle ==
  /\ LateLanding
  /\ UNCHANGED <<eff, local, reconciler, client, deaths>>

Worker(t) ==
  /\ Call(t) \/ Proceed(t) \/ Land(t)
  /\ UNCHANGED <<reconciler, client, deaths>>

Sweep(r) ==
  /\ Reconcile(r)
  /\ UNCHANGED <<local, client, deaths>>

Person(p) ==
  /\ Operate(p)
  /\ UNCHANGED <<local, reconciler, deaths>>

Death ==
  /\ deaths < MaxDeaths
  /\ deaths' = deaths + 1
  /\ \/ \E w \in Workers : Crash(w) /\ UNCHANGED <<reconciler, client>>
     \/ \E r \in Reconcilers : ReconcilerDies(r) /\ UNCHANGED <<local, client>>
     \/ \E p \in People : Abandon(p) /\ UNCHANGED <<local, reconciler>>

Init ==
  /\ StoreInit /\ WorldInit /\ RuntimeInit /\ ReconcilerInit /\ ClientInit
  /\ deaths = 0

Next ==
  \/ Tick
  \/ Straggle
  \/ \E t \in Threads : Worker(t)
  \/ \E r \in Reconcilers : Sweep(r)
  \/ \E p \in People : Person(p)
  \/ Death

Spec == Init /\ [][Next]_vars

\* Time passes; a thread that is scheduled goes on with its call, its handler
\* ends and its wait times out; a reconciler keeps looping (`--watch`).
\* Nobody has to call, to land, to act as a person or to die.
Fairness ==
  /\ WF_vars(Tick)
  /\ \A t \in Threads : WF_vars(Proceed(t) /\ UNCHANGED <<reconciler, client, deaths>>)
  /\ \A t \in Threads : WF_vars(GiveUp(t) /\ UNCHANGED <<reconciler, client, deaths>>)
  /\ \A r \in Reconcilers : WF_vars(Sweep(r))

FairSpec == Spec /\ Fairness

\* ... and the callers ask again, as an agent that resumes does.
RetryingSpec ==
  /\ FairSpec
  /\ \A t \in Threads : WF_vars(Call(t) /\ UNCHANGED <<reconciler, client, deaths>>)

-----------------------------------------------------------------------------
(* Properties that hold whatever the timing.                               *)

\* Every variable holds a value of its kind.
TypeOK ==
  /\ eff \in Effects
  /\ landed \in 0..MaxLandings
  /\ wire \in BOOLEAN
  /\ RuntimeTypeOK
  /\ ReconcilerTypeOK
  /\ ClientTypeOK
  /\ deaths \in 0..MaxDeaths

\* The thread at the policy gate is the only one there and the record is
\* still planned, so that its move cannot be lost: the assertion in _gate.
SingleAdmitter ==
  \A t \in Threads : pc[t] = "gate" =>
    /\ eff.state = "planned"
    /\ \A u \in Threads : pc[u] = "gate" => u = t

\* A replayable record carries the result of its state, which _replay asserts:
\* a committed effect an ok one, a failed effect a failure.
ResultMatchesState ==
  /\ eff.state \in {"receipt_recorded", "committed"} => eff.result \in OkResults
  /\ eff.state = "failed" => eff.result \in FailResults

\* An effect that nobody has let through, or that was denied, has not begun:
\* no handler runs, nothing landed and nothing is on its way.
NothingBeforeApproval ==
  eff.state \in {"absent", "planned", "requires_approval", "denied"} =>
    /\ landed = 0 /\ ~wire
    /\ \A t \in Threads : pc[t] \notin InHandler

\* A caller is given an outcome only for the arguments that were recorded:
\* whoever brings others gets a mismatch, also when it raced the admission.
ServedOwnArguments ==
  \A t \in Threads :
    got[t] \in OkResults \cup FailResults \cup OwnOutcomes => eff.args = ArgsOf[t]

\* Evidence comes before every claim that the effect happened: in the ledger,
\* and in the hands of the thread, reconciler or person about to record it.
Evidence ==
  /\ eff.state \in {"receipt_recorded", "committed"} => landed > 0
  /\ \A t \in Threads : pc[t] \in {"landed", "receipt"} => landed > 0
  /\ \A r \in Reconcilers : step[r] = "happened" => landed > 0
  /\ \A p \in People : task[p] = "happened" => landed > 0

\* A replayed outcome is the settled one, however long ago it was told.
ToldIsSettled ==
  \A t \in Threads : got[t] \in OkResults \cup FailResults =>
    eff.state \in Replayable /\ eff.result = got[t]

\* A thread past admission works on a record of its own arguments.
WorksOnOwnArguments ==
  /\ eff.state = "absent" => eff.args = None
  /\ \A t \in Threads : pc[t] \notin {"idle", "admit"} => eff.args = ArgsOf[t]

\* A resolution moves the record only from a state that awaits one.
ReadsOpenOutcomes ==
  \A p \in People :
    /\ task[p] = "happened" => read[p].state \in {"unknown", "human_review", "receipt_recorded"}
    /\ task[p] = "not_happened" => read[p].state \in {"unknown", "human_review"}

\* The inductive invariant: what the safety properties above rest on, together.
IndInv ==
  /\ TypeOK
  /\ SingleAdmitter
  /\ ResultMatchesState
  /\ NothingBeforeApproval
  /\ ServedOwnArguments
  /\ Evidence
  /\ ToldIsSettled
  /\ WorksOnOwnArguments
  /\ ReadsOpenOutcomes

\* The promise of DurableEffect, read off the ledger and the provider.
Phase ==
  CASE eff.state = "absent"    -> "unasked"
    [] eff.state = "committed" -> "happened"
    [] eff.state = "failed"    -> "failed"
    [] eff.state = "denied"    -> "refused"
    [] OTHER                   -> "undecided"

Outcome == IF eff.state \in Replayable THEN eff.result ELSE NoResult

Told == [t \in Threads |-> IF got[t] \in OkResults \cup FailResults THEN got[t] ELSE NoResult]

Promise == INSTANCE DurableEffect WITH
  Callers <- Threads, OkOutcomes <- OkResults, FailOutcomes <- FailResults, Nothing <- NoResult,
  phase <- Phase, outcome <- Outcome, landings <- landed, told <- Told

\* OpenOnce implements DurableEffect: an effect is settled once and for all,
\* as happened only if it took place, as refused only if it never does; and
\* every replay tells the settled outcome.
KeepsPromise == Promise!DurableSpec

-----------------------------------------------------------------------------
(* Properties of a deployment that keeps its times, with one resolver of   *)
(* each uncertain record: what a run with Timely shows.                    *)

\* That deployment.  Of the records in doubt, the reconciler has the unknown
\* ones and a person those under review, whom approve() is not for.
TimelyDeployment ==
  /\ Timely
  /\ Grace > 0
  /\ \A r, q \in Reconcilers : r = q
  /\ \A p, q \in People : p = q
  /\ Handled \subseteq {"requires_approval", "human_review"}
  /\ ~ReviewApprovable

\* The side effect takes place at most once.
AtMostOnce == landed <= 1

\* "Ambiguous outcomes are never blindly retried": an effect whose outcome was
\* open is armed again only when it has not happened and is not going to.
NeverBlindlyRearmed ==
  [][eff.state \in {"unknown", "human_review"} /\ eff'.state = "approved"
       => landed = 0 /\ ~wire]_vars

\* The retry of a handler's own "it did not happen" arms no attempt but its
\* own: nothing has landed when _retry_or_fail moves the effect to approved.
RetryArmsOwnAttempt ==
  [][\A t \in Threads : pc[t] = "rearm" /\ pc'[t] = "start" => landed = 0]_vars

\* A failed effect did not happen.
FailedDidNotHappen == eff.state = "failed" => landed = 0 /\ ~wire

\* While the lease of a started effect is live only its executor moves it.
LiveLeaseKept ==
  [][eff.state = "started" /\ LeaseLive /\ eff'.state # "started"
       => \E t \in Threads : WorkerOf[t] = eff.owner /\ pc'[t] # pc[t]]_vars

\* Two handlers never run at the same time.
OneHandler ==
  \A t, u \in Threads : pc[t] \in InHandler /\ pc[u] \in InHandler => t = u

\* The worker that ran the handler is told what every replay will tell.
FirstCallerAgrees ==
  \A t \in Threads :
    /\ got[t] = "own_value" => eff.state = "committed" /\ eff.result = "value"
    /\ got[t] = "own_error" => eff.state = "failed" /\ eff.result = "error"

\* A thread that runs an attempt, or records what came of it.
UnderLease == InHandler \cup {"receipt", "park", "retry", "fail"}
Busy       == UnderLease \cup {"rearm", "review", "commit"}

WorksAlone == \A t, u \in Threads : pc[t] \in Busy /\ pc[u] \in Busy => t = u

\* The record stays as a busy thread left it: started, and its own, until the
\* attempt is over; then in the state that it put it in.
FindsItsRecord ==
  \A t \in Threads :
    /\ pc[t] \in UnderLease => eff.state = "started" /\ eff.owner = WorkerOf[t] /\ LeaseLive
    /\ pc[t] = "rearm" => eff.state = "unknown" /\ eff.age = 0
    /\ pc[t] \in {"review", "commit"} => eff.state = "receipt_recorded" /\ eff.result = "value"

\* The side effect has taken place, or may yet, once in all; never where the
\* effect can still be started, is settled as failed, or is said not to have
\* happened by the thread that ran it.
LandsOnce ==
  /\ landed <= 1 /\ (wire => landed = 0)
  /\ wire => eff.state = "started" \/ (eff.state = "unknown" /\ eff.age < Grace)
  /\ eff.state \in {"approved", "failed"} => landed = 0
  /\ \A t \in Threads : pc[t] \in {"calling", "retry", "rearm", "fail"} => landed = 0 /\ ~wire

\* The attempt of an executor found dead is parked by whoever found it first,
\* and not armed again behind the others' backs.
StaysDead == eff.state = "unknown" /\ \A t \in Threads : pc[t] # "rearm"

FindsItDead ==
  /\ \A t \in Threads : pc[t] = "expire" =>
       (eff.state = "started" /\ ~LeaseLive) \/ (StaysDead /\ eff.age = 0)
  /\ \A r \in Reconcilers : step[r] = "expired" =>
       (eff.state = "started" /\ ~LeaseLive) \/ StaysDead

\* What the reconciler and the person hold is still so when they act on it.
ResolvesWhatItRead ==
  /\ \A r \in Reconcilers :
       /\ step[r] \in {"probe", "happened", "missed", "escalate"} =>
            eff.state = "unknown" /\ eff.age >= Grace
       /\ step[r] = "missed" => landed = 0
       /\ step[r] = "close" =>
            eff.state = "receipt_recorded" /\ \A t \in Threads : pc[t] \notin Busy
  /\ \A p \in People :
       /\ task[p] # "close"
       /\ task[p] # "idle" => read[p].state = "human_review" /\ eff.state = "human_review"
       /\ task[p] = "not_happened" => landed = 0

\* What the properties above rest on, beside IndInv.
TimelyInv ==
  /\ WorksAlone
  /\ FindsItsRecord
  /\ LandsOnce
  /\ FindsItDead
  /\ ResolvesWhatItRead
  /\ FirstCallerAgrees

\* What a caller was told by its last call, its own outcome like a replayed one.
Learned ==
  [t \in Threads |-> CASE got[t] = "own_value" -> "value"
                       [] got[t] = "own_error" -> "error"
                       [] OTHER -> Told[t]]

Once == INSTANCE OnceEffect WITH
  Callers <- Threads, OkOutcomes <- OkResults, FailOutcomes <- FailResults, Nothing <- NoResult,
  phase <- Phase, outcome <- Outcome, landings <- landed, told <- Learned

\* Such a deployment implements OnceEffect: the side effect takes place at most
\* once and only before the effect is settled, failures never took place, and
\* the first caller learns what every later one will.
KeepsOnce == Once!OnceSpec

\* The handler is invoked at most max_attempts times.
RunsWithinAttempts == runs <= MaxAttempts

-----------------------------------------------------------------------------
(* Liveness.                                                               *)

\* Every call ends: it returns, raises, or dies with its process.
CallsEnd == \A t \in Threads : pc[t] # "idle" ~> pc[t] = "idle"

\* An outcome does not stay open: an effect whose executor died, or whose
\* handler lost track, is resolved or handed to a human.
OutcomesSettle ==
  eff.state \in Reconcilable ~> eff.state \notin Reconcilable

\* An armed effect is executed when callers ask again.
ArmedIsTaken == eff.state = "approved" ~> eff.state # "approved"

\* An effect that is neither settled nor with a human does not stay where its
\* executor left it: "crash-recoverable", as state.py says of every move.
CrashRecoverable ==
  eff.state \in {"planned", "receipt_recorded"}
    ~> eff.state \notin {"planned", "receipt_recorded"}
=============================================================================
