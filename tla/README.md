# OpenOnce in TLA+

OpenOnce (`src/openonce/`) gives an agent's tool calls an idempotency key and a
ledger, so that a side effect takes place once although calls are repeated,
processes die and providers time out. What a lost outcome was is settled later,
by probing the provider, under rules about what is known of it. This directory
models the ledger protocol, the stores under it and the provider layer above it,
checks them with TLC and proves their main safety properties with TLAPS.

Paths below are relative to `src/openonce/`.

## The system

### Components, their state and their operations

| component | state | operations | here |
|---|---|---|---|
| lifecycle, `state.py` | – | `TRANSITIONS`, `can_transition`, `REPLAYABLE`, `RECONCILABLE` | `EffectStates` |
| ledger, `records.py`, `store/base.py`, `store/memory.py` | one `EffectRecord` per key, an append-only journal | `create_or_get` (first writer wins), `transition` (compare-and-swap on the state and, on request, the lease), `get`, `scan_states` | `EffectStore`; with its journal `Ledger` |
| SQL stores, `store/sqlite.py`, `store/postgres.py` | two tables, connections in transactions | the ledger's operations as sequences of statements | `SqlStore` |
| runtime, `runtime.py` | the call stacks of the threads in `execute` | lookup, admission, gate, attempt, retry, receipt, commit, follow and wait; preflight and receipt contract | `Runtime`; the contracts in `Resolution` |
| policy, `policy.py` | – | a verdict per record | nondeterministic in `Runtime!Gate`; `review` in `Resolution!Admit` |
| reconciler, `reconciler.py` | the snapshots a scan returned | `run_once`: park dead attempts, then probe, commit, re-arm, fail or escalate unknown ones | `Reconciler`; which verdicts count in `Resolution` |
| human operations, `client.py`, `cli.py` | the record a command has read | `approve`, `deny`, `resolve_happened`, `resolve_not_happened` | `Client`; their contracts in `Resolution` |
| the provider (outside) | what really happened, requests on their way | carry a request out, now or late; show what its searches have indexed | `World`, `Resolution` |
| keys, `keys.py` | – | canonicalise, select fields, derive, fingerprint | `Keys` |
| capabilities, `providers/capabilities.py` | a team's matrix | validate, match, graces, re-arming, readiness, receipt contract | `Capabilities` |
| probers, `providers/{email,github,stripe}.py` | – | `probe`, with indexing and propagation windows | `Probers` |
| conformance, `providers/conformance.py` | a file of observations | plan, template, load, validate | `Conformance` |
| audit, `providers/audit.py` | – | read a handler's args, key fields and receipts off its source; hold them against the capabilities | `HandlerScan`, `Gates` |
| provider gates, `cli.py` | – | `openonce providers` with its `--require-*` flags | `Gates` |
| decorator, async bridge and integrations, `client.py`, `integrations/*.py` | where a LangGraph node is paused | calls, scopes, interrupt and resume, signals to the model | `Agents`, `Keys` |

### How they interact

Everything meets in the record of a key. A thread in `execute` admits the key,
asks the policy, moves the record APPROVED → STARTED with a lease, calls the
handler, records a receipt and commits. Duplicate calls follow the record: they
replay a settled result, report a parked state, take over an armed effect, park
the attempt of a dead executor, or poll until a timeout. Outcomes that stay open
are UNKNOWN; a reconciler probes the provider for them and a person settles
what a probe cannot. All of them move the record only by `transition`, and all
of them act on a copy of it that may be old.

Whether a probe's answer moves the record is decided by what the deployment
knows: the capabilities that match the tool, a pin, the evidence that the prober
conforms, the graces. The same knowledge refuses calls at admission whose key
leaves out the provider's natural key, and holds every receipt, a handler's, a
prober's or a person's, against a contract. Before any of this runs, the audit
and the gates of `openonce providers` predict it from the source and from the
same files.

### What is hard

Threads interleave at every ledger operation. A lease may end while its handler
runs. A request may arrive after its handler gave up. A probe, a scan or a
person's decision may concern an attempt that is no longer the current one.
Processes die between two operations, and between two statements of one.
Providers show an object later than they create it, or never; knowledge about
them may be missing, wrong or outdated. `PROJECT.json` lists these hazards at
their lines.

### What makes it correct

* The record is settled once, on evidence, and never before somebody let the
  effect through (`KeepsPromise`, `NothingBeforeApproval`).
* Callers are told the settled outcome, for their own arguments only
  (`ServedOwnArguments`, `FirstCallerAgrees`).
* In a deployment that keeps its times the side effect takes place at most once,
  a failed effect did not take place, handlers do not overlap, and an effect
  whose outcome was open is re-armed only when it has not taken place and will
  not (`AtMostOnce`, `FailedDidNotHappen`, `OneHandler`, `NeverBlindlyRearmed`,
  `LiveLeaseKept`, `RetryArmsOwnAttempt`), and the first caller is told what every
  replay tells (`KeepsOnce`).
* Calls end, open outcomes are settled or handed to a human, and armed effects
  are taken up (`CallsEnd`, `OutcomesSettle`, `ArmedIsTaken`).
* A store commits whole operations only, each with its journal entry, tells its
  callers what it committed, keeps its promises about leases and scans although
  its clock is read early, and creates one effect per key (`ImplementsLedger`,
  `JournalTellsHistory`, `AnswersMatchLedger`, `OneEffectPerKey`,
  `LiveLeaseHolds`, `ScansOverlookNothing`).
* The ledger's word is the truth about the provider wherever the prober fits its
  provider, or the team's knowledge or evidence does and is enforced
  (`OneObject`, `FailuresAreReal`); what is committed happened, with the evidence
  that is asked for (`CommittedHappened`, `CommittedHasEvidence`).
* What the gates and the audit promise comes true at run time (`GateAgrees`,
  `AuditPredictsRuntime`); agents are told the truth (`DenialStands`,
  `AnsweredForOwnCall`); what is lost is found again (`LostEffectsResolve`).

## The modules

```
EffectStates      state.py: states, table, classes
  EffectStore     the record of one key; create_or_get, transition, scan, clock
World             the provider: landed, wire
  Runtime         execute, by many threads         (EffectStore, World)
  Reconciler      run_once, by several reconcilers (EffectStore, World)
  Client          approve, deny, resolve_*         (EffectStore, World)
    OpenOnce      the composition and its properties
      MCOpenOnce      instances for TLC
      OpenOnceProofs  theorems
        TimelyProofs    theorems about a deployment that keeps its times
DurableEffect     the abstract specification OpenOnce implements
  OnceEffect      the stronger one it implements in such a deployment

Ledger            the record and its journal, each operation in one step
  SqlStore        both SQL stores, statement by statement (EffectStates)
    MCSqlStore      an instance for TLC
    SqlStoreProofs  theorems
      SqlAnswerProofs   theorems about what callers are told

Capabilities      what is known of providers, and the rules drawn from it
  Probers           verdicts on what a provider shows
    Conformance       the evidence that a prober behaves
  HandlerScan       what the audit reads of a handler, and what the handler does
      Gates           the audits and gates before anything runs
Keys              what goes into a key and a fingerprint
  Resolution      one effect of one tool: calls, handler, provider, reconciler,
                  people                          (Gates, Keys, EffectStates)
    Agents        who calls: plain, async, OpenAI tools, the LangGraph node
      Settlement    the properties of the provider layer
        MCSettlement      deployments for TLC
        SettlementProofs  theorems
          AuditProofs       the theorem about audited handlers
```

**EffectStates, EffectStore.** `eff` is the record of one idempotency key, or
`Absent`. No operation relates two keys, so one record is the whole ledger as
far as an effect is concerned. The fields are those the control flow reads:
state, attempt, result (by who produced it), lease, owner, age, fingerprint.
Instants are distances from now: `lease` is `lease_expires_at - now`, 0 once
expired, which is what all three comparisons in the code ask (`memory.py:57`,
`runtime.py:532`, `reconciler.py:111`); `age` is `now - updated_at`, saturated at
the grace period and counted in the two scanned states. `Transition` and `Lost`
are the two results of `transition`; every caller has a disjunct for each.

**World.** `landed` counts how often the side effect took place and saturates at
`MaxLandings`. `wire` says that a request which nobody waits for any more may
still arrive. A handler in the model uses no provider-side deduplication.

**Runtime.** An action is one ledger operation with the local code up to the
next one, so threads interleave exactly where the code leaves the store's lock.
`pc[t]` is the operation thread `t` is about to perform:

| `pc` | where in the code |
|---|---|
| `idle` | no call; `Call` is `execute` up to the lookup and what follows from it |
| `admit`, `gate` | `create_or_get`; the policy and the move out of PLANNED |
| `start`, `rejoin` | APPROVED → STARTED; the re-read after that race was lost |
| `calling`, `landed` | in the handler, before and after its side effect |
| `receipt`, `lost`, `review`, `commit` | recording the value; re-read after a lost lease; the contract's review; the commit |
| `park`, `retry`, `rearm`, `fail` | an ambiguous error; the two moves of `_retry_or_fail`; `_record_failure` |
| `wait`, `expire` | the polling loop; parking a dead executor |

`seen[t]` is the attempt in the thread's copy of the record, the one field of it
the code goes on to use, and 0 where it uses none. `got[t]` is how the last call ended: a replayed result,
the worker's own value or error (`own_value`, `own_error`), or what was raised.
A read and the code that evaluates it are one action; what is stale is the move
that follows. A `BaseException` that `execute` lets through (`interrupted`)
leaves the record STARTED, as a crash of the executor does.

Handlers are honest about their errors: the classes that the code takes for "it
did not happen" (retryable, and any exception not known to be ambiguous) are
raised only before the side effect (`HandlerRefuses`), an ambiguous one at any
time (`HandlerLosesTrack`). `wire` is one flag for all abandoned requests; in
`timely` there is never a second one, since `NeverBlindlyRearmed` arms no new
attempt while one is on its way, and in `open` the number does not matter.
The instant a lease is counted from is read just before the move that stores it;
a clock that moves in between is a tick just after the move.

**Reconciler.** A scan hands out a snapshot (`held` is its attempt), the probe
and the move follow later. Scans read the current clock: `run_once` uses an
earlier one, which only makes a scan leave out records that a later scan
returns. The two phases are separate actions since runs repeat. Capability and
conformance rules only turn a definitive answer into an escalation, so `Probe`
may escalate whatever it found. A prober is truthful about the instant it looks.

**Client.** `approve` and `deny` are one move; the resolutions read, then move
from the state read. What a person decides is outside the code: the model's
people look at the provider first (`landed`), `Handled` says in which states
they act at all, and `ReviewApprovable` whether they use `approve()` on an
effect under review (the CLI's command does not, `client.approve` may).
`cli.py`'s commands make the same moves.

**OpenOnce.** `Tick` is the clock, `Straggle` a late request, `Death` the end of
a process with every call, sweep or command in it. `Timely` adds `InTime`, the
assumption under which the lease and the grace period mean something: a worker
does not spend a tick between two ledger operations, a handler ends before its
lease, and an abandoned request arrives within the grace of the parked record.
Without it time passes at any moment.

**DurableEffect.** What a user is promised about one effect whatever happens: it
is undecided until it is settled once, as happened only if it took place, as
failed, or as refused and then it never takes place; a caller that gets a
replayed outcome gets the settled one. `OpenOnce!Promise` instantiates it with
`Phase`, `Outcome` and `Told`, read off the ledger and the threads.

**OnceEffect** is what a user hopes for, and gets where `TimelyDeployment` holds:
the side effect takes place at most once, and before the effect is settled; what
is settled as failed never took place; and the caller whose handler ran is told
the settled outcome as every later one is. The last is why `OpenOnce!Once` maps
its callers to `Learned`, which counts the worker's own value or error among what
it was told, where `Told` counts replays only.

**Ledger, SqlStore.** `Ledger` is the state and the journal of one key, changed
by `Insert` or by a `Move` of the transition table, each appending its entry in
the same step: what `InMemoryStore` does under its mutex. `SqlStore` runs
`create_or_get` and `transition` as the two SQL stores do. `row` and `journal` are
committed, `draft` is the open transaction, `pc[c]` the next statement of a
connection. SQLite locks first and may give up waiting (`GiveUpBusy`); in
PostgreSQL the first statement waits. `now[c]` is read before either, the
journal's stamp inside the transaction. `Die` breaks a connection anywhere:
before its commit nothing is left, after it the caller does not learn
(`lost`). Moves set `updated_at` and the owner as their callers do; a move to
STARTED sets a lease. Only the row's lock orders two PostgreSQL transactions, so
the model has exactly that lock; for SQLite it stands for the database's.

**Capabilities, Probers, Conformance, Gates, Keys** are operators only. A tool
pattern is the set of tools it matches. A receipt or a call's args are functions
from the field names that contracts use to values that tell apart what the code
does: this effect's own value, another one, a blank one, a float, which cannot
enter a key, and a tuple, which JSON gives back as a list. A field that is
missing, None or empty is not in a receipt's domain. What is no object at all is
`NotAnObject`, which is not the empty object: `MeetsContract` fails it as soon as
anything is asked for, args alone included. Ages are counted in ticks and compared as the code compares
seconds. A capability stands for its own fingerprint.

**HandlerScan** has both sides of the audit. The first part is what
`providers/audit.py` reads off a handler: its returns, the dicts bound once at
the top level, the args it assigns to. The second is what the body does when it
runs, branches and provider-dependent values included, and what is recorded of
its return (`Canonical`). Statements are of the kinds that either side
distinguishes; an expression that is no dict display may give no object, an empty
one or a full one (`Unread`).

**Resolution** composes them: `dep` is a deployment, which is a matrix with pins,
evidence and graces, what is enforced, a prober, a handler and its calls, and the
`world`, the provider as it really is: the lag of its searches, whether sends are
atomic with the record of them, whether it dedupes, whether requests given up
may still land, whether its searches are flaky. `eff` is the record, `objs` the
ages of the objects it has made, `sent` and `flying` its requests. The ledger's
moves are single steps here: the races between threads are `OpenOnce`'s
concern, and stay out so that the rules can be checked against every
combination of knowledge and truth. `Verdict` is `_resolve` up to the move.
`LoopEnds` is the async bridge when the caller's loop goes away. A pull request
or message that a person reports has been seen by the person.

**Agents** adds the callers. `node` is the LangGraph node: it pauses on an
approval, and on resume runs from its start before it gets to the decision.
`told` is what the last caller was told, and of which call. The OpenAI tools
call as plain callers do, under a scope and a signal of their own.

## What is checked

| run | instance | shows |
|---|---|---|
| `timely` | 3 threads on 3 workers, one with other arguments; 1 reconciler; a person for approvals and reviews; 2 deaths; 3 attempts; a lease of 3 ticks and a grace of 2 | the properties of a deployment that keeps its times: at most one side effect, real failures, one handler, agreement of the caller with every replay, no blind re-arming, live leases kept, retries that arm their own attempt; the inductive invariant of their proofs; the refinement of `OnceEffect` |
| `open` | 2 threads, 1 reconciler, 1 person acting in every state; no assumption on the timing | the safety properties that need no timing, the inductive invariant of the proofs, the refinement of `DurableEffect` |
| `live` | 2 threads, 1 reconciler, nobody helping; fair scheduling | every call ends, open outcomes close, armed effects run |
| `sql` | 2 connections with up to 3 calls each; both engines; insert, start, guarded and unguarded ends, a re-arm; 3 clock values | both SQL stores implement `Ledger`, whatever interleaves or dies; answers, journal, leases and scans are sound |
| `settlement` | 475 deployments, of which the constructors accept 463, in families, each varying one concern around a quiet deployment: timing and graces, failing probers, mail over API or SMTP, GitHub's natural key with handlers and calls of every kind, a team's own capability in two versions, capabilities that ask for args, for a receipt, for both or for nothing, agents | the properties of the provider layer, and `LostEffectsResolve` under fairness |
| `probe_stale`, `retry_blind`, `stolen_lease`, `attempts`, `first_caller`, `crash`, `async_cancel` | the smallest instance each needs | where the code does not do what a line of the repository says; see Findings |

Every property of the five passing runs is also broken by a mutant of the code
(`PROJECT.json`, "mutants"), so none holds by the shape of the model.

**Bounds.** `MaxLandings` and `MaxRuns` are where two history counters saturate:
2 landings show a duplicate; in `open` and `live` only "none" and "some" matter.
`MaxApprovals` stops a person from approving a reviewed effect for ever, which
the code would allow. Three threads, with the attempts of `timely` at 3, let an
effect be admitted, lost, retaken and refused to a third caller; two are enough
for every race on one record. In `open`, `Grace = 0` without `Timely` allows all
timings that a longer grace allows. `open` and `live` have no deaths of their
own: without timing a crash is a thread that stalls for ever, and the end of an
executor is the `interrupted` outcome of its handler, in `live` too. `open` uses
the symmetry of its two threads, whose worker and arguments depend on nothing
else; its temporal property is an action formula that treats them alike.
In `sql`, one tick of lease and of busy timeout and three clock values let a
call wait for the lock across the end of a lease; three calls let a connection
create, start and finish while the other one parks and re-arms. The model values
of the connections are symmetric; its temporal properties are action formulas.
In `settlement`, 120 s are `Window = 2` ticks and 300 s `Fallback = 3`, so that a
young, a just mature and a late record all exist; ages saturate there, since no
threshold lies beyond. Two attempts let a re-arm duplicate and a second miss
fail; `MaxRuns = 3` stops people who approve a reviewed effect from running it
for ever. Handler bodies have up to three statements, one of them nested.
Deadlock is checked except in `sql`, where calls and the clock are used up, and
in the runs of `MCSettlement`, where an effect is settled and everybody has
been told.

**Fairness.** `FairSpec` says what a running deployment does: the clock moves, a
scheduled thread goes on (its handler returns or raises), `wait_timeout` is
reached, and the reconciler loops (`reconcile --watch`). Nobody is forced to
call, to make a request succeed, to act as a person or to die. `GiveUp` has a
fairness condition of its own because polling competes with it.
`RetryingSpec` adds that callers ask again, which `ArmedIsTaken` needs, since
only a caller ever executes an armed effect. In `Settlement`, `Spec` assumes of
`openonce reconcile --watch` that it runs, and that time passes; nobody is forced
to call, and no prober to be reachable. `LostEffectsResolve` therefore is about
deployments whose prober is reachable (`AsItComes`). `SqlStore` has no fairness:
its promises are about what is committed, not when.

## What is proved

`OpenOnceProofs` holds for any sets of threads, workers, reconcilers, people and
arguments and any values of the times and bounds, under the named assumptions
beside the constants (the times and bounds are naturals, `WorkerOf` and `ArgsOf`
are functions, `None` is no worker or fingerprint).

* `Invariance`: `Spec => []IndInv`. `TypeOK`, `SingleAdmitter`,
  `ResultMatchesState`, `NothingBeforeApproval` and `ServedOwnArguments` are not
  inductive alone. `IndInv` adds
  * `Evidence`: whoever is about to record that the effect happened has seen it
    happen. Without it nothing keeps `landed > 0` in a committed record.
  * `ToldIsSettled`: a replayed result that a caller still holds is that of the
    settled record. It needs that no move leaves COMMITTED and FAILED.
  * `WorksOnOwnArguments`: a thread beyond admission works on a record of its own
    fingerprint, since no move changes it.
  * `ReadsOpenOutcomes`: a resolution moves the record from an unsettled state,
    so it cannot leave FAILED, as the transition table would let it.
* `TypeCorrect`, `GateIsHeldAlone`, `ReplaysAreSound`, `ApprovalComesFirst`,
  `OutcomesAreForOwnArguments` follow. Two of them are assertions in the code
  (`runtime.py:398` and `runtime.py:364`).
* `PromiseKept`: `Spec => KeepsPromise`. Initial states map to initial states
  (`InitKeepsPromise`) and each step to a step or a stutter
  (`StepsKeepPromise`).

The argument goes through moves rather than actions. `LedgerMove` is the part of
the transition table that the code really uses, with what each move does to the
result. `WorkerMove`, `SweepMove` and `PersonMove` say what a step of a thread, a
reconciler and a person can do to the ledger, the world and itself. Each action
is shown to be such a move, once (`AdmissionMove`, `AttemptMove`, `RecordMove`,
`ReconcilerMove`, `ClientMove`); then the moves are shown to keep `IndInv`
(`WorkerKeeps`, `ResolverKeeps`) and the promise (`MovesKeepPromise`).

`SqlStoreProofs` holds for any connections, requests, lease, timeout and number of
ticks, under `SqlAssumption`. `SqlInv` says who holds the lock (`LockInv`), that no
reading of the clock is from the future (`ReadingsPast`), and how far the draft is
from what is committed at each statement (`DraftInv`); without the last nothing
is known of what a commit publishes. From it follow `JournalTellsHistory`,
`ScansOverlookNothing`, `LiveLeaseHolds` and the refinement `ImplementsLedger`: a
commit is one `Insert` or `Move` of the ledger, every other step a stutter.

`SettlementProofs` holds for every set of deployments, that is for every matrix,
evidence, configuration, prober, handler, set of calls and provider, and for any
window, fallback and number of attempts, under `WindowAssumption`,
`BoundsAssumption` and `DeploymentsAssumption` (lengths of time are naturals, the
prober and the resolver are of the kinds that exist). `TypeOK`, `CommittedHappened`,
`CommittedHasEvidence`, `FailuresAreReal`, `OneObject`, `GateAgrees`, `DenialStands`
and `AnsweredForOwnCall` are theorems. The argument for `OneObject`, on which the
library's purpose rests, has two halves.

* What is known: a miss that counts was old enough for its prober
  (`MissIsOldEnough`), for a grace, or for a prober that has shown that it waits
  for the grace (`ConformingProberWaits`: the young miss of the conformance plan,
  one tick short of the grace, is what forces the prober to wait). In each of the
  three ways in which a deployment is `Guarded` that age covers the provider's
  lag (`MissTellsTheTruth`).
* What runs: `Once` keeps every object at least as old as an unknown record, and
  says that there is none while the effect is armed or before its request lands.
  It needs `Evidenced` (nothing is there of an effect that was not let through)
  and `GraphWaits` (while the graph waits for its decision, so does the effect).
  A re-arm then follows a miss that tells the truth.

`AuditProofs` adds `AuditPredictsRuntime` (`AuditForetells`) under the same
assumptions, the last of which also says that a handler's body is a sequence of
`Statements`. What a body does is a recursive function over its statements, and
the library's induction theorems, which take an operator, cannot be used. Both
the existence of that function (`TracesExist`) and the induction along it
(`ReceiptsFit`) go by the least counterexample instead: a set of naturals has a
least element (`LeastElement`), which follows from the library's facts on
well-founded relations, and those take sets. The invariant of the induction is
`Safe`: after the first `i` statements an audited handler has returned a receipt
of a form that the audit read off one of its returns, or has passed no return
outside a branch, its unassigned args still have their values, and each name that
the audit takes for a receipt holds the dict that was read. All of this is about a
handler whose returns can be read; where one cannot, the capabilities ask for no
receipt fields, and the theorem's condition is that they ask for no args either,
so that nothing is asked of the receipt. `AuditedReceipts` and `AuditedCalls` compare the audit with the two contracts of the runtime, and
`Expected` says that only calls of the deployment ever reach them.

`SqlAnswerProofs` has the rest of the SQL stores' invariants. `AnswersMatchLedger` and
`OneEffectPerKey` speak of a call that is over, and are not inductive: `AnswerInv`
says where a call's entry is while it runs. Until its commit a call has no entry in
the journal, and its draft has exactly one more (`AnswerAt`); from then on it has
one; entries are never numbered beyond their connection's calls (`EntriesPast`), so
a new call has none; and the row has an id exactly if it is there (`IdGiven`,
`DraftedId`), which no later move changes.

### A deployment that keeps its times

`TimelyProofs` is about `OpenOnce` under `TimelyDeployment`. Its theorems have the
form `TimelyDeployment => (Spec => ...)`; nothing else is assumed of the numbers of
threads, workers, attempts and deaths, of the lease, or of when the reconciler and
the person act. Each conjunct is something that the code takes for granted
without enforcing it. In the instance of `timely`, TLC refutes a property as soon
as one of them is dropped:

| assumed | what relies on it | dropped, TLC refutes |
|---|---|---|
| `Timely`: a handler ends and its outcome is recorded within the lease, a request given up arrives within the grace | `lease_seconds` and the grace period (`runtime.py:532`, `reconciler.py:111`) | `FirstCallerAgrees` |
| `Grace > 0` | a miss is not believed while a request is on its way (`reconciler.py`, `_past_grace`) | `NeverBlindlyRearmed` |
| one reconciler | `reconciler.py:241` moves what may be a later attempt than the one it probed (`probe_stale`, `stolen_lease`) | `NeverBlindlyRearmed` |
| one person | `client.py:427` re-arms what may be under review once more, after another person's resolution and another attempt, which took place | `NeverBlindlyRearmed` |
| who leaves UNKNOWN to the reconciler | `runtime.py:507` does not ask whose UNKNOWN it re-arms (`retry_blind`) | `NeverBlindlyRearmed` |
| and RECEIPT_RECORDED to the worker | `runtime.py:492` ignores that its commit was lost (`first_caller`) | `FirstCallerAgrees` |
| and does not use `approve()` on an effect under review | `client.py:277` re-arms it without asking what happened | `NeverBlindlyRearmed` |

`IndInv` holds with or without them. `TimelyInv` is inductive beside it, and was
checked by TLC in `timely` before it was proved:

* `WorksAlone` and `FindsItsRecord`: from STARTED to the last move of the attempt
  one thread is at work, and the record is in the state and of the owner that it
  left it in. `OneHandler` is part of the first. Neither is inductive without the
  next.
* `FindsItDead`: who found a lease expired, or may still find it so in an old
  snapshot, finds the same dead attempt or an outcome that is parked and not armed
  again. This is where one reconciler is needed: its own earlier sweep is over.
* `LandsOnce`: at most one landing, counting a request on its way, and none where
  the effect can be started again. It needs that a request on its way is younger
  than the grace, so that no miss is believed while there is one.
* `ResolvesWhatItRead`: what a reconciler or a person is about to move is in the
  state that they read, and where they are about to say that it did not happen, it
  did not.
* `FirstCallerAgrees` itself.

The proof has one lemma per group of actions (`AdmissionTimed` to `DeathTimed`).
Most rest on `BusyAlone`, that a thread at work has no one else about to move the
record, and on `NobodyAtWork`, that nobody is at work on a record in a state
that needs no one. The properties of states follow from `TimelyInv`,
those of steps from `TimelyInv` before the step and the moves of `OpenOnceProofs`.
`OnceIsKept` shows the refinement of `OnceEffect` by the same moves (`StepMoves`,
`MovesOnce`).

### What is only model-checked

* `CallsEnd`, `OutcomesSettle`, `ArmedIsTaken` and `LostEffectsResolve`: they need
  fairness and ENABLED, which the prover does not handle.
* The seven findings, which are counterexamples.
* That the constants of the runs satisfy the assumptions: TLC evaluates each named
  assumption in the runs that use it.

Every invariant and every action property of the passing runs is a theorem.

## Findings

Each is a run whose property TLC refutes.

1. `probe_stale`. `reconciler.py:241` re-arms UNKNOWN on a probe of what may be
   an earlier attempt. Two reconcilers can repeat a side effect.
2. `retry_blind`. `runtime.py:507` re-arms UNKNOWN without asking whose it is. A
   person's resolution between the two moves of `_retry_or_fail` suffices.
3. `stolen_lease`. `reconciler.py:113` parks STARTED without asking the store for
   the lease again.
4. `attempts`. `runtime.py:411` numbers an attempt from an old copy, so that a
   handler is run more than `max_attempts` times.
5. `first_caller`. `runtime.py:492` ignores whether its commit took place, so the
   first caller may be told another value than every replay.
6. `crash`. PLANNED and RECEIPT_RECORDED are scanned by nobody; a death there, or
   a policy that raises, leaves the effect where it is.

7. `async_cancel`. `client.py:226` waits for a coroutine of the caller's loop. When
   that is cancelled with the request out, `concurrent.futures.CancelledError` is
   classified as a definite failure (`runtime.py:137`) and recorded as one, though
   the request may land: FAILED is replayed for an effect that happened.

Places where the properties hold only under a condition that the code does not
enforce; each is a conjunct of the property's premise, and a hazard in
`PROJECT.json`:

* `OneObject` needs that nobody acts on the effect beside the graph or the
  reconciler (`others`): `approve()` of an effect under review re-arms it without
  looking whether it happened, and a LangGraph node's `approve()` may meet one.
* `OneObject` needs that no request lands after its handler gave it up
  (`prompt`): the windows are counted from the record's `updated_at`, when the
  effect was parked, and a request that lands later is younger than that.
* `CommittedHasEvidence` excludes `openonce resolve-happened` without
  `--require-receipt-contract`, which enforces nothing even where the runtime does.
* `AuditPredictsRuntime` needs that the audit could read the returns where any arg
  is asked for. `audit.py:193` skips a capability that asks for args and no receipt
  fields, while `capabilities.py:485` fails a receipt of its that is not an object:
  a handler that ends in `return "ok"` passes the audit, and its effect is sent to
  review after the side effect. Without this condition TLC refutes the property in
  the deployments `Asking` when the first request lands. Its other conditions are `AuditHolds`: calls bind every arg (one left to
  its default is in neither key nor preflight, and no property here is about such
  calls); no arg is blank (preflight looks at its presence only) or a tuple, which
  the receipt gives back as a list; no field comes back empty; JSON can hold what
  is returned, or a repr is recorded in its place; and `AllInSight`: a receipt's name rebound by `:=` or an import,
  an object changed under another name, and a body that falls off its end are
  not seen by `_LocalReturnDictCollector`, and their receipts are sent to review
  after the side effect.
* A prober that says "retry later" of a young miss is not asked again: anything
  inconclusive is escalated at once. With a grace that covers the window the
  reconciler does not ask that early, which is what `LostEffectsResolve` shows.

Lines of documentation that the code does not keep and no run is about: the
README's section on manual resolution says `approve()` is only for pending
pre-execution approvals, while
`client.py:276` accepts HUMAN_REVIEW, as the changelog says; `state.py:33` says an
illegal transition raises `IllegalTransition`, while every store returns `None`;
the README (344-346) calls the audit of receipts conservative, every return path
having to be a literal receipt dict, which holds only where receipt fields are
asked for. Two more speak of the reconciler without saying that it heeds
capabilities only with a pin or a strict flag (`reconciler.py:149-159`): that a
`HAPPENED` probe must return a non-empty receipt (README 198-200; the probers of the
repository always return one), and that the miss of a tool known to be
non-authoritative is escalated (README 227-229). In the deployments `Mailing` such
a miss re-arms the effect; `OneObject` has the opt-in in its premise (`Enforce`).

Two hazards of `PROJECT.json` have no property. Args left to a default are one, as
said above. The other is that three comparisons judge when a lease ends
(`reconciler.py:113`, `runtime.py:532`, `memory.py:57`): they agree, the model has one
operator for them, and it could not show one of them being changed.

`timely` has one reconciler and a person who leaves unknown effects to it: with
one resolver per open outcome the first three findings cannot occur, and the
properties they would violate hold.

## Not modelled

* Output, argument parsing and listings in `cli.py`; messages, details and
  guidance texts everywhere. No property is about them.
* Loading JSON: `load_capabilities_file`, `capability_from_dict`,
  `_load_receipt_arg`. They accept or refuse a file as a whole, before anything
  else happens.
* In `providers/audit.py`, walking directories, finding decorators and evaluating
  module constants. They find the handler, its tool and its literals; what is
  done with those is modelled. A tool given by a dynamic expression has no
  capabilities and no contract, and fails every gate.
* The HTTP and IMAP clients behind the probers, SQLite and PostgreSQL themselves,
  LangGraph and the OpenAI SDK: they appear as what the code relies on.
* The serialisation of keys: the hash is taken to be injective, and a key is its
  material. The material joins scope, tool and fields with "|", which scopes and
  tools may contain; `DeriveKey` keeps this, but no run has such names. An explicit
  key is neither scoped nor tied to a tool, and one effect of one tool is all
  `Resolution` has: two tools that are given the same key and the same args are
  served each other's result.
* Several effects at once. No operation relates two keys, except a scan, which
  takes its records one by one.
* `OpenOnce` and `Resolution` are not composed: the product of the races with the
  deployments is out of TLC's reach. `Resolution!Answers` and `MissCounts` are what
  `Reconciler!Probe` chooses from, `HandlerContract` what `Runtime!Receipt` does.

## What could come next

1. Bounds on attempts once `runtime.py:411` is conditioned on the attempt.
2. The composition of `OpenOnce` with `Resolution`, at least as a refinement: that
   what `Reconciler!Probe` chooses from is what `Resolution!Answers` gives in a
   guarded deployment.
3. `LandsAtMostOnce` for several reconcilers, once `reconciler.py:241` compares the
   attempt it probed with the one it moves.
