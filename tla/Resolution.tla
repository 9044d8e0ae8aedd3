----------------------------- MODULE Resolution -----------------------------
(***************************************************************************)
(* What is at stake once a provider is known: one effect of one tool, in a *)
(* deployment that says what the team knows of the provider, how it has    *)
(* configured the runtime and the reconciler, and what the provider is     *)
(* really like.  The ledger's moves are single steps here, the threads and *)
(* the races between them being OpenOnce's concern; the concern of this    *)
(* module is whether the answer a move rests on is worth anything.         *)
(*                                                                         *)
(* Ages are ticks since the record's updated_at, or since an object landed *)
(* at the provider.  No threshold is above Fallback, where they saturate.  *)
(***************************************************************************)
EXTENDS Gates, Keys, EffectStates

CONSTANTS
  Deployments,
  MaxAttempts,   \* max_attempts of the effect
  MaxRuns        \* bound: nobody approves a reviewed effect that ran this often

VARIABLES
  dep,      \* the deployment
  eff,      \* the record: its state, age, attempt, receipt, and the call admitted
  sent,     \* where the request of the running handler is
  flying,   \* requests whose handler has given them up, still on the way
  objs      \* the ages of the objects at the provider that carry the effect's key

resolution == <<dep, eff, sent, flying, objs>>

Ages == 0 .. Fallback

\* How a person's resolution reaches the ledger.
Resolvers == {"bare cli", "checking cli", "client"}

\* How a request stands: none out, out, or carried out.
Requests == {"none", "out", "landed"}

NoCall == [tool |-> << >>, scope |-> << >>, explicit |-> << >>, fields |-> {}, args |-> NoReceipt]

Absent == [state |-> "absent", age |-> 0, attempt |-> 0, receipt |-> NoReceipt, call |-> NoCall]

ASSUME BoundsAssumption == MaxAttempts \in Nat \ {0} /\ MaxRuns \in Nat

\* Thresholds and lags are lengths of time, and a handler's body is statements.
ASSUME DeploymentsAssumption ==
  \A d \in Deployments :
    /\ \A c \in d.extra : c.grace \in Nat
    /\ d.grace \subseteq Nat /\ d.override \subseteq Nat
    /\ d.prober \in Probers \cup {NoProber}
    /\ d.manual \in Resolvers
    /\ d.world.lag \in Nat
    /\ d.handler.body \in Seq(Statements)

-----------------------------------------------------------------------------
(* What is known: the rules of the runtime and of the reconciler.            *)

Matches(d) == ForTool(Matrix(d.extra), d.tool, d.pin)

\* The constructors accept the deployment: the matrix is valid, a pin names a
\* capability of the tool, and the evidence file loads.
Starts(d) == ValidMatrix(d.extra) /\ (d.pin # NoPin => Matches(d) # {}) /\ Loads(d.evidence)

\* _past_grace with _grace_for_tool: an override, else the configured grace,
\* else the capability's, else the fallback.  An option is a set of one value,
\* or empty.
PastGrace(d, age) ==
  IF d.override # {} THEN \E g \in d.override : age >= g
  ELSE IF d.grace # {} THEN \E g \in d.grace : age >= g
  ELSE IF Matches(d) # {} THEN PastDefaultGrace(Matches(d), age)
  ELSE age >= Fallback

\* _scan_grace_floor: what the scans hand out at all.
InScan(d, age) ==
  \/ \E g \in d.override \cup d.grace : age >= g
  \/ d.grace = {} /\ (age >= Fallback \/ \E c \in Matrix(d.extra) : age >= c.grace)

\* Mutant: the key fields are not looked at.
PreflightArgs(d, call) ==
  d.enforce =>
    /\ Matches(d) = {} => ~d.strictReceipt
    /\ RequiredArgs(Matches(d)) \subseteq DOMAIN call.args

\* _provider_contract_preflight_failures: none.
Preflight(d, call) ==
  d.enforce =>
    /\ Matches(d) = {} => ~d.strictReceipt
    /\ RequiredArgs(Matches(d)) \subseteq DOMAIN call.args
    /\ IF call.explicit # << >> THEN RequiredKeys(Matches(d)) = {}
       ELSE RequiredKeys(Matches(d)) \subseteq FieldsOf(call.args, call.fields)

\* _provider_receipt_contract_failures: none.
HandlerContract(d, args, receipt) ==
  d.enforce => (Matches(d) = {} => ~d.strictReceipt) /\ MeetsContract(Matches(d), args, receipt)

\* The operator has opted in to what is known of the provider.
Enforce(d) == d.pin # NoPin \/ d.strictCap \/ d.strictConf

\* _definitive_resolution_blocker
Blocked(d) ==
  \/ (d.strictCap \/ d.strictConf) /\ Matches(d) = {}
  \/ d.strictConf /\ ~Proven(Matrix(d.extra), d.evidence, Names(Matches(d)))

\* Mutant: a receipt that is there is taken for the evidence.
SomeReceiptCounts(d, args, receipt) == Enforce(d) => ~Blocked(d) /\ receipt # NoReceipt

\* _resolve: the conditions on a happened ...
HappenedCounts(d, args, receipt) ==
  Enforce(d) => ~Blocked(d) /\ receipt # NoReceipt /\ MeetsContract(Matches(d), args, receipt)

\* Mutant: that the capability forbids a re-arm is not looked at.
AnyMissCounts(d) == Enforce(d) => ~Blocked(d)

\* ... and on a miss.
MissCounts(d) == Enforce(d) => ~Blocked(d) /\ CanAutoRearm(Matches(d), d.pin)

\* _resolve: the state an answer leads to.
Verdict(d, e, result) ==
  IF result.outcome = "happened" /\ HappenedCounts(d, e.call.args, result.receipt)
  THEN "committed"
  ELSE IF result.outcome = "not_happened" /\ MissCounts(d)
  THEN IF e.attempt >= MaxAttempts THEN "failed" ELSE "approved"
  ELSE "human_review"

\* _manual_receipt_contract_failures: none.  A bare `openonce resolve-happened`
\* enforces nothing whatever the runtime does, one with
\* --require-receipt-contract everything, a call of the client what the
\* runtime does.
ManualContract(d, args, receipt) ==
  CASE d.manual = "bare cli"     -> TRUE
    [] d.manual = "checking cli" -> Matches(d) # {} /\ MeetsContract(Matches(d), args, receipt)
    [] d.manual = "client"       -> HandlerContract(d, args, receipt)
                                      /\ (d.strictReceipt => Matches(d) # {})

\* _manual_not_happened_blocker with the flags of the command: none.
ManualMiss(d) ==
  /\ d.flags # {} => Matches(d) # {}
  /\ "auto rearm" \in d.flags => CanAutoRearm(Matches(d), d.pin)

-----------------------------------------------------------------------------
(* What is the case: handlers, the provider, and what a prober sees of it.   *)

\* What a person can type in: the whole evidence, some of it, or some other's.
PersonReceipts(d) ==
  {Own(RequiredFields(Matches(d)) \cup {"resource"}), Own({"resource"}),
   [f \in RequiredFields(Matches(d)) \cup {"resource"} |-> "other"]}

\* A provider that dedupes on provider_key makes no second object.
Carried == IF dep.world.dedupes /\ objs # << >> THEN objs ELSE Append(objs, 0)

\* The objects that searches show by now.
Visible == {i \in DOMAIN objs : objs[i] >= dep.world.lag}

\* A send that is not atomic with the record of it may stay out of sight; what
\* is in sight may lack its ids; a search by natural key may return strangers.
Shown == {v \in Views :
            /\ ~v.filled => dep.world.flaky
            /\ v.strangers => dep.prober.kind = "github"
            /\ \/ v.hits = "none" /\ (Visible = {} \/ ~dep.world.atomic)
               \/ v.hits = "one" /\ \E i \in Visible : Visible = {i}
               \/ v.hits = "many" /\ \E i, j \in Visible : i # j}

\* What comes of a probe; one that raises is treated as an inconclusive one,
\* as is a prober that nobody registered.
Answers ==
  IF dep.prober = NoProber THEN {Inconclusive}
  ELSE {Probe(dep.prober, eff.call.args, v, eff.age) : v \in Shown}
         \cup (IF dep.world.flaky THEN {Inconclusive} ELSE {})

-----------------------------------------------------------------------------
Move(to, receipt) == eff' = [eff EXCEPT !.state = to, !.age = 0, !.receipt = receipt]

\* The request goes its own way: a prompt provider has carried it out by now
\* or never will, at any other it may still land.
LetGo ==
  /\ sent' = "none"
  /\ \/ UNCHANGED flying
     \/ sent = "out" /\ ~dep.world.prompt /\ flying' = flying + 1

\* The runtime's admission of a new effect, past preflight.
Admit(call) ==
  /\ eff.state = "absent"
  /\ eff' = [Absent EXCEPT !.state = IF dep.review THEN "requires_approval" ELSE "approved",
                           !.call = call]
  /\ UNCHANGED <<dep, sent, flying, objs>>

\* _run_attempt, up to the handler's request to the provider.
Run ==
  /\ eff.state = "approved"
  /\ eff' = [eff EXCEPT !.state = "started", !.age = 0, !.attempt = @ + 1]
  /\ sent' = "out"
  /\ UNCHANGED <<dep, flying, objs>>

\* The provider carries the request out, or one that was given up.
Land ==
  /\ \/ sent = "out" /\ sent' = "landed" /\ UNCHANGED flying
     \/ flying > 0 /\ flying' = flying - 1 /\ UNCHANGED sent
  /\ objs' = Carried
  /\ UNCHANGED <<dep, eff>>

\* The provider refuses, and the handler raises a definite error.
Refuse ==
  /\ eff.state = "started" /\ sent = "out"
  /\ Move("failed", NoReceipt)
  /\ sent' = "none"
  /\ UNCHANGED <<dep, flying, objs>>

\* The handler returns, and its receipt is held against the contract.
Return ==
  /\ eff.state = "started" /\ sent = "landed"
  /\ \E r \in HandlerReceipts(dep.handler, eff.call.args) :
       Move(IF HandlerContract(dep, eff.call.args, r) THEN "committed" ELSE "human_review", r)
  /\ sent' = "none"
  /\ UNCHANGED <<dep, flying, objs>>

\* A timeout, a reset, or a dead executor: the record is parked as unknown.
LoseTrack ==
  /\ eff.state = "started"
  /\ Move("unknown", NoReceipt)
  /\ LetGo
  /\ UNCHANGED <<dep, objs>>

\* The caller's event loop cancels the coroutine the worker thread waits for:
\* the CancelledError that result() raises is classified as a definite error.
LoopEnds ==
  /\ dep.agent = "async" /\ dep.world.cancels
  /\ eff.state = "started"
  /\ Move("failed", NoReceipt)
  /\ LetGo
  /\ UNCHANGED <<dep, objs>>

\* The reconciler's second phase on this record.
Reconcile ==
  /\ eff.state = "unknown"
  /\ InScan(dep, eff.age) /\ PastGrace(dep, eff.age)
  /\ \E result \in Answers :
       LET to == Verdict(dep, eff, result)
       IN Move(to, IF to = "committed" THEN result.receipt ELSE NoReceipt)
  /\ UNCHANGED <<dep, sent, flying, objs>>

\* resolve_happened by somebody who has seen the object.
PersonHappened ==
  /\ eff.state \in {"unknown", "human_review"}
  /\ objs # << >>
  /\ \E r \in PersonReceipts(dep) :
       ManualContract(dep, eff.call.args, r) /\ Move("committed", r)
  /\ UNCHANGED <<dep, sent, flying, objs>>

\* resolve_not_happened by somebody who has seen that there is none.
PersonNotHappened ==
  /\ eff.state \in {"unknown", "human_review"}
  /\ objs = << >>
  /\ ManualMiss(dep)
  /\ Move(IF eff.attempt >= MaxAttempts THEN "failed" ELSE "approved", NoReceipt)
  /\ UNCHANGED <<dep, sent, flying, objs>>

\* Mutant: ages do not saturate.
OlderPast(age) == age + 1

Older(age) == IF age < Fallback THEN age + 1 ELSE age

\* Time passes.  Only an unknown record's age is ever read.
Tick ==
  /\ eff' = IF eff.state = "unknown" THEN [eff EXCEPT !.age = Older(@)] ELSE eff
  /\ objs' = [i \in DOMAIN objs |-> Older(objs[i])]
  /\ <<eff, objs>>' # <<eff, objs>>
  /\ UNCHANGED <<dep, sent, flying>>

ResolutionInit ==
  /\ dep \in Deployments /\ Starts(dep)
  /\ eff = Absent /\ sent = "none" /\ flying = 0 /\ objs = << >>
=============================================================================
