-------------------------- MODULE SettlementProofs --------------------------
(***************************************************************************)
(* What holds of Settlement for every set of deployments, proved with      *)
(* TLAPS.  The first part is about what is known: what a miss that counts  *)
(* says of the provider.  The second is about the runs: who may have made  *)
(* an object, and how old it is when the record is looked at.              *)
(***************************************************************************)
EXTENDS Settlement, TLAPS

-----------------------------------------------------------------------------
(* What is known.                                                          *)

\* Every grace that is used is a length of time.
LEMMA GracesAreNat ==
  ASSUME NEW d \in Deployments, NEW c \in Matches(d)
  PROVE  c.grace \in Nat /\ c \in Matrix(d.extra)
  BY WindowAssumption, DeploymentsAssumption
     DEF Matches, ForTool, Matrix, Builtins, Stripe, GithubPr, EmailApi, EmailSmtp, Capability

\* Where there is a capability, none of those in use may forbid a re-arm.
LEMMA RearmIsAllowed ==
  ASSUME NEW d, Enforce(d), MissCounts(d), NEW c \in Matches(d)
  PROVE  c.rearm /\ ~Blocked(d)
  BY DEF MissCounts, CanAutoRearm

\* A prober that reports a miss was shown nothing, and where a miss has to be
\* old enough to count it was.
LEMMA MissIsOldEnough ==
  ASSUME NEW p \in Probers, NEW v \in Views, NEW args, NEW age \in Nat,
         Probe(p, args, v, age).outcome = "not_happened"
  PROVE  /\ v.hits = "none"
         /\ p.kind = "stripe" => age >= p.lag
         /\ p.kind = "email" => p.authoritative /\ age >= p.lag
  <1>1. /\ p.kind \in {"stripe", "email", "github"} /\ p.lag \in Nat
        /\ v.hits \in {"none", "one", "many"}
    BY DEF Probers, Views
  <1>2. CASE p.kind = "stripe"
    BY <1>1, <1>2 DEF Probe, StripeProbe, Miss, ProbeResult
  <1>3. CASE p.kind = "email"
    BY <1>1, <1>3 DEF Probe, EmailProbe, Miss, ProbeResult, Inconclusive
  <1>4. CASE p.kind = "github"
    BY <1>1, <1>4 DEF Probe, GithubProbe, ProbeResult, Inconclusive
  <1>5. QED
    BY <1>1, <1>2, <1>3, <1>4

\* A prober whose observed answers conform to a capability that re-arms on a
\* miss waits at least as long as the capability's grace: the young miss, one
\* tick short of it, has to be inconclusive.
LEMMA ConformingProberWaits ==
  ASSUME NEW p \in Probers, NEW c, c.grace \in Nat, c.rearm,
         Conforms(c, Observed(p, c, c.grace - 1))
  PROVE  /\ p.kind = "stripe" => c.grace <= p.lag
         /\ p.kind = "email" /\ p.authoritative => c.grace <= p.lag
         /\ p.kind = "github" => c.grace = 0
  <1> DEFINE o == Observed(p, c, c.grace - 1)
             none == [hits |-> "none", strangers |-> FALSE, filled |-> TRUE]
             one == [hits |-> "one", strangers |-> FALSE, filled |-> TRUE]
  <1>1. p.kind \in {"stripe", "email", "github"} /\ p.lag \in Nat
    BY DEF Probers
  <1>2. CASE c.grace = 0
    BY <1>1, <1>2
  <1>3. CASE c.grace > 0
    <2>1. "young_miss" \in Scenarios(c) /\ "happened" \in Scenarios(c)
      BY <1>3 DEF Scenarios
    <2>2. /\ o.observations["young_miss"].outcome = "inconclusive"
          /\ o.observations["happened"].outcome = "happened"
      BY <2>1 DEF Conforms, CasePasses, Plan
    <2>3. /\ o.observations["young_miss"].outcome = Probe(p, Own(c.args), none, c.grace - 1).outcome
          /\ o.observations["happened"].outcome = Probe(p, Own(c.args), one, c.grace).outcome
      BY <2>1 DEF Observed, Observation
    <2>4. CASE p.kind = "stripe"
      BY <1>1, <1>3, <2>2, <2>3, <2>4 DEF Probe, StripeProbe, Miss, ProbeResult
    <2>5. CASE p.kind = "email"
      BY <1>1, <1>3, <2>2, <2>3, <2>5 DEF Probe, EmailProbe, Miss, ProbeResult
    <2>6. CASE p.kind = "github"
      <3>1. {"owner", "repo", "head"} \subseteq DOMAIN Own(c.args)
        BY <2>2, <2>3, <2>6 DEF Probe, GithubProbe, Inconclusive, ProbeResult
      <3>2. QED
        BY <2>2, <2>3, <2>6, <3>1 DEF Probe, GithubProbe, Inconclusive, ProbeResult
    <2>7. QED
      BY <1>1, <2>4, <2>5, <2>6
  <1>4. QED
    BY <1>2, <1>3

\* Evidence that is required, and honest, is evidence for this prober and for
\* each capability in use.
LEMMA HonestEvidenceConforms ==
  ASSUME NEW d \in Deployments, Starts(d), Honest(d), d.strictConf, ~Blocked(d),
         NEW c \in Matches(d)
  PROVE  Conforms(c, Observed(d.prober, c, c.grace - 1))
  <1>1. Proven(Matrix(d.extra), d.evidence, Names(Matches(d)))
    BY DEF Blocked
  <1>2. c.name \in Names(Matches(d)) /\ c \in Matrix(d.extra)
    BY GracesAreNat DEF Names
  <1>3. PICK cap \in Matrix(d.extra) :
          /\ cap.name = c.name
          /\ d.evidence[c.name].fingerprint = cap
          /\ Conforms(cap, d.evidence[c.name])
    BY <1>1, <1>2 DEF Proven
  <1>4. cap = c
    BY <1>2, <1>3 DEF Starts, ValidMatrix
  <1>5. d.evidence[c.name] = Observed(d.prober, c, c.grace - 1)
    BY <1>1, <1>2, <1>3, <1>4 DEF Proven, Honest
  <1>6. QED
    BY <1>3, <1>4, <1>5

\* In a guarded deployment, a miss that counts and that was waited for is a
\* miss at a provider that shows everything that is as old as the record.
LEMMA MissTellsTheTruth ==
  ASSUME NEW d \in Deployments, Starts(d), Guarded(d), MissCounts(d),
         NEW age \in Nat, PastGrace(d, age),
         d.prober # NoProber, NEW v \in Views, NEW args,
         Probe(d.prober, args, v, age).outcome = "not_happened"
  PROVE  v.hits = "none" /\ d.world.atomic /\ d.world.lag <= age
  <1> DEFINE p == d.prober
  <1>1. p \in Probers /\ p.kind \in {"stripe", "email", "github"} /\ p.lag \in Nat /\ d.world.lag \in Nat
    BY DeploymentsAssumption DEF Probers
  <1>2. /\ v.hits = "none"
        /\ p.kind = "stripe" => age >= p.lag
        /\ p.kind = "email" => p.authoritative /\ age >= p.lag
    BY <1>1, MissIsOldEnough
  <1>3. CASE ProberFits(d)
    BY <1>1, <1>2, <1>3 DEF ProberFits
  <1>4. ASSUME Enforce(d), KnowledgeFits(d)
        PROVE  d.world.atomic /\ \E c \in Matches(d) : c.rearm /\ d.world.lag <= c.grace
    BY <1>4, RearmIsAllowed DEF KnowledgeFits
  <1>5. CASE KnowledgeFits(d) /\ Enforce(d) /\ DefaultGrace(d)
    <2>1. PICK c \in Matches(d) : d.world.atomic /\ d.world.lag <= c.grace
      BY <1>4, <1>5
    <2>2. age >= c.grace
      BY <1>5, <2>1 DEF PastGrace, PastDefaultGrace, DefaultGrace
    <2>3. QED
      BY <1>1, <1>2, <2>1, <2>2, GracesAreNat
  <1>6. CASE KnowledgeFits(d) /\ d.strictConf /\ Honest(d)
    <2>1. Enforce(d)
      BY <1>6 DEF Enforce
    <2>2. PICK c \in Matches(d) : d.world.atomic /\ c.rearm /\ d.world.lag <= c.grace
      BY <1>4, <1>6, <2>1
    <2>3. c.grace \in Nat
      BY <2>2, GracesAreNat
    <2>4. Conforms(c, Observed(p, c, c.grace - 1))
      BY <1>6, <2>1, <2>2, RearmIsAllowed, HonestEvidenceConforms
    <2>5. /\ p.kind = "stripe" => c.grace <= p.lag
          /\ p.kind = "email" /\ p.authoritative => c.grace <= p.lag
          /\ p.kind = "github" => c.grace = 0
      BY <1>1, <2>2, <2>3, <2>4, ConformingProberWaits
    <2>6. QED
      BY <1>1, <1>2, <2>2, <2>3, <2>5
  <1>7. QED
    BY <1>3, <1>5, <1>6 DEF Guarded

\* The gates of `openonce providers` against the rules of the reconciler.
LEMMA GatesImplyResolution ==
  ASSUME NEW d, ReleaseGate(Matrix(d.extra), Matches(d), d.evidence)
  PROVE  ~Blocked(d) /\ MissCounts(d)
  <1>1. Matches(d) # {} /\ \A c \in Matches(d) : c.rearm
    BY DEF ReleaseGate, AllAutoRearm
  <1>2. Proven(Matrix(d.extra), d.evidence, Names(Matches(d)))
    BY DEF ReleaseGate, ConformanceShown
  <1>3. ~Blocked(d)
    BY <1>1, <1>2 DEF Blocked
  <1>4. QED
    BY <1>1, <1>3 DEF MissCounts, CanAutoRearm

\* Two calls with one fingerprint agree on the args that the capabilities want
\* in the key, once one of them has passed preflight.
LEMMA FingerprintsTellKeyArgs ==
  ASSUME NEW d, Starts(d), d.enforce, NEW first, NEW call,
         Preflight(d, first), Fingerprint(call) = Fingerprint(first),
         NEW f \in RequiredKeys(Matches(d))
  PROVE  f \in DOMAIN call.args /\ call.args[f] = first.args[f]
  <1>1. f \in DOMAIN first.args
    BY DEF Preflight, RequiredKeys, RequiredArgs, Starts, ValidMatrix, Matches, ForTool
  <1>2. first.explicit = << >> /\ f \in FieldsOf(first.args, first.fields)
    BY DEF Preflight
  <1>3. f \in DOMAIN Fingerprint(first) /\ Fingerprint(first)[f] = first.args[f]
    BY <1>1, <1>2 DEF Fingerprint, SelectFields, KeyFields
  <1>4. f \in DOMAIN Fingerprint(call) /\ Fingerprint(call)[f] = first.args[f]
    BY <1>3
  <1>5. CASE call.explicit # << >>
    BY <1>4, <1>5 DEF Fingerprint
  <1>6. CASE call.explicit = << >>
    <2>1. Fingerprint(call) = [g \in KeyFields(call.args, call.fields) |-> call.args[g]]
      BY <1>6 DEF Fingerprint, SelectFields
    <2>2. f \in KeyFields(call.args, call.fields) /\ call.args[f] = first.args[f]
      BY <1>4, <2>1
    <2>3. QED
      BY <2>2 DEF KeyFields
  <1>7. QED
    BY <1>5, <1>6

-----------------------------------------------------------------------------
(* What the steps do to the effect.                                        *)

rest == <<dep, sent, flying, objs>>

\* A person's decision on an effect that awaits it, and the approval of one
\* that is under review.
Decide(to) == eff.state = "requires_approval" /\ Move(to, eff.receipt) /\ UNCHANGED rest

ApproveReviewed ==
  /\ eff.state = "human_review" /\ eff.attempt < MaxRuns
  /\ dep.others \/ node.at = "approve"
  /\ Move("approved", eff.receipt) /\ UNCHANGED rest

AdmitsOne ==
  \E call \in dep.calls \cup {NoCall} : Preflight(dep, call) /\ Admit(call)

EffectStep ==
  \/ UNCHANGED resolution \/ AdmitsOne \/ Run
  \/ \E to \in {"approved", "denied"} : Decide(to)
  \/ ApproveReviewed \/ Land \/ Refuse \/ Return \/ LoseTrack \/ LoopEnds
  \/ PersonHappened \/ PersonNotHappened \/ Reconcile \/ Tick

\* What a call does, and what its caller is told.
LEMMA ExecuteSteps ==
  ASSUME NEW call \in dep.calls \cup {NoCall}, Execute(call)
  PROVE  /\ UNCHANGED resolution \/ AdmitsOne \/ Run
         /\ told' = [signal |-> told'.signal, call |-> call] /\ told'.signal \in Signals
         /\ told'.signal = "approval_required" => UNCHANGED resolution /\ eff.state = "requires_approval"
         /\ told'.signal = "denied" => UNCHANGED resolution /\ eff.state = "denied"
         /\ told'.signal = "value" =>
              /\ UNCHANGED resolution /\ eff.state = "committed"
              /\ Fingerprint(call) = Fingerprint(eff.call)
  <1>1. Signal(eff.state) \in Signals
    BY DEF Signal, Signals
  <1>2. /\ Signal(eff.state) = "approval_required" => eff.state = "requires_approval"
        /\ Signal(eff.state) = "denied" => eff.state = "denied"
        /\ Signal(eff.state) = "value" => eff.state = "committed"
    BY DEF Signal
  <1>3. CASE ~Derivable(call)
    BY <1>3 DEF Execute, Tell, Signals
  <1>4. CASE Derivable(call) /\ eff.state = "absent"
    BY <1>4 DEF Execute, Tell, Signals, AdmitsOne
  <1>5. CASE Derivable(call) /\ eff.state # "absent"
    BY <1>1, <1>2, <1>5 DEF Execute, Tell, Signals
  <1>6. QED
    BY <1>3, <1>4, <1>5

\* Every step is one of these.
LEMMA EffectSteps ==
  ASSUME node.call \in dep.calls \cup {NoCall}, [Next]_agents
  PROVE  EffectStep
  <1>1. CASE Call
    BY <1>1, ExecuteSteps DEF Call, EffectStep
  <1>2. CASE NodeEnters
    BY <1>2, ExecuteSteps DEF NodeEnters, EffectStep
  <1>3. CASE NodeResumes
    BY <1>3, ExecuteSteps DEF NodeResumes, EffectStep
  <1>4. CASE NodeApproves
    BY <1>4 DEF NodeApproves, EffectStep, Decide, ApproveReviewed, rest
  <1>5. CASE NodeDenies
    BY <1>5 DEF NodeDenies, EffectStep, Decide, rest, resolution
  <1>6. CASE NodeGoes
    BY <1>6, ExecuteSteps DEF NodeGoes, EffectStep
  <1>7. CASE CliDecides
    BY <1>7 DEF CliDecides, EffectStep, Decide, ApproveReviewed, rest
  <1>8. CASE UNCHANGED agents
    BY <1>8 DEF agents, EffectStep
  <1>9. QED
    BY <1>1, <1>2, <1>3, <1>4, <1>5, <1>6, <1>7, <1>8 DEF Next, EffectStep

\* What becomes of the callers.
LEMMA AgentSteps ==
  ASSUME TypeOK, [Next]_agents
  PROVE  /\ node' \in [at : NodeSteps, call : dep.calls \cup {NoCall}]
         /\ told'.signal \in Signals /\ told'.call \in dep.calls \cup {NoCall}
  <1>1. node \in [at : NodeSteps, call : dep.calls \cup {NoCall}]
    BY DEF TypeOK
  <1>2. CASE Call
    BY <1>1, <1>2, ExecuteSteps DEF Call
  <1>3. CASE NodeEnters
    BY <1>1, <1>3, ExecuteSteps DEF NodeEnters, NodeSteps
  <1>4. CASE NodeResumes
    BY <1>1, <1>4, ExecuteSteps DEF NodeResumes, NodeSteps, GoTo
  <1>5. CASE NodeApproves
    BY <1>1, <1>5 DEF NodeApproves, NodeSteps, GoTo, Tell, Signals, TypeOK
  <1>6. CASE NodeDenies
    BY <1>1, <1>6 DEF NodeDenies, NodeSteps, GoTo, Tell, Signals
  <1>7. CASE NodeGoes
    BY <1>1, <1>7, ExecuteSteps DEF NodeGoes, NodeSteps, GoTo
  <1>8. CASE UNCHANGED <<node, told>>
    BY <1>1, <1>8 DEF TypeOK
  <1>9. QED
    BY <1>2, <1>3, <1>4, <1>5, <1>6, <1>7, <1>8 DEF Next, agents, Same, CliDecides

-----------------------------------------------------------------------------
(* Types.  The bound on the attempts is the whole of the argument: what    *)
(* arms an effect again looks at how often it ran, and every request given *)
(* up was an attempt.                                                      *)

Record ==
  [state : States \cup {"absent"}, age : Ages, attempt : Nat, receipt : {eff.receipt},
   call : dep.calls \cup {NoCall}]

Counted ==
  /\ eff.state \in {"absent", "requires_approval"} => eff.attempt = 0
  /\ eff.state = "approved" => eff.attempt < MaxAttempts + MaxRuns
  /\ flying <= eff.attempt
  /\ sent = "out" => flying < eff.attempt

Types == TypeOK /\ eff \in Record /\ Counted

\* The part of TypeOK that is about the effect.
EffectTypes ==
  /\ dep \in Deployments
  /\ eff \in Record
  /\ eff.state # "unknown" => eff.age = 0
  /\ eff.attempt \in 0 .. (MaxAttempts + MaxRuns)
  /\ sent \in Requests /\ (sent # "none" => eff.state = "started")
  /\ flying \in 0 .. (MaxAttempts + MaxRuns)
  /\ objs \in Seq(Ages)
  /\ Counted

\* What is known of the effect and what is known of its callers.
LEMMA TypesByParts ==
  Types <=> /\ EffectTypes
            /\ node \in [at : NodeSteps, call : dep.calls \cup {NoCall}]
            /\ told.signal \in Signals /\ told.call \in dep.calls \cup {NoCall}
  BY DEF Types, TypeOK, EffectTypes, Record

\* Objects are a sequence of ages.
LEMMA ObjectsAreAges ==
  ASSUME objs \in Seq(Ages)
  PROVE  /\ Len(objs) \in Nat /\ DOMAIN objs = 1 .. Len(objs)
         /\ \A i \in 1 .. Len(objs) : objs[i] \in Ages
         /\ objs = << >> <=> Len(objs) = 0
  OBVIOUS

\* Ages are naturals, and getting older never makes one younger.
LEMMA AgesAreNat ==
  /\ Fallback \in Nat /\ Ages \subseteq Nat /\ 0 \in Ages
  /\ \A age \in Ages : Older(age) \in Ages /\ Older(age) >= age
  BY WindowAssumption DEF Ages, Older

\* Where a move leads; it puts the age back and keeps the rest.
LEMMA MoveTypes ==
  ASSUME EffectTypes, NEW to \in States, NEW receipt, Move(to, receipt), UNCHANGED dep
  PROVE  /\ eff' \in Record'
         /\ eff'.state = to /\ eff'.age = 0 /\ eff'.attempt = eff.attempt
         /\ eff'.receipt = receipt /\ eff'.call = eff.call
  BY AgesAreNat DEF EffectTypes, Record, Move

\* What is recorded of a new effect, and of one that starts.
LEMMA AdmitTypes ==
  ASSUME EffectTypes, NEW call \in dep.calls \cup {NoCall}, Admit(call)
  PROVE  /\ eff' \in Record'
         /\ eff'.state \in {"requires_approval", "approved"} /\ eff'.age = 0 /\ eff'.attempt = 0
         /\ eff'.receipt = NoReceipt /\ eff'.call = call
  <1>1. eff' = [state |-> IF dep.review THEN "requires_approval" ELSE "approved",
                age |-> 0, attempt |-> 0, receipt |-> NoReceipt, call |-> call]
    BY DEF Admit, Absent
  <1>2. /\ eff'.state \in {"requires_approval", "approved"} /\ eff'.age = 0 /\ eff'.attempt = 0
        /\ eff'.receipt = NoReceipt /\ eff'.call = call
    BY <1>1
  <1>3. eff' \in [state : States \cup {"absent"}, age : Ages, attempt : Nat,
                  receipt : {NoReceipt}, call : dep.calls \cup {NoCall}]
    BY <1>1, AgesAreNat DEF States
  <1>4. QED
    BY <1>2, <1>3 DEF Record, Admit

\* What an attempt does to the record.
LEMMA RunTypes ==
  ASSUME EffectTypes, Run
  PROVE  /\ eff' \in Record'
         /\ eff'.state = "started" /\ eff'.age = 0 /\ eff'.attempt = eff.attempt + 1
         /\ eff'.receipt = eff.receipt /\ eff'.call = eff.call
  <1>1. eff' = [state |-> "started", age |-> 0, attempt |-> eff.attempt + 1,
                receipt |-> eff.receipt, call |-> eff.call]
    BY DEF EffectTypes, Record, Run
  <1>2. QED
    BY <1>1, AgesAreNat DEF EffectTypes, Record, Run, States

\* Time makes the objects older, none fewer, and the record at most older.
LEMMA TickTypes ==
  ASSUME EffectTypes, Tick
  PROVE  /\ objs' \in Seq(Ages) /\ Len(objs') = Len(objs)
         /\ objs' = << >> <=> objs = << >>
         /\ \A i \in 1 .. Len(objs) : objs'[i] = Older(objs[i])
         /\ eff' \in Record'
         /\ eff'.state = eff.state /\ eff'.attempt = eff.attempt
         /\ eff'.receipt = eff.receipt /\ eff'.call = eff.call
         /\ eff'.age = IF eff.state = "unknown" THEN Older(eff.age) ELSE eff.age
  <1>1. objs \in [1 .. Len(objs) -> Ages] /\ Len(objs) \in Nat /\ DOMAIN objs = 1 .. Len(objs)
    BY DEF EffectTypes
  <1>2. objs' = [i \in 1 .. Len(objs) |-> Older(objs[i])]
    BY <1>1 DEF Tick
  <1>3. objs' \in [1 .. Len(objs) -> Ages]
    BY <1>1, <1>2, AgesAreNat
  <1>4. objs' \in Seq(Ages) /\ Len(objs') = Len(objs) /\ (objs' = << >> <=> objs = << >>)
    BY <1>1, <1>3, ObjectsAreAges DEF EffectTypes
  <1>5. eff' = IF eff.state = "unknown" THEN [eff EXCEPT !.age = Older(eff.age)] ELSE eff
    BY DEF Tick
  <1>6. /\ eff \in Record
        /\ IF eff.state = "unknown" THEN Older(eff.age) \in Ages ELSE TRUE
    BY AgesAreNat DEF EffectTypes, Record
  <1>7. /\ eff'.state = eff.state /\ eff'.attempt = eff.attempt
        /\ eff'.receipt = eff.receipt /\ eff'.call = eff.call
        /\ eff'.age = IF eff.state = "unknown" THEN Older(eff.age) ELSE eff.age
    BY <1>5, <1>6 DEF Record
  <1>8. eff' \in Record'
    <2>1. eff' \in Record
      BY <1>5, <1>6 DEF Record
    <2>2. QED
      BY <1>7, <2>1 DEF Record, Tick
  <1>9. \A i \in 1 .. Len(objs) : objs'[i] = Older(objs[i])
    BY <1>2
  <1>10. QED
    BY <1>4, <1>7, <1>8, <1>9

\* Once a request is carried out there is an object; the first one is alone.
LEMMA CarriedTypes ==
  ASSUME EffectTypes
  PROVE  /\ Carried \in Seq(Ages) /\ Carried # << >>
         /\ objs = << >> => Len(Carried) <= 1
  BY AgesAreNat, ObjectsAreAges DEF Carried, EffectTypes

\* A request that lands was on its way.
LEMMA LandTypes ==
  ASSUME EffectTypes, Land
  PROVE  /\ flying # 0 \/ (sent = "out" /\ eff.state = "started")
         /\ objs' = Carried /\ eff' = eff /\ dep' = dep
         /\ sent' = "landed" => sent = "landed" \/ sent = "out"
  BY DEF EffectTypes, Land

\* The four states an answer can lead to, and what two of them rest on.
LEMMA VerdictStates ==
  ASSUME NEW d, NEW e, NEW result
  PROVE  /\ Verdict(d, e, result) \in {"committed", "failed", "approved", "human_review"}
         /\ Verdict(d, e, result) = "committed" =>
              result.outcome = "happened" /\ HappenedCounts(d, e.call.args, result.receipt)
         /\ Verdict(d, e, result) \in {"failed", "approved"} =>
              result.outcome = "not_happened" /\ MissCounts(d)
         /\ Verdict(d, e, result) = "approved" => ~(e.attempt >= MaxAttempts)
  BY DEF Verdict

\* Every step on the effect keeps the values of its variables in range.
LEMMA EffectTypesKept ==
  ASSUME EffectTypes, EffectStep
  PROVE  EffectTypes'
  <1> USE BoundsAssumption, AgesAreNat
  <1>1. CASE UNCHANGED resolution
    BY <1>1 DEF resolution, EffectTypes, Record, Counted
  <1>2. CASE AdmitsOne
    <2>1. PICK call \in dep.calls \cup {NoCall} : Admit(call)
      BY <1>2 DEF AdmitsOne
    <2>2. /\ eff.state = "absent" /\ eff.attempt = 0 /\ sent = "none" /\ flying = 0
          /\ UNCHANGED <<dep, sent, flying, objs>>
      BY <2>1 DEF Admit, EffectTypes, Counted
    <2>3. QED
      BY <2>1, <2>2, AdmitTypes DEF EffectTypes, Counted, Requests
  <1>3. CASE Run
    BY <1>3, RunTypes DEF Run, EffectTypes, Counted, Requests
  <1>4. CASE \E to \in {"approved", "denied"} : Decide(to)
    BY <1>4, MoveTypes DEF Decide, rest, EffectTypes, Counted, States
  <1>5. CASE ApproveReviewed
    BY <1>5, MoveTypes DEF ApproveReviewed, rest, EffectTypes, Counted, States
  <1>6. CASE Land
    <2>1. Carried \in Seq(Ages)
      BY CarriedTypes
    <2>2. QED
      BY <1>6, <2>1 DEF Land, EffectTypes, Record, Counted, Requests
  <1>7. CASE Refuse
    BY <1>7, MoveTypes DEF Refuse, EffectTypes, Counted, States, Requests
  <1>8. CASE Return
    BY <1>8, MoveTypes DEF Return, EffectTypes, Counted, States, Requests
  <1>9. CASE LoseTrack
    BY <1>9, MoveTypes DEF LoseTrack, LetGo, EffectTypes, Counted, States, Requests
  <1>10. CASE LoopEnds
    BY <1>10, MoveTypes DEF LoopEnds, LetGo, EffectTypes, Counted, States, Requests
  <1>11. CASE PersonHappened
    BY <1>11, MoveTypes DEF PersonHappened, EffectTypes, Counted, States
  <1>12. CASE PersonNotHappened
    BY <1>12, MoveTypes DEF PersonNotHappened, EffectTypes, Counted, States
  <1>13. CASE Reconcile
    <2>1. PICK result \in Answers : \E receipt : Move(Verdict(dep, eff, result), receipt)
      BY <1>13 DEF Reconcile
    <2>2. Verdict(dep, eff, result) \in States
      BY VerdictStates DEF States
    <2>3. QED
      BY <1>13, <2>1, <2>2, VerdictStates, MoveTypes DEF Reconcile, EffectTypes, Counted
  <1>14. CASE Tick
    BY <1>14, TickTypes DEF Tick, EffectTypes, Counted
  <1>15. QED
    BY <1>1, <1>2, <1>3, <1>4, <1>5, <1>6, <1>7, <1>8, <1>9, <1>10, <1>11, <1>12, <1>13, <1>14
       DEF EffectStep

\* No step changes the deployment.
LEMMA DeploymentsStay == EffectStep => dep' = dep
  BY DEF EffectStep, resolution, rest, AdmitsOne, Admit, Run, Decide, ApproveReviewed, Land, Refuse,
         Return, LoseTrack, LoopEnds, PersonHappened, PersonNotHappened, Reconcile, Tick

\* The variables always have the values the code gives them: nobody runs an
\* effect more often than the attempts and the approvals allow.
THEOREM TypesHold == Spec => []Types
  <1>1. Init => Types
    <2> SUFFICES ASSUME Init PROVE Types
      OBVIOUS
    <2>1. eff \in Record /\ objs = << >> /\ eff = Absent
      BY AgesAreNat DEF Init, ResolutionInit, Absent, Record
    <2>2. QED
      BY <2>1, BoundsAssumption, AgesAreNat
         DEF Init, ResolutionInit, Absent, Types, TypeOK, Counted, Requests, NodeSteps, Signals, States
  <1>2. Types /\ [Next]_agents => Types'
    <2> SUFFICES ASSUME Types, [Next]_agents PROVE Types'
      OBVIOUS
    <2>1. EffectTypes /\ TypeOK /\ node.call \in dep.calls \cup {NoCall}
      BY TypesByParts DEF Types, TypeOK
    <2>2. EffectStep
      BY <2>1, EffectSteps
    <2>3. EffectTypes' /\ dep' = dep
      BY <2>1, <2>2, EffectTypesKept, DeploymentsStay
    <2>4. /\ node' \in [at : NodeSteps, call : dep'.calls \cup {NoCall}]
          /\ told'.signal \in Signals /\ told'.call \in dep'.calls \cup {NoCall}
      BY <2>1, <2>3, AgentSteps
    <2>5. QED
      BY <2>3, <2>4, TypesByParts DEF Types, TypeOK, EffectTypes, Record, Counted
  <1>3. QED
    BY <1>1, <1>2, PTL DEF Spec

\* The type invariant of the runs, from the one that counts the runs with it.
THEOREM TypeCorrectness == Spec => []TypeOK
  BY TypesHold, PTL DEF Types

-----------------------------------------------------------------------------
(* What an answer says of the provider.                                    *)

\* A prober that reports an object was shown one.
LEMMA HappenedWasShown ==
  ASSUME NEW p \in Probers, NEW v \in Views, NEW args, NEW age,
         Probe(p, args, v, age).outcome = "happened"
  PROVE  v.hits \in {"one", "many"}
  <1>1. p.kind \in {"stripe", "email", "github"} /\ v.hits \in {"none", "one", "many"}
    BY DEF Probers, Views
  <1>2. CASE p.kind = "stripe"
    BY <1>1, <1>2 DEF Probe, StripeProbe, Miss, ProbeResult
  <1>3. CASE p.kind = "email"
    BY <1>1, <1>3 DEF Probe, EmailProbe, Miss, ProbeResult, Inconclusive
  <1>4. CASE p.kind = "github"
    BY <1>1, <1>4 DEF Probe, GithubProbe, ProbeResult, Inconclusive
  <1>5. QED
    BY <1>1, <1>2, <1>3, <1>4

\* A definitive answer is a prober's, of something it was shown.
LEMMA DefinitiveAnswers ==
  ASSUME dep \in Deployments, NEW result \in Answers, result.outcome # "inconclusive"
  PROVE  /\ dep.prober \in Probers /\ dep.prober # NoProber
         /\ \E v \in Shown : result = Probe(dep.prober, eff.call.args, v, eff.age)
  BY DeploymentsAssumption DEF Answers, Inconclusive, ProbeResult

\* What is reported as happened did happen.
LEMMA HappenedAnswers ==
  ASSUME dep \in Deployments, NEW result \in Answers, result.outcome = "happened"
  PROVE  objs # << >>
  <1>1. PICK v \in Shown : result = Probe(dep.prober, eff.call.args, v, eff.age)
    BY DefinitiveAnswers
  <1>2. v \in Views
    BY <1>1 DEF Shown
  <1>3. v.hits \in {"one", "many"}
    BY <1>1, <1>2, DefinitiveAnswers, HappenedWasShown
  <1>4. Visible # {}
    BY <1>1, <1>3 DEF Shown
  <1>5. QED
    BY <1>4 DEF Visible

\* A miss that counts is the truth, where no object is younger than the record.
LEMMA MissAnswers ==
  ASSUME EffectTypes, Starts(dep), Guarded(dep), MissCounts(dep), PastGrace(dep, eff.age),
         \A i \in 1 .. Len(objs) : objs[i] >= eff.age,
         NEW result \in Answers, result.outcome = "not_happened"
  PROVE  objs = << >>
  <1>1. PICK v \in Shown : result = Probe(dep.prober, eff.call.args, v, eff.age)
    BY DefinitiveAnswers DEF EffectTypes
  <1>2. v \in Views /\ dep.prober # NoProber /\ dep \in Deployments /\ eff.age \in Nat
    BY <1>1, DefinitiveAnswers, AgesAreNat DEF Shown, EffectTypes, Record
  <1>3. v.hits = "none" /\ dep.world.atomic /\ dep.world.lag <= eff.age
    BY <1>1, <1>2, MissTellsTheTruth
  <1>4. Visible = {}
    BY <1>1, <1>3 DEF Shown
  <1>5. \A i \in 1 .. Len(objs) : objs[i] \in Nat /\ i \in DOMAIN objs
    BY AgesAreNat, ObjectsAreAges DEF EffectTypes
  <1>6. dep.world.lag \in Nat
    BY <1>2, DeploymentsAssumption
  <1>7. \A i \in 1 .. Len(objs) : i \in Visible
    BY <1>2, <1>3, <1>5, <1>6 DEF Visible
  <1>8. QED
    BY <1>4, <1>7, ObjectsAreAges DEF EffectTypes

-----------------------------------------------------------------------------
(* What the ledger says, in every deployment.                              *)

\* What is committed is there, and so is what the handler returned from;
\* nothing is there of an effect that was not let through.
Evidenced ==
  /\ Starts(dep)
  /\ eff.state # "absent" => Preflight(dep, eff.call)
  /\ eff.state \in {"absent", "requires_approval", "denied"} => objs = << >> /\ flying = 0
  /\ sent = "landed" => objs # << >>
  /\ CommittedHappened
  /\ CommittedHasEvidence

\* A person's receipt is held against the contract, unless the command is bare.
LEMMA ManualEvidence ==
  ASSUME dep \in Deployments, dep.enforce, dep.manual # "bare cli", NEW args, NEW receipt,
         ManualContract(dep, args, receipt)
  PROVE  MeetsContract(Matches(dep), args, receipt)
  BY DeploymentsAssumption DEF ManualContract, HandlerContract, Resolvers

\* Every step on the effect keeps its evidence: one case per action.
LEMMA EvidencedKept ==
  ASSUME EffectTypes, Evidenced, EffectStep
  PROVE  Evidenced'
  <1> USE DEF Evidenced, CommittedHappened, CommittedHasEvidence
  <1>0. dep' = dep
    BY DeploymentsStay
  <1>1. CASE UNCHANGED resolution
    BY <1>1 DEF resolution
  <1>2. CASE AdmitsOne
    BY <1>0, <1>2, AdmitTypes DEF AdmitsOne, Admit
  <1>3. CASE Run
    BY <1>0, <1>3, RunTypes DEF Run
  <1>4. CASE \E to \in {"approved", "denied"} : Decide(to)
    BY <1>0, <1>4, MoveTypes DEF Decide, rest, States
  <1>5. CASE ApproveReviewed
    BY <1>0, <1>5, MoveTypes DEF ApproveReviewed, rest, States
  <1>6. CASE Land
    <2>1. objs' # << >>
      BY <1>6, CarriedTypes DEF Land
    <2>2. flying # 0 \/ eff.state = "started"
      BY <1>6, LandTypes
    <2>3. QED
      BY <1>6, <2>1, <2>2 DEF Land
  <1>7. CASE Refuse
    BY <1>0, <1>7, MoveTypes DEF Refuse, States
  <1>8. CASE Return
    <2> DEFINE to(r) == IF HandlerContract(dep, eff.call.args, r) THEN "committed" ELSE "human_review"
    <2>1. PICK r : Move(to(r), r)
      BY <1>8 DEF Return
    <2>2. to(r) \in States /\ to(r) \in {"committed", "human_review"}
      BY DEF States
    <2>3. eff'.call = eff.call /\ eff'.receipt = r /\ eff'.state = to(r)
      BY <1>0, <2>1, <2>2, MoveTypes
    <2>4. QED
      BY <1>0, <1>8, <2>2, <2>3 DEF Return, HandlerContract
  <1>9. CASE LoseTrack
    BY <1>0, <1>9, MoveTypes DEF LoseTrack, LetGo, States
  <1>10. CASE LoopEnds
    BY <1>0, <1>10, MoveTypes DEF LoopEnds, LetGo, States
  <1>11. CASE PersonHappened
    <2>1. PICK r : ManualContract(dep, eff.call.args, r) /\ Move("committed", r)
      BY <1>11 DEF PersonHappened
    <2>2. eff'.call = eff.call /\ eff'.receipt = r /\ eff'.state = "committed"
      BY <1>0, <2>1, MoveTypes DEF States
    <2>3. QED
      BY <1>0, <1>11, <2>1, <2>2, ManualEvidence DEF PersonHappened, EffectTypes
  <1>12. CASE PersonNotHappened
    BY <1>0, <1>12, MoveTypes DEF PersonNotHappened, States
  <1>13. CASE Reconcile
    <2> DEFINE to(result) == Verdict(dep, eff, result)
    <2>1. PICK result \in Answers :
            Move(to(result), IF to(result) = "committed" THEN result.receipt ELSE NoReceipt)
      BY <1>13 DEF Reconcile
    <2>2. to(result) \in States /\ to(result) \notin {"absent", "requires_approval", "denied"}
      BY VerdictStates DEF States
    <2>3. /\ eff'.call = eff.call /\ eff'.state = to(result)
          /\ eff'.receipt = IF to(result) = "committed" THEN result.receipt ELSE NoReceipt
      BY <1>0, <2>1, <2>2, MoveTypes
    <2>4. to(result) = "committed" =>
            /\ objs # << >>
            /\ Enforce(dep) => MeetsContract(Matches(dep), eff.call.args, result.receipt)
      BY VerdictStates, HappenedAnswers, <2>1 DEF HappenedCounts, EffectTypes
    <2>5. QED
      BY <1>0, <1>13, <2>2, <2>3, <2>4 DEF Reconcile
  <1>14. CASE Tick
    BY <1>0, <1>14, TickTypes DEF Tick, EffectTypes
  <1>15. QED
    BY <1>1, <1>2, <1>3, <1>4, <1>5, <1>6, <1>7, <1>8, <1>9, <1>10, <1>11, <1>12, <1>13, <1>14
       DEF EffectStep

\* An effect has its evidence in every reachable state.
LEMMA EvidencedHolds == Spec => []Evidenced
  <1>1. Init => Evidenced
    BY DEF Init, ResolutionInit, Absent, Evidenced, CommittedHappened, CommittedHasEvidence
  <1>2. Types /\ Evidenced /\ [Next]_agents => Evidenced'
    BY TypesByParts, EffectSteps, EvidencedKept DEF Types
  <1>3. QED
    BY <1>1, <1>2, TypesHold, PTL DEF Spec

\* An effect is committed only if it happened, whoever commits it.
THEOREM CommittedIsReal == Spec => []CommittedHappened
  BY EvidencedHolds, PTL DEF Evidenced

\* With every enforcement on, nothing is committed without the evidence that
\* the capabilities ask for.
THEOREM EvidenceIsComplete == Spec => []CommittedHasEvidence
  BY EvidencedHolds, PTL DEF Evidenced

\* Where the gates of `openonce providers` pass, the reconciler's answers count.
THEOREM GatesAgree == Spec => []GateAgrees
  <1>1. GateAgrees
    BY GatesImplyResolution DEF GateAgrees
  <1>2. QED
    BY <1>1, PTL

-----------------------------------------------------------------------------
(* What callers are told, in every deployment.                             *)

\* A caller that was told a value or a denial was told it of a settled effect,
\* for a call of the same fingerprint.
ToldTrue ==
  /\ told.signal = "denied" => eff.state = "denied"
  /\ told.signal = "value" => eff.state = "committed" /\ Fingerprint(told.call) = Fingerprint(eff.call)

\* What is denied or committed stays so, and is the effect of the same call.
LEMMA SettledStays ==
  ASSUME EffectTypes, EffectStep, eff.state \in {"denied", "committed"}
  PROVE  eff'.state = eff.state /\ eff'.call = eff.call
  <1>1. CASE UNCHANGED resolution
    BY <1>1 DEF resolution
  <1>2. CASE Tick
    BY <1>2, TickTypes
  <1>3. CASE Land
    BY <1>3, LandTypes
  <1>4. QED
    BY <1>1, <1>2, <1>3
       DEF EffectStep, AdmitsOne, Admit, Run, Decide, ApproveReviewed, Refuse, Return, LoseTrack,
           LoopEnds, PersonHappened, PersonNotHappened, Reconcile

\* No step takes back what a caller was told.
LEMMA ToldTrueKept ==
  ASSUME Types, ToldTrue, [Next]_agents
  PROVE  ToldTrue'
  <1>1. EffectTypes /\ EffectStep /\ node.call \in dep.calls \cup {NoCall}
    BY TypesByParts, EffectSteps DEF Types, TypeOK
  <1>2. CASE told' = told
    <2>1. told.signal \in {"denied", "value"} => eff'.state = eff.state /\ eff'.call = eff.call
      BY <1>1, SettledStays DEF ToldTrue
    <2>2. QED
      BY <1>2, <2>1 DEF ToldTrue
  <1>3. ASSUME NEW call \in dep.calls \cup {NoCall}, Execute(call)
        PROVE  ToldTrue'
    BY <1>3, ExecuteSteps DEF ToldTrue, resolution
  <1>4. CASE NodeApproves
    BY <1>2, <1>4 DEF NodeApproves, Tell, ToldTrue
  <1>5. CASE NodeDenies
    <2>1. CASE eff.state = "requires_approval"
      BY <1>1, <1>5, <2>1, MoveTypes DEF NodeDenies, Tell, ToldTrue, States
    <2>2. CASE eff.state # "requires_approval"
      BY <1>5, <2>2 DEF NodeDenies, Tell, ToldTrue
    <2>3. QED
      BY <2>1, <2>2
  <1>6. QED
    BY <1>1, <1>2, <1>3, <1>4, <1>5
       DEF Next, Call, NodeEnters, NodeResumes, NodeGoes, CliDecides, Same, agents

\* What a caller was told stays true.
LEMMA ToldTrueHolds == Spec => []ToldTrue
  <1>1. Init => ToldTrue
    BY DEF Init, ToldTrue
  <1>2. QED
    BY <1>1, ToldTrueKept, TypesHold, PTL DEF Spec

\* A caller that is told the effect was denied can rely on it.
THEOREM DenialsStand == Spec => []DenialStands
  <1>1. ToldTrue /\ Evidenced => DenialStands
    BY DEF ToldTrue, Evidenced, DenialStands
  <1>2. QED
    BY <1>1, ToldTrueHolds, EvidencedHolds, PTL

\* A caller is answered with the value of an effect whose key args are its own.
THEOREM AnswersAreForOwnCalls == Spec => []AnsweredForOwnCall
  <1>1. ToldTrue /\ Evidenced => AnsweredForOwnCall
    BY FingerprintsTellKeyArgs DEF ToldTrue, Evidenced, AnsweredForOwnCall
  <1>2. QED
    BY <1>1, ToldTrueHolds, EvidencedHolds, PTL

-----------------------------------------------------------------------------
(* The side effect takes place once.                                       *)

\* While the graph waits for its decision, the effect waits for it too, unless
\* others act on it.
GraphWaits ==
  node.at \in {"paused", "approve", "deny"} =>
    dep.agent = "langgraph" /\ (~dep.others => eff.state = "requires_approval")

\* Nothing lands behind a prompt provider's back, so that what has landed is
\* at least as old as an unknown record, and nothing has where the effect is
\* armed, on its way or refused.
Bare ==
  \/ eff.state \in {"absent", "requires_approval", "approved", "denied"}
  \/ sent = "out"
  \/ eff.state = "failed" /\ ~dep.world.cancels

Once ==
  /\ dep.world.prompt => flying = 0
  /\ Guarded(dep) =>
       /\ Len(objs) <= 1
       /\ Bare => objs = << >>
       /\ eff.state = "unknown" => \A i \in 1 .. Len(objs) : objs[i] >= eff.age

\* No step of the effect or of the graph makes it wait for nothing.
LEMMA GraphWaitsKept ==
  ASSUME Types, GraphWaits, [Next]_agents
  PROVE  GraphWaits'
  <1>1. EffectTypes /\ EffectStep /\ node.call \in dep.calls \cup {NoCall} /\ dep' = dep
    BY TypesByParts, EffectSteps, DeploymentsStay DEF Types, TypeOK
  <1>2. node \in [at : NodeSteps, call : dep.calls \cup {NoCall}]
    BY DEF Types, TypeOK
  <1>3. CASE NodeEnters
    BY <1>1, <1>3, ExecuteSteps DEF NodeEnters, GraphWaits, resolution
  <1>4. CASE NodeResumes
    BY <1>1, <1>2, <1>4, ExecuteSteps DEF NodeResumes, GoTo, GraphWaits, resolution
  <1>5. CASE NodeApproves
    BY <1>1, <1>2, <1>5 DEF NodeApproves, GoTo, GraphWaits
  <1>6. CASE NodeDenies
    BY <1>1, <1>2, <1>6 DEF NodeDenies, GoTo, GraphWaits
  <1>7. CASE NodeGoes
    BY <1>1, <1>2, <1>7 DEF NodeGoes, GoTo, GraphWaits
  <1>8. CASE node' = node /\ (dep.agent # "langgraph" \/ dep.others \/ eff' = eff)
    BY <1>1, <1>8 DEF GraphWaits
  <1>9. CASE node' = node /\ eff.state # "requires_approval"
    BY <1>1, <1>9 DEF GraphWaits
  <1>10. QED
    BY <1>3, <1>4, <1>5, <1>6, <1>7, <1>8, <1>9
       DEF Next, Call, CliDecides, Same, agents, resolution, Land, Refuse, Return, LoseTrack, LoopEnds,
           PersonHappened, PersonNotHappened, Reconcile, Tick

\* Every step keeps the objects of a guarded effect at one: the step that
\* matters is the reconciler's re-arm, which MissAnswers lets through only where
\* there is none.
LEMMA OnceKept ==
  ASSUME EffectTypes, Evidenced, GraphWaits, Once, EffectStep
  PROVE  Once'
  <1>0. dep' = dep
    BY DeploymentsStay
  <1>1. CASE UNCHANGED resolution
    BY <1>1 DEF resolution, Once, Bare
  <1>2. CASE AdmitsOne
    BY <1>0, <1>2, AdmitTypes DEF AdmitsOne, Admit, Once, Bare
  <1>3. CASE Run
    BY <1>0, <1>3, RunTypes DEF Run, Once, Bare
  <1>4. CASE \E to \in {"approved", "denied"} : Decide(to)
    BY <1>0, <1>4, MoveTypes DEF Decide, rest, States, Once, Bare
  <1>5. CASE ApproveReviewed
    <2>1. ~Guarded(dep)
      BY <1>5 DEF ApproveReviewed, GraphWaits, Guarded
    <2>2. QED
      BY <1>0, <1>5, <2>1 DEF ApproveReviewed, rest, Once
  <1>6. CASE Land
    <2>1. dep.world.prompt => flying' = 0 /\ sent = "out" /\ sent' = "landed" /\ eff.state = "started"
      BY <1>6, LandTypes DEF Land, Once, EffectTypes
    <2>2. Guarded(dep) => Len(objs') <= 1
      BY <1>6, <2>1, LandTypes, CarriedTypes DEF Guarded, Once, Bare
    <2>3. dep'.world.prompt => flying' = 0
      BY <1>0, <2>1
    <2>4. Guarded(dep) => dep.world.prompt
      BY DEF Guarded
    <2>5. Guarded(dep) => eff'.state = "started" /\ sent' = "landed"
      BY <1>6, <2>1, <2>4, LandTypes
    <2>6. QED
      BY <1>0, <2>2, <2>3, <2>5 DEF Once, Bare
  <1>7. CASE Refuse
    BY <1>0, <1>7, MoveTypes DEF Refuse, States, Once, Bare
  <1>8. CASE Return
    <2> DEFINE to(r) == IF HandlerContract(dep, eff.call.args, r) THEN "committed" ELSE "human_review"
    <2>1. PICK r : Move(to(r), r)
      BY <1>8 DEF Return
    <2>2. to(r) \in States /\ to(r) \in {"committed", "human_review"}
      BY DEF States
    <2>3. eff'.state = to(r)
      BY <1>0, <2>1, <2>2, MoveTypes
    <2>4. QED
      BY <1>0, <1>8, <2>2, <2>3 DEF Return, Once, Bare
  <1>9. CASE LoseTrack
    <2>1. eff'.state = "unknown" /\ eff'.age = 0 /\ sent' = "none" /\ objs' = objs
      BY <1>0, <1>9, MoveTypes DEF LoseTrack, LetGo, States
    <2>2. dep.world.prompt => flying' = 0
      BY <1>9 DEF LoseTrack, LetGo, Once
    <2>3. objs \in Seq(Ages)
      BY DEF EffectTypes
    <2>4. \A i \in 1 .. Len(objs) : objs[i] \in Nat
      BY <2>3, ObjectsAreAges, AgesAreNat
    <2>5. \A i \in 1 .. Len(objs) : objs[i] >= 0
      BY <2>4
    <2>6. QED
      BY <1>0, <2>1, <2>2, <2>5 DEF Once, Bare
  <1>10. CASE LoopEnds
    <2>1. eff'.state = "failed" /\ sent' = "none" /\ objs' = objs /\ dep.world.cancels
      BY <1>0, <1>10, MoveTypes DEF LoopEnds, LetGo, States
    <2>2. dep.world.prompt => flying' = 0
      BY <1>10 DEF LoopEnds, LetGo, Once
    <2>3. QED
      BY <1>0, <2>1, <2>2 DEF Once, Bare
  <1>11. CASE PersonHappened
    BY <1>0, <1>11, MoveTypes DEF PersonHappened, States, Once, Bare, EffectTypes
  <1>12. CASE PersonNotHappened
    BY <1>0, <1>12, MoveTypes DEF PersonNotHappened, States, Once, Bare, EffectTypes
  <1>13. CASE Reconcile
    <2> DEFINE to(result) == Verdict(dep, eff, result)
    <2>1. PICK result \in Answers :
            Move(to(result), IF to(result) = "committed" THEN result.receipt ELSE NoReceipt)
      BY <1>13 DEF Reconcile
    <2>2. to(result) \in States /\ to(result) \in {"committed", "failed", "approved", "human_review"}
      BY VerdictStates DEF States
    <2>3. eff'.state = to(result)
      BY <1>0, <2>1, <2>2, MoveTypes
    <2>4. sent = "none" /\ eff.state = "unknown" /\ PastGrace(dep, eff.age)
      BY <1>13 DEF Reconcile, EffectTypes
    <2>5. Guarded(dep) /\ to(result) \in {"failed", "approved"} => objs = << >>
      BY <2>1, <2>4, VerdictStates, MissAnswers DEF Once, Evidenced
    <2>6. QED
      BY <1>0, <1>13, <2>2, <2>3, <2>4, <2>5 DEF Reconcile, Once, Bare
  <1>14. CASE Tick
    <2>1. \A i \in 1 .. Len(objs) : objs[i] >= eff.age => Older(objs[i]) >= Older(eff.age)
      BY ObjectsAreAges, AgesAreNat DEF EffectTypes, Record, Older, Ages
    <2>2. UNCHANGED <<sent, flying>> /\ Bare' = Bare
      BY <1>0, <1>14, TickTypes DEF Tick, Bare
    <2>3. QED
      BY <1>0, <2>1, <2>2, TickTypes, <1>14 DEF Once
  <1>15. QED
    BY <1>1, <1>2, <1>3, <1>4, <1>5, <1>6, <1>7, <1>8, <1>9, <1>10, <1>11, <1>12, <1>13, <1>14
       DEF EffectStep

\* The two invariants of the graph and of the objects, together.
LEMMA OnceHolds == Spec => []Once
  <1>1. Init => GraphWaits /\ Once
    BY DEF Init, ResolutionInit, Absent, GraphWaits, Once
  <1>2. Types /\ Evidenced /\ GraphWaits /\ Once /\ [Next]_agents => GraphWaits' /\ Once'
    BY TypesByParts, EffectSteps, GraphWaitsKept, OnceKept DEF Types
  <1>3. QED
    BY <1>1, <1>2, TypesHold, EvidencedHolds, PTL DEF Spec

\* The side effect of a guarded effect takes place at most once, whatever the
\* team's knowledge, configuration, prober and provider.
THEOREM OneObjectOnly == Spec => []OneObject
  <1>1. Once => OneObject
    BY DEF Once, OneObject
  <1>2. QED
    BY <1>1, OnceHolds, PTL

\* A guarded effect that failed did not happen, unless a loop was cancelled.
THEOREM FailuresHold == Spec => []FailuresAreReal
  <1>1. Once => FailuresAreReal
    BY DEF Once, Bare, FailuresAreReal
  <1>2. QED
    BY <1>1, OnceHolds, PTL
=============================================================================
