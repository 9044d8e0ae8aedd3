----------------------------- MODULE Settlement -----------------------------
(***************************************************************************)
(* What the provider layer owes its users: that the ledger's word on an    *)
(* effect is the truth about the provider, wherever what the team knows of *)
(* the provider, or what it has shown of its prober, is true.              *)
(***************************************************************************)
EXTENDS Agents

-----------------------------------------------------------------------------
(* What has to be true of a deployment, for its misses to be believed.       *)

\* The prober knows how long its provider's searches lag, and that a miss is
\* no proof where the sent store is not written with the send.
ProberFits(d) ==
  /\ d.prober.kind = "github" => d.world.lag = 0 /\ d.world.atomic
  /\ d.prober.kind = "stripe" \/ (d.prober.kind = "email" /\ d.prober.authoritative) =>
       d.world.lag <= d.prober.lag /\ d.world.atomic

\* What the capabilities in use say of the provider: one of them forbids to
\* re-arm on a miss, or its sends are atomic and one of the graces covers its lag.
KnowledgeFits(d) ==
  \/ \E c \in Matches(d) : ~c.rearm
  \/ d.world.atomic /\ \E c \in Matches(d) : d.world.lag <= c.grace

DefaultGrace(d) == d.override = {} /\ d.grace = {}

\* The conformance file holds what was observed of this prober, the young
\* misses one tick short of the grace.
Honest(d) ==
  \A name \in DOMAIN d.evidence :
    \E cap \in {d.evidence[name].fingerprint} :
      cap.name = name /\ d.evidence[name] = Observed(d.prober, cap, cap.grace - 1)

\* An effect whose misses are to be believed: no request lands after its
\* handler is given up, nobody approves it while it is under review or behind
\* the graph's back, and either the prober fits, or the team's knowledge does and the code is made to heed it.
Guarded(d) ==
  /\ d.world.prompt
  /\ ~d.others
  /\ \/ ProberFits(d)
     \/ KnowledgeFits(d) /\ Enforce(d) /\ DefaultGrace(d)
     \/ KnowledgeFits(d) /\ d.strictConf /\ Honest(d)

-----------------------------------------------------------------------------
\* The variables have the values the code gives them.
TypeOK ==
  /\ dep \in Deployments
  /\ eff.state \in States \cup {"absent"}
  /\ eff.age \in Ages /\ (eff.state # "unknown" => eff.age = 0)
  /\ eff.attempt \in 0 .. (MaxAttempts + MaxRuns)
  /\ eff.call \in dep.calls \cup {NoCall}
  /\ sent \in Requests /\ (sent # "none" => eff.state = "started")
  /\ flying \in 0 .. (MaxAttempts + MaxRuns)
  /\ objs \in Seq(Ages)
  /\ node \in [at : NodeSteps, call : dep.calls \cup {NoCall}]
  /\ told.signal \in Signals /\ told.call \in dep.calls \cup {NoCall}

\* The side effect takes place at most once, at a provider that does not dedupe
\* too: re-arming on a miss is right in a guarded deployment (reconciler.py
\* _resolve, the probers, the capabilities' graces and conformance).
OneObject == Guarded(dep) => Len(objs) <= 1

\* An effect is committed only if it happened, whoever commits it.
CommittedHappened == eff.state = "committed" => objs # << >>

\* With every enforcement on, nothing is committed without the evidence the
\* capabilities ask for: by the handler, the reconciler or a person.
CommittedHasEvidence ==
  dep.enforce /\ Enforce(dep) /\ dep.manual # "bare cli" /\ eff.state = "committed" =>
    MeetsContract(Matches(dep), eff.call.args, eff.receipt)

\* A failed effect did not happen: its failure is replayed, and the agent told
\* so may do it some other way.
FailuresAreReal ==
  Guarded(dep) /\ ~dep.world.cancels /\ eff.state = "failed" => objs = << >>

\* What runtime.py says of its classification: a definitive failure is never
\* "the request may have landed".
AsyncFailuresAreReal == Guarded(dep) /\ eff.state = "failed" => objs = << >>

\* Where the gates of `openonce providers` pass, the reconciler configured with
\* that evidence and matrix lets the prober's answers count.
GateAgrees ==
  ReleaseGate(Matrix(dep.extra), Matches(dep), dep.evidence) => ~Blocked(dep) /\ MissCounts(dep)

\* The calls are the audited handler's, with a value for each of its args that
\* JSON gives back as it is.
CallsOfHandler(d) ==
  \A call \in d.calls :
    /\ DOMAIN call.args = d.handler.args /\ Derivable(call)
    /\ \A f \in DOMAIN call.args : call.args[f] \notin {"blank", "tuple"}
    /\ call.explicit = << >>
    /\ call.fields = IF d.handler.given THEN {d.handler.fields} ELSE {}

\* The audit has passed the handler, no statement escaped it, the calls are what
\* it took them to be, and the receipts come back filled and serialisable.
AuditHolds(d) ==
  /\ Audited(d.handler, Matches(d)) /\ AllInSight(d.handler)
  /\ CallsOfHandler(d) /\ d.handler.empties = {} /\ d.handler.json

\* What the audit owes its user: the handler is neither refused at admission nor
\* sent to review for its receipt, whatever path it takes.
PassesRuntime ==
  /\ told.signal # "invalid"
  /\ eff.state = "started" /\ sent = "landed" =>
       \A r \in HandlerReceipts(dep.handler, eff.call.args) : HandlerContract(dep, eff.call.args, r)

\* A handler that the audit passes passes the runtime's two contracts, if the
\* audit could read its returns where any arg is asked for: without receipt
\* fields to look for, it does not try (audit.py, runtime.py).
AuditPredictsRuntime ==
  AuditHolds(dep) /\ (RequiredArgs(Matches(dep)) # {} => ~Dynamic(dep.handler)) => PassesRuntime

\* A caller that is told the effect was denied can rely on it: it is, and it
\* never took place (langgraph.py, where the decision comes long after the call).
DenialStands == told.signal = "denied" => eff.state = "denied" /\ objs = << >> /\ flying = 0

\* A caller is answered with the value of an effect whose key args are its own
\* (keys.py, with the preflight of runtime.py).
AnsweredForOwnCall ==
  told.signal = "value" /\ dep.enforce =>
    \A f \in RequiredKeys(Matches(dep)) :
      f \in DOMAIN told.call.args /\ told.call.args[f] = eff.call.args[f]

\* A deployment as it comes: nothing but Stripe's built-in capability and its
\* prober with the default window, which holds, and does not raise.
AsItComes(d) ==
  /\ d.tool = "stripe.charge" /\ Matches(d) = {Stripe} /\ DefaultGrace(d) /\ ~d.strictConf
  /\ d.prober = [kind |-> "stripe", lag |-> Window, authoritative |-> FALSE]
  /\ Guarded(d) /\ ~d.world.flaky

\* A lost effect of such a deployment settles without anybody having to look.
LostEffectsResolve ==
  (AsItComes(dep) /\ eff.state = "unknown") ~> (eff.state \in {"approved", "committed", "failed"})
=============================================================================
