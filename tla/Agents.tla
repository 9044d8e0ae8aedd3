------------------------------- MODULE Agents -------------------------------
(***************************************************************************)
(* Who calls the effect, and what they are told: plain and async callers   *)
(* (client.py), the tools of integrations/openai_agents.py, which turn the *)
(* errors into signals for the model, and the node of                      *)
(* integrations/langgraph.py, which pauses the graph for an approval and   *)
(* runs again from its start when the graph is resumed.                    *)
(***************************************************************************)
EXTENDS Resolution

VARIABLES
  node,   \* where the LangGraph node is, and the call it makes
  told    \* the last outcome a caller was told, and the call it had made

agents == <<resolution, node, told>>

NodeSteps == {"out", "paused", "approve", "deny", "go"}

Signals == {"nothing", "invalid", "mismatch", "approval_required", "denied",
            "outcome_unknown", "in_flight", "value", "failure", "error"}

GoTo(step) == node' = [node EXCEPT !.at = step]

Tell(signal, call) == told' = [signal |-> signal, call |-> call]

\* How _follow answers from a state in which it neither runs nor waits; the
\* OpenAI tools' _signal says the same of the errors.
Signal(state) ==
  CASE state = "requires_approval"             -> "approval_required"
    [] state = "denied"                        -> "denied"
    [] state \in {"unknown", "human_review"}   -> "outcome_unknown"
    [] state = "committed"                     -> "value"
    [] state = "failed"                        -> "failure"
    [] state = "started"                       -> "in_flight"
    [] OTHER                                   -> "nothing"

\* Runtime.execute for this call: the ledger first, preflight for a new key.
\* A call with another key is for another effect.
Execute(call) ==
  \/ /\ ~Derivable(call)
     /\ Tell("invalid", call) /\ UNCHANGED resolution
  \/ /\ Derivable(call) /\ eff.state = "absent"
     /\ \/ ~Preflight(dep, call) /\ Tell("invalid", call) /\ UNCHANGED resolution
        \/ Preflight(dep, call) /\ Admit(call) /\ Tell("nothing", call)
  \/ /\ Derivable(call) /\ eff.state # "absent" /\ CallKey(call) = CallKey(eff.call)
     /\ \/ /\ Fingerprint(call) # Fingerprint(eff.call)
           /\ Tell("mismatch", call) /\ UNCHANGED resolution
        \/ /\ Fingerprint(call) = Fingerprint(eff.call)
           /\ \/ Run /\ Tell("nothing", call)
              \/ Signal(eff.state) # "nothing" /\ Tell(Signal(eff.state), call) /\ UNCHANGED resolution

\* A plain or async call, a call of an OpenAI tool.
Call ==
  /\ dep.agent # "langgraph" \/ dep.others
  /\ \E call \in dep.calls : Execute(call)
  /\ UNCHANGED node

\* The node of the graph runs and, if the effect awaits approval, interrupts.
NodeEnters ==
  /\ dep.agent = "langgraph" /\ node.at = "out"
  /\ \E call \in dep.calls :
       /\ Execute(call)
       /\ node' = [at   |-> IF told'.signal = "approval_required" THEN "paused" ELSE "out",
                   call |-> call]

\* The graph is resumed with a decision and the node runs from its start: the
\* call comes first, and only one still awaiting approval gets to the decision.
NodeResumes ==
  /\ node.at = "paused"
  /\ Execute(node.call)
  /\ \E step \in IF told'.signal = "approval_required" THEN {"approve", "deny"} ELSE {"out"} :
       GoTo(step)

\* OpenOnce.approve: of an effect that awaits approval or review.
NodeApproves ==
  /\ node.at = "approve"
  /\ \/ /\ eff.state \in {"requires_approval", "human_review"}
        /\ eff.state = "human_review" => eff.attempt < MaxRuns
        /\ Move("approved", eff.receipt)
        /\ GoTo("go")
        /\ UNCHANGED <<dep, sent, flying, objs, told>>
     \/ /\ eff.state \notin {"requires_approval", "human_review"}
        /\ GoTo("out") /\ Tell("error", node.call)
        /\ UNCHANGED resolution

\* Mutant: what a lost race makes of the denial is not looked at.
NodeDeniesAnyway ==
  /\ node.at = "deny"
  /\ \/ eff.state = "requires_approval" /\ Move("denied", eff.receipt)
     \/ eff.state # "requires_approval" /\ UNCHANGED eff
  /\ GoTo("out") /\ Tell("denied", node.call)
  /\ UNCHANGED <<dep, sent, flying, objs>>

\* OpenOnce.deny: of an effect that awaits approval, or a ValueError.
NodeDenies ==
  /\ node.at = "deny"
  /\ \/ /\ eff.state = "requires_approval"
        /\ Move("denied", eff.receipt) /\ Tell("denied", node.call)
     \/ /\ eff.state # "requires_approval"
        /\ Tell("error", node.call) /\ UNCHANGED eff
  /\ GoTo("out")
  /\ UNCHANGED <<dep, sent, flying, objs>>

\* After its approval the node calls again, to proceed once.
NodeGoes ==
  /\ node.at = "go"
  /\ Execute(node.call)
  /\ GoTo("out")

\* openonce approve, openonce deny: where others act on the effect, one of
\* them may approve it when it is under review.
CliDecides ==
  /\ dep.agent # "langgraph" \/ dep.others
  /\ \/ /\ eff.state = "requires_approval"
        /\ \E to \in {"approved", "denied"} : Move(to, eff.receipt)
     \/ /\ eff.state = "human_review" /\ dep.others /\ eff.attempt < MaxRuns
        /\ Move("approved", eff.receipt)
  /\ UNCHANGED <<dep, sent, flying, objs, node, told>>

Same == UNCHANGED <<node, told>>

Next ==
  \/ Call \/ NodeEnters \/ NodeResumes \/ NodeApproves \/ NodeDenies \/ NodeGoes \/ CliDecides
  \/ Land /\ Same
  \/ Refuse /\ Same
  \/ Return /\ Same
  \/ LoseTrack /\ Same
  \/ LoopEnds /\ Same
  \/ PersonHappened /\ Same
  \/ PersonNotHappened /\ Same
  \/ Reconcile /\ Same
  \/ Tick /\ Same

Init == ResolutionInit /\ node = [at |-> "out", call |-> NoCall] /\ told = [signal |-> "nothing", call |-> NoCall]

\* `openonce reconcile --watch` runs, and time does not stand still.
Fairness == WF_agents(Reconcile /\ Same) /\ WF_agents(Tick /\ Same)

Spec == Init /\ [][Next]_agents /\ Fairness
=============================================================================
