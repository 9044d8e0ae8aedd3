---------------------------- MODULE Conformance ----------------------------
(***************************************************************************)
(* openonce/providers/conformance.py: the scenarios a prober has to pass   *)
(* before its answers count, and the file of observations that shows it.   *)
(* The fingerprint of a capability is the capability: a hash of all of it. *)
(***************************************************************************)
EXTENDS Probers

NotRun == "not run"

\* What was observed of one scenario: a template's outcome is null and its
\* detail still says TODO.
Observation(result, detail) ==
  [outcome |-> result.outcome, receipt |-> result.receipt, detail |-> detail]

\* conformance_plan: the scenarios of a capability, each with the one outcome
\* that is expected of it.
Scenarios(cap) == {"happened", "mature_miss", "ambiguous"}
                    \cup IF cap.grace > 0 THEN {"young_miss"} ELSE {}

Plan(cap) ==
  [s \in Scenarios(cap) |->
     CASE s = "happened"    -> "happened"
       [] s = "mature_miss" -> IF cap.rearm THEN "not_happened" ELSE "inconclusive"
       [] OTHER             -> "inconclusive"]

\* conformance_evidence_template: the scaffold to be filled in.
Template(cap) ==
  [capability |-> cap.name, fingerprint |-> cap, args |-> NoReceipt,
   observations |-> [s \in Scenarios(cap) |-> Observation(ProbeResult(NotRun, NoReceipt), "todo")]]

\* load_conformance_file, _probe_result_from_dict: every observation of the
\* file has an outcome and a detail that is filled in, or nothing is loaded.
Loads(evidence) ==
  \A name \in DOMAIN evidence :
    \A s \in DOMAIN evidence[name].observations :
      LET o == evidence[name].observations[s]
      IN o.outcome \in Outcomes /\ o.detail # "todo"

\* _validate_case, with _missing_receipt_fields and _receipt_source_mismatches.
CasePasses(cap, s, o, args) ==
  /\ o.outcome = Plan(cap)[s]
  /\ s = "happened" =>
       /\ o.receipt # NoReceipt
       /\ cap.receipt \subseteq DOMAIN o.receipt
       /\ \A src \in cap.sources : Sourced(o.receipt, args, src)

\* validate_conformance: exactly the planned scenarios, each as expected, and
\* the fixture's args on record (_source_arg_failures).
Conforms(cap, e) ==
  /\ DOMAIN e.observations = Scenarios(cap)
  /\ \A s \in Scenarios(cap) : CasePasses(cap, s, e.observations[s], e.args)
  /\ cap.args \subseteq DOMAIN e.args

\* Mutant: evidence gathered for an earlier version of the capability counts.
ProvenForAnyVersion(matrix, evidence, names) ==
  /\ \A name \in names :
       /\ name \in DOMAIN evidence
       /\ \E cap \in matrix : cap.name = name /\ Conforms(cap, evidence[name])
  /\ DOMAIN evidence \subseteq Names(matrix)

\* validate_conformance_evidence: no report has a failure.  The evidence is
\* for the capability as it is now, under its own name (_fingerprint_failures,
\* _evidence_identity_failures), and none of it for an unknown capability
\* (_unknown_capability_report).
Proven(matrix, evidence, names) ==
  /\ \A name \in names :
       /\ name \in DOMAIN evidence
       /\ evidence[name].capability = name
       /\ \E cap \in matrix :
            /\ cap.name = name
            /\ evidence[name].fingerprint = cap
            /\ Conforms(cap, evidence[name])
  /\ DOMAIN evidence \subseteq Names(matrix)

\* An observation of a prober under a capability's fixtures, the young miss at
\* an age the fixture's author chose.
Observed(p, cap, youngAge) ==
  LET view(hits) == [hits |-> hits, strangers |-> FALSE, filled |-> TRUE]
      args       == Own(cap.args)
      run(s)     ==
        CASE s = "happened"    -> Probe(p, args, view("one"), cap.grace)
          [] s = "young_miss"  -> Probe(p, args, view("none"), youngAge)
          [] s = "mature_miss" -> Probe(p, args, view("none"), cap.grace)
          [] s = "ambiguous"   -> IF p.kind = "email" THEN Probe(p, args, view("none"), 0)
                                  ELSE Probe(p, args, view("many"), cap.grace)
  IN [capability |-> cap.name, fingerprint |-> cap, args |-> args,
      observations |-> [s \in Scenarios(cap) |-> Observation(run(s), "filled")]]
=============================================================================
