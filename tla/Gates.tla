------------------------------- MODULE Gates -------------------------------
(***************************************************************************)
(* What is decided of a tool before it runs: the gates of `openonce        *)
(* providers` (cli.py) and the audit of handlers (providers/audit.py).     *)
(***************************************************************************)
EXTENDS Conformance, HandlerScan

\* A handler and its decorator: `given` if idempotency_fields is, `literal` if
\* the audit can tell what it is.  No audit sees `empties`, the fields that come
\* back empty when it runs, or whether JSON can hold what it returns.
Handler(args, given, fields, body) ==
  [args |-> args, given |-> given, fields |-> fields, literal |-> TRUE, body |-> body,
   empties |-> {}, json |-> TRUE]

\* _provider_policy, --require-known and --require-auto-rearm.
Known(rows) == rows # {}

\* Mutant: one capability that allows it is enough.
SomeAutoRearms(rows) == \E c \in rows : c.rearm

AllAutoRearm(rows) == rows # {} /\ \A c \in rows : c.rearm

\* _provider_readiness_payload, --require-reviewed
AllReviewed(rows) == rows # {} /\ \A c \in rows : Reviewed(c)

\* _provider_conformance_payload, --require-conformance with its file.
ConformanceShown(matrix, rows, evidence) ==
  rows # {} /\ Loads(evidence) /\ Proven(matrix, evidence, Names(rows))

\* `openonce providers TOOL` with all of these gates exits 0.
ReleaseGate(matrix, rows, evidence) ==
  Known(rows) /\ AllAutoRearm(rows) /\ AllReviewed(rows) /\ ConformanceShown(matrix, rows, evidence)

\* handler_contract_failures: none.
HandlerAudited(h, caps) ==
  \A c \in caps :
    /\ c.args \subseteq h.args
    /\ c.keys # {} => c.keys \subseteq c.args /\ h.literal /\ h.given /\ c.keys \subseteq h.fields

\* Mutant: an arg that the handler assigns to still counts as the arg.
SourceAuditedAnyway(h, ret, s) ==
  s[1] \in ret.fields => s[2] \in h.args /\ s \in ret.sources

\* _receipt_source_failures: none for this return.
SourceAudited(h, ret, s) ==
  s[1] \in ret.fields => s[2] \in h.args \ Reassigned(h) /\ s \in ret.sources

\* receipt_contract_failures: none.
ReceiptsAudited(h, caps) ==
  \A c \in caps : c.receipt # {} =>
    /\ ~Dynamic(h) /\ Returned(h) # {}
    /\ \A ret \in Returned(h) :
         c.receipt \subseteq ret.fields /\ \A s \in c.sources : SourceAudited(h, ret, s)

\* `openonce providers --scan` with both contract gates exits 0.
Audited(h, rows) == rows # {} /\ HandlerAudited(h, rows) /\ ReceiptsAudited(h, rows)

\* suggest_capabilities_for_refs: the stub written for an unknown tool.
Suggested(name, tool) ==
  [Capability(name, {tool}, "non_authoritative", FALSE, Fallback, {}, {}, {})
     EXCEPT !.prober = FALSE, !.todo = TRUE]
=============================================================================
