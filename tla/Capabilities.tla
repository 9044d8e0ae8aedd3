---------------------------- MODULE Capabilities ----------------------------
(***************************************************************************)
(* openonce/providers/capabilities.py: what is known of a class of         *)
(* providers, and the rules drawn from it.  A capability is a record, a    *)
(* matrix a set of them; a tool pattern is the set of the tools it         *)
(* matches.  Objects (handler args, a receipt) are functions from names to *)
(* values.  A receipt's field that is None or empty is not in its domain;  *)
(* an arg that is bound to nothing has the value "blank", one that cannot  *)
(* enter a key the value "float", one that JSON gives back as something    *)
(* else the value "tuple".                                                 *)
(***************************************************************************)
EXTENDS Integers

CONSTANTS
  Window,    \* ticks in 120 s, the indexing and propagation lag the code allows for
  Fallback   \* ticks in the 300 s of DEFAULT_GRACE_SECONDS

ASSUME WindowAssumption ==
  Window \in Nat /\ Fallback \in Nat /\ 0 < Window /\ Window <= Fallback

Tools      == {"stripe.charge", "github.create_pr", "email.send", "house.op"}
FieldNames == {"owner", "repo", "head", "charge", "stripe_id", "number", "message_id", "resource"}
Values     == {"own", "other", "blank", "float", "tuple"}

\* An object in which there is nothing, as which a missing receipt counts too.
NoReceipt == << >>

\* What a handler returns that is not an object: None, a string, a list.
NotAnObject == [n \in {"not an object"} |-> "other"]

Tiers == {"native_key", "business_key", "sender_controlled", "non_authoritative"}

NoPin == "no pin"

Capability(name, tools, tier, rearm, grace, args, receipt, sources) ==
  [name |-> name, tools |-> tools, tier |-> tier, rearm |-> rearm, grace |-> grace,
   args |-> args, keys |-> args, receipt |-> receipt, sources |-> sources,
   prober |-> TRUE, todo |-> FALSE]

Stripe    == Capability("stripe", {"stripe.charge"}, "native_key", TRUE, Window,
                        {}, {"stripe_id"}, {})
GithubPr  == Capability("github_pr", {"github.create_pr"}, "business_key", TRUE, 0,
                        {"owner", "repo", "head"}, {"number", "head"}, {<<"head", "head">>})
EmailApi  == Capability("email_provider_api", {"email.send"}, "sender_controlled", TRUE, Window,
                        {}, {"message_id"}, {})
EmailSmtp == Capability("email_smtp", {"email.send"}, "non_authoritative", FALSE, Window,
                        {}, {"message_id"}, {})

Builtins == {Stripe, GithubPr, EmailApi, EmailSmtp}

\* capability_matrix: the built-ins and a team's own.
Matrix(extra) == Builtins \cup extra

Names(caps) == {c.name : c \in caps}

\* validate_capability_matrix on the built-ins with `extra`.
ValidMatrix(extra) ==
  /\ extra \cap Builtins = {}
  /\ \A c, d \in Matrix(extra) : c.name = d.name => c = d
  /\ \A c \in Matrix(extra) :
       /\ ~(c.tier = "non_authoritative" /\ c.rearm)
       /\ c.keys \subseteq c.args
       /\ \A s \in c.sources : s[1] \in c.receipt /\ s[2] \in c.args \cap c.keys

\* capabilities_for_tool
ForTool(matrix, tool, pin) == {c \in matrix : tool \in c.tools /\ pin \in {NoPin, c.name}}

\* default_grace_for_tool: a record of that age is past the largest grace of
\* the matches.
PastDefaultGrace(matches, age) == \A c \in matches : age >= c.grace

\* Mutant: one match that allows it is enough.
SomeMayRearm(matches, pin) == IF matches = {} THEN pin = NoPin ELSE \E c \in matches : c.rearm

\* can_auto_rearm_on_miss: one match that forbids it is enough to block it.
CanAutoRearm(matches, pin) == IF matches = {} THEN pin = NoPin ELSE \A c \in matches : c.rearm

\* capability_readiness_errors: none.
Reviewed(c) == ~c.todo /\ (c.rearm => c.prober) /\ (c.prober => c.receipt # {})

\* The fields that must be in the key, if the call is to be admitted.
RequiredKeys(matches)   == UNION {c.keys : c \in matches}
\* _required_receipt_fields, for the args likewise.
RequiredArgs(matches)   == UNION {c.args : c \in matches}
RequiredFields(matches) == UNION {c.receipt : c \in matches}
RequiredSources(matches) == UNION {c.sources : c \in matches}

\* The receipt's field came from the arg.
Sourced(receipt, args, s) ==
  /\ s[2] \in DOMAIN args
  /\ s[1] \in DOMAIN receipt
  /\ receipt[s[1]] = args[s[2]]

\* The matches ask for something, of the call or of its receipt.
Demanding(matches) ==
  RequiredArgs(matches) # {} \/ RequiredFields(matches) # {} \/ RequiredSources(matches) # {}

\* provider_receipt_contract_failures: none.  Whatever is asked for, even if it
\* is args alone, a receipt that is not an object fails.
MeetsContract(matches, args, receipt) == Demanding(matches) =>
  /\ receipt # NotAnObject
  /\ RequiredArgs(matches) \subseteq DOMAIN args
  /\ RequiredFields(matches) \subseteq DOMAIN receipt
  /\ \A s \in RequiredSources(matches) : Sourced(receipt, args, s)
=============================================================================
