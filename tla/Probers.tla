------------------------------ MODULE Probers ------------------------------
(***************************************************************************)
(* openonce/providers/stripe.py, email.py and github.py: what each prober  *)
(* makes of what the provider shows it.  A view says how many objects      *)
(* carry the effect's key, whether there are strangers among what the      *)
(* provider returned, and whether the objects have their ids filled in.    *)
(* Ages are ticks since the record's updated_at.                           *)
(***************************************************************************)
EXTENDS Capabilities

Outcomes == {"happened", "not_happened", "inconclusive"}

Views == [hits : {"none", "one", "many"}, strangers : BOOLEAN, filled : BOOLEAN]

Probers == [kind : {"stripe", "email", "github"}, lag : Nat, authoritative : BOOLEAN]

NoProber == [kind |-> "none", lag |-> 0, authoritative |-> FALSE]

ProbeResult(outcome, receipt) == [outcome |-> outcome, receipt |-> receipt]

Inconclusive == ProbeResult("inconclusive", NoReceipt)

Own(fields) == [f \in fields |-> "own"]

\* Mutant: at the end of the window the miss still does not count.
MissInWindow(p, age) == IF age <= p.lag THEN "inconclusive" ELSE "not_happened"

\* A miss counts once the record is older than the window of the provider.
Miss(p, age) == IF age < p.lag THEN "inconclusive" ELSE "not_happened"

\* StripeProber.probe: search by the metadata the handler stamped.
StripeProbe(p, view, age) ==
  LET receipt == Own({"resource"} \cup IF view.filled THEN {"stripe_id"} ELSE {})
  IN CASE view.hits = "one"  -> ProbeResult("happened", receipt)
       [] view.hits = "many" -> ProbeResult("inconclusive", receipt)
       [] view.hits = "none" -> ProbeResult(Miss(p, age), NoReceipt)

\* EmailMessageIdProber.probe: any message with the Message-ID will do, and a
\* miss counts only where the sent store is written with the send.
EmailProbe(p, view, age) ==
  IF view.hits # "none" THEN ProbeResult("happened", Own({"message_id"}))
  ELSE IF p.authoritative THEN ProbeResult(Miss(p, age), NoReceipt) ELSE Inconclusive

\* The receipt of a pull request for these args: its head is the arg's.
PullReceipt(args, view) ==
  [f \in {g \in {"head", "number"} : IF g = "head" THEN args[g] # "blank" ELSE view.filled} |->
     IF f = "head" THEN args[f] ELSE "own"]

\* Mutant: whatever the provider returned is the pull request.
GithubProbeAny(p, args, view) ==
  LET receipt == PullReceipt(args, view)
  IN IF ~({"owner", "repo", "head"} \subseteq DOMAIN args) \/ view.hits = "many" THEN Inconclusive
     ELSE IF view.hits = "one" \/ view.strangers THEN ProbeResult("happened", receipt)
     ELSE ProbeResult("not_happened", NoReceipt)

\* GitHubPullRequestProber.probe: the natural key must be whole, an empty
\* list is authoritative, and only a pull request of that head is a match.
GithubProbe(p, args, view) ==
  LET receipt == PullReceipt(args, view)
  IN IF ~({"owner", "repo", "head"} \subseteq DOMAIN args) \/ view.hits = "many" THEN Inconclusive
     ELSE IF view.hits = "one" THEN ProbeResult("happened", receipt)
     ELSE IF view.strangers THEN Inconclusive
     ELSE ProbeResult("not_happened", NoReceipt)

\* Prober.probe
Probe(p, args, view, age) ==
  CASE p.kind = "stripe" -> StripeProbe(p, view, age)
    [] p.kind = "email"  -> EmailProbe(p, view, age)
    [] p.kind = "github" -> GithubProbe(p, args, view)
=============================================================================
