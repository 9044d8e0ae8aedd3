---------------------------- MODULE MCSettlement ----------------------------
(***************************************************************************)
(* Instances of Settlement: families of deployments that vary one concern  *)
(* at a time around Quiet, a deployment in which nothing is wrong.         *)
(***************************************************************************)
EXTENDS Settlement

MCWindow      == 2
MCFallback    == 3
MCMaxAttempts == 2
MCMaxRuns     == 3

\* Handlers and calls
CallOf(tool, fields, args) ==
  [tool |-> <<tool>>, scope |-> ToolScope(<< >>, <<"run">>, << >>), explicit |-> << >>,
   fields |-> fields, args |-> args]

\* Statements
Stmt(kind, name) == [kind |-> kind, name |-> name, fields |-> {}, sources |-> {}, nested |-> FALSE]
Display(kind, fields, sources) ==
  [kind |-> kind, name |-> "local", fields |-> fields, sources |-> sources, nested |-> FALSE]
Nested(s) == [s EXCEPT !.nested = TRUE]
Ret(fields, sources) == Display("return dict", fields, sources)

Charges == Handler({"charge"}, FALSE, {}, <<Ret({"stripe_id"}, {})>>)
Mails   == Handler({"charge"}, FALSE, {}, <<Ret({"message_id"}, {})>>)
Key     == {"owner", "repo", "head"}
Receipt == {"number", "head"}
Pulls   == Handler(Key, TRUE, Key, <<Ret(Receipt, {<<"head", "head">>})>>)

\* The statements a body may begin with, and the returns it may end in.
Leading ==
  {Display("dict", Receipt, {<<"head", "head">>}), Stmt("rebind", "head"), Stmt("rebind", "local"),
   Stmt("change", "local"), Stmt("walrus", "local"), Stmt("alias", "local")}
Ending ==
  {Ret(Receipt, {<<"head", "head">>}), Stmt("return name", "local"), Stmt("return other", "local")}
Bodies ==
  LET first == Leading \cup {Nested(s) : s \in Leading \cup Ending}
      all   == {<<s, t>> : s \in first, t \in Ending \cup {Nested(e) : e \in Ending}}
                 \cup {<<s, t, e>> : s \in first, t \in first, e \in Ending}
  IN {b \in all : Len(b) = 3 => \E i \in {1, 2} : b[i].kind = "dict"}

\* Worlds and probers
World(lag) == [lag |-> lag, atomic |-> TRUE, dedupes |-> FALSE, prompt |-> TRUE,
               cancels |-> FALSE, flaky |-> FALSE]

ProberOf(kind, lag, authoritative) == [kind |-> kind, lag |-> lag, authoritative |-> authoritative]

StripeProber == ProberOf("stripe", Window, FALSE)
GithubProber == ProberOf("github", 0, FALSE)

NoEvidence == [n \in {} |-> n]

Quiet ==
  [tool |-> "stripe.charge", extra |-> {}, pin |-> NoPin, evidence |-> NoEvidence,
   strictCap |-> FALSE, strictConf |-> FALSE, grace |-> {}, override |-> {},
   prober |-> StripeProber, enforce |-> FALSE, strictReceipt |-> FALSE,
   manual |-> "client", flags |-> {}, handler |-> Charges,
   calls |-> {CallOf("stripe.charge", {}, Own({"charge"}))},
   agent |-> "plain", review |-> FALSE, others |-> FALSE, world |-> World(2)]

EvidenceOf(p, caps) == [n \in Names(caps) |-> Observed(p, CHOOSE c \in caps : c.name = n,
                                                       (CHOOSE c \in caps : c.name = n).grace - 1)]

\* How far the searches lag, how much of it the prober and the graces know,
\* and what is enforced.
Timing ==
  {[Quiet EXCEPT !.world = World(lag), !.prober.lag = known, !.override = g,
                 !.pin = pin, !.strictConf = conf,
                 !.evidence = IF conf THEN EvidenceOf(ProberOf("stripe", known, FALSE), {Stripe})
                              ELSE NoEvidence] :
     lag \in {0, 2, 3}, known \in {1, 2}, g \in {{}, {0}, {1}}, pin \in {NoPin, "stripe"},
     conf \in BOOLEAN}

\* Probers that are missing, graces that are configured, worlds that fail.
Failing ==
  {[Quiet EXCEPT !.prober = NoProber], [Quiet EXCEPT !.grace = {1}],
   [Quiet EXCEPT !.grace = {3}, !.override = {0}, !.strictCap = TRUE],
   [Quiet EXCEPT !.world.prompt = FALSE], [Quiet EXCEPT !.world.flaky = TRUE, !.pin = "stripe"],
   [Quiet EXCEPT !.world.prompt = FALSE, !.world.dedupes = TRUE],
   [Quiet EXCEPT !.world.prompt = FALSE, !.world.flaky = TRUE, !.override = {0}]}

Email ==
  [Quiet EXCEPT !.tool = "email.send", !.handler = Mails,
                !.prober = ProberOf("email", Window, TRUE),
                !.calls = {CallOf("email.send", {}, Own({"charge"}))}]

\* Mail through the provider's API, or SMTP with its copy written apart.
Mailing ==
  {[Email EXCEPT !.pin = pin, !.prober.authoritative = auth, !.world.atomic = atomic,
                 !.strictCap = strict] :
     pin \in {NoPin, "email_provider_api", "email_smtp"}, auth \in BOOLEAN, atomic \in BOOLEAN,
     strict \in BOOLEAN}
  \cup
  {[Email EXCEPT !.strictConf = TRUE,
                 !.evidence = [n \in {"email_provider_api", "email_smtp"} |->
                    IF n = "email_smtp" THEN Observed(ProberOf("email", Window, FALSE), EmailSmtp, 1)
                    ELSE Observed(ProberOf("email", Window, TRUE), EmailApi, 1)]]}

Github ==
  [Quiet EXCEPT !.tool = "github.create_pr", !.handler = Pulls, !.prober = GithubProber,
                !.world = World(0), !.enforce = TRUE, !.strictReceipt = TRUE,
                !.strictCap = TRUE,
                !.calls = {CallOf("github.create_pr", {Key}, Own(Key))}]

OtherHead == [Own(Key) EXCEPT !.head = "other"]

\* Handlers and calls of a tool whose key and receipt are prescribed.
Pulling ==
  {[Github EXCEPT !.handler = h, !.enforce = e, !.manual = m] :
     h \in {Pulls, [Pulls EXCEPT !.empties = {"number"}], [Pulls EXCEPT !.json = FALSE],
            [Pulls EXCEPT !.body = <<>>], [Pulls EXCEPT !.body = <<Ret({"number", "head"}, {})>>]},
     e \in BOOLEAN, m \in {"client", "checking cli", "bare cli"}}
  \cup
  {[Github EXCEPT !.handler.body = body, !.prober = NoProber] : body \in Bodies}
  \cup
  {[Github EXCEPT !.calls = {CallOf("github.create_pr", fields, args) : args \in {Own(Key), OtherHead}},
                  !.handler.given = fields # {}, !.handler.fields = UNION fields,
                  !.enforce = e, !.world.flaky = TRUE] :
     fields \in {{}, {Key}, {{"owner", "repo"}}}, e \in BOOLEAN}
  \cup
  {[Github EXCEPT !.calls = {[CallOf("github.create_pr", {}, args) EXCEPT !.explicit = <<"mine">>] :
                               args \in {Own(Key), OtherHead}}, !.enforce = e] : e \in BOOLEAN}
  \cup
  {[Github EXCEPT !.calls = {CallOf("github.create_pr", {Key}, [Own(Key) EXCEPT !.head = v])},
                  !.flags = {"auto rearm"}] : v \in {"blank", "float", "tuple"}}
  \cup
  {[Github EXCEPT !.world = World(1)],
   [Github EXCEPT !.calls = {CallOf("github.create_pr", {}, Own({"owner", "repo"}))},
                  !.enforce = FALSE]}

\* A team's own capability, in two versions.
House(grace) == Capability("house", {"house.op"}, "business_key", TRUE, grace,
                           {"charge"}, {"stripe_id"}, {})

Housing ==
  {[Quiet EXCEPT !.tool = "house.op", !.extra = extra, !.prober.lag = known,
                 !.strictConf = TRUE, !.strictCap = TRUE, !.override = {1},
                 !.manual = m, !.flags = {"capability"}, !.evidence = evidence,
                 !.calls = {CallOf("house.op", {{"charge"}}, Own({"charge"}))}] :
     extra \in {{}, {House(2)}, {Suggested("house", "house.op")}}, known \in {1, 2},
     m \in {"client", "checking cli"},
     evidence \in {NoEvidence, EvidenceOf(ProberOf("stripe", 1, FALSE), {House(1)}),
                   EvidenceOf(ProberOf("stripe", 2, FALSE), {House(2)}),
                   [n \in {"house"} |-> Template(House(2))]}}

\* Capabilities that ask for args, for a receipt, for both or for nothing, and
\* handlers that return what is asked for, an empty dict or who knows what.
Asking ==
  LET argsOnly == [House(2) EXCEPT !.name = "house_args", !.receipt = {}]
      nothing  == [argsOnly EXCEPT !.args = {}, !.keys = {}]
  IN {[Quiet EXCEPT !.tool = "house.op", !.extra = extra, !.enforce = TRUE,
                    !.handler = Handler({"charge"}, TRUE, {"charge"}, <<ret>>),
                    !.calls = {CallOf("house.op", {{"charge"}}, Own({"charge"}))}] :
        extra \in {{argsOnly}, {nothing}, {argsOnly, House(2)}},
        ret \in {Ret({"stripe_id"}, {}), Ret({}, {}), Stmt("return other", "local")}}

\* Agents of every kind, with and without approvals.
Agency ==
  {[Quiet EXCEPT !.agent = a, !.review = r, !.others = o] :
     a \in {"plain", "openai", "langgraph"}, r \in BOOLEAN, o \in BOOLEAN}
  \cup
  {[Quiet EXCEPT !.agent = "langgraph", !.review = TRUE, !.others = TRUE, !.prober = NoProber],
   [Quiet EXCEPT !.agent = "async", !.world.cancels = TRUE]}

MCDeployments == Timing \cup Failing \cup Mailing \cup Pulling \cup Housing \cup Asking \cup Agency
=============================================================================
