---------------------------- MODULE HandlerScan ----------------------------
(***************************************************************************)
(* What the audit of providers/audit.py reads out of a handler's source,   *)
(* and what the handler does when it runs.  A handler's body is a sequence *)
(* of the statements that matter to either; a nested one stands in a       *)
(* branch or a loop and may be passed over.  The kinds:                    *)
(*   "dict"     a name is assigned a dict display                          *)
(*   "rebind"   a name is bound in another way that both visitors know     *)
(*   "change"   a name's object is changed in a way that both know         *)
(*   "walrus"   a name is bound where only the visitor of args looks       *)
(*              (:= and import)                                            *)
(*   "alias"    a name's object is changed under another name              *)
(*   "return dict", "return name", "return other"                          *)
(* A dict has `fields`, and `sources` <<field, name>> for a plain name.    *)
(***************************************************************************)
EXTENDS Capabilities, Sequences

Locals == FieldNames \cup {"local"}

Kinds == {"dict", "rebind", "change", "walrus", "alias", "return dict", "return name", "return other"}

Statements == [kind : Kinds, name : Locals, fields : SUBSET FieldNames,
               sources : SUBSET (FieldNames \X Locals), nested : BOOLEAN]

Contract(s) == [fields |-> s.fields, sources |-> s.sources]

-----------------------------------------------------------------------------
(* What is read.                                                             *)

At(body, kinds) == {i \in DOMAIN body : body[i].kind \in kinds}

\* _return_nodes
ReturnsAt(body) == At(body, {"return dict", "return name", "return other"})

\* _reassigned_handler_args
Reassigned(h) ==
  {a \in h.args : \E i \in At(h.body, {"dict", "rebind", "change", "walrus"}) : h.body[i].name = a}

\* Where _LocalReturnDictCollector meets a name.
Met(body, name) == {i \in At(body, {"dict", "rebind", "change"}) : body[i].name = name}

\* Mutant: where the name is changed is not looked at.
LocalDictsUnchanged(body, name) ==
  {i \in At(body, {"dict"}) : /\ body[i].name = name /\ ~body[i].nested
                              /\ \A j \in At(body, {"dict", "rebind"}) : body[j].name = name => j = i}

\* _local_return_dicts: a name is a receipt if all that is ever done to it is
\* to assign a dict to it, once and at the top level.
LocalDicts(body, name) ==
  {i \in Met(body, name) : body[i].kind = "dict" /\ ~body[i].nested /\ Met(body, name) = {i}}

\* _parse_return_fields: the contract of a return statement, if it has one.
Parsed(body, i) ==
  CASE body[i].kind = "return dict"  -> {Contract(body[i])}
    [] body[i].kind = "return name"  ->
         {Contract(body[j]) : j \in {k \in LocalDicts(body, body[i].name) : k < i}}
    [] body[i].kind = "return other" -> {}

\* _parse_return_contract: EffectToolReference's return_field_sets with their
\* sources, and dynamic_return.
Returned(h) == UNION {Parsed(h.body, i) : i \in ReturnsAt(h.body)}
Dynamic(h)  == \E i \in ReturnsAt(h.body) : Parsed(h.body, i) = {}

-----------------------------------------------------------------------------
(* What is done.                                                             *)

\* A value is a dict or something else; a dict with nothing in it stands for
\* one that lost what it had.
Other(v)  == [dict |-> FALSE, obj |-> NotAnObject, value |-> v]
Dict(obj) == [dict |-> TRUE, obj |-> obj, value |-> "other"]

\* What an expression gives that is no dict display: a call of a provider's SDK
\* may well give a dict, with much or nothing in it.
Unread == {Other("other"), Dict(NoReceipt), Dict([f \in FieldNames |-> "own"])}

\* The dicts a display can make: a plain name gives its value, a blank one
\* leaves the field empty, as does a provider that leaves it out.
Made(h, s, env) ==
  LET named == {p \in s.sources : p[1] \in s.fields}
      empty == h.empties \cup {p[1] : p \in {q \in named : env[q[2]].value = "blank"}}
      plain == {p[1] : p \in named}
  IN {r \in [s.fields \ empty -> Values \ {"blank"}] :
        /\ \A p \in named : p[1] \in DOMAIN r => r[p[1]] = env[p[2]].value
        /\ \A f \in DOMAIN r \ plain : r[f] \in {"own", "other"}}

\* The handler as it runs: the values of its names, and once it has returned
\* what it returned.
Runs(h, args) ==
  [env |-> [n \in Locals |-> Other(IF n \in DOMAIN args THEN args[n] ELSE "other")],
   done |-> FALSE, out |-> NotAnObject]

Bound(x, s, v) == [x EXCEPT !.env[s.name] = v]
Ends(x, obj)   == [x EXCEPT !.done = TRUE, !.out = obj]

Effects(h, s, x) ==
  CASE s.kind = "dict"                      -> {Bound(x, s, Dict(r)) : r \in Made(h, s, x.env)}
    [] s.kind \in {"rebind", "walrus"}      -> {Bound(x, s, v) : v \in Unread}
    [] s.kind \in {"change", "alias"}       ->
         {Bound(x, s, IF x.env[s.name].dict THEN Dict(NoReceipt) ELSE Other("other"))}
    [] s.kind = "return dict"               -> {Ends(x, r) : r \in Made(h, s, x.env)}
    [] s.kind = "return name"               -> {Ends(x, x.env[s.name].obj)}
    [] s.kind = "return other"              -> {Ends(x, v.obj) : v \in Unread}

\* A step of the body: a nested statement may be passed over, and nothing is
\* done after a return.
After(h, s, x) == IF x.done THEN {x} ELSE Effects(h, s, x) \cup {y \in {x} : s.nested}

\* How the handler may stand after each of its statements.
Reached(h, args) ==
  LET reached[i \in 0 .. Len(h.body)] ==
        IF i = 0 THEN {Runs(h, args)}
        ELSE UNION {After(h, h.body[i], x) : x \in reached[i - 1]}
  IN reached

\* _canonical_result: what JSON makes of a receipt.  It gives a list for a
\* tuple, and what it cannot hold is recorded as its repr, a string.
Canonical(h, r) ==
  IF h.json THEN [f \in DOMAIN r |-> IF r[f] = "tuple" THEN "other" ELSE r[f]] ELSE NotAnObject

\* What is recorded of the handler's return for these args; one that falls off
\* its end returns None.
HandlerReceipts(h, args) == {Canonical(h, x.out) : x \in Reached(h, args)[Len(h.body)]}

\* What no audit sees is not there: a name bound or changed behind its back, or
\* an end of the body without a return.
AllInSight(h) ==
  /\ At(h.body, {"walrus", "alias"}) = {}
  /\ \E i \in ReturnsAt(h.body) : ~h.body[i].nested
=============================================================================
