----------------------------- MODULE AuditProofs -----------------------------
(***************************************************************************)
(* That the audit's word on a handler is the runtime's, for every handler  *)
(* that it can read, every matrix of capabilities and every length of      *)
(* body.  What a body does is a recursive function over its statements,    *)
(* and the argument goes along them: Safe says how a handler may stand     *)
(* after the first i of them.  Both the function and the induction over it *)
(* rest on the least element that every set of naturals has, which the     *)
(* library's theory of well-founded relations supplies.                    *)
(***************************************************************************)
EXTENDS SettlementProofs, WellFoundedInduction

-----------------------------------------------------------------------------
(* Least elements.                                                         *)

Below == {p \in Nat \X Nat : p[1] < p[2]}

\* Every non-empty set of naturals has a least element.
LEMMA LeastElement ==
  ASSUME NEW S \in SUBSET Nat, S # {}
  PROVE  \E n \in S : \A m \in S : n <= m
  <1>1. IsWellFoundedOn(Below, Nat)
    BY NatLessThanWellFounded DEF OpToRel, Below
  <1>2. PICK n \in S : \A m \in S : <<m, n>> \notin Below
    BY <1>1, WFMin
  <1>3. ASSUME NEW m \in S PROVE n <= m
    <2>1. ~(m < n)
      BY <1>2 DEF Below
    <2>2. QED
      BY <2>1
  <1>4. QED
    BY <1>3

-----------------------------------------------------------------------------
(* What a body does, statement after statement.                            *)

\* The function f says how a handler may stand after each of its first n
\* statements.
Traces(f, h, args, n) ==
  f = [i \in 0 .. n |-> IF i = 0 THEN {Runs(h, args)}
                        ELSE UNION {After(h, h.body[i], x) : x \in f[i - 1]}]

\* There is such a function for every n: the recursive definition has a meaning.
LEMMA TracesExist ==
  ASSUME NEW h, NEW args, NEW n \in Nat
  PROVE  \E f : Traces(f, h, args, n)
  <1> DEFINE S == {m \in Nat : ~ \E f : Traces(f, h, args, m)}
  <1>1. SUFFICES ASSUME S # {} PROVE FALSE
    OBVIOUS
  <1>2. PICK m \in S : \A k \in S : m <= k
    BY <1>1, LeastElement
  <1>3. m # 0
    <2> DEFINE g == [i \in 0 .. 0 |-> {Runs(h, args)}]
    <2>1. Traces(g, h, args, 0)
      BY DEF Traces
    <2>2. QED
      BY <2>1
  <1>4. PICK f : Traces(f, h, args, m - 1)
    BY <1>2, <1>3
  <1> DEFINE g == [i \in 0 .. m |-> IF i = m THEN UNION {After(h, h.body[m], x) : x \in f[m - 1]}
                                    ELSE f[i]]
  <1>5. ASSUME NEW i \in 0 .. m
        PROVE  g[i] = IF i = 0 THEN {Runs(h, args)}
                      ELSE UNION {After(h, h.body[i], x) : x \in g[i - 1]}
    <2>1. CASE i = m
      <3>1. g[m - 1] = f[m - 1] /\ g[m] = UNION {After(h, h.body[m], x) : x \in f[m - 1]}
        BY <1>3
      <3>2. QED
        BY <1>3, <2>1, <3>1
    <2>2. CASE i # m
      <3>1. g[i] = f[i] /\ (i # 0 => g[i - 1] = f[i - 1]) /\ i \in 0 .. (m - 1)
        BY <2>2
      <3>2. f[i] = IF i = 0 THEN {Runs(h, args)}
                   ELSE UNION {After(h, h.body[i], x) : x \in f[i - 1]}
        BY <1>4, <3>1 DEF Traces
      <3>3. QED
        BY <3>1, <3>2
    <2>3. QED
      BY <2>1, <2>2
  <1>6. Traces(g, h, args, m)
    BY <1>5 DEF Traces
  <1>7. QED
    BY <1>6

\* Reached is that function.
LEMMA ReachedTraces ==
  ASSUME NEW h, NEW args, h.body \in Seq(Statements)
  PROVE  Traces(Reached(h, args), h, args, Len(h.body))
  <1>1. Reached(h, args) =
          CHOOSE f : f = [i \in 0 .. Len(h.body) |->
                            IF i = 0 THEN {Runs(h, args)}
                            ELSE UNION {After(h, h.body[i], x) : x \in f[i - 1]}]
    BY DEF Reached
  <1>2. Reached(h, args) = CHOOSE f : Traces(f, h, args, Len(h.body))
    BY <1>1 DEF Traces
  <1>3. Len(h.body) \in Nat
    OBVIOUS
  <1>4. \E f : Traces(f, h, args, Len(h.body))
    BY <1>3, TracesExist
  <1>5. QED
    BY <1>2, <1>4

-----------------------------------------------------------------------------
(* What holds of a handler whose returns the audit can read, while it runs.  *)

\* The receipt has the fields that were read off its return, and what came
\* from an arg is that arg.
Fits(h, args, ret, r) ==
  /\ DOMAIN r = ret.fields
  /\ \A p \in ret.sources :
       p[1] \in ret.fields /\ p[2] \in h.args \ Reassigned(h) => r[p[1]] = args[p[2]]

\* The names have values that a receipt may hold, and the args their own.
Bindings(h, args, env) ==
  /\ DOMAIN env = Locals
  /\ \A n \in Locals :
       env[n].value # "blank" /\ (n \in h.args \ Reassigned(h) => env[n].value = args[n])

\* The names that the audit takes for receipts have the dicts it read.
Dicts(h, args, env, i) ==
  \A n \in Locals : \A k \in LocalDicts(h.body, n) :
    k <= i => Fits(h, args, Contract(h.body[k]), env[n].obj)

\* How a handler may stand after its first i statements: it has returned what
\* the audit read, or no return that is not in a branch is behind it.
Safe(h, args, i, x) ==
  /\ {"env", "done", "out"} \subseteq DOMAIN x
  /\ x.done => \E ret \in Returned(h) : Fits(h, args, ret, x.out)
  /\ ~x.done =>
       /\ \A j \in ReturnsAt(h.body) : j <= i => h.body[j].nested
       /\ Bindings(h, args, x.env)
       /\ Dicts(h, args, x.env, i)

\* The audit has seen all that the handler does, and can tell its returns; the
\* call binds every arg.
Seen(h, args) ==
  /\ h.body \in Seq(Statements)
  /\ ~Dynamic(h) /\ AllInSight(h) /\ h.empties = {} /\ h.json
  /\ DOMAIN args = h.args /\ \A f \in DOMAIN args : args[f] \notin {"blank", "tuple"}

\* A body is a sequence of statements.
LEMMA BodyTypes ==
  ASSUME NEW h, NEW args, Seen(h, args)
  PROVE  /\ Len(h.body) \in Nat /\ DOMAIN h.body = 1 .. Len(h.body)
         /\ \A i \in 1 .. Len(h.body) :
              /\ h.body[i] \in Statements
              /\ h.body[i].name \in Locals /\ h.body[i].kind \in Kinds
         /\ \A i \in ReturnsAt(h.body) : i \in 1 .. Len(h.body)
         /\ \A n : \A k \in LocalDicts(h.body, n) : k \in 1 .. Len(h.body) /\ ~h.body[k].nested
  <1>1. h.body \in Seq(Statements)
    BY DEF Seen
  <1>2. /\ Len(h.body) \in Nat /\ DOMAIN h.body = 1 .. Len(h.body)
        /\ \A i \in 1 .. Len(h.body) : h.body[i] \in Statements
    BY <1>1
  <1>3. \A s \in Statements : s.name \in Locals /\ s.kind \in Kinds
    BY DEF Statements
  <1>4. QED
    BY <1>2, <1>3 DEF ReturnsAt, LocalDicts, Met, At

\* A display makes the receipt that the audit reads off it.
LEMMA MadeFits ==
  ASSUME NEW h, NEW args, Seen(h, args), NEW s \in Statements,
         NEW env, Bindings(h, args, env), NEW r \in Made(h, s, env)
  PROVE  Fits(h, args, Contract(s), r)
  <1> DEFINE named == {p \in s.sources : p[1] \in s.fields}
  <1>1. \A p \in s.sources : p[2] \in Locals
    BY DEF Statements
  <1>2. h.empties \cup {p[1] : p \in {q \in named : env[q[2]].value = "blank"}} = {}
    BY <1>1 DEF Seen, Bindings
  <1>3. /\ r \in [s.fields -> Values \ {"blank"}]
        /\ \A p \in named : p[1] \in DOMAIN r => r[p[1]] = env[p[2]].value
    BY <1>2 DEF Made
  <1>4. Contract(s).fields = s.fields /\ Contract(s).sources = s.sources
    BY DEF Contract
  <1>5. QED
    BY <1>1, <1>3, <1>4 DEF Fits, Bindings

\* A handler that is called has done nothing yet.
LEMMA RunsSafe ==
  ASSUME NEW h, NEW args, Seen(h, args)
  PROVE  Safe(h, args, 0, Runs(h, args))
  <1>1. Len(h.body) \in Nat
    BY BodyTypes
  <1>2. ReturnsAt(h.body) \subseteq 1 .. Len(h.body)
        /\ \A n \in Locals : LocalDicts(h.body, n) \subseteq 1 .. Len(h.body)
    BY BodyTypes
  <1>3. Bindings(h, args, Runs(h, args).env) /\ ~Runs(h, args).done
        /\ {"env", "done", "out"} \subseteq DOMAIN Runs(h, args)
    BY DEF Bindings, Runs, Other, Seen, Reassigned
  <1>4. QED
    BY <1>1, <1>2, <1>3 DEF Safe, Dicts

\* A name that a statement binds or changes keeps nothing that the audit relies
\* on, but for the dict it may have been given.
LEMMA BindingKept ==
  ASSUME NEW h, NEW args, Seen(h, args), NEW i \in 1 .. Len(h.body), NEW x,
         Safe(h, args, i - 1, x), ~x.done,
         h.body[i].kind \in {"dict", "rebind", "change"},
         NEW v, v.value = "other",
         h.body[i].kind = "dict" => Fits(h, args, Contract(h.body[i]), v.obj)
  PROVE  Safe(h, args, i, Bound(x, h.body[i], v))
  <1> DEFINE s == h.body[i]
             y == Bound(x, s, v)
  <1>1. s \in Statements /\ s.name \in Locals /\ Len(h.body) \in Nat /\ DOMAIN h.body = 1 .. Len(h.body)
    BY BodyTypes
  <1>2. /\ {"env", "done", "out"} \subseteq DOMAIN y /\ ~y.done
        /\ y.env = [x.env EXCEPT ![s.name] = v]
    BY DEF Safe, Bound
  <1>3. Bindings(h, args, x.env) /\ Dicts(h, args, x.env, i - 1)
        /\ \A j \in ReturnsAt(h.body) : j <= i - 1 => h.body[j].nested
    BY DEF Safe
  <1>4. /\ DOMAIN y.env = Locals /\ y.env[s.name] = v
        /\ \A n \in Locals \ {s.name} : y.env[n] = x.env[n]
    BY <1>1, <1>2, <1>3 DEF Bindings
  <1>5. i \in Met(h.body, s.name) /\ i \in At(h.body, {"dict", "rebind", "change", "walrus"})
    BY <1>1 DEF Met, At
  <1>6. Bindings(h, args, y.env)
    <2>1. s.name \notin h.args \ Reassigned(h)
      BY <1>5 DEF Reassigned
    <2>2. QED
      BY <1>3, <1>4, <2>1 DEF Bindings
  <1>7. Dicts(h, args, y.env, i)
    <2> SUFFICES ASSUME NEW n \in Locals, NEW k \in LocalDicts(h.body, n), k <= i
                 PROVE  Fits(h, args, Contract(h.body[k]), y.env[n].obj)
      BY DEF Dicts
    <2>1. /\ k \in 1 .. Len(h.body) /\ h.body[k].name = n /\ h.body[k].kind = "dict"
          /\ Met(h.body, n) = {k}
      BY <1>1 DEF LocalDicts, Met, At
    <2>2. CASE n = s.name
      <3>1. k = i
        BY <1>5, <2>1, <2>2
      <3>2. QED
        BY <1>4, <2>1, <2>2, <3>1
    <2>3. CASE n # s.name
      <3>1. k <= i - 1
        BY <1>1, <2>1, <2>3
      <3>2. QED
        BY <1>3, <1>4, <2>3, <3>1 DEF Dicts
    <2>4. QED
      BY <2>2, <2>3
  <1>8. \A j \in ReturnsAt(h.body) : j <= i => h.body[j].nested
    <2>1. i \notin ReturnsAt(h.body)
      BY DEF ReturnsAt, At
    <2>2. \A j \in ReturnsAt(h.body) : j \in 1 .. Len(h.body)
      BY BodyTypes
    <2>3. QED
      BY <1>1, <1>3, <2>1, <2>2
  <1>9. QED
    BY <1>2, <1>6, <1>7, <1>8 DEF Safe

\* A return gives back what the audit read off it.
LEMMA ReturnFits ==
  ASSUME NEW h, NEW args, Seen(h, args), NEW i \in 1 .. Len(h.body), NEW x,
         Safe(h, args, i - 1, x), ~x.done, i \in ReturnsAt(h.body),
         NEW y \in Effects(h, h.body[i], x)
  PROVE  Safe(h, args, i, y)
  <1> DEFINE s == h.body[i]
  <1>1. s \in Statements /\ s.kind \in {"return dict", "return name", "return other"} /\ s.name \in Locals
    BY BodyTypes DEF ReturnsAt, At
  <1>2. Bindings(h, args, x.env) /\ Dicts(h, args, x.env, i - 1)
    BY DEF Safe
  <1>3. Parsed(h.body, i) # {} /\ Parsed(h.body, i) \subseteq Returned(h)
    BY DEF Seen, Dynamic, Returned
  <1>4. ASSUME NEW obj, y = Ends(x, obj), \E ret \in Parsed(h.body, i) : Fits(h, args, ret, obj)
        PROVE  Safe(h, args, i, y)
    <2>1. {"env", "done", "out"} \subseteq DOMAIN y /\ y.done /\ y.out = obj
      BY <1>4 DEF Ends, Safe
    <2>2. QED
      BY <1>3, <1>4, <2>1 DEF Safe
  <1>5. CASE s.kind = "return dict"
    <2>1. PICK r \in Made(h, s, x.env) : y = Ends(x, r)
      BY <1>5 DEF Effects
    <2>2. Fits(h, args, Contract(s), r)
      BY <1>1, <1>2, MadeFits
    <2>3. Contract(s) \in Parsed(h.body, i)
      BY <1>5 DEF Parsed
    <2>4. QED
      BY <1>4, <2>1, <2>2, <2>3
  <1>6. CASE s.kind = "return name"
    <2>1. y = Ends(x, x.env[s.name].obj)
      BY <1>6 DEF Effects
    <2>2. Parsed(h.body, i) = {Contract(h.body[j]) : j \in {k \in LocalDicts(h.body, s.name) : k < i}}
      BY <1>6 DEF Parsed
    <2>3. PICK k \in LocalDicts(h.body, s.name) : k < i /\ Contract(h.body[k]) \in Parsed(h.body, i)
      BY <1>3, <2>2
    <2>4. k <= i - 1
      <3>1. k \in 1 .. Len(h.body) /\ Len(h.body) \in Nat
        BY BodyTypes
      <3>2. QED
        BY <2>3, <3>1
    <2>5. Fits(h, args, Contract(h.body[k]), x.env[s.name].obj)
      BY <1>1, <1>2, <2>3, <2>4 DEF Dicts
    <2>6. QED
      BY <1>4, <2>1, <2>3, <2>5
  <1>7. CASE s.kind = "return other"
    BY <1>3, <1>7 DEF Parsed
  <1>8. QED
    BY <1>1, <1>5, <1>6, <1>7

\* Each statement keeps a handler safe.
LEMMA AfterSafe ==
  ASSUME NEW h, NEW args, Seen(h, args), NEW i \in 1 .. Len(h.body), NEW x,
         Safe(h, args, i - 1, x), NEW y \in After(h, h.body[i], x)
  PROVE  Safe(h, args, i, y)
  <1> DEFINE s == h.body[i]
  <1>1. s \in Statements /\ Len(h.body) \in Nat /\ DOMAIN h.body = 1 .. Len(h.body) /\ s.name \in Locals
    BY BodyTypes
  <1>2. CASE x.done
    BY <1>2 DEF After, Safe
  <1>3. CASE ~x.done /\ s.nested /\ y = x
    <2>1. \A j \in ReturnsAt(h.body) : j <= i => h.body[j].nested
      <3>1. \A j \in ReturnsAt(h.body) : j <= i - 1 => h.body[j].nested
        BY <1>3 DEF Safe
      <3>2. \A j \in ReturnsAt(h.body) : j \in 1 .. Len(h.body)
        BY BodyTypes
      <3>3. QED
        BY <1>1, <1>3, <3>1, <3>2
    <2>2. \A n \in Locals : \A k \in LocalDicts(h.body, n) : k <= i => k <= i - 1
      <3>1. \A n \in Locals : \A k \in LocalDicts(h.body, n) : k \in 1 .. Len(h.body) /\ k # i
        BY <1>3, BodyTypes
      <3>2. QED
        BY <1>1, <3>1
    <2>3. Dicts(h, args, x.env, i)
      BY <1>3, <2>2 DEF Safe, Dicts
    <2>4. QED
      BY <1>3, <2>1, <2>3 DEF Safe
  <1>4. CASE ~x.done /\ y \in Effects(h, s, x)
    <2>1. s.kind \in Kinds \ {"walrus", "alias"}
      BY BodyTypes DEF Seen, AllInSight, At
    <2>2. CASE s.kind = "dict"
      <3>1. PICK r \in Made(h, s, x.env) : y = Bound(x, s, Dict(r))
        BY <1>4, <2>2 DEF Effects
      <3>2. Fits(h, args, Contract(s), r)
        BY <1>1, <1>4, MadeFits DEF Safe
      <3>3. QED
        BY <1>4, <2>2, <3>1, <3>2, BindingKept DEF Dict
    <2>3. CASE s.kind = "rebind"
      <3>1. PICK v \in Unread : y = Bound(x, s, v)
        BY <1>4, <2>3 DEF Effects
      <3>2. v.value = "other"
        BY DEF Unread, Dict, Other
      <3>3. QED
        BY <1>4, <2>3, <3>1, <3>2, BindingKept
    <2>4. CASE s.kind = "change"
      <3>1. PICK v \in {Dict(NoReceipt), Other("other")} : y = Bound(x, s, v)
        BY <1>4, <2>4 DEF Effects
      <3>2. v.value = "other"
        BY DEF Dict, Other
      <3>3. QED
        BY <1>4, <2>4, <3>1, <3>2, BindingKept
    <2>5. CASE s.kind \in {"return dict", "return name", "return other"}
      BY <1>1, <1>4, <2>5, ReturnFits DEF ReturnsAt, At
    <2>6. QED
      BY <2>1, <2>2, <2>3, <2>4, <2>5 DEF Kinds
  <1>5. QED
    BY <1>2, <1>3, <1>4 DEF After

\* JSON gives a receipt back with the fields and the args that it had.
LEMMA CanonicalFits ==
  ASSUME NEW h, NEW args, Seen(h, args), NEW ret, NEW r, Fits(h, args, ret, r)
  PROVE  Fits(h, args, ret, Canonical(h, r))
  <1>1. Canonical(h, r) = [f \in DOMAIN r |-> IF r[f] = "tuple" THEN "other" ELSE r[f]]
    BY DEF Seen, Canonical
  <1>2. ASSUME NEW p \in ret.sources, p[1] \in ret.fields, p[2] \in h.args \ Reassigned(h)
        PROVE  Canonical(h, r)[p[1]] = args[p[2]]
    <2>1. r[p[1]] = args[p[2]] /\ p[1] \in DOMAIN r /\ args[p[2]] # "tuple"
      BY <1>2 DEF Fits, Seen
    <2>2. QED
      BY <1>1, <2>1
  <1>3. QED
    BY <1>1, <1>2 DEF Fits

\* Whatever is recorded of the handler is a receipt of one of the forms that the
\* audit read off its returns.
LEMMA ReceiptsFit ==
  ASSUME NEW h, NEW args, Seen(h, args), NEW r \in HandlerReceipts(h, args)
  PROVE  \E ret \in Returned(h) : Fits(h, args, ret, r)
  <1> DEFINE f == Reached(h, args)
             n == Len(h.body)
             S == {i \in 0 .. n : \E x \in f[i] : ~Safe(h, args, i, x)}
  <1>1. n \in Nat /\ h.body \in Seq(Statements)
    BY BodyTypes DEF Seen
  <1>2. \A i \in 0 .. n : f[i] = IF i = 0 THEN {Runs(h, args)}
                                 ELSE UNION {After(h, h.body[i], x) : x \in f[i - 1]}
    <2>1. Traces(f, h, args, n)
      BY <1>1, ReachedTraces
    <2>2. QED
      BY <2>1 DEF Traces
  <1>3. S = {}
    <2>1. SUFFICES ASSUME S # {} PROVE FALSE
      OBVIOUS
    <2>2. PICK i \in S : \A j \in S : i <= j
      <3>1. S \subseteq Nat
        BY <1>1
      <3>2. QED
        BY <2>1, <3>1, LeastElement
    <2>3. i \in 0 .. n /\ \E y \in f[i] : ~Safe(h, args, i, y)
      BY <2>2
    <2> PICK y \in f[i] : ~Safe(h, args, i, y)
      BY <2>3
    <2>4. CASE i = 0
      <3>1. f[0] = {Runs(h, args)}
        BY <1>2, <2>3, <2>4
      <3>2. QED
        BY <2>4, <3>1, RunsSafe
    <2>5. CASE i # 0
      <3>1. i \in 1 .. n /\ i - 1 \in 0 .. n /\ i - 1 \notin S
        BY <1>1, <2>2, <2>5
      <3>2. PICK x \in f[i - 1] : y \in After(h, h.body[i], x)
        <4>1. f[i] = UNION {After(h, h.body[i], x) : x \in f[i - 1]}
          BY <1>2, <2>3, <2>5
        <4>2. QED
          BY <4>1
      <3>3. Safe(h, args, i - 1, x)
        BY <3>1
      <3>4. QED
        BY <3>1, <3>2, <3>3, AfterSafe
    <2>6. QED
      BY <2>4, <2>5
  <1>4. PICK x \in f[n] : r = Canonical(h, x.out)
    BY DEF HandlerReceipts
  <1>5. Safe(h, args, n, x)
    BY <1>1, <1>3
  <1>6. PICK j \in ReturnsAt(h.body) : ~h.body[j].nested
    BY DEF Seen, AllInSight
  <1>7. j <= n
    BY <1>1, BodyTypes
  <1>8. x.done
    BY <1>5, <1>6, <1>7 DEF Safe
  <1>9. PICK ret \in Returned(h) : Fits(h, args, ret, x.out)
    BY <1>5, <1>8 DEF Safe
  <1>10. QED
    BY <1>4, <1>9, CanonicalFits

\* Such a receipt is an object.
LEMMA FittingIsObject ==
  ASSUME NEW h, NEW args, Seen(h, args), NEW ret \in Returned(h), NEW r, Fits(h, args, ret, r)
  PROVE  r # NotAnObject
  <1>1. PICK i \in ReturnsAt(h.body) : ret \in Parsed(h.body, i)
    BY DEF Returned
  <1>2. \A j \in 1 .. Len(h.body) : Contract(h.body[j]).fields \subseteq FieldNames
    BY BodyTypes DEF Contract, Statements
  <1>3. \E j \in 1 .. Len(h.body) : ret = Contract(h.body[j])
    <2>1. i \in 1 .. Len(h.body) /\ \A k \in LocalDicts(h.body, h.body[i].name) : k \in 1 .. Len(h.body)
      BY BodyTypes
    <2>2. h.body[i].kind \in {"return dict", "return name", "return other"}
      BY DEF ReturnsAt, At
    <2>3. QED
      BY <1>1, <2>1, <2>2 DEF Parsed
  <1>4. DOMAIN r \subseteq FieldNames
    BY <1>2, <1>3 DEF Fits
  <1>5. QED
    BY <1>4 DEF NotAnObject, FieldNames

-----------------------------------------------------------------------------
(* The audit and the runtime's two contracts.                              *)

\* No receipt of an audited handler fails its contract, if its returns can be
\* read where args are asked for.
LEMMA AuditedReceipts ==
  ASSUME NEW d \in Deployments, Starts(d), AuditHolds(d),
         RequiredArgs(Matches(d)) # {} => ~Dynamic(d.handler), NEW call \in d.calls,
         NEW r \in HandlerReceipts(d.handler, call.args)
  PROVE  HandlerContract(d, call.args, r)
  <1> DEFINE h == d.handler
             caps == Matches(d)
  <1>1. caps # {} /\ HandlerAudited(h, caps) /\ ReceiptsAudited(h, caps)
    BY DEF AuditHolds, Audited
  <1>2. /\ DOMAIN call.args = h.args
        /\ \A f \in DOMAIN call.args : call.args[f] \notin {"blank", "tuple"}
        /\ h.body \in Seq(Statements) /\ AllInSight(h) /\ h.empties = {} /\ h.json
    BY DeploymentsAssumption DEF AuditHolds, CallsOfHandler
  <1>3. \A c \in caps : \A s \in c.sources : s[1] \in c.receipt /\ s[2] \in c.args
    BY DEF Starts, ValidMatrix, Matches, ForTool
  <1>4. RequiredArgs(caps) \subseteq DOMAIN call.args
    BY <1>1, <1>2 DEF RequiredArgs, HandlerAudited
  <1>5. CASE Dynamic(h)
    <2>1. RequiredArgs(caps) = {} /\ \A c \in caps : c.receipt = {}
      BY <1>1, <1>5 DEF ReceiptsAudited
    <2>2. ~Demanding(caps)
      BY <1>3, <2>1 DEF Demanding, RequiredFields, RequiredSources
    <2>3. QED
      BY <1>1, <2>2 DEF HandlerContract, MeetsContract
  <1>6. CASE ~Dynamic(h)
    <2>1. Seen(h, call.args)
      BY <1>2, <1>6 DEF Seen
    <2>2. PICK ret \in Returned(h) : Fits(h, call.args, ret, r)
      BY <2>1, ReceiptsFit
    <2>3. r # NotAnObject
      BY <2>1, <2>2, FittingIsObject
    <2>4. ASSUME NEW c \in caps
          PROVE  c.receipt \subseteq DOMAIN r /\ \A s \in c.sources : Sourced(r, call.args, s)
      <3>1. CASE c.receipt = {}
        BY <1>3, <3>1
      <3>2. CASE c.receipt # {}
        <4>1. c.receipt \subseteq ret.fields /\ \A s \in c.sources : SourceAudited(h, ret, s)
          BY <1>1, <3>2 DEF ReceiptsAudited
        <4>2. DOMAIN r = ret.fields
          BY <2>2 DEF Fits
        <4>3. ASSUME NEW s \in c.sources PROVE Sourced(r, call.args, s)
          <5>1. s[1] \in ret.fields /\ s[2] \in h.args \ Reassigned(h) /\ s \in ret.sources
            BY <1>3, <4>1 DEF SourceAudited
          <5>2. r[s[1]] = call.args[s[2]]
            BY <2>2, <5>1 DEF Fits
          <5>3. QED
            BY <1>2, <4>2, <5>1, <5>2 DEF Sourced
        <4>4. QED
          BY <4>1, <4>2, <4>3
      <3>3. QED
        BY <3>1, <3>2
    <2>5. RequiredFields(caps) \subseteq DOMAIN r /\ \A s \in RequiredSources(caps) : Sourced(r, call.args, s)
      BY <2>4 DEF RequiredFields, RequiredSources
    <2>6. QED
      BY <1>1, <1>4, <2>3, <2>5 DEF HandlerContract, MeetsContract
  <1>7. QED
    BY <1>5, <1>6

\* No call of an audited handler fails preflight.
LEMMA AuditedCalls ==
  ASSUME NEW d, AuditHolds(d), NEW call \in d.calls
  PROVE  Derivable(call) /\ Preflight(d, call)
  <1> DEFINE h == d.handler
             caps == Matches(d)
  <1>1. caps # {} /\ HandlerAudited(h, caps)
    BY DEF AuditHolds, Audited
  <1>2. /\ DOMAIN call.args = h.args /\ Derivable(call) /\ call.explicit = << >>
        /\ call.fields = IF h.given THEN {h.fields} ELSE {}
    BY DEF AuditHolds, CallsOfHandler
  <1>3. RequiredArgs(caps) \subseteq DOMAIN call.args
    BY <1>1, <1>2 DEF RequiredArgs, HandlerAudited
  <1>4. RequiredKeys(caps) \subseteq FieldsOf(call.args, call.fields)
    <2>1. CASE h.given
      <3>1. FieldsOf(call.args, call.fields) = h.fields
        BY <1>2, <2>1 DEF FieldsOf
      <3>2. QED
        BY <1>1, <3>1 DEF RequiredKeys, HandlerAudited
    <2>2. CASE ~h.given
      BY <1>1, <2>2 DEF RequiredKeys, HandlerAudited
    <2>3. QED
      BY <2>1, <2>2
  <1>5. QED
    BY <1>1, <1>2, <1>3, <1>4 DEF Preflight

\* The effect is that of a call that somebody makes, as is the one a graph is
\* paused in, and nobody makes a call that an audited handler refuses.
Expected ==
  /\ eff.state # "absent" => eff.call \in dep.calls
  /\ node.at # "out" => node.call \in dep.calls
  /\ AuditHolds(dep) => told.signal # "invalid"

\* A call that is made as the deployment has it is the effect's, if it is new,
\* and is told what is so.
LEMMA ExecuteExpected ==
  ASSUME EffectTypes, Expected, NEW call \in dep.calls, Execute(call)
  PROVE  /\ dep' = dep
         /\ eff'.state # "absent" => eff'.call \in dep.calls
         /\ AuditHolds(dep) => told'.signal # "invalid"
  <1>1. Signal(eff.state) # "invalid"
    BY DEF Signal
  <1>2. AuditHolds(dep) => Derivable(call) /\ Preflight(dep, call)
    BY AuditedCalls
  <1>3. AuditHolds(dep) => told'.signal # "invalid"
    BY <1>1, <1>2 DEF Execute, Tell
  <1>4. CASE UNCHANGED resolution
    BY <1>3, <1>4 DEF resolution, Expected
  <1>5. CASE Admit(call)
    BY <1>3, <1>5, AdmitTypes DEF Admit
  <1>6. CASE Run
    BY <1>3, <1>6, RunTypes DEF Run, Expected
  <1>7. QED
    BY <1>4, <1>5, <1>6 DEF Execute

\* What else happens to an effect leaves its call alone.
LEMMA CallStays ==
  ASSUME EffectTypes, eff.state # "absent" => eff.call \in dep.calls,
         \/ UNCHANGED resolution \/ \E to \in {"approved", "denied"} : Decide(to)
         \/ ApproveReviewed \/ Land \/ Refuse \/ Return \/ LoseTrack \/ LoopEnds
         \/ PersonHappened \/ PersonNotHappened \/ Reconcile \/ Tick
  PROVE  dep' = dep /\ (eff'.state # "absent" => eff'.call \in dep.calls)
  <1>1. CASE UNCHANGED resolution
    BY <1>1 DEF resolution
  <1>2. CASE Land
    BY <1>2, LandTypes
  <1>3. CASE Tick
    BY <1>3, TickTypes DEF Tick
  <1>4. CASE Reconcile
    <2>1. \E to \in States : \E receipt : Move(to, receipt)
      BY <1>4, VerdictStates DEF Reconcile, States
    <2>2. QED
      BY <1>4, <2>1, MoveTypes DEF Reconcile
  <1>5. ASSUME UNCHANGED dep, eff.state # "absent", NEW to \in States, NEW receipt, Move(to, receipt)
        PROVE  eff'.state # "absent" => eff'.call \in dep.calls
    BY <1>5, MoveTypes
  <1>6. CASE Return \/ PersonHappened \/ PersonNotHappened
    BY <1>5, <1>6 DEF Return, PersonHappened, PersonNotHappened, States
  <1>7. CASE ApproveReviewed \/ \E to \in {"approved", "denied"} : Decide(to)
    BY <1>5, <1>7 DEF ApproveReviewed, Decide, rest, States
  <1>8. CASE Refuse \/ LoseTrack \/ LoopEnds
    BY <1>5, <1>8 DEF Refuse, LoseTrack, LoopEnds, States
  <1>9. QED
    BY <1>1, <1>2, <1>3, <1>4, <1>6, <1>7, <1>8

\* No step brings in a call that nobody makes, or refuses an audited one.
LEMMA ExpectedKept ==
  ASSUME Types, Expected, [Next]_agents
  PROVE  Expected'
  <1>1. EffectTypes
    BY TypesByParts
  <1>2. CASE Call
    BY <1>1, <1>2, ExecuteExpected DEF Call, Expected
  <1>3. CASE NodeEnters
    <2>1. PICK call \in dep.calls :
            Execute(call) /\ node' = [at |-> IF told'.signal = "approval_required" THEN "paused" ELSE "out",
                                      call |-> call]
      BY <1>3 DEF NodeEnters
    <2>2. QED
      BY <1>1, <2>1, ExecuteExpected DEF Expected
  <1>4. CASE NodeResumes \/ NodeGoes
    <2>1. node.call \in dep.calls /\ Execute(node.call) /\ \E step : GoTo(step)
      BY <1>4 DEF NodeResumes, NodeGoes, Expected
    <2>2. node'.call = node.call
      BY <2>1 DEF GoTo, Types, TypeOK
    <2>3. QED
      BY <1>1, <2>1, <2>2, ExecuteExpected DEF Expected
  <1>5. ASSUME UNCHANGED node, UNCHANGED told \/ told'.signal # "invalid",
               dep' = dep, eff'.state # "absent" => eff'.call \in dep.calls
        PROVE  Expected'
    BY <1>5 DEF Expected
  <1>6. CASE NodeApproves \/ NodeDenies
    <2>1. node'.call = node.call /\ node.call \in dep.calls
      BY <1>6 DEF NodeApproves, NodeDenies, GoTo, Types, TypeOK, Expected
    <2>2. told'.signal = told.signal \/ told'.signal \in {"error", "denied"}
      BY <1>6 DEF NodeApproves, NodeDenies, Tell
    <2>3. \/ UNCHANGED resolution \/ \E to \in {"approved", "denied"} : Decide(to)
          \/ ApproveReviewed
      BY <1>6 DEF NodeApproves, NodeDenies, Decide, ApproveReviewed, rest, resolution
    <2>4. dep' = dep /\ (eff'.state # "absent" => eff'.call \in dep.calls)
      BY <1>1, <2>3, CallStays DEF Expected
    <2>5. QED
      BY <2>1, <2>2, <2>4 DEF Expected
  <1>7. CASE CliDecides
    BY <1>1, <1>5, <1>7, CallStays DEF CliDecides, Decide, ApproveReviewed, rest, Expected
  <1>8. ASSUME UNCHANGED <<node, told>>,
               \/ UNCHANGED resolution \/ Land \/ Refuse \/ Return \/ LoseTrack \/ LoopEnds
               \/ PersonHappened \/ PersonNotHappened \/ Reconcile \/ Tick
        PROVE  Expected'
    BY <1>1, <1>5, <1>8, CallStays DEF Expected
  <1>9. QED
    BY <1>2, <1>3, <1>4, <1>6, <1>7, <1>8 DEF Next, Same, agents

\* A handler that the audit passes is neither refused at admission nor sent to
\* review for its receipt, whatever path its body takes, if its returns can be
\* read where args are asked for.
THEOREM AuditForetells == Spec => []AuditPredictsRuntime
  <1>1. Init => Expected
    BY DEF Init, ResolutionInit, Absent, Expected
  <1>2. Evidenced /\ Types /\ Expected => AuditPredictsRuntime
    BY AuditedReceipts DEF Evidenced, Types, TypeOK, Expected, AuditPredictsRuntime, PassesRuntime
  <1>3. Types /\ Expected /\ [Next]_agents => Expected'
    BY ExpectedKept
  <1>4. QED
    BY <1>1, <1>2, <1>3, EvidencedHolds, TypesHold, PTL DEF Spec

=============================================================================
