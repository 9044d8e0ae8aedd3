--------------------------- MODULE SqlAnswerProofs ---------------------------
(***************************************************************************)
(* What the callers of both SQL stores can rely on, for any number of      *)
(* connections, calls and ticks and any set of requests, proved with       *)
(* TLAPS: a call is told what was committed for it, and every create_or_get *)
(* on the key names the same effect.  AnswerInv relates each connection,   *)
(* wherever it is in its call, to the journal and to the row's id.         *)
(***************************************************************************)
EXTENDS SqlStoreProofs

\* The connection's present call has its entry in the committed journal.
Mine(c) == \E i \in 1..Len(journal) : journal[i].by = c /\ journal[i].n = call[c].n

\* A transaction that has written the row inserts it with its own id, or moves
\* a row whose id it leaves alone.
DraftedId(c) ==
  \/ call[c].r.op = "create" /\ row.state = "absent" /\ draft.row.id = c
  \/ call[c].r.op = "move" /\ row.state # "absent" /\ draft.row.id = row.id

\* What a connection's call has committed so far, and what it is told of it.
AnswerAt(c) ==
  /\ pc[c] \in {"begin", "statement", "work", "update", "journal", "commit"} => ~Mine(c)
  /\ pc[c] = "return" => Mine(c) /\ (call[c].r.op = "create" => row.id = c)
  /\ pc[c] = "idle" =>
       /\ reply[c].kind \in {"created", "moved"} => Mine(c)
       /\ reply[c].kind \in {"existing", "none", "locked"} => ~Mine(c)
  /\ reply[c].kind \in {"created", "existing"} => reply[c].id = row.id /\ row.id # NoConn
  /\ reply[c].kind = "created" => row.id = c
  /\ pc[c] \in {"journal", "commit"} => DraftedId(c)
  /\ pc[c] = "commit" =>
       \E e \in Entries : draft.journal = Append(journal, e) /\ e.by = c /\ e.n = call[c].n

\* Calls are numbered from the journal's point of view as from the caller's.
EntriesPast == \A i \in 1..Len(journal) : journal[i].n <= call[journal[i].by].n

\* The row gets its id with its insert.
IdGiven == row.id = NoConn <=> row.state = "absent"

AnswerInv ==
  /\ EntriesPast
  /\ IdGiven
  /\ \A c \in Conns : AnswerAt(c)

-----------------------------------------------------------------------------
(* Steps that commit nothing.                                              *)

\* Nothing changes for a connection that the step is not about.
LEMMA AnswerKept ==
  ASSUME NEW d \in Conns, AnswerAt(d), UNCHANGED db,
         pc'[d] = pc[d], call'[d] = call[d], reply'[d] = reply[d],
         draft' = draft \/ pc[d] \notin Locking
  PROVE  AnswerAt(d)'
<1>1. Mine(d)' <=> Mine(d)
  BY DEF Mine, db
<1>2. row' = row /\ journal' = journal
  BY DEF db
<1>. QED
  BY <1>1, <1>2 DEF AnswerAt, DraftedId, Locking

\* Only the numbers of calls may grow.
LEMMA GlobalsKept ==
  ASSUME TypeOK, EntriesPast, IdGiven, UNCHANGED db,
         \A c \in Conns : call'[c].n \in Nat /\ call'[c].n >= call[c].n
  PROVE  EntriesPast' /\ IdGiven'
<1>1. row' = row /\ journal' = journal
  BY DEF db
<1>2. ASSUME NEW i \in 1..Len(journal)
      PROVE  journal[i].n <= call'[journal[i].by].n
  <2>1. journal[i] \in Entries
    BY DEF TypeOK
  <2>2. journal[i].n \in Nat /\ journal[i].by \in Conns
    BY <2>1 DEF Entries
  <2>3. journal[i].n <= call[journal[i].by].n /\ call[journal[i].by].n \in Nat
    BY <2>2 DEF EntriesPast, TypeOK
  <2>. QED
    BY <2>2, <2>3
<1>. QED
  BY <1>1, <1>2 DEF EntriesPast, IdGiven

\* A call ends without having committed anything, or having said so.
LEMMA EndedAnswer ==
  ASSUME SqlInv, AnswerInv, NEW c \in Conns, NEW kind \in Replies, EndWith(c, kind),
         UNCHANGED db,
         kind \in {"created", "moved"} => Mine(c),
         kind \in {"existing", "none", "locked"} => ~Mine(c),
         kind \in {"created", "existing"} => row.id # NoConn,
         kind = "created" => row.id = c,
         draft' = draft \/ lock = c
  PROVE  AnswerInv'
<1>1. TypeOK /\ LockInv /\ row' = row /\ journal' = journal
  BY DEF SqlInv, db
<1>2. /\ pc'[c] = "idle" /\ reply'[c] = [kind |-> kind, id |-> row.id]
      /\ call'[c].n = call[c].n
      /\ \A d \in Conns \ {c} : pc'[d] = pc[d] /\ call'[d] = call[d] /\ reply'[d] = reply[d]
  BY <1>1 DEF EndWith, TypeOK
<1>3. Mine(c)' <=> Mine(c)
  BY <1>1, <1>2 DEF Mine
<1>4. AnswerAt(c)'
  BY <1>1, <1>2, <1>3 DEF AnswerAt
<1>5. ASSUME NEW d \in Conns \ {c}
      PROVE  AnswerAt(d)'
  <2>1. draft' = draft \/ pc[d] \notin Locking
    BY <1>1, <1>5 DEF LockInv
  <2>. QED
    BY <1>2, <2>1, AnswerKept DEF AnswerInv
<1>6. ASSUME NEW d \in Conns
      PROVE  call'[d].n \in Nat /\ call'[d].n >= call[d].n
  <2>1. call[d].n \in Nat
    BY <1>1 DEF TypeOK
  <2>2. call'[d].n = call[d].n
    BY <1>2
  <2>. QED
    BY <2>1, <2>2
<1>. QED
  BY <1>1, <1>4, <1>5, <1>6, GlobalsKept DEF AnswerInv

\* A call goes on within its transaction, or takes the lock for it.
LEMMA WentAnswer ==
  ASSUME SqlInv, AnswerInv, NEW c \in Conns,
         NEW step \in {"work", "update", "journal", "commit"}, Goto(c, step),
         pc[c] \in {"begin", "statement", "work", "update", "journal"},
         UNCHANGED db, lock \in {NoConn, c},
         step \in {"journal", "commit"} => DraftedId(c)',
         step = "commit" => \E e \in Entries :
           draft'.journal = Append(journal, e) /\ e.by = c /\ e.n = call[c].n
  PROVE  AnswerInv'
<1>1. TypeOK /\ LockInv /\ row' = row /\ journal' = journal
  BY DEF SqlInv, db
<1>2. /\ pc'[c] = step /\ call' = call /\ reply' = reply
      /\ \A d \in Conns \ {c} : pc'[d] = pc[d]
  BY <1>1, Went DEF Steps
<1>3. ~Mine(c)'
  BY <1>1, <1>2 DEF Mine, AnswerInv, AnswerAt
<1>4. AnswerAt(c)'
  BY <1>1, <1>2, <1>3 DEF AnswerAt, AnswerInv
<1>5. ASSUME NEW d \in Conns \ {c}
      PROVE  AnswerAt(d)'
  <2>1. pc[d] \notin Locking
    BY <1>1, <1>5, SqlAssumption DEF LockInv, SqlAssumption
  <2>. QED
    BY <1>2, <2>1, AnswerKept DEF AnswerInv
<1>6. \A d \in Conns : call'[d].n \in Nat /\ call'[d].n >= call[d].n
  BY <1>1, <1>2 DEF TypeOK
<1>. QED
  BY <1>1, <1>4, <1>5, <1>6, GlobalsKept DEF AnswerInv

-----------------------------------------------------------------------------
(* The steps.                                                              *)

\* A new call has a number that the journal does not have yet.
LEMMA AskAnswer ==
  ASSUME SqlInv, AnswerInv, NEW c \in Conns, Ask(c)
  PROVE  AnswerInv'
<1>1. TypeOK /\ row' = row /\ journal' = journal /\ draft' = draft
  BY DEF Ask, db, tx, SqlInv
<1>2. /\ pc'[c] \in {"begin", "statement"} /\ reply'[c].kind = "-"
      /\ call'[c].n = call[c].n + 1
      /\ \A d \in Conns \ {c} : pc'[d] = pc[d] /\ call'[d] = call[d] /\ reply'[d] = reply[d]
  BY <1>1 DEF Ask, TypeOK, NoReply
<1>3. call[c].n \in Nat /\ \A d \in Conns : call[d].n \in Nat
  BY <1>1 DEF TypeOK
<1>4. ~Mine(c)'
  <2>. SUFFICES ASSUME NEW i \in 1..Len(journal), journal[i].by = c
                PROVE  journal[i].n # call[c].n + 1
    BY <1>1, <1>2 DEF Mine
  <2>1. journal[i] \in Entries
    BY <1>1 DEF TypeOK
  <2>2. journal[i].n \in Nat /\ journal[i].n <= call[c].n
    BY <2>1 DEF Entries, AnswerInv, EntriesPast
  <2>. QED
    BY <1>3, <2>2
<1>5. AnswerAt(c)'
  BY <1>1, <1>2, <1>4 DEF AnswerAt
<1>6. \A d \in Conns \ {c} : AnswerAt(d)'
  BY <1>1, <1>2, AnswerKept DEF AnswerInv, db
<1>7. \A d \in Conns : call'[d].n \in Nat /\ call'[d].n >= call[d].n
  BY <1>2, <1>3
<1>. QED
  BY <1>1, <1>5, <1>6, <1>7, GlobalsKept DEF AnswerInv, db

\* create_or_get before its commit: it inserts, or finds the key taken.
LEMMA InsertAnswer ==
  ASSUME SqlInv, AnswerInv, NEW c \in Conns, InsertSqlite(c) \/ InsertPostgres(c)
  PROVE  AnswerInv'
<1>1. /\ TypeOK /\ LockInv /\ UNCHANGED db /\ row' = row
      /\ pc[c] \in {"work", "statement"} /\ ~Mine(c) /\ call[c].r.op = "create"
  BY DEF InsertSqlite, InsertPostgres, SqlInv, db, AnswerInv, AnswerAt
<1>2. pc[c] = "work" => lock = c /\ draft.row = row
  BY <1>1 DEF LockInv, Locking, SqlInv, DraftInv, DraftAt
<1>3. CASE /\ row.state = "absent" /\ Goto(c, "journal") /\ lock \in {NoConn, c}
           /\ draft'.row = NewRow(c)
  <2>1. DraftedId(c)'
    BY <1>1, <1>3 DEF DraftedId, NewRow, NoRow, Goto, caller
  <2>. QED
    BY <1>1, <1>3, <2>1, WentAnswer
<1>4. CASE row.state # "absent" /\ EndWith(c, "existing") /\ (draft' = draft \/ lock = c)
  BY <1>1, <1>4, EndedAnswer DEF Replies, AnswerInv, IdGiven
<1>5. CASE InsertSqlite(c)
  <2>1. pc[c] = "work"
    BY <1>5 DEF InsertSqlite
  <2>2. draft \in [row : Rows, journal : Seq(Entries)]
    BY <1>1 DEF TypeOK
  <2>. QED
    BY <1>2, <1>3, <1>4, <1>5, <2>1, <2>2 DEF InsertSqlite
<1>6. CASE InsertPostgres(c)
  BY <1>3, <1>4, <1>6 DEF InsertPostgres, Acquire, tx
<1>. QED
  BY <1>5, <1>6

\* transition before its commit: it moves the row, or finds that it may not.
LEMMA UpdateAnswer ==
  ASSUME SqlInv, AnswerInv, NEW c \in Conns,
         UpdateSqlite(c) \/ SelectForUpdate(c) \/ UpdatePostgres(c)
  PROVE  AnswerInv'
<1>1. /\ TypeOK /\ LockInv /\ UNCHANGED db /\ row' = row
      /\ pc[c] \in {"work", "statement", "update"} /\ ~Mine(c)
      /\ draft \in [row : Rows, journal : Seq(Entries)]
  BY DEF UpdateSqlite, SelectForUpdate, UpdatePostgres, SqlInv, db, AnswerInv, AnswerAt, TypeOK
<1>2. pc[c] \in {"work", "update"} => lock = c /\ draft.row = row
  BY <1>1 DEF LockInv, Locking, SqlInv, DraftInv, DraftAt
<1>3. ASSUME Accepts(row, c), call[c].r.op = "move", lock = c, Goto(c, "journal"),
             draft'.row = Updated(row, c)
      PROVE  AnswerInv'
  <2>1. row.state # "absent"
    BY <1>1, <1>3, CallTyped DEF Accepts, States
  <2>2. draft'.row.id = row.id
    BY <1>1, <1>3 DEF Updated, TypeOK, Rows
  <2>3. DraftedId(c)'
    BY <1>1, <1>3, <2>1, <2>2 DEF DraftedId, Goto, caller
  <2>. QED
    BY <1>1, <1>3, <2>3, WentAnswer
<1>4. ASSUME EndWith(c, "none"), draft' = draft \/ lock = c
      PROVE  AnswerInv'
  BY <1>1, <1>4, EndedAnswer DEF Replies
<1>5. CASE UpdateSqlite(c)
  BY <1>1, <1>2, <1>3, <1>4, <1>5 DEF UpdateSqlite
<1>6. CASE SelectForUpdate(c)
  BY <1>1, <1>4, <1>6, WentAnswer DEF SelectForUpdate, Acquire, tx
<1>7. CASE UpdatePostgres(c)
  <2>1. Accepts(row, c) /\ call[c].r.op = "move"
    BY <1>7 DEF UpdatePostgres, SqlInv, DraftInv, DraftAt
  <2>. QED
    BY <1>1, <1>2, <1>3, <1>7, <2>1 DEF UpdatePostgres
<1>. QED
  BY <1>5, <1>6, <1>7

\* The journal entry that is drafted is the call's own.
LEMMA AppendAnswer ==
  ASSUME SqlInv, AnswerInv, NEW c \in Conns, AppendJournal(c)
  PROVE  AnswerInv'
<1>1. /\ TypeOK /\ UNCHANGED db /\ row' = row /\ lock = c /\ pc[c] = "journal"
      /\ draft.journal = journal /\ DraftedRow(c) /\ DraftedId(c)
  BY DEF AppendJournal, SqlInv, LockInv, Locking, DraftInv, DraftAt, db, AnswerInv, AnswerAt
<1>2. draft'.journal = Append(journal, Entry(c)) /\ draft'.row = draft.row
      /\ Goto(c, "commit")
  BY <1>1 DEF AppendJournal, TypeOK
<1>3. Entry(c) \in Entries /\ Entry(c).by = c /\ Entry(c).n = call[c].n
  <2>1. draft.row.state \in States
    BY <1>1 DEF DraftedRow, Legal, States
  <2>. QED
    BY <1>1, <2>1, EntryTyped DEF Entry
<1>4. DraftedId(c)'
  BY <1>1, <1>2 DEF DraftedId, Goto, caller
<1>. QED
  BY <1>1, <1>2, <1>3, <1>4, WentAnswer

\* A commit: the call has its entry from now on, and nobody else gets one.
LEMMA CommitAnswer ==
  ASSUME SqlInv, AnswerInv, NEW c \in Conns, Commit(c)
  PROVE  AnswerInv'
<1>1. TypeOK /\ pc[c] = "commit" /\ DraftedId(c) /\ AnswerAt(c)
  BY DEF Commit, SqlInv, AnswerInv, AnswerAt
<1>2. PICK e \in Entries : draft.journal = Append(journal, e) /\ e.by = c /\ e.n = call[c].n
  BY <1>1 DEF AnswerAt
<1>3. row' = draft.row /\ journal' = Append(journal, e)
  BY <1>2 DEF Commit
<1>4. /\ pc'[c] = "return" /\ call' = call /\ reply' = reply
      /\ \A d \in Conns \ {c} : pc'[d] = pc[d] /\ pc[d] \notin Locking
  BY <1>1, Went, SqlAssumption
  DEF Commit, Steps, SqlInv, LockInv, Locking, SqlAssumption
<1>5. /\ Len(journal) \in Nat /\ Len(journal') = Len(journal) + 1
      /\ \A i \in 1..Len(journal) : journal'[i] = journal[i]
      /\ journal'[Len(journal) + 1] = e
  BY <1>1, <1>3 DEF TypeOK
<1>6. draft.row.state # "absent"
  <2>1. PICK f \in Entries : draft.journal = Append(journal, f) /\ DraftedEntry(f)
    BY <1>1 DEF SqlInv, DraftInv, DraftAt
  <2>. QED
    BY <2>1 DEF DraftedEntry, Legal, States
<1>7. /\ row.id # NoConn => row'.id = row.id
      /\ call[c].r.op = "create" => row'.id = c
      /\ row'.id # NoConn
  BY <1>1, <1>3, SqlAssumption DEF DraftedId, AnswerInv, IdGiven, SqlAssumption
<1>8. \A d \in Conns : Mine(d)' <=> (Mine(d) \/ d = c)
  <2>1. Mine(c)'
    BY <1>2, <1>4, <1>5 DEF Mine
  <2>2. ASSUME NEW d \in Conns, d # c
        PROVE  Mine(d)' <=> Mine(d)
    <3>1. 1..Len(journal') = 1..Len(journal) \cup {Len(journal) + 1}
      BY <1>5
    <3>. QED
      BY <1>2, <1>4, <1>5, <2>2, <3>1 DEF Mine
  <2>. QED
    BY <2>1, <2>2 DEF Mine
<1>9. AnswerAt(c)'
  BY <1>1, <1>4, <1>7, <1>8 DEF AnswerAt
<1>10. ASSUME NEW d \in Conns \ {c}
       PROVE  AnswerAt(d)'
  <2>1. AnswerAt(d) /\ pc'[d] = pc[d] /\ (Mine(d)' <=> Mine(d))
        /\ pc[d] \notin {"journal", "commit"}
    BY <1>4, <1>8, <1>10 DEF AnswerInv, Locking
  <2>2. pc[d] = "return" /\ call[d].r.op = "create" => row'.id = d
    BY <1>7, <2>1, SqlAssumption DEF AnswerAt, SqlAssumption
  <2>. QED
    BY <1>4, <1>7, <2>1, <2>2 DEF AnswerAt
<1>11. EntriesPast'
  <2>. SUFFICES ASSUME NEW i \in 1..Len(journal')
                PROVE  journal'[i].n <= call[journal'[i].by].n
    BY <1>4 DEF EntriesPast
  <2>1. CASE i = Len(journal) + 1
    BY <1>1, <1>2, <1>5, <2>1 DEF TypeOK
  <2>2. CASE i \in 1..Len(journal)
    BY <1>5, <2>2 DEF AnswerInv, EntriesPast
  <2>. QED
    BY <1>5, <2>1, <2>2
<1>12. IdGiven'
  BY <1>3, <1>6, <1>7 DEF IdGiven
<1>. QED
  BY <1>9, <1>10, <1>11, <1>12 DEF AnswerInv

\* Every step keeps what the callers rely on.
LEMMA AnswerStep == SqlInv /\ AnswerInv /\ [Next]_vars => AnswerInv'
<1>. SUFFICES ASSUME SqlInv, AnswerInv, [Next]_vars PROVE AnswerInv'
  OBVIOUS
<1>1. CASE UNCHANGED vars \/ Tick
  <2>1. UNCHANGED <<db, draft, pc, call, reply>>
    BY <1>1 DEF vars, Tick, db, tx, caller
  <2>2. \A c \in Conns : AnswerAt(c)'
    BY <2>1, AnswerKept DEF AnswerInv
  <2>3. TypeOK /\ \A c \in Conns : call'[c].n \in Nat /\ call'[c].n >= call[c].n
    BY <2>1 DEF SqlInv, TypeOK
  <2>. QED
    BY <2>1, <2>2, <2>3, GlobalsKept DEF AnswerInv
<1>2. ASSUME NEW c \in Conns, BeginImmediate(c) PROVE AnswerInv'
  BY <1>2, WentAnswer DEF BeginImmediate, Acquire
<1>3. ASSUME NEW c \in Conns, GiveUpBusy(c) PROVE AnswerInv'
  <2>1. ~Mine(c)
    BY <1>3 DEF GiveUpBusy, AnswerInv, AnswerAt
  <2>. QED
    BY <1>3, <2>1, EndedAnswer DEF GiveUpBusy, Replies, tx
<1>4. ASSUME NEW c \in Conns, Return(c) PROVE AnswerInv'
  <2>1. Mine(c) /\ (call[c].r.op = "create" => row.id = c)
    BY <1>4 DEF Return, AnswerInv, AnswerAt
  <2>2. call[c].r.op \in {"create", "move"}
    BY DEF SqlInv, TypeOK, Ops, CreateOp
  <2>3. CASE call[c].r.op = "move"
    BY <1>4, <2>1, <2>3, EndedAnswer DEF Return, Replies, tx
  <2>4. CASE call[c].r.op = "create"
    BY <1>4, <2>1, <2>4, EndedAnswer, SqlAssumption DEF Return, Replies, tx, SqlAssumption
  <2>. QED
    BY <2>2, <2>3, <2>4
<1>5. ASSUME NEW c \in Conns, Die(c) PROVE AnswerInv'
  BY <1>5, EndedAnswer DEF Die, Replies, tx
<1>. QED
  BY <1>1, <1>2, <1>3, <1>4, <1>5, AskAnswer, InsertAnswer, UpdateAnswer, AppendAnswer,
     CommitAnswer DEF Next

\* Nobody has called and nothing is committed.
LEMMA AnswerInit == Init => AnswerInv
<1>. SUFFICES ASSUME Init PROVE AnswerInv
  OBVIOUS
<1>1. EntriesPast /\ IdGiven
  BY DEF Init, EntriesPast, IdGiven, NoRow
<1>2. \A c \in Conns : AnswerAt(c)
  BY DEF Init, AnswerAt, NoReply
<1>. QED
  BY <1>1, <1>2 DEF AnswerInv

-----------------------------------------------------------------------------
(* The theorems.                                                           *)

\* AnswerInv is inductive next to SqlInv.
THEOREM AnswerInvariant == Spec => []AnswerInv
  BY AnswerInit, AnswerStep, SqlInvariant, PTL DEF Spec

\* Every variable of both SQL stores always holds a value of its kind.
THEOREM SqlTypes == Spec => []TypeOK
<1>1. SqlInv => TypeOK
  BY DEF SqlInv
<1>. QED
  BY SqlInvariant, <1>1, PTL

\* A call of either SQL store is told what was committed for it: a record that
\* it created or moved has its entry in the journal, and one that was refused,
\* came second or gave up on the lock has none.
THEOREM AnswersAreTrue == Spec => []AnswersMatchLedger
<1>1. AnswerInv => AnswersMatchLedger
  BY DEF AnswerInv, AnswerAt, Mine, AnswersMatchLedger
<1>. QED
  BY AnswerInvariant, <1>1, PTL

\* Every create_or_get on the key that returns names the same effect, the one
\* of the caller that is told it created it.
THEOREM OneIdPerKey == Spec => []OneEffectPerKey
<1>1. AnswerInv => OneEffectPerKey
  BY DEF AnswerInv, AnswerAt, OneEffectPerKey
<1>. QED
  BY AnswerInvariant, <1>1, PTL
=============================================================================
