--------------------------- MODULE SqlStoreProofs ---------------------------
(***************************************************************************)
(* What holds of SqlStore for any number of connections, calls and ticks,  *)
(* and any set of requests, proved with TLAPS: the committed row and its   *)
(* journal agree, and every step is a step of the abstract Ledger or       *)
(* leaves it alone.  SqlInv is the inductive invariant: it says who holds  *)
(* the lock and how far its draft is from what is committed.               *)
(***************************************************************************)
EXTENDS SqlStore, TLAPS

\* The moves a transaction may have drafted.
Legal(a, b) ==
  \/ a = "absent" /\ b = "planned"
  \/ a \in States /\ b \in States /\ CanTransition(a, b)

\* A connection holds the lock from its first locking step to its last.
LockInv == \A c \in Conns : pc[c] \in Locking <=> lock = c

\* No reading of the clock is from the future.
ReadingsPast ==
  /\ \A c \in Conns : now[c] <= clock
  /\ \A i \in 1..Len(journal) : journal[i].at <= clock

\* The draft has what is committed, and a legal move of it once there is one;
\* a guarded one leaves no live lease of another behind.
NotStolen(guarded, c) == guarded /\ c # row.owner => row.lease <= clock

DraftedRow(c) ==
  /\ Legal(row.state, draft.row.state)
  /\ draft.row.updated <= clock
  /\ NotStolen(call[c].r.guarded, c)

DraftedEntry(e) ==
  /\ e.from = row.state
  /\ e.to = draft.row.state
  /\ Legal(e.from, e.to)
  /\ e.at <= clock
  /\ draft.row.updated <= e.at
  /\ \A i \in 1..Len(journal) : journal[i].at <= e.at
  /\ NotStolen(e.guarded, e.by)

DraftAt(c) ==
  /\ pc[c] \in {"work", "update"} => draft.row = row /\ draft.journal = journal
  /\ pc[c] = "update" => call[c].r.op = "move" /\ Accepts(row, c)
  /\ pc[c] = "journal" => draft.journal = journal /\ DraftedRow(c)
  /\ pc[c] = "commit" =>
       \E e \in Entries : draft.journal = Append(journal, e) /\ DraftedEntry(e)

DraftInv == \A c \in Conns : DraftAt(c)

SqlInv ==
  /\ TypeOK
  /\ LockInv
  /\ ReadingsPast
  /\ DraftInv
  /\ JournalTellsHistory
  /\ ScansOverlookNothing

-----------------------------------------------------------------------------
(* The operators.                                                          *)

\* Every request a caller makes is an operation of the store.
LEMMA RequestTyped ==
  ASSUME NEW r \in {CreateOp} \cup {MoveOp(q) : q \in Requests}
  PROVE  r \in Ops
<1>1. CreateOp \in Ops
  BY DEF CreateOp, Ops, States
<1>2. ASSUME NEW q \in Requests PROVE MoveOp(q) \in Ops
  <2>1. q \in [from : SUBSET States, to : States, guarded : BOOLEAN]
    BY SqlAssumption DEF SqlAssumption
  <2>. QED
    BY <2>1 DEF MoveOp, Ops
<1>. QED
  BY <1>1, <1>2

\* The parts of the call a connection is in.
LEMMA CallTyped ==
  ASSUME TypeOK, NEW c \in Conns
  PROVE  /\ call[c].n \in Nat /\ now[c] \in Nat
         /\ call[c].r.to \in States
         /\ call[c].r.from \subseteq States
         /\ call[c].r.guarded \in BOOLEAN
         /\ call[c].r.op = "create" => ~call[c].r.guarded
<1>1. call[c] \in [n : Nat, r : Ops] /\ now[c] \in Nat
  BY DEF TypeOK
<1>2. CASE call[c].r = CreateOp
  BY <1>1, <1>2 DEF CreateOp, States
<1>3. CASE call[c].r \in [op : {"move"}, from : SUBSET States, to : States, guarded : BOOLEAN]
  BY <1>1, <1>3
<1>. QED
  BY <1>1, <1>2, <1>3 DEF Ops

\* What create_or_get inserts.
LEMMA NewRowTyped ==
  ASSUME TypeOK, NEW c \in Conns
  PROVE  /\ NewRow(c) \in Rows
         /\ NewRow(c).state = "planned"
         /\ NewRow(c).updated = now[c]
  BY DEF TypeOK, NewRow, NoRow, Rows, States

\* What transition writes into the row.
LEMMA UpdatedTyped ==
  ASSUME TypeOK, NEW c \in Conns, NEW r \in Rows, call[c].r.op = "move"
  PROVE  /\ Updated(r, c) \in Rows
         /\ Updated(r, c).state = call[c].r.to
         /\ Updated(r, c).updated = now[c]
<1>1. call[c].r.to \in States /\ now[c] \in Nat /\ now[c] + LeaseSeconds \in Nat
  BY CallTyped, SqlAssumption DEF SqlAssumption
<1>. QED
  BY <1>1 DEF Updated, Rows

\* What either of them appends to the journal.
LEMMA EntryTyped ==
  ASSUME TypeOK, NEW c \in Conns, draft.row.state \in States
  PROVE  Entry(c) \in Entries
  BY CallTyped DEF TypeOK, Entry, Entries, Rows

\* The two tuples of row and journal that are spelled out in the actions.
LEMMA NothingTyped == NoRow \in Rows /\ NoDraft \in [row : Rows, journal : Seq(Entries)]
<1>1. NoRow \in Rows
  BY DEF NoRow, Rows
<1>2. << >> \in Seq(Entries)
  OBVIOUS
<1>. QED
  BY <1>1, <1>2 DEF NoDraft

\* A connection that is answered, and nobody else with it.
LEMMA Ended ==
  ASSUME TypeOK, NEW c \in Conns, NEW kind \in Replies, EndWith(c, kind)
  PROVE  /\ pc' \in [Conns -> Steps] /\ pc'[c] = "idle"
         /\ call' \in [Conns -> [n : Nat, r : Ops]]
         /\ now' \in [Conns -> Nat] /\ now'[c] = 0
         /\ reply' \in [Conns -> [kind : Replies, id : Conns \cup {NoConn}]]
         /\ \A d \in Conns \ {c} : pc'[d] = pc[d] /\ now'[d] = now[d] /\ call'[d] = call[d]
<1>1. CreateOp \in Ops
  BY RequestTyped
<1>2. row.id \in Conns \cup {NoConn}
  BY DEF TypeOK, Rows
<1>. QED
  BY <1>1, <1>2 DEF EndWith, TypeOK, Steps

\* A connection that goes on to its next statement, and nobody else with it.
LEMMA Went ==
  ASSUME TypeOK, NEW c \in Conns, NEW step \in Steps, Goto(c, step)
  PROVE  /\ pc' \in [Conns -> Steps] /\ pc'[c] = step
         /\ call' = call /\ now' = now /\ reply' = reply
         /\ \A d \in Conns \ {c} : pc'[d] = pc[d]
  BY DEF Goto, TypeOK, caller

-----------------------------------------------------------------------------
(* Types.                                                                  *)

\* Every step keeps the variables in range.
LEMMA TypeStep ==
  ASSUME TypeOK, [Next]_vars, DraftInv
  PROVE  TypeOK'
<1>. USE NothingTyped
<1>1. CASE UNCHANGED vars
  BY <1>1 DEF TypeOK, vars, env, db, tx, caller
<1>2. CASE Tick
  BY <1>2 DEF Tick, TypeOK, db, tx, caller
<1>3. ASSUME NEW c \in Conns, Ask(c) PROVE TypeOK'
  <2>1. PICK r \in {CreateOp} \cup {MoveOp(q) : q \in Requests} :
          call' = [call EXCEPT ![c] = [n |-> @.n + 1, r |-> r]]
    BY <1>3 DEF Ask
  <2>2. r \in Ops
    BY RequestTyped
  <2>3. [n |-> call[c].n + 1, r |-> r] \in [n : Nat, r : Ops]
    BY <2>2 DEF TypeOK
  <2>4. call' \in [Conns -> [n : Nat, r : Ops]]
    BY <2>1, <2>3 DEF TypeOK
  <2>. QED
    BY <1>3, <2>4 DEF Ask, TypeOK, NoReply, Replies, Steps, env, db, tx
<1>4. ASSUME NEW c \in Conns, BeginImmediate(c) PROVE TypeOK'
  BY <1>4, Went DEF BeginImmediate, Acquire, TypeOK, Steps, env, db
<1>5. ASSUME NEW c \in Conns, GiveUpBusy(c) PROVE TypeOK'
  BY <1>5, Ended DEF GiveUpBusy, TypeOK, Replies, env, db, tx
<1>6. ASSUME NEW c \in Conns, InsertSqlite(c) PROVE TypeOK'
  <2>1. CASE draft.row.state = "absent"
    <3>1. draft' = [draft EXCEPT !.row = NewRow(c)] /\ Goto(c, "journal") /\ UNCHANGED <<env, db, lock>>
      BY <1>6, <2>1 DEF InsertSqlite
    <3>2. draft' \in [row : Rows, journal : Seq(Entries)]
      BY <3>1, NewRowTyped DEF TypeOK
    <3>. QED
      BY <3>1, <3>2, Went DEF TypeOK, Steps, env, db
  <2>2. CASE draft.row.state # "absent"
    BY <1>6, <2>2, Ended DEF InsertSqlite, Release, TypeOK, Replies, env, db
  <2>. QED
    BY <2>1, <2>2
<1>7. ASSUME NEW c \in Conns, InsertPostgres(c) PROVE TypeOK'
  BY <1>7, Ended, Went, NewRowTyped
     DEF InsertPostgres, Acquire, TypeOK, Replies, Steps, env, db, tx
<1>8. ASSUME NEW c \in Conns, UpdateSqlite(c) PROVE TypeOK'
  <2>1. CASE Accepts(draft.row, c)
    <3>1. Updated(draft.row, c) \in Rows
      BY <1>8, UpdatedTyped DEF UpdateSqlite, TypeOK
    <3>2. draft' = [draft EXCEPT !.row = Updated(@, c)] /\ Goto(c, "journal") /\ lock' = lock
      BY <1>8, <2>1 DEF UpdateSqlite
    <3>. QED
      BY <1>8, <3>1, <3>2, Went DEF UpdateSqlite, TypeOK, Steps, env, db
  <2>2. CASE ~Accepts(draft.row, c)
    BY <1>8, <2>2, Ended DEF UpdateSqlite, Release, TypeOK, Replies, env, db
  <2>. QED
    BY <2>1, <2>2
<1>9. ASSUME NEW c \in Conns, SelectForUpdate(c) PROVE TypeOK'
  <2>1. CASE Accepts(row, c)
    <3>1. draft' = [row |-> row, journal |-> journal] /\ Goto(c, "update") /\ lock' = c
      BY <1>9, <2>1 DEF SelectForUpdate, Acquire
    <3>. QED
      BY <1>9, <3>1, Went DEF SelectForUpdate, TypeOK, Steps, env, db
  <2>2. CASE ~Accepts(row, c)
    BY <1>9, <2>2, Ended DEF SelectForUpdate, TypeOK, Replies, env, db, tx
  <2>. QED
    BY <2>1, <2>2
<1>10. ASSUME NEW c \in Conns, UpdatePostgres(c) PROVE TypeOK'
  <2>1. call[c].r.op = "move"
    BY <1>10 DEF UpdatePostgres, DraftInv, DraftAt
  <2>. QED
    BY <1>10, <2>1, Went, UpdatedTyped DEF UpdatePostgres, TypeOK, Steps, env, db
<1>11. ASSUME NEW c \in Conns, AppendJournal(c) PROVE TypeOK'
  <2>1. draft.row.state \in States
    BY <1>11 DEF AppendJournal, DraftInv, DraftAt, DraftedRow, Legal, States
  <2>2. Append(draft.journal, Entry(c)) \in Seq(Entries)
    BY <2>1, EntryTyped DEF TypeOK
  <2>. QED
    BY <1>11, <2>2, Went DEF AppendJournal, TypeOK, Steps, env, db
<1>12. ASSUME NEW c \in Conns, Commit(c) PROVE TypeOK'
  BY <1>12, Went DEF Commit, Release, TypeOK, Steps, env
<1>13. ASSUME NEW c \in Conns, Return(c) PROVE TypeOK'
  BY <1>13, Ended DEF Return, TypeOK, Replies, env, db, tx
<1>14. ASSUME NEW c \in Conns, Die(c) PROVE TypeOK'
  BY <1>14, Ended DEF Die, Release, TypeOK, Replies, env, db, tx
<1>. QED
  BY <1>1, <1>2, <1>3, <1>4, <1>5, <1>6, <1>7, <1>8, <1>9, <1>10, <1>11, <1>12, <1>13, <1>14
     DEF Next

-----------------------------------------------------------------------------
(* The lock.                                                               *)

\* The lock changes hands only with the step of whoever takes or leaves it.
LEMMA LockStep ==
  ASSUME TypeOK, LockInv, [Next]_vars
  PROVE  LockInv'
<1>. USE SqlAssumption DEF SqlAssumption, LockInv, Locking
<1>1. CASE UNCHANGED vars
  BY <1>1 DEF vars, tx
<1>2. CASE Tick
  BY <1>2 DEF Tick, tx
<1>3. ASSUME NEW c \in Conns, Ask(c) PROVE LockInv'
  BY <1>3 DEF Ask, TypeOK, tx
<1>4. ASSUME NEW c \in Conns, BeginImmediate(c) PROVE LockInv'
  BY <1>4, Went DEF BeginImmediate, Acquire, Steps
<1>5. ASSUME NEW c \in Conns, GiveUpBusy(c) PROVE LockInv'
  BY <1>5, Ended DEF GiveUpBusy, Replies, tx
<1>6. ASSUME NEW c \in Conns, InsertSqlite(c) PROVE LockInv'
  BY <1>6, Ended, Went DEF InsertSqlite, Release, Replies, Steps
<1>7. ASSUME NEW c \in Conns, InsertPostgres(c) PROVE LockInv'
  BY <1>7, Ended, Went DEF InsertPostgres, Acquire, Replies, Steps, tx
<1>8. ASSUME NEW c \in Conns, UpdateSqlite(c) PROVE LockInv'
  BY <1>8, Ended, Went DEF UpdateSqlite, Release, Replies, Steps
<1>9. ASSUME NEW c \in Conns, SelectForUpdate(c) PROVE LockInv'
  BY <1>9, Ended, Went DEF SelectForUpdate, Acquire, Replies, Steps, tx
<1>10. ASSUME NEW c \in Conns, UpdatePostgres(c) PROVE LockInv'
  BY <1>10, Went DEF UpdatePostgres, Steps
<1>11. ASSUME NEW c \in Conns, AppendJournal(c) PROVE LockInv'
  BY <1>11, Went DEF AppendJournal, Steps
<1>12. ASSUME NEW c \in Conns, Commit(c) PROVE LockInv'
  BY <1>12, Went DEF Commit, Release, Steps
<1>13. ASSUME NEW c \in Conns, Return(c) PROVE LockInv'
  BY <1>13, Ended DEF Return, Replies, tx
<1>14. ASSUME NEW c \in Conns, Die(c) PROVE LockInv'
  BY <1>14, Ended DEF Die, Release, Replies, tx
<1>. QED
  BY <1>1, <1>2, <1>3, <1>4, <1>5, <1>6, <1>7, <1>8, <1>9, <1>10, <1>11, <1>12, <1>13, <1>14
     DEF Next

-----------------------------------------------------------------------------
(* The draft.                                                              *)

\* What a step that is not its own, and leaves the transaction and what is
\* committed alone, does to a draft.
LEMMA DraftKept ==
  ASSUME NEW d \in Conns, DraftAt(d), UNCHANGED <<clock, db, draft>>,
         pc'[d] = pc[d], call'[d] = call[d], now'[d] = now[d]
  PROVE  DraftAt(d)'
  BY DEF DraftAt, DraftedRow, DraftedEntry, NotStolen, Accepts, db

\* A connection without the lock has no draft.
LEMMA NoDraftOf ==
  ASSUME NEW d \in Conns, pc'[d] \notin Locking
  PROVE  DraftAt(d)'
  BY DEF DraftAt, Locking

\* A step of c that takes, holds or frees the lock: nobody else has a draft.
LEMMA OthersNoDraft ==
  ASSUME LockInv, NEW c \in Conns, lock \in {NoConn, c},
         \A d \in Conns \ {c} : pc'[d] = pc[d]
  PROVE  \A d \in Conns \ {c} : DraftAt(d)'
<1>1. ASSUME NEW d \in Conns \ {c} PROVE pc'[d] \notin Locking
  BY SqlAssumption DEF SqlAssumption, LockInv
<1>. QED
  BY <1>1, NoDraftOf

\* An accepted move is legal and takes no live lease.
LEMMA AcceptedMove ==
  ASSUME TypeOK, ReadingsPast, NEW c \in Conns, call[c].r.op = "move", Accepts(row, c)
  PROVE  /\ Legal(row.state, call[c].r.to)
         /\ NotStolen(call[c].r.guarded, c)
         /\ now[c] <= clock
<1>1. row.state \in States /\ call[c].r.to \in States
  BY CallTyped DEF Accepts
<1>2. row.lease \in Nat /\ now[c] \in Nat /\ clock \in Nat /\ now[c] <= clock
  BY DEF TypeOK, Rows, ReadingsPast
<1>. QED
  BY <1>1, <1>2 DEF Legal, Accepts, NotStolen

\* The row that an insert drafts.
LEMMA InsertedRow ==
  ASSUME TypeOK, ReadingsPast, NEW c \in Conns, call[c].r.op = "create",
         row.state = "absent", draft'.row = NewRow(c), UNCHANGED <<clock, db, call>>
  PROVE  DraftedRow(c)'
<1>1. ~call[c].r.guarded
  BY CallTyped
<1>. QED
  BY <1>1, NewRowTyped DEF DraftedRow, Legal, NotStolen, ReadingsPast, db

\* Nobody but the holder of the lock touches the draft, or what it rests on.
LEMMA DraftStep ==
  ASSUME TypeOK, LockInv, ReadingsPast, DraftInv, [Next]_vars
  PROVE  DraftInv'
<1>1. CASE UNCHANGED vars
  BY <1>1, DraftKept DEF DraftInv, vars, env, db, tx, caller
<1>2. CASE Tick
  <2>1. clock \in Nat /\ clock' = clock + 1 /\ row.lease \in Nat /\ draft.row.updated \in Nat
    BY <1>2 DEF Tick, TypeOK, Rows
  <2>2. ASSUME NEW c \in Conns PROVE DraftAt(c)'
    <3>1. UNCHANGED <<db, draft, pc, call, now>>
      BY <1>2 DEF Tick, tx, caller
    <3>2. DraftedRow(c) => DraftedRow(c)'
      BY <2>1, <3>1 DEF DraftedRow, NotStolen, db
    <3>3. ASSUME NEW e \in Entries, DraftedEntry(e) PROVE DraftedEntry(e)'
      BY <2>1, <3>1, <3>3 DEF DraftedEntry, NotStolen, db, Entries
    <3>. QED
      BY <3>1, <3>2, <3>3 DEF DraftInv, DraftAt, Accepts, db
  <2>. QED
    BY <2>2 DEF DraftInv
<1>3. ASSUME NEW c \in Conns, Ask(c) PROVE DraftInv'
  <2>1. pc'[c] \notin Locking /\ UNCHANGED <<clock, db, draft>>
        /\ \A d \in Conns \ {c} : pc'[d] = pc[d] /\ call'[d] = call[d] /\ now'[d] = now[d]
    BY <1>3 DEF Ask, TypeOK, Locking, env, tx
  <2>. QED
    BY <2>1, NoDraftOf, DraftKept DEF DraftInv
<1>4. ASSUME NEW c \in Conns, BeginImmediate(c) PROVE DraftInv'
  <2>1. lock = NoConn /\ pc'[c] = "work" /\ (\A d \in Conns \ {c} : pc'[d] = pc[d])
    BY <1>4, Went DEF BeginImmediate, Acquire, Steps
  <2>2. DraftAt(c)'
    BY <1>4, <2>1 DEF BeginImmediate, DraftAt, db
  <2>. QED
    BY <2>1, <2>2, OthersNoDraft DEF DraftInv
<1>5. ASSUME NEW c \in Conns,
             \/ GiveUpBusy(c) \/ Return(c)
             \/ InsertPostgres(c) /\ row.state # "absent"
             \/ SelectForUpdate(c) /\ ~Accepts(row, c)
      PROVE DraftInv'
  <2>1. UNCHANGED <<clock, db, draft>> /\ \E k \in Replies : EndWith(c, k)
    BY <1>5 DEF GiveUpBusy, Return, InsertPostgres, SelectForUpdate, Replies, env, tx
  <2>2. pc'[c] = "idle"
        /\ \A d \in Conns \ {c} : pc'[d] = pc[d] /\ call'[d] = call[d] /\ now'[d] = now[d]
    BY <2>1, Ended
  <2>3. pc'[c] \notin Locking
    BY <2>2 DEF Locking
  <2>. QED
    BY <2>1, <2>2, <2>3, NoDraftOf, DraftKept DEF DraftInv
<1>6. ASSUME NEW c \in Conns,
             \/ InsertSqlite(c) /\ draft.row.state # "absent"
             \/ UpdateSqlite(c) /\ ~Accepts(draft.row, c)
             \/ Die(c) /\ lock = c
      PROVE DraftInv'
  <2>1. lock = c /\ \E k \in Replies : EndWith(c, k)
    BY <1>6 DEF InsertSqlite, UpdateSqlite, Die, LockInv, Locking, Replies
  <2>2. pc'[c] = "idle" /\ \A d \in Conns \ {c} : pc'[d] = pc[d]
    BY <2>1, Ended
  <2>3. pc'[c] \notin Locking
    BY <2>2 DEF Locking
  <2>. QED
    BY <2>1, <2>2, <2>3, NoDraftOf, OthersNoDraft DEF DraftInv
<1>7. ASSUME NEW c \in Conns, Die(c), lock # c PROVE DraftInv'
  <2>1. UNCHANGED <<clock, db, draft>> /\ EndWith(c, "lost")
    BY <1>7 DEF Die, env, tx
  <2>2. pc'[c] = "idle"
        /\ \A d \in Conns \ {c} : pc'[d] = pc[d] /\ call'[d] = call[d] /\ now'[d] = now[d]
    BY <2>1, Ended DEF Replies
  <2>3. pc'[c] \notin Locking
    BY <2>2 DEF Locking
  <2>. QED
    BY <2>1, <2>2, <2>3, NoDraftOf, DraftKept DEF DraftInv
<1>8. ASSUME NEW c \in Conns, InsertSqlite(c), draft.row.state = "absent" PROVE DraftInv'
  <2>1. lock = c /\ draft.row = row /\ draft.journal = journal
    BY <1>8 DEF InsertSqlite, LockInv, Locking, DraftInv, DraftAt
  <2>2. Goto(c, "journal") /\ draft' = [draft EXCEPT !.row = NewRow(c)] /\ UNCHANGED <<clock, db>>
    BY <1>8 DEF InsertSqlite, env
  <2>3. pc'[c] = "journal" /\ call' = call /\ (\A d \in Conns \ {c} : pc'[d] = pc[d])
    BY <2>2, Went DEF Steps
  <2>4. DraftedRow(c)'
    BY <1>8, <2>1, <2>2, <2>3, InsertedRow DEF InsertSqlite, TypeOK
  <2>5. draft'.journal = journal /\ journal' = journal
    BY <2>1, <2>2 DEF TypeOK, db
  <2>6. DraftAt(c)'
    BY <2>3, <2>4, <2>5 DEF DraftAt
  <2>. QED
    BY <2>1, <2>3, <2>6, OthersNoDraft DEF DraftInv
<1>9. ASSUME NEW c \in Conns, InsertPostgres(c), row.state = "absent" PROVE DraftInv'
  <2>1. lock = NoConn /\ Goto(c, "journal") /\ UNCHANGED <<clock, db>>
        /\ draft' = [row |-> NewRow(c), journal |-> journal]
    BY <1>9 DEF InsertPostgres, Acquire, env
  <2>2. pc'[c] = "journal" /\ call' = call /\ (\A d \in Conns \ {c} : pc'[d] = pc[d])
    BY <2>1, Went DEF Steps
  <2>3. DraftedRow(c)'
    BY <1>9, <2>1, <2>2, InsertedRow DEF InsertPostgres
  <2>. QED
    BY <2>1, <2>2, <2>3, OthersNoDraft DEF DraftInv, DraftAt, db
<1>10. ASSUME NEW c \in Conns,
              \/ UpdateSqlite(c) /\ Accepts(draft.row, c)
              \/ UpdatePostgres(c)
       PROVE DraftInv'
  <2>1. /\ lock = c /\ draft.row = row /\ draft.journal = journal
        /\ call[c].r.op = "move" /\ Accepts(row, c)
    BY <1>10 DEF UpdateSqlite, UpdatePostgres, LockInv, Locking, DraftInv, DraftAt
  <2>2. Goto(c, "journal") /\ draft' = [draft EXCEPT !.row = Updated(@, c)] /\ UNCHANGED <<clock, db>>
    BY <1>10 DEF UpdateSqlite, UpdatePostgres, env
  <2>3. pc'[c] = "journal" /\ call' = call /\ (\A d \in Conns \ {c} : pc'[d] = pc[d])
    BY <2>2, Went DEF Steps
  <2>4. draft'.row = Updated(row, c) /\ draft'.journal = journal
    BY <2>1, <2>2 DEF TypeOK
  <2>5. DraftedRow(c)'
    BY <2>1, <2>2, <2>3, <2>4, UpdatedTyped, AcceptedMove DEF DraftedRow, NotStolen, TypeOK, db
  <2>. QED
    BY <2>1, <2>2, <2>3, <2>4, <2>5, OthersNoDraft DEF DraftInv, DraftAt, db
<1>11. ASSUME NEW c \in Conns, SelectForUpdate(c), Accepts(row, c) PROVE DraftInv'
  <2>1. lock = NoConn /\ Goto(c, "update") /\ UNCHANGED <<clock, db>>
        /\ draft' = [row |-> row, journal |-> journal] /\ call[c].r.op = "move"
    BY <1>11 DEF SelectForUpdate, Acquire, env
  <2>2. pc'[c] = "update" /\ call' = call /\ now' = now
        /\ (\A d \in Conns \ {c} : pc'[d] = pc[d])
    BY <2>1, Went DEF Steps
  <2>3. DraftAt(c)'
    BY <1>11, <2>1, <2>2 DEF DraftAt, Accepts, db
  <2>. QED
    BY <2>1, <2>2, <2>3, OthersNoDraft DEF DraftInv
<1>12. ASSUME NEW c \in Conns, AppendJournal(c) PROVE DraftInv'
  <2>1. lock = c /\ draft.journal = journal /\ DraftedRow(c)
    BY <1>12 DEF AppendJournal, LockInv, Locking, DraftInv, DraftAt
  <2>2. Goto(c, "commit") /\ draft' = [draft EXCEPT !.journal = Append(@, Entry(c))]
        /\ UNCHANGED <<clock, db>>
    BY <1>12 DEF AppendJournal, env
  <2>3. pc'[c] = "commit" /\ (\A d \in Conns \ {c} : pc'[d] = pc[d])
    BY <2>2, Went DEF Steps
  <2>4. draft'.journal = Append(journal, Entry(c)) /\ draft'.row = draft.row
    BY <2>1, <2>2 DEF TypeOK
  <2>5. PICK e \in Entries : e = Entry(c)
    BY <2>1, EntryTyped DEF DraftedRow, Legal, States
  <2>6. DraftedEntry(e)'
    BY <2>1, <2>2, <2>4, <2>5 DEF DraftedEntry, DraftedRow, Entry, NotStolen, ReadingsPast, TypeOK, db
  <2>7. DraftAt(c)'
    BY <2>2, <2>3, <2>4, <2>5, <2>6 DEF DraftAt, db
  <2>. QED
    BY <2>1, <2>3, <2>7, OthersNoDraft DEF DraftInv
<1>13. ASSUME NEW c \in Conns, Commit(c) PROVE DraftInv'
  <2>1. lock = c /\ pc'[c] = "return" /\ (\A d \in Conns \ {c} : pc'[d] = pc[d])
    BY <1>13, Went DEF Commit, LockInv, Locking, Steps
  <2>2. pc'[c] \notin Locking
    BY <2>1 DEF Locking
  <2>. QED
    BY <2>1, <2>2, NoDraftOf, OthersNoDraft DEF DraftInv
<1>. QED
  BY <1>1, <1>2, <1>3, <1>4, <1>5, <1>6, <1>7, <1>8, <1>9, <1>10, <1>11, <1>12, <1>13
     DEF Next

-----------------------------------------------------------------------------
(* What is committed.                                                      *)

\* Only Commit changes it, by the one entry of its draft.
LEMMA DbStep ==
  ASSUME TypeOK, DraftInv, [Next]_vars
  PROVE  \/ UNCHANGED db
         \/ \E e \in Entries :
              /\ journal' = Append(journal, e)
              /\ row'.state = e.to
              /\ row'.updated <= e.at
              /\ e.from = row.state
              /\ Legal(e.from, e.to)
              /\ e.at <= clock /\ clock' = clock
              /\ \A i \in 1..Len(journal) : journal[i].at <= e.at
              /\ NotStolen(e.guarded, e.by)
<1>1. ASSUME NEW c \in Conns, Commit(c)
      PROVE  \E e \in Entries :
              /\ journal' = Append(journal, e)
              /\ row'.state = e.to
              /\ row'.updated <= e.at
              /\ e.from = row.state
              /\ Legal(e.from, e.to)
              /\ e.at <= clock /\ clock' = clock
              /\ \A i \in 1..Len(journal) : journal[i].at <= e.at
              /\ NotStolen(e.guarded, e.by)
  <2>1. PICK e \in Entries : draft.journal = Append(journal, e) /\ DraftedEntry(e)
    BY <1>1 DEF Commit, DraftInv, DraftAt
  <2>2. row' = draft.row /\ journal' = draft.journal /\ clock' = clock
    BY <1>1 DEF Commit, env
  <2>. QED
    BY <2>1, <2>2 DEF DraftedEntry
<1>2. ASSUME NEW c \in Conns,
             \/ Ask(c) \/ BeginImmediate(c) \/ GiveUpBusy(c)
             \/ InsertSqlite(c) \/ InsertPostgres(c)
             \/ UpdateSqlite(c) \/ SelectForUpdate(c) \/ UpdatePostgres(c)
             \/ AppendJournal(c) \/ Return(c) \/ Die(c)
      PROVE  UNCHANGED db
  BY <1>2 DEF Ask, BeginImmediate, GiveUpBusy, InsertSqlite, InsertPostgres, UpdateSqlite,
              SelectForUpdate, UpdatePostgres, AppendJournal, Return, Die
<1>. QED
  BY <1>1, <1>2 DEF Next, Tick, vars

\* The clock only moves on, and what is written was read from it.
LEMMA PastStep ==
  ASSUME TypeOK, ReadingsPast, DraftInv, [Next]_vars
  PROVE  ReadingsPast'
<1>1. clock \in Nat /\ clock' \in Nat /\ clock <= clock'
  BY TypeStep DEF TypeOK, Next, Tick, Ask, BeginImmediate, GiveUpBusy, InsertSqlite,
     InsertPostgres, UpdateSqlite, SelectForUpdate, UpdatePostgres, AppendJournal, Commit,
     Return, Die, vars, env
<1>2. \A c \in Conns : now'[c] <= clock'
  <2>1. ASSUME NEW c \in Conns, Ask(c) PROVE \A d \in Conns : now'[d] <= clock'
    BY <1>1, <2>1 DEF Ask, TypeOK, ReadingsPast, env
  <2>2. ASSUME NEW c \in Conns, \E k \in Replies : EndWith(c, k)
        PROVE  \A d \in Conns : now'[d] <= clock'
    <3>1. now'[c] = 0 /\ \A d \in Conns \ {c} : now'[d] = now[d]
      BY <2>2, Ended
    <3>2. \A d \in Conns : now[d] \in Nat /\ now[d] <= clock
      BY DEF TypeOK, ReadingsPast
    <3>. QED
      BY <1>1, <3>1, <3>2
  <2>3. ASSUME now' = now PROVE \A d \in Conns : now'[d] <= clock'
    BY <1>1, <2>3 DEF TypeOK, ReadingsPast
  <2>4. ASSUME NEW c \in Conns,
               \/ BeginImmediate(c) \/ GiveUpBusy(c) \/ InsertSqlite(c) \/ InsertPostgres(c)
               \/ UpdateSqlite(c) \/ SelectForUpdate(c) \/ UpdatePostgres(c)
               \/ AppendJournal(c) \/ Commit(c) \/ Return(c) \/ Die(c)
        PROVE  now' = now \/ \E k \in Replies : EndWith(c, k)
    BY <2>4 DEF BeginImmediate, GiveUpBusy, InsertSqlite, InsertPostgres, UpdateSqlite,
                SelectForUpdate, UpdatePostgres, AppendJournal, Commit, Return, Die,
                Goto, caller, Replies
  <2>. QED
    BY <2>1, <2>2, <2>3, <2>4 DEF Next, Tick, vars, caller
<1>3. \A i \in 1..Len(journal') : journal'[i].at <= clock'
  <2>1. CASE UNCHANGED db
    <3>1. ASSUME NEW i \in 1..Len(journal) PROVE journal[i].at \in Nat /\ journal[i].at <= clock
      <4>1. journal[i] \in Entries
        BY DEF TypeOK
      <4>. QED
        BY <4>1 DEF Entries, ReadingsPast
    <3>. QED
      BY <1>1, <2>1, <3>1 DEF db
  <2>2. ASSUME NEW e \in Entries, journal' = Append(journal, e), e.at <= clock, clock' = clock
        PROVE  \A i \in 1..Len(journal') : journal'[i].at <= clock'
    BY <2>2 DEF ReadingsPast, TypeOK
  <2>. QED
    BY <2>1, <2>2, DbStep
<1>. QED
  BY <1>2, <1>3 DEF ReadingsPast

\* A commit appends one entry that leads from the row's state to its new one.
LEMMA HistoryStep ==
  ASSUME TypeOK, DraftInv, JournalTellsHistory, [Next]_vars
  PROVE  JournalTellsHistory'
<1>1. CASE UNCHANGED db
  BY <1>1 DEF JournalTellsHistory, db
<1>2. ASSUME NEW e \in Entries, journal' = Append(journal, e), row'.state = e.to,
             e.from = row.state, Legal(e.from, e.to)
      PROVE  JournalTellsHistory'
  <2>1. journal \in Seq(Entries) /\ row.state \in States \cup {"absent"}
    BY DEF TypeOK, Rows
  <2>2. /\ Len(journal') = Len(journal) + 1
        /\ \A i \in 1..Len(journal) : journal'[i] = journal[i]
        /\ journal'[Len(journal) + 1] = e
    BY <1>2, <2>1
  <2>3. e.to \in States /\ e.to # "absent"
    BY <1>2 DEF Legal, States
  <2>4. CASE row.state = "absent"
    <3>1. journal = << >> /\ e.to = "planned"
      BY <1>2, <2>4 DEF JournalTellsHistory, Legal, States
    <3>. QED
      BY <1>2, <2>2, <2>3, <2>4, <3>1 DEF JournalTellsHistory
  <2>5. CASE row.state # "absent"
    <3>1. journal # << >> /\ Len(journal) \in Nat /\ Len(journal) >= 1 /\ CanTransition(e.from, e.to)
      BY <1>2, <2>1, <2>5 DEF JournalTellsHistory, Legal
    <3>2. journal'[1] = journal[1] /\ journal' # << >>
      BY <2>2, <3>1
    <3>3. ASSUME NEW i \in 2..Len(journal')
          PROVE  journal'[i].from = journal'[i - 1].to
                 /\ CanTransition(journal'[i].from, journal'[i].to)
      <4>1. CASE i = Len(journal) + 1
        BY <1>2, <2>2, <3>1, <4>1 DEF JournalTellsHistory
      <4>2. CASE i # Len(journal) + 1
        <5>1. i \in 2..Len(journal) /\ i \in 1..Len(journal) /\ i - 1 \in 1..Len(journal)
          BY <2>2, <3>1, <4>2
        <5>. QED
          BY <2>2, <5>1 DEF JournalTellsHistory
      <4>. QED
        BY <4>1, <4>2
    <3>. QED
      BY <1>2, <2>2, <2>3, <3>1, <3>2, <3>3 DEF JournalTellsHistory
  <2>. QED
    BY <2>4, <2>5
<1>. QED
  BY <1>1, <1>2, DbStep

\* A commit's journal entry is stamped no earlier than the row it is about.
LEMMA StampsStep ==
  ASSUME TypeOK, DraftInv, ScansOverlookNothing, [Next]_vars
  PROVE  ScansOverlookNothing'
<1>1. CASE UNCHANGED db
  BY <1>1 DEF ScansOverlookNothing, ScanStates, db
<1>2. ASSUME NEW e \in Entries, journal' = Append(journal, e), row'.updated <= e.at,
             \A i \in 1..Len(journal) : journal[i].at <= e.at
      PROVE  ScansOverlookNothing'
  <2>1. /\ Len(journal) \in Nat
        /\ Len(journal') = Len(journal) + 1
        /\ \A i \in 1..Len(journal) : journal'[i] = journal[i]
        /\ journal'[Len(journal) + 1] = e
    BY <1>2 DEF TypeOK
  <2>2. ASSUME NEW i \in 2..Len(journal') PROVE journal'[i - 1].at <= journal'[i].at
    <3>1. CASE i = Len(journal) + 1
      BY <1>2, <2>1, <3>1
    <3>2. CASE i # Len(journal) + 1
      <4>1. i \in 2..Len(journal) /\ i \in 1..Len(journal) /\ i - 1 \in 1..Len(journal)
        BY <2>1, <3>2
      <4>. QED
        BY <2>1, <4>1 DEF ScansOverlookNothing
    <3>. QED
      BY <3>1, <3>2
  <2>. QED
    BY <1>2, <2>1, <2>2 DEF ScansOverlookNothing, ScanStates
<1>. QED
  BY <1>1, <1>2, DbStep

-----------------------------------------------------------------------------
(* The theorems.                                                           *)

\* An empty store satisfies the invariant.
LEMMA SqlInit == Init => SqlInv
<1>1. SUFFICES ASSUME Init PROVE SqlInv
  OBVIOUS
<1>2. TypeOK
  <2>1. CreateOp \in Ops
    BY RequestTyped
  <2>2. << >> \in Seq(Entries)
    OBVIOUS
  <2>. QED
    BY <1>1, <2>1, <2>2, NothingTyped DEF Init, TypeOK, Steps, NoReply, Replies
<1>3. LockInv
  BY <1>1, SqlAssumption DEF Init, LockInv, Locking, SqlAssumption
<1>4. ReadingsPast
  BY <1>1 DEF Init, ReadingsPast
<1>5. DraftInv
  BY <1>1 DEF Init, DraftInv, DraftAt
<1>6. JournalTellsHistory /\ ScansOverlookNothing
  BY <1>1 DEF Init, JournalTellsHistory, ScansOverlookNothing, NoRow
<1>. QED
  BY <1>2, <1>3, <1>4, <1>5, <1>6 DEF SqlInv

\* SqlInv is inductive: locks, drafts and committed data stay in step, whatever
\* the connections do and wherever one dies.
THEOREM SqlInvariant == Spec => []SqlInv
<1>1. SqlInv /\ [Next]_vars => SqlInv'
  BY TypeStep, LockStep, PastStep, DraftStep, HistoryStep, StampsStep DEF SqlInv
<1>. QED
  BY SqlInit, <1>1, PTL DEF Spec

\* The journal of both SQL stores is the record's whole history: one insert,
\* then moves of the table that follow one another up to the record's state.
THEOREM JournalIsHistory == Spec => []JournalTellsHistory
<1>1. SqlInv => JournalTellsHistory
  BY DEF SqlInv
<1>. QED
  BY SqlInvariant, <1>1, PTL

\* Reading the clock before the lock never hides a record from a scan.
THEOREM ScansOverlookNone == Spec => []ScansOverlookNothing
<1>1. SqlInv => ScansOverlookNothing
  BY DEF SqlInv
<1>. QED
  BY SqlInvariant, <1>1, PTL

\* No guarded move takes a record from under a live lease of another worker,
\* although the lease is judged with a reading of the clock that may be old.
THEOREM LeaseHolds == Spec => LiveLeaseHolds
<1>1. SqlInv /\ [Next]_vars =>
        [Len(journal') > Len(journal) /\ journal'[Len(journal')].guarded
           /\ journal'[Len(journal')].by # row.owner => row.lease <= clock]_vars
  <2>1. SUFFICES ASSUME SqlInv, [Next]_vars, Len(journal') > Len(journal)
                 PROVE  journal'[Len(journal')].guarded /\ journal'[Len(journal')].by # row.owner
                          => row.lease <= clock
    OBVIOUS
  <2>2. journal \in Seq(Entries) /\ Len(journal) \in Nat
    BY <2>1 DEF SqlInv, TypeOK
  <2>3. PICK e \in Entries : journal' = Append(journal, e) /\ NotStolen(e.guarded, e.by)
    BY <2>1, <2>2, DbStep DEF SqlInv, db
  <2>4. journal'[Len(journal')] = e
    BY <2>2, <2>3
  <2>. QED
    BY <2>3, <2>4 DEF NotStolen
<1>. QED
  BY SqlInvariant, <1>1, PTL DEF Spec, LiveLeaseHolds

\* Both SQL stores implement the abstract ledger: what is committed changes one
\* whole move at a time, with its journal entry.
THEOREM SqlImplementsLedger == Spec => ImplementsLedger
<1>1. Init => LedgerOf!LedgerInit
  BY DEF Init, LedgerOf!LedgerInit, NoRow
<1>2. SqlInv /\ [Next]_vars => [LedgerOf!Insert \/ LedgerOf!Move]_(LedgerOf!ledger)
  <2>1. SUFFICES ASSUME SqlInv, [Next]_vars
                 PROVE  [LedgerOf!Insert \/ LedgerOf!Move]_(LedgerOf!ledger)
    OBVIOUS
  <2>2. CASE UNCHANGED db
    BY <2>2 DEF db, LedgerOf!ledger
  <2>3. ASSUME NEW e \in Entries, journal' = Append(journal, e), row'.state = e.to,
               e.from = row.state, Legal(e.from, e.to)
        PROVE  LedgerOf!Insert \/ LedgerOf!Move
    <3>1. LedgerOf!Journaled
      BY <2>1, <2>3 DEF LedgerOf!Journaled, SqlInv, TypeOK
    <3>. QED
      BY <2>3, <3>1 DEF LedgerOf!Insert, LedgerOf!Move, Legal, CanTransition, LedgerOf!CanTransition,
         Transitions, LedgerOf!Transitions, States
  <2>. QED
    BY <2>1, <2>2, <2>3, DbStep DEF SqlInv
<1>. QED
  BY SqlInvariant, <1>1, <1>2, PTL DEF Spec, ImplementsLedger, LedgerOf!LedgerSpec
=============================================================================
