------------------------------ MODULE SqlStore ------------------------------
(***************************************************************************)
(* openonce/store/sqlite.py and openonce/store/postgres.py: create_or_get  *)
(* and transition as several connections run them on ONE idempotency key,  *)
(* statement by statement.  `row` and `journal` are what is committed; the *)
(* transaction that holds the write lock works on `draft`.                 *)
(*                                                                         *)
(* SQLite takes the lock of the whole database before its first statement  *)
(* and waits for it at most the busy timeout; PostgreSQL's first statement *)
(* takes the lock of the row (or of the key being inserted) and waits as   *)
(* long as it must.  Both read the clock for `now` before any of this, and *)
(* again for the journal entry, inside the transaction.                    *)
(***************************************************************************)
EXTENDS Integers, Sequences, EffectStates

CONSTANTS
  Conns,        \* concurrent callers, each a worker with its connection
  NoConn,
  Engines,      \* which of the two stores
  Requests,     \* the transition() calls callers make: [from, to, guarded]
  LeaseSeconds, \* a move to started sets lease_expires_at this far ahead
  BusyTimeout,  \* ticks BEGIN IMMEDIATE waits
  MaxClock,     \* bound: the clock stops here
  MaxCalls      \* bound: calls a connection makes

ASSUME SqlAssumption ==
  /\ NoConn \notin Conns
  /\ Engines \subseteq {"sqlite", "postgres"}
  /\ Requests \subseteq [from : SUBSET States, to : States, guarded : BOOLEAN]
  /\ LeaseSeconds \in Nat /\ BusyTimeout \in Nat
  /\ MaxClock \in Nat /\ MaxCalls \in Nat

VARIABLES
  engine, row, journal, draft, lock,
  pc,       \* what a connection does next
  call,     \* the call it is in: its number, and the request
  now,      \* the call's first reading of the clock
  reply,    \* how its last call ended
  clock

env    == <<engine, clock>>
db     == <<row, journal>>
tx     == <<draft, lock>>
caller == <<call, now, reply>>
vars   == <<env, db, tx, pc, caller>>

\* The columns the two operations decide on; id is the effect_id, which is
\* the one that the creator brought.
NoRow == [state |-> "absent", id |-> NoConn, owner |-> NoConn, lease |-> 0, updated |-> 0]

Steps   == {"idle", "begin", "statement", "work", "update", "journal", "commit", "return"}
Locking == {"work", "update", "journal", "commit"}
Replies == {"created", "existing", "moved", "none", "locked", "lost", "-"}

CreateOp  == [op |-> "create", from |-> {}, to |-> "planned", guarded |-> FALSE]
MoveOp(r) == [op |-> "move", from |-> r.from, to |-> r.to, guarded |-> r.guarded]
Ops == {CreateOp} \cup [op : {"move"}, from : SUBSET States, to : States, guarded : BOOLEAN]

Rows == [state : States \cup {"absent"}, id : Conns \cup {NoConn},
         owner : Conns \cup {NoConn}, lease : Nat, updated : Nat]

Entries == [from : States \cup {"absent"}, to : States, at : Nat,
            by : Conns, n : Nat, guarded : BOOLEAN]

NoDraft == [row |-> NoRow, journal |-> << >>]
NoReply == [kind |-> "-", id |-> NoConn]

-----------------------------------------------------------------------------
\* create_or_get or transition is called: `now` is read before anything else.
\* transition needs an effect_id, so the effect is there already.
Ask(c) ==
  /\ pc[c] = "idle"
  /\ call[c].n < MaxCalls
  /\ \E r \in {CreateOp} \cup {MoveOp(q) : q \in Requests} :
       /\ r.op = "move" => row.state # "absent"
       /\ call' = [call EXCEPT ![c] = [n |-> @.n + 1, r |-> r]]
  /\ now'   = [now EXCEPT ![c] = clock]
  /\ reply' = [reply EXCEPT ![c] = NoReply]
  /\ pc'    = [pc EXCEPT ![c] = IF engine = "sqlite" THEN "begin" ELSE "statement"]
  /\ UNCHANGED <<env, db, tx>>

Goto(c, step) == pc' = [pc EXCEPT ![c] = step] /\ UNCHANGED caller

\* The call is over, and with it its request and its reading of the clock.
EndWith(c, kind) ==
  /\ pc'    = [pc EXCEPT ![c] = "idle"]
  /\ call'  = [call EXCEPT ![c].r = CreateOp]
  /\ now'   = [now EXCEPT ![c] = 0]
  /\ reply' = [reply EXCEPT ![c] = [kind |-> kind, id |-> row.id]]

\* The lock is taken, and the transaction works on what is committed.
Acquire(c) == lock = NoConn /\ lock' = c

\* The transaction is over, and with it its lock and what it had not committed.
Release == lock' = NoConn /\ draft' = NoDraft

\* BEGIN IMMEDIATE
BeginImmediate(c) ==
  /\ pc[c] = "begin"
  /\ Acquire(c)
  /\ draft' = [row |-> row, journal |-> journal]
  /\ Goto(c, "work")
  /\ UNCHANGED <<env, db>>

\* "database is locked": the busy timeout has passed.
GiveUpBusy(c) ==
  /\ pc[c] = "begin"
  /\ lock # NoConn
  /\ clock >= now[c] + BusyTimeout
  /\ EndWith(c, "locked")
  /\ UNCHANGED <<env, db, tx>>

-----------------------------------------------------------------------------
\* The record create_or_get inserts.
NewRow(c) == [NoRow EXCEPT !.state = "planned", !.id = c, !.updated = now[c]]

\* Mutant: a conflicting insert is taken for one's own.
InsertUnchecked(c) ==
  /\ pc[c] = "work" /\ call[c].r.op = "create"
  /\ \/ /\ draft.row.state = "absent"
        /\ draft' = [draft EXCEPT !.row = NewRow(c)]
        /\ Goto(c, "journal")
        /\ UNCHANGED lock
     \/ draft.row.state # "absent" /\ Release /\ EndWith(c, "created")
  /\ UNCHANGED <<env, db>>

\* INSERT ... ON CONFLICT(idempotency_key) DO NOTHING; when the key is taken
\* the transaction ends with nothing but reading the row that has it.
InsertSqlite(c) ==
  /\ pc[c] = "work" /\ call[c].r.op = "create"
  /\ \/ /\ draft.row.state = "absent"
        /\ draft' = [draft EXCEPT !.row = NewRow(c)]
        /\ Goto(c, "journal")
        /\ UNCHANGED lock
     \/ draft.row.state # "absent" /\ Release /\ EndWith(c, "existing")
  /\ UNCHANGED <<env, db>>

\* The same in PostgreSQL: an insert waits for an uncommitted one of the same
\* key, and does nothing when the key is taken.
InsertPostgres(c) ==
  /\ pc[c] = "statement" /\ call[c].r.op = "create"
  /\ \/ /\ row.state = "absent"
        /\ Acquire(c)
        /\ draft' = [row |-> NewRow(c), journal |-> journal]
        /\ Goto(c, "journal")
     \/ row.state # "absent" /\ EndWith(c, "existing") /\ UNCHANGED tx
  /\ UNCHANGED <<env, db>>

\* Mutant: whose lease it is does not matter.
AcceptsAnyOwner(r, c) ==
  /\ r.state \in call[c].r.from
  /\ CanTransition(r.state, call[c].r.to)

\* transition's compare, on the row read under the lock but with the `now`
\* read before it.
Accepts(r, c) ==
  /\ r.state \in call[c].r.from
  /\ CanTransition(r.state, call[c].r.to)
  /\ call[c].r.guarded /\ r.lease > now[c] => r.owner = c

\* Mutant: a lease that is counted backwards.
UpdatedPast(r, c) ==
  [r EXCEPT !.state = call[c].r.to, !.updated = now[c],
            !.owner = c, !.lease = now[c] - LeaseSeconds]

\* UPDATE effects SET state, updated_at and the fields; a start takes a lease
\* counted from when its caller asked for it.
Updated(r, c) ==
  IF call[c].r.to = "started"
  THEN [r EXCEPT !.state = "started", !.updated = now[c],
                 !.owner = c, !.lease = now[c] + LeaseSeconds]
  ELSE [r EXCEPT !.state = call[c].r.to, !.updated = now[c]]

\* SQLite's transition under its lock: SELECT, compare, then UPDATE or ROLLBACK.
UpdateSqlite(c) ==
  /\ pc[c] = "work" /\ call[c].r.op = "move"
  /\ \/ /\ Accepts(draft.row, c)
        /\ draft' = [draft EXCEPT !.row = Updated(@, c)]
        /\ Goto(c, "journal")
        /\ UNCHANGED lock
     \/ ~Accepts(draft.row, c) /\ Release /\ EndWith(c, "none")
  /\ UNCHANGED <<env, db>>

\* Mutant: a plain SELECT, so another transaction may move the row it has read.
SelectUnlocked(c) ==
  /\ pc[c] = "statement" /\ call[c].r.op = "move"
  /\ \/ /\ Accepts(row, c)
        /\ draft' = [row |-> row, journal |-> journal]
        /\ Goto(c, "update")
     \/ ~Accepts(row, c) /\ EndWith(c, "none") /\ UNCHANGED draft
  /\ UNCHANGED <<env, db, lock>>

\* PostgreSQL's: SELECT ... FOR UPDATE waits for the row and reads it ...
SelectForUpdate(c) ==
  /\ pc[c] = "statement" /\ call[c].r.op = "move"
  /\ lock = NoConn
  /\ \/ /\ Accepts(row, c)
        /\ Acquire(c)
        /\ draft' = [row |-> row, journal |-> journal]
        /\ Goto(c, "update")
     \/ ~Accepts(row, c) /\ EndWith(c, "none") /\ UNCHANGED tx
  /\ UNCHANGED <<env, db>>

\* ... and the UPDATE follows.
UpdatePostgres(c) ==
  /\ pc[c] = "update"
  /\ draft' = [draft EXCEPT !.row = Updated(@, c)]
  /\ Goto(c, "journal")
  /\ UNCHANGED <<env, db, lock>>

-----------------------------------------------------------------------------
\* Mutant: the entry is stamped with the reading of before the lock.
EntryStampedEarly(c) == [from |-> row.state, to |-> draft.row.state, at |-> now[c], by |-> c,
                         n |-> call[c].n, guarded |-> call[c].r.guarded]

\* The entry of the move from the committed row to the drafted one.
Entry(c) == [from |-> row.state, to |-> draft.row.state, at |-> clock, by |-> c,
             n |-> call[c].n, guarded |-> call[c].r.guarded]

\* Mutant: the caller is answered before the commit.
AppendAndAnswer(c) ==
  /\ pc[c] = "journal"
  /\ draft' = [draft EXCEPT !.journal = Append(@, Entry(c))]
  /\ Goto(c, "return")
  /\ UNCHANGED <<env, db, lock>>

\* _append_journal, in the same transaction, with a reading of its own.
AppendJournal(c) ==
  /\ pc[c] = "journal"
  /\ draft' = [draft EXCEPT !.journal = Append(@, Entry(c))]
  /\ Goto(c, "commit")
  /\ UNCHANGED <<env, db, lock>>

\* Mutant: autocommit, the row becomes visible before its journal entry.
CommitRowFirst(c) ==
  /\ pc[c] \in {"journal", "commit"}
  /\ row' = draft.row
  /\ \/ pc[c] = "journal" /\ UNCHANGED <<journal, tx, pc, caller>>
     \/ pc[c] = "commit" /\ journal' = draft.journal /\ Release /\ Goto(c, "return")
  /\ UNCHANGED env

\* COMMIT makes row and journal visible together and frees the lock.
Commit(c) ==
  /\ pc[c] = "commit"
  /\ row' = draft.row
  /\ journal' = draft.journal
  /\ Release
  /\ Goto(c, "return")
  /\ UNCHANGED env

\* The caller gets the record it inserted or moved.
Return(c) ==
  /\ pc[c] = "return"
  /\ EndWith(c, IF call[c].r.op = "move" THEN "moved" ELSE "created")
  /\ UNCHANGED <<env, db, tx>>

\* scan_states returns the record: it reads what is committed.
ScanStates(states, before) == row.state \in states /\ row.updated <= before

\* The process dies or the connection breaks: an open transaction is rolled
\* back, and a call that had committed ends without its caller learning it.
Die(c) ==
  /\ pc[c] # "idle"
  /\ IF lock = c THEN Release ELSE UNCHANGED tx
  /\ EndWith(c, "lost")
  /\ UNCHANGED <<env, db>>

Tick ==
  /\ clock < MaxClock
  /\ clock' = clock + 1
  /\ UNCHANGED <<engine, db, tx, pc, caller>>

Init ==
  /\ engine \in Engines
  /\ row = NoRow
  /\ journal = << >>
  /\ draft = NoDraft
  /\ lock = NoConn
  /\ pc = [c \in Conns |-> "idle"]
  /\ call = [c \in Conns |-> [n |-> 0, r |-> CreateOp]]
  /\ now = [c \in Conns |-> 0]
  /\ reply = [c \in Conns |-> NoReply]
  /\ clock = 0

Next ==
  \/ Tick
  \/ \E c \in Conns :
       \/ Ask(c) \/ BeginImmediate(c) \/ GiveUpBusy(c)
       \/ InsertSqlite(c) \/ InsertPostgres(c)
       \/ UpdateSqlite(c) \/ SelectForUpdate(c) \/ UpdatePostgres(c)
       \/ AppendJournal(c) \/ Commit(c) \/ Return(c) \/ Die(c)

Spec == Init /\ [][Next]_vars

-----------------------------------------------------------------------------
\* Every variable has its type.
TypeOK ==
  /\ engine \in Engines
  /\ row \in Rows
  /\ journal \in Seq(Entries)
  /\ draft \in [row : Rows, journal : Seq(Entries)]
  /\ lock \in Conns \cup {NoConn}
  /\ pc \in [Conns -> Steps]
  /\ call \in [Conns -> [n : Nat, r : Ops]]
  /\ now \in [Conns -> Nat]
  /\ reply \in [Conns -> [kind : Replies, id : Conns \cup {NoConn}]]
  /\ clock \in Nat

LedgerOf == INSTANCE Ledger WITH state <- row.state

\* Whatever statements the transactions of several connections consist of and
\* wherever one dies, what is committed changes as the abstract ledger does:
\* one insert, moves of the table, each with its journal entry in the same step
\* ("it can never be half-applied", postgres.py:8-10).
ImplementsLedger == LedgerOf!LedgerSpec

\* The committed journal tells the record's whole history: it starts with the
\* insert, every entry starts where the previous one ended by a move of the
\* table, and the last one ends in the record's state.
JournalTellsHistory ==
  /\ row.state = "absent" <=> journal = << >>
  /\ journal # << >> =>
       /\ journal[1].from = "absent" /\ journal[1].to = "planned"
       /\ journal[Len(journal)].to = row.state
  /\ \A i \in 2..Len(journal) :
       /\ journal[i].from = journal[i - 1].to
       /\ CanTransition(journal[i].from, journal[i].to)

\* What a caller is told is what was committed: a call that returns a created
\* or a moved record has its own journal entry, and one that returns None, a
\* record of someone else's or a lock timeout has none.
AnswersMatchLedger ==
  \A c \in Conns :
    LET mine == \E i \in 1..Len(journal) : journal[i].by = c /\ journal[i].n = call[c].n
    IN pc[c] = "idle" =>
         /\ reply[c].kind \in {"created", "moved"} => mine
         /\ reply[c].kind \in {"existing", "none", "locked"} => ~mine

\* Admission is first-writer-wins: every create_or_get that returns a record
\* returns the same effect_id, and the one that is told it created the record
\* is the one whose id that is.
OneEffectPerKey ==
  \A c \in Conns :
    /\ reply[c].kind \in {"created", "existing"} => reply[c].id = row.id /\ row.id # NoConn
    /\ reply[c].kind = "created" => row.id = c

\* Although `now` is read before the lock, no reading is from the future: the
\* entries are stamped in the order they are committed in, and a scan whose
\* cutoff has reached the record's last move returns the record.  A scan may
\* come early (updated_at lags behind the move by the lock wait); it never
\* overlooks a record that has waited for its grace period.
ScansOverlookNothing ==
  /\ \A i \in 2..Len(journal) : journal[i - 1].at <= journal[i].at
  /\ journal # << >> => ScanStates({row.state}, journal[Len(journal)].at)

\* A guarded move never takes a record from under another worker's lease that
\* is still live when it commits, although the lease is judged with the `now`
\* of before the lock wait.
LiveLeaseHolds ==
  [][Len(journal') > Len(journal) /\ journal'[Len(journal')].guarded
       /\ journal'[Len(journal')].by # row.owner
     => row.lease <= clock]_vars
=============================================================================
