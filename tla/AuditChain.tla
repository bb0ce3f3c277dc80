----------------------------- MODULE AuditChain -----------------------------
(***************************************************************************)
(* The audit log and its hash chain (db/migrations/0008, 0024, 0056, 0096  *)
(* and packages/web/src/lib/audit.ts): rows that any transaction of the    *)
(* web application or the worker appends, an insert trigger that chains    *)
(* each row onto the one before, and a trim that removes old rows and      *)
(* chains the rest anew.                                                   *)
(*                                                                         *)
(* Transactions run at READ COMMITTED: a statement, also one inside a      *)
(* trigger or function, sees what is committed when it starts and what its *)
(* own transaction has written.  What a transaction has written is in its  *)
(* record until it commits.  The statements of a trigger run under the     *)
(* chain's advisory lock are one step from the lock on; a draw from the    *)
(* sequence is never undone.                                               *)
(*                                                                         *)
(* A digest is identified with what it is computed from, the sequence of   *)
(* the rows it covers: there are no collisions.  The null of the first     *)
(* row's prev_hash is <<>>.                                                *)
(***************************************************************************)
EXTENDS Naturals, Sequences, FiniteSets

CONSTANTS
    Txns,       \* transactions that may be in progress at once
    NoTxn,
    Year,       \* the one-year floor of a trim, in units of the clock
    MaxSeq,     \* bound: draws from the sequence
    MaxTime     \* bound: the clock

ASSUME AuditAssumption ==
    /\ NoTxn \notin Txns
    /\ Year \in Nat /\ MaxSeq \in Nat /\ MaxTime \in Nat

VARIABLES
    log,        \* the committed rows of audit_log, without their hashes
    link,       \* their hashes, by seq
    counter,    \* audit_log_seq_seq: the last number drawn
    lock,       \* who holds advisory lock 778899
    clock,
    txn         \* the transactions in progress

vars == <<log, link, counter, lock, clock, txn>>

Seqs == 1..MaxSeq

Entry  == [seq : Seqs, created : 0..MaxTime, action : {"event", "trimmed"}, count : Nat]
Link   == [prev : Seq(Entry), hash : Seq(Entry)]
NoLink == [prev |-> <<>>, hash |-> <<>>]

Txn == [pc : {"idle", "open", "insert", "delete", "rebase"},
        start : 0..MaxTime,           \* now()
        action : {"event", "trimmed"},
        drawn : 0..MaxSeq,            \* the seq of the column's default
        own : SUBSET Entry,           \* rows inserted,
        gone : SUBSET Entry,          \* deleted,
        upd : [Seqs -> Link],         \* and the hashes written
        cutoff : 0..MaxTime, count : Nat,
        todo : SUBSET Entry, last : Seq(Entry)]

Idle == [pc |-> "idle", start |-> 0, action |-> "event", drawn |-> 0, own |-> {},
         gone |-> {}, upd |-> [s \in Seqs |-> NoLink], cutoff |-> 0, count |-> 0,
         todo |-> {}, last |-> <<>>]

-----------------------------------------------------------------------------
(* The chain *)

\* audit_entry_hash
EntryHash(prev, e) == Append(prev, e)

\* select entry_hash ... order by seq desc limit 1, and null when there is no row.
TailHash(S, L) ==
    IF S = {} THEN <<>>
    ELSE L[(CHOOSE e \in S : \A f \in S : f.seq <= e.seq).seq].hash

Before(e, S) == {f \in S : f.seq < e.seq}

\* Mutant of Verifies: each row is checked against its own prev_hash only.
VerifiesOwnPrev(S, L) ==
    \A e \in S : L[e.seq].hash = EntryHash(L[e.seq].prev, e)

\* verify_audit_chain finds no bad row.
Verifies(S, L) ==
    \A e \in S : /\ L[e.seq].prev = TailHash(Before(e, S), L)
                 /\ L[e.seq].hash = EntryHash(TailHash(Before(e, S), L), e)

\* The table as a transaction sees it.
View(t) == (log \ txn[t].gone) \cup txn[t].own

Links(t) == [s \in Seqs |-> IF txn[t].upd[s] # NoLink THEN txn[t].upd[s] ELSE link[s]]

-----------------------------------------------------------------------------
Init ==
    /\ log = {} /\ link = [s \in Seqs |-> NoLink]
    /\ counter = 0 /\ lock = NoTxn /\ clock = 0
    /\ txn = [t \in Txns |-> Idle]

Tick ==
    /\ clock < MaxTime
    /\ clock' = clock + 1
    /\ UNCHANGED <<log, link, counter, lock, txn>>

Begin(t) ==
    /\ txn[t].pc = "idle"
    /\ txn' = [txn EXCEPT ![t].pc = "open", ![t].start = clock]
    /\ UNCHANGED <<log, link, counter, lock, clock>>

\* appendAudit: the defaults of the new row are there before the trigger fires.
InsertBegins(t) ==
    /\ txn[t].pc = "open" /\ counter < MaxSeq
    /\ counter' = counter + 1
    /\ txn' = [txn EXCEPT ![t].pc = "insert", ![t].drawn = counter + 1]
    /\ UNCHANGED <<log, link, lock, clock>>

\* Mutant of LockFree: there is no lock.
NoLockNeeded(t) == TRUE

\* The lock is reentrant, and held until the transaction ends.
LockFree(t) == lock \in {NoTxn, t}

\* Mutant of NewSeq: the number of the default is kept (0008).
NewSeqDefault(t) == txn[t].drawn

\* The number the trigger gives the row.
NewSeq(t) == counter + 1

\* audit_chain, the trigger.
Chain(t) ==
    LET q    == txn[t]
        prev == TailHash(View(t), Links(t))
        e    == [seq |-> NewSeq(t), created |-> q.start, action |-> q.action,
                 count |-> q.count]
    IN  /\ q.pc = "insert" /\ LockFree(t) /\ counter < MaxSeq
        /\ lock' = t
        /\ counter' = counter + 1
        /\ txn' = [txn EXCEPT ![t].pc = IF q.action = "event" THEN "open" ELSE "delete",
                              ![t].own = @ \cup {e},
                              ![t].upd[e.seq] = [prev |-> prev, hash |-> EntryHash(prev, e)]]
        /\ UNCHANGED <<log, link, clock>>

Old(t, cutoff) == {e \in View(t) : e.created < cutoff}

\* Mutant of OldCount: the record to come is taken to be among the old rows.
OldCountLessOne(t, cutoff) == Cardinality(Old(t, cutoff)) - 1

\* select count(*) ... where created_at < v_cutoff
OldCount(t, cutoff) == Cardinality(Old(t, cutoff))

\* trim_audit_log, a transaction of its own: check the floor, take the lock, count
\* the old rows, and begin the insertion of the record.
TrimBegins(t, cutoff) ==
    /\ txn[t].pc = "open" /\ txn[t].own = {} /\ lock = NoTxn /\ counter < MaxSeq
    /\ cutoff + Year <= txn[t].start
    /\ lock' = t
    /\ counter' = counter + 1
    /\ txn' = [txn EXCEPT ![t].pc = "insert", ![t].action = "trimmed",
                          ![t].drawn = counter + 1, ![t].cutoff = cutoff,
                          ![t].count = OldCount(t, cutoff)]
    /\ UNCHANGED <<log, link, clock>>

\* Delete the old rows but the record, and walk what is left; nothing to do when
\* none was counted.
TrimDeletes(t) ==
    LET q == txn[t]
    IN  /\ q.pc = "delete"
        /\ txn' = [txn EXCEPT
             ![t].pc = "rebase",
             ![t].gone = IF q.count > 0 THEN Old(t, q.cutoff) \ q.own ELSE {},
             ![t].todo = IF q.count > 0
                         THEN View(t) \ (Old(t, q.cutoff) \ q.own) ELSE {}]
        /\ UNCHANGED <<log, link, counter, lock, clock>>

\* rebaseline_audit_chain, one turn of its loop.
Rebase(t) ==
    LET q == txn[t]
    IN  \E e \in q.todo :
          /\ q.pc = "rebase"
          /\ \A f \in q.todo : e.seq <= f.seq
          /\ txn' = [txn EXCEPT
               ![t].todo = @ \ {e}, ![t].last = EntryHash(q.last, e),
               ![t].upd[e.seq] = [prev |-> q.last, hash |-> EntryHash(q.last, e)]]
          /\ UNCHANGED <<log, link, counter, lock, clock>>

\* The end of a transaction, one way or the other, frees the lock.
Unlock(t) == lock' = IF lock = t THEN NoTxn ELSE lock

Commit(t) ==
    /\ txn[t].pc = "open" \/ (txn[t].pc = "rebase" /\ txn[t].todo = {})
    /\ log' = View(t)
    /\ link' = Links(t)
    /\ Unlock(t)
    /\ txn' = [txn EXCEPT ![t] = Idle]
    /\ UNCHANGED <<counter, clock>>

Rollback(t) ==
    /\ txn[t].pc # "idle"
    /\ Unlock(t)
    /\ txn' = [txn EXCEPT ![t] = Idle]
    /\ UNCHANGED <<log, link, counter, clock>>

Next ==
    \/ Tick
    \/ \E t \in Txns :
         \/ Begin(t) \/ InsertBegins(t) \/ Chain(t)
         \/ \E cutoff \in 0..MaxTime : TrimBegins(t, cutoff)
         \/ TrimDeletes(t) \/ Rebase(t) \/ Commit(t) \/ Rollback(t)

Spec == Init /\ [][Next]_vars

-----------------------------------------------------------------------------
(* Properties *)

TypeOK ==
    /\ log \subseteq Entry
    /\ link \in [Seqs -> Link]
    /\ counter \in 0..MaxSeq /\ lock \in Txns \cup {NoTxn} /\ clock \in 0..MaxTime
    /\ txn \in [Txns -> Txn]

\* verify_audit_chain, run at any moment, finds no bad row in a log that nobody
\* tampered with, whatever appends, rollbacks and trims run at once (0056:1).
ChainVerifies == Verifies(log, link)

\* It does find a committed row that was taken out, unless it was the last
\* (0008:2): nothing behind the last row testifies to it.
GapsAreDetected ==
    \A e, f \in log : e.seq < f.seq => ~Verifies(log \ {e}, link)

\* The log keeps what it promises: rows become visible in the order of their
\* seq, and a row disappears only by a trim that is recorded with the number of
\* rows it removed, none of them younger than a year (0096).
Promise == INSTANCE AuditLog WITH entries <- log
KeepsPromise == Promise!Spec

=============================================================================
