-------------------------- MODULE AuditChainProofs --------------------------
(***************************************************************************)
(* Theorems about AuditChain, for any number of transactions, rows, and    *)
(* trims.  The argument is that of the advisory lock: a transaction that   *)
(* does not hold it has written nothing, and the table as its holder sees  *)
(* it is a chain that verifies, up to the rows a trim has yet to rewrite.  *)
(***************************************************************************)
EXTENDS AuditChain, FiniteSetTheorems, NaturalsInduction, WellFoundedInduction, TLAPS

-----------------------------------------------------------------------------
(* Order *)

\* A set of numbers has a least one.
LEMMA LeastNat ==
    ASSUME NEW T, T \subseteq Nat, T # {}
    PROVE  \E m \in T : \A n \in T : m <= n
<1>. DEFINE R == OpToRel(<, Nat)
<1>1. IsWellFoundedOn(R, Nat)
  BY NatLessThanWellFounded
<1>2. PICK m \in T : \A n \in T : ~(<<n, m>> \in R)
  BY <1>1, WFMin
<1>3. \A n \in T : m <= n
  <2>. SUFFICES ASSUME NEW n \in T, ~(m <= n) PROVE FALSE
    OBVIOUS
  <2>1. n \in Nat /\ m \in Nat /\ n < m
    OBVIOUS
  <2>2. <<n, m>> \in R
    BY <2>1 DEF OpToRel
  <2>. QED  BY <1>2, <2>2
<1>. QED  BY <1>3

\* A set of rows has a first one,
LEMMA FirstRow ==
    ASSUME NEW S, S \subseteq Entry, S # {}
    PROVE  \E e \in S : \A f \in S : e.seq <= f.seq
<1>. DEFINE T == {e.seq : e \in S}
<1>1. T \subseteq Nat /\ T # {}
  BY AuditAssumption DEF Entry, Seqs
<1>2. PICK m \in T : \A n \in T : m <= n
  BY <1>1, LeastNat, Zenon
<1>. QED  BY <1>2

\* and a last one.
LEMMA LastRow ==
    ASSUME NEW S, S \subseteq Entry, S # {}
    PROVE  \E e \in S : \A f \in S : f.seq <= e.seq
<1>. DEFINE T == {MaxSeq - e.seq : e \in S}
<1>0. \A e \in S : e.seq \in 1..MaxSeq
  BY DEF Entry, Seqs
<1>1. T \subseteq Nat /\ T # {}
  BY <1>0, AuditAssumption
<1>2. PICK m \in T : \A n \in T : m <= n
  BY <1>1, LeastNat, Zenon
<1>3. PICK e \in S : m = MaxSeq - e.seq
  BY <1>2
<1>4. \A f \in S : MaxSeq - e.seq <= MaxSeq - f.seq
  BY <1>2, <1>3
<1>. QED  BY <1>0, <1>4, AuditAssumption

-----------------------------------------------------------------------------
(* The chain *)

\* The tail hash of some rows is the hash of a last one.
LEMMA TailHashLast ==
    ASSUME NEW S, S \subseteq Entry, S # {}, NEW L
    PROVE  \E e \in S : /\ \A f \in S : f.seq <= e.seq
                        /\ TailHash(S, L) = L[e.seq].hash
<1>. DEFINE m == CHOOSE e \in S : \A f \in S : f.seq <= e.seq
<1>1. m \in S /\ \A f \in S : f.seq <= m.seq
  BY LastRow, Zenon
<1>2. TailHash(S, L) = L[m.seq].hash
  BY DEF TailHash
<1>. QED  BY <1>1, <1>2

\* It is that of the row behind all others,
LEMMA TailHashOfLast ==
    ASSUME NEW S, S \subseteq Entry, NEW e \in Entry, \A f \in S : f.seq < e.seq, NEW L
    PROVE  TailHash(S \cup {e}, L) = L[e.seq].hash
<1>1. PICK m \in S \cup {e} : /\ \A f \in S \cup {e} : f.seq <= m.seq
                              /\ TailHash(S \cup {e}, L) = L[m.seq].hash
  <2>1. S \cup {e} \subseteq Entry /\ S \cup {e} # {}
    OBVIOUS
  <2>. QED  BY <2>1, TailHashLast, Zenon
<1>2. \A f \in S \cup {e} : f.seq \in Nat
  BY AuditAssumption DEF Entry, Seqs
<1>3. m = e
  BY <1>1, <1>2
<1>. QED  BY <1>1, <1>3

\* and depends on the hashes of the rows in question only.
LEMMA TailHashSame ==
    ASSUME NEW S, S \subseteq Entry, NEW L, NEW M,
           \A e \in S : L[e.seq] = M[e.seq]
    PROVE  TailHash(S, L) = TailHash(S, M)
<1>1. CASE S = {}
  BY <1>1 DEF TailHash
<1>2. CASE S # {}
  <2>. DEFINE m == CHOOSE e \in S : \A f \in S : f.seq <= e.seq
  <2>1. m \in S
    BY <1>2, LastRow, Zenon
  <2>2. TailHash(S, L) = L[m.seq].hash /\ TailHash(S, M) = M[m.seq].hash
    BY <1>2 DEF TailHash
  <2>. QED  BY <2>1, <2>2
<1>. QED  BY <1>1, <1>2

\* So does the verification.
LEMMA VerifiesSame ==
    ASSUME NEW S, S \subseteq Entry, NEW L, NEW M,
           \A e \in S : L[e.seq] = M[e.seq], Verifies(S, L)
    PROVE  Verifies(S, M)
<1>1. ASSUME NEW e \in S
      PROVE  TailHash(Before(e, S), L) = TailHash(Before(e, S), M)
  <2>1. Before(e, S) \subseteq Entry /\ \A f \in Before(e, S) : L[f.seq] = M[f.seq]
    BY DEF Before
  <2>. QED  BY <2>1, TailHashSame, Zenon
<1>2. \A e \in S : /\ L[e.seq].prev = TailHash(Before(e, S), L)
                  /\ L[e.seq].hash = EntryHash(TailHash(Before(e, S), L), e)
  BY DEF Verifies
<1>3. \A e \in S : /\ M[e.seq].prev = TailHash(Before(e, S), M)
                  /\ M[e.seq].hash = EntryHash(TailHash(Before(e, S), M), e)
  BY <1>1, <1>2
<1>. QED  BY <1>3, Zenon DEF Verifies

\* A row chained onto the last one makes a longer chain: an insertion, and a turn
\* of the loop of a trim.
LEMMA VerifiesLonger ==
    ASSUME NEW S, S \subseteq Entry, NEW e \in Entry, \A f \in S : f.seq < e.seq,
           NEW L, Verifies(S, L), NEW M, \A f \in S : L[f.seq] = M[f.seq],
           M[e.seq] = [prev |-> TailHash(S, L), hash |-> EntryHash(TailHash(S, L), e)]
    PROVE  /\ Verifies(S \cup {e}, M)
           /\ TailHash(S \cup {e}, M) = EntryHash(TailHash(S, L), e)
<1>0. \A f \in S \cup {e} : f.seq \in Nat
  BY AuditAssumption DEF Entry, Seqs
<1>1. Verifies(S, M)
  BY VerifiesSame
<1>2. TailHash(S, M) = TailHash(S, L)
  BY TailHashSame, Zenon
<1>3. Before(e, S \cup {e}) = S
  BY <1>0 DEF Before
<1>4. \A f \in S : Before(f, S \cup {e}) = Before(f, S)
  BY <1>0 DEF Before
<1>5. TailHash(S \cup {e}, M) = M[e.seq].hash
  BY TailHashOfLast, Zenon
<1>6. M[e.seq].prev = TailHash(S, L) /\ M[e.seq].hash = EntryHash(TailHash(S, L), e)
  OBVIOUS
<1>7. ASSUME NEW f \in S
      PROVE  /\ M[f.seq].prev = TailHash(Before(f, S \cup {e}), M)
             /\ M[f.seq].hash = EntryHash(TailHash(Before(f, S \cup {e}), M), f)
  BY <1>1, <1>4 DEF Verifies
<1>8. /\ M[e.seq].prev = TailHash(Before(e, S \cup {e}), M)
      /\ M[e.seq].hash = EntryHash(TailHash(Before(e, S \cup {e}), M), e)
  BY <1>2, <1>3, <1>6
<1>9. Verifies(S \cup {e}, M)
  BY <1>7, <1>8 DEF Verifies
<1>. QED  BY <1>5, <1>6, <1>9

\* A row that others follow cannot be taken out of a chain unnoticed: the next
\* one's hash covers it.
LEMMA GapsDetected ==
    ASSUME NEW S, S \subseteq Entry, \A e, f \in S : e.seq = f.seq => e = f,
           NEW L \in [Seqs -> Link], Verifies(S, L),
           NEW e \in S, NEW f \in S, e.seq < f.seq
    PROVE  ~Verifies(S \ {e}, L)
<1>. DEFINE after == {g \in S : e.seq < g.seq}
<1>0. \A g \in S : g \in Entry /\ g.seq \in Seqs /\ g.seq \in Nat
  BY AuditAssumption DEF Entry, Seqs
<1>1. PICK g \in after : \A h \in after : g.seq <= h.seq
  <2>1. after \subseteq Entry /\ after # {}
    OBVIOUS
  <2>. QED  BY <2>1, FirstRow, Zenon
<1>2. Before(g, S) = Before(e, S) \cup {e}
  BY <1>0, <1>1 DEF Before
<1>3. Before(g, S \ {e}) = Before(e, S)
  BY <1>0, <1>1 DEF Before
<1>4. \A h \in Before(e, S) : h \in Entry /\ h.seq < e.seq
  BY <1>0 DEF Before
<1>5. TailHash(Before(e, S) \cup {e}, L) = L[e.seq].hash
  BY <1>0, <1>4, TailHashOfLast, Zenon
<1>. DEFINE prev == TailHash(Before(e, S), L)
<1>6. L[e.seq].prev = prev /\ L[e.seq].hash = Append(prev, e)
  BY DEF Verifies, EntryHash
<1>7. prev \in Seq(Entry)
  BY <1>0, <1>6 DEF Link
<1>8. L[g.seq].prev = Append(prev, e)
  BY <1>1, <1>2, <1>5, <1>6 DEF Verifies
<1>9. Append(prev, e) # prev
  BY <1>0, <1>7
<1>10. ASSUME Verifies(S \ {e}, L) PROVE FALSE
  <2>1. g \in S \ {e}
    BY <1>0, <1>1
  <2>2. L[g.seq].prev = TailHash(Before(g, S \ {e}), L)
    BY <1>10, <2>1 DEF Verifies
  <2>. QED  BY <1>3, <1>8, <1>9, <2>2
<1>. QED  BY <1>10

-----------------------------------------------------------------------------
(* The invariant *)

\* A transaction that has written nothing.
Clean(t) ==
    /\ txn[t].own = {} /\ txn[t].gone = {} /\ txn[t].todo = {}
    /\ txn[t].upd = [s \in Seqs |-> NoLink]
    /\ txn[t].action = "event" /\ txn[t].pc \in {"idle", "open", "insert"}

\* The rows it would remove, committed and older than its cutoff.
Expired(t) == {e \in log : e.created < txn[t].cutoff}

\* What the holder of the lock has inserted is behind everything committed.
OwnBehind(t) ==
    /\ txn[t].gone \subseteq log /\ IsFiniteSet(txn[t].own)
    /\ \A e \in txn[t].own : e.seq <= counter /\ \A f \in log : f.seq < e.seq
    /\ \A e, f \in txn[t].own : e.seq = f.seq => e = f

\* The table as it sees it is a chain, up to the rows its trim has yet to rewrite.
ChainSoFar(t) ==
    /\ Verifies(View(t) \ txn[t].todo, Links(t))
    /\ txn[t].todo \subseteq View(t)
    /\ \A e \in View(t) \ txn[t].todo, f \in txn[t].todo : e.seq < f.seq

\* A transaction of ordinary events removes nothing.
Appending(t) ==
    /\ txn[t].pc \in {"idle", "open", "insert"}
    /\ txn[t].gone = {} /\ txn[t].todo = {}
    /\ \A e \in txn[t].own : e.action = "event"

\* A trim removes the expired rows it counted, after it has inserted its record.
Trimming(t) ==
    LET q == txn[t]
    IN  /\ q.pc \in {"insert", "delete", "rebase"}
        /\ q.cutoff + Year <= q.start
        /\ q.count = Cardinality(Expired(t))
        /\ q.pc = "insert" => q.own = {}
        /\ q.pc # "insert" =>
              \E record \in q.own :
                 /\ q.own = {record} /\ record.action = "trimmed"
                 /\ record.created = q.start /\ record.count = q.count
        /\ q.pc # "rebase" => q.gone = {} /\ q.todo = {}
        /\ q.pc = "rebase" =>
              /\ q.gone = Expired(t)
              /\ q.todo # {} => q.last = TailHash(View(t) \ q.todo, Links(t))

Sound(t) ==
    /\ OwnBehind(t) /\ ChainSoFar(t)
    /\ txn[t].action = "event" => Appending(t)
    /\ txn[t].action = "trimmed" => Trimming(t)
    /\ txn[t].pc # "rebase" => txn[t].last = <<>>

LogSound ==
    /\ IsFiniteSet(log)
    /\ \A e \in log : e.seq <= counter
    /\ \A e, f \in log : e.seq = f.seq => e = f
    /\ Verifies(log, link)

ChainInv ==
    /\ TypeOK /\ LogSound
    /\ \A t \in Txns : Sound(t)
    /\ \A t \in Txns : lock # t => Clean(t)

-----------------------------------------------------------------------------
(* The table as a transaction sees it *)

\* A tail hash is a hash.
LEMMA TailHashType ==
    ASSUME NEW S, S \subseteq Entry, NEW L \in [Seqs -> Link]
    PROVE  TailHash(S, L) \in Seq(Entry)
<1>1. CASE S = {}
  BY <1>1 DEF TailHash
<1>2. CASE S # {}
  <2>1. PICK e \in S : TailHash(S, L) = L[e.seq].hash
    BY <1>2, TailHashLast, Zenon
  <2>2. e.seq \in Seqs
    BY DEF Entry
  <2>. QED  BY <2>1, <2>2 DEF Link
<1>. QED  BY <1>1, <1>2

\* What a transaction sees are rows and hashes.
LEMMA ViewType ==
    ASSUME TypeOK, NEW t \in Txns
    PROVE  View(t) \subseteq Entry /\ Links(t) \in [Seqs -> Link]
<1>1. txn[t] \in Txn
  BY DEF TypeOK
<1>. QED  BY <1>1 DEF TypeOK, Txn, View, Links

\* One that has written nothing sees what is committed.
LEMMA CleanView ==
    ASSUME TypeOK, NEW t \in Txns, Clean(t)
    PROVE  View(t) = log /\ Links(t) = link
<1>1. View(t) = log
  BY DEF Clean, View
<1>2. \A s \in Seqs : Links(t)[s] = link[s]
  BY DEF Clean, Links
<1>3. Links(t) = [s \in Seqs |-> Links(t)[s]] /\ link = [s \in Seqs |-> link[s]]
  BY DEF Links, TypeOK
<1>. QED  BY <1>1, <1>2, <1>3

\* The same after a step.
LEMMA CleanViewNext ==
    ASSUME TypeOK', NEW t \in Txns, Clean(t)'
    PROVE  View(t)' = log' /\ Links(t)' = link'
<1>1. View(t)' = log'
  BY DEF Clean, View
<1>2. \A s \in Seqs : Links(t)'[s] = link'[s]
  BY DEF Clean, Links
<1>3. Links(t)' = [s \in Seqs |-> Links(t)'[s]] /\ link' = [s \in Seqs |-> link'[s]]
  BY DEF Links, TypeOK
<1>. QED  BY <1>1, <1>2, <1>3

\* It is sound when the log is.
LEMMA CleanSoundNext ==
    ASSUME TypeOK', LogSound', NEW t \in Txns, Clean(t)', txn'[t].last = <<>>
    PROVE  Sound(t)'
<1>1. View(t)' = log' /\ Links(t)' = link'
  BY CleanViewNext
<1>2. OwnBehind(t)'
  BY FS_EmptySet DEF OwnBehind, Clean
<1>3. ChainSoFar(t)'
  <2>1. (View(t) \ txn[t].todo)' = log'
    BY <1>1 DEF Clean
  <2>2. Verifies(log', link')
    BY DEF LogSound
  <2>3. Verifies(View(t) \ txn[t].todo, Links(t))'
    BY <1>1, <2>1, <2>2 DEF Verifies
  <2>. QED  BY <2>3 DEF ChainSoFar, Clean
<1>4. Appending(t)'
  BY DEF Appending, Clean
<1>. QED  BY <1>2, <1>3, <1>4 DEF Sound, Clean

\* What a transaction sees depends on the committed rows and on its own writes.
LEMMA TableSame ==
    ASSUME NEW t \in Txns, UNCHANGED <<log, link>>,
           txn'[t].own = txn[t].own, txn'[t].gone = txn[t].gone,
           txn'[t].upd = txn[t].upd
    PROVE  View(t)' = View(t) /\ Links(t)' = Links(t)
<1>. QED  BY DEF View, Links

\* It stays sound when it and the committed rows stay as they are.
LEMMA OthersSound ==
    ASSUME ChainInv, NEW t \in Txns, UNCHANGED <<log, link>>, txn'[t] = txn[t],
           counter' \in Nat, counter <= counter'
    PROVE  Sound(t)'
<1>0. Sound(t) /\ counter \in Nat /\ txn[t] \in Txn
  BY AuditAssumption DEF ChainInv, TypeOK
<1>1. View(t)' = View(t) /\ Links(t)' = Links(t)
  BY TableSame, Zenon
<1>2. OwnBehind(t)'
  <2>1. \A e \in txn[t].own : e.seq \in Nat
    BY <1>0, AuditAssumption DEF Txn, Entry, Seqs
  <2>. QED  BY <1>0, <2>1 DEF Sound, OwnBehind
<1>3. ChainSoFar(t)'
  BY <1>0, <1>1 DEF Sound, ChainSoFar, Verifies
<1>4. Expired(t)' = Expired(t)
  BY DEF Expired
<1>5. txn[t].action = "event" => Appending(t)'
  BY <1>0 DEF Sound, Appending
<1>6. txn[t].action = "trimmed" => Trimming(t)'
  BY <1>0, <1>1, <1>4 DEF Sound, Trimming
<1>. QED  BY <1>0, <1>2, <1>3, <1>5, <1>6 DEF Sound

\* A step of one transaction that commits nothing keeps the others sound.
LEMMA OneMoves ==
    ASSUME ChainInv, TypeOK', NEW t \in Txns, UNCHANGED <<log, link>>,
           \A x \in Txns \ {t} : txn'[x] = txn[x],
           counter <= counter', lock' = lock \/ lock \in {NoTxn, t},
           Sound(t)', lock' # t => Clean(t)'
    PROVE  ChainInv'
<1>0. counter \in Nat /\ counter' \in Nat
  BY AuditAssumption DEF ChainInv, TypeOK
<1>1. LogSound'
  <2>1. \A e \in log : e.seq \in Nat
    BY AuditAssumption DEF ChainInv, TypeOK, Entry, Seqs
  <2>. QED  BY <1>0, <2>1 DEF ChainInv, LogSound, Verifies
<1>2. ASSUME NEW x \in Txns PROVE Sound(x)'
  <2>1. CASE x = t
    BY <2>1
  <2>2. CASE x # t
    BY <1>0, <2>2, OthersSound
  <2>. QED  BY <2>1, <2>2
<1>3. ASSUME NEW x \in Txns, lock' # x PROVE Clean(x)'
  <2>1. CASE x = t
    BY <1>3, <2>1
  <2>2. CASE x # t
    <3>1. lock # x
      BY <1>3, <2>2, AuditAssumption
    <3>. QED  BY <2>2, <3>1 DEF ChainInv, Clean
  <2>. QED  BY <2>1, <2>2
<1>. QED  BY <1>1, <1>2, <1>3 DEF ChainInv

\* A step that changes neither the rows nor the writes of a transaction of ordinary
\* events keeps it sound.
LEMMA StaysSound ==
    ASSUME ChainInv, TypeOK', NEW t \in Txns, UNCHANGED <<log, link>>,
           counter <= counter', txn[t].action = "event",
           txn'[t].action = "event", txn'[t].pc \in {"idle", "open", "insert"},
           txn'[t].own = txn[t].own, txn'[t].gone = txn[t].gone,
           txn'[t].upd = txn[t].upd, txn'[t].todo = txn[t].todo,
           txn'[t].last = txn[t].last
    PROVE  Sound(t)'
<1>0. Sound(t) /\ Appending(t) /\ txn[t] \in Txn /\ counter \in Nat /\ counter' \in Nat
  BY AuditAssumption DEF ChainInv, TypeOK, Sound
<1>1. View(t)' = View(t) /\ Links(t)' = Links(t)
  BY TableSame, Zenon
<1>2. OwnBehind(t)'
  <2>1. \A e \in txn[t].own : e.seq \in Nat
    BY <1>0, AuditAssumption DEF Txn, Entry, Seqs
  <2>. QED  BY <1>0, <2>1 DEF Sound, OwnBehind
<1>3. ChainSoFar(t)'
  BY <1>0, <1>1 DEF Sound, ChainSoFar, Verifies
<1>4. Appending(t)'
  BY <1>0 DEF Appending
<1>5. txn'[t].last = <<>>
  BY <1>0 DEF Sound, Appending
<1>. QED  BY <1>2, <1>3, <1>4, <1>5 DEF Sound

-----------------------------------------------------------------------------
(* The steps *)

\* A new transaction is in order,
LEMMA IdleIsTxn == Idle \in Txn /\ \A s \in Seqs : Idle.upd[s] = NoLink
<1>1. NoLink \in Link
  BY DEF NoLink, Link
<1>2. [s \in Seqs |-> NoLink] \in [Seqs -> Link]
  BY <1>1
<1>. QED  BY <1>2, AuditAssumption DEF Idle, Txn

\* as is the table that it begins with.
LEMMA ChainInvInit == Init => ChainInv
<1>. SUFFICES ASSUME Init PROVE ChainInv
  OBVIOUS
<1>1. TypeOK
  <2>1. link \in [Seqs -> Link]
    BY DEF Init, NoLink, Link
  <2>. QED  BY <2>1, IdleIsTxn, AuditAssumption DEF Init, TypeOK
<1>2. LogSound
  BY FS_EmptySet DEF Init, LogSound, Verifies
<1>3. ASSUME NEW t \in Txns
      PROVE  Clean(t) /\ Sound(t)
  <2>1. txn[t] = Idle
    BY DEF Init
  <2>2. Clean(t)
    BY <2>1 DEF Clean, Idle
  <2>3. View(t) = {}
    BY <2>1 DEF View, Idle, Init
  <2>4. ChainSoFar(t)
    BY <2>1, <2>3 DEF ChainSoFar, Verifies, Idle
  <2>5. OwnBehind(t)
    BY <2>1, FS_EmptySet DEF OwnBehind, Idle
  <2>6. Appending(t)
    BY <2>1 DEF Appending, Idle
  <2>. QED  BY <2>1, <2>2, <2>4, <2>5, <2>6 DEF Sound, Idle
<1>. QED  BY <1>1, <1>2, <1>3 DEF ChainInv

\* The clock changes nothing.
LEMMA TickStep == ASSUME ChainInv, Tick PROVE ChainInv'
<1>1. TypeOK'
  BY AuditAssumption DEF ChainInv, TypeOK, Tick
<1>2. LogSound'
  BY DEF ChainInv, LogSound, Verifies, Tick
<1>3. ASSUME NEW x \in Txns PROVE Sound(x)'
  <2>1. counter \in Nat
    BY AuditAssumption DEF ChainInv, TypeOK
  <2>. QED  BY <2>1, OthersSound DEF Tick
<1>4. ASSUME NEW x \in Txns, lock' # x PROVE Clean(x)'
  BY <1>4 DEF ChainInv, Clean, Tick
<1>. QED  BY <1>1, <1>2, <1>3, <1>4 DEF ChainInv

\* A transaction begins.
LEMMA BeginStep == ASSUME ChainInv, NEW t \in Txns, Begin(t) PROVE ChainInv'
<1>0. txn[t] \in Txn /\ clock \in 0..MaxTime /\ Sound(t) /\ counter \in Nat
  BY AuditAssumption DEF ChainInv, TypeOK
<1>1. TypeOK'
  BY <1>0 DEF ChainInv, TypeOK, Begin, Txn
<1>2. txn[t].action = "event"
  BY <1>0 DEF Begin, Sound, Trimming, Txn
<1>3. Sound(t)'
  <2>1. /\ txn'[t].own = txn[t].own /\ txn'[t].gone = txn[t].gone
        /\ txn'[t].upd = txn[t].upd /\ txn'[t].todo = txn[t].todo
        /\ txn'[t].last = txn[t].last /\ txn'[t].action = txn[t].action
        /\ txn'[t].pc = "open"
    BY <1>0 DEF Begin, ChainInv, TypeOK, Txn
  <2>2. UNCHANGED <<log, link>> /\ counter <= counter'
    BY <1>0 DEF Begin
  <2>. QED  BY <1>1, <1>2, <2>1, <2>2, StaysSound
<1>4. lock' # t => Clean(t)'
  BY <1>0 DEF ChainInv, TypeOK, Clean, Begin, Txn
<1>. QED  BY <1>0, <1>1, <1>3, <1>4, OneMoves DEF Begin, ChainInv, TypeOK

\* It begins to insert an event.
LEMMA InsertStep == ASSUME ChainInv, NEW t \in Txns, InsertBegins(t) PROVE ChainInv'
<1>0. txn[t] \in Txn /\ Sound(t) /\ counter \in 0..MaxSeq /\ MaxSeq \in Nat
  BY AuditAssumption DEF ChainInv, TypeOK
<1>1. TypeOK'
  <2>1. counter + 1 \in 0..MaxSeq
    BY <1>0 DEF InsertBegins
  <2>2. [txn[t] EXCEPT !.pc = "insert", !.drawn = counter + 1] \in Txn
    BY <1>0, <2>1 DEF Txn
  <2>3. txn' = [txn EXCEPT ![t] = [txn[t] EXCEPT !.pc = "insert", !.drawn = counter + 1]]
    BY DEF InsertBegins, ChainInv, TypeOK
  <2>4. txn' \in [Txns -> Txn]
    BY <2>2, <2>3 DEF ChainInv, TypeOK
  <2>. QED  BY <2>1, <2>4 DEF ChainInv, TypeOK, InsertBegins
<1>2. txn[t].action = "event"
  BY <1>0 DEF InsertBegins, Sound, Trimming, Txn
<1>3. Sound(t)'
  <2>1. /\ txn'[t].own = txn[t].own /\ txn'[t].gone = txn[t].gone
        /\ txn'[t].upd = txn[t].upd /\ txn'[t].todo = txn[t].todo
        /\ txn'[t].last = txn[t].last /\ txn'[t].action = txn[t].action
        /\ txn'[t].pc = "insert"
    BY <1>0 DEF InsertBegins, ChainInv, TypeOK, Txn
  <2>2. UNCHANGED <<log, link>> /\ counter <= counter'
    BY <1>0 DEF InsertBegins
  <2>. QED  BY <1>1, <1>2, <2>1, <2>2, StaysSound
<1>4. lock' # t => Clean(t)'
  BY <1>0 DEF ChainInv, TypeOK, Clean, InsertBegins, Txn
<1>. QED  BY <1>0, <1>1, <1>3, <1>4, OneMoves DEF InsertBegins, ChainInv, TypeOK

\* What a transaction sees are rows with numbers of their own, up to the counter,
\* and finitely many.
LEMMA ViewSound ==
    ASSUME ChainInv, NEW t \in Txns
    PROVE  /\ IsFiniteSet(View(t))
           /\ \A e \in View(t) : e \in Entry /\ e.seq \in Seqs /\ e.seq \in Nat
                                 /\ e.seq <= counter
           /\ \A e, f \in View(t) : e.seq = f.seq => e = f
<1>0. Sound(t) /\ txn[t] \in Txn
  BY DEF ChainInv, TypeOK
<1>1. View(t) \subseteq Entry
  BY ViewType DEF ChainInv
<1>2. IsFiniteSet(View(t))
  <2>1. IsFiniteSet(log \ txn[t].gone)
    BY FS_Difference DEF ChainInv, LogSound
  <2>2. IsFiniteSet(txn[t].own)
    BY <1>0 DEF Sound, OwnBehind
  <2>. QED  BY <2>1, <2>2, FS_Union DEF View
<1>3. \A e \in View(t) : e \in Entry /\ e.seq \in Seqs /\ e.seq \in Nat
  BY <1>1, AuditAssumption DEF Entry, Seqs
<1>4. \A e \in View(t) : e.seq <= counter
  BY <1>0 DEF View, Sound, OwnBehind, ChainInv, LogSound
<1>5. \A e, f \in View(t) : e.seq = f.seq => e = f
  BY <1>0, <1>3 DEF View, Sound, OwnBehind, ChainInv, LogSound
<1>. QED  BY <1>2, <1>3, <1>4, <1>5

\* The trigger chains the row onto the last one that it sees, under the lock.
LEMMA ChainStep == ASSUME ChainInv, NEW t \in Txns, Chain(t) PROVE ChainInv'
<1>. DEFINE q == txn[t]
<1>. DEFINE prev == TailHash(View(t), Links(t))
<1>. DEFINE e == [seq |-> counter + 1, created |-> q.start, action |-> q.action,
                  count |-> q.count]
<1>. DEFINE l == [prev |-> prev, hash |-> EntryHash(prev, e)]
<1>0. q \in Txn /\ Sound(t) /\ counter \in 0..MaxSeq /\ counter < MaxSeq /\ MaxSeq \in Nat
      /\ txn \in [Txns -> Txn] /\ q.pc = "insert"
  BY AuditAssumption DEF ChainInv, TypeOK, Chain
<1>1. e \in Entry /\ e.seq \in Seqs /\ e.seq = counter + 1 /\ e.action = q.action
      /\ e.created = q.start /\ e.count = q.count
  BY <1>0 DEF Entry, Txn, Seqs
<1>2. l \in Link /\ l # NoLink
  <2>1. prev \in Seq(Entry)
    BY ViewType, TailHashType DEF ChainInv
  <2>2. Append(prev, e) \in Seq(Entry) /\ Append(prev, e) # <<>>
    BY <1>1, <2>1
  <2>. QED  BY <2>1, <2>2 DEF Link, NoLink, EntryHash
<1>. HIDE DEF e, l, prev
<1>3. txn' = [txn EXCEPT ![t].pc = IF q.action = "event" THEN "open" ELSE "delete",
                         ![t].own = @ \cup {e}, ![t].upd[e.seq] = l]
  BY <1>1 DEF Chain, NewSeq, e, l, prev
<1>4. /\ txn'[t].own = q.own \cup {e} /\ txn'[t].gone = q.gone /\ txn'[t].todo = q.todo
      /\ txn'[t].upd = [q.upd EXCEPT ![e.seq] = l]
      /\ txn'[t].last = q.last /\ txn'[t].action = q.action /\ txn'[t].count = q.count
      /\ txn'[t].cutoff = q.cutoff /\ txn'[t].start = q.start
      /\ txn'[t].pc = IF q.action = "event" THEN "open" ELSE "delete"
      /\ \A x \in Txns \ {t} : txn'[x] = txn[x]
  BY <1>0, <1>3 DEF Txn
<1>5. UNCHANGED <<log, link, clock>> /\ counter' = counter + 1 /\ lock' = t
      /\ lock \in {NoTxn, t}
  BY DEF Chain, LockFree, NewSeq
<1>6. TypeOK'
  <2>1. txn'[t] \in Txn
    BY <1>0, <1>1, <1>2, <1>3 DEF Txn
  <2>2. txn' \in [Txns -> Txn]
    BY <1>0, <1>3, <1>4, <2>1
  <2>. QED  BY <1>0, <1>5, <2>2 DEF ChainInv, TypeOK
<1>7. q.gone = {} /\ q.todo = {} /\ q.last = <<>>
  BY <1>0 DEF Sound, Appending, Trimming, Txn
<1>8. \A f \in View(t) : f.seq < e.seq /\ f.seq \in Seqs
  BY <1>0, <1>1, ViewSound
<1>9. View(t)' = View(t) \cup {e}
  BY <1>4, <1>5 DEF View
<1>10. Links(t)' = [Links(t) EXCEPT ![e.seq] = l]
  BY <1>0, <1>1, <1>2, <1>4, <1>5 DEF Links, Txn
<1>11. Verifies(View(t)', Links(t)')
  <2>1. Verifies(View(t), Links(t))
    BY <1>0, <1>7 DEF Sound, ChainSoFar
  <2>2. \A f \in View(t) : Links(t)[f.seq] = (Links(t)')[f.seq]
    <3>1. \A f \in View(t) : f.seq # e.seq /\ f.seq \in Seqs
      BY <1>0, <1>1, <1>8 DEF Seqs
    <3>. QED  BY <1>10, <3>1 DEF Links
  <2>3. (Links(t)')[e.seq] = l
    BY <1>1, <1>10 DEF Links
  <2>4. View(t) \subseteq Entry
    BY ViewType DEF ChainInv
  <2>. QED  BY <1>1, <1>8, <1>9, <2>1, <2>2, <2>3, <2>4, VerifiesLonger DEF l, prev
<1>12. ChainSoFar(t)'
  <2>1. (View(t) \ txn[t].todo)' = View(t)'
    BY <1>4, <1>7
  <2>. QED  BY <1>4, <1>7, <1>11, <2>1 DEF ChainSoFar, Verifies
<1>13. OwnBehind(t)'
  <2>1. IsFiniteSet(q.own \cup {e})
    BY <1>0, FS_AddElement DEF Sound, OwnBehind
  <2>2. \A f \in q.own : f \in View(t)
    BY DEF View
  <2>3. \A f \in log : f \in View(t)
    BY <1>7 DEF View
  <2>4. \A f \in q.own \cup {e} : f.seq <= counter'
    BY <1>0, <1>1, <1>5, <1>8, <2>2 DEF Seqs
  <2>5. \A f \in q.own \cup {e}, g \in log : g.seq < f.seq
    BY <1>0, <1>8, <2>3 DEF Sound, OwnBehind
  <2>6. \A f, g \in q.own \cup {e} : f.seq = g.seq => f = g
    BY <1>0, <1>1, <1>8, <2>2 DEF Sound, OwnBehind, Seqs
  <2>. QED  BY <1>4, <1>5, <1>7, <2>1, <2>4, <2>5, <2>6 DEF OwnBehind
<1>14. q.action = "event" => Appending(t)'
  BY <1>0, <1>1, <1>4, <1>7 DEF Appending, Sound
<1>15. q.action = "trimmed" => Trimming(t)'
  <2>. SUFFICES ASSUME q.action = "trimmed" PROVE Trimming(t)'
    OBVIOUS
  <2>1. Trimming(t)
    BY <1>0 DEF Sound
  <2>2. txn'[t].own = {e} /\ txn'[t].pc = "delete"
    BY <1>0, <1>4, <2>1 DEF Trimming
  <2>3. Expired(t)' = Expired(t)
    BY <1>4, <1>5 DEF Expired
  <2>. QED  BY <1>1, <1>4, <1>7, <2>1, <2>2, <2>3 DEF Trimming
<1>16. Sound(t)'
  BY <1>0, <1>4, <1>7, <1>12, <1>13, <1>14, <1>15 DEF Sound
<1>. QED  BY <1>0, <1>4, <1>5, <1>6, <1>16, OneMoves

\* A trim takes the lock, and counts what it will remove.
LEMMA TrimBeginsStep ==
    ASSUME ChainInv, NEW t \in Txns, NEW cutoff \in 0..MaxTime, TrimBegins(t, cutoff)
    PROVE  ChainInv'
<1>. DEFINE q == txn[t]
<1>. DEFINE n == OldCount(t, cutoff)
<1>0. q \in Txn /\ Sound(t) /\ Clean(t) /\ counter \in 0..MaxSeq /\ counter < MaxSeq
      /\ MaxSeq \in Nat /\ txn \in [Txns -> Txn] /\ q.pc = "open" /\ lock = NoTxn
      /\ q.action = "event" /\ q.last = <<>>
  BY AuditAssumption DEF ChainInv, TypeOK, TrimBegins, Clean, Sound
<1>1. View(t) = log /\ Links(t) = link
  BY <1>0, CleanView DEF ChainInv
<1>2. n \in Nat /\ n = Cardinality({e \in log : e.created < cutoff})
  <2>1. IsFiniteSet({e \in log : e.created < cutoff})
    BY FS_Subset DEF ChainInv, LogSound
  <2>. QED  BY <1>1, <2>1, FS_CardinalityType DEF OldCount, Old
<1>. HIDE DEF n
<1>3. txn' = [txn EXCEPT ![t].pc = "insert", ![t].action = "trimmed",
                         ![t].drawn = counter + 1, ![t].cutoff = cutoff, ![t].count = n]
  BY DEF TrimBegins, n
<1>4. /\ txn'[t].own = {} /\ txn'[t].gone = {} /\ txn'[t].todo = {}
      /\ txn'[t].upd = q.upd /\ txn'[t].last = <<>> /\ txn'[t].action = "trimmed"
      /\ txn'[t].count = n /\ txn'[t].cutoff = cutoff /\ txn'[t].start = q.start
      /\ txn'[t].pc = "insert"
      /\ \A x \in Txns \ {t} : txn'[x] = txn[x]
  BY <1>0, <1>3 DEF Txn, Clean
<1>5. UNCHANGED <<log, link, clock>> /\ counter' = counter + 1 /\ lock' = t
      /\ cutoff + Year <= q.start
  BY DEF TrimBegins
<1>6. TypeOK'
  <2>. DEFINE d == counter + 1
  <2>0. d \in 0..MaxSeq
    BY <1>0
  <2>. HIDE DEF d
  <2>1. txn'[t] \in Txn
    <3>1. txn'[t] = [q EXCEPT !.pc = "insert", !.action = "trimmed", !.drawn = d,
                              !.cutoff = cutoff, !.count = n]
      BY <1>0, <1>3 DEF d
    <3>. QED  BY <1>0, <1>2, <2>0, <3>1 DEF Txn
  <2>2. txn' \in [Txns -> Txn]
    BY <1>0, <1>3, <1>4, <2>1
  <2>. QED  BY <1>0, <1>5, <2>2 DEF ChainInv, TypeOK
<1>7. View(t)' = View(t) /\ Links(t)' = Links(t)
  BY <1>0, <1>4, <1>5, TableSame DEF Clean
<1>8. ChainSoFar(t)'
  BY <1>0, <1>4, <1>7 DEF Sound, ChainSoFar, Verifies, Clean
<1>9. OwnBehind(t)'
  BY <1>4, FS_EmptySet DEF OwnBehind
<1>10. Trimming(t)'
  <2>1. Expired(t)' = {e \in log : e.created < cutoff}
    BY <1>4, <1>5 DEF Expired
  <2>. QED  BY <1>2, <1>4, <1>5, <2>1 DEF Trimming
<1>11. Sound(t)'
  BY <1>4, <1>8, <1>9, <1>10 DEF Sound
<1>. QED  BY <1>0, <1>4, <1>5, <1>6, <1>11, OneMoves

\* The lock is held by who deletes and rewrites.
LEMMA TrimHasLock ==
    ASSUME ChainInv, NEW t \in Txns, txn[t].pc \in {"delete", "rebase"}
    PROVE  lock = t /\ txn[t].action = "trimmed" /\ Trimming(t)
<1>1. txn[t] \in Txn /\ Sound(t)
  BY DEF ChainInv, TypeOK
<1>2. lock = t
  BY DEF ChainInv, Clean
<1>. QED  BY <1>1, <1>2 DEF Txn, Sound, Appending

\* The trim deletes the expired rows, and never its own record.
LEMMA TrimDeletesStep ==
    ASSUME ChainInv, NEW t \in Txns, TrimDeletes(t)
    PROVE  ChainInv'
<1>. DEFINE q == txn[t]
<1>. DEFINE old == IF q.count > 0 THEN Old(t, q.cutoff) \ q.own ELSE {}
<1>. DEFINE todo == IF q.count > 0 THEN View(t) \ (Old(t, q.cutoff) \ q.own) ELSE {}
<1>0. q \in Txn /\ Sound(t) /\ Trimming(t) /\ q.action = "trimmed" /\ lock = t
      /\ counter \in 0..MaxSeq /\ MaxSeq \in Nat /\ txn \in [Txns -> Txn]
      /\ q.pc = "delete" /\ q.gone = {} /\ q.todo = {} /\ q.last = <<>>
  BY TrimHasLock, AuditAssumption DEF ChainInv, TypeOK, TrimDeletes, Sound, Trimming
<1>1. View(t) = log \cup q.own /\ View(t) \subseteq Entry
  BY <1>0, ViewType DEF View, ChainInv
<1>2. \A e \in log, f \in q.own : e # f
  <2>1. \A e \in log : e.seq \in Nat
    BY AuditAssumption DEF ChainInv, TypeOK, Entry, Seqs
  <2>. QED  BY <1>0, <2>1 DEF Sound, OwnBehind
<1>3. Old(t, q.cutoff) \ q.own = Expired(t)
  BY <1>1, <1>2 DEF Old, Expired
<1>4. old = Expired(t)
  <2>1. CASE q.count > 0
    BY <1>3, <2>1
  <2>2. CASE ~(q.count > 0)
    <3>1. Cardinality(Expired(t)) = 0 /\ IsFiniteSet(Expired(t))
      BY <1>0, <2>2, FS_Subset DEF Trimming, Txn, Expired, ChainInv, LogSound
    <3>2. Expired(t) = {}
      BY <3>1, FS_EmptySet
    <3>. QED  BY <2>2, <3>2
  <2>. QED  BY <2>1, <2>2
<1>5. (todo = {} /\ old = {}) \/ todo = View(t) \ old
  OBVIOUS
<1>6. old \in SUBSET Entry /\ todo \in SUBSET Entry
  BY <1>1, <1>5 DEF Old
<1>. HIDE DEF old, todo
<1>7. txn' = [txn EXCEPT ![t].pc = "rebase", ![t].gone = old, ![t].todo = todo]
  BY DEF TrimDeletes, old, todo
<1>8. /\ txn'[t].own = q.own /\ txn'[t].gone = Expired(t) /\ txn'[t].todo = todo
      /\ txn'[t].upd = q.upd /\ txn'[t].last = <<>> /\ txn'[t].action = "trimmed"
      /\ txn'[t].count = q.count /\ txn'[t].cutoff = q.cutoff
      /\ txn'[t].start = q.start /\ txn'[t].pc = "rebase"
      /\ \A x \in Txns \ {t} : txn'[x] = txn[x]
  BY <1>0, <1>4, <1>7 DEF Txn
<1>9. UNCHANGED <<log, link, clock, counter, lock>>
  BY DEF TrimDeletes
<1>10. TypeOK'
  <2>1. txn'[t] \in Txn
    BY <1>0, <1>6, <1>7 DEF Txn
  <2>2. txn' \in [Txns -> Txn]
    BY <1>0, <1>7, <1>8, <2>1
  <2>. QED  BY <1>0, <1>9, <2>2 DEF ChainInv, TypeOK
<1>11. View(t)' = View(t) \ old
  BY <1>1, <1>2, <1>4, <1>8, <1>9 DEF View, Expired
<1>12. Links(t)' = Links(t)
  BY <1>8, <1>9 DEF Links
<1>13. ChainSoFar(t)' /\ (txn'[t].todo # {} => <<>> = TailHash(View(t) \ txn[t].todo, Links(t))')
  <2>1. CASE todo = {} /\ old = {}
    <3>1. (View(t) \ txn[t].todo)' = View(t) \ q.todo
      BY <1>0, <1>8, <1>11, <2>1
    <3>. QED  BY <1>0, <1>8, <1>12, <2>1, <3>1 DEF Sound, ChainSoFar, Verifies
  <2>2. CASE todo = View(t) \ old
    <3>1. (View(t) \ txn[t].todo)' = {} /\ txn'[t].todo = View(t)'
      BY <1>8, <1>11, <2>2
    <3>2. TailHash({}, Links(t)') = <<>>
      BY DEF TailHash
    <3>. QED  BY <3>1, <3>2 DEF ChainSoFar, Verifies, TailHash
  <2>. QED  BY <1>5, <2>1, <2>2
<1>14. OwnBehind(t)'
  BY <1>0, <1>8, <1>9 DEF Sound, OwnBehind, Expired
<1>15. Trimming(t)'
  <2>1. Expired(t)' = Expired(t)
    BY <1>8, <1>9 DEF Expired
  <2>. QED  BY <1>0, <1>8, <1>13, <2>1 DEF Trimming
<1>16. Sound(t)'
  BY <1>8, <1>13, <1>14, <1>15 DEF Sound
<1>. QED  BY <1>0, <1>8, <1>9, <1>10, <1>16, OneMoves

\* It rewrites the hashes of a row that is behind those it has rewritten, and in
\* front of those it has yet to.
LEMMA RebaseStep == ASSUME ChainInv, NEW t \in Txns, Rebase(t) PROVE ChainInv'
<1>. DEFINE q == txn[t]
<1>. DEFINE S == View(t) \ q.todo
<1>0. q \in Txn /\ Sound(t) /\ Trimming(t) /\ q.action = "trimmed" /\ lock = t
      /\ txn \in [Txns -> Txn] /\ q.pc = "rebase" /\ counter \in Nat
  BY TrimHasLock, AuditAssumption DEF ChainInv, TypeOK, Rebase
<1>1. PICK e \in q.todo :
        /\ \A f \in q.todo : e.seq <= f.seq
        /\ txn' = [txn EXCEPT
             ![t].todo = @ \ {e}, ![t].last = EntryHash(q.last, e),
             ![t].upd[e.seq] = [prev |-> q.last, hash |-> EntryHash(q.last, e)]]
  BY DEF Rebase
<1>. DEFINE l == [prev |-> q.last, hash |-> EntryHash(q.last, e)]
<1>2. q.todo \subseteq View(t) /\ Verifies(S, Links(t))
      /\ (\A f \in S, g \in q.todo : f.seq < g.seq)
  BY <1>0 DEF Sound, ChainSoFar
<1>3. e \in Entry /\ e.seq \in Seqs /\ (\A f \in View(t) : f \in Entry /\ f.seq \in Nat /\ f.seq \in Seqs)
      /\ (\A f, g \in View(t) : f.seq = g.seq => f = g)
  BY <1>2, ViewSound
<1>4. q.last = TailHash(S, Links(t))
  BY <1>0 DEF Trimming
<1>5. EntryHash(q.last, e) \in Seq(Entry) /\ EntryHash(q.last, e) # <<>> /\ q.last \in Seq(Entry)
  <2>1. q.last \in Seq(Entry)
    BY <1>0 DEF Txn
  <2>2. Append(q.last, e) \in Seq(Entry) /\ Append(q.last, e) # <<>>
    BY <1>3, <2>1
  <2>. QED  BY <2>1, <2>2 DEF EntryHash
<1>6. l \in Link /\ l # NoLink
  BY <1>5 DEF Link, NoLink
<1>. HIDE DEF S, l
<1>7. txn' = [txn EXCEPT ![t].todo = @ \ {e}, ![t].last = EntryHash(q.last, e),
                         ![t].upd[e.seq] = l]
  BY <1>1 DEF l
<1>8. /\ txn'[t].own = q.own /\ txn'[t].gone = q.gone /\ txn'[t].todo = q.todo \ {e}
      /\ txn'[t].upd = [q.upd EXCEPT ![e.seq] = l]
      /\ txn'[t].last = EntryHash(q.last, e) /\ txn'[t].action = "trimmed"
      /\ txn'[t].count = q.count /\ txn'[t].cutoff = q.cutoff
      /\ txn'[t].start = q.start /\ txn'[t].pc = "rebase"
      /\ \A x \in Txns \ {t} : txn'[x] = txn[x]
  BY <1>0, <1>7 DEF Txn
<1>9. UNCHANGED <<log, link, clock, counter, lock>>
  BY DEF Rebase
<1>10. TypeOK'
  <2>1. txn'[t] \in Txn
    BY <1>0, <1>3, <1>5, <1>6, <1>7 DEF Txn
  <2>2. txn' \in [Txns -> Txn]
    BY <1>0, <1>7, <1>8, <2>1
  <2>. QED  BY <1>0, <1>9, <2>2 DEF ChainInv, TypeOK
<1>11. View(t)' = View(t)
  BY <1>8, <1>9 DEF View
<1>12. (View(t) \ txn[t].todo)' = S \cup {e}
  BY <1>1, <1>2, <1>8, <1>11 DEF S
<1>13. Links(t)' = [Links(t) EXCEPT ![e.seq] = l]
  BY <1>0, <1>3, <1>6, <1>8, <1>9 DEF Links, Txn
<1>14. \A f \in S : f.seq < e.seq /\ f \in Entry /\ f.seq \in Seqs
  BY <1>1, <1>2, <1>3 DEF S
<1>15. /\ Verifies(S \cup {e}, Links(t)')
       /\ TailHash(S \cup {e}, Links(t)') = EntryHash(q.last, e)
  <2>1. \A f \in S : Links(t)[f.seq] = (Links(t)')[f.seq]
    <3>1. \A f \in S : f.seq # e.seq /\ f.seq \in Seqs
      BY <1>3, <1>14 DEF Seqs
    <3>. QED  BY <1>13, <3>1 DEF Links
  <2>2. (Links(t)')[e.seq] = [prev |-> TailHash(S, Links(t)),
                              hash |-> EntryHash(TailHash(S, Links(t)), e)]
    BY <1>3, <1>4, <1>13 DEF Links, l
  <2>3. S \subseteq Entry
    BY <1>14
  <2>. QED  BY <1>2, <1>3, <1>4, <1>14, <2>1, <2>2, <2>3, VerifiesLonger
<1>16. ChainSoFar(t)'
  <2>1. \A f \in S \cup {e}, g \in q.todo \ {e} : f.seq < g.seq
    <3>1. \A g \in q.todo \ {e} : e.seq < g.seq
      BY <1>1, <1>2, <1>3
    <3>. QED  BY <1>2, <3>1 DEF S
  <2>2. q.todo \ {e} \subseteq View(t)'
    BY <1>2, <1>11
  <2>. QED  BY <1>8, <1>12, <1>15, <2>1, <2>2 DEF ChainSoFar, Verifies
<1>17. OwnBehind(t)'
  BY <1>0, <1>8, <1>9 DEF Sound, OwnBehind
<1>18. Trimming(t)'
  <2>1. Expired(t)' = Expired(t)
    BY <1>8, <1>9 DEF Expired
  <2>2. txn'[t].last = TailHash(View(t) \ txn[t].todo, Links(t))'
    BY <1>8, <1>12, <1>15 DEF TailHash
  <2>. QED  BY <1>0, <1>8, <2>1, <2>2 DEF Trimming
<1>19. Sound(t)'
  BY <1>8, <1>16, <1>17, <1>18 DEF Sound
<1>. QED  BY <1>0, <1>8, <1>9, <1>10, <1>19, OneMoves

\* A transaction that ends has written nothing that is not committed, and is
\* whatever it began as.
LEMMA EndIsClean ==
    ASSUME TypeOK, NEW t \in Txns, txn' = [txn EXCEPT ![t] = Idle], Unlock(t)
    PROVE  /\ txn' \in [Txns -> Txn] /\ lock' \in Txns \cup {NoTxn}
           /\ Clean(t)' /\ txn'[t].last = <<>>
           /\ \A x \in Txns \ {t} : txn'[x] = txn[x]
           /\ \A x \in Txns : lock' = x <=> lock = x /\ x # t
<1>1. txn'[t] = Idle /\ (\A x \in Txns \ {t} : txn'[x] = txn[x])
      /\ txn' \in [Txns -> Txn]
  BY IdleIsTxn DEF TypeOK
<1>2. Clean(t)' /\ txn'[t].last = <<>>
  BY <1>1 DEF Clean, Idle
<1>3. lock' \in Txns \cup {NoTxn} /\ \A x \in Txns : lock' = x <=> lock = x /\ x # t
  BY AuditAssumption DEF Unlock, TypeOK
<1>. QED  BY <1>1, <1>2, <1>3

\* A rollback takes back what nobody has seen.
LEMMA RollbackStep == ASSUME ChainInv, NEW t \in Txns, Rollback(t) PROVE ChainInv'
<1>0. TypeOK /\ counter \in Nat
  BY AuditAssumption DEF ChainInv, TypeOK
<1>1. UNCHANGED <<log, link, counter, clock>>
  BY DEF Rollback
<1>2. /\ txn' \in [Txns -> Txn] /\ lock' \in Txns \cup {NoTxn}
      /\ Clean(t)' /\ txn'[t].last = <<>>
      /\ \A x \in Txns \ {t} : txn'[x] = txn[x]
      /\ \A x \in Txns : lock' = x <=> lock = x /\ x # t
  BY <1>0, EndIsClean DEF Rollback
<1>3. TypeOK'
  BY <1>0, <1>1, <1>2 DEF TypeOK
<1>4. LogSound'
  BY <1>1 DEF ChainInv, LogSound, Verifies
<1>5. ASSUME NEW x \in Txns PROVE Sound(x)'
  <2>1. CASE x = t
    BY <1>2, <1>3, <1>4, <2>1, CleanSoundNext
  <2>2. CASE x # t
    BY <1>0, <1>1, <1>2, <2>2, OthersSound
  <2>. QED  BY <2>1, <2>2
<1>6. ASSUME NEW x \in Txns, lock' # x PROVE Clean(x)'
  <2>1. CASE x = t
    BY <1>2, <2>1
  <2>2. CASE x # t
    BY <1>2, <1>6, <2>2 DEF ChainInv, Clean
  <2>. QED  BY <2>1, <2>2
<1>. QED  BY <1>3, <1>4, <1>5, <1>6 DEF ChainInv

\* A commit makes the table as its transaction sees it the log.  Who waits for the
\* lock has written nothing yet; if another one holds it, nothing is committed.
LEMMA CommitStep == ASSUME ChainInv, NEW t \in Txns, Commit(t) PROVE ChainInv'
<1>0. TypeOK /\ counter \in Nat /\ Sound(t) /\ txn[t] \in Txn
  BY AuditAssumption DEF ChainInv, TypeOK
<1>1. UNCHANGED <<counter, clock>> /\ log' = View(t) /\ link' = Links(t)
  BY DEF Commit
<1>2. /\ txn' \in [Txns -> Txn] /\ lock' \in Txns \cup {NoTxn}
      /\ Clean(t)' /\ txn'[t].last = <<>>
      /\ \A x \in Txns \ {t} : txn'[x] = txn[x]
      /\ \A x \in Txns : lock' = x <=> lock = x /\ x # t
  BY <1>0, EndIsClean DEF Commit
<1>3. TypeOK'
  BY <1>0, <1>1, <1>2, ViewType DEF TypeOK
<1>4. txn[t].todo = {}
  BY <1>0 DEF Commit, Sound, Appending, Trimming, Txn
<1>5. LogSound'
  <2>1. View(t) \ txn[t].todo = View(t)
    BY <1>4
  <2>2. Verifies(View(t), Links(t))
    BY <1>0, <2>1 DEF Sound, ChainSoFar
  <2>. QED  BY <1>1, <2>2, ViewSound DEF LogSound, Verifies
<1>6. ASSUME NEW x \in Txns, lock' # x PROVE Clean(x)'
  <2>1. CASE x = t
    BY <1>2, <2>1
  <2>2. CASE x # t
    BY <1>2, <1>6, <2>2 DEF ChainInv, Clean
  <2>. QED  BY <2>1, <2>2
<1>7. ASSUME NEW x \in Txns PROVE Sound(x)'
  <2>1. CASE x = t
    BY <1>2, <1>3, <1>5, <2>1, CleanSoundNext
  <2>2. CASE x # t /\ lock # x
    <3>1. Clean(x)' /\ Clean(x) /\ Sound(x) /\ txn'[x] = txn[x]
      BY <1>2, <1>6, <2>2 DEF ChainInv
    <3>2. txn'[x].last = <<>>
      BY <3>1 DEF Sound, Clean
    <3>. QED  BY <1>3, <1>5, <3>1, <3>2, CleanSoundNext
  <2>3. CASE x # t /\ lock = x
    <3>1. Clean(t)
      BY <2>3 DEF ChainInv
    <3>2. UNCHANGED <<log, link>>
      BY <1>0, <1>1, <3>1, CleanView
    <3>. QED  BY <1>0, <1>1, <1>2, <2>3, <3>2, OthersSound
  <2>. QED  BY <2>1, <2>2, <2>3
<1>. QED  BY <1>3, <1>5, <1>6, <1>7 DEF ChainInv

\* No step leaves the invariant.
LEMMA ChainInvNext == ChainInv /\ [Next]_vars => ChainInv'
<1>. SUFFICES ASSUME ChainInv, [Next]_vars PROVE ChainInv'
  OBVIOUS
<1>1. CASE Tick
  BY <1>1, TickStep
<1>2. ASSUME NEW t \in Txns, Begin(t) PROVE ChainInv'
  BY <1>2, BeginStep
<1>3. ASSUME NEW t \in Txns, InsertBegins(t) PROVE ChainInv'
  BY <1>3, InsertStep
<1>4. ASSUME NEW t \in Txns, Chain(t) PROVE ChainInv'
  BY <1>4, ChainStep
<1>5. ASSUME NEW t \in Txns, NEW cutoff \in 0..MaxTime, TrimBegins(t, cutoff)
      PROVE  ChainInv'
  BY <1>5, TrimBeginsStep
<1>6. ASSUME NEW t \in Txns, TrimDeletes(t) PROVE ChainInv'
  BY <1>6, TrimDeletesStep
<1>7. ASSUME NEW t \in Txns, Rebase(t) PROVE ChainInv'
  BY <1>7, RebaseStep
<1>8. ASSUME NEW t \in Txns, Commit(t) PROVE ChainInv'
  BY <1>8, CommitStep
<1>9. ASSUME NEW t \in Txns, Rollback(t) PROVE ChainInv'
  BY <1>9, RollbackStep
<1>10. CASE UNCHANGED vars
  <2>. USE <1>10 DEF vars
  <2>1. TypeOK' /\ LogSound' /\ counter \in Nat
    BY AuditAssumption DEF ChainInv, TypeOK, LogSound, Verifies
  <2>2. ASSUME NEW x \in Txns PROVE Sound(x)'
    BY <2>1, OthersSound
  <2>3. ASSUME NEW x \in Txns, lock' # x PROVE Clean(x)'
    BY <2>3 DEF ChainInv, Clean
  <2>. QED  BY <2>1, <2>2, <2>3 DEF ChainInv
<1>. QED
  BY <1>1, <1>2, <1>3, <1>4, <1>5, <1>6, <1>7, <1>8, <1>9, <1>10 DEF Next

-----------------------------------------------------------------------------
(* The theorems *)

\* The invariant holds.
THEOREM ChainInvariant == Spec => []ChainInv
<1>. QED  BY ChainInvInit, ChainInvNext, PTL DEF Spec

\* Every variable keeps its type; the count of a trim is a number, for the table
\* is finite.
THEOREM AuditTypeCorrect == Spec => []TypeOK
<1>1. ChainInv => TypeOK
  BY DEF ChainInv
<1>. QED  BY <1>1, ChainInvariant, PTL

\* The daily verification finds no bad row unless somebody tampered, whatever
\* appends, rollbacks and trims run at once.
THEOREM ChainAlwaysVerifies == Spec => []ChainVerifies
<1>1. ChainInv => ChainVerifies
  BY DEF ChainInv, LogSound, ChainVerifies
<1>. QED  BY <1>1, ChainInvariant, PTL

\* It finds a row taken out of the middle or from the front of the log.
THEOREM GapsNoticed == Spec => []GapsAreDetected
<1>1. ChainInv => GapsAreDetected
  <2>. SUFFICES ASSUME ChainInv, NEW e \in log, NEW f \in log, e.seq < f.seq
                PROVE  ~Verifies(log \ {e}, link)
    BY DEF GapsAreDetected
  <2>1. log \subseteq Entry /\ link \in [Seqs -> Link]
    BY DEF ChainInv, TypeOK
  <2>2. Verifies(log, link) /\ \A g, h \in log : g.seq = h.seq => g = h
    BY DEF ChainInv, LogSound
  <2>. QED  BY <2>1, <2>2, GapsDetected
<1>. QED  BY <1>1, ChainInvariant, PTL

\* A commit of ordinary events appends to the log.
LEMMA CommitAppends ==
    ASSUME ChainInv, NEW t \in Txns, Commit(t), txn[t].action = "event"
    PROVE  Promise!Appends
<1>1. Appending(t) /\ OwnBehind(t)
  BY DEF ChainInv, Sound
<1>2. log' = log \cup txn[t].own
  BY <1>1 DEF Commit, View, Appending
<1>3. \A e \in log' \ log : e \in txn[t].own
  BY <1>2
<1>. QED
  BY <1>1, <1>2, <1>3 DEF Promise!Appends, Promise!Newest, Appending, OwnBehind

\* A commit of a trim removes what was old, and records how many that were.
LEMMA CommitTrims ==
    ASSUME ChainInv, NEW t \in Txns, Commit(t), txn[t].action = "trimmed"
    PROVE  Promise!Trims
<1>. DEFINE q == txn[t]
<1>0. Trimming(t) /\ OwnBehind(t) /\ q \in Txn /\ log' = View(t)
  BY DEF ChainInv, Sound, TypeOK, Commit
<1>1. q.pc = "rebase"
  BY <1>0 DEF Commit, Trimming
<1>2. q.gone = Expired(t) /\ q.cutoff + Year <= q.start /\ q.count = Cardinality(Expired(t))
  BY <1>0, <1>1 DEF Trimming
<1>3. PICK record \in q.own : /\ q.own = {record} /\ record.action = "trimmed"
                              /\ record.created = q.start /\ record.count = q.count
  BY <1>0, <1>1 DEF Trimming
<1>4. record \notin log /\ \A f \in log : f.seq < record.seq
  <2>1. record.seq \in Nat
    BY <1>0, AuditAssumption DEF Txn, Entry, Seqs
  <2>. QED  BY <1>0, <2>1 DEF OwnBehind
<1>5. log' = (log \ Expired(t)) \cup {record}
  BY <1>0, <1>2, <1>3 DEF View
<1>6. record \in log' \ log
  BY <1>4, <1>5
<1>7. q.cutoff \in 0..record.created
  <2>1. q.cutoff \in Nat /\ q.start \in Nat
    BY <1>0, AuditAssumption DEF Txn
  <2>. QED  BY <1>2, <1>3, <2>1, AuditAssumption
<1>8. Expired(t) = {e \in log : e.created < q.cutoff}
  BY DEF Expired
<1>9. \A S : Promise!Cardinality(S) = Cardinality(S)
  BY DEF Promise!Cardinality, Cardinality
<1>10. /\ q.cutoff + Year <= record.created
       /\ Promise!Newest(record) /\ record.action = "trimmed"
       /\ record.count = Promise!Cardinality({e \in log : e.created < q.cutoff})
       /\ log' = (log \ {e \in log : e.created < q.cutoff}) \cup {record}
  BY <1>2, <1>3, <1>4, <1>5, <1>8, <1>9 DEF Promise!Newest
<1>. QED  BY <1>6, <1>7, <1>10 DEF Promise!Trims

\* The log implements what it promises its readers: only a commit changes it, and
\* every commit is an append or a recorded trim.
THEOREM KeepsPromiseHolds == Spec => KeepsPromise
<1>1. Init => Promise!Init
  BY DEF Init, Promise!Init
<1>2. ChainInv /\ [Next]_vars => [Promise!Next]_log
  <2>. SUFFICES ASSUME ChainInv, [Next]_vars PROVE Promise!Next \/ UNCHANGED log
    OBVIOUS
  <2>1. ASSUME NEW t \in Txns, Commit(t) PROVE Promise!Next
    <3>1. txn[t].action \in {"event", "trimmed"}
      BY DEF ChainInv, TypeOK, Txn
    <3>. QED  BY <2>1, <3>1, CommitAppends, CommitTrims DEF Promise!Next
  <2>2. ASSUME NEW t \in Txns, Begin(t) \/ InsertBegins(t) \/ Rollback(t)
        PROVE  UNCHANGED log
    BY <2>2 DEF Begin, InsertBegins, Rollback
  <2>3. ASSUME NEW t \in Txns, Chain(t) PROVE UNCHANGED log
    BY <2>3 DEF Chain
  <2>4. ASSUME NEW t \in Txns, NEW cutoff \in 0..MaxTime, TrimBegins(t, cutoff)
        PROVE  UNCHANGED log
    BY <2>4 DEF TrimBegins
  <2>5. ASSUME NEW t \in Txns, TrimDeletes(t) \/ Rebase(t) PROVE UNCHANGED log
    BY <2>5 DEF TrimDeletes, Rebase
  <2>6. CASE Tick \/ UNCHANGED vars
    BY <2>6 DEF Tick, vars
  <2>. QED
    BY <2>1, <2>2, <2>3, <2>4, <2>5, <2>6 DEF Next
<1>. QED
  BY <1>1, <1>2, ChainInvariant, PTL DEF Spec, KeepsPromise, Promise!Spec

=============================================================================
