---------------------------- MODULE NotifyProofs ----------------------------
(***************************************************************************)
(* What the notifications of a user guarantee for every number of workers, *)
(* rows, delivery sweeps at once and digest slots, whatever fails, crashes *)
(* or overlaps: a row is mailed once unless a send went unrecorded or two  *)
(* sweeps held it, and what the table says was mailed was mailed.          *)
(*                                                                         *)
(* A row passes from the inbox to a delivery sweep and from there to the   *)
(* table or to a digest.  The invariant says where it is and what has been *)
(* mailed of it so far.                                                    *)
(***************************************************************************)
EXTENDS Notify, FiniteSetTheorems, TLAPS

RowRow    == [kind : Kinds, delivered : BOOLEAN, read : BOOLEAN,
              state : {None, "pending", "sent", "dropped"}, attempts : Nat]
UserRow   == [optedIn : BOOLEAN, choice : Modes \cup {None}, stamp : Nat, failures : Nat]
EntryRow  == [id : Nat, deferred : BOOLEAN, mail : BOOLEAN, external : BOOLEAN,
              sent : BOOLEAN]
PassRow   == [worker : Workers \cup {None}, left : Seq(EntryRow)]
Todos     == {<<>>, <<"load">>, <<"stamp">>, <<"drop", "send">>, <<"drop", "stamp">>,
              <<"send">>, <<"settle", "stamp">>}
DigestRow == [todo : Todos, transport : BOOLEAN, slot : Nat, choice : Modes \cup {None},
              failures : Nat, drop : SUBSET Nat, keep : SUBSET Nat,
              as : {None, "sent", "dropped"}]

-----------------------------------------------------------------------------
(* The invariant *)

\* The inbox has no row twice, and only a row that is delivered and may be digested waits.
RowOK(r) == r.state # None => r.delivered /\ r.kind # "message"
InboxInv ==
    /\ row \in Seq(RowRow) /\ Len(row) <= MaxRows
    /\ \A i \in 1..Len(row) : RowOK(row[i])
    /\ inbox \in Seq(1..Len(row))
    /\ \A m, n \in 1..Len(inbox) : inbox[m] = inbox[n] => m = n

UserInv ==
    /\ user \in UserRow /\ slot \in Nat /\ user.stamp <= slot
    /\ transport \in BOOLEAN /\ leader \in Workers /\ paused \in [Workers -> BOOLEAN]

HistoryInv == mailed \in [Rows -> Nat] /\ excused \subseteq Rows /\ uncertain \subseteq Rows

\* What a pass has left: no row twice, only the first sent, and sent is mailed.
EntryOK(e) ==
    /\ e.id \in 1..Len(row)
    /\ e.deferred => row[e.id].kind # "message" /\ ~e.mail
    /\ e.sent => e.mail /\ mailed[e.id] > 0
LeftOK(left) ==
    /\ \A n \in 1..Len(left) : EntryOK(left[n]) /\ (n > 1 => ~left[n].sent)
    /\ \A m, n \in 1..Len(left) : left[m].id = left[n].id => m = n
PassInv == pass \in [Passes -> PassRow] /\ \A p \in Passes : LeftOK(pass[p].left)

\* What a digest keeps was left to a digest, and is settled as sent once it is mailed.
DigestOK(d) ==
    /\ d.slot <= slot
    /\ \A i \in d.keep : i \in 1..Len(row) /\ row[i].state # None
    /\ d.todo \in {<<>>, <<"load">>} => d.keep = {}
    /\ d.todo = <<"settle", "stamp">> =>
         /\ d.as \in {"sent", "dropped"}
         /\ d.as = "sent" => \A i \in d.keep : mailed[i] > 0
DigestInv == digest \in [Workers -> DigestRow] /\ \A w \in Workers : DigestOK(digest[w])

\* Where a row that is not uncertain is, and what has been mailed of it: it is in one pass
\* or in one digest, and mailed when that has sent it; otherwise it is mailed only once
\* delivered, and not while it waits.
HeldOnce(i) ==
    /\ \A p, q \in Passes : i \in Held(p) /\ i \in Held(q) => p = q
    /\ \A p \in Passes : i \in Held(p) =>
         ~row[i].delivered /\ mailed[i] = IF i \in Sent(p) THEN 1 ELSE 0
    /\ ~row[i].delivered /\ Exists(i) /\ (\A p \in Passes : i \notin Held(p)) => mailed[i] = 0

ToSend(w) == digest[w].todo \in {<<"drop", "send">>, <<"send">>}
KeptOnce(i) ==
    /\ \A v, w \in Workers : i \in digest[v].keep /\ i \in digest[w].keep => v = w
    /\ \A w \in Workers : i \in digest[w].keep /\ ToSend(w) => mailed[i] = 0
    /\ i \in Waiting /\ (\A w \in Workers : i \notin SentIn(w)) => mailed[i] = 0

OnceInv ==
    /\ \A i \in Rows : i > Len(row) => mailed[i] = 0
    /\ \A i \in 1..Len(row) : i \notin uncertain =>
         mailed[i] <= 1 /\ HeldOnce(i) /\ KeptOnce(i)

\* The digests that may yet count a failure, each of which has seen fewer than allowed.
MayFail  == {w \in Workers : digest[w].todo # <<>> /\ digest[w].failures + 1 < MaxAttempts}
FailsInv == user.failures + Cardinality(MayFail) <= MaxAttempts - 1 + Cardinality(Workers)

IInv ==
    /\ InboxInv /\ UserInv /\ HistoryInv /\ PassInv /\ DigestInv /\ OnceInv /\ FailsInv
    /\ RecordedIsMailed

-----------------------------------------------------------------------------
(* Numbers and sequences *)

LEMMA Numbers ==
  /\ Batch \in Nat \ {0} /\ MaxAttempts \in Nat \ {0} /\ Keep \in Nat /\ MaxPasses \in Nat
  /\ MaxRows \in Nat /\ MaxSlot \in Nat /\ MaxEvents \in Nat
  /\ IsFiniteSet(Workers) /\ Cardinality(Workers) \in Nat
<1>1. Cardinality(Workers) \in Nat
  BY NotifyAssumption, FS_CardinalityType
<1> QED
  BY <1>1, NotifyAssumption

\* A row of the inbox moved to its end.
LEMMA MovedToEnd ==
  ASSUME NEW S, NEW s \in Seq(S), NEW k \in 1..Len(s),
         \A m, n \in 1..Len(s) : s[m] = s[n] => m = n
  PROVE  LET t == Append(RemoveAt(s, k), s[k])
         IN  /\ t \in Seq(S) /\ ToSet(t) = ToSet(s)
             /\ \A m, n \in 1..Len(t) : t[m] = t[n] => m = n
<1> DEFINE N == Len(s)
           a == SubSeq(s, 1, k - 1)
           b == SubSeq(s, k + 1, N)
           t == Append(a \o b, s[k])
<1>1. N \in Nat /\ k \in 1..N
  OBVIOUS
<1>2. a \in Seq(S) /\ Len(a) = k - 1 /\ \A j \in 1..(k - 1) : a[j] = s[j]
  BY <1>1
<1>3. b \in Seq(S) /\ Len(b) = N - k /\ \A j \in 1..(N - k) : b[j] = s[k + j]
  BY <1>1
<1> HIDE DEF a, b
<1>4. a \o b \in Seq(S) /\ Len(a \o b) = N - 1
  BY <1>1, <1>2, <1>3
<1>5. ASSUME NEW j \in 1..(N - 1)
      PROVE  (j < k => (a \o b)[j] = s[j]) /\ (~(j < k) => (a \o b)[j] = s[j + 1])
  <2>1. ASSUME j < k PROVE (a \o b)[j] = s[j]
    BY <1>1, <1>2, <1>3, <2>1
  <2>2. ASSUME ~(j < k) PROVE (a \o b)[j] = s[j + 1]
    <3>1. (a \o b)[j] = b[j - (k - 1)] /\ j - (k - 1) \in 1..(N - k)
      BY <1>1, <1>2, <1>3, <2>2
    <3>2. b[j - (k - 1)] = s[k + (j - (k - 1))] /\ k + (j - (k - 1)) = j + 1
      BY <1>1, <1>3, <3>1
    <3> QED
      BY <3>1, <3>2
  <2> QED
    BY <2>1, <2>2
<1> DEFINE c == a \o b
<1>6. c \in Seq(S) /\ Len(c) = N - 1 /\ s[k] \in S
  BY <1>1, <1>4
<1>7. \A j \in 1..(N - 1) : c[j] = IF j < k THEN s[j] ELSE s[j + 1]
  BY <1>5
<1> HIDE DEF c
<1>8. /\ Append(c, s[k]) \in Seq(S) /\ Len(Append(c, s[k])) = N
      /\ Append(c, s[k])[N] = s[k]
      /\ \A j \in 1..(N - 1) : Append(c, s[k])[j] = c[j]
  BY <1>1, <1>6
<1> DEFINE from(j) == IF j = N THEN k ELSE IF j < k THEN j ELSE j + 1
<1>9. \A j \in 1..N : t[j] = s[from(j)] /\ from(j) \in 1..N
  BY <1>1, <1>7, <1>8 DEF c
<1>10. \A m, n \in 1..N : from(m) = from(n) => m = n
  BY <1>1
<1>11. \A i \in 1..N : \E j \in 1..N : from(j) = i
  <2>1. ASSUME NEW i \in 1..N PROVE \E j \in 1..N : from(j) = i
    <3>1. CASE i = k
      BY <1>1, <3>1
    <3>2. CASE i < k
      BY <1>1, <3>2
    <3>3. CASE i > k
      <4>1. i - 1 \in 1..N /\ from(i - 1) = i
        BY <1>1, <3>3
      <4> QED
        BY <4>1
    <3> QED
      BY <1>1, <3>1, <3>2, <3>3
  <2> QED
    BY <2>1
<1>12. t \in Seq(S) /\ Len(t) = N
  BY <1>8 DEF c
<1> HIDE DEF t, from
<1>13. \A m, n \in 1..N : t[m] = t[n] => m = n
  BY <1>9, <1>10
<1>14. ToSet(t) = ToSet(s)
  <2>1. DOMAIN t = 1..N /\ DOMAIN s = 1..N
    BY <1>1, <1>12
  <2>2. \A x \in ToSet(t) : x \in ToSet(s)
    BY <1>9, <2>1 DEF ToSet
  <2>3. \A x \in ToSet(s) : x \in ToSet(t)
    BY <1>9, <1>11, <2>1 DEF ToSet
  <2> QED
    BY <2>2, <2>3
<1>15. t = Append(RemoveAt(s, k), s[k])
  BY DEF t, a, b, RemoveAt
<1> QED
  BY <1>12, <1>13, <1>14, <1>15

LEMMA SetOf ==
  ASSUME NEW S, NEW s \in Seq(S)
  PROVE  ToSet(s) = {s[n] : n \in 1..Len(s)} /\ ToSet(s) \subseteq S
BY DEF ToSet

\* A sequence without repetition has as many members as places.
LEMMA DistinctCount ==
  ASSUME NEW S, NEW s \in Seq(S), \A m, n \in 1..Len(s) : s[m] = s[n] => m = n
  PROVE  Cardinality(ToSet(s)) = Len(s)
<1>1. Len(s) \in Nat /\ DOMAIN s = 1..Len(s)
  OBVIOUS
<1>2. s \in [1..Len(s) -> ToSet(s)]
  BY <1>1 DEF ToSet
<1>3. s \in Bijection(1..Len(s), ToSet(s))
  BY <1>1, <1>2 DEF Bijection, Injection, IsInjective, Surjection, ToSet
<1>4. ExistsBijection(1..Len(s), ToSet(s))
  BY <1>3 DEF ExistsBijection
<1>5. IsFiniteSet(1..Len(s)) /\ Cardinality(1..Len(s)) = Len(s)
  <2>1. 1 \in Int /\ Len(s) \in Int
    BY <1>1
  <2> QED
    BY <1>1, <2>1, FS_Interval
<1> QED
  BY <1>4, <1>5, FS_Bijection

\* The rows of a batch wait to be delivered, and none is in it twice.
LEMMA BatchIs ==
  ASSUME InboxInv, NEW at \in Batches
  PROVE  /\ at \in Seq(1..Len(inbox)) /\ Len(at) \in Nat \ {0}
         /\ \A n \in 1..Len(at) : /\ at[n] \in 1..Len(inbox) /\ inbox[at[n]] \in 1..Len(row)
                                  /\ Exists(inbox[at[n]]) /\ ~row[inbox[at[n]]].delivered
         /\ \A m, n \in 1..Len(at) : inbox[at[m]] = inbox[at[n]] => m = n
         /\ Range(at) = {at[n] : n \in 1..Len(at)}
<1>1. PICK n \in 1..Batch : at \in [1..n -> Pending]
  BY DEF Batches
<1>2. Pending \subseteq 1..Len(inbox) /\ n \in Nat \ {0}
  BY <1>1, Numbers DEF Pending
<1>3. at \in Seq(1..Len(inbox)) /\ Len(at) = n /\ DOMAIN at = 1..Len(at)
  <2>1. at \in [1..n -> 1..Len(inbox)]
    BY <1>1, <1>2
  <2> QED
    BY <1>2, <2>1
<1>4. \A m \in 1..Len(at) : at[m] \in Pending
  BY <1>1, <1>3
<1>5. \A j, m \in 1..Len(at) : j < m => at[j] < at[m]
  BY DEF Batches
<1>6. \A j, m \in 1..Len(at) : at[j] = at[m] => j = m
  <2>1. ASSUME NEW j \in 1..Len(at), NEW m \in 1..Len(at), at[j] = at[m], j # m PROVE FALSE
    <3>1. at[j] < at[m] \/ at[m] < at[j]
      BY <1>2, <1>3, <1>5, <2>1
    <3>2. at[j] \in Int
      BY <1>3
    <3> QED
      BY <2>1, <3>1, <3>2
  <2> QED
    BY <2>1
<1>7. inbox \in Seq(1..Len(row)) /\ \A j, m \in 1..Len(inbox) : inbox[j] = inbox[m] => j = m
  BY DEF InboxInv
<1>8. ASSUME NEW m \in 1..Len(at)
      PROVE  /\ at[m] \in 1..Len(inbox) /\ inbox[at[m]] \in 1..Len(row)
             /\ Exists(inbox[at[m]]) /\ ~row[inbox[at[m]]].delivered
  <2>1. at[m] \in 1..Len(inbox) /\ ~row[inbox[at[m]]].delivered
    BY <1>4 DEF Pending
  <2>2. inbox[at[m]] \in ToSet(inbox)
    BY <1>7, <2>1, SetOf
  <2> QED
    BY <1>7, <2>1, <2>2 DEF Exists
<1>9. \A j, m \in 1..Len(at) : inbox[at[j]] = inbox[at[m]] => j = m
  BY <1>6, <1>7, <1>8
<1>10. Range(at) = {at[m] : m \in 1..Len(at)}
  BY <1>3 DEF Range
<1> QED
  BY <1>2, <1>3, <1>8, <1>9, <1>10

-----------------------------------------------------------------------------
(* What stays of a conjunct *)

\* Rows are added and get on; mails are added; slots pass.
Ages ==
    /\ row' \in Seq(RowRow) /\ Len(row) <= Len(row')
    /\ \A i \in 1..Len(row) : /\ row'[i].kind = row[i].kind
                              /\ row[i].state # None => row'[i].state # None
    /\ mailed' \in [Rows -> Nat] /\ \A i \in Rows : mailed[i] <= mailed'[i]
    /\ slot \in Nat /\ slot' \in Nat /\ slot <= slot'

LEMMA RowIds ==
  ASSUME InboxInv
  PROVE  /\ Len(row) \in Nat /\ 1..Len(row) \subseteq Rows
         /\ \A i \in 1..Len(row) : row[i] \in RowRow /\ RowOK(row[i])
BY Numbers DEF InboxInv, Rows

LEMMA AgesSame ==
  ASSUME InboxInv, UserInv, HistoryInv, UNCHANGED <<row, mailed, slot>>
  PROVE  Ages
BY DEF InboxInv, UserInv, HistoryInv, Ages

LEMMA LeftStays ==
  ASSUME InboxInv, HistoryInv, Ages, NEW left \in Seq(EntryRow), LeftOK(left)
  PROVE  LeftOK(left)'
<1>1. Len(row) \in Nat /\ Len(row') \in Nat /\ Len(row) <= Len(row') /\ 1..Len(row) \subseteq Rows
  BY RowIds DEF InboxInv, Ages
<1>2. ASSUME NEW n \in 1..Len(left) PROVE EntryOK(left[n])'
  <2>1. EntryOK(left[n])
    BY DEF LeftOK
  <2>2. left[n].id \in 1..Len(row) /\ left[n].id \in 1..Len(row')
    BY <1>1, <2>1 DEF EntryOK
  <2>3. left[n].id \in Rows /\ mailed[left[n].id] \in Nat /\ mailed'[left[n].id] \in Nat
        /\ mailed[left[n].id] <= mailed'[left[n].id]
        /\ row'[left[n].id].kind = row[left[n].id].kind
    BY <1>1, <2>2 DEF HistoryInv, Ages
  <2>4. mailed[left[n].id] > 0 => mailed'[left[n].id] > 0
    BY <2>3
  <2> QED
    BY <2>1, <2>2, <2>3, <2>4 DEF EntryOK
<1> QED
  BY <1>2 DEF LeftOK

LEMMA TailOK ==
  ASSUME NEW left \in Seq(EntryRow), LeftOK(left), left # <<>>
  PROVE  /\ Tail(left) \in Seq(EntryRow) /\ LeftOK(Tail(left)) /\ Len(Tail(left)) = Len(left) - 1
         /\ \A n \in 1..Len(Tail(left)) :
              Tail(left)[n] = left[n + 1] /\ n + 1 \in 2..Len(left) /\ ~Tail(left)[n].sent
<1> DEFINE rest == Tail(left)
<1>1. Len(left) \in Nat \ {0} /\ rest \in Seq(EntryRow) /\ Len(rest) = Len(left) - 1
  OBVIOUS
<1>2. \A n \in 1..Len(rest) : rest[n] = left[n + 1] /\ n + 1 \in 2..Len(left)
  BY <1>1
<1> HIDE DEF rest
<1>3. \A n \in 1..Len(rest) : EntryOK(rest[n]) /\ ~rest[n].sent
  BY <1>1, <1>2 DEF LeftOK
<1>4. ASSUME NEW m \in 1..Len(rest), NEW n \in 1..Len(rest), rest[m].id = rest[n].id
      PROVE  m = n
  <2>1. left[m + 1].id = left[n + 1].id /\ m + 1 \in 1..Len(left) /\ n + 1 \in 1..Len(left)
    BY <1>1, <1>2, <1>4
  <2>2. m + 1 = n + 1
    BY <2>1 DEF LeftOK
  <2> QED
    BY <1>1, <2>2
<1>5. LeftOK(rest)
  BY <1>3, <1>4 DEF LeftOK
<1> QED
  BY <1>1, <1>2, <1>3, <1>5 DEF rest

LEMMA EmptyOK == <<>> \in Seq(EntryRow) /\ LeftOK(<<>>) /\ LeftOK(<<>>)'
BY DEF LeftOK

\* A pass keeps what it has left, ends its first row, or ends.
LEMMA PassStays ==
  ASSUME InboxInv, HistoryInv, PassInv, Ages, pass' \in [Passes -> PassRow],
         \A p \in Passes : \/ pass'[p].left \in {pass[p].left, <<>>}
                           \/ pass[p].left # <<>> /\ pass'[p].left = Tail(pass[p].left)
  PROVE  PassInv'
<1>1. ASSUME NEW p \in Passes PROVE LeftOK(pass[p].left)'
  <2>1. pass[p].left \in Seq(EntryRow) /\ LeftOK(pass[p].left)
    BY DEF PassInv, PassRow
  <2>2. \A left \in Seq(EntryRow) : LeftOK(left) /\ pass'[p].left = left => LeftOK(pass[p].left)'
    <3>1. ASSUME NEW left \in Seq(EntryRow), LeftOK(left), pass'[p].left = left
          PROVE  LeftOK(pass[p].left)'
      <4>1. LeftOK(left)'
        BY <3>1, LeftStays
      <4> QED
        BY <3>1, <4>1
    <3> QED
      BY <3>1
  <2>3. pass[p].left # <<>> => Tail(pass[p].left) \in Seq(EntryRow) /\ LeftOK(Tail(pass[p].left))
    BY <2>1, TailOK
  <2> QED
    BY <2>1, <2>2, <2>3, EmptyOK
<1> QED
  BY <1>1 DEF PassInv

LEMMA DigestStays ==
  ASSUME InboxInv, HistoryInv, UserInv, DigestInv, Ages, NEW w \in Workers,
         digest'[w] = digest[w]
  PROVE  DigestOK(digest[w])'
<1>1. DigestOK(digest[w]) /\ digest[w] \in DigestRow
  BY DEF DigestInv
<1>2. Len(row) \in Nat /\ Len(row') \in Nat /\ Len(row) <= Len(row') /\ 1..Len(row) \subseteq Rows
  BY RowIds DEF InboxInv, Ages
<1>3. digest[w].slot \in Nat /\ digest[w].slot <= slot'
  BY <1>1 DEF DigestOK, Ages, DigestRow
<1>4. \A i \in digest[w].keep : /\ i \in 1..Len(row) /\ i \in 1..Len(row')
                                /\ row'[i].state # None
                                /\ mailed[i] \in Nat /\ mailed'[i] \in Nat
                                /\ mailed[i] <= mailed'[i]
  BY <1>1, <1>2 DEF DigestOK, Ages, HistoryInv
<1>5. \A i \in digest[w].keep : mailed[i] > 0 => mailed'[i] > 0
  BY <1>4
<1>6. digest[w].todo \in {<<>>, <<"load">>} => digest[w].keep = {}
  BY <1>1 DEF DigestOK
<1>7. digest[w].todo = <<"settle", "stamp">> =>
         /\ digest[w].as \in {"sent", "dropped"}
         /\ digest[w].as = "sent" => \A i \in digest[w].keep : mailed'[i] > 0
  BY <1>1, <1>5 DEF DigestOK
<1> QED
  BY <1>3, <1>4, <1>6, <1>7 DEF DigestOK

LEMMA DigestsStay ==
  ASSUME InboxInv, HistoryInv, UserInv, DigestInv, Ages, digest' = digest
  PROVE  DigestInv'
<1>1. \A w \in Workers : DigestOK(digest[w])'
  BY DigestStays
<1> QED
  BY <1>1 DEF DigestInv

LEMMA FailsCount ==
  /\ IsFiniteSet(MayFail) /\ Cardinality(MayFail) \in Nat
  /\ Cardinality(MayFail) <= Cardinality(Workers)
BY Numbers, FS_Subset, FS_CardinalityType DEF MayFail

LEMMA FailsStays ==
  ASSUME UserInv, FailsInv, UserInv', user'.failures <= user.failures, MayFail' \subseteq MayFail
  PROVE  FailsInv'
<1>1. user.failures \in Nat /\ user'.failures \in Nat
  BY DEF UserInv, UserRow
<1>2. IsFiniteSet(MayFail) /\ Cardinality(MayFail) \in Nat
  BY FailsCount
<1>3. Cardinality(MayFail') <= Cardinality(MayFail) /\ Cardinality(MayFail') \in Nat
  BY <1>2, FS_Subset, FS_CardinalityType
<1> QED
  BY <1>1, <1>2, <1>3, Numbers DEF FailsInv

LEMMA MayFailSame == digest' = digest => MayFail' = MayFail
BY DEF MayFail

\* A row that nothing happens to is where it was.
LEMMA HeldStays ==
  ASSUME NEW i \in 1..Len(row), HeldOnce(i), mailed'[i] = mailed[i],
         row'[i].delivered = row[i].delivered, Exists(i)' => Exists(i),
         \A p \in Passes : /\ i \in Held(p)' <=> i \in Held(p)
                           /\ i \in Sent(p)' <=> i \in Sent(p)
  PROVE  HeldOnce(i)'
BY DEF HeldOnce

LEMMA KeptStays ==
  ASSUME NEW i \in 1..Len(row), KeptOnce(i), mailed'[i] = mailed[i],
         i \in Waiting' => i \in Waiting,
         \A w \in Workers : /\ i \in digest'[w].keep => i \in digest[w].keep
                            /\ i \in digest'[w].keep /\ ToSend(w)' => ToSend(w)
                            /\ i \in Waiting' /\ i \in SentIn(w) => i \in SentIn(w)'
  PROVE  KeptOnce(i)'
<1>1. \A v, w \in Workers : i \in digest'[v].keep /\ i \in digest'[w].keep => v = w
  BY DEF KeptOnce
<1>2. \A w \in Workers : i \in digest'[w].keep /\ ToSend(w)' => mailed'[i] = 0
  BY DEF KeptOnce
<1>3. i \in Waiting' /\ (\A w \in Workers : i \notin SentIn(w)') => mailed'[i] = 0
  BY DEF KeptOnce
<1> QED
  BY <1>1, <1>2, <1>3 DEF KeptOnce

-----------------------------------------------------------------------------
(* The web tier, and time *)

WebDoes ==
    /\ Web /\ slot' \in Nat /\ slot <= slot'
    /\ InboxInv' /\ UserInv' /\ user'.failures <= user.failures
    /\ Len(row) <= Len(row')
    /\ \A i \in 1..Len(row) :
         /\ row'[i].kind = row[i].kind /\ row'[i].delivered = row[i].delivered
         /\ row'[i].state = row[i].state
         /\ Exists(i)' => Exists(i)
    /\ \A i \in 1..Len(row') :
         i > Len(row) => ~row'[i].delivered /\ row'[i].state = None

LEMMA WebKept ==
  ASSUME IInv, WebDoes
  PROVE  IInv'
<1>1. /\ InboxInv /\ UserInv /\ HistoryInv /\ PassInv /\ DigestInv /\ OnceInv /\ FailsInv
      /\ RecordedIsMailed
      /\ InboxInv' /\ UserInv'
      /\ UNCHANGED <<leader, paused, pass, digest, mailed, excused, uncertain>>
  BY DEF IInv, WebDoes, Web, history
<1>2. Ages
  <2>1. mailed' \in [Rows -> Nat] /\ \A i \in Rows : mailed[i] <= mailed'[i]
    BY <1>1 DEF HistoryInv
  <2>2. row' \in Seq(RowRow) /\ slot \in Nat
    BY <1>1 DEF InboxInv, UserInv
  <2> QED
    BY <2>1, <2>2 DEF Ages, WebDoes
<1>3. HistoryInv'
  BY <1>1 DEF HistoryInv
<1>4. PassInv'
  <2>1. pass' \in [Passes -> PassRow]
    BY <1>1 DEF PassInv
  <2> QED
    BY <1>1, <1>2, <2>1, PassStays
<1>5. DigestInv'
  BY <1>1, <1>2, DigestsStay
<1>6. FailsInv'
  BY <1>1, MayFailSame, FailsStays DEF WebDoes
<1>7. Len(row) \in Nat /\ Len(row') \in Nat /\ 1..Len(row) \subseteq Rows
      /\ 1..Len(row') \subseteq Rows
  BY <1>1, Numbers DEF InboxInv, Rows
<1>8. RecordedIsMailed'
  <2>1. ASSUME NEW i \in 1..Len(row')
        PROVE  /\ row'[i].delivered /\ row'[i].state = None => mailed'[i] > 0 \/ i \in excused'
               /\ row'[i].state = "sent" => mailed'[i] > 0
    <3>1. CASE i \in 1..Len(row)
      BY <1>1, <3>1 DEF RecordedIsMailed, WebDoes
    <3>2. CASE i \notin 1..Len(row)
      BY <1>7, <3>2 DEF WebDoes, None
    <3> QED
      BY <3>1, <3>2
  <2> QED
    BY <2>1 DEF RecordedIsMailed
<1>9. OnceInv'
  <2>1. \A i \in Rows : i > Len(row') => mailed'[i] = 0
    <3>1. \A i \in Rows : i > Len(row') => i > Len(row)
      BY <1>7 DEF WebDoes, Rows
    <3> QED
      BY <1>1, <3>1 DEF OnceInv
  <2>2. /\ \A i, p : (i \in Held(p)' <=> i \in Held(p)) /\ (i \in Sent(p)' <=> i \in Sent(p))
        /\ \A i, w : i \in SentIn(w)' <=> i \in SentIn(w)
        /\ \A w : ToSend(w)' <=> ToSend(w)
    BY <1>1 DEF Held, Sent, InRow, Current, SentIn, At, ToSend
  <2>3. ASSUME NEW i \in 1..Len(row'), i \notin uncertain', i \in 1..Len(row)
        PROVE  mailed'[i] <= 1 /\ HeldOnce(i)' /\ KeptOnce(i)'
    <3>1. mailed[i] <= 1 /\ HeldOnce(i) /\ KeptOnce(i) /\ mailed'[i] = mailed[i]
      BY <1>1, <2>3 DEF OnceInv
    <3>2. row'[i].delivered = row[i].delivered /\ (Exists(i)' => Exists(i))
          /\ row'[i].state = row[i].state
      BY <2>3 DEF WebDoes
    <3>3. i \in Waiting' => i \in Waiting
      BY <3>2 DEF Waiting, Exists
    <3>4. HeldOnce(i)'
      BY <2>2, <2>3, <3>1, <3>2, HeldStays
    <3>5. KeptOnce(i)'
      BY <1>1, <2>2, <2>3, <3>1, <3>3, KeptStays
    <3> QED
      BY <3>1, <3>4, <3>5
  <2>4. ASSUME NEW i \in 1..Len(row'), i \notin 1..Len(row)
        PROVE  mailed'[i] <= 1 /\ HeldOnce(i)' /\ KeptOnce(i)'
    <3>1. i \in Rows /\ i > Len(row) /\ mailed'[i] = 0 /\ row'[i].state = None
      BY <1>1, <1>7, <2>4 DEF OnceInv, WebDoes
    <3>2. \A p \in Passes : i \notin Held(p)
      BY <1>1, <2>4 DEF PassInv, LeftOK, EntryOK, Held
    <3>3. \A w \in Workers : i \notin digest[w].keep
      BY <1>1, <2>4 DEF DigestInv, DigestOK
    <3>4. i \notin Waiting'
      BY <3>1 DEF Waiting, None
    <3>5. HeldOnce(i)'
      BY <2>2, <3>1, <3>2 DEF HeldOnce
    <3>6. KeptOnce(i)'
      BY <1>1, <3>3, <3>4 DEF KeptOnce
    <3> QED
      BY <3>1, <3>5, <3>6
  <2> QED
    BY <2>1, <2>3, <2>4 DEF OnceInv
<1> QED
  BY <1>1, <1>3, <1>4, <1>5, <1>6, <1>8, <1>9 DEF IInv

\* A new row, as the newest in the inbox.
LEMMA InsertedDoes ==
  ASSUME IInv, NEW k \in Kinds, Inserted(k), UNCHANGED <<user, config>>, Web
  PROVE  WebDoes
<1> DEFINE r == NewRow(k)
           N == Len(row)
<1>1. InboxInv /\ UserInv
  BY DEF IInv
<1>2. r \in RowRow /\ ~r.delivered /\ r.state = None /\ RowOK(r)
  BY DEF NewRow, RowRow, RowOK, None
<1>3. row' = Append(row, r) /\ inbox' = Append(inbox, N + 1) /\ N < MaxRows
  BY DEF Inserted
<1> HIDE DEF r
<1>4. row \in Seq(RowRow) /\ N \in Nat /\ inbox \in Seq(1..N)
  BY <1>1 DEF InboxInv
<1>5. /\ row' \in Seq(RowRow) /\ Len(row') = N + 1 /\ row'[N + 1] = r
      /\ \A i \in 1..N : row'[i] = row[i]
  BY <1>2, <1>3, <1>4
<1>6. inbox \in Seq(1..(N + 1)) /\ N + 1 \in 1..(N + 1)
  BY <1>4
<1>7. /\ inbox' \in Seq(1..(N + 1)) /\ Len(inbox') = Len(inbox) + 1 /\ Len(inbox) \in Nat
      /\ inbox'[Len(inbox) + 1] = N + 1
      /\ \A n \in 1..Len(inbox) : inbox'[n] = inbox[n] /\ inbox[n] \in 1..N
  BY <1>3, <1>4, <1>6
<1> HIDE DEF N
<1>8. \A m, n \in 1..Len(inbox') : inbox'[m] = inbox'[n] => m = n
  <2>1. \A m, n \in 1..Len(inbox) : inbox[m] = inbox[n] => m = n
    BY <1>1 DEF InboxInv
  <2>2. \A n \in 1..Len(inbox) : inbox'[n] # N + 1
    <3>1. \A n \in 1..N : n # N + 1
      BY <1>4
    <3> QED
      BY <1>7, <3>1
  <2> QED
    BY <1>7, <2>1, <2>2
<1>9. \A i \in 1..N : Exists(i)' => Exists(i)
  <2>1. ToSet(inbox)' = {inbox'[n] : n \in 1..Len(inbox')}
        /\ ToSet(inbox) = {inbox[n] : n \in 1..Len(inbox)}
    BY <1>4, <1>7, SetOf
  <2>2. \A n \in 1..Len(inbox') : n \in 1..Len(inbox) \/ inbox'[n] = N + 1
    BY <1>7
  <2>3. \A i \in 1..N : i # N + 1
    BY <1>4
  <2> QED
    BY <1>7, <2>1, <2>2, <2>3 DEF Exists
<1>10. InboxInv'
  <2>1. \A i \in 1..(N + 1) : i \in 1..N \/ i = N + 1
    BY <1>4
  <2>2. \A i \in 1..(N + 1) : RowOK(row'[i])
    BY <1>1, <1>2, <1>5, <2>1 DEF InboxInv, N
  <2>3. Len(row') <= MaxRows
    BY <1>3, <1>4, <1>5, Numbers
  <2> QED
    BY <1>5, <1>7, <1>8, <2>2, <2>3 DEF InboxInv
<1>11. UserInv' /\ user'.failures <= user.failures /\ slot' \in Nat /\ slot <= slot'
  BY <1>1 DEF UserInv, UserRow, config, Web
<1>12. \A i \in 1..Len(row') : i > Len(row) => row'[i] = r
  BY <1>4, <1>5 DEF N
<1>13. Len(row) <= Len(row')
  BY <1>4, <1>5 DEF N
<1> QED
  BY <1>2, <1>5, <1>9, <1>10, <1>11, <1>12, <1>13 DEF WebDoes, N

\* The inbox is reordered or gets shorter.
LEMMA InboxDoes ==
  ASSUME IInv, UNCHANGED <<row, user, config>>, Web,
         inbox' \in Seq(1..Len(row)), ToSet(inbox') \subseteq ToSet(inbox),
         \A m, n \in 1..Len(inbox') : inbox'[m] = inbox'[n] => m = n
  PROVE  WebDoes
<1>1. InboxInv /\ UserInv
  BY DEF IInv
<1>2. InboxInv'
  BY <1>1 DEF InboxInv
<1>3. UserInv' /\ user'.failures <= user.failures /\ slot' \in Nat /\ slot <= slot'
  BY <1>1 DEF UserInv, UserRow, config, Web
<1>4. Len(row) \in Nat /\ Len(row') = Len(row)
  BY <1>1 DEF InboxInv
<1>5. \A i : Exists(i)' => Exists(i)
  BY DEF Exists
<1>6. \A i \in 1..Len(row') : ~(i > Len(row))
  BY <1>4
<1> QED
  BY <1>2, <1>3, <1>4, <1>5, <1>6 DEF WebDoes

LEMMA FanOutDoes ==
  ASSUME IInv, fanOut
  PROVE  WebDoes
<1>1. UNCHANGED <<user, config>> /\ Web
  BY DEF fanOut
<1>2. CASE Inserted("message")
  BY <1>1, <1>2, InsertedDoes DEF Kinds
<1>3. ASSUME NEW k \in UnreadMessage, inbox' = Newest(k), row' = row PROVE WebDoes
  <2>0. InboxInv
    BY DEF IInv
  <2>1. k \in 1..Len(inbox) /\ inbox \in Seq(1..Len(row))
        /\ \A m, n \in 1..Len(inbox) : inbox[m] = inbox[n] => m = n
    BY <2>0 DEF UnreadMessage, InboxInv
  <2>2. /\ inbox' \in Seq(1..Len(row)) /\ ToSet(inbox') = ToSet(inbox)
        /\ \A m, n \in 1..Len(inbox') : inbox'[m] = inbox'[n] => m = n
    <3>1. PICK s \in Seq(1..Len(row)) : s = inbox
      BY <2>1
    <3>2. inbox' = Append(RemoveAt(s, k), s[k])
      BY <1>3, <3>1 DEF Newest
    <3> QED
      BY <2>1, <3>1, <3>2, MovedToEnd
  <2> QED
    BY <1>1, <1>3, <2>2, InboxDoes
<1> QED
  BY <1>2, <1>3 DEF fanOut

LEMMA PruneDoes ==
  ASSUME IInv, pruneNotifications
  PROVE  WebDoes
<1> DEFINE N == Len(inbox)
           d == N - Keep
<1>1. /\ inbox \in Seq(1..Len(row)) /\ N \in Nat /\ Keep \in Nat /\ Keep < N
      /\ inbox' = SubSeq(inbox, d + 1, N)
      /\ UNCHANGED <<row, user, config>> /\ Web
  BY Numbers DEF pruneNotifications, IInv, InboxInv
<1>2. /\ inbox' \in Seq(1..Len(row)) /\ Len(inbox') = Keep
      /\ \A n \in 1..Keep : inbox'[n] = inbox[d + n] /\ d + n \in 1..N
  BY <1>1
<1>3. \A m, n \in 1..Len(inbox') : inbox'[m] = inbox'[n] => m = n
  <2>1. ASSUME NEW m \in 1..Keep, NEW n \in 1..Keep, inbox'[m] = inbox'[n] PROVE m = n
    <3>1. \A j, k \in 1..N : inbox[j] = inbox[k] => j = k
      BY DEF IInv, InboxInv
    <3>2. d + m \in 1..N /\ d + n \in 1..N /\ inbox[d + m] = inbox[d + n]
      BY <1>2, <2>1
    <3>3. d + m = d + n
      BY <3>1, <3>2
    <3> QED
      BY <1>1, <3>3
  <2> QED
    BY <1>2, <2>1
<1>4. ToSet(inbox') \subseteq ToSet(inbox)
  <2>1. ToSet(inbox') = {inbox'[n] : n \in 1..Len(inbox')}
    BY <1>2, SetOf
  <2>2. ToSet(inbox) = {inbox[n] : n \in 1..N}
    BY <1>1, SetOf
  <2> HIDE DEF d, N
  <2> QED
    BY <1>2, <2>1, <2>2
<1> QED
  BY <1>1, <1>2, <1>3, <1>4, InboxDoes

LEMMA ReadDoes ==
  ASSUME IInv, NEW i \in 1..Len(row), markRead(i)
  PROVE  WebDoes
<1> DEFINE r == [row[i] EXCEPT !.read = TRUE]
<1>1. InboxInv /\ UserInv /\ UNCHANGED <<inbox, user, config>> /\ Web
      /\ row' = [row EXCEPT ![i] = r]
  BY DEF IInv, markRead
<1>2. row \in Seq(RowRow) /\ row[i] \in RowRow /\ RowOK(row[i])
  BY <1>1 DEF InboxInv
<1>3. r \in RowRow /\ r.kind = row[i].kind /\ r.delivered = row[i].delivered
      /\ r.state = row[i].state
  BY <1>2 DEF RowRow
<1> HIDE DEF r
<1>4. RowOK(r)
  BY <1>2, <1>3 DEF RowOK
<1>5. /\ row' \in Seq(RowRow) /\ Len(row') = Len(row) /\ row'[i] = r /\ Len(row) \in Nat
      /\ \A j \in 1..Len(row) : j # i => row'[j] = row[j]
  BY <1>1, <1>2, <1>3
<1>6. InboxInv'
  BY <1>1, <1>4, <1>5 DEF InboxInv
<1>7. UserInv' /\ user'.failures <= user.failures /\ slot' \in Nat /\ slot <= slot'
  BY <1>1 DEF UserInv, UserRow, config, Web
<1>8. \A j : Exists(j)' => Exists(j)
  BY <1>1 DEF Exists
<1>9. \A j \in 1..Len(row') : ~(j > Len(row))
  BY <1>5
<1>10. \A j \in 1..Len(row) : /\ row'[j].kind = row[j].kind
                              /\ row'[j].delivered = row[j].delivered
                              /\ row'[j].state = row[j].state
  BY <1>3, <1>5
<1> QED
  BY <1>1, <1>5, <1>6, <1>7, <1>8, <1>9, <1>10 DEF WebDoes

\* No stamp and no failure is added.
UserLess ==
    user' \in UserRow /\ user'.stamp <= user.stamp /\ user'.failures <= user.failures

LEMMA SettingsDo ==
  ASSUME IInv, NEW c \in Modes \cup {None},
         \/ setUserEmailDigest(c) \/ SwitchesMail \/ updateDigestSettings
         \/ TransportChanges \/ SlotPasses
  PROVE  WebDoes
<1>1. InboxInv /\ UserInv /\ UNCHANGED <<row, inbox>> /\ Web
  BY DEF IInv, setUserEmailDigest, SwitchesMail, updateDigestSettings, TransportChanges,
         SlotPasses
<1>2. user \in UserRow /\ slot \in Nat /\ user.stamp <= slot
  BY <1>1 DEF UserInv
<1>3. UserLess
  <2>1. user.stamp \in Nat /\ user.failures \in Nat /\ user.optedIn \in BOOLEAN
    BY <1>2 DEF UserRow
  <2>2. CASE setUserEmailDigest(c)
    <3> DEFINE u == [[[user EXCEPT !.choice = c] EXCEPT !.stamp = 0] EXCEPT !.failures = 0]
    <3>1. u \in UserRow /\ u.stamp = 0 /\ u.failures = 0
      BY <1>2 DEF UserRow
    <3>2. user' = u
      BY <2>2 DEF setUserEmailDigest
    <3> HIDE DEF u
    <3> QED
      BY <2>1, <3>1, <3>2 DEF UserLess
  <2>3. CASE SwitchesMail
    <3> DEFINE u == [user EXCEPT !.optedIn = ~user.optedIn]
    <3>1. u \in UserRow /\ u.stamp = user.stamp /\ u.failures = user.failures
      BY <1>2 DEF UserRow
    <3>2. user' = u
      BY <2>3 DEF SwitchesMail
    <3> HIDE DEF u
    <3> QED
      BY <2>1, <3>1, <3>2 DEF UserLess
  <2>4. CASE user' = user
    BY <1>2, <2>1, <2>4 DEF UserLess
  <2>5. updateDigestSettings \/ TransportChanges \/ SlotPasses => user' = user
    BY DEF updateDigestSettings, TransportChanges, SlotPasses
  <2> QED
    BY <2>2, <2>3, <2>4, <2>5
<1>4. slot' \in Nat /\ slot <= slot'
  BY <1>2 DEF setUserEmailDigest, SwitchesMail, updateDigestSettings, TransportChanges,
              SlotPasses, config
<1>5. transport' \in BOOLEAN
  BY <1>1 DEF setUserEmailDigest, SwitchesMail, updateDigestSettings, TransportChanges,
              SlotPasses, config, UserInv
<1>6. user.stamp \in Nat /\ user'.stamp \in Nat
  BY <1>2, <1>3 DEF UserRow, UserLess
<1>7. user'.stamp <= slot'
  BY <1>2, <1>3, <1>4, <1>6 DEF UserLess
<1>8. UserInv'
  BY <1>1, <1>3, <1>4, <1>5, <1>7 DEF UserInv, Web, UserLess
<1>9. InboxInv' /\ Len(row) \in Nat /\ Len(row') = Len(row)
  BY <1>1 DEF InboxInv
<1>10. \A j : Exists(j)' => Exists(j)
  BY <1>1 DEF Exists
<1>11. \A j \in 1..Len(row') : ~(j > Len(row))
  BY <1>9
<1> QED
  BY <1>1, <1>3, <1>4, <1>8, <1>9, <1>10, <1>11 DEF WebDoes, UserLess

-----------------------------------------------------------------------------
(* The delivery sweep *)

\* One row changes, and not its kind.
LEMMA RowSet ==
  ASSUME InboxInv, NEW i \in 1..Len(row), NEW r \in RowRow, RowOK(r), r.kind = row[i].kind,
         row[i].state # None => r.state # None,
         row' = [row EXCEPT ![i] = r], inbox' = inbox
  PROVE  /\ InboxInv' /\ row' \in Seq(RowRow) /\ Len(row') = Len(row) /\ row'[i] = r
         /\ \A j \in 1..Len(row) : /\ j # i => row'[j] = row[j]
                                   /\ row'[j].kind = row[j].kind
                                   /\ row[j].state # None => row'[j].state # None
<1>1. row \in Seq(RowRow)
  BY DEF InboxInv
<1>2. /\ row' \in Seq(RowRow) /\ Len(row') = Len(row) /\ row'[i] = r
      /\ \A j \in 1..Len(row) : j # i => row'[j] = row[j]
  BY <1>1
<1>3. \A j \in 1..Len(row) : /\ row'[j].kind = row[j].kind
                             /\ row[j].state # None => row'[j].state # None
  BY <1>2
<1>4. InboxInv'
  BY <1>2 DEF InboxInv
<1> QED
  BY <1>2, <1>3, <1>4

\* What every step of a delivery sweep keeps.
DeliverDoes ==
    /\ Deliver /\ Ages /\ InboxInv' /\ HistoryInv' /\ paused' \in [Workers -> BOOLEAN]
    /\ Len(row') = Len(row)

LEMMA DeliverKept ==
  ASSUME IInv, DeliverDoes
  PROVE  UserInv' /\ DigestInv' /\ FailsInv'
<1>1. InboxInv /\ UserInv /\ HistoryInv /\ DigestInv /\ FailsInv /\ Ages
      /\ UNCHANGED <<user, slot, transport, leader, digest>> /\ paused' \in [Workers -> BOOLEAN]
  BY DEF IInv, DeliverDoes, Deliver, config
<1>2. UserInv' /\ user'.failures <= user.failures
  BY <1>1 DEF UserInv, UserRow
<1>3. DigestInv'
  BY <1>1, DigestsStay
<1>4. FailsInv'
  BY <1>1, <1>2, MayFailSame, FailsStays
<1> QED
  BY <1>2, <1>3, <1>4

\* One pass changes, if any.
OnePass(p) ==
    /\ pass' \in [Passes -> PassRow]
    /\ \A q \in Passes \ {p} : pass'[q] = pass[q]

LEMMA InPass ==
  ASSUME IInv, NEW p \in Passes, InRow(p)
  PROVE  /\ pass[p] \in PassRow /\ pass[p].left \in Seq(EntryRow) /\ LeftOK(pass[p].left)
         /\ Len(pass[p].left) \in Nat \ {0}
         /\ Current(p) \in EntryRow /\ EntryOK(Current(p))
         /\ Current(p).id \in 1..Len(row) /\ Current(p).id \in Rows
         /\ Current(p).id \in Held(p) /\ Sent(p) \subseteq {Current(p).id}
         /\ Current(p).sent <=> Current(p).id \in Sent(p)
<1>1. pass[p] \in PassRow /\ pass[p].left \in Seq(EntryRow) /\ LeftOK(pass[p].left)
  BY DEF IInv, PassInv, PassRow
<1>2. Len(pass[p].left) \in Nat \ {0} /\ 1 \in 1..Len(pass[p].left)
  BY <1>1 DEF InRow
<1>3. Current(p) \in EntryRow /\ EntryOK(Current(p))
  BY <1>1, <1>2 DEF Current, LeftOK
<1>4. Current(p).id \in 1..Len(row) /\ 1..Len(row) \subseteq Rows
  BY <1>3, RowIds DEF EntryOK, IInv
<1>5. Current(p).id \in Held(p)
  BY <1>2 DEF Current, Held
<1>6. Sent(p) \subseteq {Current(p).id} /\ (Current(p).sent <=> Current(p).id \in Sent(p))
  BY DEF Sent, InRow
<1> QED
  BY <1>1, <1>2, <1>3, <1>4, <1>5, <1>6

LEMMA NoPassIs ==
  NoPass \in PassRow /\ NoPass.left = <<>> /\ NoPass.worker = None
<1>1. <<>> \in Seq(EntryRow)
  OBVIOUS
<1> QED
  BY <1>1 DEF NoPass, PassRow

\* The first row is done with, and those behind it have not been sent.
LEMMA RowEnds ==
  ASSUME IInv, NEW p \in Passes, InRow(p), EndRow(p)
  PROVE  /\ OnePass(p) /\ pass'[p].left = Tail(pass[p].left)
         /\ Held(p)' \subseteq Held(p) \ {Current(p).id} /\ Sent(p)' = {}
<1> DEFINE left == pass[p].left
           rest == Tail(left)
           new  == IF Len(left) = 1 THEN NoPass ELSE [pass[p] EXCEPT !.left = rest]
<1>1. /\ pass \in [Passes -> PassRow] /\ pass[p] \in PassRow
      /\ left \in Seq(EntryRow) /\ LeftOK(left) /\ Len(left) \in Nat \ {0} /\ left # <<>>
  BY InPass DEF IInv, PassInv, InRow
<1>2. /\ rest \in Seq(EntryRow) /\ Len(rest) = Len(left) - 1
      /\ \A n \in 1..Len(rest) :
           rest[n] = left[n + 1] /\ n + 1 \in 2..Len(left) /\ ~rest[n].sent
  BY <1>1, TailOK
<1>3. pass' = [pass EXCEPT ![p] = new]
  BY DEF EndRow, Advance
<1> HIDE DEF rest
<1>4. new \in PassRow /\ new.left = rest
  <2>1. CASE Len(left) = 1
    BY <1>2, <2>1, NoPassIs
  <2>2. CASE Len(left) # 1
    BY <1>1, <1>2, <2>2 DEF PassRow
  <2> QED
    BY <2>1, <2>2
<1> HIDE DEF new
<1>5. OnePass(p) /\ pass'[p].left = rest
  BY <1>1, <1>3, <1>4 DEF OnePass
<1>6. Held(p)' \subseteq Held(p) \ {Current(p).id}
  <2>1. ASSUME NEW n \in 1..Len(rest)
        PROVE  rest[n].id \in Held(p) /\ rest[n].id # left[1].id
    <3>1. rest[n] = left[n + 1] /\ n + 1 \in 1..Len(left) /\ 1 \in 1..Len(left) /\ n + 1 # 1
      BY <1>1, <1>2
    <3> QED
      BY <1>1, <3>1 DEF Held, LeftOK
  <2> HIDE DEF left
  <2> QED
    BY <1>5, <2>1 DEF Held, Current, left
<1>7. Sent(p)' = {}
  <2>1. rest # <<>> => 1 \in 1..Len(rest)
    BY <1>2
  <2>2. rest # <<>> => ~rest[1].sent
    BY <1>2, <2>1
  <2> QED
    BY <1>5, <2>2 DEF Sent, InRow, Current
<1> QED
  BY <1>5, <1>6, <1>7 DEF rest

LEMMA PassEnds ==
  ASSUME IInv, NEW p \in Passes, pass' = [pass EXCEPT ![p] = NoPass]
  PROVE  /\ OnePass(p) /\ pass'[p].left = <<>> /\ Held(p)' = {} /\ Sent(p)' = {}
<1>1. pass \in [Passes -> PassRow]
  BY DEF IInv, PassInv
<1>2. OnePass(p) /\ pass'[p].left = <<>>
  BY <1>1, NoPassIs DEF OnePass
<1>3. Held(p)' = {}
  BY <1>2 DEF Held
<1>4. Sent(p)' = {}
  BY <1>2 DEF Sent, InRow
<1> QED
  BY <1>2, <1>3, <1>4

\* The other passes hold what they held.
LEMMA OtherPasses ==
  ASSUME NEW p \in Passes, OnePass(p)
  PROVE  \A q \in Passes \ {p} : Held(q)' = Held(q) /\ Sent(q)' = Sent(q)
BY DEF OnePass, Held, Sent, InRow, Current

\* A row that a pass holds and that is not uncertain is in no digest.
LEMMA HeldNotKept ==
  ASSUME IInv, NEW p \in Passes, NEW i \in Held(p), i \notin uncertain
  PROVE  /\ i \in 1..Len(row) /\ i \in Rows /\ HeldOnce(i) /\ mailed[i] \in Nat
         /\ ~row[i].delivered /\ row[i].state = None /\ i \notin Waiting
         /\ \A w \in Workers : i \notin digest[w].keep
<1>1. i \in 1..Len(row)
  BY DEF IInv, PassInv, LeftOK, EntryOK, Held
<1>2. i \in Rows /\ RowOK(row[i]) /\ row[i] \in RowRow
  BY <1>1, RowIds DEF IInv
<1>3. HeldOnce(i) /\ mailed[i] \in Nat
  BY <1>1, <1>2 DEF IInv, OnceInv, HistoryInv
<1>4. ~row[i].delivered /\ row[i].state = None
  BY <1>2, <1>3 DEF HeldOnce, RowOK
<1>5. i \notin Waiting
  BY <1>4 DEF Waiting, None
<1>6. \A w \in Workers : i \notin digest[w].keep
  BY <1>4 DEF IInv, DigestInv, DigestOK
<1> QED
  BY <1>1, <1>2, <1>3, <1>4, <1>5, <1>6


\* The rows that a step of a pass is not about are where they were, or are let go unsent.
LEMMA OthersStay ==
  ASSUME IInv, NEW p \in Passes, NEW c, DeliverDoes, OnePass(p), NEW i \in 1..Len(row),
         i # c, i \notin uncertain', uncertain \subseteq uncertain',
         Held(p)' \subseteq Held(p), Sent(p) \subseteq {c}, Sent(p)' \subseteq {c},
         row'[i].delivered = row[i].delivered, row'[i].state = row[i].state,
         mailed'[i] = mailed[i]
  PROVE  mailed'[i] <= 1 /\ HeldOnce(i)' /\ KeptOnce(i)'
<1>1. i \notin uncertain /\ mailed[i] <= 1 /\ HeldOnce(i) /\ KeptOnce(i)
  BY DEF IInv, OnceInv
<1>2. inbox' = inbox /\ digest' = digest
  BY DEF DeliverDoes, Deliver
<1>3. \A q \in Passes : /\ i \in Held(q)' => i \in Held(q)
                        /\ i \in Sent(q)' <=> i \in Sent(q)
  BY OtherPasses
<1>4. HeldOnce(i)'
  <2>1. \A q, o \in Passes : i \in Held(q)' /\ i \in Held(o)' => q = o
    BY <1>1, <1>3 DEF HeldOnce
  <2>2. \A q \in Passes : i \in Held(q)' =>
          ~row'[i].delivered /\ mailed'[i] = IF i \in Sent(q)' THEN 1 ELSE 0
    BY <1>1, <1>3 DEF HeldOnce
  <2>3. ~row'[i].delivered /\ Exists(i)' /\ (\A q \in Passes : i \notin Held(q)')
          => mailed'[i] = 0
    <3>1. ASSUME ~row'[i].delivered, Exists(i)', \A q \in Passes : i \notin Held(q)'
          PROVE  mailed'[i] = 0
      <4>1. CASE i \in Held(p)
        BY <1>1, <4>1 DEF HeldOnce
      <4>2. CASE i \notin Held(p)
        <5>1. \A q \in Passes : i \notin Held(q)
          BY <3>1, <4>2, OtherPasses
        <5>2. Exists(i)
          BY <1>2, <3>1 DEF Exists
        <5> QED
          BY <1>1, <3>1, <5>1, <5>2 DEF HeldOnce
      <4> QED
        BY <4>1, <4>2
    <3> QED
      BY <3>1
  <2> QED
    BY <2>1, <2>2, <2>3 DEF HeldOnce
<1>5. KeptOnce(i)'
  <2>1. i \in Waiting' => i \in Waiting
    BY <1>2 DEF Waiting
  <2>2. \A w \in Workers : /\ (ToSend(w)' <=> ToSend(w))
                           /\ (i \in SentIn(w)' <=> i \in SentIn(w))
    BY <1>2 DEF ToSend, SentIn, At
  <2> QED
    BY <1>1, <1>2, <2>1, <2>2, KeptStays
<1> QED
  BY <1>1, <1>4, <1>5

\* Of the row that a pass is at: nothing is mailed of it yet unless it is sent.
LEMMA AtRow ==
  ASSUME IInv, NEW p \in Passes, InRow(p), Current(p).id \notin uncertain
  PROVE  mailed[Current(p).id] = IF Current(p).sent THEN 1 ELSE 0
<1>1. Current(p).id \in Held(p) /\ (Current(p).sent <=> Current(p).id \in Sent(p))
  BY InPass
<1>2. HeldOnce(Current(p).id)
  BY <1>1, HeldNotKept
<1> QED
  BY <1>1, <1>2 DEF HeldOnce

\* What a step of a pass at row c leaves of the others, and of what was recorded.
Touches(p, c) ==
    /\ DeliverDoes /\ OnePass(p) /\ PassInv'
    /\ uncertain \subseteq uncertain' /\ excused \subseteq excused'
    /\ Held(p)' \subseteq Held(p) /\ Sent(p)' \subseteq {c}
    /\ \A i \in 1..Len(row) : i # c => row'[i] = row[i]
    /\ \A i \in Rows : i # c => mailed'[i] = mailed[i]
    /\ row'[c].delivered /\ row'[c].state = None => mailed'[c] > 0 \/ c \in excused'
    /\ row'[c].state = "sent" => mailed'[c] > 0

LEMMA TouchKept ==
  ASSUME IInv, NEW p \in Passes, InRow(p), NEW c, c = Current(p).id, Touches(p, c),
         c \notin uncertain' => mailed'[c] <= 1 /\ HeldOnce(c)' /\ KeptOnce(c)'
  PROVE  IInv'
<1>1. /\ c \in 1..Len(row) /\ c \in Rows /\ Sent(p) \subseteq {c}
      /\ Len(row') = Len(row) /\ Len(row) \in Nat /\ 1..Len(row) \subseteq Rows
  BY InPass, RowIds DEF IInv, Touches, DeliverDoes
<1>2. UserInv' /\ DigestInv' /\ FailsInv' /\ InboxInv' /\ HistoryInv' /\ PassInv'
  BY DeliverKept DEF Touches, DeliverDoes
<1>3. OnceInv'
  <2>1. \A i \in Rows : i > Len(row') => mailed'[i] = 0
    BY <1>1 DEF IInv, OnceInv, Touches
  <2>2. ASSUME NEW i \in 1..Len(row'), i \notin uncertain'
        PROVE  mailed'[i] <= 1 /\ HeldOnce(i)' /\ KeptOnce(i)'
    <3>1. CASE i = c
      BY <2>2, <3>1
    <3>2. CASE i # c
      <4>1. i \in 1..Len(row) /\ i \in Rows
        BY <1>1, <2>2
      <4>2. row'[i] = row[i] /\ mailed'[i] = mailed[i]
        BY <3>2, <4>1 DEF Touches
      <4> QED
        BY <1>1, <2>2, <3>2, <4>1, <4>2, OthersStay DEF Touches
    <3> QED
      BY <3>1, <3>2
  <2> QED
    BY <2>1, <2>2 DEF OnceInv
<1>4. RecordedIsMailed'
  <2>1. ASSUME NEW i \in 1..Len(row')
        PROVE  /\ row'[i].delivered /\ row'[i].state = None => mailed'[i] > 0 \/ i \in excused'
               /\ row'[i].state = "sent" => mailed'[i] > 0
    <3>1. CASE i = c
      BY <3>1 DEF Touches
    <3>2. CASE i # c
      <4>1. i \in 1..Len(row) /\ i \in Rows
        BY <1>1, <2>1
      <4>2. row'[i] = row[i] /\ mailed'[i] = mailed[i] /\ excused \subseteq excused'
        BY <3>2, <4>1 DEF Touches
      <4> QED
        BY <4>1, <4>2 DEF IInv, RecordedIsMailed
    <3> QED
      BY <3>1, <3>2
  <2> QED
    BY <2>1 DEF RecordedIsMailed
<1> QED
  BY <1>2, <1>3, <1>4 DEF IInv

\* The pass lets go of its row.
LEMMA RowLeaves ==
  ASSUME IInv, NEW p \in Passes, InRow(p), NEW c, c = Current(p).id, Touches(p, c),
         c \notin Held(p)',
         c \notin uncertain' => /\ mailed'[c] <= 1
                                /\ ~row'[c].delivered /\ Exists(c) => mailed'[c] = 0
                                /\ row'[c].state = "pending" => mailed'[c] = 0
  PROVE  IInv'
<1>1. inbox' = inbox /\ digest' = digest /\ uncertain \subseteq uncertain' /\ OnePass(p)
  BY DEF Touches, DeliverDoes, Deliver
<1>2. c \in Held(p)
  BY InPass
<1>3. ASSUME c \notin uncertain'
      PROVE  mailed'[c] <= 1 /\ HeldOnce(c)' /\ KeptOnce(c)'
  <2>1. HeldOnce(c) /\ \A w \in Workers : c \notin digest[w].keep
    BY <1>1, <1>2, <1>3, HeldNotKept
  <2>2. \A q \in Passes : c \notin Held(q)'
    BY <1>1, <1>2, <2>1, OtherPasses DEF HeldOnce
  <2>3. HeldOnce(c)'
    BY <1>1, <1>3, <2>2 DEF HeldOnce, Exists
  <2>4. KeptOnce(c)'
    BY <1>1, <1>3, <2>1 DEF KeptOnce, Waiting
  <2> QED
    BY <1>3, <2>3, <2>4
<1> QED
  BY <1>3, TouchKept

\* Only the first row of what is left gets sent.
LEMMA FirstSent ==
  ASSUME InboxInv, HistoryInv, Ages, NEW s \in Seq(EntryRow), LeftOK(s),
         NEW t \in Seq(EntryRow), Len(t) = Len(s), s # <<>>,
         \A n \in 1..Len(s) : n # 1 => t[n] = s[n],
         t[1].id = s[1].id, t[1].deferred = s[1].deferred, t[1].mail, s[1].mail,
         mailed'[t[1].id] > 0
  PROVE  LeftOK(t)'
<1>1. LeftOK(s)' /\ Len(s) \in Nat \ {0} /\ 1 \in 1..Len(s)
  BY LeftStays
<1>2. ASSUME NEW n \in 1..Len(t) PROVE EntryOK(t[n])' /\ (n > 1 => ~t[n].sent)
  <2>1. CASE n = 1
    BY <1>1, <2>1 DEF LeftOK, EntryOK
  <2>2. CASE n # 1
    BY <1>1, <2>2 DEF LeftOK
  <2> QED
    BY <2>1, <2>2
<1>3. \A n \in 1..Len(t) : t[n].id = s[n].id
  OBVIOUS
<1>4. \A m, n \in 1..Len(t) : t[m].id = t[n].id => m = n
  BY <1>1, <1>3 DEF LeftOK
<1> QED
  BY <1>2, <1>4 DEF LeftOK

LEMMA SendKeeps ==
  ASSUME IInv, NEW p \in Passes, Send(p)
  PROVE  IInv'
<1>0. PICK c : c = Current(p).id
  OBVIOUS
<1> DEFINE left == pass[p].left
           e == [left[1] EXCEPT !.sent = TRUE]
           new == [left EXCEPT ![1] = e]
           r == [pass[p] EXCEPT !.left = new]
<1>1. InRow(p) /\ Current(p).mail /\ ~Current(p).sent
  BY DEF Send, ToMail
<1>2. /\ pass \in [Passes -> PassRow] /\ pass[p] \in PassRow /\ left \in Seq(EntryRow)
      /\ LeftOK(left) /\ Len(left) \in Nat \ {0} /\ left[1] \in EntryRow /\ EntryOK(left[1])
      /\ c \in 1..Len(row) /\ c \in Rows /\ c \in Held(p) /\ left[1].mail /\ c = left[1].id
  BY <1>0, <1>1, InPass DEF IInv, PassInv, Current
<1>3. /\ InboxInv /\ UserInv /\ HistoryInv /\ Deliver
      /\ UNCHANGED <<row, paused, excused, uncertain>>
      /\ mailed' = [mailed EXCEPT ![c] = mailed[c] + 1]
      /\ pass' = [pass EXCEPT ![p].left[1].sent = TRUE]
  BY <1>0 DEF IInv, Send
<1>4. /\ mailed' \in [Rows -> Nat] /\ mailed[c] \in Nat /\ mailed'[c] = mailed[c] + 1
      /\ \A i \in Rows : i # c => mailed'[i] = mailed[i]
  BY <1>2, <1>3 DEF HistoryInv
<1>5. \A i \in Rows : mailed[i] \in Nat /\ mailed[i] <= mailed'[i]
  BY <1>2, <1>3, <1>4 DEF HistoryInv
<1>6. Ages
  BY <1>3, <1>4, <1>5 DEF InboxInv, UserInv, Ages, Deliver, config
<1>7. DeliverDoes
  BY <1>3, <1>4, <1>6 DEF DeliverDoes, InboxInv, HistoryInv, UserInv, Deliver
<1>8. e \in EntryRow /\ e.id = c /\ e.sent /\ e.mail /\ e.deferred = left[1].deferred
  BY <1>2 DEF EntryRow
<1>9. pass' = [pass EXCEPT ![p] = r]
  BY <1>2, <1>3
<1> HIDE DEF e
<1>10. /\ new \in Seq(EntryRow) /\ Len(new) = Len(left) /\ new[1] = e
       /\ \A n \in 1..Len(left) : n # 1 => new[n] = left[n]
  BY <1>2, <1>8
<1> HIDE DEF new
<1>11. r \in PassRow /\ r.left = new
  BY <1>2, <1>10 DEF PassRow
<1> HIDE DEF r
<1>12. OnePass(p) /\ pass'[p].left = new
  BY <1>2, <1>9, <1>11 DEF OnePass
<1>13. \A n \in 1..Len(left) : new[n].id = left[n].id
  BY <1>2, <1>8, <1>10
<1>14. Held(p)' = Held(p)
  <2> HIDE DEF left
  <2> QED
    BY <1>10, <1>12, <1>13 DEF Held, left
<1>15. Sent(p)' = {c} /\ Sent(p) = {}
  <2>1. Sent(p) = {}
    BY <1>1 DEF Sent
  <2>2. new # <<>>
    BY <1>2, <1>10
  <2> QED
    BY <1>8, <1>10, <1>12, <2>1, <2>2 DEF Sent, InRow, Current
<1>16. PassInv'
  <2>1. \A s, t \in Seq(EntryRow) :
          (s = left /\ t = new) => (pass'[p].left = t => LeftOK(pass[p].left)')
    <3>1. ASSUME NEW s \in Seq(EntryRow), NEW t \in Seq(EntryRow), s = left, t = new,
                 pass'[p].left = t
          PROVE  LeftOK(pass[p].left)'
      <4>1. LeftOK(t)'
        <5>1. s # <<>> /\ Len(t) = Len(s) /\ \A n \in 1..Len(s) : n # 1 => t[n] = s[n]
          BY <1>2, <1>10, <3>1
        <5>2. t[1].id = s[1].id /\ t[1].deferred = s[1].deferred /\ t[1].mail /\ s[1].mail
              /\ mailed'[t[1].id] > 0
          BY <1>2, <1>4, <1>8, <1>10, <3>1
        <5>3. LeftOK(s)
          BY <1>2, <3>1
        <5> QED
          BY <1>3, <1>6, <5>1, <5>2, <5>3, FirstSent
      <4> QED
        BY <3>1, <4>1
    <3> QED
      BY <3>1
  <2>2. LeftOK(pass[p].left)'
    BY <1>2, <1>10, <1>12, <2>1
  <2>3. pass \in [Passes -> PassRow] /\ \A q \in Passes : LeftOK(pass[q].left)
    BY DEF IInv, PassInv
  <2>4. ASSUME NEW q \in Passes, q # p PROVE LeftOK(pass[q].left)'
    <3>1. \A s \in Seq(EntryRow) : LeftOK(s) /\ pass'[q].left = s => LeftOK(pass[q].left)'
      <4>1. ASSUME NEW s \in Seq(EntryRow), LeftOK(s), pass'[q].left = s
            PROVE  LeftOK(pass[q].left)'
        <5>1. LeftOK(s)'
          BY <1>3, <1>6, <4>1, LeftStays
        <5> QED
          BY <4>1, <5>1
      <4> QED
        BY <4>1
    <3>2. pass[q].left \in Seq(EntryRow) /\ pass'[q].left = pass[q].left
      BY <1>12, <2>3, <2>4 DEF OnePass, PassRow
    <3> QED
      BY <2>3, <3>1, <3>2
  <2> QED
    BY <1>12, <2>2, <2>4 DEF PassInv, OnePass
<1>17. row' = row /\ \A i \in 1..Len(row) : row'[i] = row[i]
  BY <1>3
<1>18. c \notin uncertain' => mailed'[c] <= 1 /\ HeldOnce(c)' /\ KeptOnce(c)'
  <2>1. ASSUME c \notin uncertain
        PROVE  mailed'[c] <= 1 /\ HeldOnce(c)' /\ KeptOnce(c)'
    <3>1. mailed[c] = 0
      BY <1>0, <1>1, <2>1, AtRow
    <3>2. HeldOnce(c) /\ ~row[c].delivered /\ row[c].state = None
          /\ \A w \in Workers : c \notin digest[w].keep
      BY <1>2, <2>1, HeldNotKept
    <3>3. mailed'[c] = 1
      BY <1>4, <3>1
    <3>4. \A q \in Passes : (c \in Held(q)' <=> c \in Held(q)) /\ (c \in Held(q) => q = p)
      BY <1>2, <1>12, <1>14, <3>2, OtherPasses DEF HeldOnce
    <3>5. HeldOnce(c)'
      <4>1. \A q \in Passes : c \in Held(q)' => c \in Sent(q)'
        BY <1>15, <3>4
      <4>2. c \in Held(p)'
        BY <1>2, <1>14
      <4> QED
        BY <1>3, <3>2, <3>3, <3>4, <4>1, <4>2 DEF HeldOnce
    <3>6. KeptOnce(c)'
      <4>1. digest' = digest /\ row' = row /\ inbox' = inbox
        BY <1>3 DEF Deliver
      <4> QED
        BY <3>2, <4>1 DEF KeptOnce, Waiting, None
    <3> QED
      BY <3>3, <3>5, <3>6
  <2> QED
    BY <1>3, <2>1
<1>19. Touches(p, c)
  BY <1>3, <1>4, <1>7, <1>12, <1>14, <1>15, <1>16, <1>17 DEF Touches
<1> QED
  BY <1>0, <1>1, <1>18, <1>19, TouchKept

\* A pass is done with its row, or ends.
LEMMA LetGo ==
  ASSUME IInv, NEW p \in Passes, InRow(p), NEW c, c = Current(p).id, DeliverDoes,
         EndRow(p) \/ pass' = [pass EXCEPT ![p] = NoPass],
         uncertain \subseteq uncertain', excused \subseteq excused',
         \A i \in 1..Len(row) : i # c => row'[i] = row[i],
         \A i \in Rows : i # c => mailed'[i] = mailed[i],
         row'[c].delivered /\ row'[c].state = None => mailed'[c] > 0 \/ c \in excused',
         row'[c].state = "sent" => mailed'[c] > 0,
         c \notin uncertain' => /\ mailed'[c] <= 1
                                /\ ~row'[c].delivered /\ Exists(c) => mailed'[c] = 0
                                /\ row'[c].state = "pending" => mailed'[c] = 0
  PROVE  IInv'
<1>1. /\ OnePass(p) /\ pass'[p].left \in {<<>>, Tail(pass[p].left)}
      /\ Held(p)' \subseteq Held(p) \ {c} /\ Sent(p)' = {}
  BY RowEnds, PassEnds
<1>2. PassInv'
  <2>1. \A q \in Passes : \/ pass'[q].left \in {pass[q].left, <<>>}
                          \/ pass[q].left # <<>> /\ pass'[q].left = Tail(pass[q].left)
    BY <1>1 DEF OnePass, InRow
  <2> QED
    BY <1>1, <2>1, PassStays DEF IInv, OnePass, DeliverDoes
<1>3. Touches(p, c)
  BY <1>1, <1>2 DEF Touches
<1> QED
  BY <1>1, <1>3, RowLeaves

LEMMA MarkDelivers ==
  ASSUME IInv, NEW p \in Passes, markDelivered(p)
  PROVE  IInv'
<1>0. PICK e : e = Current(p)
  OBVIOUS
<1>1. /\ InRow(p) /\ ~ToMail(p) /\ EndRow(p) /\ Deliver
      /\ row' = IF Exists(e.id)
                THEN [row EXCEPT ![e.id].delivered = TRUE,
                                 ![e.id].state = IF e.deferred THEN "pending" ELSE @]
                ELSE row
      /\ excused' = IF e.mail \/ e.deferred THEN excused ELSE excused \cup {e.id}
      /\ UNCHANGED <<paused, mailed, uncertain>>
  BY <1>0 DEF markDelivered
<1>2. PICK c : c = e.id
  OBVIOUS
<1>3. /\ InboxInv /\ UserInv /\ HistoryInv
      /\ e \in EntryRow /\ EntryOK(e) /\ c \in 1..Len(row) /\ c \in Rows /\ c \in Held(p)
      /\ row \in Seq(RowRow) /\ row[c] \in RowRow /\ RowOK(row[c]) /\ mailed[c] \in Nat
  BY <1>0, <1>1, <1>2, InPass, RowIds DEF IInv, InboxInv, HistoryInv
<1> DEFINE r == [[row[c] EXCEPT !.delivered = TRUE]
                   EXCEPT !.state = IF e.deferred THEN "pending" ELSE row[c].state]
<1>4. /\ r \in RowRow /\ r.delivered /\ r.kind = row[c].kind
      /\ r.state = IF e.deferred THEN "pending" ELSE row[c].state
  BY <1>3 DEF RowRow
<1>5. Exists(c) => row' = [row EXCEPT ![c] = r]
  BY <1>1, <1>2, <1>3
<1>6. ~Exists(c) => row' = row
  BY <1>1, <1>2
<1> HIDE DEF r
<1>7. RowOK(r) /\ (row[c].state # None => r.state # None)
  BY <1>2, <1>3, <1>4 DEF RowOK, EntryOK, None
<1>8. /\ InboxInv' /\ row' \in Seq(RowRow) /\ Len(row') = Len(row)
      /\ \A j \in 1..Len(row) : /\ j # c => row'[j] = row[j]
                                /\ row'[j].kind = row[j].kind
                                /\ row[j].state # None => row'[j].state # None
      /\ row'[c] = IF Exists(c) THEN r ELSE row[c]
  <2>0. inbox' = inbox /\ inbox \in Seq(1..Len(row))
    BY <1>1, <1>3 DEF Deliver, InboxInv
  <2>1. CASE Exists(c)
    BY <1>3, <1>4, <1>5, <1>7, <2>0, <2>1, RowSet
  <2>2. CASE ~Exists(c)
    BY <1>3, <1>6, <2>0, <2>2 DEF InboxInv
  <2> QED
    BY <2>1, <2>2
<1>9. excused \subseteq excused' /\ excused' \subseteq Rows
  BY <1>1, <1>2, <1>3 DEF HistoryInv
<1>10. Ages
  BY <1>1, <1>3, <1>8 DEF Ages, HistoryInv, UserInv, Deliver, config, InboxInv
<1>11. DeliverDoes
  BY <1>1, <1>3, <1>8, <1>9, <1>10 DEF DeliverDoes, HistoryInv, UserInv
<1>12. row'[c].delivered /\ row'[c].state = None => mailed'[c] > 0 \/ c \in excused'
  <2>1. CASE ~Exists(c)
    BY <1>1, <1>3, <1>8, <1>9, <2>1 DEF IInv, RecordedIsMailed
  <2>2. CASE Exists(c) /\ e.deferred
    BY <1>4, <1>8, <2>2 DEF None
  <2>3. CASE ~e.deferred /\ ~e.mail
    BY <1>1, <1>2, <2>3
  <2>4. CASE e.mail
    <3>1. e.sent
      BY <1>0, <1>1, <2>4 DEF ToMail
    <3> QED
      BY <1>1, <1>2, <1>3, <3>1 DEF EntryOK
  <2> QED
    BY <2>1, <2>2, <2>3, <2>4
<1>13. row'[c].state = "sent" => mailed'[c] > 0
  <2>1. row'[c].state = "sent" => row[c].state = "sent"
    BY <1>4, <1>8
  <2> QED
    BY <1>1, <1>3, <2>1 DEF IInv, RecordedIsMailed
<1>14. ASSUME c \notin uncertain'
       PROVE  /\ mailed'[c] <= 1
              /\ ~row'[c].delivered /\ Exists(c) => mailed'[c] = 0
              /\ row'[c].state = "pending" => mailed'[c] = 0
  <2>1. mailed[c] = IF e.sent THEN 1 ELSE 0
    BY <1>0, <1>1, <1>2, <1>14, AtRow
  <2>2. row[c].state = None
    BY <1>1, <1>3, <1>14, HeldNotKept
  <2>3. e.deferred => ~e.sent
    BY <1>3 DEF EntryOK
  <2>4. row'[c].state = "pending" => mailed'[c] = 0
    BY <1>1, <1>4, <1>8, <2>1, <2>2, <2>3 DEF None
  <2> QED
    BY <1>1, <1>4, <1>8, <2>1, <2>4
<1>15. c = Current(p).id
  BY <1>0, <1>2
<1>16. \A i \in 1..Len(row) : i # c => row'[i] = row[i]
  BY <1>8
<1>17. uncertain \subseteq uncertain' /\ \A i \in Rows : i # c => mailed'[i] = mailed[i]
  BY <1>1
<1> HIDE DEF EndRow, InRow, DeliverDoes
<1> QED
  BY <1>1, <1>9, <1>11, <1>12, <1>13, <1>14, <1>15, <1>16, <1>17, LetGo

LEMMA RowFailsKeeps ==
  ASSUME IInv, NEW p \in Passes, RowFails(p)
  PROVE  IInv'
<1>1. PICK c : c = Current(p).id
  OBVIOUS
<1>2. /\ InRow(p) /\ EndRow(p) /\ Deliver
      /\ row' = IF Exists(c) THEN [row EXCEPT ![c].attempts = @ + 1] ELSE row
      /\ \/ uncertain' = uncertain \cup Sent(p) /\ UNCHANGED mailed
         \/ mailed' = [mailed EXCEPT ![c] = mailed[c] + 1] /\ uncertain' = uncertain \cup {c}
      /\ UNCHANGED <<paused, excused>>
  BY <1>1 DEF RowFails
<1>3. /\ InboxInv /\ UserInv /\ HistoryInv
      /\ c \in 1..Len(row) /\ c \in Rows /\ c \in Held(p) /\ Sent(p) \subseteq {c}
      /\ row \in Seq(RowRow) /\ row[c] \in RowRow /\ RowOK(row[c]) /\ mailed[c] \in Nat
  BY <1>1, <1>2, InPass, RowIds DEF IInv, InboxInv, HistoryInv
<1> DEFINE r == [row[c] EXCEPT !.attempts = row[c].attempts + 1]
<1>4. /\ r \in RowRow /\ r.delivered = row[c].delivered /\ r.kind = row[c].kind
      /\ r.state = row[c].state
  <2>1. \A q \in RowRow :
           LET z == [q EXCEPT !.attempts = q.attempts + 1]
           IN  z \in RowRow /\ z.delivered = q.delivered /\ z.kind = q.kind /\ z.state = q.state
    BY DEF RowRow
  <2> QED
    BY <1>3, <2>1
<1>5. Exists(c) => row' = [row EXCEPT ![c] = r]
  BY <1>2, <1>3
<1>6. ~Exists(c) => row' = row
  BY <1>2
<1> HIDE DEF r
<1>7. RowOK(r)
  BY <1>3, <1>4 DEF RowOK
<1>8. /\ InboxInv' /\ row' \in Seq(RowRow) /\ Len(row') = Len(row)
      /\ \A j \in 1..Len(row) : /\ j # c => row'[j] = row[j]
                                /\ row'[j].kind = row[j].kind
                                /\ row[j].state # None => row'[j].state # None
      /\ row'[c].delivered = row[c].delivered /\ row'[c].state = row[c].state
  <2>0. inbox' = inbox /\ inbox \in Seq(1..Len(row))
    BY <1>2, <1>3 DEF Deliver, InboxInv
  <2>1. CASE Exists(c)
    BY <1>3, <1>4, <1>5, <1>7, <2>0, <2>1, RowSet
  <2>2. CASE ~Exists(c)
    BY <1>3, <1>6, <2>0, <2>2 DEF InboxInv
  <2> QED
    BY <2>1, <2>2
<1>9. /\ mailed' \in [Rows -> Nat] /\ mailed'[c] \in Nat /\ mailed[c] <= mailed'[c]
      /\ \A i \in Rows : mailed[i] \in Nat /\ (i # c => mailed'[i] = mailed[i])
      /\ uncertain \subseteq uncertain' /\ uncertain' \subseteq Rows
  BY <1>2, <1>3 DEF HistoryInv
<1>10. \A i \in Rows : mailed[i] <= mailed'[i]
  BY <1>9
<1>11. Ages
  BY <1>2, <1>3, <1>8, <1>9, <1>10 DEF Ages, UserInv, Deliver, config, InboxInv
<1>12. DeliverDoes
  BY <1>2, <1>3, <1>8, <1>9, <1>11 DEF DeliverDoes, HistoryInv, UserInv
<1>13. /\ row'[c].delivered /\ row'[c].state = None => mailed'[c] > 0 \/ c \in excused'
       /\ row'[c].state = "sent" => mailed'[c] > 0
  BY <1>2, <1>3, <1>8, <1>9 DEF IInv, RecordedIsMailed
<1>14. ASSUME c \notin uncertain'
       PROVE  mailed'[c] = 0
  <2>1. mailed' = mailed /\ c \notin Sent(p) /\ c \notin uncertain
    BY <1>2, <1>14
  <2>2. ~Current(p).sent
    BY <1>1, <1>2, <2>1, InPass
  <2> QED
    BY <1>1, <1>2, <2>1, <2>2, AtRow
<1> QED
  BY <1>1, <1>2, <1>8, <1>9, <1>12, <1>13, <1>14, LetGo

\* A pass that ends at a row, with nothing done to it.
LEMMA PassQuits ==
  ASSUME IInv, NEW p \in Passes, Throttled(p) \/ PassFails(p)
  PROVE  IInv'
<1>1. PICK c : c = Current(p).id
  OBVIOUS
<1>2. /\ InRow(p) /\ pass' = [pass EXCEPT ![p] = NoPass] /\ Deliver
      /\ UNCHANGED <<row, mailed, excused>>
  BY DEF Throttled, PassFails, ToMail, history
<1>3. /\ InboxInv /\ UserInv /\ HistoryInv
      /\ c \in 1..Len(row) /\ c \in Rows /\ c \in Held(p) /\ Sent(p) \subseteq {c}
  BY <1>1, <1>2, InPass DEF IInv
<1>4. uncertain \subseteq uncertain' /\ uncertain' \subseteq Rows
  BY <1>3 DEF Throttled, PassFails, HistoryInv, history
<1>5. paused' \in [Workers -> BOOLEAN]
  BY <1>3 DEF Throttled, PassFails, UserInv
<1>6. Ages
  BY <1>2, <1>3, AgesSame DEF Deliver, config
<1>7. DeliverDoes
  BY <1>2, <1>3, <1>4, <1>5, <1>6 DEF DeliverDoes, HistoryInv, InboxInv, Deliver
<1>8. /\ row'[c].delivered /\ row'[c].state = None => mailed'[c] > 0 \/ c \in excused'
      /\ row'[c].state = "sent" => mailed'[c] > 0
  BY <1>2, <1>3 DEF IInv, RecordedIsMailed
<1>9. ASSUME c \notin uncertain'
      PROVE  mailed'[c] = 0
  <2>1. c \notin uncertain
    BY <1>4, <1>9
  <2>2. ~Current(p).sent
    <3>1. CASE Throttled(p)
      BY <3>1 DEF Throttled, ToMail
    <3>2. CASE PassFails(p)
      BY <1>1, <1>2, <1>9, <3>2 DEF PassFails, Sent
    <3> QED
      BY <3>1, <3>2
  <2> QED
    BY <1>1, <1>2, <2>1, <2>2, AtRow
<1>10. /\ \A i \in 1..Len(row) : i # c => row'[i] = row[i]
       /\ \A i \in Rows : i # c => mailed'[i] = mailed[i]
       /\ excused \subseteq excused'
  BY <1>2
<1>11. c \notin uncertain' => /\ mailed'[c] <= 1
                              /\ ~row'[c].delivered /\ Exists(c) => mailed'[c] = 0
                              /\ row'[c].state = "pending" => mailed'[c] = 0
  BY <1>9
<1>12. EndRow(p) \/ pass' = [pass EXCEPT ![p] = NoPass]
  BY <1>2
<1> QED
  BY <1>1, <1>2, <1>4, <1>7, <1>8, <1>10, <1>11, <1>12, LetGo

\* A pass begins with rows that wait to be delivered, none sent.
LEMMA EntryIs ==
  ASSUME InboxInv, NEW i \in 1..Len(row)
  PROVE  /\ Entry(i) \in EntryRow /\ EntryOK(Entry(i)) /\ Entry(i).id = i /\ ~Entry(i).sent
<1> DEFINE k == row[i].kind
           deferred == isDigestDeferred(k)
           mail == External(k) /\ transport /\ user.optedIn /\ ~deferred
           external == External(k)
<1>1. deferred \in BOOLEAN
  BY DEF isDigestDeferred
<1>2. mail \in BOOLEAN
  OBVIOUS
<1>3. external \in BOOLEAN
  BY DEF External
<1>4. deferred => k # "message" /\ ~mail
  BY DEF isDigestDeferred
<1>5. i \in Nat
  OBVIOUS
<1>6. Entry(i) = [id |-> i, deferred |-> deferred, mail |-> mail, external |-> external,
                  sent |-> FALSE]
  BY DEF Entry
<1> HIDE DEF k, deferred, mail, external
<1>7. /\ Entry(i) \in EntryRow /\ Entry(i).id = i /\ ~Entry(i).sent
      /\ Entry(i).deferred = deferred /\ Entry(i).mail = mail
  BY <1>1, <1>2, <1>3, <1>5, <1>6 DEF EntryRow
<1>8. EntryOK(Entry(i))
  BY <1>4, <1>7 DEF EntryOK, k
<1> QED
  BY <1>7, <1>8

LEMMA DeliverKeeps ==
  ASSUME IInv, NEW p \in Passes, deliverPendingNotifications(p)
  PROVE  IInv'
<1>1. PICK at \in Batches :
        /\ pass' = [pass EXCEPT ![p] = [worker |-> leader,
                        left |-> [n \in 1..Len(at) |-> Entry(inbox[at[n]])]]]
        /\ uncertain' = uncertain \cup
               ({inbox[k] : k \in Range(at)} \cap UNION {Held(o) : o \in Passes})
  BY DEF deliverPendingNotifications
<1>2. /\ pass[p] = NoPass /\ Deliver /\ UNCHANGED <<row, paused, mailed, excused>>
      /\ InboxInv /\ UserInv /\ HistoryInv /\ PassInv /\ DigestInv /\ OnceInv /\ FailsInv
      /\ RecordedIsMailed
  BY DEF deliverPendingNotifications, IInv
<1> DEFINE N == Len(at)
           id(n) == inbox[at[n]]
           left == [n \in 1..N |-> Entry(id(n))]
           r == [worker |-> leader, left |-> left]
           ids == {id(n) : n \in 1..N}
<1>3. /\ N \in Nat \ {0}
      /\ \A n \in 1..N : id(n) \in 1..Len(row) /\ Exists(id(n)) /\ ~row[id(n)].delivered
      /\ \A m, n \in 1..N : id(m) = id(n) => m = n
      /\ {inbox[k] : k \in Range(at)} = ids
  <2>1. Range(at) = {at[n] : n \in 1..N}
    BY <1>2, BatchIs
  <2>2. {inbox[k] : k \in Range(at)} = ids
    BY <2>1
  <2>3. /\ N \in Nat \ {0}
        /\ \A n \in 1..N : id(n) \in 1..Len(row) /\ Exists(id(n)) /\ ~row[id(n)].delivered
        /\ \A m, n \in 1..N : id(m) = id(n) => m = n
    BY <1>2, BatchIs
  <2> QED
    BY <2>2, <2>3
<1>4. /\ pass' = [pass EXCEPT ![p] = r]
      /\ uncertain' = uncertain \cup (ids \cap UNION {Held(o) : o \in Passes})
  BY <1>1, <1>3
<1> HIDE DEF id
<1>5. \A n \in 1..N : /\ Entry(id(n)) \in EntryRow /\ EntryOK(Entry(id(n)))
                      /\ Entry(id(n)).id = id(n) /\ ~Entry(id(n)).sent
  BY <1>2, <1>3, EntryIs
<1>6. /\ left \in Seq(EntryRow) /\ Len(left) = N
      /\ \A n \in 1..N : /\ left[n] \in EntryRow /\ EntryOK(left[n])
                         /\ left[n].id = id(n) /\ ~left[n].sent
  BY <1>3, <1>5
<1> HIDE DEF left
<1>7. LeftOK(left)
  BY <1>3, <1>6 DEF LeftOK
<1>8. r \in PassRow /\ r.left = left
  <2>1. leader \in Workers
    BY <1>2 DEF UserInv
  <2> QED
    BY <1>6, <2>1 DEF PassRow
<1> HIDE DEF r
<1>9. OnePass(p) /\ pass'[p].left = left
  BY <1>2, <1>4, <1>8 DEF OnePass, PassInv
<1>10. Held(p)' = ids /\ Sent(p)' = {} /\ Held(p) = {} /\ Sent(p) = {}
  <2>1. Held(p)' = ids
    BY <1>6, <1>9 DEF Held
  <2>2. left # <<>> /\ ~left[1].sent
    BY <1>3, <1>6
  <2>3. Sent(p)' = {}
    BY <1>9, <2>2 DEF Sent, Current, InRow
  <2>4. Held(p) = {} /\ Sent(p) = {}
    <3>1. pass[p].left = <<>>
      BY <1>2, NoPassIs
    <3> QED
      BY <3>1 DEF Held, Sent, InRow
  <2> QED
    BY <2>1, <2>3, <2>4
<1>11. ids \subseteq 1..Len(row) /\ 1..Len(row) \subseteq Rows
  BY <1>2, <1>3, RowIds
<1> HIDE DEF ids
<1>12. uncertain \subseteq uncertain' /\ uncertain' \subseteq Rows
  BY <1>2, <1>4, <1>11 DEF HistoryInv
<1>13. Ages
  BY <1>2, AgesSame DEF Deliver, config
<1>14. DeliverDoes
  BY <1>2, <1>12, <1>13 DEF DeliverDoes, HistoryInv, InboxInv, Deliver, UserInv
<1>15. UserInv' /\ DigestInv' /\ FailsInv' /\ InboxInv' /\ HistoryInv'
  BY <1>14, DeliverKept DEF DeliverDoes
<1>16. PassInv'
  <2>1. ASSUME NEW q \in Passes PROVE LeftOK(pass[q].left)'
    <3>1. \A s \in Seq(EntryRow) : LeftOK(s) /\ pass'[q].left = s => LeftOK(pass[q].left)'
      <4>1. ASSUME NEW s \in Seq(EntryRow), LeftOK(s), pass'[q].left = s
            PROVE  LeftOK(pass[q].left)'
        <5>1. LeftOK(s)'
          BY <1>2, <1>13, <4>1, LeftStays
        <5> QED
          BY <4>1, <5>1
      <4> QED
        BY <4>1
    <3>2. CASE q = p
      BY <1>6, <1>7, <1>9, <3>1, <3>2
    <3>3. CASE q # p
      <4>1. /\ pass[q].left \in Seq(EntryRow) /\ LeftOK(pass[q].left)
            /\ pass'[q].left = pass[q].left
        BY <1>2, <1>9, <3>3 DEF OnePass, PassInv, PassRow
      <4> QED
        BY <3>1, <4>1
    <3> QED
      BY <3>2, <3>3
  <2> QED
    BY <1>9, <2>1 DEF PassInv, OnePass
<1>17. OnceInv'
  <2>1. ASSUME NEW i \in 1..Len(row), i \notin uncertain'
        PROVE  mailed'[i] <= 1 /\ HeldOnce(i)' /\ KeptOnce(i)'
    <3>1. i \notin uncertain /\ mailed[i] <= 1 /\ HeldOnce(i) /\ KeptOnce(i)
          /\ mailed' = mailed /\ row' = row /\ inbox' = inbox /\ digest' = digest
      BY <1>2, <1>12, <2>1 DEF OnceInv, Deliver
    <3>2. i \in Held(p)' => \A o \in Passes : i \notin Held(o)
      BY <1>4, <1>10, <2>1
    <3>3. \A q \in Passes \ {p} : Held(q)' = Held(q) /\ Sent(q)' = Sent(q)
      BY <1>9, OtherPasses
    <3>4. i \in Held(p)' => ~row[i].delivered /\ Exists(i)
      BY <1>3, <1>10 DEF ids
    <3>5. i \in Held(p)' => mailed[i] = 0
      BY <3>1, <3>2, <3>4 DEF HeldOnce
    <3>6. \A q, o \in Passes : i \in Held(q)' /\ i \in Held(o)' => q = o
      BY <3>1, <3>2, <3>3 DEF HeldOnce
    <3>7. \A q \in Passes : i \in Held(q)' =>
            ~row'[i].delivered /\ mailed'[i] = IF i \in Sent(q)' THEN 1 ELSE 0
      <4>1. ASSUME NEW q \in Passes, i \in Held(q)'
            PROVE  ~row'[i].delivered /\ mailed'[i] = IF i \in Sent(q)' THEN 1 ELSE 0
        <5>1. CASE q = p
          BY <1>10, <3>1, <3>4, <3>5, <4>1, <5>1
        <5>2. CASE q # p
          BY <3>1, <3>3, <4>1, <5>2 DEF HeldOnce
        <5> QED
          BY <5>1, <5>2
      <4> QED
        BY <4>1
    <3>8. ~row'[i].delivered /\ Exists(i)' /\ (\A q \in Passes : i \notin Held(q)')
            => mailed'[i] = 0
      <4>1. (\A q \in Passes : i \notin Held(q)') => \A q \in Passes : i \notin Held(q)
        BY <1>10, <3>3
      <4> QED
        BY <3>1, <4>1 DEF HeldOnce, Exists
    <3>9. KeptOnce(i)'
      <4>1. i \in Waiting' => i \in Waiting
        BY <3>1 DEF Waiting
      <4>2. \A w \in Workers : /\ (ToSend(w)' <=> ToSend(w))
                               /\ (i \in SentIn(w)' <=> i \in SentIn(w))
        BY <3>1 DEF ToSend, SentIn, At
      <4> QED
        BY <3>1, <4>1, <4>2, KeptStays
    <3> QED
      BY <3>1, <3>6, <3>7, <3>8, <3>9 DEF HeldOnce
  <2>2. \A i \in Rows : i > Len(row') => mailed'[i] = 0
    BY <1>2 DEF OnceInv
  <2>3. row' = row
    BY <1>2
  <2> QED
    BY <2>1, <2>2, <2>3 DEF OnceInv
<1>18. RecordedIsMailed'
  BY <1>2 DEF RecordedIsMailed
<1> QED
  BY <1>15, <1>16, <1>17, <1>18 DEF IInv

-----------------------------------------------------------------------------
(* The digest sweep *)

LEMMA AtIs ==
  ASSUME IInv, NEW w \in Workers, NEW step, At(w, step)
  PROVE  /\ digest \in [Workers -> DigestRow] /\ digest[w] \in DigestRow /\ DigestOK(digest[w])
         /\ digest[w].todo # <<>>
         /\ step = "load" => digest[w].todo = <<"load">> /\ digest[w].keep = {}
         /\ step = "drop" => /\ digest[w].todo \in {<<"drop", "send">>, <<"drop", "stamp">>}
                             /\ Rest(w) \in {<<"send">>, <<"stamp">>}
                             /\ Rest(w) = <<"send">> => ToSend(w)
         /\ step = "send" => digest[w].todo = <<"send">> /\ ToSend(w)
         /\ step = "settle" => digest[w].todo = <<"settle", "stamp">> /\ Rest(w) = <<"stamp">>
         /\ step = "stamp" => digest[w].todo = <<"stamp">> /\ Rest(w) = <<>>
         /\ step # "settle" => SentIn(w) = {}
<1>1. digest \in [Workers -> DigestRow] /\ digest[w] \in DigestRow /\ DigestOK(digest[w])
  BY DEF IInv, DigestInv
<1>2. PICK todo \in Todos : todo = digest[w].todo
  BY <1>1 DEF DigestRow
<1>3. todo # <<>> /\ Head(todo) = step
  BY <1>2 DEF At
<1>4. /\ step = "load" => todo = <<"load">>
      /\ step = "send" => todo = <<"send">>
      /\ step = "settle" => todo = <<"settle", "stamp">>
      /\ step = "stamp" => todo = <<"stamp">>
      /\ step = "drop" => todo \in {<<"drop", "send">>, <<"drop", "stamp">>}
  BY <1>3 DEF Todos
<1>5. /\ step = "drop" => Tail(todo) \in {<<"send">>, <<"stamp">>}
      /\ step = "drop" /\ Tail(todo) = <<"send">> => todo = <<"drop", "send">>
      /\ step = "settle" => Tail(todo) = <<"stamp">>
      /\ step = "stamp" => Tail(todo) = <<>>
  <2>1. /\ Tail(<<"drop", "send">>) = <<"send">> /\ Tail(<<"drop", "stamp">>) = <<"stamp">>
        /\ Tail(<<"settle", "stamp">>) = <<"stamp">> /\ Tail(<<"stamp">>) = <<>>
    OBVIOUS
  <2>2. <<"send">> # <<"stamp">>
    OBVIOUS
  <2>3. CASE step = "drop"
    BY <1>4, <2>1, <2>2, <2>3
  <2>4. CASE step = "settle"
    BY <1>4, <2>1, <2>4
  <2>5. CASE step = "stamp"
    BY <1>4, <2>1, <2>5
  <2> QED
    BY <2>3, <2>4, <2>5
<1>6. step # "settle" => SentIn(w) = {}
  BY <1>2, <1>3 DEF SentIn, At
<1>7. step = "load" => digest[w].keep = {}
  BY <1>1, <1>2, <1>4 DEF DigestOK
<1> QED
  BY <1>1, <1>2, <1>3, <1>4, <1>5, <1>6, <1>7 DEF ToSend, Rest

LEMMA TodosAre ==
  /\ {<<>>, <<"load">>, <<"stamp">>, <<"drop", "send">>, <<"drop", "stamp">>, <<"send">>,
      <<"settle", "stamp">>} \subseteq Todos
  /\ <<"settle", "stamp">> \notin {<<>>, <<"load">>, <<"stamp">>, <<"drop", "send">>,
                                   <<"drop", "stamp">>, <<"send">>}
  /\ {<<"stamp">>, <<"drop", "send">>, <<"drop", "stamp">>, <<"send">>, <<"settle", "stamp">>}
       \cap {<<>>, <<"load">>} = {}
  /\ {<<>>, <<"load">>, <<"stamp">>, <<"drop", "stamp">>, <<"settle", "stamp">>}
       \cap {<<"drop", "send">>, <<"send">>} = {}
<1> DEFINE a == <<"load">>
           b == <<"stamp">>
           c == <<"drop", "send">>
           d == <<"drop", "stamp">>
           e == <<"send">>
           f == <<"settle", "stamp">>
<1>1. Len(a) = 1 /\ Len(b) = 1 /\ Len(c) = 2 /\ Len(d) = 2 /\ Len(e) = 1 /\ Len(f) = 2
      /\ Len(<<>>) = 0
  OBVIOUS
<1>2. a[1] = "load" /\ b[1] = "stamp" /\ e[1] = "send" /\ c[1] = "drop" /\ d[1] = "drop"
      /\ f[1] = "settle" /\ c[2] = "send" /\ d[2] = "stamp"
  OBVIOUS
<1> HIDE DEF a, b, c, d, e, f
<1>3. /\ f \notin {<<>>, a, b, c, d, e} /\ {b, c, d, e, f} \cap {<<>>, a} = {}
      /\ {<<>>, a, b, d, f} \cap {c, e} = {}
  BY <1>1, <1>2
<1> QED
  BY <1>3 DEF a, b, c, d, e, f, Todos

LEMMA NoDigestIs ==
  /\ NoDigest \in DigestRow /\ NoDigest.todo = <<>> /\ NoDigest.keep = {} /\ NoDigest.slot = 0
  /\ NoDigest.failures = 0
BY TodosAre DEF NoDigest, DigestRow, Modes, None

\* A sweep gets to another step, or ends.
LEMMA GotoIs ==
  ASSUME digest \in [Workers -> DigestRow], NEW w \in Workers, NEW d \in DigestRow,
         NEW todo \in Todos, Goto(w, d, todo)
  PROVE  /\ digest' \in [Workers -> DigestRow] /\ digest'[w] \in DigestRow
         /\ \A v \in Workers \ {w} : digest'[v] = digest[v]
         /\ digest'[w].todo = todo
         /\ todo = <<>> => digest'[w] = NoDigest
         /\ todo # <<>> => /\ digest'[w].keep = d.keep /\ digest'[w].slot = d.slot
                           /\ digest'[w].as = d.as /\ digest'[w].failures = d.failures
<1> DEFINE e == [d EXCEPT !.todo = todo]
           new == IF todo = <<>> THEN NoDigest ELSE e
<1>1. /\ e \in DigestRow /\ e.todo = todo /\ e.keep = d.keep /\ e.slot = d.slot /\ e.as = d.as
      /\ e.failures = d.failures
  BY DEF DigestRow
<1>2. digest' = [digest EXCEPT ![w] = new]
  BY DEF Goto
<1> HIDE DEF e
<1>3. new \in DigestRow /\ new.todo = todo
  BY <1>1, NoDigestIs
<1>4. digest'[w] = new /\ digest' \in [Workers -> DigestRow]
      /\ \A v \in Workers \ {w} : digest'[v] = digest[v]
  BY <1>2, <1>3
<1> QED
  BY <1>1, <1>3, <1>4

\* Rows get settled: no other column changes, none waits anew.
RowsKept ==
    /\ InboxInv' /\ inbox' = inbox /\ row' \in Seq(RowRow) /\ Len(row') = Len(row)
    /\ \A i \in 1..Len(row) :
         /\ row'[i].kind = row[i].kind /\ row'[i].delivered = row[i].delivered
         /\ row'[i].state = None <=> row[i].state = None
         /\ row'[i].state = "sent" => row[i].state = "sent" \/ mailed[i] > 0
    /\ Waiting' \subseteq Waiting

LEMMA WaitingIs ==
  ASSUME InboxInv
  PROVE  \A i \in Waiting : i \in 1..Len(row) /\ row[i].state = "pending"
BY SetOf DEF InboxInv, Waiting

LEMMA SettleDoes ==
  ASSUME InboxInv, inbox' = inbox, NEW S, NEW as \in {"sent", "dropped"}, Settle(S, as),
         as = "sent" => \A i \in S : mailed[i] > 0
  PROVE  RowsKept /\ \A i \in S : i \notin Waiting'
<1> DEFINE W == S \cap Waiting
           r(i) == IF i \in W THEN [row[i] EXCEPT !.state = as] ELSE row[i]
<1>1. row \in Seq(RowRow) /\ DOMAIN row = 1..Len(row) /\ Len(row) \in Nat
  BY DEF InboxInv
<1>2. row' = [i \in 1..Len(row) |-> r(i)]
  BY <1>1 DEF Settle
<1>3. \A i \in 1..Len(row) : row[i] \in RowRow /\ RowOK(row[i])
  BY <1>1 DEF InboxInv
<1>4. \A i \in W : i \in 1..Len(row) /\ row[i].state = "pending"
  BY WaitingIs
<1>5. ASSUME NEW i \in 1..Len(row)
      PROVE  /\ r(i) \in RowRow /\ r(i).kind = row[i].kind /\ r(i).delivered = row[i].delivered
             /\ r(i).state = IF i \in W THEN as ELSE row[i].state
  BY <1>3 DEF RowRow
<1> HIDE DEF r, W
<1>6. /\ row' \in Seq(RowRow) /\ Len(row') = Len(row)
      /\ \A i \in 1..Len(row) : row'[i] = r(i)
  <2>1. \A i \in 1..Len(row) : r(i) \in RowRow
    BY <1>5
  <2>2. row' \in [1..Len(row) -> RowRow] /\ \A i \in 1..Len(row) : row'[i] = r(i)
    BY <1>2, <2>1
  <2> QED
    BY <1>1, <2>2
<1>7. \A i \in 1..Len(row) :
        /\ row'[i].kind = row[i].kind /\ row'[i].delivered = row[i].delivered
        /\ row'[i].state = IF i \in W THEN as ELSE row[i].state
  BY <1>5, <1>6
<1>8. \A i \in 1..Len(row) : row'[i].state = None <=> row[i].state = None
  BY <1>4, <1>7 DEF None
<1>9. \A i \in 1..Len(row) : row'[i].state = "sent" => row[i].state = "sent" \/ mailed[i] > 0
  BY <1>7 DEF W
<1>10. InboxInv'
  <2>1. \A i \in 1..Len(row') : RowOK(row'[i])
    BY <1>3, <1>6, <1>7, <1>8 DEF RowOK
  <2> QED
    BY <1>6, <2>1 DEF InboxInv
<1>11. \A i \in Waiting' : i \in Waiting /\ i \notin S
  <2>1. ASSUME NEW i \in Waiting' PROVE i \in Waiting /\ i \notin S
    <3>1. i \in ToSet(inbox) /\ row'[i].state = "pending"
      BY <2>1 DEF Waiting
    <3>2. i \in 1..Len(row)
      BY <3>1, SetOf DEF InboxInv
    <3>3. i \notin W /\ row[i].state = "pending"
      BY <1>7, <3>1, <3>2
    <3> QED
      BY <3>1, <3>3 DEF Waiting, W
  <2> QED
    BY <2>1
<1> QED
  BY <1>6, <1>7, <1>8, <1>9, <1>10, <1>11 DEF RowsKept

LEMMA NoRowSettles ==
  ASSUME InboxInv, inbox' = inbox, row' = row
  PROVE  RowsKept
BY DEF InboxInv, RowsKept, Waiting

\* One digest changes, if any, of worker w; rows are settled, and mails added to those kept.
SweepDoes(w) ==
    /\ Sweeps /\ RowsKept /\ UserInv' /\ HistoryInv' /\ FailsInv'
    /\ \A i \in Rows : mailed[i] <= mailed'[i]
    /\ \A i \in Rows : mailed'[i] = mailed[i] \/ i \in digest[w].keep
    /\ UNCHANGED excused /\ uncertain \subseteq uncertain'
    /\ digest' \in [Workers -> DigestRow]
    /\ \A v \in Workers \ {w} : digest'[v] = digest[v]

LEMMA SweepAges ==
  ASSUME IInv, NEW w \in Workers, SweepDoes(w)
  PROVE  /\ Ages /\ InboxInv' /\ slot' = slot /\ pass' = pass /\ inbox' = inbox
         /\ Len(row') = Len(row) /\ Len(row) \in Nat /\ 1..Len(row) \subseteq Rows
         /\ \A i \in 1..Len(row) : mailed[i] \in Nat /\ mailed'[i] \in Nat
<1>1. InboxInv /\ UserInv /\ HistoryInv
  BY DEF IInv
<1>2. Len(row) \in Nat /\ 1..Len(row) \subseteq Rows
  BY <1>1, RowIds
<1>3. slot' = slot /\ slot \in Nat /\ pass' = pass /\ inbox' = inbox
  BY <1>1 DEF SweepDoes, Sweeps, config, UserInv
<1>4. Ages
  BY <1>2, <1>3 DEF Ages, SweepDoes, RowsKept, HistoryInv
<1>5. \A i \in 1..Len(row) : mailed[i] \in Nat /\ mailed'[i] \in Nat
  BY <1>1, <1>2 DEF HistoryInv, SweepDoes
<1> QED
  BY <1>2, <1>3, <1>4, <1>5 DEF SweepDoes, RowsKept

\* A row that a digest keeps is delivered and in no pass, unless it is uncertain.
LEMMA KeptIs ==
  ASSUME IInv, NEW w \in Workers, NEW i \in digest[w].keep
  PROVE  i \in 1..Len(row) /\ i \in Rows /\ row[i].delivered
<1>1. i \in 1..Len(row) /\ row[i].state # None
  BY DEF IInv, DigestInv, DigestOK
<1>2. RowOK(row[i]) /\ i \in Rows
  BY <1>1, RowIds DEF IInv
<1> QED
  BY <1>1, <1>2 DEF RowOK

LEMMA SweepKept ==
  ASSUME IInv, NEW w \in Workers, SweepDoes(w), DigestOK(digest[w])',
         \A i \in 1..Len(row) : i \notin uncertain' => mailed'[i] <= 1 /\ KeptOnce(i)'
  PROVE  IInv'
<1>1. /\ Ages /\ InboxInv' /\ slot' = slot /\ pass' = pass /\ inbox' = inbox
      /\ Len(row') = Len(row) /\ Len(row) \in Nat /\ 1..Len(row) \subseteq Rows
      /\ \A i \in 1..Len(row) : mailed[i] \in Nat /\ mailed'[i] \in Nat
  BY SweepAges
<1>2. /\ InboxInv /\ UserInv /\ HistoryInv /\ PassInv /\ DigestInv /\ OnceInv /\ FailsInv
      /\ RecordedIsMailed
  BY DEF IInv
<1>3. UserInv' /\ HistoryInv' /\ FailsInv'
  BY DEF SweepDoes
<1>4. PassInv'
  BY <1>1, <1>2, PassStays DEF PassInv
<1>5. DigestInv'
  <2>1. ASSUME NEW v \in Workers, v # w PROVE DigestOK(digest[v])'
    BY <1>1, <1>2, <2>1, DigestStays DEF SweepDoes
  <2> QED
    BY <2>1 DEF DigestInv, SweepDoes
<1>6. RecordedIsMailed'
  <2>1. ASSUME NEW i \in 1..Len(row')
        PROVE  /\ row'[i].delivered /\ row'[i].state = None => mailed'[i] > 0 \/ i \in excused'
               /\ row'[i].state = "sent" => mailed'[i] > 0
    <3>1. i \in 1..Len(row) /\ mailed[i] \in Nat /\ mailed'[i] \in Nat /\ mailed[i] <= mailed'[i]
      BY <1>1, <2>1 DEF Ages
    <3>2. mailed[i] > 0 => mailed'[i] > 0
      BY <3>1
    <3>3. /\ row'[i].delivered = row[i].delivered
          /\ row'[i].state = None <=> row[i].state = None
          /\ row'[i].state = "sent" => row[i].state = "sent" \/ mailed[i] > 0
      BY <3>1 DEF SweepDoes, RowsKept
    <3> QED
      BY <1>2, <3>1, <3>2, <3>3 DEF RecordedIsMailed, SweepDoes
  <2> QED
    BY <2>1 DEF RecordedIsMailed
<1>7. OnceInv'
  <2>1. \A i \in Rows : i > Len(row') => mailed'[i] = 0
    <3>1. ASSUME NEW i \in Rows, i > Len(row') PROVE mailed'[i] = 0
      <4>1. i \notin 1..Len(row) /\ i > Len(row)
        BY <1>1, <3>1
      <4>2. i \notin digest[w].keep
        BY <4>1, KeptIs
      <4> QED
        BY <1>2, <4>1, <4>2 DEF SweepDoes, OnceInv
    <3> QED
      BY <3>1
  <2>2. \A q : Held(q)' = Held(q) /\ Sent(q)' = Sent(q)
    BY <1>1 DEF Held, Sent, InRow, Current
  <2>3. ASSUME NEW i \in 1..Len(row'), i \notin uncertain'
        PROVE  HeldOnce(i)'
    <3>1. i \in 1..Len(row) /\ i \in Rows /\ i \notin uncertain
      BY <1>1, <2>3 DEF SweepDoes
    <3>2. HeldOnce(i) /\ row'[i].delivered = row[i].delivered
      BY <1>2, <3>1 DEF OnceInv, SweepDoes, RowsKept
    <3>3. CASE mailed'[i] = mailed[i]
      BY <1>1, <2>2, <3>1, <3>2, <3>3, HeldStays DEF Exists
    <3>4. CASE row[i].delivered
      BY <2>2, <3>2, <3>4 DEF HeldOnce
    <3> QED
      BY <3>1, <3>3, <3>4, KeptIs DEF SweepDoes
  <2> QED
    BY <1>1, <2>1, <2>3 DEF OnceInv
<1> QED
  BY <1>1, <1>3, <1>4, <1>5, <1>6, <1>7 DEF IInv

\* Nothing is mailed: a row that stays in a digest, or leaves it, or its state, is where it was.
LEMMA KeptLess ==
  ASSUME IInv, NEW w \in Workers, SweepDoes(w), NEW i \in 1..Len(row), i \notin uncertain',
         mailed'[i] = mailed[i],
         i \in digest'[w].keep => i \in digest[w].keep,
         ToSend(w)' => ToSend(w) \/ i \notin digest'[w].keep,
         i \in SentIn(w) => i \notin Waiting'
  PROVE  mailed'[i] <= 1 /\ KeptOnce(i)'
<1>1. i \notin uncertain /\ mailed[i] <= 1 /\ KeptOnce(i)
  BY DEF IInv, OnceInv, SweepDoes
<1>2. i \in Waiting' => i \in Waiting
  BY DEF SweepDoes, RowsKept
<1>3. ASSUME NEW v \in Workers
      PROVE  /\ i \in digest'[v].keep => i \in digest[v].keep
             /\ i \in digest'[v].keep /\ ToSend(v)' => ToSend(v)
             /\ i \in Waiting' /\ i \in SentIn(v) => i \in SentIn(v)'
  <2>1. CASE v = w
    BY <2>1
  <2>2. CASE v # w
    <3>1. digest'[v] = digest[v]
      BY <2>2 DEF SweepDoes
    <3> QED
      BY <3>1 DEF ToSend, SentIn, At
  <2> QED
    BY <2>1, <2>2
<1> QED
  BY <1>1, <1>2, <1>3, KeptStays

\* The failures of the user grow no further.
LEMMA NoFailure ==
  ASSUME IInv, NEW w \in Workers, UserInv', user'.failures <= user.failures,
         \A v \in Workers \ {w} : digest'[v] = digest[v],
         digest'[w].todo = <<>> \/ /\ digest[w].todo # <<>>
                                   /\ digest'[w].failures = digest[w].failures
  PROVE  FailsInv'
<1>1. \A v \in Workers : v \in MayFail' => v \in MayFail
  BY DEF MayFail
<1>2. MayFail' \subseteq MayFail
  BY <1>1 DEF MayFail
<1> QED
  BY <1>2, FailsStays DEF IInv

\* The digest gets on with what it has.
LEMMA DigestGoesOn ==
  ASSUME IInv, NEW w \in Workers, SweepDoes(w),
         digest'[w].slot <= slot, digest'[w].keep \subseteq digest[w].keep,
         digest'[w].todo \in {<<>>, <<"load">>} => digest'[w].keep = {},
         digest'[w].todo = <<"settle", "stamp">> =>
           /\ digest'[w].as \in {"sent", "dropped"}
           /\ digest'[w].as = "sent" => \A i \in digest[w].keep : mailed'[i] > 0
  PROVE  DigestOK(digest[w])'
<1>1. slot' = slot /\ Len(row') = Len(row)
  BY SweepAges
<1>2. \A i \in digest[w].keep : i \in 1..Len(row) /\ row[i].state # None
  BY DEF IInv, DigestInv, DigestOK
<1>3. \A i \in digest'[w].keep : i \in 1..Len(row') /\ row'[i].state # None
  BY <1>1, <1>2 DEF SweepDoes, RowsKept
<1> QED
  BY <1>1, <1>3 DEF DigestOK

LEMMA SweepBegins ==
  ASSUME IInv, NEW w \in Workers, runDigestSweep(w)
  PROVE  IInv'
<1>1. /\ digest[w].todo = <<>> /\ Sweeps
      /\ UNCHANGED <<user, paused, events, mailed, excused, uncertain>>
      /\ InboxInv /\ UserInv /\ HistoryInv /\ DigestInv /\ FailsInv
  BY DEF runDigestSweep, IInv, history
<1>2. inbox' = inbox /\ slot' = slot
  BY <1>1 DEF Sweeps, config
<1>3. UserInv' /\ HistoryInv' /\ user'.failures <= user.failures
  BY <1>1 DEF UserInv, HistoryInv, Sweeps, config, UserRow
<1>4. SentIn(w) = {}
  BY <1>1 DEF SentIn, At
<1>5. \A i \in Rows : mailed[i] <= mailed'[i] /\ mailed'[i] = mailed[i]
  BY <1>1 DEF HistoryInv
<1>6. CASE Settle(Waiting, "dropped") /\ digest' = digest
  <2>1. RowsKept
    BY <1>1, <1>2, <1>6, SettleDoes
  <2>2. FailsInv'
    BY <1>3, <1>1, <1>6, NoFailure
  <2>3. SweepDoes(w)
    BY <1>1, <1>3, <1>5, <1>6, <2>1, <2>2 DEF SweepDoes, DigestInv
  <2>4. DigestOK(digest[w])'
    BY <1>1, <1>6, <2>3, SweepAges, DigestStays
  <2>5. \A i \in 1..Len(row) : i \notin uncertain' => mailed'[i] <= 1 /\ KeptOnce(i)'
    BY <1>1, <1>4, <1>6, <2>3, KeptLess DEF ToSend
  <2> QED
    BY <2>3, <2>4, <2>5, SweepKept
<1>7. CASE row' = row /\ digest' # digest
  <2>1. PICK d, todo :
          /\ d = [NoDigest EXCEPT !.transport = transport, !.slot = slot,
                                  !.choice = user.choice, !.failures = user.failures]
          /\ todo = IF user.stamp = 0 THEN <<"stamp">> ELSE <<"load">>
          /\ Goto(w, d, todo)
    BY <1>7 DEF runDigestSweep
  <2>2. d \in DigestRow /\ d.slot = slot /\ d.keep = {} /\ d.failures = user.failures
    <3> DEFINE e == [[[[NoDigest EXCEPT !.transport = transport] EXCEPT !.slot = slot]
                        EXCEPT !.choice = user.choice] EXCEPT !.failures = user.failures]
    <3>1. transport \in BOOLEAN /\ slot \in Nat /\ user.choice \in Modes \cup {None}
          /\ user.failures \in Nat
      BY <1>1 DEF UserInv, UserRow
    <3>2. e \in DigestRow /\ e.slot = slot /\ e.keep = {} /\ e.failures = user.failures
      BY <3>1, NoDigestIs DEF DigestRow
    <3>3. d = e
      BY <2>1
    <3> HIDE DEF e
    <3> QED
      BY <3>2, <3>3
  <2>3. todo \in {<<"stamp">>, <<"load">>} /\ todo \in Todos /\ todo # <<>>
    BY <2>1, TodosAre
  <2>4. /\ digest' \in [Workers -> DigestRow] /\ digest'[w].todo = todo
        /\ \A v \in Workers \ {w} : digest'[v] = digest[v]
        /\ digest'[w].keep = {} /\ digest'[w].slot = slot
        /\ digest'[w].failures = user.failures
    <3>1. Goto(w, d, todo) /\ digest \in [Workers -> DigestRow]
      BY <1>1, <2>1 DEF DigestInv
    <3> QED
      BY <2>2, <2>3, <3>1, GotoIs
  <2>5. FailsInv'
    <3>1. user' = user /\ user.failures \in Nat
      BY <1>1 DEF UserInv, UserRow
    <3>2. CASE user.failures + 1 < MaxAttempts
      <4>1. MayFail' \subseteq Workers
        BY DEF MayFail
      <4>2. Cardinality(MayFail') <= Cardinality(Workers) /\ Cardinality(MayFail') \in Nat
        BY <4>1, Numbers, FS_Subset, FS_CardinalityType
      <4> QED
        BY <3>1, <3>2, <4>2, Numbers DEF FailsInv
    <3>3. CASE ~(user.failures + 1 < MaxAttempts)
      <4>1. \A v \in Workers : v \in MayFail' => v \in MayFail
        BY <2>4, <3>3 DEF MayFail
      <4>2. MayFail' \subseteq MayFail
        BY <4>1 DEF MayFail
      <4> QED
        BY <1>1, <1>3, <4>2, FailsStays
    <3> QED
      BY <3>2, <3>3
  <2>6. RowsKept
    BY <1>1, <1>2, <1>7, NoRowSettles
  <2>7. SweepDoes(w)
    BY <1>1, <1>3, <1>5, <2>4, <2>5, <2>6 DEF SweepDoes
  <2>8. digest'[w].todo # <<"settle", "stamp">> /\ ~ToSend(w)'
    BY <2>3, <2>4, TodosAre DEF ToSend
  <2>9. DigestOK(digest[w])'
    <3>1. slot \in Nat /\ digest'[w].slot <= slot
      BY <1>1, <2>4 DEF UserInv
    <3> QED
      BY <2>4, <2>7, <2>8, <3>1, DigestGoesOn
  <2>10. \A i \in 1..Len(row) : i \notin uncertain' => mailed'[i] <= 1 /\ KeptOnce(i)'
    <3>1. \A i \in 1..Len(row) : mailed'[i] = mailed[i]
      BY <1>1
    <3> QED
      BY <1>4, <2>4, <2>7, <2>8, <3>1, KeptLess
  <2> QED
    BY <2>7, <2>9, <2>10, SweepKept
<1>8. row' = row /\ digest' = digest => IInv'
  <2>1. ASSUME row' = row, digest' = digest PROVE IInv'
    <3>1. RowsKept
      BY <1>1, <1>2, <2>1, NoRowSettles
    <3>2. FailsInv'
      BY <1>1, <1>3, <2>1, NoFailure
    <3>3. SweepDoes(w)
      BY <1>1, <1>3, <1>5, <2>1, <3>1, <3>2 DEF SweepDoes, DigestInv
    <3>4. DigestOK(digest[w])'
      BY <1>1, <2>1, <3>3, SweepAges, DigestStays
    <3>5. \A i \in 1..Len(row) : i \notin uncertain' => mailed'[i] <= 1 /\ KeptOnce(i)'
      BY <1>1, <1>4, <2>1, <3>3, KeptLess DEF ToSend
    <3> QED
      BY <3>3, <3>4, <3>5, SweepKept
  <2> QED
    BY <2>1
<1> QED
  BY <1>6, <1>7, <1>8 DEF runDigestSweep

\* A step of a sweep that mails nothing and lets no mail go unrecorded.
LEMMA SweepStill ==
  ASSUME IInv, NEW w \in Workers, Sweeps, digest[w].todo # <<>>, RowsKept,
         UNCHANGED <<mailed, excused>>, uncertain \subseteq uncertain', uncertain' \subseteq Rows,
         UserInv', FailsInv', NEW todo \in Todos, Goto(w, digest[w], todo),
         ToSend(w)' => ToSend(w),
         todo \notin {<<"load">>, <<"settle", "stamp">>},
         \A i \in SentIn(w) : i \in uncertain' \/ i \notin Waiting'
  PROVE  IInv'
<1>1. digest \in [Workers -> DigestRow] /\ digest[w] \in DigestRow /\ DigestOK(digest[w])
      /\ HistoryInv
  BY DEF IInv, DigestInv
<1>2. /\ digest' \in [Workers -> DigestRow] /\ digest'[w].todo = todo
      /\ \A v \in Workers \ {w} : digest'[v] = digest[v]
      /\ todo = <<>> => digest'[w] = NoDigest
      /\ todo # <<>> => digest'[w].keep = digest[w].keep /\ digest'[w].slot = digest[w].slot
  BY <1>1, GotoIs
<1>3. digest'[w].keep \subseteq digest[w].keep /\ (todo = <<>> => digest'[w].keep = {})
  BY <1>2, NoDigestIs
<1>4. \A i \in Rows : mailed[i] <= mailed'[i] /\ mailed'[i] = mailed[i]
  BY <1>1 DEF HistoryInv
<1>5. SweepDoes(w)
  BY <1>1, <1>2, <1>4 DEF SweepDoes, HistoryInv
<1>6. digest'[w].slot <= slot
  <2>1. slot \in Nat /\ digest[w].slot <= slot
    BY <1>1 DEF DigestOK, IInv, UserInv
  <2> QED
    BY <1>2, <2>1, NoDigestIs
<1>7. DigestOK(digest[w])'
  BY <1>2, <1>3, <1>5, <1>6, DigestGoesOn
<1>8. \A i \in 1..Len(row) : i \notin uncertain' => mailed'[i] <= 1 /\ KeptOnce(i)'
  BY <1>3, <1>5, KeptLess
<1> QED
  BY <1>5, <1>7, <1>8, SweepKept

\* The columns of the user and the lock are left alone.
LEMMA UserSame ==
  ASSUME IInv, UNCHANGED <<user, config, leader>>, paused' \in [Workers -> BOOLEAN]
  PROVE  UserInv' /\ user'.failures <= user.failures
BY DEF IInv, UserInv, UserRow, config

\* No failure is counted: the sweep gets on, or ends.
LEMMA GoesOn ==
  ASSUME IInv, NEW w \in Workers, digest[w].todo # <<>>, UserInv',
         user'.failures <= user.failures, NEW todo \in Todos, Goto(w, digest[w], todo)
  PROVE  FailsInv'
<1>1. digest \in [Workers -> DigestRow] /\ digest[w] \in DigestRow
  BY DEF IInv, DigestInv
<1>2. /\ digest'[w].todo = todo /\ \A v \in Workers \ {w} : digest'[v] = digest[v]
      /\ todo # <<>> => digest'[w].failures = digest[w].failures
  BY <1>1, GotoIs
<1> QED
  BY <1>2, NoFailure

LEMMA DropKeeps ==
  ASSUME IInv, NEW w \in Workers, DropStale(w)
  PROVE  IInv'
<1>1. /\ At(w, "drop") /\ Settle(digest[w].drop, "dropped") /\ Goto(w, digest[w], Rest(w))
      /\ UNCHANGED <<user, paused, mailed, excused, uncertain>> /\ Sweeps
      /\ InboxInv /\ UserInv /\ HistoryInv
  BY DEF DropStale, IInv, history
<1>2. /\ digest[w].todo # <<>> /\ Rest(w) \in {<<"send">>, <<"stamp">>}
      /\ Rest(w) = <<"send">> => ToSend(w)
      /\ SentIn(w) = {} /\ digest \in [Workers -> DigestRow] /\ digest[w] \in DigestRow
  BY <1>1, AtIs
<1>3. Rest(w) \in Todos /\ Rest(w) \notin {<<"load">>, <<"settle", "stamp">>}
  BY <1>2, TodosAre
<1>4. RowsKept
  BY <1>1, SettleDoes DEF Sweeps
<1>5. UserInv' /\ user'.failures <= user.failures
  BY <1>1, UserSame DEF Sweeps, UserInv
<1>6. FailsInv'
  BY <1>1, <1>2, <1>3, <1>5, GoesOn
<1>7. ToSend(w)' => ToSend(w)
  <2>1. digest'[w].todo = Rest(w)
    BY <1>1, <1>2, <1>3, GotoIs
  <2>2. Rest(w) = <<"stamp">> => ~ToSend(w)'
    BY <2>1, TodosAre DEF ToSend
  <2> QED
    BY <1>2, <2>2
<1>8. uncertain \subseteq uncertain' /\ uncertain' \subseteq Rows
  BY <1>1 DEF HistoryInv
<1> QED
  BY <1>1, <1>2, <1>3, <1>4, <1>5, <1>6, <1>7, <1>8, SweepStill

\* A sweep that ends where it is: the rows it keeps wait for the next.
LEMMA SweepQuits ==
  ASSUME IInv, NEW w \in Workers, DigestThrottled(w) \/ SweepFails(w)
  PROVE  IInv'
<1>1. /\ Goto(w, digest[w], <<>>) /\ Sweeps /\ InboxInv /\ UserInv /\ HistoryInv
      /\ UNCHANGED <<row, user, mailed, excused>>
  BY DEF DigestThrottled, SweepFails, IInv, history
<1>2. /\ digest[w].todo # <<>> /\ uncertain \subseteq uncertain' /\ SentIn(w) \subseteq uncertain'
  <2>1. CASE DigestThrottled(w)
    BY <2>1, AtIs DEF DigestThrottled, history
  <2>2. CASE SweepFails(w)
    BY <2>2 DEF SweepFails
  <2> QED
    BY <2>1, <2>2
<1>3. uncertain' \subseteq Rows
  <2>1. SentIn(w) \subseteq digest[w].keep
    BY DEF SentIn
  <2>2. SentIn(w) \subseteq Rows
    BY <2>1, KeptIs
  <2> QED
    BY <1>1, <2>2 DEF DigestThrottled, SweepFails, HistoryInv, history
<1>4. paused' \in [Workers -> BOOLEAN]
  BY <1>1 DEF DigestThrottled, SweepFails, UserInv
<1>5. UserInv' /\ user'.failures <= user.failures
  BY <1>1, <1>4, UserSame DEF Sweeps
<1>6. RowsKept
  BY <1>1, NoRowSettles DEF Sweeps
<1>7. <<>> \in Todos /\ <<>> \notin {<<"load">>, <<"settle", "stamp">>}
  BY TodosAre
<1>8. FailsInv'
  BY <1>1, <1>2, <1>5, <1>7, GoesOn
<1>9. ~ToSend(w)'
  <2>1. digest'[w].todo = <<>>
    BY <1>1, <1>7, GotoIs DEF IInv, DigestInv
  <2> QED
    BY <2>1, TodosAre DEF ToSend
<1> QED
  BY <1>1, <1>2, <1>3, <1>5, <1>6, <1>7, <1>8, <1>9, SweepStill

LEMMA SettleKeeps ==
  ASSUME IInv, NEW w \in Workers, settle(w)
  PROVE  IInv'
<1>1. /\ At(w, "settle") /\ Settle(digest[w].keep, digest[w].as) /\ Goto(w, digest[w], Rest(w))
      /\ UNCHANGED <<user, paused, mailed, excused, uncertain>> /\ Sweeps
      /\ InboxInv /\ UserInv /\ HistoryInv
  BY DEF settle, IInv, history
<1>2. /\ digest[w].todo = <<"settle", "stamp">> /\ digest[w].todo # <<>>
      /\ Rest(w) = <<"stamp">> /\ DigestOK(digest[w])
      /\ digest \in [Workers -> DigestRow] /\ digest[w] \in DigestRow
  BY <1>1, AtIs
<1>3. /\ digest[w].as \in {"sent", "dropped"}
      /\ digest[w].as = "sent" => \A i \in digest[w].keep : mailed[i] > 0
  BY <1>2 DEF DigestOK
<1>4. Rest(w) \in Todos /\ Rest(w) \notin {<<"load">>, <<"settle", "stamp">>}
  BY <1>2, TodosAre
<1>5. inbox' = inbox
  BY <1>1 DEF Sweeps
<1>6. RowsKept /\ \A i \in digest[w].keep : i \notin Waiting'
  BY <1>1, <1>3, <1>5, SettleDoes
<1>7. UserInv' /\ user'.failures <= user.failures
  BY <1>1, UserSame DEF Sweeps, UserInv
<1>8. FailsInv'
  BY <1>1, <1>2, <1>4, <1>7, GoesOn
<1>9. ~ToSend(w)'
  <2>1. digest'[w].todo = <<"stamp">>
    BY <1>1, <1>2, <1>4, GotoIs
  <2> QED
    BY <2>1, TodosAre DEF ToSend
<1>10. \A i \in SentIn(w) : i \notin Waiting'
  BY <1>6 DEF SentIn
<1>11. uncertain \subseteq uncertain' /\ uncertain' \subseteq Rows
  BY <1>1 DEF HistoryInv
<1> QED
  BY <1>1, <1>2, <1>4, <1>6, <1>7, <1>8, <1>9, <1>10, <1>11, SweepStill

LEMMA StampKeeps ==
  ASSUME IInv, NEW w \in Workers, stamp(w)
  PROVE  IInv'
<1>1. /\ At(w, "stamp") /\ Goto(w, digest[w], Rest(w))
      /\ user' = IF user.choice = digest[w].choice
                 THEN [user EXCEPT !.stamp = digest[w].slot, !.failures = 0] ELSE user
      /\ UNCHANGED <<row, paused, mailed, excused, uncertain>> /\ Sweeps
      /\ InboxInv /\ UserInv /\ HistoryInv
  BY DEF stamp, IInv, history
<1>2. /\ digest[w].todo # <<>> /\ Rest(w) = <<>> /\ DigestOK(digest[w]) /\ SentIn(w) = {}
      /\ digest \in [Workers -> DigestRow] /\ digest[w] \in DigestRow
  BY <1>1, AtIs
<1>3. Rest(w) \in Todos /\ Rest(w) \notin {<<"load">>, <<"settle", "stamp">>}
  BY <1>2, TodosAre
<1>4. UserInv' /\ user'.failures <= user.failures
  <2> DEFINE u == [[user EXCEPT !.stamp = digest[w].slot] EXCEPT !.failures = 0]
  <2>1. user \in UserRow /\ user.failures \in Nat /\ digest[w].slot \in Nat
        /\ digest[w].slot <= slot
    BY <1>1, <1>2 DEF UserInv, UserRow, DigestRow, DigestOK
  <2>2. u \in UserRow /\ u.stamp = digest[w].slot /\ u.failures = 0
    BY <2>1 DEF UserRow
  <2>3. user' = u \/ user' = user
    BY <1>1
  <2> HIDE DEF u
  <2>4. user' \in UserRow /\ user'.stamp <= slot /\ user'.failures <= user.failures
    BY <1>1, <2>1, <2>2, <2>3 DEF UserInv
  <2> QED
    BY <1>1, <2>4 DEF UserInv, Sweeps, config
<1>5. RowsKept
  BY <1>1, NoRowSettles DEF Sweeps
<1>6. FailsInv'
  BY <1>1, <1>2, <1>3, <1>4, GoesOn
<1>7. ~ToSend(w)'
  <2>1. digest'[w].todo = <<>>
    BY <1>1, <1>2, <1>3, GotoIs
  <2> QED
    BY <2>1, TodosAre DEF ToSend
<1>8. uncertain \subseteq uncertain' /\ uncertain' \subseteq Rows
  BY <1>1 DEF HistoryInv
<1> QED
  BY <1>1, <1>2, <1>3, <1>4, <1>5, <1>6, <1>7, <1>8, SweepStill

\* What loadPending has to do is put together.
LEMMA JoinedAt ==
  ASSUME NEW S, NEW s \in Seq(S), NEW t \in Seq(S)
  PROVE  /\ s \o t \in Seq(S) /\ Len(s \o t) = Len(s) + Len(t)
         /\ \A n \in 1..Len(s) : (s \o t)[n] = s[n]
         /\ \A n \in 1..Len(t) : (s \o t)[n + Len(s)] = t[n]
<1>1. ASSUME NEW n \in 1..Len(t) PROVE (s \o t)[n + Len(s)] = t[n]
  OBVIOUS
<1>2. ASSUME NEW n \in 1..Len(s) PROVE (s \o t)[n] = s[n]
  OBVIOUS
<1>3. s \o t \in Seq(S) /\ Len(s \o t) = Len(s) + Len(t)
  OBVIOUS
<1> QED
  BY <1>1, <1>2, <1>3

LEMMA Joined ==
  ASSUME NEW S, NEW s \in Seq(S), NEW t \in Seq(S), Len(s) = 1, Len(t) = 1,
         NEW u \in Seq(S), Len(u) = 2, u[1] = s[1], u[2] = t[1]
  PROVE  s \o t = u
<1> DEFINE j == s \o t
<1>1. j \in Seq(S) /\ Len(j) = 1 + 1 /\ 1 \in 1..1 /\ j[1] = s[1] /\ j[1 + 1] = t[1]
  <2>1. 1 \in 1..1
    OBVIOUS
  <2>2. 1 \in 1..Len(s) /\ 1 \in 1..Len(t)
    BY <2>1, Zenon
  <2> QED
    BY <2>2, JoinedAt
<1> HIDE DEF j
<1>2. \A n \in 1..2 : j[n] = u[n]
  <2>1. \A n \in 1..2 : n = 1 \/ n = 2
    OBVIOUS
  <2> QED
    BY <1>1, <2>1
<1>3. j = u
  BY <1>1, <1>2
<1> QED
  BY <1>3 DEF j

LEMMA JoinedTwo ==
  ASSUME NEW S, NEW x \in S, NEW y \in S
  PROVE  <<x>> \o <<y>> = <<x, y>>
<1>1. PICK s : s = <<x>>
  OBVIOUS
<1>2. PICK t : t = <<y>>
  OBVIOUS
<1>3. PICK u : u = <<x, y>>
  OBVIOUS
<1>4. s \in Seq(S) /\ Len(s) = 1 /\ s[1] = x
  BY <1>1
<1>5. t \in Seq(S) /\ Len(t) = 1 /\ t[1] = y
  BY <1>2
<1>6. u \in Seq(S) /\ Len(u) = 2 /\ u[1] = x /\ u[2] = y
  BY <1>3
<1>7. s \o t = u
  BY <1>4, <1>5, <1>6, Joined
<1> QED
  BY <1>1, <1>2, <1>3, <1>7, Zenon

LEMMA TodosJoined ==
  /\ <<"drop">> \o <<"send">> = <<"drop", "send">>
  /\ <<"drop">> \o <<"stamp">> = <<"drop", "stamp">>
  /\ <<>> \o <<"send">> = <<"send">> /\ <<>> \o <<"stamp">> = <<"stamp">>
<1> DEFINE S == {"drop", "send", "stamp"}
<1>1. "drop" \in S /\ "send" \in S /\ "stamp" \in S
  OBVIOUS
<1> HIDE DEF S
<1>2. /\ <<"drop">> \o <<"send">> = <<"drop", "send">>
      /\ <<"drop">> \o <<"stamp">> = <<"drop", "stamp">>
  BY <1>1, JoinedTwo, Zenon
<1>3. <<>> \o <<"send">> = <<"send">>
  OBVIOUS
<1>4. <<>> \o <<"stamp">> = <<"stamp">>
  OBVIOUS
<1> QED
  BY <1>2, <1>3, <1>4

LEMMA LoadKeeps ==
  ASSUME IInv, NEW w \in Workers, loadPending(w)
  PROVE  IInv'
<1>k. PICK keep : keep = IF digest[w].transport THEN Waiting \ {i \in Waiting : row[i].read}
                         ELSE {}
  OBVIOUS
<1>d. PICK drop : drop = Waiting \ keep
  OBVIOUS
<1>e. PICK d : d = [digest[w] EXCEPT !.drop = drop, !.keep = keep]
  OBVIOUS
<1>t. PICK todo : todo = (IF drop # {} THEN <<"drop">> ELSE <<>>)
                         \o (IF keep # {} THEN <<"send">> ELSE <<"stamp">>)
  OBVIOUS
<1>1. /\ keep \subseteq Waiting /\ drop \subseteq Waiting
      /\ Goto(w, d, todo)
      /\ uncertain' = uncertain \cup
                          (keep \cap UNION {digest[v].keep : v \in Workers \ {w}})
  <2>1. keep \subseteq Waiting /\ drop \subseteq Waiting
    BY <1>k, <1>d
  <2>2. Goto(w, d, todo)
    BY <1>k, <1>d, <1>e, <1>t DEF loadPending
  <2>3. uncertain' = uncertain \cup
                          (keep \cap UNION {digest[v].keep : v \in Workers \ {w}})
    BY <1>k DEF loadPending
  <2> QED
    BY <2>1, <2>2, <2>3
<1>2. /\ At(w, "load") /\ Sweeps /\ UNCHANGED <<row, user, paused, mailed, excused>>
      /\ InboxInv /\ UserInv /\ HistoryInv /\ OnceInv
  BY DEF loadPending, IInv
<1>3. /\ digest \in [Workers -> DigestRow] /\ digest[w] \in DigestRow /\ DigestOK(digest[w])
      /\ digest[w].todo = <<"load">> /\ digest[w].keep = {} /\ SentIn(w) = {}
      /\ digest[w].todo # <<>>
  BY <1>2, AtIs
<1>4. /\ Waiting \subseteq 1..Len(row) /\ 1..Len(row) \subseteq Rows
      /\ \A i \in Waiting : row[i].state = "pending"
  BY <1>2, WaitingIs, RowIds
<1>5. /\ d \in DigestRow /\ d.keep = keep /\ d.slot = digest[w].slot
      /\ d.failures = digest[w].failures
  <2> DEFINE e == [[digest[w] EXCEPT !.drop = drop] EXCEPT !.keep = keep]
  <2>1. keep \in SUBSET Nat /\ drop \in SUBSET Nat
    BY <1>1, <1>4
  <2>2. /\ e \in DigestRow /\ e.keep = keep /\ e.slot = digest[w].slot
        /\ e.failures = digest[w].failures
    BY <1>3, <2>1 DEF DigestRow
  <2>3. d = e
    BY <1>e
  <2> HIDE DEF e
  <2> QED
    BY <2>2, <2>3
<1>6. todo \in {<<"drop", "send">>, <<"drop", "stamp">>, <<"send">>, <<"stamp">>}
  <2>1. \/ todo = <<"drop">> \o <<"send">> \/ todo = <<"drop">> \o <<"stamp">>
        \/ todo = <<>> \o <<"send">> \/ todo = <<>> \o <<"stamp">>
    BY <1>t
  <2> QED
    BY <2>1, TodosJoined
<1>7. todo \in Todos /\ todo \notin {<<>>, <<"load">>, <<"settle", "stamp">>}
  BY <1>6, TodosAre
<1>8. /\ digest' \in [Workers -> DigestRow] /\ digest'[w].todo = todo
      /\ \A v \in Workers \ {w} : digest'[v] = digest[v]
      /\ digest'[w].keep = keep /\ digest'[w].slot = digest[w].slot
      /\ digest'[w].failures = digest[w].failures
  <2>1. Goto(w, d, todo)
    BY <1>1
  <2> QED
    BY <1>3, <1>5, <1>7, <2>1, GotoIs
<1>9. UserInv' /\ user'.failures <= user.failures
  BY <1>2, UserSame DEF Sweeps, UserInv
<1>10. FailsInv'
  BY <1>3, <1>8, <1>9, NoFailure
<1>11. RowsKept
  BY <1>2, NoRowSettles DEF Sweeps
<1>12. uncertain \subseteq uncertain' /\ uncertain' \subseteq Rows
  BY <1>1, <1>2, <1>4 DEF HistoryInv
<1>13. \A i \in Rows : mailed[i] <= mailed'[i] /\ mailed'[i] = mailed[i]
  BY <1>2 DEF HistoryInv
<1>14. SweepDoes(w)
  BY <1>2, <1>8, <1>9, <1>10, <1>11, <1>12, <1>13 DEF SweepDoes, HistoryInv
<1>15. DigestOK(digest[w])'
  <2>1. slot' = slot /\ row' = row
    BY <1>2, <1>14, SweepAges
  <2>2. \A i \in keep : i \in 1..Len(row) /\ row[i].state # None
    BY <1>1, <1>4 DEF None
  <2> QED
    BY <1>3, <1>7, <1>8, <2>1, <2>2 DEF DigestOK
<1>16. ASSUME NEW i \in 1..Len(row), i \notin uncertain'
       PROVE  mailed'[i] <= 1 /\ KeptOnce(i)'
  <2>1. i \notin uncertain /\ mailed[i] <= 1 /\ KeptOnce(i) /\ mailed'[i] = mailed[i]
    BY <1>2, <1>12, <1>16 DEF OnceInv
  <2>2. \A v \in Workers \ {w} : i \in keep => i \notin digest[v].keep
    BY <1>1, <1>16
  <2>3. i \in keep => mailed[i] = 0
    <3>1. ASSUME i \in keep PROVE mailed[i] = 0
      <4>1. \A v \in Workers : i \notin SentIn(v)
        BY <1>3, <2>2, <3>1 DEF SentIn
      <4> QED
        BY <1>1, <2>1, <3>1, <4>1 DEF KeptOnce
    <3> QED
      BY <3>1
  <2>4. \A u, v \in Workers : i \in digest'[u].keep /\ i \in digest'[v].keep => u = v
    BY <1>8, <2>1, <2>2 DEF KeptOnce
  <2>5. \A v \in Workers : i \in digest'[v].keep /\ ToSend(v)' => mailed'[i] = 0
    <3>1. ASSUME NEW v \in Workers, i \in digest'[v].keep, ToSend(v)' PROVE mailed'[i] = 0
      <4>1. CASE v = w
        BY <1>8, <2>1, <2>3, <3>1, <4>1
      <4>2. CASE v # w
        <5>1. digest'[v] = digest[v]
          BY <1>8, <4>2
        <5> QED
          BY <2>1, <3>1, <5>1 DEF KeptOnce, ToSend
      <4> QED
        BY <4>1, <4>2
    <3> QED
      BY <3>1
  <2>6. i \in Waiting' /\ (\A v \in Workers : i \notin SentIn(v)') => mailed'[i] = 0
    <3>1. i \in Waiting' => i \in Waiting
      BY <1>11 DEF RowsKept
    <3>2. \A v \in Workers \ {w} : SentIn(v)' = SentIn(v)
      BY <1>8 DEF SentIn, At
    <3> QED
      BY <1>3, <2>1, <3>1, <3>2 DEF KeptOnce
  <2> QED
    BY <2>1, <2>4, <2>5, <2>6 DEF KeptOnce
<1> QED
  BY <1>14, <1>15, <1>16, SweepKept

\* Each row that is kept is mailed once more.
LEMMA MailsDo ==
  ASSUME HistoryInv, NEW S, Mails(S)
  PROVE  /\ mailed' \in [Rows -> Nat]
         /\ \A i \in Rows : /\ mailed[i] \in Nat /\ mailed[i] <= mailed'[i]
                            /\ mailed'[i] = IF i \in S THEN mailed[i] + 1 ELSE mailed[i]
BY DEF HistoryInv, Mails

LEMMA SendDigestKeeps ==
  ASSUME IInv, NEW w \in Workers, SendDigest(w)
  PROVE  IInv'
<1> DEFINE next == <<"settle", "stamp">>
<1>1. PICK d : d = [digest[w] EXCEPT !.as = "sent"] /\ Goto(w, d, next)
  <2>1. \A a : a = [digest[w] EXCEPT !.as = "sent"] => Goto(w, a, next)
    BY DEF SendDigest
  <2> QED
    BY <2>1
<1>2. /\ At(w, "send") /\ Sweeps /\ UNCHANGED <<row, user, paused, excused, uncertain>>
      /\ Mails(digest[w].keep)
      /\ InboxInv /\ UserInv /\ HistoryInv /\ OnceInv
  BY DEF SendDigest, IInv
<1>3. /\ digest \in [Workers -> DigestRow] /\ digest[w] \in DigestRow /\ DigestOK(digest[w])
      /\ digest[w].todo = <<"send">> /\ ToSend(w) /\ SentIn(w) = {} /\ digest[w].todo # <<>>
  BY <1>2, AtIs
<1>4. /\ d \in DigestRow /\ d.keep = digest[w].keep /\ d.slot = digest[w].slot
      /\ d.failures = digest[w].failures /\ d.as = "sent"
  BY <1>1, <1>3 DEF DigestRow
<1>5. next \in Todos /\ next \notin {<<>>, <<"load">>} /\ Head(next) = "settle"
  BY TodosAre
<1>6. /\ digest' \in [Workers -> DigestRow] /\ digest'[w].todo = next
      /\ \A v \in Workers \ {w} : digest'[v] = digest[v]
      /\ digest'[w].keep = digest[w].keep /\ digest'[w].slot = digest[w].slot
      /\ digest'[w].failures = digest[w].failures /\ digest'[w].as = "sent"
  <2> HIDE DEF next
  <2>1. /\ digest' \in [Workers -> DigestRow] /\ digest'[w].todo = next
        /\ \A v \in Workers \ {w} : digest'[v] = digest[v]
        /\ digest'[w].keep = d.keep /\ digest'[w].slot = d.slot
        /\ digest'[w].failures = d.failures /\ digest'[w].as = d.as
    <3>1. /\ digest \in [Workers -> DigestRow] /\ d \in DigestRow /\ next \in Todos
          /\ Goto(w, d, next) /\ next # <<>>
      BY <1>1, <1>3, <1>4, <1>5
    <3> QED
      BY <3>1, GotoIs
  <2> QED
    BY <1>4, <2>1
<1>7. /\ mailed' \in [Rows -> Nat]
      /\ \A i \in Rows : /\ mailed[i] \in Nat /\ mailed[i] <= mailed'[i]
                         /\ mailed'[i] = IF i \in digest[w].keep THEN mailed[i] + 1
                                         ELSE mailed[i]
  BY <1>2, MailsDo
<1>8. UserInv' /\ user'.failures <= user.failures
  BY <1>2, UserSame DEF Sweeps, UserInv
<1>9. FailsInv'
  BY <1>3, <1>6, <1>8, NoFailure
<1>10. RowsKept
  BY <1>2, NoRowSettles DEF Sweeps
<1>11. SweepDoes(w)
  BY <1>2, <1>6, <1>7, <1>8, <1>9, <1>10 DEF SweepDoes, HistoryInv
<1>12. \A i \in digest[w].keep : i \in Rows /\ mailed'[i] > 0
  BY <1>7, KeptIs
<1>13. DigestOK(digest[w])'
  <2>1. slot \in Nat /\ digest'[w].slot <= slot
    BY <1>2, <1>3, <1>6 DEF UserInv, DigestOK
  <2> QED
    BY <1>5, <1>6, <1>11, <1>12, <2>1, DigestGoesOn
<1>14. SentIn(w)' = digest[w].keep /\ ~ToSend(w)'
  <2>1. ~ToSend(w)'
    BY <1>6, TodosAre DEF ToSend
  <2>2. SentIn(w)' = digest[w].keep
    <3> HIDE DEF next
    <3> QED
      BY <1>5, <1>6 DEF SentIn, At
  <2> QED
    BY <2>1, <2>2
<1>15. ASSUME NEW i \in 1..Len(row), i \notin uncertain'
       PROVE  mailed'[i] <= 1 /\ KeptOnce(i)'
  <2>1. i \in Rows /\ i \notin uncertain /\ mailed[i] <= 1 /\ KeptOnce(i)
    BY <1>2, <1>15, RowIds DEF OnceInv
  <2>2. CASE i \in digest[w].keep
    <3>1. mailed'[i] = 1
      <4>1. mailed[i] = 0
        BY <1>3, <2>1, <2>2 DEF KeptOnce
      <4> QED
        BY <1>7, <2>1, <2>2, <4>1
    <3>2. \A v \in Workers \ {w} : i \notin digest[v].keep
      BY <2>1, <2>2 DEF KeptOnce
    <3>3. \A v \in Workers : i \in digest'[v].keep => v = w
      BY <1>6, <3>2
    <3>4. KeptOnce(i)'
      BY <1>14, <2>2, <3>3 DEF KeptOnce
    <3> QED
      BY <3>1, <3>4
  <2>3. CASE i \notin digest[w].keep
    <3>1. mailed'[i] = mailed[i] /\ i \notin digest'[w].keep /\ i \notin SentIn(w)
      BY <1>3, <1>6, <1>7, <2>1, <2>3
    <3> QED
      BY <1>11, <1>15, <3>1, KeptLess
  <2> QED
    BY <2>2, <2>3
<1> QED
  BY <1>11, <1>13, <1>15, SweepKept

LEMMA DigestFailsKeeps ==
  ASSUME IInv, NEW w \in Workers, DigestFails(w)
  PROVE  IInv'
<1> DEFINE next == <<"settle", "stamp">>
<1>1. /\ At(w, "send") /\ Sweeps /\ UNCHANGED <<row, paused, excused>>
      /\ \/ UNCHANGED <<mailed, uncertain>>
         \/ Mails(digest[w].keep) /\ uncertain' = uncertain \cup digest[w].keep
      /\ InboxInv /\ UserInv /\ HistoryInv /\ OnceInv /\ FailsInv
  BY DEF DigestFails, IInv
<1>2. /\ digest \in [Workers -> DigestRow] /\ digest[w] \in DigestRow /\ DigestOK(digest[w])
      /\ digest[w].todo = <<"send">> /\ ToSend(w) /\ SentIn(w) = {} /\ digest[w].todo # <<>>
  BY <1>1, AtIs
<1>3. digest[w].keep \subseteq Rows
  BY KeptIs
<1>4. /\ mailed' \in [Rows -> Nat] /\ uncertain \subseteq uncertain' /\ uncertain' \subseteq Rows
      /\ \A i \in Rows : /\ mailed[i] <= mailed'[i]
                         /\ mailed'[i] = mailed[i] \/ i \in digest[w].keep
                         /\ i \notin uncertain' => mailed'[i] = mailed[i]
  <2>1. CASE UNCHANGED <<mailed, uncertain>>
    BY <1>1, <2>1 DEF HistoryInv
  <2>2. CASE Mails(digest[w].keep) /\ uncertain' = uncertain \cup digest[w].keep
    <3>1. /\ mailed' \in [Rows -> Nat]
          /\ \A i \in Rows : /\ mailed[i] <= mailed'[i]
                             /\ i \notin digest[w].keep => mailed'[i] = mailed[i]
      BY <1>1, <2>2, MailsDo
    <3> QED
      BY <1>1, <1>3, <2>2, <3>1 DEF HistoryInv
  <2> QED
    BY <1>1, <2>1, <2>2
<1>5. RowsKept
  BY <1>1, NoRowSettles DEF Sweeps
<1>6. user.failures \in Nat /\ digest[w].failures \in Nat
  BY <1>1, <1>2 DEF UserInv, UserRow, DigestRow
<1>7. ASSUME UserInv', FailsInv', digest' \in [Workers -> DigestRow],
             \A v \in Workers \ {w} : digest'[v] = digest[v],
             digest'[w].slot <= slot, digest'[w].keep \subseteq digest[w].keep,
             digest'[w].todo = <<>> => digest'[w].keep = {},
             digest'[w].todo \in {<<>>, next},
             digest'[w].todo = next => digest'[w].as = "dropped"
      PROVE  IInv'
  <2>1. SweepDoes(w)
    BY <1>1, <1>4, <1>5, <1>7 DEF SweepDoes, HistoryInv
  <2>2. digest'[w].todo # <<"load">> /\ ~ToSend(w)'
    BY <1>7, TodosAre DEF ToSend
  <2>3. DigestOK(digest[w])'
    BY <1>7, <2>1, <2>2, DigestGoesOn
  <2>4. \A i \in 1..Len(row) : i \notin uncertain' => mailed'[i] <= 1 /\ KeptOnce(i)'
    <3>1. \A i \in 1..Len(row) : i \in Rows
      BY <1>1, RowIds
    <3>2. ASSUME NEW i \in 1..Len(row), i \notin uncertain'
          PROVE  mailed'[i] <= 1 /\ KeptOnce(i)'
      <4>1. mailed'[i] = mailed[i] /\ i \notin SentIn(w)
        BY <1>2, <1>4, <3>1, <3>2
      <4>2. i \in digest'[w].keep => i \in digest[w].keep
        BY <1>7
      <4> QED
        BY <2>1, <2>2, <3>2, <4>1, <4>2, KeptLess
    <3> QED
      BY <3>2
  <2> QED
    BY <2>1, <2>3, <2>4, SweepKept
<1>8. CASE digest[w].failures + 1 >= MaxAttempts
  <2>1. PICK d : d = [digest[w] EXCEPT !.as = "dropped"]
    OBVIOUS
  <2>2. Goto(w, d, next) /\ user' = user
    BY <1>8, <2>1 DEF DigestFails
  <2>3. /\ d \in DigestRow /\ d.keep = digest[w].keep /\ d.slot = digest[w].slot
        /\ d.failures = digest[w].failures /\ d.as = "dropped"
    BY <1>2, <2>1 DEF DigestRow
  <2>4. next \in Todos /\ next # <<>>
    BY TodosAre
  <2>5. /\ digest' \in [Workers -> DigestRow] /\ digest'[w].todo = next
        /\ \A v \in Workers \ {w} : digest'[v] = digest[v]
        /\ digest'[w].keep = digest[w].keep /\ digest'[w].slot = digest[w].slot
        /\ digest'[w].failures = digest[w].failures /\ digest'[w].as = "dropped"
    <3> HIDE DEF next
    <3> QED
      BY <1>2, <2>2, <2>3, <2>4, GotoIs
  <2>6. UserInv' /\ user'.failures <= user.failures
    BY <1>1, <2>2, UserSame DEF Sweeps, UserInv
  <2>7. FailsInv'
    BY <1>2, <2>5, <2>6, NoFailure
  <2>8. digest'[w].slot <= slot
    BY <1>2, <2>5 DEF DigestOK
  <2> HIDE DEF next
  <2> QED
    BY <1>7, <2>4, <2>5, <2>6, <2>7, <2>8
<1>9. CASE ~(digest[w].failures + 1 >= MaxAttempts)
  <2> DEFINE u == [user EXCEPT !.failures = user.failures + 1]
  <2>1. Goto(w, digest[w], <<>>) /\ user' = u
    BY <1>9 DEF DigestFails
  <2>2. u \in UserRow /\ u.stamp = user.stamp /\ u.failures = user.failures + 1
    BY <1>1, <1>6 DEF UserInv, UserRow
  <2> HIDE DEF u
  <2>3. UserInv'
    BY <1>1, <2>1, <2>2 DEF UserInv, Sweeps, config
  <2>4. /\ digest' \in [Workers -> DigestRow] /\ digest'[w] = NoDigest
        /\ \A v \in Workers \ {w} : digest'[v] = digest[v]
    BY <1>2, <2>1, TodosAre, GotoIs
  <2>5. FailsInv'
    <3>1. w \in MayFail
      <4>1. MaxAttempts \in Nat
        BY Numbers
      <4>2. digest[w].failures + 1 < MaxAttempts
        BY <1>6, <1>9, <4>1
      <4> QED
        BY <1>2, <4>2 DEF MayFail
    <3>2. w \notin MayFail'
      BY <2>4, NoDigestIs DEF MayFail
    <3>3. \A v \in Workers : v \in MayFail' => v \in MayFail \ {w}
      BY <2>4, <3>2 DEF MayFail
    <3>4. MayFail' \subseteq MayFail \ {w}
      BY <3>3 DEF MayFail
    <3>5. /\ IsFiniteSet(MayFail) /\ Cardinality(MayFail) \in Nat
          /\ IsFiniteSet(MayFail \ {w})
          /\ Cardinality(MayFail \ {w}) = Cardinality(MayFail) - 1
      BY <3>1, FailsCount, FS_RemoveElement
    <3>6. Cardinality(MayFail') <= Cardinality(MayFail) - 1 /\ Cardinality(MayFail') \in Nat
      BY <3>4, <3>5, FS_Subset, FS_CardinalityType
    <3> QED
      BY <1>1, <1>6, <2>1, <2>2, <3>5, <3>6, Numbers DEF FailsInv
  <2>6. digest'[w].slot <= slot
    BY <1>1, <2>4, NoDigestIs DEF UserInv
  <2>7. digest'[w].todo = <<>> /\ digest'[w].keep = {} /\ <<>> # next
    BY <2>4, NoDigestIs, TodosAre
  <2> HIDE DEF next
  <2> QED
    BY <1>7, <2>3, <2>4, <2>5, <2>6, <2>7
<1> QED
  BY <1>8, <1>9

-----------------------------------------------------------------------------
(* The workers *)

\* The lock moves or a pause ends, with everything else as it was.
LEMMA QuietKeeps ==
  ASSUME IInv, UNCHANGED <<row, inbox, user, config, pass, digest, history>>,
         leader' \in Workers, paused' \in [Workers -> BOOLEAN]
  PROVE  IInv'
<1>1. /\ InboxInv /\ UserInv /\ HistoryInv /\ PassInv /\ DigestInv /\ OnceInv /\ FailsInv
      /\ RecordedIsMailed
      /\ UNCHANGED <<row, inbox, user, slot, transport, pass, digest, mailed, excused, uncertain>>
  BY DEF IInv, config, history
<1>2. InboxInv' /\ HistoryInv' /\ RecordedIsMailed'
  BY <1>1 DEF InboxInv, HistoryInv, RecordedIsMailed
<1>3. UserInv' /\ user'.failures <= user.failures
  BY <1>1 DEF UserInv, UserRow
<1>4. Ages
  BY <1>1, AgesSame
<1>5. PassInv'
  BY <1>1, <1>4, PassStays DEF PassInv
<1>6. DigestInv'
  BY <1>1, <1>4, DigestsStay
<1>7. FailsInv'
  BY <1>1, <1>3, MayFailSame, FailsStays
<1>8. OnceInv'
  <2>1. \A i, p : (i \in Held(p)' <=> i \in Held(p)) /\ (i \in Sent(p)' <=> i \in Sent(p))
    BY <1>1 DEF Held, Sent, InRow, Current
  <2>2. \A i, w : (ToSend(w)' <=> ToSend(w)) /\ (i \in SentIn(w)' <=> i \in SentIn(w))
    BY <1>1 DEF SentIn, At, ToSend
  <2>3. \A i : (Exists(i)' <=> Exists(i)) /\ (i \in Waiting' <=> i \in Waiting)
    BY <1>1 DEF Exists, Waiting
  <2>4. ASSUME NEW i \in 1..Len(row), i \notin uncertain'
        PROVE  mailed'[i] <= 1 /\ HeldOnce(i)' /\ KeptOnce(i)'
    <3>1. mailed[i] <= 1 /\ HeldOnce(i) /\ KeptOnce(i)
      BY <1>1, <2>4 DEF OnceInv
    <3>2. HeldOnce(i)'
      BY <1>1, <2>1, <2>3, <3>1, HeldStays
    <3>3. KeptOnce(i)'
      BY <1>1, <2>2, <2>3, <3>1, KeptStays
    <3> QED
      BY <1>1, <3>1, <3>2, <3>3
  <2> QED
    BY <1>1, <2>4 DEF OnceInv
<1> QED
  BY <1>2, <1>3, <1>5, <1>6, <1>7, <1>8 DEF IInv

\* The passes and the digest of the replica are gone, and what they sent is uncertain.
LEMMA CrashKeeps ==
  ASSUME IInv, NEW w \in Workers, Crash(w)
  PROVE  IInv'
<1> DEFINE Gone == {p \in Passes : pass[p].worker = w}
<1>1. /\ InboxInv /\ UserInv /\ HistoryInv /\ PassInv /\ DigestInv /\ OnceInv /\ FailsInv
      /\ RecordedIsMailed
      /\ UNCHANGED <<row, inbox, user, slot, transport, mailed, excused>>
      /\ leader' \in Workers
      /\ pass' = [p \in Passes |-> IF pass[p].worker = w THEN NoPass ELSE pass[p]]
      /\ digest' = [digest EXCEPT ![w] = NoDigest]
      /\ paused' = [paused EXCEPT ![w] = FALSE]
      /\ uncertain' = uncertain \cup SentIn(w) \cup UNION {Sent(p) : p \in Gone}
  BY DEF IInv, Crash, Process, config
<1>2. InboxInv' /\ RecordedIsMailed'
  BY <1>1 DEF InboxInv, RecordedIsMailed
<1>3. UserInv' /\ user'.failures <= user.failures
  BY <1>1 DEF UserInv, UserRow
<1>4. Ages
  BY <1>1, AgesSame
<1>5. /\ digest' \in [Workers -> DigestRow] /\ digest'[w] = NoDigest
      /\ \A v \in Workers \ {w} : digest'[v] = digest[v]
  BY <1>1, NoDigestIs DEF DigestInv
<1>6. /\ pass' \in [Passes -> PassRow]
      /\ \A p \in Gone : pass'[p] = NoPass
      /\ \A p \in Passes \ Gone : pass'[p] = pass[p]
  BY <1>1, NoPassIs DEF PassInv
<1>7. /\ \A p \in Gone : Sent(p) \subseteq uncertain'
      /\ SentIn(w) \subseteq uncertain' /\ uncertain \subseteq uncertain'
  BY <1>1
<1> HIDE DEF Gone
<1>8. HistoryInv'
  <2>1. SentIn(w) \subseteq Rows
    BY KeptIs DEF SentIn
  <2>2. \A p \in Gone : Sent(p) \subseteq Rows
    <3>1. ASSUME NEW p \in Gone PROVE Sent(p) \subseteq Rows
      <4>1. p \in Passes
        BY DEF Gone
      <4>2. CASE InRow(p)
        BY <4>1, <4>2, InPass
      <4>3. CASE ~InRow(p)
        BY <4>3 DEF Sent
      <4> QED
        BY <4>2, <4>3
    <3> QED
      BY <3>1
  <2>3. uncertain' \subseteq Rows
    BY <1>1, <2>1, <2>2 DEF HistoryInv
  <2> QED
    BY <1>1, <2>3 DEF HistoryInv
<1>9. PassInv'
  <2>1. \A p \in Passes : pass'[p].left \in {pass[p].left, <<>>}
    BY <1>6, NoPassIs
  <2> QED
    BY <1>1, <1>4, <1>6, <2>1, PassStays
<1>10. DigestInv'
  <2>1. ASSUME NEW v \in Workers, v # w PROVE DigestOK(digest[v])'
    BY <1>1, <1>4, <1>5, <2>1, DigestStays
  <2>2. DigestOK(digest[w])'
    <3>1. slot \in Nat /\ slot' = slot
      BY <1>1 DEF UserInv
    <3> QED
      BY <1>5, <3>1, NoDigestIs, TodosAre DEF DigestOK
  <2> QED
    BY <1>5, <2>1, <2>2 DEF DigestInv
<1>11. FailsInv'
  BY <1>3, <1>5, NoDigestIs, NoFailure
<1>12. /\ \A p \in Gone : Held(p)' = {} /\ Sent(p)' = {}
       /\ \A p \in Passes \ Gone : Held(p)' = Held(p) /\ Sent(p)' = Sent(p)
  <2>1. \A p \in Gone : pass'[p].left = <<>>
    BY <1>6, NoPassIs
  <2>2. \A p \in Gone : Held(p)' = {} /\ Sent(p)' = {}
    BY <2>1 DEF Held, Sent, InRow
  <2>3. \A p \in Passes \ Gone : Held(p)' = Held(p) /\ Sent(p)' = Sent(p)
    BY <1>6 DEF Held, Sent, InRow, Current
  <2> QED
    BY <2>2, <2>3
<1>13. /\ digest'[w].keep = {}
       /\ \A v \in Workers \ {w} : (ToSend(v)' <=> ToSend(v)) /\ SentIn(v)' = SentIn(v)
  BY <1>5, NoDigestIs DEF ToSend, SentIn, At
<1>14. OnceInv'
  <2>1. ASSUME NEW i \in 1..Len(row), i \notin uncertain'
        PROVE  mailed'[i] <= 1 /\ HeldOnce(i)' /\ KeptOnce(i)'
    <3>1. i \notin uncertain /\ mailed[i] <= 1 /\ HeldOnce(i) /\ KeptOnce(i)
          /\ mailed' = mailed /\ row' = row /\ inbox' = inbox
      BY <1>1, <1>7, <2>1 DEF OnceInv
    <3>2. \A p, q \in Passes : i \in Held(p)' /\ i \in Held(q)' => p = q
      BY <1>12, <3>1 DEF HeldOnce
    <3>3. \A p \in Passes : i \in Held(p)' =>
            ~row'[i].delivered /\ mailed'[i] = IF i \in Sent(p)' THEN 1 ELSE 0
      BY <1>12, <3>1 DEF HeldOnce
    <3>4. ASSUME ~row'[i].delivered, Exists(i)', \A p \in Passes : i \notin Held(p)'
          PROVE  mailed'[i] = 0
      <4>1. CASE \E p \in Passes : i \in Held(p)
        <5>1. PICK p \in Passes : i \in Held(p)
          BY <4>1
        <5>2. p \in Gone
          BY <1>12, <3>4, <5>1
        <5>3. i \notin Sent(p)
          BY <1>7, <2>1, <5>2
        <5> QED
          BY <3>1, <5>1, <5>3 DEF HeldOnce
      <4>2. CASE \A p \in Passes : i \notin Held(p)
        BY <3>1, <3>4, <4>2 DEF HeldOnce, Exists
      <4> QED
        BY <4>1, <4>2
    <3>5. HeldOnce(i)'
      BY <3>2, <3>3, <3>4 DEF HeldOnce
    <3>6. KeptOnce(i)'
      <4>1. i \in Waiting' => i \in Waiting
        BY <3>1 DEF Waiting
      <4>2. ASSUME NEW v \in Workers
            PROVE  /\ i \in digest'[v].keep => i \in digest[v].keep
                   /\ i \in digest'[v].keep /\ ToSend(v)' => ToSend(v)
                   /\ i \in Waiting' /\ i \in SentIn(v) => i \in SentIn(v)'
        BY <1>5, <1>7, <1>13, <2>1
      <4> QED
        BY <3>1, <4>1, <4>2, KeptStays
    <3> QED
      BY <3>1, <3>5, <3>6
  <2> QED
    BY <1>1, <2>1 DEF OnceInv
<1> QED
  BY <1>2, <1>3, <1>8, <1>9, <1>10, <1>11, <1>14 DEF IInv

-----------------------------------------------------------------------------
(* Every step *)

LEMMA InitHolds ==
  ASSUME Init
  PROVE  IInv
<1>1. row = <<>> /\ inbox = <<>> /\ slot = 1 /\ transport = TRUE /\ leader \in Workers
      /\ paused = [w \in Workers |-> FALSE] /\ pass = [p \in Passes |-> NoPass]
      /\ digest = [w \in Workers |-> NoDigest]
      /\ mailed = [i \in Rows |-> 0] /\ excused = {} /\ uncertain = {}
      /\ user \in [optedIn : {TRUE}, choice : {None}, stamp : {0}, failures : {0}]
  BY DEF Init
<1>2. row \in Seq(RowRow) /\ Len(row) = 0 /\ inbox \in Seq(1..Len(row)) /\ Len(inbox) = 0
  BY <1>1
<1>3. InboxInv
  BY <1>2, Numbers DEF InboxInv
<1>4. UserInv /\ user.failures = 0
  <2>1. user \in UserRow /\ user.stamp = 0 /\ user.failures = 0
    <3>1. \A T, C, Z : user \in [optedIn : T, choice : C, stamp : Z, failures : Z]
            => /\ user = [optedIn |-> user.optedIn, choice |-> user.choice,
                          stamp |-> user.stamp, failures |-> user.failures]
               /\ user.optedIn \in T /\ user.choice \in C
               /\ user.stamp \in Z /\ user.failures \in Z
      OBVIOUS
    <3>2. /\ user = [optedIn |-> user.optedIn, choice |-> user.choice,
                     stamp |-> user.stamp, failures |-> user.failures]
          /\ user.optedIn \in {TRUE} /\ user.choice \in {None}
          /\ user.stamp \in {0} /\ user.failures \in {0}
      BY <1>1, <3>1, Zenon
    <3>3. user.optedIn \in BOOLEAN
      BY <3>2, Zenon
    <3>4. user.stamp = 0 /\ user.failures = 0 /\ user.choice \in Modes \cup {None}
      BY <3>2
    <3> QED
      BY <3>2, <3>3, <3>4 DEF UserRow
  <2> QED
    BY <1>1, <2>1 DEF UserInv
<1>5. HistoryInv
  BY <1>1 DEF HistoryInv
<1>6. PassInv
  <2>1. \A p \in Passes : pass[p] = NoPass
    BY <1>1
  <2> QED
    BY <1>1, <2>1, NoPassIs, EmptyOK DEF PassInv
<1>7. DigestInv
  <2>1. \A w \in Workers : digest[w] = NoDigest
    BY <1>1
  <2>2. DigestOK(NoDigest)
    BY <1>1, NoDigestIs, TodosAre DEF DigestOK
  <2> QED
    BY <1>1, <2>1, <2>2, NoDigestIs DEF DigestInv
<1>8. OnceInv /\ RecordedIsMailed
  BY <1>1, <1>2 DEF OnceInv, RecordedIsMailed
<1>9. FailsInv
  BY <1>4, FailsCount, Numbers DEF FailsInv
<1> QED
  BY <1>3, <1>4, <1>5, <1>6, <1>7, <1>8, <1>9 DEF IInv

LEMMA StutterKeeps ==
  ASSUME IInv, UNCHANGED vars
  PROVE  IInv'
<1>1. UNCHANGED <<row, inbox, user, config, pass, digest, history, leader, paused>>
  BY DEF vars
<1>2. leader' \in Workers /\ paused' \in [Workers -> BOOLEAN]
  BY <1>1 DEF IInv, UserInv
<1> QED
  BY <1>1, <1>2, QuietKeeps

LEMMA LockKeeps ==
  ASSUME IInv, NEW w \in Workers, Resumes(w) \/ LeadershipMoves(w)
  PROVE  IInv'
<1>1. UNCHANGED <<row, inbox, user, config, pass, digest, history>>
  BY DEF Resumes, LeadershipMoves, Process, history
<1>2. leader' \in Workers /\ paused' \in [Workers -> BOOLEAN]
  BY DEF Resumes, LeadershipMoves, IInv, UserInv
<1> QED
  BY <1>1, <1>2, QuietKeeps

LEMMA NextHolds ==
  ASSUME IInv, [Next]_vars
  PROVE  IInv'
<1>1. CASE fanOut
  BY <1>1, FanOutDoes, WebKept
<1>2. ASSUME NEW k \in Kinds, Notifies(k) PROVE IInv'
  BY <1>2, InsertedDoes, WebKept DEF Notifies
<1>3. ASSUME NEW i \in 1..Len(row), markRead(i) PROVE IInv'
  BY <1>3, ReadDoes, WebKept
<1>4. CASE pruneNotifications
  BY <1>4, PruneDoes, WebKept
<1>5. ASSUME NEW c \in Modes \cup {None}, setUserEmailDigest(c) PROVE IInv'
  BY <1>5, SettingsDo, WebKept
<1>6. CASE SwitchesMail \/ updateDigestSettings \/ TransportChanges \/ SlotPasses
  <2>1. None \in Modes \cup {None}
    OBVIOUS
  <2> QED
    BY <1>6, <2>1, SettingsDo, WebKept
<1>7. ASSUME NEW p \in Passes,
             PassStep(p) \/ RowFails(p) \/ Throttled(p) \/ PassFails(p)
      PROVE  IInv'
  BY <1>7, DeliverKeeps, SendKeeps, MarkDelivers, RowFailsKeeps, PassQuits DEF PassStep
<1>8. ASSUME NEW w \in Workers, SweepStep(w)
      PROVE  IInv'
  BY <1>8, SweepBegins, LoadKeeps, DropKeeps, SendDigestKeeps, SettleKeeps, StampKeeps
     DEF SweepStep
<1>9. ASSUME NEW w \in Workers,
             \/ DigestFails(w) \/ DigestThrottled(w) \/ SweepFails(w)
             \/ Resumes(w) \/ LeadershipMoves(w) \/ Crash(w)
      PROVE  IInv'
  BY <1>9, DigestFailsKeeps, SweepQuits, LockKeeps, CrashKeeps
<1>10. CASE UNCHANGED vars
  BY <1>10, StutterKeeps
<1> QED
  BY <1>1, <1>2, <1>3, <1>4, <1>5, <1>6, <1>7, <1>8, <1>9, <1>10 DEF Next

LEMMA IInvHolds == Spec => []IInv
<1>1. Init => IInv
  BY InitHolds
<1>2. IInv /\ [Next]_vars => IInv'
  BY NextHolds
<1> QED
  BY <1>1, <1>2, PTL DEF Spec

-----------------------------------------------------------------------------
(* Theorems *)

\* The inbox is a set of rows, what a delivery sweep (deliver.ts) holds and a digest keeps
\* (digest.ts) are rows, a digest is of a slot whose hour has come, and the failures of
\* email_digest_failures go beyond MAX_ATTEMPTS - 1 by one per worker at most: workers that
\* sweep side by side each count theirs.
THEOREM NotifyTypeCorrect == Spec => []TypeOK
<1>1. ASSUME IInv PROVE TypeOK
  <2>1. InboxInv /\ UserInv /\ HistoryInv /\ PassInv /\ DigestInv /\ FailsInv
    BY <1>1 DEF IInv
  <2>2. row \in Seq(RowRow) /\ inbox \in Seq(1..Len(row)) /\ Cardinality(ToSet(inbox)) = Len(inbox)
    BY <2>1, DistinctCount DEF InboxInv
  <2>3. \A i \in 1..Len(row) : row[i].state # None => row[i].delivered /\ row[i].kind # "message"
    BY <2>1 DEF InboxInv, RowOK
  <2>4. user \in [optedIn : BOOLEAN, choice : Modes \cup {None}, stamp : 0..slot,
                  failures : 0..(MaxAttempts - 1 + Cardinality(Workers))]
    <3>1. user \in UserRow /\ user.stamp \in Nat /\ user.failures \in Nat
          /\ slot \in Nat /\ user.stamp <= slot
      BY <2>1 DEF UserInv, UserRow
    <3>2. user.failures <= MaxAttempts - 1 + Cardinality(Workers)
      BY <2>1, <3>1, FailsCount, Numbers DEF FailsInv
    <3>3. user.stamp \in 0..slot
          /\ user.failures \in 0..(MaxAttempts - 1 + Cardinality(Workers))
      BY <3>1, <3>2, Numbers
    <3> QED
      BY <3>1, <3>3 DEF UserRow
  <2>5. leader \in Workers /\ paused \in [Workers -> BOOLEAN]
    BY <2>1 DEF UserInv
  <2>6. \A p \in Passes : Held(p) \subseteq 1..Len(row)
    BY <2>1 DEF PassInv, LeftOK, EntryOK, Held
  <2>7. \A w \in Workers : digest[w].slot <= slot /\ digest[w].keep \subseteq 1..Len(row)
    BY <2>1 DEF DigestInv, DigestOK
  <2> QED
    BY <2>1, <2>2, <2>3, <2>4, <2>5, <2>6, <2>7 DEF TypeOK, HistoryInv, RowRow
<1> QED
  BY <1>1, IInvHolds, PTL

\* No row is mailed twice, at once or in a digest or both, whatever is coalesced into it by
\* fanOut, switched, throttled or swept by several workers, unless its send went unrecorded
\* or two sweeps of deliverPendingNotifications or runDigestSweep held it.
THEOREM MailedOnce == Spec => []MailedOnceUnlessUncertain
<1>1. ASSUME IInv PROVE MailedOnceUnlessUncertain
  <2>1. ASSUME NEW i \in Rows \ uncertain PROVE mailed[i] <= 1
    <3>1. Len(row) \in Nat /\ OnceInv
      BY <1>1, RowIds DEF IInv
    <3>2. CASE i \in 1..Len(row)
      BY <2>1, <3>1, <3>2 DEF OnceInv
    <3>3. CASE i \notin 1..Len(row)
      <4>1. i \in Nat \ {0} /\ i > Len(row)
        BY <2>1, <3>1, <3>3, Numbers DEF Rows
      <4>2. mailed[i] = 0
        BY <2>1, <3>1, <4>1 DEF OnceInv
      <4> QED
        BY <4>2
    <3> QED
      BY <3>2, <3>3
  <2> QED
    BY <2>1 DEF MailedOnceUnlessUncertain
<1> QED
  BY <1>1, IInvHolds, PTL

\* A row that markDelivered has marked and that is neither left to a digest nor excused was
\* mailed, and so was every row that settle has set to sent, after failures, crashes,
\* overlaps and switches too.
THEOREM RecordsAreTrue == Spec => []RecordedIsMailed
<1>1. IInv => RecordedIsMailed
  BY DEF IInv
<1> QED
  BY <1>1, IInvHolds, PTL
=============================================================================
