------------------------ MODULE ProposalReviewProofs ------------------------
(***************************************************************************)
(* Safety of the review pipeline for any number of proposals, uploads and  *)
(* concurrent requests.  The properties about published versions rest on   *)
(* what a transaction knows while it holds its locks: the revision its     *)
(* reviewer pinned is still the latest one, the gate has judged the very   *)
(* payload it will insert, and its semver is above every committed one.    *)
(* IInv says so for each point of a transaction, with the mutual exclusion *)
(* that keeps it true while other requests run.  From it and from AskInv   *)
(* follows, at the end, that the review implements ReviewLedger.           *)
(***************************************************************************)
EXTENDS ProposalReview, FiniteSetTheorems, TLAPS

\* A proposal that is there has a revision and a semver; one that is not has none.
RowsInv ==
    \A p \in Proposals :
        /\ Exists(p) => Len(revs[p]) >= 1 /\ prop[p].semver \in Semvers
        /\ ~Exists(p) => Len(revs[p]) = 0

\* The points at which the gates have been passed.
PastGate(q) == q.pc \in {"skill", "read", "insert"} \/ (q.pc = "slug" /\ q.act = "publish")

\* Control: what a request carries at each point.
Carries(q) ==
    /\ q.pc \in {"begin", "delete"} => q.p \in Proposals
    /\ q.pc = "begin" => q.act \in Actions
    /\ q.pc = "create" => q.pay \in Payload /\ q.semver \in Semvers
    /\ q.pc \in {"cleanup", "erase", "unreport"} => q.old \in Keys
    /\ q.pc \in InTransaction => q.act \in {"accept", "publish"} /\ q.semver \in Semvers
    /\ q.pc \in InTransaction /\ q.act = "publish" =>
          q.pay \in Payload /\ q.seen = q.pay /\ q.p = NoProposal
    /\ q.pc \in InTransaction \cup {"begin"} /\ q.act = "accept" =>
          q.p \in Proposals /\ q.seen \in Payload /\ q.pin >= 1

\* The pinned revision, once submitted, is what the reviewer saw; under the lock
\* it is the latest one.
PinInv(q) ==
    /\ q.pc \in {"begin", "delete"} => prop[q.p].state # "none"
    /\ q.pc \in InTransaction \cup {"begin"} /\ q.act = "accept" /\ Exists(q.p) =>
          q.pin <= Len(revs[q.p]) /\ revs[q.p][q.pin] = q.seen
    /\ q.pc \in InTransaction /\ q.act = "accept" =>
          /\ prop[q.p].state = "under_review"
          /\ Len(revs[q.p]) = q.pin
          /\ q.pay # NoPayload => q.pin < MaxRevisions

\* The payload a transaction will insert, in terms of the request alone.
Inserted(q) == IF q.pay # NoPayload THEN q.pay ELSE q.seen

\* What the gate judged is what will be inserted.
GateInv(q) ==
    PastGate(q) =>
        /\ q.judged.key = Inserted(q).key
        /\ q.override \/ q.judged.verdict \in Passes(q.act)

\* A request about to insert is above every committed version.
OrderInv(q) ==
    q.pc = "insert" => \A i \in 1..Len(versions) : versions[i].semver < q.semver

Exclusive ==
    \A r, x \in Requests : r # x =>
        /\ ~(LocksSkill(r) /\ LocksSkill(x))
        /\ \A p \in Proposals : ~(LocksProposal(r, p) /\ LocksProposal(x, p))

ReqInv(q) == Carries(q) /\ PinInv(q) /\ GateInv(q) /\ OrderInv(q)

IInv ==
    /\ TypeOK /\ RowsInv /\ Exclusive
    /\ \A r \in Requests : ReqInv(req[r])
    /\ PublishedAsReviewed /\ PublishedAsJudged /\ SemversIncrease

-----------------------------------------------------------------------------
\* An idle request is a request, and carries nothing.
LEMMA IdleRequest == Idle \in Request /\ ReqInv(Idle)
<1>1. Idle \in Request
  BY ReviewAssumption DEF Idle, Request, Pcs, AllCalls, Actions, NoPayload, Verdict
<1>2. ReqInv(Idle)
  BY DEF Idle, ReqInv, Carries, PinInv, GateInv, OrderInv, PastGate, InTransaction
<1> QED
  BY <1>1, <1>2

\* Under the locks, what a transaction publishes is what its request records.
LEMMA EffectiveIsInserted ==
  ASSUME IInv, NEW r \in Requests, req[r].pc \in InTransaction
  PROVE  Effective(r) = Inserted(req[r]) /\ Inserted(req[r]) \in Payload
<1>1. req[r] \in Request /\ ReqInv(req[r])
  BY DEF IInv, TypeOK
<1>2. CASE req[r].act = "accept"
  <2>1. /\ Len(revs[req[r].p]) = req[r].pin /\ req[r].pin >= 1
        /\ req[r].seen \in Payload /\ req[r].p \in Proposals
    BY <1>1, <1>2 DEF ReqInv, Carries, PinInv
  <2>2. req[r].pin \in Nat
    BY <1>1, ReviewAssumption DEF Request
  <2>3. latestPayload(req[r].p) = req[r].seen
    BY <1>1, <1>2, <2>1, <2>2 DEF ReqInv, PinInv, latestPayload, Exists, ProposalState
  <2> QED
    BY <1>1, <2>1, <2>3 DEF Effective, Inserted, Request
<1>3. CASE req[r].act = "publish"
  <2>1. req[r].pay \in Payload
    BY <1>1, <1>3 DEF ReqInv, Carries
  <2>2. req[r].pay # NoPayload
    BY <2>1, ReviewAssumption DEF Payload, NoPayload
  <2> QED
    BY <2>1, <2>2 DEF Effective, Inserted
<1> QED
  BY <1>1, <1>2, <1>3 DEF ReqInv, Carries

\* A step of request r that changes no committed row: only what r holds after it
\* has to be shown.
LEMMA RequestFrame ==
  ASSUME IInv, NEW r \in Requests, NEW q \in Request,
         req' = [req EXCEPT ![r] = q],
         UNCHANGED dbVars,
         object' \in [Keys -> BOOLEAN], report' \in [Keys -> Verdict],
         av' \in Keys \cup {NoKey},
         ReqInv(q),
         q.pc \in {"read", "insert"} => \A x \in Requests \ {r} : ~LocksSkill(x),
         q.pc \in InTransaction /\ q.act = "accept" =>
             LocksProposal(r, q.p) \/ ProposalFree(q.p)
  PROVE  IInv'
<1> USE DEF dbVars
<1>1. req'[r] = q /\ \A x \in Requests \ {r} : req'[x] = req[x]
  BY DEF IInv, TypeOK
<1>2. TypeOK'
  BY DEF IInv, TypeOK
<1>3. RowsInv'
  BY DEF IInv, RowsInv, Exists
<1>4. \A x \in Requests : ReqInv(req[x])'
  <2>1. \A z : ReqInv(z)' = ReqInv(z)
    BY DEF ReqInv, Carries, PinInv, GateInv, OrderInv, Exists
  <2> QED
    BY <1>1, <2>1 DEF IInv, ReqInv, Carries, PinInv, GateInv, OrderInv, PastGate, Inserted
<1>5. Exclusive'
  <2> SUFFICES ASSUME NEW x \in Requests \ {r}
               PROVE  /\ ~(LocksSkill(r)' /\ LocksSkill(x)')
                      /\ \A p \in Proposals : ~(LocksProposal(r, p)' /\ LocksProposal(x, p)')
    BY <1>1 DEF IInv, Exclusive, LocksSkill, LocksProposal
  <2>1. LocksSkill(x)' = LocksSkill(x) /\ (\A p : LocksProposal(x, p)' = LocksProposal(x, p))
    BY <1>1 DEF LocksSkill, LocksProposal
  <2>2. ~(LocksSkill(r)' /\ LocksSkill(x)')
    BY <1>1, <2>1 DEF LocksSkill
  <2>3. ASSUME NEW p \in Proposals, LocksProposal(r, p)', LocksProposal(x, p)'
        PROVE  FALSE
    <3>1. q.pc \in InTransaction /\ q.act = "accept" /\ q.p = p
      BY <1>1, <2>3 DEF LocksProposal
    <3> QED
      BY <2>1, <2>3, <3>1 DEF IInv, Exclusive, ProposalFree
  <2> QED
    BY <2>2, <2>3
<1>6. PublishedAsReviewed' /\ PublishedAsJudged' /\ SemversIncrease'
  BY DEF IInv, PublishedAsReviewed, PublishedAsJudged, SemversIncrease
<1> QED
  BY <1>2, <1>3, <1>4, <1>5, <1>6 DEF IInv

\* A step of request r that changes proposal rows nobody else holds locked: the
\* history of a proposal only grows until it is deleted, so what the other
\* requests know of it stays true.
RowStep(r, p) ==
    \/ prop'[p] = prop[p] /\ revs'[p] = revs[p]
    \/ /\ prop'[p].state # "none"
       /\ \A x \in Requests \ {r} : ~LocksProposal(x, p)
       /\ Exists(p)' => \/ prop[p].state = "none"
                        \/ /\ Exists(p) /\ Len(revs'[p]) >= Len(revs[p])
                           /\ \A i \in 1..Len(revs[p]) : revs'[p][i] = revs[p][i]

\* A row step of request r leaves what another request x knows true.
LEMMA OthersKeep ==
  ASSUME IInv, NEW r \in Requests, NEW x \in Requests \ {r},
         req'[x] = req[x],
         \A p \in Proposals : RowStep(r, p),
         revs' \in [Proposals -> Seq(Payload)],
         versions' = versions \/ ~LocksSkill(x)
  PROVE  ReqInv(req[x])'
<1> DEFINE q == req[x]
<1>1. q \in Request /\ ReqInv(q)
  BY DEF IInv, TypeOK
<1>2. Carries(q)' /\ GateInv(q)'
  BY <1>1 DEF ReqInv, Carries, GateInv, PastGate, Inserted
<1>3. OrderInv(q)'
  BY <1>1 DEF ReqInv, OrderInv, LocksSkill
<1>4. PinInv(q)'
  <2>1. CASE q.p \notin Proposals
    BY <1>1, <2>1 DEF ReqInv, PinInv, Carries
  <2>2. CASE q.p \in Proposals /\ prop'[q.p] = prop[q.p] /\ revs'[q.p] = revs[q.p]
    BY <1>1, <2>2 DEF ReqInv, PinInv, Exists
  <2>3. CASE /\ q.p \in Proposals
             /\ prop'[q.p].state # "none"
             /\ ~LocksProposal(x, q.p)
             /\ Exists(q.p)' => \/ prop[q.p].state = "none"
                                \/ /\ Exists(q.p) /\ Len(revs'[q.p]) >= Len(revs[q.p])
                                   /\ \A i \in 1..Len(revs[q.p]) : revs'[q.p][i] = revs[q.p][i]
    <3>1. ~(q.pc \in InTransaction /\ q.act = "accept")
      BY <2>3 DEF LocksProposal
    <3>2. ASSUME q.pc = "begin", q.act = "accept", Exists(q.p)'
          PROVE  q.pin <= Len(revs'[q.p]) /\ revs'[q.p][q.pin] = q.seen
      <4>1. prop[q.p].state # "none" /\ q.pin >= 1
        BY <1>1, <3>2 DEF ReqInv, PinInv, Carries
      <4>2. /\ Exists(q.p) /\ Len(revs'[q.p]) >= Len(revs[q.p])
            /\ \A i \in 1..Len(revs[q.p]) : revs'[q.p][i] = revs[q.p][i]
        BY <2>3, <3>2, <4>1
      <4>3. q.pin <= Len(revs[q.p]) /\ revs[q.p][q.pin] = q.seen
        BY <1>1, <3>2, <4>2 DEF ReqInv, PinInv
      <4>4. Len(revs[q.p]) \in Nat /\ q.pin \in Nat /\ Len(revs'[q.p]) \in Nat
        BY <1>1, <2>3, ReviewAssumption DEF IInv, TypeOK, Request
      <4> QED
        BY <4>1, <4>2, <4>3, <4>4
    <3> QED
      BY <2>3, <3>1, <3>2 DEF PinInv
  <2> QED
    BY <2>1, <2>2, <2>3 DEF RowStep
<1> QED
  BY <1>2, <1>3, <1>4 DEF ReqInv

-----------------------------------------------------------------------------
\* A request that ends without having changed a row.
LEMMA FinishFrame ==
  ASSUME IInv, NEW r \in Requests, Finish(r), UNCHANGED dbVars,
         object' \in [Keys -> BOOLEAN], report' \in [Keys -> Verdict],
         av' \in Keys \cup {NoKey}
  PROVE  IInv'
<1>1. Idle.pc \notin InTransaction
  BY DEF Idle, InTransaction
<1> QED
  BY <1>1, IdleRequest, RequestFrame DEF Finish, InTransaction

\* A request that moves on to l without having changed a row.
LEMMA GotoFrame ==
  ASSUME IInv, NEW r \in Requests, NEW l \in Pcs, Goto(r, l), UNCHANGED dbVars,
         object' \in [Keys -> BOOLEAN], report' \in [Keys -> Verdict],
         av' \in Keys \cup {NoKey},
         ReqInv([req[r] EXCEPT !.pc = l]),
         l \in {"read", "insert"} => \A x \in Requests \ {r} : ~LocksSkill(x),
         l \in InTransaction => req[r].pc \in InTransaction
  PROVE  IInv'
<1> DEFINE q == [req[r] EXCEPT !.pc = l]
<1>1. req[r] \in Request
  BY DEF IInv, TypeOK
<1>2. q \in Request /\ q.pc = l /\ q.act = req[r].act /\ q.p = req[r].p
  BY <1>1 DEF Request
<1>3. req' = [req EXCEPT ![r] = q]
  BY DEF Goto, IInv, TypeOK
<1>4. q.pc \in InTransaction /\ q.act = "accept" => LocksProposal(r, q.p) \/ ProposalFree(q.p)
  BY <1>2 DEF LocksProposal
<1> QED
  BY <1>2, <1>3, <1>4, RequestFrame

\* A step that leaves the store alone keeps its types.
LEMMA StoreTypes ==
  ASSUME IInv, UNCHANGED storeVars
  PROVE  /\ object' \in [Keys -> BOOLEAN] /\ report' \in [Keys -> Verdict]
         /\ av' \in Keys \cup {NoKey}
BY DEF IInv, TypeOK, storeVars

-----------------------------------------------------------------------------
\* A new request starts with what its route has read.
LEMMA SubmitsIInv ==
  ASSUME IInv, NEW r \in Requests, Submits(r)
  PROVE  IInv'
<1> USE ReviewAssumption
<1>1. ASSUME NEW pay \in Payload, NEW s \in Semvers, SubmitCreate(r, pay, s)
      PROVE  IInv'
  <2> DEFINE q == [Idle EXCEPT !.pc = "create", !.act = "create", !.pay = pay,
                               !.semver = s, !.target = skill]
  <2>1. q \in Request
    <3>1. s \in 0..MaxSemver /\ skill \in BOOLEAN
      BY DEF Semvers, IInv, TypeOK
    <3>2. "create" \in AllCalls /\ "publish" \in AllCalls
      BY DEF AllCalls
    <3> QED
      BY IdleRequest, <3>1, <3>2 DEF Request, Pcs
  <2>2. ReqInv(q)
    BY DEF Idle, ReqInv, Carries, PinInv, GateInv, OrderInv, PastGate, InTransaction
  <2>3. q.pc \notin InTransaction
    BY DEF Idle, InTransaction
  <2>4. req' = [req EXCEPT ![r] = q] /\ UNCHANGED dbVars /\ UNCHANGED storeVars
    BY <1>1 DEF SubmitCreate, Arrive, dbVars, storeVars
  <2> QED
    BY <2>1, <2>2, <2>3, <2>4, StoreTypes, RequestFrame DEF InTransaction
<1>2. ASSUME NEW a \in Actions, NEW p \in Proposals, NEW pay \in Payload \cup {NoPayload},
             NEW s \in 0..MaxSemver, NEW o \in BOOLEAN, SubmitAction(r, a, p, pay, s, o)
      PROVE  IInv'
  <2> DEFINE q == [Idle EXCEPT !.pc = "begin", !.act = a, !.p = p, !.pay = pay,
                     !.semver = s, !.override = o,
                     !.pin = IF a = "accept" THEN Len(revs[p]) ELSE 0,
                     !.seen = IF a = "accept" THEN latestPayload(p) ELSE NoPayload]
  <2>1. /\ Len(revs[p]) \in 0..MaxRevisions /\ Len(revs[p]) >= 1
        /\ latestPayload(p) = revs[p][Len(revs[p])] /\ latestPayload(p) \in Payload
    BY <1>2 DEF IInv, TypeOK, RowsInv, SubmitAction, latestPayload
  <2>2. q \in Request
    <3> DEFINE pin == IF a = "accept" THEN Len(revs[p]) ELSE 0
               seen == IF a = "accept" THEN latestPayload(p) ELSE NoPayload
    <3>1. pin \in 0..MaxRevisions /\ seen \in Payload \cup {NoPayload}
      BY <2>1
    <3>2. a \in AllCalls
      BY DEF AllCalls
    <3> HIDE DEF pin, seen
    <3>3. [Idle EXCEPT !.pc = "begin", !.act = a, !.p = p, !.pay = pay, !.semver = s,
                       !.override = o, !.pin = pin, !.seen = seen] \in Request
      BY IdleRequest, <3>1, <3>2 DEF Request, Pcs
    <3> QED
      BY <3>3 DEF pin, seen
  <2>3. ReqInv(q)
    <3>1. prop[p].state # "none"
      BY <1>2 DEF SubmitAction, Exists, ProposalState
    <3> QED
      BY <2>1, <3>1 DEF Idle, ReqInv, Carries, PinInv, GateInv, OrderInv, PastGate, InTransaction
  <2>4. q.pc \notin InTransaction
    BY DEF Idle, InTransaction
  <2>5. req' = [req EXCEPT ![r] = q] /\ UNCHANGED dbVars /\ UNCHANGED storeVars
    BY <1>2 DEF SubmitAction, Arrive, dbVars, storeVars
  <2> QED
    BY <2>2, <2>3, <2>4, <2>5, StoreTypes, RequestFrame DEF InTransaction
<1>3. ASSUME NEW pay \in Payload, NEW s \in Semvers, NEW o \in BOOLEAN,
             SubmitPublish(r, pay, s, o)
      PROVE  IInv'
  <2> DEFINE q == [Idle EXCEPT !.pc = "gate", !.act = "publish", !.pay = pay,
                               !.semver = s, !.target = skill, !.override = o, !.seen = pay]
  <2>1. q \in Request
    <3>1. s \in 0..MaxSemver /\ skill \in BOOLEAN
      BY DEF Semvers, IInv, TypeOK
    <3>2. "create" \in AllCalls /\ "publish" \in AllCalls
      BY DEF AllCalls
    <3> QED
      BY IdleRequest, <3>1, <3>2 DEF Request, Pcs
  <2>2. ReqInv(q)
    BY DEF Idle, ReqInv, Carries, PinInv, GateInv, OrderInv, PastGate, InTransaction
  <2>3. q.pc = "gate" /\ q.act = "publish"
    BY DEF Idle
  <2>4. req' = [req EXCEPT ![r] = q] /\ UNCHANGED dbVars /\ UNCHANGED storeVars
    BY <1>3 DEF SubmitPublish, Arrive, dbVars, storeVars
  <2> QED
    BY <2>1, <2>2, <2>3, <2>4, StoreTypes, RequestFrame
<1>4. ASSUME NEW p \in Proposals, SubmitDelete(r, p)
      PROVE  IInv'
  <2> DEFINE q == [Idle EXCEPT !.pc = "delete", !.act = "delete", !.p = p]
  <2>1. q \in Request
    BY IdleRequest DEF Request, Pcs, AllCalls
  <2>2. ReqInv(q)
    BY <1>4 DEF Idle, ReqInv, Carries, PinInv, GateInv, OrderInv, PastGate, InTransaction,
                SubmitDelete, Exists, ProposalState
  <2>3. q.pc \notin InTransaction
    BY DEF Idle, InTransaction
  <2>4. req' = [req EXCEPT ![r] = q] /\ UNCHANGED dbVars /\ UNCHANGED storeVars
    BY <1>4 DEF SubmitDelete, Arrive, dbVars, storeVars
  <2> QED
    BY <2>1, <2>2, <2>3, <2>4, StoreTypes, RequestFrame DEF InTransaction
<1> QED
  BY <1>1, <1>2, <1>3, <1>4 DEF Submits

-----------------------------------------------------------------------------
\* The lock of the proposal makes the pin, checked once, stay current.
LEMMA AcceptBeginsIInv ==
  ASSUME IInv, NEW r \in Requests, AcceptBegins(r)
  PROVE  IInv'
<1> DEFINE l == IF prop[req[r].p].target THEN "gate" ELSE "slug"
           q == [req[r] EXCEPT !.target = prop[req[r].p].target,
                               !.semver = prop[req[r].p].semver, !.pc = l]
<1>1. req[r] \in Request /\ ReqInv(req[r]) /\ req[r].pc = "begin" /\ req[r].act = "accept"
  BY DEF IInv, TypeOK, AcceptBegins
<1>2. req[r].p \in Proposals /\ req[r].seen \in Payload /\ req[r].pin >= 1
  BY <1>1 DEF ReqInv, Carries
<1>3. prop[req[r].p].state = "under_review" /\ Exists(req[r].p)
  BY <1>1 DEF AcceptBegins, Permitted, canPerform, TRANSITIONS, Exists, ProposalState
<1>4. /\ Len(revs[req[r].p]) = req[r].pin /\ revs[req[r].p][req[r].pin] = req[r].seen
      /\ req[r].pay # NoPayload => req[r].pin < MaxRevisions
  BY <1>1, <1>3 DEF AcceptBegins, Permitted, ReqInv, PinInv
<1>5. prop[req[r].p] \in Row /\ prop[req[r].p].semver \in Semvers
  BY <1>2, <1>3 DEF IInv, TypeOK, RowsInv
<1>6. q \in Request
  <2>1. l \in Pcs /\ prop[req[r].p].target \in BOOLEAN /\ prop[req[r].p].semver \in 0..MaxSemver
    BY <1>5 DEF Pcs, Row
  <2> HIDE DEF l
  <2> QED
    BY <1>1, <2>1 DEF Request
<1>7. /\ q.pc = l /\ q.act = "accept" /\ q.p = req[r].p /\ q.seen = req[r].seen
      /\ q.pin = req[r].pin /\ q.pay = req[r].pay /\ q.semver = prop[req[r].p].semver
      /\ l \in {"gate", "slug"}
  BY <1>1 DEF Request
<1>8. req' = [req EXCEPT ![r] = q] /\ UNCHANGED dbVars /\ UNCHANGED storeVars
      /\ ProposalFree(q.p)
  BY <1>7 DEF AcceptBegins, IInv, TypeOK, dbVars, storeVars
<1> HIDE DEF q, l
<1>9. ReqInv(q)
  <2>1. Carries(q)
    BY <1>2, <1>5, <1>7 DEF Carries, InTransaction
  <2>2. PinInv(q)
    BY <1>3, <1>4, <1>7 DEF PinInv, InTransaction
  <2>3. GateInv(q) /\ OrderInv(q)
    BY <1>7 DEF GateInv, OrderInv, PastGate
  <2> QED
    BY <2>1, <2>2, <2>3 DEF ReqInv
<1> QED
  BY <1>6, <1>7, <1>8, <1>9, StoreTypes, RequestFrame

\* The gate judges the report of the payload that is going to be inserted.
LEMMA GateIInv ==
  ASSUME IInv, NEW r \in Requests, NEW trips \in BOOLEAN, NEW forbidden \in BOOLEAN,
         Gate(r, trips, forbidden)
  PROVE  IInv'
<1> DEFINE k == JudgedKey(r)
           b == req[r].act = "accept" /\ (report[k] \notin Passes("accept") \/ trips)
           q == [req[r] EXCEPT !.judged = [key |-> k, verdict |-> report[k]],
                               !.audited = b,
                               !.pc = AfterGate(r)]
<1>1. req[r] \in Request /\ ReqInv(req[r]) /\ req[r].pc = "gate"
  BY DEF IInv, TypeOK, Gate
<1>2. Effective(r) = Inserted(req[r]) /\ Inserted(req[r]) \in Payload
  BY <1>1, EffectiveIsInserted DEF InTransaction
<1>3. k = Inserted(req[r]).key /\ k \in Keys
  BY <1>2 DEF JudgedKey, Payload
<1>4. report[k] \in Verdict
  BY <1>3 DEF IInv, TypeOK
<1>5. req[r].override \/ report[k] \in Passes(req[r].act)
  BY DEF Gate
<1>6. req' = [req EXCEPT ![r] = q] /\ UNCHANGED dbVars /\ UNCHANGED storeVars
  BY DEF Gate, IInv, TypeOK, dbVars, storeVars
<1>7. AfterGate(r) \in {"slug", "skill"} /\ (AfterGate(r) = "slug" => req[r].act = "publish")
  BY DEF AfterGate
<1>b. b \in BOOLEAN
  OBVIOUS
<1> HIDE DEF k, b
<1>8. q \in Request
  <2> DEFINE j == [key |-> k, verdict |-> report[k]]
  <2>1. j \in [key : Keys \cup {NoKey}, verdict : Verdict]
    BY <1>3, <1>4
  <2>2. AfterGate(r) \in Pcs
    BY <1>7 DEF Pcs
  <2> HIDE DEF j
  <2>3. [req[r] EXCEPT !.judged = j, !.audited = b, !.pc = AfterGate(r)] \in Request
    BY <1>1, <1>b, <2>1, <2>2 DEF Request
  <2> QED
    BY <2>3 DEF j
<1>9. /\ q.pc = AfterGate(r) /\ q.act = req[r].act /\ q.p = req[r].p /\ q.seen = req[r].seen
      /\ q.pin = req[r].pin /\ q.pay = req[r].pay /\ q.semver = req[r].semver
      /\ q.judged.key = k /\ q.judged.verdict = report[k] /\ q.override = req[r].override
  BY <1>1 DEF Request
<1> HIDE DEF q
<1>10. ReqInv(q)
  <2>1. Carries(q) /\ PinInv(q)
    BY <1>1, <1>7, <1>9 DEF ReqInv, Carries, PinInv, InTransaction
  <2>2. GateInv(q)
    BY <1>3, <1>5, <1>9 DEF GateInv, Inserted
  <2>3. OrderInv(q)
    BY <1>7, <1>9 DEF OrderInv
  <2> QED
    BY <2>1, <2>2, <2>3 DEF ReqInv
<1>11. LocksProposal(r, req[r].p) \/ req[r].act # "accept"
  BY <1>1 DEF LocksProposal, InTransaction
<1> QED
  BY <1>6, <1>7, <1>8, <1>9, <1>10, <1>11, StoreTypes, RequestFrame

\* Moving a request to another point changes nothing else of it.
LEMMA MoveFields ==
  ASSUME NEW q \in Request, NEW l \in Pcs
  PROVE  LET z == [q EXCEPT !.pc = l]
         IN  /\ z.pc = l /\ z.act = q.act /\ z.p = q.p /\ z.pay = q.pay /\ z.semver = q.semver
             /\ z.override = q.override /\ z.pin = q.pin /\ z.seen = q.seen
             /\ z.judged = q.judged /\ z.old = q.old
BY DEF Request

\* The steps that only move a request along, or end it, keep IInv.
LEMMA MovesIInv ==
  ASSUME IInv, NEW r \in Requests,
         \/ Refuse(r) \/ LockSlug(r) \/ LockSkill(r) \/ ReadVersions(r)
         \/ FailStep(r) \/ DeadlockVictim(r)
         \/ CleanupCheck(r) \/ CleanupErase(r) \/ CleanupReport(r)
         \/ \E trips, forbidden \in BOOLEAN : GateRefuses(r, trips, forbidden)
  PROVE  IInv'
<1> DEFINE To(l) == [req[r] EXCEPT !.pc = l]
<1>1. req[r] \in Request /\ ReqInv(req[r])
  BY DEF IInv, TypeOK
<1>2. /\ \A l \in Pcs : LET z == To(l)
         IN  /\ z.pc = l /\ z.act = req[r].act /\ z.p = req[r].p /\ z.pay = req[r].pay
             /\ z.semver = req[r].semver /\ z.override = req[r].override
             /\ z.pin = req[r].pin /\ z.seen = req[r].seen
             /\ z.judged = req[r].judged /\ z.old = req[r].old
      /\ {"create", "gate", "skill", "read", "insert", "erase", "unreport"} \subseteq Pcs
  BY <1>1, MoveFields DEF Pcs
<1> HIDE DEF To
<1>3. CASE Refuse(r) \/ FailStep(r) \/ DeadlockVictim(r)
  BY <1>3, StoreTypes, FinishFrame DEF Refuse, FailStep, Rollback, CleanupFails, DeadlockVictim,
                                       dbVars, storeVars
<1>4. CASE LockSlug(r)
  <2>1. CASE Finish(r)
    BY <1>4, <2>1, StoreTypes, FinishFrame DEF LockSlug, dbVars, storeVars
  <2>2. CASE req[r].act = "accept" /\ Goto(r, "gate")
    <3>1. ReqInv(To("gate"))
      BY <1>1, <1>2, <1>4, <2>2 DEF LockSlug, ReqInv, Carries, PinInv, GateInv, OrderInv,
                                    PastGate, InTransaction
    <3> QED
      BY <1>2, <1>4, <2>2, <3>1, StoreTypes, GotoFrame
         DEF LockSlug, dbVars, storeVars, InTransaction, To
  <2>3. CASE req[r].act # "accept" /\ Goto(r, "skill")
    <3>1. ReqInv(To("skill"))
      BY <1>1, <1>2, <1>4, <2>3 DEF LockSlug, ReqInv, Carries, PinInv, GateInv, OrderInv,
                                    PastGate, InTransaction, Inserted
    <3> QED
      BY <1>2, <1>4, <2>3, <3>1, StoreTypes, GotoFrame
         DEF LockSlug, dbVars, storeVars, InTransaction, To
  <2> QED
    BY <1>4, <2>1, <2>2, <2>3 DEF LockSlug
<1>5. CASE LockSkill(r)
  <2>1. CASE Finish(r)
    BY <1>5, <2>1, StoreTypes, FinishFrame DEF LockSkill, dbVars, storeVars
  <2>2. CASE Goto(r, "read")
    <3>1. ReqInv(To("read"))
      BY <1>1, <1>2, <1>5 DEF LockSkill, ReqInv, Carries, PinInv, GateInv, OrderInv,
                              PastGate, InTransaction, Inserted
    <3> QED
      BY <1>2, <1>5, <2>2, <3>1, StoreTypes, GotoFrame
         DEF LockSkill, dbVars, storeVars, InTransaction, To
  <2> QED
    BY <1>5, <2>1, <2>2 DEF LockSkill
<1>6. CASE ReadVersions(r)
  <2>1. CASE Finish(r)
    BY <1>6, <2>1, StoreTypes, FinishFrame DEF ReadVersions, dbVars, storeVars
  <2>2. CASE (\A t \in SemversTaken : t < req[r].semver) /\ Goto(r, "insert")
    <3>1. \A i \in 1..Len(versions) : versions[i].semver < req[r].semver
      BY <2>2 DEF SemversTaken
    <3>2. ReqInv(To("insert"))
      BY <1>1, <1>2, <1>6, <3>1 DEF ReadVersions, ReqInv, Carries, PinInv, GateInv, OrderInv,
                                    PastGate, InTransaction, Inserted
    <3>3. \A x \in Requests \ {r} : ~LocksSkill(x)
      BY <1>6 DEF IInv, Exclusive, LocksSkill, ReadVersions
    <3> QED
      BY <1>2, <1>6, <2>2, <3>2, <3>3, StoreTypes, GotoFrame
         DEF ReadVersions, dbVars, storeVars, InTransaction, To
  <2> QED
    BY <1>6, <2>1, <2>2 DEF ReadVersions
<1>7. CASE CleanupCheck(r)
  <2>1. CASE Finish(r)
    BY <1>7, <2>1, StoreTypes, FinishFrame DEF CleanupCheck, dbVars, storeVars
  <2>2. CASE Goto(r, "erase")
    <3>1. ReqInv(To("erase"))
      BY <1>1, <1>2, <1>7 DEF CleanupCheck, ReqInv, Carries, PinInv, GateInv, OrderInv,
                              PastGate, InTransaction
    <3> QED
      BY <1>2, <1>7, <2>2, <3>1, StoreTypes, GotoFrame
         DEF CleanupCheck, dbVars, storeVars, InTransaction, To
  <2> QED
    BY <1>7, <2>1, <2>2 DEF CleanupCheck
<1>8. CASE CleanupErase(r)
  <2>1. ReqInv(To("unreport"))
    BY <1>1, <1>2, <1>8 DEF CleanupErase, ReqInv, Carries, PinInv, GateInv, OrderInv,
                            PastGate, InTransaction
  <2>2. /\ object' \in [Keys -> BOOLEAN] /\ report' \in [Keys -> Verdict]
        /\ av' \in Keys \cup {NoKey}
    BY <1>8 DEF CleanupErase, IInv, TypeOK
  <2> QED
    BY <1>2, <1>8, <2>1, <2>2, GotoFrame DEF CleanupErase, dbVars, InTransaction, To
<1>9. CASE CleanupReport(r)
  <2>1. /\ object' \in [Keys -> BOOLEAN] /\ report' \in [Keys -> Verdict]
        /\ av' \in Keys \cup {NoKey}
    BY <1>9 DEF CleanupReport, IInv, TypeOK, Verdict
  <2> QED
    BY <1>9, <2>1, FinishFrame DEF CleanupReport, dbVars
<1>10. CASE \E trips, forbidden \in BOOLEAN : GateRefuses(r, trips, forbidden)
  <2>0. req[r].pc = "gate" /\ UNCHANGED dbVars /\ UNCHANGED storeVars
        /\ (Finish(r) \/ (req[r].act = "publish" /\ Goto(r, "create")))
    BY <1>10 DEF GateRefuses, dbVars, storeVars
  <2>1. CASE Finish(r)
    BY <2>0, <2>1, StoreTypes, FinishFrame
  <2>2. CASE req[r].act = "publish" /\ Goto(r, "create")
    <3>1. ReqInv(To("create"))
      BY <1>1, <1>2, <2>0, <2>2 DEF ReqInv, Carries, PinInv, GateInv, OrderInv,
                                    PastGate, InTransaction
    <3> QED
      BY <1>2, <2>0, <2>2, <3>1, StoreTypes, GotoFrame DEF InTransaction, To
  <2> QED
    BY <2>0, <2>1, <2>2
<1> QED
  BY <1>3, <1>4, <1>5, <1>6, <1>7, <1>8, <1>9, <1>10

-----------------------------------------------------------------------------
\* A step of request r that changes rows and ends r's transaction.
LEMMA RowFrame ==
  ASSUME IInv, NEW r \in Requests, NEW q \in Request, req' = [req EXCEPT ![r] = q],
         q.pc \notin InTransaction, ReqInv(q)',
         \A p \in Proposals : RowStep(r, p),
         versions' = versions \/ (\A x \in Requests \ {r} : ~LocksSkill(x)),
         TypeOK', RowsInv', PublishedAsReviewed', PublishedAsJudged', SemversIncrease'
  PROVE  IInv'
<1>1. req'[r] = q /\ \A x \in Requests \ {r} : req'[x] = req[x]
  BY DEF IInv, TypeOK
<1>2. \A x \in Requests \ {r} : ReqInv(req[x])'
  BY <1>1, OthersKeep DEF TypeOK
<1>3. ReqInv(req[r])'
  BY <1>1 DEF ReqInv, Carries, PinInv, GateInv, OrderInv, PastGate, Inserted
<1>4. Exclusive'
  <2>1. ~LocksSkill(r)' /\ (\A p : ~LocksProposal(r, p)')
    BY <1>1 DEF LocksSkill, LocksProposal, InTransaction
  <2>2. \A x \in Requests \ {r} :
          LocksSkill(x)' = LocksSkill(x) /\ (\A p : LocksProposal(x, p)' = LocksProposal(x, p))
    BY <1>1 DEF LocksSkill, LocksProposal
  <2> QED
    BY <2>1, <2>2 DEF IInv, Exclusive
<1> QED
  BY <1>2, <1>3, <1>4 DEF IInv

\* The idle request knows nothing of the rows, before a step or after it.
LEMMA IdleAfter == ReqInv(Idle)' /\ Idle.pc \notin InTransaction
BY DEF Idle, ReqInv, Carries, PinInv, GateInv, OrderInv, PastGate, InTransaction

\* Steps that leave the versions alone keep what is known of them.
LEMMA VersionsFrame ==
  ASSUME IInv, versions' = versions
  PROVE  PublishedAsReviewed' /\ PublishedAsJudged' /\ SemversIncrease'
BY DEF IInv, PublishedAsReviewed, PublishedAsJudged, SemversIncrease

\* createProposal takes a fresh id, which no request refers to yet.
LEMMA CreateProposalIInv ==
  ASSUME IInv, NEW r \in Requests, CreateProposal(r)
  PROVE  IInv'
<1>1. req[r] \in Request /\ req[r].pay \in Payload /\ req[r].semver \in Semvers
  BY DEF IInv, TypeOK, ReqInv, Carries, CreateProposal
<1>2. req' = [req EXCEPT ![r] = Idle] /\ skill' = skill /\ versions' = versions /\ UNCHANGED storeVars
  BY DEF CreateProposal, Finish, storeVars
<1>3. CASE UNCHANGED <<prop, revs>>
  BY <1>2, <1>3, StoreTypes, FinishFrame DEF Finish, dbVars
<1>4. ASSUME NEW p \in Proposals, prop[p].state = "none",
             prop' = [prop EXCEPT ![p] = [state |-> "proposed", semver |-> req[r].semver,
                                          target |-> req[r].target]],
             revs' = [revs EXCEPT ![p] = <<req[r].pay>>]
      PROVE  IInv'
  <2>1. /\ prop'[p] = [state |-> "proposed", semver |-> req[r].semver, target |-> req[r].target]
        /\ revs'[p] = <<req[r].pay>> /\ Len(revs'[p]) = 1
        /\ \A x \in Proposals \ {p} : prop'[x] = prop[x] /\ revs'[x] = revs[x]
    BY <1>4 DEF IInv, TypeOK
  <2>2. prop'[p] \in Row /\ revs'[p] \in Seq(Payload)
    BY <1>1, <2>1 DEF Row, Request, ProposalState
  <2>3. TypeOK'
    BY <1>2, <1>4, <2>1, <2>2, IdleRequest, ReviewAssumption DEF IInv, TypeOK, storeVars
  <2>4. RowsInv'
    BY <1>1, <2>1 DEF IInv, RowsInv, Exists, ProposalState
  <2>5. \A x \in Proposals : RowStep(r, x)
    <3>1. \A x \in Requests \ {r} : ~LocksProposal(x, p)
      BY <1>4 DEF IInv, ReqInv, PinInv, LocksProposal
    <3> QED
      BY <1>4, <2>1, <3>1 DEF RowStep
  <2> QED
    BY <1>2, <2>3, <2>4, <2>5, IdleRequest, IdleAfter, VersionsFrame, RowFrame
<1> QED
  BY <1>3, <1>4 DEF CreateProposal

\* A deletion waits for the lock, so it disturbs no transaction under way.
LEMMA DeleteProposalIInv ==
  ASSUME IInv, NEW r \in Requests, DeleteProposal(r)
  PROVE  IInv'
<1> DEFINE p == req[r].p
<1>1. p \in Proposals
  BY DEF IInv, ReqInv, Carries, DeleteProposal
<1>2. /\ req' = [req EXCEPT ![r] = Idle] /\ skill' = skill /\ versions' = versions
      /\ UNCHANGED storeVars /\ ProposalFree(p)
      /\ prop' = [prop EXCEPT ![p].state = "deleted"] /\ revs' = [revs EXCEPT ![p] = <<>>]
  BY DEF DeleteProposal, Finish, storeVars
<1> HIDE DEF p
<1>3. /\ prop'[p].state = "deleted" /\ prop'[p] \in Row
      /\ revs'[p] = <<>> /\ Len(revs'[p]) = 0 /\ revs'[p] \in Seq(Payload)
      /\ \A x \in Proposals \ {p} : prop'[x] = prop[x] /\ revs'[x] = revs[x]
  <2>1. prop[p] \in Row /\ prop'[p] = [prop[p] EXCEPT !.state = "deleted"]
    BY <1>1, <1>2 DEF IInv, TypeOK
  <2>2. prop'[p].state = "deleted" /\ prop'[p] \in Row
    BY <2>1 DEF Row
  <2>3. revs'[p] = <<>>
    BY <1>1, <1>2 DEF IInv, TypeOK
  <2>4. \A x \in Proposals \ {p} : prop'[x] = prop[x] /\ revs'[x] = revs[x]
    BY <1>1, <1>2 DEF IInv, TypeOK
  <2> QED
    BY <2>2, <2>3, <2>4
<1>4. TypeOK'
  BY <1>1, <1>2, <1>3, IdleRequest, ReviewAssumption DEF IInv, TypeOK, storeVars
<1>5. RowsInv'
  BY <1>1, <1>3 DEF IInv, RowsInv, Exists, ProposalState
<1>6. \A x \in Proposals : RowStep(r, x)
  BY <1>1, <1>2, <1>3 DEF RowStep, ProposalFree, Exists, ProposalState
<1> QED
  BY <1>2, <1>4, <1>5, <1>6, IdleRequest, IdleAfter, VersionsFrame, RowFrame

\* No action starts from a row that is gone, nor leaves an open one elsewhere
\* than in a state of a proposal.
LEMMA ActionStates ==
  ASSUME NEW a \in Actions, NEW from, canPerform(a, from)
  PROVE  /\ from \in {"proposed", "under_review", "changes_requested"}
         /\ nextState(a, from) \in ProposalState
BY DEF Actions, canPerform, TRANSITIONS, nextState, ProposalState

\* Appending a revision or a version keeps the ones before it.
LEMMA AppendKeeps ==
  ASSUME NEW S, NEW s \in Seq(S), NEW e \in S
  PROVE  /\ Append(s, e) \in Seq(S) /\ Len(Append(s, e)) = Len(s) + 1
         /\ Append(s, e)[Len(s) + 1] = e /\ Len(s) \in Nat
         /\ \A i \in 1..Len(s) : Append(s, e)[i] = s[i]
OBVIOUS

\* A decision other than accept appends at most one revision under the lock.
LEMMA DecideIInv ==
  ASSUME IInv, NEW r \in Requests, Decide(r)
  PROVE  IInv'
<1> DEFINE q == req[r]
           p == q.p
<1>1. q \in Request /\ ReqInv(q) /\ q.pc = "begin"
  BY DEF IInv, TypeOK, Decide
<1>2. p \in Proposals /\ q.act \in Actions /\ Exists(p)
      /\ nextState(q.act, prop[p].state) \in ProposalState
  BY <1>1, ActionStates DEF ReqInv, Carries, Decide, Permitted, Exists, ProposalState
<1>3. /\ skill' = skill /\ versions' = versions
      /\ UNCHANGED storeVars /\ ProposalFree(p)
      /\ q.pay # NoPayload => Len(revs[p]) < MaxRevisions
  BY DEF Decide, Permitted, Finish, storeVars
<1>4. /\ revs[p] \in Seq(Payload) /\ Len(revs[p]) >= 1 /\ Len(revs[p]) <= MaxRevisions
      /\ prop[p] \in Row /\ prop[p].semver \in Semvers
  BY <1>2 DEF IInv, TypeOK, RowsInv
<1>5. PICK z \in Request : /\ req' = [req EXCEPT ![r] = z]
                             /\ ReqInv(z)' /\ z.pc \notin InTransaction
  <2>1. PICK k \in Keys : k = latestPayload(p).key
    <3>1. latestPayload(p) \in Payload
      BY <1>4 DEF latestPayload
    <3> QED
      BY <3>1 DEF Payload
  <2>2. CASE Finish(r)
    BY <2>2, IdleRequest, IdleAfter DEF Finish
  <2>3. CASE ~Finish(r)
    <3> DEFINE c == [Idle EXCEPT !.pc = "cleanup", !.act = "revise", !.old = k]
    <3>1. c \in Request
      BY IdleRequest DEF Request, Pcs, AllCalls, Actions
    <3>2. c.pc = "cleanup" /\ c.old = k
      BY DEF Idle
    <3>3. req' = [req EXCEPT ![r] = c]
      BY <2>1, <2>3 DEF Decide
    <3> HIDE DEF c
    <3>4. ReqInv(c)' /\ c.pc \notin InTransaction
      BY <3>2 DEF ReqInv, Carries, PinInv, GateInv, OrderInv, PastGate, InTransaction
    <3> QED
      BY <3>1, <3>3, <3>4
  <2> QED
    BY <2>2, <2>3
<1>6. /\ prop'[p] = [prop[p] EXCEPT !.state = nextState(q.act, @),
                                    !.semver = IF q.semver # 0 THEN q.semver ELSE @]
      /\ revs'[p] = IF q.pay = NoPayload THEN revs[p] ELSE Append(revs[p], q.pay)
      /\ \A x \in Proposals \ {p} : prop'[x] = prop[x] /\ revs'[x] = revs[x]
      /\ prop' \in [Proposals -> {prop'[x] : x \in Proposals}]
      /\ revs' \in [Proposals -> {revs'[x] : x \in Proposals}]
  BY <1>2 DEF Decide, IInv, TypeOK
<1>7. /\ prop'[p].state \in ProposalState /\ prop'[p] \in Row /\ prop'[p].semver \in Semvers
  <2>1. q.semver \in 0..MaxSemver
    BY <1>1 DEF Request
  <2>2. (IF q.semver # 0 THEN q.semver ELSE prop[p].semver) \in Semvers
    BY <1>4, <2>1, ReviewAssumption DEF Semvers
  <2>3. \A n \in Semvers : n \in 0..MaxSemver
    BY ReviewAssumption DEF Semvers
  <2> QED
    BY <1>2, <1>4, <1>6, <2>2, <2>3 DEF Row
<1>8. /\ revs'[p] \in Seq(Payload) /\ Len(revs'[p]) >= Len(revs[p])
      /\ Len(revs'[p]) <= MaxRevisions /\ Len(revs'[p]) >= 1
      /\ \A i \in 1..Len(revs[p]) : revs'[p][i] = revs[p][i]
  <2>1. CASE q.pay = NoPayload
    BY <1>4, <1>6, <2>1
  <2>2. CASE q.pay # NoPayload
    <3>1. q.pay \in Payload
      BY <1>1, <2>2 DEF Request
    <3>2. revs'[p] = Append(revs[p], q.pay)
      BY <1>6, <2>2
    <3> HIDE DEF q, p
    <3>3. /\ revs'[p] \in Seq(Payload) /\ Len(revs'[p]) = Len(revs[p]) + 1
          /\ \A i \in 1..Len(revs[p]) : revs'[p][i] = revs[p][i]
      BY <1>4, <3>1, <3>2, AppendKeeps
    <3> QED
      BY <1>3, <1>4, <2>2, <3>3, ReviewAssumption
  <2> QED
    BY <2>1, <2>2
<1>9. TypeOK'
  BY <1>3, <1>5, <1>6, <1>7, <1>8 DEF IInv, TypeOK, storeVars
<1>10. RowsInv'
  BY <1>6, <1>7, <1>8 DEF IInv, RowsInv, Exists
<1>11. \A x \in Proposals : RowStep(r, x)
  <2>1. prop'[p].state # "none"
    BY <1>7 DEF ProposalState
  <2> QED
    BY <1>2, <1>3, <1>6, <1>8, <2>1 DEF RowStep, ProposalFree
<1> QED
  BY <1>3, <1>5, <1>9, <1>10, <1>11, VersionsFrame, RowFrame

\* The version row a commit inserts, in terms of the request that inserts it.
LEMMA CommittedRow ==
  ASSUME IInv, NEW r \in Requests, Commit(r)
  PROVE  \E row \in Version :
            /\ versions' = Append(versions, row)
            /\ row.semver = req[r].semver /\ row.from = req[r].p
            /\ row.payload = Inserted(req[r])
            /\ row.payload = row.seen
            /\ row.override \/ ( /\ row.judged.key = row.payload.key
                                 /\ row.judged.verdict \in
                                      Passes(IF row.from = NoProposal THEN "publish" ELSE "accept") )
            /\ \A i \in 1..Len(versions) : versions[i].semver < row.semver
<1> DEFINE q == req[r]
           row == [semver |-> q.semver, payload |-> Effective(r), from |-> q.p,
                   override |-> q.override,
                   seen |-> IF q.pay # NoPayload THEN q.pay ELSE q.seen,
                   judged |-> q.judged]
<1>1. q \in Request /\ ReqInv(q) /\ q.pc = "insert"
  BY DEF IInv, TypeOK, Commit
<1>2. Effective(r) = Inserted(q) /\ Inserted(q) \in Payload
  BY <1>1, EffectiveIsInserted DEF InTransaction
<1>3. /\ q.act \in {"accept", "publish"} /\ q.semver \in Semvers
      /\ q.act = "publish" => q.p = NoProposal
      /\ q.act = "accept" => q.p \in Proposals
  BY <1>1 DEF ReqInv, Carries, InTransaction
<1>4. q.judged.key = Inserted(q).key /\ (q.override \/ q.judged.verdict \in Passes(q.act))
  BY <1>1 DEF ReqInv, GateInv, PastGate
<1>5. q.judged \in [key : Keys, verdict : Verdict]
  <2>1. q.judged \in [key : Keys \cup {NoKey}, verdict : Verdict] /\ Inserted(q).key \in Keys
    BY <1>1, <1>2 DEF Request, Payload
  <2> QED
    BY <1>4, <2>1
<1>6. row \in Version
  BY <1>1, <1>2, <1>3, <1>5 DEF Version, Inserted, Request
<1>7. versions' = Append(versions, row)
  BY DEF Commit
<1>8. row.payload = row.seen /\ row.judged = q.judged /\ row.payload = Inserted(q)
      /\ row.from = q.p /\ row.semver = q.semver /\ row.override = q.override
  BY <1>2 DEF Inserted
<1>9. Passes(IF q.p = NoProposal THEN "publish" ELSE "accept") = Passes(q.act)
  BY <1>3, ReviewAssumption
<1>10. \A i \in 1..Len(versions) : versions[i].semver < q.semver
  BY <1>1 DEF ReqInv, OrderInv
<1> HIDE DEF row
<1> QED
  BY <1>4, <1>6, <1>7, <1>8, <1>9, <1>10

\* The commit of an accept or a direct publish, whose version comes on top.
LEMMA CommitIInv ==
  ASSUME IInv, NEW r \in Requests, Commit(r)
  PROVE  IInv'
<1> DEFINE q == req[r]
           p == q.p
<1>1. q \in Request /\ ReqInv(q) /\ q.pc = "insert"
  BY DEF IInv, TypeOK, Commit
<1>2. /\ req' = [req EXCEPT ![r] = Idle] /\ skill' = TRUE /\ UNCHANGED storeVars
  BY DEF Commit, Finish, storeVars
<1>3. \A x \in Requests \ {r} : ~LocksSkill(x)
  BY <1>1 DEF IInv, Exclusive, LocksSkill
<1>4. PICK row \in Version :
            /\ versions' = Append(versions, row)
            /\ row.payload = row.seen
            /\ row.override \/ ( /\ row.judged.key = row.payload.key
                                 /\ row.judged.verdict \in
                                      Passes(IF row.from = NoProposal THEN "publish" ELSE "accept") )
            /\ \A i \in 1..Len(versions) : versions[i].semver < row.semver
  BY CommittedRow
<1>5. /\ versions \in Seq(Version) /\ Len(versions) \in Nat
      /\ versions' \in Seq(Version) /\ Len(versions') = Len(versions) + 1
      /\ versions'[Len(versions) + 1] = row
      /\ \A i \in 1..Len(versions) : versions'[i] = versions[i]
  BY <1>4, AppendKeeps DEF IInv, TypeOK
<1>6. \A i \in 1..Len(versions') : versions'[i] = row \/ (i \in 1..Len(versions) /\ versions'[i] = versions[i])
  BY <1>5
<1>7. PublishedAsReviewed' /\ PublishedAsJudged'
  BY <1>4, <1>6 DEF IInv, PublishedAsReviewed, PublishedAsJudged
<1>8. SemversIncrease'
  <2> SUFFICES ASSUME NEW i \in 1..Len(versions'), NEW j \in 1..Len(versions'), i < j
               PROVE  versions'[i].semver < versions'[j].semver
    BY DEF SemversIncrease
  <2>1. i \in 1..Len(versions) /\ versions'[i] = versions[i]
    BY <1>5
  <2>2. CASE j = Len(versions) + 1
    BY <1>4, <1>5, <2>1, <2>2
  <2>3. CASE j # Len(versions) + 1
    <3>1. j \in 1..Len(versions) /\ versions'[j] = versions[j]
      BY <1>5, <2>3
    <3> QED
      BY <2>1, <3>1 DEF IInv, SemversIncrease
  <2> QED
    BY <2>2, <2>3
<1>9. prop' \in [Proposals -> Row] /\ revs' \in [Proposals -> Seq(Payload)]
      /\ (\A x \in Proposals : Len(revs'[x]) <= MaxRevisions)
      /\ RowsInv' /\ (\A x \in Proposals : RowStep(r, x))
  <2>1. CASE q.act # "accept"
    BY <2>1 DEF Commit, IInv, TypeOK, RowsInv, Exists, RowStep
  <2>2. CASE q.act = "accept"
    <3>1. /\ p \in Proposals /\ prop[p].state = "under_review"
          /\ q.pay # NoPayload => Len(revs[p]) < MaxRevisions
      BY <1>1, <2>2 DEF ReqInv, Carries, PinInv, InTransaction
    <3>2. /\ revs[p] \in Seq(Payload) /\ Len(revs[p]) >= 1 /\ Len(revs[p]) <= MaxRevisions
          /\ prop[p] \in Row /\ prop[p].semver \in Semvers /\ Exists(p)
      BY <3>1 DEF IInv, TypeOK, RowsInv, Exists, ProposalState
    <3>3. /\ prop'[p] = [prop[p] EXCEPT !.state = nextState("accept", @)]
          /\ revs'[p] = IF q.pay = NoPayload THEN revs[p] ELSE Append(revs[p], q.pay)
          /\ \A x \in Proposals \ {p} : prop'[x] = prop[x] /\ revs'[x] = revs[x]
          /\ prop' \in [Proposals -> {prop'[x] : x \in Proposals}]
          /\ revs' \in [Proposals -> {revs'[x] : x \in Proposals}]
      BY <2>2, <3>1 DEF Commit, IInv, TypeOK
    <3>4. prop'[p].state = "accepted" /\ prop'[p] \in Row /\ prop'[p].semver \in Semvers
      BY <3>2, <3>3 DEF nextState, TRANSITIONS, Row, ProposalState
    <3>5. /\ revs'[p] \in Seq(Payload) /\ Len(revs'[p]) >= Len(revs[p])
          /\ Len(revs'[p]) <= MaxRevisions /\ Len(revs'[p]) >= 1
          /\ \A i \in 1..Len(revs[p]) : revs'[p][i] = revs[p][i]
      <4>1. CASE q.pay = NoPayload
        BY <3>2, <3>3, <4>1
      <4>2. CASE q.pay # NoPayload
        <5>1. q.pay \in Payload
          BY <1>1, <4>2 DEF Request
        <5> QED
          <6>1. revs'[p] = Append(revs[p], q.pay)
            BY <3>3, <4>2
          <6> HIDE DEF q, p
          <6>2. /\ revs'[p] \in Seq(Payload) /\ Len(revs'[p]) = Len(revs[p]) + 1
                /\ \A i \in 1..Len(revs[p]) : revs'[p][i] = revs[p][i]
            BY <3>2, <5>1, <6>1, AppendKeeps
          <6> QED
            BY <3>1, <3>2, <4>2, <6>2, ReviewAssumption
      <4> QED
        BY <4>1, <4>2
    <3>6. prop' \in [Proposals -> Row] /\ revs' \in [Proposals -> Seq(Payload)]
          /\ (\A x \in Proposals : Len(revs'[x]) <= MaxRevisions)
      BY <3>3, <3>4, <3>5 DEF IInv, TypeOK
    <3>7. RowsInv'
      BY <3>3, <3>4, <3>5 DEF IInv, RowsInv, Exists, ProposalState
    <3>8. \A x \in Proposals : RowStep(r, x)
      <4>1. \A x \in Requests \ {r} : ~LocksProposal(x, p)
        <5>1. LocksProposal(r, p)
          BY <1>1, <2>2 DEF LocksProposal, InTransaction
        <5> QED
          BY <3>1, <5>1 DEF IInv, Exclusive
      <4> QED
        BY <3>2, <3>3, <3>4, <3>5, <4>1 DEF RowStep
    <3> QED
      BY <3>6, <3>7, <3>8
  <2> QED
    BY <2>1, <2>2
<1>10. TypeOK'
  BY <1>2, <1>5, <1>9, IdleRequest DEF IInv, TypeOK, storeVars
<1> QED
  BY <1>2, <1>3, <1>7, <1>8, <1>9, <1>10, IdleRequest, IdleAfter, RowFrame

\* The steps of the store and of the AV sweep know nothing of requests.
LEMMA StoreIInv ==
  ASSUME IInv, UNCHANGED <<dbVars, req>>,
         object' \in [Keys -> BOOLEAN], report' \in [Keys -> Verdict],
         av' \in Keys \cup {NoKey}
  PROVE  IInv'
<1> USE DEF dbVars
<1>1. TypeOK' /\ RowsInv'
  BY DEF IInv, TypeOK, RowsInv, Exists
<1>2. Exclusive'
  BY DEF IInv, Exclusive, LocksSkill, LocksProposal
<1>3. \A r \in Requests : ReqInv(req[r])'
  BY DEF IInv, ReqInv, Carries, PinInv, GateInv, OrderInv, PastGate, Inserted, Exists
<1> QED
  BY <1>1, <1>2, <1>3, VersionsFrame DEF IInv

\* Nothing is there at first.
LEMMA InitIInv == Init => IInv
<1> SUFFICES ASSUME Init PROVE IInv
  OBVIOUS
<1>1. TypeOK
  <2>1. [state |-> "none", semver |-> 0, target |-> FALSE] \in Row
    BY ReviewAssumption DEF Row
  <2>2. prop \in [Proposals -> Row] /\ revs \in [Proposals -> Seq(Payload)]
        /\ \A p \in Proposals : Len(revs[p]) <= MaxRevisions
    BY <2>1, ReviewAssumption DEF Init
  <2>3. skill \in BOOLEAN /\ versions \in Seq(Version) /\ object \in [Keys -> BOOLEAN]
        /\ report \in [Keys -> Verdict] /\ av \in Keys \cup {NoKey}
    <3>1. versions \in Seq(Version)
      BY DEF Init
    <3>2. object \in [Keys -> BOOLEAN] /\ report \in [Keys -> Verdict]
      BY DEF Init, Verdict
    <3> QED
      BY <3>1, <3>2 DEF Init
  <2> QED
    BY <2>2, <2>3, IdleRequest DEF Init, TypeOK
<1>2. RowsInv
  BY DEF Init, RowsInv, Exists, ProposalState
<1>3. \A r \in Requests : ReqInv(req[r])
  BY IdleRequest DEF Init
<1>4. Exclusive
  BY DEF Init, Exclusive, LocksSkill, LocksProposal, Idle, InTransaction
<1>5. PublishedAsReviewed /\ PublishedAsJudged /\ SemversIncrease
  BY DEF Init, PublishedAsReviewed, PublishedAsJudged, SemversIncrease
<1> QED
  BY <1>1, <1>2, <1>3, <1>4, <1>5 DEF IInv

\* Every step of every request, of the store and of the AV sweep keeps IInv.
LEMMA NextIInv == IInv /\ [Next]_vars => IInv'
<1> SUFFICES ASSUME IInv, [Next]_vars PROVE IInv'
  OBVIOUS
<1>1. CASE UNCHANGED vars
  BY <1>1, StoreIInv DEF vars, dbVars, IInv, TypeOK
<1>2. ASSUME NEW k \in Keys, NEW v \in Uploads, Upload(k, v)
      PROVE  IInv'
  <2>1. v \in Verdict
    BY ReviewAssumption
  <2> QED
    BY <1>2, <2>1, StoreIInv DEF Upload, IInv, TypeOK
<1>3. ASSUME NEW k \in Keys, AvRead(k)
      PROVE  IInv'
  BY <1>3, StoreIInv DEF AvRead, IInv, TypeOK
<1>4. ASSUME NEW v \in {"risk", "high", "clean"}, AvWrite(v)
      PROVE  IInv'
  <2>1. v \in Verdict
    BY DEF Verdict
  <2> QED
    BY <1>4, <2>1, StoreIInv DEF AvWrite, IInv, TypeOK
<1>5. ASSUME NEW r \in Requests, Submits(r)
      PROVE  IInv'
  BY <1>5, SubmitsIInv
<1>6. ASSUME NEW r \in Requests, RequestStep(r)
      PROVE  IInv'
  <2>1. CASE CreateProposal(r)
    BY <2>1, CreateProposalIInv
  <2>2. CASE Decide(r)
    BY <2>2, DecideIInv
  <2>3. CASE AcceptBegins(r)
    BY <2>3, AcceptBeginsIInv
  <2>4. CASE Commit(r)
    BY <2>4, CommitIInv
  <2>5. CASE DeleteProposal(r)
    BY <2>5, DeleteProposalIInv
  <2>6. CASE \E trips, forbidden \in BOOLEAN : Gate(r, trips, forbidden)
    BY <2>6, GateIInv
  <2> QED
    BY <1>6, <2>1, <2>2, <2>3, <2>4, <2>5, <2>6, MovesIInv DEF RequestStep
<1>7. ASSUME NEW r \in Requests, FailStep(r)
      PROVE  IInv'
  BY <1>7, MovesIInv
<1> QED
  BY <1>1, <1>2, <1>3, <1>4, <1>5, <1>6, <1>7 DEF Next

\* So IInv holds in every reachable state.
LEMMA IInvHolds == Spec => []IInv
BY InitIInv, NextIInv, PTL DEF Spec

-----------------------------------------------------------------------------
(* The theorems *)

\* Every row, request and report has its type: no action takes a proposal out of
\* the states of proposal.ts, and no transaction inserts a row without payload,
\* semver or verdict.
THEOREM ReviewTypeCorrect == Spec => []TypeOK
<1>1. IInv => TypeOK
  BY DEF IInv
<1> QED
  BY <1>1, IInvHolds, PTL

\* What an accept publishes is the payload its reviewer looked at or wrote,
\* whatever revisions and other requests come in between.
THEOREM AntiSwap == Spec => []PublishedAsReviewed
<1>1. IInv => PublishedAsReviewed
  BY DEF IInv
<1> QED
  BY <1>1, IInvHolds, PTL

\* Every published payload passed the gate on its own report, or an override let
\* it through.
THEOREM GateHolds == Spec => []PublishedAsJudged
<1>1. IInv => PublishedAsJudged
  BY DEF IInv
<1> QED
  BY <1>1, IInvHolds, PTL

\* Versions are committed in strictly increasing semver order by any number of
\* concurrent accepts and direct publishes.
THEOREM VersionOrder == Spec => []SemversIncrease
<1>1. IInv => SemversIncrease
  BY DEF IInv
<1> QED
  BY <1>1, IInvHolds, PTL

\* The steps that change committed rows are four.
LEMMA RowSteps ==
  ASSUME Next
  PROVE  \/ UNCHANGED dbVars
         \/ \E r \in Requests : CreateProposal(r) \/ Decide(r) \/ Commit(r) \/ DeleteProposal(r)
<1>1. ASSUME NEW r \in Requests, Submits(r) PROVE UNCHANGED dbVars
  BY <1>1 DEF Submits, SubmitCreate, SubmitAction, SubmitPublish, SubmitDelete
<1>2. ASSUME NEW r \in Requests, FailStep(r) PROVE UNCHANGED dbVars
  BY <1>2 DEF FailStep, Rollback, CleanupFails
<1>3. ASSUME NEW r \in Requests, RequestStep(r)
      PROVE  \/ UNCHANGED dbVars
             \/ CreateProposal(r) \/ Decide(r) \/ Commit(r) \/ DeleteProposal(r)
  <2>1. ASSUME NEW t \in BOOLEAN, NEW f \in BOOLEAN, Gate(r, t, f) \/ GateRefuses(r, t, f)
        PROVE  UNCHANGED dbVars
    BY <2>1 DEF Gate, GateRefuses
  <2>2. \/ Refuse(r) \/ AcceptBegins(r) \/ LockSlug(r) \/ LockSkill(r) \/ ReadVersions(r)
        \/ DeadlockVictim(r)
        \/ CleanupCheck(r) \/ CleanupErase(r) \/ CleanupReport(r)
        => UNCHANGED dbVars
    BY DEF Refuse, AcceptBegins, LockSlug, LockSkill, ReadVersions, DeadlockVictim,
           CleanupCheck, CleanupErase, CleanupReport
  <2> QED
    BY <1>3, <2>1, <2>2 DEF RequestStep
<1> QED
  BY <1>1, <1>2, <1>3 DEF Next, Upload, AvRead, AvWrite

\* No request changes an accepted or rejected proposal, short of deleting it.
THEOREM DecisionsFinal == Spec => DecisionIsFinal
<1> DEFINE Final(p) == prop[p].state \in {"accepted", "rejected"} /\ prop'[p].state # "deleted"
                          => prop'[p] = prop[p] /\ revs'[p] = revs[p]
<1>1. ASSUME IInv, [Next]_vars PROVE [\A p \in Proposals : Final(p)]_vars
  <2> SUFFICES ASSUME Next, NEW p \in Proposals PROVE Final(p)
    BY <1>1
  <2>1. CASE UNCHANGED dbVars
    BY <2>1 DEF dbVars
  <2>2. ASSUME NEW r \in Requests, CreateProposal(r) PROVE Final(p)
    BY <1>1, <2>2 DEF CreateProposal, IInv, TypeOK
  <2>3. ASSUME NEW r \in Requests, Decide(r) PROVE Final(p)
    <3>1. req[r].p \in Proposals /\ req[r].act \in Actions
      BY <1>1, <2>3 DEF IInv, ReqInv, Carries, Decide
    <3>2. prop[req[r].p].state \notin {"accepted", "rejected"}
      BY <2>3, <3>1, ActionStates DEF Decide, Permitted
    <3> QED
      BY <1>1, <2>3, <3>1, <3>2 DEF Decide, IInv, TypeOK
  <2>4. ASSUME NEW r \in Requests, Commit(r) PROVE Final(p)
    <3>1. CASE req[r].act # "accept"
      BY <2>4, <3>1 DEF Commit
    <3>2. CASE req[r].act = "accept"
      <4>1. req[r].p \in Proposals /\ prop[req[r].p].state = "under_review"
        BY <1>1, <2>4, <3>2 DEF IInv, ReqInv, Carries, PinInv, InTransaction, Commit
      <4> QED
        BY <1>1, <2>4, <3>2, <4>1 DEF Commit, IInv, TypeOK
    <3> QED
      BY <3>1, <3>2
  <2>5. ASSUME NEW r \in Requests, DeleteProposal(r) PROVE Final(p)
    BY <1>1, <2>5 DEF DeleteProposal, IInv, TypeOK, ReqInv, Carries, Row
  <2> QED
    BY <1>1, <2>1, <2>2, <2>3, <2>4, <2>5, RowSteps
<1> QED
  BY <1>1, IInvHolds, PTL DEF Spec, DecisionIsFinal

\* A version comes from a proposal that was accepted, an accepted proposal has its
\* version, and two versions never come from the same one.
Provenance ==
    /\ \A i \in 1..Len(versions) : versions[i].from \in Proposals =>
          prop[versions[i].from].state \in {"accepted", "deleted"}
    /\ \A p \in Proposals : prop[p].state = "accepted" =>
          \E i \in 1..Len(versions) : versions[i].from = p
    /\ \A i, j \in 1..Len(versions) :
          versions[i].from = versions[j].from /\ versions[i].from \in Proposals => i = j

\* Committing is the only step that appends a version, and it ends the one state
\* of its proposal from which it could be repeated.
LEMMA ProvenanceKept ==
  ASSUME IInv, Provenance, [Next]_vars
  PROVE  Provenance'
<1>1. CASE UNCHANGED dbVars
  BY <1>1 DEF dbVars, Provenance
<1>2. ASSUME NEW r \in Requests, CreateProposal(r) PROVE Provenance'
  <2>1. versions' = versions
    BY <1>2 DEF CreateProposal
  <2>2. \A p \in Proposals : prop'[p] = prop[p]
                             \/ (prop[p].state = "none" /\ prop'[p].state = "proposed")
    BY <1>2 DEF CreateProposal, IInv, TypeOK
  <2> QED
    BY <2>1, <2>2 DEF Provenance
<1>3. ASSUME NEW r \in Requests, Decide(r) PROVE Provenance'
  <2>1. req[r].p \in Proposals /\ req[r].act \in Actions \ {"accept"}
    BY <1>3 DEF IInv, ReqInv, Carries, Decide
  <2>2. /\ prop[req[r].p].state \notin {"accepted", "deleted"}
        /\ nextState(req[r].act, prop[req[r].p].state) # "accepted"
    <3>1. canPerform(req[r].act, prop[req[r].p].state)
      BY <1>3 DEF Decide, Permitted
    <3>2. prop[req[r].p].state \in {"proposed", "under_review", "changes_requested"}
      BY <2>1, <3>1, ActionStates
    <3> QED
      BY <2>1, <3>2 DEF nextState, TRANSITIONS, Actions
  <2>3. versions' = versions
    BY <1>3 DEF Decide
  <2>4. \A p \in Proposals : prop'[p] = prop[p]
                             \/ (/\ prop[p].state \notin {"accepted", "deleted"}
                                 /\ prop'[p].state # "accepted")
    BY <1>3, <2>1, <2>2 DEF Decide, IInv, TypeOK, Row
  <2> QED
    BY <2>3, <2>4 DEF Provenance
<1>4. ASSUME NEW r \in Requests, DeleteProposal(r) PROVE Provenance'
  <2>1. versions' = versions
    BY <1>4 DEF DeleteProposal
  <2>2. \A p \in Proposals : prop'[p] = prop[p] \/ prop'[p].state = "deleted"
    BY <1>4 DEF DeleteProposal, IInv, TypeOK, Row
  <2> QED
    BY <2>1, <2>2 DEF Provenance
<1>5. ASSUME NEW r \in Requests, Commit(r) PROVE Provenance'
  <2> DEFINE q == req[r]
             n == Len(versions)
  <2>1. /\ n \in Nat /\ Len(versions') = n + 1 /\ versions'[n + 1].from = q.p
        /\ \A i \in 1..n : versions'[i] = versions[i]
    BY <1>5 DEF Commit, IInv, TypeOK
  <2>2. q \in Request /\ Carries(q) /\ PinInv(q) /\ q.pc \in InTransaction
    BY <1>5 DEF IInv, TypeOK, ReqInv, Commit, InTransaction
  <2>3. CASE q.act = "accept"
    <3>1. q.p \in Proposals /\ prop[q.p].state = "under_review"
      BY <2>2, <2>3 DEF Carries, PinInv
    <3>2. /\ prop'[q.p].state = "accepted"
          /\ \A p \in Proposals \ {q.p} : prop'[p] = prop[p]
      BY <1>5, <2>3, <3>1 DEF Commit, IInv, TypeOK, Row, nextState, TRANSITIONS
    <3>3. \A i \in 1..n : versions[i].from # q.p
      BY <3>1 DEF Provenance
    <3> HIDE DEF q, n
    <3> QED
      BY <2>1, <3>1, <3>2, <3>3 DEF Provenance, n
  <2>4. CASE q.act # "accept"
    <3>1. q.p \notin Proposals
      BY <2>2, <2>4, ReviewAssumption DEF Carries
    <3>2. prop' = prop
      BY <1>5, <2>4 DEF Commit
    <3> HIDE DEF q, n
    <3> QED
      BY <2>1, <3>1, <3>2 DEF Provenance, n
  <2> QED
    BY <2>3, <2>4
<1> QED
  BY <1>1, <1>2, <1>3, <1>4, <1>5, RowSteps DEF vars, dbVars

\* However many reviewers accept it at once, and whatever becomes of it later, a
\* proposal is materialized as at most one version, and it is accepted if and
\* only if there is that version.
THEOREM AcceptedOnce == Spec => []OneVersionPerAccept
<1>1. Init => Provenance
  BY DEF Init, Provenance
<1>2. ASSUME Provenance, TypeOK PROVE OneVersionPerAccept
  <2> SUFFICES ASSUME NEW p \in Proposals
               PROVE  /\ Cardinality(VersionsFrom(p)) <= 1
                      /\ prop[p].state # "deleted" =>
                            (prop[p].state = "accepted" <=> VersionsFrom(p) # {})
    BY DEF OneVersionPerAccept
  <2>1. CASE VersionsFrom(p) = {}
    <3>1. prop[p].state # "accepted"
      BY <1>2, <2>1 DEF Provenance, VersionsFrom
    <3> QED
      BY <2>1, <3>1, FS_EmptySet
  <2>2. CASE VersionsFrom(p) # {}
    <3>1. PICK i \in VersionsFrom(p) : TRUE
      BY <2>2
    <3>2. VersionsFrom(p) = {i}
      BY <1>2, <3>1 DEF Provenance, VersionsFrom
    <3>3. prop[p].state \in {"accepted", "deleted"}
      BY <1>2, <3>1 DEF Provenance, VersionsFrom
    <3>4. Cardinality(VersionsFrom(p)) = 1
      BY <3>2, FS_Singleton
    <3> QED
      BY <2>2, <3>3, <3>4
  <2> QED
    BY <2>1, <2>2
<1>3. IInv => TypeOK
  BY DEF IInv
<1> QED
  BY <1>1, <1>2, <1>3, ProvenanceKept, IInvHolds, PTL DEF Spec

\* Among any number of requests, none of which has audited an override, nobody
\* waits in a circle.  Whoever waits for the audit chain waits for an override;
\* without one, the holder of the skills row waits for nobody, so nobody waits
\* for the skills row, nor then for the slug, nor then for a proposal.
THEOREM LockOrder == Spec => []DeadlockNeedsOverride
<1>1. DeadlockNeedsOverride
  <2> SUFFICES ASSUME NEW S \in SUBSET Requests, Knot(S), \A r \in S : ~req[r].audited
               PROVE  FALSE
    BY DEF DeadlockNeedsOverride
  <2>1. \A r \in S : req[r].pc \notin {"create", "insert", "read", "gate"}
    BY DEF Knot, Waits, LocksAudit
  <2>2. \A r \in S : req[r].pc # "skill"
    BY <2>1 DEF Knot, Waits, LocksAudit, LocksSkill
  <2>3. \A r \in S : req[r].pc # "slug"
    BY <2>1, <2>2 DEF Knot, Waits, LocksAudit, LocksSlug
  <2>4. \A r \in S : req[r].pc \notin {"begin", "delete"}
    BY <2>1, <2>2, <2>3 DEF Knot, Waits, LocksAudit, LocksProposal, InTransaction
  <2> QED
    BY <2>1, <2>2, <2>3, <2>4 DEF Knot, Waits
<1> QED
  BY <1>1, PTL

-----------------------------------------------------------------------------
(* The ledger *)

\* Under the lock an accept carries the semver its proposal asks for, and no
\* request but a resubmit brings another one.
AskInv ==
    /\ \A r \in Requests, p \in Proposals : LocksProposal(r, p) => req[r].semver = prop[p].semver
    /\ \A r \in Requests : req[r].pc = "begin" /\ req[r].semver # 0 => req[r].act = "resubmit"

\* A step of request r keeps AskInv if it leaves the semvers of the proposals that
\* others hold locked, and what r knows after it is right.
LEMMA AskFrame ==
  ASSUME IInv, AskInv, NEW r \in Requests, NEW q,
         req' = [req EXCEPT ![r] = q],
         \A x \in Requests \ {r}, p \in Proposals :
             LocksProposal(x, p) => prop'[p].semver = prop[p].semver,
         q.pc \in InTransaction /\ q.act = "accept" => q.semver = prop'[q.p].semver,
         q.pc = "begin" /\ q.semver # 0 => q.act = "resubmit"
  PROVE  AskInv'
<1>1. req'[r] = q /\ \A x \in Requests \ {r} : req'[x] = req[x]
  BY DEF IInv, TypeOK
<1>2. ASSUME NEW x \in Requests, NEW p \in Proposals, LocksProposal(x, p)'
      PROVE  req'[x].semver = prop'[p].semver
  <2>1. CASE x = r
    BY <1>1, <1>2, <2>1 DEF LocksProposal
  <2>2. CASE x # r
    <3>1. LocksProposal(x, p)
      BY <1>1, <1>2, <2>2 DEF LocksProposal
    <3>2. req[x].semver = prop[p].semver
      BY <3>1 DEF AskInv
    <3> QED
      BY <1>1, <2>2, <3>1, <3>2
  <2> QED
    BY <2>1, <2>2
<1>3. ASSUME NEW x \in Requests, req'[x].pc = "begin", req'[x].semver # 0
      PROVE  req'[x].act = "resubmit"
  <2>1. CASE x = r
    BY <1>1, <1>3, <2>1
  <2>2. CASE x # r
    BY <1>1, <1>3, <2>2 DEF AskInv
  <2> QED
    BY <2>1, <2>2
<1> QED
  BY <1>2, <1>3 DEF AskInv

\* A step after which r is in no transaction, and does not begin one.
LEMMA AskEnds ==
  ASSUME IInv, AskInv, NEW r \in Requests, NEW q,
         req' = [req EXCEPT ![r] = q],
         \A x \in Requests \ {r}, p \in Proposals :
             LocksProposal(x, p) => prop'[p].semver = prop[p].semver,
         q.pc \notin InTransaction \cup {"begin"}
  PROVE  AskInv'
BY AskFrame

\* A step that moves r along inside its transaction.
LEMMA AskMoves ==
  ASSUME IInv, AskInv, NEW r \in Requests, NEW q,
         req' = [req EXCEPT ![r] = q], prop' = prop,
         req[r].pc \in InTransaction, q.pc \in InTransaction,
         q.act = req[r].act, q.p = req[r].p, q.semver = req[r].semver
  PROVE  AskInv'
<1>1. q.act = "accept" => q.semver = prop[q.p].semver
  <2> SUFFICES ASSUME q.act = "accept" PROVE q.semver = prop[q.p].semver
    OBVIOUS
  <2>1. q.p \in Proposals
    BY DEF IInv, ReqInv, Carries
  <2>2. LocksProposal(r, q.p)
    BY DEF LocksProposal
  <2> QED
    BY <2>1, <2>2 DEF AskInv
<1>2. q.pc # "begin"
  BY DEF InTransaction
<1> QED
  BY <1>1, <1>2, AskFrame

\* An ending request.
LEMMA AskFinish ==
  ASSUME IInv, AskInv, NEW r \in Requests, Finish(r), prop' = prop
  PROVE  AskInv'
<1>1. Idle.pc \notin InTransaction \cup {"begin"}
  BY DEF Idle, InTransaction
<1> QED
  BY <1>1, AskEnds DEF Finish

\* The transitions inside a transaction carry the semver along.
LEMMA AskKept ==
  ASSUME IInv, AskInv, [Next]_vars
  PROVE  AskInv'
<1>1. CASE prop' = prop /\ req' = req
  BY <1>1 DEF AskInv, LocksProposal
<1>2. ASSUME NEW r \in Requests, Submits(r) PROVE AskInv'
  <2>1. UNCHANGED dbVars
    <3>1. ASSUME NEW pay, NEW s, SubmitCreate(r, pay, s) PROVE UNCHANGED dbVars
      BY <3>1 DEF SubmitCreate
    <3>2. ASSUME NEW a, NEW p, NEW pay, NEW s, NEW o, SubmitAction(r, a, p, pay, s, o)
          PROVE  UNCHANGED dbVars
      BY <3>2 DEF SubmitAction
    <3>3. ASSUME NEW pay, NEW s, NEW o, SubmitPublish(r, pay, s, o) PROVE UNCHANGED dbVars
      BY <3>3 DEF SubmitPublish
    <3>4. ASSUME NEW p, SubmitDelete(r, p) PROVE UNCHANGED dbVars
      BY <3>4 DEF SubmitDelete
    <3> QED
      BY <1>2, <3>1, <3>2, <3>3, <3>4 DEF Submits
  <2>2. PICK q : /\ req' = [req EXCEPT ![r] = q]
                 /\ q.pc \in InTransaction => q.act = "publish"
                 /\ q.pc = "begin" /\ q.semver # 0 => q.act = "resubmit"
    <3>1. ASSUME NEW pay \in Payload, NEW s \in Semvers, SubmitCreate(r, pay, s)
          PROVE  \E q : /\ req' = [req EXCEPT ![r] = q]
                        /\ q.pc = "create"
      <4> DEFINE q == [Idle EXCEPT !.pc = "create", !.act = "create", !.pay = pay,
                         !.semver = s, !.target = skill]
      <4>1. req' = [req EXCEPT ![r] = q]
        BY <3>1 DEF SubmitCreate, Arrive
      <4>2. q.pc = "create"
        BY DEF Idle
      <4> QED
        BY <4>1, <4>2
    <3>2. ASSUME NEW a \in Actions, NEW p \in Proposals, NEW pay \in Payload \cup {NoPayload},
                 NEW s \in 0..MaxSemver, NEW o \in BOOLEAN, SubmitAction(r, a, p, pay, s, o)
          PROVE  \E q : /\ req' = [req EXCEPT ![r] = q]
                        /\ q.pc = "begin" /\ (q.semver # 0 => q.act = "resubmit")
      <4> DEFINE q == [Idle EXCEPT !.pc = "begin", !.act = a, !.p = p, !.pay = pay,
                        !.semver = s, !.override = o,
                        !.pin = IF a = "accept" THEN Len(revs[p]) ELSE 0,
                        !.seen = IF a = "accept" THEN latestPayload(p) ELSE NoPayload]
      <4>1. req' = [req EXCEPT ![r] = q] /\ (s # 0 => a = "resubmit")
        BY <3>2 DEF SubmitAction, Arrive
      <4>2. q.pc = "begin" /\ q.semver = s /\ q.act = a
        BY DEF Idle
      <4> QED
        BY <4>1, <4>2
    <3>3. ASSUME NEW pay \in Payload, NEW s \in Semvers, NEW o \in BOOLEAN,
                 SubmitPublish(r, pay, s, o)
          PROVE  \E q : /\ req' = [req EXCEPT ![r] = q]
                        /\ q.pc = "gate" /\ q.act = "publish"
      <4> DEFINE q == [Idle EXCEPT !.pc = "gate", !.act = "publish", !.pay = pay,
                         !.semver = s, !.target = skill, !.override = o, !.seen = pay]
      <4>1. req' = [req EXCEPT ![r] = q]
        BY <3>3 DEF SubmitPublish, Arrive
      <4>2. q.pc = "gate" /\ q.act = "publish"
        BY DEF Idle
      <4> QED
        BY <4>1, <4>2
    <3>4. ASSUME NEW p \in Proposals, SubmitDelete(r, p)
          PROVE  \E q : /\ req' = [req EXCEPT ![r] = q]
                        /\ q.pc = "delete"
      <4> DEFINE q == [Idle EXCEPT !.pc = "delete", !.act = "delete", !.p = p]
      <4>1. req' = [req EXCEPT ![r] = q]
        BY <3>4 DEF SubmitDelete, Arrive
      <4>2. q.pc = "delete"
        BY DEF Idle
      <4> QED
        BY <4>1, <4>2
    <3> QED
      BY <1>2, <3>1, <3>2, <3>3, <3>4 DEF Submits, InTransaction
  <2>3. \A p : prop'[p].semver = prop[p].semver
    BY <2>1 DEF dbVars
  <2> QED
    BY <2>2, <2>3, AskFrame
<1>3. ASSUME NEW r \in Requests, CreateProposal(r) PROVE AskInv'
  <2>1. \A x \in Requests, p \in Proposals : LocksProposal(x, p) => prop[p].state = "under_review"
    BY DEF IInv, ReqInv, PinInv, LocksProposal
  <2>2. \A x \in Requests, p \in Proposals :
          LocksProposal(x, p) => prop'[p].semver = prop[p].semver
    BY <1>3, <2>1 DEF CreateProposal, IInv, TypeOK
  <2>3. Idle.pc \notin InTransaction \cup {"begin"}
    BY DEF Idle, InTransaction
  <2>4. req' = [req EXCEPT ![r] = Idle]
    BY <1>3 DEF CreateProposal, Finish
  <2> QED
    BY <2>2, <2>3, <2>4, AskEnds
<1>4. ASSUME NEW r \in Requests, Decide(r) PROVE AskInv'
  <2>1. \A x \in Requests, p \in Proposals :
          LocksProposal(x, p) => prop'[p].semver = prop[p].semver
    BY <1>4 DEF Decide, ProposalFree, IInv, TypeOK
  <2>2. PICK q : req' = [req EXCEPT ![r] = q] /\ q.pc \notin InTransaction \cup {"begin"}
    <3>1. CASE Finish(r)
      <4>1. req' = [req EXCEPT ![r] = Idle] /\ Idle.pc = "idle"
        BY <3>1 DEF Finish, Idle
      <4> QED
        BY <4>1 DEF InTransaction
    <3>2. CASE ~Finish(r)
      <4> DEFINE c == [Idle EXCEPT !.pc = "cleanup", !.act = "revise",
                                   !.old = latestPayload(req[r].p).key]
      <4>1. req' = [req EXCEPT ![r] = c]
        BY <1>4, <3>2 DEF Decide
      <4>2. c.pc = "cleanup"
        BY DEF Idle
      <4> QED
        BY <4>1, <4>2 DEF InTransaction
    <3> QED
      BY <3>1, <3>2
  <2> QED
    BY <2>1, <2>2, AskEnds
<1>5. ASSUME NEW r \in Requests, AcceptBegins(r) PROVE AskInv'
  <2> DEFINE l == IF prop[req[r].p].target THEN "gate" ELSE "slug"
             q == [req[r] EXCEPT !.target = prop[req[r].p].target,
                                 !.semver = prop[req[r].p].semver, !.pc = l]
  <2>1. req[r] \in Request
    BY DEF IInv, TypeOK
  <2>2. req' = [req EXCEPT ![r] = q] /\ prop' = prop
    BY <1>5 DEF AcceptBegins, IInv, TypeOK, dbVars
  <2>3. q.p = req[r].p /\ q.semver = prop[req[r].p].semver /\ q.pc = l /\ l # "begin"
    BY <2>1 DEF Request
  <2> HIDE DEF q, l
  <2> QED
    BY <2>2, <2>3, AskFrame
<1>6. ASSUME NEW r \in Requests, NEW l \in Pcs, Goto(r, l), prop' = prop,
             l # "begin",
             l \in InTransaction => req[r].pc \in InTransaction
      PROVE  AskInv'
  <2> DEFINE q == [req[r] EXCEPT !.pc = l]
  <2>1. req[r] \in Request
    BY DEF IInv, TypeOK
  <2>2. q.pc = l /\ q.act = req[r].act /\ q.p = req[r].p /\ q.semver = req[r].semver
    BY <2>1, MoveFields
  <2>3. req' = [req EXCEPT ![r] = q]
    BY <1>6 DEF Goto, IInv, TypeOK
  <2> HIDE DEF q
  <2>4. CASE l \in InTransaction
    BY <1>6, <2>2, <2>3, <2>4, AskMoves
  <2>5. CASE l \notin InTransaction
    BY <1>6, <2>2, <2>3, <2>5, AskEnds
  <2> QED
    BY <2>4, <2>5
<1>7. ASSUME NEW r \in Requests, NEW t \in BOOLEAN, NEW f \in BOOLEAN, Gate(r, t, f)
      PROVE  AskInv'
  <2> DEFINE j == [key |-> JudgedKey(r), verdict |-> report[JudgedKey(r)]]
             b == /\ req[r].act = "accept"
                  /\ report[JudgedKey(r)] \notin Passes("accept") \/ t
             q == [req[r] EXCEPT !.judged = j, !.audited = b, !.pc = AfterGate(r)]
  <2>1. req[r] \in Request
    BY DEF IInv, TypeOK
  <2>2. req' = [req EXCEPT ![r] = q] /\ prop' = prop /\ req[r].pc = "gate"
    BY <1>7 DEF Gate, IInv, TypeOK, dbVars
  <2> HIDE DEF j, b
  <2>3. q.act = req[r].act /\ q.p = req[r].p /\ q.semver = req[r].semver /\ q.pc = AfterGate(r)
    BY <2>1 DEF Request
  <2>4. AfterGate(r) \in InTransaction
    BY DEF AfterGate, InTransaction
  <2> HIDE DEF q
  <2> QED
    BY <2>2, <2>3, <2>4, AskMoves DEF InTransaction
<1>8. ASSUME NEW r \in Requests, Commit(r) PROVE AskInv'
  <2>1. req' = [req EXCEPT ![r] = Idle] /\ Idle.pc \notin InTransaction \cup {"begin"}
    BY <1>8 DEF Commit, Finish, Idle, InTransaction
  <2>2. \A p \in Proposals : prop'[p].semver = prop[p].semver
    <3>1. CASE req[r].act = "accept"
      <4> DEFINE s == nextState("accept", prop[req[r].p].state)
      <4>1. /\ prop \in [Proposals -> Row] /\ req[r].p \in Proposals
            /\ prop' = [prop EXCEPT ![req[r].p].state = s]
        BY <1>8, <3>1 DEF Commit, IInv, TypeOK, ReqInv, Carries, InTransaction
      <4> HIDE DEF s
      <4> QED
        BY <4>1 DEF Row
    <3>2. CASE req[r].act # "accept"
      BY <1>8, <3>2 DEF Commit
    <3> QED
      BY <3>1, <3>2
  <2> QED
    BY <2>1, <2>2, AskEnds
<1>9. ASSUME NEW r \in Requests, DeleteProposal(r) PROVE AskInv'
  <2>1. req' = [req EXCEPT ![r] = Idle] /\ Idle.pc \notin InTransaction \cup {"begin"}
    BY <1>9 DEF DeleteProposal, Finish, Idle, InTransaction
  <2>2. \A p \in Proposals : prop'[p].semver = prop[p].semver
    BY <1>9 DEF DeleteProposal, IInv, TypeOK
  <2> QED
    BY <2>1, <2>2, AskEnds
<1>10. ASSUME NEW r \in Requests,
              \/ Refuse(r) \/ LockSlug(r) \/ LockSkill(r) \/ ReadVersions(r)
              \/ FailStep(r) \/ DeadlockVictim(r)
              \/ CleanupCheck(r) \/ CleanupErase(r) \/ CleanupReport(r)
              \/ \E trips, forbidden \in BOOLEAN : GateRefuses(r, trips, forbidden)
       PROVE  AskInv'
  <2>1. prop' = prop
    BY <1>10 DEF Refuse, LockSlug, LockSkill, ReadVersions, FailStep, Rollback, CleanupFails,
                 DeadlockVictim, CleanupCheck, CleanupErase, CleanupReport, GateRefuses, dbVars
  <2>2. \/ Finish(r)
        \/ \E l \in {"gate", "skill", "read", "insert"} : Goto(r, l) /\ req[r].pc \in InTransaction
        \/ \E l \in {"create", "erase", "unreport"} : Goto(r, l)
    BY <1>10 DEF Refuse, LockSlug, LockSkill, ReadVersions, FailStep, Rollback, CleanupFails,
                 DeadlockVictim, CleanupCheck, CleanupErase, CleanupReport, GateRefuses,
                 InTransaction
  <2>3. {"gate", "skill", "read", "insert", "create", "erase", "unreport"} \subseteq Pcs
    BY DEF Pcs
  <2>4. CASE Finish(r)
    BY <2>1, <2>4, AskFinish
  <2>5. ASSUME NEW l \in {"gate", "skill", "read", "insert"}, Goto(r, l),
               req[r].pc \in InTransaction
        PROVE  AskInv'
    BY <1>6, <2>1, <2>3, <2>5
  <2>6. ASSUME NEW l \in {"create", "erase", "unreport"}, Goto(r, l)
        PROVE  AskInv'
    BY <1>6, <2>1, <2>3, <2>6 DEF InTransaction
  <2> QED
    BY <2>2, <2>4, <2>5, <2>6
<1>11. CASE UNCHANGED vars
  BY <1>1, <1>11 DEF vars
<1>12. ASSUME NEW r \in Requests, RequestStep(r) PROVE AskInv'
  BY <1>3, <1>4, <1>5, <1>7, <1>8, <1>9, <1>10, <1>12 DEF RequestStep
<1>13. ASSUME NEW r \in Requests, FailStep(r) PROVE AskInv'
  BY <1>10, <1>13
<1>14. ASSUME \/ \E k \in Keys, v \in Uploads : Upload(k, v)
              \/ \E k \in Keys : AvRead(k)
              \/ \E v \in {"risk", "high", "clean"} : AvWrite(v)
       PROVE  AskInv'
  BY <1>1, <1>14 DEF Upload, AvRead, AvWrite, dbVars
<1> QED
  BY <1>2, <1>11, <1>12, <1>13, <1>14 DEF Next

\* The catalog is the sequence of what is shown of the versions, and a new version
\* comes at its end.
LEMMA CatalogGrows ==
  ASSUME versions \in Seq(Version), NEW row \in Version, versions' = Append(versions, row)
  PROVE  /\ Len(Catalog) = Len(versions)
         /\ \A i \in 1..Len(versions) : Catalog[i] = Shown(versions[i])
         /\ Catalog' = Append(Catalog, Shown(row))
<1> DEFINE n == Len(versions)
           S == {Shown(v) : v \in Version}
<1>1. /\ n \in Nat /\ Len(versions') = n + 1 /\ versions'[n + 1] = row
      /\ \A i \in 1..n : versions'[i] = versions[i] /\ versions[i] \in Version
  BY AppendKeeps
<1> HIDE DEF n
<1>2. Catalog = [i \in 1..n |-> Shown(versions[i])]
  BY DEF Catalog, n
<1>3. Catalog \in [1..n -> S]
  BY <1>1, <1>2
<1>4. Catalog \in Seq(S) /\ Len(Catalog) = n
  BY <1>1, <1>3
<1>5. Shown(row) \in S
  OBVIOUS
<1>6. Catalog' = [i \in 1..(n + 1) |-> Shown(versions'[i])]
  BY <1>1 DEF Catalog
<1> DEFINE A == Append(Catalog, Shown(row))
<1>7. /\ A \in Seq(S) /\ Len(A) = n + 1 /\ A[n + 1] = Shown(row)
      /\ \A i \in 1..n : A[i] = Catalog[i]
  BY <1>4, <1>5, AppendKeeps
<1> HIDE DEF A, S
<1>8. A = [i \in 1..(n + 1) |-> A[i]]
  BY <1>1, <1>7
<1>9. \A i \in 1..(n + 1) : A[i] = Shown(versions'[i])
  BY <1>1, <1>2, <1>7
<1>10. Catalog' = A
  BY <1>6, <1>8, <1>9
<1> QED
  BY <1>2, <1>4, <1>10 DEF A, n

\* What a step on one proposal does to the row of it that the ledger shows.
LEMMA RowShown ==
  ASSUME NEW p \in Proposals, \A x \in Proposals \ {p} : prop'[x] = prop[x]
  PROVE  /\ Status' = [Status EXCEPT ![p] = Status'[p]]
         /\ Asked' = [Asked EXCEPT ![p] = prop'[p].semver]
         /\ Status'[p] = IF prop'[p].state \in {"proposed", "under_review", "changes_requested"}
                         THEN "open" ELSE prop'[p].state
         /\ Status[p] = IF prop[p].state \in {"proposed", "under_review", "changes_requested"}
                        THEN "open" ELSE prop[p].state
         /\ Asked[p] = prop[p].semver
BY DEF Status, Asked

\* A new proposal is opened.
LEMMA CreateOpens ==
  ASSUME IInv, NEW r \in Requests, CreateProposal(r)
  PROVE  Ledger!Next \/ UNCHANGED <<prop, revs, versions>>
<1>1. req[r].pay \in Payload /\ req[r].semver \in Semvers /\ versions' = versions
  BY DEF IInv, ReqInv, Carries, CreateProposal
<1>2. ASSUME NEW p \in Proposals, prop[p].state = "none",
             prop' = [prop EXCEPT ![p] = [state |-> "proposed", semver |-> req[r].semver,
                                          target |-> req[r].target]],
             revs' = [revs EXCEPT ![p] = <<req[r].pay>>]
      PROVE  Ledger!Opens(p, req[r].pay, req[r].semver)
  <2>1. /\ prop'[p].state = "proposed" /\ prop'[p].semver = req[r].semver
        /\ \A x \in Proposals \ {p} : prop'[x] = prop[x]
    BY <1>2 DEF IInv, TypeOK
  <2>2. /\ Status[p] = "none" /\ Status' = [Status EXCEPT ![p] = "open"]
        /\ Asked' = [Asked EXCEPT ![p] = req[r].semver]
    BY <1>2, <2>1, RowShown
  <2>3. Catalog' = Catalog
    BY <1>1 DEF Catalog
  <2> QED
    BY <1>2, <2>2, <2>3 DEF Ledger!Opens
<1>3. CASE UNCHANGED <<prop, revs>>
  BY <1>1, <1>3
<1> QED
  BY <1>1, <1>2, <1>3 DEF CreateProposal, Ledger!Next

\* The history after a step that brings payload pay, or none.
LEMMA HistoryLonger ==
  ASSUME TypeOK, NEW p \in Proposals, NEW pay \in Payload \cup {NoPayload},
         revs' = IF pay = NoPayload THEN revs ELSE [revs EXCEPT ![p] = Append(@, pay)]
  PROVE  revs'[p] \in Ledger!Longer(p) /\ revs' = [revs EXCEPT ![p] = revs'[p]]
<1>1. CASE pay = NoPayload
  BY <1>1 DEF TypeOK, Ledger!Longer
<1>2. CASE pay # NoPayload
  <2>1. pay \in Payload /\ revs'[p] = Append(revs[p], pay)
    BY <1>2 DEF TypeOK
  <2> QED
    BY <1>2, <2>1 DEF Ledger!Longer
<1> QED
  BY <1>1, <1>2

\* A decision other than accept continues the review or rejects the proposal.
LEMMA DecideKeepsLedger ==
  ASSUME IInv, AskInv, NEW r \in Requests, Decide(r)
  PROVE  Ledger!Next
<1> DEFINE q == req[r]
           p == q.p
           h == revs'[p]
<1>1. q \in Request /\ q.pc = "begin" /\ p \in Proposals /\ q.act \in Actions \ {"accept"}
  BY DEF IInv, TypeOK, ReqInv, Carries, Decide
<1>2. canPerform(q.act, prop[p].state) /\ versions' = versions
  BY DEF Decide, Permitted
<1>3. prop[p].state \in {"proposed", "under_review", "changes_requested"}
  BY <1>1, <1>2, ActionStates
<1>4. /\ prop'[p].state = nextState(q.act, prop[p].state)
      /\ prop'[p].semver = IF q.semver # 0 THEN q.semver ELSE prop[p].semver
      /\ \A x \in Proposals \ {p} : prop'[x] = prop[x]
  <2> DEFINE s == nextState(q.act, prop[p].state)
             v == IF q.semver # 0 THEN q.semver ELSE prop[p].semver
  <2>1. prop \in [Proposals -> Row] /\ prop[p] \in Row
    BY <1>1 DEF IInv, TypeOK
  <2>2. /\ prop'[p] = [prop[p] EXCEPT !.state = s, !.semver = v]
        /\ \A x \in Proposals \ {p} : prop'[x] = prop[x]
    BY <1>1, <2>1 DEF Decide
  <2> HIDE DEF s, v
  <2>3. prop'[p].state = s /\ prop'[p].semver = v
    BY <2>1, <2>2 DEF Row
  <2> QED
    BY <2>2, <2>3 DEF s, v
<1>5. h \in Ledger!Longer(p) /\ revs' = [revs EXCEPT ![p] = h]
  BY <1>1, HistoryLonger DEF Decide, IInv, Request
<1>6. Catalog' = Catalog
  BY <1>2 DEF Catalog
<1> HIDE DEF q, p, h
<1>7. /\ Status[p] = "open" /\ Asked[p] = prop[p].semver
      /\ Status' = [Status EXCEPT ![p] = Status'[p]]
      /\ Asked' = [Asked EXCEPT ![p] = prop'[p].semver]
      /\ Status'[p] = IF prop'[p].state \in {"proposed", "under_review", "changes_requested"}
                      THEN "open" ELSE prop'[p].state
  BY <1>1, <1>3, <1>4, RowShown
<1>8. CASE q.act = "reject"
  <2>1. prop'[p].state = "rejected"
    BY <1>4, <1>8 DEF nextState, TRANSITIONS
  <2>2. Status' = [Status EXCEPT ![p] = "rejected"]
    BY <1>7, <2>1
  <2>3. q.semver = 0
    BY <1>1, <1>8 DEF AskInv, q
  <2>4. Asked' = Asked
    BY <1>4, <1>7, <2>3 DEF Asked
  <2>5. Ledger!Rejects(p, h)
    BY <1>5, <1>6, <1>7, <2>2, <2>4 DEF Ledger!Rejects
  <2> QED
    BY <1>1, <1>5, <2>5 DEF Ledger!Next
<1>9. CASE q.act # "reject"
  <2>1. prop'[p].state \in {"proposed", "under_review", "changes_requested"}
    BY <1>1, <1>3, <1>4, <1>9 DEF nextState, TRANSITIONS, Actions
  <2>2. Status' = Status
    BY <1>7, <2>1 DEF Status
  <2>3. prop'[p].semver \in Semvers
    <3>1. prop[p].semver \in Semvers
      BY <1>1, <1>3 DEF IInv, RowsInv, Exists, ProposalState
    <3>2. q.semver \in 0..MaxSemver
      BY <1>1 DEF Request
    <3> QED
      BY <1>4, <3>1, <3>2, ReviewAssumption DEF Semvers
  <2>4. Ledger!Continues(p, h, prop'[p].semver)
    BY <1>5, <1>6, <1>7, <2>2 DEF Ledger!Continues
  <2> QED
    BY <1>1, <1>5, <2>3, <2>4 DEF Ledger!Next
<1> QED
  BY <1>8, <1>9

\* What a commit publishes is shown on top of the catalog.
LEMMA CommitPublishes ==
  ASSUME IInv, NEW r \in Requests, Commit(r)
  PROVE  /\ req[r].semver \in Semvers /\ Inserted(req[r]) \in Payload
         /\ Ledger!Publishes(req[r].semver, Inserted(req[r]), req[r].p)
<1> DEFINE q == req[r]
<1>1. ReqInv(q) /\ q.pc = "insert" /\ q.pc \in InTransaction
  BY DEF IInv, Commit, InTransaction
<1>2. q.semver \in Semvers /\ Inserted(q) \in Payload
  BY <1>1, EffectiveIsInserted DEF ReqInv, Carries
<1>3. PICK row \in Version :
         /\ versions' = Append(versions, row)
         /\ row.semver = q.semver /\ row.from = q.p /\ row.payload = Inserted(q)
         /\ \A i \in 1..Len(versions) : versions[i].semver < row.semver
  BY CommittedRow
<1>4. /\ Len(Catalog) = Len(versions)
      /\ \A i \in 1..Len(versions) : Catalog[i] = Shown(versions[i])
      /\ Catalog' = Append(Catalog, Shown(row))
  BY <1>3, CatalogGrows DEF IInv, TypeOK
<1>5. \A i \in 1..Len(Catalog) : Catalog[i].semver < q.semver
  <2>1. \A v : Shown(v).semver = v.semver
    BY DEF Shown
  <2> QED
    BY <1>3, <1>4, <2>1
<1>6. Shown(row) = [semver |-> q.semver, payload |-> Inserted(q), from |-> q.p]
  BY <1>3 DEF Shown
<1> HIDE DEF q
<1> QED
  BY <1>2, <1>4, <1>5, <1>6 DEF Ledger!Publishes, q

\* An accept publishes the last payload of the history, under the semver asked for.
LEMMA CommitKeepsLedger ==
  ASSUME IInv, AskInv, NEW r \in Requests, Commit(r)
  PROVE  Ledger!Next
<1> DEFINE q == req[r]
           p == q.p
           h == revs'[p]
<1>1. q \in Request /\ ReqInv(q) /\ q.pc = "insert" /\ q.pc \in InTransaction
  BY DEF IInv, TypeOK, Commit, InTransaction
<1>2. q.act \in {"accept", "publish"}
  BY <1>1 DEF ReqInv, Carries
<1>3. /\ q.semver \in Semvers /\ Inserted(q) \in Payload
      /\ Ledger!Publishes(q.semver, Inserted(q), p)
  BY CommitPublishes
<1>4. CASE q.act = "accept"
  <2>1. p \in Proposals /\ prop[p].state = "under_review"
    BY <1>1, <1>4 DEF ReqInv, Carries, PinInv
  <2>2. /\ prop'[p].state = "accepted" /\ prop'[p].semver = prop[p].semver
        /\ \A x \in Proposals \ {p} : prop'[x] = prop[x]
    <3>1. /\ prop \in [Proposals -> Row] /\ prop[p] \in Row
          /\ prop' = [prop EXCEPT ![p].state = "accepted"]
      BY <1>4, <2>1 DEF Commit, IInv, TypeOK, nextState, TRANSITIONS
    <3> QED
      BY <2>1, <3>1 DEF Row
  <2>3. LocksProposal(r, p)
    BY <1>1, <1>4 DEF LocksProposal
  <2>4. q.semver = prop[p].semver
    BY <2>1, <2>3 DEF AskInv
  <2>5. h \in Ledger!Longer(p) /\ revs' = [revs EXCEPT ![p] = h]
    BY <1>1, <1>4, <2>1, HistoryLonger DEF Commit, IInv, Request
  <2>6. h[Len(h)] = Inserted(q)
    <3>1. revs[p] \in Seq(Payload) /\ revs[p][Len(revs[p])] = latestPayload(p)
      BY <2>1 DEF IInv, TypeOK, latestPayload
    <3>2. Effective(r) = Inserted(q)
      BY <1>1, EffectiveIsInserted
    <3>3. CASE q.pay = NoPayload
      BY <1>4, <3>1, <3>2, <3>3 DEF Commit, Effective
    <3>4. CASE q.pay # NoPayload
      <4>1. q.pay \in Payload /\ h = Append(revs[p], q.pay)
        BY <1>1, <1>4, <2>1, <3>4 DEF Request, Commit, IInv, TypeOK
      <4> QED
        BY <3>1, <3>4, <4>1, AppendKeeps DEF Inserted
    <3> QED
      BY <3>3, <3>4
  <2> HIDE DEF q, p, h
  <2>7. /\ Status[p] = "open" /\ Asked[p] = prop[p].semver
        /\ Status' = [Status EXCEPT ![p] = "accepted"]
        /\ Asked' = [Asked EXCEPT ![p] = prop[p].semver]
    BY <2>1, <2>2, RowShown
  <2>8. Asked' = Asked
    BY <2>7 DEF Asked
  <2>9. Ledger!Accepts(p, h)
    BY <1>3, <2>4, <2>5, <2>6, <2>7, <2>8 DEF Ledger!Accepts
  <2> QED
    BY <2>1, <2>5, <2>9 DEF Ledger!Next
<1>5. CASE q.act = "publish"
  <2>1. p = NoProposal
    BY <1>1, <1>5 DEF ReqInv, Carries
  <2>2. prop' = prop /\ revs' = revs
    BY <1>5 DEF Commit
  <2>3. Status' = Status /\ Asked' = Asked
    BY <2>2 DEF Status, Asked
  <2>4. Ledger!PublishesDirectly(q.semver, Inserted(q))
    BY <1>3, <2>1, <2>2, <2>3 DEF Ledger!PublishesDirectly
  <2> QED
    BY <1>3, <2>4 DEF Ledger!Next
<1> QED
  BY <1>2, <1>4, <1>5

\* A proposal is deleted, if another request has not done so already.
LEMMA DeleteKeepsLedger ==
  ASSUME IInv, NEW r \in Requests, DeleteProposal(r)
  PROVE  Ledger!Next \/ UNCHANGED <<prop, revs, versions>>
<1> DEFINE p == req[r].p
<1>1. p \in Proposals /\ prop[p].state # "none"
  BY DEF IInv, ReqInv, Carries, PinInv, DeleteProposal
<1>2. /\ prop \in [Proposals -> Row] /\ prop[p] \in Row
      /\ revs \in [Proposals -> Seq(Payload)] /\ revs[p] \in Seq(Payload)
  BY <1>1 DEF IInv, TypeOK
<1>3. /\ prop' = [prop EXCEPT ![p].state = "deleted"] /\ revs' = [revs EXCEPT ![p] = <<>>]
      /\ versions' = versions
  BY DEF DeleteProposal
<1> HIDE DEF p
<1>4. CASE prop[p].state = "deleted"
  <2>1. prop' = prop
    BY <1>1, <1>2, <1>3, <1>4 DEF Row
  <2>2. Len(revs[p]) = 0
    BY <1>1, <1>4 DEF IInv, RowsInv, Exists, ProposalState
  <2>3. revs[p] = <<>>
    BY <1>2, <2>2
  <2>4. revs' = revs
    BY <1>1, <1>2, <1>3, <2>3
  <2> QED
    BY <1>3, <2>1, <2>4
<1>5. CASE prop[p].state # "deleted"
  <2>1. /\ prop'[p].state = "deleted" /\ prop'[p].semver = prop[p].semver
        /\ \A x \in Proposals \ {p} : prop'[x] = prop[x]
    BY <1>1, <1>2, <1>3 DEF Row
  <2>2. /\ Status[p] \notin {"none", "deleted"}
        /\ Status' = [Status EXCEPT ![p] = "deleted"]
        /\ Asked' = [Asked EXCEPT ![p] = prop[p].semver]
    BY <1>1, <1>5, <2>1, RowShown
  <2>3. Asked' = Asked
    BY <2>2 DEF Asked
  <2>4. Catalog' = Catalog
    BY <1>3 DEF Catalog
  <2>5. Ledger!Deletes(p)
    BY <1>3, <2>2, <2>3, <2>4 DEF Ledger!Deletes
  <2> QED
    BY <1>1, <2>5 DEF Ledger!Next
<1> QED
  BY <1>4, <1>5

\* The review implements its ledger: for any number of proposals and concurrent
\* requests every step opens, continues, rejects, accepts, publishes or deletes as
\* ReviewLedger allows, or shows nothing.
THEOREM LedgerKept == Spec => KeepsLedger
<1>1. Init => AskInv
  BY DEF Init, AskInv, LocksProposal, Idle, InTransaction
<1>2. Init => Ledger!Init
  <2> SUFFICES ASSUME Init PROVE Ledger!Init
    OBVIOUS
  <2>1. Status = [p \in Proposals |-> "none"] /\ Asked = [p \in Proposals |-> 0]
    BY DEF Init, Status, Asked
  <2>2. Catalog = <<>>
    BY DEF Init, Catalog
  <2> QED
    BY <2>1, <2>2 DEF Init, Ledger!Init
<1>3. ASSUME IInv, AskInv, [Next]_vars PROVE Ledger!Next \/ UNCHANGED <<prop, revs, versions>>
  <2>1. CASE UNCHANGED vars
    BY <2>1 DEF vars
  <2>2. CASE UNCHANGED dbVars
    BY <2>2 DEF dbVars
  <2>3. ASSUME NEW r \in Requests,
               CreateProposal(r) \/ Decide(r) \/ Commit(r) \/ DeleteProposal(r)
        PROVE  Ledger!Next \/ UNCHANGED <<prop, revs, versions>>
    BY <1>3, <2>3, CreateOpens, DecideKeepsLedger, CommitKeepsLedger, DeleteKeepsLedger
  <2> QED
    BY <1>3, <2>1, <2>2, <2>3, RowSteps
<1>4. UNCHANGED <<prop, revs, versions>> => UNCHANGED Ledger!vars
  BY DEF Ledger!vars, Status, Asked, Catalog
<1>5. IInv /\ AskInv /\ [Next]_vars => [Ledger!Next]_(Ledger!vars)
  BY <1>3, <1>4
<1>6. IInv /\ AskInv /\ [Next]_vars => AskInv'
  BY AskKept
<1> QED
  BY <1>1, <1>2, <1>5, <1>6, IInvHolds, PTL DEF Spec, KeepsLedger, Ledger!Spec
=============================================================================
