------------------------- MODULE PointerMirrorProofs -------------------------
(***************************************************************************)
(* What the pointer pipeline guarantees for every number of replicas,      *)
(* lanes, proposals, refs and snapshots, wherever upstream moves a ref and *)
(* whenever a replica loses the lead or dies: an accepted pointer is not   *)
(* lost, what is published under it is what its accept allowed and what    *)
(* the gate judged, once and for good, and drift is announced once per     *)
(* tick that could not know of the others.                                 *)
(*                                                                         *)
(* A tick carries a copy of its row through several awaits, in which the   *)
(* row may be cleared by another tick and the proposal decided anew.  The  *)
(* invariant says what the copy still has to do with the row.              *)
(***************************************************************************)
EXTENDS PointerMirror, FiniteSetTheorems, TLAPS

PropRow == [state : {"open", "changes_requested", "accepted", "rejected"},
            ref : Refs, commit : 0..MaxSnapshot, verified : 0..MaxSnapshot,
            semver : Semvers, revision : 1..MaxRevisions]
TxnRow  == [commit : 0..MaxSnapshot, judged : 0..MaxSnapshot, overridden : BOOLEAN]
VersionRow == [job : Job, snap : Snapshots, by : Threads,
               commit : 0..MaxSnapshot, status : {"active", "quarantined"}]
ObjectRow  == [snap : Snapshots, by : Threads]

\* The ticks in progress.
PreScan == [pc : {"fetch", "delete", "insert"}, p : Proposals, digest : 0..MaxSnapshot,
            status : {"none", "scanned", "source_changed", "unreachable"}, of : Pointer]
Mirror  == [pc : {"exists", "fetch", "put", "insert", "clear", "failed", "refused"},
            semver : Semvers, job : Job, snap : 0..MaxSnapshot]
Refresh == [pc : {"fetch", "notify", "report"}, semver : Semvers,
            found : {"none", "unreachable", "drift", "scanned"}]

-----------------------------------------------------------------------------
(* The invariant *)

PropInv == DOMAIN prop \subseteq Proposals /\ \A p \in DOMAIN prop : prop[p] \in PropRow

\* A complete report has a digest, also the one a tick is about to insert.
ReportInv ==
    /\ report \in [Proposals -> Seq(Report)]
    /\ \A p \in Proposals : \A i \in 1..Len(report[p]) :
          report[p][i].status = "scanned" => report[p][i].digest # None

PreScanInv ==
    /\ DOMAIN prescans \subseteq Threads
    /\ \A t \in DOMAIN prescans :
          /\ prescans[t] \in PreScan
          /\ prescans[t].status = "scanned" => prescans[t].digest # None

\* An accept in progress has an override, or has read a report without findings.
TxnInv ==
    /\ DOMAIN txn \subseteq DOMAIN prop
    /\ \A p \in DOMAIN txn :
          /\ txn[p] \in TxnRow
          /\ txn[p].overridden \/ txn[p].judged \in Snapshots \ Flagged

\* A job without an override pins what the gate judged, unless the report was
\* replaced before its digest was copied.
JobOK(job) ==
    \/ job.overridden \/ job.swapped
    \/ job.digest = job.judged /\ job.judged \in Snapshots \ Flagged

QueueInv ==
    /\ DOMAIN queue \subseteq Semvers
    /\ \A s \in DOMAIN queue : queue[s] \in QueueRow /\ JobOK(queue[s].job)

VersionInv ==
    /\ DOMAIN version \subseteq DOMAIN object
    /\ \A s \in DOMAIN version :
          /\ version[s] \in VersionRow
          /\ JobOK(version[s].job) /\ version[s].snap \in Lets(version[s].job)

ObjectInv ==
    DOMAIN object \subseteq Semvers /\ \A s \in DOMAIN object : object[s] \in ObjectRow

\* The job that a tick works on is still that of the row, unless the semver has
\* its version by now; what it fetched is among what the job lets through.
MirrorOK(m) ==
    /\ m \in Mirror /\ JobOK(m.job)
    /\ \/ m.semver \in DOMAIN version
       \/ m.semver \in DOMAIN queue /\ queue[m.semver].job = m.job
    /\ m.pc = "clear" => m.semver \in DOMAIN version
    /\ m.pc \in {"put", "insert"} => m.snap \in Lets(m.job)
    /\ m.pc = "insert" => m.semver \in DOMAIN object

MirrorInv ==
    DOMAIN mirrors \subseteq Threads /\ \A t \in DOMAIN mirrors : MirrorOK(mirrors[t])

RefreshInv ==
    /\ DOMAIN refreshes \subseteq Threads
    /\ \A t \in DOMAIN refreshes :
          /\ refreshes[t] \in Refresh
          /\ refreshes[t].pc # "fetch" => refreshes[t].found # "none"
          /\ refreshes[t].pc = "notify" => refreshes[t].found = "drift"

DriftType ==
    /\ due \in [Semvers -> BOOLEAN]
    /\ prior \in [Semvers -> {"none", "scanned", "drift"}]
    /\ notified \in [Semvers -> Nat]

\* The threads that may still announce a drift: those in a tick, and those of a
\* replica that takes itself for the leader.
Able == {t \in Threads : isLeader[t[1]] \/ t \in DOMAIN refreshes}

\* The ticks that are done with announcing a drift and have not reported it.
Told(s) == {t \in DOMAIN refreshes : /\ refreshes[t].semver = s
                                     /\ refreshes[t].pc = "report"
                                     /\ refreshes[t].found = "drift"}

\* How often the lead was taken, or may be without another break.
Leads == breaks + (IF holder # NoWorker /\ linked[holder] THEN 1 ELSE 0)

\* Until a report says drift, whoever announces it uses up a thread; only the
\* next leader brings new ones.
DriftInv ==
    /\ Cardinality(Able) <= Cardinality(Lanes) * Leads
    /\ \A s \in Semvers : prior[s] # "drift" =>
          notified[s] + Cardinality(Able \ Told(s)) <= Cardinality(Lanes) * Leads

UpstreamType == upstream \in [Refs -> 0..MaxSnapshot]

ReviewInv == PropInv /\ ReportInv /\ PreScanInv /\ TxnInv
StoreInv  == QueueInv /\ VersionInv /\ ObjectInv /\ MirrorInv
TickInv   == LeadTypeOK /\ RefreshInv /\ DriftType

IInv ==
    /\ UpstreamType /\ ReviewInv /\ StoreInv /\ AcceptedIsQueued
    /\ TickInv /\ DriftInv /\ DriftAnnouncedOnce

-----------------------------------------------------------------------------
(* Tables, and which steps change which of them *)

\* Put adds a row or replaces it, and Drop takes it away.
LEMMA PutDrop ==
  ASSUME NEW f, NEW x, NEW v
  PROVE  /\ DOMAIN Put(f, x, v) = DOMAIN f \cup {x} /\ Put(f, x, v)[x] = v
         /\ \A y \in DOMAIN f \ {x} : Put(f, x, v)[y] = f[y]
         /\ DOMAIN Drop(f, x) = DOMAIN f \ {x}
         /\ \A y \in DOMAIN f \ {x} : Drop(f, x)[y] = f[y]
BY DEF Put, Drop

\* A death takes the ticks of the worker away.
LEMMA WithoutRows ==
  ASSUME NEW f, NEW w
  PROVE  /\ DOMAIN Without(f, w) = {t \in DOMAIN f : t[1] # w}
         /\ \A t \in DOMAIN Without(f, w) : t \in DOMAIN f /\ Without(f, w)[t] = f[t]
BY DEF Without

\* In the beginning every table is empty.
LEMMA NoRows == DOMAIN <<>> = {}
OBVIOUS

\* The steps that change proposals, reports, accepts and pre-scans ...
ReviewAct ==
    \/ \E p \in Proposals, r \in Refs, s \in Semvers : CreateProposal(p, r, s)
    \/ \E p \in Proposals, r \in Refs : Resubmit(p, r)
    \/ \E p \in Proposals : \/ Revise(p) \/ RequestChanges(p) \/ Reject(p)
                            \/ AcceptGate(p) \/ EnqueueMirror(p)
    \/ \E t \in Threads : PreScanStep(t)
    \/ \E w \in Workers : Dies(w)

LEMMA ReviewSteps ==
  ASSUME Next
  PROVE  ReviewAct \/ UNCHANGED <<prop, report, txn, prescans>>
<1>1. ASSUME RetryMirror PROVE UNCHANGED <<prop, report, txn, prescans>>
  BY <1>1 DEF RetryMirror, reviewVars, sweepVars
<1>2. ASSUME NEW r \in Refs, UpstreamMoves(r) PROVE UNCHANGED <<prop, report, txn, prescans>>
  BY <1>2 DEF UpstreamMoves, reviewVars, sweepVars
<1>3. ASSUME DayPasses PROVE UNCHANGED <<prop, report, txn, prescans>>
  BY <1>3 DEF DayPasses, reviewVars, sweepVars
<1>4. ASSUME NEW t \in Threads, MirrorStep(t) PROVE UNCHANGED <<prop, report, txn, prescans>>
  BY <1>4 DEF MirrorStep, MirrorBegins, MirrorExists, MirrorFetch, MirrorPut, MirrorInsert,
              MirrorClears, MirrorRecords, reviewVars
<1>5. ASSUME NEW t \in Threads, MirrorUnscanned(t) PROVE UNCHANGED <<prop, report, txn, prescans>>
  BY <1>5 DEF MirrorUnscanned, reviewVars
<1>6. ASSUME NEW t \in Threads, RefreshStep(t) PROVE UNCHANGED <<prop, report, txn, prescans>>
  BY <1>6 DEF RefreshStep, RefreshBegins, RefreshFetch, RefreshNotify, RefreshReport, reviewVars
<1>7. ASSUME NEW w \in Workers, LeadsOn(w) PROVE UNCHANGED <<prop, report, txn, prescans>>
  BY <1>7 DEF LeadsOn, reviewVars, sweepVars
<1> QED
  BY <1>1, <1>2, <1>3, <1>4, <1>5, <1>6, <1>7 DEF Next, Review, ReviewAct

\* ... those that change the queue, the versions, their artifacts and mirrors ...
StoreAct ==
    \/ \E p \in Proposals : EnqueueMirror(p)
    \/ RetryMirror
    \/ \E t \in Threads : MirrorStep(t) \/ MirrorUnscanned(t)
    \/ \E w \in Workers : Dies(w)

LEMMA StoreSteps ==
  ASSUME Next
  PROVE  StoreAct \/ UNCHANGED <<queue, version, object, mirrors>>
<1> DEFINE Same == UNCHANGED <<queue, version, object, mirrors>>
<1>1. ASSUME NEW p \in Proposals, NEW r \in Refs, NEW s \in Semvers, CreateProposal(p, r, s)
      PROVE  Same
  BY <1>1 DEF CreateProposal, mirrorVars, sweepVars
<1>2. ASSUME NEW p \in Proposals, NEW r \in Refs, Resubmit(p, r) PROVE Same
  BY <1>2 DEF Resubmit, mirrorVars, sweepVars
<1>3. ASSUME NEW p \in Proposals, Revise(p) \/ RequestChanges(p) \/ Reject(p) \/ AcceptGate(p)
      PROVE  Same
  BY <1>3 DEF Revise, RequestChanges, Reject, AcceptGate, mirrorVars, sweepVars
<1>4. ASSUME NEW r \in Refs, UpstreamMoves(r) PROVE Same
  BY <1>4 DEF UpstreamMoves, mirrorVars, sweepVars
<1>5. ASSUME DayPasses PROVE Same
  BY <1>5 DEF DayPasses, mirrorVars, sweepVars
<1>6. ASSUME NEW t \in Threads, PreScanStep(t) PROVE Same
  BY <1>6 DEF PreScanStep, PreScanBegins, PreScanFetch, PreScanDelete, PreScanInsert, mirrorVars
<1>7. ASSUME NEW t \in Threads, RefreshStep(t) PROVE Same
  BY <1>7 DEF RefreshStep, RefreshBegins, RefreshFetch, RefreshNotify, RefreshReport, mirrorVars
<1>8. ASSUME NEW w \in Workers, LeadsOn(w) PROVE Same
  BY <1>8 DEF LeadsOn, mirrorVars, sweepVars
<1> QED
  BY <1>1, <1>2, <1>3, <1>4, <1>5, <1>6, <1>7, <1>8 DEF Next, Review, StoreAct

\* ... and those that change the lead, the refreshes and what they report.
TickAct ==
    \/ DayPasses
    \/ \E t \in Threads : RefreshStep(t)
    \/ \E w \in Workers : LeadsOn(w) \/ Dies(w)

LEMMA TickSteps ==
  ASSUME Next
  PROVE  TickAct \/ UNCHANGED <<due, prior, notified, refreshes, holder, linked, isLeader, breaks>>
<1> DEFINE Same == UNCHANGED <<due, prior, notified, refreshes, holder, linked, isLeader, breaks>>
<1>1. ASSUME NEW p \in Proposals, NEW r \in Refs, NEW s \in Semvers, CreateProposal(p, r, s)
      PROVE  Same
  BY <1>1 DEF CreateProposal, driftVars, sweepVars, leadVars
<1>2. ASSUME NEW p \in Proposals, NEW r \in Refs, Resubmit(p, r) PROVE Same
  BY <1>2 DEF Resubmit, driftVars, sweepVars, leadVars
<1>3. ASSUME NEW p \in Proposals,
             \/ Revise(p) \/ RequestChanges(p) \/ Reject(p)
             \/ AcceptGate(p) \/ EnqueueMirror(p)
      PROVE  Same
  BY <1>3 DEF Revise, RequestChanges, Reject, AcceptGate, EnqueueMirror, Enqueues,
              driftVars, sweepVars, leadVars
<1>4. ASSUME RetryMirror PROVE Same
  BY <1>4 DEF RetryMirror, driftVars, sweepVars, leadVars
<1>5. ASSUME NEW r \in Refs, UpstreamMoves(r) PROVE Same
  BY <1>5 DEF UpstreamMoves, driftVars, sweepVars, leadVars
<1>6. ASSUME NEW t \in Threads, PreScanStep(t) PROVE Same
  BY <1>6 DEF PreScanStep, PreScanBegins, PreScanFetch, PreScanDelete, PreScanInsert,
              driftVars, leadVars
<1>7. ASSUME NEW t \in Threads, MirrorStep(t) PROVE Same
  BY <1>7 DEF MirrorStep, MirrorBegins, MirrorExists, MirrorFetch, MirrorPut, MirrorInsert,
              MirrorClears, MirrorRecords, driftVars, leadVars
<1>8. ASSUME NEW t \in Threads, MirrorUnscanned(t) PROVE Same
  BY <1>8 DEF MirrorUnscanned, driftVars, leadVars
<1> QED
  BY <1>1, <1>2, <1>3, <1>4, <1>5, <1>6, <1>7, <1>8 DEF Next, Review, TickAct

-----------------------------------------------------------------------------
(* Proposals, reports and accepts *)

\* The number sets.
LEMMA Numbers ==
  /\ None \in 0..MaxSnapshot /\ 1 \in 0..MaxSnapshot /\ 1 \in 1..MaxRevisions
  /\ Snapshots \subseteq 0..MaxSnapshot
  /\ \A c \in 0..MaxSnapshot : c # None => c \in Snapshots
  /\ \A n \in 1..MaxRevisions : n < MaxRevisions => n + 1 \in 1..MaxRevisions
BY PointerAssumption DEF None, Snapshots

\* What the web application sends of a pointer's commit, and pins of it.
LEMMA Commits ==
  ASSUME IInv
  PROVE  /\ \A r \in Refs : Pin(r) \in 0..MaxSnapshot
         /\ \A p \in DOMAIN prop : CommitSent(p) \subseteq 0..MaxSnapshot
BY Numbers DEF IInv, UpstreamType, ReviewInv, PropInv, PropRow, Pin, CommitSent

\* The digest that a mirror job copies is a digest.
LEMMA ScannedDigestType ==
  ASSUME IInv, NEW p \in Proposals
  PROVE  ScannedDigest(p) \in 0..MaxSnapshot
<1> DEFINE scanned == {i \in DOMAIN report[p] : report[p][i].status = "scanned"}
           last    == {i \in scanned : \A j \in scanned : j <= i}
<1>1. CASE last = {}
  BY <1>1, Numbers DEF ScannedDigest
<1>2. CASE last # {}
  <2>1. PICK i \in DOMAIN report[p] : ScannedDigest(p) = report[p][i].digest
    BY <1>2 DEF ScannedDigest
  <2>2. report[p][i] \in Report
    BY <2>1 DEF IInv, ReviewInv, ReportInv
  <2> QED
    BY <2>1, <2>2 DEF Report
<1> QED
  BY <1>1, <1>2

\* The gate reads none or the last report, and lets a complete one pass that has
\* no findings.
LEMMA GateReads ==
  ASSUME IInv, NEW p \in Proposals
  PROVE  /\ GateReport(p).digest \in 0..MaxSnapshot
         /\ NeedsOverride(GateReport(p)) \in BOOLEAN
         /\ NeedsOverride(GateReport(p)) \/ GateReport(p).digest \in Snapshots \ Flagged
<1>1. CASE report[p] = <<>>
  BY <1>1, Numbers DEF GateReport, NeedsOverride
<1>2. CASE report[p] # <<>>
  <2> DEFINE i == Len(report[p])
  <2>1. /\ i \in 1..Len(report[p]) /\ report[p][i] \in Report
        /\ GateReport(p) = report[p][i]
    BY <1>2 DEF IInv, ReviewInv, ReportInv, GateReport
  <2>2. report[p][i].digest \in 0..MaxSnapshot
    BY <2>1 DEF Report
  <2>3. report[p][i].status = "scanned" => report[p][i].digest \in Snapshots
    BY <2>1, <2>2, Numbers DEF IInv, ReviewInv, ReportInv
  <2> QED
    BY <2>1, <2>2, <2>3 DEF NeedsOverride
<1> QED
  BY <1>1, <1>2

LEMMA PropKept ==
  ASSUME IInv, [Next]_vars
  PROVE  PropInv'
<1> USE DEF PropInv
<1>1. DOMAIN prop \subseteq Proposals /\ \A p \in DOMAIN prop : prop[p] \in PropRow
  BY DEF IInv, ReviewInv
<1>2. CASE prop' = prop
  BY <1>1, <1>2
<1>3. ASSUME NEW p \in Proposals, NEW r \in Refs, NEW s \in Semvers, CreateProposal(p, r, s)
      PROVE  PropInv'
  <2> DEFINE row == [state |-> "open", ref |-> r, commit |-> Pin(r), verified |-> Pin(r),
                     semver |-> s, revision |-> 1]
  <2>1. row \in PropRow
    BY Commits, Numbers DEF PropRow
  <2>2. prop' = Put(prop, p, row)
    BY <1>3 DEF CreateProposal
  <2> HIDE DEF row
  <2> QED
    BY <1>1, <2>1, <2>2 DEF Put
<1>4. ASSUME NEW p \in DOMAIN prop, NEW row \in PropRow, prop' = [prop EXCEPT ![p] = row]
      PROVE  PropInv'
  BY <1>1, <1>4
<1>5. ASSUME NEW p \in Proposals, Revise(p) PROVE PropInv'
  <2>1. PICK c \in CommitSent(p) :
             prop' = [prop EXCEPT ![p].commit = c, ![p].revision = @ + 1]
    BY <1>5 DEF Revise
  <2>2. p \in DOMAIN prop /\ prop[p].revision < MaxRevisions
    BY <1>5 DEF Revise, Free
  <2>3. [prop[p] EXCEPT !.commit = c, !.revision = @ + 1] \in PropRow
    BY <1>1, <2>2, Commits, Numbers DEF PropRow
  <2> QED
    BY <1>1, <1>4, <2>1, <2>2, <2>3
<1>6. ASSUME NEW p \in Proposals, RequestChanges(p) \/ Reject(p) PROVE PropInv'
  <2>1. /\ p \in DOMAIN prop
        /\ \/ prop' = [prop EXCEPT ![p].state = "changes_requested"]
           \/ prop' = [prop EXCEPT ![p].state = "rejected"]
    BY <1>6 DEF RequestChanges, Reject, Free
  <2> QED
    BY <1>1, <2>1 DEF PropRow
<1>7. ASSUME NEW p \in Proposals, NEW r \in Refs, Resubmit(p, r) PROVE PropInv'
  <2>1. p \in DOMAIN prop /\ prop[p].revision < MaxRevisions /\ prop[p] \in PropRow
    BY <1>1, <1>7 DEF Resubmit, Free
  <2>2. prop[p].revision + 1 \in 1..MaxRevisions
    BY <2>1, Numbers DEF PropRow
  <2>3. ASSUME NEW c \in CommitSent(p),
               prop' = [prop EXCEPT ![p].state = "open", ![p].commit = c,
                                    ![p].revision = @ + 1]
        PROVE  PropInv'
    <3>1. [prop[p] EXCEPT !.state = "open", !.commit = c, !.revision = @ + 1] \in PropRow
      BY <2>1, <2>2, Commits DEF PropRow
    <3> QED
      BY <1>1, <1>4, <2>1, <2>3, <3>1
  <2>4. ASSUME prop' = [prop EXCEPT
               ![p].state = "open", ![p].ref = r, ![p].commit = Pin(r),
               ![p].verified = Pin(r), ![p].revision = @ + 1]
        PROVE  PropInv'
    <3>1. [prop[p] EXCEPT !.state = "open", !.ref = r, !.commit = Pin(r),
                          !.verified = Pin(r), !.revision = @ + 1] \in PropRow
      BY <2>1, <2>2, Commits DEF PropRow
    <3> QED
      BY <1>1, <1>4, <2>1, <2>4, <3>1
  <2> QED
    BY <1>7, <2>3, <2>4 DEF Resubmit
<1>8. ASSUME NEW p \in Proposals, EnqueueMirror(p) PROVE PropInv'
  <2>1. /\ p \in DOMAIN txn
        /\ prop' = [prop EXCEPT ![p].state = "accepted", ![p].commit = txn[p].commit]
    BY <1>8 DEF EnqueueMirror, Enqueues
  <2>2. p \in DOMAIN prop /\ txn[p].commit \in 0..MaxSnapshot
    BY <2>1 DEF IInv, ReviewInv, TxnInv, TxnRow
  <2>3. [prop[p] EXCEPT !.state = "accepted", !.commit = txn[p].commit] \in PropRow
    BY <1>1, <2>2 DEF PropRow
  <2> QED
    BY <1>1, <1>4, <2>1, <2>2, <2>3
<1>9. ASSUME NEW t \in Threads, PreScanStep(t) PROVE prop' = prop
  BY <1>9 DEF PreScanStep, PreScanBegins, PreScanFetch, PreScanDelete, PreScanInsert, reviewVars
<1>10. ASSUME NEW p \in Proposals, AcceptGate(p) PROVE prop' = prop
  BY <1>10 DEF AcceptGate
<1>11. ASSUME NEW w \in Workers, Dies(w) PROVE prop' = prop
  BY <1>11 DEF Dies, reviewVars
<1> QED
  BY <1>2, <1>3, <1>5, <1>6, <1>7, <1>8, <1>9, <1>10, <1>11, ReviewSteps
     DEF ReviewAct, vars, reviewVars

LEMMA TxnKept ==
  ASSUME IInv, [Next]_vars
  PROVE  TxnInv'
<1> USE DEF TxnInv
<1>1. TxnInv /\ DOMAIN prop \subseteq Proposals
  BY DEF IInv, ReviewInv, PropInv
<1>2. CASE txn' = txn /\ DOMAIN prop \subseteq DOMAIN prop'
  BY <1>1, <1>2
<1>3. ASSUME NEW p \in Proposals, AcceptGate(p) PROVE TxnInv'
  <2>1. PICK c \in CommitSent(p) :
             txn' = Put(txn, p, [commit |-> c, judged |-> GateReport(p).digest,
                                 overridden |-> NeedsOverride(GateReport(p))])
    BY <1>3 DEF AcceptGate
  <2>2. p \in DOMAIN prop /\ prop' = prop
    BY <1>3 DEF AcceptGate, Free
  <2> DEFINE row == [commit |-> c, judged |-> GateReport(p).digest,
                     overridden |-> NeedsOverride(GateReport(p))]
  <2>3. c \in 0..MaxSnapshot
    BY <2>2, Commits
  <2>4. row \in TxnRow
    BY <2>3, GateReads DEF TxnRow
  <2>5. row.overridden \/ row.judged \in Snapshots \ Flagged
    BY GateReads
  <2> HIDE DEF row
  <2>6. DOMAIN txn' = DOMAIN txn \cup {p} /\ txn'[p] = row
        /\ \A y \in DOMAIN txn \ {p} : txn'[y] = txn[y]
    BY <2>1 DEF row, Put
  <2> QED
    BY <1>1, <2>2, <2>4, <2>5, <2>6
<1>4. ASSUME NEW p \in Proposals, EnqueueMirror(p) PROVE TxnInv'
  <2>1. txn' = Drop(txn, p) /\ DOMAIN prop' = DOMAIN prop
    BY <1>4 DEF EnqueueMirror, Enqueues
  <2> QED
    BY <1>1, <2>1 DEF Drop
<1>5. ASSUME NEW p \in Proposals, NEW r \in Refs, NEW s \in Semvers, CreateProposal(p, r, s)
      PROVE  txn' = txn /\ DOMAIN prop \subseteq DOMAIN prop'
  BY <1>5 DEF CreateProposal, Put
<1>6. ASSUME NEW p \in Proposals, NEW r \in Refs, Resubmit(p, r)
      PROVE  txn' = txn /\ DOMAIN prop \subseteq DOMAIN prop'
  BY <1>6 DEF Resubmit
<1>7. ASSUME NEW p \in Proposals, Revise(p) \/ RequestChanges(p) \/ Reject(p)
      PROVE  txn' = txn /\ DOMAIN prop \subseteq DOMAIN prop'
  BY <1>7 DEF Revise, RequestChanges, Reject
<1>8. ASSUME NEW t \in Threads, PreScanStep(t) PROVE txn' = txn /\ prop' = prop
  BY <1>8 DEF PreScanStep, PreScanBegins, PreScanFetch, PreScanDelete, PreScanInsert, reviewVars
<1>9. ASSUME NEW w \in Workers, Dies(w) PROVE txn' = txn /\ prop' = prop
  BY <1>9 DEF Dies, reviewVars
<1> QED
  BY <1>2, <1>3, <1>4, <1>5, <1>6, <1>7, <1>8, <1>9, ReviewSteps
     DEF ReviewAct, vars, reviewVars

\* Only an insertion adds a report, and it adds one that fits.
LEMMA ReportKept ==
  ASSUME IInv, [Next]_vars
  PROVE  ReportInv'
<1>1. ReportInv /\ PreScanInv
  BY DEF IInv, ReviewInv
<1>2. CASE report' = report
  BY <1>1, <1>2 DEF ReportInv
<1>3. ASSUME NEW t \in Threads, PreScanDelete(t) PROVE ReportInv'
  <2>1. prescans[t].p \in Proposals /\ report' = [report EXCEPT ![prescans[t].p] = <<>>]
    BY <1>1, <1>3 DEF PreScanDelete, PreScanInv, PreScan
  <2>2. <<>> \in Seq(Report) /\ Len(<<>>) = 0
    OBVIOUS
  <2> QED
    BY <1>1, <2>1, <2>2 DEF ReportInv
<1>4. ASSUME NEW t \in Threads, PreScanInsert(t) PROVE ReportInv'
  <2> DEFINE x   == prescans[t]
             p   == x.p
             row == [of |-> x.of, status |-> x.status, digest |-> x.digest]
             new == Append(report[p], row)
  <2>1. x \in PreScan /\ (x.status = "scanned" => x.digest # None)
    BY <1>1, <1>4 DEF PreScanInsert, PreScanInv
  <2>2. /\ p \in Proposals /\ row \in Report
        /\ row.status = "scanned" => row.digest # None
    BY <2>1 DEF PreScan, Report
  <2>3. report' = [report EXCEPT ![p] = new]
    BY <1>4 DEF PreScanInsert
  <2> HIDE DEF row
  <2>4. report[p] \in Seq(Report)
    BY <1>1, <2>2 DEF ReportInv
  <2>5. /\ new \in Seq(Report) /\ Len(new) = Len(report[p]) + 1
        /\ new[Len(report[p]) + 1] = row
        /\ \A i \in 1..Len(report[p]) : new[i] = report[p][i]
    BY <2>2, <2>4
  <2>6. \A i \in 1..Len(new) : new[i].status = "scanned" => new[i].digest # None
    <3> TAKE i \in 1..Len(new)
    <3>1. i = Len(report[p]) + 1 \/ i \in 1..Len(report[p])
      BY <2>4, <2>5
    <3> QED
      BY <1>1, <2>2, <2>5, <3>1 DEF ReportInv
  <2> HIDE DEF new, p
  <2> QED
    BY <1>1, <2>2, <2>3, <2>5, <2>6 DEF ReportInv
<1>5. ASSUME NEW t \in Threads, PreScanBegins(t) \/ PreScanFetch(t) PROVE report' = report
  BY <1>5 DEF PreScanBegins, PreScanFetch, reviewVars
<1>6. ASSUME NEW p \in Proposals, NEW r \in Refs, NEW s \in Semvers, CreateProposal(p, r, s)
      PROVE  report' = report
  BY <1>6 DEF CreateProposal
<1>7. ASSUME NEW p \in Proposals,
             Revise(p) \/ RequestChanges(p) \/ Reject(p) \/ AcceptGate(p) \/ EnqueueMirror(p)
      PROVE  report' = report
  BY <1>7 DEF Revise, RequestChanges, Reject, AcceptGate, EnqueueMirror, Enqueues
<1>8. ASSUME NEW w \in Workers, Dies(w) PROVE report' = report
  BY <1>8 DEF Dies, reviewVars
<1>9. ASSUME NEW p \in Proposals, NEW r \in Refs, Resubmit(p, r) PROVE report' = report
  BY <1>9 DEF Resubmit
<1> QED
  BY <1>2, <1>3, <1>4, <1>5, <1>6, <1>7, <1>8, <1>9, ReviewSteps
     DEF ReviewAct, PreScanStep, vars, reviewVars

LEMMA PreScanKept ==
  ASSUME IInv, [Next]_vars
  PROVE  PreScanInv'
<1> USE DEF PreScanInv
<1>1. PreScanInv /\ PropInv
  BY DEF IInv, ReviewInv
<1>2. CASE prescans' = prescans
  BY <1>1, <1>2
<1>3. ASSUME NEW t \in Threads, PreScanBegins(t) PROVE PreScanInv'
  <2>1. PICK p \in Proposals :
          /\ p \in DOMAIN prop
          /\ prescans' = Put(prescans, t,
               [pc |-> "fetch", p |-> p, digest |-> None, status |-> "none",
                of |-> [ref |-> prop[p].ref, commit |-> prop[p].commit]])
    BY <1>3 DEF PreScanBegins, NeedsPreScan
  <2> DEFINE row == [pc |-> "fetch", p |-> p, digest |-> None, status |-> "none",
                     of |-> [ref |-> prop[p].ref, commit |-> prop[p].commit]]
  <2>2. [ref |-> prop[p].ref, commit |-> prop[p].commit] \in Pointer
    BY <1>1, <2>1 DEF PropInv, PropRow, Pointer
  <2>3. row \in PreScan /\ row.status # "scanned"
    BY <2>2, Numbers DEF PreScan
  <2>4. prescans' = Put(prescans, t, row)
    BY <2>1
  <2> HIDE DEF row
  <2> QED
    BY <1>1, <2>3, <2>4 DEF Put
<1>4. ASSUME NEW t \in Threads, PreScanFetch(t) PROVE PreScanInv'
  <2> DEFINE c   == upstream[prescans[t].of.ref]
             pin == prescans[t].of.commit
             st  == IF c = None THEN "unreachable"
                    ELSE IF pin \notin {None, c} THEN "source_changed" ELSE "scanned"
             d   == IF st = "scanned" THEN c ELSE None
  <2>1. t \in DOMAIN prescans /\ prescans[t] \in PreScan
    BY <1>1, <1>4 DEF PreScanFetch
  <2>2. c \in 0..MaxSnapshot
    BY <2>1 DEF PreScan, Pointer, IInv, UpstreamType
  <2>3. /\ d \in 0..MaxSnapshot /\ (st = "scanned" => d # None)
        /\ st \in {"scanned", "source_changed", "unreachable"}
    BY <2>2, Numbers
  <2>4. prescans' = [prescans EXCEPT ![t].pc = "delete", ![t].status = st, ![t].digest = d]
    BY <1>4 DEF PreScanFetch
  <2> HIDE DEF st, d
  <2>5. /\ [prescans[t] EXCEPT !.pc = "delete", !.status = st, !.digest = d] \in PreScan
        /\ prescans'[t] = [prescans[t] EXCEPT !.pc = "delete", !.status = st, !.digest = d]
    BY <2>1, <2>3, <2>4 DEF PreScan
  <2>6. prescans'[t] \in PreScan /\ prescans'[t].status = st /\ prescans'[t].digest = d
    BY <2>1, <2>5 DEF PreScan
  <2>7. DOMAIN prescans' = DOMAIN prescans
        /\ \A u \in DOMAIN prescans \ {t} : prescans'[u] = prescans[u]
    BY <2>4
  <2> QED
    BY <1>1, <2>3, <2>6, <2>7
<1>5. ASSUME NEW t \in Threads, PreScanDelete(t) PROVE PreScanInv'
  BY <1>1, <1>5 DEF PreScanDelete, PreScan
<1>6. ASSUME NEW t \in Threads, PreScanInsert(t) PROVE PreScanInv'
  BY <1>1, <1>6 DEF PreScanInsert, Drop
<1>7. ASSUME NEW w \in Workers, Dies(w) PROVE PreScanInv'
  <2>1. prescans' = Without(prescans, w)
    BY <1>7 DEF Dies
  <2> QED
    BY <1>1, <2>1 DEF Without
<1>8. ASSUME NEW p \in Proposals, NEW r \in Refs, NEW s \in Semvers, CreateProposal(p, r, s)
      PROVE  prescans' = prescans
  BY <1>8 DEF CreateProposal, sweepVars
<1>9. ASSUME NEW p \in Proposals, NEW r \in Refs, Resubmit(p, r) PROVE prescans' = prescans
  BY <1>9 DEF Resubmit, sweepVars
<1>10. ASSUME NEW p \in Proposals,
              Revise(p) \/ RequestChanges(p) \/ Reject(p) \/ AcceptGate(p) \/ EnqueueMirror(p)
       PROVE  prescans' = prescans
  BY <1>10 DEF Revise, RequestChanges, Reject, AcceptGate, EnqueueMirror, Enqueues, sweepVars
<1> QED
  BY <1>2, <1>3, <1>4, <1>5, <1>6, <1>7, <1>8, <1>9, <1>10, ReviewSteps
     DEF ReviewAct, PreScanStep, vars, sweepVars

-----------------------------------------------------------------------------
(* The queue, the mirrors and the versions *)

\* No step takes a version back or alters it, nor the artifact's key; a row leaves
\* the queue for a version only, and keeps its job until then.
LEMMA StoreStays ==
  ASSUME IInv, [Next]_vars
  PROVE  /\ DOMAIN version \subseteq DOMAIN version'
         /\ \A s \in DOMAIN version : version'[s] = version[s]
         /\ DOMAIN object \subseteq DOMAIN object'
         /\ \A s \in DOMAIN queue :
               \/ s \in DOMAIN version
               \/ s \in DOMAIN queue' /\ queue'[s].job = queue[s].job
<1> DEFINE Stays == /\ DOMAIN version \subseteq DOMAIN version'
                    /\ \A s \in DOMAIN version : version'[s] = version[s]
                    /\ DOMAIN object \subseteq DOMAIN object'
                    /\ \A s \in DOMAIN queue :
                          \/ s \in DOMAIN version
                          \/ s \in DOMAIN queue' /\ queue'[s].job = queue[s].job
<1>0. /\ \A s \in DOMAIN queue : queue[s] \in QueueRow
      /\ \A t \in DOMAIN mirrors : MirrorOK(mirrors[t])
  BY DEF IInv, StoreInv, QueueInv, MirrorInv
<1>1. CASE UNCHANGED <<queue, version, object>>
  BY <1>1
<1>2. ASSUME NEW p \in Proposals, EnqueueMirror(p) PROVE Stays
  <2>1. /\ version' = version /\ object' = object
        /\ \/ queue' = queue
           \/ /\ prop[p].semver \notin DOMAIN queue
              /\ queue' = Put(queue, prop[p].semver, [job |-> MirrorJob(p), attempts |-> 0])
    BY <1>2 DEF EnqueueMirror, Enqueues
  <2> QED
    BY <2>1 DEF Put
<1>3. ASSUME RetryMirror PROVE Stays
  BY <1>0, <1>3 DEF RetryMirror, QueueRow
<1>4. ASSUME NEW t \in Threads, MirrorPut(t) PROVE Stays
  <2>1. /\ version' = version /\ queue' = queue
        /\ object' = Put(object, mirrors[t].semver, [snap |-> mirrors[t].snap, by |-> t])
    BY <1>4 DEF MirrorPut
  <2> QED
    BY <2>1 DEF Put
<1>5. ASSUME NEW t \in Threads, MirrorInsert(t) PROVE Stays
  <2>1. /\ object' = object /\ queue' = queue
        /\ \/ version' = version
           \/ /\ mirrors[t].semver \notin DOMAIN version
              /\ \E row : version' = Put(version, mirrors[t].semver, row)
    BY <1>5 DEF MirrorInsert
  <2> QED
    BY <2>1 DEF Put
<1>6. ASSUME NEW t \in Threads, MirrorClears(t) PROVE Stays
  <2>1. /\ version' = version /\ object' = object
        /\ queue' = queue \/ queue' = Drop(queue, mirrors[t].semver)
    BY <1>6 DEF MirrorClears
  <2>2. mirrors[t].semver \in DOMAIN version
    BY <1>0, <1>6 DEF MirrorClears, MirrorOK
  <2> QED
    BY <2>1, <2>2 DEF Drop
<1>7. ASSUME NEW t \in Threads, MirrorRecords(t) PROVE Stays
  <2>1. /\ version' = version /\ object' = object
        /\ \/ queue' = queue
           \/ \E n : queue' = [queue EXCEPT ![mirrors[t].semver].attempts = n]
    BY <1>7 DEF MirrorRecords
  <2>2. ASSUME NEW n, queue' = [queue EXCEPT ![mirrors[t].semver].attempts = n]
        PROVE  \A s \in DOMAIN queue : s \in DOMAIN queue' /\ queue'[s].job = queue[s].job
    BY <1>0, <2>2 DEF QueueRow
  <2> QED
    BY <2>1, <2>2
<1>8. ASSUME NEW t \in Threads,
             MirrorBegins(t) \/ MirrorExists(t) \/ MirrorFetch(t) \/ MirrorUnscanned(t)
      PROVE  UNCHANGED <<queue, version, object>>
  BY <1>8 DEF MirrorBegins, MirrorExists, MirrorFetch, MirrorUnscanned, mirrorVars
<1>9. ASSUME NEW w \in Workers, Dies(w) PROVE UNCHANGED <<queue, version, object>>
  BY <1>9 DEF Dies, mirrorVars
<1> QED
  BY <1>1, <1>2, <1>3, <1>4, <1>5, <1>6, <1>7, <1>8, <1>9, StoreSteps
     DEF StoreAct, MirrorStep, vars, mirrorVars

\* What a tick holds stays good in steps of others.
LEMMA MirrorStaysOK ==
  ASSUME IInv, [Next]_vars, NEW m, MirrorOK(m)
  PROVE  MirrorOK(m)'
BY StoreStays DEF MirrorOK

\* The mirror job of an accept is one, and carries what the accept was let off or
\* judged by.
LEMMA MirrorJobOK ==
  ASSUME IInv, NEW p \in DOMAIN txn
  PROVE  MirrorJob(p) \in Job /\ JobOK(MirrorJob(p)) /\ prop[p].semver \in Semvers
<1>1. /\ p \in Proposals /\ prop[p] \in PropRow /\ txn[p] \in TxnRow
      /\ txn[p].overridden \/ txn[p].judged \in Snapshots \ Flagged
  BY DEF IInv, ReviewInv, PropInv, TxnInv
<1>2. ScannedDigest(p) \in 0..MaxSnapshot /\ (txn[p].judged # ScannedDigest(p)) \in BOOLEAN
  BY <1>1, ScannedDigestType
<1>3. MirrorJob(p) \in Job
  BY <1>1, <1>2 DEF MirrorJob, Job, PropRow, TxnRow
<1>4. JobOK(MirrorJob(p))
  BY <1>1 DEF MirrorJob, JobOK
<1> QED
  BY <1>1, <1>3, <1>4 DEF PropRow

LEMMA QueueKept ==
  ASSUME IInv, [Next]_vars
  PROVE  QueueInv'
<1> USE DEF QueueInv
<1>1. QueueInv /\ 0 \in 0..MaxAttempts /\ MaxAttempts \in 0..MaxAttempts
  BY PointerAssumption DEF IInv, StoreInv
<1>2. CASE queue' = queue
  BY <1>1, <1>2
<1>3. ASSUME NEW p \in Proposals, EnqueueMirror(p), queue' # queue PROVE QueueInv'
  <2> DEFINE row == [job |-> MirrorJob(p), attempts |-> 0]
  <2>1. queue' = Put(queue, prop[p].semver, row) /\ p \in DOMAIN txn
    BY <1>3 DEF EnqueueMirror, Enqueues
  <2>2. row \in QueueRow /\ JobOK(row.job) /\ prop[p].semver \in Semvers
    BY <1>1, <2>1, MirrorJobOK DEF QueueRow
  <2> HIDE DEF row
  <2> QED
    BY <1>1, <2>1, <2>2 DEF Put
<1>4. ASSUME NEW s \in DOMAIN queue, NEW n \in 0..MaxAttempts
      PROVE  /\ [queue[s] EXCEPT !.attempts = n] \in QueueRow
             /\ JobOK([queue[s] EXCEPT !.attempts = n].job)
  BY <1>1 DEF QueueRow
<1>5. ASSUME RetryMirror PROVE QueueInv'
  <2>1. queue' = [s \in DOMAIN queue |-> IF queue[s].attempts < MaxAttempts THEN queue[s]
                                         ELSE [queue[s] EXCEPT !.attempts = 0]]
    BY <1>5 DEF RetryMirror
  <2> QED
    BY <1>1, <1>4, <2>1
<1>6. ASSUME NEW t \in Threads, MirrorClears(t) PROVE QueueInv'
  <2>1. queue' = queue \/ queue' = Drop(queue, mirrors[t].semver)
    BY <1>6 DEF MirrorClears
  <2> QED
    BY <1>1, <2>1 DEF Drop
<1>7. ASSUME NEW t \in Threads, MirrorRecords(t), queue' # queue PROVE QueueInv'
  <2> DEFINE s == mirrors[t].semver
             n == IF mirrors[t].pc = "refused" THEN MaxAttempts ELSE queue[s].attempts + 1
             k == IF n > MaxAttempts THEN MaxAttempts ELSE n
  <2>1. s \in DOMAIN queue /\ queue' = [queue EXCEPT ![s].attempts = k]
    BY <1>7 DEF MirrorRecords, InQueue
  <2>2. queue[s].attempts \in 0..MaxAttempts
    BY <1>1, <2>1 DEF QueueRow
  <2>3. k \in 0..MaxAttempts
    BY <2>2, PointerAssumption
  <2> HIDE DEF s, k
  <2>4. queue' = [queue EXCEPT ![s] = [queue[s] EXCEPT !.attempts = k]]
    BY <2>1
  <2> QED
    BY <1>1, <1>4, <2>1, <2>3, <2>4
<1>8. ASSUME NEW t \in Threads,
             \/ MirrorBegins(t) \/ MirrorExists(t) \/ MirrorFetch(t) \/ MirrorPut(t)
             \/ MirrorInsert(t) \/ MirrorUnscanned(t)
      PROVE  queue' = queue
  BY <1>8 DEF MirrorBegins, MirrorExists, MirrorFetch, MirrorPut, MirrorInsert,
              MirrorUnscanned, mirrorVars
<1>9. ASSUME NEW w \in Workers, Dies(w) PROVE queue' = queue
  BY <1>9 DEF Dies, mirrorVars
<1> QED
  BY <1>2, <1>3, <1>5, <1>6, <1>7, <1>8, <1>9, StoreSteps
     DEF StoreAct, MirrorStep, vars, mirrorVars

LEMMA ObjectKept ==
  ASSUME IInv, [Next]_vars
  PROVE  ObjectInv'
<1> USE DEF ObjectInv
<1>1. ObjectInv /\ MirrorInv
  BY DEF IInv, StoreInv
<1>2. CASE object' = object
  BY <1>1, <1>2
<1>3. ASSUME NEW t \in Threads, MirrorPut(t) PROVE ObjectInv'
  <2> DEFINE row == [snap |-> mirrors[t].snap, by |-> t]
  <2>1. object' = Put(object, mirrors[t].semver, row)
    BY <1>3 DEF MirrorPut
  <2>2. mirrors[t].semver \in Semvers /\ row \in ObjectRow
    BY <1>1, <1>3 DEF MirrorPut, MirrorInv, MirrorOK, Mirror, ObjectRow, Lets
  <2> HIDE DEF row
  <2> QED
    BY <1>1, <2>1, <2>2 DEF Put
<1>4. ASSUME NEW p \in Proposals, EnqueueMirror(p) PROVE object' = object
  BY <1>4 DEF EnqueueMirror, Enqueues
<1>5. ASSUME RetryMirror PROVE object' = object
  BY <1>5 DEF RetryMirror
<1>6. ASSUME NEW t \in Threads,
             \/ MirrorBegins(t) \/ MirrorExists(t) \/ MirrorFetch(t) \/ MirrorInsert(t)
             \/ MirrorClears(t) \/ MirrorRecords(t) \/ MirrorUnscanned(t)
      PROVE  object' = object
  BY <1>6 DEF MirrorBegins, MirrorExists, MirrorFetch, MirrorInsert, MirrorClears,
              MirrorRecords, MirrorUnscanned, mirrorVars
<1>7. ASSUME NEW w \in Workers, Dies(w) PROVE object' = object
  BY <1>7 DEF Dies, mirrorVars
<1> QED
  BY <1>2, <1>3, <1>4, <1>5, <1>6, <1>7, StoreSteps DEF StoreAct, MirrorStep, vars, mirrorVars

\* A version is inserted of what its tick fetched, which its job lets through.
LEMMA VersionKept ==
  ASSUME IInv, [Next]_vars
  PROVE  VersionInv'
<1> USE DEF VersionInv
<1>1. VersionInv /\ MirrorInv
  BY DEF IInv, StoreInv
<1>2. CASE version' = version
  BY <1>1, <1>2, StoreStays
<1>3. ASSUME NEW t \in Threads, MirrorInsert(t), version' # version PROVE VersionInv'
  <2> DEFINE m   == mirrors[t]
             row == [job |-> m.job, snap |-> m.snap, by |-> t,
                     commit |-> IF m.job.commit # None \/ m.job.ref \in Registry
                                THEN m.job.commit ELSE m.snap,
                     status |-> IF m.snap \in Critical THEN "quarantined" ELSE "active"]
  <2>1. version' = Put(version, m.semver, row) /\ object' = object
    BY <1>3 DEF MirrorInsert
  <2>2. MirrorOK(m) /\ m.pc = "insert"
    BY <1>1, <1>3 DEF MirrorInsert, MirrorInv
  <2>3. /\ m \in Mirror /\ JobOK(m.job) /\ m.snap \in Lets(m.job)
        /\ m.semver \in DOMAIN object
    BY <2>2 DEF MirrorOK
  <2>4. m.job \in Job /\ m.snap \in Snapshots /\ m.job.commit \in 0..MaxSnapshot
    BY <2>3 DEF Mirror, Job, Lets
  <2>5. row \in VersionRow /\ row.job = m.job /\ row.snap = m.snap
    BY <2>4, Numbers DEF VersionRow
  <2> HIDE DEF row, m
  <2> QED
    BY <1>1, <2>1, <2>3, <2>5 DEF Put
<1>4. ASSUME NEW p \in Proposals, EnqueueMirror(p) PROVE version' = version
  BY <1>4 DEF EnqueueMirror, Enqueues
<1>5. ASSUME RetryMirror PROVE version' = version
  BY <1>5 DEF RetryMirror
<1>6. ASSUME NEW t \in Threads,
             \/ MirrorBegins(t) \/ MirrorExists(t) \/ MirrorFetch(t) \/ MirrorPut(t)
             \/ MirrorClears(t) \/ MirrorRecords(t) \/ MirrorUnscanned(t)
      PROVE  version' = version
  BY <1>6 DEF MirrorBegins, MirrorExists, MirrorFetch, MirrorPut, MirrorClears,
              MirrorRecords, MirrorUnscanned, mirrorVars
<1>7. ASSUME NEW w \in Workers, Dies(w) PROVE version' = version
  BY <1>7 DEF Dies, mirrorVars
<1> QED
  BY <1>2, <1>3, <1>4, <1>5, <1>6, <1>7, StoreSteps DEF StoreAct, MirrorStep, vars, mirrorVars

\* A step of one tick, to m or to its end.
LEMMA MirrorFrame ==
  ASSUME IInv, [Next]_vars, NEW t \in Threads,
         \/ mirrors' = Drop(mirrors, t)
         \/ \E m : MirrorOK(m)' /\ mirrors' = Put(mirrors, t, m)
  PROVE  MirrorInv'
<1>1. DOMAIN mirrors \subseteq Threads /\ \A u \in DOMAIN mirrors : MirrorOK(mirrors[u])
  BY DEF IInv, StoreInv, MirrorInv
<1>2. \A u \in DOMAIN mirrors : MirrorOK(mirrors[u]) => \A m : m = mirrors[u] => MirrorOK(m)'
  BY MirrorStaysOK
<1>3. SUFFICES ASSUME NEW u \in DOMAIN mirrors'
               PROVE  u \in Threads /\ \E m : m = mirrors'[u] /\ MirrorOK(m)'
  BY DEF MirrorInv
<1>4. CASE mirrors' = Drop(mirrors, t)
  BY <1>1, <1>2, <1>3, <1>4 DEF Drop
<1>5. ASSUME NEW m, MirrorOK(m)', mirrors' = Put(mirrors, t, m)
      PROVE  u \in Threads /\ \E k : k = mirrors'[u] /\ MirrorOK(k)'
  BY <1>1, <1>2, <1>3, <1>5 DEF Put
<1> QED
  BY <1>4, <1>5

LEMMA MirrorKept ==
  ASSUME IInv, [Next]_vars
  PROVE  MirrorInv'
<1>1. /\ DOMAIN mirrors \subseteq Threads
      /\ \A t \in DOMAIN mirrors : MirrorOK(mirrors[t])
  BY DEF IInv, StoreInv, MirrorInv
<1>2. CASE mirrors' = mirrors
  <2>1. \A t \in DOMAIN mirrors : \A m : m = mirrors[t] => MirrorOK(m)'
    BY <1>1, MirrorStaysOK
  <2> QED
    BY <1>1, <1>2, <2>1 DEF MirrorInv
<1>3. ASSUME NEW t \in Threads, MirrorBegins(t) PROVE MirrorInv'
  <2>1. PICK s \in DOMAIN queue :
          mirrors' = Put(mirrors, t, [pc |-> "exists", semver |-> s, job |-> queue[s].job,
                                      snap |-> None])
    BY <1>3 DEF MirrorBegins
  <2> DEFINE m == [pc |-> "exists", semver |-> s, job |-> queue[s].job, snap |-> None]
  <2>2. /\ s \in Semvers /\ queue[s].job \in Job /\ JobOK(queue[s].job)
        /\ queue' = queue
    BY <1>3 DEF IInv, StoreInv, QueueInv, QueueRow, MirrorBegins, mirrorVars
  <2>3. m \in Mirror
    BY <2>2, Numbers DEF Mirror
  <2>4. ASSUME NEW k, k = m PROVE MirrorOK(k)'
    BY <2>2, <2>3, <2>4 DEF MirrorOK
  <2>5. mirrors' = Put(mirrors, t, m)
    BY <2>1
  <2> HIDE DEF m
  <2>6. \E k : MirrorOK(k)' /\ mirrors' = Put(mirrors, t, k)
    BY <2>4, <2>5
  <2> QED
    BY <2>6, MirrorFrame
<1>4. ASSUME NEW t \in DOMAIN mirrors,
             NEW pc \in {"exists", "fetch", "put", "insert", "clear", "failed", "refused"},
             NEW c \in 0..MaxSnapshot,
             mirrors' = [mirrors EXCEPT ![t].pc = pc, ![t].snap = c],
             pc = "clear" => mirrors[t].semver \in DOMAIN version',
             pc \in {"put", "insert"} => c \in Lets(mirrors[t].job),
             pc = "insert" => mirrors[t].semver \in DOMAIN object'
      PROVE  MirrorInv'
  <2> DEFINE o == mirrors[t]
             m == [o EXCEPT !.pc = pc, !.snap = c]
  <2>1. o \in Mirror /\ \A k : k = o => MirrorOK(k)'
    BY <1>1, MirrorStaysOK DEF MirrorOK
  <2>2. /\ m \in Mirror /\ m.pc = pc /\ m.snap = c
        /\ m.semver = o.semver /\ m.job = o.job
    BY <2>1 DEF Mirror
  <2>3. mirrors' = Put(mirrors, t, m)
    BY <1>4 DEF Put
  <2> HIDE DEF m, o
  <2>4. ASSUME NEW j, NEW k, j = o, k = m, MirrorOK(j)' PROVE MirrorOK(k)'
    BY <1>4, <2>2, <2>4 DEF MirrorOK, o
  <2>5. \E k : MirrorOK(k)' /\ mirrors' = Put(mirrors, t, k)
    BY <2>1, <2>3, <2>4
  <2>6. t \in Threads
    BY <1>1
  <2> QED
    BY <2>5, <2>6, MirrorFrame
<1>5. ASSUME NEW t \in DOMAIN mirrors,
             NEW pc \in {"exists", "fetch", "put", "insert", "clear", "failed", "refused"},
             MirrorGoes(t, pc),
             pc = "clear" => mirrors[t].semver \in DOMAIN version',
             pc \in {"put", "insert"} => mirrors[t].snap \in Lets(mirrors[t].job),
             pc = "insert" => mirrors[t].semver \in DOMAIN object'
      PROVE  MirrorInv'
  <2>1. mirrors[t] \in Mirror
    BY <1>1 DEF MirrorOK
  <2>2. mirrors[t].snap \in 0..MaxSnapshot
    BY <2>1 DEF Mirror
  <2>3. [mirrors[t] EXCEPT !.pc = pc, !.snap = mirrors[t].snap] = [mirrors[t] EXCEPT !.pc = pc]
    BY <2>1 DEF Mirror
  <2>4. mirrors' = [mirrors EXCEPT ![t].pc = pc, ![t].snap = mirrors[t].snap]
    BY <1>5, <2>3 DEF MirrorGoes
  <2> QED
    BY <1>4, <1>5, <2>2, <2>4
<1>6. ASSUME NEW t \in Threads, MirrorExists(t) PROVE MirrorInv'
  <2> DEFINE pc == IF mirrors[t].semver \in DOMAIN version THEN "clear" ELSE "fetch"
  <2>1. t \in DOMAIN mirrors /\ MirrorGoes(t, pc) /\ version' = version
    BY <1>6 DEF MirrorExists, mirrorVars
  <2>2. /\ pc \in {"exists", "fetch", "put", "insert", "clear", "failed", "refused"}
        /\ pc \notin {"put", "insert"}
        /\ pc = "clear" => mirrors[t].semver \in DOMAIN version'
    BY <2>1
  <2> HIDE DEF pc
  <2> QED
    BY <1>5, <2>1, <2>2
<1>7. ASSUME NEW t \in Threads, MirrorFetch(t) PROVE MirrorInv'
  <2> DEFINE job == mirrors[t].job
             c  == upstream[job.ref]
             pc == IF c = None THEN "failed"
                   ELSE IF Refusal(job, c) THEN "refused" ELSE "put"
  <2>1. t \in DOMAIN mirrors /\ mirrors' = [mirrors EXCEPT ![t].pc = pc, ![t].snap = c]
    BY <1>7 DEF MirrorFetch
  <2>2. c \in 0..MaxSnapshot
    BY <1>1, <2>1 DEF MirrorOK, Mirror, Job, IInv, UpstreamType
  <2>3. pc = "put" => c \in Lets(job)
    BY <2>2, Numbers DEF Refusal, Lets
  <2>4. /\ pc \in {"exists", "fetch", "put", "insert", "clear", "failed", "refused"}
        /\ pc \notin {"clear", "insert"}
    OBVIOUS
  <2> HIDE DEF pc, c
  <2> QED
    BY <1>4, <2>1, <2>2, <2>3, <2>4
<1>8. ASSUME NEW t \in Threads, MirrorUnscanned(t) PROVE MirrorInv'
  BY <1>5, <1>8 DEF MirrorUnscanned
<1>9. ASSUME NEW t \in Threads, MirrorPut(t) PROVE MirrorInv'
  <2>1. /\ t \in DOMAIN mirrors /\ mirrors[t].pc = "put" /\ MirrorGoes(t, "insert")
        /\ mirrors[t].semver \in DOMAIN object'
    BY <1>9 DEF MirrorPut, Put
  <2>2. mirrors[t].snap \in Lets(mirrors[t].job)
    BY <1>1, <2>1 DEF MirrorOK
  <2> QED
    BY <1>5, <2>1, <2>2
<1>10. ASSUME NEW t \in Threads, MirrorInsert(t) PROVE MirrorInv'
  <2>1. /\ t \in DOMAIN mirrors
        /\ \/ MirrorGoes(t, "failed")
           \/ MirrorGoes(t, "clear") /\ mirrors[t].semver \in DOMAIN version'
    BY <1>10 DEF MirrorInsert, Put
  <2> QED
    BY <1>5, <2>1
<1>11. ASSUME NEW t \in Threads, MirrorClears(t) \/ MirrorRecords(t) PROVE MirrorInv'
  BY <1>11, MirrorFrame DEF MirrorClears, MirrorRecords
<1>12. ASSUME NEW w \in Workers, Dies(w) PROVE MirrorInv'
  <2>1. mirrors' = Without(mirrors, w)
    BY <1>12 DEF Dies
  <2>2. \A t \in DOMAIN mirrors : \A m : m = mirrors[t] => MirrorOK(m)'
    BY <1>1, MirrorStaysOK
  <2> QED
    BY <1>1, <2>1, <2>2 DEF MirrorInv, Without
<1>13. ASSUME NEW p \in Proposals, EnqueueMirror(p) PROVE mirrors' = mirrors
  BY <1>13 DEF EnqueueMirror, Enqueues, sweepVars
<1>14. ASSUME RetryMirror PROVE mirrors' = mirrors
  BY <1>14 DEF RetryMirror, sweepVars
<1> QED
  BY <1>2, <1>3, <1>6, <1>7, <1>8, <1>9, <1>10, <1>11, <1>12, <1>13, <1>14, StoreSteps
     DEF StoreAct, MirrorStep, vars, sweepVars

\* An accepted proposal keeps its semver, and the row or the version under it.
LEMMA AcceptedKept ==
  ASSUME IInv, [Next]_vars
  PROVE  AcceptedIsQueued'
<1>1. AcceptedIsQueued /\ \A p \in DOMAIN prop : prop[p] \in PropRow
  BY DEF IInv, ReviewInv, PropInv
<1>2. \A s \in DOMAIN queue \cup DOMAIN version : s \in (DOMAIN queue \cup DOMAIN version)'
  BY StoreStays
<1>3. SUFFICES ASSUME NEW p \in DOMAIN prop', prop'[p].state = "accepted",
                      ~(p \in DOMAIN prop /\ prop[p].state = "accepted"
                          /\ prop'[p].semver = prop[p].semver)
               PROVE  prop'[p].semver \in DOMAIN queue' \cup DOMAIN version'
  BY <1>1, <1>2 DEF AcceptedIsQueued
<1>4. ASSUME NEW q \in Proposals, EnqueueMirror(q)
      PROVE  prop'[p].semver \in DOMAIN queue' \cup DOMAIN version'
  <2>1. /\ prop' = [prop EXCEPT ![q].state = "accepted", ![q].commit = txn[q].commit]
        /\ q \in DOMAIN txn
    BY <1>4 DEF EnqueueMirror, Enqueues
  <2>2. q \in DOMAIN prop
    BY <2>1 DEF IInv, ReviewInv, TxnInv
  <2>3. prop'[q].semver = prop[q].semver /\ \A y \in DOMAIN prop \ {q} : prop'[y] = prop[y]
    BY <1>1, <2>1, <2>2 DEF PropRow
  <2>4. p = q
    BY <1>3, <2>1, <2>3
  <2>5. prop[q].semver \in DOMAIN queue'
    BY <1>4 DEF EnqueueMirror, Enqueues, Put
  <2> QED
    BY <2>3, <2>4, <2>5
<1>5. ASSUME NEW q \in Proposals, NEW r \in Refs, NEW s \in Semvers, CreateProposal(q, r, s)
      PROVE  FALSE
  <2> DEFINE row == [state |-> "open", ref |-> r, commit |-> Pin(r), verified |-> Pin(r),
                     semver |-> s, revision |-> 1]
  <2>1. prop' = Put(prop, q, row) /\ row.state # "accepted" /\ q \notin DOMAIN prop
    BY <1>5 DEF CreateProposal
  <2> HIDE DEF row
  <2> QED
    BY <1>3, <2>1 DEF Put
<1>6. ASSUME NEW q \in DOMAIN prop, DOMAIN prop' = DOMAIN prop,
             \A y \in DOMAIN prop \ {q} : prop'[y] = prop[y],
             prop'[q].state # "accepted"
      PROVE  FALSE
  BY <1>3, <1>6
<1>7. ASSUME NEW q \in Proposals, NEW r \in Refs, Resubmit(q, r) PROVE FALSE
  <2>1. /\ q \in DOMAIN prop /\ DOMAIN prop' = DOMAIN prop
        /\ \A y \in DOMAIN prop \ {q} : prop'[y] = prop[y]
    BY <1>7 DEF Resubmit, Free
  <2>2. prop'[q].state = "open"
    <3>1. prop[q] \in PropRow
      BY <1>1, <2>1
    <3>2. ASSUME NEW c, prop' = [prop EXCEPT ![q].state = "open", ![q].commit = c,
                                             ![q].revision = @ + 1]
          PROVE  prop'[q].state = "open"
      BY <2>1, <3>1, <3>2 DEF PropRow
    <3>3. ASSUME prop' = [prop EXCEPT
                    ![q].state = "open", ![q].ref = r, ![q].commit = Pin(r),
                    ![q].verified = Pin(r), ![q].revision = @ + 1]
          PROVE  prop'[q].state = "open"
      BY <2>1, <3>1, <3>3 DEF PropRow
    <3> QED
      BY <1>7, <3>2, <3>3 DEF Resubmit
  <2> QED
    BY <1>6, <2>1, <2>2
<1>8. ASSUME NEW q \in Proposals, Revise(q) \/ RequestChanges(q) \/ Reject(q) PROVE FALSE
  <2>1. /\ q \in DOMAIN prop /\ DOMAIN prop' = DOMAIN prop
        /\ \A y \in DOMAIN prop \ {q} : prop'[y] = prop[y]
        /\ prop[q].state = "open"
    BY <1>8 DEF Revise, RequestChanges, Reject, Free
  <2>2. prop'[q].state \in {"open", "changes_requested", "rejected"}
    <3>1. prop[q] \in PropRow
      BY <1>1, <2>1
    <3>2. CASE Revise(q)
      <4>1. PICK c : prop' = [prop EXCEPT ![q].commit = c, ![q].revision = @ + 1]
        BY <3>2 DEF Revise
      <4>2. prop'[q].state = prop[q].state
        BY <2>1, <3>1, <4>1 DEF PropRow
      <4> QED
        BY <2>1, <4>2
    <3>3. CASE RequestChanges(q)
      <4>1. prop' = [prop EXCEPT ![q].state = "changes_requested"]
        BY <3>3 DEF RequestChanges
      <4> QED
        BY <2>1, <3>1, <4>1 DEF PropRow
    <3>4. CASE Reject(q)
      <4>1. prop' = [prop EXCEPT ![q].state = "rejected"]
        BY <3>4 DEF Reject
      <4> QED
        BY <2>1, <3>1, <4>1 DEF PropRow
    <3> QED
      BY <1>8, <3>2, <3>3, <3>4
  <2> QED
    BY <1>6, <2>1, <2>2
<1>9. prop' # prop
  BY <1>3
<1>10. ASSUME NEW q \in Proposals, AcceptGate(q) PROVE FALSE
  BY <1>9, <1>10 DEF AcceptGate
<1>11. ASSUME NEW t \in Threads, PreScanStep(t) PROVE FALSE
  BY <1>9, <1>11 DEF PreScanStep, PreScanBegins, PreScanFetch, PreScanDelete, PreScanInsert,
                     reviewVars
<1>12. ASSUME NEW w \in Workers, Dies(w) PROVE FALSE
  BY <1>9, <1>12 DEF Dies, reviewVars
<1> QED
  BY <1>4, <1>5, <1>7, <1>8, <1>9, <1>10, <1>11, <1>12, ReviewSteps
     DEF ReviewAct, vars, reviewVars

-----------------------------------------------------------------------------
(* The lead, the refreshes and the drift notices *)

LEMMA LeadKept ==
  ASSUME IInv, [Next]_vars
  PROVE  LeadTypeOK' /\ breaks' >= breaks
<1>1. LeadTypeOK /\ breaks \in Nat
  BY LeadershipAssumption DEF IInv, TickInv, LeadTypeOK
<1>2. CASE UNCHANGED leadVars
  BY <1>1, <1>2 DEF leadVars, LeadTypeOK
<1>3. ASSUME NEW w \in Workers, AttemptLeadership(w) \/ SessionEnds(w) \/ StepDown(w)
      PROVE  LeadTypeOK' /\ breaks' >= breaks
  <2>1. breaks' = breaks
    BY <1>3 DEF AttemptLeadership, SessionEnds, StepDown
  <2>2. LeadTypeOK'
    BY <1>1, <1>3, <2>1, Zenon DEF AttemptLeadership, SessionEnds, StepDown, LeadTypeOK
  <2> QED
    BY <1>1, <2>1, <2>2
<1>4. ASSUME NEW w \in Workers, ConnectionBreaks(w) \/ LeaderDies(w)
      PROVE  LeadTypeOK' /\ breaks' >= breaks
  <2>1. breaks' = breaks + 1 /\ breaks < MaxBreaks
    BY <1>4 DEF ConnectionBreaks, LeaderDies
  <2>2. breaks' \in 0..MaxBreaks
    BY <1>1, <2>1, LeadershipAssumption DEF LeadTypeOK
  <2>3. LeadTypeOK'
    BY <1>1, <1>4, <2>2, Zenon DEF ConnectionBreaks, LeaderDies, LeadTypeOK
  <2> QED
    BY <1>1, <2>1, <2>3
<1>5. ASSUME DayPasses PROVE UNCHANGED leadVars
  BY <1>5 DEF DayPasses
<1>6. ASSUME NEW t \in Threads, RefreshStep(t) PROVE UNCHANGED leadVars
  BY <1>6 DEF RefreshStep, RefreshBegins, RefreshFetch, RefreshNotify, RefreshReport
<1> QED
  BY <1>2, <1>3, <1>4, <1>5, <1>6, TickSteps DEF TickAct, LeadsOn, Dies, vars, leadVars

LEMMA RefreshKept ==
  ASSUME IInv, [Next]_vars
  PROVE  RefreshInv'
<1> USE DEF RefreshInv
<1>1. RefreshInv /\ DOMAIN version \subseteq Semvers
  BY DEF IInv, TickInv, StoreInv, VersionInv, ObjectInv
<1>2. CASE refreshes' = refreshes
  BY <1>1, <1>2
<1>3. ASSUME NEW t \in Threads, RefreshBegins(t) PROVE RefreshInv'
  <2>1. PICK s \in DOMAIN version :
          refreshes' = Put(refreshes, t, [pc |-> "fetch", semver |-> s, found |-> "none"])
    BY <1>3 DEF RefreshBegins
  <2> DEFINE row == [pc |-> "fetch", semver |-> s, found |-> "none"]
  <2>2. row \in Refresh /\ row.pc = "fetch"
    BY <1>1 DEF Refresh
  <2>3. refreshes' = Put(refreshes, t, row)
    BY <2>1
  <2> HIDE DEF row
  <2> QED
    BY <1>1, <2>2, <2>3 DEF Put
<1>4. ASSUME NEW t \in Threads, RefreshFetch(t) PROVE RefreshInv'
  <2> DEFINE s == refreshes[t].semver
             c == upstream[version[s].job.ref]
             f == IF c = None THEN "unreachable"
                  ELSE IF Drifted(s, c) THEN "drift" ELSE "scanned"
             g == IF f = "drift" THEN "notify" ELSE "report"
  <2>1. t \in DOMAIN refreshes /\ refreshes' = [refreshes EXCEPT ![t].found = f, ![t].pc = g]
    BY <1>4 DEF RefreshFetch
  <2>2. f \in {"unreachable", "drift", "scanned"} /\ g \in {"notify", "report"}
    OBVIOUS
  <2> HIDE DEF f, g
  <2>3. refreshes[t] \in Refresh
    BY <1>1, <2>1
  <2>4. g = "notify" => f = "drift"
    BY DEF f, g
  <2>5. /\ DOMAIN refreshes' = DOMAIN refreshes
        /\ \A u \in DOMAIN refreshes \ {t} : refreshes'[u] = refreshes[u]
    BY <2>1
  <2>6. refreshes'[t] \in Refresh /\ refreshes'[t].found = f /\ refreshes'[t].pc = g
    BY <2>1, <2>2, <2>3 DEF Refresh
  <2> QED
    BY <1>1, <2>2, <2>4, <2>5, <2>6
<1>5. ASSUME NEW t \in Threads, RefreshNotify(t) PROVE RefreshInv'
  <2>1. t \in DOMAIN refreshes /\ refreshes[t].pc = "notify"
        /\ refreshes' = [refreshes EXCEPT ![t].pc = "report"]
    BY <1>5 DEF RefreshNotify
  <2>2. refreshes[t] \in Refresh /\ refreshes[t].found # "none"
    BY <1>1, <2>1
  <2> QED
    BY <1>1, <2>1, <2>2 DEF Refresh
<1>6. ASSUME NEW t \in Threads, RefreshReport(t) PROVE RefreshInv'
  BY <1>1, <1>6 DEF RefreshReport, Drop
<1>7. ASSUME NEW w \in Workers, Dies(w) PROVE RefreshInv'
  <2>1. refreshes' = Without(refreshes, w)
    BY <1>7 DEF Dies
  <2> QED
    BY <1>1, <2>1 DEF Without
<1>8. ASSUME DayPasses PROVE refreshes' = refreshes
  BY <1>8 DEF DayPasses, sweepVars
<1>9. ASSUME NEW w \in Workers, LeadsOn(w) PROVE refreshes' = refreshes
  BY <1>9 DEF LeadsOn, sweepVars
<1> QED
  BY <1>2, <1>3, <1>4, <1>5, <1>6, <1>7, <1>8, <1>9, TickSteps
     DEF TickAct, RefreshStep, vars, sweepVars

LEMMA DriftTypeKept ==
  ASSUME IInv, [Next]_vars
  PROVE  DriftType'
<1> USE DEF DriftType
<1>1. DriftType /\ RefreshInv
  BY DEF IInv, TickInv
<1>2. CASE UNCHANGED <<due, prior, notified>>
  BY <1>1, <1>2
<1>3. ASSUME DayPasses PROVE DriftType'
  BY <1>1, <1>3 DEF DayPasses
<1>4. ASSUME NEW t \in Threads, RefreshNotify(t) PROVE DriftType'
  <2>1. UNCHANGED <<due, prior>> /\ refreshes[t].semver \in Semvers
    BY <1>1, <1>4 DEF RefreshNotify, RefreshInv, Refresh
  <2>2. \/ notified' = notified
        \/ notified' = [notified EXCEPT ![refreshes[t].semver] = @ + 1]
    BY <1>4 DEF RefreshNotify
  <2> QED
    BY <1>1, <2>1, <2>2
<1>5. ASSUME NEW t \in Threads, RefreshReport(t) PROVE DriftType'
  <2> DEFINE s == refreshes[t].semver
             f == refreshes[t].found
  <2>1. s \in Semvers /\ f \in {"unreachable", "drift", "scanned"}
    BY <1>1, <1>5 DEF RefreshReport, RefreshInv, Refresh
  <2>2. /\ prior' = IF f = "unreachable" THEN prior ELSE [prior EXCEPT ![s] = f]
        /\ notified' = IF f = "scanned" THEN [notified EXCEPT ![s] = 0] ELSE notified
        /\ due' = [due EXCEPT ![s] = FALSE]
    BY <1>5 DEF RefreshReport
  <2> HIDE DEF s, f
  <2>3. prior' \in [Semvers -> {"none", "scanned", "drift"}]
    BY <1>1, <2>1, <2>2
  <2>4. notified' \in [Semvers -> Nat]
    BY <1>1, <2>1, <2>2
  <2>5. due' \in [Semvers -> BOOLEAN]
    BY <1>1, <2>1, <2>2
  <2> QED
    BY <2>3, <2>4, <2>5
<1>6. ASSUME NEW t \in Threads, RefreshBegins(t) \/ RefreshFetch(t)
      PROVE  UNCHANGED <<due, prior, notified>>
  BY <1>6 DEF RefreshBegins, RefreshFetch, driftVars
<1>7. ASSUME NEW w \in Workers, LeadsOn(w) \/ Dies(w) PROVE UNCHANGED <<due, prior, notified>>
  BY <1>7 DEF LeadsOn, Dies, driftVars
<1> QED
  BY <1>2, <1>3, <1>4, <1>5, <1>6, <1>7, TickSteps DEF TickAct, RefreshStep, vars, driftVars

\* Threads are finitely many, and a worker has as many as there are lanes.
LEMMA ThreadsFinite ==
  /\ IsFiniteSet(Threads) /\ Cardinality(Lanes) \in Nat
  /\ \A w \in Workers : /\ IsFiniteSet({w} \X Lanes)
                        /\ Cardinality({w} \X Lanes) = Cardinality(Lanes)
<1>1. IsFiniteSet(Threads) /\ Cardinality(Lanes) \in Nat
  BY PointerAssumption, FS_Product, FS_CardinalityType DEF Threads
<1>2. ASSUME NEW w \in Workers
      PROVE  IsFiniteSet({w} \X Lanes) /\ Cardinality({w} \X Lanes) = Cardinality(Lanes)
  <2>1. IsFiniteSet({w}) /\ Cardinality({w}) = 1
    BY FS_Singleton
  <2>2. /\ IsFiniteSet({w} \X Lanes)
        /\ Cardinality({w} \X Lanes) = Cardinality({w}) * Cardinality(Lanes)
    BY <2>1, PointerAssumption, FS_Product
  <2> QED
    BY <1>1, <2>1, <2>2
<1> QED
  BY <1>1, <1>2

\* Multiplication, as far as it is needed.
LEMMA Times ==
  ASSUME NEW a \in Nat, NEW b \in Nat, NEW c \in Nat
  PROVE  /\ a * b \in Nat
         /\ b <= c => a * b <= a * c
         /\ c = b + 1 => a * c = a * b + a
<1>1. a * b \in Nat
  OBVIOUS
<1>2. c = b + 1 => a * c = a * b + a
  OBVIOUS
<1>3. ASSUME b <= c PROVE a * b <= a * c
  <2>1. PICK d \in Nat : c = b + d
    <3>1. c - b \in Nat /\ c = b + (c - b)
      BY <1>3
    <3> QED
      BY <3>1
  <2>2. a * c = a * b + a * d /\ a * d \in Nat
    BY <2>1
  <2> QED
    BY <1>1, <2>2
<1> QED
  BY <1>1, <1>2, <1>3

\* The sets that are counted.
Countable ==
    /\ Able \subseteq Threads /\ IsFiniteSet(Able) /\ Cardinality(Able) \in Nat
    /\ Leads \in Nat /\ Leads <= 1 + breaks
    /\ Cardinality(Lanes) * Leads \in Nat
    /\ \A s \in Semvers : /\ Told(s) \subseteq Able /\ IsFiniteSet(Able \ Told(s))
                           /\ Cardinality(Able \ Told(s)) \in Nat

LEMMA Counted == LeadTypeOK /\ RefreshInv => Countable
<1>. SUFFICES ASSUME LeadTypeOK, RefreshInv PROVE Countable
  OBVIOUS
<1>1. Able \subseteq Threads
  BY DEF Able
<1>2. IsFiniteSet(Able)
  BY <1>1, ThreadsFinite, FS_Subset
<1>3. Leads \in Nat /\ Leads <= 1 + breaks
  BY LeadershipAssumption DEF Leads, LeadTypeOK
<1>4. ASSUME NEW s
      PROVE  /\ Told(s) \subseteq Able /\ IsFiniteSet(Able \ Told(s))
             /\ Cardinality(Able \ Told(s)) \in Nat
  <2>1. Told(s) \subseteq Able
    BY DEF Told, Able, RefreshInv
  <2>2. IsFiniteSet(Able \ Told(s))
    BY <1>2, FS_Subset
  <2> QED
    BY <2>1, <2>2, FS_CardinalityType
<1> QED
  BY <1>1, <1>2, <1>3, <1>4, ThreadsFinite, FS_CardinalityType, Times DEF Countable

\* So they are after a step.
LEMMA CountedNext == (LeadTypeOK /\ RefreshInv => Countable)'
BY Counted, PTL

\* A step that makes no thread able: what it announces uses one up.
LEMMA DriftFrame ==
  ASSUME IInv, LeadTypeOK', RefreshInv',
         Able' \subseteq Able, Leads' >= Leads,
         \A s \in Semvers :
            \/ prior'[s] = "drift"
            \/ notified'[s] = 0
            \/ /\ prior[s] # "drift" /\ notified'[s] = notified[s]
               /\ Able' \ Told(s)' \subseteq Able \ Told(s)
            \/ /\ prior[s] # "drift" /\ notified'[s] = notified[s] + 1
               /\ \E t \in Able \ Told(s) :
                     Able' \ Told(s)' \subseteq (Able \ Told(s)) \ {t}
  PROVE  DriftInv'
<1> DEFINE L == Cardinality(Lanes)
           C == Cardinality(Able)
           N(s) == Cardinality(Able \ Told(s))
<1>1. Countable
  BY Counted DEF IInv, TickInv
<1>2. Countable'
  BY CountedNext
<1>3. L * Leads <= L * Leads'
  BY <1>1, <1>2, ThreadsFinite, Times DEF Countable
<1>4. C <= L * Leads
  BY DEF IInv, DriftInv
<1>5. C' <= C
  BY <1>1, FS_Subset DEF Countable
<1>6. C' <= L * Leads'
  BY <1>1, <1>2, <1>3, <1>4, <1>5 DEF Countable
<1>7. ASSUME NEW s \in Semvers, prior'[s] # "drift"
      PROVE  notified'[s] + N(s)' <= L * Leads'
  <2>1. /\ notified[s] \in Nat /\ N(s) \in Nat /\ N(s)' \in Nat
        /\ C \in Nat /\ L * Leads \in Nat /\ L * Leads' \in Nat
        /\ IsFiniteSet(Able) /\ IsFiniteSet(Able \ Told(s))
    BY <1>1, <1>2 DEF IInv, TickInv, DriftType, Countable
  <2>2. prior[s] # "drift" => notified[s] + N(s) <= L * Leads
    BY DEF IInv, DriftInv
  <2>3. CASE notified'[s] = 0
    <3>1. Able' \ Told(s)' \subseteq Able
      OBVIOUS
    <3>2. N(s)' <= C
      BY <2>1, <3>1, FS_Subset
    <3> QED
      BY <1>3, <1>4, <2>1, <2>3, <3>2
  <2>4. CASE /\ prior[s] # "drift" /\ notified'[s] = notified[s]
             /\ Able' \ Told(s)' \subseteq Able \ Told(s)
    <3>1. N(s)' <= N(s)
      BY <2>1, <2>4, FS_Subset
    <3> QED
      BY <1>3, <2>1, <2>2, <2>4, <3>1
  <2>5. ASSUME prior[s] # "drift", notified'[s] = notified[s] + 1,
               NEW t \in Able \ Told(s),
               Able' \ Told(s)' \subseteq (Able \ Told(s)) \ {t}
        PROVE  notified'[s] + N(s)' <= L * Leads'
    <3>1. /\ IsFiniteSet((Able \ Told(s)) \ {t})
          /\ Cardinality((Able \ Told(s)) \ {t}) = N(s) - 1
      BY <2>1, <2>5, FS_RemoveElement
    <3>2. N(s)' <= N(s) - 1
      BY <2>5, <3>1, FS_Subset
    <3> QED
      BY <1>3, <2>1, <2>2, <2>5, <3>2
  <2> QED
    BY <1>7, <2>3, <2>4, <2>5
<1> QED
  BY <1>6, <1>7 DEF DriftInv

\* A replica that takes the lead makes its threads able, one for each lane.
LEMMA DriftOfNewLead ==
  ASSUME IInv, LeadTypeOK', RefreshInv', NEW w \in Workers, AttemptLeadership(w),
         refreshes' = refreshes, prior' = prior, notified' = notified
  PROVE  DriftInv'
<1> DEFINE L == Cardinality(Lanes)
           New == {w} \X Lanes
<1>1. Countable /\ Countable'
  BY Counted, CountedNext DEF IInv, TickInv
<1>2. IsFiniteSet(New) /\ Cardinality(New) = L /\ L \in Nat
  BY ThreadsFinite
<1>3. LeadTypeOK
  BY DEF IInv, TickInv
<1>4. Leads' = Leads + 1
  <2>1. holder' = w /\ linked'[w] = TRUE /\ breaks' = breaks /\ w # NoWorker
    BY <1>3, LeadershipAssumption DEF AttemptLeadership, LeadTypeOK
  <2>2. holder = NoWorker
    BY DEF AttemptLeadership
  <2>3. Leads = breaks + 0 /\ Leads' = breaks + 1
    BY <2>1, <2>2 DEF Leads
  <2> QED
    BY <1>3, <2>3, LeadershipAssumption DEF LeadTypeOK
<1>5. L * Leads' = L * Leads + L
  BY <1>1, <1>2, <1>4, Times DEF Countable
<1>6. Able' \subseteq Able \cup New
  BY <1>3 DEF Able, AttemptLeadership, LeadTypeOK, Threads
<1>7. \A s : Told(s)' = Told(s)
  BY DEF Told
<1>8. ASSUME NEW S, IsFiniteSet(S), NEW T \in SUBSET (S \cup New)
      PROVE  Cardinality(T) <= Cardinality(S) + L
  <2>1. /\ IsFiniteSet(S \cup New)
        /\ Cardinality(S \cup New) = Cardinality(S) + L - Cardinality(S \cap New)
    BY <1>2, <1>8, FS_Union
  <2>2. Cardinality(T) <= Cardinality(S \cup New) /\ IsFiniteSet(T)
    BY <1>8, <2>1, FS_Subset
  <2>3. IsFiniteSet(S \cap New)
    BY <1>8, FS_Subset
  <2>4. Cardinality(S) \in Nat /\ Cardinality(T) \in Nat /\ Cardinality(S \cap New) \in Nat
    BY <1>8, <2>2, <2>3, FS_CardinalityType
  <2> QED
    BY <1>2, <2>1, <2>2, <2>4
<1>9. Cardinality(Able') <= L * Leads'
  <2>1. Cardinality(Able') <= Cardinality(Able) + L
    BY <1>1, <1>6, <1>8 DEF Countable
  <2>2. Cardinality(Able) <= L * Leads
    BY DEF IInv, DriftInv
  <2>3. Cardinality(Able) \in Nat /\ Cardinality(Able') \in Nat /\ L * Leads \in Nat
    BY <1>1 DEF Countable
  <2> QED
    BY <1>2, <1>5, <2>1, <2>2, <2>3
<1>10. ASSUME NEW s \in Semvers, prior'[s] # "drift"
       PROVE  notified'[s] + Cardinality(Able' \ Told(s)') <= L * Leads'
  <2>1. IsFiniteSet(Able \ Told(s)) /\ Able' \ Told(s)' \subseteq (Able \ Told(s)) \cup New
    BY <1>1, <1>6, <1>7 DEF Countable
  <2>2. Cardinality(Able' \ Told(s)') <= Cardinality(Able \ Told(s)) + L
    BY <1>8, <2>1
  <2>3. notified[s] + Cardinality(Able \ Told(s)) <= L * Leads
    BY <1>10 DEF IInv, DriftInv
  <2>4. /\ Cardinality(Able \ Told(s)) \in Nat /\ Cardinality(Able' \ Told(s)') \in Nat
        /\ L * Leads \in Nat /\ notified[s] \in Nat
    BY <1>1 DEF Countable, IInv, TickInv, DriftType
  <2> QED
    BY <1>2, <1>5, <2>2, <2>3, <2>4
<1> QED
  BY <1>9, <1>10 DEF DriftInv

\* What one announces is counted against it.
LEMMA DriftKept ==
  ASSUME IInv, [Next]_vars
  PROVE  DriftInv'
<1>1. LeadTypeOK' /\ RefreshInv' /\ LeadTypeOK /\ RefreshInv /\ DriftType
  BY LeadKept, RefreshKept DEF IInv, TickInv
<1>2. \A s \in Semvers : notified[s] + 1 # 0 /\ notified[s] \in Nat
  BY <1>1 DEF DriftType
<1>3. CASE UNCHANGED <<prior, notified, refreshes, holder, linked, isLeader, breaks>>
  <2>1. Able' = Able /\ Leads' = Leads /\ \A s : Told(s)' = Told(s)
    BY <1>3 DEF Able, Leads, Told
  <2>2. \A s \in Semvers : prior'[s] = "drift" \/ prior[s] # "drift"
    BY <1>3
  <2>3. Leads' >= Leads
    BY <1>1, <2>1, Counted DEF Countable
  <2>4. \A s \in Semvers : Able' \ Told(s)' \subseteq Able \ Told(s) /\ notified'[s] = notified[s]
    BY <1>3, <2>1
  <2> QED
    BY <1>1, <2>1, <2>2, <2>3, <2>4, DriftFrame
<1>4. ASSUME UNCHANGED <<holder, linked, breaks>>
      PROVE  Leads' = Leads /\ Leads' >= Leads
  BY <1>1, <1>4, Counted DEF Countable, Leads
<1>5. ASSUME NEW t \in Threads, RefreshBegins(t) \/ RefreshFetch(t) PROVE DriftInv'
  <2>1. UNCHANGED <<prior, notified, holder, linked, isLeader, breaks>>
    BY <1>5 DEF RefreshBegins, RefreshFetch, driftVars, leadVars
  <2>2. /\ DOMAIN refreshes' \subseteq DOMAIN refreshes \cup {t}
        /\ \A u \in DOMAIN refreshes \ {t} : u \in DOMAIN refreshes' /\ refreshes'[u] = refreshes[u]
        /\ t \notin DOMAIN refreshes \/ refreshes[t].pc = "fetch"
        /\ t \in Able
    <3>1. CASE RefreshBegins(t)
      BY <3>1 DEF RefreshBegins, TickBegins, Put, Able
    <3>2. CASE RefreshFetch(t)
      BY <3>2 DEF RefreshFetch, Able
    <3> QED
      BY <1>5, <3>1, <3>2
  <2>3. Able' \subseteq Able
    BY <2>1, <2>2 DEF Able
  <2>4. \A s : Told(s) \subseteq Told(s)'
    BY <2>2 DEF Told
  <2> QED
    BY <1>1, <1>4, <2>1, <2>3, <2>4, DriftFrame
<1>6. ASSUME NEW t \in Threads, RefreshNotify(t) PROVE DriftInv'
  <2>0. PICK x \in Semvers : x = refreshes[t].semver
    BY <1>1, <1>6 DEF RefreshNotify, RefreshInv, Refresh
  <2>1. /\ UNCHANGED <<prior, holder, linked, isLeader, breaks>>
        /\ t \in DOMAIN refreshes /\ refreshes[t].pc = "notify"
        /\ refreshes' = [refreshes EXCEPT ![t].pc = "report"]
        /\ notified' = IF prior[x] = "drift" THEN notified
                       ELSE [notified EXCEPT ![x] = @ + 1]
    BY <1>6, <2>0 DEF RefreshNotify, leadVars
  <2>2. refreshes[t] \in Refresh /\ refreshes[t].found = "drift"
    BY <1>1, <2>1 DEF RefreshInv, Refresh
  <2>3. /\ DOMAIN refreshes' = DOMAIN refreshes
        /\ \A u \in DOMAIN refreshes \ {t} : refreshes'[u] = refreshes[u]
        /\ refreshes'[t].semver = x /\ refreshes'[t].pc = "report"
        /\ refreshes'[t].found = "drift"
    BY <2>0, <2>1, <2>2 DEF Refresh
  <2>4. Able' = Able /\ t \in Able
    BY <2>1, <2>3 DEF Able
  <2>5. \A s : Told(s) \subseteq Told(s)'
    BY <2>1, <2>3 DEF Told
  <2>6. t \in Told(x)' /\ t \notin Told(x)
    BY <2>1, <2>3 DEF Told
  <2>7. ASSUME NEW s \in Semvers, prior[s] # "drift", s # x
        PROVE  notified'[s] = notified[s]
    BY <1>1, <2>1, <2>2, <2>7 DEF DriftType
  <2>8. ASSUME prior[x] # "drift"
        PROVE  /\ notified'[x] = notified[x] + 1
               /\ t \in Able \ Told(x)
               /\ Able' \ Told(x)' \subseteq (Able \ Told(x)) \ {t}
    <3>1. notified'[x] = notified[x] + 1
      BY <1>1, <2>1, <2>8 DEF DriftType
    <3> QED
      BY <2>4, <2>5, <2>6, <3>1
  <2>9. ASSUME NEW s \in Semvers
        PROVE  \/ prior'[s] = "drift"
               \/ /\ prior[s] # "drift" /\ notified'[s] = notified[s]
                  /\ Able' \ Told(s)' \subseteq Able \ Told(s)
               \/ /\ prior[s] # "drift" /\ notified'[s] = notified[s] + 1
                  /\ \E u \in Able \ Told(s) :
                        Able' \ Told(s)' \subseteq (Able \ Told(s)) \ {u}
    <3>1. prior' = prior
      BY <2>1
    <3>2. CASE prior[s] # "drift" /\ s = x
      BY <2>8, <3>2
    <3>3. CASE prior[s] # "drift" /\ s # x
      BY <2>4, <2>5, <2>7, <3>3
    <3> QED
      BY <3>1, <3>2, <3>3
  <2>10. Able' \subseteq Able /\ Leads' >= Leads
    BY <1>4, <2>1, <2>4
  <2> QED
    BY <1>1, <2>9, <2>10, DriftFrame
<1>7. ASSUME NEW t \in Threads, RefreshReport(t) PROVE DriftInv'
  <2> DEFINE x == refreshes[t].semver
             f == refreshes[t].found
  <2>1. /\ UNCHANGED <<holder, linked, isLeader, breaks>>
        /\ t \in DOMAIN refreshes /\ refreshes[t].pc = "report"
        /\ refreshes' = Drop(refreshes, t)
        /\ prior' = IF f = "unreachable" THEN prior ELSE [prior EXCEPT ![x] = f]
        /\ notified' = IF f = "scanned" THEN [notified EXCEPT ![x] = 0] ELSE notified
    BY <1>7 DEF RefreshReport, leadVars
  <2>2. x \in Semvers /\ f \in {"unreachable", "drift", "scanned"}
    BY <1>1, <2>1 DEF RefreshInv, Refresh
  <2>3. /\ DOMAIN refreshes' = DOMAIN refreshes \ {t}
        /\ \A u \in DOMAIN refreshes \ {t} : refreshes'[u] = refreshes[u]
    BY <2>1 DEF Drop
  <2>4. Able' \subseteq Able /\ Leads' >= Leads
    BY <1>4, <2>1, <2>3 DEF Able
  <2>5. \A s : (s # x \/ f # "drift") => Told(s) \subseteq Told(s)'
    BY <2>3 DEF Told
  <2>6. CASE f = "drift"
    <3>1. prior'[x] = "drift" /\ notified' = notified
          /\ \A s \in Semvers \ {x} : prior'[s] = prior[s]
      BY <1>1, <2>1, <2>2, <2>6 DEF DriftType
    <3> QED
      BY <1>1, <2>4, <2>5, <3>1, DriftFrame
  <2>7. CASE f = "scanned"
    <3>1. /\ notified'[x] = 0
          /\ \A s \in Semvers \ {x} : prior'[s] = prior[s] /\ notified'[s] = notified[s]
      BY <1>1, <2>1, <2>2, <2>7 DEF DriftType
    <3> QED
      BY <1>1, <2>4, <2>5, <3>1, DriftFrame
  <2>8. CASE f = "unreachable"
    <3>1. prior' = prior /\ notified' = notified
      BY <2>1, <2>8
    <3> QED
      BY <1>1, <2>4, <2>5, <2>8, <3>1, DriftFrame
  <2> QED
    BY <2>2, <2>6, <2>7, <2>8
<1>8. ASSUME prior' = prior, notified' = notified, Able' \subseteq Able, Leads' >= Leads,
             \A s : \A t \in Told(s) : t \in Able' => t \in Told(s)'
      PROVE  DriftInv'
  <2>1. \A s \in Semvers : Able' \ Told(s)' \subseteq Able \ Told(s)
    BY <1>8
  <2> QED
    BY <1>1, <1>8, <2>1, DriftFrame
<1>9. ASSUME NEW w \in Workers, Dies(w) PROVE DriftInv'
  <2>1. /\ prior' = prior /\ notified' = notified /\ refreshes' = Without(refreshes, w)
        /\ linked' = [linked EXCEPT ![w] = FALSE] /\ isLeader' = [isLeader EXCEPT ![w] = FALSE]
        /\ breaks' = breaks + 1 /\ holder' = holder
    BY <1>9 DEF Dies, LeaderDies, driftVars
  <2>2. Able' \subseteq {t \in Able : t[1] # w}
    <3>1. /\ DOMAIN refreshes' \subseteq DOMAIN refreshes
          /\ \A t \in DOMAIN refreshes' : t[1] # w
      BY <2>1 DEF Without
    <3>2. \A t \in Threads : t[1] \in Workers
      BY DEF Threads
    <3>3. ~isLeader'[w] /\ \A v \in Workers \ {w} : isLeader'[v] = isLeader[v]
      BY <1>1, <2>1, Zenon DEF LeadTypeOK
    <3> QED
      BY <3>1, <3>2, <3>3 DEF Able
  <2>3. Leads' >= Leads
    BY <1>1, <2>1, LeadershipAssumption DEF Leads, LeadTypeOK
  <2>4. \A s : \A t \in Told(s) : t[1] # w => t \in Told(s)'
    BY <2>1 DEF Told, Without
  <2> QED
    BY <1>8, <2>1, <2>2, <2>3, <2>4
<1>10. ASSUME NEW w \in Workers, LeadsOn(w) PROVE DriftInv'
  <2>1. prior' = prior /\ notified' = notified /\ refreshes' = refreshes
    BY <1>10 DEF LeadsOn, driftVars, sweepVars
  <2>2. \A s : Told(s)' = Told(s)
    BY <2>1 DEF Told
  <2>3. CASE AttemptLeadership(w)
    BY <1>1, <2>1, <2>3, DriftOfNewLead
  <2>4. CASE ConnectionBreaks(w)
    <3>1. Able' = Able
      BY <2>1, <2>4 DEF ConnectionBreaks, Able
    <3>2. Leads' >= Leads
      BY <1>1, <2>4, LeadershipAssumption DEF ConnectionBreaks, Leads, LeadTypeOK
    <3> QED
      BY <1>8, <2>1, <2>2, <3>1, <3>2
  <2>5. CASE SessionEnds(w)
    <3>1. Able' = Able
      BY <2>1, <2>5 DEF SessionEnds, Able
    <3>2. Leads' >= Leads
      BY <1>1, <2>5, LeadershipAssumption DEF SessionEnds, Leads, LeadTypeOK
    <3> QED
      BY <1>8, <2>1, <2>2, <3>1, <3>2
  <2>6. CASE StepDown(w)
    <3>1. Able' \subseteq Able
      BY <1>1, <2>1, <2>6 DEF StepDown, Able, LeadTypeOK, Threads
    <3>2. Leads' >= Leads
      BY <1>1, <2>6, LeadershipAssumption DEF StepDown, Leads, LeadTypeOK
    <3> QED
      BY <1>8, <2>1, <2>2, <3>1, <3>2
  <2> QED
    BY <1>10, <2>3, <2>4, <2>5, <2>6 DEF LeadsOn
<1>11. ASSUME DayPasses
       PROVE  UNCHANGED <<prior, notified, refreshes, holder, linked, isLeader, breaks>>
  BY <1>11 DEF DayPasses, sweepVars, leadVars
<1> QED
  BY <1>3, <1>5, <1>6, <1>7, <1>9, <1>10, <1>11, TickSteps
     DEF TickAct, RefreshStep, vars, driftVars, sweepVars, leadVars

LEMMA AnnouncedKept ==
  ASSUME IInv, [Next]_vars
  PROVE  DriftAnnouncedOnce'
<1>1. /\ Countable' /\ DriftInv' /\ DriftType' /\ DriftType
      /\ breaks \in Nat /\ breaks' \in Nat /\ breaks' >= breaks
  <2>1. LeadTypeOK /\ LeadTypeOK' /\ breaks' >= breaks
    BY LeadKept DEF IInv, TickInv
  <2>2. breaks \in Nat /\ breaks' \in Nat
    BY <2>1, LeadershipAssumption DEF LeadTypeOK
  <2> QED
    BY <2>1, <2>2, CountedNext, RefreshKept, DriftKept, DriftTypeKept DEF IInv, TickInv
<1>2. SUFFICES ASSUME NEW s \in Semvers
               PROVE  notified'[s] <= Cardinality(Lanes) * (1 + breaks')
  BY DEF DriftAnnouncedOnce
<1>3. /\ notified[s] \in Nat /\ notified'[s] \in Nat /\ Cardinality(Lanes) \in Nat
      /\ 1 + breaks \in Nat /\ 1 + breaks' \in Nat /\ 1 + breaks <= 1 + breaks'
  BY <1>1, ThreadsFinite DEF DriftType
<1>4. CASE prior'[s] # "drift"
  <2>1. notified'[s] + Cardinality(Able' \ Told(s)') <= Cardinality(Lanes) * Leads'
    BY <1>1, <1>4 DEF DriftInv
  <2>2. Cardinality(Lanes) * Leads' <= Cardinality(Lanes) * (1 + breaks')
    <3>1. Leads' \in Nat /\ Leads' <= 1 + breaks'
      BY <1>1 DEF Countable
    <3> QED
      BY <1>3, <3>1, Times
  <2>3. /\ Cardinality(Able' \ Told(s)') \in Nat
        /\ Cardinality(Lanes) * Leads' \in Nat /\ Cardinality(Lanes) * (1 + breaks') \in Nat
    BY <1>1, <1>3, Times DEF Countable
  <2> QED
    BY <1>3, <2>1, <2>2, <2>3
<1>5. CASE notified'[s] <= notified[s]
  <2>1. notified[s] <= Cardinality(Lanes) * (1 + breaks)
    BY DEF IInv, DriftAnnouncedOnce
  <2>2. Cardinality(Lanes) * (1 + breaks) <= Cardinality(Lanes) * (1 + breaks')
    BY <1>3, Times
  <2>3. Cardinality(Lanes) * (1 + breaks) \in Nat /\ Cardinality(Lanes) * (1 + breaks') \in Nat
    BY <1>3, Times
  <2> QED
    BY <1>3, <1>5, <2>1, <2>2, <2>3
<1>6. prior'[s] # "drift" \/ notified'[s] <= notified[s]
  <2>1. CASE notified' = notified
    BY <1>3, <2>1
  <2>2. ASSUME NEW t \in Threads, RefreshNotify(t)
        PROVE  prior'[s] # "drift" \/ notified'[s] <= notified[s]
    <3>1. /\ prior' = prior
          /\ notified' = IF prior[refreshes[t].semver] = "drift" THEN notified
                         ELSE [notified EXCEPT ![refreshes[t].semver] = @ + 1]
      BY <2>2 DEF RefreshNotify
    <3>2. CASE s = refreshes[t].semver
      BY <1>3, <3>1, <3>2
    <3>3. CASE s # refreshes[t].semver
      BY <1>1, <1>3, <3>1, <3>3 DEF DriftType
    <3> QED
      BY <3>2, <3>3
  <2>3. ASSUME NEW t \in Threads, RefreshReport(t)
        PROVE  notified'[s] <= notified[s]
    <3>1. \/ notified' = notified
          \/ notified' = [notified EXCEPT ![refreshes[t].semver] = 0]
      BY <2>3 DEF RefreshReport
    <3> QED
      BY <1>1, <1>3, <3>1 DEF DriftType
  <2>4. ASSUME DayPasses PROVE notified' = notified
    BY <2>4 DEF DayPasses
  <2>5. ASSUME NEW t \in Threads, RefreshBegins(t) \/ RefreshFetch(t) PROVE notified' = notified
    BY <2>5 DEF RefreshBegins, RefreshFetch, driftVars
  <2>6. ASSUME NEW w \in Workers, LeadsOn(w) \/ Dies(w) PROVE notified' = notified
    BY <2>6 DEF LeadsOn, Dies, driftVars
  <2> QED
    BY <2>1, <2>2, <2>3, <2>4, <2>5, <2>6, TickSteps DEF TickAct, RefreshStep, vars, driftVars
<1> QED
  BY <1>4, <1>5, <1>6

LEMMA UpstreamKept ==
  ASSUME IInv, [Next]_vars
  PROVE  UpstreamType'
<1>1. UpstreamType
  BY DEF IInv
<1>2. CASE upstream' = upstream
  BY <1>1, <1>2 DEF UpstreamType
<1>3. ASSUME NEW r \in Refs, UpstreamMoves(r) PROVE UpstreamType'
  <2>1. PICK c \in Snapshots \cup {None} : upstream' = [upstream EXCEPT ![r] = c]
    BY <1>3 DEF UpstreamMoves
  <2>2. c \in 0..MaxSnapshot
    BY Numbers
  <2> QED
    BY <1>1, <2>1, <2>2 DEF UpstreamType
<1>4. ASSUME Review PROVE upstream' = upstream
  <2>1. ASSUME NEW p \in Proposals, NEW r \in Refs, NEW s \in Semvers, CreateProposal(p, r, s)
        PROVE  upstream' = upstream
    BY <2>1 DEF CreateProposal
  <2>2. ASSUME NEW p \in Proposals, NEW r \in Refs, Resubmit(p, r) PROVE upstream' = upstream
    BY <2>2 DEF Resubmit
  <2>3. ASSUME NEW p \in Proposals,
               \/ Revise(p) \/ RequestChanges(p) \/ Reject(p)
               \/ AcceptGate(p) \/ EnqueueMirror(p)
        PROVE  upstream' = upstream
    BY <2>3 DEF Revise, RequestChanges, Reject, AcceptGate, EnqueueMirror, Enqueues
  <2>4. RetryMirror => upstream' = upstream
    BY DEF RetryMirror
  <2> QED
    BY <1>4, <2>1, <2>2, <2>3, <2>4 DEF Review
<1>5. DayPasses => upstream' = upstream
  BY DEF DayPasses
<1>6. ASSUME NEW t \in Threads,
             PreScanStep(t) \/ MirrorStep(t) \/ RefreshStep(t) \/ MirrorUnscanned(t)
      PROVE  upstream' = upstream
  <2>1. PreScanStep(t) => upstream' = upstream
    BY DEF PreScanStep, PreScanBegins, PreScanFetch, PreScanDelete, PreScanInsert
  <2>2. MirrorStep(t) \/ MirrorUnscanned(t) => upstream' = upstream
    BY DEF MirrorStep, MirrorBegins, MirrorExists, MirrorFetch, MirrorPut, MirrorInsert,
           MirrorClears, MirrorRecords, MirrorUnscanned
  <2>3. RefreshStep(t) => upstream' = upstream
    BY DEF RefreshStep, RefreshBegins, RefreshFetch, RefreshNotify, RefreshReport
  <2> QED
    BY <1>6, <2>1, <2>2, <2>3
<1>7. ASSUME NEW w \in Workers, LeadsOn(w) \/ Dies(w) PROVE upstream' = upstream
  BY <1>7 DEF LeadsOn, Dies
<1> QED
  BY <1>2, <1>3, <1>4, <1>5, <1>6, <1>7 DEF Next, vars

-----------------------------------------------------------------------------
(* The invariant holds *)

\* Whichever replica leads at first, nothing has happened yet.
LEMMA InitIInv == Init => IInv
<1> SUFFICES ASSUME Init PROVE IInv
  OBVIOUS
<1>1. /\ holder \in Workers \cup {NoWorker} /\ linked = [w \in Workers |-> w = holder]
      /\ isLeader = linked /\ breaks = 0
  BY DEF Init, LeadInit
<1>2. /\ prop = <<>> /\ txn = <<>> /\ queue = <<>> /\ version = <<>> /\ object = <<>>
      /\ prescans = <<>> /\ mirrors = <<>> /\ refreshes = <<>>
      /\ report = [p \in Proposals |-> <<>>] /\ upstream = [r \in Refs |-> 1]
      /\ due = [s \in Semvers |-> TRUE] /\ prior = [s \in Semvers |-> "none"]
      /\ notified = [s \in Semvers |-> 0]
  BY DEF Init
<1>3. UpstreamType
  BY <1>2, Numbers DEF UpstreamType
<1>4. ReviewInv
  <2>1. ReportInv
    <3>1. <<>> \in Seq(Report) /\ Len(<<>>) = 0
      OBVIOUS
    <3> QED
      BY <1>2, <3>1 DEF ReportInv
  <2> QED
    BY <1>2, <2>1, NoRows DEF ReviewInv, PropInv, PreScanInv, TxnInv
<1>5. StoreInv /\ AcceptedIsQueued
  BY <1>2, NoRows DEF StoreInv, QueueInv, VersionInv, ObjectInv, MirrorInv, AcceptedIsQueued
<1>6. LeadTypeOK
  <2>1. breaks \in 0..MaxBreaks
    BY <1>1, LeadershipAssumption
  <2> QED
    BY <1>1, <2>1, Zenon DEF LeadTypeOK
<1>7. RefreshInv /\ DriftType
  <2>1. RefreshInv
    BY <1>2, NoRows DEF RefreshInv
  <2> QED
    BY <1>2, <2>1 DEF DriftType
<1>8. Countable
  BY <1>6, <1>7, Counted
<1>9. Cardinality(Able) <= Cardinality(Lanes) * Leads
  <2>1. CASE holder = NoWorker
    <3>1. Able = {}
      BY <1>1, <1>2, <2>1, NoRows, LeadershipAssumption DEF Able, Threads
    <3>2. Cardinality(Able) = 0
      BY <3>1, FS_EmptySet
    <3> QED
      BY <1>8, <3>2 DEF Countable
  <2>2. CASE holder # NoWorker
    <3>1. holder \in Workers /\ linked[holder]
      BY <1>1, <2>2
    <3>2. Leads = 1
      BY <1>1, <2>2, <3>1 DEF Leads
    <3>3. Able \subseteq {holder} \X Lanes
      BY <1>1, <1>2, <3>1, NoRows DEF Able, Threads
    <3>4. Cardinality(Able) <= Cardinality({holder} \X Lanes)
      BY <3>1, <3>3, ThreadsFinite, FS_Subset
    <3>5. Cardinality(Lanes) * Leads = Cardinality(Lanes)
      BY <3>2, ThreadsFinite
    <3> QED
      BY <3>1, <3>4, <3>5, ThreadsFinite
  <2> QED
    BY <2>1, <2>2
<1>10. DriftInv
  <2>1. ASSUME NEW s \in Semvers
        PROVE  notified[s] + Cardinality(Able \ Told(s)) <= Cardinality(Lanes) * Leads
    <3>1. notified[s] = 0 /\ Able \ Told(s) = Able
      BY <1>2, NoRows DEF Told
    <3>2. Cardinality(Able) \in Nat /\ Cardinality(Able \ Told(s)) = Cardinality(Able)
      BY <1>8, <3>1 DEF Countable
    <3> QED
      BY <1>9, <3>1, <3>2
  <2> QED
    BY <1>9, <2>1 DEF DriftInv
<1>11. DriftAnnouncedOnce
  BY <1>1, <1>2, ThreadsFinite DEF DriftAnnouncedOnce
<1> QED
  BY <1>3, <1>4, <1>5, <1>6, <1>7, <1>10, <1>11 DEF IInv, TickInv

LEMMA NextIInv == IInv /\ [Next]_vars => IInv'
<1> SUFFICES ASSUME IInv, [Next]_vars PROVE IInv'
  OBVIOUS
<1>1. ReviewInv'
  BY PropKept, ReportKept, PreScanKept, TxnKept DEF ReviewInv
<1>2. StoreInv'
  BY QueueKept, VersionKept, ObjectKept, MirrorKept DEF StoreInv
<1>3. TickInv'
  BY LeadKept, RefreshKept, DriftTypeKept DEF TickInv
<1> QED
  BY <1>1, <1>2, <1>3, UpstreamKept, AcceptedKept, DriftKept, AnnouncedKept DEF IInv

LEMMA IInvHolds == Spec => []IInv
BY InitIInv, NextIInv, PTL DEF Spec

-----------------------------------------------------------------------------
(* The theorems *)

\* Rows, artifacts, accepts and ticks keep their types wherever a tick is cut
\* short, and no version is inserted whose archive was not stored before.
THEOREM PointerTypeCorrect == Spec => []TypeOK
<1>1. IInv => TypeOK
  <2> SUFFICES ASSUME IInv PROVE TypeOK
    OBVIOUS
  <2>1. /\ DOMAIN prop \subseteq Proposals /\ \A p \in DOMAIN prop : prop[p] \in PropRow
        /\ report \in [Proposals -> Seq(Report)] /\ DOMAIN txn \subseteq DOMAIN prop
        /\ \A p \in DOMAIN txn : txn[p] \in TxnRow
        /\ DOMAIN prescans \subseteq Threads
    BY DEF IInv, ReviewInv, PropInv, ReportInv, TxnInv, PreScanInv
  <2>2. /\ DOMAIN queue \subseteq Semvers /\ \A s \in DOMAIN queue : queue[s] \in QueueRow
        /\ DOMAIN version \subseteq DOMAIN object /\ DOMAIN object \subseteq Semvers
        /\ \A s \in DOMAIN version : version[s] \in VersionRow
        /\ \A s \in DOMAIN object : object[s] \in ObjectRow
        /\ DOMAIN mirrors \subseteq Threads
    BY DEF IInv, StoreInv, QueueInv, VersionInv, ObjectInv, MirrorInv
  <2>3. /\ LeadTypeOK /\ upstream \in [Refs -> 0..MaxSnapshot] /\ DOMAIN refreshes \subseteq Threads
        /\ due \in [Semvers -> BOOLEAN]
        /\ prior \in [Semvers -> {"none", "scanned", "drift"}]
        /\ notified \in [Semvers -> Nat]
    BY DEF IInv, TickInv, UpstreamType, RefreshInv, DriftType
  <2> QED
    BY <2>1, <2>2, <2>3 DEF TypeOK, PropRow, TxnRow, VersionRow, ObjectRow
<1> QED
  BY <1>1, IInvHolds, PTL

\* An accepted pointer has its row in the queue or its version, however many
\* ticks work on the row at once and wherever they die.
THEOREM NothingAcceptedIsLost == Spec => []AcceptedIsQueued
<1>1. IInv => AcceptedIsQueued
  BY DEF IInv
<1> QED
  BY <1>1, IInvHolds, PTL

\* What is published without an override is the snapshot that the gate judged and
\* found nothing in, unless the report was replaced within the accept.
THEOREM MirrorServesWhatWasJudged == Spec => []PublishedPointerAsJudged
<1>1. IInv => PublishedPointerAsJudged
  <2> SUFFICES ASSUME IInv, NEW s \in DOMAIN version,
                      ~version[s].job.overridden, ~version[s].job.swapped
               PROVE  /\ version[s].snap = version[s].job.judged
                      /\ version[s].snap \notin Flagged
    BY DEF PublishedPointerAsJudged
  <2>1. JobOK(version[s].job) /\ version[s].snap \in Lets(version[s].job)
    BY DEF IInv, StoreInv, VersionInv
  <2>2. /\ version[s].job.digest = version[s].job.judged
        /\ version[s].job.judged \in Snapshots \ Flagged
    BY <2>1 DEF JobOK
  <2>3. version[s].job.digest \in {None, version[s].snap} /\ version[s].job.judged # None
    BY <2>1, <2>2, PointerAssumption DEF Lets, Snapshots, None
  <2> QED
    BY <2>2, <2>3
<1> QED
  BY <1>1, IInvHolds, PTL

\* The maintainers are told of a drift at most once for each tick that could not
\* know of another's notice: one per lane, and again per lane when the lead moves
\* after a break.
THEOREM DriftNoticesBounded == Spec => []DriftAnnouncedOnce
<1>1. IInv => DriftAnnouncedOnce
  BY DEF IInv
<1> QED
  BY <1>1, IInvHolds, PTL

-----------------------------------------------------------------------------
(* The refinement *)

\* The state of PinnedRelease.
Allowed  == [s \in Semvers |-> IF s \in DOMAIN version THEN Lets(version[s].job)
                               ELSE IF s \in DOMAIN queue THEN Lets(queue[s].job) ELSE {}]
Released == [s \in Semvers |-> IF s \in DOMAIN version THEN version[s].snap ELSE None]

\* An enqueue is an accept of what its job lets through, or changes nothing for a
\* semver that has its row or its version.
LEMMA EnqueueAccepts ==
  ASSUME IInv, [Next]_vars, NEW p \in Proposals, EnqueueMirror(p)
  PROVE  Promise!Next \/ UNCHANGED <<Allowed, Released>>
<1> DEFINE s == prop[p].semver
           row == [job |-> MirrorJob(p), attempts |-> 0]
           C == Lets(MirrorJob(p))
<1>1. /\ version' = version
      /\ queue' = IF s \in DOMAIN queue THEN queue ELSE Put(queue, s, row)
      /\ p \in DOMAIN txn
  BY DEF EnqueueMirror, Enqueues
<1>2. s \in Semvers /\ C \in SUBSET Snapshots /\ row.job = MirrorJob(p)
  BY <1>1, MirrorJobOK DEF Lets
<1>3. Released' = Released
  BY <1>1 DEF Released
<1>4. PICK x \in Semvers : x = s
  BY <1>2
<1>5. PICK D \in SUBSET Snapshots : D = C
  BY <1>2
<1> HIDE DEF row, s, C
<1>6. CASE x \in DOMAIN queue \/ x \in DOMAIN version
  <2>1. CASE x \in DOMAIN queue
    BY <1>1, <1>3, <1>4, <2>1 DEF Allowed
  <2>2. CASE x \notin DOMAIN queue /\ x \in DOMAIN version
    <3>1. \A y \in Semvers \ {x} :
            /\ y \in DOMAIN queue' <=> y \in DOMAIN queue
            /\ y \in DOMAIN queue => queue'[y] = queue[y]
      BY <1>1, <1>4, <2>2 DEF Put
    <3>2. Allowed' = Allowed
      BY <1>1, <2>2, <3>1 DEF Allowed
    <3> QED
      BY <1>3, <3>2
  <2> QED
    BY <1>6, <2>1, <2>2
<1>7. CASE x \notin DOMAIN queue /\ x \notin DOMAIN version
  <2>1. /\ DOMAIN queue' = DOMAIN queue \cup {x} /\ queue'[x].job = MirrorJob(p)
        /\ \A y \in DOMAIN queue \ {x} : queue'[y] = queue[y]
    BY <1>1, <1>2, <1>4, <1>7 DEF Put
  <2>2. Lets(queue'[x].job) = D
    BY <1>5, <2>1 DEF C
  <2>3. Allowed[x] = {} /\ Allowed'[x] = D
    BY <1>1, <1>7, <2>1, <2>2 DEF Allowed
  <2>4. \A y \in Semvers \ {x} : Allowed'[y] = Allowed[y]
    BY <1>1, <2>1 DEF Allowed
  <2>5. Allowed' = [Allowed EXCEPT ![x] = D]
    BY <2>3, <2>4 DEF Allowed
  <2>6. Promise!Accepts(x, D)
    BY <1>3, <2>3, <2>5 DEF Promise!Accepts, Allowed, Released
  <2> QED
    BY <2>6 DEF Promise!Next
<1> QED
  BY <1>6, <1>7

\* An insertion releases what its tick fetched; the row it is made of was in the
\* queue, so that nothing else had been allowed.
LEMMA InsertReleases ==
  ASSUME IInv, [Next]_vars, NEW t \in Threads, MirrorInsert(t)
  PROVE  Promise!Next \/ UNCHANGED <<Allowed, Released>>
<1> DEFINE m == mirrors[t]
<1>1. MirrorOK(m) /\ m.pc = "insert" /\ queue' = queue
  BY DEF IInv, StoreInv, MirrorInv, MirrorInsert
<1>2. CASE version' = version
  BY <1>1, <1>2 DEF Allowed, Released
<1>3. CASE version' # version
  <2>1. PICK row : /\ m.semver \notin DOMAIN version
                   /\ version' = Put(version, m.semver, row)
                   /\ row.job = m.job /\ row.snap = m.snap
    BY <1>3 DEF MirrorInsert
  <2>2. /\ m.semver \in Semvers /\ m.snap \in Lets(m.job)
        /\ m.semver \in DOMAIN queue /\ queue[m.semver].job = m.job
    BY <1>1, <2>1 DEF MirrorOK, Mirror
  <2>3. PICK x \in Semvers, c \in Lets(m.job) : x = m.semver /\ c = m.snap
    BY <2>2
  <2> HIDE DEF m
  <2>4. /\ DOMAIN version' = DOMAIN version \cup {x} /\ version'[x].job = m.job
        /\ version'[x].snap = c /\ x \notin DOMAIN version
        /\ \A y \in DOMAIN version \ {x} : version'[y] = version[y]
    BY <2>1, <2>3 DEF Put
  <2>5. Allowed' = Allowed
    <3>1. \A y \in Semvers \ {x} : Allowed'[y] = Allowed[y]
      BY <1>1, <2>4 DEF Allowed
    <3>2. Allowed'[x] = Allowed[x]
      BY <2>2, <2>3, <2>4 DEF Allowed
    <3> QED
      BY <3>1, <3>2 DEF Allowed
  <2>6. Released' = [Released EXCEPT ![x] = c] /\ Released[x] = None
    BY <2>4 DEF Released
  <2>7. c \in Allowed[x]
    BY <2>2, <2>3, <2>4 DEF Allowed
  <2>8. Promise!Releases(x)
    BY <2>5, <2>6, <2>7 DEF Promise!Releases, Allowed, Released
  <2> QED
    BY <2>8 DEF Promise!Next
<1> QED
  BY <1>2, <1>3

\* The queue with its mirrors keeps the promise of an accept: every step that
\* touches it is an accept, a release or invisible.
THEOREM PointersArePinned == Spec => ImplementsPinnedRelease
<1>1. Init => Promise!Init
  <2> SUFFICES ASSUME Init PROVE Promise!Init
    OBVIOUS
  <2>1. version = <<>> /\ queue = <<>>
    BY DEF Init
  <2> QED
    BY <2>1, NoRows DEF Promise!Init
<1>2. ASSUME IInv, [Next]_vars PROVE Promise!Next \/ UNCHANGED <<Allowed, Released>>
  <2>1. CASE UNCHANGED <<queue, version>>
    BY <2>1 DEF Allowed, Released
  <2>2. CASE version' = version /\ \A s \in Semvers \ DOMAIN version :
                /\ s \in DOMAIN queue' <=> s \in DOMAIN queue
                /\ s \in DOMAIN queue => queue'[s].job = queue[s].job
    BY <2>2 DEF Allowed, Released
  <2>3. ASSUME RetryMirror PROVE Promise!Next \/ UNCHANGED <<Allowed, Released>>
    <3>1. version' = version /\ DOMAIN queue' = DOMAIN queue
      BY <2>3 DEF RetryMirror
    <3> QED
      BY <1>2, <2>2, <3>1, StoreStays
  <2>4. ASSUME NEW t \in Threads, MirrorClears(t) \/ MirrorRecords(t)
        PROVE  Promise!Next \/ UNCHANGED <<Allowed, Released>>
    <3>1. version' = version /\ DOMAIN queue' \subseteq DOMAIN queue
      BY <2>4 DEF MirrorClears, MirrorRecords, Drop
    <3> QED
      BY <1>2, <2>2, <3>1, StoreStays
  <2>5. ASSUME NEW t \in Threads,
               \/ MirrorBegins(t) \/ MirrorExists(t) \/ MirrorFetch(t) \/ MirrorPut(t)
               \/ MirrorUnscanned(t)
        PROVE  UNCHANGED <<queue, version>>
    BY <2>5 DEF MirrorBegins, MirrorExists, MirrorFetch, MirrorPut, MirrorUnscanned, mirrorVars
  <2>6. ASSUME NEW w \in Workers, Dies(w) PROVE UNCHANGED <<queue, version>>
    BY <2>6 DEF Dies, mirrorVars
  <2>7. UNCHANGED vars => UNCHANGED <<queue, version>>
    BY DEF vars, mirrorVars
  <2> QED
    BY <1>2, <2>1, <2>3, <2>4, <2>5, <2>6, <2>7, EnqueueAccepts, InsertReleases, StoreSteps
       DEF StoreAct, MirrorStep
<1>3. UNCHANGED <<Allowed, Released>> => UNCHANGED Promise!vars
  BY DEF Allowed, Released, Promise!vars
<1>4. IInv /\ [Next]_vars => [Promise!Next]_(Promise!vars)
  BY <1>2, <1>3
<1> QED
  BY <1>1, <1>4, IInvHolds, PTL DEF Spec, ImplementsPinnedRelease, Promise!Spec

=============================================================================
