---------------------------- MODULE PointerMirror ----------------------------
(***************************************************************************)
(* Pointer skills: a proposal names a ref of an upstream repository, and   *)
(* the worker fetches it three times, before the review decision           *)
(* (git/proposalPreScan.ts), after it (git/mirrorPending.ts, mirror.ts)    *)
(* and every day from then on (git/pointerRefresh.ts).  Upstream may point *)
(* the ref at something else whenever it likes.  The web application's     *)
(* part is lib/proposals.ts and the retry-mirror route.                    *)
(*                                                                         *)
(* A snapshot is a commit with its content, so that commits and content    *)
(* digests are both compared as snapshots; 0 is "none".  One skill.  A     *)
(* sweep is cut at its awaits.  Its three loops are timers of their own,   *)
(* so a replica may be in all of them, and, as nothing stops the next tick *)
(* while a tick is running, in one of them more than once: lanes.          *)
(***************************************************************************)
EXTENDS Leadership, Sequences

CONSTANTS
    Proposals, Refs,
    Registry,       \* the refs of a registry origin, which have no commit
    MaxSnapshot,    \* bound: snapshots upstream has
    Flagged,        \* the snapshots with a high finding
    Critical,       \* the snapshots with a critical finding
    MaxSemver,      \* bound: semvers of the skill
    MaxAttempts,    \* MIRROR_MAX_ATTEMPTS
    Lanes,          \* ticks of one loop that may run at the same time
    MaxTicks,       \* bound: ticks of all loops in progress at the same time
    MaxRevisions,   \* bound: revisions of a proposal
    MaxEvents       \* bound: events from outside, broken connections and deaths included

Snapshots == 1..MaxSnapshot
Semvers   == 1..MaxSemver
None      == 0

ASSUME PointerAssumption ==
    /\ Registry \subseteq Refs
    /\ IsFiniteSet(Workers) /\ IsFiniteSet(Lanes)
    /\ MaxSnapshot \in Nat \ {0} /\ Flagged \subseteq 1..MaxSnapshot
    /\ Critical \subseteq 1..MaxSnapshot
    /\ MaxSemver \in Nat /\ MaxAttempts \in Nat \ {0}
    /\ {MaxTicks, MaxEvents} \subseteq Nat /\ MaxRevisions \in Nat \ {0}

VARIABLES
    upstream,       \* what each ref resolves to now; None when it cannot be fetched
    prop,           \* the proposals, with their latest revision
    report,         \* each proposal's scan reports, oldest first
    txn,            \* the accepts in progress, by proposal
    queue,          \* pending_mirrors, by semver
    version,        \* skill_versions, by semver
    object,         \* the stored artifacts, by semver: of what, and packed by whom
    due,            \* no refresh report of the version is younger than a day
    prior,          \* status of the version's last report that reached upstream
    notified,       \* drift notices since the last clean report
    prescans, mirrors, refreshes,   \* the ticks in progress, by thread
    events          \* events from outside so far, but for breaks

reviewVars == <<prop, report, txn>>
mirrorVars == <<queue, version, object>>
driftVars  == <<due, prior, notified>>
sweepVars  == <<prescans, mirrors, refreshes>>
vars == <<upstream, reviewVars, mirrorVars, driftVars, sweepVars, events, leadVars>>

Threads == Workers \X Lanes

Pointer == [ref : Refs, commit : 0..MaxSnapshot]
Report  == [of : Pointer, status : {"none", "scanned", "source_changed", "unreachable"},
            digest : 0..MaxSnapshot]
Job == [id : Proposals, ref : Refs, commit : 0..MaxSnapshot, digest : 0..MaxSnapshot,
        verified : 0..MaxSnapshot, judged : 0..MaxSnapshot, overridden : BOOLEAN, swapped : BOOLEAN]
QueueRow == [job : Job, attempts : 0..MaxAttempts]

-----------------------------------------------------------------------------
(* Tables are partial functions of their keys. *)

Put(f, x, v) == [y \in DOMAIN f \cup {x} |-> IF y = x THEN v ELSE f[y]]
Drop(f, x)   == [y \in DOMAIN f \ {x} |-> f[y]]

\* The commit verifyPointerSkill pins: none for a registry origin.
Pin(r) == IF r \in Registry THEN None ELSE upstream[r]

\* The report loadGateScan reads: the proposal's latest, whatever ref it is of.
GateReport(p) == IF report[p] = <<>> THEN [status |-> "none", digest |-> None]
                 ELSE report[p][Len(report[p])]

\* The digest materializeVersion copies: that of the latest complete report.
ScannedDigest(p) ==
    LET scanned == {i \in DOMAIN report[p] : report[p][i].status = "scanned"}
        last    == {i \in scanned : \A j \in scanned : j <= i}
    IN  IF last = {} THEN None ELSE report[p][CHOOSE i \in last : TRUE].digest

\* scanVerdict and requiresOverride
NeedsOverride(r) == r.status # "scanned" \/ r.digest \in Flagged \cup Critical

\* The snapshots that a mirror job, or the version made by it, lets through.
Lets(job) == {c \in Snapshots : job.commit \in {None, c} /\ job.digest \in {None, c}}

-----------------------------------------------------------------------------
Init ==
    /\ LeadInit
    /\ upstream = [r \in Refs |-> 1]
    /\ prop = <<>> /\ report = [p \in Proposals |-> <<>>] /\ txn = <<>>
    /\ queue = <<>> /\ version = <<>> /\ object = <<>>
    /\ due = [s \in Semvers |-> TRUE] /\ prior = [s \in Semvers |-> "none"]
    /\ notified = [s \in Semvers |-> 0]
    /\ prescans = <<>> /\ mirrors = <<>> /\ refreshes = <<>>
    /\ events = 0

-----------------------------------------------------------------------------
(* Upstream, and the clock. *)

MayHappen == events + breaks < MaxEvents

\* The ref is moved, deleted or restored.
UpstreamMoves(r) ==
    /\ MayHappen
    /\ \E c \in Snapshots \cup {None} :
         c # upstream[r] /\ upstream' = [upstream EXCEPT ![r] = c]
    /\ events' = events + 1
    /\ UNCHANGED <<reviewVars, mirrorVars, driftVars, sweepVars, leadVars>>

\* The reports of the last refresh are a day old.
DayPasses ==
    /\ MayHappen
    /\ due' = [s \in Semvers |-> TRUE]
    /\ events' = events + 1
    /\ UNCHANGED <<upstream, reviewVars, mirrorVars, prior, notified, sweepVars, leadVars>>

-----------------------------------------------------------------------------
(* Proposals of pointers, as far as their pointer is concerned. *)

Free(p) == p \in DOMAIN prop /\ p \notin DOMAIN txn

\* verifyPointerSkill: a registry origin is not asked.
Verifiable(r) == r \in Registry \/ upstream[r] # None

\* The field verified is history: the commit pinned when the pointer was verified.
CreateProposal(p, r, s) ==
    /\ p \notin DOMAIN prop
    /\ Verifiable(r)
    /\ prop' = Put(prop, p, [state |-> "open", ref |-> r, commit |-> Pin(r),
                             verified |-> Pin(r), semver |-> s, revision |-> 1])
    /\ UNCHANGED <<upstream, report, txn, mirrorVars, driftVars, sweepVars, events,
                   leadVars>>

\* A payload that leaves the pointer as it is may have lost the commit: the review
\* page's form sends url, ref and folder, and the route pins changed pointers only.
CommitSent(p) == {prop[p].commit, None}

\* The pointer may not change in a revise.
Revise(p) ==
    /\ Free(p) /\ prop[p].state = "open"
    /\ prop[p].revision < MaxRevisions
    /\ \E c \in CommitSent(p) :
         prop' = [prop EXCEPT ![p].commit = c, ![p].revision = @ + 1]
    /\ UNCHANGED <<upstream, report, txn, mirrorVars, driftVars, sweepVars, events,
                   leadVars>>

RequestChanges(p) ==
    /\ Free(p) /\ prop[p].state = "open"
    /\ prop' = [prop EXCEPT ![p].state = "changes_requested"]
    /\ UNCHANGED <<upstream, report, txn, mirrorVars, driftVars, sweepVars, events,
                   leadVars>>

Reject(p) ==
    /\ Free(p) /\ prop[p].state = "open"
    /\ prop' = [prop EXCEPT ![p].state = "rejected"]
    /\ UNCHANGED <<upstream, report, txn, mirrorVars, driftVars, sweepVars, events,
                   leadVars>>

\* Only here may the pointer change, and only a changed one is verified anew.
\* The reports of the previous revision stay.
Resubmit(p, r) ==
    /\ Free(p) /\ prop[p].state = "changes_requested"
    /\ prop[p].revision < MaxRevisions
    /\ \/ /\ r = prop[p].ref
          /\ \E c \in CommitSent(p) :
               prop' = [prop EXCEPT ![p].state = "open", ![p].commit = c,
                                    ![p].revision = @ + 1]
       \/ /\ r # prop[p].ref /\ Verifiable(r)
          /\ prop' = [prop EXCEPT
               ![p].state = "open", ![p].ref = r, ![p].commit = Pin(r),
               ![p].verified = Pin(r), ![p].revision = @ + 1]
    /\ UNCHANGED <<upstream, report, txn, mirrorVars, driftVars, sweepVars, events,
                   leadVars>>

\* performProposalAction: the transaction of an accept holds the proposal's row
\* lock from here on, and reads the gate's report first.  Without the override
\* that the report calls for it ends here and nothing has changed.  It may carry an
\* edited payload ...
AcceptGate(p) ==
    /\ Free(p) /\ prop[p].state = "open"
    /\ \E c \in CommitSent(p) :
         txn' = Put(txn, p, [commit |-> c, judged |-> GateReport(p).digest,
                             overridden |-> NeedsOverride(GateReport(p))])
    /\ UNCHANGED <<upstream, prop, report, mirrorVars, driftVars, sweepVars, events,
                   leadVars>>

\* The mirror job of an accepted proposal.  The fields verified, judged,
\* overridden and swapped are history: what was pinned, what the gate read, and
\* whether the report was another one by now.
MirrorJob(p) ==
    [id |-> p, ref |-> prop[p].ref, commit |-> txn[p].commit, digest |-> ScannedDigest(p),
     verified |-> prop[p].verified, judged |-> txn[p].judged, overridden |-> txn[p].overridden,
     swapped |-> txn[p].judged # ScannedDigest(p)]

Enqueues(p, job) ==
    /\ p \in DOMAIN txn
    /\ prop' = [prop EXCEPT ![p].state = "accepted", ![p].commit = txn[p].commit]
    /\ queue' = IF prop[p].semver \in DOMAIN queue THEN queue
                ELSE Put(queue, prop[p].semver, [job |-> job, attempts |-> 0])
    /\ txn' = Drop(txn, p)
    /\ UNCHANGED <<upstream, report, version, object, driftVars, sweepVars, events,
                   leadVars>>

\* Mutant of EnqueueMirror: the digest of the pre-scan does not ride along.
EnqueueMirrorUnpinned(p) ==
    Enqueues(p, [MirrorJob(p) EXCEPT !.commit = None, !.digest = None])

\* ... and the digest for the mirror in a later statement, then commits.  A
\* row with the same semver that is already there wins.
EnqueueMirror(p) == Enqueues(p, MirrorJob(p))

\* The retry-mirror route: every dead-lettered row of the skill gets its
\* attempts back.
RetryMirror ==
    /\ MayHappen
    /\ \E s \in DOMAIN queue : queue[s].attempts >= MaxAttempts
    /\ queue' = [s \in DOMAIN queue |->
                   IF queue[s].attempts < MaxAttempts THEN queue[s]
                   ELSE [queue[s] EXCEPT !.attempts = 0]]
    /\ events' = events + 1
    /\ UNCHANGED <<upstream, reviewVars, version, object, driftVars, sweepVars, leadVars>>

-----------------------------------------------------------------------------
(* The pre-scan: preScanPointerProposals. *)

\* A timer fires: on a replica that leads, in a lane that is free.
TickBegins(t, running) ==
    /\ isLeader[t[1]] /\ t \notin DOMAIN running
    /\ Cardinality(DOMAIN prescans) + Cardinality(DOMAIN mirrors)
         + Cardinality(DOMAIN refreshes) < MaxTicks

NeedsPreScan(p) ==
    /\ p \in DOMAIN prop
    /\ prop[p].state \in {"open", "changes_requested"}
    /\ \A i \in DOMAIN report[p] :
         report[p][i].of # [ref |-> prop[p].ref, commit |-> prop[p].commit]

\* Mutant of PreScanBegins: a proposal with a report is not scanned again.
PreScanBeginsOnce(t) ==
    /\ TickBegins(t, prescans)
    /\ \E p \in Proposals :
         /\ NeedsPreScan(p) /\ report[p] = <<>>
         /\ prescans' = Put(prescans, t,
              [pc |-> "fetch", p |-> p, digest |-> None, status |-> "none",
               of |-> [ref |-> prop[p].ref, commit |-> prop[p].commit]])
    /\ UNCHANGED <<upstream, reviewVars, mirrorVars, driftVars, mirrors, refreshes,
                   events, leadVars>>

PreScanBegins(t) ==
    /\ TickBegins(t, prescans)
    /\ \E p \in Proposals :
         /\ NeedsPreScan(p)
         /\ prescans' = Put(prescans, t,
              [pc |-> "fetch", p |-> p, digest |-> None, status |-> "none",
               of |-> [ref |-> prop[p].ref, commit |-> prop[p].commit]])
    /\ UNCHANGED <<upstream, reviewVars, mirrorVars, driftVars, mirrors, refreshes,
                   events, leadVars>>

PreScanFetch(t) ==
    /\ t \in DOMAIN prescans /\ prescans[t].pc = "fetch"
    /\ LET c   == upstream[prescans[t].of.ref]
           pin == prescans[t].of.commit
           st  == IF c = None THEN "unreachable"
                  ELSE IF pin \notin {None, c} THEN "source_changed" ELSE "scanned"
       IN  prescans' = [prescans EXCEPT ![t].pc = "delete", ![t].status = st,
                          ![t].digest = IF st = "scanned" THEN c ELSE None]
    /\ UNCHANGED <<upstream, reviewVars, mirrorVars, driftVars, mirrors, refreshes,
                   events, leadVars>>

\* The old reports go before the scanners run ...
PreScanDelete(t) ==
    /\ t \in DOMAIN prescans /\ prescans[t].pc = "delete"
    /\ report' = [report EXCEPT ![prescans[t].p] = <<>>]
    /\ prescans' = [prescans EXCEPT ![t].pc = "insert"]
    /\ UNCHANGED <<upstream, prop, txn, mirrorVars, driftVars, mirrors, refreshes,
                   events, leadVars>>

\* ... and the new one comes after.
PreScanInsert(t) ==
    /\ t \in DOMAIN prescans /\ prescans[t].pc = "insert"
    /\ report' = [report EXCEPT ![prescans[t].p] =
         Append(@, [of |-> prescans[t].of, status |-> prescans[t].status,
                    digest |-> prescans[t].digest])]
    /\ prescans' = Drop(prescans, t)
    /\ UNCHANGED <<upstream, prop, txn, mirrorVars, driftVars, mirrors, refreshes,
                   events, leadVars>>

-----------------------------------------------------------------------------
(* The mirror queue: mirrorPendingVersions and mirrorPointerVersion. *)

\* select ... from pending_mirrors where attempts < MAX_MIRROR_ATTEMPTS
MirrorBegins(t) ==
    /\ TickBegins(t, mirrors)
    /\ \E s \in DOMAIN queue :
         /\ queue[s].attempts < MaxAttempts
         /\ mirrors' = Put(mirrors, t, [pc |-> "exists", semver |-> s, job |-> queue[s].job,
                                        snap |-> None])
    /\ UNCHANGED <<upstream, reviewVars, mirrorVars, driftVars, prescans, refreshes,
                   events, leadVars>>

MirrorGoes(t, pc) == mirrors' = [mirrors EXCEPT ![t].pc = pc]

\* A version that is there already was mirrored by an earlier tick that did not
\* get to clear the queue.
MirrorExists(t) ==
    /\ t \in DOMAIN mirrors /\ mirrors[t].pc = "exists"
    /\ MirrorGoes(t, IF mirrors[t].semver \in DOMAIN version THEN "clear" ELSE "fetch")
    /\ UNCHANGED <<upstream, reviewVars, mirrorVars, driftVars, prescans, refreshes,
                   events, leadVars>>

\* Mutant of Refusal: the content is not compared.
RefusalByCommit(job, c) == job.commit \notin {None, c}

\* upstream_moved, content_changed
Refusal(job, c) == job.commit \notin {None, c} \/ job.digest \notin {None, c}

\* Mutant of MirrorFetch: the archive is taken for stored.
MirrorFetchStored(t) ==
    /\ t \in DOMAIN mirrors /\ mirrors[t].pc = "fetch"
    /\ LET c == upstream[mirrors[t].job.ref]
       IN  mirrors' = [mirrors EXCEPT
             ![t].pc = IF c = None THEN "failed"
                       ELSE IF Refusal(mirrors[t].job, c) THEN "refused" ELSE "insert",
             ![t].snap = c]
    /\ UNCHANGED <<upstream, reviewVars, mirrorVars, driftVars, prescans, refreshes,
                   events, leadVars>>

\* Clone, compare, validate, scan.  A MirrorRefusal is final.
MirrorFetch(t) ==
    /\ t \in DOMAIN mirrors /\ mirrors[t].pc = "fetch"
    /\ LET c == upstream[mirrors[t].job.ref]
       IN  mirrors' = [mirrors EXCEPT
             ![t].pc = IF c = None THEN "failed"
                       ELSE IF Refusal(mirrors[t].job, c) THEN "refused" ELSE "put",
             ![t].snap = c]
    /\ UNCHANGED <<upstream, reviewVars, mirrorVars, driftVars, prescans, refreshes,
                   events, leadVars>>

\* The AV engine cannot be reached: nothing is stored, the mirror will be retried.
MirrorUnscanned(t) ==
    /\ t \in DOMAIN mirrors /\ mirrors[t].pc = "put"
    /\ MayHappen
    /\ events' = events + 1
    /\ MirrorGoes(t, "failed")
    /\ UNCHANGED <<upstream, reviewVars, mirrorVars, driftVars, prescans, refreshes, leadVars>>

\* The archive is packed anew by each tick, and goes to a key made of the skill
\* and the semver.
MirrorPut(t) ==
    /\ t \in DOMAIN mirrors /\ mirrors[t].pc = "put"
    /\ object' = Put(object, mirrors[t].semver, [snap |-> mirrors[t].snap, by |-> t])
    /\ MirrorGoes(t, "insert")
    /\ UNCHANGED <<upstream, reviewVars, queue, version, driftVars, prescans, refreshes,
                   events, leadVars>>

\* The version, with its hash and the pin; unique (skill_id, semver) makes a
\* second insert an error like any other.
MirrorInsert(t) ==
    /\ t \in DOMAIN mirrors /\ mirrors[t].pc = "insert"
    /\ LET s == mirrors[t].semver  job == mirrors[t].job
       IN  IF s \in DOMAIN version
           THEN MirrorGoes(t, "failed") /\ UNCHANGED version
           ELSE /\ version' = Put(version, s,
                     [job |-> job, snap |-> mirrors[t].snap, by |-> t,
                      commit |-> IF job.commit # None \/ job.ref \in Registry
                                 THEN job.commit ELSE mirrors[t].snap,
                      status |-> IF mirrors[t].snap \in Critical
                                 THEN "quarantined" ELSE "active"])
                /\ MirrorGoes(t, "clear")
    /\ UNCHANGED <<upstream, reviewVars, queue, object, driftVars, prescans, refreshes,
                   events, leadVars>>

InQueue(s, id) == s \in DOMAIN queue /\ queue[s].job.id = id

\* delete from pending_mirrors where id = ...
MirrorClears(t) ==
    /\ t \in DOMAIN mirrors /\ mirrors[t].pc = "clear"
    /\ LET s == mirrors[t].semver
       IN  queue' = IF InQueue(s, mirrors[t].job.id) THEN Drop(queue, s) ELSE queue
    /\ mirrors' = Drop(mirrors, t)
    /\ UNCHANGED <<upstream, reviewVars, version, object, driftVars, prescans, refreshes,
                   events, leadVars>>

\* Mutant of MirrorRecords: a refused row is deleted.
MirrorRecordsDeletes(t) ==
    /\ t \in DOMAIN mirrors /\ mirrors[t].pc \in {"failed", "refused"}
    /\ LET s == mirrors[t].semver
       IN  queue' = IF ~InQueue(s, mirrors[t].job.id) THEN queue
                    ELSE IF mirrors[t].pc = "refused" THEN Drop(queue, s)
                    ELSE [queue EXCEPT ![s].attempts = IF @ < MaxAttempts THEN @ + 1 ELSE @]
    /\ mirrors' = Drop(mirrors, t)
    /\ UNCHANGED <<upstream, reviewVars, version, object, driftVars, prescans, refreshes,
                   events, leadVars>>

\* Mutant of MirrorRecords: only refusals count.
MirrorRecordsUncounted(t) ==
    /\ t \in DOMAIN mirrors /\ mirrors[t].pc \in {"failed", "refused"}
    /\ LET s == mirrors[t].semver
       IN  queue' = IF InQueue(s, mirrors[t].job.id) /\ mirrors[t].pc = "refused"
                    THEN [queue EXCEPT ![s].attempts = MaxAttempts] ELSE queue
    /\ mirrors' = Drop(mirrors, t)
    /\ UNCHANGED <<upstream, reviewVars, version, object, driftVars, prescans, refreshes,
                   events, leadVars>>

\* The attempt is recorded; a refusal takes them all.
MirrorRecords(t) ==
    /\ t \in DOMAIN mirrors /\ mirrors[t].pc \in {"failed", "refused"}
    /\ LET s == mirrors[t].semver
           n == IF mirrors[t].pc = "refused" THEN MaxAttempts ELSE queue[s].attempts + 1
       IN  queue' = IF InQueue(s, mirrors[t].job.id)
                    THEN [queue EXCEPT ![s].attempts = IF n > MaxAttempts THEN MaxAttempts ELSE n]
                    ELSE queue
    /\ mirrors' = Drop(mirrors, t)
    /\ UNCHANGED <<upstream, reviewVars, version, object, driftVars, prescans, refreshes,
                   events, leadVars>>

-----------------------------------------------------------------------------
(* The daily refresh: refreshPointerVersions. *)

RefreshBegins(t) ==
    /\ TickBegins(t, refreshes)
    /\ \E s \in DOMAIN version :
         /\ version[s].status = "active" /\ due[s]
         /\ refreshes' = Put(refreshes, t, [pc |-> "fetch", semver |-> s, found |-> "none"])
    /\ UNCHANGED <<upstream, reviewVars, mirrorVars, driftVars, prescans, mirrors,
                   events, leadVars>>

\* Drift is a moved commit, or content that differs from the artifact, unless the
\* artifact no longer has the version's hash.
Drifted(s, c) ==
    \/ version[s].commit \notin {None, c}
    \/ object[s].by = version[s].by /\ object[s].snap # c

RefreshFetch(t) ==
    /\ t \in DOMAIN refreshes /\ refreshes[t].pc = "fetch"
    /\ LET s == refreshes[t].semver
           c == upstream[version[s].job.ref]
           f == IF c = None THEN "unreachable"
                ELSE IF Drifted(s, c) THEN "drift" ELSE "scanned"
       IN  refreshes' = [refreshes EXCEPT ![t].found = f,
                           ![t].pc = IF f = "drift" THEN "notify" ELSE "report"]
    /\ UNCHANGED <<upstream, reviewVars, mirrorVars, driftVars, prescans, mirrors,
                   events, leadVars>>

\* Mutant of RefreshNotify: every pass that finds the drift announces it.
RefreshNotifyAlways(t) ==
    /\ t \in DOMAIN refreshes /\ refreshes[t].pc = "notify"
    /\ notified' = [notified EXCEPT ![refreshes[t].semver] = @ + 1]
    /\ refreshes' = [refreshes EXCEPT ![t].pc = "report"]
    /\ UNCHANGED <<upstream, reviewVars, mirrorVars, due, prior, prescans, mirrors,
                   events, leadVars>>

\* The maintainers are told at the onset of drift, which an unreachable upstream
\* does not interrupt.
RefreshNotify(t) ==
    /\ t \in DOMAIN refreshes /\ refreshes[t].pc = "notify"
    /\ LET s == refreshes[t].semver
       IN  notified' = IF prior[s] = "drift" THEN notified
                       ELSE [notified EXCEPT ![s] = @ + 1]
    /\ refreshes' = [refreshes EXCEPT ![t].pc = "report"]
    /\ UNCHANGED <<upstream, reviewVars, mirrorVars, due, prior, prescans, mirrors,
                   events, leadVars>>

RefreshReport(t) ==
    /\ t \in DOMAIN refreshes /\ refreshes[t].pc = "report"
    /\ LET s == refreshes[t].semver  f == refreshes[t].found
       IN  /\ prior' = IF f = "unreachable" THEN prior ELSE [prior EXCEPT ![s] = f]
           /\ notified' = IF f = "scanned" THEN [notified EXCEPT ![s] = 0] ELSE notified
           /\ due' = [due EXCEPT ![s] = FALSE]
    /\ refreshes' = Drop(refreshes, t)
    /\ UNCHANGED <<upstream, reviewVars, mirrorVars, prescans, mirrors, events, leadVars>>

-----------------------------------------------------------------------------
(* Leadership, and the death of a worker with all its ticks. *)

LeadsOn(w) ==
    /\ \/ AttemptLeadership(w)
       \/ MayHappen /\ ConnectionBreaks(w)
       \/ SessionEnds(w)
       \/ StepDown(w)
    /\ UNCHANGED <<upstream, reviewVars, mirrorVars, driftVars, sweepVars, events>>

Without(f, w) == [t \in {u \in DOMAIN f : u[1] # w} |-> f[t]]

Dies(w) ==
    /\ MayHappen /\ LeaderDies(w)
    /\ prescans' = Without(prescans, w)
    /\ mirrors' = Without(mirrors, w)
    /\ refreshes' = Without(refreshes, w)
    /\ UNCHANGED <<upstream, reviewVars, mirrorVars, driftVars, events>>

-----------------------------------------------------------------------------
PreScanStep(t) == PreScanBegins(t) \/ PreScanFetch(t) \/ PreScanDelete(t) \/ PreScanInsert(t)
MirrorStep(t)  == \/ MirrorBegins(t) \/ MirrorExists(t) \/ MirrorFetch(t) \/ MirrorPut(t)
                  \/ MirrorInsert(t) \/ MirrorClears(t) \/ MirrorRecords(t)
RefreshStep(t) == RefreshBegins(t) \/ RefreshFetch(t) \/ RefreshNotify(t) \/ RefreshReport(t)

Review ==
    \/ \E p \in Proposals, r \in Refs, s \in Semvers : CreateProposal(p, r, s)
    \/ \E p \in Proposals, r \in Refs : Resubmit(p, r)
    \/ \E p \in Proposals : Revise(p) \/ RequestChanges(p) \/ Reject(p) \/ AcceptGate(p) \/ EnqueueMirror(p)
    \/ RetryMirror

Next ==
    \/ Review
    \/ \E r \in Refs : UpstreamMoves(r)
    \/ DayPasses
    \/ \E t \in Threads : \/ PreScanStep(t) \/ MirrorStep(t) \/ RefreshStep(t)
                          \/ MirrorUnscanned(t)
    \/ \E w \in Workers : LeadsOn(w) \/ Dies(w)

Spec == Init /\ [][Next]_vars

\* Timers fire, awaits return, Postgres and the replica find out about a broken
\* connection, an accept in progress ends.
Fairness ==
    /\ \A t \in Threads : WF_vars(PreScanStep(t) \/ MirrorStep(t) \/ RefreshStep(t))
    /\ \A w \in Workers : WF_vars(LeadsOn(w) /\ ~ConnectionBreaks(w))
    /\ \A p \in Proposals : WF_vars(EnqueueMirror(p))

FairSpec == Spec /\ Fairness

-----------------------------------------------------------------------------
(* Properties *)

\* Rows, objects and the requests and ticks in progress keep their types; a version has its
\* object (mirror.ts stores the archive before it inserts the version).
TypeOK ==
    /\ LeadTypeOK
    /\ upstream \in [Refs -> 0..MaxSnapshot]
    /\ DOMAIN prop \subseteq Proposals
    /\ \A p \in DOMAIN prop :
         prop[p] \in [state : {"open", "changes_requested", "accepted", "rejected"},
                      ref : Refs, commit : 0..MaxSnapshot, verified : 0..MaxSnapshot,
                      semver : Semvers, revision : 1..MaxRevisions]
    /\ report \in [Proposals -> Seq(Report)]
    /\ DOMAIN txn \subseteq DOMAIN prop
    /\ \A p \in DOMAIN txn :
         txn[p] \in [commit : 0..MaxSnapshot, judged : 0..MaxSnapshot,
                     overridden : BOOLEAN]
    /\ DOMAIN queue \subseteq Semvers
    /\ \A s \in DOMAIN queue : queue[s] \in QueueRow
    /\ DOMAIN version \subseteq DOMAIN object
    /\ DOMAIN object \subseteq Semvers
    /\ \A s \in DOMAIN version :
         version[s] \in [job : Job, snap : Snapshots, by : Threads,
                         commit : 0..MaxSnapshot, status : {"active", "quarantined"}]
    /\ \A s \in DOMAIN object : object[s] \in [snap : Snapshots, by : Threads]
    /\ due \in [Semvers -> BOOLEAN]
    /\ prior \in [Semvers -> {"none", "scanned", "drift"}]
    /\ notified \in [Semvers -> Nat]
    /\ DOMAIN prescans \subseteq Threads /\ DOMAIN mirrors \subseteq Threads
    /\ DOMAIN refreshes \subseteq Threads

\* No accepted pointer gets lost: until there is a version under its semver the
\* queue has a row for it, through deaths of workers, ticks that overlap and
\* retries (mirrorPending.ts deletes the row after the insert).
AcceptedIsQueued ==
    \A p \in DOMAIN prop :
      prop[p].state = "accepted" =>
        prop[p].semver \in DOMAIN queue \cup DOMAIN version

\* What is published without an override is what the gate judged, unless the
\* pre-scan replaced the report between two statements of the accept
\* (mirror.ts: what was reviewed must be what is served).
PublishedPointerAsJudged ==
    \A s \in DOMAIN version :
      LET v == version[s]
      IN  v.job.overridden \/ v.job.swapped \/ (v.snap = v.job.judged /\ v.snap \notin Flagged)

\* Drift is announced once per onset, and once more at most for each tick that ran
\* at the same time, or that was cut short or overtaken because a worker died or lost
\* its connection (pointerRefresh.ts: "only at drift ONSET").
DriftAnnouncedOnce ==
    \A s \in Semvers : notified[s] <= Cardinality(Lanes) * (1 + breaks)

\* What is mirrored from a git origin is the commit that the reference stood for
\* when the pointer was verified, whatever upstream did in the meantime
\* (SKILLY_SPEC.md 49.3, "Pointer versions pin a commit").
MirroredAsVerified ==
    \A s \in DOMAIN version : version[s].job.verified \in {None, version[s].snap}

\* An accept fixes what may be published, and it is published once and for good.
Promise == INSTANCE PinnedRelease WITH
    Semvers <- Semvers, Contents <- Snapshots, Nothing <- None,
    allowed <- [s \in Semvers |->
                  IF s \in DOMAIN version THEN Lets(version[s].job)
                  ELSE IF s \in DOMAIN queue THEN Lets(queue[s].job) ELSE {}],
    released <- [s \in Semvers |-> IF s \in DOMAIN version THEN version[s].snap ELSE None]

ImplementsPinnedRelease == Promise!Spec

\* Every accepted pointer is mirrored or ends up in the dead letters.
QueueDrains ==
    <>[](\A s \in DOMAIN queue : queue[s].attempts >= MaxAttempts)

\* A proposal that waits for review is scanned at the pointer it has, whatever a
\* late tick writes about an earlier one.
PreScanCatchesUp ==
    \A p \in Proposals :
      <>[](/\ p \in DOMAIN prop
           /\ prop[p].state \in {"open", "changes_requested"}) => <>[](~NeedsPreScan(p))
=============================================================================
