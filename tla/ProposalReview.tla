--------------------------- MODULE ProposalReview ---------------------------
(***************************************************************************)
(* Proposals for one skill slug, from submission to the published version: *)
(* the state machine of packages/shared/src/proposal.ts and the            *)
(* transactions of packages/web/src/lib/proposals.ts that drive it, with   *)
(* the routes that call them.  Files are hosted: a payload names an upload *)
(* in object storage (pointer proposals, which the worker mirrors, are     *)
(* another module's business).                                             *)
(*                                                                         *)
(* A request is one HTTP call in progress.  It is a sequence of database   *)
(* reads outside any transaction (the route's checks), a transaction, and  *)
(* object-store calls after the commit, with other requests running in     *)
(* between.  A transaction whose reads and writes are all of rows it holds *)
(* locked is one step; an accept and a direct publish also read the scan   *)
(* reports and the skill's versions, and take further locks one by one.    *)
(* What such a transaction has written is kept in its request until it     *)
(* commits, for nobody else sees it before.                                *)
(*                                                                         *)
(* Who may call what is left out: every request is of a caller whom        *)
(* canPerform allows to act, and who owns the uploads it names.            *)
(***************************************************************************)
EXTENDS Naturals, Sequences, FiniteSets

CONSTANTS
    Proposals,      \* proposal ids
    NoProposal,
    Keys,           \* object keys of uploads
    NoKey,
    Requests,       \* requests that may be in progress at once
    Calls,          \* the calls clients make, of AllCalls
    Uploads,        \* the verdicts of the scan at upload
    MaxMeta,        \* bound: distinct metadata a payload may carry
    MaxSemver,      \* bound: distinct semvers, in precedence order
    MaxRevisions    \* bound: revisions of a proposal

Semvers == 1..MaxSemver

Actions == {"start_review", "request_changes", "resubmit", "revise", "accept",
            "reject"}
AllCalls == Actions \cup {"create", "publish", "delete"}

\* What an upload's latest report says to the gates: no report, no engine result,
\* content-risk findings, other findings of high or critical severity, neither.
Verdict == {"none", "incomplete", "risk", "high", "clean"}

ASSUME ReviewAssumption ==
    /\ NoProposal \notin Proposals /\ NoKey \notin Keys
    /\ Calls \subseteq AllCalls /\ Uploads \subseteq Verdict \ {"none"}
    /\ MaxMeta \in Nat /\ MaxSemver \in Nat /\ MaxRevisions \in Nat \ {0}

VARIABLES
    prop,           \* the proposals rows
    revs,           \* proposal_revisions: the payloads, by revision_no
    skill,          \* the skills row exists
    versions,       \* the skill_versions rows, in the order of their commits
    object,         \* the uploads in object storage
    report,         \* what the latest scan report of an upload amounts to
    av,             \* the upload the AV sweep has read and is scanning
    req             \* the requests in progress

vars == <<prop, revs, skill, versions, object, report, av, req>>

Payload   == [key : Keys, meta : 1..MaxMeta]
NoPayload == [key |-> NoKey, meta |-> 0]

ProposalState == {"proposed", "under_review", "changes_requested", "accepted",
                  "rejected"}
Row == [state : ProposalState \cup {"none", "deleted"}, semver : 0..MaxSemver,
        target : BOOLEAN]

\* The last two fields record what a version was published on: the payload its
\* publisher had looked at, and the upload and verdict the gate judged.
Version == [semver : Semvers, payload : Payload, from : Proposals \cup {NoProposal},
            override : BOOLEAN, seen : Payload,
            judged : [key : Keys, verdict : Verdict]]

Pcs == {"idle", "create", "begin", "slug", "gate", "skill", "read", "insert",
        "delete", "cleanup", "erase", "unreport"}

Request == [pc : Pcs, act : AllCalls,
            p : Proposals \cup {NoProposal}, pay : Payload \cup {NoPayload},
            semver : 0..MaxSemver, target : BOOLEAN, override : BOOLEAN,
            pin : 0..MaxRevisions, seen : Payload \cup {NoPayload},
            judged : [key : Keys \cup {NoKey}, verdict : Verdict],
            audited : BOOLEAN, old : Keys \cup {NoKey}]

Idle == [pc |-> "idle", act |-> "create", p |-> NoProposal, pay |-> NoPayload,
         semver |-> 0, target |-> FALSE, override |-> FALSE, pin |-> 0,
         seen |-> NoPayload, judged |-> [key |-> NoKey, verdict |-> "none"],
         audited |-> FALSE, old |-> NoKey]

-----------------------------------------------------------------------------
(* proposal.ts *)

TRANSITIONS ==
    [start_review    |-> [from |-> {"proposed", "changes_requested"}, to |-> "under_review"],
     request_changes |-> [from |-> {"under_review"}, to |-> "changes_requested"],
     resubmit        |-> [from |-> {"changes_requested"}, to |-> "under_review"],
     revise          |-> [from |-> {"proposed", "under_review"}, to |-> "same"],
     accept          |-> [from |-> {"under_review"}, to |-> "accepted"],
     reject          |-> [from |-> {"proposed", "under_review", "changes_requested"},
                          to |-> "rejected"]]

\* Mutant of nextState: a revise moves the proposal to the state "same".
nextStateLiteral(a, from) == TRANSITIONS[a].to

nextState(a, from) == IF TRANSITIONS[a].to = "same" THEN from ELSE TRANSITIONS[a].to

\* Mutant of canPerform: an accepted proposal can still be rejected.
canPerformAfterAccept(a, from) ==
    from \in TRANSITIONS[a].from \/ (a = "reject" /\ from = "accepted")

\* None of the states an action starts from is terminal; a row that is gone is
\* in no state at all.
canPerform(a, from) == from \in TRANSITIONS[a].from

-----------------------------------------------------------------------------
(* Rows and locks *)

Exists(p) == prop[p].state \in ProposalState

latestPayload(p) == revs[p][Len(revs[p])]

\* The payload a transaction would publish: its own edit, else the latest revision.
Effective(r) == IF req[r].pay # NoPayload THEN req[r].pay ELSE latestPayload(req[r].p)

InTransaction == {"slug", "gate", "skill", "read", "insert"}

\* select ... from proposals where id = p for update: held until the transaction ends.
LocksProposal(r, p) ==
    req[r].act = "accept" /\ req[r].p = p /\ req[r].pc \in InTransaction

ProposalFree(p) == \A r \in Requests : ~LocksProposal(r, p)

\* lockSlugForCreate, taken by an accept before its gates and by a direct publish
\* after them, when the request found no skill to add a version to.
LocksSlug(r) ==
    /\ ~req[r].target
    /\ \/ req[r].act = "accept" /\ req[r].pc \in {"gate", "skill", "read", "insert"}
       \/ req[r].act = "publish" /\ req[r].pc \in {"skill", "read", "insert"}

\* Mutant of LocksSkill: an accept updates the skills row before anything else.
LocksSkillEarly(r) ==
    req[r].pc \in {"read", "insert"} \/ (req[r].act = "accept" /\ req[r].pc \in InTransaction)

\* The skills row, updated (or inserted) before the versions are read.
LocksSkill(r) == req[r].pc \in {"read", "insert"}

\* The chain of the audit log has one lock for the whole installation, taken by the
\* first row a transaction appends.  That row comes last, right before the commit,
\* except in an accept that overrides a gate: its override is audited at once.
LocksAudit(r) == req[r].audited /\ req[r].pc \in {"skill", "read", "insert"}

AuditFree(r) == \A x \in Requests \ {r} : ~LocksAudit(x)

\* Whom a request waits for at its next statement.
Waits(r, x) ==
    /\ x # r
    /\ \/ req[r].pc \in {"begin", "delete"} /\ LocksProposal(x, req[r].p)
       \/ req[r].pc = "slug" /\ LocksSlug(x)
       \/ req[r].pc = "skill" /\ LocksSkill(x)
       \/ req[r].pc \in {"create", "begin", "delete", "insert"} /\ LocksAudit(x)

\* Requests that all wait for one another.
Knot(S) == S # {} /\ \A r \in S : \E x \in S : Waits(r, x)

-----------------------------------------------------------------------------
Init ==
    /\ prop = [p \in Proposals |-> [state |-> "none", semver |-> 0, target |-> FALSE]]
    /\ revs = [p \in Proposals |-> <<>>]
    /\ skill = FALSE /\ versions = <<>>
    /\ object = [k \in Keys |-> FALSE]
    /\ report = [k \in Keys |-> "none"]
    /\ av = NoKey
    /\ req = [r \in Requests |-> Idle]

Goto(r, l) == req' = [req EXCEPT ![r].pc = l]

\* The response is sent and, in a transaction, nothing it wrote remains.
Finish(r) == req' = [req EXCEPT ![r] = Idle]

dbVars    == <<prop, revs, skill, versions>>
storeVars == <<object, report, av>>

-----------------------------------------------------------------------------
(* Uploads and their scans *)

\* An upload gets a fresh key, and its scan report with it.
Upload(k, v) ==
    /\ ~object[k] /\ report[k] = "none" /\ av # k
    /\ \A r \in Requests : k \notin {req[r].pay.key, req[r].old, req[r].seen.key}
    /\ \A p \in Proposals : \A i \in 1..Len(revs[p]) : revs[p][i].key # k
    /\ \A i \in 1..Len(versions) : versions[i].payload.key # k
    /\ object' = [object EXCEPT ![k] = TRUE]
    /\ report' = [report EXCEPT ![k] = v]
    /\ UNCHANGED <<dbVars, av, req>>

\* Uploads of open proposals and of versions.
Referenced(k) ==
    \/ \E p \in Proposals :
          /\ prop[p].state \in {"proposed", "under_review", "changes_requested"}
          /\ latestPayload(p).key = k
    \/ \E i \in 1..Len(versions) : versions[i].payload.key = k

\* The AV sweep reads the bytes of an upload whose report has no engine result,
AvRead(k) ==
    /\ av = NoKey
    /\ Referenced(k) /\ report[k] \in {"none", "incomplete"} /\ object[k]
    /\ av' = k
    /\ UNCHANGED <<dbVars, object, report, req>>

\* and writes a superseding report when the engine has answered.
AvWrite(v) ==
    /\ av # NoKey
    /\ report' = [report EXCEPT ![av] = v]
    /\ av' = NoKey
    /\ UNCHANGED <<dbVars, object, req>>

-----------------------------------------------------------------------------
(* The routes: a request is checked against what is committed now. *)

\* verifySubmissionPayload: the key was carried forward from the latest
\* revision, or it is an upload with a scan report.
verifySubmissionPayload(pay, preapproved) ==
    pay.key = preapproved \/ report[pay.key] # "none"

Arrive(r, f) == f.act \in Calls /\ req[r].pc = "idle" /\ req' = [req EXCEPT ![r] = f]

SubmitCreate(r, pay, s) ==
    /\ verifySubmissionPayload(pay, NoKey)
    /\ Arrive(r, [Idle EXCEPT !.pc = "create", !.act = "create", !.pay = pay,
                              !.semver = s, !.target = skill])
    /\ UNCHANGED <<dbVars, storeVars>>

\* The revision number an accept carries is that of the revision its reviewer
\* looked at.  Any action may carry a new payload: a revise must.
SubmitAction(r, a, p, pay, s, o) ==
    /\ Exists(p)
    /\ pay # NoPayload => verifySubmissionPayload(pay, latestPayload(p).key)
    /\ a = "revise" => pay # NoPayload
    /\ s # 0 => a = "resubmit"
    /\ o => a = "accept"
    /\ Arrive(r, [Idle EXCEPT !.pc = "begin", !.act = a, !.p = p, !.pay = pay,
                    !.semver = s, !.override = o,
                    !.pin = IF a = "accept" THEN Len(revs[p]) ELSE 0,
                    !.seen = IF a = "accept" THEN latestPayload(p) ELSE NoPayload])
    /\ UNCHANGED <<dbVars, storeVars>>

SubmitPublish(r, pay, s, o) ==
    /\ verifySubmissionPayload(pay, NoKey)
    /\ Arrive(r, [Idle EXCEPT !.pc = "gate", !.act = "publish", !.pay = pay,
                              !.semver = s, !.target = skill, !.override = o,
                              !.seen = pay])
    /\ UNCHANGED <<dbVars, storeVars>>

\* deleteProposal looks at the state before its transaction.
SubmitDelete(r, p) ==
    /\ Exists(p) /\ prop[p].state # "accepted"
    /\ Arrive(r, [Idle EXCEPT !.pc = "delete", !.act = "delete", !.p = p])
    /\ UNCHANGED <<dbVars, storeVars>>

-----------------------------------------------------------------------------
(* createProposal, and every action but accept: one step. *)

CreateProposal(r) ==
    /\ req[r].pc = "create" /\ AuditFree(r)
    /\ \/ \E p \in Proposals :
            /\ prop[p].state = "none"
            /\ prop' = [prop EXCEPT ![p] = [state |-> "proposed", semver |-> req[r].semver,
                                            target |-> req[r].target]]
            /\ revs' = [revs EXCEPT ![p] = <<req[r].pay>>]
       \/ /\ \A p \in Proposals : prop[p].state # "none"     \* bound: no id is left
          /\ UNCHANGED <<prop, revs>>
    /\ Finish(r)
    /\ UNCHANGED <<skill, versions, storeVars>>

\* Mutant of Permitted: the accept is not pinned to a revision.
PermittedUnpinned(r) ==
    LET q == req[r]
    IN  /\ canPerform(q.act, prop[q.p].state)
        /\ q.act = "revise" => q.pay # latestPayload(q.p)
        /\ q.pay # NoPayload => Len(revs[q.p]) < MaxRevisions

\* What performProposalAction checks under the lock: the proposal is there and in
\* a state for the action, an accept's pin is current, a revise changes something.
Permitted(r) ==
    LET q == req[r]
    IN  /\ canPerform(q.act, prop[q.p].state)
        /\ q.act = "accept" => q.pin = Len(revs[q.p])
        /\ q.act = "revise" => q.pay # latestPayload(q.p)
        /\ q.pay # NoPayload => Len(revs[q.p]) < MaxRevisions     \* bound

Refuse(r) ==
    /\ req[r].pc = "begin" /\ ProposalFree(req[r].p) /\ ~Permitted(r)
    /\ Finish(r)
    /\ UNCHANGED <<dbVars, storeVars>>

\* The new revision and the new state; a resubmit may bring a new semver.
\* A revise that replaces the upload goes on to clean up the one before.
Decide(r) ==
    LET q == req[r]
    IN  /\ q.pc = "begin" /\ q.act # "accept"
        /\ ProposalFree(q.p) /\ Permitted(r) /\ AuditFree(r)
        /\ prop' = [prop EXCEPT
                      ![q.p].state = nextState(q.act, @),
                      ![q.p].semver = IF q.semver # 0 THEN q.semver ELSE @]
        /\ revs' = IF q.pay = NoPayload THEN revs
                   ELSE [revs EXCEPT ![q.p] = Append(@, q.pay)]
        /\ IF q.act = "revise" /\ q.pay.key # latestPayload(q.p).key
           THEN req' = [req EXCEPT ![r] = [Idle EXCEPT !.pc = "cleanup",
                                             !.act = "revise",
                                             !.old = latestPayload(q.p).key]]
           ELSE Finish(r)
        /\ UNCHANGED <<skill, versions, storeVars>>

-----------------------------------------------------------------------------
(* Accept and direct publish *)

\* Lock the proposal and check it.  A proposal for a new skill takes the lock of
\* the slug next.
AcceptBegins(r) ==
    LET q == req[r]
    IN  /\ q.pc = "begin" /\ q.act = "accept"
        /\ ProposalFree(q.p) /\ Permitted(r)
        /\ req' = [req EXCEPT ![r].target = prop[q.p].target,
                              ![r].semver = prop[q.p].semver,
                              ![r].pc = IF prop[q.p].target THEN "gate" ELSE "slug"]
        /\ UNCHANGED <<dbVars, storeVars>>

\* Mutant of LockSlug: the transaction stays open when the slug is taken.
LockSlugUnended(r) ==
    /\ req[r].pc = "slug"
    /\ \A x \in Requests \ {r} : ~LocksSlug(x)
    /\ IF skill THEN req' = req
       ELSE Goto(r, IF req[r].act = "accept" THEN "gate" ELSE "skill")
    /\ UNCHANGED <<dbVars, storeVars>>

\* Under the slug lock: is there a skill of that slug by now?
LockSlug(r) ==
    /\ req[r].pc = "slug"
    /\ \A x \in Requests \ {r} : ~LocksSlug(x)
    /\ IF skill THEN Finish(r)
       ELSE Goto(r, IF req[r].act = "accept" THEN "gate" ELSE "skill")
    /\ UNCHANGED <<dbVars, storeVars>>

\* Mutant of JudgedKey: the gate looks at the revision the reviewer opened.
JudgedKeySeen(r) == req[r].seen.key

\* The upload whose report the gate reads: that of the payload to be published.
JudgedKey(r) == Effective(r).key

\* Where a request that passed its gates goes on.
AfterGate(r) == IF req[r].act = "publish" /\ ~req[r].target THEN "slug" ELSE "skill"

\* The verdicts that pass without an override: a direct publish is held up only
\* by a missing verdict and by content risk.
Passes(act) == IF act = "publish" THEN {"high", "clean"} ELSE {"clean"}

\* The scan gate and the policy gate (whose rules may trip, and some of them may
\* not be the caller's to override).
Gate(r, trips, forbidden) ==
    LET k == JudgedKey(r)
    IN  /\ req[r].pc = "gate"
        /\ req[r].override \/ (report[k] \in Passes(req[r].act) /\ ~trips)
        /\ ~(trips /\ forbidden)
        /\ req' = [req EXCEPT ![r].judged = [key |-> k, verdict |-> report[k]],
                              ![r].audited = /\ req[r].act = "accept"
                                             /\ report[k] \notin Passes("accept") \/ trips,
                              ![r].pc = AfterGate(r)]
        /\ UNCHANGED <<dbVars, storeVars>>

\* A gate refuses, or sends a member's direct publish to review.
GateRefuses(r, trips, forbidden) ==
    /\ req[r].pc = "gate"
    /\ \/ ~req[r].override /\ (report[JudgedKey(r)] \notin Passes(req[r].act) \/ trips)
       \/ trips /\ forbidden
    /\ \/ Finish(r)
       \/ req[r].act = "publish" /\ Goto(r, "create")
    /\ UNCHANGED <<dbVars, storeVars>>

\* The skills row: updated when it exists, so that other publishers of the skill
\* wait here; inserted otherwise, and a second insert of the slug fails.
LockSkill(r) ==
    /\ req[r].pc = "skill"
    /\ \A x \in Requests \ {r} : ~LocksSkill(x)
    /\ IF ~req[r].target /\ skill THEN Finish(r) ELSE Goto(r, "read")
    /\ UNCHANGED <<dbVars, storeVars>>

SemversTaken == {versions[i].semver : i \in 1..Len(versions)}

\* Mutant of ReadVersions: a semver below a published one passes.
ReadVersionsDistinct(r) ==
    /\ req[r].pc = "read"
    /\ IF req[r].semver \notin SemversTaken THEN Goto(r, "insert") ELSE Finish(r)
    /\ UNCHANGED <<dbVars, storeVars>>

\* assertStrictlyIncreasing over the committed versions.
ReadVersions(r) ==
    /\ req[r].pc = "read"
    /\ IF \A t \in SemversTaken : t < req[r].semver THEN Goto(r, "insert") ELSE Finish(r)
    /\ UNCHANGED <<dbVars, storeVars>>

\* Mutant of Commit: the reviewer's edit is published but not kept as a revision.
CommitUnrecorded(r) ==
    LET q == req[r]
        row == [semver |-> q.semver, payload |-> Effective(r), from |-> q.p,
                override |-> q.override,
                seen |-> IF q.pay # NoPayload THEN q.pay ELSE q.seen,
                judged |-> q.judged]
    IN  /\ q.pc = "insert" /\ q.semver \notin SemversTaken /\ AuditFree(r)
        /\ versions' = Append(versions, row)
        /\ skill' = TRUE
        /\ IF q.act = "accept"
           THEN prop' = [prop EXCEPT ![q.p].state = nextState("accept", @)]
           ELSE UNCHANGED prop
        /\ Finish(r)
        /\ UNCHANGED <<revs, storeVars>>

\* Insert the version, append the audit row and commit; two rows cannot have the same semver.
Commit(r) ==
    LET q == req[r]
        row == [semver |-> q.semver, payload |-> Effective(r), from |-> q.p,
                override |-> q.override,
                seen |-> IF q.pay # NoPayload THEN q.pay ELSE q.seen,
                judged |-> q.judged]
    IN  /\ q.pc = "insert" /\ q.semver \notin SemversTaken /\ AuditFree(r)
        /\ versions' = Append(versions, row)
        /\ skill' = TRUE
        /\ IF q.act = "accept"
           THEN /\ prop' = [prop EXCEPT ![q.p].state = nextState("accept", @)]
                /\ revs' = IF q.pay = NoPayload THEN revs
                           ELSE [revs EXCEPT ![q.p] = Append(@, q.pay)]
           ELSE UNCHANGED <<prop, revs>>
        /\ Finish(r)
        /\ UNCHANGED storeVars

\* A statement fails, the connection is lost, or the semver is taken: rollback.
Rollback(r) ==
    /\ req[r].pc \in InTransaction
    /\ Finish(r)
    /\ UNCHANGED <<dbVars, storeVars>>

\* The database ends a transaction it finds in a circle of waits.
DeadlockVictim(r) ==
    /\ \E S \in SUBSET Requests :
          r \in S /\ Knot(S) /\ \A x \in S : \E y \in S : Waits(y, x)
    /\ Finish(r)
    /\ UNCHANGED <<dbVars, storeVars>>

-----------------------------------------------------------------------------
(* Deletion, and the cleanup of a replaced upload *)

DeleteProposal(r) ==
    LET p == req[r].p
    IN  /\ req[r].pc = "delete" /\ ProposalFree(p) /\ AuditFree(r)
        /\ prop' = [prop EXCEPT ![p].state = "deleted"]
        /\ revs' = [revs EXCEPT ![p] = <<>>]
        /\ Finish(r)
        /\ UNCHANGED <<skill, versions, storeVars>>

\* After the commit: is the replaced upload some version's artifact?
CleanupCheck(r) ==
    /\ req[r].pc = "cleanup"
    /\ IF \E i \in 1..Len(versions) : versions[i].payload.key = req[r].old
       THEN Finish(r) ELSE Goto(r, "erase")
    /\ UNCHANGED <<dbVars, storeVars>>

CleanupErase(r) ==
    /\ req[r].pc = "erase"
    /\ object' = [object EXCEPT ![req[r].old] = FALSE]
    /\ Goto(r, "unreport")
    /\ UNCHANGED <<dbVars, report, av>>

CleanupReport(r) ==
    /\ req[r].pc = "unreport"
    /\ report' = [report EXCEPT ![req[r].old] = "none"]
    /\ Finish(r)
    /\ UNCHANGED <<dbVars, object, av>>

\* A failure of the cleanup is swallowed; a crash loses it.
CleanupFails(r) ==
    /\ req[r].pc \in {"cleanup", "erase", "unreport"}
    /\ Finish(r)
    /\ UNCHANGED <<dbVars, storeVars>>

-----------------------------------------------------------------------------
Submits(r) ==
    \/ \E pay \in Payload, s \in Semvers : SubmitCreate(r, pay, s)
    \/ \E a \in Actions, p \in Proposals, pay \in Payload \cup {NoPayload},
          s \in 0..MaxSemver, o \in BOOLEAN : SubmitAction(r, a, p, pay, s, o)
    \/ \E pay \in Payload, s \in Semvers, o \in BOOLEAN : SubmitPublish(r, pay, s, o)
    \/ \E p \in Proposals : SubmitDelete(r, p)

RequestStep(r) ==
    \/ CreateProposal(r) \/ Refuse(r) \/ Decide(r)
    \/ AcceptBegins(r) \/ LockSlug(r)
    \/ \E trips, forbidden \in BOOLEAN :
          Gate(r, trips, forbidden) \/ GateRefuses(r, trips, forbidden)
    \/ LockSkill(r) \/ ReadVersions(r) \/ Commit(r) \/ DeadlockVictim(r)
    \/ DeleteProposal(r)
    \/ CleanupCheck(r) \/ CleanupErase(r) \/ CleanupReport(r)

FailStep(r) == Rollback(r) \/ CleanupFails(r)

Next ==
    \/ \E k \in Keys, v \in Uploads : Upload(k, v)
    \/ \E k \in Keys : AvRead(k)
    \/ \E v \in {"risk", "high", "clean"} : AvWrite(v)
    \/ \E r \in Requests : Submits(r) \/ RequestStep(r) \/ FailStep(r)

Spec == Init /\ [][Next]_vars

\* A request runs until it is answered, and one that waits for a lock gets it in
\* turn: Postgres queues the waiters.  Nobody has to submit anything, and nothing
\* has to fail.
FairSpec == Spec /\ \A r \in Requests : SF_vars(RequestStep(r))

-----------------------------------------------------------------------------
(* Properties *)

TypeOK ==
    /\ prop \in [Proposals -> Row]
    /\ revs \in [Proposals -> Seq(Payload)]
    /\ \A p \in Proposals : Len(revs[p]) <= MaxRevisions
    /\ skill \in BOOLEAN
    /\ versions \in Seq(Version)
    /\ object \in [Keys -> BOOLEAN] /\ report \in [Keys -> Verdict]
    /\ av \in Keys \cup {NoKey}
    /\ req \in [Requests -> Request]

\* What an accept publishes is the payload its reviewer looked at, or wrote: a
\* revise that lands in between never gets published unseen (the anti-swap pin,
\* proposals.ts:953).
PublishedAsReviewed ==
    \A i \in 1..Len(versions) : versions[i].payload = versions[i].seen

\* Versions are published in strictly increasing semver order, however many
\* accepts and direct publishes run at once (semver.ts:2, proposals.ts:1517).
SemversIncrease ==
    \A i, j \in 1..Len(versions) : i < j => versions[i].semver < versions[j].semver

\* The bytes of every version passed the gate, on their own report, or were let
\* through by an override: a reviewer's edit included (proposals.ts:1036).
PublishedAsJudged ==
    \A i \in 1..Len(versions) :
        LET v == versions[i]
        IN  \/ v.override
            \/ /\ v.judged.key = v.payload.key
               /\ v.judged.verdict \in Passes(IF v.from = NoProposal THEN "publish" ELSE "accept")

\* The versions a proposal was materialized as.
VersionsFrom(p) == {i \in 1..Len(versions) : versions[i].from = p}

\* A proposal is accepted exactly when it has its version, and never gets two.
OneVersionPerAccept ==
    \A p \in Proposals :
        /\ Cardinality(VersionsFrom(p)) <= 1
        /\ prop[p].state # "deleted" =>
              (prop[p].state = "accepted" <=> VersionsFrom(p) # {})

\* A decision is final: no action changes the state or the revisions of an
\* accepted or rejected proposal (proposal.ts:79).
DecisionIsFinal ==
    [][\A p \in Proposals :
          prop[p].state \in {"accepted", "rejected"} /\ prop'[p].state # "deleted"
              => prop'[p] = prop[p] /\ revs'[p] = revs[p]]_vars

\* Transactions take their locks in one order, proposal, slug, skill, audit chain:
\* only an accept that overrides a gate, which audits the override before it
\* touches the skills row (proposals.ts:1060), can be part of a deadlock.
DeadlockNeedsOverride ==
    \A S \in SUBSET Requests : Knot(S) => \E r \in S : req[r].audited

\* Every request is answered, those included whose transaction the database ends
\* to break a deadlock.
RequestsFinish ==
    \A r \in Requests : req[r].pc # "idle" ~> req[r].pc = "idle"

\* Under review or waiting for its submitter, a proposal is open.
Status == [p \in Proposals |->
              IF prop[p].state \in {"proposed", "under_review", "changes_requested"}
              THEN "open" ELSE prop[p].state]

Asked == [p \in Proposals |-> prop[p].semver]

\* A version as readers of the catalog see it.
Shown(v) == [semver |-> v.semver, payload |-> v.payload, from |-> v.from]

Catalog == [i \in 1..Len(versions) |-> Shown(versions[i])]

Ledger == INSTANCE ReviewLedger WITH
    status <- Status, asked <- Asked, history <- revs, catalog <- Catalog

\* The review keeps its ledger: with any number of requests in progress, a decision
\* and the version it publishes come in one step, the version under the proposal's
\* own semver, with the last revision of its history and above all versions there
\* are, and what was published stays as it is, even when its proposal is deleted
\* (proposals.ts:932).
KeepsLedger == Ledger!Spec

\* An accepted proposal, the provenance of its version, is never deleted
\* (proposals.ts:1287).
AcceptedIsKept ==
    [][\A p \in Proposals : prop[p].state = "accepted" => prop'[p].state = "accepted"]_vars

\* The artifact of a published version is in the store: the cleanup of replaced
\* uploads never takes it away (proposals.ts:1251).
PublishedArtifactStored ==
    \A i \in 1..Len(versions) : object[versions[i].payload.key]

=============================================================================
