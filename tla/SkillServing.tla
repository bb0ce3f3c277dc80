---------------------------- MODULE SkillServing ----------------------------
(***************************************************************************)
(* The serving pipeline of one skill slug: the skill and skill_versions    *)
(* rows in Postgres, the artifacts in object storage, the bare git repo    *)
(* the gateway serves, and the worker's publish sweep that reconciles the  *)
(* repo with the rows (packages/worker/src/git/{publish,synth,mainRef,     *)
(* withdraw}.ts), run against the web application's lifecycle operations   *)
(* (packages/web/src/lib/{proposals,manage,deprecation}.ts).               *)
(*                                                                         *)
(* A version row is identified by its creation rank, so "order by          *)
(* created_at" is the order of the numbers.  A semver is its rank in       *)
(* semver precedence.  The bytes of a version are identified with the row, *)
(* and so is the commit synthesized from them (synthesis is deterministic: *)
(* fixed author and date).  0 stands for SQL null and for a missing ref.   *)
(*                                                                         *)
(* A sweep is a sequence of database reads, git commands and database      *)
(* writes with an await between each two, so each is a step of its own and *)
(* every other actor may run in between.  Workers is the set of sweeps     *)
(* that can be in progress at once.                                        *)
(***************************************************************************)
EXTENDS Naturals, FiniteSets

CONSTANTS
    MaxVersions,    \* bound: version rows ever created
    MaxSkills,      \* bound: skill rows ever created under this slug
    MaxSemver,      \* bound: distinct semvers, in precedence order
    Prerelease,     \* the semvers with a prerelease part
    Batch,          \* WORKER_SWEEP_BATCH
    Workers,        \* sweeps that may be in progress at the same time
    FaultKinds,     \* the faults that may happen, of AllFaults
    MaxFaults       \* bound: faults in one behaviour

Versions == 1..MaxVersions
Semvers  == 1..MaxSemver
None     == 0

AllFaults == {"crash", "git", "withdraw", "volume", "object"}

ASSUME BoundsAssumption ==
    /\ MaxVersions \in Nat /\ MaxSkills \in Nat /\ MaxSemver \in Nat
    /\ Batch \in Nat \ {0} /\ MaxFaults \in Nat
    /\ Prerelease \subseteq 1..MaxSemver
    /\ FaultKinds \subseteq AllFaults

VARIABLES
    skill,          \* status of the slug's current skill row
    inc,            \* which skill row that is: 0 before the first
    deprecated,     \* its deprecated_at is set
    ver,            \* the skill_versions rows
    object,         \* the stored artifact of each version
    repo,           \* the bare repo's directory exists
    tags,           \* refs/tags/v<semver>: the version whose commit it names
    main,           \* refs/heads/main
    unhealable,     \* each worker process's in-memory set
    pc, todo, cur, latest, dep,   \* each sweep's position and local variables
    faults          \* faults so far

dbVars    == <<skill, inc, deprecated, ver>>
gitVars   == <<repo, tags, main>>
sweepVars == <<pc, todo, cur, latest, dep>>
vars == <<skill, inc, deprecated, ver, object, repo, tags, main, unhealable,
          pc, todo, cur, latest, dep, faults>>

SkillStatus   == {"none", "active", "archived"}
VersionStatus == {"absent", "active", "yanked", "quarantined", "deleted"}
Row    == [inc : 0..MaxSkills, semver : 0..MaxSemver, status : VersionStatus,
           published : BOOLEAN]
Commit == [base : 0..MaxVersions, hint : BOOLEAN]
NoMain == [base |-> None, hint |-> FALSE]
Pcs == {"idle", "pub", "pubCheck", "pubTag", "pubMain", "pubDep", "pubHint", "pubFlag",
        "healList", "heal", "healCheck", "healTag", "healMain", "healEnsure",
        "wdSelect", "wd", "wdTag", "wdRead", "wdMain", "wdFlag",
        "sync", "syncMain"}

-----------------------------------------------------------------------------
(* Queries *)

\* Rows that exist in the table.
Live(v) == ver[v].status \notin {"absent", "deleted"}

\* Mutant of resolveLatest: prereleases count.
resolveLatestAnyChannel(S) ==
    IF S = {} THEN None ELSE CHOOSE s \in S : \A t \in S : t <= s

\* resolveLatest: the highest stable of a set of semvers, or null.
resolveLatest(S) ==
    LET stable == S \ Prerelease
    IN  IF stable = {} THEN None
        ELSE CHOOSE s \in stable : \A t \in stable : t <= s

\* order by created_at asc limit Batch
FirstBatch(S) == {v \in S : Cardinality({u \in S : u < v}) < Batch}

Oldest(S) == CHOOSE v \in S : \A u \in S : v <= u

SemversOf(S) == {ver[v].semver : v \in S}

\* select semver from skill_versions where skill_id = k and status = 'active'
ActiveOf(k) == {v \in Versions : ver[v].inc = k /\ ver[v].status = "active"}

\* Mutant of PendingRows: everything not yanked is published.
PendingRowsNotYanked ==
    {v \in Versions : ver[v].status \in {"active", "quarantined"} /\ ~ver[v].published}

PendingRows == {v \in Versions : ver[v].status = "active" /\ ~ver[v].published}

\* The self-heal query joins the skill row: only an active skill is healed.
HealRows == {v \in Versions : /\ ver[v].status = "active" /\ ver[v].published
                              /\ skill = "active" /\ ver[v].inc = inc}

\* Mutant of YankedRows: only an active skill is looked at, as in the self-heal.
YankedRowsOfActive == {v \in Versions : /\ ver[v].status = "yanked" /\ ver[v].published
                                       /\ skill = "active" /\ ver[v].inc = inc}

YankedRows == {v \in Versions : ver[v].status = "yanked" /\ ver[v].published}

\* loadDeprecationState: a skill row that is gone is not deprecated.
DeprecatedSkill(k) == k = inc /\ skill # "none" /\ deprecated

\* ensureMain: the value it leaves in refs/heads/main.
EnsureMain(s, d) ==
    IF ~repo THEN main
    ELSE IF s = None THEN NoMain
    ELSE IF tags[s] = None THEN main
    ELSE [base |-> tags[s], hint |-> d]

-----------------------------------------------------------------------------
Init ==
    /\ skill = "none" /\ inc = 0 /\ deprecated = FALSE
    /\ ver = [v \in Versions |-> [inc |-> 0, semver |-> 0, status |-> "absent",
                                  published |-> FALSE]]
    /\ object = [v \in Versions |-> "intact"]
    /\ repo = FALSE /\ tags = [s \in Semvers |-> None] /\ main = NoMain
    /\ unhealable = [p \in Workers |-> {}]
    /\ pc = [p \in Workers |-> "idle"] /\ todo = [p \in Workers |-> {}]
    /\ cur = [p \in Workers |-> None] /\ latest = [p \in Workers |-> None]
    /\ dep = [p \in Workers |-> FALSE]
    /\ faults = 0

-----------------------------------------------------------------------------
(* The web application and the pointer mirror: the rows change. *)

RowsOf(k) == {v \in Versions : ver[v].inc = k /\ Live(v)}

\* Insert the next version row, for skill row k.
InsertRow(k, s, st) ==
    \E v \in Versions :
      /\ ver[v].status = "absent"
      /\ \A u \in Versions : u < v => ver[u].status # "absent"
      /\ ver' = [ver EXCEPT ![v] = [inc |-> k, semver |-> s, status |-> st,
                                    published |-> FALSE]]

\* An accepted hosted proposal or a direct publish: the first creates the skill
\* row, a later one must be strictly above every version the skill ever had.
MaterializeHosted(s) ==
    /\ \/ /\ skill = "none" /\ inc < MaxSkills
          /\ skill' = "active" /\ inc' = inc + 1 /\ deprecated' = FALSE
       \/ /\ skill # "none"
          /\ \A v \in RowsOf(inc) : ver[v].semver < s
          /\ UNCHANGED <<skill, inc, deprecated>>
    /\ InsertRow(inc', s, "active")
    /\ UNCHANGED <<object, gitVars, unhealable, sweepVars, faults>>

\* A mirrored pointer version: any semver the skill does not have yet, and
\* quarantined when its scan verdict is critical.
MirrorInserts(s, st) ==
    /\ skill # "none"
    /\ \A v \in RowsOf(inc) : ver[v].semver # s
    /\ InsertRow(inc, s, st)
    /\ UNCHANGED <<skill, inc, deprecated, object, gitVars, unhealable,
                   sweepVars, faults>>

\* Mutant of SetVersionYanked: restoring sets a status the table does not have.
SetVersionYankedUnknown(v, yanked) ==
    /\ Live(v)
    /\ ver' = [ver EXCEPT ![v].status = IF yanked THEN "yanked" ELSE "published"]
    /\ UNCHANGED <<skill, inc, deprecated, object, gitVars, unhealable,
                   sweepVars, faults>>

\* Yank or restore: the status is overwritten whatever it was.
SetVersionYanked(v, yanked) ==
    /\ Live(v)
    /\ ver' = [ver EXCEPT ![v].status = IF yanked THEN "yanked" ELSE "active"]
    /\ UNCHANGED <<skill, inc, deprecated, object, gitVars, unhealable,
                   sweepVars, faults>>

ReleaseQuarantined(v) ==
    /\ ver[v].status = "quarantined"
    /\ ver' = [ver EXCEPT ![v].status = "active"]
    /\ UNCHANGED <<skill, inc, deprecated, object, gitVars, unhealable,
                   sweepVars, faults>>

SetSkillArchived(archived) ==
    /\ skill # "none"
    /\ skill' = IF archived THEN "archived" ELSE "active"
    /\ UNCHANGED <<inc, deprecated, ver, object, gitVars, unhealable,
                   sweepVars, faults>>

\* Only an active skill can be deprecated; the marker survives archiving.
SetSkillDeprecation ==
    /\ skill = "active"
    /\ deprecated' = TRUE
    /\ UNCHANGED <<skill, inc, ver, object, gitVars, unhealable, sweepVars,
                   faults>>

ClearSkillDeprecation ==
    /\ skill # "none" /\ deprecated
    /\ deprecated' = FALSE
    /\ UNCHANGED <<skill, inc, ver, object, gitVars, unhealable, sweepVars,
                   faults>>

\* Permanent deletion: the rows go in one transaction, the repo stays on disk.
DeleteSkill ==
    /\ skill = "archived"
    /\ skill' = "none" /\ deprecated' = FALSE
    /\ ver' = [v \in Versions |-> IF ver[v].inc = inc /\ Live(v)
                                  THEN [ver[v] EXCEPT !.status = "deleted"]
                                  ELSE ver[v]]
    /\ UNCHANGED <<inc, object, gitVars, unhealable, sweepVars, faults>>

-----------------------------------------------------------------------------
(* The sweep of worker p.  Each step is the code between two awaits that    *)
(* touch shared state; Goto gives its control and local variables.          *)

Goto(p, l) == pc' = [pc EXCEPT ![p] = l]

\* The next row of the batch becomes the current one.
Take(p, v) == /\ cur' = [cur EXCEPT ![p] = v]
              /\ todo' = [todo EXCEPT ![p] = @ \ {v}]

SweepBegins(p) ==
    /\ pc[p] = "idle"
    /\ Goto(p, "pub")
    /\ todo' = [todo EXCEPT ![p] = FirstBatch(PendingRows)]
    /\ UNCHANGED <<dbVars, object, gitVars, unhealable, cur, latest, dep, faults>>

\* publishPendingVersions, per row: whether it is the latest of ALL active
\* versions, and the artifact, re-verified against the recorded hash.
PubRead(p) ==
    /\ pc[p] = "pub" /\ todo[p] # {}
    /\ LET v == Oldest(todo[p])
       IN  /\ Take(p, v)
           /\ latest' = [latest EXCEPT ![p] =
                            resolveLatest(SemversOf(ActiveOf(ver[v].inc)))]
           /\ Goto(p, IF object[v] = "intact" THEN "pubCheck" ELSE "pub")
    /\ UNCHANGED <<dbVars, object, gitVars, unhealable, dep, faults>>

\* Mutant of SynthCheck: the tag is written without looking for it.
SynthCheckBlind(p, write, exists) ==
    /\ repo' = TRUE
    /\ Goto(p, write)
    /\ UNCHANGED <<dbVars, object, tags, main, unhealable, todo, cur, latest,
                   dep, faults>>

\* synthesizeVersion, first half: create the repo if needed; an existing tag
\* throws "already exists".
SynthCheck(p, write, exists) ==
    /\ repo' = TRUE
    /\ Goto(p, IF tags[ver[cur[p]].semver] = None THEN write ELSE exists)
    /\ UNCHANGED <<dbVars, object, tags, main, unhealable, todo, cur, latest,
                   dep, faults>>

\* synthesizeVersion: write the tag.  A repo lost since throws.
SynthTag(p, next, skip) ==
    /\ tags' = IF repo THEN [tags EXCEPT ![ver[cur[p]].semver] = cur[p]] ELSE tags
    /\ Goto(p, IF repo THEN next ELSE skip)
    /\ UNCHANGED <<dbVars, object, repo, main, unhealable, todo, cur, latest,
                   dep, faults>>

\* synthesizeVersion: main follows when the version is the latest stable.
SynthMain(p, next, skip) ==
    /\ LET isLatestStable == latest[p] = ver[cur[p]].semver
       IN  /\ main' = IF isLatestStable /\ repo
                      THEN [base |-> cur[p], hint |-> FALSE] ELSE main
           /\ Goto(p, IF isLatestStable /\ ~repo THEN skip ELSE next)
    /\ UNCHANGED <<dbVars, object, repo, tags, unhealable, todo, cur, latest,
                   dep, faults>>

\* Mutant of PubCheck: a tag that exists is an error like any other, so the row
\* is retried.
PubCheckRetry(p) == pc[p] = "pubCheck" /\ SynthCheck(p, "pubTag", "pub")

PubCheck(p) == pc[p] = "pubCheck" /\ SynthCheck(p, "pubTag", "pubFlag")
PubTag(p)   == pc[p] = "pubTag" /\ SynthTag(p, "pubMain", "pub")
PubMain(p)  == pc[p] = "pubMain" /\ SynthMain(p, "pubDep", "pub")

\* Only the latest stable of a deprecated skill gets the hint commit on its main.
PubDep(p) ==
    /\ pc[p] = "pubDep"
    /\ LET v == cur[p]
           hinted == latest[p] = ver[v].semver /\ DeprecatedSkill(ver[v].inc)
       IN  /\ dep' = [dep EXCEPT ![p] = hinted]
           /\ Goto(p, IF hinted THEN "pubHint" ELSE "pubFlag")
    /\ UNCHANGED <<dbVars, object, gitVars, unhealable, todo, cur, latest, faults>>

\* The git half of ensureMain, from the latest and the deprecation state the
\* sweep read before.
Reconcile(p, from, next) ==
    /\ pc[p] = from
    /\ main' = EnsureMain(latest[p], dep[p])
    /\ Goto(p, next)
    /\ UNCHANGED <<dbVars, object, repo, tags, unhealable, todo, cur, latest,
                   dep, faults>>

PubHint(p) == Reconcile(p, "pubHint", "pubFlag")

\* update skill_versions set git_published = b where id = v
SetPublished(v, b) ==
    ver' = IF Live(v) THEN [ver EXCEPT ![v].published = b] ELSE ver

PubFlag(p) ==
    /\ pc[p] = "pubFlag"
    /\ SetPublished(cur[p], TRUE)
    /\ Goto(p, "pub")
    /\ UNCHANGED <<skill, inc, deprecated, object, gitVars, unhealable, todo,
                   cur, latest, dep, faults>>

\* reprovisionMissingRepos: the batch of published rows, and the latest stable
\* among the rows of that batch.
HealSelect(p) ==
    /\ pc[p] = "pub" /\ todo[p] = {}
    /\ LET rows == FirstBatch(HealRows)
       IN  /\ todo' = [todo EXCEPT ![p] = rows]
           /\ latest' = [latest EXCEPT ![p] = resolveLatest(SemversOf(rows))]
           /\ cur' = [cur EXCEPT ![p] = IF rows = {} THEN @ ELSE Oldest(rows)]
    /\ Goto(p, "healList")
    /\ UNCHANGED <<dbVars, object, gitVars, unhealable, dep, faults>>

\* Mutant of HealList: a repo with any ref at all is taken to be provisioned.
HealListAnyRef(p) ==
    /\ pc[p] = "healList"
    /\ todo' = [todo EXCEPT ![p] =
                  IF \E s \in Semvers : tags[s] # None THEN {} ELSE @]
    /\ Goto(p, "heal")
    /\ UNCHANGED <<dbVars, object, gitVars, unhealable, cur, latest, dep, faults>>

\* The versions whose tag is absent from the repo.
HealList(p) ==
    /\ pc[p] = "healList"
    /\ todo' = [todo EXCEPT ![p] = {v \in @ : tags[ver[v].semver] = None}]
    /\ Goto(p, "heal")
    /\ UNCHANGED <<dbVars, object, gitVars, unhealable, cur, latest, dep, faults>>

\* Tampered or missing artifacts are given up on until the worker restarts.
HealRead(p) ==
    /\ pc[p] = "heal" /\ todo[p] # {}
    /\ LET v == Oldest(todo[p])
       IN  /\ Take(p, v)
           /\ \/ /\ v \in unhealable[p]
                 /\ Goto(p, "heal") /\ UNCHANGED unhealable
              \/ /\ v \notin unhealable[p] /\ object[v] # "intact"
                 /\ unhealable' = [unhealable EXCEPT ![p] = @ \cup {v}]
                 /\ Goto(p, "heal")
              \/ /\ v \notin unhealable[p] /\ object[v] = "intact"
                 /\ Goto(p, "healCheck") /\ UNCHANGED unhealable
    /\ UNCHANGED <<dbVars, object, gitVars, latest, dep, faults>>

HealCheck(p) == pc[p] = "healCheck" /\ SynthCheck(p, "healTag", "heal")
HealTag(p)   == pc[p] = "healTag" /\ SynthTag(p, "healMain", "heal")
HealMain(p)  == pc[p] = "healMain" /\ SynthMain(p, "heal", "heal")

\* Main is repointed at the latest stable of the batch even when its tag was
\* already there.
HealDone(p) ==
    /\ pc[p] = "heal" /\ todo[p] = {}
    /\ dep' = [dep EXCEPT ![p] = latest[p] # None /\ DeprecatedSkill(ver[cur[p]].inc)]
    /\ Goto(p, IF latest[p] = None THEN "wdSelect" ELSE "healEnsure")
    /\ UNCHANGED <<dbVars, object, gitVars, unhealable, todo, cur, latest, faults>>

HealEnsure(p) == Reconcile(p, "healEnsure", "wdSelect")

\* withdrawYankedVersions.
WdSelect(p) ==
    /\ pc[p] = "wdSelect"
    /\ todo' = [todo EXCEPT ![p] = FirstBatch(YankedRows)]
    /\ Goto(p, "wd")
    /\ UNCHANGED <<dbVars, object, gitVars, unhealable, cur, latest, dep, faults>>

\* A row whose repo is missing is left for the next sweep.
WdTake(p) ==
    /\ pc[p] = "wd" /\ todo[p] # {}
    /\ Take(p, Oldest(todo[p]))
    /\ Goto(p, IF repo THEN "wdTag" ELSE "wd")
    /\ UNCHANGED <<dbVars, object, gitVars, unhealable, latest, dep, faults>>

WdTag(p) ==
    /\ pc[p] = "wdTag"
    /\ tags' = [tags EXCEPT ![ver[cur[p]].semver] = None]
    /\ Goto(p, "wdRead")
    /\ UNCHANGED <<dbVars, object, repo, main, unhealable, todo, cur, latest,
                   dep, faults>>

\* Main is to follow what remains: the latest of ALL active versions.
WdRead(p) ==
    /\ pc[p] = "wdRead"
    /\ LET k == ver[cur[p]].inc
       IN  /\ latest' = [latest EXCEPT ![p] = resolveLatest(SemversOf(ActiveOf(k)))]
           /\ dep' = [dep EXCEPT ![p] = DeprecatedSkill(k)]
    /\ Goto(p, "wdMain")
    /\ UNCHANGED <<dbVars, object, gitVars, unhealable, todo, cur, faults>>

WdMain(p) == Reconcile(p, "wdMain", "wdFlag")

WdFlag(p) ==
    /\ pc[p] = "wdFlag"
    /\ SetPublished(cur[p], FALSE)
    /\ Goto(p, "wd")
    /\ UNCHANGED <<skill, inc, deprecated, object, gitVars, unhealable, todo,
                   cur, latest, dep, faults>>

WdDone(p) ==
    /\ pc[p] = "wd" /\ todo[p] = {}
    /\ Goto(p, "sync")
    /\ UNCHANGED <<dbVars, object, gitVars, unhealable, todo, cur, latest, dep,
                   faults>>

\* syncDeprecationMains: every active skill with a served version, unlimited.
SyncRead(p) ==
    /\ pc[p] = "sync"
    /\ latest' = [latest EXCEPT ![p] = resolveLatest(SemversOf(HealRows))]
    /\ dep' = [dep EXCEPT ![p] = DeprecatedSkill(inc)]
    /\ Goto(p, IF HealRows = {} THEN "idle" ELSE "syncMain")
    /\ UNCHANGED <<dbVars, object, gitVars, unhealable, todo, cur, faults>>

SyncMain(p) == Reconcile(p, "syncMain", "idle")

SweepStep(p) ==
    \/ SweepBegins(p) \/ PubRead(p) \/ PubCheck(p) \/ PubTag(p) \/ PubMain(p)
    \/ PubDep(p) \/ PubHint(p) \/ PubFlag(p)
    \/ HealSelect(p) \/ HealList(p) \/ HealRead(p) \/ HealCheck(p) \/ HealTag(p)
    \/ HealMain(p) \/ HealDone(p) \/ HealEnsure(p)
    \/ WdSelect(p) \/ WdTake(p) \/ WdTag(p) \/ WdRead(p) \/ WdMain(p) \/ WdFlag(p)
    \/ WdDone(p) \/ SyncRead(p) \/ SyncMain(p)

-----------------------------------------------------------------------------
(* Faults. *)

Fault(kind) == /\ kind \in FaultKinds /\ faults < MaxFaults
               /\ faults' = faults + 1

\* The sweep ends here: the process dies and restarts, or a query throws out
\* of the sweep (then the in-memory set survives).
Crash(p) ==
    /\ Fault("crash") /\ pc[p] # "idle"
    /\ Goto(p, "idle")
    /\ \/ unhealable' = [unhealable EXCEPT ![p] = {}]
       \/ UNCHANGED unhealable
    /\ UNCHANGED <<dbVars, object, gitVars, todo, cur, latest, dep>>

\* Where the sweep goes on when a command of a step fails: publish and heal
\* skip the row, the reconciliation of main is logged and passed over.
OnGitError ==
    [pubCheck |-> "pub", pubTag |-> "pub", pubMain |-> "pub", pubDep |-> "pub",
     pubHint |-> "pub",
     healCheck |-> "heal", healTag |-> "heal", healMain |-> "heal",
     healEnsure |-> "wdSelect", wdMain |-> "wdFlag", syncMain |-> "idle"]

GitFails(p) ==
    /\ Fault("git") /\ pc[p] \in DOMAIN OnGitError
    /\ Goto(p, OnGitError[pc[p]])
    /\ UNCHANGED <<dbVars, object, gitVars, unhealable, todo, cur, latest, dep>>

\* The exit code of the command that deletes the tag is not looked at.
WithdrawFails(p) ==
    /\ Fault("withdraw") /\ pc[p] = "wdTag"
    /\ Goto(p, "wdRead")
    /\ UNCHANGED <<dbVars, object, gitVars, unhealable, todo, cur, latest, dep>>

\* The git volume is lost or recreated.
VolumeLost ==
    /\ Fault("volume") /\ repo
    /\ repo' = FALSE /\ tags' = [s \in Semvers |-> None] /\ main' = NoMain
    /\ UNCHANGED <<dbVars, object, unhealable, sweepVars>>

\* The stored bytes of a version are gone or no longer match its hash.
ObjectDamaged(v) ==
    /\ Fault("object") /\ Live(v) /\ object[v] = "intact"
    /\ object' = [object EXCEPT ![v] = "damaged"]
    /\ UNCHANGED <<dbVars, gitVars, unhealable, sweepVars>>

-----------------------------------------------------------------------------
WebStep ==
    \/ \E s \in Semvers : MaterializeHosted(s)
    \/ \E s \in Semvers, st \in {"active", "quarantined"} : MirrorInserts(s, st)
    \/ \E v \in Versions, y \in BOOLEAN : SetVersionYanked(v, y)
    \/ \E v \in Versions : ReleaseQuarantined(v)
    \/ \E a \in BOOLEAN : SetSkillArchived(a)
    \/ SetSkillDeprecation \/ ClearSkillDeprecation
    \/ DeleteSkill

FaultStep ==
    \/ \E p \in Workers : Crash(p) \/ GitFails(p) \/ WithdrawFails(p)
    \/ VolumeLost
    \/ \E v \in Versions : ObjectDamaged(v)

Next == WebStep \/ FaultStep \/ \E p \in Workers : SweepStep(p)

Spec == Init /\ [][Next]_vars

\* The sweep is on a timer and goes on until it ends, so it is always taken up
\* again; nothing makes an administrator or a fault act.
FairSpec == Spec /\ \A p \in Workers : WF_vars(SweepStep(p))

-----------------------------------------------------------------------------
(* Properties *)

TypeOK ==
    /\ skill \in SkillStatus /\ inc \in 0..MaxSkills /\ deprecated \in BOOLEAN
    /\ ver \in [Versions -> Row]
    /\ object \in [Versions -> {"intact", "damaged"}]
    /\ repo \in BOOLEAN /\ tags \in [Semvers -> 0..MaxVersions] /\ main \in Commit
    /\ unhealable \in [Workers -> SUBSET Versions]
    /\ pc \in [Workers -> Pcs] /\ todo \in [Workers -> SUBSET Versions]
    /\ cur \in [Workers -> 0..MaxVersions]
    /\ latest \in [Workers -> 0..MaxSemver] /\ dep \in [Workers -> BOOLEAN]
    /\ faults \in 0..MaxFaults

\* A tag names the version, or main is its commit or the hint on top of it.
Serves(v) == main.base = v \/ \E s \in Semvers : tags[s] = v

\* A quarantined version is never synthesized and never served: no tag and no
\* main ever names a version that was not released, whatever the sweeps read
\* before the administrators acted (publish.ts:88, mirror.ts, migration 0097).
QuarantinedNeverServed ==
    \A v \in Versions : Serves(v) => ver[v].status \in {"active", "yanked", "deleted"}

\* The default branch, what a clone without a tag gets, is never a prerelease.
MainIsStable ==
    main.base # None => ver[main.base].semver \notin Prerelease

\* Tag rewrite is forbidden: a tag may be created or deleted, never moved from
\* one version's commit to another's (synth.ts:159).
TagNeverMoves ==
    [][\A s \in Semvers : tags[s] # None /\ tags'[s] # None => tags'[s] = tags[s]]_vars

\* A published version's tag serves that version's bytes.
PublishedServesItsBytes ==
    \A v \in Versions :
        Live(v) /\ ver[v].published /\ tags[ver[v].semver] # None
            => tags[ver[v].semver] = v

\* A version that stays yanked eventually has no tag, for good.
YankWithdrawsTag ==
    \A v \in Versions :
        <>[](ver[v].status = "yanked") => <>[](\A s \in Semvers : tags[s] # v)

\* As long as nothing fails, a version that stays yanked eventually has no tag:
\* the withdrawal is lost to faults and to overlapping sweeps only.
YankWithdrawsTagUnlessFault ==
    \A v \in Versions :
        <>[](ver[v].status = "yanked" /\ faults = 0) => <>[](\A s \in Semvers : tags[s] # v)

\* The administrators leave the skill alone, the first of its slug: active, with
\* deprecation state d and with exactly the versions S yanked.
Settled(S, d) ==
    /\ inc = 1 /\ skill = "active" /\ deprecated = d
    /\ {v \in Versions : ver[v].status = "yanked"} = S

\* The refs the self-heal sweep is to establish: a tag per active version, and
\* main at the latest stable (with the hint when deprecated), or no main when
\* only prereleases are active.
FullRefSet(d) ==
    LET top == resolveLatest(SemversOf(ActiveOf(inc)))
    IN  /\ \A v \in ActiveOf(inc) : tags[ver[v].semver] = v
        /\ ActiveOf(inc) # {} =>
              main = IF top = None THEN NoMain ELSE [base |-> tags[top], hint |-> d]

\* Once the skill is left alone, every partial state of the repo converges to
\* the full ref set and stays there (publish.ts:230).
RefSetConverges ==
    \A S \in SUBSET Versions, d \in BOOLEAN :
        <>[](Settled(S, d) /\ \A v \in Versions : object[v] = "intact")
            => <>[]FullRefSet(d)

=============================================================================
