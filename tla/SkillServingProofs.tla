------------------------- MODULE SkillServingProofs -------------------------
(***************************************************************************)
(* What the serving pipeline guarantees for every number of versions,      *)
(* skills, semvers and concurrent sweeps, every batch size and every       *)
(* sequence of faults: no ref ever names a quarantined version, and main   *)
(* never sits on a prerelease.  While sweeps do not overlap, no tag is     *)
(* ever moved either.                                                      *)
(*                                                                         *)
(* None is inductive.  A sweep writes a ref from what it read earlier,     *)
(* so the invariant also speaks of what every sweep has in hand: the rows  *)
(* of its batch, its current row and the latest it computed.               *)
(***************************************************************************)
EXTENDS SkillServing, WellFoundedInduction, TLAPS

\* The version was released at some time: once it is, no operation takes it
\* back to quarantine or changes its semver.
Released(v) ==
    /\ v \in Versions
    /\ ver[v].semver \in Semvers
    /\ ver[v].status \in {"active", "yanked", "deleted"}

\* The positions of a sweep between taking a row and being done with it.
Holding == {"pubCheck", "pubTag", "pubMain", "pubDep", "pubHint", "pubFlag", "healCheck",
            "healTag", "healMain", "wdTag", "wdRead", "wdMain", "wdFlag"}

InsertedRows ==
    \A v \in Versions : ver[v].status # "absent" => ver[v].semver \in Semvers

TagsReleased ==
    \A s \in Semvers : tags[s] # None => /\ Released(tags[s])
                                         /\ ver[tags[s]].semver = s

MainReleased ==
    main.base # None => /\ Released(main.base)
                        /\ ver[main.base].semver \notin Prerelease

SweepsReleased ==
    \A p \in Workers : /\ \A v \in todo[p] : Released(v)
                       /\ pc[p] \in Holding => Released(cur[p])
                       /\ latest[p] # None => /\ latest[p] \in Semvers
                                              /\ latest[p] \notin Prerelease

IInv == TypeOK /\ InsertedRows /\ TagsReleased /\ MainReleased /\ SweepsReleased

-----------------------------------------------------------------------------
(* Lemmas about the operators *)

\* A nonempty set of naturals has a least element.
LEMMA LeastExists ==
  ASSUME NEW S \in SUBSET Nat, S # {}
  PROVE  \E v \in S : \A u \in S : v <= u
<1>1. PICK v \in S : \A u \in S : ~ (<<u, v>> \in OpToRel(<, Nat))
  BY NatLessThanWellFounded, WFMin
<1>2. \A u \in S : ~ (u < v)
  BY <1>1 DEF OpToRel
<1> QED
  BY <1>2

\* A nonempty set of naturals with an upper bound has a greatest element.
LEMMA GreatestExists ==
  ASSUME NEW N \in Nat, NEW S \in SUBSET (1..N), S # {}
  PROVE  \E s \in S : \A t \in S : t <= s
<1> DEFINE D == {d \in Nat : N - d \in S}
<1>1. \A s \in S : N - s \in D
  OBVIOUS
<1>2. D \in SUBSET Nat /\ D # {}
  BY <1>1
<1>3. PICK d \in D : \A e \in D : d <= e
  BY <1>2, LeastExists
<1>4. \A t \in S : d <= N - t
  BY <1>1, <1>3
<1>5. d \in Nat /\ N - d \in S
  OBVIOUS
<1>6. \A t \in S : t <= N - d
  BY <1>4, <1>5
<1> QED
  BY <1>5, <1>6

\* Oldest takes a member of a nonempty batch.
LEMMA OldestMember ==
  ASSUME NEW S \in SUBSET Versions, S # {}
  PROVE  Oldest(S) \in S
<1>1. \E v \in S : \A u \in S : v <= u
  BY LeastExists DEF Versions
<1> QED
  BY <1>1 DEF Oldest

\* resolveLatest returns null or a stable member of its argument.
LEMMA ResolveLatestStable ==
  ASSUME NEW S \in SUBSET Semvers
  PROVE  \/ resolveLatest(S) = None
         \/ resolveLatest(S) \in S /\ resolveLatest(S) \notin Prerelease
<1>1. CASE S \ Prerelease = {}
  BY <1>1 DEF resolveLatest
<1>2. CASE S \ Prerelease # {}
  <2>1. \E s \in S \ Prerelease : \A t \in S \ Prerelease : t <= s
    BY <1>2, GreatestExists, BoundsAssumption DEF Semvers
  <2> QED
    BY <1>2, <2>1 DEF resolveLatest
<1> QED
  BY <1>1, <1>2

\* A batch is part of what its query found.
LEMMA FirstBatchSubset == \A S : FirstBatch(S) \subseteq S
BY DEF FirstBatch

\* The latest of a set of inserted rows is null or a stable semver.
LEMMA LatestOfRows ==
  ASSUME IInv, NEW R \in SUBSET Versions, \A v \in R : ver[v].status # "absent"
  PROVE  /\ resolveLatest(SemversOf(R)) \in 0..MaxSemver
         /\ resolveLatest(SemversOf(R)) # None =>
               /\ resolveLatest(SemversOf(R)) \in Semvers
               /\ resolveLatest(SemversOf(R)) \notin Prerelease
<1>1. SemversOf(R) \in SUBSET Semvers
  BY DEF SemversOf, IInv, InsertedRows
<1> QED
  BY <1>1, ResolveLatestStable, BoundsAssumption DEF Semvers, None

\* What ensureMain leaves in main is released and stable, given a stable latest.
LEMMA EnsureMainReleased ==
  ASSUME IInv, NEW s \in 0..MaxSemver, NEW d \in BOOLEAN,
         s # None => s \in Semvers /\ s \notin Prerelease
  PROVE  /\ EnsureMain(s, d) \in Commit
         /\ EnsureMain(s, d).base # None =>
               /\ Released(EnsureMain(s, d).base)
               /\ ver[EnsureMain(s, d).base].semver \notin Prerelease
<1> USE DEF IInv, TypeOK, Commit, NoMain, None
<1>1. CASE ~repo
  BY <1>1 DEF EnsureMain, MainReleased
<1>2. CASE repo /\ s = None
  BY <1>2, BoundsAssumption DEF EnsureMain
<1>3. CASE repo /\ s # None /\ tags[s] = None
  BY <1>3 DEF EnsureMain, MainReleased
<1>4. CASE repo /\ s # None /\ tags[s] # None
  <2>1. EnsureMain(s, d) = [base |-> tags[s], hint |-> d]
    BY <1>4 DEF EnsureMain
  <2>2. s \in Semvers /\ s \notin Prerelease /\ tags[s] \in 0..MaxVersions
    BY <1>4
  <2>3. Released(tags[s]) /\ ver[tags[s]].semver = s
    BY <1>4, <2>2 DEF TagsReleased
  <2> QED
    BY <2>1, <2>2, <2>3
<1> QED
  BY <1>1, <1>2, <1>3, <1>4

-----------------------------------------------------------------------------
(* Preservation.  Every step leaves released versions released with the same *)
(* semver; what each step then has to show is only about what it writes.     *)

StillReleased ==
    \A v \in Versions : Released(v) => Released(v)' /\ ver'[v].semver = ver[v].semver

\* Steps that leave the refs and the sweeps alone.
LEMMA RefsFrame ==
  ASSUME IInv, StillReleased, UNCHANGED <<tags, main, pc, todo, cur, latest>>
  PROVE  TagsReleased' /\ MainReleased' /\ SweepsReleased'
<1>1. TagsReleased'
  BY DEF IInv, TagsReleased, StillReleased, Released
<1>2. MainReleased'
  BY DEF IInv, MainReleased, StillReleased, Released
<1>3. SweepsReleased'
  BY DEF IInv, SweepsReleased, StillReleased, Released
<1> QED
  BY <1>1, <1>2, <1>3

\* Inserting a row touches only a row that was absent.
LEMMA InsertRowEffect ==
  ASSUME IInv, NEW k \in 0..MaxSkills, NEW s \in Semvers,
         NEW st \in {"active", "quarantined"}, InsertRow(k, s, st)
  PROVE  ver' \in [Versions -> Row] /\ InsertedRows' /\ StillReleased
<1>1. PICK v \in Versions :
        /\ ver[v].status = "absent"
        /\ ver' = [ver EXCEPT ![v] = [inc |-> k, semver |-> s, status |-> st,
                                      published |-> FALSE]]
  BY DEF InsertRow
<1>2. ver' \in [Versions -> Row]
  BY <1>1 DEF IInv, TypeOK, Row, VersionStatus, Semvers
<1>3. InsertedRows'
  BY <1>1 DEF IInv, TypeOK, InsertedRows, Row
<1>4. StillReleased
  BY <1>1 DEF IInv, TypeOK, StillReleased, Released
<1> QED
  BY <1>2, <1>3, <1>4

\* The operations of the web application and the mirror write rows only, and
\* keep released versions released with the same semver.
LEMMA WebStepEffect ==
  ASSUME IInv, WebStep
  PROVE  /\ TypeOK' /\ InsertedRows' /\ StillReleased
         /\ UNCHANGED <<tags, main, pc, todo, cur, latest>>
<1> USE DEF dbVars, gitVars, sweepVars
<1>1. ASSUME NEW s \in Semvers, MaterializeHosted(s)
      PROVE  /\ TypeOK' /\ InsertedRows' /\ StillReleased
             /\ UNCHANGED <<tags, main, pc, todo, cur, latest>>
  <2>1. inc' \in 0..MaxSkills
    <3>1. inc \in 0..MaxSkills /\ (inc' = inc \/ (inc < MaxSkills /\ inc' = inc + 1))
      BY <1>1 DEF MaterializeHosted, IInv, TypeOK
    <3> QED
      BY <3>1, BoundsAssumption
  <2>4. skill' \in SkillStatus /\ deprecated' \in BOOLEAN
    BY <1>1 DEF MaterializeHosted, IInv, TypeOK, SkillStatus
  <2>2. InsertRow(inc', s, "active")
    BY <1>1 DEF MaterializeHosted
  <2>3. ver' \in [Versions -> Row] /\ InsertedRows' /\ StillReleased
    BY <2>1, <2>2, InsertRowEffect
  <2> QED
    BY <1>1, <2>1, <2>3, <2>4 DEF MaterializeHosted, IInv, TypeOK
<1>2. ASSUME NEW s \in Semvers, NEW st \in {"active", "quarantined"}, MirrorInserts(s, st)
      PROVE  /\ TypeOK' /\ InsertedRows' /\ StillReleased
             /\ UNCHANGED <<tags, main, pc, todo, cur, latest>>
  <2>1. ver' \in [Versions -> Row] /\ InsertedRows' /\ StillReleased
    BY <1>2, InsertRowEffect DEF MirrorInserts, IInv, TypeOK
  <2> QED
    BY <1>2, <2>1 DEF MirrorInserts, IInv, TypeOK
<1>3. ASSUME NEW v \in Versions, NEW y \in BOOLEAN, SetVersionYanked(v, y)
      PROVE  /\ TypeOK' /\ InsertedRows' /\ StillReleased
             /\ UNCHANGED <<tags, main, pc, todo, cur, latest>>
  <2>1. TypeOK'
    BY <1>3 DEF SetVersionYanked, IInv, TypeOK, Row, VersionStatus
  <2>2. InsertedRows' /\ StillReleased
    BY <1>3 DEF SetVersionYanked, Live, IInv, TypeOK, InsertedRows, StillReleased,
                Released, Row
  <2> QED
    BY <1>3, <2>1, <2>2 DEF SetVersionYanked
<1>4. ASSUME NEW v \in Versions, ReleaseQuarantined(v)
      PROVE  /\ TypeOK' /\ InsertedRows' /\ StillReleased
             /\ UNCHANGED <<tags, main, pc, todo, cur, latest>>
  <2>1. TypeOK'
    BY <1>4 DEF ReleaseQuarantined, IInv, TypeOK, Row, VersionStatus
  <2>2. InsertedRows' /\ StillReleased
    BY <1>4 DEF ReleaseQuarantined, IInv, TypeOK, InsertedRows, StillReleased,
                Released, Row
  <2> QED
    BY <1>4, <2>1, <2>2 DEF ReleaseQuarantined
<1>5. CASE \/ \E a \in BOOLEAN : SetSkillArchived(a)
           \/ SetSkillDeprecation \/ ClearSkillDeprecation
  <2>1. TypeOK'
    BY <1>5 DEF SetSkillArchived, SetSkillDeprecation, ClearSkillDeprecation,
                IInv, TypeOK, SkillStatus
  <2>2. InsertedRows' /\ StillReleased
    BY <1>5 DEF SetSkillArchived, SetSkillDeprecation, ClearSkillDeprecation,
                IInv, InsertedRows, StillReleased, Released
  <2> QED
    BY <1>5, <2>1, <2>2
       DEF SetSkillArchived, SetSkillDeprecation, ClearSkillDeprecation
<1>6. CASE DeleteSkill
  <2> DEFINE After(v) == IF ver[v].inc = inc /\ Live(v)
                         THEN [ver[v] EXCEPT !.status = "deleted"] ELSE ver[v]
  <2>1. TypeOK'
    <3>1. \A v \in Versions : After(v) \in Row
      BY DEF IInv, TypeOK, Row, VersionStatus
    <3>2. ver' = [v \in Versions |-> After(v)]
      BY <1>6 DEF DeleteSkill
    <3> HIDE DEF After
    <3>3. ver' \in [Versions -> Row]
      BY <3>1, <3>2
    <3> QED
      BY <1>6, <3>3 DEF DeleteSkill, IInv, TypeOK, SkillStatus
  <2>2. InsertedRows' /\ StillReleased
    BY <1>6 DEF DeleteSkill, Live, IInv, TypeOK, InsertedRows, StillReleased,
                Released, Row
  <2> QED
    BY <1>6, <2>1, <2>2 DEF DeleteSkill
<1> QED
  BY <1>1, <1>2, <1>3, <1>4, <1>5, <1>6 DEF WebStep

\* So they preserve the invariant.
LEMMA WebStepIInv == IInv /\ WebStep => IInv'
BY WebStepEffect, RefsFrame DEF IInv

\* Steps of sweep p: the other sweeps keep what they hold, so only what p
\* writes has to be shown released.
LEMMA SweepFrame ==
  ASSUME IInv, TypeOK', InsertedRows', StillReleased, NEW p \in Workers,
         TagsReleased', MainReleased',
         \A q \in Workers \ {p} : /\ pc'[q] = pc[q] /\ todo'[q] = todo[q]
                                   /\ cur'[q] = cur[q] /\ latest'[q] = latest[q],
         \A v \in todo'[p] : Released(v)',
         pc'[p] \in Holding => Released(cur[p])',
         latest'[p] # None => latest'[p] \in Semvers /\ latest'[p] \notin Prerelease
  PROVE  IInv'
<1>1. SweepsReleased'
  <2> SUFFICES ASSUME NEW q \in Workers, q # p
               PROVE  /\ \A v \in todo'[q] : Released(v)'
                      /\ pc'[q] \in Holding => Released(cur[q])'
                      /\ latest'[q] # None => /\ latest'[q] \in Semvers
                                              /\ latest'[q] \notin Prerelease
    BY DEF SweepsReleased
  <2> QED
    BY DEF IInv, SweepsReleased, StillReleased, Released
<1> QED
  BY <1>1 DEF IInv

\* The query steps: no ref and no row changes, p gets a batch or a row of its
\* batch, and a latest computed from inserted rows.
LEMMA ReadStepIInv ==
  ASSUME IInv, NEW p \in Workers,
         \/ SweepBegins(p) \/ PubRead(p) \/ HealSelect(p) \/ HealList(p)
         \/ HealRead(p) \/ HealDone(p) \/ PubDep(p) \/ WdSelect(p) \/ WdTake(p) \/ WdRead(p)
         \/ WdDone(p) \/ SyncRead(p)
  PROVE  IInv'
<1> USE DEF dbVars, gitVars, sweepVars, Goto, Take
<1> DEFINE Quiet == UNCHANGED <<skill, inc, deprecated, ver, object, repo, tags,
                                main, faults>>
<1>a. ASSUME Quiet, TypeOK',
             \A q \in Workers \ {p} : /\ pc'[q] = pc[q] /\ todo'[q] = todo[q]
                                       /\ cur'[q] = cur[q] /\ latest'[q] = latest[q],
             \A v \in todo'[p] : Released(v),
             pc'[p] \in Holding => Released(cur'[p]),
             latest'[p] # None => latest'[p] \in Semvers /\ latest'[p] \notin Prerelease
      PROVE  IInv'
  <2>1. InsertedRows' /\ TagsReleased' /\ MainReleased' /\ StillReleased
    BY <1>a DEF IInv, InsertedRows, TagsReleased, MainReleased, StillReleased, Released
  <2>2. \A v \in todo'[p] : Released(v)'
    BY <1>a DEF Released
  <2>3. pc'[p] \in Holding => Released(cur[p])'
    BY <1>a DEF Released
  <2> QED
    BY <1>a, <2>1, <2>2, <2>3, SweepFrame
<1>b. /\ todo[p] \in SUBSET Versions /\ (\A v \in todo[p] : Released(v))
      /\ pc[p] \in Holding => Released(cur[p])
      /\ latest[p] # None => latest[p] \in Semvers /\ latest[p] \notin Prerelease
  BY DEF IInv, TypeOK, SweepsReleased
<1>c. ASSUME NEW S \in SUBSET Versions, \A v \in S : ver[v].status \in {"active", "yanked"}
      PROVE  /\ FirstBatch(S) \in SUBSET Versions
             /\ \A v \in FirstBatch(S) : Released(v)
  BY <1>c, FirstBatchSubset DEF IInv, InsertedRows, Released
<1>d. \A k : /\ ActiveOf(k) \in SUBSET Versions
             /\ \A v \in ActiveOf(k) : ver[v].status = "active"
  BY DEF ActiveOf
<1>e. /\ HealRows \in SUBSET Versions
      /\ \A v \in HealRows : ver[v].status = "active"
  BY DEF HealRows
<1>1. CASE SweepBegins(p)
  <2>1. /\ FirstBatch(PendingRows) \in SUBSET Versions
        /\ \A v \in FirstBatch(PendingRows) : Released(v)
    BY <1>c DEF PendingRows
  <2>2. TypeOK'
    BY <1>1, <2>1 DEF SweepBegins, IInv, TypeOK, Pcs
  <2> QED
    BY <1>1, <1>a, <1>b, <2>1, <2>2 DEF SweepBegins, IInv, TypeOK, Holding
<1>2. CASE PubRead(p)
  <2> DEFINE v == Oldest(todo[p])
             top == resolveLatest(SemversOf(ActiveOf(ver[v].inc)))
  <2>1. v \in todo[p] /\ v \in Versions /\ Released(v)
    BY <1>2, <1>b, OldestMember DEF PubRead
  <2>2. /\ top \in 0..MaxSemver
        /\ top # None => top \in Semvers /\ top \notin Prerelease
    BY <1>d, LatestOfRows
  <2>3. TypeOK'
    BY <1>2, <1>b, <2>1, <2>2 DEF PubRead, IInv, TypeOK, Pcs, Versions
  <2> QED
    BY <1>2, <1>a, <1>b, <2>1, <2>2, <2>3 DEF PubRead, IInv, TypeOK, Holding
<1>3. CASE HealSelect(p)
  <2> DEFINE rows == FirstBatch(HealRows)
             top == resolveLatest(SemversOf(rows))
  <2>1. rows \in SUBSET Versions /\ (\A v \in rows : Released(v) /\ ver[v].status = "active")
    BY <1>c, <1>e, FirstBatchSubset
  <2>2. /\ top \in 0..MaxSemver
        /\ top # None => top \in Semvers /\ top \notin Prerelease
    BY <2>1, LatestOfRows
  <2>3. rows # {} => Oldest(rows) \in Versions
    BY <2>1, OldestMember
  <2>4. TypeOK'
    BY <1>3, <2>1, <2>2, <2>3 DEF HealSelect, IInv, TypeOK, Pcs, Versions
  <2> QED
    BY <1>3, <1>a, <2>1, <2>2, <2>4 DEF HealSelect, IInv, TypeOK, Holding
<1>4. CASE HealList(p)
  <2>1. TypeOK'
    BY <1>4, <1>b DEF HealList, IInv, TypeOK, Pcs
  <2> QED
    BY <1>4, <1>a, <1>b, <2>1 DEF HealList, IInv, TypeOK, Holding
<1>5. CASE HealRead(p)
  <2>1. Oldest(todo[p]) \in todo[p] /\ Oldest(todo[p]) \in Versions
    BY <1>5, <1>b, OldestMember DEF HealRead
  <2>3. PICK l \in {"heal", "healCheck"}, U \in SUBSET Versions :
          /\ pc' = [pc EXCEPT ![p] = l]
          /\ unhealable' = [unhealable EXCEPT ![p] = U]
    <3>1. unhealable \in [Workers -> SUBSET Versions]
      BY DEF IInv, TypeOK
    <3>2. unhealable = [unhealable EXCEPT ![p] = unhealable[p]]
      BY <3>1
    <3> QED
      BY <1>5, <2>1, <3>1, <3>2 DEF HealRead
  <2>4. /\ cur' = [cur EXCEPT ![p] = Oldest(todo[p])]
        /\ todo' = [todo EXCEPT ![p] = @ \ {Oldest(todo[p])}]
        /\ UNCHANGED <<skill, inc, deprecated, ver, object, repo, tags, main,
                       latest, dep, faults>>
    BY <1>5 DEF HealRead
  <2>2. TypeOK'
    BY <1>b, <2>1, <2>3, <2>4 DEF IInv, TypeOK, Pcs, Versions
  <2> QED
    BY <1>5, <1>a, <1>b, <2>1, <2>2 DEF HealRead, IInv, TypeOK, Holding
<1>6. CASE HealDone(p)
  <2> DEFINE b == latest[p] # None /\ DeprecatedSkill(ver[cur[p]].inc)
  <2>1. b \in BOOLEAN
    OBVIOUS
  <2>2. /\ dep' = [dep EXCEPT ![p] = b]
        /\ pc' = [pc EXCEPT ![p] = IF latest[p] = None THEN "wdSelect" ELSE "healEnsure"]
        /\ UNCHANGED <<skill, inc, deprecated, ver, object, repo, tags, main,
                       unhealable, todo, cur, latest, faults>>
    BY <1>6 DEF HealDone
  <2> HIDE DEF b
  <2>3. TypeOK'
    BY <2>1, <2>2 DEF IInv, TypeOK, Pcs
  <2> QED
    BY <1>6, <1>a, <1>b, <2>3 DEF HealDone, IInv, TypeOK, Holding
<1>7. CASE WdSelect(p)
  <2>1. /\ FirstBatch(YankedRows) \in SUBSET Versions
        /\ \A v \in FirstBatch(YankedRows) : Released(v)
    BY <1>c DEF YankedRows
  <2>2. TypeOK'
    BY <1>7, <2>1 DEF WdSelect, IInv, TypeOK, Pcs
  <2> QED
    BY <1>7, <1>a, <1>b, <2>1, <2>2 DEF WdSelect, IInv, TypeOK, Holding
<1>8. CASE WdTake(p)
  <2>1. Oldest(todo[p]) \in todo[p] /\ Oldest(todo[p]) \in Versions
    BY <1>8, <1>b, OldestMember DEF WdTake
  <2>2. TypeOK'
    BY <1>8, <1>b, <2>1 DEF WdTake, IInv, TypeOK, Pcs, Versions
  <2> QED
    BY <1>8, <1>a, <1>b, <2>1, <2>2 DEF WdTake, IInv, TypeOK, Holding
<1>9. CASE WdRead(p)
  <2> DEFINE k == ver[cur[p]].inc
             top == resolveLatest(SemversOf(ActiveOf(k)))
  <2>1. /\ top \in 0..MaxSemver
        /\ top # None => top \in Semvers /\ top \notin Prerelease
    BY <1>d, LatestOfRows
  <2>2. DeprecatedSkill(k) \in BOOLEAN
    BY DEF DeprecatedSkill
  <2>3. TypeOK'
    BY <1>9, <2>1, <2>2 DEF WdRead, IInv, TypeOK, Pcs
  <2> QED
    BY <1>9, <1>a, <1>b, <2>1, <2>3 DEF WdRead, IInv, TypeOK, Holding
<1>10. CASE WdDone(p)
  <2>1. TypeOK'
    BY <1>10 DEF WdDone, IInv, TypeOK, Pcs
  <2> QED
    BY <1>10, <1>a, <1>b, <2>1 DEF WdDone, IInv, TypeOK, Holding
<1>11. CASE SyncRead(p)
  <2> DEFINE top == resolveLatest(SemversOf(HealRows))
  <2>1. /\ top \in 0..MaxSemver
        /\ top # None => top \in Semvers /\ top \notin Prerelease
    BY <1>e, LatestOfRows
  <2>2. DeprecatedSkill(inc) \in BOOLEAN
    BY DEF DeprecatedSkill
  <2>3. TypeOK'
    BY <1>11, <2>1, <2>2 DEF SyncRead, IInv, TypeOK, Pcs
  <2> QED
    BY <1>11, <1>a, <1>b, <2>1, <2>3 DEF SyncRead, IInv, TypeOK, Holding
<1>12. CASE PubDep(p)
  <2> DEFINE b == latest[p] = ver[cur[p]].semver /\ DeprecatedSkill(ver[cur[p]].inc)
  <2>1. b \in BOOLEAN
    OBVIOUS
  <2>2. /\ dep' = [dep EXCEPT ![p] = b]
        /\ pc' = [pc EXCEPT ![p] = IF b THEN "pubHint" ELSE "pubFlag"]
        /\ UNCHANGED <<skill, inc, deprecated, ver, object, repo, tags, main,
                       unhealable, todo, cur, latest, faults>>
    BY <1>12 DEF PubDep
  <2> HIDE DEF b
  <2>3. TypeOK'
    BY <2>1, <2>2 DEF IInv, TypeOK, Pcs
  <2>4. pc[p] \in Holding
    BY <1>12 DEF PubDep, Holding
  <2> QED
    BY <2>2, <2>4, <1>a, <1>b, <2>3 DEF IInv, TypeOK, Holding
<1> QED
  BY <1>1, <1>2, <1>3, <1>4, <1>5, <1>6, <1>7, <1>8, <1>9, <1>10, <1>11, <1>12

\* The steps that write a ref.
LEMMA GitStepIInv ==
  ASSUME IInv, NEW p \in Workers,
         \/ PubCheck(p) \/ PubTag(p) \/ PubMain(p) \/ PubHint(p)
         \/ HealCheck(p) \/ HealTag(p) \/ HealMain(p) \/ HealEnsure(p)
         \/ WdTag(p) \/ WdMain(p) \/ SyncMain(p)
  PROVE  IInv'
<1> USE DEF dbVars, gitVars, sweepVars, Goto
<1> DEFINE Quiet == UNCHANGED <<skill, inc, deprecated, ver, object, unhealable,
                                todo, cur, latest, dep, faults>>
<1>a. ASSUME Quiet, NEW l \in Pcs, pc' = [pc EXCEPT ![p] = l],
             l \in Holding => pc[p] \in Holding,
             repo' \in BOOLEAN, tags' \in [Semvers -> 0..MaxVersions], main' \in Commit,
             \A s \in Semvers : tags'[s] # None =>
                 Released(tags'[s]) /\ ver[tags'[s]].semver = s,
             main'.base # None =>
                 Released(main'.base) /\ ver[main'.base].semver \notin Prerelease
      PROVE  IInv'
  <2>1. TypeOK'
    BY <1>a DEF IInv, TypeOK
  <2>2. InsertedRows' /\ StillReleased
    BY <1>a DEF IInv, InsertedRows, StillReleased, Released
  <2>3. TagsReleased' /\ MainReleased'
    BY <1>a DEF TagsReleased, MainReleased, Released
  <2>4. \A v \in todo'[p] : Released(v)'
    BY <1>a DEF IInv, SweepsReleased, Released
  <2>5. pc'[p] \in Holding => Released(cur[p])'
    BY <1>a DEF IInv, TypeOK, SweepsReleased, Released
  <2>6. latest'[p] # None => latest'[p] \in Semvers /\ latest'[p] \notin Prerelease
    BY <1>a DEF IInv, SweepsReleased
  <2>7. \A q \in Workers \ {p} : /\ pc'[q] = pc[q] /\ todo'[q] = todo[q]
                                  /\ cur'[q] = cur[q] /\ latest'[q] = latest[q]
    BY <1>a DEF IInv, TypeOK
  <2> QED
    BY <2>1, <2>2, <2>3, <2>4, <2>5, <2>6, <2>7, SweepFrame
<1>b. /\ pc[p] \in Holding => Released(cur[p])
      /\ latest[p] \in 0..MaxSemver
      /\ latest[p] # None => latest[p] \in Semvers /\ latest[p] \notin Prerelease
      /\ dep[p] \in BOOLEAN /\ pc[p] \in Pcs
  BY DEF IInv, TypeOK, SweepsReleased
<1>c. /\ repo \in BOOLEAN /\ tags \in [Semvers -> 0..MaxVersions] /\ main \in Commit
      /\ \A s \in Semvers : tags[s] # None => Released(tags[s]) /\ ver[tags[s]].semver = s
      /\ main.base # None => Released(main.base) /\ ver[main.base].semver \notin Prerelease
  BY DEF IInv, TypeOK, TagsReleased, MainReleased
<1>1. CASE PubCheck(p) \/ HealCheck(p)
  <2>1. PICK l \in {"pubTag", "pubFlag", "healTag", "heal"} :
          /\ pc' = [pc EXCEPT ![p] = l] /\ pc[p] \in Holding
          /\ repo' = TRUE /\ UNCHANGED <<tags, main>> /\ Quiet
    BY <1>1 DEF PubCheck, HealCheck, SynthCheck, Holding
  <2>2. l \in Pcs
    BY DEF Pcs
  <2> QED
    BY <2>1, <2>2, <1>a, <1>c
<1>2. CASE PubTag(p) \/ HealTag(p)
  <2>1. PICK l \in {"pubMain", "pub", "healMain", "heal"} :
          /\ pc' = [pc EXCEPT ![p] = l] /\ pc[p] \in Holding
          /\ tags' = tags \/ tags' = [tags EXCEPT ![ver[cur[p]].semver] = cur[p]]
          /\ UNCHANGED <<repo, main>> /\ Quiet
    BY <1>2 DEF PubTag, HealTag, SynthTag, Holding
  <2>2. l \in Pcs
    BY DEF Pcs
  <2>3. Released(cur[p])
    BY <2>1, <1>b
  <2>4. /\ tags' \in [Semvers -> 0..MaxVersions]
        /\ \A s \in Semvers : tags'[s] # None =>
              Released(tags'[s]) /\ ver[tags'[s]].semver = s
    BY <2>1, <2>3, <1>c DEF Released, Versions
  <2> QED
    BY <2>1, <2>2, <2>4, <1>a, <1>c
<1>3. CASE PubMain(p) \/ HealMain(p)
  <2>1. PICK l \in {"pubDep", "pub", "heal"} :
          /\ pc' = [pc EXCEPT ![p] = l] /\ pc[p] \in Holding
          /\ \/ main' = main
             \/ /\ latest[p] = ver[cur[p]].semver
                /\ main' = [base |-> cur[p], hint |-> FALSE]
          /\ UNCHANGED <<repo, tags>> /\ Quiet
    BY <1>3 DEF PubMain, HealMain, SynthMain, Holding
  <2>2. l \in Pcs
    BY DEF Pcs
  <2>3. Released(cur[p])
    BY <2>1, <1>b
  <2>4. /\ main' \in Commit
        /\ main'.base # None => Released(main'.base) /\ ver[main'.base].semver \notin Prerelease
    <3>1. CASE main' = main
      BY <3>1, <1>c
    <3>2. CASE latest[p] = ver[cur[p]].semver /\ main' = [base |-> cur[p], hint |-> FALSE]
      <4>1. cur[p] \in 0..MaxVersions /\ ver[cur[p]].semver \notin Prerelease
        BY <2>3, <3>2, <1>b DEF Released, Versions, Semvers, None
      <4> QED
        BY <2>3, <3>2, <4>1 DEF Commit
    <3> QED
      BY <2>1, <3>1, <3>2
  <2> QED
    BY <2>1, <2>2, <2>4, <1>a, <1>c
<1>4. CASE PubHint(p) \/ HealEnsure(p) \/ WdMain(p) \/ SyncMain(p)
  <2>1. PICK l \in {"pubFlag", "wdSelect", "wdFlag", "idle"} :
          /\ pc' = [pc EXCEPT ![p] = l] /\ (l \in Holding => pc[p] \in Holding)
          /\ main' = EnsureMain(latest[p], dep[p])
          /\ UNCHANGED <<repo, tags>> /\ Quiet
    BY <1>4 DEF PubHint, HealEnsure, WdMain, SyncMain, Reconcile, Holding
  <2>2. l \in Pcs
    BY DEF Pcs
  <2>3. /\ main' \in Commit
        /\ main'.base # None => Released(main'.base) /\ ver[main'.base].semver \notin Prerelease
    BY <2>1, <1>b, EnsureMainReleased
  <2> QED
    BY <2>1, <2>2, <2>3, <1>a, <1>c
<1>5. CASE WdTag(p)
  <2>1. /\ pc' = [pc EXCEPT ![p] = "wdRead"] /\ pc[p] \in Holding
        /\ tags' = [tags EXCEPT ![ver[cur[p]].semver] = None]
        /\ UNCHANGED <<repo, main>> /\ Quiet
    BY <1>5 DEF WdTag, Holding
  <2>2. None \in 0..MaxVersions
    BY BoundsAssumption DEF None
  <2>3. tags' \in [Semvers -> 0..MaxVersions]
    BY <2>1, <2>2, <1>c
  <2>4. \A s \in Semvers : tags'[s] = None \/ tags'[s] = tags[s]
    BY <2>1, <1>c
  <2>5. \A s \in Semvers : tags'[s] # None =>
              Released(tags'[s]) /\ ver[tags'[s]].semver = s
    BY <2>4, <1>c
  <2> QED
    BY <2>1, <2>3, <2>5, <1>a, <1>c DEF Pcs
<1> QED
  BY <1>1, <1>2, <1>3, <1>4, <1>5

\* The steps that set the flag: git_published is not what the invariant is about.
LEMMA FlagStepIInv ==
  ASSUME IInv, NEW p \in Workers, PubFlag(p) \/ WdFlag(p)
  PROVE  IInv'
<1> USE DEF gitVars, Goto
<1>1. PICK l \in {"pub", "wd"}, b \in BOOLEAN :
        /\ pc' = [pc EXCEPT ![p] = l] /\ SetPublished(cur[p], b)
        /\ Released(cur[p])
        /\ UNCHANGED <<skill, inc, deprecated, object, repo, tags, main, unhealable,
                       todo, cur, latest, dep, faults>>
  BY DEF PubFlag, WdFlag, IInv, SweepsReleased, Holding
<1>2. ver' \in [Versions -> Row]
  BY <1>1 DEF SetPublished, IInv, TypeOK, Row, Released
<1>3. \A v \in Versions : ver'[v].semver = ver[v].semver /\ ver'[v].status = ver[v].status
  BY <1>1 DEF SetPublished, IInv, TypeOK, Row, Released
<1>4. TypeOK'
  BY <1>1, <1>2 DEF IInv, TypeOK, Pcs
<1>5. InsertedRows' /\ StillReleased
  BY <1>3 DEF IInv, InsertedRows, StillReleased, Released
<1>6. TagsReleased' /\ MainReleased'
  BY <1>1, <1>3, <1>5 DEF IInv, TagsReleased, MainReleased, StillReleased, Released
<1>7. pc'[p] \notin Holding
  BY <1>1 DEF IInv, TypeOK, Holding
<1>8. \A v \in todo'[p] : Released(v)'
  BY <1>1, <1>5 DEF IInv, SweepsReleased, StillReleased, Released
<1>9. latest'[p] # None => latest'[p] \in Semvers /\ latest'[p] \notin Prerelease
  BY <1>1 DEF IInv, SweepsReleased
<1>10. \A q \in Workers \ {p} : /\ pc'[q] = pc[q] /\ todo'[q] = todo[q]
                                 /\ cur'[q] = cur[q] /\ latest'[q] = latest[q]
  BY <1>1 DEF IInv, TypeOK
<1> QED
  BY <1>4, <1>5, <1>6, <1>7, <1>8, <1>9, <1>10, SweepFrame

\* Faults lose refs and control, never make a ref or a released row.
LEMMA FaultStepIInv == IInv /\ FaultStep => IInv'
<1> SUFFICES ASSUME IInv, FaultStep PROVE IInv'
  OBVIOUS
<1> USE DEF dbVars, gitVars, sweepVars, Goto
<1>f. ASSUME NEW k, Fault(k) PROVE faults' \in 0..MaxFaults
  BY <1>f, BoundsAssumption DEF Fault, IInv, TypeOK
<1>1. ASSUME NEW p \in Workers, Crash(p) \/ GitFails(p) \/ WithdrawFails(p)
      PROVE  IInv'
  <2>1. PICK l \in Pcs : /\ pc' = [pc EXCEPT ![p] = l]
                         /\ l \in Holding => pc[p] \in Holding
    BY <1>1 DEF Crash, GitFails, WithdrawFails, OnGitError, Pcs, Holding
  <2>2. /\ unhealable' \in [Workers -> SUBSET Versions]
        /\ UNCHANGED <<skill, inc, deprecated, ver, object, repo, tags, main, todo,
                       cur, latest, dep>>
    BY <1>1 DEF Crash, GitFails, WithdrawFails, IInv, TypeOK
  <2>3. TypeOK'
    <3>1. faults' \in 0..MaxFaults
      BY <1>1, <1>f DEF Crash, GitFails, WithdrawFails
    <3> QED
      BY <2>1, <2>2, <3>1 DEF IInv, TypeOK
  <2>4. InsertedRows' /\ TagsReleased' /\ MainReleased'
    BY <2>2 DEF IInv, InsertedRows, TagsReleased, MainReleased, Released
  <2>5. SweepsReleased'
    BY <2>1, <2>2 DEF IInv, TypeOK, SweepsReleased, Released
  <2> QED
    BY <2>3, <2>4, <2>5 DEF IInv
<1>2. CASE VolumeLost
  <2>1. /\ tags' = [s \in Semvers |-> None] /\ main' = NoMain /\ repo' = FALSE
        /\ UNCHANGED <<skill, inc, deprecated, ver, object, unhealable, pc, todo, cur,
                       latest, dep>>
    BY <1>2 DEF VolumeLost
  <2>2. faults' \in 0..MaxFaults
    BY <1>2, <1>f DEF VolumeLost
  <2>3. NoMain \in Commit /\ None \in 0..MaxVersions
    BY BoundsAssumption DEF NoMain, Commit, None
  <2>4. TypeOK'
    BY <2>1, <2>2, <2>3 DEF IInv, TypeOK
  <2>5. InsertedRows' /\ TagsReleased' /\ MainReleased' /\ SweepsReleased'
    BY <2>1 DEF IInv, InsertedRows, TagsReleased, MainReleased, SweepsReleased,
                Released, NoMain
  <2> QED
    BY <2>4, <2>5 DEF IInv
<1>3. ASSUME NEW v \in Versions, ObjectDamaged(v)
      PROVE  IInv'
  <2>1. TypeOK'
    <3>1. faults' \in 0..MaxFaults
      BY <1>3, <1>f DEF ObjectDamaged
    <3> QED
      BY <1>3, <3>1 DEF ObjectDamaged, IInv, TypeOK
  <2>2. InsertedRows' /\ TagsReleased' /\ MainReleased' /\ SweepsReleased'
    BY <1>3 DEF ObjectDamaged, IInv, InsertedRows, TagsReleased, MainReleased,
                SweepsReleased, Released
  <2> QED
    BY <2>1, <2>2 DEF IInv
<1> QED
  BY <1>1, <1>2, <1>3 DEF FaultStep

-----------------------------------------------------------------------------
\* The empty registry satisfies the invariant.
LEMMA InitIInv == Init => IInv
<1> SUFFICES ASSUME Init PROVE IInv
  OBVIOUS
<1>1. NoMain \in Commit /\ NoMain.base = None /\ None \in 0..MaxVersions
      /\ None \in 0..MaxSemver /\ 0 \in 0..MaxSkills /\ 0 \in 0..MaxFaults
  BY BoundsAssumption DEF NoMain, Commit, None
<1>2. TypeOK
  BY <1>1 DEF Init, TypeOK, SkillStatus, Row, VersionStatus, Pcs, None
<1>3. InsertedRows /\ TagsReleased /\ MainReleased /\ SweepsReleased
  BY <1>1 DEF Init, InsertedRows, TagsReleased, MainReleased, SweepsReleased, Holding
<1> QED
  BY <1>2, <1>3 DEF IInv

\* Every step of the web application, of a sweep or of a fault preserves it.
LEMMA NextIInv == IInv /\ [Next]_vars => IInv'
<1> SUFFICES ASSUME IInv, [Next]_vars PROVE IInv'
  OBVIOUS
<1>1. CASE WebStep
  BY <1>1, WebStepIInv
<1>2. CASE FaultStep
  BY <1>2, FaultStepIInv
<1>3. ASSUME NEW p \in Workers, SweepStep(p) PROVE IInv'
  BY <1>3, ReadStepIInv, GitStepIInv, FlagStepIInv DEF SweepStep
<1>4. CASE UNCHANGED vars
  BY <1>4 DEF vars, IInv, TypeOK, InsertedRows, TagsReleased, MainReleased,
              SweepsReleased, Released
<1> QED
  BY <1>1, <1>2, <1>3, <1>4 DEF Next

\* Type correctness of the pipeline's rows, refs and sweeps.
THEOREM TypeCorrect == Spec => []TypeOK
<1>1. IInv => TypeOK
  BY DEF IInv
<1> QED
  BY <1>1, InitIInv, NextIInv, PTL DEF Spec

\* No tag and no main ever names a quarantined version, for any number of
\* overlapping sweeps and any faults (publish.ts, synth.ts, mainRef.ts).
THEOREM QuarantineHolds == Spec => []QuarantinedNeverServed
<1>1. IInv => QuarantinedNeverServed
  BY DEF IInv, TagsReleased, MainReleased, QuarantinedNeverServed, Serves, Released,
         Versions, None
<1> QED
  BY <1>1, InitIInv, NextIInv, PTL DEF Spec

\* Main never serves a prerelease, whatever latest a sweep computed and however
\* late it wrote it (resolveLatest, ensureMain, synthesizeVersion).
THEOREM MainStaysStable == Spec => []MainIsStable
<1>1. IInv => MainIsStable
  BY DEF IInv, MainReleased, MainIsStable
<1> QED
  BY <1>1, InitIInv, NextIInv, PTL DEF Spec

-----------------------------------------------------------------------------
(* Tag rewrite.  synthesizeVersion looks for the tag and writes it after an  *)
(* await.  With one sweep in progress at a time nothing creates the tag in   *)
(* between; two overlapping sweeps can both find it absent.                  *)

\* A sweep about to write a tag still finds it absent.
TagClear ==
    \A p \in Workers : pc[p] \in {"pubTag", "healTag"} => tags[ver[cur[p]].semver] = None

\* A sweep about to write a tag holds a released row: its semver is one of the
\* table's.
LEMMA WriterHoldsReleased ==
  ASSUME IInv, NEW p \in Workers, pc[p] \in {"pubTag", "healTag"}
  PROVE  Released(cur[p])
BY DEF IInv, SweepsReleased, Holding

\* Only the two checks take the sweep to a position that writes a tag, and only
\* when the tag is absent.
LEMMA SweepStepTagClear ==
  ASSUME IInv, \A p, q \in Workers : p = q, NEW p \in Workers, SweepStep(p)
  PROVE  TagClear'
<1> USE DEF Goto
<1>p. pc \in [Workers -> Pcs]
  BY DEF IInv, TypeOK
<1>1. CASE PubCheck(p) \/ HealCheck(p)
  <2>1. PICK write \in {"pubTag", "healTag"}, exists \in {"pubFlag", "heal"} :
          /\ pc' = [pc EXCEPT ![p] = IF tags[ver[cur[p]].semver] = None
                                     THEN write ELSE exists]
          /\ UNCHANGED <<ver, tags, cur>>
    BY <1>1 DEF PubCheck, HealCheck, SynthCheck, dbVars
  <2> QED
    BY <1>p, <2>1 DEF TagClear
<1>2. CASE \/ SweepBegins(p) \/ PubRead(p) \/ PubTag(p) \/ PubMain(p) \/ PubDep(p)
           \/ PubHint(p) \/ PubFlag(p) \/ HealSelect(p) \/ HealList(p) \/ HealRead(p)
           \/ HealTag(p) \/ HealMain(p) \/ HealDone(p) \/ HealEnsure(p) \/ WdSelect(p)
           \/ WdTake(p) \/ WdTag(p) \/ WdRead(p) \/ WdMain(p) \/ WdFlag(p) \/ WdDone(p)
           \/ SyncRead(p) \/ SyncMain(p)
  <2>1. PICK l \in Pcs \ {"pubTag", "healTag"} : pc' = [pc EXCEPT ![p] = l]
    <3>1. CASE SweepBegins(p) \/ PubRead(p) \/ PubTag(p) \/ PubMain(p) \/ PubDep(p)
               \/ PubHint(p) \/ PubFlag(p)
      BY <3>1 DEF SweepBegins, PubRead, PubTag, PubMain, PubDep, PubHint, PubFlag,
                  SynthTag, SynthMain, Reconcile, Pcs
    <3>2. CASE HealSelect(p) \/ HealList(p) \/ HealRead(p) \/ HealTag(p) \/ HealMain(p)
               \/ HealDone(p) \/ HealEnsure(p)
      BY <3>2 DEF HealSelect, HealList, HealRead, HealTag, HealMain, HealDone, HealEnsure,
                  SynthTag, SynthMain, Reconcile, Pcs
    <3>3. CASE WdSelect(p) \/ WdTake(p) \/ WdTag(p) \/ WdRead(p) \/ WdMain(p) \/ WdFlag(p)
               \/ WdDone(p) \/ SyncRead(p) \/ SyncMain(p)
      BY <3>3 DEF WdSelect, WdTake, WdTag, WdRead, WdMain, WdFlag, WdDone, SyncRead,
                  SyncMain, Reconcile, Pcs
    <3> QED
      BY <1>2, <3>1, <3>2, <3>3
  <2> QED
    BY <1>p, <2>1 DEF TagClear
<1> QED
  BY <1>1, <1>2 DEF SweepStep

\* A fault ends the write, loses every tag, or leaves them alone.
LEMMA FaultStepTagClear ==
  ASSUME IInv, TagClear, \A p, q \in Workers : p = q, FaultStep
  PROVE  TagClear'
<1> USE DEF dbVars, gitVars, sweepVars, Goto
<1>1. ASSUME NEW p \in Workers, Crash(p) \/ GitFails(p) \/ WithdrawFails(p)
      PROVE  TagClear'
  <2>1. PICK l \in Pcs \ {"pubTag", "healTag"} : pc' = [pc EXCEPT ![p] = l]
    BY <1>1 DEF Crash, GitFails, WithdrawFails, OnGitError, Pcs
  <2> QED
    BY <2>1 DEF TagClear, IInv, TypeOK
<1>2. CASE VolumeLost
  BY <1>2, WriterHoldsReleased DEF VolumeLost, TagClear, Released
<1>3. ASSUME NEW v \in Versions, ObjectDamaged(v) PROVE TagClear'
  BY <1>3 DEF ObjectDamaged, TagClear
<1> QED
  BY <1>1, <1>2, <1>3 DEF FaultStep

\* With one sweep at a time every step preserves it.
LEMMA NextTagClear ==
  ASSUME IInv, TagClear, \A p, q \in Workers : p = q, [Next]_vars
  PROVE  TagClear'
<1>1. CASE WebStep
  <2>1. StillReleased /\ UNCHANGED <<tags, pc, cur>>
    BY <1>1, WebStepEffect
  <2> QED
    BY <2>1, WriterHoldsReleased DEF TagClear, StillReleased, Released
<1>2. CASE FaultStep
  BY <1>2, FaultStepTagClear
<1>3. ASSUME NEW p \in Workers, SweepStep(p) PROVE TagClear'
  BY <1>3, SweepStepTagClear
<1>4. CASE UNCHANGED vars
  BY <1>4 DEF vars, TagClear
<1> QED
  BY <1>1, <1>2, <1>3, <1>4 DEF Next

\* A step creates a tag where there was none, deletes tags, or leaves them.
LEMMA StepKeepsTags ==
  ASSUME IInv, TagClear, [Next]_vars, NEW s \in Semvers,
         tags[s] # None, tags'[s] # None
  PROVE  tags'[s] = tags[s]
<1> USE DEF dbVars, gitVars, sweepVars
<1>t. tags \in [Semvers -> 0..MaxVersions]
  BY DEF IInv, TypeOK
<1>1. CASE WebStep
  BY <1>1, WebStepEffect
<1>2. CASE FaultStep
  <2>1. UNCHANGED tags \/ tags' = [r \in Semvers |-> None]
    BY <1>2 DEF FaultStep, Crash, GitFails, WithdrawFails, VolumeLost, ObjectDamaged
  <2> QED
    BY <2>1
<1>3. ASSUME NEW p \in Workers, SweepStep(p) PROVE tags'[s] = tags[s]
  <2>1. CASE PubTag(p) \/ HealTag(p)
    <3>1. /\ pc[p] \in {"pubTag", "healTag"}
          /\ \/ UNCHANGED tags
             \/ tags' = [tags EXCEPT ![ver[cur[p]].semver] = cur[p]]
      BY <2>1 DEF PubTag, HealTag, SynthTag
    <3>2. tags[ver[cur[p]].semver] = None
      BY <3>1 DEF TagClear
    <3> QED
      BY <1>t, <3>1, <3>2
  <2>2. CASE WdTag(p)
    BY <1>t, <2>2 DEF WdTag
  <2>3. CASE \/ SweepBegins(p) \/ PubRead(p) \/ PubCheck(p) \/ PubMain(p) \/ PubDep(p)
             \/ PubHint(p) \/ PubFlag(p) \/ HealSelect(p) \/ HealList(p) \/ HealRead(p)
             \/ HealCheck(p) \/ HealMain(p) \/ HealDone(p) \/ HealEnsure(p)
             \/ WdSelect(p) \/ WdTake(p) \/ WdRead(p) \/ WdMain(p) \/ WdFlag(p)
             \/ WdDone(p) \/ SyncRead(p) \/ SyncMain(p)
    <3>1. UNCHANGED tags
      BY <2>3 DEF SweepBegins, PubRead, PubCheck, PubMain, PubDep, PubHint, PubFlag,
                  HealSelect, HealList, HealRead, HealCheck, HealMain, HealDone,
                  HealEnsure, WdSelect, WdTake, WdRead, WdMain, WdFlag, WdDone,
                  SyncRead, SyncMain, SynthCheck, SynthMain, Reconcile
    <3> QED
      BY <3>1
  <2> QED
    BY <1>3, <2>1, <2>2, <2>3 DEF SweepStep
<1>4. CASE UNCHANGED vars
  BY <1>4 DEF vars
<1> QED
  BY <1>1, <1>2, <1>3, <1>4 DEF Next

\* A tag is never rewritten while sweeps do not overlap, across every crash,
\* failed command, lost volume and administrator's step (synth.ts:159).
THEOREM TagsStayPut ==
  ASSUME \A p, q \in Workers : p = q
  PROVE  Spec => TagNeverMoves
<1>1. Init => IInv /\ TagClear
  BY InitIInv DEF Init, TagClear
<1>2. IInv /\ TagClear /\ [Next]_vars => (IInv /\ TagClear)'
  BY NextIInv, NextTagClear
<1>3. IInv /\ TagClear /\ [Next]_vars =>
        [\A s \in Semvers : tags[s] # None /\ tags'[s] # None => tags'[s] = tags[s]]_vars
  BY StepKeepsTags
<1> QED
  BY <1>1, <1>2, <1>3, PTL DEF Spec, TagNeverMoves

=============================================================================
