----------------------------- MODULE Marketplace -----------------------------
(***************************************************************************)
(* One plugin marketplace of a namespace: its switch and its tokens in the *)
(* web application (lib/namespaceAdmin.ts, lib/marketplaces.ts), the sweep *)
(* that rebuilds its repository when the skills it lists have changed      *)
(* (git/marketplaceSync.ts, git/marketplace.ts), and the fetches of one    *)
(* user, which are credited as installs of the skills that they delivered  *)
(* (git/server.ts, git/pgDeps.ts).  The repository is not in the database: *)
(* the sweep moves its main inside a transaction that may yet fail, and a  *)
(* fetch reads it several times while sweeps replace it.                   *)
(***************************************************************************)
EXTENDS Naturals, Sequences, FiniteSets

CONSTANTS
    Skills,         \* the skills that the marketplace may list
    Plugins,        \* the categories, each of which makes a plugin
    Sweeps,         \* the sweeps that may be in progress at the same time
    Fetches,        \* the slots for fetches in progress
    MaxSemver,      \* bound: stable versions of a skill
    MaxTokens,      \* bound: tokens of the user for the marketplace
    MaxEvents       \* bound: changes of the catalog, switches, removals, expiries, and sweeps that fail
                    \* or that begin while another is in progress

ASSUME MarketplaceAssumption == {MaxSemver, MaxTokens, MaxEvents} \subseteq Nat

Tokens == 1..MaxTokens
None   == 0

VARIABLES
    catalog,    \* for each skill: it qualifies, its latest stable version, its category
    enabled,    \* namespaces.marketplace_enabled
    synced,     \* namespaces.marketplace_synced_at is set
    repo,       \* the repository on disk: which one, and the commits of its main
    counter,    \* marketplace_plugins
    token,      \* tokens
    sweep,      \* syncMarketplaces, for this marketplace
    fetch,      \* the fetches in progress
    admin,      \* the switch-off and the mint in progress
    events,     \* so far
    shipped,    \* history: the version and the content of every plugin that main has had
    credited,   \* history: the skills that the user is credited with having installed
    missed,     \* history: those that did not qualify when the credit was given
    lost,       \* history: a transaction failed when main had moved already
    overlap     \* history: two sweeps were in progress at once

catalogVars == <<catalog, enabled, synced>>
history == <<shipped, credited, missed, lost, overlap>>
vars == <<catalogVars, repo, counter, token, sweep, fetch, admin, events, history>>

\* qualifyingSkills, as far as the manifest, its version and the ledger depend on it.
Qualifying == {[skill |-> s, semver |-> catalog[s].semver, plugin |-> catalog[s].plugin] :
                  s \in {x \in Skills : catalog[x].listed}}

SkillsIn(rows)  == {r.skill : r \in rows}
PluginsIn(rows) == {r.plugin : r \in rows}

\* pluginFingerprint
Fingerprint(p, rows) == {<<r.skill, r.semver>> : r \in {x \in rows : x.plugin = p}}

\* The head of main, None when there is none; a commit has all it was made from.
Born  == repo.log # <<>>
MainHead == IF Born THEN <<repo.id, Len(repo.log)>> ELSE <<None, None>>
Main  == repo.log[Len(repo.log)]

\* servedSkills, {} for a repository that was never synthesized.
Served == IF Born THEN Main.rows ELSE {}

\* diffChange: the slugs added and updated, the ones that count.
Changed(before, after) ==
    {s \in SkillsIn(after) : \A r \in before, x \in after :
        r.skill = s /\ x.skill = s => r.semver # x.semver}

\* A token can be unclaimed, claimed, or deleted; its cursor is the last commit served.
NoToken == [status |-> "none", valid |-> FALSE, cursor |-> <<None, None>>]
NoSweep == [pc |-> "idle", rows |-> {}, before |-> {}, n |-> [p \in Plugins |-> 0]]
NoFetch == [pc |-> "idle", tok |-> None, from |-> <<None, None>>, head |-> <<None, None>>,
            slugs |-> {}]

Init ==
    /\ catalog \in [Skills -> [listed : BOOLEAN, semver : {1}, plugin : Plugins]]
    /\ enabled = TRUE /\ synced = FALSE
    /\ repo = [id |-> 1, log |-> <<>>]
    /\ counter = [p \in Plugins |-> [n |-> 0, fp |-> {}]]
    /\ token = [t \in Tokens |-> NoToken]
    /\ sweep = [w \in Sweeps |-> NoSweep]
    /\ fetch = [f \in Fetches |-> NoFetch]
    /\ admin = [revoke |-> FALSE, mint |-> FALSE]
    /\ events = 0
    /\ shipped = {} /\ credited = {} /\ missed = {} /\ lost = FALSE /\ overlap = FALSE

-----------------------------------------------------------------------------
(* The registry, the namespace's administrators, the user *)

Happens == events < MaxEvents /\ events' = events + 1

\* The skill qualifies or no longer does: it is archived, shared, has a stable version.
Lists(s) ==
    /\ Happens
    /\ catalog' = [catalog EXCEPT ![s].listed = ~@]
    /\ UNCHANGED <<enabled, synced, repo, counter, token, sweep, fetch, admin, history>>

\* A version is published, or yanked.
VersionChanges(s) ==
    /\ Happens
    /\ \E v \in 1..MaxSemver \ {catalog[s].semver} : catalog' = [catalog EXCEPT ![s].semver = v]
    /\ UNCHANGED <<enabled, synced, repo, counter, token, sweep, fetch, admin, history>>

Recategorized(s) ==
    /\ Happens
    /\ \E p \in Plugins \ {catalog[s].plugin} : catalog' = [catalog EXCEPT ![s].plugin = p]
    /\ UNCHANGED <<enabled, synced, repo, counter, token, sweep, fetch, admin, history>>

\* updateNamespaceSettings: the switch, and then the deletion of the tokens.
Enable ==
    /\ Happens
    /\ ~enabled /\ enabled' = TRUE
    /\ UNCHANGED <<catalog, synced, repo, counter, token, sweep, fetch, admin, history>>

Disable ==
    /\ Happens
    /\ enabled /\ enabled' = FALSE
    /\ synced' = FALSE
    /\ admin' = [admin EXCEPT !.revoke = TRUE]
    /\ UNCHANGED <<catalog, repo, counter, token, sweep, fetch, history>>

Deleted(S) == [t \in Tokens |-> IF t \in S THEN [NoToken EXCEPT !.status = "gone"] ELSE token[t]]
Unclaimed  == {t \in Tokens : token[t].status = "unclaimed"}

revokeNamespaceMarketplaceTokens ==
    /\ admin.revoke
    /\ token' = Deleted({t \in Tokens : token[t].status # "none"})
    /\ admin' = [admin EXCEPT !.revoke = FALSE]
    /\ UNCHANGED <<catalogVars, repo, counter, sweep, fetch, events, history>>

\* mintMarketplaceToken supersedes the unclaimed tokens, then inserts its own.
MintSupersedes ==
    /\ enabled /\ ~admin.mint
    /\ \E t \in Tokens : token[t].status = "none"
    /\ token' = Deleted(Unclaimed)
    /\ admin' = [admin EXCEPT !.mint = TRUE]
    /\ UNCHANGED <<catalogVars, repo, counter, sweep, fetch, events, history>>

MintInserts ==
    /\ admin.mint
    /\ \E t \in Tokens :
         /\ token[t].status = "none" /\ \A u \in 1..(t - 1) : token[u].status # "none"
         /\ token' = [token EXCEPT ![t] = [NoToken EXCEPT !.status = "unclaimed", !.valid = TRUE]]
    /\ admin' = [admin EXCEPT !.mint = FALSE]
    /\ UNCHANGED <<catalogVars, repo, counter, sweep, fetch, events, history>>

removeMarketplace(t) ==
    /\ Happens
    /\ token[t].status = "claimed" /\ token' = Deleted({t})
    /\ UNCHANGED <<catalogVars, repo, counter, sweep, fetch, admin, history>>

\* An expiry passes; the owner sets a new one for a claimed token.
Expires(t) ==
    /\ Happens
    /\ token[t].valid /\ token' = [token EXCEPT ![t].valid = FALSE]
    /\ UNCHANGED <<catalogVars, repo, counter, sweep, fetch, admin, history>>

reactivateMarketplace(t) ==
    /\ Happens
    /\ token[t].status = "claimed" /\ ~token[t].valid
    /\ token' = [token EXCEPT ![t].valid = TRUE]
    /\ UNCHANGED <<catalogVars, repo, counter, sweep, fetch, admin, history>>

-----------------------------------------------------------------------------
(* The sweep *)

At(w, pc)   == sweep[w].pc = pc
Goto(w, pc) == sweep' = [sweep EXCEPT ![w].pc = pc]

\* The switch is read at the beginning of a pass.
SweepBegins(w) ==
    /\ At(w, "idle")
    /\ Goto(w, IF enabled THEN "read" ELSE "remove")
    /\ \/ (\A v \in Sweeps : At(v, "idle")) /\ UNCHANGED <<events, overlap>>
       \/ (\E v \in Sweeps : ~At(v, "idle")) /\ Happens /\ overlap' = TRUE
    /\ UNCHANGED <<catalogVars, repo, counter, token, fetch, admin,
                   shipped, credited, missed, lost>>

\* Disable means that the repository is gone; the next one shares no commit with it.
removeMarketplaceRepo(w) ==
    /\ At(w, "remove")
    /\ repo' = IF Born THEN [id |-> repo.id + 1, log |-> <<>>] ELSE repo
    /\ sweep' = [sweep EXCEPT ![w] = NoSweep]
    /\ UNCHANGED <<catalogVars, counter, token, fetch, admin, events, history>>

\* Mutant of ReadSkills: the hash leaves the versions out.
ReadSkillsUnversioned(w) ==
    /\ At(w, "read")
    /\ IF Born /\ SkillsIn(Main.rows) = SkillsIn(Qualifying) THEN Goto(w, "stamp")
       ELSE sweep' = [sweep EXCEPT ![w].rows = Qualifying, ![w].before = Served,
                                   ![w].pc = "count"]
    /\ UNCHANGED <<catalogVars, repo, counter, token, fetch, admin, events, history>>

\* The content hash of what qualifies is the version of the manifest in main, or not.
ReadSkills(w) ==
    /\ At(w, "read")
    /\ IF Born /\ Main.rows = Qualifying THEN Goto(w, "stamp")
       ELSE sweep' = [sweep EXCEPT ![w].rows = Qualifying, ![w].before = Served,
                                   ![w].pc = "count"]
    /\ UNCHANGED <<catalogVars, repo, counter, token, fetch, admin, events, history>>

\* The row of a plugin stays locked until the transaction ends.
Locked(w, p) ==
    \E v \in Sweeps \ {w} :
      (At(v, "synthesize") \/ At(v, "commit")) /\ p \in PluginsIn(sweep[v].rows)

\* Mutant of NextN: the fingerprint leaves the versions of the skills out.
NextNBySkill(p, rows) ==
    IF counter[p].n > 0 /\ {x[1] : x \in counter[p].fp} = {x[1] : x \in Fingerprint(p, rows)}
    THEN counter[p].n
    ELSE counter[p].n + 1

NextN(p, rows) ==
    IF counter[p].n > 0 /\ counter[p].fp = Fingerprint(p, rows) THEN counter[p].n
    ELSE counter[p].n + 1

\* pluginCounter, for every plugin: the same content keeps its number.
pluginCounter(w) ==
    /\ At(w, "count")
    /\ LET rows == sweep[w].rows
       IN  /\ \A p \in PluginsIn(rows) : ~Locked(w, p)
           /\ sweep' = [sweep EXCEPT
                ![w].n = [p \in Plugins |-> IF p \in PluginsIn(rows) THEN NextN(p, rows) ELSE 0],
                ![w].pc = "synthesize"]
    /\ UNCHANGED <<catalogVars, repo, counter, token, fetch, admin, events, history>>

\* A commit on top of main, or in a new repository; main is moved before the counters
\* are committed.
synthesizeMarketplace(w) ==
    /\ At(w, "synthesize")
    /\ LET rows == sweep[w].rows
       IN  /\ repo' = [repo EXCEPT !.log = Append(@,
                         [rows |-> rows, ledger |-> Changed(sweep[w].before, rows)])]
           /\ shipped' = shipped \cup
                {<<p, sweep[w].n[p], Fingerprint(p, rows)>> : p \in PluginsIn(rows)}
    /\ Goto(w, "commit")
    /\ UNCHANGED <<catalogVars, counter, token, fetch, admin, events,
                   credited, missed, lost, overlap>>

CommitCounters(w) ==
    /\ At(w, "commit")
    /\ LET rows == sweep[w].rows
       IN  counter' = [p \in Plugins |->
                         IF p \in PluginsIn(rows)
                         THEN [n |-> sweep[w].n[p], fp |-> Fingerprint(p, rows)]
                         ELSE counter[p]]
    /\ Goto(w, "stamp")
    /\ UNCHANGED <<catalogVars, repo, token, fetch, admin, events, history>>

stampMarketplaceSynced(w) ==
    /\ At(w, "stamp")
    /\ synced' = TRUE
    /\ sweep' = [sweep EXCEPT ![w] = NoSweep]
    /\ UNCHANGED <<catalog, enabled, repo, counter, token, fetch, admin, events, history>>

\* An error, which rolls the transaction back, or the death of the worker.
SweepFails(w) ==
    /\ Happens
    /\ ~At(w, "idle")
    /\ lost' = (lost \/ At(w, "commit"))
    /\ sweep' = [sweep EXCEPT ![w] = NoSweep]
    /\ UNCHANGED <<catalogVars, repo, counter, token, fetch, admin,
                   shipped, credited, missed, overlap>>

-----------------------------------------------------------------------------
(* A fetch: authorize, serve, credit *)

Reaches(f, pc) == fetch[f].pc = pc
Answered(f)    == fetch' = [fetch EXCEPT ![f] = NoFetch]

\* authorizeMarketplace; the cursor is the token's of now.
Authorize(f, t) ==
    /\ Reaches(f, "idle")
    /\ enabled
    /\ token[t].status \in {"unclaimed", "claimed"} /\ token[t].valid
    /\ fetch' = [fetch EXCEPT ![f] = [NoFetch EXCEPT !.pc = "head", !.tok = t,
                                                     !.from = token[t].cursor]]
    /\ UNCHANGED <<catalogVars, repo, counter, token, sweep, admin, events, history>>

marketplaceHead(f) ==
    /\ Reaches(f, "head")
    /\ IF Born THEN fetch' = [fetch EXCEPT ![f].head = MainHead, ![f].pc = "mark"] ELSE Answered(f)
    /\ UNCHANGED <<catalogVars, repo, counter, token, sweep, admin, events, history>>

\* The backend has advertised main, which may have moved on; the first use claims the
\* token and deletes the other unclaimed ones.
markMarketplaceUsed(f) ==
    /\ Reaches(f, "mark")
    /\ LET t == fetch[f].tok
       IN  token' = IF t \in Unclaimed
                    THEN [Deleted(Unclaimed \ {t}) EXCEPT ![t].status = "claimed"] ELSE token
    /\ fetch' = [fetch EXCEPT ![f].pc = "diff"]
    /\ UNCHANGED <<catalogVars, repo, counter, sweep, admin, events, history>>

\* From a commit that main does not descend from, everything listed; else what the
\* ledger of the commits since has, as far as it is still listed.
changedSlugsSince(from) ==
    IF ~Born \/ from = MainHead THEN {}
    ELSE IF from[1] # repo.id THEN SkillsIn(Main.rows)
    ELSE SkillsIn(Main.rows) \cap UNION {repo.log[i].ledger : i \in (from[2] + 1)..Len(repo.log)}

Diff(f) ==
    /\ Reaches(f, "diff")
    /\ fetch' = [fetch EXCEPT ![f].slugs = changedSlugsSince(fetch[f].from), ![f].pc = "credit"]
    /\ UNCHANGED <<catalogVars, repo, counter, token, sweep, admin, events, history>>

\* Mutant of creditMarketplaceFetch: the cursor is the head of now.
creditMarketplaceFetchHead(f) ==
    /\ Reaches(f, "credit")
    /\ credited' = credited \cup (fetch[f].slugs \cap SkillsIn(Qualifying))
    /\ missed' = missed \cup (fetch[f].slugs \ SkillsIn(Qualifying))
    /\ token' = IF token[fetch[f].tok].status = "gone" THEN token
                ELSE [token EXCEPT ![fetch[f].tok].cursor = MainHead]
    /\ Answered(f)
    /\ UNCHANGED <<catalogVars, repo, counter, sweep, admin, events, shipped, lost, overlap>>

\* One transaction credits what qualifies and moves the cursor to the head that was read.
creditMarketplaceFetch(f) ==
    /\ Reaches(f, "credit")
    /\ credited' = credited \cup (fetch[f].slugs \cap SkillsIn(Qualifying))
    /\ missed' = missed \cup (fetch[f].slugs \ SkillsIn(Qualifying))
    /\ token' = IF token[fetch[f].tok].status = "gone" THEN token
                ELSE [token EXCEPT ![fetch[f].tok].cursor = fetch[f].head]
    /\ Answered(f)
    /\ UNCHANGED <<catalogVars, repo, counter, sweep, admin, events, shipped, lost, overlap>>

\* A statement fails or the worker dies: what has been served stays uncredited for now.
FetchFails(f) ==
    /\ ~Reaches(f, "idle")
    /\ Answered(f)
    /\ UNCHANGED <<catalogVars, repo, counter, token, sweep, admin, events, history>>

-----------------------------------------------------------------------------
SweepStep(w) ==
    \/ SweepBegins(w) \/ removeMarketplaceRepo(w) \/ ReadSkills(w)
    \/ pluginCounter(w) \/ synthesizeMarketplace(w) \/ CommitCounters(w)
    \/ stampMarketplaceSynced(w)

FetchStep(f) ==
    \/ marketplaceHead(f) \/ markMarketplaceUsed(f)
    \/ Diff(f) \/ creditMarketplaceFetch(f)

UserOrAdmin ==
    \/ Enable \/ Disable \/ revokeNamespaceMarketplaceTokens
    \/ MintSupersedes \/ MintInserts
    \/ \E t \in Tokens : removeMarketplace(t) \/ Expires(t) \/ reactivateMarketplace(t)

Next ==
    \/ \E s \in Skills : Lists(s) \/ VersionChanges(s) \/ Recategorized(s)
    \/ UserOrAdmin
    \/ \E w \in Sweeps : SweepStep(w) \/ SweepFails(w)
    \/ \E f \in Fetches : (\E t \in Tokens : Authorize(f, t)) \/ FetchStep(f) \/ FetchFails(f)

Spec == Init /\ [][Next]_vars

\* The leader's timer fires and its awaits return.
FairSpec == Spec /\ \A w \in Sweeps : WF_vars(SweepStep(w))

-----------------------------------------------------------------------------
(* Properties *)

\* A version of a plugin stands for one content for good, which is how a consumer knows
\* that there is something to update, across disabling and enabling: unless a transaction
\* was lost whose commit was in main already (marketplaceSync.ts: "must survive a rebuild
\* and never go backwards").
VersionNamesContent ==
    lost \/ \A x, y \in shipped : x[1] = y[1] /\ x[2] = y[2] => x = y

\* The skills in every commit of main from the one at i on.
ListedSince(i) ==
    {s \in Skills : \A j \in i..Len(repo.log) : s \in SkillsIn(repo.log[j].rows)}

\* The cursor never runs ahead of the credit: what a consumer was served at its cursor,
\* and is still listed, is credited, or did not qualify when it was about to be
\* (pgDeps.ts: "advancing without crediting would lose those installs permanently").
CursorCredited ==
    overlap \/ \A t \in Tokens :
      LET c == token[t].cursor
      IN  c[1] = repo.id => ListedSince(c[2]) \subseteq credited \cup missed

\* When nothing changes any more the repository has just what qualifies, or is gone.
MarketplaceConverges ==
    <>[](IF enabled THEN synced /\ Born /\ Main.rows = Qualifying ELSE ~Born)
=============================================================================
