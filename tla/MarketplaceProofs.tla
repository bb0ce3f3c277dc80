-------------------------- MODULE MarketplaceProofs --------------------------
(***************************************************************************)
(* What a marketplace guarantees for every number of skills, plugins,      *)
(* sweeps, fetches, tokens and changes of the catalog: a version of a      *)
(* plugin names one content for good, unless a transaction was lost after  *)
(* it had moved main; and the cursor of a token never runs ahead of what   *)
(* the user was credited with, unless two sweeps overlapped.               *)
(*                                                                         *)
(* Both rest on what a sweep and a fetch carry across their statements:    *)
(* the numbers of the plugins whose rows are locked, and the commits that  *)
(* main has had.                                                           *)
(***************************************************************************)
EXTENDS Marketplace, TLAPS

Row      == [skill : Skills, semver : Nat, plugin : Plugins]
Commits  == [rows : SUBSET Row, ledger : SUBSET Skills]
Repos    == [id : Nat \ {0}, log : Seq(Commits)]
Contents == SUBSET (Skills \X Nat)
Points   == Nat \X Nat
Counters == [n : Nat, fp : Contents]
TokenRow == [status : {"none", "unclaimed", "claimed", "gone"}, valid : BOOLEAN,
             cursor : Points]
SweepRow == [pc : {"idle", "remove", "read", "count", "synthesize", "commit", "stamp"},
             rows : SUBSET Row, before : SUBSET Row, n : [Plugins -> Nat]]
FetchRow == [pc : {"idle", "head", "mark", "diff", "credit"}, tok : Tokens \cup {None},
             from : Points, head : Points, slugs : SUBSET Skills]

-----------------------------------------------------------------------------
(* The invariant *)

TypeInv ==
    /\ catalog \in [Skills -> [listed : BOOLEAN, semver : Nat, plugin : Plugins]]
    /\ repo \in Repos
    /\ counter \in [Plugins -> Counters]
    /\ token \in [Tokens -> TokenRow]
    /\ sweep \in [Sweeps -> SweepRow]
    /\ fetch \in [Fetches -> FetchRow]
    /\ shipped \subseteq Plugins \X Nat \X Contents

\* A sweep that has the rows of its plugins locked.
Holds(w) == sweep[w].pc \in {"synthesize", "commit"}
Holding(w, p) == Holds(w) /\ p \in PluginsIn(sweep[w].rows)

\* No two sweeps hold a plugin, and the number that a sweep has computed is the number in
\* the table, for the same content, or the next one.
LockInv ==
    /\ \A v, w \in Sweeps, p \in Plugins : Holding(v, p) /\ Holding(w, p) => v = w
    /\ \A w \in Sweeps, p \in Plugins : Holding(w, p) =>
         \/ sweep[w].n[p] = counter[p].n + 1
         \/ sweep[w].n[p] = counter[p].n /\ counter[p].fp = Fingerprint(p, sweep[w].rows)

\* What main has had of a plugin is older than the table, or what the table says, or what
\* the sweep that moved main is about to write to the table.
Recorded(x) == x[2] < counter[x[1]].n \/ (x[2] = counter[x[1]].n /\ x[3] = counter[x[1]].fp)
Coming(x) ==
    \E w \in Sweeps : /\ sweep[w].pc = "commit" /\ Holding(w, x[1])
                      /\ x[2] = sweep[w].n[x[1]] /\ x[3] = Fingerprint(x[1], sweep[w].rows)

ShippedInv ==
    lost \/ (VersionNamesContent /\ \A x \in shipped : Recorded(x) \/ Coming(x))

\* c is a commit that main of the repository r has, or of one that was removed, or none.
Passed(r, c) == c[1] <= r.id /\ (c[1] = r.id => c[2] \in 1..Len(r.log))

\* The skills in every commit from the one at i on; they are all in S if c is of r.
Listed(log, i) == {s \in Skills : \A j \in i..Len(log) : s \in SkillsIn(log[j].rows)}
Covers(S, r, c) == c[1] = r.id => Listed(r.log, c[2]) \subseteq S

\* A skill of a commit was in all since the one at i, or a ledger since then has it.
Ledgered(log) ==
    \A k \in 1..Len(log) : \A i \in 1..k : \A s \in SkillsIn(log[k].rows) :
      \/ \A j \in i..k : s \in SkillsIn(log[j].rows)
      \/ \E j \in (i + 1)..k : s \in log[j].ledger

\* Without an overlap there is one sweep, and main is what it was when the sweep began.
LedgerInv ==
    overlap \/ /\ \A v, w \in Sweeps : ~At(v, "idle") /\ ~At(w, "idle") => v = w
               /\ \A w \in Sweeps : At(w, "count") \/ At(w, "synthesize") =>
                                      sweep[w].before = Served
               /\ Ledgered(repo.log)

Known == credited \cup missed

CursorInv ==
    \A t \in Tokens : /\ Passed(repo, token[t].cursor)
                      /\ overlap \/ Covers(Known, repo, token[t].cursor)

FetchOK(g) ==
    /\ g.pc # "idle" => /\ g.tok \in Tokens /\ Passed(repo, g.from)
                        /\ overlap \/ Covers(Known, repo, g.from)
    /\ g.pc \in {"mark", "diff", "credit"} => Passed(repo, g.head)
    /\ g.pc = "credit" => overlap \/ Covers(Known \cup g.slugs, repo, g.head)

FetchInv == \A f \in Fetches : FetchOK(fetch[f])

IInv == TypeInv /\ LockInv /\ ShippedInv /\ LedgerInv /\ CursorInv /\ FetchInv

-----------------------------------------------------------------------------
(* Rows, points and ledgers *)

LEMMA RowsOf ==
  ASSUME NEW rows \in SUBSET Row
  PROVE  /\ SkillsIn(rows) \subseteq Skills /\ PluginsIn(rows) \subseteq Plugins
         /\ \A p \in Plugins : Fingerprint(p, rows) \in Contents
         /\ \A before : Changed(before, rows) \subseteq Skills
<1>1. \A r \in rows : r.skill \in Skills /\ r.semver \in Nat /\ r.plugin \in Plugins
  BY DEF Row
<1>2. SkillsIn(rows) \subseteq Skills /\ PluginsIn(rows) \subseteq Plugins
  BY <1>1 DEF SkillsIn, PluginsIn
<1>3. ASSUME NEW p \in Plugins PROVE Fingerprint(p, rows) \in Contents
  BY <1>1 DEF Fingerprint, Contents
<1>4. ASSUME NEW before PROVE Changed(before, rows) \subseteq Skills
  BY <1>2 DEF Changed
<1> QED
  BY <1>2, <1>3, <1>4

LEMMA QualifyingRows ==
  ASSUME TypeInv
  PROVE  Qualifying \in SUBSET Row
BY DEF TypeInv, Qualifying, Row

LEMMA ServedRows ==
  ASSUME TypeInv
  PROVE  Served \in SUBSET Row
<1>1. repo.log \in Seq(Commits)
  BY DEF TypeInv, Repos
<1>2. repo.log # <<>> => repo.log[Len(repo.log)] \in Commits
  BY <1>1
<1> QED
  BY <1>2 DEF Served, Born, Main, Commits

LEMMA Grown ==
  ASSUME NEW log \in Seq(Commits), NEW c \in Commits
  PROVE  /\ Append(log, c) \in Seq(Commits) /\ Len(Append(log, c)) = Len(log) + 1
         /\ Len(log) \in Nat
         /\ \A i \in 1..Len(log) : Append(log, c)[i] = log[i]
         /\ Append(log, c)[Len(log) + 1] = c
OBVIOUS

LEMMA ListedShrinks ==
  ASSUME NEW log \in Seq(Commits), NEW c \in Commits, NEW i \in 1..Len(log)
  PROVE  Listed(Append(log, c), i) \subseteq Listed(log, i)
<1> DEFINE more == Append(log, c)
<1>1. Len(more) = Len(log) + 1 /\ \A j \in 1..Len(log) : more[j] = log[j]
  BY Grown
<1>2. \A j \in i..Len(log) : j \in i..Len(more) /\ more[j] = log[j]
  BY <1>1
<1> HIDE DEF more
<1> QED
  BY <1>2 DEF Listed

\* How the repository may change.
Moves(r, q) ==
    \/ q = r
    \/ q.id = r.id + 1 /\ q.log = <<>>
    \/ q.id = r.id /\ \E c \in Commits : q.log = Append(r.log, c)

\* A commit that main has had stays one, and what is listed from it on gets less.
LEMMA PointsStay ==
  ASSUME NEW r \in Repos, NEW q \in Repos, Moves(r, q), NEW c \in Points, Passed(r, c)
  PROVE  /\ Passed(q, c)
         /\ \A S, T : Covers(S, r, c) /\ S \subseteq T => Covers(T, q, c)
<1>1. r.id \in Nat /\ r.log \in Seq(Commits) /\ c[1] \in Nat /\ c[2] \in Nat
  BY DEF Repos, Points
<1>2. CASE q = r
  BY <1>2 DEF Passed, Covers
<1>3. CASE q.id = r.id + 1 /\ q.log = <<>>
  <2>1. c[1] <= r.id
    BY DEF Passed
  <2>2. c[1] <= q.id /\ c[1] # q.id
    BY <2>1, <1>1, <1>3
  <2> QED
    BY <2>2 DEF Passed, Covers
<1>4. ASSUME q.id = r.id, NEW d \in Commits, q.log = Append(r.log, d)
      PROVE  /\ Passed(q, c)
             /\ \A S, T : Covers(S, r, c) /\ S \subseteq T => Covers(T, q, c)
  <2>1. Len(q.log) = Len(r.log) + 1 /\ Len(r.log) \in Nat
    BY <1>1, <1>4, Grown
  <2>2. Passed(q, c)
    BY <2>1, <1>1, <1>4 DEF Passed
  <2>3. c[1] = q.id => Listed(q.log, c[2]) \subseteq Listed(r.log, c[2])
    BY <1>1, <1>4, ListedShrinks DEF Passed
  <2> QED
    BY <2>2, <2>3, <1>4 DEF Covers
<1> QED
  BY <1>2, <1>3, <1>4 DEF Moves

\* A commit whose ledger is the change since the one below keeps the ledgers whole.
LEMMA LedgeredGrows ==
  ASSUME NEW log \in Seq(Commits), NEW rows \in SUBSET Row, NEW before, Ledgered(log),
         log # <<>> => before = log[Len(log)].rows
  PROVE  Ledgered(Append(log, [rows |-> rows, ledger |-> Changed(before, rows)]))
<1> DEFINE c    == [rows |-> rows, ledger |-> Changed(before, rows)]
           more == Append(log, c)
           N    == Len(log)
<1>1. c \in Commits /\ c.rows = rows /\ c.ledger = Changed(before, rows)
  BY RowsOf DEF Commits
<1>2. /\ N \in Nat /\ Len(more) = N + 1 /\ more[N + 1] = c
      /\ \A i \in 1..N : more[i] = log[i]
  BY <1>1, Grown
<1> HIDE DEF c, more
<1>3. SUFFICES ASSUME NEW k \in 1..(N + 1), NEW i \in 1..k, NEW s \in SkillsIn(more[k].rows)
               PROVE  \/ \A j \in i..k : s \in SkillsIn(more[j].rows)
                      \/ \E j \in (i + 1)..k : s \in more[j].ledger
  BY <1>2 DEF Ledgered, more, c
<1> HIDE DEF N
<1>4. CASE k <= N
  <2>1. k \in 1..N /\ i \in 1..k /\ s \in SkillsIn(log[k].rows)
    BY <1>2, <1>4
  <2>2. \A j \in i..k : more[j] = log[j]
    BY <1>2, <2>1
  <2>3. \A j \in (i + 1)..k : more[j] = log[j]
    BY <1>2, <2>1
  <2>4. \/ \A j \in i..k : s \in SkillsIn(log[j].rows)
        \/ \E j \in (i + 1)..k : s \in log[j].ledger
    BY <2>1 DEF Ledgered, N
  <2> QED
    BY <2>2, <2>3, <2>4
<1>5. CASE k = N + 1 /\ i = N + 1
  BY <1>2, <1>5
<1>6. CASE k = N + 1 /\ i \in 1..N /\ s \in SkillsIn(before)
  <2>1. N \in 1..N /\ log # <<>>
    BY <1>2, <1>6 DEF N
  <2>2. s \in SkillsIn(log[N].rows)
    BY <2>1, <1>6 DEF N
  <2>3. \/ \A j \in i..N : s \in SkillsIn(log[j].rows)
        \/ \E j \in (i + 1)..N : s \in log[j].ledger
    BY <2>1, <2>2, <1>6 DEF Ledgered, N
  <2>4. \A j \in i..N : more[j] = log[j]
    BY <1>2, <1>6
  <2>5. \A j \in (i + 1)..N : more[j] = log[j] /\ j \in (i + 1)..k
    BY <1>2, <1>6
  <2>6. CASE \A j \in i..N : s \in SkillsIn(log[j].rows)
    <3>1. \A j \in i..k : j \in i..N \/ j = k
      BY <1>2, <1>6
    <3> QED
      BY <3>1, <2>4, <2>6
  <2> QED
    BY <2>3, <2>5, <2>6
<1>7. CASE k = N + 1 /\ i \in 1..N /\ s \notin SkillsIn(before)
  <2>1. s \in SkillsIn(rows)
    BY <1>1, <1>2, <1>7
  <2>2. s \in c.ledger
    BY <2>1, <1>1, <1>7 DEF Changed, SkillsIn
  <2>3. k \in (i + 1)..k /\ more[k] = c
    BY <1>2, <1>7
  <2> QED
    BY <2>2, <2>3
<1> QED
  BY <1>2, <1>4, <1>5, <1>6, <1>7

-----------------------------------------------------------------------------
(* What the steps change *)

\* One sweep changes, if any.
OneSweep(w) ==
    /\ sweep' \in [Sweeps -> SweepRow]
    /\ \A v \in Sweeps \ {w} : sweep'[v] = sweep[v]

LEMMA SweepSet ==
  ASSUME TypeInv, NEW w \in Sweeps, NEW r \in SweepRow, sweep' = [sweep EXCEPT ![w] = r]
  PROVE  OneSweep(w) /\ sweep'[w] = r
BY DEF TypeInv, OneSweep

LEMMA NoSweepIs ==
  NoSweep \in SweepRow /\ NoSweep.pc = "idle"
BY DEF NoSweep, SweepRow

LEMMA GotoSet ==
  ASSUME TypeInv, NEW w \in Sweeps,
         NEW pc \in {"idle", "remove", "read", "count", "synthesize", "commit", "stamp"},
         Goto(w, pc)
  PROVE  /\ OneSweep(w) /\ sweep'[w].pc = pc /\ sweep'[w].rows = sweep[w].rows
         /\ sweep'[w].before = sweep[w].before /\ sweep'[w].n = sweep[w].n
<1> DEFINE r == [sweep[w] EXCEPT !.pc = pc]
<1>1. sweep[w] \in SweepRow
  BY DEF TypeInv
<1>2. /\ r \in SweepRow /\ r.pc = pc /\ r.rows = sweep[w].rows
      /\ r.before = sweep[w].before /\ r.n = sweep[w].n
  BY <1>1 DEF SweepRow
<1>3. sweep' = [sweep EXCEPT ![w] = r]
  BY DEF Goto
<1> HIDE DEF r
<1> QED
  BY <1>2, <1>3, SweepSet

\* The tokens keep their cursors, or lose them.
CursorsKept ==
    /\ token' \in [Tokens -> TokenRow]
    /\ \A t \in Tokens : token'[t].cursor \in {token[t].cursor, <<None, None>>}

LEMMA NoTokenIs ==
  /\ NoToken \in TokenRow /\ NoToken.cursor = <<None, None>>
  /\ \A status \in {"none", "unclaimed", "claimed", "gone"}, valid \in BOOLEAN :
       LET k == [NoToken EXCEPT !.status = status, !.valid = valid]
       IN  k \in TokenRow /\ k.cursor = <<None, None>>
  /\ LET k == [NoToken EXCEPT !.status = "gone"]
     IN  k \in TokenRow /\ k.cursor = <<None, None>>
<1>1. <<None, None>> \in Points
  BY DEF None, Points
<1>2. NoToken \in TokenRow /\ NoToken.cursor = <<None, None>>
  BY <1>1 DEF NoToken, TokenRow
<1>3. ASSUME NEW status \in {"none", "unclaimed", "claimed", "gone"}, NEW valid \in BOOLEAN
      PROVE  LET k == [NoToken EXCEPT !.status = status, !.valid = valid]
             IN  k \in TokenRow /\ k.cursor = <<None, None>>
  BY <1>2 DEF TokenRow
<1>4. LET k == [NoToken EXCEPT !.status = "gone"]
      IN  k \in TokenRow /\ k.cursor = <<None, None>>
  BY <1>2 DEF TokenRow
<1> QED
  BY <1>2, <1>3, <1>4

LEMMA DeletedIs ==
  ASSUME TypeInv, NEW S
  PROVE  /\ Deleted(S) \in [Tokens -> TokenRow]
         /\ \A t \in Tokens : Deleted(S)[t].cursor \in {token[t].cursor, <<None, None>>}
<1> DEFINE gone == [NoToken EXCEPT !.status = "gone"]
<1>1. gone \in TokenRow /\ gone.cursor = <<None, None>>
  BY NoTokenIs
<1>2. Deleted(S) = [t \in Tokens |-> IF t \in S THEN gone ELSE token[t]]
  BY DEF Deleted
<1> HIDE DEF gone
<1> QED
  BY <1>1, <1>2 DEF TypeInv

LEMMA TokenSet ==
  ASSUME NEW k \in [Tokens -> TokenRow], NEW t \in Tokens, NEW r \in TokenRow,
         \A u \in Tokens : k[u].cursor \in {token[u].cursor, <<None, None>>},
         r.cursor \in {token[t].cursor, <<None, None>>},
         token' = [k EXCEPT ![t] = r]
  PROVE  CursorsKept
<1>1. token' \in [Tokens -> TokenRow] /\ token'[t] = r
      /\ \A u \in Tokens \ {t} : token'[u] = k[u]
  OBVIOUS
<1> QED
  BY <1>1 DEF CursorsKept

-----------------------------------------------------------------------------
(* The registry, the administrators and the user *)

WebDoes ==
    /\ UNCHANGED <<repo, counter, sweep, fetch, shipped, credited, missed, lost, overlap>>
    /\ CursorsKept
    /\ catalog' \in [Skills -> [listed : BOOLEAN, semver : Nat, plugin : Plugins]]

LEMMA CatalogDoes ==
  ASSUME TypeInv, NEW s \in Skills, Lists(s) \/ VersionChanges(s) \/ Recategorized(s)
  PROVE  WebDoes
<1> DEFINE Entry == [listed : BOOLEAN, semver : Nat, plugin : Plugins]
<1>1. catalog \in [Skills -> Entry] /\ catalog[s] \in Entry
  BY DEF TypeInv
<1>2. /\ UNCHANGED <<repo, counter, sweep, fetch, shipped, credited, missed, lost, overlap>>
      /\ token' = token
  BY DEF Lists, VersionChanges, Recategorized, history
<1>3. CursorsKept
  BY <1>2 DEF CursorsKept, TypeInv
<1>4. \E e \in Entry : catalog' = [catalog EXCEPT ![s] = e]
  <2>1. CASE Lists(s)
    <3> DEFINE e == [catalog[s] EXCEPT !.listed = ~@]
    <3>1. e \in Entry
      BY <1>1
    <3>2. catalog' = [catalog EXCEPT ![s] = e]
      BY <2>1 DEF Lists
    <3> QED
      BY <3>1, <3>2
  <2>2. ASSUME NEW v \in 1..MaxSemver, catalog' = [catalog EXCEPT ![s].semver = v]
        PROVE  \E e \in Entry : catalog' = [catalog EXCEPT ![s] = e]
    <3> DEFINE e == [catalog[s] EXCEPT !.semver = v]
    <3>1. v \in Nat
      BY MarketplaceAssumption
    <3>2. e \in Entry
      BY <1>1, <3>1
    <3>3. catalog' = [catalog EXCEPT ![s] = e]
      BY <2>2
    <3> QED
      BY <3>2, <3>3
  <2>3. ASSUME NEW p \in Plugins, catalog' = [catalog EXCEPT ![s].plugin = p]
        PROVE  \E e \in Entry : catalog' = [catalog EXCEPT ![s] = e]
    <3> DEFINE e == [catalog[s] EXCEPT !.plugin = p]
    <3>1. e \in Entry
      BY <1>1
    <3>2. catalog' = [catalog EXCEPT ![s] = e]
      BY <2>3
    <3> QED
      BY <3>1, <3>2
  <2>4. VersionChanges(s) => \E v \in 1..MaxSemver : catalog' = [catalog EXCEPT ![s].semver = v]
    BY DEF VersionChanges
  <2>5. Recategorized(s) => \E p \in Plugins : catalog' = [catalog EXCEPT ![s].plugin = p]
    BY DEF Recategorized
  <2> QED
    BY <2>1, <2>2, <2>3, <2>4, <2>5
<1>5. catalog' \in [Skills -> Entry]
  BY <1>1, <1>4
<1> QED
  BY <1>2, <1>3, <1>5 DEF WebDoes

LEMMA UserDoes ==
  ASSUME TypeInv, UserOrAdmin
  PROVE  WebDoes
<1>1. UNCHANGED <<catalog, repo, counter, sweep, fetch, shipped, credited, missed, lost,
                  overlap>>
  BY DEF UserOrAdmin, Enable, Disable, revokeNamespaceMarketplaceTokens, MintSupersedes,
         MintInserts, removeMarketplace, Expires, reactivateMarketplace, catalogVars, history
<1>2. CursorsKept
  <2>1. CASE Enable \/ Disable
    BY <2>1 DEF Enable, Disable, CursorsKept, TypeInv
  <2>2. ASSUME NEW S, token' = Deleted(S) PROVE CursorsKept
    BY <2>2, DeletedIs DEF CursorsKept
  <2>3. CASE MintInserts
    <3>1. PICK t \in Tokens :
            token' = [token EXCEPT ![t] = [NoToken EXCEPT !.status = "unclaimed", !.valid = TRUE]]
      BY <2>3 DEF MintInserts
    <3> DEFINE r == [NoToken EXCEPT !.status = "unclaimed", !.valid = TRUE]
    <3>2. r \in TokenRow /\ r.cursor = <<None, None>>
      BY NoTokenIs
    <3>3. token' = [token EXCEPT ![t] = r]
      BY <3>1
    <3> HIDE DEF r
    <3>4. token \in [Tokens -> TokenRow]
      BY DEF TypeInv
    <3> QED
      BY <3>2, <3>3, <3>4, TokenSet
  <2>4. ASSUME NEW t \in Tokens, NEW b \in BOOLEAN, token' = [token EXCEPT ![t].valid = b]
        PROVE  CursorsKept
    <3> DEFINE r == [token[t] EXCEPT !.valid = b]
    <3>1. token \in [Tokens -> TokenRow] /\ token[t] \in TokenRow
      BY DEF TypeInv
    <3>2. r \in TokenRow /\ r.cursor = token[t].cursor
      BY <3>1 DEF TokenRow
    <3>3. token' = [token EXCEPT ![t] = r]
      BY <2>4
    <3> HIDE DEF r
    <3> QED
      BY <3>1, <3>2, <3>3, TokenSet
  <2>5. revokeNamespaceMarketplaceTokens \/ MintSupersedes \/ (\E t \in Tokens : removeMarketplace(t))
        => \E S : token' = Deleted(S)
    BY DEF revokeNamespaceMarketplaceTokens, MintSupersedes, removeMarketplace
  <2>6. (\E t \in Tokens : Expires(t) \/ reactivateMarketplace(t))
        => \E t \in Tokens, b \in BOOLEAN : token' = [token EXCEPT ![t].valid = b]
    BY DEF Expires, reactivateMarketplace
  <2> QED
    BY <2>1, <2>2, <2>3, <2>4, <2>5, <2>6 DEF UserOrAdmin
<1> QED
  BY <1>1, <1>2 DEF WebDoes, TypeInv

-----------------------------------------------------------------------------
(* The sweep *)

\* What every step of a sweep w does.
SweepDoes(w) ==
    /\ UNCHANGED <<catalog, token, fetch, credited, missed>>
    /\ OneSweep(w)
    /\ repo' \in Repos /\ Moves(repo, repo')
    /\ overlap' \/ (~overlap /\ (~At(w, "idle") \/ \A v \in Sweeps : At(v, "idle")))

\* A step that neither locks nor moves main.
Plain(w) ==
    /\ SweepDoes(w)
    /\ counter' = counter /\ shipped' = shipped
    /\ sweep'[w].pc \notin {"synthesize", "commit"}
    /\ lost' \/ (~lost /\ ~At(w, "commit"))
    /\ repo' = repo \/ repo'.log = <<>>
    /\ sweep'[w].pc = "count" => repo' = repo /\ sweep'[w].before = Served

LEMMA SameRepo ==
  ASSUME TypeInv, repo' = repo
  PROVE  repo' \in Repos /\ Moves(repo, repo')
BY DEF TypeInv, Moves

LEMMA BeginsPlain ==
  ASSUME TypeInv, NEW w \in Sweeps, SweepBegins(w)
  PROVE  Plain(w)
<1>1. PICK pc \in {"read", "remove"} : Goto(w, pc)
  BY DEF SweepBegins
<1>2. OneSweep(w) /\ sweep'[w].pc \in {"read", "remove"}
  BY <1>1, GotoSet
<1>3. At(w, "idle") /\ ~At(w, "commit")
  BY DEF SweepBegins, At
<1>4. /\ UNCHANGED <<catalog, token, fetch, credited, missed, repo, counter, shipped, lost>>
      /\ overlap' \/ (overlap' = overlap /\ \A v \in Sweeps : At(v, "idle"))
  BY DEF SweepBegins, catalogVars
<1>5. overlap' \/ (~overlap /\ \A v \in Sweeps : At(v, "idle"))
  BY <1>4
<1>6. lost' \/ ~lost
  BY <1>4
<1> QED
  BY <1>2, <1>3, <1>4, <1>5, <1>6, SameRepo DEF Plain, SweepDoes

LEMMA RemovePlain ==
  ASSUME TypeInv, NEW w \in Sweeps, removeMarketplaceRepo(w)
  PROVE  Plain(w)
<1>1. sweep' = [sweep EXCEPT ![w] = NoSweep]
  BY DEF removeMarketplaceRepo
<1>2. OneSweep(w) /\ sweep'[w].pc = "idle"
  BY <1>1, SweepSet, NoSweepIs
<1>3. ~At(w, "idle") /\ ~At(w, "commit")
  BY DEF removeMarketplaceRepo, At
<1>4. UNCHANGED <<catalog, token, fetch, credited, missed, counter, shipped, lost, overlap>>
  BY DEF removeMarketplaceRepo, catalogVars, history
<1>5. repo' = repo \/ repo' = [id |-> repo.id + 1, log |-> <<>>]
  BY DEF removeMarketplaceRepo
<1>6. repo' \in Repos /\ Moves(repo, repo') /\ (repo' = repo \/ repo'.log = <<>>)
  <2>1. repo \in Repos /\ repo.id + 1 \in Nat \ {0}
    BY DEF TypeInv, Repos
  <2>2. <<>> \in Seq(Commits)
    OBVIOUS
  <2> DEFINE q == [id |-> repo.id + 1, log |-> <<>>]
  <2>3. q \in Repos /\ q.id = repo.id + 1 /\ q.log = <<>>
    BY <2>1, <2>2 DEF Repos
  <2> HIDE DEF q
  <2> QED
    BY <1>5, <2>1, <2>3 DEF q, Moves
<1>7. (lost' \/ ~lost) /\ (overlap' \/ ~overlap)
  BY <1>4
<1> QED
  BY <1>2, <1>3, <1>4, <1>6, <1>7 DEF Plain, SweepDoes

LEMMA ReadPlain ==
  ASSUME TypeInv, NEW w \in Sweeps, ReadSkills(w)
  PROVE  Plain(w)
<1>1. ~At(w, "idle") /\ ~At(w, "commit")
  BY DEF ReadSkills, At
<1>2. UNCHANGED <<catalog, token, fetch, credited, missed, repo, counter, shipped, lost,
                  overlap>>
  BY DEF ReadSkills, catalogVars, history
<1>3. (lost' \/ ~lost) /\ (overlap' \/ ~overlap)
  BY <1>2
<1>4. CASE Goto(w, "stamp")
  BY <1>1, <1>2, <1>3, <1>4, GotoSet, SameRepo DEF Plain, SweepDoes
<1>5. CASE sweep' = [sweep EXCEPT ![w].rows = Qualifying, ![w].before = Served,
                                  ![w].pc = "count"]
  <2> DEFINE r == [[[sweep[w] EXCEPT !.rows = Qualifying] EXCEPT !.before = Served]
                     EXCEPT !.pc = "count"]
  <2>1. sweep[w] \in SweepRow /\ sweep \in [Sweeps -> SweepRow]
    BY DEF TypeInv
  <2>2. Qualifying \in SUBSET Row /\ Served \in SUBSET Row
    BY QualifyingRows, ServedRows
  <2>3. r \in SweepRow /\ r.pc = "count" /\ r.before = Served
    BY <2>1, <2>2 DEF SweepRow
  <2>4. sweep' = [sweep EXCEPT ![w] = r]
    BY <1>5, <2>1
  <2> HIDE DEF r
  <2>5. OneSweep(w) /\ sweep'[w].pc = "count" /\ sweep'[w].before = Served
    BY <2>3, <2>4, SweepSet
  <2> QED
    BY <1>1, <1>2, <1>3, <2>5, SameRepo DEF Plain, SweepDoes
<1> QED
  BY <1>4, <1>5 DEF ReadSkills

LEMMA EndsPlain ==
  ASSUME TypeInv, NEW w \in Sweeps, stampMarketplaceSynced(w) \/ SweepFails(w)
  PROVE  Plain(w)
<1>1. sweep' = [sweep EXCEPT ![w] = NoSweep]
  BY DEF stampMarketplaceSynced, SweepFails
<1>2. OneSweep(w) /\ sweep'[w].pc = "idle"
  BY <1>1, SweepSet, NoSweepIs
<1>3. ~At(w, "idle")
  BY DEF stampMarketplaceSynced, SweepFails, At
<1>4. UNCHANGED <<catalog, token, fetch, credited, missed, repo, counter, shipped, overlap>>
  BY DEF stampMarketplaceSynced, SweepFails, catalogVars, history
<1>5. lost' \/ (~lost /\ ~At(w, "commit"))
  <2>1. CASE stampMarketplaceSynced(w)
    BY <2>1 DEF stampMarketplaceSynced, At, history
  <2>2. CASE SweepFails(w)
    BY <2>2 DEF SweepFails
  <2> QED
    BY <2>1, <2>2
<1>6. overlap' \/ ~overlap
  BY <1>4
<1> QED
  BY <1>2, <1>3, <1>4, <1>5, <1>6, SameRepo DEF Plain, SweepDoes

\* pluginCounter locks the plugins of w and computes their numbers.
Counts(w) ==
    /\ SweepDoes(w)
    /\ UNCHANGED <<repo, counter, shipped, lost, overlap>>
    /\ At(w, "count") /\ sweep'[w].pc = "synthesize"
    /\ sweep'[w].rows = sweep[w].rows /\ sweep'[w].before = sweep[w].before
    /\ \A p \in PluginsIn(sweep[w].rows) :
         /\ ~Locked(w, p)
         /\ sweep'[w].n[p] = NextN(p, sweep[w].rows)

LEMMA NextIs ==
  ASSUME TypeInv, NEW p \in Plugins, NEW rows
  PROVE  /\ NextN(p, rows) \in Nat
         /\ \/ NextN(p, rows) = counter[p].n + 1
            \/ NextN(p, rows) = counter[p].n /\ counter[p].fp = Fingerprint(p, rows)
<1>1. counter[p].n \in Nat
  BY DEF TypeInv, Counters
<1> QED
  BY <1>1 DEF NextN

LEMMA CounterDoes ==
  ASSUME TypeInv, NEW w \in Sweeps, pluginCounter(w)
  PROVE  Counts(w)
<1> DEFINE rows == sweep[w].rows
           m == [p \in Plugins |-> IF p \in PluginsIn(rows) THEN NextN(p, rows) ELSE 0]
           r == [[sweep[w] EXCEPT !.n = m] EXCEPT !.pc = "synthesize"]
<1>1. /\ At(w, "count") /\ ~At(w, "idle")
      /\ \A p \in PluginsIn(rows) : ~Locked(w, p)
      /\ UNCHANGED <<catalog, repo, counter, token, fetch, shipped, credited, missed, lost,
                     overlap>>
  BY DEF pluginCounter, At, catalogVars, history
<1>2. sweep[w] \in SweepRow /\ sweep \in [Sweeps -> SweepRow]
  BY DEF TypeInv
<1>3. PluginsIn(rows) \subseteq Plugins
  BY <1>2, RowsOf DEF SweepRow
<1>4. m \in [Plugins -> Nat] /\ \A p \in PluginsIn(rows) : m[p] = NextN(p, rows)
  BY <1>3, NextIs
<1>5. sweep' = [sweep EXCEPT ![w] = r]
  BY <1>2 DEF pluginCounter
<1> HIDE DEF m
<1>6. /\ r \in SweepRow /\ r.pc = "synthesize" /\ r.n = m /\ r.rows = sweep[w].rows
      /\ r.before = sweep[w].before
  BY <1>2, <1>4 DEF SweepRow
<1> HIDE DEF r
<1>7. OneSweep(w) /\ sweep'[w] = r
  BY <1>5, <1>6, SweepSet
<1>8. overlap' \/ ~overlap
  BY <1>1
<1> QED
  BY <1>1, <1>4, <1>6, <1>7, <1>8, SameRepo DEF Counts, SweepDoes

\* synthesizeMarketplace appends to main what it has read.
Synthesizes(w) ==
    LET rows == sweep[w].rows
    IN  /\ SweepDoes(w)
        /\ UNCHANGED <<counter, lost, overlap>>
        /\ At(w, "synthesize") /\ sweep'[w].pc = "commit"
        /\ sweep'[w].rows = rows /\ sweep'[w].n = sweep[w].n
        /\ repo'.log = Append(repo.log, [rows |-> rows,
                                         ledger |-> Changed(sweep[w].before, rows)])
        /\ shipped' = shipped \cup
             {<<p, sweep[w].n[p], Fingerprint(p, rows)>> : p \in PluginsIn(rows)}

LEMMA SynthesizeDoes ==
  ASSUME TypeInv, NEW w \in Sweeps, synthesizeMarketplace(w)
  PROVE  Synthesizes(w)
<1> DEFINE rows == sweep[w].rows
           c    == [rows |-> rows, ledger |-> Changed(sweep[w].before, rows)]
<1>1. /\ At(w, "synthesize") /\ ~At(w, "idle") /\ Goto(w, "commit")
      /\ UNCHANGED <<catalog, counter, token, fetch, credited, missed, lost, overlap>>
      /\ repo' = [repo EXCEPT !.log = Append(@, c)]
      /\ shipped' = shipped \cup
           {<<p, sweep[w].n[p], Fingerprint(p, rows)>> : p \in PluginsIn(rows)}
  BY DEF synthesizeMarketplace, At, catalogVars
<1>2. /\ OneSweep(w) /\ sweep'[w].pc = "commit" /\ sweep'[w].rows = rows
      /\ sweep'[w].n = sweep[w].n
  BY <1>1, GotoSet
<1>3. rows \in SUBSET Row /\ repo \in Repos /\ repo.log \in Seq(Commits)
  BY DEF TypeInv, SweepRow, Repos
<1>4. c \in Commits
  BY <1>3, RowsOf DEF Commits
<1>5. Append(repo.log, c) \in Seq(Commits)
  BY <1>3, <1>4, Grown
<1> HIDE DEF c
<1>6. /\ repo' \in Repos /\ repo'.id = repo.id /\ repo'.log = Append(repo.log, c)
  BY <1>1, <1>3, <1>5 DEF Repos
<1>7. Moves(repo, repo')
  BY <1>4, <1>6 DEF Moves
<1>8. overlap' \/ ~overlap
  BY <1>1
<1> QED
  BY <1>1, <1>2, <1>6, <1>7, <1>8 DEF Synthesizes, SweepDoes, c

\* CommitCounters writes the numbers of w, and unlocks.
Settles(w) ==
    /\ SweepDoes(w)
    /\ UNCHANGED <<repo, shipped, lost, overlap>>
    /\ At(w, "commit") /\ sweep'[w].pc = "stamp"
    /\ counter' \in [Plugins -> Counters]
    /\ \A p \in Plugins :
         counter'[p] = IF p \in PluginsIn(sweep[w].rows)
                       THEN [n |-> sweep[w].n[p], fp |-> Fingerprint(p, sweep[w].rows)]
                       ELSE counter[p]

LEMMA CommitDoes ==
  ASSUME TypeInv, NEW w \in Sweeps, CommitCounters(w)
  PROVE  Settles(w)
<1> DEFINE rows == sweep[w].rows
           c(p) == [n |-> sweep[w].n[p], fp |-> Fingerprint(p, rows)]
<1>1. /\ At(w, "commit") /\ ~At(w, "idle") /\ Goto(w, "stamp")
      /\ UNCHANGED <<catalog, repo, token, fetch, shipped, credited, missed, lost, overlap>>
      /\ counter' = [p \in Plugins |-> IF p \in PluginsIn(rows) THEN c(p) ELSE counter[p]]
  BY DEF CommitCounters, At, catalogVars, history
<1>2. OneSweep(w) /\ sweep'[w].pc = "stamp"
  BY <1>1, GotoSet
<1>3. rows \in SUBSET Row /\ sweep[w].n \in [Plugins -> Nat]
  BY DEF TypeInv, SweepRow
<1>4. \A p \in Plugins : c(p) \in Counters
  BY <1>3, RowsOf DEF Counters
<1> HIDE DEF c
<1>5. counter' \in [Plugins -> Counters]
  BY <1>1, <1>4 DEF TypeInv
<1>6. overlap' \/ ~overlap
  BY <1>1
<1> QED
  BY <1>1, <1>2, <1>5, <1>6, SameRepo DEF Settles, SweepDoes, c

-----------------------------------------------------------------------------
(* The conjuncts of the invariant, one by one *)

LEMMA TypeKept ==
  ASSUME TypeInv, NEW w \in Sweeps, SweepDoes(w), counter' \in [Plugins -> Counters],
         shipped' \subseteq Plugins \X Nat \X Contents
  PROVE  TypeInv'
BY DEF TypeInv, SweepDoes, OneSweep

\* Cursors and heads stay among the commits that main has had, and what they cover does.
LEMMA CursorsStay ==
  ASSUME TypeInv, CursorInv, repo' \in Repos, Moves(repo, repo'), CursorsKept,
         Known \subseteq Known', overlap' \/ ~overlap
  PROVE  CursorInv'
<1>1. SUFFICES ASSUME NEW t \in Tokens
               PROVE  /\ Passed(repo', token'[t].cursor)
                      /\ overlap' \/ Covers(Known', repo', token'[t].cursor)
  BY DEF CursorInv
<1>2. repo \in Repos /\ repo'.id \in Nat \ {0}
  BY DEF TypeInv, Repos
<1>3. CASE token'[t].cursor = token[t].cursor
  <2>1. Passed(repo, token[t].cursor) /\ (overlap \/ Covers(Known, repo, token[t].cursor))
    BY DEF CursorInv
  <2>2. token[t].cursor \in Points
    BY DEF TypeInv, TokenRow
  <2>3. /\ Passed(repo', token[t].cursor)
        /\ Covers(Known, repo, token[t].cursor) => Covers(Known', repo', token[t].cursor)
    BY <1>2, <2>1, <2>2, PointsStay
  <2> QED
    BY <1>3, <2>1, <2>3
<1>4. CASE token'[t].cursor = <<None, None>>
  BY <1>2, <1>4 DEF Passed, Covers, None
<1> QED
  BY <1>3, <1>4 DEF CursorsKept

LEMMA FetchStays ==
  ASSUME TypeInv, repo' \in Repos, Moves(repo, repo'), Known \subseteq Known',
         overlap' \/ ~overlap, NEW f \in Fetches, FetchOK(fetch[f]), fetch'[f] = fetch[f]
  PROVE  FetchOK(fetch[f])'
<1> DEFINE g == fetch[f]
<1>1. g.from \in Points /\ g.head \in Points /\ repo \in Repos
  BY DEF TypeInv, FetchRow
<1>2. g.pc # "idle" => /\ g.tok \in Tokens /\ Passed(repo', g.from)
                       /\ overlap' \/ Covers(Known', repo', g.from)
  <2>1. ASSUME g.pc # "idle"
        PROVE  /\ g.tok \in Tokens /\ Passed(repo, g.from)
               /\ overlap \/ Covers(Known, repo, g.from)
    BY <2>1 DEF FetchOK
  <2>2. Passed(repo, g.from) =>
          /\ Passed(repo', g.from)
          /\ Covers(Known, repo, g.from) => Covers(Known', repo', g.from)
    BY <1>1, PointsStay
  <2> HIDE DEF g
  <2> QED
    BY <2>1, <2>2
<1>3. g.pc \in {"mark", "diff", "credit"} => Passed(repo, g.head) /\ Passed(repo', g.head)
  BY <1>1, PointsStay DEF FetchOK
<1>4. g.pc = "credit" => overlap' \/ Covers(Known' \cup g.slugs, repo', g.head)
  <2>1. ASSUME g.pc = "credit"
        PROVE  Passed(repo, g.head) /\ (overlap \/ Covers(Known \cup g.slugs, repo, g.head))
    BY <2>1 DEF FetchOK
  <2>2. Known \cup g.slugs \subseteq Known' \cup g.slugs
    OBVIOUS
  <2>3. Passed(repo, g.head) /\ Covers(Known \cup g.slugs, repo, g.head)
          => Covers(Known' \cup g.slugs, repo', g.head)
    BY <1>1, <2>2, PointsStay
  <2> HIDE DEF g
  <2> QED
    BY <2>1, <2>3
<1> QED
  BY <1>2, <1>3, <1>4 DEF FetchOK

\* No step of a sweep touches a cursor or a fetch.
LEMMA PointsKept ==
  ASSUME IInv, NEW w \in Sweeps, SweepDoes(w)
  PROVE  CursorInv' /\ FetchInv'
<1>1. /\ TypeInv /\ CursorInv /\ FetchInv
      /\ repo' \in Repos /\ Moves(repo, repo') /\ Known \subseteq Known'
      /\ UNCHANGED <<token, fetch>>
  BY DEF IInv, SweepDoes, Known
<1>2. overlap' \/ ~overlap
  BY DEF SweepDoes
<1>3. CursorsKept
  BY <1>1 DEF CursorsKept, TypeInv
<1>4. CursorInv'
  BY <1>1, <1>2, <1>3, CursorsStay
<1>5. ASSUME NEW f \in Fetches PROVE FetchOK(fetch[f])'
  BY <1>1, <1>2, FetchStays DEF FetchInv
<1>6. FetchInv'
  BY <1>5 DEF FetchInv
<1> QED
  BY <1>4, <1>6

\* Without an overlap the other sweeps are idle.
LEMMA Alone ==
  ASSUME LedgerInv, NEW w \in Sweeps, SweepDoes(w), ~overlap'
  PROVE  /\ ~overlap /\ Ledgered(repo.log)
         /\ \A v \in Sweeps \ {w} : At(v, "idle") /\ At(v, "idle")'
         /\ \A v \in Sweeps : At(v, "count") \/ At(v, "synthesize") =>
                                sweep[v].before = Served
<1>1. ~overlap /\ (~At(w, "idle") \/ \A v \in Sweeps : At(v, "idle"))
  BY DEF SweepDoes
<1>2. \A u, v \in Sweeps : ~At(u, "idle") /\ ~At(v, "idle") => u = v
  BY <1>1 DEF LedgerInv
<1>3. \A v \in Sweeps \ {w} : At(v, "idle")
  BY <1>1, <1>2
<1>4. \A v \in Sweeps \ {w} : At(v, "idle")'
  BY <1>3 DEF At, SweepDoes, OneSweep
<1> QED
  BY <1>1, <1>3, <1>4 DEF LedgerInv

LEMMA LedgerBy ==
  ASSUME NEW w \in Sweeps, \A v \in Sweeps \ {w} : At(v, "idle")', Ledgered(repo'.log),
         sweep'[w].pc \in {"count", "synthesize"} => sweep'[w].before = Served'
  PROVE  LedgerInv'
<1>1. \A u, v \in Sweeps : ~At(u, "idle")' /\ ~At(v, "idle")' => u = v
  OBVIOUS
<1>2. \A v \in Sweeps : At(v, "count")' \/ At(v, "synthesize")' => sweep'[v].before = Served'
  BY DEF At
<1> QED
  BY <1>1, <1>2 DEF LedgerInv

LEMMA OverlapEnough == overlap' => LedgerInv'
BY DEF LedgerInv

\* A step that locks nothing keeps what is locked.
LEMMA LockKept ==
  ASSUME LockInv, NEW w \in Sweeps, SweepDoes(w), counter' = counter,
         Holds(w)' => /\ Holds(w) /\ sweep'[w].rows = sweep[w].rows
                      /\ sweep'[w].n = sweep[w].n
  PROVE  LockInv'
<1>1. \A v \in Sweeps : v # w => sweep'[v] = sweep[v]
  BY DEF SweepDoes, OneSweep
<1>2. \A v \in Sweeps, p \in Plugins : Holding(v, p)' =>
        Holding(v, p) /\ sweep'[v].rows = sweep[v].rows /\ sweep'[v].n = sweep[v].n
  BY <1>1 DEF Holding, Holds
<1>3. \A v, u \in Sweeps, p \in Plugins : Holding(v, p)' /\ Holding(u, p)' => v = u
  BY <1>2 DEF LockInv
<1>4. \A v \in Sweeps, p \in Plugins : Holding(v, p)' =>
        \/ sweep'[v].n[p] = counter'[p].n + 1
        \/ sweep'[v].n[p] = counter'[p].n /\ counter'[p].fp = Fingerprint(p, sweep'[v].rows)
  BY <1>2 DEF LockInv
<1> QED
  BY <1>3, <1>4 DEF LockInv

LEMMA ShippedKept ==
  ASSUME ShippedInv, NEW w \in Sweeps, SweepDoes(w), counter' = counter, shipped' = shipped,
         lost' \/ (~lost /\ ~At(w, "commit"))
  PROVE  ShippedInv'
<1>1. CASE lost'
  BY <1>1 DEF ShippedInv
<1>2. CASE ~lost /\ ~At(w, "commit")
  <2>1. \A x, y \in shipped : x[1] = y[1] /\ x[2] = y[2] => x = y
    BY <1>2 DEF ShippedInv, VersionNamesContent
  <2>2. ASSUME NEW x \in shipped PROVE Recorded(x)' \/ Coming(x)'
    <3>1. Recorded(x) \/ Coming(x)
      BY <1>2 DEF ShippedInv
    <3>2. CASE Recorded(x)
      BY <3>2 DEF Recorded
    <3>3. CASE Coming(x)
      <4>1. PICK v \in Sweeps : /\ sweep[v].pc = "commit" /\ Holding(v, x[1])
                                /\ x[2] = sweep[v].n[x[1]]
                                /\ x[3] = Fingerprint(x[1], sweep[v].rows)
        BY <3>3 DEF Coming
      <4>2. sweep'[v] = sweep[v]
        BY <1>2, <4>1 DEF SweepDoes, OneSweep, At
      <4> QED
        BY <4>1, <4>2 DEF Coming, Holding, Holds
    <3> QED
      BY <3>1, <3>2, <3>3
  <2> QED
    BY <2>1, <2>2 DEF ShippedInv, VersionNamesContent
<1> QED
  BY <1>1, <1>2

LEMMA PlainKept ==
  ASSUME IInv, NEW w \in Sweeps, Plain(w)
  PROVE  IInv'
<1>1. /\ TypeInv /\ LockInv /\ ShippedInv /\ LedgerInv
      /\ SweepDoes(w) /\ counter' = counter /\ shipped' = shipped
  BY DEF IInv, Plain
<1>2. TypeInv'
  BY <1>1, TypeKept DEF TypeInv
<1>3. CursorInv' /\ FetchInv'
  BY <1>1, PointsKept
<1>4. ~Holds(w)'
  BY DEF Plain, Holds
<1>5. LockInv'
  BY <1>1, <1>4, LockKept
<1>6. lost' \/ (~lost /\ ~At(w, "commit"))
  BY DEF Plain
<1>7. ShippedInv'
  BY <1>1, <1>6, ShippedKept
<1>8. ASSUME ~overlap' PROVE LedgerInv'
  <2>1. /\ Ledgered(repo.log) /\ \A v \in Sweeps \ {w} : At(v, "idle")'
    BY <1>1, <1>8, Alone
  <2>2. Ledgered(repo'.log)
    <3>1. CASE repo' = repo
      BY <2>1, <3>1
    <3>2. CASE repo'.log = <<>>
      BY <3>2 DEF Ledgered
    <3> QED
      BY <3>1, <3>2 DEF Plain
  <2>3. sweep'[w].pc \in {"count", "synthesize"} => sweep'[w].before = Served'
    BY DEF Plain, Served, Born, Main
  <2> QED
    BY <2>1, <2>2, <2>3, LedgerBy
<1> QED
  BY <1>2, <1>3, <1>5, <1>7, <1>8, OverlapEnough DEF IInv

LEMMA CountsKept ==
  ASSUME IInv, NEW w \in Sweeps, Counts(w)
  PROVE  IInv'
<1>1. /\ TypeInv /\ LockInv /\ ShippedInv /\ LedgerInv
      /\ SweepDoes(w) /\ UNCHANGED <<repo, counter, shipped, lost, overlap>>
      /\ At(w, "count") /\ sweep'[w].pc = "synthesize"
      /\ sweep'[w].rows = sweep[w].rows /\ sweep'[w].before = sweep[w].before
  BY DEF IInv, Counts
<1>2. TypeInv'
  BY <1>1, TypeKept DEF TypeInv
<1>3. CursorInv' /\ FetchInv'
  BY <1>1, PointsKept
<1>4. LockInv'
  <2>1. \A v \in Sweeps \ {w} : sweep'[v] = sweep[v]
    BY <1>1 DEF SweepDoes, OneSweep
  <2>2. \A v \in Sweeps \ {w}, p \in Plugins : Holding(v, p)' = Holding(v, p)
    BY <2>1 DEF Holding, Holds
  <2>3. \A p \in Plugins : Holding(w, p)' => p \in PluginsIn(sweep[w].rows)
    BY <1>1 DEF Holding
  <2>4. \A v \in Sweeps \ {w}, p \in Plugins : Holding(v, p) /\ Holding(w, p)' => FALSE
    <3>1. ASSUME NEW v \in Sweeps \ {w}, NEW p \in Plugins, Holding(v, p),
                 p \in PluginsIn(sweep[w].rows)
          PROVE  Locked(w, p)
      BY <3>1 DEF Holding, Holds, Locked, At
    <3> QED
      BY <3>1, <2>3 DEF Counts
  <2>5. \A v, u \in Sweeps, p \in Plugins : Holding(v, p)' /\ Holding(u, p)' => v = u
    <3>1. \A v, u \in Sweeps \ {w}, p \in Plugins : Holding(v, p) /\ Holding(u, p) => v = u
      BY <1>1 DEF LockInv
    <3> QED
      BY <3>1, <2>2, <2>4
  <2>6. ASSUME NEW v \in Sweeps, NEW p \in Plugins, Holding(v, p)'
        PROVE  \/ sweep'[v].n[p] = counter'[p].n + 1
               \/ /\ sweep'[v].n[p] = counter'[p].n
                  /\ counter'[p].fp = Fingerprint(p, sweep'[v].rows)
    <3>1. CASE v = w
      <4>1. sweep'[w].n[p] = NextN(p, sweep[w].rows)
        BY <2>3, <2>6, <3>1 DEF Counts
      <4> QED
        BY <1>1, <3>1, <4>1, NextIs
    <3>2. CASE v # w
      <4>1. sweep'[v] = sweep[v] /\ Holding(v, p)
        BY <2>1, <2>2, <2>6, <3>2
      <4> QED
        BY <1>1, <4>1 DEF LockInv
    <3> QED
      BY <3>1, <3>2
  <2> QED
    BY <2>5, <2>6 DEF LockInv
<1>5. ShippedInv'
  <2>1. ~At(w, "commit")
    BY <1>1 DEF At
  <2>2. lost' \/ ~lost
    BY <1>1
  <2> QED
    BY <1>1, <2>1, <2>2, ShippedKept
<1>6. ASSUME ~overlap' PROVE LedgerInv'
  <2>1. /\ Ledgered(repo.log) /\ \A v \in Sweeps \ {w} : At(v, "idle")'
        /\ sweep[w].before = Served
    BY <1>1, <1>6, Alone
  <2>2. Served' = Served /\ Ledgered(repo'.log)
    BY <1>1, <2>1 DEF Served, Born, Main
  <2> QED
    BY <1>1, <2>1, <2>2, LedgerBy
<1> QED
  BY <1>2, <1>3, <1>4, <1>5, <1>6, OverlapEnough DEF IInv

\* A number that main gets is that of its content in the table, or none that it had.
LEMMA SynthesizesKept ==
  ASSUME IInv, NEW w \in Sweeps, Synthesizes(w)
  PROVE  IInv'
<1> DEFINE rows == sweep[w].rows
           New(p) == <<p, sweep[w].n[p], Fingerprint(p, rows)>>
<1>1. /\ TypeInv /\ LockInv /\ ShippedInv /\ LedgerInv
      /\ SweepDoes(w) /\ UNCHANGED <<counter, lost, overlap>>
      /\ At(w, "synthesize") /\ sweep'[w].pc = "commit"
      /\ sweep'[w].rows = rows /\ sweep'[w].n = sweep[w].n
      /\ shipped' = shipped \cup {New(p) : p \in PluginsIn(rows)}
  BY DEF IInv, Synthesizes
<1>2. /\ rows \in SUBSET Row /\ PluginsIn(rows) \subseteq Plugins
      /\ sweep[w].n \in [Plugins -> Nat]
      /\ \A p \in Plugins : Fingerprint(p, rows) \in Contents
  BY <1>1, RowsOf DEF TypeInv, SweepRow
<1>3. shipped' \subseteq Plugins \X Nat \X Contents
  BY <1>1, <1>2 DEF TypeInv
<1>4. TypeInv'
  BY <1>1, <1>3, TypeKept DEF TypeInv
<1>5. CursorInv' /\ FetchInv'
  BY <1>1, PointsKept
<1>6. LockInv'
  BY <1>1, LockKept DEF Holds, At
<1>7. ASSUME ~lost PROVE ShippedInv'
  <2>1. /\ \A x, y \in shipped : x[1] = y[1] /\ x[2] = y[2] => x = y
        /\ \A x \in shipped : Recorded(x) \/ Coming(x)
    BY <1>1, <1>7 DEF ShippedInv, VersionNamesContent
  <2>2. \A p \in PluginsIn(rows) : p \in Plugins /\ Holding(w, p)
    BY <1>1, <1>2 DEF Holding, Holds, At
  <2>3. ASSUME NEW x \in shipped, NEW p \in PluginsIn(rows), x[1] = p, x[2] = sweep[w].n[p]
        PROVE  x = New(p)
    <3>1. ~Coming(x)
      <4>1. \A v \in Sweeps : sweep[v].pc = "commit" => v # w
        BY <1>1 DEF At
      <4> QED
        BY <1>1, <2>2, <2>3, <4>1 DEF Coming, LockInv
    <3>2. Recorded(x)
      BY <2>1, <3>1
    <3>3. counter[p].n \in Nat /\ x \in Plugins \X Nat \X Contents
      BY <1>1, <2>2 DEF TypeInv, Counters
    <3>4. \/ sweep[w].n[p] = counter[p].n + 1
          \/ sweep[w].n[p] = counter[p].n /\ counter[p].fp = Fingerprint(p, rows)
      BY <1>1, <2>2 DEF LockInv
    <3>5. x[3] = Fingerprint(p, rows)
      BY <2>3, <3>2, <3>3, <3>4 DEF Recorded
    <3> QED
      BY <2>3, <3>3, <3>5
  <2>4. ASSUME NEW p \in PluginsIn(rows)
        PROVE  New(p)[1] = p /\ New(p)[2] = sweep[w].n[p] /\ New(p)[3] = Fingerprint(p, rows)
    OBVIOUS
  <2> HIDE DEF New
  <2>5. ASSUME NEW x \in shipped', NEW y \in shipped', x[1] = y[1], x[2] = y[2]
        PROVE  x = y
    <3>1. CASE x \in shipped /\ y \in shipped
      BY <2>1, <2>5, <3>1
    <3>2. ASSUME x \in shipped, NEW p \in PluginsIn(rows), y = New(p) PROVE x = y
      BY <2>3, <2>4, <2>5, <3>2
    <3>3. ASSUME y \in shipped, NEW p \in PluginsIn(rows), x = New(p) PROVE x = y
      BY <2>3, <2>4, <2>5, <3>3
    <3>4. ASSUME NEW p \in PluginsIn(rows), NEW q \in PluginsIn(rows), x = New(p), y = New(q)
          PROVE  x = y
      BY <2>4, <2>5, <3>4
    <3>5. /\ x \in shipped \/ \E p \in PluginsIn(rows) : x = New(p)
          /\ y \in shipped \/ \E p \in PluginsIn(rows) : y = New(p)
      BY <1>1, <2>5
    <3> QED
      BY <3>1, <3>2, <3>3, <3>4, <3>5
  <2>6. \A v \in Sweeps \ {w} : sweep'[v] = sweep[v]
    BY <1>1 DEF SweepDoes, OneSweep
  <2>7. ASSUME NEW x \in shipped PROVE Recorded(x)' \/ Coming(x)'
    <3>1. CASE Recorded(x)
      BY <1>1, <3>1 DEF Recorded
    <3>2. CASE Coming(x)
      <4>1. PICK v \in Sweeps : /\ sweep[v].pc = "commit" /\ Holding(v, x[1])
                                /\ x[2] = sweep[v].n[x[1]]
                                /\ x[3] = Fingerprint(x[1], sweep[v].rows)
        BY <3>2 DEF Coming
      <4>2. sweep'[v] = sweep[v]
        BY <1>1, <2>6, <4>1 DEF At
      <4> QED
        BY <4>1, <4>2 DEF Coming, Holding, Holds
    <3> QED
      BY <2>1, <3>1, <3>2
  <2>8. ASSUME NEW p \in PluginsIn(rows)
        PROVE  \A x : x = New(p) => Coming(x)'
    BY <1>1, <2>4 DEF Coming, Holding, Holds
  <2>9. \A x \in shipped' : Recorded(x)' \/ Coming(x)'
    BY <1>1, <2>7, <2>8
  <2> QED
    BY <2>5, <2>9 DEF ShippedInv, VersionNamesContent
<1>8. lost => ShippedInv'
  BY <1>1 DEF ShippedInv
<1>9. ASSUME ~overlap' PROVE LedgerInv'
  <2>1. /\ Ledgered(repo.log) /\ \A v \in Sweeps \ {w} : At(v, "idle")'
        /\ sweep[w].before = Served
    BY <1>1, <1>9, Alone
  <2>2. repo.log \in Seq(Commits)
    BY <1>1 DEF TypeInv, Repos
  <2>3. repo'.log = Append(repo.log, [rows |-> rows,
                                      ledger |-> Changed(sweep[w].before, rows)])
    BY DEF Synthesizes
  <2>4. Ledgered(repo'.log)
    BY <1>2, <2>1, <2>2, <2>3, LedgeredGrows DEF Served, Born, Main
  <2> QED
    BY <1>1, <2>1, <2>4, LedgerBy
<1> QED
  BY <1>4, <1>5, <1>6, <1>7, <1>8, <1>9, OverlapEnough DEF IInv

\* The table takes over what main was given, and no older number comes back.
LEMMA SettlesKept ==
  ASSUME IInv, NEW w \in Sweeps, Settles(w)
  PROVE  IInv'
<1> DEFINE rows == sweep[w].rows
<1>1. /\ TypeInv /\ LockInv /\ ShippedInv /\ LedgerInv
      /\ SweepDoes(w) /\ UNCHANGED <<repo, shipped, lost, overlap>>
      /\ At(w, "commit") /\ sweep'[w].pc = "stamp"
      /\ counter' \in [Plugins -> Counters]
  BY DEF IInv, Settles
<1>2. TypeInv'
  BY <1>1, TypeKept DEF TypeInv
<1>3. CursorInv' /\ FetchInv'
  BY <1>1, PointsKept
<1>4. \A v \in Sweeps \ {w} : sweep'[v] = sweep[v]
  BY <1>1 DEF SweepDoes, OneSweep
<1>5. \A p \in Plugins : p \in PluginsIn(rows) =>
        /\ Holding(w, p)
        /\ counter'[p].n = sweep[w].n[p] /\ counter'[p].fp = Fingerprint(p, rows)
  BY <1>1 DEF Settles, Holding, Holds, At
<1>6. \A p \in Plugins : p \notin PluginsIn(rows) => counter'[p] = counter[p]
  BY DEF Settles
<1>7. \A v \in Sweeps \ {w}, p \in Plugins : Holding(v, p) => counter'[p] = counter[p]
  BY <1>1, <1>5, <1>6 DEF LockInv
<1>8. LockInv'
  <2>1. \A v \in Sweeps, p \in Plugins : Holding(v, p)' => v # w /\ Holding(v, p)
    BY <1>1, <1>4 DEF Holding, Holds
  <2>2. \A v, u \in Sweeps, p \in Plugins : Holding(v, p)' /\ Holding(u, p)' => v = u
    BY <1>1, <2>1 DEF LockInv
  <2>3. ASSUME NEW v \in Sweeps, NEW p \in Plugins, Holding(v, p)'
        PROVE  \/ sweep'[v].n[p] = counter'[p].n + 1
               \/ /\ sweep'[v].n[p] = counter'[p].n
                  /\ counter'[p].fp = Fingerprint(p, sweep'[v].rows)
    <3>1. Holding(v, p) /\ sweep'[v] = sweep[v] /\ counter'[p] = counter[p]
      BY <1>4, <1>7, <2>1, <2>3
    <3> QED
      BY <1>1, <3>1 DEF LockInv
  <2> QED
    BY <2>2, <2>3 DEF LockInv
<1>9. ASSUME ~lost PROVE ShippedInv'
  <2>1. /\ \A x, y \in shipped : x[1] = y[1] /\ x[2] = y[2] => x = y
        /\ \A x \in shipped : Recorded(x) \/ Coming(x)
    BY <1>1, <1>9 DEF ShippedInv, VersionNamesContent
  <2>2. ASSUME NEW x \in shipped PROVE Recorded(x)' \/ Coming(x)'
    <3>1. x[1] \in Plugins /\ x[2] \in Nat /\ counter[x[1]].n \in Nat
      BY <1>1 DEF TypeInv, Counters
    <3>2. CASE Recorded(x) /\ x[1] \notin PluginsIn(rows)
      BY <1>6, <3>1, <3>2 DEF Recorded
    <3>3. CASE Recorded(x) /\ x[1] \in PluginsIn(rows)
      <4> DEFINE p == x[1]
      <4>1. Holding(w, p) /\ counter'[p].n = sweep[w].n[p]
            /\ counter'[p].fp = Fingerprint(p, rows)
        BY <1>5, <3>1, <3>3
      <4>2. \/ counter'[p].n = counter[p].n + 1
            \/ counter'[p].n = counter[p].n /\ counter'[p].fp = counter[p].fp
        BY <1>1, <3>1, <4>1 DEF LockInv
      <4>3. x[2] < counter[p].n \/ (x[2] = counter[p].n /\ x[3] = counter[p].fp)
        BY <3>3 DEF Recorded
      <4>4. x[2] < counter'[p].n \/ (x[2] = counter'[p].n /\ x[3] = counter'[p].fp)
        BY <3>1, <4>2, <4>3
      <4> QED
        BY <4>4 DEF Recorded
    <3>4. CASE Coming(x)
      <4>1. PICK v \in Sweeps : /\ sweep[v].pc = "commit" /\ Holding(v, x[1])
                                /\ x[2] = sweep[v].n[x[1]]
                                /\ x[3] = Fingerprint(x[1], sweep[v].rows)
        BY <3>4 DEF Coming
      <4>2. CASE v = w
        <5>1. x[1] \in PluginsIn(rows)
          BY <4>1, <4>2 DEF Holding
        <5> QED
          BY <1>5, <3>1, <4>1, <4>2, <5>1 DEF Recorded
      <4>3. CASE v # w
        BY <1>4, <4>1, <4>3 DEF Coming, Holding, Holds
      <4> QED
        BY <4>2, <4>3
    <3> QED
      BY <2>1, <3>2, <3>3, <3>4
  <2> QED
    BY <1>1, <2>1, <2>2 DEF ShippedInv, VersionNamesContent
<1>10. lost => ShippedInv'
  BY <1>1 DEF ShippedInv
<1>11. ASSUME ~overlap' PROVE LedgerInv'
  <2>1. /\ Ledgered(repo.log) /\ \A v \in Sweeps \ {w} : At(v, "idle")'
    BY <1>1, <1>11, Alone
  <2> QED
    BY <1>1, <2>1, LedgerBy
<1> QED
  BY <1>2, <1>3, <1>8, <1>9, <1>10, <1>11, OverlapEnough DEF IInv

LEMMA SweepKept ==
  ASSUME IInv, NEW w \in Sweeps, SweepStep(w) \/ SweepFails(w)
  PROVE  IInv'
<1>1. TypeInv
  BY DEF IInv
<1>2. CASE \/ SweepBegins(w) \/ removeMarketplaceRepo(w) \/ ReadSkills(w)
           \/ stampMarketplaceSynced(w) \/ SweepFails(w)
  BY <1>1, <1>2, BeginsPlain, RemovePlain, ReadPlain, EndsPlain, PlainKept
<1>3. CASE pluginCounter(w)
  BY <1>1, <1>3, CounterDoes, CountsKept
<1>4. CASE synthesizeMarketplace(w)
  BY <1>1, <1>4, SynthesizeDoes, SynthesizesKept
<1>5. CASE CommitCounters(w)
  BY <1>1, <1>5, CommitDoes, SettlesKept
<1> QED
  BY <1>2, <1>3, <1>4, <1>5 DEF SweepStep

-----------------------------------------------------------------------------
(* The fetch, and whatever does not touch the sweeps *)

LEMMA SweepsSame ==
  ASSUME IInv, UNCHANGED <<repo, counter, sweep, shipped, lost, overlap>>
  PROVE  LockInv' /\ ShippedInv' /\ LedgerInv'
<1>1. LockInv' = LockInv
  BY DEF LockInv, Holding, Holds
<1>2. ShippedInv' = ShippedInv
  BY DEF ShippedInv, VersionNamesContent, Recorded, Coming, Holding, Holds
<1>3. LedgerInv' = LedgerInv
  BY DEF LedgerInv, At, Served, Born, Main
<1> QED
  BY <1>1, <1>2, <1>3 DEF IInv

LEMMA WebKept ==
  ASSUME IInv, WebDoes
  PROVE  IInv'
<1>1. /\ TypeInv /\ CursorInv /\ FetchInv /\ CursorsKept
      /\ UNCHANGED <<repo, counter, sweep, fetch, shipped, credited, missed, lost, overlap>>
  BY DEF IInv, WebDoes
<1>2. TypeInv'
  BY <1>1 DEF TypeInv, WebDoes, CursorsKept
<1>3. LockInv' /\ ShippedInv' /\ LedgerInv'
  BY <1>1, SweepsSame
<1>4. repo' \in Repos /\ Moves(repo, repo') /\ Known \subseteq Known'
  BY <1>1, SameRepo DEF Known
<1>5. overlap' \/ ~overlap
  BY <1>1
<1>6. CursorInv'
  BY <1>1, <1>4, <1>5, CursorsStay
<1>7. ASSUME NEW f \in Fetches PROVE FetchOK(fetch[f])'
  BY <1>1, <1>4, <1>5, FetchStays DEF FetchInv
<1>8. FetchInv'
  BY <1>7 DEF FetchInv
<1> QED
  BY <1>2, <1>3, <1>6, <1>8 DEF IInv

\* What every step of a fetch f does, apart from the tokens and what the user knows.
FetchDoes(f) ==
    /\ UNCHANGED <<catalog, repo, counter, sweep, shipped, lost, overlap>>
    /\ fetch' \in [Fetches -> FetchRow]
    /\ \A g \in Fetches \ {f} : fetch'[g] = fetch[g]
    /\ Known \subseteq Known'

LEMMA FetchSet ==
  ASSUME TypeInv, NEW f \in Fetches, NEW r \in FetchRow, fetch' = [fetch EXCEPT ![f] = r]
  PROVE  /\ fetch' \in [Fetches -> FetchRow] /\ fetch'[f] = r
         /\ \A g \in Fetches \ {f} : fetch'[g] = fetch[g]
BY DEF TypeInv

LEMMA NoFetchIs ==
  NoFetch \in FetchRow /\ NoFetch.pc = "idle" /\ FetchOK(NoFetch) /\ FetchOK(NoFetch)'
<1>1. <<None, None>> \in Points /\ {} \in SUBSET Skills /\ None \in Tokens \cup {None}
  BY DEF None, Points
<1>2. NoFetch \in FetchRow /\ NoFetch.pc = "idle"
  BY <1>1 DEF NoFetch, FetchRow
<1>3. NoFetch' = NoFetch
  BY DEF NoFetch
<1> QED
  BY <1>2, <1>3 DEF FetchOK

\* A step that keeps the cursors and leaves its own fetch as it should be keeps all.
LEMMA FetchKept ==
  ASSUME IInv, NEW f \in Fetches, FetchDoes(f), CursorsKept \/ (CursorInv' /\ TypeInv'),
         FetchOK(fetch[f])'
  PROVE  IInv'
<1>1. /\ TypeInv /\ CursorInv /\ FetchInv /\ Known \subseteq Known'
      /\ UNCHANGED <<catalog, repo, counter, sweep, shipped, lost, overlap>>
      /\ \A g \in Fetches \ {f} : fetch'[g] = fetch[g]
  BY DEF IInv, FetchDoes
<1>2. repo' \in Repos /\ Moves(repo, repo')
  BY <1>1, SameRepo
<1>3. overlap' \/ ~overlap
  BY <1>1
<1>4. TypeInv'
  BY <1>1 DEF TypeInv, FetchDoes, CursorsKept
<1>5. CursorInv'
  BY <1>1, <1>2, <1>3, CursorsStay
<1>6. ASSUME NEW g \in Fetches \ {f} PROVE FetchOK(fetch[g])'
  BY <1>1, <1>2, <1>3, FetchStays DEF FetchInv
<1>7. FetchInv'
  BY <1>6 DEF FetchInv
<1>8. LockInv' /\ ShippedInv' /\ LedgerInv'
  BY <1>1, SweepsSame
<1> QED
  BY <1>4, <1>5, <1>7, <1>8 DEF IInv

LEMMA FetchMoves ==
  ASSUME IInv, NEW f \in Fetches, NEW r \in FetchRow, fetch' = [fetch EXCEPT ![f] = r],
         FetchOK(r), CursorsKept,
         UNCHANGED <<catalog, repo, counter, sweep, shipped, credited, missed, lost, overlap>>
  PROVE  IInv'
<1>1. /\ fetch' \in [Fetches -> FetchRow] /\ fetch'[f] = r
      /\ \A g \in Fetches \ {f} : fetch'[g] = fetch[g]
  BY FetchSet DEF IInv
<1>2. FetchDoes(f)
  BY <1>1 DEF FetchDoes, Known
<1>3. FetchOK(fetch[f])'
  BY <1>1 DEF FetchOK, Known
<1> QED
  BY <1>2, <1>3, FetchKept

LEMMA TokensSame ==
  ASSUME TypeInv, token' = token
  PROVE  CursorsKept
BY DEF TypeInv, CursorsKept

LEMMA AuthorizeKept ==
  ASSUME IInv, NEW f \in Fetches, NEW t \in Tokens, Authorize(f, t)
  PROVE  IInv'
<1> DEFINE r == [[[NoFetch EXCEPT !.pc = "head"] EXCEPT !.tok = t]
                   EXCEPT !.from = token[t].cursor]
<1>1. /\ TypeInv /\ token[t].cursor \in Points
      /\ Passed(repo, token[t].cursor) /\ (overlap \/ Covers(Known, repo, token[t].cursor))
  BY DEF IInv, TypeInv, TokenRow, CursorInv
<1>2. r \in FetchRow /\ r.pc = "head" /\ r.tok = t /\ r.from = token[t].cursor
  BY <1>1, NoFetchIs DEF FetchRow
<1>3. fetch' = [fetch EXCEPT ![f] = r]
  BY DEF Authorize
<1>4. UNCHANGED <<catalog, repo, counter, token, sweep, shipped, credited, missed, lost,
                  overlap>>
  BY DEF Authorize, catalogVars, history
<1> HIDE DEF r
<1>5. FetchOK(r)
  BY <1>1, <1>2 DEF FetchOK
<1> QED
  BY <1>1, <1>2, <1>3, <1>4, <1>5, TokensSame, FetchMoves

LEMMA AnsweredKept ==
  ASSUME IInv, NEW f \in Fetches, Answered(f),
         UNCHANGED <<catalog, repo, counter, token, sweep, shipped, credited, missed, lost,
                     overlap>>
  PROVE  IInv'
<1>1. fetch' = [fetch EXCEPT ![f] = NoFetch] /\ CursorsKept
  BY TokensSame DEF Answered, IInv
<1> QED
  BY <1>1, NoFetchIs, FetchMoves

\* What a fetch in progress has.
LEMMA Fetching ==
  ASSUME IInv, NEW f \in Fetches, ~Reaches(f, "idle")
  PROVE  /\ TypeInv /\ fetch[f] \in FetchRow /\ fetch[f].tok \in Tokens
         /\ Passed(repo, fetch[f].from) /\ (overlap \/ Covers(Known, repo, fetch[f].from))
         /\ fetch[f].from \in Points /\ fetch[f].head \in Points
         /\ repo \in Repos /\ repo.log \in Seq(Commits)
         /\ fetch[f].pc \in {"mark", "diff", "credit"} => Passed(repo, fetch[f].head)
         /\ fetch[f].pc = "credit" =>
              overlap \/ Covers(Known \cup fetch[f].slugs, repo, fetch[f].head)
<1>1. TypeInv /\ fetch[f] \in FetchRow /\ FetchOK(fetch[f]) /\ fetch[f].pc # "idle"
  BY DEF IInv, TypeInv, FetchInv, Reaches
<1>2. /\ fetch[f].from \in Points /\ fetch[f].head \in Points
      /\ repo \in Repos /\ repo.log \in Seq(Commits)
  BY <1>1 DEF FetchRow, TypeInv, Repos
<1> QED
  BY <1>1, <1>2 DEF FetchOK

LEMMA HeadKept ==
  ASSUME IInv, NEW f \in Fetches, marketplaceHead(f)
  PROVE  IInv'
<1>1. /\ Reaches(f, "head") /\ ~Reaches(f, "idle")
      /\ UNCHANGED <<catalog, repo, counter, token, sweep, shipped, credited, missed, lost,
                     overlap>>
  BY DEF marketplaceHead, Reaches, catalogVars, history
<1>2. CASE Born /\ fetch' = [fetch EXCEPT ![f].head = MainHead, ![f].pc = "mark"]
  <2> DEFINE r == [[fetch[f] EXCEPT !.head = MainHead] EXCEPT !.pc = "mark"]
  <2>1. /\ TypeInv /\ fetch[f] \in FetchRow /\ fetch[f].tok \in Tokens
        /\ Passed(repo, fetch[f].from) /\ (overlap \/ Covers(Known, repo, fetch[f].from))
        /\ repo \in Repos /\ repo.log \in Seq(Commits)
    BY <1>1, Fetching
  <2>2. /\ repo.id \in Nat /\ Len(repo.log) \in Nat
        /\ Len(repo.log) \in 1..Len(repo.log)
    BY <1>2, <2>1 DEF Born, Repos
  <2>3. MainHead \in Points /\ Passed(repo, MainHead)
    BY <1>2, <2>2 DEF MainHead, Points, Passed
  <2>4. /\ r \in FetchRow /\ r.pc = "mark" /\ r.tok = fetch[f].tok /\ r.head = MainHead
        /\ r.from = fetch[f].from
    BY <2>1, <2>3 DEF FetchRow
  <2>5. fetch' = [fetch EXCEPT ![f] = r]
    BY <1>2, <2>1 DEF TypeInv
  <2> HIDE DEF r
  <2>6. FetchOK(r)
    BY <2>1, <2>3, <2>4 DEF FetchOK
  <2> QED
    BY <1>1, <2>1, <2>4, <2>5, <2>6, TokensSame, FetchMoves
<1>3. CASE Answered(f)
  BY <1>1, <1>3, AnsweredKept
<1> QED
  BY <1>2, <1>3 DEF marketplaceHead

LEMMA MarkKept ==
  ASSUME IInv, NEW f \in Fetches, markMarketplaceUsed(f)
  PROVE  IInv'
<1> DEFINE t == fetch[f].tok
           r == [fetch[f] EXCEPT !.pc = "diff"]
<1>1. /\ Reaches(f, "mark") /\ ~Reaches(f, "idle")
      /\ UNCHANGED <<catalog, repo, counter, sweep, shipped, credited, missed, lost, overlap>>
      /\ fetch' = [fetch EXCEPT ![f] = r]
  BY DEF markMarketplaceUsed, Reaches, catalogVars, history
<1>2. /\ TypeInv /\ fetch[f] \in FetchRow /\ fetch[f].tok \in Tokens
      /\ Passed(repo, fetch[f].from) /\ (overlap \/ Covers(Known, repo, fetch[f].from))
      /\ Passed(repo, fetch[f].head)
  BY <1>1, Fetching DEF Reaches
<1>3. /\ r \in FetchRow /\ r.pc = "diff" /\ r.tok = t /\ r.head = fetch[f].head
      /\ r.from = fetch[f].from
  BY <1>2 DEF FetchRow
<1> HIDE DEF r
<1>4. FetchOK(r)
  BY <1>2, <1>3 DEF FetchOK
<1>5. CursorsKept
  <2>1. CASE token' = token
    BY <1>2, <2>1, TokensSame
  <2>2. CASE token' = [Deleted(Unclaimed \ {t}) EXCEPT ![t].status = "claimed"]
    <3> DEFINE k == Deleted(Unclaimed \ {t})
               s == [k[t] EXCEPT !.status = "claimed"]
    <3>1. /\ k \in [Tokens -> TokenRow]
          /\ \A u \in Tokens : k[u].cursor \in {token[u].cursor, <<None, None>>}
      BY <1>2, DeletedIs
    <3>2. k[t] \in TokenRow /\ k[t].cursor \in {token[t].cursor, <<None, None>>}
      BY <1>2, <3>1
    <3>3. token' = [k EXCEPT ![t] = [k[t] EXCEPT !.status = "claimed"]]
      BY <2>2
    <3> HIDE DEF k
    <3>4. s \in TokenRow /\ s.cursor = k[t].cursor /\ token' = [k EXCEPT ![t] = s]
      BY <3>2, <3>3 DEF TokenRow
    <3> HIDE DEF s
    <3> QED
      BY <1>2, <3>1, <3>2, <3>4, TokenSet
  <2> QED
    BY <2>1, <2>2 DEF markMarketplaceUsed
<1> QED
  BY <1>1, <1>3, <1>4, <1>5, FetchMoves

\* What a consumer is served at a head was listed at its cursor already, which is known,
\* or is in a ledger since.
LEMMA DiffCovers ==
  ASSUME TypeInv, Ledgered(repo.log), NEW from \in Points, NEW head \in Points,
         Passed(repo, from), Passed(repo, head), NEW K, Covers(K, repo, from)
  PROVE  Covers(K \cup changedSlugsSince(from), repo, head)
<1> DEFINE N == Len(repo.log)
           h == head[2]
<1>1. SUFFICES ASSUME head[1] = repo.id, NEW s \in Listed(repo.log, h)
               PROVE  s \in K \cup changedSlugsSince(from)
  BY DEF Covers
<1>2. repo.id \in Nat /\ repo.log \in Seq(Commits) /\ N \in Nat
  BY DEF TypeInv, Repos
<1>3. h \in 1..N
  BY <1>1 DEF Passed
<1>4. Born
  BY <1>2, <1>3 DEF Born
<1>5. s \in Skills /\ \A j \in h..N : s \in SkillsIn(repo.log[j].rows)
  BY <1>1 DEF Listed
<1>6. N \in h..N /\ N \in 1..N
  BY <1>2, <1>3
<1>7. s \in SkillsIn(Main.rows)
  BY <1>5, <1>6 DEF Main
<1>8. CASE from = MainHead
  <2>1. from[1] = repo.id /\ from[2] = N
    BY <1>4, <1>8 DEF MainHead
  <2>2. \A j \in N..N : j \in h..N
    BY <1>2, <1>3
  <2>3. s \in Listed(repo.log, N)
    BY <1>5, <2>2 DEF Listed
  <2> QED
    BY <2>1, <2>3 DEF Covers
<1>9. CASE from # MainHead /\ from[1] # repo.id
  BY <1>4, <1>7, <1>9 DEF changedSlugsSince
<1>10. CASE from # MainHead /\ from[1] = repo.id
  <2>1. from[2] \in 1..N
    BY <1>10 DEF Passed
  <2>2. s \in SkillsIn(repo.log[N].rows)
    BY <1>5, <1>6
  <2> HIDE DEF h
  <2>3. \/ \A j \in from[2]..N : s \in SkillsIn(repo.log[j].rows)
        \/ \E j \in (from[2] + 1)..N : s \in repo.log[j].ledger
    BY <1>6, <2>1, <2>2 DEF Ledgered
  <2>4. CASE \A j \in from[2]..N : s \in SkillsIn(repo.log[j].rows)
    BY <1>5, <1>10, <2>4 DEF Listed, Covers
  <2>5. CASE \E j \in (from[2] + 1)..N : s \in repo.log[j].ledger
    BY <1>4, <1>7, <1>10, <2>5 DEF changedSlugsSince
  <2> QED
    BY <2>3, <2>4, <2>5
<1> QED
  BY <1>8, <1>9, <1>10

LEMMA DiffKept ==
  ASSUME IInv, NEW f \in Fetches, Diff(f)
  PROVE  IInv'
<1> DEFINE slugs == changedSlugsSince(fetch[f].from)
           r == [[fetch[f] EXCEPT !.slugs = slugs] EXCEPT !.pc = "credit"]
<1>1. /\ Reaches(f, "diff") /\ ~Reaches(f, "idle")
      /\ UNCHANGED <<catalog, repo, counter, token, sweep, shipped, credited, missed, lost,
                     overlap>>
  BY DEF Diff, Reaches, catalogVars, history
<1>2. /\ TypeInv /\ fetch[f] \in FetchRow /\ fetch[f].tok \in Tokens
      /\ Passed(repo, fetch[f].from) /\ (overlap \/ Covers(Known, repo, fetch[f].from))
      /\ fetch[f].from \in Points /\ fetch[f].head \in Points
      /\ Passed(repo, fetch[f].head) /\ repo.log \in Seq(Commits)
  BY <1>1, Fetching DEF Reaches
<1>3. slugs \in SUBSET Skills
  <2>1. CASE Born
    <3>1. repo.log[Len(repo.log)] \in Commits
      BY <1>2, <2>1 DEF Born
    <3>2. SkillsIn(Main.rows) \subseteq Skills
      BY <3>1, RowsOf DEF Main, Commits
    <3> QED
      BY <3>2 DEF changedSlugsSince
  <2>2. CASE ~Born
    BY <2>2 DEF changedSlugsSince
  <2> QED
    BY <2>1, <2>2
<1>4. overlap \/ Covers(Known \cup slugs, repo, fetch[f].head)
  <2>1. overlap \/ Ledgered(repo.log)
    BY DEF IInv, LedgerInv
  <2>2. Ledgered(repo.log) /\ Covers(Known, repo, fetch[f].from) =>
          Covers(Known \cup slugs, repo, fetch[f].head)
    BY <1>2, DiffCovers
  <2> HIDE DEF slugs
  <2> QED
    BY <1>2, <2>1, <2>2
<1> HIDE DEF slugs
<1>5. /\ r \in FetchRow /\ r.pc = "credit" /\ r.tok = fetch[f].tok /\ r.slugs = slugs
      /\ r.from = fetch[f].from /\ r.head = fetch[f].head
  BY <1>2, <1>3 DEF FetchRow
<1>6. fetch' = [fetch EXCEPT ![f] = r]
  BY <1>2 DEF Diff, TypeInv, slugs
<1> HIDE DEF r
<1>7. FetchOK(r)
  BY <1>2, <1>4, <1>5 DEF FetchOK
<1> QED
  BY <1>1, <1>2, <1>5, <1>6, <1>7, TokensSame, FetchMoves

\* The credit covers the head that the cursor moves to.
LEMMA CreditKept ==
  ASSUME IInv, NEW f \in Fetches, creditMarketplaceFetch(f)
  PROVE  IInv'
<1> DEFINE t == fetch[f].tok
           head == fetch[f].head
           slugs == fetch[f].slugs
<1>1. /\ Reaches(f, "credit") /\ ~Reaches(f, "idle") /\ Answered(f)
      /\ UNCHANGED <<catalog, repo, counter, sweep, shipped, lost, overlap>>
      /\ credited' = credited \cup (slugs \cap SkillsIn(Qualifying))
      /\ missed' = missed \cup (slugs \ SkillsIn(Qualifying))
  BY DEF creditMarketplaceFetch, Reaches, catalogVars
<1>2. /\ TypeInv /\ t \in Tokens /\ head \in Points
      /\ Passed(repo, head) /\ (overlap \/ Covers(Known \cup slugs, repo, head))
  BY <1>1, Fetching DEF Reaches
<1>3. Known' = Known \cup slugs
  BY <1>1 DEF Known
<1>4. fetch' = [fetch EXCEPT ![f] = NoFetch]
  BY <1>1 DEF Answered
<1>5. FetchDoes(f) /\ FetchOK(fetch[f])'
  <2>1. /\ fetch' \in [Fetches -> FetchRow] /\ fetch'[f] = NoFetch
        /\ \A g \in Fetches \ {f} : fetch'[g] = fetch[g]
    BY <1>2, <1>4, NoFetchIs, FetchSet
  <2>2. FetchDoes(f)
    BY <1>1, <1>3, <2>1 DEF FetchDoes
  <2>3. FetchOK(fetch[f])'
    BY <2>1, NoFetchIs DEF FetchOK
  <2> QED
    BY <2>2, <2>3
<1>6. /\ token' \in [Tokens -> TokenRow]
      /\ \A u \in Tokens : \/ token'[u].cursor = token[u].cursor
                           \/ u = t /\ token'[u].cursor = head
  <2>1. token \in [Tokens -> TokenRow] /\ token[t] \in TokenRow
    BY <1>2 DEF TypeInv
  <2>2. CASE token' = token
    BY <2>1, <2>2
  <2>3. CASE token' = [token EXCEPT ![t].cursor = head]
    <3> DEFINE r == [token[t] EXCEPT !.cursor = head]
    <3>1. r \in TokenRow /\ r.cursor = head
      BY <1>2, <2>1 DEF TokenRow
    <3>2. token' = [token EXCEPT ![t] = r]
      BY <2>3
    <3> HIDE DEF r
    <3> QED
      BY <1>2, <2>1, <3>1, <3>2
  <2> QED
    BY <2>2, <2>3 DEF creditMarketplaceFetch
<1>7. TypeInv'
  BY <1>1, <1>2, <1>5, <1>6 DEF TypeInv, FetchDoes
<1>8. CursorInv'
  <2> HIDE DEF head, slugs
  <2>1. SUFFICES ASSUME NEW u \in Tokens
                 PROVE  /\ Passed(repo, token'[u].cursor)
                        /\ overlap \/ Covers(Known', repo, token'[u].cursor)
    BY <1>1 DEF CursorInv
  <2>2. CASE token'[u].cursor = head
    BY <1>2, <1>3, <2>2
  <2>3. CASE token'[u].cursor = token[u].cursor
    <3>1. Passed(repo, token[u].cursor) /\ (overlap \/ Covers(Known, repo, token[u].cursor))
      BY DEF IInv, CursorInv
    <3>2. Covers(Known, repo, token[u].cursor) => Covers(Known', repo, token[u].cursor)
      BY <1>3 DEF Covers
    <3> QED
      BY <2>3, <3>1, <3>2
  <2> QED
    BY <1>6, <2>2, <2>3
<1> QED
  BY <1>5, <1>7, <1>8, FetchKept

LEMMA FetchStepKept ==
  ASSUME IInv, NEW f \in Fetches, FetchStep(f) \/ FetchFails(f)
  PROVE  IInv'
<1>1. FetchFails(f) => IInv'
  BY AnsweredKept DEF FetchFails, catalogVars, history
<1> QED
  BY <1>1, HeadKept, MarkKept, DiffKept, CreditKept DEF FetchStep

-----------------------------------------------------------------------------
(* The invariant holds *)

LEMMA InitHolds == Init => IInv
<1> SUFFICES ASSUME Init PROVE IInv
  OBVIOUS
<1>1. /\ NoToken \in TokenRow /\ NoToken.cursor = <<None, None>>
      /\ NoFetch \in FetchRow /\ NoFetch.pc = "idle" /\ FetchOK(NoFetch)
  BY NoTokenIs, NoFetchIs
<1>2. NoSweep \in SweepRow /\ NoSweep.pc = "idle"
  BY NoSweepIs
<1>3. repo \in Repos /\ repo.id = 1 /\ repo.log = <<>>
  <2>1. <<>> \in Seq(Commits) /\ 1 \in Nat \ {0}
    OBVIOUS
  <2> QED
    BY <2>1 DEF Init, Repos
<1>4. counter \in [Plugins -> Counters]
  BY DEF Init, Counters, Contents
<1>5. catalog \in [Skills -> [listed : BOOLEAN, semver : Nat, plugin : Plugins]]
  BY DEF Init
<1>6. TypeInv
  BY <1>1, <1>2, <1>3, <1>4, <1>5 DEF Init, TypeInv
<1>7. \A w \in Sweeps : sweep[w].pc = "idle"
  BY <1>2 DEF Init
<1>8. LockInv
  BY <1>7 DEF LockInv, Holding, Holds
<1>9. ShippedInv
  BY DEF Init, ShippedInv, VersionNamesContent
<1>10. LedgerInv
  BY <1>3, <1>7 DEF LedgerInv, At, Ledgered
<1>11. CursorInv
  BY <1>1, <1>3 DEF Init, CursorInv, Passed, Covers, None
<1>12. FetchInv
  BY <1>1 DEF Init, FetchInv
<1> QED
  BY <1>6, <1>8, <1>9, <1>10, <1>11, <1>12 DEF IInv

LEMMA NextHolds == IInv /\ [Next]_vars => IInv'
<1> SUFFICES ASSUME IInv, [Next]_vars PROVE IInv'
  OBVIOUS
<1>1. TypeInv
  BY DEF IInv
<1>2. CASE \E s \in Skills : Lists(s) \/ VersionChanges(s) \/ Recategorized(s)
  BY <1>1, <1>2, CatalogDoes, WebKept
<1>3. CASE UserOrAdmin
  BY <1>1, <1>3, UserDoes, WebKept
<1>4. CASE \E w \in Sweeps : SweepStep(w) \/ SweepFails(w)
  BY <1>4, SweepKept
<1>5. CASE \E f \in Fetches : \/ \E t \in Tokens : Authorize(f, t)
                              \/ FetchStep(f) \/ FetchFails(f)
  BY <1>5, AuthorizeKept, FetchStepKept
<1>6. CASE UNCHANGED vars
  <2>1. WebDoes
    BY <1>1, <1>6 DEF vars, catalogVars, history, WebDoes, CursorsKept, TypeInv
  <2> QED
    BY <2>1, WebKept
<1> QED
  BY <1>2, <1>3, <1>4, <1>5, <1>6 DEF Next

LEMMA IInvHolds == Spec => []IInv
BY InitHolds, NextHolds, PTL DEF Spec

-----------------------------------------------------------------------------
(* The theorems *)

\* However sweeps interleave, die before they move main or are followed by others, and
\* across disabling and enabling: main never gives one number of a plugin to two contents,
\* unless a transaction was lost after it had moved main
\* (marketplaceSync.ts: "must survive a rebuild and never go backwards").
THEOREM NumbersNameContents == Spec => []VersionNamesContent
<1>1. IInv => VersionNamesContent
  BY DEF IInv, ShippedInv, VersionNamesContent
<1> QED
  BY <1>1, IInvHolds, PTL

\* Whatever sweeps do to main during a fetch, and though its cursor, its head and its
\* diff are read at different times: what a consumer was served at its cursor and is
\* still listed is credited, or did not qualify when it was to be, unless two sweeps
\* overlapped (pgDeps.ts creditMarketplaceFetch).
THEOREM CreditKeepsUp == Spec => []CursorCredited
<1>1. IInv => CursorCredited
  BY DEF IInv, CursorInv, CursorCredited, Covers, Known, Listed, ListedSince
<1> QED
  BY <1>1, IInvHolds, PTL
=============================================================================
