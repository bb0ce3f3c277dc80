------------------------------- MODULE McpOauth -------------------------------
(***************************************************************************)
(* The OAuth grants behind the MCP server, for one user and one client:    *)
(* consent and revocation in the web application (lib/mcpOauth.ts), the    *)
(* token and revocation endpoints and the authentication of calls on the   *)
(* workers (mcp/oauthRouter.ts, mcp/auth.ts), deactivation over SCIM       *)
(* (scim/store.ts).  A handler is a sequence of statements that commit one *)
(* by one, so handlers of one credential interleave, on replicas that      *)
(* share nothing but the database.                                         *)
(***************************************************************************)
EXTENDS Naturals, FiniteSets

CONSTANTS
    Requests,       \* the slots for requests in progress
    MaxConsents,    \* bound: consent screens rendered
    MaxGrants,      \* bound: oauth_grants rows
    MaxTokens,      \* bound: authorization codes and token pairs
    MaxEvents       \* bound: expiries, deactivations and blocks

ASSUME OauthAssumption == {MaxConsents, MaxGrants, MaxTokens, MaxEvents} \subseteq Nat

Consents == 1..MaxConsents
Grants   == 1..MaxGrants
Tokens   == 1..MaxTokens
None     == 0

VARIABLES
    consent,    \* oauth_pending_authorizations
    grant,      \* oauth_grants
    token,      \* oauth_tokens
    minted,     \* how many rows of token are taken
    active,     \* users.status
    blocked,    \* oauth_clients.blocked_at
    events,     \* expiries, deactivations and blocks so far
    req,        \* the requests in progress
    dead,       \* history: the grants whose revocation has been answered
    replayed    \* history: the tokens whose replay has been answered

dbVars  == <<consent, grant, token, minted>>
envVars == <<active, blocked, events>>
history == <<dead, replayed>>
vars    == <<dbVars, envVars, req, history>>

\* A row is a code, or a refresh token together with the access token that was
\* inserted with it.  The fields fresh and access say that the row, and the access
\* token, are not expired; from is the code or the refresh token it was given for
\* (rotated_from_id), consent the screen a code was approved on.
Token == [kind : {"none", "code", "refresh", "pruned"}, grant : 0..MaxGrants,
          used : BOOLEAN, fresh : BOOLEAN, access : BOOLEAN,
          from : 0..MaxTokens, consent : 0..MaxConsents]
NoToken == [kind |-> "none", grant |-> None, used |-> FALSE, fresh |-> FALSE,
            access |-> FALSE, from |-> None, consent |-> None]

Pcs == {"idle", "take", "client", "select", "commit", "check", "consume", "issue",
        "revoke", "expire", "auth", "roles", "serving"}

\* The field late is history: when an exchange came in its token was used already,
\* or when a call came in the revocation of its grant had been answered.
Request == [pc : Pcs, act : {"idle", "consent", "exchange", "disconnect", "revoke", "call"},
            consent : 0..MaxConsents, grant : 0..MaxGrants, tok : 0..MaxTokens,
            late : BOOLEAN]
Idle == [pc |-> "idle", act |-> "idle", consent |-> None, grant |-> None,
         tok |-> None, late |-> FALSE]

Live(g) == g \in Grants /\ grant[g] = "live"
Rows    == 1..minted

Init ==
    /\ consent = [k \in Consents |-> "none"]
    /\ grant = [g \in Grants |-> "none"]
    /\ token = [i \in Tokens |-> NoToken]
    /\ minted = 0
    /\ active = TRUE /\ blocked = FALSE /\ events = 0
    /\ req = [r \in Requests |-> Idle]
    /\ dead = {} /\ replayed = {}

-----------------------------------------------------------------------------
Happens == events < MaxEvents /\ events' = events + 1

At(r, pc)   == req[r].pc = pc
Goto(r, pc) == req' = [req EXCEPT ![r].pc = pc]

Submit(r, q) ==
    /\ At(r, "idle")
    /\ req' = [req EXCEPT ![r] = q]

\* The response is sent.
Answer(r) ==
    /\ req' = [req EXCEPT ![r] = Idle]
    /\ dead' = IF At(r, "expire") THEN dead \cup {req[r].grant} ELSE dead
    /\ replayed' = IF req[r].act = "exchange" /\ req[r].late
                   THEN replayed \cup {req[r].tok} ELSE replayed

Continue(r, pc) == Goto(r, pc) /\ UNCHANGED history

-----------------------------------------------------------------------------
(* Consent *)

\* /oauth/authorize: what the page checks is checked again on submit.
stashAuthorizeRequest(k) ==
    /\ active /\ ~blocked
    /\ consent[k] = "none" /\ \A j \in 1..(k - 1) : consent[j] # "none"
    /\ consent' = [consent EXCEPT ![k] = "open"]
    /\ UNCHANGED <<grant, token, minted, envVars, req, history>>

SubmitConsent(r, k) ==
    /\ active /\ consent[k] = "open"
    /\ Submit(r, [Idle EXCEPT !.pc = "take", !.act = "consent", !.consent = k])
    /\ UNCHANGED <<dbVars, envVars, history>>

\* One statement reads the request and consumes it; the user may decline.
takeAuthorizeRequest(r) ==
    /\ At(r, "take")
    /\ IF consent[req[r].consent] = "open"
       THEN /\ consent' = [consent EXCEPT ![req[r].consent] = "closed"]
            /\ Continue(r, "client") \/ Answer(r)
       ELSE Answer(r) /\ UNCHANGED consent
    /\ UNCHANGED <<grant, token, minted, envVars>>

\* The client may have been blocked while the screen was open.
findClient(r) ==
    /\ At(r, "client")
    /\ IF blocked THEN Answer(r) ELSE Continue(r, "select")
    /\ UNCHANGED <<dbVars, envVars>>

\* approveAuthorization: the transaction looks for the user's live grant ...
SelectGrant(r) ==
    /\ At(r, "select")
    /\ \/ \E g \in Grants : Live(g) /\ req' = [req EXCEPT ![r].pc = "commit", ![r].grant = g]
       \/ ~(\E g \in Grants : Live(g)) /\ Goto(r, "commit")
    /\ UNCHANGED <<dbVars, envVars, history>>

Mint(t) ==
    /\ minted < MaxTokens
    /\ minted' = minted + 1
    /\ token' = [token EXCEPT ![minted + 1] = t]

Code(r, g) == [NoToken EXCEPT !.kind = "code", !.grant = g, !.fresh = TRUE,
                              !.consent = req[r].consent]

\* Mutant of CommitConsent: the id of a new grant does not reach the code.
CommitConsentUnlinked(r) ==
    /\ At(r, "commit") /\ req[r].grant = None
    /\ \E g \in Grants :
         /\ grant[g] = "none"
         /\ grant' = [grant EXCEPT ![g] = "live"]
         /\ Mint(Code(r, req[r].grant))
    /\ Answer(r)
    /\ UNCHANGED <<consent, envVars>>

\* ... inserts one if there was none, which fails when another consent did so first
\* (uq_oauth_grants_live), then the code, and commits.  The grant it found may have
\* been revoked by now.
CommitConsent(r) ==
    /\ At(r, "commit")
    /\ \/ /\ req[r].grant # None
          /\ Mint(Code(r, req[r].grant)) /\ UNCHANGED grant
       \/ /\ req[r].grant = None /\ \A h \in Grants : ~Live(h)
          /\ \E g \in Grants :
               /\ grant[g] = "none" /\ \A h \in 1..(g - 1) : grant[h] # "none"
               /\ grant' = [grant EXCEPT ![g] = "live"]
               /\ Mint(Code(r, g))
       \/ /\ req[r].grant = None /\ \E h \in Grants : Live(h)
          /\ UNCHANGED <<grant, token, minted>>
    /\ Answer(r)
    /\ UNCHANGED <<consent, envVars>>

-----------------------------------------------------------------------------
(* The token endpoint: handleAuthorizationCode and handleRefresh *)

\* Any code or refresh token that was ever given out, by anybody who holds it.
SubmitExchange(r, i) ==
    /\ i \in Rows /\ token[i].kind # "pruned"
    /\ Submit(r, [Idle EXCEPT !.pc = "check", !.act = "exchange", !.tok = i,
                              !.late = token[i].used])
    /\ UNCHANGED <<dbVars, envVars, history>>

Refused(t) == ~t.fresh \/ ~Live(t.grant) \/ blocked \/ (t.kind = "refresh" /\ ~active)

\* Mutant of CheckToken: a token that is no good for another reason is refused
\* before it is found to be used.
CheckTokenRefusedFirst(r) ==
    LET t == token[req[r].tok]
    IN  /\ At(r, "check")
        /\ \/ t.kind = "pruned" /\ Answer(r)
           \/ /\ t.kind # "pruned" /\ t.used /\ ~Refused(t)
              /\ req' = [req EXCEPT ![r].pc = "revoke", ![r].grant = t.grant]
              /\ UNCHANGED history
           \/ t.kind # "pruned" /\ ~t.used /\ ~Refused(t) /\ Continue(r, "consume")
           \/ t.kind # "pruned" /\ Answer(r)
        /\ UNCHANGED <<dbVars, envVars>>

\* One select; a used token takes its grant down.  The last disjunct is a client, a
\* redirect, a verifier or a resource that does not match.
CheckToken(r) ==
    LET t == token[req[r].tok]
    IN  /\ At(r, "check")
        /\ \/ t.kind = "pruned" /\ Answer(r)
           \/ /\ t.kind # "pruned" /\ t.used
              /\ req' = [req EXCEPT ![r].pc = "revoke", ![r].grant = t.grant]
              /\ UNCHANGED history
           \/ t.kind # "pruned" /\ ~t.used /\ ~Refused(t) /\ Continue(r, "consume")
           \/ t.kind # "pruned" /\ ~t.used /\ Answer(r)
        /\ UNCHANGED <<dbVars, envVars>>

\* Mutant of ConsumeToken: the update has no condition.
ConsumeTokenAgain(r) ==
    /\ At(r, "consume")
    /\ token' = [token EXCEPT ![req[r].tok].used = TRUE]
    /\ Continue(r, "issue")
    /\ UNCHANGED <<consent, grant, minted, envVars>>

\* update ... set used_at = now() where id = $1 and used_at is null.  Whoever loses
\* a race of two exchanges is refused, and nothing is revoked.
ConsumeToken(r) ==
    LET t == token[req[r].tok]
    IN  /\ At(r, "consume")
        /\ IF t.used \/ t.kind = "pruned"
           THEN Answer(r) /\ UNCHANGED token
           ELSE /\ token' = [token EXCEPT ![req[r].tok].used = TRUE]
                /\ Continue(r, "issue")
        /\ UNCHANGED <<consent, grant, minted, envVars>>

\* A new pair, whatever has become of the grant since it was checked.
issueTokens(r) ==
    /\ At(r, "issue")
    /\ Mint([NoToken EXCEPT !.kind = "refresh", !.grant = token[req[r].tok].grant,
                            !.fresh = TRUE, !.access = TRUE, !.from = req[r].tok])
    /\ Answer(r)
    /\ UNCHANGED <<consent, grant, envVars>>

-----------------------------------------------------------------------------
(* Revocation *)

\* revokeConnection, from the list of live connections.
SubmitDisconnect(r, g) ==
    /\ Live(g)
    /\ Submit(r, [Idle EXCEPT !.pc = "revoke", !.act = "disconnect", !.grant = g])
    /\ UNCHANGED <<dbVars, envVars, history>>

\* /oauth/revoke with a token of the grant.
SubmitRevoke(r, i) ==
    /\ i \in Rows /\ token[i].kind = "refresh"
    /\ Submit(r, [Idle EXCEPT !.pc = "revoke", !.act = "revoke", !.grant = token[i].grant])
    /\ UNCHANGED <<dbVars, envVars, history>>

\* The grant first: a user is told when there was nothing to revoke, the other two
\* go on.
RevokeGrant(r) ==
    /\ At(r, "revoke")
    /\ IF req[r].act = "disconnect" /\ ~Live(req[r].grant)
       THEN Answer(r) /\ UNCHANGED grant
       ELSE grant' = [grant EXCEPT ![req[r].grant] = "revoked"] /\ Continue(r, "expire")
    /\ UNCHANGED <<consent, token, minted, envVars>>

\* Expired(T) is the table with the tokens T expired.
Expired(T) == [i \in Tokens |-> IF i \in T THEN [token[i] EXCEPT !.fresh = FALSE, !.access = FALSE]
                                ELSE token[i]]

\* Then the tokens it has by now.
ExpireTokens(r) ==
    /\ At(r, "expire")
    /\ token' = Expired({i \in Tokens : token[i].grant = req[r].grant})
    /\ Answer(r)
    /\ UNCHANGED <<consent, grant, minted, envVars>>

\* Mutant of deprovisionUser: the tokens are expired, the grants stay.
deprovisionUserTokens ==
    /\ Happens
    /\ active' = FALSE
    /\ token' = Expired({i \in Tokens : Live(token[i].grant)})
    /\ dead' = dead \cup {g \in Grants : Live(g)}
    /\ UNCHANGED <<consent, grant, minted, blocked, req, replayed>>

\* Deactivation by a SCIM patch, one transaction.
deprovisionUser ==
    /\ Happens
    /\ active' = FALSE
    /\ token' = Expired({i \in Tokens : Live(token[i].grant)})
    /\ grant' = [g \in Grants |-> IF Live(g) THEN "revoked" ELSE grant[g]]
    /\ dead' = dead \cup {g \in Grants : Live(g)}
    /\ UNCHANGED <<consent, minted, blocked, req, replayed>>

\* A SCIM put or the reconciliation sets the status and leaves the grants alone.
upsertUser(b) ==
    /\ active # b /\ active' = b
    /\ IF b THEN UNCHANGED events ELSE Happens
    /\ UNCHANGED <<dbVars, blocked, req, history>>

setClientBlocked(b) ==
    /\ blocked # b /\ blocked' = b
    /\ IF b THEN Happens ELSE UNCHANGED events
    /\ UNCHANGED <<dbVars, active, req, history>>

-----------------------------------------------------------------------------
(* A call of the MCP server: authenticate *)

\* With the access token of the pair i.
SubmitCall(r, i) ==
    /\ i \in Rows /\ token[i].kind = "refresh"
    /\ Submit(r, [Idle EXCEPT !.pc = "auth", !.act = "call", !.tok = i,
                              !.late = token[i].grant \in dead])
    /\ UNCHANGED <<dbVars, envVars, history>>

\* One select of the token with its grant, the client and the user ...
Authenticate(r) ==
    /\ At(r, "auth")
    /\ IF /\ token[req[r].tok].access /\ Live(token[req[r].tok].grant)
          /\ ~blocked /\ active
       THEN Continue(r, "roles") ELSE Answer(r)
    /\ UNCHANGED <<dbVars, envVars>>

\* ... then the roles, for which the user has to be active still.
ResolveAccess(r) ==
    /\ At(r, "roles")
    /\ IF active THEN Continue(r, "serving") ELSE Answer(r)
    /\ UNCHANGED <<dbVars, envVars>>

Served(r) ==
    /\ At(r, "serving")
    /\ Answer(r)
    /\ UNCHANGED <<dbVars, envVars>>

-----------------------------------------------------------------------------
(* Time, housekeeping and crashes *)

ConsentExpires(k) ==
    /\ Happens
    /\ consent[k] = "open"
    /\ consent' = [consent EXCEPT ![k] = "closed"]
    /\ UNCHANGED <<grant, token, minted, active, blocked, req, history>>

\* An access token expires before the refresh token it came with.
TokenExpires(i) ==
    /\ Happens
    /\ i \in Rows
    /\ \/ token[i].access /\ token' = [token EXCEPT ![i].access = FALSE]
       \/ token[i].fresh /\ ~token[i].access /\ token' = [token EXCEPT ![i].fresh = FALSE]
    /\ UNCHANGED <<consent, grant, minted, active, blocked, req, history>>

\* mcpHousekeeping deletes what has been expired for long, the used ones among it.
mcpHousekeeping(i) ==
    /\ i \in Rows /\ token[i].kind # "pruned" /\ ~token[i].fresh /\ ~token[i].access
    /\ token' = [token EXCEPT ![i].kind = "pruned", ![i].used = FALSE]
    /\ replayed' = replayed \ {i}
    /\ UNCHANGED <<consent, grant, minted, envVars, req, dead>>

\* The process dies, or a statement fails; an open transaction is rolled back.
RequestFails(r) ==
    /\ ~At(r, "idle")
    /\ req' = [req EXCEPT ![r] = Idle]
    /\ UNCHANGED <<dbVars, envVars, history>>

-----------------------------------------------------------------------------
Step(r) ==
    \/ takeAuthorizeRequest(r) \/ findClient(r) \/ SelectGrant(r) \/ CommitConsent(r)
    \/ CheckToken(r) \/ ConsumeToken(r) \/ issueTokens(r)
    \/ RevokeGrant(r) \/ ExpireTokens(r)
    \/ Authenticate(r) \/ ResolveAccess(r) \/ Served(r)

Submits(r) ==
    \/ \E k \in Consents : SubmitConsent(r, k)
    \/ \E i \in Tokens : SubmitExchange(r, i) \/ SubmitRevoke(r, i) \/ SubmitCall(r, i)
    \/ \E g \in Grants : SubmitDisconnect(r, g)

Passes ==
    \/ \E k \in Consents : ConsentExpires(k)
    \/ \E i \in Tokens : TokenExpires(i) \/ mcpHousekeeping(i)

Next ==
    \/ \E k \in Consents : stashAuthorizeRequest(k)
    \/ \E r \in Requests : Submits(r) \/ Step(r) \/ RequestFails(r)
    \/ deprovisionUser
    \/ \E b \in BOOLEAN : upsertUser(b) \/ setClientBlocked(b)
    \/ Passes

Spec == Init /\ [][Next]_vars

-----------------------------------------------------------------------------
(* Properties *)

\* Every row that was minted has its kind and its grant, and the requests keep their types
\* (migration 0063 gives the columns).
TypeOK ==
    /\ consent \in [Consents -> {"none", "open", "closed"}]
    /\ grant \in [Grants -> {"none", "live", "revoked"}]
    /\ token \in [Tokens -> Token]
    /\ minted \in 0..MaxTokens
    /\ \A i \in Rows : token[i].kind # "none" /\ token[i].grant \in Grants
    /\ active \in BOOLEAN /\ blocked \in BOOLEAN /\ events \in 0..MaxEvents
    /\ req \in [Requests -> Request]
    /\ dead \subseteq Grants /\ replayed \subseteq Tokens

\* What a consent gives is one chain of rows, which never forks: its form submitted
\* twice gives one code (mcpOauth.ts: "a double-submit cannot mint two codes"), and a
\* code or a refresh token is exchanged for one pair, on which the detection of replays
\* rests (oauthRouter.ts: "two concurrent exchanges can't both win").
LineageNeverForks ==
    \A i, j \in Rows : i # j =>
        /\ token[i].consent # token[j].consent \/ token[i].consent = None
        /\ token[i].from # token[j].from \/ token[i].from = None

\* When a replay of a used token has been answered its grant is revoked, unless the
\* housekeeping had already forgotten the token (oauthRouter.ts: "take the whole
\* grant down").
ReplayRevokes ==
    \A i \in replayed : token[i].kind = "pruned" \/ ~Live(token[i].grant)

\* Once a revocation has been answered, or the user deactivated by a patch, no call
\* that comes in under the grant is served, although an exchange that was checked
\* before may still insert tokens that are not expired (mcpOauth.ts: "the access
\* token stops working on the next request").
RevokedNeverServes == \A r \in Requests : At(r, "serving") => ~req[r].late
=============================================================================
