--------------------------- MODULE McpOauthProofs ---------------------------
(***************************************************************************)
(* Theorems about McpOauth, for any number of requests, consents, grants   *)
(* and tokens.  The argument: a credential is spent before anything is     *)
(* given for it, and stays so; only the request that spent it may give     *)
(* something, once.  A grant that is revoked never lives again, and what   *)
(* was answered implies that it is revoked.                                *)
(***************************************************************************)
EXTENDS McpOauth, TLAPS

\* Spent tokens are not exchanged again.
Spent(i) == token[i].used \/ token[i].kind = "pruned"

\* What a request in progress carries.
RequestOK(r) ==
    /\ req[r].pc \in {"take", "client", "select", "commit"}
         => req[r].act = "consent" /\ req[r].consent \in Consents
    /\ req[r].pc \in {"take", "client", "select"} => req[r].grant = None
    /\ req[r].pc \in {"check", "consume", "issue"}
         => req[r].act = "exchange" /\ req[r].tok \in Rows
    /\ req[r].pc \in {"revoke", "expire"}
         => /\ req[r].act \in {"exchange", "disconnect", "revoke"}
            /\ req[r].grant \in Grants
            /\ req[r].act = "exchange" => /\ req[r].tok \in Rows
                                          /\ req[r].grant = token[req[r].tok].grant
    /\ req[r].pc \in {"auth", "roles", "serving"}
         => req[r].act = "call" /\ req[r].tok \in Rows
Requested == \A r \in Requests : RequestOK(r)

\* The grant of a row exists, and so does one that a request is to revoke or found.
Granted ==
    /\ \A i \in Rows : grant[token[i].grant] # "none"
    /\ \A r \in Requests :
         /\ At(r, "commit") => req[r].grant = None \/ (req[r].grant \in Grants
            /\ grant[req[r].grant] # "none")
         /\ At(r, "revoke") => grant[req[r].grant] # "none"
         /\ At(r, "expire") => grant[req[r].grant] = "revoked"

\* Only one request may give something for a credential, once.
GivenForSpent ==
    \A i \in Rows : token[i].from # None => token[i].from \in Rows /\ Spent(token[i].from)
IssuesFirst ==
    \A r \in Requests : At(r, "issue") =>
      /\ Spent(req[r].tok)
      /\ \A i \in Rows : token[i].from # req[r].tok
IssuesAlone ==
    \A r, q \in Requests :
      At(r, "issue") /\ At(q, "issue") /\ req[r].tok = req[q].tok => r = q
GivenOnce ==
    \A i, j \in Rows : token[i].from = token[j].from /\ i # j => token[i].from = None
SpentOnce == GivenForSpent /\ IssuesFirst /\ IssuesAlone /\ GivenOnce

\* The same for a consent screen.
Approving(r) == req[r].pc \in {"client", "select", "commit"}
CodeClosed ==
    \A i \in Rows : token[i].consent # None =>
      token[i].consent \in Consents /\ consent[token[i].consent] = "closed"
ApprovesFirst ==
    \A r \in Requests : Approving(r) =>
      /\ consent[req[r].consent] = "closed"
      /\ \A i \in Rows : token[i].consent # req[r].consent
ApprovesAlone ==
    \A r, q \in Requests :
      Approving(r) /\ Approving(q) /\ req[r].consent = req[q].consent => r = q
CodeOnce ==
    \A i, j \in Rows : token[i].consent = token[j].consent /\ i # j =>
       token[i].consent = None
ApprovedOnce == CodeClosed /\ ApprovesFirst /\ ApprovesAlone /\ CodeOnce

\* A late exchange is of a spent token, and ends in the revocation; a late call is
\* under a grant that is revoked, and gets no further than its authentication.
LateOK ==
    /\ \A r \in Requests :
         /\ At(r, "check") /\ req[r].late => Spent(req[r].tok)
         /\ req[r].pc \in {"consume", "issue", "roles", "serving"} => ~req[r].late
         /\ At(r, "auth") /\ req[r].late => grant[token[req[r].tok].grant] = "revoked"
    /\ \A i \in replayed : i \in Rows /\ (token[i].kind = "pruned" \/ ~Live(token[i].grant))
    /\ \A g \in dead : grant[g] = "revoked"

IInv == TypeOK /\ Requested /\ Granted /\ SpentOnce /\ ApprovedOnce /\ LateOK

-----------------------------------------------------------------------------
(* Types of what the steps assign *)

\* Nothing but the request r changes in req.
Frame(r) == req' \in [Requests -> Request] /\ \A q \in Requests : q # r => req'[q] = req[q]

\* The request r goes to pc with all it has.
Moves(r, pc) ==
    /\ req'[r].pc = pc /\ req'[r].act = req[r].act /\ req'[r].consent = req[r].consent
    /\ req'[r].grant = req[r].grant /\ req'[r].tok = req[r].tok
       /\ req'[r].late = req[r].late

LEMMA Sets ==
    ASSUME TypeOK, NEW r \in Requests, NEW x \in Request, req' = [req EXCEPT ![r] = x]
    PROVE  Frame(r) /\ req'[r] = x
  BY DEF TypeOK, Frame

LEMMA IdleType == Idle \in Request
  BY OauthAssumption DEF Idle, Request, Pcs, None

\* An answer, of which the histories take notice ...
LEMMA Answers ==
    ASSUME TypeOK, NEW r \in Requests, Answer(r)
    PROVE  /\ Frame(r) /\ req'[r].pc = "idle"
           /\ dead' = IF At(r, "expire") THEN dead \cup {req[r].grant} ELSE dead
           /\ replayed' = IF req[r].act = "exchange" /\ req[r].late
                          THEN replayed \cup {req[r].tok} ELSE replayed
<1>1. Frame(r) /\ req'[r] = Idle
  BY IdleType, Sets DEF Answer
<1>. QED  BY <1>1 DEF Idle, Answer

\* ... where a revocation or a replay ends, and else they do not.
LEMMA Quiet ==
    ASSUME TypeOK, Requested, LateOK, NEW r \in Requests, Answer(r),
           \/ req[r].pc \in {"take", "client", "commit", "consume", "issue", "auth",
                             "roles", "serving"}
           \/ At(r, "revoke") /\ req[r].act = "disconnect"
    PROVE  Frame(r) /\ req'[r].pc = "idle" /\ UNCHANGED history
<1>1. /\ Frame(r) /\ req'[r].pc = "idle"
      /\ dead' = IF At(r, "expire") THEN dead \cup {req[r].grant} ELSE dead
      /\ replayed' = IF req[r].act = "exchange" /\ req[r].late
                     THEN replayed \cup {req[r].tok} ELSE replayed
  BY Answers
<1>2. ~At(r, "expire") /\ ~(req[r].act = "exchange" /\ req[r].late)
  BY DEF Requested, RequestOK, LateOK, At
<1>. QED  BY <1>1, <1>2 DEF history

LEMMA Goes ==
    ASSUME TypeOK, NEW r \in Requests, NEW pc \in Pcs, Goto(r, pc)
    PROVE  Frame(r) /\ Moves(r, pc)
<1>. DEFINE x == [req[r] EXCEPT !.pc = pc]
<1>1. req[r] \in Request
  BY DEF TypeOK
<1>2. x \in Request /\ x.pc = pc /\ x.act = req[r].act /\ x.consent = req[r].consent
      /\ x.grant = req[r].grant /\ x.tok = req[r].tok /\ x.late = req[r].late
  BY <1>1 DEF Request
<1>3. req' = [req EXCEPT ![r] = x]
  BY DEF TypeOK, Goto
<1>4. Frame(r) /\ req'[r] = x
  BY <1>2, <1>3, Sets
<1>. QED  BY <1>2, <1>4 DEF Moves

\* To pc, with the grant g.
LEMMA GoesWith ==
    ASSUME TypeOK, NEW r \in Requests, NEW pc \in Pcs, NEW g \in Grants,
           req' = [req EXCEPT ![r].pc = pc, ![r].grant = g]
    PROVE  /\ Frame(r)
           /\ req'[r].pc = pc /\ req'[r].act = req[r].act
              /\ req'[r].consent = req[r].consent
           /\ req'[r].grant = g /\ req'[r].tok = req[r].tok /\ req'[r].late = req[r].late
<1>. DEFINE x == [req[r] EXCEPT !.pc = pc, !.grant = g]
<1>1. req[r] \in Request
  BY DEF TypeOK
<1>2. g \in 0..MaxGrants
  BY OauthAssumption DEF Grants
<1>3. x \in Request /\ x.pc = pc /\ x.act = req[r].act /\ x.consent = req[r].consent
      /\ x.grant = g /\ x.tok = req[r].tok /\ x.late = req[r].late
  BY <1>1, <1>2 DEF Request
<1>4. req' = [req EXCEPT ![r] = x]
  BY DEF TypeOK
<1>5. Frame(r) /\ req'[r] = x
  BY <1>3, <1>4, Sets
<1>. QED  BY <1>3, <1>5

-----------------------------------------------------------------------------
(* What no step undoes *)

Kept ==
    /\ \A i \in Rows : /\ token'[i].grant = token[i].grant
                       /\ token'[i].from = token[i].from
                       /\ token'[i].consent = token[i].consent
                       /\ Spent(i) => Spent(i)'
                       /\ token[i].kind = "pruned" => token'[i].kind = "pruned"
    /\ \A g \in Grants : /\ grant[g] = "revoked" => grant'[g] = "revoked"
                         /\ grant[g] # "none" => grant'[g] # "none"
    /\ \A k \in Consents : consent[k] = "closed" => consent'[k] = "closed"

\* The tables as they are.
SameRows == UNCHANGED <<token, minted, Rows>>
SameDb   == SameRows /\ UNCHANGED <<grant, consent>>

LEMMA NoneApart ==
    ASSUME TypeOK
    PROVE  None \notin Rows /\ None \notin Consents /\ Rows \subseteq Tokens
  BY OauthAssumption DEF TypeOK, Rows, Consents, Tokens, None

LEMMA SameKept ==
    ASSUME SameDb
    PROVE  Kept
  BY DEF SameDb, SameRows, Kept, Spent

EnvTyped == active' \in BOOLEAN /\ blocked' \in BOOLEAN /\ events' \in 0..MaxEvents

LEMMA PcTypes == {"idle", "take", "client", "select", "commit", "check", "consume", "issue",
                  "revoke", "expire", "auth", "roles", "serving"} \subseteq Pcs
  BY DEF Pcs

\* A row is added, and those that are there stay as they are.
Adds(kind, g, from, k) ==
    /\ minted + 1 \in Tokens /\ minted' = minted + 1
    /\ Rows' = Rows \cup {minted + 1} /\ minted + 1 \notin Rows
    /\ token' \in [Tokens -> Token]
    /\ \A i \in Rows : token'[i] = token[i]
    /\ token'[minted + 1].kind = kind /\ token'[minted + 1].grant = g
    /\ token'[minted + 1].from = from /\ token'[minted + 1].consent = k

LEMMA MintAdds ==
    ASSUME TypeOK, NEW t \in Token, Mint(t)
    PROVE  Adds(t.kind, t.grant, t.from, t.consent)
<1>1. minted + 1 \in Tokens /\ minted' = minted + 1 /\ minted \in Nat
  BY OauthAssumption DEF TypeOK, Mint, Tokens
<1>2. token' = [token EXCEPT ![minted + 1] = t] /\ token \in [Tokens -> Token]
  BY DEF TypeOK, Mint
<1>3. \A i \in Rows : i # minted + 1 /\ i \in Tokens
  BY <1>1, OauthAssumption DEF Rows, Tokens
<1>4. Rows' = Rows \cup {minted + 1} /\ minted + 1 \notin Rows
  BY <1>1 DEF Rows
<1>. QED  BY <1>1, <1>2, <1>3, <1>4 DEF Adds

\* What a request that is submitted is made of.
Begun(pc, act) == [Idle EXCEPT !.pc = pc, !.act = act]

LEMMA Begins ==
    ASSUME NEW pc \in Pcs,
           NEW act \in {"idle", "consent", "exchange", "disconnect", "revoke", "call"}
    PROVE  /\ Begun(pc, act) \in Request
           /\ Begun(pc, act).pc = pc /\ Begun(pc, act).act = act
           /\ Begun(pc, act).grant = None
  BY IdleType DEF Begun, Request, Idle

LEMMA BeginsConsent ==
    ASSUME NEW q \in Request, NEW k \in Consents
    PROVE  /\ [q EXCEPT !.consent = k] \in Request
           /\ [q EXCEPT !.consent = k].pc = q.pc /\ [q EXCEPT !.consent = k].act = q.act
           /\ [q EXCEPT !.consent = k].grant = q.grant
              /\ [q EXCEPT !.consent = k].consent = k
  BY OauthAssumption DEF Request, Consents

LEMMA BeginsGrant ==
    ASSUME NEW q \in Request, NEW g \in Grants
    PROVE  /\ [q EXCEPT !.grant = g] \in Request
           /\ [q EXCEPT !.grant = g].pc = q.pc /\ [q EXCEPT !.grant = g].act = q.act
           /\ [q EXCEPT !.grant = g].grant = g
  BY OauthAssumption DEF Request, Grants

LEMMA BeginsToken ==
    ASSUME NEW q \in Request, NEW i \in Tokens, NEW b \in BOOLEAN
    PROVE  LET z == [q EXCEPT !.tok = i, !.late = b]
           IN  /\ z \in Request /\ z.pc = q.pc /\ z.act = q.act /\ z.tok = i
               /\ z.late => b
<1>. DEFINE y == [q EXCEPT !.tok = i]
<1>. DEFINE x == [y EXCEPT !.late = b]
<1>1. y \in Request /\ y.pc = q.pc /\ y.act = q.act /\ y.tok = i
  BY OauthAssumption DEF Request, Tokens
<1>. HIDE DEF y
<1>2. x \in Request
  BY <1>1 DEF Request
<1>3. x.pc = y.pc /\ x.act = y.act /\ x.tok = y.tok /\ x.late = b
  BY <1>1, Zenon DEF Request
<1>4. x.late => b
  BY <1>3, Zenon
<1>. QED  BY <1>1, <1>2, <1>3, <1>4, Zenon DEF y

\* Rows get older: used, or expired, and are else what they were.
Ages ==
    /\ minted' = minted /\ Rows' = Rows /\ token' \in [Tokens -> Token]
    /\ \A i \in Rows : /\ token'[i].kind = token[i].kind /\ token'[i].grant = token[i].grant
                       /\ token'[i].from = token[i].from
                       /\ token'[i].consent = token[i].consent
                       /\ token[i].used => token'[i].used

LEMMA AgesOne ==
    ASSUME TypeOK, NEW i \in Tokens, NEW t \in Token, token' = [token EXCEPT ![i] = t],
           minted' = minted, t.kind = token[i].kind, t.grant = token[i].grant,
           t.from = token[i].from, t.consent = token[i].consent, token[i].used => t.used
    PROVE  Ages
<1>1. token' \in [Tokens -> Token]
   /\ \A j \in Tokens : token'[j] = IF j = i THEN t ELSE token[j]
  BY DEF TypeOK
<1>2. Rows \subseteq Tokens
  BY OauthAssumption DEF TypeOK, Rows, Tokens
<1>. QED  BY <1>1, <1>2 DEF Ages, Rows

LEMMA ExpiredAges ==
    ASSUME TypeOK, NEW T, token' = Expired(T), minted' = minted
    PROVE  Ages
<1>. DEFINE t(i) == [token[i] EXCEPT !.fresh = FALSE, !.access = FALSE]
<1>1. ASSUME NEW i \in Tokens
      PROVE  /\ token[i] \in Token /\ t(i) \in Token
             /\ t(i).kind = token[i].kind /\ t(i).grant = token[i].grant
             /\ t(i).from = token[i].from /\ t(i).consent = token[i].consent
             /\ t(i).used = token[i].used
  <2>1. token[i] \in Token
    BY DEF TypeOK
  <2>. QED  BY <2>1 DEF Token
<1>2. token' = [i \in Tokens |-> IF i \in T THEN t(i) ELSE token[i]]
  BY Zenon DEF Expired
<1>3. Rows \subseteq Tokens
  BY OauthAssumption DEF TypeOK, Rows, Tokens
<1>. HIDE DEF t
<1>4. token' \in [Tokens -> Token]
  BY <1>1, <1>2
<1>5. \A i \in Tokens : token'[i] = IF i \in T THEN t(i) ELSE token[i]
  BY <1>2
<1>. QED  BY <1>1, <1>3, <1>4, <1>5 DEF Ages, Rows

LEMMA NoTokenType == NoToken \in Token
  BY OauthAssumption DEF NoToken, Token, None

LEMMA CodeType ==
    ASSUME NEW r \in Requests, NEW g \in Grants, req[r].consent \in Consents
    PROVE  /\ Code(r, g) \in Token /\ Code(r, g).kind = "code" /\ Code(r, g).grant = g
           /\ Code(r, g).from = None /\ Code(r, g).consent = req[r].consent
<1>. DEFINE a == [NoToken EXCEPT !.kind = "code"]
<1>. DEFINE b == [a EXCEPT !.grant = g]
<1>. DEFINE c == [b EXCEPT !.fresh = TRUE]
<1>. DEFINE d == [c EXCEPT !.consent = req[r].consent]
<1>0. NoToken.from = None
  BY DEF NoToken
<1>1. a \in Token /\ a.kind = "code" /\ a.from = None
  BY <1>0, NoTokenType DEF Token
<1>. HIDE DEF a
<1>2. b \in Token /\ b.kind = "code" /\ b.from = None /\ b.grant = g
  BY <1>1, OauthAssumption DEF Token, Grants
<1>. HIDE DEF b
<1>3. c \in Token /\ c.kind = b.kind /\ c.grant = b.grant /\ c.from = b.from
  BY <1>2 DEF Token
<1>. HIDE DEF c
<1>4. d \in Token /\ d.kind = c.kind /\ d.grant = c.grant /\ d.from = c.from
      /\ d.consent = req[r].consent
  BY <1>3, OauthAssumption DEF Token, Consents
<1>. HIDE DEF d
<1>5. Code(r, g) = d
  BY Zenon DEF Code, a, b, c, d
<1>. QED  BY <1>2, <1>3, <1>4, <1>5

\* The pair given for the row i.
Pair(i, g) == [NoToken EXCEPT !.kind = "refresh", !.grant = g, !.fresh = TRUE,
                              !.access = TRUE, !.from = i]

LEMMA PairType ==
    ASSUME NEW i \in Tokens, NEW g \in Grants
    PROVE  /\ Pair(i, g) \in Token /\ Pair(i, g).kind = "refresh" /\ Pair(i, g).grant = g
           /\ Pair(i, g).from = i /\ Pair(i, g).consent = None
<1>. DEFINE a == [NoToken EXCEPT !.kind = "refresh"]
<1>. DEFINE b == [a EXCEPT !.grant = g]
<1>. DEFINE c == [b EXCEPT !.fresh = TRUE, !.access = TRUE]
<1>. DEFINE d == [c EXCEPT !.from = i]
<1>0. NoToken.consent = None
  BY DEF NoToken
<1>1. a \in Token /\ a.kind = "refresh" /\ a.consent = None
  BY <1>0, NoTokenType DEF Token
<1>. HIDE DEF a
<1>2. b \in Token /\ b.kind = "refresh" /\ b.consent = None /\ b.grant = g
  BY <1>1, OauthAssumption DEF Token, Grants
<1>. HIDE DEF b
<1>3. c \in Token /\ c.kind = b.kind /\ c.grant = b.grant /\ c.consent = b.consent
  BY <1>2 DEF Token
<1>. HIDE DEF c
<1>4. d \in Token /\ d.kind = c.kind /\ d.grant = c.grant /\ d.consent = c.consent
   /\ d.from = i
  BY <1>3, OauthAssumption DEF Token, Tokens
<1>. HIDE DEF d
<1>5. Pair(i, g) = d
  BY Zenon DEF Pair, a, b, c, d
<1>. QED  BY <1>2, <1>3, <1>4, <1>5

-----------------------------------------------------------------------------
(* The steps *)

LEMMA SubmitConsentKeeps ==
    ASSUME IInv, NEW r \in Requests, NEW k \in Consents, SubmitConsent(r, k)
    PROVE  IInv'
<1>0. TypeOK /\ Requested /\ Granted /\ SpentOnce /\ ApprovedOnce /\ LateOK
  BY DEF IInv
<1>1. /\ Frame(r) /\ At(r, "idle") /\ UNCHANGED history /\ SameDb /\ EnvTyped
      /\ req'[r].pc = "take" /\ req'[r].act = "consent"
      /\ req'[r].consent = k /\ req'[r].grant = None
  <2>. DEFINE q == Begun("take", "consent")
  <2>. DEFINE x == [q EXCEPT !.consent = k]
  <2>1. q \in Request /\ q.pc = "take" /\ q.act = "consent" /\ q.grant = None
    BY Begins, PcTypes
  <2>2. At(r, "idle") /\ req' = [req EXCEPT ![r] = x]
    BY <1>0 DEF SubmitConsent, Submit, Begun
  <2>3. x \in Request /\ x.pc = q.pc /\ x.act = q.act /\ x.consent = k /\ x.grant = None
    BY <2>1, BeginsConsent, BeginsGrant
  <2>4. Frame(r) /\ req'[r] = x
    BY <1>0, <2>2, <2>3, Sets
  <2>5. SameDb /\ EnvTyped /\ UNCHANGED history
    BY <1>0 DEF SubmitConsent, dbVars, envVars, SameDb, SameRows, EnvTyped, TypeOK, Rows
  <2>. QED  BY <2>1, <2>2, <2>3, <2>4, <2>5
<1>2. Kept
  BY <1>1, SameKept
<1>4. TypeOK'
  BY <1>0, <1>1, <1>2 DEF TypeOK, Requested, RequestOK, Granted, Frame, Moves, Adds, Ages,
     Kept, SameDb, SameRows, EnvTyped, history, At, Consents, Grants, Tokens, Rows, None
<1>5. Requested'
  BY <1>0, <1>1, <1>2 DEF TypeOK, Requested, RequestOK, Frame, Moves, Adds, Ages, Kept,
     SameDb, SameRows, EnvTyped, history, At, None
<1>6. Granted'
  BY <1>0, <1>1, <1>2 DEF TypeOK, Requested, RequestOK, Granted, Frame, Moves, Adds, Ages,
     Kept, SameDb, SameRows, EnvTyped, history, At, None
<1>7. SpentOnce'
  BY <1>0, <1>1, <1>2 DEF TypeOK, Requested, RequestOK, SpentOnce, GivenForSpent,
     IssuesFirst, IssuesAlone, GivenOnce, Spent, Frame, Moves, Adds, Ages, Kept, SameDb,
     SameRows, EnvTyped, history, At, None
<1>8. ApprovedOnce'
  BY <1>0, <1>1, <1>2 DEF TypeOK, Requested, RequestOK, ApprovedOnce, CodeClosed,
     ApprovesFirst, ApprovesAlone, CodeOnce, Approving, Frame, Moves, Adds, Ages, Kept,
     SameDb, SameRows, EnvTyped, history, At, None
<1>9. LateOK'
  BY <1>0, <1>1, <1>2 DEF TypeOK, Requested, RequestOK, Granted, LateOK, Live, Spent,
     Frame, Moves, Adds, Ages, Kept, SameDb, SameRows, EnvTyped, history, At, None
<1>. QED  BY <1>4, <1>5, <1>6, <1>7, <1>8, <1>9 DEF IInv

LEMMA SubmitExchangeKeeps ==
    ASSUME IInv, NEW r \in Requests, NEW i \in Tokens, SubmitExchange(r, i)
    PROVE  IInv'
<1>0. TypeOK /\ Requested /\ Granted /\ SpentOnce /\ ApprovedOnce /\ LateOK
  BY DEF IInv
<1>1. /\ Frame(r) /\ At(r, "idle") /\ UNCHANGED history /\ SameDb /\ EnvTyped
      /\ req'[r].pc = "check" /\ req'[r].act = "exchange"
      /\ req'[r].tok = i /\ (req'[r].late => token[i].used) /\ i \in Rows
  <2>. DEFINE b == token[i].used
  <2>. DEFINE q == Begun("check", "exchange")
  <2>. DEFINE x == [q EXCEPT !.tok = i, !.late = b]
  <2>1. q \in Request /\ q.pc = "check" /\ q.act = "exchange"
    BY Begins, PcTypes
  <2>2. b \in BOOLEAN
    BY <1>0 DEF TypeOK, Token
  <2>3. At(r, "idle") /\ req' = [req EXCEPT ![r] = x] /\ i \in Rows
    BY <1>0 DEF SubmitExchange, Submit, Begun
  <2>4. SameDb /\ EnvTyped /\ UNCHANGED history
    BY <1>0 DEF SubmitExchange, dbVars, envVars, SameDb, SameRows, EnvTyped, TypeOK, Rows
  <2>. HIDE DEF b, q
  <2>5. x \in Request /\ x.pc = q.pc /\ x.act = q.act /\ x.tok = i /\ (x.late => b)
    <3>. q \in Request /\ b \in BOOLEAN
      BY <2>1, <2>2
    <3>. QED  BY BeginsToken
  <2>. HIDE DEF x
  <2>6. Frame(r) /\ req'[r] = x
    BY <1>0, <2>3, <2>5, Sets
  <2>7. req'[r].late => b
    BY <2>5, <2>6, Zenon
  <2>8. req'[r].pc = q.pc /\ req'[r].act = q.act /\ req'[r].tok = i
    BY <2>5, <2>6
  <2>. QED  BY <2>1, <2>3, <2>4, <2>6, <2>7, <2>8, Zenon DEF b
<1>2. Kept
  BY <1>1, SameKept
<1>4. TypeOK'
  BY <1>0, <1>1, <1>2 DEF TypeOK, Requested, RequestOK, Granted, Frame, Moves, Adds, Ages,
     Kept, SameDb, SameRows, EnvTyped, history, At, Consents, Grants, Tokens, Rows, None
<1>5. Requested'
  BY <1>0, <1>1, <1>2 DEF TypeOK, Requested, RequestOK, Frame, Moves, Adds, Ages, Kept,
     SameDb, SameRows, EnvTyped, history, At, None
<1>6. Granted'
  BY <1>0, <1>1, <1>2 DEF TypeOK, Requested, RequestOK, Granted, Frame, Moves, Adds, Ages,
     Kept, SameDb, SameRows, EnvTyped, history, At, None
<1>7. SpentOnce'
  BY <1>0, <1>1, <1>2 DEF TypeOK, Requested, RequestOK, SpentOnce, GivenForSpent,
     IssuesFirst, IssuesAlone, GivenOnce, Spent, Frame, Moves, Adds, Ages, Kept, SameDb,
     SameRows, EnvTyped, history, At, None
<1>8. ApprovedOnce'
  BY <1>0, <1>1, <1>2 DEF TypeOK, Requested, RequestOK, ApprovedOnce, CodeClosed,
     ApprovesFirst, ApprovesAlone, CodeOnce, Approving, Frame, Moves, Adds, Ages, Kept,
     SameDb, SameRows, EnvTyped, history, At, None
<1>9. LateOK'
  BY <1>0, <1>1, <1>2 DEF TypeOK, Requested, RequestOK, Granted, LateOK, Live, Spent,
     Frame, Moves, Adds, Ages, Kept, SameDb, SameRows, EnvTyped, history, At, None
<1>. QED  BY <1>4, <1>5, <1>6, <1>7, <1>8, <1>9 DEF IInv

LEMMA SubmitCallKeeps ==
    ASSUME IInv, NEW r \in Requests, NEW i \in Tokens, SubmitCall(r, i)
    PROVE  IInv'
<1>0. TypeOK /\ Requested /\ Granted /\ SpentOnce /\ ApprovedOnce /\ LateOK
  BY DEF IInv
<1>1. /\ Frame(r) /\ At(r, "idle") /\ UNCHANGED history /\ SameDb /\ EnvTyped
      /\ req'[r].pc = "auth" /\ req'[r].act = "call"
      /\ req'[r].tok = i /\ (req'[r].late => token[i].grant \in dead) /\ i \in Rows
  <2>. DEFINE b == token[i].grant \in dead
  <2>. DEFINE q == Begun("auth", "call")
  <2>. DEFINE x == [q EXCEPT !.tok = i, !.late = b]
  <2>1. q \in Request /\ q.pc = "auth" /\ q.act = "call"
    BY Begins, PcTypes
  <2>2. b \in BOOLEAN
    BY <1>0 DEF TypeOK, Token
  <2>3. At(r, "idle") /\ req' = [req EXCEPT ![r] = x] /\ i \in Rows
    BY <1>0 DEF SubmitCall, Submit, Begun
  <2>4. SameDb /\ EnvTyped /\ UNCHANGED history
    BY <1>0 DEF SubmitCall, dbVars, envVars, SameDb, SameRows, EnvTyped, TypeOK, Rows
  <2>. HIDE DEF b, q
  <2>5. x \in Request /\ x.pc = q.pc /\ x.act = q.act /\ x.tok = i /\ (x.late => b)
    <3>. q \in Request /\ b \in BOOLEAN
      BY <2>1, <2>2
    <3>. QED  BY BeginsToken
  <2>. HIDE DEF x
  <2>6. Frame(r) /\ req'[r] = x
    BY <1>0, <2>3, <2>5, Sets
  <2>7. req'[r].late => b
    BY <2>5, <2>6, Zenon
  <2>8. req'[r].pc = q.pc /\ req'[r].act = q.act /\ req'[r].tok = i
    BY <2>5, <2>6
  <2>. QED  BY <2>1, <2>3, <2>4, <2>6, <2>7, <2>8, Zenon DEF b
<1>2. Kept
  BY <1>1, SameKept
<1>4. TypeOK'
  BY <1>0, <1>1, <1>2 DEF TypeOK, Requested, RequestOK, Granted, Frame, Moves, Adds, Ages,
     Kept, SameDb, SameRows, EnvTyped, history, At, Consents, Grants, Tokens, Rows, None
<1>5. Requested'
  BY <1>0, <1>1, <1>2 DEF TypeOK, Requested, RequestOK, Frame, Moves, Adds, Ages, Kept,
     SameDb, SameRows, EnvTyped, history, At, None
<1>6. Granted'
  BY <1>0, <1>1, <1>2 DEF TypeOK, Requested, RequestOK, Granted, Frame, Moves, Adds, Ages,
     Kept, SameDb, SameRows, EnvTyped, history, At, None
<1>7. SpentOnce'
  BY <1>0, <1>1, <1>2 DEF TypeOK, Requested, RequestOK, SpentOnce, GivenForSpent,
     IssuesFirst, IssuesAlone, GivenOnce, Spent, Frame, Moves, Adds, Ages, Kept, SameDb,
     SameRows, EnvTyped, history, At, None
<1>8. ApprovedOnce'
  BY <1>0, <1>1, <1>2 DEF TypeOK, Requested, RequestOK, ApprovedOnce, CodeClosed,
     ApprovesFirst, ApprovesAlone, CodeOnce, Approving, Frame, Moves, Adds, Ages, Kept,
     SameDb, SameRows, EnvTyped, history, At, None
<1>9. LateOK'
  BY <1>0, <1>1, <1>2 DEF TypeOK, Requested, RequestOK, Granted, LateOK, Live, Spent,
     Frame, Moves, Adds, Ages, Kept, SameDb, SameRows, EnvTyped, history, At, None
<1>. QED  BY <1>4, <1>5, <1>6, <1>7, <1>8, <1>9 DEF IInv

LEMMA SubmitDisconnectKeeps ==
    ASSUME IInv, NEW r \in Requests, NEW g \in Grants, SubmitDisconnect(r, g)
    PROVE  IInv'
<1>0. TypeOK /\ Requested /\ Granted /\ SpentOnce /\ ApprovedOnce /\ LateOK
  BY DEF IInv
<1>1. /\ Frame(r) /\ At(r, "idle") /\ UNCHANGED history /\ SameDb /\ EnvTyped
      /\ req'[r].pc = "revoke" /\ req'[r].act = "disconnect"
      /\ req'[r].grant = g
      /\ grant[g] # "none"
  <2>. DEFINE q == Begun("revoke", "disconnect")
  <2>. DEFINE x == [q EXCEPT !.grant = g]
  <2>1. q \in Request /\ q.pc = "revoke" /\ q.act = "disconnect" /\ q.grant = None
    BY Begins, PcTypes
  <2>2. At(r, "idle") /\ req' = [req EXCEPT ![r] = x] /\ grant[g] # "none"
    BY <1>0 DEF SubmitDisconnect, Submit, Begun, Live
  <2>3. x \in Request /\ x.pc = q.pc /\ x.act = q.act /\ x.grant = g
    BY <2>1, BeginsConsent, BeginsGrant
  <2>4. Frame(r) /\ req'[r] = x
    BY <1>0, <2>2, <2>3, Sets
  <2>5. SameDb /\ EnvTyped /\ UNCHANGED history
    BY <1>0 DEF SubmitDisconnect, dbVars, envVars, SameDb, SameRows, EnvTyped, TypeOK, Rows
  <2>. QED  BY <2>1, <2>2, <2>3, <2>4, <2>5
<1>2. Kept
  BY <1>1, SameKept
<1>4. TypeOK'
  BY <1>0, <1>1, <1>2 DEF TypeOK, Requested, RequestOK, Granted, Frame, Moves, Adds, Ages,
     Kept, SameDb, SameRows, EnvTyped, history, At, Consents, Grants, Tokens, Rows, None
<1>5. Requested'
  BY <1>0, <1>1, <1>2 DEF TypeOK, Requested, RequestOK, Frame, Moves, Adds, Ages, Kept,
     SameDb, SameRows, EnvTyped, history, At, None
<1>6. Granted'
  BY <1>0, <1>1, <1>2 DEF TypeOK, Requested, RequestOK, Granted, Frame, Moves, Adds, Ages,
     Kept, SameDb, SameRows, EnvTyped, history, At, None
<1>7. SpentOnce'
  BY <1>0, <1>1, <1>2 DEF TypeOK, Requested, RequestOK, SpentOnce, GivenForSpent,
     IssuesFirst, IssuesAlone, GivenOnce, Spent, Frame, Moves, Adds, Ages, Kept, SameDb,
     SameRows, EnvTyped, history, At, None
<1>8. ApprovedOnce'
  BY <1>0, <1>1, <1>2 DEF TypeOK, Requested, RequestOK, ApprovedOnce, CodeClosed,
     ApprovesFirst, ApprovesAlone, CodeOnce, Approving, Frame, Moves, Adds, Ages, Kept,
     SameDb, SameRows, EnvTyped, history, At, None
<1>9. LateOK'
  BY <1>0, <1>1, <1>2 DEF TypeOK, Requested, RequestOK, Granted, LateOK, Live, Spent,
     Frame, Moves, Adds, Ages, Kept, SameDb, SameRows, EnvTyped, history, At, None
<1>. QED  BY <1>4, <1>5, <1>6, <1>7, <1>8, <1>9 DEF IInv

LEMMA SubmitRevokeKeeps ==
    ASSUME IInv, NEW r \in Requests, NEW i \in Tokens, SubmitRevoke(r, i)
    PROVE  IInv'
<1>0. TypeOK /\ Requested /\ Granted /\ SpentOnce /\ ApprovedOnce /\ LateOK
  BY DEF IInv
<1>1. /\ Frame(r) /\ At(r, "idle") /\ UNCHANGED history /\ SameDb /\ EnvTyped
      /\ req'[r].pc = "revoke" /\ req'[r].act = "revoke"
      /\ req'[r].grant = token[i].grant
      /\ i \in Rows
  <2>. DEFINE q == Begun("revoke", "revoke")
  <2>. DEFINE x == [q EXCEPT !.grant = token[i].grant]
  <2>1. q \in Request /\ q.pc = "revoke" /\ q.act = "revoke" /\ q.grant = None
    BY Begins, PcTypes
  <2>2. At(r, "idle") /\ req' = [req EXCEPT ![r] = x] /\ i \in Rows
    BY <1>0 DEF SubmitRevoke, Submit, Begun
  <2>3. x \in Request /\ x.pc = q.pc /\ x.act = q.act /\ x.grant = token[i].grant
    BY <1>0, <2>1, <2>2, BeginsGrant DEF TypeOK
  <2>4. Frame(r) /\ req'[r] = x
    BY <1>0, <2>2, <2>3, Sets
  <2>5. SameDb /\ EnvTyped /\ UNCHANGED history
    BY <1>0 DEF SubmitRevoke, dbVars, envVars, SameDb, SameRows, EnvTyped, TypeOK, Rows
  <2>. QED  BY <2>1, <2>2, <2>3, <2>4, <2>5
<1>2. Kept
  BY <1>1, SameKept
<1>4. TypeOK'
  BY <1>0, <1>1, <1>2 DEF TypeOK, Requested, RequestOK, Granted, Frame, Moves, Adds, Ages,
     Kept, SameDb, SameRows, EnvTyped, history, At, Consents, Grants, Tokens, Rows, None
<1>5. Requested'
  BY <1>0, <1>1, <1>2 DEF TypeOK, Requested, RequestOK, Frame, Moves, Adds, Ages, Kept,
     SameDb, SameRows, EnvTyped, history, At, None
<1>6. Granted'
  BY <1>0, <1>1, <1>2 DEF TypeOK, Requested, RequestOK, Granted, Frame, Moves, Adds, Ages,
     Kept, SameDb, SameRows, EnvTyped, history, At, None
<1>7. SpentOnce'
  BY <1>0, <1>1, <1>2 DEF TypeOK, Requested, RequestOK, SpentOnce, GivenForSpent,
     IssuesFirst, IssuesAlone, GivenOnce, Spent, Frame, Moves, Adds, Ages, Kept, SameDb,
     SameRows, EnvTyped, history, At, None
<1>8. ApprovedOnce'
  BY <1>0, <1>1, <1>2 DEF TypeOK, Requested, RequestOK, ApprovedOnce, CodeClosed,
     ApprovesFirst, ApprovesAlone, CodeOnce, Approving, Frame, Moves, Adds, Ages, Kept,
     SameDb, SameRows, EnvTyped, history, At, None
<1>9. LateOK'
  BY <1>0, <1>1, <1>2 DEF TypeOK, Requested, RequestOK, Granted, LateOK, Live, Spent,
     Frame, Moves, Adds, Ages, Kept, SameDb, SameRows, EnvTyped, history, At, None
<1>. QED  BY <1>4, <1>5, <1>6, <1>7, <1>8, <1>9 DEF IInv

LEMMA FindClientKeeps ==
    ASSUME IInv, NEW r \in Requests, findClient(r)
    PROVE  IInv'
<1>0. TypeOK /\ Requested /\ Granted /\ SpentOnce /\ ApprovedOnce /\ LateOK
  BY DEF IInv
<1>1. /\ Frame(r) /\ At(r, "client") /\ UNCHANGED history /\ EnvTyped
      /\ SameDb
      /\ req'[r].pc = "idle" \/ (Moves(r, "select"))
  <2>1. At(r, "client") /\ EnvTyped
    BY <1>0 DEF findClient, dbVars, envVars, SameDb, SameRows, EnvTyped, TypeOK, Rows
  <2>2. SameDb
    BY <1>0 DEF findClient, dbVars, envVars, SameDb, SameRows, EnvTyped, TypeOK, Rows
  <2>3. CASE Answer(r)
    <3>1. Frame(r) /\ req'[r].pc = "idle" /\ UNCHANGED history
      BY <1>0, <2>1, <2>3, Quiet DEF At
    <3>. QED  BY <2>1, <2>2, <3>1
  <2>4. CASE Continue(r, "select")
    <3>1. Goto(r, "select") /\ UNCHANGED history /\ "select" \in Pcs
      BY <2>4, PcTypes DEF Continue
    <3>2. Frame(r) /\ Moves(r, "select")
      BY <1>0, <3>1, Goes
    <3>. QED  BY <2>1, <2>2, <2>4, <3>1, <3>2
  <2>. QED  BY <2>3, <2>4 DEF findClient
<1>2. Kept
  BY <1>1, SameKept
<1>4. TypeOK'
  BY <1>0, <1>1, <1>2 DEF TypeOK, Requested, RequestOK, Granted, Frame, Moves, Adds, Ages,
     Kept, SameDb, SameRows, EnvTyped, history, At, Consents, Grants, Tokens, Rows, None
<1>5. Requested'
  BY <1>0, <1>1, <1>2 DEF TypeOK, Requested, RequestOK, Frame, Moves, Adds, Ages, Kept,
     SameDb, SameRows, EnvTyped, history, At, None
<1>6. Granted'
  BY <1>0, <1>1, <1>2 DEF TypeOK, Requested, RequestOK, Granted, Frame, Moves, Adds, Ages,
     Kept, SameDb, SameRows, EnvTyped, history, At, None
<1>7. SpentOnce'
  BY <1>0, <1>1, <1>2 DEF TypeOK, Requested, RequestOK, SpentOnce, GivenForSpent,
     IssuesFirst, IssuesAlone, GivenOnce, Spent, Frame, Moves, Adds, Ages, Kept, SameDb,
     SameRows, EnvTyped, history, At, None
<1>8. ApprovedOnce'
  BY <1>0, <1>1, <1>2 DEF TypeOK, Requested, RequestOK, ApprovedOnce, CodeClosed,
     ApprovesFirst, ApprovesAlone, CodeOnce, Approving, Frame, Moves, Adds, Ages, Kept,
     SameDb, SameRows, EnvTyped, history, At, None
<1>9. LateOK'
  BY <1>0, <1>1, <1>2 DEF TypeOK, Requested, RequestOK, Granted, LateOK, Live, Spent,
     Frame, Moves, Adds, Ages, Kept, SameDb, SameRows, EnvTyped, history, At, None
<1>. QED  BY <1>4, <1>5, <1>6, <1>7, <1>8, <1>9 DEF IInv

LEMMA AuthenticateKeeps ==
    ASSUME IInv, NEW r \in Requests, Authenticate(r)
    PROVE  IInv'
<1>0. TypeOK /\ Requested /\ Granted /\ SpentOnce /\ ApprovedOnce /\ LateOK
  BY DEF IInv
<1>1. /\ Frame(r) /\ At(r, "auth") /\ UNCHANGED history /\ EnvTyped
      /\ SameDb
      /\ req'[r].pc = "idle" \/ (Moves(r, "roles") /\ Live(token[req[r].tok].grant))
  <2>1. At(r, "auth") /\ EnvTyped
    BY <1>0 DEF Authenticate, dbVars, envVars, SameDb, SameRows, EnvTyped, TypeOK, Rows
  <2>2. SameDb
    BY <1>0 DEF Authenticate, dbVars, envVars, SameDb, SameRows, EnvTyped, TypeOK, Rows
  <2>3. CASE Answer(r)
    <3>1. Frame(r) /\ req'[r].pc = "idle" /\ UNCHANGED history
      BY <1>0, <2>1, <2>3, Quiet DEF At
    <3>. QED  BY <2>1, <2>2, <3>1
  <2>4. CASE Continue(r, "roles") /\ Live(token[req[r].tok].grant)
    <3>1. Goto(r, "roles") /\ UNCHANGED history /\ "roles" \in Pcs
      BY <2>4, PcTypes DEF Continue
    <3>2. Frame(r) /\ Moves(r, "roles")
      BY <1>0, <3>1, Goes
    <3>. QED  BY <2>1, <2>2, <2>4, <3>1, <3>2
  <2>. QED  BY <2>3, <2>4 DEF Authenticate
<1>2. Kept
  BY <1>1, SameKept
<1>4. TypeOK'
  BY <1>0, <1>1, <1>2 DEF TypeOK, Requested, RequestOK, Granted, Frame, Moves, Adds, Ages,
     Kept, SameDb, SameRows, EnvTyped, history, At, Consents, Grants, Tokens, Rows, None
<1>5. Requested'
  BY <1>0, <1>1, <1>2 DEF TypeOK, Requested, RequestOK, Frame, Moves, Adds, Ages, Kept,
     SameDb, SameRows, EnvTyped, history, At, None
<1>6. Granted'
  BY <1>0, <1>1, <1>2 DEF TypeOK, Requested, RequestOK, Granted, Frame, Moves, Adds, Ages,
     Kept, SameDb, SameRows, EnvTyped, history, At, None
<1>7. SpentOnce'
  BY <1>0, <1>1, <1>2 DEF TypeOK, Requested, RequestOK, SpentOnce, GivenForSpent,
     IssuesFirst, IssuesAlone, GivenOnce, Spent, Frame, Moves, Adds, Ages, Kept, SameDb,
     SameRows, EnvTyped, history, At, None
<1>8. ApprovedOnce'
  BY <1>0, <1>1, <1>2 DEF TypeOK, Requested, RequestOK, ApprovedOnce, CodeClosed,
     ApprovesFirst, ApprovesAlone, CodeOnce, Approving, Frame, Moves, Adds, Ages, Kept,
     SameDb, SameRows, EnvTyped, history, At, None
<1>9. LateOK'
  BY <1>0, <1>1, <1>2 DEF TypeOK, Requested, RequestOK, Granted, LateOK, Live, Spent,
     Frame, Moves, Adds, Ages, Kept, SameDb, SameRows, EnvTyped, history, At, None
<1>. QED  BY <1>4, <1>5, <1>6, <1>7, <1>8, <1>9 DEF IInv

LEMMA ResolveAccessKeeps ==
    ASSUME IInv, NEW r \in Requests, ResolveAccess(r)
    PROVE  IInv'
<1>0. TypeOK /\ Requested /\ Granted /\ SpentOnce /\ ApprovedOnce /\ LateOK
  BY DEF IInv
<1>1. /\ Frame(r) /\ At(r, "roles") /\ UNCHANGED history /\ EnvTyped
      /\ SameDb
      /\ req'[r].pc = "idle" \/ (Moves(r, "serving"))
  <2>1. At(r, "roles") /\ EnvTyped
    BY <1>0 DEF ResolveAccess, dbVars, envVars, SameDb, SameRows, EnvTyped, TypeOK, Rows
  <2>2. SameDb
    BY <1>0 DEF ResolveAccess, dbVars, envVars, SameDb, SameRows, EnvTyped, TypeOK, Rows
  <2>3. CASE Answer(r)
    <3>1. Frame(r) /\ req'[r].pc = "idle" /\ UNCHANGED history
      BY <1>0, <2>1, <2>3, Quiet DEF At
    <3>. QED  BY <2>1, <2>2, <3>1
  <2>4. CASE Continue(r, "serving")
    <3>1. Goto(r, "serving") /\ UNCHANGED history /\ "serving" \in Pcs
      BY <2>4, PcTypes DEF Continue
    <3>2. Frame(r) /\ Moves(r, "serving")
      BY <1>0, <3>1, Goes
    <3>. QED  BY <2>1, <2>2, <2>4, <3>1, <3>2
  <2>. QED  BY <2>3, <2>4 DEF ResolveAccess
<1>2. Kept
  BY <1>1, SameKept
<1>4. TypeOK'
  BY <1>0, <1>1, <1>2 DEF TypeOK, Requested, RequestOK, Granted, Frame, Moves, Adds, Ages,
     Kept, SameDb, SameRows, EnvTyped, history, At, Consents, Grants, Tokens, Rows, None
<1>5. Requested'
  BY <1>0, <1>1, <1>2 DEF TypeOK, Requested, RequestOK, Frame, Moves, Adds, Ages, Kept,
     SameDb, SameRows, EnvTyped, history, At, None
<1>6. Granted'
  BY <1>0, <1>1, <1>2 DEF TypeOK, Requested, RequestOK, Granted, Frame, Moves, Adds, Ages,
     Kept, SameDb, SameRows, EnvTyped, history, At, None
<1>7. SpentOnce'
  BY <1>0, <1>1, <1>2 DEF TypeOK, Requested, RequestOK, SpentOnce, GivenForSpent,
     IssuesFirst, IssuesAlone, GivenOnce, Spent, Frame, Moves, Adds, Ages, Kept, SameDb,
     SameRows, EnvTyped, history, At, None
<1>8. ApprovedOnce'
  BY <1>0, <1>1, <1>2 DEF TypeOK, Requested, RequestOK, ApprovedOnce, CodeClosed,
     ApprovesFirst, ApprovesAlone, CodeOnce, Approving, Frame, Moves, Adds, Ages, Kept,
     SameDb, SameRows, EnvTyped, history, At, None
<1>9. LateOK'
  BY <1>0, <1>1, <1>2 DEF TypeOK, Requested, RequestOK, Granted, LateOK, Live, Spent,
     Frame, Moves, Adds, Ages, Kept, SameDb, SameRows, EnvTyped, history, At, None
<1>. QED  BY <1>4, <1>5, <1>6, <1>7, <1>8, <1>9 DEF IInv

LEMMA ServedKeeps ==
    ASSUME IInv, NEW r \in Requests, Served(r)
    PROVE  IInv'
<1>0. TypeOK /\ Requested /\ Granted /\ SpentOnce /\ ApprovedOnce /\ LateOK
  BY DEF IInv
<1>1. /\ Frame(r) /\ At(r, "serving") /\ UNCHANGED history /\ EnvTyped
      /\ SameDb
      /\ req'[r].pc = "idle"
  <2>1. At(r, "serving") /\ EnvTyped
    BY <1>0 DEF Served, dbVars, envVars, SameDb, SameRows, EnvTyped, TypeOK, Rows
  <2>2. SameDb
    BY <1>0 DEF Served, dbVars, envVars, SameDb, SameRows, EnvTyped, TypeOK, Rows
  <2>3. CASE Answer(r)
    <3>1. Frame(r) /\ req'[r].pc = "idle" /\ UNCHANGED history
      BY <1>0, <2>1, <2>3, Quiet DEF At
    <3>. QED  BY <2>1, <2>2, <3>1
  <2>. QED  BY <2>3 DEF Served
<1>2. Kept
  BY <1>1, SameKept
<1>4. TypeOK'
  BY <1>0, <1>1, <1>2 DEF TypeOK, Requested, RequestOK, Granted, Frame, Moves, Adds, Ages,
     Kept, SameDb, SameRows, EnvTyped, history, At, Consents, Grants, Tokens, Rows, None
<1>5. Requested'
  BY <1>0, <1>1, <1>2 DEF TypeOK, Requested, RequestOK, Frame, Moves, Adds, Ages, Kept,
     SameDb, SameRows, EnvTyped, history, At, None
<1>6. Granted'
  BY <1>0, <1>1, <1>2 DEF TypeOK, Requested, RequestOK, Granted, Frame, Moves, Adds, Ages,
     Kept, SameDb, SameRows, EnvTyped, history, At, None
<1>7. SpentOnce'
  BY <1>0, <1>1, <1>2 DEF TypeOK, Requested, RequestOK, SpentOnce, GivenForSpent,
     IssuesFirst, IssuesAlone, GivenOnce, Spent, Frame, Moves, Adds, Ages, Kept, SameDb,
     SameRows, EnvTyped, history, At, None
<1>8. ApprovedOnce'
  BY <1>0, <1>1, <1>2 DEF TypeOK, Requested, RequestOK, ApprovedOnce, CodeClosed,
     ApprovesFirst, ApprovesAlone, CodeOnce, Approving, Frame, Moves, Adds, Ages, Kept,
     SameDb, SameRows, EnvTyped, history, At, None
<1>9. LateOK'
  BY <1>0, <1>1, <1>2 DEF TypeOK, Requested, RequestOK, Granted, LateOK, Live, Spent,
     Frame, Moves, Adds, Ages, Kept, SameDb, SameRows, EnvTyped, history, At, None
<1>. QED  BY <1>4, <1>5, <1>6, <1>7, <1>8, <1>9 DEF IInv

LEMMA StashAuthorizeRequestKeeps ==
    ASSUME IInv, NEW k \in Consents, stashAuthorizeRequest(k)
    PROVE  IInv'
<1>0. TypeOK /\ Requested /\ Granted /\ SpentOnce /\ ApprovedOnce /\ LateOK
  BY DEF IInv
<1>1. /\ UNCHANGED req /\ EnvTyped
      /\ UNCHANGED history
      /\ SameRows /\ UNCHANGED grant
      /\ consent' \in [Consents -> {"none", "open", "closed"}]
      /\ \A j \in Consents : consent[j] = "closed" => consent'[j] = "closed"
  BY <1>0 DEF stashAuthorizeRequest, dbVars, envVars, SameDb, SameRows, EnvTyped, TypeOK,
     Rows, Happens, history
<1>2. Kept
  BY <1>0, <1>1 DEF TypeOK, Kept, Spent, SameDb, SameRows, Ages, Adds, Consents, Grants,
     Tokens, Rows
<1>4. TypeOK'
  BY <1>0, <1>1, <1>2 DEF TypeOK, Requested, RequestOK, Granted, Frame, Moves, Adds, Ages,
     Kept, SameDb, SameRows, EnvTyped, history, At, Consents, Grants, Tokens, Rows, None
<1>5. Requested'
  BY <1>0, <1>1, <1>2 DEF TypeOK, Requested, RequestOK, Frame, Moves, Adds, Ages, Kept,
     SameDb, SameRows, EnvTyped, history, At, None
<1>6. Granted'
  BY <1>0, <1>1, <1>2 DEF TypeOK, Requested, RequestOK, Granted, Frame, Moves, Adds, Ages,
     Kept, SameDb, SameRows, EnvTyped, history, At, None
<1>7. SpentOnce'
  BY <1>0, <1>1, <1>2 DEF TypeOK, Requested, RequestOK, SpentOnce, GivenForSpent,
     IssuesFirst, IssuesAlone, GivenOnce, Spent, Frame, Moves, Adds, Ages, Kept, SameDb,
     SameRows, EnvTyped, history, At, None
<1>8. ApprovedOnce'
  BY <1>0, <1>1, <1>2 DEF TypeOK, Requested, RequestOK, ApprovedOnce, CodeClosed,
     ApprovesFirst, ApprovesAlone, CodeOnce, Approving, Frame, Moves, Adds, Ages, Kept,
     SameDb, SameRows, EnvTyped, history, At, None
<1>9. LateOK'
  BY <1>0, <1>1, <1>2 DEF TypeOK, Requested, RequestOK, Granted, LateOK, Live, Spent,
     Frame, Moves, Adds, Ages, Kept, SameDb, SameRows, EnvTyped, history, At, None
<1>. QED  BY <1>4, <1>5, <1>6, <1>7, <1>8, <1>9 DEF IInv

LEMMA ConsentExpiresKeeps ==
    ASSUME IInv, NEW k \in Consents, ConsentExpires(k)
    PROVE  IInv'
<1>0. TypeOK /\ Requested /\ Granted /\ SpentOnce /\ ApprovedOnce /\ LateOK
  BY DEF IInv
<1>1. /\ UNCHANGED req /\ EnvTyped
      /\ UNCHANGED history
      /\ SameRows /\ UNCHANGED grant
      /\ consent' \in [Consents -> {"none", "open", "closed"}]
      /\ \A j \in Consents : consent[j] = "closed" => consent'[j] = "closed"
  BY <1>0, OauthAssumption DEF ConsentExpires, dbVars, envVars, SameDb, SameRows,
     EnvTyped, TypeOK, Rows, Happens, history
<1>2. Kept
  BY <1>0, <1>1 DEF TypeOK, Kept, Spent, SameDb, SameRows, Ages, Adds, Consents, Grants,
     Tokens, Rows
<1>4. TypeOK'
  BY <1>0, <1>1, <1>2 DEF TypeOK, Requested, RequestOK, Granted, Frame, Moves, Adds, Ages,
     Kept, SameDb, SameRows, EnvTyped, history, At, Consents, Grants, Tokens, Rows, None
<1>5. Requested'
  BY <1>0, <1>1, <1>2 DEF TypeOK, Requested, RequestOK, Frame, Moves, Adds, Ages, Kept,
     SameDb, SameRows, EnvTyped, history, At, None
<1>6. Granted'
  BY <1>0, <1>1, <1>2 DEF TypeOK, Requested, RequestOK, Granted, Frame, Moves, Adds, Ages,
     Kept, SameDb, SameRows, EnvTyped, history, At, None
<1>7. SpentOnce'
  BY <1>0, <1>1, <1>2 DEF TypeOK, Requested, RequestOK, SpentOnce, GivenForSpent,
     IssuesFirst, IssuesAlone, GivenOnce, Spent, Frame, Moves, Adds, Ages, Kept, SameDb,
     SameRows, EnvTyped, history, At, None
<1>8. ApprovedOnce'
  BY <1>0, <1>1, <1>2 DEF TypeOK, Requested, RequestOK, ApprovedOnce, CodeClosed,
     ApprovesFirst, ApprovesAlone, CodeOnce, Approving, Frame, Moves, Adds, Ages, Kept,
     SameDb, SameRows, EnvTyped, history, At, None
<1>9. LateOK'
  BY <1>0, <1>1, <1>2 DEF TypeOK, Requested, RequestOK, Granted, LateOK, Live, Spent,
     Frame, Moves, Adds, Ages, Kept, SameDb, SameRows, EnvTyped, history, At, None
<1>. QED  BY <1>4, <1>5, <1>6, <1>7, <1>8, <1>9 DEF IInv

LEMMA UpsertUserKeeps ==
    ASSUME IInv, NEW b \in BOOLEAN, upsertUser(b)
    PROVE  IInv'
<1>0. TypeOK /\ Requested /\ Granted /\ SpentOnce /\ ApprovedOnce /\ LateOK
  BY DEF IInv
<1>1. /\ UNCHANGED req /\ EnvTyped
      /\ UNCHANGED history
      /\ SameDb
  BY <1>0, OauthAssumption DEF upsertUser, dbVars, envVars, SameDb, SameRows, EnvTyped,
     TypeOK, Rows, Happens
<1>2. Kept
  BY <1>0, <1>1 DEF TypeOK, Kept, Spent, SameDb, SameRows, Ages, Adds, Consents, Grants,
     Tokens, Rows
<1>4. TypeOK'
  BY <1>0, <1>1, <1>2 DEF TypeOK, Requested, RequestOK, Granted, Frame, Moves, Adds, Ages,
     Kept, SameDb, SameRows, EnvTyped, history, At, Consents, Grants, Tokens, Rows, None
<1>5. Requested'
  BY <1>0, <1>1, <1>2 DEF TypeOK, Requested, RequestOK, Frame, Moves, Adds, Ages, Kept,
     SameDb, SameRows, EnvTyped, history, At, None
<1>6. Granted'
  BY <1>0, <1>1, <1>2 DEF TypeOK, Requested, RequestOK, Granted, Frame, Moves, Adds, Ages,
     Kept, SameDb, SameRows, EnvTyped, history, At, None
<1>7. SpentOnce'
  BY <1>0, <1>1, <1>2 DEF TypeOK, Requested, RequestOK, SpentOnce, GivenForSpent,
     IssuesFirst, IssuesAlone, GivenOnce, Spent, Frame, Moves, Adds, Ages, Kept, SameDb,
     SameRows, EnvTyped, history, At, None
<1>8. ApprovedOnce'
  BY <1>0, <1>1, <1>2 DEF TypeOK, Requested, RequestOK, ApprovedOnce, CodeClosed,
     ApprovesFirst, ApprovesAlone, CodeOnce, Approving, Frame, Moves, Adds, Ages, Kept,
     SameDb, SameRows, EnvTyped, history, At, None
<1>9. LateOK'
  BY <1>0, <1>1, <1>2 DEF TypeOK, Requested, RequestOK, Granted, LateOK, Live, Spent,
     Frame, Moves, Adds, Ages, Kept, SameDb, SameRows, EnvTyped, history, At, None
<1>. QED  BY <1>4, <1>5, <1>6, <1>7, <1>8, <1>9 DEF IInv

LEMMA SetClientBlockedKeeps ==
    ASSUME IInv, NEW b \in BOOLEAN, setClientBlocked(b)
    PROVE  IInv'
<1>0. TypeOK /\ Requested /\ Granted /\ SpentOnce /\ ApprovedOnce /\ LateOK
  BY DEF IInv
<1>1. /\ UNCHANGED req /\ EnvTyped
      /\ UNCHANGED history
      /\ SameDb
  BY <1>0, OauthAssumption DEF setClientBlocked, dbVars, envVars, SameDb, SameRows,
     EnvTyped, TypeOK, Rows, Happens
<1>2. Kept
  BY <1>0, <1>1 DEF TypeOK, Kept, Spent, SameDb, SameRows, Ages, Adds, Consents, Grants,
     Tokens, Rows
<1>4. TypeOK'
  BY <1>0, <1>1, <1>2 DEF TypeOK, Requested, RequestOK, Granted, Frame, Moves, Adds, Ages,
     Kept, SameDb, SameRows, EnvTyped, history, At, Consents, Grants, Tokens, Rows, None
<1>5. Requested'
  BY <1>0, <1>1, <1>2 DEF TypeOK, Requested, RequestOK, Frame, Moves, Adds, Ages, Kept,
     SameDb, SameRows, EnvTyped, history, At, None
<1>6. Granted'
  BY <1>0, <1>1, <1>2 DEF TypeOK, Requested, RequestOK, Granted, Frame, Moves, Adds, Ages,
     Kept, SameDb, SameRows, EnvTyped, history, At, None
<1>7. SpentOnce'
  BY <1>0, <1>1, <1>2 DEF TypeOK, Requested, RequestOK, SpentOnce, GivenForSpent,
     IssuesFirst, IssuesAlone, GivenOnce, Spent, Frame, Moves, Adds, Ages, Kept, SameDb,
     SameRows, EnvTyped, history, At, None
<1>8. ApprovedOnce'
  BY <1>0, <1>1, <1>2 DEF TypeOK, Requested, RequestOK, ApprovedOnce, CodeClosed,
     ApprovesFirst, ApprovesAlone, CodeOnce, Approving, Frame, Moves, Adds, Ages, Kept,
     SameDb, SameRows, EnvTyped, history, At, None
<1>9. LateOK'
  BY <1>0, <1>1, <1>2 DEF TypeOK, Requested, RequestOK, Granted, LateOK, Live, Spent,
     Frame, Moves, Adds, Ages, Kept, SameDb, SameRows, EnvTyped, history, At, None
<1>. QED  BY <1>4, <1>5, <1>6, <1>7, <1>8, <1>9 DEF IInv

LEMMA DeprovisionUserKeeps ==
    ASSUME IInv, deprovisionUser
    PROVE  IInv'
<1>0. TypeOK /\ Requested /\ Granted /\ SpentOnce /\ ApprovedOnce /\ LateOK
  BY DEF IInv
<1>1. /\ UNCHANGED req /\ EnvTyped
      /\ dead \subseteq dead' /\ dead' \subseteq Grants /\ UNCHANGED replayed
      /\ \A g \in dead' : g \in dead \/ grant[g] = "live"
      /\ Ages /\ UNCHANGED consent
      /\ grant' \in [Grants -> {"none", "live", "revoked"}]
      /\ \A g \in Grants : grant'[g] = IF grant[g] = "live" THEN "revoked" ELSE grant[g]
  <2>0. events < MaxEvents /\ events' = events + 1 /\ active' = FALSE /\ blocked' = blocked
    BY DEF deprovisionUser, Happens
  <2>1. /\ token' = Expired({i \in Tokens : Live(token[i].grant)})
        /\ grant' = [g \in Grants |-> IF Live(g) THEN "revoked" ELSE grant[g]]
        /\ dead' = dead \cup {g \in Grants : Live(g)}
        /\ UNCHANGED <<consent, minted, req, replayed>>
    BY DEF deprovisionUser
  <2>2. Ages
    BY <1>0, <2>1, ExpiredAges
  <2>3. EnvTyped
    <3>1. events' \in 0..MaxEvents
      BY <1>0, <2>0, OauthAssumption DEF TypeOK
    <3>2. active' \in BOOLEAN
      BY <2>0
    <3>3. blocked' \in BOOLEAN
      BY <1>0, <2>0 DEF TypeOK
    <3>. QED  BY <3>1, <3>2, <3>3 DEF EnvTyped
  <2>4. dead \subseteq dead' /\ dead' \subseteq Grants
        /\ \A g \in dead' : g \in dead \/ grant[g] = "live"
    BY <1>0, <2>1 DEF TypeOK, Live
  <2>5. /\ grant' \in [Grants -> {"none", "live", "revoked"}]
        /\ \A g \in Grants : grant'[g] = IF grant[g] = "live" THEN "revoked" ELSE grant[g]
    BY <1>0, <2>1 DEF TypeOK, Live
  <2>. QED  BY <2>1, <2>2, <2>3, <2>4, <2>5
<1>2. Kept
  BY <1>0, <1>1 DEF TypeOK, Kept, Spent, SameDb, SameRows, Ages, Adds, Consents, Grants,
     Tokens, Rows
<1>4. TypeOK'
  BY <1>0, <1>1, <1>2 DEF TypeOK, Requested, RequestOK, Granted, Frame, Moves, Adds, Ages,
     Kept, SameDb, SameRows, EnvTyped, history, At, Consents, Grants, Tokens, Rows, None
<1>5. Requested'
  BY <1>0, <1>1, <1>2 DEF TypeOK, Requested, RequestOK, Frame, Moves, Adds, Ages, Kept,
     SameDb, SameRows, EnvTyped, history, At, None
<1>6. Granted'
  BY <1>0, <1>1, <1>2 DEF TypeOK, Requested, RequestOK, Granted, Frame, Moves, Adds, Ages,
     Kept, SameDb, SameRows, EnvTyped, history, At, None
<1>7. SpentOnce'
  <2>1. Ages /\ UNCHANGED req
    BY <1>1
  <2>. QED  BY <1>0, <1>2, <2>1 DEF SpentOnce, GivenForSpent, IssuesFirst, IssuesAlone,
     GivenOnce, Spent, Requested, RequestOK, Ages, Kept, Rows, At, None
<1>8. ApprovedOnce'
  BY <1>0, <1>1, <1>2 DEF TypeOK, Requested, RequestOK, ApprovedOnce, CodeClosed,
     ApprovesFirst, ApprovesAlone, CodeOnce, Approving, Frame, Moves, Adds, Ages, Kept,
     SameDb, SameRows, EnvTyped, history, At, None
<1>9. LateOK'
  BY <1>0, <1>1, <1>2 DEF TypeOK, Requested, RequestOK, Granted, LateOK, Live, Spent,
     Frame, Moves, Adds, Ages, Kept, SameDb, SameRows, EnvTyped, history, At, None
<1>. QED  BY <1>4, <1>5, <1>6, <1>7, <1>8, <1>9 DEF IInv

LEMMA TokenExpiresKeeps ==
    ASSUME IInv, NEW i \in Tokens, TokenExpires(i)
    PROVE  IInv'
<1>0. TypeOK /\ Requested /\ Granted /\ SpentOnce /\ ApprovedOnce /\ LateOK
  BY DEF IInv
<1>1. /\ UNCHANGED req /\ EnvTyped
      /\ UNCHANGED history
      /\ Ages /\ UNCHANGED <<grant, consent>>
  <2>1. token[i] \in Token /\ minted' = minted
    BY <1>0 DEF TokenExpires, TypeOK
  <2>2. EnvTyped /\ UNCHANGED <<req, history, grant, consent>>
    BY <1>0, OauthAssumption DEF TokenExpires, EnvTyped, TypeOK, Happens, history
  <2>3. CASE token' = [token EXCEPT ![i].access = FALSE]
    <3>. DEFINE t == [token[i] EXCEPT !.access = FALSE]
    <3>1. t \in Token
      BY <2>1 DEF Token
    <3>2. /\ t.kind = token[i].kind /\ t.grant = token[i].grant /\ t.from = token[i].from
          /\ t.consent = token[i].consent /\ t.used = token[i].used
      BY <2>1 DEF Token
    <3>3. token' = [token EXCEPT ![i] = t]
      BY <1>0, <2>3 DEF TypeOK
    <3>. HIDE DEF t
    <3>. QED  BY <1>0, <2>1, <2>2, <3>1, <3>2, <3>3, AgesOne
  <2>4. CASE token' = [token EXCEPT ![i].fresh = FALSE]
    <3>. DEFINE t == [token[i] EXCEPT !.fresh = FALSE]
    <3>1. t \in Token
      BY <2>1 DEF Token
    <3>2. /\ t.kind = token[i].kind /\ t.grant = token[i].grant /\ t.from = token[i].from
          /\ t.consent = token[i].consent /\ t.used = token[i].used
      BY <2>1 DEF Token
    <3>3. token' = [token EXCEPT ![i] = t]
      BY <1>0, <2>4 DEF TypeOK
    <3>. HIDE DEF t
    <3>. QED  BY <1>0, <2>1, <2>2, <3>1, <3>2, <3>3, AgesOne
  <2>. QED  BY <2>3, <2>4 DEF TokenExpires
<1>2. Kept
  BY <1>0, <1>1 DEF TypeOK, Kept, Spent, SameDb, SameRows, Ages, Adds, Consents, Grants,
     Tokens, Rows
<1>4. TypeOK'
  BY <1>0, <1>1, <1>2 DEF TypeOK, Requested, RequestOK, Granted, Frame, Moves, Adds, Ages,
     Kept, SameDb, SameRows, EnvTyped, history, At, Consents, Grants, Tokens, Rows, None
<1>5. Requested'
  BY <1>0, <1>1, <1>2 DEF TypeOK, Requested, RequestOK, Frame, Moves, Adds, Ages, Kept,
     SameDb, SameRows, EnvTyped, history, At, None
<1>6. Granted'
  BY <1>0, <1>1, <1>2 DEF TypeOK, Requested, RequestOK, Granted, Frame, Moves, Adds, Ages,
     Kept, SameDb, SameRows, EnvTyped, history, At, None
<1>7. SpentOnce'
  BY <1>0, <1>1, <1>2 DEF TypeOK, Requested, RequestOK, SpentOnce, GivenForSpent,
     IssuesFirst, IssuesAlone, GivenOnce, Spent, Frame, Moves, Adds, Ages, Kept, SameDb,
     SameRows, EnvTyped, history, At, None
<1>8. ApprovedOnce'
  BY <1>0, <1>1, <1>2 DEF TypeOK, Requested, RequestOK, ApprovedOnce, CodeClosed,
     ApprovesFirst, ApprovesAlone, CodeOnce, Approving, Frame, Moves, Adds, Ages, Kept,
     SameDb, SameRows, EnvTyped, history, At, None
<1>9. LateOK'
  BY <1>0, <1>1, <1>2 DEF TypeOK, Requested, RequestOK, Granted, LateOK, Live, Spent,
     Frame, Moves, Adds, Ages, Kept, SameDb, SameRows, EnvTyped, history, At, None
<1>. QED  BY <1>4, <1>5, <1>6, <1>7, <1>8, <1>9 DEF IInv

LEMMA McpHousekeepingKeeps ==
    ASSUME IInv, NEW i \in Tokens, mcpHousekeeping(i)
    PROVE  IInv'
<1>0. TypeOK /\ Requested /\ Granted /\ SpentOnce /\ ApprovedOnce /\ LateOK
  BY DEF IInv
<1>1. /\ UNCHANGED req /\ EnvTyped
      /\ replayed' = replayed \ {i} /\ UNCHANGED dead /\ i \in Rows
      /\ UNCHANGED <<minted, Rows, grant, consent>> /\ token' \in [Tokens -> Token]
      /\ token'[i].kind = "pruned" /\ token'[i].grant = token[i].grant
      /\ token'[i].from = token[i].from /\ token'[i].consent = token[i].consent
      /\ \A j \in Rows \ {i} : token'[j] = token[j]
  <2>. DEFINE t == [token[i] EXCEPT !.kind = "pruned", !.used = FALSE]
  <2>1. token[i] \in Token
    BY <1>0 DEF TypeOK
  <2>2. t \in Token /\ t.kind = "pruned" /\ t.grant = token[i].grant
     /\ t.from = token[i].from
        /\ t.consent = token[i].consent
    BY <2>1 DEF Token
  <2>3. token' = [token EXCEPT ![i] = t] /\ token \in [Tokens -> Token]
    BY <1>0 DEF mcpHousekeeping, TypeOK
  <2>. HIDE DEF t
  <2>4. Rows \subseteq Tokens
    BY <1>0, OauthAssumption DEF TypeOK, Rows, Tokens
  <2>5. EnvTyped /\ i \in Rows /\ replayed' = replayed \ {i}
        /\ UNCHANGED <<req, dead, minted, Rows, grant, consent>>
    BY <1>0 DEF mcpHousekeeping, EnvTyped, TypeOK, envVars, Rows
  <2>. QED  BY <2>2, <2>3, <2>4, <2>5
<1>2. Kept
  BY <1>0, <1>1 DEF TypeOK, Kept, Spent, SameDb, SameRows, Ages, Adds, Consents, Grants,
     Tokens, Rows
<1>4. TypeOK'
  BY <1>0, <1>1, <1>2 DEF TypeOK, Requested, RequestOK, Granted, Frame, Moves, Adds, Ages,
     Kept, SameDb, SameRows, EnvTyped, history, At, Consents, Grants, Tokens, Rows, None
<1>5. Requested'
  BY <1>0, <1>1, <1>2 DEF TypeOK, Requested, RequestOK, Frame, Moves, Adds, Ages, Kept,
     SameDb, SameRows, EnvTyped, history, At, None
<1>6. Granted'
  BY <1>0, <1>1, <1>2 DEF TypeOK, Requested, RequestOK, Granted, Frame, Moves, Adds, Ages,
     Kept, SameDb, SameRows, EnvTyped, history, At, None
<1>7. SpentOnce'
  BY <1>0, <1>1, <1>2 DEF TypeOK, Requested, RequestOK, SpentOnce, GivenForSpent,
     IssuesFirst, IssuesAlone, GivenOnce, Spent, Frame, Moves, Adds, Ages, Kept, SameDb,
     SameRows, EnvTyped, history, At, None
<1>8. ApprovedOnce'
  BY <1>0, <1>1, <1>2 DEF TypeOK, Requested, RequestOK, ApprovedOnce, CodeClosed,
     ApprovesFirst, ApprovesAlone, CodeOnce, Approving, Frame, Moves, Adds, Ages, Kept,
     SameDb, SameRows, EnvTyped, history, At, None
<1>9. LateOK'
  BY <1>0, <1>1, <1>2 DEF TypeOK, Requested, RequestOK, Granted, LateOK, Live, Spent,
     Frame, Moves, Adds, Ages, Kept, SameDb, SameRows, EnvTyped, history, At, None
<1>. QED  BY <1>4, <1>5, <1>6, <1>7, <1>8, <1>9 DEF IInv

LEMMA RequestFailsKeeps ==
    ASSUME IInv, NEW r \in Requests, RequestFails(r)
    PROVE  IInv'
<1>0. TypeOK /\ Requested /\ Granted /\ SpentOnce /\ ApprovedOnce /\ LateOK
  BY DEF IInv
<1>1. Frame(r) /\ req'[r].pc = "idle" /\ UNCHANGED history /\ SameDb /\ EnvTyped
  <2>1. req' = [req EXCEPT ![r] = Idle] /\ Idle.pc = "idle"
    BY DEF RequestFails, Idle
  <2>2. Frame(r) /\ req'[r] = Idle
    BY <1>0, <2>1, IdleType, Sets
  <2>3. UNCHANGED history /\ SameDb /\ EnvTyped
    BY <1>0 DEF RequestFails, dbVars, envVars, SameDb, SameRows, EnvTyped, TypeOK, Rows
  <2>. QED  BY <2>1, <2>2, <2>3
<1>2. Kept
  BY <1>1, SameKept
<1>4. TypeOK'
  BY <1>0, <1>1, <1>2 DEF TypeOK, Requested, RequestOK, Granted, Frame, Moves, Adds, Ages,
     Kept, SameDb, SameRows, EnvTyped, history, At, Consents, Grants, Tokens, Rows, None
<1>5. Requested'
  BY <1>0, <1>1, <1>2 DEF TypeOK, Requested, RequestOK, Frame, Moves, Adds, Ages, Kept,
     SameDb, SameRows, EnvTyped, history, At, None
<1>6. Granted'
  BY <1>0, <1>1, <1>2 DEF TypeOK, Requested, RequestOK, Granted, Frame, Moves, Adds, Ages,
     Kept, SameDb, SameRows, EnvTyped, history, At, None
<1>7. SpentOnce'
  BY <1>0, <1>1, <1>2 DEF TypeOK, Requested, RequestOK, SpentOnce, GivenForSpent,
     IssuesFirst, IssuesAlone, GivenOnce, Spent, Frame, Moves, Adds, Ages, Kept, SameDb,
     SameRows, EnvTyped, history, At, None
<1>8. ApprovedOnce'
  BY <1>0, <1>1, <1>2 DEF TypeOK, Requested, RequestOK, ApprovedOnce, CodeClosed,
     ApprovesFirst, ApprovesAlone, CodeOnce, Approving, Frame, Moves, Adds, Ages, Kept,
     SameDb, SameRows, EnvTyped, history, At, None
<1>9. LateOK'
  BY <1>0, <1>1, <1>2 DEF TypeOK, Requested, RequestOK, Granted, LateOK, Live, Spent,
     Frame, Moves, Adds, Ages, Kept, SameDb, SameRows, EnvTyped, history, At, None
<1>. QED  BY <1>4, <1>5, <1>6, <1>7, <1>8, <1>9 DEF IInv

LEMMA TakeAuthorizeRequestKeeps ==
    ASSUME IInv, NEW r \in Requests, takeAuthorizeRequest(r)
    PROVE  IInv'
<1>0. TypeOK /\ Requested /\ Granted /\ SpentOnce /\ ApprovedOnce /\ LateOK
  BY DEF IInv
<1>a. None \notin Rows /\ None \notin Consents /\ Rows \subseteq Tokens
  BY <1>0, NoneApart
<1>1. /\ Frame(r) /\ At(r, "take") /\ UNCHANGED history /\ EnvTyped
      /\ SameRows /\ UNCHANGED grant
      /\ consent' \in [Consents -> {"none", "open", "closed"}]
      /\ \A j \in Consents : consent[j] = "closed" => consent'[j] = "closed"
      /\ \/ req'[r].pc = "idle"
         \/ /\ Moves(r, "client") /\ consent[req[r].consent] = "open"
            /\ consent'[req[r].consent] = "closed"
  <2>. DEFINE c == req[r].consent
  <2>1. At(r, "take") /\ EnvTyped /\ SameRows /\ UNCHANGED grant
    BY <1>0 DEF takeAuthorizeRequest, dbVars, envVars, SameDb, SameRows, EnvTyped, TypeOK,
       Rows
  <2>2. c \in Consents
    BY <1>0, <2>1 DEF Requested, RequestOK, At
  <2>3. \/ consent[c] = "open" /\ consent' = [consent EXCEPT ![c] = "closed"]
        \/ Answer(r) /\ UNCHANGED consent
    BY DEF takeAuthorizeRequest
  <2>4. /\ consent' \in [Consents -> {"none", "open", "closed"}]
        /\ \A j \in Consents : consent[j] = "closed" => consent'[j] = "closed"
        /\ consent[c] = "open" => Answer(r) \/ consent'[c] = "closed"
    BY <1>0, <2>2, <2>3 DEF TypeOK
  <2>5. CASE Answer(r)
    <3>1. Frame(r) /\ req'[r].pc = "idle" /\ UNCHANGED history
      BY <1>0, <2>1, <2>5, Quiet DEF At
    <3>. QED  BY <2>1, <2>4, <3>1
  <2>6. CASE Continue(r, "client") /\ consent[c] = "open" /\ ~Answer(r)
    <3>1. Goto(r, "client") /\ UNCHANGED history /\ "client" \in Pcs
      BY <2>6, PcTypes DEF Continue
    <3>2. Frame(r) /\ Moves(r, "client")
      BY <1>0, <3>1, Goes
    <3>. QED  BY <2>1, <2>4, <2>6, <3>1, <3>2
  <2>. QED  BY <2>5, <2>6 DEF takeAuthorizeRequest
<1>2. Kept
  BY <1>0, <1>1 DEF TypeOK, Kept, Spent, SameDb, SameRows, Ages, Adds, Consents, Grants,
     Tokens, Rows
<1>4. TypeOK'
  BY <1>0, <1>1, <1>2 DEF TypeOK, Requested, RequestOK, Granted, Frame, Moves, Adds, Ages,
     Kept, SameDb, SameRows, EnvTyped, history, At, Consents, Grants, Tokens, Rows, None
<1>5. Requested'
  BY <1>0, <1>1, <1>2 DEF TypeOK, Requested, RequestOK, Frame, Moves, Adds, Ages, Kept,
     SameDb, SameRows, EnvTyped, history, At, None
<1>6. Granted'
  BY <1>0, <1>1, <1>2 DEF TypeOK, Requested, RequestOK, Granted, Frame, Moves, Adds, Ages,
     Kept, SameDb, SameRows, EnvTyped, history, At, None
<1>7. SpentOnce'
  BY <1>0, <1>1, <1>2 DEF TypeOK, Requested, RequestOK, SpentOnce, GivenForSpent,
     IssuesFirst, IssuesAlone, GivenOnce, Spent, Frame, Moves, Adds, Ages, Kept, SameDb,
     SameRows, EnvTyped, history, At, None
<1>8. ApprovedOnce'
  <2>1. CodeClosed' /\ CodeOnce'
    BY <1>0, <1>1, <1>2 DEF SpentOnce, GivenForSpent, IssuesFirst, IssuesAlone, GivenOnce,
       ApprovedOnce, CodeClosed, ApprovesFirst, ApprovesAlone, CodeOnce, CodeClosed,
       CodeOnce, SameRows, Kept
  <2>2. \A i \in Rows : token[i].consent # req[r].consent \/ req'[r].pc = "idle"
    BY <1>0, <1>1, <1>a DEF Requested, RequestOK, ApprovedOnce, CodeClosed, ApprovesFirst,
       ApprovesAlone, CodeOnce, CodeClosed, At
  <2>3. ApprovesFirst'
    <3>1. ASSUME NEW q \in Requests, Approving(q)', q # r
          PROVE  /\ consent'[req'[q].consent] = "closed"
                 /\ \A i \in Rows' : token'[i].consent # req'[q].consent
      BY <1>0, <1>1, <1>2, <3>1 DEF Requested, RequestOK, ApprovedOnce, CodeClosed,
         ApprovesFirst, ApprovesAlone, CodeOnce, ApprovesFirst,
         Approving, Frame, SameRows, Kept
    <3>2. ASSUME Approving(r)'
          PROVE  /\ consent'[req'[r].consent] = "closed"
                 /\ \A i \in Rows' : token'[i].consent # req'[r].consent
      BY <1>1, <2>2, <3>2 DEF Approving, Moves, SameRows
    <3>. QED  BY <3>1, <3>2 DEF ApprovesFirst
  <2>4. ApprovesAlone'
    BY <1>0, <1>1, <1>2 DEF Requested, RequestOK, ApprovedOnce, CodeClosed, ApprovesFirst,
       ApprovesAlone, CodeOnce, ApprovesFirst, ApprovesAlone,
       Approving, Frame, Moves, At
  <2>. QED  BY <2>1, <2>3, <2>4 DEF ApprovedOnce, CodeClosed, ApprovesFirst,
     ApprovesAlone, CodeOnce
<1>9. LateOK'
  BY <1>0, <1>1, <1>2 DEF TypeOK, Requested, RequestOK, Granted, LateOK, Live, Spent,
     Frame, Moves, Adds, Ages, Kept, SameDb, SameRows, EnvTyped, history, At, None
<1>. QED  BY <1>4, <1>5, <1>6, <1>7, <1>8, <1>9 DEF IInv

LEMMA SelectGrantKeeps ==
    ASSUME IInv, NEW r \in Requests, SelectGrant(r)
    PROVE  IInv'
<1>0. TypeOK /\ Requested /\ Granted /\ SpentOnce /\ ApprovedOnce /\ LateOK
  BY DEF IInv
<1>1. /\ Frame(r) /\ At(r, "select") /\ UNCHANGED history /\ EnvTyped /\ SameDb
      /\ req'[r].pc = "commit" /\ req'[r].act = req[r].act
         /\ req'[r].consent = req[r].consent
      /\ req'[r].grant = None \/ (req'[r].grant \in Grants /\ grant[req'[r].grant] # "none")
  <2>1. At(r, "select") /\ EnvTyped /\ SameDb /\ UNCHANGED history
    BY <1>0 DEF SelectGrant, history, dbVars, envVars, SameDb, SameRows, EnvTyped, TypeOK,
       Rows
  <2>2. req[r].grant = None /\ "commit" \in Pcs
    BY <1>0, <2>1, PcTypes DEF Requested, RequestOK, At
  <2>3. ASSUME NEW g \in Grants, Live(g),
               req' = [req EXCEPT ![r].pc = "commit", ![r].grant = g]
        PROVE  /\ Frame(r) /\ req'[r].pc = "commit" /\ req'[r].act = req[r].act
               /\ req'[r].consent = req[r].consent
               /\ req'[r].grant \in Grants /\ grant[req'[r].grant] # "none"
    <3>1. /\ Frame(r) /\ req'[r].pc = "commit" /\ req'[r].act = req[r].act
          /\ req'[r].consent = req[r].consent /\ req'[r].grant = g
      BY <1>0, <2>2, <2>3, GoesWith
    <3>. QED  BY <2>3, <3>1 DEF Live
  <2>4. CASE Goto(r, "commit")
    <3>1. Frame(r) /\ Moves(r, "commit")
      BY <1>0, <2>2, <2>4, Goes
    <3>. QED  BY <2>1, <2>2, <3>1 DEF Moves
  <2>. QED  BY <2>1, <2>3, <2>4 DEF SelectGrant
<1>2. Kept
  BY <1>1, SameKept
<1>4. TypeOK'
  BY <1>0, <1>1, <1>2 DEF TypeOK, Requested, RequestOK, Granted, Frame, Moves, Adds, Ages,
     Kept, SameDb, SameRows, EnvTyped, history, At, Consents, Grants, Tokens, Rows, None
<1>5. Requested'
  BY <1>0, <1>1, <1>2 DEF TypeOK, Requested, RequestOK, Frame, Moves, Adds, Ages, Kept,
     SameDb, SameRows, EnvTyped, history, At, None
<1>6. Granted'
  BY <1>0, <1>1, <1>2 DEF TypeOK, Requested, RequestOK, Granted, Frame, Moves, Adds, Ages,
     Kept, SameDb, SameRows, EnvTyped, history, At, None
<1>7. SpentOnce'
  BY <1>0, <1>1, <1>2 DEF TypeOK, Requested, RequestOK, SpentOnce, GivenForSpent,
     IssuesFirst, IssuesAlone, GivenOnce, Spent, Frame, Moves, Adds, Ages, Kept, SameDb,
     SameRows, EnvTyped, history, At, None
<1>8. ApprovedOnce'
  BY <1>0, <1>1, <1>2 DEF TypeOK, Requested, RequestOK, ApprovedOnce, CodeClosed,
     ApprovesFirst, ApprovesAlone, CodeOnce, Approving, Frame, Moves, Adds, Ages, Kept,
     SameDb, SameRows, EnvTyped, history, At, None
<1>9. LateOK'
  BY <1>0, <1>1, <1>2 DEF TypeOK, Requested, RequestOK, Granted, LateOK, Live, Spent,
     Frame, Moves, Adds, Ages, Kept, SameDb, SameRows, EnvTyped, history, At, None
<1>. QED  BY <1>4, <1>5, <1>6, <1>7, <1>8, <1>9 DEF IInv

LEMMA RevokeGrantKeeps ==
    ASSUME IInv, NEW r \in Requests, RevokeGrant(r)
    PROVE  IInv'
<1>0. TypeOK /\ Requested /\ Granted /\ SpentOnce /\ ApprovedOnce /\ LateOK
  BY DEF IInv
<1>1. /\ Frame(r) /\ At(r, "revoke") /\ UNCHANGED history /\ EnvTyped
      /\ SameRows /\ UNCHANGED consent
      /\ \/ req'[r].pc = "idle" /\ UNCHANGED grant
         \/ /\ Moves(r, "expire")
            /\ grant' \in [Grants -> {"none", "live", "revoked"}]
            /\ grant'[req[r].grant] = "revoked"
            /\ \A g \in Grants : g # req[r].grant => grant'[g] = grant[g]
  <2>1. At(r, "revoke") /\ EnvTyped /\ SameRows /\ UNCHANGED consent
    BY <1>0 DEF RevokeGrant, dbVars, envVars, SameDb, SameRows, EnvTyped, TypeOK, Rows
  <2>2. CASE req[r].act = "disconnect" /\ Answer(r) /\ UNCHANGED grant
    <3>1. Frame(r) /\ req'[r].pc = "idle" /\ UNCHANGED history
      BY <1>0, <2>1, <2>2, Quiet
    <3>. QED  BY <2>1, <2>2, <3>1
  <2>3. CASE grant' = [grant EXCEPT ![req[r].grant] = "revoked"] /\ Continue(r, "expire")
    <3>1. Goto(r, "expire") /\ UNCHANGED history /\ "expire" \in Pcs
      BY <2>3, PcTypes DEF Continue
    <3>2. Frame(r) /\ Moves(r, "expire")
      BY <1>0, <3>1, Goes
    <3>3. req[r].grant \in Grants
      BY <1>0, <2>1 DEF Requested, RequestOK, At
    <3>4. /\ grant' \in [Grants -> {"none", "live", "revoked"}]
          /\ grant'[req[r].grant] = "revoked"
          /\ \A g \in Grants : g # req[r].grant => grant'[g] = grant[g]
      BY <1>0, <2>3, <3>3 DEF TypeOK
    <3>. QED  BY <2>1, <3>1, <3>2, <3>4
  <2>. QED  BY <2>2, <2>3 DEF RevokeGrant
<1>2. Kept
  BY <1>0, <1>1 DEF TypeOK, Requested, RequestOK, At, Kept, Spent, SameRows, Consents,
     Grants, Tokens, Rows
<1>4. TypeOK'
  BY <1>0, <1>1, <1>2 DEF TypeOK, Requested, RequestOK, Granted, Frame, Moves, Adds, Ages,
     Kept, SameDb, SameRows, EnvTyped, history, At, Consents, Grants, Tokens, Rows, None
<1>5. Requested'
  BY <1>0, <1>1, <1>2 DEF TypeOK, Requested, RequestOK, Frame, Moves, Adds, Ages, Kept,
     SameDb, SameRows, EnvTyped, history, At, None
<1>6. Granted'
  BY <1>0, <1>1, <1>2 DEF TypeOK, Requested, RequestOK, Granted, Frame, Moves, Adds, Ages,
     Kept, SameDb, SameRows, EnvTyped, history, At, None
<1>7. SpentOnce'
  BY <1>0, <1>1, <1>2 DEF TypeOK, Requested, RequestOK, SpentOnce, GivenForSpent,
     IssuesFirst, IssuesAlone, GivenOnce, Spent, Frame, Moves, Adds, Ages, Kept, SameDb,
     SameRows, EnvTyped, history, At, None
<1>8. ApprovedOnce'
  BY <1>0, <1>1, <1>2 DEF TypeOK, Requested, RequestOK, ApprovedOnce, CodeClosed,
     ApprovesFirst, ApprovesAlone, CodeOnce, Approving, Frame, Moves, Adds, Ages, Kept,
     SameDb, SameRows, EnvTyped, history, At, None
<1>9. LateOK'
  BY <1>0, <1>1, <1>2 DEF TypeOK, Requested, RequestOK, Granted, LateOK, Live, Spent,
     Frame, Moves, Adds, Ages, Kept, SameDb, SameRows, EnvTyped, history, At, None
<1>. QED  BY <1>4, <1>5, <1>6, <1>7, <1>8, <1>9 DEF IInv

LEMMA ExpireTokensKeeps ==
    ASSUME IInv, NEW r \in Requests, ExpireTokens(r)
    PROVE  IInv'
<1>0. TypeOK /\ Requested /\ Granted /\ SpentOnce /\ ApprovedOnce /\ LateOK
  BY DEF IInv
<1>a. None \notin Rows /\ None \notin Consents /\ Rows \subseteq Tokens
  BY <1>0, NoneApart
<1>1. /\ Frame(r) /\ At(r, "expire") /\ EnvTyped /\ Ages /\ UNCHANGED <<grant, consent>>
      /\ req'[r].pc = "idle" /\ dead' = dead \cup {req[r].grant}
      /\ replayed' = replayed \/ (/\ req[r].act = "exchange"
                                  /\ replayed' = replayed \cup {req[r].tok})
  <2>1. At(r, "expire") /\ EnvTyped /\ UNCHANGED <<grant, consent, minted>> /\ Answer(r)
        /\ token' = Expired({i \in Tokens : token[i].grant = req[r].grant})
    BY <1>0 DEF ExpireTokens, dbVars, envVars, SameDb, SameRows, EnvTyped, TypeOK, Rows
  <2>2. Ages
    BY <1>0, <2>1, ExpiredAges
  <2>3. /\ Frame(r) /\ req'[r].pc = "idle"
        /\ dead' = IF At(r, "expire") THEN dead \cup {req[r].grant} ELSE dead
        /\ replayed' = IF req[r].act = "exchange" /\ req[r].late
                       THEN replayed \cup {req[r].tok} ELSE replayed
    BY <1>0, <2>1, Answers
  <2>. QED  BY <2>1, <2>2, <2>3
<1>2. Kept
  BY <1>0, <1>1 DEF TypeOK, Kept, Spent, SameDb, SameRows, Ages, Adds, Consents, Grants,
     Tokens, Rows
<1>4. TypeOK'
  <2>1. dead' \subseteq Grants /\ replayed' \subseteq Tokens
    BY <1>0, <1>1, <1>a DEF TypeOK, Requested, RequestOK, At
  <2>2. Frame(r) /\ EnvTyped /\ Ages /\ UNCHANGED <<grant, consent>>
    BY <1>1
  <2>. QED  BY <1>0, <2>1, <2>2 DEF TypeOK, Frame, EnvTyped, Ages, Rows
<1>5. Requested'
  BY <1>0, <1>1, <1>2 DEF TypeOK, Requested, RequestOK, Frame, Moves, Adds, Ages, Kept,
     SameDb, SameRows, EnvTyped, history, At, None
<1>6. Granted'
  BY <1>0, <1>1, <1>2 DEF TypeOK, Requested, RequestOK, Granted, Frame, Moves, Adds, Ages,
     Kept, SameDb, SameRows, EnvTyped, history, At, None
<1>7. SpentOnce'
  <2>1. Frame(r) /\ Ages /\ req'[r].pc = "idle"
    BY <1>1
  <2>. QED  BY <1>0, <1>2, <2>1 DEF Requested, RequestOK, SpentOnce, GivenForSpent,
     IssuesFirst, IssuesAlone, GivenOnce, Spent, Frame, Ages, Kept, At, Rows, None
<1>8. ApprovedOnce'
  <2>1. Frame(r) /\ Ages /\ req'[r].pc = "idle" /\ UNCHANGED consent
    BY <1>1
  <2>. QED  BY <1>0, <2>1 DEF Requested, RequestOK, ApprovedOnce, CodeClosed,
     ApprovesFirst, ApprovesAlone, CodeOnce, Approving, Frame, Ages, Rows, None
<1>9. LateOK'
  <2>1. /\ Frame(r) /\ Ages /\ req'[r].pc = "idle" /\ UNCHANGED grant
        /\ req[r].grant \in Grants /\ grant[req[r].grant] = "revoked"
        /\ req[r].act = "exchange" => /\ req[r].tok \in Rows
                                     /\ req[r].grant = token[req[r].tok].grant
    BY <1>0, <1>1 DEF Requested, RequestOK, Granted, At
  <2>2. \A g \in dead' : grant'[g] = "revoked"
    BY <1>0, <1>1, <2>1 DEF LateOK
  <2>3. \A i \in replayed' : i \in Rows /\ (token[i].kind = "pruned"
     \/ ~Live(token[i].grant))
    BY <1>0, <1>1, <2>1 DEF LateOK, Live
  <2>4. \A i \in replayed' : i \in Rows' /\ (token'[i].kind = "pruned"
     \/ ~Live(token[i].grant)')
    BY <2>1, <2>3 DEF Ages, Live, Rows
  <2>5. \A q \in Requests :
          /\ At(q, "check")' /\ req'[q].late => Spent(req[q].tok)'
          /\ req'[q].pc \in {"consume", "issue", "roles", "serving"} => ~req'[q].late
          /\ At(q, "auth")' /\ req'[q].late => grant'[token'[req'[q].tok].grant] = "revoked"
    BY <1>0, <1>2, <2>1 DEF Requested, RequestOK, LateOK, Frame, Ages, Kept, At
  <2>. QED  BY <2>1, <2>2, <2>4, <2>5 DEF LateOK, Live, Ages
<1>. QED  BY <1>4, <1>5, <1>6, <1>7, <1>8, <1>9 DEF IInv

LEMMA CommitConsentKeeps ==
    ASSUME IInv, NEW r \in Requests, CommitConsent(r)
    PROVE  IInv'
<1>0. TypeOK /\ Requested /\ Granted /\ SpentOnce /\ ApprovedOnce /\ LateOK
  BY DEF IInv
<1>a. None \notin Rows /\ None \notin Consents /\ Rows \subseteq Tokens
  BY <1>0, NoneApart
<1>1. /\ Frame(r) /\ At(r, "commit") /\ UNCHANGED history /\ EnvTyped /\ UNCHANGED consent
      /\ req'[r].pc = "idle"
      /\ \/ SameDb
         \/ \E g \in Grants :
              /\ Adds("code", g, None, req[r].consent)
              /\ grant' \in [Grants -> {"none", "live", "revoked"}] /\ grant'[g] # "none"
              /\ \A h \in Grants : grant[h] # "none" => grant'[h] = grant[h]
  <2>1. At(r, "commit") /\ EnvTyped /\ Answer(r) /\ UNCHANGED consent
    BY <1>0 DEF CommitConsent, dbVars, envVars, SameDb, SameRows, EnvTyped, TypeOK, Rows
  <2>2. Frame(r) /\ req'[r].pc = "idle" /\ UNCHANGED history
    BY <1>0, <2>1, Quiet DEF At
  <2>3. req[r].consent \in Consents /\ (req[r].grant = None \/ req[r].grant \in Grants)
    BY <1>0, <2>1 DEF Requested, RequestOK, Granted, At
  <2>4. ASSUME NEW g \in Grants, Mint(Code(r, g))
        PROVE  Adds("code", g, None, req[r].consent)
    <3>1. /\ Code(r, g) \in Token /\ Code(r, g).kind = "code" /\ Code(r, g).grant = g
          /\ Code(r, g).from = None /\ Code(r, g).consent = req[r].consent
      BY <2>3, CodeType
    <3>. QED  BY <1>0, <2>4, <3>1, MintAdds
  <2>5. CASE req[r].grant # None /\ Mint(Code(r, req[r].grant)) /\ UNCHANGED grant
    <3>1. Adds("code", req[r].grant, None, req[r].consent) /\ req[r].grant \in Grants
      BY <2>3, <2>4, <2>5
    <3>2. grant' \in [Grants -> {"none", "live",
       "revoked"}] /\ grant'[req[r].grant] # "none"
          /\ \A h \in Grants : grant[h] # "none" => grant'[h] = grant[h]
      BY <1>0, <2>1, <2>5 DEF TypeOK, Granted, At
    <3>. QED  BY <2>1, <2>2, <3>1, <3>2
  <2>6. ASSUME NEW g \in Grants, grant[g] = "none", Mint(Code(r, g)),
               grant' = [grant EXCEPT ![g] = "live"]
        PROVE  /\ Adds("code", g, None, req[r].consent)
               /\ grant' \in [Grants -> {"none", "live", "revoked"}] /\ grant'[g] # "none"
               /\ \A h \in Grants : grant[h] # "none" => grant'[h] = grant[h]
    BY <1>0, <2>4, <2>6 DEF TypeOK
  <2>7. CASE UNCHANGED <<grant, token, minted>>
    BY <2>1, <2>2, <2>7 DEF SameDb, SameRows, Rows
  <2>. QED  BY <2>1, <2>2, <2>5, <2>6, <2>7 DEF CommitConsent
<1>2. Kept
  BY <1>0, <1>1 DEF TypeOK, Kept, Spent, SameDb, SameRows, Ages, Adds, Consents, Grants,
     Tokens, Rows
<1>3. Frame(r) /\ At(r, "commit") /\ UNCHANGED history /\ EnvTyped /\ UNCHANGED consent
      /\ req'[r].pc = "idle"
  BY <1>1
<1>4. TypeOK'
  <2>1. CASE SameDb
    BY <1>0, <1>2, <1>3, <2>1 DEF TypeOK, Requested, RequestOK, Granted, Frame, Moves,
       Adds, Ages, Kept, SameDb, SameRows, EnvTyped, history, At, Consents, Grants,
       Tokens, Rows, None
  <2>2. ASSUME NEW g \in Grants, Adds("code", g, None, req[r].consent),
               grant' \in [Grants -> {"none", "live", "revoked"}], grant'[g] # "none",
               \A h \in Grants : grant[h] # "none" => grant'[h] = grant[h]
        PROVE  TypeOK'
    BY <1>0, <1>2, <1>3, <2>2 DEF TypeOK, Requested, RequestOK, Granted, Frame, Moves,
       Adds, Ages, Kept, SameDb, SameRows, EnvTyped, history, At, Consents, Grants,
       Tokens, Rows, None
  <2>. QED  BY <1>1, <2>1, <2>2
<1>5. Requested'
  <2>1. CASE SameDb
    BY <1>0, <1>2, <1>3, <2>1 DEF TypeOK, Requested, RequestOK, Frame, Moves, Adds, Ages,
       Kept, SameDb, SameRows, EnvTyped, history, At, None
  <2>2. ASSUME NEW g \in Grants, Adds("code", g, None, req[r].consent),
               grant' \in [Grants -> {"none", "live", "revoked"}], grant'[g] # "none",
               \A h \in Grants : grant[h] # "none" => grant'[h] = grant[h]
        PROVE  Requested'
    BY <1>0, <1>2, <1>3, <2>2 DEF TypeOK, Requested, RequestOK, Frame, Moves, Adds, Ages,
       Kept, SameDb, SameRows, EnvTyped, history, At, None
  <2>. QED  BY <1>1, <2>1, <2>2
<1>6. Granted'
  <2>1. CASE SameDb
    BY <1>0, <1>2, <1>3, <2>1 DEF TypeOK, Requested, RequestOK, Granted, Frame, Moves,
       Adds, Ages, Kept, SameDb, SameRows, EnvTyped, history, At, None
  <2>2. ASSUME NEW g \in Grants, Adds("code", g, None, req[r].consent),
               grant' \in [Grants -> {"none", "live", "revoked"}], grant'[g] # "none",
               \A h \in Grants : grant[h] # "none" => grant'[h] = grant[h]
        PROVE  Granted'
    BY <1>0, <1>2, <1>3, <2>2 DEF TypeOK, Requested, RequestOK, Granted, Frame, Moves,
       Adds, Ages, Kept, SameDb, SameRows, EnvTyped, history, At, None
  <2>. QED  BY <1>1, <2>1, <2>2
<1>7. SpentOnce'
  <2>1. CASE SameDb
    <3>1. GivenForSpent'
      BY <1>0, <1>2, <1>3, <1>a, <2>1 DEF TypeOK, Requested, RequestOK, SpentOnce,
         GivenForSpent, IssuesFirst, IssuesAlone, GivenOnce, Spent, Frame, Moves, Adds,
         Ages, Kept, SameDb, SameRows, EnvTyped, history, At, None
    <3>2. IssuesFirst'
      BY <1>0, <1>2, <1>3, <1>a, <2>1 DEF TypeOK, Requested, RequestOK, SpentOnce,
         GivenForSpent, IssuesFirst, IssuesAlone, GivenOnce, Spent, Frame, Moves, Adds,
         Ages, Kept, SameDb, SameRows, EnvTyped, history, At, None
    <3>3. IssuesAlone'
      BY <1>0, <1>2, <1>3, <1>a, <2>1 DEF TypeOK, Requested, RequestOK, SpentOnce,
         GivenForSpent, IssuesFirst, IssuesAlone, GivenOnce, Spent, Frame, Moves, Adds,
         Ages, Kept, SameDb, SameRows, EnvTyped, history, At, None
    <3>4. GivenOnce'
      BY <1>0, <1>2, <1>3, <1>a, <2>1 DEF TypeOK, Requested, RequestOK, SpentOnce,
         GivenForSpent, IssuesFirst, IssuesAlone, GivenOnce, Spent, Frame, Moves, Adds,
         Ages, Kept, SameDb, SameRows, EnvTyped, history, At, None
    <3>. QED  BY <3>1, <3>2, <3>3, <3>4 DEF SpentOnce, GivenForSpent, IssuesFirst,
       IssuesAlone, GivenOnce
  <2>2. ASSUME NEW g \in Grants, Adds("code", g, None, req[r].consent),
               grant' \in [Grants -> {"none", "live", "revoked"}], grant'[g] # "none",
               \A h \in Grants : grant[h] # "none" => grant'[h] = grant[h]
        PROVE  SpentOnce'
    <3>1. GivenForSpent'
      BY <1>0, <1>2, <1>3, <1>a, <2>2 DEF TypeOK, Requested, RequestOK, SpentOnce,
         GivenForSpent, IssuesFirst, IssuesAlone, GivenOnce, Spent, Frame, Moves, Adds,
         Ages, Kept, SameDb, SameRows, EnvTyped, history, At, None
    <3>2. IssuesFirst'
      BY <1>0, <1>2, <1>3, <1>a, <2>2 DEF TypeOK, Requested, RequestOK, SpentOnce,
         GivenForSpent, IssuesFirst, IssuesAlone, GivenOnce, Spent, Frame, Moves, Adds,
         Ages, Kept, SameDb, SameRows, EnvTyped, history, At, None
    <3>3. IssuesAlone'
      BY <1>0, <1>2, <1>3, <1>a, <2>2 DEF TypeOK, Requested, RequestOK, SpentOnce,
         GivenForSpent, IssuesFirst, IssuesAlone, GivenOnce, Spent, Frame, Moves, Adds,
         Ages, Kept, SameDb, SameRows, EnvTyped, history, At, None
    <3>4. GivenOnce'
      BY <1>0, <1>2, <1>3, <1>a, <2>2 DEF TypeOK, Requested, RequestOK, SpentOnce,
         GivenForSpent, IssuesFirst, IssuesAlone, GivenOnce, Spent, Frame, Moves, Adds,
         Ages, Kept, SameDb, SameRows, EnvTyped, history, At, None
    <3>. QED  BY <3>1, <3>2, <3>3, <3>4 DEF SpentOnce, GivenForSpent, IssuesFirst,
       IssuesAlone, GivenOnce
  <2>. QED  BY <1>1, <2>1, <2>2
<1>8. ApprovedOnce'
  <2>1. CASE SameDb
    BY <1>0, <1>2, <1>3, <2>1 DEF TypeOK, Requested, RequestOK, ApprovedOnce, CodeClosed,
       ApprovesFirst, ApprovesAlone, CodeOnce, Approving, Frame, Moves, Adds, Ages, Kept,
       SameDb, SameRows, EnvTyped, history, At, None
  <2>2. ASSUME NEW g \in Grants, Adds("code", g, None, req[r].consent),
               grant' \in [Grants -> {"none", "live", "revoked"}], grant'[g] # "none",
               \A h \in Grants : grant[h] # "none" => grant'[h] = grant[h]
        PROVE  ApprovedOnce'
    BY <1>0, <1>2, <1>3, <2>2 DEF TypeOK, Requested, RequestOK, ApprovedOnce, CodeClosed,
       ApprovesFirst, ApprovesAlone, CodeOnce, Approving, Frame, Moves, Adds, Ages, Kept,
       SameDb, SameRows, EnvTyped, history, At, None
  <2>. QED  BY <1>1, <2>1, <2>2
<1>9. LateOK'
  <2>1. CASE SameDb
    BY <1>0, <1>2, <1>3, <2>1 DEF TypeOK, Requested, RequestOK, Granted, LateOK, Live,
       Spent, Frame, Moves, Adds, Ages, Kept, SameDb, SameRows, EnvTyped, history, At, None
  <2>2. ASSUME NEW g \in Grants, Adds("code", g, None, req[r].consent),
               grant' \in [Grants -> {"none", "live", "revoked"}], grant'[g] # "none",
               \A h \in Grants : grant[h] # "none" => grant'[h] = grant[h]
        PROVE  LateOK'
    BY <1>0, <1>2, <1>3, <2>2 DEF TypeOK, Requested, RequestOK, Granted, LateOK, Live,
       Spent, Frame, Moves, Adds, Ages, Kept, SameDb, SameRows, EnvTyped, history, At, None
  <2>. QED  BY <1>1, <2>1, <2>2
<1>. QED  BY <1>4, <1>5, <1>6, <1>7, <1>8, <1>9 DEF IInv

LEMMA CheckTokenKeeps ==
    ASSUME IInv, NEW r \in Requests, CheckToken(r)
    PROVE  IInv'
<1>0. TypeOK /\ Requested /\ Granted /\ SpentOnce /\ ApprovedOnce /\ LateOK
  BY DEF IInv
<1>a. None \notin Rows /\ None \notin Consents /\ Rows \subseteq Tokens
  BY <1>0, NoneApart
<1>1. /\ Frame(r) /\ At(r, "check") /\ EnvTyped /\ SameDb
      /\ UNCHANGED dead
      /\ \/ /\ req'[r].pc = "idle"
            /\ replayed' = replayed \/ (/\ replayed' = replayed \cup {req[r].tok}
                                        /\ token[req[r].tok].kind = "pruned")
         \/ /\ UNCHANGED replayed
            /\ req'[r].pc = "revoke" /\ req'[r].act = req[r].act /\ req'[r].tok = req[r].tok
            /\ req'[r].grant = token[req[r].tok].grant
         \/ /\ UNCHANGED replayed
            /\ Moves(r, "consume") /\ ~Spent(req[r].tok)
  <2>. DEFINE t == token[req[r].tok]
  <2>1. At(r, "check") /\ EnvTyped /\ SameDb
    BY <1>0 DEF CheckToken, dbVars, envVars, SameDb, SameRows, EnvTyped, TypeOK, Rows
  <2>2. req[r].act = "exchange" /\ req[r].tok \in Rows /\ t.grant \in Grants
    BY <1>0, <2>1 DEF TypeOK, Requested, RequestOK, At
  <2>3. CASE Answer(r) /\ (t.kind = "pruned" \/ ~t.used)
    <3>1. /\ Frame(r) /\ req'[r].pc = "idle"
          /\ dead' = IF At(r, "expire") THEN dead \cup {req[r].grant} ELSE dead
          /\ replayed' = IF req[r].act = "exchange" /\ req[r].late
                         THEN replayed \cup {req[r].tok} ELSE replayed
      BY <1>0, <2>3, Answers
    <3>2. req[r].late => t.kind = "pruned"
      BY <1>0, <2>1, <2>3 DEF LateOK, Spent
    <3>3. UNCHANGED dead
      BY <2>1, <3>1 DEF At
    <3>. QED  BY <2>1, <2>2, <3>1, <3>2, <3>3
  <2>4. CASE req' = [req EXCEPT ![r].pc = "revoke",
     ![r].grant = t.grant] /\ UNCHANGED history
    <3>1. "revoke" \in Pcs
      BY PcTypes
    <3>2. /\ Frame(r) /\ req'[r].pc = "revoke" /\ req'[r].act = req[r].act
          /\ req'[r].consent = req[r].consent
          /\ req'[r].grant = t.grant /\ req'[r].tok = req[r].tok
             /\ req'[r].late = req[r].late
      BY <1>0, <2>2, <2>4, <3>1, GoesWith
    <3>. QED  BY <2>1, <2>4, <3>2 DEF history
  <2>5. CASE Continue(r, "consume") /\ t.kind # "pruned" /\ ~t.used
    <3>1. Goto(r, "consume") /\ UNCHANGED history /\ "consume" \in Pcs
      BY <2>5, PcTypes DEF Continue
    <3>2. Frame(r) /\ Moves(r, "consume")
      BY <1>0, <3>1, Goes
    <3>. QED  BY <2>1, <2>5, <3>1, <3>2 DEF Spent, history
  <2>. QED  BY <2>3, <2>4, <2>5 DEF CheckToken
<1>2. Kept
  BY <1>1, SameKept
<1>3. Frame(r) /\ At(r, "check") /\ EnvTyped /\ SameDb /\ UNCHANGED dead
  BY <1>1
<1>4. TypeOK'
  <2>1. CASE (/\ req'[r].pc = "idle"
              /\ replayed' = replayed \/ (/\ replayed' = replayed \cup {req[r].tok}
                                          /\ token[req[r].tok].kind = "pruned"))
    BY <1>0, <1>2, <1>3, <1>a, <2>1 DEF TypeOK, Requested, RequestOK, Granted, Frame,
       Moves, Adds, Ages, Kept, SameDb, SameRows, EnvTyped, history, At, Consents, Grants,
       Tokens, Rows, None, Spent
  <2>2. CASE (/\ UNCHANGED replayed
              /\ req'[r].pc = "revoke" /\ req'[r].act = req[r].act
                 /\ req'[r].tok = req[r].tok
              /\ req'[r].grant = token[req[r].tok].grant)
    BY <1>0, <1>2, <1>3, <1>a, <2>2 DEF TypeOK, Requested, RequestOK, Granted, Frame,
       Moves, Adds, Ages, Kept, SameDb, SameRows, EnvTyped, history, At, Consents, Grants,
       Tokens, Rows, None, Spent
  <2>3. CASE (UNCHANGED replayed /\ Moves(r, "consume") /\ ~Spent(req[r].tok))
    BY <1>0, <1>2, <1>3, <1>a, <2>3 DEF TypeOK, Requested, RequestOK, Granted, Frame,
       Moves, Adds, Ages, Kept, SameDb, SameRows, EnvTyped, history, At, Consents, Grants,
       Tokens, Rows, None, Spent
  <2>. QED  BY <1>1, <2>1, <2>2, <2>3
<1>5. Requested'
  <2>1. CASE (/\ req'[r].pc = "idle"
              /\ replayed' = replayed \/ (/\ replayed' = replayed \cup {req[r].tok}
                                          /\ token[req[r].tok].kind = "pruned"))
    BY <1>0, <1>2, <1>3, <2>1 DEF TypeOK, Requested, RequestOK, Frame, Moves, Adds, Ages,
       Kept, SameDb, SameRows, EnvTyped, history, At, None, Spent
  <2>2. CASE (/\ UNCHANGED replayed
              /\ req'[r].pc = "revoke" /\ req'[r].act = req[r].act
                 /\ req'[r].tok = req[r].tok
              /\ req'[r].grant = token[req[r].tok].grant)
    BY <1>0, <1>2, <1>3, <2>2 DEF TypeOK, Requested, RequestOK, Frame, Moves, Adds, Ages,
       Kept, SameDb, SameRows, EnvTyped, history, At, None, Spent
  <2>3. CASE (UNCHANGED replayed /\ Moves(r, "consume") /\ ~Spent(req[r].tok))
    BY <1>0, <1>2, <1>3, <2>3 DEF TypeOK, Requested, RequestOK, Frame, Moves, Adds, Ages,
       Kept, SameDb, SameRows, EnvTyped, history, At, None, Spent
  <2>. QED  BY <1>1, <2>1, <2>2, <2>3
<1>6. Granted'
  <2>1. CASE (/\ req'[r].pc = "idle"
              /\ replayed' = replayed \/ (/\ replayed' = replayed \cup {req[r].tok}
                                          /\ token[req[r].tok].kind = "pruned"))
    BY <1>0, <1>2, <1>3, <2>1 DEF TypeOK, Requested, RequestOK, Granted, Frame, Moves,
       Adds, Ages, Kept, SameDb, SameRows, EnvTyped, history, At, None, Spent
  <2>2. CASE (/\ UNCHANGED replayed
              /\ req'[r].pc = "revoke" /\ req'[r].act = req[r].act
                 /\ req'[r].tok = req[r].tok
              /\ req'[r].grant = token[req[r].tok].grant)
    BY <1>0, <1>2, <1>3, <2>2 DEF TypeOK, Requested, RequestOK, Granted, Frame, Moves,
       Adds, Ages, Kept, SameDb, SameRows, EnvTyped, history, At, None, Spent
  <2>3. CASE (UNCHANGED replayed /\ Moves(r, "consume") /\ ~Spent(req[r].tok))
    BY <1>0, <1>2, <1>3, <2>3 DEF TypeOK, Requested, RequestOK, Granted, Frame, Moves,
       Adds, Ages, Kept, SameDb, SameRows, EnvTyped, history, At, None, Spent
  <2>. QED  BY <1>1, <2>1, <2>2, <2>3
<1>7. SpentOnce'
  <2>1. CASE (/\ req'[r].pc = "idle"
              /\ replayed' = replayed \/ (/\ replayed' = replayed \cup {req[r].tok}
                                          /\ token[req[r].tok].kind = "pruned"))
    BY <1>0, <1>2, <1>3, <2>1 DEF TypeOK, Requested, RequestOK, SpentOnce, GivenForSpent,
       IssuesFirst, IssuesAlone, GivenOnce, Spent, Frame, Moves, Adds, Ages, Kept, SameDb,
       SameRows, EnvTyped, history, At, None, Spent
  <2>2. CASE (/\ UNCHANGED replayed
              /\ req'[r].pc = "revoke" /\ req'[r].act = req[r].act
                 /\ req'[r].tok = req[r].tok
              /\ req'[r].grant = token[req[r].tok].grant)
    BY <1>0, <1>2, <1>3, <2>2 DEF TypeOK, Requested, RequestOK, SpentOnce, GivenForSpent,
       IssuesFirst, IssuesAlone, GivenOnce, Spent, Frame, Moves, Adds, Ages, Kept, SameDb,
       SameRows, EnvTyped, history, At, None, Spent
  <2>3. CASE (UNCHANGED replayed /\ Moves(r, "consume") /\ ~Spent(req[r].tok))
    BY <1>0, <1>2, <1>3, <2>3 DEF TypeOK, Requested, RequestOK, SpentOnce, GivenForSpent,
       IssuesFirst, IssuesAlone, GivenOnce, Spent, Frame, Moves, Adds, Ages, Kept, SameDb,
       SameRows, EnvTyped, history, At, None, Spent
  <2>. QED  BY <1>1, <2>1, <2>2, <2>3
<1>8. ApprovedOnce'
  <2>1. CASE (/\ req'[r].pc = "idle"
              /\ replayed' = replayed \/ (/\ replayed' = replayed \cup {req[r].tok}
                                          /\ token[req[r].tok].kind = "pruned"))
    BY <1>0, <1>2, <1>3, <2>1 DEF TypeOK, Requested, RequestOK, ApprovedOnce, CodeClosed,
       ApprovesFirst, ApprovesAlone, CodeOnce, Approving, Frame, Moves, Adds, Ages, Kept,
       SameDb, SameRows, EnvTyped, history, At, None, Spent
  <2>2. CASE (/\ UNCHANGED replayed
              /\ req'[r].pc = "revoke" /\ req'[r].act = req[r].act
                 /\ req'[r].tok = req[r].tok
              /\ req'[r].grant = token[req[r].tok].grant)
    BY <1>0, <1>2, <1>3, <2>2 DEF TypeOK, Requested, RequestOK, ApprovedOnce, CodeClosed,
       ApprovesFirst, ApprovesAlone, CodeOnce, Approving, Frame, Moves, Adds, Ages, Kept,
       SameDb, SameRows, EnvTyped, history, At, None, Spent
  <2>3. CASE (UNCHANGED replayed /\ Moves(r, "consume") /\ ~Spent(req[r].tok))
    BY <1>0, <1>2, <1>3, <2>3 DEF TypeOK, Requested, RequestOK, ApprovedOnce, CodeClosed,
       ApprovesFirst, ApprovesAlone, CodeOnce, Approving, Frame, Moves, Adds, Ages, Kept,
       SameDb, SameRows, EnvTyped, history, At, None, Spent
  <2>. QED  BY <1>1, <2>1, <2>2, <2>3
<1>9. LateOK'
  <2>1. CASE (/\ req'[r].pc = "idle"
              /\ replayed' = replayed \/ (/\ replayed' = replayed \cup {req[r].tok}
                                          /\ token[req[r].tok].kind = "pruned"))
    BY <1>0, <1>2, <1>3, <2>1 DEF TypeOK, Requested, RequestOK, Granted, LateOK, Live,
       Spent, Frame, Moves, Adds, Ages, Kept, SameDb, SameRows, EnvTyped, history, At,
       None, Spent
  <2>2. CASE (/\ UNCHANGED replayed
              /\ req'[r].pc = "revoke" /\ req'[r].act = req[r].act
                 /\ req'[r].tok = req[r].tok
              /\ req'[r].grant = token[req[r].tok].grant)
    BY <1>0, <1>2, <1>3, <2>2 DEF TypeOK, Requested, RequestOK, Granted, LateOK, Live,
       Spent, Frame, Moves, Adds, Ages, Kept, SameDb, SameRows, EnvTyped, history, At,
       None, Spent
  <2>3. CASE (UNCHANGED replayed /\ Moves(r, "consume") /\ ~Spent(req[r].tok))
    BY <1>0, <1>2, <1>3, <2>3 DEF TypeOK, Requested, RequestOK, Granted, LateOK, Live,
       Spent, Frame, Moves, Adds, Ages, Kept, SameDb, SameRows, EnvTyped, history, At,
       None, Spent
  <2>. QED  BY <1>1, <2>1, <2>2, <2>3
<1>. QED  BY <1>4, <1>5, <1>6, <1>7, <1>8, <1>9 DEF IInv

LEMMA ConsumeTokenKeeps ==
    ASSUME IInv, NEW r \in Requests, ConsumeToken(r)
    PROVE  IInv'
<1>0. TypeOK /\ Requested /\ Granted /\ SpentOnce /\ ApprovedOnce /\ LateOK
  BY DEF IInv
<1>a. None \notin Rows /\ None \notin Consents /\ Rows \subseteq Tokens
  BY <1>0, NoneApart
<1>1. /\ Frame(r) /\ At(r, "consume") /\ EnvTyped /\ UNCHANGED <<grant, consent>>
      /\ UNCHANGED history
      /\ \/ req'[r].pc = "idle" /\ SameDb
         \/ /\ Moves(r, "issue") /\ Ages /\ ~Spent(req[r].tok)
            /\ token'[req[r].tok].used
            /\ \A i \in Rows : i # req[r].tok => token'[i] = token[i]
  <2>. DEFINE t == token[req[r].tok]
  <2>1. At(r, "consume") /\ EnvTyped /\ UNCHANGED <<grant, consent, minted>>
    BY <1>0 DEF ConsumeToken, dbVars, envVars, SameDb, SameRows, EnvTyped, TypeOK, Rows
  <2>2. req[r].tok \in Rows /\ req[r].tok \in Tokens
    BY <1>0, <2>1, OauthAssumption DEF TypeOK, Requested, RequestOK, At, Rows, Tokens
  <2>3. CASE Answer(r) /\ UNCHANGED token
    <3>1. Frame(r) /\ req'[r].pc = "idle" /\ UNCHANGED history
      BY <1>0, <2>1, <2>3, Quiet DEF At
    <3>. QED  BY <2>1, <2>3, <3>1 DEF SameDb, SameRows, Rows
  <2>4. CASE /\ ~(t.used \/ t.kind = "pruned") /\ Continue(r, "issue")
             /\ token' = [token EXCEPT ![req[r].tok].used = TRUE]
    <3>1. Goto(r, "issue") /\ UNCHANGED history /\ "issue" \in Pcs
      BY <2>4, PcTypes DEF Continue
    <3>2. Frame(r) /\ Moves(r, "issue")
      BY <1>0, <3>1, Goes
    <3>. DEFINE u == [t EXCEPT !.used = TRUE]
    <3>3. t \in Token
      BY <1>0, <2>2 DEF TypeOK
    <3>4. /\ u \in Token /\ u.kind = t.kind /\ u.grant = t.grant /\ u.from = t.from
          /\ u.consent = t.consent /\ u.used
      BY <3>3 DEF Token
    <3>5. token' = [token EXCEPT ![req[r].tok] = u]
      BY <1>0, <2>4 DEF TypeOK
    <3>. HIDE DEF u
    <3>6. Ages
      BY <1>0, <2>1, <2>2, <3>4, <3>5, AgesOne
    <3>7. /\ token'[req[r].tok].used
          /\ \A i \in Rows : i # req[r].tok => token'[i] = token[i]
      BY <1>0, <2>2, <3>4, <3>5, OauthAssumption DEF TypeOK, Rows, Tokens
    <3>. QED  BY <2>1, <2>4, <3>1, <3>2, <3>6, <3>7 DEF Spent
  <2>. QED  BY <2>3, <2>4 DEF ConsumeToken
<1>2. Kept
  BY <1>0, <1>1 DEF TypeOK, Kept, Spent, SameDb, SameRows, Ages, Adds, Consents, Grants,
     Tokens, Rows
<1>3. Frame(r) /\ At(r, "consume") /\ EnvTyped /\ UNCHANGED <<grant, consent>>
      /\ UNCHANGED history
  BY <1>1
<1>4. TypeOK'
  <2>1. CASE (req'[r].pc = "idle" /\ SameDb)
    BY <1>0, <1>2, <1>3, <2>1 DEF TypeOK, Requested, RequestOK, Granted, Frame, Moves,
       Adds, Ages, Kept, SameDb, SameRows, EnvTyped, history, At, Consents, Grants,
       Tokens, Rows, None, Spent
  <2>2. CASE (/\ Moves(r, "issue") /\ Ages /\ ~Spent(req[r].tok)
              /\ token'[req[r].tok].used
              /\ \A i \in Rows : i # req[r].tok => token'[i] = token[i])
    BY <1>0, <1>2, <1>3, <2>2 DEF TypeOK, Requested, RequestOK, Granted, Frame, Moves,
       Adds, Ages, Kept, SameDb, SameRows, EnvTyped, history, At, Consents, Grants,
       Tokens, Rows, None, Spent
  <2>. QED  BY <1>1, <2>1, <2>2
<1>5. Requested'
  <2>1. CASE (req'[r].pc = "idle" /\ SameDb)
    BY <1>0, <1>2, <1>3, <2>1 DEF TypeOK, Requested, RequestOK, Frame, Moves, Adds, Ages,
       Kept, SameDb, SameRows, EnvTyped, history, At, None, Spent
  <2>2. CASE (/\ Moves(r, "issue") /\ Ages /\ ~Spent(req[r].tok)
              /\ token'[req[r].tok].used
              /\ \A i \in Rows : i # req[r].tok => token'[i] = token[i])
    BY <1>0, <1>2, <1>3, <2>2 DEF TypeOK, Requested, RequestOK, Frame, Moves, Adds, Ages,
       Kept, SameDb, SameRows, EnvTyped, history, At, None, Spent
  <2>. QED  BY <1>1, <2>1, <2>2
<1>6. Granted'
  <2>1. CASE (req'[r].pc = "idle" /\ SameDb)
    BY <1>0, <1>2, <1>3, <2>1 DEF TypeOK, Requested, RequestOK, Granted, Frame, Moves,
       Adds, Ages, Kept, SameDb, SameRows, EnvTyped, history, At, None, Spent
  <2>2. CASE (/\ Moves(r, "issue") /\ Ages /\ ~Spent(req[r].tok)
              /\ token'[req[r].tok].used
              /\ \A i \in Rows : i # req[r].tok => token'[i] = token[i])
    BY <1>0, <1>2, <1>3, <2>2 DEF TypeOK, Requested, RequestOK, Granted, Frame, Moves,
       Adds, Ages, Kept, SameDb, SameRows, EnvTyped, history, At, None, Spent
  <2>. QED  BY <1>1, <2>1, <2>2
<1>7. SpentOnce'
  <2>1. CASE (req'[r].pc = "idle" /\ SameDb)
    <3>1. GivenForSpent'
      BY <1>0, <1>2, <1>3, <1>a, <2>1 DEF TypeOK, Requested, RequestOK, SpentOnce,
         GivenForSpent, IssuesFirst, IssuesAlone, GivenOnce, Spent, Frame, Moves, Adds,
         Ages, Kept, SameDb, SameRows, EnvTyped, history, At, None, Spent
    <3>2. IssuesFirst'
      BY <1>0, <1>2, <1>3, <1>a, <2>1 DEF TypeOK, Requested, RequestOK, SpentOnce,
         GivenForSpent, IssuesFirst, IssuesAlone, GivenOnce, Spent, Frame, Moves, Adds,
         Ages, Kept, SameDb, SameRows, EnvTyped, history, At, None, Spent
    <3>3. IssuesAlone'
      BY <1>0, <1>2, <1>3, <1>a, <2>1 DEF TypeOK, Requested, RequestOK, SpentOnce,
         GivenForSpent, IssuesFirst, IssuesAlone, GivenOnce, Spent, Frame, Moves, Adds,
         Ages, Kept, SameDb, SameRows, EnvTyped, history, At, None, Spent
    <3>4. GivenOnce'
      BY <1>0, <1>2, <1>3, <1>a, <2>1 DEF TypeOK, Requested, RequestOK, SpentOnce,
         GivenForSpent, IssuesFirst, IssuesAlone, GivenOnce, Spent, Frame, Moves, Adds,
         Ages, Kept, SameDb, SameRows, EnvTyped, history, At, None, Spent
    <3>. QED  BY <3>1, <3>2, <3>3, <3>4 DEF SpentOnce, GivenForSpent, IssuesFirst,
       IssuesAlone, GivenOnce
  <2>2. CASE (/\ Moves(r, "issue") /\ Ages /\ ~Spent(req[r].tok)
              /\ token'[req[r].tok].used
              /\ \A i \in Rows : i # req[r].tok => token'[i] = token[i])
    <3>1. GivenForSpent'
      BY <1>0, <1>2, <1>3, <1>a, <2>2 DEF TypeOK, Requested, RequestOK, SpentOnce,
         GivenForSpent, IssuesFirst, IssuesAlone, GivenOnce, Spent, Frame, Moves, Adds,
         Ages, Kept, SameDb, SameRows, EnvTyped, history, At, None, Spent
    <3>2. IssuesFirst'
      BY <1>0, <1>2, <1>3, <1>a, <2>2 DEF TypeOK, Requested, RequestOK, SpentOnce,
         GivenForSpent, IssuesFirst, IssuesAlone, GivenOnce, Spent, Frame, Moves, Adds,
         Ages, Kept, SameDb, SameRows, EnvTyped, history, At, None, Spent
    <3>3. IssuesAlone'
      BY <1>0, <1>2, <1>3, <1>a, <2>2 DEF TypeOK, Requested, RequestOK, SpentOnce,
         GivenForSpent, IssuesFirst, IssuesAlone, GivenOnce, Spent, Frame, Moves, Adds,
         Ages, Kept, SameDb, SameRows, EnvTyped, history, At, None, Spent
    <3>4. GivenOnce'
      BY <1>0, <1>2, <1>3, <1>a, <2>2 DEF TypeOK, Requested, RequestOK, SpentOnce,
         GivenForSpent, IssuesFirst, IssuesAlone, GivenOnce, Spent, Frame, Moves, Adds,
         Ages, Kept, SameDb, SameRows, EnvTyped, history, At, None, Spent
    <3>. QED  BY <3>1, <3>2, <3>3, <3>4 DEF SpentOnce, GivenForSpent, IssuesFirst,
       IssuesAlone, GivenOnce
  <2>. QED  BY <1>1, <2>1, <2>2
<1>8. ApprovedOnce'
  <2>1. CASE (req'[r].pc = "idle" /\ SameDb)
    BY <1>0, <1>2, <1>3, <2>1 DEF TypeOK, Requested, RequestOK, ApprovedOnce, CodeClosed,
       ApprovesFirst, ApprovesAlone, CodeOnce, Approving, Frame, Moves, Adds, Ages, Kept,
       SameDb, SameRows, EnvTyped, history, At, None, Spent
  <2>2. CASE (/\ Moves(r, "issue") /\ Ages /\ ~Spent(req[r].tok)
              /\ token'[req[r].tok].used
              /\ \A i \in Rows : i # req[r].tok => token'[i] = token[i])
    BY <1>0, <1>2, <1>3, <2>2 DEF TypeOK, Requested, RequestOK, ApprovedOnce, CodeClosed,
       ApprovesFirst, ApprovesAlone, CodeOnce, Approving, Frame, Moves, Adds, Ages, Kept,
       SameDb, SameRows, EnvTyped, history, At, None, Spent
  <2>. QED  BY <1>1, <2>1, <2>2
<1>9. LateOK'
  <2>1. CASE (req'[r].pc = "idle" /\ SameDb)
    BY <1>0, <1>2, <1>3, <2>1 DEF TypeOK, Requested, RequestOK, Granted, LateOK, Live,
       Spent, Frame, Moves, Adds, Ages, Kept, SameDb, SameRows, EnvTyped, history, At,
       None, Spent
  <2>2. CASE (/\ Moves(r, "issue") /\ Ages /\ ~Spent(req[r].tok)
              /\ token'[req[r].tok].used
              /\ \A i \in Rows : i # req[r].tok => token'[i] = token[i])
    BY <1>0, <1>2, <1>3, <2>2 DEF TypeOK, Requested, RequestOK, Granted, LateOK, Live,
       Spent, Frame, Moves, Adds, Ages, Kept, SameDb, SameRows, EnvTyped, history, At,
       None, Spent
  <2>. QED  BY <1>1, <2>1, <2>2
<1>. QED  BY <1>4, <1>5, <1>6, <1>7, <1>8, <1>9 DEF IInv

LEMMA IssueTokensKeeps ==
    ASSUME IInv, NEW r \in Requests, issueTokens(r)
    PROVE  IInv'
<1>0. TypeOK /\ Requested /\ Granted /\ SpentOnce /\ ApprovedOnce /\ LateOK
  BY DEF IInv
<1>a. None \notin Rows /\ None \notin Consents /\ Rows \subseteq Tokens
  BY <1>0, NoneApart
<1>1. /\ Frame(r) /\ At(r, "issue") /\ EnvTyped /\ UNCHANGED <<grant, consent>>
      /\ UNCHANGED history /\ req'[r].pc = "idle"
      /\ Adds("refresh", token[req[r].tok].grant, req[r].tok, None)
  <2>. DEFINE x == Pair(req[r].tok, token[req[r].tok].grant)
  <2>1. At(r, "issue") /\ EnvTyped /\ UNCHANGED <<grant, consent>> /\ Answer(r) /\ Mint(x)
    BY <1>0 DEF issueTokens, Pair, dbVars, envVars, SameDb, SameRows, EnvTyped, TypeOK, Rows
  <2>2. req[r].tok \in Rows /\ req[r].tok \in Tokens /\ token[req[r].tok].grant \in Grants
    BY <1>0, <2>1, OauthAssumption DEF TypeOK, Requested, RequestOK, At, Rows, Tokens
  <2>3. Frame(r) /\ req'[r].pc = "idle" /\ UNCHANGED history
    BY <1>0, <2>1, Quiet DEF At
  <2>4. /\ x \in Token /\ x.kind = "refresh" /\ x.grant = token[req[r].tok].grant
        /\ x.from = req[r].tok /\ x.consent = None
    BY <2>2, PairType
  <2>. HIDE DEF x
  <2>5. Adds("refresh", token[req[r].tok].grant, req[r].tok, None)
    BY <1>0, <2>1, <2>4, MintAdds
  <2>. QED  BY <2>1, <2>3, <2>5
<1>2. Kept
  BY <1>0, <1>1 DEF TypeOK, Kept, Spent, SameDb, SameRows, Ages, Adds, Consents, Grants,
     Tokens, Rows
<1>4. TypeOK'
  BY <1>0, <1>1, <1>2 DEF TypeOK, Requested, RequestOK, Granted, Frame, Moves, Adds, Ages,
     Kept, SameDb, SameRows, EnvTyped, history, At, Consents, Grants, Tokens, Rows, None
<1>5. Requested'
  BY <1>0, <1>1, <1>2 DEF TypeOK, Requested, RequestOK, Frame, Moves, Adds, Ages, Kept,
     SameDb, SameRows, EnvTyped, history, At, None
<1>6. Granted'
  BY <1>0, <1>1, <1>2 DEF TypeOK, Requested, RequestOK, Granted, Frame, Moves, Adds, Ages,
     Kept, SameDb, SameRows, EnvTyped, history, At, None
<1>7. SpentOnce'
  BY <1>0, <1>1, <1>2 DEF TypeOK, Requested, RequestOK, SpentOnce, GivenForSpent,
     IssuesFirst, IssuesAlone, GivenOnce, Spent, Frame, Moves, Adds, Ages, Kept, SameDb,
     SameRows, EnvTyped, history, At, None
<1>8. ApprovedOnce'
  <2>1. CodeClosed'
    BY <1>0, <1>1, <1>2, <1>a DEF TypeOK, Requested, RequestOK, ApprovedOnce, CodeClosed,
       ApprovesFirst, ApprovesAlone, CodeOnce, Approving, Frame, Moves, Adds, Ages, Kept,
       SameDb, SameRows, EnvTyped, history, At, None
  <2>2. ApprovesFirst'
    BY <1>0, <1>1, <1>2, <1>a DEF TypeOK, Requested, RequestOK, ApprovedOnce, CodeClosed,
       ApprovesFirst, ApprovesAlone, CodeOnce, Approving, Frame, Moves, Adds, Ages, Kept,
       SameDb, SameRows, EnvTyped, history, At, None
  <2>3. ApprovesAlone'
    BY <1>0, <1>1, <1>2, <1>a DEF TypeOK, Requested, RequestOK, ApprovedOnce, CodeClosed,
       ApprovesFirst, ApprovesAlone, CodeOnce, Approving, Frame, Moves, Adds, Ages, Kept,
       SameDb, SameRows, EnvTyped, history, At, None
  <2>4. CodeOnce'
    BY <1>0, <1>1, <1>2, <1>a DEF TypeOK, Requested, RequestOK, ApprovedOnce, CodeClosed,
       ApprovesFirst, ApprovesAlone, CodeOnce, Approving, Frame, Moves, Adds, Ages, Kept,
       SameDb, SameRows, EnvTyped, history, At, None
  <2>. QED  BY <2>1, <2>2, <2>3, <2>4 DEF ApprovedOnce, CodeClosed, ApprovesFirst,
     ApprovesAlone, CodeOnce
<1>9. LateOK'
  BY <1>0, <1>1, <1>2 DEF TypeOK, Requested, RequestOK, Granted, LateOK, Live, Spent,
     Frame, Moves, Adds, Ages, Kept, SameDb, SameRows, EnvTyped, history, At, None
<1>. QED  BY <1>4, <1>5, <1>6, <1>7, <1>8, <1>9 DEF IInv

-----------------------------------------------------------------------------
(* The invariant *)

LEMMA InitIInv ==
    ASSUME Init
    PROVE  IInv
<1>1. Rows = {} /\ \A r \in Requests : req[r].pc = "idle"
  BY DEF Init, Rows, Idle
<1>2. TypeOK
  <2>1. token \in [Tokens -> Token] /\ req \in [Requests -> Request]
    BY IdleType, NoTokenType DEF Init
  <2>2. minted \in 0..MaxTokens /\ events \in 0..MaxEvents
    BY OauthAssumption DEF Init
  <2>. QED  BY <1>1, <2>1, <2>2 DEF Init, TypeOK
<1>3. Requested /\ Granted /\ SpentOnce /\ ApprovedOnce
  BY <1>1 DEF Requested, RequestOK, Granted, SpentOnce, GivenForSpent, IssuesFirst,
              IssuesAlone, GivenOnce, ApprovedOnce, CodeClosed, ApprovesFirst,
              ApprovesAlone, CodeOnce, Approving, At
<1>4. LateOK
  BY <1>1 DEF Init, LateOK, At
<1>. QED  BY <1>2, <1>3, <1>4 DEF IInv

\* A step that changes nothing.
LEMMA StutterKeeps ==
    ASSUME IInv, UNCHANGED vars
    PROVE  IInv'
  BY DEF vars, dbVars, envVars, history, IInv, TypeOK, Requested, RequestOK, Granted,
         SpentOnce, GivenForSpent, IssuesFirst, IssuesAlone, GivenOnce, Spent,
         ApprovedOnce, CodeClosed, ApprovesFirst, ApprovesAlone, CodeOnce, Approving,
         LateOK, Live, Rows, At

LEMMA NextKeeps ==
    ASSUME IInv, [Next]_vars
    PROVE  IInv'
<1>1. ASSUME NEW r \in Requests, Step(r)
      PROVE  IInv'
  BY <1>1, TakeAuthorizeRequestKeeps, FindClientKeeps, SelectGrantKeeps, CommitConsentKeeps,
     CheckTokenKeeps, ConsumeTokenKeeps, IssueTokensKeeps, RevokeGrantKeeps,
     ExpireTokensKeeps, AuthenticateKeeps, ResolveAccessKeeps, ServedKeeps DEF Step
<1>2. ASSUME NEW r \in Requests, Submits(r)
      PROVE  IInv'
  BY <1>2, SubmitConsentKeeps, SubmitExchangeKeeps, SubmitRevokeKeeps, SubmitCallKeeps,
     SubmitDisconnectKeeps DEF Submits
<1>3. CASE Passes
  BY <1>3, ConsentExpiresKeeps, TokenExpiresKeeps, McpHousekeepingKeeps DEF Passes
<1>4. CASE UNCHANGED vars
  BY <1>4, StutterKeeps
<1>. QED  BY <1>1, <1>2, <1>3, <1>4, StashAuthorizeRequestKeeps, RequestFailsKeeps,
             DeprovisionUserKeeps, UpsertUserKeeps, SetClientBlockedKeeps DEF Next

LEMMA Invariance == Spec => []IInv
  BY InitIInv, NextKeeps, PTL DEF Spec

-----------------------------------------------------------------------------
(* The theorems *)

\* The rows keep their types, and none is without its kind and its grant (the columns
\* of migration 0063).
THEOREM OauthTypeCorrect == Spec => []TypeOK
<1>1. IInv => TypeOK
  BY DEF IInv
<1>. QED  BY <1>1, Invariance, PTL

\* A consent screen gives one code, and a code or refresh token one pair, however the
\* requests of the workers interleave (takeAuthorizeRequest and the conditional update
\* of handleAuthorizationCode and handleRefresh).
THEOREM LineageHolds == Spec => []LineageNeverForks
<1>1. IInv => LineageNeverForks
  BY DEF IInv, SpentOnce, GivenOnce, ApprovedOnce, CodeOnce, LineageNeverForks
<1>. QED  BY <1>1, Invariance, PTL

\* From when the replay of a used token has been answered its grant is not live, until
\* housekeeping deletes the token (revokeGrant, mcpHousekeeping).
THEOREM ReplaysRevoke == Spec => []ReplayRevokes
<1>1. IInv => ReplayRevokes
  BY DEF IInv, LateOK, ReplayRevokes
<1>. QED  BY <1>1, Invariance, PTL

\* No call that comes in after a revocation was answered is served, whatever tokens an
\* exchange in progress inserts afterwards (authenticate joins the grant).
THEOREM RevokedServesNot == Spec => []RevokedNeverServes
<1>1. IInv => RevokedNeverServes
  BY DEF IInv, LateOK, RevokedNeverServes, At
<1>. QED  BY <1>1, Invariance, PTL
=============================================================================
