------------------------------- MODULE Notify -------------------------------
(***************************************************************************)
(* The notifications of one user: the rows the web tier writes and         *)
(* coalesces (messages.ts, notifications.ts), the delivery sweep that      *)
(* mails them or leaves them to a digest (notify/deliver.ts), and the      *)
(* digest sweep (notify/digest.ts).  A delivery sweep that takes longer    *)
(* than its timer overlaps the next one; the digest sweep is guarded, per  *)
(* process.  Both are run by the leader and go on when it loses the lock.  *)
(* No two statements of theirs are in one transaction.  Reads that follow  *)
(* one another are one step.                                               *)
(***************************************************************************)
EXTENDS Naturals, Sequences, FiniteSets, SequencesExt

CONSTANTS
    Workers,        \* the replicas of the worker
    Default,        \* email_digest_default_mode
    Webhook,        \* whether the webhook of the organization is configured
    Batch,          \* NOTIFY_BATCH
    MaxAttempts,    \* NOTIFY_MAX_ATTEMPTS
    Keep,           \* pruneNotifications: the rows that are kept
    MaxPasses,      \* bound: the delivery sweeps in progress at once
    MaxRows,        \* bound: rows ever written
    MaxSlot,        \* bound: the digest slots that pass
    MaxEvents       \* bound: changes by the user, an administrator or the mail account,
                    \* sends and statements that fail, throttles, crashes, moves of the lock,
                    \* and delivery sweeps that begin beside another

ASSUME NotifyAssumption ==
    /\ {Batch, MaxAttempts, Keep, MaxPasses, MaxRows, MaxSlot, MaxEvents} \subseteq Nat
    /\ IsFiniteSet(Workers) /\ Batch > 0 /\ MaxAttempts > 0 /\ Webhook \in BOOLEAN /\ Default \in {"immediate", "digest"}

\* Always at once and coalesced; may be left to a digest; never mailed but in a digest.
Kinds == {"message", "update", "follow"}
Modes == {"immediate", "digest"}        \* daily and weekly differ in their slots only
None  == "none"
Rows  == 1..MaxRows
Passes == 1..MaxPasses

VARIABLES
    row,        \* notifications, by id
    inbox,      \* the ids of those not deleted, by created_at
    user,       \* the columns of users that matter to mail
    enabled,    \* platform_settings.email_digests_enabled
    transport,  \* a mail transport is operational
    slot,       \* the newest slot whose hour has come
    leader,     \* the worker whose isLeader is set
    paused,     \* notifyPausedUntil lies ahead, by worker
    pass,       \* deliverPendingNotifications in progress
    digest,     \* runDigestSweep of each worker
    events,     \* so far
    mailed,     \* history: how often each row was mailed, at once or in a digest
    excused,    \* history: rows that were due no mail of their own when they were delivered
    uncertain   \* history: rows whose send was not recorded, or that two sweeps held

history == <<mailed, excused, uncertain>>
config  == <<enabled, transport, slot>>
vars    == <<row, inbox, user, config, leader, paused, pass, digest, events, history>>

NewRow(k) == [kind |-> k, delivered |-> FALSE, state |-> None, attempts |-> 0,
              read |-> FALSE]
NoPass    == [worker |-> None, left |-> <<>>]
NoDigest  == [todo |-> <<>>, transport |-> FALSE, slot |-> 0, choice |-> None,
              failures |-> 0, drop |-> {}, keep |-> {}, as |-> None]

Exists(i) == i \in ToSet(inbox)

\* effectiveDigestMode
DigestMode ==
    /\ enabled /\ user.optedIn
    /\ (IF user.choice = None THEN Default ELSE user.choice) = "digest"

\* Mutant of isDigestDeferred: whatever the type.
isDigestDeferredAny(k) == DigestMode
isDigestDeferred(k) == k # "message" /\ DigestMode

Init ==
    /\ row = <<>> /\ inbox = <<>>
    /\ user \in [optedIn : {TRUE}, choice : {None}, stamp : {0}, failures : {0}]
    /\ enabled = TRUE /\ transport = TRUE /\ slot = 1
    /\ leader \in Workers /\ paused = [w \in Workers |-> FALSE]
    /\ pass = [p \in Passes |-> NoPass]
    /\ digest = [w \in Workers |-> NoDigest]
    /\ events = 0
    /\ mailed = [i \in Rows |-> 0] /\ excused = {} /\ uncertain = {}

-----------------------------------------------------------------------------
(* The web tier, and time *)

Web == UNCHANGED <<leader, paused, pass, digest, history>>
Happens == events < MaxEvents /\ events' = events + 1

\* One statement per recipient; a message goes into the unread row of its conversation,
\* at k in the inbox, which keeps its delivery columns and becomes the newest.
Inserted(k) ==
    /\ Len(row) < MaxRows
    /\ row' = Append(row, NewRow(k)) /\ inbox' = Append(inbox, Len(row) + 1)
UnreadMessage ==
    {k \in 1..Len(inbox) : row[inbox[k]].kind = "message" /\ ~row[inbox[k]].read}
Newest(k) == Append(RemoveAt(inbox, k), inbox[k])

\* Mutant of fanOut: the row is deleted and inserted again, to be delivered anew.
fanOutReinsert ==
    /\ \/ UnreadMessage = {} /\ Inserted("message")
       \/ \E k \in UnreadMessage :
            inbox' = Newest(k) /\ row' = [row EXCEPT ![inbox[k]].delivered = FALSE]
    /\ UNCHANGED <<user, config, events>> /\ Web

fanOut ==
    /\ \/ UnreadMessage = {} /\ Inserted("message")
       \/ \E k \in UnreadMessage : inbox' = Newest(k) /\ UNCHANGED row
    /\ UNCHANGED <<user, config, events>> /\ Web

Notifies(k) ==
    /\ k # "message"
    /\ Inserted(k)
    /\ UNCHANGED <<user, config, events>> /\ Web

\* Read in the inbox; a row whose skill or request goes meanwhile is as good as read.
markRead(i) ==
    /\ Happens
    /\ Exists(i) /\ ~row[i].read
    /\ row' = [row EXCEPT ![i].read = TRUE]
    /\ UNCHANGED <<inbox, user, config>> /\ Web

\* On every load of the inbox: delivered or not, the oldest go.
pruneNotifications ==
    /\ Len(inbox) > Keep
    /\ inbox' = SubSeq(inbox, Len(inbox) - Keep + 1, Len(inbox))
    /\ UNCHANGED <<row, user, config, events>> /\ Web

\* Another choice starts at first sight.
setUserEmailDigest(c) ==
    /\ Happens
    /\ c # user.choice
    /\ user' = [user EXCEPT !.choice = c, !.stamp = 0, !.failures = 0]
    /\ UNCHANGED <<row, inbox, config>> /\ Web

SwitchesMail ==
    /\ Happens
    /\ user' = [user EXCEPT !.optedIn = ~@]
    /\ UNCHANGED <<row, inbox, config>> /\ Web

\* The kill switch.  Another default does the same to users without a choice.
updateDigestSettings ==
    /\ Happens
    /\ enabled' = ~enabled
    /\ UNCHANGED <<row, inbox, user, transport, slot>> /\ Web

\* The mail account lapses or is connected again.
TransportChanges ==
    /\ Happens
    /\ transport' = ~transport
    /\ UNCHANGED <<row, inbox, user, enabled, slot>> /\ Web

SlotPasses ==
    /\ slot < MaxSlot /\ slot' = slot + 1
    /\ UNCHANGED <<row, inbox, user, enabled, transport, events>> /\ Web

-----------------------------------------------------------------------------
(* deliverPendingNotifications *)

Deliver == UNCHANGED <<inbox, user, config, leader, digest>>

\* The rows that are neither delivered nor parked, by their place in the inbox; a batch of
\* the oldest, which leaves none out unless it is full; what is to be done for each.
Pending ==
    {k \in 1..Len(inbox) : ~row[inbox[k]].delivered /\ row[inbox[k]].attempts < MaxAttempts}
Batches ==
    {at \in UNION {[1..n -> Pending] : n \in 1..Batch} :
        /\ \A m, n \in 1..Len(at) : m < n => at[m] < at[n]
        /\ \A k \in Pending \ Range(at) : Len(at) = Batch /\ at[Batch] < k}
External(k) == k # "follow" /\ (transport \/ Webhook)
Entry(i) ==
    LET k == row[i].kind
        deferred == isDigestDeferred(k)
        mail == External(k) /\ transport /\ user.optedIn /\ ~deferred
    IN  [id |-> i, deferred |-> deferred, mail |-> mail, external |-> External(k),
         sent |-> FALSE]
Held(p) == {pass[p].left[n].id : n \in 1..Len(pass[p].left)}

\* The leader's timer; a pass over nothing changes nothing.
deliverPendingNotifications(p) ==
    /\ pass[p] = NoPass /\ \A o \in 1..(p - 1) : pass[o] # NoPass
    /\ ~paused[leader]
    /\ IF p = 1 THEN UNCHANGED events ELSE Happens
    /\ \E at \in Batches :
         /\ pass' = [pass EXCEPT ![p] = [worker |-> leader,
                         left |-> [n \in 1..Len(at) |-> Entry(inbox[at[n]])]]]
         /\ uncertain' = uncertain \cup
                ({inbox[k] : k \in Range(at)} \cap UNION {Held(o) : o \in Passes})
    /\ UNCHANGED <<row, paused, mailed, excused>> /\ Deliver

Current(p) == pass[p].left[1]
InRow(p)   == pass[p].left # <<>>
Advance(p) == IF Len(pass[p].left) = 1 THEN NoPass ELSE [pass[p] EXCEPT !.left = Tail(@)]
EndRow(p)  == pass' = [pass EXCEPT ![p] = Advance(p)]
\* Mail of the row went out and the row does not say so.
Sent(p) == IF InRow(p) /\ Current(p).sent THEN {Current(p).id} ELSE {}
ToMail(p) == InRow(p) /\ Current(p).mail /\ ~Current(p).sent

\* The webhook comes after the mail and leaves no trace unless it fails.
Send(p) ==
    /\ ToMail(p)
    /\ pass' = [pass EXCEPT ![p].left[1].sent = TRUE]
    /\ mailed' = [mailed EXCEPT ![Current(p).id] = @ + 1]
    /\ UNCHANGED <<row, paused, events, excused, uncertain>> /\ Deliver

\* Mutant of markDelivered: the row is marked before its mail is sent.
markDeliveredFirst(p) ==
    LET e == Current(p)
    IN  /\ InRow(p)
        /\ row' = IF Exists(e.id)
                  THEN [row EXCEPT ![e.id].delivered = TRUE,
                                   ![e.id].state = IF e.deferred THEN "pending" ELSE @]
                  ELSE row
        /\ IF ~ToMail(p) THEN EndRow(p) ELSE UNCHANGED pass
        /\ excused' = IF e.mail \/ e.deferred THEN excused ELSE excused \cup {e.id}
        /\ UNCHANGED <<paused, events, mailed, uncertain>> /\ Deliver

\* Whatever the row has become meanwhile.
markDelivered(p) ==
    LET e == Current(p)
    IN  /\ InRow(p) /\ ~ToMail(p)
        /\ row' = IF Exists(e.id)
                  THEN [row EXCEPT ![e.id].delivered = TRUE,
                                   ![e.id].state = IF e.deferred THEN "pending" ELSE @]
                  ELSE row
        /\ EndRow(p)
        /\ excused' = IF e.mail \/ e.deferred THEN excused ELSE excused \cup {e.id}
        /\ UNCHANGED <<paused, events, mailed, uncertain>> /\ Deliver

\* The mail, the webhook or the mark fails: an attempt, and the next row.  A call that fails may have
\* sent the mail.
RowFails(p) ==
    LET e == Current(p)
    IN  /\ Happens
        /\ InRow(p) /\ e.external
        /\ row' = IF Exists(e.id) THEN [row EXCEPT ![e.id].attempts = @ + 1] ELSE row
        /\ EndRow(p)
        /\ \/ uncertain' = uncertain \cup Sent(p) /\ UNCHANGED mailed
           \/ /\ ToMail(p)
              /\ mailed' = [mailed EXCEPT ![e.id] = @ + 1]
              /\ uncertain' = uncertain \cup {e.id}
        /\ UNCHANGED <<paused, excused>> /\ Deliver

\* Graph answers 429: no attempt is consumed and the pass ends.
Throttled(p) ==
    /\ Happens
    /\ ToMail(p)
    /\ paused' = [paused EXCEPT ![pass[p].worker] = TRUE]
    /\ pass' = [pass EXCEPT ![p] = NoPass]
    /\ UNCHANGED <<row, history>> /\ Deliver

\* A statement outside the try fails.
PassFails(p) ==
    /\ Happens
    /\ InRow(p) /\ pass' = [pass EXCEPT ![p] = NoPass]
    /\ uncertain' = uncertain \cup Sent(p)
    /\ UNCHANGED <<row, paused, mailed, excused>> /\ Deliver

-----------------------------------------------------------------------------
(* runDigestSweep *)

Sweeps == UNCHANGED <<inbox, config, leader, pass>>
At(w, step) == digest[w].todo # <<>> /\ Head(digest[w].todo) = step
Goto(w, d, todo) == digest' = [digest EXCEPT ![w] = IF todo = <<>> THEN NoDigest
                                                    ELSE [d EXCEPT !.todo = todo]]
Rest(w) == Tail(digest[w].todo)

Waiting == {i \in ToSet(inbox) : row[i].state = "pending"}
Settle(S, as) == row' = [i \in DOMAIN row |-> IF i \in S \cap Waiting
                                              THEN [row[i] EXCEPT !.state = as] ELSE row[i]]

\* Mutant of runDigestSweep: who leaves digest mode keeps the rows that wait.
runDigestSweepKeeps(w) ==
    /\ leader = w /\ digest[w].todo = <<>> /\ ~paused[w]
    /\ DigestMode /\ user.stamp < slot
    /\ Goto(w, [NoDigest EXCEPT !.transport = transport, !.slot = slot,
                                !.choice = user.choice, !.failures = user.failures],
            IF user.stamp = 0 THEN <<"stamp">> ELSE <<"load">>)
    /\ UNCHANGED <<row, user, paused, events, history>> /\ Sweeps

\* The leader's timer.  What waits for a user who is not in digest mode stays unmailed;
\* digestDue: at first sight the slot is only stamped.  A sweep with nothing to drop and
\* nothing due changes nothing.
runDigestSweep(w) ==
    /\ leader = w /\ digest[w].todo = <<>> /\ ~paused[w]
    /\ \/ /\ ~DigestMode /\ Waiting # {}
          /\ Settle(Waiting, "dropped")
          /\ UNCHANGED digest
       \/ /\ DigestMode /\ user.stamp < slot
          /\ Goto(w, [NoDigest EXCEPT !.transport = transport, !.slot = slot,
                                      !.choice = user.choice, !.failures = user.failures],
                  IF user.stamp = 0 THEN <<"stamp">> ELSE <<"load">>)
          /\ UNCHANGED row
    /\ UNCHANGED <<user, paused, events, history>> /\ Sweeps

\* Of the rows that wait those read are dropped; all are when there is no transport.  The sweeps of two workers may load the same rows.
loadPending(w) ==
    LET stale == {i \in Waiting : row[i].read}
        keep  == IF digest[w].transport THEN Waiting \ stale ELSE {}
        drop  == Waiting \ keep
    IN  /\ At(w, "load")
        /\ Goto(w, [digest[w] EXCEPT !.drop = drop, !.keep = keep],
                (IF drop # {} THEN <<"drop">> ELSE <<>>)
                \o (IF keep # {} THEN <<"send">> ELSE <<"stamp">>))
        /\ uncertain' = uncertain \cup
                            (keep \cap UNION {digest[v].keep : v \in Workers \ {w}})
        /\ UNCHANGED <<row, user, paused, events, mailed, excused>> /\ Sweeps

DropStale(w) ==
    /\ At(w, "drop")
    /\ Settle(digest[w].drop, "dropped")
    /\ Goto(w, digest[w], Rest(w))
    /\ UNCHANGED <<user, paused, events, history>> /\ Sweeps

Mails(S) == mailed' = [i \in Rows |-> IF i \in S THEN mailed[i] + 1 ELSE mailed[i]]

SendDigest(w) ==
    /\ At(w, "send")
    /\ Mails(digest[w].keep)
    /\ Goto(w, [digest[w] EXCEPT !.as = "sent"], <<"settle", "stamp">>)
    /\ UNCHANGED <<row, user, paused, events, excused, uncertain>> /\ Sweeps

\* After MAX_ATTEMPTS the digest is given up; before, the rows wait for the next sweep.
\* The call may have sent it.
DigestFails(w) ==
    LET d == digest[w]
    IN  /\ Happens
        /\ At(w, "send")
        /\ \/ UNCHANGED <<mailed, uncertain>>
           \/ Mails(d.keep) /\ uncertain' = uncertain \cup d.keep
        /\ IF d.failures + 1 >= MaxAttempts
           THEN /\ Goto(w, [d EXCEPT !.as = "dropped"], <<"settle", "stamp">>)
                /\ UNCHANGED user
           ELSE /\ Goto(w, d, <<>>)
                /\ user' = [user EXCEPT !.failures = @ + 1]
        /\ UNCHANGED <<row, paused, excused>> /\ Sweeps

DigestThrottled(w) ==
    /\ Happens
    /\ At(w, "send")
    /\ paused' = [paused EXCEPT ![w] = TRUE]
    /\ Goto(w, digest[w], <<>>)
    /\ UNCHANGED <<row, user, history>> /\ Sweeps

settle(w) ==
    /\ At(w, "settle")
    /\ Settle(digest[w].keep, digest[w].as)
    /\ Goto(w, digest[w], Rest(w))
    /\ UNCHANGED <<user, paused, events, history>> /\ Sweeps

\* The slot is closed, unless the user made another choice meanwhile.
stamp(w) ==
    /\ At(w, "stamp")
    /\ user' = IF user.choice = digest[w].choice
               THEN [user EXCEPT !.stamp = digest[w].slot, !.failures = 0] ELSE user
    /\ Goto(w, digest[w], Rest(w))
    /\ UNCHANGED <<row, paused, events, history>> /\ Sweeps

\* Mail of these rows went out and they still wait.
SentIn(w) == IF At(w, "settle") /\ digest[w].as = "sent" THEN digest[w].keep ELSE {}

SweepFails(w) ==
    /\ Happens
    /\ digest[w].todo # <<>> /\ Goto(w, digest[w], <<>>)
    /\ uncertain' = uncertain \cup SentIn(w)
    /\ UNCHANGED <<row, user, paused, mailed, excused>> /\ Sweeps

-----------------------------------------------------------------------------
(* Workers *)

Process == UNCHANGED <<row, inbox, user, config, mailed, excused>>

\* The Retry-After has passed.
Resumes(w) ==
    /\ paused[w] /\ paused' = [paused EXCEPT ![w] = FALSE]
    /\ UNCHANGED <<leader, pass, digest, events, uncertain>> /\ Process

\* The lock goes to another replica; what is in progress goes on.
LeadershipMoves(w) ==
    /\ Happens
    /\ leader # w /\ leader' = w
    /\ UNCHANGED <<paused, pass, digest, uncertain>> /\ Process

\* A replica goes with what it has in progress, and any takes the lock.
Crash(w) ==
    /\ Happens
    /\ leader' \in Workers /\ (leader # w => leader' = leader)
    /\ pass' = [p \in Passes |-> IF pass[p].worker = w THEN NoPass ELSE pass[p]]
    /\ digest' = [digest EXCEPT ![w] = NoDigest]
    /\ paused' = [paused EXCEPT ![w] = FALSE]
    /\ uncertain' = uncertain \cup SentIn(w)
                        \cup UNION {Sent(p) : p \in {o \in Passes : pass[o].worker = w}}
    /\ Process

-----------------------------------------------------------------------------
PassStep(p) ==
    \/ deliverPendingNotifications(p) \/ Send(p) \/ markDelivered(p)
SweepStep(w) ==
    \/ runDigestSweep(w) \/ loadPending(w) \/ DropStale(w)
    \/ SendDigest(w) \/ settle(w) \/ stamp(w)

Next ==
    \/ fanOut \/ \E k \in Kinds : Notifies(k)
    \/ \E i \in 1..Len(row) : markRead(i)
    \/ pruneNotifications
    \/ \E c \in Modes \cup {None} : setUserEmailDigest(c)
    \/ SwitchesMail \/ updateDigestSettings \/ TransportChanges \/ SlotPasses
    \/ \E p \in Passes : PassStep(p) \/ RowFails(p) \/ Throttled(p) \/ PassFails(p)
    \/ \E w \in Workers :
         \/ SweepStep(w) \/ DigestFails(w) \/ DigestThrottled(w) \/ SweepFails(w)
         \/ Resumes(w) \/ LeadershipMoves(w) \/ Crash(w)

\* Timers fire, what is awaited answers, and a pause ends.
Fairness ==
    /\ WF_vars(\E p \in Passes : PassStep(p))
    /\ \A w \in Workers : WF_vars(SweepStep(w) \/ Resumes(w))

Spec     == Init /\ [][Next]_vars
FairSpec == Spec /\ Fairness

-----------------------------------------------------------------------------
(* Properties *)

\* The inbox is a set of rows, a row waits for a digest only when it is delivered and of
\* a kind that may, and a digest in progress belongs to a slot whose hour has come.
TypeOK ==
    /\ row \in Seq([kind : Kinds, delivered : BOOLEAN, read : BOOLEAN,
                    state : {None, "pending", "sent", "dropped"}, attempts : Nat])
    /\ inbox \in Seq(1..Len(row)) /\ Cardinality(ToSet(inbox)) = Len(inbox)
    /\ \A i \in 1..Len(row) : row[i].state # None => row[i].delivered /\ row[i].kind # "message"
    /\ user \in [optedIn : BOOLEAN, choice : Modes \cup {None}, stamp : 0..slot,
                 failures : 0..(MaxAttempts - 1 + Cardinality(Workers))]
    /\ leader \in Workers /\ paused \in [Workers -> BOOLEAN]
    /\ \A p \in Passes : Held(p) \subseteq 1..Len(row)
    /\ \A w \in Workers : digest[w].slot <= slot /\ digest[w].keep \subseteq 1..Len(row)
    /\ mailed \in [Rows -> Nat] /\ excused \subseteq Rows /\ uncertain \subseteq Rows

\* No row is mailed twice, at once or in a digest or both, whatever is coalesced into it,
\* switched or throttled, unless a send went unrecorded or two sweeps held the row
\* (index.ts: "Marks each delivered exactly once"; messages.ts: one email until read).
MailedOnceUnlessUncertain == \A i \in Rows \ uncertain : mailed[i] <= 1

\* What the table says was mailed was mailed, after failures, crashes, overlaps and
\* switches too: a row delivered that is neither left to a digest nor excused by the
\* opt-out, the kind or the lack of a transport, and a row settled as sent.
RecordedIsMailed ==
    \A i \in 1..Len(row) :
        /\ row[i].delivered /\ row[i].state = None => mailed[i] > 0 \/ i \in excused
        /\ row[i].state = "sent" => mailed[i] > 0

\* When the switches come to rest every row is delivered or parked, and one that was left
\* to a digest does not wait beyond the slot that is closed.
NotifySettles ==
    <>[](\A i \in ToSet(inbox) :
           /\ row[i].delivered \/ row[i].attempts >= MaxAttempts
           /\ row[i].state = "pending" => DigestMode /\ user.stamp = slot)
=============================================================================
