----------------------------- MODULE Leadership -----------------------------
(***************************************************************************)
(* Which worker replica runs the sweeps (packages/worker/src/index.ts).    *)
(* A replica leads while a dedicated connection of its holds the session   *)
(* advisory lock.  When that connection breaks, its two ends find out      *)
(* independently: Postgres ends the session and frees the lock, the        *)
(* replica gets an error event and clears isLeader.  In between there may  *)
(* be two replicas that take themselves for the leader, or none.           *)
(***************************************************************************)
EXTENDS Naturals, FiniteSets

CONSTANTS
    Workers,        \* the worker replicas
    NoWorker,
    MaxBreaks       \* bound: broken connections and crashes

ASSUME LeadershipAssumption ==
    /\ NoWorker \notin Workers
    /\ MaxBreaks \in Nat

VARIABLES
    holder,     \* the replica whose session holds the lock, to Postgres
    linked,     \* its leader connection is intact
    isLeader,   \* what each replica takes itself for
    breaks

leadVars == <<holder, linked, isLeader, breaks>>

LeadTypeOK ==
    /\ holder \in Workers \cup {NoWorker}
    /\ linked \in [Workers -> BOOLEAN]
    /\ isLeader \in [Workers -> BOOLEAN]
    /\ breaks \in 0..MaxBreaks

\* A replica leads, or none does yet.
LeadInit ==
    /\ holder \in Workers \cup {NoWorker}
    /\ linked = [w \in Workers |-> w = holder]
    /\ isLeader = linked
    /\ breaks = 0

\* pg_try_advisory_lock on a fresh connection, unless the replica already leads.
AttemptLeadership(w) ==
    /\ ~isLeader[w]
    /\ holder = NoWorker
    /\ holder' = w
    /\ linked' = [linked EXCEPT ![w] = TRUE]
    /\ isLeader' = [isLeader EXCEPT ![w] = TRUE]
    /\ UNCHANGED breaks

\* The leader's connection breaks; neither end has noticed.
ConnectionBreaks(w) ==
    /\ linked[w] /\ breaks < MaxBreaks
    /\ linked' = [linked EXCEPT ![w] = FALSE]
    /\ breaks' = breaks + 1
    /\ UNCHANGED <<holder, isLeader>>

\* Postgres ends the session; its locks are free.
SessionEnds(w) ==
    /\ holder = w /\ ~linked[w]
    /\ holder' = NoWorker
    /\ UNCHANGED <<linked, isLeader, breaks>>

\* The error event of the leader's connection.
StepDown(w) ==
    /\ isLeader[w] /\ ~linked[w]
    /\ isLeader' = [isLeader EXCEPT ![w] = FALSE]
    /\ UNCHANGED <<holder, linked, breaks>>

\* The process dies and is started again.
LeaderDies(w) ==
    /\ breaks < MaxBreaks
    /\ linked' = [linked EXCEPT ![w] = FALSE]
    /\ isLeader' = [isLeader EXCEPT ![w] = FALSE]
    /\ breaks' = breaks + 1
    /\ UNCHANGED holder
=============================================================================
