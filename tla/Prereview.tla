------------------------------ MODULE Prereview ------------------------------
(***************************************************************************)
(* The AI pre-review of one open proposal and the policy gate of its       *)
(* accept: the sweep that gives every revision a run and executes the runs *)
(* that are due (scan/aiPrereview.ts, ai-prereview-db.ts), the reconcile   *)
(* that has a revision judged again when a rule changed (policy-db.ts),    *)
(* the re-run of a reviewer, and the gate that reads the verdict           *)
(* (proposals.ts).  No statement here is in a transaction with another,    *)
(* except those of the accept, and no run is claimed by the worker that    *)
(* executes it: a worker that has lost the leadership goes on with its     *)
(* sweep beside the new leader.  Reads that follow one another are one     *)
(* step.  A source is named by the bytes it holds.                         *)
(***************************************************************************)
EXTENDS Naturals, Sequences, FiniteSets

CONSTANTS
    Workers,        \* the replicas of the worker
    Rules,          \* the policy rules of the namespace and the platform
    Contents,       \* the bytes a revision may propose
    Digested,       \* those whose payload carries a digest
    Batch,          \* PREREVIEW_SWEEP_BATCH
    MaxAttempts,    \* PREREVIEW_MAX_ATTEMPTS
    DailyCap,       \* PREREVIEW_PROPOSAL_DAILY_CAP; the model lasts a day
    MaxRuns,        \* bound: ai_prereviews rows
    MaxLinks,       \* bound: ai_prereview_links rows
    MaxEvents,      \* bound: revisions, edits of rules, switches of the AI, re-runs, accepts,
                    \* statements and calls that fail, and faults
    MaxFaults       \* bound: crashes of a worker and moves of the leadership among them

ASSUME PrereviewAssumption ==
    /\ {Batch, MaxAttempts, DailyCap, MaxRuns, MaxLinks, MaxEvents, MaxFaults} \subseteq Nat
    /\ MaxAttempts > 0 /\ Digested \subseteq Contents /\ IsFiniteSet(Workers)

Runs     == 1..MaxRuns
None     == 0
Outcomes == {"complies", "violates"}    \* not_applicable and uncertain pass like complies

VARIABLES
    rule,       \* policy_rules with their newest revision
    aiOn,       \* the switch is on and the integration operational
    state,      \* proposals.state: open, or accepted
    payload,    \* proposal_revisions: the bytes of each
    run,        \* ai_prereviews, with ai_prereview_policy_results
    link,       \* ai_prereview_links, by id
    leader,     \* the worker whose isLeader is set
    sweep,      \* sweepAiPrereview of each worker
    exec,       \* executePrereviewRun, by worker and run
    gate,       \* the accept in progress
    rerun,      \* requestPrereviewRerun in progress
    events, faults,     \* so far
    judged,     \* history: the bytes and rules that the model found to comply
    overlap,    \* history: two sweeps were in progress at once
    passed      \* history: the revision and rules of an accept that needed no override

dbVars  == <<rule, aiOn, state, payload, run, link>>
history == <<judged, overlap, passed>>
bounds  == <<events, faults>>
vars    == <<dbVars, leader, sweep, exec, gate, rerun, bounds, history>>

NoRun == [status |-> "none", content |-> None, digested |-> FALSE, fp |-> {},
          trigger |-> "none", attempts |-> 0, wait |-> FALSE, results |-> {}]
NoSweep == [pc |-> "idle", rev |-> 0, fp |-> {}, run |-> None, trigger |-> "none",
            cached |-> FALSE]
NoExec == [pc |-> "idle", rules |-> {}, left |-> {}, from |-> None]
NoGate == [pc |-> "idle", rules |-> {}, run |-> None, results |-> {}]
NoRerun == [pc |-> "idle", rev |-> 0, content |-> None, digested |-> FALSE, run |-> None]

Latest == Len(payload)

\* applicablePolicyRules: every rule that is not disabled, at its newest revision.
ApplicableRules ==
    {<<r, rule[r].rev, rule[r].state>> : r \in {s \in Rules : rule[s].state # "disabled"}}

\* The fingerprint of a set of rules, and those of them that gate.
Fingerprint(rs) == {<<x[1], x[2]>> : x \in rs}
Enforced(rs)    == {<<x[1], x[2]>> : x \in {y \in rs : y[3] = "enforced"}}

\* runCovers: there is a result for each of them, at its revision.
Covers(results, fp) == fp \subseteq {<<x[1], x[2]>> : x \in results}

\* currentPrereviewRun: the newest link of the revision n (a set of one, or empty).
CurrentRun(n) ==
    {link[l].run : l \in {k \in 1..Len(link) :
        link[k].rev = n /\ \A m \in (k + 1)..Len(link) : link[m].rev # n}}

\* The automatic runs of the last 24 hours.
AutoRuns == {l \in 1..Len(link) : ~link[l].cached /\ run[link[l].run].trigger # "rerun"}

\* findReusableRun: a done run before a pending one, then the newest.
Reusable(c, fp) ==
    {i \in Runs : /\ run[i].status \in {"pending", "done"} /\ run[i].digested
                  /\ run[i].content = c /\ run[i].fp = fp}
BestOf(S) ==
    {i \in S : \A j \in S : \/ run[i].status = "done" /\ run[j].status = "pending"
                            \/ run[i].status = run[j].status /\ j <= i}

Init ==
    /\ rule \in [Rules -> [rev : {1}, state : {"enforced"}]]
    /\ aiOn = TRUE /\ state = "open"
    /\ payload \in [1..1 -> Contents]
    /\ run = [i \in Runs |-> NoRun] /\ link = <<>>
    /\ leader \in Workers
    /\ sweep = [w \in Workers |-> NoSweep]
    /\ exec = [w \in Workers |-> [i \in Runs |-> NoExec]]
    /\ gate = NoGate /\ rerun = NoRerun
    /\ events = 0 /\ faults = 0
    /\ judged = {} /\ overlap = FALSE /\ passed = {}

-----------------------------------------------------------------------------
(* Proposer, administrators, the reviewer's re-run *)

Happens == events < MaxEvents /\ events' = events + 1

EnvUnchanged == UNCHANGED <<leader, sweep, exec, history>>

\* A revision, with other bytes or with the same; the accept holds the proposal's lock.
revise(c) ==
    /\ Happens
    /\ state = "open" /\ gate = NoGate
    /\ payload' = Append(payload, c)
    /\ UNCHANGED <<rule, aiOn, state, run, link, gate, rerun, faults>> /\ EnvUnchanged

revisePolicyRule(r) ==
    /\ Happens
    /\ rule' = [rule EXCEPT ![r].rev = @ + 1]
    /\ UNCHANGED <<aiOn, state, payload, run, link, gate, rerun, faults>> /\ EnvUnchanged

setPolicyRuleState(r, s) ==
    /\ Happens
    /\ rule[r].state # s /\ rule' = [rule EXCEPT ![r].state = s]
    /\ UNCHANGED <<aiOn, state, payload, run, link, gate, rerun, faults>> /\ EnvUnchanged

savePrereviewSetting ==
    /\ Happens
    /\ aiOn' = ~aiOn
    /\ UNCHANGED <<rule, state, payload, run, link, gate, rerun, faults>> /\ EnvUnchanged

\* createPrereviewRun, with the next id.
createPrereviewRun(i, r) ==
    /\ run[i].status = "none" /\ \A j \in 1..(i - 1) : run[j].status # "none"
    /\ run' = [run EXCEPT ![i] = r]

NewRun(c, known, fp, trigger) ==
    [NoRun EXCEPT !.status = "pending", !.content = c, !.digested = known,
                  !.fp = fp, !.trigger = trigger]

linkPrereviewRun(i, n, cached) ==
    /\ Len(link) < MaxLinks
    /\ link' = Append(link, [run |-> i, rev |-> n, cached |-> cached])

\* Refused while the current run is pending; the source is the current run's, else
\* that of the revision.
requestPrereviewRerun ==
    /\ Happens
    /\ rerun = NoRerun /\ state = "open" /\ aiOn
    /\ \A i \in CurrentRun(Latest) : run[i].status # "pending"
    /\ rerun' = [NoRerun EXCEPT !.pc = "create", !.rev = Latest,
                    !.content = payload[Latest],
                    !.digested = \/ \E i \in CurrentRun(Latest) : run[i].digested
                                 \/ CurrentRun(Latest) = {} /\ payload[Latest] \in Digested]
    /\ UNCHANGED <<dbVars, gate, faults>> /\ EnvUnchanged

\* Neither the fingerprint nor the cache: it is judged for certain.
CreateRerun ==
    /\ rerun.pc = "create"
    /\ \E i \in Runs : /\ createPrereviewRun(i, NewRun(rerun.content, rerun.digested, {}, "rerun"))
                       /\ rerun' = [rerun EXCEPT !.pc = "link", !.run = i]
    /\ UNCHANGED <<rule, aiOn, state, payload, link, gate, bounds>> /\ EnvUnchanged

LinkRerun ==
    /\ rerun.pc = "link"
    /\ linkPrereviewRun(rerun.run, rerun.rev, FALSE)
    /\ rerun' = NoRerun
    /\ UNCHANGED <<rule, aiOn, state, payload, run, gate, bounds>> /\ EnvUnchanged

-----------------------------------------------------------------------------
(* The sweep: enqueue, reconcile, take what is due *)

AtSweep(w, pc) == sweep[w].pc = pc
SweepTo(w, pc) == sweep' = [sweep EXCEPT ![w].pc = pc]
SweepReads == UNCHANGED <<dbVars, leader, exec, gate, rerun, bounds, history>>

\* A run of the same bytes and rules, or, for a new revision, that of the revision before
\* if it has the same source: the payload may carry no digest.
ReuseFor(n, fp, trigger) ==
    LET c == payload[n]
        same == IF c \in Digested THEN BestOf(Reusable(c, fp)) ELSE {}
        before == {i \in CurrentRun(n - 1) : /\ trigger = "auto" /\ run[i].status # "failed"
                                             /\ run[i].content = c /\ run[i].fp = fp}
    IN  IF same # {} THEN same ELSE before

\* The latest revision is to be linked to a run that exists, or to a new one.
Assign(w, trigger) ==
    LET fp == Fingerprint(ApplicableRules)
        found == ReuseFor(Latest, fp, trigger)
        s == [NoSweep EXCEPT !.rev = Latest, !.fp = fp, !.trigger = trigger]
    IN  \/ found = {} /\ sweep' = [sweep EXCEPT ![w] = [s EXCEPT !.pc = "create"]]
        \/ \E i \in found :
             sweep' = [sweep EXCEPT ![w] = [s EXCEPT !.pc = "link", !.run = i, !.cached = TRUE]]

\* The leader's timer: enqueueProposalPrereviews takes an open proposal whose latest
\* revision has no link, within the cap.
sweepAiPrereview(w) ==
    /\ leader = w /\ aiOn /\ AtSweep(w, "idle")
    /\ IF state = "open" /\ CurrentRun(Latest) = {} /\ Cardinality(AutoRuns) < DailyCap
       THEN Assign(w, "auto")
       ELSE SweepTo(w, "reconcile")
    /\ overlap' = (overlap \/ \E v \in Workers : sweep[v] # NoSweep)
    /\ UNCHANGED <<dbVars, leader, exec, gate, rerun, bounds, judged, passed>>

CreateRun(w) ==
    LET c == payload[sweep[w].rev]
    IN  /\ AtSweep(w, "create")
        /\ \E i \in Runs :
             /\ createPrereviewRun(i, NewRun(c, c \in Digested, sweep[w].fp, sweep[w].trigger))
             /\ sweep' = [sweep EXCEPT ![w].pc = "link", ![w].run = i]
        /\ UNCHANGED <<rule, aiOn, state, payload, link, leader, exec, gate, rerun, bounds,
                       history>>

LinkRun(w) ==
    /\ AtSweep(w, "link")
    /\ linkPrereviewRun(sweep[w].run, sweep[w].rev, sweep[w].cached)
    /\ sweep' = [sweep EXCEPT ![w] = [NoSweep EXCEPT
                    !.pc = IF sweep[w].trigger = "auto" THEN "reconcile" ELSE "due"]]
    /\ UNCHANGED <<rule, aiOn, state, payload, run, leader, exec, gate, rerun, bounds, history>>

\* Mutant of policyReconcile: any wording of the rule will do.
policyReconcileByRule(w) ==
    /\ AtSweep(w, "reconcile")
    /\ IF /\ state = "open" /\ Cardinality(AutoRuns) < DailyCap
          /\ \E i \in CurrentRun(Latest) :
               /\ run[i].status = "done"
               /\ \E x \in Enforced(ApplicableRules) : \A y \in run[i].results : y[1] # x[1]
       THEN Assign(w, "policy")
       ELSE SweepTo(w, "due")
    /\ SweepReads

\* An open proposal whose current run is done and lacks a result for an enforced rule gets
\* a run for all the rules, within the cap.
policyReconcile(w) ==
    /\ AtSweep(w, "reconcile")
    /\ IF /\ state = "open" /\ Cardinality(AutoRuns) < DailyCap
          /\ \E i \in CurrentRun(Latest) :
               /\ run[i].status = "done"
               /\ ~Covers(run[i].results, Enforced(ApplicableRules))
       THEN Assign(w, "policy")
       ELSE SweepTo(w, "due")
    /\ SweepReads

\* duePrereviewRuns: pending, not put off, linked to an open proposal, the oldest first.
DueRuns ==
    {i \in Runs : /\ run[i].status = "pending" /\ ~run[i].wait /\ state = "open"
                  /\ \E l \in 1..Len(link) : link[l].run = i}

TakeDue(w) ==
    LET D == {i \in DueRuns : Cardinality({j \in DueRuns : j < i}) < Batch}
    IN  /\ AtSweep(w, "due")
        /\ exec' = [exec EXCEPT ![w] = [i \in Runs |->
                        IF i \in D THEN [NoExec EXCEPT !.pc = "load"] ELSE NoExec]]
        /\ SweepTo(w, "running")
        /\ UNCHANGED <<dbVars, leader, gate, rerun, bounds, history>>

SweepEnds(w) ==
    /\ AtSweep(w, "running") /\ exec[w] = [i \in Runs |-> NoExec]
    /\ sweep' = [sweep EXCEPT ![w] = NoSweep]
    /\ SweepReads

-----------------------------------------------------------------------------
(* executePrereviewRun; the runs of a sweep are executed side by side *)

At(w, i, pc)  == exec[w][i].pc = pc
Exec(w, i, e) == exec' = [exec EXCEPT ![w][i] = e]
Goto(w, i, pc) == exec' = [exec EXCEPT ![w][i].pc = pc]
ExecUnchanged == UNCHANGED <<dbVars, leader, sweep, gate, rerun, faults, history>>
ExecReads     == ExecUnchanged /\ UNCHANGED events
WritesRun     == UNCHANGED <<rule, aiOn, state, payload, link, leader, sweep, gate, rerun,
                             bounds, history>>

\* The files, the rules to judge, and a run that judged the same bytes under the same
\* rules, whose result is taken over unless a reviewer asked for a re-run.
loadFiles(w, i) ==
    LET done == {j \in BestOf(Reusable(run[i].content, Fingerprint(ApplicableRules)) \ {i}) :
                    run[i].trigger # "rerun" /\ run[j].status = "done"}
        e == [NoExec EXCEPT !.rules = ApplicableRules]
    IN  /\ At(w, i, "load")
        /\ \/ Happens /\ Goto(w, i, "unreachable")
           \/ done = {} /\ Exec(w, i, [e EXCEPT !.pc = "call"]) /\ UNCHANGED events
           \/ /\ \E j \in done : Exec(w, i, [e EXCEPT !.pc = "copy", !.from = j])
              /\ UNCHANGED events
        /\ ExecUnchanged

\* The model answers for every rule; the call is refused when the AI is off, or fails,
\* or gives no valid answer.
aiComplete(w, i) ==
    /\ At(w, i, "call")
    /\ \/ /\ aiOn
          /\ \E o \in [Rules -> Outcomes] :
               LET out == {<<x[1], x[2], o[x[1]]>> : x \in exec[w][i].rules}
               IN  /\ exec' = [exec EXCEPT ![w][i].pc = "delete", ![w][i].left = out]
                   /\ judged' = judged \cup {<<run[i].content, x[1], x[2]>> :
                                            x \in {y \in out : y[3] = "complies"}}
          /\ UNCHANGED events
       \/ aiOn /\ Happens /\ Goto(w, i, "fail") /\ UNCHANGED judged
       \/ ~aiOn /\ Exec(w, i, NoExec) /\ UNCHANGED <<judged, events>>
    /\ UNCHANGED <<dbVars, leader, sweep, gate, rerun, faults, overlap, passed>>

\* recordPrereviewSuccess and copyPrereviewResult: what an earlier attempt left goes ...
DeleteResults(w, i) ==
    /\ At(w, i, "delete") \/ At(w, i, "copy")
    /\ run' = [run EXCEPT ![i].results = {}]
    /\ Goto(w, i, IF At(w, i, "delete") THEN "insert" ELSE "copied")
    /\ WritesRun

\* ... the results come in one by one; the key is (run, rule) ...
InsertResult(w, i) ==
    /\ At(w, i, "insert")
    /\ \E x \in exec[w][i].left :
         IF \E y \in run[i].results : y[1] = x[1]
         THEN Goto(w, i, "fail") /\ UNCHANGED run
         ELSE /\ run' = [run EXCEPT ![i].results = @ \cup {x}]
              /\ exec' = [exec EXCEPT ![w][i].left = @ \ {x}]
    /\ WritesRun

\* ... or all at once; a conflict ends the execution of a copy and is not recorded.
InsertCopies(w, i) ==
    /\ At(w, i, "copied")
    /\ LET copies == run[exec[w][i].from].results
       IN  IF \E y \in run[i].results, x \in copies : y[1] = x[1]
           THEN Exec(w, i, NoExec) /\ UNCHANGED run
           ELSE /\ run' = [run EXCEPT ![i].results = @ \cup copies]
                /\ Goto(w, i, "insert")
    /\ WritesRun

Flipped(w, i) ==
    run' = [run EXCEPT ![i].status = "done", ![i].digested = TRUE, ![i].wait = FALSE,
                       ![i].fp = Fingerprint(exec[w][i].rules)]

\* Mutant of FlipDone: the run is done before its results are in.
FlipDoneFirst(w, i) ==
    /\ At(w, i, "insert")
    /\ Flipped(w, i)
    /\ IF exec[w][i].left = {} THEN Goto(w, i, "settle") ELSE UNCHANGED exec
    /\ WritesRun

\* ... and the run is done last.
FlipDone(w, i) ==
    /\ At(w, i, "insert") /\ exec[w][i].left = {}
    /\ Flipped(w, i)
    /\ Goto(w, i, "settle")
    /\ WritesRun

\* The notifications; when they fail, what was judged is an attempt that failed.
SettleRun(w, i) ==
    /\ At(w, i, "settle")
    /\ \/ Exec(w, i, NoExec) /\ UNCHANGED events
       \/ Happens /\ exec[w][i].from = None /\ Goto(w, i, "fail")
    /\ ExecUnchanged

\* Mutant of recordPrereviewFailure: it never gives up.
recordPrereviewFailureAgain(w, i) ==
    /\ At(w, i, "fail") \/ At(w, i, "unreachable")
    /\ run' = [run EXCEPT ![i].attempts = @ + 1, ![i].status = "pending", ![i].wait = TRUE]
    /\ Exec(w, i, NoExec)
    /\ WritesRun

\* One statement, whatever the run has become; the digest is known once the files were.
recordPrereviewFailure(w, i) ==
    LET gaveUp == run[i].attempts + 1 >= MaxAttempts
    IN  /\ At(w, i, "fail") \/ At(w, i, "unreachable")
        /\ run' = [run EXCEPT ![i].attempts = @ + 1,
                              ![i].digested = @ \/ At(w, i, "fail"),
                              ![i].status = IF gaveUp THEN "failed" ELSE "pending",
                              ![i].wait = ~gaveUp]
        /\ Exec(w, i, NoExec)
        /\ WritesRun

-----------------------------------------------------------------------------
(* The policy gate, in the transaction of an accept: evaluateProposalPolicyGate *)

GateReads == UNCHANGED <<dbVars, leader, sweep, exec, rerun, bounds, history>>

GateReadsRules ==
    /\ Happens
    /\ state = "open" /\ gate = NoGate
    /\ gate' = [NoGate EXCEPT !.pc = "run", !.rules = ApplicableRules]
    /\ UNCHANGED <<dbVars, leader, sweep, exec, rerun, faults, history>>

\* loadSubjectPolicyVerdict: the row of the current run, then its results if it is done.
GateReadsRun ==
    /\ gate.pc = "run"
    /\ \/ \E i \in CurrentRun(Latest) :
            /\ run[i].status = "done"
            /\ gate' = [gate EXCEPT !.pc = "results", !.run = i]
       \/ /\ \A i \in CurrentRun(Latest) : run[i].status # "done"
          /\ gate' = [gate EXCEPT !.pc = "decide"]
    /\ GateReads

GateReadsResults ==
    /\ gate.pc = "results"
    /\ gate' = [gate EXCEPT !.pc = "decide", !.results = run[gate.run].results]
    /\ GateReads

\* Mutant of policyGateTrips: a verdict on an earlier wording of the rule will do.
policyGateTripsStale ==
    {x \in Enforced(gate.rules) : \A y \in gate.results : y[1] = x[1] => y[3] = "violates"}

\* An enforced rule without a result at its revision, or with a violation.
policyGateTrips ==
    {x \in Enforced(gate.rules) : <<x[1], x[2], "complies">> \notin gate.results}

\* Refused or cut off, overridden, or let through.
DecideAccept ==
    /\ gate.pc = "decide"
    /\ \/ UNCHANGED <<state, passed>>
       \/ policyGateTrips # {} /\ state' = "accepted" /\ UNCHANGED passed
       \/ /\ policyGateTrips = {} /\ state' = "accepted"
          /\ passed' = {<<Latest, Enforced(gate.rules)>>}
    /\ gate' = NoGate
    /\ UNCHANGED <<rule, aiOn, payload, run, link, leader, sweep, exec, rerun, bounds, judged, overlap>>

-----------------------------------------------------------------------------
(* Time, housekeeping and faults *)

RetryDue(i) ==
    /\ run[i].status = "pending" /\ run[i].wait
    /\ run' = [run EXCEPT ![i].wait = FALSE]
    /\ UNCHANGED <<rule, aiOn, state, payload, link, leader, sweep, exec, gate, rerun, bounds,
                   history>>

\* Runs of a day ago that were never linked: nobody is about to link them any more.
pruneOrphanPrereviews(i) ==
    /\ run[i].status \in {"pending", "done", "failed"}
    /\ \A l \in 1..Len(link) : link[l].run # i
    /\ rerun.run # i /\ \A w \in Workers : sweep[w].run # i /\ exec[w][i] = NoExec
    /\ run' = [run EXCEPT ![i] = [NoRun EXCEPT !.status = "pruned"]]
    /\ UNCHANGED <<rule, aiOn, state, payload, link, leader, sweep, exec, gate, rerun, bounds,
                   history>>

Faults == Happens /\ faults < MaxFaults /\ faults' = faults + 1

\* The lock of the leader changes hands; the sweep of the old leader goes on.
LeadershipMoves(w) ==
    /\ Faults
    /\ leader # w /\ leader' = w
    /\ UNCHANGED <<dbVars, sweep, exec, gate, rerun, history>>

WorkerDies(w) ==
    /\ Faults
    /\ sweep[w] # NoSweep
    /\ sweep' = [sweep EXCEPT ![w] = NoSweep]
    /\ exec' = [exec EXCEPT ![w] = [i \in Runs |-> NoExec]]
    /\ UNCHANGED <<dbVars, leader, gate, rerun, history>>

\* The request for a re-run is cut off.
RequestDies ==
    /\ rerun # NoRerun
    /\ rerun' = NoRerun
    /\ UNCHANGED <<dbVars, gate, bounds>> /\ EnvUnchanged

-----------------------------------------------------------------------------
SweepStep(w) ==
    \/ sweepAiPrereview(w) \/ CreateRun(w) \/ LinkRun(w) \/ policyReconcile(w)
    \/ TakeDue(w) \/ SweepEnds(w)

ExecStep(w, i) ==
    \/ loadFiles(w, i) \/ aiComplete(w, i) \/ DeleteResults(w, i)
    \/ InsertResult(w, i) \/ InsertCopies(w, i) \/ FlipDone(w, i) \/ SettleRun(w, i)
    \/ recordPrereviewFailure(w, i)

Web ==
    \/ \E c \in Contents : revise(c)
    \/ \E r \in Rules : \/ revisePolicyRule(r)
                        \/ \E s \in {"disabled", "shadow", "enforced"} : setPolicyRuleState(r, s)
    \/ savePrereviewSetting
    \/ requestPrereviewRerun \/ CreateRerun \/ LinkRerun
    \/ GateReadsRules \/ GateReadsRun \/ GateReadsResults \/ DecideAccept
    \/ RequestDies

Next ==
    \/ Web
    \/ \E w \in Workers : \/ SweepStep(w) \/ LeadershipMoves(w) \/ WorkerDies(w)
                          \/ \E i \in Runs : ExecStep(w, i)
    \/ \E i \in Runs : RetryDue(i) \/ pruneOrphanPrereviews(i)

\* The leader sweeps every 30 s, what it awaits ends, and a retry falls due.
Fairness ==
    /\ \A w \in Workers : WF_vars(SweepStep(w) \/ \E i \in Runs : ExecStep(w, i))
    /\ WF_vars(\E i \in Runs : RetryDue(i))

Spec     == Init /\ [][Next]_vars
FairSpec == Spec /\ Fairness

-----------------------------------------------------------------------------
(* Properties *)

Pairs   == Rules \X (1..(MaxEvents + 1))
Results == Rules \X (1..(MaxEvents + 1)) \X Outcomes

\* A run that is to be tried has attempts left; those in progress when it is given up
\* are counted too.
TypeOK ==
    /\ rule \in [Rules -> [rev : 1..(MaxEvents + 1), state : {"disabled", "shadow", "enforced"}]]
    /\ aiOn \in BOOLEAN /\ state \in {"open", "accepted"}
    /\ payload \in Seq(Contents) /\ Latest \in 1..(MaxEvents + 1)
    /\ DOMAIN run = Runs
    /\ \A i \in Runs :
         /\ run[i].status \in {"none", "pending", "done", "failed", "pruned"}
         /\ run[i].content \in Contents \cup {None} /\ run[i].digested \in BOOLEAN
         /\ run[i].fp \subseteq Pairs /\ run[i].results \subseteq Results
         /\ run[i].trigger \in {"none", "auto", "policy", "rerun"}
         /\ run[i].attempts \in 0..(MaxAttempts - 1 + Cardinality(Workers))
         /\ run[i].wait \in BOOLEAN
         /\ run[i].status = "pending" => run[i].attempts < MaxAttempts
    /\ link \in Seq([run : Runs, rev : 1..(MaxEvents + 1), cached : BOOLEAN])
    /\ leader \in Workers
    /\ \A w \in Workers : sweep[w].run \in 0..MaxRuns /\ sweep[w].fp \subseteq Pairs
    /\ events \in 0..MaxEvents /\ faults \in 0..MaxFaults

\* An accept that needed no override was of bytes that the model found to comply with
\* every rule that was enforced, in the wording the accept read: no failed, half-stored
\* or outdated verdict, and none of other bytes, lets a proposal through
\* (policy.ts policyGateTrips; SKILLY_SPEC.md 47.7).
GateOnVerdict ==
    \A p \in passed : \A x \in p[2] : <<payload[p[1]], x[1], x[2]>> \in judged

\* A run that is done has a result for every rule it was judged on, whatever failed or
\* crashed (ai-prereview-db.ts: "a run is never `done` with missing results"), as long as
\* no two sweeps overlap.
DoneIsWholeUnlessOverlap ==
    overlap \/ \A i \in Runs : run[i].status = "done" => Covers(run[i].results, run[i].fp)

\* What the reviewer waits for: the current run failed for good, or is done and has a
\* result for every enforced rule in its wording of now; at the cap a re-run is needed.
Settled ==
    \/ state # "open" \/ ~aiOn
    \/ \E i \in CurrentRun(Latest) :
         \/ run[i].status = "failed"
         \/ /\ run[i].status = "done"
            /\ \/ Covers(run[i].results, Enforced(ApplicableRules))
               \/ Cardinality(AutoRuns) >= DailyCap
    \/ CurrentRun(Latest) = {} /\ Cardinality(AutoRuns) >= DailyCap

\* When the edits end an open proposal gets its verdict, after crashes too, unless two
\* sweeps overlapped (aiPrereview.ts: the sweep, and the reconcile of 47.6).
VerdictConverges == <>[](overlap \/ Settled)
=============================================================================
