--------------------------- MODULE PrereviewProofs ---------------------------
(***************************************************************************)
(* What the AI pre-review and its gate guarantee for every number of       *)
(* workers, rules, revisions and runs, whoever edits rules, whenever a     *)
(* worker dies or goes on after it lost the lead: an accept that needed no *)
(* override was of bytes that were judged, and a run that is done is whole *)
(* unless two sweeps overlapped.                                           *)
(*                                                                         *)
(* A run is shared: revisions with the same bytes link to the same run,    *)
(* its results are copied to others, and it is read while it is rewritten. *)
(* The invariant follows the bytes through all of that.                    *)
(***************************************************************************)
EXTENDS Prereview, FiniteSetTheorems, TLAPS

ExecPcs == {"idle", "load", "unreachable", "call", "delete", "copy", "copied", "insert",
            "settle", "fail"}
States  == {"disabled", "shadow", "enforced"}

RunRow   == [status : {"none", "pending", "done", "failed", "pruned"},
             content : Contents \cup {None}, digested : BOOLEAN, fp : SUBSET Pairs,
             trigger : {"none", "auto", "policy", "rerun"}, attempts : Nat, wait : BOOLEAN,
             results : SUBSET Results]
LinkRow  == [run : Runs, rev : 1..(MaxEvents + 1), cached : BOOLEAN]
SweepRow == [pc : {"idle", "create", "link", "reconcile", "due", "running"}, rev : Nat,
             fp : SUBSET Pairs, run : 0..MaxRuns, trigger : {"none", "auto", "policy"},
             cached : BOOLEAN]
Judgeable == Rules \X (1..(MaxEvents + 1)) \X States
ExecRow  == [pc : ExecPcs, rules : SUBSET Judgeable, left : SUBSET Results, from : 0..MaxRuns]
GateRow  == [pc : {"idle", "run", "results", "decide"}, rules : SUBSET Judgeable,
             run : 0..MaxRuns, results : SUBSET Results]
RerunRow == [pc : {"idle", "create", "link"}, rev : Nat, content : Contents \cup {None},
             digested : BOOLEAN, run : 0..MaxRuns]

-----------------------------------------------------------------------------
(* The invariant *)

\* A run that was created and not pruned; one that is some revision's; one of the bytes
\* of the revision n.
Live(i)   == run[i].status \notin {"none", "pruned"}
Linked(i) == \E l \in 1..Len(link) : link[l].run = i
IsOf(i, n) == i \in Runs /\ Live(i) /\ run[i].content = payload[n]

\* What the model found to comply among the results rs for the bytes c.
Found(c, rs) == \A y \in rs : y[3] = "complies" => <<c, y[1], y[2]>> \in judged

WebInv ==
    /\ rule \in [Rules -> [rev : Nat, state : States]]
    /\ events \in 0..MaxEvents
    /\ \A r \in Rules : rule[r].rev \in 1..(events + 1)
    /\ aiOn \in BOOLEAN /\ state \in {"open", "accepted"}
    /\ payload \in Seq(Contents) /\ Latest \in 1..(events + 1)
    /\ leader \in Workers /\ faults \in 0..MaxFaults

\* A run that is done is linked, and what it has of results was judged of its bytes.
RunInv ==
    /\ run \in [Runs -> RunRow]
    /\ \A i \in Runs : /\ run[i].status = "done" => Linked(i)
                       /\ Found(run[i].content, run[i].results)

LinkInv ==
    /\ link \in Seq(LinkRow)
    /\ \A l \in 1..Len(link) : link[l].rev \in 1..Latest /\ IsOf(link[l].run, link[l].rev)

SweepOK(w) ==
    /\ sweep[w].pc = "idle" => sweep[w] = NoSweep
    /\ sweep[w].pc \in {"create", "link"} =>
          sweep[w].rev \in 1..Latest /\ sweep[w].trigger \in {"auto", "policy"}
    /\ sweep[w].pc = "link" => IsOf(sweep[w].run, sweep[w].rev)

SweepInv == sweep \in [Workers -> SweepRow] /\ \A w \in Workers : SweepOK(w)

RerunInv ==
    /\ rerun \in RerunRow
    /\ rerun.pc \in {"create", "link"} =>
          rerun.rev \in 1..Latest /\ rerun.content = payload[rerun.rev]
    /\ rerun.pc = "link" => IsOf(rerun.run, rerun.rev)

\* A run is executed only in the sweep that took it, and a copy is of a run of the same
\* bytes.
ExecOK(w, i) ==
    LET e == exec[w][i]
    IN  /\ e # NoExec => sweep[w].pc = "running" /\ Linked(i)
        /\ e.pc \in {"copy", "copied"} =>
              e.from \in Runs /\ Linked(e.from) /\ run[e.from].content = run[i].content
        /\ Found(run[i].content, e.left)

ExecInv ==
    /\ exec \in [Workers -> [Runs -> ExecRow]]
    /\ \A w \in Workers : \A i \in Runs : ExecOK(w, i)

\* The revision cannot change under an accept, so that what it has read is of its bytes.
GateInv ==
    /\ gate \in GateRow
    /\ gate.pc = "results" => IsOf(gate.run, Latest) /\ Linked(gate.run)
    /\ Found(payload[Latest], gate.results)
    /\ \A p \in passed : p[1] \in 1..Latest
    /\ GateOnVerdict

\* What is being executed has not been given up, and who executes it may still fail.
Executors(i) == {w \in Workers : exec[w][i] # NoExec}
TriesOK(i) ==
    /\ run[i].status = "pending" => run[i].attempts < MaxAttempts
    /\ run[i].attempts + Cardinality(Executors(i)) <= MaxAttempts - 1 + Cardinality(Workers)

TriesInv == \A i \in Runs : TriesOK(i)

\* Without an overlap there is one sweep, and a run that it executes is not done until
\* what it has and what is still to be inserted cover the rules.
WholeOK(w, i) ==
    LET e == exec[w][i]
        fp == Fingerprint(e.rules)
    IN  /\ e.pc \notin {"idle", "settle", "fail"} => run[i].status # "done"
        /\ e.pc = "delete" => Covers(e.left, fp)
        /\ e.pc = "insert" => Covers(run[i].results \cup e.left, fp)
        /\ e.pc \in {"copy", "copied"} =>
              /\ Covers(run[e.from].results, fp)
              /\ exec[w][e.from].pc \in {"idle", "settle", "fail"}

OneSweep == \A v, w \in Workers : sweep[v] # NoSweep /\ sweep[w] # NoSweep => v = w

RunsWhole == \A i \in Runs : run[i].status = "done" => Covers(run[i].results, run[i].fp)

WholeInv ==
    overlap \/ (OneSweep /\ RunsWhole /\ \A w \in Workers : \A i \in Runs : WholeOK(w, i))

IInv ==
    /\ WebInv /\ RunInv /\ LinkInv /\ SweepInv /\ RerunInv /\ ExecInv /\ GateInv
    /\ TriesInv /\ WholeInv

-----------------------------------------------------------------------------
(* Helpers *)

LEMMA Numbers ==
  /\ Batch \in Nat /\ MaxAttempts \in Nat \ {0} /\ DailyCap \in Nat /\ MaxRuns \in Nat
  /\ MaxLinks \in Nat /\ MaxEvents \in Nat /\ MaxFaults \in Nat
  /\ IsFiniteSet(Workers) /\ Cardinality(Workers) \in Nat
  /\ None \notin Runs
<1>1. Cardinality(Workers) \in Nat
  BY PrereviewAssumption, FS_CardinalityType
<1> QED
  BY <1>1, PrereviewAssumption DEF None, Runs

\* What a sweep or an accept reads of the rules is typed.
LEMMA RulesTyped ==
  ASSUME WebInv
  PROVE  /\ ApplicableRules \in SUBSET Judgeable
         /\ Fingerprint(ApplicableRules) \in SUBSET Pairs
<1>1. ASSUME NEW r \in Rules
      PROVE  rule[r].rev \in 1..(MaxEvents + 1) /\ rule[r].state \in States
  <2>1. rule[r].rev \in 1..(events + 1) /\ events \in 0..MaxEvents
    BY DEF WebInv
  <2>2. rule[r].state \in States
    BY DEF WebInv
  <2> QED
    BY <2>1, <2>2, Numbers
<1>2. ApplicableRules \in SUBSET Judgeable
  BY <1>1 DEF ApplicableRules, Judgeable
<1> QED
  BY <1>2 DEF Fingerprint, Judgeable, Pairs

LEMMA NoRunIs ==
  /\ NoRun \in RunRow /\ NoRun.status = "none" /\ NoRun.results = {} /\ NoRun.attempts = 0
  /\ LET p == [NoRun EXCEPT !.status = "pruned"]
     IN  p \in RunRow /\ p.status = "pruned" /\ p.results = {} /\ p.attempts = 0
<1>1. /\ {} \in SUBSET Results /\ {} \in SUBSET Pairs /\ 0 \in Nat /\ FALSE \in BOOLEAN
      /\ None \in Contents \cup {None}
  OBVIOUS
<1>2. NoRun \in RunRow
  BY <1>1 DEF NoRun, RunRow
<1>3. [NoRun EXCEPT !.status = "pruned"] \in RunRow
  BY <1>2 DEF RunRow
<1>4. /\ [NoRun EXCEPT !.status = "pruned"].status = "pruned"
      /\ [NoRun EXCEPT !.status = "pruned"].results = {}
      /\ [NoRun EXCEPT !.status = "pruned"].attempts = 0
  BY DEF NoRun
<1>5. NoRun.status = "none" /\ NoRun.results = {} /\ NoRun.attempts = 0
  BY DEF NoRun
<1> QED
  BY <1>2, <1>3, <1>4, <1>5

\* A run that is new is pending and has no results.
LEMMA NewRunIs ==
  ASSUME NEW c \in Contents \cup {None}, NEW known \in BOOLEAN, NEW fp \in SUBSET Pairs,
         NEW trigger \in {"auto", "policy", "rerun"}
  PROVE  LET r == NewRun(c, known, fp, trigger)
         IN  /\ r \in RunRow /\ r.status = "pending" /\ r.content = c /\ r.results = {}
             /\ r.attempts = 0
<1>1. NewRun(c, known, fp, trigger) \in RunRow
  <2>1. PICK r \in RunRow : r = NoRun
    BY NoRunIs
  <2>2. [r EXCEPT !.status = "pending", !.content = c, !.digested = known,
                  !.fp = fp, !.trigger = trigger] \in RunRow
    BY <2>1 DEF RunRow
  <2> QED
    BY <2>1, <2>2 DEF NewRun
<1>2. /\ NewRun(c, known, fp, trigger).status = "pending"
      /\ NewRun(c, known, fp, trigger).content = c
      /\ NewRun(c, known, fp, trigger).results = {}
      /\ NewRun(c, known, fp, trigger).attempts = 0
  BY DEF NewRun, NoRun
<1> QED
  BY <1>1, <1>2

-----------------------------------------------------------------------------
(* What a step does to the runs *)

\* The run i appears: it was never used.
Appears(i) ==
    /\ run[i].status = "none"
    /\ run'[i].status = "pending" /\ run'[i].results = {} /\ run'[i].attempts = 0

\* The run i goes: nobody refers to it.
Goes(i) ==
    /\ ~Linked(i) /\ rerun.run # i /\ \A w \in Workers : sweep[w].run # i /\ exec[w][i] = NoExec
    /\ run'[i].status = "pruned" /\ run'[i].results = {} /\ run'[i].attempts = 0

\* The run i stays what it is a run of.
Stays(i) ==
    /\ Live(i) /\ run'[i].status \notin {"none", "pruned"}
    /\ run'[i].content = run[i].content

\* One run changes, if any.
OneRun(i) ==
    /\ i \in Runs /\ run' \in [Runs -> RunRow]
    /\ \A j \in Runs \ {i} : run'[j] = run[j]

LEMMA Creating ==
  ASSUME IInv, NEW i \in Runs, NEW c \in Contents \cup {None}, NEW known \in BOOLEAN,
         NEW fp \in SUBSET Pairs, NEW trigger \in {"auto", "policy", "rerun"},
         createPrereviewRun(i, NewRun(c, known, fp, trigger))
  PROVE  OneRun(i) /\ Appears(i) /\ run'[i].content = c
<1> DEFINE r == NewRun(c, known, fp, trigger)
<1>1. run[i].status = "none" /\ run' = [run EXCEPT ![i] = r]
  BY DEF createPrereviewRun
<1>2. r \in RunRow /\ r.status = "pending" /\ r.content = c /\ r.results = {} /\ r.attempts = 0
  BY NewRunIs
<1>3. run \in [Runs -> RunRow]
  BY DEF IInv, RunInv
<1> HIDE DEF r
<1>4. run' \in [Runs -> RunRow] /\ run'[i] = r /\ \A j \in Runs \ {i} : run'[j] = run[j]
  BY <1>1, <1>2, <1>3
<1> QED
  BY <1>1, <1>2, <1>4 DEF OneRun, Appears

LEMMA RerunCreates ==
  ASSUME IInv, CreateRerun
  PROVE  /\ rerun'.run \in Runs /\ OneRun(rerun'.run) /\ Appears(rerun'.run)
         /\ run'[rerun'.run].content = rerun.content
         /\ rerun' = [rerun EXCEPT !.pc = "link", !.run = rerun'.run]
<1>1. PICK i \in Runs :
        /\ createPrereviewRun(i, NewRun(rerun.content, rerun.digested, {}, "rerun"))
        /\ rerun' = [rerun EXCEPT !.pc = "link", !.run = i]
  BY DEF CreateRerun
<1>2. rerun \in RerunRow
  BY DEF IInv, RerunInv
<1>3. rerun'.run = i /\ rerun.content \in Contents \cup {None} /\ rerun.digested \in BOOLEAN
  BY <1>1, <1>2 DEF RerunRow
<1>4. {} \in SUBSET Pairs
  OBVIOUS
<1> QED
  BY <1>1, <1>3, <1>4, Creating

LEMMA SweepCreates ==
  ASSUME IInv, NEW w \in Workers, CreateRun(w)
  PROVE  \E i \in Runs : /\ OneRun(i) /\ Appears(i)
                         /\ run'[i].content = payload[sweep[w].rev]
                         /\ sweep' = [sweep EXCEPT ![w].pc = "link", ![w].run = i]
<1> DEFINE c == payload[sweep[w].rev]
<1>1. PICK i \in Runs :
        /\ createPrereviewRun(i, NewRun(c, c \in Digested, sweep[w].fp, sweep[w].trigger))
        /\ sweep' = [sweep EXCEPT ![w].pc = "link", ![w].run = i]
  BY DEF CreateRun
<1>2. sweep[w].pc = "create" /\ sweep[w] \in SweepRow /\ sweep[w].rev \in 1..Latest
  BY DEF CreateRun, AtSweep, IInv, SweepInv, SweepOK
<1>3. c \in Contents
  BY <1>2 DEF IInv, WebInv, Latest
<1>4. sweep[w].fp \in SUBSET Pairs /\ (c \in Digested) \in BOOLEAN
  BY <1>2 DEF SweepRow
<1>5. sweep[w].trigger \in {"auto", "policy"}
  BY <1>2 DEF IInv, SweepInv, SweepOK
<1> QED
  BY <1>1, <1>3, <1>4, <1>5, Creating

-----------------------------------------------------------------------------
(* What executing a run does *)

\* One execution changes, if any.
OneExec(w, i) ==
    /\ exec' \in [Workers -> [Runs -> ExecRow]]
    /\ \A v \in Workers : \A j \in Runs : v # w \/ j # i => exec'[v][j] = exec[v][j]

NowFound(c, rs) == \A y \in rs : y[3] = "complies" => <<c, y[1], y[2]>> \in judged'

\* What a step of the execution of i by w does: bytes stay, and verdicts are on them.
Does(w, i) ==
    /\ UNCHANGED <<rule, aiOn, state, payload, link, leader, sweep, gate, rerun, faults,
                   overlap, passed>>
    /\ events' = events \/ (events < MaxEvents /\ events' = events + 1)
    /\ judged \subseteq judged'
    /\ OneRun(i) /\ Stays(i) /\ OneExec(w, i)
    /\ NowFound(run[i].content, run'[i].results)
    /\ NowFound(run[i].content, exec'[w][i].left)
    /\ exec'[w][i].pc \in {"copy", "copied"} =>
          LET j == exec'[w][i].from
          IN  j \in Runs /\ Linked(j) /\ run[j].content = run[i].content
    /\ \/ /\ run'[i].attempts = run[i].attempts
          /\ run'[i].status \in {run[i].status, "done"}
       \/ /\ run'[i].attempts = run[i].attempts + 1 /\ exec'[w][i] = NoExec
          /\ run'[i].status = "pending" => run'[i].attempts < MaxAttempts

LEMMA LinkedLive ==
  ASSUME IInv, NEW i \in Runs, Linked(i)
  PROVE  Live(i)
<1>1. PICK l \in 1..Len(link) : link[l].run = i
  BY DEF Linked
<1> QED
  BY <1>1 DEF IInv, LinkInv, IsOf

\* A run that is being executed is linked and typed, and so is its execution.
LEMMA Executing ==
  ASSUME IInv, NEW w \in Workers, NEW i \in Runs, exec[w][i].pc # "idle"
  PROVE  /\ exec[w][i] # NoExec /\ exec[w][i] \in ExecRow
         /\ sweep[w].pc = "running" /\ Linked(i) /\ Live(i)
         /\ run[i] \in RunRow /\ run \in [Runs -> RunRow]
         /\ Found(run[i].content, run[i].results) /\ Found(run[i].content, exec[w][i].left)
<1>1. exec[w][i] # NoExec
  BY DEF NoExec
<1>2. exec[w][i] \in ExecRow /\ ExecOK(w, i)
  BY DEF IInv, ExecInv
<1>3. Linked(i) /\ sweep[w].pc = "running" /\ Found(run[i].content, exec[w][i].left)
  BY <1>1, <1>2 DEF ExecOK
<1>4. run \in [Runs -> RunRow] /\ Found(run[i].content, run[i].results)
  BY DEF IInv, RunInv
<1> QED
  BY <1>1, <1>2, <1>3, <1>4, LinkedLive

\* Setting an execution, or its pc.
LEMMA ExecSet ==
  ASSUME IInv, NEW w \in Workers, NEW i \in Runs, NEW e \in ExecRow, Exec(w, i, e)
  PROVE  OneExec(w, i) /\ exec'[w][i] = e
BY DEF IInv, ExecInv, Exec, OneExec

LEMMA GotoSet ==
  ASSUME IInv, NEW w \in Workers, NEW i \in Runs, NEW pc \in ExecPcs, Goto(w, i, pc)
  PROVE  /\ OneExec(w, i) /\ exec'[w][i].pc = pc
         /\ exec'[w][i].rules = exec[w][i].rules /\ exec'[w][i].left = exec[w][i].left
         /\ exec'[w][i].from = exec[w][i].from
<1>1. exec \in [Workers -> [Runs -> ExecRow]]
  BY DEF IInv, ExecInv
<1> DEFINE e == [exec[w][i] EXCEPT !.pc = pc]
<1>2. exec[w][i] \in ExecRow
  BY <1>1
<1>3. /\ e \in ExecRow /\ e.pc = pc /\ e.rules = exec[w][i].rules
      /\ e.left = exec[w][i].left /\ e.from = exec[w][i].from
  BY <1>2 DEF ExecRow
<1>4. Exec(w, i, e)
  BY DEF Goto, Exec
<1> HIDE DEF e
<1> QED
  BY <1>3, <1>4, ExecSet

\* The run stays as it is, or gets other results.
LEMMA RunSame ==
  ASSUME IInv, NEW i \in Runs, Live(i), run' = run
  PROVE  OneRun(i) /\ Stays(i)
BY DEF IInv, RunInv, OneRun, Stays, Live

LEMMA ResultsSet ==
  ASSUME IInv, NEW i \in Runs, Live(i), NEW rs \in SUBSET Results,
         run' = [run EXCEPT ![i].results = rs]
  PROVE  /\ OneRun(i) /\ Stays(i) /\ run'[i].results = rs /\ run'[i].status = run[i].status
         /\ run'[i].attempts = run[i].attempts /\ run'[i].fp = run[i].fp
<1>1. run \in [Runs -> RunRow] /\ run[i] \in RunRow
  BY DEF IInv, RunInv
<1> DEFINE r == [run[i] EXCEPT !.results = rs]
<1>2. r \in RunRow
  BY <1>1 DEF RunRow
<1>3. /\ r.results = rs /\ r.status = run[i].status /\ r.attempts = run[i].attempts
      /\ r.fp = run[i].fp /\ r.content = run[i].content
  BY <1>1 DEF RunRow
<1>4. run' = [run EXCEPT ![i] = r]
  OBVIOUS
<1> HIDE DEF r
<1> QED
  BY <1>1, <1>2, <1>3, <1>4 DEF OneRun, Stays, Live

LEMMA NoExecIs ==
  /\ NoExec \in ExecRow /\ NoExec.pc = "idle" /\ NoExec.left = {}
  /\ \A pc \in ExecPcs : [NoExec EXCEPT !.pc = pc] \in ExecRow
<1>1. NoExec \in ExecRow
  BY Numbers DEF NoExec, ExecRow, ExecPcs, None
<1>2. ASSUME NEW pc \in ExecPcs PROVE [NoExec EXCEPT !.pc = pc] \in ExecRow
  BY <1>1, <1>2 DEF ExecRow
<1> QED
  BY <1>1, <1>2 DEF NoExec

-----------------------------------------------------------------------------
(* The steps of an execution, one by one *)

Opened(w, i) ==
    /\ exec[w][i].pc = "load" /\ run' = run
    /\ exec'[w][i].pc \in {"unreachable", "call", "copy"}
    /\ exec'[w][i].pc = "copy" =>
          LET j == exec'[w][i].from
          IN  /\ j \in Runs \ {i} /\ run[j].status = "done"
              /\ run[j].fp = Fingerprint(exec'[w][i].rules)

LEMMA LoadDoes ==
  ASSUME IInv, NEW w \in Workers, NEW i \in Runs, loadFiles(w, i)
  PROVE  Does(w, i) /\ Opened(w, i)
<1>1. exec[w][i].pc = "load"
  BY DEF loadFiles, At
<1>2. /\ Linked(i) /\ Live(i) /\ Found(run[i].content, run[i].results)
      /\ Found(run[i].content, exec[w][i].left)
  BY <1>1, Executing
<1>3. /\ UNCHANGED <<rule, aiOn, state, payload, link, leader, sweep, gate, rerun, faults,
                     overlap, passed>>
      /\ run' = run /\ judged' = judged
      /\ events' = events \/ (events < MaxEvents /\ events' = events + 1)
  BY DEF loadFiles, ExecUnchanged, dbVars, history, Happens
<1>4. OneRun(i) /\ Stays(i) /\ NowFound(run[i].content, run'[i].results)
  BY <1>2, <1>3, RunSame DEF Found, NowFound
<1>5. ASSUME /\ OneExec(w, i) /\ NowFound(run[i].content, exec'[w][i].left)
             /\ exec'[w][i].pc \in {"unreachable", "call", "copy"}
             /\ exec'[w][i].pc = "copy" =>
                   LET j == exec'[w][i].from
                   IN  /\ j \in Runs \ {i} /\ run[j].status = "done"
                       /\ run[j].content = run[i].content
                       /\ run[j].fp = Fingerprint(exec'[w][i].rules)
      PROVE  Does(w, i) /\ Opened(w, i)
  <2>1. Opened(w, i)
    BY <1>1, <1>3, <1>5 DEF Opened
  <2>2. exec'[w][i].pc \in {"copy", "copied"} => Linked(exec'[w][i].from)
    BY <1>5 DEF IInv, RunInv
  <2> QED
    BY <1>3, <1>4, <1>5, <2>1, <2>2 DEF Does
<1>6. CASE Goto(w, i, "unreachable")
  <2>1. OneExec(w, i) /\ exec'[w][i].pc = "unreachable" /\ exec'[w][i].left = exec[w][i].left
    BY <1>6, GotoSet DEF ExecPcs
  <2> QED
    BY <1>2, <1>3, <1>5, <2>1 DEF Found, NowFound
<1> DEFINE base == [NoExec EXCEPT !.rules = ApplicableRules]
<1>7. base \in ExecRow /\ base.left = {} /\ base.rules = ApplicableRules
  BY NoExecIs, RulesTyped DEF IInv, ExecRow, NoExec
<1> HIDE DEF base
<1>8. CASE Exec(w, i, [base EXCEPT !.pc = "call"])
  <2>1. /\ [base EXCEPT !.pc = "call"] \in ExecRow
        /\ [base EXCEPT !.pc = "call"].pc = "call" /\ [base EXCEPT !.pc = "call"].left = {}
    BY <1>7 DEF ExecRow, ExecPcs
  <2>2. OneExec(w, i) /\ exec'[w][i] = [base EXCEPT !.pc = "call"]
    BY <1>8, <2>1, ExecSet
  <2> QED
    BY <1>5, <2>1, <2>2 DEF NowFound
<1>9. ASSUME NEW j \in BestOf(Reusable(run[i].content, Fingerprint(ApplicableRules)) \ {i}),
             run[j].status = "done",
             Exec(w, i, [base EXCEPT !.pc = "copy", !.from = j])
      PROVE  Does(w, i) /\ Opened(w, i)
  <2> DEFINE e == [base EXCEPT !.pc = "copy", !.from = j]
  <2>1. /\ j \in Runs \ {i} /\ run[j].content = run[i].content
        /\ run[j].fp = Fingerprint(ApplicableRules)
    BY DEF BestOf, Reusable
  <2>2. j \in 0..MaxRuns
    BY <2>1, Numbers DEF Runs
  <2>3. e \in ExecRow /\ e.pc = "copy" /\ e.left = {} /\ e.from = j /\ e.rules = ApplicableRules
    BY <1>7, <2>2 DEF ExecRow, ExecPcs
  <2>4. OneExec(w, i) /\ exec'[w][i] = e
    BY <1>9, <2>3, ExecSet
  <2> HIDE DEF e
  <2> QED
    BY <1>5, <1>9, <2>1, <2>3, <2>4 DEF NowFound
<1> QED
  BY <1>6, <1>8, <1>9 DEF loadFiles, base

Answered(w, i) ==
    /\ exec[w][i].pc = "call" /\ run' = run
    /\ exec'[w][i].pc \in {"delete", "fail", "idle"}
    /\ exec'[w][i].pc = "delete" => Covers(exec'[w][i].left, Fingerprint(exec'[w][i].rules))

LEMMA CompleteDoes ==
  ASSUME IInv, NEW w \in Workers, NEW i \in Runs, aiComplete(w, i)
  PROVE  Does(w, i) /\ Answered(w, i)
<1>1. exec[w][i].pc = "call"
  BY DEF aiComplete, At
<1>2. /\ Linked(i) /\ Live(i) /\ Found(run[i].content, run[i].results)
      /\ Found(run[i].content, exec[w][i].left) /\ exec[w][i] \in ExecRow
  BY <1>1, Executing
<1>3. /\ UNCHANGED <<rule, aiOn, state, payload, link, leader, sweep, gate, rerun, faults,
                     overlap, passed>>
      /\ run' = run
      /\ events' = events \/ (events < MaxEvents /\ events' = events + 1)
      /\ judged \subseteq judged'
  BY DEF aiComplete, dbVars, Happens
<1>4. OneRun(i) /\ Stays(i) /\ NowFound(run[i].content, run'[i].results)
  BY <1>2, <1>3, RunSame DEF Found, NowFound
<1>5. ASSUME /\ OneExec(w, i) /\ NowFound(run[i].content, exec'[w][i].left)
             /\ exec'[w][i].pc \in {"delete", "fail", "idle"}
             /\ exec'[w][i].pc = "delete" =>
                   Covers(exec'[w][i].left, Fingerprint(exec'[w][i].rules))
      PROVE  Does(w, i) /\ Answered(w, i)
  BY <1>1, <1>3, <1>4, <1>5 DEF Does, Answered
<1>6. ASSUME NEW o \in [Rules -> Outcomes],
             LET out == {<<x[1], x[2], o[x[1]]>> : x \in exec[w][i].rules}
             IN  /\ exec' = [exec EXCEPT ![w][i].pc = "delete", ![w][i].left = out]
                 /\ judged' = judged \cup {<<run[i].content, x[1], x[2]>> :
                                             x \in {y \in out : y[3] = "complies"}}
      PROVE  Does(w, i) /\ Answered(w, i)
  <2> DEFINE out == {<<x[1], x[2], o[x[1]]>> : x \in exec[w][i].rules}
             e == [exec[w][i] EXCEPT !.pc = "delete", !.left = out]
  <2>1. exec[w][i].rules \subseteq Judgeable
    BY <1>2 DEF ExecRow
  <2>2. out \in SUBSET Results
    BY <2>1 DEF Judgeable, Results
  <2>3. Covers(out, Fingerprint(exec[w][i].rules))
    <3>1. ASSUME NEW x \in exec[w][i].rules PROVE <<x[1], x[2]>> \in {<<y[1], y[2]>> : y \in out}
      <4>1. <<x[1], x[2], o[x[1]]>> \in out
        OBVIOUS
      <4> HIDE DEF out
      <4> QED
        BY <4>1
    <3> QED
      BY <3>1 DEF Covers, Fingerprint
  <2>4. NowFound(run[i].content, out)
    <3> HIDE DEF out
    <3> QED
      BY <1>6 DEF NowFound, out
  <2> HIDE DEF out
  <2>5. e \in ExecRow /\ e.pc = "delete" /\ e.left = out /\ e.rules = exec[w][i].rules
    BY <1>2, <2>2 DEF ExecRow, ExecPcs
  <2>6. Exec(w, i, e)
    BY <1>6 DEF Exec, out
  <2> HIDE DEF e
  <2>7. OneExec(w, i) /\ exec'[w][i] = e
    BY <2>5, <2>6, ExecSet
  <2> QED
    BY <1>5, <2>3, <2>4, <2>5, <2>7
<1>7. CASE Goto(w, i, "fail")
  <2>1. OneExec(w, i) /\ exec'[w][i].pc = "fail" /\ exec'[w][i].left = exec[w][i].left
    BY <1>7, GotoSet DEF ExecPcs
  <2> QED
    BY <1>2, <1>3, <1>5, <2>1 DEF Found, NowFound
<1>8. CASE Exec(w, i, NoExec)
  <2>1. OneExec(w, i) /\ exec'[w][i].pc = "idle" /\ exec'[w][i].left = {}
    BY <1>8, ExecSet, NoExecIs
  <2> QED
    BY <1>5, <2>1 DEF NowFound
<1> QED
  BY <1>6, <1>7, <1>8 DEF aiComplete

\* The steps that write the run leave the rest of the state alone.
LEMMA Writing ==
  ASSUME NEW w \in Workers, NEW i \in Runs,
         \/ DeleteResults(w, i) \/ InsertResult(w, i) \/ InsertCopies(w, i)
         \/ FlipDone(w, i) \/ recordPrereviewFailure(w, i)
  PROVE  /\ UNCHANGED <<rule, aiOn, state, payload, link, leader, sweep, gate, rerun, faults,
                        overlap, passed>>
         /\ events' = events /\ judged \subseteq judged'
  BY DEF DeleteResults, InsertResult, InsertCopies, FlipDone, recordPrereviewFailure, WritesRun,
         bounds, history

Cleared(w, i) ==
    /\ exec[w][i].pc \in {"delete", "copy"}
    /\ run'[i].results = {} /\ run'[i].status = run[i].status
    /\ exec'[w][i].pc = IF exec[w][i].pc = "delete" THEN "insert" ELSE "copied"
    /\ exec'[w][i].rules = exec[w][i].rules /\ exec'[w][i].left = exec[w][i].left
    /\ exec'[w][i].from = exec[w][i].from

LEMMA DeleteDoes ==
  ASSUME IInv, NEW w \in Workers, NEW i \in Runs, DeleteResults(w, i)
  PROVE  Does(w, i) /\ Cleared(w, i)
<1>1. exec[w][i].pc \in {"delete", "copy"}
  BY DEF DeleteResults, At
<1>2. Live(i) /\ Found(run[i].content, exec[w][i].left) /\ ExecOK(w, i)
  BY <1>1, Executing DEF IInv, ExecInv
<1>3. run' = [run EXCEPT ![i].results = {}] /\ {} \in SUBSET Results
  BY DEF DeleteResults
<1>4. /\ OneRun(i) /\ Stays(i) /\ run'[i].results = {} /\ run'[i].status = run[i].status
      /\ run'[i].attempts = run[i].attempts
  BY <1>2, <1>3, ResultsSet
<1>5. PICK pc \in {"insert", "copied"} :
        pc = (IF exec[w][i].pc = "delete" THEN "insert" ELSE "copied") /\ Goto(w, i, pc)
  BY DEF DeleteResults, At
<1>6. /\ OneExec(w, i) /\ exec'[w][i].pc = pc
      /\ exec'[w][i].rules = exec[w][i].rules /\ exec'[w][i].left = exec[w][i].left
      /\ exec'[w][i].from = exec[w][i].from
  BY <1>5, GotoSet DEF ExecPcs
<1>7. /\ NowFound(run[i].content, run'[i].results)
      /\ NowFound(run[i].content, exec'[w][i].left)
  BY <1>2, <1>4, <1>6, Writing DEF Found, NowFound
<1>8. exec'[w][i].pc \in {"copy", "copied"} => exec[w][i].pc \in {"copy", "copied"}
  BY <1>1, <1>5, <1>6
<1>9. Cleared(w, i)
  BY <1>1, <1>4, <1>5, <1>6 DEF Cleared
<1> QED
  BY <1>2, <1>4, <1>6, <1>7, <1>8, <1>9, Writing DEF Does, ExecOK

Inserted(w, i) ==
    /\ exec[w][i].pc = "insert" /\ run'[i].status = run[i].status
    /\ \/ exec'[w][i].pc = "fail" /\ run' = run
       \/ /\ exec'[w][i].pc = "insert" /\ exec'[w][i].rules = exec[w][i].rules
          /\ run'[i].results \cup exec'[w][i].left = run[i].results \cup exec[w][i].left

LEMMA InsertDoes ==
  ASSUME IInv, NEW w \in Workers, NEW i \in Runs, InsertResult(w, i)
  PROVE  Does(w, i) /\ Inserted(w, i)
<1>1. exec[w][i].pc = "insert"
  BY DEF InsertResult, At
<1>2. /\ Live(i) /\ Found(run[i].content, exec[w][i].left) /\ Found(run[i].content, run[i].results)
      /\ exec[w][i] \in ExecRow /\ run[i] \in RunRow
  BY <1>1, Executing
<1>3. PICK x \in exec[w][i].left :
        \/ Goto(w, i, "fail") /\ run' = run
        \/ /\ run' = [run EXCEPT ![i].results = @ \cup {x}]
           /\ exec' = [exec EXCEPT ![w][i].left = @ \ {x}]
  BY DEF InsertResult
<1>4. CASE Goto(w, i, "fail") /\ run' = run
  <2>1. OneExec(w, i) /\ exec'[w][i].pc = "fail" /\ exec'[w][i].left = exec[w][i].left
    BY <1>4, GotoSet DEF ExecPcs
  <2>2. OneRun(i) /\ Stays(i)
    BY <1>2, <1>4, RunSame
  <2>3. /\ NowFound(run[i].content, run'[i].results)
        /\ NowFound(run[i].content, exec'[w][i].left)
    BY <1>2, <1>4, <2>1, Writing DEF Found, NowFound
  <2> QED
    BY <1>1, <1>4, <2>1, <2>2, <2>3, Writing DEF Does, Inserted
<1>5. CASE /\ run' = [run EXCEPT ![i].results = @ \cup {x}]
           /\ exec' = [exec EXCEPT ![w][i].left = @ \ {x}]
  <2> DEFINE rs == run[i].results \cup {x}
             e == [exec[w][i] EXCEPT !.left = @ \ {x}]
  <2>1. rs \in SUBSET Results /\ exec[w][i].left \in SUBSET Results
    BY <1>2 DEF RunRow, ExecRow
  <2>2. /\ e \in ExecRow /\ e.pc = "insert" /\ e.left = exec[w][i].left \ {x}
        /\ e.rules = exec[w][i].rules
    BY <1>1, <1>2, <2>1 DEF ExecRow
  <2>3. Exec(w, i, e)
    BY <1>5 DEF Exec
  <2>4. run' = [run EXCEPT ![i].results = rs]
    BY <1>5
  <2> HIDE DEF e, rs
  <2>5. OneExec(w, i) /\ exec'[w][i] = e
    BY <2>2, <2>3, ExecSet
  <2>6. /\ OneRun(i) /\ Stays(i) /\ run'[i].results = rs /\ run'[i].status = run[i].status
        /\ run'[i].attempts = run[i].attempts
    BY <1>2, <2>1, <2>4, ResultsSet
  <2>7. /\ NowFound(run[i].content, run'[i].results)
        /\ NowFound(run[i].content, exec'[w][i].left)
    BY <1>2, <2>2, <2>5, <2>6, Writing DEF Found, NowFound, rs
  <2>8. Inserted(w, i)
    BY <1>1, <2>2, <2>5, <2>6 DEF Inserted, rs
  <2> QED
    BY <2>2, <2>5, <2>6, <2>7, <2>8, Writing DEF Does
<1> QED
  BY <1>3, <1>4, <1>5

Copied(w, i) ==
    /\ exec[w][i].pc = "copied" /\ run'[i].status = run[i].status
    /\ \/ exec'[w][i].pc = "idle" /\ run' = run
       \/ /\ exec'[w][i].pc = "insert" /\ exec'[w][i].rules = exec[w][i].rules
          /\ run[exec[w][i].from].results \subseteq run'[i].results

LEMMA CopyDoes ==
  ASSUME IInv, NEW w \in Workers, NEW i \in Runs, InsertCopies(w, i)
  PROVE  Does(w, i) /\ Copied(w, i)
<1> DEFINE j == exec[w][i].from
<1>1. exec[w][i].pc = "copied"
  BY DEF InsertCopies, At
<1>2. /\ Live(i) /\ Found(run[i].content, exec[w][i].left) /\ Found(run[i].content, run[i].results)
      /\ run[i] \in RunRow
  BY <1>1, Executing
<1>3. j \in Runs /\ run[j].content = run[i].content
  BY <1>1 DEF IInv, ExecInv, ExecOK
<1>4. Found(run[i].content, run[j].results) /\ run[j] \in RunRow
  BY <1>3 DEF IInv, RunInv
<1> HIDE DEF j
<1>5. CASE Exec(w, i, NoExec) /\ run' = run
  <2>1. OneExec(w, i) /\ exec'[w][i].pc = "idle" /\ exec'[w][i].left = {}
    BY <1>5, ExecSet, NoExecIs
  <2>2. OneRun(i) /\ Stays(i)
    BY <1>2, <1>5, RunSame
  <2>3. /\ NowFound(run[i].content, run'[i].results)
        /\ NowFound(run[i].content, exec'[w][i].left)
    BY <1>2, <1>5, <2>1, Writing DEF Found, NowFound
  <2> QED
    BY <1>1, <1>5, <2>1, <2>2, <2>3, Writing DEF Does, Copied
<1>6. CASE /\ run' = [run EXCEPT ![i].results = @ \cup run[j].results]
           /\ Goto(w, i, "insert")
  <2> DEFINE rs == run[i].results \cup run[j].results
  <2>1. rs \in SUBSET Results
    BY <1>2, <1>4 DEF RunRow
  <2>2. run' = [run EXCEPT ![i].results = rs]
    BY <1>6
  <2> HIDE DEF rs
  <2>3. /\ OneRun(i) /\ Stays(i) /\ run'[i].results = rs /\ run'[i].status = run[i].status
        /\ run'[i].attempts = run[i].attempts
    BY <1>2, <2>1, <2>2, ResultsSet
  <2>4. /\ OneExec(w, i) /\ exec'[w][i].pc = "insert" /\ exec'[w][i].left = exec[w][i].left
        /\ exec'[w][i].rules = exec[w][i].rules
    BY <1>6, GotoSet DEF ExecPcs
  <2>5. /\ NowFound(run[i].content, run'[i].results)
        /\ NowFound(run[i].content, exec'[w][i].left)
    BY <1>2, <1>4, <2>3, <2>4, Writing DEF Found, NowFound, rs
  <2>6. Copied(w, i)
    BY <1>1, <2>3, <2>4 DEF Copied, rs, j
  <2> QED
    BY <2>3, <2>4, <2>5, <2>6, Writing DEF Does
<1> QED
  BY <1>5, <1>6 DEF InsertCopies, j

Finished(w, i) ==
    /\ exec[w][i].pc = "insert" /\ exec[w][i].left = {} /\ exec'[w][i].pc = "settle"
    /\ run'[i].results = run[i].results /\ run'[i].fp = Fingerprint(exec[w][i].rules)

LEMMA FlipDoes ==
  ASSUME IInv, NEW w \in Workers, NEW i \in Runs, FlipDone(w, i)
  PROVE  Does(w, i) /\ Finished(w, i)
<1>1. exec[w][i].pc = "insert" /\ exec[w][i].left = {}
  BY DEF FlipDone, At
<1>2. /\ Live(i) /\ Found(run[i].content, run[i].results) /\ exec[w][i] \in ExecRow
      /\ run[i] \in RunRow /\ run \in [Runs -> RunRow]
  BY <1>1, Executing
<1> DEFINE fp == Fingerprint(exec[w][i].rules)
           r == [run[i] EXCEPT !.status = "done", !.digested = TRUE, !.wait = FALSE, !.fp = fp]
<1>3. fp \in SUBSET Pairs
  BY <1>2 DEF ExecRow, Judgeable, Fingerprint, Pairs
<1>4. run' = [run EXCEPT ![i] = r]
  BY <1>2 DEF FlipDone, Flipped
<1> HIDE DEF fp
<1>5. r \in RunRow
  BY <1>2, <1>3 DEF RunRow
<1>6. /\ r.status = "done" /\ r.results = run[i].results /\ r.content = run[i].content
      /\ r.fp = fp /\ r.attempts = run[i].attempts
  BY <1>2 DEF RunRow
<1> HIDE DEF r
<1>7. OneRun(i) /\ run'[i] = r
  BY <1>2, <1>4, <1>5 DEF OneRun
<1>8. Stays(i)
  BY <1>2, <1>6, <1>7 DEF Stays
<1>9. OneExec(w, i) /\ exec'[w][i].pc = "settle" /\ exec'[w][i].left = {}
  BY <1>1, GotoSet DEF FlipDone, ExecPcs
<1>10. NowFound(run[i].content, run'[i].results) /\ NowFound(run[i].content, exec'[w][i].left)
  BY <1>2, <1>6, <1>7, <1>9, Writing DEF Found, NowFound
<1>11. Finished(w, i)
  BY <1>1, <1>6, <1>7, <1>9 DEF Finished, fp
<1> QED
  BY <1>6, <1>7, <1>8, <1>9, <1>10, <1>11, Writing DEF Does

Settles(w, i) ==
    /\ exec[w][i].pc = "settle" /\ run' = run
    /\ exec'[w][i].pc \in {"idle", "fail"}

LEMMA SettleDoes ==
  ASSUME IInv, NEW w \in Workers, NEW i \in Runs, SettleRun(w, i)
  PROVE  Does(w, i) /\ Settles(w, i)
<1>1. exec[w][i].pc = "settle"
  BY DEF SettleRun, At
<1>2. /\ Live(i) /\ Found(run[i].content, run[i].results)
      /\ Found(run[i].content, exec[w][i].left)
  BY <1>1, Executing
<1>3. /\ UNCHANGED <<rule, aiOn, state, payload, link, leader, sweep, gate, rerun, faults,
                     overlap, passed>>
      /\ run' = run /\ judged' = judged
      /\ events' = events \/ (events < MaxEvents /\ events' = events + 1)
  BY DEF SettleRun, ExecUnchanged, dbVars, history, Happens
<1>4. OneRun(i) /\ Stays(i)
  BY <1>2, <1>3, RunSame
<1>5. /\ OneExec(w, i) /\ exec'[w][i].pc \in {"idle", "fail"}
      /\ exec'[w][i].left \subseteq exec[w][i].left
  <2>1. CASE Exec(w, i, NoExec)
    BY <2>1, ExecSet, NoExecIs
  <2>2. CASE Goto(w, i, "fail")
    BY <2>2, GotoSet DEF ExecPcs
  <2> QED
    BY <2>1, <2>2 DEF SettleRun
<1>6. NowFound(run[i].content, run'[i].results) /\ NowFound(run[i].content, exec'[w][i].left)
  BY <1>2, <1>3, <1>5 DEF Found, NowFound
<1> QED
  BY <1>1, <1>3, <1>4, <1>5, <1>6 DEF Does, Settles

Failed(w, i) ==
    /\ exec[w][i].pc \in {"fail", "unreachable"} /\ exec'[w][i].pc = "idle"
    /\ run'[i].status # "done" /\ run'[i].results = run[i].results

LEMMA FailureDoes ==
  ASSUME IInv, NEW w \in Workers, NEW i \in Runs, recordPrereviewFailure(w, i)
  PROVE  Does(w, i) /\ Failed(w, i)
<1>1. exec[w][i].pc \in {"fail", "unreachable"}
  BY DEF recordPrereviewFailure, At
<1>2. /\ Live(i) /\ Found(run[i].content, run[i].results)
      /\ run[i] \in RunRow /\ run \in [Runs -> RunRow]
  BY <1>1, Executing
<1>3. run[i].attempts \in Nat /\ run[i].digested \in BOOLEAN
  BY <1>2 DEF RunRow
<1>4. PICK n \in Nat : n = run[i].attempts + 1
  BY <1>3
<1>5. PICK s \in {"failed", "pending"}, b \in BOOLEAN, d \in BOOLEAN :
        /\ s = (IF n >= MaxAttempts THEN "failed" ELSE "pending")
        /\ run' = [run EXCEPT ![i].attempts = n, ![i].digested = d,
                              ![i].status = s, ![i].wait = b]
  <2> DEFINE s == IF n >= MaxAttempts THEN "failed" ELSE "pending"
             b == ~(n >= MaxAttempts)
             d == run[i].digested \/ At(w, i, "fail")
  <2>1. run' = [run EXCEPT ![i].attempts = n, ![i].digested = d,
                           ![i].status = s, ![i].wait = b]
    BY <1>4 DEF recordPrereviewFailure
  <2>2. s \in {"failed", "pending"} /\ b \in BOOLEAN /\ d \in BOOLEAN
    OBVIOUS
  <2> HIDE DEF b, d
  <2> QED
    BY <2>1, <2>2
<1> DEFINE r == [run[i] EXCEPT !.attempts = n, !.digested = d, !.status = s, !.wait = b]
<1>6. run' = [run EXCEPT ![i] = r]
  BY <1>2, <1>5
<1>7. r \in RunRow
  BY <1>2 DEF RunRow
<1>8. /\ r.status = s /\ r.results = run[i].results /\ r.content = run[i].content
      /\ r.attempts = n
  BY <1>2 DEF RunRow
<1> HIDE DEF r
<1>9. OneRun(i) /\ run'[i] = r
  BY <1>2, <1>6, <1>7 DEF OneRun
<1>10. Stays(i)
  BY <1>2, <1>8, <1>9 DEF Stays
<1>11. OneExec(w, i) /\ exec'[w][i] = NoExec
  BY ExecSet, NoExecIs DEF recordPrereviewFailure
<1>12. s = "pending" => n < MaxAttempts
  BY <1>5, Numbers
<1>13. NowFound(run[i].content, run'[i].results) /\ NowFound(run[i].content, exec'[w][i].left)
  BY <1>2, <1>8, <1>9, <1>11, NoExecIs, Writing DEF Found, NowFound
<1>14. Failed(w, i)
  BY <1>1, <1>8, <1>9, <1>11, NoExecIs DEF Failed
<1>15. /\ run'[i].attempts = run[i].attempts + 1
       /\ run'[i].status = "pending" => run'[i].attempts < MaxAttempts
  BY <1>4, <1>8, <1>9, <1>12
<1> QED
  BY <1>9, <1>10, <1>11, <1>13, <1>14, <1>15, NoExecIs, Writing DEF Does

LEMMA ExecDoes ==
  ASSUME IInv, NEW w \in Workers, NEW i \in Runs, ExecStep(w, i)
  PROVE  Does(w, i) /\ exec[w][i] # NoExec
<1>1. Does(w, i)
  BY LoadDoes, CompleteDoes, DeleteDoes, InsertDoes, CopyDoes, FlipDoes, SettleDoes, FailureDoes
     DEF ExecStep
<1>2. exec[w][i].pc # "idle"
  BY DEF ExecStep, loadFiles, aiComplete, DeleteResults, InsertResult, InsertCopies, FlipDone,
         SettleRun, recordPrereviewFailure, At
<1> QED
  BY <1>1, <1>2 DEF NoExec

-----------------------------------------------------------------------------
(* Which step changes what *)

RunMoves ==
    \/ CreateRerun
    \/ \E w \in Workers : CreateRun(w) \/ \E i \in Runs : ExecStep(w, i)
    \/ \E i \in Runs : RetryDue(i) \/ pruneOrphanPrereviews(i)
LinkMoves  == LinkRerun \/ \E w \in Workers : LinkRun(w)
SweepMoves == \E w \in Workers : SweepStep(w) \/ WorkerDies(w)
ExecMoves  == \E w \in Workers : \/ TakeDue(w) \/ WorkerDies(w)
                                 \/ \E i \in Runs : ExecStep(w, i)
RerunMoves == requestPrereviewRerun \/ CreateRerun \/ LinkRerun \/ RequestDies
GateMoves  == GateReadsRules \/ GateReadsRun \/ GateReadsResults \/ DecideAccept

\* What the steps of the web server, of the sweep and of time leave alone.
LEMMA WebFrames ==
  ASSUME Web
  PROVE  /\ UNCHANGED <<sweep, exec, judged, overlap, leader>>
         /\ payload' = payload \/ \E c \in Contents : revise(c)
         /\ link' = link \/ LinkMoves
         /\ run' = run \/ RunMoves
         /\ rerun' = rerun \/ RerunMoves
         /\ UNCHANGED <<gate, passed>> \/ GateMoves
<1>1. ASSUME NEW c \in Contents, revise(c)
      PROVE  UNCHANGED <<sweep, exec, judged, overlap, leader, link, run, rerun, gate, passed>>
  BY <1>1 DEF revise, EnvUnchanged, history
<1>2. ASSUME NEW r \in Rules,
             revisePolicyRule(r) \/ \E s \in {"disabled", "shadow", "enforced"} :
                setPolicyRuleState(r, s)
      PROVE  UNCHANGED <<sweep, exec, judged, overlap, leader, payload, link, run, rerun, gate,
                         passed>>
  BY <1>2 DEF revisePolicyRule, setPolicyRuleState, EnvUnchanged, history
<1>3. ASSUME savePrereviewSetting \/ requestPrereviewRerun \/ RequestDies
      PROVE  /\ UNCHANGED <<sweep, exec, judged, overlap, leader, payload, link, run, gate,
                            passed>>
             /\ rerun' = rerun \/ RerunMoves
  BY <1>3 DEF savePrereviewSetting, requestPrereviewRerun, RequestDies, EnvUnchanged, history,
              dbVars, RerunMoves
<1>4. ASSUME CreateRerun \/ LinkRerun
      PROVE  /\ UNCHANGED <<sweep, exec, judged, overlap, leader, payload, gate, passed>>
             /\ link' = link \/ LinkMoves
             /\ run' = run \/ RunMoves
  BY <1>4 DEF CreateRerun, LinkRerun, EnvUnchanged, history, LinkMoves, RunMoves
<1>5. ASSUME GateMoves
      PROVE  UNCHANGED <<sweep, exec, judged, overlap, leader, payload, link, run, rerun>>
  BY <1>5 DEF GateMoves, GateReadsRules, GateReadsRun, GateReadsResults, DecideAccept, GateReads,
              dbVars, history
<1> QED
  BY <1>1, <1>2, <1>3, <1>4, <1>5 DEF Web, GateMoves, RerunMoves

LEMMA SweepFrames ==
  ASSUME NEW w \in Workers, SweepStep(w)
  PROVE  /\ UNCHANGED <<payload, judged, rerun, gate, passed, leader, rule, aiOn, state, bounds>>
         /\ link' = link \/ LinkMoves
         /\ run' = run \/ RunMoves
         /\ exec' = exec \/ TakeDue(w)
         /\ overlap' = overlap \/ sweepAiPrereview(w)
<1>1. ASSUME sweepAiPrereview(w)
      PROVE  /\ UNCHANGED <<payload, judged, rerun, gate, passed, leader, rule, aiOn, state, bounds>>
             /\ UNCHANGED <<link, run, exec>>
  BY <1>1 DEF sweepAiPrereview, dbVars
<1>2. ASSUME CreateRun(w)
      PROVE  /\ UNCHANGED <<payload, judged, rerun, gate, passed, leader, rule, aiOn, state, bounds>>
             /\ UNCHANGED <<link, exec, overlap>> /\ RunMoves
  BY <1>2 DEF CreateRun, history, RunMoves
<1>3. ASSUME LinkRun(w)
      PROVE  /\ UNCHANGED <<payload, judged, rerun, gate, passed, leader, rule, aiOn, state, bounds>>
             /\ UNCHANGED <<run, exec, overlap>> /\ LinkMoves
  BY <1>3 DEF LinkRun, history, LinkMoves
<1>4. ASSUME policyReconcile(w) \/ TakeDue(w) \/ SweepEnds(w)
      PROVE  /\ UNCHANGED <<payload, judged, rerun, gate, passed, leader, rule, aiOn, state, bounds>>
             /\ UNCHANGED <<link, run, overlap>> /\ (exec' = exec \/ TakeDue(w))
  BY <1>4 DEF policyReconcile, TakeDue, SweepEnds, SweepReads, dbVars, history
<1> QED
  BY <1>1, <1>2, <1>3, <1>4 DEF SweepStep

LEMMA TimeFrames ==
  ASSUME NEW i \in Runs, RetryDue(i) \/ pruneOrphanPrereviews(i)
  PROVE  /\ UNCHANGED <<payload, judged, rerun, gate, passed, leader, rule, aiOn, state, bounds,
                        link, sweep, exec, overlap>>
         /\ RunMoves
  BY DEF RetryDue, pruneOrphanPrereviews, history, RunMoves

LEMMA FaultFrames ==
  ASSUME NEW w \in Workers, LeadershipMoves(w) \/ WorkerDies(w)
  PROVE  /\ UNCHANGED <<payload, judged, rerun, gate, passed, rule, aiOn, state,
                        link, run, overlap>>
         /\ (sweep' = sweep /\ exec' = exec) \/ WorkerDies(w)
  BY DEF LeadershipMoves, WorkerDies, dbVars, history

LEMMA Frames ==
  ASSUME IInv, [Next]_vars
  PROVE  /\ payload' = payload \/ \E c \in Contents : revise(c)
         /\ link' = link \/ LinkMoves
         /\ run' = run \/ RunMoves
         /\ judged \subseteq judged'
         /\ sweep' = sweep \/ SweepMoves
         /\ exec' = exec \/ ExecMoves
         /\ rerun' = rerun \/ RerunMoves
         /\ UNCHANGED <<gate, passed>> \/ GateMoves
         /\ overlap' = overlap \/ \E w \in Workers : sweepAiPrereview(w)
<1>1. CASE UNCHANGED vars
  BY <1>1 DEF vars, dbVars, history
<1>2. CASE Web
  BY <1>2, WebFrames
<1>3. ASSUME NEW w \in Workers, SweepStep(w)
      PROVE  /\ UNCHANGED <<payload, judged, rerun, gate, passed>>
             /\ link' = link \/ LinkMoves
             /\ run' = run \/ RunMoves
             /\ SweepMoves
             /\ exec' = exec \/ ExecMoves
             /\ overlap' = overlap \/ sweepAiPrereview(w)
  BY <1>3, SweepFrames DEF SweepMoves, ExecMoves
<1>4. ASSUME NEW w \in Workers, LeadershipMoves(w) \/ WorkerDies(w)
      PROVE  /\ UNCHANGED <<payload, judged, rerun, gate, passed, link, run, overlap>>
             /\ sweep' = sweep \/ SweepMoves
             /\ exec' = exec \/ ExecMoves
  BY <1>4, FaultFrames DEF SweepMoves, ExecMoves
<1>5. ASSUME NEW w \in Workers, NEW i \in Runs, ExecStep(w, i)
      PROVE  /\ UNCHANGED <<payload, link, sweep, rerun, gate, passed, overlap>>
             /\ judged \subseteq judged' /\ RunMoves /\ ExecMoves
  BY <1>5, ExecDoes DEF Does, RunMoves, ExecMoves
<1>6. ASSUME NEW i \in Runs, RetryDue(i) \/ pruneOrphanPrereviews(i)
      PROVE  /\ UNCHANGED <<payload, judged, rerun, gate, passed, link, sweep, exec, overlap>>
             /\ RunMoves
  BY <1>6, TimeFrames
<1> QED
  BY <1>1, <1>2, <1>3, <1>4, <1>5, <1>6 DEF Next

-----------------------------------------------------------------------------
(* What is held on to *)

LEMMA RetryDoes ==
  ASSUME IInv, NEW i \in Runs, RetryDue(i)
  PROVE  /\ OneRun(i) /\ Stays(i) /\ run'[i].results = run[i].results
         /\ run'[i].status = run[i].status /\ run'[i].attempts = run[i].attempts
         /\ run[i].status = "pending"
<1>1. run \in [Runs -> RunRow] /\ run[i] \in RunRow
  BY DEF IInv, RunInv
<1> DEFINE r == [run[i] EXCEPT !.wait = FALSE]
<1>2. r \in RunRow
  BY <1>1 DEF RunRow
<1>3. /\ r.results = run[i].results /\ r.status = run[i].status /\ r.attempts = run[i].attempts
      /\ r.content = run[i].content
  BY <1>1 DEF RunRow
<1>4. run' = [run EXCEPT ![i] = r] /\ run[i].status = "pending"
  BY DEF RetryDue
<1> HIDE DEF r
<1> QED
  BY <1>1, <1>2, <1>3, <1>4 DEF OneRun, Stays, Live

LEMMA PruneDoes ==
  ASSUME IInv, NEW i \in Runs, pruneOrphanPrereviews(i)
  PROVE  OneRun(i) /\ Goes(i)
<1> DEFINE p == [NoRun EXCEPT !.status = "pruned"]
<1>1. p \in RunRow /\ p.status = "pruned" /\ p.results = {} /\ p.attempts = 0
  BY NoRunIs
<1>2. run' = [run EXCEPT ![i] = p] /\ run \in [Runs -> RunRow]
  BY DEF pruneOrphanPrereviews, IInv, RunInv
<1> HIDE DEF p
<1>3. OneRun(i) /\ run'[i] = p
  BY <1>1, <1>2 DEF OneRun
<1>4. ~Linked(i) /\ rerun.run # i /\ \A w \in Workers : sweep[w].run # i /\ exec[w][i] = NoExec
  BY DEF pruneOrphanPrereviews, Linked
<1> QED
  BY <1>1, <1>3, <1>4 DEF Goes

RunStep(i) ==
    /\ OneRun(i)
    /\ \/ Appears(i) \/ Goes(i)
       \/ /\ Stays(i) /\ NowFound(run[i].content, run'[i].results)
          /\ run'[i].status = "done" => run[i].status = "done" \/ Linked(i)

LEMMA RunSteps ==
  ASSUME IInv, [Next]_vars
  PROVE  run' = run \/ \E i \in Runs : RunStep(i)
<1>1. CASE CreateRerun
  BY <1>1, RerunCreates DEF RunStep
<1>2. ASSUME NEW w \in Workers, CreateRun(w) PROVE \E i \in Runs : RunStep(i)
  BY <1>2, SweepCreates DEF RunStep
<1>3. ASSUME NEW w \in Workers, NEW i \in Runs, ExecStep(w, i) PROVE RunStep(i)
  <2>1. Does(w, i) /\ Linked(i)
    BY <1>3, ExecDoes DEF IInv, ExecInv, ExecOK
  <2> QED
    BY <2>1 DEF Does, RunStep
<1>4. ASSUME NEW i \in Runs, RetryDue(i) PROVE RunStep(i)
  BY <1>4, RetryDoes, Frames DEF RunStep, NowFound, Found, IInv, RunInv
<1>5. ASSUME NEW i \in Runs, pruneOrphanPrereviews(i) PROVE RunStep(i)
  BY <1>5, PruneDoes DEF RunStep
<1> QED
  BY <1>1, <1>2, <1>3, <1>4, <1>5, Frames DEF RunMoves

\* Revisions and links are only appended.
LEMMA PayloadGrows ==
  ASSUME IInv, [Next]_vars
  PROVE  /\ payload' \in Seq(Contents) /\ Latest \in Nat /\ Latest' \in Nat /\ Latest <= Latest'
         /\ \A n \in 1..Latest : n \in 1..Latest' /\ payload'[n] = payload[n]
<1>1. payload \in Seq(Contents)
  BY DEF IInv, WebInv
<1>2. CASE payload' = payload
  BY <1>1, <1>2 DEF Latest
<1>3. ASSUME NEW c \in Contents, payload' = Append(payload, c)
      PROVE  /\ payload' \in Seq(Contents) /\ Latest' = Latest + 1 /\ Latest \in Nat
             /\ \A n \in 1..Latest : payload'[n] = payload[n]
  BY <1>1, <1>3 DEF Latest
<1>4. \A c \in Contents : revise(c) => payload' = Append(payload, c)
  BY DEF revise
<1>5. CASE \E c \in Contents : revise(c)
  BY <1>3, <1>4, <1>5
<1> QED
  BY <1>2, <1>5, Frames

\* What a link is made of, and the row it becomes.
LEMMA LinkRows ==
  ASSUME IInv, [Next]_vars
  PROVE  \/ link' = link
         \/ \E x \in LinkRow : /\ link' = Append(link, x) /\ run' = run /\ payload' = payload
                               /\ x.rev \in 1..Latest /\ IsOf(x.run, x.rev)
<1>1. \A n \in 1..Latest : n \in 1..(MaxEvents + 1)
  <2>1. Latest \in 1..(events + 1) /\ events \in 0..MaxEvents
    BY DEF IInv, WebInv
  <2> QED
    BY <2>1, Numbers
<1>2. ASSUME NEW w \in Workers, LinkRun(w)
      PROVE  \E x \in LinkRow : /\ link' = Append(link, x) /\ run' = run /\ payload' = payload
                                /\ x.rev \in 1..Latest /\ IsOf(x.run, x.rev)
  <2>1. /\ sweep[w].rev \in 1..Latest /\ IsOf(sweep[w].run, sweep[w].rev)
        /\ sweep[w].cached \in BOOLEAN
    BY <1>2 DEF LinkRun, AtSweep, IInv, SweepInv, SweepOK, SweepRow
  <2>2. PICK i \in Runs, n \in 1..Latest, c \in BOOLEAN :
          i = sweep[w].run /\ n = sweep[w].rev /\ c = sweep[w].cached /\ IsOf(i, n)
    BY <2>1 DEF IsOf
  <2>3. link' = Append(link, [run |-> i, rev |-> n, cached |-> c])
    BY <1>2, <2>2 DEF LinkRun, linkPrereviewRun
  <2>4. run' = run /\ payload' = payload
    BY <1>2 DEF LinkRun
  <2>5. [run |-> i, rev |-> n, cached |-> c] \in LinkRow
    BY <1>1 DEF LinkRow
  <2> QED
    BY <2>2, <2>3, <2>4, <2>5
<1>3. ASSUME LinkRerun
      PROVE  \E x \in LinkRow : /\ link' = Append(link, x) /\ run' = run /\ payload' = payload
                                /\ x.rev \in 1..Latest /\ IsOf(x.run, x.rev)
  <2>1. rerun.rev \in 1..Latest /\ IsOf(rerun.run, rerun.rev)
    BY <1>3 DEF LinkRerun, IInv, RerunInv
  <2>2. PICK i \in Runs, n \in 1..Latest : i = rerun.run /\ n = rerun.rev /\ IsOf(i, n)
    BY <2>1 DEF IsOf
  <2>3. link' = Append(link, [run |-> i, rev |-> n, cached |-> FALSE])
    BY <1>3, <2>2 DEF LinkRerun, linkPrereviewRun
  <2>4. run' = run /\ payload' = payload
    BY <1>3 DEF LinkRerun
  <2>5. [run |-> i, rev |-> n, cached |-> FALSE] \in LinkRow
    BY <1>1 DEF LinkRow
  <2> QED
    BY <2>2, <2>3, <2>4, <2>5
<1> QED
  BY <1>2, <1>3, Frames DEF LinkMoves

LEMMA LinkGrows ==
  ASSUME IInv, [Next]_vars
  PROVE  /\ link' \in Seq(LinkRow) /\ Len(link) \in Nat /\ Len(link) <= Len(link')
         /\ \A l \in 1..Len(link) : link'[l] = link[l]
         /\ \A i \in Runs : Linked(i) => Linked(i)'
<1>1. link \in Seq(LinkRow)
  BY DEF IInv, LinkInv
<1>2. CASE link' = link
  BY <1>1, <1>2 DEF Linked
<1>3. ASSUME NEW x \in LinkRow, link' = Append(link, x)
      PROVE  /\ link' \in Seq(LinkRow) /\ Len(link') = Len(link) + 1 /\ Len(link) \in Nat
             /\ \A l \in 1..Len(link) : link'[l] = link[l]
             /\ \A i \in Runs : Linked(i) => Linked(i)'
  <2>1. /\ link' \in Seq(LinkRow) /\ Len(link') = Len(link) + 1 /\ Len(link) \in Nat
        /\ \A l \in 1..Len(link) : link'[l] = link[l] /\ l \in 1..Len(link')
    BY <1>1, <1>3
  <2> QED
    BY <2>1 DEF Linked
<1> QED
  BY <1>2, <1>3, LinkRows

\* A run that somebody refers to keeps its bytes.
LEMMA ContentKept ==
  ASSUME IInv, [Next]_vars, NEW i \in Runs, Live(i),
         \/ Linked(i) \/ rerun.run = i \/ \E w \in Workers : sweep[w].run = i
  PROVE  Live(i)' /\ run'[i].content = run[i].content
<1>1. CASE run' = run
  BY <1>1 DEF Live
<1>2. ASSUME NEW j \in Runs, RunStep(j) PROVE Live(i)' /\ run'[i].content = run[i].content
  <2>1. CASE i # j
    BY <1>2, <2>1 DEF RunStep, OneRun, Live
  <2>2. CASE i = j
    BY <1>2, <2>2 DEF RunStep, Appears, Goes, Stays, Live
  <2> QED
    BY <2>1, <2>2
<1> QED
  BY <1>1, <1>2, RunSteps

LEMMA IsOfKept ==
  ASSUME IInv, [Next]_vars, NEW i, NEW n \in 1..Latest, IsOf(i, n),
         \/ Linked(i) \/ rerun.run = i \/ \E w \in Workers : sweep[w].run = i
  PROVE  IsOf(i, n)'
<1>1. i \in Runs /\ Live(i) /\ run[i].content = payload[n]
  BY DEF IsOf
<1>2. Live(i)' /\ run'[i].content = run[i].content /\ payload'[n] = payload[n]
  BY <1>1, ContentKept, PayloadGrows
<1> QED
  BY <1>1, <1>2 DEF IsOf

LEMMA LinkKept ==
  ASSUME IInv, [Next]_vars
  PROVE  LinkInv'
<1>1. ASSUME NEW l \in 1..Len(link')
      PROVE  \E i, n : /\ i = link'[l].run /\ n = link'[l].rev
                       /\ n \in 1..Latest' /\ IsOf(i, n)'
  <2>1. ASSUME NEW k \in 1..Len(link), link'[l] = link[k]
        PROVE  \E i, n : /\ i = link'[l].run /\ n = link'[l].rev
                         /\ n \in 1..Latest' /\ IsOf(i, n)'
    <3>1. PICK i, n : i = link[k].run /\ n = link[k].rev
      OBVIOUS
    <3>2. n \in 1..Latest /\ IsOf(i, n) /\ Linked(i)
      BY <3>1 DEF IInv, LinkInv, Linked
    <3>3. IsOf(i, n)' /\ n \in 1..Latest'
      BY <3>2, IsOfKept, PayloadGrows
    <3> QED
      BY <2>1, <3>1, <3>3
  <2>2. CASE link' = link
    BY <2>1, <2>2
  <2>3. ASSUME NEW x \in LinkRow, link' = Append(link, x), run' = run, payload' = payload,
               x.rev \in 1..Latest, IsOf(x.run, x.rev)
        PROVE  \E i, n : /\ i = link'[l].run /\ n = link'[l].rev
                         /\ n \in 1..Latest' /\ IsOf(i, n)'
    <3>1. link \in Seq(LinkRow)
      BY DEF IInv, LinkInv
    <3>2. \/ l \in 1..Len(link) /\ link'[l] = link[l]
          \/ link'[l] = x
      BY <2>3, <3>1
    <3>3. CASE link'[l] = x
      <4>1. PICK i, n : i = x.run /\ n = x.rev /\ n \in 1..Latest /\ IsOf(i, n)
        BY <2>3
      <4>2. IsOf(i, n)' /\ n \in 1..Latest'
        BY <2>3, <4>1, PayloadGrows DEF IsOf, Live
      <4> QED
        BY <3>3, <4>1, <4>2
    <3> QED
      BY <2>1, <3>2, <3>3
  <2> QED
    BY <2>2, <2>3, LinkRows
<1>2. ASSUME NEW l \in 1..Len(link')
      PROVE  /\ link'[l].rev \in 1..Latest' /\ link'[l].run \in Runs
             /\ run'[link'[l].run].status \notin {"none", "pruned"}
             /\ run'[link'[l].run].content = payload'[link'[l].rev]
  BY <1>1 DEF IsOf, Live
<1> QED
  BY <1>2, LinkGrows DEF LinkInv, IsOf, Live

LEMMA RunKept ==
  ASSUME IInv, [Next]_vars
  PROVE  RunInv'
<1>1. run \in [Runs -> RunRow]
  BY DEF IInv, RunInv
<1>2. ASSUME NEW i \in Runs, run'[i] = run[i]
      PROVE  (run'[i].status = "done" => Linked(i)') /\ NowFound(run'[i].content, run'[i].results)
  <2>1. run[i].status = "done" => Linked(i)'
    BY LinkGrows DEF IInv, RunInv
  <2>2. Found(run[i].content, run[i].results) /\ judged \subseteq judged'
    BY Frames DEF IInv, RunInv
  <2> QED
    BY <1>2, <2>1, <2>2 DEF Found, NowFound
<1>3. CASE run' = run
  BY <1>1, <1>2, <1>3 DEF RunInv, Found, NowFound
<1>4. ASSUME NEW j \in Runs, RunStep(j) PROVE RunInv'
  <2>1. run' \in [Runs -> RunRow]
    BY <1>4 DEF RunStep, OneRun
  <2>2. ASSUME NEW i \in Runs \ {j} PROVE run'[i] = run[i]
    BY <1>4 DEF RunStep, OneRun
  <2>3. (run'[j].status = "done" => Linked(j)') /\ NowFound(run'[j].content, run'[j].results)
    <3>1. CASE Appears(j) \/ Goes(j)
      BY <3>1 DEF Appears, Goes, NowFound
    <3>2. CASE /\ Stays(j) /\ NowFound(run[j].content, run'[j].results)
               /\ run'[j].status = "done" => run[j].status = "done" \/ Linked(j)
      <4>1. run'[j].status = "done" => Linked(j)'
        BY <3>2, LinkGrows DEF IInv, RunInv
      <4> QED
        BY <3>2, <4>1 DEF Stays, NowFound
    <3> QED
      BY <1>4, <3>1, <3>2 DEF RunStep
  <2> QED
    BY <1>2, <2>1, <2>2, <2>3 DEF RunInv, Found, NowFound
<1> QED
  BY <1>3, <1>4, RunSteps

\* Nothing changes here but the count of events.
LEMMA Passing ==
  ASSUME IInv, UNCHANGED <<rule, aiOn, state, payload, leader, faults>>,
         events' = events \/ (events < MaxEvents /\ events' = events + 1)
  PROVE  WebInv'
<1>1. events \in 0..MaxEvents /\ Latest \in 1..(events + 1)
      /\ \A r \in Rules : rule[r].rev \in 1..(events + 1)
  BY DEF IInv, WebInv
<1>2. /\ events' \in 0..MaxEvents /\ Latest' \in 1..(events' + 1)
      /\ \A r \in Rules : rule'[r].rev \in 1..(events' + 1)
  BY <1>1, Numbers DEF Latest
<1> QED
  BY <1>2 DEF IInv, WebInv

LEMMA WebKept ==
  ASSUME IInv, [Next]_vars
  PROVE  WebInv'
<1>0. WebInv /\ MaxEvents \in Nat /\ MaxFaults \in Nat
  BY Numbers DEF IInv
<1>1. ASSUME NEW c \in Contents, revise(c) PROVE WebInv'
  <2>1. /\ payload' = Append(payload, c) /\ events < MaxEvents /\ events' = events + 1
        /\ UNCHANGED <<rule, aiOn, state, leader, faults>>
    BY <1>1 DEF revise, Happens, EnvUnchanged
  <2>2. payload' \in Seq(Contents) /\ Len(payload') = Len(payload) + 1 /\ Len(payload) \in Nat
    BY <1>0, <2>1 DEF WebInv
  <2>3. events' \in 0..MaxEvents /\ Latest' \in 1..(events' + 1)
    BY <1>0, <2>1, <2>2 DEF WebInv, Latest
  <2>4. \A r \in Rules : rule'[r].rev \in 1..(events' + 1)
    BY <1>0, <2>1 DEF WebInv
  <2> QED
    BY <1>0, <2>1, <2>2, <2>3, <2>4 DEF WebInv
<1>2. ASSUME NEW r \in Rules, revisePolicyRule(r) PROVE WebInv'
  <2>1. /\ rule' = [rule EXCEPT ![r].rev = @ + 1] /\ events < MaxEvents /\ events' = events + 1
        /\ UNCHANGED <<aiOn, state, payload, leader, faults>>
    BY <1>2 DEF revisePolicyRule, Happens, EnvUnchanged
  <2>2. events' \in 0..MaxEvents /\ Latest' \in 1..(events' + 1)
    BY <1>0, <2>1 DEF WebInv, Latest
  <2>3. rule' \in [Rules -> [rev : Nat, state : States]]
    <3>1. rule \in [Rules -> [rev : Nat, state : States]]
      BY <1>0 DEF WebInv
    <3>2. \A x \in [rev : Nat, state : States] :
              [x EXCEPT !.rev = x.rev + 1] \in [rev : Nat, state : States]
      OBVIOUS
    <3> QED
      BY <2>1, <3>1, <3>2
  <2>4. \A q \in Rules : rule'[q].rev \in 1..(events' + 1)
    <3>1. \A q \in Rules : rule[q].rev \in 1..(events + 1) /\ events \in Nat
      BY <1>0 DEF WebInv
    <3>2. rule \in [Rules -> [rev : Nat, state : States]]
      BY <1>0 DEF WebInv
    <3>3. /\ rule'[r].rev = rule[r].rev + 1
          /\ \A q \in Rules \ {r} : rule'[q].rev = rule[q].rev
      BY <2>1, <3>2
    <3> QED
      BY <2>1, <3>1, <3>3
  <2> QED
    BY <1>0, <2>1, <2>2, <2>3, <2>4 DEF WebInv
<1>3. ASSUME NEW r \in Rules, NEW s \in {"disabled", "shadow", "enforced"},
             setPolicyRuleState(r, s)
      PROVE  WebInv'
  <2>1. /\ rule' = [rule EXCEPT ![r].state = s] /\ events < MaxEvents /\ events' = events + 1
        /\ UNCHANGED <<aiOn, state, payload, leader, faults>>
    BY <1>3 DEF setPolicyRuleState, Happens, EnvUnchanged
  <2>2. events' \in 0..MaxEvents /\ Latest' \in 1..(events' + 1)
    BY <1>0, <2>1 DEF WebInv, Latest
  <2>3. rule' \in [Rules -> [rev : Nat, state : States]]
    BY <1>0, <2>1 DEF WebInv, States
  <2>4. \A q \in Rules : rule'[q].rev \in 1..(events' + 1)
    BY <1>0, <2>1 DEF WebInv
  <2> QED
    BY <1>0, <2>1, <2>2, <2>3, <2>4 DEF WebInv
<1>4. ASSUME savePrereviewSetting PROVE WebInv'
  <2>1. /\ aiOn' = ~aiOn /\ events < MaxEvents /\ events' = events + 1
        /\ UNCHANGED <<rule, state, payload, leader, faults>>
    BY <1>4 DEF savePrereviewSetting, Happens, EnvUnchanged
  <2>2. events' \in 0..MaxEvents /\ Latest' \in 1..(events' + 1)
    BY <1>0, <2>1 DEF WebInv, Latest
  <2>3. \A q \in Rules : rule'[q].rev \in 1..(events' + 1)
    BY <1>0, <2>1 DEF WebInv
  <2> QED
    BY <1>0, <2>1, <2>2, <2>3 DEF WebInv
<1>5. ASSUME requestPrereviewRerun \/ CreateRerun \/ LinkRerun \/ RequestDies PROVE WebInv'
  BY <1>5, Passing DEF requestPrereviewRerun, CreateRerun, LinkRerun, RequestDies, EnvUnchanged,
                       Happens, bounds, dbVars
<1>6. ASSUME GateReadsRules \/ GateReadsRun \/ GateReadsResults PROVE WebInv'
  BY <1>6, Passing DEF GateReadsRules, GateReadsRun, GateReadsResults, GateReads, Happens,
                       bounds, dbVars
<1>7. ASSUME DecideAccept PROVE WebInv'
  <2>1. /\ state' \in {state, "accepted"}
        /\ UNCHANGED <<rule, aiOn, payload, leader, events, faults>>
    BY <1>7 DEF DecideAccept, bounds
  <2> QED
    BY <1>0, <2>1 DEF WebInv, Latest
<1>8. ASSUME NEW w \in Workers, SweepStep(w) PROVE WebInv'
  BY <1>8, SweepFrames, Passing DEF bounds
<1>9. ASSUME NEW w \in Workers, NEW i \in Runs, ExecStep(w, i) PROVE WebInv'
  BY <1>9, ExecDoes, Passing DEF Does
<1>10. ASSUME NEW i \in Runs, RetryDue(i) \/ pruneOrphanPrereviews(i) PROVE WebInv'
  BY <1>10, TimeFrames, Passing DEF bounds
<1>11. ASSUME NEW w \in Workers, LeadershipMoves(w) \/ WorkerDies(w) PROVE WebInv'
  <2>1. /\ UNCHANGED <<rule, aiOn, state, payload>>
        /\ leader' \in {leader, w} /\ faults < MaxFaults /\ faults' = faults + 1
        /\ events < MaxEvents /\ events' = events + 1
    BY <1>11 DEF LeadershipMoves, WorkerDies, Faults, Happens, dbVars
  <2>2. events' \in 0..MaxEvents /\ Latest' \in 1..(events' + 1) /\ faults' \in 0..MaxFaults
    BY <1>0, <2>1 DEF WebInv, Latest
  <2>3. \A q \in Rules : rule'[q].rev \in 1..(events' + 1)
    BY <1>0, <2>1 DEF WebInv
  <2> QED
    BY <1>0, <2>1, <2>2, <2>3 DEF WebInv
<1>12. CASE UNCHANGED vars
  BY <1>12, Passing DEF vars, dbVars, bounds
<1> QED
  BY <1>1, <1>2, <1>3, <1>4, <1>5, <1>6, <1>7, <1>8, <1>9, <1>10, <1>11, <1>12 DEF Next, Web

\* A re-run is of the revision that was the latest when it was asked for.
LEMMA RerunKept ==
  ASSUME IInv, [Next]_vars
  PROVE  RerunInv'
<1>0. RerunInv
  BY DEF IInv
<1>1. CASE rerun' = rerun
  <2>1. PICK i, n : i = rerun.run /\ n = rerun.rev
    OBVIOUS
  <2>2. rerun.pc \in {"create", "link"} =>
          n \in 1..Latest' /\ n \in 1..Latest /\ rerun.content = payload'[n]
    BY <1>0, <2>1, PayloadGrows DEF RerunInv
  <2>3. rerun.pc = "link" => IsOf(i, n)'
    BY <1>0, <2>1, <2>2, IsOfKept DEF RerunInv
  <2> QED
    BY <1>0, <1>1, <2>1, <2>2, <2>3 DEF RerunInv, IsOf, Live
<1>2. CASE requestPrereviewRerun
  <2>1. PICK d \in BOOLEAN :
          rerun' = [NoRerun EXCEPT !.pc = "create", !.rev = Latest,
                        !.content = payload[Latest], !.digested = d]
    BY <1>2 DEF requestPrereviewRerun
  <2>2. Latest \in Nat \ {0} /\ payload[Latest] \in Contents /\ payload' = payload
    BY <1>2 DEF IInv, WebInv, Latest, requestPrereviewRerun, dbVars
  <2>3. NoRerun \in RerunRow
    BY Numbers DEF NoRerun, RerunRow, None
  <2>4. /\ rerun' \in RerunRow /\ rerun'.pc = "create" /\ rerun'.rev = Latest
        /\ rerun'.content = payload[Latest]
    BY <2>1, <2>2, <2>3 DEF RerunRow
  <2> QED
    BY <2>2, <2>4 DEF RerunInv, Latest
<1>3. CASE CreateRerun
  <2>1. PICK i \in Runs : i = rerun'.run /\ OneRun(i) /\ Appears(i)
                          /\ run'[i].content = rerun.content
                          /\ rerun' = [rerun EXCEPT !.pc = "link", !.run = i]
    BY <1>3, RerunCreates
  <2>2. rerun.pc = "create" /\ payload' = payload
    BY <1>3 DEF CreateRerun
  <2>3. i \in 0..MaxRuns
    BY Numbers DEF Runs
  <2>4. /\ rerun' \in RerunRow /\ rerun'.pc = "link" /\ rerun'.rev = rerun.rev
        /\ rerun'.content = rerun.content
    BY <1>0, <2>1, <2>3 DEF RerunInv, RerunRow
  <2>5. rerun.rev \in 1..Latest' /\ rerun.content = payload'[rerun.rev]
    BY <1>0, <2>2 DEF RerunInv, Latest
  <2>6. run'[i].status \notin {"none", "pruned"} /\ run'[i].content = payload'[rerun.rev]
    BY <2>1, <2>5 DEF Appears
  <2> QED
    BY <2>1, <2>4, <2>5, <2>6 DEF RerunInv, IsOf, Live
<1>4. CASE rerun' = NoRerun
  BY <1>4, Numbers DEF RerunInv, NoRerun, RerunRow, None
<1> QED
  BY <1>1, <1>2, <1>3, <1>4, Frames DEF RerunMoves, LinkRerun, RequestDies

-----------------------------------------------------------------------------
(* The sweeps *)

\* What a sweep finds to assign is a run of the bytes of the latest revision.
LEMMA AssignDoes ==
  ASSUME IInv, NEW w \in Workers, NEW trigger \in {"auto", "policy"}, Assign(w, trigger)
  PROVE  \E s \in SweepRow : /\ sweep' = [sweep EXCEPT ![w] = s]
                             /\ s.pc \in {"create", "link"} /\ s.rev = Latest
                             /\ s.trigger = trigger
                             /\ s.pc = "link" => IsOf(s.run, Latest)
<1> DEFINE fp == Fingerprint(ApplicableRules)
           s0 == [NoSweep EXCEPT !.rev = Latest, !.fp = fp, !.trigger = trigger]
<1>1. fp \in SUBSET Pairs /\ Latest \in Nat /\ WebInv
  BY RulesTyped DEF IInv, WebInv, Latest
<1>2. NoSweep \in SweepRow
  BY Numbers DEF NoSweep, SweepRow, None
<1> HIDE DEF fp
<1>3. s0 \in SweepRow /\ s0.rev = Latest /\ s0.trigger = trigger
  BY <1>1, <1>2 DEF SweepRow
<1>4. ASSUME NEW i \in ReuseFor(Latest, fp, trigger)
      PROVE  IsOf(i, Latest)
  <2>1. CASE i \in BestOf(Reusable(payload[Latest], fp))
    BY <2>1 DEF BestOf, Reusable, IsOf, Live
  <2>2. CASE i \in CurrentRun(Latest - 1) /\ run[i].content = payload[Latest]
    <3>1. PICK l \in 1..Len(link) : link[l].run = i
      BY <2>2 DEF CurrentRun
    <3> QED
      BY <2>2, <3>1 DEF IInv, LinkInv, IsOf
  <2> QED
    BY <2>1, <2>2 DEF ReuseFor
<1> HIDE DEF s0
<1>5. CASE sweep' = [sweep EXCEPT ![w] = [s0 EXCEPT !.pc = "create"]]
  <2>1. /\ [s0 EXCEPT !.pc = "create"] \in SweepRow /\ [s0 EXCEPT !.pc = "create"].pc = "create"
        /\ [s0 EXCEPT !.pc = "create"].rev = Latest
        /\ [s0 EXCEPT !.pc = "create"].trigger = trigger
    BY <1>3 DEF SweepRow
  <2> QED
    BY <1>5, <2>1
<1>6. ASSUME NEW i \in ReuseFor(Latest, fp, trigger),
             sweep' = [sweep EXCEPT ![w] = [s0 EXCEPT !.pc = "link", !.run = i, !.cached = TRUE]]
      PROVE  \E s \in SweepRow : /\ sweep' = [sweep EXCEPT ![w] = s]
                                 /\ s.pc \in {"create", "link"} /\ s.rev = Latest
                                 /\ s.trigger = trigger
                                 /\ s.pc = "link" => IsOf(s.run, Latest)
  <2> DEFINE s == [s0 EXCEPT !.pc = "link", !.run = i, !.cached = TRUE]
  <2>1. IsOf(i, Latest) /\ i \in 0..MaxRuns
    BY <1>4, Numbers DEF IsOf, Runs
  <2>2. s \in SweepRow /\ s.pc = "link" /\ s.rev = Latest /\ s.run = i /\ s.trigger = trigger
    BY <1>3, <2>1 DEF SweepRow
  <2> HIDE DEF s
  <2> QED
    BY <1>6, <2>1, <2>2 DEF s
<1> QED
  BY <1>5, <1>6 DEF Assign, s0, fp

\* A sweep that goes on in the next state as it is is in order there.
LEMMA SweepStays ==
  ASSUME IInv, [Next]_vars, NEW w \in Workers, sweep'[w] = sweep[w]
  PROVE  SweepOK(w)'
<1>1. SweepOK(w)
  BY DEF IInv, SweepInv
<1>2. PICK i, n : i = sweep[w].run /\ n = sweep[w].rev
  OBVIOUS
<1>3. sweep[w].pc \in {"create", "link"} => n \in 1..Latest /\ n \in 1..Latest'
  BY <1>1, <1>2, PayloadGrows DEF SweepOK
<1>4. sweep[w].pc = "link" => IsOf(i, n)'
  BY <1>1, <1>2, <1>3, IsOfKept DEF SweepOK
<1> QED
  BY <1>1, <1>2, <1>3, <1>4 DEF SweepOK, IsOf, Live

LEMMA SweepSet ==
  ASSUME IInv, [Next]_vars, NEW w \in Workers, NEW s \in SweepRow,
         sweep' = [sweep EXCEPT ![w] = s],
         s.pc = "idle" => s = NoSweep,
         s.pc \in {"create", "link"} => s.rev \in 1..Latest' /\ s.trigger \in {"auto", "policy"},
         s.pc = "link" => IsOf(s.run, s.rev)'
  PROVE  SweepInv'
<1>1. sweep \in [Workers -> SweepRow]
  BY DEF IInv, SweepInv
<1>2. sweep' \in [Workers -> SweepRow] /\ sweep'[w] = s
      /\ \A v \in Workers \ {w} : sweep'[v] = sweep[v]
  BY <1>1
<1>3. SweepOK(w)'
  BY <1>2 DEF SweepOK, IsOf, Live
<1> QED
  BY <1>2, <1>3, SweepStays DEF SweepInv

LEMMA NoSweepIs ==
  /\ NoSweep \in SweepRow /\ NoSweep.pc = "idle"
  /\ \A pc \in {"reconcile", "due"} :
        [NoSweep EXCEPT !.pc = pc] \in SweepRow /\ [NoSweep EXCEPT !.pc = pc].pc = pc
<1>1. NoSweep \in SweepRow
  BY Numbers DEF NoSweep, SweepRow, None
<1>2. ASSUME NEW pc \in {"reconcile", "due"}
      PROVE  [NoSweep EXCEPT !.pc = pc] \in SweepRow /\ [NoSweep EXCEPT !.pc = pc].pc = pc
  BY <1>1, <1>2 DEF SweepRow
<1> QED
  BY <1>1, <1>2 DEF NoSweep

LEMMA SweepKept ==
  ASSUME IInv, [Next]_vars
  PROVE  SweepInv'
<1>0. sweep \in [Workers -> SweepRow]
  BY DEF IInv, SweepInv
<1>1. CASE sweep' = sweep
  BY <1>0, <1>1, SweepStays DEF SweepInv
<1>2. ASSUME NEW w \in Workers, NEW pc \in {"reconcile", "due", "running"}, SweepTo(w, pc)
      PROVE  SweepInv'
  <2>1. PICK s \in SweepRow : s = [sweep[w] EXCEPT !.pc = pc]
    BY <1>0 DEF SweepRow
  <2>2. s.pc = pc
    BY <1>0, <2>1 DEF SweepRow
  <2> QED
    BY <1>2, <2>1, <2>2, SweepSet DEF SweepTo
<1>3. ASSUME NEW w \in Workers, NEW trigger \in {"auto", "policy"}, Assign(w, trigger),
             run' = run, payload' = payload
      PROVE  SweepInv'
  <2>1. PICK s \in SweepRow : /\ sweep' = [sweep EXCEPT ![w] = s]
                              /\ s.pc \in {"create", "link"} /\ s.rev = Latest
                              /\ s.trigger = trigger
                              /\ s.pc = "link" => IsOf(s.run, Latest)
    BY <1>3, AssignDoes
  <2>2. s.rev \in 1..Latest' /\ (s.pc = "link" => IsOf(s.run, s.rev)')
    BY <1>3, <2>1 DEF IInv, WebInv, Latest, IsOf, Live
  <2> QED
    BY <1>3, <2>1, <2>2, SweepSet
<1>4. ASSUME NEW w \in Workers, CreateRun(w) PROVE SweepInv'
  <2>1. PICK i \in Runs : /\ OneRun(i) /\ Appears(i)
                          /\ run'[i].content = payload[sweep[w].rev]
                          /\ sweep' = [sweep EXCEPT ![w].pc = "link", ![w].run = i]
    BY <1>4, SweepCreates
  <2>2. /\ sweep[w].pc = "create" /\ payload' = payload
        /\ sweep[w].rev \in 1..Latest /\ sweep[w].trigger \in {"auto", "policy"}
    BY <1>4 DEF CreateRun, AtSweep, IInv, SweepInv, SweepOK
  <2>3. i \in 0..MaxRuns
    BY Numbers DEF Runs
  <2>4. PICK s \in SweepRow : s = [sweep[w] EXCEPT !.pc = "link", !.run = i]
    BY <1>0, <2>3 DEF SweepRow
  <2>5. s.pc = "link" /\ s.run = i /\ s.rev = sweep[w].rev /\ s.trigger = sweep[w].trigger
    BY <1>0, <2>4 DEF SweepRow
  <2>6. sweep' = [sweep EXCEPT ![w] = s]
    BY <1>0, <2>1, <2>4
  <2>7. IsOf(s.run, s.rev)' /\ s.rev \in 1..Latest'
    BY <2>1, <2>2, <2>5 DEF IsOf, Live, Appears, Latest
  <2> QED
    BY <2>2, <2>5, <2>6, <2>7, SweepSet
<1>5. ASSUME NEW w \in Workers, NEW s \in SweepRow, sweep' = [sweep EXCEPT ![w] = s],
             s = NoSweep \/ s.pc \in {"reconcile", "due"}
      PROVE  SweepInv'
  BY <1>5, NoSweepIs, SweepSet
<1>6. ASSUME NEW w \in Workers, SweepEnds(w) \/ WorkerDies(w) PROVE SweepInv'
  BY <1>5, <1>6, NoSweepIs DEF SweepEnds, WorkerDies
<1>7. ASSUME NEW w \in Workers, LinkRun(w) PROVE SweepInv'
  BY <1>5, <1>7, NoSweepIs DEF LinkRun
<1>8. ASSUME NEW w \in Workers, sweepAiPrereview(w) \/ policyReconcile(w) PROVE SweepInv'
  <2>1. run' = run /\ payload' = payload
    BY <1>8 DEF sweepAiPrereview, policyReconcile, SweepReads, dbVars
  <2> QED
    BY <1>2, <1>3, <1>8, <2>1 DEF sweepAiPrereview, policyReconcile
<1>9. ASSUME NEW w \in Workers, TakeDue(w) PROVE SweepInv'
  BY <1>2, <1>9 DEF TakeDue
<1> QED
  BY <1>1, <1>4, <1>6, <1>7, <1>8, <1>9, Frames DEF SweepMoves, SweepStep

-----------------------------------------------------------------------------
(* The executions *)

\* A sweep does not end under an execution that goes on.
LEMMA SweepOutlasts ==
  ASSUME IInv, [Next]_vars, NEW w \in Workers, NEW i \in Runs,
         exec[w][i] # NoExec, exec'[w][i] = exec[w][i]
  PROVE  sweep'[w] = sweep[w] /\ sweep[w].pc = "running"
<1>1. sweep[w].pc = "running" /\ sweep \in [Workers -> SweepRow]
  BY DEF IInv, ExecInv, ExecOK, SweepInv
<1>2. CASE sweep' = sweep
  BY <1>1, <1>2
<1>3. ASSUME NEW v \in Workers, SweepStep(v) PROVE sweep'[w] = sweep[w]
  <2>1. CASE v # w
    <3>1. ASSUME NEW pc, SweepTo(v, pc) PROVE sweep'[w] = sweep[w]
      BY <1>1, <2>1, <3>1 DEF SweepTo
    <3>2. ASSUME NEW trigger, Assign(v, trigger) PROVE sweep'[w] = sweep[w]
      BY <1>1, <2>1, <3>2 DEF Assign
    <3>3. CASE CreateRun(v) \/ LinkRun(v) \/ SweepEnds(v)
      BY <1>1, <2>1, <3>3 DEF CreateRun, LinkRun, SweepEnds
    <3>4. CASE sweepAiPrereview(v) \/ policyReconcile(v) \/ TakeDue(v)
      BY <3>1, <3>2, <3>4 DEF sweepAiPrereview, policyReconcile, TakeDue
    <3> QED
      BY <1>3, <3>3, <3>4 DEF SweepStep
  <2>2. CASE v = w
    BY <1>1, <1>3, <2>2 DEF SweepStep, sweepAiPrereview, CreateRun, LinkRun, policyReconcile,
                            TakeDue, SweepEnds, AtSweep
  <2> QED
    BY <2>1, <2>2
<1>4. ASSUME NEW v \in Workers, WorkerDies(v) PROVE sweep'[w] = sweep[w]
  <2>1. exec' = [exec EXCEPT ![v] = [j \in Runs |-> NoExec]] /\ exec \in [Workers -> [Runs -> ExecRow]]
    BY <1>4 DEF WorkerDies, IInv, ExecInv
  <2>2. v # w
    BY <2>1
  <2> QED
    BY <1>1, <1>4, <2>2 DEF WorkerDies
<1> QED
  BY <1>1, <1>2, <1>3, <1>4, Frames DEF SweepMoves

LEMMA ExecStays ==
  ASSUME IInv, [Next]_vars, NEW w \in Workers, NEW i \in Runs, exec'[w][i] = exec[w][i]
  PROVE  ExecOK(w, i)'
<1>1. ExecOK(w, i)
  BY DEF IInv, ExecInv
<1>2. CASE exec[w][i] = NoExec
  BY <1>2, NoExecIs DEF ExecOK, Found
<1>3. CASE exec[w][i] # NoExec
  <2>1. sweep'[w].pc = "running" /\ Linked(i)
    BY <1>1, <1>3, SweepOutlasts DEF ExecOK
  <2>2. Linked(i)' /\ run'[i].content = run[i].content
    BY <2>1, LinkGrows, LinkedLive, ContentKept
  <2>3. PICK j : j = exec[w][i].from
    OBVIOUS
  <2>4. exec[w][i].pc \in {"copy", "copied"} =>
          j \in Runs /\ Linked(j)' /\ run'[j].content = run'[i].content
    BY <1>1, <2>2, <2>3, LinkGrows, LinkedLive, ContentKept DEF ExecOK
  <2>5. Found(run[i].content, exec[w][i].left) /\ judged \subseteq judged'
    BY <1>1, Frames DEF ExecOK
  <2>6. PICK e : e = exec[w][i]
    OBVIOUS
  <2> QED
    BY <2>1, <2>2, <2>3, <2>4, <2>5, <2>6 DEF ExecOK, Found, Linked
<1> QED
  BY <1>2, <1>3

\* What a sweep takes is linked; it was not executing anything before.
LEMMA TakesDue ==
  ASSUME IInv, NEW w \in Workers, TakeDue(w)
  PROVE  /\ exec' \in [Workers -> [Runs -> ExecRow]] /\ sweep'[w].pc = "running"
         /\ run' = run /\ link' = link /\ judged' = judged /\ overlap' = overlap
         /\ \A i \in Runs : exec[w][i] = NoExec
         /\ \A i \in Runs : \/ exec'[w][i] = NoExec
                            \/ /\ exec'[w][i] = [NoExec EXCEPT !.pc = "load"]
                               /\ run[i].status = "pending" /\ Linked(i)
         /\ \A v \in Workers \ {w} : exec'[v] = exec[v]
<1>1. exec \in [Workers -> [Runs -> ExecRow]] /\ sweep \in [Workers -> SweepRow]
  BY DEF IInv, ExecInv, SweepInv
<1>2. PICK D \in SUBSET DueRuns :
        exec' = [exec EXCEPT ![w] = [i \in Runs |->
                    IF i \in D THEN [NoExec EXCEPT !.pc = "load"] ELSE NoExec]]
  BY DEF TakeDue
<1>3. NoExec \in ExecRow /\ [NoExec EXCEPT !.pc = "load"] \in ExecRow
  BY NoExecIs DEF ExecPcs
<1>4. PICK ld \in ExecRow : ld = [NoExec EXCEPT !.pc = "load"]
  BY <1>3
<1>5. PICK no \in ExecRow : no = NoExec
  BY <1>3
<1>6. [i \in Runs |-> IF i \in D THEN ld ELSE no] \in [Runs -> ExecRow]
  OBVIOUS
<1>7. exec' = [exec EXCEPT ![w] = [i \in Runs |-> IF i \in D THEN ld ELSE no]]
  BY <1>2, <1>4, <1>5
<1>8. /\ exec' \in [Workers -> [Runs -> ExecRow]]
      /\ \A v \in Workers \ {w} : exec'[v] = exec[v]
      /\ \A i \in Runs : exec'[w][i] = IF i \in D THEN ld ELSE no
  BY <1>1, <1>6, <1>7
<1>9. \A i \in D : run[i].status = "pending" /\ Linked(i)
  BY DEF DueRuns, Linked
<1>10. \A i \in Runs : exec[w][i] = NoExec
  BY DEF TakeDue, AtSweep, IInv, ExecInv, ExecOK
<1>11. /\ sweep'[w].pc = "running"
       /\ run' = run /\ link' = link /\ judged' = judged /\ overlap' = overlap
  BY <1>1 DEF TakeDue, SweepTo, dbVars, history, SweepRow
<1> QED
  BY <1>4, <1>5, <1>8, <1>9, <1>10, <1>11

LEMMA ExecKept ==
  ASSUME IInv, [Next]_vars
  PROVE  ExecInv'
<1>0. exec \in [Workers -> [Runs -> ExecRow]]
  BY DEF IInv, ExecInv
<1>1. CASE exec' = exec
  BY <1>0, <1>1, ExecStays DEF ExecInv
<1>2. ASSUME NEW w \in Workers, TakeDue(w) PROVE ExecInv'
  <2>1. ASSUME NEW i \in Runs, exec'[w][i] = NoExec PROVE ExecOK(w, i)'
    BY <2>1, NoExecIs DEF ExecOK, Found
  <2>2. ASSUME NEW i \in Runs, exec'[w][i] = [NoExec EXCEPT !.pc = "load"], Linked(i)
        PROVE  ExecOK(w, i)'
    <3>1. exec'[w][i].pc = "load" /\ exec'[w][i].left = {}
      BY <2>2 DEF NoExec
    <3>2. sweep'[w].pc = "running" /\ Linked(i)'
      BY <1>2, <2>2, TakesDue DEF Linked
    <3> QED
      BY <3>1, <3>2 DEF ExecOK, Found
  <2>3. ASSUME NEW v \in Workers \ {w}, NEW i \in Runs PROVE ExecOK(v, i)'
    BY <1>2, TakesDue, ExecStays
  <2> QED
    BY <1>2, <2>1, <2>2, <2>3, TakesDue DEF ExecInv
<1>3. ASSUME NEW w \in Workers, WorkerDies(w) PROVE ExecInv'
  <2>1. exec' = [exec EXCEPT ![w] = [i \in Runs |-> NoExec]]
    BY <1>3 DEF WorkerDies
  <2>2. exec' \in [Workers -> [Runs -> ExecRow]]
    BY <1>0, <2>1, NoExecIs
  <2>3. ASSUME NEW i \in Runs PROVE ExecOK(w, i)'
    <3>1. exec'[w][i] = NoExec
      BY <1>0, <2>1
    <3> QED
      BY <3>1, NoExecIs DEF ExecOK, Found
  <2>4. ASSUME NEW v \in Workers \ {w}, NEW i \in Runs PROVE ExecOK(v, i)'
    BY <1>0, <2>1, ExecStays
  <2> QED
    BY <2>2, <2>3, <2>4 DEF ExecInv
<1>4. ASSUME NEW w \in Workers, NEW i \in Runs, ExecStep(w, i) PROVE ExecInv'
  <2>1. Does(w, i) /\ exec[w][i] # NoExec
    BY <1>4, ExecDoes
  <2>2. exec' \in [Workers -> [Runs -> ExecRow]]
    BY <2>1 DEF Does, OneExec
  <2>3. ASSUME NEW v \in Workers, NEW j \in Runs, v # w \/ j # i PROVE ExecOK(v, j)'
    BY <2>1, <2>3, ExecStays DEF Does, OneExec
  <2>4. ExecOK(w, i)'
    <3>1. Linked(i) /\ sweep[w].pc = "running"
      BY <2>1 DEF IInv, ExecInv, ExecOK
    <3>2. Linked(i)' /\ sweep'[w].pc = "running" /\ run'[i].content = run[i].content
      BY <2>1, <3>1, LinkGrows DEF Does, Stays
    <3>3. PICK j : j = exec'[w][i].from
      OBVIOUS
    <3>4. exec'[w][i].pc \in {"copy", "copied"} =>
            j \in Runs /\ Linked(j)' /\ run'[j].content = run'[i].content
      BY <2>1, <3>2, <3>3, LinkGrows, LinkedLive, ContentKept DEF Does
    <3>5. NowFound(run'[i].content, exec'[w][i].left)
      BY <2>1, <3>2 DEF Does
    <3> QED
      BY <3>2, <3>3, <3>4, <3>5 DEF ExecOK, Found, NowFound, Linked
  <2> QED
    BY <2>2, <2>3, <2>4 DEF ExecInv
<1> QED
  BY <1>1, <1>2, <1>3, <1>4, Frames DEF ExecMoves

-----------------------------------------------------------------------------
(* The accept *)

\* While an accept is in progress its revision stays the latest.
LEMMA RevisionPinned ==
  ASSUME [Next]_vars, IInv, gate # NoGate
  PROVE  payload' = payload
BY Frames DEF revise

LEMMA CurrentIs ==
  ASSUME IInv, NEW i \in CurrentRun(Latest)
  PROVE  IsOf(i, Latest) /\ Linked(i) /\ i \in 0..MaxRuns
<1>1. PICK l \in 1..Len(link) : link[l].run = i /\ link[l].rev = Latest
  BY DEF CurrentRun
<1>2. IsOf(i, Latest) /\ Linked(i)
  BY <1>1 DEF IInv, LinkInv, Linked
<1> QED
  BY <1>2, Numbers DEF IsOf, Runs

LEMMA GateKept ==
  ASSUME IInv, [Next]_vars
  PROVE  GateInv'
<1>0. GateInv /\ judged \subseteq judged'
  BY Frames DEF IInv
<1>1. ASSUME passed' = passed
      PROVE  /\ \A p \in passed' : p[1] \in 1..Latest'
             /\ GateOnVerdict'
  <2>1. ASSUME NEW p \in passed PROVE p[1] \in 1..Latest' /\ payload'[p[1]] = payload[p[1]]
    BY <1>0, PayloadGrows DEF GateInv
  <2>2. ASSUME NEW p \in passed, NEW x \in p[2] PROVE <<payload[p[1]], x[1], x[2]>> \in judged'
    BY <1>0 DEF GateInv, GateOnVerdict
  <2> QED
    BY <1>1, <2>1, <2>2 DEF GateOnVerdict
<1>2. CASE UNCHANGED <<gate, passed>>
  <2>1. CASE gate = NoGate
    <3>1. NoGate.pc = "idle" /\ NoGate.results = {}
      BY DEF NoGate
    <3> QED
      BY <1>0, <1>1, <1>2, <2>1, <3>1 DEF GateInv, Found
  <2>2. CASE gate # NoGate
    <3>1. payload' = payload /\ Latest' = Latest
      BY <2>2, RevisionPinned DEF Latest
    <3>2. PICK i, n : i = gate.run /\ n = Latest
      OBVIOUS
    <3>3. gate.pc = "results" => IsOf(i, n)' /\ Linked(i)'
      <4>1. Latest \in 1..Latest
        BY DEF IInv, WebInv, Latest
      <4> QED
        BY <1>0, <3>2, <4>1, IsOfKept, LinkGrows DEF GateInv, IsOf
    <3>4. Found(payload[Latest], gate.results) /\ gate \in GateRow
      BY <1>0 DEF GateInv
    <3> QED
      BY <1>0, <1>1, <1>2, <3>1, <3>2, <3>3, <3>4 DEF GateInv, Found, IsOf, Live, Linked
  <2> QED
    BY <2>1, <2>2
<1>3. ASSUME passed' = passed, payload' = payload, run' = run, link' = link,
             gate' \in GateRow,
             gate'.pc = "results" => IsOf(gate'.run, Latest) /\ Linked(gate'.run),
             NowFound(payload[Latest], gate'.results)
      PROVE  GateInv'
  BY <1>1, <1>3 DEF GateInv, Found, NowFound, IsOf, Live, Linked, Latest
<1>4. NoGate \in GateRow /\ NoGate.pc = "idle" /\ NoGate.results = {}
  BY Numbers DEF NoGate, GateRow, None
<1>5. CASE GateReadsRules
  <2>1. gate' = [NoGate EXCEPT !.pc = "run", !.rules = ApplicableRules]
        /\ UNCHANGED <<payload, passed, run, link>>
    BY <1>5 DEF GateReadsRules, dbVars, history
  <2>2. ApplicableRules \in SUBSET Judgeable
    BY RulesTyped DEF IInv
  <2>3. gate' \in GateRow /\ gate'.pc = "run" /\ gate'.results = {}
    BY <1>4, <2>1, <2>2 DEF GateRow
  <2> QED
    BY <1>3, <2>1, <2>3 DEF NowFound
<1>6. CASE GateReadsRun
  <2>1. UNCHANGED <<payload, passed, run, link, judged>>
    BY <1>6 DEF GateReadsRun, GateReads, dbVars, history
  <2>2. ASSUME NEW i \in CurrentRun(Latest), gate' = [gate EXCEPT !.pc = "results", !.run = i]
        PROVE  GateInv'
    <3>1. IsOf(i, Latest) /\ Linked(i) /\ i \in 0..MaxRuns
      BY CurrentIs
    <3>2. /\ gate' \in GateRow /\ gate'.pc = "results" /\ gate'.run = i
          /\ gate'.results = gate.results
      BY <1>0, <2>2, <3>1 DEF GateInv, GateRow
    <3> QED
      BY <1>0, <1>3, <2>1, <3>1, <3>2 DEF NowFound, Found, GateInv
  <2>3. ASSUME gate' = [gate EXCEPT !.pc = "decide"] PROVE GateInv'
    <3>1. gate' \in GateRow /\ gate'.pc = "decide" /\ gate'.results = gate.results
      BY <1>0, <2>3 DEF GateInv, GateRow
    <3> QED
      BY <1>0, <1>3, <2>1, <3>1 DEF NowFound, Found, GateInv
  <2> QED
    BY <1>6, <2>2, <2>3 DEF GateReadsRun
<1>7. CASE GateReadsResults
  <2>1. /\ UNCHANGED <<payload, passed, run, link, judged>> /\ gate.pc = "results"
        /\ gate' = [gate EXCEPT !.pc = "decide", !.results = run[gate.run].results]
    BY <1>7 DEF GateReadsResults, GateReads, dbVars, history
  <2>2. PICK i \in Runs : i = gate.run /\ run[i].content = payload[Latest]
    BY <1>0, <2>1 DEF GateInv, IsOf
  <2>3. run[i] \in RunRow /\ Found(run[i].content, run[i].results)
    BY DEF IInv, RunInv
  <2>4. PICK rs \in SUBSET Results : rs = run[i].results
    BY <2>3 DEF RunRow
  <2>5. gate' \in GateRow /\ gate'.pc = "decide" /\ gate'.results = rs
    BY <1>0, <2>1, <2>2, <2>4 DEF GateInv, GateRow
  <2> QED
    BY <1>3, <2>1, <2>2, <2>3, <2>4, <2>5 DEF NowFound, Found
<1>8. CASE DecideAccept
  <2>1. /\ gate' = NoGate
        /\ UNCHANGED <<payload, run, link, judged>>
        /\ \/ passed' = passed
           \/ policyGateTrips = {} /\ passed' = {<<Latest, Enforced(gate.rules)>>}
    BY <1>8 DEF DecideAccept
  <2>2. CASE passed' = passed
    BY <1>3, <1>4, <2>1, <2>2 DEF NowFound
  <2>3. CASE policyGateTrips = {} /\ passed' = {<<Latest, Enforced(gate.rules)>>}
    <3>1. ASSUME NEW x \in Enforced(gate.rules)
          PROVE  <<payload[Latest], x[1], x[2]>> \in judged
      <4>1. <<x[1], x[2], "complies">> \in gate.results
        BY <2>3 DEF policyGateTrips
      <4> QED
        BY <1>0, <4>1 DEF GateInv, Found
    <3>2. Latest \in 1..Latest'
      BY <2>1 DEF IInv, WebInv, Latest
    <3>3. GateOnVerdict' /\ \A p \in passed' : p[1] \in 1..Latest'
      BY <2>1, <2>3, <3>1, <3>2 DEF GateOnVerdict
    <3> QED
      BY <1>4, <2>1, <3>3 DEF GateInv, Found
  <2> QED
    BY <2>1, <2>2, <2>3
<1> QED
  BY <1>2, <1>5, <1>6, <1>7, <1>8, Frames DEF GateMoves

-----------------------------------------------------------------------------
(* The attempts *)

LEMMA SomeWorkers ==
  ASSUME NEW S \in SUBSET Workers, NEW T \in SUBSET S
  PROVE  /\ IsFiniteSet(S) /\ Cardinality(S) \in Nat /\ Cardinality(T) \in Nat
         /\ Cardinality(T) <= Cardinality(S) /\ Cardinality(S) <= Cardinality(Workers)
<1>1. IsFiniteSet(S) /\ IsFiniteSet(T) /\ Cardinality(S) <= Cardinality(Workers)
  BY Numbers, FS_Subset
<1>2. Cardinality(T) <= Cardinality(S)
  BY <1>1, FS_Subset
<1> QED
  BY <1>1, <1>2, FS_CardinalityType

\* Three ways in which the tries of a run stay in order.
LEMMA NoMoreTries ==
  ASSUME IInv, NEW i \in Runs, run'[i].attempts = run[i].attempts,
         run'[i].status = "pending" => run[i].status = "pending",
         Executors(i)' \subseteq Executors(i)
  PROVE  TriesOK(i)'
<1>1. TriesOK(i) /\ run[i].attempts \in Nat
  BY DEF IInv, TriesInv, RunInv, RunRow
<1>2. PICK S \in SUBSET Workers : S = Executors(i)
  BY DEF Executors
<1>3. PICK T \in SUBSET S : T = Executors(i)'
  BY <1>2
<1>4. Cardinality(T) \in Nat /\ Cardinality(S) \in Nat /\ Cardinality(T) <= Cardinality(S)
  BY SomeWorkers
<1>5. run[i].attempts + Cardinality(S) <= MaxAttempts - 1 + Cardinality(Workers)
  BY <1>1, <1>2 DEF TriesOK
<1>6. run[i].attempts + Cardinality(T) <= MaxAttempts - 1 + Cardinality(Workers)
  BY <1>1, <1>4, <1>5, Numbers
<1> QED
  BY <1>1, <1>3, <1>6 DEF TriesOK

LEMMA TriesLeft ==
  ASSUME IInv, NEW i \in Runs, run'[i].attempts \in Nat, run'[i].attempts < MaxAttempts,
         exec' \in [Workers -> [Runs -> ExecRow]]
  PROVE  TriesOK(i)'
<1>1. PICK S \in SUBSET Workers : S = Executors(i)'
  BY DEF Executors
<1>2. Cardinality(S) \in Nat /\ Cardinality(S) <= Cardinality(Workers)
  BY SomeWorkers
<1>3. run'[i].attempts + Cardinality(S) <= MaxAttempts - 1 + Cardinality(Workers)
  BY <1>2, Numbers
<1> QED
  BY <1>1, <1>3 DEF TriesOK

LEMMA OneMoreTry ==
  ASSUME IInv, NEW w \in Workers, NEW i \in Runs, run'[i].attempts = run[i].attempts + 1,
         run'[i].status = "pending" => run'[i].attempts < MaxAttempts,
         w \in Executors(i), Executors(i)' \subseteq Executors(i) \ {w}
  PROVE  TriesOK(i)'
<1>1. TriesOK(i) /\ run[i].attempts \in Nat
  BY DEF IInv, TriesInv, RunInv, RunRow
<1>2. PICK S \in SUBSET Workers : S = Executors(i)
  BY DEF Executors
<1>3. PICK R \in SUBSET S : R = S \ {w}
  OBVIOUS
<1>4. PICK T \in SUBSET R : T = Executors(i)'
  BY <1>2, <1>3
<1>5. Cardinality(T) \in Nat /\ Cardinality(R) \in Nat /\ Cardinality(T) <= Cardinality(R)
  BY SomeWorkers
<1>6. Cardinality(R) = Cardinality(S) - 1 /\ Cardinality(S) \in Nat
  BY <1>2, <1>3, SomeWorkers, FS_RemoveElement
<1>7. run[i].attempts + Cardinality(S) <= MaxAttempts - 1 + Cardinality(Workers)
  BY <1>1, <1>2 DEF TriesOK
<1>8. (run[i].attempts + 1) + Cardinality(T) <= MaxAttempts - 1 + Cardinality(Workers)
  BY <1>1, <1>5, <1>6, <1>7, Numbers
<1> QED
  BY <1>1, <1>4, <1>8 DEF TriesOK

LEMMA TriesKept ==
  ASSUME IInv, [Next]_vars
  PROVE  TriesInv'
<1>0. /\ exec \in [Workers -> [Runs -> ExecRow]] /\ exec' \in [Workers -> [Runs -> ExecRow]]
      /\ run \in [Runs -> RunRow]
  BY ExecKept DEF IInv, ExecInv, RunInv
<1>1. ASSUME NEW i \in Runs, run'[i] = run[i], exec' = exec
      PROVE  TriesOK(i)'
  BY <1>1, NoMoreTries DEF Executors
<1>2. ASSUME NEW i \in Runs, run'[i].attempts = 0
      PROVE  TriesOK(i)'
  BY <1>0, <1>2, TriesLeft, Numbers
<1>3. CASE run' = run /\ exec' = exec
  BY <1>1, <1>3 DEF TriesInv
<1>4. ASSUME NEW j \in Runs, OneRun(j), Appears(j) \/ Goes(j), exec' = exec
      PROVE  TriesInv'
  <2>1. TriesOK(j)'
    BY <1>2, <1>4 DEF Appears, Goes
  <2>2. ASSUME NEW i \in Runs \ {j} PROVE TriesOK(i)'
    BY <1>1, <1>4 DEF OneRun
  <2> QED
    BY <2>1, <2>2 DEF TriesInv
<1>5. ASSUME CreateRerun PROVE TriesInv'
  BY <1>4, <1>5, RerunCreates DEF CreateRerun, EnvUnchanged
<1>6. ASSUME NEW w \in Workers, CreateRun(w) PROVE TriesInv'
  <2>1. exec' = exec
    BY <1>6 DEF CreateRun
  <2> QED
    BY <1>4, <1>6, <2>1, SweepCreates
<1>7. ASSUME NEW j \in Runs, RetryDue(j) PROVE TriesInv'
  <2>1. exec' = exec
    BY <1>7 DEF RetryDue
  <2>2. TriesOK(j)'
    BY <1>7, <2>1, RetryDoes, NoMoreTries DEF Executors
  <2>3. ASSUME NEW i \in Runs \ {j} PROVE TriesOK(i)'
    BY <1>1, <1>7, <2>1, RetryDoes DEF OneRun
  <2> QED
    BY <2>2, <2>3 DEF TriesInv
<1>8. ASSUME NEW j \in Runs, pruneOrphanPrereviews(j) PROVE TriesInv'
  <2>1. exec' = exec
    BY <1>8 DEF pruneOrphanPrereviews
  <2> QED
    BY <1>4, <1>8, <2>1, PruneDoes
<1>9. ASSUME NEW w \in Workers, TakeDue(w) PROVE TriesInv'
  <2>1. ASSUME NEW i \in Runs PROVE TriesOK(i)'
    <3>1. CASE exec'[w][i] = NoExec
      BY <1>9, <3>1, TakesDue, NoMoreTries DEF Executors
    <3>2. CASE run[i].status = "pending"
      BY <1>0, <1>9, <3>2, TakesDue, TriesLeft DEF IInv, TriesInv, TriesOK, RunRow
    <3> QED
      BY <1>9, <3>1, <3>2, TakesDue
  <2> QED
    BY <2>1 DEF TriesInv
<1>10. ASSUME NEW w \in Workers, WorkerDies(w) PROVE TriesInv'
  <2>1. run' = run /\ exec' = [exec EXCEPT ![w] = [i \in Runs |-> NoExec]]
    BY <1>10 DEF WorkerDies, dbVars
  <2>2. ASSUME NEW i \in Runs PROVE TriesOK(i)'
    <3>1. Executors(i)' \subseteq Executors(i)
      BY <1>0, <2>1 DEF Executors
    <3> QED
      BY <2>1, <3>1, NoMoreTries
  <2> QED
    BY <2>2 DEF TriesInv
<1>11. ASSUME NEW w \in Workers, NEW j \in Runs, ExecStep(w, j) PROVE TriesInv'
  <2>1. Does(w, j) /\ w \in Executors(j)
    BY <1>11, ExecDoes DEF Executors
  <2>2. ASSUME NEW i \in Runs \ {j} PROVE TriesOK(i)'
    <3>1. run'[i] = run[i] /\ Executors(i)' = Executors(i)
      BY <2>1 DEF Does, OneRun, OneExec, Executors
    <3> QED
      BY <3>1, NoMoreTries
  <2>3. TriesOK(j)'
    <3>1. Executors(j)' \subseteq Executors(j)
      BY <2>1 DEF Does, OneExec, Executors
    <3>2. exec'[w][j] = NoExec => Executors(j)' \subseteq Executors(j) \ {w}
      BY <3>1 DEF Executors
    <3> QED
      BY <2>1, <3>1, <3>2, NoMoreTries, OneMoreTry DEF Does
  <2> QED
    BY <2>2, <2>3 DEF TriesInv
<1>12. run' = run \/ RunMoves
  BY Frames
<1>13. exec' = exec \/ ExecMoves
  BY Frames
<1> QED
  BY <1>3, <1>5, <1>6, <1>7, <1>8, <1>9, <1>10, <1>11, <1>12, <1>13 DEF RunMoves, ExecMoves

-----------------------------------------------------------------------------
(* Without an overlap *)

\* One sweep moves; it had begun, or it begins and nobody else is at it, or it ends.
LEMMA OneSweepMoves ==
  ASSUME IInv, [Next]_vars, ~overlap'
  PROVE  \/ sweep' = sweep
         \/ \E w \in Workers : /\ \A v \in Workers \ {w} : sweep'[v] = sweep[v]
                               /\ \/ sweep[w] # NoSweep \/ sweep'[w] = NoSweep
                                  \/ \A v \in Workers : sweep[v] = NoSweep
<1>0. sweep \in [Workers -> SweepRow] /\ NoSweep.pc = "idle"
  BY NoSweepIs DEF IInv, SweepInv
<1>1. ASSUME NEW w \in Workers, SweepStep(w) \/ WorkerDies(w)
      PROVE  \A v \in Workers \ {w} : sweep'[v] = sweep[v]
  <2>1. ASSUME NEW pc, SweepTo(w, pc) PROVE \A v \in Workers \ {w} : sweep'[v] = sweep[v]
    BY <1>0, <2>1 DEF SweepTo
  <2>2. ASSUME NEW trigger, Assign(w, trigger)
        PROVE  \A v \in Workers \ {w} : sweep'[v] = sweep[v]
    BY <1>0, <2>2 DEF Assign
  <2>3. CASE CreateRun(w) \/ LinkRun(w) \/ SweepEnds(w) \/ WorkerDies(w)
    BY <1>0, <2>3 DEF CreateRun, LinkRun, SweepEnds, WorkerDies
  <2>4. CASE sweepAiPrereview(w) \/ policyReconcile(w) \/ TakeDue(w)
    BY <2>1, <2>2, <2>4 DEF sweepAiPrereview, policyReconcile, TakeDue
  <2> QED
    BY <1>1, <2>3, <2>4 DEF SweepStep
<1>2. ASSUME NEW w \in Workers, sweepAiPrereview(w)
      PROVE  \A v \in Workers : sweep[v] = NoSweep
  BY <1>2 DEF sweepAiPrereview
<1>3. ASSUME NEW w \in Workers,
             \/ CreateRun(w) \/ LinkRun(w) \/ policyReconcile(w) \/ TakeDue(w)
             \/ SweepEnds(w) \/ WorkerDies(w)
      PROVE  sweep[w] # NoSweep
  BY <1>0, <1>3 DEF CreateRun, LinkRun, policyReconcile, TakeDue, SweepEnds, WorkerDies, AtSweep
<1> QED
  BY <1>1, <1>2, <1>3, Frames DEF SweepMoves, SweepStep

\* What has not overlapped now has not before.
LEMMA Before ==
  ASSUME IInv, [Next]_vars, ~overlap'
  PROVE  ~overlap
<1>1. overlap' = overlap \/ overlap' = (overlap \/ \E v \in Workers : sweep[v] # NoSweep)
  BY Frames DEF sweepAiPrereview
<1> QED
  BY <1>1, Zenon

LEMMA OneSweepKept ==
  ASSUME IInv, [Next]_vars, ~overlap'
  PROVE  OneSweep'
<1>1. OneSweep
  BY Before DEF IInv, WholeInv
<1> QED
  BY <1>1, OneSweepMoves DEF OneSweep

\* Only the worker whose sweep it is executes anything.
LEMMA Alone ==
  ASSUME IInv, ~overlap, NEW w \in Workers, sweep[w] # NoSweep,
         NEW v \in Workers \ {w}, NEW i \in Runs
  PROVE  exec[v][i] = NoExec
<1>1. exec[v][i] # NoExec => sweep[v].pc = "running"
  BY DEF IInv, ExecInv, ExecOK
<1>2. sweep[v] = NoSweep
  BY DEF IInv, WholeInv, OneSweep
<1> QED
  BY <1>1, <1>2, NoSweepIs

LEMMA IdleWhole ==
  ASSUME NEW w \in Workers, NEW i \in Runs, exec'[w][i] = NoExec
  PROVE  WholeOK(w, i)'
BY NoExecIs DEF WholeOK

\* An execution stays in order when its run stays, and the one it copies from.
LEMMA WholeStays ==
  ASSUME NEW w \in Workers, NEW i \in Runs, WholeOK(w, i), exec'[w][i] = exec[w][i],
         run'[i].status = "done" => run[i].status = "done",
         run'[i].results = run[i].results,
         exec[w][i].pc \in {"copy", "copied"} =>
            LET j == exec[w][i].from
            IN  /\ run'[j].results = run[j].results
                /\ exec[w][j].pc \in {"idle", "settle", "fail"} =>
                      exec'[w][j].pc \in {"idle", "settle", "fail"}
  PROVE  WholeOK(w, i)'
<1>1. PICK e : e = exec[w][i]
  OBVIOUS
<1> QED
  BY <1>1 DEF WholeOK

\* A step of an execution that writes the run goes on.
LEMMA WritesGoOn ==
  ASSUME IInv, NEW w \in Workers, NEW j \in Runs, ExecStep(w, j), exec' = exec
  PROVE  run' = run
<1>1. CASE InsertResult(w, j)
  <2>1. PICK x \in exec[w][j].left :
          \/ run' = run
          \/ exec' = [exec EXCEPT ![w][j].left = @ \ {x}]
    BY <1>1 DEF InsertResult
  <2>2. exec \in [Workers -> [Runs -> ExecRow]]
    BY DEF IInv, ExecInv
  <2>3. exec' = [exec EXCEPT ![w][j].left = @ \ {x}] => exec'[w][j].left = exec[w][j].left \ {x}
    BY <2>2 DEF ExecRow
  <2> QED
    BY <2>1, <2>3
<1>2. CASE ~InsertResult(w, j)
  BY <1>2, LoadDoes, CompleteDoes, DeleteDoes, CopyDoes, FlipDoes, SettleDoes, FailureDoes
     DEF ExecStep, Opened, Answered, Cleared, Copied, Finished, Settles, Failed
<1> QED
  BY <1>1, <1>2

\* What a step that executes nothing does to the runs that are executed.
LEMMA QuietRuns ==
  ASSUME IInv, [Next]_vars, exec' = exec, NEW i \in Runs, Linked(i)
  PROVE  run'[i].results = run[i].results /\ run'[i].status = run[i].status
<1>1. Live(i)
  BY LinkedLive
<1>2. ASSUME NEW j \in Runs, OneRun(j), Appears(j) \/ Goes(j)
      PROVE  run'[i] = run[i]
  BY <1>1, <1>2 DEF OneRun, Appears, Goes, Live
<1>3. CASE run' = run
  BY <1>3
<1>4. CASE CreateRerun
  BY <1>2, <1>4, RerunCreates
<1>5. ASSUME NEW w \in Workers, CreateRun(w) PROVE run'[i] = run[i]
  BY <1>2, <1>5, SweepCreates
<1>6. ASSUME NEW j \in Runs, RetryDue(j)
      PROVE  run'[i].results = run[i].results /\ run'[i].status = run[i].status
  BY <1>6, RetryDoes DEF OneRun
<1>7. ASSUME NEW j \in Runs, pruneOrphanPrereviews(j) PROVE run'[i] = run[i]
  BY <1>2, <1>7, PruneDoes
<1>8. ASSUME NEW w \in Workers, NEW j \in Runs, ExecStep(w, j)
      PROVE  run'[i].results = run[i].results /\ run'[i].status = run[i].status
  BY <1>8, WritesGoOn
<1> QED
  BY <1>3, <1>4, <1>5, <1>6, <1>7, <1>8, Frames DEF RunMoves

LEMMA QuietWhole ==
  ASSUME IInv, [Next]_vars, ~overlap, exec' = exec
  PROVE  /\ RunsWhole'
         /\ \A w \in Workers : \A i \in Runs : WholeOK(w, i)'
<1>0. RunsWhole /\ \A w \in Workers : \A i \in Runs : WholeOK(w, i)
  BY DEF IInv, WholeInv
<1>1. ASSUME NEW w \in Workers, NEW i \in Runs PROVE WholeOK(w, i)'
  <2>1. CASE exec[w][i] = NoExec
    BY <2>1, IdleWhole
  <2>2. CASE exec[w][i] # NoExec
    <3>1. Linked(i)
      BY <2>2 DEF IInv, ExecInv, ExecOK
    <3>2. PICK j : j = exec[w][i].from
      OBVIOUS
    <3>3. exec[w][i].pc \in {"copy", "copied"} => j \in Runs /\ Linked(j)
      BY <3>2 DEF IInv, ExecInv, ExecOK
    <3>4. exec[w][i].pc \in {"copy", "copied"} => run'[j].results = run[j].results
      BY <3>3, QuietRuns
    <3> QED
      BY <1>0, <3>1, <3>2, <3>4, QuietRuns, WholeStays
  <2> QED
    BY <2>1, <2>2
<1>2. ASSUME NEW i \in Runs, run'[i].status = "done"
      PROVE  Covers(run'[i].results, run'[i].fp)
  <2>1. CASE run'[i] = run[i]
    BY <1>0, <1>2, <2>1 DEF RunsWhole
  <2>2. ASSUME NEW j \in Runs, OneRun(j), Appears(j) \/ Goes(j) PROVE run'[i] = run[i]
    BY <1>2, <2>2 DEF OneRun, Appears, Goes
  <2>3. ASSUME NEW j \in Runs, RetryDue(j) PROVE run'[i] = run[i]
    BY <1>2, <2>3, RetryDoes DEF OneRun
  <2>4. ASSUME NEW w \in Workers, NEW j \in Runs, ExecStep(w, j) PROVE run'[i] = run[i]
    BY <2>4, WritesGoOn
  <2> QED
    BY <2>1, <2>2, <2>3, <2>4, RerunCreates, SweepCreates, PruneDoes, Frames DEF RunMoves
<1> QED
  BY <1>1, <1>2 DEF RunsWhole

\* A step of the only sweep's executions keeps both: a run is rewritten only while it is
\* not done, and what a copy is of is not rewritten.
LEMMA ExecWhole ==
  ASSUME IInv, [Next]_vars, ~overlap, NEW w \in Workers, NEW i \in Runs, ExecStep(w, i)
  PROVE  /\ RunsWhole'
         /\ \A v \in Workers : \A j \in Runs : WholeOK(v, j)'
<1>0. /\ RunsWhole /\ \A j \in Runs : WholeOK(w, j)
      /\ Does(w, i) /\ sweep[w] # NoSweep
  BY ExecDoes, NoSweepIs DEF IInv, WholeInv, ExecInv, ExecOK
<1>1. /\ \A j \in Runs \ {i} : run'[j] = run[j] /\ exec'[w][j] = exec[w][j]
      /\ \A v \in Workers \ {w} : \A j \in Runs : exec'[v][j] = NoExec
  BY <1>0, Alone DEF Does, OneRun, OneExec
<1>2. \/ Opened(w, i) \/ Answered(w, i) \/ Cleared(w, i) \/ Inserted(w, i) \/ Copied(w, i)
      \/ Finished(w, i) \/ Settles(w, i) \/ Failed(w, i)
  BY LoadDoes, CompleteDoes, DeleteDoes, InsertDoes, CopyDoes, FlipDoes, SettleDoes, FailureDoes
     DEF ExecStep
<1>3. WholeOK(w, i)
  BY <1>0
\* The run itself.
<1>4. run'[i].status = "done" => Covers(run'[i].results, run'[i].fp)
  <2>1. CASE Opened(w, i) \/ Answered(w, i) \/ Settles(w, i)
    BY <1>0, <2>1 DEF Opened, Answered, Settles, RunsWhole
  <2>2. CASE Cleared(w, i) \/ Inserted(w, i) \/ Copied(w, i) \/ Failed(w, i)
    BY <1>3, <2>2 DEF WholeOK, Cleared, Inserted, Copied, Failed
  <2>3. CASE Finished(w, i)
    <3>1. Covers(run[i].results \cup {}, Fingerprint(exec[w][i].rules))
      BY <1>3, <2>3 DEF WholeOK, Finished
    <3>2. run[i].results \cup {} = run[i].results
      OBVIOUS
    <3> QED
      BY <2>3, <3>1, <3>2 DEF Finished
  <2> QED
    BY <1>2, <2>1, <2>2, <2>3
\* What is copied from it.
<1>5. ASSUME exec[w][i].pc \in {"idle", "settle", "fail"}
      PROVE  run'[i].results = run[i].results /\ exec'[w][i].pc \in {"idle", "settle", "fail"}
  BY <1>2, <1>5 DEF Opened, Answered, Cleared, Inserted, Copied, Finished, Settles, Failed
<1>6. ASSUME NEW j \in Runs \ {i} PROVE WholeOK(w, j)'
  <2>1. PICK f : f = exec[w][j].from
    OBVIOUS
  <2>2. ASSUME exec[w][j].pc \in {"copy", "copied"}
        PROVE  /\ run'[f].results = run[f].results
               /\ exec[w][f].pc \in {"idle", "settle", "fail"} =>
                     exec'[w][f].pc \in {"idle", "settle", "fail"}
    <3>1. f \in Runs /\ exec[w][f].pc \in {"idle", "settle", "fail"}
      BY <1>0, <2>1, <2>2 DEF WholeOK, IInv, ExecInv, ExecOK
    <3> QED
      BY <1>1, <1>5, <3>1
  <2>3. WholeOK(w, j) /\ exec'[w][j] = exec[w][j] /\ run'[j] = run[j]
    BY <1>0, <1>1
  <2> QED
    BY <2>1, <2>2, <2>3, WholeStays
\* The execution itself.
<1>7. WholeOK(w, i)'
  <2>1. CASE Opened(w, i)
    <3>1. run'[i].status # "done"
      BY <1>3, <2>1 DEF Opened, WholeOK
    <3>2. PICK e : e = exec'[w][i]
      OBVIOUS
    <3>3. ASSUME e.pc = "copy"
          PROVE  /\ Covers(run'[e.from].results, Fingerprint(e.rules))
                 /\ exec'[w][e.from].pc \in {"idle", "settle", "fail"}
      <4>1. PICK j \in Runs \ {i} : /\ j = e.from /\ run[j].status = "done"
                                    /\ run[j].fp = Fingerprint(e.rules)
        BY <2>1, <3>2, <3>3 DEF Opened
      <4>2. Covers(run[j].results, Fingerprint(e.rules))
        BY <1>0, <4>1 DEF RunsWhole
      <4>3. exec[w][j].pc \in {"idle", "settle", "fail"}
        BY <1>0, <4>1 DEF WholeOK
      <4> QED
        BY <1>1, <4>1, <4>2, <4>3
    <3>4. e.pc \in {"unreachable", "call", "copy"}
      BY <2>1, <3>2 DEF Opened
    <3> QED
      BY <3>1, <3>2, <3>3, <3>4 DEF WholeOK
  <2>2. CASE Answered(w, i)
    <3>1. run'[i].status # "done"
      BY <1>3, <2>2 DEF Answered, WholeOK
    <3> QED
      BY <2>2, <3>1 DEF Answered, WholeOK
  <2>3. CASE Cleared(w, i)
    <3>1. run'[i].status # "done"
      BY <1>3, <2>3 DEF Cleared, WholeOK
    <3>2. CASE exec[w][i].pc = "delete"
      <4>1. exec'[w][i].pc = "insert" /\ Covers(exec[w][i].left, Fingerprint(exec[w][i].rules))
        BY <1>3, <2>3, <3>2 DEF Cleared, WholeOK
      <4>2. Covers(run'[i].results \cup exec'[w][i].left, Fingerprint(exec'[w][i].rules))
        BY <2>3, <4>1 DEF Cleared, Covers
      <4> QED
        BY <3>1, <4>1, <4>2 DEF WholeOK
    <3>3. CASE exec[w][i].pc = "copy"
      <4>1. PICK f : f = exec[w][i].from
        OBVIOUS
      <4>2. f \in Runs /\ exec[w][f].pc \in {"idle", "settle", "fail"}
            /\ Covers(run[f].results, Fingerprint(exec[w][i].rules))
        BY <1>3, <3>3, <4>1 DEF WholeOK, IInv, ExecInv, ExecOK
      <4>3. f # i
        BY <3>3, <4>2
      <4>4. run'[f] = run[f] /\ exec'[w][f] = exec[w][f]
        BY <1>1, <4>2, <4>3
      <4>5. exec'[w][i].pc = "copied" /\ exec'[w][i].from = f
            /\ exec'[w][i].rules = exec[w][i].rules
        BY <2>3, <3>3, <4>1 DEF Cleared
      <4>6. PICK e : e = exec'[w][i]
        OBVIOUS
      <4> QED
        BY <3>1, <4>2, <4>4, <4>5, <4>6 DEF WholeOK
    <3> QED
      BY <2>3, <3>2, <3>3 DEF Cleared
  <2>4. CASE Inserted(w, i)
    <3>1. /\ run[i].status # "done"
          /\ Covers(run[i].results \cup exec[w][i].left, Fingerprint(exec[w][i].rules))
      BY <1>3, <2>4 DEF Inserted, WholeOK
    <3>2. run'[i].status # "done" /\ exec'[w][i].pc \in {"fail", "insert"}
      BY <2>4, <3>1 DEF Inserted
    <3>3. exec'[w][i].pc = "insert" =>
            Covers(run'[i].results \cup exec'[w][i].left, Fingerprint(exec'[w][i].rules))
      BY <2>4, <3>1 DEF Inserted
    <3> QED
      BY <3>2, <3>3 DEF WholeOK
  <2>5. CASE Copied(w, i)
    <3>1. run'[i].status # "done" /\ exec'[w][i].pc \in {"idle", "insert"}
      BY <1>3, <2>5 DEF Copied, WholeOK
    <3>2. Covers(run[exec[w][i].from].results, Fingerprint(exec[w][i].rules))
      BY <1>3, <2>5 DEF Copied, WholeOK
    <3>3. exec'[w][i].pc = "insert" =>
            Covers(run'[i].results \cup exec'[w][i].left, Fingerprint(exec'[w][i].rules))
      BY <2>5, <3>2 DEF Copied, Covers
    <3> QED
      BY <3>1, <3>3 DEF WholeOK
  <2>6. CASE Finished(w, i) \/ Settles(w, i) \/ Failed(w, i)
    BY <2>6 DEF Finished, Settles, Failed, WholeOK
  <2> QED
    BY <1>2, <2>1, <2>2, <2>3, <2>4, <2>5, <2>6
<1>8. RunsWhole'
  BY <1>0, <1>1, <1>4 DEF RunsWhole
<1>9. ASSUME NEW v \in Workers \ {w}, NEW j \in Runs PROVE WholeOK(v, j)'
  BY <1>1, IdleWhole
<1> QED
  BY <1>6, <1>7, <1>8, <1>9

LEMMA WholeKept ==
  ASSUME IInv, [Next]_vars
  PROVE  WholeInv'
<1>1. SUFFICES ASSUME ~overlap'
               PROVE  OneSweep' /\ RunsWhole' /\ \A w \in Workers : \A i \in Runs : WholeOK(w, i)'
  BY DEF WholeInv
<1>2. ~overlap /\ RunsWhole /\ \A w \in Workers : \A i \in Runs : WholeOK(w, i)
  BY <1>1, Before DEF IInv, WholeInv
<1>3. CASE exec' = exec
  BY <1>1, <1>2, <1>3, OneSweepKept, QuietWhole
<1>4. ASSUME NEW w \in Workers, NEW i \in Runs, ExecStep(w, i)
      PROVE  RunsWhole' /\ \A v \in Workers : \A j \in Runs : WholeOK(v, j)'
  BY <1>2, <1>4, ExecWhole
<1>5. ASSUME NEW w \in Workers, TakeDue(w) \/ WorkerDies(w)
      PROVE  RunsWhole' /\ \A v \in Workers : \A j \in Runs : WholeOK(v, j)'
  <2>1. run' = run
    BY <1>5, TakesDue DEF WorkerDies, dbVars
  <2>2. \A v \in Workers \ {w} : exec'[v] = exec[v]
    BY <1>5, TakesDue DEF WorkerDies, IInv, ExecInv
  <2>3. ASSUME NEW v \in Workers \ {w}, NEW j \in Runs PROVE WholeOK(v, j)'
    BY <1>2, <2>1, <2>2, WholeStays
  <2>4. ASSUME NEW j \in Runs PROVE WholeOK(w, j)'
    <3>1. CASE exec'[w][j] = NoExec
      BY <3>1, IdleWhole
    <3>2. CASE exec'[w][j] # NoExec
      <4>1. exec'[w][j] = [NoExec EXCEPT !.pc = "load"] /\ run'[j].status = "pending"
        <5>1. CASE TakeDue(w)
          BY <3>2, <5>1, TakesDue
        <5>2. CASE WorkerDies(w)
          BY <3>2, <5>2 DEF WorkerDies, IInv, ExecInv
        <5> QED
          BY <1>5, <5>1, <5>2
      <4>2. exec'[w][j].pc = "load"
        BY <4>1 DEF NoExec
      <4> QED
        BY <4>1, <4>2 DEF WholeOK
    <3> QED
      BY <3>1, <3>2
  <2> QED
    BY <1>2, <2>1, <2>3, <2>4 DEF RunsWhole
<1> QED
  BY <1>1, <1>3, <1>4, <1>5, OneSweepKept, Frames DEF ExecMoves

-----------------------------------------------------------------------------
(* The invariant holds *)

LEMMA InitIInv == Init => IInv
<1> SUFFICES ASSUME Init PROVE IInv
  OBVIOUS
<1>1. /\ rule \in [Rules -> [rev : {1}, state : {"enforced"}]]
      /\ aiOn = TRUE /\ state = "open" /\ payload \in [1..1 -> Contents]
      /\ run = [i \in Runs |-> NoRun] /\ link = <<>> /\ leader \in Workers
      /\ sweep = [w \in Workers |-> NoSweep]
      /\ exec = [w \in Workers |-> [i \in Runs |-> NoExec]]
      /\ gate = NoGate /\ rerun = NoRerun /\ events = 0 /\ faults = 0
      /\ overlap = FALSE /\ passed = {}
  BY DEF Init
<1>2. WebInv
  <2>1. payload \in Seq(Contents) /\ Latest = 1
    <3>1. PICK c : c = payload[1]
      OBVIOUS
    <3>2. payload = <<c>> /\ c \in Contents
      BY <1>1, <3>1
    <3> QED
      BY <3>2 DEF Latest
  <2> QED
    BY <1>1, <2>1, Numbers DEF WebInv, States
<1>3. RunInv
  BY <1>1, NoRunIs DEF RunInv, Found
<1>4. LinkInv
  <2>1. <<>> \in Seq(LinkRow) /\ Len(<<>>) = 0
    OBVIOUS
  <2> QED
    BY <1>1, <2>1 DEF LinkInv
<1>5. SweepInv
  BY <1>1, NoSweepIs DEF SweepInv, SweepOK
<1>6. RerunInv
  BY <1>1, Numbers DEF RerunInv, NoRerun, RerunRow, None
<1>7. ExecInv
  BY <1>1, NoExecIs DEF ExecInv, ExecOK, Found
<1>8. GateInv
  BY <1>1, Numbers DEF GateInv, NoGate, GateRow, None, Found, GateOnVerdict
<1>9. TriesInv
  <2>1. ASSUME NEW i \in Runs PROVE TriesOK(i)
    <3>1. Executors(i) = {} /\ run[i].attempts = 0 /\ run[i].status = "none"
      BY <1>1, NoRunIs DEF Executors
    <3>2. Cardinality(Executors(i)) = 0
      BY <3>1, FS_EmptySet
    <3>3. 0 + 0 <= MaxAttempts - 1 + Cardinality(Workers)
      BY Numbers
    <3> QED
      BY <3>1, <3>2, <3>3 DEF TriesOK
  <2> QED
    BY <2>1 DEF TriesInv
<1>10. WholeInv
  BY <1>1, NoRunIs, NoExecIs DEF WholeInv, OneSweep, RunsWhole, WholeOK
<1> QED
  BY <1>2, <1>3, <1>4, <1>5, <1>6, <1>7, <1>8, <1>9, <1>10 DEF IInv

LEMMA NextIInv == IInv /\ [Next]_vars => IInv'
<1> SUFFICES ASSUME IInv, [Next]_vars PROVE IInv'
  OBVIOUS
<1> QED
  BY WebKept, RunKept, LinkKept, SweepKept, RerunKept, ExecKept, GateKept, TriesKept, WholeKept
     DEF IInv

LEMMA IInvHolds == Spec => []IInv
BY InitIInv, NextIInv, PTL DEF Spec

-----------------------------------------------------------------------------
(* The theorems *)

\* Rows, sweeps and accepts are what the code writes, and a run is not tried more often
\* than its attempts allow, those already at it when it is given up included
\* (recordPrereviewFailure).
THEOREM PrereviewTypeCorrect == Spec => []TypeOK
<1>1. ASSUME IInv PROVE TypeOK
  <2>1. /\ rule \in [Rules -> [rev : 1..(MaxEvents + 1), state : States]]
        /\ Latest \in 1..(MaxEvents + 1)
    <3>1. events \in 0..MaxEvents /\ Latest \in 1..(events + 1)
          /\ rule \in [Rules -> [rev : Nat, state : States]]
          /\ \A r \in Rules : rule[r].rev \in 1..(events + 1)
      BY <1>1 DEF IInv, WebInv
    <3>2. \A r \in Rules : rule[r].rev \in 1..(MaxEvents + 1) /\ rule[r].state \in States
                           /\ rule[r] \in [rev : Nat, state : States]
      BY <3>1, Numbers
    <3>3. \A r \in Rules : rule[r] \in [rev : 1..(MaxEvents + 1), state : States]
      BY <3>2
    <3> QED
      BY <3>1, <3>3, Numbers
  <2>2. ASSUME NEW i \in Runs
        PROVE  /\ run[i] \in RunRow
               /\ run[i].attempts \in 0..(MaxAttempts - 1 + Cardinality(Workers))
               /\ run[i].status = "pending" => run[i].attempts < MaxAttempts
    <3>1. run[i] \in RunRow /\ run[i].attempts \in Nat /\ TriesOK(i)
      BY <1>1 DEF IInv, RunInv, RunRow, TriesInv
    <3>2. Cardinality(Executors(i)) \in Nat
      BY SomeWorkers DEF Executors
    <3> QED
      BY <3>1, <3>2, Numbers DEF TriesOK
  <2>3. ASSUME NEW w \in Workers PROVE sweep[w].run \in 0..MaxRuns /\ sweep[w].fp \subseteq Pairs
    BY <1>1 DEF IInv, SweepInv, SweepRow
  <2>4. DOMAIN run = Runs /\ link \in Seq(LinkRow) /\ payload \in Seq(Contents)
    BY <1>1 DEF IInv, RunInv, LinkInv, WebInv
  <2>5. ASSUME NEW i \in Runs
        PROVE  /\ run[i].status \in {"none", "pending", "done", "failed", "pruned"}
               /\ run[i].content \in Contents \cup {None} /\ run[i].digested \in BOOLEAN
               /\ run[i].fp \subseteq Pairs /\ run[i].results \subseteq Results
               /\ run[i].trigger \in {"none", "auto", "policy", "rerun"}
               /\ run[i].wait \in BOOLEAN
    BY <2>2 DEF RunRow
  <2> QED
    BY <1>1, <2>1, <2>2, <2>3, <2>4, <2>5 DEF TypeOK, IInv, WebInv, LinkRow, States
<1> QED
  BY <1>1, IInvHolds, PTL

\* Whatever is retried, copied, reused, pruned or rewritten beside it: an accept that
\* needed no override was of bytes found to comply with every rule that was enforced, in
\* the wording the accept read (proposals.ts evaluateProposalPolicyGate).
THEOREM AcceptedOnVerdict == Spec => []GateOnVerdict
<1>1. IInv => GateOnVerdict
  BY DEF IInv, GateInv
<1> QED
  BY <1>1, IInvHolds, PTL

\* A run that is done has all its results, though none of the statements that make it so
\* share a transaction, unless two sweeps overlapped
\* (ai-prereview-db.ts recordPrereviewSuccess).
THEOREM DoneIsWhole == Spec => []DoneIsWholeUnlessOverlap
<1>1. IInv => DoneIsWholeUnlessOverlap
  BY DEF IInv, WholeInv, RunsWhole, DoneIsWholeUnlessOverlap
<1> QED
  BY <1>1, IInvHolds, PTL
=============================================================================
