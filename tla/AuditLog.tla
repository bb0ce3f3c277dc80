------------------------------ MODULE AuditLog ------------------------------
(***************************************************************************)
(* What the audit log promises its readers: events only ever enter, behind *)
(* all that a reader may have seen, and nothing leaves but by a trim,      *)
(* which takes everything older than a cutoff at least Year in the past    *)
(* and leaves a record of itself with the number of events it removed.     *)
(***************************************************************************)
EXTENDS Naturals, FiniteSets

CONSTANT Year       \* the shortest retention, in units of the clock

VARIABLE entries    \* the audit log, as readers see it

\* Behind every entry there is.
Newest(e) == \A f \in entries : f.seq < e.seq

Init == entries = {}

\* A transaction commits its events.
Appends ==
    /\ entries \subseteq entries'
    /\ \A e \in entries' \ entries : Newest(e) /\ e.action = "event"

\* A trim commits.
Trims ==
    \E record \in entries' \ entries : \E cutoff \in 0..record.created :
        LET old == {e \in entries : e.created < cutoff}
        IN  /\ cutoff + Year <= record.created
            /\ Newest(record) /\ record.action = "trimmed"
            /\ record.count = Cardinality(old)
            /\ entries' = (entries \ old) \cup {record}

Next == Appends \/ Trims

Spec == Init /\ [][Next]_entries

=============================================================================
