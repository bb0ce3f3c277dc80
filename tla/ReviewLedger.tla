---------------------------- MODULE ReviewLedger ----------------------------
(***************************************************************************)
(* What the review of one skill promises to proposers, reviewers and       *)
(* readers of the catalog.  A proposal is open until it is decided, its    *)
(* history of payloads only grows, and a decision closes both.  A proposal *)
(* is accepted in the very step that publishes a version: under the semver *)
(* the proposal asked for, with the last payload of its history, above     *)
(* every version there is.  Nothing else adds a version but a direct       *)
(* publish, and no version ever leaves or changes.                         *)
(***************************************************************************)
EXTENDS Naturals, Sequences

CONSTANTS Proposals, NoProposal, Payload, Semvers

VARIABLES
    status,     \* "none", "open", "accepted", "rejected" or "deleted"
    asked,      \* the semver a proposal asks for, 0 if there is none
    history,    \* the payloads of a proposal, oldest first
    catalog     \* the versions, in the order of their publication

vars == <<status, asked, history, catalog>>

Init ==
    /\ status = [p \in Proposals |-> "none"]
    /\ asked = [p \in Proposals |-> 0]
    /\ history = [p \in Proposals |-> <<>>]
    /\ catalog = <<>>

\* What the history of a proposal may be next: the same, or one payload longer.
Longer(p) == {history[p]} \cup {Append(history[p], pay) : pay \in Payload}

\* A version is added above all others.
Publishes(s, pay, p) ==
    /\ \A i \in 1..Len(catalog) : catalog[i].semver < s
    /\ catalog' = Append(catalog, [semver |-> s, payload |-> pay, from |-> p])

Opens(p, pay, s) ==
    /\ status[p] = "none"
    /\ status' = [status EXCEPT ![p] = "open"]
    /\ asked' = [asked EXCEPT ![p] = s]
    /\ history' = [history EXCEPT ![p] = <<pay>>]
    /\ UNCHANGED catalog

\* A revision, a step of the review, or a resubmission under another semver.
Continues(p, h, s) ==
    /\ status[p] = "open"
    /\ history' = [history EXCEPT ![p] = h]
    /\ asked' = [asked EXCEPT ![p] = s]
    /\ UNCHANGED <<status, catalog>>

Rejects(p, h) ==
    /\ status[p] = "open"
    /\ status' = [status EXCEPT ![p] = "rejected"]
    /\ history' = [history EXCEPT ![p] = h]
    /\ UNCHANGED <<asked, catalog>>

Accepts(p, h) ==
    /\ status[p] = "open"
    /\ status' = [status EXCEPT ![p] = "accepted"]
    /\ history' = [history EXCEPT ![p] = h]
    /\ Publishes(asked[p], h[Len(h)], p)
    /\ UNCHANGED asked

PublishesDirectly(s, pay) ==
    /\ Publishes(s, pay, NoProposal)
    /\ UNCHANGED <<status, asked, history>>

\* The proposal and its history go; the versions stay.
Deletes(p) ==
    /\ status[p] \notin {"none", "deleted"}
    /\ status' = [status EXCEPT ![p] = "deleted"]
    /\ history' = [history EXCEPT ![p] = <<>>]
    /\ UNCHANGED <<asked, catalog>>

Next ==
    \/ \E p \in Proposals :
         \/ \E pay \in Payload, s \in Semvers : Opens(p, pay, s)
         \/ \E h \in Longer(p) : \/ \E s \in Semvers : Continues(p, h, s)
                                \/ Rejects(p, h)
                                \/ Accepts(p, h)
         \/ Deletes(p)
    \/ \E s \in Semvers, pay \in Payload : PublishesDirectly(s, pay)

Spec == Init /\ [][Next]_vars

=============================================================================
