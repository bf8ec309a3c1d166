------------------------------- MODULE Ledger -------------------------------
(***************************************************************************)
(* What the drift check promises, without files or walks: a ledger that    *)
(* scans keep together, of what is accepted and of what the user was told. *)
(* Items are components with the digest of their content.                  *)
(***************************************************************************)
EXTENDS Naturals

CONSTANTS Scans, Nothing, Lost

VARIABLES
    accepted,   \* the accepted items, Nothing, or Lost
    shown,      \* items the user was told of
    owed,       \* owed[s]: items s accepted and has yet to tell of
    unseen,     \* items accepted by scans that never told
    early       \* scans that found nothing accepted when they looked

ledger == <<accepted, shown, owed, unseen, early>>

Known == shown \cup unseen \cup UNION {owed[s] : s \in Scans}

Init ==
    /\ accepted = Nothing /\ shown = {} /\ unseen = {} /\ early = {}
    /\ owed = [s \in Scans |-> {}]

\* Scan s takes more upon itself to tell; it stands for nothing else.
Owes(s) == owed' = [owed EXCEPT ![s] = owed'[s]] /\ owed[s] \subseteq owed'[s]
Records == accepted' \notin {Nothing, Lost}

Look(s) ==
    /\ accepted = Nothing
    /\ early' = early \cup {s}
    /\ UNCHANGED <<accepted, shown, owed, unseen>>

\* Only a scan that looked before anything was accepted may accept whatever it
\* found.  Two of them may overlap, and the later one wins.
AcceptFirst(s) ==
    /\ s \in early /\ early' = early \ {s}
    /\ Records /\ Owes(s) /\ accepted' \subseteq owed'[s]
    /\ UNCHANGED <<shown, unseen>>

\* Or it fails to accept anything.
Pass(s) == early' = early \ {s} /\ UNCHANGED <<accepted, shown, owed, unseen>>

\* Every other scan adds to what is known only what it is about to tell.
AcceptAhead(s) ==
    /\ accepted # Nothing
    /\ Records /\ Owes(s) /\ accepted' \subseteq Known \cup owed'[s]
    /\ UNCHANGED <<shown, unseen, early>>

\* A yes at the prompt accepts nothing that is not known.
AcceptKnown ==
    /\ accepted # Nothing
    /\ Records /\ accepted' \subseteq Known
    /\ UNCHANGED <<shown, owed, unseen, early>>

\* A scan tells what it owes, and more, or it ends without a word.
Show(s) ==
    /\ shown \cup owed[s] \subseteq shown'
    /\ owed' = [owed EXCEPT ![s] = {}]
    /\ UNCHANGED <<accepted, unseen, early>>
Fail(s) ==
    /\ unseen' = unseen \cup owed[s]
    /\ owed' = [owed EXCEPT ![s] = {}]
    /\ early' = early \ {s}
    /\ UNCHANGED <<accepted, shown>>

\* The record of what is accepted is damaged.
Damage ==
    /\ accepted # Nothing /\ accepted' = Lost
    /\ UNCHANGED <<shown, owed, unseen, early>>

Next ==
    \/ \E s \in Scans :
          Look(s) \/ AcceptFirst(s) \/ Pass(s) \/ AcceptAhead(s) \/ Show(s) \/ Fail(s)
    \/ AcceptKnown \/ Damage

Spec == Init /\ [][Next]_ledger
=============================================================================
