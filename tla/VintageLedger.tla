--------------------------- MODULE VintageLedger ---------------------------
(***************************************************************************)
(* What every point-in-time evidence table of the platform promises, free  *)
(* of sessions, locks and reads: a growing set of revisions per subject,   *)
(* each appended behind the last one of its subject, never before it in    *)
(* time, and never a repeat of what the subject's last revision said.      *)
(*                                                                         *)
(* The recorders (news items, structured forecasts, ...) are refined to    *)
(* this module by projecting their rows onto entries.                      *)
(***************************************************************************)
EXTENDS Naturals

CONSTANTS Subject,      \* what a history is kept about (an item, a claim)
          Revision,     \* revision numbers, a subset of Nat
          Time,         \* availability instants, a subset of Nat
          Payload       \* the modelled facts of a revision

VARIABLE ledger         \* the committed entries

\* What the instances choose for the numbers.
Numbered == Revision \subseteq Nat /\ Time \subseteq Nat

Entry == [subject : Subject, revision : Revision,
          availability : Time, payload : Payload]

HistoryOf(s) == {e \in ledger : e.subject = s}

Init == ledger = {}

\* e is the next revision of its subject: behind every other in number, not
\* before any in time, and saying something its predecessor does not.
Follows(e) ==
    /\ \A o \in HistoryOf(e.subject) :
          o.revision < e.revision /\ o.availability <= e.availability
    /\ \/ e.revision = 0
       \/ \E o \in HistoryOf(e.subject) :
             o.revision + 1 = e.revision /\ o.payload # e.payload

Append(e) == Follows(e) /\ ledger' = ledger \cup {e}

Next == \E e \in Entry : Append(e)

Spec == Init /\ [][Next]_ledger

-----------------------------------------------------------------------------
(* What a reader relies on.                                                *)

Visible(s, t) == {e \in HistoryOf(s) : e.availability <= t}

\* The answer to "what was known about s at t": latest by availability, ties
\* broken by revision number.
IsAnswer(e, s, t) ==
    /\ e \in Visible(s, t)
    /\ \A o \in Visible(s, t) :
          \/ o.availability < e.availability
          \/ o.availability = e.availability /\ o.revision <= e.revision

\* The highest visible revision is the answer: numbering and time agree, so
\* a reader may use either.
NumberingAgreesWithTime ==
    \A s \in Subject, t \in Time : \A e \in Visible(s, t) :
       IsAnswer(e, s, t) <=> \A o \in Visible(s, t) : o.revision <= e.revision

\* Once a subject has an entry later than t, what is visible of it at t is
\* settled: appends only ever add knowledge at the end.
PastIsSettled ==
    [][\A s \in Subject, t \in Time :
         (\E e \in HistoryOf(s) : e.availability > t)
            => Visible(s, t)' = Visible(s, t)]_ledger
=============================================================================
