---------------------------- MODULE AuditedEffects ----------------------------
(***************************************************************************)
(* What "audit before effect" promises of governed effects, whoever runs   *)
(* them and whatever fails: an effect is performed only when it is both    *)
(* authorised and announced, in whichever order these are recorded, under  *)
(* the announcement that names it, and settled only after it was performed.*)
(***************************************************************************)
EXTENDS Naturals, Sequences

CONSTANTS
    Ids,      \* identities of announcements
    Effects   \* what can be performed

VARIABLES
    authorized,  \* pairs of Ids \X Effects that were allowed
    announced,   \* pairs of Ids \X Effects: the intents
    performed,   \* the effects performed, oldest first: [id, effect]
    settled      \* Ids whose effect is recorded as completed

vars == <<authorized, announced, performed, settled>>

Init ==
    /\ authorized = {}
    /\ announced = {}
    /\ performed = <<>>
    /\ settled = {}

\* What is allowed of an identity may leave its effect open.
Authorize(i, some) ==
    /\ authorized' = authorized \cup ({i} \X some)
    /\ UNCHANGED <<announced, performed, settled>>

\* An identity announces one effect, once.
Announce(i, e) ==
    /\ \A f \in Effects : <<i, f>> \notin announced
    /\ announced' = announced \cup {<<i, e>>}
    /\ UNCHANGED <<authorized, performed, settled>>

Perform(i, e) ==
    /\ <<i, e>> \in authorized
    /\ <<i, e>> \in announced
    /\ performed' = Append(performed, [id |-> i, effect |-> e])
    /\ UNCHANGED <<authorized, announced, settled>>

Settle(i) ==
    /\ \E n \in 1..Len(performed) : performed[n].id = i
    /\ settled' = settled \cup {i}
    /\ UNCHANGED <<authorized, announced, performed>>

Next ==
    \E i \in Ids :
        \/ \E some \in SUBSET Effects : Authorize(i, some)
        \/ \E e \in Effects : Announce(i, e) \/ Perform(i, e)
        \/ Settle(i)

Spec == Init /\ [][Next]_vars
=============================================================================
