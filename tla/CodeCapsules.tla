---------------------------- MODULE CodeCapsules ----------------------------
(***************************************************************************)
(* CapsuleRegistry (crates/code-capsule): code admitted as a candidate of  *)
(* the evolution workshop, promoted there, activated as a version of its   *)
(* name, executed within its declared grants, dependencies and budget.     *)
(* An envelope that does not validate is refused at once.                  *)
(***************************************************************************)
EXTENDS Delegation

-----------------------------------------------------------------------------
(***************************************************************************)
(* EvolutionWorkshop (crates/evolution): candidates walk from proposal to  *)
(* promotion through quarantine, evaluation and review.  A candidate is    *)
(* named by its kind and payload, so what was proposed before, whatever    *)
(* became of it, is the same candidate when it is proposed again.          *)
(***************************************************************************)
CONSTANTS Candidates

States == {"absent", "Proposed", "Quarantined", "Passed", "NotPassed",
           "Promoted", "Rejected", "Revoked"}

VARIABLES
    state,          \* Candidates -> CandidateState
    evaluations,    \* Candidates -> the last verdict: "none", "passed", "failed"
    promotions,     \* candidates with a promotion record: the active ones
    revoked,        \* revoked_ids
    reviewed        \* candidates promoted on a passing evaluation (history)

workshop == <<state, evaluations, promotions, revoked, reviewed>>

WorkshopInit ==
    /\ state = [c \in Candidates |-> "absent"]
    /\ evaluations = [c \in Candidates |-> "none"]
    /\ promotions = {} /\ revoked = {} /\ reviewed = {}

\* propose: the candidate is replaced, whatever its state.
Propose(c) ==
    /\ state' = [state EXCEPT ![c] = "Proposed"]
    /\ UNCHANGED <<evaluations, promotions, revoked, reviewed>>

Quarantine(c) ==
    /\ state[c] = "Proposed"
    /\ state' = [state EXCEPT ![c] = "Quarantined"]
    /\ UNCHANGED <<evaluations, promotions, revoked, reviewed>>

\* The effect of a verdict, from either state a call may find.
Judged(c, passed) ==
    /\ state' = [state EXCEPT ![c] = IF passed THEN "Passed" ELSE "NotPassed"]
    /\ evaluations' = [evaluations EXCEPT ![c] = IF passed THEN "passed" ELSE "failed"]
    /\ UNCHANGED <<promotions, revoked, reviewed>>

Evaluate(c, passed) == state[c] = "Quarantined" /\ Judged(c, passed)

\* Mutant: an evaluation is enough, whatever it says.
PromoteEvaluated(c) ==
    /\ state[c] \in {"Passed", "NotPassed"}
    /\ state' = [state EXCEPT ![c] = "Promoted"]
    /\ promotions' = promotions \cup {c}
    /\ reviewed' = IF evaluations[c] = "passed" THEN reviewed \cup {c} ELSE reviewed
    /\ UNCHANGED <<evaluations, revoked>>

\* promote: under a review authority.
Promote(c) ==
    /\ state[c] = "Passed"
    /\ state' = [state EXCEPT ![c] = "Promoted"]
    /\ promotions' = promotions \cup {c}
    /\ reviewed' = IF evaluations[c] = "passed" THEN reviewed \cup {c} ELSE reviewed
    /\ UNCHANGED <<evaluations, revoked>>

\* reject: also what was promoted; its promotion record stays.
Reject(c) ==
    /\ state[c] \notin {"absent", "Rejected", "Revoked"}
    /\ state' = [state EXCEPT ![c] = "Rejected"]
    /\ UNCHANGED <<evaluations, promotions, revoked, reviewed>>

\* Mutant: the promotion record stays.
RevokeState(c) ==
    /\ state[c] = "Promoted"
    /\ state' = [state EXCEPT ![c] = "Revoked"]
    /\ revoked' = revoked \cup {c}
    /\ UNCHANGED <<evaluations, promotions, reviewed>>

Revoke(c) ==
    /\ state[c] = "Promoted"
    /\ state' = [state EXCEPT ![c] = "Revoked"]
    /\ promotions' = promotions \ {c}
    /\ revoked' = revoked \cup {c}
    /\ UNCHANGED <<evaluations, reviewed>>

WorkshopNext ==
    \E c \in Candidates :
        \/ Propose(c) \/ Quarantine(c) \/ Promote(c) \/ Reject(c) \/ Revoke(c)
        \/ \E passed \in BOOLEAN : Evaluate(c, passed)

WorkshopSpec == WorkshopInit /\ [][WorkshopNext]_workshop

-----------------------------------------------------------------------------

WorkshopTypeOK ==
    /\ state \in [Candidates -> States]
    /\ evaluations \in [Candidates -> {"none", "passed", "failed"}]
    /\ promotions \subseteq Candidates
    /\ revoked \subseteq Candidates /\ reviewed \subseteq Candidates

\* promote and revoke: nothing is active that no passing evaluation and no
\* review let in, what is revoked is not active, and a promoted candidate's
\* last evaluation passed.
ActiveWasReviewed ==
    /\ promotions \subseteq reviewed
    /\ \A c \in Candidates :
        /\ state[c] = "Promoted" => c \in promotions /\ evaluations[c] = "passed"
        /\ state[c] = "Revoked" => c \notin promotions

\* active(): "Active (promoted, non-revoked) candidates".
ActiveIsPromoted == \A c \in promotions : state[c] = "Promoted"

-----------------------------------------------------------------------------
(* The registry of code capsules.                                          *)

CONSTANTS
    Names,
    CapsuleName,    \* Candidates -> its name
    CapsuleGrants,  \* Candidates -> the grants it declares
    FullBudget,     \* the budget of a capsule at admission: u64::MAX
    MaxPromotions   \* bound: the history of a name

CapsuleAssumption ==
    /\ CapsuleName \in [Candidates -> Names]
    /\ DOMAIN CapsuleGrants = Candidates
    /\ FullBudget \in Nat \ {0} /\ MaxPromotions \in Nat
    /\ \A c \in Candidates : c # "none"

VARIABLES
    budget,         \* Candidates -> budget_remaining_ms, of the admitted ones
    history,        \* Names -> versions promoted, oldest first
    active          \* Names -> the version in use

vars == <<workshop, budget, history, active>>

Init ==
    /\ WorkshopInit
    /\ budget = [c \in Candidates |-> 0]
    /\ history = [n \in Names |-> <<>>]
    /\ active = [n \in Names |-> "none"]

VersionsOf(c) == history[CapsuleName[c]]

\* admit: no wider than the version promoted last; the budget is full again.
Admit(c) ==
    /\ VersionsOf(c) # <<>> =>
        Attenuates(CapsuleGrants[c], CapsuleGrants[VersionsOf(c)[Len(VersionsOf(c))]])
    /\ Propose(c)
    /\ budget' = [budget EXCEPT ![c] = FullBudget]
    /\ UNCHANGED <<history, active>>

\* evaluate: quarantine and evaluate at once.
EvaluateCapsule(c, passed) ==
    /\ state[c] = "Proposed" /\ Judged(c, passed)
    /\ UNCHANGED <<budget, history, active>>

PromoteCapsule(c) ==
    /\ Len(VersionsOf(c)) < MaxPromotions
    /\ Promote(c)
    /\ history' = [history EXCEPT ![CapsuleName[c]] = Append(@, c)]
    /\ active' = [active EXCEPT ![CapsuleName[c]] = c]
    /\ UNCHANGED budget

\* authorize_execution, of requested grants and dependencies it declares.
Authorizes(c) == state[c] = "Promoted" /\ budget[c] > 0

\* consume_budget saturates at zero.
ConsumeBudget(c, ms) ==
    /\ budget' = [budget EXCEPT ![c] = IF @ > ms THEN @ - ms ELSE 0]
    /\ UNCHANGED <<workshop, history, active>>

\* Mutant: any capsule will do.
RollbackAnywhere(n, c) ==
    /\ history[n] # <<>>
    /\ active' = [active EXCEPT ![n] = c]
    /\ UNCHANGED <<workshop, budget, history>>

Rollback(n, c) ==
    /\ \E i \in DOMAIN history[n] : history[n][i] = c
    /\ active' = [active EXCEPT ![n] = c]
    /\ UNCHANGED <<workshop, budget, history>>

Next ==
    \/ \E c \in Candidates :
        \/ Admit(c) \/ PromoteCapsule(c)
        \/ \E passed \in BOOLEAN : EvaluateCapsule(c, passed)
        \/ \E ms \in 1..FullBudget : ConsumeBudget(c, ms)
    \/ \E n \in Names, c \in Candidates : Rollback(n, c)

Spec == Init /\ [][Next]_vars

-----------------------------------------------------------------------------

TypeOK ==
    /\ WorkshopTypeOK
    /\ budget \in [Candidates -> 0..FullBudget]
    /\ history \in [Names -> Seq(Candidates)]
    /\ active \in [Names -> Candidates \cup {"none"}]

\* promote and rollback: the version in use is one of its name that passed its
\* evaluation and was promoted, and so is whatever may execute.
ActiveWasPromoted ==
    /\ \A n \in Names :
        /\ \A i \in DOMAIN history[n] :
            CapsuleName[history[n][i]] = n /\ history[n][i] \in reviewed
        /\ active[n] # "none" => \E i \in DOMAIN history[n] : history[n][i] = active[n]
        /\ history[n] # <<>> => active[n] # "none"
    /\ \A c \in Candidates :
        Authorizes(c) => c \in reviewed /\ evaluations[c] = "passed"

\* "versions never widen authority": each is within the one promoted before.
VersionsNarrow ==
    \A n \in Names : \A i \in 2..Len(history[n]) :
        Attenuates(CapsuleGrants[history[n][i]], CapsuleGrants[history[n][i - 1]])
=============================================================================
