-------------------------- MODULE GoalOrchestrator --------------------------
(***************************************************************************)
(* GoalOrchestrator (crates/orchestrator): the tasks of one goal, ordered  *)
(* by their dependencies, delegated to subagents with attenuated grants,   *)
(* completed only by a report the judge verifies.  A report may come late, *)
(* twice, from the wrong subagent, or for another delegation; calls come   *)
(* in any order.  A call that errs changes nothing, unless said.           *)
(***************************************************************************)
EXTENDS Delegation, FiniteSets

CONSTANTS
    Tasks,
    Subagents,
    ParentGrants,   \* what the goal may do
    Requests,       \* what is asked for: [grants, budget]
    Evidence,       \* reported evidence: sequences of [label, matches]
    Declared        \* Tasks -> the labels of the evidence it must show

NoDelegation == [id |-> <<>>, subagent |-> "none", grants |-> {}, retries |-> 0]

TaskStates == {"Pending", "Delegated", "Completed", "Failed", "Cancelled"}
Ended == {"Completed", "Failed", "Cancelled"}

OrchestratorAssumption ==
    /\ IsFiniteSet(Tasks)
    /\ \A s \in Subagents : s # "none"
    /\ DOMAIN Declared = Tasks

VARIABLES
    dependencies,   \* Tasks -> the tasks it waits for
    states,         \* Tasks -> its state
    delegations,    \* Tasks -> the delegation in flight
    completed,      \* tasks whose evidence was verified
    cancelled,
    rejected,       \* Tasks -> reports rejected
    exhausted       \* tasks out of budget

vars == <<dependencies, states, delegations, completed, cancelled, rejected, exhausted>>

-----------------------------------------------------------------------------
(* The graph.                                                              *)

\* Everything that waits for the task, directly or not.
Descendants(task) ==
    LET found[n \in 0..Cardinality(Tasks)] ==
            IF n = 0 THEN {}
            ELSE {t \in Tasks : dependencies[t] \cap (found[n - 1] \cup {task}) # {}}
    IN  found[Cardinality(Tasks)]

\* GoalDag::new refuses a cycle; here every dependency is a task of the goal.
Acyclic == \A t \in Tasks : t \notin Descendants(t)

\* Mutant: one completed dependency is enough.
ReadyByOne(task) ==
    /\ states[task] = "Pending" /\ task \notin cancelled
    /\ dependencies[task] = {} \/ dependencies[task] \cap completed # {}

Ready(task) ==
    /\ dependencies[task] \subseteq completed
    /\ states[task] = "Pending" /\ task \notin cancelled

-----------------------------------------------------------------------------
(* Judgment: the first reported item of each declared label must verify,   *)
(* and nothing undeclared may be reported.                                 *)

Labels(evidence) == {evidence[i].label : i \in DOMAIN evidence}

FirstOf(evidence, label) ==
    evidence[CHOOSE i \in DOMAIN evidence :
                /\ evidence[i].label = label
                /\ \A j \in DOMAIN evidence : evidence[j].label = label => i <= j]

Verifies(evidence, declared) ==
    /\ Labels(evidence) = declared
    /\ \A label \in declared : FirstOf(evidence, label).matches

Verified(report) ==
    /\ report.delegation = delegations[report.task].id
    /\ report.subagent = delegations[report.task].subagent
    /\ Verifies(report.evidence, Declared[report.task])

Reports ==
    [task : Tasks, subagent : Subagents, delegation : Tasks \X Subagents, evidence : Evidence]

-----------------------------------------------------------------------------

Init ==
    /\ dependencies \in [Tasks -> SUBSET Tasks]
    /\ Acyclic
    /\ states = [t \in Tasks |-> "Pending"]
    /\ delegations = [t \in Tasks |-> NoDelegation]
    /\ completed = {} /\ cancelled = {} /\ exhausted = {}
    /\ rejected = [t \in Tasks |-> 0]

\* delegate_task.  Its branch that fails a ready task out of retries or budget
\* is never taken: AttenuatedAtWork.
Delegate(task, subagent, request) ==
    /\ Ready(task) /\ rejected[task] < MAX_RETRIES /\ task \notin exhausted
    /\ Delegable(ParentGrants, request.grants, request.budget)
    /\ states' = [states EXCEPT ![task] = "Delegated"]
    /\ delegations' = [delegations EXCEPT ![task] =
            DelegationOf(task, subagent, request.grants, MAX_RETRIES - rejected[task])]
    /\ UNCHANGED <<dependencies, completed, cancelled, rejected, exhausted>>

InFlight(task) == states[task] = "Delegated" /\ delegations[task] # NoDelegation

\* submit_report.
Complete(report) ==
    /\ InFlight(report.task) /\ Verified(report)
    /\ states' = [states EXCEPT ![report.task] = "Completed"]
    /\ completed' = completed \cup {report.task}
    /\ delegations' = [delegations EXCEPT ![report.task] = NoDelegation]
    /\ UNCHANGED <<dependencies, cancelled, rejected, exhausted>>

Reject(report) ==
    LET used == rejected[report.task] + 1 IN
    /\ InFlight(report.task) /\ ~Verified(report)
    /\ rejected' = [rejected EXCEPT ![report.task] = used]
    /\ states' = [states EXCEPT ![report.task] =
            IF used >= MAX_RETRIES THEN "Failed" ELSE "Pending"]
    /\ delegations' = [delegations EXCEPT ![report.task] = NoDelegation]
    /\ UNCHANGED <<dependencies, completed, cancelled, exhausted>>

\* exhaust_budget: whatever the state of the task.
ExhaustBudget(task) ==
    /\ exhausted' = exhausted \cup {task}
    /\ states' = [states EXCEPT ![task] = "Failed"]
    /\ delegations' = [delegations EXCEPT ![task] = NoDelegation]
    /\ UNCHANGED <<dependencies, completed, cancelled, rejected>>

Radius(task) == Descendants(task) \cup {task}

\* Mutant: those who wait for it directly, and no further.
CancelNear(task) ==
    LET radius == {task} \cup {t \in Tasks : task \in dependencies[t]} IN
    /\ states' = [t \in Tasks |-> IF t \in radius THEN "Cancelled" ELSE states[t]]
    /\ cancelled' = cancelled \cup radius
    /\ delegations' = [t \in Tasks |-> IF t \in radius THEN NoDelegation ELSE delegations[t]]
    /\ UNCHANGED <<dependencies, completed, rejected, exhausted>>

\* Mutant: a delegation in flight is left where it is.
CancelKeeps(task) ==
    /\ states' = [t \in Tasks |-> IF t \in Radius(task) THEN "Cancelled" ELSE states[t]]
    /\ cancelled' = cancelled \cup Radius(task)
    /\ UNCHANGED <<dependencies, delegations, completed, rejected, exhausted>>

\* cancel: the task and all that wait for it, whatever their states.
Cancel(task) ==
    /\ states' = [t \in Tasks |-> IF t \in Radius(task) THEN "Cancelled" ELSE states[t]]
    /\ cancelled' = cancelled \cup Radius(task)
    /\ delegations' =
            [t \in Tasks |-> IF t \in Radius(task) THEN NoDelegation ELSE delegations[t]]
    /\ UNCHANGED <<dependencies, completed, rejected, exhausted>>

Next ==
    \/ \E t \in Tasks, s \in Subagents, r \in Requests : Delegate(t, s, r)
    \/ \E r \in Reports : Complete(r) \/ Reject(r)
    \/ \E t \in Tasks : ExhaustBudget(t) \/ Cancel(t)

Spec == Init /\ [][Next]_vars

-----------------------------------------------------------------------------

TypeOK ==
    /\ dependencies \in [Tasks -> SUBSET Tasks]
    /\ states \in [Tasks -> TaskStates]
    /\ completed \subseteq Tasks /\ cancelled \subseteq Tasks /\ exhausted \subseteq Tasks
    /\ rejected \in [Tasks -> 0..MAX_RETRIES]
    /\ DOMAIN delegations = Tasks
    /\ \A t \in Tasks : (delegations[t] # NoDelegation) <=> (states[t] = "Delegated")

\* ready: whatever was delegated or completed had all its dependencies
\* completed first, though one of them may have been failed or cancelled since.
DependenciesFirst ==
    \A t \in Tasks :
        states[t] \in {"Delegated", "Completed"} => dependencies[t] \subseteq completed

\* cancel: once a task is cancelled nothing that waits for it, however far, is
\* ever at work, or will be: a late report finds no delegation.
CancelledBranchStops ==
    \A t \in cancelled :
        /\ states[t] \in {"Cancelled", "Failed"}
        /\ Descendants(t) \subseteq cancelled

\* delegate and submit_report: a subagent at work holds no grant the goal does
\* not, and has a retry left; a task with no retry left is over.
AttenuatedAtWork ==
    \A t \in Tasks :
        /\ states[t] = "Delegated" =>
            /\ Attenuates(delegations[t].grants, ParentGrants)
            /\ delegations[t].retries \in 1..MAX_RETRIES
            /\ t \notin exhausted
        /\ states[t] = "Pending" => rejected[t] < MAX_RETRIES /\ t \notin exhausted

\* What has ended never waits or works again, and what was verified stays so.
EndedStaysEnded ==
    [][/\ \A t \in Tasks : states[t] \in Ended => states'[t] \in Ended
       /\ completed \subseteq completed']_vars
=============================================================================
