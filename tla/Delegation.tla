----------------------------- MODULE Delegation -----------------------------
(***************************************************************************)
(* Attenuated delegation (crates/orchestrator/src/delegation.rs): what a   *)
(* grant selects, when one grant is within another, and the delegation a   *)
(* parent issues.  A resource is its path, a sequence of segments:         *)
(* falls_within compares with "parent/" appended, so whole segments.       *)
(***************************************************************************)
EXTENDS Naturals, Sequences

Selectors(Resources) == [match : {"exact", "prefix"}, resource : Resources]

GrantsOver(Actions, Resources) == [action : Actions, selector : Selectors(Resources)]

FallsWithin(child, parent) ==
    /\ Len(parent) <= Len(child)
    /\ \A i \in 1..Len(parent) : child[i] = parent[i]

\* Mutant: of an exact parent too, whatever falls under it is within.
SelectorWithinUnder(child, parent) == FallsWithin(child.resource, parent.resource)

SelectorWithin(child, parent) ==
    \/ parent.match = "prefix" /\ FallsWithin(child.resource, parent.resource)
    \/ parent.match = "exact" /\ child.match = "exact" /\ child.resource = parent.resource

SelectorCovers(selector, resource) ==
    \/ selector.match = "exact" /\ selector.resource = resource
    \/ selector.match = "prefix" /\ FallsWithin(resource, selector.resource)

Within(child, parent) ==
    child.action = parent.action /\ SelectorWithin(child.selector, parent.selector)

Covers(grant, action, resource) ==
    grant.action = action /\ SelectorCovers(grant.selector, resource)

Attenuates(grants, parents) == \A g \in grants : \E p \in parents : Within(g, p)

MAX_RETRIES == 3

\* delegate: an empty budget or a wider grant issues nothing.
Delegable(parents, requested, budget) == budget > 0 /\ Attenuates(requested, parents)

\* The identifier is a digest of task and subagent: of no attempt.
DelegationOf(task, subagent, requested, retries) ==
    [id |-> <<task, subagent>>, subagent |-> subagent, grants |-> requested,
     retries |-> retries]
=============================================================================
