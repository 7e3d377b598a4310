------------------------- MODULE EnterpriseControl --------------------------
(***************************************************************************)
(* Enterprise control (crates/enterprise): planes and audit streams apart  *)
(* by tenant, and the break-glass grants of a realm: dual controlled,      *)
(* expiring, named by tenant, requester and millisecond.                   *)
(***************************************************************************)
EXTENDS Naturals, Sequences, FiniteSets

CONSTANTS
    Tenants,
    Keys,
    Operators,
    Windows,        \* windows asked for, in ticks
    MaxTime,        \* bound: the clock
    MaxWrites,      \* bound: writes and audit lines
    MaxGrants       \* bound: grants issued

EnterpriseAssumption ==
    Windows \subseteq Nat /\ MaxTime \in Nat /\ MaxWrites \in Nat /\ MaxGrants \in Nat

VARIABLES
    clock,
    entries,        \* <<tenant, key>> -> the write that stands there, 0 for none
    streams,        \* Tenants -> its audit lines, in order
    owners,         \* writes and lines, in order -> the tenant they are of (history)
    read,           \* what the last read answered: [caller, writes]
    grants,         \* break_glass
    issued          \* every grant issued (history)

vars == <<clock, entries, streams, owners, read, grants, issued>>

Init ==
    /\ clock = 0
    /\ entries = [k \in Tenants \X Keys |-> 0]
    /\ streams = [t \in Tenants |-> <<>>]
    /\ owners = <<>>
    /\ read \in {[caller |-> t, writes |-> {}] : t \in Tenants}
    /\ grants = {} /\ issued = {}

Tick ==
    /\ clock < MaxTime
    /\ clock' = clock + 1
    /\ UNCHANGED <<entries, streams, owners, read, grants, issued>>

\* TenantPlane::put and AuditPartition::append.
Put(t, k) ==
    /\ Len(owners) < MaxWrites
    /\ owners' = Append(owners, t)
    /\ entries' = [entries EXCEPT ![<<t, k>>] = Len(owners')]
    /\ UNCHANGED <<clock, streams, read, grants, issued>>

AppendLine(t) ==
    /\ Len(owners) < MaxWrites
    /\ owners' = Append(owners, t)
    /\ streams' = [streams EXCEPT ![t] = Append(@, Len(owners'))]
    /\ UNCHANGED <<clock, entries, read, grants, issued>>

\* TenantPlane::get; a foreign key is refused, a missing one is no write.
Get(caller, t, k) ==
    /\ caller = t
    /\ read' = [caller |-> caller, writes |-> {entries[<<t, k>>]} \ {0}]
    /\ UNCHANGED <<clock, entries, streams, owners, grants, issued>>

\* AuditPartition::read.  evidence_pack takes no caller: who has the partition
\* may have the digests of any tenant.
ReadLines(caller, t) ==
    /\ caller = t
    /\ read' = [caller |-> caller, writes |-> {streams[t][i] : i \in DOMAIN streams[t]}]
    /\ UNCHANGED <<clock, entries, streams, owners, grants, issued>>

GrantOf(requester, approver, t, window) ==
    [id |-> <<t, requester, clock>>, requested_by |-> requester, approved_by |-> approver,
     at |-> clock, expires |-> clock + window]

\* Mutant: who asks may approve.
BreakGlassAlone(requester, approver, t, window) ==
    /\ window > 0
    /\ Cardinality(issued) < MaxGrants
    /\ grants' = grants \cup {GrantOf(requester, approver, t, window)}
    /\ issued' = issued \cup {GrantOf(requester, approver, t, window)}
    /\ UNCHANGED <<clock, entries, streams, owners, read>>

\* break_glass: two in one millisecond by one requester have one name.
BreakGlass(requester, approver, t, window) ==
    /\ requester # approver /\ window > 0
    /\ Cardinality(issued) < MaxGrants
    /\ grants' = grants \cup {GrantOf(requester, approver, t, window)}
    /\ issued' = issued \cup {GrantOf(requester, approver, t, window)}
    /\ UNCHANGED <<clock, entries, streams, owners, read>>

Unexpired == {g \in grants : g.expires > clock}

\* break_glass_active and active_break_glass: both reap first.
ReapGrants ==
    /\ grants' = Unexpired
    /\ UNCHANGED <<clock, entries, streams, owners, read, issued>>

ActiveGrant(id) == \E g \in Unexpired : g.id = id

Next ==
    \/ Tick \/ ReapGrants
    \/ \E t \in Tenants :
        \/ AppendLine(t)
        \/ \E k \in Keys : Put(t, k) \/ \E c \in Tenants : Get(c, t, k)
        \/ \E c \in Tenants : ReadLines(c, t)
        \/ \E r, a \in Operators, w \in Windows : BreakGlass(r, a, t, w)

Spec == Init /\ [][Next]_vars

-----------------------------------------------------------------------------

TypeOK ==
    /\ clock \in 0..MaxTime
    /\ entries \in [Tenants \X Keys -> 0..MaxWrites]
    /\ streams \in [Tenants -> Seq(1..MaxWrites)]
    /\ owners \in Seq(Tenants)
    /\ read.caller \in Tenants /\ read.writes \subseteq 1..MaxWrites
    /\ grants \subseteq issued

\* break_glass: whatever was reaped when, a grant is active within the windows
\* two operators agreed to under its name, and in no other moment.
GlassIsDualControlled ==
    \A g \in issued :
        /\ g.requested_by # g.approved_by
        /\ ActiveGrant(g.id) <=> \E o \in issued : o.id = g.id /\ clock < o.expires

\* get and read: what a tenant was answered was written as its own, and what
\* stands under its name is its own, whoever wrote in between.
TenantsApart ==
    /\ \A w \in read.writes : owners[w] = read.caller
    /\ \A k \in DOMAIN entries : entries[k] # 0 => owners[entries[k]] = k[1]
    /\ \A t \in Tenants : \A i \in DOMAIN streams[t] : owners[streams[t][i]] = t

-----------------------------------------------------------------------------
(***************************************************************************)
(* IdentityRealm::organization_bundle (crates/enterprise): the roles of a  *)
(* claim are expanded over the role graph with an explicit stack, one pop  *)
(* at a time; the rules of what was found become a bundle.  The graph may  *)
(* have cycles, roles without a mapping, mappings without a rule, and      *)
(* rules no bundle takes.  A claim without subject or tenant is refused at *)
(* once.                                                                   *)
(***************************************************************************)

CONSTANTS
    Roles,
    Mappings,       \* what roles may be mapped to: Roles -> MappedTo
    Listings,       \* the orders in which a map lists roles
    MAX_ROLE_DEPTH

\* No mapping; or one without rules, of rules, or of rules PolicyBundle::new
\* refuses: the role's name makes no identifier, or a selector is not of its
\* action's scheme.
MappedTo == {"unmapped", "no rules", "rules", "refused rules"}

RoleAssumption ==
    /\ IsFiniteSet(Roles) /\ MAX_ROLE_DEPTH \in Nat
    /\ Mappings \subseteq [Roles -> MappedTo]
    /\ Listings \subseteq Seq(Roles)

VARIABLES
    mappings,       \* Roles -> what it is mapped to
    parents,        \* Roles -> its parents, in order: role_parents
    claim,          \* the claimed roles, in order
    sequence,       \* of the bundle asked for
    stack,          \* <<role, depth>>
    expanded,       \* mapped roles found so far
    outcome         \* "expanding", "bundle" or "InvalidMapping"

roleVars == <<mappings, parents, claim, sequence, stack, expanded, outcome>>

RoleInit ==
    /\ mappings \in Mappings /\ sequence \in {0, 1}
    /\ parents \in [Roles -> Listings]
    /\ claim \in Listings \ {<<>>}
    /\ stack = [i \in DOMAIN claim |-> <<claim[i], 0>>]
    /\ expanded = {} /\ outcome = "expanding"

Mapped == {r \in Roles : mappings[r] # "unmapped"}

Top == stack[Len(stack)]
Popped == SubSeq(stack, 1, Len(stack) - 1)

\* The roles of a listing that are not known, in order.
Open(listing, known) ==
    LET kept[n \in 0..Len(listing)] ==
            IF n = 0 THEN <<>>
            ELSE IF listing[n] \in known THEN kept[n - 1]
            ELSE Append(kept[n - 1], listing[n])
    IN  kept[Len(listing)]

\* The parents a popped role pushes: a mapped role found already is not.
Pushed(known) ==
    LET open == Open(parents[Top[1]], known)
    IN  [i \in DOMAIN open |-> <<open[i], Top[2] + 1>>]

\* Mutant: a role with a mapping inherits nothing.
ExpandUnmapped ==
    /\ outcome = "expanding" /\ stack # <<>> /\ Top[2] <= MAX_ROLE_DEPTH
    /\ expanded' = expanded \cup ({Top[1]} \cap Mapped)
    /\ stack' = Popped \o (IF Top[1] \in Mapped THEN <<>> ELSE Pushed(expanded'))
    /\ UNCHANGED <<mappings, parents, claim, sequence, outcome>>

Expand ==
    /\ outcome = "expanding" /\ stack # <<>> /\ Top[2] <= MAX_ROLE_DEPTH
    /\ expanded' = expanded \cup ({Top[1]} \cap Mapped)
    /\ stack' = Popped \o Pushed(expanded')
    /\ UNCHANGED <<mappings, parents, claim, sequence, outcome>>

TooDeep ==
    /\ outcome = "expanding" /\ stack # <<>> /\ Top[2] > MAX_ROLE_DEPTH
    /\ outcome' = "InvalidMapping"
    /\ UNCHANGED <<mappings, parents, claim, sequence, stack, expanded>>

WithRules(roles) == {r \in roles : mappings[r] \in {"rules", "refused rules"}}
Refused(roles) == {r \in roles : mappings[r] = "refused rules"}

\* The end of the loop: there is no bundle without a rule, and PolicyBundle::new
\* refuses the sequence 0 and the rules it cannot take.
Bundle ==
    /\ outcome = "expanding" /\ stack = <<>>
    /\ outcome' =
        IF WithRules(expanded) # {} /\ sequence # 0 /\ Refused(expanded) = {}
        THEN "bundle" ELSE "InvalidMapping"
    /\ UNCHANGED <<mappings, parents, claim, sequence, stack, expanded>>

RoleNext == Expand \/ TooDeep \/ Bundle

RoleSpec == RoleInit /\ [][RoleNext]_roleVars

-----------------------------------------------------------------------------

Named(q) == {q[i] : i \in DOMAIN q}

\* What roles inherit, directly or not, themselves included.
Inherited(roles) ==
    LET found[n \in 0..Cardinality(Roles)] ==
            IF n = 0 THEN roles
            ELSE found[n - 1] \cup UNION {Named(parents[r]) : r \in found[n - 1]}
    IN  found[Cardinality(Roles)]

RoleTypeOK ==
    /\ mappings \in Mappings /\ sequence \in {0, 1}
    /\ parents \in [Roles -> Listings] /\ claim \in Listings
    /\ stack \in Seq(Roles \X (0..MAX_ROLE_DEPTH + 1))
    /\ expanded \subseteq Mapped
    /\ outcome \in {"expanding", "bundle", "InvalidMapping"}

\* organization_bundle: on any graph, cycles and diamonds included, a bundle has
\* the rules of exactly the mapped roles the claim inherits, each of which a
\* bundle takes; a claim is refused only when it inherits no rule, or one that is
\* refused, for the sequence 0, or for a walk longer than the bound, which takes
\* a longer chain or a cycle of roles without a mapping.
BundleIsTheClosure ==
    /\ expanded \subseteq Inherited(Named(claim))
    /\ outcome = "bundle" =>
        /\ expanded = Inherited(Named(claim)) \cap Mapped
        /\ Refused(Inherited(Named(claim))) = {}
    /\ outcome = "InvalidMapping" =>
        \/ WithRules(Inherited(Named(claim))) = {}
        \/ Refused(Inherited(Named(claim))) # {}
        \/ sequence = 0
        \/ stack # <<>> /\ Top[2] = MAX_ROLE_DEPTH + 1

\* "InvalidMapping for ... cyclic/deep hierarchies" (lib.rs): a bundle is made
\* of a hierarchy without cycles.
CyclesRefused ==
    outcome = "bundle" =>
        \A r \in Inherited(Named(claim)) : r \notin Inherited(Named(parents[r]))
=============================================================================
