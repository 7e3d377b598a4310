-------------------------- MODULE PolicySnapshots --------------------------
(***************************************************************************)
(* The policy decision point (crates/policy): one bundle of rules per      *)
(* authority tier, replaced as a whole by update, and what the snapshot in *)
(* force decides of a request.  Patterns are those of Delegation: a prefix *)
(* covers whole segments.                                                  *)
(***************************************************************************)
EXTENDS Integers, Delegation

CONSTANTS
    Tiers,
    PlatformHard,   \* the tier no snapshot is without
    Snapshots,      \* Tiers -> a bundle or NoBundle; a bundle is [sequence, rules],
                    \* a rule [id, effect, action, selector, kinds, sandbox, class, task,
                    \* approval]; kinds {}, class 0 and task "" do not bind
    Asked           \* requests: [action, resource, kind, sandboxed, class, task, secret]

\* Below every sequence there is, 0 included: PolicyBundle::new refuses 0, but
\* the fields are public, a bundle that was deserialized may have it, and the
\* engine does not look.
NoBundle == [sequence |-> -1, rules |-> {}]

\* ACTION_DESCRIPTORS: what needs a realm, a credential, an approval whatever
\* a rule says.
NeedsSandbox ==
    {"FsRead", "FsWrite", "FsDelete", "ProcessSpawn", "ProcessSignal", "NetworkHttp",
     "NetworkRaw", "NetworkListen", "SecretUse", "BrowserControl", "GitCommit", "GitPush",
     "GitForce", "CloudDeploy", "PluginInstall", "CapabilityPublish", "SelfProposeChange"}

NeedsSecret == {"SecretUse", "GitPush", "GitForce", "CloudDeploy"}

NeedsNoApproval == {"FsRead", "FsWrite", "GitCommit", "ExternalRead"}

ActionNames == NeedsSandbox \cup {"ExternalRead", "ExternalWrite"}

RulesOf(snap) == UNION {snap[t].rules : t \in Tiers}

\* PolicyEngine::new.
WellFormed(snap) ==
    /\ snap[PlatformHard] # NoBundle
    /\ \A t, u \in Tiers : \A q \in snap[t].rules, r \in snap[u].rules :
        q.id = r.id => t = u /\ q = r

SnapshotAssumption ==
    /\ PlatformHard \in Tiers
    /\ \A s \in Snapshots :
        /\ \A t \in Tiers : s[t] = NoBundle \/ s[t].sequence \in Nat
        /\ \A r \in RulesOf(s) : r.action \in ActionNames /\ r.class \in Nat
    /\ \A q \in Asked : q.class \in Nat

VARIABLES
    snapshot,       \* the one in force
    decision        \* the last one: {} or [request, approved, outcome, snapshot]

vars == <<snapshot, decision>>

ConditionMatches(r, q) ==
    /\ r.kinds = {} \/ q.kind \in r.kinds
    /\ r.sandbox => q.sandboxed
    /\ r.class = 0 \/ q.class <= r.class
    /\ r.task = "" \/ r.task = q.task

Matching(snap, q, effect) ==
    {r \in RulesOf(snap) :
        /\ r.effect = effect /\ r.action = q.action
        /\ SelectorCovers(r.selector, q.resource)
        /\ ConditionMatches(r, q)}

\* What the action itself asks for, whatever the rules.
Equipped(q) ==
    /\ q.action \in NeedsSandbox => q.sandboxed
    /\ q.action \in NeedsSecret => q.secret

NeedsApproval(snap, q) ==
    q.action \notin NeedsNoApproval \/ \E r \in Matching(snap, q, "Permit") : r.approval

\* decide, of a valid request.
Outcome(snap, q, approved) ==
    IF ~Equipped(q) \/ Matching(snap, q, "Deny") # {} \/ Matching(snap, q, "Permit") = {}
    THEN "Deny"
    ELSE IF NeedsApproval(snap, q) /\ ~approved THEN "RequireApproval" ELSE "Allow"

Init ==
    /\ snapshot \in {s \in Snapshots : WellFormed(s)}
    /\ decision = {}

\* Mutant: a sequence may come again with other rules.
UpdateSameSequence(next) ==
    /\ WellFormed(next)
    /\ \A t \in Tiers : next[t].sequence >= snapshot[t].sequence
    /\ snapshot' = next
    /\ UNCHANGED decision

\* update: no tier goes, no sequence falls, and a sequence names one bundle.
Update(next) ==
    /\ WellFormed(next)
    /\ \A t \in Tiers : snapshot[t] # NoBundle =>
        \/ next[t].sequence > snapshot[t].sequence
        \/ next[t] = snapshot[t]
    /\ snapshot' = next
    /\ UNCHANGED decision

Decide(q, approved) ==
    /\ decision' = {[request |-> q, approved |-> approved, snapshot |-> snapshot,
                     outcome |-> Outcome(snapshot, q, approved)]}
    /\ UNCHANGED snapshot

Next ==
    \/ \E s \in Snapshots : Update(s)
    \/ \E q \in Asked, approved \in BOOLEAN : Decide(q, approved)

Spec == Init /\ [][Next]_vars

-----------------------------------------------------------------------------

TypeOK ==
    /\ snapshot \in Snapshots
    /\ \A d \in decision :
        /\ d.request \in Asked /\ d.approved \in BOOLEAN /\ d.snapshot \in Snapshots
        /\ d.outcome \in {"Allow", "Deny", "RequireApproval"}

\* update and decide: a question is decided otherwise than before only after a
\* tier moved to a later sequence, and a deny of a tier holds at least until
\* that tier does, whatever the others come to permit.
SequencesDecide ==
    \A d \in decision :
        /\ \A t \in Tiers : d.snapshot[t].sequence <= snapshot[t].sequence
        /\ (\A t \in Tiers : d.snapshot[t].sequence = snapshot[t].sequence) =>
            Outcome(snapshot, d.request, d.approved) = d.outcome
        /\ \A t \in Tiers :
            /\ Matching(d.snapshot, d.request, "Deny") \cap d.snapshot[t].rules # {}
            /\ d.snapshot[t].sequence = snapshot[t].sequence
            => Outcome(snapshot, d.request, d.approved) = "Deny"
=============================================================================
