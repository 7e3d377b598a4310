----------------------------- MODULE Safeguards -----------------------------
(***************************************************************************)
(* What keeps a failure, or a release, from leaving the machine worse than *)
(* it was: the supervisor of the cells' health, and the chain of targets a *)
(* release comes by.                                                       *)
(*                                                                         *)
(* HealthSupervisor (crates/health-supervisor): observations are           *)
(* classified onto a ladder of severities and answered by bounded          *)
(* reflexes, Safe Mode, or a halt of all autonomy.  Signals come from all  *)
(* cells in any order, and a cell may signal again and again.              *)
(***************************************************************************)
EXTENDS Naturals, Sequences

CONSTANTS
    Cells,
    MAX_QUARANTINED_CELLS

SupervisorAssumption == MAX_QUARANTINED_CELLS \in Nat \ {0}

Dimensions == {"Integrity", "Budget", "Latency", "Crash", "Policy", "Contamination"}

Observations ==
    [dimension : Dimensions, cell : Cells, above : BOOLEAN, critical : BOOLEAN,
     trust_root : BOOLEAN]

VARIABLES
    quarantined,    \* quarantined_cells, in the order they were
    safe_mode,      \* "Normal" or "Active"
    halted,         \* autonomous_halted
    critical_open,  \* a critical boundary failed since the operator's last exit (history)
    trust_broken    \* a trust root was involved (history)

vars == <<quarantined, safe_mode, halted, critical_open, trust_broken>>

Init ==
    /\ quarantined = <<>> /\ safe_mode = "Normal" /\ halted = FALSE
    /\ critical_open = FALSE /\ trust_broken = FALSE

\* Mutant: the boundary is looked at before the trust root.
ClassifyBoundaryFirst(o) ==
    IF ~o.above THEN "healthy"
    ELSE IF o.critical THEN "H3"
    ELSE IF o.trust_root THEN "H4"
    ELSE IF o.dimension \in {"Budget", "Latency"} THEN "H0" ELSE "H1"

\* classify: of the worst that is true of the observation.
Classify(o) ==
    IF ~o.above THEN "healthy"
    ELSE IF o.trust_root THEN "H4"
    ELSE IF o.critical THEN "H3"
    ELSE IF o.dimension \in {"Budget", "Latency"} THEN "H0" ELSE "H1"

\* What a signal tells, however it is classified.
Seen(o) ==
    /\ critical_open' = (critical_open \/ o.critical)
    /\ trust_broken' = (trust_broken \/ o.trust_root)

\* process, of a cell to contain.  H2 is handled alike, and never classified;
\* H0 is answered by a rate limit, which the supervisor keeps no state of.
Contain(o) ==
    /\ Classify(o) = "H1"
    /\ Len(quarantined) < MAX_QUARANTINED_CELLS
    /\ quarantined' = Append(quarantined, o.cell)
    /\ Seen(o)
    /\ UNCHANGED <<safe_mode, halted>>

EscalateRadius(o) ==
    /\ Classify(o) = "H1"
    /\ Len(quarantined) >= MAX_QUARANTINED_CELLS
    /\ halted' = TRUE
    /\ Seen(o)
    /\ UNCHANGED <<quarantined, safe_mode>>

EnterSafeMode(o) ==
    /\ Classify(o) = "H3"
    /\ safe_mode' = "Active"
    /\ Seen(o)
    /\ UNCHANGED <<quarantined, halted>>

\* process, of a broken trust root: Safe Mode is not entered.
Escalate(o) ==
    /\ Classify(o) = "H4"
    /\ halted' = TRUE
    /\ Seen(o)
    /\ UNCHANGED <<quarantined, safe_mode>>

OperatorExitSafeMode ==
    /\ safe_mode = "Active"
    /\ safe_mode' = "Normal"
    /\ critical_open' = FALSE
    /\ UNCHANGED <<quarantined, halted, trust_broken>>

Next ==
    \/ \E o \in Observations :
        Contain(o) \/ EscalateRadius(o) \/ EnterSafeMode(o) \/ Escalate(o)
    \/ OperatorExitSafeMode

Spec == Init /\ [][Next]_vars

-----------------------------------------------------------------------------

Contained == {quarantined[i] : i \in DOMAIN quarantined}

TypeOK ==
    /\ quarantined \in Seq(Cells) /\ Len(quarantined) <= MAX_QUARANTINED_CELLS
    /\ safe_mode \in {"Normal", "Active"}
    /\ {halted, critical_open, trust_broken} \subseteq BOOLEAN

\* classify and process: whatever came in between, effects are stopped while a
\* critical boundary has failed and no operator took Safe Mode off; autonomy
\* stands still after a broken trust root, and for no less than that or a full
\* quarantine.
SafetyIsKept ==
    /\ critical_open => safe_mode = "Active" \/ halted
    /\ safe_mode = "Active" => critical_open
    /\ trust_broken => halted
    /\ halted => trust_broken \/ Len(quarantined) = MAX_QUARANTINED_CELLS

\* "at most this many cells may be reflex-quarantined before escalation":
\* autonomy is halted for its radius only when that many cells are.
RadiusIsOfCells ==
    halted /\ ~trust_broken =>
        \A i, j \in DOMAIN quarantined : i # j => quarantined[i] # quarantined[j]

-----------------------------------------------------------------------------
(***************************************************************************)
(* Release integrity (crates/release-integrity): a chain of signed targets *)
(* that refuses rollback and freeze, the rings a target is rolled out to,  *)
(* and the bundle an updater verifies.  A manifest that does not verify    *)
(* (shape, signature, provenance) is refused at once, so only manifests    *)
(* signed by the key are inputs; they come in any order, and again.  The   *)
(* chain, the updater and the rings are values of the caller's: none looks *)
(* at another.                                                             *)
(***************************************************************************)
CONSTANTS
    Manifests,      \* [release, version, signed_at, artifacts]
    Rings,
    FloorVersion,   \* the updater's pinned floor
    MaxPromotions   \* bound: the history of the rings

ReleaseAssumption ==
    /\ \A m \in Manifests : m.version \in Nat \ {0} /\ m.signed_at \in Nat
    /\ FloorVersion \in Nat /\ MaxPromotions \in Nat

Releases == {m.release : m \in Manifests}
NoTarget == [release |-> "none", version |-> 0, signed_at |-> 0, artifacts |-> <<>>]

VARIABLES
    last_version,   \* Releases -> the version accepted last, 0 for none
    last_timestamp, \* of the manifest accepted last, of any release
    accepted,       \* manifests accepted, in order (history)
    current,        \* Rings -> the manifest promoted last
    history         \* <<ring, version>>, in order

releaseVars == <<last_version, last_timestamp, accepted, current, history>>

ReleaseInit ==
    /\ last_version = [r \in Releases |-> 0]
    /\ last_timestamp = 0
    /\ accepted = <<>>
    /\ current = [r \in Rings |-> NoTarget]
    /\ history = <<>>

\* Mutant: the same version again is no rollback.
AcceptAgain(m) ==
    /\ m.version >= last_version[m.release]
    /\ m.signed_at >= last_timestamp
    /\ last_version' = [last_version EXCEPT ![m.release] = m.version]
    /\ last_timestamp' = m.signed_at
    /\ accepted' = Append(accepted, m)
    /\ UNCHANGED <<current, history>>

\* TargetChain::accept.
Accept(m) ==
    /\ m.version > last_version[m.release]
    /\ m.signed_at >= last_timestamp
    /\ last_version' = [last_version EXCEPT ![m.release] = m.version]
    /\ last_timestamp' = m.signed_at
    /\ accepted' = Append(accepted, m)
    /\ UNCHANGED <<current, history>>

\* Updater::verify_bundle, of the digests of the bytes that came, in order.
BundleVerifies(m, digests) == m.version >= FloorVersion /\ digests = m.artifacts

\* RingState::promote: of any manifest, accepted by the chain or not.  demote is
\* an error whatever the history says.
Promote(ring, m) ==
    /\ Len(history) < MaxPromotions
    /\ history' = Append(history, <<ring, m.version>>)
    /\ current' = [current EXCEPT ![ring] = m]
    /\ UNCHANGED <<last_version, last_timestamp, accepted>>

ReleaseNext == \E m \in Manifests : Accept(m) \/ \E ring \in Rings : Promote(ring, m)

ReleaseSpec == ReleaseInit /\ [][ReleaseNext]_releaseVars

-----------------------------------------------------------------------------

ReleaseTypeOK ==
    /\ last_version \in [Releases -> Nat]
    /\ last_timestamp \in Nat
    /\ accepted \in Seq(Manifests)
    /\ current \in [Rings -> Manifests \cup {NoTarget}]
    /\ history \in Seq(Rings \X Nat)

\* accept: of what was ever accepted, in whatever order it was offered, a
\* release's versions rise, and no manifest was signed before one it follows.
NoRollbackNoFreeze ==
    \A i, j \in DOMAIN accepted : i < j =>
        /\ accepted[i].release = accepted[j].release =>
            accepted[i].version < accepted[j].version
        /\ accepted[i].signed_at <= accepted[j].signed_at

\* promote: what a ring runs is what its history says last, however the rings
\* take turns in it.
RingRunsItsLast ==
    \A ring \in Rings :
        LET mine == {i \in DOMAIN history : history[i][1] = ring} IN
        /\ (mine = {}) <=> (current[ring] = NoTarget)
        /\ \A i \in mine : (\A j \in mine : j <= i) => history[i][2] = current[ring].version

\* "must verify first: the caller owns the chain": what a ring runs was accepted
\* by the chain, and its bundle by the updater.
RingRunsVerified ==
    \A ring \in Rings :
        current[ring] # NoTarget =>
            /\ \E i \in DOMAIN accepted : accepted[i] = current[ring]
            /\ \E digests \in {m.artifacts : m \in Manifests} :
                BundleVerifies(current[ring], digests)
=============================================================================
