-------------------------- MODULE AuthoritiesProofs --------------------------
(***************************************************************************)
(* For any tasks, plugins, tenants, chunks, requests and bounds: the types *)
(* of what the deciding crates keep, and what each of them promises.  Each *)
(* machine of Authorities has a section: its inductive invariant, which    *)
(* its own steps keep and the steps of the others do not touch.            *)
(***************************************************************************)
EXTENDS Authorities, FiniteSetTheorems, SequenceTheorems, WellFoundedInduction, TLAPS

-----------------------------------------------------------------------------
(* The supervisor of the cells' health.                                    *)

HealthSound == Safe!TypeOK /\ Safe!SafetyIsKept

LEMMA HealthInit == Init => HealthSound
<1> SUFFICES ASSUME Safe!Init
             PROVE  HealthSound
  BY DEF Init
<1>1. health_quarantined \in Seq(Cells) /\ Len(health_quarantined) = 0
  BY EmptySeq DEF Safe!Init
<1>2. Safe!TypeOK
  <2>1. Len(health_quarantined) <= MAX_QUARANTINED_CELLS
    BY <1>1, AuthoritiesAssumption DEF Safe!SupervisorAssumption
  <2>2. /\ health_safe_mode \in {"Normal", "Active"}
        /\ {health_halted, health_critical_open, health_trust_broken} \subseteq BOOLEAN
    BY DEF Safe!Init
  <2>3. QED
    BY <1>1, <2>1, <2>2 DEF Safe!TypeOK
<1>3. QED
  BY <1>2 DEF Safe!Init, HealthSound, Safe!SafetyIsKept

LEMMA HealthNext ==
    ASSUME HealthSound, Safe!Next
    PROVE  HealthSound'
<1> USE AuthoritiesAssumption
    DEF HealthSound, Safe!TypeOK, Safe!SafetyIsKept, Safe!SupervisorAssumption, Safe!Seen,
        Safe!Classify, Safe!Observations
<1>1. ASSUME NEW o \in Safe!Observations, Safe!Contain(o)
      PROVE  HealthSound'
  BY <1>1 DEF Safe!Contain
<1>2. ASSUME NEW o \in Safe!Observations, Safe!EscalateRadius(o)
      PROVE  HealthSound'
  BY <1>2 DEF Safe!EscalateRadius
<1>3. ASSUME NEW o \in Safe!Observations, Safe!EnterSafeMode(o)
      PROVE  HealthSound'
  BY <1>3 DEF Safe!EnterSafeMode
<1>4. ASSUME NEW o \in Safe!Observations, Safe!Escalate(o)
      PROVE  HealthSound'
  BY <1>4 DEF Safe!Escalate
<1>5. CASE Safe!OperatorExitSafeMode
  BY <1>5 DEF Safe!OperatorExitSafeMode
<1>6. QED
  BY <1>1, <1>2, <1>3, <1>4, <1>5 DEF Safe!Next

LEMMA HealthStep == HealthSound /\ [Next]_vars => HealthSound'
<1> SUFFICES ASSUME HealthSound, [Next]_vars
             PROVE  HealthSound'
  OBVIOUS
<1>1. CASE Safe!Next
  BY <1>1, HealthNext
<1>2. CASE UNCHANGED health
  BY <1>2 DEF health, HealthSound, Safe!TypeOK, Safe!SafetyIsKept
<1>3. QED
  BY <1>1, <1>2 DEF Next, Unless, vars, health

LEMMA HealthAlways == Spec => [](Safe!TypeOK /\ Safe!SafetyIsKept)
BY HealthInit, HealthStep, PTL DEF Spec, HealthSound

-----------------------------------------------------------------------------
(* The chain of targets and the rings.                                     *)

\* The turns of a ring in the history.
Turns(ring) == {i \in DOMAIN release_history : release_history[i][1] = ring}

\* What was accepted last bounds all that was accepted before.
Bounded ==
    \A i \in DOMAIN release_accepted :
        /\ release_accepted[i].version <= release_last_version[release_accepted[i].release]
        /\ release_accepted[i].signed_at <= release_last_timestamp

ReleaseSound ==
    /\ Safe!ReleaseTypeOK /\ Bounded
    /\ Safe!NoRollbackNoFreeze /\ Safe!RingRunsItsLast

LEMMA RingsByTurns ==
    Safe!RingRunsItsLast <=>
        \A ring \in Rings :
            /\ (Turns(ring) = {}) <=> (release_current[ring] = Safe!NoTarget)
            /\ \A i \in Turns(ring) : (\A j \in Turns(ring) : j <= i) =>
                    release_history[i][2] = release_current[ring].version
BY DEF Safe!RingRunsItsLast, Turns

LEMMA ReleaseInit == Init => ReleaseSound
<1> SUFFICES ASSUME Safe!ReleaseInit
             PROVE  ReleaseSound
  BY DEF Init
<1>1. Safe!ReleaseTypeOK
  BY EmptySeq DEF Safe!ReleaseInit, Safe!ReleaseTypeOK
<1>2. Bounded /\ Safe!NoRollbackNoFreeze
  BY DEF Safe!ReleaseInit, Bounded, Safe!NoRollbackNoFreeze
<1>3. \A ring \in Rings : Turns(ring) = {} /\ release_current[ring] = Safe!NoTarget
  BY DEF Safe!ReleaseInit, Turns
<1>4. Safe!RingRunsItsLast
  BY <1>3, RingsByTurns
<1>5. QED
  BY <1>1, <1>2, <1>4 DEF ReleaseSound

LEMMA AcceptKeeps ==
    ASSUME ReleaseSound, NEW m \in Manifests, Safe!Accept(m)
    PROVE  ReleaseSound'
<1>0. PICK n \in Nat : n = Len(release_accepted)
  BY DEF ReleaseSound, Safe!ReleaseTypeOK
<1>1. /\ m.version \in Nat \ {0} /\ m.signed_at \in Nat /\ m.release \in Safe!Releases
      /\ release_accepted \in Seq(Manifests)
      /\ \A k \in Manifests : k.version \in Nat /\ k.signed_at \in Nat
                              /\ k.release \in Safe!Releases
      /\ release_last_version \in [Safe!Releases -> Nat] /\ release_last_timestamp \in Nat
  BY AuthoritiesAssumption
  DEF Safe!ReleaseAssumption, Safe!Releases, ReleaseSound, Safe!ReleaseTypeOK
<1>2. /\ m.version > release_last_version[m.release] /\ m.signed_at >= release_last_timestamp
      /\ release_last_version' = [release_last_version EXCEPT ![m.release] = m.version]
      /\ release_last_timestamp' = m.signed_at
      /\ release_accepted' = Append(release_accepted, m)
      /\ UNCHANGED <<release_current, release_history>>
  BY DEF Safe!Accept
<1>3. /\ release_accepted' \in Seq(Manifests) /\ DOMAIN release_accepted' = 1..n + 1
      /\ DOMAIN release_accepted = 1..n
      /\ release_accepted'[n + 1] = m
      /\ \A i \in 1..n : /\ release_accepted'[i] = release_accepted[i]
                         /\ release_accepted[i] \in Manifests
  BY <1>0, <1>1, <1>2
<1>4. /\ release_last_version' \in [Safe!Releases -> Nat]
      /\ release_last_version'[m.release] = m.version
      /\ \A r \in Safe!Releases \ {m.release} :
            release_last_version'[r] = release_last_version[r]
  BY <1>1, <1>2
<1>5. \A i \in 1..n :
        /\ release_accepted[i].version <= release_last_version[release_accepted[i].release]
        /\ release_accepted[i].signed_at <= release_last_timestamp
  BY <1>3 DEF ReleaseSound, Bounded
<1>6. Bounded'
  <2>1. ASSUME NEW i \in 1..n
        PROVE  /\ release_accepted'[i].version
                    <= release_last_version'[release_accepted'[i].release]
               /\ release_accepted'[i].signed_at <= release_last_timestamp'
    BY <1>1, <1>2, <1>3, <1>4, <1>5
  <2>2. /\ release_accepted'[n + 1].version
                <= release_last_version'[release_accepted'[n + 1].release]
        /\ release_accepted'[n + 1].signed_at <= release_last_timestamp'
    BY <1>1, <1>2, <1>3, <1>4
  <2>3. QED
    BY <1>3, <2>1, <2>2 DEF Bounded
<1>7. Safe!NoRollbackNoFreeze'
  <2>1. ASSUME NEW i \in 1..n + 1, NEW j \in 1..n + 1, i < j
        PROVE  /\ release_accepted'[i].release = release_accepted'[j].release =>
                    release_accepted'[i].version < release_accepted'[j].version
               /\ release_accepted'[i].signed_at <= release_accepted'[j].signed_at
    <3>1. CASE j \in 1..n
      BY <1>3, <2>1, <3>1 DEF ReleaseSound, Safe!NoRollbackNoFreeze
    <3>2. CASE j = n + 1
      <4>1. i \in 1..n
        BY <2>1, <3>2
      <4>2. QED
        BY <1>1, <1>2, <1>3, <1>5, <3>2, <4>1
    <3>3. QED
      BY <3>1, <3>2
  <2>2. QED
    BY <1>3, <2>1 DEF Safe!NoRollbackNoFreeze
<1>8. Safe!RingRunsItsLast'
  <2>1. \A ring : Turns(ring)' = Turns(ring)
    BY <1>2 DEF Turns
  <2>2. QED
    BY <1>2, <2>1, RingsByTurns DEF ReleaseSound, Safe!RingRunsItsLast, Turns
<1>9. QED
  BY <1>2, <1>3, <1>4, <1>1, <1>6, <1>7, <1>8 DEF ReleaseSound, Safe!ReleaseTypeOK

LEMMA PromoteKeeps ==
    ASSUME ReleaseSound, NEW m \in Manifests, NEW ring \in Rings, Safe!Promote(ring, m)
    PROVE  ReleaseSound'
<1>0. PICK n \in Nat : n = Len(release_history)
  BY DEF ReleaseSound, Safe!ReleaseTypeOK
<1>1. /\ m.version \in Nat \ {0} /\ m # Safe!NoTarget
      /\ release_history' = Append(release_history, <<ring, m.version>>)
      /\ release_current' = [release_current EXCEPT ![ring] = m]
      /\ UNCHANGED <<release_last_version, release_last_timestamp, release_accepted>>
  BY AuthoritiesAssumption
  DEF Safe!Promote, Safe!ReleaseAssumption, Safe!NoTarget
<1>2. /\ release_history' \in Seq(Rings \X Nat) /\ DOMAIN release_history' = 1..n + 1
      /\ DOMAIN release_history = 1..n
      /\ release_history'[n + 1] = <<ring, m.version>>
      /\ \A i \in 1..n : release_history'[i] = release_history[i]
  BY <1>0, <1>1 DEF ReleaseSound, Safe!ReleaseTypeOK
<1>3. /\ release_current' \in [Rings -> Manifests \cup {Safe!NoTarget}]
      /\ release_current'[ring] = m
      /\ \A r \in Rings \ {ring} : release_current'[r] = release_current[r]
  BY <1>1 DEF ReleaseSound, Safe!ReleaseTypeOK
<1>4. /\ Turns(ring)' = Turns(ring) \cup {n + 1}
      /\ \A r \in Rings \ {ring} : Turns(r)' = Turns(r)
      /\ \A r : Turns(r) \subseteq 1..n
  BY <1>2 DEF Turns
<1>5. ASSUME NEW r \in Rings
      PROVE  /\ (Turns(r)' = {}) <=> (release_current'[r] = Safe!NoTarget)
             /\ \A i \in Turns(r)' : (\A j \in Turns(r)' : j <= i) =>
                    release_history'[i][2] = release_current'[r].version
  <2>1. CASE r = ring
    <3>1. ASSUME NEW i \in Turns(ring)', \A j \in Turns(ring)' : j <= i
          PROVE  i = n + 1
      BY <1>4, <3>1
    <3>2. release_history'[n + 1][2] = m.version
      BY <1>2
    <3>3. QED
      BY <1>1, <1>3, <1>4, <2>1, <3>1, <3>2
  <2>2. CASE r # ring
    <3>1. Turns(r)' = Turns(r) /\ release_current'[r] = release_current[r]
      BY <1>3, <1>4, <2>2
    <3>2. /\ (Turns(r) = {}) <=> (release_current[r] = Safe!NoTarget)
          /\ \A i \in Turns(r) : (\A j \in Turns(r) : j <= i) =>
                release_history[i][2] = release_current[r].version
      BY RingsByTurns DEF ReleaseSound
    <3>3. \A i \in Turns(r) : release_history'[i] = release_history[i]
      BY <1>2, <1>4
    <3>4. QED
      BY <3>1, <3>2, <3>3
  <2>3. QED
    BY <2>1, <2>2
<1>6. Safe!RingRunsItsLast'
  BY <1>1, <1>5 DEF Safe!RingRunsItsLast, Turns
<1>7. Safe!ReleaseTypeOK' /\ Bounded' /\ Safe!NoRollbackNoFreeze'
  BY <1>1, <1>2, <1>3 DEF ReleaseSound, Safe!ReleaseTypeOK, Bounded, Safe!NoRollbackNoFreeze
<1>8. QED
  BY <1>6, <1>7 DEF ReleaseSound

LEMMA ReleaseStep == ReleaseSound /\ [Next]_vars => ReleaseSound'
<1> SUFFICES ASSUME ReleaseSound, [Next]_vars
             PROVE  ReleaseSound'
  OBVIOUS
<1>1. CASE Safe!ReleaseNext
  BY <1>1, AcceptKeeps, PromoteKeeps DEF Safe!ReleaseNext
<1>2. CASE UNCHANGED release
  BY <1>2 DEF release, ReleaseSound, Safe!ReleaseTypeOK, Bounded, Safe!NoRollbackNoFreeze,
              Safe!RingRunsItsLast
<1>3. QED
  BY <1>1, <1>2 DEF Next, Unless, vars, release

LEMMA ReleaseAlways ==
    Spec => [](Safe!ReleaseTypeOK /\ Safe!NoRollbackNoFreeze /\ Safe!RingRunsItsLast)
<1>1. ReleaseSound => Safe!ReleaseTypeOK /\ Safe!NoRollbackNoFreeze /\ Safe!RingRunsItsLast
  BY DEF ReleaseSound
<1>2. QED
  BY <1>1, ReleaseInit, ReleaseStep, PTL DEF Spec

-----------------------------------------------------------------------------
(* The planes, the audit streams and the break-glass grants of tenants.    *)

ControlTyped ==
    /\ control_clock \in 0..MaxTime
    /\ control_owners \in Seq(Tenants) /\ Len(control_owners) <= MaxWrites
    /\ control_entries \in [Tenants \X Keys -> 0..Len(control_owners)]
    /\ control_streams \in [Tenants -> Seq(1..Len(control_owners))]
    /\ control_read \in [caller : Tenants, writes : SUBSET (1..Len(control_owners))]

Granted ==
    /\ control_grants \subseteq control_issued
    /\ \A g \in control_issued :
        /\ g.requested_by # g.approved_by
        /\ g.expires \in Nat
        /\ g.expires > control_clock => g \in control_grants

ControlSound == ControlTyped /\ Granted /\ Control!TenantsApart

LEMMA ControlInit == Init => ControlSound
<1> SUFFICES ASSUME Control!Init
             PROVE  ControlSound
  BY DEF Init
<1>1. control_owners \in Seq(Tenants) /\ Len(control_owners) = 0
  BY EmptySeq DEF Control!Init
<1>2. PICK t \in Tenants : control_read = [caller |-> t, writes |-> {}]
  BY DEF Control!Init
<1>3. control_streams \in [Tenants -> Seq(1..0)]
  BY EmptySeq DEF Control!Init
<1>4. ControlTyped
  BY <1>1, <1>2, <1>3, AuthoritiesAssumption
  DEF Control!Init, ControlTyped, Control!EnterpriseAssumption
<1>5. Granted
  BY DEF Control!Init, Granted
<1>6. Control!TenantsApart
  BY <1>1, <1>2 DEF Control!Init, Control!TenantsApart
<1>7. QED
  BY <1>4, <1>5, <1>6 DEF ControlSound

\* A write of a tenant, numbered by the owners before it.
LEMMA OwnersGrow ==
    ASSUME ControlSound, NEW t \in Tenants, Len(control_owners) < MaxWrites,
           control_owners' = Append(control_owners, t)
    PROVE  /\ Len(control_owners) \in Nat /\ Len(control_owners') = Len(control_owners) + 1
           /\ control_owners' \in Seq(Tenants) /\ Len(control_owners') <= MaxWrites
           /\ control_owners'[Len(control_owners) + 1] = t
           /\ \A w \in 1..Len(control_owners) : control_owners'[w] = control_owners[w]
<1>1. control_owners \in Seq(Tenants) /\ Len(control_owners) \in Nat
  BY DEF ControlSound, ControlTyped
<1>2. MaxWrites \in Nat
  BY AuthoritiesAssumption DEF Control!EnterpriseAssumption
<1>3. QED
  BY <1>1, <1>2

LEMMA ControlNext ==
    ASSUME ControlSound, Control!Next
    PROVE  ControlSound'
<1>0. ControlTyped /\ Granted /\ Control!TenantsApart
  BY DEF ControlSound
<1>1. CASE Control!Tick
  <2>1. /\ control_clock < MaxTime /\ control_clock' = control_clock + 1
        /\ UNCHANGED <<control_entries, control_streams, control_owners, control_read,
                       control_grants, control_issued>>
    BY <1>1 DEF Control!Tick
  <2>2. control_clock' \in 0..MaxTime /\ control_clock \in Nat
    BY <1>0, <2>1, AuthoritiesAssumption DEF ControlTyped, Control!EnterpriseAssumption
  <2>3. ControlTyped' /\ Control!TenantsApart'
    BY <1>0, <2>1, <2>2 DEF ControlTyped, Control!TenantsApart
  <2>4. Granted'
    BY <1>0, <2>1, <2>2 DEF Granted
  <2>5. QED
    BY <2>3, <2>4 DEF ControlSound
<1>2. CASE Control!ReapGrants
  <2>1. /\ control_grants' = {g \in control_grants : g.expires > control_clock}
        /\ UNCHANGED <<control_clock, control_entries, control_streams, control_owners,
                       control_read, control_issued>>
    BY <1>2 DEF Control!ReapGrants, Control!Unexpired
  <2>2. ControlTyped' /\ Control!TenantsApart'
    BY <1>0, <2>1 DEF ControlTyped, Control!TenantsApart
  <2>3. Granted'
    BY <1>0, <2>1 DEF Granted
  <2>4. QED
    BY <2>2, <2>3 DEF ControlSound
<1>3. ASSUME NEW t \in Tenants, Control!AppendLine(t)
      PROVE  ControlSound'
  <2>0. PICK n : n = Len(control_owners)
    OBVIOUS
  <2>1. /\ n < MaxWrites /\ control_owners' = Append(control_owners, t)
        /\ control_streams' =
            [control_streams EXCEPT ![t] = Append(control_streams[t], Len(control_owners'))]
        /\ UNCHANGED <<control_clock, control_entries, control_read, control_grants,
                       control_issued>>
    BY <1>3, <2>0 DEF Control!AppendLine
  <2>2. /\ n \in Nat /\ Len(control_owners') = n + 1
        /\ control_owners' \in Seq(Tenants) /\ Len(control_owners') <= MaxWrites
        /\ control_owners'[n + 1] = t
        /\ \A w \in 1..n : control_owners'[w] = control_owners[w]
    BY <2>0, <2>1, OwnersGrow
  <2>3. /\ control_streams[t] \in Seq(1..n + 1)
        /\ \A s \in Tenants : control_streams[s] \in Seq(1..n)
    BY <1>0, <2>0, <2>2 DEF ControlTyped
  <2>4. /\ control_streams'[t] = Append(control_streams[t], n + 1)
        /\ control_streams'[t] \in Seq(1..n + 1)
        /\ Len(control_streams'[t]) = Len(control_streams[t]) + 1
        /\ control_streams'[t][Len(control_streams[t]) + 1] = n + 1
        /\ \A i \in 1..Len(control_streams[t]) :
                control_streams'[t][i] = control_streams[t][i]
        /\ \A s \in Tenants \ {t} : control_streams'[s] = control_streams[s]
    <3>1. /\ control_streams'[t] = Append(control_streams[t], n + 1)
          /\ \A s \in Tenants \ {t} : control_streams'[s] = control_streams[s]
      BY <1>0, <2>1, <2>2 DEF ControlTyped
    <3>2. n + 1 \in 1..n + 1
      BY <2>2
    <3>3. QED
      BY <2>3, <3>1, <3>2
  <2>5. ControlTyped'
    <3>1. \A s \in Tenants : control_streams'[s] \in Seq(1..n + 1)
      <4>1. \A s \in Tenants : control_streams[s] \in Seq(1..n + 1)
        BY <2>2, <2>3
      <4>2. QED
        BY <2>4, <4>1
    <3>2. control_streams' \in [Tenants -> Seq(1..n + 1)]
      BY <1>0, <2>1, <3>1 DEF ControlTyped
    <3>3. /\ control_entries' \in [Tenants \X Keys -> 0..n + 1]
          /\ control_read' \in [caller : Tenants, writes : SUBSET (1..n + 1)]
      BY <1>0, <2>0, <2>1, <2>2 DEF ControlTyped
    <3>4. QED
      BY <1>0, <2>1, <2>2, <3>2, <3>3 DEF ControlTyped
  <2>6. Control!TenantsApart'
    <3>1. \A w \in control_read.writes : control_owners'[w] = control_read.caller
      BY <1>0, <2>0, <2>2 DEF ControlTyped, Control!TenantsApart
    <3>2. \A k \in DOMAIN control_entries :
                control_entries[k] # 0 => control_owners'[control_entries[k]] = k[1]
      BY <1>0, <2>0, <2>2 DEF ControlTyped, Control!TenantsApart
    <3>3. ASSUME NEW s \in Tenants, NEW i \in DOMAIN control_streams'[s]
          PROVE  control_owners'[control_streams'[s][i]] = s
      <4>1. CASE control_streams'[s][i] \in 1..n /\ i \in DOMAIN control_streams[s]
                 /\ control_streams'[s][i] = control_streams[s][i]
        BY <1>0, <2>2, <4>1 DEF Control!TenantsApart
      <4>2. CASE s = t /\ i = Len(control_streams[t]) + 1
        BY <2>2, <2>4, <4>2
      <4>3. CASE s # t
        <5>1. control_streams'[s] = control_streams[s]
          BY <2>4, <4>3
        <5>2. control_streams[s][i] \in 1..n
          <6>1. control_streams[s] \in Seq(1..n) /\ i \in 1..Len(control_streams[s])
            BY <2>3, <5>1
          <6>2. QED
            BY <6>1, ElementOfSeq, Zenon
        <5>3. QED
          BY <4>1, <5>1, <5>2
      <4>4. CASE s = t /\ i # Len(control_streams[t]) + 1
        <5>1. i \in 1..Len(control_streams[t]) /\ Len(control_streams[t]) \in Nat
              /\ DOMAIN control_streams[t] = 1..Len(control_streams[t])
          BY <2>3, <2>4, <4>4
        <5>2. control_streams[t][i] \in 1..n
          BY <2>3, <5>1, ElementOfSeq
        <5>3. QED
          BY <2>4, <4>1, <4>4, <5>1, <5>2
      <4>5. QED
        BY <4>2, <4>3, <4>4
    <3>4. QED
      BY <2>1, <3>1, <3>2, <3>3 DEF Control!TenantsApart
  <2>7. Granted'
    BY <1>0, <2>1 DEF Granted
  <2>8. QED
    BY <2>5, <2>6, <2>7 DEF ControlSound
<1>4. ASSUME NEW t \in Tenants, NEW k \in Keys, Control!Put(t, k)
      PROVE  ControlSound'
  <2>0. PICK n : n = Len(control_owners)
    OBVIOUS
  <2>1. /\ n < MaxWrites /\ control_owners' = Append(control_owners, t)
        /\ control_entries' = [control_entries EXCEPT ![<<t, k>>] = Len(control_owners')]
        /\ UNCHANGED <<control_clock, control_streams, control_read, control_grants,
                       control_issued>>
    BY <1>4, <2>0 DEF Control!Put
  <2>2. /\ n \in Nat /\ Len(control_owners') = n + 1
        /\ control_owners' \in Seq(Tenants) /\ Len(control_owners') <= MaxWrites
        /\ control_owners'[n + 1] = t
        /\ \A w \in 1..n : control_owners'[w] = control_owners[w]
    BY <2>0, <2>1, OwnersGrow
  <2>3. /\ control_entries \in [Tenants \X Keys -> 0..n]
        /\ control_entries' = [control_entries EXCEPT ![<<t, k>>] = n + 1]
        /\ <<t, k>> \in Tenants \X Keys
    BY <1>0, <2>0, <2>1, <2>2 DEF ControlTyped
  <2>4. /\ control_entries' \in [Tenants \X Keys -> 0..n + 1]
        /\ control_entries'[<<t, k>>] = n + 1
        /\ \A e \in Tenants \X Keys : e # <<t, k>> => control_entries'[e] = control_entries[e]
    BY <2>2, <2>3
  <2>5. ControlTyped'
    <3>1. control_streams' \in [Tenants -> Seq(1..n + 1)]
      <4>1. \A s \in Tenants : control_streams[s] \in Seq(1..n)
        BY <1>0, <2>0 DEF ControlTyped
      <4>2. \A s \in Tenants : control_streams[s] \in Seq(1..n + 1)
        BY <2>2, <4>1
      <4>3. QED
        BY <1>0, <2>1, <4>2 DEF ControlTyped
    <3>2. control_read' \in [caller : Tenants, writes : SUBSET (1..n + 1)]
      BY <1>0, <2>0, <2>1, <2>2 DEF ControlTyped
    <3>3. QED
      BY <1>0, <2>1, <2>2, <2>4, <3>1, <3>2 DEF ControlTyped
  <2>6. Control!TenantsApart'
    <3>1. \A w \in control_read.writes : control_owners'[w] = control_read.caller
      BY <1>0, <2>0, <2>2 DEF ControlTyped, Control!TenantsApart
    <3>2. ASSUME NEW e \in Tenants \X Keys, control_entries'[e] # 0
          PROVE  control_owners'[control_entries'[e]] = e[1]
      <4>1. CASE e = <<t, k>>
        BY <2>2, <2>4, <4>1
      <4>2. CASE e # <<t, k>>
        <5>1. control_entries'[e] = control_entries[e] /\ control_entries[e] \in 1..n
          BY <2>2, <2>3, <2>4, <3>2, <4>2
        <5>2. control_owners[control_entries[e]] = e[1]
          BY <1>0, <2>3, <5>1 DEF Control!TenantsApart
        <5>3. QED
          BY <2>2, <5>1, <5>2
      <4>3. QED
        BY <4>1, <4>2
    <3>3. ASSUME NEW s \in Tenants, NEW i \in DOMAIN control_streams[s]
          PROVE  control_owners'[control_streams[s][i]] = s
      <4>1. control_streams[s] \in Seq(1..n)
        BY <1>0, <2>0 DEF ControlTyped
      <4>2. control_streams[s][i] \in 1..n
        <5>1. i \in 1..Len(control_streams[s])
          BY <4>1
        <5>2. QED
          BY <4>1, <5>1, ElementOfSeq, Zenon
      <4>3. QED
        BY <1>0, <2>2, <4>2 DEF Control!TenantsApart
    <3>4. QED
      BY <2>1, <2>4, <3>1, <3>2, <3>3 DEF Control!TenantsApart
  <2>7. Granted'
    BY <1>0, <2>1 DEF Granted
  <2>8. QED
    BY <2>5, <2>6, <2>7 DEF ControlSound
<1>5. ASSUME NEW t \in Tenants, NEW c \in Tenants, NEW writes \in SUBSET (1..Len(control_owners)),
             \A w \in writes : control_owners[w] = t,
             control_read' = [caller |-> t, writes |-> writes],
             UNCHANGED <<control_clock, control_entries, control_streams, control_owners,
                         control_grants, control_issued>>
      PROVE  ControlSound'
  <2>1. control_read'.caller = t /\ control_read'.writes = writes
    BY <1>5
  <2>2. ControlTyped'
    BY <1>0, <1>5 DEF ControlTyped
  <2>3. Control!TenantsApart'
    BY <1>0, <1>5, <2>1 DEF Control!TenantsApart
  <2>4. Granted'
    BY <1>0, <1>5 DEF Granted
  <2>5. QED
    BY <2>2, <2>3, <2>4 DEF ControlSound
<1>6. ASSUME NEW t \in Tenants, NEW k \in Keys, NEW c \in Tenants, Control!Get(c, t, k)
      PROVE  ControlSound'
  <2> DEFINE writes == {control_entries[<<t, k>>]} \ {0}
  <2>1. <<t, k>> \in Tenants \X Keys
    OBVIOUS
  <2>2. control_entries[<<t, k>>] \in 0..Len(control_owners) /\ Len(control_owners) \in Nat
    BY <1>0, <2>1 DEF ControlTyped
  <2>3. writes \in SUBSET (1..Len(control_owners))
    BY <2>2
  <2>4. \A w \in writes : control_owners[w] = t
    BY <1>0, <2>1 DEF ControlTyped, Control!TenantsApart
  <2>5. /\ control_read' = [caller |-> t, writes |-> writes]
        /\ UNCHANGED <<control_clock, control_entries, control_streams, control_owners,
                       control_grants, control_issued>>
    BY <1>6 DEF Control!Get
  <2> HIDE DEF writes
  <2>6. QED
    BY <1>5, <2>3, <2>4, <2>5, Zenon
<1>7. ASSUME NEW t \in Tenants, NEW c \in Tenants, Control!ReadLines(c, t)
      PROVE  ControlSound'
  <2> DEFINE writes == {control_streams[t][i] : i \in DOMAIN control_streams[t]}
  <2>1. control_streams[t] \in Seq(1..Len(control_owners))
    BY <1>0 DEF ControlTyped
  <2>2. writes \in SUBSET (1..Len(control_owners))
    BY <2>1, ElementOfSeq
  <2>3. \A w \in writes : control_owners[w] = t
    BY <1>0 DEF Control!TenantsApart
  <2>4. /\ control_read' = [caller |-> t, writes |-> writes]
        /\ UNCHANGED <<control_clock, control_entries, control_streams, control_owners,
                       control_grants, control_issued>>
    BY <1>7 DEF Control!ReadLines
  <2> HIDE DEF writes
  <2>5. QED
    BY <1>5, <2>2, <2>3, <2>4, Zenon
<1>8. ASSUME NEW t \in Tenants, NEW r \in Operators, NEW a \in Operators, NEW w \in Windows,
             Control!BreakGlass(r, a, t, w)
      PROVE  ControlSound'
  <2> DEFINE g == Control!GrantOf(r, a, t, w)
  <2>1. /\ r # a /\ control_grants' = control_grants \cup {g}
        /\ control_issued' = control_issued \cup {g}
        /\ UNCHANGED <<control_clock, control_entries, control_streams, control_owners,
                       control_read>>
    BY <1>8 DEF Control!BreakGlass
  <2>2. g.requested_by = r /\ g.approved_by = a /\ g.expires = control_clock + w
    BY DEF Control!GrantOf
  <2>3. control_clock + w \in Nat
    BY <1>0, AuthoritiesAssumption DEF ControlTyped, Control!EnterpriseAssumption
  <2> HIDE DEF g
  <2>4. ControlTyped' /\ Control!TenantsApart'
    BY <1>0, <2>1 DEF ControlTyped, Control!TenantsApart
  <2>5. Granted'
    BY <1>0, <2>1, <2>2, <2>3 DEF Granted
  <2>6. QED
    BY <2>4, <2>5 DEF ControlSound
<1>9. QED
  BY <1>1, <1>2, <1>3, <1>4, <1>6, <1>7, <1>8 DEF Control!Next

LEMMA ControlStep == ControlSound /\ [Next]_vars => ControlSound'
<1> SUFFICES ASSUME ControlSound, [Next]_vars
             PROVE  ControlSound'
  OBVIOUS
<1>1. CASE Control!Next
  BY <1>1, ControlNext
<1>2. CASE UNCHANGED control
  BY <1>2 DEF control, ControlSound, ControlTyped, Granted, Control!TenantsApart
<1>3. QED
  BY <1>1, <1>2 DEF Next, Unless, vars, control

LEMMA ControlAlways ==
    Spec => [](Control!TypeOK /\ Control!GlassIsDualControlled /\ Control!TenantsApart)
<1>1. ControlSound => Control!TypeOK
  <2> SUFFICES ASSUME ControlSound
               PROVE  Control!TypeOK
    OBVIOUS
  <2>1. Len(control_owners) \in Nat /\ MaxWrites \in Nat /\ Len(control_owners) <= MaxWrites
    BY AuthoritiesAssumption DEF ControlSound, ControlTyped, Control!EnterpriseAssumption
  <2>2. \A t \in Tenants : control_streams[t] \in Seq(1..MaxWrites)
    <3>1. \A t \in Tenants : control_streams[t] \in Seq(1..Len(control_owners))
      BY DEF ControlSound, ControlTyped
    <3>2. QED
      BY <2>1, <3>1
  <2>3. QED
    BY <2>1, <2>2 DEF ControlSound, ControlTyped, Granted, Control!TypeOK
<1>2. ControlSound => Control!GlassIsDualControlled
  <2> SUFFICES ASSUME ControlSound, NEW g \in control_issued
               PROVE  /\ g.requested_by # g.approved_by
                      /\ Control!ActiveGrant(g.id)
                            <=> \E o \in control_issued : o.id = g.id /\ control_clock < o.expires
    BY DEF Control!GlassIsDualControlled
  <2>1. \A o \in control_issued :
            /\ o.expires > control_clock => o \in control_grants
            /\ o.expires > control_clock <=> control_clock < o.expires
    BY DEF ControlSound, Granted, ControlTyped
  <2>2. QED
    BY <2>1 DEF ControlSound, Granted, Control!ActiveGrant, Control!Unexpired
<1>3. ControlSound => Control!TenantsApart
  BY DEF ControlSound
<1>4. QED
  BY <1>1, <1>2, <1>3, ControlInit, ControlStep, PTL DEF Spec

-----------------------------------------------------------------------------
(* The gate of outgoing connections.                                       *)

\* What an authorization stands for, and what is pinned under it.
Authorized ==
    \A a \in egress_authorization :
        /\ a = [purpose |-> a.purpose, host |-> a.host, port |-> a.port,
                allowed_addresses |-> a.allowed_addresses]
        /\ \E rule \in Egress!RuleFor(a.purpose) : Egress!LetsHost(rule, a.host)
        /\ a.allowed_addresses \subseteq Addresses
        /\ \A r \in egress_asked : a.host = Egress!CanonicalHost(r.host)
        /\ egress_resolved # {} => a.allowed_addresses # {}
                                   /\ a.allowed_addresses \subseteq egress_resolved
        /\ egress_resolved = {} /\ Egress!Literals(a.host) # {} =>
                a.allowed_addresses # {} /\ a.allowed_addresses \subseteq Egress!Literals(a.host)
        /\ \A l \in egress_link :
            /\ l.host = a.host /\ l.port = a.port
            /\ l.address \in a.allowed_addresses \ Blocked

EgressSound ==
    /\ egress_asked \subseteq EgressRequests
    /\ egress_resolved \subseteq Addresses \ Blocked
    /\ egress_link # {} => egress_authorization # {}
    /\ Authorized

LEMMA EgressInit == Init => EgressSound
BY DEF Init, Egress!Init, EgressSound, Authorized

\* What is issued of a request that a rule allows.
LEMMA IssueKeeps ==
    ASSUME NEW request \in EgressRequests, Egress!Allows(request), Egress!Issue(request),
           egress_asked' \subseteq EgressRequests,
           \A r \in egress_asked' :
                Egress!CanonicalHost(request.host) = Egress!CanonicalHost(r.host)
    PROVE  EgressSound'
<1> DEFINE a == Egress!Authorization(request)
<1>1. /\ a = [purpose |-> a.purpose, host |-> a.host, port |-> a.port,
              allowed_addresses |-> a.allowed_addresses]
      /\ a.purpose = request.purpose /\ a.host = Egress!CanonicalHost(request.host)
      /\ a.allowed_addresses = Egress!Literals(a.host)
  BY DEF Egress!Authorization
<1>2. egress_authorization' = {a} /\ egress_resolved' = {} /\ egress_link' = {}
  BY DEF Egress!Issue
<1>3. \E rule \in Egress!RuleFor(a.purpose) : Egress!LetsHost(rule, a.host)
  BY <1>1 DEF Egress!Allows
<1>4. Egress!Literals(a.host) \subseteq Addresses
  BY DEF Egress!Literals
<1> HIDE DEF a
<1>5. Authorized'
  BY <1>1, <1>2, <1>3, <1>4 DEF Authorized
<1>6. QED
  BY <1>2, <1>5 DEF EgressSound

LEMMA EgressNext ==
    ASSUME EgressSound, Egress!Next
    PROVE  EgressSound'
<1>1. ASSUME NEW r \in EgressRequests, Egress!Authorize(r)
      PROVE  EgressSound'
  BY <1>1, IssueKeeps DEF Egress!Authorize
<1>2. ASSUME NEW a \in egress_authorization, NEW r \in EgressRequests,
             Egress!AuthorizeRedirect(a, r)
      PROVE  EgressSound'
  <2>1. \A q \in egress_asked :
            Egress!CanonicalHost(r.host) = Egress!CanonicalHost(q.host)
    BY <1>2 DEF Egress!AuthorizeRedirect, EgressSound, Authorized
  <2>2. QED
    BY <1>2, <2>1, IssueKeeps DEF Egress!AuthorizeRedirect, EgressSound
<1>3. ASSUME NEW a \in egress_authorization, NEW pins \in SUBSET Addresses, pins # {},
             egress_authorization' = {[a EXCEPT !.allowed_addresses = pins]},
             UNCHANGED egress_asked,
             egress_resolved' \subseteq Addresses \ Blocked,
             egress_resolved' # {} => pins \subseteq egress_resolved',
             egress_resolved' = {} /\ Egress!Literals(a.host) # {} =>
                    pins \subseteq Egress!Literals(a.host),
             \A l \in egress_link' :
                    l.host = a.host /\ l.port = a.port /\ l.address \in pins \ Blocked
      PROVE  EgressSound'
  <2> DEFINE b == [purpose |-> a.purpose, host |-> a.host, port |-> a.port,
                   allowed_addresses |-> pins]
  <2>1. egress_authorization' = {b}
    BY <1>3 DEF EgressSound, Authorized
  <2>2. /\ b = [purpose |-> b.purpose, host |-> b.host, port |-> b.port,
                allowed_addresses |-> b.allowed_addresses]
        /\ b.purpose = a.purpose /\ b.host = a.host /\ b.port = a.port
        /\ b.allowed_addresses = pins
    OBVIOUS
  <2> HIDE DEF b
  <2>3. /\ \E rule \in Egress!RuleFor(b.purpose) : Egress!LetsHost(rule, b.host)
        /\ \A r \in egress_asked : b.host = Egress!CanonicalHost(r.host)
    BY <2>2 DEF EgressSound, Authorized
  <2>4. Authorized'
    BY <1>3, <2>1, <2>2, <2>3 DEF Authorized
  <2>5. QED
    BY <1>3, <2>1, <2>4 DEF EgressSound
<1>4. ASSUME NEW a \in egress_authorization, NEW h, NEW s \in SUBSET Addresses,
             Egress!ValidateResolution(a, h, s)
      PROVE  EgressSound'
  <2>1. /\ s # {} /\ s \cap Blocked = {} /\ egress_resolved' = s /\ egress_link' = {}
        /\ egress_authorization' = {[a EXCEPT !.allowed_addresses = s]}
        /\ UNCHANGED egress_asked
    BY <1>4 DEF Egress!ValidateResolution
  <2>2. QED
    BY <1>3, <2>1
<1>5. ASSUME NEW a \in egress_authorization, NEW r \in EgressRequests, NEW address \in Addresses,
             Egress!VerifyConnection(a, r.host, r.port, address)
      PROVE  EgressSound'
  <2> DEFINE l == [host |-> Egress!CanonicalHost(r.host), port |-> r.port, address |-> address]
  <2>1. /\ a.allowed_addresses = {} \/ address \in a.allowed_addresses
        /\ address \notin Blocked
        /\ l.host = a.host /\ l.port = a.port /\ l.address = address
        /\ egress_link' = {l}
        /\ egress_authorization' = {[a EXCEPT !.allowed_addresses = {address}]}
        /\ UNCHANGED <<egress_asked, egress_resolved>>
    BY <1>5 DEF Egress!VerifyConnection
  <2> HIDE DEF l
  <2>2. /\ egress_resolved # {} => {address} \subseteq egress_resolved
        /\ egress_resolved = {} /\ Egress!Literals(a.host) # {} =>
                {address} \subseteq Egress!Literals(a.host)
    BY <2>1 DEF EgressSound, Authorized
  <2>3. \A k \in egress_link' :
            k.host = a.host /\ k.port = a.port /\ k.address \in {address} \ Blocked
    BY <2>1
  <2>4. /\ {address} \in SUBSET Addresses /\ {address} # {}
        /\ egress_resolved' \subseteq Addresses \ Blocked
        /\ egress_resolved' # {} => {address} \subseteq egress_resolved'
        /\ egress_resolved' = {} /\ Egress!Literals(a.host) # {} =>
                {address} \subseteq Egress!Literals(a.host)
    BY <2>1, <2>2 DEF EgressSound
  <2>5. UNCHANGED egress_asked
    BY <2>1
  <2> DEFINE pins == {address}
  <2> HIDE DEF pins
  <2>6. pins = {address}
    BY DEF pins
  <2>7. QED
    BY <1>3, <2>1, <2>3, <2>4, <2>5, <2>6
<1>6. QED
  BY <1>1, <1>2, <1>4, <1>5 DEF Egress!Next

LEMMA EgressStep == EgressSound /\ [Next]_vars => EgressSound'
<1> SUFFICES ASSUME EgressSound, [Next]_vars
             PROVE  EgressSound'
  OBVIOUS
<1>1. CASE Egress!Next
  BY <1>1, EgressNext
<1>2. CASE UNCHANGED egress
  BY <1>2 DEF egress, EgressSound, Authorized
<1>3. QED
  BY <1>1, <1>2 DEF Next, Unless, vars, egress

LEMMA EgressAlways == Spec => [](Egress!TypeOK /\ Egress!ConnectionIsCovered)
<1>1. EgressSound => Egress!TypeOK
  BY DEF EgressSound, Authorized, Egress!TypeOK
<1>2. EgressSound => Egress!ConnectionIsCovered
  BY DEF EgressSound, Authorized, Egress!ConnectionIsCovered
<1>3. QED
  BY <1>1, <1>2, EgressInit, EgressStep, PTL DEF Spec

-----------------------------------------------------------------------------
(* The snapshots of policy.                                                *)

PolicySound ==
    /\ policy_snapshot \in Snapshots /\ Policy!WellFormed(policy_snapshot)
    /\ \A d \in policy_decision :
        /\ d.request \in Asked /\ d.approved \in BOOLEAN
        /\ d.snapshot \in Snapshots /\ Policy!WellFormed(d.snapshot)
        /\ d.outcome = Policy!Outcome(d.snapshot, d.request, d.approved)
        /\ \A t \in Tiers :
            /\ d.snapshot[t].sequence <= policy_snapshot[t].sequence
            /\ d.snapshot[t].sequence = policy_snapshot[t].sequence =>
                    d.snapshot[t] = policy_snapshot[t]

LEMMA PolicyInit == Init => PolicySound
BY DEF Init, Policy!Init, PolicySound

LEMMA PolicyNext ==
    ASSUME PolicySound, Policy!Next
    PROVE  PolicySound'
<1>a. Policy!NoBundle.sequence = -1
  BY DEF Policy!NoBundle
<1>b. \A s \in Snapshots : \A t \in Tiers :
            s[t] = Policy!NoBundle \/ s[t].sequence \in Nat
  BY AuthoritiesAssumption DEF Policy!SnapshotAssumption
<1>0. \A s \in Snapshots : \A t \in Tiers :
        /\ s[t].sequence \in Int /\ s[t].sequence >= -1
        /\ s[t].sequence = -1 => s[t] = Policy!NoBundle
  <2>1. ASSUME NEW s \in Snapshots, NEW t \in Tiers, s[t] = Policy!NoBundle
        PROVE  s[t].sequence = -1
    BY <1>a, <2>1
  <2>2. \A n \in Nat : n \in Int /\ n >= -1 /\ n # -1
    OBVIOUS
  <2>3. -1 \in Int /\ -1 >= -1
    OBVIOUS
  <2>4. QED
    BY <1>b, <2>1, <2>2, <2>3
<1>1. ASSUME NEW s \in Snapshots, Policy!Update(s)
      PROVE  PolicySound'
  <2>1. /\ s \in Snapshots /\ Policy!WellFormed(s) /\ policy_snapshot' = s /\ policy_decision' = policy_decision
        /\ \A t \in Tiers : policy_snapshot[t] # Policy!NoBundle =>
                \/ s[t].sequence > policy_snapshot[t].sequence
                \/ s[t] = policy_snapshot[t]
    BY <1>1 DEF Policy!Update
  <2>2. ASSUME NEW d \in policy_decision, NEW t \in Tiers
        PROVE  /\ d.snapshot[t].sequence <= s[t].sequence
               /\ d.snapshot[t].sequence = s[t].sequence => d.snapshot[t] = s[t]
    <3>1. /\ d.snapshot \in Snapshots /\ policy_snapshot \in Snapshots
          /\ d.snapshot[t].sequence <= policy_snapshot[t].sequence
          /\ d.snapshot[t].sequence = policy_snapshot[t].sequence =>
                    d.snapshot[t] = policy_snapshot[t]
      BY DEF PolicySound
    <3>3. /\ d.snapshot[t].sequence \in Int /\ s[t].sequence \in Int
          /\ policy_snapshot[t].sequence \in Int
          /\ d.snapshot[t].sequence >= -1 /\ s[t].sequence >= -1
          /\ d.snapshot[t].sequence = -1 => d.snapshot[t] = Policy!NoBundle
          /\ s[t].sequence = -1 => s[t] = Policy!NoBundle
      BY <1>0, <3>1
    <3>4. CASE policy_snapshot[t] = Policy!NoBundle
      <4>1. d.snapshot[t].sequence <= -1
        BY <1>a, <3>1, <3>4
      <4>2. d.snapshot[t].sequence = -1
        BY <3>3, <4>1
      <4>3. QED
        BY <3>3, <4>2
    <3>5. CASE policy_snapshot[t] # Policy!NoBundle
      BY <2>1, <3>1, <3>3, <3>5
    <3>6. QED
      BY <3>4, <3>5
  <2>3. QED
    BY <2>1, <2>2 DEF PolicySound
<1>2. ASSUME NEW q \in Asked, NEW approved \in BOOLEAN, Policy!Decide(q, approved)
      PROVE  PolicySound'
  <2> DEFINE d == [request |-> q, approved |-> approved, snapshot |-> policy_snapshot,
                   outcome |-> Policy!Outcome(policy_snapshot, q, approved)]
  <2>1. policy_decision' = {d} /\ policy_snapshot' = policy_snapshot
    BY <1>2 DEF Policy!Decide
  <2>2. /\ d.request = q /\ d.approved = approved /\ d.snapshot = policy_snapshot
        /\ d.outcome = Policy!Outcome(policy_snapshot, q, approved)
    OBVIOUS
  <2> HIDE DEF d
  <2>3. \A t \in Tiers : policy_snapshot[t].sequence <= policy_snapshot[t].sequence
    BY <1>0 DEF PolicySound
  <2>4. QED
    BY <2>1, <2>2, <2>3 DEF PolicySound
<1>3. QED
  BY <1>1, <1>2 DEF Policy!Next

LEMMA PolicyStep == PolicySound /\ [Next]_vars => PolicySound'
<1> SUFFICES ASSUME PolicySound, [Next]_vars
             PROVE  PolicySound'
  OBVIOUS
<1>1. CASE Policy!Next
  BY <1>1, PolicyNext
<1>2. CASE UNCHANGED policy
  BY <1>2 DEF policy, PolicySound
<1>3. QED
  BY <1>1, <1>2 DEF Next, Unless, vars, policy

\* The bundles of its tiers are all an outcome depends on.
LEMMA OutcomeOfBundles ==
    ASSUME NEW s, NEW u, \A t \in Tiers : s[t] = u[t], NEW q, NEW approved
    PROVE  Policy!Outcome(s, q, approved) = Policy!Outcome(u, q, approved)
<1>1. Policy!RulesOf(s) = Policy!RulesOf(u)
  BY DEF Policy!RulesOf
<1>2. \A effect : Policy!Matching(s, q, effect) = Policy!Matching(u, q, effect)
  BY <1>1 DEF Policy!Matching
<1>3. Policy!NeedsApproval(s, q) <=> Policy!NeedsApproval(u, q)
  BY <1>2 DEF Policy!NeedsApproval
<1>4. QED
  BY <1>2, <1>3 DEF Policy!Outcome

LEMMA PolicyAlways == Spec => [](Policy!TypeOK /\ Policy!SequencesDecide)
<1>1. PolicySound => Policy!TypeOK
  BY DEF PolicySound, Policy!TypeOK, Policy!Outcome
<1>2. PolicySound => Policy!SequencesDecide
  <2> SUFFICES ASSUME PolicySound, NEW d \in policy_decision
               PROVE  /\ \A t \in Tiers :
                            d.snapshot[t].sequence <= policy_snapshot[t].sequence
                      /\ (\A t \in Tiers :
                            d.snapshot[t].sequence = policy_snapshot[t].sequence) =>
                         Policy!Outcome(policy_snapshot, d.request, d.approved) = d.outcome
                      /\ \A t \in Tiers :
                            /\ Policy!Matching(d.snapshot, d.request, "Deny")
                                    \cap d.snapshot[t].rules # {}
                            /\ d.snapshot[t].sequence = policy_snapshot[t].sequence
                            => Policy!Outcome(policy_snapshot, d.request, d.approved) = "Deny"
    BY DEF Policy!SequencesDecide
  <2>1. \A t \in Tiers : d.snapshot[t].sequence <= policy_snapshot[t].sequence
    BY DEF PolicySound
  <2>2. ASSUME \A t \in Tiers : d.snapshot[t].sequence = policy_snapshot[t].sequence
        PROVE  Policy!Outcome(policy_snapshot, d.request, d.approved) = d.outcome
    <3>1. \A t \in Tiers : policy_snapshot[t] = d.snapshot[t]
      BY <2>2 DEF PolicySound
    <3>2. d.outcome = Policy!Outcome(d.snapshot, d.request, d.approved)
      BY DEF PolicySound
    <3>3. Policy!Outcome(policy_snapshot, d.request, d.approved)
                = Policy!Outcome(d.snapshot, d.request, d.approved)
      BY <3>1, OutcomeOfBundles
    <3>4. QED
      BY <3>2, <3>3
  <2>3. ASSUME NEW t \in Tiers,
               Policy!Matching(d.snapshot, d.request, "Deny") \cap d.snapshot[t].rules # {},
               d.snapshot[t].sequence = policy_snapshot[t].sequence
        PROVE  Policy!Outcome(policy_snapshot, d.request, d.approved) = "Deny"
    <3>1. d.snapshot[t] = policy_snapshot[t]
      BY <2>3 DEF PolicySound
    <3>2. PICK r : /\ r \in Policy!Matching(d.snapshot, d.request, "Deny")
                   /\ r \in policy_snapshot[t].rules
      BY <2>3, <3>1
    <3>3. r \in Policy!Matching(policy_snapshot, d.request, "Deny")
      BY <3>2 DEF Policy!Matching, Policy!RulesOf
    <3>4. QED
      BY <3>3 DEF Policy!Outcome
  <2>4. QED
    BY <2>1, <2>2, <2>3
<1>3. QED
  BY <1>1, <1>2, PolicyInit, PolicyStep, PTL DEF Spec

-----------------------------------------------------------------------------
(* The registry of plugins.                                                *)

PluginsSound == Plugin!TypeOK /\ Plugin!AuthorizedWasVetted

LEMMA PluginsInit == Init => PluginsSound
BY DEF Init, Plugin!Init, PluginsSound, Plugin!TypeOK, Plugin!AuthorizedWasVetted, Plugin!Live

LEMMA PluginsNext ==
    ASSUME PluginsSound, Plugin!Next
    PROVE  /\ PluginsSound'
           /\ \A p \in Plugins :
                \/ plugins_records'[p].version >= plugins_records[p].version
                \/ p \in plugins_revoked'
<1>0. /\ plugins_records \in [Plugins -> Plugin!PluginManifests \cup {Plugin!NoManifest}]
      /\ plugins_admitted \subseteq Plugins /\ plugins_revoked \subseteq Plugins
      /\ plugins_sequence \in Nat /\ plugins_vetted \subseteq Plugin!PluginManifests
      /\ \A p \in Plugins :
            /\ p \in plugins_admitted => plugins_records[p] \in plugins_vetted
            /\ p \in plugins_revoked => plugins_records[p] = Plugin!NoManifest
  BY DEF PluginsSound, Plugin!TypeOK, Plugin!AuthorizedWasVetted, Plugin!Live
<1>1. /\ \A m \in Plugin!PluginManifests :
            m.version \in Nat /\ m.plugin \in Plugins /\ m # Plugin!NoManifest
      /\ Plugin!NoManifest.version = 0
  <2>1. Versions \subseteq Nat /\ \A p \in Plugins : p # "none"
    BY AuthoritiesAssumption DEF Plugin!RegistryAssumption
  <2>2. Plugin!NoManifest.plugin = "none" /\ Plugin!NoManifest.version = 0
    BY DEF Plugin!NoManifest
  <2>3. \A m \in Plugin!PluginManifests : m.version \in Versions /\ m.plugin \in Plugins
    BY DEF Plugin!PluginManifests
  <2>4. QED
    BY <2>1, <2>2, <2>3
<1>2. \A p \in Plugins : plugins_records[p].version \in Nat
  BY <1>0, <1>1
<1>3. ASSUME NEW m \in Plugin!PluginManifests, Plugin!Publish(m)
      PROVE  /\ PluginsSound'
             /\ \A p \in Plugins : plugins_records'[p].version >= plugins_records[p].version
  <2>1. /\ m.plugin \notin plugins_revoked /\ m.version > plugins_records[m.plugin].version
        /\ plugins_sequence' = plugins_sequence + 1
        /\ plugins_records' = [plugins_records EXCEPT ![m.plugin] = m]
        /\ plugins_admitted' = plugins_admitted \ {m.plugin}
        /\ UNCHANGED <<plugins_revoked, plugins_vetted>>
    BY <1>3 DEF Plugin!Publish
  <2>2. /\ plugins_records' \in [Plugins -> Plugin!PluginManifests \cup {Plugin!NoManifest}]
        /\ plugins_records'[m.plugin] = m
        /\ \A p \in Plugins \ {m.plugin} : plugins_records'[p] = plugins_records[p]
    BY <1>0, <1>1, <2>1
  <2>3. PluginsSound'
    BY <1>0, <2>1, <2>2 DEF PluginsSound, Plugin!TypeOK, Plugin!AuthorizedWasVetted, Plugin!Live
  <2>4. QED
    BY <1>1, <1>2, <2>1, <2>2, <2>3
<1>4. ASSUME NEW p \in Plugins, Plugin!MarkAdmitted(p)
      PROVE  PluginsSound' /\ plugins_records' = plugins_records
  <2>1. /\ plugins_records[p] # Plugin!NoManifest
        /\ plugins_admitted' = plugins_admitted \cup {p}
        /\ plugins_vetted' = plugins_vetted \cup {plugins_records[p]}
        /\ UNCHANGED <<plugins_records, plugins_sequence, plugins_revoked>>
    BY <1>4 DEF Plugin!MarkAdmitted, Plugin!Live
  <2>2. QED
    BY <1>0, <2>1 DEF PluginsSound, Plugin!TypeOK, Plugin!AuthorizedWasVetted, Plugin!Live
<1>5. ASSUME NEW p \in Plugins, Plugin!Revoke(p)
      PROVE  /\ PluginsSound' /\ p \in plugins_revoked'
             /\ \A q \in Plugins \ {p} : plugins_records'[q] = plugins_records[q]
  <2>1. /\ plugins_records' = [plugins_records EXCEPT ![p] = Plugin!NoManifest]
        /\ plugins_admitted' = plugins_admitted \ {p}
        /\ plugins_revoked' = plugins_revoked \cup {p}
        /\ UNCHANGED <<plugins_sequence, plugins_vetted>>
    BY <1>5 DEF Plugin!Revoke
  <2>2. /\ plugins_records' \in [Plugins -> Plugin!PluginManifests \cup {Plugin!NoManifest}]
        /\ plugins_records'[p] = Plugin!NoManifest
        /\ \A q \in Plugins \ {p} : plugins_records'[q] = plugins_records[q]
    BY <1>0, <2>1
  <2>3. QED
    BY <1>0, <2>1, <2>2 DEF PluginsSound, Plugin!TypeOK, Plugin!AuthorizedWasVetted, Plugin!Live
<1>6. QED
  <2>1. CASE \E m \in Plugin!PluginManifests : Plugin!Publish(m)
    BY <1>3, <2>1
  <2>2. CASE \E p \in Plugins : Plugin!MarkAdmitted(p)
    BY <1>2, <1>4, <2>2
  <2>3. CASE \E p \in Plugins : Plugin!Revoke(p)
    <3>1. PICK p \in Plugins : Plugin!Revoke(p)
      BY <2>3
    <3>2. QED
      BY <1>2, <1>5, <3>1
  <2>4. QED
    BY <2>1, <2>2, <2>3 DEF Plugin!Next

LEMMA PluginsStep ==
    PluginsSound /\ [Next]_vars =>
        /\ PluginsSound'
        /\ [\A p \in Plugins :
                \/ plugins_records'[p].version >= plugins_records[p].version
                \/ p \in plugins_revoked']_Plugin!vars
<1> SUFFICES ASSUME PluginsSound, [Next]_vars
             PROVE  /\ PluginsSound'
                    /\ [\A p \in Plugins :
                            \/ plugins_records'[p].version >= plugins_records[p].version
                            \/ p \in plugins_revoked']_Plugin!vars
  OBVIOUS
<1>1. CASE Plugin!Next
  BY <1>1, PluginsNext
<1>2. CASE UNCHANGED plugins
  BY <1>2 DEF plugins, PluginsSound, Plugin!TypeOK, Plugin!AuthorizedWasVetted, Plugin!Live,
              Plugin!vars
<1>3. QED
  BY <1>1, <1>2 DEF Next, Unless, vars, plugins

LEMMA PluginsAlways ==
    Spec => [](Plugin!TypeOK /\ Plugin!AuthorizedWasVetted) /\ Plugin!VersionsRise
BY PluginsInit, PluginsStep, PTL DEF Spec, PluginsSound, Plugin!VersionsRise

-----------------------------------------------------------------------------
(* The circuits of the plugins that run.                                   *)

\* A failure counted is a result noted.
HostSound ==
    /\ Plugin!HostTypeOK /\ Plugin!CircuitFollowsFailures
    /\ \A p \in Hosted : host_failures[p] <= host_results[p]

LEMMA HostInit == Init => HostSound
BY AuthoritiesAssumption
DEF Init, Plugin!HostInit, HostSound, Plugin!HostTypeOK, Plugin!CircuitFollowsFailures,
    Plugin!Executable, Plugin!Circuits, Plugin!HostAssumption

LEMMA HostNext ==
    ASSUME HostSound, Plugin!HostNext
    PROVE  HostSound'
<1> USE AuthoritiesAssumption
    DEF HostSound, Plugin!HostTypeOK, Plugin!CircuitFollowsFailures, Plugin!Executable,
        Plugin!Noted, Plugin!Circuits, Plugin!HostAssumption, Plugin!CIRCUIT_FAILURE_THRESHOLD
<1>1. ASSUME NEW p \in Hosted, Plugin!Admit(p)
      PROVE  HostSound'
  BY <1>1 DEF Plugin!Admit
<1>2. ASSUME NEW p \in Hosted, Plugin!NoteSuccess(p)
      PROVE  HostSound'
  BY <1>2 DEF Plugin!NoteSuccess
<1>3. ASSUME NEW p \in Hosted, Plugin!NoteFailure(p)
      PROVE  HostSound'
  BY <1>3 DEF Plugin!NoteFailure
<1>4. ASSUME NEW p \in Hosted, Plugin!Quarantine(p)
      PROVE  HostSound'
  BY <1>4 DEF Plugin!Quarantine
<1>5. QED
  BY <1>1, <1>2, <1>3, <1>4 DEF Plugin!HostNext

LEMMA HostStep == HostSound /\ [Next]_vars => HostSound'
<1> SUFFICES ASSUME HostSound, [Next]_vars
             PROVE  HostSound'
  OBVIOUS
<1>1. CASE Plugin!HostNext
  BY <1>1, HostNext
<1>2. CASE UNCHANGED host
  BY <1>2 DEF host, HostSound, Plugin!HostTypeOK, Plugin!CircuitFollowsFailures,
              Plugin!Executable
<1>3. QED
  BY <1>1, <1>2 DEF Next, Unless, vars, host

LEMMA HostAlways == Spec => [](Plugin!HostTypeOK /\ Plugin!CircuitFollowsFailures)
BY HostInit, HostStep, PTL DEF Spec, HostSound

-----------------------------------------------------------------------------
(* The epochs of sealed objects.                                           *)

\* The last epoch seen is one, and none admitted is above it.
SyncSound ==
    /\ Sync!TypeOK /\ Sync!OpenedAsSealed
    /\ \A w \in Workspaces : \A m, n \in sync_last_seen[w] : m = n
    /\ \A w \in Workspaces, o \in Epochs : <<w, o>> \in sync_advanced =>
            \E n \in sync_last_seen[w] : o <= n

LEMMA SyncInit == Init => SyncSound
BY DEF Init, Sync!Init, SyncSound, Sync!TypeOK, Sync!OpenedAsSealed

LEMMA SyncNext ==
    ASSUME SyncSound, Sync!Next
    PROVE  /\ SyncSound'
           /\ \A w \in Workspaces :
                /\ \A e \in Epochs : <<w, e>> \in sync_advanced' \ sync_advanced =>
                    e >= sync_floor[w]
                    /\ \A o \in Epochs : <<w, o>> \in sync_advanced => o < e
                /\ \A e \in sync_last_seen[w] : \A n \in sync_last_seen'[w] : e <= n
<1>0. Epochs \subseteq Nat
  BY AuthoritiesAssumption DEF Sync!SyncAssumption
<1>1. ASSUME NEW k \in SealKeys, NEW e \in Epochs, NEW w \in Workspaces, Sync!Seal(k, e, w)
      PROVE  SyncSound' /\ UNCHANGED <<sync_last_seen, sync_advanced>>
  <2> DEFINE o == [box |-> [key |-> k, epoch |-> e, workspace |-> w], epoch |-> e]
  <2>1. o \in [box : Sync!Boxes, epoch : Epochs]
    BY DEF Sync!Boxes
  <2>2. sync_server' = sync_server \cup {o}
        /\ UNCHANGED <<sync_last_seen, sync_floor, sync_advanced, sync_opened>>
    BY <1>1 DEF Sync!Seal
  <2> HIDE DEF o
  <2>3. QED
    BY <2>1, <2>2 DEF SyncSound, Sync!TypeOK, Sync!OpenedAsSealed
<1>2. ASSUME NEW o \in sync_server, NEW e \in Epochs, Sync!Relabel(o, e)
      PROVE  SyncSound' /\ UNCHANGED <<sync_last_seen, sync_advanced>>
  <2>1. o \in [box : Sync!Boxes, epoch : Epochs]
    BY DEF SyncSound, Sync!TypeOK
  <2>2. [o EXCEPT !.epoch = e] \in [box : Sync!Boxes, epoch : Epochs]
    BY <2>1
  <2>3. sync_server' = sync_server \cup {[o EXCEPT !.epoch = e]}
        /\ UNCHANGED <<sync_last_seen, sync_floor, sync_advanced, sync_opened>>
    BY <1>2 DEF Sync!Relabel
  <2>4. QED
    BY <2>2, <2>3 DEF SyncSound, Sync!TypeOK, Sync!OpenedAsSealed
<1>3. ASSUME NEW o \in sync_server, NEW k \in SealKeys, Sync!Open(k, o)
      PROVE  SyncSound' /\ UNCHANGED <<sync_last_seen, sync_advanced>>
  <2> DEFINE found == [key |-> k, epoch |-> o.epoch, box |-> o.box]
  <2>1. o \in [box : Sync!Boxes, epoch : Epochs]
    BY DEF SyncSound, Sync!TypeOK
  <2>2. /\ found \in [key : SealKeys, epoch : Epochs, box : Sync!Boxes]
        /\ found.key = k /\ found.epoch = o.epoch /\ found.box = o.box
    BY <2>1
  <2>3. /\ o.box.key = k /\ o.box.epoch = o.epoch
        /\ sync_opened' = sync_opened \cup {found}
        /\ UNCHANGED <<sync_server, sync_last_seen, sync_floor, sync_advanced>>
    BY <1>3 DEF Sync!Open, Sync!Opens
  <2> HIDE DEF found
  <2>4. QED
    BY <2>2, <2>3 DEF SyncSound, Sync!TypeOK, Sync!OpenedAsSealed
<1>4. ASSUME NEW w \in Workspaces, NEW e \in Epochs, Sync!Advance(w, e)
      PROVE  /\ SyncSound'
             /\ e >= sync_floor[w] /\ sync_advanced' = sync_advanced \cup {<<w, e>>}
             /\ \A o \in Epochs : <<w, o>> \in sync_advanced => o < e
             /\ \A last \in sync_last_seen[w] : last < e
             /\ sync_last_seen'[w] = {e}
             /\ \A v \in Workspaces \ {w} : sync_last_seen'[v] = sync_last_seen[v]
  <2>1. /\ e >= sync_floor[w] /\ \A last \in sync_last_seen[w] : e > last
        /\ sync_last_seen' = [sync_last_seen EXCEPT ![w] = {e}]
        /\ sync_advanced' = sync_advanced \cup {<<w, e>>}
        /\ UNCHANGED <<sync_server, sync_floor, sync_opened>>
    BY <1>4 DEF Sync!Advance
  <2>2. /\ sync_last_seen' \in [Workspaces -> SUBSET Epochs] /\ sync_last_seen'[w] = {e}
        /\ \A v \in Workspaces \ {w} : sync_last_seen'[v] = sync_last_seen[v]
    BY <2>1 DEF SyncSound, Sync!TypeOK
  <2>3. sync_last_seen[w] \subseteq Epochs
    BY DEF SyncSound, Sync!TypeOK
  <2>4. \A o \in Epochs : <<w, o>> \in sync_advanced => o < e
    <3>1. ASSUME NEW o \in Epochs, <<w, o>> \in sync_advanced
          PROVE  o < e
      <4>1. PICK n \in sync_last_seen[w] : o <= n
        BY <3>1 DEF SyncSound
      <4>2. e > n /\ n \in Nat /\ o \in Nat /\ e \in Nat
        BY <1>0, <2>1, <2>3
      <4>3. QED
        BY <4>1, <4>2
    <3>2. QED
      BY <3>1
  <2>5. Sync!TypeOK' /\ Sync!OpenedAsSealed'
    BY <2>1, <2>2 DEF SyncSound, Sync!TypeOK, Sync!OpenedAsSealed
  <2>6. ASSUME NEW v \in Workspaces, NEW o \in Epochs, <<v, o>> \in sync_advanced'
        PROVE  \E n \in sync_last_seen'[v] : o <= n
    <3>1. CASE v = w
      <4>1. o = e \/ o < e
        BY <2>1, <2>4, <2>6, <3>1
      <4>2. o \in Nat /\ e \in Nat
        BY <1>0
      <4>3. QED
        BY <2>2, <3>1, <4>1, <4>2
    <3>2. CASE v # w
      BY <2>1, <2>2, <2>6, <3>2 DEF SyncSound
    <3>3. QED
      BY <3>1, <3>2
  <2>7. \A v \in Workspaces : \A m, n \in sync_last_seen'[v] : m = n
    BY <2>2 DEF SyncSound
  <2>8. QED
    BY <2>1, <2>2, <2>3, <2>4, <2>5, <2>6, <2>7 DEF SyncSound
<1>5. ASSUME NEW w \in Workspaces, NEW e \in Epochs, Sync!RevokeDevice(w, e)
      PROVE  SyncSound' /\ UNCHANGED <<sync_last_seen, sync_advanced>>
  BY <1>5 DEF Sync!RevokeDevice, SyncSound, Sync!TypeOK, Sync!OpenedAsSealed
<1>6. \A w \in Workspaces : \A m, n \in sync_last_seen[w] : m <= n
  <2>1. \A w \in Workspaces : sync_last_seen[w] \subseteq Nat
    BY <1>0 DEF SyncSound, Sync!TypeOK
  <2>2. QED
    BY <2>1 DEF SyncSound
<1>7. QED
  <2>1. CASE SyncSound' /\ UNCHANGED <<sync_last_seen, sync_advanced>>
    BY <1>6, <2>1
  <2>2. ASSUME NEW w \in Workspaces, NEW e \in Epochs, Sync!Advance(w, e)
        PROVE  /\ SyncSound'
               /\ \A v \in Workspaces :
                    /\ \A o \in Epochs : <<v, o>> \in sync_advanced' \ sync_advanced =>
                        o >= sync_floor[v]
                        /\ \A p \in Epochs : <<v, p>> \in sync_advanced => p < o
                    /\ \A o \in sync_last_seen[v] : \A n \in sync_last_seen'[v] : o <= n
    <3>1. /\ SyncSound'
          /\ e >= sync_floor[w] /\ sync_advanced' = sync_advanced \cup {<<w, e>>}
          /\ \A o \in Epochs : <<w, o>> \in sync_advanced => o < e
          /\ \A last \in sync_last_seen[w] : last < e
          /\ sync_last_seen'[w] = {e}
          /\ \A v \in Workspaces \ {w} : sync_last_seen'[v] = sync_last_seen[v]
      BY <1>4, <2>2
    <3>2. ASSUME NEW v \in Workspaces, NEW o \in Epochs,
                 <<v, o>> \in sync_advanced' \ sync_advanced
          PROVE  v = w /\ o = e
      BY <3>1, <3>2
    <3>3. ASSUME NEW v \in Workspaces, NEW o \in sync_last_seen[v],
                 NEW n \in sync_last_seen'[v]
          PROVE  o <= n
      <4>1. CASE v = w
        <5>1. o \in Epochs /\ n = e /\ o < e
          BY <3>1, <4>1 DEF SyncSound, Sync!TypeOK
        <5>2. o \in Nat /\ e \in Nat
          BY <1>0, <5>1
        <5>3. QED
          BY <5>1, <5>2
      <4>2. CASE v # w
        BY <1>6, <3>1, <4>2
      <4>3. QED
        BY <4>1, <4>2
    <3>4. QED
      BY <3>1, <3>2, <3>3
  <2>3. QED
    BY <1>1, <1>2, <1>3, <1>5, <2>1, <2>2 DEF Sync!Next

LEMMA SyncStep ==
    SyncSound /\ [Next]_vars =>
        /\ SyncSound'
        /\ [\A w \in Workspaces :
                /\ \A e \in Epochs : <<w, e>> \in sync_advanced' \ sync_advanced =>
                    e >= sync_floor[w]
                    /\ \A o \in Epochs : <<w, o>> \in sync_advanced => o < e
                /\ \A e \in sync_last_seen[w] : \A n \in sync_last_seen'[w] : e <= n
           ]_Sync!vars
<1> SUFFICES ASSUME SyncSound, [Next]_vars
             PROVE  /\ SyncSound'
                    /\ \/ \A w \in Workspaces :
                            /\ \A e \in Epochs : <<w, e>> \in sync_advanced' \ sync_advanced =>
                                e >= sync_floor[w]
                                /\ \A o \in Epochs : <<w, o>> \in sync_advanced => o < e
                            /\ \A e \in sync_last_seen[w] : \A n \in sync_last_seen'[w] : e <= n
                       \/ UNCHANGED Sync!vars
  OBVIOUS
<1>1. CASE Sync!Next
  BY <1>1, SyncNext
<1>2. CASE UNCHANGED sync
  BY <1>2 DEF sync, SyncSound, Sync!TypeOK, Sync!OpenedAsSealed, Sync!vars
<1>3. QED
  BY <1>1, <1>2 DEF Next, Unless, vars, sync

LEMMA SyncAlways == Spec => [](Sync!TypeOK /\ Sync!OpenedAsSealed) /\ Sync!EpochsRise
BY SyncInit, SyncStep, PTL DEF Spec, SyncSound, Sync!EpochsRise

-----------------------------------------------------------------------------
(* The workshop of candidates and the registry of code capsules.           *)

\* What is recorded of the versions of a name.
Versioned ==
    \A n \in Names :
        /\ \A i \in DOMAIN codes_history[n] :
                /\ CapsuleName[codes_history[n][i]] = n
                /\ codes_history[n][i] \in workshop_reviewed
        /\ codes_active[n] # "none" =>
                \E i \in DOMAIN codes_history[n] : codes_history[n][i] = codes_active[n]
        /\ codes_history[n] # <<>> => codes_active[n] # "none"

WorkshopSound ==
    /\ Codes!WorkshopTypeOK /\ Codes!ActiveWasReviewed
    /\ \A c \in Candidates : workshop_state[c] = "Passed" => workshop_evaluations[c] = "passed"

CodesSound ==
    /\ WorkshopSound
    /\ codes_budget \in [Candidates -> 0..FullBudget]
    /\ codes_history \in [Names -> Seq(Candidates)]
    /\ codes_active \in [Names -> Candidates \cup {"none"}]
    /\ Versioned

LEMMA CodesInit == Init => CodesSound
<1> SUFFICES ASSUME Codes!Init
             PROVE  CodesSound
  BY DEF Init
<1>1. WorkshopSound
  BY DEF Codes!Init, Codes!WorkshopInit, WorkshopSound, Codes!WorkshopTypeOK,
         Codes!ActiveWasReviewed, Codes!States
<1>2. Versioned
  BY EmptySeq DEF Codes!Init, Versioned
<1>3. QED
  BY <1>1, <1>2, AuthoritiesAssumption DEF Codes!Init, CodesSound, Codes!CapsuleAssumption

\* What the workshop does to one candidate.
LEMMA WorkshopSteps ==
    ASSUME WorkshopSound, NEW c \in Candidates,
           \/ Codes!Propose(c) \/ Codes!Quarantine(c) \/ Codes!Promote(c) \/ Codes!Reject(c)
           \/ Codes!Revoke(c)
           \/ \E passed \in BOOLEAN : Codes!Judged(c, passed)
    PROVE  WorkshopSound' /\ workshop_reviewed \subseteq workshop_reviewed'
<1> USE DEF WorkshopSound, Codes!WorkshopTypeOK, Codes!ActiveWasReviewed, Codes!States
<1>1. CASE Codes!Propose(c)
  BY <1>1 DEF Codes!Propose
<1>2. CASE Codes!Quarantine(c)
  BY <1>2 DEF Codes!Quarantine
<1>3. CASE Codes!Promote(c)
  BY <1>3 DEF Codes!Promote
<1>4. CASE Codes!Reject(c)
  BY <1>4 DEF Codes!Reject
<1>5. CASE Codes!Revoke(c)
  BY <1>5 DEF Codes!Revoke
<1>6. ASSUME NEW passed \in BOOLEAN, Codes!Judged(c, passed)
      PROVE  WorkshopSound' /\ workshop_reviewed \subseteq workshop_reviewed'
  BY <1>6 DEF Codes!Judged
<1>7. QED
  BY <1>1, <1>2, <1>3, <1>4, <1>5, <1>6

LEMMA WorkshopNext ==
    ASSUME CodesSound, Codes!WorkshopNext, UNCHANGED codes
    PROVE  CodesSound'
<1>1. WorkshopSound' /\ workshop_reviewed \subseteq workshop_reviewed'
  BY WorkshopSteps DEF CodesSound, Codes!WorkshopNext, Codes!Evaluate
<1>2. QED
  BY <1>1 DEF CodesSound, codes, Versioned

LEMMA PromoteCapsuleKeeps ==
    ASSUME CodesSound, NEW c \in Candidates, Codes!PromoteCapsule(c)
    PROVE  CodesSound'
<1> DEFINE m == CapsuleName[c]
<1>1. m \in Names /\ c # "none"
  BY AuthoritiesAssumption DEF Codes!CapsuleAssumption
<1>2. /\ Codes!Promote(c)
      /\ codes_history' = [codes_history EXCEPT ![m] = Append(codes_history[m], c)]
      /\ codes_active' = [codes_active EXCEPT ![m] = c]
      /\ codes_budget' = codes_budget
  BY DEF Codes!PromoteCapsule
<1>3. /\ WorkshopSound' /\ workshop_reviewed \subseteq workshop_reviewed'
      /\ c \in workshop_reviewed'
  BY <1>2, WorkshopSteps DEF CodesSound, WorkshopSound, Codes!Promote
<1> DEFINE old == codes_history[m]
<1>4. CapsuleName[c] = m /\ old = codes_history[m]
  OBVIOUS
<1> HIDE DEF m
<1>5. old \in Seq(Candidates)
  BY <1>1 DEF CodesSound
<1>6. /\ codes_history' \in [Names -> Seq(Candidates)]
      /\ codes_history'[m] = Append(old, c)
      /\ \A n \in Names \ {m} : codes_history'[n] = codes_history[n]
      /\ codes_active' \in [Names -> Candidates \cup {"none"}]
      /\ codes_active'[m] = c
      /\ \A n \in Names \ {m} : codes_active'[n] = codes_active[n]
  BY <1>1, <1>2, <1>5 DEF CodesSound
<1> HIDE DEF old
<1>7. /\ Append(old, c) \in Seq(Candidates) /\ Len(old) \in Nat
      /\ DOMAIN Append(old, c) = 1..Len(old) + 1
      /\ DOMAIN old = 1..Len(old)
      /\ Append(old, c)[Len(old) + 1] = c
      /\ \A i \in 1..Len(old) : Append(old, c)[i] = old[i]
  BY <1>5
<1>8. ASSUME NEW i \in DOMAIN Append(old, c)
      PROVE  /\ CapsuleName[Append(old, c)[i]] = m
             /\ Append(old, c)[i] \in workshop_reviewed'
  <2>1. CASE i \in 1..Len(old)
    BY <1>1, <1>3, <1>4, <1>7, <2>1 DEF CodesSound, Versioned
  <2>2. CASE i = Len(old) + 1
    BY <1>3, <1>4, <1>7, <2>2
  <2>3. QED
    BY <1>7, <2>1, <2>2
<1>9. Versioned'
  <2>1. ASSUME NEW n \in Names
        PROVE  /\ \A i \in DOMAIN codes_history'[n] :
                    /\ CapsuleName[codes_history'[n][i]] = n
                    /\ codes_history'[n][i] \in workshop_reviewed'
               /\ codes_active'[n] # "none" =>
                    \E i \in DOMAIN codes_history'[n] : codes_history'[n][i] = codes_active'[n]
               /\ codes_history'[n] # <<>> => codes_active'[n] # "none"
    <3>1. CASE n = m
      <4>1. Len(old) + 1 \in DOMAIN Append(old, c)
        BY <1>7
      <4>2. QED
        BY <1>1, <1>6, <1>7, <1>8, <3>1, <4>1
    <3>2. CASE n # m
      BY <1>3, <1>6, <3>2 DEF CodesSound, Versioned
    <3>3. QED
      BY <3>1, <3>2
  <2>2. QED
    BY <2>1 DEF Versioned
<1>10. QED
  BY <1>2, <1>3, <1>6, <1>9 DEF CodesSound

LEMMA CodesNext ==
    ASSUME CodesSound, Codes!Next
    PROVE  CodesSound'
<1>0. FullBudget \in Nat \ {0}
  BY AuthoritiesAssumption DEF Codes!CapsuleAssumption
<1>1. ASSUME NEW c \in Candidates, Codes!Admit(c)
      PROVE  CodesSound'
  <2>1. WorkshopSound' /\ workshop_reviewed \subseteq workshop_reviewed'
    BY <1>1, WorkshopSteps DEF CodesSound, Codes!Admit
  <2>2. /\ codes_budget' = [codes_budget EXCEPT ![c] = FullBudget]
        /\ UNCHANGED <<codes_history, codes_active>>
    BY <1>1 DEF Codes!Admit
  <2>3. codes_budget' \in [Candidates -> 0..FullBudget]
    BY <1>0, <2>2 DEF CodesSound
  <2>4. QED
    BY <2>1, <2>2, <2>3 DEF CodesSound, Versioned
<1>2. ASSUME NEW c \in Candidates, NEW passed \in BOOLEAN, Codes!EvaluateCapsule(c, passed)
      PROVE  CodesSound'
  <2>1. WorkshopSound' /\ workshop_reviewed \subseteq workshop_reviewed'
    BY <1>2, WorkshopSteps DEF CodesSound, Codes!EvaluateCapsule
  <2>2. QED
    BY <1>2, <2>1 DEF CodesSound, Versioned, Codes!EvaluateCapsule
<1>3. ASSUME NEW c \in Candidates, NEW ms \in 1..FullBudget, Codes!ConsumeBudget(c, ms)
      PROVE  CodesSound'
  <2>1. /\ codes_budget' = [codes_budget EXCEPT ![c] = IF @ > ms THEN @ - ms ELSE 0]
        /\ UNCHANGED <<workshop_state, workshop_evaluations, workshop_promotions,
                       workshop_revoked, workshop_reviewed, codes_history, codes_active>>
    BY <1>3 DEF Codes!ConsumeBudget, Codes!workshop
  <2>2. codes_budget' \in [Candidates -> 0..FullBudget]
    BY <1>0, <2>1 DEF CodesSound
  <2>3. QED
    BY <2>1, <2>2 DEF CodesSound, Versioned, WorkshopSound, Codes!WorkshopTypeOK,
                      Codes!ActiveWasReviewed
<1>4. ASSUME NEW n \in Names, NEW c \in Candidates, Codes!Rollback(n, c)
      PROVE  CodesSound'
  <2>1. /\ \E i \in DOMAIN codes_history[n] : codes_history[n][i] = c
        /\ codes_active' = [codes_active EXCEPT ![n] = c]
        /\ UNCHANGED <<workshop_state, workshop_evaluations, workshop_promotions,
                       workshop_revoked, workshop_reviewed, codes_budget, codes_history>>
    BY <1>4 DEF Codes!Rollback, Codes!workshop
  <2>2. /\ codes_active' \in [Names -> Candidates \cup {"none"}] /\ codes_active'[n] = c
        /\ \A m \in Names \ {n} : codes_active'[m] = codes_active[m]
        /\ c # "none"
    BY <2>1, AuthoritiesAssumption DEF CodesSound, Codes!CapsuleAssumption
  <2>3. Versioned'
    BY <2>1, <2>2 DEF CodesSound, Versioned
  <2>4. QED
    BY <2>1, <2>2, <2>3 DEF CodesSound, WorkshopSound, Codes!WorkshopTypeOK,
                            Codes!ActiveWasReviewed
<1>5. QED
  BY <1>1, <1>2, <1>3, <1>4, PromoteCapsuleKeeps DEF Codes!Next

LEMMA CodesStep == CodesSound /\ [Next]_vars => CodesSound'
<1> SUFFICES ASSUME CodesSound, [Next]_vars
             PROVE  CodesSound'
  OBVIOUS
<1>1. CASE Codes!Next
  BY <1>1, CodesNext
<1>2. CASE Codes!WorkshopNext /\ UNCHANGED codes
  BY <1>2, WorkshopNext
<1>3. CASE UNCHANGED <<workshop, codes>>
  BY <1>3 DEF workshop, codes, CodesSound, Versioned, WorkshopSound, Codes!WorkshopTypeOK,
              Codes!ActiveWasReviewed
<1>4. QED
  BY <1>1, <1>2, <1>3 DEF Next, Unless, vars, workshop, codes

LEMMA CodesAlways ==
    Spec => [](Codes!TypeOK /\ Codes!ActiveWasReviewed /\ Codes!ActiveWasPromoted)
<1>1. CodesSound => Codes!TypeOK
  BY DEF CodesSound, WorkshopSound, Codes!TypeOK
<1>2. CodesSound => Codes!ActiveWasReviewed
  BY DEF CodesSound, WorkshopSound
<1>3. CodesSound => Codes!ActiveWasPromoted
  BY DEF CodesSound, WorkshopSound, Versioned, Codes!ActiveWasPromoted, Codes!Authorizes,
         Codes!ActiveWasReviewed
<1>4. QED
  BY <1>1, <1>2, <1>3, CodesInit, CodesStep, PTL DEF Spec

-----------------------------------------------------------------------------
(* The memories of a workspace.                                            *)

\* An entry not promoted yet replaced nothing.
MemorySound ==
    /\ Memory!TypeOK /\ Memory!OneTruthPerKey /\ Memory!AnswersAreTruth
    /\ DOMAIN memory_asked = {"keys", "ceiling", "now"}
    /\ \A e \in Entries :
            memory_state[e] \in {"absent", "Candidate"} => memory_conflicts[e] = {}

LEMMA MemoryInit == Init => MemorySound
BY AuthoritiesAssumption
DEF Init, Memory!Init, MemorySound, Memory!TypeOK, Memory!OneTruthPerKey,
    Memory!AnswersAreTruth, Memory!MemoryAssumption, Memory!States

LEMMA MemoryNext ==
    ASSUME MemorySound, Memory!Next
    PROVE  /\ MemorySound'
           /\ \A e \in Entries :
                /\ memory_state[e] = "Revoked" => memory_state'[e] = "Revoked"
                /\ memory_state[e] = "Stale" => memory_state'[e] \in {"Stale", "Revoked"}
                /\ memory_state[e] \in {"Stale", "Revoked"} /\ memory_views' # memory_views =>
                        e \notin memory_views'
<1>0. /\ \A e \in Entries : e.sensitivity \in Nat /\ e.expires \in Nat
      /\ MaxTime \in Nat
  BY AuthoritiesAssumption DEF Memory!MemoryAssumption
<1> DEFINE Later ==
        \A e \in Entries :
            /\ memory_state[e] = "Revoked" => memory_state'[e] = "Revoked"
            /\ memory_state[e] = "Stale" => memory_state'[e] \in {"Stale", "Revoked"}
            /\ memory_state[e] \in {"Stale", "Revoked"} /\ memory_views' # memory_views =>
                    e \notin memory_views'
<1>1. CASE Memory!Tick
  BY <1>0, <1>1 DEF Memory!Tick, MemorySound, Memory!TypeOK, Memory!OneTruthPerKey,
                    Memory!AnswersAreTruth
<1>2. ASSUME NEW e \in Entries, Memory!Propose(e)
      PROVE  MemorySound' /\ Later
  BY <1>2 DEF Memory!Propose, MemorySound, Memory!TypeOK, Memory!OneTruthPerKey,
              Memory!AnswersAreTruth, Memory!States
<1>3. ASSUME NEW e \in Entries, Memory!Promote(e)
      PROVE  MemorySound' /\ Later
  <2> DEFINE rivals == Memory!Rivals(e)
  <2>1. /\ rivals \subseteq Entries /\ e \notin rivals
        /\ \A o \in Entries :
            o \in rivals <=> o # e /\ o.key = e.key /\ memory_state[o] = "Promoted"
    BY DEF Memory!Rivals
  <2>2. /\ memory_state[e] = "Candidate"
        /\ memory_state' = [o \in Entries |->
                IF o = e THEN "Promoted" ELSE IF o \in rivals THEN "Stale" ELSE memory_state[o]]
        /\ memory_superseded' = memory_superseded \cup rivals
        /\ memory_conflicts' = [memory_conflicts EXCEPT ![e] = rivals]
        /\ UNCHANGED <<memory_clock, memory_asked, memory_views>>
    BY <1>3 DEF Memory!Promote
  <2> HIDE DEF rivals
  <2>3. /\ \A o \in Entries :
            memory_state'[o] =
                IF o = e THEN "Promoted" ELSE IF o \in rivals THEN "Stale" ELSE memory_state[o]
        /\ memory_conflicts'[e] = rivals /\ memory_conflicts[e] = {}
        /\ \A o \in Entries \ {e} : memory_conflicts'[o] = memory_conflicts[o]
    BY <2>2 DEF MemorySound, Memory!TypeOK
  <2>4. Memory!TypeOK'
    BY <2>1, <2>2 DEF MemorySound, Memory!TypeOK, Memory!States
  <2>5. \A o, q \in Entries :
            o.key = q.key /\ memory_state'[o] = "Promoted" /\ memory_state'[q] = "Promoted" => o = q
    BY <2>1, <2>3 DEF MemorySound, Memory!OneTruthPerKey
  <2>6. ASSUME NEW o \in memory_superseded'
        PROVE  /\ memory_state'[o] \in {"Stale", "Revoked"}
               /\ \E q \in Entries : o \in memory_conflicts'[q]
    <3>1. CASE o \in rivals
      BY <2>1, <2>3, <3>1
    <3>2. CASE o \in memory_superseded /\ o \notin rivals
      <4>1. o \in Entries /\ memory_state[o] \in {"Stale", "Revoked"}
        BY <3>2 DEF MemorySound, Memory!TypeOK, Memory!OneTruthPerKey
      <4>2. PICK q \in Entries : o \in memory_conflicts[q]
        BY <3>2 DEF MemorySound, Memory!OneTruthPerKey
      <4>3. QED
        BY <2>2, <2>3, <3>2, <4>1, <4>2
    <3>3. QED
      BY <2>2, <3>1, <3>2
  <2>7. Memory!OneTruthPerKey'
    BY <2>5, <2>6 DEF Memory!OneTruthPerKey
  <2>8. Memory!AnswersAreTruth'
    BY <2>2 DEF MemorySound, Memory!AnswersAreTruth
  <2>9. Later
    BY <2>1, <2>2, <2>3
  <2>10. QED
    BY <2>2, <2>3, <2>4, <2>7, <2>8, <2>9 DEF MemorySound
<1>4. ASSUME NEW e \in Entries, Memory!Revoke(e)
      PROVE  MemorySound' /\ Later
  BY <1>4 DEF Memory!Revoke, MemorySound, Memory!TypeOK, Memory!OneTruthPerKey,
              Memory!AnswersAreTruth, Memory!States
<1>5. ASSUME NEW ceiling \in {e.sensitivity : e \in Entries},
             NEW keys \in {{e.key} : e \in Entries} \cup {Memory!KeysOf},
             Memory!Query(keys, ceiling)
      PROVE  MemorySound' /\ Later
  <2> DEFINE seen == {e \in Entries : /\ memory_state[e] = "Promoted"
                                      /\ e.key \in keys /\ e.sensitivity <= ceiling}
             expired == {e \in seen : Memory!Expired(e, memory_clock)}
  <2>1. /\ memory_views' = seen \ expired
        /\ memory_asked' = [keys |-> keys, ceiling |-> ceiling, now |-> memory_clock]
        /\ memory_state' = [e \in Entries |->
                IF e \in expired THEN "Stale" ELSE memory_state[e]]
        /\ UNCHANGED <<memory_superseded, memory_conflicts, memory_clock>>
    BY <1>5 DEF Memory!Query
  <2>2. /\ seen \subseteq Entries /\ expired \subseteq seen
        /\ \A e \in seen : /\ memory_state[e] = "Promoted"
                          /\ e.key \in keys /\ e.sensitivity <= ceiling
        /\ \A e \in seen \ expired : e.expires # 0 => memory_clock < e.expires
    <3>1. memory_clock \in Nat
      BY <1>0 DEF MemorySound, Memory!TypeOK
    <3>2. QED
      BY <1>0, <3>1 DEF Memory!Expired
  <2> HIDE DEF seen, expired
  <2>3. /\ \A e \in Entries :
            memory_state'[e] = IF e \in expired THEN "Stale" ELSE memory_state[e]
        /\ memory_asked'.ceiling = ceiling /\ memory_asked'.now = memory_clock
        /\ memory_asked'.keys = keys
        /\ DOMAIN memory_asked' = {"keys", "ceiling", "now"}
        /\ ceiling \in Nat
    BY <1>0, <2>1
  <2>a. keys \subseteq Memory!KeysOf
    BY DEF Memory!KeysOf
  <2>4. Memory!TypeOK'
    BY <2>1, <2>2, <2>3, <2>a DEF MemorySound, Memory!TypeOK, Memory!States
  <2>5. Memory!OneTruthPerKey'
    <3>1. \A e, o \in Entries :
            e.key = o.key /\ memory_state'[e] = "Promoted" /\ memory_state'[o] = "Promoted" => e = o
      BY <2>3 DEF MemorySound, Memory!OneTruthPerKey
    <3>2. \A o \in memory_superseded :
            /\ o \in Entries /\ memory_state[o] \in {"Stale", "Revoked"}
            /\ \E e \in Entries : o \in memory_conflicts[e]
      BY DEF MemorySound, Memory!TypeOK, Memory!OneTruthPerKey
    <3>3. QED
      BY <2>1, <2>3, <3>1, <3>2 DEF Memory!OneTruthPerKey
  <2>6. Memory!AnswersAreTruth'
    <3>1. \A e, o \in memory_views' : e.key = o.key => e = o
      BY <2>1, <2>2 DEF MemorySound, Memory!OneTruthPerKey
    <3>2. QED
      BY <2>1, <2>2, <2>3, <3>1 DEF Memory!AnswersAreTruth
  <2>7. Later
    BY <2>1, <2>2, <2>3
  <2>8. \A e \in Entries :
            memory_state'[e] \in {"absent", "Candidate"} => memory_conflicts'[e] = {}
    BY <2>1, <2>3 DEF MemorySound
  <2>9. QED
    BY <2>3, <2>4, <2>5, <2>6, <2>7, <2>8 DEF MemorySound
<1>6. QED
  BY <1>1, <1>2, <1>3, <1>4, <1>5 DEF Memory!Next

LEMMA MemoryStep ==
    MemorySound /\ [Next]_vars =>
        /\ MemorySound'
        /\ [\A e \in Entries :
                /\ memory_state[e] = "Revoked" => memory_state'[e] = "Revoked"
                /\ memory_state[e] = "Stale" => memory_state'[e] \in {"Stale", "Revoked"}
                /\ memory_state[e] \in {"Stale", "Revoked"} /\ memory_views' # memory_views =>
                        e \notin memory_views']_Memory!vars
<1> SUFFICES ASSUME MemorySound, [Next]_vars
             PROVE  /\ MemorySound'
                    /\ \/ \A e \in Entries :
                            /\ memory_state[e] = "Revoked" => memory_state'[e] = "Revoked"
                            /\ memory_state[e] = "Stale" =>
                                    memory_state'[e] \in {"Stale", "Revoked"}
                            /\ memory_state[e] \in {"Stale", "Revoked"}
                                    /\ memory_views' # memory_views => e \notin memory_views'
                       \/ UNCHANGED Memory!vars
  OBVIOUS
<1>1. CASE Memory!Next
  BY <1>1, MemoryNext
<1>2. CASE UNCHANGED memory
  BY <1>2 DEF memory, MemorySound, Memory!TypeOK, Memory!OneTruthPerKey, Memory!AnswersAreTruth,
              Memory!vars
<1>3. QED
  BY <1>1, <1>2 DEF Next, Unless, vars, memory

LEMMA MemoryAlways ==
    Spec => /\ [](Memory!TypeOK /\ Memory!OneTruthPerKey /\ Memory!AnswersAreTruth)
            /\ Memory!NeverTruthAgain
BY MemoryInit, MemoryStep, PTL DEF Spec, MemorySound, Memory!NeverTruthAgain

-----------------------------------------------------------------------------
(* The leases of the remote realm.                                         *)

\* What came of a submission is known of no submission to come.
RealmSound ==
    /\ Realm!TypeOK /\ Realm!OneEndPerSubmission
    /\ \A e \in Envelopes : realm_tasks[e] = "absent" <=> realm_submissions[e] = 0
    /\ \A o \in realm_over : o[2] <= realm_submissions[o[1]]
    /\ \A a \in realm_admitted : <<a[1], a[3]>> \in realm_over

LEMMA RealmInit == Init => RealmSound
BY AuthoritiesAssumption
DEF Init, Realm!Init, RealmSound, Realm!TypeOK, Realm!OneEndPerSubmission, Realm!TaskStates,
    Realm!Ended, Realm!RealmAssumption

LEMMA RealmNext ==
    ASSUME RealmSound, Realm!Next
    PROVE  /\ RealmSound'
           /\ \A e \in Envelopes :
                realm_tasks[e] \in Realm!Ended /\ realm_submissions'[e] = realm_submissions[e] =>
                    realm_tasks'[e] = realm_tasks[e]
<1>0. Window \in Nat \ {0} /\ MaxTime \in Nat /\ MaxSubmissions \in Nat
  BY AuthoritiesAssumption DEF Realm!RealmAssumption
<1> DEFINE Kept ==
        \A e \in Envelopes :
            realm_tasks[e] \in Realm!Ended /\ realm_submissions'[e] = realm_submissions[e] =>
                realm_tasks'[e] = realm_tasks[e]
<1>a. /\ realm_tasks \in [Envelopes -> Realm!TaskStates]
      /\ realm_deadline \in [Envelopes -> Nat] /\ realm_clock \in 0..MaxTime
      /\ realm_submissions \in [Envelopes -> 0..MaxSubmissions]
      /\ realm_over \subseteq Envelopes \X (1..MaxSubmissions)
      /\ \A e \in Envelopes : realm_tasks[e] \in Realm!Ended <=> Realm!Lease(e) \in realm_over
      /\ \A e \in Envelopes : Realm!Lease(e) = <<e, realm_submissions[e]>>
      /\ \A e \in Envelopes : realm_tasks[e] = "absent" <=> realm_submissions[e] = 0
  BY DEF RealmSound, Realm!TypeOK, Realm!OneEndPerSubmission, Realm!Lease
<1>1. CASE Realm!Tick
  <2>1. /\ realm_clock < MaxTime /\ realm_clock' = realm_clock + 1
        /\ UNCHANGED <<realm_tasks, realm_deadline, realm_submissions, realm_at_work, realm_over,
                       realm_reaped, realm_admitted>>
    BY <1>1 DEF Realm!Tick
  <2>2. realm_clock' \in 0..MaxTime
    BY <1>0, <1>a, <2>1
  <2>3. QED
    BY <2>1, <2>2 DEF RealmSound, Realm!TypeOK, Realm!OneEndPerSubmission, Realm!Lease
<1>2. ASSUME NEW e \in Envelopes, Realm!Submit(e)
      PROVE  RealmSound' /\ Kept
  <2>1. /\ realm_submissions[e] < MaxSubmissions
        /\ realm_submissions' = [realm_submissions EXCEPT ![e] = @ + 1]
        /\ realm_tasks' = [realm_tasks EXCEPT ![e] = "Submitted"]
        /\ realm_deadline' = [realm_deadline EXCEPT ![e] = 0]
        /\ UNCHANGED <<realm_clock, realm_at_work, realm_over, realm_reaped, realm_admitted>>
    BY <1>2 DEF Realm!Submit
  <2>2. /\ realm_submissions' \in [Envelopes -> 0..MaxSubmissions]
        /\ realm_submissions[e] \in Nat
        /\ realm_submissions'[e] = realm_submissions[e] + 1
        /\ \A f \in Envelopes \ {e} : realm_submissions'[f] = realm_submissions[f]
        /\ realm_tasks' \in [Envelopes -> Realm!TaskStates] /\ realm_tasks'[e] = "Submitted"
        /\ \A f \in Envelopes \ {e} : realm_tasks'[f] = realm_tasks[f]
        /\ realm_deadline' \in [Envelopes -> Nat]
    BY <1>0, <1>a, <2>1 DEF Realm!TaskStates
  <2>3. \A o \in realm_over : /\ o[1] \in Envelopes /\ o[2] \in Nat
                              /\ o[2] <= realm_submissions[o[1]]
                              /\ o[2] <= realm_submissions'[o[1]]
                              /\ o # <<e, realm_submissions[e] + 1>>
    <3>1. ASSUME NEW o \in realm_over
          PROVE  /\ o[1] \in Envelopes /\ o[2] \in Nat /\ o[2] <= realm_submissions[o[1]]
                 /\ realm_submissions[o[1]] \in Nat
      BY <1>a DEF RealmSound
    <3>2. QED
      BY <2>2, <3>1
  <2>4. Realm!TypeOK'
    BY <2>1, <2>2 DEF RealmSound, Realm!TypeOK
  <2>5. ASSUME NEW f \in Envelopes
        PROVE  realm_tasks'[f] \in Realm!Ended <=> <<f, realm_submissions'[f]>> \in realm_over
    <3>1. CASE f = e
      BY <2>2, <2>3, <3>1 DEF Realm!Ended
    <3>2. CASE f # e
      BY <1>a, <2>2, <3>2
    <3>3. QED
      BY <3>1, <3>2
  <2>6. ASSUME NEW a \in realm_admitted, a[3] = realm_submissions'[a[1]]
        PROVE  realm_tasks'[a[1]] = "Succeeded"
    <3>1. <<a[1], a[3]>> \in realm_over
      BY DEF RealmSound
    <3>2. a[1] \in Envelopes
      BY <1>a, <3>1
    <3>3. a[1] # e
      BY <2>2, <2>3, <2>6, <3>1
    <3>4. QED
      BY <2>2, <2>6, <3>2, <3>3 DEF RealmSound, Realm!OneEndPerSubmission
  <2>7. Realm!OneEndPerSubmission'
    BY <2>1, <2>5, <2>6 DEF RealmSound, Realm!OneEndPerSubmission, Realm!Lease
  <2>8. \A f \in Envelopes : realm_tasks'[f] = "absent" <=> realm_submissions'[f] = 0
    BY <1>a, <2>2
  <2>9. RealmSound'
    BY <2>1, <2>3, <2>4, <2>7, <2>8 DEF RealmSound
  <2>10. Kept
    BY <2>2
  <2>11. QED
    BY <2>9, <2>10
<1>3. ASSUME NEW e \in Envelopes, realm_tasks[e] \in {"Submitted", "Running"},
             realm_tasks' \in [Envelopes -> Realm!TaskStates],
             realm_tasks'[e] \in {"Submitted", "Running"},
             \A f \in Envelopes \ {e} : realm_tasks'[f] = realm_tasks[f],
             realm_deadline' \in [Envelopes -> Nat],
             realm_at_work' \subseteq realm_at_work \cup {Realm!Lease(e)},
             UNCHANGED <<realm_clock, realm_submissions, realm_over, realm_reaped,
                         realm_admitted>>
      PROVE  RealmSound' /\ Kept
  <2>1. Realm!Lease(e) \in Envelopes \X (1..MaxSubmissions)
    BY <1>0, <1>a, <1>3
  <2>2. Realm!TypeOK'
    BY <1>3, <2>1 DEF RealmSound, Realm!TypeOK
  <2>3. \A f \in Envelopes : realm_tasks'[f] \in Realm!Ended <=> realm_tasks[f] \in Realm!Ended
    BY <1>3 DEF Realm!Ended
  <2>4. ASSUME NEW a \in realm_admitted, a[3] = realm_submissions[a[1]]
        PROVE  realm_tasks'[a[1]] = "Succeeded"
    <3>1. a[1] \in Envelopes
      BY DEF RealmSound, Realm!TypeOK
    <3>2. realm_tasks[a[1]] = "Succeeded"
      BY <2>4 DEF RealmSound, Realm!OneEndPerSubmission
    <3>3. QED
      BY <1>3, <3>1, <3>2
  <2>5. Realm!OneEndPerSubmission'
    BY <1>3, <2>3, <2>4 DEF RealmSound, Realm!OneEndPerSubmission, Realm!Lease
  <2>6. \A f \in Envelopes : realm_tasks'[f] = "absent" <=> realm_submissions'[f] = 0
    BY <1>3 DEF RealmSound
  <2>7. RealmSound'
    BY <1>3, <2>2, <2>5, <2>6 DEF RealmSound
  <2>8. Kept
    BY <1>3 DEF Realm!Ended
  <2>9. QED
    BY <2>7, <2>8
<1>4. ASSUME NEW e \in Envelopes, Realm!TakeLease(e)
      PROVE  RealmSound' /\ Kept
  <2>1. /\ realm_tasks[e] = "Submitted"
        /\ realm_tasks' = [realm_tasks EXCEPT ![e] = "Running"]
        /\ realm_deadline' = [realm_deadline EXCEPT ![e] = realm_clock + Window]
        /\ realm_at_work' = realm_at_work \cup {Realm!Lease(e)}
        /\ UNCHANGED <<realm_clock, realm_submissions, realm_over, realm_reaped,
                       realm_admitted>>
    BY <1>4 DEF Realm!TakeLease
  <2>2. realm_clock + Window \in Nat
    BY <1>0, <1>a
  <2>3. /\ realm_tasks' \in [Envelopes -> Realm!TaskStates] /\ realm_tasks'[e] = "Running"
        /\ \A f \in Envelopes \ {e} : realm_tasks'[f] = realm_tasks[f]
        /\ realm_deadline' \in [Envelopes -> Nat]
    BY <1>a, <2>1, <2>2 DEF Realm!TaskStates
  <2>4. QED
    BY <1>3, <2>1, <2>3
<1>5. ASSUME NEW e \in Envelopes, Realm!Heartbeat(e)
      PROVE  RealmSound' /\ Kept
  <2>1. /\ realm_tasks[e] = "Running" /\ realm_tasks' = realm_tasks
        /\ realm_deadline' = [realm_deadline EXCEPT ![e] = realm_clock + Window]
        /\ realm_at_work' = realm_at_work
        /\ UNCHANGED <<realm_clock, realm_submissions, realm_over, realm_reaped,
                       realm_admitted>>
    BY <1>5 DEF Realm!Heartbeat
  <2>2. realm_clock + Window \in Nat
    BY <1>0, <1>a
  <2>3. realm_deadline' \in [Envelopes -> Nat]
    BY <1>a, <2>1, <2>2
  <2>4. QED
    BY <1>3, <1>a, <2>1, <2>3
\* Some submissions in flight come to an end.
<1>6. ASSUME NEW ends \in SUBSET Envelopes, NEW how \in Realm!Ended,
             \A e \in ends : realm_tasks[e] \in {"Submitted", "Running"},
             realm_tasks' \in [Envelopes -> Realm!TaskStates],
             \A e \in ends : realm_tasks'[e] = how,
             \A f \in Envelopes \ ends : realm_tasks'[f] = realm_tasks[f],
             realm_over' = realm_over \cup {Realm!Lease(e) : e \in ends},
             realm_reaped' \subseteq realm_over',
             how = "Succeeded" \/ UNCHANGED realm_admitted,
             \A a \in realm_admitted' \ realm_admitted :
                /\ a \in Envelopes \X (1..MaxSubmissions) \X (1..MaxSubmissions)
                /\ a[1] \in ends /\ a[3] = realm_submissions[a[1]],
             \A a, b \in realm_admitted' \ realm_admitted : a = b,
             realm_admitted \subseteq realm_admitted',
             UNCHANGED <<realm_deadline, realm_clock, realm_submissions, realm_at_work>>
      PROVE  RealmSound' /\ Kept
  <2>1. \A e \in ends : /\ Realm!Lease(e) \notin realm_over
                        /\ Realm!Lease(e) \in Envelopes \X (1..MaxSubmissions)
    BY <1>0, <1>a, <1>6 DEF Realm!Ended
  <2>2. Realm!TypeOK'
    BY <1>6, <2>1 DEF RealmSound, Realm!TypeOK
  <2>3. ASSUME NEW f \in Envelopes
        PROVE  realm_tasks'[f] \in Realm!Ended <=> Realm!Lease(f) \in realm_over'
    <3>1. CASE f \in ends
      BY <1>6, <3>1
    <3>2. CASE f \notin ends
      <4>1. \A e \in ends : Realm!Lease(e) # Realm!Lease(f)
        BY <1>a, <3>2
      <4>2. QED
        BY <1>a, <1>6, <3>2, <4>1
    <3>3. QED
      BY <3>1, <3>2
  <2>4. ASSUME NEW a \in realm_admitted
        PROVE  /\ a[1] \in Envelopes /\ <<a[1], a[3]>> \in realm_over
               /\ a[3] = realm_submissions[a[1]] =>
                    a[1] \notin ends /\ realm_tasks'[a[1]] = "Succeeded"
    <3>1. a[1] \in Envelopes /\ <<a[1], a[3]>> \in realm_over
      BY DEF RealmSound, Realm!TypeOK
    <3>2. ASSUME a[3] = realm_submissions[a[1]]
          PROVE  a[1] \notin ends
      BY <1>a, <2>1, <3>1, <3>2
    <3>3. ASSUME a[3] = realm_submissions[a[1]]
          PROVE  realm_tasks'[a[1]] = "Succeeded"
      BY <1>6, <3>1, <3>2, <3>3 DEF RealmSound, Realm!OneEndPerSubmission
    <3>4. QED
      BY <3>1, <3>2, <3>3
  <2>5. ASSUME NEW a \in realm_admitted', NEW b \in realm_admitted', a[1] = b[1], a[3] = b[3]
        PROVE  a = b
    <3>1. CASE a \in realm_admitted /\ b \in realm_admitted
      BY <2>5, <3>1 DEF RealmSound, Realm!OneEndPerSubmission
    <3>2. CASE a \in realm_admitted /\ b \notin realm_admitted
      <4>1. b[1] \in ends /\ b[3] = realm_submissions[b[1]]
        BY <1>6, <3>2
      <4>2. a[3] = realm_submissions[a[1]] => a[1] \notin ends
        BY <2>4, <3>2
      <4>3. QED
        BY <2>5, <4>1, <4>2
    <3>3. CASE a \notin realm_admitted /\ b \in realm_admitted
      <4>1. a[1] \in ends /\ a[3] = realm_submissions[a[1]]
        BY <1>6, <3>3
      <4>2. b[3] = realm_submissions[b[1]] => b[1] \notin ends
        BY <2>4, <3>3
      <4>3. QED
        BY <2>5, <4>1, <4>2
    <3>4. CASE a \notin realm_admitted /\ b \notin realm_admitted
      BY <1>6, <3>4
    <3>5. QED
      BY <3>1, <3>2, <3>3, <3>4
  <2>6. ASSUME NEW a \in realm_admitted', a[3] = realm_submissions[a[1]]
        PROVE  realm_tasks'[a[1]] = "Succeeded"
    BY <1>6, <2>4, <2>6
  <2>7. Realm!OneEndPerSubmission'
    <3>1. \A f \in Envelopes : Realm!Lease(f)' = Realm!Lease(f)
      BY <1>6 DEF Realm!Lease
    <3>2. QED
      BY <1>6, <2>3, <2>5, <2>6, <3>1 DEF Realm!OneEndPerSubmission
  <2>8. \A f \in Envelopes : realm_tasks'[f] = "absent" <=> realm_submissions'[f] = 0
    BY <1>a, <1>6 DEF Realm!Ended
  <2>9. \A o \in realm_over' : o[2] <= realm_submissions'[o[1]]
    <3>1. \A e \in ends : Realm!Lease(e)[2] <= realm_submissions[Realm!Lease(e)[1]]
      BY <1>a
    <3>2. QED
      BY <1>6, <3>1 DEF RealmSound
  <2>10. \A a \in realm_admitted' : <<a[1], a[3]>> \in realm_over'
    <3>1. \A a \in realm_admitted' \ realm_admitted : <<a[1], a[3]>> = Realm!Lease(a[1])
      BY <1>a, <1>6
    <3>2. QED
      BY <1>6, <2>4, <3>1
  <2>11. RealmSound'
    BY <2>2, <2>7, <2>8, <2>9, <2>10 DEF RealmSound
  <2>12. Kept
    BY <1>6 DEF Realm!Ended
  <2>13. QED
    BY <2>11, <2>12
<1>7. CASE Realm!Reap
  <2> DEFINE ends == Realm!Overdue
  <2>1. /\ ends \subseteq Envelopes /\ \A e \in ends : realm_tasks[e] = "Running"
        /\ realm_tasks' = [e \in Envelopes |-> IF e \in ends THEN "Failed" ELSE realm_tasks[e]]
        /\ realm_over' = realm_over \cup {Realm!Lease(e) : e \in ends}
        /\ realm_reaped' = realm_reaped \cup {Realm!Lease(e) : e \in ends}
        /\ UNCHANGED <<realm_deadline, realm_clock, realm_submissions, realm_at_work,
                       realm_admitted>>
    BY <1>7 DEF Realm!Reap, Realm!Overdue
  <2> HIDE DEF ends
  <2>2. /\ realm_tasks' \in [Envelopes -> Realm!TaskStates]
        /\ \A e \in ends : realm_tasks'[e] = "Failed"
        /\ \A f \in Envelopes \ ends : realm_tasks'[f] = realm_tasks[f]
        /\ realm_reaped' \subseteq realm_over'
        /\ "Failed" \in Realm!Ended
    BY <1>a, <2>1 DEF Realm!TaskStates, Realm!Ended, RealmSound, Realm!TypeOK
  <2>3. QED
    BY <1>6, <2>1, <2>2
<1>8. ASSUME NEW e \in Envelopes, NEW how \in Realm!Ended,
             realm_tasks[e] \in {"Submitted", "Running"},
             realm_tasks' = [realm_tasks EXCEPT ![e] = how],
             realm_over' = realm_over \cup {Realm!Lease(e)},
             UNCHANGED <<realm_deadline, realm_clock, realm_submissions, realm_at_work,
                         realm_reaped>>,
             \/ UNCHANGED realm_admitted
             \/ how = "Succeeded" /\ \E from \in 1..MaxSubmissions :
                    realm_admitted' = realm_admitted \cup {<<e, from, realm_submissions[e]>>}
      PROVE  RealmSound' /\ Kept
  <2>1. PICK ends : ends = {e}
    OBVIOUS
  <2>2. /\ ends \in SUBSET Envelopes
        /\ \A f \in ends : realm_tasks[f] \in {"Submitted", "Running"}
        /\ realm_tasks' \in [Envelopes -> Realm!TaskStates]
        /\ \A f \in ends : realm_tasks'[f] = how
        /\ \A f \in Envelopes \ ends : realm_tasks'[f] = realm_tasks[f]
        /\ realm_over' = realm_over \cup {Realm!Lease(f) : f \in ends}
        /\ realm_reaped' \subseteq realm_over'
    BY <1>a, <1>8, <2>1 DEF Realm!TaskStates, RealmSound, Realm!TypeOK
  <2>3. realm_submissions[e] \in 1..MaxSubmissions
    BY <1>0, <1>a, <1>8
  <2>4. /\ how = "Succeeded" \/ UNCHANGED realm_admitted
        /\ \A a \in realm_admitted' \ realm_admitted :
                /\ a \in Envelopes \X (1..MaxSubmissions) \X (1..MaxSubmissions)
                /\ a[1] \in ends /\ a[3] = realm_submissions[a[1]]
        /\ \A a, b \in realm_admitted' \ realm_admitted : a = b
        /\ realm_admitted \subseteq realm_admitted'
    BY <1>8, <2>1, <2>3
  <2>5. QED
    BY <1>6, <1>8, <2>2, <2>4
<1>9. ASSUME NEW e \in Envelopes, NEW from \in 1..MaxSubmissions, Realm!Admit(e, from)
      PROVE  RealmSound' /\ Kept
  BY <1>8, <1>9 DEF Realm!Admit, Realm!Ended
<1>10. ASSUME NEW e \in Envelopes, NEW from \in 1..MaxSubmissions, Realm!RefuseResult(e, from)
       PROVE  RealmSound' /\ Kept
  BY <1>8, <1>10 DEF Realm!RefuseResult, Realm!Ended
<1>11. ASSUME NEW e \in Envelopes, Realm!Cancel(e)
       PROVE  RealmSound' /\ Kept
  BY <1>8, <1>11 DEF Realm!Cancel, Realm!Ended
<1>12. QED
  BY <1>1, <1>2, <1>4, <1>5, <1>7, <1>9, <1>10, <1>11 DEF Realm!Next

LEMMA RealmStep ==
    RealmSound /\ [Next]_vars =>
        /\ RealmSound'
        /\ [\A e \in Envelopes :
                realm_tasks[e] \in Realm!Ended /\ realm_submissions'[e] = realm_submissions[e] =>
                    realm_tasks'[e] = realm_tasks[e]]_Realm!vars
<1> SUFFICES ASSUME RealmSound, [Next]_vars
             PROVE  /\ RealmSound'
                    /\ \/ \A e \in Envelopes :
                            realm_tasks[e] \in Realm!Ended
                            /\ realm_submissions'[e] = realm_submissions[e] =>
                                realm_tasks'[e] = realm_tasks[e]
                       \/ UNCHANGED Realm!vars
  OBVIOUS
<1>1. CASE Realm!Next
  BY <1>1, RealmNext
<1>2. CASE UNCHANGED realm
  BY <1>2 DEF realm, RealmSound, Realm!TypeOK, Realm!OneEndPerSubmission, Realm!Lease, Realm!vars
<1>3. QED
  BY <1>1, <1>2 DEF Next, Unless, vars, realm

LEMMA RealmAlways ==
    Spec => [](Realm!TypeOK /\ Realm!OneEndPerSubmission) /\ Realm!EndsOnce
BY RealmInit, RealmStep, PTL DEF Spec, RealmSound, Realm!EndsOnce

-----------------------------------------------------------------------------
(* The chunks of the knowledge fabric.                                     *)

FabricSound == Fabric!FabricTypeOK /\ Fabric!IndexFindsTheLive /\ Fabric!AnswerIsPermitted

\* The indexes against the chunks, key by key.
Indexed ==
    \A k \in Fabric!ChunkKeys, i \in ChunkIds :
        /\ k \in fabric_chunks[i].keys => i \in fabric_index[k]
        /\ i \in fabric_index[k] => k \in fabric_chunks[i].keys \/ i \in fabric_readmitted

LEMMA IndexedIs ==
    ASSUME Fabric!FabricTypeOK
    PROVE  Fabric!IndexFindsTheLive <=>
            /\ Indexed
            /\ fabric_answer.request.keys # {} => fabric_answer.pinned \subseteq fabric_readmitted
<1>1. \A k \in Fabric!ChunkKeys :
            Fabric!Derived[k] = {i \in ChunkIds : k \in fabric_chunks[i].keys}
  BY DEF Fabric!Derived
<1>2. \A k \in Fabric!ChunkKeys : fabric_index[k] \subseteq ChunkIds
  BY DEF Fabric!FabricTypeOK
<1>3. QED
  BY <1>1, <1>2 DEF Fabric!IndexFindsTheLive, Indexed

LEMMA FabricInit == Init => FabricSound
<1> SUFFICES ASSUME Fabric!FabricInit
             PROVE  FabricSound
  BY DEF Init
<1>1. /\ Fabric!NoChunk.keys = {} /\ Fabric!NoAnswer.request.keys = {}
      /\ Fabric!NoAnswer.selected = {}
  BY DEF Fabric!NoChunk, Fabric!NoAnswer
<1>2. Fabric!FabricTypeOK
  BY AuthoritiesAssumption DEF Fabric!FabricInit, Fabric!FabricTypeOK, Fabric!FabricAssumption
<1>3. Indexed
  BY <1>1 DEF Fabric!FabricInit, Indexed
<1>4. Fabric!IndexFindsTheLive
  BY <1>1, <1>2, <1>3, IndexedIs DEF Fabric!FabricInit
<1>5. QED
  BY <1>1, <1>2, <1>4 DEF Fabric!FabricInit, FabricSound, Fabric!AnswerIsPermitted

LEMMA FabricNext ==
    ASSUME FabricSound, Fabric!FabricNext
    PROVE  /\ FabricSound'
           /\ fabric_answer' # fabric_answer =>
                \A s \in fabric_answer'.selected :
                    s[1] \notin fabric_revoked \cup fabric_user_excluded
<1> DEFINE Gone ==
        fabric_answer' # fabric_answer =>
            \A s \in fabric_answer'.selected :
                s[1] \notin fabric_revoked \cup fabric_user_excluded
<1>0. /\ fabric_chunks \in [ChunkIds -> Chunks \cup {Fabric!NoChunk}]
      /\ fabric_index \in [Fabric!ChunkKeys -> SUBSET ChunkIds]
      /\ fabric_clock \in 0..MaxFabricTime
      /\ Indexed
      /\ Fabric!NoChunk.keys = {}
  BY IndexedIs DEF FabricSound, Fabric!FabricTypeOK, Fabric!NoChunk
<1>1. ASSUME fabric_answer' = fabric_answer, Fabric!FabricTypeOK', Indexed',
             fabric_readmitted \subseteq fabric_readmitted'
      PROVE  FabricSound' /\ Gone
  <2>1. Fabric!IndexFindsTheLive'
    <3>1. fabric_answer.request.keys # {} => fabric_answer.pinned \subseteq fabric_readmitted
      BY IndexedIs DEF FabricSound
    <3>2. QED
      BY <1>1, <3>1 DEF Fabric!IndexFindsTheLive, Indexed, Fabric!Derived, Fabric!FabricTypeOK
  <2>2. QED
    BY <1>1, <2>1 DEF FabricSound, Fabric!AnswerIsPermitted
<1>2. CASE Fabric!Tick
  <2>1. /\ fabric_clock < MaxFabricTime /\ fabric_clock' = fabric_clock + 1
        /\ UNCHANGED <<fabric_chunks, fabric_index, fabric_revoked, fabric_user_excluded,
                       fabric_answer, fabric_readmitted>>
    BY <1>2 DEF Fabric!Tick
  <2>2. fabric_clock' \in 0..MaxFabricTime
    BY <1>0, <2>1, AuthoritiesAssumption DEF Fabric!FabricAssumption
  <2>3. Fabric!FabricTypeOK' /\ Indexed'
    BY <1>0, <2>1, <2>2 DEF FabricSound, Fabric!FabricTypeOK, Indexed
  <2>4. QED
    BY <1>1, <2>1, <2>3
<1>3. ASSUME NEW i \in ChunkIds, NEW c \in Chunks, Fabric!Admit(i, c)
      PROVE  FabricSound' /\ Gone
  <2>1. /\ fabric_chunks' = [fabric_chunks EXCEPT ![i] = c]
        /\ fabric_index' = [k \in Fabric!ChunkKeys |->
                IF k \in c.keys THEN fabric_index[k] \cup {i} ELSE fabric_index[k]]
        /\ fabric_readmitted' = IF fabric_chunks[i] # Fabric!NoChunk
                                THEN fabric_readmitted \cup {i} ELSE fabric_readmitted
        /\ UNCHANGED <<fabric_revoked, fabric_user_excluded, fabric_clock, fabric_answer>>
    BY <1>3 DEF Fabric!Admit, Fabric!Live
  <2>2. Fabric!FabricTypeOK'
    BY <1>0, <2>1 DEF FabricSound, Fabric!FabricTypeOK
  <2>3. ASSUME NEW k \in Fabric!ChunkKeys, NEW j \in ChunkIds
        PROVE  /\ k \in fabric_chunks'[j].keys => j \in fabric_index'[k]
               /\ j \in fabric_index'[k] =>
                    k \in fabric_chunks'[j].keys \/ j \in fabric_readmitted'
    <3>1. CASE j = i
      <4>1. fabric_chunks'[j] = c
        BY <1>0, <2>1, <3>1
      <4>2. fabric_chunks[i] = Fabric!NoChunk => k \notin fabric_chunks[i].keys
        BY <1>0
      <4>3. QED
        BY <1>0, <2>1, <3>1, <4>1, <4>2 DEF Indexed
    <3>2. CASE j # i
      <4>1. fabric_chunks'[j] = fabric_chunks[j]
        BY <1>0, <2>1, <3>2
      <4>2. j \in fabric_index'[k] <=> j \in fabric_index[k]
        BY <2>1, <3>2
      <4>3. QED
        BY <1>0, <2>1, <4>1, <4>2 DEF Indexed
    <3>3. QED
      BY <3>1, <3>2
  <2>4. QED
    BY <1>1, <2>1, <2>2, <2>3 DEF Indexed
<1>4. ASSUME NEW i \in ChunkIds, Fabric!Revoke(i)
      PROVE  FabricSound' /\ Gone
  <2>1. /\ fabric_chunks' = [fabric_chunks EXCEPT ![i] = Fabric!NoChunk]
        /\ fabric_revoked' = fabric_revoked \cup {i}
        /\ fabric_index' = [k \in Fabric!ChunkKeys |->
                IF k \in fabric_chunks[i].keys THEN fabric_index[k] \ {i} ELSE fabric_index[k]]
        /\ UNCHANGED <<fabric_user_excluded, fabric_clock, fabric_answer, fabric_readmitted>>
    BY <1>4 DEF Fabric!Revoke
  <2>2. Fabric!FabricTypeOK'
    BY <1>0, <2>1 DEF FabricSound, Fabric!FabricTypeOK
  <2>3. ASSUME NEW k \in Fabric!ChunkKeys, NEW j \in ChunkIds
        PROVE  /\ k \in fabric_chunks'[j].keys => j \in fabric_index'[k]
               /\ j \in fabric_index'[k] =>
                    k \in fabric_chunks'[j].keys \/ j \in fabric_readmitted'
    <3>1. CASE j = i
      BY <1>0, <2>1, <3>1 DEF Indexed
    <3>2. CASE j # i
      BY <1>0, <2>1, <3>2 DEF Indexed
    <3>3. QED
      BY <3>1, <3>2
  <2>4. QED
    BY <1>1, <2>1, <2>2, <2>3 DEF Indexed
<1>5. ASSUME NEW i \in ChunkIds, Fabric!Exclude(i)
      PROVE  FabricSound' /\ Gone
  BY <1>0, <1>1, <1>5 DEF Fabric!Exclude, FabricSound, Fabric!FabricTypeOK, Indexed
<1>6. CASE Fabric!RebuildIndexes
  <2>1. /\ fabric_index' =
                [k \in Fabric!ChunkKeys |-> {i \in ChunkIds : k \in fabric_chunks[i].keys}]
        /\ UNCHANGED <<fabric_chunks, fabric_revoked, fabric_user_excluded, fabric_clock,
                       fabric_answer, fabric_readmitted>>
    BY <1>6 DEF Fabric!RebuildIndexes, Fabric!Derived
  <2>2. Fabric!FabricTypeOK' /\ Indexed'
    BY <2>1 DEF FabricSound, Fabric!FabricTypeOK, Indexed
  <2>3. QED
    BY <1>1, <2>1, <2>2
<1>7. ASSUME NEW r \in Queries, Fabric!Query(r)
      PROVE  FabricSound' /\ Gone
  <2> DEFINE found == {i \in Fabric!Hits(r) : Fabric!Admissible(i, r)}
  <2>1. PICK s \in Fabric!Ranked(found, r) :
            fabric_answer' = [request |-> r, now |-> fabric_clock,
                selected |-> {<<i, fabric_chunks[i], Fabric!Redacted(i, r)>> : i \in s},
                pinned |-> {i \in s : Fabric!Reasons(i, r) = {}}]
    BY <1>7 DEF Fabric!Query
  <2>2. s \subseteq found
    BY DEF Fabric!Ranked
  <2>3. UNCHANGED <<fabric_chunks, fabric_index, fabric_revoked, fabric_user_excluded,
                    fabric_clock, fabric_readmitted>>
    BY <1>7 DEF Fabric!Query
  <2>4. /\ fabric_answer'.request = r /\ fabric_answer'.now = fabric_clock
        /\ fabric_answer'.selected
                = {<<i, fabric_chunks[i], Fabric!Redacted(i, r)>> : i \in s}
        /\ fabric_answer'.pinned = {i \in s : Fabric!Reasons(i, r) = {}}
    BY <2>1
  <2>5. \A i \in s : i \in Fabric!Hits(r) /\ Fabric!Admissible(i, r)
    BY <2>2
  <2> HIDE DEF found
  <2>6. r.keys \subseteq Fabric!ChunkKeys
    <3>1. ASSUME NEW k \in r.keys
          PROVE  k \in UNION {q.keys : q \in Queries}
      BY <1>7, Zenon
    <3>2. QED
      BY <3>1 DEF Fabric!ChunkKeys
  <2>7. \A i \in s : i \in ChunkIds
    <3>1. Fabric!Hits(r) \subseteq ChunkIds
      BY <1>0, <2>6 DEF Fabric!Hits
    <3>2. QED
      BY <2>5, <3>1
  <2>8. Fabric!FabricTypeOK' /\ Indexed'
    BY <1>0, <2>3, <2>4 DEF FabricSound, Fabric!FabricTypeOK, Indexed
  <2>9. ASSUME r.keys # {}, NEW i \in s, Fabric!Reasons(i, r) = {}
        PROVE  i \in fabric_readmitted
    <3>1. PICK k \in r.keys : i \in fabric_index[k]
      BY <2>5, <2>9 DEF Fabric!Hits
    <3>2. k \notin fabric_chunks[i].keys
      BY <2>9 DEF Fabric!Reasons
    <3>3. QED
      BY <1>0, <2>6, <2>7, <3>1, <3>2 DEF Indexed
  <2>10. Fabric!IndexFindsTheLive'
    BY <2>3, <2>4, <2>8, <2>9 DEF Fabric!IndexFindsTheLive, Indexed, Fabric!Derived,
                                  Fabric!FabricTypeOK
  <2>11. ASSUME NEW i \in s
         PROVE  LET c == fabric_chunks[i] IN
                /\ c.scope = r.scope /\ c.sensitivity <= r.ceiling
                /\ c.expires # 0 => fabric_clock < c.expires
                /\ c.trusted \/ r.untrusted
                /\ \A f \in c.fields :
                        f.class > r.ceiling => f.in_array \/ f \in Fabric!Redacted(i, r)
                /\ i \notin fabric_revoked \cup fabric_user_excluded
    <3>1. fabric_chunks[i] # Fabric!NoChunk /\ Fabric!Admissible(i, r)
      BY <2>5 DEF Fabric!Admissible, Fabric!Live
    <3>2. fabric_chunks[i] \in Chunks
      BY <1>0, <2>7, <3>1
    <3>3. fabric_chunks[i].expires \in Nat /\ fabric_clock \in Nat
      BY <1>0, <3>2, AuthoritiesAssumption DEF Fabric!FabricAssumption
    <3>4. QED
      BY <3>1, <3>3 DEF Fabric!Admissible, Fabric!Redacted
  <2>12. Fabric!AnswerIsPermitted'
    BY <2>4, <2>11 DEF Fabric!AnswerIsPermitted
  <2>13. Gone
    BY <2>4, <2>11
  <2>14. QED
    BY <2>8, <2>10, <2>12, <2>13 DEF FabricSound
<1>8. QED
  BY <1>2, <1>3, <1>4, <1>5, <1>6, <1>7 DEF Fabric!FabricNext

LEMMA FabricStep ==
    FabricSound /\ [Next]_vars =>
        /\ FabricSound'
        /\ [fabric_answer' # fabric_answer =>
                \A s \in fabric_answer'.selected :
                    s[1] \notin fabric_revoked \cup fabric_user_excluded]_Fabric!fabric
<1> SUFFICES ASSUME FabricSound, [Next]_vars
             PROVE  /\ FabricSound'
                    /\ \/ fabric_answer' # fabric_answer =>
                            \A s \in fabric_answer'.selected :
                                s[1] \notin fabric_revoked \cup fabric_user_excluded
                       \/ UNCHANGED Fabric!fabric
  OBVIOUS
<1>1. CASE Fabric!FabricNext
  BY <1>1, FabricNext
<1>2. CASE UNCHANGED fabric
  BY <1>2 DEF fabric, FabricSound, Fabric!FabricTypeOK, Fabric!IndexFindsTheLive,
              Fabric!Derived, Fabric!AnswerIsPermitted, Fabric!fabric
<1>3. QED
  BY <1>1, <1>2 DEF Next, Unless, vars, fabric

LEMMA FabricAlways ==
    Spec => /\ [](Fabric!FabricTypeOK /\ Fabric!IndexFindsTheLive /\ Fabric!AnswerIsPermitted)
            /\ Fabric!GoneForGood
BY FabricInit, FabricStep, PTL DEF Spec, FabricSound, Fabric!GoneForGood

-----------------------------------------------------------------------------
(* The library of other agents' transcripts.                               *)

ExchangeSound ==
    /\ Fabric!ExchangeTypeOK /\ Fabric!RawIndexIsAuthoritative
    /\ \A a \in exchange_answered :
        /\ a.scope = Home
        /\ \/ exchange_records[<<Home, a.raw>>] = a
           \/ <<Home, a.raw>> \in exchange_revoked_records
    /\ \A a, b \in exchange_answered : a.raw = b.raw => a = b

LEMMA ExchangeInit == Init => ExchangeSound
BY DEF Init, Fabric!ExchangeInit, ExchangeSound, Fabric!ExchangeTypeOK,
       Fabric!RawIndexIsAuthoritative, Fabric!LiveRecord

LEMMA ExchangeNext ==
    ASSUME ExchangeSound, Fabric!ExchangeNext
    PROVE  ExchangeSound'
<1>0. /\ exchange_records \in [Fabric!RecordIds -> Fabric!Records \cup {Fabric!NoRecord}]
      /\ exchange_by_raw_digest \in [Raws -> SUBSET Fabric!RecordIds]
      /\ \A r \in Raws, i \in Fabric!RecordIds :
            i \in exchange_by_raw_digest[r] <=>
                exchange_records[i] # Fabric!NoRecord /\ exchange_records[i].raw = r
      /\ \A i \in Fabric!RecordIds :
            /\ exchange_records[i] # Fabric!NoRecord =>
                    i = <<exchange_records[i].scope, exchange_records[i].raw>> /\ i[1] = Home
            /\ i \in exchange_revoked_records => exchange_records[i] = Fabric!NoRecord
  BY DEF ExchangeSound, Fabric!ExchangeTypeOK, Fabric!RawIndexIsAuthoritative,
         Fabric!LiveRecord, Fabric!RecordId
<1>1. ASSUME NEW record \in Fabric!Records, record.scope = Home
      PROVE  /\ record # Fabric!NoRecord /\ record.raw \in Raws
             /\ Fabric!RecordId(record) = <<Home, record.raw>>
             /\ <<Home, record.raw>> \in Fabric!RecordIds
  <2>1. Fabric!NoRecord.scope = "none" /\ Home # "none"
    BY AuthoritiesAssumption DEF Fabric!NoRecord, Fabric!ExchangeAssumption
  <2>2. record.raw \in Raws /\ record.scope \in Scopes
    BY DEF Fabric!Records
  <2>3. QED
    BY <1>1, <2>1, <2>2 DEF Fabric!RecordId, Fabric!RecordIds
\* The first part of RawIndexIsAuthoritative, pointwise.
<1>2. ASSUME exchange_by_raw_digest' \in [Raws -> SUBSET Fabric!RecordIds],
             \A r \in Raws, i \in Fabric!RecordIds :
                i \in exchange_by_raw_digest'[r] <=>
                    exchange_records'[i] # Fabric!NoRecord /\ exchange_records'[i].raw = r,
             \A i \in Fabric!RecordIds :
                /\ exchange_records'[i] # Fabric!NoRecord =>
                        /\ i = <<exchange_records'[i].scope, exchange_records'[i].raw>>
                        /\ i[1] = Home
                /\ i \in exchange_revoked_records' => exchange_records'[i] = Fabric!NoRecord,
             \A a, b \in exchange_answered' : a.raw = b.raw => a = b,
             \A a \in exchange_answered' :
                /\ a.scope = Home
                /\ \/ exchange_records'[<<Home, a.raw>>] = a
                   \/ <<Home, a.raw>> \in exchange_revoked_records'
      PROVE  Fabric!RawIndexIsAuthoritative'
  <2>1. \A a \in exchange_answered' :
            \/ exchange_records'[<<a.scope, a.raw>>] = a
            \/ <<a.scope, a.raw>> \in exchange_revoked_records'
    BY <1>2
  <2>2. ASSUME NEW r \in Raws
        PROVE  exchange_by_raw_digest'[r] =
                    {i \in Fabric!RecordIds : /\ exchange_records'[i] # Fabric!NoRecord
                                              /\ exchange_records'[i].raw = r}
    <3>1. exchange_by_raw_digest'[r] \subseteq Fabric!RecordIds
      BY <1>2
    <3>2. QED
      BY <1>2, <3>1
  <2>3. QED
    BY <1>2, <2>1, <2>2 DEF Fabric!RawIndexIsAuthoritative, Fabric!LiveRecord, Fabric!RecordId
<1>3. ASSUME NEW record \in Fabric!Records, Fabric!ImportNew(record)
      PROVE  ExchangeSound'
  <2> DEFINE id == <<Home, record.raw>>
  <2>1. /\ record.scope = Home /\ record # Fabric!NoRecord /\ record.raw \in Raws
        /\ id \in Fabric!RecordIds /\ id \notin exchange_revoked_records
        /\ exchange_by_raw_digest[record.raw] = {}
        /\ exchange_by_raw_digest' = [exchange_by_raw_digest EXCEPT ![record.raw] = {id}]
        /\ exchange_records' = [exchange_records EXCEPT ![id] = record]
        /\ exchange_answered' = exchange_answered \cup {record}
        /\ UNCHANGED <<exchange_revoked_records, exchange_in_fabric>>
        /\ id[1] = Home /\ id[2] = record.raw
    BY <1>1, <1>3 DEF Fabric!ImportNew
  <2>2. id = <<record.scope, record.raw>>
    BY <2>1
  <2>3. exchange_records[id] = Fabric!NoRecord
    <3>1. ASSUME exchange_records[id] # Fabric!NoRecord
          PROVE  FALSE
      <4>1. id = <<exchange_records[id].scope, exchange_records[id].raw>>
        BY <1>0, <2>1, <3>1
      <4>2. exchange_records[id].raw = record.raw
        BY <4>1
      <4>3. QED
        BY <1>0, <2>1, <3>1, <4>2
    <3>2. QED
      BY <3>1
  <2>4. ASSUME NEW a \in exchange_answered
        PROVE  a.raw # record.raw
    <3>1. ASSUME a.raw = record.raw
          PROVE  FALSE
      <4>1. a # Fabric!NoRecord
        BY <1>1 DEF ExchangeSound, Fabric!ExchangeTypeOK
      <4>2. exchange_records[id] = a \/ id \in exchange_revoked_records
        BY <3>1 DEF ExchangeSound
      <4>3. QED
        BY <2>1, <2>3, <4>1, <4>2
    <3>2. QED
      BY <3>1
  <2> HIDE DEF id
  <2>5. /\ exchange_records' \in [Fabric!RecordIds -> Fabric!Records \cup {Fabric!NoRecord}]
        /\ exchange_records'[id] = record
        /\ \A i \in Fabric!RecordIds \ {id} : exchange_records'[i] = exchange_records[i]
        /\ exchange_by_raw_digest' \in [Raws -> SUBSET Fabric!RecordIds]
        /\ exchange_by_raw_digest'[record.raw] = {id}
        /\ \A r \in Raws \ {record.raw} :
                exchange_by_raw_digest'[r] = exchange_by_raw_digest[r]
    BY <1>0, <2>1
  <2>6. Fabric!ExchangeTypeOK'
    BY <2>1, <2>5 DEF ExchangeSound, Fabric!ExchangeTypeOK
  <2>7. exchange_answered' \subseteq exchange_answered \cup {record}
    BY <2>1
  <2>8. \A a, b \in exchange_answered' : a.raw = b.raw => a = b
    BY <2>4, <2>7 DEF ExchangeSound
  <2>9. \A a \in exchange_answered' :
            /\ a.scope = Home
            /\ \/ exchange_records'[<<Home, a.raw>>] = a
               \/ <<Home, a.raw>> \in exchange_revoked_records'
    <3>1. CASE TRUE
      <4>1. /\ record.scope = Home
            /\ exchange_records'[<<Home, record.raw>>] = record
        BY <2>1, <2>5 DEF id
      <4>2. ASSUME NEW a \in exchange_answered
            PROVE  /\ a.scope = Home
                   /\ \/ exchange_records'[<<Home, a.raw>>] = a
                      \/ <<Home, a.raw>> \in exchange_revoked_records'
        <5>1. a \in Fabric!Records /\ a.scope = Home
          BY DEF ExchangeSound, Fabric!ExchangeTypeOK
        <5>2. <<Home, a.raw>> \in Fabric!RecordIds
          BY <1>1, <5>1
        <5>3. <<Home, a.raw>> # id
          BY <2>4 DEF id
        <5>4. QED
          BY <2>1, <2>5, <5>1, <5>2, <5>3 DEF ExchangeSound
      <4>3. QED
        BY <2>7, <4>1, <4>2
    <3>2. QED
      BY <3>1
  <2>10. ASSUME NEW r \in Raws, NEW i \in Fabric!RecordIds
         PROVE  i \in exchange_by_raw_digest'[r] <=>
                    exchange_records'[i] # Fabric!NoRecord /\ exchange_records'[i].raw = r
    <3>1. CASE i = id
      BY <1>0, <2>1, <2>3, <2>5, <3>1
    <3>2. CASE i # id
      BY <1>0, <2>1, <2>5, <3>2
    <3>3. QED
      BY <3>1, <3>2
  <2>11. \A i \in Fabric!RecordIds :
            /\ exchange_records'[i] # Fabric!NoRecord =>
                    /\ i = <<exchange_records'[i].scope, exchange_records'[i].raw>>
                    /\ i[1] = Home
            /\ i \in exchange_revoked_records' => exchange_records'[i] = Fabric!NoRecord
    BY <1>0, <2>1, <2>2, <2>5
  <2>12. Fabric!RawIndexIsAuthoritative'
    BY <1>2, <2>5, <2>8, <2>9, <2>10, <2>11
  <2>13. QED
    BY <2>6, <2>8, <2>9, <2>12 DEF ExchangeSound
<1>4. ASSUME NEW record \in Fabric!Records, Fabric!ImportExisting(record)
      PROVE  ExchangeSound'
  <2>1. PICK i \in exchange_by_raw_digest[record.raw] :
            exchange_answered' = exchange_answered \cup {exchange_records[i]}
    BY <1>4 DEF Fabric!ImportExisting
  <2>2. UNCHANGED <<exchange_records, exchange_by_raw_digest, exchange_revoked_records,
                    exchange_in_fabric>>
    BY <1>4 DEF Fabric!ImportExisting
  <2>3. record.raw \in Raws
    BY DEF Fabric!Records
  <2> DEFINE stored == exchange_records[i]
  <2>4. /\ i \in Fabric!RecordIds /\ stored # Fabric!NoRecord
        /\ i = <<stored.scope, stored.raw>> /\ i[1] = Home
    BY <1>0, <2>1, <2>3
  <2>5. /\ stored.scope = Home /\ i = <<Home, stored.raw>> /\ i \notin exchange_revoked_records
        /\ stored \in Fabric!Records \cup {Fabric!NoRecord}
    BY <1>0, <2>4
  <2>6. exchange_records[<<Home, stored.raw>>] = stored
    BY <2>5
  <2>7. <<Home, stored.raw>> \notin exchange_revoked_records
    BY <2>5
  <2>a. stored \in Fabric!Records
    BY <2>4, <2>5
  <2> HIDE DEF stored
  <2>8. exchange_answered' \subseteq exchange_answered \cup {stored}
    BY <2>1, <2>2 DEF stored
  <2>9. \A a \in exchange_answered : a.raw = stored.raw => a = stored
    BY <2>6, <2>7 DEF ExchangeSound
  <2>10. \A a, b \in exchange_answered' : a.raw = b.raw => a = b
    BY <2>8, <2>9 DEF ExchangeSound
  <2>11. \A a \in exchange_answered' :
            /\ a.scope = Home
            /\ \/ exchange_records'[<<Home, a.raw>>] = a
               \/ <<Home, a.raw>> \in exchange_revoked_records'
    BY <2>2, <2>5, <2>6, <2>8 DEF ExchangeSound
  <2>12. Fabric!ExchangeTypeOK'
    BY <2>1, <2>2, <2>5, <2>a DEF ExchangeSound, Fabric!ExchangeTypeOK, stored
  <2>13. Fabric!RawIndexIsAuthoritative'
    BY <1>0, <1>2, <2>2, <2>10, <2>11 DEF ExchangeSound, Fabric!ExchangeTypeOK
  <2>14. QED
    BY <2>10, <2>11, <2>12, <2>13 DEF ExchangeSound
<1>5. ASSUME NEW i \in Fabric!RecordIds, Fabric!RevokeSource(i)
      PROVE  ExchangeSound'
  <2> DEFINE raw == exchange_records[i].raw
  <2>1. /\ exchange_records[i] # Fabric!NoRecord
        /\ exchange_records' = [exchange_records EXCEPT ![i] = Fabric!NoRecord]
        /\ exchange_by_raw_digest' = [exchange_by_raw_digest EXCEPT ![raw] = {}]
        /\ exchange_revoked_records' = exchange_revoked_records \cup {i}
        /\ UNCHANGED <<exchange_in_fabric, exchange_answered>>
    BY <1>5 DEF Fabric!RevokeSource, Fabric!LiveRecord
  <2>2. exchange_records[i] \in Fabric!Records
    BY <1>0, <2>1
  <2>3. raw \in Raws
    BY <2>2 DEF Fabric!Records
  <2>4. i = <<Home, raw>>
    BY <1>0, <2>1
  <2>5. \A j \in Fabric!RecordIds \ {i} :
            ~(exchange_records[j] # Fabric!NoRecord /\ exchange_records[j].raw = raw)
    BY <1>0, <2>4
  <2> HIDE DEF raw
  <2>6. /\ exchange_records' \in [Fabric!RecordIds -> Fabric!Records \cup {Fabric!NoRecord}]
        /\ exchange_records'[i] = Fabric!NoRecord
        /\ \A j \in Fabric!RecordIds \ {i} : exchange_records'[j] = exchange_records[j]
        /\ exchange_by_raw_digest' \in [Raws -> SUBSET Fabric!RecordIds]
        /\ exchange_by_raw_digest'[raw] = {}
        /\ \A r \in Raws \ {raw} : exchange_by_raw_digest'[r] = exchange_by_raw_digest[r]
    BY <1>0, <2>1, <2>3
  <2>7. Fabric!ExchangeTypeOK' /\ exchange_answered' = exchange_answered
    BY <2>1, <2>6 DEF ExchangeSound, Fabric!ExchangeTypeOK
  <2>8. ASSUME NEW a \in exchange_answered
        PROVE  /\ a.scope = Home
               /\ \/ exchange_records'[<<Home, a.raw>>] = a
                  \/ <<Home, a.raw>> \in exchange_revoked_records'
    <3>1. a \in Fabric!Records /\ a.scope = Home
      BY DEF ExchangeSound, Fabric!ExchangeTypeOK
    <3>2. <<Home, a.raw>> \in Fabric!RecordIds
      BY <1>1, <3>1
    <3>3. CASE <<Home, a.raw>> = i
      BY <2>1, <3>1, <3>3
    <3>4. CASE <<Home, a.raw>> # i
      BY <2>1, <2>6, <3>1, <3>2, <3>4 DEF ExchangeSound
    <3>5. QED
      BY <3>3, <3>4
  <2>9. ASSUME NEW r \in Raws, NEW j \in Fabric!RecordIds
        PROVE  j \in exchange_by_raw_digest'[r] <=>
                    exchange_records'[j] # Fabric!NoRecord /\ exchange_records'[j].raw = r
    <3>1. CASE j = i
      <4>1. CASE r = raw
        BY <2>6, <3>1, <4>1
      <4>2. CASE r # raw
        BY <1>0, <2>6, <3>1, <4>2 DEF raw
      <4>3. QED
        BY <4>1, <4>2
    <3>2. CASE j # i
      <4>1. CASE r = raw
        BY <2>5, <2>6, <3>2, <4>1
      <4>2. CASE r # raw
        BY <1>0, <2>6, <3>2, <4>2
      <4>3. QED
        BY <4>1, <4>2
    <3>3. QED
      BY <3>1, <3>2
  <2>10. \A j \in Fabric!RecordIds :
            /\ exchange_records'[j] # Fabric!NoRecord =>
                    /\ j = <<exchange_records'[j].scope, exchange_records'[j].raw>>
                    /\ j[1] = Home
            /\ j \in exchange_revoked_records' => exchange_records'[j] = Fabric!NoRecord
    BY <1>0, <2>1, <2>6
  <2>12. \A a, b \in exchange_answered' : a.raw = b.raw => a = b
    BY <2>7 DEF ExchangeSound
  <2>13. Fabric!RawIndexIsAuthoritative'
    BY <1>2, <2>6, <2>7, <2>8, <2>9, <2>10, <2>12
  <2>14. QED
    BY <2>7, <2>8, <2>12, <2>13 DEF ExchangeSound
<1>6. ASSUME NEW record \in Fabric!Records, Fabric!AdmitIntoFabric(record)
      PROVE  ExchangeSound'
  <2>1. /\ Fabric!RecordId(record) \in Fabric!RecordIds
        /\ exchange_in_fabric' = exchange_in_fabric \cup {Fabric!RecordId(record)}
        /\ UNCHANGED <<exchange_records, exchange_by_raw_digest, exchange_revoked_records,
                       exchange_answered>>
    BY <1>6 DEF Fabric!AdmitIntoFabric, Fabric!RecordId, Fabric!RecordIds, Fabric!Records
  <2>2. QED
    BY <2>1 DEF ExchangeSound, Fabric!ExchangeTypeOK, Fabric!RawIndexIsAuthoritative,
                Fabric!LiveRecord
<1>7. QED
  BY <1>3, <1>4, <1>5, <1>6 DEF Fabric!ExchangeNext

LEMMA ExchangeStep == ExchangeSound /\ [Next]_vars => ExchangeSound'
<1> SUFFICES ASSUME ExchangeSound, [Next]_vars
             PROVE  ExchangeSound'
  OBVIOUS
<1>1. CASE Fabric!ExchangeNext
  BY <1>1, ExchangeNext
<1>2. CASE UNCHANGED exchange
  BY <1>2 DEF exchange, ExchangeSound, Fabric!ExchangeTypeOK, Fabric!LiveRecord,
              Fabric!RawIndexIsAuthoritative
<1>3. QED
  BY <1>1, <1>2 DEF Next, Unless, vars, exchange

LEMMA ExchangeAlways == Spec => [](Fabric!ExchangeTypeOK /\ Fabric!RawIndexIsAuthoritative)
BY ExchangeInit, ExchangeStep, PTL DEF Spec, ExchangeSound

-----------------------------------------------------------------------------
(* A task's calls of models, and one streamed response.                    *)

\* A call in progress was found affordable, of a record in some registry.
ModelSound ==
    /\ Model!TypeOK /\ Model!CallsAreAffordable
    /\ models_call \subseteq [request : ModelRequests, record : UNION Listed, attempts : 0..2]
    /\ \A c \in models_call : c.request.estimate > 0

LEMMA ModelInit == Init => ModelSound
<1> SUFFICES ASSUME Init
             PROVE  ModelSound
  OBVIOUS
<1>1. /\ models_registry \in Listed /\ models_sequence = 0
      /\ models_consumed = 0 /\ models_call = {} /\ models_told = "nothing"
      /\ models_spent = 0 /\ models_calls = 0
  BY DEF Init, Model!Init
<1>2. TotalTokens \in Nat \ {0} /\ MaxSequence \in Nat
  BY AuthoritiesAssumption DEF Model!InvokerAssumption
<1>3. Model!TypeOK
  BY <1>1, <1>2 DEF Model!TypeOK, Model!MAX_ATTEMPTS
<1>4. Model!CallsAreAffordable
  BY <1>1, <1>2 DEF Model!CallsAreAffordable
<1>5. QED
  BY <1>1, <1>3, <1>4 DEF ModelSound

LEMMA ModelNext ==
    ASSUME ModelSound, Model!Next
    PROVE  ModelSound'
<1> DEFINE Called == [request : ModelRequests, record : UNION Listed, attempts : 0..2]
<1>0. /\ Models \subseteq Nat /\ Usages \subseteq Nat \ {0}
      /\ TotalTokens \in Nat \ {0} /\ MaxSequence \in Nat
      /\ \A q \in ModelRequests : q.estimate \in Nat /\ q.model \in Models
      /\ 0 \in Nat
  BY AuthoritiesAssumption DEF Model!InvokerAssumption
<1>1. /\ models_registry \in Listed /\ models_sequence \in 0..MaxSequence
      /\ models_consumed \in Nat /\ models_spent \in Nat /\ models_calls \in 0..3
      /\ models_call \subseteq Called
  BY DEF ModelSound, Model!TypeOK, Model!MAX_ATTEMPTS
\* What a call needs of the state it is in.
<1>2. \A c \in models_call :
        /\ c.record.model = c.request.model /\ c.record.class >= c.request.class
        /\ c.request.residency = "OnDevice" => c.record.residency = "OnDevice"
        /\ c.request.estimate <= Model!Remaining
        /\ models_calls = c.attempts
        /\ c.request.estimate > 0
  BY DEF ModelSound, Model!CallsAreAffordable
<1>3. /\ models_told = "answered" => models_consumed <= TotalTokens
      /\ \E u \in Usages \cup {0} : models_consumed < TotalTokens + u
      /\ models_consumed <= models_spent
  BY DEF ModelSound, Model!CallsAreAffordable
<1>4. ASSUME NEW l \in Listed, NEW n \in 0..MaxSequence, Model!UpdateRegistry(l, n)
      PROVE  ModelSound'
  <2>1. /\ models_call = {} /\ models_call' = {}
        /\ models_registry' = l /\ models_sequence' = n
        /\ UNCHANGED <<models_consumed, models_told, models_spent, models_calls>>
    BY <1>4 DEF Model!UpdateRegistry
  <2>2. Model!TypeOK'
    BY <2>1 DEF ModelSound, Model!TypeOK
  <2>3. Model!CallsAreAffordable'
    BY <1>3, <2>1 DEF Model!CallsAreAffordable
  <2>4. QED
    BY <2>1, <2>2, <2>3 DEF ModelSound
<1>5. ASSUME NEW u \in Usages, Model!Refund(u)
      PROVE  ModelSound'
  <2>1. /\ models_call = {} /\ models_call' = {}
        /\ models_consumed' = IF u < models_consumed THEN models_consumed - u ELSE 0
        /\ UNCHANGED <<models_registry, models_sequence, models_told, models_spent, models_calls>>
    BY <1>5 DEF Model!Refund
  <2>2. u \in Nat
    BY <1>0
  <2>3. models_consumed' \in Nat /\ models_consumed' <= models_consumed
    BY <1>1, <2>1, <2>2
  <2>4. Model!TypeOK'
    BY <2>1, <2>3 DEF ModelSound, Model!TypeOK
  <2>5. \E v \in Usages \cup {0} : models_consumed' < TotalTokens + v
    <3>1. PICK v \in Usages \cup {0} : models_consumed < TotalTokens + v
      BY <1>3
    <3>2. v \in Nat /\ TotalTokens \in Nat
      BY <1>0
    <3>3. QED
      BY <1>1, <2>3, <3>1, <3>2
  <2>6. /\ models_told' = "answered" => models_consumed' <= TotalTokens
        /\ models_consumed' <= models_spent'
    BY <1>0, <1>1, <1>3, <2>1, <2>3
  <2>7. Model!CallsAreAffordable'
    BY <2>1, <2>5, <2>6 DEF Model!CallsAreAffordable
  <2>8. QED
    BY <2>1, <2>4, <2>7 DEF ModelSound
<1>6. ASSUME NEW q \in ModelRequests, NEW excluded \in SUBSET Models, Model!Invoke(q, excluded)
      PROVE  ModelSound'
  <2> DEFINE Start(r) == [request |-> q, record |-> r, attempts |-> 0]
  <2>1. /\ models_calls' = 0
        /\ models_call' = IF Model!Affordable(q) THEN {Start(r) : r \in Model!Routed(q, excluded)} ELSE {}
        /\ models_told' = IF models_call' = {} THEN "refused" ELSE "waiting"
        /\ UNCHANGED <<models_registry, models_sequence, models_consumed,
                       models_spent>>
    BY <1>6 DEF Model!Invoke
  <2>2. ASSUME NEW c \in models_call'
        PROVE  \E r \in Model!Routed(q, excluded) : c = Start(r) /\ Model!Affordable(q)
    BY <2>1
  <2>3. ASSUME NEW r \in Model!Routed(q, excluded)
        PROVE  /\ r \in models_registry /\ r.model = q.model /\ r.class >= q.class
               /\ q.residency = "OnDevice" => r.residency = "OnDevice"
    <3>1. r \in models_registry /\ r.model = q.model /\ r \in Model!Survivors(q, r.capabilities, excluded)
      BY DEF Model!Routed
    <3>2. r.class >= q.class /\ Model!ResidencyAdmissible(r.residency, q.residency)
      BY <3>1 DEF Model!Survivors
    <3>3. q.residency = "OnDevice" => r.residency = "OnDevice"
      BY <3>2 DEF Model!ResidencyAdmissible
    <3>4. QED
      BY <3>1, <3>2, <3>3
  <2>4. ASSUME NEW c \in models_call'
        PROVE  /\ c \in Called
               /\ c.request = q /\ c.attempts = 0 /\ c.record.model = q.model
               /\ c.record.class >= q.class
               /\ q.residency = "OnDevice" => c.record.residency = "OnDevice"
               /\ Model!Affordable(q)
    <3>1. PICK r \in Model!Routed(q, excluded) : c = Start(r) /\ Model!Affordable(q)
      BY <2>2
    <3>2. r \in UNION Listed
      BY <1>1, <2>3
    <3>3. Start(r) \in Called
      BY <3>2
    <3>4. QED
      BY <2>3, <3>1, <3>3
  <2>5. Model!Remaining' = Model!Remaining
    BY <2>1 DEF Model!Remaining
  <2>6. Model!CallsAreAffordable'
    <3>1. models_told' # "answered"
      BY <2>1
    <3>2. \A c \in models_call' :
            /\ c.record.model = c.request.model /\ c.record.class >= c.request.class
            /\ c.request.residency = "OnDevice" => c.record.residency = "OnDevice"
            /\ c.request.estimate <= Model!Remaining'
            /\ models_calls' = c.attempts
      BY <2>1, <2>4, <2>5 DEF Model!Affordable
    <3>3. QED
      BY <1>3, <2>1, <3>1, <3>2 DEF Model!CallsAreAffordable
  <2>7. Model!TypeOK'
    BY <2>1 DEF ModelSound, Model!TypeOK, Model!MAX_ATTEMPTS
  <2>8. \A c \in models_call' : c \in Called /\ c.request.estimate > 0
    BY <2>4 DEF Model!Affordable
  <2>9. QED
    BY <2>1, <2>6, <2>7, <2>8 DEF ModelSound
<1>7. ASSUME Model!Unequipped
      PROVE  ModelSound'
  <2>1. /\ models_call' = {} /\ models_told' = "refused"
        /\ UNCHANGED <<models_registry, models_sequence, models_consumed,
                       models_spent, models_calls>>
    BY <1>7 DEF Model!Unequipped
  <2>2. Model!TypeOK' /\ Model!CallsAreAffordable'
    BY <1>3, <2>1 DEF ModelSound, Model!TypeOK, Model!CallsAreAffordable
  <2>3. QED
    BY <2>1, <2>2 DEF ModelSound
<1>8. ASSUME NEW u \in Usages, Model!Answer(u)
      PROVE  ModelSound'
  <2>1. /\ models_call # {} /\ models_call' = {} /\ models_calls' = models_calls + 1
        /\ models_spent' = models_spent + u /\ models_consumed' = models_consumed + u
        /\ models_told' = IF models_consumed + u > TotalTokens THEN "BudgetExhausted"
                          ELSE "answered"
        /\ UNCHANGED <<models_registry, models_sequence>>
    BY <1>8 DEF Model!Answer, Model!Ends
  <2>2. PICK c \in models_call : TRUE
    BY <2>1
  <2>3. c \in Called /\ c.request.estimate <= Model!Remaining /\ c.request.estimate > 0
        /\ models_calls = c.attempts
    BY <1>1, <1>2
  <2>4. c.request.estimate \in Nat /\ c.attempts \in 0..2
    BY <1>0, <2>3
  <2>5. models_consumed < TotalTokens
    BY <1>0, <1>1, <2>3, <2>4 DEF Model!Remaining
  <2>6. u \in Nat
    BY <1>0
  <2>7. models_consumed' < TotalTokens + u
    BY <1>0, <1>1, <2>1, <2>5, <2>6
  <2>8. models_calls' \in 0..3
    BY <2>1, <2>3, <2>4
  <2>9. Model!TypeOK'
    BY <1>1, <2>1, <2>6, <2>8 DEF ModelSound, Model!TypeOK, Model!MAX_ATTEMPTS
  <2>10. /\ models_told' = "answered" => models_consumed' <= TotalTokens
         /\ models_consumed' <= models_spent'
    BY <1>0, <1>1, <1>3, <2>1, <2>6
  <2>11. Model!CallsAreAffordable'
    BY <2>1, <2>7, <2>10 DEF Model!CallsAreAffordable
  <2>12. QED
    BY <2>1, <2>9, <2>11 DEF ModelSound
<1>9. ASSUME NEW u \in Usages, Model!AnswerUnread(u)
      PROVE  ModelSound'
  <2>1. /\ models_call # {} /\ models_call' = {} /\ models_calls' = models_calls + 1
        /\ models_spent' = models_spent + u /\ models_told' = "failed"
        /\ UNCHANGED <<models_registry, models_sequence, models_consumed>>
    BY <1>9 DEF Model!AnswerUnread, Model!Ends
  <2>2. PICK c \in models_call : TRUE
    BY <2>1
  <2>3. c \in Called /\ models_calls = c.attempts
    BY <1>1, <1>2
  <2>4. c.attempts \in 0..2
    BY <2>3
  <2>5. models_calls' \in 0..3
    BY <2>1, <2>3, <2>4
  <2>6. u \in Nat
    BY <1>0
  <2>7. Model!TypeOK'
    BY <1>1, <2>1, <2>5, <2>6 DEF ModelSound, Model!TypeOK, Model!MAX_ATTEMPTS
  <2>8. models_consumed' <= models_spent'
    BY <1>1, <1>3, <2>1, <2>6
  <2>9. Model!CallsAreAffordable'
    BY <1>3, <2>1, <2>8 DEF Model!CallsAreAffordable
  <2>10. QED
    BY <2>1, <2>7, <2>9 DEF ModelSound
<1>10. ASSUME NEW retryable \in BOOLEAN, Model!TransportFails(retryable)
       PROVE  ModelSound'
  <2>1. PICK c \in models_call :
            IF retryable /\ c.attempts < 2
            THEN models_call' = {[c EXCEPT !.attempts = @ + 1]} /\ UNCHANGED models_told
            ELSE models_call' = {} /\ models_told' = "failed"
    BY <1>10 DEF Model!TransportFails, Model!Ends, Model!MAX_ATTEMPTS
  <2>2. /\ models_calls' = models_calls + 1
        /\ UNCHANGED <<models_registry, models_sequence, models_consumed,
                       models_spent>>
    BY <1>10 DEF Model!TransportFails
  <2>3. c \in Called /\ models_calls = c.attempts /\ c.attempts \in 0..2
    BY <1>1, <1>2
  <2>4. models_calls' \in 0..3
    BY <2>2, <2>3
  <2>5. Model!Remaining' = Model!Remaining
    BY <2>2 DEF Model!Remaining
  <2>6. CASE retryable /\ c.attempts < 2
    <3> DEFINE again == [request |-> c.request, record |-> c.record, attempts |-> c.attempts + 1]
    <3>1. [c EXCEPT !.attempts = @ + 1] = again
      BY <2>3
    <3>2. models_call' = {again} /\ models_told' = models_told
      BY <2>1, <2>6, <3>1
    <3>3. /\ again \in Called /\ again.request = c.request /\ again.record = c.record
          /\ again.attempts = c.attempts + 1
      BY <2>3, <2>6
    <3> HIDE DEF again
    <3>4. Model!TypeOK'
      BY <2>2, <2>4, <3>2 DEF ModelSound, Model!TypeOK, Model!MAX_ATTEMPTS
    <3>5. /\ c.record.model = c.request.model /\ c.record.class >= c.request.class
          /\ c.request.residency = "OnDevice" => c.record.residency = "OnDevice"
          /\ c.request.estimate <= Model!Remaining
          /\ c.request.estimate > 0
      BY <1>2
    <3>6. models_calls' = again.attempts
      BY <2>2, <2>3, <3>3
    <3>7. \A a \in models_call' :
            /\ a.record.model = a.request.model /\ a.record.class >= a.request.class
            /\ a.request.residency = "OnDevice" => a.record.residency = "OnDevice"
            /\ a.request.estimate <= Model!Remaining'
            /\ models_calls' = a.attempts
            /\ a.request.estimate > 0 /\ a \in Called
      BY <2>2, <2>5, <3>2, <3>3, <3>5, <3>6
    <3>8. Model!CallsAreAffordable'
      BY <1>3, <2>2, <3>2, <3>7 DEF Model!CallsAreAffordable
    <3>9. QED
      BY <2>2, <3>4, <3>7, <3>8 DEF ModelSound
  <2>7. CASE ~(retryable /\ c.attempts < 2)
    <3>1. models_call' = {} /\ models_told' = "failed"
      BY <2>1, <2>7
    <3>2. Model!TypeOK'
      BY <2>2, <2>4, <3>1 DEF ModelSound, Model!TypeOK, Model!MAX_ATTEMPTS
    <3>3. Model!CallsAreAffordable'
      BY <1>3, <2>2, <3>1 DEF Model!CallsAreAffordable
    <3>4. QED
      BY <2>2, <3>1, <3>2, <3>3 DEF ModelSound
  <2>8. QED
    BY <2>6, <2>7
<1>11. QED
  BY <1>4, <1>5, <1>6, <1>7, <1>8, <1>9, <1>10 DEF Model!Next

LEMMA ModelStep == ModelSound /\ [Next]_vars => ModelSound'
<1> SUFFICES ASSUME ModelSound, [Next]_vars
             PROVE  ModelSound'
  OBVIOUS
<1>1. CASE Model!Next
  BY <1>1, ModelNext
<1>2. CASE UNCHANGED models
  BY <1>2 DEF models, ModelSound, Model!TypeOK, Model!CallsAreAffordable, Model!Remaining
<1>3. QED
  BY <1>1, <1>2 DEF Next, Unless, vars, models

LEMMA ModelAlways == Spec => [](Model!TypeOK /\ Model!CallsAreAffordable)
BY ModelInit, ModelStep, PTL DEF Spec, ModelSound

\* While it is read, the stream's error is that of its budget and no other.
StreamSound ==
    /\ Model!StreamTypeOK /\ Model!StreamIsAccounted
    /\ stream_cancelled <=> stream_taken > StreamBudget
    /\ stream_reading =>
            stream_error = IF stream_cancelled THEN "BudgetExhausted" ELSE "none"

LEMMA StreamInit == Init => StreamSound
<1> SUFFICES ASSUME Init
             PROVE  StreamSound
  OBVIOUS
<1>1. /\ stream_taken = 0 /\ stream_usage = 0 /\ stream_tool_calls = {} /\ stream_finish = {}
      /\ stream_cancelled = FALSE /\ stream_error = "none" /\ stream_reading = TRUE
      /\ stream_events = 0
  BY DEF Init, Model!StreamInit
<1>2. StreamBudget \in Nat \ {0} /\ MaxStream \in Nat
  BY AuthoritiesAssumption DEF Model!StreamAssumption
<1>3. /\ ~stream_cancelled /\ stream_reading
      /\ stream_cancelled \in BOOLEAN /\ stream_reading \in BOOLEAN
  BY <1>1
<1>4. ~(stream_taken > StreamBudget)
  BY <1>1, <1>2
<1>5. Model!StreamTypeOK
  BY <1>1, <1>2, <1>3 DEF Model!StreamTypeOK
<1>6. Model!StreamIsAccounted
  BY <1>1, <1>3, <1>4 DEF Model!StreamIsAccounted
<1>7. QED
  BY <1>1, <1>3, <1>4, <1>5, <1>6 DEF StreamSound

LEMMA StreamNext ==
    ASSUME StreamSound, Model!StreamNext
    PROVE  StreamSound'
<1>0. StreamTokens \subseteq Nat /\ StreamBudget \in Nat \ {0} /\ MaxStream \in Nat
  BY AuthoritiesAssumption DEF Model!StreamAssumption
<1>1. /\ stream_taken \in Nat /\ stream_usage \in Nat /\ stream_events \in 0..MaxStream
      /\ stream_tool_calls \subseteq CallIndexes /\ stream_finish \subseteq Model!FinishReasons
      /\ stream_cancelled \in BOOLEAN /\ stream_reading \in BOOLEAN
      /\ stream_error \in {"none", "BudgetExhausted", "StreamAborted", "Provider"}
  BY DEF StreamSound, Model!StreamTypeOK
<1>2. /\ stream_usage = stream_taken
      /\ stream_cancelled <=> stream_taken > StreamBudget
      /\ stream_reading =>
            stream_error = IF stream_cancelled THEN "BudgetExhausted" ELSE "none"
  BY DEF StreamSound, Model!StreamIsAccounted
<1>3. Model!Read => stream_reading /\ ~stream_cancelled /\ stream_events' \in 0..MaxStream
  BY <1>0, <1>1 DEF Model!Read
<1>4. ASSUME NEW i \in CallIndexes, Model!ToolCallDelta(i)
      PROVE  StreamSound'
  BY <1>1, <1>2, <1>3, <1>4 DEF Model!ToolCallDelta, StreamSound, Model!StreamTypeOK,
                                Model!StreamIsAccounted
<1>5. ASSUME NEW t \in StreamTokens, Model!Usage(t)
      PROVE  StreamSound'
  <2>1. /\ stream_usage' = stream_usage + t /\ stream_taken' = stream_taken + t
        /\ stream_cancelled' = (stream_taken + t > StreamBudget)
        /\ stream_error' = IF stream_cancelled' THEN "BudgetExhausted" ELSE stream_error
        /\ UNCHANGED <<stream_tool_calls, stream_finish, stream_reading>>
        /\ stream_reading /\ ~stream_cancelled /\ stream_events' \in 0..MaxStream
    BY <1>3, <1>5 DEF Model!Usage
  <2>2. t \in Nat
    BY <1>0
  <2>3. stream_cancelled' \in BOOLEAN
    BY <2>1
  <2>4. stream_cancelled' <=> stream_taken' > StreamBudget
    BY <2>1
  <2>5. stream_error' = IF stream_cancelled' THEN "BudgetExhausted" ELSE "none"
    BY <1>2, <2>1
  <2>6. Model!StreamTypeOK'
    BY <1>1, <2>1, <2>2, <2>3, <2>5 DEF Model!StreamTypeOK
  <2>7. Model!StreamIsAccounted'
    BY <1>1, <1>2, <2>1, <2>2, <2>4 DEF Model!StreamIsAccounted
  <2>8. QED
    BY <2>4, <2>5, <2>6, <2>7 DEF StreamSound
<1>6. ASSUME NEW r \in Model!FinishReasons, Model!Done(r)
      PROVE  StreamSound'
  BY <1>1, <1>2, <1>3, <1>6 DEF Model!Done, StreamSound, Model!StreamTypeOK,
                                Model!StreamIsAccounted
<1>7. ASSUME Model!Conclude
      PROVE  StreamSound'
  <2>1. /\ stream_reading /\ stream_reading' = FALSE
        /\ UNCHANGED <<stream_taken, stream_usage, stream_tool_calls, stream_finish,
                       stream_cancelled, stream_events>>
    BY <1>7 DEF Model!Conclude
  <2>2. stream_error' = IF stream_finish = {"ToolCall"} /\ stream_tool_calls = {}
                        THEN "Provider"
                        ELSE IF ~stream_cancelled /\ stream_finish = {}
                        THEN "StreamAborted" ELSE stream_error
    BY <1>7 DEF Model!Conclude
  <2>3. Model!StreamTypeOK'
    BY <1>1, <2>1, <2>2 DEF Model!StreamTypeOK
  <2>4. Model!StreamIsAccounted'
    BY <1>0, <1>1, <1>2, <2>1, <2>2 DEF Model!StreamIsAccounted
  <2>5. QED
    BY <1>2, <2>1, <2>3, <2>4 DEF StreamSound
<1>8. QED
  BY <1>4, <1>5, <1>6, <1>7 DEF Model!StreamNext

LEMMA StreamStep == StreamSound /\ [Next]_vars => StreamSound'
<1> SUFFICES ASSUME StreamSound, [Next]_vars
             PROVE  StreamSound'
  OBVIOUS
<1>1. CASE Model!StreamNext
  BY <1>1, StreamNext
<1>2. CASE UNCHANGED stream
  BY <1>2 DEF stream, StreamSound, Model!StreamTypeOK, Model!StreamIsAccounted
<1>3. QED
  BY <1>1, <1>2 DEF Next, Unless, vars, stream

LEMMA StreamAlways == Spec => [](Model!StreamTypeOK /\ Model!StreamIsAccounted)
BY StreamInit, StreamStep, PTL DEF Spec, StreamSound

\* The decision points: a connection that is being used is covered by a rule of
\* its authorization, a decision is the newest snapshot's, a call of a model
\* fits what its task has left, and what a stream delivered was charged.
THEOREM DecisionsBindAlways == Spec => []DecisionsBind
BY EgressAlways, PolicyAlways, ModelAlways, StreamAlways, PTL DEF DecisionsBind

-----------------------------------------------------------------------------
(* A child of the sandbox, its caller and its watcher.                     *)

\* The caller has turned away from the output.
Left(s) == spawned_main \notin (IF s = "stdout" THEN {"stdin", "pipes", "stdout", "failed"}
                                ELSE {"stdin", "pipes", "stdout", "stderr", "failed"})

ChildTyped ==
    /\ Spawned!TypeOK
    /\ spawned_due \in BOOLEAN /\ spawned_finished \in BOOLEAN /\ spawned_killed \in BOOLEAN

\* What was written is captured, still piped, or the one unit past the cap;
\* an output the caller left without cutting it is at its end, or its read failed.
Drained ==
    \A s \in Spawned!Streams :
        /\ spawned_sent[s] = spawned_captured[s] + spawned_pipe[s]
                                + (IF s \in spawned_truncated THEN 1 ELSE 0)
        /\ s \in spawned_truncated => spawned_captured[s] = MaxOutput /\ Left(s)
        /\ Left(s) /\ s \notin spawned_truncated /\ s \notin spawned_broken =>
                spawned_pipe[s] = 0 /\ spawned_holders[s] = {}

\* Who holds the mutex, and what the flags say of the threads and the child.
Guarded ==
    /\ spawned_mutex = "main" <=> spawned_main \in {"wait", "join"}
    /\ spawned_mutex = "watcher" <=> spawned_watcher \in {"killing", "unlocking"}
    /\ spawned_finished <=> spawned_main \in {"join", "returned"}
    /\ spawned_main \in {"stdin", "failed"} <=> spawned_watcher = "none"
    /\ spawned_main = "returned" => spawned_watcher = "ended"
    /\ spawned_watcher \in {"locking", "killing", "unlocking"} => spawned_due
    /\ spawned_killed => spawned_due
    /\ spawned_finished => spawned_child # "running"
    /\ spawned_child = "killed" => spawned_killed

SpawnedSound == ChildTyped /\ Drained /\ Guarded

LEMMA SpawnedInit == Init => SpawnedSound
<1> SUFFICES ASSUME Init
             PROVE  SpawnedSound
  OBVIOUS
<1>1. Spawned!Init
  BY DEF Init
<1>2. Payload \in Nat /\ PipeSize \in Nat \ {0} /\ MaxOutput \in Nat
  BY AuthoritiesAssumption DEF Spawned!ChildAssumption
<1>3. ChildTyped
  <2>1. /\ spawned_due \in BOOLEAN /\ spawned_finished \in BOOLEAN
        /\ spawned_killed \in BOOLEAN
    BY <1>1 DEF Spawned!Init
  <2>2. 0 \in 0..PipeSize /\ 0 \in 0..MaxOutput /\ 0 \in 0..MaxOutput + PipeSize + 1
        /\ Payload \in 0..Payload
    BY <1>2
  <2>3. /\ spawned_input \in [left : 0..Payload, piped : 0..PipeSize]
        /\ spawned_holders \in [Spawned!Streams -> SUBSET {"child", "heir"}]
        /\ spawned_pipe \in [Spawned!Streams -> 0..PipeSize]
        /\ spawned_captured \in [Spawned!Streams -> 0..MaxOutput]
        /\ spawned_sent \in [Spawned!Streams -> 0..MaxOutput + PipeSize + 1]
    BY <1>1, <2>2 DEF Spawned!Init
  <2>4. /\ spawned_main = "stdin" /\ spawned_watcher = "none" /\ spawned_mutex = "none"
        /\ spawned_child = "running" /\ spawned_truncated = {} /\ spawned_broken = {}
    BY <1>1 DEF Spawned!Init
  <2>5. QED
    BY <2>1, <2>3, <2>4 DEF ChildTyped, Spawned!TypeOK
<1>4. Drained
  BY <1>1, <1>2 DEF Spawned!Init, Drained, Left, Spawned!Streams
<1>5. Guarded
  BY <1>1, <1>2 DEF Spawned!Init, Guarded
<1>6. QED
  BY <1>3, <1>4, <1>5 DEF SpawnedSound

\* What the child and its heir do touches no thread.
LEMMA ProcessesNext ==
    ASSUME SpawnedSound, Spawned!Processes
    PROVE  SpawnedSound'
<1>0. /\ Payload \in Nat /\ PipeSize \in Nat \ {0} /\ MaxOutput \in Nat
  BY AuthoritiesAssumption DEF Spawned!ChildAssumption
<1>1. ChildTyped /\ Drained /\ Guarded /\ Spawned!TypeOK
  BY DEF SpawnedSound, ChildTyped
<1>2. CASE Spawned!ReadInput
  <2>1. /\ spawned_input.piped > 0
        /\ spawned_input' = [spawned_input EXCEPT !.piped = @ - 1]
        /\ UNCHANGED <<spawned_main, spawned_watcher, spawned_mutex, spawned_child,
                       spawned_holders, spawned_sent, spawned_pipe, spawned_captured,
                       spawned_truncated, spawned_broken, spawned_due, spawned_finished, spawned_killed>>
    BY <1>2 DEF Spawned!ReadInput, Spawned!process, Spawned!output, Spawned!flags
  <2>2. spawned_input' \in [left : 0..Payload, piped : 0..PipeSize]
    BY <1>0, <1>1, <2>1 DEF Spawned!TypeOK
  <2>3. ChildTyped'
    BY <1>1, <2>1, <2>2 DEF ChildTyped, Spawned!TypeOK
  <2>4. Drained' /\ Guarded'
    BY <1>1, <2>1 DEF Drained, Left, Guarded
  <2>5. QED
    BY <2>3, <2>4 DEF SpawnedSound
<1>3. ASSUME NEW s \in Spawned!Streams, Spawned!Write(s)
      PROVE  SpawnedSound'
  <2>1. /\ spawned_holders[s] # {} /\ spawned_pipe[s] < PipeSize
        /\ spawned_pipe' = [spawned_pipe EXCEPT ![s] = @ + 1]
        /\ spawned_sent' = [spawned_sent EXCEPT ![s] = @ + 1]
        /\ UNCHANGED <<spawned_main, spawned_watcher, spawned_mutex, spawned_child,
                       spawned_holders, spawned_input, spawned_captured,
                       spawned_truncated, spawned_broken, spawned_due, spawned_finished, spawned_killed>>
    BY <1>3 DEF Spawned!Write, Spawned!output, Spawned!flags
  <2>2. /\ spawned_pipe \in [Spawned!Streams -> 0..PipeSize]
        /\ spawned_sent \in [Spawned!Streams -> 0..MaxOutput + PipeSize + 1]
        /\ spawned_captured \in [Spawned!Streams -> 0..MaxOutput]
    BY <1>1 DEF Spawned!TypeOK
  <2>3. Drained'
    BY <1>0, <1>1, <2>1, <2>2 DEF Drained, Left
  <2>4. spawned_pipe' \in [Spawned!Streams -> 0..PipeSize]
    BY <1>0, <2>1, <2>2
  <2>5. spawned_sent' \in [Spawned!Streams -> 0..MaxOutput + PipeSize + 1]
    <3>1. spawned_sent'[s] = spawned_captured[s] + spawned_pipe'[s]
                                + (IF s \in spawned_truncated THEN 1 ELSE 0)
      BY <2>1, <2>3 DEF Drained
    <3>2. spawned_captured[s] \in 0..MaxOutput /\ spawned_pipe'[s] \in 0..PipeSize
      BY <2>2, <2>4
    <3>3. spawned_sent'[s] \in 0..MaxOutput + PipeSize + 1
      BY <1>0, <3>1, <3>2
    <3>4. QED
      BY <2>1, <2>2, <3>3
  <2>6. ChildTyped'
    BY <1>1, <2>1, <2>4, <2>5 DEF ChildTyped, Spawned!TypeOK
  <2>7. Guarded'
    BY <1>1, <2>1 DEF Guarded
  <2>8. QED
    BY <2>3, <2>6, <2>7 DEF SpawnedSound
\* A step that leaves who held an output to hold it, at most.
<1>4. ASSUME spawned_holders' \in [Spawned!Streams -> SUBSET {"child", "heir"}],
             \A s \in Spawned!Streams : spawned_holders[s] = {} => spawned_holders'[s] = {},
             UNCHANGED <<spawned_main, spawned_watcher, spawned_mutex,
                         spawned_sent, spawned_input, spawned_pipe, spawned_captured,
                         spawned_truncated, spawned_broken, spawned_due, spawned_finished, spawned_killed>>,
             spawned_child' = spawned_child \/ spawned_child' = "exited"
      PROVE  SpawnedSound'
  <2>1. ChildTyped'
    BY <1>1, <1>4 DEF ChildTyped, Spawned!TypeOK
  <2>2. Drained'
    BY <1>1, <1>4 DEF Drained, Left
  <2>3. Guarded'
    BY <1>1, <1>4 DEF Guarded
  <2>4. QED
    BY <2>1, <2>2, <2>3 DEF SpawnedSound
<1>5. spawned_holders \in [Spawned!Streams -> SUBSET {"child", "heir"}]
  BY <1>1 DEF Spawned!TypeOK
<1>6. CASE Spawned!Exit
  <2>1. spawned_holders' = [s \in Spawned!Streams |-> spawned_holders[s] \ {"child"}]
    BY <1>6 DEF Spawned!Exit, Spawned!Ended
  <2>2. spawned_holders' \in [Spawned!Streams -> SUBSET {"child", "heir"}]
    BY <1>5, <2>1
  <2>3. QED
    BY <1>4, <1>6, <2>1, <2>2 DEF Spawned!Exit, Spawned!Ended, Spawned!output, Spawned!flags
<1>7. ASSUME NEW s \in Spawned!Streams, Spawned!Share(s)
      PROVE  SpawnedSound'
  BY <1>4, <1>5, <1>7 DEF Spawned!Share, Spawned!output, Spawned!flags
<1>8. ASSUME NEW s \in Spawned!Streams, NEW h \in {"child", "heir"}, Spawned!Close(s, h)
      PROVE  SpawnedSound'
  BY <1>4, <1>5, <1>8 DEF Spawned!Close, Spawned!output, Spawned!flags
<1>9. QED
  BY <1>2, <1>3, <1>6, <1>7, <1>8 DEF Spawned!Processes

\* The caller and the watcher, to whom the mutex is one.
LEMMA ThreadsNext ==
    ASSUME SpawnedSound,
           Spawned!Caller \/ Spawned!Faults \/ Spawned!Watcher \/ Spawned!Expire
    PROVE  SpawnedSound'
<1>0. /\ Payload \in Nat /\ PipeSize \in Nat \ {0} /\ MaxOutput \in Nat
  BY AuthoritiesAssumption DEF Spawned!ChildAssumption
<1>1. ChildTyped /\ Drained /\ Guarded /\ Spawned!TypeOK
  BY DEF SpawnedSound, ChildTyped
<1> USE DEF Spawned!process, Spawned!output, Spawned!flags
<1>2. CASE Spawned!WriteInput
  <2>1. /\ spawned_input.left > 0 /\ spawned_input.piped < PipeSize
        /\ spawned_input' = [left |-> spawned_input.left - 1, piped |-> spawned_input.piped + 1]
        /\ UNCHANGED <<spawned_main, spawned_watcher, spawned_mutex, spawned_child,
                       spawned_holders, spawned_sent, spawned_pipe, spawned_captured,
                       spawned_truncated, spawned_broken, spawned_due, spawned_finished, spawned_killed>>
    BY <1>2 DEF Spawned!WriteInput
  <2>2. spawned_input' \in [left : 0..Payload, piped : 0..PipeSize]
    BY <1>0, <1>1, <2>1 DEF Spawned!TypeOK
  <2>3. ChildTyped'
    BY <1>1, <2>1, <2>2 DEF ChildTyped, Spawned!TypeOK
  <2>4. Drained' /\ Guarded'
    BY <1>1, <2>1 DEF Drained, Left, Guarded
  <2>5. QED
    BY <2>3, <2>4 DEF SpawnedSound
<1>3. CASE Spawned!InputBroken
  <2>1. ChildTyped'
    BY <1>1, <1>3 DEF Spawned!InputBroken, ChildTyped, Spawned!TypeOK
  <2>2. Drained'
    BY <1>1, <1>3 DEF Spawned!InputBroken, Drained, Left
  <2>3. Guarded'
    BY <1>1, <1>3 DEF Spawned!InputBroken, Guarded
  <2>4. QED
    BY <2>1, <2>2, <2>3 DEF SpawnedSound
<1>4. CASE Spawned!SpawnWatcher
  <2>1. ChildTyped'
    BY <1>1, <1>4 DEF Spawned!SpawnWatcher, ChildTyped, Spawned!TypeOK, Spawned!Streams
  <2>2. Drained'
    BY <1>1, <1>4 DEF Spawned!SpawnWatcher, Drained, Left
  <2>3. Guarded'
    BY <1>1, <1>4 DEF Spawned!SpawnWatcher, Guarded
  <2>4. QED
    BY <2>1, <2>2, <2>3 DEF SpawnedSound
<1>a. CASE Spawned!TakePipes
  <2>1. ChildTyped'
    BY <1>1, <1>a DEF Spawned!TakePipes, ChildTyped, Spawned!TypeOK, Spawned!Streams
  <2>2. Drained'
    BY <1>1, <1>a DEF Spawned!TakePipes, Drained, Left
  <2>3. Guarded'
    BY <1>1, <1>a DEF Spawned!TakePipes, Guarded
  <2>4. QED
    BY <2>1, <2>2, <2>3 DEF SpawnedSound
<1>b. ASSUME NEW s \in Spawned!Streams, Spawned!ReadFails(s)
      PROVE  SpawnedSound'
  <2>1. /\ spawned_main = s /\ spawned_broken' = spawned_broken \cup {s}
        /\ spawned_main' = IF s = "stdout" THEN "stderr" ELSE "lock"
        /\ UNCHANGED <<spawned_watcher, spawned_mutex, spawned_child, spawned_holders,
                       spawned_sent, spawned_input, spawned_pipe, spawned_captured,
                       spawned_truncated, spawned_due, spawned_finished, spawned_killed>>
    BY <1>b DEF Spawned!ReadFails, Spawned!After
  <2>2. ChildTyped'
    BY <1>1, <2>1 DEF ChildTyped, Spawned!TypeOK, Spawned!Streams
  <2>3. \A t \in Spawned!Streams \ {s} : Left(t)' <=> Left(t)
    BY <2>1 DEF Left, Spawned!Streams
  <2>4. Left(s)' /\ ~Left(s)
    BY <2>1 DEF Left, Spawned!Streams
  <2>5. Drained'
    BY <1>1, <2>1, <2>3, <2>4 DEF Drained
  <2>6. Guarded'
    BY <1>1, <2>1 DEF Guarded, Spawned!Streams
  <2>7. QED
    BY <2>2, <2>5, <2>6 DEF SpawnedSound
<1>5. CASE Spawned!LockToWait
  <2>1. ChildTyped'
    BY <1>1, <1>5 DEF Spawned!LockToWait, ChildTyped, Spawned!TypeOK
  <2>2. Drained'
    BY <1>1, <1>5 DEF Spawned!LockToWait, Drained, Left
  <2>3. Guarded'
    BY <1>1, <1>5 DEF Spawned!LockToWait, Guarded
  <2>4. QED
    BY <2>1, <2>2, <2>3 DEF SpawnedSound
<1>6. CASE Spawned!Wait
  <2>1. ChildTyped'
    BY <1>1, <1>6 DEF Spawned!Wait, ChildTyped, Spawned!TypeOK
  <2>2. Drained'
    BY <1>1, <1>6 DEF Spawned!Wait, Drained, Left
  <2>3. Guarded'
    BY <1>1, <1>6 DEF Spawned!Wait, Guarded
  <2>4. QED
    BY <2>1, <2>2, <2>3 DEF SpawnedSound
<1>7. CASE Spawned!Join
  <2>1. ChildTyped'
    BY <1>1, <1>7 DEF Spawned!Join, ChildTyped, Spawned!TypeOK
  <2>2. Drained'
    BY <1>1, <1>7 DEF Spawned!Join, Drained, Left
  <2>3. Guarded'
    BY <1>1, <1>7 DEF Spawned!Join, Guarded
  <2>4. QED
    BY <2>1, <2>2, <2>3 DEF SpawnedSound
<1>8. ASSUME NEW s \in Spawned!Streams, Spawned!Read(s)
      PROVE  SpawnedSound'
  <2>1. /\ spawned_main = s /\ spawned_pipe[s] > 0
        /\ spawned_pipe' = [spawned_pipe EXCEPT ![s] = @ - 1]
        /\ UNCHANGED <<spawned_watcher, spawned_mutex, spawned_child, spawned_holders,
                       spawned_sent, spawned_input, spawned_broken, spawned_due,
                       spawned_finished, spawned_killed>>
    BY <1>8 DEF Spawned!Read
  <2>2. /\ spawned_pipe \in [Spawned!Streams -> 0..PipeSize]
        /\ spawned_captured \in [Spawned!Streams -> 0..MaxOutput]
        /\ spawned_truncated \subseteq Spawned!Streams
    BY <1>1 DEF Spawned!TypeOK
  <2>3. /\ spawned_pipe' \in [Spawned!Streams -> 0..PipeSize]
        /\ spawned_pipe'[s] = spawned_pipe[s] - 1
        /\ \A t \in Spawned!Streams \ {s} : spawned_pipe'[t] = spawned_pipe[t]
    BY <1>0, <2>1, <2>2
  <2>4. ~Left(s) /\ s \notin spawned_truncated
    BY <1>1, <2>1 DEF Left, Drained, Spawned!Streams
  <2>5. CASE spawned_captured[s] < MaxOutput
    <3>1. /\ spawned_captured' = [spawned_captured EXCEPT ![s] = @ + 1]
          /\ UNCHANGED <<spawned_truncated, spawned_main>>
      BY <1>8, <2>5 DEF Spawned!Read
    <3>2. /\ spawned_captured' \in [Spawned!Streams -> 0..MaxOutput]
          /\ spawned_captured'[s] = spawned_captured[s] + 1
          /\ \A t \in Spawned!Streams \ {s} : spawned_captured'[t] = spawned_captured[t]
      BY <1>0, <2>2, <2>5, <3>1
    <3>3. ChildTyped'
      BY <1>1, <2>1, <2>3, <3>1, <3>2 DEF ChildTyped, Spawned!TypeOK
    <3>4. ASSUME NEW t \in Spawned!Streams
          PROVE  /\ spawned_sent'[t] = spawned_captured'[t] + spawned_pipe'[t]
                                + (IF t \in spawned_truncated' THEN 1 ELSE 0)
                 /\ t \in spawned_truncated' => spawned_captured'[t] = MaxOutput /\ Left(t)'
                 /\ Left(t)' /\ t \notin spawned_truncated' /\ t \notin spawned_broken' =>
                        spawned_pipe'[t] = 0 /\ spawned_holders'[t] = {}
      <4>1. Left(t)' <=> Left(t)
        BY <3>1 DEF Left
      <4>2. CASE t = s
        BY <1>0, <1>1, <2>1, <2>2, <2>3, <2>4, <3>1, <3>2, <4>1, <4>2 DEF Drained
      <4>3. CASE t # s
        BY <1>1, <2>1, <2>3, <3>1, <3>2, <4>1, <4>3 DEF Drained
      <4>4. QED
        BY <4>2, <4>3
    <3>5. Drained'
      BY <3>4 DEF Drained
    <3>6. Guarded'
      BY <1>1, <2>1, <3>1 DEF Guarded
    <3>7. QED
      BY <3>3, <3>5, <3>6 DEF SpawnedSound
  <2>6. CASE ~(spawned_captured[s] < MaxOutput)
    <3>1. /\ spawned_truncated' = spawned_truncated \cup {s}
          /\ spawned_main' = IF s = "stdout" THEN "stderr" ELSE "lock"
          /\ spawned_captured' = spawned_captured
      BY <1>8, <2>6 DEF Spawned!Read, Spawned!After
    <3>2. spawned_captured[s] = MaxOutput
      BY <1>0, <2>2, <2>6
    <3>3. ChildTyped'
      BY <1>1, <2>1, <2>3, <3>1 DEF ChildTyped, Spawned!TypeOK, Spawned!Streams
    <3>4. ASSUME NEW t \in Spawned!Streams
          PROVE  /\ spawned_sent'[t] = spawned_captured'[t] + spawned_pipe'[t]
                                + (IF t \in spawned_truncated' THEN 1 ELSE 0)
                 /\ t \in spawned_truncated' => spawned_captured'[t] = MaxOutput /\ Left(t)'
                 /\ Left(t)' /\ t \notin spawned_truncated' /\ t \notin spawned_broken' =>
                        spawned_pipe'[t] = 0 /\ spawned_holders'[t] = {}
      <4>1. CASE t = s
        <5>1. Left(t)'
          BY <3>1, <4>1 DEF Left, Spawned!Streams
        <5>2. QED
          BY <1>0, <1>1, <2>1, <2>2, <2>3, <2>4, <3>1, <3>2, <4>1, <5>1 DEF Drained
      <4>2. CASE t # s
        <5>1. Left(t)' <=> Left(t)
          BY <2>1, <3>1, <4>2 DEF Left, Spawned!Streams
        <5>2. QED
          BY <1>1, <2>1, <2>3, <3>1, <4>2, <5>1 DEF Drained
      <4>3. QED
        BY <4>1, <4>2
    <3>5. Drained'
      BY <3>4 DEF Drained
    <3>6. Guarded'
      BY <1>1, <2>1, <3>1 DEF Guarded, Spawned!Streams
    <3>7. QED
      BY <3>3, <3>5, <3>6 DEF SpawnedSound
  <2>7. QED
    BY <2>5, <2>6
<1>9. ASSUME NEW s \in Spawned!Streams, Spawned!EndOfFile(s)
      PROVE  SpawnedSound'
  <2>1. /\ spawned_main = s /\ spawned_pipe[s] = 0 /\ spawned_holders[s] = {}
        /\ spawned_main' = IF s = "stdout" THEN "stderr" ELSE "lock"
        /\ UNCHANGED <<spawned_watcher, spawned_mutex, spawned_child, spawned_holders,
                       spawned_sent, spawned_input, spawned_pipe, spawned_captured,
                       spawned_truncated, spawned_broken, spawned_due, spawned_finished, spawned_killed>>
    BY <1>9 DEF Spawned!EndOfFile, Spawned!After
  <2>2. ChildTyped'
    BY <1>1, <2>1 DEF ChildTyped, Spawned!TypeOK, Spawned!Streams
  <2>3. \A t \in Spawned!Streams \ {s} : Left(t)' <=> Left(t)
    BY <2>1 DEF Left, Spawned!Streams
  <2>4. Left(s)' /\ ~Left(s)
    BY <2>1 DEF Left, Spawned!Streams
  <2>5. Drained'
    BY <1>1, <2>1, <2>3, <2>4 DEF Drained
  <2>6. Guarded'
    BY <1>1, <2>1 DEF Guarded, Spawned!Streams
  <2>7. QED
    BY <2>2, <2>5, <2>6 DEF SpawnedSound
<1>10. CASE Spawned!Expire
  <2>1. ChildTyped'
    BY <1>1, <1>10 DEF Spawned!Expire, ChildTyped, Spawned!TypeOK
  <2>2. Drained'
    BY <1>1, <1>10 DEF Spawned!Expire, Drained, Left
  <2>3. Guarded'
    BY <1>1, <1>10 DEF Spawned!Expire, Guarded
  <2>4. QED
    BY <2>1, <2>2, <2>3 DEF SpawnedSound
<1>11. CASE Spawned!SeeFinished
  <2>1. ChildTyped'
    BY <1>1, <1>11 DEF Spawned!SeeFinished, ChildTyped, Spawned!TypeOK
  <2>2. Drained'
    BY <1>1, <1>11 DEF Spawned!SeeFinished, Drained, Left
  <2>3. Guarded'
    BY <1>1, <1>11 DEF Spawned!SeeFinished, Guarded
  <2>4. QED
    BY <2>1, <2>2, <2>3 DEF SpawnedSound
<1>12. CASE Spawned!SeeDeadline
  <2>1. ChildTyped'
    BY <1>1, <1>12 DEF Spawned!SeeDeadline, ChildTyped, Spawned!TypeOK
  <2>2. Drained'
    BY <1>1, <1>12 DEF Spawned!SeeDeadline, Drained, Left
  <2>3. Guarded'
    BY <1>1, <1>12 DEF Spawned!SeeDeadline, Guarded
  <2>4. QED
    BY <2>1, <2>2, <2>3 DEF SpawnedSound
<1>13. CASE Spawned!LockToKill
  <2>1. ChildTyped'
    BY <1>1, <1>13 DEF Spawned!LockToKill, ChildTyped, Spawned!TypeOK
  <2>2. Drained'
    BY <1>1, <1>13 DEF Spawned!LockToKill, Drained, Left
  <2>3. Guarded'
    BY <1>1, <1>13 DEF Spawned!LockToKill, Guarded
  <2>4. QED
    BY <2>1, <2>2, <2>3 DEF SpawnedSound
<1>14. CASE Spawned!Kill
  <2>1. /\ spawned_watcher = "killing" /\ spawned_watcher' = "unlocking"
        /\ spawned_killed' = TRUE
        /\ \/ /\ spawned_child = "running" /\ spawned_child' = "killed"
              /\ spawned_holders' = [s \in Spawned!Streams |-> spawned_holders[s] \ {"child"}]
           \/ /\ spawned_child # "running"
              /\ spawned_child' = spawned_child /\ spawned_holders' = spawned_holders
        /\ UNCHANGED <<spawned_main, spawned_mutex, spawned_input, spawned_pipe,
                       spawned_captured, spawned_truncated, spawned_broken, spawned_due, spawned_finished,
                       spawned_sent>>
    BY <1>14 DEF Spawned!Kill, Spawned!Ended
  <2>2. spawned_holders \in [Spawned!Streams -> SUBSET {"child", "heir"}]
    BY <1>1 DEF Spawned!TypeOK
  <2>3. /\ spawned_holders' \in [Spawned!Streams -> SUBSET {"child", "heir"}]
        /\ \A s \in Spawned!Streams : spawned_holders[s] = {} => spawned_holders'[s] = {}
    BY <2>1, <2>2
  <2>4. spawned_child' \in {"exited", "killed"}
    BY <1>1, <2>1 DEF Spawned!TypeOK
  <2>5. ChildTyped'
    BY <1>1, <2>1, <2>3, <2>4 DEF ChildTyped, Spawned!TypeOK
  <2>6. Drained'
    BY <1>1, <2>1, <2>3 DEF Drained, Left
  <2>7. Guarded'
    BY <1>1, <2>1, <2>4 DEF Guarded
  <2>8. QED
    BY <2>5, <2>6, <2>7 DEF SpawnedSound
<1>15. CASE Spawned!Unlock
  <2>1. ChildTyped'
    BY <1>1, <1>15 DEF Spawned!Unlock, ChildTyped, Spawned!TypeOK
  <2>2. Drained'
    BY <1>1, <1>15 DEF Spawned!Unlock, Drained, Left
  <2>3. Guarded'
    BY <1>1, <1>15 DEF Spawned!Unlock, Guarded
  <2>4. QED
    BY <2>1, <2>2, <2>3 DEF SpawnedSound
<1>16. CASE Spawned!Caller
  BY <1>2, <1>3, <1>4, <1>a, <1>5, <1>6, <1>7, <1>8, <1>9, <1>16 DEF Spawned!Caller
<1>17. CASE Spawned!Watcher
  BY <1>11, <1>12, <1>13, <1>14, <1>15, <1>17 DEF Spawned!Watcher
<1>18. CASE Spawned!Faults
  BY <1>3, <1>b, <1>18 DEF Spawned!Faults
<1>19. QED
  BY <1>10, <1>16, <1>17, <1>18

LEMMA SpawnedStep == SpawnedSound /\ [Next]_vars => SpawnedSound'
<1> SUFFICES ASSUME SpawnedSound, [Next]_vars
             PROVE  SpawnedSound'
  OBVIOUS
<1>1. CASE Spawned!Next
  BY <1>1, ProcessesNext, ThreadsNext DEF Spawned!Next
<1>2. CASE UNCHANGED spawned
  <2>1. ChildTyped'
    BY <1>2 DEF spawned, SpawnedSound, ChildTyped, Spawned!TypeOK
  <2>2. Drained' /\ Guarded'
    BY <1>2 DEF spawned, SpawnedSound, Drained, Left, Guarded
  <2>3. QED
    BY <2>1, <2>2 DEF SpawnedSound
<1>3. QED
  BY <1>1, <1>2 DEF Next, Unless, vars, spawned

\* What the caller returns with, from who holds the mutex and what was drained.
LEMMA SoundOutcome == SpawnedSound => Spawned!OutcomeIsTruthful
<1> SUFFICES ASSUME SpawnedSound, spawned_main = "returned"
             PROVE  /\ spawned_child # "running" /\ spawned_mutex = "none"
                    /\ spawned_child = "killed" => spawned_killed
                    /\ spawned_killed => spawned_due
                    /\ \A s \in Spawned!Streams :
                        IF s \in spawned_truncated
                        THEN spawned_captured[s] = MaxOutput /\ MaxOutput < spawned_sent[s]
                        ELSE \/ spawned_captured[s] = spawned_sent[s]
                             \/ s \in spawned_broken /\ spawned_captured[s] <= spawned_sent[s]
  BY DEF Spawned!OutcomeIsTruthful
<1>1. /\ spawned_child # "running" /\ spawned_mutex = "none"
      /\ spawned_child = "killed" => spawned_killed
      /\ spawned_killed => spawned_due
  BY DEF SpawnedSound, Guarded, ChildTyped, Spawned!TypeOK
<1>2. ASSUME NEW s \in Spawned!Streams
      PROVE  IF s \in spawned_truncated
             THEN spawned_captured[s] = MaxOutput /\ MaxOutput < spawned_sent[s]
             ELSE \/ spawned_captured[s] = spawned_sent[s]
                  \/ s \in spawned_broken /\ spawned_captured[s] <= spawned_sent[s]
  <2>1. MaxOutput \in Nat /\ PipeSize \in Nat
    BY AuthoritiesAssumption DEF Spawned!ChildAssumption
  <2>2. spawned_captured[s] \in 0..MaxOutput /\ spawned_pipe[s] \in 0..PipeSize
    BY DEF SpawnedSound, ChildTyped, Spawned!TypeOK
  <2>3. Left(s)
    BY DEF Left
  <2>4. QED
    BY <2>1, <2>2, <2>3 DEF SpawnedSound, Drained
<1>3. QED
  BY <1>1, <1>2

LEMMA SpawnedAlways == Spec => [](Spawned!TypeOK /\ Spawned!OutcomeIsTruthful)
BY SpawnedInit, SpawnedStep, SoundOutcome, PTL DEF Spec, SpawnedSound, ChildTyped

-----------------------------------------------------------------------------
(* The tasks of a goal.  What waits for a task is found by a recursive     *)
(* function that stops after as many steps as there are tasks: by then it  *)
(* has found all of it, because a step that finds nothing new ends the     *)
(* search and there are no more than that many tasks to find.              *)

LEMMA LeastIn ==
    ASSUME NEW S, S \subseteq Nat, S # {}
    PROVE  \E n \in S : \A m \in S : n <= m
<1> DEFINE R == OpToRel(<, Nat)
<1>1. IsWellFoundedOn(R, Nat)
  BY NatLessThanWellFounded
<1>2. \A x, y \in Nat : x < y => <<x, y>> \in R
  BY DEF OpToRel
<1> HIDE DEF R
<1>3. PICK x \in S : \A y \in S : ~ (<<y, x>> \in R)
  BY <1>1, WFMin
<1>4. \A y \in S : ~ (y < x)
  BY <1>2, <1>3, Zenon
<1>5. QED
  BY <1>3, <1>4

LEMMA SameCardinality == \A s : Goal!Cardinality(s) = Cardinality(s)
BY Zenon DEF Goal!Cardinality, Cardinality

LEMMA TasksFinite == IsFiniteSet(Tasks)
<1>1. Goal!IsFiniteSet(Tasks)
  BY AuthoritiesAssumption DEF Goal!OrchestratorAssumption
<1>2. QED
  BY <1>1, Zenon DEF Goal!IsFiniteSet, IsFiniteSet

\* Those that wait for the task or for one of found.
Waiting(found, task) ==
    {t \in Tasks : goal_dependencies[t] \cap (found \cup {task}) # {}}

\* f[n] is what n steps have found.
Search(f, task, m) ==
    f = [n \in 0..m |-> IF n = 0 THEN {} ELSE Waiting(f[n - 1], task)]

LEMMA SearchExists ==
    ASSUME NEW task, NEW m \in Nat
    PROVE  \E f : Search(f, task, m)
<1> DEFINE S == {n \in Nat : ~ \E f : Search(f, task, n)}
<1> SUFFICES ASSUME S # {} PROVE FALSE
  OBVIOUS
<1>1. PICK n \in S : \A j \in S : n <= j
  BY LeastIn
<1>2. CASE n = 0
  <2>1. Search([j \in 0..0 |-> {}], task, 0)
    BY DEF Search
  <2>2. QED
    BY <1>2, <2>1
<1>3. CASE n # 0
  <2>1. n - 1 \in Nat /\ n - 1 \notin S
    BY <1>1, <1>3
  <2>2. PICK f : Search(f, task, n - 1)
    BY <2>1
  <2> DEFINE g == [j \in 0..n |-> IF j = n THEN Waiting(f[n - 1], task) ELSE f[j]]
  <2>3. \A j \in 0..(n - 1) :
            f[j] = IF j = 0 THEN {} ELSE Waiting(f[j - 1], task)
    BY <2>1, <2>2 DEF Search
  <2>4. ASSUME NEW j \in 0..n
        PROVE  (IF j = n THEN Waiting(f[n - 1], task) ELSE f[j]) =
                    IF j = 0 THEN {} ELSE Waiting(g[j - 1], task)
    <3>1. CASE j = n
      <4>1. g[n - 1] = f[n - 1]
        BY <2>1
      <4>2. QED
        BY <1>3, <3>1, <4>1
    <3>2. CASE j # n /\ j # 0
      <4>1. j \in 0..(n - 1) /\ j - 1 \in 0..n /\ j - 1 # n
        BY <2>1, <3>2
      <4>2. g[j - 1] = f[j - 1]
        BY <4>1
      <4>3. QED
        BY <2>3, <3>2, <4>1, <4>2
    <3>3. CASE j # n /\ j = 0
      BY <2>1, <2>3, <3>3
    <3>4. QED
      BY <3>1, <3>2, <3>3
  <2>5. Search(g, task, n)
    BY <2>4, Zenon DEF Search
  <2>6. QED
    BY <2>5
<1>4. QED
  BY <1>2, <1>3

LEMMA DescendantsAre ==
    ASSUME NEW task
    PROVE  /\ Cardinality(Tasks) \in Nat
           /\ \E f : /\ Search(f, task, Cardinality(Tasks))
                     /\ Goal!Descendants(task) = f[Cardinality(Tasks)]
<1> DEFINE N == Cardinality(Tasks)
           h == CHOOSE f : Search(f, task, N)
<1>1. IsFiniteSet(Tasks)
  BY TasksFinite
<1>2. N \in Nat
  BY <1>1, FS_CardinalityType
<1> HIDE DEF N
<1>3. Search(h, task, N)
  BY <1>2, SearchExists
<1>4. Goal!Descendants(task) = h[N]
  BY SameCardinality DEF Goal!Descendants, Search, Waiting, N
<1>5. QED
  BY <1>2, <1>3, <1>4 DEF N

\* What waits for a task, or for what waits for it, waits for it.
LEMMA DescendantsClosed ==
    ASSUME NEW task
    PROVE  /\ Goal!Descendants(task) \subseteq Tasks
           /\ Waiting(Goal!Descendants(task), task) \subseteq Goal!Descendants(task)
<1> DEFINE N == Cardinality(Tasks)
<1>1. IsFiniteSet(Tasks)
  BY TasksFinite
<1>2. PICK f : Search(f, task, N) /\ Goal!Descendants(task) = f[N]
  BY DescendantsAre
<1>3. N \in Nat
  BY DescendantsAre
<1>4. \A n \in 0..N : f[n] = IF n = 0 THEN {} ELSE Waiting(f[n - 1], task)
  BY <1>2, <1>3 DEF Search
<1>5. \A n \in 0..N : f[n] \subseteq Tasks
  BY <1>4 DEF Waiting
<1>6. \A n \in 0..N : IsFiniteSet(f[n]) /\ Cardinality(f[n]) \in Nat
  BY <1>1, <1>5, FS_Subset, FS_CardinalityType
<1> HIDE DEF N
<1>7. \A n \in 1..N : f[n - 1] \subseteq f[n]
  <2> DEFINE S == {n \in 1..N : ~(f[n - 1] \subseteq f[n])}
  <2> SUFFICES ASSUME S # {} PROVE FALSE
    OBVIOUS
  <2>1. S \subseteq Nat
    BY <1>3
  <2>2. PICK n \in S : \A j \in S : n <= j
    BY <2>1, LeastIn, Zenon
  <2>3. n \in 1..N /\ ~(f[n - 1] \subseteq f[n])
    OBVIOUS
  <2>4. n # 1
    BY <1>3, <1>4, <2>3
  <2>5. n - 1 \in 1..N /\ n - 1 \notin S
    BY <1>3, <2>2, <2>3, <2>4
  <2>6. f[(n - 1) - 1] \subseteq f[n - 1]
    BY <2>5
  <2>7. f[n - 1] = Waiting(f[(n - 1) - 1], task) /\ f[n] = Waiting(f[n - 1], task)
    BY <1>3, <1>4, <2>3, <2>5
  <2>8. Waiting(f[(n - 1) - 1], task) \subseteq Waiting(f[n - 1], task)
    BY <2>6 DEF Waiting
  <2>9. QED
    BY <2>3, <2>7, <2>8
<1>8. \A n \in 0..N : n <= Cardinality(f[n]) \/ Waiting(f[n], task) \subseteq f[n]
  <2> DEFINE S == {n \in 0..N : ~(n <= Cardinality(f[n])) /\ ~(Waiting(f[n], task) \subseteq f[n])}
  <2> SUFFICES ASSUME S # {} PROVE FALSE
    OBVIOUS
  <2>1. S \subseteq Nat
    BY <1>3
  <2>2. PICK n \in S : \A j \in S : n <= j
    BY <2>1, LeastIn, Zenon
  <2>3. /\ n \in 0..N /\ ~(n <= Cardinality(f[n]))
        /\ ~(Waiting(f[n], task) \subseteq f[n])
    OBVIOUS
  <2>4. n # 0
    BY <1>3, <1>6, <2>3
  <2>5. n - 1 \in 0..N /\ n \in 1..N /\ n - 1 \notin S
    BY <1>3, <2>2, <2>3, <2>4
  <2>6. f[n - 1] \subseteq f[n] /\ f[n] = Waiting(f[n - 1], task)
    BY <1>4, <1>7, <2>4, <2>5
  <2>7. f[n - 1] # f[n]
    BY <2>3, <2>6
  <2>8. n - 1 <= Cardinality(f[n - 1])
    BY <2>5, <2>6, <2>7
  <2>9. f[n - 1] \in SUBSET f[n] /\ IsFiniteSet(f[n])
    BY <1>6, <2>3, <2>6
  <2>10. /\ Cardinality(f[n - 1]) <= Cardinality(f[n])
         /\ Cardinality(f[n]) = Cardinality(f[n - 1]) => f[n] = f[n - 1]
    BY <2>9, FS_Subset
  <2>11. Cardinality(f[n]) \in Nat /\ Cardinality(f[n - 1]) \in Nat
    BY <1>6, <2>5, <2>3
  <2> HIDE DEF S
  <2>12. QED
    BY <1>3, <2>3, <2>5, <2>7, <2>8, <2>10, <2>11
<1>9. N \in 0..N /\ f[N] \in SUBSET Tasks
  BY <1>3, <1>5
<1>10. CASE N <= Cardinality(f[N])
  <2>1. Cardinality(f[N]) <= N /\ (N = Cardinality(f[N]) => Tasks = f[N])
    BY <1>1, <1>9, FS_Subset DEF N
  <2>2. Cardinality(f[N]) \in Nat
    BY <1>6, <1>9
  <2>3. Tasks = f[N]
    BY <1>3, <1>10, <2>1, <2>2
  <2>4. QED
    BY <1>2, <2>3 DEF Waiting
<1>11. CASE Waiting(f[N], task) \subseteq f[N]
  BY <1>2, <1>9, <1>11
<1>12. QED
  BY <1>8, <1>9, <1>10, <1>11

\* A set that has the task and all that wait for its members has all of it.
LEMMA DescendantsWithin ==
    ASSUME NEW task, NEW s, task \in s,
           \A t \in Tasks : goal_dependencies[t] \cap s # {} => t \in s
    PROVE  Goal!Descendants(task) \subseteq s
<1> DEFINE N == Cardinality(Tasks)
<1>1. PICK f : Search(f, task, N) /\ Goal!Descendants(task) = f[N]
  BY DescendantsAre
<1>2. N \in Nat
  BY DescendantsAre
<1> HIDE DEF N
<1>3. \A n \in 0..N : f[n] = IF n = 0 THEN {} ELSE Waiting(f[n - 1], task)
  BY <1>1, <1>2 DEF Search
<1>4. \A n \in 0..N : f[n] \subseteq s
  <2> DEFINE S == {n \in 0..N : ~(f[n] \subseteq s)}
  <2> SUFFICES ASSUME S # {} PROVE FALSE
    OBVIOUS
  <2>1. S \subseteq Nat
    BY <1>2
  <2>2. PICK n \in S : \A j \in S : n <= j
    BY <2>1, LeastIn, Zenon
  <2>3. n \in 0..N /\ ~(f[n] \subseteq s)
    OBVIOUS
  <2>4. n # 0
    BY <1>3, <2>3
  <2>5. n - 1 \in 0..N /\ n - 1 \notin S
    BY <1>2, <2>2, <2>3, <2>4
  <2>6. f[n - 1] \subseteq s /\ f[n] = Waiting(f[n - 1], task)
    BY <1>3, <2>3, <2>4, <2>5
  <2>7. QED
    BY <2>3, <2>6 DEF Waiting
<1>5. QED
  BY <1>1, <1>2, <1>4

\* What was cancelled was cancelled with all that waits for it; a task at work
\* has a retry left.
GoalSound ==
    /\ Goal!TypeOK /\ Goal!DependenciesFirst /\ Goal!AttenuatedAtWork
    /\ \A t \in goal_cancelled : goal_states[t] \in {"Cancelled", "Failed"}
    /\ \A t \in Tasks : goal_dependencies[t] \cap goal_cancelled # {} => t \in goal_cancelled
    /\ \A t \in Tasks : goal_states[t] = "Delegated" => goal_rejected[t] < 3

LEMMA GoalInit == Init => GoalSound
<1> SUFFICES ASSUME Init
             PROVE  GoalSound
  OBVIOUS
<1>1. Goal!Init
  BY DEF Init
<1>2. Goal!TypeOK
  BY <1>1 DEF Goal!Init, Goal!TypeOK, Goal!TaskStates, Goal!MAX_RETRIES
<1>3. Goal!DependenciesFirst /\ Goal!AttenuatedAtWork
  BY <1>1 DEF Goal!Init, Goal!DependenciesFirst, Goal!AttenuatedAtWork, Goal!MAX_RETRIES
<1>4. QED
  BY <1>1, <1>2, <1>3 DEF Goal!Init, GoalSound

\* What has ended never waits or works again.
Lasting ==
    /\ \A t \in Tasks : goal_states[t] \in Goal!Ended => goal_states'[t] \in Goal!Ended
    /\ goal_completed \subseteq goal_completed'

LEMMA GoalNext ==
    ASSUME GoalSound, Goal!Next
    PROVE  GoalSound' /\ Lasting
<1>0. /\ goal_dependencies \in [Tasks -> SUBSET Tasks]
      /\ goal_states \in [Tasks -> Goal!TaskStates]
      /\ goal_completed \subseteq Tasks /\ goal_cancelled \subseteq Tasks
      /\ goal_exhausted \subseteq Tasks
      /\ goal_rejected \in [Tasks -> 0..3]
      /\ DOMAIN goal_delegations = Tasks
      /\ \A t \in Tasks :
            (goal_delegations[t] # Goal!NoDelegation) <=> (goal_states[t] = "Delegated")
  BY DEF GoalSound, Goal!TypeOK, Goal!MAX_RETRIES
<1>1. /\ \A t \in goal_cancelled : goal_states[t] \in {"Cancelled", "Failed"}
      /\ \A t \in Tasks : goal_dependencies[t] \cap goal_cancelled # {} => t \in goal_cancelled
      /\ \A t \in Tasks : goal_states[t] = "Delegated" => goal_rejected[t] < 3
      /\ \A t \in Tasks : goal_states[t] \in {"Delegated", "Completed"} =>
                                goal_dependencies[t] \subseteq goal_completed
  BY DEF GoalSound, Goal!DependenciesFirst
<1>2. \A t \in Tasks :
        /\ goal_states[t] = "Delegated" =>
            /\ Goal!Attenuates(goal_delegations[t].grants, ParentGrants)
            /\ goal_delegations[t].retries \in 1..3
            /\ t \notin goal_exhausted
        /\ goal_states[t] = "Pending" => goal_rejected[t] < 3 /\ t \notin goal_exhausted
  BY DEF GoalSound, Goal!AttenuatedAtWork, Goal!MAX_RETRIES
\* What a step keeps of a task, it keeps of all.
<1>3. ASSUME goal_dependencies' = goal_dependencies,
             goal_states' \in [Tasks -> Goal!TaskStates],
             goal_completed' \subseteq Tasks, goal_completed \subseteq goal_completed',
             goal_cancelled' \subseteq Tasks, goal_exhausted' \subseteq Tasks,
             goal_rejected' \in [Tasks -> 0..3], DOMAIN goal_delegations' = Tasks,
             \A t \in Tasks : goal_dependencies[t] \cap goal_cancelled' # {} => t \in goal_cancelled',
             ASSUME NEW t \in Tasks
             PROVE  /\ (goal_delegations'[t] # Goal!NoDelegation)
                            <=> (goal_states'[t] = "Delegated")
                    /\ t \in goal_cancelled' => goal_states'[t] \in {"Cancelled", "Failed"}
                    /\ goal_states'[t] = "Delegated" =>
                        /\ Goal!Attenuates(goal_delegations'[t].grants, ParentGrants)
                        /\ goal_delegations'[t].retries \in 1..3
                        /\ t \notin goal_exhausted'
                        /\ goal_rejected'[t] < 3
                    /\ goal_states'[t] = "Pending" =>
                        goal_rejected'[t] < 3 /\ t \notin goal_exhausted'
                    /\ goal_states'[t] \in {"Delegated", "Completed"} =>
                            goal_dependencies[t] \subseteq goal_completed'
                    /\ goal_states[t] \in Goal!Ended => goal_states'[t] \in Goal!Ended
      PROVE  GoalSound' /\ Lasting
  <2>1. Goal!TypeOK'
    BY <1>0, <1>3 DEF Goal!TypeOK, Goal!MAX_RETRIES
  <2>2. Goal!DependenciesFirst'
    BY <1>3 DEF Goal!DependenciesFirst
  <2>3. Goal!AttenuatedAtWork'
    BY <1>3 DEF Goal!AttenuatedAtWork, Goal!MAX_RETRIES, Goal!Attenuates, Goal!Within,
                Goal!SelectorWithin, Goal!FallsWithin
  <2>4. QED
    BY <1>3, <2>1, <2>2, <2>3 DEF GoalSound, Lasting
<1>4. ASSUME NEW task \in Tasks, NEW subagent \in Subagents, NEW request \in Requests,
             Goal!Delegate(task, subagent, request)
      PROVE  GoalSound' /\ Lasting
  <2> DEFINE given == [id |-> <<task, subagent>>, subagent |-> subagent,
                       grants |-> request.grants, retries |-> 3 - goal_rejected[task]]
  <2>1. /\ goal_dependencies[task] \subseteq goal_completed
        /\ goal_states[task] = "Pending" /\ task \notin goal_cancelled
        /\ goal_rejected[task] < 3 /\ task \notin goal_exhausted
        /\ Goal!Attenuates(request.grants, ParentGrants)
        /\ goal_states' = [goal_states EXCEPT ![task] = "Delegated"]
        /\ goal_delegations' = [goal_delegations EXCEPT ![task] = given]
        /\ UNCHANGED <<goal_dependencies, goal_completed, goal_cancelled, goal_rejected,
                       goal_exhausted>>
    BY <1>4 DEF Goal!Delegate, Goal!Ready, Goal!Delegable, Goal!DelegationOf, Goal!MAX_RETRIES
  <2>2. given.subagent = subagent /\ given.grants = request.grants
        /\ given.retries = 3 - goal_rejected[task]
    OBVIOUS
  <2>3. subagent # "none"
    BY AuthoritiesAssumption DEF Goal!OrchestratorAssumption
  <2>4. given # Goal!NoDelegation
    BY <2>2, <2>3 DEF Goal!NoDelegation
  <2> HIDE DEF given
  <2>5. given.retries \in 1..3
    BY <1>0, <2>1, <2>2
  <2>6. /\ goal_states' \in [Tasks -> Goal!TaskStates] /\ goal_states'[task] = "Delegated"
        /\ \A t \in Tasks \ {task} : goal_states'[t] = goal_states[t]
        /\ DOMAIN goal_delegations' = Tasks /\ goal_delegations'[task] = given
        /\ \A t \in Tasks \ {task} : goal_delegations'[t] = goal_delegations[t]
    BY <1>0, <2>1 DEF Goal!TaskStates
  <2>7. ASSUME NEW t \in Tasks
        PROVE  /\ (goal_delegations'[t] # Goal!NoDelegation) <=> (goal_states'[t] = "Delegated")
               /\ t \in goal_cancelled' => goal_states'[t] \in {"Cancelled", "Failed"}
               /\ goal_states'[t] = "Delegated" =>
                    /\ Goal!Attenuates(goal_delegations'[t].grants, ParentGrants)
                    /\ goal_delegations'[t].retries \in 1..3
                    /\ t \notin goal_exhausted' /\ goal_rejected'[t] < 3
               /\ goal_states'[t] = "Pending" =>
                    goal_rejected'[t] < 3 /\ t \notin goal_exhausted'
               /\ goal_states'[t] \in {"Delegated", "Completed"} =>
                    goal_dependencies[t] \subseteq goal_completed'
               /\ goal_states[t] \in Goal!Ended => goal_states'[t] \in Goal!Ended
    <3>1. CASE t = task
      BY <2>1, <2>2, <2>4, <2>5, <2>6, <3>1 DEF Goal!Ended
    <3>2. CASE t # task
      BY <1>0, <1>1, <1>2, <2>1, <2>6, <3>2 DEF Goal!Ended
    <3>3. QED
      BY <3>1, <3>2
  <2>8. QED
    BY <1>0, <1>1, <1>3, <2>1, <2>6, <2>7
<1>5. ASSUME NEW report \in Goal!Reports, Goal!Complete(report)
      PROVE  GoalSound' /\ Lasting
  <2> DEFINE task == report.task
  <2>1. task \in Tasks
    BY DEF Goal!Reports
  <2>2. /\ goal_states[task] = "Delegated"
        /\ goal_states' = [goal_states EXCEPT ![task] = "Completed"]
        /\ goal_completed' = goal_completed \cup {task}
        /\ goal_delegations' = [goal_delegations EXCEPT ![task] = Goal!NoDelegation]
        /\ UNCHANGED <<goal_dependencies, goal_cancelled, goal_rejected, goal_exhausted>>
    BY <1>5 DEF Goal!Complete, Goal!InFlight
  <2> HIDE DEF task
  <2>3. /\ goal_states' \in [Tasks -> Goal!TaskStates] /\ goal_states'[task] = "Completed"
        /\ \A t \in Tasks \ {task} : goal_states'[t] = goal_states[t]
        /\ DOMAIN goal_delegations' = Tasks /\ goal_delegations'[task] = Goal!NoDelegation
        /\ \A t \in Tasks \ {task} : goal_delegations'[t] = goal_delegations[t]
    BY <1>0, <2>1, <2>2 DEF Goal!TaskStates
  <2>4. ASSUME NEW t \in Tasks
        PROVE  /\ (goal_delegations'[t] # Goal!NoDelegation) <=> (goal_states'[t] = "Delegated")
               /\ t \in goal_cancelled' => goal_states'[t] \in {"Cancelled", "Failed"}
               /\ goal_states'[t] = "Delegated" =>
                    /\ Goal!Attenuates(goal_delegations'[t].grants, ParentGrants)
                    /\ goal_delegations'[t].retries \in 1..3
                    /\ t \notin goal_exhausted' /\ goal_rejected'[t] < 3
               /\ goal_states'[t] = "Pending" =>
                    goal_rejected'[t] < 3 /\ t \notin goal_exhausted'
               /\ goal_states'[t] \in {"Delegated", "Completed"} =>
                    goal_dependencies[t] \subseteq goal_completed'
               /\ goal_states[t] \in Goal!Ended => goal_states'[t] \in Goal!Ended
    <3>1. CASE t = task
      BY <1>1, <2>2, <2>3, <3>1 DEF Goal!Ended
    <3>2. CASE t # task
      BY <1>0, <1>1, <1>2, <2>2, <2>3, <3>2 DEF Goal!Ended
    <3>3. QED
      BY <3>1, <3>2
  <2>5. QED
    BY <1>0, <1>1, <1>3, <2>1, <2>2, <2>3, <2>4
<1>6. ASSUME NEW report \in Goal!Reports, Goal!Reject(report)
      PROVE  GoalSound' /\ Lasting
  <2> DEFINE task == report.task
             used == goal_rejected[task] + 1
             next == IF used >= 3 THEN "Failed" ELSE "Pending"
  <2>1. task \in Tasks
    BY DEF Goal!Reports
  <2>2. /\ goal_states[task] = "Delegated"
        /\ goal_rejected' = [goal_rejected EXCEPT ![task] = used]
        /\ goal_states' = [goal_states EXCEPT ![task] = next]
        /\ goal_delegations' = [goal_delegations EXCEPT ![task] = Goal!NoDelegation]
        /\ UNCHANGED <<goal_dependencies, goal_completed, goal_cancelled, goal_exhausted>>
    BY <1>6 DEF Goal!Reject, Goal!InFlight, Goal!MAX_RETRIES
  <2> HIDE DEF task
  <2>3. used \in 0..3 /\ (next = "Pending" => used < 3) /\ next \in {"Failed", "Pending"}
    BY <1>0, <1>1, <2>1, <2>2
  <2> HIDE DEF used, next
  <2>4. /\ goal_states' \in [Tasks -> Goal!TaskStates] /\ goal_states'[task] = next
        /\ \A t \in Tasks \ {task} : goal_states'[t] = goal_states[t]
        /\ DOMAIN goal_delegations' = Tasks /\ goal_delegations'[task] = Goal!NoDelegation
        /\ \A t \in Tasks \ {task} : goal_delegations'[t] = goal_delegations[t]
        /\ goal_rejected' \in [Tasks -> 0..3] /\ goal_rejected'[task] = used
        /\ \A t \in Tasks \ {task} : goal_rejected'[t] = goal_rejected[t]
    BY <1>0, <2>1, <2>2, <2>3 DEF Goal!TaskStates
  <2>5. ASSUME NEW t \in Tasks
        PROVE  /\ (goal_delegations'[t] # Goal!NoDelegation) <=> (goal_states'[t] = "Delegated")
               /\ t \in goal_cancelled' => goal_states'[t] \in {"Cancelled", "Failed"}
               /\ goal_states'[t] = "Delegated" =>
                    /\ Goal!Attenuates(goal_delegations'[t].grants, ParentGrants)
                    /\ goal_delegations'[t].retries \in 1..3
                    /\ t \notin goal_exhausted' /\ goal_rejected'[t] < 3
               /\ goal_states'[t] = "Pending" =>
                    goal_rejected'[t] < 3 /\ t \notin goal_exhausted'
               /\ goal_states'[t] \in {"Delegated", "Completed"} =>
                    goal_dependencies[t] \subseteq goal_completed'
               /\ goal_states[t] \in Goal!Ended => goal_states'[t] \in Goal!Ended
    <3>1. CASE t = task
      BY <1>1, <1>2, <2>2, <2>3, <2>4, <3>1 DEF Goal!Ended
    <3>2. CASE t # task
      BY <1>0, <1>1, <1>2, <2>2, <2>4, <3>2 DEF Goal!Ended
    <3>3. QED
      BY <3>1, <3>2
  <2>6. QED
    BY <1>0, <1>1, <1>3, <2>2, <2>4, <2>5
<1>7. ASSUME NEW task \in Tasks, Goal!ExhaustBudget(task)
      PROVE  GoalSound' /\ Lasting
  <2>1. /\ goal_exhausted' = goal_exhausted \cup {task}
        /\ goal_states' = [goal_states EXCEPT ![task] = "Failed"]
        /\ goal_delegations' = [goal_delegations EXCEPT ![task] = Goal!NoDelegation]
        /\ UNCHANGED <<goal_dependencies, goal_completed, goal_cancelled, goal_rejected>>
    BY <1>7 DEF Goal!ExhaustBudget
  <2>2. /\ goal_states' \in [Tasks -> Goal!TaskStates] /\ goal_states'[task] = "Failed"
        /\ \A t \in Tasks \ {task} : goal_states'[t] = goal_states[t]
        /\ DOMAIN goal_delegations' = Tasks /\ goal_delegations'[task] = Goal!NoDelegation
        /\ \A t \in Tasks \ {task} : goal_delegations'[t] = goal_delegations[t]
    BY <1>0, <2>1 DEF Goal!TaskStates
  <2>3. ASSUME NEW t \in Tasks
        PROVE  /\ (goal_delegations'[t] # Goal!NoDelegation) <=> (goal_states'[t] = "Delegated")
               /\ t \in goal_cancelled' => goal_states'[t] \in {"Cancelled", "Failed"}
               /\ goal_states'[t] = "Delegated" =>
                    /\ Goal!Attenuates(goal_delegations'[t].grants, ParentGrants)
                    /\ goal_delegations'[t].retries \in 1..3
                    /\ t \notin goal_exhausted' /\ goal_rejected'[t] < 3
               /\ goal_states'[t] = "Pending" =>
                    goal_rejected'[t] < 3 /\ t \notin goal_exhausted'
               /\ goal_states'[t] \in {"Delegated", "Completed"} =>
                    goal_dependencies[t] \subseteq goal_completed'
               /\ goal_states[t] \in Goal!Ended => goal_states'[t] \in Goal!Ended
    <3>1. CASE t = task
      BY <2>1, <2>2, <3>1 DEF Goal!Ended
    <3>2. CASE t # task
      BY <1>0, <1>1, <1>2, <2>1, <2>2, <3>2 DEF Goal!Ended
    <3>3. QED
      BY <3>1, <3>2
  <2>4. QED
    BY <1>0, <1>1, <1>3, <2>1, <2>2, <2>3
<1>8. ASSUME NEW task \in Tasks, Goal!Cancel(task)
      PROVE  GoalSound' /\ Lasting
  <2> DEFINE radius == Goal!Descendants(task) \cup {task}
  <2>1. /\ goal_states' = [t \in Tasks |-> IF t \in radius THEN "Cancelled" ELSE goal_states[t]]
        /\ goal_cancelled' = goal_cancelled \cup radius
        /\ goal_delegations' = [t \in Tasks |-> IF t \in radius THEN Goal!NoDelegation
                                                ELSE goal_delegations[t]]
        /\ UNCHANGED <<goal_dependencies, goal_completed, goal_rejected, goal_exhausted>>
    BY <1>8 DEF Goal!Cancel, Goal!Radius
  <2>2. radius \subseteq Tasks
    BY DescendantsClosed
  <2>3. \A t \in Tasks : goal_dependencies[t] \cap radius # {} => t \in radius
    BY DescendantsClosed DEF Waiting
  <2> HIDE DEF radius
  <2>4. \A t \in Tasks : goal_dependencies[t] \cap goal_cancelled' # {} => t \in goal_cancelled'
    BY <1>1, <2>1, <2>3
  <2>5. /\ goal_states' \in [Tasks -> Goal!TaskStates] /\ DOMAIN goal_delegations' = Tasks
        /\ \A t \in Tasks :
            IF t \in radius
            THEN goal_states'[t] = "Cancelled" /\ goal_delegations'[t] = Goal!NoDelegation
            ELSE goal_states'[t] = goal_states[t] /\ goal_delegations'[t] = goal_delegations[t]
    BY <1>0, <2>1 DEF Goal!TaskStates
  <2>6. ASSUME NEW t \in Tasks
        PROVE  /\ (goal_delegations'[t] # Goal!NoDelegation) <=> (goal_states'[t] = "Delegated")
               /\ t \in goal_cancelled' => goal_states'[t] \in {"Cancelled", "Failed"}
               /\ goal_states'[t] = "Delegated" =>
                    /\ Goal!Attenuates(goal_delegations'[t].grants, ParentGrants)
                    /\ goal_delegations'[t].retries \in 1..3
                    /\ t \notin goal_exhausted' /\ goal_rejected'[t] < 3
               /\ goal_states'[t] = "Pending" =>
                    goal_rejected'[t] < 3 /\ t \notin goal_exhausted'
               /\ goal_states'[t] \in {"Delegated", "Completed"} =>
                    goal_dependencies[t] \subseteq goal_completed'
               /\ goal_states[t] \in Goal!Ended => goal_states'[t] \in Goal!Ended
    <3>1. CASE t \in radius
      BY <2>1, <2>5, <3>1 DEF Goal!Ended
    <3>2. CASE t \notin radius
      BY <1>0, <1>1, <1>2, <2>1, <2>5, <3>2 DEF Goal!Ended
    <3>3. QED
      BY <3>1, <3>2
  <2>7. QED
    BY <1>0, <1>3, <2>1, <2>2, <2>4, <2>5, <2>6
<1>9. QED
  BY <1>4, <1>5, <1>6, <1>7, <1>8 DEF Goal!Next

LEMMA GoalStep ==
    GoalSound /\ [Next]_vars =>
        /\ GoalSound'
        /\ [/\ \A t \in Tasks : goal_states[t] \in Goal!Ended => goal_states'[t] \in Goal!Ended
            /\ goal_completed \subseteq goal_completed']_Goal!vars
<1> SUFFICES ASSUME GoalSound, [Next]_vars
             PROVE  GoalSound' /\ (Lasting \/ UNCHANGED Goal!vars)
  BY DEF Lasting
<1>1. CASE Goal!Next
  BY <1>1, GoalNext
<1>2. CASE UNCHANGED goal
  <2>1. UNCHANGED Goal!vars
    BY <1>2 DEF goal, Goal!vars
  <2>2. Goal!TypeOK' /\ Goal!DependenciesFirst'
    BY <1>2 DEF goal, GoalSound, Goal!TypeOK, Goal!DependenciesFirst
  <2>3. Goal!AttenuatedAtWork'
    BY <1>2 DEF goal, GoalSound, Goal!AttenuatedAtWork
  <2>4. QED
    BY <1>2, <2>1, <2>2, <2>3 DEF goal, GoalSound
<1>3. QED
  BY <1>1, <1>2 DEF Next, Unless, vars, goal

LEMMA SoundBranch == GoalSound => Goal!CancelledBranchStops
<1> SUFFICES ASSUME GoalSound, NEW t \in goal_cancelled
             PROVE  /\ goal_states[t] \in {"Cancelled", "Failed"}
                    /\ Goal!Descendants(t) \subseteq goal_cancelled
  BY DEF Goal!CancelledBranchStops
<1>1. Goal!Descendants(t) \subseteq goal_cancelled
  BY DescendantsWithin DEF GoalSound
<1>2. QED
  BY <1>1 DEF GoalSound

LEMMA GoalAlways ==
    Spec => /\ [](Goal!TypeOK /\ Goal!DependenciesFirst /\ Goal!CancelledBranchStops
                    /\ Goal!AttenuatedAtWork)
            /\ Goal!EndedStaysEnded
BY GoalInit, GoalStep, SoundBranch, PTL DEF Spec, GoalSound, Goal!EndedStaysEnded

\* Work of a goal begins after what it waits for, within its grants, and stops
\* with its branch; a task given to another machine comes to one end.
THEOREM WorkIsGovernedAlways == Spec => []WorkIsGoverned
BY GoalAlways, RealmAlways, PTL DEF WorkIsGoverned

\* What ended, was superseded, revoked or retired does not come back.
THEOREM NothingComesBackAlways == Spec => NothingComesBack
BY GoalAlways, RealmAlways, PluginsAlways, MemoryAlways, SyncAlways, FabricAlways
   DEF NothingComesBack

-----------------------------------------------------------------------------
(* The realms of the sandbox.                                              *)

\* Of the paths a target holds, two targets that hold one are nested.
LEMMA NestedTargets ==
    ASSUME NEW path, NEW x, NEW y, Len(x) \in Nat, Len(y) \in Nat,
           Box!Under(path, x), Box!Under(path, y), Len(x) <= Len(y)
    PROVE  Box!Under(y, x)
BY DEF Box!Under

\* The mounts a command of a valid plan is mapped to are not writable: each
\* holds an executable one's target.
LEMMA MountOfCommand ==
    ASSUME NEW p \in Plans, Box!Valid(p), NEW c \in p.command
    PROVE  \A m \in Box!MountOf(p, c.entry) : ~m.writable
<1>1. /\ \A m \in p.mounts : Len(m.target) \in Nat
      /\ Len(c.entry) \in Nat
  BY AuthoritiesAssumption DEF Box!SandboxAssumption
<1>2. /\ \A m \in p.mounts : Box!MountValid(m)
      /\ \A m, n \in p.mounts : m # n => ~Box!Conflict(m, n)
  BY DEF Box!Valid
<1>3. PICK x \in p.mounts : x.executable /\ Box!Under(c.entry, x.target)
  BY DEF Box!Valid, Box!CommandFits
<1>4. ~x.writable
  BY <1>2, <1>3 DEF Box!MountValid
<1>5. ASSUME NEW m \in Box!MountOf(p, c.entry)
      PROVE  ~m.writable
  <2>1. /\ m \in p.mounts /\ Box!Under(c.entry, m.target)
        /\ Len(x.target) <= Len(m.target)
    BY <1>3 DEF Box!MountOf
  <2>2. Box!Under(m.target, x.target)
    BY <1>1, <1>3, <2>1, NestedTargets
  <2>3. CASE m = x
    BY <1>4, <2>3
  <2>4. CASE m # x
    <3>1. m.writable = x.writable
      BY <1>2, <2>1, <2>2, <2>4, Zenon DEF Box!Conflict
    <3>2. QED
      BY <1>4, <3>1
  <2>5. QED
    BY <2>3, <2>4
<1>6. QED
  BY <1>5

\* What a path is mapped to is in the directory of its mount; of another mount's
\* it is only if one of the two directories is within the other.
LEMMA MappedPath ==
    ASSUME NEW m, m.host \in Seq(STRING), m.target \in Seq(STRING),
           NEW path \in Seq(STRING), Box!Under(path, m.target)
    PROVE  Box!Under(Box!HostPath(m, path), m.host)
<1>1. PICK x : x = m.host
  OBVIOUS
<1>2. PICK k \in Nat : k = Len(m.target) /\ k <= Len(path)
  BY DEF Box!Under
<1>3. PICK rest : rest = SubSeq(path, k + 1, Len(path))
  OBVIOUS
<1>4. rest \in Seq(STRING)
  BY <1>2, <1>3
<1>5. PICK at : at = x \o rest
  OBVIOUS
<1>6. /\ at \in Seq(STRING) /\ x \in Seq(STRING) /\ Len(x) <= Len(at)
      /\ \A i \in 1..Len(x) : at[i] = x[i]
  BY <1>1, <1>4, <1>5
<1>7. Box!HostPath(m, path) = at
  BY <1>1, <1>2, <1>3, <1>5 DEF Box!HostPath
<1>8. Box!Under(at, x)
  BY <1>6 DEF Box!Under
<1>9. QED
  BY <1>1, <1>7, <1>8

\* Which backend a plan gets: the wrapper, which is then healthy, from the
\* second realm on, and none beyond the third.
LEMMA BackendOf ==
    ASSUME NEW p \in Plans, Box!Valid(p), NEW b \in Box!Selected(p)
    PROVE  /\ b \in {"guarded", "wrapper"}
           /\ p.realm > 1 <=> b = "wrapper"
           /\ b = "wrapper" => p.realm \in {2, 3} /\ p.network = "Denied"
<1>1. p.realm \in 0..4
  BY AuthoritiesAssumption DEF Box!SandboxAssumption
<1>2. b \in Box!Qualified(p)
  BY DEF Box!Selected
<1>3. b \in {"guarded", "wrapper"} /\ p.realm <= Box!Descriptor(b).max_realm
  BY <1>2 DEF Box!Qualified, Box!Registry
<1>4. CASE b = "guarded"
  BY <1>1, <1>3, <1>4 DEF Box!Descriptor
<1>5. CASE b = "wrapper"
  <2>1. p.realm <= 3
    BY <1>3, <1>5 DEF Box!Descriptor
  <2>2. "guarded" \notin Box!Qualified(p)
    BY <1>5 DEF Box!Selected
  <2>3. ASSUME p.realm <= 1
        PROVE  FALSE
    <3>1. "guarded" \in Box!Registry
      BY DEF Box!Registry
    <3>2. Box!Covers(Box!Descriptor("guarded"), p.realm)
      BY <1>1, <2>3 DEF Box!Covers
    <3>3. p.realm <= Box!Descriptor("guarded").max_realm /\ Box!Healthy("guarded")
      BY <2>3 DEF Box!Descriptor, Box!Healthy
    <3>4. QED
      BY <2>2, <3>1, <3>2, <3>3 DEF Box!Qualified
  <2>4. p.realm \in {2, 3}
    BY <1>1, <2>1, <2>3
  <2>5. p.network = "Denied"
    BY <2>4 DEF Box!Valid, Box!NetworkFits
  <2>6. QED
    BY <1>5, <2>4, <2>5
<1>6. QED
  BY <1>3, <1>4, <1>5

Backends == {"guarded", "wrapper"}

\* What an execution ran, and where.
Confined(e) ==
    /\ e.plan \in Plans
    /\ boxes_healthy /\ e.plan.realm \in {2, 3} /\ e.plan.network = "Denied"
    /\ boxes_platform = "macos" => e.mount # {}
    /\ \A m \in e.mount :
        ~m.writable /\ Box!Under(e.at, m.host)

\* A realm is of a valid plan and of the backend that plan gets.
BoxSound ==
    /\ Box!TypeOK /\ Box!RealmsAreConfined
    /\ boxes_realms \subseteq [id : Backends \X Nat, plan : Plans, profiled : BOOLEAN]
    /\ \A r \in boxes_realms :
        /\ Box!Valid(r.plan)
        /\ r.id[1] = "wrapper" => r.plan.realm \in {2, 3} /\ r.plan.network = "Denied"

LEMMA BoxInit == Init => BoxSound
<1> SUFFICES ASSUME Init
             PROVE  BoxSound
  OBVIOUS
<1>1. Box!Init
  BY DEF Init
<1>2. MaxRealms \in Nat
  BY AuthoritiesAssumption DEF Box!SandboxAssumption
<1>3. boxes_created \in [Backends -> 0..MaxRealms]
  BY <1>1, <1>2 DEF Box!Init, Backends
<1>4. Box!TypeOK
  BY <1>1, <1>3 DEF Box!Init, Box!TypeOK, Backends
<1>5. Box!RealmsAreConfined
  BY <1>1 DEF Box!Init, Box!RealmsAreConfined
<1>6. QED
  BY <1>1, <1>4, <1>5 DEF Box!Init, BoxSound

LEMMA RealmWith ==
    ASSUME NEW r \in [id : Backends \X Nat, plan : Plans, profiled : BOOLEAN], NEW e
    PROVE  [r EXCEPT !.profiled = e] = [id |-> r.id, plan |-> r.plan, profiled |-> e]
OBVIOUS

LEMMA BoxNext ==
    ASSUME BoxSound, Box!Next
    PROVE  BoxSound'
<1> DEFINE Shaped == [id : Backends \X Nat, plan : Plans, profiled : BOOLEAN]
<1>0. MaxRealms \in Nat
  BY AuthoritiesAssumption DEF Box!SandboxAssumption
<1>1. /\ boxes_platform \in {"macos", "linux", "windows"} /\ boxes_healthy \in BOOLEAN
      /\ boxes_created \in [Backends -> 0..MaxRealms]
      /\ boxes_profiles \subseteq Plans /\ boxes_unfinished \subseteq boxes_profiles
      /\ boxes_realms \subseteq Shaped
  BY DEF BoxSound, Box!TypeOK, Backends
<1>2. /\ \A r \in boxes_realms :
            /\ r.id[2] \in 1..boxes_created[r.id[1]]
            /\ Box!Valid(r.plan)
            /\ r.id[1] = "wrapper" => r.plan.realm \in {2, 3} /\ r.plan.network = "Denied"
            /\ r.plan.realm > 1 <=> r.id[1] = "wrapper"
      /\ \A q, r \in boxes_realms : q.id = r.id => q = r
  BY DEF BoxSound, Box!TypeOK, Box!RealmsAreConfined
<1>3. \A e \in boxes_ran : Confined(e)
  BY DEF BoxSound, Box!TypeOK, Box!RealmsAreConfined, Confined
<1>4. \A p \in boxes_profiles \ boxes_unfinished : \E r \in boxes_realms : r.profiled /\ r.plan = p
  BY DEF BoxSound, Box!RealmsAreConfined
\* The whole from what holds of each.
<1>5. ASSUME boxes_platform' = boxes_platform, boxes_healthy' = boxes_healthy,
             boxes_created' \in [Backends -> 0..MaxRealms],
             boxes_profiles' \subseteq Plans, boxes_unfinished' \subseteq boxes_profiles',
             boxes_realms' \subseteq Shaped,
             \A r \in boxes_realms' :
                /\ r.id[2] \in 1..boxes_created'[r.id[1]]
                /\ Box!Valid(r.plan)
                /\ r.id[1] = "wrapper" => r.plan.realm \in {2, 3} /\ r.plan.network = "Denied"
                /\ r.plan.realm > 1 <=> r.id[1] = "wrapper",
             \A q, r \in boxes_realms' : q.id = r.id => q = r,
             \A e \in boxes_ran' : Confined(e),
             \A p \in boxes_profiles' \ boxes_unfinished' : \E r \in boxes_realms' : r.profiled /\ r.plan = p
      PROVE  BoxSound'
  <2>1. \A r \in boxes_realms' : r.plan \in Plans
    BY <1>5
  <2>2. Box!TypeOK'
    BY <1>1, <1>5, <2>1 DEF Box!TypeOK, Backends, Confined
  <2>3. boxes_profiles' \ boxes_unfinished' \subseteq {r.plan : r \in {q \in boxes_realms' : q.profiled}}
    BY <1>5
  <2>4. Box!RealmsAreConfined'
    BY <1>5, <2>3 DEF Box!RealmsAreConfined, Confined
  <2>5. \A r \in boxes_realms' :
            /\ Box!Valid(r.plan)
            /\ r.id[1] = "wrapper" => r.plan.realm \in {2, 3} /\ r.plan.network = "Denied"
    BY <1>5
  <2>6. QED
    BY <1>5, <2>2, <2>4, <2>5 DEF BoxSound
<1>6. ASSUME NEW p \in Plans, Box!Create(p)
      PROVE  BoxSound'
  <2>1. Box!Valid(p) /\ UNCHANGED <<boxes_platform, boxes_healthy, boxes_profiles,
                                      boxes_unfinished, boxes_ran>>
    BY <1>6 DEF Box!Create
  <2>2. PICK b \in Box!Selected(p) :
            /\ boxes_created[b] < MaxRealms
            /\ boxes_created' = [boxes_created EXCEPT ![b] = @ + 1]
            /\ boxes_realms' = boxes_realms \cup
                    {[id |-> <<b, boxes_created'[b]>>, plan |-> p, profiled |-> FALSE]}
    BY <1>6 DEF Box!Create
  <2>3. /\ b \in Backends
        /\ p.realm > 1 <=> b = "wrapper"
        /\ b = "wrapper" => p.realm \in {2, 3} /\ p.network = "Denied"
    BY <2>1, BackendOf DEF Backends
  <2>4. /\ boxes_created' \in [Backends -> 0..MaxRealms]
        /\ boxes_created'[b] = boxes_created[b] + 1
        /\ \A o \in Backends : boxes_created[o] <= boxes_created'[o]
        /\ boxes_created[b] \in Nat
    BY <1>0, <1>1, <2>2, <2>3
  <2>5. PICK n \in Nat : n = boxes_created'[b] /\ n \in 1..boxes_created'[b]
    BY <2>4
  <2>6. PICK new : new = [id |-> <<b, n>>, plan |-> p, profiled |-> FALSE]
    OBVIOUS
  <2>7. /\ new \in Shaped /\ new.id = <<b, n>> /\ new.id[1] = b /\ new.id[2] = n
        /\ new.plan = p
    BY <2>3, <2>6
  <2>8. boxes_realms' = boxes_realms \cup {new}
    BY <2>2, <2>5, <2>6
  <2>9. ASSUME NEW r \in boxes_realms
        PROVE  r.id[2] \in 1..boxes_created'[r.id[1]] /\ r.id # new.id
    <3>1. r.id[1] \in Backends /\ r.id[2] \in Nat
      BY <1>1
    <3>2. /\ r.id[2] <= boxes_created[r.id[1]] /\ 1 <= r.id[2]
          /\ boxes_created[r.id[1]] \in Nat /\ boxes_created'[r.id[1]] \in Nat
      BY <1>1, <1>2, <2>4, <3>1
    <3>3. r.id[2] \in 1..boxes_created'[r.id[1]]
      BY <2>4, <3>1, <3>2
    <3>4. r.id[1] = b => r.id[2] # n
      BY <2>4, <2>5, <3>1, <3>2
    <3>5. QED
      BY <2>7, <3>3, <3>4
  <2>10. \A r \in boxes_realms' :
                /\ r.id[2] \in 1..boxes_created'[r.id[1]]
                /\ Box!Valid(r.plan)
                /\ r.id[1] = "wrapper" => r.plan.realm \in {2, 3} /\ r.plan.network = "Denied"
                /\ r.plan.realm > 1 <=> r.id[1] = "wrapper"
    BY <1>2, <2>1, <2>3, <2>5, <2>7, <2>8, <2>9
  <2>11. \A q, r \in boxes_realms' : q.id = r.id => q = r
    BY <1>2, <2>8, <2>9
  <2>12. \A q \in boxes_profiles' \ boxes_unfinished' : \E r \in boxes_realms' : r.profiled /\ r.plan = q
    BY <1>4, <2>1, <2>8
  <2>13. boxes_realms' \subseteq Shaped
    BY <1>1, <2>7, <2>8
  <2>14. QED
    BY <1>1, <1>3, <1>5, <2>1, <2>4, <2>10, <2>11, <2>12, <2>13
<1>7. ASSUME NEW box \in boxes_realms, Box!Destroy(box)
      PROVE  BoxSound'
  <2>1. /\ boxes_realms' = boxes_realms \ {box}
        /\ boxes_profiles' = IF box.profiled THEN boxes_profiles \ {box.plan}
                             ELSE boxes_profiles
        /\ boxes_unfinished' = IF box.profiled THEN boxes_unfinished \ {box.plan}
                               ELSE boxes_unfinished
        /\ UNCHANGED <<boxes_platform, boxes_healthy, boxes_created, boxes_ran>>
    BY <1>7 DEF Box!Destroy
  <2>2. \A p \in boxes_profiles' \ boxes_unfinished' :
            \E r \in boxes_realms' : r.profiled /\ r.plan = p
    BY <1>4, <2>1
  <2>3. QED
    BY <1>1, <1>2, <1>3, <1>5, <2>1, <2>2
<1>8. ASSUME NEW box \in boxes_realms, NEW command, Box!Exec(box, command)
      PROVE  BoxSound'
  <2>1. /\ box.id[1] = "wrapper" /\ boxes_healthy /\ command \in box.plan.command
        /\ UNCHANGED <<boxes_platform, boxes_healthy, boxes_created, boxes_unfinished>>
    BY <1>8 DEF Box!Exec
  <2>2. /\ box.plan \in Plans /\ Box!Valid(box.plan)
        /\ box.plan.realm \in {2, 3} /\ box.plan.network = "Denied"
        /\ box \in Shaped
    BY <1>1, <1>2, <2>1
  <2>3. ASSUME NEW m \in Box!MountOf(box.plan, command.entry)
        PROVE  Confined([plan |-> box.plan, mount |-> {m},
                         at |-> Box!HostPath(m, command.entry)])
    <3>1. PICK at : at = Box!HostPath(m, command.entry)
      OBVIOUS
    <3>2. /\ m \in box.plan.mounts /\ Box!Under(command.entry, m.target)
          /\ ~m.writable
      BY <2>1, <2>2, MountOfCommand DEF Box!MountOf
    <3>3. /\ command.entry \in Seq(STRING)
          /\ \A n \in box.plan.mounts : n.target \in Seq(STRING) /\ n.host \in Seq(STRING)
      BY <2>1, <2>2, AuthoritiesAssumption DEF Box!SandboxAssumption
    <3>4. Box!Under(at, m.host)
      BY <3>1, <3>2, <3>3, MappedPath
    <3>5. PICK e : e = [plan |-> box.plan, mount |-> {m}, at |-> at]
      OBVIOUS
    <3>6. e.plan = box.plan /\ e.mount = {m} /\ e.at = at
      BY <3>5
    <3>7. Confined(e)
      BY <2>1, <2>2, <3>2, <3>4, <3>6 DEF Confined
    <3>8. QED
      BY <3>1, <3>5, <3>7
  <2>4. boxes_platform # "macos" =>
            Confined([plan |-> box.plan, mount |-> {}, at |-> command.entry])
    BY <2>1, <2>2 DEF Confined
  <2>5. \A e \in boxes_ran' :
            \/ e \in boxes_ran
            \/ \E m \in Box!MountOf(box.plan, command.entry) :
                    e = [plan |-> box.plan, mount |-> {m},
                         at |-> Box!HostPath(m, command.entry)]
            \/ /\ boxes_platform # "macos"
               /\ e = [plan |-> box.plan, mount |-> {}, at |-> command.entry]
    BY <1>8 DEF Box!Exec
  <2>6. \A e \in boxes_ran' : Confined(e)
    BY <1>3, <2>3, <2>4, <2>5
  <2>7. CASE boxes_platform = "macos"
    <3>1. PICK again : again = [id |-> box.id, plan |-> box.plan, profiled |-> TRUE]
      OBVIOUS
    <3>2. [box EXCEPT !.profiled = TRUE] = again
      <4>1. box \in [id : Backends \X Nat, plan : Plans, profiled : BOOLEAN]
        BY <2>2
      <4>2. [box EXCEPT !.profiled = TRUE] =
                [id |-> box.id, plan |-> box.plan, profiled |-> TRUE]
        BY <4>1, RealmWith, Zenon
      <4>3. QED
        BY <3>1, <4>2, Zenon
    <3>3. /\ again \in Shaped /\ again.id = box.id /\ again.plan = box.plan
          /\ again.profiled
      BY <2>2, <3>1
    <3>4. /\ boxes_profiles' = boxes_profiles \cup {box.plan}
          /\ boxes_realms' = (boxes_realms \ {box}) \cup {again}
      BY <1>8, <2>7, <3>2 DEF Box!Exec, Box!WriteProfile
    <3>5. \A r \in boxes_realms' :
                /\ r.id[2] \in 1..boxes_created'[r.id[1]]
                /\ Box!Valid(r.plan)
                /\ r.id[1] = "wrapper" => r.plan.realm \in {2, 3} /\ r.plan.network = "Denied"
                /\ r.plan.realm > 1 <=> r.id[1] = "wrapper"
      BY <1>2, <2>1, <3>3, <3>4
    <3>6. \A q, r \in boxes_realms' : q.id = r.id => q = r
      BY <1>2, <3>3, <3>4
    <3>7. ASSUME NEW p \in boxes_profiles' \ boxes_unfinished'
          PROVE  \E r \in boxes_realms' : r.profiled /\ r.plan = p
      <4>1. CASE p = box.plan
        BY <3>3, <3>4, <4>1
      <4>2. CASE p # box.plan
        BY <1>4, <2>1, <3>4, <4>2
      <4>3. QED
        BY <4>1, <4>2
    <3>8. /\ boxes_realms' \subseteq Shaped /\ boxes_profiles' \subseteq Plans
          /\ boxes_unfinished' \subseteq boxes_profiles'
      BY <1>1, <2>1, <2>2, <3>3, <3>4
    <3>9. QED
      BY <1>1, <1>5, <2>1, <2>6, <3>5, <3>6, <3>7, <3>8
  <2>8. CASE boxes_platform # "macos"
    <3>1. UNCHANGED <<boxes_profiles, boxes_realms>>
      BY <1>8, <2>8 DEF Box!Exec
    <3>2. QED
      BY <1>1, <1>2, <1>4, <1>5, <2>1, <2>6, <3>1
  <2>9. QED
    BY <2>7, <2>8
<1>9. ASSUME NEW box \in boxes_realms, Box!ProfileFails(box)
      PROVE  BoxSound'
  <2>1. /\ boxes_profiles' = boxes_profiles \cup {box.plan}
        /\ boxes_unfinished' = boxes_unfinished \cup {box.plan}
        /\ UNCHANGED <<boxes_platform, boxes_healthy, boxes_realms, boxes_created, boxes_ran>>
    BY <1>9 DEF Box!ProfileFails
  <2>2. box.plan \in Plans
    BY <1>1
  <2>3. /\ boxes_profiles' \subseteq Plans /\ boxes_unfinished' \subseteq boxes_profiles'
        /\ boxes_profiles' \ boxes_unfinished' \subseteq boxes_profiles \ boxes_unfinished
    BY <1>1, <2>1, <2>2
  <2>4. \A p \in boxes_profiles' \ boxes_unfinished' :
            \E r \in boxes_realms' : r.profiled /\ r.plan = p
    BY <1>4, <2>1, <2>3
  <2>5. QED
    BY <1>1, <1>2, <1>3, <1>5, <2>1, <2>3, <2>4
<1>10. QED
  BY <1>6, <1>7, <1>8, <1>9 DEF Box!Next

LEMMA BoxStep == BoxSound /\ [Next]_vars => BoxSound'
<1> SUFFICES ASSUME BoxSound, [Next]_vars
             PROVE  BoxSound'
  OBVIOUS
<1>1. CASE Box!Next
  BY <1>1, BoxNext
<1>2. CASE UNCHANGED boxes
  BY <1>2 DEF boxes, BoxSound, Box!TypeOK, Box!RealmsAreConfined
<1>3. QED
  BY <1>1, <1>2 DEF Next, Unless, vars, boxes

LEMMA BoxAlways == Spec => [](Box!TypeOK /\ Box!RealmsAreConfined)
BY BoxInit, BoxStep, PTL DEF Spec, BoxSound

\* What runs of a plugin, a candidate, a code capsule or a child was vetted
\* before, within what was vetted, and stops where it must; what is told of a
\* child is so.
THEOREM OnlyVettedRunsAlways == Spec => []OnlyVettedRuns
BY PluginsAlways, HostAlways, CodesAlways, BoxAlways, SpawnedAlways, PTL DEF OnlyVettedRuns

\* An emergency or a release leaves no protection behind, and a window into a
\* tenant's plane needs two.
THEOREM SafeguardsAlways == Spec => []SafeguardsHold
BY HealthAlways, ReleaseAlways, ControlAlways, PTL DEF SafeguardsHold

-----------------------------------------------------------------------------
(* The roles of a claim.  The stack holds what was seen and not expanded;  *)
(* with what was expanded it covers the claim, and what was expanded pushed *)
(* all its parents, but those found before.                                *)

RolePairs == Roles \X (0..MAX_ROLE_DEPTH + 1)

\* f[n] has the unknown ones of the first n roles of a listing.
Kept(f, listing, known, m) ==
    f = [n \in 0..m |->
            IF n = 0 THEN <<>>
            ELSE IF listing[n] \in known THEN f[n - 1] ELSE Append(f[n - 1], listing[n])]

LEMMA KeptExists ==
    ASSUME NEW listing, NEW known, NEW m \in Nat
    PROVE  \E f : Kept(f, listing, known, m)
<1> DEFINE S == {n \in Nat : ~ \E f : Kept(f, listing, known, n)}
<1> SUFFICES ASSUME S # {} PROVE FALSE
  OBVIOUS
<1>1. PICK n \in S : \A j \in S : n <= j
  BY LeastIn
<1>2. CASE n = 0
  <2>1. Kept([j \in 0..0 |-> <<>>], listing, known, 0)
    BY DEF Kept
  <2>2. QED
    BY <1>2, <2>1
<1>3. CASE n # 0
  <2>1. n - 1 \in Nat /\ n - 1 \notin S
    BY <1>1, <1>3
  <2>2. PICK f : Kept(f, listing, known, n - 1)
    BY <2>1
  <2> DEFINE Step(g, j) == IF listing[j] \in known THEN g[j - 1] ELSE Append(g[j - 1], listing[j])
             h == [j \in 0..n |-> IF j = n THEN Step(f, n) ELSE f[j]]
  <2>3. \A j \in 0..(n - 1) : f[j] = IF j = 0 THEN <<>> ELSE Step(f, j)
    BY <2>1, <2>2 DEF Kept
  <2>4. ASSUME NEW j \in 0..n
        PROVE  (IF j = n THEN Step(f, n) ELSE f[j]) = IF j = 0 THEN <<>> ELSE Step(h, j)
    <3>1. CASE j = n
      <4>1. h[n - 1] = f[n - 1]
        BY <2>1
      <4>2. QED
        BY <1>3, <3>1, <4>1
    <3>2. CASE j # n /\ j # 0
      <4>1. j \in 0..(n - 1) /\ j - 1 \in 0..n /\ j - 1 # n
        BY <2>1, <3>2
      <4>2. h[j - 1] = f[j - 1]
        BY <4>1
      <4>3. QED
        BY <2>3, <3>2, <4>1, <4>2
    <3>3. CASE j # n /\ j = 0
      BY <2>1, <2>3, <3>3
    <3>4. QED
      BY <3>1, <3>2, <3>3
  <2>5. Kept(h, listing, known, n)
    BY <2>4, Zenon DEF Kept
  <2>6. QED
    BY <2>5
<1>4. QED
  BY <1>2, <1>3

\* What is kept of a listing: its unknown roles and no others.
LEMMA OpenIs ==
    ASSUME NEW listing \in Seq(Roles), NEW known
    PROVE  /\ Control!Open(listing, known) \in Seq(Roles)
           /\ \A i \in 1..Len(Control!Open(listing, known)) :
                \E j \in 1..Len(listing) : Control!Open(listing, known)[i] = listing[j]
           /\ \A j \in 1..Len(listing) : listing[j] \notin known =>
                \E i \in 1..Len(Control!Open(listing, known)) :
                    Control!Open(listing, known)[i] = listing[j]
<1> DEFINE m == Len(listing)
           f == CHOOSE g : Kept(g, listing, known, m)
<1>1. m \in Nat
  BY LenProperties
<1>2. Kept(f, listing, known, m)
  BY <1>1, KeptExists
<1>3. Control!Open(listing, known) = f[m]
  BY DEF Control!Open, Kept
<1>4. \A j \in 1..m : listing[j] \in Roles
  BY ElementOfSeq
<1> HIDE DEF m, f
<1>5. \A n \in 0..m : f[n] = IF n = 0 THEN <<>>
                             ELSE IF listing[n] \in known THEN f[n - 1]
                             ELSE Append(f[n - 1], listing[n])
  BY <1>1, <1>2 DEF Kept
<1> DEFINE Right(n) ==
            /\ f[n] \in Seq(Roles)
            /\ \A i \in 1..Len(f[n]) : \E j \in 1..n : f[n][i] = listing[j]
            /\ \A j \in 1..n : listing[j] \notin known =>
                    \E i \in 1..Len(f[n]) : f[n][i] = listing[j]
           S == {n \in 0..m : ~Right(n)}
<1>6. ASSUME S # {} PROVE FALSE
  <2>1. S \subseteq Nat
    BY <1>1
  <2>2. PICK n \in S : \A j \in S : n <= j
    BY <1>6, <2>1, LeastIn, Zenon
  <2>3. n \in 0..m /\ ~Right(n)
    OBVIOUS
  <2>4. CASE n = 0
    <3>1. f[n] = <<>>
      BY <1>5, <2>3, <2>4
    <3>2. f[n] \in Seq(Roles) /\ Len(f[n]) = 0
      BY <3>1, EmptySeq
    <3>3. Right(n)
      BY <2>4, <3>2
    <3>4. QED
      BY <2>3, <3>3
  <2>5. CASE n # 0
    <3>1. n - 1 \in 0..m /\ n - 1 \notin S /\ n \in 1..m
      <4>1. n \in 0..m
        BY <2>3
      <4> HIDE DEF S
      <4>2. n - 1 \in 0..m /\ n \in 1..m /\ ~(n <= n - 1)
        BY <1>1, <2>5, <4>1
      <4>3. n - 1 \notin S
        BY <2>2, <4>2
      <4>4. QED
        BY <4>2, <4>3
    <3>2. Right(n - 1)
      BY <3>1
    <3>3. PICK before : before = f[n - 1]
      OBVIOUS
    <3>4. /\ before \in Seq(Roles) /\ Len(before) \in Nat
          /\ \A i \in 1..Len(before) : \E j \in 1..(n - 1) : before[i] = listing[j]
          /\ \A j \in 1..(n - 1) : listing[j] \notin known =>
                    \E i \in 1..Len(before) : before[i] = listing[j]
      BY <3>2, <3>3, LenProperties
    <3>5. listing[n] \in Roles
      BY <1>4, <3>1
    <3>6. CASE listing[n] \in known
      <4>1. f[n] = before
        BY <1>5, <2>3, <2>5, <3>3, <3>6
      <4>2. f[n] \in Seq(Roles)
        BY <3>4, <4>1
      <4>3. \A i \in 1..Len(f[n]) : \E j \in 1..n : f[n][i] = listing[j]
        <5>1. \A j \in 1..(n - 1) : j \in 1..n
          BY <3>1, <1>1
        <5>2. QED
          BY <3>4, <4>1, <5>1
      <4>4. ASSUME NEW j \in 1..n, listing[j] \notin known
            PROVE  \E i \in 1..Len(f[n]) : f[n][i] = listing[j]
        <5>1. j # n
          BY <3>6, <4>4
        <5>2. j \in 1..(n - 1)
          BY <1>1, <3>1, <5>1
        <5>3. QED
          BY <3>4, <4>1, <4>4, <5>2
      <4>5. Right(n)
        BY <4>2, <4>3, <4>4
      <4>6. QED
        BY <2>3, <4>5
    <3>7. CASE listing[n] \notin known
      <4>1. f[n] = Append(before, listing[n])
        BY <1>5, <2>3, <2>5, <3>3, <3>7
      <4>2. /\ f[n] \in Seq(Roles) /\ Len(f[n]) = Len(before) + 1
            /\ \A i \in 1..Len(before) : f[n][i] = before[i]
            /\ f[n][Len(before) + 1] = listing[n]
        BY <3>4, <3>5, <4>1
      <4>3. ASSUME NEW i \in 1..Len(f[n])
            PROVE  \E j \in 1..n : f[n][i] = listing[j]
        <5>1. CASE i = Len(before) + 1
          <6>1. n \in 1..n
            BY <1>1, <3>1
          <6>2. QED
            BY <4>2, <5>1, <6>1
        <5>2. CASE i # Len(before) + 1
          <6>1. i \in 1..Len(before)
            BY <3>4, <4>2, <5>2
          <6>2. PICK j \in 1..(n - 1) : before[i] = listing[j]
            BY <3>4, <6>1
          <6>3. j \in 1..n
            BY <1>1, <3>1
          <6>4. QED
            BY <4>2, <6>1, <6>2, <6>3
        <5>3. QED
          BY <5>1, <5>2
      <4>4. ASSUME NEW j \in 1..n, listing[j] \notin known
            PROVE  \E i \in 1..Len(f[n]) : f[n][i] = listing[j]
        <5>1. CASE j = n
          <6>1. Len(before) + 1 \in 1..Len(f[n])
            BY <3>4, <4>2
          <6>2. QED
            BY <4>2, <5>1, <6>1
        <5>2. CASE j # n
          <6>1. j \in 1..(n - 1)
            BY <1>1, <3>1, <5>2
          <6>2. PICK i \in 1..Len(before) : before[i] = listing[j]
            BY <3>4, <4>4, <6>1
          <6>3. i \in 1..Len(f[n])
            BY <3>4, <4>2
          <6>4. QED
            BY <4>2, <6>2, <6>3
        <5>3. QED
          BY <5>1, <5>2
      <4>5. Right(n)
        BY <4>2, <4>3, <4>4
      <4>6. QED
        BY <2>3, <4>5
    <3>8. QED
      BY <3>6, <3>7
  <2>6. QED
    BY <2>4, <2>5
<1>7. m \in 0..m
  BY <1>1
<1>8. Right(m)
  BY <1>6, <1>7
<1>9. QED
  BY <1>3, <1>8 DEF m

LEMMA SameRoleCardinality == \A s : Control!Cardinality(s) = Cardinality(s)
BY Zenon DEF Control!Cardinality, Cardinality

LEMMA RolesFinite == IsFiniteSet(Roles)
<1>1. Control!IsFiniteSet(Roles)
  BY AuthoritiesAssumption DEF Control!RoleAssumption
<1>2. QED
  BY <1>1, Zenon DEF Control!IsFiniteSet, IsFiniteSet

\* Some roles and the parents they name.
Climb(found) == found \cup UNION {Control!Named(roles_parents[r]) : r \in found}

\* f[n] is what n climbs reach.
Walk(f, from, m) == f = [n \in 0..m |-> IF n = 0 THEN from ELSE Climb(f[n - 1])]

LEMMA WalkExists ==
    ASSUME NEW from, NEW m \in Nat
    PROVE  \E f : Walk(f, from, m)
<1> DEFINE S == {n \in Nat : ~ \E f : Walk(f, from, n)}
<1> SUFFICES ASSUME S # {} PROVE FALSE
  OBVIOUS
<1>1. PICK n \in S : \A j \in S : n <= j
  BY LeastIn
<1>2. CASE n = 0
  <2>1. Walk([j \in 0..0 |-> from], from, 0)
    BY DEF Walk
  <2>2. QED
    BY <1>2, <2>1
<1>3. CASE n # 0
  <2>1. n - 1 \in Nat /\ n - 1 \notin S
    BY <1>1, <1>3
  <2>2. PICK f : Walk(f, from, n - 1)
    BY <2>1
  <2> DEFINE g == [j \in 0..n |-> IF j = n THEN Climb(f[n - 1]) ELSE f[j]]
  <2>3. \A j \in 0..(n - 1) : f[j] = IF j = 0 THEN from ELSE Climb(f[j - 1])
    BY <2>1, <2>2 DEF Walk
  <2>4. ASSUME NEW j \in 0..n
        PROVE  (IF j = n THEN Climb(f[n - 1]) ELSE f[j]) =
                    IF j = 0 THEN from ELSE Climb(g[j - 1])
    <3>1. CASE j = n
      <4>1. g[n - 1] = f[n - 1]
        BY <2>1
      <4>2. QED
        BY <1>3, <3>1, <4>1
    <3>2. CASE j # n /\ j # 0
      <4>1. j \in 0..(n - 1) /\ j - 1 \in 0..n /\ j - 1 # n
        BY <2>1, <3>2
      <4>2. g[j - 1] = f[j - 1]
        BY <4>1
      <4>3. QED
        BY <2>3, <3>2, <4>1, <4>2
    <3>3. CASE j # n /\ j = 0
      BY <2>1, <2>3, <3>3
    <3>4. QED
      BY <3>1, <3>2, <3>3
  <2>5. Walk(g, from, n)
    BY <2>4, Zenon DEF Walk
  <2>6. QED
    BY <2>5
<1>4. QED
  BY <1>2, <1>3

LEMMA InheritedIs ==
    ASSUME NEW from
    PROVE  /\ Cardinality(Roles) \in Nat
           /\ \E f : /\ Walk(f, from, Cardinality(Roles))
                     /\ Control!Inherited(from) = f[Cardinality(Roles)]
<1> DEFINE N == Cardinality(Roles)
           h == CHOOSE f : Walk(f, from, N)
<1>1. N \in Nat
  BY RolesFinite, FS_CardinalityType
<1> HIDE DEF N
<1>2. Walk(h, from, N)
  BY <1>1, WalkExists
<1>3. Control!Inherited(from) = h[N]
  BY SameRoleCardinality DEF Control!Inherited, Walk, Climb, N
<1>4. QED
  BY <1>1, <1>2, <1>3 DEF N

\* The inherited roles have the roles they are of, and the parents of each.
LEMMA InheritedClosed ==
    ASSUME NEW from \in SUBSET Roles, roles_parents \in [Roles -> Listings]
    PROVE  /\ from \subseteq Control!Inherited(from)
           /\ Control!Inherited(from) \subseteq Roles
           /\ Climb(Control!Inherited(from)) \subseteq Control!Inherited(from)
<1> DEFINE N == Cardinality(Roles)
<1>1. PICK f : Walk(f, from, N) /\ Control!Inherited(from) = f[N]
  BY InheritedIs
<1>2. N \in Nat
  BY InheritedIs
<1>3. \A n \in 0..N : f[n] = IF n = 0 THEN from ELSE Climb(f[n - 1])
  BY <1>1, <1>2 DEF Walk
<1>4. ASSUME NEW s \in SUBSET Roles
      PROVE  s \subseteq Climb(s) /\ Climb(s) \subseteq Roles
  <2>1. ASSUME NEW r \in s
        PROVE  Control!Named(roles_parents[r]) \subseteq Roles
    <3>1. roles_parents[r] \in Seq(Roles)
      BY AuthoritiesAssumption DEF Control!RoleAssumption
    <3>2. DOMAIN roles_parents[r] = 1..Len(roles_parents[r])
      BY <3>1, LenProperties
    <3>3. \A i \in 1..Len(roles_parents[r]) : roles_parents[r][i] \in Roles
      BY <3>1, ElementOfSeq
    <3>4. QED
      BY <3>2, <3>3 DEF Control!Named
  <2>2. QED
    BY <2>1 DEF Climb
<1> HIDE DEF N
<1>5. \A n \in 0..N : f[n] \in SUBSET Roles /\ from \subseteq f[n]
  <2> DEFINE S == {n \in 0..N : ~(f[n] \in SUBSET Roles /\ from \subseteq f[n])}
  <2> SUFFICES ASSUME S # {} PROVE FALSE
    OBVIOUS
  <2>1. S \subseteq Nat
    BY <1>2
  <2>2. PICK n \in S : \A j \in S : n <= j
    BY <2>1, LeastIn, Zenon
  <2>3. n \in 0..N /\ ~(f[n] \in SUBSET Roles /\ from \subseteq f[n])
    OBVIOUS
  <2>4. n # 0
    BY <1>3, <2>3
  <2>5. n - 1 \in 0..N /\ n - 1 \notin S
    BY <1>2, <2>2, <2>3, <2>4
  <2>6. f[n - 1] \in SUBSET Roles /\ from \subseteq f[n - 1] /\ f[n] = Climb(f[n - 1])
    BY <1>3, <2>3, <2>4, <2>5
  <2>7. f[n - 1] \subseteq Climb(f[n - 1]) /\ Climb(f[n - 1]) \subseteq Roles
    BY <1>4, <2>6
  <2>8. QED
    BY <2>3, <2>6, <2>7
<1>6. \A n \in 0..N : IsFiniteSet(f[n]) /\ Cardinality(f[n]) \in Nat
  BY <1>5, RolesFinite, FS_Subset, FS_CardinalityType
<1>7. \A n \in 0..N : n <= Cardinality(f[n]) \/ Climb(f[n]) \subseteq f[n]
  <2> DEFINE S == {n \in 0..N : ~(n <= Cardinality(f[n])) /\ ~(Climb(f[n]) \subseteq f[n])}
  <2> SUFFICES ASSUME S # {} PROVE FALSE
    OBVIOUS
  <2>1. S \subseteq Nat
    BY <1>2
  <2>2. PICK n \in S : \A j \in S : n <= j
    BY <2>1, LeastIn, Zenon
  <2>3. n \in 0..N /\ ~(n <= Cardinality(f[n])) /\ ~(Climb(f[n]) \subseteq f[n])
    OBVIOUS
  <2>4. n # 0
    BY <1>2, <1>6, <2>3
  <2>5. n - 1 \in 0..N /\ n \in 1..N /\ n - 1 \notin S
    BY <1>2, <2>2, <2>3, <2>4
  <2>6. f[n] = Climb(f[n - 1]) /\ f[n - 1] \subseteq f[n]
    BY <1>3, <1>4, <1>5, <2>4, <2>5
  <2>7. f[n - 1] # f[n]
    BY <2>3, <2>6
  <2>8. n - 1 <= Cardinality(f[n - 1])
    BY <2>5, <2>6, <2>7
  <2>9. f[n - 1] \in SUBSET f[n] /\ IsFiniteSet(f[n])
    BY <1>6, <2>3, <2>6
  <2>10. /\ Cardinality(f[n - 1]) <= Cardinality(f[n])
         /\ Cardinality(f[n]) = Cardinality(f[n - 1]) => f[n] = f[n - 1]
    BY <2>9, FS_Subset
  <2>11. Cardinality(f[n]) \in Nat /\ Cardinality(f[n - 1]) \in Nat
    BY <1>6, <2>5, <2>3
  <2> HIDE DEF S
  <2>12. QED
    BY <1>2, <2>3, <2>5, <2>7, <2>8, <2>10, <2>11
<1>8. N \in 0..N /\ f[N] \in SUBSET Roles /\ from \subseteq f[N]
  BY <1>2, <1>5
<1>9. CASE N <= Cardinality(f[N])
  <2>1. Cardinality(f[N]) <= N /\ (N = Cardinality(f[N]) => Roles = f[N])
    BY <1>8, RolesFinite, FS_Subset DEF N
  <2>2. Cardinality(f[N]) \in Nat
    BY <1>6, <1>8
  <2>3. Roles = f[N]
    BY <1>2, <1>9, <2>1, <2>2
  <2>4. Climb(f[N]) \subseteq f[N]
    BY <1>4, <1>8, <2>3
  <2>5. QED
    BY <1>1, <1>8, <2>4
<1>10. CASE Climb(f[N]) \subseteq f[N]
  BY <1>1, <1>8, <1>10
<1>11. QED
  BY <1>7, <1>8, <1>9, <1>10

\* A set that has the roles and the parents of its members has all of it.
LEMMA InheritedWithin ==
    ASSUME NEW from, NEW s, from \subseteq s, Climb(s) \subseteq s
    PROVE  Control!Inherited(from) \subseteq s
<1> DEFINE N == Cardinality(Roles)
<1>1. PICK f : Walk(f, from, N) /\ Control!Inherited(from) = f[N]
  BY InheritedIs
<1>2. N \in Nat
  BY InheritedIs
<1> HIDE DEF N
<1>3. \A n \in 0..N : f[n] = IF n = 0 THEN from ELSE Climb(f[n - 1])
  BY <1>1, <1>2 DEF Walk
<1>4. \A n \in 0..N : f[n] \subseteq s
  <2> DEFINE S == {n \in 0..N : ~(f[n] \subseteq s)}
  <2> SUFFICES ASSUME S # {} PROVE FALSE
    OBVIOUS
  <2>1. S \subseteq Nat
    BY <1>2
  <2>2. PICK n \in S : \A j \in S : n <= j
    BY <2>1, LeastIn, Zenon
  <2>3. n \in 0..N /\ ~(f[n] \subseteq s)
    OBVIOUS
  <2>4. n # 0
    BY <1>3, <2>3
  <2>5. n - 1 \in 0..N /\ n - 1 \notin S
    BY <1>2, <2>2, <2>3, <2>4
  <2>6. f[n - 1] \subseteq s /\ f[n] = Climb(f[n - 1])
    BY <1>3, <2>3, <2>4, <2>5
  <2>7. Climb(f[n - 1]) \subseteq Climb(s)
    BY <2>6 DEF Climb
  <2>8. QED
    BY <2>3, <2>6, <2>7
<1>5. QED
  BY <1>1, <1>2, <1>4

\* Inheritance over given parents: a step that keeps them keeps it.
InheritedOver(parents, from) ==
    LET found[n \in 0..Control!Cardinality(Roles)] ==
            IF n = 0 THEN from
            ELSE found[n - 1] \cup UNION {Control!Named(parents[r]) : r \in found[n - 1]}
    IN  found[Control!Cardinality(Roles)]

Heads(q) == {q[i][1] : i \in 1..Len(q)}

\* What was expanded, done, and what is still on the stack cover the claim and
\* the parents of done.
Covered(done) ==
    /\ Control!Named(roles_claim) \subseteq done \cup Heads(roles_stack)
    /\ \A d \in done : Control!Named(roles_parents[d]) \subseteq done \cup Heads(roles_stack)
    /\ done \cap Control!Mapped \subseteq roles_expanded
    /\ roles_expanded \subseteq done

RoleSound ==
    /\ Control!RoleTypeOK
    /\ Control!BundleIsTheClosure
    /\ Heads(roles_stack) \subseteq Control!Inherited(Control!Named(roles_claim))
    /\ roles_outcome = "expanding" => \E done \in SUBSET Roles : Covered(done)

LEMMA NamedRoles ==
    ASSUME NEW listing \in Listings
    PROVE  /\ listing \in Seq(Roles) /\ Len(listing) \in Nat
           /\ DOMAIN listing = 1..Len(listing)
           /\ \A i \in 1..Len(listing) : listing[i] \in Roles
           /\ Control!Named(listing) = {listing[i] : i \in 1..Len(listing)}
           /\ Control!Named(listing) \subseteq Roles
<1>1. listing \in Seq(Roles)
  BY AuthoritiesAssumption DEF Control!RoleAssumption
<1>2. Len(listing) \in Nat /\ DOMAIN listing = 1..Len(listing)
  BY <1>1, LenProperties
<1>3. \A i \in 1..Len(listing) : listing[i] \in Roles
  BY <1>1, ElementOfSeq
<1>4. QED
  BY <1>1, <1>2, <1>3 DEF Control!Named

\* A listing with a depth for each role is a stack of those roles.
LEMMA StackOf ==
    ASSUME NEW listing \in Seq(Roles), NEW depth \in 0..MAX_ROLE_DEPTH + 1, NEW q,
           q = [i \in DOMAIN listing |-> <<listing[i], depth>>]
    PROVE  /\ q \in Seq(RolePairs) /\ Len(q) = Len(listing)
           /\ \A i \in 1..Len(listing) : q[i] = <<listing[i], depth>>
           /\ Heads(q) = {listing[i] : i \in 1..Len(listing)}
<1>1. Len(listing) \in Nat /\ DOMAIN listing = 1..Len(listing)
  BY LenProperties
<1>2. \A i \in 1..Len(listing) : listing[i] \in Roles
  BY ElementOfSeq
<1>3. q \in [1..Len(listing) -> RolePairs]
  BY <1>1, <1>2 DEF RolePairs
<1>4. q \in Seq(RolePairs)
  BY <1>1, <1>3, SeqDef
<1>5. DOMAIN q = 1..Len(listing) /\ DOMAIN q = 1..Len(q) /\ Len(q) \in Nat
  BY <1>3, <1>4, LenProperties
<1>6. Len(q) = Len(listing)
  BY <1>1, <1>5
<1>7. \A i \in 1..Len(listing) : q[i] = <<listing[i], depth>> /\ q[i][1] = listing[i]
  BY <1>1
<1>8. QED
  BY <1>4, <1>6, <1>7 DEF Heads

LEMMA RoleInitially == Init => RoleSound
<1> SUFFICES ASSUME Control!RoleInit
             PROVE  RoleSound
  BY DEF Init
<1>1. /\ roles_parents \in [Roles -> Listings] /\ roles_claim \in Listings
      /\ roles_stack = [i \in DOMAIN roles_claim |-> <<roles_claim[i], 0>>]
      /\ roles_expanded = {} /\ roles_outcome = "expanding"
      /\ roles_mappings \in Mappings /\ roles_sequence \in {0, 1}
  BY DEF Control!RoleInit
<1>2. roles_claim \in Seq(Roles)
  BY <1>1, NamedRoles
<1>3. 0 \in 0..MAX_ROLE_DEPTH + 1
  BY AuthoritiesAssumption DEF Control!RoleAssumption
<1>4. /\ roles_stack \in Seq(RolePairs)
      /\ Heads(roles_stack) = {roles_claim[i] : i \in 1..Len(roles_claim)}
  BY <1>1, <1>2, <1>3, StackOf
<1>5. /\ Control!Named(roles_claim) = Heads(roles_stack)
      /\ Control!Named(roles_claim) \in SUBSET Roles
  BY <1>1, <1>4, NamedRoles
<1>6. Control!RoleTypeOK
  BY <1>1, <1>4 DEF Control!RoleTypeOK, RolePairs
<1>7. Control!BundleIsTheClosure
  BY <1>1 DEF Control!BundleIsTheClosure
<1>8. Heads(roles_stack) \subseteq Control!Inherited(Control!Named(roles_claim))
  BY <1>1, <1>5, InheritedClosed
<1>9. Covered({})
  BY <1>1, <1>5 DEF Covered
<1>10. QED
  BY <1>6, <1>7, <1>8, <1>9 DEF RoleSound

LEMMA RoleNext ==
    ASSUME RoleSound, Control!RoleNext
    PROVE  RoleSound'
<1> DEFINE from == Control!Named(roles_claim)
<1>1. /\ roles_parents \in [Roles -> Listings] /\ roles_claim \in Listings
      /\ roles_stack \in Seq(RolePairs) /\ roles_expanded \subseteq Control!Mapped
      /\ roles_mappings \in Mappings /\ roles_sequence \in {0, 1}
      /\ roles_outcome \in {"expanding", "bundle", "InvalidMapping"}
  BY DEF RoleSound, Control!RoleTypeOK, RolePairs
<1>2. /\ roles_outcome = "expanding"
      /\ UNCHANGED <<roles_mappings, roles_parents, roles_claim, roles_sequence>>
  BY DEF Control!RoleNext, Control!Expand, Control!TooDeep, Control!Bundle
<1>a. PICK mapped : mapped = Control!Mapped
  OBVIOUS
<1>b. /\ Control!Mapped' = mapped
      /\ \A s : Control!WithRules(s)' = Control!WithRules(s)
      /\ \A s : Control!Refused(s)' = Control!Refused(s)
  BY <1>2, <1>a DEF Control!Mapped, Control!WithRules, Control!Refused
<1>3. PICK all : all = Control!Inherited(from)
  OBVIOUS
<1>4. all = Control!Inherited(Control!Named(roles_claim))'
  <2>1. Control!Inherited(from) = InheritedOver(roles_parents, from)
    BY DEF Control!Inherited, InheritedOver
  <2>2. Control!Inherited(Control!Named(roles_claim))'
            = InheritedOver(roles_parents', Control!Named(roles_claim'))
    BY DEF Control!Inherited, InheritedOver
  <2>3. QED
    BY <1>2, <1>3, <2>1, <2>2
<1>5. from \in SUBSET Roles
  BY <1>1, NamedRoles
<1>6. from \subseteq all /\ all \subseteq Roles /\ Climb(all) \subseteq all
  BY <1>1, <1>3, <1>5, InheritedClosed
<1>7. /\ Heads(roles_stack) \subseteq all /\ roles_expanded \subseteq all
      /\ roles_parents' = roles_parents /\ roles_claim' = roles_claim
  BY <1>2, <1>3 DEF RoleSound, Control!BundleIsTheClosure
<1>8. PICK done \in SUBSET Roles : Covered(done)
  BY <1>2 DEF RoleSound
<1>9. Len(roles_stack) \in Nat /\ (roles_stack # <<>> => Len(roles_stack) \in 1..Len(roles_stack))
  BY <1>1, LenProperties, EmptySeq
<1>10. CASE Control!TooDeep
  <2>1. /\ roles_stack # <<>> /\ Control!Top[2] > MAX_ROLE_DEPTH
        /\ roles_outcome' = "InvalidMapping"
        /\ UNCHANGED <<roles_stack, roles_expanded>>
    BY <1>10 DEF Control!TooDeep
  <2>2. roles_stack[Len(roles_stack)] \in RolePairs
    BY <1>1, <1>9, <2>1, ElementOfSeq
  <2>3. Control!Top[2] = MAX_ROLE_DEPTH + 1
    BY <2>1, <2>2, AuthoritiesAssumption DEF Control!Top, RolePairs, Control!RoleAssumption
  <2>4. Control!Top' = Control!Top
    BY <2>1 DEF Control!Top
  <2>5. Control!BundleIsTheClosure'
    BY <1>4, <1>7, <2>1, <2>3, <2>4 DEF Control!BundleIsTheClosure
  <2>6. Control!RoleTypeOK'
    BY <1>1, <1>2, <1>7, <1>a, <1>b, <2>1 DEF Control!RoleTypeOK, RolePairs
  <2>7. QED
    BY <1>4, <1>7, <2>1, <2>5, <2>6 DEF RoleSound
<1>11. CASE Control!Bundle
  <2>1. /\ roles_stack = <<>>
        /\ roles_outcome' =
            IF /\ Control!WithRules(roles_expanded) # {} /\ roles_sequence # 0
               /\ Control!Refused(roles_expanded) = {}
            THEN "bundle" ELSE "InvalidMapping"
        /\ UNCHANGED <<roles_stack, roles_expanded>>
    BY <1>11 DEF Control!Bundle
  <2>2. Heads(roles_stack) = {}
    <3>1. Len(roles_stack) = 0
      BY <2>1
    <3>2. QED
      BY <3>1 DEF Heads
  <2>3. from \subseteq done /\ Climb(done) \subseteq done
    BY <1>8, <2>2 DEF Covered, Climb
  <2>4. all \subseteq done
    BY <1>3, <2>3, InheritedWithin
  <2>5. roles_expanded = all \cap mapped
    BY <1>1, <1>7, <1>8, <1>a, <2>4 DEF Covered
  <2>a. /\ Control!WithRules(roles_expanded) = Control!WithRules(all)
        /\ Control!Refused(roles_expanded) = Control!Refused(all)
    BY <1>6, <1>a, <2>5 DEF Control!WithRules, Control!Refused, Control!Mapped
  <2>b. /\ Control!WithRules(Control!Inherited(Control!Named(roles_claim)))' = Control!WithRules(all)
        /\ Control!Refused(Control!Inherited(Control!Named(roles_claim)))' = Control!Refused(all)
    BY <1>2, <1>4 DEF Control!WithRules, Control!Refused
  <2>6. Control!BundleIsTheClosure'
    BY <1>2, <1>4, <1>7, <1>b, <2>1, <2>5, <2>a, <2>b DEF Control!BundleIsTheClosure
  <2>7. Control!RoleTypeOK'
    BY <1>1, <1>2, <1>7, <1>a, <1>b, <2>1 DEF Control!RoleTypeOK, RolePairs
  <2>8. QED
    BY <1>4, <1>7, <2>1, <2>6, <2>7 DEF RoleSound
<1>12. CASE Control!Expand
  <2>1. PICK top : top = Control!Top
    OBVIOUS
  <2>2. PICK known : known = roles_expanded \cup ({top[1]} \cap mapped)
    OBVIOUS
  <2>3. PICK open : open = Control!Open(roles_parents[top[1]], known)
    OBVIOUS
  <2>4. PICK pushed : pushed = [i \in DOMAIN open |-> <<open[i], top[2] + 1>>]
    OBVIOUS
  <2>5. PICK popped : popped = Control!Popped
    OBVIOUS
  <2>6. /\ roles_stack # <<>> /\ top[2] <= MAX_ROLE_DEPTH
        /\ roles_expanded' = known /\ roles_stack' = popped \o pushed
        /\ roles_outcome' = "expanding"
    <3>1. Control!Pushed(roles_expanded') = pushed
      BY <1>12, <1>a, <2>1, <2>2, <2>3, <2>4 DEF Control!Expand, Control!Pushed
    <3>2. QED
      BY <1>12, <1>2, <1>a, <2>1, <2>2, <2>5, <3>1 DEF Control!Expand
  <2>7. top \in RolePairs /\ top = roles_stack[Len(roles_stack)]
    BY <1>1, <1>9, <2>1, <2>6, ElementOfSeq DEF Control!Top
  <2>8. /\ top[1] \in Roles /\ top[2] + 1 \in 0..MAX_ROLE_DEPTH + 1
        /\ top[1] \in Heads(roles_stack)
    <3>1. top[1] \in Heads(roles_stack)
      BY <1>9, <2>6, <2>7 DEF Heads
    <3>2. MAX_ROLE_DEPTH \in Nat
      BY AuthoritiesAssumption DEF Control!RoleAssumption
    <3>3. QED
      BY <2>6, <2>7, <3>1, <3>2 DEF RolePairs
  <2>9. PICK listing \in Listings : listing = roles_parents[top[1]]
    BY <1>1, <2>8
  <2>10. listing \in Seq(Roles)
    BY <2>9, NamedRoles
  <2>11. /\ open \in Seq(Roles)
         /\ \A i \in 1..Len(open) : \E j \in 1..Len(listing) : open[i] = listing[j]
         /\ \A j \in 1..Len(listing) : listing[j] \notin known =>
                \E i \in 1..Len(open) : open[i] = listing[j]
    <3>1. open = Control!Open(listing, known)
      BY <2>3, <2>9
    <3>2. /\ Control!Open(listing, known) \in Seq(Roles)
          /\ \A i \in 1..Len(Control!Open(listing, known)) :
                \E j \in 1..Len(listing) : Control!Open(listing, known)[i] = listing[j]
          /\ \A j \in 1..Len(listing) : listing[j] \notin known =>
                \E i \in 1..Len(Control!Open(listing, known)) :
                    Control!Open(listing, known)[i] = listing[j]
      BY <2>10, OpenIs, SMT
    <3> HIDE <2>3
    <3>3. QED
      BY <3>1, <3>2, Zenon
  <2>12. /\ pushed \in Seq(RolePairs)
         /\ Heads(pushed) = {open[i] : i \in 1..Len(open)}
    BY <2>4, <2>8, <2>11, StackOf
  <2>13. /\ Heads(pushed) \subseteq Control!Named(listing)
         /\ Control!Named(listing) \subseteq known \cup Heads(pushed)
    <3>1. Control!Named(listing) = {listing[j] : j \in 1..Len(listing)}
      BY NamedRoles
    <3>2. \A i \in 1..Len(open) : open[i] \in Control!Named(listing)
      BY <2>11, <3>1
    <3>3. \A j \in 1..Len(listing) : listing[j] \in known \cup Heads(pushed)
      BY <2>11, <2>12
    <3>4. QED
      BY <2>12, <3>1, <3>2, <3>3
  <2>14. /\ popped \in Seq(RolePairs) /\ Len(popped) = Len(roles_stack) - 1
         /\ \A i \in 1..Len(popped) : popped[i] = roles_stack[i]
    <3>1. popped = SubSeq(roles_stack, 1, Len(roles_stack) - 1)
      BY <2>5 DEF Control!Popped
    <3>2. Len(roles_stack) - 1 \in 0..Len(roles_stack)
      BY <1>9, <2>6
    <3>3. QED
      <4>1. PICK m : m = Len(roles_stack) - 1
        OBVIOUS
      <4>2. m \in Nat /\ m \in 0..Len(roles_stack) /\ popped = SubSeq(roles_stack, 1, m)
        BY <1>9, <2>6, <3>1, <3>2, <4>1
      <4>3. /\ popped \in Seq(RolePairs) /\ Len(popped) = m
            /\ \A i \in 1..m : popped[i] = roles_stack[i]
        BY <1>1, <1>9, <4>2
      <4>4. QED
        BY <4>1, <4>3
  <2>15. Heads(roles_stack) = Heads(popped) \cup {top[1]}
    <3>1. \A i \in 1..Len(roles_stack) : i = Len(roles_stack) \/ i \in 1..Len(popped)
      BY <1>9, <2>14
    <3>2. \A i \in 1..Len(popped) : i \in 1..Len(roles_stack)
      BY <1>9, <2>14
    <3>3. QED
      BY <2>7, <2>8, <2>14, <3>1, <3>2 DEF Heads
  <2>16. roles_stack' \in Seq(RolePairs) /\ Heads(roles_stack') = Heads(popped) \cup Heads(pushed)
    <3>1. Len(popped) \in Nat /\ Len(pushed) \in Nat
      BY <2>12, <2>14, LenProperties
    <3>2. PICK q : q = popped \o pushed
      OBVIOUS
    <3>3. /\ q \in Seq(RolePairs) /\ Len(q) = Len(popped) + Len(pushed)
          /\ \A i \in 1..Len(popped) : q[i] = popped[i]
          /\ \A i \in 1..Len(pushed) : q[Len(popped) + i] = pushed[i]
      <4>1. q \in Seq(RolePairs) /\ Len(q) = Len(popped) + Len(pushed)
        BY <2>12, <2>14, <3>2, ConcatProperties
      <4>2. \A i \in 1..Len(popped) : q[i] = popped[i]
        BY <2>12, <2>14, <3>1, <3>2
      <4>3. ASSUME NEW i \in 1..Len(pushed)
            PROVE  q[Len(popped) + i] = pushed[i]
        <5>1. PICK j : j = Len(popped) + i
          OBVIOUS
        <5>2. /\ j \in 1..(Len(popped) + Len(pushed)) /\ ~(j <= Len(popped))
              /\ j - Len(popped) = i
          BY <3>1, <5>1
        <5>3. q[j] = pushed[j - Len(popped)]
          BY <2>12, <2>14, <3>2, <5>2, ConcatProperties
        <5>4. QED
          BY <5>1, <5>2, <5>3
      <4>4. QED
        BY <4>1, <4>2, <4>3
    <3>4. ASSUME NEW i \in 1..Len(q)
          PROVE  q[i][1] \in Heads(popped) \cup Heads(pushed)
      <4>1. CASE i \in 1..Len(popped)
        BY <3>3, <4>1 DEF Heads
      <4>2. CASE i \notin 1..Len(popped)
        <5>1. PICK j \in 1..Len(pushed) : i = Len(popped) + j
          <6>1. i - Len(popped) \in 1..Len(pushed) /\ i = Len(popped) + (i - Len(popped))
            BY <3>1, <3>3, <4>2
          <6>2. QED
            BY <6>1
        <5>2. q[i] = pushed[j]
          BY <3>3, <5>1
        <5>3. QED
          BY <5>2 DEF Heads
      <4>3. QED
        BY <4>1, <4>2
    <3>5. Heads(q) \subseteq Heads(popped) \cup Heads(pushed)
      BY <3>4 DEF Heads
    <3>6. Heads(popped) \subseteq Heads(q)
      <4>1. \A i \in 1..Len(popped) : i \in 1..Len(q)
        BY <3>1, <3>3
      <4>2. QED
        BY <3>3, <4>1 DEF Heads
    <3>7. Heads(pushed) \subseteq Heads(q)
      <4>1. \A i \in 1..Len(pushed) : Len(popped) + i \in 1..Len(q)
        BY <3>1, <3>3
      <4>2. \A i \in 1..Len(pushed) : pushed[i][1] \in Heads(q)
        BY <3>3, <4>1 DEF Heads
      <4>3. QED
        BY <4>2 DEF Heads
    <3>8. QED
      BY <2>6, <3>2, <3>3, <3>5, <3>6, <3>7
  <2>17. Control!RoleTypeOK'
    <3>1. known \subseteq Control!Mapped'
      BY <1>1, <1>a, <1>b, <2>2
    <3>2. QED
      BY <1>1, <1>2, <1>7, <2>6, <2>16, <3>1 DEF Control!RoleTypeOK, RolePairs
  <2>18. Control!Named(listing) \subseteq all
    BY <1>6, <1>7, <2>8, <2>9 DEF Climb
  <2>19. Heads(roles_stack') \subseteq all /\ roles_expanded' \subseteq all
    BY <1>7, <2>2, <2>6, <2>8, <2>13, <2>15, <2>16, <2>18
  <2>20. PICK further : further = done \cup {top[1]}
    OBVIOUS
  <2>21. /\ Control!Named(roles_claim) \subseteq further \cup Heads(roles_stack')
         /\ \A d \in further :
                Control!Named(roles_parents[d]) \subseteq further \cup Heads(roles_stack')
         /\ further \cap mapped \subseteq known
         /\ known \subseteq further
    <3>1. done \cup Heads(roles_stack) \subseteq further \cup Heads(roles_stack')
      BY <2>15, <2>16, <2>20
    <3>2. further \cap mapped \subseteq known /\ known \subseteq further
      BY <1>8, <1>a, <2>2, <2>20 DEF Covered
    <3>3. Control!Named(roles_parents[top[1]]) \subseteq further \cup Heads(roles_stack')
      BY <2>9, <2>13, <2>16, <3>2
    <3>4. QED
      BY <1>8, <2>20, <3>1, <3>2, <3>3 DEF Covered
  <2>22. further \in SUBSET Roles /\ Covered(further)'
    BY <1>7, <1>b, <2>6, <2>8, <2>20, <2>21 DEF Covered
  <2>23. Control!BundleIsTheClosure'
    BY <1>4, <2>6, <2>19 DEF Control!BundleIsTheClosure
  <2>24. QED
    BY <1>4, <2>17, <2>19, <2>22, <2>23 DEF RoleSound
<1>13. QED
  BY <1>10, <1>11, <1>12 DEF Control!RoleNext

LEMMA RoleStep == RoleSound /\ [Next]_vars => RoleSound'
<1> SUFFICES ASSUME RoleSound, [Next]_vars
             PROVE  RoleSound'
  OBVIOUS
<1>1. CASE Control!RoleNext
  BY <1>1, RoleNext
<1>2. CASE UNCHANGED roles
  <2>1. UNCHANGED <<roles_mappings, roles_parents, roles_claim, roles_sequence, roles_stack,
                    roles_expanded, roles_outcome>>
    BY <1>2 DEF roles
  <2>2. Control!Inherited(Control!Named(roles_claim))'
            = Control!Inherited(Control!Named(roles_claim))
    <3>1. Control!Inherited(Control!Named(roles_claim))
            = InheritedOver(roles_parents, Control!Named(roles_claim))
      BY DEF Control!Inherited, InheritedOver
    <3>2. Control!Inherited(Control!Named(roles_claim))'
            = InheritedOver(roles_parents', Control!Named(roles_claim'))
      BY DEF Control!Inherited, InheritedOver
    <3>3. QED
      BY <2>1, <3>1, <3>2
  <2>3. Control!RoleTypeOK' /\ Control!BundleIsTheClosure'
    BY <2>1, <2>2 DEF RoleSound, Control!RoleTypeOK, Control!BundleIsTheClosure, Control!Top,
                          Control!Mapped, Control!WithRules, Control!Refused
  <2>4. ASSUME NEW done \in SUBSET Roles, Covered(done)
        PROVE  Covered(done)'
    BY <2>1, <2>4 DEF Covered, Control!Mapped
  <2>5. QED
    BY <2>1, <2>2, <2>3, <2>4 DEF RoleSound
<1>3. QED
  BY <1>1, <1>2 DEF Next, Unless, vars, roles

LEMMA RolesAlways == Spec => [](Control!RoleTypeOK /\ Control!BundleIsTheClosure)
BY RoleInitially, RoleStep, PTL DEF Spec, RoleSound

\* What is answered of memories, chunks, records, sealed objects, planes and
\* claimed roles is what was promoted, lives, was sealed so, is of the asker,
\* and is all of it.
THEOREM AnswersAreDueAlways == Spec => []AnswersAreDue
BY MemoryAlways, FabricAlways, ExchangeAlways, SyncAlways, ControlAlways, RolesAlways, PTL
   DEF AnswersAreDue

\* The types of what every deciding crate keeps.
THEOREM AuthoritiesTyped == Spec => []TypeOK
BY GoalAlways, RealmAlways, PluginsAlways, HostAlways, CodesAlways, MemoryAlways, HealthAlways,
   ReleaseAlways, RolesAlways, ControlAlways, SyncAlways, FabricAlways, ExchangeAlways,
   EgressAlways, PolicyAlways, ModelAlways, StreamAlways, BoxAlways, SpawnedAlways, PTL
   DEF TypeOK

=============================================================================
