--------------------------- MODULE PluginRegistry ---------------------------
(***************************************************************************)
(* PluginRegistry (crates/plugin-registry): manifests published at rising  *)
(* versions, admitted by the host, revoked for good; authorize is all that *)
(* a plugin's request reaches.  A manifest that does not validate (shape,  *)
(* digest) is refused at once, so only valid ones are inputs.              *)
(***************************************************************************)
EXTENDS Delegation

CONSTANTS
    Plugins,
    Versions,       \* a finite set of positive numbers
    PluginGrants    \* the sets of grants a manifest may declare

PluginManifests == [plugin : Plugins, version : Versions, grants : PluginGrants]
NoManifest == [plugin |-> "none", version |-> 0, grants |-> {}]

RegistryAssumption ==
    /\ Versions \subseteq Nat \ {0}
    /\ \A p \in Plugins : p # "none"

VARIABLES
    records,        \* Plugins -> the live manifest
    admitted,       \* plugins marked as admitted
    sequence,       \* how many were published
    revoked,        \* tombstones
    vetted          \* manifests live when they were marked (history)

vars == <<records, admitted, sequence, revoked, vetted>>

Init ==
    /\ records = [p \in Plugins |-> NoManifest]
    /\ admitted = {} /\ revoked = {} /\ vetted = {}
    /\ sequence = 0

Live(p) == records[p] # NoManifest

\* Mutant: a new version takes over the admission of the one it replaces.
PublishAdmitted(m) ==
    /\ m.plugin \notin revoked
    /\ m.version > records[m.plugin].version
    /\ sequence' = sequence + 1
    /\ records' = [records EXCEPT ![m.plugin] = m]
    /\ UNCHANGED <<admitted, revoked, vetted>>

Publish(m) ==
    /\ m.plugin \notin revoked
    /\ m.version > records[m.plugin].version
    /\ sequence' = sequence + 1
    /\ records' = [records EXCEPT ![m.plugin] = m]
    /\ admitted' = admitted \ {m.plugin}
    /\ UNCHANGED <<revoked, vetted>>

MarkAdmitted(p) ==
    /\ Live(p)
    /\ admitted' = admitted \cup {p}
    /\ vetted' = vetted \cup {records[p]}
    /\ UNCHANGED <<records, sequence, revoked>>

\* Mutant: no tombstone.
RevokeOnly(p) ==
    /\ Live(p)
    /\ records' = [records EXCEPT ![p] = NoManifest]
    /\ admitted' = admitted \ {p}
    /\ UNCHANGED <<sequence, revoked, vetted>>

\* revoke: the record goes, with its admission; the tombstone stays.
Revoke(p) ==
    /\ Live(p)
    /\ records' = [records EXCEPT ![p] = NoManifest]
    /\ admitted' = admitted \ {p}
    /\ revoked' = revoked \cup {p}
    /\ UNCHANGED <<sequence, vetted>>

\* authorize.
Authorizes(p, grant) ==
    /\ Live(p) /\ p \in admitted /\ p \notin revoked
    /\ \E declared \in records[p].grants : Within(grant, declared)

Next ==
    \/ \E m \in PluginManifests : Publish(m)
    \/ \E p \in Plugins : MarkAdmitted(p) \/ Revoke(p)

Spec == Init /\ [][Next]_vars

-----------------------------------------------------------------------------

TypeOK ==
    /\ records \in [Plugins -> PluginManifests \cup {NoManifest}]
    /\ admitted \subseteq Plugins /\ revoked \subseteq Plugins
    /\ sequence \in Nat
    /\ vetted \subseteq PluginManifests

\* authorize: what a plugin is allowed, a manifest declares that was itself
\* live when the host's admission was marked, and no tombstone is live.
AuthorizedWasVetted ==
    \A p \in Plugins :
        /\ p \in admitted => records[p] \in vetted
        /\ p \in revoked => ~Live(p)

\* publish: the version of a plugin never goes down and never comes back.
VersionsRise ==
    [][\A p \in Plugins :
        \/ records'[p].version >= records[p].version
        \/ p \in revoked']_vars

-----------------------------------------------------------------------------
(***************************************************************************)
(* PluginHost (crates/effect-broker/src/plugin_host.rs): a circuit breaker *)
(* and a kill switch per plugin.  authorize_exec only reads; note_result   *)
(* is a call of its own, of anyone and at any time: the plugin may have    *)
(* been admitted again, quarantined, or not run at all in between.         *)
(***************************************************************************)
CONSTANTS
    Hosted,         \* the plugins of a host
    MaxAdmissions,  \* bound: admissions of one plugin
    MaxResults      \* bound: results noted of one plugin

CIRCUIT_FAILURE_THRESHOLD == 3

Circuits == {"absent", "Closed", "Open", "Quarantined"}

HostAssumption == MaxAdmissions \in Nat /\ MaxResults \in Nat

VARIABLES
    circuit,        \* Hosted -> its circuit
    failures,       \* Hosted -> consecutive failures
    admissions,     \* Hosted -> how often it was admitted (bound)
    results,        \* Hosted -> how many results were noted (bound)
    killed          \* plugins quarantined since they were last admitted (history)

hostVars == <<circuit, failures, admissions, results, killed>>

HostInit ==
    /\ circuit = [p \in Hosted |-> "absent"]
    /\ failures = [p \in Hosted |-> 0]
    /\ admissions = [p \in Hosted |-> 0]
    /\ results = [p \in Hosted |-> 0]
    /\ killed = {}

\* admit: the manifest validates and the code has its digest.  The entry is
\* replaced whatever its circuit.
Admit(p) ==
    /\ admissions[p] < MaxAdmissions
    /\ admissions' = [admissions EXCEPT ![p] = @ + 1]
    /\ circuit' = [circuit EXCEPT ![p] = "Closed"]
    /\ failures' = [failures EXCEPT ![p] = 0]
    /\ killed' = killed \ {p}
    /\ UNCHANGED results

\* authorize_exec.
Executable(p) == circuit[p] = "Closed"

\* note_result finds the entry of an admitted plugin.
Noted(p) ==
    /\ circuit[p] # "absent"
    /\ results[p] < MaxResults
    /\ results' = [results EXCEPT ![p] = @ + 1]
    /\ UNCHANGED <<admissions, killed>>

\* note_result, of a success.
NoteSuccess(p) ==
    /\ Noted(p)
    /\ failures' = [failures EXCEPT ![p] = 0]
    /\ circuit' = [circuit EXCEPT ![p] = IF @ = "Open" THEN "Closed" ELSE @]

\* Mutant: one failure too many.
NoteFailureLate(p) ==
    /\ Noted(p)
    /\ failures' = [failures EXCEPT ![p] = @ + 1]
    /\ circuit' = [circuit EXCEPT ![p] =
            IF failures[p] + 1 > CIRCUIT_FAILURE_THRESHOLD THEN "Open" ELSE @]

\* note_result, of a failure: the circuit opens whatever it was.
NoteFailure(p) ==
    /\ Noted(p)
    /\ failures' = [failures EXCEPT ![p] = @ + 1]
    /\ circuit' = [circuit EXCEPT ![p] =
            IF failures[p] + 1 >= CIRCUIT_FAILURE_THRESHOLD THEN "Open" ELSE @]

Quarantine(p) ==
    /\ circuit[p] # "absent"
    /\ circuit' = [circuit EXCEPT ![p] = "Quarantined"]
    /\ killed' = killed \cup {p}
    /\ UNCHANGED <<failures, admissions, results>>

HostNext ==
    \E p \in Hosted : Admit(p) \/ NoteSuccess(p) \/ NoteFailure(p) \/ Quarantine(p)

HostSpec == HostInit /\ [][HostNext]_hostVars

-----------------------------------------------------------------------------

HostTypeOK ==
    /\ circuit \in [Hosted -> Circuits]
    /\ failures \in [Hosted -> 0..MaxResults]
    /\ admissions \in [Hosted -> 0..MaxAdmissions]
    /\ results \in [Hosted -> 0..MaxResults]
    /\ killed \subseteq Hosted

\* note_result: whatever the order in which results come, of plugins that ran
\* or were admitted again since, a plugin runs only with fewer than three
\* failures in a row, and an open circuit has at least three.
CircuitFollowsFailures ==
    \A p \in Hosted :
        /\ Executable(p) => failures[p] < CIRCUIT_FAILURE_THRESHOLD
        /\ circuit[p] = "Open" => failures[p] >= CIRCUIT_FAILURE_THRESHOLD

\* "quarantined plugins never execute again through this host", while they
\* are not admitted again.
QuarantineIsTerminal == \A p \in killed : ~Executable(p)
=============================================================================
