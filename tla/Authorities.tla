---------------------------- MODULE Authorities ----------------------------
(***************************************************************************)
(* The crates that decide what may be done, used or known: each keeps a    *)
(* state of its own behind its own type and none calls another, so that    *)
(* what one may do does not depend on the others; a behaviour is that of   *)
(* one of them, the "machine".  The properties are those of the machines,  *)
(* grouped by what they promise.                                           *)
(***************************************************************************)
EXTENDS Integers, Sequences, FiniteSets

CONSTANTS
    Tasks, Graphs, Subagents, ParentGrants, Requests, Evidence, Declared,  \* GoalOrchestrator
    Envelopes, Window, MaxTime, MaxSubmissions,                          \* RemoteRealm
    Plugins, Versions, PluginGrants,                                     \* PluginRegistry
    Hosted, MaxAdmissions, MaxResults,
    Candidates,                                                          \* CodeCapsules
    Names, CapsuleName, CapsuleGrants, FullBudget, MaxPromotions,        \* CodeCapsules
    Entries,                                                             \* MemoryAuthority
    Cells, MAX_QUARANTINED_CELLS,                                        \* Safeguards
    Manifests, Rings, FloorVersion,                                      \* Safeguards
    Roles, Mappings, Listings, MAX_ROLE_DEPTH,                             \* EnterpriseControl
    Tenants, Keys, Operators, Windows, MaxWrites, MaxGrants,             \* EnterpriseControl
    Workspaces, SealKeys, Epochs,                                        \* SealedSync
    ChunkIds, Chunks, Queries, MaxFabricTime,                            \* KnowledgeFabric
    Raws, Scopes, Home, Origins, Formats,                                \* KnowledgeFabric
    Rules, EgressRequests, Addresses, Blocked, MetadataHosts,            \* EgressGate
    Tiers, PlatformHard, Snapshots, Asked,                               \* PolicySnapshots
    Models, Listed, ModelRequests, Usages, TotalTokens, MaxSequence, MaxInvocations,  \* ModelInvoker
    StreamTokens, StreamBudget, CallIndexes, MaxStream,                  \* ModelInvoker
    Plans, MaxRealms,                                                    \* SandboxRealms
    Payload, PipeSize, MaxOutput                                         \* ScrubbedChild

VARIABLES
    machine,
    goal_dependencies, goal_states, goal_delegations, goal_completed, goal_cancelled, goal_rejected,
    goal_exhausted,
    realm_tasks, realm_deadline, realm_clock, realm_submissions, realm_at_work, realm_over,
    realm_reaped, realm_admitted,
    plugins_records, plugins_admitted, plugins_sequence, plugins_revoked, plugins_vetted,
    host_circuit, host_failures, host_admissions, host_results, host_killed,
    workshop_state, workshop_evaluations, workshop_promotions, workshop_revoked, workshop_reviewed,
    codes_budget, codes_history, codes_active,
    memory_state, memory_superseded, memory_conflicts, memory_clock, memory_asked, memory_views,
    health_quarantined, health_safe_mode, health_halted, health_critical_open, health_trust_broken,
    release_last_version, release_last_timestamp, release_accepted, release_current, release_history,
    control_clock, control_entries, control_streams, control_owners, control_read, control_grants,
    control_issued,
    roles_mappings, roles_parents, roles_claim, roles_sequence, roles_stack, roles_expanded,
    roles_outcome,
    sync_server, sync_last_seen, sync_floor, sync_advanced, sync_opened,
    fabric_chunks, fabric_index, fabric_revoked, fabric_user_excluded, fabric_clock, fabric_answer,
    fabric_readmitted,
    exchange_records, exchange_by_raw_digest, exchange_revoked_records, exchange_in_fabric,
    exchange_answered,
    egress_authorization, egress_asked, egress_resolved, egress_link,
    policy_snapshot, policy_decision,
    models_registry, models_sequence, models_consumed, models_call, models_told, models_spent,
    models_calls, models_invocations,
    stream_taken, stream_usage, stream_tool_calls, stream_finish, stream_cancelled, stream_error,
    stream_reading, stream_events,
    boxes_platform, boxes_healthy, boxes_realms, boxes_created, boxes_profiles, boxes_unfinished,
    boxes_ran,
    spawned_main, spawned_watcher, spawned_mutex, spawned_child, spawned_input, spawned_holders,
    spawned_pipe, spawned_captured, spawned_truncated, spawned_broken, spawned_due,
    spawned_finished, spawned_killed, spawned_sent

Goal == INSTANCE GoalOrchestrator WITH
    dependencies <- goal_dependencies, states <- goal_states, delegations <- goal_delegations,
    completed <- goal_completed, cancelled <- goal_cancelled, rejected <- goal_rejected,
    exhausted <- goal_exhausted

Realm == INSTANCE RemoteRealm WITH
    tasks <- realm_tasks, deadline <- realm_deadline, clock <- realm_clock,
    submissions <- realm_submissions, at_work <- realm_at_work, over <- realm_over,
    reaped <- realm_reaped, admitted <- realm_admitted

Plugin == INSTANCE PluginRegistry WITH
    records <- plugins_records, admitted <- plugins_admitted, sequence <- plugins_sequence,
    revoked <- plugins_revoked, vetted <- plugins_vetted, circuit <- host_circuit,
    failures <- host_failures, admissions <- host_admissions, results <- host_results,
    killed <- host_killed

Codes == INSTANCE CodeCapsules WITH
    state <- workshop_state, evaluations <- workshop_evaluations, promotions <- workshop_promotions,
    revoked <- workshop_revoked, reviewed <- workshop_reviewed, budget <- codes_budget,
    history <- codes_history, active <- codes_active

Memory == INSTANCE MemoryAuthority WITH
    state <- memory_state, superseded <- memory_superseded, conflicts <- memory_conflicts,
    clock <- memory_clock, asked <- memory_asked, views <- memory_views

Safe == INSTANCE Safeguards WITH
    quarantined <- health_quarantined, safe_mode <- health_safe_mode, halted <- health_halted,
    critical_open <- health_critical_open, trust_broken <- health_trust_broken,
    last_version <- release_last_version, last_timestamp <- release_last_timestamp,
    accepted <- release_accepted, current <- release_current, history <- release_history

Control == INSTANCE EnterpriseControl WITH
    clock <- control_clock, entries <- control_entries, streams <- control_streams,
    owners <- control_owners, read <- control_read, grants <- control_grants,
    issued <- control_issued, mappings <- roles_mappings, parents <- roles_parents,
    claim <- roles_claim, sequence <- roles_sequence, stack <- roles_stack,
    expanded <- roles_expanded, outcome <- roles_outcome

Sync == INSTANCE SealedSync WITH
    server <- sync_server, last_seen <- sync_last_seen, floor <- sync_floor,
    advanced <- sync_advanced, opened <- sync_opened

Fabric == INSTANCE KnowledgeFabric WITH
    chunks <- fabric_chunks, index <- fabric_index, revoked <- fabric_revoked,
    user_excluded <- fabric_user_excluded, clock <- fabric_clock, answer <- fabric_answer,
    readmitted <- fabric_readmitted, records <- exchange_records,
    by_raw_digest <- exchange_by_raw_digest, revoked_records <- exchange_revoked_records,
    in_fabric <- exchange_in_fabric, answered <- exchange_answered, Requests <- Queries,
    MaxTime <- MaxFabricTime

Egress == INSTANCE EgressGate WITH
    authorization <- egress_authorization, asked <- egress_asked, resolved <- egress_resolved,
    link <- egress_link

Policy == INSTANCE PolicySnapshots WITH
    snapshot <- policy_snapshot, decision <- policy_decision

Model == INSTANCE ModelInvoker WITH
    registry <- models_registry, sequence <- models_sequence, consumed <- models_consumed,
    call <- models_call, told <- models_told, spent <- models_spent, calls <- models_calls,
    invocations <- models_invocations, taken <- stream_taken, usage <- stream_usage,
    tool_calls <- stream_tool_calls, finish <- stream_finish, cancelled <- stream_cancelled,
    error <- stream_error, reading <- stream_reading, events <- stream_events, Listings <- Listed

Box == INSTANCE SandboxRealms WITH
    platform <- boxes_platform, healthy <- boxes_healthy, realms <- boxes_realms,
    created <- boxes_created, profiles <- boxes_profiles, unfinished <- boxes_unfinished,
    ran <- boxes_ran

Spawned == INSTANCE ScrubbedChild WITH
    main <- spawned_main, watcher <- spawned_watcher, mutex <- spawned_mutex,
    child <- spawned_child, input <- spawned_input, holders <- spawned_holders,
    pipe <- spawned_pipe, captured <- spawned_captured, truncated <- spawned_truncated,
    broken <- spawned_broken, due <- spawned_due, finished <- spawned_finished,
    killed <- spawned_killed, sent <- spawned_sent

ASSUME AuthoritiesAssumption ==
    /\ Goal!OrchestratorAssumption /\ Realm!RealmAssumption /\ Plugin!RegistryAssumption
    /\ Plugin!HostAssumption /\ Codes!CapsuleAssumption /\ Memory!MemoryAssumption
    /\ Safe!SupervisorAssumption /\ Safe!ReleaseAssumption /\ Control!RoleAssumption
    /\ Control!EnterpriseAssumption /\ Sync!SyncAssumption /\ Fabric!FabricAssumption
    /\ Fabric!ExchangeAssumption /\ Egress!EgressAssumption /\ Policy!SnapshotAssumption
    /\ Model!InvokerAssumption /\ Model!StreamAssumption
    /\ Box!SandboxAssumption /\ Spawned!ChildAssumption

goal == <<goal_dependencies, goal_states, goal_delegations, goal_completed, goal_cancelled,
        goal_rejected, goal_exhausted>>

realm == <<realm_tasks, realm_deadline, realm_clock, realm_submissions, realm_at_work, realm_over,
         realm_reaped, realm_admitted>>

plugins == <<plugins_records, plugins_admitted, plugins_sequence, plugins_revoked, plugins_vetted>>

host == <<host_circuit, host_failures, host_admissions, host_results, host_killed>>

workshop == <<workshop_state, workshop_evaluations, workshop_promotions, workshop_revoked,
            workshop_reviewed>>

codes == <<codes_budget, codes_history, codes_active>>

memory == <<memory_state, memory_superseded, memory_conflicts, memory_clock, memory_asked,
          memory_views>>

health == <<health_quarantined, health_safe_mode, health_halted, health_critical_open,
          health_trust_broken>>

release == <<release_last_version, release_last_timestamp, release_accepted, release_current,
           release_history>>

control == <<control_clock, control_entries, control_streams, control_owners, control_read,
           control_grants, control_issued>>

roles == <<roles_mappings, roles_parents, roles_claim, roles_sequence, roles_stack, roles_expanded,
         roles_outcome>>

sync == <<sync_server, sync_last_seen, sync_floor, sync_advanced, sync_opened>>

fabric == <<fabric_chunks, fabric_index, fabric_revoked, fabric_user_excluded, fabric_clock,
          fabric_answer, fabric_readmitted>>

exchange == <<exchange_records, exchange_by_raw_digest, exchange_revoked_records,
            exchange_in_fabric, exchange_answered>>

egress == <<egress_authorization, egress_asked, egress_resolved, egress_link>>

policy == <<policy_snapshot, policy_decision>>

models == <<models_registry, models_sequence, models_consumed, models_call, models_told,
          models_spent, models_calls, models_invocations>>

stream == <<stream_taken, stream_usage, stream_tool_calls, stream_finish, stream_cancelled,
          stream_error, stream_reading, stream_events>>

boxes == <<boxes_platform, boxes_healthy, boxes_realms, boxes_created, boxes_profiles,
         boxes_unfinished, boxes_ran>>

spawned == <<spawned_main, spawned_watcher, spawned_mutex, spawned_child, spawned_input,
           spawned_holders, spawned_pipe, spawned_captured, spawned_truncated, spawned_broken,
           spawned_due, spawned_finished, spawned_killed, spawned_sent>>

vars ==
    <<machine, goal, realm, plugins, host, workshop, codes, memory, health, release, roles,
      control, sync, fabric, exchange, egress, policy, models, stream, boxes, spawned>>

Machines ==
    {"goal", "realm", "plugins", "host", "workshop", "codes", "memory", "health", "release",
     "roles", "control", "sync", "fabric", "exchange", "egress", "policy", "models", "stream",
     "boxes", "spawned"}

\* The choices the others have at the start are made at once.
Init ==
    /\ machine \in Machines
    /\ goal_dependencies \in IF machine = "goal" THEN Graphs ELSE {[t \in Tasks |-> {}]}
    /\ Goal!Init
    /\ Realm!Init /\ Plugin!Init /\ Plugin!HostInit /\ Codes!Init
    /\ Memory!Init /\ Safe!Init /\ Safe!ReleaseInit
    /\ Control!RoleInit
    /\ \/ machine = "roles"
       \/ /\ roles_mappings = CHOOSE m \in Mappings : TRUE
          /\ roles_sequence = 1 /\ roles_parents = [r \in Roles |-> <<>>]
          /\ roles_claim = CHOOSE l \in Listings : l # <<>>
    /\ Control!Init
    /\ machine = "control" \/ control_read.caller = CHOOSE t \in Tenants : TRUE
    /\ Sync!Init /\ Fabric!FabricInit /\ Fabric!ExchangeInit /\ Egress!Init
    /\ Policy!Init
    /\ machine = "policy" \/ policy_snapshot = CHOOSE s \in Snapshots : Policy!WellFormed(s)
    /\ Model!Init
    /\ machine = "models" \/ models_registry = CHOOSE l \in Listed : TRUE
    /\ Model!StreamInit
    /\ Box!Init
    /\ machine = "boxes" \/ boxes_platform = "windows"
    /\ Spawned!Init

Unless(chosen, state) == IF machine = chosen THEN TRUE ELSE UNCHANGED state

Next ==
    /\ UNCHANGED machine
    /\ \/ machine = "goal" /\ Goal!Next
       \/ machine = "realm" /\ Realm!Next
       \/ machine = "plugins" /\ Plugin!Next
       \/ machine = "host" /\ Plugin!HostNext
       \/ machine = "workshop" /\ Codes!WorkshopNext
       \/ machine = "codes" /\ Codes!Next
       \/ machine = "memory" /\ Memory!Next
       \/ machine = "health" /\ Safe!Next
       \/ machine = "release" /\ Safe!ReleaseNext
       \/ machine = "roles" /\ Control!RoleNext
       \/ machine = "control" /\ Control!Next
       \/ machine = "sync" /\ Sync!Next
       \/ machine = "fabric" /\ Fabric!FabricNext
       \/ machine = "exchange" /\ Fabric!ExchangeNext
       \/ machine = "egress" /\ Egress!Next
       \/ machine = "policy" /\ Policy!Next
       \/ machine = "models" /\ Model!Next
       \/ machine = "stream" /\ Model!StreamNext
       \/ machine = "boxes" /\ Box!Next
       \/ machine = "spawned" /\ Spawned!Next
    /\ Unless("goal", goal) /\ Unless("realm", realm) /\ Unless("plugins", plugins)
    /\ Unless("host", host) /\ Unless("codes", codes)
    /\ machine = "codes" \/ Unless("workshop", workshop)
    /\ Unless("memory", memory) /\ Unless("health", health) /\ Unless("release", release)
    /\ Unless("roles", roles) /\ Unless("control", control) /\ Unless("sync", sync)
    /\ Unless("fabric", fabric) /\ Unless("exchange", exchange) /\ Unless("egress", egress)
    /\ Unless("policy", policy) /\ Unless("models", models) /\ Unless("stream", stream)
    /\ Unless("boxes", boxes) /\ Unless("spawned", spawned)

Spec == Init /\ [][Next]_vars

-----------------------------------------------------------------------------

TypeOK ==
    /\ Goal!TypeOK /\ Realm!TypeOK /\ Plugin!TypeOK /\ Plugin!HostTypeOK
    /\ Codes!TypeOK /\ Memory!TypeOK /\ Safe!TypeOK
    /\ Safe!ReleaseTypeOK /\ Control!RoleTypeOK /\ Control!TypeOK /\ Sync!TypeOK
    /\ Fabric!FabricTypeOK /\ Fabric!ExchangeTypeOK /\ Egress!TypeOK /\ Policy!TypeOK
    /\ Model!TypeOK /\ Model!StreamTypeOK /\ Box!TypeOK /\ Spawned!TypeOK

\* ready, delegate_task, submit_report and cancel of the orchestrator, submit
\* and admit_result of the realm: work begins after what it depends on, within
\* the grants of its goal, stops with its branch, and a task handed to another
\* machine comes to one end.
WorkIsGoverned ==
    /\ Goal!DependenciesFirst /\ Goal!CancelledBranchStops /\ Goal!AttenuatedAtWork
    /\ Realm!OneEndPerSubmission

\* mark_admitted and authorize of plugins, promote of candidates and of code
\* capsules, the circuit of the plugin host, the sandbox and its children: what
\* runs was vetted, stays within what was vetted, stops at its third failure or
\* its revocation, and what is told of a child is so.
OnlyVettedRuns ==
    /\ Plugin!AuthorizedWasVetted /\ Plugin!CircuitFollowsFailures
    /\ Codes!ActiveWasReviewed /\ Codes!ActiveWasPromoted
    /\ Box!RealmsAreConfined /\ Spawned!OutcomeIsTruthful

\* The supervisor's escalation, the update client's versions and rings, the
\* break-glass grants: an emergency keeps its protections, what is accepted only
\* goes forward, and a grant lasts as long as two operators said.
SafeguardsHold ==
    /\ Safe!SafetyIsKept /\ Safe!NoRollbackNoFreeze /\ Safe!RingRunsItsLast
    /\ Control!GlassIsDualControlled

\* Memories, chunks, records, sealed objects, tenants' planes and claimed roles:
\* what is answered is what was promoted, lives, was sealed so, is of the
\* asker, and is all of it.
AnswersAreDue ==
    /\ Memory!OneTruthPerKey /\ Memory!AnswersAreTruth
    /\ Fabric!IndexFindsTheLive /\ Fabric!AnswerIsPermitted
    /\ Fabric!RawIndexIsAuthoritative
    /\ Sync!OpenedAsSealed /\ Control!TenantsApart /\ Control!BundleIsTheClosure

\* The decision points: connections are covered by an authorization, decisions
\* by the sequences of their snapshot, model calls by the task's budget.
DecisionsBind ==
    /\ Egress!ConnectionIsCovered /\ Policy!SequencesDecide
    /\ Model!CallsAreAffordable /\ Model!StreamIsAccounted

\* Tasks, submissions, memories, versions, epochs and chunks: what ended, was
\* superseded or was revoked does not come back.
NothingComesBack ==
    /\ Goal!EndedStaysEnded /\ Realm!EndsOnce /\ Plugin!VersionsRise
    /\ Memory!NeverTruthAgain /\ Sync!EpochsRise /\ Fabric!GoneForGood
=============================================================================
