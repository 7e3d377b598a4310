----------------------------- MODULE Workspaces -----------------------------
(***************************************************************************)
(* What the service keeps for the worktrees it is given: the change set of *)
(* a run, the worktrees of its agents, the tasks it delegates, the capsules*)
(* a task is resumed from, the artifacts, the projection that is rebuilt   *)
(* from the log, and the endpoint it is asked at.  They keep apart in the  *)
(* code, each under a directory, a table or an event type of its own, so   *)
(* that what one may do does not depend on the others; a behaviour is that *)
(* of one of them, the "machine".                                          *)
(***************************************************************************)
EXTENDS Integers, Sequences, FiniteSets

CONSTANTS
    TreePaths, Contents, Skipped, Ignored, InitialTrees, MaxEdits, MaxCalls, \* ChangeSets
    Seeds, RequestKeys, MaxFailures,                                     \* AgentWorktrees
    Runs, Within, Capabilities, Platform, Baseline, Budgets, MaxDepth, MaxEvents,  \* AgentWorktrees
    Files, FileContents, Unwalked, PassedOver, SourceTrees, MaxSources,
    Paths, CapsuleContents, Lineages, Referenced, MaxCapsules,                  \* Resumption
    Writers, Commits, MaxBoxes,                                          \* StoreRecovery
    Cores, Clients, PageLimit, MaxStored,                                \* ControlEndpoint
    StoredRuns, Recoverers, MaxLog, MaxDrifts                            \* StoreRecovery

VARIABLES
    machine,
    changes_tree, changes_copies, changes_manifest, changes_touched, changes_staged, changes_head,
    changes_disclosed, changes_call, changes_answer, changes_calls, changes_edits, changes_raced,
    trees_is_git, trees_dirty, trees_created, trees_moved, trees_dirs, trees_described,
    trees_unreviewed, trees_quarantined, trees_request, trees_answered, trees_failures,
    children_log, children_clock,
    integration_sources, integration_review, integration_place, integration_applied,
    integration_overlapping, integration_integrated,
    capsules_files, capsules_capsules, capsules_report, capsules_continued,
    binding_address, binding_core, binding_raced,
    endpoint_thread, endpoint_opened, endpoint_spent, endpoint_engine, endpoint_store,
    endpoint_stored, endpoint_received, endpoint_told, endpoint_deaf,
    recovery_log, recovery_rows, recovery_recovery, recovery_reports, recovery_drifts,
    recovery_drifted, recovery_blamed,
    artifacts_files, artifacts_blobs, artifacts_artifacts, artifacts_writer, artifacts_boxes,
    artifacts_lost

Changes == INSTANCE ChangeSets WITH
    tree <- changes_tree, copies <- changes_copies, manifest <- changes_manifest,
    touched <- changes_touched, staged <- changes_staged, head <- changes_head,
    disclosed <- changes_disclosed, call <- changes_call, answer <- changes_answer,
    calls <- changes_calls, edits <- changes_edits, raced <- changes_raced, Paths <- TreePaths

Worktrees == INSTANCE AgentWorktrees WITH
    is_git <- trees_is_git, dirty <- trees_dirty, created <- trees_created, moved <- trees_moved,
    dirs <- trees_dirs, described <- trees_described, unreviewed <- trees_unreviewed,
    quarantined <- trees_quarantined, request <- trees_request, answered <- trees_answered,
    failures <- trees_failures, log <- children_log, clock <- children_clock,
    sources <- integration_sources, review <- integration_review, place <- integration_place,
    applied <- integration_applied, overlapping <- integration_overlapping,
    integrated <- integration_integrated

Capsules == INSTANCE Resumption WITH
    files <- capsules_files, capsules <- capsules_capsules, report <- capsules_report,
    continued <- capsules_continued, Contents <- CapsuleContents

Endpoint == INSTANCE ControlEndpoint WITH
    address <- binding_address, core <- binding_core, raced <- binding_raced,
    thread <- endpoint_thread, opened <- endpoint_opened, spent <- endpoint_spent,
    engine <- endpoint_engine, store <- endpoint_store, stored <- endpoint_stored,
    received <- endpoint_received, told <- endpoint_told, deaf <- endpoint_deaf

Store == INSTANCE StoreRecovery WITH
    log <- recovery_log, rows <- recovery_rows, recovery <- recovery_recovery,
    reports <- recovery_reports, drifts <- recovery_drifts, drifted <- recovery_drifted,
    blamed <- recovery_blamed, files <- artifacts_files, blobs <- artifacts_blobs,
    artifacts <- artifacts_artifacts, writer <- artifacts_writer, boxes <- artifacts_boxes,
    lost <- artifacts_lost, Runs <- StoredRuns, MaxEvents <- MaxLog

ASSUME WorkspacesAssumption ==
    /\ Changes!ChangeSetAssumption /\ Worktrees!WorktreeAssumption
    /\ Worktrees!IntegrationAssumption
    /\ Worktrees!ChildAssumption /\ Capsules!ResumptionAssumption
    /\ Store!RecoveryAssumption /\ Store!ArtifactsAssumption
    /\ Endpoint!EndpointAssumption

changes == <<changes_tree, changes_copies, changes_manifest, changes_touched, changes_staged,
           changes_head, changes_disclosed, changes_call, changes_answer, changes_calls,
           changes_edits, changes_raced>>

trees == <<trees_is_git, trees_dirty, trees_created, trees_moved, trees_dirs, trees_described,
         trees_unreviewed, trees_quarantined, trees_request, trees_answered, trees_failures>>

children == <<children_log, children_clock>>

integration == <<integration_sources, integration_review, integration_place, integration_applied,
               integration_overlapping, integration_integrated>>

capsules == <<capsules_files, capsules_capsules, capsules_report, capsules_continued>>

binding == <<binding_address, binding_core, binding_raced>>

endpoint == <<endpoint_thread, endpoint_opened, endpoint_spent, endpoint_engine, endpoint_store,
            endpoint_stored, endpoint_received, endpoint_told, endpoint_deaf>>

recovery == <<recovery_log, recovery_rows, recovery_recovery, recovery_reports, recovery_drifts,
            recovery_drifted, recovery_blamed>>

artifacts == <<artifacts_files, artifacts_blobs, artifacts_artifacts, artifacts_writer,
             artifacts_boxes, artifacts_lost>>

vars == <<machine, changes, trees, children, integration, capsules, artifacts, binding,
          endpoint, recovery>>

\* The choices the others have at the start are made at once.
Init ==
    /\ machine \in {"changes", "trees", "children", "integration", "capsules", "artifacts",
                    "binding", "endpoint", "recovery"}
    /\ Changes!Init
    /\ machine = "changes" \/ changes_tree = CHOOSE t \in InitialTrees : TRUE
    /\ Worktrees!Init
    /\ machine = "trees" \/ trees_is_git
    /\ Worktrees!ChildInit
    /\ integration_sources \in
        IF machine = "integration" THEN UNION {[1..n -> SourceTrees] : n \in 2..MaxSources}
        ELSE {[i \in {1, 2} |-> CHOOSE t \in SourceTrees : TRUE]}
    /\ Worktrees!IntegrationInit
    /\ Capsules!Init
    /\ machine = "capsules" \/ \A p \in Paths : capsules_files[p] = Capsules!Absent
    /\ Endpoint!BindInit
    /\ machine = "binding" \/ binding_address = "none"
    /\ Endpoint!Init
    /\ machine = "endpoint" \/ endpoint_stored = 0
    /\ Store!ArtifactsInit /\ Store!Init

Unless(chosen, state) == IF machine = chosen THEN TRUE ELSE UNCHANGED state

Next ==
    /\ UNCHANGED machine
    /\ \/ machine = "changes" /\ Changes!Next
       \/ machine = "trees" /\ Worktrees!Next
       \/ machine = "children" /\ Worktrees!ChildNext
       \/ machine = "integration" /\ Worktrees!IntegrationNext
       \/ machine = "capsules" /\ Capsules!Next
       \/ machine = "artifacts" /\ Store!ArtifactsNext
       \/ machine = "binding" /\ Endpoint!BindNext
       \/ machine = "endpoint" /\ Endpoint!Next
       \/ machine = "recovery" /\ Store!Next
    /\ Unless("changes", changes) /\ Unless("trees", trees)
    /\ Unless("children", children)
    /\ Unless("integration", integration) /\ Unless("capsules", capsules)
    /\ Unless("artifacts", artifacts)
    /\ Unless("binding", binding) /\ Unless("endpoint", endpoint) /\ Unless("recovery", recovery)

Spec == Init /\ [][Next]_vars

-----------------------------------------------------------------------------

TypeOK ==
    /\ Changes!TypeOK /\ Worktrees!TypeOK /\ Worktrees!ChildTypeOK
    /\ Worktrees!IntegrationTypeOK /\ Capsules!TypeOK /\ Store!ArtifactsTypeOK
    /\ Endpoint!BindTypeOK /\ Endpoint!TypeOK /\ Store!TypeOK

\* change_set, commit_change_set and rollback of a run: the lists add up to
\* what changed, what is committed is what was disclosed of every path that the
\* inventory and git both look at, and a rollback answers what it did.
ChangesAreTold ==
    /\ Changes!ChangeSetAddsUp /\ Changes!CommitsAreDisclosed /\ Changes!RollbackProves

\* create_worktree, quarantine_worktree, delegate_task, integrate, continue_from: the
\* log tells of each worktree, over failures and deaths between the event and
\* the directory; no chain of delegations widens; an integration loses no
\* file it takes untold; what is continued is the workspace that was captured.
AgentsAreHeld ==
    /\ Worktrees!WorktreesAreTold /\ Worktrees!ChildrenNarrow
    /\ Worktrees!NothingLostInReview /\ Capsules!ContinuedAsCaptured

\* commit_artifact, read_artifact, recover, bind_hardened and handle_connection:
\* what is recorded can be read, unless two writers raced for it, the runs table
\* is the replay of the log, or what it was once, one core serves a workspace, its mutexes come back, and who
\* follows the cursor has every event up to it.
StoreKeeps ==
    /\ Store!RecordedIsReadable /\ Store!RecoveryIsFaithful
    /\ Endpoint!OneCoreServes /\ Endpoint!LocksComeBack /\ Endpoint!FollowersMissNothing
=============================================================================
