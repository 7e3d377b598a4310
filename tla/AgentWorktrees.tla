--------------------------- MODULE AgentWorktrees ---------------------------
(***************************************************************************)
(* The worktrees of delegated tasks (crates/saber-core/src/multi_agent.rs):*)
(* create_worktree records the event, then makes the directory, then       *)
(* writes the metadata beside it; quarantine moves the directory, then     *)
(* records it.  A request is named by its seed (task, owner, source,       *)
(* commit); it may be retried under its key or another, and the engine may *)
(* fail or be killed between any two steps.  The store has one writer.     *)
(***************************************************************************)
EXTENDS Integers, Sequences, FiniteSets

CONSTANTS
    Seeds,
    RequestKeys,    \* idempotency keys
    MaxFailures     \* bound: failures of the file system or of git, and kills

WorktreeAssumption ==
    MaxFailures \in Nat /\ \A s \in Seeds : s # "none"

NoRequest == [step |-> "idle", seed |-> "none", key |-> "none"]

VARIABLES
    is_git,         \* the source is a repository
    dirty,          \* and has changes that are not committed
    created,        \* worktree.created events: [key, seed, dirty]
    moved,          \* worktree.quarantined events: sets of seeds
    dirs,           \* Seeds -> "absent", "partial" or "whole"
    described,      \* directories with their metadata
    unreviewed,     \* directories an agent changed
    quarantined,    \* Seeds -> what stands in the quarantine
    request,        \* the call in progress
    answered,       \* the last create that succeeded: {} or {seed}
    failures

vars == <<is_git, dirty, created, moved, dirs, described, unreviewed, quarantined, request,
          answered, failures>>

events == <<created, moved>>
worktrees == <<dirs, described, unreviewed, quarantined>>
source == <<is_git, dirty>>

Init ==
    /\ is_git \in BOOLEAN /\ dirty = FALSE
    /\ created = {} /\ moved = {}
    /\ dirs = [s \in Seeds |-> "absent"]
    /\ quarantined = [s \in Seeds |-> "absent"]
    /\ described = {} /\ unreviewed = {}
    /\ request = NoRequest /\ answered = {}
    /\ failures = 0

\* External: someone edits the source; an agent works in its worktree.
EditSource ==
    /\ is_git
    /\ dirty' = ~dirty
    /\ UNCHANGED <<is_git, events, worktrees, request, answered, failures>>

Work(s) ==
    /\ dirs[s] = "whole" /\ s \in described
    /\ unreviewed' = unreviewed \cup {s}
    /\ UNCHANGED <<source, events, dirs, described, quarantined, request, answered, failures>>

\* External: its change set is reviewed and committed.
Review(s) ==
    /\ s \in unreviewed
    /\ unreviewed' = unreviewed \ {s}
    /\ UNCHANGED <<source, events, dirs, described, quarantined, request, answered, failures>>

-----------------------------------------------------------------------------
(* create_worktree.                                                        *)

Seen(seed) == \E e \in created : e.seed = seed

\* Mutant: the key may be that of another event.
RecordCreatedUnkeyed(seed, key) ==
    /\ request = NoRequest
    /\ ~Seen(seed)
    /\ created' = created \cup {[key |-> key, seed |-> seed, dirty |-> dirty]}
    /\ request' = [step |-> "make", seed |-> seed, key |-> key]
    /\ answered' = {}
    /\ UNCHANGED <<source, moved, worktrees, failures>>

\* append_core_event of a new key; a new key for an event there is is an error.
RecordCreated(seed, key) ==
    /\ request = NoRequest
    /\ \A e \in created : e.key # key
    /\ ~Seen(seed)
    /\ created' = created \cup {[key |-> key, seed |-> seed, dirty |-> dirty]}
    /\ request' = [step |-> "make", seed |-> seed, key |-> key]
    /\ answered' = {}
    /\ UNCHANGED <<source, moved, worktrees, failures>>

\* The key again, with the same payload: the directory that is there, or none.
Replay(seed, key) ==
    /\ request = NoRequest
    /\ [key |-> key, seed |-> seed, dirty |-> dirty] \in created
    /\ answered' = IF dirs[seed] # "absent" THEN {seed} ELSE {}
    /\ UNCHANGED <<source, events, worktrees, request, failures>>

\* git worktree add, or the end of the copy.
Make ==
    /\ request.step = "make"
    /\ dirs' = [dirs EXCEPT ![request.seed] = "whole"]
    /\ request' = [request EXCEPT !.step = "describe"]
    /\ UNCHANGED <<source, events, described, unreviewed, quarantined, answered, failures>>

\* Both work file by file.
MakeSome ==
    /\ request.step = "make"
    /\ dirs' = [dirs EXCEPT ![request.seed] = "partial"]
    /\ UNCHANGED <<source, events, described, unreviewed, quarantined, request, answered,
                   failures>>

Describe ==
    /\ request.step = "describe"
    /\ described' = described \cup {request.seed}
    /\ answered' = {request.seed}
    /\ request' = NoRequest
    /\ UNCHANGED <<source, events, dirs, unreviewed, quarantined, failures>>

\* git worktree add fails: nothing of it is left.
GitFails ==
    /\ request.step = "make" /\ is_git /\ failures < MaxFailures
    /\ failures' = failures + 1
    /\ dirs' = [dirs EXCEPT ![request.seed] = "absent"]
    /\ request' = NoRequest /\ answered' = {}
    /\ UNCHANGED <<source, events, described, unreviewed, quarantined>>

\* Another error, or a kill: what was done stays done.
Fail ==
    /\ request # NoRequest /\ failures < MaxFailures
    /\ failures' = failures + 1
    /\ request' = NoRequest /\ answered' = {}
    /\ UNCHANGED <<source, events, worktrees>>

-----------------------------------------------------------------------------
(* quarantine_worktree.                                                    *)

\* Mutant: changes block nothing.
BlockedNever(s) == FALSE

\* git status: the metadata itself is a change git does not know.  Without a
\* repository there is no status, and nothing blocks.
Blocked(s) == is_git /\ (s \in unreviewed \cup described \/ dirs[s] = "partial")

\* The rename; the event comes after it.
MoveAway(s) ==
    /\ request = NoRequest
    /\ dirs[s] # "absent" /\ quarantined[s] = "absent" /\ ~Blocked(s)
    /\ quarantined' = [quarantined EXCEPT ![s] = dirs[s]]
    /\ dirs' = [dirs EXCEPT ![s] = "absent"]
    /\ request' = [step |-> "record", seed |-> s, key |-> "none"]
    /\ answered' = {}
    /\ UNCHANGED <<source, events, described, unreviewed, failures>>

RecordMoved ==
    /\ request.step = "record"
    /\ moved' = moved \cup {request.seed}
    /\ request' = NoRequest
    /\ UNCHANGED <<source, created, worktrees, answered, failures>>

Next ==
    \/ EditSource \/ Make \/ MakeSome \/ Describe \/ GitFails \/ Fail \/ RecordMoved
    \/ \E s \in Seeds :
        \/ Work(s) \/ Review(s) \/ MoveAway(s)
        \/ \E key \in RequestKeys : RecordCreated(s, key) \/ Replay(s, key)

Spec == Init /\ [][Next]_vars

-----------------------------------------------------------------------------

TypeOK ==
    /\ {is_git, dirty} \subseteq BOOLEAN
    /\ created \subseteq [key : RequestKeys, seed : Seeds, dirty : BOOLEAN]
    /\ \A e, f \in created : e.key = f.key => e = f
    /\ moved \subseteq Seeds
    /\ dirs \in [Seeds -> {"absent", "partial", "whole"}]
    /\ quarantined \in [Seeds -> {"absent", "partial", "whole"}]
    /\ described \subseteq Seeds /\ unreviewed \subseteq Seeds /\ answered \subseteq Seeds
    /\ request.step \in {"idle", "make", "describe", "record"}
    /\ failures \in 0..MaxFailures

\* create_worktree and quarantine_worktree: whatever fails, no directory stands
\* without the event that tells of it, one request never makes two, and what
\* was there is still there, in its place or in quarantine; in a repository,
\* quarantine holds no change that was not reviewed.
WorktreesAreTold ==
    /\ \A s \in Seeds :
        /\ dirs[s] # "absent" => Seen(s)
        /\ s \in described => "whole" \in {dirs[s], quarantined[s]}
        /\ ~(dirs[s] # "absent" /\ quarantined[s] # "absent")
        /\ is_git /\ s \in unreviewed => dirs[s] = "whole"
    /\ \A e, f \in created : e.seed = f.seed => e = f
    /\ \A s \in moved : quarantined[s] # "absent"

\* "Idempotent replay: the original request already created the worktree"
\* (multi_agent.rs): what a create answered with is whole, with its metadata.
AnsweredIsWhole == \A s \in answered : dirs[s] = "whole" /\ s \in described

-----------------------------------------------------------------------------
(***************************************************************************)
(* Delegation between runs (crates/saber-core/src/multi_agent.rs):         *)
(* delegate_task reads the scope of the parent out of the event log, the   *)
(* first event that is of it, and appends the child's.  A parent is a run  *)
(* with a recorded binding, or a delegation; the identifier of a child     *)
(* contains its parent's, and parents are found by what contains them.     *)
(***************************************************************************)

CONSTANTS
    Runs,
    Within,         \* <<r, s>>: the text of run r is part of that of run s
    Capabilities,
    Platform,       \* the capabilities of a bound run
    Baseline,       \* and its budget, of one dimension: they are clamped alike
    Budgets,        \* budgets asked for; not to ask is to ask for the parent's
    MaxDepth,       \* bound: of delegations under delegations
    MaxEvents       \* bound: the log

ChildAssumption ==
    /\ Within \subseteq Runs \X Runs
    /\ Platform \subseteq Capabilities
    /\ Baseline \in Int /\ Budgets \subseteq Int
    /\ MaxDepth \in Nat /\ MaxEvents \in Nat

\* A name: a run, then the times of the delegations under it, outermost last.
Names == {<<r, <<>>>> : r \in Runs}
    \cup {<<r, times>> : r \in Runs, times \in UNION {[1..n -> 1..MaxEvents] : n \in 1..MaxDepth}}

VARIABLES
    log,            \* events: [type, name, parent, capabilities, budget]
    clock           \* at each delegation

childVars == <<log, clock>>

ChildInit == log = <<>> /\ clock = 1

\* Mutant: the parent's name is looked through for the event's.
ContainsSwapped(name, part) ==
    /\ part[1] = name[1] \/ (<<name[1], part[1]>> \in Within /\ name[2] = <<>>)
    /\ Len(name[2]) <= Len(part[2])
    /\ name[2] = SubSeq(part[2], 1, Len(name[2]))

\* String::contains, of delegation ids: "deleg-<parent>-<time>".
Contains(name, part) ==
    /\ name[1] = part[1] \/ (<<part[1], name[1]>> \in Within /\ part[2] = <<>>)
    /\ Len(part[2]) <= Len(name[2])
    /\ part[2] = SubSeq(name[2], 1, Len(part[2]))

\* What parent_scope stops at.
IsOf(event, parent) ==
    \/ event.type = "run.binding_recorded" /\ event.name = parent
    \/ event.type = "task.delegated" /\ Contains(event.name, parent)

\* parent_scope: none for a parent the log does not know.
Scope(parent) ==
    LET found == {i \in DOMAIN log : IsOf(log[i], parent)}
    IN  {log[i] : i \in {j \in found : \A k \in found : j <= k}}

Lesser(a, b) == IF a < b THEN a ELSE b

\* Another module's: a run starts, with its binding.
BindRun(r) ==
    /\ Len(log) < MaxEvents
    /\ \A i \in DOMAIN log : log[i].name # <<r, <<>>>>
    /\ log' = Append(log, [type |-> "run.binding_recorded", name |-> <<r, <<>>>>,
                           parent |-> <<r, <<>>>>, capabilities |-> Platform,
                           budget |-> Baseline])
    /\ UNCHANGED clock

\* delegate_task; two under one parent in one millisecond have one event id,
\* so the second errs.
DelegateTask(parent, capabilities, budget) ==
    /\ Len(log) < MaxEvents /\ Len(parent[2]) < MaxDepth
    /\ \E scope \in Scope(parent) :
        /\ capabilities \subseteq scope.capabilities
        /\ log' = Append(log, [type |-> "task.delegated",
                               name |-> <<parent[1], Append(parent[2], clock)>>,
                               parent |-> parent, capabilities |-> capabilities,
                               budget |-> Lesser(budget, scope.budget)])
    /\ clock' = clock + 1

ChildNext ==
    \/ \E r \in Runs : BindRun(r)
    \/ \E parent \in Names, capabilities \in SUBSET Capabilities, budget \in Budgets :
        DelegateTask(parent, capabilities, budget)

ChildSpec == ChildInit /\ [][ChildNext]_childVars

-----------------------------------------------------------------------------

ChildTypeOK ==
    /\ log \in Seq([type : {"run.binding_recorded", "task.delegated"}, name : Names,
                    parent : Names, capabilities : SUBSET Capabilities, budget : Int])
    /\ clock \in 1..MaxEvents + 1

\* delegate_task: "the child capability set, budgets [...] can NEVER widen the
\* parent's": each child is within the delegation, or the binding, that has its
\* parent's very name, and so within the platform, however long the chain.
ChildrenNarrow ==
    \A i \in DOMAIN log :
        /\ log[i].capabilities \subseteq Platform /\ log[i].budget <= Baseline
        /\ \A j \in 1..i - 1 :
            log[j].name = log[i].parent =>
                /\ log[i].capabilities \subseteq log[j].capabilities
                /\ log[i].budget <= log[j].budget

\* The same: a child has a parent.
ParentsExist ==
    \A i \in DOMAIN log :
        log[i].type = "task.delegated" => \E j \in 1..i - 1 : log[j].name = log[i].parent

-----------------------------------------------------------------------------
(***************************************************************************)
(* Integration (integrate): the first worktree is copied into a review     *)
(* worktree, the files of the others are added to it unless something is   *)
(* there already, and the outcome is recorded.  A failure leaves the       *)
(* review worktree as it is, without an event; a retry makes another one.  *)
(***************************************************************************)
CONSTANTS
    Files,
    FileContents,
    Unwalked,       \* files under a .git or a node_modules directory
    PassedOver,     \* the metadata file, and every path that begins with ".git"
    SourceTrees,    \* what a worktree to integrate may hold
    MaxSources      \* bound: worktrees to integrate

NoFile == "absent"
WorktreeFiles == [Files -> FileContents \cup {NoFile}]

IntegrationAssumption ==
    /\ NoFile \notin FileContents /\ MaxSources \in Nat
    /\ Unwalked \subseteq Files /\ PassedOver \subseteq Files
    /\ SourceTrees \subseteq WorktreeFiles

VARIABLES
    sources,        \* the worktrees, in the order given
    review,         \* the review worktree
    place,          \* [source, todo]: the source being walked, its files left
    applied,        \* files added
    overlapping,    \* files that were there
    integrated      \* worktree.integrated: {} or {conflicts_detected}

integrationVars == <<sources, review, place, applied, overlapping, integrated>>

\* walk_files.
FilesOf(t) == {f \in Files \ Unwalked : t[f] # NoFile}

\* What is taken of the i-th worktree.
TakenOf(i) == IF i = 1 THEN FilesOf(sources[1]) ELSE FilesOf(sources[i]) \ PassedOver

IntegrationInit ==
    /\ sources \in UNION {[1..n -> SourceTrees] : n \in 2..MaxSources}
    /\ review = [f \in Files |-> NoFile]
    /\ place = [source |-> 1, todo |-> TakenOf(1)]
    /\ applied = {} /\ overlapping = {} /\ integrated = {}

\* copy_tree, of the first.
CopyFirst(f) ==
    /\ place.source = 1 /\ f \in place.todo
    /\ review' = [review EXCEPT ![f] = sources[1][f]]
    /\ place' = [place EXCEPT !.todo = @ \ {f}]
    /\ UNCHANGED <<sources, applied, overlapping, integrated>>

NextSource ==
    /\ place.todo = {} /\ place.source < Len(sources)
    /\ place' = [source |-> place.source + 1, todo |-> TakenOf(place.source + 1)]
    /\ UNCHANGED <<sources, review, applied, overlapping, integrated>>

\* Mutant: the last worktree to have a file wins.
AddFileOver(f) ==
    /\ place.source > 1 /\ f \in place.todo
    /\ review' = [review EXCEPT ![f] = sources[place.source][f]]
    /\ applied' = applied \cup {f}
    /\ place' = [place EXCEPT !.todo = @ \ {f}]
    /\ UNCHANGED <<sources, overlapping, integrated>>

AddFile(f) ==
    /\ place.source > 1 /\ f \in place.todo
    /\ IF review[f] # NoFile
       THEN overlapping' = overlapping \cup {f} /\ UNCHANGED <<review, applied>>
       ELSE /\ review' = [review EXCEPT ![f] = sources[place.source][f]]
            /\ applied' = applied \cup {f}
            /\ UNCHANGED overlapping
    /\ place' = [place EXCEPT !.todo = @ \ {f}]
    /\ UNCHANGED <<sources, integrated>>

RecordIntegrated ==
    /\ place.source = Len(sources) /\ place.todo = {} /\ integrated = {}
    /\ integrated' = {overlapping # {}}
    /\ UNCHANGED <<sources, review, place, applied, overlapping>>

IntegrationNext ==
    \/ NextSource \/ RecordIntegrated
    \/ \E f \in Files : CopyFirst(f) \/ AddFile(f)

IntegrationSpec == IntegrationInit /\ [][IntegrationNext]_integrationVars

-----------------------------------------------------------------------------

IntegrationTypeOK ==
    /\ sources \in Seq(WorktreeFiles) /\ review \in WorktreeFiles
    /\ place.source \in DOMAIN sources /\ place.todo \subseteq Files
    /\ {applied, overlapping} \subseteq SUBSET Files
    /\ integrated \subseteq BOOLEAN

\* integrate: "overlap detection before any merge": once recorded, a file taken
\* of any worktree is in the review as it is there, or is told to overlap; and
\* without a conflict, the review is what was taken of all of them.  What is
\* passed over comes of the first worktree alone, and what is not walked of none.
NothingLostInReview ==
    /\ integrated # {} =>
        \A i \in DOMAIN sources : \A f \in TakenOf(i) :
            review[f] = sources[i][f] \/ f \in overlapping
    /\ integrated = {FALSE} =>
        \A f \in Files : review[f] = NoFile <=> \A i \in DOMAIN sources : f \notin TakenOf(i)
    /\ \A f \in applied : review[f] # sources[1][f] /\ f \notin PassedOver
    /\ \A f \in Files : review[f] # NoFile => f \notin Unwalked

\* "The others apply on top with overlap detection" (multi_agent.rs), of every
\* file: not so of a .gitignore or a .github directory of a later worktree, which
\* is neither in the review nor told to overlap.
EveryFileIsTold ==
    integrated # {} =>
        \A i \in DOMAIN sources : \A f \in FilesOf(sources[i]) :
            review[f] = sources[i][f] \/ f \in overlapping
=============================================================================
