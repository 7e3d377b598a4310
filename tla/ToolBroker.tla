------------------------------ MODULE ToolBroker ------------------------------
(***************************************************************************)
(* ToolBroker::run (crates/tool-broker): a tool runs through EffectBroker, *)
(* and what it did to its overlay is recomputed from a checkpoint, before  *)
(* it is called verified; a mutating tool that fails is compensated.       *)
(*                                                                         *)
(* The broker owns the effect broker and one call runs at a time.  The     *)
(* overlay is a directory others may write in: an editor changes it, and   *)
(* may remove it, between any two steps.  Each reading of the overlay is   *)
(* one step.                                                               *)
(*                                                                         *)
(* What the owner does to the effect broker between calls (the time, its   *)
(* secrets, effects asked directly: effect_broker_mut) is left out here:   *)
(* it could only make the store refuse or repeat what every step may err   *)
(* at anyway.                                                              *)
(***************************************************************************)
EXTENDS EffectBroker

CONSTANTS
    Tools,      \* the invocations
    Paths,      \* paths of files in the overlay
    Hidden,     \* those under a .git directory, which no inventory enters
    Contents,   \* contents a file may have
    Indexes,    \* states of a Git index
    Starts,     \* what the overlay may hold at first
    MaxRuns,    \* bound: calls of run
    MaxUpsets   \* bound: what others do to the overlay, and deaths

Absent == "absent"
Torn == "torn"  \* what a write that failed part-way leaves
NoRepository == "no repository"
NoTool == <<>>

Kinds == {"hash", "stat", "git", "patch", "shell"}

\* hash stands for read, git for git_status and git_diff, shell for test.
\* wellformed: action, plan, overlay root and its mount fit the contract.
ToolType ==
    [effect : Effects, kind : Kinds, wellformed : BOOLEAN, path : Paths,
     before : Contents, after : Contents, declared : SUBSET Paths, expect : BOOLEAN]

ASSUME ToolAssumption ==
    /\ Tools \subseteq ToolType
    /\ Effects = {t.effect : t \in Tools}
    /\ Starts \subseteq [files : [Paths -> Contents \cup {Absent}],
                       index : Indexes \cup {NoRepository}]
    /\ {Absent, Torn} \cap Contents = {} /\ NoRepository \notin Indexes
    /\ Hidden \subseteq Paths
    /\ MaxRuns \in Nat /\ MaxUpsets \in Nat

VARIABLES
    \* the overlay
    files,      \* Paths -> its content, or Absent
    link,       \* it has an entry visit_files refuses: a symbolic link, say
    index,      \* the state of its Git index
    root,       \* its directory exists
    \* of ToolBroker
    phase,      \* the next step of run, "idle" between calls
    tool,       \* the invocation, or the last one
    lock,       \* WorktreeManager holds the lock of the overlay
    checkpoint, \* the Checkpoint of the call: files and git digest
    verdict,    \* what verify found
    report,     \* what run returns: [kind, compensated]
    \* history and bounds
    touched,    \* others changed the overlay since the call began
    vanished,   \* the directory was once removed in this life
    runs, upsets

broker == <<ledger, at, call, granted, answer, exit, policy, consumed, secrets, realms,
            clock, calls, life, undone, performed>>
overlay == <<files, link, index, root>>
unledgered == <<at, call, granted, answer, exit, policy, consumed, secrets, realms,
                clock, calls, life, undone, performed>>
history == <<touched, vanished, runs, upsets>>
toolVars == <<broker, overlay, phase, tool, lock, checkpoint, verdict, report, history>>

-----------------------------------------------------------------------------
(* The overlay.                                                            *)

Empty == [p \in Paths |-> Absent]
Held == Contents \cup {Absent, Torn}
Seen == Paths \ Hidden

\* visit_files goes by every .git directory, and an error on its way makes the
\* inventory an empty one.
Inventory == [p \in Paths |-> IF link \/ p \in Hidden THEN Absent ELSE files[p]]

\* The digest of git status --porcelain, of nothing without a repository.
GitDigest == IF index = NoRepository THEN <<>> ELSE <<index, Inventory, link>>

\* Mutant: only what the later inventory lists is compared.
ChangedOfPresent == {p \in Paths : Inventory[p] \notin {Absent, checkpoint.files[p]}}

Changed == {p \in Paths : Inventory[p] # checkpoint.files[p]}

FileChange ==
    /\ \E p \in Paths, c \in Contents \cup {Absent} : files' = [files EXCEPT ![p] = c]
    /\ UNCHANGED <<index, root>>

IndexChange ==
    /\ index # NoRepository
    /\ index' \in Indexes
    /\ UNCHANGED <<files, link, root>>

\* What a confined child may do to a writable overlay: one execution writes and
\* removes any number of files, the repository's own among them.
ChildWrites ==
    /\ files' \in [Paths -> Held \ {Torn}]
    /\ link' \in BOOLEAN
    /\ index' \in Indexes \cup {NoRepository}
    /\ UNCHANGED root

-----------------------------------------------------------------------------
(* A call of run.                                                          *)

Mutating(t) == t.kind \in {"patch", "shell"}

Report(kind, compensated) == report' = [kind |-> kind, compensated |-> compensated]
NoReport == [kind |-> "none", compensated |-> FALSE]

Return(kind, compensated) ==
    /\ Report(kind, compensated)
    /\ phase' = "idle"

\* release finds the lock by the canonical path: it needs the directory.
Release == lock' = (lock /\ ~root)

Run(t) ==
    /\ phase = "idle"
    /\ runs < MaxRuns
    /\ runs' = runs + 1
    /\ tool' = t
    /\ touched' = FALSE
    /\ checkpoint' = [files |-> Empty, git |-> <<>>]
    /\ verdict' = "none"
    /\ \/ /\ ~t.wellformed \/ (Mutating(t) /\ ~root)
          /\ Return("Contract", FALSE)
          /\ UNCHANGED lock
       \/ /\ t.wellformed
          /\ Mutating(t) /\ root /\ lock
          /\ Return("Busy", FALSE)
          /\ UNCHANGED lock
       \/ /\ t.wellformed
          /\ Mutating(t) /\ root /\ ~lock
          /\ lock' = TRUE
          /\ phase' = "checkpoint" /\ report' = NoReport
       \/ /\ t.wellformed /\ ~Mutating(t)
          /\ phase' = "execute" /\ report' = NoReport
          /\ UNCHANGED lock
    /\ UNCHANGED <<broker, overlay, vanished, upsets>>

Capture ==
    /\ phase = "checkpoint"
    /\ root /\ ~link
    /\ checkpoint' = [files |-> Inventory, git |-> GitDigest]
    /\ phase' = "execute"
    /\ UNCHANGED <<broker, overlay, tool, lock, verdict, report, history>>

\* Mutant: the early return keeps the lock.
CaptureFailsLocked ==
    /\ phase = "checkpoint"
    /\ Return("Prepare", FALSE)
    /\ UNCHANGED <<broker, overlay, tool, lock, checkpoint, verdict, history>>

\* The directory is gone, has a link or cannot be read.
CaptureFails ==
    /\ phase = "checkpoint"
    /\ Release
    /\ Return("Prepare", FALSE)
    /\ UNCHANGED <<broker, overlay, tool, checkpoint, verdict, history>>

ExecuteEffect(g) ==
    /\ phase = "execute"
    /\ Call(tool.effect, g)
    /\ phase' = "executing"
    /\ UNCHANGED <<overlay, tool, lock, checkpoint, verdict, report, history>>

\* A step of EffectBroker::execute, which run waits for.
GovernTool ==
    /\ Govern
    /\ UNCHANGED <<overlay, phase, tool, lock, checkpoint, verdict, report, history>>

ChildMayWrite == phase = "executing" /\ Mutating(tool) /\ root

Child ==
    /\ \/ \E code \in {"zero", "nonzero"} : Exec(code)
       \/ ExecFails(TRUE)
    /\ IF ChildMayWrite THEN ChildWrites ELSE UNCHANGED overlay
    /\ UNCHANGED <<phase, tool, lock, checkpoint, verdict, report, history>>

NoChild ==
    /\ ExecFails(FALSE)
    /\ UNCHANGED <<overlay, phase, tool, lock, checkpoint, verdict, report, history>>

\* rollback: a mutating tool is compensated before run returns.
Rollback(kind) ==
    IF Mutating(tool) THEN phase' = "restore" /\ Report(kind, FALSE)
                      ELSE Return(kind, FALSE)

\* Mutant: run goes on with the outcome before execute has returned.
AnsweredEarly ==
    /\ phase = "executing" /\ (at = "idle" \/ exit # "none")
    /\ IF answer \in {"none", "Ok"} THEN phase' = "announce" /\ UNCHANGED report
                                   ELSE Rollback("Broker")
    /\ UNCHANGED <<broker, overlay, tool, lock, checkpoint, verdict, history>>

\* execute returned to run.
Answered ==
    /\ phase = "executing" /\ at = "idle"
    /\ IF answer = "Ok" THEN phase' = "announce" /\ UNCHANGED report
                        ELSE Rollback("Broker")
    /\ UNCHANGED <<broker, overlay, tool, lock, checkpoint, verdict, history>>

\* The verification is an intent of its own.
Announce ==
    /\ phase = "announce"
    /\ Accepted(IntentFact("verify", tool.effect, call.now))
    /\ phase' = "verify"
    /\ UNCHANGED <<unledgered, overlay, tool, lock, checkpoint, verdict, report, history>>

AnnounceFails ==
    /\ phase = "announce"
    /\ Rollback("Broker")
    /\ UNCHANGED <<broker, overlay, tool, lock, checkpoint, verdict, history>>

\* Declared outputs must exist; what changed must be declared; a drift of the
\* index is the tool's only when no file changed.
DeltaVerdict ==
    IF \E p \in tool.declared : Inventory[p] = Absent THEN "non_retriable"
    ELSE IF Changed \subseteq tool.declared /\ ~(Changed = {} /\ checkpoint.git # GitDigest)
         THEN "passed" ELSE "needs_reconcile"

\* A captured file must be of the declared content; one that is new may be.
Stale == checkpoint.files[tool.path] \notin {tool.before, Absent}

\* What refutes the tool whatever else it changed.
Refuted ==
    CASE tool.kind \in {"hash", "stat"} -> files[tool.path] = Absent
      [] tool.kind = "git" -> exit # "zero"
      [] tool.kind = "shell" -> tool.expect /\ exit # "zero"
      [] tool.kind = "patch" -> Stale \/ files[tool.path] # tool.after

VerifyVerdict ==
    CASE Refuted -> "non_retriable"
      [] ~Refuted /\ ~Mutating(tool) -> "passed"
      [] OTHER -> DeltaVerdict

Verify ==
    /\ phase = "verify"
    /\ verdict' = VerifyVerdict
    /\ phase' = "record"
    /\ UNCHANGED <<broker, overlay, tool, lock, checkpoint, report, history>>

VerifyResult == IF verdict = "passed" THEN "completed" ELSE verdict

\* The result of the verification is durable before run says anything.
Conclude ==
    /\ phase = "record"
    /\ Accepted(ResultFact("verify", tool.effect, VerifyResult, call.now))
    /\ IF verdict = "passed"
       THEN /\ Return("verified", FALSE)
            /\ IF Mutating(tool) THEN Release ELSE UNCHANGED lock
       ELSE Rollback("failed") /\ UNCHANGED lock
    /\ UNCHANGED <<unledgered, overlay, tool, checkpoint, verdict, history>>

ConcludeFails ==
    /\ phase = "record"
    /\ Rollback("Broker")
    /\ UNCHANGED <<broker, overlay, tool, lock, checkpoint, verdict, history>>

\* restore: what the inventory shows beyond the snapshot is removed, then what
\* was captured is written again.
Extra == {p \in Paths : checkpoint.files[p] = Absent /\ Inventory[p] # Absent}
Captured == {p \in Paths : checkpoint.files[p] # Absent}

PutBack(done) == [p \in Paths |-> IF p \in done THEN checkpoint.files[p] ELSE files[p]]

\* It stops at the first file it cannot remove, or cannot write: fs::write has
\* truncated that one, if it could open it.
Stopped ==
    \/ \E done \in SUBSET Extra : files' = PutBack(done)
    \/ \E done \in SUBSET Captured :
          \/ files' = PutBack(Extra \cup done)
          \/ \E p \in Captured : files' = [PutBack(Extra \cup done) EXCEPT ![p] = Torn]

Restore ==
    /\ phase = "restore"
    /\ root
    /\ files' = PutBack(Extra \cup Captured)
    /\ phase' = "compare"
    /\ UNCHANGED <<broker, link, index, root, tool, lock, checkpoint, verdict, report, history>>

\* Mutant: a restoration counts when it was begun.
RestoreFailsClaimed ==
    /\ phase = "restore"
    /\ IF root THEN Stopped ELSE UNCHANGED files
    /\ Release
    /\ Return(report.kind, TRUE)
    /\ UNCHANGED <<broker, link, index, root, tool, checkpoint, verdict, history>>

\* The directory is gone, or a file cannot be removed or written.
RestoreFails ==
    /\ phase = "restore"
    /\ IF root THEN Stopped ELSE UNCHANGED files
    /\ Release
    /\ Return(report.kind, FALSE)
    /\ UNCHANGED <<broker, link, index, root, tool, checkpoint, verdict, history>>

\* Only the inventory tells whether it is restored.
Compare ==
    /\ phase = "compare"
    /\ Release
    /\ Return(report.kind, Inventory = checkpoint.files)
    /\ UNCHANGED <<broker, overlay, tool, checkpoint, verdict, history>>

-----------------------------------------------------------------------------
(* Others, and the end of the process.                                     *)

Upset ==
    /\ upsets < MaxUpsets
    /\ upsets' = upsets + 1

Elsewhere ==
    /\ touched' = TRUE
    /\ UNCHANGED <<broker, phase, tool, lock, checkpoint, verdict, report, runs>>

Edit ==
    /\ Upset /\ Elsewhere
    /\ root
    /\ \/ FileChange /\ UNCHANGED link
       \/ IndexChange
       \/ link' = ~link /\ UNCHANGED <<files, index, root>>
    /\ UNCHANGED vanished

Vanish ==
    /\ Upset /\ Elsewhere
    /\ root
    /\ root' = FALSE /\ files' = Empty /\ link' = FALSE /\ index' = NoRepository
    /\ vanished' = TRUE

Reappear ==
    /\ Elsewhere
    /\ ~root
    /\ root' = TRUE
    /\ UNCHANGED <<files, link, index, vanished, upsets>>

\* A death may come while the overlay is being restored.
ToolDie ==
    /\ Upset
    /\ Die
    /\ IF phase = "restore" /\ root THEN Stopped ELSE UNCHANGED files
    /\ phase' = "idle"
    /\ lock' = FALSE
    /\ report' = NoReport
    /\ vanished' = FALSE
    /\ UNCHANGED <<link, index, root, tool, checkpoint, verdict, touched, runs>>

-----------------------------------------------------------------------------
ToolInit ==
    /\ Init
    /\ \E start \in Starts : files = start.files /\ index = start.index
    /\ link = FALSE
    /\ root = TRUE
    /\ phase = "idle"
    /\ tool = NoTool
    /\ lock = FALSE
    /\ checkpoint = [files |-> Empty, git |-> <<>>]
    /\ verdict = "none"
    /\ report = NoReport
    /\ touched = FALSE
    /\ vanished = FALSE
    /\ runs = 0
    /\ upsets = 0

Lifecycle ==
    \/ \E t \in Tools : at = "idle" /\ Run(t)
    \/ \E g \in Grants \cup {NoGrant} : ExecuteEffect(g)
    \/ Capture \/ CaptureFails \/ Answered \/ Announce \/ AnnounceFails \/ Verify
    \/ Conclude \/ ConcludeFails \/ Restore \/ RestoreFails \/ Compare

ToolNext ==
    \/ Lifecycle \/ GovernTool \/ Child \/ NoChild
    \/ Edit \/ Vanish \/ Reappear
    \/ ToolDie

ToolSpec == ToolInit /\ [][ToolNext]_toolVars
-----------------------------------------------------------------------------
(* Properties.                                                             *)

Phases == {"idle", "checkpoint", "execute", "executing", "announce", "verify",
           "record", "restore", "compare"}

\* Every variable holds a value of its kind, and the effect broker is at rest
\* unless run is in its execute.
ToolTypeOK ==
    /\ TypeOK
    /\ files \in [Paths -> Held]
    /\ link \in BOOLEAN /\ root \in BOOLEAN /\ lock \in BOOLEAN
    /\ index \in {NoRepository} \cup Indexes
    /\ phase \in Phases
    /\ tool = NoTool => phase = "idle"
    /\ tool # NoTool => tool \in Tools
    /\ checkpoint.files \in [Paths -> Held]
    /\ verdict \in {"none", "passed", "non_retriable", "needs_reconcile"}
    /\ report \in [kind : {"none", "Contract", "Busy", "Prepare", "Broker", "verified",
                           "failed"}, compensated : BOOLEAN]
    /\ phase \notin {"idle", "executing"} => at = "idle"

Settled == phase = "idle" /\ tool # NoTool /\ ~touched

ReallyChanged == {p \in Seen : files[p] # checkpoint.files[p]}

\* "A tool can never forge success": verified says that effect and verification
\* are in the log as intended and completed, and that the overlay is what the
\* tool declared, as long as nobody else wrote in it.  A link hides the files
\* beside it from the inventory, as a .git directory hides its own: these are
\* the exceptions.
VerifiedTruthful ==
    Settled /\ report.kind = "verified" =>
        /\ Stands(IntentFact("verify", tool.effect, call.now))
        /\ Stands(ResultFact("verify", tool.effect, "completed", call.now))
        /\ Stands(ResultFact("effect", tool.effect, "completed", call.now))
        /\ Ran
        /\ tool.kind = "git" \/ (tool.kind = "shell" /\ tool.expect) => exit = "zero"
        /\ tool.kind \in {"hash", "stat"} => files[tool.path] # Absent
        /\ Mutating(tool) /\ ~link =>
            /\ ReallyChanged \subseteq tool.declared
            /\ \A p \in tool.declared : files[p] # Absent
        /\ tool.kind = "patch" =>
            /\ files[tool.path] = tool.after
            /\ checkpoint.files[tool.path] \in {tool.before, Absent}

\* A tool that failed leaves the files of the checkpoint as they were, as long
\* as nobody else wrote in the overlay, if it says that it compensated; and if
\* its effect did not run, all but the one a failing restoration tore.  What no
\* inventory sees is nowhere restored.
FailedLeavesCheckpoint ==
    Settled /\ Mutating(tool) =>
        /\ report.compensated /\ ~link => ReallyChanged = {}
        /\ report.kind = "Broker" /\ ~Ran =>
             \A p, q \in ReallyChanged : p = q /\ files[p] = Torn

\* The lock is held by exactly the mutating calls, from before the checkpoint
\* to the return, unless the directory, and with it the name of the lock, was
\* removed meanwhile: then it is never given back.
LockIsOfTheCall ==
    /\ phase # "idle" /\ Mutating(tool) => lock
    /\ lock /\ ~vanished => phase # "idle" /\ Mutating(tool)

\* "Any undeclared change moves the worktree into NeedsReconcile": no tool is
\* verified that changed a file it did not declare.
UndeclaredNeverVerified ==
    Settled /\ report.kind = "verified" /\ Mutating(tool) =>
        ReallyChanged \subseteq tool.declared
=============================================================================
