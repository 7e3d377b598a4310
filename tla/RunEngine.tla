------------------------------- MODULE RunEngine -------------------------------
(***************************************************************************)
(* The governed run engine of `saber-core serve` (saber-core/src/          *)
(* run_engine.rs) over the fact store.                                     *)
(*                                                                         *)
(* Every call holds the engine and the store mutex from its first step to  *)
(* its answer, so calls do not interleave; but a call is a sequence of     *)
(* separate store transactions and of effects on the worktree.  Between    *)
(* any two of them the process may die, and any write may fail (another    *)
(* process has the database, the disk is full), which ends the call with   *)
(* an error and leaves what was done so far.  job says which step of which *)
(* call is next; index is the memory that a restart rebuilds from the log. *)
(*                                                                         *)
(* Identifiers that the code derives from the call's now_ms are taken to   *)
(* be fresh: no two calls run in the same millisecond.  The key a caller   *)
(* gives a resumption may be one it has used: it missed the answer, and    *)
(* asks again.  (A start asked again conflicts, its run id being another;  *)
(* a cancellation asked again finds the run terminal.)                     *)
(***************************************************************************)
EXTENDS Naturals, Sequences, FiniteSets

CONSTANTS
    Runs, NoRun,
    Plans,       \* what a caller may freeze: [steps, checks], the second being the
                 \* acceptance of the goal the plan is for; ids may repeat in both
    StepIds,     \* of steps, and of checks
    MaxPlans,    \* bounds: plans frozen,
    MaxCalls,    \*   calls made on runs, decisions aside,
    MaxFaults    \*   errors, deaths and expiries

NoStep == "-"
Terminal == {"succeeded", "failed", "cancelled"}
States == {"queued", "running", "blocked"} \cup Terminal
Kinds == {"file.read", "file.edit", "command.run", "network"}
CheckKinds == {"file_contains", "command_succeeds", "unknown"}

StepType == [id : StepIds, kind : Kinds]
CheckType == [id : StepIds, kind : CheckKinds]

ASSUME EngineAssumption ==
    /\ NoRun \notin Runs /\ NoStep \notin StepIds
    /\ MaxPlans \in Nat /\ MaxCalls \in Nat /\ MaxFaults \in Nat
    /\ \A plan \in Plans :
        /\ plan = [steps |-> plan.steps, checks |-> plan.checks]
        /\ plan.steps \in Seq(StepType) /\ plan.steps # <<>>
        /\ plan.checks \in Seq(CheckType) /\ plan.checks # <<>>

\* classify_effect.
Classify(kind) ==
    CASE kind = "file.read" -> "allowed"
      [] kind \in {"file.edit", "command.run"} -> "needs_approval"
      [] OTHER -> "denied"

VARIABLES
    log,        \* the engine's events, in the order of the store
    stored,     \* Runs -> state of the row in the store's runs table
    resumed,    \* Runs -> whether a resumption's key is spent, or answered again
    up,         \* the process is running
    index,      \* [plans, runs]: the engine's memory
    job,        \* the next step of the call under way
    performed,  \* effects of steps performed on the worktree, oldest first (history)
    verified,   \* commands the verifier has run there, oldest first (history)
    cards,      \* approval cards issued: the next card's identity
    expired,    \* cards past their expires_at_ms
    calls, faults

durable == <<log, stored, resumed>>
vars == <<log, stored, resumed, up, index, job, performed, verified, cards, expired, calls,
          faults>>

-----------------------------------------------------------------------------
(* Events, and what replaying one does to the index.                       *)

NoCard == [id |-> 0, step |-> NoStep]

Event(type, r) == [type |-> type, run |-> r, step |-> NoStep, to |-> "-",
                   card |-> NoCard, plan |-> <<>>, version |-> 0]
StepEvent(type, r, s) == [Event(type, r) EXCEPT !.step = s]
CardEvent(type, r, c) == [Event(type, r) EXCEPT !.card = c]
StateEvent(r, s) == [Event("run.state_changed", r) EXCEPT !.to = s]
BindingEvent(r, v) == [Event("run.binding_recorded", r) EXCEPT !.version = v]
PlanEvent(plan) == [Event("plan.frozen", NoRun) EXCEPT !.plan = <<plan>>]

Unknown == [workspace |-> "", version |-> 0, state |-> "absent",
            remaining |-> <<>>, pending |-> NoCard, resolved |-> {}]

EmptyIndex == [hint |-> "", plans |-> <<>>, runs |-> [r \in Runs |-> Unknown]]

Known(ix, r) == ix.runs[r].state # "absent"

\* remove_step: Vec::retain, which drops every step of the id.
WithoutStep(steps, s) ==
    LET kept[n \in 0..Len(steps)] ==
            IF n = 0 THEN <<>>
            ELSE IF steps[n].id = s THEN kept[n - 1]
            ELSE Append(kept[n - 1], steps[n])
    IN  kept[Len(steps)]

\* Mutant: a completed step stays in the plan.
RecordAfterKeepsStep(rec, e) ==
    CASE e.type = "run.state_changed" ->
            [rec EXCEPT !.state = e.to,
                        !.pending = IF e.to = "running" THEN NoCard ELSE @]
      [] e.type = "run.waiting_approval" -> [rec EXCEPT !.pending = e.card]
      [] e.type \in {"run.approved", "run.refused", "run.undecided"} ->
            [rec EXCEPT !.pending = NoCard, !.resolved = @ \cup {e.card.id}]
      [] e.type \in {"run.effect_denied", "run.effect_denied_by_policy"} ->
            [rec EXCEPT !.remaining = WithoutStep(@, e.step)]
      [] OTHER -> rec

\* Mutant: a resolved card stays pending.
RecordAfterKeepsCard(rec, e) ==
    CASE e.type = "run.state_changed" ->
            [rec EXCEPT !.state = e.to,
                        !.pending = IF e.to = "running" THEN NoCard ELSE @]
      [] e.type = "run.waiting_approval" -> [rec EXCEPT !.pending = e.card]
      [] e.type \in {"run.effect_completed", "run.effect_denied",
                     "run.effect_denied_by_policy"} ->
            [rec EXCEPT !.remaining = WithoutStep(@, e.step)]
      [] OTHER -> rec

\* What the record of a run becomes.
RecordAfter(rec, e) ==
    CASE e.type = "run.state_changed" ->
            [rec EXCEPT !.state = e.to,
                        !.pending = IF e.to = "running" THEN NoCard ELSE @]
      [] e.type = "run.waiting_approval" -> [rec EXCEPT !.pending = e.card]
      [] e.type \in {"run.approved", "run.refused", "run.undecided"} ->
            [rec EXCEPT !.pending = NoCard, !.resolved = @ \cup {e.card.id}]
      [] e.type \in {"run.effect_completed", "run.effect_denied",
                     "run.effect_denied_by_policy"} ->
            [rec EXCEPT !.remaining = WithoutStep(@, e.step)]
      [] OTHER -> rec

\* apply_event.
Apply(ix, e) ==
    CASE e.type = "plan.frozen" -> [ix EXCEPT !.plans = Append(@, Head(e.plan))]
      [] e.type = "run.binding_recorded" ->
            [ix EXCEPT !.runs[e.run] = [@ EXCEPT !.workspace = ix.hint,
                                                 !.version = e.version,
                                                 !.remaining = ix.plans[e.version].steps,
                                                 !.state = "queued"]]
      [] e.run \in Runs /\ Known(ix, e.run) ->
            [ix EXCEPT !.runs[e.run] = RecordAfter(@, e)]
      [] OTHER -> ix

\* rebuild: the workspace hint is not known to a new process.
Rebuild(events) ==
    LET after[n \in 0..Len(events)] ==
            IF n = 0 THEN EmptyIndex ELSE Apply(after[n - 1], events[n])
    IN  after[Len(events)]

-----------------------------------------------------------------------------
(* The steps calls are made of.                                            *)

Idle == [at |-> "idle", run |-> NoRun, card |-> NoCard, version |-> 0,
         parent |-> NoRun, check |-> 1, passed |-> TRUE, key |-> "fresh"]

Rec == index.runs[job.run]
Next1 == Head(Rec.remaining)

At(place) == up /\ job.at = place
Go(place) == job' = [job EXCEPT !.at = place]
Return == job' = Idle

\* append: one transaction of the store, then apply_event.
Write(e) ==
    /\ log' = Append(log, e)
    /\ index' = Apply(index, e)

ValidTransition(current, target) ==
    <<current, target>> \in
        ({"queued"}  \X {"running", "cancelled"}) \cup
        ({"running"} \X {"blocked", "succeeded", "failed", "cancelled"}) \cup
        ({"blocked"} \X {"running", "failed", "cancelled"})

\* transition_run refuses a foreign workspace and an illegal transition.
CanMove(target) ==
    /\ Rec.workspace = "ws"
    /\ ValidTransition(stored[job.run], target)

\* Mutant: the engine keeps the card of a run it sets going again.
MovedKeepsCard(rec, target) == [rec EXCEPT !.state = target]

\* The engine's own record of a transition it has made.
Moved(rec, target) ==
    [rec EXCEPT !.state = target,
                !.pending = IF target = "running" THEN NoCard ELSE @]

\* transition: one transaction of the store over log and table, then memory.
Move(target) ==
    /\ CanMove(target)
    /\ log' = Append(log, StateEvent(job.run, target))
    /\ stored' = [stored EXCEPT ![job.run] = target]
    /\ index' = [index EXCEPT !.runs[job.run] = Moved(@, target)]

Quiet == UNCHANGED <<up, performed, verified, cards, expired, calls, faults>>

-----------------------------------------------------------------------------
(* The calls: their checks, up to the first write.                         *)

Call == up /\ job = Idle /\ calls < MaxCalls /\ calls' = calls + 1
Uncounted == up /\ job = Idle /\ UNCHANGED calls

\* create_goal, freeze_plan and start_run note the caller's workspace.
Noting == index' = [index EXCEPT !.hint = "ws"]

FreezePlan(plan) ==
    /\ Uncounted
    /\ Len(index.plans) < MaxPlans
    /\ log' = Append(log, PlanEvent(plan))
    /\ index' = Apply([index EXCEPT !.hint = "ws"], PlanEvent(plan))
    /\ UNCHANGED <<stored, resumed, up, job, performed, verified, cards, expired, faults>>

\* The id of a run is made of now_ms: one that no run has yet.
Begin(version, parent) ==
    LET unused == {r \in Runs : stored[r] = "absent"} IN
    /\ unused # {}
    /\ version \in 1..Len(index.plans)
    /\ Noting
    /\ job' = [Idle EXCEPT !.at = "create", !.run = CHOOSE r \in unused : TRUE,
                           !.version = version, !.parent = parent]
    /\ UNCHANGED <<durable, up, performed, verified, cards, expired, faults>>

StartRun(version) == Call /\ Begin(version, NoRun)

ForkRun(parent) ==
    /\ Call
    /\ Known(index, parent)
    /\ Begin(index.runs[parent].version, parent)

EnterWith(r, place, key) ==
    /\ Known(index, r)
    /\ job' = [Idle EXCEPT !.at = place, !.run = r, !.card = index.runs[r].pending,
                           !.key = key]
    /\ UNCHANGED <<durable, up, index, performed, verified, cards, expired, faults>>

Enter(r, place) == EnterWith(r, place, "fresh")

PauseRun(r) == Call /\ index.runs[r].state \in {"blocked", "queued"} /\ Enter(r, "pause")

SteerRun(r) == Call /\ Enter(r, "steer")

ResumeRun(r) ==
    /\ Call
    /\ index.runs[r].state = "blocked"
    /\ \/ EnterWith(r, "revalidate", "new")
       \/ resumed[r] # "no" /\ EnterWith(r, "revalidate", "used")

CancelRun(r) == Call /\ index.runs[r].state \notin Terminal /\ Enter(r, "propagate")

\* validate_approval: the caller presents the card that is pending now.
CardUsable(r) ==
    /\ index.runs[r].pending # NoCard
    /\ index.runs[r].pending.id \notin index.runs[r].resolved
    /\ index.runs[r].pending.id \notin expired

ResolveApproval(r, decision) ==
    /\ Uncounted
    /\ CardUsable(r)
    /\ Enter(r, decision)

-----------------------------------------------------------------------------
(* start_run and fork_run.                                                 *)

Create ==
    /\ At("create")
    /\ stored' = [stored EXCEPT ![job.run] = "queued"]
    /\ log' = Append(log, Event("run.queued", job.run))
    /\ Go("bind")
    /\ UNCHANGED <<resumed, index>> /\ Quiet

Bind ==
    /\ At("bind")
    /\ Write(BindingEvent(job.run, job.version))
    /\ Go("baseline")
    /\ UNCHANGED <<stored, resumed>> /\ Quiet

Baseline ==
    /\ At("baseline")
    /\ Write(Event("run.baseline_snapshot", job.run))
    /\ Go(IF job.parent = NoRun THEN "go" ELSE "lineage")
    /\ UNCHANGED <<stored, resumed>> /\ Quiet

Lineage ==
    /\ At("lineage")
    /\ Write(Event("run.forked", job.run))
    /\ Go("go")
    /\ UNCHANGED <<stored, resumed>> /\ Quiet

\* Into "running", then execute_pending.
GoOn ==
    /\ At("go") /\ job.key # "used"
    /\ Move("running")
    /\ resumed' = IF job.key = "new" THEN [resumed EXCEPT ![job.run] = "spent"] ELSE resumed
    /\ Go("pending")
    /\ Quiet

\* The key was used for this very transition: the store answers Replayed and
\* changes nothing; the engine takes its run to be running all the same.
GoOnReplayed ==
    /\ At("go") /\ job.key = "used"
    /\ Rec.workspace = "ws"
    /\ resumed' = [resumed EXCEPT ![job.run] = "replayed"]
    /\ index' = [index EXCEPT !.runs[job.run] = Moved(@, "running")]
    /\ Go("pending")
    /\ UNCHANGED <<log, stored>> /\ Quiet

-----------------------------------------------------------------------------
(* pause_run, steer_run, resume_run, cancel_run.                           *)

Note(place, type) ==
    /\ At(place)
    /\ Write(Event(type, job.run))
    /\ Return
    /\ UNCHANGED <<stored, resumed>> /\ Quiet

Pause == Note("pause", "run.paused")
Steer == Note("steer", "run.steered")

Revalidate ==
    /\ At("revalidate")
    /\ Write(Event("run.resume_revalidated", job.run))
    /\ Go("go")
    /\ UNCHANGED <<stored, resumed>> /\ Quiet

Propagate ==
    /\ At("propagate")
    /\ Write(Event("run.cancel_propagated", job.run))
    /\ Go("cancel")
    /\ UNCHANGED <<stored, resumed>> /\ Quiet

Cancel ==
    /\ At("cancel")
    /\ Move("cancelled")
    /\ Return
    /\ UNCHANGED resumed /\ Quiet

-----------------------------------------------------------------------------
(* resolve_approval: the resolution is recorded before anything else, also *)
(* when the decision is neither "approve" nor "deny".                      *)

Resolve(decision, type, place) ==
    /\ At(decision)
    /\ Write(CardEvent(type, job.run, job.card))
    /\ Go(place)
    /\ UNCHANGED <<stored, resumed>> /\ Quiet

Approve == Resolve("approve", "run.approved", "approved")
Refuse  == Resolve("deny", "run.refused", "refused")

Mumble ==
    /\ At("mumble")
    /\ Write(CardEvent("run.undecided", job.run, job.card))
    /\ Return
    /\ UNCHANGED <<stored, resumed>> /\ Quiet

\* Mutant: the call ends once the denial is recorded.
RefusedStops ==
    /\ At("refused")
    /\ Write(StepEvent("run.effect_denied", job.run, job.card.step))
    /\ Return
    /\ UNCHANGED <<stored, resumed>> /\ Quiet

\* A denied step is dropped and, unless the run has ended, the plan goes on.
Refused ==
    /\ At("refused")
    /\ Write(StepEvent("run.effect_denied", job.run, job.card.step))
    /\ Go(IF Rec.state = "blocked" THEN "go" ELSE "pending")
    /\ UNCHANGED <<stored, resumed>> /\ Quiet

IsApprovedStep(card) == Rec.remaining # <<>> /\ card.step = Next1.id

\* Mutant: the approved step is executed without the transition.
ApprovedUnmoved ==
    /\ At("approved")
    /\ IsApprovedStep(job.card)
    /\ Go("perform")
    /\ UNCHANGED <<durable, index>> /\ Quiet

\* An approved step must be the next one; execute_step follows.
Approved ==
    /\ At("approved")
    /\ IsApprovedStep(job.card)
    /\ Move("running")
    /\ Go("perform")
    /\ UNCHANGED resumed /\ Quiet

-----------------------------------------------------------------------------
(* execute_pending, execute_step, record_effect.                           *)

\* Mutant: one approval is good for the rest of the plan.
PendingOnceApproved ==
    /\ At("pending")
    /\ \/ /\ Rec.state # "running"
          /\ Return
       \/ /\ Rec.state = "running" /\ Rec.remaining = <<>>
          /\ Go("verify")
       \/ /\ Rec.state = "running" /\ Rec.remaining # <<>>
          /\ Go(CASE Classify(Next1.kind) = "denied" -> "prohibit"
                  [] Classify(Next1.kind) = "allowed" \/ Rec.resolved # {} -> "perform"
                  [] OTHER -> "block")
    /\ UNCHANGED <<durable, index>> /\ Quiet

Pending ==
    /\ At("pending")
    /\ \/ /\ Rec.state # "running"
          /\ Return
       \/ /\ Rec.state = "running" /\ Rec.remaining = <<>>
          /\ Go("verify")
       \/ /\ Rec.state = "running" /\ Rec.remaining # <<>>
          /\ Go(CASE Classify(Next1.kind) = "denied" -> "prohibit"
                  [] Classify(Next1.kind) = "allowed" -> "perform"
                  [] OTHER -> "block")
    /\ UNCHANGED <<durable, index>> /\ Quiet

Prohibit ==
    /\ At("prohibit")
    /\ Write(StepEvent("run.effect_denied_by_policy", job.run, Next1.id))
    /\ Go("pending")
    /\ UNCHANGED <<stored, resumed>> /\ Quiet

\* The effect itself, before any record of it.
Perform ==
    /\ At("perform")
    /\ performed' = Append(performed, [run |-> job.run, step |-> Next1.id,
                                       kind |-> Next1.kind, at |-> Len(log)])
    /\ Go("intent")
    /\ UNCHANGED <<durable, index, up, verified, cards, expired, calls, faults>>

\* Mutant: the result is not recorded.
IntentAlone ==
    /\ At("intent")
    /\ Write(StepEvent("effect.intent_recorded", job.run, Next1.id))
    /\ Go("completed")
    /\ UNCHANGED <<stored, resumed>> /\ Quiet

Intent ==
    /\ At("intent")
    /\ Write(StepEvent("effect.intent_recorded", job.run, Next1.id))
    /\ Go("result")
    /\ UNCHANGED <<stored, resumed>> /\ Quiet

Result ==
    /\ At("result")
    /\ Write(StepEvent("effect.result_recorded", job.run, Next1.id))
    /\ Go("completed")
    /\ UNCHANGED <<stored, resumed>> /\ Quiet

Completed ==
    /\ At("completed")
    /\ Write(StepEvent("run.effect_completed", job.run, Next1.id))
    /\ Go("pending")
    /\ UNCHANGED <<stored, resumed>> /\ Quiet

\* Mutant: the id of the card is that of the card before.
BlockSameCard ==
    /\ At("block")
    /\ Move("blocked")
    /\ job' = [job EXCEPT !.at = "wait", !.card = [id |-> cards + 1, step |-> Next1.id]]
    /\ UNCHANGED <<resumed, up, performed, verified, cards, expired, calls, faults>>

Block ==
    /\ At("block")
    /\ Move("blocked")
    /\ job' = [job EXCEPT !.at = "wait", !.card = [id |-> cards + 1, step |-> Next1.id]]
    /\ cards' = cards + 1
    /\ UNCHANGED <<resumed, up, performed, verified, expired, calls, faults>>

Wait ==
    /\ At("wait")
    /\ Write(CardEvent("run.waiting_approval", job.run, job.card))
    /\ Return
    /\ UNCHANGED <<stored, resumed>> /\ Quiet

-----------------------------------------------------------------------------
(* finish_run: each check of the goal's acceptance in turn is made and     *)
(* recorded, then the verdict, then the state.  The worktree may have been *)
(* changed by anyone.                                                      *)

Acceptance == index.plans[Rec.version].checks
CheckNow == Acceptance[job.check]

\* verify_acceptance: a command_succeeds check runs its command as it is, with
\* no card, no intent and no result; a command that cannot be run fails.
Verify ==
    /\ At("verify") /\ job.check <= Len(Acceptance)
    /\ \E ran, passed \in BOOLEAN :
        /\ ran => CheckNow.kind = "command_succeeds"
        /\ passed => ran \/ CheckNow.kind = "file_contains"
        /\ verified' = IF ran THEN Append(verified, [run |-> job.run, check |-> job.check])
                              ELSE verified
        /\ Go(IF passed THEN "passes" ELSE "fails")
    /\ UNCHANGED <<durable, index, up, performed, cards, expired, calls, faults>>

\* The outcome of the n-th check.
Outcome(n) ==
    [Event(IF job.at = "passes" THEN "run.acceptance_passed" ELSE "run.acceptance_failed",
           job.run) EXCEPT !.version = n]

\* The key of an outcome is made of the run, the check's id and now_ms.
SameKey == {n \in 1..(job.check - 1) : Acceptance[n].id = CheckNow.id}

NextCheck == job' = [job EXCEPT !.at = "verify", !.check = @ + 1,
                                !.passed = @ /\ job.at = "passes"]

Checked ==
    /\ up /\ job.at \in {"passes", "fails"} /\ SameKey = {}
    /\ Write(Outcome(job.check))
    /\ NextCheck
    /\ UNCHANGED <<stored, resumed>> /\ Quiet

\* A second check of the id, and the same outcome: the store answers Replayed.
CheckedAgain ==
    /\ up /\ job.at \in {"passes", "fails"}
    /\ \E n \in SameKey, i \in 1..Len(log) : log[i] = Outcome(n)
    /\ NextCheck
    /\ UNCHANGED <<durable, index>> /\ Quiet

Verdict ==
    /\ At("verify") /\ job.check > Len(Acceptance)
    /\ Write(Event(IF job.passed THEN "run.verdict_complete" ELSE "run.verdict_revise", job.run))
    /\ Go("finish")
    /\ UNCHANGED <<stored, resumed>> /\ Quiet

Finish ==
    /\ At("finish")
    /\ Move(IF job.passed THEN "succeeded" ELSE "failed")
    /\ Return
    /\ UNCHANGED resumed /\ Quiet

-----------------------------------------------------------------------------
(* What can go wrong.                                                      *)

Fault == faults < MaxFaults /\ faults' = faults + 1

\* The step under way returns an error: the store is busy or full, the
\* effect cannot be performed.  The call ends there.
StepFails ==
    /\ up /\ job # Idle /\ job.at # "pending"
    /\ job.at = "verify" => job.check > Len(Acceptance)
    /\ Fault
    /\ Return
    /\ UNCHANGED <<durable, up, index, performed, verified, cards, expired, calls>>

\* The store, or the check of the approved step, refuses the next step.
StepRefused ==
    /\ up /\ job # Idle
    /\ \/ job.at = "go" /\ job.key # "used" /\ ~CanMove("running")
       \/ job.at = "go" /\ job.key = "used" /\ Rec.workspace # "ws"
       \/ job.at = "approved" /\ ~(IsApprovedStep(job.card) /\ CanMove("running"))
       \/ job.at = "block" /\ ~CanMove("blocked")
       \/ job.at = "cancel" /\ ~CanMove("cancelled")
       \/ job.at = "finish" /\ ~CanMove(IF job.passed THEN "succeeded" ELSE "failed")
       \/ job.at \in {"passes", "fails"} /\ SameKey # {}  \* another payload under the key
    /\ Return
    /\ UNCHANGED <<durable, index>> /\ Quiet

\* Five minutes pass without a decision.
Expire(r) ==
    /\ up /\ job = Idle
    /\ index.runs[r].pending # NoCard /\ index.runs[r].pending.id \notin expired
    /\ Fault
    /\ expired' = expired \cup {index.runs[r].pending.id}
    /\ UNCHANGED <<durable, up, index, job, performed, verified, cards, calls>>

Die ==
    /\ up
    /\ Fault
    /\ up' = FALSE
    /\ Return
    /\ index' = EmptyIndex
    /\ UNCHANGED <<durable, performed, verified, cards, expired, calls>>

Restart ==
    /\ ~up
    /\ up' = TRUE
    /\ index' = Rebuild(log)
    /\ UNCHANGED <<durable, job, performed, verified, cards, expired, calls, faults>>

-----------------------------------------------------------------------------
Init ==
    /\ log = <<>>
    /\ stored = [r \in Runs |-> "absent"]
    /\ resumed = [r \in Runs |-> "no"]
    /\ up = TRUE
    /\ index = EmptyIndex
    /\ job = Idle
    /\ performed = <<>> /\ verified = <<>>
    /\ cards = 0
    /\ expired = {}
    /\ calls = 0 /\ faults = 0

\* What the process does by itself, once called.
Step ==
    \/ Create \/ Bind \/ Baseline \/ Lineage \/ GoOn \/ GoOnReplayed
    \/ Pause \/ Steer \/ Revalidate \/ Propagate \/ Cancel
    \/ Approve \/ Refuse \/ Mumble \/ Refused \/ Approved
    \/ Pending \/ Prohibit \/ Perform \/ Intent \/ Result \/ Completed
    \/ Block \/ Wait \/ Verify \/ Checked \/ CheckedAgain \/ Verdict \/ Finish \/ StepRefused

Calls ==
    \/ \E plan \in Plans : FreezePlan(plan)
    \/ \E v \in 1..MaxPlans : StartRun(v)
    \/ \E r \in Runs :
        \/ ForkRun(r)
        \/ PauseRun(r) \/ SteerRun(r) \/ ResumeRun(r) \/ CancelRun(r)
        \/ \E d \in {"approve", "deny", "mumble"} : ResolveApproval(r, d)

Next ==
    \/ Calls
    \/ Step
    \/ StepFails
    \/ \E r \in Runs : Expire(r)
    \/ Die
    \/ Restart

Spec == Init /\ [][Next]_vars

\* The thread that serves a call runs on; whoever is shown a card decides.
Fairness ==
    /\ WF_vars(Step)
    /\ \A r \in Runs : SF_vars(\E d \in {"approve", "deny"} : ResolveApproval(r, d))

FairSpec == Spec /\ Fairness

-----------------------------------------------------------------------------
(* Properties.                                                             *)

TypeOK ==
    /\ \A i \in 1..Len(log) : log[i].run \in Runs \cup {NoRun}
    /\ stored \in [Runs -> States \cup {"absent"}]
    /\ resumed \in [Runs -> {"no", "spent", "replayed"}]
    /\ up \in BOOLEAN
    /\ index.plans \in Seq(Plans)
    /\ \A r \in Runs :
        /\ index.runs[r].state \in States \cup {"absent"}
        /\ index.runs[r].version \in 0..MaxPlans
        /\ index.runs[r].resolved \subseteq 1..cards
    /\ job.run \in Runs \cup {NoRun}
    /\ ~up => job = Idle
    /\ cards \in Nat /\ expired \subseteq 1..cards
    /\ calls \in 0..MaxCalls /\ faults \in 0..MaxFaults

Bare(rec) == [rec EXCEPT !.workspace = ""]

\* The record of r is what replaying the log would make it (its workspace
\* aside), and in the state the store's own table shows.
Projected(rebuilt, r) ==
    /\ Bare(index.runs[r]) = Bare(rebuilt.runs[r])
    /\ Known(index, r) => index.runs[r].state = stored[r]

\* The memory is a projection, in every state of every call, crash and error:
\* as long as no resumption was asked again under a key already used.
IndexIsProjection ==
    up => LET rebuilt == Rebuild(log) IN
          /\ index.plans = rebuilt.plans
          /\ \A r \in Runs : resumed[r] # "replayed" => Projected(rebuilt, r)

\* "The in-memory index is a disposable projection" (run_engine.rs), whatever
\* is asked again.
AlwaysProjection == up => \A r \in Runs : Projected(Rebuild(log), r)

\* "The store is the single source of truth", "a rebuilt engine sees the
\* same truth": a process that dies and comes back between two calls knows
\* of every run what it knew before.
RestartTransparent ==
    up => \A r \in Runs : Rebuild(log).runs[r] = index.runs[r]

\* No retry, resumption, restart or second card makes an effect of a step
\* happen twice, nor makes the verifier run the command of a check again.
EffectsAtMostOnce ==
    /\ \A i, j \in 1..Len(performed) :
        performed[i].run = performed[j].run /\ performed[i].step = performed[j].step => i = j
    /\ \A i, j \in 1..Len(verified) : verified[i] = verified[j] => i = j

\* An edit or a command of a step is performed only when the last decision
\* taken on a card for that very step of that run was to approve it, nothing
\* the policy denies is ever performed, and a step dropped by a denial never is.
EffectsApproved ==
    \A i \in 1..Len(performed) :
        LET p == performed[i]
            Told(type) == {j \in 1..p.at : /\ log[j].type = type /\ log[j].run = p.run
                                           /\ log[j].card.step = p.step}
        IN  /\ Classify(p.kind) = "needs_approval" =>
                   \E j \in Told("run.approved") : \A k \in Told("run.refused") : k < j
            /\ Classify(p.kind) # "denied"
            /\ \A k \in 1..Len(log) : log[k] # StepEvent("run.effect_denied", p.run, p.step)

\* "Effects are the only real side effects and they run AFTER policy checks and,
\* for edits and commands, an exact one-shot approval" (run_engine.rs): not so
\* for the commands of the goal's own acceptance.
EveryCommandApproved == EffectsApproved /\ verified = <<>>

\* Effects happen only while the store has the run running: not after it was
\* cancelled, not while a card waits; unless a resumption was answered again.
EffectsOnlyWhileRunning ==
    [][\A i \in (Len(performed) + 1)..Len(performed') :
            LET r == performed'[i].run
            IN  stored[r] = "running" \/ resumed[r] = "replayed"]_performed

\* The same of the commands of the verifier.
VerifiesOnlyWhileRunning ==
    [][\A i \in (Len(verified) + 1)..Len(verified') :
            LET r == verified'[i].run
            IN  stored[r] = "running" \/ resumed[r] = "replayed"]_verified

\* The step of a pending card is the next step of the plan, so an approval
\* is never turned away because the plan moved on under it.
CardIsForNextStep ==
    \A r \in Runs :
        index.runs[r].state = "blocked" /\ index.runs[r].pending # NoCard =>
            /\ index.runs[r].remaining # <<>>
            /\ Head(index.runs[r].remaining).id = index.runs[r].pending.step

\* A step is settled when it was performed and recorded by intent, result and
\* completion, in that order, or denied.
Logged(r, s, type) == {i \in 1..Len(log) : log[i] = StepEvent(type, r, s)}

Performed(r, step) ==
    \E i \in 1..Len(performed) :
        performed[i].run = r /\ performed[i].step = step.id /\ performed[i].kind = step.kind

Settled(r, step) ==
    \/ /\ Performed(r, step)
       /\ \E i \in Logged(r, step.id, "effect.intent_recorded"),
             j \in Logged(r, step.id, "effect.result_recorded"),
             k \in Logged(r, step.id, "run.effect_completed") : i < j /\ j < k
    \/ Logged(r, step.id, "run.effect_denied") # {}
    \/ Logged(r, step.id, "run.effect_denied_by_policy") # {}

\* The n-th step is the first of its id.
First(steps, n) == \A m \in 1..(n - 1) : steps[m].id # steps[n].id

PlanOf(r) == LET ix == Rebuild(log) IN ix.plans[ix.runs[r].version].steps

\* A run succeeds, and its verifier runs commands, only with every step of its
\* plan settled that is the first of its id.
SucceededSettled ==
    \A r \in Runs :
        stored[r] = "succeeded" \/ (\E i \in 1..Len(verified) : verified[i].run = r) =>
            LET steps == PlanOf(r)
            IN  \A n \in 1..Len(steps) : First(steps, n) => Settled(r, steps[n])

\* "evaluates after the steps complete" (run_engine.rs), of every step: not so of
\* one whose id an earlier step has, which is dropped together with it.
EveryStepSettled ==
    \A r \in Runs : stored[r] = "succeeded" =>
        LET steps == PlanOf(r) IN \A n \in 1..Len(steps) : Settled(r, steps[n])

\* When nothing fails, every card is decided, no resumption is asked again and
\* the goal's checks have ids of their own, a started run ends.
Undecided == \E i \in 1..Len(log) : log[i].type = "run.undecided"
AskedAgain == \E r \in Runs : resumed[r] = "replayed"

\* Two checks of one id may end finish_run with a conflict of their keys.
Ambiguous(r) ==
    LET checks == index.plans[index.runs[r].version].checks
    IN  Known(index, r) /\ \E m, n \in 1..Len(checks) : checks[m].id = checks[n].id /\ m # n

StartedRunsEnd ==
    \A r \in Runs :
        stored[r] = "queued" ~>
            stored[r] \in Terminal \/ faults > 0 \/ Undecided \/ AskedAgain \/ Ambiguous(r)
=============================================================================
