--------------------------- MODULE ToolBrokerProofs ---------------------------
(***************************************************************************)
(* For any tools, overlays and grants, any number of runs, and whatever    *)
(* others do to the overlay: the types, and that neither "verified" nor    *)
(* "compensated" is said of an overlay that is otherwise.                  *)
(*                                                                         *)
(* The effect broker under run takes its own steps, and of those the       *)
(* proofs of EffectBroker hold; beside them run adds two facts to the      *)
(* store, while the effect broker is at rest.                              *)
(***************************************************************************)
EXTENDS ToolBroker, EffectBrokerProofs

-----------------------------------------------------------------------------
(* Types.                                                                  *)

Waiting == {"announce", "verify", "record"}

\* The last call of the effect broker is for this tool, from run's call of it
\* to run's return.
Asked ==
    /\ phase # "executing" => at = "idle"
    /\ phase \in {"executing"} \cup Waiting => call # NoCall /\ Effect = tool.effect
    /\ phase \in Waiting => answer = "Ok"
    /\ phase = "record" => verdict # "none"

ToolTyped == Sound /\ ToolTypeOK /\ Asked

LEMMA ToolIsSome ==
    ASSUME NEW t \in Tools
    PROVE  t # NoTool
<1>1. t \in ToolType
  BY ToolAssumption
<1>2. DOMAIN t # {}
  BY <1>1 DEF ToolType
<1>3. DOMAIN NoTool = {}
  BY DEF NoTool
<1>4. QED
  BY <1>2, <1>3

LEMMA ToolsTyped ==
    ASSUME NEW t \in Tools
    PROVE  /\ t.effect \in Effects /\ t.kind \in Kinds /\ t.path \in Paths
           /\ t.declared \subseteq Paths
BY ToolAssumption DEF ToolType

\* What run asks the store to record between the calls of the effect broker.
LEMMA VerifyFacts ==
    ASSUME ToolTyped, phase \in Waiting
    PROVE  /\ IntentFact("verify", tool.effect, call.now) \in AllFacts
           /\ phase = "record" =>
                ResultFact("verify", tool.effect, VerifyResult, call.now) \in AllFacts
<1>1. tool.effect \in Effects
  BY ToolsTyped DEF ToolTyped, ToolTypeOK, Waiting
<1>2. call.now \in Times
  BY DEF ToolTyped, Asked, Sound, Typed, TypeOK, Times, NoCall
<1>3. phase = "record" => VerifyResult \in Concluded
  BY DEF ToolTyped, ToolTypeOK, Asked, VerifyResult, Concluded
<1>4. "verify" \in Intended
  BY DEF Intended
<1>5. QED
  BY <1>1, <1>2, <1>3, <1>4 DEF AllFacts

\* A fact is added to the store while the effect broker is at rest.
LEMMA AddedAtRest ==
    ASSUME Sound, at = "idle", NEW fact \in AllFacts, Accepted(fact), UNCHANGED unledgered
    PROVE  Sound' /\ Facts \subseteq Facts' /\ \E f \in Facts' : Store!SameRequest(f, fact)
<1>1. /\ ledger' \in Seq(AllFacts) /\ Facts \subseteq Facts'
      /\ \E f \in Facts' : Store!SameRequest(f, fact)
  BY AcceptedStands DEF Sound, Typed
<1>2. UNCHANGED <<at, call, granted, answer, exit, policy, consumed, secrets, realms,
                  clock, calls, life, undone, performed>>
  BY DEF unledgered
<1>3. Typed'
  BY <1>1, <1>2 DEF Sound, Typed, TypeOK, Effect
<1>4. Relies'
  BY <1>1, <1>2, Kept, RanKept DEF Sound, Relies, Truth, Before
<1>5. QED
  BY <1>1, <1>3, <1>4 DEF Sound

LEMMA BrokerRests ==
    ASSUME Sound, UNCHANGED broker
    PROVE  /\ Sound' /\ Facts' = Facts /\ Ran' = Ran
           /\ UNCHANGED <<at, call, exit, answer, calls, performed>>
<1>1. UNCHANGED vars
  BY DEF broker, vars, memory, bounds
<1>2. Typed' /\ Relies'
  BY <1>1, TypedStep, SoundStep DEF Sound
<1>3. UNCHANGED <<at, call, exit, answer, calls, performed, ledger>>
  BY DEF broker
<1>4. QED
  BY <1>2, <1>3, RanKept DEF Sound, Facts

\* A step of the effect broker itself.
LEMMA BrokerSteps ==
    ASSUME Sound, Next
    PROVE  Sound' /\ Facts \subseteq Facts'
BY TypedStep, SoundStep, StoreGrows DEF Sound

LEMMA ToolTypedInit == ToolInit => ToolTyped
<1> SUFFICES ASSUME ToolInit PROVE ToolTyped
  OBVIOUS
<1>1. Sound
  BY InitSound DEF ToolInit
<1>2. \E start \in Starts : files = start.files /\ index = start.index
  BY DEF ToolInit
<1>3. files \in [Paths -> Held] /\ index \in {NoRepository} \cup Indexes
  BY <1>2, ToolAssumption DEF Held
<1>4. QED
  BY <1>1, <1>3
  DEF ToolInit, Init, ToolTyped, ToolTypeOK, Asked, Sound, Typed, Waiting, Phases, Empty,
      NoReport, Held

\* A step of run that leaves the effect broker alone.
LEMMA OwnStepTyped ==
    ASSUME ToolTyped, UNCHANGED broker,
           files' \in [Paths -> Held],
           link' \in BOOLEAN, root' \in BOOLEAN, lock' \in BOOLEAN,
           index' \in {NoRepository} \cup Indexes,
           checkpoint'.files \in [Paths -> Held],
           verdict' \in {"none", "passed", "non_retriable", "needs_reconcile"},
           report' \in [kind : {"none", "Contract", "Busy", "Prepare", "Broker", "verified",
                                "failed"}, compensated : BOOLEAN],
           phase' \in Phases, at = "idle" \/ UNCHANGED phase,
           \/ UNCHANGED tool /\ tool # NoTool
           \/ tool' \in Tools
           \/ UNCHANGED <<tool, phase>>,
           \/ phase' \notin {"executing"} \cup Waiting
           \/ phase \in {"executing"} \cup Waiting /\ UNCHANGED tool,
           phase' \in Waiting => phase \in Waiting \/ answer = "Ok",
           phase' = "record" => verdict' # "none"
    PROVE  ToolTyped'
<1>1. /\ Sound' /\ UNCHANGED <<at, call, answer>>
  BY BrokerRests DEF ToolTyped
<1>2. Asked'
  BY <1>1 DEF ToolTyped, Asked, Effect
<1>3. ToolTypeOK'
  <2>1. TypeOK'
    BY <1>1 DEF Sound, Typed
  <2>2. tool' = NoTool => phase' = "idle"
    BY ToolIsSome DEF ToolTyped, ToolTypeOK
  <2>3. tool' # NoTool => tool' \in Tools
    BY DEF ToolTyped, ToolTypeOK
  <2>4. phase' \notin {"idle", "executing"} => at' = "idle"
    BY <1>1, <1>2 DEF Asked
  <2>5. QED
    BY <2>1, <2>2, <2>3, <2>4 DEF ToolTypeOK
<1>4. QED
  BY <1>1, <1>2, <1>3 DEF ToolTyped

LEMMA OverlayTyped ==
    ASSUME ToolTyped
    PROVE  /\ Inventory \in [Paths -> Held]
           /\ \A done : PutBack(done) \in [Paths -> Held]
           /\ Stopped => files' \in [Paths -> Held]
           /\ FileChange => files' \in [Paths -> Held]
           /\ ChildWrites => /\ files' \in [Paths -> Held]
                             /\ link' \in BOOLEAN /\ root' \in BOOLEAN
                             /\ index' \in {NoRepository} \cup Indexes
<1>0. files \in [Paths -> Held] /\ checkpoint.files \in [Paths -> Held] /\ root \in BOOLEAN
  BY DEF ToolTyped, ToolTypeOK
<1>1. Inventory \in [Paths -> Held]
  BY <1>0 DEF Inventory, Held
<1>2. ASSUME NEW done PROVE PutBack(done) \in [Paths -> Held]
  BY <1>0 DEF PutBack
<1>3. ASSUME Stopped PROVE files' \in [Paths -> Held]
  <2>1. ASSUME NEW done, NEW p, files' = [PutBack(done) EXCEPT ![p] = Torn]
        PROVE  files' \in [Paths -> Held]
    <3>1. PutBack(done) \in [Paths -> Held] /\ Torn \in Held
      BY <1>2 DEF Held
    <3>2. QED
      BY <2>1, <3>1
  <2>2. QED
    BY <1>2, <1>3, <2>1 DEF Stopped
<1>4. FileChange => files' \in [Paths -> Held]
  BY <1>0 DEF FileChange, Held
<1>5. ChildWrites => /\ files' \in [Paths -> Held]
                     /\ link' \in BOOLEAN /\ root' \in BOOLEAN
                     /\ index' \in {NoRepository} \cup Indexes
  BY <1>0 DEF ChildWrites
<1>6. QED
  BY <1>1, <1>2, <1>3, <1>4, <1>5

Said == {"none", "Contract", "Busy", "Prepare", "Broker", "verified", "failed"}
Reports == [kind : Said, compensated : BOOLEAN]

LEMMA ReportsTyped ==
    ASSUME NEW kind \in Said, NEW compensated \in BOOLEAN
    PROVE  /\ Report(kind, compensated) => report' \in Reports
           /\ Rollback(kind) =>
                /\ report' \in Reports /\ report' = [kind |-> kind, compensated |-> FALSE]
                /\ phase' = IF Mutating(tool) THEN "restore" ELSE "idle"
<1>1. [kind |-> kind, compensated |-> compensated] \in Reports
  BY DEF Reports
<1>2. [kind |-> kind, compensated |-> FALSE] \in Reports
  BY DEF Reports
<1>3. Report(kind, compensated) => report' \in Reports
  BY <1>1 DEF Report
<1>4. ASSUME Rollback(kind)
      PROVE  /\ report' = [kind |-> kind, compensated |-> FALSE]
             /\ phase' = IF Mutating(tool) THEN "restore" ELSE "idle"
  BY <1>4 DEF Rollback, Return, Report
<1>5. QED
  BY <1>2, <1>3, <1>4

LEMMA VerdictsTyped ==
    VerifyVerdict \in {"passed", "non_retriable", "needs_reconcile"}
BY DEF VerifyVerdict, DeltaVerdict

\* A step of the effect broker, under run's execute.
LEMMA GovernedStepTyped ==
    ASSUME ToolTyped, Next, phase = "executing", UNCHANGED <<phase, tool, lock>>,
           UNCHANGED <<checkpoint, verdict, report>>, UNCHANGED call,
           \/ UNCHANGED overlay
           \/ ChildWrites
    PROVE  ToolTyped'
<1>1. Sound' /\ TypeOK'
  BY BrokerSteps DEF ToolTyped, Sound, Typed
<1>2. Asked'
  BY DEF ToolTyped, Asked, Waiting, Effect
<1>3. ToolTypeOK'
  BY <1>1, OverlayTyped DEF ToolTyped, ToolTypeOK, overlay
<1>4. QED
  BY <1>1, <1>2, <1>3 DEF ToolTyped

LEMMA CallUnchanged ==
    ASSUME Govern \/ Execute
    PROVE  UNCHANGED call /\ at # "idle" /\ Next
<1>1. Next
  BY DEF Next
<1>2. UNCHANGED call /\ at # "idle"
  BY DEF Govern, Execute, CreateRealm, CreateFails, Intent, IntentFails, Decide, DecideFails,
         Mount, MountFails, Lease, Succeeded, Failed, Enforced, EnforcementFails, Destroy,
         Result, ResultFails, Exec, ExecFails
<1>3. QED
  BY <1>1, <1>2

LEMMA ToolTypedStep ==
    ASSUME ToolTyped, [ToolNext]_toolVars
    PROVE  ToolTyped'
<1> USE DEF ToolTypeOK, Phases, Waiting, history
<1>0. /\ ToolTypeOK /\ Asked /\ Sound
      /\ phase # "idle" => tool # NoTool
      /\ phase \in {"executing"} \cup Waiting => tool \in Tools
  BY DEF ToolTyped
<1>1. CASE UNCHANGED toolVars
  BY <1>0, <1>1, OwnStepTyped DEF toolVars, overlay, Asked
<1>2. ASSUME NEW t \in Tools, Run(t), at = "idle" PROVE ToolTyped'
  <2>1. report' \in Reports
    <3>1. NoReport \in Reports
      BY DEF NoReport, Reports, Said
    <3>2. {"Contract", "Busy"} \subseteq Said /\ FALSE \in BOOLEAN
      BY DEF Said
    <3>3. report' = NoReport \/ Report("Contract", FALSE) \/ Report("Busy", FALSE)
      BY <1>2 DEF Run, Return
    <3>4. QED
      BY <3>1, <3>2, <3>3, ReportsTyped
  <2>2. phase' \in {"idle", "checkpoint", "execute"} /\ lock' \in BOOLEAN
    BY <1>0, <1>2 DEF Run, Return
  <2>3. checkpoint'.files \in [Paths -> Held]
    BY <1>2 DEF Run, Empty, Held
  <2>4. QED
    BY <1>0, <1>2, <2>1, <2>2, <2>3, OwnStepTyped DEF Run, overlay, Reports, Said
<1>3. ASSUME NEW g \in Grants \cup {NoGrant}, ExecuteEffect(g) PROVE ToolTyped'
  <2>1. tool \in Tools /\ tool.effect \in Effects
    BY <1>0, <1>3, ToolsTyped DEF ExecuteEffect
  <2>2. Next /\ call' = [effect |-> tool.effect, grant |-> g, now |-> clock]
    BY <1>3, <2>1 DEF ExecuteEffect, Next, Call
  <2>3. Sound' /\ TypeOK'
    BY <1>0, <2>2, BrokerSteps DEF Sound, Typed
  <2>4. call' # NoCall
    BY <2>2 DEF NoCall
  <2>5. QED
    BY <1>0, <1>3, <2>1, <2>2, <2>3, <2>4 DEF ToolTyped, ExecuteEffect, Asked, Effect, overlay
<1>4. CASE Capture
  BY <1>0, <1>4, OverlayTyped, OwnStepTyped DEF Capture, overlay, Asked
<1>5. CASE CaptureFails
  BY <1>0, <1>5, OwnStepTyped DEF CaptureFails, Release, Return, Report, overlay, Asked
<1>6. CASE Answered
  <2>1. report' \in Reports
    BY <1>0, <1>6, ReportsTyped DEF Answered, Reports, Said
  <2>2. phase' \in {"restore", "idle"} \/ (phase' = "announce" /\ answer = "Ok")
    <3>1. CASE answer = "Ok"
      BY <1>6, <3>1 DEF Answered
    <3>2. CASE answer # "Ok"
      <4>1. Rollback("Broker") /\ "Broker" \in Said
        BY <1>6, <3>2 DEF Answered, Said
      <4>2. phase' = IF Mutating(tool) THEN "restore" ELSE "idle"
        BY <4>1 DEF Rollback, Return
      <4>3. QED
        BY <4>2
    <3>3. QED
      BY <3>1, <3>2
  <2>3. QED
    BY <1>0, <1>6, <2>1, <2>2, OwnStepTyped DEF Answered, overlay, Reports, Said
<1>7. CASE Announce
  <2>1. Sound' /\ TypeOK'
    BY <1>0, <1>7, VerifyFacts, AddedAtRest DEF ToolTyped, Announce, Sound, Typed
  <2>2. QED
    BY <1>0, <1>7, <2>1 DEF ToolTyped, Announce, Asked, unledgered, Effect, overlay
<1>8. CASE AnnounceFails
  <2>1. report' \in Reports /\ phase' \in {"restore", "idle"}
    BY <1>8, ReportsTyped DEF AnnounceFails, Said
  <2>2. QED
    BY <1>0, <1>8, <2>1, OwnStepTyped DEF AnnounceFails, overlay, Asked, Reports, Said
<1>9. CASE Verify
  <2>1. verdict' \in {"passed", "non_retriable", "needs_reconcile"}
    BY <1>9, VerdictsTyped DEF Verify
  <2>2. QED
    BY <1>0, <1>9, <2>1, OwnStepTyped DEF Verify, overlay, Asked
<1>10. CASE Conclude
  <2>1. Sound' /\ TypeOK'
    BY <1>0, <1>10, VerifyFacts, AddedAtRest DEF ToolTyped, Conclude, Sound, Typed
  <2>2. report' \in Reports /\ phase' \in {"idle", "restore"}
    BY <1>10, ReportsTyped DEF Conclude, Return, Said
  <2>3. lock' \in BOOLEAN
    BY <1>0, <1>10 DEF Conclude, Release
  <2>4. QED
    BY <1>0, <1>10, <2>1, <2>2, <2>3
    DEF ToolTyped, Conclude, Asked, unledgered, overlay, Reports, Said
<1>11. CASE ConcludeFails
  <2>1. report' \in Reports /\ phase' \in {"restore", "idle"}
    BY <1>11, ReportsTyped DEF ConcludeFails, Said
  <2>2. QED
    BY <1>0, <1>11, <2>1, OwnStepTyped DEF ConcludeFails, overlay, Asked, Reports, Said
<1>12. CASE Restore
  BY <1>0, <1>12, OwnStepTyped, OverlayTyped DEF Restore, overlay, Asked
<1>13. CASE RestoreFails
  <2>1. files' \in [Paths -> Held]
    BY <1>0, <1>13, OverlayTyped DEF RestoreFails
  <2>2. QED
    BY <1>0, <1>13, <2>1, OwnStepTyped DEF RestoreFails, Release, Return, Report, Asked
<1>14. CASE Compare
  <2>1. (Inventory = checkpoint.files) \in BOOLEAN
    OBVIOUS
  <2>2. QED
    BY <1>0, <1>14, <2>1, OwnStepTyped DEF Compare, Release, Return, Report, overlay, Asked
<1>15. CASE GovernTool
  <2>1. UNCHANGED call /\ at # "idle" /\ Next
    BY <1>15, CallUnchanged DEF GovernTool
  <2>2. QED
    BY <1>0, <1>15, <2>1, GovernedStepTyped DEF GovernTool, Asked
<1>16. CASE Child
  <2>1. UNCHANGED call /\ at # "idle" /\ Next
    BY <1>16, CallUnchanged DEF Child, Execute
  <2>2. QED
    BY <1>0, <1>16, <2>1, GovernedStepTyped DEF Child, ChildMayWrite, Asked
<1>17. CASE NoChild
  <2>1. UNCHANGED call /\ at # "idle" /\ Next
    BY <1>17, CallUnchanged DEF NoChild, Execute
  <2>2. QED
    BY <1>0, <1>17, <2>1, GovernedStepTyped DEF NoChild, Asked
<1>18. CASE Edit
  <2>1. files' \in [Paths -> Held] /\ link' \in BOOLEAN
    BY <1>0, <1>18, OverlayTyped DEF Edit, FileChange, IndexChange, ToolTyped
  <2>2. root' \in BOOLEAN /\ index' \in {NoRepository} \cup Indexes
    BY <1>0, <1>18 DEF Edit, FileChange, IndexChange
  <2>3. QED
    BY <1>0, <1>18, <2>1, <2>2, OwnStepTyped DEF Edit, Elsewhere, Asked
<1>19. CASE Vanish
  BY <1>0, <1>19, OwnStepTyped DEF Vanish, Elsewhere, Empty, Held, Asked
<1>20. CASE Reappear
  BY <1>0, <1>20, OwnStepTyped DEF Reappear, Elsewhere, Asked
<1>21. CASE ToolDie
  <2>1. Die /\ Next /\ at' = "idle"
    BY <1>21 DEF ToolDie, Next, Die, Go
  <2>2. Sound' /\ TypeOK'
    BY <1>0, <2>1, BrokerSteps DEF Sound, Typed
  <2>3. files' \in [Paths -> Held]
    BY <1>0, <1>21, OverlayTyped DEF ToolDie
  <2>4. QED
    BY <1>0, <1>21, <2>1, <2>2, <2>3 DEF ToolTyped, ToolDie, Asked, NoReport
<1>22. QED
  BY <1>1, <1>2, <1>3, <1>4, <1>5, <1>6, <1>7, <1>8, <1>9, <1>10, <1>11, <1>12, <1>13,
     <1>14, <1>15, <1>16, <1>17, <1>18, <1>19, <1>20, <1>21
  DEF ToolNext, Lifecycle

\* Every variable holds a value of its kind, and the effect broker is at rest
\* whenever run is not in its execute (ToolTypeOK).
THEOREM ToolTypes == ToolSpec => []ToolTypeOK
<1>1. ToolTyped => ToolTypeOK
  BY DEF ToolTyped
<1>2. QED
  BY <1>1, ToolTypedInit, ToolTypedStep, PTL DEF ToolSpec

-----------------------------------------------------------------------------
(* The lock.                                                               *)

\* Without the directory the name of the lock is lost, and it was there when
\* the lock was taken.
Locked == LockIsOfTheCall /\ (lock /\ ~vanished => root)

LEMMA LockedStep ==
    ASSUME ToolTyped, Locked, [ToolNext]_toolVars
    PROVE  Locked'
<1> USE DEF Locked, LockIsOfTheCall, history, overlay, Return
<1>0. lock \in BOOLEAN
  BY DEF ToolTyped, ToolTypeOK
<1>1. CASE UNCHANGED <<phase, tool, lock, root, vanished>>
  BY <1>1 DEF Mutating
<1>2. ASSUME NEW t \in Tools, Run(t), at = "idle" PROVE Locked'
  <2>1. phase = "idle" /\ tool' = t /\ UNCHANGED <<root, vanished>>
    BY <1>2 DEF Run
  <2>2. \/ phase' = "idle" /\ UNCHANGED lock
        \/ Mutating(t) /\ root /\ lock' = TRUE /\ phase' = "checkpoint"
        \/ ~Mutating(t) /\ UNCHANGED lock
    BY <1>2 DEF Run
  <2>3. Mutating(tool)' = Mutating(t)
    BY <2>1 DEF Mutating
  <2>4. QED
    BY <2>1, <2>2, <2>3
<1>3. CASE /\ UNCHANGED <<tool, lock, root, vanished>> /\ phase # "idle"
           /\ phase' # "idle" \/ ~Mutating(tool)
  BY <1>3 DEF Mutating
<1>4. CASE Release /\ phase' = "idle" /\ UNCHANGED <<root, vanished>>
  BY <1>0, <1>4 DEF Release
<1>5. ASSUME NEW kind, Rollback(kind), UNCHANGED <<tool, lock, root, vanished>>, phase # "idle"
      PROVE  Locked'
  BY <1>3, <1>5 DEF Rollback
<1>6. CASE Answered
  BY <1>3, <1>5, <1>6 DEF Answered
<1>7. CASE Conclude
  <2>1. CASE verdict = "passed" /\ Mutating(tool)
    BY <1>4, <1>7, <2>1 DEF Conclude
  <2>2. CASE verdict = "passed" /\ ~Mutating(tool)
    BY <1>3, <1>7, <2>2 DEF Conclude
  <2>3. CASE verdict # "passed"
    BY <1>5, <1>7, <2>3 DEF Conclude
  <2>4. QED
    BY <2>1, <2>2, <2>3
<1>8. CASE Child
  BY <1>1, <1>8 DEF Child, ChildWrites, FileChange, IndexChange
<1>9. CASE Edit
  BY <1>1, <1>9 DEF Edit, Elsewhere, FileChange, IndexChange
<1>10. CASE Vanish
  BY <1>10 DEF Vanish, Elsewhere, Mutating
<1>11. CASE Reappear
  BY <1>11 DEF Reappear, Elsewhere, Mutating
<1>12. CASE ToolDie
  BY <1>12 DEF ToolDie
<1>13. CASE Capture \/ Announce \/ Verify \/ Restore
  BY <1>3, <1>13 DEF Capture, Announce, Verify, Restore
<1>14. CASE \E g \in Grants \cup {NoGrant} : ExecuteEffect(g)
  BY <1>3, <1>14 DEF ExecuteEffect
<1>15. CASE AnnounceFails \/ ConcludeFails
  BY <1>5, <1>15 DEF AnnounceFails, ConcludeFails
<1>16. CASE CaptureFails \/ RestoreFails \/ Compare
  BY <1>4, <1>16 DEF CaptureFails, RestoreFails, Compare
<1>17. CASE GovernTool \/ NoChild
  BY <1>1, <1>17 DEF GovernTool, NoChild
<1>18. CASE UNCHANGED toolVars
  BY <1>1, <1>18 DEF toolVars
<1>19. QED
  BY <1>2, <1>6, <1>7, <1>8, <1>9, <1>10, <1>11, <1>12, <1>13, <1>14, <1>15, <1>16,
     <1>17, <1>18
  DEF ToolNext, Lifecycle

\* A mutating call holds the lock of its overlay to its return, and nobody else
\* does but a call whose overlay was removed under it (LockIsOfTheCall).
THEOREM LocksAreOfCalls == ToolSpec => []LockIsOfTheCall
<1>1. ToolInit => Locked
  BY DEF ToolInit, Locked, LockIsOfTheCall
<1>2. Locked => LockIsOfTheCall
  BY DEF Locked
<1>3. QED
  BY <1>1, <1>2, ToolTypedInit, ToolTypedStep, LockedStep, PTL DEF ToolSpec

-----------------------------------------------------------------------------
(* What a failure leaves.                                                  *)

Called == {"executing", "restore", "compare"} \cup Waiting

\* No file differs but one that a failing restoration tore.
OneTorn == \A p, q \in ReallyChanged : p = q /\ files[p] = Torn

\* Whether the effect ran is known from run's call of the effect broker on;
\* before it and without it the overlay is the checkpoint.
Undisturbed ==
    Mutating(tool) /\ ~touched =>
        /\ phase = "execute" => ReallyChanged = {}
        /\ phase \in Called /\ ~Ran => ReallyChanged = {}
        /\ phase = "idle" /\ report.kind = "Broker" /\ ~Ran => OneTorn
        /\ phase = "idle" /\ report.compensated /\ ~link => ReallyChanged = {}

LEMMA ChangedKept ==
    ASSUME UNCHANGED <<files, checkpoint>>
    PROVE  ReallyChanged' = ReallyChanged /\ OneTorn' = OneTorn
<1>1. ReallyChanged' = ReallyChanged
  BY DEF ReallyChanged
<1>2. QED
  BY <1>1 DEF OneTorn

\* Putting back what is as captured changes nothing an inventory sees, wherever
\* it stops, but the file it stops at.
LEMMA RestoredAsIs ==
    ASSUME ToolTyped, ReallyChanged = {}, UNCHANGED checkpoint
    PROVE  /\ \A done : files' = PutBack(done) => ReallyChanged' = {}
           /\ Stopped => OneTorn'
<1>1. files \in [Paths -> Held] /\ checkpoint.files \in [Paths -> Held]
  BY DEF ToolTyped, ToolTypeOK
<1>2. \A p \in Seen : files[p] = checkpoint.files[p] /\ p \in Paths
  BY DEF ReallyChanged, Seen
<1>3. ASSUME NEW done PROVE \A p \in Seen : PutBack(done)[p] = checkpoint.files[p]
  BY <1>2 DEF PutBack
<1>4. ASSUME NEW done, files' = PutBack(done) PROVE ReallyChanged' = {}
  BY <1>3, <1>4 DEF ReallyChanged
<1>5. ASSUME NEW done, NEW torn \in Paths, files' = [PutBack(done) EXCEPT ![torn] = Torn]
      PROVE  OneTorn'
  <2>1. DOMAIN PutBack(done) = Paths
    BY DEF PutBack
  <2>2. files'[torn] = Torn
    BY <1>5, <2>1
  <2>3. ASSUME NEW p \in ReallyChanged' PROVE p = torn
    <3>1. p \in Seen /\ p \in Paths /\ files'[p] # checkpoint.files[p]
      BY <2>3 DEF ReallyChanged, Seen
    <3>2. p # torn => files'[p] = PutBack(done)[p]
      BY <1>5, <2>1, <3>1
    <3>3. QED
      BY <1>3, <3>1, <3>2
  <2>4. QED
    BY <2>2, <2>3 DEF OneTorn
<1>6. ASSUME ReallyChanged' = {} PROVE OneTorn'
  BY <1>6 DEF OneTorn
<1>7. ASSUME Stopped PROVE OneTorn'
  <2>1. ASSUME NEW done, files' = PutBack(done) PROVE OneTorn'
    BY <1>4, <1>6, <2>1
  <2>2. Captured \subseteq Paths
    BY DEF Captured
  <2>3. QED
    BY <1>5, <1>7, <2>1, <2>2 DEF Stopped
<1>8. QED
  BY <1>4, <1>7

\* A child that may have written is one that ran.
LEMMA ChildRan ==
    ASSUME ToolTyped, Child
    PROVE  Ran'
<1>1. at = "lease" /\ Perform /\ UNCHANGED <<call, calls>>
  BY DEF Child, Exec, ExecFails, bounds
<1>2. RanItself'
  BY <1>1, PerformedNow DEF ToolTyped
<1>3. QED
  BY <1>2 DEF RanItself, Ran

\* Every other step of the effect broker leaves what ran.
LEMMA GovernRan ==
    ASSUME Govern \/ NoChild
    PROVE  Ran' = Ran
<1>1. UNCHANGED <<call, calls, performed>>
  BY DEF Govern, NoChild, CreateRealm, CreateFails, Intent, IntentFails, Decide, DecideFails,
         Mount, MountFails, Lease, Succeeded, Failed, Enforced, EnforcementFails, Destroy,
         Result, ResultFails, ExecFails, bounds
<1>2. QED
  BY <1>1, RanKept

LEMMA OwnStepRan ==
    ASSUME UNCHANGED unledgered
    PROVE  Ran' = Ran
<1>1. UNCHANGED <<call, calls, performed>>
  BY DEF unledgered
<1>2. QED
  BY <1>1, RanKept

LEMMA UnledgeredOfBroker ==
    ASSUME UNCHANGED broker
    PROVE  UNCHANGED unledgered
BY DEF broker, unledgered

LEMMA UndisturbedStep ==
    ASSUME ToolTyped, Undisturbed, [ToolNext]_toolVars
    PROVE  Undisturbed'
<1> USE DEF Undisturbed, Called, Waiting, history, overlay
<1>0. phase # "executing" => at = "idle"
  BY DEF ToolTyped, Asked
<1>1. ASSUME Ran' = Ran, UNCHANGED <<tool, files, link, checkpoint, touched>>,
             \/ UNCHANGED <<phase, report>>
             \/ phase \in Called /\ phase' \in Called
             \/ phase \in Called /\ phase' = "idle" /\ report'.compensated = FALSE
             \/ ~Mutating(tool)
      PROVE  Undisturbed'
  <2>1. ReallyChanged' = ReallyChanged /\ OneTorn' = OneTorn
    BY <1>1, ChangedKept
  <2>2. ReallyChanged = {} => OneTorn
    BY DEF OneTorn
  <2>3. Mutating(tool)' = Mutating(tool)
    BY <1>1 DEF Mutating
  <2>4. CASE UNCHANGED <<phase, report>>
    BY <1>1, <2>1, <2>3, <2>4
  <2>5. CASE phase \in Called /\ phase' \in Called
    BY <1>1, <2>1, <2>3, <2>5
  <2>6. CASE phase \in Called /\ phase' = "idle" /\ report'.compensated = FALSE
    BY <1>1, <2>1, <2>2, <2>3, <2>6
  <2>7. CASE ~Mutating(tool)
    BY <2>3, <2>7
  <2>8. QED
    BY <1>1, <2>4, <2>5, <2>6, <2>7
<1>2. ASSUME Ran' = Ran, NEW kind, Rollback(kind), phase \in Called,
             UNCHANGED <<tool, files, link, checkpoint, touched>>
      PROVE  Undisturbed'
  BY <1>1, <1>2 DEF Rollback
<1>3. ASSUME touched' = TRUE PROVE Undisturbed'
  BY <1>3
<1>4. ASSUME NEW t \in Tools, Run(t), at = "idle" PROVE Undisturbed'
  <2>1. CASE Mutating(t)
    <3>1. \/ phase' = "idle" /\ report' = [kind |-> "Contract", compensated |-> FALSE]
          \/ phase' = "idle" /\ report' = [kind |-> "Busy", compensated |-> FALSE]
          \/ phase' = "checkpoint"
      BY <1>4, <2>1 DEF Run, Return, Report
    <3>2. QED
      BY <3>1
  <2>2. CASE ~Mutating(t)
    <3>1. ~Mutating(tool')
      BY <1>4, <2>2 DEF Run, Mutating
    <3>2. QED
      BY <3>1
  <2>3. QED
    BY <2>1, <2>2
<1>5. ASSUME NEW g \in Grants \cup {NoGrant}, ExecuteEffect(g) PROVE Undisturbed'
  BY <1>5, ChangedKept DEF ExecuteEffect, Mutating
<1>6. CASE Capture
  <2>1. phase' = "execute" /\ files' = files /\ checkpoint'.files = Inventory /\ ~link
    BY <1>6 DEF Capture
  <2>2. \A p \in Seen : Inventory[p] = files[p]
    BY <2>1 DEF Inventory, Seen
  <2>3. ReallyChanged' = {}
    BY <2>1, <2>2 DEF ReallyChanged
  <2>4. QED
    BY <2>1, <2>3
<1>7. CASE CaptureFails
  BY <1>7 DEF CaptureFails, Return, Report
<1>8. CASE Answered
  <2>1. Ran' = Ran
    BY <1>8, UnledgeredOfBroker, OwnStepRan DEF Answered
  <2>2. CASE answer = "Ok"
    BY <1>1, <1>8, <2>1, <2>2 DEF Answered
  <2>3. CASE answer # "Ok"
    BY <1>2, <1>8, <2>1, <2>3 DEF Answered
  <2>4. QED
    BY <2>2, <2>3
<1>9. CASE Announce
  BY <1>1, <1>9, OwnStepRan DEF Announce
<1>10. CASE AnnounceFails
  BY <1>2, <1>10, UnledgeredOfBroker, OwnStepRan DEF AnnounceFails
<1>11. CASE Verify
  BY <1>1, <1>11, UnledgeredOfBroker, OwnStepRan DEF Verify
<1>12. CASE Conclude
  <2>1. Ran' = Ran
    BY <1>12, OwnStepRan DEF Conclude
  <2>2. CASE verdict = "passed"
    BY <1>1, <1>12, <2>1, <2>2 DEF Conclude, Return, Report
  <2>3. CASE verdict # "passed"
    BY <1>2, <1>12, <2>1, <2>3 DEF Conclude
  <2>4. QED
    BY <2>2, <2>3
<1>13. CASE ConcludeFails
  BY <1>2, <1>13, UnledgeredOfBroker, OwnStepRan DEF ConcludeFails
<1>14. CASE Restore
  <2>1. Ran' = Ran
    BY <1>14, UnledgeredOfBroker, OwnStepRan DEF Restore
  <2>2. ReallyChanged = {} => ReallyChanged' = {}
    BY <1>14, RestoredAsIs DEF Restore
  <2>3. QED
    BY <1>14, <2>1, <2>2 DEF Restore, Mutating
<1>15. CASE RestoreFails
  <2>1. Ran' = Ran
    BY <1>15, UnledgeredOfBroker, OwnStepRan DEF RestoreFails
  <2>2. ReallyChanged = {} => OneTorn'
    <3>1. CASE root
      BY <1>15, <3>1, RestoredAsIs DEF RestoreFails
    <3>2. CASE ~root
      BY <1>15, <3>2, ChangedKept DEF RestoreFails, OneTorn
    <3>3. QED
      BY <3>1, <3>2
  <2>3. QED
    BY <1>15, <2>1, <2>2 DEF RestoreFails, Return, Report, Mutating
<1>16. CASE Compare
  <2>1. Ran' = Ran
    BY <1>16, UnledgeredOfBroker, OwnStepRan DEF Compare
  <2>2. UNCHANGED <<files, checkpoint, link, tool, touched>> /\ phase = "compare" /\ phase' = "idle"
    BY <1>16 DEF Compare, Return
  <2>3. report'.compensated /\ ~link => ReallyChanged = {}
    <3>1. report'.compensated = (Inventory = checkpoint.files)
      BY <1>16 DEF Compare, Return, Report
    <3>2. ~link => \A p \in Seen : Inventory[p] = files[p]
      BY DEF Inventory, Seen
    <3>3. QED
      BY <3>1, <3>2 DEF ReallyChanged
  <2>4. ReallyChanged = {} => OneTorn'
    BY <2>2, ChangedKept DEF OneTorn
  <2>5. QED
    BY <2>1, <2>2, <2>3, <2>4, ChangedKept DEF Mutating
<1>17. CASE GovernTool \/ NoChild
  BY <1>1, <1>17, GovernRan DEF GovernTool, NoChild
<1>18. CASE Child
  <2>1. at # "idle"
    BY <1>18 DEF Child, Exec, ExecFails
  <2>2. phase = "executing" /\ phase' = "executing"
    BY <1>0, <1>18, <2>1 DEF Child
  <2>3. QED
    BY <1>18, <2>2, ChildRan
<1>19. CASE Edit \/ Vanish \/ Reappear
  BY <1>3, <1>19 DEF Edit, Vanish, Reappear, Elsewhere
<1>20. CASE ToolDie
  BY <1>20 DEF ToolDie, NoReport
<1>21. CASE UNCHANGED toolVars
  BY <1>1, <1>21, UnledgeredOfBroker, OwnStepRan DEF toolVars
<1>22. QED
  BY <1>4, <1>5, <1>6, <1>7, <1>8, <1>9, <1>10, <1>11, <1>12, <1>13, <1>14, <1>15, <1>16,
     <1>17, <1>18, <1>19, <1>20, <1>21
  DEF ToolNext, Lifecycle

\* A mutating tool that says it compensated leaves every file an inventory sees as
\* it was captured, unless others wrote in the overlay or a symbolic link hides
\* it; and one whose effect did not run leaves all but the file that a failing
\* restoration tore (FailedLeavesCheckpoint).
THEOREM FailuresLeaveCheckpoint == ToolSpec => []FailedLeavesCheckpoint
<1>1. ToolInit => Undisturbed
  BY DEF ToolInit, Undisturbed, NoReport, Called, Waiting
<1>2. Undisturbed => FailedLeavesCheckpoint
  BY DEF Undisturbed, FailedLeavesCheckpoint, Settled, OneTorn
<1>3. QED
  BY <1>1, <1>2, ToolTypedInit, ToolTypedStep, UndisturbedStep, PTL DEF ToolSpec

-----------------------------------------------------------------------------
(* What is verified.                                                       *)

\* What VerifiedTruthful asks of the overlay, and of the log.
Matches ==
    /\ tool.kind = "git" \/ (tool.kind = "shell" /\ tool.expect) => exit = "zero"
    /\ tool.kind \in {"hash", "stat"} => files[tool.path] # Absent
    /\ Mutating(tool) /\ ~link =>
        /\ ReallyChanged \subseteq tool.declared
        /\ \A p \in tool.declared : files[p] # Absent
    /\ tool.kind = "patch" =>
        /\ files[tool.path] = tool.after
        /\ checkpoint.files[tool.path] \in {tool.before, Absent}

Undertaken == Stands(IntentFact("verify", tool.effect, call.now))

Witnessed ==
    /\ Undertaken
    /\ Stands(ResultFact("verify", tool.effect, "completed", call.now))
    /\ Stands(ResultFact("effect", tool.effect, "completed", call.now))
    /\ Ran

Truthful ==
    /\ phase \in {"verify", "record"} => Undertaken
    /\ phase = "record" /\ verdict = "passed" /\ ~touched => Matches
    /\ phase # "idle" => report.kind # "verified"
    /\ report.kind = "verified" => Witnessed /\ (~touched => Matches)

LEMMA PassedMatches ==
    ASSUME ToolTyped, tool \in Tools, VerifyVerdict = "passed"
    PROVE  Matches
<1>1. tool.kind \in Kinds /\ tool.path \in Paths /\ tool.declared \subseteq Paths
  BY ToolsTyped
<1>2. ~Refuted
  BY DEF VerifyVerdict
<1>3. Mutating(tool) => DeltaVerdict = "passed"
  BY <1>2 DEF VerifyVerdict
<1>4. Mutating(tool) => /\ \A p \in tool.declared : Inventory[p] # Absent
                        /\ Changed \subseteq tool.declared
  BY <1>3 DEF DeltaVerdict
<1>5. /\ ~link => ReallyChanged \subseteq Changed
      /\ \A p \in Paths : Inventory[p] # Absent => files[p] # Absent
  BY DEF Inventory, Changed, ReallyChanged, Seen
<1>6. tool.kind = "git" \/ (tool.kind = "shell" /\ tool.expect) => exit = "zero"
  BY <1>2 DEF Refuted
<1>7. tool.kind \in {"hash", "stat"} => files[tool.path] # Absent
  BY <1>2 DEF Refuted
<1>8. tool.kind = "patch" =>
        /\ files[tool.path] = tool.after
        /\ checkpoint.files[tool.path] \in {tool.before, Absent}
  BY <1>2 DEF Refuted, Stale
<1>9. Mutating(tool) /\ ~link =>
        /\ ReallyChanged \subseteq tool.declared
        /\ \A p \in tool.declared : files[p] # Absent
  BY <1>1, <1>4, <1>5
<1>10. QED
  BY <1>6, <1>7, <1>8, <1>9 DEF Matches

LEMMA MatchesKept ==
    ASSUME UNCHANGED <<tool, exit, files, link, checkpoint>>
    PROVE  Matches' = Matches
BY DEF Matches, Mutating, ReallyChanged

\* What stands goes on standing for the call under way.
LEMMA IntendedKept ==
    ASSUME Facts \subseteq Facts', UNCHANGED <<tool, call>>
    PROVE  Undertaken => Undertaken'
BY DEF Undertaken, Stands

LEMMA TruthfulStep ==
    ASSUME ToolTyped, Truthful, [ToolNext]_toolVars
    PROVE  Truthful'
<1> USE DEF Truthful, history, overlay
<1>0. /\ phase # "executing" => at = "idle"
      /\ phase \in Waiting => tool \in Tools
      /\ Sound
  BY DEF ToolTyped, Asked, ToolTypeOK, Waiting
<1>1. ASSUME phase' \notin {"verify", "record"}, report'.kind # "verified"
      PROVE  Truthful'
  BY <1>1
<1>2. ASSUME UNCHANGED <<phase, tool, verdict, report>>, UNCHANGED broker,
             \/ UNCHANGED <<files, link, checkpoint, touched>>
             \/ touched' = TRUE
      PROVE  Truthful'
  <2>1. Facts' = Facts /\ Ran' = Ran /\ UNCHANGED <<call, exit>>
    BY <1>0, <1>2, BrokerRests
  <2>2. Undertaken' = Undertaken /\ Witnessed' = Witnessed
    BY <1>2, <2>1 DEF Undertaken, Witnessed, Stands
  <2>3. QED
    BY <1>2, <2>1, <2>2, MatchesKept
<1>3. ASSUME NEW kind, Rollback(kind), kind # "verified" PROVE Truthful'
  BY <1>1, <1>3 DEF Rollback, Return, Report
<1>4. ASSUME NEW t \in Tools, Run(t), at = "idle" PROVE Truthful'
  <2>1. phase' \in {"idle", "checkpoint", "execute"} /\ report'.kind # "verified"
    BY <1>4 DEF Run, Return, Report, NoReport
  <2>2. QED
    BY <1>1, <2>1
<1>5. CASE \/ \E g \in Grants \cup {NoGrant} : ExecuteEffect(g)
           \/ Capture \/ Restore
  BY <1>1, <1>5 DEF ExecuteEffect, Capture, Restore
<1>6. CASE CaptureFails
  BY <1>1, <1>6 DEF CaptureFails, Return, Report
<1>7. CASE Answered
  <2>1. CASE answer = "Ok"
    BY <1>1, <1>7, <2>1 DEF Answered
  <2>2. CASE answer # "Ok"
    BY <1>3, <1>7, <2>2 DEF Answered
  <2>3. QED
    BY <2>1, <2>2
<1>8. CASE Announce
  <2>1. \E f \in Facts' : Store!SameRequest(f, IntentFact("verify", tool.effect, call.now))
    BY <1>0, <1>8, VerifyFacts, AddedAtRest DEF Announce, Waiting
  <2>2. Undertaken'
    BY <1>8, <2>1 DEF Announce, Undertaken, Stands, unledgered
  <2>3. QED
    BY <1>8, <2>2 DEF Announce
<1>9. CASE AnnounceFails \/ ConcludeFails
  BY <1>3, <1>9 DEF AnnounceFails, ConcludeFails
<1>10. CASE Verify
  <2>1. phase = "verify" /\ tool \in Tools /\ verdict' = VerifyVerdict
    BY <1>0, <1>10 DEF Verify, Waiting
  <2>2. Facts' = Facts /\ UNCHANGED <<call, exit>>
    BY <1>0, <1>10, BrokerRests DEF Verify
  <2>3. Undertaken'
    BY <1>10, <2>2, IntendedKept DEF Verify
  <2>4. verdict' = "passed" => Matches'
    BY <1>10, <2>1, <2>2, PassedMatches, MatchesKept DEF Verify
  <2>5. QED
    BY <1>10, <2>3, <2>4 DEF Verify
<1>11. CASE Conclude
  <2>1. CASE verdict = "passed"
    <3>1. /\ Facts \subseteq Facts'
          /\ \E f \in Facts' :
               Store!SameRequest(f, ResultFact("verify", tool.effect, VerifyResult, call.now))
      BY <1>0, <1>11, VerifyFacts, AddedAtRest DEF Conclude, Waiting
    <3>2. phase = "record" /\ phase' = "idle" /\ UNCHANGED <<tool, call, exit>>
      BY <1>11, <2>1 DEF Conclude, Return, unledgered
    <3>3. Undertaken'
      BY <3>1, <3>2, IntendedKept
    <3>4. Stands(ResultFact("verify", tool.effect, "completed", call.now))'
      BY <2>1, <3>1, <3>2 DEF VerifyResult, Stands
    <3>5. Ran /\ Stands(ResultFact("effect", tool.effect, "completed", call.now))
      <4>1. answer = "Ok" /\ call # NoCall /\ Effect = tool.effect /\ at = "idle"
        BY <3>2 DEF ToolTyped, Asked, Waiting
      <4>2. Truth
        BY <1>0, <4>1 DEF Sound, Relies
      <4>3. QED
        BY <4>1, <4>2 DEF Truth
    <3>6. Ran'
      BY <1>11, <3>5, OwnStepRan DEF Conclude
    <3>7. Stands(ResultFact("effect", tool.effect, "completed", call.now))'
      BY <3>1, <3>2, <3>5 DEF Stands
    <3>8. Matches' = Matches /\ UNCHANGED touched
      BY <1>11, <3>2, MatchesKept DEF Conclude
    <3>9. QED
      BY <2>1, <3>2, <3>3, <3>4, <3>6, <3>7, <3>8 DEF Witnessed
  <2>2. CASE verdict # "passed"
    BY <1>3, <1>11, <2>2 DEF Conclude
  <2>3. QED
    BY <2>1, <2>2
<1>12. CASE RestoreFails \/ Compare
  <2>1. phase # "idle" /\ phase' = "idle" /\ report'.kind = report.kind
    BY <1>12 DEF RestoreFails, Compare, Return, Report
  <2>2. QED
    BY <1>1, <2>1
<1>13. CASE GovernTool \/ Child \/ NoChild
  <2>1. at # "idle" /\ UNCHANGED <<phase, report>>
    BY <1>13, CallUnchanged DEF GovernTool, Child, NoChild, Execute
  <2>2. phase' = "executing" /\ report'.kind # "verified"
    BY <1>0, <2>1
  <2>3. QED
    BY <1>1, <2>2
<1>14. CASE Edit \/ Vanish \/ Reappear
  BY <1>2, <1>14 DEF Edit, Vanish, Reappear, Elsewhere
<1>15. CASE ToolDie
  BY <1>1, <1>15 DEF ToolDie, NoReport
<1>16. CASE UNCHANGED toolVars
  BY <1>2, <1>16 DEF toolVars
<1>17. QED
  BY <1>4, <1>5, <1>6, <1>7, <1>8, <1>9, <1>10, <1>11, <1>12, <1>13, <1>14, <1>15, <1>16
  DEF ToolNext, Lifecycle

\* What run calls verified was intended and completed in the log, as an effect
\* and as a verification, and what an inventory sees of the overlay is what the
\* tool declared, unless others wrote in it or a symbolic link hides it
\* (VerifiedTruthful).
THEOREM VerifiedIsTrue == ToolSpec => []VerifiedTruthful
<1>1. ToolInit => Truthful
  BY DEF ToolInit, Truthful, NoReport
<1>2. Truthful => VerifiedTruthful
  BY DEF Truthful, VerifiedTruthful, Settled, Witnessed, Undertaken, Matches
<1>3. QED
  BY <1>1, <1>2, ToolTypedInit, ToolTypedStep, TruthfulStep, PTL DEF ToolSpec

=============================================================================
