-------------------------- MODULE EffectBrokerProofs --------------------------
(***************************************************************************)
(* For any effects, grants, policies and credentials, and any number of    *)
(* calls and lives: the types, audit before effect as a refinement,        *)
(* truthful answers, and that what ran was governed by its own call.       *)
(*                                                                         *)
(* One call runs at a time, so each place of execute relies on what the    *)
(* steps before it left: facts that stand in the store, which never lose   *)
(* one, and whether this call performed its effect.                        *)
(***************************************************************************)
EXTENDS EffectBroker, SequenceTheorems, TLAPS

-----------------------------------------------------------------------------
(* Types.                                                                  *)

Times == 0..MaxTime
Decided == Outcomes \cup {"approval_invalid"}

\* The intents and results of whoever shares the store: verify is of a caller.
Intended == {"effect", "verify"}
Concluded == {"completed", "non_retriable", "needs_reconcile"}

AllFacts ==
    {IntentFact(k, e, t) : k \in Intended, e \in Effects, t \in Times} \cup
    {ResultFact(k, e, r, t) :
        k \in Intended, e \in Effects, r \in Concluded, t \in Times} \cup
    {DecisionFact(e, p, v) : e \in Effects, p \in Policies, v \in Decided} \cup
    {EnforcementFact(e, p, r, t) :
        e \in Effects, p \in Policies, r \in {"succeeded", "failed"}, t \in Times}

RunType ==
    [id : Digests, effect : Plans, call : Nat, life : Nat,
     grant : Grants \cup {NoGrant}, now : Nat, policy : Policies, refs : SUBSET Refs]

Typed ==
    /\ TypeOK
    /\ ledger \in Seq(AllFacts)
    /\ performed \in Seq(RunType)

LEMMA InitTyped == Init => Typed
<1> SUFFICES ASSUME Init PROVE Typed
  OBVIOUS
<1>1. ledger \in Seq(AllFacts) /\ performed \in Seq(RunType)
  BY DEF Init
<1>2. TypeOK
  BY BrokerAssumption DEF Init, TypeOK, Places, Answers, NoCall
<1>3. QED
  BY <1>1, <1>2 DEF Typed

\* A call under way is one of an effect.
LEMMA Calling ==
    ASSUME Typed, at # "idle"
    PROVE  /\ Effect \in Effects /\ call.now \in Times
           /\ call.grant \in Grants \cup {NoGrant}
           /\ Effect.digest \in Digests /\ Effect.plan \in Plans
           /\ Effect.leases \in Seq(LeaseType) /\ Len(Effect.leases) \in Nat
<1>1. call \in [effect : Effects, grant : Grants \cup {NoGrant}, now : 0..MaxTime]
  BY DEF Typed, TypeOK
<1>2. Effect \in EffectType
  BY <1>1, BrokerAssumption DEF Effect
<1>3. Effect.digest \in Digests /\ Effect.plan \in Plans /\ Effect.leases \in Seq(LeaseType)
  BY <1>2 DEF EffectType
<1>4. Len(Effect.leases) \in Nat
  BY <1>3
<1>5. QED
  BY <1>1, <1>3, <1>4 DEF Effect, Times

\* Only between calls may there have been none.
LEMMA NoCallIdle ==
    ASSUME Typed, at # "idle"
    PROVE  call # NoCall
<1>1. CASE call = NoCall
  BY <1>1 DEF Typed, TypeOK, NoCall
<1>2. QED
  BY <1>1

LEMMA VerdictTyped ==
    ASSUME Typed, at # "idle"
    PROVE  /\ policy \in Policies /\ policy[Effect.digest] \in Outcomes
           /\ Verdict \in Decided
<1>1. policy \in Policies /\ policy[Effect.digest] \in Outcomes
  BY Calling, BrokerAssumption DEF Typed, TypeOK
<1>2. Verdict \in Decided
  BY <1>1 DEF Verdict, Decided, Outcomes
<1>3. QED
  BY <1>1, <1>2

LEMMA RecordGrows ==
    ASSUME ledger \in Seq(AllFacts), NEW fact \in AllFacts, Record(fact)
    PROVE  ledger' \in Seq(AllFacts) /\ Facts' = Facts \cup {fact}
<1>1. ledger' = Append(ledger, fact)
  BY DEF Record
<1>2. /\ ledger' \in Seq(AllFacts) /\ Len(ledger') = Len(ledger) + 1
      /\ ledger'[Len(ledger')] = fact
      /\ \A i \in 1..Len(ledger) : ledger'[i] = ledger[i]
      /\ Len(ledger) \in Nat
  BY <1>1
<1>3. Facts' = Facts \cup {fact}
  BY <1>2 DEF Facts
<1>4. QED
  BY <1>2, <1>3

\* Of a store call that is answered Ok, an equal fact stands.
LEMMA AcceptedStands ==
    ASSUME ledger \in Seq(AllFacts), NEW fact \in AllFacts, Accepted(fact)
    PROVE  /\ ledger' \in Seq(AllFacts)
           /\ \E f \in Facts' : Store!SameRequest(f, fact)
           /\ Facts \subseteq Facts'
<1>1. CASE Record(fact)
  <2>1. Facts' = Facts \cup {fact} /\ ledger' \in Seq(AllFacts)
    BY <1>1, RecordGrows
  <2>2. Store!SameRequest(fact, fact)
    BY DEF Store!SameRequest
  <2>3. QED
    BY <2>1, <2>2
<1>2. CASE Replay(fact)
  <2>1. ledger' = ledger /\ Facts' = Facts
    BY <1>2 DEF Replay, Facts
  <2>2. QED
    BY <1>2, <2>1 DEF Replay, Stands
<1>3. QED
  BY <1>1, <1>2 DEF Accepted

\* What the call under way may ask the store to record.
LEMMA CallFacts ==
    ASSUME Typed, at # "idle"
    PROVE  /\ IntentFact("effect", Effect, call.now) \in AllFacts
           /\ ResultFact("effect", Effect, "completed", call.now) \in AllFacts
           /\ DecisionFact(Effect, policy, Verdict) \in AllFacts
           /\ \A r \in {"succeeded", "failed"} :
                EnforcementFact(Effect, policy, r, call.now) \in AllFacts
BY Calling, VerdictTyped DEF AllFacts, Intended, Concluded

LEMMA StoreGrows ==
    ASSUME Typed, [Next]_vars
    PROVE  ledger' \in Seq(AllFacts) /\ Facts \subseteq Facts'
<1>0. ledger \in Seq(AllFacts)
  BY DEF Typed
<1>1. CASE UNCHANGED ledger
  BY <1>0, <1>1 DEF Facts
<1>2. CASE Intent
  BY <1>0, <1>2, CallFacts, AcceptedStands DEF Intent
<1>3. CASE Decide
  BY <1>0, <1>3, CallFacts, AcceptedStands DEF Decide
<1>4. CASE Succeeded
  BY <1>0, <1>4, CallFacts, AcceptedStands DEF Succeeded, Enforced
<1>5. CASE Failed
  BY <1>0, <1>5, CallFacts, AcceptedStands DEF Failed, Enforced
<1>6. CASE Result
  BY <1>0, <1>6, CallFacts, AcceptedStands DEF Result
<1>7. QED
  BY <1>1, <1>2, <1>3, <1>4, <1>5, <1>6
  DEF Next, vars, Govern, Execute, Between, Call, CreateRealm, CreateFails, IntentFails,
      DecideFails, Mount, MountFails, Lease, EnforcementFails, Destroy, ResultFails,
      Exec, ExecFails, Register, RevokeReference, Tick, Die

LEMMA PerformTyped ==
    ASSUME Typed, at = "lease", Perform
    PROVE  performed' \in Seq(RunType)
<1>1. {Effect.leases[i].ref : i \in 1..granted} \subseteq Refs
  <2>1. granted \in Nat /\ granted <= Len(Effect.leases)
    BY NoCallIdle DEF Typed, TypeOK
  <2>2. \A i \in 1..granted : Effect.leases[i] \in LeaseType
    BY <2>1, Calling
  <2>3. QED
    BY <2>2 DEF LeaseType
<1>2. calls \in Nat /\ life \in Nat /\ call.now \in Nat /\ policy \in Policies
  BY Calling, BrokerAssumption DEF Typed, TypeOK, Times
<1>3. QED
  BY <1>1, <1>2, Calling DEF Perform, RunType, Typed

LEMMA TypedStep ==
    ASSUME Typed, [Next]_vars
    PROVE  Typed'
<1>0. ledger' \in Seq(AllFacts) /\ TypeOK
  BY StoreGrows DEF Typed
<1> USE <1>0, BrokerAssumption DEF Typed, TypeOK, Places, Answers, Go, Fail, memory, bounds
<1>1. CASE UNCHANGED vars
  BY <1>1 DEF vars, Effect
<1>2. ASSUME NEW e \in Effects, NEW g \in Grants \cup {NoGrant}, Call(e, g) PROVE Typed'
  BY <1>2 DEF Call, Effect, EffectType
<1>3. CASE CreateRealm
  BY <1>3 DEF CreateRealm, Effect
<1>4. CASE CreateFails
  BY <1>4 DEF CreateFails, Effect
<1>5. CASE Intent
  BY <1>5 DEF Intent, Effect
<1>6. CASE IntentFails
  BY <1>6 DEF IntentFails, Effect
<1>7. CASE Decide
  <2>1. consumed' \subseteq {g.id : g \in Grants}
    <3>1. Spends => call.grant \in Grants
      BY <1>7, Calling DEF Decide, Spends, NoGrant
    <3>2. QED
      BY <1>7, <3>1 DEF Decide
  <2>2. QED
    BY <1>7, <2>1 DEF Decide, Effect
<1>8. CASE DecideFails
  BY <1>8 DEF DecideFails, Effect
<1>9. CASE Mount
  BY <1>9 DEF Mount, Effect
<1>10. CASE MountFails
  BY <1>10 DEF MountFails, Effect
<1>11. CASE Lease
  <2>1. Len(Effect.leases) \in Nat
    BY <1>11, Calling DEF Lease
  <2>2. QED
    BY <1>11, <2>1 DEF Lease, Effect
<1>12. ASSUME NEW code \in {"zero", "nonzero"}, Exec(code) PROVE Typed'
  <2>1. performed' \in Seq(RunType)
    BY <1>12, PerformTyped DEF Exec
  <2>2. QED
    BY <1>12, <2>1 DEF Exec, Effect
<1>13. ASSUME NEW b \in BOOLEAN, ExecFails(b) PROVE Typed'
  <2>1. performed' \in Seq(RunType)
    BY <1>13, PerformTyped DEF ExecFails
  <2>2. QED
    BY <1>13, <2>1 DEF ExecFails, Effect
<1>14. CASE Succeeded
  BY <1>14 DEF Succeeded, Enforced, Effect
<1>15. CASE Failed
  BY <1>15 DEF Failed, Enforced, Effect
<1>16. CASE EnforcementFails
  BY <1>16 DEF EnforcementFails, Effect
<1>17. CASE Destroy
  BY <1>17 DEF Destroy, Effect
<1>18. CASE Result
  BY <1>18 DEF Result, Effect
<1>19. CASE ResultFails
  BY <1>19 DEF ResultFails, Effect
<1>20. CASE Tick
  BY <1>20 DEF Tick, Effect
<1>21. ASSUME NEW ref \in Refs, Register(ref) \/ RevokeReference(ref) PROVE Typed'
  BY <1>21 DEF Register, RevokeReference, Effect
<1>22. CASE Die
  BY <1>22 DEF Die, Effect
<1>23. QED
  BY <1>1, <1>2, <1>3, <1>4, <1>5, <1>6, <1>7, <1>8, <1>9, <1>10, <1>11, <1>12, <1>13,
     <1>14, <1>15, <1>16, <1>17, <1>18, <1>19, <1>20, <1>21, <1>22
  DEF Next, Govern, Execute, Between

\* Every variable keeps its type, and a call has one realm from its creation
\* to its destruction, whatever errs and whenever the process dies (TypeOK).
THEOREM BrokerTypes == Spec => []TypeOK
<1>1. Typed => TypeOK
  BY DEF Typed
<1>2. QED
  BY <1>1, InitTyped, TypedStep, PTL DEF Spec

-----------------------------------------------------------------------------
(* What each place of execute relies on.                                   *)

Announced == Stands(IntentFact("effect", Effect, call.now))
Allowed == Stands(DecisionFact(Effect, policy, "allow"))
Recorded(result) == Stands(EnforcementFact(Effect, policy, result, call.now))

\* The effect of this call is performed, and under its identity.
RanItself ==
    \E n \in 1..Len(performed) :
        performed[n].call = calls /\ performed[n].id = Effect.digest

Before == {"create", "journal", "decide", "mount", "lease"}

Completed == RanItself /\ Announced /\ Recorded("succeeded")

\* What AnswerTruthful asks of an answer.
Truth ==
    /\ answer \in {"EgressDenied", "Journal", "Policy", "Approval", "AuditBefore", "Secret"}
        => ~Ran
    /\ answer = "Secret" => Recorded("failed")
    /\ answer = "Sandbox" /\ Ran => Announced /\ Recorded("failed")
    /\ answer = "JournalAfter" => Ran /\ Announced /\ Recorded("succeeded")
    /\ answer = "Ok" =>
        /\ Ran /\ Announced /\ Recorded("succeeded")
        /\ Stands(ResultFact("effect", Effect, "completed", call.now))

Relies ==
    /\ \A n \in 1..Len(performed) : performed[n].call <= calls
    /\ at \in Before => ~Ran
    /\ at \in Before \cup {"succeeded", "result"} => answer = "none"
    /\ at \in {"decide", "mount", "lease", "succeeded", "failed"} => Announced
    /\ at \in {"mount", "lease", "succeeded", "failed"} => Allowed
    /\ at = "succeeded" => RanItself
    /\ at = "failed" => answer \in {"Sandbox", "Secret"} /\ (answer = "Secret" => ~Ran)
    /\ at \in {"destroy", "result"} /\ answer = "none" => Completed
    /\ at = "destroy" => Truth
    /\ at = "idle" /\ call # NoCall => Truth

Sound == Typed /\ Relies

LEMMA RanItselfRan == RanItself => Ran
BY DEF RanItself, Ran

\* Facts stay, and with them what is said of the call under way.
LEMMA Kept ==
    ASSUME Facts \subseteq Facts', UNCHANGED <<call, policy>>
    PROVE  /\ Announced => Announced'
           /\ Allowed => Allowed'
           /\ Recorded("failed") => Recorded("failed")'
           /\ Recorded("succeeded") => Recorded("succeeded")'
           /\ Stands(ResultFact("effect", Effect, "completed", call.now))
                => Stands(ResultFact("effect", Effect, "completed", call.now))'
BY DEF Announced, Allowed, Recorded, Stands, Effect

LEMMA RanKept ==
    ASSUME UNCHANGED <<call, calls, performed>>
    PROVE  Ran' = Ran /\ RanItself' = RanItself
BY DEF Ran, RanItself, Effect

\* An effect performed now is that of this call.
LEMMA PerformedNow ==
    ASSUME Sound, at = "lease", Perform, UNCHANGED <<call, calls>>
    PROVE  RanItself' /\ \A n \in 1..Len(performed') : performed'[n].call <= calls'
<1> DEFINE run == [id |-> Effect.digest, effect |-> Effect.plan, call |-> calls,
                   life |-> life, grant |-> call.grant, now |-> call.now,
                   policy |-> policy, refs |-> {Effect.leases[i].ref : i \in 1..granted}]
           k == Len(performed) + 1
<1>1. performed \in Seq(RunType) /\ performed' \in Seq(RunType) /\ calls \in Nat
  BY PerformTyped DEF Sound, Typed, TypeOK
<1>2. performed' = Append(performed, run)
  BY DEF Perform
<1> HIDE DEF run
<1>3. /\ Len(performed') = k /\ performed'[k] = run /\ Len(performed) \in Nat
      /\ \A n \in 1..Len(performed) : performed'[n] = performed[n]
  BY <1>1, <1>2
<1>4. run.call = calls /\ run.id = Effect.digest
  BY DEF run
<1>5. RanItself'
  BY <1>3, <1>4 DEF RanItself, Effect
<1>6. \A n \in 1..Len(performed') : performed'[n].call <= calls'
  BY <1>1, <1>3, <1>4 DEF Sound, Relies
<1>7. QED
  BY <1>5, <1>6

LEMMA InitSound == Init => Sound
<1>1. Init => Relies
  BY DEF Init, Relies, Before, NoCall
<1>2. QED
  BY <1>1, InitTyped DEF Sound

\* A step of the call under way that performs nothing.
Still == UNCHANGED <<call, policy, calls, performed>>

LEMMA SoundStep ==
    ASSUME Sound, [Next]_vars
    PROVE  Relies'
<1>0. /\ ledger \in Seq(AllFacts) /\ Typed /\ Relies /\ Facts \subseteq Facts'
      /\ calls \in Nat
  BY StoreGrows DEF Sound, Typed, TypeOK
<1>1. CASE UNCHANGED vars
  <2>1. Still
    BY <1>1 DEF vars, Still, memory, bounds
  <2>2. QED
    BY <1>0, <1>1, <2>1, Kept, RanKept DEF vars, Still, Relies, Truth, Completed
<1>2. ASSUME NEW e \in Effects, NEW g \in Grants \cup {NoGrant}, Call(e, g)
      PROVE  Relies'
  <2>1. calls' = calls + 1 /\ UNCHANGED performed
    BY <1>2 DEF Call
  <2>2. \A n \in 1..Len(performed) : performed[n].call \in Nat
    <3>1. performed \in Seq(RunType)
      BY <1>0 DEF Typed
    <3>2. \A n \in 1..Len(performed) : performed[n] \in RunType
      BY <3>1
    <3>3. QED
      BY <3>2 DEF RunType
  <2>3. ~Ran'
    BY <1>0, <2>1, <2>2 DEF Relies, Ran
  <2>4. \A n \in 1..Len(performed') : performed'[n].call <= calls'
    BY <1>0, <2>1, <2>2 DEF Relies
  <2>5. \/ at' = "create" /\ answer' = "none"
        \/ at' = "idle" /\ answer' = "EgressDenied"
    BY <1>2 DEF Call, Go, Fail
  <2>6. QED
    BY <2>3, <2>4, <2>5 DEF Relies, Truth, Before
<1>3. ASSUME Still, UNCHANGED ledger, NEW place, NEW failure,
             at' = place, answer' = failure, at \in Before, ~Ran,
             failure \in {"Sandbox", "Journal", "AuditBefore"},
             place \in {"idle", "destroy"}
      PROVE  Relies'
  BY <1>0, <1>3, RanKept DEF Still, Relies, Truth, Before
<1>4. CASE CreateRealm
  BY <1>0, <1>4, RanKept DEF CreateRealm, Go, Relies, Before, memory, bounds
<1>5. CASE CreateFails
  BY <1>0, <1>3, <1>5
  DEF CreateFails, Go, Fail, Still, Relies, Before, memory, bounds
<1>6. CASE Intent
  <2>1. Announced'
    BY <1>0, <1>6, CallFacts, AcceptedStands
    DEF Intent, Announced, Stands, Effect
  <2>2. QED
    BY <1>0, <1>6, <2>1, RanKept DEF Intent, Go, Relies, Before, memory, bounds
<1>7. CASE IntentFails
  BY <1>0, <1>3, <1>7
  DEF IntentFails, Go, Fail, Still, Relies, Before, memory, bounds
<1>8. CASE Decide
  <2>1. Verdict = "allow" => Allowed'
    BY <1>0, <1>8, CallFacts, AcceptedStands
    DEF Decide, Allowed, Stands, Effect
  <2>2. Still
    BY <1>8 DEF Decide, Still, bounds
  <2>3. QED
    BY <1>0, <1>8, <2>1, <2>2, RanKept, Kept
    DEF Decide, Go, Fail, Still, Relies, Before, Truth
<1>9. CASE DecideFails
  BY <1>0, <1>3, <1>9
  DEF DecideFails, Go, Fail, Still, Relies, Before, memory, bounds
<1>10. CASE Mount
  BY <1>0, <1>10, RanKept, Kept DEF Mount, Go, Relies, Before, memory, bounds
<1>11. CASE MountFails
  BY <1>0, <1>11, RanKept, Kept
  DEF MountFails, Go, Fail, Relies, Before, memory, bounds
<1>12. CASE Lease
  <2>1. Still /\ at = "lease"
    BY <1>12 DEF Lease, Still, memory, bounds
  <2>2. \/ at' = at /\ answer' = answer
        \/ at' = "failed" /\ answer' = "Secret"
    BY <1>12 DEF Lease, Go, Fail
  <2>3. QED
    BY <1>0, <2>1, <2>2, RanKept, Kept DEF Still, Relies, Before
<1>13. ASSUME NEW code \in {"zero", "nonzero"}, Exec(code) PROVE Relies'
  <2>1. RanItself' /\ \A n \in 1..Len(performed') : performed'[n].call <= calls'
    BY <1>13, PerformedNow DEF Exec, bounds
  <2>2. at = "lease" /\ at' = "succeeded" /\ answer' = answer /\ UNCHANGED <<call, policy>>
    BY <1>13 DEF Exec, Go, memory
  <2>3. QED
    BY <1>0, <2>1, <2>2, Kept DEF Relies, Before
<1>14. ASSUME NEW b \in BOOLEAN, ExecFails(b) PROVE Relies'
  <2>1. \A n \in 1..Len(performed') : performed'[n].call <= calls'
    <3>1. CASE b
      BY <1>14, <3>1, PerformedNow DEF ExecFails, bounds
    <3>2. CASE ~b
      BY <1>0, <1>14, <3>2 DEF ExecFails, bounds, Relies
    <3>3. QED
      BY <3>1, <3>2
  <2>2. /\ at = "lease" /\ at' = "failed" /\ answer' = "Sandbox"
        /\ UNCHANGED <<call, policy>>
    BY <1>14 DEF ExecFails, Go, Fail, memory
  <2>3. QED
    BY <1>0, <2>1, <2>2, Kept DEF Relies, Before
<1>15. CASE Succeeded
  <2>1. Recorded("succeeded")' /\ Still
    BY <1>0, <1>15, CallFacts, AcceptedStands
    DEF Succeeded, Enforced, Recorded, Stands, Effect, Still, memory, bounds
  <2>2. at = "succeeded" /\ at' = "destroy" /\ answer' = answer
    BY <1>15 DEF Succeeded, Enforced, Go
  <2>3. QED
    BY <1>0, <2>1, <2>2, RanKept, Kept DEF Still, Relies, Before, Completed, Truth
<1>16. CASE Failed
  <2>1. Recorded("failed")' /\ Still
    BY <1>0, <1>16, CallFacts, AcceptedStands
    DEF Failed, Enforced, Recorded, Stands, Effect, Still, memory, bounds
  <2>2. at = "failed" /\ at' = "destroy" /\ answer' = answer
    BY <1>16 DEF Failed, Enforced, Go
  <2>3. QED
    BY <1>0, <2>1, <2>2, RanKept, Kept DEF Still, Relies, Before, Truth
<1>17. CASE EnforcementFails
  BY <1>0, <1>17 DEF EnforcementFails, Go, Fail, Relies, Before, Truth, bounds
<1>18. CASE Destroy
  <2>1. Still
    BY <1>18 DEF Destroy, Still, memory, bounds
  <2>2. /\ at = "destroy" /\ answer' = answer
        /\ at' = IF answer = "none" THEN "result" ELSE "idle"
    BY <1>18 DEF Destroy, Go
  <2>3. QED
    BY <1>0, <2>1, <2>2, RanKept, Kept DEF Still, Relies, Before, Completed, Truth
<1>19. CASE Result
  <2>1. Stands(ResultFact("effect", Effect, "completed", call.now))' /\ Still
    BY <1>0, <1>19, CallFacts, AcceptedStands
    DEF Result, Stands, Effect, Still, memory, bounds
  <2>2. at = "result" /\ at' = "idle" /\ answer' = "Ok"
    BY <1>19 DEF Result, Go
  <2>3. Completed
    BY <1>0, <2>2 DEF Relies
  <2>4. QED
    BY <1>0, <2>1, <2>2, <2>3, RanKept, Kept, RanItselfRan
    DEF Still, Relies, Before, Completed, Truth
<1>20. CASE ResultFails
  <2>1. at = "result" /\ at' = "idle" /\ answer' = "JournalAfter" /\ Still
    BY <1>20 DEF ResultFails, Go, Fail, Still, memory, bounds
  <2>2. Completed
    BY <1>0, <2>1 DEF Relies
  <2>3. QED
    BY <1>0, <2>1, <2>2, RanKept, Kept, RanItselfRan
    DEF Still, Relies, Before, Completed, Truth
<1>21. CASE Tick
  BY <1>0, <1>21, RanKept, Kept DEF Tick, Relies, Before, Truth, memory
<1>22. ASSUME NEW ref \in Refs, Register(ref) \/ RevokeReference(ref) PROVE Relies'
  BY <1>0, <1>22, RanKept, Kept DEF Register, RevokeReference, Relies, Before, Truth, bounds
<1>23. CASE Die
  BY <1>0, <1>23 DEF Die, Go, Relies, Before, Truth
<1>24. QED
  BY <1>1, <1>2, <1>4, <1>5, <1>6, <1>7, <1>8, <1>9, <1>10, <1>11, <1>12, <1>13,
     <1>14, <1>15, <1>16, <1>17, <1>18, <1>19, <1>20, <1>21, <1>22, <1>23
  DEF Next, Govern, Execute, Between

LEMMA SpecSound == Spec => []Sound
<1>1. Sound /\ [Next]_vars => Sound'
  BY TypedStep, SoundStep DEF Sound
<1>2. QED
  BY <1>1, InitSound, PTL DEF Spec

\* What execute returns is true of the log and of the effect: the failures
\* that are to mean no effect mean it, and every other says what is recorded
\* (AnswerTruthful).
THEOREM AnswersAreTrue == Spec => []AnswerTruthful
<1>1. Sound => AnswerTruthful
  BY DEF Sound, Relies, Truth, AnswerTruthful, Announced, Recorded
<1>2. QED
  BY <1>1, SpecSound, PTL

-----------------------------------------------------------------------------
(* Audit before effect, as the implementation of AuditedEffects.           *)

Authorized == {f.obj[2].digest :
                  f \in {g \in FactsOf("decide", "decision") :
                            g.obj[2].verdict = "allow"}} \X Plans
Intents == {<<f.obj[2], f.arg>> : f \in FactsOf("intent", "effect")}
Results == {f.obj[2] : f \in FactsOf("result", "effect")}
PerformedEffects ==
    [n \in 1..Len(performed) |-> [id |-> performed[n].id, effect |-> performed[n].effect]]

mapped == <<Authorized, Intents, PerformedEffects, Results>>

LEMMA IntentShape ==
    ASSUME NEW k, NEW e, NEW t
    PROVE  /\ IntentFact(k, e, t).op = "intent"
           /\ IntentFact(k, e, t).obj = <<k, e.digest>>
           /\ IntentFact(k, e, t).arg = e.plan
BY DEF IntentFact, Fact

LEMMA ResultShape ==
    ASSUME NEW e, NEW t
    PROVE  /\ ResultFact("effect", e, "completed", t).op = "result"
           /\ ResultFact("effect", e, "completed", t).obj = <<"effect", e.digest>>
BY DEF ResultFact, Fact

LEMMA DecisionShape ==
    ASSUME NEW e, NEW p, NEW v
    PROVE  /\ DecisionFact(e, p, v).op = "decide"
           /\ DecisionFact(e, p, v).obj[1] = "decision"
           /\ DecisionFact(e, p, v).obj[2].digest = e.digest
           /\ DecisionFact(e, p, v).obj[2].verdict = v
BY DEF DecisionFact, Fact

LEMMA EnforcementShape ==
    ASSUME NEW e, NEW p, NEW r, NEW t
    PROVE  EnforcementFact(e, p, r, t).op = "enforce"
BY DEF EnforcementFact, Fact

\* Answered by an equal fact: of that operation, about that object.
LEMMA SameRequestSame ==
    ASSUME NEW f, NEW m, Store!SameRequest(f, m)
    PROVE  f.op = m.op /\ f.obj = m.obj /\ f.arg = m.arg
BY DEF Store!SameRequest, Store!Body

\* What the appending of a fact does to the mapped sets.
LEMMA MappedGrow ==
    ASSUME ledger \in Seq(AllFacts), NEW fact \in AllFacts, Record(fact)
    PROVE  /\ fact.op # "decide" => Authorized' = Authorized
           /\ fact.op = "decide" /\ fact.obj[1] = "decision" =>
                Authorized' = IF fact.obj[2].verdict = "allow"
                              THEN Authorized \cup ({fact.obj[2].digest} \X Plans)
                              ELSE Authorized
           /\ Intents' = IF fact.op = "intent" /\ fact.obj[1] = "effect"
                         THEN Intents \cup {<<fact.obj[2], fact.arg>>} ELSE Intents
           /\ Results' = IF fact.op = "result" /\ fact.obj[1] = "effect"
                         THEN Results \cup {fact.obj[2]} ELSE Results
<1>1. Facts' = Facts \cup {fact}
  BY RecordGrows
<1>2. Intents' = IF fact.op = "intent" /\ fact.obj[1] = "effect"
                 THEN Intents \cup {<<fact.obj[2], fact.arg>>} ELSE Intents
  BY <1>1 DEF Intents, FactsOf
<1>3. Results' = IF fact.op = "result" /\ fact.obj[1] = "effect"
                 THEN Results \cup {fact.obj[2]} ELSE Results
  BY <1>1 DEF Results, FactsOf
<1>4. fact.op # "decide" => Authorized' = Authorized
  BY <1>1 DEF Authorized, FactsOf
<1>5. fact.op = "decide" /\ fact.obj[1] = "decision" =>
        Authorized' = IF fact.obj[2].verdict = "allow"
                      THEN Authorized \cup ({fact.obj[2].digest} \X Plans)
                      ELSE Authorized
  BY <1>1 DEF Authorized, FactsOf
<1>6. QED
  BY <1>2, <1>3, <1>4, <1>5

LEMMA MappedStay ==
    /\ UNCHANGED ledger => UNCHANGED <<Authorized, Intents, Results>>
    /\ UNCHANGED performed => UNCHANGED PerformedEffects
BY DEF Authorized, Intents, Results, PerformedEffects, FactsOf, Facts

\* The object of an intent is its kind and the digest it names.
LEMMA IntentObject ==
    ASSUME NEW f \in AllFacts, f.op = "intent"
    PROVE  f.obj = <<f.obj[1], f.obj[2]>>
<1>1. CASE \E k \in Intended, e \in Effects, t \in Times : f = IntentFact(k, e, t)
  BY <1>1, IntentShape
<1>2. QED
  BY <1>1 DEF AllFacts, DecisionFact, ResultFact, EnforcementFact, Fact

AbstractNext == [A!Next]_A!vars

LEMMA AbstractStutter ==
    ASSUME UNCHANGED mapped
    PROVE  AbstractNext
BY DEF mapped, AbstractNext, A!vars, Authorized, Intents, PerformedEffects, Results

\* A fact that is answered as recorded before is no step of the abstraction.
LEMMA AbstractIntent ==
    ASSUME Sound, Intent
    PROVE  AbstractNext
<1> DEFINE fact == IntentFact("effect", Effect, call.now)
<1>1. /\ fact \in AllFacts /\ Effect.digest \in Digests /\ Effect.plan \in Plans
      /\ ledger \in Seq(AllFacts) /\ UNCHANGED performed /\ Accepted(fact)
  BY Calling, CallFacts DEF Sound, Typed, Intent
<1>2. /\ fact.op = "intent" /\ fact.obj = <<"effect", Effect.digest>>
      /\ fact.obj[1] = "effect" /\ fact.obj[2] = Effect.digest /\ fact.arg = Effect.plan
  BY IntentShape
<1> HIDE DEF fact
<1>3. CASE Record(fact)
  <2>1. /\ Intents' = Intents \cup {<<Effect.digest, Effect.plan>>}
        /\ UNCHANGED <<Authorized, Results, PerformedEffects>>
    BY <1>1, <1>2, <1>3, MappedGrow, MappedStay
  <2>2. \A g \in Facts : g.op = "intent" => g.obj # <<"effect", Effect.digest>>
    BY <1>2, <1>3 DEF Record, Store!Legal, Store!Has, Facts
  <2>3. \A g \in Facts : g.op = "intent" => g.obj = <<g.obj[1], g.obj[2]>>
    BY <1>1, IntentObject DEF Facts
  <2>4. \A e \in Plans : <<Effect.digest, e>> \notin Intents
    BY <2>2, <2>3 DEF Intents, FactsOf
  <2>5. A!Announce(Effect.digest, Effect.plan)
    BY <2>1, <2>4 DEF A!Announce, Authorized, Intents, PerformedEffects, Results
  <2>6. QED
    BY <1>1, <2>5 DEF AbstractNext, A!Next, A!Announce
<1>4. CASE Replay(fact)
  BY <1>1, <1>4, MappedStay, AbstractStutter DEF Replay, mapped
<1>5. QED
  BY <1>1, <1>3, <1>4 DEF Accepted

LEMMA AbstractDecide ==
    ASSUME Sound, Decide
    PROVE  AbstractNext
<1> DEFINE fact == DecisionFact(Effect, policy, Verdict)
<1>1. /\ fact \in AllFacts /\ Effect.digest \in Digests
      /\ ledger \in Seq(AllFacts) /\ UNCHANGED performed /\ Accepted(fact)
  BY Calling, CallFacts DEF Sound, Typed, Decide
<1>2. /\ fact.op = "decide" /\ fact.obj[1] = "decision"
      /\ fact.obj[2].digest = Effect.digest
  BY DecisionShape
<1> HIDE DEF fact
<1>3. CASE Record(fact) /\ fact.obj[2].verdict = "allow"
  <2>1. /\ Authorized' = Authorized \cup ({Effect.digest} \X Plans)
        /\ UNCHANGED <<Intents, Results, PerformedEffects>>
    BY <1>1, <1>2, <1>3, MappedGrow, MappedStay
  <2>2. A!Authorize(Effect.digest, Plans)
    BY <2>1 DEF A!Authorize, Authorized, Intents, PerformedEffects, Results
  <2>3. Plans \in SUBSET Plans
    OBVIOUS
  <2>4. QED
    BY <1>1, <2>2, <2>3 DEF AbstractNext, A!Next, A!Authorize
<1>4. CASE Record(fact) /\ fact.obj[2].verdict # "allow"
  BY <1>1, <1>2, <1>4, MappedGrow, MappedStay, AbstractStutter DEF mapped
<1>5. CASE Replay(fact)
  BY <1>1, <1>5, MappedStay, AbstractStutter DEF Replay, mapped
<1>6. QED
  BY <1>1, <1>3, <1>4, <1>5 DEF Accepted

\* The effect runs where its intent and its decision stand.
LEMMA AbstractPerform ==
    ASSUME Sound, at = "lease", Perform, UNCHANGED ledger
    PROVE  AbstractNext
<1>1. /\ Announced /\ Allowed /\ performed \in Seq(RunType)
      /\ Effect.digest \in Digests /\ Effect.plan \in Plans
  BY Calling DEF Sound, Relies, Typed
<1>2. PICK f \in Facts : Store!SameRequest(f, IntentFact("effect", Effect, call.now))
  BY <1>1 DEF Announced, Stands
<1>3. <<Effect.digest, Effect.plan>> \in Intents
  <2>1. /\ f.op = "intent" /\ f.obj = <<"effect", Effect.digest>> /\ f.arg = Effect.plan
    BY <1>2, SameRequestSame, IntentShape
  <2>2. QED
    BY <2>1 DEF Intents, FactsOf
<1>4. PICK d \in Facts : Store!SameRequest(d, DecisionFact(Effect, policy, "allow"))
  BY <1>1 DEF Allowed, Stands
<1>5. <<Effect.digest, Effect.plan>> \in Authorized
  <2>1. /\ d.op = "decide" /\ d.obj[1] = "decision"
        /\ d.obj[2].digest = Effect.digest /\ d.obj[2].verdict = "allow"
    BY <1>4, SameRequestSame, DecisionShape
  <2>2. QED
    BY <1>1, <2>1 DEF Authorized, FactsOf
<1>6. PerformedEffects' =
        Append(PerformedEffects, [id |-> Effect.digest, effect |-> Effect.plan])
  <2> DEFINE k == Len(performed) + 1
  <2>1. /\ Len(performed') = k /\ Len(performed) \in Nat
        /\ \A n \in 1..Len(performed) : performed'[n] = performed[n]
        /\ performed'[k].id = Effect.digest /\ performed'[k].effect = Effect.plan
    BY <1>1 DEF Perform
  <2>2. PerformedEffects \in Seq([id : Digests, effect : Plans])
        /\ Len(PerformedEffects) = Len(performed)
    <3>1. \A n \in 1..Len(performed) : performed[n] \in RunType
      BY <1>1
    <3>2. PerformedEffects \in [1..Len(performed) -> [id : Digests, effect : Plans]]
      <4>1. \A n \in 1..Len(performed) :
              [id |-> performed[n].id, effect |-> performed[n].effect]
                \in [id : Digests, effect : Plans]
        BY <3>1 DEF RunType
      <4>2. QED
        BY <4>1 DEF PerformedEffects
    <3>3. Len(performed) \in Nat
      BY <2>1
    <3>4. PerformedEffects \in Seq([id : Digests, effect : Plans])
      BY <3>2, <3>3, SeqDef
    <3>5. DOMAIN PerformedEffects = 1..Len(performed)
      BY <3>2
    <3>6. QED
      BY <3>3, <3>4, <3>5
  <2>3. PerformedEffects' = [n \in 1..k |->
            [id |-> performed'[n].id, effect |-> performed'[n].effect]]
    BY <2>1 DEF PerformedEffects
  <2>4. \A n \in 1..k : PerformedEffects'[n] =
            IF n = k THEN [id |-> Effect.digest, effect |-> Effect.plan]
                     ELSE PerformedEffects[n]
    BY <2>1, <2>3 DEF PerformedEffects
  <2>5. QED
    BY <2>1, <2>2, <2>3, <2>4
<1>7. UNCHANGED <<Authorized, Intents, Results>>
  BY MappedStay
<1>8. A!Perform(Effect.digest, Effect.plan)
  BY <1>3, <1>5, <1>6, <1>7
  DEF A!Perform, Authorized, Intents, PerformedEffects, Results
<1>9. QED
  BY <1>1, <1>8 DEF AbstractNext, A!Next, A!Perform

LEMMA AbstractResult ==
    ASSUME Sound, Result
    PROVE  AbstractNext
<1> DEFINE fact == ResultFact("effect", Effect, "completed", call.now)
<1>1. /\ fact \in AllFacts /\ Effect.digest \in Digests
      /\ ledger \in Seq(AllFacts) /\ UNCHANGED performed /\ Accepted(fact)
  BY Calling, CallFacts DEF Sound, Typed, Result
<1>2. fact.op = "result" /\ fact.obj[1] = "effect" /\ fact.obj[2] = Effect.digest
  BY ResultShape
<1> HIDE DEF fact
<1>3. CASE Record(fact)
  <2>1. /\ Results' = Results \cup {Effect.digest}
        /\ UNCHANGED <<Authorized, Intents, PerformedEffects>>
    BY <1>1, <1>2, <1>3, MappedGrow, MappedStay
  <2>2. RanItself
    BY DEF Sound, Relies, Result, Completed
  <2>3. /\ Len(PerformedEffects) = Len(performed)
        /\ \A n \in 1..Len(performed) : PerformedEffects[n].id = performed[n].id
    <3>1. performed \in Seq(RunType) /\ Len(performed) \in Nat
      BY DEF Sound, Typed
    <3>2. QED
      BY <3>1 DEF PerformedEffects
  <2>4. \E n \in 1..Len(PerformedEffects) : PerformedEffects[n].id = Effect.digest
    BY <2>2, <2>3 DEF RanItself
  <2>5. A!Settle(Effect.digest)
    BY <2>1, <2>4 DEF A!Settle, Authorized, Intents, PerformedEffects, Results
  <2>6. QED
    BY <1>1, <2>5 DEF AbstractNext, A!Next, A!Settle
<1>4. CASE Replay(fact)
  BY <1>1, <1>4, MappedStay, AbstractStutter DEF Replay, mapped
<1>5. QED
  BY <1>1, <1>3, <1>4 DEF Accepted

LEMMA AbstractEnforced ==
    ASSUME Sound, Succeeded \/ Failed
    PROVE  AbstractNext
<1>1. PICK r \in {"succeeded", "failed"} :
        /\ Accepted(EnforcementFact(Effect, policy, r, call.now))
        /\ UNCHANGED performed /\ at # "idle"
  BY DEF Succeeded, Failed, Enforced
<1> DEFINE fact == EnforcementFact(Effect, policy, r, call.now)
<1>2. fact \in AllFacts /\ fact.op = "enforce" /\ ledger \in Seq(AllFacts)
  BY <1>1, CallFacts, EnforcementShape DEF Sound, Typed
<1> HIDE DEF fact
<1>3. CASE Record(fact)
  BY <1>1, <1>2, <1>3, MappedGrow, MappedStay, AbstractStutter DEF mapped
<1>4. CASE Replay(fact)
  BY <1>1, <1>4, MappedStay, AbstractStutter DEF Replay, mapped
<1>5. QED
  BY <1>1, <1>3, <1>4 DEF Accepted, fact

\* The intents, decisions and results of the log frame every effect performed,
\* through retries, errors and restarts (ImplementsAuditedEffects).
THEOREM BrokerImplementsAuditedEffects == Spec => ImplementsAuditedEffects
<1>1. Init => A!Init
  BY DEF Init, A!Init, FactsOf, Facts
<1>2. Sound /\ [Next]_vars => [A!Next]_A!vars
  <2> SUFFICES ASSUME Sound, [Next]_vars PROVE AbstractNext
    BY DEF AbstractNext
  <2>1. CASE UNCHANGED <<ledger, performed>>
    BY <2>1, MappedStay, AbstractStutter DEF mapped
  <2>2. CASE Perform /\ at = "lease" /\ UNCHANGED ledger
    BY <2>2, AbstractPerform
  <2>3. QED
    BY <2>1, <2>2, AbstractIntent, AbstractDecide, AbstractResult, AbstractEnforced
    DEF Next, vars, Govern, Execute, Between, Call, CreateRealm, CreateFails, IntentFails,
        DecideFails, Mount, MountFails, Lease, EnforcementFails, Destroy, ResultFails,
        Exec, ExecFails, Register, RevokeReference, Tick, Die
<1>3. QED
  BY <1>1, <1>2, SpecSound, PTL DEF Spec, ImplementsAuditedEffects, A!Spec

-----------------------------------------------------------------------------
(* What ran was governed by its own call.                                  *)

Approved(run) == run.policy[run.id] = "require_approval"

\* The terms of RanAsGoverned about the run at n of p.
Credentialed(run) ==
    \E e \in Effects :
        /\ e.digest = run.id /\ e.plan = run.effect
        /\ run.refs = {e.leases[i].ref : i \in 1..Len(e.leases)}
        /\ \A i \in 1..Len(e.leases) :
            e.leases[i].digest = run.id /\ run.now < e.leases[i].expires

Sanctioned(p, n) ==
    /\ p[n].policy[p[n].id] # "deny"
    /\ Approved(p[n]) =>
        /\ p[n].grant # NoGrant
        /\ p[n].grant.digest = p[n].id /\ p[n].now < p[n].grant.expires
        /\ p[n].grant.once =>
            ~\E m \in 1..(n - 1) :
                p[m].life = p[n].life /\ Approved(p[m]) /\ p[m].grant = p[n].grant

LEMMA RanAsGovernedParts ==
    RanAsGoverned <=>
        \A n \in 1..Len(performed) : Sanctioned(performed, n) /\ Credentialed(performed[n])
BY DEF RanAsGoverned, Sanctioned, Approved, Credentialed

LEMMA SanctionedStays ==
    ASSUME NEW p, NEW q, NEW n \in Nat, \A m \in 1..n : q[m] = p[m], n > 0, Sanctioned(p, n)
    PROVE  Sanctioned(q, n)
<1>1. q[n] = p[n] /\ \A m \in 1..(n - 1) : q[m] = p[m]
  OBVIOUS
<1>2. QED
  BY <1>1 DEF Sanctioned, Approved

LEMMA RanAsGovernedStays ==
    ASSUME RanAsGoverned, UNCHANGED performed
    PROVE  RanAsGoverned'
<1>1. \A n \in 1..Len(performed') : Sanctioned(performed', n) /\ Credentialed(performed'[n])
  BY RanAsGovernedParts
<1>2. RanAsGoverned' <=>
        \A n \in 1..Len(performed') : Sanctioned(performed', n) /\ Credentialed(performed'[n])
  BY DEF RanAsGoverned, Sanctioned, Approved, Credentialed
<1>3. QED
  BY <1>1, <1>2

\* What ran under a once-grant in this life has spent it.
Charged ==
    \A m \in 1..Len(performed) :
        /\ performed[m].life <= life
        /\ performed[m].life = life /\ Approved(performed[m]) /\ performed[m].grant.once =>
             performed[m].grant.id \in consumed

Unused(g) ==
    \A m \in 1..Len(performed) :
        ~(performed[m].life = life /\ Approved(performed[m]) /\ performed[m].grant = g)

\* The policy permits the effect of this call, or its grant does.
Permitted ==
    /\ policy[Effect.digest] # "deny"
    /\ policy[Effect.digest] = "require_approval" =>
        /\ call.grant # NoGrant
        /\ call.grant.digest = Effect.digest /\ call.now < call.grant.expires
        /\ call.grant.once => call.grant.id \in consumed /\ Unused(call.grant)

Leased ==
    \A i \in 1..granted :
        Effect.leases[i].digest = Effect.digest /\ call.now < Effect.leases[i].expires

Governed ==
    /\ RanAsGoverned
    /\ Charged
    /\ at \in {"mount", "lease"} => Permitted
    /\ at \in Before => Leased

LEMMA RunGoverned ==
    ASSUME Typed, Governed, at = "lease", granted = Len(Effect.leases), Perform,
           UNCHANGED <<call, life, consumed, policy>>
    PROVE  RanAsGoverned' /\ Charged'
<1> DEFINE run == [id |-> Effect.digest, effect |-> Effect.plan, call |-> calls,
                   life |-> life, grant |-> call.grant, now |-> call.now,
                   policy |-> policy, refs |-> {Effect.leases[i].ref : i \in 1..granted}]
           k == Len(performed) + 1
<1>1. performed \in Seq(RunType) /\ performed' = Append(performed, run)
  BY DEF Typed, Perform
<1>2. Permitted /\ Leased /\ RanAsGoverned /\ Charged /\ life \in Nat
  BY BrokerAssumption DEF Governed, Before, Typed, TypeOK
<1>3. /\ run.id = Effect.digest /\ run.effect = Effect.plan /\ run.life = life
      /\ run.grant = call.grant /\ run.now = call.now /\ run.policy = policy
      /\ run.refs = {Effect.leases[i].ref : i \in 1..Len(Effect.leases)}
  OBVIOUS
<1> HIDE DEF run
<1>4. /\ Len(performed') = k /\ performed'[k] = run /\ Len(performed) \in Nat
      /\ \A n \in 1..Len(performed) : performed'[n] = performed[n]
  BY <1>1
<1> HIDE DEF k
<1>5. \A n \in 1..Len(performed') : n = k \/ n \in 1..Len(performed)
  BY <1>4 DEF k
<1>6. Charged'
  <2>1. life <= life
    BY <1>2
  <2>2. Approved(run) /\ run.grant.once => run.grant.id \in consumed
    BY <1>2, <1>3 DEF Permitted, Approved
  <2>3. QED
    BY <1>2, <1>3, <1>4, <1>5, <2>1, <2>2 DEF Charged, Approved
<1>7. Credentialed(run)
  BY <1>2, <1>3, Calling DEF Leased, Credentialed
<1>8. ASSUME NEW n \in 1..Len(performed')
      PROVE  Sanctioned(performed', n) /\ Credentialed(performed'[n])
  <2>1. CASE n = k
    <3>1. \A m \in 1..(n - 1) : m \in 1..Len(performed) /\ performed'[m] = performed[m]
      BY <1>4, <2>1 DEF k
    <3>2. performed'[n] = run
      BY <1>4, <2>1
    <3>3. Sanctioned(performed', n)
      BY <1>2, <1>3, <3>1, <3>2 DEF Permitted, Unused, Sanctioned, Approved
    <3>4. QED
      BY <1>7, <3>2, <3>3
  <2>2. CASE n \in 1..Len(performed)
    <3>1. n \in Nat /\ n > 0 /\ \A m \in 1..n : performed'[m] = performed[m]
      BY <1>4, <2>2
    <3>2. Sanctioned(performed, n) /\ Credentialed(performed[n])
      BY <1>2, <2>2, RanAsGovernedParts
    <3>3. Sanctioned(performed', n)
      BY <3>1, <3>2, SanctionedStays
    <3>4. QED
      BY <3>1, <3>2, <3>3
  <2>3. QED
    BY <1>5, <2>1, <2>2
<1>9. RanAsGoverned'
  BY <1>8 DEF RanAsGoverned, Sanctioned, Approved, Credentialed
<1>10. QED
  BY <1>6, <1>9

\* A step that neither performs an effect nor changes what those that ran are
\* held to.
LEMMA StaysGoverned ==
    ASSUME Governed, UNCHANGED <<performed, life>>, consumed \subseteq consumed'
    PROVE  /\ RanAsGoverned' /\ Charged'
           /\ UNCHANGED <<call, policy>> /\ Permitted => Permitted'
           /\ UNCHANGED <<call, granted>> /\ Leased => Leased'
<1>1. Charged'
  BY DEF Governed, Charged, Approved
<1>2. RanAsGoverned'
  BY RanAsGovernedStays DEF Governed
<1>3. UNCHANGED <<call, policy>> /\ Permitted => Permitted'
  BY DEF Permitted, Unused, Approved, Effect
<1>4. UNCHANGED <<call, granted>> /\ Leased => Leased'
  BY DEF Leased, Effect
<1>5. QED
  BY <1>1, <1>2, <1>3, <1>4

LEMMA GovernedStep ==
    ASSUME Typed, Governed, [Next]_vars
    PROVE  Governed'
<1>1. CASE UNCHANGED <<performed, life, consumed, call, policy, granted>>
           /\ (at' \in Before => at \in Before)
           /\ (at' \in {"mount", "lease"} => at \in {"mount", "lease"})
  BY <1>1, StaysGoverned DEF Governed
<1>2. ASSUME NEW e \in Effects, NEW g \in Grants \cup {NoGrant}, Call(e, g)
      PROVE  Governed'
  <2>1. Leased' /\ at' \notin {"mount", "lease"}
    BY <1>2 DEF Call, Leased, Go, Fail
  <2>2. UNCHANGED <<performed, life, consumed>>
    BY <1>2 DEF Call, memory
  <2>3. QED
    BY <2>1, <2>2, StaysGoverned DEF Governed
<1>3. CASE Decide
  <2>1. /\ UNCHANGED <<performed, life, call, granted, policy>> /\ consumed \subseteq consumed'
        /\ at = "decide" /\ at' \in {"mount", "destroy"}
        /\ at' = "mount" => Verdict = "allow"
    BY <1>3 DEF Decide, bounds, Go, Fail
  <2>2. Leased /\ Charged
    BY <2>1 DEF Governed, Before
  <2>3. ASSUME at' = "mount" PROVE Permitted'
    <3>1. Verdict = "allow" /\ policy[Effect.digest] \in Outcomes
      BY <2>1, <2>3, VerdictTyped
    <3>2. policy[Effect.digest] # "deny"
      BY <3>1 DEF Verdict
    <3>3. policy[Effect.digest] = "require_approval" => ValidGrant(call.grant)
      BY <3>1 DEF Verdict
    <3>4. ASSUME policy[Effect.digest] = "require_approval", call.grant.once
          PROVE  call.grant.id \in consumed' /\ Unused(call.grant)'
      <4>1. call.grant.id \notin consumed
        BY <3>3, <3>4 DEF ValidGrant
      <4>2. Unused(call.grant)
        BY <2>2, <3>4, <4>1 DEF Charged, Unused
      <4>3. Unused(call.grant)'
        BY <2>1, <4>2 DEF Unused, Approved
      <4>4. call.grant.id \in consumed'
        BY <1>3, <3>1, <3>4 DEF Decide, Spends
      <4>5. QED
        BY <4>3, <4>4
    <3>5. QED
      BY <2>1, <3>2, <3>3, <3>4 DEF Permitted, ValidGrant, Effect
  <2>4. QED
    BY <2>1, <2>2, <2>3, StaysGoverned DEF Governed, Before
<1>4. CASE Lease
  <2>1. /\ UNCHANGED <<performed, life, consumed, call, policy>> /\ at = "lease"
        /\ granted < Len(Effect.leases)
        /\ \/ LeaseGranted(NextLease) /\ granted' = granted + 1
           \/ granted' = granted /\ at' = "failed"
    BY <1>4 DEF Lease, memory, bounds, Go, Fail
  <2>2. Leased /\ Permitted /\ granted \in Nat
    BY <2>1 DEF Governed, Before, Typed, TypeOK
  <2>3. LeaseGranted(NextLease) /\ granted' = granted + 1 => Leased'
    <3> SUFFICES ASSUME LeaseGranted(NextLease), granted' = granted + 1,
                        NEW i \in 1..(granted + 1)
                 PROVE  /\ Effect.leases[i].digest = Effect.digest
                        /\ call.now < Effect.leases[i].expires
      BY <2>1 DEF Leased, Effect
    <3>1. CASE i = granted + 1
      <4>1. NextLease \in LeaseType
        BY <2>1, <2>2, Calling DEF NextLease
      <4>2. NextLease.expires \in Nat /\ call.now \in Nat
        BY <2>1, <4>1, Calling, BrokerAssumption DEF LeaseType, Times
      <4>3. QED
        BY <3>1, <4>2 DEF LeaseGranted, NextLease
    <3>2. CASE i \in 1..granted
      BY <2>2, <3>2 DEF Leased
    <3>3. QED
      BY <2>2, <3>1, <3>2
  <2>4. QED
    BY <2>1, <2>2, <2>3, StaysGoverned DEF Governed, Before
<1>5. ASSUME NEW code \in {"zero", "nonzero"}, Exec(code) PROVE Governed'
  BY <1>5, RunGoverned DEF Exec, bounds, memory, Go, Governed, Before
<1>6. ASSUME NEW b \in BOOLEAN, ExecFails(b) PROVE Governed'
  <2>1. CASE b
    BY <1>6, <2>1, RunGoverned DEF ExecFails, bounds, memory, Go, Fail, Governed, Before
  <2>2. CASE ~b
    BY <1>1, <1>6, <2>2 DEF ExecFails, bounds, memory, Go, Fail, Before
  <2>3. QED
    BY <2>1, <2>2
<1>7. CASE Die
  <2>1. /\ UNCHANGED performed /\ life' = life + 1 /\ at' = "idle" /\ life \in Nat
    BY <1>7, BrokerAssumption DEF Die, Go, Typed, TypeOK
  <2>2. \A m \in 1..Len(performed) : performed[m].life \in Nat
    <3>1. performed \in Seq(RunType)
      BY DEF Typed
    <3>2. \A m \in 1..Len(performed) : performed[m] \in RunType
      BY <3>1
    <3>3. QED
      BY <3>2 DEF RunType
  <2>3. Charged'
    BY <2>1, <2>2 DEF Governed, Charged
  <2>4. RanAsGoverned'
    BY <2>1, RanAsGovernedStays DEF Governed
  <2>5. QED
    BY <2>1, <2>3, <2>4 DEF Governed, Before
<1>8. QED
  BY <1>1, <1>2, <1>3, <1>4, <1>5, <1>6, <1>7
  DEF Next, vars, Govern, Execute, Between, CreateRealm, CreateFails, Intent, IntentFails,
      DecideFails, Mount, MountFails, Succeeded, Failed, Enforced, EnforcementFails, Destroy,
      Result, ResultFails, Register, RevokeReference, Tick, memory, bounds, Go, Fail, Before

\* What ran was permitted by the policy of its own call, or by a grant for this
\* very request and in time; a once-grant ran one effect per life; and every
\* credential it held was leased to it (RanAsGoverned).
THEOREM EffectsAreGoverned == Spec => []RanAsGoverned
<1>1. Init => Governed
  BY DEF Init, Governed, RanAsGoverned, Charged, Before
<1>2. Typed /\ Governed /\ [Next]_vars => Governed'
  BY GovernedStep
<1>3. Governed => RanAsGoverned
  BY DEF Governed
<1>4. QED
  BY <1>1, <1>2, <1>3, InitTyped, TypedStep, PTL DEF Spec
=============================================================================
