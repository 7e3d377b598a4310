--------------------------- MODULE OneShotRunProofs ---------------------------
(***************************************************************************)
(* For every number of processes, every store and every options they are   *)
(* given: the types, audit before effect as a refinement, fresh numbers,   *)
(* truthful reports and truthful enforcement records.                      *)
(*                                                                         *)
(* The argument is the same throughout.  What a process relies on at a     *)
(* place of its program is that some fact of its own making stands in the  *)
(* store; facts are never removed, so no step of another process can take  *)
(* that away.  Where two processes share a run they rely on equal facts.   *)
(***************************************************************************)
EXTENDS OneShotRun, FiniteSetTheorems, TLAPS

-----------------------------------------------------------------------------
(* The ledger only grows.                                                  *)

LEMMA FactTypes ==
    ASSUME NEW n \in 1..MaxRuns, NEW o \in Options
    PROVE  /\ RunFact(n, o) \in AllFacts /\ ServedFact(n) \in AllFacts
           /\ DecisionFact(n, o) \in AllFacts /\ IntentFact(n, o) \in AllFacts
           /\ \A r \in Outcomes : ResultFact(n, o, r) \in AllFacts
           /\ \A v \in Verdicts : EnforcementFact(n, o, v) \in AllFacts
BY DEF AllFacts

LEMMA RecordGrows ==
    ASSUME ledger \in Seq(AllFacts), NEW fact \in AllFacts, Record(fact)
    PROVE  /\ ledger' \in Seq(AllFacts)
           /\ Facts' = Facts \cup {fact}
           /\ Len(ledger') = Len(ledger) + 1 /\ ledger'[Len(ledger')] = fact
           /\ \A i \in 1..Len(ledger) : ledger'[i] = ledger[i]
<1>1. ledger' = Append(ledger, fact)
  BY DEF Record
<1>2. /\ ledger' \in Seq(AllFacts) /\ Len(ledger') = Len(ledger) + 1
      /\ ledger'[Len(ledger')] = fact
      /\ \A i \in 1..Len(ledger) : ledger'[i] = ledger[i]
  BY <1>1
<1>3. Len(ledger) \in Nat
  OBVIOUS
<1>4. Facts' = Facts \cup {fact}
  BY <1>2, <1>3 DEF Facts
<1>5. QED
  BY <1>2, <1>4

\* Of a call that is answered Ok: an equal fact stands, whoever recorded it.
LEMMA AcceptedStands ==
    ASSUME ledger \in Seq(AllFacts), NEW fact \in AllFacts, Accepted(fact)
    PROVE  /\ ledger' \in Seq(AllFacts)
           /\ \E f \in Facts' : Store!SameRequest(f, fact)
           /\ Facts' = Facts \cup {fact} \/ ledger' = ledger
           /\ Facts \subseteq Facts'
<1>1. CASE Record(fact)
  <2>1. Facts' = Facts \cup {fact} /\ ledger' \in Seq(AllFacts)
    BY <1>1, RecordGrows
  <2>2. Store!SameRequest(fact, fact)
    BY DEF Store!SameRequest
  <2>3. QED
    BY <2>1, <2>2
<1>2. CASE Replay(fact)
  <2>1. ledger' = ledger /\ Facts' = Facts
    BY <1>2 DEF Replay, Facts
  <2>2. QED
    BY <1>2, <2>1 DEF Replay
<1>3. QED
  BY <1>1, <1>2 DEF Accepted

\* Answered by an equal fact: of that operation, about that object.
LEMMA SameRequestSame ==
    ASSUME NEW f, NEW m, Store!SameRequest(f, m)
    PROVE  \/ f = m
           \/ f.op = m.op /\ f.obj = m.obj /\ f.arg = m.arg
BY DEF Store!SameRequest, Store!Body

-----------------------------------------------------------------------------
(* The number of runs.                                                     *)

Creations == {i \in 1..Len(ledger) : ledger[i].op = "create"}

LEMMA CountIsNat ==
    ASSUME ledger \in Seq(AllFacts)
    PROVE  IsFiniteSet(Creations) /\ RunCount \in Nat /\ RunCount = Cardinality(Creations)
<1>1. IsFiniteSet(1..Len(ledger))
  BY FS_Interval
<1>2. IsFiniteSet(Creations)
  BY <1>1, FS_Subset DEF Creations
<1>3. QED
  BY <1>2, FS_CardinalityType DEF RunCount, Creations

LEMMA CountGrows ==
    ASSUME ledger \in Seq(AllFacts), NEW fact \in AllFacts, Record(fact)
    PROVE  RunCount' = IF fact.op = "create" THEN RunCount + 1 ELSE RunCount
<1> DEFINE n == Len(ledger) + 1
<1>1. /\ Len(ledger') = n /\ ledger'[n] = fact /\ Len(ledger) \in Nat
      /\ \A i \in 1..Len(ledger) : ledger'[i] = ledger[i]
  BY RecordGrows
<1>2. Creations' = IF fact.op = "create" THEN Creations \cup {n} ELSE Creations
  BY <1>1 DEF Creations
<1>3. n \notin Creations
  BY <1>1 DEF Creations
<1>4. RunCount' = Cardinality(Creations')
  BY DEF RunCount, Creations
<1>5. QED
  BY <1>2, <1>3, <1>4, CountIsNat, FS_AddElement

LEMMA CountNeverFalls ==
    ASSUME ledger \in Seq(AllFacts), NEW fact \in AllFacts, Accepted(fact)
    PROVE  RunCount' \in Nat /\ RunCount <= RunCount'
<1>1. CASE Record(fact)
  BY <1>1, CountGrows, CountIsNat
<1>2. CASE Replay(fact)
  BY <1>2, CountIsNat DEF Replay, RunCount
<1>3. QED
  BY <1>1, <1>2 DEF Accepted

-----------------------------------------------------------------------------
(* Types.                                                                  *)

\* A process at work has a number; only a child that ran comes to something.
Numbered ==
    \A p \in Procs :
        /\ at[p] \notin {"start", "over"} => seq[p] \in 1..MaxRuns
        /\ outcome[p] # NoOutcome => p \in executed

Typed == TypeOK /\ Numbered

LEMMA InitTyped == Init => Typed
<1> SUFFICES ASSUME Init PROVE Typed
  OBVIOUS
<1>1. performed \in Seq([id : 1..MaxRuns, effect : Cmds]) /\ ledger \in Seq(AllFacts)
  BY DEF Init
<1>2. QED
  BY <1>1, OneShotAssumption DEF Init, Typed, TypeOK, Numbered, Places

\* What the store calls of a typed process record are facts.
LEMMA CallTypes ==
    ASSUME Typed, NEW p \in Procs, at[p] \notin {"start", "over"}
    PROVE  /\ seq[p] \in 1..MaxRuns /\ opt[p] \in Options
           /\ RunFact(seq[p], opt[p]) \in AllFacts
           /\ DecisionFact(seq[p], opt[p]) \in AllFacts
           /\ IntentFact(seq[p], opt[p]) \in AllFacts
           /\ outcome[p] \in Outcomes =>
                ResultFact(seq[p], opt[p], outcome[p]) \in AllFacts
           /\ \A v \in Verdicts : EnforcementFact(seq[p], opt[p], v) \in AllFacts
BY FactTypes DEF Typed, TypeOK, Numbered

\* What a request records.
LEMMA FactOps ==
    ASSUME NEW n, NEW o
    PROVE  /\ RunFact(n, o).op = "create" /\ ServedFact(n).op = "create"
           /\ DecisionFact(n, o).op = "decide" /\ IntentFact(n, o).op = "intent"
BY DEF RunFact, ServedFact, DecisionFact, IntentFact, Fact

LEMMA ServeFact ==
    ASSUME Typed, Serve
    PROVE  NextNumber \in 1..MaxRuns /\ ServedFact(NextNumber) \in AllFacts
<1>1. NextNumber \in 1..MaxRuns
  BY CountIsNat, OneShotAssumption DEF Serve, NextNumber, Typed, TypeOK
<1>2. QED
  BY <1>1 DEF AllFacts

\* Every step keeps the ledger a ledger, and only ever adds to it.
Grows ==
    /\ ledger' \in Seq(AllFacts)
    /\ Facts \subseteq Facts'
    /\ RunCount' \in Nat /\ RunCount <= RunCount'

LEMMA AcceptedGrows ==
    ASSUME ledger \in Seq(AllFacts), NEW fact \in AllFacts, Accepted(fact)
    PROVE  Grows
BY AcceptedStands, CountNeverFalls DEF Grows

LEMMA UnchangedGrows ==
    ASSUME ledger \in Seq(AllFacts), UNCHANGED ledger
    PROVE  Grows
BY CountIsNat DEF Grows, Facts, RunCount

LEMMA StepGrows ==
    ASSUME Typed, Next
    PROVE  Grows
<1>1. ledger \in Seq(AllFacts)
  BY DEF Typed, TypeOK
<1>2. CASE Serve
  <2>1. NextNumber \in 1..MaxRuns
    BY <1>1, <1>2, CountIsNat, OneShotAssumption DEF Serve, NextNumber
  <2>2. ServedFact(NextNumber) \in AllFacts
    BY <2>1 DEF AllFacts
  <2>3. Accepted(ServedFact(NextNumber))
    BY <1>2 DEF Serve, Accepted
  <2>4. QED
    BY <1>1, <2>2, <2>3, AcceptedGrows
<1>3. ASSUME NEW p \in Procs, Step(p) PROVE Grows
  <2>1. CASE UNCHANGED ledger
    BY <1>1, <2>1, UnchangedGrows
  <2>2. CASE CreateRun(p)
    BY <1>1, <2>2, CallTypes, AcceptedGrows DEF CreateRun
  <2>3. CASE Persist(p)
    BY <1>1, <2>3, CallTypes, AcceptedGrows DEF Persist
  <2>4. CASE Intent(p)
    BY <1>1, <2>4, CallTypes, AcceptedGrows DEF Intent
  <2>5. CASE Result(p)
    <3>1. outcome[p] \in Outcomes
      BY <2>5 DEF Result, Typed, TypeOK
    <3>2. QED
      BY <1>1, <2>5, <3>1, CallTypes, AcceptedGrows DEF Result
  <2>6. CASE Succeeded(p)
    BY <1>1, <2>6, CallTypes, AcceptedGrows DEF Succeeded, Enforced, Verdicts
  <2>7. CASE Failed(p)
    BY <1>1, <2>7, CallTypes, AcceptedGrows DEF Failed, Enforced, Verdicts
  <2>8. QED
    BY <1>3, <2>1, <2>2, <2>3, <2>4, <2>5, <2>6, <2>7
    DEF Step, Begin, CreateFails, PersistFails, CreateRealm, Mount, Exec, Destroy,
        EffectFails, EnforcementFails, Count, CountFails, Die
<1>4. QED
  BY <1>2, <1>3 DEF Next

\* Where a step leaves at, opt and so on for the process p that takes it; the
\* variables of the others do not change.
LEMMA StepTyped ==
    ASSUME Typed, NEW p \in Procs, Step(p)
    PROVE  Typed'
<1>0. /\ ledger' \in Seq(AllFacts)
      /\ at \in [Procs -> Places] /\ opt \in [Procs -> Options]
      /\ seq \in [Procs -> 0..MaxRuns] /\ realm \in [Procs -> BOOLEAN]
      /\ outcome \in [Procs -> Outcomes \cup {NoOutcome}]
      /\ performed \in Seq([id : 1..MaxRuns, effect : Cmds]) /\ executed \subseteq Procs
      /\ report \in [Procs -> {"none", "denied", "executed", "failed"}]
  BY StepGrows DEF Grows, Next, Typed, TypeOK
<1> USE DEF Go, Sandbox, NoReport
<1>1. CASE Begin(p)
  <2>1. NextNumber \in 1..MaxRuns
    BY <1>1, CountIsNat, OneShotAssumption DEF Begin, NextNumber, Typed, TypeOK
  <2>2. QED
    BY <1>0, <1>1, <2>1 DEF Begin, Typed, TypeOK, Numbered, Places
<1>2. CASE CreateRun(p)
  BY <1>0, <1>2 DEF CreateRun, Typed, TypeOK, Numbered, Places
<1>3. CASE CreateFails(p)
  BY <1>0, <1>3, OneShotAssumption DEF CreateFails, Typed, TypeOK, Numbered, Places
<1>4. CASE Persist(p)
  BY <1>0, <1>4 DEF Persist, Typed, TypeOK, Numbered, Places
<1>5. CASE PersistFails(p)
  BY <1>0, <1>5 DEF PersistFails, Typed, TypeOK, Numbered, Places
<1>6. CASE Intent(p)
  BY <1>0, <1>6 DEF Intent, Typed, TypeOK, Numbered, Places
<1>7. CASE CreateRealm(p)
  BY <1>0, <1>7 DEF CreateRealm, Typed, TypeOK, Numbered, Places
<1>8. CASE Mount(p)
  BY <1>0, <1>8 DEF Mount, Typed, TypeOK, Numbered, Places
<1>9. CASE Exec(p)
  <2> DEFINE Effect == [id : 1..MaxRuns, effect : Cmds]
             this == [id |-> seq[p], effect |-> opt[p].cmd]
  <2>1. at[p] = "exec"
    BY <1>9 DEF Exec
  <2>2. seq[p] \in 1..MaxRuns
    BY <2>1 DEF Typed, Numbered
  <2>3. opt[p] \in Options
    BY <1>0
  <2>4. opt[p].cmd \in Cmds
    BY <2>3, OneShotAssumption DEF OptionType
  <2>5. this \in Effect
    BY <2>2, <2>4
  <2>6. performed' = Append(performed, this) \/ performed' = performed
    BY <1>9 DEF Exec, Perform
  <2>7. performed \in Seq(Effect)
    BY <1>0
  <2>8. performed' \in Seq(Effect)
    <3> HIDE DEF Effect, this
    <3>1. QED
      BY <2>5, <2>6, <2>7
  <2>9. performed' \in Seq([id : 1..MaxRuns, effect : Cmds])
    BY <2>8
  <2>10. QED
    BY <1>0, <1>9, <2>9 DEF Exec, Perform, Typed, TypeOK, Numbered, Places
<1>10. CASE Destroy(p)
  BY <1>0, <1>10 DEF Destroy, Typed, TypeOK, Numbered, Places
<1>11. CASE Result(p)
  BY <1>0, <1>11 DEF Result, Typed, TypeOK, Numbered, Places
<1>12. CASE EffectFails(p)
  BY <1>0, <1>12 DEF EffectFails, Typed, TypeOK, Numbered, Places
<1>13. CASE Succeeded(p)
  BY <1>0, <1>13 DEF Succeeded, Enforced, Typed, TypeOK, Numbered, Places
<1>14. CASE Failed(p)
  BY <1>0, <1>14 DEF Failed, Enforced, Typed, TypeOK, Numbered, Places
<1>15. CASE EnforcementFails(p)
  BY <1>0, <1>15 DEF EnforcementFails, Typed, TypeOK, Numbered, Places
<1>16. CASE Count(p)
  BY <1>0, <1>16 DEF Count, Typed, TypeOK, Numbered, Places
<1>17. CASE CountFails(p)
  BY <1>0, <1>17 DEF CountFails, Typed, TypeOK, Numbered, Places
<1>18. CASE Die(p)
  BY <1>0, <1>18, OneShotAssumption DEF Die, Typed, TypeOK, Numbered, Places
<1>19. QED
  BY <1>1, <1>2, <1>3, <1>4, <1>5, <1>6, <1>7, <1>8, <1>9, <1>10, <1>11, <1>12,
     <1>13, <1>14, <1>15, <1>16, <1>17, <1>18 DEF Step

LEMMA NextTyped ==
    ASSUME Typed, [Next]_vars
    PROVE  Typed'
<1>1. CASE Serve
  BY <1>1, StepGrows DEF Grows, Next, Serve, Sandbox, Typed, TypeOK, Numbered
<1>2. CASE UNCHANGED vars
  BY <1>2 DEF vars, Typed, TypeOK, Numbered
<1>3. QED
  BY <1>1, <1>2, StepTyped DEF Next

\* Every variable holds a value of its kind, and a child's result is recorded
\* only if there is one (TypeOK).
THEOREM OneShotTypes == Spec => []TypeOK
<1>1. Typed => TypeOK
  BY DEF Typed
<1>2. QED
  BY InitTyped, NextTyped, <1>1, PTL DEF Spec

-----------------------------------------------------------------------------
(* What a process relies on.                                               *)

Early == {"start", "create", "decide", "intent", "realm", "mount", "exec"}
Allowed == {"intent", "realm", "mount", "exec", "destroy", "result", "succeeded", "failed"}
Announced == {"realm", "mount", "exec", "destroy", "result", "succeeded"}

\* A process that got its run holds it; its decision, intent and result stand
\* when it is past them; and a report is made only at the end.
Relies(p) ==
    /\ at[p] \notin {"start", "create"} /\ seq[p] # 0 => Stands(RunFact(seq[p], opt[p]))
    /\ at[p] \in Allowed =>
        Decide(opt[p]) = "allow" /\ Stands(DecisionFact(seq[p], opt[p]))
    /\ at[p] \in Announced => Stands(IntentFact(seq[p], opt[p]))
    /\ at[p] \in Early => p \notin executed
    /\ p \in executed => \E n \in 1..Len(performed) : performed[n].id = seq[p]
    /\ at[p] \in {"result", "succeeded"} => ~realm[p]
    /\ at[p] = "succeeded" => Stands(ResultFact(seq[p], opt[p], outcome[p]))
    /\ report[p] # "none" => at[p] \in {"count", "over"} /\ seq[p] # 0

\* A report of p is true.
Truthful(p) ==
    LET n == seq[p] o == opt[p] IN
    /\ report[p] \in {"executed", "failed", "denied"} =>
        Stands(RunFact(n, o)) /\ Stands(DecisionFact(n, o))
    /\ report[p] = "executed" =>
        /\ o.permitted /\ o.approved
        /\ p \in executed /\ ~realm[p]
        /\ Stands(IntentFact(n, o))
        /\ Stands(ResultFact(n, o, outcome[p]))
        /\ Stands(EnforcementFact(n, o, "succeeded"))
    /\ report[p] = "failed" =>
        o.permitted /\ o.approved /\ Stands(EnforcementFact(n, o, "failed"))
    /\ report[p] = "denied" =>
        ~(o.permitted /\ o.approved) /\ p \notin executed

LEMMA DecideAllows ==
    ASSUME NEW o \in Options
    PROVE  Decide(o) = "allow" <=> o.permitted /\ o.approved
<1>1. o.permitted \in BOOLEAN /\ o.approved \in BOOLEAN
  BY OneShotAssumption DEF OptionType
<1>2. QED
  BY <1>1 DEF Decide

\* No step of another process disturbs what p relies on.
Untouched(p) ==
    /\ at'[p] = at[p] /\ seq'[p] = seq[p] /\ opt'[p] = opt[p] /\ realm'[p] = realm[p]
    /\ outcome'[p] = outcome[p] /\ report'[p] = report[p]
    /\ p \in executed' <=> p \in executed

PerformedGrows ==
    /\ Len(performed) \in Nat /\ Len(performed') \in Nat /\ Len(performed) <= Len(performed')
    /\ \A n \in 1..Len(performed) : performed'[n] = performed[n]

LEMMA StandsStill ==
    ASSUME Grows, NEW fact, \E f \in Facts : Store!SameRequest(f, fact)
    PROVE  \E f \in Facts' : Store!SameRequest(f, fact)
BY DEF Grows

LEMMA RelyUntouched ==
    ASSUME Grows, PerformedGrows, NEW p \in Procs, Untouched(p), Relies(p), Truthful(p)
    PROVE  Relies(p)' /\ Truthful(p)'
<1>1. Relies(p)'
  BY StandsStill DEF Untouched, Relies, Stands, PerformedGrows
<1>2. Truthful(p)'
  BY StandsStill DEF Untouched, Truthful, Stands
<1>3. QED
  BY <1>1, <1>2

LEMMA StepPerforms ==
    ASSUME Typed, Next
    PROVE  PerformedGrows
<1> DEFINE Effect == [id : 1..MaxRuns, effect : Cmds]
<1>1. performed \in Seq(Effect) /\ Typed'
  BY NextTyped DEF Typed, TypeOK
<1>2. performed' = performed \/ \E x : performed' = Append(performed, x)
  BY DEF Next, Serve, Step, Begin, CreateRun, CreateFails, Persist, PersistFails, Intent,
         CreateRealm, Mount, Exec, Perform, Destroy, Result, EffectFails, Succeeded, Failed,
         Enforced, EnforcementFails, Count, CountFails, Die, Sandbox
<1>3. performed' \in Seq(Effect)
  BY <1>1 DEF Typed, TypeOK
<1> HIDE DEF Effect
<1>4. CASE performed' = performed
  BY <1>1, <1>4 DEF PerformedGrows
<1>5. ASSUME NEW x, performed' = Append(performed, x) PROVE PerformedGrows
  BY <1>1, <1>3, <1>5 DEF PerformedGrows
<1>6. QED
  BY <1>2, <1>4, <1>5

\* A step of p leaves p what it then relies on.
LEMMA RelyStep ==
    ASSUME Typed, NEW p \in Procs, Step(p), Relies(p), Truthful(p)
    PROVE  Relies(p)' /\ Truthful(p)'
<1>0. /\ Grows /\ PerformedGrows /\ ledger \in Seq(AllFacts)
      /\ at \in [Procs -> Places] /\ opt \in [Procs -> Options]
      /\ seq \in [Procs -> 0..MaxRuns] /\ realm \in [Procs -> BOOLEAN]
      /\ outcome \in [Procs -> Outcomes \cup {NoOutcome}]
      /\ report \in [Procs -> {"none", "denied", "executed", "failed"}]
  BY StepGrows, StepPerforms DEF Next, Typed, TypeOK
<1>00. Decide(opt[p]) = "allow" <=> opt[p].permitted /\ opt[p].approved
  BY <1>0, DecideAllows
<1>000. at[p] \notin {"start", "over"} => seq[p] # 0
  BY <1>0 DEF Typed, Numbered
<1> USE DEF Go, Sandbox, NoReport, Early, Allowed, Announced
<1>1. CASE Begin(p)
  BY <1>0, <1>1, StandsStill DEF Begin, Relies, Truthful, Stands
<1>2. CASE CreateRun(p)
  <2>1. \E f \in Facts' : Store!SameRequest(f, RunFact(seq[p], opt[p]))
    BY <1>0, <1>2, CallTypes, AcceptedStands DEF CreateRun
  <2>2. QED
    BY <1>0, <1>2, <2>1, StandsStill DEF CreateRun, Relies, Truthful, Stands
<1>3. CASE CreateFails(p)
  BY <1>0, <1>3, StandsStill DEF CreateFails, Relies, Truthful, Stands
<1>4. CASE Persist(p)
  <2>1. \E f \in Facts' : Store!SameRequest(f, DecisionFact(seq[p], opt[p]))
    BY <1>0, <1>4, CallTypes, AcceptedStands DEF Persist
  <2>2. QED
    BY <1>0, <1>00, <1>000, <1>4, <2>1, StandsStill DEF Persist, Relies, Truthful, Stands
<1>5. CASE PersistFails(p)
  BY <1>0, <1>5, StandsStill DEF PersistFails, Relies, Truthful, Stands
<1>6. CASE Intent(p)
  <2>1. \E f \in Facts' : Store!SameRequest(f, IntentFact(seq[p], opt[p]))
    BY <1>0, <1>6, CallTypes, AcceptedStands DEF Intent
  <2>2. QED
    BY <1>0, <1>6, <2>1, StandsStill DEF Intent, Relies, Truthful, Stands
<1>7. CASE CreateRealm(p)
  BY <1>0, <1>7, StandsStill DEF CreateRealm, Relies, Truthful, Stands
<1>8. CASE Mount(p)
  BY <1>0, <1>8, StandsStill DEF Mount, Relies, Truthful, Stands
<1>9. CASE Exec(p)
  <2>1. p \in executed' => \E n \in 1..Len(performed') : performed'[n].id = seq'[p]
    <3>1. CASE Perform(p)
      <4>1. performed' = Append(performed, [id |-> seq[p], effect |-> opt[p].cmd])
        BY <3>1 DEF Perform
      <4>2. Len(performed') = Len(performed) + 1 /\ Len(performed) \in Nat
        BY <4>1 DEF Typed, TypeOK
      <4>3. performed'[Len(performed')].id = seq[p]
        BY <4>1, <4>2 DEF Typed, TypeOK
      <4>4. QED
        BY <1>9, <4>2, <4>3 DEF Exec
    <3>2. CASE UNCHANGED <<performed, executed>>
      BY <1>9, <3>2 DEF Exec, Relies
    <3>3. QED
      BY <1>9, <3>1, <3>2 DEF Exec
  <2>2. QED
    BY <1>0, <1>9, <2>1, StandsStill DEF Exec, Relies, Truthful, Stands
<1>10. CASE Destroy(p)
  BY <1>0, <1>10, StandsStill DEF Destroy, Relies, Truthful, Stands
<1>11. CASE Result(p)
  <2>1. \E f \in Facts' : Store!SameRequest(f, ResultFact(seq[p], opt[p], outcome[p]))
    BY <1>0, <1>11, CallTypes, AcceptedStands DEF Result, Typed, TypeOK
  <2>2. QED
    BY <1>0, <1>11, <2>1, StandsStill DEF Result, Relies, Truthful, Stands
<1>12. CASE EffectFails(p)
  BY <1>0, <1>12, StandsStill DEF EffectFails, Relies, Truthful, Stands
<1>13. CASE Succeeded(p)
  <2>1. \E f \in Facts' : Store!SameRequest(f, EnforcementFact(seq[p], opt[p], "succeeded"))
    BY <1>0, <1>13, CallTypes, AcceptedStands DEF Succeeded, Enforced, Verdicts
  <2>2. p \in executed
    BY <1>13 DEF Succeeded, Enforced, Typed, TypeOK
  <2>3. QED
    BY <1>0, <1>00, <1>000, <1>13, <2>1, <2>2, StandsStill
    DEF Succeeded, Enforced, Relies, Truthful, Stands
<1>14. CASE Failed(p)
  <2>1. \E f \in Facts' : Store!SameRequest(f, EnforcementFact(seq[p], opt[p], "failed"))
    BY <1>0, <1>14, CallTypes, AcceptedStands DEF Failed, Enforced, Verdicts
  <2>2. QED
    BY <1>0, <1>00, <1>000, <1>14, <2>1, StandsStill
    DEF Failed, Enforced, Relies, Truthful, Stands
<1>15. CASE EnforcementFails(p)
  BY <1>0, <1>15, StandsStill DEF EnforcementFails, Relies, Truthful, Stands
<1>16. CASE Count(p)
  BY <1>0, <1>16, StandsStill DEF Count, Relies, Truthful, Stands
<1>17. CASE CountFails(p)
  BY <1>0, <1>17, StandsStill DEF CountFails, Relies, Truthful, Stands
<1>18. CASE Die(p)
  BY <1>0, <1>18, StandsStill DEF Die, Relies, Truthful, Stands
<1>19. QED
  BY <1>1, <1>2, <1>3, <1>4, <1>5, <1>6, <1>7, <1>8, <1>9, <1>10, <1>11, <1>12,
     <1>13, <1>14, <1>15, <1>16, <1>17, <1>18 DEF Step

LEMMA StepOfOne ==
    ASSUME Typed, NEW p \in Procs, Step(p), NEW q \in Procs, q # p
    PROVE  Untouched(q)
BY DEF Typed, TypeOK, Step, Begin, CreateRun, CreateFails, Persist, PersistFails, Intent,
       CreateRealm, Mount, Exec, Perform, Destroy, Result, EffectFails, Succeeded, Failed,
       Enforced, EnforcementFails, Count, CountFails, Die, Sandbox, Go, NoReport, Untouched

\* The inductive invariant.
Sound == Typed /\ \A p \in Procs : Relies(p) /\ Truthful(p)

LEMMA InitSound == Init => Sound
BY InitTyped DEF Init, Sound, Relies, Truthful, Early, Allowed, Announced

LEMMA NextSound ==
    ASSUME Sound, [Next]_vars
    PROVE  Sound'
<1>1. Typed'
  BY NextTyped DEF Sound
<1>2. ASSUME NEW q \in Procs PROVE Relies(q)' /\ Truthful(q)'
  <2>1. CASE UNCHANGED vars
    BY <1>2, <2>1 DEF Sound, vars, Relies, Truthful, Stands, Facts
  <2>2. CASE Serve
    <3>1. Untouched(q)
      BY <2>2 DEF Serve, Sandbox, Untouched
    <3>2. QED
      BY <1>2, <2>2, <3>1, StepGrows, StepPerforms, RelyUntouched DEF Next, Sound
  <2>3. ASSUME NEW p \in Procs, Step(p) PROVE Relies(q)' /\ Truthful(q)'
    <3>1. CASE p = q
      BY <2>3, <3>1, RelyStep DEF Sound
    <3>2. CASE p # q
      <4>1. Untouched(q)
        BY <1>2, <2>3, <3>2, StepOfOne DEF Sound
      <4>2. QED
        BY <1>2, <2>3, <4>1, StepGrows, StepPerforms, RelyUntouched DEF Next, Sound
    <3>3. QED
      BY <3>1, <3>2
  <2>4. QED
    BY <2>1, <2>2, <2>3 DEF Next
<1>3. QED
  BY <1>1, <1>2 DEF Sound

LEMMA SpecSound == Spec => []Sound
BY InitSound, NextSound, PTL DEF Spec

\* What a process reports is what the store shows (ReportsTruthful).
THEOREM ReportsAreTrue == Spec => []ReportsTruthful
<1>1. Sound => ReportsTruthful
  BY DEF Sound, Truthful, ReportsTruthful
<1>2. QED
  BY SpecSound, <1>1, PTL

-----------------------------------------------------------------------------
(* Fresh numbers.                                                          *)

\* No run bears a number the count has not reached, and a process that is to
\* create one is at most one ahead of the count.
Counted ==
    /\ \A f \in Facts : \A n \in Nat : f.obj = <<"run", n>> => n <= RunCount
    /\ \A p \in Procs : at[p] = "create" => seq[p] <= RunCount + 1

LEMMA RunObject ==
    ASSUME NEW f \in AllFacts, NEW n, f.obj = <<"run", n>>
    PROVE  f.op = "create" /\ f # ServedFact(n)
BY DEF AllFacts, RunFact, ServedFact, DecisionFact, IntentFact, ResultFact,
       EnforcementFact, Fact

\* Only CreateRun adds a run of a process.
RecordsAnother == \E fact \in AllFacts : Record(fact) /\ fact.op # "create"

LEMMA StepRecords ==
    ASSUME Typed, NEW p \in Procs, Step(p)
    PROVE  \/ ledger' = ledger
           \/ CreateRun(p) /\ Record(RunFact(seq[p], opt[p]))
           \/ RecordsAnother
<1>1. ASSUME NEW fact \in AllFacts, Accepted(fact), fact.op # "create"
      PROVE  ledger' = ledger \/ RecordsAnother
  BY <1>1 DEF Accepted, Replay, RecordsAnother
<1>2. CASE CreateRun(p)
  BY <1>2 DEF CreateRun, Accepted, Replay
<1>3. CASE Persist(p)
  BY <1>1, <1>3, CallTypes, FactOps DEF Persist
<1>4. CASE Intent(p)
  BY <1>1, <1>4, CallTypes, FactOps DEF Intent
<1>5. CASE Result(p)
  <2>1. outcome[p] \in Outcomes
    BY <1>5 DEF Result, Typed, TypeOK
  <2>2. ResultFact(seq[p], opt[p], outcome[p]).op # "create"
    BY DEF ResultFact, Fact
  <2>3. QED
    BY <1>1, <1>5, <2>1, <2>2, CallTypes DEF Result
<1>6. CASE Succeeded(p)
  <2>1. EnforcementFact(seq[p], opt[p], "succeeded").op # "create"
    BY DEF EnforcementFact, Fact
  <2>2. QED
    BY <1>1, <1>6, <2>1, CallTypes DEF Succeeded, Enforced, Verdicts
<1>7. CASE Failed(p)
  <2>1. EnforcementFact(seq[p], opt[p], "failed").op # "create"
    BY DEF EnforcementFact, Fact
  <2>2. QED
    BY <1>1, <1>7, <2>1, CallTypes DEF Failed, Enforced, Verdicts
<1>8. QED
  BY <1>2, <1>3, <1>4, <1>5, <1>6, <1>7
  DEF Step, Begin, CreateFails, PersistFails, CreateRealm, Mount, Exec, Destroy,
      EffectFails, EnforcementFails, Count, CountFails, Die

\* Who is about to create a run after a step was already, or has just read
\* the count.
LEMMA StepNumbers ==
    ASSUME Typed, NEW p \in Procs, Step(p), NEW q \in Procs, at'[q] = "create"
    PROVE  \/ at[q] = "create" /\ seq'[q] = seq[q]
           \/ at[q] = "start" /\ seq'[q] = RunCount + 1 /\ ledger' = ledger
<1>1. CASE p = q
  BY <1>1 DEF Typed, TypeOK, Step, Begin, CreateRun, CreateFails, Persist, PersistFails,
       Intent, CreateRealm, Mount, Exec, Destroy, Result, EffectFails, Succeeded, Failed,
       Enforced, EnforcementFails, Count, CountFails, Die, Go, NoReport, NextNumber
<1>2. CASE p # q
  BY <1>2, StepOfOne DEF Untouched
<1>3. QED
  BY <1>1, <1>2

LEMMA NextCounted ==
    ASSUME Typed, Counted, [Next]_vars
    PROVE  Counted'
<1>0. /\ ledger \in Seq(AllFacts) /\ RunCount \in Nat /\ seq \in [Procs -> 0..MaxRuns]
      /\ MaxRuns \in Nat
  BY CountIsNat, OneShotAssumption DEF Typed, TypeOK
<1>1. CASE UNCHANGED vars
  BY <1>1 DEF vars, Counted, Facts, RunCount
<1>2. CASE Serve
  <2> DEFINE fact == ServedFact(NextNumber)
  <2>1. fact \in AllFacts /\ fact.op = "create" /\ Record(fact)
    BY <1>2, ServeFact, FactOps DEF Serve
  <2>2. Facts' = Facts \cup {fact} /\ RunCount' = RunCount + 1
    BY <1>0, <2>1, RecordGrows, CountGrows
  <2>3. \A n : fact.obj # <<"run", n>>
    BY DEF ServedFact, Fact
  <2>4. UNCHANGED <<at, seq>>
    BY <1>2 DEF Serve
  <2> HIDE DEF fact
  <2>5. QED
    BY <1>0, <2>2, <2>3, <2>4 DEF Counted
<1>3. ASSUME NEW p \in Procs, Step(p) PROVE Counted'
  <2>0. RunCount' \in Nat /\ RunCount <= RunCount'
    BY <1>3, StepGrows DEF Next, Grows
  <2>1. \A f \in Facts' : \A n \in Nat : f.obj = <<"run", n>> => n <= RunCount'
    <3>1. CASE ledger' = ledger
      BY <3>1 DEF Counted, Facts, RunCount
    <3>2. CASE CreateRun(p) /\ Record(RunFact(seq[p], opt[p]))
      <4> DEFINE fact == RunFact(seq[p], opt[p])
      <4>1. fact \in AllFacts
        BY <3>2, CallTypes DEF CreateRun
      <4>2. fact.op = "create" /\ fact.obj = <<"run", seq[p]>>
        BY DEF RunFact, Fact
      <4>3. Facts' = Facts \cup {fact} /\ RunCount' = RunCount + 1
        BY <1>0, <3>2, <4>1, <4>2, RecordGrows, CountGrows
      <4>4. seq[p] <= RunCount + 1
        BY <3>2 DEF CreateRun, Counted
      <4> HIDE DEF fact
      <4>5. \A n \in Nat : fact.obj = <<"run", n>> => n <= RunCount'
        BY <4>2, <4>3, <4>4
      <4>6. QED
        BY <1>0, <2>0, <4>3, <4>5 DEF Counted
    <3>3. ASSUME NEW fact \in AllFacts, Record(fact), fact.op # "create"
          PROVE  \A f \in Facts' : \A n \in Nat : f.obj = <<"run", n>> => n <= RunCount'
      <4>1. Facts' = Facts \cup {fact}
        BY <1>0, <3>3, RecordGrows
      <4>2. \A n : fact.obj # <<"run", n>>
        BY <3>3, RunObject
      <4>3. QED
        BY <1>0, <2>0, <4>1, <4>2 DEF Counted
    <3>4. QED
      BY <1>3, <3>1, <3>2, <3>3, StepRecords DEF RecordsAnother
  <2>2. ASSUME NEW q \in Procs, at'[q] = "create" PROVE seq'[q] <= RunCount' + 1
    <3>1. CASE at[q] = "create" /\ seq'[q] = seq[q]
      BY <1>0, <2>0, <2>2, <3>1 DEF Counted
    <3>2. CASE seq'[q] = RunCount + 1
      <4>1. RunCount \in Nat /\ RunCount' \in Nat /\ RunCount <= RunCount'
        BY <1>0, <2>0
      <4>2. \A a, b \in Nat : a <= b => a + 1 <= b + 1
        OBVIOUS
      <4>3. QED
        BY <3>2, <4>1, <4>2
    <3>3. \/ at[q] = "create" /\ seq'[q] = seq[q]
          \/ at[q] = "start" /\ seq'[q] = RunCount + 1 /\ ledger' = ledger
      BY <1>3, <2>2, StepNumbers
    <3>4. QED
      BY <3>1, <3>2, <3>3
  <2>3. QED
    BY <2>1, <2>2 DEF Counted
<1>4. QED
  BY <1>1, <1>2, <1>3 DEF Next

\* The number a process reads is that of no run so far, whatever processes
\* and endpoints have created, however they ended (FreshNumber).
THEOREM NumbersAreFresh == Spec => FreshNumber
<1> DEFINE Fresh == \A p \in Procs : at[p] = "start" /\ at'[p] = "create" =>
                        \A f \in Facts : f.obj # <<"run", seq'[p]>>
<1>1. Init => Typed /\ Counted
  BY InitTyped DEF Init, Counted, Facts
<1>2. Typed /\ Counted /\ [Next]_vars => Typed' /\ Counted'
  BY NextTyped, NextCounted
<1>3. ASSUME Typed, Counted, [Next]_vars PROVE [Fresh]_vars
  <2> SUFFICES ASSUME NEW q \in Procs, at[q] = "start", at'[q] = "create",
                      NEW f \in Facts
               PROVE  f.obj # <<"run", seq'[q]>>
    OBVIOUS
  <2>1. PICK p \in Procs : Step(p)
    BY <1>3 DEF Next, Serve, vars
  <2>2. seq'[q] = RunCount + 1
    BY <1>3, <2>1, StepNumbers
  <2>3. RunCount \in Nat
    BY <1>3, CountIsNat DEF Typed, TypeOK
  <2>4. QED
    BY <1>3, <2>2, <2>3 DEF Counted
<1>4. QED
  BY <1>1, <1>2, <1>3, PTL DEF Spec, FreshNumber

-----------------------------------------------------------------------------
(* Audit before effect, as the implementation of AuditedEffects.           *)

Authorized == {<<f.obj[2].run, f.obj[2].cmd>> :
                  f \in {g \in FactsOf("decide") : g.obj[2].outcome = "allow"}}
Intents == {<<f.obj[2], f.arg>> : f \in FactsOf("intent")}
Resulted == {f.obj[2] : f \in FactsOf("result")}

LEMMA FactShapes ==
    ASSUME NEW n, NEW o
    PROVE  /\ RunFact(n, o).op = "create"
           /\ ServedFact(n).op = "create"
           /\ /\ DecisionFact(n, o).op = "decide"
              /\ DecisionFact(n, o).obj = <<"decision", DecisionId(n, o)>>
              /\ DecisionFact(n, o).obj[2] = DecisionId(n, o)
           /\ /\ IntentFact(n, o).op = "intent" /\ IntentFact(n, o).arg = o.cmd
              /\ IntentFact(n, o).obj = <<"intent", n>>
              /\ IntentFact(n, o).obj[2] = n
           /\ \A r : /\ ResultFact(n, o, r).op = "result"
                     /\ ResultFact(n, o, r).obj = <<"intent", n>>
                     /\ ResultFact(n, o, r).obj[2] = n
           /\ \A v : /\ EnforcementFact(n, o, v).op = "enforce"
                     /\ EnforcementFact(n, o, v).arg = v
                     /\ EnforcementFact(n, o, v).obj = <<"decision", DecisionId(n, o)>>
                     /\ EnforcementFact(n, o, v).obj[2] = DecisionId(n, o)
           /\ DecisionId(n, o).run = n /\ DecisionId(n, o).cmd = o.cmd
           /\ DecisionId(n, o).outcome = Decide(o)
BY DEF RunFact, ServedFact, DecisionFact, IntentFact, ResultFact, EnforcementFact, Fact,
       DecisionId

\* What the appending of a fact does to the mapped sets.
LEMMA Mapped ==
    ASSUME ledger \in Seq(AllFacts), NEW fact \in AllFacts, Record(fact)
    PROVE  /\ Authorized' = IF fact.op = "decide" /\ fact.obj[2].outcome = "allow"
                            THEN Authorized \cup {<<fact.obj[2].run, fact.obj[2].cmd>>}
                            ELSE Authorized
           /\ Intents' = IF fact.op = "intent"
                         THEN Intents \cup {<<fact.obj[2], fact.arg>>} ELSE Intents
           /\ Resulted' = IF fact.op = "result"
                          THEN Resulted \cup {fact.obj[2]} ELSE Resulted
<1>1. Facts' = Facts \cup {fact}
  BY RecordGrows
<1>2. Intents' = IF fact.op = "intent"
                 THEN Intents \cup {<<fact.obj[2], fact.arg>>} ELSE Intents
  BY <1>1 DEF Intents, FactsOf
<1>3. Resulted' = IF fact.op = "result" THEN Resulted \cup {fact.obj[2]} ELSE Resulted
  BY <1>1 DEF Resulted, FactsOf
<1>4. Authorized' = IF fact.op = "decide" /\ fact.obj[2].outcome = "allow"
                    THEN Authorized \cup {<<fact.obj[2].run, fact.obj[2].cmd>>}
                    ELSE Authorized
  BY <1>1 DEF Authorized, FactsOf
<1>5. QED
  BY <1>2, <1>3, <1>4

LEMMA MappedSame ==
    ASSUME UNCHANGED ledger
    PROVE  UNCHANGED <<Authorized, Intents, Resulted>>
BY DEF Authorized, Intents, Resulted, FactsOf, Facts

AbstractNext == [A!Next]_A!vars

\* An intent's object is its number.
LEMMA IntentObject ==
    ASSUME NEW f \in AllFacts, f.op = "intent"
    PROVE  f.obj = <<"intent", f.obj[2]>>
<1>1. CASE \E n \in 1..MaxRuns, o \in Options : f = IntentFact(n, o)
  BY <1>1 DEF IntentFact, Fact
<1>2. QED
  BY <1>1 DEF AllFacts, RunFact, ServedFact, DecisionFact, ResultFact, EnforcementFact, Fact

LEMMA AbstractStep ==
    ASSUME Sound, NEW p \in Procs, Step(p)
    PROVE  AbstractNext
<1> DEFINE n == seq[p]
           o == opt[p]
<1> USE DEF Sandbox
<1>0. ledger \in Seq(AllFacts) /\ Typed /\ Relies(p)
  BY DEF Sound, Typed, TypeOK
<1>1. o \in Options /\ o.cmd \in Cmds
  BY <1>0, OneShotAssumption DEF Typed, TypeOK, OptionType
<1>2. at[p] \notin {"start", "over"} => n \in 1..MaxRuns
  BY <1>0 DEF Typed, Numbered
<1>3. ASSUME UNCHANGED <<Authorized, Intents, Resulted, performed>> PROVE AbstractNext
  BY <1>3 DEF AbstractNext, A!vars, Authorized, Intents, Resulted
<1>4. ASSUME UNCHANGED <<ledger, performed>> PROVE AbstractNext
  BY <1>3, <1>4, MappedSame
<1>5. ASSUME NEW fact \in AllFacts, Accepted(fact), UNCHANGED performed,
             fact.op \in {"create", "enforce"}
      PROVE  AbstractNext
  <2>1. CASE Record(fact)
    BY <1>0, <1>3, <1>5, <2>1, Mapped
  <2>2. CASE Replay(fact)
    BY <1>4, <1>5, <2>2 DEF Replay
  <2>3. QED
    BY <1>5, <2>1, <2>2 DEF Accepted
<1>6. CASE CreateRun(p)
  BY <1>0, <1>2, <1>5, <1>6, CallTypes, FactShapes DEF CreateRun
<1>7. CASE Persist(p)
  <2> DEFINE fact == DecisionFact(n, o)
  <2>1. fact \in AllFacts /\ n \in 1..MaxRuns
    BY <1>0, <1>2, <1>7, CallTypes DEF Persist
  <2>2. CASE Record(fact) /\ Decide(o) = "allow"
    <3>1. Authorized' = Authorized \cup {<<n, o.cmd>>} /\ UNCHANGED <<Intents, Resulted>>
      BY <1>0, <2>1, <2>2, Mapped, FactShapes
    <3>2. {<<n, o.cmd>>} = {n} \X {o.cmd}
      OBVIOUS
    <3>3. A!Authorize(n, {o.cmd})
      BY <1>7, <3>1, <3>2 DEF Persist, A!Authorize, Authorized, Intents, Resulted
    <3>4. {o.cmd} \in SUBSET Cmds
      BY <1>1
    <3>5. QED
      BY <2>1, <3>3, <3>4 DEF AbstractNext, A!Next, A!Authorize
  <2>3. CASE Record(fact) /\ Decide(o) # "allow"
    BY <1>0, <1>3, <1>7, <2>1, <2>3, Mapped, FactShapes DEF Persist
  <2>4. CASE Replay(fact)
    BY <1>4, <1>7, <2>4 DEF Persist, Replay
  <2>5. QED
    BY <1>7, <2>2, <2>3, <2>4 DEF Persist, Accepted
<1>8. CASE Intent(p)
  <2> DEFINE fact == IntentFact(n, o)
  <2>1. fact \in AllFacts /\ n \in 1..MaxRuns
    BY <1>0, <1>2, <1>8, CallTypes DEF Intent
  <2>2. CASE Record(fact)
    <3>1. Intents' = Intents \cup {<<n, o.cmd>>} /\ UNCHANGED <<Authorized, Resulted>>
      BY <1>0, <2>1, <2>2, Mapped, FactShapes
    <3>2. \A g \in Facts : g.op = "intent" => g.obj # <<"intent", n>>
      <4>1. ~Store!Has("intent", <<"intent", n>>)
        <5>1. fact.op = "intent" /\ fact.obj = <<"intent", n>>
          BY FactShapes
        <5> HIDE DEF fact
        <5>2. Store!Legal(fact)
          BY <2>2 DEF Record
        <5>3. QED
          BY <5>1, <5>2 DEF Store!Legal
      <4>2. QED
        BY <4>1 DEF Store!Has, Facts
    <3>3. \A g \in Facts : g.op = "intent" => g.obj = <<"intent", g.obj[2]>>
      <4>1. Facts \subseteq AllFacts
        BY <1>0 DEF Facts
      <4>2. QED
        BY <4>1, IntentObject
    <3>4. \A e \in Cmds : <<n, e>> \notin Intents
      BY <3>2, <3>3 DEF Intents, FactsOf
    <3>5. A!Announce(n, o.cmd)
      BY <1>8, <3>1, <3>4 DEF Intent, A!Announce, Authorized, Intents, Resulted
    <3>6. QED
      BY <1>1, <1>2, <1>8, <3>5
      DEF Intent, AbstractNext, A!Next, A!Announce
  <2>3. CASE Replay(fact)
    BY <1>4, <1>8, <2>3 DEF Intent, Replay
  <2>4. QED
    BY <1>8, <2>2, <2>3 DEF Intent, Accepted
<1>9. CASE Exec(p)
  <2>1. CASE Perform(p)
    <3>1. PICK f \in Facts : Store!SameRequest(f, IntentFact(n, o))
      BY <1>0, <1>9 DEF Exec, Relies, Announced, Stands
    <3>2. f.op = "intent" /\ f.obj[2] = n /\ f.arg = o.cmd
      BY <3>1, SameRequestSame, FactShapes
    <3>3. <<n, o.cmd>> \in Intents
      BY <3>1, <3>2 DEF Intents, FactsOf
    <3>4. PICK d \in Facts : Store!SameRequest(d, DecisionFact(n, o))
      BY <1>0, <1>9 DEF Exec, Relies, Allowed, Stands
    <3>5. d.op = "decide" /\ d.obj[2] = DecisionId(n, o)
      BY <3>4, SameRequestSame, FactShapes
    <3>6. /\ DecisionId(n, o).outcome = "allow" /\ DecisionId(n, o).run = n
          /\ DecisionId(n, o).cmd = o.cmd
      BY <1>0, <1>9, FactShapes DEF Exec, Relies, Allowed
    <3>7. <<n, o.cmd>> \in Authorized
      BY <3>4, <3>5, <3>6 DEF Authorized, FactsOf
    <3>8. UNCHANGED <<Authorized, Intents, Resulted>>
      BY <1>9, MappedSame DEF Exec
    <3>9. A!Perform(n, o.cmd)
      BY <2>1, <3>3, <3>7, <3>8 DEF Perform, A!Perform, Authorized, Intents, Resulted
    <3>10. QED
      BY <1>1, <1>2, <1>9, <3>9
      DEF Exec, AbstractNext, A!Next, A!Perform
  <2>2. QED
    BY <1>4, <1>9, <2>1 DEF Exec
<1>10. CASE Result(p)
  <2> DEFINE fact == ResultFact(n, o, outcome[p])
  <2>1. fact \in AllFacts /\ n \in 1..MaxRuns
    BY <1>0, <1>2, <1>10, CallTypes DEF Result, Typed, TypeOK
  <2>2. CASE Record(fact)
    <3>1. Resulted' = Resulted \cup {n} /\ UNCHANGED <<Authorized, Intents>>
      <4>1. fact.op = "result" /\ fact.obj[2] = n
        BY DEF ResultFact, Fact
      <4>2. QED
        BY <1>0, <2>1, <2>2, <4>1, Mapped
    <3>2. \E i \in 1..Len(performed) : performed[i].id = n
      BY <1>0, <1>10 DEF Result, Relies, Typed, TypeOK
    <3>3. A!Settle(n)
      BY <1>10, <3>1, <3>2 DEF Result, A!Settle, Authorized, Intents, Resulted
    <3>4. QED
      BY <1>1, <1>2, <1>10, <3>3
      DEF Result, AbstractNext, A!Next, A!Settle
  <2>3. CASE Replay(fact)
    BY <1>4, <1>10, <2>3 DEF Result, Replay
  <2>4. QED
    BY <1>10, <2>2, <2>3 DEF Result, Accepted
<1>11. CASE Succeeded(p)
  BY <1>0, <1>2, <1>5, <1>11, CallTypes, FactShapes DEF Succeeded, Enforced, Verdicts
<1>12. CASE Failed(p)
  BY <1>0, <1>2, <1>5, <1>12, CallTypes, FactShapes DEF Failed, Enforced, Verdicts
<1>13. QED
  BY <1>4, <1>6, <1>7, <1>8, <1>9, <1>10, <1>11, <1>12
  DEF Step, Begin, CreateFails, PersistFails, CreateRealm, Mount, Destroy, EffectFails,
      EnforcementFails, Count, CountFails, Die

\* An effect is performed only when its run was allowed it and under an
\* intent that names it, and recorded as completed only afterwards
\* (ImplementsAuditedEffects).
THEOREM OneShotImplementsAuditedEffects == Spec => ImplementsAuditedEffects
<1>1. Init => A!Init
  BY DEF Init, A!Init, FactsOf, Facts
<1>2. Sound /\ [Next]_vars => [A!Next]_A!vars
  <2> SUFFICES ASSUME Sound, [Next]_vars PROVE AbstractNext
    BY DEF AbstractNext
  <2>1. CASE UNCHANGED vars
    BY <2>1, MappedSame DEF vars, AbstractNext, A!vars, Authorized, Intents, Resulted
  <2>2. CASE Serve
    <3>1. UNCHANGED <<Authorized, Intents, Resulted>>
      BY <2>2, ServeFact, Mapped, FactShapes DEF Serve, Sound, Typed, TypeOK
    <3>2. QED
      BY <2>2, <3>1
      DEF Serve, Sandbox, AbstractNext, A!vars, Authorized, Intents, Resulted
  <2>3. QED
    BY <2>1, <2>2, AbstractStep DEF Next
<1>3. QED
  BY <1>1, <1>2, SpecSound, PTL DEF Spec, ImplementsAuditedEffects, A!Spec
-----------------------------------------------------------------------------
(* What the enforcement records say.                                       *)

FailedRuns ==
    {f.obj[2].run : f \in {g \in FactsOf("enforce") : g.arg = "failed"}}

Working == {"decide", "intent", "realm", "mount", "exec", "destroy", "result",
            "succeeded", "failed"}

\* An enforcement record is of an allowed decision and, when it says
\* "succeeded", of a run with a result and the decided intent.
Backed(f) ==
    LET id == f.obj[2] IN
    /\ id.outcome = "allow"
    /\ f.arg = "succeeded" =>
        /\ \E g \in FactsOf("result") : g.obj[2] = id.run
        /\ \E g \in FactsOf("intent") : g.obj[2] = id.run /\ g.arg = id.cmd

\* A run with a result or a failure is some process's; a run of one process
\* has no result before that process records it, and none after a failure.
Accounted ==
    /\ \A n \in Resulted \cup FailedRuns : \E p \in Procs : Joined(p, n)
    /\ \A p \in Procs :
        at[p] \in Working =>
            \/ SharedRun(seq[p])
            \/ /\ seq[p] \notin FailedRuns
               /\ at[p] # "succeeded" => seq[p] \notin Resulted
    /\ \A n \in Resulted \cap FailedRuns : SharedRun(n)
    /\ \A f \in FactsOf("enforce") : Backed(f)

\* A process stays with the run it has.
LEMMA JoinedStays ==
    ASSUME Typed, [Next]_vars, NEW q \in Procs, NEW n, Joined(q, n)
    PROVE  Joined(q, n)'
<1>1. CASE UNCHANGED vars \/ Serve
  BY <1>1 DEF vars, Serve, Joined
<1>2. ASSUME NEW p \in Procs, Step(p) PROVE Joined(q, n)'
  <2>1. CASE p = q
    BY <1>2, <2>1 DEF Joined, Typed, TypeOK, Step, Begin, CreateRun, CreateFails, Persist,
       PersistFails, Intent, CreateRealm, Mount, Exec, Destroy, Result, EffectFails,
       Succeeded, Failed, Enforced, EnforcementFails, Count, CountFails, Die, Go, NoReport
  <2>2. CASE p # q
    BY <1>2, <2>2, StepOfOne DEF Untouched, Joined
  <2>3. QED
    BY <2>1, <2>2
<1>3. QED
  BY <1>1, <1>2 DEF Next

LEMMA SharedStays ==
    ASSUME Typed, [Next]_vars, NEW n, SharedRun(n)
    PROVE  SharedRun(n)'
<1>1. PICK p, q \in Procs : p # q /\ Joined(p, n) /\ Joined(q, n)
  BY DEF SharedRun
<1>2. Joined(p, n)' /\ Joined(q, n)'
  BY <1>1, JoinedStays
<1>3. QED
  BY <1>1, <1>2 DEF SharedRun

\* The records a request leaves.
LEMMA MappedFailed ==
    ASSUME ledger \in Seq(AllFacts), NEW fact \in AllFacts, Record(fact)
    PROVE  FailedRuns' = IF fact.op = "enforce" /\ fact.arg = "failed"
                         THEN FailedRuns \cup {fact.obj[2].run} ELSE FailedRuns
<1>1. Facts' = Facts \cup {fact}
  BY RecordGrows
<1>2. QED
  BY <1>1 DEF FailedRuns, FactsOf

\* A result is added by Result alone and a failure by Failed alone.
Adds(p) ==
    /\ Resulted' = Resulted \/ (Result(p) /\ Resulted' = Resulted \cup {seq[p]})
    /\ FailedRuns' = FailedRuns \/ (Failed(p) /\ FailedRuns' = FailedRuns \cup {seq[p]})

LEMMA AcceptedAdds ==
    ASSUME ledger \in Seq(AllFacts), NEW fact \in AllFacts, Accepted(fact)
    PROVE  /\ fact.op # "result" => Resulted' = Resulted
           /\ fact.op = "result" =>
                Resulted' = Resulted \/ Resulted' = Resulted \cup {fact.obj[2]}
           /\ ~(fact.op = "enforce" /\ fact.arg = "failed") => FailedRuns' = FailedRuns
           /\ fact.op = "enforce" =>
                FailedRuns' = FailedRuns \/ FailedRuns' = FailedRuns \cup {fact.obj[2].run}
<1>1. CASE Record(fact)
  BY <1>1, Mapped, MappedFailed
<1>2. CASE Replay(fact)
  BY <1>2 DEF Replay, Resulted, FailedRuns, FactsOf, Facts
<1>3. QED
  BY <1>1, <1>2 DEF Accepted

LEMMA StepAdds ==
    ASSUME Typed, NEW p \in Procs, Step(p)
    PROVE  Adds(p)
<1> DEFINE n == seq[p]
           o == opt[p]
<1>0. ledger \in Seq(AllFacts)
  BY DEF Typed, TypeOK
<1>1. CASE UNCHANGED ledger
  BY <1>1 DEF Adds, Resulted, FailedRuns, FactsOf, Facts
<1>2. CASE CreateRun(p)
  <2>1. RunFact(n, o) \in AllFacts /\ Accepted(RunFact(n, o))
    BY <1>2, CallTypes DEF CreateRun
  <2>2. QED
    BY <1>0, <2>1, FactShapes, AcceptedAdds DEF Adds
<1>3. CASE Persist(p)
  <2>1. DecisionFact(n, o) \in AllFacts /\ Accepted(DecisionFact(n, o))
    BY <1>3, CallTypes DEF Persist
  <2>2. QED
    BY <1>0, <2>1, FactShapes, AcceptedAdds DEF Adds
<1>4. CASE Intent(p)
  <2>1. IntentFact(n, o) \in AllFacts /\ Accepted(IntentFact(n, o))
    BY <1>4, CallTypes DEF Intent
  <2>2. QED
    BY <1>0, <2>1, FactShapes, AcceptedAdds DEF Adds
<1>5. CASE Result(p)
  <2> DEFINE fact == ResultFact(n, o, outcome[p])
  <2>1. fact \in AllFacts /\ Accepted(fact)
    BY <1>5, CallTypes DEF Result, Typed, TypeOK
  <2>2. fact.op = "result" /\ fact.obj[2] = n
    BY DEF ResultFact, Fact
  <2>3. QED
    BY <1>0, <1>5, <2>1, <2>2, AcceptedAdds DEF Adds
<1>6. CASE Succeeded(p)
  <2> DEFINE fact == EnforcementFact(n, o, "succeeded")
  <2>1. fact \in AllFacts /\ Accepted(fact)
    BY <1>6, CallTypes DEF Succeeded, Enforced, Verdicts
  <2>2. fact.op = "enforce" /\ fact.arg = "succeeded"
    BY DEF EnforcementFact, Fact
  <2>3. QED
    BY <1>0, <2>1, <2>2, AcceptedAdds DEF Adds
<1>7. CASE Failed(p)
  <2> DEFINE fact == EnforcementFact(n, o, "failed")
  <2>1. fact \in AllFacts /\ Accepted(fact)
    BY <1>7, CallTypes DEF Failed, Enforced, Verdicts
  <2>2. fact.op = "enforce" /\ fact.obj[2].run = n
    BY DEF EnforcementFact, DecisionId, Fact
  <2>3. QED
    BY <1>0, <1>7, <2>1, <2>2, AcceptedAdds DEF Adds
<1>8. QED
  BY <1>1, <1>2, <1>3, <1>4, <1>5, <1>6, <1>7
  DEF Step, Begin, CreateFails, PersistFails, CreateRealm, Mount, Exec, Destroy,
      EffectFails, EnforcementFails, Count, CountFails, Die

LEMMA BackedStays ==
    ASSUME Grows, NEW f, Backed(f)
    PROVE  Backed(f)'
BY DEF Grows, Backed, FactsOf

\* What is added to the enforcement records is backed.
LEMMA StepBacked ==
    ASSUME Sound, NEW p \in Procs, Step(p), \A f \in FactsOf("enforce") : Backed(f)
    PROVE  \A f \in FactsOf("enforce")' : Backed(f)'
<1> DEFINE n == seq[p]
           o == opt[p]
<1>0. ledger \in Seq(AllFacts) /\ Typed /\ Relies(p) /\ Grows
  BY StepGrows DEF Sound, Typed, TypeOK, Next
<1>1. ASSUME NEW fact \in AllFacts, Accepted(fact), fact.op = "enforce" => Backed(fact)
      PROVE  \A f \in FactsOf("enforce")' : Backed(f)'
  <2>1. Facts' = Facts \cup {fact} \/ Facts' = Facts
    BY <1>0, <1>1, AcceptedStands DEF Facts
  <2>2. \A f \in FactsOf("enforce")' : Backed(f)
    BY <1>1, <2>1 DEF FactsOf
  <2>3. QED
    BY <1>0, <2>2, BackedStays
<1>2. CASE UNCHANGED ledger
  BY <1>2 DEF FactsOf, Facts, Backed
<1>3. CASE CreateRun(p)
  BY <1>0, <1>1, <1>3, CallTypes, FactShapes DEF CreateRun
<1>4. CASE Persist(p)
  BY <1>0, <1>1, <1>4, CallTypes, FactShapes DEF Persist
<1>5. CASE Intent(p)
  BY <1>0, <1>1, <1>5, CallTypes, FactShapes DEF Intent
<1>6. CASE Result(p)
  <2>1. ResultFact(n, o, outcome[p]).op = "result"
    BY DEF ResultFact, Fact
  <2>2. ResultFact(n, o, outcome[p]) \in AllFacts
    BY <1>0, <1>6, CallTypes DEF Result, Typed, TypeOK
  <2>3. QED
    BY <1>1, <1>6, <2>1, <2>2 DEF Result
<1>7. CASE Succeeded(p)
  <2> DEFINE fact == EnforcementFact(n, o, "succeeded")
  <2>1. fact \in AllFacts /\ Accepted(fact)
    BY <1>0, <1>7, CallTypes DEF Succeeded, Enforced, Verdicts
  <2>2. fact.obj[2] = DecisionId(n, o)
    BY DEF EnforcementFact, Fact
  <2>3. /\ DecisionId(n, o).outcome = "allow" /\ DecisionId(n, o).run = n
        /\ DecisionId(n, o).cmd = o.cmd
    BY <1>0, <1>7, FactShapes DEF Succeeded, Enforced, Relies, Allowed
  <2>4. \E g \in FactsOf("intent") : g.obj[2] = n /\ g.arg = o.cmd
    <3>1. PICK g \in Facts : Store!SameRequest(g, IntentFact(n, o))
      BY <1>0, <1>7 DEF Succeeded, Enforced, Relies, Announced, Stands
    <3>2. QED
      BY <3>1, SameRequestSame, FactShapes DEF FactsOf
  <2>5. \E g \in FactsOf("result") : g.obj[2] = n
    <3> DEFINE result == ResultFact(n, o, outcome[p])
    <3>1. PICK g \in Facts : Store!SameRequest(g, result)
      BY <1>0, <1>7 DEF Succeeded, Enforced, Relies, Stands
    <3>2. result.op = "result" /\ result.obj[2] = n
      BY DEF ResultFact, Fact
    <3> HIDE DEF result
    <3>3. QED
      BY <3>1, <3>2, SameRequestSame DEF FactsOf
  <2>6. Backed(fact)
    <3> HIDE DEF fact, n, o
    <3>1. QED
      BY <2>2, <2>3, <2>4, <2>5 DEF Backed
  <2>7. QED
    BY <1>1, <2>1, <2>6
<1>8. CASE Failed(p)
  <2> DEFINE fact == EnforcementFact(n, o, "failed")
  <2>1. fact \in AllFacts /\ Accepted(fact)
    BY <1>0, <1>8, CallTypes DEF Failed, Enforced, Verdicts
  <2>2. fact.obj[2] = DecisionId(n, o) /\ fact.arg = "failed"
    BY DEF EnforcementFact, Fact
  <2>3. DecisionId(n, o).outcome = "allow"
    BY <1>0, <1>8, FactShapes DEF Failed, Enforced, Relies, Allowed
  <2>4. Backed(fact)
    <3> HIDE DEF fact, n, o
    <3>1. QED
      BY <2>2, <2>3 DEF Backed
  <2>5. QED
    BY <1>1, <2>1, <2>4
<1>9. QED
  BY <1>2, <1>3, <1>4, <1>5, <1>6, <1>7, <1>8
  DEF Step, Begin, CreateFails, PersistFails, CreateRealm, Mount, Exec, Destroy,
      EffectFails, EnforcementFails, Count, CountFails, Die

\* Where a process that works after a step was before it.
LEMMA WorkedBefore ==
    ASSUME Typed, NEW p \in Procs, Step(p), NEW q \in Procs, at'[q] \in Working
    PROVE  /\ seq'[q] = seq[q] /\ seq[q] \in 1..MaxRuns
           /\ at[q] \in Working \cup {"create"}
           /\ at[q] = "succeeded" => at'[q] = "succeeded"
           /\ Result(p) /\ p = q => at'[q] = "succeeded"
           /\ ~(Failed(p) /\ p = q)
<1>1. CASE p = q
  BY <1>1 DEF Working, Joined, Typed, TypeOK, Numbered, Step, Begin, CreateRun, CreateFails,
     Persist, PersistFails, Intent, CreateRealm, Mount, Exec, Destroy, Result, EffectFails,
     Succeeded, Failed, Enforced, EnforcementFails, Count, CountFails, Die, Go, NoReport
<1>2. CASE p # q
  BY <1>2, StepOfOne DEF Untouched, Working, Joined, Typed, Numbered
<1>3. QED
  BY <1>1, <1>2

LEMMA StepAccounted ==
    ASSUME Sound, Accounted, NEW p \in Procs, Step(p)
    PROVE  Accounted'
<1>0. Typed /\ Adds(p) /\ [Next]_vars
  BY StepAdds DEF Sound, Next
<1>1. \A f \in FactsOf("enforce")' : Backed(f)'
  BY StepBacked DEF Accounted
<1>2. Result(p) \/ Failed(p) => at[p] \in {"result", "failed"} /\ Joined(p, seq[p])
  BY DEF Result, Failed, Enforced, Joined
<1>3. \A n \in (Resulted \cup FailedRuns)' : \E q \in Procs : Joined(q, n)'
  <2>1. (Resulted \cup FailedRuns)' \subseteq Resulted \cup FailedRuns
           \/ ((Result(p) \/ Failed(p)) /\
               (Resulted \cup FailedRuns)' \subseteq Resulted \cup FailedRuns \cup {seq[p]})
    BY <1>0 DEF Adds
  <2>2. \A n \in (Resulted \cup FailedRuns)' : \E q \in Procs : Joined(q, n)
    BY <1>2, <2>1 DEF Accounted
  <2>3. QED
    BY <1>0, <2>2, JoinedStays
<1>4. \A n \in (Resulted \cap FailedRuns)' : SharedRun(n)'
  <2> SUFFICES ASSUME NEW n \in Resulted' \cap FailedRuns' PROVE SharedRun(n)'
    OBVIOUS
  <2>1. SharedRun(n)
    <3>1. CASE n \in Resulted /\ n \in FailedRuns
      BY <3>1 DEF Accounted
    <3>2. CASE n \notin Resulted
      BY <1>0, <1>2, <3>2 DEF Adds, Accounted, Working, Result, Failed, Enforced
    <3>3. CASE n \notin FailedRuns
      BY <1>0, <1>2, <3>3 DEF Adds, Accounted, Working, Result, Failed, Enforced
    <3>4. QED
      BY <3>1, <3>2, <3>3
  <2>2. QED
    BY <1>0, <2>1, SharedStays
<1>5. ASSUME NEW q \in Procs, at'[q] \in Working
      PROVE  \/ SharedRun(seq[q])'
             \/ /\ seq'[q] \notin FailedRuns'
                /\ at'[q] # "succeeded" => seq'[q] \notin Resulted'
  <2>1. PICK n \in 1..MaxRuns : n = seq[q]
    BY <1>0, <1>5, WorkedBefore
  <2>2. /\ seq'[q] = n
        /\ at[q] \in Working \cup {"create"}
        /\ at[q] = "succeeded" => at'[q] = "succeeded"
        /\ Result(p) /\ p = q => at'[q] = "succeeded"
        /\ ~(Failed(p) /\ p = q)
    BY <1>0, <1>5, <2>1, WorkedBefore
  <2>3. Joined(q, n)'
    BY <1>5, <2>2 DEF Joined, Working
  <2>4. ASSUME NEW r \in Procs, r # q, Joined(r, n) PROVE SharedRun(n)'
    <3>1. Joined(r, n)'
      BY <1>0, <2>4, JoinedStays
    <3>2. QED
      BY <2>3, <2>4, <3>1 DEF SharedRun
  <2>5. SharedRun(n)' => SharedRun(seq[q])'
    BY <2>2 DEF SharedRun, Joined
  <2>6. CASE at[q] = "create"
    <3>1. n \in Resulted' \cup FailedRuns' => \E r \in Procs : Joined(r, n)
      BY <1>0, <1>2, <2>1 DEF Adds, Accounted
    <3>2. ~Joined(q, n)
      BY <2>6 DEF Joined
    <3>3. n \in Resulted' \cup FailedRuns' => SharedRun(n)'
      BY <2>4, <3>1, <3>2
    <3>4. QED
      BY <2>2, <2>5, <3>3
  <2>7. CASE at[q] \in Working
    <3>1. CASE SharedRun(n)
      BY <1>0, <2>5, <3>1, SharedStays
    <3>2. CASE n \in FailedRuns' /\ n \notin FailedRuns
      <4>1. Failed(p) /\ n = seq[p]
        BY <1>0, <3>2 DEF Adds
      <4>2. QED
        BY <1>2, <2>2, <2>4, <2>5, <4>1
    <3>3. CASE n \in Resulted' /\ n \notin Resulted /\ at'[q] # "succeeded"
      <4>1. Result(p) /\ n = seq[p]
        BY <1>0, <3>3 DEF Adds
      <4>2. QED
        BY <1>2, <2>2, <2>4, <2>5, <3>3, <4>1
    <3>4. SharedRun(n) \/ (n \notin FailedRuns /\ (at[q] # "succeeded" => n \notin Resulted))
      BY <2>1, <2>7 DEF Accounted
    <3>5. QED
      BY <2>2, <3>1, <3>2, <3>3, <3>4
  <2>8. QED
    BY <2>2, <2>6, <2>7
<1>6. QED
  BY <1>1, <1>3, <1>4, <1>5 DEF Accounted

\* What an enforcement record says of its effect agrees with the record of
\* the effect, unless processes share the run (EnforcementTruthful).
THEOREM EnforcementIsTrue == Spec => []EnforcementTruthful
<1>1. Init => Accounted
  BY DEF Init, Accounted, Resulted, FailedRuns, FactsOf, Facts, Working
<1>2. ASSUME Sound, Accounted, [Next]_vars PROVE Accounted'
  <2>1. ASSUME UNCHANGED <<FactsOf("enforce"), FactsOf("result"), FactsOf("intent"), at, seq>>
        PROVE  Accounted'
    <3>1. Resulted' = Resulted /\ FailedRuns' = FailedRuns
      BY <2>1 DEF Resulted, FailedRuns
    <3>2. \A p \in Procs : \A n : Joined(p, n)' <=> Joined(p, n)
      BY <2>1 DEF Joined
    <3>3. \A n : SharedRun(n)' <=> SharedRun(n)
      BY <3>2 DEF SharedRun
    <3>4. \A p \in Procs : SharedRun(seq[p])' <=> SharedRun(seq[p])
      BY <2>1 DEF SharedRun, Joined
    <3>5. \A f : Backed(f)' <=> Backed(f)
      BY <2>1 DEF Backed
    <3>6. QED
      BY <1>2, <2>1, <3>1, <3>2, <3>3, <3>4, <3>5 DEF Accounted
  <2>2. CASE UNCHANGED vars
    BY <2>1, <2>2 DEF vars, FactsOf, Facts
  <2>3. CASE Serve
    <3> DEFINE fact == ServedFact(NextNumber)
    <3>1. fact \in AllFacts /\ Record(fact) /\ ledger \in Seq(AllFacts)
      BY <1>2, <2>3, ServeFact DEF Serve, Sound, Typed, TypeOK
    <3>2. fact.op = "create"
      BY FactOps
    <3>3. Facts' = Facts \cup {fact}
      BY <3>1, RecordGrows
    <3> HIDE DEF fact
    <3>4. QED
      BY <2>1, <2>3, <3>2, <3>3 DEF FactsOf, Serve
  <2>4. QED
    BY <1>2, <2>2, <2>3, StepAccounted DEF Next
<1>3. Accounted => EnforcementTruthful
  <2> SUFFICES ASSUME Accounted, NEW f \in FactsOf("enforce"), f.arg = "failed",
                      NEW g \in FactsOf("result"), g.obj[2] = f.obj[2].run
               PROVE  SharedRun(f.obj[2].run)
    BY DEF Accounted, EnforcementTruthful, Backed
  <2>1. f.obj[2].run \in FailedRuns /\ f.obj[2].run \in Resulted
    BY DEF FailedRuns, Resulted
  <2>2. QED
    BY <2>1 DEF Accounted
<1>4. QED
  BY <1>1, <1>2, <1>3, SpecSound, PTL DEF Spec
=============================================================================
