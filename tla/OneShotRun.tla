------------------------------ MODULE OneShotRun ------------------------------
(***************************************************************************)
(* `saber-core run` (execute_run of saber-core/src/lib.rs): a process that *)
(* takes one run from its creation to a report, through the policy         *)
(* enforcement point (policy/src/lib.rs), the fact store and a realm of    *)
(* the sandbox.  Several such processes share a store, with `saber-core    *)
(* serve` beside them.                                                     *)
(*                                                                         *)
(* A store call is one step, as the module Ledger promises and EventStore  *)
(* is shown to keep: the fact is appended, or the request is answered from *)
(* an equal fact, or the call errs - on a conflict, a constraint, a busy   *)
(* or full database - and nothing is written.  Any call may err and any    *)
(* process may die between two steps.                                      *)
(***************************************************************************)
EXTENDS Naturals, Sequences, FiniteSets

CONSTANTS
    Procs,      \* the processes, each of one run
    Tasks,      \* task ids an operator gives
    Cmds,       \* a program with its arguments
    Options,    \* what operators ask: RunOptions
    Outcomes,   \* what a child that ran comes to: exit code, lengths, duration
    MaxRuns     \* bound: rows of the runs table

NoOutcome == "nothing"
NoKey == <<"no key">>
NoEvent == <<"no event">>

\* now is the clock at the start; permitted: the program is among the
\* allowed_programs; approved: for this one run.
OptionType ==
    [task : Tasks, cmd : Cmds, permitted : BOOLEAN, approved : BOOLEAN, now : Nat]

ASSUME OneShotAssumption ==
    /\ Options \subseteq OptionType
    /\ MaxRuns \in Nat
    /\ NoOutcome \notin Outcomes

VARIABLES
    ledger,     \* the facts of the store, oldest first
    at,         \* Procs -> the next step
    opt,        \* Procs -> its options
    seq,        \* Procs -> the number its identifiers are made of, 0 for none
    realm,      \* Procs -> it has a realm of the sandbox
    outcome,    \* Procs -> what its child came to
    performed,  \* the children executed, oldest first: [id, effect] (history)
    executed,   \* the processes that executed theirs (history)
    report      \* Procs -> the RunReport it makes for its caller

vars == <<ledger, at, opt, seq, realm, outcome, performed, executed, report>>

-----------------------------------------------------------------------------
(* The facts, and the calls that record them.                              *)

Fact(op, obj, arg, key, event, time) ==
    [op |-> op, obj |-> obj, arg |-> arg, evidence |-> FALSE,
     key |-> key, event |-> event, at |-> time]

RunFact(n, o) ==
    Fact("create", <<"run", n>>, o.task, <<"run-idem", n>>, <<"event_run", n>>, o.now)

\* A run the endpoint creates has identifiers of another form.
ServedFact(n) ==
    Fact("create", <<"served", n>>, "-", <<"served", n>>, <<"served", n>>, 0)

IntentFact(n, o) ==
    Fact("intent", <<"intent", n>>, o.cmd, <<"intent-idem", n>>, <<"event_intent", n>>, o.now)

ResultFact(n, o, result) ==
    Fact("result", <<"intent", n>>, result, <<"result-idem", n>>, <<"event_result", n>>, o.now)

\* PolicyEngine::decide for a sandboxed process.spawn, which always needs an
\* approval, under a platform tier without rules and an operator's tier that
\* only permits: no rule denies, and without a permit the default does.
Decide(o) ==
    CASE ~o.permitted -> "deny"
      [] o.permitted /\ ~o.approved -> "require_approval"
      [] OTHER -> "allow"

\* make_decision: policy snapshot, request digest and outcome.
DecisionId(n, o) ==
    [run |-> n, task |-> o.task, cmd |-> o.cmd, permitted |-> o.permitted,
     outcome |-> Decide(o)]

DecisionFact(n, o) ==
    Fact("decide", <<"decision", DecisionId(n, o)>>, "audit",
         NoKey, <<"decided", DecisionId(n, o)>>, o.now)

EnforcementFact(n, o, result) ==
    Fact("enforce", <<"decision", DecisionId(n, o)>>, result,
         NoKey, <<"enforced", DecisionId(n, o), result, o.now>>, o.now)

Verdicts == {"succeeded", "failed"}

AllFacts ==
    LET Ids == 1..MaxRuns IN
    {RunFact(n, o) : n \in Ids, o \in Options} \cup {ServedFact(n) : n \in Ids}
        \cup {DecisionFact(n, o) : n \in Ids, o \in Options}
        \cup {IntentFact(n, o) : n \in Ids, o \in Options}
        \cup {ResultFact(n, o, r) : n \in Ids, o \in Options, r \in Outcomes}
        \cup {EnforcementFact(n, o, v) : n \in Ids, o \in Options, v \in Verdicts}

\* The store, as what it promises; only its facts are of interest here.
Store == INSTANCE Ledger WITH
    ledger <- ledger, answers <- {},
    Runs <- {"run", "served"} \X Nat,
    Intents <- {"intent"} \X Nat,
    Decisions <- {"decision"} \X {DecisionId(n, o) : n \in Nat, o \in Options},
    Keys <- {"run-idem", "served", "intent-idem", "result-idem"} \X Nat,
    EventIds <- {},
    Args <- {}, Commands <- {}, NoKey <- NoKey, NoEvent <- NoEvent

Facts == {ledger[i] : i \in 1..Len(ledger)}

Record(fact) ==
    /\ Store!Legal(fact)
    /\ ledger' = Append(ledger, fact)

Replay(fact) ==
    /\ \E other \in Facts : Store!SameRequest(other, fact)
    /\ UNCHANGED ledger

\* The call is answered Ok.
Accepted(fact) == Record(fact) \/ Replay(fact)

\* EventStore::run_count.
RunCount == Cardinality({i \in 1..Len(ledger) : ledger[i].op = "create"})

-----------------------------------------------------------------------------
(* Steps of a process.                                                     *)

Go(p, place) == at' = [at EXCEPT ![p] = place]

\* The process ends with an error, or dies.
NoReport(p) ==
    /\ report' = [report EXCEPT ![p] = "none"]
    /\ Go(p, "over")

Sandbox == <<realm, outcome, performed, executed>>

\* Mutant: the runs are numbered from the count, not from the one after it.
NextNumberLast == IF RunCount = 0 THEN 1 ELSE RunCount

NextNumber == RunCount + 1

\* open_run_store up to its write: the number is read, nothing reserves it.
Begin(p) ==
    /\ at[p] = "start"
    /\ RunCount < MaxRuns
    /\ seq' = [seq EXCEPT ![p] = NextNumber]
    /\ Go(p, "create")
    /\ UNCHANGED <<ledger, opt, report>> /\ UNCHANGED Sandbox

CreateRun(p) ==
    /\ at[p] = "create"
    /\ Accepted(RunFact(seq[p], opt[p]))
    /\ Go(p, "decide")
    /\ UNCHANGED <<opt, seq, report>> /\ UNCHANGED Sandbox

\* No run: the caller gets the store's error.
CreateFails(p) ==
    /\ at[p] = "create"
    /\ seq' = [seq EXCEPT ![p] = 0]
    /\ NoReport(p)
    /\ UNCHANGED <<ledger, opt>> /\ UNCHANGED Sandbox

\* PolicyEnforcer::execute: the decision is durable before anything follows.
\* The approval, made for this very request, is valid and spent in memory.
Persist(p) ==
    /\ at[p] = "decide"
    /\ Accepted(DecisionFact(seq[p], opt[p]))
    /\ IF Decide(opt[p]) = "allow"
       THEN Go(p, "intent") /\ UNCHANGED report
       ELSE /\ Go(p, "count")
            /\ report' = [report EXCEPT ![p] = "denied"]
    /\ UNCHANGED <<opt, seq>> /\ UNCHANGED Sandbox

\* AuditBefore; or the policy or the request could not be built.
PersistFails(p) ==
    /\ at[p] = "decide"
    /\ NoReport(p)
    /\ UNCHANGED <<ledger, opt, seq>> /\ UNCHANGED Sandbox

\* Mutant: an intent found under the key is taken for this one.
IntentOfAnyone(p) ==
    /\ at[p] = "intent"
    /\ \/ Record(IntentFact(seq[p], opt[p]))
       \/ /\ \E f \in Facts : f.key = IntentFact(seq[p], opt[p]).key
          /\ UNCHANGED ledger
    /\ Go(p, "realm")
    /\ UNCHANGED <<opt, seq, report>> /\ UNCHANGED Sandbox

Intent(p) ==
    /\ at[p] = "intent"
    /\ Accepted(IntentFact(seq[p], opt[p]))
    /\ Go(p, "realm")
    /\ UNCHANGED <<opt, seq, report>> /\ UNCHANGED Sandbox

\* The registry selects a backend, and the backend creates a realm.
CreateRealm(p) ==
    /\ at[p] = "realm"
    /\ realm' = [realm EXCEPT ![p] = TRUE]
    /\ Go(p, "mount")
    /\ UNCHANGED <<ledger, opt, seq, outcome, performed, executed, report>>

Mount(p) ==
    /\ at[p] = "mount"
    /\ Go(p, "exec")
    /\ UNCHANGED <<ledger, opt, seq, report>> /\ UNCHANGED Sandbox

Perform(p) ==
    /\ performed' = Append(performed, [id |-> seq[p], effect |-> opt[p].cmd])
    /\ executed' = executed \cup {p}

\* The child runs to an outcome, or the backend errs with the child not
\* started, or started and killed.  The realm is given up in each case.
Exec(p) ==
    /\ at[p] = "exec"
    /\ \/ /\ Perform(p)
          /\ \E r \in Outcomes : outcome' = [outcome EXCEPT ![p] = r]
       \/ /\ Perform(p) \/ UNCHANGED <<performed, executed>>
          /\ UNCHANGED outcome
    /\ Go(p, "destroy")
    /\ UNCHANGED <<ledger, opt, seq, realm, report>>

\* Mutant: the error of exec is dropped.
DestroyDropsError(p) ==
    /\ at[p] = "destroy"
    /\ realm' = [realm EXCEPT ![p] = FALSE]
    /\ Go(p, "result")
    /\ UNCHANGED <<ledger, opt, seq, outcome, performed, executed, report>>

Destroy(p) ==
    /\ at[p] = "destroy"
    /\ realm' = [realm EXCEPT ![p] = FALSE]
    /\ Go(p, IF outcome[p] = NoOutcome THEN "failed" ELSE "result")
    /\ UNCHANGED <<ledger, opt, seq, outcome, performed, executed, report>>

\* Mutant: the store's refusal of the result is dropped.
ResultUnrecorded(p) ==
    /\ at[p] = "result"
    /\ Accepted(ResultFact(seq[p], opt[p], outcome[p])) \/ UNCHANGED ledger
    /\ Go(p, "succeeded")
    /\ UNCHANGED <<opt, seq, report>> /\ UNCHANGED Sandbox

Result(p) ==
    /\ at[p] = "result"
    /\ Accepted(ResultFact(seq[p], opt[p], outcome[p]))
    /\ Go(p, "succeeded")
    /\ UNCHANGED <<opt, seq, report>> /\ UNCHANGED Sandbox

\* The closure of the effect errs, before, in or after the execution.  A
\* realm that could not be mounted or destroyed is left behind.
EffectFails(p) ==
    /\ at[p] \in {"intent", "realm", "mount", "destroy", "result"}
    /\ Go(p, "failed")
    /\ UNCHANGED <<ledger, opt, seq, report>> /\ UNCHANGED Sandbox

\* Mutant: the report does not wait for the record.
EnforcedLater(p, place, result, what) ==
    /\ at[p] = place
    /\ Accepted(EnforcementFact(seq[p], opt[p], result)) \/ UNCHANGED ledger
    /\ report' = [report EXCEPT ![p] = what]
    /\ Go(p, "count")
    /\ UNCHANGED <<opt, seq>> /\ UNCHANGED Sandbox

Enforced(p, place, result, what) ==
    /\ at[p] = place
    /\ Accepted(EnforcementFact(seq[p], opt[p], result))
    /\ report' = [report EXCEPT ![p] = what]
    /\ Go(p, "count")
    /\ UNCHANGED <<opt, seq>> /\ UNCHANGED Sandbox

Succeeded(p) == Enforced(p, "succeeded", "succeeded", "executed")
Failed(p) == Enforced(p, "failed", "failed", "failed")

\* AuditAfter.
EnforcementFails(p) ==
    /\ at[p] \in {"succeeded", "failed"}
    /\ NoReport(p)
    /\ UNCHANGED <<ledger, opt, seq>> /\ UNCHANGED Sandbox

\* event_count and verify_hash_chain for the report, then the report.
Count(p) ==
    /\ at[p] = "count"
    /\ Go(p, "over")
    /\ UNCHANGED <<ledger, opt, seq, report>> /\ UNCHANGED Sandbox

CountFails(p) ==
    /\ at[p] = "count"
    /\ NoReport(p)
    /\ UNCHANGED <<ledger, opt, seq>> /\ UNCHANGED Sandbox

Die(p) ==
    /\ at[p] \notin {"start", "over"}
    /\ seq' = [seq EXCEPT ![p] = IF at[p] = "create" THEN 0 ELSE @]
    /\ NoReport(p)
    /\ UNCHANGED <<ledger, opt>> /\ UNCHANGED Sandbox

\* The endpoint creates a run of its own.
Serve ==
    /\ RunCount < MaxRuns
    /\ Record(ServedFact(NextNumber))
    /\ UNCHANGED <<at, opt, seq, report>> /\ UNCHANGED Sandbox

-----------------------------------------------------------------------------
Init ==
    /\ ledger = <<>>
    /\ at = [p \in Procs |-> "start"]
    /\ opt \in [Procs -> Options]
    /\ seq = [p \in Procs |-> 0]
    /\ realm = [p \in Procs |-> FALSE]
    /\ outcome = [p \in Procs |-> NoOutcome]
    /\ performed = <<>>
    /\ executed = {}
    /\ report = [p \in Procs |-> "none"]

Step(p) ==
    \/ Begin(p) \/ CreateRun(p) \/ CreateFails(p)
    \/ Persist(p) \/ PersistFails(p)
    \/ Intent(p) \/ CreateRealm(p) \/ Mount(p) \/ Exec(p) \/ Destroy(p) \/ Result(p)
    \/ EffectFails(p)
    \/ Succeeded(p) \/ Failed(p) \/ EnforcementFails(p)
    \/ Count(p) \/ CountFails(p)
    \/ Die(p)

Next == Serve \/ \E p \in Procs : Step(p)

Spec == Init /\ [][Next]_vars

-----------------------------------------------------------------------------
(* Properties.                                                             *)

Places == {"start", "create", "decide", "intent", "realm", "mount", "exec", "destroy",
           "result", "succeeded", "failed", "count", "over"}

\* Every variable holds a value of its kind; a child's result is recorded and
\* enforced as a success only if there is one.
TypeOK ==
    /\ ledger \in Seq(AllFacts)
    /\ at \in [Procs -> Places]
    /\ opt \in [Procs -> Options]
    /\ seq \in [Procs -> 0..MaxRuns]
    /\ realm \in [Procs -> BOOLEAN]
    /\ outcome \in [Procs -> Outcomes \cup {NoOutcome}]
    /\ performed \in Seq([id : 1..MaxRuns, effect : Cmds])
    /\ executed \subseteq Procs
    /\ report \in [Procs -> {"none", "denied", "executed", "failed"}]
    /\ \A p \in Procs :
        at[p] \in {"result", "succeeded"} => p \in executed /\ outcome[p] \in Outcomes

\* The runs, intents and results of the log are the announcements of
\* AuditedEffects: an effect is performed only when its run was allowed it,
\* under an intent that names it, and is recorded as completed only
\* afterwards.
FactsOf(op) == {f \in Facts : f.op = op}

A == INSTANCE AuditedEffects WITH
        Ids <- 1..MaxRuns, Effects <- Cmds,
        authorized <- {<<f.obj[2].run, f.obj[2].cmd>> :
                          f \in {g \in FactsOf("decide") : g.obj[2].outcome = "allow"}},
        announced <- {<<f.obj[2], f.arg>> : f \in FactsOf("intent")},
        settled <- {f.obj[2] : f \in FactsOf("result")}

ImplementsAuditedEffects == A!Spec

\* The fact of this request, or an equal one, is durable.
Stands(fact) == \E f \in Facts : Store!SameRequest(f, fact)

\* A report is what the log shows: "executed" of a permitted, approved,
\* announced child whose own outcome is recorded and whose realm is gone,
\* "failed" of an allowed one whose failure is, "denied" of one that never ran.
ReportsTruthful ==
    \A p \in Procs :
        LET n == seq[p] o == opt[p] IN
        /\ report[p] \in {"executed", "failed", "denied"} =>
            Stands(RunFact(n, o)) /\ Stands(DecisionFact(n, o))
        /\ report[p] = "executed" =>
            /\ o.permitted /\ o.approved
            /\ p \in executed /\ ~realm[p]
            /\ Stands(IntentFact(n, o))
            /\ Stands(ResultFact(n, o, outcome[p]))
            /\ Stands(EnforcementFact(n, o, "succeeded"))
        /\ report[p] = "failed" =>
            o.permitted /\ o.approved /\ Stands(EnforcementFact(n, o, "failed"))
        /\ report[p] = "denied" =>
            ~(o.permitted /\ o.approved) /\ p \notin executed

Joined(p, n) == seq[p] = n /\ at[p] \notin {"start", "create"}

SharedRun(n) == \E p, q \in Procs : p # q /\ Joined(p, n) /\ Joined(q, n)

\* An enforcement that says "succeeded" stands on a recorded result of the
\* decided command; one that says "failed" excludes it, unless two processes
\* had the run.
EnforcementTruthful ==
    \A f \in FactsOf("enforce") :
        LET id == f.obj[2]
            resulted == \E g \in FactsOf("result") : g.obj[2] = id.run
        IN  /\ id.outcome = "allow"
            /\ f.arg = "succeeded" =>
                /\ resulted
                /\ \E g \in FactsOf("intent") : g.obj[2] = id.run /\ g.arg = id.cmd
            /\ f.arg = "failed" => ~resulted \/ SharedRun(id.run)

\* The number a process reads is that of no run so far, whatever processes
\* and endpoints have created, however they ended.
FreshNumber ==
    [][\A p \in Procs :
        at[p] = "start" /\ at'[p] = "create" =>
            \A f \in Facts : f.obj # <<"run", seq'[p]>>]_vars

\* "Repeated runs in one store stay distinct" (open_run_store): no two
\* processes work on one run.
RunsStayDistinct == \A n \in 1..MaxRuns : ~SharedRun(n)
=============================================================================
