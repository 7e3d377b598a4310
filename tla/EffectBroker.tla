----------------------------- MODULE EffectBroker -----------------------------
(***************************************************************************)
(* EffectBroker::execute (crates/effect-broker): the one path from a       *)
(* request to an isolated effect, through egress policy, sandbox registry, *)
(* journal, policy enforcement, approvals and secret custody.  It borrows  *)
(* the broker mutably: one call at a time, and nothing of the broker's     *)
(* memory changes under it.  Any call into a backend or the store may err, *)
(* and the process may die between two steps, which leaves the store alone.*)
(*                                                                         *)
(* Journal and audit sink are the fact store, as the module Ledger         *)
(* promises it.                                                            *)
(***************************************************************************)
EXTENDS Naturals, Sequences, FiniteSets

CONSTANTS
    Digests,    \* digests of prepared requests: all of them but the time
    Plans,      \* digests of validated sandbox plans
    Refs,       \* credential references
    Effects,    \* the effects asked for: IsolatedEffect
    Grants,     \* the approvals at hand
    Policies,   \* policy snapshots: what each says of a request
    MaxTime,    \* bound: the clock
    MaxCalls,   \* bound: calls
    MaxLives    \* bound: lives of the process

Outcomes == {"allow", "require_approval", "deny"}
NoGrant == [id |-> "none", digest |-> "none", once |-> FALSE, expires |-> 0]
NoCall == <<>>
NoKey == <<"no key">>
NoEvent == <<"no event">>

\* fits: channels and purpose are among those the record declares.
LeaseType == [ref : Refs, digest : Digests, expires : Nat, fits : BOOLEAN]

\* network: the action needs it; egress: what the egress engine says of the
\* request, if there is one; child: the plan has a command.
EffectType ==
    [digest : Digests, plan : Plans, occurred : Nat, network : BOOLEAN,
     egress : {"none", "allowed", "denied"}, leases : Seq(LeaseType), child : BOOLEAN]

GrantType == [id : STRING, digest : Digests, once : BOOLEAN, expires : Nat]

ASSUME BrokerAssumption ==
    /\ Effects \subseteq EffectType
    /\ Grants \subseteq GrantType
    /\ Policies \subseteq [Digests -> Outcomes]
    /\ NoGrant \notin Grants
    /\ MaxTime \in Nat /\ MaxCalls \in Nat /\ MaxLives \in Nat \ {0}

VARIABLES
    ledger,     \* the facts of the store, oldest first
    at,         \* the next step of the call, "idle" between calls
    call,       \* the call under way, or the last one: [effect, grant, now]
    granted,    \* how many of its leases were issued and consumed
    answer,     \* what it returns: "Ok" or the BrokerFailure
    exit,       \* the exit of its child
    policy,     \* the snapshot in force
    consumed,   \* once-grants spent, in the memory of the ApprovalLedger
    secrets,    \* Refs -> what the SecretBroker has of it
    realms,     \* realms created and not destroyed
    clock,
    calls,      \* how many calls were made (bound)
    life,       \* the life of the process (bound)
    undone,     \* realms whose destruction failed (history)
    performed   \* the effects performed, oldest first (history)

memory == <<policy, consumed, secrets>>
bounds == <<clock, calls, life>>
vars == <<ledger, at, call, granted, answer, exit, memory, realms, bounds, undone, performed>>

-----------------------------------------------------------------------------
(* The facts.                                                              *)

Fact(op, obj, arg, key, event, time) ==
    [op |-> op, obj |-> obj, arg |-> arg, evidence |-> FALSE,
     key |-> key, event |-> event, at |-> time]

\* Identifiers are the digest's; the plan and the purpose are in the payload.
IntentFact(kind, e, now) ==
    Fact("intent", <<kind, e.digest>>, e.plan, <<kind, e.digest>>, <<"intent", kind, e.digest>>, now)

ResultFact(kind, e, result, now) ==
    Fact("result", <<kind, e.digest>>, result, <<"result", kind, e.digest>>,
         <<"result", kind, e.digest>>, now)

\* make_decision: snapshot, digest, outcome and reason name a decision; its
\* audit record has the time of the request, not of the decision.
DecisionFact(e, p, verdict) ==
    LET id == [policy |-> p, digest |-> e.digest, verdict |-> verdict] IN
    Fact("decide", <<"decision", id>>, "audit", NoKey, <<"decided", id>>, e.occurred)

EnforcementFact(e, p, result, now) ==
    LET id == [policy |-> p, digest |-> e.digest, verdict |-> "allow"] IN
    Fact("enforce", <<"decision", id>>, result, NoKey, <<"enforced", id, result, now>>, now)

Store == INSTANCE Ledger WITH
    ledger <- ledger, answers <- {},
    Runs <- {}, Intents <- {}, Decisions <- {}, Keys <- {}, EventIds <- {},
    Args <- {}, Commands <- {}, NoKey <- NoKey, NoEvent <- NoEvent

Facts == {ledger[i] : i \in 1..Len(ledger)}

Record(fact) ==
    /\ Store!Legal(fact)
    /\ ledger' = Append(ledger, fact)

\* The fact of this request, or an equal one, is durable.
Stands(fact) == \E f \in Facts : Store!SameRequest(f, fact)

Replay(fact) == Stands(fact) /\ UNCHANGED ledger

Accepted(fact) == Record(fact) \/ Replay(fact)

-----------------------------------------------------------------------------
(* A call.                                                                 *)

Effect == call.effect

Go(place) == at' = place

\* The call gives up: with a realm it goes by way of its destruction.
Fail(failure, place) ==
    /\ answer' = failure
    /\ Go(place)

\* A network action needs an egress request the engine allows, for the
\* purpose of the plan; any other action must come without one.
EgressPasses(e) == e.egress = (IF e.network THEN "allowed" ELSE "none")

Call(e, g) ==
    /\ at = "idle"
    /\ calls < MaxCalls
    /\ calls' = calls + 1
    /\ call' = [effect |-> e, grant |-> g, now |-> clock]
    /\ granted' = 0
    /\ exit' = "none"
    /\ IF EgressPasses(e) THEN answer' = "none" /\ Go("create")
                          ELSE Fail("EgressDenied", "idle")
    /\ UNCHANGED <<ledger, memory, realms, clock, life, undone, performed>>

\* select_for and create.  prepare, which follows, repeats the validation of
\* plan and request and cannot fail any more.
CreateRealm ==
    /\ at = "create"
    /\ realms' = realms + 1
    /\ Go("journal")
    /\ UNCHANGED <<ledger, call, granted, answer, exit, memory, bounds, undone, performed>>

\* No healthy backend covers the plan, or it cannot create the realm.
CreateFails ==
    /\ at = "create"
    /\ Fail("Sandbox", "idle")
    /\ UNCHANGED <<ledger, call, granted, exit, memory, realms, bounds, undone, performed>>

Intent ==
    /\ at = "journal"
    /\ Accepted(IntentFact("effect", Effect, call.now))
    /\ Go("decide")
    /\ UNCHANGED <<call, granted, answer, exit, memory, realms, bounds, undone, performed>>

\* Mutant: the journal is best effort.
IntentBestEffort ==
    /\ at = "journal"
    /\ Go("decide")
    /\ UNCHANGED <<ledger, call, granted, answer, exit, memory, realms, bounds, undone, performed>>

IntentFails ==
    /\ at = "journal"
    /\ Fail("Journal", "destroy")
    /\ UNCHANGED <<ledger, call, granted, exit, memory, realms, bounds, undone, performed>>

\* Mutant: a grant is not looked up among the consumed ones.
GrantNeverSpent(g) ==
    /\ g # NoGrant
    /\ call.now < g.expires
    /\ g.digest = Effect.digest

\* ApprovalLedger::validate.  Nothing reaches approvals_mut behind the broker:
\* no grant is revoked.  The digest binds the resource a scope must cover.
ValidGrant(g) ==
    /\ g # NoGrant
    /\ call.now < g.expires
    /\ g.digest = Effect.digest
    /\ g.once => g.id \notin consumed

\* What PolicyEnforcer::execute decides.
Verdict ==
    LET said == policy[Effect.digest] IN
    CASE said # "require_approval" -> said
      [] said = "require_approval" /\ call.grant = NoGrant -> "require_approval"
      [] said = "require_approval" /\ ValidGrant(call.grant) -> "allow"
      [] OTHER -> "approval_invalid"

Spends == policy[Effect.digest] = "require_approval" /\ call.grant.once

\* The decision is durable, then the grant is spent, then the effect starts.
Decide ==
    /\ at = "decide"
    /\ Accepted(DecisionFact(Effect, policy, Verdict))
    /\ IF Verdict = "allow" THEN Go("mount") /\ UNCHANGED answer
       ELSE Fail(IF Verdict = "approval_invalid" THEN "Approval" ELSE "Policy", "destroy")
    /\ consumed' = IF Verdict = "allow" /\ Spends THEN consumed \cup {call.grant.id}
                                                 ELSE consumed
    /\ UNCHANGED <<call, granted, exit, policy, secrets, realms, bounds, undone, performed>>

\* Mutant: the error returns past the destruction of the realm.
DecideFailsLeaks ==
    /\ at = "decide"
    /\ Fail("AuditBefore", "idle")
    /\ UNCHANGED <<ledger, call, granted, exit, memory, realms, bounds, undone, performed>>

DecideFails ==
    /\ at = "decide"
    /\ Fail("AuditBefore", "destroy")
    /\ UNCHANGED <<ledger, call, granted, exit, memory, realms, bounds, undone, performed>>

\* Mounts and network posture of the realm.
Mount ==
    /\ at = "mount"
    /\ Go("lease")
    /\ UNCHANGED <<ledger, call, granted, answer, exit, memory, realms, bounds, undone, performed>>

MountFails ==
    /\ at = "mount"
    /\ Fail("Sandbox", "failed")
    /\ UNCHANGED <<ledger, call, granted, exit, memory, realms, bounds, undone, performed>>

\* issue and then consume: the reference is held, the lease is short, of
\* declared channels and purpose, and bound to this very request.
LeaseGranted(lease) ==
    /\ secrets[lease.ref] = "held"
    /\ lease.expires > call.now
    /\ lease.fits
    /\ lease.digest = Effect.digest

NextLease == Effect.leases[granted + 1]

Lease ==
    /\ at = "lease"
    /\ granted < Len(Effect.leases)
    /\ IF LeaseGranted(NextLease)
       THEN granted' = granted + 1 /\ UNCHANGED <<at, answer>>
       ELSE Fail("Secret", "failed") /\ UNCHANGED granted
    /\ UNCHANGED <<ledger, call, exit, memory, realms, bounds, undone, performed>>

Perform ==
    performed' = Append(performed,
        [id |-> Effect.digest, effect |-> Effect.plan, call |-> calls, life |-> life,
         grant |-> call.grant, now |-> call.now, policy |-> policy,
         refs |-> {Effect.leases[i].ref : i \in 1..granted}])

\* Without a command the effect is the guarded read its caller makes.
Exec(code) ==
    /\ at = "lease"
    /\ granted = Len(Effect.leases)
    /\ ~Effect.child => code = "zero"
    /\ Perform
    /\ exit' = code
    /\ Go("succeeded")
    /\ UNCHANGED <<ledger, call, granted, answer, memory, realms, bounds, undone>>

\* The backend errs, with the child not started, or started and killed.
ExecFails(started) ==
    /\ at = "lease"
    /\ granted = Len(Effect.leases)
    /\ Effect.child
    /\ IF started THEN Perform ELSE UNCHANGED performed
    /\ Fail("Sandbox", "failed")
    /\ UNCHANGED <<ledger, call, granted, exit, memory, realms, bounds, undone>>

Enforced(place, result) ==
    /\ at = place
    /\ Accepted(EnforcementFact(Effect, policy, result, call.now))
    /\ Go("destroy")
    /\ UNCHANGED <<call, granted, answer, exit, memory, realms, bounds, undone, performed>>

Succeeded == Enforced("succeeded", "succeeded")
Failed == Enforced("failed", "failed")

\* Mutant: the error of the enforcement record is dropped.
EnforcementErrorDropped ==
    /\ at \in {"succeeded", "failed"}
    /\ Go("destroy")
    /\ UNCHANGED <<ledger, call, granted, answer, exit, memory, realms, bounds, undone, performed>>

EnforcementFails ==
    /\ at \in {"succeeded", "failed"}
    /\ Fail("AuditAfter", "destroy")
    /\ UNCHANGED <<ledger, call, granted, exit, memory, realms, bounds, undone, performed>>

\* destroy_realm drops the backend's error.
Destroy ==
    /\ at = "destroy"
    /\ \/ realms' = realms - 1 /\ UNCHANGED undone
       \/ undone' = undone + 1 /\ UNCHANGED realms
    /\ Go(IF answer = "none" THEN "result" ELSE "idle")
    /\ UNCHANGED <<ledger, call, granted, answer, exit, memory, bounds, performed>>

Result ==
    /\ at = "result"
    /\ Accepted(ResultFact("effect", Effect, "completed", call.now))
    /\ answer' = "Ok"
    /\ Go("idle")
    /\ UNCHANGED <<call, granted, exit, memory, realms, bounds, undone, performed>>

ResultFails ==
    /\ at = "result"
    /\ Fail("JournalAfter", "idle")
    /\ UNCHANGED <<ledger, call, granted, exit, memory, realms, bounds, undone, performed>>

-----------------------------------------------------------------------------
(* Between calls, and the end of the process.                              *)

\* secrets_mut: register refuses a reference it has, revoked or not.
Register(ref) ==
    /\ at = "idle"
    /\ secrets[ref] = "absent"
    /\ secrets' = [secrets EXCEPT ![ref] = "held"]
    /\ UNCHANGED <<ledger, at, call, granted, answer, exit, policy, consumed, realms,
                   bounds, undone, performed>>

RevokeReference(ref) ==
    /\ at = "idle"
    /\ secrets[ref] = "held"
    /\ secrets' = [secrets EXCEPT ![ref] = "revoked"]
    /\ UNCHANGED <<ledger, at, call, granted, answer, exit, policy, consumed, realms,
                   bounds, undone, performed>>

\* A call reads the time once, as now_ms: it need not pass in a call.
Tick ==
    /\ at = "idle"
    /\ clock < MaxTime
    /\ clock' = clock + 1
    /\ UNCHANGED <<ledger, at, call, granted, answer, exit, memory, realms, calls, life,
                   undone, performed>>

\* The process dies; the next one is composed anew, under the policy of then.
Die ==
    /\ life < MaxLives
    /\ life' = life + 1
    /\ policy' \in Policies
    /\ consumed' = {}
    /\ secrets' = [ref \in Refs |-> "absent"]
    /\ answer' = "none"
    /\ Go("idle")
    /\ realms' = 0
    /\ undone' = 0
    /\ UNCHANGED <<ledger, call, granted, exit, clock, calls, performed>>

-----------------------------------------------------------------------------
Init ==
    /\ ledger = <<>>
    /\ at = "idle"
    /\ call = NoCall
    /\ granted = 0
    /\ answer = "none"
    /\ exit = "none"
    /\ policy \in Policies
    /\ consumed = {}
    /\ secrets = [ref \in Refs |-> "absent"]
    /\ realms = 0
    /\ clock = 0
    /\ calls = 0
    /\ life = 1
    /\ undone = 0
    /\ performed = <<>>

\* What execute does once it is called, the execution of the effect apart.
Govern ==
    \/ CreateRealm \/ CreateFails \/ Intent \/ IntentFails \/ Decide \/ DecideFails
    \/ Mount \/ MountFails \/ Lease
    \/ Succeeded \/ Failed \/ EnforcementFails \/ Destroy \/ Result \/ ResultFails

Execute == (\E code \in {"zero", "nonzero"} : Exec(code)) \/ \E b \in BOOLEAN : ExecFails(b)

Between == Tick \/ \E ref \in Refs : Register(ref) \/ RevokeReference(ref)

Next ==
    \/ \E e \in Effects, g \in Grants \cup {NoGrant} : Call(e, g)
    \/ Govern \/ Execute \/ Between \/ Die

Spec == Init /\ [][Next]_vars
-----------------------------------------------------------------------------
(* Properties.                                                             *)

Places == {"idle", "create", "journal", "decide", "mount", "lease", "succeeded",
           "failed", "destroy", "result"}

Answers == {"none", "Ok", "EgressDenied", "Sandbox", "Journal", "Policy", "Approval",
            "AuditBefore", "Secret", "AuditAfter", "JournalAfter"}

\* Every variable holds a value of its kind, and a call under way has a realm
\* from its creation to its destruction, beside those that outlived theirs.
TypeOK ==
    /\ at \in Places
    /\ \/ call = NoCall /\ at = "idle"
       \/ call \in [effect : Effects, grant : Grants \cup {NoGrant}, now : 0..MaxTime]
    /\ granted \in Nat
    /\ call # NoCall => granted <= Len(Effect.leases)
    /\ answer \in Answers
    /\ exit \in {"none", "zero", "nonzero"}
    /\ policy \in Policies
    /\ consumed \subseteq {g.id : g \in Grants}
    /\ secrets \in [Refs -> {"absent", "held", "revoked"}]
    /\ clock \in 0..MaxTime /\ calls \in 0..MaxCalls /\ life \in 1..MaxLives
    /\ undone \in Nat
    /\ realms = undone + (IF at \in {"idle", "create", "result"} THEN 0 ELSE 1)

\* The log of intents, decisions and results against what ran: no effect is
\* performed but under the intent that names its plan and a decision that
\* allows its request, and none is recorded as completed that did not run.
FactsOf(op, kind) == {f \in Facts : f.op = op /\ f.obj[1] = kind}

A == INSTANCE AuditedEffects WITH
        Ids <- Digests, Effects <- Plans,
        authorized <- {f.obj[2].digest :
                          f \in {g \in FactsOf("decide", "decision") :
                                    g.obj[2].verdict = "allow"}} \X Plans,
        announced <- {<<f.obj[2], f.arg>> : f \in FactsOf("intent", "effect")},
        performed <- [n \in 1..Len(performed) |->
                        [id |-> performed[n].id, effect |-> performed[n].effect]],
        settled <- {f.obj[2] : f \in FactsOf("result", "effect")}

ImplementsAuditedEffects == A!Spec

\* This call ran its effect.
Ran == \E n \in 1..Len(performed) : performed[n].call = calls

\* "Every variant guarantees zero effects or an explicitly reconciled failure":
\* the failures before the effect leave it unperformed, and the others say
\* what the log holds of it.
AnswerTruthful ==
    at = "idle" /\ call # NoCall =>
        LET done == Ran /\ Stands(IntentFact("effect", Effect, call.now))
            recorded(result) == Stands(EnforcementFact(Effect, policy, result, call.now))
        IN  /\ answer \in {"EgressDenied", "Journal", "Policy", "Approval", "AuditBefore",
                           "Secret"} => ~Ran
            /\ answer = "Secret" => recorded("failed")
            /\ answer = "Sandbox" /\ Ran => done /\ recorded("failed")
            /\ answer = "JournalAfter" => done /\ recorded("succeeded")
            /\ answer = "Ok" =>
                /\ done /\ recorded("succeeded")
                /\ Stands(ResultFact("effect", Effect, "completed", call.now))

\* What ran was governed by what stood when it was called, not by what the log
\* remembers of earlier lives: the policy in force permits it, or its grant was
\* for this request and in time, and a once-grant ran one effect per life.
RanAsGoverned ==
    \A n \in 1..Len(performed) :
        LET run == performed[n] IN
        /\ run.policy[run.id] # "deny"
        /\ run.policy[run.id] = "require_approval" =>
            /\ run.grant # NoGrant
            /\ run.grant.digest = run.id /\ run.now < run.grant.expires
            /\ run.grant.once =>
                ~\E m \in 1..(n - 1) :
                    /\ performed[m].life = run.life
                    /\ performed[m].policy[performed[m].id] = "require_approval"
                    /\ performed[m].grant = run.grant
        /\ \E e \in Effects :
            /\ e.digest = run.id /\ e.plan = run.effect
            /\ run.refs = {e.leases[i].ref : i \in 1..Len(e.leases)}
            /\ \A i \in 1..Len(e.leases) :
                e.leases[i].digest = run.id /\ run.now < e.leases[i].expires
=============================================================================
