--------------------------- MODULE RunEngineProofs ---------------------------
(***************************************************************************)
(* For any runs, plans and bounds: the types of the run engine, that its   *)
(* memory is a projection of the log, that an effect happens once and      *)
(* after its approval, that a card is for the next step, and that a run    *)
(* succeeds with every step settled.                                       *)
(*                                                                         *)
(* The memory is compared with Past, what a restart would rebuild from the *)
(* log as it stands.  Past is never stored, but each event appended does   *)
(* to it what it does to the memory, so it is a state variable in all but  *)
(* name: the invariants relate it, the memory, the store's table and the   *)
(* place of the call under way.                                            *)
(***************************************************************************)
EXTENDS RunEngine, WellFoundedInduction, TLAPS

-----------------------------------------------------------------------------
(* Replaying a log event by event, and dropping a step from a plan.  Both  *)
(* are recursive functions over the positions of a sequence; what they     *)
(* compute is found by the least position at which it could be different.  *)

Ids(steps) == {steps[n].id : n \in 1..Len(steps)}

LEMMA LeastIn ==
    ASSUME NEW S, S \subseteq Nat, S # {}
    PROVE  \E n \in S : \A m \in S : n <= m
<1> DEFINE R == OpToRel(<, Nat)
<1>1. IsWellFoundedOn(R, Nat)
  BY NatLessThanWellFounded
<1>2. \A x, y \in Nat : x < y => <<x, y>> \in R
  BY DEF OpToRel
<1> HIDE DEF R
<1>3. \E x \in S : \A y \in S : ~ (<<y, x>> \in R)
  BY <1>1, WFMin
<1>4. PICK x \in S : \A y \in S : ~ (<<y, x>> \in R)
  BY <1>3
<1>5. \A y \in S : ~ (y < x)
  BY <1>2, <1>4, Zenon
<1>6. QED
  BY <1>4, <1>5

\* f[n] is the memory after the first n events of s.
Along(f, s, m) ==
    f = [n \in 0..m |-> IF n = 0 THEN EmptyIndex ELSE Apply(f[n - 1], s[n])]

LEMMA AlongUnique ==
    ASSUME NEW s, NEW m \in Nat, NEW k \in Nat, k <= m,
           NEW f, NEW g, Along(f, s, m), Along(g, s, k)
    PROVE  f[k] = g[k]
<1> DEFINE S == {n \in 0..k : f[n] # g[n]}
<1> SUFFICES ASSUME S # {} PROVE FALSE
  OBVIOUS
<1>1. S \subseteq Nat
  OBVIOUS
<1>2. PICK n \in S : \A j \in S : n <= j
  BY <1>1, LeastIn, Zenon
<1>3. /\ \A j \in 0..m : f[j] = IF j = 0 THEN EmptyIndex ELSE Apply(f[j - 1], s[j])
      /\ \A j \in 0..k : g[j] = IF j = 0 THEN EmptyIndex ELSE Apply(g[j - 1], s[j])
  BY DEF Along
<1>4. n # 0
  BY <1>3
<1>5. n - 1 \in 0..k /\ n - 1 \notin S
  BY <1>2, <1>4
<1>6. f[n] = g[n]
  BY <1>3, <1>4, <1>5
<1>7. QED
  BY <1>6

LEMMA AlongExists ==
    ASSUME NEW s, NEW m \in Nat
    PROVE  \E f : Along(f, s, m)
<1> DEFINE S == {n \in Nat : ~ \E f : Along(f, s, n)}
<1> SUFFICES ASSUME S # {} PROVE FALSE
  OBVIOUS
<1>1. PICK n \in S : \A j \in S : n <= j
  BY LeastIn
<1>2. CASE n = 0
  <2>1. Along([j \in 0..0 |-> EmptyIndex], s, 0)
    BY DEF Along
  <2>2. QED
    BY <1>2, <2>1
<1>3. CASE n # 0
  <2>1. n - 1 \in Nat /\ n - 1 \notin S
    BY <1>1, <1>3
  <2>2. PICK f : Along(f, s, n - 1)
    BY <2>1
  <2> DEFINE g == [j \in 0..n |-> IF j = n THEN Apply(f[n - 1], s[n]) ELSE f[j]]
  <2>3. Along(g, s, n)
    BY <1>3, <2>1, <2>2 DEF Along
  <2>4. QED
    BY <2>3
<1>4. QED
  BY <1>2, <1>3

LEMMA RebuildIs ==
    ASSUME NEW s, Len(s) \in Nat, NEW f, Along(f, s, Len(s))
    PROVE  Rebuild(s) = f[Len(s)]
<1> DEFINE h == CHOOSE g : Along(g, s, Len(s))
<1>1. Along(h, s, Len(s))
  OBVIOUS
<1>2. h[Len(s)] = f[Len(s)]
  BY <1>1, AlongUnique
<1>3. Rebuild(s) = h[Len(s)]
  BY DEF Rebuild, Along
<1>4. QED
  BY <1>2, <1>3

LEMMA AlongLonger ==
    ASSUME NEW m \in Nat, NEW s, NEW t, \A j \in 1..m : t[j] = s[j],
           NEW f, NEW g, Along(f, t, m + 1), Along(g, s, m)
    PROVE  f[m + 1] = Apply(g[m], t[m + 1])
<1>1. Along(g, t, m)
  BY DEF Along
<1>2. m + 1 \in Nat /\ m <= m + 1
  OBVIOUS
<1>3. f[m] = g[m]
  BY <1>1, <1>2, AlongUnique
<1>4. f[m + 1] = Apply(f[m], t[m + 1])
  BY <1>2 DEF Along
<1>5. QED
  BY <1>3, <1>4

LEMMA RebuildLonger ==
    ASSUME NEW s, NEW t, NEW m \in Nat, Len(s) = m, Len(t) = m + 1,
           \A j \in 1..m : t[j] = s[j]
    PROVE  Rebuild(t) = Apply(Rebuild(s), t[m + 1])
<1>1. m + 1 \in Nat
  OBVIOUS
<1>2. PICK f : Along(f, t, m + 1)
  BY <1>1, AlongExists
<1>3. PICK g : Along(g, s, m)
  BY AlongExists
<1>4. f[m + 1] = Apply(g[m], t[m + 1])
  BY <1>2, <1>3, AlongLonger
<1>5. Rebuild(t) = f[m + 1]
  BY <1>1, <1>2, RebuildIs
<1>6. Rebuild(s) = g[m]
  BY <1>3, RebuildIs
<1>7. QED
  BY <1>4, <1>5, <1>6

\* apply_event folds: one more event is one more application.
LEMMA RebuildAppend ==
    ASSUME NEW T, NEW s \in Seq(T), NEW e \in T
    PROVE  Rebuild(Append(s, e)) = Apply(Rebuild(s), e)
<1>1. /\ Len(s) \in Nat /\ Len(Append(s, e)) = Len(s) + 1
      /\ Append(s, e)[Len(s) + 1] = e
      /\ \A j \in 1..Len(s) : Append(s, e)[j] = s[j]
  OBVIOUS
<1>2. Rebuild(Append(s, e)) = Apply(Rebuild(s), Append(s, e)[Len(s) + 1])
  BY <1>1, RebuildLonger, Zenon
<1>3. QED
  BY <1>1, <1>2

LEMMA RebuildEmpty == Rebuild(<<>>) = EmptyIndex
<1>1. PICK f : Along(f, <<>>, 0)
  BY AlongExists
<1>2. f[0] = EmptyIndex
  BY <1>1 DEF Along
<1>3. QED
  BY <1>1, <1>2, RebuildIs

Keep(kept, step, s) == IF step.id = s THEN kept ELSE Append(kept, step)

\* f[n] is what is kept of the first n steps.
Keeping(f, steps, s, m) ==
    f = [n \in 0..m |-> IF n = 0 THEN <<>> ELSE Keep(f[n - 1], steps[n], s)]

LEMMA KeepingExists ==
    ASSUME NEW steps, NEW s, NEW m \in Nat
    PROVE  \E f : Keeping(f, steps, s, m)
<1> DEFINE S == {n \in Nat : ~ \E f : Keeping(f, steps, s, n)}
<1> SUFFICES ASSUME S # {} PROVE FALSE
  OBVIOUS
<1>1. PICK n \in S : \A j \in S : n <= j
  BY LeastIn
<1>2. CASE n = 0
  <2>1. Keeping([j \in 0..0 |-> <<>>], steps, s, 0)
    BY DEF Keeping
  <2>2. QED
    BY <1>2, <2>1
<1>3. CASE n # 0
  <2>1. n - 1 \in Nat /\ n - 1 \notin S
    BY <1>1, <1>3
  <2>2. PICK f : Keeping(f, steps, s, n - 1)
    BY <2>1
  <2> DEFINE g == [j \in 0..n |->
                      IF j = n THEN Keep(f[n - 1], steps[n], s) ELSE f[j]]
  <2>3. Keeping(g, steps, s, n)
    BY <1>3, <2>1, <2>2 DEF Keeping
  <2>4. QED
    BY <2>3
<1>4. QED
  BY <1>2, <1>3

\* The steps of a plan that are the first of their ids.
Firsts(steps) == {steps[n] : n \in {m \in 1..Len(steps) : First(steps, m)}}

Kept(q, steps, s, n, T) ==
    /\ q \in Seq(T)
    /\ {q[j].id : j \in 1..Len(q)} = {steps[j].id : j \in 1..n} \ {s}
    /\ \A j \in 1..n : First(steps, j) /\ steps[j].id # s => steps[j] \in Firsts(q)

LEMMA KeepingKeeps ==
    ASSUME NEW T, NEW steps \in Seq(T), NEW s, NEW f, Keeping(f, steps, s, Len(steps))
    PROVE  Kept(f[Len(steps)], steps, s, Len(steps), T)
<1> DEFINE m == Len(steps)
           S == {n \in 0..m : ~Kept(f[n], steps, s, n, T)}
<1>0. m \in Nat /\ \A n \in 1..m : steps[n] \in T
  OBVIOUS
<1> SUFFICES ASSUME S # {} PROVE FALSE
  BY <1>0
<1>1. S \subseteq Nat
  OBVIOUS
<1>2. PICK n \in S : \A j \in S : n <= j
  BY <1>1, LeastIn, Zenon
<1>3. \A j \in 0..m : f[j] = IF j = 0 THEN <<>> ELSE Keep(f[j - 1], steps[j], s)
  BY DEF Keeping
<1>4. n # 0
  <2>1. Kept(<<>>, steps, s, 0, T)
    BY DEF Kept
  <2>2. QED
    BY <1>0, <1>3, <2>1
<1>5. n - 1 \in 0..m /\ n \in 1..m /\ Kept(f[n - 1], steps, s, n - 1, T)
  BY <1>0, <1>2, <1>4
<1> DEFINE q == f[n - 1]
<1>6. /\ q \in Seq(T) /\ {q[j].id : j \in 1..Len(q)} = {steps[j].id : j \in 1..(n - 1)} \ {s}
      /\ \A j \in 1..(n - 1) : First(steps, j) /\ steps[j].id # s => steps[j] \in Firsts(q)
  BY <1>5 DEF Kept
<1>7. {steps[j].id : j \in 1..n} = {steps[j].id : j \in 1..(n - 1)} \cup {steps[n].id}
  BY <1>5
<1>8. CASE steps[n].id = s
  <2>1. f[n] = q
    BY <1>3, <1>4, <1>5, <1>8 DEF Keep
  <2>2. Kept(q, steps, s, n, T)
    <3>1. \A j \in 1..n : steps[j].id # s => j \in 1..(n - 1)
      BY <1>5, <1>8
    <3>2. QED
      BY <1>6, <1>7, <1>8, <3>1 DEF Kept
  <2>3. QED
    BY <2>1, <2>2
<1>9. CASE steps[n].id # s
  <2>1. f[n] = Append(q, steps[n])
    BY <1>3, <1>4, <1>5, <1>9 DEF Keep
  <2> HIDE DEF q
  <2> DEFINE t == Append(q, steps[n])
  <2>2. /\ t \in Seq(T) /\ Len(t) = Len(q) + 1 /\ t[Len(q) + 1] = steps[n]
        /\ \A j \in 1..Len(q) : t[j] = q[j]
        /\ Len(q) \in Nat
    BY <1>0, <1>5, <1>6
  <2> HIDE DEF t
  <2>3. {t[j].id : j \in 1..Len(t)} = {q[j].id : j \in 1..Len(q)} \cup {steps[n].id}
    BY <2>2
  <2>4. Firsts(q) \subseteq Firsts(t)
    <3>1. \A j \in 1..Len(q) : First(q, j) => j \in 1..Len(t) /\ First(t, j) /\ t[j] = q[j]
      BY <2>2 DEF First
    <3>2. QED
      BY <3>1 DEF Firsts
  <2>5. First(steps, n) => steps[n] \in Firsts(t)
    <3>1. ASSUME First(steps, n)
          PROVE  First(t, Len(q) + 1)
      <4>1. \A j \in 1..Len(q) : q[j].id \in {steps[k].id : k \in 1..(n - 1)}
        BY <1>6
      <4>2. \A j \in 1..Len(q) : q[j].id # steps[n].id
        BY <3>1, <4>1 DEF First
      <4>3. QED
        BY <2>2, <4>2 DEF First
    <3>2. Len(q) + 1 \in 1..Len(t)
      BY <2>2
    <3>3. QED
      BY <2>2, <3>1, <3>2 DEF Firsts
  <2>6. \A j \in 1..n : First(steps, j) /\ steps[j].id # s => steps[j] \in Firsts(t)
    <3>1. \A j \in 1..n : j \in 1..(n - 1) \/ j = n
      BY <1>5
    <3>2. QED
      BY <1>6, <2>4, <2>5, <3>1
  <2>7. Kept(t, steps, s, n, T)
    BY <1>6, <1>7, <1>9, <2>2, <2>3, <2>6 DEF Kept
  <2>8. QED
    BY <2>1, <2>7 DEF t
<1>10. QED
  BY <1>8, <1>9

\* remove_step: every step but those of the id stays.
LEMMA WithoutStepIds ==
    ASSUME NEW T, NEW steps \in Seq(T), NEW s
    PROVE  /\ WithoutStep(steps, s) \in Seq(T)
           /\ Ids(WithoutStep(steps, s)) = Ids(steps) \ {s}
           /\ \A x \in Firsts(steps) : x.id # s => x \in Firsts(WithoutStep(steps, s))
<1> DEFINE h == CHOOSE f : Keeping(f, steps, s, Len(steps))
<1>1. Len(steps) \in Nat
  OBVIOUS
<1>2. Keeping(h, steps, s, Len(steps))
  BY <1>1, KeepingExists
<1>3. WithoutStep(steps, s) = h[Len(steps)]
  BY DEF WithoutStep, Keeping, Keep
<1> HIDE DEF h
<1>4. Kept(h[Len(steps)], steps, s, Len(steps), T)
  BY <1>2, KeepingKeeps
<1>5. /\ WithoutStep(steps, s) \in Seq(T)
      /\ Ids(WithoutStep(steps, s)) = Ids(steps) \ {s}
  BY <1>3, <1>4 DEF Kept, Ids
<1>6. \A x \in Firsts(steps) : x.id # s => x \in Firsts(WithoutStep(steps, s))
  BY <1>3, <1>4 DEF Kept, Firsts
<1>7. QED
  BY <1>5, <1>6

-----------------------------------------------------------------------------
(* The inductive invariant.                                                *)

Past == Rebuild(log)

EventNames ==
    {"plan.frozen", "run.queued", "run.binding_recorded", "run.baseline_snapshot", "run.forked",
     "run.state_changed", "run.paused", "run.steered", "run.resume_revalidated",
     "run.cancel_propagated", "run.waiting_approval", "run.approved", "run.refused",
     "run.undecided", "run.effect_completed", "run.effect_denied", "run.effect_denied_by_policy",
     "effect.intent_recorded", "effect.result_recorded", "run.acceptance_passed",
     "run.acceptance_failed", "run.verdict_complete", "run.verdict_revise"}
Places ==
    {"idle", "create", "bind", "baseline", "lineage", "go", "pause", "steer", "revalidate",
     "propagate", "cancel", "approve", "deny", "mumble", "approved", "refused", "pending",
     "perform", "prohibit", "intent", "result", "completed", "block", "wait", "verify", "passes",
     "fails", "finish"}
Workspaces == {"", "ws"}

CardType == [id : Nat, step : StepIds \cup {NoStep}]
EventType ==
    [type : EventNames, run : Runs \cup {NoRun}, step : StepIds \cup {NoStep},
     to : States \cup {"-"}, card : CardType, plan : Seq(Plans), version : Nat]
RecordType ==
    [workspace : Workspaces, version : 0..MaxPlans, state : States \cup {"absent"},
     remaining : Seq(StepType), pending : CardType, resolved : SUBSET Nat]
IndexType == [hint : Workspaces, plans : Seq(Plans), runs : [Runs -> RecordType]]
JobType ==
    [at : Places, run : Runs \cup {NoRun}, card : CardType, version : 0..MaxPlans,
     parent : Runs \cup {NoRun}, check : Nat, passed : BOOLEAN, key : {"fresh", "new", "used"}]
EffectType == [run : Runs, step : StepIds, kind : Kinds, at : Nat]
CommandType == [run : Runs, check : Nat]

Typed ==
    /\ log \in Seq(EventType)
    /\ stored \in [Runs -> States \cup {"absent"}]
    /\ resumed \in [Runs -> {"no", "spent", "replayed"}]
    /\ up \in BOOLEAN
    /\ index \in IndexType /\ Past \in IndexType
    /\ Len(index.plans) <= MaxPlans /\ Len(Past.plans) <= MaxPlans
    /\ job \in JobType
    /\ performed \in Seq(EffectType) /\ verified \in Seq(CommandType)
    /\ cards \in Nat
    /\ calls \in 0..MaxCalls /\ faults \in 0..MaxFaults

\* What the memory and the log say of a run, workspace and (when a resumption
\* was answered again) state aside.
Same(r) ==
    /\ index.runs[r].version = Past.runs[r].version
    /\ index.runs[r].remaining = Past.runs[r].remaining
    /\ index.runs[r].resolved = Past.runs[r].resolved
    /\ index.runs[r].state = "absent" <=> Past.runs[r].state = "absent"

Faithful(r) ==
    /\ Same(r)
    /\ index.runs[r].state = Past.runs[r].state
    /\ index.runs[r].pending = Past.runs[r].pending

\* The memory took a run to be running that the store has blocked.
Diverged(r) ==
    /\ Same(r)
    /\ resumed[r] = "replayed"
    /\ index.runs[r].state # "blocked" /\ index.runs[r].pending = NoCard
    /\ stored[r] # "running"

Decisions == {"approve", "deny", "mumble"}
Starting == {"create", "bind"}
Running == {"perform", "intent", "result", "completed", "prohibit"}
Verifying == {"verify", "passes", "fails"}
Fresh == Starting \cup {"baseline", "lineage", "deny", "refused"}

Projection ==
    /\ Past.hint = ""
    /\ \A r \in Runs :
        /\ Past.runs[r].workspace = ""
        /\ Past.runs[r].state # "absent" => Past.runs[r].state = stored[r]
        /\ Past.runs[r].state = "absent" => Past.runs[r] = Unknown
    /\ up =>
        /\ index.plans = Past.plans
        /\ \A r \in Runs : Faithful(r) \/ Diverged(r)
        /\ \A r \in Runs : index.runs[r].state = "absent" => index.runs[r] = Unknown

\* Where the call stands.
Placed ==
    /\ job.at = "idle" => job = Idle
    /\ job.at # "idle" => up /\ job.run \in Runs
    /\ job.at \in Starting =>
        /\ job.version \in 1..Len(index.plans)
        /\ index.runs[job.run].state = "absent"
        /\ stored[job.run] = (IF job.at = "create" THEN "absent" ELSE "queued")
    /\ job.at \notin Starting \cup {"idle"} => Known(index, job.run)
    /\ job.at \in Decisions \cup {"baseline", "lineage", "go", "revalidate", "approved",
                                  "refused", "wait"} => Faithful(job.run)
    /\ job.at \in Running \cup {"block"} \cup Verifying => Rec.state = "running"
    /\ job.at \in Running \cup {"block"} => Rec.remaining # <<>>
    /\ job.at \in Fresh => job.key = "fresh"
    /\ job.at \in {"revalidate", "go"} => job.key = "fresh" \/ Rec.state = "blocked"

\* A step that needs approval is next.
Asking(steps, s) ==
    /\ steps # <<>>
    /\ Head(steps).id = s
    /\ Classify(Head(steps).kind) = "needs_approval"

\* A pending card is one of the n issued, for the next step of a run at rest.
CardsFit(rec, n) ==
    /\ rec.pending # NoCard => rec.pending.id \in 1..n /\ Asking(rec.remaining, rec.pending.step)
    /\ rec.state = "running" => rec.pending = NoCard
    /\ rec.resolved \subseteq 1..n

Carded ==
    /\ \A r \in Runs : CardsFit(Past.runs[r], cards)
    /\ expired \subseteq 1..cards
    /\ job.at = "wait" =>
        /\ Rec.state = "blocked"
        /\ job.card.id \in 1..cards /\ Asking(Rec.remaining, job.card.step)
    /\ job.at \in Decisions => job.card = Rec.pending /\ job.card # NoCard
    /\ job.at \in {"approved", "refused"} =>
        Rec.pending = NoCard /\ Asking(Rec.remaining, job.card.step)
    /\ job.at \in Running => Past.runs[job.run].pending = NoCard
    /\ job.at = "block" => Classify(Next1.kind) = "needs_approval"
    /\ job.at = "prohibit" => Classify(Next1.kind) = "denied"

\* The steps of a run that were performed, and whether its plan is past them.
Done(r) == {performed[i].step : i \in {n \in 1..Len(performed) : performed[n].run = r}}
Clean(r) == Done(r) \cap Ids(Past.runs[r].remaining) = {}

CleanPlaces ==
    {"approve", "deny"} \cup Starting \cup
    {"baseline", "lineage", "approved", "refused", "pending", "perform", "prohibit", "block",
     "wait", "verify", "passes", "fails", "finish"}

\* A step is behind its run once it was performed, or its run goes nowhere:
\* the effect or its record failed, and the run is neither blocked nor asked.
Behind(r) ==
    /\ Past.runs[r].state = "absent" => Done(r) = {}
    /\ \/ Clean(r)
       \/ /\ Past.runs[r].pending = NoCard
          /\ up /\ index.runs[r].workspace = "ws" => index.runs[r].state # "blocked"

PerformedOnce ==
    \A i, j \in 1..Len(performed) :
        performed[i].run = performed[j].run /\ performed[i].step = performed[j].step => i = j

Once ==
    /\ PerformedOnce
    /\ \A r \in Runs : Behind(r)
    /\ job.at \in CleanPlaces => Clean(job.run)
    /\ job.at \in {"go", "revalidate"} => Clean(job.run) \/ Rec.workspace # "ws"
    /\ job.at \in {"intent", "result", "completed"} =>
        /\ Next1.id \in Done(job.run)
        /\ Done(job.run) \cap Ids(Rec.remaining) \subseteq {Next1.id}

\* Of the first n events, the last decision on a card for the step approves it.
ApprovedBy(events, n, r, s) ==
    \E j \in 1..n :
        /\ events[j].type = "run.approved" /\ events[j].run = r /\ events[j].card.step = s
        /\ \A k \in 1..n :
            events[k].type = "run.refused" /\ events[k].run = r /\ events[k].card.step = s => k < j

\* Every effect was allowed, or approved before it was performed.
Granted ==
    \A i \in 1..Len(performed) :
        LET p == performed[i] IN
        /\ p.at <= Len(log)
        /\ Classify(p.kind) = "needs_approval" => ApprovedBy(log, p.at, p.run, p.step)
        /\ Classify(p.kind) # "denied"

\* A step that was denied was not performed, and is out of the plan.
Dropped ==
    \A r \in Runs, s \in StepIds :
        (\E k \in 1..Len(log) :
            log[k].type = "run.effect_denied" /\ log[k].run = r /\ log[k].step = s) =>
        Past.runs[r].state # "absent" /\ s \notin Done(r) \cup Ids(Past.runs[r].remaining)

Sanctioned ==
    /\ Granted
    /\ Dropped
    /\ job.at = "approved" => ApprovedBy(log, Len(log), job.run, job.card.step)
    /\ job.at = "perform" =>
        \/ Classify(Next1.kind) = "allowed"
        \/ /\ Classify(Next1.kind) = "needs_approval"
           /\ ApprovedBy(log, Len(log), job.run, Next1.id)

\* What is no longer in the plan of a run is settled.
Planned(r) ==
    LET p == Past.runs[r] IN
    p.state # "absent" =>
        /\ p.version \in 1..Len(Past.plans)
        /\ \A x \in Firsts(Past.plans[p.version].steps) :
            x \in Firsts(p.remaining) \/ Settled(r, x)

Ended(r) ==
    stored[r] = "succeeded" => Past.runs[r].state # "absent" /\ Past.runs[r].remaining = <<>>

Accounted ==
    /\ \A r \in Runs : Planned(r) /\ Ended(r)
    /\ job.at \in {"verify", "passes", "fails", "finish"} => Rec.remaining = <<>>
    /\ job.at \in {"intent", "result", "completed"} => Performed(job.run, Next1)
    /\ job.at = "result" => Logged(job.run, Next1.id, "effect.intent_recorded") # {}
    /\ job.at = "completed" =>
        \E i \in Logged(job.run, Next1.id, "effect.intent_recorded"),
           j \in Logged(job.run, Next1.id, "effect.result_recorded") : i < j

\* The checks whose commands the verifier ran.
ChecksOf(commands, r) ==
    {commands[i].check : i \in {n \in 1..Len(commands) : commands[n].run = r}}
Vetted(r) == ChecksOf(verified, r)

\* A run that was judged has nothing left of its plan, and is not resumed: the
\* checks of an acceptance are made once, one after the other.
Spent(r) ==
    Vetted(r) # {} =>
        /\ Past.runs[r].state # "absent" /\ Past.runs[r].remaining = <<>>
        /\ up /\ index.runs[r].workspace = "ws" => index.runs[r].state # "blocked"

Judged ==
    /\ \A i, j \in 1..Len(verified) : verified[i] = verified[j] => i = j
    /\ \A r \in Runs : Spent(r)
    /\ job.at = "verify" => \A n \in Vetted(job.run) : n < job.check
    /\ job.at \in {"passes", "fails"} => \A n \in Vetted(job.run) : n <= job.check
    /\ job.at \in {"baseline", "lineage", "pending"} => Vetted(job.run) = {}
    /\ job.at \in {"go", "revalidate"} => Vetted(job.run) = {} \/ Rec.workspace # "ws"

-----------------------------------------------------------------------------
(* What appending an event does to the memory and to Past.                 *)

Memory == Typed /\ Projection /\ Placed

\* Events about a run that is known already, and those no record shows.
Fixed == {"run.baseline_snapshot", "run.forked", "run.paused", "run.steered",
          "run.resume_revalidated", "run.cancel_propagated", "effect.intent_recorded",
          "effect.result_recorded", "run.acceptance_passed", "run.acceptance_failed",
          "run.verdict_complete", "run.verdict_revise"}
Dropping == {"run.effect_completed", "run.effect_denied", "run.effect_denied_by_policy"}
Resolving == {"run.approved", "run.refused", "run.undecided"}

LEMMA EventsTyped ==
    ASSUME NEW type \in EventNames, NEW r \in Runs
    PROVE  /\ Event(type, r) \in EventType
           /\ \A s \in StepIds \cup {NoStep} : StepEvent(type, r, s) \in EventType
           /\ \A c \in CardType : CardEvent(type, r, c) \in EventType
           /\ \A to \in States : StateEvent(r, to) \in EventType
           /\ \A v \in Nat : BindingEvent(r, v) \in EventType
           /\ \A v \in Nat : [Event(type, r) EXCEPT !.version = v] \in EventType
<1>1. NoCard \in CardType /\ <<>> \in Seq(Plans)
  BY DEF NoCard, CardType
<1>2. \A t \in EventNames : Event(t, r) \in EventType
  BY <1>1 DEF Event, EventType
<1>3. Event("run.state_changed", r) \in EventType /\ Event("run.binding_recorded", r) \in EventType
  BY <1>2 DEF EventNames
<1>4. \A q \in StepIds \cup {NoStep} : StepEvent(type, r, q) \in EventType
  BY <1>2 DEF EventType, StepEvent
<1>5. \A c \in CardType : CardEvent(type, r, c) \in EventType
  BY <1>2 DEF EventType, CardEvent
<1>6. \A to \in States : StateEvent(r, to) \in EventType
  BY <1>3 DEF EventType, StateEvent
<1>7. \A v \in Nat : BindingEvent(r, v) \in EventType
  BY <1>3 DEF EventType, BindingEvent
<1>8. \A v \in Nat : [Event(type, r) EXCEPT !.version = v] \in EventType
  BY <1>2 DEF EventType
<1>9. QED
  BY <1>2, <1>4, <1>5, <1>6, <1>7, <1>8

LEMMA RecordAfterTyped ==
    ASSUME NEW rec \in RecordType, NEW e \in EventType,
           e.type = "run.state_changed" => e.to \in States
    PROVE  RecordAfter(rec, e) \in RecordType
<1>1. /\ WithoutStep(rec.remaining, e.step) \in Seq(StepType)
      /\ rec.pending \in CardType /\ NoCard \in CardType /\ e.card \in CardType
      /\ rec.resolved \cup {e.card.id} \in SUBSET Nat
  BY WithoutStepIds DEF RecordType, EventType, CardType, NoCard
<1>2. CASE e.type = "run.state_changed"
  BY <1>1, <1>2 DEF RecordAfter, RecordType
<1>3. CASE e.type = "run.waiting_approval"
  BY <1>1, <1>3 DEF RecordAfter, RecordType
<1>4. CASE e.type \in Resolving
  BY <1>1, <1>4 DEF RecordAfter, RecordType, Resolving
<1>5. CASE e.type \in Dropping
  BY <1>1, <1>5 DEF RecordAfter, RecordType, Dropping
<1>6. CASE e.type \notin {"run.state_changed", "run.waiting_approval"} \cup Resolving \cup Dropping
  BY <1>6 DEF RecordAfter, Resolving, Dropping
<1>7. QED
  BY <1>2, <1>3, <1>4, <1>5, <1>6

\* One event about a known run changes that run's record and nothing else.
LEMMA ApplyToRun ==
    ASSUME NEW ix \in IndexType, NEW e \in EventType, e.run \in Runs, Known(ix, e.run),
           e.type \notin {"plan.frozen", "run.binding_recorded"},
           e.type = "run.state_changed" => e.to \in States
    PROVE  /\ Apply(ix, e) = [ix EXCEPT !.runs[e.run] = RecordAfter(ix.runs[e.run], e)]
           /\ Apply(ix, e) \in IndexType
<1>1. Apply(ix, e) = [ix EXCEPT !.runs[e.run] = RecordAfter(ix.runs[e.run], e)]
  BY DEF Apply
<1>2. ix.runs[e.run] \in RecordType
  BY DEF IndexType
<1>3. RecordAfter(ix.runs[e.run], e) \in RecordType
  BY <1>2, RecordAfterTyped
<1>4. QED
  BY <1>1, <1>3 DEF IndexType

\* append, of an event about the run of the call.
LEMMA WriteRun ==
    ASSUME Memory, job.at \notin Starting \cup {"idle"},
           NEW e \in EventType, e.run = job.run,
           e.type \notin {"plan.frozen", "run.binding_recorded"},
           e.type = "run.state_changed" => e.to \in States,
           log' = Append(log, e)
    PROVE  /\ job.run \in Runs
           /\ log' \in Seq(EventType) /\ Len(log) \in Nat /\ Len(log') = Len(log) + 1
           /\ log'[Len(log) + 1] = e /\ \A n \in 1..Len(log) : log'[n] = log[n]
           /\ Past' = [Past EXCEPT !.runs[job.run] = RecordAfter(Past.runs[job.run], e)]
           /\ Apply(index, e) = [index EXCEPT !.runs[job.run] = RecordAfter(index.runs[job.run], e)]
           /\ Past' \in IndexType /\ Apply(index, e) \in IndexType
<1>1. up /\ job.run \in Runs /\ Known(index, job.run)
  BY DEF Memory, Placed
<1>2. Known(Past, job.run)
  BY <1>1 DEF Memory, Projection, Known, Faithful, Diverged, Same
<1>3. log \in Seq(EventType) /\ index \in IndexType /\ Past \in IndexType
  BY DEF Memory, Typed
<1>4. Past' = Apply(Past, e)
  BY <1>3, RebuildAppend DEF Past
<1>5. /\ Apply(Past, e) = [Past EXCEPT !.runs[job.run] = RecordAfter(Past.runs[job.run], e)]
      /\ Apply(Past, e) \in IndexType
  BY <1>1, <1>2, <1>3, ApplyToRun
<1>6. /\ Apply(index, e) = [index EXCEPT !.runs[job.run] = RecordAfter(index.runs[job.run], e)]
      /\ Apply(index, e) \in IndexType
  BY <1>1, <1>3, ApplyToRun
<1>7. QED
  BY <1>1, <1>3, <1>4, <1>5, <1>6

\* Most events leave the records as they are.
LEMMA WriteFixed ==
    ASSUME Memory, job.at \notin Starting \cup {"idle"},
           NEW e \in EventType, e.run = job.run, e.type \in Fixed, Write(e)
    PROVE  /\ job.run \in Runs
           /\ log' \in Seq(EventType) /\ Len(log) \in Nat /\ Len(log') = Len(log) + 1
           /\ log'[Len(log) + 1] = e /\ \A n \in 1..Len(log) : log'[n] = log[n]
           /\ Past' = Past /\ index' = index
<1>1. e.type \notin {"plan.frozen", "run.binding_recorded", "run.state_changed"}
  BY DEF Fixed
<1>2. \A rec : RecordAfter(rec, e) = rec
  BY DEF RecordAfter, Fixed
<1>3. log' = Append(log, e) /\ index' = Apply(index, e)
  BY DEF Write
<1>4. index \in IndexType /\ Past \in IndexType
  BY DEF Memory, Typed
<1>5. /\ job.run \in Runs
      /\ log' \in Seq(EventType) /\ Len(log) \in Nat /\ Len(log') = Len(log) + 1
      /\ log'[Len(log) + 1] = e /\ \A n \in 1..Len(log) : log'[n] = log[n]
      /\ Past' = [Past EXCEPT !.runs[job.run] = RecordAfter(Past.runs[job.run], e)]
      /\ index' = [index EXCEPT !.runs[job.run] = RecordAfter(index.runs[job.run], e)]
  BY <1>1, <1>3, WriteRun
<1>6. \A ix \in IndexType : [ix EXCEPT !.runs[job.run] = ix.runs[job.run]] = ix
  BY <1>5 DEF IndexType
<1>7. QED
  BY <1>2, <1>4, <1>5, <1>6

\* transition, which moves the run in the log, the table and the memory.
LEMMA Moving ==
    ASSUME Memory, job.at \notin Starting \cup {"idle"}, NEW target \in States, Move(target)
    PROVE  /\ job.run \in Runs
           /\ log' = Append(log, StateEvent(job.run, target))
           /\ log' \in Seq(EventType) /\ Len(log) \in Nat /\ Len(log') = Len(log) + 1
           /\ log'[Len(log) + 1] = StateEvent(job.run, target)
           /\ \A n \in 1..Len(log) : log'[n] = log[n]
           /\ Past' = [Past EXCEPT !.runs[job.run] = Moved(Past.runs[job.run], target)]
           /\ index' = [index EXCEPT !.runs[job.run] = Moved(index.runs[job.run], target)]
           /\ Past' \in IndexType /\ index' \in IndexType
           /\ stored' = [stored EXCEPT ![job.run] = target]
           /\ ValidTransition(stored[job.run], target)
<1> DEFINE e == StateEvent(job.run, target)
<1>1. job.run \in Runs
  BY DEF Memory, Placed
<1>2. e \in EventType
  BY <1>1, EventsTyped DEF EventNames
<1>3. e.run = job.run /\ e.type = "run.state_changed" /\ e.to = target
  BY DEF StateEvent, Event
<1>4. \A rec : RecordAfter(rec, e) = Moved(rec, target)
  BY <1>3 DEF RecordAfter, Moved
<1>5. log' = Append(log, e)
  BY DEF Move
<1> HIDE DEF e
<1>6. /\ log' \in Seq(EventType) /\ Len(log) \in Nat /\ Len(log') = Len(log) + 1
      /\ log'[Len(log) + 1] = e /\ \A n \in 1..Len(log) : log'[n] = log[n]
      /\ Past' = [Past EXCEPT !.runs[job.run] = RecordAfter(Past.runs[job.run], e)]
      /\ Apply(index, e) = [index EXCEPT !.runs[job.run] = RecordAfter(index.runs[job.run], e)]
      /\ Past' \in IndexType /\ Apply(index, e) \in IndexType
  BY <1>2, <1>3, <1>5, WriteRun
<1>7. index' = [index EXCEPT !.runs[job.run] = Moved(index.runs[job.run], target)]
  BY DEF Move
<1>8. QED
  BY <1>1, <1>4, <1>5, <1>6, <1>7 DEF e, Move, CanMove

LEMMA JobTyped ==
    ASSUME Typed
    PROVE  /\ Idle \in JobType
           /\ \A place \in Places : [job EXCEPT !.at = place] \in JobType
<1>1. NoCard \in CardType
  BY DEF NoCard, CardType
<1>2. Idle \in JobType
  BY <1>1, EngineAssumption DEF Idle, JobType, Places
<1>3. QED
  BY <1>2 DEF Typed, JobType

\* What is written about a run keeps the memory and Past alike.
LEMMA WriteKeeps ==
    ASSUME Memory, job.at \notin Starting \cup {"idle"},
           NEW e \in EventType, e.run = job.run,
           e.type \notin {"plan.frozen", "run.binding_recorded", "run.state_changed"},
           Faithful(job.run) \/ e.type \in Dropping,
           Write(e), UNCHANGED <<stored, resumed, up>>
    PROVE  /\ Projection'
           /\ log' \in Seq(EventType) /\ index' \in IndexType /\ Past' \in IndexType
           /\ index'.plans = index.plans /\ Past'.plans = Past.plans
           /\ Faithful(job.run) => \A r \in Runs : r = job.run => Faithful(r)'
           /\ \A r \in Runs : index'.runs[r].state = index.runs[r].state
<1>1. /\ job.run \in Runs /\ log' \in Seq(EventType)
      /\ Past' = [Past EXCEPT !.runs[job.run] = RecordAfter(Past.runs[job.run], e)]
      /\ index' = [index EXCEPT !.runs[job.run] = RecordAfter(index.runs[job.run], e)]
      /\ Past' \in IndexType /\ index' \in IndexType
  BY WriteRun DEF Write
<1>2. index \in IndexType /\ Past \in IndexType
  BY DEF Memory, Typed
<1>3. up /\ Known(index, job.run)
  BY DEF Memory, Placed
<1> DEFINE a == index.runs[job.run]
           b == Past.runs[job.run]
<1>4. a \in RecordType /\ b \in RecordType
  BY <1>1, <1>2 DEF IndexType
<1>5. /\ index'.runs[job.run] = RecordAfter(a, e) /\ Past'.runs[job.run] = RecordAfter(b, e)
      /\ index'.hint = index.hint /\ index'.plans = index.plans
      /\ Past'.hint = Past.hint /\ Past'.plans = Past.plans
      /\ \A r \in Runs : r # job.run =>
            index'.runs[r] = index.runs[r] /\ Past'.runs[r] = Past.runs[r]
  BY <1>1, <1>2 DEF IndexType
<1>6. Faithful(job.run) \/ Diverged(job.run)
  BY <1>1, <1>3 DEF Memory, Projection
<1>7. /\ RecordAfter(a, e).state = a.state /\ RecordAfter(b, e).state = b.state
      /\ RecordAfter(a, e).workspace = a.workspace /\ RecordAfter(b, e).workspace = b.workspace
      /\ RecordAfter(a, e).version = a.version /\ RecordAfter(b, e).version = b.version
  BY <1>4 DEF RecordAfter, RecordType
<1>8. a.remaining = b.remaining /\ a.resolved = b.resolved /\ a.version = b.version
      /\ a.state # "absent" /\ b.state # "absent"
  BY <1>3, <1>6 DEF Faithful, Diverged, Same, Known
<1>9. /\ RecordAfter(a, e).remaining = RecordAfter(b, e).remaining
      /\ RecordAfter(a, e).resolved = RecordAfter(b, e).resolved
  BY <1>4, <1>8 DEF RecordAfter, RecordType
<1>10. a.pending = b.pending => RecordAfter(a, e).pending = RecordAfter(b, e).pending
  BY <1>4, <1>8 DEF RecordAfter, RecordType
<1>11. e.type \in Dropping => RecordAfter(a, e).pending = a.pending
  BY <1>4 DEF RecordAfter, RecordType, Dropping
<1> HIDE DEF a, b
<1>12. Faithful(job.run) => \A r \in Runs : r = job.run => Faithful(r)'
  BY <1>5, <1>7, <1>8, <1>9, <1>10 DEF Faithful, Same, a, b
<1>13. Diverged(job.run) /\ e.type \in Dropping => \A r \in Runs : r = job.run => Diverged(r)'
  BY <1>5, <1>7, <1>8, <1>9, <1>11 DEF Diverged, Same, a, b
<1>14. \A r \in Runs : r # job.run =>
          (Faithful(r) <=> Faithful(r)') /\ (Diverged(r) <=> Diverged(r)')
  BY <1>5 DEF Faithful, Diverged, Same
<1>15. \A r \in Runs : Faithful(r)' \/ Diverged(r)'
  BY <1>3, <1>6, <1>12, <1>13, <1>14 DEF Memory, Projection
<1>16. \A r \in Runs :
        /\ index'.runs[r].state = index.runs[r].state /\ Past'.runs[r].state = Past.runs[r].state
        /\ Past'.runs[r].workspace = Past.runs[r].workspace
        /\ index.runs[r].state = "absent" => index'.runs[r] = index.runs[r]
        /\ Past.runs[r].state = "absent" => Past'.runs[r] = Past.runs[r]
  BY <1>5, <1>7, <1>8 DEF a, b
<1>17. Projection'
  BY <1>3, <1>5, <1>15, <1>16 DEF Memory, Projection
<1>18. QED
  BY <1>1, <1>5, <1>12, <1>16, <1>17

-----------------------------------------------------------------------------
(* Memory is inductive.  First the steps that write an event no record     *)
(* shows.                                                                  *)

\* A step that leaves the memory and Past as they are, and the run of the call.
Steady ==
    UNCHANGED <<stored, resumed, up, index, Past, performed, verified, cards, calls, faults>>

LEMMA SteadyTyped ==
    ASSUME Typed, Steady, log' \in Seq(EventType), job' \in JobType
    PROVE  Typed'
BY DEF Typed, Steady

LEMMA SteadyProjected ==
    ASSUME Projection, Steady
    PROVE  /\ Projection'
           /\ \A r \in Runs : (Faithful(r)' <=> Faithful(r)) /\ Known(index, r)' = Known(index, r)
BY DEF Projection, Steady, Faithful, Diverged, Same, Known

LEMMA FixedEvent ==
    ASSUME Memory, job.at \notin Starting \cup {"idle"},
           NEW e \in EventType, e.run = job.run, e.type \in Fixed,
           Write(e), UNCHANGED <<stored, resumed>>, Quiet, job' \in JobType
    PROVE  Typed' /\ Projection' /\ Steady /\ job.run \in Runs /\ up
<1>1. job.run \in Runs /\ up
  BY DEF Memory, Placed
<1>2. log' \in Seq(EventType) /\ Past' = Past /\ index' = index
  BY WriteFixed
<1>3. Steady
  BY <1>2 DEF Steady, Quiet
<1>4. QED
  BY <1>1, <1>2, <1>3, SteadyTyped, SteadyProjected DEF Memory

LEMMA FixedWrite ==
    ASSUME Memory, job.at \notin Starting \cup {"idle"},
           NEW type \in Fixed, NEW s \in StepIds \cup {NoStep},
           Write(StepEvent(type, job.run, s)), UNCHANGED <<stored, resumed>>, Quiet,
           job' \in JobType
    PROVE  Typed' /\ Projection' /\ Steady /\ job.run \in Runs /\ up
<1> DEFINE e == StepEvent(type, job.run, s)
<1>1. job.run \in Runs /\ up
  BY DEF Memory, Placed
<1>2. e \in EventType /\ e.run = job.run /\ e.type \in Fixed
  BY <1>1, EventsTyped DEF Fixed, EventNames, StepEvent, Event
<1>3. Write(e)
  OBVIOUS
<1> HIDE DEF e
<1>4. QED
  BY <1>2, <1>3, FixedEvent

\* What an outcome is, and where the call goes from it.
LEMMA OutcomeTyped ==
    ASSUME Memory, job.at \in {"passes", "fails"}, NEW n \in Nat
    PROVE  /\ Outcome(n) \in EventType /\ Outcome(n).run = job.run
           /\ Outcome(n).type \in {"run.acceptance_passed", "run.acceptance_failed"}
<1>1. job.run \in Runs
  BY DEF Memory, Placed
<1>2. PICK type \in {"run.acceptance_passed", "run.acceptance_failed"} :
        Outcome(n) = [Event(type, job.run) EXCEPT !.version = n]
  BY DEF Outcome
<1>3. Outcome(n) \in EventType
  <2>1. type \in EventNames
    BY DEF EventNames
  <2>2. QED
    BY <1>1, <1>2, <2>1, EventsTyped
<1>4. Outcome(n).run = job.run /\ Outcome(n).type = type
  BY <1>2 DEF Event
<1>5. QED
  BY <1>3, <1>4

LEMMA NextCheckTyped ==
    ASSUME Memory, NextCheck
    PROVE  /\ job' \in JobType /\ job'.at = "verify" /\ job'.run = job.run /\ job'.key = job.key
           /\ job'.check = job.check + 1 /\ job.check \in Nat
<1>1. job \in JobType /\ "verify" \in Places
  BY DEF Memory, Typed, Places
<1>2. PICK ok \in BOOLEAN : ok = (job.passed /\ job.at = "passes")
  OBVIOUS
<1>3. job' = [job EXCEPT !.at = "verify", !.check = job.check + 1, !.passed = ok]
  BY <1>2, Zenon DEF NextCheck
<1>4. PICK n \in Nat : n = job.check + 1
  BY <1>1 DEF JobType
<1>5. job' = [job EXCEPT !.at = "verify", !.check = n, !.passed = ok]
  BY <1>3, <1>4
<1>6. job' \in JobType
  BY <1>1, <1>2, <1>5, Zenon DEF JobType
<1>7. job'.at = "verify" /\ job'.run = job.run /\ job'.key = job.key /\ job'.check = n
  BY <1>1, <1>5 DEF JobType
<1>8. QED
  BY <1>1, <1>4, <1>6, <1>7 DEF JobType

LEMMA PlainEvent ==
    ASSUME NEW type, NEW r
    PROVE  Event(type, r) = StepEvent(type, r, NoStep)
BY DEF Event, StepEvent

LEMMA FixedSteps ==
    ASSUME Memory,
           Baseline \/ Lineage \/ Pause \/ Steer \/ Revalidate \/ Propagate \/ Intent
              \/ Result \/ Checked \/ Verdict
    PROVE  Memory' /\ Steady /\ job.run \in Runs
<1>1. job \in JobType /\ Idle \in JobType /\ \A p \in Places : [job EXCEPT !.at = p] \in JobType
  BY JobTyped DEF Memory, Typed
<1>2. job.at \notin Starting \cup {"idle"}
  BY DEF Baseline, Lineage, Pause, Steer, Note, Revalidate, Propagate, Intent, Result, Checked, Verdict,
         At, Starting
<1>3. job.at \in Running => Next1.id \in StepIds
  <2>1. SUFFICES ASSUME job.at \in Running PROVE Next1.id \in StepIds
    OBVIOUS
  <2>2. job.run \in Runs /\ Rec.remaining # <<>> /\ index \in IndexType
    BY <1>2, <2>1 DEF Memory, Typed, Placed, Running
  <2>3. Rec.remaining \in Seq(StepType)
    BY <2>2 DEF Rec, IndexType, RecordType
  <2>4. Head(Rec.remaining) \in StepType
    BY <2>2, <2>3
  <2>5. QED
    BY <2>4 DEF Next1, StepType
<1>4. Typed' /\ Projection' /\ Steady /\ job.run \in Runs /\ up
  <2>1. CASE Baseline
    <3>1. job' \in JobType
      BY <1>1, <2>1 DEF Baseline, Go, Places
    <3>2. QED
      BY <1>2, <2>1, <3>1, PlainEvent, FixedWrite, Zenon DEF Baseline, Fixed
  <2>2. CASE Lineage
    <3>1. job' \in JobType
      BY <1>1, <2>2 DEF Lineage, Go, Places
    <3>2. QED
      BY <1>2, <2>2, <3>1, PlainEvent, FixedWrite, Zenon DEF Lineage, Fixed
  <2>3. CASE Pause
    <3>1. job' \in JobType
      BY <1>1, <2>3 DEF Pause, Note, Return
    <3>2. QED
      BY <1>2, <2>3, <3>1, PlainEvent, FixedWrite, Zenon DEF Pause, Note, Fixed
  <2>4. CASE Steer
    <3>1. job' \in JobType
      BY <1>1, <2>4 DEF Steer, Note, Return
    <3>2. QED
      BY <1>2, <2>4, <3>1, PlainEvent, FixedWrite, Zenon DEF Steer, Note, Fixed
  <2>5. CASE Revalidate
    <3>1. job' \in JobType
      BY <1>1, <2>5 DEF Revalidate, Go, Places
    <3>2. QED
      BY <1>2, <2>5, <3>1, PlainEvent, FixedWrite, Zenon DEF Revalidate, Fixed
  <2>6. CASE Propagate
    <3>1. job' \in JobType
      BY <1>1, <2>6 DEF Propagate, Go, Places
    <3>2. QED
      BY <1>2, <2>6, <3>1, PlainEvent, FixedWrite, Zenon DEF Propagate, Fixed
  <2>7. CASE Intent
    <3>1. job' \in JobType
      BY <1>1, <2>7 DEF Intent, Go, Places
    <3>2. Next1.id \in StepIds \cup {NoStep}
      BY <1>3, <2>7 DEF Intent, At, Running
    <3>3. QED
      BY <1>2, <2>7, <3>1, <3>2, FixedWrite, Zenon DEF Intent, Fixed
  <2>8. CASE Result
    <3>1. job' \in JobType
      BY <1>1, <2>8 DEF Result, Go, Places
    <3>2. Next1.id \in StepIds \cup {NoStep}
      BY <1>3, <2>8 DEF Result, At, Running
    <3>3. QED
      BY <1>2, <2>8, <3>1, <3>2, FixedWrite, Zenon DEF Result, Fixed
  <2>9. CASE Verdict
    <3>1. job' \in JobType
      BY <1>1, <2>9 DEF Verdict, Go, Places
    <3>2. PICK type \in Fixed : Write(Event(type, job.run))
      BY <2>9 DEF Verdict, Fixed
    <3>3. QED
      BY <1>2, <2>9, <3>1, <3>2, PlainEvent, FixedWrite, Zenon DEF Verdict
  <2>10. CASE Checked
    <3>1. job.check \in Nat
      BY <1>1 DEF JobType
    <3>2. /\ Outcome(job.check) \in EventType /\ Outcome(job.check).run = job.run
          /\ Outcome(job.check).type \in Fixed
      BY <2>10, <3>1, OutcomeTyped DEF Checked, Fixed
    <3>3. QED
      BY <1>2, <2>10, <3>2, NextCheckTyped, FixedEvent, Zenon DEF Checked
  <2>11. QED
    BY <2>1, <2>2, <2>3, <2>4, <2>5, <2>6, <2>7, <2>8, <2>9, <2>10
<1>5. /\ \A r \in Runs : (Faithful(r)' <=> Faithful(r)) /\ Known(index, r)' = Known(index, r)
      /\ up' /\ Placed /\ index' = index
  BY <1>4, SteadyProjected DEF Memory, Steady
<1>6. \/ job' = Idle
      \/ /\ job'.run = job.run /\ job'.key = job.key
         /\ \/ job.at \in {"baseline", "lineage"} /\ job'.at \in {"lineage", "go"}
            \/ job.at = "revalidate" /\ job'.at = "go"
            \/ job.at = "propagate" /\ job'.at = "cancel"
            \/ job.at \in {"intent", "result"} /\ job'.at \in {"result", "completed"}
            \/ job.at \in {"passes", "fails"} /\ job'.at = "verify"
            \/ job.at = "verify" /\ job'.at = "finish"
  <2>1. CASE Checked
    BY <2>1, NextCheckTyped DEF Checked
  <2>2. CASE ~Checked
    BY <1>1, <2>2 DEF JobType, Baseline, Lineage, Pause, Steer, Note, Revalidate, Propagate, Intent,
                      Result, Verdict, At, Go, Return
  <2>3. QED
    BY <2>1, <2>2
<1>7. Placed'
  <2>1. job' = Idle => Placed'
    BY <1>4 DEF Placed, Idle, Starting, Decisions, Running, Verifying, Fresh
  <2>2. job' # Idle => Placed'
    BY <1>4, <1>5, <1>6 DEF Placed, Starting, Decisions, Running, Verifying, Fresh, Rec, Known
  <2>3. QED
    BY <2>1, <2>2
<1>8. QED
  BY <1>4, <1>7 DEF Memory

\* Then those that write one that a record shows.
LEMMA RecordWrite ==
    ASSUME Memory, job.at \notin Starting \cup {"idle"},
           NEW e \in EventType, e.run = job.run,
           e.type \notin {"plan.frozen", "run.binding_recorded", "run.state_changed"},
           Faithful(job.run) \/ e.type \in Dropping,
           Write(e), UNCHANGED <<stored, resumed>>, Quiet, job' \in JobType
    PROVE  /\ Typed' /\ Projection'
           /\ up /\ up' /\ job.run \in Runs /\ \A r \in Runs : r = job.run => Known(index, r)'
           /\ Faithful(job.run) => \A r \in Runs : r = job.run => Faithful(r)'
<1>1. up /\ job.run \in Runs /\ Known(index, job.run)
  BY DEF Memory, Placed
<1>2. UNCHANGED <<stored, resumed, up>>
  BY DEF Quiet
<1>3. /\ Projection'
      /\ log' \in Seq(EventType) /\ index' \in IndexType /\ Past' \in IndexType
      /\ index'.plans = index.plans /\ Past'.plans = Past.plans
      /\ Faithful(job.run) => \A r \in Runs : r = job.run => Faithful(r)'
      /\ \A r \in Runs : index'.runs[r].state = index.runs[r].state
  BY <1>2, WriteKeeps
<1>4. Typed'
  BY <1>3 DEF Memory, Typed, Quiet
<1>5. \A r \in Runs : r = job.run => Known(index, r)'
  BY <1>1, <1>3 DEF Known
<1>6. QED
  BY <1>1, <1>2, <1>3, <1>4, <1>5

\* A typed next step, where there is one.
LEMMA NextTyped ==
    ASSUME Memory, job.at \in Running \cup {"block"}
    PROVE  Next1 \in StepType /\ Rec.remaining \in Seq(StepType) /\ Rec.remaining # <<>>
<1>1. job.run \in Runs /\ Rec.remaining # <<>> /\ index \in IndexType
  BY DEF Memory, Typed, Placed, Running
<1>2. Rec.remaining \in Seq(StepType)
  BY <1>1 DEF Rec, IndexType, RecordType
<1>3. Head(Rec.remaining) \in StepType
  BY <1>1, <1>2
<1>4. QED
  BY <1>1, <1>2, <1>3 DEF Next1

LEMMA RecordSteps ==
    ASSUME Memory,
           Approve \/ Refuse \/ Mumble \/ Refused \/ Prohibit \/ Completed \/ Wait
    PROVE  Memory'
<1>1. job \in JobType /\ Idle \in JobType /\ \A p \in Places : [job EXCEPT !.at = p] \in JobType
  BY JobTyped DEF Memory, Typed
<1>2. job.at \notin Starting \cup {"idle"}
  BY DEF Approve, Refuse, Mumble, Resolve, Refused, Prohibit, Completed, Wait, At, Starting
<1>3. /\ job.run \in Runs /\ Placed
      /\ job.card \in CardType /\ job.card.step \in StepIds \cup {NoStep}
  BY <1>1, <1>2 DEF Memory, Placed, JobType, CardType
<1>4. job' \in JobType
  <2>1. CASE Approve \/ Refuse
    BY <1>1, <2>1 DEF Approve, Refuse, Resolve, Go, Places
  <2>2. CASE Mumble \/ Wait
    BY <1>1, <2>2 DEF Mumble, Wait, Return
  <2>3. CASE Refused \/ Prohibit \/ Completed
    BY <1>1, <2>3 DEF Refused, Prohibit, Completed, Go, Places
  <2>4. QED
    BY <2>1, <2>2, <2>3
<1>5. PICK e \in EventType :
        /\ e.run = job.run
        /\ e.type \in Resolving \cup Dropping \cup {"run.waiting_approval"}
        /\ Faithful(job.run) \/ e.type \in Dropping
        /\ Write(e)
  <2>1. CASE Approve \/ Refuse \/ Mumble \/ Wait
    <3>1. PICK type \in Resolving \cup {"run.waiting_approval"} :
            Write(CardEvent(type, job.run, job.card))
      BY <2>1 DEF Approve, Refuse, Mumble, Resolve, Wait, Resolving
    <3>2. type \in EventNames
      BY DEF Resolving, EventNames
    <3>3. Faithful(job.run)
      BY <1>3, <2>1 DEF Placed, Approve, Refuse, Mumble, Resolve, Wait, At, Decisions
    <3>4. CardEvent(type, job.run, job.card) \in EventType
      BY <1>3, <3>2, EventsTyped
    <3>5. CardEvent(type, job.run, job.card).run = job.run
          /\ CardEvent(type, job.run, job.card).type = type
      BY DEF CardEvent, Event
    <3>6. QED
      BY <3>1, <3>3, <3>4, <3>5
  <2>2. CASE Refused \/ Prohibit \/ Completed
    <3>1. job.at \in Running => Next1.id \in StepIds
      BY NextTyped DEF StepType
    <3>2. PICK type \in Dropping, s \in StepIds \cup {NoStep} :
            Write(StepEvent(type, job.run, s))
      <4>1. CASE Refused
        BY <1>3, <4>1 DEF Refused, Dropping
      <4>2. CASE Prohibit \/ Completed
        BY <3>1, <4>2 DEF Prohibit, Completed, Dropping, At, Running
      <4>3. QED
        BY <2>2, <4>1, <4>2
    <3>3. type \in EventNames
      BY DEF Dropping, EventNames
    <3>4. StepEvent(type, job.run, s) \in EventType
      BY <1>3, <3>3, EventsTyped
    <3>5. StepEvent(type, job.run, s).run = job.run /\ StepEvent(type, job.run, s).type = type
      BY DEF StepEvent, Event
    <3>6. QED
      BY <3>2, <3>4, <3>5
  <2>3. QED
    BY <2>1, <2>2
<1>6. e.type \notin {"plan.frozen", "run.binding_recorded", "run.state_changed"}
  BY <1>5 DEF Resolving, Dropping
<1>7. UNCHANGED <<stored, resumed>> /\ Quiet
  BY DEF Approve, Refuse, Mumble, Resolve, Refused, Prohibit, Completed, Wait
<1>8. /\ Typed' /\ Projection'
      /\ up /\ up' /\ \A r \in Runs : r = job.run => Known(index, r)'
      /\ Faithful(job.run) => \A r \in Runs : r = job.run => Faithful(r)'
  BY <1>2, <1>4, <1>5, <1>6, <1>7, RecordWrite
<1>9. \/ job' = Idle
      \/ /\ job'.run = job.run
         /\ \/ job.at = "approve" /\ job'.at = "approved"
            \/ job.at = "deny" /\ job'.at = "refused" /\ job'.key = job.key
            \/ job.at = "refused" /\ job'.at \in {"go", "pending"} /\ job'.key = job.key
            \/ job.at \in Running /\ job'.at = "pending"
  BY <1>1 DEF JobType, Approve, Refuse, Mumble, Resolve, Refused, Prohibit, Completed, Wait,
              At, Go, Return, Decisions, Running
<1>10. Placed'
  <2>1. job' = Idle => Placed'
    BY <1>8 DEF Placed, Idle, Starting, Decisions, Running, Verifying, Fresh
  <2>2. job' # Idle => Placed'
    BY <1>3, <1>8, <1>9 DEF Placed, Starting, Decisions, Running, Verifying, Fresh, Rec
  <2>3. QED
    BY <2>1, <2>2
<1>11. QED
  BY <1>8, <1>10 DEF Memory

\* Then the transitions.
LEMMA MoveKeeps ==
    ASSUME Memory, job.at \notin Starting \cup {"idle"},
           NEW target \in States, Move(target), up' = up,
           \A r \in Runs : resumed'[r] = resumed[r] \/ (r = job.run /\ Faithful(r))
    PROVE  /\ Projection'
           /\ up /\ job.run \in Runs
           /\ log' \in Seq(EventType) /\ index' \in IndexType /\ Past' \in IndexType
           /\ stored' \in [Runs -> States \cup {"absent"}]
           /\ index'.plans = index.plans /\ Past'.plans = Past.plans
           /\ Faithful(job.run) => \A r \in Runs : r = job.run => Faithful(r)'
           /\ \A r \in Runs : r = job.run => Known(index, r)' /\ index'.runs[r].state = target
           /\ \A r \in Runs : index'.runs[r].remaining = index.runs[r].remaining
<1>1. /\ job.run \in Runs /\ log' \in Seq(EventType)
      /\ Past' = [Past EXCEPT !.runs[job.run] = Moved(Past.runs[job.run], target)]
      /\ index' = [index EXCEPT !.runs[job.run] = Moved(index.runs[job.run], target)]
      /\ Past' \in IndexType /\ index' \in IndexType
      /\ stored' = [stored EXCEPT ![job.run] = target]
      /\ ValidTransition(stored[job.run], target)
  BY Moving
<1>2. index \in IndexType /\ Past \in IndexType /\ stored \in [Runs -> States \cup {"absent"}]
  BY DEF Memory, Typed
<1>3. up /\ Known(index, job.run) /\ target # "absent"
  BY DEF Memory, Placed, States, Terminal
<1> DEFINE a == index.runs[job.run]
           b == Past.runs[job.run]
<1>4. a \in RecordType /\ b \in RecordType
  BY <1>1, <1>2 DEF IndexType
<1>5. /\ index'.runs[job.run] = Moved(a, target) /\ Past'.runs[job.run] = Moved(b, target)
      /\ index'.hint = index.hint /\ index'.plans = index.plans
      /\ Past'.hint = Past.hint /\ Past'.plans = Past.plans
      /\ stored'[job.run] = target
      /\ \A r \in Runs : r # job.run =>
            /\ index'.runs[r] = index.runs[r] /\ Past'.runs[r] = Past.runs[r]
            /\ stored'[r] = stored[r] /\ resumed'[r] = resumed[r]
  BY <1>1, <1>2 DEF IndexType
<1>6. Faithful(job.run) \/ Diverged(job.run)
  BY <1>1, <1>3 DEF Memory, Projection
<1>7. \A rec \in RecordType :
        /\ Moved(rec, target).state = target
        /\ Moved(rec, target).workspace = rec.workspace
        /\ Moved(rec, target).version = rec.version
        /\ Moved(rec, target).remaining = rec.remaining
        /\ Moved(rec, target).resolved = rec.resolved
        /\ Moved(rec, target).pending = IF target = "running" THEN NoCard ELSE rec.pending
  BY DEF Moved, RecordType
<1>8. b.state # "absent" /\ b.workspace = ""
  BY <1>1, <1>3, <1>6 DEF Faithful, Diverged, Same, Known, Memory, Projection
<1> HIDE DEF a, b
<1>9. Same(job.run) => \A r \in Runs : r = job.run => Same(r)'
  BY <1>3, <1>4, <1>5, <1>7 DEF Same, a, b
<1>10. Faithful(job.run) \/ target = "running" => \A r \in Runs : r = job.run => Faithful(r)'
  BY <1>4, <1>5, <1>6, <1>7, <1>9 DEF Faithful, Diverged, a, b
<1>11. ~Faithful(job.run) /\ target # "running" => \A r \in Runs : r = job.run => Diverged(r)'
  <2>1. SUFFICES ASSUME ~Faithful(job.run), target # "running"
                 PROVE  \A r \in Runs : r = job.run => Diverged(r)'
    OBVIOUS
  <2>2. Diverged(job.run) /\ target # "blocked" /\ resumed'[job.run] = resumed[job.run]
    BY <1>1, <1>6, <2>1 DEF Diverged, ValidTransition
  <2>3. QED
    BY <1>4, <1>5, <1>7, <1>9, <2>1, <2>2 DEF Diverged, a, b
<1>12. \A r \in Runs : r # job.run =>
          (Faithful(r) <=> Faithful(r)') /\ (Diverged(r) <=> Diverged(r)')
  BY <1>5 DEF Faithful, Diverged, Same
<1>13. \A r \in Runs : Faithful(r)' \/ Diverged(r)'
  BY <1>3, <1>10, <1>11, <1>12 DEF Memory, Projection
<1>14. /\ \A r \in Runs : index'.runs[r].remaining = index.runs[r].remaining
       /\ \A r \in Runs : r = job.run => Known(index, r)' /\ index'.runs[r].state = target
  BY <1>3, <1>4, <1>5, <1>7 DEF Known, a, b
<1>15. \A r \in Runs :
        /\ Past'.runs[r].workspace = ""
        /\ Past'.runs[r].state # "absent" => Past'.runs[r].state = stored'[r]
        /\ Past'.runs[r].state = "absent" => Past'.runs[r] = Unknown
        /\ index'.runs[r].state = "absent" => index'.runs[r] = Unknown
  <2> TAKE r \in Runs
  <2>1. CASE r = job.run
    BY <1>3, <1>4, <1>5, <1>7, <1>8, <2>1 DEF a, b
  <2>2. CASE r # job.run
    BY <1>3, <1>5, <2>2 DEF Memory, Projection
  <2>3. QED
    BY <2>1, <2>2
<1>16. Projection'
  BY <1>5, <1>13, <1>15 DEF Memory, Projection
<1>17. stored' \in [Runs -> States \cup {"absent"}]
  BY <1>1, <1>2
<1>18. QED
  BY <1>1, <1>3, <1>5, <1>10, <1>14, <1>16, <1>17

LEMMA MoveSteps ==
    ASSUME Memory, GoOn \/ Cancel \/ Approved \/ Block \/ Finish
    PROVE  Memory'
<1>1. job \in JobType /\ Idle \in JobType /\ \A p \in Places : [job EXCEPT !.at = p] \in JobType
  BY JobTyped DEF Memory, Typed
<1>2. job.at \notin Starting \cup {"idle"}
  BY DEF GoOn, Cancel, Approved, Block, Finish, At, Starting
<1>3. PICK target \in States : Move(target) /\ (GoOn \/ Approved => target = "running")
  <2>1. CASE GoOn \/ Approved
    BY <2>1 DEF GoOn, Approved, States
  <2>2. CASE Cancel \/ Block
    BY <2>2 DEF Cancel, Block, States, Terminal, GoOn, Approved, At
  <2>3. CASE Finish
    BY <2>3 DEF Finish, States, Terminal, GoOn, Approved, At
  <2>4. QED
    BY <2>1, <2>2, <2>3
<1>4. resumed \in [Runs -> {"no", "spent", "replayed"}] /\ job.run \in Runs /\ Placed
  BY <1>2 DEF Memory, Typed, Placed
<1>5. /\ GoOn \/ Block => Faithful(job.run)
      /\ Approved => Faithful(job.run) /\ Rec.remaining # <<>>
  <2>1. GoOn \/ Approved => Faithful(job.run)
    BY <1>4 DEF Placed, GoOn, Approved, At
  <2>2. Approved => Rec.remaining # <<>>
    BY DEF Approved, IsApprovedStep
  <2>3. Block => Faithful(job.run)
    BY <1>4 DEF Memory, Projection, Diverged, Block, At, Move, CanMove, ValidTransition
  <2>4. QED
    BY <2>1, <2>2, <2>3
<1>6. /\ resumed' \in [Runs -> {"no", "spent", "replayed"}]
      /\ \A r \in Runs : resumed'[r] = resumed[r] \/ (r = job.run /\ Faithful(r))
  <2>1. CASE GoOn
    BY <1>4, <1>5, <2>1 DEF GoOn
  <2>2. CASE ~GoOn
    BY <1>4, <2>2 DEF Cancel, Approved, Block, Finish
  <2>3. QED
    BY <2>1, <2>2
<1>7. up' = up
  BY DEF GoOn, Cancel, Approved, Block, Finish, Quiet
<1>8. /\ Projection'
      /\ up /\ job.run \in Runs
      /\ log' \in Seq(EventType) /\ index' \in IndexType /\ Past' \in IndexType
      /\ stored' \in [Runs -> States \cup {"absent"}]
      /\ index'.plans = index.plans /\ Past'.plans = Past.plans
      /\ Faithful(job.run) => \A r \in Runs : r = job.run => Faithful(r)'
      /\ \A r \in Runs : r = job.run => Known(index, r)' /\ index'.runs[r].state = target
      /\ \A r \in Runs : index'.runs[r].remaining = index.runs[r].remaining
  BY <1>2, <1>3, <1>6, <1>7, MoveKeeps
<1>9. job' \in JobType
  <2>1. CASE GoOn \/ Approved
    BY <1>1, <2>1 DEF GoOn, Approved, Go, Places
  <2>2. CASE Cancel \/ Finish
    BY <1>1, <2>2 DEF Cancel, Finish, Return
  <2>3. CASE Block
    <3>1. Next1 \in StepType /\ cards \in Nat
      BY <2>3, NextTyped DEF Block, At, Memory, Typed
    <3>2. [id |-> cards + 1, step |-> Next1.id] \in CardType
      BY <3>1 DEF CardType, StepType
    <3>3. "wait" \in Places /\ job \in JobType
      BY <1>1 DEF Places
    <3>4. QED
      BY <2>3, <3>2, <3>3 DEF Block, JobType
  <2>4. QED
    BY <2>1, <2>2, <2>3
<1>10. performed' = performed /\ verified' = verified /\ cards' \in Nat /\ calls' = calls /\ faults' = faults
  <2>1. cards \in Nat
    BY DEF Memory, Typed
  <2>2. CASE Block
    BY <2>1, <2>2 DEF Block
  <2>3. CASE ~Block
    BY <2>1, <2>3 DEF GoOn, Cancel, Approved, Finish, Quiet
  <2>4. QED
    BY <2>2, <2>3
<1>11. Typed'
  BY <1>6, <1>7, <1>8, <1>9, <1>10 DEF Memory, Typed
<1>12. \/ job' = Idle
       \/ /\ job'.run = job.run
          /\ \/ GoOn /\ job'.at = "pending"
             \/ Approved /\ job'.at = "perform"
             \/ Block /\ job'.at = "wait"
  BY <1>1 DEF JobType, GoOn, Cancel, Approved, Block, Finish, Go, Return
<1>13. Placed'
  <2>1. job' = Idle => Placed'
    BY <1>8 DEF Placed, Idle, Starting, Decisions, Running, Verifying, Fresh
  <2>2. job' # Idle => Placed'
    BY <1>3, <1>5, <1>7, <1>8, <1>12 DEF Placed, Starting, Decisions, Running, Verifying, Fresh, Rec
  <2>3. QED
    BY <2>1, <2>2
<1>14. QED
  BY <1>8, <1>11, <1>13 DEF Memory

\* Then the steps that write nothing.
LEMMA Unwritten ==
    ASSUME Projection, UNCHANGED <<durable, index, up>>
    PROVE  /\ Projection' /\ Past' = Past
           /\ \A r \in Runs : (Faithful(r)' <=> Faithful(r)) /\ Known(index, r)' = Known(index, r)
<1>1. UNCHANGED <<log, stored, resumed>>
  BY DEF durable
<1>2. Past' = Past
  BY <1>1 DEF Past
<1>3. QED
  BY <1>1, <1>2 DEF Projection, Faithful, Diverged, Same, Known

LEMMA SilentSteps ==
    ASSUME Memory, Pending \/ Perform \/ Verify \/ CheckedAgain \/ StepFails \/ StepRefused \/ \E r \in Runs : Expire(r)
    PROVE  Memory'
<1>1. job \in JobType /\ Idle \in JobType /\ \A p \in Places : [job EXCEPT !.at = p] \in JobType
  BY JobTyped DEF Memory, Typed
<1>2. UNCHANGED <<durable, index, up>> /\ up
  BY DEF Pending, Perform, Verify, CheckedAgain, StepFails, StepRefused, Expire, Quiet, At
<1>3. /\ Projection' /\ Past' = Past /\ UNCHANGED <<log, stored, resumed, index, up>>
      /\ \A r \in Runs : (Faithful(r)' <=> Faithful(r)) /\ Known(index, r)' = Known(index, r)
  BY <1>2, Unwritten DEF Memory, durable
<1>4. /\ job' \in JobType
      /\ \/ job' = Idle \/ job' = job
         \/ /\ job'.run = job.run
            /\ \/ job.at = "perform" /\ job'.at = "intent"
               \/ job.at \in Verifying /\ job'.at \in Verifying
               \/ job.at = "pending" /\ job'.at = "verify" /\ Rec.state = "running"
               \/ /\ job.at = "pending" /\ job'.at \in {"perform", "prohibit", "block"}
                  /\ Rec.state = "running" /\ Rec.remaining # <<>>
  <2>1. CASE Pending
    <3>1. \/ job' = Idle
          \/ job' = [job EXCEPT !.at = "verify"] /\ Rec.state = "running"
          \/ \E p \in {"perform", "prohibit", "block"} :
                /\ job' = [job EXCEPT !.at = p]
                /\ Rec.state = "running" /\ Rec.remaining # <<>>
      BY <2>1 DEF Pending, Go, Return
    <3>2. job.at = "pending"
      BY <2>1 DEF Pending, At
    <3>3. {"verify", "perform", "prohibit", "block"} \subseteq Places
      BY DEF Places
    <3>4. \A p \in Places : LET j == [job EXCEPT !.at = p] IN
            j \in JobType /\ j.run = job.run /\ j.at = p
      BY <1>1 DEF JobType
    <3>5. QED
      BY <1>1, <3>1, <3>2, <3>3, <3>4
  <2>2. CASE Perform
    BY <1>1, <2>2 DEF JobType, Places, Perform, At, Go
  <2>2a. CASE Verify
    <3>1. PICK p \in {"passes", "fails"} : job' = [job EXCEPT !.at = p]
      BY <2>2a DEF Verify, Go
    <3>2. p \in Places /\ job.at = "verify"
      BY <2>2a DEF Places, Verify, At
    <3>3. QED
      BY <1>1, <3>1, <3>2 DEF JobType, Verifying
  <2>2b. CASE CheckedAgain
    BY <2>2b, NextCheckTyped DEF CheckedAgain, Verifying
  <2>3. CASE StepFails \/ StepRefused
    BY <1>1, <2>3 DEF StepFails, StepRefused, Return
  <2>4. CASE \E r \in Runs : Expire(r)
    BY <1>1, <2>4 DEF Expire
  <2>5. QED
    BY <2>1, <2>2, <2>2a, <2>2b, <2>3, <2>4
<1>5. performed' \in Seq(EffectType)
  <2>1. performed \in Seq(EffectType) /\ Len(log) \in Nat
    BY DEF Memory, Typed
  <2>2. CASE Perform
    <3>1. Next1 \in StepType /\ job.run \in Runs
      BY <2>2, NextTyped DEF Perform, At, Running, Memory, Placed
    <3>2. [run |-> job.run, step |-> Next1.id, kind |-> Next1.kind, at |-> Len(log)] \in EffectType
      BY <2>1, <3>1 DEF EffectType, StepType
    <3>3. QED
      BY <2>1, <2>2, <3>2 DEF Perform
  <2>3. CASE ~Perform
    BY <2>1, <2>3 DEF Pending, Verify, CheckedAgain, StepFails, StepRefused, Expire, Quiet
  <2>4. QED
    BY <2>2, <2>3
<1>5a. verified' \in Seq(CommandType)
  <2>1. verified \in Seq(CommandType)
    BY DEF Memory, Typed
  <2>2. CASE Verify
    <3>1. job.run \in Runs /\ job.check \in Nat
      BY <1>1, <2>2 DEF Verify, At, Memory, Placed, JobType
    <3>2. [run |-> job.run, check |-> job.check] \in CommandType
      BY <3>1 DEF CommandType
    <3>3. verified' \in {verified, Append(verified, [run |-> job.run, check |-> job.check])}
      BY <2>2 DEF Verify
    <3>4. QED
      BY <2>1, <3>2, <3>3
  <2>3. CASE ~Verify
    BY <2>1, <2>3 DEF Pending, Perform, CheckedAgain, StepFails, StepRefused, Expire, Quiet
  <2>4. QED
    BY <2>2, <2>3
<1>6. cards' = cards /\ calls' = calls /\ faults' \in 0..MaxFaults
  BY EngineAssumption DEF Pending, Perform, Verify, CheckedAgain, StepFails, StepRefused, Expire, Quiet, Fault,
                          Memory, Typed
<1>7. Typed'
  BY <1>3, <1>4, <1>5, <1>5a, <1>6 DEF Memory, Typed
<1>8. Placed'
  <2>1. job' = Idle => Placed'
    BY DEF Placed, Idle, Starting, Decisions, Running, Verifying, Fresh
  <2>2. job' = job => Placed'
    <3> SUFFICES ASSUME job' = job, job # Idle PROVE Placed'
      BY <2>1
    <3>1. job.run \in Runs /\ up' /\ Placed
      BY <1>2, <1>3 DEF Memory, Placed
    <3>2. Faithful(job.run)' <=> Faithful(job.run)
      BY <1>3, <3>1 DEF Faithful, Same
    <3>3. QED
      BY <1>3, <3>1, <3>2 DEF Placed, Rec, Known
  <2>3. job' # Idle /\ job' # job => Placed'
    BY <1>2, <1>3, <1>4 DEF Memory, Placed, Starting, Decisions, Running, Verifying, Fresh, Rec, Known
  <2>4. QED
    BY <2>1, <2>2, <2>3
<1>9. QED
  BY <1>3, <1>7, <1>8 DEF Memory

\* Calls about a run: a memory that took its run to be running is not asked
\* for a decision nor to resume.
Asked(r) ==
    \/ PauseRun(r) \/ SteerRun(r) \/ ResumeRun(r) \/ CancelRun(r)
    \/ \E d \in {"approve", "deny", "mumble"} : ResolveApproval(r, d)

LEMMA AskedSteps ==
    ASSUME Memory, NEW r \in Runs, Asked(r)
    PROVE  Memory'
<1>1. /\ UNCHANGED <<durable, index, up, performed, verified, cards, faults>> /\ up
      /\ calls' \in 0..MaxCalls
      /\ Known(index, r)
  BY EngineAssumption DEF Asked, PauseRun, SteerRun, ResumeRun, CancelRun, ResolveApproval, Call,
                          Uncounted, Enter, EnterWith, Memory, Typed
<1>2. /\ Projection' /\ Past' = Past /\ UNCHANGED <<log, stored, resumed, index, up>>
      /\ \A q \in Runs : (Faithful(q)' <=> Faithful(q)) /\ Known(index, q)' = Known(index, q)
  BY <1>1, Unwritten DEF Memory, durable
<1>3. PICK p \in {"pause", "steer", "revalidate", "propagate", "approve", "deny", "mumble"},
           key \in {"fresh", "new", "used"} :
        /\ EnterWith(r, p, key)
        /\ p \in Decisions \cup {"revalidate"} =>
              index.runs[r].state = "blocked" \/ index.runs[r].pending # NoCard
        /\ key = "fresh" \/ (p = "revalidate" /\ index.runs[r].state = "blocked")
  BY DEF Asked, PauseRun, SteerRun, ResumeRun, CancelRun, ResolveApproval, Enter, CardUsable,
         Decisions
<1>4. Faithful(r) \/ Diverged(r)
  BY <1>1 DEF Memory, Projection
<1>5. p \in Decisions \cup {"revalidate"} => Faithful(r)
  BY <1>3, <1>4 DEF Diverged
<1>6. job' \in JobType /\ job'.run = r /\ job'.at = p /\ job'.key = key
  <2>1. index.runs[r].pending \in CardType /\ Idle \in JobType /\ p \in Places
    BY JobTyped DEF Memory, Typed, IndexType, RecordType, Places
  <2>2. job' = [Idle EXCEPT !.at = p, !.run = r, !.card = index.runs[r].pending, !.key = key]
    BY <1>3 DEF EnterWith
  <2>3. QED
    BY <2>1, <2>2 DEF JobType
<1>7. Typed'
  BY <1>1, <1>2, <1>6 DEF Memory, Typed
<1>8. Placed'
  BY <1>1, <1>2, <1>3, <1>5, <1>6 DEF Placed, Starting, Decisions, Running, Verifying, Fresh, Rec
<1>9. QED
  BY <1>2, <1>7, <1>8 DEF Memory

\* Then plans, new runs, and what a repeated resumption, a death and a
\* restart do to the memory.
LEMMA FreezePlanStep ==
    ASSUME Memory, NEW plan \in Plans, FreezePlan(plan)
    PROVE  /\ Memory' /\ up
           /\ Past' = [Past EXCEPT !.plans = Append(Past.plans, plan)]
           /\ index'.runs = index.runs
           /\ log' = Append(log, PlanEvent(plan)) /\ PlanEvent(plan) \in EventType
<1> DEFINE e == PlanEvent(plan)
           ix == [index EXCEPT !.hint = "ws"]
<1>1. up /\ job = Idle /\ job' = job /\ index.plans = Past.plans
  BY DEF FreezePlan, Uncounted, Memory, Projection
<1>2. /\ log \in Seq(EventType) /\ index \in IndexType /\ Past \in IndexType
      /\ Len(index.plans) < MaxPlans /\ MaxPlans \in Nat
  BY EngineAssumption DEF Memory, Typed, FreezePlan
<1>3. e \in EventType /\ e.type = "plan.frozen" /\ Head(e.plan) = plan /\ e.run \notin Runs
  <2>1. <<plan>> \in Seq(Plans) /\ Head(<<plan>>) = plan
    OBVIOUS
  <2>2. NoCard \in CardType
    BY DEF NoCard, CardType
  <2>3. QED
    BY <2>1, <2>2, EngineAssumption DEF PlanEvent, Event, EventType, EventNames
<1>4. log' = Append(log, e) /\ index' = Apply(ix, e)
  BY DEF FreezePlan
<1> HIDE DEF e
<1>5. \A x \in IndexType : Apply(x, e) = [x EXCEPT !.plans = Append(x.plans, plan)]
  BY <1>3 DEF Apply
<1>6. ix \in IndexType /\ ix.plans = index.plans /\ ix.runs = index.runs
  BY <1>2 DEF IndexType, Workspaces
<1> HIDE DEF ix
<1>7. /\ log' \in Seq(EventType)
      /\ Past' = [Past EXCEPT !.plans = Append(Past.plans, plan)]
      /\ index' = [ix EXCEPT !.plans = Append(ix.plans, plan)]
  BY <1>2, <1>3, <1>4, <1>5, <1>6, RebuildAppend DEF Past
<1>8. /\ index' \in IndexType /\ Past' \in IndexType
      /\ Len(index'.plans) <= MaxPlans /\ Len(Past'.plans) <= MaxPlans
      /\ index'.plans = Past'.plans
      /\ index'.runs = index.runs /\ Past'.runs = Past.runs /\ Past'.hint = Past.hint
  <2>1. \A plans \in Seq(Plans) :
          Append(plans, plan) \in Seq(Plans) /\ Len(Append(plans, plan)) = Len(plans) + 1
    OBVIOUS
  <2>2. ASSUME NEW x \in IndexType, NEW plans \in Seq(Plans)
        PROVE  LET y == [x EXCEPT !.plans = plans] IN
                y \in IndexType /\ y.plans = plans /\ y.runs = x.runs /\ y.hint = x.hint
    BY DEF IndexType
  <2>3. index.plans \in Seq(Plans) /\ Len(index.plans) \in Nat
    BY <1>2 DEF IndexType
  <2>4. LET more == Append(index.plans, plan) IN
        more \in Seq(Plans) /\ Len(more) <= MaxPlans
    BY <1>2, <2>1, <2>3
  <2>5. index' \in IndexType /\ index'.plans = Append(index.plans, plan) /\ index'.runs = index.runs
    BY <1>6, <1>7, <2>2, <2>4
  <2>6. /\ Past' \in IndexType /\ Past'.plans = Append(index.plans, plan)
        /\ Past'.runs = Past.runs /\ Past'.hint = Past.hint
    BY <1>1, <1>2, <1>7, <2>2, <2>4
  <2>7. QED
    BY <2>4, <2>5, <2>6
<1>9. UNCHANGED <<stored, resumed, up, job, performed, verified, cards, calls, faults>>
  BY DEF FreezePlan, Uncounted
<1>10. Typed'
  BY <1>7, <1>8, <1>9 DEF Memory, Typed
<1>11. \A r \in Runs : (Faithful(r) <=> Faithful(r)') /\ (Diverged(r) <=> Diverged(r)')
  BY <1>8, <1>9 DEF Faithful, Diverged, Same
<1>12. Projection'
  BY <1>1, <1>8, <1>9, <1>11 DEF Memory, Projection
<1>13. Placed'
  BY <1>1 DEF Placed, Idle, Starting, Decisions, Running, Verifying, Fresh
<1>14. QED
  BY <1>1, <1>3, <1>4, <1>7, <1>8, <1>10, <1>12, <1>13 DEF Memory, e

LEMMA BeginStep ==
    ASSUME Memory, NEW version, NEW parent \in Runs \cup {NoRun},
           Begin(version, parent), job = Idle, up, calls' \in 0..MaxCalls
    PROVE  /\ Memory' /\ Past' = Past /\ index'.runs = index.runs
           /\ job'.run \in Runs /\ index.runs[job'.run].state = "absent"
<1> DEFINE r == CHOOSE q \in {q \in Runs : stored[q] = "absent"} : TRUE
<1>1. /\ r \in Runs /\ stored[r] = "absent"
      /\ version \in 1..Len(index.plans)
      /\ index' = [index EXCEPT !.hint = "ws"]
      /\ job' = [Idle EXCEPT !.at = "create", !.run = r, !.version = version, !.parent = parent]
      /\ UNCHANGED <<log, stored, resumed, up, performed, verified, cards, faults>>
  BY DEF Begin, Noting, durable
<1>2. Past' = Past
  BY <1>1 DEF Past
<1> HIDE DEF r
<1>3. /\ index' \in IndexType /\ index'.plans = index.plans /\ index'.runs = index.runs
      /\ Len(index.plans) \in Nat /\ Len(index.plans) <= MaxPlans
  <2>1. index \in IndexType /\ Len(index.plans) <= MaxPlans
    BY DEF Memory, Typed
  <2>2. index' \in IndexType /\ index'.plans = index.plans /\ index'.runs = index.runs
    BY <1>1, <2>1 DEF IndexType, Workspaces
  <2>3. index.plans \in Seq(Plans)
    BY <2>1 DEF IndexType
  <2>4. QED
    BY <2>1, <2>2, <2>3
<1>4. Projection'
  <2>1. \A q \in Runs : (Faithful(q) <=> Faithful(q)') /\ (Diverged(q) <=> Diverged(q)')
    BY <1>1, <1>2, <1>3 DEF Faithful, Diverged, Same
  <2>2. QED
    BY <1>1, <1>2, <1>3, <2>1 DEF Memory, Projection
<1>5. index.runs[r].state = "absent"
  <2>1. Past.runs[r].state = "absent"
    BY <1>1 DEF Memory, Projection
  <2>2. Faithful(r) \/ Diverged(r)
    BY <1>1 DEF Memory, Projection
  <2>3. QED
    BY <2>1, <2>2 DEF Faithful, Diverged, Same
<1>6. /\ job' \in JobType /\ job'.at = "create" /\ job'.run = r /\ job'.version = version
      /\ job'.key = "fresh"
  <2>1. Idle \in JobType /\ "create" \in Places
    BY JobTyped DEF Memory, Places
  <2>2. version \in 0..MaxPlans
    BY <1>1, <1>3, EngineAssumption
  <2>3. QED
    BY <1>1, <2>1, <2>2 DEF JobType, Idle
<1>7. Typed'
  BY <1>1, <1>2, <1>3, <1>6 DEF Memory, Typed
<1>8. Placed'
  BY <1>1, <1>3, <1>5, <1>6 DEF Placed, Starting, Decisions, Running, Verifying, Fresh
<1>9. QED
  BY <1>1, <1>2, <1>3, <1>4, <1>5, <1>6, <1>7, <1>8 DEF Memory

LEMMA StartSteps ==
    ASSUME Memory, (\E v \in 1..MaxPlans : StartRun(v)) \/ \E r \in Runs : ForkRun(r)
    PROVE  /\ Memory' /\ Past' = Past /\ index'.runs = index.runs
           /\ job'.run \in Runs /\ index.runs[job'.run].state = "absent"
<1>1. job = Idle /\ up /\ calls' \in 0..MaxCalls
  BY EngineAssumption DEF StartRun, ForkRun, Call, Memory, Typed
<1>2. CASE \E v \in 1..MaxPlans : StartRun(v)
  <2>1. PICK v : Begin(v, NoRun)
    BY <1>2, Zenon DEF StartRun
  <2>2. QED
    BY <1>1, <2>1, BeginStep
<1>3. CASE \E r \in Runs : ForkRun(r)
  <2>1. PICK r \in Runs : Begin(index.runs[r].version, r)
    BY <1>3, Zenon DEF ForkRun
  <2>2. QED
    BY <1>1, <2>1, BeginStep
<1>4. QED
  BY <1>2, <1>3

LEMMA CreateStep ==
    ASSUME Memory, Create
    PROVE  /\ Memory' /\ Past' = Past /\ index' = index /\ job.run \in Runs
           /\ log' = Append(log, Event("run.queued", job.run))
           /\ Event("run.queued", job.run) \in EventType
<1> DEFINE e == Event("run.queued", job.run)
<1>1. /\ up /\ job.at = "create" /\ job.run \in Runs
      /\ job.version \in 1..Len(index.plans)
      /\ index.runs[job.run].state = "absent"
  BY DEF Create, At, Memory, Placed, Starting
<1>2. Past.runs[job.run].state = "absent"
  BY <1>1 DEF Memory, Projection, Faithful, Diverged, Same
<1>3. e \in EventType /\ e.type = "run.queued" /\ e.run = job.run
  BY <1>1, EventsTyped DEF EventNames, Event
<1>4. log' = Append(log, e) /\ log \in Seq(EventType)
  BY DEF Create, Memory, Typed
<1> HIDE DEF e
<1>5. Past' = Past
  <2>1. Past' = Apply(Past, e)
    BY <1>3, <1>4, RebuildAppend DEF Past
  <2>2. Apply(Past, e) = Past
    BY <1>2, <1>3 DEF Apply, Known
  <2>3. QED
    BY <2>1, <2>2
<1>6. log' \in Seq(EventType)
  BY <1>3, <1>4
<1>7. /\ stored' = [stored EXCEPT ![job.run] = "queued"]
      /\ UNCHANGED <<resumed, index, up, performed, verified, cards, calls, faults>>
      /\ job' = [job EXCEPT !.at = "bind"]
  BY DEF Create, Quiet, Go
<1>8. stored \in [Runs -> States \cup {"absent"}] /\ job \in JobType
  BY DEF Memory, Typed
<1>9. stored' \in [Runs -> States \cup {"absent"}] /\ job' \in JobType
  <2>1. "queued" \in States
    BY DEF States
  <2>2. QED
    BY <1>7, <1>8, <2>1, JobTyped DEF Memory, Places
<1>10. Typed'
  BY <1>5, <1>6, <1>7, <1>9 DEF Memory, Typed
<1>11. \A r \in Runs : (Faithful(r) => Faithful(r)') /\ (Diverged(r) => Diverged(r)')
  BY <1>5, <1>7, <1>8 DEF Faithful, Diverged, Same
<1>12. Projection'
  BY <1>1, <1>2, <1>5, <1>7, <1>8, <1>11 DEF Memory, Projection
<1>13. Placed'
  <2>1. job'.at = "bind" /\ job'.run = job.run /\ job'.version = job.version /\ job'.key = job.key
    BY <1>7, <1>8 DEF JobType
  <2>2. stored'[job.run] = "queued"
    BY <1>1, <1>7, <1>8
  <2>3. job.key = "fresh"
    BY <1>1 DEF Memory, Placed, Fresh, Starting
  <2>4. QED
    BY <1>1, <1>7, <2>1, <2>2, <2>3 DEF Placed, Starting, Decisions, Running, Verifying, Fresh
<1>14. QED
  BY <1>1, <1>3, <1>4, <1>5, <1>7, <1>10, <1>12, <1>13 DEF Memory, e

\* The record that a binding gives a run.
Bound(workspace, steps, v) ==
    [Unknown EXCEPT !.workspace = workspace, !.version = v, !.remaining = steps,
                    !.state = "queued"]

LEMMA BoundFields ==
    ASSUME NEW w, NEW q, NEW n
    PROVE  /\ Bound(w, q, n).workspace = w /\ Bound(w, q, n).version = n
           /\ Bound(w, q, n).state = "queued" /\ Bound(w, q, n).remaining = q
           /\ Bound(w, q, n).pending = NoCard /\ Bound(w, q, n).resolved = {}
           /\ w \in Workspaces /\ n \in 0..MaxPlans /\ q \in Seq(StepType) =>
                Bound(w, q, n) \in RecordType
<1>1. NoCard \in CardType /\ "queued" \in States /\ {} \in SUBSET Nat
  BY DEF NoCard, CardType, States
<1>2. QED
  BY <1>1 DEF Bound, Unknown, RecordType

LEMMA BindStep ==
    ASSUME Memory, Bind
    PROVE  /\ Memory' /\ job.run \in Runs /\ UNCHANGED <<stored, up>>
           /\ job.version \in 1..Len(Past.plans)
           /\ Past.runs[job.run] = Unknown
           /\ Past' = [Past EXCEPT !.runs[job.run] =
                            Bound("", Past.plans[job.version].steps, job.version)]
           /\ index' = [index EXCEPT !.runs[job.run] =
                            Bound(index.hint, Past.plans[job.version].steps, job.version)]
           /\ log' = Append(log, BindingEvent(job.run, job.version))
           /\ BindingEvent(job.run, job.version) \in EventType
<1> DEFINE e == BindingEvent(job.run, job.version)
           v == job.version
           steps == Past.plans[v].steps
<1>1. /\ up /\ job.at = "bind" /\ job.run \in Runs
      /\ v \in 1..Len(index.plans)
      /\ index.runs[job.run].state = "absent"
      /\ stored[job.run] = "queued"
      /\ job.key = "fresh"
  BY DEF Bind, At, Memory, Placed, Starting, Fresh
<1>2. /\ index.plans = Past.plans /\ Past.hint = ""
      /\ index.runs[job.run] = Unknown /\ Past.runs[job.run] = Unknown
  BY <1>1 DEF Memory, Projection, Faithful, Diverged, Same
<1>3. /\ log \in Seq(EventType) /\ index \in IndexType /\ Past \in IndexType /\ job \in JobType
      /\ Len(index.plans) <= MaxPlans
  BY DEF Memory, Typed
<1>4. steps \in Seq(StepType) /\ v \in 0..MaxPlans /\ v \in Nat
  <2>1. Past.plans \in Seq(Plans) /\ v \in 1..Len(Past.plans)
    BY <1>1, <1>2, <1>3 DEF IndexType
  <2>2. Past.plans[v] \in Plans /\ Len(Past.plans) \in Nat
    BY <2>1
  <2>3. steps \in Seq(StepType)
    BY <2>2, EngineAssumption
  <2>4. MaxPlans \in Nat /\ Len(Past.plans) <= MaxPlans
    BY <1>2, <1>3, EngineAssumption
  <2>5. QED
    BY <2>1, <2>2, <2>3, <2>4
<1>5. e \in EventType /\ e.type = "run.binding_recorded" /\ e.run = job.run /\ e.version = v
  BY <1>1, <1>4, EventsTyped DEF EventNames, BindingEvent, Event
<1>6. log' = Append(log, e) /\ index' = Apply(index, e)
  BY DEF Bind, Write
<1> HIDE DEF e, v
<1>7. \A x \in IndexType : x.runs[job.run] = Unknown /\ x.plans = Past.plans =>
        Apply(x, e) = [x EXCEPT !.runs[job.run] = Bound(x.hint, steps, v)]
  <2> SUFFICES ASSUME NEW x \in IndexType, x.runs[job.run] = Unknown, x.plans = Past.plans
               PROVE  Apply(x, e) = [x EXCEPT !.runs[job.run] = Bound(x.hint, steps, v)]
    OBVIOUS
  <2>1. ~Known(x, job.run)
    <3>1. Unknown.state = "absent"
      BY DEF Unknown
    <3>2. QED
      BY <3>1 DEF Known
  <2>2. Apply(x, e) = [x EXCEPT !.runs[e.run] = [x.runs[e.run] EXCEPT !.workspace = x.hint,
                          !.version = e.version, !.remaining = x.plans[e.version].steps,
                          !.state = "queued"]]
    BY <1>5, <2>1 DEF Apply
  <2>3. QED
    BY <1>5, <2>2, Zenon DEF Bound, steps
<1> HIDE DEF steps
<1>8. log' \in Seq(EventType) /\ Past' = Apply(Past, e)
  BY <1>3, <1>5, <1>6, RebuildAppend DEF Past
<1>9. /\ Past' = [Past EXCEPT !.runs[job.run] = Bound("", steps, v)]
      /\ index' = [index EXCEPT !.runs[job.run] = Bound(index.hint, steps, v)]
  BY <1>2, <1>3, <1>6, <1>7, <1>8
<1>10. \A w \in Workspaces : Bound(w, steps, v) \in RecordType
  BY <1>4, BoundFields
<1>11. \A x \in IndexType, w \in Workspaces :
        [x EXCEPT !.runs[job.run] = Bound(w, steps, v)] \in IndexType
  BY <1>10 DEF IndexType
<1>12. index' \in IndexType /\ Past' \in IndexType
  BY <1>3, <1>9, <1>11 DEF IndexType, Workspaces
<1>13. /\ Past'.hint = Past.hint /\ Past'.plans = Past.plans /\ index'.plans = index.plans
       /\ Past'.runs[job.run] = Bound("", steps, v)
       /\ index'.runs[job.run] = Bound(index.hint, steps, v)
       /\ \A r \in Runs : r # job.run =>
            Past'.runs[r] = Past.runs[r] /\ index'.runs[r] = index.runs[r]
       /\ index'.runs[job.run].state = "queued" /\ Past'.runs[job.run].state = "queued"
       /\ Past'.runs[job.run].workspace = ""
  <2>1. /\ Past'.hint = Past.hint /\ Past'.plans = Past.plans /\ index'.plans = index.plans
        /\ Past'.runs[job.run] = Bound("", steps, v)
        /\ index'.runs[job.run] = Bound(index.hint, steps, v)
        /\ \A r \in Runs : r # job.run =>
             Past'.runs[r] = Past.runs[r] /\ index'.runs[r] = index.runs[r]
    BY <1>1, <1>3, <1>9 DEF IndexType
  <2>2. \A w : Bound(w, steps, v).state = "queued" /\ Bound(w, steps, v).workspace = w
    BY BoundFields
  <2>3. QED
    BY <2>1, <2>2
<1>14. /\ UNCHANGED <<stored, resumed, up, performed, verified, cards, calls, faults>>
       /\ job' = [job EXCEPT !.at = "baseline"]
  BY DEF Bind, Quiet, Go
<1>15. job' \in JobType
  BY <1>14, JobTyped DEF Memory, Places
<1>16. Typed'
  BY <1>8, <1>12, <1>13, <1>14, <1>15 DEF Memory, Typed
<1>17. \A r \in Runs : r = job.run => Faithful(r)'
  <2> DEFINE Fields(rec) ==
                /\ rec.version = v /\ rec.remaining = steps /\ rec.state = "queued"
                /\ rec.pending = NoCard /\ rec.resolved = {}
  <2>1. \A w : Fields(Bound(w, steps, v))
    BY BoundFields
  <2>2. Fields(index'.runs[job.run]) /\ Fields(Past'.runs[job.run])
    <3> HIDE DEF Fields
    <3> QED
      BY <1>13, <2>1
  <2>3. QED
    BY <2>2 DEF Faithful, Same
<1>18. \A r \in Runs : r # job.run =>
          (Faithful(r) => Faithful(r)') /\ (Diverged(r) => Diverged(r)')
  BY <1>13, <1>14 DEF Faithful, Diverged, Same
<1>19. \A r \in Runs :
        /\ Past'.runs[r].workspace = ""
        /\ Past'.runs[r].state # "absent" => Past'.runs[r].state = stored'[r]
        /\ Past'.runs[r].state = "absent" => Past'.runs[r] = Unknown
        /\ index'.runs[r].state = "absent" => index'.runs[r] = Unknown
  <2> TAKE r \in Runs
  <2>1. CASE r = job.run
    BY <1>1, <1>13, <1>14, <2>1
  <2>2. CASE r # job.run
    BY <1>1, <1>13, <1>14, <2>2 DEF Memory, Projection
  <2>3. QED
    BY <2>1, <2>2
<1>20. Projection'
  BY <1>1, <1>2, <1>13, <1>17, <1>18, <1>19 DEF Memory, Projection
<1>21. Placed'
  <2>1. job'.at = "baseline" /\ job'.run = job.run /\ job'.key = job.key
    BY <1>3, <1>14 DEF JobType
  <2>2. QED
    BY <1>1, <1>13, <1>14, <1>17, <2>1 DEF Placed, Starting, Decisions, Running, Verifying, Fresh, Known
<1>22. QED
  BY <1>1, <1>2, <1>5, <1>6, <1>9, <1>14, <1>16, <1>20, <1>21 DEF Memory, e, v, steps

LEMMA GoOnReplayedStep ==
    ASSUME Memory, GoOnReplayed
    PROVE  /\ Memory' /\ Past' = Past /\ UNCHANGED <<log, stored, performed, verified, cards, expired>>
           /\ job.run \in Runs /\ Rec.state = "blocked" /\ Rec.workspace = "ws"
           /\ index' = [index EXCEPT !.runs[job.run] = Moved(index.runs[job.run], "running")]
           /\ up /\ up'
<1>1. /\ job.at = "go" /\ job.key = "used" /\ job.run \in Runs /\ up /\ up'
      /\ Faithful(job.run) /\ Rec.state = "blocked" /\ Rec.workspace = "ws"
  BY DEF GoOnReplayed, At, Quiet, Memory, Placed, Starting
<1>2. /\ UNCHANGED <<log, stored, up, performed, verified, cards, calls, faults, expired>>
      /\ resumed' = [resumed EXCEPT ![job.run] = "replayed"]
      /\ index' = [index EXCEPT !.runs[job.run] = Moved(index.runs[job.run], "running")]
      /\ job' = [job EXCEPT !.at = "pending"]
  BY DEF GoOnReplayed, Quiet, Go
<1>3. Past' = Past
  BY <1>2 DEF Past
<1>4. /\ index \in IndexType /\ resumed \in [Runs -> {"no", "spent", "replayed"}]
      /\ job \in JobType /\ index.runs[job.run] \in RecordType
  BY <1>1 DEF Memory, Typed, IndexType
<1> DEFINE rec == Moved(index.runs[job.run], "running")
<1>5. /\ rec \in RecordType
      /\ rec.state = "running" /\ rec.pending = NoCard
      /\ rec.version = index.runs[job.run].version
      /\ rec.remaining = index.runs[job.run].remaining
      /\ rec.resolved = index.runs[job.run].resolved
  BY <1>4 DEF Moved, RecordType, NoCard, CardType, States
<1> HIDE DEF rec
<1>6. /\ index' \in IndexType /\ index'.plans = index.plans
      /\ index'.runs[job.run] = rec
      /\ \A r \in Runs : r # job.run => index'.runs[r] = index.runs[r] /\ resumed'[r] = resumed[r]
      /\ resumed'[job.run] = "replayed"
      /\ resumed' \in [Runs -> {"no", "spent", "replayed"}]
  BY <1>1, <1>2, <1>4, <1>5 DEF IndexType, rec
<1>7. job' \in JobType /\ job'.at = "pending" /\ job'.run = job.run
  <2>1. "pending" \in Places
    BY DEF Places
  <2>2. QED
    BY <1>2, <1>4, <2>1 DEF JobType
<1>8. Typed'
  BY <1>2, <1>3, <1>6, <1>7 DEF Memory, Typed
<1>9. stored[job.run] = "blocked" /\ Past.runs[job.run].state = "blocked"
  BY <1>1 DEF Memory, Projection, Faithful, Rec
<1>10. \A r \in Runs : r = job.run => Diverged(r)'
  BY <1>1, <1>2, <1>3, <1>5, <1>6, <1>9 DEF Diverged, Faithful, Same
<1>11. \A r \in Runs : r # job.run =>
          (Faithful(r) => Faithful(r)') /\ (Diverged(r) => Diverged(r)')
  BY <1>2, <1>3, <1>6 DEF Faithful, Diverged, Same
<1>12. Projection'
  <2>1. \A r \in Runs : Faithful(r)' \/ Diverged(r)'
    BY <1>1, <1>10, <1>11 DEF Memory, Projection
  <2>2. \A r \in Runs : index'.runs[r].state = "absent" => index'.runs[r] = Unknown
    BY <1>1, <1>5, <1>6 DEF Memory, Projection
  <2>3. QED
    BY <1>1, <1>2, <1>3, <1>6, <2>1, <2>2 DEF Memory, Projection
<1>13. Placed'
  BY <1>1, <1>5, <1>6, <1>7 DEF Placed, Starting, Decisions, Running, Verifying, Fresh, Known
<1>14. QED
  BY <1>1, <1>2, <1>3, <1>8, <1>12, <1>13 DEF Memory

LEMMA EmptyTyped ==
    /\ EmptyIndex \in IndexType /\ Len(EmptyIndex.plans) <= MaxPlans
    /\ EmptyIndex.hint = "" /\ \A r \in Runs : EmptyIndex.runs[r] = Unknown
<1>1. NoCard \in CardType /\ <<>> \in Seq(StepType) /\ <<>> \in Seq(Plans)
  BY DEF NoCard, CardType
<1>2. MaxPlans \in Nat
  BY EngineAssumption
<1>3. Unknown \in RecordType
  BY <1>1, <1>2 DEF Unknown, RecordType, Workspaces
<1>4. EmptyIndex \in IndexType
  BY <1>1, <1>3 DEF EmptyIndex, IndexType, Workspaces
<1>5. EmptyIndex.plans = <<>> /\ Len(<<>>) = 0
  BY DEF EmptyIndex
<1>6. Len(EmptyIndex.plans) <= MaxPlans
  BY <1>2, <1>5
<1>7. QED
  BY <1>4, <1>6 DEF EmptyIndex

LEMMA DieStep ==
    ASSUME Memory, Die
    PROVE  Memory' /\ Past' = Past
<1>1. /\ UNCHANGED <<log, stored, resumed, performed, verified, cards, expired, calls>>
      /\ up' = FALSE /\ index' = EmptyIndex /\ job' = Idle /\ faults' \in 0..MaxFaults
  BY EngineAssumption DEF Die, Fault, Return, durable, Memory, Typed
<1>2. Past' = Past
  BY <1>1 DEF Past
<1>3. index' \in IndexType /\ Len(index'.plans) <= MaxPlans
  BY <1>1, EmptyTyped, Zenon
<1>4. Typed'
  BY <1>1, <1>2, <1>3, JobTyped DEF Memory, Typed
<1>5. Projection'
  BY <1>1, <1>2 DEF Memory, Projection
<1>6. Placed'
  BY <1>1 DEF Placed, Idle, Starting, Decisions, Running, Verifying, Fresh
<1>7. QED
  BY <1>2, <1>4, <1>5, <1>6 DEF Memory

LEMMA RestartStep ==
    ASSUME Memory, Restart
    PROVE  Memory' /\ Past' = Past /\ index' = Past /\ job = Idle /\ job' = Idle
<1>1. /\ UNCHANGED <<log, stored, resumed, job, performed, verified, cards, expired, calls, faults>>
      /\ ~up /\ up' = TRUE /\ index' = Past
  BY DEF Restart, durable, Past
<1>2. Past' = Past
  BY <1>1 DEF Past
<1>3. job = Idle
  BY <1>1 DEF Memory, Placed
<1>4. Typed'
  BY <1>1, <1>2 DEF Memory, Typed
<1>5. \A r \in Runs : Faithful(r)'
  BY <1>1, <1>2 DEF Faithful, Same
<1>6. Projection'
  BY <1>1, <1>2, <1>5 DEF Memory, Projection
<1>7. Placed'
  BY <1>1, <1>3 DEF Placed, Idle, Starting, Decisions, Running, Verifying, Fresh
<1>8. QED
  BY <1>1, <1>2, <1>3, <1>4, <1>6, <1>7 DEF Memory

LEMMA InitMemory ==
    ASSUME Init
    PROVE  Memory /\ Past = EmptyIndex
<1>1. Past = EmptyIndex
  BY RebuildEmpty DEF Init, Past
<1>2. NoCard \in CardType /\ MaxPlans \in Nat /\ MaxCalls \in Nat /\ MaxFaults \in Nat
  BY EngineAssumption DEF NoCard, CardType
<1>3. Idle \in JobType
  BY <1>2 DEF Idle, JobType, Places
<1>4. Typed
  <2>1. <<>> \in Seq(EventType) /\ <<>> \in Seq(EffectType) /\ <<>> \in Seq(CommandType)
    OBVIOUS
  <2>2. /\ stored \in [Runs -> States \cup {"absent"}]
        /\ resumed \in [Runs -> {"no", "spent", "replayed"}]
    BY DEF Init
  <2>3. cards \in Nat /\ calls \in 0..MaxCalls /\ faults \in 0..MaxFaults
    BY <1>2 DEF Init
  <2>4. log \in Seq(EventType) /\ performed \in Seq(EffectType) /\ up \in BOOLEAN
        /\ verified \in Seq(CommandType)
    BY <2>1 DEF Init
  <2>5. index \in IndexType /\ Len(index.plans) <= MaxPlans
        /\ Past \in IndexType /\ Len(Past.plans) <= MaxPlans /\ job \in JobType
    BY <1>1, <1>3, EmptyTyped, Zenon DEF Init
  <2>6. QED
    BY <2>2, <2>3, <2>4, <2>5 DEF Typed
<1>5. Unknown.state = "absent" /\ Unknown.workspace = ""
  BY DEF Unknown
<1>6. Projection
  BY <1>1, <1>5, EmptyTyped DEF Init, Projection, Faithful, Same
<1>7. Placed
  BY DEF Init, Placed, Idle, Starting, Decisions, Running, Verifying, Fresh
<1>8. QED
  BY <1>1, <1>4, <1>6, <1>7 DEF Memory

LEMMA MemoryStutters ==
    ASSUME Memory, UNCHANGED vars
    PROVE  Memory' /\ Past' = Past
<1>1. UNCHANGED <<log, stored, resumed, up, index, job, performed, verified, cards, expired, calls, faults>>
  BY DEF vars
<1>2. UNCHANGED <<durable, index, up>>
  BY <1>1 DEF durable
<1>3. /\ Projection' /\ Past' = Past
      /\ \A r \in Runs : (Faithful(r)' <=> Faithful(r)) /\ Known(index, r)' = Known(index, r)
  BY <1>2, Unwritten DEF Memory
<1>4. Typed'
  BY <1>1, <1>3 DEF Memory, Typed
<1>5. Placed'
  <2>1. CASE job.at = "idle"
    BY <1>1, <2>1 DEF Memory, Placed, Starting, Decisions, Running, Verifying, Fresh
  <2>2. CASE job.at # "idle"
    <3>1. job.run \in Runs /\ Placed
      BY <2>2 DEF Memory, Placed
    <3>2. Faithful(job.run)' <=> Faithful(job.run)
      BY <1>1, <1>3, <3>1 DEF Faithful, Same
    <3>3. QED
      BY <1>1, <1>3, <3>1, <3>2 DEF Placed, Rec, Known
  <2>3. QED
    BY <2>1, <2>2
<1>6. QED
  BY <1>3, <1>4, <1>5 DEF Memory

\* The steps of the engine, by what they do to the memory and to Past.
LEMMA StepKinds ==
    ASSUME [Next]_vars
    PROVE  \/ Baseline \/ Lineage \/ Pause \/ Steer \/ Revalidate \/ Propagate \/ Intent
              \/ Result \/ Checked \/ Verdict
           \/ Approve \/ Refuse \/ Mumble \/ Refused \/ Prohibit \/ Completed \/ Wait
           \/ GoOn \/ Cancel \/ Approved \/ Block \/ Finish
           \/ Pending \/ Perform \/ Verify \/ CheckedAgain \/ StepFails \/ StepRefused \/ (\E r \in Runs : Expire(r))
           \/ \E r \in Runs : Asked(r)
           \/ \E plan \in Plans : FreezePlan(plan)
           \/ (\E v \in 1..MaxPlans : StartRun(v)) \/ (\E r \in Runs : ForkRun(r))
           \/ Create \/ Bind \/ GoOnReplayed \/ Die \/ Restart
           \/ UNCHANGED vars
BY Zenon DEF Next, Calls, Step, Asked

LEMMA MemoryStep ==
    ASSUME Memory, [Next]_vars
    PROVE  Memory'
<1>1. CASE Baseline \/ Lineage \/ Pause \/ Steer \/ Revalidate \/ Propagate \/ Intent
              \/ Result \/ Checked \/ Verdict
  BY <1>1, FixedSteps
<1>2. CASE Approve \/ Refuse \/ Mumble \/ Refused \/ Prohibit \/ Completed \/ Wait
  BY <1>2, RecordSteps
<1>3. CASE GoOn \/ Cancel \/ Approved \/ Block \/ Finish
  BY <1>3, MoveSteps
<1>4. CASE Pending \/ Perform \/ Verify \/ CheckedAgain \/ StepFails \/ StepRefused \/ \E r \in Runs : Expire(r)
  BY <1>4, SilentSteps
<1>5. CASE \E r \in Runs : Asked(r)
  BY <1>5, AskedSteps
<1>6. CASE \E plan \in Plans : FreezePlan(plan)
  BY <1>6, FreezePlanStep
<1>7. CASE (\E v \in 1..MaxPlans : StartRun(v)) \/ \E r \in Runs : ForkRun(r)
  BY <1>7, StartSteps
<1>8. CASE Create
  BY <1>8, CreateStep
<1>9. CASE Bind
  BY <1>9, BindStep
<1>10. CASE GoOnReplayed
  BY <1>10, GoOnReplayedStep
<1>11. CASE Die
  BY <1>11, DieStep
<1>12. CASE Restart
  BY <1>12, RestartStep
<1>13. CASE UNCHANGED vars
  BY <1>13, MemoryStutters
<1>14. QED
  BY <1>1, <1>2, <1>3, <1>4, <1>5, <1>6, <1>7, <1>8, <1>9, <1>10, <1>11, <1>12, <1>13,
     StepKinds, Zenon

\* apply_event, in a call and in a replay (run_engine.rs:144): between any two writes of a
\* call, not only between calls, the memory of a run is what the log rebuilds to, up to its
\* workspace, unless its resumption was answered again; and the call stands where its record
\* lets it (Memory).
THEOREM EngineMemory == Spec => []Memory
<1>1. Init => Memory
  BY InitMemory
<1>2. Memory /\ [Next]_vars => Memory'
  BY MemoryStep
<1>3. QED
  BY <1>1, <1>2, PTL DEF Spec

LEMMA MemoryProjects == Memory => IndexIsProjection
<1> SUFFICES ASSUME Memory, up
             PROVE  /\ index.plans = Past.plans
                    /\ \A r \in Runs : resumed[r] # "replayed" => Projected(Past, r)
  BY DEF IndexIsProjection, Past
<1>1. index.plans = Past.plans
  BY DEF Memory, Projection
<1>2. ASSUME NEW r \in Runs, resumed[r] # "replayed"
      PROVE  Projected(Past, r)
  <2>1. Faithful(r)
    BY <1>2 DEF Memory, Projection, Diverged
  <2>2. index.runs[r] \in RecordType /\ Past.runs[r] \in RecordType
    BY DEF Memory, Typed, IndexType
  <2>3. Bare(index.runs[r]) = Bare(Past.runs[r])
    BY <2>1, <2>2 DEF Bare, Faithful, Same, RecordType
  <2>4. Known(index, r) => index.runs[r].state = stored[r]
    BY <2>1 DEF Known, Faithful, Memory, Projection
  <2>5. QED
    BY <2>3, <2>4 DEF Projected
<1>3. QED
  BY <1>1, <1>2

\* "The in-memory index is a disposable projection" (run_engine.rs:1-14): whatever calls,
\* errors, deaths and restarts there were, the engine knows of every run what the log would
\* tell a new process, and the state the store's table shows; a run whose resumption was
\* answered again under a key already used is the one exception.
THEOREM MemoryIsProjection == Spec => []IndexIsProjection
BY EngineMemory, MemoryProjects, PTL

-----------------------------------------------------------------------------
(* A card is for the next step of its run.                                 *)

\* One run's record becomes a in the memory and b in Past.
RunBecomes(r, a, b) ==
    /\ index'.runs[r] = a /\ Past'.runs[r] = b
    /\ index'.plans = index.plans /\ Past'.plans = Past.plans
    /\ \A q \in Runs : q # r => index'.runs[q] = index.runs[q] /\ Past'.runs[q] = Past.runs[q]

LogGrows(e) ==
    /\ log' \in Seq(EventType) /\ Len(log) \in Nat /\ Len(log') = Len(log) + 1
    /\ log'[Len(log) + 1] = e /\ \A n \in 1..Len(log) : log'[n] = log[n]

LEMMA OneRun ==
    ASSUME Memory, job.at \notin Starting \cup {"idle"},
           NEW e \in EventType, e.run = job.run,
           e.type \notin {"plan.frozen", "run.binding_recorded", "run.state_changed"},
           Write(e)
    PROVE  /\ LogGrows(e) /\ job.run \in Runs
           /\ RunBecomes(job.run, RecordAfter(Rec, e), RecordAfter(Past.runs[job.run], e))
<1>1. log' = Append(log, e) /\ index' = Apply(index, e)
  BY DEF Write
<1>2. /\ LogGrows(e) /\ job.run \in Runs
      /\ Past' = [Past EXCEPT !.runs[job.run] = RecordAfter(Past.runs[job.run], e)]
      /\ index' = [index EXCEPT !.runs[job.run] = RecordAfter(index.runs[job.run], e)]
  BY <1>1, WriteRun DEF LogGrows
<1>3. index \in IndexType /\ Past \in IndexType
  BY DEF Memory, Typed
<1>4. RunBecomes(job.run, RecordAfter(Rec, e), RecordAfter(Past.runs[job.run], e))
  BY <1>2, <1>3 DEF RunBecomes, IndexType, Rec
<1>5. QED
  BY <1>2, <1>4

Resolution(rec, c) == [rec EXCEPT !.pending = NoCard, !.resolved = @ \cup {c.id}]
Reduced(rec, s) == [rec EXCEPT !.remaining = WithoutStep(@, s)]
Waiting(rec, c) == [rec EXCEPT !.pending = c]

LEMMA CardWritten ==
    ASSUME Memory, job.at \notin Starting \cup {"idle"}, NEW type \in Resolving \cup {"run.waiting_approval"},
           Write(CardEvent(type, job.run, job.card))
    PROVE  /\ LogGrows(CardEvent(type, job.run, job.card)) /\ job.run \in Runs
           /\ type \in Resolving =>
                RunBecomes(job.run, Resolution(Rec, job.card),
                           Resolution(Past.runs[job.run], job.card))
           /\ type = "run.waiting_approval" =>
                RunBecomes(job.run, Waiting(Rec, job.card), Waiting(Past.runs[job.run], job.card))
<1> DEFINE e == CardEvent(type, job.run, job.card)
<1>1. job.run \in Runs /\ job.card \in CardType
  BY DEF Memory, Typed, Placed, JobType
<1>2. type \in EventNames
  BY DEF EventNames, Resolving
<1>3. e \in EventType /\ e.type = type /\ e.run = job.run /\ e.card = job.card
  BY <1>1, <1>2, EventsTyped DEF CardEvent, Event
<1>4. Write(e)
  OBVIOUS
<1> HIDE DEF e
<1>5. e.type \notin {"plan.frozen", "run.binding_recorded", "run.state_changed"}
  BY <1>3 DEF Resolving
<1>6. /\ LogGrows(e)
      /\ RunBecomes(job.run, RecordAfter(Rec, e), RecordAfter(Past.runs[job.run], e))
  BY <1>3, <1>4, <1>5, OneRun
<1>7. type \in Resolving => \A rec : RecordAfter(rec, e) = Resolution(rec, job.card)
  BY <1>3 DEF RecordAfter, Resolving, Resolution
<1>8. type = "run.waiting_approval" => \A rec : RecordAfter(rec, e) = Waiting(rec, job.card)
  BY <1>3 DEF RecordAfter, Waiting
<1>9. QED
  BY <1>1, <1>6, <1>7, <1>8 DEF e

LEMMA StepWritten ==
    ASSUME Memory, job.at \notin Starting \cup {"idle"}, NEW type \in Dropping,
           NEW s \in StepIds \cup {NoStep}, Write(StepEvent(type, job.run, s))
    PROVE  /\ LogGrows(StepEvent(type, job.run, s)) /\ job.run \in Runs
           /\ RunBecomes(job.run, Reduced(Rec, s), Reduced(Past.runs[job.run], s))
<1> DEFINE e == StepEvent(type, job.run, s)
<1>1. job.run \in Runs
  BY DEF Memory, Placed
<1>2. type \in EventNames
  BY DEF EventNames, Dropping
<1>3. e \in EventType /\ e.type = type /\ e.run = job.run /\ e.step = s
  BY <1>1, <1>2, EventsTyped DEF StepEvent, Event
<1>4. Write(e)
  OBVIOUS
<1> HIDE DEF e
<1>5. e.type \notin {"plan.frozen", "run.binding_recorded", "run.state_changed"}
  BY <1>3 DEF Dropping
<1>6. /\ LogGrows(e)
      /\ RunBecomes(job.run, RecordAfter(Rec, e), RecordAfter(Past.runs[job.run], e))
  BY <1>3, <1>4, <1>5, OneRun
<1>7. \A rec : RecordAfter(rec, e) = Reduced(rec, s)
  BY <1>3 DEF RecordAfter, Dropping, Reduced
<1>8. QED
  BY <1>1, <1>6, <1>7 DEF e

LEMMA MoveWritten ==
    ASSUME Memory, job.at \notin Starting \cup {"idle"}, NEW target \in States, Move(target)
    PROVE  /\ LogGrows(StateEvent(job.run, target)) /\ job.run \in Runs
           /\ RunBecomes(job.run, Moved(Rec, target), Moved(Past.runs[job.run], target))
<1>1. index \in IndexType /\ Past \in IndexType
  BY DEF Memory, Typed
<1>2. /\ LogGrows(StateEvent(job.run, target)) /\ job.run \in Runs
      /\ Past' = [Past EXCEPT !.runs[job.run] = Moved(Past.runs[job.run], target)]
      /\ index' = [index EXCEPT !.runs[job.run] = Moved(index.runs[job.run], target)]
  BY Moving DEF LogGrows
<1>3. RunBecomes(job.run, Moved(Rec, target), Moved(Past.runs[job.run], target))
  BY <1>1, <1>2 DEF RunBecomes, IndexType, Rec
<1>4. QED
  BY <1>2, <1>3

LEMMA RecordsTyped ==
    ASSUME Memory
    PROVE  /\ job \in JobType /\ cards \in Nat
           /\ \A r \in Runs : index.runs[r] \in RecordType /\ Past.runs[r] \in RecordType
BY DEF Memory, Typed, IndexType

\* What keeps the cards of a record.
LEMMA CardsKept ==
    ASSUME NEW rec \in RecordType, NEW n \in Nat, CardsFit(rec, n)
    PROVE  /\ CardsFit(rec, n + 1)
           /\ \A target \in States : CardsFit(Moved(rec, target), n)
           /\ \A c \in CardType : c.id \in 1..n => CardsFit(Resolution(rec, c), n)
           /\ \A s : rec.pending = NoCard => CardsFit(Reduced(rec, s), n)
           /\ \A c \in CardType :
                c.id \in 1..n /\ Asking(rec.remaining, c.step) /\ rec.state # "running" =>
                    CardsFit(Waiting(rec, c), n)
<1>1. CardsFit(rec, n + 1)
  BY DEF CardsFit
<1>2. \A target \in States : CardsFit(Moved(rec, target), n)
  BY DEF CardsFit, Moved, RecordType
<1>3. \A c \in CardType : c.id \in 1..n => CardsFit(Resolution(rec, c), n)
  BY DEF CardsFit, Resolution, RecordType
<1>4. \A s : rec.pending = NoCard => CardsFit(Reduced(rec, s), n)
  BY DEF CardsFit, Reduced, RecordType
<1>5. \A c \in CardType :
        c.id \in 1..n /\ Asking(rec.remaining, c.step) /\ rec.state # "running" =>
            CardsFit(Waiting(rec, c), n)
  BY DEF CardsFit, Waiting, RecordType
<1>6. QED
  BY <1>1, <1>2, <1>3, <1>4, <1>5

\* Where a card, or the lack of one, matters to the call.
CardPlaces == {"wait", "approved", "refused", "block", "prohibit"} \cup Decisions \cup Running

LEMMA CardedElsewhere ==
    ASSUME \A r \in Runs : CardsFit(Past'.runs[r], cards'), expired' \subseteq 1..cards',
           job'.at \notin CardPlaces
    PROVE  Carded'
BY DEF Carded, CardPlaces, Decisions, Running

LEMMA OneRunFits ==
    ASSUME Carded, NEW a, NEW b, NEW r \in Runs, RunBecomes(r, a, b), CardsFit(b, cards),
           cards' = cards, expired' = expired
    PROVE  (\A q \in Runs : CardsFit(Past'.runs[q], cards')) /\ expired' \subseteq 1..cards'
<1>1. \A q \in Runs : CardsFit(Past'.runs[q], cards)
  BY DEF Carded, RunBecomes
<1>2. QED
  BY <1>1 DEF Carded

\* The steps that leave Past as it is.
LEMMA CardedPastKept ==
    ASSUME Memory, Carded, Past' = Past, cards' = cards, expired' = expired
    PROVE  (\A q \in Runs : CardsFit(Past'.runs[q], cards')) /\ expired' \subseteq 1..cards'
BY DEF Carded

LEMMA JobGoes ==
    ASSUME Memory
    PROVE  /\ Return => job'.at = "idle"
           /\ \A p : Go(p) =>
                /\ job'.at = p /\ job'.run = job.run /\ job'.card = job.card
                /\ job'.key = job.key /\ job'.passed = job.passed /\ job'.check = job.check
BY DEF Memory, Typed, JobType, Go, Return, Idle

LEMMA CardedFixed ==
    ASSUME Memory, Carded,
           Baseline \/ Lineage \/ Pause \/ Steer \/ Revalidate \/ Propagate \/ Intent
              \/ Result \/ Checked \/ Verdict
    PROVE  Carded'
<1>1. Steady /\ job.run \in Runs /\ cards' = cards /\ expired' = expired
  BY FixedSteps DEF Baseline, Lineage, Pause, Steer, Note, Revalidate, Propagate, Intent, Result,
                    Checked, Verdict, Quiet
<1>2. (\A q \in Runs : CardsFit(Past'.runs[q], cards')) /\ expired' \subseteq 1..cards'
  BY <1>1, CardedPastKept DEF Steady
<1>3. CASE Intent \/ Result
  <2>1. job.at \in Running /\ job'.at \in {"result", "completed"} /\ job'.run = job.run
    BY <1>3, JobGoes DEF Intent, Result, At, Running
  <2>2. Past'.runs[job'.run].pending = NoCard
    BY <1>1, <2>1 DEF Carded, Steady
  <2>3. QED
    BY <1>2, <2>1, <2>2 DEF Carded, Decisions
<1>4. CASE Baseline \/ Lineage \/ Pause \/ Steer \/ Revalidate \/ Propagate \/ Checked \/ Verdict
  <2>1. job'.at \in {"lineage", "go", "idle", "cancel", "finish", "verify"}
    <3>1. CASE Checked
      BY <3>1, NextCheckTyped DEF Checked
    <3>2. CASE ~Checked
      BY <1>4, <3>2, JobGoes
         DEF Baseline, Lineage, Pause, Steer, Note, Revalidate, Propagate, Verdict
    <3>3. QED
      BY <3>1, <3>2
  <2>2. QED
    BY <1>2, <2>1, CardedElsewhere DEF CardPlaces, Decisions, Running
<1>5. QED
  BY <1>3, <1>4

LEMMA CardedRecord ==
    ASSUME Memory, Carded,
           Approve \/ Refuse \/ Mumble \/ Refused \/ Prohibit \/ Completed \/ Wait
    PROVE  Carded'
<1>1. cards' = cards /\ expired' = expired
  BY DEF Approve, Refuse, Mumble, Resolve, Refused, Prohibit, Completed, Wait, Quiet
<1>2. job.at \notin Starting \cup {"idle"}
  BY DEF Approve, Refuse, Mumble, Resolve, Refused, Prohibit, Completed, Wait, At, Starting
<1>3. /\ job.run \in Runs /\ cards \in Nat /\ job.card \in CardType
      /\ Past.runs[job.run] \in RecordType /\ Rec \in RecordType
      /\ CardsFit(Past.runs[job.run], cards)
  BY <1>2, RecordsTyped DEF Memory, Placed, Carded, JobType, Rec
<1> DEFINE p == Past.runs[job.run]
<1>4. CASE Approve \/ Refuse \/ Mumble
  <2>1. PICK type \in Resolving : Write(CardEvent(type, job.run, job.card))
    BY <1>4 DEF Approve, Refuse, Mumble, Resolve, Resolving
  <2>2. RunBecomes(job.run, Resolution(Rec, job.card), Resolution(p, job.card))
    BY <1>2, <2>1, CardWritten
  <2>3. job.at \in Decisions /\ Faithful(job.run)
    BY <1>4 DEF Approve, Refuse, Mumble, Resolve, At, Decisions, Memory, Placed
  <2>4. /\ job.card = p.pending /\ job.card # NoCard
        /\ Rec.remaining = p.remaining
    BY <2>3 DEF Carded, Faithful, Same, Rec
  <2>5. job.card.id \in 1..cards /\ Asking(Rec.remaining, job.card.step)
    BY <1>3, <2>4 DEF CardsFit
  <2>6. CardsFit(Resolution(p, job.card), cards)
    BY <1>3, <2>5, CardsKept
  <2>7. (\A q \in Runs : CardsFit(Past'.runs[q], cards')) /\ expired' \subseteq 1..cards'
    BY <1>1, <1>3, <2>2, <2>6, OneRunFits
  <2>8. index'.runs[job.run].pending = NoCard /\ index'.runs[job.run].remaining = Rec.remaining
    BY <1>3, <2>2 DEF RunBecomes, Resolution, RecordType
  <2>9. \/ job'.at = "idle"
        \/ job'.at \in {"approved", "refused"} /\ job'.run = job.run /\ job'.card = job.card
    BY <1>4, JobGoes DEF Approve, Refuse, Mumble, Resolve
  <2>10. QED
    BY <2>5, <2>7, <2>8, <2>9 DEF Carded, Decisions, Running, Rec
<1>5. CASE Wait
  <2>1. RunBecomes(job.run, Waiting(Rec, job.card), Waiting(p, job.card))
    BY <1>2, <1>5, CardWritten DEF Wait
  <2>2. Faithful(job.run) /\ job.at = "wait"
    BY <1>5 DEF Wait, At, Memory, Placed
  <2>3. /\ p.state = "blocked" /\ job.card.id \in 1..cards
        /\ Asking(p.remaining, job.card.step)
    BY <2>2 DEF Carded, Faithful, Same, Rec
  <2>4. CardsFit(Waiting(p, job.card), cards)
    BY <1>3, <2>3, CardsKept
  <2>5. (\A q \in Runs : CardsFit(Past'.runs[q], cards')) /\ expired' \subseteq 1..cards'
    BY <1>1, <1>3, <2>1, <2>4, OneRunFits
  <2>6. job'.at = "idle"
    BY <1>5, JobGoes DEF Wait
  <2>7. QED
    BY <2>5, <2>6, CardedElsewhere DEF CardPlaces, Decisions, Running
<1>6. CASE Refused \/ Prohibit \/ Completed
  <2>1. PICK type \in Dropping, s \in StepIds \cup {NoStep} :
            Write(StepEvent(type, job.run, s))
    <3>1. CASE Refused
      BY <1>3, <3>1 DEF Refused, Dropping, CardType
    <3>2. CASE Prohibit \/ Completed
      BY <3>2, NextTyped DEF Prohibit, Completed, Dropping, At, Running, StepType
    <3>3. QED
      BY <1>6, <3>1, <3>2
  <2>2. RunBecomes(job.run, Reduced(Rec, s), Reduced(p, s))
    BY <1>2, <2>1, StepWritten
  <2>3. p.pending = NoCard
    <3>1. CASE Refused
      BY <3>1 DEF Refused, At, Carded, Memory, Placed, Faithful, Rec
    <3>2. CASE Prohibit \/ Completed
      BY <3>2 DEF Prohibit, Completed, At, Carded, Running
    <3>3. QED
      BY <1>6, <3>1, <3>2
  <2>4. CardsFit(Reduced(p, s), cards)
    BY <1>3, <2>3, CardsKept
  <2>5. (\A q \in Runs : CardsFit(Past'.runs[q], cards')) /\ expired' \subseteq 1..cards'
    BY <1>1, <1>3, <2>2, <2>4, OneRunFits
  <2>6. job'.at \in {"go", "pending"}
    BY <1>6, JobGoes DEF Refused, Prohibit, Completed
  <2>7. QED
    BY <2>5, <2>6, CardedElsewhere DEF CardPlaces, Decisions, Running
<1>7. QED
  BY <1>4, <1>5, <1>6

LEMMA CardedMove ==
    ASSUME Memory, Carded, GoOn \/ Cancel \/ Approved \/ Block \/ Finish
    PROVE  Carded'
<1>1. job.at \notin Starting \cup {"idle"}
  BY DEF GoOn, Cancel, Approved, Block, Finish, At, Starting
<1>2. PICK target \in States :
        /\ Move(target)
        /\ Approved => target = "running"
        /\ Block => target = "blocked"
  <2>1. CASE GoOn \/ Approved
    BY <2>1 DEF GoOn, Approved, Block, At, States
  <2>2. CASE Cancel
    BY <2>2 DEF Cancel, States, Terminal, Approved, Block, At
  <2>3. CASE Block
    BY <2>3 DEF Block, States, Terminal, Approved, At
  <2>4. CASE Finish
    BY <2>4 DEF Finish, States, Terminal, Approved, Block, At
  <2>5. QED
    BY <2>1, <2>2, <2>3, <2>4
<1> DEFINE p == Past.runs[job.run]
<1>3. RunBecomes(job.run, Moved(Rec, target), Moved(p, target)) /\ job.run \in Runs
  BY <1>1, <1>2, MoveWritten
<1>4. cards \in Nat /\ p \in RecordType /\ Rec \in RecordType /\ CardsFit(p, cards)
  BY <1>3, RecordsTyped DEF Carded, Rec
<1>5. CardsFit(Moved(p, target), cards)
  BY <1>4, CardsKept
<1>6. CASE Block
  <2>1. cards' = cards + 1 /\ expired' = expired
    BY <1>6 DEF Block
  <2>2. \A q \in Runs : CardsFit(Past'.runs[q], cards)
    BY <1>3, <1>5 DEF RunBecomes, Carded
  <2>3. \A q \in Runs : Past'.runs[q] \in RecordType
    BY <1>6, MoveSteps, RecordsTyped DEF Memory, Typed, IndexType
  <2>4. \A q \in Runs : CardsFit(Past'.runs[q], cards')
    BY <1>4, <2>1, <2>2, <2>3, CardsKept
  <2>5. expired' \subseteq 1..cards'
    BY <1>4, <2>1 DEF Carded
  <2>6. job' = [job EXCEPT !.at = "wait", !.card = [id |-> cards + 1, step |-> Next1.id]]
    BY <1>6 DEF Block
  <2>7. /\ job'.at = "wait" /\ job'.run = job.run
        /\ job'.card.id = cards + 1 /\ job'.card.step = Next1.id
    BY <2>6, RecordsTyped DEF JobType
  <2>8. Rec.remaining # <<>> /\ Classify(Next1.kind) = "needs_approval"
    BY <1>6 DEF Block, At, Memory, Placed, Carded
  <2>9. index'.runs[job.run].state = "blocked" /\ index'.runs[job.run].remaining = Rec.remaining
    BY <1>2, <1>3, <1>4, <1>6 DEF RunBecomes, Moved, RecordType
  <2>10. Asking(Rec.remaining, Next1.id)
    BY <2>8 DEF Asking, Next1
  <2>11. cards + 1 \in 1..cards'
    BY <1>4, <2>1
  <2>12. QED
    BY <2>4, <2>5, <2>7, <2>9, <2>10, <2>11 DEF Carded, Decisions, Running, Rec
<1>7. CASE GoOn \/ Cancel \/ Approved \/ Finish
  <2>1. cards' = cards /\ expired' = expired
    BY <1>7 DEF GoOn, Cancel, Approved, Finish, Quiet
  <2>2. (\A q \in Runs : CardsFit(Past'.runs[q], cards')) /\ expired' \subseteq 1..cards'
    BY <1>3, <1>5, <2>1, OneRunFits
  <2>3. CASE Approved
    <3>1. job'.at = "perform" /\ job'.run = job.run
      BY <2>3, JobGoes DEF Approved
    <3>2. Past'.runs[job.run].pending = NoCard
      BY <1>2, <1>3, <1>4, <2>3 DEF RunBecomes, Moved, RecordType
    <3>3. QED
      BY <2>2, <3>1, <3>2 DEF Carded, Decisions
  <2>4. CASE GoOn \/ Cancel \/ Finish
    <3>1. job'.at \in {"pending", "idle"}
      BY <2>4, JobGoes DEF GoOn, Cancel, Finish
    <3>2. QED
      BY <2>2, <3>1, CardedElsewhere DEF CardPlaces, Decisions, Running
  <2>5. QED
    BY <1>7, <2>3, <2>4
<1>8. QED
  BY <1>6, <1>7

LEMMA CardedSilent ==
    ASSUME Memory, Carded,
           Pending \/ Perform \/ Verify \/ CheckedAgain \/ StepFails \/ StepRefused \/ \E r \in Runs : Expire(r)
    PROVE  Carded'
<1>1. UNCHANGED <<log, stored, index, up>> /\ Past' = Past /\ cards' = cards
  BY DEF Pending, Perform, Verify, CheckedAgain, StepFails, StepRefused, Expire, Quiet, At, durable, Past
<1>2. expired' \subseteq 1..cards'
  <2>1. CASE \E r \in Runs : Expire(r)
    <3>1. PICK r \in Runs : Expire(r)
      BY <2>1
    <3>2. /\ up /\ index.runs[r].pending # NoCard
          /\ expired' = expired \cup {index.runs[r].pending.id}
      BY <3>1 DEF Expire
    <3>3. index.runs[r].pending = Past.runs[r].pending
      BY <3>2 DEF Memory, Projection, Faithful, Diverged
    <3>4. index.runs[r].pending.id \in 1..cards
      BY <3>2, <3>3 DEF Carded, CardsFit
    <3>5. QED
      BY <1>1, <3>2, <3>4 DEF Carded
  <2>2. CASE Pending \/ Perform \/ Verify \/ CheckedAgain \/ StepFails \/ StepRefused
    BY <1>1, <2>2 DEF Pending, Perform, Verify, CheckedAgain, StepFails, StepRefused, Quiet, Carded
  <2>3. QED
    BY <2>1, <2>2
<1>3. \A q \in Runs : CardsFit(Past'.runs[q], cards')
  BY <1>1 DEF Carded
<1>4. CASE \/ StepFails \/ StepRefused \/ Verify \/ CheckedAgain
           \/ Pending /\ job'.at \in {"idle", "verify"}
  <2>1. job'.at \in {"idle", "verify", "passes", "fails"}
    BY <1>4, JobGoes, NextCheckTyped DEF StepFails, StepRefused, Verify, CheckedAgain
  <2>2. QED
    BY <1>2, <1>3, <2>1, CardedElsewhere DEF CardPlaces, Decisions, Running
<1>5. CASE \E r \in Runs : Expire(r)
  <2>1. job' = job
    BY <1>5 DEF Expire
  <2>2. QED
    BY <1>1, <1>2, <1>3, <2>1 DEF Carded, Rec, Next1
<1>6. CASE Perform
  <2>1. job.at = "perform" /\ job'.at = "intent" /\ job'.run = job.run
    BY <1>6, JobGoes DEF Perform, At
  <2>2. Past'.runs[job'.run].pending = NoCard
    BY <1>1, <2>1 DEF Carded, Running
  <2>3. QED
    BY <1>2, <1>3, <2>1, <2>2 DEF Carded, Decisions
<1>7. CASE Pending /\ job'.at \notin {"idle", "verify"}
  <2>1. /\ up /\ Rec.remaining # <<>> /\ job'.run = job.run
        /\ \/ job'.at = "prohibit" /\ Classify(Next1.kind) = "denied"
           \/ job'.at = "perform" /\ Classify(Next1.kind) = "allowed"
           \/ /\ job'.at = "block" /\ Classify(Next1.kind) \notin {"denied", "allowed"}
    BY <1>7, JobGoes DEF Pending, At
  <2>2. Classify(Next1.kind) \in {"denied", "allowed", "needs_approval"}
    BY DEF Classify
  <2>3. job.run \in Runs
    BY <1>7 DEF Pending, At, Memory, Placed
  <2>4. Rec.remaining = Past.runs[job.run].remaining
    BY <2>1, <2>3 DEF Memory, Projection, Faithful, Diverged, Same, Rec
  <2>5. job'.at \in {"prohibit", "perform"} => Past.runs[job.run].pending = NoCard
    BY <2>1, <2>3, <2>4 DEF Carded, CardsFit, Asking, Next1
  <2>6. QED
    BY <1>1, <1>2, <1>3, <2>1, <2>2, <2>5 DEF Carded, Decisions, Running, Rec, Next1
<1>8. QED
  BY <1>4, <1>5, <1>6, <1>7

LEMMA CardedCalls ==
    ASSUME Memory, Carded,
           \/ \E r \in Runs : Asked(r)
           \/ \E plan \in Plans : FreezePlan(plan)
           \/ (\E v \in 1..MaxPlans : StartRun(v)) \/ (\E r \in Runs : ForkRun(r))
    PROVE  Carded'
<1>1. cards' = cards /\ expired' = expired
  BY DEF Asked, PauseRun, SteerRun, ResumeRun, CancelRun, ResolveApproval, Enter, EnterWith,
         FreezePlan, StartRun, ForkRun, Begin
<1>2. CASE \E r \in Runs : Asked(r)
  <2>1. PICK r \in Runs : Asked(r)
    BY <1>2
  <2>2. UNCHANGED <<log, index>> /\ Past' = Past
    BY <2>1 DEF Asked, PauseRun, SteerRun, ResumeRun, CancelRun, ResolveApproval, Enter,
                EnterWith, durable, Past
  <2>3. (\A q \in Runs : CardsFit(Past'.runs[q], cards')) /\ expired' \subseteq 1..cards'
    BY <1>1, <2>2, CardedPastKept
  <2>4. PICK p, key : /\ job' = [Idle EXCEPT !.at = p, !.run = r, !.card = index.runs[r].pending,
                                             !.key = key]
                      /\ \/ p \in {"pause", "steer", "revalidate", "propagate"}
                         \/ p \in Decisions /\ index.runs[r].pending # NoCard
    <3>1. PauseRun(r) \/ SteerRun(r) \/ CancelRun(r) \/ ResumeRun(r)
            => \E p \in {"pause", "steer", "revalidate", "propagate"} : \E key : EnterWith(r, p, key)
      BY DEF PauseRun, SteerRun, ResumeRun, CancelRun, Enter
    <3>2. (\E d \in {"approve", "deny", "mumble"} : ResolveApproval(r, d))
            => \E p \in Decisions : \E key : EnterWith(r, p, key) /\ index.runs[r].pending # NoCard
      BY DEF ResolveApproval, CardUsable, Enter, Decisions
    <3>3. QED
      BY <2>1, <3>1, <3>2 DEF Asked, EnterWith
  <2>5. job'.at = p /\ job'.run = r /\ job'.card = index.runs[r].pending
    BY <2>4 DEF Idle
  <2>6. QED
    BY <2>2, <2>3, <2>4, <2>5 DEF Carded, Decisions, Running, Rec
<1>3. CASE \E plan \in Plans : FreezePlan(plan)
  <2>1. PICK plan \in Plans : FreezePlan(plan)
    BY <1>3
  <2>2. Past' = [Past EXCEPT !.plans = Append(Past.plans, plan)]
    BY <2>1, FreezePlanStep
  <2>3. Past'.runs = Past.runs
    BY <2>2 DEF Memory, Typed, IndexType
  <2>4. (\A q \in Runs : CardsFit(Past'.runs[q], cards')) /\ expired' \subseteq 1..cards'
    BY <1>1, <2>3 DEF Carded
  <2>5. job'.at = "idle"
    BY <2>1 DEF FreezePlan, Uncounted, Idle
  <2>6. QED
    BY <2>4, <2>5, CardedElsewhere DEF CardPlaces, Decisions, Running
<1>4. CASE (\E v \in 1..MaxPlans : StartRun(v)) \/ (\E r \in Runs : ForkRun(r))
  <2>1. Past' = Past
    BY <1>4, StartSteps
  <2>2. (\A q \in Runs : CardsFit(Past'.runs[q], cards')) /\ expired' \subseteq 1..cards'
    BY <1>1, <2>1, CardedPastKept
  <2>3. job'.at = "create"
    BY <1>4 DEF StartRun, ForkRun, Begin, Idle
  <2>4. QED
    BY <2>2, <2>3, CardedElsewhere DEF CardPlaces, Decisions, Running
<1>5. QED
  BY <1>2, <1>3, <1>4

LEMMA CardedOther ==
    ASSUME Memory, Carded, Create \/ Bind \/ GoOnReplayed \/ Die \/ Restart \/ UNCHANGED vars
    PROVE  Carded'
<1>1. cards' = cards /\ expired' = expired
  BY DEF Create, Bind, GoOnReplayed, Die, Restart, Quiet, vars
<1>2. CASE Bind
  <2>1. /\ job.run \in Runs
        /\ Past' = [Past EXCEPT !.runs[job.run] = Bound("", Past.plans[job.version].steps, job.version)]
    BY <1>2, BindStep
  <2>2. CardsFit(Bound("", Past.plans[job.version].steps, job.version), cards)
    <3>1. \A w, q, v : LET rec == Bound(w, q, v) IN
            rec.pending = NoCard /\ rec.state = "queued" /\ rec.resolved = {}
      BY BoundFields
    <3>2. QED
      BY <3>1 DEF CardsFit
  <2>3. \A q \in Runs : CardsFit(Past'.runs[q], cards)
    BY <2>1, <2>2 DEF Memory, Typed, IndexType, Carded
  <2>4. job'.at = "baseline"
    BY <1>2, JobGoes DEF Bind
  <2>5. QED
    BY <1>1, <2>3, <2>4, CardedElsewhere DEF CardPlaces, Decisions, Running, Carded
<1>3. CASE Create \/ GoOnReplayed \/ Die \/ Restart
  <2>1. Past' = Past
    BY <1>3, CreateStep, GoOnReplayedStep, DieStep, RestartStep
  <2>2. (\A q \in Runs : CardsFit(Past'.runs[q], cards')) /\ expired' \subseteq 1..cards'
    BY <1>1, <2>1, CardedPastKept
  <2>3. job'.at \in {"bind", "pending", "idle"}
    <3>1. CASE Create \/ GoOnReplayed \/ Die
      BY <3>1, JobGoes DEF Create, GoOnReplayed, Die
    <3>2. CASE Restart
      BY <3>2, RestartStep DEF Idle
    <3>3. QED
      BY <1>3, <3>1, <3>2
  <2>4. QED
    BY <2>2, <2>3, CardedElsewhere DEF CardPlaces, Decisions, Running
<1>4. CASE UNCHANGED vars
  <2>1. Past' = Past /\ index' = index /\ job' = job
    BY <1>4, MemoryStutters DEF vars
  <2>2. QED
    BY <1>1, <2>1 DEF Carded, Rec, Next1
<1>5. QED
  BY <1>2, <1>3, <1>4

LEMMA CardedStep ==
    ASSUME Memory, Carded, [Next]_vars
    PROVE  Carded'
BY StepKinds, CardedFixed, CardedRecord, CardedMove, CardedSilent, CardedCalls, CardedOther, Zenon

LEMMA InitCarded ==
    ASSUME Init
    PROVE  Carded
<1>1. Past = EmptyIndex /\ job.at = "idle" /\ cards = 0 /\ expired = {}
  BY InitMemory DEF Init, Idle
<1>2. Unknown.pending = NoCard /\ Unknown.state = "absent" /\ Unknown.resolved = {}
  BY DEF Unknown
<1>3. \A r \in Runs : CardsFit(Past.runs[r], cards)
  BY <1>1, <1>2, EmptyTyped DEF CardsFit
<1>4. QED
  BY <1>1, <1>3 DEF Carded, Decisions, Running

\* A process that is down remembers nothing.
Down == ~up => index = EmptyIndex

LEMMA DownStep ==
    ASSUME Down, [Next]_vars
    PROVE  Down'
<1>1. CASE Restart
  BY <1>1 DEF Restart, Down
<1>2. CASE Die
  BY <1>2 DEF Die, Down
<1>3. CASE UNCHANGED vars
  BY <1>3 DEF vars, Down
<1>4. CASE Calls \/ Step \/ StepFails \/ \E r \in Runs : Expire(r)
  <2>1. up'
    <3>1. CASE Calls
      <4>1. CASE (\E plan \in Plans : FreezePlan(plan)) \/ \E v \in 1..MaxPlans : StartRun(v)
        <5>1. (\E plan \in Plans : FreezePlan(plan)) => up'
          BY DEF FreezePlan, Uncounted
        <5>2. (\E v \in 1..MaxPlans : StartRun(v)) => up'
          BY DEF StartRun, Begin, Call
        <5>3. QED
          BY <4>1, <5>1, <5>2
      <4>2. CASE \E r \in Runs : ForkRun(r) \/ PauseRun(r) \/ SteerRun(r) \/ CancelRun(r)
        BY <4>2 DEF ForkRun, Begin, PauseRun, SteerRun, CancelRun, Call, Enter, EnterWith
      <4>3. CASE \E r \in Runs : ResumeRun(r) \/ \E d \in {"approve", "deny", "mumble"} :
                    ResolveApproval(r, d)
        BY <4>3 DEF ResumeRun, ResolveApproval, Call, Uncounted, Enter, EnterWith
      <4>4. QED
        BY <3>1, <4>1, <4>2, <4>3, Zenon DEF Calls
    <3>2. CASE Step
      <4>1. CASE Create \/ Bind \/ Baseline \/ Lineage \/ GoOn \/ GoOnReplayed \/ Pause \/ Steer
        BY <4>1 DEF Create, Bind, Baseline, Lineage, GoOn, GoOnReplayed, Pause, Steer, Note, At,
                    Quiet
      <4>2. CASE Revalidate \/ Propagate \/ Cancel \/ Approve \/ Refuse \/ Mumble \/ Refused
        BY <4>2 DEF Revalidate, Propagate, Cancel, Approve, Refuse, Mumble, Resolve, Refused, At,
                    Quiet
      <4>3. CASE Approved \/ Pending \/ Prohibit \/ Perform \/ Intent \/ Result \/ Completed
        BY <4>3 DEF Approved, Pending, Prohibit, Perform, Intent, Result, Completed, At, Quiet
      <4>4. CASE Block \/ Wait \/ Verify \/ Checked \/ CheckedAgain \/ Verdict \/ Finish
        <5>1. Block => up'
          BY DEF Block, At
        <5>2. Wait => up'
          BY DEF Wait, At, Quiet
        <5>3. (Verify => up') /\ (Checked => up') /\ (CheckedAgain => up') /\ (Verdict => up')
          BY DEF Verify, Checked, CheckedAgain, Verdict, At, Quiet
        <5>4. Finish => up'
          BY DEF Finish, At, Quiet
        <5>5. QED
          BY <4>4, <5>1, <5>2, <5>3, <5>4
      <4>5. CASE StepRefused
        BY <4>5 DEF StepRefused, Quiet
      <4>6. QED
        BY <3>2, <4>1, <4>2, <4>3, <4>4, <4>5, Zenon DEF Step
    <3>3. CASE StepFails \/ \E r \in Runs : Expire(r)
      BY <3>3 DEF StepFails, Expire
    <3>4. QED
      BY <1>4, <3>1, <3>2, <3>3
  <2>2. QED
    BY <2>1 DEF Down
<1>5. QED
  BY <1>1, <1>2, <1>3, <1>4 DEF Next

\* With the engine's memory, what is known of its cards.
Steered == Memory /\ Carded /\ Down

LEMMA EngineSteered == Spec => []Steered
<1>1. Init => Steered
  BY InitMemory, InitCarded DEF Steered, Init, Down
<1>2. Steered /\ [Next]_vars => Steered'
  BY MemoryStep, CardedStep, DownStep DEF Steered
<1>3. QED
  BY <1>1, <1>2, PTL DEF Spec

\* The records of the memory, whether the process is up or down.
LEMMA MemoryOfRun ==
    ASSUME Steered, NEW r \in Runs
    PROVE  \/ Faithful(r) \/ Diverged(r)
           \/ index.runs[r] = Unknown
BY EmptyTyped DEF Steered, Memory, Projection, Down

LEMMA SteeredTypes == Steered => TypeOK
<1> SUFFICES ASSUME Steered PROVE TypeOK
  OBVIOUS
<1>1. Typed /\ Placed /\ Carded
  BY DEF Steered, Memory
<1>2. \A i \in 1..Len(log) : log[i].run \in Runs \cup {NoRun}
  <2>1. log \in Seq(EventType)
    BY <1>1 DEF Typed
  <2>2. \A i \in 1..Len(log) : log[i] \in EventType
    BY <2>1
  <2>3. QED
    BY <2>2 DEF EventType
<1>3. index \in IndexType /\ index.plans \in Seq(Plans)
  BY <1>1 DEF Typed, IndexType
<1>4. ASSUME NEW r \in Runs
      PROVE  /\ index.runs[r].state \in States \cup {"absent"}
             /\ index.runs[r].version \in 0..MaxPlans
             /\ index.runs[r].resolved \subseteq 1..cards
  <2>1. index.runs[r] \in RecordType
    BY <1>3 DEF IndexType
  <2>2. Unknown.resolved = {}
    BY DEF Unknown
  <2>3. index.runs[r].resolved \subseteq 1..cards
    BY <1>1, <2>2, MemoryOfRun DEF Carded, CardsFit, Faithful, Diverged, Same
  <2>4. QED
    BY <2>1, <2>3 DEF RecordType
<1>5. job.run \in Runs \cup {NoRun} /\ (~up => job = Idle)
  BY <1>1 DEF Typed, JobType, Placed
<1>6. QED
  BY <1>1, <1>2, <1>3, <1>4, <1>5 DEF TypeOK, Typed, Carded

\* The engine's log, table, memory, cards and call keep their types: no card resolved or
\* expired that was not issued, and no call under way in a process that is down.
THEOREM EngineTypes == Spec => []TypeOK
BY EngineSteered, SteeredTypes, PTL

LEMMA SteeredCards == Steered => CardIsForNextStep
<1> SUFFICES ASSUME Steered, NEW r \in Runs, index.runs[r].state = "blocked",
                    index.runs[r].pending # NoCard
             PROVE  /\ index.runs[r].remaining # <<>>
                    /\ Head(index.runs[r].remaining).id = index.runs[r].pending.step
  BY DEF CardIsForNextStep
<1>1. Unknown.pending = NoCard
  BY DEF Unknown
<1>2. Faithful(r)
  BY <1>1, MemoryOfRun DEF Diverged
<1>3. Asking(index.runs[r].remaining, index.runs[r].pending.step)
  BY <1>2 DEF Steered, Carded, CardsFit, Faithful, Same
<1>4. QED
  BY <1>3 DEF Asking

\* resolve_approval (run_engine.rs:733) executes the step a card names only if it is the
\* next one: it always is, so an approval is never turned away for a plan that moved on.
THEOREM CardsAreForNextStep == Spec => []CardIsForNextStep
BY EngineSteered, SteeredCards, PTL

-----------------------------------------------------------------------------
(* An effect happens once.                                                 *)

LEMMA DoneKept ==
    ASSUME performed' = performed, NEW r
    PROVE  /\ Done(r)' = Done(r) /\ (PerformedOnce' <=> PerformedOnce)
           /\ Past'.runs[r].remaining = Past.runs[r].remaining => (Clean(r)' <=> Clean(r))
BY DEF Done, Clean, PerformedOnce

\* A run whose record does not change, in Past or in what the memory shows of it.
LEMMA BehindKept ==
    ASSUME performed' = performed, NEW r, Behind(r),
           Past'.runs[r].state = Past.runs[r].state,
           Past'.runs[r].remaining = Past.runs[r].remaining,
           Past'.runs[r].pending = Past.runs[r].pending,
           up' = up,
           /\ index'.runs[r].workspace = index.runs[r].workspace
           /\ index'.runs[r].state = index.runs[r].state
    PROVE  Behind(r)'
BY DoneKept DEF Behind

LEMMA BehindClean ==
    ASSUME performed' = performed, NEW r, Clean(r),
           Past'.runs[r].state = "absent" => Past.runs[r].state = "absent", Behind(r),
           Ids(Past'.runs[r].remaining) \subseteq Ids(Past.runs[r].remaining)
    PROVE  Behind(r)' /\ Clean(r)'
<1>1. Done(r)' = Done(r)
  BY DoneKept
<1>2. QED
  BY <1>1 DEF Behind, Clean

OncePlaces == CleanPlaces \cup {"go", "revalidate", "intent", "result", "completed"}

LEMMA OnceElsewhere ==
    ASSUME PerformedOnce', \A r \in Runs : Behind(r)', job'.at \notin OncePlaces
    PROVE  Once'
BY DEF Once, OncePlaces

LEMMA OnceClean ==
    ASSUME PerformedOnce', \A r \in Runs : Behind(r)',
           job'.at \in CleanPlaces \cup {"go", "idle"}, NEW r, job'.run = r, Clean(r)'
    PROVE  Once'
<1>1. Clean(job.run)'
  BY DEF Clean, Done
<1>2. job'.at \notin {"revalidate", "intent", "result", "completed"}
  BY DEF CleanPlaces, Starting
<1>3. QED
  BY <1>1, <1>2 DEF Once

LEMMA OnceFixed ==
    ASSUME Memory, Once,
           Baseline \/ Lineage \/ Pause \/ Steer \/ Revalidate \/ Propagate \/ Intent
              \/ Result \/ Checked \/ Verdict
    PROVE  Once'
<1>1. Steady /\ job.run \in Runs
  BY FixedSteps
<1>2. PerformedOnce' /\ \A r \in Runs : Behind(r)'
  BY <1>1, DoneKept, BehindKept DEF Steady, Once
<1>3. /\ Clean(job.run) => \A r \in Runs : r = job.run => Clean(r)'
      /\ \A r \in Runs : Done(r)' = Done(r)
  BY <1>1, DoneKept DEF Steady
<1>4. CASE Pause \/ Steer \/ Propagate
  <2>1. job'.at \in {"idle", "cancel"}
    BY <1>4, JobGoes DEF Pause, Steer, Note, Propagate
  <2>2. QED
    BY <1>2, <2>1, OnceElsewhere DEF OncePlaces, CleanPlaces, Starting
<1>5. CASE Baseline \/ Lineage \/ Checked \/ Verdict
  <2>1. Clean(job.run)
    BY <1>5 DEF Baseline, Lineage, Checked, Verdict, At, Once, CleanPlaces
  <2>2. job'.at \in {"lineage", "go", "verify", "finish"} /\ job'.run = job.run
    <3>1. CASE Checked
      BY <3>1, NextCheckTyped DEF Checked
    <3>2. CASE Baseline \/ Lineage
      BY <3>2, JobGoes DEF Baseline, Lineage
    <3>3. CASE Verdict
      BY <3>3, JobGoes DEF Verdict
    <3>4. QED
      BY <1>5, <3>1, <3>2, <3>3
  <2>3. QED
    BY <1>1, <1>2, <1>3, <2>1, <2>2, OnceClean DEF CleanPlaces
<1>6. CASE Revalidate
  <2>1. /\ job'.at = "go" /\ job'.run = job.run
        /\ Clean(job.run) \/ Rec.workspace # "ws"
    BY <1>6, JobGoes DEF Revalidate, At, Once
  <2>2. Clean(job.run)' <=> Clean(job.run)
    BY <1>1, <2>1 DEF Steady, Clean, Done
  <2>3. Rec' = Rec
    BY <1>1, <2>1 DEF Steady, Rec
  <2>4. QED
    BY <1>2, <2>1, <2>2, <2>3 DEF Once, CleanPlaces, Starting
<1>7. CASE Intent \/ Result
  <2>1. /\ job.at \in {"intent", "result"} /\ job'.at \in {"result", "completed"}
        /\ job'.run = job.run
    BY <1>7, JobGoes DEF Intent, Result, At
  <2>2. Rec' = Rec /\ Next1' = Next1 /\ Done(job.run)' = Done(job.run)
    BY <1>1, <2>1 DEF Steady, Rec, Next1, Done
  <2>3. QED
    BY <1>2, <2>1, <2>2 DEF Once, CleanPlaces, Starting
<1>8. QED
  BY <1>4, <1>5, <1>6, <1>7

LEMMA OnceRecord ==
    ASSUME Memory, Carded, Once,
           Approve \/ Refuse \/ Mumble \/ Refused \/ Prohibit \/ Completed \/ Wait
    PROVE  Once'
<1> DEFINE p == Past.runs[job.run]
<1>1. performed' = performed /\ up' = up
  BY DEF Approve, Refuse, Mumble, Resolve, Refused, Prohibit, Completed, Wait, Quiet
<1>2. job.at \notin Starting \cup {"idle"}
  BY DEF Approve, Refuse, Mumble, Resolve, Refused, Prohibit, Completed, Wait, At, Starting
<1>3. /\ job.run \in Runs /\ p \in RecordType /\ Rec \in RecordType
      /\ job.card \in CardType /\ up /\ Known(index, job.run)
  BY <1>2, RecordsTyped DEF Memory, Placed, JobType, Rec
<1>4. PerformedOnce'
  BY <1>1, DoneKept DEF Once, Done
<1>5. CASE Approve \/ Refuse \/ Mumble \/ Wait
  <2>1. PICK type \in Resolving \cup {"run.waiting_approval"} :
          Write(CardEvent(type, job.run, job.card))
    BY <1>5 DEF Approve, Refuse, Mumble, Resolve, Wait, Resolving
  <2>2. \E a, b : /\ RunBecomes(job.run, a, b)
                  /\ b.state = p.state /\ b.remaining = p.remaining
    <3>1. \A c : /\ Resolution(p, c).state = p.state /\ Resolution(p, c).remaining = p.remaining
                 /\ Waiting(p, c).state = p.state /\ Waiting(p, c).remaining = p.remaining
      BY <1>3 DEF Resolution, Waiting, RecordType
    <3>2. QED
      BY <1>2, <2>1, <3>1, CardWritten
  <2>3. Clean(job.run)
    <3>1. CASE Wait
      BY <3>1 DEF Wait, At, Once, CleanPlaces
    <3>2. CASE Approve \/ Refuse \/ Mumble
      <4>1. job.at \in Decisions /\ Faithful(job.run)
        BY <3>2 DEF Approve, Refuse, Mumble, Resolve, At, Decisions, Memory, Placed
      <4>2. p.pending # NoCard
        BY <4>1 DEF Carded, Faithful, Rec
      <4>3. QED
        BY <1>3, <4>2 DEF Once, Behind
    <3>3. QED
      BY <1>5, <3>1, <3>2
  <2>4. \A r \in Runs : r = job.run => Behind(r)' /\ Clean(r)'
    BY <1>1, <1>3, <2>2, <2>3, BehindClean DEF RunBecomes, Once
  <2>5. \A r \in Runs : r # job.run => Behind(r)'
    BY <1>1, <2>2, BehindKept DEF RunBecomes, Once
  <2>6. \/ job'.at = "idle"
        \/ job'.at \in {"approved", "refused"} /\ job'.run = job.run
    BY <1>5, JobGoes DEF Approve, Refuse, Mumble, Resolve, Wait
  <2>7. QED
    BY <1>3, <1>4, <2>4, <2>5, <2>6, OnceClean, OnceElsewhere DEF OncePlaces, CleanPlaces, Starting
<1>6. CASE Refused \/ Prohibit \/ Completed
  <2>1. PICK type \in Dropping, s \in StepIds \cup {NoStep} :
            Write(StepEvent(type, job.run, s)) /\ (Completed => s = Next1.id)
    <3>1. CASE Refused
      BY <1>3, <3>1 DEF Refused, Completed, At, Dropping, CardType
    <3>2. CASE Prohibit
      BY <3>2, NextTyped DEF Prohibit, Completed, Dropping, At, Running, StepType
    <3>3. CASE Completed
      BY <3>3, NextTyped DEF Completed, Dropping, At, Running, StepType
    <3>4. QED
      BY <1>6, <3>1, <3>2, <3>3
  <2>2. RunBecomes(job.run, Reduced(Rec, s), Reduced(p, s))
    BY <1>2, <2>1, StepWritten
  <2>3. p.remaining \in Seq(StepType) /\ p.remaining = Rec.remaining /\ p.state # "absent"
    BY <1>3 DEF Memory, Projection, Faithful, Diverged, Same, Rec, RecordType, Known
  <2>4. /\ Reduced(p, s).state = p.state
        /\ Ids(Reduced(p, s).remaining) = Ids(p.remaining) \ {s}
    BY <1>3, <2>3, WithoutStepIds DEF Reduced, RecordType
  <2>5. \A r \in Runs : r = job.run => Done(r)' \cap Ids(Past'.runs[r].remaining) = {}
    <3>1. CASE Completed
      <4>1. Done(job.run) \cap Ids(p.remaining) \subseteq {s}
        BY <2>1, <2>3, <3>1 DEF Completed, At, Once
      <4>2. \A r \in Runs : r = job.run => Done(r)' = Done(r)
        BY <1>1, DoneKept
      <4>3. QED
        BY <2>2, <2>4, <4>1, <4>2 DEF RunBecomes
    <3>2. CASE Refused \/ Prohibit
      <4>1. Done(job.run) \cap Ids(p.remaining) = {}
        BY <3>2 DEF Refused, Prohibit, At, Once, CleanPlaces, Clean
      <4>2. \A r \in Runs : r = job.run => Done(r)' = Done(r)
        BY <1>1, DoneKept
      <4>3. QED
        BY <2>2, <2>4, <4>1, <4>2 DEF RunBecomes
    <3>3. QED
      BY <1>6, <3>1, <3>2
  <2>6. \A r \in Runs : r = job.run => Behind(r)' /\ Clean(r)'
    BY <2>2, <2>3, <2>4, <2>5 DEF Behind, Clean, RunBecomes
  <2>7. \A r \in Runs : r # job.run => Behind(r)'
    BY <1>1, <2>2, BehindKept DEF RunBecomes, Once
  <2>8. job'.at \in {"go", "pending"} /\ job'.run = job.run
    BY <1>6, JobGoes DEF Refused, Prohibit, Completed
  <2>9. QED
    BY <1>3, <1>4, <2>6, <2>7, <2>8, OnceClean DEF CleanPlaces
<1>7. QED
  BY <1>5, <1>6

LEMMA OnceMove ==
    ASSUME Memory, Carded, Once, GoOn \/ Cancel \/ Approved \/ Block \/ Finish
    PROVE  Once'
<1> DEFINE p == Past.runs[job.run]
<1>1. job.at \notin Starting \cup {"idle"}
  BY DEF GoOn, Cancel, Approved, Block, Finish, At, Starting
<1>2. PICK target \in States : Move(target) /\ (target = "blocked" => Block)
  <2>1. CASE GoOn \/ Approved
    BY <2>1 DEF GoOn, Approved, States
  <2>2. CASE Cancel
    BY <2>2 DEF Cancel, States, Terminal
  <2>3. CASE Block
    BY <2>3 DEF Block, States
  <2>4. CASE Finish
    BY <2>4 DEF Finish, States, Terminal
  <2>5. QED
    BY <2>1, <2>2, <2>3, <2>4
<1>3. RunBecomes(job.run, Moved(Rec, target), Moved(p, target)) /\ job.run \in Runs
  BY <1>1, <1>2, MoveWritten
<1>4. performed' = performed /\ up' = up
  BY DEF GoOn, Cancel, Approved, Block, Finish, Quiet
<1>5. p \in RecordType /\ Rec \in RecordType /\ Rec.workspace = "ws" /\ target # "absent"
      /\ p.state # "absent"
  BY <1>1, <1>2, <1>3, RecordsTyped
     DEF Rec, Move, CanMove, States, Terminal, Memory, Placed, Projection, Known, Faithful,
         Diverged, Same
<1>6. /\ Moved(p, target).remaining = p.remaining /\ Moved(p, target).state = target
      /\ p.pending = NoCard => Moved(p, target).pending = NoCard
      /\ Moved(Rec, target).state = target
  BY <1>5 DEF Moved, RecordType
<1>7. PerformedOnce'
  BY <1>4, DoneKept DEF Once
<1>8. \A r \in Runs : r # job.run => Behind(r)'
  BY <1>3, <1>4, BehindKept DEF RunBecomes, Once
<1>9. CASE GoOn \/ Approved \/ Block \/ Finish
  <2>1. Clean(job.run)
    BY <1>5, <1>9 DEF GoOn, Approved, Block, Finish, At, Once, CleanPlaces
  <2>2. \A r \in Runs : r = job.run => Behind(r)' /\ Clean(r)'
    BY <1>3, <1>4, <1>5, <1>6, <2>1, BehindClean DEF RunBecomes, Once
  <2>3. job'.at \in {"pending", "perform", "wait", "idle"}
        /\ (job'.at # "idle" => job'.run = job.run)
    <3>1. CASE Block
      BY <3>1 DEF Block, Memory, Typed, JobType
    <3>2. CASE GoOn \/ Approved \/ Finish
      BY <3>2, JobGoes DEF GoOn, Approved, Finish
    <3>3. QED
      BY <1>9, <3>1, <3>2
  <2>4. QED
    BY <1>3, <1>7, <1>8, <2>2, <2>3, OnceClean, OnceElsewhere DEF OncePlaces, CleanPlaces, Starting
<1>10. CASE Cancel
  <2>1. job'.at = "idle"
    BY <1>10, JobGoes DEF Cancel
  <2>2. target # "blocked"
    BY <1>2, <1>10 DEF Cancel, Block, At
  <2>3. \A r \in Runs : r = job.run => Done(r)' = Done(r) /\ (Clean(r)' <=> Clean(r))
    BY <1>3, <1>4, <1>6, DoneKept DEF RunBecomes
  <2>4. \A r \in Runs : r = job.run => Behind(r)'
    BY <1>3, <1>5, <1>6, <2>2, <2>3 DEF RunBecomes, Behind, Once
  <2>5. QED
    BY <1>7, <1>8, <2>1, <2>4, OnceElsewhere DEF OncePlaces, CleanPlaces, Starting
<1>11. QED
  BY <1>9, <1>10

LEMMA OncePerform ==
    ASSUME Memory, Carded, Once, Perform
    PROVE  Once'
<1>1. /\ up /\ job.at = "perform" /\ job'.at = "intent" /\ job'.run = job.run /\ job.run \in Runs
      /\ Clean(job.run) /\ Rec.state = "running" /\ Known(index, job.run)
  BY JobGoes DEF Perform, At, Once, CleanPlaces, Memory, Placed, Running, Starting
<1>2. UNCHANGED <<log, index, up>> /\ Past' = Past
  BY DEF Perform, durable, Past
<1>3. Next1 \in StepType /\ Rec.remaining \in Seq(StepType) /\ Rec.remaining # <<>>
  BY <1>1, NextTyped DEF Running
<1>4. Rec.remaining = Past.runs[job.run].remaining /\ Past.runs[job.run].state # "absent"
  BY <1>1 DEF Memory, Projection, Faithful, Diverged, Same, Rec, Known
<1>5. Next1.id \in Ids(Rec.remaining)
  <2>1. Len(Rec.remaining) \in Nat /\ Len(Rec.remaining) # 0
    BY <1>3
  <2>2. Next1 = Rec.remaining[1] /\ 1 \in 1..Len(Rec.remaining)
    BY <1>3, <2>1 DEF Next1
  <2>3. QED
    BY <2>2 DEF Ids
<1>6. Next1.id \notin Done(job.run)
  BY <1>1, <1>4, <1>5 DEF Clean
<1> DEFINE eff == [run |-> job.run, step |-> Next1.id, kind |-> Next1.kind, at |-> Len(log)]
           m == Len(performed)
<1>7. /\ m \in Nat /\ Len(performed') = m + 1 /\ performed'[m + 1] = eff
      /\ \A i \in 1..m : performed'[i] = performed[i]
  <2>1. performed \in Seq(EffectType) /\ Len(log) \in Nat
    BY DEF Memory, Typed
  <2>2. eff \in EffectType
    BY <1>1, <1>3, <2>1 DEF EffectType, StepType
  <2>3. performed' = Append(performed, eff)
    BY DEF Perform
  <2> HIDE DEF eff
  <2>4. QED
    BY <2>1, <2>2, <2>3
<1>8. eff.run = job.run /\ eff.step = Next1.id
  OBVIOUS
<1> HIDE DEF eff, m
<1>9. \A i \in 1..m : performed[i].run = job.run => performed[i].step # Next1.id
  BY <1>6 DEF Done, m
<1>10. PerformedOnce'
  <2>1. \A i, j \in 1..m : performed[i].run = performed[j].run
                           /\ performed[i].step = performed[j].step => i = j
    BY DEF Once, PerformedOnce, m
  <2>2. SUFFICES ASSUME NEW i \in 1..(m + 1), NEW j \in 1..(m + 1),
                        performed'[i].run = performed'[j].run,
                        performed'[i].step = performed'[j].step
                 PROVE  i = j
    BY <1>7 DEF PerformedOnce
  <2>3. CASE i \in 1..m /\ j \in 1..m
    BY <1>7, <2>1, <2>2, <2>3
  <2>4. CASE i = m + 1 \/ j = m + 1
    BY <1>7, <1>8, <1>9, <2>2, <2>4
  <2>5. QED
    BY <1>7, <2>3, <2>4
<1>11. \A r \in Runs : Done(r)' = IF r = job.run THEN Done(r) \cup {Next1.id} ELSE Done(r)
  <2> TAKE r \in Runs
  <2>1. \A s : s \in Done(r)' <=> \E i \in 1..(m + 1) : performed'[i].run = r /\ performed'[i].step = s
    BY <1>7 DEF Done
  <2>2. \A s : s \in Done(r) <=> \E i \in 1..m : performed[i].run = r /\ performed[i].step = s
    BY DEF Done, m
  <2>3. \A s : s \in Done(r)' <=> s \in Done(r) \/ (r = job.run /\ s = Next1.id)
    BY <1>7, <1>8, <2>1, <2>2
  <2>4. QED
    BY <2>3
<1>12. \A r \in Runs : r # job.run => Behind(r)'
  BY <1>2, <1>11 DEF Once, Behind, Clean
<1>13. \A r \in Runs : r = job.run => Behind(r)'
  BY <1>1, <1>2, <1>4 DEF Behind, Carded, Rec, Running
<1>14. Rec' = Rec /\ Next1' = Next1
  BY <1>1, <1>2 DEF Rec, Next1
<1>15. Done(job.run)' = Done(job.run) \cup {Next1.id}
  BY <1>1, <1>11 DEF Done
<1>16. Done(job.run) \cap Ids(Rec.remaining) = {}
  BY <1>1, <1>4 DEF Clean
<1>17. QED
  BY <1>1, <1>10, <1>12, <1>13, <1>14, <1>15, <1>16 DEF Once, CleanPlaces, Starting

LEMMA OnceSilent ==
    ASSUME Memory, Once,
           Pending \/ Verify \/ CheckedAgain \/ StepFails \/ StepRefused \/ \E r \in Runs : Expire(r)
    PROVE  Once'
<1>1. UNCHANGED <<log, index, up, performed>> /\ Past' = Past
  BY DEF Pending, Verify, CheckedAgain, StepFails, StepRefused, Expire, Quiet, At, durable, Past
<1>2. PerformedOnce' /\ \A r \in Runs : Behind(r)'
  BY <1>1, DoneKept, BehindKept DEF Once
<1>3. CASE StepFails \/ StepRefused
  BY <1>2, <1>3, JobGoes, OnceElsewhere
     DEF StepFails, StepRefused, OncePlaces, CleanPlaces, Starting
<1>4. CASE Pending
  <2>1. Clean(job.run) /\ job.run \in Runs
    BY <1>4 DEF Pending, At, Once, CleanPlaces, Memory, Placed
  <2>2. \A r \in Runs : r = job.run => Clean(r)'
    BY <1>1, <2>1, DoneKept
  <2>3. \/ job'.at = "idle"
        \/ job'.at \in {"verify", "prohibit", "perform", "block"} /\ job'.run = job.run
    BY <1>4, JobGoes DEF Pending
  <2>4. QED
    BY <1>2, <2>1, <2>2, <2>3, OnceClean, OnceElsewhere DEF OncePlaces, CleanPlaces, Starting
<1>5. CASE \E r \in Runs : Expire(r)
  <2>1. job' = job /\ job.at = "idle"
    BY <1>5 DEF Expire, Idle
  <2>2. QED
    BY <1>2, <2>1, OnceElsewhere DEF OncePlaces, CleanPlaces, Starting
<1>6. CASE Verify \/ CheckedAgain
  <2>1. Clean(job.run) /\ job.run \in Runs
    BY <1>6 DEF Verify, CheckedAgain, At, Once, CleanPlaces, Memory, Placed
  <2>2. \A r \in Runs : r = job.run => Clean(r)'
    BY <1>1, <2>1, DoneKept
  <2>3. job'.at \in {"verify", "passes", "fails"} /\ job'.run = job.run
    <3>1. CASE Verify
      BY <3>1, JobGoes DEF Verify
    <3>2. CASE CheckedAgain
      BY <3>2, NextCheckTyped DEF CheckedAgain
    <3>3. QED
      BY <1>6, <3>1, <3>2
  <2>4. QED
    BY <1>2, <2>1, <2>2, <2>3, OnceClean DEF CleanPlaces
<1>7. QED
  BY <1>3, <1>4, <1>5, <1>6

LEMMA OnceCalls ==
    ASSUME Memory, Once,
           \/ \E r \in Runs : Asked(r)
           \/ \E plan \in Plans : FreezePlan(plan)
           \/ (\E v \in 1..MaxPlans : StartRun(v)) \/ (\E r \in Runs : ForkRun(r))
    PROVE  Once'
<1>1. performed' = performed /\ up' = up
  BY DEF Asked, PauseRun, SteerRun, ResumeRun, CancelRun, ResolveApproval, Enter, EnterWith,
         FreezePlan, StartRun, ForkRun, Begin
<1>2. PerformedOnce'
  BY <1>1, DoneKept DEF Once
<1>3. CASE \E r \in Runs : Asked(r)
  <2>1. PICK r \in Runs : Asked(r)
    BY <1>3
  <2>2. UNCHANGED <<log, index>> /\ Past' = Past /\ up
    BY <2>1 DEF Asked, PauseRun, SteerRun, ResumeRun, CancelRun, ResolveApproval, Enter,
                EnterWith, Call, Uncounted, durable, Past
  <2>3. \A q \in Runs : Behind(q)'
    BY <1>1, <2>2, BehindKept DEF Once
  <2>4. PICK p, key :
          /\ job' = [Idle EXCEPT !.at = p, !.run = r, !.card = index.runs[r].pending, !.key = key]
          /\ \/ p \in {"pause", "steer", "propagate"}
             \/ p = "revalidate" /\ index.runs[r].state = "blocked"
             \/ p \in Decisions /\ index.runs[r].pending # NoCard
    <3>1. PauseRun(r) \/ SteerRun(r) \/ CancelRun(r)
            => \E p \in {"pause", "steer", "propagate"} : \E key : EnterWith(r, p, key)
      BY DEF PauseRun, SteerRun, CancelRun, Enter
    <3>2. ResumeRun(r) => \E key : EnterWith(r, "revalidate", key) /\ index.runs[r].state = "blocked"
      BY DEF ResumeRun
    <3>3. (\E d \in {"approve", "deny", "mumble"} : ResolveApproval(r, d))
            => \E p \in Decisions : \E key : EnterWith(r, p, key) /\ index.runs[r].pending # NoCard
      BY DEF ResolveApproval, CardUsable, Enter, Decisions
    <3>4. QED
      BY <2>1, <3>1, <3>2, <3>3 DEF Asked, EnterWith
  <2>5. job'.at = p /\ job'.run = r
    BY <2>4 DEF Idle
  <2>6. CASE p \in {"pause", "steer", "propagate"}
    BY <1>2, <2>3, <2>5, <2>6, OnceElsewhere DEF OncePlaces, CleanPlaces, Starting
  <2>7. CASE p = "revalidate" /\ index.runs[r].state = "blocked"
    <3>1. Clean(r) \/ index.runs[r].workspace # "ws"
      BY <2>2, <2>7 DEF Once, Behind
    <3>2. Clean(job.run)' \/ Rec'.workspace # "ws"
      BY <1>1, <2>2, <2>5, <3>1 DEF Clean, Done, Rec
    <3>3. QED
      BY <1>2, <2>3, <2>5, <2>7, <3>2 DEF Once, CleanPlaces, Starting
  <2>8. CASE p \in Decisions /\ index.runs[r].pending # NoCard
    <3>1. Past.runs[r].pending # NoCard
      BY <2>2, <2>8 DEF Memory, Projection, Faithful, Diverged
    <3>2. Clean(r)
      BY <3>1 DEF Once, Behind
    <3>3. Clean(r)'
      BY <1>1, <2>2, <3>2, DoneKept
    <3>4. CASE p = "mumble"
      BY <1>2, <2>3, <2>5, <3>4, OnceElsewhere DEF OncePlaces, CleanPlaces, Starting
    <3>5. CASE p # "mumble"
      BY <1>2, <2>3, <2>5, <2>8, <3>3, <3>5, OnceClean DEF CleanPlaces, Decisions
    <3>6. QED
      BY <3>4, <3>5
  <2>9. QED
    BY <2>4, <2>6, <2>7, <2>8
<1>4. CASE \E plan \in Plans : FreezePlan(plan)
  <2>1. PICK plan \in Plans : FreezePlan(plan)
    BY <1>4
  <2>2. Past' = [Past EXCEPT !.plans = Append(Past.plans, plan)] /\ index'.runs = index.runs
    BY <2>1, FreezePlanStep
  <2>3. Past'.runs = Past.runs
    BY <2>2 DEF Memory, Typed, IndexType
  <2>4. \A r \in Runs : Behind(r)'
    BY <1>1, <2>2, <2>3, BehindKept DEF Once
  <2>5. job'.at = "idle"
    BY <2>1 DEF FreezePlan, Uncounted, Idle
  <2>6. QED
    BY <1>2, <2>4, <2>5, OnceElsewhere DEF OncePlaces, CleanPlaces, Starting
<1>5. CASE (\E v \in 1..MaxPlans : StartRun(v)) \/ (\E r \in Runs : ForkRun(r))
  <2>1. /\ Past' = Past /\ index'.runs = index.runs
        /\ job'.run \in Runs /\ index.runs[job'.run].state = "absent"
    BY <1>5, StartSteps
  <2>2. \A r \in Runs : Behind(r)'
    BY <1>1, <2>1, BehindKept DEF Once
  <2>3. job'.at = "create" /\ up
    BY <1>5 DEF StartRun, ForkRun, Begin, Idle, Call
  <2>4. Past.runs[job'.run].state = "absent"
    BY <2>1, <2>3 DEF Memory, Projection, Faithful, Diverged, Same
  <2>5. \A r \in Runs : Past.runs[r].state = "absent" => Clean(r)
    BY DEF Once, Behind, Clean
  <2>6. \A r \in Runs : r = job'.run => Clean(r)'
    BY <1>1, <2>1, <2>4, <2>5, DoneKept
  <2>7. QED
    BY <1>2, <2>1, <2>2, <2>3, <2>6, OnceClean DEF CleanPlaces, Starting
<1>6. QED
  BY <1>3, <1>4, <1>5

LEMMA OnceOther ==
    ASSUME Memory, Once, Create \/ Bind \/ GoOnReplayed \/ Die \/ Restart \/ UNCHANGED vars
    PROVE  Once'
<1>1. performed' = performed
  BY DEF Create, Bind, GoOnReplayed, Die, Restart, Quiet, vars
<1>2. PerformedOnce'
  BY <1>1, DoneKept DEF Once
<1>3. CASE Create
  <2>1. Past' = Past /\ index' = index /\ job.run \in Runs /\ up' = up /\ Clean(job.run)
    BY <1>3, CreateStep DEF Create, Quiet, At, Once, CleanPlaces, Starting
  <2>2. \A r \in Runs : Behind(r)'
    BY <1>1, <2>1, BehindKept DEF Once
  <2>3. \A r \in Runs : r = job.run => Clean(r)'
    BY <1>1, <2>1, DoneKept
  <2>4. job'.at = "bind" /\ job'.run = job.run
    BY <1>3, JobGoes DEF Create
  <2>5. QED
    BY <1>2, <2>1, <2>2, <2>3, <2>4, OnceClean DEF CleanPlaces, Starting
<1>4. CASE Bind
  <2>1. /\ job.run \in Runs /\ up' = up /\ Past.runs[job.run] = Unknown
        /\ Past' = [Past EXCEPT !.runs[job.run] =
                        Bound("", Past.plans[job.version].steps, job.version)]
        /\ index' = [index EXCEPT !.runs[job.run] =
                        Bound(index.hint, Past.plans[job.version].steps, job.version)]
    BY <1>4, BindStep
  <2>2. Done(job.run) = {}
    <3>1. Unknown.state = "absent"
      BY DEF Unknown
    <3>2. Behind(job.run)
      BY <2>1 DEF Once
    <3>3. QED
      BY <2>1, <3>1, <3>2 DEF Behind
  <2>3. \A r \in Runs : r # job.run =>
            Past'.runs[r] = Past.runs[r] /\ index'.runs[r] = index.runs[r]
    BY <2>1 DEF Memory, Typed, IndexType
  <2>4. \A r \in Runs : r = job.run => Done(r)' = {}
    BY <1>1, <2>2, DoneKept
  <2>5. \A r \in Runs : Behind(r)'
    BY <1>1, <2>1, <2>3, <2>4, BehindKept DEF Once, Behind, Clean
  <2>6. \A r \in Runs : r = job.run => Clean(r)'
    BY <2>4 DEF Clean
  <2>7. job'.at = "baseline" /\ job'.run = job.run
    BY <1>4, JobGoes DEF Bind
  <2>8. QED
    BY <1>2, <2>1, <2>5, <2>6, <2>7, OnceClean DEF CleanPlaces
<1>5. CASE GoOnReplayed
  <2>1. /\ Past' = Past /\ job.run \in Runs /\ up' = up /\ Rec.workspace = "ws"
        /\ index' = [index EXCEPT !.runs[job.run] = Moved(index.runs[job.run], "running")]
    BY <1>5, GoOnReplayedStep
  <2>2. Clean(job.run)
    BY <1>5, <2>1 DEF GoOnReplayed, At, Once
  <2>3. \A r \in Runs : r # job.run => index'.runs[r] = index.runs[r]
    BY <2>1 DEF Memory, Typed, IndexType
  <2>4. \A r \in Runs : r = job.run => Clean(r)'
    BY <1>1, <2>1, <2>2, DoneKept
  <2>5. \A r \in Runs : r = job.run => Behind(r)'
    BY <1>1, <2>1, <2>2, BehindClean DEF Once
  <2>6. \A r \in Runs : Behind(r)'
    BY <1>1, <2>1, <2>3, <2>5, BehindKept DEF Once
  <2>7. job'.at = "pending" /\ job'.run = job.run
    BY <1>5, JobGoes DEF GoOnReplayed
  <2>8. QED
    BY <1>2, <2>1, <2>4, <2>6, <2>7, OnceClean DEF CleanPlaces
<1>6. CASE Die
  <2>1. Past' = Past /\ up' = FALSE /\ job'.at = "idle"
    BY <1>6, DieStep, JobGoes DEF Die
  <2>2. \A r \in Runs : (Done(r) = {} <=> Done(r)' = {}) /\ (Clean(r)' <=> Clean(r))
    BY <1>1, <2>1, DoneKept
  <2>3. \A r \in Runs : Behind(r)'
    BY <2>1, <2>2 DEF Once, Behind
  <2>4. QED
    BY <1>2, <2>1, <2>3, OnceElsewhere DEF OncePlaces, CleanPlaces, Starting
<1>7. CASE Restart
  <2>1. Past' = Past /\ index' = Past /\ job'.at = "idle"
    BY <1>7, RestartStep DEF Idle
  <2>2. \A r \in Runs : index'.runs[r].workspace # "ws"
    BY <2>1 DEF Memory, Projection
  <2>3a. \A r \in Runs : (Done(r) = {} <=> Done(r)' = {}) /\ (Clean(r)' <=> Clean(r))
    BY <1>1, <2>1, DoneKept
  <2>3. \A r \in Runs : Behind(r)'
    BY <2>1, <2>2, <2>3a DEF Once, Behind
  <2>4. QED
    BY <1>2, <2>1, <2>3, OnceElsewhere DEF OncePlaces, CleanPlaces, Starting
<1>8. CASE UNCHANGED vars
  <2>1. /\ Past' = Past /\ index' = index /\ job' = job /\ up' = up
    BY <1>8, MemoryStutters DEF vars
  <2>2. \A r \in Runs : Behind(r)'
    BY <1>1, <2>1, BehindKept DEF Once
  <2>3. Done(job.run)' = Done(job.run) /\ (Clean(job.run)' <=> Clean(job.run))
    BY <1>1, <2>1 DEF Done, Clean
  <2>4. QED
    BY <1>2, <2>1, <2>2, <2>3 DEF Once, Rec, Next1
<1>9. QED
  BY <1>3, <1>4, <1>5, <1>6, <1>7, <1>8

LEMMA OnceStep ==
    ASSUME Memory, Carded, Once, [Next]_vars
    PROVE  Once'
BY StepKinds, OnceFixed, OnceRecord, OnceMove, OncePerform, OnceSilent, OnceCalls, OnceOther, Zenon

LEMMA InitOnce ==
    ASSUME Init
    PROVE  Once
<1>1. performed = <<>> /\ job.at = "idle" /\ Len(<<>>) = 0
  BY DEF Init, Idle
<1>2. PerformedOnce /\ \A r \in Runs : Done(r) = {}
  BY <1>1 DEF PerformedOnce, Done
<1>3. QED
  BY <1>1, <1>2 DEF Once, Behind, Clean, CleanPlaces, Starting

LEMMA EngineOnce == Spec => []Once
<1>1. Init => Once
  BY InitOnce
<1>2. Steered /\ Once /\ [Next]_vars => Once'
  BY OnceStep DEF Steered
<1>3. QED
  BY <1>1, <1>2, EngineSteered, PTL DEF Spec

-----------------------------------------------------------------------------
(* How the log, Past and the effects grow, whatever the step.              *)

LEMMA Appended ==
    ASSUME Memory, NEW e \in EventType, log' = Append(log, e)
    PROVE  LogGrows(e)
<1>1. log \in Seq(EventType)
  BY DEF Memory, Typed
<1>2. QED
  BY <1>1 DEF LogGrows

\* An event of a call about its run, by its three forms.
LEMMA EventsNamed ==
    ASSUME NEW type \in EventNames, NEW r \in Runs
    PROVE  /\ Event(type, r).type = type
           /\ \A s : StepEvent(type, r, s).type = type
           /\ \A c : CardEvent(type, r, c).type = type
           /\ \A to : StateEvent(r, to).type = "run.state_changed"
BY DEF Event, StepEvent, CardEvent, StateEvent

\* The event that a step of the engine appends, if it appends one.
LogMoves ==
    \/ log' = log
    \/ \E e \in EventType :
        /\ LogGrows(e)
        /\ e.type = "run.effect_denied" => Refused
        /\ e.type = "run.refused" => Refuse

LEMMA FixedLogs ==
    ASSUME Memory,
           Baseline \/ Lineage \/ Pause \/ Steer \/ Revalidate \/ Propagate \/ Intent
              \/ Result \/ Checked \/ Verdict
    PROVE  LogMoves
<1>1. job.run \in Runs
  BY FixedSteps
<1>2. PICK e : e \in EventType /\ e.type \in Fixed /\ log' = Append(log, e)
  <2>1. CASE Baseline \/ Lineage \/ Pause \/ Steer \/ Revalidate \/ Propagate
    <3>1. PICK type \in Fixed : log' = Append(log, Event(type, job.run))
      BY <2>1 DEF Baseline, Lineage, Pause, Steer, Note, Revalidate, Propagate, Fixed, Write
    <3>2. type \in EventNames
      BY DEF Fixed, EventNames
    <3>3. QED
      BY <1>1, <3>1, <3>2, EventsTyped, EventsNamed
  <2>2. CASE Checked
    <3>1. job.at \in {"passes", "fails"} /\ job.check \in Nat
      BY <2>2, RecordsTyped DEF JobType, Checked
    <3>2. /\ Outcome(job.check) \in EventType
          /\ Outcome(job.check).type \in {"run.acceptance_passed", "run.acceptance_failed"}
      BY <3>1, OutcomeTyped
    <3>3. QED
      BY <2>2, <3>2 DEF Checked, Write, Fixed
  <2>4. CASE Verdict
    <3>1. PICK type \in Fixed : log' = Append(log, Event(type, job.run))
      BY <2>4 DEF Verdict, Fixed, Write
    <3>2. type \in EventNames
      BY DEF Fixed, EventNames
    <3>3. QED
      BY <1>1, <3>1, <3>2, EventsTyped, EventsNamed
  <2>3. CASE Intent \/ Result
    <3>1. PICK type \in Fixed : log' = Append(log, StepEvent(type, job.run, Next1.id))
      BY <2>3 DEF Intent, Result, Fixed, Write
    <3>2. type \in EventNames
      BY DEF Fixed, EventNames
    <3>3. Next1.id \in StepIds
      BY <2>3, NextTyped DEF Intent, Result, At, Running, StepType
    <3>4. QED
      BY <1>1, <3>1, <3>2, <3>3, EventsTyped, EventsNamed
  <2>5. QED
    BY <2>1, <2>2, <2>3, <2>4
<1>3. LogGrows(e)
  BY <1>2, Appended
<1>4. QED
  BY <1>2, <1>3 DEF LogMoves, Fixed

LEMMA RecordLogs ==
    ASSUME Memory,
           Approve \/ Refuse \/ Mumble \/ Refused \/ Prohibit \/ Completed \/ Wait
    PROVE  LogMoves
<1>1. job.run \in Runs /\ job.card \in CardType
  BY RecordsTyped
     DEF Approve, Refuse, Mumble, Resolve, Refused, Prohibit, Completed, Wait, At, Memory, Placed,
         JobType
<1>2. CASE Approve \/ Refuse \/ Mumble \/ Wait
  <2>1. PICK type \in Resolving \cup {"run.waiting_approval"} :
          /\ log' = Append(log, CardEvent(type, job.run, job.card))
          /\ type = "run.refused" => Refuse
    BY <1>2 DEF Approve, Refuse, Mumble, Resolve, Wait, Resolving, Write
  <2>2. type \in EventNames /\ type # "run.effect_denied"
    BY DEF Resolving, EventNames
  <2> DEFINE e == CardEvent(type, job.run, job.card)
  <2>3. e \in EventType /\ e.type = type
    BY <1>1, <2>2, EventsTyped, EventsNamed
  <2>4. LogGrows(e)
    BY <2>1, <2>3, Appended
  <2>5. QED
    BY <2>1, <2>2, <2>3, <2>4 DEF LogMoves
<1>3. CASE Refused \/ Prohibit \/ Completed
  <2>1. PICK type \in Dropping, s \in StepIds \cup {NoStep} :
          /\ log' = Append(log, StepEvent(type, job.run, s))
          /\ type = "run.effect_denied" => Refused
    <3>1. CASE Refused
      BY <1>1, <3>1 DEF Refused, Dropping, CardType, Write
    <3>2. CASE Prohibit
      BY <3>2, NextTyped DEF Prohibit, Dropping, At, Running, StepType, Write
    <3>3. CASE Completed
      BY <3>3, NextTyped DEF Completed, Dropping, At, Running, StepType, Write
    <3>4. QED
      BY <1>3, <3>1, <3>2, <3>3
  <2>2. type \in EventNames /\ type # "run.refused"
    BY DEF Dropping, EventNames
  <2> DEFINE e == StepEvent(type, job.run, s)
  <2>3. e \in EventType /\ e.type = type
    BY <1>1, <2>2, EventsTyped, EventsNamed
  <2>4. LogGrows(e)
    BY <2>1, <2>3, Appended
  <2>5. QED
    BY <2>1, <2>2, <2>3, <2>4 DEF LogMoves
<1>4. QED
  BY <1>2, <1>3

LEMMA LogMovesAlways ==
    ASSUME Memory, [Next]_vars
    PROVE  LogMoves
<1>1. CASE GoOn \/ Cancel \/ Approved \/ Block \/ Finish
  <2>1. job.at \notin Starting \cup {"idle"}
    BY <1>1 DEF GoOn, Cancel, Approved, Block, Finish, At, Starting
  <2>2. PICK target \in States : Move(target)
    BY <1>1 DEF GoOn, Cancel, Approved, Block, Finish, States, Terminal
  <2>3. LogGrows(StateEvent(job.run, target)) /\ job.run \in Runs
    BY <2>1, <2>2, MoveWritten
  <2>4. "run.state_changed" \in EventNames
    BY DEF EventNames
  <2>5. /\ StateEvent(job.run, target) \in EventType
        /\ StateEvent(job.run, target).type = "run.state_changed"
    BY <2>3, <2>4, EventsTyped, EventsNamed
  <2>6. QED
    BY <2>3, <2>5 DEF LogMoves
<1>2. CASE Pending \/ Perform \/ Verify \/ CheckedAgain \/ StepFails \/ StepRefused \/ (\E r \in Runs : Expire(r)) \/ GoOnReplayed
           \/ Die \/ Restart \/ UNCHANGED vars
  BY <1>2 DEF Pending, Perform, Verify, CheckedAgain, StepFails, StepRefused, Expire, GoOnReplayed, Die, Restart, vars,
              durable, LogMoves
<1>3. CASE \/ (\E v \in 1..MaxPlans : StartRun(v)) \/ (\E r \in Runs : ForkRun(r))
           \/ \E r \in Runs : Asked(r)
  BY <1>3 DEF StartRun, ForkRun, Begin, Asked, PauseRun, SteerRun, ResumeRun, CancelRun,
              ResolveApproval, Enter, EnterWith, durable, LogMoves
<1>4. CASE Create
  <2>1. Event("run.queued", job.run).type = "run.queued"
    BY DEF Event
  <2>2. LogGrows(Event("run.queued", job.run)) /\ Event("run.queued", job.run) \in EventType
    BY <1>4, CreateStep, Appended
  <2>3. QED
    BY <2>1, <2>2 DEF LogMoves
<1>5. CASE Bind
  <2> DEFINE e == BindingEvent(job.run, job.version)
  <2>1. e.type = "run.binding_recorded"
    BY DEF BindingEvent, Event
  <2>2. LogGrows(e) /\ e \in EventType
    BY <1>5, BindStep, Appended
  <2>3. QED
    BY <2>1, <2>2 DEF LogMoves
<1>6. CASE \E plan \in Plans : FreezePlan(plan)
  <2>1. PICK plan \in Plans : FreezePlan(plan)
    BY <1>6
  <2>2. PlanEvent(plan).type = "plan.frozen"
    BY DEF PlanEvent, Event
  <2>3. LogGrows(PlanEvent(plan)) /\ PlanEvent(plan) \in EventType
    BY <2>1, FreezePlanStep, Appended
  <2>4. QED
    BY <2>2, <2>3 DEF LogMoves
<1>7. QED
  BY <1>1, <1>2, <1>3, <1>4, <1>5, <1>6, StepKinds, FixedLogs, RecordLogs, Zenon

\* What every step but a few leaves of the runs: that they are known, their
\* version and what is left of their plan.
PastMoves ==
    /\ \A r \in Runs : Past.runs[r].state # "absent" =>
        /\ Past'.runs[r].state # "absent"
        /\ Past'.runs[r].version = Past.runs[r].version
        /\ \/ Past'.runs[r].remaining = Past.runs[r].remaining
           \/ r = job.run /\ (Refused \/ Prohibit \/ Completed)
    /\ \A r \in Runs : Past'.runs[r].state # "absent" =>
        Past.runs[r].state # "absent" \/ (Bind /\ r = job.run)
    /\ \A v \in 1..Len(Past.plans) : v \in 1..Len(Past'.plans) /\ Past'.plans[v] = Past.plans[v]

LEMMA PastSame ==
    ASSUME Past' = Past
    PROVE  PastMoves
BY DEF PastMoves

LEMMA PastOfOne ==
    ASSUME NEW a, NEW b, RunBecomes(job.run, a, b), job.run \in Runs,
           Past.runs[job.run].state # "absent", b.state # "absent",
           b.version = Past.runs[job.run].version,
           b.remaining = Past.runs[job.run].remaining \/ Refused \/ Prohibit \/ Completed
    PROVE  PastMoves
BY DEF PastMoves, RunBecomes

\* The run of a call that is past its binding is in Past too.
LEMMA KnownInPast ==
    ASSUME Memory, job.at \notin Starting \cup {"idle"}
    PROVE  /\ job.run \in Runs /\ up /\ Past.runs[job.run] \in RecordType
           /\ Past.runs[job.run].state # "absent"
           /\ Past.runs[job.run].remaining = Rec.remaining
<1>1. job.run \in Runs /\ up /\ Known(index, job.run)
  BY DEF Memory, Placed
<1>2. Faithful(job.run) \/ Diverged(job.run)
  BY <1>1 DEF Memory, Projection
<1>3. QED
  BY <1>1, <1>2, RecordsTyped DEF Faithful, Diverged, Same, Known, Rec

LEMMA RecordMovesPast ==
    ASSUME Memory,
           Approve \/ Refuse \/ Mumble \/ Refused \/ Prohibit \/ Completed \/ Wait
    PROVE  PastMoves
<1> DEFINE p == Past.runs[job.run]
<1>1. job.at \notin Starting \cup {"idle"}
  BY DEF Approve, Refuse, Mumble, Resolve, Refused, Prohibit, Completed, Wait, At, Starting
<1>2. job.run \in Runs /\ p \in RecordType /\ p.state # "absent" /\ job.card \in CardType
  BY <1>1, KnownInPast, RecordsTyped DEF JobType
<1>3. CASE Approve \/ Refuse \/ Mumble \/ Wait
  <2>1. PICK type \in Resolving \cup {"run.waiting_approval"} :
          Write(CardEvent(type, job.run, job.card))
    BY <1>3 DEF Approve, Refuse, Mumble, Resolve, Wait, Resolving
  <2>2. \A c : /\ Resolution(p, c).state = p.state /\ Resolution(p, c).remaining = p.remaining
               /\ Waiting(p, c).state = p.state /\ Waiting(p, c).remaining = p.remaining
               /\ Waiting(p, c).version = p.version /\ Resolution(p, c).version = p.version
    BY <1>2 DEF Resolution, Waiting, RecordType
  <2>3. QED
    BY <1>1, <1>2, <2>1, <2>2, CardWritten, PastOfOne
<1>4. CASE Refused \/ Prohibit \/ Completed
  <2>1. PICK type \in Dropping, s \in StepIds \cup {NoStep} :
            Write(StepEvent(type, job.run, s))
    <3>1. CASE Refused
      BY <1>2, <3>1 DEF Refused, Dropping, CardType
    <3>2. CASE Prohibit
      BY <3>2, NextTyped DEF Prohibit, Dropping, At, Running, StepType
    <3>3. CASE Completed
      BY <3>3, NextTyped DEF Completed, Dropping, At, Running, StepType
    <3>4. QED
      BY <1>4, <3>1, <3>2, <3>3
  <2>2. RunBecomes(job.run, Reduced(Rec, s), Reduced(p, s))
    BY <1>1, <2>1, StepWritten
  <2>3. Reduced(p, s).state = p.state /\ Reduced(p, s).version = p.version
    BY <1>2 DEF Reduced, RecordType
  <2>4. QED
    BY <1>2, <1>4, <2>2, <2>3, PastOfOne
<1>5. QED
  BY <1>3, <1>4

LEMMA PastMovesAlways ==
    ASSUME Memory, [Next]_vars
    PROVE  PastMoves
<1>1. CASE Baseline \/ Lineage \/ Pause \/ Steer \/ Revalidate \/ Propagate \/ Intent
              \/ Result \/ Checked \/ Verdict
  BY <1>1, FixedSteps, PastSame DEF Steady
<1>2. CASE GoOn \/ Cancel \/ Approved \/ Block \/ Finish
  <2> DEFINE p == Past.runs[job.run]
  <2>1. job.at \notin Starting \cup {"idle"}
    BY <1>2 DEF GoOn, Cancel, Approved, Block, Finish, At, Starting
  <2>2. PICK target \in States : Move(target)
    BY <1>2 DEF GoOn, Cancel, Approved, Block, Finish, States, Terminal
  <2>3. RunBecomes(job.run, Moved(Rec, target), Moved(p, target))
    BY <2>1, <2>2, MoveWritten
  <2>4. job.run \in Runs /\ p \in RecordType /\ p.state # "absent"
    BY <2>1, KnownInPast
  <2>5. /\ Moved(p, target).state # "absent" /\ Moved(p, target).version = p.version
        /\ Moved(p, target).remaining = p.remaining
    BY <2>4 DEF Moved, RecordType, States, Terminal
  <2>6. QED
    BY <2>3, <2>4, <2>5, PastOfOne
<1>3. CASE Pending \/ Perform \/ Verify \/ CheckedAgain \/ StepFails \/ StepRefused \/ (\E r \in Runs : Expire(r))
           \/ (\E r \in Runs : Asked(r)) \/ UNCHANGED vars
  <2>1. log' = log
    BY <1>3 DEF Pending, Perform, Verify, CheckedAgain, StepFails, StepRefused, Expire, vars, durable, Asked, PauseRun,
                SteerRun, ResumeRun, CancelRun, ResolveApproval, Enter, EnterWith
  <2>2. QED
    BY <2>1, PastSame DEF Past
<1>4. CASE (\E v \in 1..MaxPlans : StartRun(v)) \/ (\E r \in Runs : ForkRun(r))
  BY <1>4, StartSteps, PastSame
<1>5. CASE Create \/ GoOnReplayed \/ Die \/ Restart
  BY <1>5, CreateStep, GoOnReplayedStep, DieStep, RestartStep, PastSame
<1>6. CASE \E plan \in Plans : FreezePlan(plan)
  <2>1. PICK plan \in Plans : FreezePlan(plan)
    BY <1>6
  <2>2. Past' = [Past EXCEPT !.plans = Append(Past.plans, plan)]
    BY <2>1, FreezePlanStep
  <2>3. Past \in IndexType
    BY DEF Memory, Typed
  <2>4. Past'.runs = Past.runs /\ Past'.plans = Append(Past.plans, plan)
    BY <2>2, <2>3 DEF IndexType
  <2>5. \A v \in 1..Len(Past.plans) : v \in 1..Len(Past'.plans) /\ Past'.plans[v] = Past.plans[v]
    BY <2>3, <2>4 DEF IndexType
  <2>6. QED
    BY <2>4, <2>5 DEF PastMoves
<1>7. CASE Bind
  <2>1. /\ job.run \in Runs /\ Past.runs[job.run] = Unknown /\ Past \in IndexType
        /\ Past' = [Past EXCEPT !.runs[job.run] =
                        Bound("", Past.plans[job.version].steps, job.version)]
    BY <1>7, BindStep DEF Memory, Typed
  <2>2. Unknown.state = "absent"
    BY DEF Unknown
  <2>3. /\ Past'.plans = Past.plans
        /\ \A r \in Runs : r # job.run => Past'.runs[r] = Past.runs[r]
    BY <2>1 DEF IndexType
  <2>4. QED
    BY <1>7, <2>1, <2>2, <2>3 DEF PastMoves
<1>8. QED
  BY <1>1, <1>2, <1>3, <1>4, <1>5, <1>6, <1>7, StepKinds, RecordMovesPast, Zenon

\* Only Perform performs.
LEMMA EffectsAlways ==
    ASSUME [Next]_vars
    PROVE  performed' = performed \/ Perform
<1>1. CASE Baseline \/ Lineage \/ Pause \/ Steer \/ Revalidate \/ Propagate \/ Intent
              \/ Result \/ Checked \/ Verdict
  BY <1>1 DEF Baseline, Lineage, Pause, Steer, Note, Revalidate, Propagate, Intent, Result, Checked, Verdict,
              Quiet
<1>2. CASE Approve \/ Refuse \/ Mumble \/ Refused \/ Prohibit \/ Completed \/ Wait
  BY <1>2 DEF Approve, Refuse, Mumble, Resolve, Refused, Prohibit, Completed, Wait, Quiet
<1>3. CASE GoOn \/ Cancel \/ Approved \/ Block \/ Finish
  BY <1>3 DEF GoOn, Cancel, Approved, Block, Finish, Quiet
<1>4. CASE Pending \/ Verify \/ CheckedAgain \/ StepFails \/ StepRefused \/ (\E r \in Runs : Expire(r))
  BY <1>4 DEF Pending, Verify, CheckedAgain, StepFails, StepRefused, Expire, Quiet
<1>5. CASE \E r \in Runs : Asked(r)
  BY <1>5 DEF Asked, PauseRun, SteerRun, ResumeRun, CancelRun, ResolveApproval, Enter, EnterWith
<1>6. CASE \/ \E plan \in Plans : FreezePlan(plan)
           \/ (\E v \in 1..MaxPlans : StartRun(v)) \/ (\E r \in Runs : ForkRun(r))
  BY <1>6 DEF FreezePlan, StartRun, ForkRun, Begin
<1>7. CASE Create \/ Bind \/ GoOnReplayed \/ Die \/ Restart \/ UNCHANGED vars
  BY <1>7 DEF Create, Bind, GoOnReplayed, Die, Restart, Quiet, vars
<1>8. QED
  BY <1>1, <1>2, <1>3, <1>4, <1>5, <1>6, <1>7, StepKinds, Zenon

\* The ways into the places where the call relies on what was done before.
Arrivals ==
    {"approved", "perform", "verify", "passes", "fails", "finish", "intent", "result", "completed"}

LEMMA ArrivalsAlways ==
    ASSUME Memory, [Next]_vars, job'.at \in Arrivals
    PROVE  \/ Approve \/ Approved \/ Pending \/ Perform \/ Intent \/ Result
           \/ Verify \/ Checked \/ CheckedAgain \/ Verdict
           \/ UNCHANGED vars
<1>1. ~(Baseline \/ Lineage \/ Pause \/ Steer \/ Revalidate \/ Propagate)
  BY JobGoes DEF Baseline, Lineage, Pause, Steer, Note, Revalidate, Propagate, Arrivals
<1>2. ~(Refuse \/ Mumble \/ Refused \/ Prohibit \/ Completed \/ Wait)
  BY JobGoes DEF Refuse, Mumble, Resolve, Refused, Prohibit, Completed, Wait, Arrivals
<1>3. ~(GoOn \/ Cancel \/ Finish)
  BY JobGoes DEF GoOn, Cancel, Finish, Arrivals
<1>4. ~Block
  BY DEF Block, Memory, Typed, JobType, Arrivals
<1>5. ~(StepFails \/ StepRefused)
  BY JobGoes DEF StepFails, StepRefused, Arrivals
<1>6. ~ \E r \in Runs : Expire(r)
  BY DEF Expire, Idle, Arrivals
<1>7. ~ \E r \in Runs : Asked(r)
  <2>1. \A r, key : \A p \in {"pause", "steer", "revalidate", "propagate", "approve", "deny",
                             "mumble"} : ~EnterWith(r, p, key)
    BY DEF EnterWith, Idle, Arrivals
  <2>2. \A r \in Runs : Asked(r) =>
          \E p \in {"pause", "steer", "revalidate", "propagate", "approve", "deny", "mumble"} :
              \E key : EnterWith(r, p, key)
    BY DEF Asked, PauseRun, SteerRun, ResumeRun, CancelRun, ResolveApproval, Enter
  <2>3. QED
    BY <2>1, <2>2
<1>8. ~ \E plan \in Plans : FreezePlan(plan)
  BY DEF FreezePlan, Uncounted, Idle, Arrivals
<1>9. ~ ((\E v \in 1..MaxPlans : StartRun(v)) \/ (\E r \in Runs : ForkRun(r)))
  BY DEF StartRun, ForkRun, Begin, Idle, Arrivals
<1>10. ~ (Create \/ Bind \/ GoOnReplayed \/ Die)
  BY JobGoes DEF Create, Bind, GoOnReplayed, Die, Arrivals
<1>11. ~Restart
  BY RestartStep DEF Idle, Arrivals
<1>12. QED
  BY <1>1, <1>2, <1>3, <1>4, <1>5, <1>6, <1>7, <1>8, <1>9, <1>10, <1>11, StepKinds, Zenon

-----------------------------------------------------------------------------
(* What the policy asks is approved before it happens.                     *)

\* What a longer log keeps, and what one more event can change.
Longer ==
    /\ Len(log) \in Nat /\ Len(log') \in Nat /\ Len(log) <= Len(log')
    /\ \A n \in 1..Len(log) : log'[n] = log[n]

LEMMA LogGetsLonger ==
    ASSUME Memory, LogMoves
    PROVE  Longer
<1>1. Len(log) \in Nat
  BY DEF Memory, Typed
<1>2. log' = log => Longer
  BY <1>1 DEF Longer
<1>3. (\E e \in EventType : LogGrows(e)) => Longer
  BY <1>1 DEF Longer, LogGrows
<1>4. QED
  BY <1>2, <1>3 DEF LogMoves

LEMMA ApprovedKept ==
    ASSUME Longer, NEW n \in Nat, n <= Len(log), NEW r, NEW s, ApprovedBy(log, n, r, s)
    PROVE  ApprovedBy(log', n, r, s)
<1>1. \A k \in 1..n : log'[k] = log[k]
  BY DEF Longer
<1>2. QED
  BY <1>1 DEF ApprovedBy

\* An event that is not a refusal leaves the last decision what it was.
LEMMA ApprovedStays ==
    ASSUME NEW e, LogGrows(e), e.type # "run.refused", NEW r, NEW s,
           ApprovedBy(log, Len(log), r, s)
    PROVE  ApprovedBy(log', Len(log'), r, s)
<1>1. PICK j \in 1..Len(log) :
        /\ log[j].type = "run.approved" /\ log[j].run = r /\ log[j].card.step = s
        /\ \A k \in 1..Len(log) :
            log[k].type = "run.refused" /\ log[k].run = r /\ log[k].card.step = s => k < j
  BY DEF ApprovedBy
<1>2. /\ Len(log) \in Nat /\ Len(log') = Len(log) + 1 /\ log'[Len(log) + 1] = e
      /\ \A k \in 1..Len(log) : log'[k] = log[k]
  BY DEF LogGrows
<1>3. j \in 1..Len(log') /\ log'[j] = log[j]
  BY <1>1, <1>2
<1>4. \A k \in 1..Len(log') : log'[k].type = "run.refused" => k \in 1..Len(log) /\ log'[k] = log[k]
  BY <1>2
<1>5. QED
  BY <1>1, <1>3, <1>4 DEF ApprovedBy

LEMMA GrantedKept ==
    ASSUME Memory, Granted, Longer, performed' = performed
    PROVE  Granted'
<1> SUFFICES ASSUME NEW i \in 1..Len(performed)
             PROVE  /\ performed[i].at <= Len(log')
                    /\ Classify(performed[i].kind) = "needs_approval" =>
                        ApprovedBy(log', performed[i].at, performed[i].run, performed[i].step)
                    /\ Classify(performed[i].kind) # "denied"
  BY DEF Granted
<1>1. performed[i] \in EffectType
  BY DEF Memory, Typed
<1> DEFINE n == performed[i].at
           r == performed[i].run
           s == performed[i].step
<1>2. n \in Nat
  BY <1>1 DEF EffectType
<1>3. n <= Len(log) /\ Classify(performed[i].kind) # "denied"
  BY DEF Granted
<1>4. n <= Len(log')
  BY <1>2, <1>3 DEF Longer
<1>5. ASSUME Classify(performed[i].kind) = "needs_approval"
      PROVE  ApprovedBy(log', n, r, s)
  <2>1. ApprovedBy(log, n, r, s)
    BY <1>5 DEF Granted
  <2>2. QED
    BY <1>2, <1>3, <2>1, ApprovedKept
<1>6. QED
  BY <1>3, <1>4, <1>5

\* The dropped steps stay out of a plan that does not grow.
Shrinks(r) ==
    Past.runs[r].state # "absent" =>
        /\ Past'.runs[r].state # "absent"
        /\ Ids(Past'.runs[r].remaining) \subseteq Ids(Past.runs[r].remaining)

LEMMA AllShrink ==
    ASSUME Memory, [Next]_vars, NEW r \in Runs
    PROVE  Shrinks(r)
<1>1. PastMoves
  BY PastMovesAlways
<1>2. CASE Past'.runs[r].remaining = Past.runs[r].remaining
  BY <1>1, <1>2 DEF PastMoves, Shrinks
<1>3. CASE r = job.run /\ (Refused \/ Prohibit \/ Completed)
  <2> DEFINE p == Past.runs[r]
  <2>1. r \in Runs /\ p \in RecordType /\ job.card \in CardType
    BY RecordsTyped DEF JobType
  <2>2. PICK type \in Dropping, s \in StepIds \cup {NoStep} :
            Write(StepEvent(type, job.run, s))
    <3>1. CASE Refused
      BY <2>1, <3>1 DEF Refused, Dropping, CardType
    <3>2. CASE Prohibit
      BY <3>2, NextTyped DEF Prohibit, Dropping, At, Running, StepType
    <3>3. CASE Completed
      BY <3>3, NextTyped DEF Completed, Dropping, At, Running, StepType
    <3>4. QED
      BY <1>3, <3>1, <3>2, <3>3
  <2>3. job.at \notin Starting \cup {"idle"}
    BY <1>3 DEF Refused, Prohibit, Completed, At, Starting
  <2>4. RunBecomes(job.run, Reduced(Rec, s), Reduced(p, s))
    BY <1>3, <2>2, <2>3, StepWritten
  <2>5. Ids(Reduced(p, s).remaining) = Ids(p.remaining) \ {s}
    BY <2>1, WithoutStepIds DEF Reduced, RecordType
  <2>6. Past'.runs[r] = Reduced(p, s)
    BY <1>3, <2>4 DEF RunBecomes
  <2>7. QED
    BY <1>1, <2>5, <2>6 DEF PastMoves, Shrinks
<1>4. CASE Past.runs[r].state = "absent"
  BY <1>4 DEF Shrinks
<1>5. QED
  BY <1>1, <1>2, <1>3, <1>4 DEF PastMoves

LEMMA DroppedKept ==
    ASSUME Memory, Dropped, LogMoves, ~Refused, performed' = performed,
           \A r \in Runs : Shrinks(r)
    PROVE  Dropped'
<1>1. \A k \in 1..Len(log') : log'[k].type = "run.effect_denied" =>
        k \in 1..Len(log) /\ log'[k] = log[k]
  <2>1. CASE log' = log
    BY <2>1
  <2>2. CASE log' # log
    <3>1. PICK e \in EventType : LogGrows(e) /\ e.type # "run.effect_denied"
      BY <2>2 DEF LogMoves
    <3>2. QED
      BY <3>1 DEF LogGrows
  <2>3. QED
    BY <2>1, <2>2
<1>2. ASSUME NEW r \in Runs, NEW s \in StepIds,
             \E k \in 1..Len(log') :
                log'[k].type = "run.effect_denied" /\ log'[k].run = r /\ log'[k].step = s
      PROVE  Past'.runs[r].state # "absent" /\ s \notin Done(r)' \cup Ids(Past'.runs[r].remaining)
  <2>1. Past.runs[r].state # "absent" /\ s \notin Done(r) \cup Ids(Past.runs[r].remaining)
    BY <1>1, <1>2 DEF Dropped
  <2>2. Done(r)' = Done(r) /\ Shrinks(r)
    BY DoneKept
  <2>3. QED
    BY <2>1, <2>2 DEF Shrinks
<1>3. QED
  BY <1>2 DEF Dropped

LEMMA GrantedPerform ==
    ASSUME Memory, Sanctioned, Perform
    PROVE  Granted' /\ Dropped'
<1>1. /\ up /\ job.at = "perform" /\ job.run \in Runs /\ log' = log /\ Past' = Past
  BY DEF Perform, At, Memory, Placed, durable, Past
<1>2. /\ Next1 \in StepType
      /\ \/ Classify(Next1.kind) = "allowed"
         \/ /\ Classify(Next1.kind) = "needs_approval"
            /\ ApprovedBy(log, Len(log), job.run, Next1.id)
  BY <1>1, NextTyped DEF Running, Sanctioned
<1> DEFINE eff == [run |-> job.run, step |-> Next1.id, kind |-> Next1.kind, at |-> Len(log)]
           m == Len(performed)
<1>3. performed \in Seq(EffectType) /\ Len(log) \in Nat
  BY DEF Memory, Typed
<1>4. eff \in EffectType
  BY <1>1, <1>2, <1>3 DEF EffectType, StepType
<1>5. performed' = Append(performed, eff)
  BY DEF Perform
<1>6. /\ eff.at = Len(log) /\ eff.run = job.run /\ eff.step = Next1.id /\ eff.kind = Next1.kind
  OBVIOUS
<1> HIDE DEF eff
<1>7. /\ m \in Nat /\ Len(performed') = m + 1 /\ performed'[m + 1] = eff
      /\ \A i \in 1..m : performed'[i] = performed[i]
  BY <1>3, <1>4, <1>5
<1>8. Granted'
  <2>1. \A i \in 1..m :
          /\ performed[i].at <= Len(log)
          /\ Classify(performed[i].kind) = "needs_approval" =>
              ApprovedBy(log, performed[i].at, performed[i].run, performed[i].step)
          /\ Classify(performed[i].kind) # "denied"
    BY DEF Sanctioned, Granted
  <2>2. /\ eff.at <= Len(log)
        /\ Classify(eff.kind) = "needs_approval" => ApprovedBy(log, eff.at, eff.run, eff.step)
        /\ Classify(eff.kind) # "denied"
    BY <1>2, <1>3, <1>6
  <2> HIDE DEF m
  <2>3. \A i \in 1..(m + 1) :
          /\ performed'[i].at <= Len(log)
          /\ Classify(performed'[i].kind) = "needs_approval" =>
              ApprovedBy(log, performed'[i].at, performed'[i].run, performed'[i].step)
          /\ Classify(performed'[i].kind) # "denied"
    <3> TAKE i \in 1..(m + 1)
    <3>1. CASE i \in 1..m
      BY <1>7, <2>1, <3>1
    <3>2. CASE i = m + 1
      BY <1>7, <2>2, <3>2
    <3>3. QED
      BY <1>7, <3>1, <3>2
  <2>4. QED
    BY <1>1, <1>7, <2>3 DEF Granted
<1>9. Dropped'
  <2> DEFINE p == Past.runs[job.run]
  <2>1. Next1.id \in Ids(p.remaining)
    <3>1. p.remaining = Rec.remaining /\ Rec.remaining \in Seq(StepType) /\ Rec.remaining # <<>>
      BY <1>1, KnownInPast, NextTyped DEF Running, Starting
    <3>2. Len(Rec.remaining) \in Nat /\ Len(Rec.remaining) # 0
      BY <3>1
    <3>3. Next1 = Rec.remaining[1] /\ 1 \in 1..Len(Rec.remaining)
      BY <3>1, <3>2 DEF Next1
    <3>4. QED
      BY <3>1, <3>3 DEF Ids
  <2>2. ASSUME NEW r \in Runs, NEW s \in StepIds,
               \E k \in 1..Len(log) :
                  log[k].type = "run.effect_denied" /\ log[k].run = r /\ log[k].step = s
        PROVE  Past.runs[r].state # "absent" /\ s \notin Done(r)' \cup Ids(Past.runs[r].remaining)
    <3>1. Past.runs[r].state # "absent" /\ s \notin Done(r) \cup Ids(Past.runs[r].remaining)
      BY <2>2 DEF Sanctioned, Dropped
    <3>2. r = job.run => s # Next1.id
      BY <2>1, <3>1
    <3>3. \A i \in 1..m : performed[i].run = r => performed[i].step # s
      BY <3>1 DEF Done
    <3> HIDE DEF m
    <3>4. \A i \in 1..(m + 1) : performed'[i].run = r => performed'[i].step # s
      BY <1>6, <1>7, <3>2, <3>3
    <3>5. s \notin Done(r)'
      BY <1>7, <3>4 DEF Done
    <3>6. QED
      BY <3>1, <3>5
  <2>3. QED
    BY <1>1, <2>2 DEF Dropped
<1>10. QED
  BY <1>8, <1>9

LEMMA DroppedRefused ==
    ASSUME Memory, Carded, Once, Dropped, Refused
    PROVE  Dropped'
<1> DEFINE e == StepEvent("run.effect_denied", job.run, job.card.step)
           c == job.card.step
           p == Past.runs[job.run]
<1>1. /\ job.at = "refused" /\ performed' = performed /\ Write(e)
  BY DEF Refused, At, Quiet
<1>2. /\ job.run \in Runs /\ job.card \in CardType /\ p \in RecordType
      /\ p.state # "absent" /\ p.remaining = Rec.remaining
  BY <1>1, KnownInPast, RecordsTyped DEF Starting, JobType
<1>3. c \in StepIds \cup {NoStep}
  BY <1>2 DEF CardType
<1>4. /\ LogGrows(e) /\ RunBecomes(job.run, Reduced(Rec, c), Reduced(p, c))
  BY <1>1, <1>3, StepWritten DEF Dropping, Starting
<1>5. e.run = job.run /\ e.step = c
  BY DEF StepEvent, Event
<1>6. c \in Ids(p.remaining)
  <2>1. Asking(p.remaining, c) /\ p.remaining \in Seq(StepType)
    BY <1>1, <1>2 DEF Carded, RecordType
  <2>2. p.remaining # <<>> /\ p.remaining[1].id = c
    BY <2>1 DEF Asking
  <2>3. Len(p.remaining) \in Nat /\ Len(p.remaining) # 0
    BY <2>1, <2>2
  <2>4. 1 \in 1..Len(p.remaining)
    BY <2>3
  <2>5. QED
    BY <2>2, <2>4 DEF Ids
<1>7. c \notin Done(job.run)
  BY <1>1, <1>6 DEF Once, CleanPlaces, Clean
<1>8. /\ Ids(Reduced(p, c).remaining) = Ids(p.remaining) \ {c}
      /\ Reduced(p, c).state = p.state
  BY <1>2, WithoutStepIds DEF Reduced, RecordType
<1> HIDE DEF e
<1>9. ASSUME NEW r \in Runs, NEW s \in StepIds,
             \E k \in 1..Len(log') :
                log'[k].type = "run.effect_denied" /\ log'[k].run = r /\ log'[k].step = s
      PROVE  Past'.runs[r].state # "absent" /\ s \notin Done(r)' \cup Ids(Past'.runs[r].remaining)
  <2>1. Done(r)' = Done(r)
    BY <1>1, DoneKept
  <2>2. CASE r = job.run /\ s = c
    <3>1. Past'.runs[r] = Reduced(p, c)
      BY <1>4, <2>2 DEF RunBecomes
    <3>2. QED
      BY <1>2, <1>7, <1>8, <2>1, <2>2, <3>1
  <2>3. CASE ~(r = job.run /\ s = c)
    <3>1. \E k \in 1..Len(log) :
            log[k].type = "run.effect_denied" /\ log[k].run = r /\ log[k].step = s
      BY <1>4, <1>5, <1>9, <2>3 DEF LogGrows
    <3>2. Past.runs[r].state # "absent" /\ s \notin Done(r) \cup Ids(Past.runs[r].remaining)
      BY <3>1 DEF Dropped
    <3>3. r # job.run => Past'.runs[r] = Past.runs[r]
      BY <1>4 DEF RunBecomes
    <3>4. r = job.run => Past'.runs[r] = Reduced(p, c)
      BY <1>4 DEF RunBecomes
    <3>5. QED
      BY <1>2, <1>8, <2>1, <3>2, <3>3, <3>4
  <2>4. QED
    BY <2>2, <2>3
<1>10. QED
  BY <1>9 DEF Dropped

\* The approval recorded last is the decision in force.
LEMMA ApproveApproves ==
    ASSUME Memory, Approve
    PROVE  job'.at = "approved" /\ ApprovedBy(log', Len(log'), job'.run, job'.card.step)
<1> DEFINE e == CardEvent("run.approved", job.run, job.card)
<1>1. Write(e) /\ job.at = "approve" /\ job'.at = "approved" /\ job'.run = job.run
      /\ job'.card = job.card
  BY JobGoes DEF Approve, Resolve, At
<1>2. LogGrows(e)
  BY <1>1, CardWritten DEF Resolving, Starting
<1>3. e.type = "run.approved" /\ e.run = job.run /\ e.card = job.card
  BY DEF CardEvent, Event
<1> HIDE DEF e
<1>4. /\ Len(log') \in 1..Len(log') /\ log'[Len(log')] = e
      /\ \A k \in 1..Len(log') : log'[k].type = "run.refused" => k < Len(log')
  <2>1. \A k \in 1..Len(log') : k # Len(log') => k < Len(log')
    BY <1>2 DEF LogGrows
  <2>2. QED
    BY <1>2, <1>3, <2>1 DEF LogGrows
<1>5. QED
  BY <1>1, <1>3, <1>4 DEF ApprovedBy

LEMMA ApprovedStepApproved ==
    ASSUME Memory, Carded, Sanctioned, Approved
    PROVE  /\ job'.at = "perform" /\ Classify(Next1'.kind) = "needs_approval"
           /\ ApprovedBy(log', Len(log'), job'.run, Next1'.id)
<1>1. /\ job.at = "approved" /\ IsApprovedStep(job.card) /\ Move("running")
      /\ job'.at = "perform" /\ job'.run = job.run
  BY JobGoes DEF Approved, At
<1>2. /\ LogGrows(StateEvent(job.run, "running")) /\ job.run \in Runs
      /\ RunBecomes(job.run, Moved(Rec, "running"), Moved(Past.runs[job.run], "running"))
  BY <1>1, MoveWritten DEF States, Starting
<1>3. Rec \in RecordType
  BY <1>2, RecordsTyped DEF Rec
<1>4. Rec'.remaining = Rec.remaining
  BY <1>1, <1>2, <1>3 DEF RunBecomes, Moved, RecordType, Rec
<1>5. Next1' = Next1
  BY <1>4 DEF Next1
<1>6. Next1.id = job.card.step /\ Classify(Next1.kind) = "needs_approval"
  BY <1>1 DEF Carded, Asking, IsApprovedStep, Next1
<1>7. StateEvent(job.run, "running").type # "run.refused"
  BY DEF StateEvent, Event
<1>8. ApprovedBy(log, Len(log), job.run, Next1.id)
  BY <1>1, <1>6 DEF Sanctioned
<1>9. ApprovedBy(log', Len(log'), job.run, Next1.id)
  BY <1>2, <1>7, <1>8, ApprovedStays
<1>10. QED
  BY <1>1, <1>5, <1>6, <1>9

LEMMA SanctionedStep ==
    ASSUME Memory, Carded, Once, Sanctioned, [Next]_vars
    PROVE  Sanctioned'
<1>1. LogMoves /\ Longer /\ \A r \in Runs : Shrinks(r)
  BY LogMovesAlways, LogGetsLonger, AllShrink
<1>2. Granted' /\ Dropped'
  <2>1. CASE Perform
    BY <2>1, GrantedPerform
  <2>2. CASE Refused
    <3>1. performed' = performed
      BY <2>2 DEF Refused, Quiet
    <3>2. QED
      BY <1>1, <2>2, <3>1, GrantedKept, DroppedRefused DEF Sanctioned
  <2>3. CASE ~Perform /\ ~Refused
    <3>1. performed' = performed
      BY <2>3, EffectsAlways
    <3>2. QED
      BY <1>1, <2>3, <3>1, GrantedKept, DroppedKept DEF Sanctioned
  <2>4. QED
    BY <2>1, <2>2, <2>3
<1>3. CASE job'.at \notin {"approved", "perform"}
  BY <1>2, <1>3 DEF Sanctioned
<1>4. CASE job'.at \in {"approved", "perform"}
  <2>1. \/ Approve \/ Approved \/ Pending \/ Perform \/ Intent \/ Result
        \/ Verify \/ Checked \/ CheckedAgain \/ Verdict
        \/ UNCHANGED vars
    BY <1>4, ArrivalsAlways DEF Arrivals
  <2>2. CASE Approve
    BY <1>2, <2>2, ApproveApproves DEF Sanctioned
  <2>3. CASE Approved
    BY <1>2, <2>3, ApprovedStepApproved DEF Sanctioned
  <2>4. CASE Pending
    <3>1. /\ job'.at = "perform" => Rec.remaining # <<>> /\ Classify(Next1.kind) = "allowed"
          /\ job'.at # "approved"
      BY <2>4, JobGoes DEF Pending, Classify
    <3>2. index' = index /\ (job'.at = "perform" => job'.run = job.run)
      BY <2>4, JobGoes DEF Pending
    <3>3. job'.at = "perform" => Next1' = Next1
      BY <3>2 DEF Next1, Rec
    <3>4. QED
      BY <1>2, <3>1, <3>3 DEF Sanctioned
  <2>5. CASE Perform \/ Intent \/ Result \/ Verify \/ Checked \/ CheckedAgain \/ Verdict
    <3>1. job'.at \notin {"approved", "perform"}
      <4>1. CASE Checked \/ CheckedAgain
        BY <4>1, NextCheckTyped DEF Checked, CheckedAgain
      <4>2. CASE Perform \/ Intent \/ Result \/ Verify \/ Verdict
        BY <4>2, JobGoes DEF Perform, Intent, Result, Verify, Verdict
      <4>3. QED
        BY <2>5, <4>1, <4>2
    <3>2. QED
      BY <1>4, <3>1
  <2>6. CASE UNCHANGED vars
    <3>1. log' = log /\ job' = job /\ index' = index
      BY <2>6 DEF vars
    <3>2. Next1' = Next1
      BY <3>1 DEF Next1, Rec
    <3>3. QED
      BY <1>2, <3>1, <3>2 DEF Sanctioned
  <2>7. QED
    BY <2>1, <2>2, <2>3, <2>4, <2>5, <2>6
<1>5. QED
  BY <1>3, <1>4

LEMMA InitSanctioned ==
    ASSUME Init
    PROVE  Sanctioned
BY DEF Init, Idle, Sanctioned, Granted, Dropped

\* With what is known of the cards and of what was performed, why it was.
LEMMA EngineSanctioned == Spec => []Sanctioned
<1>1. Init => Steered /\ Once /\ Sanctioned
  BY InitMemory, InitCarded, InitOnce, InitSanctioned DEF Steered, Init, Down
<1>2. Steered /\ Once /\ Sanctioned /\ [Next]_vars => (Steered /\ Once /\ Sanctioned)'
  BY MemoryStep, CardedStep, DownStep, OnceStep, SanctionedStep DEF Steered
<1>3. QED
  BY <1>1, <1>2, PTL DEF Spec

LEMMA SanctionedApproves == Typed /\ Sanctioned => EffectsApproved
<1> SUFFICES ASSUME Typed, Sanctioned, NEW i \in 1..Len(performed)
             PROVE  LET p == performed[i]
                        Told(type) == {j \in 1..p.at : /\ log[j].type = type /\ log[j].run = p.run
                                                       /\ log[j].card.step = p.step}
                    IN  /\ Classify(p.kind) = "needs_approval" =>
                             \E j \in Told("run.approved") : \A k \in Told("run.refused") : k < j
                        /\ Classify(p.kind) # "denied"
                        /\ \A k \in 1..Len(log) :
                              log[k] # StepEvent("run.effect_denied", p.run, p.step)
  BY DEF EffectsApproved
<1> DEFINE p == performed[i]
<1>1. p \in EffectType
  BY DEF Typed
<1>2. /\ Classify(p.kind) = "needs_approval" => ApprovedBy(log, p.at, p.run, p.step)
      /\ Classify(p.kind) # "denied"
  BY DEF Sanctioned, Granted
<1>3. p.run \in Runs /\ p.step \in StepIds /\ p.step \in Done(p.run)
  BY <1>1 DEF EffectType, Done
<1> HIDE DEF p
<1>4. \A k \in 1..Len(log) : log[k] # StepEvent("run.effect_denied", p.run, p.step)
  <2>1. LET e == StepEvent("run.effect_denied", p.run, p.step) IN
        e.type = "run.effect_denied" /\ e.run = p.run /\ e.step = p.step
    BY DEF StepEvent, Event
  <2>2. QED
    BY <1>3, <2>1 DEF Sanctioned, Dropped
<1>5. QED
  BY <1>2, <1>4 DEF ApprovedBy, p

\* resolve_approval and execute_pending: an edit or a command follows an approval of that very
\* step that no refusal has followed, and what the policy or a person denied is never done.
THEOREM EffectsAreApproved == Spec => []EffectsApproved
<1>1. Steered /\ Sanctioned => EffectsApproved
  BY SanctionedApproves DEF Steered, Memory
<1>2. QED
  BY <1>1, EngineSteered, EngineSanctioned, PTL

-----------------------------------------------------------------------------
(* A run succeeds with every step of its plan settled.                     *)

LEMMA LoggedKept ==
    ASSUME Longer, NEW r, NEW s, NEW type
    PROVE  Logged(r, s, type) \subseteq Logged(r, s, type)'
BY DEF Logged, Longer

\* The effects only grow in number.
LEMMA EffectsGrow ==
    ASSUME Memory, [Next]_vars
    PROVE  /\ \A i \in 1..Len(performed) : i \in 1..Len(performed') /\ performed'[i] = performed[i]
           /\ Perform => /\ Performed(job.run, Next1)'
                         /\ job'.at = "intent" /\ job'.run = job.run /\ Next1' = Next1
<1>1. CASE performed' = performed /\ ~Perform
  BY <1>1
<1>2. CASE Perform
  <2> DEFINE eff == [run |-> job.run, step |-> Next1.id, kind |-> Next1.kind, at |-> Len(log)]
  <2>1. /\ job.at = "perform" /\ job.run \in Runs /\ performed' = Append(performed, eff)
        /\ index' = index /\ job'.at = "intent" /\ job'.run = job.run
    BY <1>2, JobGoes DEF Perform, At, Memory, Placed
  <2>2. performed \in Seq(EffectType) /\ Len(log) \in Nat /\ Next1 \in StepType
    BY <2>1, NextTyped DEF Memory, Typed, Running
  <2>3. /\ eff \in EffectType
        /\ eff.run = job.run /\ eff.step = Next1.id /\ eff.kind = Next1.kind
    BY <2>1, <2>2 DEF EffectType, StepType
  <2> HIDE DEF eff
  <2>4. /\ \A i \in 1..Len(performed) : i \in 1..Len(performed') /\ performed'[i] = performed[i]
        /\ Len(performed') \in 1..Len(performed') /\ performed'[Len(performed')] = eff
    BY <2>1, <2>2, <2>3
  <2>5. Next1' = Next1
    BY <2>1 DEF Next1, Rec
  <2>6. Performed(job.run, Next1)'
    BY <2>1, <2>3, <2>4, <2>5 DEF Performed
  <2>7. QED
    BY <2>1, <2>4, <2>5, <2>6
<1>3. QED
  BY <1>1, <1>2, EffectsAlways

LEMMA PerformedKept ==
    ASSUME Memory, [Next]_vars, NEW r, NEW x, Performed(r, x)
    PROVE  \E i \in 1..Len(performed') :
                performed'[i].run = r /\ performed'[i].step = x.id /\ performed'[i].kind = x.kind
BY EffectsGrow DEF Performed

LEMMA SettledKept ==
    ASSUME Longer, Memory, [Next]_vars, NEW r, NEW x, Settled(r, x)
    PROVE  Settled(r, x)'
<1>1. \A type : Logged(r, x.id, type) \subseteq Logged(r, x.id, type)'
  BY LoggedKept
<1>2. Performed(r, x) => Performed(r, x)'
  BY PerformedKept DEF Performed
<1>3. QED
  BY <1>1, <1>2 DEF Settled

\* The event appended is one of those that Logged finds.
LEMMA LoggedLast ==
    ASSUME NEW type, NEW r, NEW s, LogGrows(StepEvent(type, r, s))
    PROVE  Len(log) + 1 \in Logged(r, s, type)'
BY DEF LogGrows, Logged

\* Of the steps of one id, the first is at the head once any is.
LEMMA HeadIsFirst ==
    ASSUME NEW steps \in Seq(StepType), steps # <<>>, NEW x \in Firsts(steps),
           x.id = Head(steps).id
    PROVE  x = Head(steps)
<1>1. PICK n \in 1..Len(steps) : First(steps, n) /\ x = steps[n]
  BY DEF Firsts
<1>2. Len(steps) \in Nat /\ Head(steps) = steps[1]
  OBVIOUS
<1>3. n = 1
  BY <1>1, <1>2 DEF First
<1>4. QED
  BY <1>1, <1>2, <1>3

\* The step that leaves the plan is settled by the event that drops it.
LEMMA DroppedSettled ==
    ASSUME Memory, Accounted, [Next]_vars, NEW type \in Dropping, NEW s,
           \/ Refused /\ type = "run.effect_denied" /\ s = job.card.step
           \/ Prohibit /\ type = "run.effect_denied_by_policy" /\ s = Next1.id
           \/ Completed /\ type = "run.effect_completed" /\ s = Next1.id,
           LogGrows(StepEvent(type, job.run, s)),
           NEW r \in Runs, r = job.run,
           NEW x \in Firsts(Rec.remaining), x.id = s
    PROVE  Settled(r, x)'
<1>1. Len(log) + 1 \in Logged(r, s, type)'
  BY LoggedLast
<1>2. CASE type \in {"run.effect_denied", "run.effect_denied_by_policy"}
  BY <1>1, <1>2 DEF Settled
<1>3. CASE Completed /\ type = "run.effect_completed" /\ s = Next1.id
  <2>1. job.at = "completed" /\ performed' = performed
    BY <1>3 DEF Completed, At, Quiet
  <2>2. x = Next1
    BY <1>3, <2>1, NextTyped, HeadIsFirst DEF Running, Next1
  <2>3. Performed(r, x)'
    <3>1. Performed(r, x)
      BY <2>1, <2>2 DEF Accounted
    <3>2. QED
      BY <2>1, <3>1 DEF Performed
  <2>4. PICK i \in Logged(r, s, "effect.intent_recorded"),
             j \in Logged(r, s, "effect.result_recorded") : i < j
    BY <1>3, <2>1 DEF Accounted
  <2>5. Longer
    BY DEF LogGrows, Longer
  <2>6. /\ i \in Logged(r, s, "effect.intent_recorded")'
        /\ j \in Logged(r, s, "effect.result_recorded")'
    BY <2>4, <2>5, LoggedKept
  <2>7. j < Len(log) + 1
    BY <2>4 DEF Logged, LogGrows
  <2>8. QED
    BY <1>1, <1>3, <2>3, <2>4, <2>6, <2>7 DEF Settled
<1>4. QED
  BY <1>2, <1>3

LEMMA PlannedDropping ==
    ASSUME Memory, Carded, Accounted, Refused \/ Prohibit \/ Completed, [Next]_vars
    PROVE  \A r \in Runs : Planned(r)' /\ Ended(r)'
<1> DEFINE p == Past.runs[job.run]
<1>1. job.at \in {"refused", "prohibit", "completed"} /\ stored' = stored
  BY DEF Refused, Prohibit, Completed, At
<1>2. /\ job.run \in Runs /\ p \in RecordType /\ p.state # "absent" /\ p.remaining = Rec.remaining
      /\ job.card \in CardType
  BY <1>1, KnownInPast, RecordsTyped DEF Starting, JobType
<1>3. PICK type \in Dropping, s \in StepIds \cup {NoStep} :
        /\ \/ Refused /\ type = "run.effect_denied" /\ s = job.card.step
           \/ Prohibit /\ type = "run.effect_denied_by_policy" /\ s = Next1.id
           \/ Completed /\ type = "run.effect_completed" /\ s = Next1.id
        /\ Write(StepEvent(type, job.run, s))
  <2>1. CASE Refused
    BY <1>2, <2>1 DEF Refused, Dropping, CardType
  <2>2. CASE Prohibit
    BY <2>2, NextTyped DEF Prohibit, Dropping, At, Running, StepType
  <2>3. CASE Completed
    BY <2>3, NextTyped DEF Completed, Dropping, At, Running, StepType
  <2>4. QED
    BY <2>1, <2>2, <2>3
<1>4. /\ LogGrows(StepEvent(type, job.run, s))
      /\ RunBecomes(job.run, Reduced(Rec, s), Reduced(p, s))
  BY <1>1, <1>3, StepWritten DEF Starting
<1>5. \A r \in Runs : r = job.run =>
        \A x \in Firsts(p.remaining) : x.id = s => Settled(r, x)'
  BY <1>2, <1>3, <1>4, DroppedSettled
<1>6. /\ \A x \in Firsts(p.remaining) : x.id # s => x \in Firsts(Reduced(p, s).remaining)
      /\ Reduced(p, s).state = p.state /\ Reduced(p, s).version = p.version
  BY <1>2, WithoutStepIds DEF Reduced, RecordType
<1>7. Longer
  BY <1>4 DEF LogGrows, Longer
<1>8. \A r \in Runs : Planned(r) /\ Ended(r)
  BY DEF Accounted
<1>9. p.remaining # <<>>
  BY <1>1, <1>2 DEF Carded, Asking, Memory, Placed, Running
<1>10. ASSUME NEW r \in Runs, r # job.run
       PROVE  Planned(r)' /\ Ended(r)'
  <2>1. Past'.runs[r] = Past.runs[r] /\ Past'.plans = Past.plans
    BY <1>4, <1>10 DEF RunBecomes
  <2>2. \A x : Settled(r, x) => Settled(r, x)'
    BY <1>7, SettledKept
  <2>3. QED
    BY <1>1, <1>8, <2>1, <2>2 DEF Planned, Ended
<1>11. ASSUME NEW r \in Runs, r = job.run
       PROVE  Planned(r)' /\ Ended(r)'
  <2>1. Past'.runs[r] = Reduced(p, s) /\ Past'.plans = Past.plans
    BY <1>4, <1>11 DEF RunBecomes
  <2>2. \A x : Settled(r, x) => Settled(r, x)'
    BY <1>7, SettledKept
  <2>3. \A x \in Firsts(p.remaining) : x.id = s => Settled(r, x)'
    BY <1>5, <1>11
  <2>4. Planned(r) /\ Ended(r)
    BY <1>8
  <2>5. p.version \in 1..Len(Past.plans)
        /\ \A x \in Firsts(Past.plans[p.version].steps) :
            x \in Firsts(p.remaining) \/ Settled(r, x)
    BY <1>2, <1>11, <2>4 DEF Planned
  <2>6. \A x \in Firsts(Past.plans[p.version].steps) :
            x \in Firsts(Reduced(p, s).remaining) \/ Settled(r, x)'
    BY <1>6, <2>2, <2>3, <2>5
  <2>7. Planned(r)'
    BY <1>6, <2>1, <2>5, <2>6 DEF Planned
  <2>8. stored[r] # "succeeded"
    BY <1>9, <1>11, <2>4 DEF Ended
  <2>9. QED
    BY <1>1, <2>7, <2>8 DEF Ended
<1>12. QED
  BY <1>10, <1>11

\* Only Finish lets a run succeed, and then nothing of its plan is left.
LEMMA StoredAlways ==
    ASSUME Memory, Accounted, [Next]_vars, NEW r \in Runs, stored'[r] = "succeeded"
    PROVE  \/ stored[r] = "succeeded"
           \/ r = job.run /\ Past.runs[r].state # "absent" /\ Past.runs[r].remaining = <<>>
<1>0. stored \in [Runs -> States \cup {"absent"}]
  BY DEF Memory, Typed
<1>1. CASE Baseline \/ Lineage \/ Pause \/ Steer \/ Revalidate \/ Propagate \/ Intent
              \/ Result \/ Checked \/ Verdict
  BY <1>1, FixedSteps DEF Steady
<1>2. CASE Approve \/ Refuse \/ Mumble \/ Refused \/ Prohibit \/ Completed \/ Wait
  BY <1>2 DEF Approve, Refuse, Mumble, Resolve, Refused, Prohibit, Completed, Wait
<1>3. CASE GoOn \/ Cancel \/ Approved \/ Block
  <2>1. \E target \in {"running", "cancelled", "blocked"} :
            stored' = [stored EXCEPT ![job.run] = target]
    BY <1>3 DEF GoOn, Cancel, Approved, Block, Move
  <2>2. QED
    BY <1>0, <2>1
<1>4. CASE Finish
  <2>1. job.at = "finish" /\ \E target : stored' = [stored EXCEPT ![job.run] = target]
    BY <1>4 DEF Finish, Move, At
  <2>2. Past.runs[job.run].state # "absent" /\ Past.runs[job.run].remaining = <<>>
    BY <2>1, KnownInPast DEF Accounted, Starting
  <2>3. QED
    BY <1>0, <2>1, <2>2
<1>5. CASE Pending \/ Perform \/ Verify \/ CheckedAgain \/ StepFails \/ StepRefused \/ (\E q \in Runs : Expire(q))
           \/ GoOnReplayed \/ Die \/ Restart \/ UNCHANGED vars
  BY <1>5 DEF Pending, Perform, Verify, CheckedAgain, StepFails, StepRefused, Expire, GoOnReplayed, Die, Restart, vars,
              durable
<1>6. CASE (\E q \in Runs : Asked(q)) \/ (\E v \in 1..MaxPlans : StartRun(v))
           \/ (\E q \in Runs : ForkRun(q)) \/ \E plan \in Plans : FreezePlan(plan)
  BY <1>6 DEF Asked, PauseRun, SteerRun, ResumeRun, CancelRun, ResolveApproval, Enter, EnterWith,
              StartRun, ForkRun, Begin, FreezePlan, durable
<1>7. CASE Create
  BY <1>0, <1>7 DEF Create
<1>8. CASE Bind
  BY <1>8 DEF Bind
<1>9. QED
  BY <1>1, <1>2, <1>3, <1>4, <1>5, <1>6, <1>7, <1>8, StepKinds, Zenon

LEMMA PlannedBind ==
    ASSUME Memory, Bind, NEW r \in Runs, r = job.run
    PROVE  Planned(r)'
<1> DEFINE v == job.version
           steps == Past.plans[v].steps
<1>1. /\ v \in 1..Len(Past.plans) /\ Past \in IndexType
      /\ Past' = [Past EXCEPT !.runs[r] = Bound("", steps, v)]
  BY BindStep DEF Memory, Typed
<1> HIDE DEF v, steps
<1>2. Past'.runs[r] = Bound("", steps, v) /\ Past'.plans = Past.plans
  BY <1>1 DEF IndexType
<1>3. Past'.runs[r].version = v /\ Past'.runs[r].remaining = steps
  <2>1. \A w : Bound(w, steps, v).version = v /\ Bound(w, steps, v).remaining = steps
    BY BoundFields
  <2>2. QED
    BY <1>2, <2>1
<1>4. QED
  BY <1>1, <1>2, <1>3 DEF Planned, steps

LEMMA PlannedAlways ==
    ASSUME Memory, Carded, Accounted, [Next]_vars
    PROVE  \A r \in Runs : Planned(r)' /\ Ended(r)'
<1>1. CASE Refused \/ Prohibit \/ Completed
  BY <1>1, PlannedDropping
<1>2. CASE ~(Refused \/ Prohibit \/ Completed)
  <2> SUFFICES ASSUME NEW r \in Runs
               PROVE  Planned(r)' /\ Ended(r)'
    OBVIOUS
  <2>1. PastMoves /\ Longer /\ Planned(r) /\ Ended(r)
    BY PastMovesAlways, LogMovesAlways, LogGetsLonger DEF Accounted
  <2>2. CASE Past.runs[r].state # "absent"
    <3>1. /\ Past'.runs[r].state # "absent"
          /\ Past'.runs[r].version = Past.runs[r].version
          /\ Past'.runs[r].remaining = Past.runs[r].remaining
      BY <1>2, <2>1, <2>2 DEF PastMoves
    <3> DEFINE v == Past.runs[r].version
    <3>2. v \in 1..Len(Past.plans)
          /\ \A x \in Firsts(Past.plans[v].steps) :
                x \in Firsts(Past.runs[r].remaining) \/ Settled(r, x)
      BY <2>1, <2>2 DEF Planned
    <3>3. v \in 1..Len(Past'.plans) /\ Past'.plans[v] = Past.plans[v]
      BY <2>1, <3>2 DEF PastMoves
    <3>4. \A x : Settled(r, x) => Settled(r, x)'
      BY <2>1, SettledKept
    <3>5. \A x \in Firsts(Past'.plans[v].steps) :
            x \in Firsts(Past'.runs[r].remaining) \/ Settled(r, x)'
      BY <3>1, <3>2, <3>3, <3>4
    <3>6. Planned(r)'
      BY <3>1, <3>3, <3>5 DEF Planned
    <3>7. stored'[r] = "succeeded" => Past.runs[r].remaining = <<>>
      BY <2>1, StoredAlways DEF Ended
    <3>8. QED
      BY <3>1, <3>6, <3>7 DEF Ended
  <2>3. CASE Past.runs[r].state = "absent"
    <3>1. stored'[r] # "succeeded"
      BY <2>1, <2>3, StoredAlways DEF Ended
    <3>2. CASE Past'.runs[r].state = "absent"
      BY <3>1, <3>2 DEF Planned, Ended
    <3>3. CASE Past'.runs[r].state # "absent"
      <4>1. Bind /\ r = job.run
        BY <2>1, <2>3, <3>3 DEF PastMoves
      <4>2. QED
        BY <3>1, <4>1, PlannedBind DEF Ended
    <3>4. QED
      BY <3>2, <3>3
  <2>4. QED
    BY <2>2, <2>3
<1>3. QED
  BY <1>1, <1>2

LEMMA AccountedStep ==
    ASSUME Memory, Carded, Accounted, [Next]_vars
    PROVE  Accounted'
<1>1. \A r \in Runs : Planned(r)' /\ Ended(r)'
  BY PlannedAlways
<1>2. CASE job'.at \notin Arrivals
  BY <1>1, <1>2 DEF Accounted, Arrivals
<1>3. CASE job'.at \in Arrivals
  <2>1. \/ Approve \/ Approved \/ Pending \/ Perform \/ Intent \/ Result
        \/ Verify \/ Checked \/ CheckedAgain \/ Verdict
        \/ UNCHANGED vars
    BY <1>3, ArrivalsAlways
  <2>2. CASE Approve \/ Approved
    <3>1. job'.at \in {"approved", "perform"}
      BY <2>2, JobGoes DEF Approve, Resolve, Approved
    <3>2. QED
      BY <1>1, <3>1 DEF Accounted
  <2>3. CASE Pending
    <3>1. /\ job'.at \in {"verify", "prohibit", "perform", "block", "idle"}
          /\ job'.at = "verify" => Rec.remaining = <<>> /\ job'.run = job.run
      BY <2>3, JobGoes DEF Pending
    <3>2. index' = index
      BY <2>3 DEF Pending
    <3>3. job'.at = "verify" => Rec'.remaining = <<>>
      BY <3>1, <3>2 DEF Rec
    <3>4. QED
      BY <1>1, <3>1, <3>3 DEF Accounted
  <2>4. CASE Verify \/ Checked \/ CheckedAgain \/ Verdict
    <3>1. /\ job.at \in {"verify", "passes", "fails"} /\ job'.run = job.run
          /\ job'.at \in {"verify", "passes", "fails", "finish"}
      <4>1. CASE Checked \/ CheckedAgain
        BY <4>1, NextCheckTyped DEF Checked, CheckedAgain
      <4>2. CASE Verify \/ Verdict
        BY <4>2, JobGoes DEF Verify, Verdict, At
      <4>3. QED
        BY <2>4, <4>1, <4>2
    <3>2. index' = index
      <4>1. CASE Verify \/ CheckedAgain
        BY <4>1 DEF Verify, CheckedAgain
      <4>2. CASE Checked \/ Verdict
        BY <4>2, FixedSteps DEF Steady
      <4>3. QED
        BY <2>4, <4>1, <4>2
    <3>3. Rec'.remaining = <<>>
      BY <3>1, <3>2 DEF Rec, Accounted
    <3>4. QED
      BY <1>1, <3>1, <3>3 DEF Accounted
  <2>7. CASE Perform
    <3>1. /\ job'.at = "intent" /\ job'.run = job.run /\ Next1' = Next1
          /\ Performed(job.run, Next1)'
      BY <2>7, EffectsGrow
    <3>2. QED
      BY <1>1, <3>1 DEF Accounted
  <2>5. CASE Intent \/ Result
    <3>1. /\ index' = index /\ job.at \in {"intent", "result"} /\ job'.run = job.run
          /\ job.run \in Runs
      BY <2>5, FixedSteps, JobGoes DEF Steady, Intent, Result, At
    <3>2. Next1' = Next1 /\ Next1 \in StepType
      BY <3>1, NextTyped DEF Next1, Rec, Running
    <3> DEFINE r == job.run
               s == Next1.id
               type == IF job.at = "intent" THEN "effect.intent_recorded"
                                            ELSE "effect.result_recorded"
    <3>3. log' = Append(log, StepEvent(type, r, s))
      BY <2>5 DEF Intent, Result, Write, At
    <3>4. type \in EventNames /\ s \in StepIds
      BY <3>2 DEF EventNames, StepType
    <3>5. StepEvent(type, r, s) \in EventType
      BY <3>1, <3>4, EventsTyped
    <3>6. LogGrows(StepEvent(type, r, s))
      BY <3>3, <3>5, Appended
    <3>7. Longer
      BY <3>6 DEF LogGrows, Longer
    <3>8. \A i \in Logged(r, s, "effect.intent_recorded") :
            i \in 1..Len(log) /\ log'[i] = StepEvent("effect.intent_recorded", r, s)
            /\ i \in 1..Len(log')
      BY <3>7 DEF Logged, Longer
    <3>9. Len(log) + 1 \in 1..Len(log') /\ log'[Len(log) + 1] = StepEvent(type, r, s)
      BY <3>6 DEF LogGrows
    <3>13. Performed(job.run, Next1)'
      <4>1. performed' = performed
        BY <2>5 DEF Intent, Result, Quiet
      <4>2. Performed(job.run, Next1)
        BY <3>1 DEF Accounted
      <4>3. QED
        BY <3>1, <3>2, <4>1, <4>2 DEF Performed
    <3>10. CASE Intent
      <4>1. job.at = "intent" /\ job'.at = "result"
        BY <3>10, JobGoes DEF Intent, At
      <4>2. \E i \in 1..Len(log') : log'[i] = StepEvent("effect.intent_recorded", r, s)
        BY <3>9, <4>1
      <4>3. Logged(job.run, Next1.id, "effect.intent_recorded")' # {}
        BY <3>1, <3>2, <4>2 DEF Logged
      <4>4. QED
        BY <1>1, <3>13, <4>1, <4>3 DEF Accounted
    <3>11. CASE Result
      <4>1. job.at = "result" /\ job'.at = "completed"
        BY <3>11, JobGoes DEF Result, At
      <4>2. PICK i \in Logged(r, s, "effect.intent_recorded") : TRUE
        BY <4>1 DEF Accounted
      <4> DEFINE j == Len(log) + 1
      <4>3. /\ i \in 1..Len(log') /\ log'[i] = StepEvent("effect.intent_recorded", r, s)
            /\ j \in 1..Len(log') /\ log'[j] = StepEvent("effect.result_recorded", r, s)
            /\ i < j
        BY <3>8, <3>9, <4>1, <4>2
      <4>4. /\ i \in Logged(job.run, Next1.id, "effect.intent_recorded")'
            /\ j \in Logged(job.run, Next1.id, "effect.result_recorded")'
        BY <3>1, <3>2, <4>3 DEF Logged
      <4>5. \E m \in Logged(job.run, Next1.id, "effect.intent_recorded")',
               n \in Logged(job.run, Next1.id, "effect.result_recorded")' : m < n
        BY <4>3, <4>4
      <4>6. QED
        BY <1>1, <3>13, <4>1, <4>5 DEF Accounted
    <3>12. QED
      BY <2>5, <3>10, <3>11
  <2>6. CASE UNCHANGED vars
    <3>1. log' = log /\ job' = job /\ index' = index /\ performed' = performed
      BY <2>6 DEF vars
    <3>2. Rec' = Rec /\ Next1' = Next1
      BY <3>1 DEF Next1, Rec
    <3>3. \A type : Logged(job.run, Next1.id, type)' = Logged(job.run, Next1.id, type)
      BY <3>1, <3>2 DEF Logged
    <3>4. Performed(job.run, Next1)' <=> Performed(job.run, Next1)
      BY <3>1, <3>2 DEF Performed
    <3>5. QED
      BY <1>1, <3>1, <3>2, <3>3, <3>4 DEF Accounted
  <2>8. QED
    BY <2>1, <2>2, <2>3, <2>4, <2>5, <2>6, <2>7
<1>4. QED
  BY <1>2, <1>3

LEMMA InitAccounted ==
    ASSUME Init
    PROVE  Accounted
<1>1. Past = EmptyIndex /\ job.at = "idle" /\ \A r \in Runs : stored[r] = "absent"
  BY InitMemory DEF Init, Idle
<1>2. \A r \in Runs : Past.runs[r].state = "absent"
  BY <1>1 DEF EmptyIndex, Unknown
<1>3. QED
  BY <1>1, <1>2 DEF Accounted, Planned, Ended

LEMMA EngineAccounted == Spec => []Accounted
<1>1. Init => Steered /\ Accounted
  BY InitMemory, InitCarded, InitAccounted DEF Steered, Init, Down
<1>2. Steered /\ Accounted /\ [Next]_vars => (Steered /\ Accounted)'
  BY MemoryStep, CardedStep, DownStep, AccountedStep DEF Steered
<1>3. QED
  BY <1>1, <1>2, PTL DEF Spec

-----------------------------------------------------------------------------
(* The checks of an acceptance are made once.                              *)

\* A run is blocked in the memory by Block alone.
BlocksAlone ==
    \A r \in Runs :
        up' /\ index'.runs[r].workspace = "ws" /\ index'.runs[r].state = "blocked" =>
            \/ up /\ index.runs[r].workspace = "ws" /\ index.runs[r].state = "blocked"
            \/ r = job.run /\ Block

LEMMA BlocksAloneOne ==
    ASSUME NEW a, NEW b, RunBecomes(job.run, a, b), up,
           \/ a.workspace = Rec.workspace /\ a.state = Rec.state
           \/ a.state # "blocked" \/ Block
    PROVE  BlocksAlone
BY DEF BlocksAlone, RunBecomes, Rec

LEMMA BlocksAloneRecord ==
    ASSUME Memory,
           Approve \/ Refuse \/ Mumble \/ Refused \/ Prohibit \/ Completed \/ Wait
    PROVE  BlocksAlone
<1>1. job.at \notin Starting \cup {"idle"}
  BY DEF Approve, Refuse, Mumble, Resolve, Refused, Prohibit, Completed, Wait, At, Starting
<1>2. /\ job.run \in Runs /\ up /\ Rec \in RecordType /\ job.card \in CardType
      /\ Past.runs[job.run] \in RecordType
  BY <1>1, KnownInPast, RecordsTyped DEF JobType, Rec
<1>3. CASE Approve \/ Refuse \/ Mumble \/ Wait
  <2>1. PICK type \in Resolving \cup {"run.waiting_approval"} :
          Write(CardEvent(type, job.run, job.card))
    BY <1>3 DEF Approve, Refuse, Mumble, Resolve, Wait, Resolving
  <2>2. \A c : /\ Resolution(Rec, c).state = Rec.state
               /\ Resolution(Rec, c).workspace = Rec.workspace
               /\ Waiting(Rec, c).state = Rec.state /\ Waiting(Rec, c).workspace = Rec.workspace
    BY <1>2 DEF Resolution, Waiting, RecordType
  <2>3. QED
    BY <1>1, <1>2, <2>1, <2>2, CardWritten, BlocksAloneOne
<1>4. CASE Refused \/ Prohibit \/ Completed
  <2>1. PICK type \in Dropping, s \in StepIds \cup {NoStep} :
            Write(StepEvent(type, job.run, s))
    <3>1. CASE Refused
      BY <1>2, <3>1 DEF Refused, Dropping, CardType
    <3>2. CASE Prohibit
      BY <3>2, NextTyped DEF Prohibit, Dropping, At, Running, StepType
    <3>3. CASE Completed
      BY <3>3, NextTyped DEF Completed, Dropping, At, Running, StepType
    <3>4. QED
      BY <1>4, <3>1, <3>2, <3>3
  <2>2. RunBecomes(job.run, Reduced(Rec, s), Reduced(Past.runs[job.run], s))
    BY <1>1, <2>1, StepWritten
  <2>3. Reduced(Rec, s).state = Rec.state /\ Reduced(Rec, s).workspace = Rec.workspace
    BY <1>2 DEF Reduced, RecordType
  <2>4. QED
    BY <1>2, <2>2, <2>3, BlocksAloneOne
<1>5. QED
  BY <1>3, <1>4

LEMMA BlocksAloneMove ==
    ASSUME Memory, GoOn \/ Cancel \/ Approved \/ Block \/ Finish
    PROVE  BlocksAlone
<1>1. job.at \notin Starting \cup {"idle"}
  BY DEF GoOn, Cancel, Approved, Block, Finish, At, Starting
<1>2. PICK target \in States : Move(target) /\ (target = "blocked" => Block)
  <2>1. CASE GoOn \/ Approved
    BY <2>1 DEF GoOn, Approved, States
  <2>2. CASE Cancel
    BY <2>2 DEF Cancel, States, Terminal
  <2>3. CASE Block
    BY <2>3 DEF Block, States
  <2>4. CASE Finish
    BY <2>4 DEF Finish, States, Terminal
  <2>5. QED
    BY <2>1, <2>2, <2>3, <2>4
<1>3. RunBecomes(job.run, Moved(Rec, target), Moved(Past.runs[job.run], target))
  BY <1>1, <1>2, MoveWritten
<1>4. up /\ job.run \in Runs /\ Rec \in RecordType
  BY <1>1, KnownInPast, RecordsTyped DEF Rec
<1>5. Moved(Rec, target).state = target
  BY <1>4 DEF Moved, RecordType
<1>6. QED
  BY <1>2, <1>3, <1>4, <1>5, BlocksAloneOne

LEMMA BlocksAloneAlways ==
    ASSUME Memory, [Next]_vars
    PROVE  BlocksAlone
<1>1. CASE Baseline \/ Lineage \/ Pause \/ Steer \/ Revalidate \/ Propagate \/ Intent
              \/ Result \/ Checked \/ Verdict
  BY <1>1, FixedSteps DEF Steady, BlocksAlone
<1>2. CASE \/ Pending \/ Perform \/ Verify \/ CheckedAgain \/ StepFails \/ StepRefused
           \/ \E r \in Runs : Expire(r)
  <2>1. index' = index /\ up' = up
    BY <1>2 DEF Pending, Perform, Verify, CheckedAgain, StepFails, StepRefused, Expire, Quiet
  <2>2. QED
    BY <2>1 DEF BlocksAlone
<1>3. CASE (\E r \in Runs : Asked(r)) \/ UNCHANGED vars
  <2>1. index' = index /\ up' = up
    BY <1>3 DEF Asked, PauseRun, SteerRun, ResumeRun, CancelRun, ResolveApproval, Enter, EnterWith,
                vars
  <2>2. QED
    BY <2>1 DEF BlocksAlone
<1>4. CASE \E plan \in Plans : FreezePlan(plan)
  <2>1. PICK plan \in Plans : FreezePlan(plan)
    BY <1>4
  <2>2. index'.runs = index.runs /\ up' = up
    BY <2>1, FreezePlanStep DEF FreezePlan
  <2>3. QED
    BY <2>2 DEF BlocksAlone
<1>5. CASE (\E v \in 1..MaxPlans : StartRun(v)) \/ (\E r \in Runs : ForkRun(r))
  <2>1. index'.runs = index.runs /\ up' = up
    BY <1>5, StartSteps DEF StartRun, ForkRun, Begin
  <2>2. QED
    BY <2>1 DEF BlocksAlone
<1>6. CASE Create
  <2>1. index' = index /\ up' = up
    BY <1>6 DEF Create, Quiet
  <2>2. QED
    BY <2>1 DEF BlocksAlone
<1>7. CASE Bind
  <2> DEFINE steps == Past.plans[job.version].steps
  <2>1. /\ job.run \in Runs /\ up' = up /\ index \in IndexType
        /\ index' = [index EXCEPT !.runs[job.run] = Bound(index.hint, steps, job.version)]
    BY <1>7, BindStep DEF Bind, Quiet, Memory, Typed
  <2> HIDE DEF steps
  <2>2. \A w, v : Bound(w, steps, v).state = "queued"
    BY BoundFields
  <2>3. /\ index'.runs[job.run].state = "queued"
        /\ \A r \in Runs : r # job.run => index'.runs[r] = index.runs[r]
    BY <2>1, <2>2 DEF IndexType
  <2>4. QED
    BY <2>1, <2>3 DEF BlocksAlone
<1>8. CASE GoOnReplayed
  <2>1. /\ job.run \in Runs /\ up' = up /\ index \in IndexType
        /\ index' = [index EXCEPT !.runs[job.run] = Moved(index.runs[job.run], "running")]
    BY <1>8, GoOnReplayedStep DEF Memory, Typed
  <2>2. index.runs[job.run] \in RecordType
    BY <2>1 DEF IndexType
  <2>3. Moved(index.runs[job.run], "running").state = "running"
    BY <2>2 DEF Moved, RecordType
  <2>4. /\ index'.runs[job.run].state = "running"
        /\ \A r \in Runs : r # job.run => index'.runs[r] = index.runs[r]
    BY <2>1, <2>3 DEF IndexType
  <2>5. QED
    BY <2>1, <2>4 DEF BlocksAlone
<1>9. CASE Die
  BY <1>9 DEF Die, BlocksAlone
<1>10. CASE Restart
  <2>1. \A r \in Runs : index'.runs[r].workspace # "ws"
    BY <1>10, RestartStep DEF Memory, Projection
  <2>2. QED
    BY <2>1 DEF BlocksAlone
<1>11. QED
  BY <1>1, <1>2, <1>3, <1>4, <1>5, <1>6, <1>7, <1>8, <1>9, <1>10, StepKinds, BlocksAloneRecord,
     BlocksAloneMove, Zenon

\* Only Verify runs the command of a check.
LEMMA CommandsAlways ==
    ASSUME [Next]_vars
    PROVE  verified' = verified \/ Verify
<1>1. CASE Baseline \/ Lineage \/ Pause \/ Steer \/ Revalidate \/ Propagate \/ Intent
              \/ Result \/ Checked \/ Verdict
  BY <1>1 DEF Baseline, Lineage, Pause, Steer, Note, Revalidate, Propagate, Intent, Result, Checked,
              Verdict, Quiet
<1>2. CASE Approve \/ Refuse \/ Mumble \/ Refused \/ Prohibit \/ Completed \/ Wait
  BY <1>2 DEF Approve, Refuse, Mumble, Resolve, Refused, Prohibit, Completed, Wait, Quiet
<1>3. CASE GoOn \/ Cancel \/ Approved \/ Block \/ Finish
  BY <1>3 DEF GoOn, Cancel, Approved, Block, Finish, Quiet
<1>4. CASE \/ Pending \/ Perform \/ CheckedAgain \/ StepFails \/ StepRefused
           \/ \E r \in Runs : Expire(r)
  BY <1>4 DEF Pending, Perform, CheckedAgain, StepFails, StepRefused, Expire, Quiet
<1>5. CASE \E r \in Runs : Asked(r)
  BY <1>5 DEF Asked, PauseRun, SteerRun, ResumeRun, CancelRun, ResolveApproval, Enter, EnterWith
<1>6. CASE \/ \E plan \in Plans : FreezePlan(plan)
           \/ (\E v \in 1..MaxPlans : StartRun(v)) \/ (\E r \in Runs : ForkRun(r))
  BY <1>6 DEF FreezePlan, StartRun, ForkRun, Begin
<1>7. CASE Create \/ Bind \/ GoOnReplayed \/ Die \/ Restart \/ UNCHANGED vars
  BY <1>7 DEF Create, Bind, GoOnReplayed, Die, Restart, Quiet, vars
<1>8. QED
  BY <1>1, <1>2, <1>3, <1>4, <1>5, <1>6, <1>7, StepKinds, Zenon

\* A judged run stays what it was in any step that runs no command.
LEMMA SpentKept ==
    ASSUME Memory, Carded, Judged, [Next]_vars, verified' = verified, NEW r \in Runs
    PROVE  Spent(r)' /\ Vetted(r)' = Vetted(r)
<1>1. PastMoves /\ BlocksAlone
  BY PastMovesAlways, BlocksAloneAlways
<1>2. Vetted(r)' = Vetted(r) /\ Spent(r)
  BY DEF Vetted, Judged
<1>3. ASSUME Vetted(r) # {}
      PROVE  /\ Past'.runs[r].state # "absent" /\ Past'.runs[r].remaining = <<>>
             /\ up' /\ index'.runs[r].workspace = "ws" => index'.runs[r].state # "blocked"
  <2>1. /\ Past.runs[r].state # "absent" /\ Past.runs[r].remaining = <<>>
        /\ up /\ index.runs[r].workspace = "ws" => index.runs[r].state # "blocked"
    BY <1>2, <1>3 DEF Spent
  <2>2. ASSUME r = job.run
        PROVE  ~(Refused \/ Prohibit \/ Completed \/ Block)
    <3>1. job.at \notin Starting \cup {"idle"} => Past.runs[job.run].remaining = Rec.remaining
      BY KnownInPast
    <3>2. Rec.remaining = <<>> => ~Refused
      BY DEF Refused, At, Carded, Asking
    <3>3. Rec.remaining = <<>> => ~Prohibit /\ ~Completed /\ ~Block
      BY DEF Prohibit, Completed, Block, At, Memory, Placed, Running
    <3>4. Refused \/ Prohibit \/ Completed \/ Block => job.at \notin Starting \cup {"idle"}
      BY DEF Refused, Prohibit, Completed, Block, At, Starting
    <3>5. QED
      BY <2>1, <2>2, <3>1, <3>2, <3>3, <3>4
  <2>3. QED
    BY <1>1, <2>1, <2>2 DEF PastMoves, BlocksAlone
<1>4. QED
  BY <1>2, <1>3 DEF Spent

\* While something is left of its plan, a run was not judged.
LEMMA UnspentRun ==
    ASSUME Memory, Judged, job.at \notin Starting \cup {"idle"}, Rec.remaining # <<>>
    PROVE  Vetted(job.run) = {}
BY KnownInPast DEF Judged, Spent

JudgedPlaces == {"verify", "passes", "fails", "baseline", "lineage", "pending", "go", "revalidate"}

LEMMA JudgedElsewhere ==
    ASSUME \A i, j \in 1..Len(verified') : verified'[i] = verified'[j] => i = j,
           \A r \in Runs : Spent(r)', job'.at \notin JudgedPlaces
    PROVE  Judged'
BY DEF Judged, JudgedPlaces

\* The run of the call was not judged, or is about to be.
LEMMA JudgedUnspent ==
    ASSUME \A i, j \in 1..Len(verified') : verified'[i] = verified'[j] => i = j,
           \A r \in Runs : Spent(r)', ChecksOf(verified', job'.run) = {}
    PROVE  Judged'
BY DEF Judged, Vetted

LEMMA VettedTyped ==
    ASSUME Memory, NEW r
    PROVE  Vetted(r) \subseteq Nat
<1>1. verified \in Seq(CommandType)
  BY DEF Memory, Typed
<1>2. \A i \in 1..Len(verified) : verified[i] \in CommandType
  BY <1>1
<1>3. \A i \in 1..Len(verified) : verified[i].check \in Nat
  BY <1>2 DEF CommandType
<1>4. QED
  BY <1>3 DEF Vetted, ChecksOf

LEMMA JudgedNext ==
    ASSUME Memory, Judged, verified' = verified, \A r \in Runs : Spent(r)',
           job.at \in {"passes", "fails"}, NextCheck
    PROVE  Judged'
<1>1. /\ job'.at = "verify" /\ job'.run = job.run
      /\ job'.check = job.check + 1 /\ job.check \in Nat
  BY NextCheckTyped
<1>2. Vetted(job.run)' = Vetted(job.run)
  BY <1>1 DEF Vetted
<1>3. \A n \in Vetted(job.run) : n <= job.check /\ n \in Nat
  BY VettedTyped DEF Judged
<1>4. \A n \in Vetted(job.run)' : n < job'.check
  BY <1>1, <1>2, <1>3
<1>5. QED
  BY <1>1, <1>4 DEF Judged

LEMMA JudgedVerify ==
    ASSUME Memory, Carded, Accounted, Judged, [Next]_vars, Verify
    PROVE  Judged'
<1>1. /\ job.at = "verify" /\ job'.at \in {"passes", "fails"} /\ job'.run = job.run
      /\ job'.check = job.check /\ job.check \in Nat /\ job.run \in Runs
      /\ index' = index /\ log' = log /\ up' = up
  BY JobGoes, RecordsTyped DEF Verify, At, JobType, Memory, Placed, durable
<1>2. Past' = Past
  BY <1>1 DEF Past
<1>3. /\ Past.runs[job.run].state # "absent" /\ Past.runs[job.run].remaining = <<>>
      /\ Rec.state = "running"
  BY <1>1, KnownInPast DEF Accounted, Starting, Memory, Placed, Verifying
<1>4. \A n \in Vetted(job.run) : n < job.check
  BY <1>1 DEF Judged
<1>5. \A i, j \in 1..Len(verified) : verified[i] = verified[j] => i = j
  BY DEF Judged
<1> DEFINE cmd == [run |-> job.run, check |-> job.check]
           m == Len(verified)
<1>6. CASE verified' = verified
  <2>1. \A r : Vetted(r)' = Vetted(r)
    BY <1>6 DEF Vetted
  <2>2. \A r \in Runs : Spent(r)'
    BY <1>6, SpentKept
  <2>3. \A n \in Vetted(job.run)' : n <= job.check
    <3>1. \A n \in Vetted(job.run) : n \in Nat
      BY VettedTyped
    <3>2. QED
      BY <1>1, <1>4, <2>1, <3>1
  <2>4. QED
    BY <1>1, <1>5, <1>6, <2>2, <2>3 DEF Judged
<1>7. CASE verified' = Append(verified, cmd)
  <2>1. verified \in Seq(CommandType) /\ cmd \in CommandType
    BY <1>1 DEF Memory, Typed, CommandType
  <2>2. cmd.run = job.run /\ cmd.check = job.check
    OBVIOUS
  <2> HIDE DEF cmd
  <2>3. /\ m \in Nat /\ Len(verified') = m + 1 /\ verified'[m + 1] = cmd
        /\ \A i \in 1..m : verified'[i] = verified[i]
    BY <1>7, <2>1
  <2>4. \A i \in 1..m : verified[i] # cmd
    <3>1. \A i \in 1..m : verified[i].run = job.run => verified[i].check \in Vetted(job.run)
      BY DEF Vetted, ChecksOf
    <3>2. job.check \notin Vetted(job.run)
      BY <1>1, <1>4
    <3>3. QED
      BY <2>2, <3>1, <3>2
  <2> HIDE DEF m
  <2>5. \A i, j \in 1..Len(verified') : verified'[i] = verified'[j] => i = j
    <3> SUFFICES ASSUME NEW i \in 1..(m + 1), NEW j \in 1..(m + 1), verified'[i] = verified'[j]
                 PROVE  i = j
      BY <2>3
    <3>1. CASE i \in 1..m /\ j \in 1..m
      BY <1>5, <2>3, <3>1 DEF m
    <3>2. CASE i = m + 1 \/ j = m + 1
      BY <2>3, <2>4, <3>2
    <3>3. QED
      BY <2>3, <3>1, <3>2
  <2>6. \A r \in Runs : Vetted(r)' = IF r = job.run THEN Vetted(r) \cup {job.check} ELSE Vetted(r)
    <3> TAKE r \in Runs
    <3>1. \A n : n \in Vetted(r)' <=>
                    \E i \in 1..(m + 1) : verified'[i].run = r /\ verified'[i].check = n
      BY <2>3 DEF Vetted, ChecksOf
    <3>2. \A n : n \in Vetted(r) <=> \E i \in 1..m : verified[i].run = r /\ verified[i].check = n
      BY DEF Vetted, ChecksOf, m
    <3>3. \A n : n \in Vetted(r)' <=> n \in Vetted(r) \/ (r = job.run /\ n = job.check)
      BY <2>2, <2>3, <3>1, <3>2
    <3>4. QED
      BY <3>3
  <2>7. \A r \in Runs : r # job.run => Spent(r)'
    BY <1>1, <1>2, <2>6 DEF Judged, Spent
  <2>8. \A r \in Runs : r = job.run => Spent(r)'
    BY <1>1, <1>2, <1>3 DEF Spent, Rec
  <2>9. \A n \in Vetted(job.run)' : n <= job.check
    <3>1. \A n \in Vetted(job.run) : n \in Nat
      BY VettedTyped
    <3>2. Vetted(job.run)' = Vetted(job.run) \cup {job.check}
      BY <1>1, <2>6 DEF Vetted
    <3>3. QED
      BY <1>1, <1>4, <3>1, <3>2
  <2>10. QED
    BY <1>1, <2>5, <2>7, <2>8, <2>9 DEF Judged
<1>8. QED
  BY <1>6, <1>7 DEF Verify

LEMMA JudgedStep ==
    ASSUME Memory, Carded, Accounted, Judged, [Next]_vars
    PROVE  Judged'
<1>1. CASE Verify
  BY <1>1, JudgedVerify
<1>2. CASE ~Verify
  <2>1. verified' = verified /\ \A r \in Runs : Spent(r)' /\ Vetted(r)' = Vetted(r)
    BY <1>2, CommandsAlways, SpentKept
  <2>2. \A i, j \in 1..Len(verified') : verified'[i] = verified'[j] => i = j
    BY <2>1 DEF Judged
  <2>3. \A r : r = job'.run => (Vetted(r) = {} => ChecksOf(verified', job'.run) = {})
    BY <2>1 DEF Vetted
  <2>4. CASE job'.at \notin JudgedPlaces
    BY <2>1, <2>2, <2>4, JudgedElsewhere
  <2>5. CASE job'.at \in JudgedPlaces
    <3>1. CASE Pause \/ Steer \/ Propagate \/ Intent \/ Result \/ Verdict
      BY <2>5, <3>1, JobGoes DEF Pause, Steer, Note, Propagate, Intent, Result, Verdict, JudgedPlaces
    <3>2. CASE Baseline \/ Lineage
      <4>1. job'.run = job.run /\ Vetted(job.run) = {}
        BY <3>2, JobGoes DEF Baseline, Lineage, At, Judged
      <4>2. QED
        BY <2>1, <2>2, <2>3, <4>1, JudgedUnspent
    <3>3. CASE Revalidate
      <4>1. /\ job'.at = "go" /\ job'.run = job.run
            /\ Vetted(job.run) = {} \/ Rec.workspace # "ws"
        BY <3>3, JobGoes DEF Revalidate, At, Judged
      <4>2. Rec' = Rec
        BY <3>3, <4>1, FixedSteps DEF Steady, Rec
      <4>3. ChecksOf(verified', job'.run) = {} \/ Rec'.workspace # "ws"
        BY <2>3, <4>1, <4>2
      <4>4. QED
        BY <2>1, <2>2, <4>1, <4>3 DEF Judged, Vetted
    <3>4. CASE Checked \/ CheckedAgain
      BY <2>1, <3>4, JudgedNext DEF Checked, CheckedAgain
    <3>5. CASE Approve \/ Refuse \/ Mumble \/ Wait
      BY <2>5, <3>5, JobGoes DEF Approve, Refuse, Mumble, Resolve, Wait, JudgedPlaces
    <3>6. CASE Refused \/ Prohibit \/ Completed
      <4>1. job'.run = job.run /\ job.at \in {"refused", "prohibit", "completed"}
        BY <3>6, JobGoes DEF Refused, Prohibit, Completed, At
      <4>2. Rec.remaining # <<>>
        BY <4>1 DEF Carded, Asking, Memory, Placed, Running
      <4>3. Vetted(job.run) = {}
        BY <4>1, <4>2, UnspentRun DEF Starting
      <4>4. QED
        BY <2>1, <2>2, <2>3, <4>1, <4>3, JudgedUnspent
    <3>7. CASE GoOn \/ GoOnReplayed
      <4>1. job'.run = job.run /\ job.at = "go" /\ Rec.workspace = "ws"
        BY <3>7, JobGoes DEF GoOn, GoOnReplayed, At, Move, CanMove
      <4>2. Vetted(job.run) = {}
        BY <4>1 DEF Judged
      <4>3. QED
        BY <2>1, <2>2, <2>3, <4>1, <4>2, JudgedUnspent
    <3>8. CASE Cancel \/ Approved \/ Finish
      BY <2>5, <3>8, JobGoes DEF Cancel, Approved, Finish, JudgedPlaces
    <3>9. CASE Block
      BY <2>5, <3>9 DEF Block, Memory, Typed, JobType, JudgedPlaces
    <3>10. CASE Pending
      <4>1. job.at = "pending" /\ (job'.run = job.run \/ job'.at = "idle")
        BY <3>10, JobGoes DEF Pending, At
      <4>2. job'.at # "idle"
        BY <2>5 DEF JudgedPlaces
      <4>3. Vetted(job.run) = {}
        BY <4>1, <4>2 DEF Judged
      <4>4. QED
        BY <2>1, <2>2, <2>3, <4>1, <4>2, <4>3, JudgedUnspent
    <3>11. CASE Perform \/ StepFails \/ StepRefused
      BY <2>5, <3>11, JobGoes DEF Perform, StepFails, StepRefused, JudgedPlaces
    <3>12. CASE \E r \in Runs : Expire(r)
      BY <2>5, <3>12 DEF Expire, Idle, JudgedPlaces
    <3>13. CASE \E r \in Runs : Asked(r)
      <4>1. PICK r \in Runs : Asked(r)
        BY <3>13
      <4>2. \A p \in {"pause", "steer", "propagate", "approve", "deny", "mumble"} :
                \A key : ~EnterWith(r, p, key)
        BY <2>5 DEF EnterWith, Idle, JudgedPlaces
      <4>3. ResumeRun(r)
        BY <4>1, <4>2 DEF Asked, PauseRun, SteerRun, CancelRun, ResolveApproval, Enter
      <4>4. /\ job'.at = "revalidate" /\ job'.run = r /\ index' = index
            /\ up /\ index.runs[r].state = "blocked"
        BY <4>3 DEF ResumeRun, EnterWith, Call, Idle
      <4>5. Vetted(r) = {} \/ index.runs[r].workspace # "ws"
        BY <4>4 DEF Judged, Spent
      <4>6. ChecksOf(verified', job'.run) = {} \/ Rec'.workspace # "ws"
        BY <2>3, <4>4, <4>5 DEF Rec
      <4>7. QED
        BY <2>1, <2>2, <4>4, <4>6 DEF Judged, Vetted
    <3>14. CASE \E plan \in Plans : FreezePlan(plan)
      BY <2>5, <3>14 DEF FreezePlan, Uncounted, Idle, JudgedPlaces
    <3>15. CASE (\E v \in 1..MaxPlans : StartRun(v)) \/ (\E r \in Runs : ForkRun(r))
      BY <2>5, <3>15 DEF StartRun, ForkRun, Begin, Idle, JudgedPlaces
    <3>16. CASE Create \/ Die
      BY <2>5, <3>16, JobGoes DEF Create, Die, JudgedPlaces
    <3>17. CASE Bind
      <4>1. job'.run = job.run /\ job.run \in Runs /\ Past.runs[job.run] = Unknown
        BY <3>17, BindStep, JobGoes DEF Bind
      <4>2. Unknown.state = "absent"
        BY DEF Unknown
      <4>3. Vetted(job.run) = {}
        BY <4>1, <4>2 DEF Judged, Spent
      <4>4. QED
        BY <2>1, <2>2, <2>3, <4>1, <4>3, JudgedUnspent
    <3>18. CASE Restart
      BY <2>5, <3>18, RestartStep DEF Idle, JudgedPlaces
    <3>19. CASE UNCHANGED vars
      <4>1. job' = job /\ index' = index
        BY <3>19 DEF vars
      <4>2. Rec' = Rec /\ Vetted(job.run)' = Vetted(job.run)
        BY <2>1, <4>1 DEF Rec, Vetted
      <4>3. QED
        BY <2>1, <2>2, <4>1, <4>2 DEF Judged
    <3>20. QED
      BY <1>2, <3>1, <3>2, <3>3, <3>4, <3>5, <3>6, <3>7, <3>8, <3>9, <3>10, <3>11, <3>12, <3>13,
         <3>14, <3>15, <3>16, <3>17, <3>18, <3>19, StepKinds, Zenon
  <2>6. QED
    BY <2>4, <2>5
<1>3. QED
  BY <1>1, <1>2

LEMMA InitJudged ==
    ASSUME Init
    PROVE  Judged
<1>1. verified = <<>> /\ job.at = "idle" /\ Len(<<>>) = 0
  BY DEF Init, Idle
<1>2. \A r : Vetted(r) = {}
  BY <1>1 DEF Vetted, ChecksOf
<1>3. QED
  BY <1>1, <1>2 DEF Judged, Spent

LEMMA EngineJudged == Spec => []Judged
<1>1. Init => Steered /\ Accounted /\ Judged
  BY InitMemory, InitCarded, InitAccounted, InitJudged DEF Steered, Init, Down
<1>2. Steered /\ Accounted /\ Judged /\ [Next]_vars => (Steered /\ Accounted /\ Judged)'
  BY MemoryStep, CardedStep, DownStep, AccountedStep, JudgedStep DEF Steered
<1>3. QED
  BY <1>1, <1>2, PTL DEF Spec

\* No retry, resumption, restart or second card makes an effect of a run happen twice: a
\* step that was performed is out of the plan, or its run cannot be moved on again.  And
\* finish_run runs the command of a check once: a run that was judged is not resumed.
THEOREM EffectsHappenOnce == Spec => []EffectsAtMostOnce
<1>1. Once /\ Judged => EffectsAtMostOnce
  BY DEF Once, Judged, PerformedOnce, EffectsAtMostOnce
<1>2. QED
  BY <1>1, EngineOnce, EngineJudged, PTL

LEMMA JudgedSettles == Typed /\ Accounted /\ Judged => SucceededSettled
<1> SUFFICES ASSUME Typed, Accounted, Judged, NEW r \in Runs,
                    stored[r] = "succeeded" \/ (\E i \in 1..Len(verified) : verified[i].run = r)
             PROVE  LET steps == PlanOf(r)
                    IN  \A n \in 1..Len(steps) : First(steps, n) => Settled(r, steps[n])
  BY DEF SucceededSettled
<1> DEFINE steps == Past.plans[Past.runs[r].version].steps
<1>1. PlanOf(r) = steps
  BY DEF PlanOf, Past
<1>2. Past.runs[r].state # "absent" /\ Past.runs[r].remaining = <<>>
  <2>1. CASE stored[r] = "succeeded"
    BY <2>1 DEF Accounted, Ended
  <2>2. CASE \E i \in 1..Len(verified) : verified[i].run = r
    <3>1. Vetted(r) # {}
      BY <2>2 DEF Vetted, ChecksOf
    <3>2. QED
      BY <3>1 DEF Judged, Spent
  <2>3. QED
    BY <2>1, <2>2
<1>3. \A x \in Firsts(steps) : x \in Firsts(<<>>) \/ Settled(r, x)
  BY <1>2 DEF Accounted, Planned
<1>4. Firsts(<<>>) = {}
  BY DEF Firsts
<1>5. \A n \in 1..Len(steps) : First(steps, n) => steps[n] \in Firsts(steps)
  BY DEF Firsts
<1>6. \A n \in 1..Len(steps) : First(steps, n) => Settled(r, steps[n])
  BY <1>3, <1>4, <1>5
<1> HIDE DEF steps
<1>7. QED
  BY <1>1, <1>6

\* finish_run: a run ends well, and the commands of its acceptance are run, only with every
\* step of its plan that is the first of its id performed and recorded by its intent, its
\* result and its completion, in that order, or denied by a person or the policy.
THEOREM SuccessIsSettled == Spec => []SucceededSettled
<1>1. Steered /\ Accounted /\ Judged => SucceededSettled
  BY JudgedSettles DEF Steered, Memory
<1>2. QED
  BY <1>1, EngineSteered, EngineAccounted, EngineJudged, PTL

\* The run of a call whose record runs is running in the store too.
LEMMA RunningInStore ==
    ASSUME Memory, job.at \notin Starting \cup {"idle"}, Rec.state = "running"
    PROVE  stored[job.run] = "running" \/ resumed[job.run] = "replayed"
<1>1. up /\ job.run \in Runs /\ Known(index, job.run)
  BY DEF Memory, Placed
<1>2. Faithful(job.run) \/ Diverged(job.run)
  BY <1>1 DEF Memory, Projection
<1>3. Faithful(job.run) => Past.runs[job.run].state = "running"
  BY DEF Faithful, Rec
<1>4. Past.runs[job.run].state = "running" => stored[job.run] = "running"
  BY <1>1 DEF Memory, Projection
<1>5. QED
  BY <1>2, <1>3, <1>4 DEF Diverged

LEMMA PerformsRunning ==
    ASSUME Memory, [Next]_vars
    PROVE  [\A i \in (Len(performed) + 1)..Len(performed') :
                LET r == performed'[i].run IN stored[r] = "running" \/ resumed[r] = "replayed"]_performed
<1>1. CASE performed' = performed
  BY <1>1
<1>2. CASE Perform
  <2> DEFINE eff == [run |-> job.run, step |-> Next1.id, kind |-> Next1.kind, at |-> Len(log)]
  <2>1. job.at = "perform" /\ up /\ job.run \in Runs /\ performed' = Append(performed, eff)
        /\ Rec.state = "running" /\ Known(index, job.run)
    BY <1>2 DEF Perform, At, Memory, Placed, Running, Starting
  <2>2. performed \in Seq(EffectType) /\ Len(log) \in Nat /\ Next1 \in StepType
    BY <2>1, NextTyped DEF Memory, Typed, Running
  <2>3. eff \in EffectType /\ eff.run = job.run
    BY <2>1, <2>2 DEF EffectType, StepType
  <2> HIDE DEF eff
  <2>4. \A i \in (Len(performed) + 1)..Len(performed') : performed'[i] = eff
    BY <2>1, <2>2, <2>3
  <2>5. stored[job.run] = "running" \/ resumed[job.run] = "replayed"
    BY <2>1, RunningInStore DEF Starting
  <2>6. QED
    BY <2>3, <2>4, <2>5
<1>3. QED
  BY <1>1, <1>2, EffectsAlways

LEMMA VerifiesRunning ==
    ASSUME Memory, [Next]_vars
    PROVE  [\A i \in (Len(verified) + 1)..Len(verified') :
                LET r == verified'[i].run IN stored[r] = "running" \/ resumed[r] = "replayed"]_verified
<1>1. CASE verified' = verified
  BY <1>1
<1>2. CASE Verify /\ verified' # verified
  <2> DEFINE cmd == [run |-> job.run, check |-> job.check]
  <2>1. /\ job.at = "verify" /\ job.run \in Runs /\ job.check \in Nat
        /\ verified' = Append(verified, cmd) /\ Rec.state = "running"
    BY <1>2, RecordsTyped DEF Verify, At, Memory, Placed, Verifying, JobType
  <2>2. verified \in Seq(CommandType) /\ cmd \in CommandType /\ cmd.run = job.run
    BY <2>1 DEF CommandType, Memory, Typed
  <2> HIDE DEF cmd
  <2>3. \A i \in (Len(verified) + 1)..Len(verified') : verified'[i] = cmd
    BY <2>1, <2>2
  <2>4. stored[job.run] = "running" \/ resumed[job.run] = "replayed"
    BY <2>1, RunningInStore DEF Starting
  <2>5. QED
    BY <2>2, <2>3, <2>4
<1>3. QED
  BY <1>1, <1>2, CommandsAlways

\* execute_step and verify_acceptance: whatever was paused, cancelled or died before, an effect
\* happens, and a command of the acceptance is run, while the store's own table has the run
\* running; only a resumption answered again can be mistaken.
THEOREM EffectsOnlyOfRunningRuns == Spec => EffectsOnlyWhileRunning /\ VerifiesOnlyWhileRunning
<1>1. Memory /\ [Next]_vars =>
        [\A i \in (Len(performed) + 1)..Len(performed') :
            LET r == performed'[i].run IN stored[r] = "running" \/ resumed[r] = "replayed"]_performed
  BY PerformsRunning
<1>2. Memory /\ [Next]_vars =>
        [\A i \in (Len(verified) + 1)..Len(verified') :
            LET r == verified'[i].run IN stored[r] = "running" \/ resumed[r] = "replayed"]_verified
  BY VerifiesRunning
<1>3. Spec => EffectsOnlyWhileRunning
  BY <1>1, EngineMemory, PTL DEF Spec, EffectsOnlyWhileRunning
<1>4. Spec => VerifiesOnlyWhileRunning
  BY <1>2, EngineMemory, PTL DEF Spec, VerifiesOnlyWhileRunning
<1>5. QED
  BY <1>3, <1>4

=============================================================================
