--------------------------- MODULE EventStoreProofs ---------------------------
(***************************************************************************)
(* Proofs about the fact store, for every set of connections, commands,    *)
(* runs, intents, decisions and keys.                                      *)
(***************************************************************************)
EXTENDS EventStore, TLAPS

InCall ==
    \A c \in Conns :
        phase[c] \in {"read", "write", "committed"} => txn[c].cmd \in Commands

Typed == TypeOK /\ InCall

LEMMA ReadingTyped ==
    ASSUME TypeOK, NEW m \in Commands
    PROVE  Reading(m) \in
             [cmd : Commands \cup {NoCmd}, snap : Nat, verdict : Verdicts,
              answer : EventIds \cup {NoEvent},
              from : RunStates \cup {"absent"}, last : EventIds \cup {NoEvent}]
<1> USE CommandsAssumption
<1>1. Verdict(m) \in Verdicts
  BY DEF Verdict, Verdicts, ReplayVerdict, TransitionVerdict, DecideVerdict, EnforceVerdict
<1>2. AnsweredEvent(m) \in EventIds \cup {NoEvent}
  BY DEF AnsweredEvent, KeyRows, TypeOK, CommandType
<1>3. CurrentState(m) \in RunStates \cup {"absent"}
  BY DEF CurrentState, TypeOK
<1>4. LastId \in EventIds \cup {NoEvent}
  <2>1. events \in Seq(EventType)
    BY DEF TypeOK
  <2>2. events # <<>> => events[Len(events)] \in EventType
    BY <2>1
  <2>3. QED
    BY <2>2 DEF LastId, EventType, CommandType
<1>5. QED
  BY <1>1, <1>2, <1>3, <1>4 DEF Reading, TypeOK

LEMMA CommitTyped ==
    ASSUME Typed, NEW c \in Conns, Commit(c)
    PROVE  Typed'
<1> DEFINE m == txn[c].cmd
<1>0. m \in Commands /\ m \in CommandType
  BY CommandsAssumption DEF Typed, InCall, Commit
<1>1. events' \in Seq(EventType)
  BY <1>0 DEF Commit, AppendEvent, Typed, TypeOK, EventType, CommandType
<1>2. /\ runs' \in [Runs -> [state : RunStates \cup {"absent"}, evidence : BOOLEAN, seq : Nat]]
      /\ checkpoint' \in Nat
  BY <1>0, CommandsAssumption
     DEF Commit, WriteRuns, StateOf, Typed, TypeOK, CommandType, RunStates
<1>3. outbox' \in [Intents -> {"none", "pending", "completed", "abandoned"}]
  BY <1>0, CommandsAssumption DEF Commit, WriteOutbox, Typed, TypeOK
<1>4. decisions' \in [Decisions -> [audit : Args \cup {"none"}, at : Nat,
                                    result : {"none", "succeeded", "failed"}, enforcedAt : Nat]]
  <2>1. CASE m.op = "decide"
    BY <2>1, <1>0, CommandsAssumption DEF Commit, WriteDecisions, Typed, TypeOK, CommandType
  <2>2. CASE m.op = "enforce"
    BY <2>2, <1>0, CommandsAssumption DEF Commit, WriteDecisions, Typed, TypeOK, CommandType
  <2>3. CASE m.op \notin {"decide", "enforce"}
    BY <2>3 DEF Commit, WriteDecisions, Typed, TypeOK
  <2>4. QED
    BY <2>1, <2>2, <2>3
<1>5. idem' \subseteq [key : Keys, body : {Body(n) : n \in Commands}, event : EventIds]
  BY <1>0, CommandsAssumption DEF Commit, WriteIdempotency, Typed, TypeOK, CommandType, KeyRow
<1>6. QED
  BY <1>1, <1>2, <1>3, <1>4, <1>5 DEF Commit, Typed, TypeOK, InCall

\* Every variable keeps its type, and a handle inside a call knows its command.
THEOREM TypeCorrect == Spec => []Typed
<1>1. Init => Typed
  <2> SUFFICES ASSUME Init PROVE Typed
    OBVIOUS
  <2>1. events \in Seq(EventType)
    BY DEF Init
  <2>2. /\ runs \in [Runs -> [state : RunStates \cup {"absent"}, evidence : BOOLEAN, seq : Nat]]
        /\ outbox \in [Intents -> {"none", "pending", "completed", "abandoned"}]
    BY DEF Init, AbsentRun
  <2>3. decisions \in [Decisions -> [audit : Args \cup {"none"}, at : Nat,
                                    result : {"none", "succeeded", "failed"}, enforcedAt : Nat]]
    BY DEF Init, NoDecision
  <2>4. txn \in [Conns -> [cmd : Commands \cup {NoCmd}, snap : Nat, verdict : Verdicts,
                         answer : EventIds \cup {NoEvent},
                         from : RunStates \cup {"absent"}, last : EventIds \cup {NoEvent}]]
    BY DEF Init, NoTxn, Verdicts
  <2>5. QED
    BY <2>1, <2>2, <2>3, <2>4 DEF Init, Typed, TypeOK, InCall
<1>2. Typed /\ [Next]_vars => Typed'
  <2> SUFFICES ASSUME Typed, [Next]_vars PROVE Typed'
    OBVIOUS
  <2>1. ASSUME NEW c \in Conns, Open(c) PROVE Typed'
    BY <2>1 DEF Open, db, Typed, TypeOK, InCall
  <2>2. ASSUME NEW c \in Conns, NEW m \in Commands, Begin(c, m) PROVE Typed'
    BY <2>2, ReadingTyped DEF Begin, db, Typed, TypeOK, InCall, Reading
  <2>3. ASSUME NEW c \in Conns, Return(c) PROVE Typed'
    BY <2>3 DEF Return, Done, NoTxn, Verdicts, db, Typed, TypeOK, InCall
  <2>4. ASSUME NEW c \in Conns, Upgrade(c) PROVE Typed'
    BY <2>4 DEF Upgrade, db, Typed, TypeOK, InCall
  <2>5. ASSUME NEW c \in Conns, Busy(c) PROVE Typed'
    BY <2>5 DEF Busy, Done, NoTxn, Verdicts, db, Typed, TypeOK, InCall
  <2>6. ASSUME NEW c \in Conns, Commit(c) PROVE Typed'
    BY <2>6, CommitTyped
  <2>7. ASSUME NEW c \in Conns, Refuse(c) PROVE Typed'
    BY <2>7 DEF Refuse, Done, NoTxn, Verdicts, db, Typed, TypeOK, InCall
  <2>8. ASSUME NEW c \in Conns, Abort(c) PROVE Typed'
    BY <2>8 DEF Abort, Done, NoTxn, Verdicts, db, Typed, TypeOK, InCall
  <2>9. ASSUME NEW c \in Conns, Reply(c) PROVE Typed'
    BY <2>9, CommandsAssumption
       DEF Reply, Done, NoTxn, Verdicts, db, Typed, TypeOK, InCall, CommandType
  <2>10. ASSUME NEW c \in Conns, Crash(c) PROVE Typed'
    BY <2>10 DEF Crash, NoTxn, Verdicts, db, Typed, TypeOK, InCall
  <2>11. CASE UNCHANGED vars
    BY <2>11 DEF vars, Typed, TypeOK, InCall
  <2>12. QED
    BY <2>1, <2>2, <2>3, <2>4, <2>5, <2>6, <2>7, <2>8, <2>9, <2>10, <2>11 DEF Next
<1>3. QED
  BY <1>1, <1>2, PTL DEF Spec

\* Every variable keeps its type, whatever the connections do.
THEOREM TypeInvariant == Spec => []TypeOK
<1>1. Typed => TypeOK
  BY DEF Typed
<1>2. QED
  BY <1>1, TypeCorrect, PTL

-----------------------------------------------------------------------------
(* What a handle read is still so when it writes.                          *)

SnapshotFresh ==
    \A c \in Conns :
        /\ phase[c] \in {"read", "write"} =>
             /\ txn[c].snap <= version
             /\ txn[c].snap = version => txn[c] = Reading(txn[c].cmd)
        /\ phase[c] = "write" =>
             writer = c /\ txn[c].snap = version /\ txn[c].verdict = "append"

LEMMA ReadingStable ==
    ASSUME UNCHANGED db, NEW m
    PROVE  Reading(m)' = Reading(m)
<1>1. events' = events /\ runs' = runs /\ decisions' = decisions /\ idem' = idem /\ version' = version
  BY DEF db
<1>2. Verdict(m)' = Verdict(m)
  BY <1>1 DEF Verdict, KeyRows, ReplayVerdict, TransitionVerdict, DecideVerdict, EnforceVerdict
<1>3. AnsweredEvent(m)' = AnsweredEvent(m)
  BY <1>1 DEF AnsweredEvent, KeyRows
<1>4. CurrentState(m)' = CurrentState(m) /\ LastId' = LastId
  BY <1>1 DEF CurrentState, LastId
<1>5. QED
  BY <1>1, <1>2, <1>3, <1>4 DEF Reading

\* A step that leaves the database alone and starts no transaction.
LEMMA FreshKept ==
    ASSUME SnapshotFresh, UNCHANGED db,
           \A d \in Conns : phase'[d] \in {"read", "write"} =>
              /\ phase'[d] = phase[d] /\ txn'[d] = txn[d]
              /\ phase[d] = "write" /\ writer = d => writer' = d
    PROVE  SnapshotFresh'
<1> SUFFICES ASSUME NEW d \in Conns, phase'[d] \in {"read", "write"}
             PROVE  /\ txn'[d].snap <= version'
                    /\ txn'[d].snap = version' => txn'[d] = (Reading(txn[d].cmd))'
                    /\ phase'[d] = "write" =>
                         writer' = d /\ txn'[d].snap = version' /\ txn'[d].verdict = "append"
  BY DEF SnapshotFresh
<1>1. phase'[d] = phase[d] /\ txn'[d] = txn[d] /\ version' = version
  BY DEF db
<1>2. (Reading(txn[d].cmd))' = Reading(txn[d].cmd)
  <2>1. \A m : Reading(m)' = Reading(m)
    BY ReadingStable
  <2>2. QED
    BY <2>1, <1>1
<1>3. QED
  BY <1>1, <1>2 DEF SnapshotFresh

\* SQLite's upgrade rule, carried through every interleaving: a handle that
\* writes has read the very state it is about to change.
THEOREM SnapshotCurrent == Spec => []SnapshotFresh
<1>1. Init => SnapshotFresh
  BY DEF Init, SnapshotFresh
<1>2. Typed /\ SnapshotFresh /\ [Next]_vars => SnapshotFresh'
  <2> SUFFICES ASSUME Typed, SnapshotFresh, [Next]_vars PROVE SnapshotFresh'
    OBVIOUS
  <2>0. /\ phase \in [Conns -> {"closed", "idle", "read", "write", "committed"}]
        /\ DOMAIN txn = Conns
        /\ version \in Nat
    BY DEF Typed, TypeOK
  <2>1. ASSUME NEW c \in Conns, Open(c) PROVE SnapshotFresh'
    BY <2>1, <2>0, FreshKept DEF Open
  <2>2. ASSUME NEW c \in Conns, NEW m \in Commands, Begin(c, m) PROVE SnapshotFresh'
    <3>1. \A n : Reading(n)' = Reading(n)
      BY <2>2, ReadingStable DEF Begin
    <3>2. Reading(m).snap = version /\ Reading(m).cmd = m /\ version' = version
      BY <2>2 DEF Begin, Reading, db
    <3>3. txn'[c] = Reading(m) /\ phase'[c] = "read" /\ writer' = writer
      BY <2>2, <2>0 DEF Begin
    <3>4. \A d \in Conns \ {c} : txn'[d] = txn[d] /\ phase'[d] = phase[d]
      BY <2>2, <2>0 DEF Begin
    <3>5. QED
      BY <3>1, <3>2, <3>3, <3>4, <2>0 DEF SnapshotFresh
  <2>3. ASSUME NEW c \in Conns, Return(c) PROVE SnapshotFresh'
    BY <2>3, <2>0, FreshKept DEF Return, Done
  <2>4. ASSUME NEW c \in Conns, Upgrade(c) PROVE SnapshotFresh'
    <3>1. \A d \in Conns : phase[d] # "write"
      BY <2>4, ConnsAssumption DEF Upgrade, CanWrite, SnapshotFresh
    <3>2. \A n : Reading(n)' = Reading(n)
      BY <2>4, ReadingStable DEF Upgrade
    <3>3. version' = version /\ txn' = txn /\ writer' = c
      BY <2>4 DEF Upgrade, db
    <3>4. \A d \in Conns : phase'[d] = IF d = c THEN "write" ELSE phase[d]
      BY <2>4, <2>0 DEF Upgrade
    <3>5. phase[c] = "read" /\ txn[c].verdict = "append" /\ txn[c].snap = version
      BY <2>4 DEF Upgrade, CanWrite
    <3>6. QED
      BY <3>1, <3>2, <3>3, <3>4, <3>5 DEF SnapshotFresh
  <2>5. ASSUME NEW c \in Conns, Busy(c) PROVE SnapshotFresh'
    BY <2>5, <2>0, FreshKept DEF Busy, Done
  <2>6. ASSUME NEW c \in Conns, Commit(c) PROVE SnapshotFresh'
    <3>1. \A d \in Conns \ {c} : phase[d] # "write"
      BY <2>6 DEF Commit, SnapshotFresh
    <3>2. version' = version + 1 /\ txn' = txn
      BY <2>6 DEF Commit
    <3>3. \A d \in Conns : phase'[d] = IF d = c THEN "committed" ELSE phase[d]
      BY <2>6, <2>0 DEF Commit
    <3>4. \A d \in Conns : phase[d] = "read" => txn[d].snap \in Nat
      BY DEF Typed, TypeOK
    <3>5. QED
      BY <3>1, <3>2, <3>3, <3>4, <2>0 DEF SnapshotFresh
  <2>7. ASSUME NEW c \in Conns, Refuse(c) PROVE SnapshotFresh'
    BY <2>7, <2>0, FreshKept DEF Refuse, Done, SnapshotFresh
  <2>8. ASSUME NEW c \in Conns, Abort(c) PROVE SnapshotFresh'
    BY <2>8, <2>0, FreshKept DEF Abort, Done, SnapshotFresh
  <2>9. ASSUME NEW c \in Conns, Reply(c) PROVE SnapshotFresh'
    BY <2>9, <2>0, FreshKept DEF Reply, Done
  <2>10. ASSUME NEW c \in Conns, Crash(c) PROVE SnapshotFresh'
    BY <2>10, <2>0, FreshKept DEF Crash
  <2>11. CASE UNCHANGED vars
    BY <2>11, FreshKept DEF vars, db
  <2>12. QED
    BY <2>1, <2>2, <2>3, <2>4, <2>5, <2>6, <2>7, <2>8, <2>9, <2>10, <2>11 DEF Next
<1>3. QED
  BY <1>1, <1>2, TypeCorrect, PTL DEF Spec

-----------------------------------------------------------------------------
(* The one step that changes the database.                                 *)

LEMMA OnlyCommitWrites ==
    ASSUME [Next]_vars
    PROVE  UNCHANGED db \/ \E c \in Conns : Commit(c)
  BY DEF Next, vars, db, Open, Begin, Return, Upgrade, Busy, Refuse, Abort, Reply, Crash

LEMMA LoggedCommands ==
    ASSUME Typed
    PROVE  \A i \in 1..Len(events) : events[i].cmd \in Commands
<1>1. events \in Seq(EventType)
  BY DEF Typed, TypeOK
<1>2. \A i \in 1..Len(events) : events[i] \in EventType
  BY <1>1
<1>3. QED
  BY <1>2 DEF EventType

\* What is known of the command a handle commits.
LEMMA CommitFacts ==
    ASSUME Typed, SnapshotFresh, NEW c \in Conns, Commit(c)
    PROVE  /\ txn[c].cmd \in Commands
           /\ Verdict(txn[c].cmd) = "append"
           /\ ConstraintsHold(txn[c].cmd)
           /\ Len(events) \in Nat
           /\ Len(events') = Len(events) + 1
           /\ \A i \in 1..Len(events) : events'[i] = events[i]
           /\ events'[Len(events) + 1] = [cmd |-> txn[c].cmd, from |-> CurrentState(txn[c].cmd),
                                          prev |-> LastId]
<1> DEFINE m == txn[c].cmd
<1>1. m \in Commands /\ events \in Seq(EventType)
  BY DEF Commit, Typed, TypeOK, InCall
<1>2. txn[c] = Reading(m) /\ txn[c].verdict = "append"
  BY DEF Commit, SnapshotFresh
<1>3. Verdict(m) = "append" /\ txn[c].from = CurrentState(m) /\ txn[c].last = LastId
  BY <1>2 DEF Reading
<1>4. events' = Append(events, [cmd |-> m, from |-> CurrentState(m), prev |-> LastId])
  BY <1>3 DEF Commit, AppendEvent
<1>5. QED
  BY <1>1, <1>3, <1>4 DEF Commit

\* The hash chain is never forked, so a store that was written by this code
\* can always be opened again.
THEOREM ChainNeverForks == Spec => []ChainLinked
<1>1. Init => ChainLinked
  BY DEF Init, ChainLinked
<1>2. Typed /\ SnapshotFresh /\ ChainLinked /\ [Next]_vars => ChainLinked'
  <2> SUFFICES ASSUME Typed, SnapshotFresh, ChainLinked, [Next]_vars PROVE ChainLinked'
    OBVIOUS
  <2>1. CASE UNCHANGED db
    BY <2>1 DEF db, ChainLinked
  <2>2. ASSUME NEW c \in Conns, Commit(c) PROVE ChainLinked'
    <3>1. events \in Seq(EventType)
      BY DEF Typed, TypeOK
    <3>2. LastId = IF Len(events) = 0 THEN NoEvent ELSE events[Len(events)].cmd.event
      BY <3>1 DEF LastId
    <3>3. /\ Len(events') = Len(events) + 1 /\ Len(events) \in Nat
          /\ \A i \in 1..Len(events) : events'[i] = events[i]
          /\ events'[Len(events) + 1] = [cmd |-> txn[c].cmd, from |-> CurrentState(txn[c].cmd),
                                        prev |-> LastId]
      BY <2>2, CommitFacts
    <3>. events'[Len(events) + 1].prev = LastId
      BY <3>3
    <3>4. ASSUME NEW i \in 1..Len(events')
          PROVE  events'[i].prev = IF i = 1 THEN NoEvent ELSE events'[i-1].cmd.event
      <4>1. CASE i = Len(events) + 1
        <5>1. CASE Len(events) = 0
          BY <5>1, <4>1, <3>2, <3>3
        <5>2. CASE Len(events) # 0
          <6>1. i - 1 = Len(events) /\ i - 1 \in 1..Len(events) /\ i # 1
            BY <5>2, <4>1, <3>3
          <6>2. events'[i-1] = events[i-1]
            BY <6>1, <3>3
          <6>3. QED
            BY <6>1, <6>2, <5>2, <4>1, <3>2, <3>3
        <5>3. QED
          BY <5>1, <5>2
      <4>2. CASE i \in 1..Len(events)
        BY <4>2, <3>3 DEF ChainLinked
      <4>3. QED
        BY <3>3, <4>1, <4>2
    <3>5. QED
      BY <3>4 DEF ChainLinked
  <2>3. QED
    BY <2>1, <2>2, OnlyCommitWrites
<1>3. QED
  BY <1>1, <1>2, TypeCorrect, SnapshotCurrent, PTL DEF Spec

\* A request that is retried, from any number of processes, is recorded once.
THEOREM KeysSpentOnce == Spec => []KeySpentOnce
<1>1. Init => KeySpentOnce
  BY DEF Init, KeySpentOnce
<1>2. Typed /\ SnapshotFresh /\ KeySpentOnce /\ [Next]_vars => KeySpentOnce'
  <2> SUFFICES ASSUME Typed, SnapshotFresh, KeySpentOnce, [Next]_vars PROVE KeySpentOnce'
    OBVIOUS
  <2>1. CASE UNCHANGED db
    BY <2>1 DEF db, KeySpentOnce
  <2>2. ASSUME NEW c \in Conns, Commit(c) PROVE KeySpentOnce'
    <3> DEFINE m == txn[c].cmd
               n == Len(events)
    <3>1. /\ n \in Nat /\ Len(events') = n + 1 /\ m \in Commands
          /\ \A i \in 1..n : events'[i] = events[i]
          /\ events'[n+1] = [cmd |-> m, from |-> CurrentState(m), prev |-> LastId]
      BY <2>2, CommitFacts
    <3>. events'[n+1].cmd = m
      BY <3>1
    <3>2. \A i \in 1..n : events[i].cmd \in Commands
      BY LoggedCommands
    <3>3. \A x \in Commands : x.op \in KeyedOps <=> x.key # NoKey
      BY CommandsAssumption
    <3>4. m.op \in KeyedOps => \A row \in idem : row.key # m.key
      BY <2>2, CommitFacts DEF ConstraintsHold, KeyRows
    <3>5. \A i \in 1..n : events[i].cmd.op \in KeyedOps => KeyRow(events[i].cmd) \in idem
      BY DEF KeySpentOnce
    <3>6. \A i \in 1..n : events[i].cmd.op \in KeyedOps => events[i].cmd.key # m.key
      BY <3>1, <3>2, <3>3, <3>4, <3>5 DEF KeyRow
    <3>7. \A i \in 1..n : m.op \in KeyedOps => events[i].cmd.key # m.key
      BY <3>1, <3>2, <3>3, <3>6
    <3>8. ASSUME NEW i \in 1..(n+1), NEW j \in 1..(n+1),
                 events'[i].cmd.op \in KeyedOps, events'[i].cmd.key = events'[j].cmd.key
          PROVE  i = j
      <4>1. CASE i \in 1..n /\ j \in 1..n
        BY <4>1, <3>1, <3>8 DEF KeySpentOnce
      <4>2. CASE i = n + 1 /\ j \in 1..n
        BY <4>2, <3>1, <3>7, <3>8
      <4>3. CASE i \in 1..n /\ j = n + 1
        BY <4>3, <3>1, <3>6, <3>8
      <4>4. QED
        BY <3>1, <4>1, <4>2, <4>3
    <3>9. idem' = {KeyRow(events'[i].cmd) :
                     i \in {k \in 1..(n+1) : events'[k].cmd.op \in KeyedOps}}
      <4>1. idem' = IF m.op \in KeyedOps THEN idem \cup {KeyRow(m)} ELSE idem
        BY <2>2 DEF Commit, WriteIdempotency
      <4>2. ASSUME NEW row \in idem'
            PROVE  \E i \in 1..(n+1) : events'[i].cmd.op \in KeyedOps /\ row = KeyRow(events'[i].cmd)
        <5>1. CASE row \in idem
          <6>1. PICK i \in 1..n : events[i].cmd.op \in KeyedOps /\ row = KeyRow(events[i].cmd)
            BY <5>1 DEF KeySpentOnce
          <6>2. QED
            BY <6>1, <3>1
        <5>2. CASE row \notin idem
          BY <5>2, <4>1, <3>1
        <5>3. QED
          BY <5>1, <5>2
      <4>3. ASSUME NEW i \in 1..(n+1), events'[i].cmd.op \in KeyedOps
            PROVE  KeyRow(events'[i].cmd) \in idem'
        BY <4>1, <4>3, <3>1, <3>5
      <4>4. QED
        BY <4>2, <4>3
    <3>10. QED
      BY <3>1, <3>8, <3>9 DEF KeySpentOnce
  <2>3. QED
    BY <2>1, <2>2, OnlyCommitWrites
<1>3. QED
  BY <1>1, <1>2, TypeCorrect, SnapshotCurrent, PTL DEF Spec

-----------------------------------------------------------------------------
(* The runs table is the log, replayed.                                    *)

LEMMA RunStatesNotAbsent ==
    ASSUME NEW m \in Commands, NEW r \in Runs, AboutRun(m, r)
    PROVE  StateOf(m) \in RunStates /\ StateOf(m) # "absent"
  BY CommandsAssumption DEF AboutRun, StateOf, RunStates

LEMMA TransitionFacts ==
    ASSUME NEW m \in Commands, m.op = "transition",
           Verdict(m) = "append", ConstraintsHold(m)
    PROVE  /\ TransitionAllowed(runs[m.obj].state, m)
           /\ runs[m.obj].state # "absent"
           /\ CurrentState(m) = runs[m.obj].state
<1>1. KeyRows(m.key) = {}
  BY DEF ConstraintsHold, KeyedOps
<1>2. Verdict(m) = TransitionVerdict(m)
  BY <1>1 DEF Verdict, KeyedOps
<1>3. TransitionAllowed(runs[m.obj].state, m)
  BY <1>2 DEF TransitionVerdict
<1>4. QED
  BY <1>3 DEF TransitionAllowed, ValidTransition, CurrentState

LEMMA StepLegalStable ==
    ASSUME NEW r, NEW i \in Nat \ {0}, StepLegal(i, r),
           \A j \in 1..i : events'[j] = events[j]
    PROVE  StepLegal(i, r)'
<1>0. events'[i] = events[i] /\ \A j \in 1..(i-1) : events'[j] = events[j]
  OBVIOUS
<1>1. CASE \A j \in 1..(i-1) : ~AboutRun(events[j].cmd, r)
  <2>1. \A j \in 1..(i-1) : ~AboutRun(events'[j].cmd, r)
    BY <1>0, <1>1
  <2>2. events[i].cmd.op = "create"
    BY <1>1 DEF StepLegal
  <2>3. QED
    BY <1>0, <2>1, <2>2 DEF StepLegal
<1>2. CASE \E j \in 1..(i-1) : AboutRun(events[j].cmd, r)
  <2>1. /\ events[i].cmd.op = "transition"
        /\ TransitionAllowed(events[i].from, events[i].cmd)
    BY <1>2 DEF StepLegal
  <2>2. PICK j \in 1..(i-1) :
            /\ AboutRun(events[j].cmd, r)
            /\ StateOf(events[j].cmd) = events[i].from
            /\ \A k \in (j+1)..(i-1) : ~AboutRun(events[k].cmd, r)
    BY <1>2 DEF StepLegal
  <2>3. \A k \in (j+1)..(i-1) : ~AboutRun(events'[k].cmd, r)
    BY <2>2, <1>0
  <2>4. ~ \A k \in 1..(i-1) : ~AboutRun(events'[k].cmd, r)
    BY <2>2, <1>0
  <2>5. QED
    BY <1>0, <2>1, <2>2, <2>3, <2>4 DEF StepLegal
<1>3. QED
  BY <1>1, <1>2

\* The projection of the runs is the replay of the log, and the log never
\* holds an event that replay would refuse.
THEOREM ProjectionIsReplay == Spec => []ProjectionMatchesLog
<1>1. Init => ProjectionMatchesLog
  BY DEF Init, ProjectionMatchesLog, RowFromLog
<1>2. Typed /\ SnapshotFresh /\ ProjectionMatchesLog /\ [Next]_vars => ProjectionMatchesLog'
  <2> SUFFICES ASSUME Typed, SnapshotFresh, ProjectionMatchesLog, [Next]_vars
               PROVE  ProjectionMatchesLog'
    OBVIOUS
  <2>1. CASE UNCHANGED db
    BY <2>1 DEF db, ProjectionMatchesLog, RowFromLog, StepLegal
  <2>2. ASSUME NEW c \in Conns, Commit(c) PROVE ProjectionMatchesLog'
    <3> DEFINE m == txn[c].cmd
               n == Len(events)
    <3>1. /\ n \in Nat /\ Len(events') = n + 1 /\ m \in Commands
          /\ \A i \in 1..n : events'[i] = events[i]
          /\ events'[n+1] = [cmd |-> m, from |-> CurrentState(m), prev |-> LastId]
          /\ Verdict(m) = "append" /\ ConstraintsHold(m)
      BY <2>2, CommitFacts
    <3>. events'[n+1].cmd = m /\ events'[n+1].from = CurrentState(m)
      BY <3>1
    <3>2. \A i \in 1..n : events[i].cmd \in Commands
      BY LoggedCommands
    <3>3. runs' = IF m.op \in {"create", "transition"}
                  THEN [runs EXCEPT ![m.obj] =
                          [state |-> StateOf(m), evidence |-> m.evidence, seq |-> n + 1]]
                  ELSE runs
      BY <2>2 DEF Commit, WriteRuns
    <3>4. ASSUME NEW r \in Runs PROVE RowFromLog(r)'
      <4>1. CASE AboutRun(m, r)
        <5>1. runs'[r] = [state |-> StateOf(m), evidence |-> m.evidence, seq |-> n + 1]
          BY <4>1, <3>3 DEF AboutRun, Typed, TypeOK
        <5>2. QED
          BY <5>1, <4>1, <3>1 DEF RowFromLog
      <4>2. CASE ~AboutRun(m, r)
        <5>1. runs'[r] = runs[r]
          BY <4>2, <3>3 DEF AboutRun, Typed, TypeOK
        <5>2. RowFromLog(r)
          BY DEF ProjectionMatchesLog
        <5>3. CASE \A i \in 1..n : ~AboutRun(events[i].cmd, r)
          <6>1. \A i \in 1..(n+1) : ~AboutRun(events'[i].cmd, r)
            BY <5>3, <4>2, <3>1
          <6>2. QED
            BY <6>1, <5>1, <5>2, <5>3, <3>1 DEF RowFromLog
        <5>4. CASE \E i \in 1..n : AboutRun(events[i].cmd, r)
          <6>1. /\ runs[r].seq \in 1..n
                /\ AboutRun(events[runs[r].seq].cmd, r)
                /\ runs[r].state = StateOf(events[runs[r].seq].cmd)
                /\ runs[r].evidence = events[runs[r].seq].cmd.evidence
                /\ \A i \in (runs[r].seq + 1)..n : ~AboutRun(events[i].cmd, r)
            BY <5>4, <5>2 DEF RowFromLog
          <6>2. \A i \in (runs[r].seq + 1)..(n+1) : ~AboutRun(events'[i].cmd, r)
            BY <6>1, <4>2, <3>1
          <6>3. QED
            BY <6>1, <6>2, <5>1, <3>1 DEF RowFromLog
        <5>5. QED
          BY <5>3, <5>4
      <4>3. QED
        BY <4>1, <4>2
    <3>5. ASSUME NEW r \in Runs, NEW i \in 1..(n+1), AboutRun(events'[i].cmd, r)
          PROVE  StepLegal(i, r)'
      <4>1. CASE i \in 1..n
        <5>1. StepLegal(i, r)
          BY <4>1, <3>1, <3>5 DEF ProjectionMatchesLog
        <5>2. \A j \in 1..i : events'[j] = events[j]
          BY <4>1, <3>1
        <5>3. QED
          BY <5>1, <5>2, <4>1, StepLegalStable
      <4>2. CASE i = n + 1
        <5>0. AboutRun(m, r) /\ RowFromLog(r) /\ r = m.obj
          BY <4>2, <3>1, <3>5 DEF ProjectionMatchesLog, AboutRun
        <5>1. CASE m.op = "create"
          <6>1. runs[r].state = "absent"
            BY <5>0, <5>1, <3>1 DEF ConstraintsHold
          <6>2. \A j \in 1..n : ~AboutRun(events[j].cmd, r)
            BY <6>1, <5>0, <3>2, RunStatesNotAbsent DEF RowFromLog
          <6>3. QED
            BY <6>2, <5>1, <4>2, <3>1 DEF StepLegal
        <5>2. CASE m.op = "transition"
          <6>1. /\ TransitionAllowed(runs[r].state, m)
                /\ runs[r].state # "absent"
                /\ CurrentState(m) = runs[r].state
            BY <5>0, <5>2, <3>1, TransitionFacts
          <6>2. ~ \A j \in 1..n : ~AboutRun(events[j].cmd, r)
            BY <6>1, <5>0 DEF RowFromLog, AbsentRun
          <6>3. /\ runs[r].seq \in 1..n
                /\ AboutRun(events[runs[r].seq].cmd, r)
                /\ runs[r].state = StateOf(events[runs[r].seq].cmd)
                /\ \A k \in (runs[r].seq + 1)..n : ~AboutRun(events[k].cmd, r)
            BY <6>2, <5>0 DEF RowFromLog
          <6> DEFINE s == runs[r].seq
          <6>4. s \in 1..n /\ events'[s] = events[s]
            BY <6>3, <3>1
          <6>5. /\ s \in 1..(i-1)
                /\ AboutRun(events'[s].cmd, r)
                /\ StateOf(events'[s].cmd) = events'[i].from
                /\ \A k \in (s+1)..(i-1) : ~AboutRun(events'[k].cmd, r)
            BY <6>1, <6>3, <6>4, <4>2, <3>1
          <6>6. events'[i].cmd.op = "transition" /\ TransitionAllowed(events'[i].from, events'[i].cmd)
            BY <6>1, <5>2, <4>2, <3>1
          <6>7. QED
            BY <6>5, <6>6 DEF StepLegal
        <5>3. QED
          BY <5>0, <5>1, <5>2 DEF AboutRun
      <4>3. QED
        BY <3>1, <4>1, <4>2
    <3>6. QED
      BY <3>1, <3>4, <3>5 DEF ProjectionMatchesLog
  <2>3. QED
    BY <2>1, <2>2, OnlyCommitWrites
<1>3. QED
  BY <1>1, <1>2, TypeCorrect, SnapshotCurrent, PTL DEF Spec

-----------------------------------------------------------------------------
(* The outbox and the audit rows are the log, summarised.                  *)

\* No effect is resolved twice, or before it was announced.
THEOREM OutboxIsLog == Spec => []OutboxMatchesLog
<1>1. Init => OutboxMatchesLog
  BY DEF Init, OutboxMatchesLog
<1>2. Typed /\ SnapshotFresh /\ OutboxMatchesLog /\ [Next]_vars => OutboxMatchesLog'
  <2> SUFFICES ASSUME Typed, SnapshotFresh, OutboxMatchesLog, [Next]_vars
               PROVE  OutboxMatchesLog'
    OBVIOUS
  <2>1. CASE UNCHANGED db
    BY <2>1 DEF db, OutboxMatchesLog, EventOf
  <2>2. ASSUME NEW c \in Conns, Commit(c) PROVE OutboxMatchesLog'
    <3> DEFINE m == txn[c].cmd
               n == Len(events)
    <3>1. /\ n \in Nat /\ Len(events') = n + 1 /\ m \in Commands
          /\ \A i \in 1..n : events'[i] = events[i]
          /\ events'[n+1] = [cmd |-> m, from |-> CurrentState(m), prev |-> LastId]
          /\ ConstraintsHold(m)
      BY <2>2, CommitFacts
    <3>2. events'[n+1].cmd = m
      BY <3>1
    <3>3. outbox' = CASE m.op = "intent" -> [outbox EXCEPT ![m.obj] = "pending"]
                      [] m.op = "result" -> [outbox EXCEPT ![m.obj] = m.arg]
                      [] OTHER -> outbox
      BY <2>2 DEF Commit, WriteOutbox
    <3>4. DOMAIN outbox = Intents
      BY DEF Typed, TypeOK
    <3> SUFFICES ASSUME NEW x \in Intents
                 PROVE  /\ outbox'[x] = "none" <=>
                              \A i \in 1..(n+1) : ~(events'[i].cmd.op = "intent" /\ events'[i].cmd.obj = x)
                        /\ outbox'[x] \in {"none", "pending"} <=>
                              \A i \in 1..(n+1) : ~(events'[i].cmd.op = "result" /\ events'[i].cmd.obj = x)
                        /\ \A i, j \in 1..(n+1) :
                              /\ events'[i].cmd.op = "result" /\ events'[i].cmd.obj = x
                              /\ events'[j].cmd.op = "result" /\ events'[j].cmd.obj = x
                              => i = j
                        /\ \A i \in 1..(n+1) :
                              events'[i].cmd.op = "result" /\ events'[i].cmd.obj = x =>
                                /\ outbox'[x] = events'[i].cmd.arg
                                /\ \E j \in 1..(i-1) :
                                      events'[j].cmd.op = "intent" /\ events'[j].cmd.obj = x
      BY <3>1 DEF OutboxMatchesLog, EventOf
    <3>5. /\ outbox[x] = "none" <=>
               \A i \in 1..n : ~(events[i].cmd.op = "intent" /\ events[i].cmd.obj = x)
          /\ outbox[x] \in {"none", "pending"} <=>
               \A i \in 1..n : ~(events[i].cmd.op = "result" /\ events[i].cmd.obj = x)
          /\ \A i, j \in 1..n :
               /\ events[i].cmd.op = "result" /\ events[i].cmd.obj = x
               /\ events[j].cmd.op = "result" /\ events[j].cmd.obj = x
               => i = j
          /\ \A i \in 1..n :
               events[i].cmd.op = "result" /\ events[i].cmd.obj = x =>
                 /\ outbox[x] = events[i].cmd.arg
                 /\ \E j \in 1..(i-1) : events[j].cmd.op = "intent" /\ events[j].cmd.obj = x
      BY DEF OutboxMatchesLog, EventOf
    <3>6. CASE m.op = "intent" /\ m.obj = x
      <4>1. outbox[x] = "none" /\ outbox'[x] = "pending"
        BY <3>6, <3>1, <3>3, <3>4 DEF ConstraintsHold
      <4>2. QED
        BY <4>1, <3>1, <3>2, <3>5, <3>6
    <3>7. CASE m.op = "result" /\ m.obj = x
      <4>1. outbox[x] = "pending" /\ outbox'[x] = m.arg /\ m.arg \in {"completed", "abandoned"}
        BY <3>7, <3>1, <3>3, <3>4, CommandsAssumption DEF ConstraintsHold
      <4>2. \E j \in 1..n : events[j].cmd.op = "intent" /\ events[j].cmd.obj = x
        BY <4>1, <3>5
      <4>3. \A i \in 1..n : ~(events[i].cmd.op = "result" /\ events[i].cmd.obj = x)
        BY <4>1, <3>5
      <4>4. \E j \in 1..n : events'[j].cmd.op = "intent" /\ events'[j].cmd.obj = x
        BY <4>2, <3>1
      <4>5. \A i \in 1..(n+1) :
              events'[i].cmd.op = "result" /\ events'[i].cmd.obj = x => i = n + 1
        BY <4>3, <3>1
      <4>6. \E i \in 1..(n+1) : events'[i].cmd.op = "result" /\ events'[i].cmd.obj = x
        BY <3>1, <3>2, <3>7
      <4>7. ~ \A i \in 1..(n+1) : ~(events'[i].cmd.op = "intent" /\ events'[i].cmd.obj = x)
        BY <4>4, <3>1
      <4>8. ASSUME NEW i \in 1..(n+1), events'[i].cmd.op = "result", events'[i].cmd.obj = x
            PROVE  /\ outbox'[x] = events'[i].cmd.arg
                   /\ \E j \in 1..(i-1) : events'[j].cmd.op = "intent" /\ events'[j].cmd.obj = x
        <5>1. i = n + 1 /\ i - 1 = n
          BY <4>5, <4>8, <3>1
        <5>2. QED
          BY <5>1, <4>1, <4>4, <3>2
      <4>9. outbox'[x] \notin {"none", "pending"} /\ outbox'[x] # "none"
        BY <4>1
      <4>10. \A i, j \in 1..(n+1) :
               /\ events'[i].cmd.op = "result" /\ events'[i].cmd.obj = x
               /\ events'[j].cmd.op = "result" /\ events'[j].cmd.obj = x
               => i = j
        BY <4>5
      <4>11. QED
        BY <4>6, <4>7, <4>8, <4>9, <4>10
    <3>8. CASE ~(m.op \in {"intent", "result"} /\ m.obj = x)
      <4>1. outbox'[x] = outbox[x]
        BY <3>8, <3>3, <3>4
      <4>2. \A i \in 1..(n+1) :
              events'[i].cmd.op \in {"intent", "result"} /\ events'[i].cmd.obj = x
              => i \in 1..n /\ events'[i] = events[i]
        BY <3>1, <3>2, <3>8
      <4>3. \A i \in 1..n : i \in 1..(n+1) /\ events'[i] = events[i]
        BY <3>1
      <4>4. outbox'[x] = "none" <=>
              \A i \in 1..(n+1) : ~(events'[i].cmd.op = "intent" /\ events'[i].cmd.obj = x)
        BY <4>1, <4>2, <4>3, <3>5
      <4>5. outbox'[x] \in {"none", "pending"} <=>
              \A i \in 1..(n+1) : ~(events'[i].cmd.op = "result" /\ events'[i].cmd.obj = x)
        BY <4>1, <4>2, <4>3, <3>5
      <4>6. \A i, j \in 1..(n+1) :
               /\ events'[i].cmd.op = "result" /\ events'[i].cmd.obj = x
               /\ events'[j].cmd.op = "result" /\ events'[j].cmd.obj = x
               => i = j
        BY <4>2, <3>5
      <4>7. ASSUME NEW i \in 1..(n+1), events'[i].cmd.op = "result", events'[i].cmd.obj = x
            PROVE  /\ outbox'[x] = events'[i].cmd.arg
                   /\ \E j \in 1..(i-1) : events'[j].cmd.op = "intent" /\ events'[j].cmd.obj = x
        <5>1. i \in 1..n /\ events'[i] = events[i]
          BY <4>2, <4>7
        <5>2. PICK j \in 1..(i-1) : events[j].cmd.op = "intent" /\ events[j].cmd.obj = x
          BY <5>1, <4>7, <3>5
        <5>3. events'[j] = events[j]
          BY <5>1, <3>1
        <5>4. QED
          BY <5>1, <5>2, <5>3, <4>1, <4>7, <3>5
      <4>8. QED
        BY <4>4, <4>5, <4>6, <4>7
    <3>9. QED
      BY <3>6, <3>7, <3>8
  <2>3. QED
    BY <2>1, <2>2, OnlyCommitWrites
<1>3. QED
  BY <1>1, <1>2, TypeCorrect, SnapshotCurrent, PTL DEF Spec

\* The decision row of d summarises the decide and enforce events about d.
DecisionRowFromLog(d) ==
    /\ decisions[d] = NoDecision =>
          \A i \in 1..Len(events) : ~EventOf(i, "decide", d) /\ ~EventOf(i, "enforce", d)
    /\ decisions[d] # NoDecision =>
          \E i \in 1..Len(events) :
            /\ EventOf(i, "decide", d)
            /\ events[i].cmd.arg = decisions[d].audit
            /\ events[i].cmd.at = decisions[d].at
    /\ decisions[d].result = "none" =>
          \A i \in 1..Len(events) : ~EventOf(i, "enforce", d)
    /\ decisions[d].result # "none" =>
          \E i \in 1..Len(events) :
            /\ EventOf(i, "enforce", d)
            /\ events[i].cmd.arg = decisions[d].result
            /\ events[i].cmd.at = decisions[d].enforcedAt

AuditMatchesLog == (\A d \in Decisions : DecisionRowFromLog(d)) /\ EnforcedAfterDecided

LEMMA AuditFacts ==
    ASSUME NEW m \in Commands, Verdict(m) = "append"
    PROVE  /\ m.op = "decide" => decisions[m.obj] = NoDecision
           /\ m.op = "enforce" =>
                /\ decisions[m.obj] # NoDecision
                /\ ~(m.at < decisions[m.obj].at)
                /\ decisions[m.obj].result = "none"
<1>1. m.op = "decide" => Verdict(m) = DecideVerdict(m)
  BY DEF Verdict, KeyedOps
<1>2. m.op = "enforce" => Verdict(m) = EnforceVerdict(m)
  BY DEF Verdict, KeyedOps
<1>3. QED
  BY <1>1, <1>2 DEF DecideVerdict, EnforceVerdict

\* The audit trail: enforcement after its decision, and only once.
THEOREM AuditIsLog == Spec => []AuditMatchesLog
<1>1. Init => AuditMatchesLog
  BY DEF Init, AuditMatchesLog, DecisionRowFromLog, EnforcedAfterDecided, NoDecision
<1>2. Typed /\ SnapshotFresh /\ AuditMatchesLog /\ [Next]_vars => AuditMatchesLog'
  <2> SUFFICES ASSUME Typed, SnapshotFresh, AuditMatchesLog, [Next]_vars
               PROVE  AuditMatchesLog'
    OBVIOUS
  <2>1. CASE UNCHANGED db
    BY <2>1 DEF db, AuditMatchesLog, DecisionRowFromLog, EnforcedAfterDecided, EventOf
  <2>2. ASSUME NEW c \in Conns, Commit(c) PROVE AuditMatchesLog'
    <3> DEFINE m == txn[c].cmd
               n == Len(events)
    <3>1. /\ n \in Nat /\ Len(events') = n + 1 /\ m \in Commands
          /\ \A i \in 1..n : events'[i] = events[i]
          /\ events'[n+1] = [cmd |-> m, from |-> CurrentState(m), prev |-> LastId]
          /\ Verdict(m) = "append"
      BY <2>2, CommitFacts
    <3>2. events'[n+1].cmd = m
      BY <3>1
    <3>3. decisions' =
            CASE m.op = "decide" ->
                   [decisions EXCEPT ![m.obj] =
                      [audit |-> m.arg, at |-> m.at, result |-> "none", enforcedAt |-> 0]]
              [] m.op = "enforce" ->
                   [decisions EXCEPT ![m.obj] =
                      [audit |-> @.audit, at |-> @.at, result |-> m.arg, enforcedAt |-> m.at]]
              [] OTHER -> decisions
      BY <2>2 DEF Commit, WriteDecisions
    <3>4. /\ DOMAIN decisions = Decisions
          /\ \A d \in Decisions : decisions[d].at \in Nat
          /\ m.at \in Nat
          /\ \A i \in 1..n : events[i].cmd \in Commands
      BY <3>1, CommandsAssumption, LoggedCommands DEF Typed, TypeOK, CommandType
    <3>5. /\ m.op \in {"decide", "enforce"} => m.obj \in Decisions
          /\ m.op = "decide" => m.arg # "none"
          /\ m.op = "enforce" => m.arg \in {"succeeded", "failed"}
      BY <3>1, CommandsAssumption, ArgsAssumption DEF CommandType
    <3>6. ASSUME NEW d \in Decisions PROVE DecisionRowFromLog(d)'
      <4>0. DecisionRowFromLog(d)
        BY DEF AuditMatchesLog
      <4>1. CASE m.op = "decide" /\ m.obj = d
        <5>1. /\ decisions'[d] = [audit |-> m.arg, at |-> m.at, result |-> "none", enforcedAt |-> 0]
              /\ decisions[d] = NoDecision
          BY <4>1, <3>1, <3>3, <3>4, AuditFacts
        <5>2. decisions'[d] # NoDecision
          BY <5>1, <4>1, <3>5 DEF NoDecision
        <5>3. QED
          BY <4>0, <4>1, <5>1, <5>2, <3>1, <3>2 DEF DecisionRowFromLog, EventOf
      <4>2. CASE m.op = "enforce" /\ m.obj = d
        <5>1. /\ decisions'[d] = [audit |-> decisions[d].audit, at |-> decisions[d].at,
                                  result |-> m.arg, enforcedAt |-> m.at]
              /\ decisions[d] # NoDecision
          BY <4>2, <3>1, <3>3, <3>4, AuditFacts
        <5>2. decisions'[d] # NoDecision /\ decisions'[d].result # "none"
          BY <5>1, <4>2, <3>5 DEF NoDecision
        <5>3. QED
          BY <4>0, <4>2, <5>1, <5>2, <3>1, <3>2 DEF DecisionRowFromLog, EventOf
      <4>3. CASE ~(m.op \in {"decide", "enforce"} /\ m.obj = d)
        <5>1. decisions'[d] = decisions[d]
          BY <4>3, <3>3, <3>4
        <5>2. QED
          BY <4>0, <4>3, <5>1, <3>1, <3>2 DEF DecisionRowFromLog, EventOf
      <4>4. QED
        BY <4>1, <4>2, <4>3
    <3>7. EnforcedAfterDecided'
      <4>0. EnforcedAfterDecided
        BY DEF AuditMatchesLog
      <4>1. CASE m.op # "enforce"
        BY <4>0, <4>1, <3>1, <3>2 DEF EnforcedAfterDecided, EventOf
      <4>2. CASE m.op = "enforce"
        <5>1. DecisionRowFromLog(m.obj)
          BY <4>2, <3>5 DEF AuditMatchesLog
        <5>2. /\ decisions[m.obj] # NoDecision /\ ~(m.at < decisions[m.obj].at)
              /\ decisions[m.obj].result = "none" /\ m.obj \in Decisions
          BY <4>2, <3>1, <3>5, AuditFacts
        <5>3. PICK j \in 1..n : EventOf(j, "decide", m.obj) /\ events[j].cmd.at = decisions[m.obj].at
          BY <5>1, <5>2 DEF DecisionRowFromLog
        <5>4. events[j].cmd.at <= m.at
          BY <5>2, <5>3, <3>4
        <5>5. \A i \in 1..n : ~EventOf(i, "enforce", m.obj)
          BY <5>1, <5>2 DEF DecisionRowFromLog
        <5>6. /\ Len(events') = n + 1 /\ n \in Nat
              /\ \A i \in 1..n : events'[i] = events[i]
              /\ \A i \in 1..(n + 1) : i = n + 1 \/ i \in 1..n
          BY <3>1
        <5>7. ASSUME NEW i \in 1..(n + 1), events'[i].cmd.op = "enforce"
              PROVE  /\ \E k \in 1..(i - 1) :
                          /\ EventOf(k, "decide", events[i].cmd.obj)'
                          /\ events'[k].cmd.at <= events'[i].cmd.at
                     /\ \A k \in 1..(n + 1) :
                          EventOf(k, "enforce", events[i].cmd.obj)' => i = k
          <6>1. CASE i = n + 1
            BY <5>3, <5>4, <5>5, <5>6, <3>2, <6>1 DEF EventOf
          <6>2. CASE i \in 1..n
            <7>1. /\ \E k \in 1..(i - 1) :
                       /\ EventOf(k, "decide", events[i].cmd.obj)
                       /\ events[k].cmd.at <= events[i].cmd.at
                  /\ \A k \in 1..n : EventOf(k, "enforce", events[i].cmd.obj) => i = k
              BY <4>0, <5>6, <5>7, <6>2 DEF EnforcedAfterDecided
            <7>2. events[i].cmd.obj # m.obj
              BY <5>5, <5>6, <5>7, <6>2 DEF EventOf
            <7>3. QED
              BY <5>6, <3>2, <6>2, <7>1, <7>2 DEF EventOf
          <6>3. QED
            BY <5>6, <6>1, <6>2
        <5>8. QED
          BY <5>6, <5>7 DEF EnforcedAfterDecided
      <4>3. QED
        BY <4>1, <4>2
    <3>8. QED
      BY <3>6, <3>7 DEF AuditMatchesLog
  <2>3. QED
    BY <2>1, <2>2, OnlyCommitWrites
<1>3. QED
  BY <1>1, <1>2, TypeCorrect, SnapshotCurrent, PTL DEF Spec

\* No decision is enforced twice, or before it was recorded.
THEOREM EnforcedOnceAfterDecision == Spec => []EnforcedAfterDecided
<1>1. AuditMatchesLog => EnforcedAfterDecided
  BY DEF AuditMatchesLog
<1>2. QED
  BY <1>1, AuditIsLog, PTL

-----------------------------------------------------------------------------
(* What callers are told.                                                  *)

Recorded(m, e) ==
    \E i \in 1..Len(events) : events[i].cmd.event = e /\ SameRequest(events[i].cmd, m)

\* A call that is about to answer has its event in the log.
AnswersRecorded ==
    /\ \A c \in Conns :
        /\ phase[c] = "committed" => Recorded(txn[c].cmd, txn[c].cmd.event)
        /\ phase[c] = "read" /\ txn[c].verdict = "replayed" => Recorded(txn[c].cmd, txn[c].answer)
    /\ AckDurable

LEMMA RecordedStable ==
    ASSUME Typed, SnapshotFresh, [Next]_vars, NEW m, NEW e, Recorded(m, e)
    PROVE  Recorded(m, e)'
<1>1. CASE UNCHANGED db
  BY <1>1 DEF db, Recorded
<1>2. ASSUME NEW c \in Conns, Commit(c) PROVE Recorded(m, e)'
  <2>1. PICK i \in 1..Len(events) : events[i].cmd.event = e /\ SameRequest(events[i].cmd, m)
    BY DEF Recorded
  <2>2. i \in 1..Len(events') /\ events'[i] = events[i]
    <3>1. /\ Len(events) \in Nat /\ Len(events') = Len(events) + 1
          /\ \A j \in 1..Len(events) : events'[j] = events[j]
      BY <1>2, CommitFacts
    <3>2. QED
      BY <3>1
  <2>3. events'[i].cmd.event = e /\ SameRequest(events'[i].cmd, m)
    BY <2>1, <2>2
  <2>4. \E j \in 1..Len(events') : events'[j].cmd.event = e /\ SameRequest(events'[j].cmd, m)
    BY <2>2, <2>3
  <2>5. QED
    BY <2>4 DEF Recorded, SameRequest, Body
<1>3. QED
  BY <1>1, <1>2, OnlyCommitWrites

LEMMA ReplayRecorded ==
    ASSUME Typed, KeySpentOnce, AuditMatchesLog, NEW m \in Commands, Verdict(m) = "replayed"
    PROVE  Recorded(m, AnsweredEvent(m))
<1>0. \A i \in 1..Len(events) : events[i].cmd \in Commands
  BY LoggedCommands
<1>1. CASE m.op \in KeyedOps /\ KeyRows(m.key) # {}
  <2> DEFINE row == CHOOSE r \in KeyRows(m.key) : TRUE
  <2>1. row \in idem /\ row.key = m.key
    BY <1>1 DEF KeyRows
  <2>2. Verdict(m) = ReplayVerdict(m, row) /\ AnsweredEvent(m) = row.event
    BY <1>1 DEF Verdict, AnsweredEvent, KeyedOps
  <2>3. row.body = Body(m)
    BY <2>2 DEF ReplayVerdict
  <2> HIDE DEF row
  <2>4. PICK i \in 1..Len(events) : events[i].cmd.op \in KeyedOps /\ row = KeyRow(events[i].cmd)
    BY <2>1 DEF KeySpentOnce
  <2>5. m.key # NoKey
    BY <1>1, CommandsAssumption
  <2>6. /\ events[i].cmd.event = row.event /\ events[i].cmd.key = m.key
        /\ Body(events[i].cmd) = Body(m)
    BY <2>1, <2>3, <2>4 DEF KeyRow
  <2>7. SameRequest(events[i].cmd, m)
    BY <2>5, <2>6 DEF SameRequest
  <2>8. QED
    BY <2>2, <2>6, <2>7 DEF Recorded
<1>2. CASE ~(m.op \in KeyedOps /\ KeyRows(m.key) # {})
  <2>1. CASE m.op = "decide"
    <3>1. Verdict(m) = DecideVerdict(m) /\ AnsweredEvent(m) = m.event
      BY <1>2, <2>1 DEF Verdict, AnsweredEvent, KeyedOps
    <3>2. /\ m.obj \in Decisions /\ decisions[m.obj] # NoDecision
          /\ decisions[m.obj].audit = m.arg /\ decisions[m.obj].at = m.at
      BY <3>1, <2>1, CommandsAssumption DEF DecideVerdict
    <3>3. PICK i \in 1..Len(events) :
              EventOf(i, "decide", m.obj) /\ events[i].cmd.arg = m.arg /\ events[i].cmd.at = m.at
      BY <3>2 DEF AuditMatchesLog, DecisionRowFromLog
    <3>4. events[i].cmd.event = m.event /\ Body(events[i].cmd) = Body(m)
      <4>1. ~events[i].cmd.evidence /\ ~m.evidence
        BY <1>0, <2>1, <3>3, CommandsAssumption DEF EventOf
      <4>2. events[i].cmd.evidence \in BOOLEAN /\ m.evidence \in BOOLEAN
        BY <1>0, CommandsAssumption DEF CommandType
      <4>3. events[i].cmd.evidence = m.evidence
        BY <4>1, <4>2
      <4>4. QED
        BY <1>0, <4>3, <2>1, <3>3, AuditIdAssumption DEF EventOf, Body
    <3>5. SameRequest(events[i].cmd, m)
      BY <2>1, <3>3, <3>4 DEF SameRequest
    <3>6. QED
      BY <3>1, <3>4, <3>5 DEF Recorded
  <2>2. CASE m.op = "enforce"
    <3>1. Verdict(m) = EnforceVerdict(m) /\ AnsweredEvent(m) = m.event
      BY <1>2, <2>2 DEF Verdict, AnsweredEvent, KeyedOps
    <3>2. /\ m.obj \in Decisions /\ decisions[m.obj].result # "none"
          /\ decisions[m.obj].result = m.arg /\ decisions[m.obj].enforcedAt = m.at
      BY <3>1, <2>2, CommandsAssumption DEF EnforceVerdict
    <3>3. PICK i \in 1..Len(events) :
              EventOf(i, "enforce", m.obj) /\ events[i].cmd.arg = m.arg /\ events[i].cmd.at = m.at
      BY <3>2 DEF AuditMatchesLog, DecisionRowFromLog
    <3>4. events[i].cmd.event = m.event /\ Body(events[i].cmd) = Body(m)
      <4>1. ~events[i].cmd.evidence /\ ~m.evidence
        BY <1>0, <2>2, <3>3, CommandsAssumption DEF EventOf
      <4>2. events[i].cmd.evidence \in BOOLEAN /\ m.evidence \in BOOLEAN
        BY <1>0, CommandsAssumption DEF CommandType
      <4>3. events[i].cmd.evidence = m.evidence
        BY <4>1, <4>2
      <4>4. QED
        BY <1>0, <4>3, <2>2, <3>3, AuditIdAssumption DEF EventOf, Body
    <3>5. SameRequest(events[i].cmd, m)
      BY <2>2, <3>3, <3>4 DEF SameRequest
    <3>6. QED
      BY <3>1, <3>4, <3>5 DEF Recorded
  <2>3. CASE m.op \notin {"decide", "enforce"}
    BY <1>2, <2>3 DEF Verdict, TransitionVerdict
  <2>4. QED
    BY <2>1, <2>2, <2>3
<1>3. QED
  BY <1>1, <1>2

\* Whatever a caller was told is in the log, for the request it made.
THEOREM AcksAreDurable == Spec => []AnswersRecorded
<1>1. Init => AnswersRecorded
  BY DEF Init, AnswersRecorded, AckDurable
<1>2. Typed /\ SnapshotFresh /\ KeySpentOnce /\ AuditMatchesLog /\ AnswersRecorded /\ [Next]_vars
        => AnswersRecorded'
  <2> SUFFICES ASSUME Typed, SnapshotFresh, KeySpentOnce, AuditMatchesLog, AnswersRecorded,
                      [Next]_vars
               PROVE  AnswersRecorded'
    OBVIOUS
  <2>0. /\ phase \in [Conns -> {"closed", "idle", "read", "write", "committed"}]
        /\ DOMAIN txn = Conns
        /\ \A m, e : Recorded(m, e) => Recorded(m, e)'
    BY RecordedStable DEF Typed, TypeOK
  <2>. \A a \in acks : Recorded(a.cmd, a.event)
    BY DEF AnswersRecorded, AckDurable, Recorded
  <2>1. ASSUME acks' = acks,
               \A d \in Conns : phase'[d] \in {"read", "committed"} =>
                  phase'[d] = phase[d] /\ txn'[d] = txn[d]
        PROVE  AnswersRecorded'
    <3>1. \A a \in acks' : Recorded(a.cmd, a.event)'
      BY <2>0, <2>1
    <3>2. AckDurable'
      BY <3>1 DEF AckDurable, Recorded
    <3>3. ASSUME NEW d \in Conns
          PROVE  /\ phase'[d] = "committed" => (Recorded(txn[d].cmd, txn[d].cmd.event))'
                 /\ phase'[d] = "read" /\ txn'[d].verdict = "replayed" =>
                      (Recorded(txn[d].cmd, txn[d].answer))'
      BY <2>0, <2>1 DEF AnswersRecorded
    <3>4. QED
      BY <3>2, <3>3 DEF AnswersRecorded
  <2>2. ASSUME NEW c \in Conns, Open(c) PROVE AnswersRecorded'
    BY <2>0, <2>1, <2>2 DEF Open
  <2>3. ASSUME NEW c \in Conns, NEW m \in Commands, Begin(c, m) PROVE AnswersRecorded'
    <3>1. /\ \A d \in Conns \ {c} : phase'[d] = phase[d] /\ txn'[d] = txn[d]
          /\ phase'[c] = "read" /\ txn'[c] = Reading(m) /\ UNCHANGED acks
      BY <2>0, <2>3 DEF Begin
    <3>2. txn'[c].cmd = m /\ txn'[c].verdict = Verdict(m) /\ txn'[c].answer = AnsweredEvent(m)
      BY <3>1 DEF Reading
    <3>3. txn'[c].verdict = "replayed" => Recorded(m, AnsweredEvent(m))
      BY <3>2, ReplayRecorded
    <3>4. \A a \in acks' : Recorded(a.cmd, a.event)'
      BY <2>0, <3>1
    <3>5. AckDurable'
      BY <3>4 DEF AckDurable, Recorded
    <3>6. ASSUME NEW d \in Conns
          PROVE  /\ phase'[d] = "committed" => (Recorded(txn[d].cmd, txn[d].cmd.event))'
                 /\ phase'[d] = "read" /\ txn'[d].verdict = "replayed" =>
                      (Recorded(txn[d].cmd, txn[d].answer))'
      BY <2>0, <3>1, <3>2, <3>3 DEF AnswersRecorded
    <3>7. QED
      BY <3>5, <3>6 DEF AnswersRecorded
  <2>4. ASSUME NEW c \in Conns, Upgrade(c) PROVE AnswersRecorded'
    BY <2>0, <2>1, <2>4 DEF Upgrade
  <2>5. ASSUME NEW c \in Conns, Busy(c) PROVE AnswersRecorded'
    BY <2>0, <2>1, <2>5 DEF Busy, Done
  <2>6. ASSUME NEW c \in Conns, Commit(c) PROVE AnswersRecorded'
    <3> DEFINE m == txn[c].cmd
    <3>1. /\ \A d \in Conns \ {c} : phase'[d] = phase[d]
          /\ phase'[c] = "committed" /\ UNCHANGED <<txn, acks>>
      BY <2>0, <2>6 DEF Commit
    <3>2. Recorded(m, m.event)'
      <4>1. /\ Len(events) \in Nat /\ Len(events') = Len(events) + 1
            /\ events'[Len(events) + 1] = [cmd |-> m, from |-> CurrentState(m), prev |-> LastId]
        BY <2>6, CommitFacts
      <4>2. events'[Len(events) + 1].cmd = m
        BY <4>1
      <4>3. SameRequest(m, m)
        BY DEF SameRequest
      <4>4. QED
        BY <4>1, <4>2, <4>3, <3>1 DEF Recorded
    <3>3. \A a \in acks' : Recorded(a.cmd, a.event)'
      BY <2>0, <3>1
    <3>4. AckDurable'
      BY <3>3 DEF AckDurable, Recorded
    <3>5. ASSUME NEW d \in Conns
          PROVE  /\ phase'[d] = "committed" => (Recorded(txn[d].cmd, txn[d].cmd.event))'
                 /\ phase'[d] = "read" /\ txn'[d].verdict = "replayed" =>
                      (Recorded(txn[d].cmd, txn[d].answer))'
      BY <2>0, <3>1, <3>2 DEF AnswersRecorded
    <3>6. QED
      BY <3>4, <3>5 DEF AnswersRecorded
  <2>7. ASSUME NEW c \in Conns, Refuse(c) PROVE AnswersRecorded'
    BY <2>0, <2>1, <2>7 DEF Refuse, Done
  <2>8. ASSUME NEW c \in Conns, Abort(c) PROVE AnswersRecorded'
    BY <2>0, <2>1, <2>8 DEF Abort, Done
  <2>9. ASSUME NEW c \in Conns, Crash(c) PROVE AnswersRecorded'
    BY <2>0, <2>1, <2>9 DEF Crash
  <2>10. CASE UNCHANGED vars
    BY <2>0, <2>1, <2>10 DEF vars
  <2>11. ASSUME NEW c \in Conns, NEW a, acks' = acks \cup {a},
                Recorded(a.cmd, a.event), UNCHANGED db, Done(c)
         PROVE  AnswersRecorded'
    <3>1. \A b \in acks' : Recorded(b.cmd, b.event)
      BY <2>11 DEF AnswersRecorded, AckDurable, Recorded
    <3>2. AckDurable'
      BY <3>1, <2>11 DEF AckDurable, Recorded, db
    <3>3. ASSUME NEW d \in Conns, phase'[d] \in {"read", "committed"}
          PROVE  phase'[d] = phase[d] /\ txn'[d] = txn[d]
      BY <2>0, <2>11, <3>3 DEF Done
    <3>4. ASSUME NEW d \in Conns
          PROVE  /\ phase'[d] = "committed" => (Recorded(txn[d].cmd, txn[d].cmd.event))'
                 /\ phase'[d] = "read" /\ txn'[d].verdict = "replayed" =>
                      (Recorded(txn[d].cmd, txn[d].answer))'
      BY <2>0, <3>3 DEF AnswersRecorded
    <3>5. QED
      BY <3>2, <3>4 DEF AnswersRecorded
  <2>12. ASSUME NEW c \in Conns, Return(c) PROVE AnswersRecorded'
    <3>1. CASE txn[c].verdict = "replayed"
      <4> DEFINE a == [cmd |-> txn[c].cmd, outcome |-> "replayed", event |-> txn[c].answer]
      <4>1. acks' = acks \cup {a} /\ UNCHANGED db /\ Done(c) /\ phase[c] = "read"
        BY <2>12, <3>1 DEF Return
      <4>2. Recorded(a.cmd, a.event)
        BY <4>1, <3>1 DEF AnswersRecorded
      <4>3. QED
        BY <4>1, <4>2, <2>11
    <3>2. CASE txn[c].verdict # "replayed"
      BY <2>0, <2>1, <2>12, <3>2 DEF Return, Done
    <3>3. QED
      BY <3>1, <3>2
  <2>13. ASSUME NEW c \in Conns, Reply(c) PROVE AnswersRecorded'
    <3> DEFINE a == [cmd |-> txn[c].cmd, outcome |-> "committed", event |-> txn[c].cmd.event]
    <3>1. acks' = acks \cup {a} /\ UNCHANGED db /\ Done(c) /\ phase[c] = "committed"
      BY <2>13 DEF Reply
    <3>2. Recorded(a.cmd, a.event)
      BY <3>1 DEF AnswersRecorded
    <3>3. QED
      BY <3>1, <3>2, <2>11
  <2>14. QED
    BY <2>2, <2>3, <2>4, <2>5, <2>6, <2>7, <2>8, <2>9, <2>10, <2>12, <2>13 DEF Next
<1>3. QED
  BY <1>1, <1>2, TypeCorrect, SnapshotCurrent, KeysSpentOnce, AuditIsLog, PTL DEF Spec

\* An answer names a logged event of an equal request, crashes or not.
THEOREM AnswersAreDurable == Spec => []AckDurable
<1>1. AnswersRecorded => AckDurable
  BY DEF AnswersRecorded
<1>2. QED
  BY <1>1, AcksAreDurable, PTL
-----------------------------------------------------------------------------
(***************************************************************************)
(* The fact store implements the ledger, for every set of connections and  *)
(* commands: a commit is the recording of a fact, the end of a call that   *)
(* tells its caller of an event is an answer, every other step of the      *)
(* store, a crash included, is invisible.                                  *)
(***************************************************************************)

Log == [i \in 1..Len(events) |-> events[i].cmd]
Told == {[cmd |-> a.cmd, event |-> a.event] : a \in acks}

\* What the theorems above establish of every state.
StoreInv ==
    /\ Typed
    /\ SnapshotFresh
    /\ ProjectionMatchesLog
    /\ KeySpentOnce
    /\ OutboxMatchesLog
    /\ AuditMatchesLog
    /\ AnswersRecorded

LEMMA LogFacts ==
    ASSUME Typed
    PROVE  /\ Len(events) \in Nat /\ Len(Log) = Len(events)
           /\ \A i \in 1..Len(events) : Log[i] = events[i].cmd
<1>1. events \in Seq(EventType)
  BY DEF Typed, TypeOK
<1>2. Len(events) \in Nat
  BY <1>1
<1>3. QED
  BY <1>2 DEF Log

LEMMA LogGrows ==
    ASSUME Typed, SnapshotFresh, NEW c \in Conns, Commit(c)
    PROVE  Log' = Append(Log, txn[c].cmd)
<1> DEFINE n == Len(events)
           m == txn[c].cmd
<1>1. /\ n \in Nat /\ Len(events') = n + 1
      /\ \A i \in 1..n : events'[i] = events[i]
      /\ events'[n+1] = [cmd |-> m, from |-> CurrentState(m), prev |-> LastId]
      /\ m \in Commands
  BY CommitFacts
<1>2. Log' = [i \in 1..(n+1) |-> events'[i].cmd]
  BY <1>1 DEF Log
<1>3. \A i \in 1..n : events[i].cmd \in Commands
  BY LoggedCommands
<1>4. Log \in [1..n -> Commands] /\ Log \in Seq(Commands) /\ Len(Log) = n
  BY <1>1, <1>3 DEF Log
<1>5. Append(Log, m) = [i \in 1..(n+1) |-> IF i = n + 1 THEN m ELSE Log[i]]
  BY <1>1, <1>4
<1>6. \A i \in 1..(n+1) : events'[i].cmd = IF i = n + 1 THEN m ELSE Log[i]
  BY <1>1, <1>4 DEF Log
<1>7. QED
  BY <1>2, <1>5, <1>6

\* The state an event is appended from is the one the ledger shows.
LEMMA RunInState ==
    ASSUME Typed, ProjectionMatchesLog, NEW r \in Runs
    PROVE  /\ runs[r].state = "absent" =>
                \A i \in 1..Len(events) : ~AboutRun(events[i].cmd, r)
           /\ runs[r].state # "absent" =>
                \E i \in 1..Len(events) :
                    /\ AboutRun(events[i].cmd, r)
                    /\ StateOf(events[i].cmd) = runs[r].state
                    /\ \A j \in (i+1)..Len(events) : ~AboutRun(events[j].cmd, r)
<1>1. RowFromLog(r)
  BY DEF ProjectionMatchesLog
<1>2. \A i \in 1..Len(events) : events[i].cmd \in Commands
  BY LoggedCommands
<1>3. CASE \A i \in 1..Len(events) : ~AboutRun(events[i].cmd, r)
  BY <1>1, <1>3 DEF RowFromLog, AbsentRun
<1>4. CASE ~ \A i \in 1..Len(events) : ~AboutRun(events[i].cmd, r)
  <2>1. /\ runs[r].seq \in 1..Len(events)
        /\ AboutRun(events[runs[r].seq].cmd, r)
        /\ runs[r].state = StateOf(events[runs[r].seq].cmd)
        /\ \A i \in (runs[r].seq + 1)..Len(events) : ~AboutRun(events[i].cmd, r)
    BY <1>1, <1>4 DEF RowFromLog
  <2>2. runs[r].state # "absent"
    BY <1>2, <2>1, RunStatesNotAbsent
  <2>3. QED
    BY <2>1, <2>2
<1>5. QED
  BY <1>3, <1>4

\* The ledger speaks of commands with the same words.
LEMMA SameWords ==
    /\ \A m, r : L!AboutRun(m, r) <=> AboutRun(m, r)
    /\ \A m : L!StateOf(m) = StateOf(m)
    /\ L!RunStates = RunStates
    /\ \A s, m : L!TransitionAllowed(s, m) <=> TransitionAllowed(s, m)
    /\ \A n, m : L!SameRequest(n, m) <=> SameRequest(n, m)
  BY DEF L!AboutRun, AboutRun, L!StateOf, StateOf, L!RunStates, RunStates,
         L!TransitionAllowed, TransitionAllowed, L!ValidTransition, ValidTransition,
         L!SameRequest, SameRequest, L!Body, Body

\* The operators of the ledger, over the log of the store.
LEMMA LedgerOnLog ==
    ASSUME Typed
    PROVE  /\ \A op, obj : L!Has(op, obj) <=>
                \E i \in 1..Len(events) : Log[i].op = op /\ Log[i].obj = obj
           /\ \A r, s :
                \/ s = "absent" /\ \A i \in 1..Len(events) : ~AboutRun(Log[i], r)
                \/ \E i \in 1..Len(events) :
                    /\ AboutRun(Log[i], r)
                    /\ StateOf(Log[i]) = s
                    /\ \A j \in (i+1)..Len(events) : ~AboutRun(Log[j], r)
                => L!InState(r, s)
<1>1. Len([i \in 1..Len(events) |-> events[i].cmd]) = Len(events)
  BY LogFacts DEF Log
<1>2. \A op, obj : L!Has(op, obj) <=>
         \E i \in 1..Len(events) : Log[i].op = op /\ Log[i].obj = obj
  BY <1>1 DEF L!Has, Log
<1>3. ASSUME NEW r, NEW s,
             s = "absent" /\ \A i \in 1..Len(events) : ~AboutRun(Log[i], r)
      PROVE  L!InState(r, s)
  BY <1>1, <1>3, SameWords DEF L!InState, Log
<1>4. ASSUME NEW r, NEW s, NEW i \in 1..Len(events),
             AboutRun(Log[i], r), StateOf(Log[i]) = s,
             \A j \in (i+1)..Len(events) : ~AboutRun(Log[j], r)
      PROVE  L!InState(r, s)
  BY <1>1, <1>4, SameWords DEF L!InState, Log
<1>5. QED
  BY <1>2, <1>3, <1>4

\* What a commit appends is legal after the facts of the ledger.
LEMMA CommitLegal ==
    ASSUME StoreInv, NEW c \in Conns, Commit(c)
    PROVE  L!Legal(txn[c].cmd)
<1> DEFINE m == txn[c].cmd
           n == Len(events)
<1>0. /\ m \in Commands /\ Verdict(m) = "append" /\ ConstraintsHold(m)
      /\ n \in Nat
      /\ \A i \in 1..n : events[i].cmd \in Commands
  BY CommitFacts, LoggedCommands DEF StoreInv
<1>00. n = Len(Log) /\ \A i \in 1..n : Log[i] = events[i].cmd
  BY LogFacts DEF StoreInv
<1>1. \A i \in 1..n : Log[i].event # m.event
  BY <1>0, <1>00 DEF ConstraintsHold
<1>2. m.key # NoKey => \A i \in 1..n : Log[i].key # m.key
  <2> SUFFICES ASSUME m.key # NoKey, NEW i \in 1..n, events[i].cmd.key = m.key PROVE FALSE
    BY <1>00
  <2>1. m.op \in KeyedOps /\ events[i].cmd.op \in KeyedOps
    BY <1>0, CommandsAssumption
  <2>2. KeyRow(events[i].cmd) \in idem
    BY <2>1 DEF StoreInv, KeySpentOnce
  <2>3. KeyRow(events[i].cmd) \in KeyRows(m.key)
    BY <2>2 DEF KeyRows, KeyRow
  <2>4. QED
    BY <1>0, <2>1, <2>3 DEF ConstraintsHold
<1>3. m.op = "create" => \A i \in 1..n : ~AboutRun(Log[i], m.obj)
  <2> SUFFICES ASSUME m.op = "create" PROVE \A i \in 1..n : ~AboutRun(Log[i], m.obj)
    OBVIOUS
  <2>1. m.obj \in Runs /\ runs[m.obj].state = "absent"
    BY <1>0, CommandsAssumption DEF ConstraintsHold
  <2>2. QED
    BY <1>00, <2>1, RunInState DEF StoreInv
<1>4. m.op = "transition" =>
        \E s \in RunStates :
            /\ TransitionAllowed(s, m)
            /\ \E i \in 1..n :
                /\ AboutRun(Log[i], m.obj)
                /\ StateOf(Log[i]) = s
                /\ \A j \in (i+1)..n : ~AboutRun(Log[j], m.obj)
  <2> SUFFICES ASSUME m.op = "transition"
               PROVE  \E s \in RunStates :
                        /\ TransitionAllowed(s, m)
                        /\ \E i \in 1..n :
                            /\ AboutRun(Log[i], m.obj)
                            /\ StateOf(Log[i]) = s
                            /\ \A j \in (i+1)..n : ~AboutRun(Log[j], m.obj)
    OBVIOUS
  <2>1. /\ m.obj \in Runs /\ TransitionAllowed(runs[m.obj].state, m)
        /\ runs[m.obj].state # "absent"
    BY <1>0, TransitionFacts, CommandsAssumption
  <2>2. PICK i \in 1..n : /\ AboutRun(events[i].cmd, m.obj)
                          /\ StateOf(events[i].cmd) = runs[m.obj].state
                          /\ \A j \in (i+1)..n : ~AboutRun(events[j].cmd, m.obj)
    BY <2>1, RunInState DEF StoreInv
  <2>3. \A j \in (i+1)..n : ~AboutRun(Log[j], m.obj)
    BY <1>0, <1>00, <2>2
  <2>4. AboutRun(Log[i], m.obj) /\ StateOf(Log[i]) = runs[m.obj].state
    BY <1>00, <2>2
  <2>5. runs[m.obj].state \in RunStates
    BY <2>1 DEF TransitionAllowed, ValidTransition, RunStates
  <2>6. QED
    BY <2>1, <2>3, <2>4, <2>5
<1>5. m.op = "intent" => \A i \in 1..n : ~(Log[i].op = "intent" /\ Log[i].obj = m.obj)
  <2>1. m.op = "intent" => m.obj \in Intents /\ outbox[m.obj] = "none"
    BY <1>0, CommandsAssumption DEF ConstraintsHold
  <2>2. QED
    BY <1>00, <2>1 DEF StoreInv, OutboxMatchesLog, EventOf
<1>6. m.op = "result" =>
        /\ \E i \in 1..n : Log[i].op = "intent" /\ Log[i].obj = m.obj
        /\ \A i \in 1..n : ~(Log[i].op = "result" /\ Log[i].obj = m.obj)
  <2>1. m.op = "result" => m.obj \in Intents /\ outbox[m.obj] = "pending"
    BY <1>0, CommandsAssumption DEF ConstraintsHold
  <2>2. QED
    BY <1>00, <2>1 DEF StoreInv, OutboxMatchesLog, EventOf
<1>7. m.op = "decide" => \A i \in 1..n : ~(Log[i].op = "decide" /\ Log[i].obj = m.obj)
  <2>1. m.op = "decide" => m.obj \in Decisions /\ decisions[m.obj] = NoDecision
    BY <1>0, CommandsAssumption DEF ConstraintsHold
  <2>2. QED
    BY <1>00, <2>1 DEF StoreInv, AuditMatchesLog, DecisionRowFromLog, EventOf
<1>8. m.op = "enforce" =>
        /\ \A i \in 1..n : ~(Log[i].op = "enforce" /\ Log[i].obj = m.obj)
        /\ \E i \in 1..n : Log[i].op = "decide" /\ Log[i].obj = m.obj /\ Log[i].at <= m.at
  <2> SUFFICES ASSUME m.op = "enforce"
               PROVE  /\ \A i \in 1..n : ~(Log[i].op = "enforce" /\ Log[i].obj = m.obj)
                      /\ \E i \in 1..n : /\ Log[i].op = "decide" /\ Log[i].obj = m.obj
                                         /\ Log[i].at <= m.at
    OBVIOUS
  <2>1. /\ m.obj \in Decisions /\ decisions[m.obj] # NoDecision
        /\ ~(m.at < decisions[m.obj].at) /\ decisions[m.obj].result = "none"
    BY <1>0, AuditFacts, CommandsAssumption
  <2>2. DecisionRowFromLog(m.obj)
    BY <2>1 DEF StoreInv, AuditMatchesLog
  <2>3. PICK i \in 1..n : EventOf(i, "decide", m.obj) /\ events[i].cmd.at = decisions[m.obj].at
    BY <2>1, <2>2 DEF DecisionRowFromLog
  <2>4. events[i].cmd.at \in Nat /\ m.at \in Nat
    BY <1>0, CommandsAssumption DEF CommandType
  <2>5. \A j \in 1..n : ~EventOf(j, "enforce", m.obj)
    BY <2>1, <2>2 DEF DecisionRowFromLog
  <2>6. QED
    BY <1>00, <2>1, <2>3, <2>4, <2>5 DEF EventOf
<1>9. Typed
  BY DEF StoreInv
<1>10. m.op = "create" => L!InState(m.obj, "absent")
  BY <1>3, <1>9, LedgerOnLog
<1>11. m.op = "transition" =>
          \E s \in L!RunStates : L!InState(m.obj, s) /\ L!TransitionAllowed(s, m)
  <2> SUFFICES ASSUME m.op = "transition"
               PROVE  \E s \in L!RunStates : L!InState(m.obj, s) /\ L!TransitionAllowed(s, m)
    OBVIOUS
  <2>1. PICK s \in RunStates :
            /\ TransitionAllowed(s, m)
            /\ \E i \in 1..n :
                /\ AboutRun(Log[i], m.obj)
                /\ StateOf(Log[i]) = s
                /\ \A j \in (i+1)..n : ~AboutRun(Log[j], m.obj)
    BY <1>4
  <2>2. L!InState(m.obj, s)
    BY <1>9, <2>1, LedgerOnLog
  <2>3. QED
    BY <2>1, <2>2, SameWords
<1>12. /\ m.op = "intent" => ~L!Has("intent", m.obj)
       /\ m.op = "result" => L!Has("intent", m.obj) /\ ~L!Has("result", m.obj)
       /\ m.op = "decide" => ~L!Has("decide", m.obj)
       /\ m.op = "enforce" => ~L!Has("enforce", m.obj)
  BY <1>5, <1>6, <1>7, <1>8, <1>9, LedgerOnLog
<1>13. Len([i \in 1..Len(events) |-> events[i].cmd]) = n
  BY <1>00 DEF Log
<1>14. /\ \A i \in 1..n : events[i].cmd.event # m.event
       /\ m.key # NoKey => \A i \in 1..n : events[i].cmd.key # m.key
       /\ m.op = "enforce" =>
            \E i \in 1..n : /\ events[i].cmd.op = "decide" /\ events[i].cmd.obj = m.obj
                            /\ events[i].cmd.at <= m.at
  BY <1>00, <1>1, <1>2, <1>8
<1>15. QED
  BY <1>10, <1>11, <1>12, <1>13, <1>14 DEF L!Legal

LEMMA CommitRecords ==
    ASSUME StoreInv, NEW c \in Conns, Commit(c), NEW m, m = txn[c].cmd
    PROVE  L!Record(m)
<1>1. Typed /\ SnapshotFresh
  BY DEF StoreInv
<1>2. L!Legal(m)
  <2>1. L!Legal(txn[c].cmd)
    BY CommitLegal
  <2>2. QED
    BY <2>1
<1>3. Log' = Append(Log, m)
  BY <1>1, LogGrows
<1>4. UNCHANGED acks
  BY DEF Commit
<1>5. QED
  BY <1>2, <1>3, <1>4 DEF L!Record, Log

\* A call that tells its caller of a recorded event is an answer.
LEMMA TellingAnswers ==
    ASSUME Typed, UNCHANGED db, NEW m, NEW o, NEW e, Recorded(m, e),
           acks' = acks \cup {[cmd |-> m, outcome |-> o, event |-> e]}
    PROVE  L!Answer(m)
<1>1. PICK i \in 1..Len(events) : events[i].cmd.event = e /\ SameRequest(events[i].cmd, m)
  BY DEF Recorded
<1>2. Told' = Told \cup {[cmd |-> m, event |-> e]}
  <2> DEFINE b == [cmd |-> m, outcome |-> o, event |-> e]
             t == [cmd |-> m, event |-> e]
  <2>1. b.cmd = m /\ b.event = e
    OBVIOUS
  <2>2. acks' = acks \cup {b}
    OBVIOUS
  <2> HIDE DEF b
  <2>3. ASSUME NEW x PROVE x \in Told' <=> x \in Told \/ x = t
    BY <2>1, <2>2 DEF Told
  <2>4. QED
    BY <2>3
<1>3. Len([j \in 1..Len(events) |-> events[j].cmd]) = Len(events)
  BY LogFacts DEF Log
<1>4. Log[i] = events[i].cmd /\ i \in 1..Len(events)
  BY LogFacts
<1>5. L!SameRequest(Log[i], m) /\ Told' = Told \cup {[cmd |-> m, event |-> Log[i].event]}
  BY <1>1, <1>2, <1>4, SameWords
<1>6. UNCHANGED Log
  BY DEF db, Log
<1>7. QED
  BY <1>3, <1>4, <1>5, <1>6 DEF L!Answer, Log, Told

\* Transactions, snapshots, lock contention, rollbacks and crashes cannot be
\* told from the outside: the store is the ledger.
THEOREM StoreImplementsLedger == Spec => ImplementsLedger
<1>1. Init => L!Init
  BY DEF Init, L!Init
<1>2. StoreInv /\ [Next]_vars => [L!Next]_(L!vars)
  <2> SUFFICES ASSUME StoreInv, [Next]_vars PROVE L!Next \/ UNCHANGED L!vars
    BY DEF L!vars
  <2>0. Typed /\ SnapshotFresh /\ AnswersRecorded
    BY DEF StoreInv
  <2>1. ASSUME UNCHANGED db, UNCHANGED acks PROVE UNCHANGED L!vars
    BY <2>1 DEF db, L!vars
  <2>2. ASSUME NEW c \in Conns, Commit(c) PROVE L!Next
    <3>1. PICK m \in Commands : m = txn[c].cmd
      BY <2>0, <2>2, CommitFacts
    <3>2. L!Record(m)
      BY <2>2, <3>1, CommitRecords
    <3>3. QED
      BY <3>2 DEF L!Next
  <2>3. ASSUME NEW c \in Conns, Return(c), txn[c].verdict = "replayed" PROVE L!Next
    <3>1. /\ UNCHANGED db /\ phase[c] = "read"
          /\ acks' = acks \cup {[cmd |-> txn[c].cmd, outcome |-> "replayed",
                                 event |-> txn[c].answer]}
      BY <2>3 DEF Return
    <3>2. Recorded(txn[c].cmd, txn[c].answer) /\ txn[c].cmd \in Commands
      BY <2>0, <2>3, <3>1 DEF AnswersRecorded, Typed, InCall
    <3>3. PICK m \in Commands : m = txn[c].cmd
      BY <3>2
    <3>4. PICK e : e = txn[c].answer
      OBVIOUS
    <3>5. /\ acks' = acks \cup {[cmd |-> m, outcome |-> "replayed", event |-> e]}
          /\ Recorded(m, e)
      BY <3>1, <3>2, <3>3, <3>4
    <3>6. L!Answer(m)
      BY <2>0, <3>1, <3>5, TellingAnswers
    <3>7. QED
      BY <3>6 DEF L!Next
  <2>4. ASSUME NEW c \in Conns, Reply(c) PROVE L!Next
    <3>1. /\ UNCHANGED db /\ phase[c] = "committed"
          /\ acks' = acks \cup {[cmd |-> txn[c].cmd, outcome |-> "committed",
                                 event |-> txn[c].cmd.event]}
      BY <2>4 DEF Reply
    <3>2. Recorded(txn[c].cmd, txn[c].cmd.event) /\ txn[c].cmd \in Commands
      BY <2>0, <3>1 DEF AnswersRecorded, Typed, InCall
    <3>3. PICK m \in Commands : m = txn[c].cmd
      BY <3>2
    <3>4. PICK e : e = txn[c].cmd.event
      OBVIOUS
    <3>5. /\ acks' = acks \cup {[cmd |-> m, outcome |-> "committed", event |-> e]}
          /\ Recorded(m, e)
      BY <3>1, <3>2, <3>3, <3>4
    <3>6. L!Answer(m)
      BY <2>0, <3>1, <3>5, TellingAnswers
    <3>7. QED
      BY <3>6 DEF L!Next
  <2>5. ASSUME NEW c \in Conns, NEW m \in Commands,
               \/ Open(c) \/ Begin(c, m) \/ Upgrade(c) \/ Busy(c)
               \/ Refuse(c) \/ Abort(c) \/ Crash(c)
               \/ Return(c) /\ txn[c].verdict # "replayed"
        PROVE  UNCHANGED db /\ UNCHANGED acks
    BY <2>5 DEF Open, Begin, Upgrade, Busy, Refuse, Abort, Crash, Return
  <2>6. ASSUME NEW c \in Conns,
               \/ Open(c) \/ Upgrade(c) \/ Busy(c)
               \/ Refuse(c) \/ Abort(c) \/ Crash(c)
               \/ Return(c) /\ txn[c].verdict # "replayed"
        PROVE  UNCHANGED db /\ UNCHANGED acks
    BY <2>6 DEF Open, Upgrade, Busy, Refuse, Abort, Crash, Return
  <2>7. UNCHANGED vars => UNCHANGED db /\ UNCHANGED acks
    BY DEF vars, db
  <2>8. QED
    BY <2>1, <2>2, <2>3, <2>4, <2>5, <2>6, <2>7 DEF Next
<1>3. Spec => []StoreInv
  BY TypeCorrect, SnapshotCurrent, ProjectionIsReplay, KeysSpentOnce, OutboxIsLog,
     AuditIsLog, AcksAreDurable, PTL DEF StoreInv
<1>4. QED
  BY <1>1, <1>2, <1>3, PTL DEF Spec, ImplementsLedger, L!Spec
=============================================================================
