------------------------------ MODULE EventStore ------------------------------
(***************************************************************************)
(* The encrypted fact store of crates/event-store: one SQLite database in  *)
(* WAL mode that holds the append-only event log together with the tables  *)
(* projected from it (runs, outbox, policy decisions, idempotency keys).   *)
(*                                                                         *)
(* Several connections use the file at once: `saber-core serve`, one       *)
(* `saber-core run` per CLI call, tests.  No lock of the program orders    *)
(* them; what orders them is SQLite.  Every mutating operation of          *)
(* event-store/src/lib.rs has the same shape, which this module keeps:     *)
(*                                                                         *)
(*   Begin    a DEFERRED transaction whose first statement reads (replay   *)
(*            of the idempotency key, the current run state, the decision  *)
(*            row): the connection now has a snapshot, and has decided;    *)
(*   Return   the decision needs no write: Replayed or an error;           *)
(*   Upgrade  the first INSERT turns the snapshot into the write           *)
(*            transaction, which SQLite grants only to an up-to-date       *)
(*            snapshot while nobody else writes; otherwise Busy;           *)
(*   Commit   every INSERT and UPDATE of the operation becomes visible     *)
(*            together, unless a constraint fails (Refuse: rollback);      *)
(*   Reply    the caller learns the outcome.  A crash may come before it.  *)
(*                                                                         *)
(* An operation is a record of the constant Commands; its data (payloads,  *)
(* task ids, effect kinds) is abstracted to arg, compared for equality.    *)
(***************************************************************************)
EXTENDS StoreCommands

CONSTANTS
    Conns,          \* open handles on the database file, of any process
    NoConn, NoCmd

ASSUME ConnsAssumption == NoConn \notin Conns /\ NoCmd \notin Commands

VARIABLES
    \* The database, as the last committed transaction left it.
    events,      \* the log: [cmd, from, prev] in sequence order
    runs,        \* Runs -> [state, evidence, seq]
    checkpoint,  \* projections['runs'].last_sequence
    outbox,      \* Intents -> state of the row
    decisions,   \* Decisions -> [audit, at, result, enforcedAt]
    idem,        \* idempotency_keys: rows [key, body, event]
    version,     \* commits so far: the WAL position a snapshot is taken at
    \* The connections.
    writer,      \* who holds SQLite's write lock
    phase,       \* Conns -> where the handle is in its operation
    txn,         \* Conns -> what the handle's open transaction has read
    \* What callers were told (history).
    acks         \* [cmd, outcome, event]

db == <<events, runs, checkpoint, outbox, decisions, idem, version>>
vars == <<events, runs, checkpoint, outbox, decisions, idem, version,
          writer, phase, txn, acks>>

-----------------------------------------------------------------------------
(* What the operations compute.                                            *)

AbsentRun == [state |-> "absent", evidence |-> FALSE, seq |-> 0]
NoDecision == [audit |-> "none", at |-> 0, result |-> "none", enforcedAt |-> 0]

\* The state the snapshot shows for the run m is about.
CurrentState(m) == IF m.op = "transition" THEN runs[m.obj].state ELSE "absent"

\* Mutant: the request hash is not compared.
ReplayVerdictUnchecked(m, row) == "replayed"

\* `replay` on a used key: the same request is answered from the row.
ReplayVerdict(m, row) ==
    IF row.body = Body(m) THEN "replayed" ELSE "conflict"

\* Mutant: valid_transition is not consulted.
TransitionVerdictUnchecked(m) ==
    IF m.arg = "succeeded" => m.evidence THEN "append" ELSE "rejected"

\* transition_run between its replay and its first INSERT.
TransitionVerdict(m) ==
    IF TransitionAllowed(runs[m.obj].state, m) THEN "append" ELSE "rejected"

\* persist_policy_decision: the decision id is the key, the audit the request.
DecideVerdict(m) ==
    IF decisions[m.obj] = NoDecision THEN "append"
    ELSE IF decisions[m.obj].audit = m.arg /\ decisions[m.obj].at = m.at
         THEN "replayed" ELSE "conflict"

\* Mutant: the time of the decision is not compared.
EnforceVerdictUntimed(m) ==
    LET d == decisions[m.obj] IN
    IF d = NoDecision THEN "conflict"
    ELSE IF d.result = "none" THEN "append"
    ELSE IF d.result = m.arg /\ d.enforcedAt = m.at THEN "replayed" ELSE "conflict"

\* persist_policy_enforcement up to its append.
EnforceVerdict(m) ==
    LET d == decisions[m.obj] IN
    IF d = NoDecision \/ m.at < d.at THEN "conflict"
    ELSE IF d.result = "none" THEN "append"
    ELSE IF d.result = m.arg /\ d.enforcedAt = m.at THEN "replayed" ELSE "conflict"

KeyRows(k) == {row \in idem : row.key = k}

\* What an operation decides from its snapshot.
Verdict(m) ==
    CASE m.op \in KeyedOps /\ KeyRows(m.key) # {} ->
            ReplayVerdict(m, CHOOSE row \in KeyRows(m.key) : TRUE)
      [] m.op = "transition" /\ KeyRows(m.key) = {} -> TransitionVerdict(m)
      [] m.op = "decide"  -> DecideVerdict(m)
      [] m.op = "enforce" -> EnforceVerdict(m)
      [] OTHER -> "append"

\* Mutant: the wrong column of the row is answered.
AnsweredEventSwapped(m) ==
    IF m.op \in KeyedOps /\ KeyRows(m.key) # {}
    THEN (CHOOSE row \in KeyRows(m.key) : TRUE).key
    ELSE m.event

\* The event id a Replayed answer carries: that of the row found, or, for the
\* audit records, the id that is derived from the record.
AnsweredEvent(m) ==
    IF m.op \in KeyedOps /\ KeyRows(m.key) # {}
    THEN (CHOOSE row \in KeyRows(m.key) : TRUE).event
    ELSE m.event

\* Mutant: the UPDATE of the outbox does not ask for a pending row.
ConstraintsHoldAnyState(m) ==
    /\ \A i \in 1..Len(events) : events[i].cmd.event # m.event
    /\ m.op = "create" => runs[m.obj].state = "absent"
    /\ m.op = "intent" => outbox[m.obj] = "none"
    /\ m.op = "result" => outbox[m.obj] # "none"
    /\ m.op = "decide" => decisions[m.obj] = NoDecision
    /\ m.op = "enforce" => decisions[m.obj].result = "none"
    /\ m.op \in KeyedOps => KeyRows(m.key) = {}

\* The constraints of the schema, and the guarded UPDATEs: what can still
\* fail, and roll the transaction back, once it writes.
ConstraintsHold(m) ==
    /\ \A i \in 1..Len(events) : events[i].cmd.event # m.event
    /\ m.op = "create" => runs[m.obj].state = "absent"
    /\ m.op = "intent" => outbox[m.obj] = "none"
    /\ m.op = "result" => outbox[m.obj] = "pending"
    /\ m.op = "decide" => decisions[m.obj] = NoDecision
    /\ m.op = "enforce" => decisions[m.obj].result = "none"
    /\ m.op \in KeyedOps => KeyRows(m.key) = {}

\* The event a new one is linked to.
LastId == IF events = <<>> THEN NoEvent ELSE events[Len(events)].cmd.event

-----------------------------------------------------------------------------
(* What a commit writes, table by table.                                   *)

\* append_event: `from` and `prev` are what the snapshot of c showed.
AppendEvent(c) ==
    events' = Append(events, [cmd |-> txn[c].cmd, from |-> txn[c].from,
                              prev |-> txn[c].last])

WriteRuns(m, seq) ==
    /\ runs' = IF m.op \in {"create", "transition"}
               THEN [runs EXCEPT ![m.obj] =
                        [state |-> StateOf(m), evidence |-> m.evidence, seq |-> seq]]
               ELSE runs
    /\ checkpoint' = IF m.op \in {"create", "transition"} THEN seq ELSE checkpoint

WriteOutbox(m) ==
    outbox' = CASE m.op = "intent" -> [outbox EXCEPT ![m.obj] = "pending"]
                [] m.op = "result" -> [outbox EXCEPT ![m.obj] = m.arg]
                [] OTHER -> outbox

WriteDecisions(m) ==
    decisions' =
        CASE m.op = "decide" ->
                [decisions EXCEPT ![m.obj] =
                    [audit |-> m.arg, at |-> m.at, result |-> "none", enforcedAt |-> 0]]
          [] m.op = "enforce" ->
                [decisions EXCEPT ![m.obj] =
                    [audit |-> @.audit, at |-> @.at, result |-> m.arg, enforcedAt |-> m.at]]
          [] OTHER -> decisions

\* The idempotency row of an event.
KeyRow(m) == [key |-> m.key, body |-> Body(m), event |-> m.event]

\* Mutant: append_core_event forgets to spend its key.
WriteIdempotencyNotCore(m) ==
    idem' = IF m.op \in KeyedOps \ {"core"}
            THEN idem \cup {KeyRow(m)}
            ELSE idem

\* record_idempotency.
WriteIdempotency(m) ==
    idem' = IF m.op \in KeyedOps
            THEN idem \cup {KeyRow(m)}
            ELSE idem

-----------------------------------------------------------------------------
NoTxn == [cmd |-> NoCmd, snap |-> 0, verdict |-> "none", answer |-> NoEvent,
          from |-> "absent", last |-> NoEvent]

\* What an operation learns from the snapshot it starts on.
Reading(m) == [cmd |-> m, snap |-> version, verdict |-> Verdict(m),
               answer |-> AnsweredEvent(m), from |-> CurrentState(m), last |-> LastId]

Init ==
    /\ events = <<>>
    /\ runs = [r \in Runs |-> AbsentRun]
    /\ checkpoint = 0
    /\ outbox = [i \in Intents |-> "none"]
    /\ decisions = [d \in Decisions |-> NoDecision]
    /\ idem = {}
    /\ version = 0
    /\ writer = NoConn
    /\ phase = [c \in Conns |-> "closed"]
    /\ txn = [c \in Conns |-> NoTxn]
    /\ acks = {}

\* EventStore::open on an existing file.  It verifies integrity and the hash
\* chain and fails without a handle otherwise.
Open(c) ==
    /\ phase[c] = "closed"
    /\ \A i \in 2..Len(events) : events[i].prev = events[i-1].cmd.event
    /\ phase' = [phase EXCEPT ![c] = "idle"]
    /\ UNCHANGED <<db, writer, txn, acks>>

\* self.connection.transaction() and the reads that follow it.
Begin(c, m) ==
    /\ phase[c] = "idle"
    /\ phase' = [phase EXCEPT ![c] = "read"]
    /\ txn' = [txn EXCEPT ![c] = Reading(m)]
    /\ UNCHANGED <<db, writer, acks>>

\* The operation is over; the handle is free for the next call.
Done(c) ==
    /\ phase' = [phase EXCEPT ![c] = "idle"]
    /\ txn' = [txn EXCEPT ![c] = NoTxn]

\* Mutant: a conflict is answered as if it were a replay.
ReturnAlwaysReplayed(c) ==
    /\ phase[c] = "read"
    /\ txn[c].verdict # "append"
    /\ Done(c)
    /\ acks' = acks \cup {[cmd |-> txn[c].cmd, outcome |-> "replayed",
                           event |-> txn[c].answer]}
    /\ UNCHANGED <<db, writer>>

\* It returns without writing.  Only a replay tells the caller of an event.
Return(c) ==
    /\ phase[c] = "read"
    /\ txn[c].verdict # "append"
    /\ Done(c)
    /\ acks' = IF txn[c].verdict = "replayed"
               THEN acks \cup {[cmd |-> txn[c].cmd, outcome |-> "replayed",
                                event |-> txn[c].answer]}
               ELSE acks
    /\ UNCHANGED <<db, writer>>

\* Mutant: the reads are made before the transaction, so nothing ties the
\* write to their snapshot.
CanWriteStale(c) == writer = NoConn

\* SQLite upgrades a read transaction only while its snapshot is the last
\* commit (otherwise SQLITE_BUSY_SNAPSHOT) and nobody holds the write lock.
CanWrite(c) == writer = NoConn /\ txn[c].snap = version

Upgrade(c) ==
    /\ phase[c] = "read"
    /\ txn[c].verdict = "append"
    /\ CanWrite(c)
    /\ writer' = c
    /\ phase' = [phase EXCEPT ![c] = "write"]
    /\ UNCHANGED <<db, txn, acks>>

Busy(c) ==
    /\ phase[c] = "read"
    /\ txn[c].verdict = "append"
    /\ ~CanWrite(c)
    /\ Done(c)
    /\ UNCHANGED <<db, writer, acks>>

Commit(c) ==
    LET m == txn[c].cmd
        seq == Len(events) + 1
    IN
    /\ phase[c] = "write"
    /\ ConstraintsHold(m)
    /\ AppendEvent(c)
    /\ WriteRuns(m, seq)
    /\ WriteOutbox(m)
    /\ WriteDecisions(m)
    /\ WriteIdempotency(m)
    /\ version' = version + 1
    /\ writer' = NoConn
    /\ phase' = [phase EXCEPT ![c] = "committed"]
    /\ UNCHANGED <<txn, acks>>

\* A constraint or a guarded UPDATE fails: the transaction is dropped.
Refuse(c) ==
    /\ phase[c] = "write"
    /\ ~ConstraintsHold(txn[c].cmd)
    /\ writer' = NoConn
    /\ Done(c)
    /\ UNCHANGED <<db, acks>>

\* The disk is full, or COMMIT fails: SQLite rolls back.
Abort(c) ==
    /\ phase[c] = "write"
    /\ writer' = NoConn
    /\ Done(c)
    /\ UNCHANGED <<db, acks>>

Reply(c) ==
    /\ phase[c] = "committed"
    /\ Done(c)
    /\ acks' = acks \cup {[cmd |-> txn[c].cmd, outcome |-> "committed",
                           event |-> txn[c].cmd.event]}
    /\ UNCHANGED <<db, writer>>

\* The process dies, or closes the handle: an open transaction is discarded
\* and its lock freed; what was committed stays.
Crash(c) ==
    /\ phase[c] # "closed"
    /\ phase' = [phase EXCEPT ![c] = "closed"]
    /\ txn' = [txn EXCEPT ![c] = NoTxn]
    /\ writer' = IF writer = c THEN NoConn ELSE writer
    /\ UNCHANGED <<db, acks>>

Next ==
    \E c \in Conns :
        \/ Open(c)
        \/ \E m \in Commands : Begin(c, m)
        \/ Return(c)
        \/ Upgrade(c)
        \/ Busy(c)
        \/ Commit(c)
        \/ Refuse(c)
        \/ Abort(c)
        \/ Reply(c)
        \/ Crash(c)

Spec == Init /\ [][Next]_vars

-----------------------------------------------------------------------------
(* Properties.                                                             *)

Verdicts == {"none", "append", "replayed", "conflict", "rejected"}

EventType ==
    [cmd : Commands, from : RunStates \cup {"absent"}, prev : EventIds \cup {NoEvent}]

\* Every variable holds a value of its kind.
TypeOK ==
    /\ events \in Seq(EventType)
    /\ runs \in [Runs -> [state : RunStates \cup {"absent"}, evidence : BOOLEAN, seq : Nat]]
    /\ checkpoint \in Nat
    /\ outbox \in [Intents -> {"none", "pending", "completed", "abandoned"}]
    /\ decisions \in [Decisions -> [audit : Args \cup {"none"}, at : Nat,
                                   result : {"none", "succeeded", "failed"}, enforcedAt : Nat]]
    /\ idem \subseteq [key : Keys, body : {Body(m) : m \in Commands}, event : EventIds]
    /\ version \in Nat
    /\ writer \in Conns \cup {NoConn}
    /\ phase \in [Conns -> {"closed", "idle", "read", "write", "committed"}]
    /\ txn \in [Conns -> [cmd : Commands \cup {NoCmd}, snap : Nat, verdict : Verdicts,
                         answer : EventIds \cup {NoEvent},
                         from : RunStates \cup {"absent"}, last : EventIds \cup {NoEvent}]]
    /\ acks \subseteq [cmd : Commands, outcome : {"committed", "replayed"},
                       event : EventIds \cup {NoEvent}]

\* The hash chain never forks: each event is linked to the one before it,
\* whichever connections appended them (verify_hash_chain; a fork would make
\* every later EventStore::open fail).
ChainLinked ==
    \A i \in 1..Len(events) :
        events[i].prev = IF i = 1 THEN NoEvent ELSE events[i-1].cmd.event

\* Replaying the log rebuilds the runs table exactly, and never meets a
\* poison event (what verify_run_projection checks): the row of a run is
\* that of the last event about it, every event about a run starts from the
\* state the previous one left and is a legal step, and a run exists only
\* from its "queued" event on.
RowFromLog(r) ==
    IF \A i \in 1..Len(events) : ~AboutRun(events[i].cmd, r)
    THEN runs[r] = AbsentRun
    ELSE /\ runs[r].seq \in 1..Len(events)
         /\ AboutRun(events[runs[r].seq].cmd, r)
         /\ runs[r].state = StateOf(events[runs[r].seq].cmd)
         /\ runs[r].evidence = events[runs[r].seq].cmd.evidence
         /\ \A i \in (runs[r].seq + 1)..Len(events) : ~AboutRun(events[i].cmd, r)

StepLegal(i, r) ==
    IF \A j \in 1..(i-1) : ~AboutRun(events[j].cmd, r)
    THEN events[i].cmd.op = "create"
    ELSE /\ events[i].cmd.op = "transition"
         /\ TransitionAllowed(events[i].from, events[i].cmd)
         /\ \E j \in 1..(i-1) :
                /\ AboutRun(events[j].cmd, r)
                /\ StateOf(events[j].cmd) = events[i].from
                /\ \A k \in (j+1)..(i-1) : ~AboutRun(events[k].cmd, r)

ProjectionMatchesLog ==
    \A r \in Runs :
        /\ RowFromLog(r)
        /\ \A i \in 1..Len(events) : AboutRun(events[i].cmd, r) => StepLegal(i, r)

\* However often, and from however many processes, a request is retried, its
\* key is spent by exactly one event, and the stored row names that event
\* and that request.
KeySpentOnce ==
    /\ \A i, j \in 1..Len(events) :
        events[i].cmd.op \in KeyedOps /\ events[i].cmd.key = events[j].cmd.key => i = j
    /\ idem = {KeyRow(events[i].cmd) :
                  i \in {n \in 1..Len(events) : events[n].cmd.op \in KeyedOps}}

EventOf(i, op, obj) == events[i].cmd.op = op /\ events[i].cmd.obj = obj

\* The outbox row of an effect agrees with the log: pending exactly while
\* its intent has no result, and no effect is ever resolved twice, or
\* resolved before it was announced.
OutboxMatchesLog ==
    \A x \in Intents :
        /\ outbox[x] = "none" <=> \A i \in 1..Len(events) : ~EventOf(i, "intent", x)
        /\ outbox[x] \in {"none", "pending"}
              <=> \A i \in 1..Len(events) : ~EventOf(i, "result", x)
        /\ \A i, j \in 1..Len(events) :
              EventOf(i, "result", x) /\ EventOf(j, "result", x) => i = j
        /\ \A i \in 1..Len(events) :
              EventOf(i, "result", x) =>
                 /\ outbox[x] = events[i].cmd.arg
                 /\ \E j \in 1..(i-1) : EventOf(j, "intent", x)

\* An enforcement is logged at most once, after the decision it enforces and
\* not before that decision's time.
EnforcedAfterDecided ==
    \A i \in 1..Len(events) :
        events[i].cmd.op = "enforce" =>
            /\ \E j \in 1..(i-1) :
                /\ EventOf(j, "decide", events[i].cmd.obj)
                /\ events[j].cmd.at <= events[i].cmd.at
            /\ \A j \in 1..Len(events) : EventOf(j, "enforce", events[i].cmd.obj) => i = j

\* What a caller was told survives: the event named in an answer is in the
\* log, and it was recorded for the very request the caller made.
AckDurable ==
    \A a \in acks :
        \E i \in 1..Len(events) :
            events[i].cmd.event = a.event /\ SameRequest(events[i].cmd, a.cmd)

\* The store implements the ledger: transactions, snapshots, lock contention,
\* rollbacks and crashes are invisible in the sequence of facts and answers.
L == INSTANCE Ledger WITH
        ledger <- [i \in 1..Len(events) |-> events[i].cmd],
        answers <- {[cmd |-> a.cmd, event |-> a.event] : a \in acks}

ImplementsLedger == L!Spec
=============================================================================
