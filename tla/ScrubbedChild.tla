--------------------------- MODULE ScrubbedChild ---------------------------
(***************************************************************************)
(* run_scrubbed_child (crates/sandbox/src/process.rs): the calling thread  *)
(* feeds a child, reads its two outputs one after the other up to a cap,   *)
(* then waits for it holding the mutex it is shared under; a watcher       *)
(* thread takes the same mutex at the deadline to kill it.  Pipes hold     *)
(* little, and what the child started may hold its outputs open after it.  *)
(***************************************************************************)
EXTENDS Naturals

CONSTANTS
    Payload,        \* units of stdin for the child
    PipeSize,       \* units a pipe holds
    MaxOutput       \* max_output_bytes, in reads of one unit

ChildAssumption == Payload \in Nat /\ PipeSize \in Nat \ {0} /\ MaxOutput \in Nat

Streams == {"stdout", "stderr"}

VARIABLES
    main,           \* what the caller does next
    watcher,        \* and the watcher
    mutex,          \* who holds the child's mutex
    child,          \* "running", "exited" or "killed"
    input,          \* [left, piped]: stdin not written yet, and not read yet
    holders,        \* Streams -> who may write it: the child, one it started
    pipe,           \* Streams -> units written and not read
    captured,       \* Streams -> units read into the outcome
    truncated,      \* streams cut at the cap
    broken,         \* streams whose read failed (history)
    due,            \* the deadline passed
    finished, killed,   \* the two flags the threads share
    sent            \* Streams -> units written (history)

vars == <<main, watcher, mutex, child, input, holders, pipe, captured, truncated, broken, due,
          finished, killed, sent>>

process == <<child, holders, sent>>
output == <<captured, truncated, broken>>
flags == <<due, finished, killed>>

Init ==
    /\ main = "stdin" /\ watcher = "none" /\ mutex = "none"
    /\ child = "running"
    /\ input = [left |-> Payload, piped |-> 0]
    /\ holders = [s \in Streams |-> {"child"}]
    /\ pipe = [s \in Streams |-> 0] /\ captured = [s \in Streams |-> 0]
    /\ sent = [s \in Streams |-> 0]
    /\ truncated = {} /\ broken = {} /\ due = FALSE /\ finished = FALSE /\ killed = FALSE

-----------------------------------------------------------------------------
(* External: the child and what it starts.                                 *)

ReadInput ==
    /\ child = "running" /\ input.piped > 0
    /\ input' = [input EXCEPT !.piped = @ - 1]
    /\ UNCHANGED <<main, watcher, mutex, process, pipe, output, flags>>

Write(s) ==
    /\ holders[s] # {} /\ pipe[s] < PipeSize
    /\ pipe' = [pipe EXCEPT ![s] = @ + 1]
    /\ sent' = [sent EXCEPT ![s] = @ + 1]
    /\ UNCHANGED <<main, watcher, mutex, child, input, holders, output, flags>>

\* It starts another, which has the output too.
Share(s) ==
    /\ child = "running" /\ "child" \in holders[s]
    /\ holders' = [holders EXCEPT ![s] = @ \cup {"heir"}]
    /\ UNCHANGED <<main, watcher, mutex, child, input, pipe, output, flags, sent>>

Close(s, holder) ==
    /\ holder \in holders[s]
    /\ holders' = [holders EXCEPT ![s] = @ \ {holder}]
    /\ UNCHANGED <<main, watcher, mutex, child, input, pipe, output, flags, sent>>

\* What ends a child closes its outputs, not those of an heir.
Ended(how) ==
    /\ child' = how
    /\ holders' = [s \in Streams |-> holders[s] \ {"child"}]

Exit ==
    /\ child = "running" /\ Ended("exited")
    /\ UNCHANGED <<main, watcher, mutex, input, pipe, output, flags, sent>>

-----------------------------------------------------------------------------
(* The calling thread.                                                     *)

WriteInput ==
    /\ main = "stdin" /\ child = "running"
    /\ input.left > 0 /\ input.piped < PipeSize
    /\ input' = [left |-> input.left - 1, piped |-> input.piped + 1]
    /\ UNCHANGED <<main, watcher, mutex, process, pipe, output, flags>>

\* The child is gone, or closed its stdin: the call fails before there is a
\* watcher, and a child that runs is left to itself.
InputBroken ==
    /\ main = "stdin" /\ input.left > 0
    /\ main' = "failed"
    /\ UNCHANGED <<watcher, mutex, process, input, pipe, output, flags>>

SpawnWatcher ==
    /\ main = "stdin" /\ input.left = 0
    /\ watcher' = "watching" /\ main' = "pipes"
    /\ UNCHANGED <<mutex, process, input, pipe, output, flags>>

\* The outputs are taken under the mutex, which is given back at once.
TakePipes ==
    /\ main = "pipes" /\ mutex = "none"
    /\ main' = "stdout"
    /\ UNCHANGED <<watcher, mutex, process, input, pipe, output, flags>>

After(s) == IF s = "stdout" THEN "stderr" ELSE "lock"

\* Mutant: an output that reaches the cap is not looked at any further.
ReadToCap(s) ==
    /\ main = s /\ pipe[s] > 0
    /\ pipe' = [pipe EXCEPT ![s] = @ - 1]
    /\ IF captured[s] < MaxOutput
       THEN captured' = [captured EXCEPT ![s] = @ + 1] /\ UNCHANGED <<truncated, main>>
       ELSE main' = After(s) /\ UNCHANGED <<captured, truncated>>
    /\ UNCHANGED <<watcher, mutex, process, input, broken, flags>>

\* read_capped: the pipe stays open behind it, also when it stops at the cap.
Read(s) ==
    /\ main = s /\ pipe[s] > 0
    /\ pipe' = [pipe EXCEPT ![s] = @ - 1]
    /\ IF captured[s] < MaxOutput
       THEN captured' = [captured EXCEPT ![s] = @ + 1] /\ UNCHANGED <<truncated, main>>
       ELSE truncated' = truncated \cup {s} /\ main' = After(s) /\ UNCHANGED captured
    /\ UNCHANGED <<watcher, mutex, process, input, broken, flags>>

EndOfFile(s) ==
    /\ main = s /\ pipe[s] = 0 /\ holders[s] = {}
    /\ main' = After(s)
    /\ UNCHANGED <<watcher, mutex, process, input, pipe, output, flags>>

\* Err(_): an interrupted read too is taken for the end.
ReadFails(s) ==
    /\ main = s
    /\ broken' = broken \cup {s}
    /\ main' = After(s)
    /\ UNCHANGED <<watcher, mutex, process, input, pipe, captured, truncated, flags>>

LockToWait ==
    /\ main = "lock" /\ mutex = "none"
    /\ mutex' = "main" /\ main' = "wait"
    /\ UNCHANGED <<watcher, process, input, pipe, output, flags>>

Wait ==
    /\ main = "wait" /\ child # "running"
    /\ finished' = TRUE /\ main' = "join"
    /\ UNCHANGED <<watcher, mutex, process, input, pipe, output, due, killed>>

\* watcher.join(), with the mutex still held.
Join ==
    /\ main = "join" /\ watcher = "ended"
    /\ main' = "returned" /\ mutex' = "none"
    /\ UNCHANGED <<watcher, process, input, pipe, output, flags>>

-----------------------------------------------------------------------------
(* The watcher: it looks at the flag, then at the clock.                   *)

Expire ==
    /\ watcher # "none" /\ ~due
    /\ due' = TRUE
    /\ UNCHANGED <<main, watcher, mutex, process, input, pipe, output, finished, killed>>

SeeFinished ==
    /\ watcher = "watching" /\ finished
    /\ watcher' = "ended"
    /\ UNCHANGED <<main, mutex, process, input, pipe, output, flags>>

SeeDeadline ==
    /\ watcher = "watching" /\ ~finished /\ due
    /\ watcher' = "locking"
    /\ UNCHANGED <<main, mutex, process, input, pipe, output, flags>>

LockToKill ==
    /\ watcher = "locking" /\ mutex = "none"
    /\ mutex' = "watcher"
    /\ watcher' = IF child = "running" THEN "killing" ELSE "unlocking"
    /\ UNCHANGED <<main, process, input, pipe, output, flags>>

\* A child that ended after try_wait is told to be killed as well.
Kill ==
    /\ watcher = "killing"
    /\ IF child = "running" THEN Ended("killed") ELSE UNCHANGED <<child, holders>>
    /\ killed' = TRUE /\ watcher' = "unlocking"
    /\ UNCHANGED <<main, mutex, input, pipe, output, due, finished, sent>>

Unlock ==
    /\ watcher = "unlocking"
    /\ mutex' = "none" /\ watcher' = "ended"
    /\ UNCHANGED <<main, process, input, pipe, output, flags>>

Caller ==
    \/ WriteInput \/ (child # "running" /\ InputBroken)
    \/ SpawnWatcher \/ TakePipes \/ LockToWait \/ Wait \/ Join
    \/ \E s \in Streams : Read(s) \/ EndOfFile(s)

\* What may go wrong, and need not.
Faults == InputBroken \/ \E s \in Streams : ReadFails(s)

Watcher == SeeFinished \/ SeeDeadline \/ LockToKill \/ Kill \/ Unlock

Processes ==
    \/ ReadInput \/ Exit
    \/ \E s \in Streams :
        Write(s) \/ Share(s) \/ \E h \in {"child", "heir"} : Close(s, h)

Next == Caller \/ Faults \/ Watcher \/ Expire \/ Processes

Spec == Init /\ [][Next]_vars

\* The threads and the clock run; a child may do nothing for ever.
FairSpec == Spec /\ WF_vars(Caller) /\ WF_vars(Watcher) /\ WF_vars(Expire)

-----------------------------------------------------------------------------

TypeOK ==
    /\ main \in {"stdin", "pipes", "lock", "wait", "join", "returned", "failed"} \cup Streams
    /\ watcher \in {"none", "watching", "locking", "killing", "unlocking", "ended"}
    /\ mutex \in {"none", "main", "watcher"}
    /\ child \in {"running", "exited", "killed"}
    /\ input \in [left : 0..Payload, piped : 0..PipeSize]
    /\ holders \in [Streams -> SUBSET {"child", "heir"}]
    /\ pipe \in [Streams -> 0..PipeSize] /\ captured \in [Streams -> 0..MaxOutput]
    /\ truncated \subseteq Streams /\ broken \subseteq Streams
    /\ {due, finished, killed} \subseteq BOOLEAN
    /\ sent \in [Streams -> 0..MaxOutput + PipeSize + 1]

\* ExecOutcome: what a call returns is of a child that ended, says it was killed
\* when it was and only after its deadline, and has all of an output, or as
\* much as the cap allows and says so; or, without a word, what it had read when
\* a read failed.
OutcomeIsTruthful ==
    main = "returned" =>
        /\ child # "running" /\ mutex = "none"
        /\ child = "killed" => killed
        /\ killed => due
        /\ \A s \in Streams :
            IF s \in truncated
            THEN captured[s] = MaxOutput /\ MaxOutput < sent[s]
            ELSE captured[s] = sent[s] \/ (s \in broken /\ captured[s] <= sent[s])

\* BudgetSpec: "Wall-clock deadline in milliseconds; the child is killed after
\* it" (plan.rs): once the deadline has passed a child does not run for ever.
DeadlineKills == due /\ child = "running" ~> child # "running"

\* A call ends once its child has, and all that held its outputs.
CallEnds ==
    child # "running" /\ (\A s \in Streams : holders[s] = {}) ~> main \in {"returned", "failed"}
=============================================================================
