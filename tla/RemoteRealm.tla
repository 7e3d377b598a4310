----------------------------- MODULE RemoteRealm -----------------------------
(***************************************************************************)
(* RealmCoordinator (crates/remote-realm): tasks handed to a remote realm  *)
(* under a lease that heartbeats renew.  The realm is another machine: it  *)
(* may be slow or gone, and a result of a lease long over may still come.  *)
(* A task is named by the digest of its envelope, so the same envelope     *)
(* submitted again is the same task, and starts it over.                   *)
(***************************************************************************)
EXTENDS Naturals

CONSTANTS
    Envelopes,      \* envelopes whose digest validates: the names of tasks
    Window,         \* LEASE_WINDOW_MS, in ticks
    MaxTime,        \* bound: the clock
    MaxSubmissions  \* bound: of one envelope

Ended == {"Succeeded", "Failed", "Cancelled"}
TaskStates == {"absent", "Submitted", "Running"} \cup Ended

RealmAssumption == Window \in Nat \ {0} /\ MaxTime \in Nat /\ MaxSubmissions \in Nat

VARIABLES
    tasks,          \* Envelopes -> its state
    deadline,       \* Envelopes -> the end of its lease
    clock,
    submissions,    \* Envelopes -> how often it was submitted (bound)
    at_work,        \* leases the realm works under: <<envelope, submission>>
    over,           \* submissions that were reaped, cancelled or answered (history)
    reaped,         \* submissions whose lease was reaped (history)
    admitted        \* <<task, submission the result is of, submission it was
                    \* admitted in>> (history)

vars == <<tasks, deadline, clock, submissions, at_work, over, reaped, admitted>>

Init ==
    /\ tasks = [e \in Envelopes |-> "absent"]
    /\ deadline = [e \in Envelopes |-> 0]
    /\ clock = 0
    /\ submissions = [e \in Envelopes |-> 0]
    /\ at_work = {} /\ over = {} /\ reaped = {} /\ admitted = {}

Lease(e) == <<e, submissions[e]>>
Expired(e) == clock > deadline[e]

Tick ==
    /\ clock < MaxTime
    /\ clock' = clock + 1
    /\ UNCHANGED <<tasks, deadline, submissions, at_work, over, reaped, admitted>>

\* submit: the entry of the envelope is replaced, whatever its state.
Submit(e) ==
    /\ submissions[e] < MaxSubmissions
    /\ submissions' = [submissions EXCEPT ![e] = @ + 1]
    /\ tasks' = [tasks EXCEPT ![e] = "Submitted"]
    /\ deadline' = [deadline EXCEPT ![e] = 0]
    /\ UNCHANGED <<clock, at_work, over, reaped, admitted>>

\* lease: and the realm sets to work.
TakeLease(e) ==
    /\ tasks[e] = "Submitted"
    /\ tasks' = [tasks EXCEPT ![e] = "Running"]
    /\ deadline' = [deadline EXCEPT ![e] = clock + Window]
    /\ at_work' = at_work \cup {Lease(e)}
    /\ UNCHANGED <<clock, submissions, over, reaped, admitted>>

\* Mutant: a heartbeat revives a lease that ran out.
HeartbeatLate(e) ==
    /\ tasks[e] \in {"Running", "Failed"}
    /\ tasks' = [tasks EXCEPT ![e] = "Running"]
    /\ deadline' = [deadline EXCEPT ![e] = clock + Window]
    /\ UNCHANGED <<clock, submissions, at_work, over, reaped, admitted>>

\* heartbeat: late ones are refused.
Heartbeat(e) ==
    /\ tasks[e] = "Running" /\ ~Expired(e)
    /\ deadline' = [deadline EXCEPT ![e] = clock + Window]
    /\ UNCHANGED <<tasks, clock, submissions, at_work, over, reaped, admitted>>

Overdue == {e \in Envelopes : tasks[e] = "Running" /\ Expired(e)}

\* reap_expired: all of them at once.
Reap ==
    /\ Overdue # {}
    /\ tasks' = [e \in Envelopes |-> IF e \in Overdue THEN "Failed" ELSE tasks[e]]
    /\ over' = over \cup {Lease(e) : e \in Overdue}
    /\ reaped' = reaped \cup {Lease(e) : e \in Overdue}
    /\ UNCHANGED <<deadline, clock, submissions, at_work, admitted>>

\* admit_result: exit 0 and the digest of the bytes that came.  The result
\* names the task, not the lease it was produced under.
Admit(e, from) ==
    /\ <<e, from>> \in at_work
    /\ tasks[e] = "Running" /\ ~Expired(e)
    /\ tasks' = [tasks EXCEPT ![e] = "Succeeded"]
    /\ admitted' = admitted \cup {<<e, from, submissions[e]>>}
    /\ over' = over \cup {Lease(e)}
    /\ UNCHANGED <<deadline, clock, submissions, at_work, reaped>>

\* admit_result: a result after the lease, or with another exit; one whose
\* bytes do not have the digest it claims changes nothing.
RefuseResult(e, from) ==
    /\ <<e, from>> \in at_work
    /\ tasks[e] = "Running"
    /\ tasks' = [tasks EXCEPT ![e] = "Failed"]
    /\ over' = over \cup {Lease(e)}
    /\ UNCHANGED <<deadline, clock, submissions, at_work, reaped, admitted>>

Cancel(e) ==
    /\ tasks[e] \in {"Submitted", "Running"}
    /\ tasks' = [tasks EXCEPT ![e] = "Cancelled"]
    /\ over' = over \cup {Lease(e)}
    /\ UNCHANGED <<deadline, clock, submissions, at_work, reaped, admitted>>

Next ==
    \/ Tick \/ Reap
    \/ \E e \in Envelopes :
        \/ Submit(e) \/ TakeLease(e) \/ Heartbeat(e) \/ Cancel(e)
        \/ \E from \in 1..MaxSubmissions : Admit(e, from) \/ RefuseResult(e, from)

Spec == Init /\ [][Next]_vars

-----------------------------------------------------------------------------

TypeOK ==
    /\ tasks \in [Envelopes -> TaskStates]
    /\ deadline \in [Envelopes -> Nat]
    /\ clock \in 0..MaxTime
    /\ submissions \in [Envelopes -> 0..MaxSubmissions]
    /\ at_work \subseteq Envelopes \X (1..MaxSubmissions)
    /\ over \subseteq Envelopes \X (1..MaxSubmissions) /\ reaped \subseteq over
    /\ admitted \subseteq Envelopes \X (1..MaxSubmissions) \X (1..MaxSubmissions)

\* reap_expired and admit_result: of one submission at most one result is
\* admitted, and none of a task that then stands cancelled or failed.
OneEndPerSubmission ==
    /\ \A a, b \in admitted : a[1] = b[1] /\ a[3] = b[3] => a = b
    /\ \A a \in admitted :
        a[3] = submissions[a[1]] => tasks[a[1]] = "Succeeded"
    /\ \A e \in Envelopes :
        (tasks[e] \in Ended) <=> (Lease(e) \in over)

\* "A crashed realm can never report success" (ADR-022), of a task that was
\* submitted once: what has ended stays as it ended.
EndsOnce ==
    [][\A e \in Envelopes :
        tasks[e] \in Ended /\ submissions'[e] = submissions[e] => tasks'[e] = tasks[e]]_vars

\* ADR-022: "a stale success arriving after reaping is refused": no result is
\* admitted that was produced under a lease that was reaped.
StaleRefused == \A a \in admitted : <<a[1], a[2]>> \notin reaped
=============================================================================
