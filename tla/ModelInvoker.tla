---------------------------- MODULE ModelInvoker ----------------------------
(***************************************************************************)
(* One task's calls of models (crates/model-providers): the registry and   *)
(* its updates, the router, the bounded retries of the invoker and the     *)
(* token budget.  A model is named by a number, names being compared; a    *)
(* cost is that of a call; the tokens of a response already include input  *)
(* and output.                                                             *)
(***************************************************************************)
EXTENDS Naturals, FiniteSets

CONSTANTS
    Models,         \* numbers
    Listings,       \* registries: sets of [model, class, residency, capabilities,
                    \* quality, cost, reachable], one per model; reachable: the
                    \* egress rule lets its endpoint have that class
    ModelRequests,  \* [model, class, residency, estimate]
    Usages,         \* tokens of a response
    TotalTokens,
    MaxSequence,    \* bound: registry sequences
    MaxInvocations  \* bound: calls of invoke

InvokerAssumption ==
    /\ Models \subseteq Nat /\ Usages \subseteq Nat \ {0}
    /\ TotalTokens \in Nat \ {0} /\ MaxSequence \in Nat /\ MaxInvocations \in Nat
    /\ \A l \in Listings : \A q, r \in l : q.model = r.model => q = r
    /\ \A q \in ModelRequests : q.estimate \in Nat /\ q.model \in Models

MAX_ATTEMPTS == 2

VARIABLES
    registry,       \* the records in force
    sequence,
    consumed,       \* tokens charged to the task
    call,           \* the invocation in progress: {} or one of
                    \* [request, record, attempts]
    told,           \* what the last invocation came to
    spent,          \* tokens of all responses (history)
    calls,          \* transport calls of the invocation (history)
    invocations     \* bound

vars == <<registry, sequence, consumed, call, told, spent, calls, invocations>>

Init ==
    /\ registry \in Listings /\ sequence = 0
    /\ consumed = 0 /\ call = {} /\ told = "nothing"
    /\ spent = 0 /\ calls = 0 /\ invocations = 0

Remaining == IF consumed < TotalTokens THEN TotalTokens - consumed ELSE 0

\* update, between calls: the same sequence may bring other records.
UpdateRegistry(listing, next) ==
    /\ call = {}
    /\ next >= sequence
    /\ registry' = listing /\ sequence' = next
    /\ UNCHANGED <<consumed, call, told, spent, calls, invocations>>

ResidencyAdmissible(candidate, required) ==
    \/ candidate = "OnDevice"
    \/ required # "OnDevice" /\ candidate = "Regional" /\ required \in {"Regional", "Global"}
    \/ required # "OnDevice" /\ candidate = "Global"

\* route, without the models the caller lists as excluded.
Survivors(request, required, excluded) ==
    {r \in registry :
        /\ r.class >= request.class
        /\ ResidencyAdmissible(r.residency, request.residency)
        /\ required \subseteq r.capabilities
        /\ r.model \notin excluded}

Before(q, r) ==
    \/ q.quality > r.quality
    \/ q.quality = r.quality /\ q.cost < r.cost
    \/ q.quality = r.quality /\ q.cost = r.cost /\ q.model < r.model

Affordable(request) == request.estimate > 0 /\ request.estimate <= Remaining

\* The record invoke goes on with: that of the model asked for, if the router
\* puts it first among those that can do what it can and egress lets it.
Routed(request, excluded) ==
    {r \in registry :
        LET survivors == Survivors(request, r.capabilities, excluded) IN
        /\ r.model = request.model /\ r.reachable
        /\ r \in survivors
        /\ \A q \in survivors \ {r} : Before(r, q)}

\* Mutant: the router is not asked what the task can afford.
InvokeUnaffordable(request, excluded) ==
    /\ call = {} /\ invocations < MaxInvocations
    /\ invocations' = invocations + 1 /\ calls' = 0
    /\ call' = {[request |-> request, record |-> r, attempts |-> 0] :
                    r \in Routed(request, excluded)}
    /\ told' = IF call' = {} THEN "refused" ELSE "waiting"
    /\ UNCHANGED <<registry, sequence, consumed, spent>>

\* invoke, up to the transport.  The list of excluded models is the caller's: what
\* exclusions_from_reports makes of probes, or any other.
Invoke(request, excluded) ==
    /\ call = {} /\ invocations < MaxInvocations
    /\ invocations' = invocations + 1 /\ calls' = 0
    /\ call' = IF Affordable(request)
               THEN {[request |-> request, record |-> r, attempts |-> 0] :
                        r \in Routed(request, excluded)}
               ELSE {}
    /\ told' = IF call' = {} THEN "refused" ELSE "waiting"
    /\ UNCHANGED <<registry, sequence, consumed, spent>>

\* translate refuses, or the credential is not leased.
Unequipped ==
    /\ \E c \in call : c.attempts = 0 /\ calls = 0
    /\ call' = {} /\ told' = "refused"
    /\ UNCHANGED <<registry, sequence, consumed, spent, calls, invocations>>

Ends(said) == call' = {} /\ told' = said

\* execute, parse_response and consume: the tokens are charged, also those
\* that do not fit.
Answer(usage) ==
    /\ call # {}
    /\ calls' = calls + 1 /\ spent' = spent + usage
    /\ consumed' = consumed + usage
    /\ Ends(IF consumed + usage > TotalTokens THEN "BudgetExhausted" ELSE "answered")
    /\ UNCHANGED <<registry, sequence, invocations>>

\* The response cannot be parsed: nothing is charged for it.
AnswerUnread(usage) ==
    /\ call # {}
    /\ calls' = calls + 1 /\ spent' = spent + usage
    /\ Ends("failed")
    /\ UNCHANGED <<registry, sequence, consumed, invocations>>

\* A transport error, which may be one worth another attempt.
TransportFails(retryable) ==
    /\ calls' = calls + 1
    /\ \E c \in call :
        IF retryable /\ c.attempts < MAX_ATTEMPTS
        THEN call' = {[c EXCEPT !.attempts = @ + 1]} /\ UNCHANGED told
        ELSE Ends("failed")
    /\ UNCHANGED <<registry, sequence, consumed, spent, invocations>>

\* refund: the caller, who holds the budget between calls, takes usage back.
Refund(usage) ==
    /\ call = {}
    /\ consumed' = IF usage < consumed THEN consumed - usage ELSE 0
    /\ UNCHANGED <<registry, sequence, call, told, spent, calls, invocations>>

Next ==
    \/ \E l \in Listings, n \in 0..MaxSequence : UpdateRegistry(l, n)
    \/ \E r \in ModelRequests, excluded \in SUBSET Models : Invoke(r, excluded)
    \/ Unequipped
    \/ \E u \in Usages : Answer(u) \/ AnswerUnread(u) \/ Refund(u)
    \/ \E retryable \in BOOLEAN : TransportFails(retryable)

Spec == Init /\ [][Next]_vars

-----------------------------------------------------------------------------

TypeOK ==
    /\ registry \in Listings /\ sequence \in 0..MaxSequence
    /\ consumed \in Nat /\ spent \in Nat /\ calls \in 0..(MAX_ATTEMPTS + 1)
    /\ told \in {"nothing", "refused", "waiting", "answered", "failed", "BudgetExhausted"}

\* invoke, update and consume: a call in progress is of the model asked for, for
\* data its record admits, on the device if the request must stay there, fits
\* what the task has left and is tried three times at most; a task is charged
\* beyond its budget for one response, which is not handed out, and calls nothing
\* after it that is not refunded first.
CallsAreAffordable ==
    /\ \A c \in call :
        /\ c.record.model = c.request.model /\ c.record.class >= c.request.class
        /\ c.request.residency = "OnDevice" => c.record.residency = "OnDevice"
        /\ c.request.estimate <= Remaining
        /\ calls = c.attempts
    /\ told = "answered" => consumed <= TotalTokens
    /\ \E u \in Usages \cup {0} : consumed < TotalTokens + u
    /\ consumed <= spent

\* consume: "The partial consumption is still applied for durable evidence"
\* (budget.rs): what was spent is charged.
SpentIsCharged == consumed = spent

\* "Must stay within the tenant's region" (provider.rs): what was asked for
\* within the region is no call of a model that runs anywhere.
RegionIsKept ==
    \A c \in call : c.request.residency = "Regional" => c.record.residency # "Global"

-----------------------------------------------------------------------------
(***************************************************************************)
(* drive_stream (crates/model-providers/src/budget.rs): the events of one  *)
(* streamed response, in any order a provider sends them, against the      *)
(* token budget of the task.                                               *)
(***************************************************************************)

CONSTANTS
    StreamTokens,   \* tokens a usage event may tell
    StreamBudget,   \* of the task, when the stream begins
    CallIndexes,    \* indexes of tool calls
    MaxStream       \* bound: events

StreamAssumption ==
    StreamTokens \subseteq Nat /\ StreamBudget \in Nat \ {0} /\ MaxStream \in Nat

FinishReasons == {"Stop", "ToolCall", "Length", "ContentFilter"}

VARIABLES
    taken,          \* tokens charged
    usage,          \* tokens of the outcome
    tool_calls,     \* CallIndexes with a call
    finish,         \* the last Done: {} or {its reason}
    cancelled,
    error,          \* "none", "BudgetExhausted", "StreamAborted" or "Provider"
    reading,        \* the stream is being read
    events          \* read so far (bound)

streamVars == <<taken, usage, tool_calls, finish, cancelled, error, reading, events>>

StreamInit ==
    /\ taken = 0 /\ usage = 0 /\ tool_calls = {} /\ finish = {}
    /\ cancelled = FALSE /\ error = "none" /\ reading = TRUE /\ events = 0

Read == reading /\ ~cancelled /\ events < MaxStream /\ events' = events + 1

\* A tool call arrives in pieces, under its index.
ToolCallDelta(i) ==
    /\ Read
    /\ tool_calls' = tool_calls \cup {i}
    /\ UNCHANGED <<taken, usage, finish, cancelled, error, reading>>

\* Mutant: a later usage event replaces the earlier ones.
UsageReplaces(tokens) ==
    /\ Read
    /\ usage' = tokens /\ taken' = taken + tokens
    /\ cancelled' = (taken + tokens > StreamBudget)
    /\ error' = IF cancelled' THEN "BudgetExhausted" ELSE error
    /\ UNCHANGED <<tool_calls, finish, reading>>

\* Usage: what does not fit is charged, and ends the stream.
Usage(tokens) ==
    /\ Read
    /\ usage' = usage + tokens /\ taken' = taken + tokens
    /\ cancelled' = (taken + tokens > StreamBudget)
    /\ error' = IF cancelled' THEN "BudgetExhausted" ELSE error
    /\ UNCHANGED <<tool_calls, finish, reading>>

Done(reason) ==
    /\ Read
    /\ finish' = {reason}
    /\ UNCHANGED <<taken, usage, tool_calls, cancelled, error, reading>>

\* After the last event: without a Done the stream was aborted, and a finish
\* for tool calls without any is an error before all others.
Conclude ==
    /\ reading
    /\ reading' = FALSE
    /\ error' = CASE finish = {"ToolCall"} /\ tool_calls = {} -> "Provider"
                  [] ~cancelled /\ finish = {} -> "StreamAborted"
                  [] OTHER -> error
    /\ UNCHANGED <<taken, usage, tool_calls, finish, cancelled, events>>

StreamNext ==
    \/ \E i \in CallIndexes : ToolCallDelta(i)
    \/ \E t \in StreamTokens : Usage(t)
    \/ \E r \in FinishReasons : Done(r)
    \/ Conclude

StreamSpec == StreamInit /\ [][StreamNext]_streamVars

-----------------------------------------------------------------------------

StreamTypeOK ==
    /\ taken \in Nat /\ usage \in Nat /\ events \in 0..MaxStream
    /\ tool_calls \subseteq CallIndexes /\ finish \subseteq FinishReasons
    /\ cancelled \in BOOLEAN /\ reading \in BOOLEAN
    /\ error \in {"none", "BudgetExhausted", "StreamAborted", "Provider"}

\* drive_stream: an outcome tells all that was charged, and is without error
\* only if the provider ended the stream within the budget and sent the calls
\* it says it ended for.
StreamIsAccounted ==
    /\ usage = taken
    /\ ~reading /\ error = "none" =>
        /\ finish # {} /\ taken <= StreamBudget
        /\ finish = {"ToolCall"} => tool_calls # {}
    /\ taken > StreamBudget => cancelled
=============================================================================
