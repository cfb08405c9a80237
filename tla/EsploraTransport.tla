--------------------------- MODULE EsploraTransport ---------------------------
(***************************************************************************)
(* HttpxEsploraTransport: the requests of one process to the Esplora       *)
(* providers.  The first request to a host starts the lookup of its name;  *)
(* every request, then and later, awaits that one task and connects to the *)
(* address it gave.  The lookup is shielded: a request that times out      *)
(* leaves it running for the others.                                       *)
(*                                                                         *)
(* What the name servers answer changes with time; a host without an       *)
(* answer has none of its addresses in dns.  An address is public or not.  *)
(***************************************************************************)
EXTENDS Naturals, FiniteSets

CONSTANTS
    Host,           \* hostnames of the two providers
    Request,        \* requests at the same time
    Address, Public,
    Slots,          \* MAX_CONCURRENT_ESPLORA_REQUESTS, 2 in the code
    MaxChanges,     \* bound: changes of the name servers' answers
    None

VARIABLES
    dns,        \* by host, the addresses its name has now
    changes,
    tasks,      \* _resolution_tasks, by host
    requests,   \* the requests in progress
    free,       \* the semaphore of the verifier
    lookups,    \* by host, how often the resolver was called
    used,       \* by host, the addresses that were connected to
    served      \* hosts that have answered

world_vars == <<dns, changes>>
vars == <<dns, changes, tasks, requests, free, lookups, used, served>>

TaskState == {"none", "running", "failed", "pinned"}
Step == {"idle", "slot", "resolve", "await", "connected"}

\* Every local has its type, and every slot is free or has its one holder.
TypeOK ==
    /\ dns \in [Host -> SUBSET Address]
    /\ tasks \in [Host -> [state : TaskState, address : Address \cup {None}]]
    /\ requests \in [Request -> [step : Step, host : Host]]
    /\ free \in 0..Slots
    /\ free + Cardinality({q \in Request :
              requests[q].step \in {"resolve", "await", "connected"}}) = Slots
    /\ lookups \in [Host -> Nat]
    /\ used \in [Host -> SUBSET Address]
    /\ served \subseteq Host

Init ==
    /\ dns \in [Host -> SUBSET Address]
    /\ changes = 0
    /\ tasks = [h \in Host |-> [state |-> "none", address |-> None]]
    /\ requests \in [Request -> [step : {"idle"}, host : Host]]
    /\ free = Slots
    /\ lookups = [h \in Host |-> 0]
    /\ used = [h \in Host |-> {}]
    /\ served = {}

At(q, step) == requests[q].step = step
Go(q, step) == requests' = [requests EXCEPT ![q].step = step]
TaskOf(q) == tasks[requests[q].host]

-----------------------------------------------------------------------------
(* One request: EsploraBitcoinVerifier._get and the transport's get.       *)

get(q, h) ==
    /\ At(q, "idle")
    /\ requests' = [requests EXCEPT ![q] = [step |-> "slot", host |-> h]]
    /\ UNCHANGED <<world_vars, tasks, free, lookups, used, served>>

acquire(q) ==
    /\ At(q, "slot")
    /\ free > 0
    /\ free' = free - 1
    /\ Go(q, "resolve")
    /\ UNCHANGED <<world_vars, tasks, lookups, used, served>>

MustResolve(h) == tasks[h].state = "none"

\* _pinned_addresses.
pinned_addresses(q) ==
    LET h == requests[q].host IN
    /\ At(q, "resolve")
    /\ IF MustResolve(h)
       THEN /\ tasks' = [tasks EXCEPT ![h] = [state |-> "running",
                                              address |-> None]]
            /\ lookups' = [lookups EXCEPT ![h] = @ + 1]
       ELSE UNCHANGED <<tasks, lookups>>
    /\ Go(q, "await")
    /\ UNCHANGED <<world_vars, free, used, served>>

\* Mutant: one public address is enough.
Vetted_some(addresses) == addresses \cap Public # {}

\* One address that is not public spoils the whole answer.
Vetted(addresses) == addresses # {} /\ addresses \subseteq Public

\* _resolve_public_addresses: its end.  The first address is used.
resolve_public_addresses(h) ==
    /\ tasks[h].state = "running"
    /\ IF Vetted(dns[h])
       THEN \E a \in dns[h] :
               tasks' = [tasks EXCEPT ![h] = [state |-> "pinned", address |-> a]]
       ELSE tasks' = [tasks EXCEPT ![h].state = "failed"]
    /\ UNCHANGED <<world_vars, requests, free, lookups, used, served>>

\* Mutant: the slot of a request that ends is kept.
Leave_kept(q) == Go(q, "idle") /\ UNCHANGED free

\* The request ends and its slot is free again.
Leave(q) == Go(q, "idle") /\ free' = free + 1

\* The task's address, or the exception it ended with.
connect(q) ==
    LET h == requests[q].host IN
    /\ At(q, "await")
    /\ TaskOf(q).state \in {"pinned", "failed"}
    /\ IF TaskOf(q).state = "pinned"
       THEN /\ used' = [used EXCEPT ![h] = @ \cup {TaskOf(q).address}]
            /\ Go(q, "connected")
            /\ UNCHANGED free
       ELSE Leave(q) /\ UNCHANGED used
    /\ UNCHANGED <<world_vars, tasks, lookups, served>>

answer(q) ==
    /\ At(q, "connected")
    /\ served' = served \cup {requests[q].host}
    /\ Leave(q)
    /\ UNCHANGED <<world_vars, tasks, lookups, used>>

\* Mutant: the lookup is not shielded from the request's timeout.
Abandoned_task(h) == [state |-> "none", address |-> None]

Abandoned(h) == tasks[h]

\* The timeout of the request, or an HTTP error: the lookup goes on.
unavailable(q) ==
    LET h == requests[q].host IN
    /\ \/ At(q, "connected") /\ UNCHANGED tasks
       \/ /\ At(q, "await")
          /\ tasks[h].state = "running"
          /\ tasks' = [tasks EXCEPT ![h] = Abandoned(h)]
    /\ Leave(q)
    /\ UNCHANGED <<world_vars, lookups, used, served>>

\* The name servers answer something else from now on.
dns_changes ==
    /\ changes < MaxChanges
    /\ changes' = changes + 1
    /\ \E h \in Host, a \in SUBSET Address : dns' = [dns EXCEPT ![h] = a]
    /\ UNCHANGED <<tasks, requests, free, lookups, used, served>>

Next ==
    \/ \E q \in Request : \/ \E h \in Host : get(q, h)
                          \/ acquire(q) \/ pinned_addresses(q) \/ connect(q)
                          \/ answer(q) \/ unavailable(q)
    \/ \E h \in Host : resolve_public_addresses(h)
    \/ dns_changes

Spec == Init /\ [][Next]_vars

\* The verifier goes on asking each provider (jobs are polled), a request ends
\* by its timeout, a lookup ends, and a provider that is asked again and again
\* answers now and then.
Fairness ==
    /\ \A q \in Request :
          /\ \A h \in Host : SF_vars(get(q, h))
          /\ SF_vars(acquire(q))
          /\ WF_vars(pinned_addresses(q))
          /\ WF_vars(unavailable(q))
          /\ SF_vars(connect(q))
          /\ \A h \in Host : SF_vars(requests[q].host = h /\ answer(q))
    /\ \A h \in Host : WF_vars(resolve_public_addresses(h))
FairSpec == Spec /\ Fairness

-----------------------------------------------------------------------------
(* Properties.                                                             *)

\* A process looks a name up once, however many requests wait for it at the
\* same time and however many of them time out (_resolution_tasks, shield).
OneLookup == \A h \in Host : lookups[h] <= 1

\* All connections to a host go to one address, and to a public one, though the
\* name servers may change their answers at any time.
OneAddress == \A h \in Host : /\ Cardinality(used[h]) <= 1
                              /\ used[h] \subseteq Public

\* A host whose name was resolved is reached in the end, through timeouts,
\* HTTP errors and requests to the other host.
PinnedIsServed == \A h \in Host : (tasks[h].state = "pinned") ~> (h \in served)

\* What the code does not have (README.md, "Where code and documents part"):
\* "The trusted verifier cannot currently provide a reliable answer."
\* (BitcoinVerifierUnavailable, ports/bitcoin.py): when the names resolve from
\* some time on, both providers are reached in the end.
UnavailableIsTemporary ==
    (<>[](\A h \in Host : Vetted(dns[h]))) => <>(served = Host)

=============================================================================
