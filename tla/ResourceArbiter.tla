-------------------------- MODULE ResourceArbiter --------------------------
(***************************************************************************)
(* The kernel's locks on named resources: shared or exclusive, with a lease *)
(* that may run out, a queue of waiters for each, and a graph of which     *)
(* agent waits for which that a request is checked against before it is    *)
(* queued.  Locks belong to agents; the calls that ask for them are made   *)
(* by the agents' tasks, several of which may run at once, and a call may  *)
(* be dropped while it waits.  A request checks, grants or queues in one   *)
(* section under the resource's lock; the call that was woken resumes      *)
(* later.  Time is the point where a lease runs out.                       *)
(***************************************************************************)
EXTENDS Naturals, Sequences, FiniteSets

CONSTANTS
    Agent, Resource, None,
    Call,           \* bound: calls of acquire at a time
    AgentOf,        \* the agent on whose behalf each call is made
    Mode,           \* the lock modes asked for
    Leased,         \* whether a request has a TTL: a set of Booleans
    Priority,       \* the priorities asked with
    MaxRequests,    \* bound: requests
    MaxAbandons     \* bound: calls dropped while they wait

ASSUME NameAssumption == None \notin Agent /\ AgentOf \in [Call -> Agent]
ASSUME RequestAssumption ==
    /\ Mode \subseteq {"Shared", "Exclusive"}
    /\ Leased \subseteq BOOLEAN
    /\ Priority \subseteq Nat
    /\ {MaxRequests, MaxAbandons} \subseteq Nat

VARIABLES
    lock,       \* ResourceState of each resource, but for the waiters
    waiters,    \* its waiters: calls in FIFO order
    waitFor,    \* wait_for: the agent each agent is blocked on
    pc,         \* where each call is
    request,    \* what each call asks for, or last asked for
    releasing,  \* the resources that a release of all locks has yet to visit
    count       \* requests and drops so far

lockVars == <<lock, waiters, waitFor>>
vars == <<lockVars, pc, request, releasing, count>>

Request == [resource : Resource, mode : Mode, leased : Leased, priority : Priority]

(* The priority of a lock is the highest of the set kept here.  lease      *)
(* stands for acquired_at and ttl_seconds.  The order in which shared      *)
(* holders joined is left out.                                             *)
Lock == [shared : SUBSET Agent, exclusive : Agent \cup {None}, priority : SUBSET Nat,
         lease : {"none", "forever", "running", "over"}]

Free == [shared |-> {}, exclusive |-> None, priority |-> {0}, lease |-> "none"]

Init ==
    /\ lock = [r \in Resource |-> Free]
    /\ waiters = [r \in Resource |-> <<>>]
    /\ waitFor = [a \in Agent |-> None]
    /\ pc = [c \in Call |-> "idle"]
    /\ request = [c \in Call |-> None]
    /\ releasing = [a \in Agent |-> {}]
    /\ count = [request |-> 0, abandon |-> 0]

-----------------------------------------------------------------------------
(* One lock.                                                               *)

IsLocked(l) == l.exclusive # None \/ l.shared # {}

Holders(l) == IF l.exclusive # None THEN {l.exclusive} ELSE l.shared

(* An expired lock is released before it is looked at.                     *)
Current(l) == IF l.lease = "over" THEN Free ELSE l

(* Mutant: readers do not keep a writer out.                               *)
GrantableToWriters(l, mode) == l.exclusive = None

Grantable(l, mode) == l.exclusive = None /\ (mode = "Shared" \/ l.shared = {})

LeaseOf(leased) == IF leased THEN "running" ELSE "forever"

(* Later holders of a shared lock live under the lease of the first.       *)
Grant(l, a, mode, leased, p) ==
    IF mode = "Shared"
    THEN [l EXCEPT !.shared = @ \cup {a}, !.priority = @ \cup {p},
                   !.lease = IF @ = "none" THEN LeaseOf(leased) ELSE @]
    ELSE [l EXCEPT !.exclusive = a, !.priority = {p}, !.lease = LeaseOf(leased)]

(* Mutant: the lease stays when the last holder of a shared lock leaves.   *)
ReleaseAgentKeepingLease(l, a) ==
    [l EXCEPT !.shared = @ \ {a},
              !.exclusive = IF @ = a THEN None ELSE @,
              !.lease = IF l.exclusive = a THEN "none" ELSE @]

(* The priority of a lock outlives its exclusive holder.                   *)
ReleaseAgent(l, a) ==
    LET m == [l EXCEPT !.shared = @ \ {a},
                       !.exclusive = IF @ = a THEN None ELSE @]
    IN  [m EXCEPT !.lease = IF l.exclusive = a \/ ~IsLocked(m) THEN "none" ELSE @]

(* The waiters at the front of q that a lock l lets in: one for the        *)
(* exclusive lock, or every shared one up to the first exclusive one.      *)
Woken(l, q) ==
    IF q # <<>> /\ request[Head(q)].mode = "Exclusive"
    THEN IF Grantable(l, "Exclusive") THEN 1 ELSE 0
    ELSE IF Grantable(l, "Shared")
    THEN Cardinality({i \in DOMAIN q : \A j \in 1..i : request[q[j]].mode = "Shared"})
    ELSE 0

(* The lock l once the first k waiters of q are let in.                    *)
Admit(l, q, k) ==
    LET first == request[Head(q)]
    IN  CASE k = 0 -> l
          [] k > 0 /\ first.mode = "Exclusive" ->
               Grant(l, AgentOf[Head(q)], "Exclusive", first.leased, first.priority)
          [] OTHER ->
               [Grant(l, AgentOf[Head(q)], "Shared", first.leased, first.priority)
                   EXCEPT !.shared = l.shared \cup {AgentOf[q[i]] : i \in 1..k},
                          !.priority = @ \cup {request[q[i]].priority : i \in 1..k}]

WakeCount(l, r) == Woken(Current(l), waiters[r])

WokenCalls(l, r) == {waiters[r][i] : i \in 1..WakeCount(l, r)}

AfterWake(l, r) == Admit(Current(l), waiters[r], WakeCount(l, r))

(* Calls that were dropped are let in like any other.                      *)
Resolve(l, r) ==
    pc' = [c \in Call |-> IF c \in WokenCalls(l, r) /\ pc[c] = "queued" THEN "granted" ELSE pc[c]]

(* Woken waiters leave the queue, and their agents the graph.              *)
Leave(l, r, others) ==
    /\ waiters' = [waiters EXCEPT ![r] = SubSeq(@, WakeCount(l, r) + 1, Len(@))]
    /\ waitFor' = [a \in Agent |-> IF a \in others \cup {AgentOf[c] : c \in WokenCalls(l, r)}
                                   THEN None ELSE waitFor[a]]
    /\ Resolve(l, r)

(* The lock of resource r has become l and lets waiters in.                *)
WakeWaiters(l, r) ==
    /\ lock' = [lock EXCEPT ![r] = AfterWake(l, r)]
    /\ Leave(l, r, {})

-----------------------------------------------------------------------------
(* Requests.                                                               *)

(* Mutant: only an agent that waits for itself.                            *)
WaitsForItself(a, holder) == holder = a

(* A request is checked against the exclusive holder or the first of the   *)
(* shared ones, here any of them.                                          *)
(* From the holder the edges do not lead to the agent when some set of     *)
(* agents that they do not leave holds the one and not the other.          *)
WouldDeadlock(a, holder) ==
    ~ \E S \in SUBSET Agent :
        /\ holder \in S /\ a \notin S
        /\ \A b \in S : waitFor[b] \in S \cup {None}

Ask(c, rq) ==
    /\ pc[c] = "idle"
    /\ count.request < MaxRequests
    /\ count' = [count EXCEPT !.request = @ + 1]
    /\ request' = [request EXCEPT ![c] = rq]
    /\ UNCHANGED releasing

(* A request that is granted at once, or through try_acquire, does not     *)
(* leave its priority with the lock.                                       *)
AcquireNow(c, rq) ==
    /\ Ask(c, rq)
    /\ LET l == Current(lock[rq.resource])
       IN  /\ Grantable(l, rq.mode)
           /\ lock' = [lock EXCEPT ![rq.resource] =
                          Grant(l, AgentOf[c], rq.mode, rq.leased, 0)]
    /\ UNCHANGED <<waiters, waitFor, pc>>

Blocked(rq) == ~Grantable(Current(lock[rq.resource]), rq.mode)

Enqueue(c, rq) == \E holder \in Holders(lock[rq.resource]) :
        /\ Ask(c, rq)
        /\ Blocked(rq)
        /\ ~WouldDeadlock(AgentOf[c], holder)
        /\ waitFor' = [waitFor EXCEPT ![AgentOf[c]] = holder]
        /\ waiters' = [waiters EXCEPT ![rq.resource] = Append(@, c)]
        /\ pc' = [pc EXCEPT ![c] = "queued"]
        /\ UNCHANGED lock

Outranks(rq) == \A p \in lock[rq.resource].priority : rq.priority > p

RejectDeadlock(c, rq) ==
    /\ Ask(c, rq)
    /\ Blocked(rq)
    /\ \E holder \in Holders(lock[rq.resource]) : WouldDeadlock(AgentOf[c], holder)
    /\ ~Outranks(rq)
    /\ UNCHANGED <<lockVars, pc>>

(* The lock is taken from its holders, the waiters come first, and the     *)
(* request is granted if it still can be and refused otherwise.            *)
Preempt(c, rq) == \E holder \in Holders(lock[rq.resource]) :
    LET r == rq.resource
        l == AfterWake(Free, r)
    IN  /\ Ask(c, rq)
        /\ Blocked(rq)
        /\ WouldDeadlock(AgentOf[c], holder)
        /\ Outranks(rq)
        /\ lock' = [lock EXCEPT ![r] =
              IF Grantable(l, rq.mode)
              THEN Grant(l, AgentOf[c], rq.mode, rq.leased, rq.priority) ELSE l]
        /\ Leave(Free, r, {holder})

(* The answer reaches the call that waited.                                *)
Resume(c) ==
    /\ pc[c] = "granted"
    /\ pc' = [pc EXCEPT ![c] = "idle"]
    /\ waitFor' = [waitFor EXCEPT ![AgentOf[c]] = None]
    /\ UNCHANGED <<lock, waiters, request, releasing, count>>

(* The task that waits is aborted: the call is dropped, its waiter stays.  *)
Abandon(c) ==
    /\ pc[c] \in {"queued", "granted"}
    /\ count.abandon < MaxAbandons
    /\ count' = [count EXCEPT !.abandon = @ + 1]
    /\ pc' = [pc EXCEPT ![c] = "dropped"]
    /\ UNCHANGED <<lockVars, request, releasing>>

-----------------------------------------------------------------------------
(* Releases.                                                               *)

(* Mutant: nobody is woken.                                                *)
ReleaseInSilence(a, r) ==
    /\ lock' = [lock EXCEPT ![r] = ReleaseAgent(@, a)]
    /\ UNCHANGED <<waiters, waitFor, pc, request, releasing, count>>

(* By the holder or, for it, by an operator.                               *)
Release(a, r) ==
    /\ WakeWaiters(ReleaseAgent(lock[r], a), r)
    /\ UNCHANGED <<request, releasing, count>>

(* A task of the agent failed or timed out: its locks are visited one by   *)
(* one.                                                                    *)
ReleaseAll(a) ==
    /\ releasing[a] = {}
    /\ releasing' = [releasing EXCEPT ![a] = Resource]
    /\ waitFor' = [waitFor EXCEPT ![a] = None]
    /\ UNCHANGED <<lock, waiters, pc, request, count>>

ReleaseNext(a) == \E r \in releasing[a] :
    /\ releasing' = [releasing EXCEPT ![a] = @ \ {r}]
    /\ IF a \in Holders(lock[r])
       THEN WakeWaiters(ReleaseAgent(lock[r], a), r)
       ELSE UNCHANGED <<lockVars, pc>>
    /\ UNCHANGED <<request, count>>

(* Mutant: nobody is woken.                                                *)
SweepInSilence(r) ==
    /\ lock[r].lease = "over"
    /\ lock' = [lock EXCEPT ![r] = Free]
    /\ UNCHANGED <<waiters, waitFor, pc, request, releasing, count>>

SweepExpired(r) ==
    /\ lock[r].lease = "over"
    /\ WakeWaiters(Free, r)
    /\ UNCHANGED <<request, releasing, count>>

(* Time passes: is_expired becomes true.                                   *)
LeaseEnds(r) ==
    /\ lock[r].lease = "running"
    /\ lock' = [lock EXCEPT ![r].lease = "over"]
    /\ UNCHANGED <<waiters, waitFor, pc, request, releasing, count>>

Acquire(c, rq) ==
    AcquireNow(c, rq) \/ Enqueue(c, rq) \/ RejectDeadlock(c, rq) \/ Preempt(c, rq)

Next ==
    \/ \E c \in Call : (\E rq \in Request : Acquire(c, rq)) \/ Resume(c) \/ Abandon(c)
    \/ \E a \in Agent : ReleaseAll(a) \/ ReleaseNext(a) \/ \E r \in Resource : Release(a, r)
    \/ \E r \in Resource : SweepExpired(r) \/ LeaseEnds(r)

(* Leases run out and the timeout checker sweeps them.  Nothing obliges an *)
(* agent to release a lock.                                                *)
Fairness ==
    /\ \A c \in Call : WF_vars(Resume(c))
    /\ \A r \in Resource : WF_vars(LeaseEnds(r)) /\ WF_vars(SweepExpired(r))

Spec == Init /\ [][Next]_vars

FairSpec == Spec /\ Fairness

-----------------------------------------------------------------------------
TypeOK ==
    /\ lock \in [Resource -> Lock]
    /\ \A r \in Resource : lock[r].lease = "none" <=> ~IsLocked(lock[r])
    /\ waiters \in [Resource -> Seq(Call)]
    /\ waitFor \in [Agent -> Agent \cup {None}]
    /\ pc \in [Call -> {"idle", "queued", "granted", "dropped"}]
    /\ request \in [Call -> Request \cup {None}]
    /\ releasing \in [Agent -> SUBSET Resource]
    /\ count \in [{"request", "abandon"} -> Nat]

(* Whatever mix of requests, wake-ups, sweeps, preemptions and releases    *)
(* came before, nobody shares a resource that an agent holds exclusively.  *)
Exclusion == \A r \in Resource : lock[r].exclusive # None => lock[r].shared = {}

(* No wake-up is lost for good: a resource with waiters has a holder, whose *)
(* release or lease will come to them.                                     *)
WaitersHaveAHolder == \A r \in Resource : waiters[r] # <<>> => IsLocked(lock[r])

(* The graph a request is checked against has no cycle, though edges are   *)
(* replaced by other calls of the same agent and removed early by its      *)
(* releases: no set of agents has all its edges inside.                    *)
WaitGraphAcyclic == \A S \in SUBSET Agent : S # {} => \E a \in S : waitFor[a] \notin S

(* While leases run out, every call that waits is let in or dropped, also  *)
(* when the agents wait for each other in a circle the graph missed.       *)
EveryWaiterIsServed == \A c \in Call : pc[c] = "queued" ~> pc[c] # "queued"

=============================================================================
