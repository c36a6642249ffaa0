----------------------- MODULE ResourceArbiterProofs -----------------------
(***************************************************************************)
(* Proofs about the resource arbiter, for every number of agents, calls    *)
(* and resources: exclusive locks exclude, a queue never waits on a free   *)
(* resource, and the graph of waiting agents has no cycle.                 *)
(***************************************************************************)
EXTENDS ResourceArbiter, FiniteSetTheorems, SequenceTheorems, TLAPS

(* What every lock satisfies by itself.                                    *)
LockInv(l) ==
    /\ l \in Lock
    /\ l.lease = "none" <=> ~IsLocked(l)
    /\ l.exclusive # None => l.shared = {}

(* Queued calls have said what they want, and wait for someone.            *)
QueueInv(r) ==
    /\ \A i \in DOMAIN waiters[r] : request[waiters[r][i]] \in Request
    /\ waiters[r] # <<>> => IsLocked(lock[r])

IInv ==
    /\ TypeOK
    /\ \A r \in Resource : LockInv(lock[r]) /\ QueueInv(r)
    /\ WaitGraphAcyclic

-----------------------------------------------------------------------------
(* One lock.                                                               *)

LEMMA FreeLock == LockInv(Free) /\ ~IsLocked(Free)
  BY SMT DEF Free, Lock, LockInv, IsLocked

LEMMA CurrentLock ==
  ASSUME NEW l, LockInv(l)
  PROVE  LockInv(Current(l))
  BY FreeLock DEF Current

LEMMA RequestParts ==
  ASSUME NEW rq \in Request
  PROVE  /\ rq.resource \in Resource
         /\ rq.mode \in {"Shared", "Exclusive"}
         /\ rq.leased \in BOOLEAN
         /\ rq.priority \in Nat
  <1>1. /\ rq.resource \in Resource /\ rq.mode \in Mode /\ rq.leased \in Leased
        /\ rq.priority \in Priority
    BY DEF Request
  <1> QED BY <1>1, RequestAssumption

(* A grant to a grantable request keeps a lock consistent.                 *)
LEMMA GrantedLock ==
  ASSUME NEW l, LockInv(l), NEW a \in Agent, NEW mode \in {"Shared", "Exclusive"},
         NEW leased \in BOOLEAN, NEW p \in Nat, Grantable(l, mode)
  PROVE  /\ LockInv(Grant(l, a, mode, leased, p))
         /\ IsLocked(Grant(l, a, mode, leased, p))
  <1> DEFINE g == Grant(l, a, mode, leased, p)
  <1>0. LeaseOf(leased) \in {"forever", "running"}
    BY DEF LeaseOf
  <1>1. l \in Lock /\ l.exclusive = None
    BY DEF LockInv, Grantable
  <1>2. CASE mode = "Shared"
    <2>1. g = [l EXCEPT !.shared = @ \cup {a}, !.priority = @ \cup {p},
                        !.lease = IF @ = "none" THEN LeaseOf(leased) ELSE @]
      BY <1>2 DEF Grant
    <2>2. /\ g \in Lock /\ g.shared = l.shared \cup {a} /\ g.exclusive = None
          /\ g.lease = IF l.lease = "none" THEN LeaseOf(leased) ELSE l.lease
      <3> DEFINE s == l.shared \cup {a}
                 o == l.priority \cup {p}
                 e == IF l.lease = "none" THEN LeaseOf(leased) ELSE l.lease
      <3>1. /\ s \in SUBSET Agent /\ o \in SUBSET Nat
            /\ e \in {"none", "forever", "running", "over"}
        BY <1>0, <1>1 DEF Lock
      <3>2. g = [l EXCEPT !.shared = s, !.priority = o, !.lease = e]
        BY <2>1
      <3> HIDE DEF s, o, e, g
      <3>3. g \in Lock /\ g.shared = s /\ g.exclusive = None /\ g.lease = e
        BY <1>1, <3>1, <3>2 DEF Lock
      <3> QED BY <3>3 DEF s, e
    <2> QED BY <2>2, <1>0 DEF LockInv, IsLocked
  <1>3. CASE mode = "Exclusive"
    <2>1. g = [l EXCEPT !.exclusive = a, !.priority = {p}, !.lease = LeaseOf(leased)]
      BY <1>3 DEF Grant
    <2>2. /\ g \in Lock /\ g.shared = l.shared /\ g.exclusive = a
          /\ g.lease = LeaseOf(leased)
      <3> DEFINE s == LeaseOf(leased)
      <3>1. {p} \in SUBSET Nat
        OBVIOUS
      <3> HIDE DEF s
      <3> QED BY <2>1, <1>0, <1>1, <3>1 DEF Lock
    <2>3. l.shared = {}
      BY <1>3 DEF Grantable
    <2> QED BY <2>2, <2>3, <1>0, NameAssumption DEF LockInv, IsLocked
  <1> QED BY <1>2, <1>3

(* What is left when an agent gives up its lock is consistent.             *)
LEMMA ReleasedLock ==
  ASSUME NEW l, LockInv(l), NEW a \in Agent
  PROVE  LockInv(ReleaseAgent(l, a))
  <1> DEFINE left == IF l.exclusive = a THEN None ELSE l.exclusive
             m == [l EXCEPT !.shared = @ \ {a}, !.exclusive = IF @ = a THEN None ELSE @]
             g == ReleaseAgent(l, a)
  <1>1. l \in Lock
    BY DEF LockInv
  <1>2. m \in Lock /\ m.shared = l.shared \ {a} /\ m.exclusive = left /\ m.lease = l.lease
    BY <1>1 DEF Lock
  <1>3. g = [m EXCEPT !.lease = IF l.exclusive = a \/ ~IsLocked(m) THEN "none" ELSE @]
    BY DEF ReleaseAgent
  <1>4. /\ g \in Lock /\ g.shared = l.shared \ {a} /\ g.exclusive = left
        /\ g.lease = IF l.exclusive = a \/ ~IsLocked(m) THEN "none" ELSE l.lease
    BY <1>2, <1>3 DEF Lock
  <1> QED BY <1>2, <1>4, NameAssumption DEF LockInv, IsLocked

-----------------------------------------------------------------------------
(* Waking the waiters of a resource.                                       *)

(* The calls at the front of a queue that a lock lets in.                  *)
LEMMA WokenBound ==
  ASSUME NEW l, NEW q \in Seq(Call)
  PROVE  /\ Woken(l, q) \in 0..Len(q)
         /\ q # <<>> /\ Woken(l, q) = 0 => ~Grantable(l, request[Head(q)].mode)
                                            \/ request[Head(q)].mode \notin {"Shared", "Exclusive"}
  <1> DEFINE run == {i \in DOMAIN q : \A j \in 1..i : request[q[j]].mode = "Shared"}
  <1>1. run \subseteq 1..Len(q) /\ Len(q) \in Nat
    OBVIOUS
  <1>2. IsFiniteSet(1..Len(q)) /\ Cardinality(1..Len(q)) = Len(q)
    BY <1>1, FS_Interval
  <1>3. IsFiniteSet(run) /\ Cardinality(run) \in Nat /\ Cardinality(run) <= Len(q)
    BY <1>1, <1>2, FS_Subset, FS_CardinalityType
  <1>4. q # <<>> => 1 \in 1..Len(q) /\ Head(q) = q[1]
    OBVIOUS
  <1>5. q # <<>> /\ request[Head(q)].mode = "Shared" => Cardinality(run) # 0
    <2> SUFFICES ASSUME q # <<>>, request[Head(q)].mode = "Shared"
                 PROVE  Cardinality(run) # 0
      OBVIOUS
    <2>1. 1 \in run
      BY <1>4
    <2> QED BY <2>1, <1>3, FS_EmptySet
  <1>6. Woken(l, q) = IF q # <<>> /\ request[Head(q)].mode = "Exclusive"
                      THEN IF Grantable(l, "Exclusive") THEN 1 ELSE 0
                      ELSE IF Grantable(l, "Shared") THEN Cardinality(run) ELSE 0
    BY DEF Woken
  <1>7. Woken(l, q) \in 0..Len(q)
    BY <1>1, <1>3, <1>4, <1>6
  <1>8. q # <<>> /\ Woken(l, q) = 0 => ~Grantable(l, request[Head(q)].mode)
                                            \/ request[Head(q)].mode \notin {"Shared", "Exclusive"}
    <2> HIDE DEF run
    <2> QED BY <1>5, <1>6
  <1> QED BY <1>7, <1>8

(* A lock that lets its waiters in stays consistent, and is held if any    *)
(* are left.                                                               *)
LEMMA AdmittedLock ==
  ASSUME NEW l, LockInv(l), NEW q \in Seq(Call),
         \A i \in DOMAIN q : request[q[i]] \in Request
  PROVE  /\ LockInv(Admit(l, q, Woken(l, q)))
         /\ q # <<>> => IsLocked(Admit(l, q, Woken(l, q)))
  <1> DEFINE k == Woken(l, q)
             first == request[Head(q)]
             a == AgentOf[Head(q)]
             L == Admit(l, q, k)
  <1>1. k \in 0..Len(q) /\ Len(q) \in Nat
    BY WokenBound
  <1>2. q # <<>> => /\ 1 \in DOMAIN q /\ Head(q) = q[1] /\ Head(q) \in Call
                    /\ first \in Request /\ a \in Agent
                    /\ first.mode \in {"Shared", "Exclusive"}
                    /\ first.leased \in BOOLEAN /\ first.priority \in Nat
    <2> SUFFICES ASSUME q # <<>>
                 PROVE  /\ 1 \in DOMAIN q /\ Head(q) = q[1] /\ Head(q) \in Call
                        /\ first \in Request /\ a \in Agent
                        /\ first.mode \in {"Shared", "Exclusive"}
                        /\ first.leased \in BOOLEAN /\ first.priority \in Nat
      OBVIOUS
    <2>1. 1 \in DOMAIN q /\ Head(q) = q[1] /\ Head(q) \in Call
      OBVIOUS
    <2>2. first \in Request
      BY <2>1
    <2>3. a \in Agent
      BY <2>1, NameAssumption
    <2> HIDE DEF first, a
    <2> QED BY <2>1, <2>2, <2>3, RequestParts
  <1>3. CASE k = 0
    <2>1. L = l
      BY <1>3 DEF Admit
    <2>2. q # <<>> => ~Grantable(l, first.mode)
      BY <1>2, <1>3, WokenBound
    <2>3. ~Grantable(l, "Shared") \/ ~Grantable(l, "Exclusive") => IsLocked(l)
      BY DEF Grantable, IsLocked
    <2> QED BY <1>2, <2>1, <2>2, <2>3
  <1>4. CASE k # 0 /\ first.mode = "Exclusive"
    <2>0. q # <<>>
      BY <1>1, <1>4
    <2>1. L = Grant(l, a, "Exclusive", first.leased, first.priority)
      BY <1>1, <1>4 DEF Admit
    <2>2. Grantable(l, "Exclusive")
      BY <1>4, <2>0 DEF Woken
    <2> QED BY <1>2, <2>0, <2>1, <2>2, GrantedLock
  <1>5. CASE k # 0 /\ first.mode # "Exclusive"
    <2>0. q # <<>>
      BY <1>1, <1>5
    <2> DEFINE G == Grant(l, a, "Shared", first.leased, first.priority)
               joined == {AgentOf[q[i]] : i \in 1..k}
               asked == {request[q[i]].priority : i \in 1..k}
    <2>1. L = [G EXCEPT !.shared = l.shared \cup joined, !.priority = @ \cup asked]
      BY <1>1, <1>5 DEF Admit
    <2>2. Grantable(l, "Shared")
      BY <1>5, <2>0 DEF Woken
    <2>3. LockInv(G) /\ IsLocked(G)
      BY <1>2, <2>0, <2>2, GrantedLock
    <2>4. \A i \in 1..k : q[i] \in Call /\ AgentOf[q[i]] \in Agent
                          /\ request[q[i]].priority \in Nat
      <3> TAKE i \in 1..k
      <3>1. i \in DOMAIN q /\ q[i] \in Call
        BY <1>1
      <3> QED BY <3>1, NameAssumption, RequestParts
    <2>5. joined \subseteq Agent /\ asked \subseteq Nat
      BY <2>4
    <2>6. a \in joined
      BY <1>1, <1>2, <1>5, <2>0
    <2>7. G \in Lock /\ l \in Lock /\ G.exclusive = None /\ G.lease # "none"
      <3>1. G \in Lock /\ G.lease # "none" /\ l \in Lock
        BY <2>3 DEF LockInv
      <3>2. G.exclusive = l.exclusive
        BY <3>1 DEF Grant, Lock
      <3> QED BY <3>1, <3>2, <2>2 DEF Grantable
    <2> HIDE DEF G, joined, asked
    <2>8. /\ L \in Lock /\ L.shared = l.shared \cup joined /\ L.exclusive = None
          /\ L.lease = G.lease
      BY <2>1, <2>5, <2>7 DEF Lock
    <2> QED BY <2>6, <2>7, <2>8 DEF LockInv, IsLocked
  <1> QED BY <1>3, <1>4, <1>5

-----------------------------------------------------------------------------
(* Steps.                                                                  *)

LEMMA LocksAndQueues ==
  ASSUME IInv, NEW r \in Resource
  PROVE  /\ LockInv(lock[r]) /\ lock[r] \in Lock /\ waiters[r] \in Seq(Call)
         /\ \A i \in DOMAIN waiters[r] : /\ waiters[r][i] \in Call
                                        /\ request[waiters[r][i]] \in Request
         /\ waiters[r] # <<>> => IsLocked(lock[r])
  <1>1. lock[r] \in Lock /\ waiters[r] \in Seq(Call) /\ LockInv(lock[r]) /\ QueueInv(r)
    BY DEF IInv, TypeOK
  <1>2. \A i \in DOMAIN waiters[r] : waiters[r][i] \in Call
    BY <1>1
  <1> QED BY <1>1, <1>2 DEF QueueInv

LEMMA LockAfterWake ==
  ASSUME IInv, NEW r \in Resource, NEW l, LockInv(l)
  PROVE  /\ LockInv(AfterWake(l, r))
         /\ waiters[r] # <<>> => IsLocked(AfterWake(l, r))
         /\ WakeCount(l, r) \in 0..Len(waiters[r])
  BY LocksAndQueues, CurrentLock, AdmittedLock, WokenBound DEF AfterWake, WakeCount

(* Edges that leave the graph close no cycle.                              *)
LEMMA GraphShrinks ==
  ASSUME WaitGraphAcyclic, \A a \in Agent : waitFor'[a] \in {waitFor[a], None}
  PROVE  WaitGraphAcyclic'
  <1> SUFFICES ASSUME NEW S \in SUBSET Agent, S # {}
               PROVE  \E a \in S : waitFor'[a] \notin S
    BY DEF WaitGraphAcyclic
  <1>1. PICK a \in S : waitFor[a] \notin S
    BY DEF WaitGraphAcyclic
  <1>2. waitFor'[a] \in {waitFor[a], None} /\ None \notin S
    BY NameAssumption
  <1> QED BY <1>1, <1>2

(* An edge to an agent from which the graph does not lead back closes no   *)
(* cycle: a set with all its edges inside would hold one without the new   *)
(* edge.                                                                   *)
LEMMA GraphGrows ==
  ASSUME WaitGraphAcyclic, waitFor \in [Agent -> Agent \cup {None}],
         NEW a \in Agent, NEW holder, ~WouldDeadlock(a, holder),
         waitFor' = [waitFor EXCEPT ![a] = holder]
  PROVE  WaitGraphAcyclic' /\ holder \in Agent
  <1>1. PICK S \in SUBSET Agent : /\ holder \in S /\ a \notin S
                                 /\ \A b \in S : waitFor[b] \in S \cup {None}
    BY DEF WouldDeadlock
  <1>2. SUFFICES ASSUME NEW T \in SUBSET Agent, T # {},
                        \A b \in T : waitFor'[b] \in T
                 PROVE  FALSE
    BY <1>1 DEF WaitGraphAcyclic
  <1>3. CASE a \notin T
    <2>1. \A b \in T : waitFor[b] \in T
      BY <1>2, <1>3
    <2> QED BY <2>1, <1>2 DEF WaitGraphAcyclic
  <1>4. CASE a \in T
    <2>1. holder \in T \cap S
      BY <1>1, <1>2, <1>4
    <2>2. \A b \in T \cap S : waitFor[b] \in T \cap S
      BY <1>1, <1>2, NameAssumption
    <2>3. T \cap S \in SUBSET Agent /\ T \cap S # {}
      BY <2>1
    <2> QED BY <2>2, <2>3 DEF WaitGraphAcyclic
  <1> QED BY <1>3, <1>4

(* What waking changes besides the lock.                                   *)
LEMMA LeaveStep ==
  ASSUME IInv, NEW r \in Resource, NEW l, LockInv(l), NEW others,
         Leave(l, r, others)
  PROVE  /\ waiters' \in [Resource -> Seq(Call)]
         /\ waitFor' \in [Agent -> Agent \cup {None}]
         /\ pc' \in [Call -> {"idle", "queued", "granted", "dropped"}]
         /\ \A s \in Resource : \A i \in DOMAIN waiters'[s] :
               \E j \in DOMAIN waiters[s] : waiters'[s][i] = waiters[s][j]
         /\ \A s \in Resource \ {r} : waiters'[s] = waiters[s]
         /\ waiters'[r] # <<>> => waiters[r] # <<>>
         /\ WaitGraphAcyclic'
  <1> DEFINE k == WakeCount(l, r)
             q == waiters[r]
  <1>1. /\ waiters \in [Resource -> Seq(Call)] /\ q \in Seq(Call)
        /\ waitFor \in [Agent -> Agent \cup {None}]
        /\ pc \in [Call -> {"idle", "queued", "granted", "dropped"}]
    BY DEF IInv, TypeOK
  <1>2. k \in 0..Len(q) /\ Len(q) \in Nat
    BY <1>1, LockAfterWake
  <1>3. waiters' = [waiters EXCEPT ![r] = SubSeq(q, k + 1, Len(q))]
    BY DEF Leave
  <1> HIDE DEF k
  <1>4. /\ SubSeq(q, k + 1, Len(q)) \in Seq(Call)
        /\ \A i \in DOMAIN SubSeq(q, k + 1, Len(q)) :
              \E j \in DOMAIN q : SubSeq(q, k + 1, Len(q))[i] = q[j]
        /\ SubSeq(q, k + 1, Len(q)) # <<>> => q # <<>>
    <2>1. k + 1 \in 1..(Len(q) + 1)
      BY <1>2
    <2>2. /\ SubSeq(q, k + 1, Len(q)) \in Seq(Call)
          /\ Len(SubSeq(q, k + 1, Len(q))) = IF k + 1 <= Len(q) THEN Len(q) - (k + 1) + 1 ELSE 0
          /\ \A i \in 1..(Len(q) - (k + 1) + 1) : SubSeq(q, k + 1, Len(q))[i] = q[k + 1 + i - 1]
      BY <1>1, <1>2, <2>1, SubSeqProperties
    <2>3. \A i \in DOMAIN SubSeq(q, k + 1, Len(q)) :
             k + i \in DOMAIN q /\ SubSeq(q, k + 1, Len(q))[i] = q[k + i]
      <3> TAKE i \in DOMAIN SubSeq(q, k + 1, Len(q))
      <3>1. i \in 1..Len(SubSeq(q, k + 1, Len(q)))
        BY <2>2
      <3>2. i \in 1..(Len(q) - (k + 1) + 1) /\ k + 1 <= Len(q)
        BY <2>2, <3>1, <1>2
      <3>3. k + 1 + i - 1 = k + i /\ k + i \in 1..Len(q)
        BY <3>2, <1>2
      <3> QED BY <3>2, <3>3, <2>2, <1>1
    <2>4. q = <<>> => SubSeq(q, k + 1, Len(q)) = <<>>
      BY <1>1, <1>2, <2>2
    <2> QED BY <2>2, <2>3, <2>4
  <1>5. /\ waiters' \in [Resource -> Seq(Call)]
        /\ \A s \in Resource : \A i \in DOMAIN waiters'[s] :
              \E j \in DOMAIN waiters[s] : waiters'[s][i] = waiters[s][j]
        /\ \A s \in Resource \ {r} : waiters'[s] = waiters[s]
        /\ waiters'[r] # <<>> => waiters[r] # <<>>
    BY <1>1, <1>3, <1>4
  <1>6. /\ waitFor' \in [Agent -> Agent \cup {None}]
        /\ \A a \in Agent : waitFor'[a] \in {waitFor[a], None}
    BY <1>1 DEF Leave
  <1>7. pc' \in [Call -> {"idle", "queued", "granted", "dropped"}]
    <2>1. pc' = [c \in Call |-> IF c \in WokenCalls(l, r) /\ pc[c] = "queued"
                                THEN "granted" ELSE pc[c]]
      BY DEF Leave, Resolve
    <2> QED BY <2>1, <1>1
  <1>8. WaitGraphAcyclic'
    BY <1>6, GraphShrinks DEF IInv
  <1> QED BY <1>5, <1>6, <1>7, <1>8

(* The invariant after a step that leaves a consistent lock at r and lets  *)
(* waiters go.                                                             *)
LEMMA AfterLeave ==
  ASSUME IInv, NEW r \in Resource, NEW l, LockInv(l), NEW others, Leave(l, r, others),
         NEW m, LockInv(m), waiters[r] # <<>> => IsLocked(m),
         lock' = [lock EXCEPT ![r] = m],
         request' \in [Call -> Request \cup {None}],
         \A c \in Call : request'[c] \in {request[c]} \cup Request,
         releasing' \in [Agent -> SUBSET Resource],
         count' \in [{"request", "abandon"} -> Nat]
  PROVE  IInv'
  <1>1. \A s \in Resource : LockInv(lock'[s])
    BY LocksAndQueues DEF IInv, TypeOK
  <1>2. lock' \in [Resource -> Lock]
    BY DEF IInv, TypeOK, LockInv
  <1>3. \A s \in Resource : lock'[s].lease = "none" <=> ~IsLocked(lock'[s])
    BY <1>1 DEF LockInv
  <1>4. TypeOK'
    BY <1>2, <1>3, LeaveStep DEF TypeOK, IsLocked
  <1>5. ASSUME NEW s \in Resource
        PROVE  QueueInv(s)'
    <2>1. ASSUME NEW i \in DOMAIN waiters'[s]
          PROVE  request'[waiters'[s][i]] \in Request
      <3>1. PICK j \in DOMAIN waiters[s] : waiters'[s][i] = waiters[s][j]
        BY <2>1, LeaveStep
      <3>2. waiters[s][j] \in Call /\ request[waiters[s][j]] \in Request
        BY <3>1, LocksAndQueues
      <3> QED BY <3>1, <3>2, LeaveStep
    <2>2. waiters'[s] # <<>> => IsLocked(lock'[s])
      <3>1. CASE s = r
        BY <3>1, LeaveStep DEF IInv, TypeOK
      <3>2. CASE s # r
        BY <3>2, LeaveStep, LocksAndQueues DEF IInv, TypeOK
      <3> QED BY <3>1, <3>2
    <2> QED BY <2>1, <2>2 DEF QueueInv, IsLocked
  <1> QED BY <1>1, <1>4, <1>5, LeaveStep DEF IInv, LockInv, IsLocked

LEMMA WakeStep ==
  ASSUME IInv, NEW r \in Resource, NEW l, LockInv(l), WakeWaiters(l, r),
         releasing' \in [Agent -> SUBSET Resource], UNCHANGED <<request, count>>
  PROVE  IInv'
  <1>1. Leave(l, r, {}) /\ lock' = [lock EXCEPT ![r] = AfterWake(l, r)]
    BY DEF WakeWaiters
  <1>2. request \in [Call -> Request \cup {None}] /\ count \in [{"request", "abandon"} -> Nat]
    BY DEF IInv, TypeOK
  <1> QED BY <1>1, <1>2, LockAfterWake, AfterLeave

(* Steps that leave locks and queues alone.                                *)
LEMMA QuietStep ==
  ASSUME IInv, UNCHANGED <<lock, waiters>>,
         pc' \in [Call -> {"idle", "queued", "granted", "dropped"}],
         waitFor' \in [Agent -> Agent \cup {None}],
         request' \in [Call -> Request \cup {None}],
         releasing' \in [Agent -> SUBSET Resource],
         count' \in [{"request", "abandon"} -> Nat],
         \A r \in Resource : \A i \in DOMAIN waiters[r] :
             request'[waiters[r][i]] \in Request,
         WaitGraphAcyclic'
  PROVE  IInv'
  <1>1. TypeOK'
    BY DEF IInv, TypeOK, IsLocked
  <1>2. \A r \in Resource : LockInv(lock[r])' /\ QueueInv(r)'
    BY DEF IInv, LockInv, QueueInv, IsLocked
  <1> QED BY <1>1, <1>2 DEF IInv

(* What a call that asks changes.                                          *)
LEMMA AskStep ==
  ASSUME IInv, NEW c \in Call, NEW rq \in Request, Ask(c, rq)
  PROVE  /\ request' \in [Call -> Request \cup {None}]
         /\ \A d \in Call : request'[d] \in {request[d]} \cup Request
         /\ request'[c] = rq
         /\ releasing' \in [Agent -> SUBSET Resource]
         /\ count' \in [{"request", "abandon"} -> Nat]
         /\ rq.resource \in Resource
         /\ \A r \in Resource : \A i \in DOMAIN waiters[r] :
               request'[waiters[r][i]] \in Request
  <1>1. /\ request \in [Call -> Request \cup {None}]
        /\ releasing \in [Agent -> SUBSET Resource]
        /\ count \in [{"request", "abandon"} -> Nat]
    BY DEF IInv, TypeOK
  <1>2. request' = [request EXCEPT ![c] = rq] /\ releasing' = releasing
    BY DEF Ask
  <1>3. \A d \in Call : request'[d] \in {request[d]} \cup Request
    BY <1>1, <1>2
  <1>4. count' \in [{"request", "abandon"} -> Nat]
    BY <1>1 DEF Ask
  <1>5. \A r \in Resource : \A i \in DOMAIN waiters[r] : request'[waiters[r][i]] \in Request
    BY <1>3, LocksAndQueues
  <1> QED BY <1>1, <1>2, <1>3, <1>4, <1>5, RequestParts

LEMMA AcquireNowKeeps ==
  ASSUME IInv, NEW c \in Call, NEW rq \in Request, AcquireNow(c, rq)
  PROVE  IInv'
  <1> DEFINE r == rq.resource
             l == Current(lock[r])
             m == Grant(l, AgentOf[c], rq.mode, rq.leased, 0)
  <1>1. Ask(c, rq) /\ Grantable(l, rq.mode) /\ lock' = [lock EXCEPT ![r] = m]
        /\ UNCHANGED <<waiters, waitFor, pc>>
    BY DEF AcquireNow
  <1>2. r \in Resource /\ AgentOf[c] \in Agent
    BY RequestParts, NameAssumption
  <1>3. LockInv(l)
    BY <1>2, LocksAndQueues, CurrentLock
  <1>4. LockInv(m) /\ IsLocked(m)
    BY <1>1, <1>2, <1>3, RequestParts, GrantedLock
  <1> HIDE DEF m
  <1>5. /\ lock \in [Resource -> Lock] /\ waiters \in [Resource -> Seq(Call)]
        /\ waitFor \in [Agent -> Agent \cup {None}]
        /\ pc \in [Call -> {"idle", "queued", "granted", "dropped"}]
    BY DEF IInv, TypeOK
  <1>6. \A s \in Resource : LockInv(lock'[s])
    BY <1>1, <1>4, <1>5, LocksAndQueues
  <1>7. TypeOK'
    BY <1>1, <1>5, <1>6, AskStep DEF TypeOK, LockInv, IsLocked
  <1>8. \A s \in Resource : QueueInv(s)'
    <2> TAKE s \in Resource
    <2>1. waiters[s] # <<>> => IsLocked(lock'[s])
      BY <1>1, <1>4, <1>5, LocksAndQueues
    <2>2. \A i \in DOMAIN waiters[s] : request'[waiters[s][i]] \in Request
      BY <1>1, AskStep
    <2> QED BY <1>1, <2>1, <2>2 DEF QueueInv, IsLocked
  <1>9. WaitGraphAcyclic'
    BY <1>1 DEF IInv, WaitGraphAcyclic
  <1> QED BY <1>6, <1>7, <1>8, <1>9 DEF IInv, LockInv, IsLocked

LEMMA EnqueueKeeps ==
  ASSUME IInv, NEW c \in Call, NEW rq \in Request, Enqueue(c, rq)
  PROVE  IInv'
  <1> DEFINE r == rq.resource
  <1>1. PICK holder \in Holders(lock[r]) :
           /\ Ask(c, rq) /\ Blocked(rq)
           /\ ~WouldDeadlock(AgentOf[c], holder)
           /\ waitFor' = [waitFor EXCEPT ![AgentOf[c]] = holder]
           /\ waiters' = [waiters EXCEPT ![r] = Append(@, c)]
           /\ pc' = [pc EXCEPT ![c] = "queued"]
           /\ UNCHANGED lock
    BY DEF Enqueue
  <1>2. r \in Resource /\ AgentOf[c] \in Agent /\ rq.mode \in {"Shared", "Exclusive"}
    BY RequestParts, NameAssumption
  <1>3. /\ lock \in [Resource -> Lock] /\ waiters \in [Resource -> Seq(Call)]
        /\ waitFor \in [Agent -> Agent \cup {None}]
        /\ pc \in [Call -> {"idle", "queued", "granted", "dropped"}]
    BY DEF IInv, TypeOK
  <1>4. IsLocked(lock[r])
    BY <1>1, <1>2, LocksAndQueues DEF Blocked, Grantable, Current, Free, IsLocked
  <1>5. WaitGraphAcyclic' /\ holder \in Agent
    BY <1>1, <1>2, <1>3, GraphGrows DEF IInv
  <1>6. waiters' \in [Resource -> Seq(Call)]
    BY <1>1, <1>2, <1>3, AppendProperties
  <1>7. TypeOK'
    BY <1>1, <1>2, <1>3, <1>5, <1>6, AskStep DEF TypeOK, IInv, IsLocked
  <1>8. \A s \in Resource : LockInv(lock'[s]) /\ QueueInv(s)'
    <2> TAKE s \in Resource
    <2>1. LockInv(lock'[s])
      BY <1>1, LocksAndQueues
    <2>2. \A i \in DOMAIN waiters'[s] : \/ waiters'[s][i] = c
                                        \/ i \in DOMAIN waiters[s] /\ waiters'[s][i] = waiters[s][i]
      <3>1. CASE s = r
        <4>1. waiters'[s] = Append(waiters[r], c)
          BY <1>1, <1>2, <1>3, <3>1
        <4> QED BY <3>1, <4>1, <1>3, <1>2, AppendProperties
      <3>2. CASE s # r
        BY <1>1, <1>3, <3>2
      <3> QED BY <3>1, <3>2
    <2>3. \A i \in DOMAIN waiters'[s] : request'[waiters'[s][i]] \in Request
      BY <1>1, <2>2, AskStep
    <2>4. waiters'[s] # <<>> => IsLocked(lock'[s])
      BY <1>1, <1>3, <1>4, LocksAndQueues
    <2> QED BY <1>1, <2>1, <2>3, <2>4 DEF QueueInv, IsLocked
  <1> QED BY <1>5, <1>7, <1>8 DEF IInv, LockInv, IsLocked

LEMMA PreemptKeeps ==
  ASSUME IInv, NEW c \in Call, NEW rq \in Request, Preempt(c, rq)
  PROVE  IInv'
  <1> DEFINE r == rq.resource
             l == AfterWake(Free, r)
             m == IF Grantable(l, rq.mode)
                  THEN Grant(l, AgentOf[c], rq.mode, rq.leased, rq.priority) ELSE l
  <1>1. PICK holder \in Holders(lock[r]) :
           Ask(c, rq) /\ lock' = [lock EXCEPT ![r] = m] /\ Leave(Free, r, {holder})
    BY DEF Preempt
  <1>2. r \in Resource /\ AgentOf[c] \in Agent
    BY RequestParts, NameAssumption
  <1>3. LockInv(l) /\ (waiters[r] # <<>> => IsLocked(l))
    BY <1>2, FreeLock, LockAfterWake
  <1> HIDE DEF l
  <1>4. LockInv(m) /\ (waiters[r] # <<>> => IsLocked(m))
    BY <1>2, <1>3, RequestParts, GrantedLock
  <1> HIDE DEF m
  <1> QED BY <1>1, <1>2, <1>4, FreeLock, AskStep, AfterLeave

LEMMA AcquireKeeps ==
  ASSUME IInv, NEW c \in Call, NEW rq \in Request, Acquire(c, rq)
  PROVE  IInv'
  <1>1. CASE RejectDeadlock(c, rq)
    <2>1. Ask(c, rq) /\ UNCHANGED <<lockVars, pc>>
      BY <1>1 DEF RejectDeadlock
    <2>2. WaitGraphAcyclic'
      BY <2>1 DEF IInv, WaitGraphAcyclic, lockVars
    <2> QED BY <2>1, <2>2, AskStep, QuietStep DEF lockVars, IInv, TypeOK
  <1> QED BY <1>1, AcquireNowKeeps, EnqueueKeeps, PreemptKeeps DEF Acquire

LEMMA CallKeeps ==
  ASSUME IInv, NEW c \in Call, Resume(c) \/ Abandon(c)
  PROVE  IInv'
  <1>1. /\ pc \in [Call -> {"idle", "queued", "granted", "dropped"}]
        /\ waitFor \in [Agent -> Agent \cup {None}]
        /\ count \in [{"request", "abandon"} -> Nat]
        /\ request \in [Call -> Request \cup {None}]
        /\ releasing \in [Agent -> SUBSET Resource]
    BY DEF IInv, TypeOK
  <1>2. /\ pc' \in [Call -> {"idle", "queued", "granted", "dropped"}]
        /\ count' \in [{"request", "abandon"} -> Nat]
        /\ UNCHANGED <<lock, waiters, request, releasing>>
    BY <1>1 DEF Resume, Abandon, lockVars
  <1>3. /\ waitFor' \in [Agent -> Agent \cup {None}]
        /\ \A a \in Agent : waitFor'[a] \in {waitFor[a], None}
    BY <1>1 DEF Resume, Abandon, lockVars
  <1>4. WaitGraphAcyclic'
    BY <1>3, GraphShrinks DEF IInv
  <1> QED BY <1>1, <1>2, <1>3, <1>4, LocksAndQueues, QuietStep

LEMMA AgentKeeps ==
  ASSUME IInv, NEW a \in Agent,
         ReleaseAll(a) \/ ReleaseNext(a) \/ \E r \in Resource : Release(a, r)
  PROVE  IInv'
  <1>1. /\ pc \in [Call -> {"idle", "queued", "granted", "dropped"}]
        /\ waitFor \in [Agent -> Agent \cup {None}]
        /\ count \in [{"request", "abandon"} -> Nat]
        /\ request \in [Call -> Request \cup {None}]
        /\ releasing \in [Agent -> SUBSET Resource]
    BY DEF IInv, TypeOK
  <1>2. CASE ReleaseAll(a)
    <2>1. /\ releasing' \in [Agent -> SUBSET Resource]
          /\ UNCHANGED <<lock, waiters, pc, request, count>>
          /\ waitFor' \in [Agent -> Agent \cup {None}]
          /\ \A b \in Agent : waitFor'[b] \in {waitFor[b], None}
      BY <1>1, <1>2 DEF ReleaseAll
    <2>2. WaitGraphAcyclic'
      BY <2>1, GraphShrinks DEF IInv
    <2> QED BY <1>1, <2>1, <2>2, LocksAndQueues, QuietStep
  <1>3. CASE ReleaseNext(a)
    <2>1. PICK r \in releasing[a] :
             /\ releasing' = [releasing EXCEPT ![a] = @ \ {r}]
             /\ \/ WakeWaiters(ReleaseAgent(lock[r], a), r)
                \/ UNCHANGED <<lockVars, pc>>
             /\ UNCHANGED <<request, count>>
      BY <1>3 DEF ReleaseNext
    <2>2. r \in Resource /\ releasing' \in [Agent -> SUBSET Resource]
      BY <1>1, <2>1
    <2>3. CASE WakeWaiters(ReleaseAgent(lock[r], a), r)
      BY <2>1, <2>2, <2>3, LocksAndQueues, ReleasedLock, WakeStep
    <2>4. CASE UNCHANGED <<lockVars, pc>>
      <3>1. WaitGraphAcyclic'
        BY <2>4 DEF IInv, WaitGraphAcyclic, lockVars
      <3> QED BY <1>1, <2>1, <2>2, <2>4, <3>1, LocksAndQueues, QuietStep DEF lockVars
    <2> QED BY <2>1, <2>3, <2>4
  <1>4. ASSUME NEW r \in Resource, Release(a, r)
        PROVE  IInv'
    BY <1>1, <1>4, LocksAndQueues, ReleasedLock, WakeStep DEF Release
  <1> QED BY <1>2, <1>3, <1>4

LEMMA LeaseKeeps ==
  ASSUME IInv, NEW r \in Resource, SweepExpired(r) \/ LeaseEnds(r)
  PROVE  IInv'
  <1>1. CASE SweepExpired(r)
    <2>1. releasing \in [Agent -> SUBSET Resource]
      BY DEF IInv, TypeOK
    <2> QED BY <1>1, <2>1, FreeLock, WakeStep DEF SweepExpired
  <1>2. CASE LeaseEnds(r)
    <2> DEFINE m == [lock[r] EXCEPT !.lease = "over"]
    <2>1. /\ lock[r].lease = "running" /\ lock' = [lock EXCEPT ![r] = m]
          /\ UNCHANGED <<waiters, waitFor, pc, request, releasing, count>>
      BY <1>2 DEF LeaseEnds
    <2>2. /\ m \in Lock /\ m.shared = lock[r].shared
          /\ m.exclusive = lock[r].exclusive /\ m.lease = "over"
      BY LocksAndQueues DEF Lock
    <2>3. LockInv(m) /\ IsLocked(m)
      BY <2>1, <2>2, LocksAndQueues DEF LockInv, IsLocked
    <2> HIDE DEF m
    <2>4. /\ lock \in [Resource -> Lock]
          /\ \A s \in Resource : lock'[s] = IF s = r THEN m ELSE lock[s]
          /\ lock' \in [Resource -> Lock]
      BY <2>1, <2>2 DEF IInv, TypeOK
    <2>5. \A s \in Resource : LockInv(lock'[s]) /\ (waiters[s] # <<>> => IsLocked(lock'[s]))
      BY <2>3, <2>4, LocksAndQueues
    <2>6. TypeOK'
      BY <2>1, <2>4, <2>5 DEF IInv, TypeOK, LockInv, IsLocked
    <2>7. \A s \in Resource : QueueInv(s)'
      BY <2>1, <2>5, LocksAndQueues DEF QueueInv, IsLocked
    <2>8. WaitGraphAcyclic'
      BY <2>1 DEF IInv, WaitGraphAcyclic
    <2> QED BY <2>5, <2>6, <2>7, <2>8 DEF IInv, LockInv, IsLocked
  <1> QED BY <1>1, <1>2

LEMMA InitInv == Init => IInv
  <1> SUFFICES ASSUME Init PROVE IInv
    OBVIOUS
  <1>1. TypeOK
    BY FreeLock DEF Init, TypeOK, LockInv
  <1>2. \A r \in Resource : LockInv(lock[r]) /\ QueueInv(r)
    BY FreeLock DEF Init, QueueInv
  <1>3. WaitGraphAcyclic
    BY NameAssumption DEF Init, WaitGraphAcyclic
  <1> QED BY <1>1, <1>2, <1>3 DEF IInv

LEMMA NextInv == IInv /\ [Next]_vars => IInv'
  <1> SUFFICES ASSUME IInv, [Next]_vars PROVE IInv'
    OBVIOUS
  <1>1. CASE Next
    BY <1>1, AcquireKeeps, CallKeeps, AgentKeeps, LeaseKeeps DEF Next
  <1>2. CASE UNCHANGED vars
    BY <1>2 DEF vars, lockVars, IInv, TypeOK, LockInv, QueueInv, IsLocked, WaitGraphAcyclic
  <1> QED BY <1>1, <1>2

-----------------------------------------------------------------------------
(* The theorems.                                                           *)

(* Every variable of the arbiter keeps its type, and a lease runs exactly  *)
(* while somebody holds the lock.                                          *)
THEOREM TypeCorrect == Spec => []TypeOK
  <1>1. IInv => TypeOK
    BY DEF IInv
  <1> QED BY <1>1, InitInv, NextInv, PTL DEF Spec

(* Nobody shares a resource that an agent holds exclusively.               *)
THEOREM ExclusiveExcludes == Spec => []Exclusion
  <1>1. IInv => Exclusion
    BY DEF IInv, Exclusion, LockInv
  <1> QED BY <1>1, InitInv, NextInv, PTL DEF Spec

(* No queue waits on a resource that nobody holds.                         *)
THEOREM NoQueueOnFreeResource == Spec => []WaitersHaveAHolder
  <1>1. IInv => WaitersHaveAHolder
    BY DEF IInv, WaitersHaveAHolder, QueueInv
  <1> QED BY <1>1, InitInv, NextInv, PTL DEF Spec

(* The graph of waiting agents has no cycle.                               *)
THEOREM GraphStaysAcyclic == Spec => []WaitGraphAcyclic
  <1>1. IInv => WaitGraphAcyclic
    BY DEF IInv
  <1> QED BY <1>1, InitInv, NextInv, PTL DEF Spec
=============================================================================
