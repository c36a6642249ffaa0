------------------------ MODULE TaskLifecycleProofs ------------------------
(***************************************************************************)
(* Proofs about the life of tasks, for every number of tasks, executions,  *)
(* cancellations and timeouts.  Types, the service of callers and the      *)
(* finality of ends hold whatever an answer of the model asks for; that a  *)
(* task has one loop at a time, and that a failure reaches the parent,  *)
(* when an answer has at most one tool call.  With two calls neither is    *)
(* so, and TLC finds how.                                                  *)
(***************************************************************************)
EXTENDS TaskLifecycle, FiniteSetTheorems, TLAPS

(* What an execution is about: a child it has delegated to or called, the  *)
(* task it has for itself, the task whose end it makes known.              *)
DelegatingPc == {"child", "park", "enqueue"}
BirthPc == {"cchild", "cstart", "cpark"}
CallingPc == BirthPc \cup {"await", "back", "hear"}
OwningPc == {"begin", "setup", "turn", "act", "adopt", "done", "fail", "failing"}
            \cup DelegatingPc \cup CallingPc
EndingPc == {"inject", "settle", "wake", "close"}

Holds(s, c) == slot[s].pc \in DelegatingPc \cup CallingPc /\ slot[s].child = c
Owns(s, t) ==
    /\ slot[s].pc \in OwningPc /\ slot[s].task = t
    /\ ~(slot[s].pc = "act" /\ slot[s].parked)
Over(t) == state[t] \in Terminal

(* w is yet to be woken by the end of c: the edge is there, or whoever     *)
(* took it has w on its list.                                              *)
Edge(w, c) == <<w, c>> \in waits
ToWake(s, w, c) == slot[s].pc = "wake" /\ slot[s].task = c /\ w \in slot[s].todo
CheckerToWake(w, c) == checker.pc = "wake" /\ checker.task = c /\ w \in checker.waiters
Linked(w, c) == Edge(w, c) \/ CheckerToWake(w, c) \/ \E s \in Slot : ToWake(s, w, c)

(* The state of a task at each step of the execution that owns it.         *)
Expected(l) ==
    CASE l = "begin" -> "Queued"
      [] l \in {"enqueue", "await", "back"} -> "Waiting"
      [] OTHER -> "Running"

(* An execution and its own task.                                          *)
SelfOk(s) ==
    /\ slot[s].left = 0
    /\ slot[s].pc = "free" <=> slot[s].task = None
    /\ slot[s].task # None => state[slot[s].task] # Absent
    /\ slot[s].parked => slot[s].pc \in {"enqueue", "act"}
    /\ slot[s].pc \in EndingPc => Over(slot[s].task)
    /\ slot[s].pc = "enqueue" /\ ~slot[s].parked => Over(slot[s].task)
    /\ Owns(s, slot[s].task) =>
          Over(slot[s].task) \/ state[slot[s].task] = Expected(slot[s].pc)

(* An execution and the child it deals with.                               *)
ChildOk(s) ==
    /\ slot[s].pc \in DelegatingPc \cup CallingPc =>
          slot[s].child \in Task /\ slot[s].child \notin fresh
    /\ slot[s].pc \in DelegatingPc => state[slot[s].child] = Absent
    /\ slot[s].pc \in CallingPc =>
          rpc[slot[s].child] # "none" /\ state[slot[s].child] # Absent
    /\ slot[s].pc \in BirthPc =>
          /\ heap[slot[s].child] = 0
          /\ \/ Over(slot[s].child)
             \/ slot[s].pc = "cpark" /\ state[slot[s].child] = "Running"
             \/ slot[s].pc # "cpark" /\ state[slot[s].child] = "Queued"
          /\ \A r \in Slot : slot[r].task # slot[s].child
          /\ \A c \in Task : ~Linked(slot[s].child, c)

(* An execution and the one that runs it inline.                           *)
CallerOk(s) ==
    slot[s].caller # None =>
        /\ slot[slot[s].caller].pc = "await"
        /\ slot[slot[s].caller].child = slot[s].task
        /\ slot[s].pc \notin {"free", "begin"}

(* Two executions.                                                         *)
PairOk(s, r) ==
    /\ \A t \in Task : Owns(s, t) /\ Owns(r, t) => s = r
    /\ \A c \in Task : Holds(s, c) /\ Holds(r, c) => s = r
    /\ slot[s].caller = slot[r].caller /\ slot[s].caller # None => s = r

(* A task, its heap entries and what is linked to it.                      *)
TaskOk(t) ==
    /\ t \in fresh => state[t] = Absent /\ rpc[t] = "none" /\ \A w \in Task : ~Edge(w, t)
    /\ state[t] = Absent => heap[t] = 0 /\ \A c \in Task : ~Linked(t, c)
    /\ heap[t] \in {0, 1}
    /\ heap[t] = 1 =>
          Over(t) \/ (state[t] = "Queued" /\ \A s \in Slot : ~Owns(s, t))
    /\ rpc[t] # "none" => \A w \in Task : ~Linked(w, t)

(* A link is in one place.                                                 *)
PlaceOk(w, c) ==
    /\ Edge(w, c) => origin[c] = w
    /\ CheckerToWake(w, c) => ~Edge(w, c) /\ \A s \in Slot : ~ToWake(s, w, c)
    /\ \A s \in Slot : ToWake(s, w, c) =>
          ~Edge(w, c) /\ \A r \in Slot : ToWake(r, w, c) => s = r

(* The task that is linked: unless it has ended it waits, or is about to,  *)
(* and for nothing else.                                                   *)
LinkOk(w, c) == Linked(w, c) =>
    /\ \A s \in Slot : Owns(s, w) => slot[s].pc \notin {"begin", "setup"}
    /\ ~Over(w) =>
          /\ \/ state[w] = "Waiting"
             \/ \E s \in Slot : Owns(s, w) /\ slot[s].pc \in {"child", "park"}
          /\ \A s \in Slot : Owns(s, w) => slot[s].pc \in DelegatingPc /\ slot[s].child = c
          /\ \A d \in Task : Linked(w, d) => c = d

CheckerOk ==
    /\ checker.pc # "idle" => \A t \in checker.todo : Over(t)
    /\ checker.pc = "wake" => checker.task \in Task /\ Over(checker.task)

(* The failure of a task is in the window of whoever it is going to wake.  *)
KnownOk(s) == ~slot[s].ok =>
    /\ slot[s].pc = "settle" =>
          \A w \in Task : Edge(w, slot[s].task) /\ ctx[w] => slot[s].task \in got[w]
    /\ slot[s].pc = "wake" =>
          \A w \in slot[s].todo : ctx[w] => slot[s].task \in got[w]

Core ==
    /\ \A s \in Slot : SelfOk(s) /\ ChildOk(s) /\ CallerOk(s)
    /\ \A s, r \in Slot : PairOk(s, r)
    /\ \A t \in Task : TaskOk(t)
    /\ \A w, c \in Task : PlaceOk(w, c) /\ LinkOk(w, c)
    /\ CheckerOk

Known == \A s \in Slot : KnownOk(s)

(* A spawned child is known to the execution that adopts it.               *)
Adopted == \A s \in Slot : slot[s].pc = "adopt" => slot[s].child \in Task

IInv == TypeOK /\ Core /\ Adopted /\ Known

(* What the types rest on, however many calls an answer has: an execution  *)
(* has a task, a child where it deals with one, and one that runs inline   *)
(* goes back to an execution that awaits it and no other.                  *)
ChildPc == DelegatingPc \cup CallingPc \cup {"adopt"}

Role(s) ==
    /\ slot[s].pc # "free" => slot[s].task \in Task
    /\ slot[s].pc \in ChildPc => slot[s].child \in Task
    /\ slot[s].caller # None =>
          /\ slot[slot[s].caller].pc = "await"
          /\ \A r \in Slot : slot[r].caller = slot[s].caller => r = s

Roles == \A s \in Slot : Role(s)

(* A caller that awaits an agent has an execution that will bring it back, *)
(* and one that is to hear of a call has a call that somebody can answer.  *)
Serving(s) ==
    /\ slot[s].pc = "free" => slot[s].caller = None
    /\ slot[s].pc = "await" => \E r \in Slot : slot[r].caller = s
    /\ slot[s].pc \in CallingPc => rpc[slot[s].child] # "none"

CallersServed == \A s \in Slot : Serving(s)

(* Who is in the map: not a task that is to be minted, nor a child that    *)
(* its one delegation has still to queue, but everybody who runs or is     *)
(* called.                                                                 *)
Birth(s) ==
    /\ slot[s].pc # "free" => state[slot[s].task] # Absent
    /\ slot[s].pc \in DelegatingPc => slot[s].child \notin fresh /\ state[slot[s].child] = Absent
    /\ slot[s].pc \in CallingPc => state[slot[s].child] # Absent

Births ==
    /\ \A t \in fresh : state[t] = Absent
    /\ \A s \in Slot : Birth(s)
    /\ \A s, r \in Slot :
          slot[s].pc \in DelegatingPc /\ slot[r].pc \in DelegatingPc /\ slot[s].child = slot[r].child => s = r

(* A task that is in the map stays there, and if it is over it stays so.   *)
Lasting(t) == state[t] # Absent => state'[t] # Absent /\ (Over(t) => Over(t)')

-----------------------------------------------------------------------------
(* Executions.                                                             *)

LEMMA Names == None \notin Task /\ None \notin Slot /\ Slot \subseteq Nat /\ Absent \notin Terminal
  BY SlotAssumption DEF Absent, Terminal

LEMMA SlotFields ==
  ASSUME TypeOK, NEW s \in Slot
  PROVE  /\ slot[s] \in Execution
         /\ slot[s].pc \in Pc /\ slot[s].task \in Task \cup {None}
         /\ slot[s].child \in Task \cup {None} /\ slot[s].caller \in Slot \cup {None}
         /\ slot[s].todo \in SUBSET Task /\ slot[s].ok \in BOOLEAN
         /\ slot[s].left \in 0..MaxCalls /\ slot[s].parked \in BOOLEAN
  BY DEF TypeOK, Execution

LEMMA SlotMove ==
  ASSUME TypeOK, NEW s \in Slot, NEW e, slot' = [slot EXCEPT ![s] = e]
  PROVE  slot'[s] = e /\ \A r \in Slot : r # s => slot'[r] = slot[r]
  BY DEF TypeOK

(* What is visible of an execution that moves on: nothing of the others    *)
(* changes, and it neither gains a task nor a child.                       *)
LEMMA MoveViews ==
  ASSUME TypeOK, Core, NEW s \in Slot, NEW e \in Execution, slot' = [slot EXCEPT ![s] = e],
         e.task = slot[s].task, UNCHANGED <<waits, checker>>,
         slot[s].pc # "wake", e.pc # "wake",
         e.pc \in OwningPc /\ ~(e.pc = "act" /\ e.parked) => Owns(s, slot[s].task),
         e.pc \in DelegatingPc \cup CallingPc =>
            slot[s].pc \in DelegatingPc \cup CallingPc /\ e.child = slot[s].child
  PROVE  /\ \A r \in Slot, t \in Task : Owns(r, t)' => Owns(r, t)
         /\ \A r \in Slot, c \in Task : Holds(r, c)' => Holds(r, c)
         /\ \A w, c \in Task : Edge(w, c)' <=> Edge(w, c)
         /\ \A w, c \in Task : CheckerToWake(w, c)' <=> CheckerToWake(w, c)
         /\ \A r \in Slot, w, c \in Task : ToWake(r, w, c)' <=> ToWake(r, w, c)
         /\ \A w, c \in Task : Linked(w, c)' <=> Linked(w, c)
  <1>1. slot'[s] = e /\ \A r \in Slot : r # s => slot'[r] = slot[r]
    BY SlotMove
  <1>2. \A r \in Slot, t \in Task : Owns(r, t)' => Owns(r, t)
    BY <1>1 DEF Owns
  <1>3. \A r \in Slot, c \in Task : Holds(r, c)' => Holds(r, c)
    BY <1>1 DEF Holds
  <1>4. \A r \in Slot, w, c \in Task : ToWake(r, w, c)' <=> ToWake(r, w, c)
    BY <1>1 DEF ToWake
  <1>5. \A w, c \in Task : Edge(w, c)' <=> Edge(w, c)
    BY DEF Edge
  <1>6. \A w, c \in Task : CheckerToWake(w, c)' <=> CheckerToWake(w, c)
    BY DEF CheckerToWake
  <1>7. \A w, c \in Task : Linked(w, c)' <=> Linked(w, c)
    BY <1>4, <1>5, <1>6 DEF Linked
  <1> QED BY <1>2, <1>3, <1>4, <1>5, <1>6, <1>7

(* An execution moves on, and gives its task the state v if it has it for  *)
(* itself.                                                                 *)
LEMMA SlotStep ==
  ASSUME TypeOK, Core, NEW s \in Slot, NEW e \in Execution, slot' = [slot EXCEPT ![s] = e],
         NEW v \in TaskState, slot[s].task \in Task,
         state' = [state EXCEPT ![slot[s].task] = v],
         UNCHANGED <<heap, waits, checker, fresh, origin>>,
         \A c \in Task : rpc'[c] = "none" <=> rpc[c] = "none",
         Over(slot[s].task) => v = state[slot[s].task],
         v = state[slot[s].task] \/ Owns(s, slot[s].task),
         e.task = slot[s].task, e.caller = slot[s].caller, e.left = 0,
         e.pc \notin {"free", "begin", "await", "wake"}, slot[s].pc \notin {"await", "wake"},
         e.pc = "setup" => slot[s].pc = "begin",
         e.pc \in OwningPc /\ ~(e.pc = "act" /\ e.parked) =>
            Owns(s, slot[s].task) /\ (v \in Terminal \/ v = Expected(e.pc)),
         e.parked => e.pc \in {"enqueue", "act"},
         e.pc = "enqueue" /\ ~e.parked => v \in Terminal,
         e.pc \in EndingPc => v \in Terminal,
         e.pc \in DelegatingPc => slot[s].pc \in DelegatingPc /\ e.child = slot[s].child,
         e.pc \in CallingPc => slot[s].pc \in CallingPc /\ e.child = slot[s].child,
         e.pc \in BirthPc => slot[s].pc \in BirthPc /\ (e.pc = "cpark" <=> slot[s].pc = "cpark"),
         slot[s].pc \in DelegatingPc =>
            v \in Terminal \/ (e.pc \in DelegatingPc /\ (e.pc \in {"child", "park"} \/ v = "Waiting"))
  PROVE  Core'
  <1> DEFINE t == slot[s].task
  <1>1. slot'[s] = e /\ \A r \in Slot : r # s => slot'[r] = slot[r]
    BY SlotMove
  <1>2. state'[t] = v /\ \A u \in Task : u # t => state'[u] = state[u]
    BY DEF TypeOK
  <1>3. /\ \A r \in Slot, u \in Task : Owns(r, u)' => Owns(r, u)
        /\ \A r \in Slot, c \in Task : Holds(r, c)' => Holds(r, c)
        /\ \A w, c \in Task : Edge(w, c)' <=> Edge(w, c)
        /\ \A w, c \in Task : CheckerToWake(w, c)' <=> CheckerToWake(w, c)
        /\ \A r \in Slot, w, c \in Task : ToWake(r, w, c)' <=> ToWake(r, w, c)
        /\ \A w, c \in Task : Linked(w, c)' <=> Linked(w, c)
    <2> USE DEF t
    <2> QED BY MoveViews
  <1>4. /\ \A u \in Task : Over(u) => Over(u)' /\ state'[u] = state[u]
        /\ \A u \in Task : state'[u] = Absent <=> state[u] = Absent
    BY <1>2, Names DEF Over, Core, SelfOk, TaskState, Absent
  <1>5. ASSUME NEW r \in Slot
        PROVE  SelfOk(r)'
    <2>1. CASE r = s
      BY <1>1, <1>2, <2>1, Names DEF SelfOk, Owns, Over, Core, TaskState, Absent
    <2>2. CASE r # s
      <3>1. slot'[r] = slot[r] /\ SelfOk(r) /\ slot[r].task \in Task \cup {None}
        BY <1>1, <2>2, SlotFields DEF Core
      <3>2. Owns(r, slot[r].task)' => slot[r].task \in Task /\ state'[slot[r].task] = state[slot[r].task]
        BY <1>2, <1>3, <2>2, <3>1, Names DEF Core, PairOk, SelfOk, Owns, OwningPc, DelegatingPc, CallingPc, BirthPc
      <3>3. slot[r].pc \in EndingPc \cup {"enqueue"} => slot[r].task \in Task
        BY <3>1 DEF SelfOk, EndingPc
      <3> QED BY <1>4, <3>1, <3>2, <3>3 DEF SelfOk, Over, Owns
    <2> QED BY <2>1, <2>2
  <1>6. ASSUME NEW r \in Slot
        PROVE  ChildOk(r)'
    <2>1. ChildOk(r) /\ (\A q \in Slot : slot'[q].task = slot[q].task)
      BY <1>1 DEF Core
    <2>2. /\ slot'[r].pc \in DelegatingPc \cup CallingPc =>
                slot[r].pc \in DelegatingPc \cup CallingPc /\ slot'[r].child = slot[r].child
          /\ slot'[r].pc \in DelegatingPc => slot[r].pc \in DelegatingPc
          /\ slot'[r].pc \in CallingPc => slot[r].pc \in CallingPc
          /\ slot'[r].pc \in BirthPc =>
                slot[r].pc \in BirthPc /\ (slot'[r].pc = "cpark" <=> slot[r].pc = "cpark")
      BY <1>1
    <2>3. /\ slot'[r].pc \in DelegatingPc \cup CallingPc =>
                slot'[r].child \in Task /\ slot'[r].child \notin fresh'
          /\ slot'[r].pc \in DelegatingPc => state'[slot'[r].child] = Absent
          /\ slot'[r].pc \in CallingPc =>
                rpc'[slot'[r].child] # "none" /\ state'[slot'[r].child] # Absent
      BY <1>4, <2>1, <2>2 DEF ChildOk
    <2>4. ASSUME slot'[r].pc \in BirthPc
          PROVE  /\ heap'[slot'[r].child] = 0
                 /\ \/ Over(slot[r].child)'
                    \/ slot'[r].pc = "cpark" /\ state'[slot'[r].child] = "Running"
                    \/ slot'[r].pc # "cpark" /\ state'[slot'[r].child] = "Queued"
                 /\ \A q \in Slot : slot'[q].task # slot'[r].child
                 /\ \A c \in Task : ~Linked(slot[r].child, c)'
      <3>1. /\ slot[r].pc \in BirthPc /\ slot'[r].child = slot[r].child /\ slot[r].child \in Task
            /\ slot[r].child # t
        BY <2>1, <2>2, <2>4 DEF ChildOk, CallingPc
      <3>2. state'[slot[r].child] = state[slot[r].child]
        BY <1>2, <3>1
      <3>3. Over(slot[r].child)' <=> Over(slot[r].child)
        BY <3>1, <3>2 DEF Over
      <3>4. \A c \in Task : ~Linked(slot[r].child, c)'
        BY <1>3, <2>1, <3>1 DEF ChildOk
      <3> QED BY <2>1, <2>2, <2>4, <3>1, <3>2, <3>3, <3>4 DEF ChildOk
    <2> QED BY <2>3, <2>4 DEF ChildOk
  <1>7. ASSUME NEW r \in Slot
        PROVE  CallerOk(r)'
    <2>1. CallerOk(r) /\ slot[r].caller \in Slot \cup {None}
      BY SlotFields DEF Core
    <2> QED BY <1>1, <2>1 DEF CallerOk
  <1>8. ASSUME NEW r \in Slot, NEW q \in Slot
        PROVE  PairOk(r, q)'
    <2>1. PairOk(r, q)
      BY DEF Core
    <2> QED BY <1>1, <1>3, <2>1 DEF PairOk
  <1>9. ASSUME NEW u \in Task
        PROVE  TaskOk(u)'
    <2>1. TaskOk(u)
      BY DEF Core
    <2>2. heap[u] = 1 => Over(u)' \/ (state'[u] = "Queued" /\ \A r \in Slot : ~Owns(r, u))
      BY <1>2, <1>4, <2>1 DEF TaskOk
    <2> QED BY <1>3, <1>4, <2>1, <2>2 DEF TaskOk
  <1>10. ASSUME NEW w \in Task, NEW c \in Task
         PROVE  PlaceOk(w, c)' /\ LinkOk(w, c)'
    <2>1. PlaceOk(w, c) /\ LinkOk(w, c)
      BY DEF Core
    <2>2. PlaceOk(w, c)'
      BY <1>3, <2>1 DEF PlaceOk
    <2>3. ASSUME Linked(w, c)'
          PROVE  \A r \in Slot : Owns(r, w)' => slot'[r].pc \notin {"begin", "setup"}
      BY <1>1, <1>3, <2>1, <2>3 DEF LinkOk
    <2>4. ASSUME Linked(w, c)', ~Over(w)'
          PROVE  /\ state'[w] = "Waiting" \/ \E r \in Slot : Owns(r, w)' /\ slot'[r].pc \in {"child", "park"}
                 /\ \A r \in Slot : Owns(r, w)' => slot'[r].pc \in DelegatingPc /\ slot'[r].child = c
                 /\ \A d \in Task : Linked(w, d)' => c = d
      <3>1. Linked(w, c) /\ ~Over(w)
        BY <1>3, <1>4, <2>4
      <3>2. CASE w = t /\ Owns(s, t)
        <4>1. slot[s].pc \in DelegatingPc /\ slot[s].child = c
          BY <2>1, <3>1, <3>2 DEF LinkOk
        <4>2. e.pc \in DelegatingPc /\ e.child = c /\ (e.pc \in {"child", "park"} \/ v = "Waiting")
          BY <1>2, <2>4, <3>2, <4>1 DEF Over
        <4>3. Owns(s, w)'
          BY <1>1, <3>2, <4>2 DEF Owns, OwningPc, DelegatingPc
        <4> QED BY <1>1, <1>2, <1>3, <2>1, <3>1, <3>2, <4>2, <4>3 DEF LinkOk
      <3>3. CASE ~(w = t /\ Owns(s, t))
        <4>1. state'[w] = state[w] /\ ~Owns(s, w)
          BY <1>2, <3>3 DEF Owns
        <4>2. \A r \in Slot : Owns(r, w) <=> Owns(r, w)'
          BY <1>1, <1>3, <4>1 DEF Owns
        <4> QED BY <1>1, <1>3, <2>1, <3>1, <4>1, <4>2 DEF LinkOk
      <3> QED BY <3>2, <3>3
    <2> QED BY <2>2, <2>3, <2>4 DEF LinkOk
  <1>11. CheckerOk'
    BY <1>4 DEF CheckerOk, Core, TypeOK
  <1> QED BY <1>5, <1>6, <1>7, <1>8, <1>9, <1>10, <1>11 DEF Core

LEMMA TaskOfSlot ==
  ASSUME TypeOK, Core, NEW s \in Slot, slot[s].pc # "free"
  PROVE  /\ slot[s].task \in Task /\ slot[s].task # None
         /\ state[slot[s].task] \in TaskState /\ slot[s].left = 0
  <1>1. SelfOk(s) /\ slot[s].task \in Task \cup {None}
    BY SlotFields DEF Core
  <1>2. slot[s].task \in Task /\ slot[s].task # None /\ state[slot[s].task] # Absent
    BY <1>1 DEF SelfOk
  <1> QED BY <1>1, <1>2 DEF SelfOk, TypeOK, MaybeState

(* The owner of a task goes on with the same child.                        *)
LEMMA OwnerGoes ==
  ASSUME TypeOK, Core, NEW s \in Slot, NEW l \in Pc, Goto(s, l),
         slot[s].pc \in OwningPc \ {"await"}, ~slot[s].parked,
         NEW v \in TaskState, state' = [state EXCEPT ![slot[s].task] = v],
         UNCHANGED <<heap, waits, checker, fresh, origin>>,
         \A c \in Task : rpc'[c] = "none" <=> rpc[c] = "none",
         Over(slot[s].task) => v = state[slot[s].task],
         l \notin {"free", "begin", "await", "wake", "enqueue"}, l = "setup" => slot[s].pc = "begin",
         l \in OwningPc => v \in Terminal \/ v = Expected(l),
         l \in EndingPc => v \in Terminal,
         l \in DelegatingPc \cup {"act"} \/ slot[s].pc \notin DelegatingPc,
         l \in DelegatingPc => slot[s].pc \in DelegatingPc,
         slot[s].pc \notin DelegatingPc \/ l \in {"child", "park"},
         l \in CallingPc => slot[s].pc \in CallingPc,
         l \in BirthPc => slot[s].pc \in BirthPc /\ (l = "cpark" <=> slot[s].pc = "cpark")
  PROVE  Core'
  <1> DEFINE e == [slot[s] EXCEPT !.pc = l]
  <1>1. /\ slot[s] \in Execution /\ slot[s].task \in Task /\ slot[s].left = 0
        /\ slot[s].pc # "wake" /\ slot[s].pc # "await"
    BY SlotFields, TaskOfSlot DEF OwningPc, DelegatingPc, CallingPc, BirthPc
  <1>2. /\ e \in Execution /\ e.pc = l /\ e.task = slot[s].task /\ e.caller = slot[s].caller
        /\ e.left = 0 /\ e.parked = slot[s].parked /\ e.child = slot[s].child
    BY <1>1 DEF Execution
  <1>3. slot' = [slot EXCEPT ![s] = e]
    BY <1>1 DEF Goto
  <1>4. Owns(s, slot[s].task)
    BY DEF Owns
  <1> HIDE DEF e
  <1> QED BY <1>1, <1>2, <1>3, <1>4, SlotStep

LEMMA OwnedState ==
  ASSUME TypeOK, Core, NEW s \in Slot, slot[s].pc \in OwningPc, slot[s].pc # "act" \/ ~slot[s].parked
  PROVE  /\ slot[s].task \in Task /\ state[slot[s].task] \in TaskState
         /\ Owns(s, slot[s].task)
         /\ state[slot[s].task] \in Terminal \/ state[slot[s].task] = Expected(slot[s].pc)
         /\ slot[s].pc \notin {"enqueue", "act"} => ~slot[s].parked
  <1>1. slot[s].pc # "free"
    BY DEF OwningPc, DelegatingPc, CallingPc, BirthPc
  <1>2. Owns(s, slot[s].task) /\ SelfOk(s)
    BY DEF Owns, Core
  <1> QED BY <1>1, <1>2, TaskOfSlot DEF SelfOk, Over

LEMMA SameState ==
  ASSUME TypeOK, NEW t \in Task, state' = state
  PROVE  state' = [state EXCEPT ![t] = state[t]]
  BY DEF TypeOK

(* The steps of a loop that leave the state of the task alone.             *)
LEMMA LoopSteps ==
  ASSUME TypeOK, Core, NEW s \in Slot,
         \/ Setup(s) \/ Abort(s) \/ Quit(s) \/ Answer(s)
         \/ DelegateChild(s) \/ SpawnAdopt(s) \/ CallChild(s) \/ CallHear(s)
  PROVE  Core'
  <1>1. PICK l \in {"turn", "fail", "done", "park", "act", "cstart"} :
           /\ Goto(s, l) /\ UNCHANGED <<state, heap, waits, checker, fresh, origin, rpc>>
           /\ \/ slot[s].pc = "setup" /\ l = "turn"
              \/ slot[s].pc = "turn" /\ l \in {"fail", "done"}
              \/ slot[s].pc = "child" /\ l = "park"
              \/ slot[s].pc \in {"adopt", "hear"} /\ l = "act"
              \/ slot[s].pc = "cchild" /\ l = "cstart"
    BY DEF Setup, Abort, Quit, Answer, DelegateChild, SpawnAdopt, CallChild, CallHear, RegisterChild,
           At, schedVars, ctxVars, runVars
  <1>2. /\ l \in Pc
        /\ slot[s].pc \in {"setup", "turn", "child", "adopt", "hear", "cchild"}
        /\ slot[s].pc \in OwningPc /\ slot[s].pc \notin {"await", "act", "enqueue"}
    BY <1>1 DEF Pc, OwningPc, DelegatingPc, CallingPc, BirthPc
  <1>3. /\ slot[s].task \in Task /\ ~slot[s].parked /\ state[slot[s].task] \in TaskState
        /\ state[slot[s].task] \in Terminal \/ state[slot[s].task] = Expected(slot[s].pc)
    BY <1>2, OwnedState
  <1>4. state' = [state EXCEPT ![slot[s].task] = state[slot[s].task]]
    BY <1>1, <1>3, SameState
  <1>5. /\ l \notin {"free", "begin", "setup", "await", "wake", "enqueue"} /\ l \notin EndingPc
        /\ l \in OwningPc => Expected(l) = Expected(slot[s].pc)
        /\ l \in DelegatingPc \cup {"act"} \/ slot[s].pc \notin DelegatingPc
        /\ l \in DelegatingPc => slot[s].pc \in DelegatingPc
        /\ slot[s].pc \notin DelegatingPc \/ l \in {"child", "park"}
        /\ l \in CallingPc => slot[s].pc \in CallingPc
        /\ l \in BirthPc => slot[s].pc \in BirthPc /\ (l = "cpark" <=> slot[s].pc = "cpark")
    BY <1>1 DEF EndingPc, DelegatingPc, CallingPc, BirthPc, Expected
  <1> QED BY <1>1, <1>2, <1>3, <1>4, <1>5, OwnerGoes

(* The steps of a loop that give the task a state.                         *)
LEMMA StateSteps ==
  ASSUME TypeOK, Core, NEW s \in Slot,
         \/ Begin(s) /\ ~Over(slot[s].task)
         \/ CallBack(s) \/ Fail(s)
         \/ Failing(s) /\ ~Over(slot[s].task)
  PROVE  Core'
  <1> DEFINE t == slot[s].task
  <1>1. UNCHANGED <<heap, waits, checker, fresh, origin, rpc>>
    BY DEF Begin, CallBack, Fail, Failing, schedVars, runVars
  <1>2. slot[s].pc \in OwningPc /\ slot[s].pc \in {"begin", "back", "fail", "failing"}
    BY DEF Begin, CallBack, Fail, Failing, At, OwningPc, DelegatingPc, CallingPc, BirthPc
  <1>3. /\ t \in Task /\ ~slot[s].parked /\ state[t] \in TaskState
        /\ state[t] \in Terminal \/ state[t] = Expected(slot[s].pc)
    BY <1>2, OwnedState
  <1>4. CASE CallBack(s)
    <2> DEFINE v == IF state[t] \in Terminal THEN state[t] ELSE "Running"
    <2>1. Goto(s, "hear") /\ state' = [state EXCEPT ![t] = v] /\ slot[s].pc = "back"
      BY <1>4, <1>3 DEF CallBack, UpdateIfNotTerminal, At, TypeOK
    <2>2. v \in TaskState /\ (v \in Terminal \/ v = Expected("hear"))
      BY <1>3 DEF TaskState, Expected
    <2>3. Over(t) => v = state[t]
      BY DEF Over
    <2> HIDE DEF v
    <2>4. /\ "hear" \in Pc /\ "hear" \notin EndingPc /\ "hear" \notin DelegatingPc
          /\ slot[s].pc \notin DelegatingPc /\ slot[s].pc \in CallingPc /\ "hear" \notin BirthPc
      BY <2>1 DEF Pc, EndingPc, DelegatingPc, CallingPc, BirthPc
    <2> QED BY <1>1, <1>2, <1>3, <2>1, <2>2, <2>3, <2>4, OwnerGoes
  <1>5. CASE Fail(s)
    <2>1. Goto(s, "failing") /\ state' = [state EXCEPT ![t] = state[t]] /\ slot[s].pc = "fail"
      BY <1>5, <1>3, SameState DEF Fail, Expected, Parked, Terminal, At, schedVars
    <2>2. state[t] \in Terminal \/ state[t] = Expected("failing")
      BY <1>3, <2>1 DEF Expected
    <2>3. /\ "failing" \in Pc /\ "failing" \notin EndingPc \cup DelegatingPc \cup CallingPc
          /\ slot[s].pc \notin DelegatingPc /\ "failing" \notin BirthPc
      BY <2>1 DEF Pc, EndingPc, DelegatingPc, CallingPc, BirthPc
    <2> QED BY <1>1, <1>2, <1>3, <2>1, <2>2, <2>3, OwnerGoes
  <1>6. CASE Failing(s) /\ ~Over(t)
    <2>1. Goto(s, "inject") /\ state' = [state EXCEPT ![t] = "Failed"] /\ slot[s].pc = "failing"
      BY <1>6, <1>3 DEF Failing, GotoOrEnd, Goto, UpdateIfNotTerminal, Over, At, TypeOK
    <2>2. "Failed" \in TaskState /\ "Failed" \in Terminal
      BY DEF TaskState, Terminal
    <2>3. /\ "inject" \in Pc /\ "inject" \notin OwningPc \cup DelegatingPc \cup CallingPc
          /\ slot[s].pc \notin DelegatingPc /\ "inject" \notin BirthPc
      BY <2>1 DEF Pc, OwningPc, DelegatingPc, CallingPc, BirthPc
    <2> QED BY <1>1, <1>2, <1>3, <1>6, <2>1, <2>2, <2>3, OwnerGoes
  <1>7. CASE Begin(s) /\ ~Over(t)
    <2>1. Goto(s, "setup") /\ state' = [state EXCEPT ![t] = "Running"] /\ slot[s].pc = "begin"
      BY <1>7, <1>3 DEF Begin, GotoOrEnd, Goto, UpdateIfNotTerminal, Over, At, TypeOK
    <2>2. "Running" \in TaskState /\ "Running" = Expected("setup")
      BY DEF TaskState, Expected
    <2>3. /\ "setup" \in Pc /\ "setup" \notin EndingPc \cup DelegatingPc \cup CallingPc
          /\ slot[s].pc \notin DelegatingPc /\ "setup" \notin BirthPc
      BY <2>1 DEF Pc, EndingPc, DelegatingPc, CallingPc, BirthPc
    <2> QED BY <1>1, <1>2, <1>3, <1>7, <2>1, <2>2, <2>3, OwnerGoes
  <1> QED BY <1>4, <1>5, <1>6, <1>7

(* The steps that change more of the execution than where it is.           *)
LEMMA ParkSteps ==
  ASSUME TypeOK, Core, NEW s \in Slot,
         \/ EndBatch(s) \/ ParkParent(s)
         \/ Succeed(s) /\ ~Over(slot[s].task)
         \/ Inject(s) /\ ~slot[s].ok
  PROVE  Core'
  <1> DEFINE t == slot[s].task
  <1>1. UNCHANGED <<heap, waits, checker, fresh, origin, rpc>>
    BY DEF EndBatch, ParkParent, Succeed, Inject, schedVars, ctxVars, runVars
  <1>2. slot[s].pc \in {"act", "park", "done", "inject"}
    BY DEF EndBatch, ParkParent, Succeed, Inject, At
  <1>3. /\ t \in Task /\ state[t] \in TaskState /\ slot[s].left = 0 /\ slot[s] \in Execution
        /\ Over(t) => state[t] \in Terminal
    BY <1>2, TaskOfSlot, SlotFields DEF Over
  <1>4. slot[s].pc \in OwningPc /\ (slot[s].pc # "act" \/ ~slot[s].parked) =>
           /\ Owns(s, t) /\ (state[t] \in Terminal \/ state[t] = Expected(slot[s].pc))
           /\ slot[s].pc \notin {"enqueue", "act"} => ~slot[s].parked
    BY OwnedState
  <1>5. CASE EndBatch(s)
    <2> DEFINE e == [slot[s] EXCEPT !.pc = IF slot[s].parked THEN "paused" ELSE "turn",
                                    !.left = 0, !.child = None, !.parked = FALSE]
    <2>1. slot' = [slot EXCEPT ![s] = e] /\ state' = [state EXCEPT ![t] = state[t]] /\ slot[s].pc = "act"
      BY <1>3, <1>5, SameState DEF EndBatch, At, schedVars
    <2>2. /\ e \in Execution /\ e.pc = (IF slot[s].parked THEN "paused" ELSE "turn") /\ e.task = t
          /\ e.caller = slot[s].caller /\ e.left = 0 /\ ~e.parked
      BY <1>3, BoundAssumption DEF Execution, Pc
    <2>3. /\ e.pc \notin EndingPc \cup DelegatingPc \cup CallingPc \cup BirthPc
          /\ e.pc \notin {"free", "begin", "await", "wake", "setup", "enqueue"}
          /\ slot[s].pc \notin DelegatingPc
          /\ e.pc \in OwningPc => ~slot[s].parked /\ Expected(e.pc) = Expected(slot[s].pc)
      BY <2>1, <2>2 DEF EndingPc, OwningPc, DelegatingPc, CallingPc, BirthPc, Expected
    <2>4. slot[s].pc \in OwningPc
      BY <2>1 DEF OwningPc
    <2> HIDE DEF e
    <2> QED BY <1>1, <1>3, <1>4, <2>1, <2>2, <2>3, <2>4, SlotStep
  <1>6. CASE ParkParent(s)
    <2> DEFINE v == IF state[t] \in Terminal THEN state[t] ELSE "Waiting"
               e == [slot[s] EXCEPT !.pc = "enqueue", !.parked = @ \/ state[t] \notin Terminal]
    <2>1. slot' = [slot EXCEPT ![s] = e] /\ state' = [state EXCEPT ![t] = v] /\ slot[s].pc = "park"
      BY <1>3, <1>6 DEF ParkParent, UpdateIfNotTerminal, At, TypeOK
    <2>2. /\ e \in Execution /\ e.pc = "enqueue" /\ e.task = t /\ e.caller = slot[s].caller
          /\ e.left = 0 /\ (~e.parked => state[t] \in Terminal) /\ e.child = slot[s].child
      BY <1>3 DEF Execution, Pc
    <2>3. /\ v \in TaskState /\ (v \in Terminal \/ v = "Waiting") /\ Expected("enqueue") = "Waiting"
          /\ state[t] \in Terminal => v = state[t]
      BY <1>3 DEF TaskState, Expected
    <2>4. /\ "enqueue" \notin EndingPc \cup CallingPc \cup BirthPc
          /\ slot[s].pc \in DelegatingPc /\ "enqueue" \in DelegatingPc
          /\ slot[s].pc \in OwningPc
      BY <2>1 DEF EndingPc, OwningPc, DelegatingPc, CallingPc, BirthPc
    <2> HIDE DEF e, v
    <2> QED BY <1>1, <1>3, <1>4, <2>1, <2>2, <2>3, <2>4, SlotStep
  <1>7. CASE Succeed(s) /\ ~Over(t)
    <2> DEFINE e == [slot[s] EXCEPT !.ok = TRUE, !.pc = "settle"]
    <2>1. slot' = [slot EXCEPT ![s] = e] /\ state' = [state EXCEPT ![t] = "Complete"] /\ slot[s].pc = "done"
      BY <1>3, <1>7 DEF Succeed, UpdateIfNotTerminal, At, Over, TypeOK
    <2>2. /\ e \in Execution /\ e.pc = "settle" /\ e.task = t /\ e.caller = slot[s].caller
          /\ e.left = 0 /\ e.parked = slot[s].parked /\ e.child = slot[s].child
      BY <1>3 DEF Execution, Pc
    <2>3. "Complete" \in TaskState /\ "Complete" \in Terminal
      BY DEF TaskState, Terminal
    <2>4. /\ "settle" \notin OwningPc \cup DelegatingPc \cup CallingPc \cup BirthPc
          /\ slot[s].pc \notin DelegatingPc /\ slot[s].pc \in OwningPc
      BY <2>1 DEF OwningPc, DelegatingPc, CallingPc, BirthPc
    <2> HIDE DEF e
    <2> QED BY <1>1, <1>3, <1>4, <1>7, <2>1, <2>2, <2>3, <2>4, SlotStep
  <1>8. CASE Inject(s) /\ ~slot[s].ok
    <2> DEFINE e == [slot[s] EXCEPT !.pc = "settle"]
    <2>1. slot' = [slot EXCEPT ![s] = e] /\ state' = [state EXCEPT ![t] = state[t]] /\ slot[s].pc = "inject"
      BY <1>3, <1>8, SameState DEF Inject, GotoOrEnd, At, schedVars
    <2>2. /\ e \in Execution /\ e.pc = "settle" /\ e.task = t /\ e.caller = slot[s].caller
          /\ e.left = 0 /\ e.parked = slot[s].parked /\ e.child = slot[s].child
      BY <1>3 DEF Execution, Pc
    <2>3. state[t] \in Terminal /\ ~slot[s].parked
      BY <2>1 DEF Core, SelfOk, EndingPc, Over
    <2>4. /\ "settle" \notin OwningPc \cup DelegatingPc \cup CallingPc \cup BirthPc
          /\ slot[s].pc \notin DelegatingPc
      BY <2>1 DEF OwningPc, DelegatingPc, CallingPc, BirthPc
    <2> HIDE DEF e
    <2> QED BY <1>1, <1>3, <2>1, <2>2, <2>3, <2>4, SlotStep
  <1> QED BY <1>5, <1>6, <1>7, <1>8

-----------------------------------------------------------------------------
(* An execution ends.                                                      *)

LEMMA EndSlots ==
  ASSUME TypeOK, Core, NEW s \in Slot, slot' = End(s)
  PROVE  /\ slot'[s] = Free
         /\ \A r \in Slot \ {s} :
               \/ r # slot[s].caller /\ slot'[r] = slot[r]
               \/ /\ r = slot[s].caller /\ slot[r].pc = "await" /\ slot'[r].pc = "back"
                  /\ slot'[r].task = slot[r].task /\ slot'[r].child = slot[r].child
                  /\ slot'[r].caller = slot[r].caller /\ slot'[r].todo = slot[r].todo
                  /\ slot'[r].ok = slot[r].ok /\ slot'[r].left = slot[r].left
                  /\ slot'[r].parked = slot[r].parked
  <1>1. CallerOk(s) /\ \A r \in Slot : slot[r] \in Execution
    BY SlotFields DEF Core
  <1>2. \A r \in Slot : slot'[r] = IF r = s THEN Free
                                   ELSE IF r = slot[s].caller THEN [slot[r] EXCEPT !.pc = "back"]
                                   ELSE slot[r]
    BY DEF End
  <1>3. \A r \in Slot : r = slot[s].caller => slot[r].pc = "await"
    BY <1>1, Names DEF CallerOk
  <1> QED BY <1>1, <1>2, <1>3 DEF Execution

LEMMA FreeFields ==
  /\ Free.pc = "free" /\ Free.task = None /\ Free.child = None /\ Free.caller = None
  /\ Free.todo = {} /\ Free.ok = FALSE /\ Free.left = 0 /\ Free.parked = FALSE
  /\ Free \in Execution
  BY BoundAssumption DEF Free, Execution, Pc

LEMMA EndViews ==
  ASSUME TypeOK, Core, NEW s \in Slot, slot' = End(s), UNCHANGED <<waits, checker>>,
         slot[s].pc # "wake"
  PROVE  /\ \A r \in Slot, t \in Task : Owns(r, t)' <=> r # s /\ Owns(r, t)
         /\ \A r \in Slot, c \in Task : Holds(r, c)' <=> r # s /\ Holds(r, c)
         /\ \A w, c \in Task : Edge(w, c)' <=> Edge(w, c)
         /\ \A w, c \in Task : CheckerToWake(w, c)' <=> CheckerToWake(w, c)
         /\ \A r \in Slot, w, c \in Task : ToWake(r, w, c)' <=> ToWake(r, w, c)
         /\ \A w, c \in Task : Linked(w, c)' <=> Linked(w, c)
  <1>1. ASSUME NEW r \in Slot, NEW t \in Task
        PROVE  Owns(r, t)' <=> r # s /\ Owns(r, t)
    BY EndSlots, FreeFields DEF Owns, OwningPc, DelegatingPc, CallingPc, BirthPc
  <1>2. ASSUME NEW r \in Slot, NEW c \in Task
        PROVE  Holds(r, c)' <=> r # s /\ Holds(r, c)
    BY EndSlots, FreeFields DEF Holds, DelegatingPc, CallingPc, BirthPc
  <1>3. ASSUME NEW r \in Slot, NEW w \in Task, NEW c \in Task
        PROVE  ToWake(r, w, c)' <=> ToWake(r, w, c)
    BY EndSlots, FreeFields DEF ToWake
  <1>4. \A w, c \in Task : Edge(w, c)' <=> Edge(w, c)
    BY DEF Edge
  <1>5. \A w, c \in Task : CheckerToWake(w, c)' <=> CheckerToWake(w, c)
    BY DEF CheckerToWake
  <1>6. \A w, c \in Task : Linked(w, c)' <=> Linked(w, c)
    BY <1>3, <1>4, <1>5 DEF Linked
  <1> QED BY <1>1, <1>2, <1>3, <1>4, <1>5, <1>6

LEMMA EndStep ==
  ASSUME TypeOK, Core, NEW s \in Slot, slot' = End(s),
         UNCHANGED <<state, heap, waits, checker, fresh, origin>>,
         \A c \in Task : rpc'[c] = "none" <=> rpc[c] = "none",
         slot[s].pc \notin {"wake", "await"} \cup DelegatingPc
  PROVE  Core'
  <1>1. /\ slot'[s] = Free
        /\ \A r \in Slot \ {s} :
              \/ r # slot[s].caller /\ slot'[r] = slot[r]
              \/ /\ r = slot[s].caller /\ slot[r].pc = "await" /\ slot'[r].pc = "back"
                 /\ slot'[r].task = slot[r].task /\ slot'[r].child = slot[r].child
                 /\ slot'[r].caller = slot[r].caller /\ slot'[r].todo = slot[r].todo
                 /\ slot'[r].ok = slot[r].ok /\ slot'[r].left = slot[r].left
                 /\ slot'[r].parked = slot[r].parked
    BY EndSlots
  <1>2. /\ \A r \in Slot, t \in Task : Owns(r, t)' <=> r # s /\ Owns(r, t)
        /\ \A r \in Slot, c \in Task : Holds(r, c)' <=> r # s /\ Holds(r, c)
        /\ \A w, c \in Task : Edge(w, c)' <=> Edge(w, c)
        /\ \A w, c \in Task : CheckerToWake(w, c)' <=> CheckerToWake(w, c)
        /\ \A r \in Slot, w, c \in Task : ToWake(r, w, c)' <=> ToWake(r, w, c)
        /\ \A w, c \in Task : Linked(w, c)' <=> Linked(w, c)
    BY EndViews
  <1>3. \A u : Over(u)' <=> Over(u)
    BY DEF Over
  <1>4. ASSUME NEW r \in Slot
        PROVE  SelfOk(r)'
    <2>1. SelfOk(r)
      BY DEF Core
    <2>2. CASE r = s
      BY <1>1, <2>2, FreeFields DEF SelfOk, EndingPc, Owns, OwningPc, DelegatingPc, CallingPc, BirthPc
    <2>3. CASE r # s /\ slot'[r] = slot[r]
      BY <2>1, <2>3 DEF SelfOk, Over, Owns
    <2>4. CASE r # s /\ r = slot[s].caller
      BY <1>1, <2>1, <2>4 DEF SelfOk, Over, Owns, OwningPc, CallingPc, EndingPc, Expected
    <2> QED BY <1>1, <2>2, <2>3, <2>4
  <1>5. ASSUME NEW r \in Slot
        PROVE  ChildOk(r)'
    <2>1. ChildOk(r)
      BY DEF Core
    <2>2. CASE r = s
      BY <1>1, <2>2, FreeFields DEF ChildOk, DelegatingPc, CallingPc, BirthPc
    <2>3. CASE r # s /\ slot'[r] = slot[r]
      <3>1. slot[r].pc \in BirthPc => \A q \in Slot : slot'[q].task # slot[r].child
        <4>1. slot[r].pc \in BirthPc => slot[r].child \in Task
          BY <2>1 DEF ChildOk, CallingPc
        <4> QED BY <1>1, <2>1, <4>1, FreeFields, Names DEF ChildOk
      <3>2. slot[r].pc \in BirthPc => slot[r].child \in Task /\ \A c \in Task : ~Linked(slot[r].child, c)
        BY <2>1 DEF ChildOk, CallingPc
      <3>3. slot[r].pc \in BirthPc => \A c \in Task : ~Linked(slot[r].child, c)'
        BY <1>2, <2>3, <3>2
      <3>4. slot[r].pc \in CallingPc => slot[r].child \in Task
        BY <2>1 DEF ChildOk
      <3> QED BY <2>1, <2>3, <3>1, <3>3, <3>4 DEF ChildOk, Over
    <2>4. CASE r # s /\ r = slot[s].caller
      BY <1>1, <2>1, <2>4 DEF ChildOk, DelegatingPc, CallingPc, BirthPc
    <2> QED BY <1>1, <2>2, <2>3, <2>4
  <1>6. ASSUME NEW r \in Slot
        PROVE  CallerOk(r)'
    <2>1. CASE r = s
      BY <1>1, <2>1, FreeFields DEF CallerOk
    <2>2. CASE r # s
      <3>1. CallerOk(r) /\ PairOk(r, s) /\ slot[r].caller \in Slot \cup {None} /\ slot'[r].caller = slot[r].caller
        BY <1>1, <2>2, SlotFields DEF Core
      <3>2. slot[r].caller # None => slot[r].caller # slot[s].caller /\ slot[r].caller # s
        BY <2>2, <3>1 DEF PairOk, CallerOk
      <3>3. slot[r].caller # None => slot'[slot[r].caller] = slot[slot[r].caller]
        BY <1>1, <3>1, <3>2
      <3>4. slot'[r].task = slot[r].task /\ (slot'[r].pc = slot[r].pc \/ slot'[r].pc = "back")
        BY <1>1, <2>2
      <3> QED BY <3>1, <3>3, <3>4 DEF CallerOk
    <2> QED BY <2>1, <2>2
  <1>7. ASSUME NEW r \in Slot, NEW q \in Slot
        PROVE  PairOk(r, q)'
    <2>1. PairOk(r, q)
      BY DEF Core
    <2>2. slot'[r].caller \in {slot[r].caller, None} /\ slot'[q].caller \in {slot[q].caller, None}
      BY <1>1, FreeFields
    <2> QED BY <1>2, <2>1, <2>2 DEF PairOk
  <1>8. ASSUME NEW u \in Task
        PROVE  TaskOk(u)'
    <2>1. TaskOk(u)
      BY DEF Core
    <2> QED BY <1>2, <1>3, <2>1 DEF TaskOk
  <1>9. ASSUME NEW w \in Task, NEW c \in Task
        PROVE  PlaceOk(w, c)' /\ LinkOk(w, c)'
    <2>1. PlaceOk(w, c) /\ LinkOk(w, c)
      BY DEF Core
    <2>2. PlaceOk(w, c)'
      BY <1>2, <2>1 DEF PlaceOk
    <2>3. \A r \in Slot : Owns(r, w)' /\ Linked(w, c) => slot'[r].pc \notin {"begin", "setup"}
      BY <1>1, <1>2, <2>1 DEF LinkOk
    <2>4. ASSUME Linked(w, c), ~Over(w)
          PROVE  \A r \in Slot : Owns(r, w)' =>
                    slot'[r].pc \in DelegatingPc /\ slot'[r].child = c /\ slot'[r].pc = slot[r].pc
      BY <1>1, <1>2, <2>1, <2>4 DEF LinkOk, DelegatingPc
    <2>5. ASSUME Linked(w, c), ~Over(w), NEW r \in Slot, Owns(r, w), slot[r].pc \in {"child", "park"}
          PROVE  Owns(r, w)' /\ slot'[r].pc \in {"child", "park"}
      BY <1>1, <1>2, <2>5 DEF DelegatingPc
    <2>6. ASSUME Linked(w, c)', ~Over(w)'
          PROVE  /\ state'[w] = "Waiting" \/ \E r \in Slot : Owns(r, w)' /\ slot'[r].pc \in {"child", "park"}
                 /\ \A d \in Task : Linked(w, d)' => c = d
      BY <1>2, <1>3, <2>1, <2>5, <2>6 DEF LinkOk
    <2> QED BY <1>2, <1>3, <2>2, <2>3, <2>4, <2>6 DEF LinkOk
  <1>10. CheckerOk'
    BY <1>3 DEF CheckerOk, Core
  <1> QED BY <1>4, <1>5, <1>6, <1>7, <1>8, <1>9, <1>10 DEF Core

LEMMA EndSteps ==
  ASSUME TypeOK, Core, NEW s \in Slot,
         \/ Begin(s) /\ Over(slot[s].task)
         \/ Succeed(s) /\ Over(slot[s].task)
         \/ Failing(s) /\ Over(slot[s].task)
         \/ Pause(s)
         \/ Inject(s) /\ slot[s].ok
         \/ Close(s)
  PROVE  Core'
  <1>1. /\ slot' = End(s) /\ UNCHANGED <<heap, waits, checker, fresh, origin>>
        /\ slot[s].pc \in {"begin", "done", "failing", "paused", "inject", "close"}
    BY DEF Begin, Succeed, Failing, Pause, Inject, Close, GotoOrEnd, Over, At, schedVars, ctxVars, runVars
  <1>2. \A c \in Task : rpc'[c] = "none" <=> rpc[c] = "none"
    BY DEF Begin, Succeed, Failing, Pause, Inject, Close, CompleteCall, TypeOK
  <1>3. state' = state
    BY <1>1, TaskOfSlot DEF Begin, Succeed, Failing, Pause, Inject, Close, UpdateIfNotTerminal, Over,
          schedVars, TypeOK
  <1>4. slot[s].pc \notin {"wake", "await"} \cup DelegatingPc
    BY <1>1 DEF DelegatingPc
  <1> QED BY <1>1, <1>2, <1>3, <1>4, EndStep

-----------------------------------------------------------------------------
(* Tool calls, when an answer has one.                                     *)

LEMMA NewTask ==
  ASSUME TypeOK, Core, NEW c \in Task, c \in fresh \/ state[c] = Absent
  PROVE  /\ state[c] = Absent /\ heap[c] = 0 /\ ~Over(c)
         /\ \A s \in Slot : slot[s].task # c /\ ~Owns(s, c)
         /\ \A d \in Task : ~Linked(c, d)
         /\ \A w \in Task : ~CheckerToWake(w, c) /\ \A s \in Slot : ~ToWake(s, w, c)
         /\ c \in fresh => \A s \in Slot : ~Holds(s, c)
         /\ c \in fresh => rpc[c] = "none" /\ \A w \in Task : ~Edge(w, c) /\ ~Linked(w, c)
  <1>1. TaskOk(c)
    BY DEF Core
  <1>2. state[c] = Absent /\ heap[c] = 0 /\ ~Over(c)
    BY <1>1, Names DEF TaskOk, Over
  <1>3. \A s \in Slot : slot[s].task # c
    BY <1>2, Names DEF Core, SelfOk
  <1>4. \A s \in Slot : ~Owns(s, c)
    BY <1>3 DEF Owns
  <1>5. \A w \in Task : ~CheckerToWake(w, c) /\ \A s \in Slot : ~ToWake(s, w, c)
    BY <1>2, <1>3 DEF CheckerToWake, ToWake, Core, CheckerOk
  <1>6. c \in fresh => \A s \in Slot : ~Holds(s, c)
    BY DEF Holds, Core, ChildOk
  <1>7. c \in fresh => rpc[c] = "none" /\ \A w \in Task : ~Edge(w, c) /\ ~Linked(w, c)
    BY <1>1, <1>5 DEF TaskOk, Linked
  <1> QED BY <1>1, <1>2, <1>3, <1>4, <1>5, <1>6, <1>7 DEF TaskOk

LEMMA ToolCallViews ==
  ASSUME TypeOK, Core, MaxCalls \in {0, 1}, NEW s \in Slot, NEW c \in Task,
         NEW l \in {"child", "adopt", "cchild"}, ToolCall(s, c, l)
  PROVE  /\ slot[s].pc = "turn" /\ slot[s].task \in Task /\ Owns(s, slot[s].task) /\ ~slot[s].parked
         /\ c \in fresh /\ c # slot[s].task /\ state[slot[s].task] # Absent
         /\ Over(slot[s].task) \/ state[slot[s].task] = "Running"
         /\ slot'[s].pc = l /\ slot'[s].child = c /\ slot'[s].task = slot[s].task
         /\ slot'[s].caller = slot[s].caller /\ slot'[s].left = 0 /\ ~slot'[s].parked
         /\ slot'[s].ok = slot[s].ok
         /\ slot' \in [Slot -> Execution]
         /\ \A r \in Slot \ {s} : slot'[r] = slot[r]
         /\ \A r \in Slot, t \in Task : Owns(r, t)' <=> Owns(r, t)
         /\ \A r \in Slot, d \in Task : Holds(r, d)' => Holds(r, d) \/ (r = s /\ d = c)
         /\ \A r \in Slot, w, d \in Task : ToWake(r, w, d)' <=> ToWake(r, w, d)
         /\ \A w, d \in Task : CheckerToWake(w, d)' <=> CheckerToWake(w, d)
         /\ fresh' = fresh \ {c} /\ origin'[c] = slot[s].task
         /\ \A d \in Task \ {c} : origin'[d] = origin[d]
  <1>1. slot[s].left = 0 \/ slot[s].pc = "free"
    BY TaskOfSlot
  <1>2. slot[s].pc = "turn" /\ MaxCalls = 1
    BY <1>1, BoundAssumption DEF ToolCall, At
  <1>3. slot[s].pc \in OwningPc
    BY <1>2 DEF OwningPc
  <1>4. /\ slot[s].task \in Task /\ Owns(s, slot[s].task) /\ ~slot[s].parked
        /\ state[slot[s].task] # Absent
        /\ Over(slot[s].task) \/ state[slot[s].task] = "Running"
    BY <1>2, <1>3, OwnedState DEF Expected, Over, TaskState, Absent
  <1> DEFINE e == [slot[s] EXCEPT !.pc = l, !.child = c, !.left = 0]
  <1>5. slot' = [slot EXCEPT ![s] = e]
    <2>1. (IF At(s, "turn") THEN MaxCalls - 1 ELSE slot[s].left - 1) = 0
      BY <1>2 DEF At
    <2>2. slot' = [slot EXCEPT ![s].pc = l, ![s].child = c, ![s].left = 0]
      BY <2>1, SlotFields DEF ToolCall, Execution, TypeOK
    <2> QED BY <2>2, SlotFields DEF Execution, TypeOK
  <1>6. /\ e.pc = l /\ e.child = c /\ e.task = slot[s].task /\ e.caller = slot[s].caller
        /\ e.left = 0 /\ ~e.parked /\ e.ok = slot[s].ok /\ e \in Execution
    <2>1. l \in Pc /\ 0 \in 0..MaxCalls /\ slot[s] \in Execution
      BY <1>2, SlotFields DEF Pc
    <2> QED BY <1>4, <2>1 DEF Execution
  <1> HIDE DEF e
  <1>7. slot'[s] = e /\ (\A r \in Slot \ {s} : slot'[r] = slot[r]) /\ slot' \in [Slot -> Execution]
    BY <1>5, <1>6 DEF TypeOK
  <1>8. c \in fresh /\ fresh' = fresh \ {c} /\ origin' = [origin EXCEPT ![c] = slot[s].task] /\ checker' = checker
    BY DEF ToolCall
  <1>9. c # slot[s].task
    BY <1>8, NewTask
  <1>10. l \in OwningPc /\ l # "act" /\ l # "wake" /\ slot[s].pc \notin {"act", "wake"}
    BY <1>2 DEF OwningPc, DelegatingPc, CallingPc, BirthPc
  <1>11. \A r \in Slot, t \in Task : Owns(r, t)' <=> Owns(r, t)
    BY <1>3, <1>6, <1>7, <1>10 DEF Owns
  <1>12. \A r \in Slot, d \in Task : Holds(r, d)' => Holds(r, d) \/ (r = s /\ d = c)
    BY <1>6, <1>7 DEF Holds
  <1>13. \A r \in Slot, w, d \in Task : ToWake(r, w, d)' <=> ToWake(r, w, d)
    BY <1>6, <1>7, <1>10 DEF ToWake
  <1>14. \A w, d \in Task : CheckerToWake(w, d)' <=> CheckerToWake(w, d)
    BY <1>8 DEF CheckerToWake
  <1> QED BY <1>2, <1>4, <1>6, <1>7, <1>8, <1>9, <1>11, <1>12, <1>13, <1>14 DEF TypeOK

(* What a tool call leaves to show: what it does with the new task c.      *)
LEMMA ToolCallStep ==
  ASSUME TypeOK, Core, MaxCalls \in {0, 1}, NEW s \in Slot, NEW c \in Task,
         NEW l \in {"child", "adopt", "cchild"}, ToolCall(s, c, l),
         \A d \in Task \ {c} :
            state'[d] = state[d] /\ heap'[d] = heap[d] /\ (rpc'[d] = "none" <=> rpc[d] = "none"),
         \A w, d \in Task : Edge(w, d)' <=> Edge(w, d) \/ (l = "child" /\ w = slot[s].task /\ d = c),
         l = "child" => state'[c] = Absent /\ heap'[c] = 0 /\ rpc'[c] = "none",
         l = "cchild" => state'[c] = "Queued" /\ heap'[c] = 0 /\ rpc'[c] # "none",
         l = "adopt" => /\ rpc'[c] = "none"
                        /\ \/ state'[c] = "Failed" /\ heap'[c] = 0
                           \/ state'[c] = "Queued" /\ heap'[c] = 1
  PROVE  Core'
  <1> DEFINE t == slot[s].task
  <1>1. /\ slot[s].pc = "turn" /\ t \in Task /\ Owns(s, t) /\ ~slot[s].parked
        /\ c \in fresh /\ c # t /\ state[t] # Absent
        /\ Over(t) \/ state[t] = "Running"
        /\ slot'[s].pc = l /\ slot'[s].child = c /\ slot'[s].task = t
        /\ slot'[s].caller = slot[s].caller /\ slot'[s].left = 0 /\ ~slot'[s].parked
        /\ \A r \in Slot \ {s} : slot'[r] = slot[r]
        /\ fresh' = fresh \ {c} /\ origin'[c] = slot[s].task
        /\ \A d \in Task \ {c} : origin'[d] = origin[d]
    BY ToolCallViews
  <1>2. /\ \A r \in Slot, u \in Task : Owns(r, u)' <=> Owns(r, u)
        /\ \A r \in Slot, d \in Task : Holds(r, d)' => Holds(r, d) \/ (r = s /\ d = c)
        /\ \A r \in Slot, w, d \in Task : ToWake(r, w, d)' <=> ToWake(r, w, d)
        /\ \A w, d \in Task : CheckerToWake(w, d)' <=> CheckerToWake(w, d)
    BY ToolCallViews
  <1>3. \A w, d \in Task : Linked(w, d)' <=> Linked(w, d) \/ (l = "child" /\ w = t /\ d = c)
    BY <1>2 DEF Linked
  <1>4. /\ state[c] = Absent /\ heap[c] = 0 /\ ~Over(c)
        /\ \A r \in Slot : slot[r].task # c /\ ~Owns(r, c) /\ ~Holds(r, c)
        /\ \A d \in Task : ~Linked(c, d)
        /\ \A w \in Task : ~CheckerToWake(w, c) /\ (\A r \in Slot : ~ToWake(r, w, c)) /\ ~Linked(w, c)
    BY <1>1, NewTask
  <1>5. /\ \A d \in Task \ {c} : Over(d)' <=> Over(d)
        /\ l \in {"child", "cchild"} => ~Over(c)'
    BY DEF Over, Absent, Terminal
  <1>6. ASSUME NEW r \in Slot
        PROVE  SelfOk(r)'
    <2>1. SelfOk(r) /\ slot[r].task \in Task \cup {None} /\ slot[r].task # c
      BY <1>4, SlotFields DEF Core
    <2>2. CASE r = s
      BY <1>1, <1>5, <2>1, <2>2, Names DEF SelfOk, Over, EndingPc, Expected
    <2>3. CASE r # s
      <3>1. slot'[r] = slot[r]
        BY <1>1, <2>3
      <3>2. CASE slot[r].task = None
        BY <2>1, <3>1, <3>2 DEF SelfOk, EndingPc, Owns, OwningPc, DelegatingPc, CallingPc, BirthPc
      <3>3. CASE slot[r].task # None
        BY <1>2, <1>5, <2>1, <3>1, <3>3 DEF SelfOk, Over
      <3> QED BY <3>2, <3>3
    <2> QED BY <2>2, <2>3
  <1>7. ASSUME NEW r \in Slot
        PROVE  ChildOk(r)'
    <2>1. ChildOk(r) /\ (\A q \in Slot : slot'[q].task = slot[q].task)
      BY <1>1 DEF Core
    <2>2. CASE r = s /\ l = "child"
      BY <1>1, <2>1, <2>2 DEF ChildOk, DelegatingPc, CallingPc, BirthPc
    <2>3. CASE r = s /\ l = "adopt"
      BY <1>1, <2>1, <2>3 DEF ChildOk, DelegatingPc, CallingPc, BirthPc
    <2>4. CASE r = s /\ l = "cchild"
      BY <1>1, <1>3, <1>4, <2>1, <2>4 DEF ChildOk, DelegatingPc, CallingPc, BirthPc, Absent
    <2>5. CASE r # s
      <3>1. slot'[r] = slot[r]
        BY <1>1, <2>5
      <3>2. slot[r].pc \in DelegatingPc \cup CallingPc =>
               slot[r].child \in Task /\ slot[r].child # c /\ slot[r].child \notin fresh'
        BY <1>1, <2>1 DEF ChildOk
      <3>3. slot[r].pc \in BirthPc => slot[r].pc \in CallingPc /\ slot[r].child # t
        BY <2>1 DEF ChildOk, CallingPc
      <3>4. slot[r].pc \in BirthPc => \A d \in Task : ~Linked(slot[r].child, d)'
        BY <1>3, <2>1, <3>1, <3>2, <3>3 DEF ChildOk
      <3>5. slot[r].pc \in BirthPc => (Over(slot[r].child)' <=> Over(slot[r].child))
        BY <1>5, <3>1, <3>2, <3>3
      <3> QED BY <2>1, <3>1, <3>2, <3>3, <3>4, <3>5 DEF ChildOk
    <2> QED BY <2>2, <2>3, <2>4, <2>5
  <1>8. ASSUME NEW r \in Slot
        PROVE  CallerOk(r)'
    <2>1. CallerOk(r) /\ slot[r].caller \in Slot \cup {None}
      BY SlotFields DEF Core
    <2>2. slot'[r].task = slot[r].task /\ slot'[r].caller = slot[r].caller
      BY <1>1
    <2>3. slot[r].caller # None => slot'[slot[r].caller] = slot[slot[r].caller]
      BY <1>1, <2>1 DEF CallerOk
    <2>4. slot'[r].pc \in {slot[r].pc, "child", "adopt", "cchild"}
      BY <1>1
    <2> QED BY <2>1, <2>2, <2>3, <2>4 DEF CallerOk
  <1>9. ASSUME NEW r \in Slot, NEW q \in Slot
        PROVE  PairOk(r, q)'
    <2>1. PairOk(r, q)
      BY DEF Core
    <2>2. slot'[r].caller = slot[r].caller /\ slot'[q].caller = slot[q].caller
      BY <1>1
    <2>3. \A d \in Task : Holds(r, d)' /\ Holds(q, d)' => r = q
      BY <1>2, <1>4, <2>1 DEF PairOk
    <2> QED BY <1>2, <2>1, <2>2, <2>3 DEF PairOk
  <1>10. ASSUME NEW u \in Task
         PROVE  TaskOk(u)'
    <2>1. TaskOk(u)
      BY DEF Core
    <2>2. CASE u = c
      BY <1>1, <1>2, <1>3, <1>4, <2>2 DEF TaskOk, Over, Terminal, Absent
    <2>3. CASE u # c
      <3>1. u \in fresh' => state'[u] = Absent /\ rpc'[u] = "none" /\ \A w \in Task : ~Edge(w, u)'
        BY <1>1, <2>1, <2>3 DEF TaskOk
      <3>2. state'[u] = Absent => heap'[u] = 0 /\ \A d \in Task : ~Linked(u, d)'
        BY <1>1, <1>3, <2>1, <2>3 DEF TaskOk
      <3>3. rpc'[u] # "none" => \A w \in Task : ~Linked(w, u)'
        BY <1>3, <2>1, <2>3 DEF TaskOk
      <3>4. heap'[u] \in {0, 1}
        BY <2>1, <2>3 DEF TaskOk
      <3>5. heap'[u] = 1 => Over(u)' \/ (state'[u] = "Queued" /\ \A r \in Slot : ~Owns(r, u)')
        BY <1>2, <1>5, <2>1, <2>3 DEF TaskOk
      <3> QED BY <3>1, <3>2, <3>3, <3>4, <3>5 DEF TaskOk
    <2> QED BY <2>2, <2>3
  <1>11. ASSUME NEW w \in Task, NEW d \in Task
         PROVE  PlaceOk(w, d)' /\ LinkOk(w, d)'
    <2>1. PlaceOk(w, d) /\ LinkOk(w, d)
      BY DEF Core
    <2>2. PlaceOk(w, d)'
      <3>1. CASE d = c
        BY <1>1, <1>2, <1>4, <3>1 DEF PlaceOk, Linked
      <3>2. CASE d # c
        BY <1>1, <1>2, <2>1, <3>2 DEF PlaceOk
      <3> QED BY <3>1, <3>2
    <2>3. ASSUME Linked(w, d)'
          PROVE  \A r \in Slot : Owns(r, w)' => slot'[r].pc \notin {"begin", "setup"}
      <3>1. CASE w = t
        <4>1. \A r \in Slot : Owns(r, w)' => r = s
          BY <1>1, <1>2, <3>1 DEF Core, PairOk
        <4> QED BY <1>1, <4>1
      <3>2. CASE w # t
        BY <1>1, <1>2, <1>3, <2>1, <2>3, <3>2 DEF LinkOk, Owns
      <3> QED BY <3>1, <3>2
    <2>4. ASSUME Linked(w, d)', ~Over(w)'
          PROVE  /\ state'[w] = "Waiting" \/ \E r \in Slot : Owns(r, w)' /\ slot'[r].pc \in {"child", "park"}
                 /\ \A r \in Slot : Owns(r, w)' => slot'[r].pc \in DelegatingPc /\ slot'[r].child = d
                 /\ \A x \in Task : Linked(w, x)' => d = x
      <3>1. w # c /\ ~Over(w) /\ state'[w] = state[w]
        BY <1>1, <1>3, <1>4, <1>5, <2>4
      <3>2. CASE w = t
        <4>1. \A x \in Task : ~Linked(t, x)
          BY <1>1, <3>1, <3>2 DEF Core, LinkOk, DelegatingPc
        <4>2. l = "child" /\ d = c
          BY <1>3, <2>4, <3>2, <4>1
        <4>3. \A r \in Slot : Owns(r, w)' => r = s
          BY <1>1, <1>2, <3>2 DEF Core, PairOk
        <4> QED BY <1>1, <1>2, <1>3, <3>2, <4>1, <4>2, <4>3 DEF DelegatingPc
      <3>3. CASE w # t
        <4>1. Linked(w, d) /\ \A r \in Slot : Owns(r, w)' <=> Owns(r, w) /\ r # s
          BY <1>2, <1>3, <2>4, <3>3 DEF Owns
        <4> QED BY <1>1, <1>3, <2>1, <3>1, <3>3, <4>1 DEF LinkOk
      <3> QED BY <3>2, <3>3
    <2> QED BY <2>2, <2>3, <2>4 DEF LinkOk
  <1>12. CheckerOk'
    <2>1. checker' = checker
      BY DEF ToolCall
    <2>2. \A u \in Task : Over(u) => Over(u)'
      BY <1>4, <1>5
    <2> QED BY <2>1, <2>2 DEF CheckerOk, Core, TypeOK
  <1> QED BY <1>6, <1>7, <1>8, <1>9, <1>10, <1>11, <1>12 DEF Core

LEMMA ToolSteps ==
  ASSUME TypeOK, Core, MaxCalls \in {0, 1}, NEW s \in Slot, NEW c \in Task,
         Delegate(s, c) \/ Spawn(s, c) \/ CallAgent(s, c)
  PROVE  Core'
  <1>1. \A l \in {"child", "adopt", "cchild"} : ToolCall(s, c, l) =>
           /\ slot[s].task \in Task /\ c # slot[s].task /\ state[c] = Absent /\ heap[c] = 0 /\ rpc[c] = "none"
           /\ \A w \in Task : ~Edge(w, c)
    BY ToolCallViews, NewTask
  <1>2. CASE Delegate(s, c)
    <2>1. ToolCall(s, c, "child") /\ waits' = waits \cup {<<slot[s].task, c>>} /\ UNCHANGED <<state, heap, rpc>>
      BY <1>2 DEF Delegate
    <2>2. \A w, d \in Task : Edge(w, d)' <=> Edge(w, d) \/ (w = slot[s].task /\ d = c)
      BY <1>1, <2>1 DEF Edge
    <2> QED BY <1>1, <2>1, <2>2, ToolCallStep
  <1>3. CASE Spawn(s, c)
    <2>1. ToolCall(s, c, "adopt") /\ Enqueue(c) /\ UNCHANGED <<waits, rpc>>
      BY <1>3 DEF Spawn
    <2>2. /\ \A d \in Task \ {c} : state'[d] = state[d] /\ heap'[d] = heap[d]
          /\ \/ state'[c] = "Failed" /\ heap'[c] = 0
             \/ state'[c] = "Queued" /\ heap'[c] = 1
      BY <1>1, <2>1 DEF Enqueue, TypeOK
    <2>3. \A w, d \in Task : Edge(w, d)' <=> Edge(w, d)
      BY <2>1 DEF Edge
    <2> QED BY <1>1, <2>1, <2>2, <2>3, ToolCallStep
  <1>4. CASE CallAgent(s, c)
    <2>1. /\ ToolCall(s, c, "cchild") /\ UNCHANGED <<waits, heap>>
          /\ rpc' = [rpc EXCEPT ![c] = "open"] /\ state' = [state EXCEPT ![c] = "Queued"]
      BY <1>4 DEF CallAgent
    <2>2. /\ \A d \in Task \ {c} : state'[d] = state[d] /\ rpc'[d] = rpc[d]
          /\ rpc'[c] # "none" /\ state'[c] = "Queued"
      BY <2>1 DEF TypeOK
    <2>3. \A w, d \in Task : Edge(w, d)' <=> Edge(w, d)
      BY <2>1 DEF Edge
    <2> QED BY <1>1, <2>1, <2>2, <2>3, ToolCallStep
  <1> QED BY <1>2, <1>3, <1>4

(* A task without an execution, unlinked and not in the heap, gets a state *)
(* or its first entry, while the execution of another goes on.             *)
LEMMA EnqueueChildStep ==
  ASSUME TypeOK, Core, NEW s \in Slot, EnqueueChild(s)
  PROVE  Core'
  <1> DEFINE t == slot[s].task
             c == slot[s].child
             e == [slot[s] EXCEPT !.pc = "act"]
  <1>1. /\ slot[s].pc = "enqueue" /\ slot[s].pc \in DelegatingPc /\ slot[s].pc \in OwningPc
        /\ slot' = [slot EXCEPT ![s] = e] /\ UNCHANGED <<waits, origin, rpc, checker, fresh>>
    BY SlotFields DEF EnqueueChild, Goto, At, DelegatingPc, OwningPc, runVars, TypeOK
  <1>2. /\ t \in Task /\ Owns(s, t) /\ (state[t] \in Terminal \/ state[t] = "Waiting")
        /\ slot[s].left = 0 /\ SelfOk(s) /\ ChildOk(s)
    BY <1>1, OwnedState, TaskOfSlot DEF Expected, Core
  <1>3. c \in Task /\ c \notin fresh /\ state[c] = Absent
    BY <1>1, <1>2 DEF ChildOk
  <1>4. /\ e.pc = "act" /\ e.task = t /\ e.caller = slot[s].caller /\ e.left = 0
        /\ e.parked = slot[s].parked /\ e.child = c
    BY <1>2, SlotFields DEF Execution
  <1> HIDE DEF e
  <1>5. slot'[s] = e /\ \A r \in Slot \ {s} : slot'[r] = slot[r]
    BY <1>1, SlotMove
  <1>6. /\ heap[c] = 0 /\ ~Over(c) /\ c # t
        /\ \A r \in Slot : slot[r].task # c /\ ~Owns(r, c)
        /\ \A d \in Task : ~Linked(c, d)
    BY <1>2, <1>3, NewTask
  <1>7. /\ \A d \in Task \ {c} : state'[d] = state[d] /\ heap'[d] = heap[d]
        /\ \/ state'[c] = "Failed" /\ heap'[c] = 0
           \/ state'[c] = "Queued" /\ heap'[c] = 1
    BY <1>3, <1>6 DEF EnqueueChild, Enqueue, TypeOK
  <1>8. \A r \in Slot, u \in Task : Owns(r, u)' <=> Owns(r, u) /\ (r # s \/ ~slot[s].parked)
    BY <1>1, <1>4, <1>5 DEF Owns, OwningPc
  <1>9. \A r \in Slot, d \in Task : Holds(r, d)' <=> Holds(r, d) /\ r # s
    BY <1>4, <1>5 DEF Holds, DelegatingPc, CallingPc, BirthPc
  <1>10. \A r \in Slot, w, d \in Task : ToWake(r, w, d)' <=> ToWake(r, w, d)
    BY <1>1, <1>4, <1>5 DEF ToWake
  <1>11. \A w, d \in Task : Edge(w, d)' <=> Edge(w, d)
    BY <1>1 DEF Edge
  <1>12. \A w, d \in Task : CheckerToWake(w, d)' <=> CheckerToWake(w, d)
    BY <1>1 DEF CheckerToWake
  <1>13. \A w, d \in Task : Linked(w, d)' <=> Linked(w, d)
    BY <1>10, <1>11, <1>12 DEF Linked
  <1>14. \A d \in Task \ {c} : Over(d)' <=> Over(d)
    BY <1>7 DEF Over
  <1>15. ASSUME NEW r \in Slot
         PROVE  SelfOk(r)'
    <2>1. SelfOk(r) /\ slot[r].task \in Task \cup {None} /\ slot[r].task # c
      BY <1>6, SlotFields DEF Core
    <2>2. CASE r = s
      <3>1. ~slot[s].parked => Over(t)
        BY <1>1, <1>2 DEF SelfOk
      <3>2. Owns(s, t)' => Over(t)'
        BY <1>2, <1>4, <1>5, <1>6, <1>8, <1>14, <3>1 DEF Over
      <3> QED BY <1>2, <1>4, <1>5, <1>6, <1>7, <2>1, <2>2, <3>2, Names DEF SelfOk, EndingPc
    <2>3. CASE r # s
      <3>1. slot'[r] = slot[r]
        BY <1>5, <2>3
      <3>2. CASE slot[r].task = None
        BY <2>1, <3>1, <3>2 DEF SelfOk, EndingPc, Owns, OwningPc, DelegatingPc, CallingPc, BirthPc
      <3>3. CASE slot[r].task # None
        BY <1>7, <1>8, <1>14, <2>1, <3>1, <3>3 DEF SelfOk, Over
      <3> QED BY <3>2, <3>3
    <2> QED BY <2>2, <2>3
  <1>16. ASSUME NEW r \in Slot
         PROVE  ChildOk(r)'
    <2>1. ChildOk(r) /\ PairOk(r, s)
      BY DEF Core
    <2>2. CASE r = s
      BY <1>4, <1>5, <2>2 DEF ChildOk, DelegatingPc, CallingPc, BirthPc
    <2>3. CASE r # s
      <3>1. slot'[r] = slot[r] /\ \A q \in Slot : slot'[q].task = slot[q].task
        BY <1>4, <1>5, <2>3
      <3>2. slot[r].pc \in DelegatingPc \cup CallingPc => slot[r].child \in Task /\ slot[r].child # c
        BY <1>1, <1>3, <2>1, <2>3 DEF ChildOk, PairOk, Holds
      <3>3. slot[r].pc \in BirthPc => slot[r].pc \in CallingPc
        BY DEF CallingPc
      <3>4. slot[r].pc \in BirthPc => \A d \in Task : ~Linked(slot[r].child, d)'
        BY <1>13, <2>1, <3>1, <3>2, <3>3 DEF ChildOk
      <3>5. slot[r].pc \in BirthPc => (Over(slot[r].child)' <=> Over(slot[r].child))
        BY <1>14, <3>1, <3>2, <3>3
      <3> QED BY <1>1, <1>7, <2>1, <3>1, <3>2, <3>3, <3>4, <3>5 DEF ChildOk
    <2> QED BY <2>2, <2>3
  <1>17. ASSUME NEW r \in Slot
         PROVE  CallerOk(r)'
    <2>1. CallerOk(r) /\ slot[r].caller \in Slot \cup {None}
      BY SlotFields DEF Core
    <2>2. slot'[r].task = slot[r].task /\ slot'[r].caller = slot[r].caller
      BY <1>4, <1>5
    <2>3. slot[r].caller # None => slot'[slot[r].caller] = slot[slot[r].caller]
      BY <1>1, <1>5, <2>1 DEF CallerOk
    <2>4. slot'[r].pc \in {slot[r].pc, "act"}
      BY <1>4, <1>5
    <2> QED BY <2>1, <2>2, <2>3, <2>4 DEF CallerOk
  <1>18. ASSUME NEW r \in Slot, NEW q \in Slot
         PROVE  PairOk(r, q)'
    <2>1. PairOk(r, q)
      BY DEF Core
    <2>2. slot'[r].caller = slot[r].caller /\ slot'[q].caller = slot[q].caller
      BY <1>4, <1>5
    <2> QED BY <1>8, <1>9, <2>1, <2>2 DEF PairOk
  <1>19. ASSUME NEW u \in Task
         PROVE  TaskOk(u)'
    <2>1. TaskOk(u)
      BY DEF Core
    <2>2. CASE u = c
      BY <1>1, <1>3, <1>6, <1>7, <1>8, <1>13, <2>1, <2>2 DEF TaskOk, Over, Absent
    <2>3. CASE u # c
      <3>1. heap'[u] = 1 => Over(u)' \/ (state'[u] = "Queued" /\ \A r \in Slot : ~Owns(r, u)')
        BY <1>7, <1>8, <1>14, <2>1, <2>3 DEF TaskOk
      <3> QED BY <1>1, <1>7, <1>11, <1>13, <2>1, <2>3, <3>1 DEF TaskOk
    <2> QED BY <2>2, <2>3
  <1>20. ASSUME NEW w \in Task, NEW d \in Task
         PROVE  PlaceOk(w, d)' /\ LinkOk(w, d)'
    <2>1. PlaceOk(w, d) /\ LinkOk(w, d)
      BY DEF Core
    <2>2. PlaceOk(w, d)'
      BY <1>1, <1>10, <1>11, <1>12, <2>1 DEF PlaceOk
    <2>3. ASSUME Linked(w, d)'
          PROVE  \A r \in Slot : Owns(r, w)' => slot'[r].pc \notin {"begin", "setup"}
      BY <1>4, <1>5, <1>8, <1>13, <2>1, <2>3 DEF LinkOk
    <2>4. ASSUME Linked(w, d)', ~Over(w)'
          PROVE  /\ state'[w] = "Waiting" \/ \E r \in Slot : Owns(r, w)' /\ slot'[r].pc \in {"child", "park"}
                 /\ \A r \in Slot : Owns(r, w)' => slot'[r].pc \in DelegatingPc /\ slot'[r].child = d
                 /\ \A x \in Task : Linked(w, x)' => d = x
      <3>1. w # c /\ ~Over(w) /\ state'[w] = state[w] /\ Linked(w, d)
        BY <1>6, <1>7, <1>13, <1>14, <2>4
      <3>2. ASSUME NEW r \in Slot, Owns(r, w), slot[r].pc \in {"child", "park"}
            PROVE  Owns(r, w)' /\ slot'[r].pc \in {"child", "park"}
        BY <1>1, <1>5, <1>8, <3>2
      <3>3. ~Owns(s, w)'
        <4>1. w = t => slot[s].parked
          BY <1>1, <1>2, <3>1 DEF SelfOk
        <4> QED BY <1>8, <4>1 DEF Owns
      <3>4. \A r \in Slot : Owns(r, w)' => slot'[r].pc \in DelegatingPc /\ slot'[r].child = d
        BY <1>5, <1>8, <2>1, <3>1, <3>3 DEF LinkOk
      <3> QED BY <1>13, <2>1, <3>1, <3>2, <3>4 DEF LinkOk
    <2> QED BY <2>2, <2>3, <2>4 DEF LinkOk
  <1>21. CheckerOk'
    <2>1. \A u \in Task : Over(u) => Over(u)'
      BY <1>6, <1>14
    <2> QED BY <1>1, <2>1 DEF CheckerOk, Core, TypeOK
  <1> QED BY <1>15, <1>16, <1>17, <1>18, <1>19, <1>20, <1>21 DEF Core

LEMMA BirthFacts ==
  ASSUME TypeOK, Core, NEW s \in Slot, slot[s].pc \in BirthPc
  PROVE  /\ slot[s].child \in Task /\ slot[s].child \notin fresh /\ slot[s].child # slot[s].task
         /\ state[slot[s].child] # Absent /\ state[slot[s].child] \in TaskState
         /\ rpc[slot[s].child] # "none" /\ heap[slot[s].child] = 0
         /\ \/ Over(slot[s].child)
            \/ slot[s].pc = "cpark" /\ state[slot[s].child] = "Running"
            \/ slot[s].pc # "cpark" /\ state[slot[s].child] = "Queued"
         /\ \A r \in Slot : slot[r].task # slot[s].child /\ ~Owns(r, slot[s].child)
         /\ \A c \in Task : ~Linked(slot[s].child, c)
         /\ \A r \in Slot \ {s} : ~Holds(r, slot[s].child)
         /\ slot[s].task \in Task /\ Owns(s, slot[s].task) /\ ~slot[s].parked
         /\ Over(slot[s].task) \/ state[slot[s].task] = "Running"
         /\ slot[s].left = 0
  <1>1. /\ slot[s].pc \in CallingPc /\ slot[s].pc \in OwningPc /\ slot[s].pc \notin {"act", "free", "enqueue"}
        /\ Expected(slot[s].pc) = "Running"
    BY DEF BirthPc, CallingPc, OwningPc, Expected
  <1>2. ChildOk(s)
    BY DEF Core
  <1>3. \A r \in Slot : ~Owns(r, slot[s].child)
    BY <1>2 DEF ChildOk, Owns
  <1>4. \A r \in Slot \ {s} : ~Holds(r, slot[s].child)
    BY <1>1, <1>2 DEF ChildOk, Core, PairOk, Holds
  <1>5. slot[s].child \in Task /\ state[slot[s].child] # Absent
    BY <1>1, <1>2 DEF ChildOk
  <1> QED BY <1>1, <1>2, <1>3, <1>4, <1>5, OwnedState, TaskOfSlot DEF ChildOk, Over, TypeOK, MaybeState

LEMMA CallStartStep ==
  ASSUME TypeOK, Core, NEW s \in Slot, CallStart(s)
  PROVE  Core'
  <1> DEFINE c == slot[s].child
             e == [slot[s] EXCEPT !.pc = "cpark"]
  <1>1. /\ slot[s].pc = "cstart" /\ slot[s].pc \in BirthPc
        /\ slot' = [slot EXCEPT ![s] = e] /\ UNCHANGED <<heap, waits, origin, rpc, checker, fresh>>
    BY SlotFields DEF CallStart, Goto, At, BirthPc, runVars, TypeOK
  <1>2. /\ c \in Task /\ c \notin fresh /\ c # slot[s].task /\ state[c] # Absent /\ rpc[c] # "none"
        /\ heap[c] = 0 /\ (Over(c) \/ state[c] = "Queued")
        /\ \A r \in Slot : slot[r].task # c /\ ~Owns(r, c)
        /\ \A d \in Task : ~Linked(c, d)
        /\ \A r \in Slot \ {s} : ~Holds(r, c)
        /\ slot[s].task \in Task /\ Owns(s, slot[s].task) /\ ~slot[s].parked
        /\ Over(slot[s].task) \/ state[slot[s].task] = "Running"
        /\ slot[s].left = 0
    BY <1>1, BirthFacts
  <1>3. /\ e.pc = "cpark" /\ e.task = slot[s].task /\ e.caller = slot[s].caller /\ e.left = 0
        /\ ~e.parked /\ e.child = c
    BY <1>2, SlotFields DEF Execution
  <1> HIDE DEF e
  <1>4. slot'[s] = e /\ \A r \in Slot \ {s} : slot'[r] = slot[r]
    BY <1>1, SlotMove
  <1>5. /\ \A d \in Task \ {c} : state'[d] = state[d]
        /\ \/ Over(c) /\ state'[c] = state[c]
           \/ ~Over(c) /\ state'[c] = "Running"
    BY <1>2 DEF CallStart, UpdateIfNotTerminal, Over, TypeOK
  <1>6. \A r \in Slot, u \in Task : Owns(r, u)' <=> Owns(r, u)
    BY <1>1, <1>3, <1>4 DEF Owns, OwningPc, CallingPc, BirthPc
  <1>7. \A r \in Slot, d \in Task : Holds(r, d)' <=> Holds(r, d)
    BY <1>1, <1>3, <1>4 DEF Holds, CallingPc, BirthPc
  <1>8. \A r \in Slot, w, d \in Task : ToWake(r, w, d)' <=> ToWake(r, w, d)
    BY <1>1, <1>3, <1>4 DEF ToWake
  <1>9. \A w, d \in Task : Edge(w, d)' <=> Edge(w, d)
    BY <1>1 DEF Edge
  <1>10. \A w, d \in Task : CheckerToWake(w, d)' <=> CheckerToWake(w, d)
    BY <1>1 DEF CheckerToWake
  <1>11. \A w, d \in Task : Linked(w, d)' <=> Linked(w, d)
    BY <1>8, <1>9, <1>10 DEF Linked
  <1>12. /\ \A d \in Task : Over(d)' <=> Over(d)
         /\ \A d \in Task : state'[d] = Absent <=> state[d] = Absent
    BY <1>2, <1>5 DEF Over, Terminal, Absent
  <1>13. ASSUME NEW r \in Slot
         PROVE  SelfOk(r)'
    <2>1. SelfOk(r) /\ slot[r].task \in Task \cup {None} /\ slot[r].task # c
      BY <1>2, SlotFields DEF Core
    <2>2. CASE r = s
      <3>1. /\ state'[slot[s].task] = state[slot[s].task] /\ slot[s].task # None
            /\ Over(slot[s].task) \/ state'[slot[s].task] = "Running"
            /\ state[slot[s].task] # Absent
        BY <1>1, <1>2, <1>5, <2>1, <2>2, Names DEF SelfOk
      <3>2. slot'[r].pc = "cpark" /\ slot'[r].task = slot[s].task /\ slot'[r].left = 0 /\ ~slot'[r].parked
        BY <1>3, <1>4, <2>2
      <3>3. "cpark" \notin EndingPc /\ Expected("cpark") = "Running"
        BY DEF EndingPc, Expected
      <3> QED BY <3>1, <3>2, <3>3 DEF SelfOk, Over
    <2>3. CASE r # s
      <3>1. slot'[r] = slot[r]
        BY <1>4, <2>3
      <3>2. CASE slot[r].task = None
        BY <2>1, <3>1, <3>2 DEF SelfOk, EndingPc, Owns, OwningPc, DelegatingPc, CallingPc, BirthPc
      <3>3. CASE slot[r].task # None
        BY <1>5, <1>6, <1>12, <2>1, <3>1, <3>3 DEF SelfOk, Over
      <3> QED BY <3>2, <3>3
    <2> QED BY <2>2, <2>3
  <1>14. ASSUME NEW r \in Slot
         PROVE  ChildOk(r)'
    <2>1. ChildOk(r) /\ (\A q \in Slot : slot'[q].task = slot[q].task)
      BY <1>3, <1>4 DEF Core
    <2>2. CASE r = s
      BY <1>1, <1>2, <1>3, <1>4, <1>5, <1>11, <1>12, <2>1, <2>2
         DEF ChildOk, DelegatingPc, CallingPc, BirthPc, Over
    <2>3. CASE r # s
      <3>1. slot'[r] = slot[r]
        BY <1>4, <2>3
      <3>2. slot[r].pc \in DelegatingPc \cup CallingPc => slot[r].child \in Task /\ slot[r].child # c
        BY <1>2, <2>1, <2>3 DEF ChildOk, Holds
      <3>3. slot[r].pc \in BirthPc => slot[r].pc \in CallingPc
        BY DEF CallingPc
      <3>4. slot[r].pc \in BirthPc => \A d \in Task : ~Linked(slot[r].child, d)'
        BY <1>11, <2>1, <3>1, <3>2, <3>3 DEF ChildOk
      <3>5. slot[r].pc \in BirthPc => (Over(slot[r].child)' <=> Over(slot[r].child))
        BY <1>12, <3>1, <3>2, <3>3
      <3> QED BY <1>1, <1>5, <2>1, <3>1, <3>2, <3>3, <3>4, <3>5 DEF ChildOk
    <2> QED BY <2>2, <2>3
  <1>15. ASSUME NEW r \in Slot
         PROVE  CallerOk(r)'
    <2>1. CallerOk(r) /\ slot[r].caller \in Slot \cup {None}
      BY SlotFields DEF Core
    <2>2. slot'[r].task = slot[r].task /\ slot'[r].caller = slot[r].caller
      BY <1>3, <1>4
    <2>3. slot[r].caller # None => slot'[slot[r].caller] = slot[slot[r].caller]
      BY <1>1, <1>4, <2>1 DEF CallerOk
    <2>4. slot'[r].pc \in {slot[r].pc, "cpark"}
      BY <1>3, <1>4
    <2> QED BY <2>1, <2>2, <2>3, <2>4 DEF CallerOk
  <1>16. ASSUME NEW r \in Slot, NEW q \in Slot
         PROVE  PairOk(r, q)'
    <2>1. PairOk(r, q)
      BY DEF Core
    <2>2. slot'[r].caller = slot[r].caller /\ slot'[q].caller = slot[q].caller
      BY <1>3, <1>4
    <2> QED BY <1>6, <1>7, <2>1, <2>2 DEF PairOk
  <1>17. ASSUME NEW u \in Task
         PROVE  TaskOk(u)'
    <2>1. TaskOk(u)
      BY DEF Core
    <2>2. heap'[u] = 1 => Over(u)' \/ (state'[u] = "Queued" /\ \A r \in Slot : ~Owns(r, u)')
      BY <1>1, <1>2, <1>5, <1>6, <1>12, <2>1 DEF TaskOk
    <2> QED BY <1>1, <1>9, <1>11, <1>12, <2>1, <2>2 DEF TaskOk
  <1>18. ASSUME NEW w \in Task, NEW d \in Task
         PROVE  PlaceOk(w, d)' /\ LinkOk(w, d)'
    <2>1. PlaceOk(w, d) /\ LinkOk(w, d)
      BY DEF Core
    <2>2. PlaceOk(w, d)'
      BY <1>1, <1>8, <1>9, <1>10, <2>1 DEF PlaceOk
    <2>3. ASSUME Linked(w, d)'
          PROVE  \A r \in Slot : Owns(r, w)' => slot'[r].pc \notin {"begin", "setup"}
      BY <1>3, <1>4, <1>6, <1>11, <2>1, <2>3 DEF LinkOk
    <2>4. ASSUME Linked(w, d)', ~Over(w)'
          PROVE  /\ state'[w] = "Waiting" \/ \E r \in Slot : Owns(r, w)' /\ slot'[r].pc \in {"child", "park"}
                 /\ \A r \in Slot : Owns(r, w)' => slot'[r].pc \in DelegatingPc /\ slot'[r].child = d
                 /\ \A x \in Task : Linked(w, x)' => d = x
      <3>1. w # c /\ ~Over(w) /\ state'[w] = state[w] /\ Linked(w, d)
        BY <1>2, <1>5, <1>11, <1>12, <2>4
      <3>2. ~Owns(s, w)
        BY <1>1, <2>1, <3>1 DEF LinkOk, DelegatingPc
      <3> QED BY <1>4, <1>6, <1>11, <2>1, <3>1, <3>2 DEF LinkOk
    <2> QED BY <2>2, <2>3, <2>4 DEF LinkOk
  <1>19. CheckerOk'
    BY <1>1, <1>12 DEF CheckerOk, Core, TypeOK
  <1> QED BY <1>13, <1>14, <1>15, <1>16, <1>17, <1>18, <1>19 DEF Core

(* The callee gets an execution of its own, inside the caller's.           *)
LEMMA CallParkStep ==
  ASSUME TypeOK, Core, NEW s \in Slot, NEW n \in Slot, CallPark(s, n)
  PROVE  Core'
  <1> DEFINE c == slot[s].child
             t == slot[s].task
  <1>1. /\ slot[s].pc = "cpark" /\ slot[s].pc \in BirthPc /\ slot[n].pc = "free" /\ n # s
        /\ UNCHANGED <<heap, waits, origin, rpc, checker, fresh>>
    BY DEF CallPark, NextSlot, At, BirthPc, runVars
  <1>2. /\ c \in Task /\ c \notin fresh /\ c # t /\ state[c] # Absent /\ rpc[c] # "none"
        /\ heap[c] = 0 /\ (Over(c) \/ state[c] = "Running")
        /\ \A r \in Slot : slot[r].task # c /\ ~Owns(r, c)
        /\ \A d \in Task : ~Linked(c, d)
        /\ \A r \in Slot \ {s} : ~Holds(r, c)
        /\ t \in Task /\ Owns(s, t) /\ ~slot[s].parked
        /\ Over(t) \/ state[t] = "Running"
        /\ slot[s].left = 0
    BY <1>1, BirthFacts
  <1>3. /\ slot'[s].pc = "await" /\ slot'[s].task = t /\ slot'[s].child = c /\ slot'[s].left = 0
        /\ slot'[s].caller = slot[s].caller /\ ~slot'[s].parked
        /\ slot'[n].pc = "setup" /\ slot'[n].task = c /\ slot'[n].left = 0 /\ ~slot'[n].parked
        /\ slot'[n].caller = s
        /\ \A r \in Slot \ {s, n} : slot'[r] = slot[r]
    <2>1. slot[s] \in Execution
      BY SlotFields
    <2>2. slot'[s] = [slot[s] EXCEPT !.pc = "await"]
      BY <1>1 DEF CallPark, TypeOK
    <2>3. slot'[n] = [Free EXCEPT !.pc = "setup", !.caller = s, !.task = c]
      BY <1>1 DEF CallPark, TypeOK
    <2>4. \A r \in Slot \ {s, n} : slot'[r] = slot[r]
      BY <1>1 DEF CallPark, TypeOK
    <2> QED BY <1>2, <2>1, <2>2, <2>3, <2>4, FreeFields DEF Execution
  <1>4. /\ \A d \in Task \ {t} : state'[d] = state[d]
        /\ \/ Over(t) /\ state'[t] = state[t]
           \/ ~Over(t) /\ state'[t] = "Waiting"
    BY <1>2 DEF CallPark, UpdateIfNotTerminal, Over, TypeOK
  <1>5. \A r \in Slot, u \in Task : Owns(r, u)' <=> Owns(r, u) \/ (r = n /\ u = c)
    BY <1>1, <1>2, <1>3 DEF Owns, OwningPc, DelegatingPc, CallingPc, BirthPc
  <1>6. \A r \in Slot, d \in Task : Holds(r, d)' <=> Holds(r, d)
    BY <1>1, <1>3 DEF Holds, DelegatingPc, CallingPc, BirthPc
  <1>7. \A r \in Slot, w, d \in Task : ToWake(r, w, d)' <=> ToWake(r, w, d)
    BY <1>1, <1>3 DEF ToWake
  <1>8. \A w, d \in Task : Edge(w, d)' <=> Edge(w, d)
    BY <1>1 DEF Edge
  <1>9. \A w, d \in Task : CheckerToWake(w, d)' <=> CheckerToWake(w, d)
    BY <1>1 DEF CheckerToWake
  <1>10. \A w, d \in Task : Linked(w, d)' <=> Linked(w, d)
    BY <1>7, <1>8, <1>9 DEF Linked
  <1>11. /\ \A d \in Task : Over(d)' <=> Over(d)
         /\ \A d \in Task : state'[d] = Absent <=> state[d] = Absent
    BY <1>2, <1>4 DEF Over, Terminal, Absent
  <1>12. ASSUME NEW r \in Slot
         PROVE  SelfOk(r)'
    <2>1. SelfOk(r) /\ slot[r].task \in Task \cup {None}
      BY SlotFields DEF Core
    <2>2. CASE r = s
      BY <1>2, <1>3, <1>4, <1>11, <2>2, Names DEF SelfOk, EndingPc, Over, Expected
    <2>3. CASE r = n
      BY <1>1, <1>2, <1>3, <1>4, <1>11, <2>3, Names DEF SelfOk, EndingPc, Over, Expected
    <2>4. CASE r # s /\ r # n
      <3>1. slot'[r] = slot[r]
        BY <1>3, <2>4
      <3>2. CASE slot[r].task = None
        BY <2>1, <3>1, <3>2 DEF SelfOk, EndingPc, Owns, OwningPc, DelegatingPc, CallingPc, BirthPc
      <3>3. CASE slot[r].task # None
        <4>1. Owns(r, slot[r].task) => slot[r].task # t
          BY <1>2, <2>4 DEF Core, PairOk
        <4>2. Owns(r, slot[r].task)' <=> Owns(r, slot[r].task)
          BY <3>1 DEF Owns
        <4> QED BY <1>4, <1>11, <2>1, <3>1, <3>3, <4>1, <4>2 DEF SelfOk, Over
      <3> QED BY <3>2, <3>3
    <2> QED BY <2>2, <2>3, <2>4
  <1>13. ASSUME NEW r \in Slot
         PROVE  ChildOk(r)'
    <2>1. ChildOk(r)
      BY DEF Core
    <2>2. CASE r = s
      BY <1>1, <1>2, <1>3, <1>11, <2>1, <2>2 DEF ChildOk, DelegatingPc, CallingPc, BirthPc
    <2>3. CASE r = n
      BY <1>3, <2>3 DEF ChildOk, DelegatingPc, CallingPc, BirthPc
    <2>4. CASE r # s /\ r # n
      <3>1. slot'[r] = slot[r] /\ \A q \in Slot : slot'[q].task \in {slot[q].task, c}
        BY <1>3, <2>4
      <3>2. slot[r].pc \in DelegatingPc \cup CallingPc => slot[r].child \in Task /\ slot[r].child # c
        BY <1>2, <2>1, <2>4 DEF ChildOk, Holds
      <3>3. slot[r].pc \in BirthPc => slot[r].pc \in CallingPc /\ slot[r].child # t
        BY <2>1 DEF ChildOk, CallingPc
      <3>4. slot[r].pc \in BirthPc => \A d \in Task : ~Linked(slot[r].child, d)'
        BY <1>10, <2>1, <3>1, <3>2, <3>3 DEF ChildOk
      <3>5. slot[r].pc \in BirthPc => (Over(slot[r].child)' <=> Over(slot[r].child))
        BY <1>11, <3>1, <3>2, <3>3
      <3> QED BY <1>1, <1>4, <1>11, <2>1, <3>1, <3>2, <3>3, <3>4, <3>5 DEF ChildOk
    <2> QED BY <2>2, <2>3, <2>4
  <1>14. \A r \in Slot : slot[r].caller # s /\ slot[r].caller # n
    <2>1. \A r \in Slot : CallerOk(r) /\ slot[r].caller \in Slot \cup {None}
      BY SlotFields DEF Core
    <2> QED BY <1>1, <2>1, Names DEF CallerOk
  <1>15. ASSUME NEW r \in Slot
         PROVE  CallerOk(r)'
    <2>1. CallerOk(r) /\ slot[r].caller \in Slot \cup {None}
      BY SlotFields DEF Core
    <2>2. CASE r = n
      BY <1>3, <2>2 DEF CallerOk
    <2>3. CASE r # n
      <3>1. slot'[r].task = slot[r].task /\ slot'[r].caller = slot[r].caller /\ slot'[r].pc \in {slot[r].pc, "await"}
        BY <1>3, <2>3
      <3>2. slot[r].caller # None => slot'[slot[r].caller] = slot[slot[r].caller]
        BY <1>3, <1>14, <2>1
      <3> QED BY <2>1, <3>1, <3>2 DEF CallerOk
    <2> QED BY <2>2, <2>3
  <1>16. ASSUME NEW r \in Slot, NEW q \in Slot
         PROVE  PairOk(r, q)'
    <2>1. PairOk(r, q)
      BY DEF Core
    <2>2. slot'[r].caller = slot'[q].caller /\ slot'[r].caller # None => r = q
      BY <1>3, <1>14, <2>1 DEF PairOk
    <2>3. \A u \in Task : Owns(r, u)' /\ Owns(q, u)' => r = q
      BY <1>2, <1>5, <2>1 DEF PairOk
    <2> QED BY <1>6, <2>1, <2>2, <2>3 DEF PairOk
  <1>17. ASSUME NEW u \in Task
         PROVE  TaskOk(u)'
    <2>1. TaskOk(u)
      BY DEF Core
    <2>2. heap'[u] = 1 => Over(u)' \/ (state'[u] = "Queued" /\ \A r \in Slot : ~Owns(r, u)')
      BY <1>1, <1>2, <1>4, <1>5, <1>11, <2>1 DEF TaskOk
    <2> QED BY <1>1, <1>8, <1>10, <1>11, <2>1, <2>2 DEF TaskOk
  <1>18. ASSUME NEW w \in Task, NEW d \in Task
         PROVE  PlaceOk(w, d)' /\ LinkOk(w, d)'
    <2>1. PlaceOk(w, d) /\ LinkOk(w, d)
      BY DEF Core
    <2>2. PlaceOk(w, d)'
      BY <1>1, <1>7, <1>8, <1>9, <2>1 DEF PlaceOk
    <2>3. ASSUME Linked(w, d)'
          PROVE  w # c /\ \A r \in Slot : Owns(r, w)' => slot'[r].pc \notin {"begin", "setup"}
      <3>1. w # c /\ ~Owns(n, w)
        BY <1>1, <1>2, <1>10, <2>3 DEF Owns, OwningPc, DelegatingPc, CallingPc, BirthPc
      <3> QED BY <1>3, <1>5, <1>10, <2>1, <2>3, <3>1 DEF LinkOk
    <2>4. ASSUME Linked(w, d)', ~Over(w)'
          PROVE  /\ state'[w] = "Waiting" \/ \E r \in Slot : Owns(r, w)' /\ slot'[r].pc \in {"child", "park"}
                 /\ \A r \in Slot : Owns(r, w)' => slot'[r].pc \in DelegatingPc /\ slot'[r].child = d
                 /\ \A x \in Task : Linked(w, x)' => d = x
      <3>1. ~Over(w) /\ Linked(w, d) /\ w # c
        BY <1>10, <1>11, <2>3, <2>4
      <3>2. ~Owns(s, w)
        BY <1>1, <2>1, <3>1 DEF LinkOk, DelegatingPc
      <3>3. w # t /\ state'[w] = state[w] /\ ~Owns(n, w)
        BY <1>1, <1>2, <1>4, <3>2 DEF Owns, OwningPc, DelegatingPc, CallingPc, BirthPc
      <3> QED BY <1>3, <1>5, <1>10, <2>1, <3>1, <3>2, <3>3 DEF LinkOk
    <2> QED BY <2>2, <2>3, <2>4 DEF LinkOk
  <1>19. CheckerOk'
    BY <1>1, <1>11 DEF CheckerOk, Core, TypeOK
  <1> QED BY <1>12, <1>13, <1>15, <1>16, <1>17, <1>18, <1>19 DEF Core

-----------------------------------------------------------------------------
(* Steps that no loop takes: a task that nobody executes is requeued,      *)
(* tasks end, links are taken over or dropped.                             *)

Kept(u) == state'[u] = state[u] /\ heap'[u] \in {heap[u], 0}

EndedBy(u) == state[u] # Absent /\ state'[u] \in Terminal /\ heap'[u] = heap[u]

Requeued(u) ==
    /\ state[u] = "Waiting" /\ state'[u] = "Queued" /\ heap'[u] = 1
    /\ \A s \in Slot : ~Owns(s, u)
    /\ \A d \in Task : ~Linked(u, d)'

SameSlot(r) ==
    /\ slot'[r].task = slot[r].task /\ slot'[r].child = slot[r].child
    /\ slot'[r].caller = slot[r].caller /\ slot'[r].left = slot[r].left
    /\ slot'[r].parked = slot[r].parked
    /\ slot'[r].pc = slot[r].pc \/ (slot'[r].pc \in EndingPc /\ slot[r].pc \in EndingPc)

LEMMA QuietStep ==
  ASSUME TypeOK, Core, \A r \in Slot : SameSlot(r),
         \A u \in Task : Kept(u) \/ EndedBy(u) \/ Requeued(u),
         fresh' = fresh, \A c \in Task : rpc'[c] = "none" <=> rpc[c] = "none",
         \A w, d \in Task : (Edge(w, d)' => Edge(w, d)) /\ (Linked(w, d)' => Linked(w, d)),
         \A w, d \in Task : PlaceOk(w, d)', CheckerOk'
  PROVE  Core'
  <1>1. \A r \in Slot, u \in Task : Owns(r, u)' <=> Owns(r, u)
    BY DEF Owns, SameSlot, EndingPc, OwningPc, DelegatingPc, CallingPc, BirthPc
  <1>2. \A r \in Slot, d \in Task : Holds(r, d)' <=> Holds(r, d)
    BY DEF Holds, SameSlot, EndingPc, DelegatingPc, CallingPc, BirthPc
  <1>3. ASSUME NEW u \in Task
        PROVE  /\ Over(u) => Over(u)'
               /\ state'[u] = Absent <=> state[u] = Absent
               /\ Over(u)' \/ state'[u] = state[u] \/ Requeued(u)
    BY DEF Over, Kept, EndedBy, Requeued, Terminal, Absent
  <1>4. ASSUME NEW r \in Slot
        PROVE  SelfOk(r)'
    <2>1. SelfOk(r) /\ SameSlot(r) /\ slot[r].task \in Task \cup {None}
      BY SlotFields DEF Core
    <2>2. CASE slot[r].task = None
      BY <2>1, <2>2 DEF SelfOk, SameSlot, EndingPc, Owns, OwningPc, DelegatingPc, CallingPc, BirthPc
    <2>3. CASE slot[r].task # None
      <3>1. slot[r].task \in Task /\ (Owns(r, slot[r].task)' <=> Owns(r, slot[r].task))
        BY <1>1, <2>1, <2>3 DEF SameSlot
      <3>2. Owns(r, slot[r].task) => ~Requeued(slot[r].task) /\ slot'[r].pc = slot[r].pc
        BY <2>1 DEF Requeued, SameSlot, Owns, EndingPc, OwningPc, DelegatingPc, CallingPc, BirthPc
      <3>3. slot'[r].pc = "free" <=> slot[r].pc = "free"
        BY <2>1 DEF SameSlot, EndingPc
      <3>4. slot'[r].parked => slot'[r].pc \in {"enqueue", "act"}
        BY <2>1 DEF SelfOk, SameSlot, EndingPc
      <3>5. slot'[r].pc \in EndingPc => Over(slot[r].task)'
        BY <1>3, <2>1, <3>1 DEF SelfOk, SameSlot, Over
      <3>6. slot'[r].pc = "enqueue" /\ ~slot'[r].parked => Over(slot[r].task)'
        BY <1>3, <2>1, <3>1 DEF SelfOk, SameSlot, EndingPc, Over
      <3>7. Owns(r, slot[r].task) => Over(slot[r].task)' \/ state'[slot[r].task] = Expected(slot'[r].pc)
        BY <1>3, <2>1, <3>1, <3>2 DEF SelfOk, SameSlot, Over
      <3> QED BY <1>3, <2>1, <3>1, <3>3, <3>4, <3>5, <3>6, <3>7 DEF SelfOk, SameSlot, Over
    <2> QED BY <2>2, <2>3
  <1>5. ASSUME NEW r \in Slot
        PROVE  ChildOk(r)'
    <2>1. ChildOk(r) /\ SameSlot(r) /\ \A q \in Slot : slot'[q].task = slot[q].task
      BY DEF Core, SameSlot
    <2>2. CASE slot'[r].pc \in EndingPc
      BY <2>2 DEF ChildOk, EndingPc, DelegatingPc, CallingPc, BirthPc
    <2>3. CASE slot'[r].pc \notin EndingPc
      <3>1. slot'[r].pc = slot[r].pc /\ slot'[r].child = slot[r].child
        BY <2>1, <2>3 DEF SameSlot
      <3>2. slot[r].pc \in DelegatingPc \cup CallingPc => slot[r].child \in Task
        BY <2>1 DEF ChildOk
      <3>3. /\ slot[r].pc \in BirthPc => slot[r].pc \in CallingPc
            /\ slot[r].pc \in BirthPc => ~Requeued(slot[r].child)
        BY <2>1, Names DEF ChildOk, CallingPc, Requeued, Over, Terminal
      <3>4. slot[r].pc \in BirthPc =>
               /\ heap'[slot[r].child] = 0
               /\ Over(slot[r].child)' \/ state'[slot[r].child] = state[slot[r].child]
               /\ Over(slot[r].child) => Over(slot[r].child)'
        BY <1>3, <2>1, <3>1, <3>2, <3>3 DEF ChildOk, Kept, EndedBy, Over
      <3>5. slot[r].pc \in BirthPc => \A d \in Task : ~Linked(slot[r].child, d)'
        BY <2>1, <3>1, <3>2, <3>3 DEF ChildOk
      <3>6. slot[r].pc \in DelegatingPc => state'[slot[r].child] = Absent
        BY <1>3, <2>1, <3>2 DEF ChildOk
      <3>7. slot[r].pc \in CallingPc => rpc'[slot[r].child] # "none" /\ state'[slot[r].child] # Absent
        BY <1>3, <2>1, <3>2 DEF ChildOk
      <3> QED BY <2>1, <3>1, <3>2, <3>3, <3>4, <3>5, <3>6, <3>7 DEF ChildOk, Over
    <2> QED BY <2>2, <2>3
  <1>6. ASSUME NEW r \in Slot
        PROVE  CallerOk(r)'
    <2>1. CallerOk(r) /\ SameSlot(r) /\ slot[r].caller \in Slot \cup {None}
      BY SlotFields DEF Core
    <2>2. slot[r].caller # None => SameSlot(slot[r].caller)
      BY <2>1
    <2> QED BY <2>1, <2>2 DEF CallerOk, SameSlot, EndingPc
  <1>7. ASSUME NEW r \in Slot, NEW q \in Slot
        PROVE  PairOk(r, q)'
    <2>1. PairOk(r, q) /\ SameSlot(r) /\ SameSlot(q)
      BY DEF Core
    <2> QED BY <1>1, <1>2, <2>1 DEF PairOk, SameSlot
  <1>8. ASSUME NEW u \in Task
        PROVE  TaskOk(u)'
    <2>1. TaskOk(u)
      BY DEF Core
    <2>2. heap'[u] \in {0, 1} /\ (state'[u] = Absent => heap'[u] = 0)
      BY <1>3, <2>1 DEF TaskOk, Kept, EndedBy, Requeued, Absent
    <2>3. heap'[u] = 1 => Over(u)' \/ (state'[u] = "Queued" /\ \A r \in Slot : ~Owns(r, u)')
      BY <1>1, <1>3, <2>1 DEF TaskOk, Kept, EndedBy, Requeued, Over
    <2> QED BY <1>3, <2>1, <2>2, <2>3 DEF TaskOk
  <1>9. ASSUME NEW w \in Task, NEW d \in Task
        PROVE  LinkOk(w, d)'
    <2>1. LinkOk(w, d) /\ \A r \in Slot : SameSlot(r)
      BY DEF Core
    <2>2. \A r \in Slot : Owns(r, w) => slot'[r].pc = slot[r].pc /\ slot'[r].child = slot[r].child
      BY <2>1 DEF SameSlot, Owns, EndingPc, OwningPc, DelegatingPc, CallingPc, BirthPc
    <2>3. ASSUME Linked(w, d)', ~Over(w)'
          PROVE  /\ state'[w] = "Waiting" \/ \E r \in Slot : Owns(r, w)' /\ slot'[r].pc \in {"child", "park"}
                 /\ \A r \in Slot : Owns(r, w)' => slot'[r].pc \in DelegatingPc /\ slot'[r].child = d
                 /\ \A x \in Task : Linked(w, x)' => d = x
      <3>1. ~Over(w) /\ state'[w] = state[w]
        BY <1>3, <2>3 DEF Requeued
      <3> QED BY <1>1, <2>1, <2>2, <2>3, <3>1 DEF LinkOk
    <2>4. Linked(w, d)' => \A r \in Slot : Owns(r, w)' => slot'[r].pc \notin {"begin", "setup"}
      BY <1>1, <2>1, <2>2 DEF LinkOk
    <2> QED BY <2>3, <2>4 DEF LinkOk
  <1> QED BY <1>4, <1>5, <1>6, <1>7, <1>8, <1>9 DEF Core

LEMMA SlotsKept ==
  ASSUME slot' = slot
  PROVE  /\ \A r \in Slot : SameSlot(r)
         /\ \A r \in Slot, w, d \in Task : ToWake(r, w, d)' <=> ToWake(r, w, d)
  BY DEF SameSlot, ToWake

LEMMA OverKept ==
  ASSUME \A u \in Task : Kept(u) \/ EndedBy(u)
  PROVE  \A u \in Task : Over(u) => Over(u)'
  BY DEF Kept, EndedBy, Over

(* The commands of the operator, the expiry of a call, an idle tick.       *)
LEMMA OperatorStep ==
  ASSUME TypeOK, Core, UNCHANGED <<slot, waits, checker, origin, fresh>>,
         \A u \in Task : Kept(u) \/ EndedBy(u),
         \A c \in Task : rpc'[c] = "none" <=> rpc[c] = "none"
  PROVE  Core'
  <1>1. \A r \in Slot, w, d \in Task : ToWake(r, w, d)' <=> ToWake(r, w, d)
    BY SlotsKept
  <1>2. \A w, d \in Task : (Edge(w, d)' <=> Edge(w, d)) /\ (CheckerToWake(w, d)' <=> CheckerToWake(w, d))
    BY DEF Edge, CheckerToWake
  <1>3. \A w, d \in Task : Linked(w, d)' <=> Linked(w, d)
    BY <1>1, <1>2 DEF Linked
  <1>4. \A w, d \in Task : PlaceOk(w, d)'
    BY <1>1, <1>2 DEF Core, PlaceOk
  <1>5. CheckerOk'
    BY OverKept DEF Core, CheckerOk, TypeOK
  <1> QED BY <1>2, <1>3, <1>4, <1>5, SlotsKept, QuietStep

LEMMA OperatorSteps ==
  ASSUME TypeOK, Core,
         \/ \E t \in Task : SweepCall(t) \/ Cancel(t) \/ CancelCascade(t)
         \/ IdleTick \/ CancelClose
  PROVE  Core'
  <1>1. UNCHANGED <<slot, waits, checker, origin, fresh>>
    BY DEF SweepCall, Cancel, CancelCascade, IdleTick, CancelClose, schedVars, ctxVars, runVars
  <1>2. \A c \in Task : rpc'[c] = "none" <=> rpc[c] = "none"
    BY DEF SweepCall, Cancel, CancelCascade, IdleTick, CancelClose, TypeOK
  <1>3. ASSUME NEW t \in Task, state[t] # Absent, state' = [state EXCEPT ![t] = "Cancelled"], heap' = heap
        PROVE  \A u \in Task : Kept(u) \/ EndedBy(u)
    BY <1>3 DEF Kept, EndedBy, Terminal, TypeOK
  <1>4. ASSUME state' = state, \A u \in Task : heap'[u] \in {heap[u], 0}
        PROVE  \A u \in Task : Kept(u) \/ EndedBy(u)
    BY <1>4 DEF Kept
  <1>5. \A u \in Task : Kept(u) \/ EndedBy(u)
    <2>1. CASE \E t \in Task : SweepCall(t)
      BY <1>4, <2>1 DEF SweepCall, schedVars
    <2>2. CASE \E t \in Task : Cancel(t)
      BY <1>3, <2>2 DEF Cancel, CancelTask
    <2>3. CASE \E t \in Task : CancelCascade(t)
      BY <1>3, <1>4, <2>3 DEF CancelCascade, CancelTask
    <2>4. CASE IdleTick
      BY <1>4, <2>4 DEF IdleTick, TypeOK
    <2>5. CASE CancelClose
      BY <1>4, <2>5 DEF CancelClose, schedVars
    <2> QED BY <2>1, <2>2, <2>3, <2>4, <2>5
  <1> QED BY <1>1, <1>2, <1>5, OperatorStep

(* Whoever wakes the parked task w on the end of c.                        *)
LEMMA WakeFacts ==
  ASSUME TypeOK, Core, NEW w \in Task, NEW c \in Task, Linked(w, c), Over(c), state[w] \in Parked
  PROVE  /\ state[w] = "Waiting" /\ heap[w] = 0 /\ ~Over(w)
         /\ \A s \in Slot : ~Owns(s, w)
         /\ \A d \in Task : Linked(w, d) => d = c
  <1>1. ~Over(w) /\ LinkOk(w, c) /\ TaskOk(w)
    BY DEF Over, Parked, Terminal, Core
  <1>2. \A s \in Slot : ~Owns(s, w)
    <2>1. \A s \in Slot : Owns(s, w) => slot[s].pc \in DelegatingPc /\ slot[s].child = c
      BY <1>1 DEF LinkOk
    <2>2. \A s \in Slot : slot[s].pc \in DelegatingPc => state[slot[s].child] = Absent
      BY DEF Core, ChildOk
    <2> QED BY <2>1, <2>2, Names DEF Over
  <1>3. state[w] = "Waiting" /\ \A d \in Task : Linked(w, d) => d = c
    BY <1>1, <1>2 DEF LinkOk
  <1>4. heap[w] = 0
    BY <1>1, <1>3 DEF TaskOk
  <1> QED BY <1>1, <1>2, <1>3, <1>4

LEMMA RequeueFacts ==
  ASSUME TypeOK, Core, NEW w \in Task, NEW c \in Task, Linked(w, c), Over(c), Requeue(w),
         \A d \in Task : Linked(w, d)' => Linked(w, d) /\ d # c
  PROVE  /\ \A u \in Task : Kept(u) \/ EndedBy(u) \/ Requeued(u)
         /\ \A u \in Task : Over(u) => Over(u)'
  <1>1. CASE state[w] \in Parked
    <2>1. /\ state[w] = "Waiting" /\ heap[w] = 0 /\ ~Over(w)
          /\ \A s \in Slot : ~Owns(s, w)
          /\ \A d \in Task : Linked(w, d) => d = c
      BY <1>1, WakeFacts
    <2>2. /\ state'[w] = "Queued" /\ heap'[w] = 1
          /\ \A u \in Task \ {w} : state'[u] = state[u] /\ heap'[u] = heap[u]
      BY <1>1, <2>1 DEF Requeue, TypeOK
    <2>3. Requeued(w)
      BY <2>1, <2>2 DEF Requeued
    <2> QED BY <2>1, <2>2, <2>3 DEF Kept, Over
  <1>2. CASE state[w] \notin Parked
    BY <1>2 DEF Requeue, Kept, Over
  <1> QED BY <1>1, <1>2

LEMMA TimeOutStep ==
  ASSUME TypeOK, Core, NEW S \in SUBSET Task, TimeOut(S)
  PROVE  Core'
  <1>1. /\ UNCHANGED <<slot, heap, waits, origin, fresh, rpc>> /\ checker.pc = "idle" /\ S \subseteq Overdue
        /\ checker' = [checker EXCEPT !.pc = "next", !.todo = S]
        /\ state' = [t \in Task |-> IF t \in S THEN "Failed" ELSE state[t]]
    BY DEF TimeOut
  <1>2. \A r \in Slot, w, d \in Task : ToWake(r, w, d)' <=> ToWake(r, w, d)
    BY <1>1, SlotsKept
  <1>3. checker'.pc = "next" /\ checker'.todo = S
    BY <1>1 DEF TypeOK
  <1>4. \A w, d \in Task : (Edge(w, d)' <=> Edge(w, d)) /\ (CheckerToWake(w, d)' <=> CheckerToWake(w, d))
    BY <1>1, <1>3 DEF Edge, CheckerToWake
  <1>5. \A w, d \in Task : Linked(w, d)' <=> Linked(w, d)
    BY <1>2, <1>4 DEF Linked
  <1>6. \A w, d \in Task : PlaceOk(w, d)'
    BY <1>1, <1>2, <1>4 DEF Core, PlaceOk
  <1>7. \A u \in Task : Kept(u) \/ EndedBy(u)
    BY <1>1 DEF Kept, EndedBy, Terminal, Overdue, Absent
  <1>8. CheckerOk'
    BY <1>1, <1>3 DEF CheckerOk, Over, Terminal
  <1> QED BY <1>1, <1>4, <1>5, <1>6, <1>7, <1>8, SlotsKept, QuietStep

LEMMA Removed ==
  ASSUME TypeOK, NEW t \in Task, waits' = RemoveEdges(waits, {t})
  PROVE  \A w, d \in Task : Edge(w, d)' <=> Edge(w, d) /\ w # t /\ d # t
  BY DEF Edge, RemoveEdges, TypeOK

LEMMA CheckerSteps ==
  ASSUME TypeOK, Core,
         (\E t \in Task : CheckerSettle(t) \/ CheckerWake(t)) \/ CheckerClose
  PROVE  Core'
  <1>1. UNCHANGED <<slot, origin, fresh, rpc>>
    BY DEF CheckerSettle, CheckerWake, CheckerClose, schedVars, runVars
  <1>2. \A r \in Slot, w, d \in Task : ToWake(r, w, d)' <=> ToWake(r, w, d)
    BY <1>1, SlotsKept
  <1>3. CASE \E t \in Task : CheckerSettle(t)
    <2>1. PICK t \in Task : CheckerSettle(t)
      BY <1>3
    <2>2. /\ checker.pc = "next" /\ t \in checker.todo /\ UNCHANGED <<state, heap>>
          /\ checker'.pc = "wake" /\ checker'.task = t /\ checker'.waiters = Dependents(waits, t)
          /\ checker'.todo = checker.todo \ {t}
      BY <2>1 DEF CheckerSettle
    <2>3. \A w, d \in Task : Edge(w, d)' <=> Edge(w, d) /\ w # t /\ d # t
      BY <2>1, Removed DEF CheckerSettle
    <2>4. \A w, d \in Task : CheckerToWake(w, d)' <=> d = t /\ Edge(w, d)
      BY <2>2 DEF CheckerToWake, Edge, Dependents
    <2>5. \A w, d \in Task : Linked(w, d)' => Linked(w, d)
      BY <1>2, <2>3, <2>4 DEF Linked
    <2>6. \A w, d \in Task : PlaceOk(w, d)'
      BY <1>1, <1>2, <2>3, <2>4 DEF Core, PlaceOk
    <2>7. CheckerOk'
      BY <2>2 DEF Core, CheckerOk, Over
    <2>8. \A u \in Task : Kept(u)
      BY <2>2 DEF Kept
    <2> QED BY <1>1, <2>3, <2>5, <2>6, <2>7, <2>8, SlotsKept, QuietStep
  <1>4. CASE \E w \in Task : CheckerWake(w)
    <2>1. PICK w \in Task : CheckerWake(w)
      BY <1>4
    <2>2. /\ checker.pc = "wake" /\ w \in checker.waiters /\ Requeue(w) /\ waits' = waits
          /\ checker'.pc = "wake" /\ checker'.task = checker.task /\ checker'.todo = checker.todo
          /\ checker'.waiters = checker.waiters \ {w}
      BY <2>1 DEF CheckerWake, TypeOK
    <2>3. \A x, d \in Task : Edge(x, d)' <=> Edge(x, d)
      BY <2>2 DEF Edge
    <2>4. \A x, d \in Task : CheckerToWake(x, d)' <=> CheckerToWake(x, d) /\ x # w
      BY <2>2 DEF CheckerToWake
    <2>5. \A x, d \in Task : Linked(x, d)' => Linked(x, d)
      BY <1>2, <2>3, <2>4 DEF Linked
    <2>6. \A x, d \in Task : PlaceOk(x, d)'
      BY <1>1, <1>2, <2>3, <2>4 DEF Core, PlaceOk
    <2>7. checker.task \in Task /\ Over(checker.task) /\ CheckerToWake(w, checker.task)
      BY <2>2 DEF Core, CheckerOk, CheckerToWake
    <2>8. ~Linked(w, checker.task)'
      <3>1. PlaceOk(w, checker.task)
        BY <2>7 DEF Core
      <3>2. ~Edge(w, checker.task) /\ \A s \in Slot : ~ToWake(s, w, checker.task)
        BY <2>7, <3>1 DEF PlaceOk
      <3>3. /\ ~(<<w, checker.task>> \in waits') /\ ~(w \in checker'.waiters)
            /\ \A s \in Slot : ~(slot'[s].pc = "wake" /\ slot'[s].task = checker.task /\ w \in slot'[s].todo)
        BY <1>1, <2>2, <3>2 DEF Edge, ToWake
      <3> QED BY <2>2, <3>3 DEF Linked, Edge, CheckerToWake, ToWake
    <2>9. \A d \in Task : Linked(w, d)' => Linked(w, d) /\ d # checker.task
      <3>1. ASSUME NEW d \in Task, d = checker.task
            PROVE  ~Linked(w, d)'
        BY <2>2, <2>8, <3>1 DEF Linked, Edge, CheckerToWake, ToWake
      <3> QED BY <2>5, <3>1
    <2>10. /\ \A u \in Task : Kept(u) \/ EndedBy(u) \/ Requeued(u)
           /\ \A u \in Task : Over(u) => Over(u)'
      BY <2>2, <2>7, <2>9, RequeueFacts DEF Linked
    <2>11. CheckerOk'
      BY <2>2, <2>10 DEF Core, CheckerOk, TypeOK, Over
    <2> QED BY <1>1, <2>3, <2>5, <2>6, <2>10, <2>11, SlotsKept, QuietStep
  <1>5. CASE CheckerClose
    <2>1. /\ checker.pc = "wake" /\ checker.waiters = {} /\ UNCHANGED <<state, heap, waits>>
          /\ checker'.pc \in {"idle", "next"} /\ checker'.todo = checker.todo
      BY <1>5 DEF CheckerClose, schedVars, TypeOK
    <2>2. \A x, d \in Task : (Edge(x, d)' <=> Edge(x, d)) /\ (CheckerToWake(x, d)' <=> CheckerToWake(x, d))
      BY <2>1 DEF Edge, CheckerToWake
    <2>3. \A x, d \in Task : Linked(x, d)' <=> Linked(x, d)
      BY <1>2, <2>2 DEF Linked
    <2>4. \A x, d \in Task : PlaceOk(x, d)'
      BY <1>1, <1>2, <2>2 DEF Core, PlaceOk
    <2>5. CheckerOk'
      BY <2>1 DEF Core, CheckerOk, Over
    <2>6. \A u \in Task : Kept(u)
      BY <2>1 DEF Kept
    <2> QED BY <1>1, <2>2, <2>3, <2>4, <2>5, <2>6, SlotsKept, QuietStep
  <1> QED BY <1>3, <1>4, <1>5

LEMMA SettleStep ==
  ASSUME TypeOK, Core, NEW s \in Slot, Settle(s)
  PROVE  Core'
  <1> DEFINE c == slot[s].task
             l == IF Dependents(waits, c) = {} THEN AfterWake(s) ELSE "wake"
             e == [slot[s] EXCEPT !.todo = Dependents(waits, c), !.pc = l]
  <1>1. /\ slot[s].pc = "settle" /\ slot[s].pc \in EndingPc /\ waits' = RemoveEdges(waits, {c})
        /\ slot' = [slot EXCEPT ![s] = e] /\ CompleteCall(c, IF slot[s].ok THEN "ok" ELSE "failed")
        /\ UNCHANGED <<state, heap, origin, checker, fresh>>
    BY SlotFields DEF Settle, At, EndingPc, runVars, TypeOK
  <1>2. c \in Task /\ Over(c)
    BY <1>1, TaskOfSlot DEF Core, SelfOk
  <1>3. l \in {"wake", "inject", "close"}
    BY DEF AfterWake
  <1>4. l # "wake" => Dependents(waits, c) = {}
    BY DEF AfterWake
  <1> HIDE DEF l
  <1>5. /\ e.pc = l /\ e.todo = Dependents(waits, c) /\ e.task = c /\ e.child = slot[s].child
        /\ e.caller = slot[s].caller /\ e.left = slot[s].left /\ e.parked = slot[s].parked
    BY SlotFields DEF Execution
  <1> HIDE DEF e
  <1>6. slot'[s] = e /\ \A r \in Slot \ {s} : slot'[r] = slot[r]
    BY <1>1, SlotMove
  <1>7. \A r \in Slot : SameSlot(r)
    BY <1>1, <1>3, <1>5, <1>6 DEF SameSlot, EndingPc
  <1>8. \A w, d \in Task : Edge(w, d)' <=> Edge(w, d) /\ w # c /\ d # c
    BY <1>1, <1>2, Removed
  <1>9. \A r \in Slot, w, d \in Task : ToWake(r, w, d)' <=> ToWake(r, w, d) \/ (r = s /\ d = c /\ Edge(w, c))
    BY <1>1, <1>4, <1>5, <1>6 DEF ToWake, Edge, Dependents
  <1>10. \A w, d \in Task : CheckerToWake(w, d)' <=> CheckerToWake(w, d)
    BY <1>1 DEF CheckerToWake
  <1>11. \A w, d \in Task : Linked(w, d)' => Linked(w, d)
    BY <1>8, <1>9, <1>10 DEF Linked
  <1>12. \A w, d \in Task : PlaceOk(w, d)'
    BY <1>1, <1>8, <1>9, <1>10 DEF Core, PlaceOk
  <1>13. \A u \in Task : rpc'[u] = "none" <=> rpc[u] = "none"
    BY <1>1 DEF CompleteCall, TypeOK
  <1>14. CheckerOk'
    BY <1>1 DEF Core, CheckerOk, Over
  <1>15. \A u \in Task : Kept(u)
    BY <1>1 DEF Kept
  <1> QED BY <1>1, <1>7, <1>8, <1>11, <1>12, <1>13, <1>14, <1>15, QuietStep

LEMMA WakeStep ==
  ASSUME TypeOK, Core, NEW s \in Slot, NEW w \in Task, Wake(s, w)
  PROVE  Core'
  <1> DEFINE c == slot[s].task
             l == IF slot[s].todo = {w} THEN AfterWake(s) ELSE "wake"
             e == [slot[s] EXCEPT !.todo = @ \ {w}, !.pc = l]
  <1>1. /\ slot[s].pc = "wake" /\ slot[s].pc \in EndingPc /\ w \in slot[s].todo /\ Requeue(w)
        /\ slot' = [slot EXCEPT ![s] = e]
        /\ UNCHANGED <<waits, origin, checker, fresh, rpc>>
    BY SlotFields DEF Wake, At, EndingPc, runVars, TypeOK
  <1>2. c \in Task /\ Over(c) /\ ToWake(s, w, c)
    BY <1>1, TaskOfSlot DEF Core, SelfOk, ToWake
  <1>3. l \in {"wake", "inject", "close"} /\ (l # "wake" => slot[s].todo = {w})
    BY DEF AfterWake
  <1> HIDE DEF l
  <1>4. /\ e.pc = l /\ e.todo = slot[s].todo \ {w} /\ e.task = c /\ e.child = slot[s].child
        /\ e.caller = slot[s].caller /\ e.left = slot[s].left /\ e.parked = slot[s].parked
    BY SlotFields DEF Execution
  <1> HIDE DEF e
  <1>5. slot'[s] = e /\ \A r \in Slot \ {s} : slot'[r] = slot[r]
    BY <1>1, SlotMove
  <1>6. \A r \in Slot : SameSlot(r)
    BY <1>1, <1>3, <1>4, <1>5 DEF SameSlot, EndingPc
  <1>7. \A x, d \in Task : (Edge(x, d)' <=> Edge(x, d)) /\ (CheckerToWake(x, d)' <=> CheckerToWake(x, d))
    BY <1>1 DEF Edge, CheckerToWake
  <1>8. \A r \in Slot, x, d \in Task : ToWake(r, x, d)' <=> ToWake(r, x, d) /\ ~(r = s /\ x = w)
    BY <1>1, <1>3, <1>4, <1>5 DEF ToWake
  <1>9. \A x, d \in Task : Linked(x, d)' => Linked(x, d)
    BY <1>7, <1>8 DEF Linked
  <1>10. \A x, d \in Task : PlaceOk(x, d)'
    BY <1>1, <1>7, <1>8 DEF Core, PlaceOk
  <1>11. \A d \in Task : Linked(w, d)' => Linked(w, d) /\ d # c
    <2>1. PlaceOk(w, c)
      BY <1>2 DEF Core
    <2>2. ~Edge(w, c) /\ ~CheckerToWake(w, c) /\ \A r \in Slot : ToWake(r, w, c) => r = s
      BY <1>2, <2>1 DEF PlaceOk
    <2>3. ASSUME NEW d \in Task, d = c
          PROVE  ~Linked(w, d)'
      <3>1. ~Edge(w, d)' /\ ~CheckerToWake(w, d)' /\ \A r \in Slot : ~ToWake(r, w, d)'
        BY <1>7, <1>8, <2>2, <2>3
      <3> QED BY <3>1 DEF Linked
    <2> QED BY <1>9, <2>3
  <1>12. /\ \A u \in Task : Kept(u) \/ EndedBy(u) \/ Requeued(u)
         /\ \A u \in Task : Over(u) => Over(u)'
    BY <1>1, <1>2, <1>11, RequeueFacts DEF Linked
  <1>13. CheckerOk'
    BY <1>1, <1>12 DEF Core, CheckerOk, TypeOK, Over
  <1> QED BY <1>1, <1>6, <1>7, <1>9, <1>10, <1>12, <1>13, QuietStep

-----------------------------------------------------------------------------
(* Submission and dispatch.                                                *)

LEMMA SubmitStep ==
  ASSUME TypeOK, Core, NEW c \in Task, Submit(c)
  PROVE  Core'
  <1>1. /\ c \in fresh /\ fresh' = fresh \ {c} /\ Enqueue(c)
        /\ UNCHANGED <<slot, waits, origin, checker, rpc>>
    BY DEF Submit
  <1>2. /\ state[c] = Absent /\ heap[c] = 0 /\ ~Over(c)
        /\ \A r \in Slot : slot[r].task # c /\ ~Owns(r, c) /\ ~Holds(r, c)
        /\ \A d \in Task : ~Linked(c, d)
        /\ rpc[c] = "none" /\ \A w \in Task : ~Linked(w, c)
    BY <1>1, NewTask
  <1>3. /\ \A d \in Task \ {c} : state'[d] = state[d] /\ heap'[d] = heap[d]
        /\ \/ state'[c] = "Failed" /\ heap'[c] = 0
           \/ state'[c] = "Queued" /\ heap'[c] = 1
    BY <1>1, <1>2 DEF Enqueue, TypeOK
  <1>4. \A r \in Slot, u \in Task : (Owns(r, u)' <=> Owns(r, u)) /\ (Holds(r, u)' <=> Holds(r, u))
    BY <1>1 DEF Owns, Holds
  <1>5. \A r \in Slot, w, d \in Task : ToWake(r, w, d)' <=> ToWake(r, w, d)
    BY <1>1 DEF ToWake
  <1>6. \A w, d \in Task : (Edge(w, d)' <=> Edge(w, d)) /\ (CheckerToWake(w, d)' <=> CheckerToWake(w, d))
    BY <1>1 DEF Edge, CheckerToWake
  <1>7. \A w, d \in Task : Linked(w, d)' <=> Linked(w, d)
    BY <1>5, <1>6 DEF Linked
  <1>8. \A d \in Task \ {c} : Over(d)' <=> Over(d)
    BY <1>3 DEF Over
  <1>9. ASSUME NEW r \in Slot
        PROVE  SelfOk(r)'
    <2>1. SelfOk(r) /\ slot[r].task \in Task \cup {None} /\ slot[r].task # c
      BY <1>2, SlotFields DEF Core
    <2>2. CASE slot[r].task = None
      BY <1>1, <2>1, <2>2 DEF SelfOk, EndingPc, Owns, OwningPc, DelegatingPc, CallingPc, BirthPc
    <2>3. CASE slot[r].task # None
      BY <1>1, <1>3, <1>4, <1>8, <2>1, <2>3 DEF SelfOk, Over
    <2> QED BY <2>2, <2>3
  <1>10. ASSUME NEW r \in Slot
         PROVE  ChildOk(r)'
    <2>1. ChildOk(r)
      BY DEF Core
    <2>2. slot[r].pc \in DelegatingPc \cup CallingPc =>
             slot[r].child \in Task /\ slot[r].child # c /\ slot[r].child \notin fresh'
      BY <1>1, <2>1 DEF ChildOk
    <2>3. slot[r].pc \in BirthPc => slot[r].pc \in CallingPc
      BY DEF CallingPc
    <2>4. slot[r].pc \in BirthPc => \A d \in Task : ~Linked(slot[r].child, d)'
      BY <1>1, <1>7, <2>1, <2>2, <2>3 DEF ChildOk
    <2>5. slot[r].pc \in BirthPc => (Over(slot[r].child)' <=> Over(slot[r].child))
      BY <1>1, <1>8, <2>2, <2>3
    <2> QED BY <1>1, <1>3, <2>1, <2>2, <2>3, <2>4, <2>5 DEF ChildOk
  <1>11. ASSUME NEW r \in Slot
         PROVE  CallerOk(r)'
    BY <1>1 DEF CallerOk, Core
  <1>12. ASSUME NEW r \in Slot, NEW q \in Slot
         PROVE  PairOk(r, q)'
    <2>1. PairOk(r, q)
      BY DEF Core
    <2> QED BY <1>1, <1>4, <2>1 DEF PairOk
  <1>13. ASSUME NEW u \in Task
         PROVE  TaskOk(u)'
    <2>1. TaskOk(u)
      BY DEF Core
    <2>2. CASE u = c
      BY <1>1, <1>2, <1>3, <1>4, <1>7, <2>2 DEF TaskOk, Over, Terminal, Absent
    <2>3. CASE u # c
      <3>1. heap'[u] = 1 => Over(u)' \/ (state'[u] = "Queued" /\ \A r \in Slot : ~Owns(r, u)')
        BY <1>3, <1>4, <1>8, <2>1, <2>3 DEF TaskOk
      <3> QED BY <1>1, <1>3, <1>6, <1>7, <2>1, <2>3, <3>1 DEF TaskOk
    <2> QED BY <2>2, <2>3
  <1>14. ASSUME NEW w \in Task, NEW d \in Task
         PROVE  PlaceOk(w, d)' /\ LinkOk(w, d)'
    <2>1. PlaceOk(w, d) /\ LinkOk(w, d)
      BY DEF Core
    <2>2. PlaceOk(w, d)'
      BY <1>1, <1>5, <1>6, <2>1 DEF PlaceOk
    <2>3. w # c => (Over(w)' <=> Over(w)) /\ state'[w] = state[w]
      BY <1>3, <1>8
    <2> QED BY <1>1, <1>2, <1>4, <1>7, <2>1, <2>2, <2>3 DEF LinkOk
  <1>15. CheckerOk'
    <2>1. \A u \in Task : Over(u) => Over(u)'
      BY <1>2, <1>8
    <2> QED BY <1>1, <2>1 DEF CheckerOk, Core, TypeOK
  <1> QED BY <1>9, <1>10, <1>11, <1>12, <1>13, <1>14, <1>15 DEF Core

LEMMA DispatchStep ==
  ASSUME TypeOK, Core, NEW n \in Slot, NEW c \in Task, Dispatch(n, c)
  PROVE  Core'
  <1>1. /\ slot[n].pc = "free" /\ heap[c] > 0 /\ state[c] = "Queued"
        /\ UNCHANGED <<state, fresh, waits, origin, checker, rpc>>
    BY DEF Dispatch, NextSlot, At, Runnable, runVars
  <1>2. /\ slot'[n].pc = "begin" /\ slot'[n].task = c /\ slot'[n].caller = None /\ slot'[n].left = 0
        /\ ~slot'[n].parked /\ \A r \in Slot \ {n} : slot'[r] = slot[r]
    <2>1. slot'[n] = [Free EXCEPT !.pc = "begin", !.task = c] /\ \A r \in Slot \ {n} : slot'[r] = slot[r]
      BY DEF Dispatch, TypeOK
    <2> QED BY <2>1, FreeFields DEF Execution
  <1>3. /\ heap[c] = 1 /\ ~Over(c) /\ \A r \in Slot : ~Owns(r, c)
        /\ \A d \in Task : ~Linked(c, d)
    <2>1. TaskOk(c)
      BY DEF Core
    <2>2. heap[c] = 1 /\ ~Over(c) /\ \A r \in Slot : ~Owns(r, c)
      BY <1>1, <2>1 DEF TaskOk, Over, Terminal
    <2>3. \A d \in Task : ~Linked(c, d)
      BY <1>1, <2>2 DEF Core, LinkOk
    <2> QED BY <2>2, <2>3
  <1>4. \A u \in Task : heap'[u] \in {heap[u], 0} /\ heap'[c] = 0
    BY <1>3 DEF Dispatch, TypeOK
  <1>5. \A r \in Slot, u \in Task : Owns(r, u)' <=> Owns(r, u) \/ (r = n /\ u = c)
    BY <1>1, <1>2 DEF Owns, OwningPc, DelegatingPc, CallingPc, BirthPc
  <1>6. \A r \in Slot, u \in Task : Holds(r, u)' <=> Holds(r, u)
    BY <1>1, <1>2 DEF Holds, DelegatingPc, CallingPc, BirthPc
  <1>7. \A r \in Slot, w, d \in Task : ToWake(r, w, d)' <=> ToWake(r, w, d)
    BY <1>1, <1>2 DEF ToWake
  <1>8. \A w, d \in Task : (Edge(w, d)' <=> Edge(w, d)) /\ (CheckerToWake(w, d)' <=> CheckerToWake(w, d))
    BY <1>1 DEF Edge, CheckerToWake
  <1>9. \A w, d \in Task : Linked(w, d)' <=> Linked(w, d)
    BY <1>7, <1>8 DEF Linked
  <1>10. \A u : Over(u)' <=> Over(u)
    BY <1>1 DEF Over
  <1>11. ASSUME NEW r \in Slot
         PROVE  SelfOk(r)'
    <2>1. SelfOk(r)
      BY DEF Core
    <2>2. CASE r = n
      BY <1>1, <1>2, <2>2, Names DEF SelfOk, EndingPc, Expected, Absent
    <2>3. CASE r # n
      BY <1>1, <1>2, <2>1, <2>3 DEF SelfOk, Over, Owns
    <2> QED BY <2>2, <2>3
  <1>12. ASSUME NEW r \in Slot
         PROVE  ChildOk(r)'
    <2>1. ChildOk(r)
      BY DEF Core
    <2>2. CASE r = n
      BY <1>2, <2>2 DEF ChildOk, DelegatingPc, CallingPc, BirthPc
    <2>3. CASE r # n
      <3>1. slot'[r] = slot[r] /\ \A q \in Slot : slot'[q].task \in {slot[q].task, c}
        BY <1>2, <2>3
      <3>2. slot[r].pc \in BirthPc => slot[r].child \in Task /\ slot[r].child # c /\ slot[r].pc \in CallingPc
        BY <1>3, <2>1 DEF ChildOk, CallingPc
      <3>3. slot[r].pc \in BirthPc => \A d \in Task : ~Linked(slot[r].child, d)'
        BY <1>9, <2>1, <3>1, <3>2 DEF ChildOk
      <3>4. slot[r].pc \in BirthPc => heap'[slot[r].child] = 0
        BY <1>4, <2>1, <3>2 DEF ChildOk
      <3> QED BY <1>1, <2>1, <3>1, <3>2, <3>3, <3>4 DEF ChildOk, Over
    <2> QED BY <2>2, <2>3
  <1>13. ASSUME NEW r \in Slot
         PROVE  CallerOk(r)'
    <2>1. CallerOk(r) /\ slot[r].caller \in Slot \cup {None}
      BY SlotFields DEF Core
    <2>2. CASE r = n
      BY <1>2, <2>2 DEF CallerOk
    <2>3. CASE r # n
      BY <1>1, <1>2, <2>1, <2>3 DEF CallerOk
    <2> QED BY <2>2, <2>3
  <1>14. ASSUME NEW r \in Slot, NEW q \in Slot
         PROVE  PairOk(r, q)'
    <2>1. PairOk(r, q)
      BY DEF Core
    <2>2. slot'[r].caller = slot'[q].caller /\ slot'[r].caller # None => r = q
      BY <1>2, <2>1 DEF PairOk
    <2>3. \A u \in Task : Owns(r, u)' /\ Owns(q, u)' => r = q
      BY <1>3, <1>5, <2>1 DEF PairOk
    <2> QED BY <1>6, <2>1, <2>2, <2>3 DEF PairOk
  <1>15. ASSUME NEW u \in Task
         PROVE  TaskOk(u)'
    <2>1. TaskOk(u)
      BY DEF Core
    <2>2. heap'[u] = 1 => Over(u)' \/ (state'[u] = "Queued" /\ \A r \in Slot : ~Owns(r, u)')
      BY <1>1, <1>4, <1>5, <1>10, <2>1 DEF TaskOk
    <2> QED BY <1>1, <1>4, <1>8, <1>9, <2>1, <2>2 DEF TaskOk
  <1>16. ASSUME NEW w \in Task, NEW d \in Task
         PROVE  PlaceOk(w, d)' /\ LinkOk(w, d)'
    <2>1. PlaceOk(w, d) /\ LinkOk(w, d)
      BY DEF Core
    <2>2. PlaceOk(w, d)'
      BY <1>1, <1>7, <1>8, <2>1 DEF PlaceOk
    <2>3. Linked(w, d) => w # c
      BY <1>3
    <2>4. w # c => \A r \in Slot : (Owns(r, w)' <=> Owns(r, w)) /\ (Owns(r, w) => slot'[r] = slot[r])
      BY <1>1, <1>2, <1>5 DEF Owns, OwningPc, DelegatingPc, CallingPc, BirthPc
    <2>5. Linked(w, d)' => \A r \in Slot : Owns(r, w)' => slot'[r].pc \notin {"begin", "setup"}
      BY <1>9, <2>1, <2>3, <2>4 DEF LinkOk
    <2>6. ASSUME Linked(w, d)', ~Over(w)'
          PROVE  /\ state'[w] = "Waiting" \/ \E r \in Slot : Owns(r, w)' /\ slot'[r].pc \in {"child", "park"}
                 /\ \A r \in Slot : Owns(r, w)' => slot'[r].pc \in DelegatingPc /\ slot'[r].child = d
                 /\ \A x \in Task : Linked(w, x)' => d = x
      BY <1>1, <1>9, <1>10, <2>1, <2>3, <2>4, <2>6 DEF LinkOk
    <2> QED BY <2>2, <2>5, <2>6 DEF LinkOk
  <1>17. CheckerOk'
    BY <1>1, <1>10 DEF CheckerOk, Core
  <1> QED BY <1>11, <1>12, <1>13, <1>14, <1>15, <1>16, <1>17 DEF Core

-----------------------------------------------------------------------------
(* Types.                                                                  *)

LEMMA GotoType ==
  ASSUME TypeOK, NEW s \in Slot, NEW l \in Pc, Goto(s, l)
  PROVE  slot' \in [Slot -> Execution]
  <1>1. [slot[s] EXCEPT !.pc = l] \in Execution
    BY SlotFields DEF Execution
  <1>2. slot' = [slot EXCEPT ![s] = [slot[s] EXCEPT !.pc = l]]
    BY SlotFields DEF Goto, TypeOK
  <1> QED BY <1>1, <1>2 DEF TypeOK

LEMMA EndType ==
  ASSUME TypeOK, NEW s \in Slot, slot' = End(s)
  PROVE  slot' \in [Slot -> Execution]
  <1>1. \A r \in Slot : [slot[r] EXCEPT !.pc = "back"] \in Execution
    BY SlotFields DEF Execution, Pc
  <1>2. \A r \in Slot : slot[r] \in Execution
    BY SlotFields
  <1> QED BY <1>1, <1>2, FreeFields DEF End

LEMMA StateType ==
  ASSUME TypeOK, NEW t, NEW l \in TaskState
  PROVE  /\ t \in Task /\ UpdateIfNotTerminal(t, l) => state' \in [Task -> MaybeState]
         /\ Enqueue(t) => /\ state' \in [Task -> MaybeState] /\ heap' \in [Task -> Nat]
                          /\ t \in Task => rejected' \subseteq Task
         /\ Requeue(t) => state' \in [Task -> MaybeState] /\ heap' \in [Task -> Nat]
         /\ CompleteCall(t, "ok") => rpc' \in [Task -> {"none", "open", "ok", "failed"}]
         /\ CompleteCall(t, "failed") => rpc' \in [Task -> {"none", "open", "ok", "failed"}]
         /\ CloseContext(t) => ctx' \in [Task -> BOOLEAN] /\ got' \in [Task -> SUBSET Task]
  <1>1. /\ l \in MaybeState /\ "Failed" \in MaybeState /\ "Queued" \in MaybeState
    BY DEF MaybeState, TaskState
  <1>2. t \in Task /\ UpdateIfNotTerminal(t, l) => state' \in [Task -> MaybeState]
    BY <1>1 DEF UpdateIfNotTerminal, TypeOK
  <1>3. Enqueue(t) => /\ state' \in [Task -> MaybeState] /\ heap' \in [Task -> Nat]
                      /\ t \in Task => rejected' \subseteq Task
    BY <1>1 DEF Enqueue, TypeOK
  <1>4. Requeue(t) => state' \in [Task -> MaybeState] /\ heap' \in [Task -> Nat]
    BY <1>1 DEF Requeue, TypeOK
  <1>5. /\ CompleteCall(t, "ok") => rpc' \in [Task -> {"none", "open", "ok", "failed"}]
        /\ CompleteCall(t, "failed") => rpc' \in [Task -> {"none", "open", "ok", "failed"}]
    BY DEF CompleteCall, TypeOK
  <1>6. CloseContext(t) => ctx' \in [Task -> BOOLEAN] /\ got' \in [Task -> SUBSET Task]
    BY DEF CloseContext, TypeOK
  <1> QED BY <1>2, <1>3, <1>4, <1>5, <1>6

(* A tool call leaves a child, and fewer calls to make.                    *)
LEMMA ToolCallSlots ==
  ASSUME TypeOK, NEW s \in Slot, NEW c \in Task,
         NEW l \in {"child", "adopt", "cchild"}, ToolCall(s, c, l)
  PROVE  /\ slot[s].pc \in {"turn", "act"}
         /\ slot' \in [Slot -> Execution]
         /\ slot'[s].pc = l /\ slot'[s].child = c
         /\ slot'[s].task = slot[s].task /\ slot'[s].caller = slot[s].caller
         /\ \A r \in Slot \ {s} : slot'[r] = slot[r]
  <1> DEFINE n == IF At(s, "turn") THEN MaxCalls - 1 ELSE slot[s].left - 1
             e == [slot[s] EXCEPT !.pc = l, !.child = c, !.left = n]
  <1>1. slot[s].pc \in {"turn", "act"}
    BY DEF ToolCall, At
  <1>2. n \in 0..MaxCalls
    BY SlotFields, BoundAssumption DEF ToolCall, At
  <1>3. slot' = [slot EXCEPT ![s] = e]
    BY SlotFields DEF ToolCall, Execution, TypeOK
  <1> HIDE DEF n
  <1>4. /\ e \in Execution /\ e.pc = l /\ e.child = c
        /\ e.task = slot[s].task /\ e.caller = slot[s].caller
    BY <1>2, SlotFields DEF Execution, Pc
  <1> HIDE DEF e
  <1> QED BY <1>1, <1>3, <1>4 DEF TypeOK

LEMMA ExecuteTypes ==
  ASSUME TypeOK, Roles, NEW s \in Slot, Execute(s)
  PROVE  TypeOK'
  <1> USE DEF schedVars, ctxVars, runVars
  <1>1. {"Running", "Waiting", "Complete", "Failed"} \subseteq TaskState
    BY DEF TaskState
  <1>2. {"setup", "turn", "done", "fail", "park", "act", "enqueue", "cstart", "cpark", "hear", "paused",
         "failing", "inject", "settle", "wake", "close", "await"} \subseteq Pc
    BY DEF Pc
  <1> DEFINE t == slot[s].task
  <1>19. /\ slot[s].pc # "free" => t \in Task
         /\ slot[s].pc \in ChildPc => slot[s].child \in Task
    BY DEF Roles, Role
  <1>3. CASE Begin(s)
    <2>1. slot' \in [Slot -> Execution]
      BY <1>2, <1>3, GotoType, EndType DEF Begin, GotoOrEnd, Goto
    <2> QED BY <1>1, <1>3, <1>19, <2>1, StateType DEF Begin, At, TypeOK
  <1>4. CASE Setup(s) \/ Abort(s) \/ Quit(s) \/ CallHear(s) \/ Fail(s)
    <2>1. slot' \in [Slot -> Execution]
      BY <1>2, <1>4, GotoType DEF Setup, Abort, Quit, CallHear, Fail
    <2>2. ctx' \in [Task -> BOOLEAN]
      BY <1>4 DEF Setup, Abort, Quit, CallHear, Fail, TypeOK
    <2> QED BY <1>4, <2>1, <2>2 DEF Setup, Abort, Quit, CallHear, Fail, TypeOK
  <1>5. CASE Answer(s)
    <2>1. slot' \in [Slot -> Execution]
      BY <1>2, <1>5, GotoType DEF Answer
    <2> QED BY <1>1, <1>5, <2>1, StateType DEF Answer, TypeOK
  <1>6. CASE EndBatch(s)
    <2> DEFINE l == IF slot[s].parked THEN "paused" ELSE "turn"
               e == [slot[s] EXCEPT !.pc = l, !.left = 0, !.child = None, !.parked = FALSE]
    <2>1. l \in Pc /\ 0 \in 0..MaxCalls /\ slot[s] \in Execution
      BY <1>2, SlotFields, BoundAssumption
    <2>2. slot' = [slot EXCEPT ![s] = e]
      BY <1>6, SlotFields DEF EndBatch, TypeOK
    <2> HIDE DEF l
    <2>4. e \in Execution
      BY <2>1 DEF Execution
    <2> HIDE DEF e
    <2>3. slot' \in [Slot -> Execution]
      BY <2>2, <2>4 DEF TypeOK
    <2> QED BY <1>6, <2>3 DEF EndBatch, TypeOK
  <1>7. CASE \E c \in Task : Delegate(s, c) \/ Spawn(s, c) \/ CallAgent(s, c)
    <2>1. PICK c \in Task : Delegate(s, c) \/ Spawn(s, c) \/ CallAgent(s, c)
      BY <1>7
    <2>2. PICK l \in {"child", "adopt", "cchild"} : ToolCall(s, c, l)
      BY <2>1 DEF Delegate, Spawn, CallAgent
    <2>3. slot' \in [Slot -> Execution] /\ slot[s].task \in Task
      BY <1>19, <2>2, ToolCallSlots
    <2>4. /\ fresh' \subseteq Task /\ origin' \in [Task -> Task \cup {None}]
          /\ UNCHANGED <<kids, ctx, got, checker, operator, cancels, timeouts>>
      BY <2>2, <2>3 DEF ToolCall, TypeOK
    <2>5. /\ waits' \subseteq Task \X Task /\ rpc' \in [Task -> {"none", "open", "ok", "failed"}]
          /\ state' \in [Task -> MaybeState] /\ heap' \in [Task -> Nat] /\ rejected' \subseteq Task
      <3>1. CASE Delegate(s, c)
        BY <2>3, <3>1 DEF Delegate, TypeOK
      <3>2. CASE Spawn(s, c)
        BY <1>1, <3>2, StateType DEF Spawn, TypeOK
      <3>3. CASE CallAgent(s, c)
        BY <3>3 DEF CallAgent, TypeOK, MaybeState, TaskState
      <3> QED BY <2>1, <3>1, <3>2, <3>3
    <2> QED BY <2>3, <2>4, <2>5 DEF TypeOK
  <1>8. CASE DelegateChild(s) \/ SpawnAdopt(s) \/ CallChild(s)
    <2>1. slot' \in [Slot -> Execution]
      BY <1>2, <1>8, GotoType DEF DelegateChild, SpawnAdopt, CallChild, RegisterChild
    <2>2. slot[s].child \in Task
      BY <1>8, <1>19 DEF DelegateChild, SpawnAdopt, CallChild, At, ChildPc, DelegatingPc, CallingPc, BirthPc
    <2>3. kids' \in [Task -> SUBSET Task]
      BY <1>8, <2>2 DEF DelegateChild, SpawnAdopt, CallChild, RegisterChild, TypeOK
    <2> QED BY <1>8, <2>1, <2>3 DEF DelegateChild, SpawnAdopt, CallChild, RegisterChild, TypeOK
  <1>9. CASE ParkParent(s)
    <2> DEFINE e == [slot[s] EXCEPT !.pc = "enqueue", !.parked = @ \/ state[slot[s].task] \notin Terminal]
    <2>1. e \in Execution
      BY <1>2, SlotFields DEF Execution
    <2>2. slot' = [slot EXCEPT ![s] = e]
      BY <1>9, SlotFields DEF ParkParent, TypeOK
    <2> HIDE DEF e
    <2>3. slot' \in [Slot -> Execution]
      BY <2>1, <2>2 DEF TypeOK
    <2> QED BY <1>1, <1>9, <1>19, <2>3, StateType DEF ParkParent, At, TypeOK
  <1>10. CASE EnqueueChild(s)
    <2>1. slot' \in [Slot -> Execution]
      BY <1>2, <1>10, GotoType DEF EnqueueChild
    <2>2. slot[s].child \in Task
      BY <1>10, <1>19 DEF EnqueueChild, At, ChildPc, DelegatingPc
    <2> QED BY <1>1, <1>10, <2>1, <2>2, StateType DEF EnqueueChild, TypeOK
  <1>11. CASE CallStart(s) \/ CallBack(s)
    <2>1. slot' \in [Slot -> Execution]
      BY <1>2, <1>11, GotoType DEF CallStart, CallBack
    <2>2. state' \in [Task -> MaybeState]
      <3>1. slot[s].pc = "cstart" => slot[s].child \in Task
        BY <1>19 DEF ChildPc, CallingPc, BirthPc
      <3> QED BY <1>1, <1>11, <1>19, <3>1, StateType DEF CallStart, CallBack, At
    <2> QED BY <1>11, <2>1, <2>2 DEF CallStart, CallBack, TypeOK
  <1>12. CASE \E r \in Slot : CallPark(s, r)
    <2>1. PICK r \in Slot : CallPark(s, r)
      BY <1>12
    <2> DEFINE e == [slot[s] EXCEPT !.pc = "await"]
               f == [Free EXCEPT !.pc = "setup", !.caller = s, !.task = slot[s].child]
    <2>2. e \in Execution /\ f \in Execution
      BY <1>2, SlotFields, FreeFields DEF Execution
    <2>3. s # r
      BY <2>1 DEF CallPark, NextSlot, At
    <2>4. slot' = [slot EXCEPT ![s] = e, ![r] = f]
      BY <2>1, <2>3, SlotFields DEF CallPark, TypeOK
    <2> HIDE DEF e, f
    <2>5. slot' \in [Slot -> Execution]
      BY <2>2, <2>4 DEF TypeOK
    <2> QED BY <1>1, <1>19, <2>1, <2>5, StateType DEF CallPark, At, TypeOK
  <1>13. CASE Succeed(s)
    <2> DEFINE e == [slot[s] EXCEPT !.ok = TRUE, !.pc = "settle"]
    <2>1. e \in Execution
      BY <1>2, SlotFields DEF Execution
    <2>2. slot' = End(s) \/ slot' = [slot EXCEPT ![s] = e]
      BY <1>13, SlotFields DEF Succeed, TypeOK
    <2> HIDE DEF e
    <2>3. slot' \in [Slot -> Execution]
      BY <2>1, <2>2, EndType DEF TypeOK
    <2> QED BY <1>1, <1>13, <1>19, <2>3, StateType DEF Succeed, At, TypeOK
  <1>14. CASE Failing(s)
    <2>1. slot' \in [Slot -> Execution]
      BY <1>2, <1>14, GotoType, EndType DEF Failing, GotoOrEnd, Goto
    <2> QED BY <1>1, <1>14, <1>19, <2>1, StateType DEF Failing, At, TypeOK
  <1>15. CASE Pause(s) \/ Close(s)
    <2>1. slot' \in [Slot -> Execution]
      BY <1>15, EndType DEF Pause, Close
    <2> QED BY <1>1, <1>15, <2>1, StateType DEF Pause, Close, TypeOK
  <1>16. CASE Inject(s)
    <2>1. slot' \in [Slot -> Execution]
      BY <1>2, <1>16, GotoType, EndType DEF Inject, GotoOrEnd, Goto
    <2>2. slot[s].task \in Task
      BY <1>16, <1>19 DEF Inject, At
    <2>3. got' \in [Task -> SUBSET Task]
      BY <1>16, <2>2 DEF Inject, TypeOK
    <2> QED BY <1>16, <2>1, <2>3 DEF Inject, TypeOK
  <1>17. CASE Settle(s)
    <2> DEFINE l == IF Dependents(waits, slot[s].task) = {} THEN AfterWake(s) ELSE "wake"
               e == [slot[s] EXCEPT !.todo = Dependents(waits, slot[s].task), !.pc = l]
    <2>1. l \in Pc /\ Dependents(waits, slot[s].task) \in SUBSET Task
      BY <1>2 DEF AfterWake, Dependents
    <2>2. slot' = [slot EXCEPT ![s] = e]
      BY <1>17, SlotFields DEF Settle, TypeOK
    <2> HIDE DEF l
    <2>3. e \in Execution
      BY <2>1, SlotFields DEF Execution
    <2> HIDE DEF e
    <2>4. slot' \in [Slot -> Execution]
      BY <2>2, <2>3 DEF TypeOK
    <2>5. waits' \subseteq Task \X Task
      BY <1>17 DEF Settle, RemoveEdges, TypeOK
    <2>6. rpc' \in [Task -> {"none", "open", "ok", "failed"}]
      BY <1>1, <1>17, StateType DEF Settle
    <2> QED BY <1>17, <2>4, <2>5, <2>6 DEF Settle, TypeOK
  <1>18. CASE \E w \in Task : Wake(s, w)
    <2>1. PICK w \in Task : Wake(s, w)
      BY <1>18
    <2> DEFINE l == IF slot[s].todo = {w} THEN AfterWake(s) ELSE slot[s].pc
               e == [slot[s] EXCEPT !.todo = @ \ {w}, !.pc = l]
    <2>2. l \in Pc
      BY <1>2, SlotFields DEF AfterWake
    <2>3. slot' = [slot EXCEPT ![s] = e]
      BY <2>1, SlotFields DEF Wake, TypeOK
    <2> HIDE DEF l
    <2>4. e \in Execution
      BY <2>2, SlotFields DEF Execution
    <2> HIDE DEF e
    <2>5. slot' \in [Slot -> Execution]
      BY <2>3, <2>4 DEF TypeOK
    <2> QED BY <1>1, <2>1, <2>5, StateType DEF Wake, TypeOK
  <1> QED BY <1>3, <1>4, <1>5, <1>6, <1>7, <1>8, <1>9, <1>10, <1>11, <1>12, <1>13, <1>14, <1>15,
             <1>16, <1>17, <1>18 DEF Execute

LEMMA OtherTypes ==
  ASSUME TypeOK,
         \/ \E t \in Task : Submit(t) \/ Cancel(t) \/ SweepCall(t)
         \/ Executor
         \/ \E S \in SUBSET Task : TimeOut(S)
         \/ Check
         \/ Cascade
  PROVE  TypeOK'
  <1> USE DEF schedVars, ctxVars, runVars
  <1>1. {"Cancelled", "Failed", "Queued"} \subseteq TaskState /\ "Cancelled" \in MaybeState /\ "Failed" \in MaybeState
    BY DEF TaskState, MaybeState
  <1>2. CASE \E t \in Task : Submit(t)
    BY <1>1, <1>2, StateType DEF Submit, TypeOK
  <1>3. CASE \E t \in Task : Cancel(t)
    <2>1. cancels' \in 0..MaxCancels
      BY <1>3, BoundAssumption DEF Cancel, TypeOK
    <2> QED BY <1>1, <1>3, <2>1 DEF Cancel, CancelTask, TypeOK
  <1>4. CASE \E t \in Task : SweepCall(t)
    BY <1>4 DEF SweepCall, TypeOK
  <1>5. CASE IdleTick
    BY <1>5 DEF IdleTick, TypeOK
  <1>6. CASE \E s \in Slot, t \in Task : Dispatch(s, t)
    <2>1. PICK s \in Slot, t \in Task : Dispatch(s, t)
      BY <1>6
    <2>2. heap[t] - 1 \in Nat
      BY <2>1 DEF Dispatch, Runnable, TypeOK
    <2>3. heap' \in [Task -> Nat]
      BY <2>1, <2>2 DEF Dispatch, TypeOK
    <2>4. [Free EXCEPT !.pc = "begin", !.task = t] \in Execution
      BY FreeFields DEF Execution, Pc
    <2>5. slot' \in [Slot -> Execution]
      BY <2>1, <2>4 DEF Dispatch, TypeOK
    <2> QED BY <2>1, <2>3, <2>5 DEF Dispatch, TypeOK
  <1>7. CASE \E S \in SUBSET Task : TimeOut(S)
    <2>1. PICK S \in SUBSET Task : TimeOut(S)
      BY <1>7
    <2>2. S \subseteq Task /\ timeouts' <= MaxTimeouts /\ timeouts' \in Nat
      <3>1. Cardinality(S) \in Nat
        BY BoundAssumption, FS_Subset, FS_CardinalityType
      <3>2. timeouts \in Nat /\ MaxTimeouts \in Nat
        BY BoundAssumption DEF TypeOK
      <3>3. timeouts' = timeouts + Cardinality(S) /\ timeouts + Cardinality(S) <= MaxTimeouts
        BY <2>1 DEF TimeOut
      <3> QED BY <3>1, <3>2, <3>3
    <2>3. state' \in [Task -> MaybeState]
      BY <1>1, <2>1 DEF TimeOut, TypeOK
    <2>4. timeouts' \in 0..MaxTimeouts
      BY <2>2, BoundAssumption
    <2> QED BY <2>1, <2>2, <2>3, <2>4 DEF TimeOut, TypeOK
  <1>8. CASE \E t \in Task : CheckerSettle(t)
    <2>1. PICK t \in Task : CheckerSettle(t)
      BY <1>8
    <2>2. waits' \subseteq Task \X Task /\ Dependents(waits, t) \in SUBSET Task
      BY <2>1 DEF CheckerSettle, RemoveEdges, Dependents, TypeOK
    <2> QED BY <2>1, <2>2 DEF CheckerSettle, TypeOK
  <1>9. CASE \E w \in Task : CheckerWake(w)
    <2>1. PICK w \in Task : CheckerWake(w)
      BY <1>9
    <2>2. state' \in [Task -> MaybeState] /\ heap' \in [Task -> Nat]
      BY <1>1, <2>1, StateType DEF CheckerWake
    <2> QED BY <2>1, <2>2 DEF CheckerWake, TypeOK
  <1>10. CASE CheckerClose
    BY <1>1, <1>10, StateType DEF CheckerClose, TypeOK
  <1>11. CASE CancelClose
    <2>1. operator.task \in Task
      BY <1>11 DEF CancelClose, TypeOK
    <2> QED BY <1>1, <1>11, <2>1, StateType DEF CancelClose, TypeOK
  <1>12. CASE \E t \in Task : CancelCascade(t)
    BY <1>1, <1>12 DEF CancelCascade, CancelTask, TypeOK
  <1> QED BY <1>2, <1>3, <1>4, <1>5, <1>6, <1>7, <1>8, <1>9, <1>10, <1>11, <1>12
          DEF Executor, Check, Cascade

-----------------------------------------------------------------------------
(* Types, for answers of any number of calls.                              *)

LEMMA CoreRoles ==
  ASSUME TypeOK, Core, Adopted
  PROVE  Roles
  <1> SUFFICES ASSUME NEW s \in Slot
               PROVE  Role(s)
    BY DEF Roles
  <1>1. slot[s].pc # "free" => slot[s].task \in Task
    BY TaskOfSlot
  <1>2. slot[s].pc \in ChildPc => slot[s].child \in Task
    BY DEF ChildPc, Core, ChildOk, Adopted
  <1>3. slot[s].caller # None =>
          /\ slot[slot[s].caller].pc = "await"
          /\ \A r \in Slot : slot[r].caller = slot[s].caller => r = s
    BY DEF Core, CallerOk, PairOk
  <1> QED BY <1>1, <1>2, <1>3 DEF Role

(* An execution goes on, with its task and for its caller.                 *)
LEMMA MoveRoles ==
  ASSUME TypeOK, Roles, NEW s \in Slot, slot[s].pc \notin {"free", "await"},
         slot'[s].task = slot[s].task, slot'[s].caller = slot[s].caller,
         slot'[s].pc \in ChildPc => slot'[s].child \in Task,
         \A r \in Slot \ {s} : slot'[r] = slot[r]
  PROVE  Roles'
  <1> SUFFICES ASSUME NEW r \in Slot
               PROVE  Role(r)'
    BY DEF Roles
  <1>1. /\ slot[r].pc # "free" => slot[r].task \in Task
        /\ slot[r].pc \in ChildPc => slot[r].child \in Task
        /\ slot[r].caller \in Slot \cup {None}
        /\ slot[r].caller # None =>
              /\ slot[slot[r].caller].pc = "await"
              /\ \A q \in Slot : slot[q].caller = slot[r].caller => q = r
    BY SlotFields DEF Roles, Role
  <1>2. \A q \in Slot : slot'[q].caller = slot[q].caller
    OBVIOUS
  <1>3. slot'[r].pc # "free" => slot'[r].task \in Task
    BY <1>1 DEF Roles, Role
  <1>4. slot'[r].pc \in ChildPc => slot'[r].child \in Task
    BY <1>1
  <1>5. slot'[r].caller # None => slot'[slot'[r].caller].pc = "await"
    BY <1>1, <1>2
  <1> QED BY <1>1, <1>2, <1>3, <1>4, <1>5 DEF Role

LEMMA EndRoles ==
  ASSUME TypeOK, Roles, NEW s \in Slot, slot[s].pc # "await", slot' = End(s)
  PROVE  Roles'
  <1> SUFFICES ASSUME NEW r \in Slot
               PROVE  Role(r)'
    BY DEF Roles
  <1>1. \A q \in Slot : /\ q = s => slot'[q] = Free
                        /\ q # s /\ q = slot[s].caller => slot'[q] = [slot[q] EXCEPT !.pc = "back"]
                        /\ q # s /\ q # slot[s].caller => slot'[q] = slot[q]
    BY DEF End
  <1>2. \A q \in Slot : /\ slot[q] \in Execution
                        /\ [slot[q] EXCEPT !.pc = "back"].task = slot[q].task
                        /\ [slot[q] EXCEPT !.pc = "back"].child = slot[q].child
                        /\ [slot[q] EXCEPT !.pc = "back"].caller = slot[q].caller
    BY SlotFields DEF Execution
  <1>3. r # s => /\ slot'[r].task = slot[r].task /\ slot'[r].child = slot[r].child
                 /\ slot'[r].caller = slot[r].caller
                 /\ r = slot[s].caller => slot[r].pc = "await"
    <2>1. r = slot[s].caller => slot[r].pc = "await"
      BY Names DEF Roles, Role
    <2>2. ASSUME r # s
          PROVE  /\ slot'[r].task = slot[r].task /\ slot'[r].child = slot[r].child
                 /\ slot'[r].caller = slot[r].caller
      <3>1. CASE r = slot[s].caller
        <4>1. slot'[r] = [slot[r] EXCEPT !.pc = "back"]
          BY <1>1, <2>2, <3>1
        <4> QED BY <1>2, <4>1
      <3>2. CASE r # slot[s].caller
        BY <1>1, <2>2, <3>2
      <3> QED BY <3>1, <3>2
    <2> QED BY <2>1, <2>2
  <1>4. CASE r = s
    BY <1>1, <1>4, FreeFields DEF Role, ChildPc, DelegatingPc, CallingPc, BirthPc
  <1>5. CASE r # s
    <2>1. slot'[r].pc # "free" => slot'[r].task \in Task
      BY <1>1, <1>3, <1>5 DEF Roles, Role
    <2>2. slot'[r].pc \in ChildPc => slot'[r].child \in Task
      BY <1>1, <1>3, <1>5 DEF Roles, Role, ChildPc, CallingPc
    <2>3. ASSUME slot'[r].caller # None
          PROVE  /\ slot'[slot'[r].caller].pc = "await"
                 /\ \A q \in Slot : slot'[q].caller = slot'[r].caller => q = r
      <3>1. /\ slot[r].caller \in Slot /\ slot[slot[r].caller].pc = "await"
            /\ \A q \in Slot : slot[q].caller = slot[r].caller => q = r
        BY <1>3, <1>5, <2>3, SlotFields DEF Roles, Role
      <3>2. slot[r].caller # slot[s].caller
        BY <1>5, <3>1
      <3>3. \A q \in Slot : slot'[q].caller = slot'[r].caller => q = r
        <4>1. \A q \in Slot : q # s => slot'[q].caller = slot[q].caller
          BY <1>1, <1>2
        <4>2. slot'[s].caller = None
          BY <1>1, FreeFields
        <4> QED BY <1>5, <2>3, <3>1, <4>1, <4>2
      <3>4. slot[r].caller # s
        BY <3>1
      <3> QED BY <1>1, <1>3, <1>5, <3>1, <3>2, <3>3, <3>4
    <2> QED BY <2>1, <2>2, <2>3 DEF Role
  <1> QED BY <1>4, <1>5

(* Executions mostly go on, with no child but the one they have, or end.   *)
LEMMA PlainMoves ==
  ASSUME TypeOK, NEW s \in Slot, Execute(s),
         ~\E c \in Task : Delegate(s, c) \/ Spawn(s, c) \/ CallAgent(s, c),
         ~\E r \in Slot : CallPark(s, r)
  PROVE  /\ slot[s].pc \notin {"free", "await"}
         /\ \/ slot' = End(s)
            \/ /\ slot'[s].task = slot[s].task /\ slot'[s].caller = slot[s].caller
               /\ slot'[s].pc \notin {"free", "await"}
               /\ slot'[s].pc \in ChildPc => slot[s].pc \in ChildPc /\ slot'[s].child = slot[s].child
               /\ slot'[s].pc \in CallingPc => slot[s].pc \in CallingPc
               /\ slot'[s].pc \in DelegatingPc => slot[s].pc \in {"child", "park"}
               /\ \A r \in Slot \ {s} : slot'[r] = slot[r]
  <1> DEFINE Fits(l) == /\ l \in ChildPc => slot[s].pc \in ChildPc
                        /\ l \in DelegatingPc => slot[s].pc \in {"child", "park"}
                        /\ l \in CallingPc => slot[s].pc \in CallingPc
  <1>1. slot[s].pc \notin {"free", "await"}
    BY DEF Execute, Begin, Setup, Abort, Quit, Answer, EndBatch, DelegateChild, ParkParent, EnqueueChild,
       SpawnAdopt, CallChild, CallStart, CallBack, CallHear, Succeed, Fail, Pause, Failing, Inject, Settle,
       Wake, Close, At
  <1>2. \/ slot' = End(s)
        \/ /\ slot'[s].task = slot[s].task /\ slot'[s].caller = slot[s].caller
           /\ slot'[s].pc \notin {"free", "await"}
           /\ slot'[s].pc \in ChildPc => slot[s].pc \in ChildPc /\ slot'[s].child = slot[s].child
           /\ slot'[s].pc \in CallingPc => slot[s].pc \in CallingPc
           /\ slot'[s].pc \in DelegatingPc => slot[s].pc \in {"child", "park"}
           /\ \A r \in Slot \ {s} : slot'[r] = slot[r]
    <2>0. CallingPc \subseteq ChildPc /\ DelegatingPc \subseteq ChildPc /\ "await" \in ChildPc
      BY DEF ChildPc, CallingPc
    <2>1. \A e : slot' = [slot EXCEPT ![s] = e] =>
                    slot'[s] = e /\ \A r \in Slot \ {s} : slot'[r] = slot[r]
      BY SlotMove
    <2>2. slot[s] \in Execution
      BY SlotFields
    <2>3. CASE \E l \in Pc \ {"free", "await"} : Goto(s, l) /\ Fits(l)
      <3>1. PICK l \in Pc \ {"free", "await"} : Goto(s, l) /\ Fits(l)
        BY <2>3
      <3> DEFINE e == [slot[s] EXCEPT !.pc = l]
      <3>2. slot' = [slot EXCEPT ![s] = e]
        BY <3>1 DEF Goto
      <3>3. e.task = slot[s].task /\ e.caller = slot[s].caller /\ e.child = slot[s].child /\ e.pc = l
        BY <2>2 DEF Execution
      <3> HIDE DEF e
      <3> QED BY <2>0, <2>1, <3>1, <3>2, <3>3
    <2>4. CASE EndBatch(s)
      <3> DEFINE l == IF slot[s].parked THEN "paused" ELSE "turn"
                 e == [slot[s] EXCEPT !.pc = l, !.left = 0, !.child = None, !.parked = FALSE]
      <3>1. slot' = [slot EXCEPT ![s] = e]
        BY <2>2, <2>4, SlotFields DEF EndBatch, TypeOK
      <3>2. l \notin ChildPc /\ l # "free"
        BY DEF ChildPc, DelegatingPc, CallingPc, BirthPc
      <3> HIDE DEF l
      <3>3. e.task = slot[s].task /\ e.caller = slot[s].caller /\ e.pc = l
        BY <2>2 DEF Execution
      <3> HIDE DEF e
      <3> QED BY <2>0, <2>1, <3>1, <3>2, <3>3
    <2>5. CASE ParkParent(s)
      <3> DEFINE e == [slot[s] EXCEPT !.pc = "enqueue", !.parked = @ \/ state[slot[s].task] \notin Terminal]
      <3>1. slot' = [slot EXCEPT ![s] = e]
        BY <2>5, SlotFields DEF ParkParent, TypeOK
      <3>2. e.task = slot[s].task /\ e.caller = slot[s].caller /\ e.child = slot[s].child
        BY <2>2 DEF Execution
      <3>3. slot[s].pc = "park" /\ slot[s].pc \in ChildPc /\ e.pc = "enqueue" /\ "enqueue" \notin CallingPc
        BY <2>2, <2>5 DEF ParkParent, At, ChildPc, DelegatingPc, CallingPc, BirthPc, Execution
      <3> HIDE DEF e
      <3> QED BY <2>0, <2>1, <3>1, <3>2, <3>3
    <2>6. CASE Succeed(s)
      <3> DEFINE e == [slot[s] EXCEPT !.ok = TRUE, !.pc = "settle"]
      <3>1. slot' = End(s) \/ slot' = [slot EXCEPT ![s] = e]
        BY <2>6, SlotFields DEF Succeed, TypeOK
      <3>2. e.task = slot[s].task /\ e.caller = slot[s].caller /\ e.pc = "settle"
        BY <2>2 DEF Execution
      <3>3. "settle" \notin ChildPc
        BY DEF ChildPc, DelegatingPc, CallingPc, BirthPc
      <3> HIDE DEF e
      <3> QED BY <2>0, <2>1, <3>1, <3>2, <3>3
    <2>7. CASE Settle(s) \/ \E w \in Task : Wake(s, w)
      <3>1. PICK l \in {"wake", "inject", "close"} : \E D :
               slot' = [slot EXCEPT ![s] = [slot[s] EXCEPT !.todo = D, !.pc = l]]
        <4>1. slot[s].pc \in Pc /\ AfterWake(s) \in {"inject", "close"}
          BY SlotFields DEF AfterWake
        <4>2. CASE Settle(s)
          <5> DEFINE D == Dependents(waits, slot[s].task)
                     l == IF D = {} THEN AfterWake(s) ELSE "wake"
          <5>1. l \in {"wake", "inject", "close"}
            BY <4>1
          <5>2. slot' = [slot EXCEPT ![s] = [slot[s] EXCEPT !.todo = D, !.pc = l]]
            BY <4>2, SlotFields DEF Settle, TypeOK
          <5> HIDE DEF D, l
          <5> QED BY <5>1, <5>2
        <4>3. ASSUME NEW w \in Task, Wake(s, w)
              PROVE  \E l \in {"wake", "inject", "close"} : \E D :
                        slot' = [slot EXCEPT ![s] = [slot[s] EXCEPT !.todo = D, !.pc = l]]
          <5> DEFINE D == slot[s].todo \ {w}
                     l == IF slot[s].todo = {w} THEN AfterWake(s) ELSE slot[s].pc
          <5>1. l \in {"wake", "inject", "close"}
            BY <4>1, <4>3 DEF Wake, At
          <5>2. slot' = [slot EXCEPT ![s] = [slot[s] EXCEPT !.todo = D, !.pc = l]]
            BY <4>3, SlotFields DEF Wake, TypeOK
          <5> HIDE DEF D, l
          <5> QED BY <5>1, <5>2
        <4> QED BY <2>7, <4>2, <4>3
      <3>2. PICK D : slot' = [slot EXCEPT ![s] = [slot[s] EXCEPT !.todo = D, !.pc = l]]
        BY <3>1
      <3> DEFINE e == [slot[s] EXCEPT !.todo = D, !.pc = l]
      <3>3. e.task = slot[s].task /\ e.caller = slot[s].caller /\ e.pc = l
        BY <2>2 DEF Execution
      <3>4. l \notin ChildPc /\ l # "free"
        BY DEF ChildPc, DelegatingPc, CallingPc, BirthPc
      <3>5. slot' = [slot EXCEPT ![s] = e]
        BY <3>2
      <3> HIDE DEF e
      <3> QED BY <2>0, <2>1, <3>3, <3>4, <3>5
    <2>8. CASE slot' = End(s)
      BY <2>8
    <2>9. CASE \/ Begin(s) \/ Setup(s) \/ Abort(s) \/ Quit(s) \/ Answer(s) \/ DelegateChild(s)
               \/ EnqueueChild(s) \/ SpawnAdopt(s) \/ CallChild(s) \/ CallStart(s) \/ CallBack(s)
               \/ CallHear(s) \/ Fail(s) \/ Pause(s) \/ Failing(s) \/ Inject(s) \/ Close(s)
      <3>1. slot' = End(s) \/ \E l \in Pc \ {"free", "await"} : Goto(s, l) /\ Fits(l)
        <4> HIDE DEF Fits
        <4>1. {"setup", "turn", "done", "fail", "act", "failing", "inject", "settle", "paused"}
                 \subseteq {l \in Pc \ {"free", "await"} : Fits(l)}
          BY DEF Fits, Pc, ChildPc, DelegatingPc, CallingPc, BirthPc
        <4>2. CASE Begin(s) \/ Setup(s) \/ Abort(s) \/ Quit(s) \/ Answer(s)
          BY <4>1, <4>2 DEF Begin, Setup, Abort, Quit, Answer, GotoOrEnd, Goto
        <4>3. CASE EnqueueChild(s) \/ SpawnAdopt(s) \/ CallHear(s)
          BY <4>1, <4>3 DEF EnqueueChild, SpawnAdopt, RegisterChild, CallHear
        <4>4. CASE DelegateChild(s) \/ CallChild(s) \/ CallStart(s) \/ CallBack(s)
          <5>1. {"park", "cstart", "cpark", "hear"} \subseteq Pc \ {"free", "await"}
            BY DEF Pc
          <5>2. slot[s].pc \in ChildPc
            BY <4>4 DEF DelegateChild, CallChild, CallStart, CallBack, At, ChildPc, DelegatingPc, CallingPc, BirthPc
          <5>3. CASE DelegateChild(s)
            <6>1. Fits("park")
              BY <5>2, <5>3 DEF Fits, CallingPc, BirthPc, DelegateChild, At
            <6> QED BY <5>1, <5>3, <6>1 DEF DelegateChild, RegisterChild
          <5>4. CASE CallChild(s) \/ CallStart(s) \/ CallBack(s)
            <6>1. slot[s].pc \in CallingPc
              BY <5>4 DEF CallChild, CallStart, CallBack, At, CallingPc, BirthPc
            <6>2. Fits("cstart") /\ Fits("cpark") /\ Fits("hear")
              BY <5>2, <6>1 DEF Fits, DelegatingPc
            <6> QED BY <5>1, <5>4, <6>2 DEF CallChild, CallStart, CallBack, RegisterChild
          <5> QED BY <4>4, <5>3, <5>4
        <4>5. CASE Fail(s) \/ Pause(s) \/ Failing(s) \/ Inject(s) \/ Close(s)
          BY <4>1, <4>5 DEF Fail, Pause, Failing, Inject, Close, GotoOrEnd, Goto
        <4> QED BY <2>9, <4>2, <4>3, <4>4, <4>5
      <3> QED BY <2>3, <3>1
    <2> QED BY <2>4, <2>5, <2>6, <2>7, <2>9 DEF Execute
  <1> QED BY <1>1, <1>2

LEMMA ExecuteRoles ==
  ASSUME TypeOK, Roles, NEW s \in Slot, Execute(s)
  PROVE  Roles'
  <1>1. CASE \E c \in Task : Delegate(s, c) \/ Spawn(s, c) \/ CallAgent(s, c)
    <2>1. PICK c \in Task : \E l \in {"child", "adopt", "cchild"} : ToolCall(s, c, l)
      BY <1>1 DEF Delegate, Spawn, CallAgent
    <2>2. /\ slot[s].pc \notin {"free", "await"} /\ slot'[s].child \in Task
          /\ slot'[s].task = slot[s].task /\ slot'[s].caller = slot[s].caller
          /\ \A r \in Slot \ {s} : slot'[r] = slot[r]
      BY <2>1, ToolCallSlots
    <2> QED BY <2>2, MoveRoles
  <1>2. CASE \E r \in Slot : CallPark(s, r)
    <2>1. PICK r \in Slot : CallPark(s, r)
      BY <1>2
    <2> DEFINE e == [slot[s] EXCEPT !.pc = "await"]
               f == [Free EXCEPT !.pc = "setup", !.caller = s, !.task = slot[s].child]
    <2>2. s # r /\ slot[s].pc = "cpark" /\ slot[r].pc = "free"
      BY <2>1 DEF CallPark, NextSlot, At
    <2>3. slot' = [slot EXCEPT ![s] = e, ![r] = f]
      BY <2>1, <2>2, SlotFields DEF CallPark, TypeOK
    <2>4. /\ e.pc = "await" /\ e.task = slot[s].task /\ e.child = slot[s].child /\ e.caller = slot[s].caller
          /\ f.pc = "setup" /\ f.caller = s /\ f.task = slot[s].child
      BY SlotFields DEF Free, Execution
    <2> HIDE DEF e, f
    <2>5. slot'[s] = e /\ slot'[r] = f /\ \A q \in Slot \ {s, r} : slot'[q] = slot[q]
      BY <2>2, <2>3 DEF TypeOK
    <2>6. slot[s].task \in Task /\ slot[s].child \in Task
      BY <2>2 DEF Roles, Role, ChildPc, CallingPc, BirthPc
    <2>7. \A q \in Slot : /\ slot[q].caller \in Slot \cup {None}
                          /\ slot[q].caller # s /\ slot[q].caller # r
      BY <2>2, SlotFields, Names DEF Roles, Role
    <2> SUFFICES ASSUME NEW q \in Slot
                 PROVE  Role(q)'
      BY DEF Roles
    <2>8. slot'[q].pc # "free" => slot'[q].task \in Task
      BY <2>4, <2>5, <2>6 DEF Roles, Role
    <2>9. slot'[q].pc \in ChildPc => slot'[q].child \in Task
      BY <2>4, <2>5, <2>6 DEF Roles, Role, ChildPc, DelegatingPc, CallingPc, BirthPc
    <2>10. ASSUME slot'[q].caller # None
           PROVE  /\ slot'[slot'[q].caller].pc = "await"
                  /\ \A u \in Slot : slot'[u].caller = slot'[q].caller => u = q
      <3>1. \A u \in Slot : u # r => slot'[u].caller = slot[u].caller
        BY <2>4, <2>5
      <3>2. CASE q = r
        BY <2>4, <2>5, <2>7, <3>1, <3>2
      <3>3. CASE q # r
        <4>1. slot[q].caller \in Slot /\ slot[slot[q].caller].pc = "await"
          BY <2>7, <2>10, <3>1, <3>3 DEF Roles, Role
        <4>2. slot'[slot[q].caller].pc = "await"
          BY <2>5, <2>7, <4>1
        <4>3. \A u \in Slot : slot'[u].caller = slot'[q].caller => u = q
          BY <2>4, <2>5, <2>7, <2>10, <3>1, <3>3 DEF Roles, Role
        <4> QED BY <3>1, <3>3, <4>2, <4>3
      <3> QED BY <3>2, <3>3
    <2> QED BY <2>8, <2>9, <2>10 DEF Role
  <1>3. CASE /\ ~\E c \in Task : Delegate(s, c) \/ Spawn(s, c) \/ CallAgent(s, c)
             /\ ~\E r \in Slot : CallPark(s, r)
    <2>1. /\ slot[s].pc \notin {"free", "await"}
          /\ \/ slot' = End(s)
             \/ /\ slot'[s].task = slot[s].task /\ slot'[s].caller = slot[s].caller
                /\ slot'[s].pc \in ChildPc => slot[s].pc \in ChildPc /\ slot'[s].child = slot[s].child
                /\ \A r \in Slot \ {s} : slot'[r] = slot[r]
      BY <1>3, PlainMoves
    <2>2. CASE slot' = End(s)
      BY <2>1, <2>2, EndRoles
    <2>3. CASE /\ slot'[s].task = slot[s].task /\ slot'[s].caller = slot[s].caller
               /\ slot'[s].pc \in ChildPc => slot[s].pc \in ChildPc /\ slot'[s].child = slot[s].child
               /\ \A r \in Slot \ {s} : slot'[r] = slot[r]
      <3>1. slot'[s].pc \in ChildPc => slot'[s].child \in Task
        BY <2>3 DEF Roles, Role
      <3> QED BY <2>1, <2>3, <3>1, MoveRoles
    <2> QED BY <2>1, <2>2, <2>3
  <1> QED BY <1>1, <1>2, <1>3

LEMMA DispatchRoles ==
  ASSUME TypeOK, Roles, NEW s \in Slot, NEW t \in Task, Dispatch(s, t)
  PROVE  Roles'
  <1> DEFINE e == [Free EXCEPT !.pc = "begin", !.task = t]
  <1>1. e.pc = "begin" /\ e.task = t /\ e.caller = None
    BY DEF Free
  <1>2. slot' = [slot EXCEPT ![s] = e] /\ slot[s].pc = "free"
    BY DEF Dispatch, NextSlot, At
  <1> HIDE DEF e
  <1>3. slot'[s] = e /\ \A r \in Slot \ {s} : slot'[r] = slot[r]
    BY <1>2 DEF TypeOK
  <1>4. "begin" \notin ChildPc
    BY DEF ChildPc, DelegatingPc, CallingPc, BirthPc
  <1> SUFFICES ASSUME NEW r \in Slot
               PROVE  Role(r)'
    BY DEF Roles
  <1>5. CASE r = s
    BY <1>1, <1>3, <1>4, <1>5 DEF Role
  <1>6. CASE r # s
    <2>1. Role(r) /\ slot'[r] = slot[r] /\ slot[r].caller \in Slot \cup {None}
      BY <1>3, <1>6, SlotFields DEF Roles
    <2>2. slot[r].caller # None => slot[r].caller # s
      BY <1>2, <2>1 DEF Role
    <2> QED BY <1>1, <1>3, <2>1, <2>2 DEF Role
  <1> QED BY <1>5, <1>6

(* Answers are not taken back.                                             *)
LEMMA CallsStay ==
  ASSUME TypeOK, Next, NEW t \in Task, rpc[t] # "none"
  PROVE  rpc'[t] # "none"
  <1>1. rpc \in [Task -> {"none", "open", "ok", "failed"}]
    BY DEF TypeOK
  <1>2. \/ rpc' = rpc
        \/ \E u, l : l # "none" /\ rpc' = [rpc EXCEPT ![u] = l]
        \/ \E u, l : l # "none" /\ rpc' = [rpc EXCEPT ![u] = IF @ = "open" THEN l ELSE @]
    <2>1. CASE \E s \in Slot : Execute(s)
      <3>1. PICK s \in Slot : Execute(s)
        BY <2>1
      <3>2. CASE Settle(s) \/ Pause(s)
        <4>1. "ok" # "none" /\ "failed" # "none"
          OBVIOUS
        <4>2. \E u, l : l # "none" /\ CompleteCall(u, l)
          BY <3>2, <4>1 DEF Settle, Pause
        <4> QED BY <4>2 DEF CompleteCall
      <3>3. CASE \E c \in Task : CallAgent(s, c)
        BY <3>3 DEF CallAgent
      <3>4. CASE ~(Settle(s) \/ Pause(s)) /\ ~\E c \in Task : CallAgent(s, c)
        BY <3>1, <3>4 DEF Execute, Begin, Setup, Abort, Quit, Answer, EndBatch, Delegate, Spawn, DelegateChild,
           ParkParent, EnqueueChild, SpawnAdopt, RegisterChild, CallChild, CallStart, CallPark, CallBack,
           CallHear, Succeed, Fail, Failing, Inject, Wake, Close
      <3> QED BY <3>2, <3>3, <3>4
    <2>2. CASE \E u \in Task : SweepCall(u)
      BY <2>2 DEF SweepCall
    <2>3. CASE \/ \E u \in Task : Submit(u) \/ Cancel(u)
               \/ Executor
               \/ \E S \in SUBSET Task : TimeOut(S)
               \/ Check
               \/ Cascade
      BY <2>3 DEF Submit, Cancel, Executor, IdleTick, Dispatch, TimeOut, Check, CheckerSettle, CheckerWake,
         CheckerClose, Cascade, CancelClose, CancelCascade
    <2> QED BY <2>1, <2>2, <2>3 DEF Next
  <1> QED BY <1>1, <1>2

LEMMA ExecuteServes ==
  ASSUME TypeOK, Roles, CallersServed, NEW s \in Slot, Execute(s)
  PROVE  CallersServed'
  <1>1. \A t \in Task : rpc[t] # "none" => rpc'[t] # "none"
    BY CallsStay DEF Next
  <1>2. \A q \in Slot : /\ slot[q].caller \in Slot \cup {None}
                        /\ slot[q].pc \in CallingPc => slot[q].child \in Task
    BY SlotFields DEF Roles, Role, ChildPc
  <1>3. {"await", "back"} \subseteq CallingPc
    BY DEF CallingPc
  <1> SUFFICES ASSUME NEW q \in Slot
               PROVE  Serving(q)'
    BY DEF CallersServed
  <1>4. Serving(q)
    BY DEF CallersServed
  <1>5. CASE \E c \in Task : Delegate(s, c) \/ Spawn(s, c) \/ CallAgent(s, c)
    <2>1. PICK c \in Task : Delegate(s, c) \/ Spawn(s, c) \/ CallAgent(s, c)
      BY <1>5
    <2>2. PICK l \in {"child", "adopt", "cchild"} :
             ToolCall(s, c, l) /\ (l = "cchild" => rpc'[c] # "none")
      <3>1. CASE CallAgent(s, c)
        <4>1. rpc'[c] = "open"
          BY <3>1 DEF CallAgent, TypeOK
        <4> QED BY <3>1, <4>1 DEF CallAgent
      <3> QED BY <2>1, <3>1 DEF Delegate, Spawn
    <2>3. /\ slot[s].pc # "await" /\ slot'[s].pc = l /\ slot'[s].child = c
          /\ slot'[s].caller = slot[s].caller
          /\ \A r \in Slot \ {s} : slot'[r] = slot[r]
      BY <2>2, ToolCallSlots
    <2>4. \A r \in Slot : slot'[r].caller = slot[r].caller
      BY <2>3
    <2>5. CASE q = s
      BY <2>2, <2>3, <2>5 DEF Serving, CallingPc, BirthPc
    <2>6. CASE q # s
      BY <1>1, <1>2, <1>4, <2>3, <2>4, <2>6 DEF Serving
    <2> QED BY <2>5, <2>6
  <1>6. CASE \E r \in Slot : CallPark(s, r)
    <2>1. PICK r \in Slot : CallPark(s, r)
      BY <1>6
    <2> DEFINE e == [slot[s] EXCEPT !.pc = "await"]
               f == [Free EXCEPT !.pc = "setup", !.caller = s, !.task = slot[s].child]
    <2>2. s # r /\ slot[s].pc = "cpark" /\ slot[r].pc = "free" /\ slot[r].caller = None /\ rpc' = rpc
      BY <2>1 DEF CallPark, NextSlot, At, CallersServed, Serving
    <2>3. slot' = [slot EXCEPT ![s] = e, ![r] = f]
      BY <2>1, <2>2, SlotFields DEF CallPark, TypeOK
    <2>4. /\ e.pc = "await" /\ e.child = slot[s].child /\ e.caller = slot[s].caller
          /\ f.pc = "setup" /\ f.caller = s
      BY SlotFields DEF Free, Execution
    <2> HIDE DEF e, f
    <2>5. slot'[s] = e /\ slot'[r] = f /\ \A u \in Slot \ {s, r} : slot'[u] = slot[u]
      BY <2>2, <2>3 DEF TypeOK
    <2>6. CASE q = s
      <3>1. slot[s].pc \in CallingPc
        BY <2>2 DEF CallingPc, BirthPc
      <3> QED BY <1>4, <2>2, <2>4, <2>5, <2>6, <3>1 DEF Serving
    <2>7. CASE q = r
      BY <2>4, <2>5, <2>7 DEF Serving, CallingPc, BirthPc
    <2>8. CASE q \in Slot \ {s, r}
      <3>1. slot'[q] = slot[q] /\ \A u \in Slot : u # r => slot'[u].caller = slot[u].caller
        BY <2>4, <2>5, <2>8
      <3>2. slot[q].pc = "await" => \E u \in Slot : u # r /\ slot[u].caller = q
        BY <1>4, <2>2, Names DEF Serving
      <3> QED BY <1>4, <2>2, <3>1, <3>2 DEF Serving
    <2> QED BY <2>6, <2>7, <2>8
  <1>7. CASE /\ ~\E c \in Task : Delegate(s, c) \/ Spawn(s, c) \/ CallAgent(s, c)
             /\ ~\E r \in Slot : CallPark(s, r)
    <2>1. /\ slot[s].pc \notin {"free", "await"}
          /\ \/ slot' = End(s)
             \/ /\ slot'[s].caller = slot[s].caller
                /\ slot'[s].pc \notin {"free", "await"}
                /\ slot'[s].pc \in ChildPc => slot'[s].child = slot[s].child
                /\ slot'[s].pc \in CallingPc => slot[s].pc \in CallingPc
                /\ \A r \in Slot \ {s} : slot'[r] = slot[r]
      BY <1>7, PlainMoves
    <2>2. CASE /\ slot'[s].caller = slot[s].caller
               /\ slot'[s].pc \notin {"free", "await"}
               /\ slot'[s].pc \in ChildPc => slot'[s].child = slot[s].child
               /\ slot'[s].pc \in CallingPc => slot[s].pc \in CallingPc
               /\ \A r \in Slot \ {s} : slot'[r] = slot[r]
      <3>1. \A r \in Slot : slot'[r].caller = slot[r].caller
        BY <2>2
      <3>2. CASE q = s
        BY <1>1, <1>2, <1>4, <2>2, <3>2 DEF Serving, ChildPc
      <3>3. CASE q # s
        BY <1>1, <1>2, <1>4, <2>2, <3>1, <3>3 DEF Serving
      <3> QED BY <3>2, <3>3
    <2>3. CASE slot' = End(s)
      <3>1. \A u \in Slot : /\ u = s => slot'[u] = Free
                            /\ u # s /\ u = slot[s].caller => slot'[u] = [slot[u] EXCEPT !.pc = "back"]
                            /\ u # s /\ u # slot[s].caller => slot'[u] = slot[u]
        BY <2>3 DEF End
      <3>2. \A u \in Slot : /\ [slot[u] EXCEPT !.pc = "back"].pc = "back"
                            /\ [slot[u] EXCEPT !.pc = "back"].child = slot[u].child
                            /\ [slot[u] EXCEPT !.pc = "back"].caller = slot[u].caller
        BY SlotFields DEF Execution
      <3>3. \A u \in Slot : u # s => slot'[u].caller = slot[u].caller
        BY <3>1, <3>2
      <3>4. CASE q = s
        BY <3>1, <3>4, FreeFields DEF Serving, CallingPc, BirthPc
      <3>5. CASE q # s /\ q = slot[s].caller
        <4>1. slot[q].pc = "await" /\ slot'[q].pc = "back" /\ slot'[q].child = slot[q].child
          BY <3>1, <3>2, <3>5, Names DEF Roles, Role
        <4> QED BY <1>1, <1>2, <1>3, <1>4, <4>1 DEF Serving
      <3>6. CASE q # s /\ q # slot[s].caller
        <4>1. slot'[q] = slot[q]
          BY <3>1, <3>6
        <4>2. slot[q].pc = "await" => \E r \in Slot : r # s /\ slot[r].caller = q
          BY <1>4, <3>6 DEF Serving
        <4> QED BY <1>1, <1>2, <1>4, <3>3, <4>1, <4>2 DEF Serving
      <3> QED BY <3>4, <3>5, <3>6
    <2> QED BY <2>1, <2>2, <2>3
  <1> QED BY <1>5, <1>6, <1>7

LEMMA OtherServes ==
  ASSUME TypeOK, Roles, CallersServed, Next, ~\E s \in Slot : Execute(s)
  PROVE  CallersServed'
  <1>1. \A t \in Task : rpc[t] # "none" => rpc'[t] # "none"
    BY CallsStay
  <1>2. \A q \in Slot : slot[q].pc \in CallingPc => slot[q].child \in Task
    BY DEF Roles, Role, ChildPc
  <1> SUFFICES ASSUME NEW q \in Slot
               PROVE  Serving(q)'
    BY DEF CallersServed
  <1>3. Serving(q)
    BY DEF CallersServed
  <1>4. CASE slot' = slot
    BY <1>1, <1>2, <1>3, <1>4 DEF Serving
  <1>5. CASE \E s \in Slot, t \in Task : Dispatch(s, t)
    <2>1. PICK s \in Slot, t \in Task : Dispatch(s, t)
      BY <1>5
    <2> DEFINE e == [Free EXCEPT !.pc = "begin", !.task = t]
    <2>2. e.pc = "begin" /\ e.caller = None
      BY DEF Free
    <2>3. slot' = [slot EXCEPT ![s] = e] /\ slot[s].pc = "free" /\ slot[s].caller = None
      BY <2>1 DEF Dispatch, NextSlot, At, CallersServed, Serving
    <2> HIDE DEF e
    <2>4. slot'[s] = e /\ \A r \in Slot \ {s} : slot'[r] = slot[r]
      BY <2>3 DEF TypeOK
    <2>5. \A r \in Slot : slot'[r].caller = slot[r].caller
      BY <2>2, <2>3, <2>4
    <2>6. CASE q = s
      BY <2>2, <2>4, <2>6 DEF Serving, CallingPc, BirthPc
    <2>7. CASE q # s
      BY <1>1, <1>2, <1>3, <2>4, <2>5, <2>7 DEF Serving
    <2> QED BY <2>6, <2>7
  <1>6. slot' = slot \/ \E s \in Slot, t \in Task : Dispatch(s, t)
    BY DEF Next, Submit, Cancel, SweepCall, Executor, IdleTick, TimeOut, Check, CheckerSettle, CheckerWake,
       CheckerClose, Cascade, CancelClose, CancelCascade
  <1> QED BY <1>4, <1>5, <1>6

LEMMA Locations ==
  /\ "free" \notin DelegatingPc \cup CallingPc /\ "await" \notin DelegatingPc
  /\ {"turn", "act", "setup", "begin", "adopt"} \cap (DelegatingPc \cup CallingPc) = {}
  /\ DelegatingPc \cap CallingPc = {} /\ DelegatingPc \cup CallingPc \subseteq ChildPc
  /\ "back" \in CallingPc /\ "await" \in CallingPc
  BY DEF DelegatingPc, CallingPc, BirthPc, ChildPc

(* How the scheduler's methods leave the map.                              *)
LEMMA Methods ==
  ASSUME TypeOK, NEW t \in Task
  PROVE  /\ \A l \in TaskState : state[t] # Absent /\ UpdateIfNotTerminal(t, l) =>
               \A u \in Task : Lasting(u) /\ (state[u] = Absent => state'[u] = Absent)
         /\ Requeue(t) => \A u \in Task : Lasting(u) /\ (state[u] = Absent => state'[u] = Absent)
         /\ state[t] = Absent /\ Enqueue(t) =>
               \A u \in Task : Lasting(u) /\ (u # t /\ state[u] = Absent => state'[u] = Absent)
         /\ state[t] # Absent /\ state' = [state EXCEPT ![t] = "Cancelled"] =>
               \A u \in Task : Lasting(u) /\ (state[u] = Absent => state'[u] = Absent)
         /\ state' = state => \A u \in Task : Lasting(u) /\ (state[u] = Absent => state'[u] = Absent)
  <1>1. /\ Absent \notin TaskState /\ Absent \notin Parked /\ Parked \cap Terminal = {}
        /\ {"Queued", "Failed", "Cancelled"} \subseteq TaskState /\ "Cancelled" \in Terminal
    BY DEF Absent, TaskState, Parked, Terminal
  <1>2. \A l \in TaskState : state[t] # Absent /\ UpdateIfNotTerminal(t, l) =>
           \A u \in Task : Lasting(u) /\ (state[u] = Absent => state'[u] = Absent)
    BY <1>1 DEF UpdateIfNotTerminal, Lasting, Over, TypeOK
  <1>3. Requeue(t) => \A u \in Task : Lasting(u) /\ (state[u] = Absent => state'[u] = Absent)
    BY <1>1 DEF Requeue, Lasting, Over, TypeOK
  <1>4. state[t] = Absent /\ Enqueue(t) =>
           \A u \in Task : Lasting(u) /\ (u # t /\ state[u] = Absent => state'[u] = Absent)
    BY <1>1 DEF Enqueue, Lasting, Over, TypeOK
  <1>5. state[t] # Absent /\ state' = [state EXCEPT ![t] = "Cancelled"] =>
           \A u \in Task : Lasting(u) /\ (state[u] = Absent => state'[u] = Absent)
    BY <1>1 DEF Lasting, Over, TypeOK
  <1>6. state' = state => \A u \in Task : Lasting(u) /\ (state[u] = Absent => state'[u] = Absent)
    BY DEF Lasting, Over
  <1> QED BY <1>2, <1>3, <1>4, <1>5, <1>6

(* A task enters the map when it is minted, or when the delegation of its  *)
(* parent queues it.                                                       *)
LEMMA ExecuteLasting ==
  ASSUME TypeOK, Roles, Births, NEW s \in Slot, Execute(s)
  PROVE  /\ fresh' \subseteq fresh
         /\ \A u \in Task : /\ Lasting(u)
                            /\ state[u] = Absent /\ state'[u] # Absent =>
                                  \/ u \in fresh \ fresh'
                                  \/ slot[s].pc = "enqueue" /\ slot[s].child = u
  <1>1. {"Running", "Waiting", "Complete", "Failed"} \subseteq TaskState
    BY DEF TaskState
  <1>2. /\ slot[s].pc # "free" => slot[s].task \in Task /\ state[slot[s].task] # Absent
        /\ slot[s].pc \in ChildPc => slot[s].child \in Task
        /\ slot[s].pc \in DelegatingPc => state[slot[s].child] = Absent
        /\ slot[s].pc \in CallingPc => state[slot[s].child] # Absent
    BY DEF Roles, Role, Births, Birth
  <1>3. CASE \E c \in Task : Delegate(s, c) \/ Spawn(s, c) \/ CallAgent(s, c)
    <2>1. PICK c \in Task : Delegate(s, c) \/ Spawn(s, c) \/ CallAgent(s, c)
      BY <1>3
    <2>2. c \in fresh /\ fresh' = fresh \ {c} /\ state[c] = Absent
      BY <2>1 DEF Delegate, Spawn, CallAgent, ToolCall, Births
    <2>3. CASE Delegate(s, c)
      <3>1. state' = state
        BY <2>3 DEF Delegate
      <3> QED BY <2>2, <3>1, Methods
    <2>4. CASE Spawn(s, c)
      <3>1. Enqueue(c)
        BY <2>4 DEF Spawn
      <3> QED BY <2>2, <3>1, Methods
    <2>5. CASE CallAgent(s, c)
      <3>1. state' = [state EXCEPT ![c] = "Queued"]
        BY <2>5 DEF CallAgent
      <3>2. "Queued" # Absent
        BY DEF Absent
      <3> QED BY <2>2, <3>1, <3>2 DEF Lasting, Over, TypeOK
    <2> QED BY <2>1, <2>3, <2>4, <2>5
  <1>4. CASE EnqueueChild(s)
    <2>1. slot[s].pc = "enqueue" /\ Enqueue(slot[s].child) /\ fresh' = fresh
      BY <1>4 DEF EnqueueChild, At, runVars
    <2>2. slot[s].child \in Task /\ state[slot[s].child] = Absent
      BY <1>2, <2>1 DEF ChildPc, DelegatingPc
    <2> QED BY <2>1, <2>2, Methods
  <1>5. CASE \E w \in Task : Wake(s, w)
    <2>1. PICK w \in Task : Requeue(w) /\ fresh' = fresh
      BY <1>5 DEF Wake, runVars
    <2> QED BY <2>1, Methods
  <1>6. CASE CallStart(s)
    <2>1. slot[s].pc = "cstart" /\ UpdateIfNotTerminal(slot[s].child, "Running") /\ fresh' = fresh
      BY <1>6 DEF CallStart, At, runVars
    <2>2. slot[s].child \in Task /\ state[slot[s].child] # Absent
      BY <1>2, <2>1 DEF ChildPc, CallingPc, BirthPc
    <2> QED BY <1>1, <2>1, <2>2, Methods
  <1>7. CASE \/ Begin(s) \/ ParkParent(s) \/ (\E r \in Slot : CallPark(s, r)) \/ CallBack(s)
             \/ Succeed(s) \/ Failing(s)
    <2>1. /\ slot[s].pc # "free" /\ fresh' = fresh
          /\ \E l \in {"Running", "Waiting", "Complete", "Failed"} : UpdateIfNotTerminal(slot[s].task, l)
      BY <1>7 DEF Begin, ParkParent, CallPark, CallBack, Succeed, Failing, At, runVars
    <2> QED BY <1>1, <1>2, <2>1, Methods
  <1>8. CASE \/ Setup(s) \/ Abort(s) \/ Quit(s) \/ Answer(s) \/ EndBatch(s) \/ DelegateChild(s) \/ SpawnAdopt(s)
             \/ CallChild(s) \/ CallHear(s) \/ Fail(s) \/ Pause(s) \/ Inject(s) \/ Settle(s) \/ Close(s)
    <2>1. state' = state /\ fresh' = fresh
      BY <1>8 DEF Setup, Abort, Quit, Answer, EndBatch, DelegateChild, SpawnAdopt, RegisterChild, CallChild,
         CallHear, Fail, Pause, Inject, Settle, Close, schedVars, runVars
    <2>2. \A u \in Task : Lasting(u)
      BY <2>1 DEF Lasting, Over
    <2> QED BY <2>1, <2>2
  <1> QED BY <1>3, <1>4, <1>5, <1>6, <1>7, <1>8 DEF Execute

LEMMA ExecuteBirths ==
  ASSUME TypeOK, Roles, Births, NEW s \in Slot, Execute(s)
  PROVE  Births'
  <1>1. /\ fresh' \subseteq fresh /\ fresh \subseteq Task
        /\ \A u \in Task : /\ state[u] # Absent => state'[u] # Absent
                           /\ state[u] = Absent /\ state'[u] # Absent =>
                                 \/ u \in fresh \ fresh'
                                 \/ slot[s].pc = "enqueue" /\ slot[s].child = u
    BY ExecuteLasting DEF Lasting, TypeOK
  <1>2. "enqueue" \in DelegatingPc
    BY DEF DelegatingPc
  <1>3. \A q \in Slot : /\ slot[q].pc # "free" => slot[q].task \in Task /\ state[slot[q].task] # Absent
                        /\ slot[q].pc \in DelegatingPc \cup CallingPc => slot[q].child \in Task
                        /\ slot[q].pc \in DelegatingPc => slot[q].child \notin fresh /\ state[slot[q].child] = Absent
                        /\ slot[q].pc \in CallingPc => state[slot[q].child] # Absent
    BY Locations DEF Roles, Role, Births, Birth
  <1>4. \A q, r \in Slot :
           slot[q].pc \in DelegatingPc /\ slot[r].pc \in DelegatingPc /\ slot[q].child = slot[r].child => q = r
    BY DEF Births
  <1>5. \A t \in fresh' : state'[t] = Absent
    BY <1>1, <1>2, <1>3 DEF Births
  <1>6. ASSUME NEW q \in Slot, q # s
        PROVE  /\ slot[q].pc # "free" => state'[slot[q].task] # Absent
               /\ slot[q].pc \in DelegatingPc => slot[q].child \notin fresh' /\ state'[slot[q].child] = Absent
               /\ slot[q].pc \in CallingPc => state'[slot[q].child] # Absent
    BY <1>1, <1>2, <1>3, <1>4, <1>6
  <1>7. CASE \E c \in Task : Delegate(s, c) \/ Spawn(s, c) \/ CallAgent(s, c)
    <2>1. PICK c \in Task : Delegate(s, c) \/ Spawn(s, c) \/ CallAgent(s, c)
      BY <1>7
    <2>2. PICK l \in {"child", "adopt", "cchild"} :
             /\ ToolCall(s, c, l)
             /\ l = "child" => state' = state
             /\ l = "cchild" => state'[c] # Absent
      <3>1. CASE CallAgent(s, c)
        <4>1. state'[c] = "Queued"
          BY <3>1 DEF CallAgent, TypeOK
        <4> QED BY <3>1, <4>1 DEF CallAgent, Absent
      <3> QED BY <2>1, <3>1 DEF Delegate, Spawn
    <2>3. /\ slot[s].pc \in {"turn", "act"} /\ slot'[s].pc = l /\ slot'[s].child = c
          /\ slot'[s].task = slot[s].task
          /\ \A r \in Slot \ {s} : slot'[r] = slot[r]
      BY <2>2, ToolCallSlots
    <2>4. c \in fresh /\ c \notin fresh' /\ state[c] = Absent
      BY <2>2 DEF ToolCall, Births
    <2>5. ASSUME NEW q \in Slot
          PROVE  Birth(q)'
      <3>1. CASE q = s
        <4>1. state'[slot[s].task] # Absent
          BY <1>1, <1>3, <2>3
        <4>2. l \in DelegatingPc => l = "child"
          BY DEF DelegatingPc
        <4>3. l \in CallingPc => l = "cchild"
          BY DEF CallingPc, BirthPc
        <4> QED BY <2>2, <2>3, <2>4, <3>1, <4>1, <4>2, <4>3 DEF Birth
      <3>2. CASE q # s
        BY <1>6, <2>3, <3>2 DEF Birth
      <3> QED BY <3>1, <3>2
    <2>6. \A q, r \in Slot :
             slot'[q].pc \in DelegatingPc /\ slot'[r].pc \in DelegatingPc /\ slot'[q].child = slot'[r].child => q = r
      BY <1>3, <1>4, <2>3, <2>4
    <2> QED BY <1>5, <2>5, <2>6 DEF Births
  <1>8. CASE \E r \in Slot : CallPark(s, r)
    <2>1. PICK r \in Slot : CallPark(s, r)
      BY <1>8
    <2> DEFINE e == [slot[s] EXCEPT !.pc = "await"]
               f == [Free EXCEPT !.pc = "setup", !.caller = s, !.task = slot[s].child]
    <2>2. s # r /\ slot[s].pc = "cpark" /\ slot[r].pc = "free"
      BY <2>1 DEF CallPark, NextSlot, At
    <2>3. slot' = [slot EXCEPT ![s] = e, ![r] = f]
      BY <2>1, <2>2, SlotFields DEF CallPark, TypeOK
    <2>4. /\ e.pc = "await" /\ e.child = slot[s].child /\ e.task = slot[s].task
          /\ f.pc = "setup" /\ f.task = slot[s].child
      BY SlotFields DEF Free, Execution
    <2> HIDE DEF e, f
    <2>5. slot'[s] = e /\ slot'[r] = f /\ \A u \in Slot \ {s, r} : slot'[u] = slot[u]
      BY <2>2, <2>3 DEF TypeOK
    <2>6. /\ slot[s].task \in Task /\ state'[slot[s].task] # Absent
          /\ slot[s].child \in Task /\ state'[slot[s].child] # Absent
      BY <1>1, <1>3, <2>2 DEF CallingPc, BirthPc
    <2>7. ASSUME NEW q \in Slot
          PROVE  Birth(q)'
      <3>1. CASE q = s
        BY <2>4, <2>5, <2>6, <3>1, Locations DEF Birth
      <3>2. CASE q = r
        BY <2>4, <2>5, <2>6, <3>2, Locations DEF Birth
      <3>3. CASE q \in Slot \ {s, r}
        BY <1>6, <2>5, <3>3 DEF Birth
      <3> QED BY <3>1, <3>2, <3>3
    <2>8. \A q \in Slot : slot'[q].pc \in DelegatingPc => slot'[q] = slot[q]
      BY <2>4, <2>5, Locations
    <2>9. \A q, u \in Slot :
             slot'[q].pc \in DelegatingPc /\ slot'[u].pc \in DelegatingPc /\ slot'[q].child = slot'[u].child => q = u
      BY <1>4, <2>8
    <2> QED BY <1>5, <2>7, <2>9 DEF Births
  <1>9. CASE /\ ~\E c \in Task : Delegate(s, c) \/ Spawn(s, c) \/ CallAgent(s, c)
             /\ ~\E r \in Slot : CallPark(s, r)
    <2>1. /\ slot[s].pc \notin {"free", "await"}
          /\ \/ slot' = End(s)
             \/ /\ slot'[s].task = slot[s].task
                /\ slot'[s].pc \in ChildPc => slot'[s].child = slot[s].child
                /\ slot'[s].pc \in CallingPc => slot[s].pc \in CallingPc
                /\ slot'[s].pc \in DelegatingPc => slot[s].pc \in {"child", "park"}
                /\ \A r \in Slot \ {s} : slot'[r] = slot[r]
      BY <1>9, PlainMoves
    <2>2. CASE /\ slot'[s].task = slot[s].task
               /\ slot'[s].pc \in ChildPc => slot'[s].child = slot[s].child
               /\ slot'[s].pc \in CallingPc => slot[s].pc \in CallingPc
               /\ slot'[s].pc \in DelegatingPc => slot[s].pc \in {"child", "park"}
               /\ \A r \in Slot \ {s} : slot'[r] = slot[r]
      <3>1. {"child", "park"} \subseteq DelegatingPc
        BY DEF DelegatingPc
      <3>2. ASSUME NEW q \in Slot
            PROVE  Birth(q)'
        <4>1. CASE q = s
          BY <1>1, <1>3, <2>1, <2>2, <3>1, <4>1, Locations DEF Birth
        <4>2. CASE q # s
          BY <1>6, <2>2, <4>2 DEF Birth
        <4> QED BY <4>1, <4>2
      <3>3. \A q \in Slot : slot'[q].pc \in DelegatingPc => slot[q].pc \in DelegatingPc /\ slot'[q].child = slot[q].child
        BY <2>2, <3>1, Locations
      <3>4. \A q, u \in Slot :
               slot'[q].pc \in DelegatingPc /\ slot'[u].pc \in DelegatingPc /\ slot'[q].child = slot'[u].child => q = u
        BY <1>4, <3>3
      <3> QED BY <1>5, <3>2, <3>4 DEF Births
    <2>3. CASE slot' = End(s)
      <3>1. \A u \in Slot : /\ u = s => slot'[u] = Free
                            /\ u # s /\ u = slot[s].caller => slot'[u] = [slot[u] EXCEPT !.pc = "back"]
                            /\ u # s /\ u # slot[s].caller => slot'[u] = slot[u]
        BY <2>3 DEF End
      <3>2. \A u \in Slot : /\ [slot[u] EXCEPT !.pc = "back"].pc = "back"
                            /\ [slot[u] EXCEPT !.pc = "back"].child = slot[u].child
                            /\ [slot[u] EXCEPT !.pc = "back"].task = slot[u].task
        BY SlotFields DEF Execution
      <3>3. ASSUME NEW q \in Slot
            PROVE  Birth(q)'
        <4>1. CASE q = s
          BY <3>1, <4>1, FreeFields, Locations DEF Birth
        <4>2. CASE q # s /\ q = slot[s].caller
          <5>1. slot[q].pc = "await" /\ slot'[q].pc = "back"
                /\ slot'[q].child = slot[q].child /\ slot'[q].task = slot[q].task
            BY <3>1, <3>2, <4>2, Names DEF Roles, Role
          <5> QED BY <1>6, <4>2, <5>1, Locations DEF Birth
        <4>3. CASE q # s /\ q # slot[s].caller
          BY <1>6, <3>1, <4>3 DEF Birth
        <4> QED BY <4>1, <4>2, <4>3
      <3>4. \A q \in Slot : slot'[q].pc \in DelegatingPc => slot'[q] = slot[q]
        BY <3>1, <3>2, FreeFields, Locations
      <3>5. \A q, u \in Slot :
               slot'[q].pc \in DelegatingPc /\ slot'[u].pc \in DelegatingPc /\ slot'[q].child = slot'[u].child => q = u
        BY <1>4, <3>4
      <3> QED BY <1>5, <3>3, <3>5 DEF Births
    <2> QED BY <2>1, <2>2, <2>3
  <1> QED BY <1>7, <1>8, <1>9

LEMMA OtherBirths ==
  ASSUME TypeOK, Roles, Births, Next, ~\E s \in Slot : Execute(s)
  PROVE  Births' /\ \A u \in Task : Lasting(u)
  <1>1. /\ fresh' \subseteq fresh
        /\ \A u \in Task : Lasting(u) /\ (state[u] = Absent /\ state'[u] # Absent => u \in fresh \ fresh')
    <2>1. CASE \E t \in Task : Submit(t)
      <3>1. PICK t \in Task : t \in fresh /\ fresh' = fresh \ {t} /\ Enqueue(t)
        BY <2>1 DEF Submit
      <3>2. state[t] = Absent
        BY <3>1 DEF Births
      <3> QED BY <3>1, <3>2, Methods
    <2>2. CASE \E t \in Task : Cancel(t) \/ CancelCascade(t)
      <3>1. PICK t \in Task : Cancel(t) \/ CancelCascade(t)
        BY <2>2
      <3>2. /\ fresh' = fresh
            /\ state' = state \/ (state[t] # Absent /\ state' = [state EXCEPT ![t] = "Cancelled"])
        BY <3>1 DEF Cancel, CancelCascade, CancelTask, runVars
      <3> QED BY <3>2, Methods
    <2>3. CASE \E S \in SUBSET Task : TimeOut(S)
      <3>1. PICK S \in SUBSET Task : TimeOut(S)
        BY <2>3
      <3>2. /\ fresh' = fresh /\ S \subseteq Overdue
            /\ state' = [t \in Task |-> IF t \in S THEN "Failed" ELSE state[t]]
        BY <3>1 DEF TimeOut
      <3>3. \A t \in S : state[t] # Absent
        BY <3>2 DEF Overdue, Absent
      <3> QED BY <3>2, <3>3 DEF Lasting, Over, Terminal, Absent
    <2>4. CASE \E w \in Task : CheckerWake(w)
      <3>1. PICK w \in Task : Requeue(w) /\ fresh' = fresh
        BY <2>4 DEF CheckerWake, runVars
      <3> QED BY <3>1, Methods
    <2>5. CASE \/ \E t \in Task : SweepCall(t) \/ CheckerSettle(t)
               \/ Executor \/ CheckerClose \/ CancelClose
      <3>1. state' = state /\ fresh' = fresh
        BY <2>5 DEF SweepCall, CheckerSettle, Executor, IdleTick, Dispatch, CheckerClose, CancelClose,
           schedVars, runVars
      <3> QED BY <3>1 DEF Lasting, Over
    <2> QED BY <2>1, <2>2, <2>3, <2>4, <2>5 DEF Next, Check, Cascade
  <1>2. \A q \in Slot : /\ slot[q].pc # "free" => slot[q].task \in Task
                        /\ slot[q].pc \in DelegatingPc \cup CallingPc => slot[q].child \in Task
                        /\ Birth(q)
    BY Locations DEF Roles, Role, Births
  <1>3. \A t \in fresh' : state'[t] = Absent
    BY <1>1 DEF Births, TypeOK
  <1>4. \A q \in Slot : slot'[q] = slot[q] => Birth(q)'
    BY <1>1, <1>2 DEF Birth, Lasting
  <1>5. \A q \in Slot : \/ slot'[q] = slot[q]
                        \/ slot'[q].pc = "begin" /\ slot'[q].task \in Task /\ state'[slot'[q].task] # Absent
    <2>1. CASE slot' = slot
      BY <2>1
    <2>2. CASE \E s \in Slot, t \in Task : Dispatch(s, t)
      <3>1. PICK s \in Slot, t \in Task : Dispatch(s, t)
        BY <2>2
      <3> DEFINE e == [Free EXCEPT !.pc = "begin", !.task = t]
      <3>2. e.pc = "begin" /\ e.task = t
        BY DEF Free
      <3>3. slot' = [slot EXCEPT ![s] = e] /\ state[t] = "Queued" /\ state' = state
        BY <3>1 DEF Dispatch, Runnable
      <3> HIDE DEF e
      <3> QED BY <3>2, <3>3 DEF TypeOK, Absent
    <2>3. slot' = slot \/ \E s \in Slot, t \in Task : Dispatch(s, t)
      BY DEF Next, Submit, Cancel, SweepCall, Executor, IdleTick, TimeOut, Check, CheckerSettle, CheckerWake,
         CheckerClose, Cascade, CancelClose, CancelCascade
    <2> QED BY <2>1, <2>2, <2>3
  <1>6. \A q \in Slot : Birth(q)'
    BY <1>4, <1>5, Locations DEF Birth
  <1>7. \A q, u \in Slot :
           slot'[q].pc \in DelegatingPc /\ slot'[u].pc \in DelegatingPc /\ slot'[q].child = slot'[u].child => q = u
    BY <1>5, Locations DEF Births
  <1> QED BY <1>1, <1>3, <1>6, <1>7 DEF Births

-----------------------------------------------------------------------------
(* What a parent knows of the end of its child.                            *)

(* Execution r is not about to make an end known, or was so already.       *)
Steady(r) ==
    slot'[r].pc \in {"settle", "wake"} /\ ~slot'[r].ok =>
        /\ slot'[r].pc = slot[r].pc /\ ~slot[r].ok /\ slot'[r].task = slot[r].task
        /\ slot'[r].todo \subseteq slot[r].todo

Adopting(r) == slot'[r].pc = "adopt" => slot[r].pc = "adopt" /\ slot'[r].child = slot[r].child

(* A window loses what it holds only when it goes, and it opens only for a *)
(* task that nothing is linked to.                                         *)
WindowKept(w) ==
    ctx'[w] => (ctx[w] \/ \A c \in Task : ~Linked(w, c)) /\ got[w] \subseteq got'[w]

LEMMA SteadyKnown ==
  ASSUME TypeOK, Core, Known, NEW r \in Slot, Steady(r), \A w \in Task : WindowKept(w),
         \A w \in Task : slot[r].pc = "settle" /\ <<w, slot[r].task>> \in waits'
                            => <<w, slot[r].task>> \in waits
  PROVE  KnownOk(r)'
  <1> SUFFICES ASSUME slot'[r].pc \in {"settle", "wake"}, ~slot'[r].ok, NEW w \in Task, ctx'[w],
                      \/ slot'[r].pc = "settle" /\ <<w, slot'[r].task>> \in waits'
                      \/ slot'[r].pc = "wake" /\ w \in slot'[r].todo
               PROVE  slot'[r].task \in got'[w]
    <2>1. slot'[r].pc = "wake" /\ ~slot'[r].ok => slot'[r].todo \subseteq Task
      BY SlotFields DEF Steady
    <2> QED BY <2>1 DEF KnownOk, Edge
  <1>1. /\ slot'[r].pc = slot[r].pc /\ ~slot[r].ok /\ slot'[r].task = slot[r].task
        /\ slot'[r].todo \subseteq slot[r].todo /\ slot[r].task \in Task
    BY TaskOfSlot DEF Steady
  <1>2. \/ slot[r].pc = "settle" /\ Edge(w, slot[r].task)
        \/ slot[r].pc = "wake" /\ w \in slot[r].todo
    BY <1>1 DEF Edge
  <1>3. Linked(w, slot[r].task)
    BY <1>1, <1>2 DEF Linked, ToWake
  <1>4. ctx[w] /\ got[w] \subseteq got'[w]
    BY <1>1, <1>3 DEF WindowKept
  <1> QED BY <1>1, <1>2, <1>4 DEF Known, KnownOk

LEMMA EndSteady ==
  ASSUME TypeOK, Core, NEW s \in Slot, slot' = End(s), NEW r \in Slot
  PROVE  Steady(r) /\ Adopting(r)
  <1>1. CASE r = s
    BY <1>1, EndSlots, FreeFields DEF Steady, Adopting
  <1>2. CASE r # s
    BY <1>2, EndSlots DEF Steady, Adopting
  <1> QED BY <1>1, <1>2

LEMMA MoveSteady ==
  ASSUME TypeOK, NEW s \in Slot, NEW e, slot' = [slot EXCEPT ![s] = e], NEW r \in Slot,
         e.pc \in {"settle", "wake"} => e.ok, e.pc # "adopt"
  PROVE  Steady(r) /\ Adopting(r)
  <1>1. slot'[s] = e /\ (r # s => slot'[r] = slot[r])
    BY SlotMove
  <1> QED BY <1>1 DEF Steady, Adopting

LEMMA GotoSteady ==
  ASSUME TypeOK, NEW s \in Slot, NEW l \in Pc, Goto(s, l), NEW r \in Slot,
         l \notin {"settle", "wake", "adopt"}
  PROVE  Steady(r) /\ Adopting(r)
  <1>1. slot' = [slot EXCEPT ![s] = [slot[s] EXCEPT !.pc = l]]
    BY DEF Goto, TypeOK
  <1>2. [slot[s] EXCEPT !.pc = l].pc = l
    BY SlotFields DEF Execution
  <1> QED BY <1>1, <1>2, MoveSteady

LEMMA StillSteady ==
  ASSUME slot' = slot
  PROVE  \A r \in Slot : Steady(r) /\ Adopting(r)
  BY DEF Steady, Adopting

(* The steps that leave the edges of the others and the windows alone, or  *)
(* close one.                                                              *)
LEMMA ClosedWindows ==
  ASSUME TypeOK, NEW t \in Task, CloseContext(t)
  PROVE  \A w \in Task : WindowKept(w)
  BY DEF CloseContext, WindowKept, TypeOK

LEMMA SameWindows ==
  ASSUME UNCHANGED <<ctx, got>>
  PROVE  \A w \in Task : WindowKept(w)
  BY DEF WindowKept

LEMMA PlainSteps ==
  ASSUME TypeOK, Core, Known, NEW s \in Slot,
         \/ Begin(s) \/ Abort(s) \/ Quit(s) \/ Answer(s) \/ EndBatch(s)
         \/ DelegateChild(s) \/ ParkParent(s) \/ EnqueueChild(s) \/ SpawnAdopt(s)
         \/ CallChild(s) \/ CallStart(s) \/ CallBack(s) \/ CallHear(s)
         \/ Succeed(s) \/ Fail(s) \/ Pause(s) \/ Failing(s) \/ Close(s)
  PROVE  Known' /\ \A r \in Slot : Adopting(r)
  <1> USE DEF schedVars, ctxVars, runVars
  <1>1. {"setup", "turn", "done", "fail", "park", "act", "enqueue", "cstart", "cpark", "hear", "paused",
         "failing", "inject"} \subseteq Pc
    BY DEF Pc
  <1>2. waits' = waits
    BY DEF Begin, Abort, Quit, Answer, EndBatch, DelegateChild, ParkParent, EnqueueChild,
           SpawnAdopt, CallChild, RegisterChild, CallStart, CallBack, CallHear, Succeed, Fail, Pause, Failing, Close
  <1>3. \A w \in Task : WindowKept(w)
    <2>1. CASE Answer(s) \/ Close(s)
      BY <2>1, TaskOfSlot, ClosedWindows DEF Answer, Close, At
    <2>2. CASE ~Answer(s) /\ ~Close(s)
      BY <2>2, SameWindows DEF Begin, Abort, Quit, EndBatch, DelegateChild, ParkParent, EnqueueChild,
           SpawnAdopt, CallChild, RegisterChild, CallStart, CallBack, CallHear, Succeed, Fail, Pause, Failing
    <2> QED BY <2>1, <2>2
  <1>4. ASSUME NEW r \in Slot
        PROVE  Steady(r) /\ Adopting(r)
    <2>1. CASE slot' = End(s)
      BY <2>1, EndSteady
    <2>2. CASE \E l \in {"setup", "turn", "done", "fail", "park", "act", "enqueue", "cstart", "cpark", "hear",
                         "paused", "failing", "inject"} : Goto(s, l)
      BY <1>1, <2>2, GotoSteady
    <2>3. CASE EndBatch(s)
      <3> DEFINE e == [slot[s] EXCEPT !.pc = IF slot[s].parked THEN "paused" ELSE "turn",
                                      !.left = 0, !.child = None, !.parked = FALSE]
      <3>1. e.pc \in {"paused", "turn"}
        BY SlotFields DEF Execution
      <3>2. slot' = [slot EXCEPT ![s] = e]
        BY <2>3, SlotFields DEF EndBatch, TypeOK
      <3> HIDE DEF e
      <3> QED BY <3>1, <3>2, MoveSteady
    <2>4. CASE ParkParent(s)
      <3> DEFINE e == [slot[s] EXCEPT !.pc = "enqueue", !.parked = @ \/ state[slot[s].task] \notin Terminal]
      <3>1. e.pc = "enqueue"
        BY SlotFields DEF Execution
      <3>2. slot' = [slot EXCEPT ![s] = e]
        BY <2>4, SlotFields DEF ParkParent, TypeOK
      <3> HIDE DEF e
      <3> QED BY <3>1, <3>2, MoveSteady
    <2>5. CASE Succeed(s) /\ slot' # End(s)
      <3> DEFINE e == [slot[s] EXCEPT !.ok = TRUE, !.pc = "settle"]
      <3>1. e.pc = "settle" /\ e.ok
        BY SlotFields DEF Execution
      <3>2. slot' = [slot EXCEPT ![s] = e]
        BY <2>5, SlotFields DEF Succeed, TypeOK
      <3> HIDE DEF e
      <3> QED BY <3>1, <3>2, MoveSteady
    <2> QED BY <2>1, <2>2, <2>3, <2>4, <2>5
            DEF Begin, Abort, Quit, Answer, DelegateChild, EnqueueChild, SpawnAdopt, CallChild,
                RegisterChild, CallStart, CallBack, CallHear, Fail, Pause, Failing, Close, GotoOrEnd, Goto
  <1>5. \A r \in Slot : KnownOk(r)'
    BY <1>2, <1>3, <1>4, SteadyKnown
  <1> QED BY <1>4, <1>5 DEF Known

(* The child of a tool call is minted after the slot of any task that ends. *)
LEMMA ToolCallKnown ==
  ASSUME TypeOK, Core, Known, Adopted, MaxCalls \in {0, 1}, NEW s \in Slot, NEW c \in Task,
         Delegate(s, c) \/ Spawn(s, c) \/ CallAgent(s, c)
  PROVE  Known' /\ Adopted'
  <1>1. PICK l \in {"child", "adopt", "cchild"} : ToolCall(s, c, l)
    BY DEF Delegate, Spawn, CallAgent
  <1>2. /\ slot'[s].pc = l /\ slot'[s].child = c /\ c \in fresh
        /\ \A r \in Slot \ {s} : slot'[r] = slot[r]
    BY <1>1, ToolCallViews
  <1>3. \A w \in Task : WindowKept(w)
    BY <1>1, SameWindows DEF ToolCall, ctxVars
  <1>4. \A e \in waits' : e \in waits \/ e[2] = c
    BY DEF Delegate, Spawn, CallAgent
  <1>5. ASSUME NEW r \in Slot
        PROVE  KnownOk(r)'
    <2>1. Steady(r)
      BY <1>2 DEF Steady
    <2>2. slot[r].task # c
      BY <1>2, NewTask
    <2> QED BY <1>3, <1>4, <2>1, <2>2, SteadyKnown
  <1> QED BY <1>2, <1>5 DEF Known, Adopted

LEMMA SetupKnown ==
  ASSUME TypeOK, Core, Known, NEW s \in Slot, Setup(s)
  PROVE  Known' /\ \A r \in Slot : Adopting(r)
  <1>1. UNCHANGED <<waits, got>> /\ slot[s].pc = "setup" /\ Goto(s, "turn")
    BY DEF Setup, schedVars, At
  <1>2. slot[s].task \in Task /\ Owns(s, slot[s].task)
    BY <1>1, TaskOfSlot DEF Owns, OwningPc
  <1>3. \A c \in Task : ~Linked(slot[s].task, c)
    BY <1>1, <1>2 DEF Core, LinkOk
  <1>4. \A w \in Task : WindowKept(w)
    BY <1>1, <1>3 DEF Setup, WindowKept, TypeOK
  <1>5. ASSUME NEW r \in Slot
        PROVE  Steady(r) /\ Adopting(r)
    BY <1>1, GotoSteady DEF Pc
  <1>6. \A r \in Slot : KnownOk(r)'
    BY <1>1, <1>4, <1>5, SteadyKnown
  <1> QED BY <1>5, <1>6 DEF Known

LEMMA CallParkKnown ==
  ASSUME TypeOK, Core, Known, NEW s \in Slot, NEW n \in Slot, CallPark(s, n)
  PROVE  Known' /\ \A r \in Slot : Adopting(r)
  <1>1. /\ waits' = waits /\ UNCHANGED <<ctx, got>> /\ s # n
        /\ slot' = [slot EXCEPT ![s].pc = "await",
                                ![n] = [Free EXCEPT !.pc = "setup", !.caller = s,
                                                    !.task = slot[s].child]]
    BY DEF CallPark, ctxVars, NextSlot, At
  <1>2. /\ slot'[s].pc = "await" /\ slot'[n].pc = "setup"
        /\ \A r \in Slot \ {s, n} : slot'[r] = slot[r]
    BY <1>1, SlotFields, FreeFields DEF TypeOK, Execution
  <1>3. \A r \in Slot : Steady(r) /\ Adopting(r)
    BY <1>2 DEF Steady, Adopting
  <1>4. \A r \in Slot : KnownOk(r)'
    BY <1>1, <1>3, SameWindows, SteadyKnown
  <1> QED BY <1>3, <1>4 DEF Known

(* The only way to what is at stake: a failure is in the window of its     *)
(* parent before the parent can be taken from the graph.                   *)
LEMMA InjectKnown ==
  ASSUME TypeOK, Core, Known, NEW s \in Slot, Inject(s)
  PROVE  Known' /\ \A r \in Slot : Adopting(r)
  <1> DEFINE t == slot[s].task
             p == origin[t]
  <1>1. /\ UNCHANGED <<waits, ctx>> /\ slot[s].pc = "inject" /\ GotoOrEnd(s, ~slot[s].ok, "settle")
        /\ got' = IF p \in Task /\ ctx[p] THEN [got EXCEPT ![p] = @ \cup {t}] ELSE got
    BY DEF Inject, schedVars, At
  <1>2. t \in Task
    BY <1>1, TaskOfSlot
  <1>3. \A w \in Task : got[w] \subseteq got'[w]
    BY <1>1 DEF TypeOK
  <1>4. \A w \in Task : WindowKept(w)
    BY <1>1, <1>3 DEF WindowKept
  <1>5. CASE slot[s].ok
    <2>1. \A r \in Slot : Steady(r) /\ Adopting(r)
      BY <1>1, <1>5, EndSteady DEF GotoOrEnd
    <2>2. \A r \in Slot : KnownOk(r)'
      BY <1>1, <1>4, <2>1, SteadyKnown
    <2> QED BY <2>1, <2>2 DEF Known
  <1>6. CASE ~slot[s].ok
    <2> DEFINE e == [slot[s] EXCEPT !.pc = "settle"]
    <2>1. slot' = [slot EXCEPT ![s] = e] /\ e.pc = "settle" /\ e.task = t
      BY <1>1, <1>6, SlotFields DEF GotoOrEnd, TypeOK, Execution
    <2> HIDE DEF e
    <2>2. slot'[s] = e /\ \A r \in Slot : r # s => slot'[r] = slot[r]
      BY <2>1, SlotMove
    <2>3. \A r \in Slot : Adopting(r)
      BY <2>1, <2>2 DEF Adopting
    <2>4. ASSUME NEW w \in Task, Edge(w, t), ctx[w]
          PROVE  t \in got'[w]
      <3>1. p = w
        BY <1>2, <2>4 DEF Core, PlaceOk
      <3> QED BY <1>1, <2>4, <3>1 DEF TypeOK
    <2>5. slot'[s].pc = "settle" /\ slot'[s].task = t
      BY <2>1, <2>2
    <2>6. KnownOk(s)'
      BY <1>1, <2>4, <2>5 DEF KnownOk, Edge
    <2>7. ASSUME NEW r \in Slot, r # s
          PROVE  KnownOk(r)'
      BY <1>1, <1>4, <2>2, <2>7, SteadyKnown DEF Steady
    <2> QED BY <2>3, <2>6, <2>7 DEF Known
  <1> QED BY <1>5, <1>6

LEMMA SettleKnown ==
  ASSUME TypeOK, Core, Known, NEW s \in Slot, Settle(s)
  PROVE  Known' /\ \A r \in Slot : Adopting(r)
  <1> DEFINE t == slot[s].task
             D == Dependents(waits, t)
             l == IF D = {} THEN AfterWake(s) ELSE "wake"
             e == [slot[s] EXCEPT !.todo = D, !.pc = l]
  <1>1. /\ slot[s].pc = "settle" /\ waits' = RemoveEdges(waits, {t}) /\ UNCHANGED <<ctx, got>>
        /\ slot' = [slot EXCEPT ![s] = e]
    BY SlotFields DEF Settle, At, ctxVars, TypeOK
  <1>2. l \in {"wake", "inject", "close"}
    BY DEF AfterWake
  <1> HIDE DEF l
  <1>3. e.pc = l /\ e.todo = D /\ e.task = t /\ e.ok = slot[s].ok
    BY SlotFields DEF Execution
  <1> HIDE DEF e
  <1>4. slot'[s] = e /\ \A r \in Slot : r # s => slot'[r] = slot[r]
    BY <1>1, SlotMove
  <1>5. \A r \in Slot : Adopting(r)
    BY <1>2, <1>3, <1>4 DEF Adopting
  <1>6. waits' \subseteq waits
    BY <1>1 DEF RemoveEdges
  <1>7. KnownOk(s)'
    <2>1. KnownOk(s) /\ \A w \in D : w \in Task /\ Edge(w, t)
      BY DEF Known, Dependents, Edge
    <2>2. ~slot[s].ok => \A w \in D : ctx[w] => t \in got[w]
      BY <1>1, <2>1 DEF KnownOk
    <2>3. /\ slot'[s].pc # "settle" /\ slot'[s].todo = D /\ slot'[s].task = t
          /\ slot'[s].ok = slot[s].ok
      BY <1>2, <1>3, <1>4
    <2> QED BY <1>1, <2>2, <2>3 DEF KnownOk
  <1>8. ASSUME NEW r \in Slot, r # s
        PROVE  KnownOk(r)'
    BY <1>1, <1>4, <1>6, <1>8, SameWindows, SteadyKnown DEF Steady
  <1> QED BY <1>5, <1>7, <1>8 DEF Known

LEMMA WakeKnown ==
  ASSUME TypeOK, Core, Known, NEW s \in Slot, NEW w \in Task, Wake(s, w)
  PROVE  Known' /\ \A r \in Slot : Adopting(r)
  <1> DEFINE l == IF slot[s].todo = {w} THEN AfterWake(s) ELSE slot[s].pc
             e == [slot[s] EXCEPT !.todo = @ \ {w}, !.pc = l]
  <1>1. /\ slot[s].pc = "wake" /\ waits' = waits /\ UNCHANGED <<ctx, got>>
        /\ slot' = [slot EXCEPT ![s] = e]
    BY SlotFields DEF Wake, At, ctxVars, TypeOK
  <1>2. l \in {"wake", "inject", "close"}
    BY <1>1 DEF AfterWake
  <1> HIDE DEF l
  <1>3. e.pc = l /\ e.todo = slot[s].todo \ {w} /\ e.task = slot[s].task /\ e.ok = slot[s].ok
    BY SlotFields DEF Execution
  <1> HIDE DEF e
  <1>4. slot'[s] = e /\ \A r \in Slot : r # s => slot'[r] = slot[r]
    BY <1>1, SlotMove
  <1>5. \A r \in Slot : Steady(r) /\ Adopting(r)
    BY <1>1, <1>2, <1>3, <1>4 DEF Steady, Adopting
  <1>6. \A r \in Slot : KnownOk(r)'
    BY <1>1, <1>5, SameWindows, SteadyKnown
  <1> QED BY <1>5, <1>6 DEF Known

LEMMA OtherKnown ==
  ASSUME TypeOK, Core, Known,
         \/ \E t \in Task : Submit(t) \/ Cancel(t) \/ SweepCall(t)
         \/ Executor
         \/ \E S \in SUBSET Task : TimeOut(S)
         \/ Check
         \/ Cascade
  PROVE  Known' /\ \A r \in Slot : Adopting(r)
  <1> USE DEF schedVars, ctxVars, runVars
  <1>1. waits' \subseteq waits
    BY DEF Submit, Cancel, SweepCall, Executor, IdleTick, Dispatch, TimeOut, Check, CheckerSettle,
           RemoveEdges, CheckerWake, CheckerClose, Cascade, CancelClose, CancelCascade
  <1>2. \A w \in Task : WindowKept(w)
    <2>1. CASE CheckerClose
      <3>1. checker.task \in Task
        BY <2>1 DEF CheckerClose, Core, CheckerOk
      <3> QED BY <2>1, <3>1, ClosedWindows DEF CheckerClose
    <2>2. CASE CancelClose
      <3>1. operator.task \in Task
        BY <2>2 DEF CancelClose, TypeOK
      <3> QED BY <2>2, <3>1, ClosedWindows DEF CancelClose
    <2>3. CASE ~CheckerClose /\ ~CancelClose
      BY <2>3, SameWindows DEF Submit, Cancel, SweepCall, Executor, IdleTick, Dispatch, TimeOut, Check,
           CheckerSettle, CheckerWake, Cascade, CancelCascade
    <2> QED BY <2>1, <2>2, <2>3
  <1>3. ASSUME NEW r \in Slot
        PROVE  Steady(r) /\ Adopting(r)
    <2>1. CASE \E s \in Slot, t \in Task : Dispatch(s, t)
      <3>1. PICK s \in Slot, t \in Task : Dispatch(s, t)
        BY <2>1
      <3>2. [Free EXCEPT !.pc = "begin", !.task = t].pc = "begin"
        BY FreeFields DEF Execution
      <3> QED BY <3>1, <3>2, MoveSteady DEF Dispatch
    <2>2. CASE slot' = slot
      BY <2>2, StillSteady
    <2> QED BY <2>1, <2>2
            DEF Submit, Cancel, SweepCall, Executor, IdleTick, TimeOut, Check,
                CheckerSettle, CheckerWake, CheckerClose, Cascade, CancelClose, CancelCascade
  <1>4. \A r \in Slot : KnownOk(r)'
    BY <1>1, <1>2, <1>3, SteadyKnown
  <1> QED BY <1>3, <1>4 DEF Known

-----------------------------------------------------------------------------
(* The invariant.                                                          *)

LEMMA InitInv == Init => IInv
  <1> SUFFICES ASSUME Init PROVE IInv
    OBVIOUS
  <1>1. \A s \in Slot : slot[s] = Free
    BY DEF Init
  <1>2. TypeOK
    BY FreeFields, BoundAssumption DEF Init, TypeOK, MaybeState
  <1>3. \A w, c \in Task : ~Edge(w, c) /\ ~CheckerToWake(w, c) /\ ~Linked(w, c)
    BY <1>1, FreeFields DEF Init, Edge, CheckerToWake, ToWake, Linked
  <1>4. \A s \in Slot, t \in Task : ~Owns(s, t) /\ ~Holds(s, t) /\ \A w \in Task : ~ToWake(s, w, t)
    BY <1>1, FreeFields, Names DEF Owns, Holds, ToWake
  <1>5. \A s \in Slot : SelfOk(s) /\ ChildOk(s) /\ CallerOk(s) /\ KnownOk(s) /\ slot[s].pc # "adopt"
    BY <1>1, FreeFields
       DEF SelfOk, ChildOk, CallerOk, KnownOk, Owns, OwningPc, EndingPc, DelegatingPc, CallingPc, BirthPc
  <1>6. \A s, r \in Slot : PairOk(s, r)
    BY <1>1, <1>4, FreeFields DEF PairOk
  <1>7. \A t \in Task : TaskOk(t)
    BY <1>3 DEF TaskOk, Init
  <1>8. \A w, c \in Task : PlaceOk(w, c) /\ LinkOk(w, c)
    BY <1>3, <1>4 DEF PlaceOk, LinkOk
  <1>9. CheckerOk
    BY DEF CheckerOk, Init
  <1> QED BY <1>2, <1>5, <1>6, <1>7, <1>8, <1>9 DEF IInv, Core, Known, Adopted

LEMMA ExecuteInv ==
  ASSUME TypeOK, Core, Adopted, Known, MaxCalls \in {0, 1}, NEW s \in Slot, Execute(s)
  PROVE  Core' /\ Adopted' /\ Known'
  <1>1. (\A r \in Slot : Adopting(r)) => Adopted'
    BY DEF Adopting, Adopted
  <1>2. CASE Setup(s) \/ Abort(s) \/ Quit(s) \/ Answer(s) \/ DelegateChild(s) \/ SpawnAdopt(s)
             \/ CallChild(s) \/ CallHear(s)
    BY <1>1, <1>2, LoopSteps, SetupKnown, PlainSteps
  <1>3. CASE EndBatch(s) \/ ParkParent(s) \/ CallBack(s) \/ Fail(s) \/ Pause(s) \/ Close(s)
    BY <1>1, <1>3, StateSteps, ParkSteps, EndSteps, PlainSteps
  <1>4. CASE Begin(s) \/ Succeed(s) \/ Failing(s)
    BY <1>1, <1>4, StateSteps, ParkSteps, EndSteps, PlainSteps
  <1>5. CASE Inject(s)
    BY <1>1, <1>5, ParkSteps, EndSteps, InjectKnown
  <1>6. CASE \E c \in Task : Delegate(s, c) \/ Spawn(s, c) \/ CallAgent(s, c)
    BY <1>6, ToolSteps, ToolCallKnown
  <1>7. CASE EnqueueChild(s) \/ CallStart(s)
    BY <1>1, <1>7, EnqueueChildStep, CallStartStep, PlainSteps
  <1>8. CASE \E r \in Slot : CallPark(s, r)
    BY <1>1, <1>8, CallParkStep, CallParkKnown
  <1>9. CASE Settle(s)
    BY <1>1, <1>9, SettleStep, SettleKnown
  <1>10. CASE \E w \in Task : Wake(s, w)
    BY <1>1, <1>10, WakeStep, WakeKnown
  <1> QED BY <1>2, <1>3, <1>4, <1>5, <1>6, <1>7, <1>8, <1>9, <1>10 DEF Execute

LEMMA OtherCore ==
  ASSUME TypeOK, Core,
         \/ \E t \in Task : Submit(t) \/ Cancel(t) \/ SweepCall(t)
         \/ Executor
         \/ \E S \in SUBSET Task : TimeOut(S)
         \/ Check
         \/ Cascade
  PROVE  Core'
  <1>1. CASE \E t \in Task : Submit(t)
    BY <1>1, SubmitStep
  <1>2. CASE (\E t \in Task : Cancel(t) \/ SweepCall(t)) \/ IdleTick \/ Cascade
    BY <1>2, OperatorSteps DEF Cascade
  <1>3. CASE \E s \in Slot, t \in Task : Dispatch(s, t)
    BY <1>3, DispatchStep
  <1>4. CASE \E S \in SUBSET Task : TimeOut(S)
    BY <1>4, TimeOutStep
  <1>5. CASE Check
    BY <1>5, CheckerSteps DEF Check
  <1> QED BY <1>1, <1>2, <1>3, <1>4, <1>5 DEF Executor

LEMMA StillInv == IInv /\ UNCHANGED vars => IInv'
  <1> SUFFICES ASSUME IInv, UNCHANGED vars PROVE IInv'
    OBVIOUS
  <1> USE DEF vars, schedVars, ctxVars, runVars, IInv
  <1>1. TypeOK'
    BY DEF TypeOK
  <1>2. /\ \A s \in Slot, t \in Task : (Owns(s, t)' <=> Owns(s, t)) /\ (Holds(s, t)' <=> Holds(s, t))
        /\ \A w, c \in Task : Edge(w, c)' <=> Edge(w, c)
        /\ \A w, c \in Task : CheckerToWake(w, c)' <=> CheckerToWake(w, c)
        /\ \A s \in Slot, w, c \in Task : ToWake(s, w, c)' <=> ToWake(s, w, c)
    BY DEF Owns, Holds, Edge, CheckerToWake, ToWake
  <1>3. \A w, c \in Task : Linked(w, c)' <=> Linked(w, c)
    BY <1>2 DEF Linked
  <1>4. ASSUME NEW s \in Slot
        PROVE  SelfOk(s)' /\ ChildOk(s)' /\ CallerOk(s)'
    <2>1. SelfOk(s) /\ ChildOk(s) /\ CallerOk(s)
      BY DEF Core
    <2>2. SelfOk(s)' /\ CallerOk(s)'
      BY <2>1 DEF SelfOk, CallerOk, Over, Owns
    <2>3. ChildOk(s)'
      BY <1>3, <2>1 DEF ChildOk, Over, CallingPc
    <2> QED BY <2>2, <2>3
  <1>5. \A s, r \in Slot : PairOk(s, r)'
    BY <1>2 DEF PairOk, Core
  <1>6. \A t \in Task : TaskOk(t)'
    BY <1>2, <1>3 DEF TaskOk, Core, Over
  <1>7. \A w, c \in Task : PlaceOk(w, c)'
    BY <1>2 DEF PlaceOk, Core
  <1>8. ASSUME NEW w \in Task, NEW c \in Task
        PROVE  LinkOk(w, c)'
    <2>1. LinkOk(w, c) /\ (Over(w)' <=> Over(w))
      BY DEF Core, Over
    <2> QED BY <1>2, <1>3, <2>1 DEF LinkOk
  <1>9. CheckerOk'
    BY DEF CheckerOk, Core, Over
  <1>10. Adopted' /\ Known'
    BY DEF Adopted, Known, KnownOk, Edge
  <1> QED BY <1>1, <1>4, <1>5, <1>6, <1>7, <1>8, <1>9, <1>10 DEF Core

LEMMA NextInv ==
  ASSUME MaxCalls \in {0, 1}, IInv, [Next]_vars
  PROVE  IInv'
  <1>1. CASE \E s \in Slot : Execute(s)
    BY <1>1, ExecuteInv, ExecuteTypes, CoreRoles DEF IInv
  <1>2. CASE \/ \E t \in Task : Submit(t) \/ Cancel(t) \/ SweepCall(t)
             \/ Executor
             \/ \E S \in SUBSET Task : TimeOut(S)
             \/ Check
             \/ Cascade
    <2>1. Core' /\ TypeOK' /\ Known' /\ \A r \in Slot : Adopting(r)
      BY <1>2, OtherCore, OtherTypes, OtherKnown DEF IInv
    <2>2. Adopted'
      BY <2>1 DEF IInv, Adopting, Adopted
    <2> QED BY <2>1, <2>2 DEF IInv
  <1>3. CASE UNCHANGED vars
    BY <1>3, StillInv
  <1> QED BY <1>1, <1>2, <1>3 DEF Next

LEMMA Invariant ==
  ASSUME MaxCalls \in {0, 1}
  PROVE  Spec => []IInv
  <1>1. IInv /\ [Next]_vars => IInv'
    BY NextInv
  <1> QED BY <1>1, InitInv, PTL DEF Spec

-----------------------------------------------------------------------------
(* What follows from it.                                                   *)

LEMMA RolesInvariant == Spec => [](TypeOK /\ Roles)
  <1>1. Init => TypeOK /\ Roles
    <2> SUFFICES ASSUME Init PROVE TypeOK /\ Roles
      OBVIOUS
    <2>1. TypeOK
      BY InitInv DEF IInv
    <2>2. \A s \in Slot : slot[s] = Free
      BY DEF Init
    <2> QED BY <2>1, <2>2, FreeFields DEF Roles, Role, ChildPc, DelegatingPc, CallingPc, BirthPc
  <1>2. TypeOK /\ Roles /\ [Next]_vars => (TypeOK /\ Roles)'
    <2> SUFFICES ASSUME TypeOK, Roles, [Next]_vars
                 PROVE  TypeOK' /\ Roles'
      OBVIOUS
    <2>1. CASE \E s \in Slot : Execute(s)
      BY <2>1, ExecuteTypes, ExecuteRoles
    <2>2. CASE \E s \in Slot, t \in Task : Dispatch(s, t)
      BY <2>2, OtherTypes, DispatchRoles DEF Executor
    <2>3. CASE \/ \E t \in Task : Submit(t) \/ Cancel(t) \/ SweepCall(t)
               \/ IdleTick
               \/ \E S \in SUBSET Task : TimeOut(S)
               \/ Check
               \/ Cascade
      <3>1. slot' = slot
        BY <2>3 DEF Submit, Cancel, SweepCall, IdleTick, TimeOut, Check, CheckerSettle, CheckerWake, CheckerClose,
           Cascade, CancelClose, CancelCascade
      <3> QED BY <2>3, <3>1, OtherTypes DEF Executor, Roles, Role
    <2>4. CASE UNCHANGED vars
      <3>1. slot' = slot
        BY <2>4 DEF vars
      <3>2. TypeOK'
        BY <2>4 DEF vars, schedVars, ctxVars, runVars, TypeOK
      <3> QED BY <3>1, <3>2 DEF Roles, Role
    <2> QED BY <2>1, <2>2, <2>3, <2>4 DEF Next, Executor
  <1> QED BY <1>1, <1>2, PTL DEF Spec

(* The state of the task model keeps its types, for answers of any number  *)
(* of tool calls; in particular whoever registers, starts or wakes a task  *)
(* has one.                                                                *)
THEOREM TypeCorrect == Spec => []TypeOK
  BY RolesInvariant, PTL

(* For answers of any number of calls, and whoever else ends, parks, times *)
(* out or cancels the callee: an execution that runs an agent inline, and  *)
(* has given up its turn to it, has an execution that will bring it back;  *)
(* and from the registration of the call to its answer there is a call     *)
(* that the callee's end or the sweep can answer (register_call before the *)
(* child runs, complete_call and sweep_expired).  It is what the promise   *)
(* that callers return rests on.                                           *)
THEOREM CallersAreServed == Spec => []CallersServed
  <1>1. Init => CallersServed
    <2> SUFFICES ASSUME Init PROVE CallersServed
      OBVIOUS
    <2>1. \A s \in Slot : slot[s] = Free
      BY DEF Init
    <2> QED BY <2>1, FreeFields DEF CallersServed, Serving, CallingPc, BirthPc
  <1>2. TypeOK /\ Roles /\ CallersServed /\ [Next]_vars => CallersServed'
    <2> SUFFICES ASSUME TypeOK, Roles, CallersServed, [Next]_vars
                 PROVE  CallersServed'
      OBVIOUS
    <2>1. CASE \E s \in Slot : Execute(s)
      BY <2>1, ExecuteServes
    <2>2. CASE Next /\ ~\E s \in Slot : Execute(s)
      BY <2>2, OtherServes
    <2>3. CASE UNCHANGED vars
      BY <2>3 DEF vars, CallersServed, Serving
    <2> QED BY <2>1, <2>2, <2>3
  <1> QED BY <1>1, <1>2, RolesInvariant, PTL DEF Spec

(* For answers of any number of calls an end is final: whatever of         *)
(* completions, wake-ups, timeouts, late queueings of children and inline  *)
(* starts race for a task, none takes it out of a terminal state           *)
(* (update_state_if_not_terminal and requeue, and enqueue and              *)
(* register_external, which overwrite, but only ever bring a task in).  A  *)
(* cancellation may turn one end into another.                             *)
THEOREM EndsAreFinal == Spec => [][\A t \in Task : Over(t) => Over(t)']_vars
  <1>1. Init => Births
    <2> SUFFICES ASSUME Init PROVE Births
      OBVIOUS
    <2>1. \A s \in Slot : slot[s] = Free
      BY DEF Init
    <2>2. \A t \in fresh : state[t] = Absent
      BY DEF Init
    <2> QED BY <2>1, <2>2, FreeFields, Locations DEF Births, Birth
  <1>2. TypeOK /\ Roles /\ Births /\ [Next]_vars =>
           Births' /\ [\A t \in Task : Over(t) => Over(t)']_vars
    <2> SUFFICES ASSUME TypeOK, Roles, Births, [Next]_vars
                 PROVE  Births' /\ [\A t \in Task : Over(t) => Over(t)']_vars
      OBVIOUS
    <2>1. ASSUME Births', \A t \in Task : Lasting(t)
          PROVE  Births' /\ [\A t \in Task : Over(t) => Over(t)']_vars
      BY <2>1, Names DEF Lasting, Over
    <2>2. CASE \E s \in Slot : Execute(s)
      BY <2>1, <2>2, ExecuteBirths, ExecuteLasting
    <2>3. CASE Next /\ ~\E s \in Slot : Execute(s)
      BY <2>1, <2>3, OtherBirths
    <2>4. CASE UNCHANGED vars
      BY <2>4 DEF vars, schedVars, runVars, Births, Birth
    <2> QED BY <2>2, <2>3, <2>4
  <1> QED BY <1>1, <1>2, RolesInvariant, PTL DEF Spec

(* When a model answer has at most one tool call, no wake-up starts a      *)
(* second loop of a task: neither a child that ends, nor the timeout       *)
(* checker, nor the return of an inline call lets the executor dispatch a  *)
(* task whose loop goes on (requeue of scheduler.rs, execute_task_sync).   *)
THEOREM OneLoopPerTask ==
  ASSUME MaxCalls \in {0, 1}
  PROVE  Spec => []OneActiveLoop
  <1>1. IInv => OneActiveLoop
    <2> SUFFICES ASSUME IInv, NEW s \in Slot, NEW r \in Slot, Iterating(s), Iterating(r),
                        slot[s].task = slot[r].task
                 PROVE  s = r
      BY DEF OneActiveLoop
    <2>1. ASSUME NEW q \in Slot, Iterating(q)
          PROVE  slot[q].task \in Task /\ Owns(q, slot[q].task)
      <3>1. slot[q].task \in Task /\ slot[q].left = 0
        BY <2>1, TaskOfSlot DEF IInv, Iterating, Core, SelfOk
      <3> QED BY <2>1, <3>1 DEF Iterating, At, Owns, OwningPc, DelegatingPc, CallingPc, BirthPc
    <2> QED BY <2>1 DEF IInv, Core, PairOk
  <1> QED BY <1>1, Invariant, PTL

(* A parent that runs again because its child failed finds the failure in  *)
(* its window, whoever else ends tasks or closes windows meanwhile         *)
(* (complete_task_failure injects before it takes the waiters).            *)
THEOREM FailureReachesParent ==
  ASSUME MaxCalls \in {0, 1}
  PROVE  Spec => []FailureIsKnown
  <1>1. IInv => FailureIsKnown
    BY DEF IInv, Known, KnownOk, FailureIsKnown, At
  <1> QED BY <1>1, Invariant, PTL

=============================================================================
