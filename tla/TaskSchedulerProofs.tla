------------------------ MODULE TaskSchedulerProofs ------------------------
(***************************************************************************)
(* Proofs that the TaskScheduler never strands a queued task and never     *)
(* leaves an accepted task without a row, for every number of tasks,       *)
(* agents and concurrent callers.                                          *)
(***************************************************************************)
EXTENDS TaskScheduler, TLAPS

----------------------------------------------------------------------------
(* Type correctness, one lemma per kind of step.                           *)

(* Changing one call to a call keeps call a function into Call.            *)
LEMMA GotoType ==
    ASSUME TypeOK, NEW p \in Proc, NEW c \in Call, Goto(p, c)
    PROVE  call' \in [Proc -> Call]
BY DEF TypeOK, Goto

LEMMA IdleType == Idle \in Call
BY DEF Idle, Call, CallRecord, OfTask, Pc, Cont, MaybeState, Absent

LEMMA PersistingType ==
    ASSUME NEW t \in Task, NEW s \in TaskState, NEW l \in Cont,
           NEW S \in SUBSET Task, NEW q \in Task \cup {None}
    PROVE  Persisting(t, s, l, S, q) \in Call
BY DEF Persisting, Idle, Call, CallRecord, OfTask, Pc, MaybeState

LEMMA EnqueueingType ==
    ASSUME NEW t \in Task, NEW q \in Task \cup {None}
    PROVE  Enqueueing(t, q) \in Call
BY DEF Enqueueing, Idle, Call, CallRecord, OfTask, Pc, Cont, MaybeState, Absent

(* The sections of enqueue, and the push and the persist of every call.    *)
LEMMA EnqueueTypeOK ==
    ASSUME TypeOK, NEW p \in Proc,
           \/ EnqueueCount(p) \/ EnqueueReject(p) \/ EnqueueInsert(p)
           \/ Push(p)
    PROVE  TypeOK'
<1>1. call[p] \in Call
  BY DEF TypeOK
<1>2. CASE EnqueueCount(p)
  <2>1. [call[p] EXCEPT !.pc = IF AtCap(tasks, AgentOf[call[p].task])
                               THEN "reject" ELSE "insert"] \in Call
    BY <1>1, <1>2 DEF EnqueueCount, At, Call, CallRecord, OfTask, Pc
  <2> QED
    BY <1>2, <2>1, GotoType
       DEF EnqueueCount, TypeOK, graphVars, loopVars, runVars
<1>3. CASE EnqueueReject(p)
  <2>1. Persisting(call[p].task, "Failed", "idle", {}, call[p].loop) \in Call
    BY <1>1, PersistingType, <1>3 DEF Call, CallRecord, OfTask, EnqueueReject, At, TaskState, Cont
  <2> QED
    BY <1>3, <2>1, GotoType
       DEF EnqueueReject, TypeOK, graphVars, loopVars, runVars, MaybeState,
           TaskState
<1>4. CASE EnqueueInsert(p)
  <2>1. [call[p] EXCEPT !.pc = "push", !.snap = "Queued"] \in Call
    BY <1>1, <1>4 DEF EnqueueInsert, At, Call, CallRecord, OfTask, Pc, MaybeState, TaskState
  <2> QED
    BY <1>4, <2>1, GotoType
       DEF EnqueueInsert, TypeOK, graphVars, loopVars, runVars, MaybeState,
           TaskState
<1>5. CASE Push(p)
  <2>1. [call[p] EXCEPT !.pc = "persist"] \in Call
    BY <1>1, <1>5 DEF Push, At, Call, CallRecord, OfTask, Pc
  <2>2. call[p].task \in Task
    BY <1>1, <1>5 DEF Push, At, Call, OfTask
  <2> QED
    BY <1>5, <2>1, <2>2, GotoType
       DEF Push, TypeOK, graphVars, loopVars, runVars
<1> QED
  BY <1>2, <1>3, <1>4, <1>5

LEMMA PersistTypeOK ==
    ASSUME TypeOK, NEW p \in Proc,
           Persist(p) \/ Spawn(p) \/ MarkStarted(p)
    PROVE  TypeOK'
<1>1. call[p] \in Call
  BY DEF TypeOK
<1>2. Return(p) => call' \in [Proc -> Call] /\ live' \in [Task -> Nat]
  BY <1>1, IdleType, GotoType DEF Return, TypeOK
<1>3. CASE Persist(p)
  <2>1. [call[p] EXCEPT !.pc = call[p].cont, !.cont = "idle",
                        !.snap = Absent] \in Call
    BY <1>1, <1>3
       DEF Persist, At, Call, CallRecord, OfTask, Pc, Cont, MaybeState, Absent
  <2>2. Continue(p) => call' \in [Proc -> Call] /\ live' \in [Task -> Nat]
    BY <2>1, GotoType DEF Continue, TypeOK
  <2>3. call' \in [Proc -> Call] /\ live' \in [Task -> Nat]
    BY <1>2, <1>3, <2>2 DEF Persist
  <2>4. rows' \in [Task -> MaybeState]
    BY <1>1, <1>3 DEF Persist, TypeOK, Call, CallRecord
  <2> QED
    BY <1>3, <2>3, <2>4 DEF Persist, TypeOK, graphVars, runVars
<1>4. CASE Spawn(p)
  <2>1. call[p].task \in Task
    BY <1>1, <1>4 DEF Spawn, At, Call, OfTask
  <2>2. [call[p] EXCEPT !.pc = "mark", !.loop = call[p].task] \in Call
    BY <1>1, <2>1 DEF Call, CallRecord, OfTask, Pc
  <2>3. Persisting(call[p].task, "Running", "mark", {}, call[p].task) \in Call
    BY <2>1, PersistingType DEF TaskState, Cont
  <2>4. call' \in [Proc -> Call]
    BY <1>4, <2>2, <2>3, GotoType DEF Spawn
  <2> QED
    BY <1>4, <2>4
       DEF Spawn, TypeOK, graphVars, loopVars, runVars, MaybeState, TaskState
<1>5. CASE MarkStarted(p)
  <2>1. CASE tasks[call[p].task] = Absent
    BY <1>2, <1>5, <2>1 DEF MarkStarted, TypeOK, graphVars, runVars
  <2>2. CASE tasks[call[p].task] # Absent
    <3>1. Persisting(call[p].task, tasks[call[p].task], "idle", {},
                     call[p].task) \in Call
      BY <1>1, <1>5 DEF MarkStarted, At, TypeOK, Call, CallRecord, OfTask, Persisting, Idle, Pc, Cont,
             MaybeState
    <3> QED
      BY <1>5, <2>2, <3>1, GotoType
         DEF MarkStarted, TypeOK, graphVars, runVars
  <2> QED
    BY <2>1, <2>2
<1> QED
  BY <1>3, <1>4, <1>5

(* The calls that begin by changing the state of one task.                 *)
LEMMA UpdateTypeOK ==
    ASSUME TypeOK, NEW p \in Proc, NEW t \in Task,
           NEW s \in TaskState, NEW l \in Cont, NEW S \in SUBSET Task,
           NEW q \in Task \cup {None}, UpdateState(p, t, s, l, S, q)
    PROVE  /\ tasks' \in [Task -> MaybeState]
           /\ call' \in [Proc -> Call]
           /\ UNCHANGED <<heap, edges, children, rows>>
BY PersistingType, GotoType
   DEF UpdateState, TypeOK, MaybeState, graphVars

LEMMA LoopTypeOK ==
    ASSUME TypeOK, NEW p \in Proc, NEW t \in Task,
           \/ Start(p, t) \/ LoopPark(p, t) \/ LoopUnpark(p, t)
           \/ LoopSuspend(p, t) \/ LoopQuit(t)
           \/ \E s \in {"Complete", "Failed"} : LoopFinish(p, t, s)
    PROVE  TypeOK'
<1> USE DEF TaskState, Cont
<1>1. NoUpdate(p, t) => UNCHANGED <<tasks, heap, edges, children, rows, call>>
  BY DEF NoUpdate, graphVars
<1>2. LoopCalls(t) => /\ live' \in [Task -> Nat]
                      /\ UNCHANGED <<starting, commands, restarts>>
  BY DEF LoopCalls, TypeOK
<1>3. CASE Start(p, t)
  <2>1. starting' \in [Task -> Nat] /\ UNCHANGED <<live, fresh, commands, restarts>>
    BY <1>3 DEF Start, TypeOK, runVars
  <2>2. UpdateIfNotTerminal(p, t, "Running", "mark", {}, t) =>
           /\ tasks' \in [Task -> MaybeState]
           /\ call' \in [Proc -> Call]
           /\ UNCHANGED <<heap, edges, children, rows>>
    BY UpdateTypeOK DEF UpdateIfNotTerminal
  <2> QED
    BY <1>1, <1>3, <2>1, <2>2 DEF Start, TypeOK
<1>4. CASE LoopPark(p, t)
  <2>1. PICK q \in {t, None} : UpdateState(p, t, "Waiting", "idle", {}, q)
    BY <1>4 DEF LoopPark
  <2>2. /\ tasks' \in [Task -> MaybeState]
        /\ call' \in [Proc -> Call]
        /\ UNCHANGED <<heap, edges, children, rows>>
    BY <2>1, UpdateTypeOK
  <2> QED
    BY <1>2, <1>4, <2>2 DEF LoopPark, TypeOK
<1>5. CASE LoopUnpark(p, t)
  BY <1>2, <1>5, UpdateTypeOK DEF LoopUnpark, UpdateIfNotTerminal, TypeOK
<1>6. CASE LoopSuspend(p, t)
  BY <1>1, <1>2, <1>6, UpdateTypeOK
     DEF LoopSuspend, UpdateIfNotTerminal, TypeOK
<1>7. CASE \E s \in {"Complete", "Failed"} : LoopFinish(p, t, s)
  <2>1. PICK s \in {"Complete", "Failed"} : LoopFinish(p, t, s)
    BY <1>7
  <2>2. UpdateIfNotTerminal(p, t, s, "depend", {t}, None) =>
           /\ tasks' \in [Task -> MaybeState]
           /\ call' \in [Proc -> Call]
           /\ UNCHANGED <<heap, edges, children, rows>>
    BY UpdateTypeOK DEF UpdateIfNotTerminal
  <2> QED
    BY <1>1, <1>2, <2>1, <2>2 DEF LoopFinish, TypeOK
<1>8. CASE LoopQuit(t)
  BY <1>2, <1>8 DEF LoopQuit, TypeOK, graphVars
<1> QED
  BY <1>3, <1>4, <1>5, <1>6, <1>7, <1>8

(* The commands, the submissions and the resume of a task.                 *)
LEMMA CommandedType ==
    ASSUME TypeOK, Commanded
    PROVE  commands' \in Nat /\ UNCHANGED <<fresh, restarts>>
BY DEF TypeOK, Commanded

LEMMA ClientTypeOK ==
    ASSUME TypeOK, NEW p \in Proc, NEW t \in Task, ClientCall(p, t)
    PROVE  TypeOK'
<1> USE DEF TaskState, Cont
<1>1. CASE Submit(p, t)
  BY <1>1, EnqueueingType, GotoType
     DEF Submit, TypeOK, graphVars, loopVars
<1>2. CASE RegisterExternal(p, t)
  BY <1>2, PersistingType, GotoType
     DEF RegisterExternal, TypeOK, MaybeState, graphVars, loopVars
<1>3. CASE Requeue(p, t)
  <2>1. [Idle EXCEPT !.pc = "push", !.task = t, !.snap = "Queued"] \in Call
    BY DEF Idle, Call, CallRecord, OfTask, Pc, MaybeState
  <2> QED
    BY <1>3, <2>1, GotoType, CommandedType
       DEF Requeue, TypeOK, MaybeState, graphVars, loopVars
<1>4. CASE Deny(p, t)
  BY <1>4, UpdateTypeOK, CommandedType
     DEF Deny, UpdateIfNotTerminal, TypeOK, loopVars
<1>5. CASE Cancel(p, t)
  BY <1>5, UpdateTypeOK, CommandedType DEF Cancel, TypeOK, loopVars
<1>6. CASE Resume(p, t)
  <2>1. [Idle EXCEPT !.pc = "resume", !.task = t] \in Call
    BY DEF Idle, Call, CallRecord, OfTask, Pc, MaybeState, Absent
  <2> QED
    BY <1>6, <2>1, GotoType, CommandedType
       DEF Resume, TypeOK, graphVars, loopVars
<1> QED
  BY <1>1, <1>2, <1>3, <1>4, <1>5, <1>6 DEF ClientCall

(* dequeue_runnable.                                                       *)
LEMMA DequeueTypeOK ==
    ASSUME TypeOK, NEW paused \in SUBSET Agent,
           DequeueNothing \/ \E t \in Task : Dequeue(t, paused)
    PROVE  TypeOK'
<1>1. CASE DequeueNothing
  BY <1>1 DEF DequeueNothing, TypeOK, graphVars, loopVars, runVars
<1>2. ASSUME NEW t \in Task, Dequeue(t, paused)
      PROVE  TypeOK'
  <2>1. heap[t] > 0
    BY <1>2 DEF Dequeue, Runnable
  <2>2. heap' \in [Task -> Nat] /\ starting' \in [Task -> Nat]
    BY <1>2, <2>1 DEF Dequeue, TypeOK
  <2> QED
    BY <1>2, <2>2 DEF Dequeue, TypeOK, graphVars, runVars
<1> QED
  BY <1>1, <1>2

(* The timeout checker, and the completion of a dependency.                *)
LEMMA WakeTypeOK ==
    ASSUME TypeOK, NEW p \in Proc,
           \/ \E t \in Task : SweepPersist(p, t) \/ CompleteDependency(p, t)
           \/ \E w \in Task : Wake(p, w)
           \/ WakeDone(p)
    PROVE  TypeOK'
<1> USE DEF graphVars, loopVars, runVars
<1>1. call[p] \in Call
  BY DEF TypeOK
<1>2. ASSUME NEW t \in Task, SweepPersist(p, t)
      PROVE  TypeOK'
  <2>1. \A l \in Pc \ OfTask :
           [call[p] EXCEPT !.waiters = @ \ {t}, !.pc = l] \in Call
    BY <1>1 DEF Call, CallRecord
  <2>2. [call[p] EXCEPT
           !.waiters = @ \ {t},
           !.pc = IF call[p].waiters = {t} THEN "depend" ELSE "sweep"] \in Call
    BY <2>1 DEF Pc, OfTask
  <2> QED
    BY <1>2, <2>2, GotoType DEF SweepPersist, TypeOK, MaybeState, TaskState
<1>3. ASSUME NEW t \in Task, CompleteDependency(p, t)
      PROVE  TypeOK'
  <2>1. [call[p] EXCEPT !.pc = "wake", !.todo = @ \ {t},
                        !.waiters = Dependents(edges, t)] \in Call
    BY <1>1 DEF Call, CallRecord, OfTask, Pc, Dependents
  <2> QED
    BY <1>3, <2>1, GotoType DEF CompleteDependency, TypeOK, RemoveEdges
<1>4. ASSUME NEW w \in Task, Wake(p, w)
      PROVE  TypeOK'
  <2>1. CASE tasks[w] \in Parked
    <3>1. [call[p] EXCEPT !.pc = "push", !.task = w, !.snap = "Queued",
                          !.cont = "wake", !.waiters = @ \ {w}] \in Call
      BY <1>1 DEF Call, CallRecord, OfTask, Pc, Cont, MaybeState, TaskState
    <3> QED
      BY <1>4, <2>1, <3>1, GotoType DEF Wake, TypeOK, MaybeState, TaskState
  <2>2. CASE tasks[w] \notin Parked
    <3>1. [call[p] EXCEPT !.waiters = @ \ {w}] \in Call
      BY <1>1 DEF Call, CallRecord
    <3> QED
      BY <1>4, <2>2, <3>1, GotoType DEF Wake, TypeOK
  <2> QED
    BY <2>1, <2>2
<1>5. CASE WakeDone(p)
  <2>1. /\ [call[p] EXCEPT !.pc = "pdelete"] \in Call
        /\ [call[p] EXCEPT !.pc = "depend"] \in Call
    BY <1>1 DEF Call, CallRecord, OfTask, Pc
  <2>2. call' \in [Proc -> Call]
    BY <1>5, <2>1, IdleType, GotoType DEF WakeDone
  <2> QED
    BY <1>5, <2>2 DEF WakeDone, TypeOK
<1> QED
  BY <1>2, <1>3, <1>4, <1>5

LEMMA CheckTimeoutsTypeOK ==
    ASSUME TypeOK, NEW p \in Proc, NEW S \in SUBSET Task, CheckTimeouts(p, S)
    PROVE  TypeOK'
<1>1. [Idle EXCEPT !.pc = "sweep", !.todo = S, !.waiters = S] \in Call
  BY DEF Idle, Call, CallRecord, OfTask, Pc, Cont, MaybeState, Absent
<1>2. tasks' \in [Task -> MaybeState]
  BY DEF CheckTimeouts, TypeOK, MaybeState, TaskState
<1> QED
  BY <1>1, <1>2, GotoType, CommandedType
     DEF CheckTimeouts, TypeOK, graphVars, loopVars

(* A purge.                                                                *)
LEMMA PurgeTypeOK ==
    ASSUME TypeOK, NEW p \in Proc,
           \/ \E a \in Agent, ss \in SUBSET PurgeStates : Purge(p, a, ss)
           \/ PurgeHeap(p) \/ PurgeChildren(p) \/ PurgeGraph(p)
           \/ PurgeRows(p)
    PROVE  TypeOK'
<1> USE DEF graphVars, loopVars, runVars
<1>1. call[p] \in Call
  BY DEF TypeOK
<1>2. \A l \in {"pchild", "pgraph"} : [call[p] EXCEPT !.pc = l] \in Call
  BY <1>1 DEF Call, CallRecord, OfTask, Pc
<1>3. ASSUME NEW a \in Agent, NEW ss \in SUBSET PurgeStates, Purge(p, a, ss)
      PROVE  TypeOK'
  <2>1. [Idle EXCEPT !.pc = "pheap", !.todo = Doomed(a, ss),
                     !.purge = TRUE] \in Call
    BY DEF Idle, Call, CallRecord, OfTask, Pc, Cont, MaybeState, Absent, Doomed
  <2>2. tasks' \in [Task -> MaybeState]
    BY <1>3 DEF Purge, TypeOK, MaybeState, Absent
  <2> QED
    BY <1>3, <2>1, <2>2, GotoType, CommandedType DEF Purge, TypeOK
<1>4. CASE PurgeHeap(p)
  BY <1>2, <1>4, GotoType DEF PurgeHeap, TypeOK
<1>5. CASE PurgeChildren(p)
  BY <1>1, <1>2, <1>5, GotoType DEF PurgeChildren, TypeOK
<1>6. CASE PurgeGraph(p)
  <2>1. UNION {Dependents(edges, d) : d \in call[p].todo} \in SUBSET Task
    BY DEF Dependents
  <2>2. [call[p] EXCEPT
           !.pc = "wake",
           !.waiters = UNION {Dependents(edges, d) : d \in call[p].todo}
                          \ call[p].todo] \in Call
    BY <1>1, <2>1 DEF Call, CallRecord, OfTask, Pc
  <2> QED
    BY <1>6, <2>2, GotoType DEF PurgeGraph, TypeOK, RemoveEdges
<1>7. CASE PurgeRows(p)
  BY <1>7, IdleType, GotoType DEF PurgeRows, TypeOK, MaybeState, Absent
<1> QED
  BY <1>3, <1>4, <1>5, <1>6, <1>7

(* A delegation, and the enqueue of a resumed task.                        *)
LEMMA DelegateTypeOK ==
    ASSUME TypeOK, NEW p \in Proc,
           \/ \E t, c \in Task : Delegate(p, t, c)
           \/ AddDependency(p) \/ RegisterChild(p) \/ ParkParent(p)
           \/ EnqueueChild(p) \/ ResumeEnqueue(p)
    PROVE  TypeOK'
<1> USE DEF graphVars, loopVars, runVars
<1>1. call[p] \in Call
  BY DEF TypeOK
<1>2. call[p].pc \in OfTask =>
         /\ call[p].task \in Task
         /\ \A l \in {"dchild", "dpark"} : [call[p] EXCEPT !.pc = l] \in Call
  BY <1>1 DEF Call, CallRecord, OfTask, Pc
<1>3. ASSUME NEW t \in Task, NEW c \in Task, Delegate(p, t, c)
      PROVE  TypeOK'
  <2>1. [Idle EXCEPT !.pc = "dedge", !.task = t, !.todo = {c}] \in Call
    BY DEF Idle, Call, CallRecord, OfTask, Pc, Cont, MaybeState, Absent
  <2> QED
    <3>1. call' \in [Proc -> Call]
      BY <1>3, <2>1, GotoType DEF Delegate
    <3>2. live' \in [Task -> Nat]
      <4>1. LoopCalls(t)
        BY <1>3 DEF Delegate
      <4> QED
        BY <4>1 DEF LoopCalls, TypeOK
    <3>3. fresh' \in SUBSET Task
      BY <1>3 DEF Delegate, TypeOK
    <3> QED
      BY <1>3, <3>1, <3>2, <3>3 DEF Delegate, LoopCalls, TypeOK
<1>4. CASE AddDependency(p)
  <2>1. {call[p].task} \X call[p].todo \subseteq Task \X Task
    BY <1>1, <1>2, <1>4 DEF AddDependency, At, Call, CallRecord, OfTask
  <2> QED
    BY <1>2, <1>4, <2>1, GotoType DEF AddDependency, At, OfTask, TypeOK
<1>5. CASE RegisterChild(p)
  <2>1. call[p].todo \in SUBSET Task
    BY <1>1 DEF Call, CallRecord
  <2> QED
    BY <1>2, <1>5, <2>1, GotoType DEF RegisterChild, At, OfTask, TypeOK
<1>6. CASE ParkParent(p)
  <2>1. call[p].task \in Task /\ call[p].todo \in SUBSET Task
    BY <1>1, <1>2, <1>6 DEF ParkParent, At, OfTask, Call, CallRecord
  <2>2. [call[p] EXCEPT !.pc = "denq", !.loop = call[p].task] \in Call
    BY <1>1, <2>1 DEF Call, CallRecord, OfTask, Pc
  <2>3. Persisting(call[p].task, "Waiting", "denq", call[p].todo, None) \in Call
    BY <2>1, PersistingType DEF TaskState, Cont
  <2>4. call' \in [Proc -> Call]
    BY <1>6, <2>2, <2>3, GotoType DEF ParkParent
  <2> QED
    BY <1>6, <2>4 DEF ParkParent, TypeOK, MaybeState, TaskState
<1>7. CASE EnqueueChild(p)
  <2>1. PICK c \in call[p].todo : Goto(p, Enqueueing(c, call[p].loop))
    BY <1>7 DEF EnqueueChild
  <2>2. Enqueueing(c, call[p].loop) \in Call
    BY <1>1, EnqueueingType DEF Call, CallRecord
  <2> QED
    BY <1>7, <2>1, <2>2, GotoType DEF EnqueueChild, TypeOK
<1>8. CASE ResumeEnqueue(p)
  <2>1. Enqueueing(call[p].task, None) \in Call
    BY <1>2, <1>8, EnqueueingType DEF ResumeEnqueue, At, OfTask
  <2> QED
    BY <1>8, <2>1, GotoType DEF ResumeEnqueue, TypeOK
<1> QED
  BY <1>3, <1>4, <1>5, <1>6, <1>7, <1>8

(* A cascade of cancellations.                                             *)
LEMMA CascadeTypeOK ==
    ASSUME TypeOK, NEW p \in Proc,
           \/ CascadeChildren(p) \/ CascadeDone(p)
           \/ \E t \in Task : CascadeCancel(p, t)
    PROVE  TypeOK'
<1> USE DEF graphVars, loopVars, runVars
<1>1. call[p] \in Call
  BY DEF TypeOK
<1>2. CASE CascadeChildren(p)
  <2>1. children[call[p].task] \in SUBSET Task
    BY <1>1, <1>2 DEF CascadeChildren, At, TypeOK, Call, OfTask
  <2>2. [call[p] EXCEPT !.pc = "cancel",
                        !.todo = @ \cup children[call[p].task]] \in Call
    BY <1>1, <2>1 DEF Call, CallRecord, OfTask, Pc
  <2> QED
    BY <1>2, <2>2, GotoType DEF CascadeChildren, TypeOK
<1>3. ASSUME NEW t \in Task, CascadeCancel(p, t)
      PROVE  TypeOK'
  <2>1. [call[p] EXCEPT !.todo = @ \ {t}] \in Call
    BY <1>1 DEF Call, CallRecord
  <2>2. Persisting(t, "Cancelled", "cascade", call[p].todo \ {t}, None) \in Call
    <3>1. call[p].todo \ {t} \in SUBSET Task
      BY <1>1 DEF Call, CallRecord
    <3> QED
      BY <3>1, PersistingType DEF TaskState, Cont
  <2>3. call' \in [Proc -> Call]
    BY <1>3, <2>1, <2>2, GotoType DEF CascadeCancel
  <2> QED
    BY <1>3, <2>3 DEF CascadeCancel, TypeOK, MaybeState, TaskState
<1>4. CASE CascadeDone(p)
  BY <1>4, IdleType, GotoType DEF CascadeDone, TypeOK
<1> QED
  BY <1>2, <1>3, <1>4

(* A crash and the boot after it.                                          *)
LEMMA RestartTypeOK ==
    ASSUME TypeOK, NEW stale \in SUBSET Task, NEW K \in SUBSET Task,
           Restart(stale, K)
    PROVE  TypeOK'
<1>1. \A t \in Task : Restored(stale, K, t) \in MaybeState
  BY DEF Restored, TypeOK, MaybeState, TaskState
<1>2. rows' \in [Task -> MaybeState] /\ tasks' \in [Task -> MaybeState]
  BY <1>1 DEF Restart
<1> QED
  BY <1>2, IdleType DEF Restart, TypeOK

LEMMA TypeInductive == TypeOK /\ [Next]_vars => TypeOK'
<1> SUFFICES ASSUME TypeOK, [Next]_vars
             PROVE  TypeOK'
  OBVIOUS
<1>1. CASE \E p \in Proc : Section(p)
  BY <1>1, EnqueueTypeOK, PersistTypeOK, WakeTypeOK, PurgeTypeOK,
     DelegateTypeOK, CascadeTypeOK DEF Section
<1>2. CASE \E p \in Proc, t \in Task : LoopStep(p, t) \/ ClientCall(p, t)
  BY <1>2, LoopTypeOK, DelegateTypeOK, ClientTypeOK DEF LoopStep
<1>3. CASE \E p \in Proc, S \in SUBSET Task : CheckTimeouts(p, S)
  BY <1>3, CheckTimeoutsTypeOK
<1>4. CASE \E p \in Proc, a \in Agent, ss \in SUBSET (PurgeStates \cap States) :
              Purge(p, a, ss)
  BY <1>4, PurgeTypeOK
<1>5. CASE DequeueNothing \/ \E paused \in SUBSET Agent, t \in Task : Dequeue(t, paused)
  BY <1>5, DequeueTypeOK
<1>6. CASE \E stale, K \in SUBSET Task : Restart(stale, K)
  BY <1>6, RestartTypeOK
<1>7. CASE UNCHANGED vars
  BY <1>7 DEF vars, TypeOK
<1> QED
  BY <1>1, <1>2, <1>3, <1>4, <1>5, <1>6, <1>7 DEF Next

LEMMA TypeInit == Init => TypeOK
BY IdleType DEF Init, TypeOK, MaybeState, Absent

(* Every variable of the scheduler always holds what its declaration says: *)
(* the heap never goes below empty, a call never loses its task.           *)
THEOREM TypeCorrect == Spec => []TypeOK
BY TypeInit, TypeInductive, PTL DEF Spec

----------------------------------------------------------------------------
(* The inductive invariant behind NoLostTask and NoUnrecordedTask.  A      *)
(* purge rebuilds the heap and deletes rows after it has let the map go:   *)
(* it strands nobody because nothing it took out of the map comes back,    *)
(* and nothing comes back because an identifier is inserted by one call.   *)

(* Call c has still to insert t into the map for the first time.           *)
Inserts(c, t) ==
    \/ c.pc \in {"count", "insert", "reject"} /\ c.task = t
    \/ Delegating(c) /\ t \in c.todo

(* An identifier that was not minted is nowhere.                           *)
DelegationPc == {"dedge", "dchild", "dpark", "denq"}
FreshInv ==
    /\ \A t \in fresh : tasks[t] = Absent /\ rows[t] = Absent
    /\ \A p \in Proc :
          /\ call[p].pc \in DelegationPc \/ call[p].task \notin fresh
          /\ call[p].todo \cap fresh = {}
          /\ call[p].pc = "sweep" => call[p].waiters \cap fresh = {}

(* No child was registered before its identifier was minted.               *)
ChildInv == \A t \in Task : children[t] \cap fresh = {}

(* One call inserts a task, and the task is not in the map before.         *)
InsertInv ==
    \A t \in Task \ Resumable, p \in Proc :
        Inserts(call[p], t) =>
            /\ tasks[t] = Absent
            /\ \A q \in Proc : Inserts(call[q], t) => q = p

(* What a purge took out of the map stays out of it.                       *)
PurgeInv ==
    \A p \in Proc : call[p].purge =>
        \A d \in call[p].todo \ Resumable :
            tasks[d] = Absent /\ \A q \in Proc : ~Inserts(call[q], d)

(* What the fields of a call say at each section.                          *)
CallOK(c) ==
    /\ c.pc \in {"pheap", "pchild", "pgraph", "pdelete"} => c.purge
    /\ c.purge =>
          \/ c.pc \in {"pheap", "pchild", "pgraph", "pdelete", "wake"}
          \/ c.pc \in {"push", "persist"} /\ c.cont = "wake"
    /\ c.pc \in {"push", "persist"} => c.snap # Absent
    /\ c.pc \in {"count", "insert", "push"} => c.cont \in {"idle", "wake"}
    /\ c.pc = "resume" => c.task \in Resumable
CallInv == \A p \in Proc : CallOK(call[p])

IInv ==
    /\ TypeOK /\ FreshInv /\ ChildInv /\ InsertInv /\ PurgeInv /\ CallInv
    /\ NoLostTask /\ NoUnrecordedTask

(* What a step of p that makes c its call must see to.                     *)
FreshStep(c) ==
    /\ fresh' \subseteq fresh
    /\ \A t \in fresh' : tasks'[t] = Absent /\ rows'[t] = Absent
    /\ c.pc \in DelegationPc \/ c.task \notin fresh'
    /\ c.todo \cap fresh' = {}
    /\ c.pc = "sweep" => c.waiters \cap fresh' = {}

InsertStep(p, c) ==
    \A t \in Task \ Resumable :
        /\ Inserts(c, t) =>
              tasks'[t] = Absent /\ (Inserts(call[p], t) \/ t \in fresh)
        /\ tasks[t] = Absent /\ tasks'[t] # Absent =>
              ~Inserts(c, t) /\ (Inserts(call[p], t) \/ t \in fresh)

PurgeStep(p, c) ==
    c.purge =>
        \A d \in c.todo \ Resumable :
            /\ tasks'[d] = Absent
            /\ (call[p].purge /\ d \in call[p].todo) \/ tasks[d] # Absent

ReachStep(p, c) ==
    \A t \in Task \ Resumable : tasks'[t] = "Queued" =>
        \/ heap'[t] > 0 \/ starting'[t] > 0 \/ Carries(c, t)
        \/ /\ tasks[t] = "Queued" /\ ~Carries(call[p], t)
           /\ heap'[t] = heap[t] /\ starting'[t] = starting[t]

RecordStep(p, c) ==
    \A t \in Task \ Resumable : tasks'[t] # Absent =>
        \/ rows'[t] # Absent \/ Persists(c, t)
        \/ tasks[t] # Absent /\ rows'[t] = rows[t] /\ ~Persists(call[p], t)

Step(p, c) ==
    /\ Goto(p, c) /\ c \in Call /\ CallOK(c)
    /\ FreshStep(c) /\ InsertStep(p, c) /\ PurgeStep(p, c)
    /\ ReachStep(p, c) /\ RecordStep(p, c)

(* Such a step keeps the invariant.                                        *)
LEMMA StepInductive ==
    ASSUME IInv, NEW p \in Proc, NEW c, Step(p, c), TypeOK', ChildInv'
    PROVE  IInv'
<1>1. /\ call'[p] = c
      /\ \A q \in Proc \ {p} : call'[q] = call[q]
  BY DEF IInv, TypeOK, Step, Goto
<1>2. FreshInv'
  BY <1>1 DEF IInv, FreshInv, Step, FreshStep
<1>3. \A t \in fresh, q \in Proc : ~Inserts(call[q], t)
  BY DEF IInv, FreshInv, Inserts, DelegationPc
<1>4. InsertInv'
  <2> SUFFICES ASSUME NEW t \in Task \ Resumable, NEW q \in Proc,
                      Inserts(call'[q], t)
               PROVE  /\ tasks'[t] = Absent
                      /\ \A r \in Proc : Inserts(call'[r], t) => r = q
    BY DEF InsertInv, Inserts, Delegating
  <2>1. Inserts(c, t) => Inserts(call[p], t) \/ t \in fresh
    BY DEF Step, InsertStep
  <2>2. \A r, u \in Proc : Inserts(call[r], t) /\ Inserts(call[u], t) => r = u
    BY DEF IInv, InsertInv
  <2>3. \A r \in Proc : Inserts(call'[r], t) => r = q
    BY <1>1, <1>3, <2>1, <2>2
  <2>4. tasks'[t] = Absent
    <3>1. CASE q = p
      BY <1>1, <3>1 DEF Step, InsertStep
    <3>2. CASE q # p
      <4>1. Inserts(call[q], t) /\ tasks[t] = Absent
        BY <1>1, <3>2 DEF IInv, InsertInv
      <4>2. ~Inserts(call[p], t) /\ t \notin fresh
        BY <1>3, <2>2, <3>2, <4>1
      <4> QED
        BY <4>1, <4>2 DEF Step, InsertStep
    <3> QED
      BY <3>1, <3>2
  <2> QED
    BY <2>3, <2>4
<1>5. PurgeInv'
  <2> SUFFICES ASSUME NEW q \in Proc, call'[q].purge,
                      NEW d \in call'[q].todo \ Resumable
               PROVE  /\ tasks'[d] = Absent
                      /\ \A r \in Proc : ~Inserts(call'[r], d)
    BY DEF PurgeInv, Inserts, Delegating
  <2>0. d \in Task
    BY DEF TypeOK, Call, CallRecord
  <2>1. Inserts(c, d) => Inserts(call[p], d) \/ d \in fresh
    BY <2>0 DEF Step, InsertStep
  <2>2. CASE q = p
    <3>1. ~Inserts(c, d)
      BY <1>1, <2>2 DEF Step, CallOK, Inserts, Delegating
    <3>2. /\ tasks'[d] = Absent
          /\ (call[p].purge /\ d \in call[p].todo) \/ tasks[d] # Absent
      BY <1>1, <2>2 DEF Step, PurgeStep
    <3>3. \A r \in Proc : ~Inserts(call[r], d)
      BY <2>0, <3>2 DEF IInv, PurgeInv, InsertInv
    <3> QED
      BY <1>1, <3>1, <3>2, <3>3
  <2>3. CASE q # p
    <3>1. call[q].purge /\ d \in call[q].todo
      BY <1>1, <2>3
    <3>2. tasks[d] = Absent /\ \A r \in Proc : ~Inserts(call[r], d)
      BY <3>1 DEF IInv, PurgeInv
    <3>3. d \notin fresh
      BY <3>1 DEF IInv, FreshInv
    <3> QED
      BY <1>1, <2>0, <2>1, <3>2, <3>3 DEF Step, InsertStep
  <2> QED
    BY <2>2, <2>3
<1>6. CallInv'
  BY <1>1 DEF IInv, CallInv, Step, CallOK
<1>7. NoLostTask'
  <2> SUFFICES ASSUME NEW t \in Task \ Resumable, tasks'[t] = "Queued"
               PROVE  \/ heap'[t] > 0 \/ starting'[t] > 0
                      \/ \E q \in Proc : Carries(call'[q], t)
    BY DEF NoLostTask, Reachable, Carries
  <2>1. CASE heap'[t] > 0 \/ starting'[t] > 0 \/ Carries(c, t)
    BY <1>1, <2>1
  <2>2. CASE /\ tasks[t] = "Queued" /\ ~Carries(call[p], t)
             /\ heap'[t] = heap[t] /\ starting'[t] = starting[t]
    <3>1. \/ heap[t] > 0 \/ starting[t] > 0
          \/ \E q \in Proc : Carries(call[q], t)
      BY <2>2 DEF IInv, NoLostTask, Reachable
    <3> QED
      BY <1>1, <2>2, <3>1
  <2> QED
    BY <2>1, <2>2 DEF Step, ReachStep
<1>8. NoUnrecordedTask'
  <2> SUFFICES ASSUME NEW t \in Task \ Resumable, tasks'[t] # Absent
               PROVE  \/ rows'[t] # Absent
                      \/ \E q \in Proc : Persists(call'[q], t)
    BY DEF NoUnrecordedTask, Persists
  <2>1. CASE rows'[t] # Absent \/ Persists(c, t)
    BY <1>1, <2>1
  <2>2. CASE tasks[t] # Absent /\ rows'[t] = rows[t] /\ ~Persists(call[p], t)
    <3>1. rows[t] # Absent \/ \E q \in Proc : Persists(call[q], t)
      BY <2>2 DEF IInv, NoUnrecordedTask
    <3> QED
      BY <1>1, <2>2, <3>1
  <2> QED
    BY <2>1, <2>2 DEF Step, RecordStep
<1> QED
  BY <1>2, <1>4, <1>5, <1>6, <1>7, <1>8 DEF IInv

(* The child map grows by children of a delegation only.                   *)
LEMMA ChildInductive == IInv /\ [Next]_vars => ChildInv'
<1> SUFFICES ASSUME IInv, [Next]_vars
             PROVE  ChildInv'
  OBVIOUS
<1> USE DEF graphVars, loopVars, runVars
<1>1. UNCHANGED children /\ fresh' \subseteq fresh => ChildInv'
  BY DEF IInv, ChildInv
<1>2. ASSUME NEW p \in Proc, Section(p)
      PROVE  ChildInv'
  <2>1. CASE RegisterChild(p)
    <3>1. call[p].todo \cap fresh = {}
      BY DEF IInv, FreshInv
    <3> QED
      BY <2>1, <3>1 DEF RegisterChild, IInv, ChildInv, TypeOK
  <2>2. CASE PurgeChildren(p)
    BY <2>2 DEF PurgeChildren, IInv, ChildInv
  <2>3. CASE \/ EnqueueCount(p) \/ EnqueueReject(p) \/ EnqueueInsert(p)
             \/ Push(p) \/ Persist(p) \/ Spawn(p) \/ MarkStarted(p)
    BY <1>1, <2>3
       DEF EnqueueCount, EnqueueReject, EnqueueInsert, Push, Persist, Spawn,
           MarkStarted
  <2>4. CASE \/ \E t \in Task : SweepPersist(p, t) \/ CompleteDependency(p, t)
             \/ \E w \in Task : Wake(p, w)
             \/ WakeDone(p)
    BY <1>1, <2>4 DEF SweepPersist, CompleteDependency, Wake, WakeDone
  <2>5. CASE PurgeHeap(p) \/ PurgeGraph(p) \/ PurgeRows(p)
    BY <1>1, <2>5 DEF PurgeHeap, PurgeGraph, PurgeRows
  <2>6. CASE AddDependency(p) \/ ParkParent(p) \/ EnqueueChild(p) \/ ResumeEnqueue(p)
    BY <1>1, <2>6 DEF AddDependency, ParkParent, EnqueueChild, ResumeEnqueue
  <2>7. CASE \/ CascadeChildren(p) \/ CascadeDone(p)
             \/ \E t \in Task : CascadeCancel(p, t)
    BY <1>1, <2>7 DEF CascadeChildren, CascadeDone, CascadeCancel
  <2> QED
    BY <1>2, <2>1, <2>2, <2>3, <2>4, <2>5, <2>6, <2>7 DEF Section
<1>3. ASSUME NEW p \in Proc, NEW t \in Task, LoopStep(p, t) \/ ClientCall(p, t)
      PROVE  ChildInv'
  <2> USE DEF UpdateIfNotTerminal, UpdateState, NoUpdate, LoopCalls, Commanded
  <2>1. CASE LoopStep(p, t)
    <3>1. CASE \E c \in Task : Delegate(p, t, c)
      BY <1>1, <3>1 DEF Delegate
    <3>2. CASE \E s \in {"Complete", "Failed"} : LoopFinish(p, t, s)
      BY <1>1, <3>2 DEF LoopFinish
    <3>3. CASE \/ Start(p, t) \/ LoopPark(p, t) \/ LoopUnpark(p, t)
               \/ LoopSuspend(p, t) \/ LoopQuit(t)
      BY <1>1, <3>3 DEF Start, LoopPark, LoopUnpark, LoopSuspend, LoopQuit
    <3> QED
      BY <2>1, <3>1, <3>2, <3>3 DEF LoopStep
  <2>2. CASE ClientCall(p, t)
    BY <1>1, <2>2
       DEF ClientCall, Submit, RegisterExternal, Requeue, Deny, Cancel, Resume
  <2> QED
    BY <1>3, <2>1, <2>2
<1>4. CASE \E p \in Proc, S \in SUBSET Task : CheckTimeouts(p, S)
  BY <1>1, <1>4 DEF CheckTimeouts, Commanded
<1>5. CASE \E p \in Proc, a \in Agent, ss \in SUBSET (PurgeStates \cap States) :
              Purge(p, a, ss)
  BY <1>1, <1>5 DEF Purge, Commanded
<1>6. CASE DequeueNothing \/ \E paused \in SUBSET Agent, t \in Task : Dequeue(t, paused)
  BY <1>1, <1>6 DEF DequeueNothing, Dequeue
<1>7. CASE \E stale, K \in SUBSET Task : Restart(stale, K)
  BY <1>7 DEF Restart, ChildInv
<1>8. CASE UNCHANGED vars
  BY <1>1, <1>8 DEF vars
<1> QED
  BY <1>2, <1>3, <1>4, <1>5, <1>6, <1>7, <1>8 DEF Next

(* What the invariant says of one call.                                    *)
LEMMA CallFacts ==
    ASSUME IInv, NEW p \in Proc
    PROVE  /\ call[p] \in Call /\ CallOK(call[p])
           /\ call[p] \in CallRecord
           /\ call[p].pc \in OfTask => call[p].task \in Task
           /\ call[p].pc \in DelegationPc \/ call[p].task \notin fresh
           /\ call[p].todo \cap fresh = {}
           /\ call[p].pc = "sweep" => call[p].waiters \cap fresh = {}
           /\ \A t \in fresh : tasks[t] = Absent /\ rows[t] = Absent
           /\ \A t \in Task \ Resumable :
                 Inserts(call[p], t) => tasks[t] = Absent
           /\ call[p].purge => \A d \in call[p].todo \ Resumable :
                                  tasks[d] = Absent
BY DEF IInv, TypeOK, Call, CallInv, FreshInv, InsertInv, PurgeInv

(* The sections of enqueue.                                                *)
LEMMA EnqueueInductive ==
    ASSUME IInv, TypeOK', ChildInv', NEW p \in Proc,
           \/ EnqueueCount(p) \/ EnqueueReject(p) \/ EnqueueInsert(p)
           \/ Push(p)
    PROVE  IInv'
<1> DEFINE c == call'[p]
<1> USE DEF DelegationPc, CallRecord, CallOK, Inserts, Delegating, Carries, Persists,
            graphVars, loopVars, runVars
<1>1. c \in Call
  BY DEF TypeOK
<1>2. CASE EnqueueCount(p)
  <2>1. /\ c = [call[p] EXCEPT !.pc = c.pc] /\ c.pc \in {"reject", "insert"}
        /\ At(p, "count") /\ Goto(p, c)
        /\ UNCHANGED <<tasks, heap, rows, starting, fresh>>
    BY <1>2, CallFacts DEF EnqueueCount, Goto, IInv, TypeOK
  <2>2. FreshStep(c)
    BY <2>1, CallFacts DEF FreshStep, At
  <2>3. InsertStep(p, c) /\ PurgeStep(p, c)
    BY <2>1, CallFacts DEF InsertStep, PurgeStep, At
  <2>4. ReachStep(p, c) /\ RecordStep(p, c)
    BY <2>1, CallFacts DEF ReachStep, RecordStep, At, IInv, NoLostTask
  <2> QED
    BY <1>1, <2>1, <2>2, <2>3, <2>4, CallFacts, StepInductive DEF Step, At
<1>3. CASE EnqueueReject(p)
  <2>1. /\ c = Persisting(call[p].task, "Failed", "idle", {}, call[p].loop)
        /\ At(p, "reject") /\ Goto(p, c)
        /\ tasks' = [tasks EXCEPT ![call[p].task] = "Failed"]
        /\ UNCHANGED <<heap, rows, starting, fresh>>
    BY <1>3, CallFacts DEF EnqueueReject, Goto, IInv, TypeOK
  <2>2. /\ c.pc = "persist" /\ c.task = call[p].task /\ c.todo = {}
        /\ c.snap = "Failed" /\ c.cont = "idle" /\ ~c.purge
    BY <2>1 DEF Persisting, Idle
  <2>3. FreshStep(c)
    BY <2>1, <2>2, CallFacts DEF FreshStep, At
  <2>4. InsertStep(p, c) /\ PurgeStep(p, c)
    BY <2>1, <2>2, CallFacts DEF InsertStep, PurgeStep, At, IInv, TypeOK
  <2>5. ReachStep(p, c) /\ RecordStep(p, c)
    BY <2>1, <2>2, CallFacts DEF ReachStep, RecordStep, At, IInv, TypeOK
  <2> QED
    BY <1>1, <2>1, <2>2, <2>3, <2>4, <2>5, CallFacts, StepInductive
       DEF Step, Absent
<1>4. CASE EnqueueInsert(p)
  <2>1. /\ c = [call[p] EXCEPT !.pc = "push", !.snap = "Queued"]
        /\ At(p, "insert") /\ Goto(p, c)
        /\ tasks' = [tasks EXCEPT ![call[p].task] = "Queued"]
        /\ UNCHANGED <<heap, rows, starting, fresh>>
    BY <1>4, CallFacts DEF EnqueueInsert, Goto, IInv, TypeOK
  <2>2. FreshStep(c)
    BY <2>1, CallFacts DEF FreshStep, At
  <2>3. InsertStep(p, c) /\ PurgeStep(p, c)
    BY <2>1, CallFacts DEF InsertStep, PurgeStep, At, IInv, TypeOK
  <2>4. ReachStep(p, c) /\ RecordStep(p, c)
    BY <2>1, CallFacts DEF ReachStep, RecordStep, At, IInv, TypeOK
  <2> QED
    BY <1>1, <2>1, <2>2, <2>3, <2>4, CallFacts, StepInductive
       DEF Step, At, Absent
<1>5. CASE Push(p)
  <2>1. /\ c = [call[p] EXCEPT !.pc = "persist"]
        /\ At(p, "push") /\ Goto(p, c)
        /\ heap' = [heap EXCEPT ![call[p].task] = @ + 1]
        /\ UNCHANGED <<tasks, rows, starting, fresh>>
    BY <1>5, CallFacts DEF Push, Goto, IInv, TypeOK
  <2>2. FreshStep(c)
    BY <2>1, CallFacts DEF FreshStep, At
  <2>3. InsertStep(p, c) /\ PurgeStep(p, c)
    BY <2>1, CallFacts DEF InsertStep, PurgeStep, At
  <2>4. ReachStep(p, c) /\ RecordStep(p, c)
    BY <2>1, CallFacts DEF ReachStep, RecordStep, At, IInv, TypeOK
  <2> QED
    BY <1>1, <2>1, <2>2, <2>3, <2>4, CallFacts, StepInductive DEF Step, At
<1> QED
  BY <1>2, <1>3, <1>4, <1>5

(* The other sections of persisting, spawning and starting.                *)
LEMMA PersistInductive ==
    ASSUME IInv, TypeOK', ChildInv', NEW p \in Proc,
           Persist(p) \/ Spawn(p) \/ MarkStarted(p)
    PROVE  IInv'
<1> DEFINE c == call'[p]
<1> USE DEF DelegationPc, CallRecord, CallOK, Inserts, Delegating, Carries, Persists,
            graphVars, loopVars, runVars
<1>1. c \in Call
  BY DEF TypeOK
<1>2. CASE Persist(p)
  <2>1. /\ At(p, "persist") /\ Goto(p, c)
        /\ rows' = [rows EXCEPT ![call[p].task] = call[p].snap]
        /\ \/ call[p].cont = "idle" /\ c = Idle
           \/ /\ call[p].cont # "idle"
              /\ c = [call[p] EXCEPT !.pc = call[p].cont, !.cont = "idle",
                                     !.snap = Absent]
        /\ UNCHANGED <<tasks, heap, starting, fresh>>
    BY <1>2, CallFacts DEF Persist, Return, Continue, Goto, IInv, TypeOK
  <2>2. /\ c.pc = call[p].cont /\ c.pc \in Cont /\ c.cont = "idle"
        /\ c.task = call[p].task \/ (c.task = None /\ c.pc = "idle")
        /\ c.todo = call[p].todo \/ (c.todo = {} /\ c.pc = "idle")
        /\ c.purge => call[p].purge
    <3>0. call[p] \in CallRecord
      BY CallFacts
    <3>1. CASE call[p].cont = "idle" /\ c = Idle
      BY <3>1 DEF Idle, Cont
    <3>2. CASE c = [call[p] EXCEPT !.pc = call[p].cont, !.cont = "idle",
                                   !.snap = Absent]
      BY <3>0, <3>2
    <3> QED
      BY <2>1, <3>1, <3>2
  <2>3. FreshStep(c)
    <3>1. rows'[call[p].task] # Absent => call[p].task \notin fresh
      BY <2>1, CallFacts DEF At
    <3>2. None \notin fresh
      BY NoneAssumption DEF IInv, TypeOK
    <3> QED
      BY <2>1, <2>2, <3>1, <3>2, CallFacts DEF FreshStep, At, Cont, IInv, TypeOK
  <2>4. InsertStep(p, c) /\ PurgeStep(p, c)
    BY <2>1, <2>2, CallFacts DEF InsertStep, PurgeStep, At, Cont
  <2>5. ReachStep(p, c) /\ RecordStep(p, c)
    BY <2>1, <2>2, CallFacts DEF ReachStep, RecordStep, At, IInv, TypeOK, Cont
  <2>6. CallOK(c)
    BY <2>1, <2>2, CallFacts DEF At, Cont
  <2> QED
    BY <1>1, <2>1, <2>3, <2>4, <2>5, <2>6, StepInductive DEF Step
<1>3. CASE Spawn(p)
  <2> DEFINE t == call[p].task
  <2>1. CASE tasks[t] \in Terminal \cup {Absent}
    <3>1. /\ c = [call[p] EXCEPT !.pc = "mark", !.loop = t]
          /\ At(p, "spawn") /\ Goto(p, c)
          /\ UNCHANGED <<tasks, rows, heap, starting, fresh>>
      BY <1>3, <2>1 DEF Spawn, Goto, IInv, TypeOK
    <3>2. c.pc = "mark" /\ c.task = t /\ c.todo = call[p].todo
      BY <3>1, CallFacts
    <3>3. ~c.purge
      BY <3>1, CallFacts DEF At
    <3>4. FreshStep(c)
      BY <3>1, <3>2, CallFacts DEF FreshStep, At
    <3>5. InsertStep(p, c) /\ PurgeStep(p, c) /\ CallOK(c)
      BY <3>1, <3>2, <3>3 DEF InsertStep, PurgeStep
    <3>6. ReachStep(p, c) /\ RecordStep(p, c)
      BY <2>1, <3>1, <3>2 DEF ReachStep, RecordStep, At, Terminal, Absent
    <3> QED
      BY <1>1, <3>1, <3>4, <3>5, <3>6, StepInductive DEF Step
  <2>2. CASE tasks[t] \notin Terminal \cup {Absent}
    <3>1. /\ c = Persisting(t, "Running", "mark", {}, t)
          /\ At(p, "spawn") /\ Goto(p, c) /\ tasks[t] # Absent
          /\ tasks' = [tasks EXCEPT ![t] = "Running"]
          /\ UNCHANGED <<rows, heap, starting, fresh>>
      BY <1>3, <2>2 DEF Spawn, Goto, IInv, TypeOK
    <3>2. /\ c.pc = "persist" /\ c.task = t /\ c.todo = {}
          /\ c.snap = "Running" /\ c.cont = "mark" /\ ~c.purge
      BY <3>1 DEF Persisting, Idle
    <3>3. FreshStep(c)
      BY <3>1, <3>2, CallFacts DEF FreshStep, At, IInv, TypeOK
    <3>4. InsertStep(p, c) /\ PurgeStep(p, c) /\ CallOK(c)
      BY <3>1, <3>2 DEF InsertStep, PurgeStep, IInv, TypeOK, Absent
    <3>5. ReachStep(p, c) /\ RecordStep(p, c)
      BY <3>1, <3>2 DEF ReachStep, RecordStep, At, IInv, TypeOK
    <3> QED
      BY <1>1, <3>1, <3>3, <3>4, <3>5, StepInductive DEF Step
  <2> QED
    BY <2>1, <2>2
<1>4. CASE MarkStarted(p)
  <2>1. /\ At(p, "mark") /\ Goto(p, c)
        /\ \/ c = Idle
           \/ /\ tasks[call[p].task] # Absent
              /\ c = Persisting(call[p].task, tasks[call[p].task], "idle", {},
                                call[p].task)
        /\ UNCHANGED <<tasks, rows, heap, starting, fresh>>
    BY <1>4 DEF MarkStarted, Return, Goto, IInv, TypeOK
  <2>2. /\ c.pc \in {"idle", "persist"} /\ c.cont = "idle" /\ c.todo = {}
        /\ c.task = call[p].task \/ c.task = None
        /\ ~c.purge
        /\ c.pc = "persist" => c.snap # Absent
    <3>1. CASE c = Idle
      BY <3>1 DEF Idle
    <3>2. CASE /\ tasks[call[p].task] # Absent
               /\ c = Persisting(call[p].task, tasks[call[p].task], "idle",
                                 {}, call[p].task)
      BY <3>2 DEF Idle, Persisting
    <3> QED
      BY <2>1, <3>1, <3>2
  <2>3. FreshStep(c) /\ InsertStep(p, c) /\ PurgeStep(p, c) /\ CallOK(c)
    BY <2>1, <2>2, CallFacts, NoneAssumption
       DEF FreshStep, At, InsertStep, PurgeStep, IInv, TypeOK
  <2>4. ReachStep(p, c) /\ RecordStep(p, c)
    BY <2>1, <2>2, CallFacts DEF ReachStep, RecordStep, At
  <2> QED
    BY <1>1, <2>1, <2>3, <2>4, StepInductive DEF Step
<1> QED
  BY <1>2, <1>3, <1>4

(* Steps that leave every call alone.                                      *)
LEMMA QuietInductive ==
    ASSUME IInv, TypeOK', ChildInv', UNCHANGED <<tasks, rows, call, fresh>>,
           \A t \in Task : tasks[t] = "Queued" =>
               \/ heap'[t] > 0 \/ starting'[t] > 0
               \/ heap'[t] = heap[t] /\ starting'[t] = starting[t]
    PROVE  IInv'
<1>1. FreshInv' /\ InsertInv' /\ PurgeInv' /\ CallInv' /\ NoUnrecordedTask'
  BY DEF IInv, FreshInv, InsertInv, PurgeInv, CallInv, NoUnrecordedTask,
         Inserts, Delegating, Persists, CallOK
<1>2. NoLostTask'
  BY DEF IInv, NoLostTask, Reachable, Carries
<1> QED
  BY <1>1, <1>2 DEF IInv

LEMMA DequeueInductive ==
    ASSUME IInv, TypeOK', ChildInv', NEW paused \in SUBSET Agent,
           DequeueNothing \/ \E t \in Task : Dequeue(t, paused)
    PROVE  IInv'
<1>1. CASE DequeueNothing
  BY <1>1, QuietInductive DEF DequeueNothing, loopVars, runVars
<1>2. ASSUME NEW t \in Task, Dequeue(t, paused)
      PROVE  IInv'
  <2>1. starting[t] \in Nat
    BY DEF IInv, TypeOK
  <2>2. starting'[t] > 0
    BY <1>2, <2>1 DEF Dequeue, IInv, TypeOK
  <2>3. \A u \in Task \ {t} : tasks[u] = "Queued" =>
            heap'[u] = heap[u] /\ starting'[u] = starting[u]
    BY <1>2 DEF Dequeue, IInv, TypeOK
  <2> QED
    BY <1>2, <2>2, <2>3, QuietInductive DEF Dequeue, runVars
<1> QED
  BY <1>1, <1>2

(* A call that changes the state of one task, to anything but Queued, and  *)
(* persists it.                                                            *)
LEMMA UpdateInductive ==
    ASSUME IInv, TypeOK', ChildInv', NEW p \in Proc, NEW t \in Task,
           NEW s \in TaskState \ {"Queued"},
           NEW l \in {"idle", "mark", "depend", "cascade"},
           NEW S \in SUBSET {t}, NEW q, UpdateState(p, t, s, l, S, q),
           UNCHANGED fresh,
           \A u \in Task \ {t} : starting'[u] = starting[u]
    PROVE  IInv'
<1> DEFINE c == call'[p]
<1> USE DEF DelegationPc, CallRecord, CallOK, Inserts, Delegating, Carries, Persists
<1>1. c \in Call
  BY DEF TypeOK
<1>2. /\ c = Persisting(t, s, l, S, q) /\ Goto(p, c)
      /\ call[p].pc = "idle" /\ tasks[t] # Absent
      /\ tasks' = [tasks EXCEPT ![t] = s]
      /\ UNCHANGED <<rows, heap, fresh>>
  BY DEF UpdateState, Goto, IInv, TypeOK, At
<1>3. /\ c.pc = "persist" /\ c.task = t /\ c.todo = S /\ c.snap = s
      /\ c.cont = l /\ ~c.purge
  BY <1>2 DEF Persisting, Idle
<1>4. t \notin fresh /\ s # Absent
  BY <1>2, CallFacts DEF TaskState, Absent
<1>5. FreshStep(c)
  BY <1>2, <1>3, <1>4, CallFacts DEF FreshStep, At, IInv, TypeOK
<1>6. InsertStep(p, c) /\ PurgeStep(p, c)
  BY <1>2, <1>3, <1>4 DEF InsertStep, PurgeStep, IInv, TypeOK
<1>7. ReachStep(p, c) /\ RecordStep(p, c)
  BY <1>2, <1>3, <1>4 DEF ReachStep, RecordStep, IInv, TypeOK
<1>8. CallOK(c)
  BY <1>3, <1>4
<1> QED
  BY <1>1, <1>2, <1>5, <1>6, <1>7, <1>8, StepInductive DEF Step

LEMMA LoopInductive ==
    ASSUME IInv, TypeOK', ChildInv', NEW p \in Proc, NEW t \in Task,
           \/ Start(p, t) \/ LoopPark(p, t) \/ LoopUnpark(p, t)
           \/ LoopSuspend(p, t) \/ LoopQuit(t)
           \/ \E s \in {"Complete", "Failed"} : LoopFinish(p, t, s)
    PROVE  IInv'
<1> USE DEF UpdateIfNotTerminal, LoopCalls, TaskState
<1>1. ASSUME NoUpdate(p, t), UNCHANGED fresh,
             \A u \in Task \ {t} : starting'[u] = starting[u]
      PROVE  IInv'
  BY <1>1, QuietInductive DEF NoUpdate, Terminal, Absent
<1>2. CASE Start(p, t)
  <2>1. UNCHANGED fresh /\ \A u \in Task \ {t} : starting'[u] = starting[u]
    BY <1>2 DEF Start, runVars, IInv, TypeOK
  <2> QED
    BY <1>1, <1>2, <2>1, UpdateInductive DEF Start
<1>3. CASE LoopPark(p, t)
  BY <1>3, UpdateInductive DEF LoopPark
<1>4. CASE LoopUnpark(p, t)
  BY <1>4, UpdateInductive DEF LoopUnpark
<1>5. CASE LoopSuspend(p, t)
  BY <1>1, <1>5, UpdateInductive DEF LoopSuspend
<1>6. CASE \E s \in {"Complete", "Failed"} : LoopFinish(p, t, s)
  <2>1. PICK s \in {"Complete", "Failed"} : LoopFinish(p, t, s)
    BY <1>6
  <2> QED
    BY <1>1, <2>1, UpdateInductive DEF LoopFinish
<1>7. CASE LoopQuit(t)
  BY <1>7, QuietInductive DEF LoopQuit
<1> QED
  BY <1>2, <1>3, <1>4, <1>5, <1>6, <1>7

(* Submissions, commands and the resume of a task.                         *)
LEMMA ClientInductive ==
    ASSUME IInv, TypeOK', ChildInv', NEW p \in Proc, NEW t \in Task, ClientCall(p, t)
    PROVE  IInv'
<1> DEFINE c == call'[p]
<1> USE DEF DelegationPc, CallRecord, CallOK, Inserts, Delegating, Carries, Persists,
            graphVars, loopVars, runVars
<1>1. c \in Call
  BY DEF TypeOK
<1>2. CASE Submit(p, t)
  <2>1. /\ c = Enqueueing(t, None) /\ Goto(p, c) /\ call[p].pc = "idle"
        /\ t \in fresh /\ fresh' = fresh \ {t}
        /\ UNCHANGED <<tasks, rows, heap, starting>>
    BY <1>2 DEF Submit, Goto, IInv, TypeOK, At
  <2>2. /\ c.pc \in {"count", "insert"} /\ c.task = t /\ c.todo = {}
        /\ c.cont = "idle" /\ ~c.purge
    BY <2>1 DEF Enqueueing, Idle
  <2>3. FreshStep(c) /\ InsertStep(p, c) /\ PurgeStep(p, c) /\ CallOK(c)
    BY <2>1, <2>2, CallFacts DEF FreshStep, At, InsertStep, PurgeStep
  <2>4. ReachStep(p, c) /\ RecordStep(p, c)
    BY <2>1, <2>2 DEF ReachStep, RecordStep
  <2> QED
    BY <1>1, <2>1, <2>3, <2>4, StepInductive DEF Step
<1>3. CASE RegisterExternal(p, t)
  <2>1. /\ c = Persisting(t, "Queued", "spawn", {}, None) /\ Goto(p, c)
        /\ call[p].pc = "idle"
        /\ t \in fresh /\ fresh' = fresh \ {t}
        /\ tasks' = [tasks EXCEPT ![t] = "Queued"]
        /\ UNCHANGED <<rows, heap, starting>>
    BY <1>3 DEF RegisterExternal, Goto, IInv, TypeOK, At
  <2>2. /\ c.pc = "persist" /\ c.task = t /\ c.todo = {}
        /\ c.cont = "spawn" /\ c.snap # Absent /\ ~c.purge
    BY <2>1 DEF Persisting, Idle, Absent
  <2>3. FreshStep(c) /\ InsertStep(p, c) /\ PurgeStep(p, c) /\ CallOK(c)
    BY <2>1, <2>2, CallFacts
       DEF FreshStep, At, InsertStep, PurgeStep, IInv, TypeOK
  <2>4. ReachStep(p, c) /\ RecordStep(p, c)
    BY <2>1, <2>2 DEF ReachStep, RecordStep, IInv, TypeOK
  <2> QED
    BY <1>1, <2>1, <2>3, <2>4, StepInductive DEF Step
<1>4. CASE Requeue(p, t)
  <2>1. /\ c = [Idle EXCEPT !.pc = "push", !.task = t, !.snap = "Queued"]
        /\ Goto(p, c) /\ call[p].pc = "idle" /\ tasks[t] # Absent
        /\ tasks' = [tasks EXCEPT ![t] = "Queued"]
        /\ UNCHANGED <<rows, heap, starting, fresh>>
    BY <1>4
       DEF Requeue, Commanded, Parked, Goto, IInv, TypeOK, At, Absent
  <2>2. /\ c.pc = "push" /\ c.task = t /\ c.todo = {}
        /\ c.cont = "idle" /\ c.snap # Absent /\ ~c.purge
    BY <2>1 DEF Idle, Absent
  <2>3. FreshStep(c) /\ InsertStep(p, c) /\ PurgeStep(p, c) /\ CallOK(c)
    BY <2>1, <2>2, CallFacts
       DEF FreshStep, At, InsertStep, PurgeStep, IInv, TypeOK
  <2>4. ReachStep(p, c) /\ RecordStep(p, c)
    BY <2>1, <2>2 DEF ReachStep, RecordStep, IInv, TypeOK
  <2> QED
    BY <1>1, <2>1, <2>3, <2>4, StepInductive DEF Step
<1>5. CASE Deny(p, t) \/ Cancel(p, t)
  BY <1>5, UpdateInductive
     DEF Deny, Cancel, UpdateIfNotTerminal, Commanded, TaskState
<1>6. CASE Resume(p, t)
  <2>1. /\ c = [Idle EXCEPT !.pc = "resume", !.task = t]
        /\ Goto(p, c) /\ call[p].pc = "idle" /\ t \in Resumable \ fresh
        /\ UNCHANGED <<tasks, rows, heap, starting, fresh>>
    BY <1>6 DEF Resume, Commanded, Goto, IInv, TypeOK, At
  <2>2. /\ c.pc = "resume" /\ c.task = t /\ c.todo = {}
        /\ c.cont = "idle" /\ ~c.purge
    BY <2>1 DEF Idle
  <2>3. FreshStep(c) /\ InsertStep(p, c) /\ PurgeStep(p, c) /\ CallOK(c)
    BY <2>1, <2>2, CallFacts DEF FreshStep, At, InsertStep, PurgeStep
  <2>4. ReachStep(p, c) /\ RecordStep(p, c)
    BY <2>1, <2>2 DEF ReachStep, RecordStep
  <2> QED
    BY <1>1, <2>1, <2>3, <2>4, StepInductive DEF Step
<1> QED
  BY <1>2, <1>3, <1>4, <1>5, <1>6 DEF ClientCall

(* The timeout checker, and the completion of a dependency.                *)
LEMMA CheckTimeoutsInductive ==
    ASSUME IInv, TypeOK', ChildInv', NEW p \in Proc, NEW S \in SUBSET Task,
           CheckTimeouts(p, S)
    PROVE  IInv'
<1> DEFINE c == call'[p]
<1> USE DEF DelegationPc, CallRecord, CallOK, Inserts, Delegating, Carries, Persists
<1>1. c \in Call
  BY DEF TypeOK
<1>2. /\ c = [Idle EXCEPT !.pc = "sweep", !.todo = S, !.waiters = S]
      /\ Goto(p, c) /\ call[p].pc = "idle"
      /\ \A t \in S : tasks[t] # Absent
      /\ tasks' = [t \in Task |-> IF t \in S THEN "Failed" ELSE tasks[t]]
      /\ UNCHANGED <<rows, heap, starting, fresh>>
  BY DEF CheckTimeouts, Commanded, Parked, Absent, Goto, IInv, TypeOK, At,
         loopVars
<1>3. /\ c.pc = "sweep" /\ c.task = None /\ c.todo = S /\ c.waiters = S
      /\ ~c.purge
  BY <1>2 DEF Idle
<1>4. S \cap fresh = {}
  BY <1>2, CallFacts
<1>5. FreshStep(c)
  BY <1>2, <1>3, <1>4, CallFacts, NoneAssumption DEF FreshStep, At, IInv, TypeOK
<1>6. InsertStep(p, c) /\ PurgeStep(p, c) /\ CallOK(c)
  BY <1>2, <1>3 DEF InsertStep, PurgeStep
<1>7. ReachStep(p, c) /\ RecordStep(p, c)
  BY <1>2, <1>3 DEF ReachStep, RecordStep
<1> QED
  BY <1>1, <1>2, <1>5, <1>6, <1>7, StepInductive DEF Step

LEMMA WakeInductive ==
    ASSUME IInv, TypeOK', ChildInv', NEW p \in Proc,
           \/ \E t \in Task : SweepPersist(p, t) \/ CompleteDependency(p, t)
           \/ \E w \in Task : Wake(p, w)
           \/ WakeDone(p)
    PROVE  IInv'
<1> DEFINE c == call'[p]
<1> USE DEF DelegationPc, CallRecord, CallOK, Inserts, Delegating, Carries, Persists,
            graphVars, loopVars, runVars
<1>1. c \in Call
  BY DEF TypeOK
<1>2. ASSUME NEW t \in Task, SweepPersist(p, t)
      PROVE  IInv'
  <2>1. /\ c = [call[p] EXCEPT
                  !.waiters = @ \ {t},
                  !.pc = IF call[p].waiters = {t} THEN "depend" ELSE "sweep"]
        /\ At(p, "sweep") /\ Goto(p, c) /\ t \in call[p].waiters
        /\ rows' = [rows EXCEPT ![t] = "Failed"]
        /\ UNCHANGED <<tasks, heap, starting, fresh>>
    BY <1>2 DEF SweepPersist, Goto, IInv, TypeOK
  <2>2. /\ c.pc = IF call[p].waiters = {t} THEN "depend" ELSE "sweep"
        /\ c.waiters = call[p].waiters \ {t}
        /\ c.task = call[p].task /\ c.todo = call[p].todo
    BY <2>1, CallFacts
  <2>3. ~c.purge
    BY <2>1, CallFacts DEF At
  <2>4. FreshStep(c)
    BY <2>1, <2>2, CallFacts DEF FreshStep, At, IInv, TypeOK
  <2>5. InsertStep(p, c) /\ PurgeStep(p, c) /\ CallOK(c)
    BY <2>1, <2>2, <2>3 DEF InsertStep, PurgeStep
  <2>6. ReachStep(p, c) /\ RecordStep(p, c)
    BY <2>1, <2>2 DEF ReachStep, RecordStep, At, IInv, TypeOK, Absent
  <2> QED
    BY <1>1, <2>1, <2>4, <2>5, <2>6, StepInductive DEF Step
<1>3. ASSUME NEW t \in Task, CompleteDependency(p, t)
      PROVE  IInv'
  <2>1. /\ c = [call[p] EXCEPT !.pc = "wake", !.todo = @ \ {t},
                               !.waiters = Dependents(edges, t)]
        /\ At(p, "depend") /\ Goto(p, c)
        /\ UNCHANGED <<tasks, rows, heap, starting, fresh>>
    BY <1>3 DEF CompleteDependency, Goto, IInv, TypeOK
  <2>2. /\ c.pc = "wake" /\ c.task = call[p].task
        /\ c.todo = call[p].todo \ {t}
    BY <2>1, CallFacts
  <2>3. ~c.purge
    BY <2>1, CallFacts DEF At
  <2>4. FreshStep(c)
    BY <2>1, <2>2, CallFacts DEF FreshStep, At
  <2>5. InsertStep(p, c) /\ PurgeStep(p, c) /\ CallOK(c)
    BY <2>1, <2>2, <2>3 DEF InsertStep, PurgeStep
  <2>6. ReachStep(p, c) /\ RecordStep(p, c)
    BY <2>1, <2>2 DEF ReachStep, RecordStep, At
  <2> QED
    BY <1>1, <2>1, <2>4, <2>5, <2>6, StepInductive DEF Step
<1>4. ASSUME NEW w \in Task, Wake(p, w)
      PROVE  IInv'
  <2>1. CASE tasks[w] \in Parked
    <3>1. /\ c = [call[p] EXCEPT !.pc = "push", !.task = w,
                    !.snap = "Queued", !.cont = "wake", !.waiters = @ \ {w}]
          /\ At(p, "wake") /\ Goto(p, c) /\ tasks[w] # Absent
          /\ tasks' = [tasks EXCEPT ![w] = "Queued"]
          /\ UNCHANGED <<rows, heap, starting, fresh>>
      BY <1>4, <2>1 DEF Wake, Goto, IInv, TypeOK, Parked, Absent
    <3>2. /\ c.pc = "push" /\ c.task = w /\ c.todo = call[p].todo
          /\ c.cont = "wake" /\ c.snap = "Queued"
      BY <3>1, CallFacts
    <3>3. c.purge => call[p].purge
      BY <3>1, CallFacts
    <3>4. FreshStep(c)
      BY <3>1, <3>2, CallFacts DEF FreshStep, At, IInv, TypeOK
    <3>5. InsertStep(p, c) /\ PurgeStep(p, c) /\ CallOK(c)
      BY <3>1, <3>2, <3>3, CallFacts
         DEF InsertStep, PurgeStep, IInv, TypeOK, Absent
    <3>6. ReachStep(p, c) /\ RecordStep(p, c)
      BY <3>1, <3>2 DEF ReachStep, RecordStep, At, IInv, TypeOK
    <3> QED
      BY <1>1, <3>1, <3>4, <3>5, <3>6, StepInductive DEF Step
  <2>2. CASE tasks[w] \notin Parked
    <3>1. /\ c = [call[p] EXCEPT !.waiters = @ \ {w}]
          /\ At(p, "wake") /\ Goto(p, c)
          /\ UNCHANGED <<tasks, rows, heap, starting, fresh>>
      BY <1>4, <2>2 DEF Wake, Goto, IInv, TypeOK
    <3>2. c.pc = "wake" /\ c.task = call[p].task /\ c.todo = call[p].todo
      BY <3>1, CallFacts DEF At
    <3>3. c.purge => call[p].purge
      BY <3>1, CallFacts
    <3>4. FreshStep(c)
      BY <3>1, <3>2, CallFacts DEF FreshStep, At
    <3>5. InsertStep(p, c) /\ PurgeStep(p, c) /\ CallOK(c)
      BY <3>1, <3>2, <3>3, CallFacts DEF InsertStep, PurgeStep
    <3>6. ReachStep(p, c) /\ RecordStep(p, c)
      BY <3>1, <3>2 DEF ReachStep, RecordStep, At
    <3> QED
      BY <1>1, <3>1, <3>4, <3>5, <3>6, StepInductive DEF Step
  <2> QED
    BY <2>1, <2>2
<1>5. CASE WakeDone(p)
  <2>1. /\ \/ c = [call[p] EXCEPT !.pc = "pdelete"] /\ call[p].purge
           \/ c = [call[p] EXCEPT !.pc = "depend"] /\ ~call[p].purge
           \/ c = Idle
        /\ At(p, "wake") /\ Goto(p, c)
        /\ UNCHANGED <<tasks, rows, heap, starting, fresh>>
    BY <1>5 DEF WakeDone, Goto, IInv, TypeOK
  <2>2. /\ c.pc \in {"pdelete", "depend", "idle"}
        /\ c.task = call[p].task \/ c.task = None
        /\ c.todo = call[p].todo \/ c.todo = {}
    BY <2>1, CallFacts DEF Idle
  <2>3. (c.purge => call[p].purge) /\ (c.purge <=> c.pc = "pdelete")
    <3>1. CASE c = [call[p] EXCEPT !.pc = "pdelete"] /\ call[p].purge
      BY <3>1, CallFacts
    <3>2. CASE c = [call[p] EXCEPT !.pc = "depend"] /\ ~call[p].purge
      BY <3>2, CallFacts
    <3>3. CASE c = Idle
      BY <3>3 DEF Idle
    <3> QED
      BY <2>1, <3>1, <3>2, <3>3
  <2>4. FreshStep(c)
    BY <2>1, <2>2, CallFacts, NoneAssumption DEF FreshStep, At, IInv, TypeOK
  <2>5. InsertStep(p, c) /\ PurgeStep(p, c) /\ CallOK(c)
    BY <2>1, <2>2, <2>3, CallFacts DEF InsertStep, PurgeStep
  <2>6. ReachStep(p, c) /\ RecordStep(p, c)
    BY <2>1, <2>2 DEF ReachStep, RecordStep, At
  <2> QED
    BY <1>1, <2>1, <2>4, <2>5, <2>6, StepInductive DEF Step
<1> QED
  BY <1>2, <1>3, <1>4, <1>5

(* A purge.                                                                *)
LEMMA PurgeInductive ==
    ASSUME IInv, TypeOK', ChildInv', NEW p \in Proc,
           \/ \E a \in Agent, ss \in SUBSET PurgeStates : Purge(p, a, ss)
           \/ PurgeHeap(p) \/ PurgeChildren(p) \/ PurgeGraph(p)
           \/ PurgeRows(p)
    PROVE  IInv'
<1> DEFINE c == call'[p]
<1> USE DEF DelegationPc, CallRecord, CallOK, Inserts, Delegating, Carries, Persists,
            graphVars, loopVars, runVars
<1>1. c \in Call
  BY DEF TypeOK
<1>2. ASSUME NEW a \in Agent, NEW ss \in SUBSET PurgeStates, Purge(p, a, ss)
      PROVE  IInv'
  <2> DEFINE doomed == Doomed(a, ss)
  <2>1. /\ c = [Idle EXCEPT !.pc = "pheap", !.todo = doomed, !.purge = TRUE]
        /\ Goto(p, c) /\ call[p].pc = "idle"
        /\ tasks' = [t \in Task |-> IF t \in doomed THEN Absent ELSE tasks[t]]
        /\ UNCHANGED <<rows, heap, starting, fresh>>
    BY <1>2 DEF Purge, Commanded, Goto, IInv, TypeOK, At
  <2>2. c.pc = "pheap" /\ c.task = None /\ c.todo = doomed /\ c.purge
    BY <2>1 DEF Idle
  <2>3. \A d \in doomed : d \in Task /\ tasks[d] # Absent
    BY DEF Doomed, PurgeStates, Terminal, Absent
  <2>4. FreshStep(c)
    BY <2>1, <2>2, <2>3, CallFacts, NoneAssumption DEF FreshStep, At, IInv, TypeOK
  <2>5. InsertStep(p, c) /\ PurgeStep(p, c) /\ CallOK(c)
    BY <2>1, <2>2, <2>3 DEF InsertStep, PurgeStep
  <2>6. ReachStep(p, c) /\ RecordStep(p, c)
    BY <2>1, <2>2 DEF ReachStep, RecordStep, Absent
  <2> QED
    BY <1>1, <2>1, <2>4, <2>5, <2>6, StepInductive DEF Step
<1>3. CASE PurgeHeap(p)
  <2>1. /\ c = [call[p] EXCEPT !.pc = "pchild"]
        /\ At(p, "pheap") /\ Goto(p, c)
        /\ heap' = [t \in Task |-> IF t \in call[p].todo THEN 0 ELSE heap[t]]
        /\ UNCHANGED <<tasks, rows, starting, fresh>>
    BY <1>3 DEF PurgeHeap, Goto, IInv, TypeOK
  <2>2. c.pc = "pchild" /\ c.task = call[p].task /\ c.todo = call[p].todo
    BY <2>1, CallFacts
  <2>3. c.purge /\ call[p].purge
    BY <2>1, CallFacts DEF At
  <2>4. FreshStep(c)
    BY <2>1, <2>2, CallFacts DEF FreshStep, At
  <2>5. InsertStep(p, c) /\ PurgeStep(p, c) /\ CallOK(c)
    BY <2>1, <2>2, <2>3, CallFacts DEF InsertStep, PurgeStep
  <2>6. ReachStep(p, c) /\ RecordStep(p, c)
    BY <2>1, <2>2, <2>3, CallFacts DEF ReachStep, RecordStep, At, Absent
  <2> QED
    BY <1>1, <2>1, <2>4, <2>5, <2>6, StepInductive DEF Step
<1>4. CASE PurgeChildren(p) \/ PurgeGraph(p)
  <2>0. PICK W \in {call[p].waiters} \cup SUBSET Task, l \in {"pgraph", "wake"} :
           /\ c = [call[p] EXCEPT !.pc = l, !.waiters = W]
           /\ call[p].pc \in {"pchild", "pgraph"} /\ Goto(p, c)
           /\ UNCHANGED <<tasks, rows, heap, starting, fresh>>
    <3>1. CASE PurgeChildren(p)
      <4>1. /\ c = [call[p] EXCEPT !.pc = "pgraph"]
            /\ At(p, "pchild") /\ Goto(p, c)
            /\ UNCHANGED <<tasks, rows, heap, starting, fresh>>
        BY <3>1 DEF PurgeChildren, Goto, IInv, TypeOK
      <4>2. c = [call[p] EXCEPT !.pc = "pgraph", !.waiters = call[p].waiters]
        BY <4>1, CallFacts
      <4> QED
        BY <4>1, <4>2 DEF At
    <3>2. CASE PurgeGraph(p)
      <4> DEFINE W == UNION {Dependents(edges, d) : d \in call[p].todo}
                        \ call[p].todo
      <4>1. /\ c = [call[p] EXCEPT !.pc = "wake", !.waiters = W]
            /\ At(p, "pgraph") /\ Goto(p, c)
            /\ UNCHANGED <<tasks, rows, heap, starting, fresh>>
        BY <3>2 DEF PurgeGraph, Goto, IInv, TypeOK
      <4>2. W \in SUBSET Task
        BY DEF Dependents
      <4> HIDE DEF W
      <4> QED
        BY <4>1, <4>2 DEF At
    <3> QED
      BY <1>4, <3>1, <3>2
  <2>1. /\ c.pc \in {"pgraph", "wake"}
        /\ c.task = call[p].task /\ c.todo = call[p].todo
    BY <2>0, CallFacts
  <2>2. c.purge /\ call[p].purge
    BY <2>0, CallFacts
  <2>3. FreshStep(c)
    BY <2>0, <2>1, CallFacts DEF FreshStep, At
  <2>4. InsertStep(p, c) /\ PurgeStep(p, c) /\ CallOK(c)
    BY <2>0, <2>1, <2>2, CallFacts DEF InsertStep, PurgeStep
  <2>5. ReachStep(p, c) /\ RecordStep(p, c)
    BY <2>0, <2>1 DEF ReachStep, RecordStep
  <2> QED
    BY <1>1, <2>0, <2>3, <2>4, <2>5, StepInductive DEF Step
<1>5. CASE PurgeRows(p)
  <2>1. /\ c = Idle /\ At(p, "pdelete") /\ Goto(p, c)
        /\ rows' = [t \in Task |-> IF t \in call[p].todo THEN Absent
                                   ELSE rows[t]]
        /\ UNCHANGED <<tasks, heap, starting, fresh>>
    BY <1>5 DEF PurgeRows, Goto, IInv, TypeOK
  <2>2. FreshStep(c)
    BY <2>1, CallFacts, NoneAssumption DEF FreshStep, Idle, IInv, TypeOK
  <2>3. InsertStep(p, c) /\ PurgeStep(p, c) /\ CallOK(c)
    BY <2>1 DEF InsertStep, PurgeStep, Idle
  <2>4. ReachStep(p, c) /\ RecordStep(p, c)
    BY <2>1, CallFacts DEF ReachStep, RecordStep, At
  <2> QED
    BY <1>1, <2>1, <2>2, <2>3, <2>4, StepInductive DEF Step
<1> QED
  BY <1>2, <1>3, <1>4, <1>5

(* A delegation, and the enqueue of a resumed task.                        *)
LEMMA DelegateInductive ==
    ASSUME IInv, TypeOK', ChildInv', NEW p \in Proc,
           \/ \E t, d \in Task : Delegate(p, t, d)
           \/ AddDependency(p) \/ RegisterChild(p) \/ ParkParent(p)
           \/ EnqueueChild(p) \/ ResumeEnqueue(p)
    PROVE  IInv'
<1> DEFINE c == call'[p]
<1> USE DEF DelegationPc, CallRecord, CallOK, Inserts, Delegating, Carries, Persists,
            graphVars, loopVars, runVars
<1>1. c \in Call
  BY DEF TypeOK
<1>2. ASSUME NEW t \in Task, NEW d \in Task, Delegate(p, t, d)
      PROVE  IInv'
  <2>1. /\ c = [Idle EXCEPT !.pc = "dedge", !.task = t, !.todo = {d}]
        /\ Goto(p, c) /\ call[p].pc = "idle" /\ d \in fresh
        /\ live[t] > 0 /\ fresh' = fresh \ {d}
        /\ UNCHANGED <<tasks, rows, heap, starting>>
    BY <1>2 DEF Delegate, LoopCalls, Goto, IInv, TypeOK, At
  <2>2. c.pc = "dedge" /\ c.task = t /\ c.todo = {d} /\ ~c.purge
    BY <2>1 DEF Idle
  <2>4. FreshStep(c)
    BY <2>1, <2>2, CallFacts DEF FreshStep, At
  <2>5. InsertStep(p, c) /\ PurgeStep(p, c) /\ CallOK(c)
    BY <2>1, <2>2, CallFacts DEF InsertStep, PurgeStep
  <2>6. ReachStep(p, c) /\ RecordStep(p, c)
    BY <2>1, <2>2 DEF ReachStep, RecordStep
  <2> QED
    BY <1>1, <2>1, <2>4, <2>5, <2>6, StepInductive DEF Step
<1>3. CASE AddDependency(p) \/ RegisterChild(p)
  <2>1. PICK l \in {"dchild", "dpark"} :
           /\ c = [call[p] EXCEPT !.pc = l]
           /\ call[p].pc \in {"dedge", "dchild"} /\ Goto(p, c)
           /\ UNCHANGED <<tasks, rows, heap, starting, fresh>>
    BY <1>3 DEF AddDependency, RegisterChild, Goto, IInv, TypeOK, At
  <2>2. c.pc \in {"dchild", "dpark"} /\ c.task = call[p].task
        /\ c.todo = call[p].todo
    BY <2>1, CallFacts
  <2>3. ~c.purge
    BY <2>1, CallFacts
  <2>4. FreshStep(c)
    BY <2>1, <2>2, CallFacts DEF FreshStep, At
  <2>5. InsertStep(p, c) /\ PurgeStep(p, c) /\ CallOK(c)
    BY <2>1, <2>2, <2>3, CallFacts DEF InsertStep, PurgeStep
  <2>6. ReachStep(p, c) /\ RecordStep(p, c)
    BY <2>1, <2>2 DEF ReachStep, RecordStep
  <2> QED
    BY <1>1, <2>1, <2>4, <2>5, <2>6, StepInductive DEF Step
<1>4. CASE ParkParent(p)
  <2> DEFINE t == call[p].task
  <2>1. CASE tasks[t] \in Terminal \cup {Absent}
    <3>1. /\ c = [call[p] EXCEPT !.pc = "denq", !.loop = t]
          /\ At(p, "dpark") /\ Goto(p, c)
          /\ UNCHANGED <<tasks, rows, heap, starting, fresh>>
      BY <1>4, <2>1 DEF ParkParent, Goto, IInv, TypeOK
    <3>2. c.pc = "denq" /\ c.task = t /\ c.todo = call[p].todo
      BY <3>1, CallFacts
    <3>3. ~c.purge
      BY <3>1, CallFacts DEF At
    <3>4. FreshStep(c)
      BY <3>1, <3>2, CallFacts DEF FreshStep, At
    <3>5. InsertStep(p, c) /\ PurgeStep(p, c) /\ CallOK(c)
      BY <3>1, <3>2, <3>3, CallFacts DEF InsertStep, PurgeStep, At
    <3>6. ReachStep(p, c) /\ RecordStep(p, c)
      BY <3>1, <3>2 DEF ReachStep, RecordStep, At
    <3> QED
      BY <1>1, <3>1, <3>4, <3>5, <3>6, StepInductive DEF Step
  <2>2. CASE tasks[t] \notin Terminal \cup {Absent}
    <3>1. /\ c = Persisting(t, "Waiting", "denq", call[p].todo, None)
          /\ At(p, "dpark") /\ Goto(p, c) /\ tasks[t] # Absent
          /\ tasks' = [tasks EXCEPT ![t] = "Waiting"]
          /\ UNCHANGED <<rows, heap, starting, fresh>>
      BY <1>4, <2>2 DEF ParkParent, Goto, IInv, TypeOK
    <3>2. /\ c.pc = "persist" /\ c.task = t /\ c.todo = call[p].todo
          /\ c.snap = "Waiting" /\ c.cont = "denq" /\ ~c.purge
      BY <3>1 DEF Persisting, Idle
    <3>3. FreshStep(c)
      BY <3>1, <3>2, CallFacts DEF FreshStep, At, IInv, TypeOK
    <3>4. InsertStep(p, c) /\ PurgeStep(p, c) /\ CallOK(c)
      BY <3>1, <3>2, CallFacts
         DEF InsertStep, PurgeStep, At, IInv, TypeOK, Absent
    <3>5. ReachStep(p, c) /\ RecordStep(p, c)
      BY <3>1, <3>2 DEF ReachStep, RecordStep, At, IInv, TypeOK
    <3> QED
      BY <1>1, <3>1, <3>3, <3>4, <3>5, StepInductive DEF Step
  <2> QED
    BY <2>1, <2>2
<1>5. CASE EnqueueChild(p)
  <2>1. PICK d \in call[p].todo : Goto(p, Enqueueing(d, call[p].loop))
    BY <1>5 DEF EnqueueChild
  <2>2. /\ c = Enqueueing(d, call[p].loop) /\ Goto(p, c) /\ At(p, "denq")
        /\ UNCHANGED <<tasks, rows, heap, starting, fresh>>
    BY <1>5, <2>1 DEF EnqueueChild, Goto, IInv, TypeOK
  <2>3. /\ c.pc \in {"count", "insert"} /\ c.task = d /\ c.todo = {}
        /\ c.cont = "idle" /\ ~c.purge
    BY <2>2 DEF Enqueueing, Idle
  <2>4. FreshStep(c)
    BY <2>2, <2>3, CallFacts DEF FreshStep, At
  <2>5. InsertStep(p, c) /\ PurgeStep(p, c) /\ CallOK(c)
    BY <2>2, <2>3, CallFacts DEF InsertStep, PurgeStep, At
  <2>6. ReachStep(p, c) /\ RecordStep(p, c)
    BY <2>2, <2>3 DEF ReachStep, RecordStep, At
  <2> QED
    BY <1>1, <2>2, <2>4, <2>5, <2>6, StepInductive DEF Step
<1>6. CASE ResumeEnqueue(p)
  <2>1. /\ c = Enqueueing(call[p].task, None) /\ Goto(p, c)
        /\ At(p, "resume")
        /\ UNCHANGED <<tasks, rows, heap, starting, fresh>>
    BY <1>6 DEF ResumeEnqueue, Goto, IInv, TypeOK
  <2>2. /\ c.pc \in {"count", "insert"} /\ c.task = call[p].task
        /\ c.todo = {} /\ c.cont = "idle" /\ ~c.purge
    BY <2>1 DEF Enqueueing, Idle
  <2>3. call[p].task \in Resumable
    BY <2>1, CallFacts DEF At
  <2>4. FreshStep(c)
    BY <2>1, <2>2, CallFacts DEF FreshStep, At
  <2>5. InsertStep(p, c) /\ PurgeStep(p, c) /\ CallOK(c)
    BY <2>1, <2>2, <2>3 DEF InsertStep, PurgeStep
  <2>6. ReachStep(p, c) /\ RecordStep(p, c)
    BY <2>1, <2>2 DEF ReachStep, RecordStep, At
  <2> QED
    BY <1>1, <2>1, <2>4, <2>5, <2>6, StepInductive DEF Step
<1> QED
  BY <1>2, <1>3, <1>4, <1>5, <1>6

(* A cascade of cancellations.                                             *)
LEMMA CascadeInductive ==
    ASSUME IInv, TypeOK', ChildInv', NEW p \in Proc,
           \/ CascadeChildren(p) \/ CascadeDone(p)
           \/ \E t \in Task : CascadeCancel(p, t)
    PROVE  IInv'
<1> DEFINE c == call'[p]
<1> USE DEF DelegationPc, CallRecord, CallOK, Inserts, Delegating, Carries, Persists,
            graphVars, loopVars, runVars
<1>1. c \in Call
  BY DEF TypeOK
<1>2. CASE CascadeChildren(p)
  <2>1. /\ c = [call[p] EXCEPT !.pc = "cancel",
                               !.todo = @ \cup children[call[p].task]]
        /\ At(p, "cascade") /\ Goto(p, c)
        /\ UNCHANGED <<tasks, rows, heap, starting, fresh>>
    BY <1>2 DEF CascadeChildren, Goto, IInv, TypeOK
  <2>2. /\ c.pc = "cancel" /\ c.task = call[p].task
        /\ c.todo = call[p].todo \cup children[call[p].task]
    BY <2>1, CallFacts
  <2>3. ~c.purge
    BY <2>1, CallFacts DEF At
  <2>4. children[call[p].task] \cap fresh = {}
    BY <2>1, CallFacts DEF At, OfTask, IInv, ChildInv
  <2>5. FreshStep(c)
    BY <2>1, <2>2, <2>4, CallFacts DEF FreshStep, At
  <2>6. InsertStep(p, c) /\ PurgeStep(p, c) /\ CallOK(c)
    BY <2>1, <2>2, <2>3 DEF InsertStep, PurgeStep
  <2>7. ReachStep(p, c) /\ RecordStep(p, c)
    BY <2>1, <2>2 DEF ReachStep, RecordStep, At
  <2> QED
    BY <1>1, <2>1, <2>5, <2>6, <2>7, StepInductive DEF Step
<1>3. ASSUME NEW t \in Task, CascadeCancel(p, t)
      PROVE  IInv'
  <2>1. CASE tasks[t] = Absent
    <3>1. /\ c = [call[p] EXCEPT !.todo = @ \ {t}]
          /\ At(p, "cancel") /\ Goto(p, c)
          /\ UNCHANGED <<tasks, rows, heap, starting, fresh>>
      BY <1>3, <2>1 DEF CascadeCancel, Goto, IInv, TypeOK
    <3>2. /\ c.pc = "cancel" /\ c.task = call[p].task
          /\ c.todo = call[p].todo \ {t}
      BY <3>1, CallFacts DEF At
    <3>3. ~c.purge
      BY <3>1, CallFacts DEF At
    <3>4. FreshStep(c)
      BY <3>1, <3>2, CallFacts DEF FreshStep, At
    <3>5. InsertStep(p, c) /\ PurgeStep(p, c) /\ CallOK(c)
      BY <3>1, <3>2, <3>3 DEF InsertStep, PurgeStep
    <3>6. ReachStep(p, c) /\ RecordStep(p, c)
      BY <3>1, <3>2 DEF ReachStep, RecordStep, At
    <3> QED
      BY <1>1, <3>1, <3>4, <3>5, <3>6, StepInductive DEF Step
  <2>2. CASE tasks[t] # Absent
    <3>1. /\ c = Persisting(t, "Cancelled", "cascade", call[p].todo \ {t}, None)
          /\ At(p, "cancel") /\ Goto(p, c) /\ t \in call[p].todo
          /\ tasks' = [tasks EXCEPT ![t] = "Cancelled"]
          /\ UNCHANGED <<rows, heap, starting, fresh>>
      BY <1>3, <2>2 DEF CascadeCancel, Goto, IInv, TypeOK
    <3>2. /\ c.pc = "persist" /\ c.task = t /\ c.todo = call[p].todo \ {t}
          /\ c.snap = "Cancelled" /\ c.cont = "cascade" /\ ~c.purge
      BY <3>1 DEF Persisting, Idle
    <3>3. FreshStep(c)
      BY <2>2, <3>1, <3>2, CallFacts DEF FreshStep, At, IInv, TypeOK
    <3>4. InsertStep(p, c) /\ PurgeStep(p, c) /\ CallOK(c)
      BY <2>2, <3>1, <3>2 DEF InsertStep, PurgeStep, IInv, TypeOK, Absent
    <3>5. ReachStep(p, c) /\ RecordStep(p, c)
      BY <2>2, <3>1, <3>2 DEF ReachStep, RecordStep, At, IInv, TypeOK
    <3> QED
      BY <1>1, <3>1, <3>3, <3>4, <3>5, StepInductive DEF Step
  <2> QED
    BY <2>1, <2>2
<1>4. CASE CascadeDone(p)
  <2>1. /\ c = Idle /\ At(p, "cancel") /\ Goto(p, c)
        /\ UNCHANGED <<tasks, rows, heap, starting, fresh>>
    BY <1>4 DEF CascadeDone, Goto, IInv, TypeOK
  <2>2. FreshStep(c)
    BY <2>1, CallFacts, NoneAssumption DEF FreshStep, Idle, IInv, TypeOK
  <2>3. InsertStep(p, c) /\ PurgeStep(p, c) /\ CallOK(c)
    BY <2>1 DEF InsertStep, PurgeStep, Idle
  <2>4. ReachStep(p, c) /\ RecordStep(p, c)
    BY <2>1 DEF ReachStep, RecordStep, At
  <2> QED
    BY <1>1, <2>1, <2>2, <2>3, <2>4, StepInductive DEF Step
<1> QED
  BY <1>2, <1>3, <1>4

(* A crash and the boot after it: every call is gone, and what the boot    *)
(* shows as Queued it has pushed.                                          *)
LEMMA RestartInductive ==
    ASSUME IInv, TypeOK', ChildInv', NEW stale \in SUBSET Task, NEW K \in SUBSET Task,
           Restart(stale, K)
    PROVE  IInv'
<1>1. /\ call' = [p \in Proc |-> Idle] /\ fresh' = fresh
      /\ rows' = [t \in Task |-> Restored(stale, K, t)] /\ tasks' = rows'
      /\ heap' = [t \in Task |-> IF t \in K THEN 1 ELSE 0]
      /\ stale \subseteq LiveRows
      /\ K \subseteq LiveRows
  BY DEF Restart, Admitted
<1>2. /\ Idle.pc = "idle" /\ Idle.task = None /\ Idle.todo = {} /\ ~Idle.purge
  BY DEF Idle
<1>3. FreshInv'
  <2>1. \A t \in fresh : rows[t] = Absent /\ t \in Task
    BY DEF IInv, FreshInv, TypeOK
  <2>2. \A t \in fresh : t \notin stale \cup K
    BY <1>1, <2>1 DEF LiveRows, TaskState, Terminal, Absent
  <2>3. \A t \in fresh : Restored(stale, K, t) = Absent
    BY <2>1, <2>2 DEF Restored, Absent
  <2>4. None \notin fresh
    BY <2>1, NoneAssumption
  <2> QED
    BY <1>1, <1>2, <2>1, <2>3, <2>4 DEF FreshInv
<1>4. InsertInv' /\ PurgeInv' /\ CallInv'
  BY <1>1, <1>2
     DEF InsertInv, PurgeInv, CallInv, Inserts, Delegating, CallOK
<1>5. NoLostTask'
  <2>1. \A t \in Task : Restored(stale, K, t) = "Queued" => t \in K
    BY DEF Restored
  <2> QED
    BY <1>1, <2>1 DEF NoLostTask, Reachable
<1>6. NoUnrecordedTask'
  BY <1>1 DEF NoUnrecordedTask
<1> QED
  BY <1>3, <1>4, <1>5, <1>6 DEF IInv

LEMMA IInvInit == Init => IInv
<1> SUFFICES ASSUME Init PROVE IInv
  OBVIOUS
<1>1. \A p \in Proc : /\ call[p].pc = "idle" /\ call[p].task = None
                      /\ call[p].todo = {} /\ ~call[p].purge
  BY DEF Init, Idle
<1>2. \A t \in Task : tasks[t] = Absent /\ rows[t] = Absent
  BY DEF Init
<1>3. FreshInv /\ ChildInv
  BY <1>1, <1>2, NoneAssumption DEF FreshInv, ChildInv, Init
<1>4. InsertInv /\ PurgeInv /\ CallInv
  BY <1>1 DEF InsertInv, PurgeInv, CallInv, Inserts, Delegating, CallOK
<1>5. NoLostTask /\ NoUnrecordedTask
  BY <1>2 DEF NoLostTask, Reachable, NoUnrecordedTask, Absent
<1> QED
  BY <1>3, <1>4, <1>5, TypeInit DEF IInv

LEMMA IInvInductive == IInv /\ [Next]_vars => IInv'
<1> SUFFICES ASSUME IInv, [Next]_vars
             PROVE  IInv'
  OBVIOUS
<1>0. TypeOK' /\ ChildInv'
  BY TypeInductive, ChildInductive DEF IInv
<1>1. CASE \E p \in Proc : Section(p)
  BY <1>0, <1>1, EnqueueInductive, PersistInductive, WakeInductive,
     PurgeInductive, DelegateInductive, CascadeInductive DEF Section
<1>2. CASE \E p \in Proc, t \in Task : LoopStep(p, t) \/ ClientCall(p, t)
  BY <1>0, <1>2, LoopInductive, DelegateInductive, ClientInductive
     DEF LoopStep
<1>3. CASE \E p \in Proc, S \in SUBSET Task : CheckTimeouts(p, S)
  BY <1>0, <1>3, CheckTimeoutsInductive
<1>4. CASE \E p \in Proc, a \in Agent, ss \in SUBSET (PurgeStates \cap States) :
              Purge(p, a, ss)
  BY <1>0, <1>4, PurgeInductive
<1>5. CASE DequeueNothing \/ \E paused \in SUBSET Agent, t \in Task : Dequeue(t, paused)
  BY <1>0, <1>5, DequeueInductive
<1>6. CASE \E stale, K \in SUBSET Task : Restart(stale, K)
  BY <1>0, <1>6, RestartInductive
<1>7. CASE UNCHANGED vars
  BY <1>0, <1>7, QuietInductive DEF vars
<1> QED
  BY <1>1, <1>2, <1>3, <1>4, <1>5, <1>6, <1>7 DEF Next

(* No interleaving of enqueue, requeue, dequeue, purge, timeouts, crashes  *)
(* and the rest strands a queued task that is not resumed by hand.         *)
THEOREM QueuedTasksStayReachable == Spec => []NoLostTask
<1>1. IInv => NoLostTask
  BY DEF IInv
<1> QED
  BY IInvInit, IInvInductive, <1>1, PTL DEF Spec

(* No interleaving leaves a task in the map without a row that a crash     *)
(* could restore it from, once the call that stored it has returned.       *)
THEOREM AcceptedTasksAreRecorded == Spec => []NoUnrecordedTask
<1>1. IInv => NoUnrecordedTask
  BY DEF IInv
<1> QED
  BY IInvInit, IInvInductive, <1>1, PTL DEF Spec

----------------------------------------------------------------------------
(* The delegation graph.  A task is unborn until the call that mints it    *)
(* for a delegation has come to its enqueue; nothing but that call knows   *)
(* of it, so the edge to it is the only trace it leaves.  From its birth   *)
(* on, the edges that lead to a task are taken out by whoever completes or *)
(* purges it.                                                              *)

Unborn(t) ==
    t \in fresh \/ \E p \in Proc : Delegating(call[p]) /\ t \in call[p].todo

(* Nothing runs an unborn task, waits on its behalf or is about it.        *)
UnbornInv ==
    \A t \in Task : Unborn(t) =>
        /\ tasks[t] = Absent /\ starting[t] = 0 /\ live[t] = 0
        /\ \A e \in edges : e[1] # t
        /\ \A q \in Proc : call[q].task # t /\ call[q].loop # t

(* A delegation enqueues one child, and no two the same one.               *)
DelegInv ==
    \A p \in Proc : Delegating(call[p]) =>
        /\ \E t \in Task : call[p].todo = {t}
        /\ \A q \in Proc : Delegating(call[q]) /\ call[q].todo = call[p].todo => q = p

(* The call of the loop that completed t, not a sweep t happens to be in.  *)
Finishing(c, t) == Completing(c, t) /\ c.todo = {t}

EdgeInv ==
    \A e \in edges :
        /\ tasks[e[2]] = Absent =>
               \E p \in Proc : BeingEnqueued(call[p], e[2]) \/ BeingPurged(call[p], e[2])
        /\ tasks[e[2]] = "Complete" => \E p \in Proc : Finishing(call[p], e[2])

(* Nobody waits, through others, for itself.                               *)
NoWaitCycle == \A e \in edges : ~Reaches(edges, e[2], e[1])

GInv == IInv /\ UnbornInv /\ DelegInv /\ EdgeInv /\ NoWaitCycle

(* Fewer edges reach less.                                                 *)
LEMMA ReachesMonotone ==
    ASSUME NEW D, NEW E, D \subseteq E, NEW a, NEW b, Reaches(D, a, b)
    PROVE  Reaches(E, a, b)
BY DEF Reaches

(* An edge to a task that waits for nobody closes no cycle.                *)
LEMMA LeafEdgeClosesNoCycle ==
    ASSUME NEW E \in SUBSET (Task \X Task), NEW t \in Task, NEW d \in Task,
           t # d, \A e \in E : e[1] # d,
           \A e \in E : ~Reaches(E, e[2], e[1]),
           NEW e \in E \cup {<<t, d>>}
    PROVE  ~Reaches(E \cup {<<t, d>>}, e[2], e[1])
<1> DEFINE F == E \cup {<<t, d>>}
<1>1. CASE e = <<t, d>>
  <2>1. /\ {d} \in SUBSET Task /\ d \in {d} /\ t \notin {d}
        /\ \A f \in F : f[1] \in {d} => f[2] \in {d}
    OBVIOUS
  <2>2. ~Reaches(F, d, t)
    BY <2>1 DEF Reaches
  <2> QED
    BY <1>1, <2>2
<1>2. CASE e \in E
  <2>1. PICK S \in SUBSET Task :
           /\ e[2] \in S /\ e[1] \notin S
           /\ \A f \in E : f[1] \in S => f[2] \in S
    BY <1>2 DEF Reaches
  <2>2. e[1] # d
    BY <1>2
  <2>3. /\ S \cup {d} \in SUBSET Task
        /\ e[2] \in S \cup {d} /\ e[1] \notin S \cup {d}
        /\ \A f \in F : f[1] \in S \cup {d} => f[2] \in S \cup {d}
    BY <2>1, <2>2
  <2> QED
    BY <2>3 DEF Reaches
<1> QED
  BY <1>1, <1>2

(* What a step of p that makes c its call must see to: no unborn task is   *)
(* touched but by its delegation; only delegations bring in children and   *)
(* edges; a task that vanishes or completes has somebody to clear its      *)
(* edges, and nobody lets go of that before they are gone.                 *)
BornStep(p, c) ==
    \A t \in Task : Unborn(t) =>
        \/ /\ tasks'[t] = Absent /\ starting'[t] = 0 /\ live'[t] = 0
           /\ c.task # t /\ c.loop # t
        \/ /\ ~Delegating(c)
           /\ (Delegating(call[p]) /\ t \in call[p].todo) \/ t \in fresh \ fresh'

DelegStep(p, c) ==
    /\ fresh' \subseteq fresh
    /\ Delegating(c) =>
          \/ Delegating(call[p]) /\ c.todo = call[p].todo
          \/ \E d \in fresh \ fresh' : c.todo = {d}

GrowStep(p, c) ==
    \A e \in edges' :
        \/ e \in edges
        \/ /\ Delegating(call[p]) /\ Delegating(c) /\ c.todo = call[p].todo
           /\ e[1] = call[p].task /\ e[2] \in c.todo

RoleStep(p, c) ==
    \A t \in Task : (\E e \in edges' : e[2] = t) =>
        /\ tasks'[t] = Absent =>
              \/ BeingEnqueued(c, t) \/ BeingPurged(c, t)
              \/ /\ tasks[t] = Absent
                 /\ ~BeingEnqueued(call[p], t) /\ ~BeingPurged(call[p], t)
        /\ tasks'[t] = "Complete" =>
              \/ Finishing(c, t)
              \/ tasks[t] = "Complete" /\ ~Finishing(call[p], t)

GStep(p, c) ==
    /\ Goto(p, c)
    /\ BornStep(p, c) /\ DelegStep(p, c) /\ GrowStep(p, c) /\ RoleStep(p, c)

(* Such a step keeps the invariant.                                        *)
LEMMA GStepInductive ==
    ASSUME GInv, IInv', NoWaitCycle', NEW p \in Proc, NEW c, GStep(p, c)
    PROVE  GInv'
<1>1. /\ call'[p] = c
      /\ \A q \in Proc \ {p} : call'[q] = call[q]
  BY DEF GInv, IInv, TypeOK, GStep, Goto
<1>2. \A q \in Proc : call[q].todo \cap fresh = {}
  BY DEF GInv, IInv, FreshInv
<1>3. \A q, r \in Proc, t \in Task :
          /\ Delegating(call[q]) /\ t \in call[q].todo
          /\ Delegating(call[r]) /\ t \in call[r].todo
          => q = r
  <2> SUFFICES ASSUME NEW q \in Proc, NEW r \in Proc, NEW t \in Task,
                      Delegating(call[q]), t \in call[q].todo,
                      Delegating(call[r]), t \in call[r].todo
               PROVE  q = r
    OBVIOUS
  <2>1. call[q].todo = {t} /\ call[r].todo = {t}
    BY DEF GInv, DelegInv
  <2> QED
    BY <2>1 DEF GInv, DelegInv
<1>4. \A t \in Task : Unborn(t)' => Unborn(t)
  BY <1>1 DEF Unborn, Delegating, GStep, DelegStep
<1>5. ASSUME NEW t \in Task, Unborn(t)'
      PROVE  /\ tasks'[t] = Absent /\ starting'[t] = 0 /\ live'[t] = 0
             /\ c.task # t /\ c.loop # t
  <2>1. ASSUME ~Delegating(c), Delegating(call[p]), t \in call[p].todo
        PROVE  FALSE
    <3>1. t \notin fresh'
      BY <1>2, <2>1 DEF GStep, DelegStep
    <3>2. PICK q \in Proc : Delegating(call'[q]) /\ t \in call'[q].todo
      BY <1>5, <3>1 DEF Unborn, Delegating
    <3> QED
      BY <1>1, <1>3, <2>1, <3>2
  <2>2. ASSUME ~Delegating(c), t \in fresh \ fresh'
        PROVE  FALSE
    <3>1. PICK q \in Proc : Delegating(call'[q]) /\ t \in call'[q].todo
      BY <1>5, <2>2 DEF Unborn, Delegating
    <3> QED
      BY <1>1, <1>2, <2>2, <3>1
  <2>3. Unborn(t)
    BY <1>4, <1>5
  <2> QED
    BY <2>1, <2>2, <2>3 DEF GStep, BornStep
<1>6. UnbornInv'
  <2> SUFFICES ASSUME NEW t \in Task, Unborn(t)'
               PROVE  /\ tasks'[t] = Absent /\ starting'[t] = 0 /\ live'[t] = 0
                      /\ \A e \in edges' : e[1] # t
                      /\ \A q \in Proc : call'[q].task # t /\ call'[q].loop # t
    BY DEF UnbornInv, Unborn, Delegating
  <2>1. /\ \A e \in edges : e[1] # t
        /\ \A q \in Proc : call[q].task # t /\ call[q].loop # t
    BY <1>4 DEF GInv, UnbornInv
  <2>2. \A e \in edges' : e[1] # t
    BY <2>1 DEF GStep, GrowStep
  <2> QED
    BY <1>1, <1>5, <2>1, <2>2
<1>7. DelegInv'
  <2>1. ASSUME Delegating(c)
        PROVE  /\ \E t \in Task : c.todo = {t}
               /\ \A q \in Proc \ {p} :
                     ~(Delegating(call[q]) /\ call[q].todo = c.todo)
    <3>1. CASE Delegating(call[p]) /\ c.todo = call[p].todo
      BY <3>1 DEF GInv, DelegInv
    <3>2. CASE \E d \in fresh \ fresh' : c.todo = {d}
      BY <1>2, <3>2 DEF GInv, IInv, TypeOK
    <3> QED
      BY <2>1, <3>1, <3>2 DEF GStep, DelegStep
  <2>2. ASSUME NEW q \in Proc, Delegating(call'[q])
        PROVE  /\ \E t \in Task : call'[q].todo = {t}
               /\ \A r \in Proc : Delegating(call'[r]) /\ call'[r].todo = call'[q].todo
                                    => r = q
    BY <1>1, <2>1, <2>2 DEF GInv, DelegInv
  <2> QED
    BY <2>2 DEF DelegInv, Delegating
<1>8. EdgeInv'
  <2> SUFFICES ASSUME NEW e \in edges'
               PROVE  /\ tasks'[e[2]] = Absent =>
                           \E q \in Proc : \/ BeingEnqueued(call'[q], e[2])
                                           \/ BeingPurged(call'[q], e[2])
                      /\ tasks'[e[2]] = "Complete" =>
                           \E q \in Proc : Finishing(call'[q], e[2])
    BY DEF EdgeInv, BeingEnqueued, BeingPurged, Delegating, Finishing, Completing
  <2> DEFINE t == e[2]
  <2>0. t \in Task
    BY DEF IInv, TypeOK
  <2>1. /\ tasks'[t] = Absent =>
              \/ BeingEnqueued(c, t) \/ BeingPurged(c, t)
              \/ /\ tasks[t] = Absent
                 /\ ~BeingEnqueued(call[p], t) /\ ~BeingPurged(call[p], t)
        /\ tasks'[t] = "Complete" =>
              \/ Finishing(c, t)
              \/ tasks[t] = "Complete" /\ ~Finishing(call[p], t)
    BY <2>0 DEF GStep, RoleStep
  <2>2. CASE e \in edges
    <3>1. /\ tasks[t] = Absent =>
                \E q \in Proc : BeingEnqueued(call[q], t) \/ BeingPurged(call[q], t)
          /\ tasks[t] = "Complete" => \E q \in Proc : Finishing(call[q], t)
      BY <2>2 DEF GInv, EdgeInv
    <3> QED
      BY <1>1, <2>1, <3>1
  <2>3. CASE e \notin edges
    <3>1. Delegating(c) /\ t \in c.todo
      BY <2>3 DEF GStep, GrowStep
    <3>2. Unborn(t)'
      BY <1>1, <3>1 DEF Unborn, Delegating
    <3>3. tasks'[t] = Absent
      BY <1>5, <2>0, <3>2
    <3> QED
      BY <1>1, <3>1, <3>3 DEF BeingEnqueued, Absent
  <2> QED
    BY <2>2, <2>3
<1> QED
  BY <1>6, <1>7, <1>8 DEF GInv

LEMMA FrameInductive ==
    ASSUME GInv, IInv', NEW p \in Proc, NEW c, GStep(p, c), UNCHANGED edges
    PROVE  GInv'
BY GStepInductive DEF GInv, NoWaitCycle

(* What the invariant says of one call.                                    *)
LEMMA GCallFacts ==
    ASSUME GInv, NEW p \in Proc
    PROVE  /\ call[p] \in CallRecord /\ CallOK(call[p])
           /\ call[p].pc \in OfTask => call[p].task \in Task
           /\ ~Unborn(None)
           /\ \A t \in Task : Unborn(t) =>
                 /\ tasks[t] = Absent /\ starting[t] = 0 /\ live[t] = 0
                 /\ call[p].task # t /\ call[p].loop # t
           /\ Delegating(call[p]) =>
                 \E t \in Task : call[p].todo = {t} /\ Unborn(t)
BY CallFacts, NoneAssumption
   DEF GInv, UnbornInv, DelegInv, Unborn, IInv, TypeOK, Call, CallRecord

(* Steps that change no call, edge, task or identifier.                    *)
LEMMA GQuietInductive ==
    ASSUME GInv, IInv', UNCHANGED <<call, edges, fresh, tasks>>,
           \A t \in Task : Unborn(t) => starting'[t] = 0 /\ live'[t] = 0
    PROVE  GInv'
<1>1. UnbornInv' /\ DelegInv' /\ EdgeInv' /\ NoWaitCycle'
  BY DEF GInv, UnbornInv, Unborn, DelegInv, EdgeInv, NoWaitCycle, Delegating,
         BeingEnqueued, BeingPurged, Finishing, Completing
<1> QED
  BY <1>1 DEF GInv

LEMMA GEnqueueInductive ==
    ASSUME GInv, IInv', NEW p \in Proc,
           \/ EnqueueCount(p) \/ EnqueueReject(p) \/ EnqueueInsert(p)
           \/ Push(p)
    PROVE  GInv'
<1> DEFINE c == call'[p]
<1> USE DEF CallRecord, Delegating, BeingEnqueued, BeingPurged, Finishing,
            Completing, graphVars, loopVars, runVars
<1>1. /\ UNCHANGED <<edges, fresh, starting, live>> /\ Goto(p, c)
      /\ c.task = call[p].task /\ c.loop = call[p].loop
      /\ \/ /\ call[p].pc = "count" /\ c.pc \in {"reject", "insert"}
            /\ tasks' = tasks
         \/ /\ call[p].pc \in {"reject", "insert"} /\ c.pc \in {"persist", "push"}
            /\ c.pc = "persist" => c.cont = "idle"
            /\ \E s \in {"Failed", "Queued"} : tasks' = [tasks EXCEPT ![call[p].task] = s]
         \/ /\ call[p].pc = "push" /\ c.pc = "persist" /\ c.cont \in {"idle", "wake"}
            /\ tasks' = tasks
  <2>1. CASE EnqueueCount(p)
    BY <2>1, GCallFacts DEF EnqueueCount, At, Goto, GInv, IInv, TypeOK
  <2>2. CASE EnqueueReject(p)
    BY <2>2, GCallFacts
       DEF EnqueueReject, At, Goto, GInv, IInv, TypeOK, Persisting, Idle
  <2>3. CASE EnqueueInsert(p)
    BY <2>3, GCallFacts DEF EnqueueInsert, At, Goto, GInv, IInv, TypeOK
  <2>4. CASE Push(p)
    BY <2>4, GCallFacts DEF Push, At, Goto, GInv, IInv, TypeOK, CallOK
  <2> QED
    BY <2>1, <2>2, <2>3, <2>4
<1>2. BornStep(p, c) /\ DelegStep(p, c) /\ GrowStep(p, c)
  BY <1>1, GCallFacts DEF BornStep, DelegStep, GrowStep, GInv, IInv, TypeOK
<1>3. RoleStep(p, c)
  BY <1>1, GCallFacts DEF RoleStep, GInv, IInv, TypeOK, Absent, OfTask
<1> QED
  BY <1>1, <1>2, <1>3, FrameInductive DEF GStep

LEMMA GPersistInductive ==
    ASSUME GInv, IInv', NEW p \in Proc,
           Persist(p) \/ Spawn(p) \/ MarkStarted(p)
    PROVE  GInv'
<1> DEFINE c == call'[p]
<1> USE DEF CallRecord, Delegating, BeingEnqueued, BeingPurged, Finishing,
            Completing, graphVars, loopVars, runVars
<1>1. CASE Persist(p)
  <2>1. /\ UNCHANGED <<tasks, edges, fresh, starting>> /\ Goto(p, c)
        /\ call[p].pc = "persist"
        /\ \/ c = Idle /\ call[p].cont = "idle"
           \/ /\ c.pc = call[p].cont /\ c.task = call[p].task
              /\ c.loop = call[p].loop /\ c.todo = call[p].todo
              /\ c.pc \in Cont /\ c.pc # "idle"
        /\ \A t \in Task : call[p].loop # t => live'[t] = live[t]
    <3>1. /\ UNCHANGED <<tasks, edges, fresh, starting>> /\ Goto(p, c)
          /\ call[p].pc = "persist"
      BY <1>1, GCallFacts
         DEF Persist, Return, Continue, At, Goto, GInv, IInv, TypeOK
    <3>2. CASE call[p].cont = "idle"
      <4>1. c = Idle /\ \A t \in Task : call[p].loop # t => live'[t] = live[t]
        BY <1>1, <3>2 DEF Persist, Return, Goto, GInv, IInv, TypeOK
      <4> QED
        BY <3>1, <3>2, <4>1
    <3>3. CASE call[p].cont # "idle"
      <4>1. /\ c = [call[p] EXCEPT !.pc = call[p].cont, !.cont = "idle",
                                   !.snap = Absent]
            /\ UNCHANGED live
        BY <1>1, <3>3 DEF Persist, Continue, Goto, GInv, IInv, TypeOK
      <4> QED
        BY <3>1, <3>3, <4>1, GCallFacts
    <3> QED
      BY <3>2, <3>3
  <2>2. BornStep(p, c) /\ DelegStep(p, c) /\ GrowStep(p, c)
    BY <2>1, GCallFacts, NoneAssumption
       DEF BornStep, DelegStep, GrowStep, Idle, Cont
  <2>3. RoleStep(p, c)
    BY <2>1 DEF RoleStep, Idle, Cont
  <2> QED
    BY <2>1, <2>2, <2>3, FrameInductive DEF GStep
<1>2. CASE Spawn(p) \/ MarkStarted(p)
  <2> DEFINE t == call[p].task
  <2>1. /\ UNCHANGED <<edges, fresh, starting>> /\ Goto(p, c)
        /\ call[p].pc \in {"spawn", "mark"} /\ t \in Task
        /\ c.task \in {t, None} /\ c.loop \in {t, None}
        /\ \/ c.pc \in {"mark", "idle"}
           \/ c.pc = "persist" /\ c.cont \in {"mark", "idle"}
        /\ tasks' = tasks \/ (/\ tasks' = [tasks EXCEPT ![t] = "Running"]
                              /\ tasks[t] # Absent)
        /\ \A u \in Task : call[p].loop # u => live'[u] = live[u]
    <3>1. CASE Spawn(p)
      <4>1. CASE tasks[t] \in Terminal \cup {Absent}
        <5>1. /\ c = [call[p] EXCEPT !.pc = "mark", !.loop = t]
              /\ call[p].pc = "spawn" /\ Goto(p, c)
              /\ UNCHANGED <<tasks, edges, fresh, starting, live>>
          BY <3>1, <4>1 DEF Spawn, At, Goto, GInv, IInv, TypeOK
        <5> QED
          BY <5>1, GCallFacts DEF OfTask
      <4>2. CASE tasks[t] \notin Terminal \cup {Absent}
        <5>1. /\ c = Persisting(t, "Running", "mark", {}, t)
              /\ call[p].pc = "spawn" /\ Goto(p, c)
              /\ tasks' = [tasks EXCEPT ![t] = "Running"]
              /\ UNCHANGED <<edges, fresh, starting, live>>
          BY <3>1, <4>2 DEF Spawn, At, Goto, GInv, IInv, TypeOK
        <5>2. c.pc = "persist" /\ c.cont = "mark" /\ c.task = t /\ c.loop = t
          BY <5>1 DEF Persisting, Idle
        <5> QED
          BY <4>2, <5>1, <5>2, GCallFacts DEF OfTask
      <4> QED
        BY <4>1, <4>2
    <3>2. CASE MarkStarted(p)
      <4>1. /\ call[p].pc = "mark" /\ Goto(p, c)
            /\ UNCHANGED <<tasks, edges, fresh, starting>>
            /\ \/ c = Persisting(t, tasks[t], "idle", {}, t) /\ UNCHANGED live
               \/ c = Idle /\ \A u \in Task : call[p].loop # u => live'[u] = live[u]
        BY <3>2 DEF MarkStarted, Return, At, Goto, GInv, IInv, TypeOK
      <4>2. /\ c.task \in {t, None} /\ c.loop \in {t, None}
            /\ c.pc = "idle" \/ (c.pc = "persist" /\ c.cont = "idle")
        <5>1. CASE c = Persisting(t, tasks[t], "idle", {}, t)
          BY <5>1 DEF Persisting, Idle
        <5>2. CASE c = Idle
          BY <5>2 DEF Idle
        <5> QED
          BY <4>1, <5>1, <5>2
      <4> QED
        BY <4>1, <4>2, GCallFacts DEF OfTask
    <3> QED
      BY <1>2, <3>1, <3>2
  <2>2. BornStep(p, c) /\ DelegStep(p, c) /\ GrowStep(p, c)
    BY <2>1, GCallFacts, NoneAssumption
       DEF BornStep, DelegStep, GrowStep, GInv, IInv, TypeOK
  <2>3. RoleStep(p, c)
    BY <2>1, GCallFacts DEF RoleStep, GInv, IInv, TypeOK, Absent
  <2> QED
    BY <2>1, <2>2, <2>3, FrameInductive DEF GStep
<1> QED
  BY <1>1, <1>2

(* update_state of a loop, an answer or a command.                         *)
LEMMA GUpdateInductive ==
    ASSUME GInv, IInv', NEW p \in Proc, NEW t \in Task,
           NEW s \in TaskState \ {"Queued"},
           NEW l \in {"idle", "mark", "depend", "cascade"},
           NEW S \in SUBSET {t}, NEW q \in {t, None}, UpdateState(p, t, s, l, S, q),
           s = "Complete" => l = "depend" /\ S = {t},
           UNCHANGED fresh,
           \A u \in Task \ {t} : starting'[u] = starting[u] /\ live'[u] = live[u]
    PROVE  GInv'
<1> DEFINE c == call'[p]
<1> USE DEF CallRecord, Delegating, BeingEnqueued, BeingPurged, Finishing,
            Completing, graphVars
<1>1. /\ c = Persisting(t, s, l, S, q) /\ Goto(p, c) /\ UNCHANGED edges
      /\ call[p].pc = "idle" /\ tasks[t] # Absent
      /\ tasks' = [tasks EXCEPT ![t] = s]
  BY DEF UpdateState, Goto, GInv, IInv, TypeOK, At
<1>2. /\ c.pc = "persist" /\ c.task = t /\ c.todo = S /\ c.cont = l /\ c.loop = q
  BY <1>1 DEF Persisting, Idle
<1>3. BornStep(p, c) /\ DelegStep(p, c) /\ GrowStep(p, c)
  BY <1>1, <1>2, GCallFacts, NoneAssumption
     DEF BornStep, DelegStep, GrowStep, GInv, IInv, TypeOK
<1>4. RoleStep(p, c)
  BY <1>1, <1>2, GCallFacts DEF RoleStep, GInv, IInv, TypeOK, TaskState, Absent
<1> QED
  BY <1>1, <1>3, <1>4, FrameInductive DEF GStep

LEMMA GLoopInductive ==
    ASSUME GInv, IInv', NEW p \in Proc, NEW t \in Task,
           \/ Start(p, t) \/ LoopPark(p, t) \/ LoopUnpark(p, t)
           \/ LoopSuspend(p, t) \/ LoopQuit(t)
           \/ \E s \in {"Complete", "Failed"} : LoopFinish(p, t, s)
    PROVE  GInv'
<1> USE DEF UpdateIfNotTerminal, LoopCalls, TaskState
<1>1. ASSUME UNCHANGED <<call, edges, fresh, tasks>>, ~Unborn(t),
             \A u \in Task \ {t} : starting'[u] = starting[u] /\ live'[u] = live[u]
      PROVE  GInv'
  BY <1>1, GQuietInductive, GCallFacts
<1>2. CASE Start(p, t)
  <2>1. /\ UNCHANGED fresh /\ ~Unborn(t)
        /\ \A u \in Task \ {t} : starting'[u] = starting[u] /\ live'[u] = live[u]
    BY <1>2, GCallFacts DEF Start, runVars, GInv, IInv, TypeOK
  <2> QED
    BY <1>1, <1>2, <2>1, GUpdateInductive DEF Start, NoUpdate, graphVars
<1>3. ASSUME LoopCalls(t)
      PROVE  /\ ~Unborn(t)
             /\ \A u \in Task \ {t} : starting'[u] = starting[u] /\ live'[u] = live[u]
  BY <1>3, GCallFacts DEF GInv, IInv, TypeOK
<1>4. CASE LoopPark(p, t)
  <2>1. PICK q \in {t, None} : UpdateState(p, t, "Waiting", "idle", {}, q)
    BY <1>4 DEF LoopPark
  <2> QED
    BY <1>3, <1>4, <2>1, GUpdateInductive DEF LoopPark
<1>5. CASE LoopUnpark(p, t)
  BY <1>3, <1>5, GUpdateInductive DEF LoopUnpark
<1>6. CASE LoopSuspend(p, t)
  BY <1>1, <1>3, <1>6, GUpdateInductive DEF LoopSuspend, NoUpdate, graphVars
<1>7. CASE \E s \in {"Complete", "Failed"} : LoopFinish(p, t, s)
  <2>1. PICK s \in {"Complete", "Failed"} : LoopFinish(p, t, s)
    BY <1>7
  <2> QED
    BY <1>1, <1>3, <2>1, GUpdateInductive DEF LoopFinish, NoUpdate, graphVars
<1>8. CASE LoopQuit(t)
  BY <1>1, <1>3, <1>8 DEF LoopQuit, graphVars
<1> QED
  BY <1>2, <1>4, <1>5, <1>6, <1>7, <1>8

LEMMA GClientInductive ==
    ASSUME GInv, IInv', NEW p \in Proc, NEW t \in Task, ClientCall(p, t)
    PROVE  GInv'
<1> DEFINE c == call'[p]
<1> USE DEF CallRecord, Delegating, BeingEnqueued, BeingPurged, Finishing,
            Completing, graphVars, loopVars, runVars
<1>1. CASE Submit(p, t) \/ RegisterExternal(p, t)
  <2>1. /\ UNCHANGED <<edges, starting, live>> /\ Goto(p, c)
        /\ call[p].pc = "idle" /\ t \in fresh /\ fresh' = fresh \ {t}
        /\ c.loop = None
        /\ c.pc \in {"count", "insert"} \/ (c.pc = "persist" /\ c.cont = "spawn")
        /\ c.task = t
        /\ tasks' = tasks \/ tasks' = [tasks EXCEPT ![t] = "Queued"]
    <3>1. CASE Submit(p, t)
      BY <3>1 DEF Submit, At, Goto, GInv, IInv, TypeOK, Enqueueing, Idle
    <3>2. CASE RegisterExternal(p, t)
      BY <3>2 DEF RegisterExternal, At, Goto, GInv, IInv, TypeOK, Persisting, Idle
    <3> QED
      BY <1>1, <3>1, <3>2
  <2>2. BornStep(p, c) /\ DelegStep(p, c) /\ GrowStep(p, c)
    BY <2>1, GCallFacts, NoneAssumption
       DEF BornStep, DelegStep, GrowStep, GInv, IInv, TypeOK
  <2>3. RoleStep(p, c)
    BY <2>1 DEF RoleStep, GInv, IInv, TypeOK, Absent
  <2> QED
    BY <2>1, <2>2, <2>3, FrameInductive DEF GStep
<1>2. CASE Requeue(p, t) \/ Resume(p, t)
  <2>1. /\ UNCHANGED <<edges, starting, live, fresh>> /\ Goto(p, c)
        /\ call[p].pc = "idle" /\ ~Unborn(t)
        /\ c.loop = None /\ c.pc \in {"push", "resume"} /\ c.task = t
        /\ tasks' = tasks \/ tasks' = [tasks EXCEPT ![t] = "Queued"]
    <3>1. CASE Requeue(p, t)
      BY <3>1, GCallFacts
         DEF Requeue, Commanded, At, Goto, GInv, IInv, TypeOK, Idle, Parked, Absent
    <3>2. CASE Resume(p, t)
      BY <3>2 DEF Resume, Commanded, At, Goto, GInv, IInv, TypeOK, Idle, Unborn
    <3> QED
      BY <1>2, <3>1, <3>2
  <2>2. BornStep(p, c) /\ DelegStep(p, c) /\ GrowStep(p, c)
    BY <2>1, GCallFacts, NoneAssumption
       DEF BornStep, DelegStep, GrowStep, GInv, IInv, TypeOK
  <2>3. RoleStep(p, c)
    BY <2>1 DEF RoleStep, GInv, IInv, TypeOK, Absent
  <2> QED
    BY <2>1, <2>2, <2>3, FrameInductive DEF GStep
<1>3. CASE Deny(p, t) \/ Cancel(p, t)
  BY <1>3, GUpdateInductive
     DEF Deny, Cancel, UpdateIfNotTerminal, Commanded, TaskState
<1> QED
  BY <1>1, <1>2, <1>3 DEF ClientCall

(* The timeout checker, the completion of a dependency, the wakes.         *)
LEMMA GWakeInductive ==
    ASSUME GInv, IInv', NEW p \in Proc,
           \/ \E S \in SUBSET Task : CheckTimeouts(p, S)
           \/ \E t \in Task : SweepPersist(p, t) \/ Wake(p, t)
           \/ WakeDone(p)
    PROVE  GInv'
<1> DEFINE c == call'[p]
<1> USE DEF CallRecord, Delegating, BeingEnqueued, BeingPurged, Finishing,
            Completing, graphVars, loopVars, runVars
<1> DEFINE Plain ==
             /\ UNCHANGED <<edges, fresh, starting, live>> /\ Goto(p, c)
             /\ call[p].pc \in {"idle", "sweep", "wake"}
             /\ c.pc \in {"idle", "sweep", "depend", "wake", "push", "pdelete"}
             /\ ~Unborn(c.task)
             /\ c.loop \in {call[p].loop, None}
             /\ \A t \in Task :
                   \/ tasks'[t] = tasks[t]
                   \/ tasks[t] # Absent /\ tasks'[t] \in {"Failed", "Queued"}
<1>0. ~Unborn(call[p].task)
  BY GCallFacts
<1>1. Plain
  <2>1. ASSUME NEW S \in SUBSET Task, CheckTimeouts(p, S)
        PROVE  Plain
    BY <2>1, GCallFacts
       DEF CheckTimeouts, Commanded, At, Goto, GInv, IInv, TypeOK, Idle, Parked, Absent
  <2>2. ASSUME NEW t \in Task, SweepPersist(p, t)
        PROVE  Plain
    <3>1. /\ c = [call[p] EXCEPT
                    !.waiters = @ \ {t},
                    !.pc = IF call[p].waiters = {t} THEN "depend" ELSE "sweep"]
          /\ call[p].pc = "sweep" /\ Goto(p, c)
          /\ UNCHANGED <<tasks, edges, fresh, starting, live>>
      BY <2>2 DEF SweepPersist, At, Goto, GInv, IInv, TypeOK
    <3>2. /\ c.pc \in {"depend", "sweep"}
          /\ c.task = call[p].task /\ c.loop = call[p].loop
      BY <3>1, GCallFacts
    <3> QED
      BY <1>0, <3>1, <3>2
  <2>3. ASSUME NEW t \in Task, Wake(p, t)
        PROVE  Plain
    <3>1. CASE tasks[t] \in Parked
      <4>1. /\ c = [call[p] EXCEPT !.pc = "push", !.task = t,
                      !.snap = "Queued", !.cont = "wake", !.waiters = @ \ {t}]
            /\ call[p].pc = "wake" /\ Goto(p, c)
            /\ tasks' = [tasks EXCEPT ![t] = "Queued"]
            /\ UNCHANGED <<edges, fresh, starting, live>>
        BY <2>3, <3>1 DEF Wake, At, Goto, GInv, IInv, TypeOK
      <4>2. c.pc = "push" /\ c.task = t /\ c.loop = call[p].loop
        BY <4>1, GCallFacts
      <4>3. tasks[t] # Absent /\ ~Unborn(t)
        BY <3>1, GCallFacts DEF Parked, Absent
      <4> QED
        BY <4>1, <4>2, <4>3 DEF GInv, IInv, TypeOK
    <3>2. CASE tasks[t] \notin Parked
      <4>1. /\ c = [call[p] EXCEPT !.waiters = @ \ {t}]
            /\ call[p].pc = "wake" /\ Goto(p, c)
            /\ UNCHANGED <<tasks, edges, fresh, starting, live>>
        BY <2>3, <3>2 DEF Wake, At, Goto, GInv, IInv, TypeOK
      <4>2. c.pc = "wake" /\ c.task = call[p].task /\ c.loop = call[p].loop
        BY <4>1, GCallFacts
      <4> QED
        BY <1>0, <4>1, <4>2
    <3> QED
      BY <3>1, <3>2
  <2>4. ASSUME WakeDone(p)
        PROVE  Plain
    BY <2>4, GCallFacts DEF WakeDone, At, Goto, GInv, IInv, TypeOK, Idle
  <2> QED
    BY <2>1, <2>2, <2>3, <2>4
<1>2. BornStep(p, c) /\ DelegStep(p, c) /\ GrowStep(p, c)
  BY <1>1, GCallFacts, NoneAssumption
     DEF BornStep, DelegStep, GrowStep, GInv, IInv, TypeOK
<1>3. RoleStep(p, c)
  BY <1>1 DEF RoleStep, GInv, IInv, TypeOK, Absent
<1> QED
  BY <1>1, <1>2, <1>3, FrameInductive DEF GStep

(* complete_dependency takes out the edges of the task it completes, so    *)
(* that the call is free to go on.                                         *)
LEMMA GCompleteInductive ==
    ASSUME GInv, IInv', NEW p \in Proc, NEW t \in Task, CompleteDependency(p, t)
    PROVE  GInv'
<1> DEFINE c == call'[p]
<1> USE DEF CallRecord, Delegating, BeingEnqueued, BeingPurged, Finishing,
            Completing, loopVars, runVars
<1>1. /\ c = [call[p] EXCEPT !.pc = "wake", !.todo = @ \ {t},
                             !.waiters = Dependents(edges, t)]
      /\ call[p].pc = "depend" /\ Goto(p, c)
      /\ edges' = RemoveEdges(edges, {t})
      /\ UNCHANGED <<tasks, fresh, starting, live>>
  BY DEF CompleteDependency, At, Goto, GInv, IInv, TypeOK
<1>2. /\ c.pc = "wake" /\ c.task = call[p].task /\ c.loop = call[p].loop
      /\ edges' \subseteq edges /\ \A e \in edges' : e[2] # t
      /\ UNCHANGED <<tasks, fresh, starting, live>>
  BY <1>1, GCallFacts DEF RemoveEdges
<1>3. BornStep(p, c) /\ DelegStep(p, c) /\ GrowStep(p, c)
  BY <1>2, GCallFacts DEF BornStep, DelegStep, GrowStep
<1>4. RoleStep(p, c)
  <2>1. \A u \in Task \ {t} : ~Finishing(call[p], u)
    <3>1. SUFFICES ASSUME NEW u \in Task \ {t}, call[p].todo = {u}
                   PROVE  FALSE
      OBVIOUS
    <3>2. t \in call[p].todo
      BY DEF CompleteDependency
    <3> QED
      BY <3>1, <3>2
  <2> QED
    BY <1>1, <1>2, <2>1 DEF RoleStep
<1>5. NoWaitCycle'
  BY <1>2, ReachesMonotone DEF GInv, NoWaitCycle
<1> QED
  BY <1>1, <1>3, <1>4, <1>5, GStepInductive DEF GStep

LEMMA GPurgeInductive ==
    ASSUME GInv, IInv', NEW p \in Proc,
           \/ \E a \in Agent, ss \in SUBSET PurgeStates : Purge(p, a, ss)
           \/ PurgeHeap(p) \/ PurgeChildren(p) \/ PurgeGraph(p)
           \/ PurgeRows(p)
    PROVE  GInv'
<1> DEFINE c == call'[p]
<1> USE DEF CallRecord, Delegating, BeingEnqueued, BeingPurged, Finishing,
            Completing, graphVars, loopVars, runVars
<1>1. ASSUME NEW a \in Agent, NEW ss \in SUBSET PurgeStates, Purge(p, a, ss)
      PROVE  GInv'
  <2> DEFINE doomed == Doomed(a, ss)
  <2>1. /\ c = [Idle EXCEPT !.pc = "pheap", !.todo = doomed, !.purge = TRUE]
        /\ Goto(p, c) /\ call[p].pc = "idle"
        /\ tasks' = [t \in Task |-> IF t \in doomed THEN Absent ELSE tasks[t]]
        /\ UNCHANGED <<edges, fresh, starting, live>>
    BY <1>1 DEF Purge, Commanded, Goto, GInv, IInv, TypeOK, At
  <2>2. c.pc = "pheap" /\ c.task = None /\ c.loop = None /\ c.todo = doomed
    BY <2>1 DEF Idle
  <2>3. BornStep(p, c) /\ DelegStep(p, c) /\ GrowStep(p, c)
    BY <2>1, <2>2, GCallFacts, NoneAssumption DEF BornStep, DelegStep, GrowStep
  <2>4. RoleStep(p, c)
    BY <2>1, <2>2 DEF RoleStep, Absent
  <2> QED
    BY <2>1, <2>3, <2>4, FrameInductive DEF GStep
<1>2. CASE PurgeHeap(p) \/ PurgeChildren(p)
  <2>1. PICK l \in {"pchild", "pgraph"} :
           /\ c = [call[p] EXCEPT !.pc = l]
           /\ call[p].pc \in {"pheap", "pchild"} /\ Goto(p, c)
           /\ UNCHANGED <<tasks, edges, fresh, starting, live>>
    BY <1>2 DEF PurgeHeap, PurgeChildren, Goto, GInv, IInv, TypeOK, At
  <2>2. /\ c.pc \in {"pchild", "pgraph"} /\ c.task = call[p].task
        /\ c.loop = call[p].loop /\ c.todo = call[p].todo
    BY <2>1, GCallFacts
  <2>3. BornStep(p, c) /\ DelegStep(p, c) /\ GrowStep(p, c)
    BY <2>1, <2>2, GCallFacts DEF BornStep, DelegStep, GrowStep
  <2>4. RoleStep(p, c)
    BY <2>1, <2>2 DEF RoleStep
  <2> QED
    BY <2>1, <2>3, <2>4, FrameInductive DEF GStep
<1>3. CASE PurgeGraph(p)
  <2> DEFINE doomed == call[p].todo
  <2>1. /\ c = [call[p] EXCEPT
                  !.pc = "wake",
                  !.waiters = UNION {Dependents(edges, d) : d \in doomed} \ doomed]
        /\ call[p].pc = "pgraph" /\ Goto(p, c)
        /\ edges' = RemoveEdges(edges, doomed)
        /\ UNCHANGED <<tasks, fresh, starting, live>>
    BY <1>3 DEF PurgeGraph, At, Goto, GInv, IInv, TypeOK
  <2>2. /\ c.pc = "wake" /\ c.task = call[p].task /\ c.loop = call[p].loop
        /\ edges' \subseteq edges /\ \A e \in edges' : e[2] \notin doomed
    BY <2>1, GCallFacts DEF RemoveEdges
  <2>3. BornStep(p, c) /\ DelegStep(p, c) /\ GrowStep(p, c)
    BY <2>1, <2>2, GCallFacts DEF BornStep, DelegStep, GrowStep
  <2>4. RoleStep(p, c)
    BY <2>1, <2>2 DEF RoleStep
  <2>5. NoWaitCycle'
    BY <2>2, ReachesMonotone DEF GInv, NoWaitCycle
  <2> QED
    BY <2>1, <2>3, <2>4, <2>5, GStepInductive DEF GStep
<1>4. CASE PurgeRows(p)
  <2>1. /\ c = Idle /\ call[p].pc = "pdelete" /\ Goto(p, c)
        /\ UNCHANGED <<tasks, edges, fresh, starting, live>>
    BY <1>4 DEF PurgeRows, At, Goto, GInv, IInv, TypeOK
  <2>2. BornStep(p, c) /\ DelegStep(p, c) /\ GrowStep(p, c)
    BY <2>1, GCallFacts, NoneAssumption DEF BornStep, DelegStep, GrowStep, Idle
  <2>3. RoleStep(p, c)
    BY <2>1 DEF RoleStep
  <2> QED
    BY <2>1, <2>2, <2>3, FrameInductive DEF GStep
<1> QED
  BY <1>1, <1>2, <1>3, <1>4

(* A delegation: the edge leads to an unborn task, and that its task waits *)
(* for nobody is why the edge closes no cycle, whether or not the cycle    *)
(* check is made.                                                          *)
LEMMA GDelegateInductive ==
    ASSUME GInv, IInv', NEW p \in Proc,
           \/ \E t, d \in Task : Delegate(p, t, d)
           \/ AddDependency(p) \/ RegisterChild(p) \/ ParkParent(p)
           \/ EnqueueChild(p) \/ ResumeEnqueue(p)
    PROVE  GInv'
<1> DEFINE c == call'[p]
<1> USE DEF CallRecord, Delegating, BeingEnqueued, BeingPurged, Finishing,
            Completing, graphVars, loopVars, runVars
<1>1. ASSUME NEW t \in Task, NEW d \in Task, Delegate(p, t, d)
      PROVE  GInv'
  <2>1. /\ c = [Idle EXCEPT !.pc = "dedge", !.task = t, !.todo = {d}]
        /\ Goto(p, c) /\ call[p].pc = "idle" /\ d \in fresh
        /\ live[t] > 0 /\ live' = [live EXCEPT ![t] = @ - 1]
        /\ fresh' = fresh \ {d}
        /\ UNCHANGED <<tasks, edges, starting>>
    BY <1>1 DEF Delegate, LoopCalls, Goto, GInv, IInv, TypeOK, At
  <2>2. /\ c.pc = "dedge" /\ c.task = t /\ c.todo = {d} /\ c.loop = None
        /\ ~Unborn(t)
    BY <2>1, GCallFacts DEF Idle
  <2>3. BornStep(p, c)
    BY <2>1, <2>2, GCallFacts, NoneAssumption DEF BornStep, GInv, IInv, TypeOK
  <2>4. DelegStep(p, c) /\ GrowStep(p, c)
    BY <2>1, <2>2 DEF DelegStep, GrowStep
  <2>5. RoleStep(p, c)
    BY <2>1, <2>2 DEF RoleStep
  <2> QED
    BY <2>1, <2>3, <2>4, <2>5, FrameInductive DEF GStep
<1>2. CASE AddDependency(p)
  <2> DEFINE t == call[p].task
  <2>1. /\ c = [call[p] EXCEPT !.pc = "dchild"]
        /\ call[p].pc = "dedge" /\ Goto(p, c)
        /\ edges' = edges \cup ({t} \X call[p].todo)
        /\ UNCHANGED <<tasks, fresh, starting, live>>
    BY <1>2 DEF AddDependency, Goto, GInv, IInv, TypeOK, At
  <2>2. /\ c.pc = "dchild" /\ c.task = t /\ c.loop = call[p].loop
        /\ c.todo = call[p].todo
    BY <2>1, GCallFacts
  <2>3. PICK d \in Task : call[p].todo = {d} /\ Unborn(d)
    BY <2>1, GCallFacts
  <2>4. t \in Task /\ edges' = edges \cup {<<t, d>>}
    BY <2>1, <2>3, GCallFacts DEF OfTask
  <2>5. BornStep(p, c) /\ DelegStep(p, c) /\ GrowStep(p, c)
    BY <2>1, <2>2, <2>3, <2>4, GCallFacts DEF BornStep, DelegStep, GrowStep
  <2>6. RoleStep(p, c)
    BY <2>1, <2>2 DEF RoleStep
  <2>7. NoWaitCycle'
    <3>1. t # d /\ \A e \in edges : e[1] # d
      BY <2>3 DEF GInv, UnbornInv
    <3> QED
      BY <2>4, <3>1, LeafEdgeClosesNoCycle DEF GInv, IInv, TypeOK, NoWaitCycle
  <2> QED
    BY <2>1, <2>5, <2>6, <2>7, GStepInductive DEF GStep
<1>3. CASE RegisterChild(p) \/ ParkParent(p)
  <2> DEFINE t == call[p].task
  <2>1. /\ call[p].pc \in {"dchild", "dpark"} /\ Goto(p, c)
        /\ c.pc \in {"dpark", "denq"} \/ (c.pc = "persist" /\ c.cont = "denq")
        /\ c.task = t /\ c.todo = call[p].todo /\ c.loop \in {call[p].loop, t, None}
        /\ UNCHANGED <<edges, fresh, starting, live>>
        /\ tasks' = tasks \/ (/\ tasks' = [tasks EXCEPT ![t] = "Waiting"]
                              /\ tasks[t] # Absent)
    <3>1. CASE RegisterChild(p)
      BY <3>1, GCallFacts DEF RegisterChild, Goto, GInv, IInv, TypeOK, At
    <3>2. CASE ParkParent(p)
      <4>1. CASE tasks[t] \in Terminal \cup {Absent}
        <5>1. /\ c = [call[p] EXCEPT !.pc = "denq", !.loop = t]
              /\ call[p].pc = "dpark" /\ Goto(p, c)
              /\ UNCHANGED <<tasks, edges, fresh, starting, live>>
          BY <3>2, <4>1 DEF ParkParent, Goto, GInv, IInv, TypeOK, At
        <5> QED
          BY <5>1, GCallFacts
      <4>2. CASE tasks[t] \notin Terminal \cup {Absent}
        <5>1. /\ c = Persisting(t, "Waiting", "denq", call[p].todo, None)
              /\ call[p].pc = "dpark" /\ Goto(p, c)
              /\ tasks' = [tasks EXCEPT ![t] = "Waiting"]
              /\ UNCHANGED <<edges, fresh, starting, live>>
          BY <3>2, <4>2 DEF ParkParent, Goto, GInv, IInv, TypeOK, At
        <5>2. /\ c.pc = "persist" /\ c.cont = "denq" /\ c.task = t
              /\ c.todo = call[p].todo /\ c.loop = None
          BY <5>1 DEF Persisting, Idle
        <5> QED
          BY <4>2, <5>1, <5>2
      <4> QED
        BY <4>1, <4>2
    <3> QED
      BY <1>3, <3>1, <3>2
  <2>2. BornStep(p, c) /\ DelegStep(p, c) /\ GrowStep(p, c)
    BY <2>1, GCallFacts, NoneAssumption
       DEF BornStep, DelegStep, GrowStep, GInv, IInv, TypeOK
  <2>3. RoleStep(p, c)
    BY <2>1 DEF RoleStep, GInv, IInv, TypeOK, Absent
  <2> QED
    BY <2>1, <2>2, <2>3, FrameInductive DEF GStep
<1>4. CASE EnqueueChild(p)
  <2>1. PICK d \in call[p].todo : Goto(p, Enqueueing(d, call[p].loop))
    BY <1>4 DEF EnqueueChild
  <2>2. /\ c = Enqueueing(d, call[p].loop) /\ Goto(p, c) /\ call[p].pc = "denq"
        /\ UNCHANGED <<tasks, edges, fresh, starting, live>>
    BY <1>4, <2>1 DEF EnqueueChild, Goto, GInv, IInv, TypeOK, At
  <2>3. c.pc \in {"count", "insert"} /\ c.task = d /\ c.loop = call[p].loop
    BY <2>2 DEF Enqueueing, Idle
  <2>4. call[p].todo = {d}
    BY <2>2, GCallFacts
  <2>5. BornStep(p, c) /\ DelegStep(p, c) /\ GrowStep(p, c)
    BY <2>2, <2>3, <2>4, GCallFacts DEF BornStep, DelegStep, GrowStep
  <2>6. RoleStep(p, c)
    BY <2>2, <2>3, <2>4 DEF RoleStep
  <2> QED
    BY <2>2, <2>5, <2>6, FrameInductive DEF GStep
<1>5. CASE ResumeEnqueue(p)
  <2>1. /\ c = Enqueueing(call[p].task, None) /\ Goto(p, c)
        /\ call[p].pc = "resume"
        /\ UNCHANGED <<tasks, edges, fresh, starting, live>>
    BY <1>5 DEF ResumeEnqueue, Goto, GInv, IInv, TypeOK, At
  <2>2. c.pc \in {"count", "insert"} /\ c.task = call[p].task /\ c.loop = None
    BY <2>1 DEF Enqueueing, Idle
  <2>3. BornStep(p, c) /\ DelegStep(p, c) /\ GrowStep(p, c)
    BY <2>1, <2>2, GCallFacts, NoneAssumption DEF BornStep, DelegStep, GrowStep
  <2>4. RoleStep(p, c)
    BY <2>1 DEF RoleStep
  <2> QED
    BY <2>1, <2>3, <2>4, FrameInductive DEF GStep
<1> QED
  BY <1>1, <1>2, <1>3, <1>4, <1>5

LEMMA GCascadeInductive ==
    ASSUME GInv, IInv', NEW p \in Proc,
           \/ CascadeChildren(p) \/ CascadeDone(p)
           \/ \E t \in Task : CascadeCancel(p, t)
    PROVE  GInv'
<1> DEFINE c == call'[p]
<1> USE DEF CallRecord, Delegating, BeingEnqueued, BeingPurged, Finishing,
            Completing, graphVars, loopVars, runVars
<1> DEFINE Plain ==
             /\ UNCHANGED <<edges, fresh, starting, live>> /\ Goto(p, c)
             /\ call[p].pc \in {"cascade", "cancel"}
             /\ \/ c.pc \in {"idle", "cancel"}
                \/ c.pc = "persist" /\ c.cont = "cascade"
             /\ ~Unborn(c.task)
             /\ c.loop \in {call[p].loop, None}
             /\ \A t \in Task :
                   \/ tasks'[t] = tasks[t]
                   \/ tasks[t] # Absent /\ tasks'[t] = "Cancelled"
<1>0. ~Unborn(call[p].task)
  BY GCallFacts
<1>1. Plain
  <2>1. CASE CascadeChildren(p)
    <3>1. /\ c = [call[p] EXCEPT !.pc = "cancel",
                                 !.todo = @ \cup children[call[p].task]]
          /\ call[p].pc = "cascade" /\ Goto(p, c)
          /\ UNCHANGED <<tasks, edges, fresh, starting, live>>
      BY <2>1 DEF CascadeChildren, At, Goto, GInv, IInv, TypeOK
    <3>2. c.pc = "cancel" /\ c.task = call[p].task /\ c.loop = call[p].loop
      BY <3>1, GCallFacts
    <3> QED
      BY <1>0, <3>1, <3>2
  <2>2. ASSUME NEW t \in Task, CascadeCancel(p, t)
        PROVE  Plain
    <3>1. CASE tasks[t] = Absent
      <4>1. /\ c = [call[p] EXCEPT !.todo = @ \ {t}]
            /\ call[p].pc = "cancel" /\ Goto(p, c)
            /\ UNCHANGED <<tasks, edges, fresh, starting, live>>
        BY <2>2, <3>1 DEF CascadeCancel, At, Goto, GInv, IInv, TypeOK
      <4>2. c.pc = "cancel" /\ c.task = call[p].task /\ c.loop = call[p].loop
        BY <4>1, GCallFacts
      <4> QED
        BY <1>0, <4>1, <4>2
    <3>2. CASE tasks[t] # Absent
      <4>1. /\ c = Persisting(t, "Cancelled", "cascade", call[p].todo \ {t}, None)
            /\ call[p].pc = "cancel" /\ Goto(p, c)
            /\ tasks' = [tasks EXCEPT ![t] = "Cancelled"]
            /\ UNCHANGED <<edges, fresh, starting, live>>
        BY <2>2, <3>2 DEF CascadeCancel, At, Goto, GInv, IInv, TypeOK
      <4>2. /\ c.pc = "persist" /\ c.cont = "cascade" /\ c.task = t
            /\ c.loop = None
        BY <4>1 DEF Persisting, Idle
      <4>3. ~Unborn(t)
        BY <3>2, GCallFacts
      <4> QED
        BY <3>2, <4>1, <4>2, <4>3 DEF GInv, IInv, TypeOK
    <3> QED
      BY <3>1, <3>2
  <2>3. CASE CascadeDone(p)
    BY <2>3, GCallFacts DEF CascadeDone, At, Goto, GInv, IInv, TypeOK, Idle
  <2> QED
    BY <2>1, <2>2, <2>3
<1>2. BornStep(p, c) /\ DelegStep(p, c) /\ GrowStep(p, c)
  BY <1>1, GCallFacts, NoneAssumption
     DEF BornStep, DelegStep, GrowStep, GInv, IInv, TypeOK
<1>3. RoleStep(p, c)
  BY <1>1 DEF RoleStep, GInv, IInv, TypeOK, Absent
<1> QED
  BY <1>1, <1>2, <1>3, FrameInductive DEF GStep

LEMMA GDequeueInductive ==
    ASSUME GInv, IInv',
           DequeueNothing \/ \E paused \in SUBSET Agent, t \in Task : Dequeue(t, paused)
    PROVE  GInv'
<1> USE DEF graphVars, loopVars, runVars
<1>1. CASE DequeueNothing
  BY <1>1, GQuietInductive DEF DequeueNothing, GInv, UnbornInv
<1>2. ASSUME NEW paused \in SUBSET Agent, NEW t \in Task, Dequeue(t, paused)
      PROVE  GInv'
  <2>1. tasks[t] # Absent
    BY <1>2 DEF Dequeue, Runnable, Absent
  <2>2. \A u \in Task : Unborn(u) => starting'[u] = 0 /\ live'[u] = 0
    BY <1>2, <2>1 DEF Dequeue, GInv, UnbornInv, IInv, TypeOK
  <2> QED
    BY <1>2, <2>2, GQuietInductive DEF Dequeue
<1> QED
  BY <1>1, <1>2

(* A crash takes the graph and every call with it.                         *)
LEMMA GRestartInductive ==
    ASSUME GInv, IInv', NEW stale \in SUBSET Task, NEW K \in SUBSET Task,
           Restart(stale, K)
    PROVE  GInv'
<1>1. /\ edges' = {} /\ fresh' = fresh
      /\ \A t \in Task : starting'[t] = 0 /\ live'[t] = 0
      /\ \A p \in Proc : /\ call'[p].pc = "idle" /\ call'[p].task = None
                         /\ call'[p].loop = None
  BY DEF Restart, Idle
<1>2. UnbornInv'
  <2>1. \A t \in fresh' : tasks'[t] = Absent
    BY DEF IInv, FreshInv
  <2> QED
    BY <1>1, <2>1, NoneAssumption DEF UnbornInv, Unborn, Delegating
<1>3. DelegInv' /\ EdgeInv' /\ NoWaitCycle'
  BY <1>1 DEF DelegInv, EdgeInv, NoWaitCycle, Delegating
<1> QED
  BY <1>2, <1>3 DEF GInv

LEMMA GInit == Init => GInv
<1> SUFFICES ASSUME Init PROVE GInv
  OBVIOUS
<1>1. /\ edges = {}
      /\ \A t \in Task : tasks[t] = Absent /\ starting[t] = 0 /\ live[t] = 0
      /\ \A p \in Proc : /\ call[p].pc = "idle" /\ call[p].task = None
                         /\ call[p].loop = None
  BY DEF Init, Idle
<1>2. UnbornInv /\ DelegInv /\ EdgeInv /\ NoWaitCycle
  BY <1>1, NoneAssumption
     DEF UnbornInv, Unborn, DelegInv, EdgeInv, NoWaitCycle, Delegating
<1> QED
  BY <1>2, IInvInit DEF GInv

LEMMA GInductive == GInv /\ [Next]_vars => GInv'
<1> SUFFICES ASSUME GInv, [Next]_vars
             PROVE  GInv'
  OBVIOUS
<1>0. IInv'
  BY IInvInductive DEF GInv
<1>1. CASE \E p \in Proc : Section(p)
  BY <1>0, <1>1, GEnqueueInductive, GPersistInductive, GWakeInductive,
     GCompleteInductive, GPurgeInductive, GDelegateInductive, GCascadeInductive
     DEF Section
<1>2. CASE \E p \in Proc, t \in Task : LoopStep(p, t) \/ ClientCall(p, t)
  BY <1>0, <1>2, GLoopInductive, GDelegateInductive, GClientInductive
     DEF LoopStep
<1>3. CASE \E p \in Proc, S \in SUBSET Task : CheckTimeouts(p, S)
  BY <1>0, <1>3, GWakeInductive
<1>4. CASE \E p \in Proc, a \in Agent, ss \in SUBSET (PurgeStates \cap States) :
              Purge(p, a, ss)
  BY <1>0, <1>4, GPurgeInductive
<1>5. CASE DequeueNothing \/ \E paused \in SUBSET Agent, t \in Task : Dequeue(t, paused)
  BY <1>0, <1>5, GDequeueInductive
<1>6. CASE \E stale, K \in SUBSET Task : Restart(stale, K)
  BY <1>0, <1>6, GRestartInductive
<1>7. CASE UNCHANGED vars
  BY <1>0, <1>7, GQuietInductive DEF vars, GInv, UnbornInv
<1> QED
  BY <1>1, <1>2, <1>3, <1>4, <1>5, <1>6, <1>7 DEF Next

(* Every edge of the delegation graph will be taken out: it leads to a     *)
(* task that is alive, or failed or cancelled, unless the call that        *)
(* enqueues the task or that takes out its edges is on its way.            *)
THEOREM EdgesLeadToTasksToCome == Spec => []NoDanglingEdge
<1>1. GInv => NoDanglingEdge
  BY DEF GInv, EdgeInv, NoDanglingEdge, Finishing
<1> QED
  BY GInit, GInductive, <1>1, PTL DEF Spec

(* No delegations, however they interleave, leave tasks that wait for one  *)
(* another in a circle.  The proof does not use the cycle check of         *)
(* handle_task_delegation (see CycleCheckNeverRefuses).                    *)
THEOREM DelegationsMakeNoCycle == Spec => []NoWaitCycle
<1>1. GInv => NoWaitCycle
  BY DEF GInv
<1> QED
  BY GInit, GInductive, <1>1, PTL DEF Spec

(* A child is minted for its delegation, so the check of a running task's  *)
(* delegation never refuses it.                                            *)
LEMMA CycleCheckNeverRefuses ==
    ASSUME GInv, NEW t \in Task, NEW d \in fresh, live[t] > 0
    PROVE  ~WouldCreateCycle(edges, t, d)
<1>1. d \in Task /\ Unborn(d)
  BY DEF GInv, IInv, TypeOK, Unborn
<1>2. t # d /\ \A e \in edges : e[1] # d
  BY <1>1 DEF GInv, UnbornInv
<1>3. /\ {d} \in SUBSET Task /\ d \in {d} /\ t \notin {d}
      /\ \A e \in edges : e[1] \in {d} => e[2] \in {d}
  BY <1>1, <1>2
<1> QED
  BY <1>2, <1>3 DEF WouldCreateCycle, Reaches

----------------------------------------------------------------------------
(* One call at a time.  When calls overlap, a resume that runs into a      *)
(* purge can strand its task, and a late snapshot can overwrite a newer    *)
(* row.  A single caller loses neither: at each section of a call, the row *)
(* of a task is what the map says unless this call has still to write it.  *)

SerialOK(c, T, R) ==
    /\ c.pc \in {"push", "persist"} => c.snap = T[c.task]
    /\ c.pc = "sweep" => \A t \in c.waiters : T[t] = "Failed"
    /\ c.purge => \A t \in c.todo : T[t] = Absent
    /\ \A t \in Task :
          \/ R[t] = T[t]
          \/ c.pc \in {"push", "persist"} /\ c.task = t
          \/ c.pc = "sweep" /\ t \in c.waiters
          \/ c.purge /\ t \in c.todo

ReachOK(c, T, h, s) ==
    \A t \in Task : T[t] = "Queued" => h[t] > 0 \/ s[t] > 0 \/ Carries(c, t)

SInv ==
    /\ IInv
    /\ \A p \in Proc : /\ SerialOK(call[p], tasks, rows)
                       /\ ReachOK(call[p], tasks, heap, starting)

LEMMA SStepInductive ==
    ASSUME NEW p, Proc = {p}, SInv, IInv', NEW c, Goto(p, c),
           SerialOK(c, tasks', rows'), ReachOK(c, tasks', heap', starting')
    PROVE  SInv'
<1>1. call'[p] = c
  BY DEF SInv, IInv, TypeOK, Goto
<1> QED
  BY <1>1 DEF SInv, SerialOK, ReachOK, Carries

(* What the invariant says of the one caller.                              *)
LEMMA SCallFacts ==
    ASSUME NEW p, Proc = {p}, SInv
    PROVE  /\ p \in Proc /\ call[p] \in CallRecord /\ CallOK(call[p])
           /\ call[p].pc \in OfTask => call[p].task \in Task
           /\ SerialOK(call[p], tasks, rows)
           /\ ReachOK(call[p], tasks, heap, starting)
BY CallFacts DEF SInv

(* The call goes on without touching what the two invariants relate.       *)
LEMMA SQuietInductive ==
    ASSUME NEW p, Proc = {p}, SInv, IInv', NEW c, Goto(p, c),
           UNCHANGED <<tasks, rows, heap, starting>>,
           call[p].pc \notin {"push", "persist", "sweep"},
           call[p].pc = "spawn" => tasks[call[p].task] # "Queued",
           c.pc \notin {"push", "persist", "sweep"},
           c.purge <=> call[p].purge,
           call[p].purge => c.todo = call[p].todo
    PROVE  SInv'
<1>1. SerialOK(c, tasks', rows')
  BY SCallFacts DEF SerialOK
<1>2. ReachOK(c, tasks', heap', starting')
  BY SCallFacts DEF ReachOK, Carries
<1> QED
  BY <1>1, <1>2, SStepInductive

(* The call stores a state of t and has still to persist it.               *)
LEMMA SStoreInductive ==
    ASSUME NEW p, Proc = {p}, SInv, IInv', NEW c, Goto(p, c),
           NEW t \in Task, NEW s, tasks' = [tasks EXCEPT ![t] = s],
           UNCHANGED <<rows, heap>>,
           \A u \in Task \ {t} : starting'[u] = starting[u],
           call[p].pc \notin {"push", "persist", "sweep"},
           call[p].pc = "spawn" => call[p].task = t,
           c.pc \in {"push", "persist"}, c.task = t, c.snap = s,
           s = "Queued" => \/ Carries(c, t)
                           \/ tasks[t] = "Queued" /\ starting'[t] = starting[t]
                              /\ call[p].pc # "spawn",
           c.purge => call[p].purge /\ c.todo = call[p].todo /\ tasks[t] # Absent,
           call[p].purge => c.purge
    PROVE  SInv'
<1>1. tasks'[t] = s /\ \A u \in Task \ {t} : tasks'[u] = tasks[u]
  BY DEF SInv, IInv, TypeOK
<1>2. c.purge => t \notin c.todo
  BY SCallFacts DEF SerialOK
<1>3. c.purge => c.todo \subseteq Task
  BY SCallFacts DEF CallRecord
<1>4. SerialOK(c, tasks', rows')
  BY <1>1, <1>2, <1>3, SCallFacts DEF SerialOK
<1>5. ReachOK(c, tasks', heap', starting')
  BY <1>1, SCallFacts DEF ReachOK, Carries
<1> QED
  BY <1>4, <1>5, SStepInductive

(* Steps of the dispatcher and of loops that leave the map alone.          *)
LEMMA SDispatchInductive ==
    ASSUME NEW p, Proc = {p}, SInv, IInv', UNCHANGED <<call, tasks, rows>>,
           \A t \in Task : tasks[t] = "Queued" =>
               \/ heap'[t] > 0 \/ starting'[t] > 0
               \/ heap'[t] = heap[t] /\ starting'[t] = starting[t]
    PROVE  SInv'
<1>1. SerialOK(call'[p], tasks', rows')
  BY SCallFacts DEF SerialOK
<1>2. ReachOK(call'[p], tasks', heap', starting')
  BY SCallFacts DEF ReachOK, Carries
<1> QED
  BY <1>1, <1>2 DEF SInv

LEMMA SEnqueueInductive ==
    ASSUME NEW p, Proc = {p}, SInv, IInv',
           \/ EnqueueCount(p) \/ EnqueueReject(p) \/ EnqueueInsert(p)
           \/ Push(p) \/ Persist(p) \/ Spawn(p) \/ MarkStarted(p)
    PROVE  SInv'
<1> DEFINE c == call'[p]
           t == call[p].task
<1> USE DEF CallRecord, Carries, CallOK, graphVars, loopVars, runVars
<1>1. CASE EnqueueCount(p)
  <2>1. /\ c = [call[p] EXCEPT !.pc = c.pc] /\ c.pc \in {"reject", "insert"}
        /\ call[p].pc = "count" /\ Goto(p, c)
        /\ UNCHANGED <<tasks, heap, rows, starting>>
    BY <1>1, SCallFacts DEF EnqueueCount, At, Goto, SInv, IInv, TypeOK
  <2>2. c.purge = call[p].purge /\ c.todo = call[p].todo
    BY <2>1, SCallFacts
  <2> QED
    BY <2>1, <2>2, SQuietInductive
<1>2. CASE EnqueueReject(p)
  <2>1. /\ c = Persisting(t, "Failed", "idle", {}, call[p].loop)
        /\ call[p].pc = "reject" /\ Goto(p, c) /\ t \in Task
        /\ tasks' = [tasks EXCEPT ![t] = "Failed"]
        /\ UNCHANGED <<heap, rows, starting>>
    BY <1>2, SCallFacts DEF EnqueueReject, At, Goto, SInv, IInv, TypeOK, OfTask
  <2>2. c.pc = "persist" /\ c.task = t /\ c.snap = "Failed" /\ ~c.purge
    BY <2>1 DEF Persisting, Idle
  <2> QED
    BY <2>1, <2>2, SCallFacts, SStoreInductive
<1>3. CASE EnqueueInsert(p)
  <2>1. /\ c = [call[p] EXCEPT !.pc = "push", !.snap = "Queued"]
        /\ call[p].pc = "insert" /\ Goto(p, c) /\ t \in Task
        /\ tasks' = [tasks EXCEPT ![t] = "Queued"]
        /\ UNCHANGED <<heap, rows, starting>>
    BY <1>3, SCallFacts DEF EnqueueInsert, At, Goto, SInv, IInv, TypeOK, OfTask
  <2>2. c.pc = "push" /\ c.task = t /\ c.snap = "Queued" /\ ~c.purge /\ ~call[p].purge
    BY <2>1, SCallFacts
  <2> QED
    BY <2>1, <2>2, SStoreInductive
<1>4. CASE Push(p)
  <2>1. /\ c = [call[p] EXCEPT !.pc = "persist"]
        /\ call[p].pc = "push" /\ Goto(p, c) /\ t \in Task
        /\ heap' = [heap EXCEPT ![t] = @ + 1]
        /\ UNCHANGED <<tasks, rows, starting>>
    BY <1>4, SCallFacts DEF Push, At, Goto, SInv, IInv, TypeOK, OfTask
  <2>2. /\ c.pc = "persist" /\ c.task = t /\ c.snap = call[p].snap
        /\ c.purge = call[p].purge /\ c.todo = call[p].todo
    BY <2>1, SCallFacts
  <2>3. SerialOK(c, tasks', rows')
    BY <2>1, <2>2, SCallFacts DEF SerialOK
  <2>4. ReachOK(c, tasks', heap', starting')
    BY <2>1, <2>2, SCallFacts DEF ReachOK, SInv, IInv, TypeOK
  <2> QED
    BY <2>1, <2>3, <2>4, SStepInductive
<1>5. CASE Persist(p)
  <2>1. /\ call[p].pc = "persist" /\ Goto(p, c) /\ t \in Task
        /\ rows' = [rows EXCEPT ![t] = call[p].snap]
        /\ UNCHANGED <<tasks, heap, starting>>
    BY <1>5, SCallFacts
       DEF Persist, Return, Continue, At, Goto, SInv, IInv, TypeOK, OfTask
  <2>2. CASE call[p].cont = "idle"
    <3>1. c = Idle
      BY <1>5, <2>2 DEF Persist, Return, Goto, SInv, IInv, TypeOK
    <3>2. c.pc = "idle" /\ ~c.purge /\ ~call[p].purge
      BY <2>1, <2>2, <3>1, SCallFacts DEF Idle
    <3>3. SerialOK(c, tasks', rows')
      BY <2>1, <3>2, SCallFacts DEF SerialOK, SInv, IInv, TypeOK
    <3>4. ReachOK(c, tasks', heap', starting')
      BY <2>1, <2>2, <3>2, SCallFacts DEF ReachOK
    <3> QED
      BY <2>1, <3>3, <3>4, SStepInductive
  <2>3. CASE call[p].cont # "idle"
    <3>1. c = [call[p] EXCEPT !.pc = call[p].cont, !.cont = "idle", !.snap = Absent]
      BY <1>5, <2>3 DEF Persist, Continue, Goto, SInv, IInv, TypeOK
    <3>2. /\ c.pc = call[p].cont /\ c.pc \in Cont /\ c.task = t
          /\ c.purge = call[p].purge /\ c.todo = call[p].todo
      BY <3>1, SCallFacts
    <3>3. SerialOK(c, tasks', rows')
      BY <2>1, <3>2, SCallFacts DEF SerialOK, SInv, IInv, TypeOK, Cont
    <3>4. ReachOK(c, tasks', heap', starting')
      BY <2>1, <3>2, SCallFacts DEF ReachOK
    <3> QED
      BY <2>1, <3>3, <3>4, SStepInductive
  <2> QED
    BY <2>2, <2>3
<1>6. CASE Spawn(p)
  <2>0. call[p].pc = "spawn" /\ t \in Task /\ ~call[p].purge
    BY <1>6, SCallFacts DEF Spawn, At, OfTask
  <2>1. CASE tasks[t] \in Terminal \cup {Absent}
    <3>1. /\ c = [call[p] EXCEPT !.pc = "mark", !.loop = t] /\ Goto(p, c)
          /\ UNCHANGED <<tasks, heap, rows, starting>>
      BY <1>6, <2>1 DEF Spawn, Goto, SInv, IInv, TypeOK
    <3>2. c.pc = "mark" /\ ~c.purge /\ tasks[t] # "Queued"
      BY <2>0, <2>1, <3>1, SCallFacts DEF Terminal, Absent
    <3> QED
      BY <2>0, <3>1, <3>2, SQuietInductive
  <2>2. CASE tasks[t] \notin Terminal \cup {Absent}
    <3>1. /\ c = Persisting(t, "Running", "mark", {}, t) /\ Goto(p, c)
          /\ tasks' = [tasks EXCEPT ![t] = "Running"]
          /\ UNCHANGED <<heap, rows, starting>>
      BY <1>6, <2>2 DEF Spawn, Goto, SInv, IInv, TypeOK
    <3>2. c.pc = "persist" /\ c.task = t /\ c.snap = "Running" /\ ~c.purge
      BY <3>1 DEF Persisting, Idle
    <3> QED
      BY <2>0, <3>1, <3>2, SStoreInductive
  <2> QED
    BY <2>1, <2>2
<1>7. CASE MarkStarted(p)
  <2>0. /\ call[p].pc = "mark" /\ t \in Task /\ ~call[p].purge
        /\ UNCHANGED <<tasks, heap, rows, starting>>
    BY <1>7, SCallFacts DEF MarkStarted, At, OfTask
  <2>1. CASE tasks[t] = Absent
    <3>1. c = Idle /\ Goto(p, c)
      BY <1>7, <2>1 DEF MarkStarted, Return, Goto, SInv, IInv, TypeOK
    <3> QED
      BY <2>0, <3>1, SQuietInductive DEF Idle
  <2>2. CASE tasks[t] # Absent
    <3>1. c = Persisting(t, tasks[t], "idle", {}, t) /\ Goto(p, c)
      BY <1>7, <2>2 DEF MarkStarted, Goto, SInv, IInv, TypeOK
    <3>2. c.pc = "persist" /\ c.task = t /\ c.snap = tasks[t] /\ ~c.purge
      BY <3>1 DEF Persisting, Idle
    <3>3. tasks' = [tasks EXCEPT ![t] = tasks[t]]
      BY <2>0 DEF SInv, IInv, TypeOK
    <3> QED
      BY <2>0, <3>1, <3>2, <3>3, SStoreInductive
  <2> QED
    BY <2>1, <2>2
<1> QED
  BY <1>1, <1>2, <1>3, <1>4, <1>5, <1>6, <1>7

(* A call begins by storing a state that it has still to persist.          *)
LEMMA SUpdateInductive ==
    ASSUME NEW p, Proc = {p}, SInv, IInv', NEW t \in Task,
           NEW s \in TaskState \ {"Queued"}, NEW l, NEW S, NEW q,
           UpdateState(p, t, s, l, S, q),
           \A u \in Task \ {t} : starting'[u] = starting[u]
    PROVE  SInv'
<1> DEFINE c == call'[p]
<1>1. /\ c = Persisting(t, s, l, S, q) /\ Goto(p, c)
      /\ call[p].pc = "idle" /\ ~call[p].purge
      /\ tasks' = [tasks EXCEPT ![t] = s]
      /\ UNCHANGED <<rows, heap>>
  BY SCallFacts DEF UpdateState, Goto, SInv, IInv, TypeOK, At, CallOK
<1>2. c.pc = "persist" /\ c.task = t /\ c.snap = s /\ ~c.purge
  BY <1>1 DEF Persisting, Idle
<1> QED
  BY <1>1, <1>2, SStoreInductive

LEMMA SLoopInductive ==
    ASSUME NEW p, Proc = {p}, SInv, IInv', NEW t \in Task, LoopStep(p, t)
    PROVE  SInv'
<1> USE DEF UpdateIfNotTerminal, LoopCalls, TaskState, graphVars, loopVars, runVars
<1>1. ASSUME NoUpdate(p, t), \A u \in Task \ {t} : starting'[u] = starting[u]
      PROVE  SInv'
  BY <1>1, SDispatchInductive DEF NoUpdate, Terminal, Absent
<1>2. CASE Start(p, t)
  <2>1. \A u \in Task \ {t} : starting'[u] = starting[u]
    BY <1>2 DEF Start, SInv, IInv, TypeOK
  <2> QED
    BY <1>1, <1>2, <2>1, SUpdateInductive DEF Start
<1>3. CASE LoopPark(p, t)
  <2>1. PICK q \in {t, None} : UpdateState(p, t, "Waiting", "idle", {}, q)
    BY <1>3 DEF LoopPark
  <2> QED
    BY <1>3, <2>1, SUpdateInductive DEF LoopPark
<1>4. CASE LoopUnpark(p, t)
  BY <1>4, SUpdateInductive DEF LoopUnpark
<1>5. CASE LoopSuspend(p, t)
  BY <1>1, <1>5, SUpdateInductive DEF LoopSuspend
<1>6. CASE \E s \in {"Complete", "Failed"} : LoopFinish(p, t, s)
  <2>1. PICK s \in {"Complete", "Failed"} : LoopFinish(p, t, s)
    BY <1>6
  <2> QED
    BY <1>1, <2>1, SUpdateInductive DEF LoopFinish
<1>7. CASE LoopQuit(t)
  BY <1>7, SDispatchInductive DEF LoopQuit
<1>8. ASSUME NEW d \in Task, Delegate(p, t, d)
      PROVE  SInv'
  <2> DEFINE c == call'[p]
  <2>1. /\ c = [Idle EXCEPT !.pc = "dedge", !.task = t, !.todo = {d}]
        /\ Goto(p, c) /\ call[p].pc = "idle" /\ ~call[p].purge
        /\ UNCHANGED <<tasks, rows, heap, starting>>
    BY <1>8, SCallFacts DEF Delegate, Goto, SInv, IInv, TypeOK, At, CallOK
  <2> QED
    BY <2>1, SQuietInductive DEF Idle
<1> QED
  BY <1>2, <1>3, <1>4, <1>5, <1>6, <1>7, <1>8 DEF LoopStep

LEMMA SClientInductive ==
    ASSUME NEW p, Proc = {p}, SInv, IInv', NEW t \in Task, ClientCall(p, t)
    PROVE  SInv'
<1> DEFINE c == call'[p]
<1> USE DEF Carries, graphVars, loopVars, runVars, Commanded
<1>0. ASSUME call[p].pc = "idle"
      PROVE  ~call[p].purge
  BY <1>0, SCallFacts DEF CallOK
<1>1. CASE Submit(p, t) \/ Resume(p, t)
  <2>1. /\ c = Enqueueing(t, None) \/ c = [Idle EXCEPT !.pc = "resume", !.task = t]
        /\ Goto(p, c) /\ call[p].pc = "idle"
        /\ UNCHANGED <<tasks, rows, heap, starting>>
    BY <1>1 DEF Submit, Resume, Goto, SInv, IInv, TypeOK, At
  <2>2. c.pc \in {"count", "insert", "resume"} /\ ~c.purge
    <3>1. CASE c = Enqueueing(t, None)
      BY <3>1 DEF Enqueueing, Idle
    <3>2. CASE c = [Idle EXCEPT !.pc = "resume", !.task = t]
      BY <3>2 DEF Idle
    <3> QED
      BY <2>1, <3>1, <3>2
  <2> QED
    BY <1>0, <2>1, <2>2, SQuietInductive
<1>2. CASE RegisterExternal(p, t) \/ Requeue(p, t)
  <2>1. /\ \/ c = Persisting(t, "Queued", "spawn", {}, None)
           \/ c = [Idle EXCEPT !.pc = "push", !.task = t, !.snap = "Queued"]
        /\ Goto(p, c) /\ call[p].pc = "idle"
        /\ tasks' = [tasks EXCEPT ![t] = "Queued"]
        /\ UNCHANGED <<rows, heap, starting>>
    BY <1>2 DEF RegisterExternal, Requeue, Goto, SInv, IInv, TypeOK, At
  <2>2. Carries(c, t) /\ c.pc \in {"push", "persist"} /\ c.snap = "Queued" /\ ~c.purge
    <3>1. CASE c = Persisting(t, "Queued", "spawn", {}, None)
      BY <3>1 DEF Persisting, Idle
    <3>2. CASE c = [Idle EXCEPT !.pc = "push", !.task = t, !.snap = "Queued"]
      BY <3>2 DEF Idle
    <3> QED
      BY <2>1, <3>1, <3>2
  <2> QED
    BY <1>0, <2>1, <2>2, SStoreInductive
<1>3. CASE Deny(p, t) \/ Cancel(p, t)
  BY <1>3, SUpdateInductive DEF Deny, Cancel, UpdateIfNotTerminal, TaskState
<1> QED
  BY <1>1, <1>2, <1>3 DEF ClientCall

LEMMA SWakeInductive ==
    ASSUME NEW p, Proc = {p}, SInv, IInv',
           \/ \E S \in SUBSET Task : CheckTimeouts(p, S)
           \/ \E t \in Task : \/ SweepPersist(p, t) \/ CompleteDependency(p, t)
                              \/ Wake(p, t)
           \/ WakeDone(p)
    PROVE  SInv'
<1> DEFINE c == call'[p]
<1> USE DEF CallRecord, CallOK, Carries, graphVars, loopVars, runVars, Commanded
<1>1. ASSUME NEW S \in SUBSET Task, CheckTimeouts(p, S)
      PROVE  SInv'
  <2>1. /\ c = [Idle EXCEPT !.pc = "sweep", !.todo = S, !.waiters = S]
        /\ Goto(p, c) /\ call[p].pc = "idle"
        /\ tasks' = [t \in Task |-> IF t \in S THEN "Failed" ELSE tasks[t]]
        /\ UNCHANGED <<rows, heap, starting>>
    BY <1>1 DEF CheckTimeouts, At, Goto, SInv, IInv, TypeOK
  <2>2. c.pc = "sweep" /\ c.waiters = S /\ ~c.purge /\ ~call[p].purge
    BY <2>1, SCallFacts DEF Idle
  <2>3. SerialOK(c, tasks', rows')
    BY <2>1, <2>2, SCallFacts DEF SerialOK
  <2>4. ReachOK(c, tasks', heap', starting')
    BY <2>1, SCallFacts DEF ReachOK
  <2> QED
    BY <2>1, <2>3, <2>4, SStepInductive
<1>2. ASSUME NEW t \in Task, SweepPersist(p, t)
      PROVE  SInv'
  <2>1. /\ c = [call[p] EXCEPT
                  !.waiters = @ \ {t},
                  !.pc = IF call[p].waiters = {t} THEN "depend" ELSE "sweep"]
        /\ call[p].pc = "sweep" /\ Goto(p, c) /\ t \in call[p].waiters
        /\ rows' = [rows EXCEPT ![t] = "Failed"]
        /\ UNCHANGED <<tasks, heap, starting>>
    BY <1>2 DEF SweepPersist, At, Goto, SInv, IInv, TypeOK
  <2>2. /\ (c.pc = "depend" /\ call[p].waiters = {t}) \/ c.pc = "sweep"
        /\ c.waiters = call[p].waiters \ {t} /\ ~c.purge /\ ~call[p].purge
    BY <2>1, SCallFacts
  <2>3. SerialOK(c, tasks', rows')
    BY <2>1, <2>2, SCallFacts DEF SerialOK, SInv, IInv, TypeOK
  <2>4. ReachOK(c, tasks', heap', starting')
    BY <2>1, SCallFacts DEF ReachOK
  <2> QED
    BY <2>1, <2>3, <2>4, SStepInductive
<1>3. ASSUME NEW t \in Task, CompleteDependency(p, t)
      PROVE  SInv'
  <2>1. /\ c = [call[p] EXCEPT !.pc = "wake", !.todo = @ \ {t},
                               !.waiters = Dependents(edges, t)]
        /\ call[p].pc = "depend" /\ Goto(p, c)
        /\ UNCHANGED <<tasks, rows, heap, starting>>
    BY <1>3 DEF CompleteDependency, At, Goto, SInv, IInv, TypeOK
  <2>2. c.pc = "wake" /\ ~c.purge /\ ~call[p].purge
    BY <2>1, SCallFacts
  <2> QED
    BY <2>1, <2>2, SQuietInductive
<1>4. ASSUME NEW t \in Task, Wake(p, t)
      PROVE  SInv'
  <2>1. CASE tasks[t] \in Parked
    <3>1. /\ c = [call[p] EXCEPT !.pc = "push", !.task = t,
                    !.snap = "Queued", !.cont = "wake", !.waiters = @ \ {t}]
          /\ call[p].pc = "wake" /\ Goto(p, c) /\ tasks[t] # Absent
          /\ tasks' = [tasks EXCEPT ![t] = "Queued"]
          /\ UNCHANGED <<rows, heap, starting>>
      BY <1>4, <2>1 DEF Wake, At, Goto, SInv, IInv, TypeOK, Parked, Absent
    <3>2. /\ c.pc = "push" /\ c.task = t /\ c.snap = "Queued"
          /\ (c.purge <=> call[p].purge) /\ c.todo = call[p].todo
      BY <3>1, SCallFacts
    <3>3. /\ Carries(c, t) /\ c.pc \in {"push", "persist"}
          /\ call[p].pc \notin {"push", "persist", "sweep", "spawn"}
          /\ \A u \in Task \ {t} : starting'[u] = starting[u]
      BY <3>1, <3>2
    <3> HIDE DEF c
    <3> QED
      BY <3>1, <3>2, <3>3, SStoreInductive
  <2>2. CASE tasks[t] \notin Parked
    <3>1. /\ c = [call[p] EXCEPT !.waiters = @ \ {t}]
          /\ call[p].pc = "wake" /\ Goto(p, c)
          /\ UNCHANGED <<tasks, rows, heap, starting>>
      BY <1>4, <2>2 DEF Wake, At, Goto, SInv, IInv, TypeOK
    <3>2. c.pc = "wake" /\ c.purge = call[p].purge /\ c.todo = call[p].todo
      BY <3>1, SCallFacts
    <3> QED
      BY <3>1, <3>2, SQuietInductive
  <2> QED
    BY <2>1, <2>2
<1>5. CASE WakeDone(p)
  <2>1. /\ \/ c = [call[p] EXCEPT !.pc = "pdelete"] /\ call[p].purge
           \/ c = [call[p] EXCEPT !.pc = "depend"] /\ ~call[p].purge
           \/ c = Idle /\ ~call[p].purge
        /\ call[p].pc = "wake" /\ Goto(p, c)
        /\ UNCHANGED <<tasks, rows, heap, starting>>
    BY <1>5, SCallFacts DEF WakeDone, At, Goto, SInv, IInv, TypeOK
  <2>2. /\ c.pc \in {"pdelete", "depend", "idle"} /\ (c.purge <=> call[p].purge)
        /\ call[p].purge => c.todo = call[p].todo
    <3>1. CASE c = [call[p] EXCEPT !.pc = "pdelete"] /\ call[p].purge
      BY <3>1, SCallFacts
    <3>2. CASE c = [call[p] EXCEPT !.pc = "depend"] /\ ~call[p].purge
      BY <3>2, SCallFacts
    <3>3. CASE c = Idle /\ ~call[p].purge
      BY <3>3 DEF Idle
    <3> QED
      BY <2>1, <3>1, <3>2, <3>3
  <2> QED
    BY <2>1, <2>2, SQuietInductive
<1> QED
  BY <1>1, <1>2, <1>3, <1>4, <1>5

(* A purge: nothing brings a task back before its rows are gone.           *)
LEMMA SPurgeInductive ==
    ASSUME NEW p, Proc = {p}, SInv, IInv',
           \/ \E a \in Agent, ss \in SUBSET PurgeStates : Purge(p, a, ss)
           \/ PurgeHeap(p) \/ PurgeChildren(p) \/ PurgeGraph(p)
           \/ PurgeRows(p)
    PROVE  SInv'
<1> DEFINE c == call'[p]
<1> USE DEF CallRecord, CallOK, Carries, graphVars, loopVars, runVars, Commanded
<1>1. ASSUME NEW a \in Agent, NEW ss \in SUBSET PurgeStates, Purge(p, a, ss)
      PROVE  SInv'
  <2> DEFINE doomed == Doomed(a, ss)
  <2>1. /\ c = [Idle EXCEPT !.pc = "pheap", !.todo = doomed, !.purge = TRUE]
        /\ Goto(p, c) /\ call[p].pc = "idle"
        /\ tasks' = [t \in Task |-> IF t \in doomed THEN Absent ELSE tasks[t]]
        /\ UNCHANGED <<rows, heap, starting>>
    BY <1>1 DEF Purge, At, Goto, SInv, IInv, TypeOK
  <2>2. c.pc = "pheap" /\ c.todo = doomed /\ c.purge /\ ~call[p].purge
    BY <2>1, SCallFacts DEF Idle
  <2>3. \A d \in doomed : d \in Task
    BY DEF Doomed
  <2>4. SerialOK(c, tasks', rows')
    BY <2>1, <2>2, <2>3, SCallFacts DEF SerialOK
  <2>5. ReachOK(c, tasks', heap', starting')
    BY <2>1, SCallFacts DEF ReachOK, Absent
  <2> QED
    BY <2>1, <2>4, <2>5, SStepInductive
<1>2. CASE PurgeHeap(p)
  <2>1. /\ c = [call[p] EXCEPT !.pc = "pchild"]
        /\ call[p].pc = "pheap" /\ Goto(p, c)
        /\ heap' = [t \in Task |-> IF t \in call[p].todo THEN 0 ELSE heap[t]]
        /\ UNCHANGED <<tasks, rows, starting>>
    BY <1>2 DEF PurgeHeap, At, Goto, SInv, IInv, TypeOK
  <2>2. c.pc = "pchild" /\ c.todo = call[p].todo /\ c.purge /\ call[p].purge
    BY <2>1, SCallFacts
  <2>3. SerialOK(c, tasks', rows')
    BY <2>1, <2>2, SCallFacts DEF SerialOK
  <2>4. ReachOK(c, tasks', heap', starting')
    BY <2>1, <2>2, SCallFacts DEF ReachOK, SerialOK, Absent
  <2> QED
    BY <2>1, <2>3, <2>4, SStepInductive
<1>3. CASE PurgeChildren(p) \/ PurgeGraph(p)
  <2>1. /\ \/ c = [call[p] EXCEPT !.pc = "pgraph"]
           \/ c = [call[p] EXCEPT
                     !.pc = "wake",
                     !.waiters = UNION {Dependents(edges, d) : d \in call[p].todo}
                                    \ call[p].todo]
        /\ call[p].pc \in {"pchild", "pgraph"} /\ Goto(p, c)
        /\ UNCHANGED <<tasks, rows, heap, starting>>
    BY <1>3 DEF PurgeChildren, PurgeGraph, At, Goto, SInv, IInv, TypeOK
  <2>2. /\ c.pc \in {"pgraph", "wake"} /\ c.todo = call[p].todo
        /\ c.purge = call[p].purge
    <3>1. CASE c = [call[p] EXCEPT !.pc = "pgraph"]
      BY <3>1, SCallFacts
    <3>2. CASE c = [call[p] EXCEPT
                     !.pc = "wake",
                     !.waiters = UNION {Dependents(edges, d) : d \in call[p].todo}
                                    \ call[p].todo]
      BY <3>2, SCallFacts
    <3> QED
      BY <2>1, <3>1, <3>2
  <2> QED
    BY <2>1, <2>2, SQuietInductive
<1>4. CASE PurgeRows(p)
  <2>1. /\ c = Idle /\ call[p].pc = "pdelete" /\ call[p].purge /\ Goto(p, c)
        /\ rows' = [t \in Task |-> IF t \in call[p].todo THEN Absent ELSE rows[t]]
        /\ UNCHANGED <<tasks, heap, starting>>
    BY <1>4, SCallFacts DEF PurgeRows, At, Goto, SInv, IInv, TypeOK
  <2>2. c.pc = "idle" /\ ~c.purge
    BY <2>1 DEF Idle
  <2>3. SerialOK(c, tasks', rows')
    BY <2>1, <2>2, SCallFacts DEF SerialOK
  <2>4. ReachOK(c, tasks', heap', starting')
    BY <2>1, SCallFacts DEF ReachOK
  <2> QED
    BY <2>1, <2>3, <2>4, SStepInductive
<1> QED
  BY <1>1, <1>2, <1>3, <1>4

LEMMA SDelegateInductive ==
    ASSUME NEW p, Proc = {p}, SInv, IInv',
           \/ AddDependency(p) \/ RegisterChild(p) \/ ParkParent(p)
           \/ EnqueueChild(p) \/ ResumeEnqueue(p)
    PROVE  SInv'
<1> DEFINE c == call'[p]
           t == call[p].task
<1> USE DEF CallRecord, CallOK, Carries, graphVars, loopVars, runVars
<1>1. CASE AddDependency(p) \/ RegisterChild(p)
  <2>1. PICK l \in {"dchild", "dpark"} :
           /\ c = [call[p] EXCEPT !.pc = l]
           /\ call[p].pc \in {"dedge", "dchild"} /\ Goto(p, c)
           /\ UNCHANGED <<tasks, rows, heap, starting>>
    BY <1>1 DEF AddDependency, RegisterChild, Goto, SInv, IInv, TypeOK, At
  <2>2. c.pc \in {"dchild", "dpark"} /\ ~c.purge /\ ~call[p].purge
    BY <2>1, SCallFacts
  <2> QED
    BY <2>1, <2>2, SQuietInductive
<1>2. CASE ParkParent(p)
  <2>1. CASE tasks[t] \in Terminal \cup {Absent}
    <3>1. /\ c = [call[p] EXCEPT !.pc = "denq", !.loop = t]
          /\ call[p].pc = "dpark" /\ Goto(p, c)
          /\ UNCHANGED <<tasks, rows, heap, starting>>
      BY <1>2, <2>1 DEF ParkParent, Goto, SInv, IInv, TypeOK, At
    <3>2. c.pc = "denq" /\ ~c.purge /\ ~call[p].purge
      BY <3>1, SCallFacts
    <3> QED
      BY <3>1, <3>2, SQuietInductive
  <2>2. CASE tasks[t] \notin Terminal \cup {Absent}
    <3>1. /\ c = Persisting(t, "Waiting", "denq", call[p].todo, None)
          /\ call[p].pc = "dpark" /\ Goto(p, c) /\ t \in Task
          /\ tasks' = [tasks EXCEPT ![t] = "Waiting"]
          /\ UNCHANGED <<rows, heap, starting>>
      BY <1>2, <2>2, SCallFacts DEF ParkParent, Goto, SInv, IInv, TypeOK, At, OfTask
    <3>2. /\ c.pc = "persist" /\ c.task = t /\ c.snap = "Waiting" /\ ~c.purge
          /\ ~call[p].purge
      BY <3>1, SCallFacts DEF Persisting, Idle
    <3> QED
      BY <3>1, <3>2, SStoreInductive
  <2> QED
    BY <2>1, <2>2
<1>3. CASE EnqueueChild(p) \/ ResumeEnqueue(p)
  <2>1. /\ \/ \E d \in call[p].todo : c = Enqueueing(d, call[p].loop)
           \/ c = Enqueueing(t, None)
        /\ call[p].pc \in {"denq", "resume"} /\ Goto(p, c)
        /\ UNCHANGED <<tasks, rows, heap, starting>>
    BY <1>3 DEF EnqueueChild, ResumeEnqueue, Goto, SInv, IInv, TypeOK, At
  <2>2. c.pc \in {"count", "insert"} /\ ~c.purge
    BY <2>1 DEF Enqueueing, Idle
  <2>3. ~call[p].purge
    BY <2>1, SCallFacts
  <2> QED
    BY <2>1, <2>2, <2>3, SQuietInductive
<1> QED
  BY <1>1, <1>2, <1>3

LEMMA SCascadeInductive ==
    ASSUME NEW p, Proc = {p}, SInv, IInv',
           \/ CascadeChildren(p) \/ CascadeDone(p)
           \/ \E t \in Task : CascadeCancel(p, t)
    PROVE  SInv'
<1> DEFINE c == call'[p]
<1> USE DEF CallRecord, CallOK, Carries, graphVars, loopVars, runVars
<1>1. CASE CascadeChildren(p) \/ CascadeDone(p)
  <2>1. /\ \/ c = [call[p] EXCEPT !.pc = "cancel",
                                  !.todo = @ \cup children[call[p].task]]
           \/ c = Idle
        /\ call[p].pc \in {"cascade", "cancel"} /\ Goto(p, c)
        /\ UNCHANGED <<tasks, rows, heap, starting>>
    BY <1>1 DEF CascadeChildren, CascadeDone, Goto, SInv, IInv, TypeOK, At
  <2>2. ~call[p].purge
    BY <2>1, SCallFacts
  <2>3. c.pc \in {"cancel", "idle"} /\ ~c.purge
    <3>1. CASE c = [call[p] EXCEPT !.pc = "cancel",
                                   !.todo = @ \cup children[call[p].task]]
      BY <2>2, <3>1, SCallFacts
    <3>2. CASE c = Idle
      BY <3>2 DEF Idle
    <3> QED
      BY <2>1, <3>1, <3>2
  <2> QED
    BY <2>1, <2>2, <2>3, SQuietInductive
<1>2. ASSUME NEW t \in Task, CascadeCancel(p, t)
      PROVE  SInv'
  <2>1. CASE tasks[t] = Absent
    <3>1. /\ c = [call[p] EXCEPT !.todo = @ \ {t}]
          /\ call[p].pc = "cancel" /\ Goto(p, c)
          /\ UNCHANGED <<tasks, rows, heap, starting>>
      BY <1>2, <2>1 DEF CascadeCancel, Goto, SInv, IInv, TypeOK, At
    <3>2. c.pc = "cancel" /\ ~c.purge /\ ~call[p].purge
      BY <3>1, SCallFacts
    <3> QED
      BY <3>1, <3>2, SQuietInductive
  <2>2. CASE tasks[t] # Absent
    <3>1. /\ c = Persisting(t, "Cancelled", "cascade", call[p].todo \ {t}, None)
          /\ call[p].pc = "cancel" /\ Goto(p, c)
          /\ tasks' = [tasks EXCEPT ![t] = "Cancelled"]
          /\ UNCHANGED <<rows, heap, starting>>
      BY <1>2, <2>2 DEF CascadeCancel, Goto, SInv, IInv, TypeOK, At
    <3>2. /\ c.pc = "persist" /\ c.task = t /\ c.snap = "Cancelled" /\ ~c.purge
          /\ ~call[p].purge
      BY <3>1, SCallFacts DEF Persisting, Idle
    <3> QED
      BY <3>1, <3>2, SStoreInductive
  <2> QED
    BY <2>1, <2>2
<1> QED
  BY <1>1, <1>2

LEMMA SDequeueInductive ==
    ASSUME NEW p, Proc = {p}, SInv, IInv',
           DequeueNothing \/ \E paused \in SUBSET Agent, t \in Task : Dequeue(t, paused)
    PROVE  SInv'
<1> USE DEF graphVars, loopVars, runVars
<1>1. CASE DequeueNothing
  BY <1>1, SDispatchInductive DEF DequeueNothing
<1>2. ASSUME NEW paused \in SUBSET Agent, NEW t \in Task, Dequeue(t, paused)
      PROVE  SInv'
  <2>1. \A u \in Task : tasks[u] = "Queued" =>
            \/ starting'[u] > 0
            \/ heap'[u] = heap[u] /\ starting'[u] = starting[u]
    BY <1>2 DEF Dequeue, SInv, IInv, TypeOK
  <2> QED
    BY <1>2, <2>1, SDispatchInductive DEF Dequeue
<1> QED
  BY <1>1, <1>2

LEMMA SRestartInductive ==
    ASSUME NEW p, Proc = {p}, SInv, IInv',
           NEW stale \in SUBSET Task, NEW K \in SUBSET Task, Restart(stale, K)
    PROVE  SInv'
<1>1. /\ call'[p] = Idle
      /\ rows' = [t \in Task |-> Restored(stale, K, t)] /\ tasks' = rows'
      /\ heap' = [t \in Task |-> IF t \in K THEN 1 ELSE 0]
  BY DEF Restart
<1>2. SerialOK(call'[p], tasks', rows')
  BY <1>1 DEF SerialOK, Idle
<1>3. \A t \in Task : Restored(stale, K, t) = "Queued" => t \in K
  BY DEF Restored
<1>4. ReachOK(call'[p], tasks', heap', starting')
  BY <1>1, <1>3 DEF ReachOK
<1> QED
  BY <1>2, <1>4 DEF SInv

LEMMA SInit == ASSUME Init PROVE SInv
<1>1. \A p \in Proc : call[p].pc = "idle" /\ ~call[p].purge
  BY DEF Init, Idle
<1>2. \A t \in Task : tasks[t] = Absent /\ rows[t] = Absent
  BY DEF Init
<1> QED
  BY <1>1, <1>2, IInvInit DEF SInv, SerialOK, ReachOK, Absent

LEMMA SInductive ==
    ASSUME NEW p, Proc = {p}, SInv, [Next]_vars
    PROVE  SInv'
<1>0. IInv' /\ p \in Proc
  BY IInvInductive DEF SInv
<1>1. CASE \E q \in Proc : Section(q)
  BY <1>0, <1>1, SEnqueueInductive, SWakeInductive, SPurgeInductive,
     SDelegateInductive, SCascadeInductive DEF Section
<1>2. CASE \E q \in Proc, t \in Task : LoopStep(q, t) \/ ClientCall(q, t)
  BY <1>0, <1>2, SLoopInductive, SClientInductive
<1>3. CASE \E q \in Proc, S \in SUBSET Task : CheckTimeouts(q, S)
  BY <1>0, <1>3, SWakeInductive
<1>4. CASE \E q \in Proc, a \in Agent, ss \in SUBSET (PurgeStates \cap States) :
              Purge(q, a, ss)
  BY <1>0, <1>4, SPurgeInductive
<1>5. CASE DequeueNothing \/ \E paused \in SUBSET Agent, t \in Task : Dequeue(t, paused)
  BY <1>0, <1>5, SDequeueInductive
<1>6. CASE \E stale, K \in SUBSET Task : Restart(stale, K)
  BY <1>0, <1>6, SRestartInductive
<1>7. CASE UNCHANGED vars
  BY <1>0, <1>7, SDispatchInductive DEF vars
<1> QED
  BY <1>1, <1>2, <1>3, <1>4, <1>5, <1>6, <1>7 DEF Next

(* The number of crashes is the crashes.                                   *)
LEMMA OnlyCrashesCount ==
    ASSUME [Next]_vars, restarts' # restarts
    PROVE  \E stale, K \in SUBSET Task : Restart(stale, K)
<1> USE DEF graphVars, loopVars, runVars, Commanded
<1>1. ASSUME NEW p \in Proc, Section(p)
      PROVE  FALSE
  BY <1>1 DEF Section, EnqueueCount, EnqueueReject, EnqueueInsert, Push, Persist,
     Spawn, MarkStarted, SweepPersist, CompleteDependency, Wake, WakeDone,
     PurgeHeap, PurgeChildren, PurgeGraph, PurgeRows, AddDependency,
     RegisterChild, ParkParent, EnqueueChild, ResumeEnqueue, CascadeChildren,
     CascadeDone, CascadeCancel
<1>2. ASSUME NEW p \in Proc, NEW t \in Task, LoopStep(p, t)
      PROVE  FALSE
  BY <1>2 DEF LoopStep, LoopCalls, Start, LoopPark, LoopUnpark, LoopSuspend,
     LoopQuit, LoopFinish, Delegate
<1>3. ASSUME NEW p \in Proc, NEW t \in Task, ClientCall(p, t)
      PROVE  FALSE
  BY <1>3 DEF ClientCall, Submit, RegisterExternal, Requeue, Deny, Cancel, Resume
<1>4. ~ \E p \in Proc, S \in SUBSET Task : CheckTimeouts(p, S)
  BY DEF CheckTimeouts
<1>5. ~ \E p \in Proc, a \in Agent, ss \in SUBSET (PurgeStates \cap States) :
            Purge(p, a, ss)
  BY DEF Purge
<1>6. ~DequeueNothing /\ ~ \E paused \in SUBSET Agent, t \in Task : Dequeue(t, paused)
  BY DEF DequeueNothing, Dequeue
<1> QED
  BY <1>1, <1>2, <1>3, <1>4, <1>5, <1>6 DEF Next, vars

(* With one call at a time no queued task is stranded, resumed or not.     *)
THEOREM SerialCallsStrandNoTask ==
    ASSUME NEW CONSTANT p, Proc = {p}
    PROVE  Spec => []EveryQueuedTaskReachable
<1>1. Init => SInv
  BY SInit
<1>2. SInv /\ [Next]_vars => SInv'
  BY SInductive
<1>3. SInv => EveryQueuedTaskReachable
  BY DEF SInv, ReachOK, EveryQueuedTaskReachable, Reachable
<1> QED
  BY <1>1, <1>2, <1>3, PTL DEF Spec

(* With one call at a time a crash between two calls loses no history and  *)
(* no checkpointed work: the table says what the map says.                 *)
THEOREM SerialCallsSurviveCrashes ==
    ASSUME NEW CONSTANT p, Proc = {p}
    PROVE  Spec => CrashKeepsWork
<1> DEFINE Kept ==
             (restarts' # restarts /\ Quiet) =>
               \A t \in Task :
                  /\ tasks[t] \in Terminal => tasks'[t] = tasks[t]
                  /\ t \in Resumable /\ tasks[t] \notin Terminal \cup {Absent}
                       => tasks'[t] \notin Terminal \cup {Absent}
<1>1. Init => SInv
  BY SInit
<1>2. SInv /\ [Next]_vars => SInv'
  BY SInductive
<1>3. SInv /\ [Next]_vars => [Kept]_vars
  <2> SUFFICES ASSUME SInv, [Next]_vars, restarts' # restarts, Quiet, NEW t \in Task
               PROVE  /\ tasks[t] \in Terminal => tasks'[t] = tasks[t]
                      /\ t \in Resumable /\ tasks[t] \notin Terminal \cup {Absent}
                           => tasks'[t] \notin Terminal \cup {Absent}
    OBVIOUS
  <2>1. PICK stale \in SUBSET Task, K \in SUBSET Task : Restart(stale, K)
    BY OnlyCrashesCount
  <2>2. /\ tasks'[t] = Restored(stale, K, t)
        /\ stale \subseteq LiveRows \ Resumable
        /\ K \subseteq {u \in LiveRows \ stale : rows[u] \in {"Queued", "Running"}}
        /\ \A u \in LiveRows \ stale :
              u \in Resumable /\ rows[u] \in {"Queued", "Running"} => u \in K
    BY <2>1 DEF Restart, Admitted
  <2>3. rows[t] = tasks[t]
    BY SCallFacts DEF Quiet, At, SerialOK, CallOK
  <2>4. rows[t] \in MaybeState
    BY DEF SInv, IInv, TypeOK
  <2>5. tasks[t] \in Terminal => tasks'[t] = tasks[t]
    BY <2>2, <2>3 DEF LiveRows, Restored, Terminal
  <2>6. ASSUME t \in Resumable, tasks[t] \notin Terminal \cup {Absent}
        PROVE  tasks'[t] \notin Terminal \cup {Absent}
    BY <2>2, <2>3, <2>4, <2>6
       DEF LiveRows, Restored, Terminal, Absent, MaybeState, TaskState
  <2> QED
    BY <2>5, <2>6
<1> QED
  BY <1>1, <1>2, <1>3, PTL DEF Spec, CrashKeepsWork

=============================================================================
