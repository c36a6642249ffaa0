--------------------------- MODULE TaskScheduler ---------------------------
(***************************************************************************)
(* The kernel's TaskScheduler at the granularity of its locks.  Every      *)
(* method is a sequence of sections, each under one of the locks (the task *)
(* map, the heap, the dependency graph, the child map) or one statement on *)
(* the state store; between two sections any other call may run.  A        *)
(* process of Proc is an asynchronous caller: it runs one call at a time   *)
(* and call[p] is the section it is about to run.  The executor's dequeue  *)
(* is one section.                                                         *)
(*                                                                         *)
(* The callers make the calls the kernel makes: submission, synchronous    *)
(* runs, execution loops that park, suspend, finish or delegate, approval, *)
(* denial, cancellation, the timeout checker, purge, resume from a         *)
(* checkpoint, and a crash followed by the boot-time restore.              *)
(***************************************************************************)
EXTENDS TaskModel

CONSTANTS
    Proc,           \* concurrent callers
    Resumable,      \* tasks that have a saved checkpoint
    None,           \* no task
    MaxLoops,       \* bound: executions of one task at a time
    MaxEntries,     \* bound: heap entries of one task
    MaxCommands,    \* bound: calls made from outside the task loops
    MaxRestarts     \* bound: crashes

ASSUME ResumableAssumption == Resumable \subseteq Task
ASSUME NoneAssumption == None \notin Task
ASSUME BoundAssumption ==
    {MaxLoops, MaxEntries, MaxCommands, MaxRestarts} \subseteq Nat

VARIABLES
    tasks,      \* the map of tasks: state of each, or Absent
    heap,       \* number of entries each task has in the BinaryHeap
    edges,      \* the dependency graph
    children,   \* child_map
    rows,       \* the scheduler_tasks table: persisted state, or Absent
    call,       \* the call each process is in
    starting,   \* executions dispatched that have not marked the task Running
    live,       \* execution loops of a task that are between two calls
    fresh,      \* task identifiers not minted yet
    commands,   \* calls from outside the task loops so far
    restarts    \* crashes so far

vars == <<tasks, heap, edges, children, rows, call, starting, live, fresh,
          commands, restarts>>
graphVars == <<edges, children>>
loopVars  == <<starting, live>>
runVars   == <<fresh, commands, restarts>>

----------------------------------------------------------------------------
(* Calls in progress.                                                      *)

Pc == {"idle", "resume", "count", "insert", "reject", "push", "persist",
       "mark", "spawn", "sweep", "depend", "wake", "pheap", "pchild", "pgraph",
       "pdelete", "dedge", "dchild", "dpark", "denq", "cascade", "cancel"}

(* Where a call may go on after a persist.                                 *)
Cont == {"idle", "mark", "spawn", "depend", "wake", "denq", "cascade"}

(* The sections that are about one task.                                   *)
OfTask == {"resume", "count", "insert", "reject", "push", "persist", "mark",
           "spawn", "dedge", "dchild", "dpark", "denq", "cascade"}

(* task: the task the section is about; snap: the snapshot to persist;     *)
(* todo: tasks the call has still to handle; waiters: tasks to requeue;    *)
(* cont: where the call goes on after its current persist; purge: whether  *)
(* the call is a purge; loop: the task whose execution loop made the call  *)
(* and iterates on when it returns.                                        *)
CallRecord == [pc : Pc, task : Task \cup {None}, snap : MaybeState,
               todo : SUBSET Task, waiters : SUBSET Task, cont : Cont,
               purge : BOOLEAN, loop : Task \cup {None}]
Call == {c \in CallRecord : c.pc \in OfTask => c.task \in Task}

Idle == [pc |-> "idle", task |-> None, snap |-> Absent, todo |-> {},
         waiters |-> {}, cont |-> "idle", purge |-> FALSE, loop |-> None]

At(p, l) == call[p].pc = l

(* p runs its call c next.                                                 *)
Goto(p, c) == call' = [call EXCEPT ![p] = c]

(* The call returns; the loop that made it, if any, iterates on.           *)
Return(p) ==
    /\ Goto(p, Idle)
    /\ live' = [t \in Task |-> IF t = call[p].loop THEN live[t] + 1 ELSE live[t]]

(* The call goes on at the section cont.                                   *)
Continue(p) ==
    /\ Goto(p, [call[p] EXCEPT !.pc = call[p].cont, !.cont = "idle",
                               !.snap = Absent])
    /\ UNCHANGED live

(* A call from outside the task loops: an operator's command, an answer to *)
(* an escalation, a round of the timeout checker.                          *)
Commanded ==
    /\ commands < MaxCommands
    /\ commands' = commands + 1
    /\ UNCHANGED <<fresh, restarts>>

(* A call has still to persist state s of t and then goes on at l with the *)
(* todo set S; q is the task whose loop iterates on afterwards.            *)
Persisting(t, s, l, S, q) ==
    [Idle EXCEPT !.pc = "persist", !.task = t, !.snap = s, !.cont = l,
                 !.todo = S, !.loop = q]

(* What enqueue does after reading whether the id is already in the map:   *)
(* a re-enqueue is not counted against the cap.                            *)
Enqueueing(t, q) ==
    [Idle EXCEPT !.task = t,
                 !.loop = q,
                 !.pc = IF tasks[t] = Absent /\ MaxQueuedPerAgent > 0
                        THEN "count" ELSE "insert"]

Init ==
    /\ tasks = [t \in Task |-> Absent]
    /\ heap = [t \in Task |-> 0]
    /\ edges = {}
    /\ children = [t \in Task |-> {}]
    /\ rows = [t \in Task |-> Absent]
    /\ call = [p \in Proc |-> Idle]
    /\ starting = [t \in Task |-> 0]
    /\ live = [t \in Task |-> 0]
    /\ fresh = Task
    /\ commands = 0
    /\ restarts = 0

----------------------------------------------------------------------------
(* enqueue: contains_key, the cap check, the insert, the push, the persist *)

(* A new task is submitted; the call runs up to its first lock release.    *)
Submit(p, t) ==
    /\ At(p, "idle")
    /\ t \in fresh
    /\ fresh' = fresh \ {t}
    /\ Goto(p, Enqueueing(t, None))
    /\ UNCHANGED <<tasks, heap, graphVars, rows, loopVars, commands, restarts>>

EnqueueCount(p) ==
    /\ At(p, "count")
    /\ Goto(p, [call[p] EXCEPT
                  !.pc = IF AtCap(tasks, AgentOf[call[p].task])
                         THEN "reject" ELSE "insert"])
    /\ UNCHANGED <<tasks, heap, graphVars, rows, loopVars, runVars>>

EnqueueReject(p) ==
    LET t == call[p].task IN
    /\ At(p, "reject")
    /\ tasks' = [tasks EXCEPT ![t] = "Failed"]
    /\ Goto(p, Persisting(t, "Failed", "idle", {}, call[p].loop))
    /\ UNCHANGED <<heap, graphVars, rows, loopVars, runVars>>

EnqueueInsert(p) ==
    LET t == call[p].task IN
    /\ At(p, "insert")
    /\ tasks' = [tasks EXCEPT ![t] = "Queued"]
    /\ Goto(p, [call[p] EXCEPT !.pc = "push", !.snap = "Queued"])
    /\ UNCHANGED <<heap, graphVars, rows, loopVars, runVars>>

(* The push of enqueue and of requeue.                                     *)
Push(p) ==
    /\ At(p, "push")
    /\ heap' = [heap EXCEPT ![call[p].task] = @ + 1]
    /\ Goto(p, [call[p] EXCEPT !.pc = "persist"])
    /\ UNCHANGED <<tasks, graphVars, rows, loopVars, runVars>>

(* persist_task_snapshot: the upsert overwrites whatever row is there.     *)
Persist(p) ==
    /\ At(p, "persist")
    /\ rows' = [rows EXCEPT ![call[p].task] = call[p].snap]
    /\ IF call[p].cont = "idle" THEN Return(p) ELSE Continue(p)
    /\ UNCHANGED <<tasks, heap, graphVars, starting, runVars>>

(* Mutant: an external run is not persisted.                               *)
RegisterUnrecorded(p, t) ==
    /\ At(p, "idle")
    /\ t \in fresh
    /\ fresh' = fresh \ {t}
    /\ tasks' = [tasks EXCEPT ![t] = "Queued"]
    /\ Goto(p, [Idle EXCEPT !.pc = "spawn", !.task = t])
    /\ UNCHANGED <<heap, graphVars, rows, loopVars, commands, restarts>>

(* register_external, for a run outside the dispatch loop: no heap entry.  *)
RegisterExternal(p, t) ==
    /\ At(p, "idle")
    /\ t \in fresh
    /\ fresh' = fresh \ {t}
    /\ tasks' = [tasks EXCEPT ![t] = "Queued"]
    /\ Goto(p, Persisting(t, "Queued", "spawn", {}, None))
    /\ UNCHANGED <<heap, graphVars, rows, loopVars, commands, restarts>>

(* Its caller then runs the loop itself, also when the task has become     *)
(* terminal meanwhile.                                                     *)
Spawn(p) ==
    LET t == call[p].task IN
    /\ At(p, "spawn")
    /\ IF tasks[t] \in Terminal \cup {Absent}
       THEN /\ Goto(p, [call[p] EXCEPT !.pc = "mark", !.loop = t])
            /\ UNCHANGED tasks
       ELSE /\ tasks' = [tasks EXCEPT ![t] = "Running"]
            /\ Goto(p, Persisting(t, "Running", "mark", {}, t))
    /\ UNCHANGED <<heap, graphVars, rows, loopVars, runVars>>

----------------------------------------------------------------------------
(* dequeue_runnable, under the heap's lock from the first pop to the last  *)
(* push back.  Agents in paused are held back, not lost.                   *)

(* Mutant: takes a Queued task whether or not the heap holds it.           *)
RunnableInMap(paused) == {t \in Task : tasks[t] = "Queued" /\ AgentOf[t] \notin paused}

Runnable(paused) ==
    {t \in Task : heap[t] > 0 /\ tasks[t] = "Queued" /\ AgentOf[t] \notin paused}

(* Mutant: the entries of paused agents are not pushed back.               *)
DequeueDroppingHeld(t, paused) ==
    /\ t \in Runnable(paused)
    /\ \A u \in Runnable(paused) : ~Ahead(u, t)
    /\ starting[t] + live[t] < MaxLoops
    /\ heap' = [u \in Task |-> CASE u = t       -> heap[t] - 1
                                 [] Ahead(u, t) -> 0
                                 [] OTHER       -> heap[u]]
    /\ starting' = [starting EXCEPT ![t] = @ + 1]
    /\ UNCHANGED <<tasks, graphVars, rows, call, live, runVars>>

(* The entries popped on the way: those of a task that is not Queued are   *)
(* dropped, those of a paused agent pushed back.                           *)
Dequeue(t, paused) ==
    /\ t \in Runnable(paused)
    /\ \A u \in Runnable(paused) : ~Ahead(u, t)
    /\ starting[t] + live[t] < MaxLoops
    /\ heap' = [u \in Task |->
                  CASE u = t                                -> heap[t] - 1
                    [] Ahead(u, t) /\ tasks[u] # "Queued"   -> 0
                    [] OTHER                                -> heap[u]]
    /\ starting' = [starting EXCEPT ![t] = @ + 1]
    /\ UNCHANGED <<tasks, graphVars, rows, call, live, runVars>>

(* Nothing to run, which the pause of every agent makes possible at any    *)
(* time: the stale entries are gone.                                       *)
DequeueNothing ==
    /\ heap' = [u \in Task |-> IF tasks[u] = "Queued" THEN heap[u] ELSE 0]
    /\ UNCHANGED <<tasks, graphVars, rows, call, loopVars, runVars>>

----------------------------------------------------------------------------
(* requeue: wakes a parked task, is a no-op in any other state.            *)

Requeue(p, t) ==
    /\ At(p, "idle")
    /\ Commanded
    /\ tasks[t] \in Parked
    /\ tasks' = [tasks EXCEPT ![t] = "Queued"]
    /\ Goto(p, [Idle EXCEPT !.pc = "push", !.task = t, !.snap = "Queued"])
    /\ UNCHANGED <<heap, graphVars, rows, loopVars>>

(* update_state, then the persist of the snapshot taken under the lock.    *)
UpdateState(p, t, s, l, S, q) ==
    /\ At(p, "idle")
    /\ tasks[t] # Absent
    /\ tasks' = [tasks EXCEPT ![t] = s]
    /\ Goto(p, Persisting(t, s, l, S, q))
    /\ UNCHANGED <<heap, graphVars, rows>>

(* update_state_if_not_terminal, where it applies and where it does not.   *)
UpdateIfNotTerminal(p, t, s, l, S, q) ==
    /\ tasks[t] \notin Terminal
    /\ UpdateState(p, t, s, l, S, q)

NoUpdate(p, t) ==
    /\ At(p, "idle")
    /\ tasks[t] \in Terminal \cup {Absent}
    /\ UNCHANGED <<tasks, heap, graphVars, rows, call>>

(* execute_task: mark the task Running and then started, or give up.       *)
Start(p, t) ==
    /\ starting[t] > 0
    /\ starting' = [starting EXCEPT ![t] = @ - 1]
    /\ UpdateIfNotTerminal(p, t, "Running", "mark", {}, t) \/ NoUpdate(p, t)
    /\ UNCHANGED <<live, runVars>>

(* mark_started persists the state the task has by then.                   *)
MarkStarted(p) ==
    LET t == call[p].task IN
    /\ At(p, "mark")
    /\ IF tasks[t] = Absent
       THEN Return(p)
       ELSE Goto(p, Persisting(t, tasks[t], "idle", {}, t)) /\ UNCHANGED live
    /\ UNCHANGED <<tasks, heap, graphVars, rows, starting, runVars>>

(* A loop of t makes a call.                                               *)
LoopCalls(t) ==
    /\ live[t] > 0
    /\ live' = [live EXCEPT ![t] = @ - 1]
    /\ UNCHANGED <<starting, commands, restarts>>

(* A loop parks its task with update_state(Waiting), whatever the state is *)
(* by then, and either bails out or stays alive (ask-user, escalation).    *)
LoopPark(p, t) ==
    /\ LoopCalls(t)
    /\ heap[t] < MaxEntries
    /\ \E q \in {t, None} : UpdateState(p, t, "Waiting", "idle", {}, q)
    /\ UNCHANGED fresh

(* The inline wait of ask-user is over.                                    *)
LoopUnpark(p, t) ==
    /\ LoopCalls(t)
    /\ UpdateIfNotTerminal(p, t, "Running", "idle", {}, t)
    /\ UNCHANGED fresh

(* The budget is exhausted: the loop ends.                                 *)
LoopSuspend(p, t) ==
    /\ LoopCalls(t)
    /\ \/ UpdateIfNotTerminal(p, t, "Suspended", "idle", {}, None)
       \/ NoUpdate(p, t)
    /\ UNCHANGED fresh

(* complete_task_success and complete_task_failure: the loop ends, and the *)
(* first terminal transition also completes the dependency.                *)
LoopFinish(p, t, s) ==
    /\ LoopCalls(t)
    /\ \/ UpdateIfNotTerminal(p, t, s, "depend", {t}, None)
       \/ NoUpdate(p, t)
    /\ UNCHANGED fresh

(* complete_task_failure leaves a parked task alone: the loop just ends.   *)
LoopQuit(t) ==
    /\ LoopCalls(t)
    /\ tasks[t] \in Parked
    /\ UNCHANGED <<tasks, heap, graphVars, rows, call, fresh>>

(* A denied escalation fails the task from outside its loop.               *)
Deny(p, t) ==
    /\ UpdateIfNotTerminal(p, t, "Failed", "depend", {t}, None)
    /\ Commanded
    /\ UNCHANGED loopVars

(* cmd_cancel_task does not look at the state it overwrites; once the task *)
(* is persisted it reads the task's children and cancels each likewise.    *)
Cancel(p, t) ==
    /\ UpdateState(p, t, "Cancelled", "cascade", {}, None)
    /\ Commanded
    /\ UNCHANGED loopVars

CascadeChildren(p) ==
    /\ At(p, "cascade")
    /\ Goto(p, [call[p] EXCEPT !.pc = "cancel",
                               !.todo = @ \cup children[call[p].task]])
    /\ UNCHANGED <<tasks, heap, graphVars, rows, loopVars, runVars>>

(* A child the map no longer holds is an error the cascade ignores.        *)
CascadeCancel(p, t) ==
    /\ At(p, "cancel")
    /\ t \in call[p].todo
    /\ IF tasks[t] = Absent
       THEN /\ Goto(p, [call[p] EXCEPT !.todo = @ \ {t}])
            /\ UNCHANGED tasks
       ELSE /\ tasks' = [tasks EXCEPT ![t] = "Cancelled"]
            /\ Goto(p, Persisting(t, "Cancelled", "cascade",
                                  call[p].todo \ {t}, None))
    /\ UNCHANGED <<heap, graphVars, rows, loopVars, runVars>>

CascadeDone(p) ==
    /\ At(p, "cancel")
    /\ call[p].todo = {}
    /\ Goto(p, Idle)
    /\ UNCHANGED <<tasks, heap, graphVars, rows, loopVars, runVars>>

----------------------------------------------------------------------------
(* check_timeouts: the overdue tasks fail together, then each is persisted *)
(* and the timeout checker completes the dependency of each.               *)

CheckTimeouts(p, S) ==
    /\ At(p, "idle")
    /\ S # {}
    /\ \A t \in S : tasks[t] \in Parked \cup {"Running"}
    /\ tasks' = [t \in Task |-> IF t \in S THEN "Failed" ELSE tasks[t]]
    /\ Goto(p, [Idle EXCEPT !.pc = "sweep", !.todo = S, !.waiters = S])
    /\ Commanded
    /\ UNCHANGED <<heap, graphVars, rows, loopVars>>

(* waiters holds the overdue tasks that have still to be persisted.        *)
SweepPersist(p, t) ==
    /\ At(p, "sweep")
    /\ t \in call[p].waiters
    /\ rows' = [rows EXCEPT ![t] = "Failed"]
    /\ Goto(p, [call[p] EXCEPT
                  !.waiters = @ \ {t},
                  !.pc = IF call[p].waiters = {t} THEN "depend" ELSE "sweep"])
    /\ UNCHANGED <<tasks, heap, graphVars, loopVars, runVars>>

(* complete_dependency of the next task to handle.                         *)
CompleteDependency(p, t) ==
    /\ At(p, "depend")
    /\ t \in call[p].todo
    /\ edges' = RemoveEdges(edges, {t})
    /\ Goto(p, [call[p] EXCEPT !.pc = "wake", !.todo = @ \ {t},
                               !.waiters = Dependents(edges, t)])
    /\ UNCHANGED <<tasks, heap, children, rows, loopVars, runVars>>

(* requeue of one waiter, of complete_dependency or of a purge.            *)
Wake(p, w) ==
    /\ At(p, "wake")
    /\ w \in call[p].waiters
    /\ IF tasks[w] \in Parked
       THEN /\ tasks' = [tasks EXCEPT ![w] = "Queued"]
            /\ Goto(p, [call[p] EXCEPT !.pc = "push", !.task = w,
                          !.snap = "Queued", !.cont = "wake",
                          !.waiters = @ \ {w}])
       ELSE /\ Goto(p, [call[p] EXCEPT !.waiters = @ \ {w}])
            /\ UNCHANGED tasks
    /\ UNCHANGED <<heap, graphVars, rows, loopVars, runVars>>

(* No waiter is left: the next completed task, the rows of a purge, or the *)
(* end of the call.                                                        *)
WakeDone(p) ==
    /\ At(p, "wake")
    /\ call[p].waiters = {}
    /\ Goto(p, CASE call[p].purge                          ->
                        [call[p] EXCEPT !.pc = "pdelete"]
                 [] ~call[p].purge /\ call[p].todo # {}     ->
                        [call[p] EXCEPT !.pc = "depend"]
                 [] OTHER                                  -> Idle)
    /\ UNCHANGED <<tasks, heap, graphVars, rows, loopVars, runVars>>

----------------------------------------------------------------------------
(* purge_agent_tasks: map, heap, child map, graph, waiters, rows.          *)

Doomed(a, states) == {t \in Task : AgentOf[t] = a /\ tasks[t] \in states}

Purge(p, a, states) ==
    LET doomed == Doomed(a, states) IN
    /\ At(p, "idle")
    /\ doomed # {}
    /\ tasks' = [t \in Task |-> IF t \in doomed THEN Absent ELSE tasks[t]]
    /\ Goto(p, [Idle EXCEPT !.pc = "pheap", !.todo = doomed, !.purge = TRUE])
    /\ Commanded
    /\ UNCHANGED <<heap, graphVars, rows, loopVars>>

(* Mutant: the heap is emptied, not rebuilt from the survivors.            *)
PurgeWholeHeap(p) ==
    /\ At(p, "pheap")
    /\ heap' = [t \in Task |-> 0]
    /\ Goto(p, [call[p] EXCEPT !.pc = "pchild"])
    /\ UNCHANGED <<tasks, graphVars, rows, loopVars, runVars>>

PurgeHeap(p) ==
    /\ At(p, "pheap")
    /\ heap' = [t \in Task |-> IF t \in call[p].todo THEN 0 ELSE heap[t]]
    /\ Goto(p, [call[p] EXCEPT !.pc = "pchild"])
    /\ UNCHANGED <<tasks, graphVars, rows, loopVars, runVars>>

PurgeChildren(p) ==
    LET doomed == call[p].todo IN
    /\ At(p, "pchild")
    /\ children' = [t \in Task |-> IF t \in doomed THEN {}
                                   ELSE children[t] \ doomed]
    /\ Goto(p, [call[p] EXCEPT !.pc = "pgraph"])
    /\ UNCHANGED <<tasks, heap, edges, rows, loopVars, runVars>>

PurgeGraph(p) ==
    LET doomed == call[p].todo IN
    /\ At(p, "pgraph")
    /\ edges' = RemoveEdges(edges, doomed)
    /\ Goto(p, [call[p] EXCEPT
                  !.pc = "wake",
                  !.waiters = UNION {Dependents(edges, d) : d \in doomed}
                                 \ doomed])
    /\ UNCHANGED <<tasks, heap, children, rows, loopVars, runVars>>

PurgeRows(p) ==
    /\ At(p, "pdelete")
    /\ rows' = [t \in Task |-> IF t \in call[p].todo THEN Absent ELSE rows[t]]
    /\ Goto(p, Idle)
    /\ UNCHANGED <<tasks, heap, graphVars, loopVars, runVars>>

----------------------------------------------------------------------------
(* handle_task_delegation: cycle check, edge, child entry, park the        *)
(* parent, and only then enqueue the child.  The child id is fresh.        *)

Delegate(p, t, c) ==
    /\ At(p, "idle")
    /\ LoopCalls(t)
    /\ c \in fresh
    /\ ~WouldCreateCycle(edges, t, c)
    /\ fresh' = fresh \ {c}
    /\ Goto(p, [Idle EXCEPT !.pc = "dedge", !.task = t, !.todo = {c}])
    /\ UNCHANGED <<tasks, heap, graphVars, rows>>

AddDependency(p) ==
    /\ At(p, "dedge")
    /\ edges' = edges \cup ({call[p].task} \X call[p].todo)
    /\ Goto(p, [call[p] EXCEPT !.pc = "dchild"])
    /\ UNCHANGED <<tasks, heap, children, rows, loopVars, runVars>>

RegisterChild(p) ==
    /\ At(p, "dchild")
    /\ children' = [children EXCEPT ![call[p].task] = @ \cup call[p].todo]
    /\ Goto(p, [call[p] EXCEPT !.pc = "dpark"])
    /\ UNCHANGED <<tasks, heap, edges, rows, loopVars, runVars>>

(* The parent parks, and its loop then stops, unless it is terminal.       *)
ParkParent(p) ==
    LET t == call[p].task IN
    /\ At(p, "dpark")
    /\ IF tasks[t] \in Terminal \cup {Absent}
       THEN /\ Goto(p, [call[p] EXCEPT !.pc = "denq", !.loop = t])
            /\ UNCHANGED tasks
       ELSE /\ tasks' = [tasks EXCEPT ![t] = "Waiting"]
            /\ Goto(p, Persisting(t, "Waiting", "denq", call[p].todo, None))
    /\ UNCHANGED <<heap, graphVars, rows, loopVars, runVars>>

EnqueueChild(p) ==
    /\ At(p, "denq")
    /\ \E c \in call[p].todo : Goto(p, Enqueueing(c, call[p].loop))
    /\ UNCHANGED <<tasks, heap, graphVars, rows, loopVars, runVars>>

(* c is in a delegation that has still to enqueue the child.               *)
Delegating(c) ==
    \/ c.pc \in {"dedge", "dchild", "dpark", "denq"}
    \/ c.pc = "persist" /\ c.cont = "denq"

----------------------------------------------------------------------------
(* cmd_resume_task refuses a Running or Queued task, prepares the resumed  *)
(* copy (token, context, checkout), then enqueues it.  Checkpoints are     *)
(* written by execution loops only: a child that was not enqueued yet has  *)
(* none.                                                                   *)

Resume(p, t) ==
    /\ At(p, "idle")
    /\ t \in Resumable \ fresh
    /\ \A q \in Proc : ~(Delegating(call[q]) /\ t \in call[q].todo)
    /\ tasks[t] \notin {"Running", "Queued"}
    /\ Goto(p, [Idle EXCEPT !.pc = "resume", !.task = t])
    /\ Commanded
    /\ UNCHANGED <<tasks, heap, graphVars, rows, loopVars>>

ResumeEnqueue(p) ==
    /\ At(p, "resume")
    /\ Goto(p, Enqueueing(call[p].task, None))
    /\ UNCHANGED <<tasks, heap, graphVars, rows, loopVars, runVars>>

----------------------------------------------------------------------------
(* A crash loses all but the table.  At boot restore_from_store loads the  *)
(* live rows, a Running one as Queued, cancels the stale and the excess    *)
(* ones (never a resumable one), and restore_terminal_history loads the    *)
(* finished ones.                                                          *)

LiveRows == {t \in Task : rows[t] \in TaskState \ Terminal}

(* Mutant: a checkpointed task counts against the cap like any other.      *)
AdmittedWithinCap(S, K) ==
    /\ K \subseteq S
    /\ \A t \in S :
         t \in K <=>
           \/ MaxQueuedPerAgent = 0
           \/ Cardinality({u \in K : AgentOf[u] = AgentOf[t] /\ Ahead(u, t)})
                < MaxQueuedPerAgent

(* The tasks boot queues out of those it could queue: row order is rank    *)
(* order, and each admitted task counts against its agent's cap.           *)
Admitted(S, K) ==
    /\ K \subseteq S
    /\ \A t \in S :
         t \in K <=>
           \/ t \in Resumable
           \/ MaxQueuedPerAgent = 0
           \/ Cardinality({u \in K : AgentOf[u] = AgentOf[t] /\ Ahead(u, t)})
                < MaxQueuedPerAgent

Restored(stale, K, t) ==
    CASE t \in stale                            -> "Cancelled"
      [] t \in K                                -> "Queued"
      [] t \notin K \cup stale /\ rows[t] \in {"Queued", "Running"}
                                                -> "Cancelled"
      [] OTHER                                  -> rows[t]

Restart(stale, K) ==
    /\ restarts < MaxRestarts
    /\ stale \subseteq LiveRows \ Resumable
    /\ Admitted({t \in LiveRows \ stale : rows[t] \in {"Queued", "Running"}}, K)
    /\ restarts' = restarts + 1
    /\ rows' = [t \in Task |-> Restored(stale, K, t)]
    /\ tasks' = rows'
    /\ heap' = [t \in Task |-> IF t \in K THEN 1 ELSE 0]
    /\ edges' = {}
    /\ children' = [t \in Task |-> {}]
    /\ call' = [p \in Proc |-> Idle]
    /\ starting' = [t \in Task |-> 0]
    /\ live' = [t \in Task |-> 0]
    /\ UNCHANGED <<fresh, commands>>

----------------------------------------------------------------------------
(* What the purge command may name: any of these, never Running.           *)
PurgeStates == {"Queued", "Waiting"} \cup Terminal

(* The states some task is in: naming another makes no difference.         *)
States == {tasks[t] : t \in Task}

Section(p) ==
    \/ EnqueueCount(p) \/ EnqueueReject(p) \/ EnqueueInsert(p)
    \/ Push(p) \/ Persist(p) \/ Spawn(p) \/ MarkStarted(p)
    \/ \E t \in Task : SweepPersist(p, t) \/ CompleteDependency(p, t)
    \/ \E w \in Task : Wake(p, w)
    \/ WakeDone(p)
    \/ PurgeHeap(p) \/ PurgeChildren(p) \/ PurgeGraph(p) \/ PurgeRows(p)
    \/ AddDependency(p) \/ RegisterChild(p) \/ ParkParent(p)
    \/ EnqueueChild(p) \/ ResumeEnqueue(p)
    \/ CascadeChildren(p) \/ CascadeDone(p)
    \/ \E t \in Task : CascadeCancel(p, t)

LoopStep(p, t) ==
    \/ Start(p, t) \/ LoopPark(p, t) \/ LoopUnpark(p, t) \/ LoopSuspend(p, t)
    \/ LoopQuit(t)
    \/ \E s \in {"Complete", "Failed"} : LoopFinish(p, t, s)
    \/ \E c \in Task : Delegate(p, t, c)

ClientCall(p, t) ==
    \/ Submit(p, t) \/ RegisterExternal(p, t) \/ Requeue(p, t)
    \/ Deny(p, t) \/ Cancel(p, t) \/ Resume(p, t)

Next ==
    \/ \E p \in Proc : Section(p)
    \/ \E p \in Proc, t \in Task : LoopStep(p, t) \/ ClientCall(p, t)
    \/ \E p \in Proc, S \in SUBSET Task : CheckTimeouts(p, S)
    \/ \E p \in Proc, a \in Agent, ss \in SUBSET (PurgeStates \cap States) :
          Purge(p, a, ss)
    \/ DequeueNothing
    \/ \E paused \in SUBSET Agent, t \in Task : Dequeue(t, paused)
    \/ \E stale, K \in SUBSET Task : Restart(stale, K)

Spec == Init /\ [][Next]_vars

----------------------------------------------------------------------------
(* Correctness.                                                            *)

(* Every variable holds what its declaration says.                         *)
TypeOK ==
    /\ tasks \in [Task -> MaybeState]
    /\ heap \in [Task -> Nat]
    /\ edges \in SUBSET (Task \X Task)
    /\ children \in [Task -> SUBSET Task]
    /\ rows \in [Task -> MaybeState]
    /\ call \in [Proc -> Call]
    /\ starting \in [Task -> Nat]
    /\ live \in [Task -> Nat]
    /\ fresh \in SUBSET Task
    /\ commands \in Nat
    /\ restarts \in Nat

(* Call c is about to push or to run t; c will persist t.                  *)
Carries(c, t) ==
    /\ c.task = t
    /\ \/ c.pc \in {"push", "spawn"}
       \/ c.pc = "persist" /\ c.cont = "spawn"
Persists(c, t) ==
    \/ c.pc \in {"push", "persist"} /\ c.task = t
    \/ c.pc = "sweep" /\ t \in c.waiters

(* A Queued task can always still be dispatched: it is in the heap, or a   *)
(* call is about to push or to run it, or an execution was spawned.  The   *)
(* stale entries dequeue_runnable drops, the heap a purge rebuilds and a   *)
(* requeue racing either must never strand one.  (A resumed task may be    *)
(* stranded by a purge: see EveryQueuedTaskReachable.)                     *)
Reachable(t) ==
    tasks[t] = "Queued" => heap[t] > 0 \/ starting[t] > 0
                            \/ \E p \in Proc : Carries(call[p], t)
NoLostTask == \A t \in Task \ Resumable : Reachable(t)

(* The handbook's words for Queued, of every task.                         *)
EveryQueuedTaskReachable == \A t \in Task : Reachable(t)

(* A task the map holds has a row, or the call that stored it last has not *)
(* returned: what the scheduler has accepted, a crash does not lose.       *)
NoUnrecordedTask ==
    \A t \in Task \ Resumable :
        tasks[t] # Absent => rows[t] # Absent \/ \E p \in Proc : Persists(call[p], t)

(* Somebody has still to enqueue t, or to take it out of the graph.        *)
BeingEnqueued(c, t) ==
    \/ Delegating(c) /\ t \in c.todo
    \/ c.pc \in {"count", "insert", "reject"} /\ c.task = t
BeingPurged(c, t) == c.pc \in {"pheap", "pchild", "pgraph"} /\ t \in c.todo
Completing(c, t) ==
    /\ t \in c.todo
    /\ c.pc = "depend" \/ (c.pc = "persist" /\ c.cont = "depend")

(* A task waits only for what will come: no edge leads to a task that is   *)
(* gone or complete, unless the call that enqueues it or that removes its  *)
(* edges is on its way.                                                    *)
NoDanglingEdge ==
    \A e \in edges :
        /\ tasks[e[2]] = Absent =>
               \E p \in Proc : BeingEnqueued(call[p], e[2]) \/ BeingPurged(call[p], e[2])
        /\ tasks[e[2]] = "Complete" => \E p \in Proc : Completing(call[p], e[2])

Quiet == \A p \in Proc : At(p, "idle")

(* A crash between two calls loses no history and no checkpointed work:    *)
(* what had finished comes back as it finished, and a task with a          *)
(* checkpoint that was alive comes back alive, whatever its agent's cap.   *)
CrashKeepsWork ==
    [][(restarts' # restarts /\ Quiet) =>
         \A t \in Task :
            /\ tasks[t] \in Terminal => tasks'[t] = tasks[t]
            /\ t \in Resumable /\ tasks[t] \notin Terminal \cup {Absent}
                 => tasks'[t] \notin Terminal \cup {Absent}]_vars

=============================================================================
