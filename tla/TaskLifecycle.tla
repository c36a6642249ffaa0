--------------------------- MODULE TaskLifecycle ---------------------------
(***************************************************************************)
(* The life of tasks above the scheduler: the executor that dispatches     *)
(* them, the execution loop of each, delegation and inline agent calls,    *)
(* the completion of a task and what it does to its parent, the timeout    *)
(* checker and an operator who cancels.  The scheduler's methods, which    *)
(* TaskScheduler takes apart, are atomic here; between two of them any     *)
(* other party moves.  A slot of Slot is one run of execute_task_sync with *)
(* the completion that follows it.                                         *)
(***************************************************************************)
EXTENDS TaskModel

CONSTANTS
    Slot,           \* bound: executions at a time
    None,           \* no task, no slot
    MaxConcurrent,  \* max_concurrent_tasks of the configuration
    MaxCalls,       \* bound: tool calls of one model answer
    MaxRoots,       \* bound: tasks submitted from outside
    MaxCancels,     \* bound: cancellations by an operator
    MaxTimeouts     \* bound: tasks that run out of time

ASSUME SlotAssumption == Slot \subseteq Nat /\ None \notin Task \cup Slot
ASSUME BoundAssumption ==
    /\ IsFiniteSet(Task)
    /\ {MaxConcurrent, MaxCalls, MaxRoots, MaxCancels, MaxTimeouts} \subseteq Nat

VARIABLES
    state,      \* the scheduler's map: state of each task, or Absent
    heap,       \* number of heap entries of each task
    waits,      \* the dependency graph
    kids,       \* child_map
    rejected,   \* tasks that enqueue refused
    origin,     \* parent_task_id of each task
    ctx,        \* whether the context manager holds a window for the task
    got,        \* the sub-agent results injected into each window
    rpc,        \* the pending call of each task run by RPC, and its answer
    slot,       \* what each execution is doing
    checker,    \* what the timeout checker is doing
    operator,   \* what the cancelling operator is doing
    fresh,      \* task identifiers not minted yet
    cancels,    \* cancellations so far
    timeouts    \* tasks timed out so far

schedVars == <<state, heap, waits, kids, rejected>>
ctxVars   == <<ctx, got>>
runVars   == <<fresh, cancels, timeouts>>
vars == <<schedVars, origin, ctxVars, rpc, slot, checker, operator, runVars>>

----------------------------------------------------------------------------
(* Executions.                                                             *)

Pc == {"free", "begin", "setup", "turn", "act",
       "child", "park", "enqueue",                      \* task-delegate
       "adopt",                                         \* spawn-agent
       "cchild", "cstart", "cpark", "await", "back", "hear",    \* agent-call
       "done", "fail", "failing", "inject", "settle", "wake", "close",
       "paused"}

(* child: the child of the call in progress; caller: the execution that    *)
(* runs this one inline; todo: waiters to requeue; ok: the task succeeded; *)
(* left: tool calls left in the answer; parked: one of them was a          *)
(* delegation that parked the task.                                        *)
Execution == [pc : Pc, task : Task \cup {None}, child : Task \cup {None},
              caller : Slot \cup {None}, todo : SUBSET Task, ok : BOOLEAN,
              left : 0..MaxCalls, parked : BOOLEAN]

Free == [pc |-> "free", task |-> None, child |-> None, caller |-> None,
         todo |-> {}, ok |-> FALSE, left |-> 0, parked |-> FALSE]

At(s, l) == slot[s].pc = l
Goto(s, l) == slot' = [slot EXCEPT ![s].pc = l]

(* Execution s is over, and the one that ran it inline goes on.            *)
End(s) ==
    [r \in Slot |-> IF r = s THEN Free
                    ELSE IF r = slot[s].caller THEN [slot[r] EXCEPT !.pc = "back"]
                    ELSE slot[r]]

(* Execution s goes on at l if it has something left to do.                *)
GotoOrEnd(s, more, l) ==
    slot' = IF more THEN [slot EXCEPT ![s].pc = l] ELSE End(s)

(* The free slot that the next execution takes.                            *)
NextSlot(s) == At(s, "free") /\ \A r \in Slot : At(r, "free") => s <= r

(* An execution that may still infer and call tools: not one whose answer  *)
(* is dealt with and that is about to end because it parked the task.      *)
Iterating(s) ==
    /\ slot[s].pc \in {"setup", "turn", "act", "child", "park", "enqueue",
                       "adopt", "cchild", "cstart", "cpark", "await", "back",
                       "hear"}
    /\ ~(At(s, "act") /\ slot[s].parked /\ slot[s].left = 0)

(* The scheduler's methods.                                                *)

UpdateIfNotTerminal(t, l) ==
    state' = [state EXCEPT ![t] = IF @ \in Terminal THEN @ ELSE l]

Enqueue(t) ==
    IF state[t] = Absent /\ AtCap(state, AgentOf[t])
    THEN /\ state' = [state EXCEPT ![t] = "Failed"]
         /\ rejected' = rejected \cup {t}
         /\ UNCHANGED heap
    ELSE /\ state' = [state EXCEPT ![t] = "Queued"]
         /\ heap' = [heap EXCEPT ![t] = @ + 1]
         /\ UNCHANGED rejected

(* Mutant: wakes the task whatever its state.                              *)
RequeueAny(t) ==
    /\ state' = [state EXCEPT ![t] = "Queued"]
    /\ heap' = [heap EXCEPT ![t] = @ + 1]

Requeue(t) ==
    IF state[t] \in Parked
    THEN /\ state' = [state EXCEPT ![t] = "Queued"]
         /\ heap' = [heap EXCEPT ![t] = @ + 1]
    ELSE UNCHANGED <<state, heap>>

CloseContext(t) ==
    /\ ctx' = [ctx EXCEPT ![t] = FALSE]
    /\ got' = [got EXCEPT ![t] = {}]

Init ==
    /\ state = [t \in Task |-> Absent]
    /\ heap = [t \in Task |-> 0]
    /\ waits = {}
    /\ kids = [t \in Task |-> {}]
    /\ rejected = {}
    /\ origin = [t \in Task |-> None]
    /\ ctx = [t \in Task |-> FALSE]
    /\ got = [t \in Task |-> {}]
    /\ rpc = [t \in Task |-> "none"]
    /\ slot = [s \in Slot |-> Free]
    /\ checker = [pc |-> "idle", task |-> None, todo |-> {}, waiters |-> {}]
    /\ operator = [task |-> None, todo |-> {}]
    /\ fresh = Task
    /\ cancels = 0
    /\ timeouts = 0

----------------------------------------------------------------------------
(* Submission and dispatch.                                                *)

Roots == {t \in Task \ fresh : origin[t] = None}

Submit(t) ==
    /\ t \in fresh
    /\ Cardinality(Roots) < MaxRoots
    /\ fresh' = fresh \ {t}
    /\ Enqueue(t)
    /\ UNCHANGED <<waits, kids, origin, ctxVars, rpc, slot, checker, operator,
                   cancels, timeouts>>

Running == {t \in Task : state[t] = "Running"}
(* Mutant: looks at the map and not at the heap.                           *)
RunnableByState == {t \in Task : state[t] = "Queued"}

Runnable == {t \in Task : heap[t] > 0 /\ state[t] = "Queued"}

(* A tick of the executor that finds a task: the entries before it, whose  *)
(* tasks are no longer Queued, go with it.                                 *)
Dispatch(s, t) ==
    /\ NextSlot(s)
    /\ Cardinality(Running) < MaxConcurrent
    /\ t \in Runnable
    /\ \A u \in Runnable \ {t} : Ahead(t, u)
    /\ heap' = [u \in Task |-> IF u = t THEN heap[u] - 1
                               ELSE IF Ahead(u, t) THEN 0 ELSE heap[u]]
    /\ slot' = [slot EXCEPT ![s] = [Free EXCEPT !.pc = "begin", !.task = t]]
    /\ UNCHANGED <<state, waits, kids, rejected, origin, ctxVars, rpc, checker,
                   operator, runVars>>

(* A tick that finds nothing.                                              *)
IdleTick ==
    /\ Runnable = {}
    /\ heap' = IF Cardinality(Running) < MaxConcurrent
               THEN [t \in Task |-> 0] ELSE heap
    /\ UNCHANGED <<state, waits, kids, rejected, origin, ctxVars, rpc, slot,
                   checker, operator, runVars>>

----------------------------------------------------------------------------
(* The loop of a task.                                                     *)

(* execute_task: a task that ended while it was queued is not run.         *)
Begin(s) ==
    /\ At(s, "begin")
    /\ UpdateIfNotTerminal(slot[s].task, "Running")
    /\ GotoOrEnd(s, state[slot[s].task] \notin Terminal, "setup")
    /\ UNCHANGED <<heap, waits, kids, rejected, origin, ctxVars, rpc, checker,
                   operator, runVars>>

(* The window of a task that resumes is kept.                              *)
Setup(s) ==
    /\ At(s, "setup")
    /\ ctx' = [ctx EXCEPT ![slot[s].task] = TRUE]
    /\ Goto(s, "turn")
    /\ UNCHANGED <<schedVars, origin, got, rpc, checker, operator, runVars>>

(* The window is gone: somebody ended the task.                            *)
Abort(s) ==
    /\ At(s, "turn")
    /\ ~ctx[slot[s].task]
    /\ Goto(s, "fail")
    /\ UNCHANGED <<schedVars, origin, ctxVars, rpc, checker, operator, runVars>>

(* The model or a limit makes the loop fail.                               *)
Quit(s) ==
    /\ At(s, "turn")
    /\ ctx[slot[s].task]
    /\ Goto(s, "fail")
    /\ UNCHANGED <<schedVars, origin, ctxVars, rpc, checker, operator, runVars>>

(* The model gives its answer.                                             *)
Answer(s) ==
    /\ At(s, "turn")
    /\ ctx[slot[s].task]
    /\ CloseContext(slot[s].task)
    /\ Goto(s, "done")
    /\ UNCHANGED <<schedVars, origin, rpc, checker, operator, runVars>>

(* Execution s makes a tool call for which it mints the task c.            *)
ToolCall(s, c, l) ==
    /\ \/ At(s, "turn") /\ ctx[slot[s].task] /\ MaxCalls > 0
       \/ At(s, "act") /\ slot[s].left > 0
    /\ c \in fresh
    /\ fresh' = fresh \ {c}
    /\ origin' = [origin EXCEPT ![c] = slot[s].task]
    /\ slot' = [slot EXCEPT ![s].pc = l, ![s].child = c,
                            ![s].left = IF At(s, "turn") THEN MaxCalls - 1
                                                         ELSE @ - 1]
    /\ UNCHANGED <<kids, ctxVars, checker, operator, cancels, timeouts>>

(* All calls of an answer are made: the loop ends if one of them parked    *)
(* the task, and iterates otherwise.                                       *)
EndBatch(s) ==
    /\ At(s, "act")
    /\ slot' = [slot EXCEPT ![s].pc = IF slot[s].parked THEN "paused" ELSE "turn",
                            ![s].left = 0, ![s].child = None,
                            ![s].parked = FALSE]
    /\ UNCHANGED <<schedVars, origin, ctxVars, rpc, checker, operator, runVars>>

----------------------------------------------------------------------------
(* task-delegate: the task waits for a child.                              *)

Delegate(s, c) ==
    /\ ToolCall(s, c, "child")
    /\ waits' = waits \cup {<<slot[s].task, c>>}
    /\ UNCHANGED <<state, heap, rejected, rpc>>

(* register_child, from where the call goes on at l.                       *)
RegisterChild(s, l) ==
    /\ kids' = [kids EXCEPT ![slot[s].task] = @ \cup {slot[s].child}]
    /\ Goto(s, l)
    /\ UNCHANGED <<state, heap, waits, rejected, origin, ctxVars, rpc, checker,
                   operator, runVars>>

DelegateChild(s) == At(s, "child") /\ RegisterChild(s, "park")

(* Mutant: the loop goes on although the task is parked.                   *)
ParkAndIterate(s) ==
    /\ At(s, "park")
    /\ UpdateIfNotTerminal(slot[s].task, "Waiting")
    /\ Goto(s, "enqueue")
    /\ UNCHANGED <<heap, waits, kids, rejected, origin, ctxVars, rpc, checker,
                   operator, runVars>>

ParkParent(s) ==
    /\ At(s, "park")
    /\ UpdateIfNotTerminal(slot[s].task, "Waiting")
    /\ slot' = [slot EXCEPT ![s].pc = "enqueue",
                            ![s].parked = @ \/ state[slot[s].task] \notin Terminal]
    /\ UNCHANGED <<heap, waits, kids, rejected, origin, ctxVars, rpc, checker,
                   operator, runVars>>

(* The child is queued or refused; the caller does not look.               *)
EnqueueChild(s) ==
    /\ At(s, "enqueue")
    /\ Enqueue(slot[s].child)
    /\ Goto(s, "act")
    /\ UNCHANGED <<waits, kids, origin, ctxVars, rpc, checker, operator, runVars>>

(* spawn-agent: fire and forget.                                           *)

Spawn(s, c) ==
    /\ ToolCall(s, c, "adopt")
    /\ Enqueue(c)
    /\ UNCHANGED <<waits, rpc>>

SpawnAdopt(s) == At(s, "adopt") /\ RegisterChild(s, "act")

----------------------------------------------------------------------------
(* An agent call: the child runs inside the caller's execution.            *)

(* register_external puts the child in the map, not on the heap.           *)
CallAgent(s, c) ==
    /\ ToolCall(s, c, "cchild")
    /\ rpc' = [rpc EXCEPT ![c] = "open"]
    /\ state' = [state EXCEPT ![c] = "Queued"]
    /\ UNCHANGED <<heap, waits, rejected>>

CallChild(s) == At(s, "cchild") /\ RegisterChild(s, "cstart")

CallStart(s) ==
    /\ At(s, "cstart")
    /\ UpdateIfNotTerminal(slot[s].child, "Running")
    /\ Goto(s, "cpark")
    /\ UNCHANGED <<heap, waits, kids, rejected, origin, ctxVars, rpc, checker,
                   operator, runVars>>

(* The caller waits; execution r of the child begins.                      *)
CallPark(s, r) ==
    /\ At(s, "cpark")
    /\ NextSlot(r)
    /\ UpdateIfNotTerminal(slot[s].task, "Waiting")
    /\ slot' = [slot EXCEPT ![s].pc = "await",
                            ![r] = [Free EXCEPT !.pc = "setup", !.caller = s,
                                                !.task = slot[s].child]]
    /\ UNCHANGED <<heap, waits, kids, rejected, origin, ctxVars, rpc, checker,
                   operator, runVars>>

CallBack(s) ==
    /\ At(s, "back")
    /\ UpdateIfNotTerminal(slot[s].task, "Running")
    /\ Goto(s, "hear")
    /\ UNCHANGED <<heap, waits, kids, rejected, origin, ctxVars, rpc, checker,
                   operator, runVars>>

(* The caller picks its answer off the one-shot channel.                   *)
CallHear(s) ==
    /\ At(s, "hear")
    /\ rpc[slot[s].child] \in {"ok", "failed"}
    /\ Goto(s, "act")
    /\ UNCHANGED <<schedVars, origin, ctxVars, rpc, checker, operator, runVars>>

(* complete_call: the first answer counts, and only to a pending call.     *)
CompleteCall(t, l) == rpc' = [rpc EXCEPT ![t] = IF @ = "open" THEN l ELSE @]

----------------------------------------------------------------------------
(* The completion of a task.                                               *)

(* complete_task_success: the state first.                                 *)
Succeed(s) ==
    /\ At(s, "done")
    /\ UpdateIfNotTerminal(slot[s].task, "Complete")
    /\ slot' = IF state[slot[s].task] \in Terminal THEN End(s)
               ELSE [slot EXCEPT ![s].ok = TRUE, ![s].pc = "settle"]
    /\ UNCHANGED <<heap, waits, kids, rejected, origin, ctxVars, rpc, checker,
                   operator, runVars>>

(* complete_task_failure: a task that is parked is only paused.            *)
Fail(s) ==
    /\ At(s, "fail")
    /\ Goto(s, IF state[slot[s].task] \in Parked THEN "paused" ELSE "failing")
    /\ UNCHANGED <<schedVars, origin, ctxVars, rpc, checker, operator, runVars>>

(* The caller of a paused task is told that the call failed.               *)
Pause(s) ==
    /\ At(s, "paused")
    /\ CompleteCall(slot[s].task, "failed")
    /\ slot' = End(s)
    /\ UNCHANGED <<schedVars, origin, ctxVars, checker, operator, runVars>>

(* Mutant: the failure never reaches the parent's window.                  *)
FailingSilently(s) ==
    /\ At(s, "failing")
    /\ UpdateIfNotTerminal(slot[s].task, "Failed")
    /\ GotoOrEnd(s, state[slot[s].task] \notin Terminal, "settle")
    /\ UNCHANGED <<heap, waits, kids, rejected, origin, ctxVars, rpc, checker,
                   operator, runVars>>

Failing(s) ==
    /\ At(s, "failing")
    /\ UpdateIfNotTerminal(slot[s].task, "Failed")
    /\ GotoOrEnd(s, state[slot[s].task] \notin Terminal, "inject")
    /\ UNCHANGED <<heap, waits, kids, rejected, origin, ctxVars, rpc, checker,
                   operator, runVars>>

(* The outcome reaches the parent's window, if there is one; a failure     *)
(* does so before the parent is woken, a success after.                    *)
Inject(s) ==
    /\ At(s, "inject")
    /\ LET t == slot[s].task p == origin[t] IN
       got' = IF p \in Task /\ ctx[p] THEN [got EXCEPT ![p] = @ \cup {t}] ELSE got
    /\ GotoOrEnd(s, ~slot[s].ok, "settle")
    /\ UNCHANGED <<schedVars, origin, ctx, rpc, checker, operator, runVars>>

AfterWake(s) == IF slot[s].ok THEN "inject" ELSE "close"

(* Mutant: the edges go before the waiters are read.                       *)
SettleLate(s) ==
    /\ At(s, "settle")
    /\ CompleteCall(slot[s].task, IF slot[s].ok THEN "ok" ELSE "failed")
    /\ waits' = RemoveEdges(waits, {slot[s].task})
    /\ Goto(s, AfterWake(s))
    /\ UNCHANGED <<state, heap, kids, rejected, origin, ctxVars, checker,
                   operator, runVars>>

(* The caller gets its answer, and the waiters are taken from the graph.   *)
Settle(s) ==
    /\ At(s, "settle")
    /\ LET t == slot[s].task D == Dependents(waits, t) IN
       /\ CompleteCall(t, IF slot[s].ok THEN "ok" ELSE "failed")
       /\ waits' = RemoveEdges(waits, {t})
       /\ slot' = [slot EXCEPT ![s].todo = D,
                               ![s].pc = IF D = {} THEN AfterWake(s) ELSE "wake"]
    /\ UNCHANGED <<state, heap, kids, rejected, origin, ctxVars, checker,
                   operator, runVars>>

(* Mutant: the waiter is forgotten.                                        *)
WakeNobody(s, w) ==
    /\ At(s, "wake")
    /\ w \in slot[s].todo
    /\ slot' = [slot EXCEPT ![s].todo = {}, ![s].pc = AfterWake(s)]
    /\ UNCHANGED <<schedVars, origin, ctxVars, rpc, checker, operator, runVars>>

Wake(s, w) ==
    /\ At(s, "wake")
    /\ w \in slot[s].todo
    /\ Requeue(w)
    /\ slot' = [slot EXCEPT ![s].todo = @ \ {w},
                            ![s].pc = IF slot[s].todo = {w} THEN AfterWake(s)
                                                            ELSE @]
    /\ UNCHANGED <<waits, kids, rejected, origin, ctxVars, rpc, checker,
                   operator, runVars>>

(* A failed task leaves its window behind only here.                       *)
Close(s) ==
    /\ At(s, "close")
    /\ CloseContext(slot[s].task)
    /\ slot' = End(s)
    /\ UNCHANGED <<schedVars, origin, rpc, checker, operator, runVars>>

----------------------------------------------------------------------------
(* The timeout checker.                                                    *)

Overdue == {t \in Task : state[t] \in {"Running", "Waiting", "Suspended"}}

(* check_timeouts: every task that is overdue fails at once.               *)
TimeOut(S) ==
    /\ checker.pc = "idle"
    /\ S # {} /\ S \subseteq Overdue
    /\ timeouts + Cardinality(S) <= MaxTimeouts
    /\ timeouts' = timeouts + Cardinality(S)
    /\ state' = [t \in Task |-> IF t \in S THEN "Failed" ELSE state[t]]
    /\ checker' = [checker EXCEPT !.pc = "next", !.todo = S]
    /\ UNCHANGED <<heap, waits, kids, rejected, origin, ctxVars, rpc, slot,
                   operator, fresh, cancels>>

CheckerSettle(t) ==
    /\ checker.pc = "next"
    /\ t \in checker.todo
    /\ waits' = RemoveEdges(waits, {t})
    /\ checker' = [pc |-> "wake", task |-> t, todo |-> checker.todo \ {t},
                   waiters |-> Dependents(waits, t)]
    /\ UNCHANGED <<state, heap, kids, rejected, origin, ctxVars, rpc, slot,
                   operator, runVars>>

CheckerWake(w) ==
    /\ checker.pc = "wake"
    /\ w \in checker.waiters
    /\ Requeue(w)
    /\ checker' = [checker EXCEPT !.waiters = @ \ {w}]
    /\ UNCHANGED <<waits, kids, rejected, origin, ctxVars, rpc, slot, operator,
                   runVars>>

(* Nothing tells the parent or the caller of the task.                     *)
CheckerClose ==
    /\ checker.pc = "wake"
    /\ checker.waiters = {}
    /\ CloseContext(checker.task)
    /\ checker' = [checker EXCEPT !.task = None,
                                  !.pc = IF checker.todo = {} THEN "idle"
                                                              ELSE "next"]
    /\ UNCHANGED <<schedVars, origin, rpc, slot, operator, runVars>>

(* Mutant: takes it that a call whose task is over was answered.           *)
SweepLiveCall(t) ==
    /\ checker.pc = "idle"
    /\ rpc[t] = "open"
    /\ state[t] \notin Terminal
    /\ rpc' = [rpc EXCEPT ![t] = "failed"]
    /\ UNCHANGED <<schedVars, origin, ctxVars, slot, checker, operator, runVars>>

(* rpc_manager.sweep_expired: a call that is overdue is answered.          *)
SweepCall(t) ==
    /\ checker.pc = "idle"
    /\ rpc[t] = "open"
    /\ rpc' = [rpc EXCEPT ![t] = "failed"]
    /\ UNCHANGED <<schedVars, origin, ctxVars, slot, checker, operator, runVars>>

----------------------------------------------------------------------------
(* An operator cancels a task, and with it all its descendants.            *)

(* update_state overwrites whatever the state was.                         *)
CancelTask(t, S) ==
    /\ state' = [state EXCEPT ![t] = "Cancelled"]
    /\ operator' = [task |-> t, todo |-> S]

Cancel(t) ==
    /\ operator = [task |-> None, todo |-> {}]
    /\ cancels < MaxCancels
    /\ cancels' = cancels + 1
    /\ state[t] # Absent
    /\ CancelTask(t, {})
    /\ UNCHANGED <<heap, waits, kids, rejected, origin, ctxVars, rpc, slot,
                   checker, fresh, timeouts>>

CancelClose ==
    /\ operator.task # None
    /\ CloseContext(operator.task)
    /\ operator' = [task |-> None, todo |-> operator.todo \cup kids[operator.task]]
    /\ UNCHANGED <<schedVars, origin, rpc, slot, checker, runVars>>

(* A child that is not in the map yet is passed over.                      *)
CancelCascade(t) ==
    /\ operator.task = None
    /\ t \in operator.todo
    /\ IF state[t] = Absent
       THEN /\ operator' = [operator EXCEPT !.todo = @ \ {t}]
            /\ UNCHANGED state
       ELSE CancelTask(t, operator.todo \ {t})
    /\ UNCHANGED <<heap, waits, kids, rejected, origin, ctxVars, rpc, slot,
                   checker, runVars>>

----------------------------------------------------------------------------
Execute(s) ==
    \/ Begin(s) \/ Setup(s) \/ Abort(s) \/ Quit(s) \/ Answer(s) \/ EndBatch(s)
    \/ \E c \in Task : Delegate(s, c) \/ Spawn(s, c) \/ CallAgent(s, c)
    \/ DelegateChild(s) \/ ParkParent(s) \/ EnqueueChild(s) \/ SpawnAdopt(s)
    \/ CallChild(s) \/ CallStart(s)
    \/ \E r \in Slot : CallPark(s, r)
    \/ CallBack(s) \/ CallHear(s)
    \/ Succeed(s) \/ Fail(s) \/ Pause(s) \/ Failing(s) \/ Inject(s) \/ Settle(s)
    \/ \E w \in Task : Wake(s, w)
    \/ Close(s)

Executor == IdleTick \/ \E s \in Slot, t \in Task : Dispatch(s, t)

Check ==
    \/ \E t \in Task : CheckerSettle(t)
    \/ \E w \in Task : CheckerWake(w)
    \/ CheckerClose

Cascade == CancelClose \/ \E t \in Task : CancelCascade(t)

Next ==
    \/ \E t \in Task : Submit(t) \/ Cancel(t) \/ SweepCall(t)
    \/ Executor
    \/ \E s \in Slot : Execute(s)
    \/ \E S \in SUBSET Task : TimeOut(S)
    \/ Check
    \/ Cascade

(* The runtime polls every execution that is ready, and the iteration      *)
(* limit ends every loop; the executor and the checker tick for ever; an   *)
(* operator's command runs to its end; a call has a deadline.  Nothing is  *)
(* assumed of submissions, cancellations and tasks' deadlines.             *)
Fairness ==
    /\ WF_vars(Executor)
    /\ \A s \in Slot : WF_vars(Execute(s))
    /\ WF_vars(Check)
    /\ WF_vars(Cascade)
    /\ \A t \in Task : WF_vars(SweepCall(t))

Spec == Init /\ [][Next]_vars /\ Fairness

----------------------------------------------------------------------------
TypeOK ==
    /\ state \in [Task -> MaybeState]
    /\ heap \in [Task -> Nat]
    /\ waits \subseteq Task \X Task
    /\ kids \in [Task -> SUBSET Task]
    /\ rejected \subseteq Task
    /\ origin \in [Task -> Task \cup {None}]
    /\ ctx \in [Task -> BOOLEAN]
    /\ got \in [Task -> SUBSET Task]
    /\ rpc \in [Task -> {"none", "open", "ok", "failed"}]
    /\ slot \in [Slot -> Execution]
    /\ checker \in [pc : {"idle", "next", "wake"}, task : Task \cup {None},
                    todo : SUBSET Task, waiters : SUBSET Task]
    /\ operator \in [task : Task \cup {None}, todo : SUBSET Task]
    /\ fresh \subseteq Task
    /\ cancels \in 0..MaxCancels
    /\ timeouts \in 0..MaxTimeouts

(* A task has one loop that infers and calls tools at a time, whatever     *)
(* wakes it: the requeue of scheduler.rs must never let the executor start *)
(* a second one over the same context.                                     *)
OneActiveLoop ==
    \A s, r \in Slot :
        Iterating(s) /\ Iterating(r) /\ slot[s].task = slot[r].task => s = r

(* A parent whose delegated child failed by itself finds the failure in    *)
(* its window when it runs again (complete_task_failure injects before it  *)
(* wakes).                                                                 *)
FailureIsKnown ==
    \A s \in Slot, w \in Task :
        At(s, "wake") /\ ~slot[s].ok /\ w \in slot[s].todo /\ ctx[w]
            => slot[s].task \in got[w]

(* t waits, directly or through others, for a task that was cancelled or   *)
(* refused: nothing but its own deadline will end it.                      *)
Stranded(t) ==
    \E c \in Task : /\ Reaches(waits, t, c)
                    /\ state[c] = "Cancelled" \/ c \in rejected

(* Without the help of any deadline of its own, an accepted task ends, or  *)
(* hangs on a cancelled or refused one.                                    *)
AcceptedTasksSettle ==
    \A t \in Task :
        (state[t] # Absent) ~> (state[t] \in Terminal \/ Stranded(t))

(* An execution that runs an agent inline comes back from the call, even   *)
(* if the callee is cancelled or parks.                                    *)
CallersReturn ==
    \A s \in Slot : At(s, "await") ~> At(s, "act")

----------------------------------------------------------------------------
(* The ledger this implements.                                             *)

lifeBar == [t \in Task |->
    CASE state[t] = Absent -> "none"
      [] state[t] = "Queued" -> "pending"
      [] state[t] = "Running" -> "active"
      [] state[t] \in Parked -> "parked"
      [] OTHER -> "ended"]

awaitsBar == [t \in Task |-> {c \in Task : <<t, c>> \in waits}]

inlineBar == [t \in Task |->
    {slot[s].child : s \in {r \in Slot : At(r, "await") /\ slot[r].task = t}}]

newsBar == [t \in Task |->
    {c \in Task :
        \/ \E s \in Slot :
              \/ At(s, "wake") /\ slot[s].task = c /\ t \in slot[s].todo
              \/ At(s, "back") /\ slot[s].task = t /\ slot[s].child = c
        \/ checker.pc = "wake" /\ checker.task = c /\ t \in checker.waiters}]

Ledger == INSTANCE TaskLedger WITH life <- lifeBar, awaits <- awaitsBar,
                                   inline <- inlineBar, news <- newsBar

(* Seen from outside, tasks follow the ledger: an end is final, and a      *)
(* parked task goes on only on news.                                       *)
FollowsLedger == Ledger!Steps

(* The same, and news is always delivered.                                 *)
ImplementsLedger == Ledger!Spec

=============================================================================
