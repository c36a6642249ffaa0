---------------------------- MODULE Escalations ----------------------------
(***************************************************************************)
(* Questions to a human operator.  A task's loop asks (create_escalation,  *)
(* the approval hook, the inference watchdog, a soft approval), and the    *)
(* operator's answer, the expiry sweep or the end of the task decides.     *)
(* The EscalationManager keeps the questions under two write locks and the *)
(* one-shot resolution channels in two maps; every question is persisted.  *)
(*                                                                         *)
(* A process is a task's loop, an operator or the sweeper; call[p] is the  *)
(* section it runs next.  The scheduler's methods are atomic here:         *)
(* TaskScheduler is about their sections.                                  *)
(***************************************************************************)
EXTENDS Naturals, FiniteSets

CONSTANTS
    Task,
    Operator,
    Sweeper,        \* the timeout checker's loop, which also sweeps
    None,
    Kinds,          \* the kinds of question the loops ask
    Surfaces,       \* where the operators answer
    MaxPerTask,     \* MAX_ESCALATIONS_PER_TASK
    MaxId,          \* bound: identifiers handed out
    MaxRestarts     \* bound: crashes

(* tool: approval of a tool call, waited for in the loop; gate: the        *)
(* inference watchdog; park: the loop ends and the task waits; soft:       *)
(* approved by itself unless somebody objects.                             *)
Kind == {"tool", "gate", "park", "soft"}

(* command: the kernel command, the API and the web page; channel: a       *)
(* message such as "/approve 7" from a paired chat.                        *)
Surface == {"command", "channel"}

Proc == Task \cup Operator \cup {Sweeper}

ASSUME ProcessAssumption ==
    /\ Task \cap Operator = {}
    /\ Sweeper \notin Task \cup Operator
    /\ None \notin Proc
ASSUME KindAssumption == Kinds \subseteq Kind /\ Surfaces \subseteq Surface
ASSUME CountAssumption == {MaxPerTask, MaxId, MaxRestarts} \subseteq Nat

Id == 1..MaxId
Decided == {"approved", "denied", "expired"}
Status  == {"pending"} \cup Decided
Nothing == "nothing"

VARIABLES
    tasks,      \* the scheduler's state of each task
    esc,        \* the questions in memory
    rows,       \* the pending_escalations table: status of each question
    next,       \* next_id
    escLock,    \* who holds the write lock of the questions over a section
    idLock,     \* who holds the write lock of next_id over a section
    tx,         \* questions with a sender in pending_resolution_tx
    rx,         \* the receiver of each: in the map, held by a loop, or gone
    msg,        \* what was sent on the channel of each
    announced,  \* questions the sinks have shown to the operators
    call,       \* the call of each process
    restarts    \* crashes so far

vars == <<tasks, esc, rows, next, escLock, idLock, tx, rx, msg, announced,
          call, restarts>>
locks    == <<escLock, idLock>>
channels == <<tx, rx, msg>>

TaskState == {"Queued", "Running", "Waiting", "Complete", "Failed", "Cancelled"}
Terminal  == {"Complete", "Failed", "Cancelled"}

Question == [task : Task \cup {None}, kind : Kind \cup {Nothing},
             status : Status \cup {Nothing}]
Blank    == [task |-> None, kind |-> Nothing, status |-> Nothing]

----------------------------------------------------------------------------
(* Calls in progress.                                                      *)

Pc == {"idle", "run", "create", "alloc", "install", "persist", "announce",
       "tx", "rx", "take", "wait", "exec", "gwait", "settle", "park", "soft",
       "spush", "spersist", "fail", "close", "store", "wake", "clear", "task",
       "look", "deny"}

(* kind, id: the question the call is about; task: the task being closed;  *)
(* verdict: what a watchdog settles its question with; todo: decided       *)
(* questions to store; wakes: stored ones whose channel is still to wake;  *)
(* acts: expired ones to act on; cont: where to go on after the wakes.     *)
Call == [pc : Pc, kind : Kind \cup {Nothing}, id : Id \cup {0},
         task : Task \cup {None}, verdict : Decided \cup {Nothing},
         todo : SUBSET Id, wakes : SUBSET Id, acts : SUBSET Id, cont : Pc]

Idle == [pc |-> "idle", kind |-> Nothing, id |-> 0, task |-> None,
         verdict |-> Nothing, todo |-> {}, wakes |-> {}, acts |-> {},
         cont |-> "idle"]
Running == [Idle EXCEPT !.pc = "run"]

At(p, l)   == call[p].pc = l
Goto(p, c) == call' = [call EXCEPT ![p] = c]

(* A call that ends forgets what it was about.                             *)
Step(p, l) == Goto(p, CASE l = "idle" -> Idle
                        [] l = "run"  -> Running
                        [] OTHER      -> [call[p] EXCEPT !.pc = l])

PendingOf(t) == {i \in Id : esc[i].status = "pending" /\ esc[i].task = t}
Pending == {i \in Id : esc[i].status = "pending"}

(* p decides the questions of S, under the write lock, as s says.          *)
Decide(S, s) ==
    /\ escLock = None
    /\ esc' = [i \in Id |-> IF i \in S THEN [esc[i] EXCEPT !.status = s[i]]
                            ELSE esc[i]]

(* The call that stores and wakes the questions of S and goes on at l.     *)
Storing(c, S, l) == [c EXCEPT !.pc = "store", !.todo = S, !.cont = l]

Init ==
    /\ tasks = [t \in Task |-> "Queued"]
    /\ esc = [i \in Id |-> Blank]
    /\ rows = [i \in Id |-> Nothing]
    /\ next = 1
    /\ escLock = None
    /\ idLock = None
    /\ tx = {}
    /\ rx = [i \in Id |-> Nothing]
    /\ msg = [i \in Id |-> Nothing]
    /\ announced = {}
    /\ call = [p \in Proc |-> Idle]
    /\ restarts = 0

----------------------------------------------------------------------------
(* The loop of a task, and the creation of a question.                     *)

(* The executor takes a queued task that has no loop.                      *)
Dispatch(t) ==
    /\ tasks[t] = "Queued"
    /\ At(t, "idle")
    /\ tasks' = [tasks EXCEPT ![t] = "Running"]
    /\ Goto(t, Running)
    /\ UNCHANGED <<esc, rows, next, locks, channels, announced, restarts>>

(* Loops that have still to take an identifier.                            *)
Asking == {t \in Task : call[t].pc \in {"create", "alloc", "soft"}}

Ask(t, k) ==
    /\ At(t, "run")
    /\ next + Cardinality(Asking) <= MaxId
    /\ Goto(t, [Running EXCEPT !.kind = k,
                               !.pc = IF k = "soft" THEN "soft" ELSE "create"])
    /\ UNCHANGED <<tasks, esc, rows, next, locks, channels, announced, restarts>>

(* create_escalation_internal holds the questions' lock from the cap check *)
(* to the push and takes the lock of next_id inside it.                    *)
CheckCap(t) ==
    /\ At(t, "create")
    /\ escLock = None
    /\ Cardinality(PendingOf(t)) < MaxPerTask
    /\ escLock' = t
    /\ Step(t, "alloc")
    /\ UNCHANGED <<tasks, esc, rows, next, idLock, channels, announced, restarts>>

(* Mutant: the identifier of a refused question is used.                   *)
CapReachedIgnored(t) ==
    /\ At(t, "create")
    /\ escLock = None
    /\ Cardinality(PendingOf(t)) >= MaxPerTask
    /\ Step(t, CASE call[t].kind = "tool" -> "tx"
                 [] call[t].kind = "gate" -> "fail"
                 [] OTHER                 -> "park")
    /\ UNCHANGED <<tasks, esc, rows, next, locks, channels, announced, restarts>>

(* The cap is reached: the tool call fails, the watchdog aborts the loop,  *)
(* and a loop that was to park parks all the same.                         *)
CapReached(t) ==
    /\ At(t, "create")
    /\ escLock = None
    /\ Cardinality(PendingOf(t)) >= MaxPerTask
    /\ Step(t, CASE call[t].kind = "tool" -> "run"
                 [] call[t].kind = "gate" -> "fail"
                 [] OTHER                 -> "park")
    /\ UNCHANGED <<tasks, esc, rows, next, locks, channels, announced, restarts>>

Asked(t) == [task |-> t, kind |-> call[t].kind, status |-> "pending"]

(* Mutant: the lock of the questions is not released.                      *)
AllocateHolding(t) ==
    /\ At(t, "alloc")
    /\ idLock = None
    /\ esc' = [esc EXCEPT ![next] = Asked(t)]
    /\ next' = next + 1
    /\ Goto(t, [call[t] EXCEPT !.id = next,
                  !.pc = IF call[t].kind = "gate" THEN "install" ELSE "persist"])
    /\ UNCHANGED <<tasks, rows, locks, channels, announced, restarts>>

(* Mutant: no question gets its channel before it is announced.            *)
AllocateUnheard(t) ==
    /\ At(t, "alloc")
    /\ idLock = None
    /\ esc' = [esc EXCEPT ![next] = Asked(t)]
    /\ next' = next + 1
    /\ escLock' = None
    /\ Goto(t, [call[t] EXCEPT !.id = next, !.pc = "persist"])
    /\ UNCHANGED <<tasks, rows, idLock, channels, announced, restarts>>

Allocate(t) ==
    /\ At(t, "alloc")
    /\ idLock = None
    /\ esc' = [esc EXCEPT ![next] = Asked(t)]
    /\ next' = next + 1
    /\ escLock' = None
    /\ Goto(t, [call[t] EXCEPT !.id = next,
                  !.pc = IF call[t].kind = "gate" THEN "install" ELSE "persist"])
    /\ UNCHANGED <<tasks, rows, idLock, channels, announced, restarts>>

(* Only create_escalation_with_resolution installs the channel here.       *)
Install(t) ==
    /\ At(t, "install")
    /\ tx' = tx \cup {call[t].id}
    /\ rx' = [rx EXCEPT ![call[t].id] = "held"]
    /\ Step(t, "persist")
    /\ UNCHANGED <<tasks, esc, rows, next, locks, msg, announced, restarts>>

(* The row is the copy taken before the lock was released.                 *)
PersistNew(t) ==
    /\ At(t, "persist")
    /\ rows' = [rows EXCEPT ![call[t].id] = "pending"]
    /\ Step(t, "announce")
    /\ UNCHANGED <<tasks, esc, next, locks, channels, announced, restarts>>

(* fan_out_to_sinks; the creation returns to the loop.                     *)
Announce(t) ==
    /\ At(t, "announce")
    /\ announced' = announced \cup {call[t].id}
    /\ Step(t, CASE call[t].kind = "tool" -> "tx"
                 [] call[t].kind = "gate" -> "gwait"
                 [] OTHER                 -> "park")
    /\ UNCHANGED <<tasks, esc, rows, next, locks, channels, restarts>>

(* create_soft_approval holds the lock of next_id until it returns and     *)
(* takes the questions' lock inside it.                                    *)
SoftAllocate(t) ==
    /\ At(t, "soft")
    /\ idLock = None
    /\ idLock' = t
    /\ next' = next + 1
    /\ Goto(t, [call[t] EXCEPT !.id = next, !.pc = "spush"])
    /\ UNCHANGED <<tasks, esc, rows, escLock, channels, announced, restarts>>

SoftPush(t) ==
    /\ At(t, "spush")
    /\ escLock = None
    /\ esc' = [esc EXCEPT ![call[t].id] = Asked(t)]
    /\ Step(t, "spersist")
    /\ UNCHANGED <<tasks, rows, next, locks, channels, announced, restarts>>

SoftPersist(t) ==
    /\ At(t, "spersist")
    /\ rows' = [rows EXCEPT ![call[t].id] = "pending"]
    /\ idLock' = None
    /\ Goto(t, Running)
    /\ UNCHANGED <<tasks, esc, next, escLock, channels, announced, restarts>>

----------------------------------------------------------------------------
(* What the loop does with its question.                                   *)

(* The approval hook's prepare_resolution: the sender's map, then the      *)
(* receiver's.                                                             *)
InstallSender(t) ==
    /\ At(t, "tx")
    /\ tx' = tx \cup {call[t].id}
    /\ Step(t, "rx")
    /\ UNCHANGED <<tasks, esc, rows, next, locks, rx, msg, announced, restarts>>

InstallReceiver(t) ==
    /\ At(t, "rx")
    /\ rx' = [rx EXCEPT ![call[t].id] = "map"]
    /\ Step(t, "take")
    /\ UNCHANGED <<tasks, esc, rows, next, locks, tx, msg, announced, restarts>>

(* take_resolution_receiver; with no receiver the approval is lost and the *)
(* tool call fails.                                                        *)
Take(t) ==
    /\ At(t, "take")
    /\ IF rx[call[t].id] = "map"
       THEN rx' = [rx EXCEPT ![call[t].id] = "held"] /\ Step(t, "wait")
       ELSE Goto(t, Running) /\ UNCHANGED rx
    /\ UNCHANGED <<tasks, esc, rows, next, locks, tx, msg, announced, restarts>>

(* The wait ends with the message; only an approval runs the tool.         *)
Hear(t) ==
    /\ At(t, "wait")
    /\ msg[call[t].id] # Nothing
    /\ rx' = [rx EXCEPT ![call[t].id] = "gone"]
    /\ IF msg[call[t].id] = "approved" THEN Step(t, "exec") ELSE Goto(t, Running)
    /\ UNCHANGED <<tasks, esc, rows, next, locks, tx, msg, announced, restarts>>

(* The wait's own timer: a minute longer than the life of a question, so   *)
(* the question is decided by then.                                        *)
WaitTimeout(t) ==
    /\ At(t, "wait")
    /\ esc[call[t].id].status # "pending"
    /\ rx' = [rx EXCEPT ![call[t].id] = "gone"]
    /\ Goto(t, Running)
    /\ UNCHANGED <<tasks, esc, rows, next, locks, tx, msg, announced, restarts>>

RunTool(t) ==
    /\ At(t, "exec")
    /\ Goto(t, Running)
    /\ UNCHANGED <<tasks, esc, rows, next, locks, channels, announced, restarts>>

(* The watchdog hears, or the inference completes, or the grace is over:   *)
(* it settles its own question, as denied only if it heard a denial.       *)
GateEnds(t) ==
    /\ At(t, "gwait")
    /\ \/ Goto(t, [call[t] EXCEPT !.pc = "settle", !.verdict = "approved"])
       \/ /\ msg[call[t].id] = "denied"
          /\ Goto(t, [call[t] EXCEPT !.pc = "settle", !.verdict = "denied"])
    /\ rx' = [rx EXCEPT ![call[t].id] = "gone"]
    /\ UNCHANGED <<tasks, esc, rows, next, locks, tx, msg, announced, restarts>>

AfterGate(t) == IF call[t].verdict = "denied" THEN "fail" ELSE "run"

GateSettles(t) ==
    LET i == call[t].id IN
    /\ At(t, "settle")
    /\ escLock = None
    /\ IF i \in Pending
       THEN /\ Decide({i}, [j \in {i} |-> call[t].verdict])
            /\ Goto(t, Storing(call[t], {i}, AfterGate(t)))
       ELSE Step(t, AfterGate(t)) /\ UNCHANGED esc
    /\ UNCHANGED <<tasks, rows, next, locks, channels, announced, restarts>>

(* The loop parks with update_state, whatever the state is by then, and    *)
(* ends.                                                                   *)
Park(t) ==
    /\ At(t, "park")
    /\ tasks' = [tasks EXCEPT ![t] = "Waiting"]
    /\ Step(t, "idle")
    /\ UNCHANGED <<esc, rows, next, locks, channels, announced, restarts>>

(* complete_task_success closes the task's questions in any case,          *)
(* complete_task_failure only if it made the task fail.                    *)
Finish(t) ==
    /\ At(t, "run")
    /\ tasks' = [tasks EXCEPT ![t] = IF @ \in Terminal THEN @ ELSE "Complete"]
    /\ Goto(t, [Idle EXCEPT !.pc = "close", !.task = t])
    /\ UNCHANGED <<esc, rows, next, locks, channels, announced, restarts>>

Fail(t) ==
    /\ call[t].pc \in {"run", "fail"}
    /\ IF tasks[t] \in Terminal
       THEN Goto(t, Idle) /\ UNCHANGED tasks
       ELSE /\ tasks' = [tasks EXCEPT ![t] = "Failed"]
            /\ Goto(t, [Idle EXCEPT !.pc = "close", !.task = t])
    /\ UNCHANGED <<esc, rows, next, locks, channels, announced, restarts>>

----------------------------------------------------------------------------
(* resolve, resolve_for_task and sweep_expired decide under the lock, then *)
(* store what they decided and wake whoever waits.                         *)

(* An operator answers a question; a channel stops at the manager, the     *)
(* command goes on to the task of a blocking question.                     *)
Answer(o, i, v, s) ==
    /\ At(o, "idle")
    /\ i \in Pending
    /\ Decide({i}, [j \in {i} |-> v])
    /\ Goto(o, Storing([Idle EXCEPT !.id = i, !.verdict = v], {i},
                       IF s = "command" /\ esc[i].kind # "soft"
                       THEN "task" ELSE "idle"))
    /\ UNCHANGED <<tasks, rows, next, locks, channels, announced, restarts>>

(* Approval requeues the task if it is parked, denial fails it.            *)
AnswerTask(o) ==
    LET t == esc[call[o].id].task IN
    /\ At(o, "task")
    /\ tasks' = [tasks EXCEPT ![t] =
                   CASE call[o].verdict = "approved" /\ @ = "Waiting" -> "Queued"
                     [] call[o].verdict = "denied" /\ @ \notin Terminal -> "Failed"
                     [] OTHER -> @]
    /\ Goto(o, Idle)
    /\ UNCHANGED <<esc, rows, next, locks, channels, announced, restarts>>

(* Mutant: the questions of a task that was parked are left alone.         *)
CancelQuietly(o, t) ==
    /\ At(o, "idle")
    /\ tasks' = [tasks EXCEPT ![t] = "Cancelled"]
    /\ IF tasks[t] = "Waiting" THEN UNCHANGED call
       ELSE Goto(o, [Idle EXCEPT !.pc = "close", !.task = t])
    /\ UNCHANGED <<esc, rows, next, locks, channels, announced, restarts>>

(* cmd_cancel_task overwrites the state, then closes the questions.        *)
Cancel(o, t) ==
    /\ At(o, "idle")
    /\ tasks' = [tasks EXCEPT ![t] = "Cancelled"]
    /\ Goto(o, [Idle EXCEPT !.pc = "close", !.task = t])
    /\ UNCHANGED <<esc, rows, next, locks, channels, announced, restarts>>

(* Mutant: questions decided before are decided again.                     *)
CloseAgain(p) ==
    LET S == {i \in Id : esc[i].task = call[p].task} IN
    /\ At(p, "close")
    /\ Decide(S, [i \in S |-> "denied"])
    /\ Goto(p, IF S = {} THEN Idle ELSE Storing(call[p], S, "idle"))
    /\ UNCHANGED <<tasks, rows, next, locks, channels, announced, restarts>>

(* resolve_for_task.                                                       *)
Close(p) ==
    LET S == PendingOf(call[p].task) IN
    /\ At(p, "close")
    /\ Decide(S, [i \in S |-> "denied"])
    /\ Goto(p, IF S = {} THEN Idle ELSE Storing(call[p], S, "idle"))
    /\ UNCHANGED <<tasks, rows, next, locks, channels, announced, restarts>>

(* Mutant: only questions somebody waits for expire.                       *)
SweepBlocking(S) ==
    /\ At(Sweeper, "idle")
    /\ S # {}
    /\ S \subseteq {i \in Pending : esc[i].kind # "soft"}
    /\ Decide(S, [i \in S |-> "expired"])
    /\ Goto(Sweeper, Storing([Idle EXCEPT !.acts = S], S, "look"))
    /\ UNCHANGED <<tasks, rows, next, locks, channels, announced, restarts>>

(* sweep_expired; any pending question may be overdue.                     *)
Sweep(S) ==
    /\ At(Sweeper, "idle")
    /\ S # {}
    /\ S \subseteq Pending
    /\ Decide(S, [i \in S |-> IF esc[i].kind = "soft" THEN "approved"
                              ELSE "expired"])
    /\ Goto(Sweeper, Storing([Idle EXCEPT
                        !.acts = {i \in S : esc[i].kind # "soft"}], S, "look"))
    /\ UNCHANGED <<tasks, rows, next, locks, channels, announced, restarts>>

(* The sweep stores all before it wakes any; the others one by one.        *)
Store(p, i) ==
    /\ At(p, "store")
    /\ i \in call[p].todo
    /\ rows' = [rows EXCEPT ![i] = esc[i].status]
    /\ Goto(p, [call[p] EXCEPT
                  !.todo = @ \ {i},
                  !.wakes = @ \cup {i},
                  !.pc = IF p = Sweeper /\ call[p].todo # {i}
                         THEN "store" ELSE "wake"])
    /\ UNCHANGED <<tasks, esc, next, locks, channels, announced, restarts>>

(* Mutant: what is sent does not depend on the decision.                   *)
WakeApproving(p, i) ==
    /\ At(p, "wake")
    /\ i \in call[p].wakes
    /\ tx' = tx \ {i}
    /\ msg' = IF i \in tx THEN [msg EXCEPT ![i] = "approved"] ELSE msg
    /\ Goto(p, [call[p] EXCEPT !.pc = "clear", !.wakes = @ \ {i}, !.id = i])
    /\ UNCHANGED <<tasks, esc, rows, next, locks, rx, announced, restarts>>

(* wake_resolution: send the decision, if there is a sender, ...           *)
Wake(p, i) ==
    /\ At(p, "wake")
    /\ i \in call[p].wakes
    /\ tx' = tx \ {i}
    /\ msg' = IF i \in tx THEN [msg EXCEPT ![i] = esc[i].status] ELSE msg
    /\ Goto(p, [call[p] EXCEPT !.pc = "clear", !.wakes = @ \ {i}, !.id = i])
    /\ UNCHANGED <<tasks, esc, rows, next, locks, rx, announced, restarts>>

(* ... and drop a receiver nobody has taken.                               *)
Clear(p) ==
    LET c == call[p] IN
    /\ At(p, "clear")
    /\ rx' = [rx EXCEPT ![c.id] = IF @ = "map" THEN "gone" ELSE @]
    /\ Step(p, CASE c.wakes # {}                 -> "wake"
                 [] c.wakes = {} /\ c.todo # {}  -> "store"
                 [] OTHER                        -> c.cont)
    /\ UNCHANGED <<tasks, esc, rows, next, locks, tx, msg, announced, restarts>>

(* The sweeper reads the state of an expired question's task, ...          *)
Look(i) ==
    LET s == tasks[esc[i].task] IN
    /\ At(Sweeper, "look")
    /\ i \in call[Sweeper].acts
    /\ Goto(Sweeper,
            [call[Sweeper] EXCEPT
               !.acts = @ \ {i}, !.id = i,
               !.pc = IF s \in Terminal \cup {"Running"} THEN "look" ELSE "deny"])
    /\ UNCHANGED <<tasks, esc, rows, next, locks, channels, announced, restarts>>

(* ... and fails it with update_state_if_not_terminal.                     *)
DenyExpired ==
    LET t == esc[call[Sweeper].id].task IN
    /\ At(Sweeper, "deny")
    /\ tasks' = [tasks EXCEPT ![t] = IF @ \in Terminal THEN @ ELSE "Failed"]
    /\ Step(Sweeper, "look")
    /\ UNCHANGED <<esc, rows, next, locks, channels, announced, restarts>>

SweepDone ==
    /\ At(Sweeper, "look")
    /\ call[Sweeper].acts = {}
    /\ Goto(Sweeper, Idle)
    /\ UNCHANGED <<tasks, esc, rows, next, locks, channels, announced, restarts>>

(* check_timeouts, earlier in the same round; it closes no question.       *)
TimeOut(t) ==
    /\ At(Sweeper, "idle")
    /\ tasks[t] \in {"Running", "Waiting"}
    /\ tasks' = [tasks EXCEPT ![t] = "Failed"]
    /\ UNCHANGED <<esc, rows, next, locks, channels, announced, call, restarts>>

(* Mutant: next_id follows the unresolved questions only.                  *)
RestartUnresolved(n) ==
    /\ restarts < MaxRestarts
    /\ \A i \in Id : i >= n => rows[i] # "pending"
    /\ \A i \in Id : i + 1 = n => rows[i] = "pending"
    /\ restarts' = restarts + 1
    /\ next' = n
    /\ esc' = [i \in Id |-> IF i >= n \/ rows[i] = Nothing THEN Blank
                            ELSE [esc[i] EXCEPT !.status = rows[i]]]
    /\ tasks' = [t \in Task |-> IF tasks[t] = "Running" THEN "Queued" ELSE tasks[t]]
    /\ escLock' = None
    /\ idLock' = None
    /\ tx' = {}
    /\ rx' = [i \in Id |-> Nothing]
    /\ msg' = [i \in Id |-> Nothing]
    /\ call' = [p \in Proc |-> Idle]
    /\ UNCHANGED <<rows, announced>>

(* A crash, and a boot that restores the unresolved questions and takes    *)
(* next_id from the largest identifier in the table.  (The decided         *)
(* questions are no longer in memory, which no operation can tell.)        *)
Restart(n) ==
    /\ restarts < MaxRestarts
    /\ \A i \in Id : i >= n => rows[i] = Nothing
    /\ \A i \in Id : i + 1 = n => rows[i] # Nothing
    /\ restarts' = restarts + 1
    /\ next' = n
    /\ esc' = [i \in Id |-> IF rows[i] = Nothing THEN Blank
                            ELSE [esc[i] EXCEPT !.status = rows[i]]]
    /\ tasks' = [t \in Task |-> IF tasks[t] = "Running" THEN "Queued" ELSE tasks[t]]
    /\ escLock' = None
    /\ idLock' = None
    /\ tx' = {}
    /\ rx' = [i \in Id |-> Nothing]
    /\ msg' = [i \in Id |-> Nothing]
    /\ call' = [p \in Proc |-> Idle]
    /\ UNCHANGED <<rows, announced>>

----------------------------------------------------------------------------
(* A loop goes on by itself, once it has asked, until the question is      *)
(* behind it.                                                              *)
AskStep(t) ==
    \/ CheckCap(t) \/ CapReached(t) \/ Allocate(t) \/ Install(t)
    \/ PersistNew(t) \/ Announce(t)
    \/ SoftAllocate(t) \/ SoftPush(t) \/ SoftPersist(t)
    \/ InstallSender(t) \/ InstallReceiver(t) \/ Take(t) \/ Hear(t)
    \/ WaitTimeout(t) \/ RunTool(t) \/ GateEnds(t) \/ GateSettles(t) \/ Park(t)
    \/ (At(t, "fail") /\ Fail(t))

LoopStep(t) ==
    \/ Dispatch(t) \/ (\E k \in Kinds : Ask(t, k)) \/ AskStep(t)
    \/ Finish(t) \/ Fail(t)

ResolveStep(p) ==
    \/ Close(p)
    \/ \E i \in Id : Store(p, i) \/ Wake(p, i)
    \/ Clear(p)

OperatorStep(o) ==
    \/ \E i \in Id, v \in {"approved", "denied"}, s \in Surfaces : Answer(o, i, v, s)
    \/ \E t \in Task : Cancel(o, t)
    \/ AnswerTask(o)

SweeperStep ==
    \/ \E S \in SUBSET Pending : Sweep(S)
    \/ \E i \in Id : Look(i)
    \/ DenyExpired \/ SweepDone

Next ==
    \/ \E t \in Task : LoopStep(t) \/ TimeOut(t)
    \/ \E p \in Proc : ResolveStep(p)
    \/ \E o \in Operator : OperatorStep(o)
    \/ SweeperStep
    \/ \E n \in 1..MaxId + 1 : Restart(n)

Spec == Init /\ [][Next]_vars

(* The runtime schedules every future that can go on, and its write locks  *)
(* are handed over in order of arrival: nobody is passed over for ever.    *)
Fairness ==
    /\ \A t \in Task : SF_vars(AskStep(t))
    /\ \A p \in Proc : SF_vars(ResolveStep(p))
    /\ \A o \in Operator : WF_vars(AnswerTask(o))
    /\ SF_vars(SweeperStep)

FairSpec == Spec /\ Fairness

----------------------------------------------------------------------------
(* Properties.                                                             *)

(* Every variable has its type; what an operator or a loop refers to by    *)
(* number is a question the manager numbered.                              *)
TypeOK ==
    /\ tasks \in [Task -> TaskState]
    /\ esc \in [Id -> Question]
    /\ rows \in [Id -> Status \cup {Nothing}]
    /\ next \in 1..MaxId + 1
    /\ escLock \in Task \cup {None}
    /\ idLock \in Task \cup {None}
    /\ tx \subseteq Id
    /\ rx \in [Id -> {Nothing, "map", "held", "gone"}]
    /\ msg \in [Id -> Decided \cup {Nothing}]
    /\ announced \subseteq Id
    /\ call \in [Proc -> Call]
    /\ restarts \in 0..MaxRestarts

(* A loop runs a tool it asked about only if its own question, of its own  *)
(* task, was approved: a denial, an expiry, an answer to another question  *)
(* or the end of the task never gets through as a yes (enforce_tool_pre).  *)
OnlyApprovalsRun ==
    \A t \in Task : At(t, "exec") =>
        /\ esc[call[t].id].status = "approved"
        /\ esc[call[t].id].task = t

(* The number of a question an operator has been shown is never given to   *)
(* another one, crashes included: an answer typed on an old prompt cannot  *)
(* decide a question nobody saw (create_escalation_internal persists       *)
(* before it announces, and the boot numbers from the table).              *)
AnnouncedIdsStayTaken == \A i \in announced : i < next

(* An inference watchdog that waits on an open question has its channel in *)
(* place: whoever decides it from then on finds a sender                   *)
(* (create_escalation_with_resolution).                                    *)
GateListens ==
    \A t \in Task : LET i == call[t].id IN
        At(t, "gwait") /\ esc[i].status = "pending" => i \in tx /\ rx[i] = "held"

(* The first decision stands: operators, the sweep, the end of the task    *)
(* and the watchdog race to decide, and while the kernel is up the losers  *)
(* change nothing (resolve, resolve_for_task, sweep_expired).              *)
FirstDecisionStands ==
    [][\A i \in Id : esc[i].status \in Decided /\ restarts' = restarts
                        => esc'[i] = esc[i]]_vars

(* Unless the kernel crashes, a cancelled task whose loop has ended has no *)
(* question left that an operator could approve: who cancels closes them,  *)
(* and a loop that still asks stays until it is answered.  (What a soft    *)
(* approval tells may outlive the task; it runs nothing.)                  *)
CancelClosesQuestions ==
    restarts = 0 => \A t \in Task :
        tasks[t] = "Cancelled" /\ At(t, "idle") /\ PendingOf(t) # {} =>
            \/ \E p \in Proc : At(p, "close") /\ call[p].task = t
            \/ \A i \in PendingOf(t) : esc[i].kind = "soft"

(* Nobody waits for ever: a loop that asks goes on in the end, whatever    *)
(* the operators do, however it meets the locks, the cap and the sweep.    *)
AsksReturn ==
    \A t \in Task : call[t].pc \notin {"idle", "run"}
                        ~> call[t].pc \in {"idle", "run"}

(* A question does not stay open: answered, expired or closed, or lost in  *)
(* a crash before it was stored.                                           *)
QuestionsAreDecided ==
    \A i \in Id : esc[i].status = "pending" ~> esc[i].status # "pending"

=============================================================================
