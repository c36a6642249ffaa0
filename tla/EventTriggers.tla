--------------------------- MODULE EventTriggers ---------------------------
(***************************************************************************)
(* Events that trigger tasks.  Tasks and the outside emit events into a    *)
(* bounded channel; the dispatcher matches each against the subscriptions  *)
(* of the agents and spawns a reaction task at once (an urgent one) or     *)
(* puts it into the agent's batch, which a timer, a full batch or the end  *)
(* of the previous reaction flushes into one task.  The locks of pending   *)
(* and in_flight are never held together, so flushes overlap.  Each agent  *)
(* has one subscription, to everything.  A slot that is two hours old is   *)
(* out of the model, and so is an agent without budget.                    *)
(***************************************************************************)
EXTENDS Integers, Sequences, FiniteSets

CONSTANTS
    Agent, None,
    Urgent,         \* agents whose subscription is Critical
    Task,           \* bound: tasks at a time
    Flusher,        \* bound: flushes at a time that timers start
    MaxChainDepth,  \* max_chain_depth
    MaxBatch,       \* reaction_batch_max_events
    Capacity,       \* channel_capacity
    StreakLimit,    \* failure_streak_limit, 0 for none
    MaxRoots,       \* bound: events of depth 0
    MaxSwitches     \* bound: acts of an operator

ASSUME NameAssumption == Urgent \subseteq Agent /\ Task \subseteq Nat /\ None \notin Agent \cup Int
                         /\ Flusher \cap Int = {}
ASSUME BoundAssumption ==
    /\ {MaxChainDepth, Capacity, StreakLimit, MaxRoots, MaxSwitches} \subseteq Nat
    /\ MaxBatch \in Nat \ {0}

VARIABLES
    channel,    \* events on their way: whose activity, and how deep in a chain
    routing,    \* the dispatcher: depth of its event, agents left to serve
    pending,    \* batch of each agent: depths of its events, in order
    armed,      \* timer_started of each batch
    timers,     \* window timers that run for each agent
    slot,       \* in_flight: None, Reserved, or the reaction task of the agent
    flush,      \* the flushes in progress
    task,       \* the tasks that events triggered
    enabled,    \* whether the agent's subscription is
    paused,     \* manually_offline
    streak,     \* failure_streaks
    count       \* bounded events so far

batchVars == <<pending, armed, timers>>
agentVars == <<enabled, paused, streak>>
vars == <<channel, routing, batchVars, slot, flush, task, agentVars, count>>

Depth == 0..(MaxChainDepth + 1)
Reserved == -1
Refused == -2       \* identifier of a task that the scheduler did not keep
Dispatcher == -1
Flushes == Flusher \cup Task \cup {Dispatcher}    \* by who started them

(* pc: how far the execution of the task is.  A task that is over keeps    *)
(* its record while its execution lasts; how it ended matters to no one.   *)
NoTask == [state |-> "Absent", pc |-> "none", agent |-> None, depth |-> 0]
NoFlush == [pc |-> "idle", agent |-> None, seen |-> None, free |-> FALSE,
            items |-> <<>>, task |-> None]

FAt(f, l) == flush[f].pc = l
FGoto(f, l) == flush' = [flush EXCEPT ![f].pc = l]
FDone(f) == flush' = [flush EXCEPT ![f] = NoFlush]
FReset(f, a, l) == flush' = [flush EXCEPT ![f] = [NoFlush EXCEPT !.pc = l, !.agent = a]]
FStart(f, a) == FReset(f, a, "look")
FNext(f, l) == FReset(f, flush[f].agent, l)     \* what it saw is of no more use

LiveTasks == {t \in Task : task[t].state \in {"Queued", "Running"}}
Live(t) == t \in LiveTasks

(* Task identifiers are new: one is used again when nobody remembers it.   *)
Unused(t) ==
    /\ task[t] = NoTask
    /\ \A a \in Agent : slot[a] # t
    /\ flush[t] = NoFlush
    /\ \A f \in Flushes : flush[f].seen # t /\ flush[f].task # t
NewTask(t) == Unused(t) /\ \A u \in Task : Unused(u) => t <= u

Init ==
    /\ channel = <<>>
    /\ routing = [depth |-> 0, todo |-> {}]
    /\ pending = [a \in Agent |-> <<>>]
    /\ armed = [a \in Agent |-> FALSE]
    /\ timers = [a \in Agent |-> 0]
    /\ slot = [a \in Agent |-> None]
    /\ flush = [f \in Flushes |-> NoFlush]
    /\ task = [t \in Task |-> NoTask]
    /\ enabled = [a \in Agent |-> TRUE]
    /\ paused = [a \in Agent |-> FALSE]
    /\ streak = [a \in Agent |-> 0]
    /\ count = [root |-> 0, switch |-> 0]

----------------------------------------------------------------------------
(* Emission.  try_send: an event that finds the channel full is lost.      *)

Emit(a, d) ==
    channel' = IF Len(channel) < Capacity
               THEN Append(channel, [by |-> a, depth |-> d]) ELSE channel

(* Mutant: events of a triggered task are as deep as its trigger.          *)
TriggerDepth(t) == task[t].depth

(* event_chain_depth of a triggered task.                                  *)
EventChainDepth(t) == task[t].depth + 1

EmitOf(t) == Emit(task[t].agent, EventChainDepth(t))

(* An event with which a chain begins.                                     *)
Root ==
    /\ count.root < MaxRoots
    /\ count' = [count EXCEPT !.root = @ + 1]
    /\ Emit(None, 0)
    /\ UNCHANGED <<routing, batchVars, slot, flush, task, agentVars>>

Outside == Root

(* AgentRpcCallStarted: a task that calls an agent begins a chain too, and *)
(* its payload names no agent that process_event would leave out.          *)
CallAgent(t) == task[t].pc = "loop" /\ Root

----------------------------------------------------------------------------
(* The dispatcher: process_event, one event at a time.                     *)

(* Subscriptions that are enabled match; an agent does not react to what   *)
(* it did itself, nor when it is offline.  A throttle or a filter may pass *)
(* over any of them.                                                       *)
Receive ==
    /\ routing.todo = {} /\ flush[Dispatcher] = NoFlush
    /\ channel # <<>>
    /\ channel' = Tail(channel)
    /\ LET ev == Head(channel)
           Subs == {a \in Agent : enabled[a] /\ a # ev.by /\ ~paused[a]} IN
       \E S \in IF ev.depth > MaxChainDepth THEN {{}} ELSE SUBSET Subs :
          routing' = [depth |-> ev.depth, todo |-> S]
    /\ UNCHANGED <<batchVars, slot, flush, task, agentVars, count>>

(* create_triggered_task: queued, or refused by the cap of queued tasks,   *)
(* of which the caller is not told.                                        *)
Create(t, a, d) ==
    \/ t = Refused /\ UNCHANGED task
    \/ /\ t \in Task /\ NewTask(t)
       /\ task' = [task EXCEPT ![t] = [state |-> "Queued", pc |-> "none", agent |-> a, depth |-> d]]

ReactNow(a, t) ==
    /\ flush[Dispatcher] = NoFlush
    /\ a \in routing.todo \cap Urgent
    /\ Create(t, a, routing.depth)
    /\ routing' = [routing EXCEPT !.todo = @ \ {a}]
    /\ UNCHANGED <<channel, batchVars, slot, flush, agentVars, count>>

(* enqueue_reaction: a batch that is full keeps its events and is flushed  *)
(* here, one that is not is left to a timer.                               *)
React(a) ==
    /\ flush[Dispatcher] = NoFlush
    /\ a \in routing.todo \ Urgent
    /\ routing' = [routing EXCEPT !.todo = @ \ {a}]
    /\ LET items == IF Len(pending[a]) >= MaxBatch THEN pending[a]
                    ELSE Append(pending[a], routing.depth) IN
       /\ pending' = [pending EXCEPT ![a] = items]
       /\ IF Len(items) >= MaxBatch
          THEN FStart(Dispatcher, a) /\ UNCHANGED <<armed, timers>>
          ELSE /\ armed' = [armed EXCEPT ![a] = TRUE]
               /\ timers' = [timers EXCEPT ![a] = @ + IF armed[a] THEN 0 ELSE 1]
               /\ UNCHANGED flush
    /\ UNCHANGED <<channel, slot, task, agentVars, count>>

(* A window is over: a timer that outlived its batch speaks for the next.  *)
TimerFires(a, f) ==
    /\ timers[a] > 0
    /\ f \in Flusher /\ FAt(f, "idle")
    /\ timers' = [timers EXCEPT ![a] = @ - 1]
    /\ armed' = [armed EXCEPT ![a] = FALSE]
    /\ FStart(f, a)
    /\ UNCHANGED <<channel, routing, pending, slot, task, agentVars, count>>

----------------------------------------------------------------------------
(* flush_reactions.                                                        *)

Look(f) ==
    /\ FAt(f, "look")
    /\ flush' = [flush EXCEPT ![f].pc = "ask", ![f].seen = slot[flush[f].agent]]
    /\ UNCHANGED <<channel, routing, batchVars, slot, task, agentVars, count>>

(* reaction_task_is_live; a reservation is a spawn in progress.            *)
AskScheduler(f) ==
    /\ FAt(f, "ask")
    /\ flush' = [flush EXCEPT ![f].pc = "reserve",
                   ![f].free = flush[f].seen \notin LiveTasks \cup {Reserved}]
    /\ UNCHANGED <<channel, routing, batchVars, slot, task, agentVars, count>>

(* Mutant: the slot is not looked at again.                                *)
ReserveBlindly(f) ==
    /\ FAt(f, "reserve")
    /\ IF flush[f].free
       THEN slot' = [slot EXCEPT ![flush[f].agent] = Reserved] /\ FNext(f, "take")
       ELSE UNCHANGED slot /\ FNext(f, "held")
    /\ UNCHANGED <<channel, routing, batchVars, task, agentVars, count>>

Reserve(f) ==
    /\ FAt(f, "reserve")
    /\ IF flush[f].free /\ slot[flush[f].agent] = flush[f].seen
       THEN slot' = [slot EXCEPT ![flush[f].agent] = Reserved] /\ FNext(f, "take")
       ELSE UNCHANGED slot /\ FNext(f, "held")
    /\ UNCHANGED <<channel, routing, batchVars, task, agentVars, count>>

(* Mutant: relies on the end of the previous reaction.                     *)
HeldForDrain(f) ==
    /\ FAt(f, "held")
    /\ FDone(f)
    /\ UNCHANGED <<channel, routing, batchVars, slot, task, agentVars, count>>

(* Still busy: the batch gets another timer unless it has one.             *)
Held(f) ==
    /\ FAt(f, "held")
    /\ LET a == flush[f].agent IN
       IF pending[a] # <<>> /\ ~armed[a]
       THEN /\ armed' = [armed EXCEPT ![a] = TRUE]
            /\ timers' = [timers EXCEPT ![a] = @ + 1]
       ELSE UNCHANGED <<armed, timers>>
    /\ FDone(f)
    /\ UNCHANGED <<channel, routing, pending, slot, task, agentVars, count>>

(* Mutant: the mark of a timer stays when its batch goes.                  *)
TakeItems(f) ==
    /\ FAt(f, "take")
    /\ LET a == flush[f].agent IN
       /\ pending' = [pending EXCEPT ![a] = <<>>]
       /\ flush' = [flush EXCEPT ![f].items = pending[a],
                      ![f].pc = IF pending[a] = <<>> THEN "release" ELSE "spawn"]
    /\ UNCHANGED <<channel, routing, armed, timers, slot, task, agentVars, count>>

(* The batch goes with its mark, its timer stays.                          *)
Take(f) ==
    /\ FAt(f, "take")
    /\ LET a == flush[f].agent IN
       /\ pending' = [pending EXCEPT ![a] = <<>>]
       /\ armed' = [armed EXCEPT ![a] = FALSE]
       /\ flush' = [flush EXCEPT ![f].items = pending[a],
                      ![f].pc = IF pending[a] = <<>> THEN "release" ELSE "spawn"]
    /\ UNCHANGED <<channel, routing, timers, slot, task, agentVars, count>>

(* One task for the batch, as deep as its first event; none if the         *)
(* subscription was disabled meanwhile.                                    *)
SpawnBatch(f) ==
    /\ FAt(f, "spawn")
    /\ IF enabled[flush[f].agent]
       THEN \E t \in Task \cup {Refused} :
              /\ Create(t, flush[f].agent, Head(flush[f].items))
              /\ flush' = [flush EXCEPT ![f].pc = "record", ![f].task = t, ![f].items = <<>>]
       ELSE FNext(f, "release") /\ UNCHANGED task
    /\ UNCHANGED <<channel, routing, batchVars, slot, agentVars, count>>

Record(f) ==
    /\ FAt(f, "record")
    /\ slot' = [slot EXCEPT ![flush[f].agent] = flush[f].task]
    /\ FDone(f)
    /\ UNCHANGED <<channel, routing, batchVars, task, agentVars, count>>

ReleaseSlot(f) ==
    /\ FAt(f, "release")
    /\ slot' = [slot EXCEPT ![flush[f].agent] = None]
    /\ FDone(f)
    /\ UNCHANGED <<channel, routing, batchVars, task, agentVars, count>>

----------------------------------------------------------------------------
(* The tasks.                                                              *)

SetTask(t, s, l) ==
    task' = [task EXCEPT ![t] = IF s = "Over" /\ l = "none" THEN NoTask
                                ELSE [@ EXCEPT !.state = s, !.pc = l]]

(* The executor passes over the tasks of agents that are paused.           *)
Start(t) ==
    /\ task[t].state = "Queued" /\ ~paused[task[t].agent]
    /\ SetTask(t, "Running", "loop")
    /\ EmitOf(t)
    /\ UNCHANGED <<routing, batchVars, slot, flush, agentVars, count>>

(* An end that came first stays, and is not announced twice.               *)
Close(t, l) ==
    /\ SetTask(t, "Over", l)
    /\ IF Live(t) THEN EmitOf(t) ELSE UNCHANGED channel
    /\ UNCHANGED <<routing, batchVars, slot, flush, enabled, paused, count>>

Complete(t) ==
    /\ task[t].pc = "loop"
    /\ streak' = [streak EXCEPT ![task[t].agent] = 0]
    /\ Close(t, "drain")

(* record_failure_streak: a fast failure, or one of the provider, counts;  *)
(* the last of StreakLimit in a row pauses the agent.                      *)
Fail(t) ==
    /\ task[t].pc = "loop"
    /\ SetTask(t, task[t].state, "lost")
    /\ LET a == task[t].agent IN
       \/ /\ streak' = [streak EXCEPT ![a] = 0]
          /\ UNCHANGED paused
       \/ /\ StreakLimit > 0
          /\ streak' = [streak EXCEPT ![a] = (@ + 1) % StreakLimit]
          /\ paused' = [paused EXCEPT ![a] = @ \/ streak[a] + 1 = StreakLimit]
    /\ UNCHANGED <<channel, routing, batchVars, slot, flush, enabled, count>>

(* drain_reactions_after_task: the slot is freed if it is this task's, and *)
(* what waited behind it is flushed, by a flush of its own.                *)
Drain(t, l) ==
    /\ LET a == task[t].agent IN
       IF slot[a] = t
       THEN /\ slot' = [slot EXCEPT ![a] = None]
            /\ FReset(t, a, "peek")
       ELSE UNCHANGED <<slot, flush>>
    /\ SetTask(t, task[t].state, l)
    /\ UNCHANGED <<channel, routing, batchVars, agentVars, count>>

Peek(f) ==
    /\ FAt(f, "peek")
    /\ IF pending[flush[f].agent] = <<>> THEN FDone(f) ELSE FGoto(f, "look")
    /\ UNCHANGED <<channel, routing, batchVars, slot, task, agentVars, count>>

DrainWon(t) == task[t].pc = "drain" /\ Drain(t, "none")
DrainLost(t) == task[t].pc = "lost" /\ Drain(t, "failing")

Failing(t) == task[t].pc = "failing" /\ Close(t, "none") /\ UNCHANGED streak

----------------------------------------------------------------------------
(* The operator.                                                           *)

Switch ==
    /\ count.switch < MaxSwitches
    /\ count' = [count EXCEPT !.switch = @ + 1]

(* Cancelled, whatever its execution does; nobody drains its slot if it    *)
(* has none.                                                               *)
Cancel(t) ==
    /\ Switch
    /\ Live(t)
    /\ SetTask(t, "Over", task[t].pc)
    /\ UNCHANGED <<channel, routing, batchVars, slot, flush, agentVars>>

SetEnabled(a) ==
    /\ Switch
    /\ enabled' = [enabled EXCEPT ![a] = ~@]
    /\ UNCHANGED <<channel, routing, batchVars, slot, flush, task, paused, streak>>

(* disconnect and connect; neither touches the streak.                     *)
SetPaused(a) ==
    /\ Switch
    /\ paused' = [paused EXCEPT ![a] = ~@]
    /\ UNCHANGED <<channel, routing, batchVars, slot, flush, task, enabled, streak>>

----------------------------------------------------------------------------
FlushStep(f) ==
    \/ Peek(f) \/ Look(f) \/ AskScheduler(f) \/ Reserve(f) \/ Held(f) \/ Take(f)
    \/ SpawnBatch(f) \/ Record(f) \/ ReleaseSlot(f)

TaskStep(t) ==
    \/ Start(t) \/ Complete(t) \/ Fail(t) \/ Failing(t)
    \/ DrainWon(t) \/ DrainLost(t)

DispatcherStep ==
    Receive \/ \E a \in Agent : React(a) \/ \E t \in Task \cup {Refused} : ReactNow(a, t)

Next ==
    \/ Outside
    \/ DispatcherStep
    \/ \E a \in Agent, f \in Flusher : TimerFires(a, f)
    \/ \E f \in Flushes : FlushStep(f)
    \/ \E t \in Task : TaskStep(t) \/ CallAgent(t) \/ Cancel(t)
    \/ \E a \in Agent : SetEnabled(a) \/ SetPaused(a)

(* The runtime polls what is ready, timers expire, and tasks have limits.  *)
Fairness ==
    /\ WF_vars(DispatcherStep)
    /\ \A a \in Agent : WF_vars(\E f \in Flusher : TimerFires(a, f))
    /\ \A f \in Flushes : WF_vars(FlushStep(f))
    /\ \A t \in Task : WF_vars(TaskStep(t))

Spec == Init /\ [][Next]_vars /\ Fairness

----------------------------------------------------------------------------
TypeOK ==
    /\ channel \in Seq([by : Agent \cup {None}, depth : Depth])
    /\ Len(channel) <= Capacity
    /\ routing.depth \in Depth /\ routing.todo \subseteq Agent
    /\ \A a \in Agent :
          /\ Len(pending[a]) <= MaxBatch
          /\ \A i \in 1..Len(pending[a]) : pending[a][i] \in 0..MaxChainDepth
          /\ armed[a] => pending[a] # <<>> /\ timers[a] > 0
          /\ slot[a] \in Task \cup {None, Reserved, Refused}
    /\ \A t \in Task :
          /\ task[t].state \in {"Absent", "Queued", "Running", "Over"}
          /\ task[t].pc \in {"none", "loop", "drain", "lost", "failing"}
          /\ task[t].depth \in 0..MaxChainDepth
    /\ \A a \in Agent : streak[a] \in 0..StreakLimit

(* A reaction that a batch led to and whose end has not freed the slot.    *)
Reacting(a) ==
    {t \in Task : task[t].agent = a /\ Live(t) /\ task[t].pc \in {"none", "loop"}}

(* Batching promises that a burst costs an agent one task at a time: no    *)
(* second reaction while one is going on, however timers, full batches and *)
(* the end of the last reaction fall together.                             *)
OneReaction == \A a \in Agent \ Urgent : Cardinality(Reacting(a)) <= 1

(* A batch is never forgotten: a timer runs for its agent or a flush is on *)
(* its way, also after the slot was busy, a spawn failed, or a timer that  *)
(* belonged to an earlier batch went off.                                  *)
NoBatchForgotten ==
    \A a \in Agent : pending[a] # <<>> =>
        timers[a] > 0 \/ \E f \in Flushes :
            /\ flush[f].agent = a
            /\ flush[f].pc \in {"peek", "look", "ask", "reserve", "held", "take"}

(* A batch reaches its agent, unless the agent is paused.                  *)
BatchesFlush == \A a \in Agent : pending[a] # <<>> ~> pending[a] = <<>> \/ paused[a]

(* Nothing goes on but what a paused agent has waiting.                    *)
Quiet ==
    /\ channel = <<>> /\ routing.todo = {}
    /\ \A t \in Task : task[t].pc = "none" /\ (Live(t) => paused[task[t].agent])

(* Every cascade of reactions dies out, although agents react to each      *)
(* other and a batch takes the depth of its first event.  The events of    *)
(* depth 0 are finitely many here: a task that calls an agent emits one    *)
(* (CallAgent), so the promise does not cover reactions that go on calling.*)
CascadesEnd == <>[]Quiet
=============================================================================
