------------------------ MODULE EventTriggersProofs ------------------------
(***************************************************************************)
(* Proofs about event triggers, for every number of agents, tasks and      *)
(* timers and every limit: an agent that batches has one reaction at a     *)
(* time, and no batch is forgotten.                                        *)
(***************************************************************************)
EXTENDS EventTriggers, FiniteSetTheorems, TLAPS

FlushPc == {"idle", "peek", "look", "ask", "reserve", "held", "take", "spawn", "record", "release"}
SlotValue == Task \cup {None, Reserved, Refused}
Depths == 0..MaxChainDepth

Event == [by : Agent \cup {None}, depth : Depth]
FlushRecord == [pc : FlushPc, agent : Agent \cup {None}, seen : SlotValue, free : BOOLEAN,
                items : Seq(Depths), task : Task \cup {None, Refused}]
TaskRecord == [state : {"Absent", "Queued", "Running", "Over"},
               pc : {"none", "loop", "drain", "lost", "failing"},
               agent : Agent \cup {None}, depth : Depths]

TypeInv ==
    /\ channel \in Seq(Event)
    /\ routing \in [depth : Depth, todo : SUBSET Agent]
    /\ pending \in [Agent -> Seq(Depths)]
    /\ armed \in [Agent -> BOOLEAN]
    /\ timers \in [Agent -> Nat]
    /\ slot \in [Agent -> SlotValue]
    /\ flush \in [Flushes -> FlushRecord]
    /\ task \in [Task -> TaskRecord]
    /\ enabled \in [Agent -> BOOLEAN]
    /\ paused \in [Agent -> BOOLEAN]
    /\ streak \in [Agent -> 0..StreakLimit]

(* The channel and the batches keep to their limits.                       *)
LimitInv ==
    /\ Len(channel) <= Capacity
    /\ routing.todo # {} => routing.depth \in Depths
    /\ \A a \in Agent : Len(pending[a]) <= MaxBatch

(* A batch that is marked has events, and a timer runs.                    *)
TimerInv == \A a \in Agent : armed[a] => pending[a] # <<>> /\ timers[a] > 0

(* What a flush has seen and holds at each of its steps.                   *)
FlushOk(f) ==
    /\ flush[f].pc = "idle" => flush[f] = NoFlush
    /\ flush[f].pc # "idle" => flush[f].agent \in Agent
    /\ flush[f].pc = "spawn" => flush[f].items # <<>>
    /\ flush[f].pc = "record" => flush[f].task # None
    /\ flush[f].pc = "reserve" /\ flush[f].free => flush[f].seen \notin LiveTasks \cup {Reserved}

(* How far the execution of a task is when its state is what it is, and    *)
(* that its own flush comes after its end.                                 *)
TaskOk(t) ==
    /\ task[t].state = "Absent" => task[t] = NoTask
    /\ task[t].state # "Absent" => task[t].agent \in Agent
    /\ task[t].state = "Queued" => task[t].pc = "none"
    /\ task[t].state = "Running" => task[t].pc \in {"loop", "lost", "failing"}
    /\ task[t].state = "Over" => task[t].pc # "none"
    /\ task[t].pc = "drain" => task[t].state = "Over"
    /\ flush[t] = NoFlush \/ task[t].pc = "failing" \/ task[t] = NoTask

(* Between its reservation and its end a flush has the slot for itself.    *)
Holding(f) == flush[f].pc \in {"take", "spawn", "record", "release"}

SlotOk(f) == Holding(f) =>
    /\ slot[flush[f].agent] = Reserved
    /\ \A g \in Flushes : Holding(g) /\ flush[g].agent = flush[f].agent => g = f

(* A reaction that goes on is in the slot, or a flush is about to put it   *)
(* there.                                                                  *)
Reacts(t) == Live(t) /\ task[t].pc \in {"none", "loop"} /\ task[t].agent \notin Urgent

Placed(t) ==
    \/ slot[task[t].agent] = t
    \/ \E f \in Flushes :
          flush[f].pc = "record" /\ flush[f].agent = task[t].agent /\ flush[f].task = t

IInv ==
    /\ TypeInv /\ LimitInv /\ TimerInv /\ NoBatchForgotten
    /\ \A f \in Flushes : FlushOk(f) /\ SlotOk(f)
    /\ \A t \in Task : TaskOk(t) /\ (Reacts(t) => Placed(t))

-----------------------------------------------------------------------------
(* What the invariant says of one flush and of one task.                   *)

LEMMA Names ==
  /\ None \notin Int /\ None \notin Agent /\ Reserved \in Int /\ Refused \in Int
  /\ Reserved \notin Task /\ Refused \notin Task /\ None \notin Task /\ Reserved # Refused
  /\ Dispatcher \in Flushes /\ Dispatcher \notin Task /\ Dispatcher \notin Flusher
  /\ Task \subseteq Flushes /\ Flusher \subseteq Flushes /\ Task \cap Flusher = {}
  <1>1. /\ Reserved \in Int /\ Refused \in Int /\ Dispatcher \in Int /\ Reserved # Refused
        /\ Reserved \notin Nat /\ Refused \notin Nat /\ Dispatcher \notin Nat
    BY DEF Reserved, Refused, Dispatcher
  <1>2. Task \subseteq Nat /\ Task \subseteq Int /\ Flusher \cap Int = {}
    BY NameAssumption
  <1>3. None \notin Int /\ None \notin Agent
    BY NameAssumption
  <1> QED BY <1>1, <1>2, <1>3 DEF Flushes

LEMMA FlushFields ==
  ASSUME IInv, NEW f \in Flushes
  PROVE  /\ flush[f] \in FlushRecord
         /\ flush[f].pc \in FlushPc /\ flush[f].agent \in Agent \cup {None}
         /\ flush[f].seen \in SlotValue /\ flush[f].free \in BOOLEAN
         /\ flush[f].items \in Seq(Depths) /\ flush[f].task \in Task \cup {None, Refused}
         /\ flush[f].pc # "idle" => flush[f].agent \in Agent
  BY DEF IInv, TypeInv, FlushOk, FlushRecord

LEMMA NoFlushType ==
  /\ NoFlush \in FlushRecord
  /\ NoFlush.pc = "idle" /\ NoFlush.agent = None /\ NoFlush.seen = None
  /\ NoFlush.free = FALSE /\ NoFlush.items = <<>> /\ NoFlush.task = None
  <1>1. <<>> \in Seq(Depths)
    OBVIOUS
  <1> QED BY <1>1 DEF NoFlush, FlushRecord, FlushPc, SlotValue

LEMMA TaskFields ==
  ASSUME IInv, NEW t \in Task
  PROVE  /\ task[t] \in TaskRecord
         /\ task[t].state \in {"Absent", "Queued", "Running", "Over"}
         /\ task[t].pc \in {"none", "loop", "drain", "lost", "failing"}
         /\ task[t].agent \in Agent \cup {None} /\ task[t].depth \in Depths
  BY DEF IInv, TypeInv, TaskRecord

LEMMA FlushUpdate ==
  ASSUME IInv, NEW f \in Flushes, NEW r \in FlushRecord, flush' = [flush EXCEPT ![f] = r]
  PROVE  /\ flush' \in [Flushes -> FlushRecord]
         /\ flush'[f] = r
         /\ \A g \in Flushes : g # f => flush'[g] = flush[g]
  BY DEF IInv, TypeInv

LEMMA FlushGoes ==
  ASSUME IInv, NEW f \in Flushes, NEW l \in FlushPc, FGoto(f, l)
  PROVE  /\ flush' \in [Flushes -> FlushRecord]
         /\ flush'[f].pc = l /\ flush'[f].agent = flush[f].agent
         /\ flush'[f].seen = flush[f].seen /\ flush'[f].free = flush[f].free
         /\ flush'[f].items = flush[f].items /\ flush'[f].task = flush[f].task
         /\ \A g \in Flushes : g # f => flush'[g] = flush[g]
  <1> DEFINE r == [flush[f] EXCEPT !.pc = l]
  <1>1. r \in FlushRecord
    BY FlushFields DEF FlushRecord
  <1>2. flush' = [flush EXCEPT ![f] = r]
    BY DEF FGoto
  <1>3. /\ r.pc = l /\ r.agent = flush[f].agent /\ r.seen = flush[f].seen
        /\ r.free = flush[f].free /\ r.items = flush[f].items /\ r.task = flush[f].task
    BY FlushFields DEF FlushRecord
  <1> HIDE DEF r
  <1> QED BY <1>1, <1>2, <1>3, FlushUpdate

LEMMA FlushResets ==
  ASSUME IInv, NEW f \in Flushes, NEW a \in Agent, NEW l \in FlushPc, FReset(f, a, l)
  PROVE  /\ flush' \in [Flushes -> FlushRecord]
         /\ flush'[f].pc = l /\ flush'[f].agent = a
         /\ flush'[f].seen = None /\ flush'[f].free = FALSE
         /\ flush'[f].items = <<>> /\ flush'[f].task = None
         /\ \A g \in Flushes : g # f => flush'[g] = flush[g]
  <1> DEFINE r == [NoFlush EXCEPT !.pc = l, !.agent = a]
  <1>1. /\ r \in FlushRecord
        /\ r.pc = l /\ r.agent = a /\ r.seen = None /\ r.free = FALSE
        /\ r.items = <<>> /\ r.task = None
    BY NoFlushType DEF FlushRecord
  <1>2. flush' = [flush EXCEPT ![f] = r]
    BY DEF FReset
  <1> HIDE DEF r
  <1> QED BY <1>1, <1>2, FlushUpdate

LEMMA FlushEnds ==
  ASSUME IInv, NEW f \in Flushes, FDone(f)
  PROVE  /\ flush' \in [Flushes -> FlushRecord]
         /\ flush'[f] = NoFlush /\ flush'[f].pc = "idle"
         /\ \A g \in Flushes : g # f => flush'[g] = flush[g]
  BY NoFlushType, FlushUpdate DEF FDone

-----------------------------------------------------------------------------
(* Frames.                                                                 *)

(* What a step of one flush leaves to tasks and to other flushes.          *)
LEMMA OthersKept ==
  ASSUME IInv, NEW f \in Flushes, flush[f].pc # "idle",
         \A g \in Flushes : g # f => flush'[g] = flush[g],
         UNCHANGED task
  PROVE  /\ \A t \in Task : TaskOk(t)' /\ (Reacts(t)' => Reacts(t))
         /\ \A g \in Flushes : g # f => FlushOk(g)' /\ (Holding(g)' <=> Holding(g))
         /\ \A t \in Task : Reacts(t)' /\ ~Placed(t)' =>
               \/ slot[task[t].agent] = t /\ slot'[task[t].agent] # t
               \/ flush[f].pc = "record" /\ flush[f].agent = task[t].agent /\ flush[f].task = t
  <1>1. ASSUME NEW t \in Task
        PROVE  TaskOk(t)' /\ (Reacts(t)' => Reacts(t))
    <2>1. TaskOk(t) /\ t \in Flushes
      BY Names DEF IInv
    <2>2. CASE t = f
      <3>1. flush[t] # NoFlush
        BY <2>2, NoFlushType
      <3> QED BY <2>1, <3>1 DEF TaskOk, Reacts, Live, LiveTasks
    <2>3. CASE t # f
      BY <2>1, <2>3 DEF TaskOk, Reacts, Live, LiveTasks
    <2> QED BY <2>2, <2>3
  <1>2. ASSUME NEW g \in Flushes, g # f
        PROVE  FlushOk(g)' /\ (Holding(g)' <=> Holding(g))
    BY <1>2 DEF IInv, FlushOk, LiveTasks, Holding
  <1>3. ASSUME NEW t \in Task, Reacts(t)', ~Placed(t)'
        PROVE  \/ slot[task[t].agent] = t /\ slot'[task[t].agent] # t
               \/ flush[f].pc = "record" /\ flush[f].agent = task[t].agent /\ flush[f].task = t
    <2>1. Placed(t)
      BY <1>1, <1>3 DEF IInv
    <2> QED BY <2>1, <1>3 DEF Placed
  <1> QED BY <1>1, <1>2, <1>3

(* A step of one flush that leaves slots and tasks alone and is not the    *)
(* end of a spawn.                                                         *)
LEMMA FlushFrame ==
  ASSUME IInv, NEW f \in Flushes,
         flush[f].pc \notin {"idle", "record"},
         TypeInv', LimitInv', TimerInv', NoBatchForgotten',
         \A g \in Flushes : g # f => flush'[g] = flush[g],
         FlushOk(f)',
         Holding(f)' => Holding(f) /\ flush'[f].agent = flush[f].agent,
         UNCHANGED <<slot, task>>
  PROVE  IInv'
  <1>1. ASSUME NEW g \in Flushes
        PROVE  SlotOk(g)'
    <2> SUFFICES ASSUME Holding(g)'
                 PROVE  /\ slot[flush'[g].agent] = Reserved
                        /\ \A h \in Flushes : Holding(h)' /\ flush'[h].agent = flush'[g].agent => h = g
      BY DEF SlotOk
    <2>1. \A h \in Flushes : Holding(h)' => Holding(h) /\ flush'[h].agent = flush[h].agent
      BY DEF Holding
    <2>2. SlotOk(g)
      BY DEF IInv
    <2> QED BY <2>1, <2>2 DEF SlotOk
  <1>2. \A g \in Flushes : FlushOk(g)'
    BY OthersKept
  <1>3. \A t \in Task : TaskOk(t)' /\ (Reacts(t) => Placed(t))'
    BY OthersKept
  <1> QED BY <1>1, <1>2, <1>3 DEF IInv

(* A step of one task that starts no reaction and leaves slots and flushes *)
(* alone.                                                                  *)
LEMMA TaskFrame ==
  ASSUME IInv, NEW t \in Task,
         TypeInv', LimitInv', UNCHANGED <<batchVars, slot, flush>>,
         \A u \in Task : u # t => task'[u] = task[u],
         TaskOk(t)',
         Live(t)' => Live(t),
         Reacts(t)' => Reacts(t) /\ task'[t].agent = task[t].agent
  PROVE  IInv'
  <1>1. TimerInv' /\ NoBatchForgotten'
    BY DEF IInv, TimerInv, NoBatchForgotten, batchVars
  <1>2. \A u \in Task : Live(u)' => Live(u)
    BY DEF Live, LiveTasks
  <1>3. LiveTasks' \subseteq LiveTasks
    BY <1>2 DEF Live, LiveTasks
  <1>4. ASSUME NEW f \in Flushes
        PROVE  FlushOk(f)' /\ SlotOk(f)'
    <2>1. FlushOk(f)'
      BY <1>3 DEF IInv, FlushOk
    <2>2. SlotOk(f)'
      BY DEF IInv, SlotOk, Holding
    <2> QED BY <2>1, <2>2
  <1>5. ASSUME NEW u \in Task
        PROVE  TaskOk(u)' /\ (Reacts(u) => Placed(u))'
    <2>1. CASE u = t
      BY <2>1 DEF IInv, Placed
    <2>2. CASE u # t
      <3>1. task'[u] = task[u] /\ TaskOk(u) /\ (Reacts(u) => Placed(u))
        BY <2>2 DEF IInv
      <3>2. Reacts(u)' => Reacts(u)
        BY <1>2, <3>1 DEF Reacts
      <3> QED BY <3>1, <3>2 DEF TaskOk, Placed
    <2> QED BY <2>1, <2>2
  <1> QED BY <1>1, <1>4, <1>5 DEF IInv

(* A step of one flush leaves the batches of other agents to whoever       *)
(* serves them.                                                            *)
LEMMA BatchesServed ==
  ASSUME IInv, NEW f \in Flushes,
         timers' \in [Agent -> Nat], \A a \in Agent : timers'[a] >= timers[a],
         \A a \in Agent : pending'[a] # <<>> => pending[a] # <<>>,
         \A g \in Flushes : g # f => flush'[g] = flush[g],
         \A a \in Agent : pending'[a] # <<>> /\ flush[f].agent = a =>
            \/ timers'[a] > 0
            \/ flush[f].pc \in {"idle", "spawn", "record", "release"}
            \/ /\ flush'[f].agent = a
               /\ flush'[f].pc \in {"peek", "look", "ask", "reserve", "held", "take"}
  PROVE  NoBatchForgotten'
  <1> SUFFICES ASSUME NEW a \in Agent, pending'[a] # <<>>, ~(timers'[a] > 0)
               PROVE  \E g \in Flushes :
                         /\ flush'[g].agent = a
                         /\ flush'[g].pc \in {"peek", "look", "ask", "reserve", "held", "take"}
    BY DEF NoBatchForgotten
  <1>1. timers[a] \in Nat /\ timers'[a] \in Nat /\ ~(timers[a] > 0)
    BY DEF IInv, TypeInv
  <1>2. PICK g \in Flushes : /\ flush[g].agent = a
                            /\ flush[g].pc \in {"peek", "look", "ask", "reserve", "held", "take"}
    BY <1>1 DEF IInv, NoBatchForgotten
  <1> QED BY <1>2

LEMMA BatchesKept ==
  ASSUME IInv, NEW f \in Flushes, UNCHANGED batchVars,
         \A g \in Flushes : g # f => flush'[g] = flush[g],
         \/ pending[flush[f].agent] = <<>>
         \/ flush[f].pc \in {"spawn", "record", "release", "idle"}
         \/ /\ flush'[f].agent = flush[f].agent
            /\ flush'[f].pc \in {"peek", "look", "ask", "reserve", "held", "take"}
  PROVE  NoBatchForgotten'
  <1>1. timers' = timers /\ pending' = pending
    BY DEF batchVars
  <1>2. timers' \in [Agent -> Nat]
    BY <1>1 DEF IInv, TypeInv
  <1>3. \A a \in Agent : timers'[a] >= timers[a]
    BY <1>1, <1>2
  <1> QED BY <1>1, <1>2, <1>3, BatchesServed DEF FlushPc

-----------------------------------------------------------------------------
(* The steps of a flush.                                                   *)

LEMMA PeekStep == ASSUME IInv, NEW f \in Flushes, Peek(f) PROVE IInv'
  <1>1. flush[f].pc = "peek" /\ UNCHANGED <<channel, routing, batchVars, slot, task, agentVars>>
    BY DEF Peek, FAt
  <1>2. CASE pending[flush[f].agent] = <<>>
    <2>1. FDone(f)
      BY <1>2 DEF Peek
    <2>2. /\ flush' \in [Flushes -> FlushRecord]
          /\ flush'[f] = NoFlush /\ flush'[f].pc = "idle"
          /\ \A g \in Flushes : g # f => flush'[g] = flush[g]
      BY <2>1, FlushEnds
    <2>3. TypeInv' /\ LimitInv' /\ TimerInv'
      BY <1>1, <2>2 DEF IInv, TypeInv, LimitInv, TimerInv, batchVars, agentVars
    <2>4. NoBatchForgotten'
      BY <1>1, <1>2, <2>2, BatchesKept
    <2>5. FlushOk(f)' /\ ~Holding(f)'
      BY <2>2 DEF FlushOk, Holding
    <2> QED BY <1>1, <2>2, <2>3, <2>4, <2>5, FlushFrame
  <1>3. CASE pending[flush[f].agent] # <<>>
    <2>1. FGoto(f, "look")
      BY <1>3 DEF Peek
    <2>2. /\ flush' \in [Flushes -> FlushRecord]
          /\ flush'[f].pc = "look" /\ flush'[f].agent = flush[f].agent
          /\ \A g \in Flushes : g # f => flush'[g] = flush[g]
      BY <2>1, FlushGoes DEF FlushPc
    <2>3. TypeInv' /\ LimitInv' /\ TimerInv'
      BY <1>1, <2>2 DEF IInv, TypeInv, LimitInv, TimerInv, batchVars, agentVars
    <2>4. NoBatchForgotten'
      BY <1>1, <2>2, BatchesKept
    <2>5. FlushOk(f)' /\ ~Holding(f)'
      BY <1>1, <2>2, FlushFields DEF FlushOk, Holding
    <2> QED BY <1>1, <2>2, <2>3, <2>4, <2>5, FlushFrame
  <1> QED BY <1>2, <1>3

LEMMA LookStep == ASSUME IInv, NEW f \in Flushes, Look(f) PROVE IInv'
  <1>1. flush[f].pc = "look" /\ UNCHANGED <<channel, routing, batchVars, slot, task, agentVars>>
    BY DEF Look, FAt
  <1> DEFINE r == [flush[f] EXCEPT !.pc = "ask", !.seen = slot[flush[f].agent]]
  <1>2. flush[f] \in FlushRecord /\ flush[f].agent \in Agent /\ slot[flush[f].agent] \in SlotValue
    BY <1>1, FlushFields DEF IInv, TypeInv
  <1>3. r \in FlushRecord /\ r.pc = "ask" /\ r.agent = flush[f].agent
    BY <1>2 DEF FlushRecord, FlushPc
  <1>4. flush' = [flush EXCEPT ![f] = r]
    BY <1>2 DEF Look, FlushRecord, IInv, TypeInv
  <1> HIDE DEF r
  <1>5. /\ flush' \in [Flushes -> FlushRecord]
        /\ flush'[f].pc = "ask" /\ flush'[f].agent = flush[f].agent
        /\ \A g \in Flushes : g # f => flush'[g] = flush[g]
    BY <1>3, <1>4, FlushUpdate
  <1>6. TypeInv' /\ LimitInv' /\ TimerInv'
    BY <1>1, <1>5 DEF IInv, TypeInv, LimitInv, TimerInv, batchVars, agentVars
  <1>7. NoBatchForgotten'
    BY <1>1, <1>5, BatchesKept
  <1>8. FlushOk(f)' /\ ~Holding(f)'
    BY <1>2, <1>5 DEF FlushOk, Holding
  <1> QED BY <1>1, <1>5, <1>6, <1>7, <1>8, FlushFrame

LEMMA AskStep == ASSUME IInv, NEW f \in Flushes, AskScheduler(f) PROVE IInv'
  <1>1. flush[f].pc = "ask" /\ UNCHANGED <<channel, routing, batchVars, slot, task, agentVars>>
    BY DEF AskScheduler, FAt
  <1> DEFINE b == flush[f].seen \notin LiveTasks \cup {Reserved}
             r == [flush[f] EXCEPT !.pc = "reserve", !.free = b]
  <1>2. flush[f] \in FlushRecord /\ flush[f].agent \in Agent /\ b \in BOOLEAN
    BY <1>1, FlushFields
  <1>3. flush' = [flush EXCEPT ![f] = r]
    BY DEF AskScheduler
  <1> HIDE DEF b
  <1>4. /\ r \in FlushRecord /\ r.pc = "reserve" /\ r.agent = flush[f].agent
        /\ r.free = b /\ r.seen = flush[f].seen
    BY <1>2 DEF FlushRecord, FlushPc
  <1> HIDE DEF r
  <1>5. /\ flush' \in [Flushes -> FlushRecord]
        /\ flush'[f].pc = "reserve" /\ flush'[f].agent = flush[f].agent
        /\ flush'[f].free = b /\ flush'[f].seen = flush[f].seen
        /\ \A g \in Flushes : g # f => flush'[g] = flush[g]
    BY <1>3, <1>4, FlushUpdate
  <1>6. TypeInv' /\ LimitInv' /\ TimerInv'
    BY <1>1, <1>5 DEF IInv, TypeInv, LimitInv, TimerInv, batchVars, agentVars
  <1>7. NoBatchForgotten'
    BY <1>1, <1>5, BatchesKept
  <1>8. FlushOk(f)' /\ ~Holding(f)'
    BY <1>1, <1>2, <1>5 DEF FlushOk, Holding, b, LiveTasks
  <1> QED BY <1>1, <1>5, <1>6, <1>7, <1>8, FlushFrame

LEMMA ReserveStep == ASSUME IInv, NEW f \in Flushes, Reserve(f) PROVE IInv'
  <1> DEFINE a == flush[f].agent
  <1>1. flush[f].pc = "reserve" /\ UNCHANGED <<channel, routing, batchVars, task, agentVars>>
    BY DEF Reserve, FAt
  <1>2. a \in Agent /\ FlushOk(f)
    BY <1>1, FlushFields DEF IInv
  <1>3. CASE flush[f].free /\ slot[a] = flush[f].seen
    <2>1. slot' = [slot EXCEPT ![a] = Reserved] /\ FReset(f, a, "take")
      BY <1>3 DEF Reserve, FNext
    <2>2. /\ flush' \in [Flushes -> FlushRecord]
          /\ flush'[f].pc = "take" /\ flush'[f].agent = a
          /\ \A g \in Flushes : g # f => flush'[g] = flush[g]
      BY <2>1, <1>2, FlushResets DEF FlushPc
    <2>3. /\ slot' \in [Agent -> SlotValue] /\ slot'[a] = Reserved
          /\ \A b \in Agent : b # a => slot'[b] = slot[b]
      BY <2>1, <1>2 DEF IInv, TypeInv, SlotValue
    <2>4. TypeInv' /\ LimitInv' /\ TimerInv'
      BY <1>1, <2>2, <2>3 DEF IInv, TypeInv, LimitInv, TimerInv, batchVars, agentVars
    <2>5. NoBatchForgotten'
      BY <1>1, <2>2, BatchesKept
    <2>6. slot[a] # Reserved /\ slot[a] \notin LiveTasks
      BY <1>1, <1>2, <1>3 DEF FlushOk
    <2>7. \A g \in Flushes : Holding(g) => flush[g].agent \in Agent /\ flush[g].agent # a
      BY <2>6, FlushFields DEF IInv, SlotOk, Holding
    <2>8. FlushOk(f)'
      BY <1>2, <2>2 DEF FlushOk
    <2>9. \A g \in Flushes : SlotOk(g)'
      <3>1. \A g \in Flushes : g # f => (Holding(g)' <=> Holding(g)) /\ SlotOk(g)
        BY <1>1, <2>2, OthersKept DEF IInv
      <3> QED BY <2>2, <2>3, <2>7, <3>1 DEF SlotOk
    <2>10. \A t \in Task : Reacts(t)' => Placed(t)'
      <3> SUFFICES ASSUME NEW t \in Task, Reacts(t)', ~Placed(t)'
                   PROVE  FALSE
        OBVIOUS
      <3>1. Reacts(t) /\ slot[task[t].agent] = t /\ slot'[task[t].agent] # t
        BY <1>1, <2>2, OthersKept
      <3>2. t \in LiveTasks /\ task[t].agent \in Agent
        BY <3>1 DEF Reacts, Live, LiveTasks, IInv, TaskOk
      <3> QED BY <2>3, <2>6, <3>1, <3>2
    <2>11. \A g \in Flushes : FlushOk(g)'
      BY <1>1, <2>2, <2>8, OthersKept
    <2>12. \A t \in Task : TaskOk(t)'
      BY <1>1, <2>2, OthersKept
    <2> QED BY <2>4, <2>5, <2>9, <2>10, <2>11, <2>12 DEF IInv
  <1>4. CASE ~(flush[f].free /\ slot[a] = flush[f].seen)
    <2>1. UNCHANGED slot /\ FReset(f, a, "held")
      BY <1>4 DEF Reserve, FNext
    <2>2. /\ flush' \in [Flushes -> FlushRecord]
          /\ flush'[f].pc = "held" /\ flush'[f].agent = a
          /\ \A g \in Flushes : g # f => flush'[g] = flush[g]
      BY <2>1, <1>2, FlushResets DEF FlushPc
    <2>3. TypeInv' /\ LimitInv' /\ TimerInv'
      BY <1>1, <2>1, <2>2 DEF IInv, TypeInv, LimitInv, TimerInv, batchVars, agentVars
    <2>4. NoBatchForgotten'
      BY <1>1, <2>2, BatchesKept
    <2>5. FlushOk(f)' /\ ~Holding(f)'
      BY <1>2, <2>2 DEF FlushOk, Holding
    <2> QED BY <1>1, <2>1, <2>2, <2>3, <2>4, <2>5, FlushFrame
  <1> QED BY <1>3, <1>4

LEMMA HeldStep == ASSUME IInv, NEW f \in Flushes, Held(f) PROVE IInv'
  <1> DEFINE a == flush[f].agent
  <1>1. /\ flush[f].pc = "held" /\ UNCHANGED <<channel, routing, pending, slot, task, agentVars>>
        /\ FDone(f)
    BY DEF Held, FAt
  <1>2. a \in Agent
    BY <1>1, FlushFields
  <1>3. /\ flush' \in [Flushes -> FlushRecord]
        /\ flush'[f] = NoFlush /\ flush'[f].pc = "idle"
        /\ \A g \in Flushes : g # f => flush'[g] = flush[g]
    BY <1>1, FlushEnds
  <1>4. /\ timers' \in [Agent -> Nat] /\ armed' \in [Agent -> BOOLEAN]
        /\ \A b \in Agent : timers'[b] >= timers[b]
        /\ \A b \in Agent : armed'[b] => pending[b] # <<>> /\ timers'[b] > 0
        /\ pending[a] # <<>> => timers'[a] > 0
    <2>1. /\ timers \in [Agent -> Nat] /\ armed \in [Agent -> BOOLEAN]
          /\ \A b \in Agent : armed[b] => pending[b] # <<>> /\ timers[b] > 0
      BY DEF IInv, TypeInv, TimerInv
    <2>2. CASE pending[a] # <<>> /\ ~armed[a]
      <3>1. armed' = [armed EXCEPT ![a] = TRUE] /\ timers' = [timers EXCEPT ![a] = @ + 1]
        BY <2>2 DEF Held
      <3> QED BY <2>1, <2>2, <3>1, <1>2
    <2>3. CASE ~(pending[a] # <<>> /\ ~armed[a])
      <3>1. UNCHANGED <<armed, timers>>
        BY <2>3 DEF Held
      <3> QED BY <2>1, <2>3, <3>1, <1>2
    <2> QED BY <2>2, <2>3
  <1>5. TypeInv' /\ LimitInv' /\ TimerInv'
    BY <1>1, <1>3, <1>4 DEF IInv, TypeInv, LimitInv, TimerInv, agentVars
  <1>6. NoBatchForgotten'
    BY <1>1, <1>3, <1>4, BatchesServed
  <1>7. FlushOk(f)' /\ ~Holding(f)'
    BY <1>3 DEF FlushOk, Holding
  <1> QED BY <1>1, <1>3, <1>5, <1>6, <1>7, FlushFrame

LEMMA TakeStep == ASSUME IInv, NEW f \in Flushes, Take(f) PROVE IInv'
  <1> DEFINE a == flush[f].agent
             l == IF pending[a] = <<>> THEN "release" ELSE "spawn"
             r == [flush[f] EXCEPT !.items = pending[a], !.pc = l]
  <1>1. /\ flush[f].pc = "take" /\ UNCHANGED <<channel, routing, timers, slot, task, agentVars>>
        /\ pending' = [pending EXCEPT ![a] = <<>>] /\ armed' = [armed EXCEPT ![a] = FALSE]
    BY DEF Take, FAt
  <1>2. a \in Agent /\ flush[f] \in FlushRecord
    BY <1>1, FlushFields
  <1>3. pending[a] \in Seq(Depths) /\ l \in {"release", "spawn"}
    BY <1>2 DEF IInv, TypeInv
  <1>4. flush' = [flush EXCEPT ![f] = r]
    BY DEF Take
  <1>5. /\ r \in FlushRecord /\ r.pc = l /\ r.agent = a /\ r.items = pending[a]
    <2> HIDE DEF l
    <2> QED BY <1>2, <1>3 DEF FlushRecord, FlushPc
  <1> HIDE DEF r
  <1>6. /\ flush' \in [Flushes -> FlushRecord]
        /\ flush'[f].pc = l /\ flush'[f].agent = a /\ flush'[f].items = pending[a]
        /\ \A g \in Flushes : g # f => flush'[g] = flush[g]
    BY <1>4, <1>5, FlushUpdate
  <1>7. /\ pending' \in [Agent -> Seq(Depths)] /\ pending'[a] = <<>>
        /\ armed' \in [Agent -> BOOLEAN] /\ ~armed'[a]
        /\ \A b \in Agent : b # a => pending'[b] = pending[b] /\ armed'[b] = armed[b]
    <2>1. <<>> \in Seq(Depths)
      OBVIOUS
    <2> QED BY <1>1, <1>2, <2>1 DEF IInv, TypeInv
  <1>8. TypeInv' /\ TimerInv'
    BY <1>1, <1>2, <1>6, <1>7 DEF IInv, TypeInv, TimerInv, agentVars
  <1>9. LimitInv'
    <2>1. Len(<<>>) = 0
      OBVIOUS
    <2>2. Len(pending'[a]) <= MaxBatch
      BY <1>7, <2>1, BoundAssumption
    <2>3. \A b \in Agent : b # a => Len(pending'[b]) <= MaxBatch
      BY <1>7 DEF IInv, LimitInv
    <2>4. /\ Len(channel) <= Capacity
          /\ routing.todo # {} => routing.depth \in Depths
      BY DEF IInv, LimitInv
    <2> QED BY <1>1, <2>2, <2>3, <2>4 DEF LimitInv
  <1>10. NoBatchForgotten'
    <2>1. timers' \in [Agent -> Nat] /\ timers' = timers
      BY <1>1 DEF IInv, TypeInv
    <2>2. \A b \in Agent : timers'[b] >= timers[b]
      BY <2>1
    <2>3. \A b \in Agent : pending'[b] # <<>> => pending[b] # <<>> /\ b # a
      BY <1>7
    <2> QED BY <1>6, <2>1, <2>2, <2>3, BatchesServed
  <1>11. FlushOk(f)' /\ Holding(f)
    BY <1>1, <1>2, <1>3, <1>6 DEF FlushOk, Holding
  <1> QED BY <1>1, <1>6, <1>8, <1>9, <1>10, <1>11, FlushFrame


(* A step of a flush that holds the slot of its agent and then gives it    *)
(* up: to a task, or to nobody.                                            *)
LEMMA SlotGivenUp ==
  ASSUME IInv, NEW f \in Flushes, flush[f].pc \in {"record", "release"}, NEW v \in SlotValue,
         FDone(f), slot' = [slot EXCEPT ![flush[f].agent] = v],
         flush[f].pc = "record" => v = flush[f].task,
         UNCHANGED <<channel, routing, batchVars, task, agentVars>>
  PROVE  IInv'
  <1> DEFINE a == flush[f].agent
  <1>1. a \in Agent /\ flush[f].pc # "idle" /\ slot[a] = Reserved /\ Holding(f)
    BY FlushFields DEF Holding, IInv, SlotOk
  <1>2. /\ flush' \in [Flushes -> FlushRecord]
        /\ flush'[f] = NoFlush /\ flush'[f].pc = "idle"
        /\ \A g \in Flushes : g # f => flush'[g] = flush[g]
    BY FlushEnds
  <1>3. /\ slot' \in [Agent -> SlotValue] /\ slot'[a] = v
        /\ \A b \in Agent : b # a => slot'[b] = slot[b]
    BY <1>1 DEF IInv, TypeInv
  <1>4. TypeInv' /\ LimitInv' /\ TimerInv'
    BY <1>2, <1>3 DEF IInv, TypeInv, LimitInv, TimerInv, batchVars, agentVars
  <1>5. NoBatchForgotten'
    BY <1>2, BatchesKept
  <1>6. FlushOk(f)' /\ ~Holding(f)'
    BY <1>2 DEF FlushOk, Holding
  <1>7. \A g \in Flushes : SlotOk(g)'
    <2>1. ASSUME NEW g \in Flushes, Holding(g)'
          PROVE  Holding(g) /\ flush[g].agent \in Agent /\ flush[g].agent # a /\ flush'[g] = flush[g]
      <3>1. g # f /\ Holding(g)
        BY <1>1, <1>2, <1>6, <2>1, OthersKept
      <3>2. flush[g].agent \in Agent
        BY <3>1, FlushFields DEF Holding
      <3> QED BY <3>1, <3>2, <1>1, <1>2 DEF IInv, SlotOk
    <2> QED BY <1>3, <2>1 DEF IInv, SlotOk
  <1>8. \A t \in Task : Reacts(t)' => Placed(t)'
    <2> SUFFICES ASSUME NEW t \in Task, Reacts(t)', ~Placed(t)'
                 PROVE  FALSE
      OBVIOUS
    <2>1. Reacts(t) /\ task[t].agent \in Agent /\ task'[t] = task[t]
      BY <1>1, <1>2, OthersKept DEF Reacts, Live, LiveTasks, IInv, TaskOk
    <2>2. CASE slot[task[t].agent] = t /\ slot'[task[t].agent] # t
      BY <1>1, <1>3, <2>1, <2>2, Names
    <2>3. CASE flush[f].pc = "record" /\ flush[f].agent = task[t].agent /\ flush[f].task = t
      <3>1. slot'[task'[t].agent] = t
        BY <1>3, <2>1, <2>3
      <3> QED BY <3>1 DEF Placed
    <2> QED BY <1>1, <1>2, <2>2, <2>3, OthersKept
  <1>9. \A g \in Flushes : FlushOk(g)'
    BY <1>1, <1>2, <1>6, OthersKept
  <1>10. \A t \in Task : TaskOk(t)'
    BY <1>1, <1>2, OthersKept
  <1> QED BY <1>4, <1>5, <1>7, <1>8, <1>9, <1>10 DEF IInv

LEMMA RecordStep == ASSUME IInv, NEW f \in Flushes, Record(f) PROVE IInv'
  <1>1. flush[f].pc = "record" /\ flush[f].task \in SlotValue
    BY FlushFields DEF Record, FAt, SlotValue
  <1> QED BY <1>1, SlotGivenUp DEF Record

LEMMA ReleaseStep == ASSUME IInv, NEW f \in Flushes, ReleaseSlot(f) PROVE IInv'
  <1>1. flush[f].pc = "release" /\ None \in SlotValue
    BY DEF ReleaseSlot, FAt, SlotValue
  <1> QED BY <1>1, SlotGivenUp DEF ReleaseSlot

-----------------------------------------------------------------------------
(* New tasks.                                                              *)

(* Nobody remembers the identifier of a new task.                          *)
LEMMA Created ==
  ASSUME IInv, NEW t \in Task, NewTask(t), NEW a \in Agent, NEW d \in Depths,
         task' = [task EXCEPT ![t] = [state |-> "Queued", pc |-> "none", agent |-> a, depth |-> d]]
  PROVE  /\ task' \in [Task -> TaskRecord]
         /\ task'[t].state = "Queued" /\ task'[t].pc = "none" /\ task'[t].agent = a
         /\ \A u \in Task : u # t => task'[u] = task[u]
         /\ flush[t] = NoFlush
         /\ \A g \in Flushes : flush'[g] = flush[g] => FlushOk(g)'
         /\ \A u \in Task : flush'[u] = flush[u] \/ flush[u] # NoFlush => TaskOk(u)'
         /\ \A u \in Task : u # t => (Reacts(u)' <=> Reacts(u))
  <1> DEFINE r == [state |-> "Queued", pc |-> "none", agent |-> a, depth |-> d]
  <1>1. /\ r \in TaskRecord /\ r.state = "Queued" /\ r.pc = "none" /\ r.agent = a
    BY DEF TaskRecord
  <1>2. task' = [task EXCEPT ![t] = r]
    OBVIOUS
  <1> HIDE DEF r
  <1>3. /\ task' \in [Task -> TaskRecord] /\ task'[t] = r
        /\ \A u \in Task : u # t => task'[u] = task[u]
    BY <1>1, <1>2 DEF IInv, TypeInv
  <1>4. /\ task[t] = NoTask /\ flush[t] = NoFlush
        /\ \A f \in Flushes : flush[f].seen # t
    BY DEF NewTask, Unused
  <1>5. LiveTasks' \subseteq LiveTasks \cup {t}
    BY <1>3 DEF LiveTasks
  <1>6. ASSUME NEW g \in Flushes, flush'[g] = flush[g]
        PROVE  FlushOk(g)'
    BY <1>4, <1>5, <1>6 DEF IInv, FlushOk
  <1>7. ASSUME NEW u \in Task, flush'[u] = flush[u] \/ flush[u] # NoFlush
        PROVE  TaskOk(u)'
    <2>1. CASE u = t
      BY <1>1, <1>3, <1>4, <1>7, <2>1 DEF TaskOk
    <2>2. CASE u # t
      BY <1>3, <1>7, <2>2 DEF IInv, TaskOk
    <2> QED BY <2>1, <2>2
  <1>8. \A u \in Task : u # t => (Reacts(u)' <=> Reacts(u))
    BY <1>3 DEF Reacts, Live, LiveTasks
  <1> QED BY <1>1, <1>3, <1>4, <1>6, <1>7, <1>8

LEMMA SpawnStep == ASSUME IInv, NEW f \in Flushes, SpawnBatch(f) PROVE IInv'
  <1> DEFINE a == flush[f].agent
  <1>1. flush[f].pc = "spawn" /\ UNCHANGED <<channel, routing, batchVars, slot, agentVars>>
    BY DEF SpawnBatch, FAt
  <1>2. a \in Agent /\ Holding(f) /\ FlushOk(f) /\ flush[f] \in FlushRecord
    BY <1>1, FlushFields DEF IInv, Holding
  <1>3. CASE ~enabled[a]
    <2>1. UNCHANGED task /\ FReset(f, a, "release")
      BY <1>3 DEF SpawnBatch, FNext
    <2>2. /\ flush' \in [Flushes -> FlushRecord]
          /\ flush'[f].pc = "release" /\ flush'[f].agent = a
          /\ \A g \in Flushes : g # f => flush'[g] = flush[g]
      BY <2>1, <1>2, FlushResets DEF FlushPc
    <2>3. TypeInv' /\ LimitInv' /\ TimerInv'
      BY <1>1, <2>1, <2>2 DEF IInv, TypeInv, LimitInv, TimerInv, batchVars, agentVars
    <2>4. NoBatchForgotten'
      BY <1>1, <2>2, BatchesKept
    <2>5. FlushOk(f)'
      BY <1>2, <2>2 DEF FlushOk
    <2> QED BY <1>1, <1>2, <2>1, <2>2, <2>3, <2>4, <2>5, FlushFrame
  <1>4. CASE enabled[a]
    <2>1. PICK t \in Task \cup {Refused} :
            /\ Create(t, a, Head(flush[f].items))
            /\ flush' = [flush EXCEPT ![f].pc = "record", ![f].task = t, ![f].items = <<>>]
      BY <1>4 DEF SpawnBatch
    <2> DEFINE r == [flush[f] EXCEPT !.pc = "record", !.task = t, !.items = <<>>]
    <2>2. <<>> \in Seq(Depths)
      OBVIOUS
    <2>3. r \in FlushRecord /\ r.pc = "record" /\ r.agent = a /\ r.task = t
      BY <1>2, <2>2 DEF FlushRecord, FlushPc
    <2>4. flush' = [flush EXCEPT ![f] = r]
      BY <1>2, <2>1 DEF FlushRecord, IInv, TypeInv
    <2> HIDE DEF r
    <2>5. /\ flush' \in [Flushes -> FlushRecord]
          /\ flush'[f].pc = "record" /\ flush'[f].agent = a /\ flush'[f].task = t
          /\ \A g \in Flushes : g # f => flush'[g] = flush[g]
      BY <2>3, <2>4, FlushUpdate
    <2>6. FlushOk(f)'
      BY <1>2, <2>5, Names DEF FlushOk
    <2>7. NoBatchForgotten'
      BY <1>1, <2>5, BatchesKept
    <2>8. CASE t = Refused
      <3>1. UNCHANGED task
        BY <2>1, <2>8, Names DEF Create
      <3>2. TypeInv' /\ LimitInv' /\ TimerInv'
        BY <1>1, <3>1, <2>5 DEF IInv, TypeInv, LimitInv, TimerInv, batchVars, agentVars
      <3> QED BY <1>1, <1>2, <2>5, <2>6, <2>7, <3>1, <3>2, FlushFrame
    <2>9. CASE t \in Task
      <3> DEFINE d == Head(flush[f].items)
      <3>1. d \in Depths
        <4>1. flush[f].items \in Seq(Depths) /\ flush[f].items # <<>>
          BY <1>1, <1>2, FlushFields DEF FlushOk
        <4> QED BY <4>1
      <3> HIDE DEF d
      <3>2. /\ NewTask(t)
            /\ task' = [task EXCEPT ![t] = [state |-> "Queued", pc |-> "none", agent |-> a, depth |-> d]]
        BY <2>1, <2>9, Names DEF Create, d
      <3>3. /\ task' \in [Task -> TaskRecord]
            /\ task'[t].agent = a /\ flush[t] = NoFlush
            /\ \A u \in Task : u # t => task'[u] = task[u]
            /\ \A g \in Flushes : flush'[g] = flush[g] => FlushOk(g)'
            /\ \A u \in Task : flush'[u] = flush[u] \/ flush[u] # NoFlush => TaskOk(u)'
            /\ \A u \in Task : u # t => (Reacts(u)' <=> Reacts(u))
        BY <1>2, <2>9, <3>1, <3>2, Created
      <3>4. TypeInv' /\ LimitInv' /\ TimerInv'
        BY <1>1, <2>5, <3>3 DEF IInv, TypeInv, LimitInv, TimerInv, batchVars, agentVars
      <3>5. \A g \in Flushes : FlushOk(g)'
        BY <2>5, <2>6, <3>3
      <3>6. \A g \in Flushes : SlotOk(g)'
        <4>1. \A h \in Flushes : Holding(h)' => Holding(h) /\ flush'[h].agent = flush[h].agent
          BY <1>2, <2>5 DEF Holding
        <4> QED BY <1>1, <4>1 DEF IInv, SlotOk
      <3>7. \A u \in Task : TaskOk(u)'
        <4>1. flush[f] # NoFlush
          BY <1>1, NoFlushType
        <4> QED BY <2>5, <3>3, <4>1, Names
      <3>8. \A u \in Task : Reacts(u)' => Placed(u)'
        <4>1. Placed(t)'
          BY <2>5, <3>3 DEF Placed
        <4>2. ASSUME NEW u \in Task, u # t, Reacts(u)'
              PROVE  Placed(u)'
          <5>1. Placed(u)
            BY <3>3, <4>2 DEF IInv
          <5>2. \A g \in Flushes : flush[g].pc = "record" => flush'[g] = flush[g]
            BY <1>1, <2>5
          <5> QED BY <1>1, <3>3, <4>2, <5>1, <5>2 DEF Placed
        <4> QED BY <4>1, <4>2
      <3> QED BY <2>7, <3>4, <3>5, <3>6, <3>7, <3>8 DEF IInv
    <2> QED BY <2>8, <2>9
  <1> QED BY <1>3, <1>4

LEMMA FlushSteps == ASSUME IInv, NEW f \in Flushes, FlushStep(f) PROVE IInv'
  BY PeekStep, LookStep, AskStep, ReserveStep, HeldStep, TakeStep, SpawnStep, RecordStep,
     ReleaseStep DEF FlushStep

-----------------------------------------------------------------------------
(* Events, and the dispatcher.                                             *)

LEMMA Emitted ==
  ASSUME IInv, NEW a \in Agent \cup {None}, NEW d \in Depth, Emit(a, d)
  PROVE  channel' \in Seq(Event) /\ Len(channel') <= Capacity
  <1>1. channel \in Seq(Event) /\ Len(channel) <= Capacity /\ Len(channel) \in Nat /\ Capacity \in Nat
    BY BoundAssumption DEF IInv, TypeInv, LimitInv
  <1>2. CASE Len(channel) < Capacity
    <2> DEFINE e == [by |-> a, depth |-> d]
    <2>1. e \in Event
      BY DEF Event
    <2>2. channel' = Append(channel, e)
      BY <1>2 DEF Emit
    <2> HIDE DEF e
    <2> QED BY <1>1, <1>2, <2>1, <2>2
  <1>3. CASE ~(Len(channel) < Capacity)
    BY <1>1, <1>3 DEF Emit
  <1> QED BY <1>2, <1>3

(* A step that leaves batches, slots, flushes and tasks alone.             *)
LEMMA OuterFrame ==
  ASSUME IInv, TypeInv', LimitInv', UNCHANGED <<batchVars, slot, flush, task>>
  PROVE  IInv'
  BY DEF IInv, TimerInv, NoBatchForgotten, batchVars, FlushOk, SlotOk, Holding, LiveTasks, TaskOk,
         Reacts, Live, Placed

LEMMA RootStep == ASSUME IInv, Root PROVE IInv'
  <1>1. 0 \in Depth
    BY BoundAssumption DEF Depth
  <1>2. channel' \in Seq(Event) /\ Len(channel') <= Capacity
    BY <1>1, Emitted DEF Root
  <1>3. TypeInv' /\ LimitInv'
    BY <1>2 DEF Root, IInv, TypeInv, LimitInv, batchVars, agentVars
  <1> QED BY <1>3, OuterFrame DEF Root

LEMMA SwitchStep ==
  ASSUME IInv, NEW a \in Agent, SetEnabled(a) \/ SetPaused(a)
  PROVE  IInv'
  <1>1. UNCHANGED <<channel, routing, batchVars, slot, flush, task, streak>>
    BY DEF SetEnabled, SetPaused
  <1>2. enabled' \in [Agent -> BOOLEAN] /\ paused' \in [Agent -> BOOLEAN]
    BY DEF SetEnabled, SetPaused, IInv, TypeInv
  <1>3. TypeInv' /\ LimitInv'
    BY <1>1, <1>2 DEF IInv, TypeInv, LimitInv, batchVars
  <1> QED BY <1>1, <1>3, OuterFrame

LEMMA ReceiveStep == ASSUME IInv, Receive PROVE IInv'
  <1> DEFINE ev == Head(channel)
             Subs == {a \in Agent : enabled[a] /\ a # ev.by /\ ~paused[a]}
  <1>1. PICK S \in (IF ev.depth > MaxChainDepth THEN {{}} ELSE SUBSET Subs) :
           routing' = [depth |-> ev.depth, todo |-> S]
    BY DEF Receive
  <1>2. /\ channel # <<>> /\ channel' = Tail(channel)
        /\ UNCHANGED <<batchVars, slot, flush, task, agentVars>>
    BY DEF Receive
  <1>3. channel \in Seq(Event) /\ Len(channel) <= Capacity
    BY DEF IInv, TypeInv, LimitInv
  <1>4. /\ channel' \in Seq(Event) /\ Len(channel') <= Capacity /\ ev \in Event
    BY <1>2, <1>3, BoundAssumption
  <1>5. ev.depth \in Depth
    BY <1>4 DEF Event
  <1>6. S \subseteq Agent /\ (S # {} => ev.depth \in Depths)
    <2>1. Subs \subseteq Agent
      OBVIOUS
    <2> HIDE DEF Subs
    <2>2. CASE ev.depth > MaxChainDepth
      BY <2>2
    <2>3. CASE ~(ev.depth > MaxChainDepth)
      BY <1>5, <2>1, <2>3, BoundAssumption DEF Depth, Depths
    <2> QED BY <2>2, <2>3
  <1>7. /\ routing' \in [depth : Depth, todo : SUBSET Agent]
        /\ routing'.todo # {} => routing'.depth \in Depths
    <2> HIDE DEF ev
    <2> QED BY <1>1, <1>5, <1>6
  <1>8. TypeInv' /\ LimitInv'
    BY <1>2, <1>4, <1>7 DEF IInv, TypeInv, LimitInv, batchVars, agentVars
  <1> QED BY <1>2, <1>8, OuterFrame

(* The agents that are left to serve become fewer.                         *)
LEMMA Served ==
  ASSUME IInv, NEW a \in Agent, a \in routing.todo, routing' = [routing EXCEPT !.todo = @ \ {a}]
  PROVE  /\ routing' \in [depth : Depth, todo : SUBSET Agent]
         /\ routing'.todo # {} => routing'.depth \in Depths
         /\ routing.depth \in Depths
  <1>1. routing \in [depth : Depth, todo : SUBSET Agent] /\ routing.depth \in Depths
    BY DEF IInv, TypeInv, LimitInv
  <1> QED BY <1>1

LEMMA ReactNowStep ==
  ASSUME IInv, NEW a \in Agent, NEW t \in Task \cup {Refused}, ReactNow(a, t)
  PROVE  IInv'
  <1>1. /\ a \in routing.todo /\ a \in Urgent /\ Create(t, a, routing.depth)
        /\ routing' = [routing EXCEPT !.todo = @ \ {a}]
        /\ UNCHANGED <<channel, batchVars, slot, flush, agentVars>>
    BY DEF ReactNow
  <1>2. /\ routing' \in [depth : Depth, todo : SUBSET Agent]
        /\ routing'.todo # {} => routing'.depth \in Depths
        /\ routing.depth \in Depths
    BY <1>1, Served
  <1>3. CASE t = Refused
    <2>1. UNCHANGED task
      BY <1>1, <1>3, Names DEF Create
    <2>2. TypeInv' /\ LimitInv'
      BY <1>1, <1>2, <2>1 DEF IInv, TypeInv, LimitInv, batchVars, agentVars
    <2> QED BY <1>1, <2>1, <2>2, OuterFrame
  <1>4. CASE t \in Task
    <2> DEFINE d == routing.depth
    <2>1. /\ NewTask(t)
          /\ task' = [task EXCEPT ![t] = [state |-> "Queued", pc |-> "none", agent |-> a, depth |-> d]]
      BY <1>1, <1>4, Names DEF Create
    <2>2. d \in Depths
      BY <1>2
    <2> HIDE DEF d
    <2>3. /\ task' \in [Task -> TaskRecord]
          /\ task'[t].agent = a
          /\ \A u \in Task : u # t => task'[u] = task[u]
          /\ \A g \in Flushes : flush'[g] = flush[g] => FlushOk(g)'
          /\ \A u \in Task : flush'[u] = flush[u] \/ flush[u] # NoFlush => TaskOk(u)'
          /\ \A u \in Task : u # t => (Reacts(u)' <=> Reacts(u))
      BY <1>4, <2>1, <2>2, Created
    <2>4. TypeInv' /\ LimitInv' /\ TimerInv' /\ NoBatchForgotten'
      BY <1>1, <1>2, <2>3 DEF IInv, TypeInv, LimitInv, TimerInv, NoBatchForgotten, batchVars, agentVars
    <2>5. \A g \in Flushes : FlushOk(g)' /\ SlotOk(g)'
      BY <1>1, <2>3 DEF IInv, SlotOk, Holding
    <2>6. \A u \in Task : TaskOk(u)'
      BY <1>1, <2>3, Names
    <2>7. \A u \in Task : Reacts(u)' => Placed(u)'
      <3>1. ~Reacts(t)'
        BY <1>1, <2>3 DEF Reacts
      <3>2. ASSUME NEW u \in Task, u # t, Reacts(u)'
            PROVE  Placed(u)'
        BY <1>1, <2>3, <3>2 DEF IInv, Placed
      <3> QED BY <3>1, <3>2
    <2> QED BY <2>4, <2>5, <2>6, <2>7 DEF IInv
  <1> QED BY <1>3, <1>4

(* A flush that starts: what a step of an idle one leaves to the rest.     *)
LEMMA FlushStarts ==
  ASSUME IInv, NEW f \in Flushes, flush[f].pc = "idle", f \notin Task, NEW a \in Agent, FStart(f, a),
         UNCHANGED <<slot, task>>
  PROVE  /\ flush' \in [Flushes -> FlushRecord]
         /\ flush'[f].pc = "look" /\ flush'[f].agent = a
         /\ \A g \in Flushes : g # f => flush'[g] = flush[g]
         /\ \A g \in Flushes : FlushOk(g)' /\ SlotOk(g)'
         /\ \A t \in Task : TaskOk(t)' /\ (Reacts(t) => Placed(t))'
  <1>1. /\ flush' \in [Flushes -> FlushRecord]
        /\ flush'[f].pc = "look" /\ flush'[f].agent = a
        /\ \A g \in Flushes : g # f => flush'[g] = flush[g]
    BY FlushResets DEF FStart, FlushPc
  <1>2. ASSUME NEW g \in Flushes
        PROVE  FlushOk(g)'
    <2>1. CASE g = f
      BY <1>1, <2>1 DEF FlushOk
    <2>2. CASE g # f
      BY <1>1, <2>2 DEF IInv, FlushOk, LiveTasks
    <2> QED BY <2>1, <2>2
  <1>3. \A g \in Flushes : SlotOk(g)'
    <2>1. \A h \in Flushes : Holding(h)' => Holding(h) /\ flush'[h] = flush[h]
      BY <1>1 DEF Holding
    <2> QED BY <2>1 DEF IInv, SlotOk
  <1>4. ASSUME NEW t \in Task
        PROVE  TaskOk(t)' /\ (Reacts(t) => Placed(t))'
    <2>1. TaskOk(t)'
      BY <1>1, Names DEF IInv, TaskOk
    <2>2. Reacts(t)' => Reacts(t)
      BY DEF Reacts, Live, LiveTasks
    <2>3. \A g \in Flushes : flush[g].pc = "record" => flush'[g] = flush[g]
      BY <1>1
    <2>4. Placed(t) => Placed(t)'
      BY <2>3 DEF Placed
    <2> QED BY <2>1, <2>2, <2>4 DEF IInv
  <1> QED BY <1>1, <1>2, <1>3, <1>4

LEMMA ReactStep == ASSUME IInv, NEW a \in Agent, React(a) PROVE IInv'
  <1> DEFINE items == IF Len(pending[a]) >= MaxBatch THEN pending[a]
                      ELSE Append(pending[a], routing.depth)
  <1>1. /\ a \in routing.todo /\ flush[Dispatcher] = NoFlush
        /\ routing' = [routing EXCEPT !.todo = @ \ {a}]
        /\ pending' = [pending EXCEPT ![a] = items]
        /\ UNCHANGED <<channel, slot, task, agentVars>>
    BY DEF React
  <1>2. /\ routing' \in [depth : Depth, todo : SUBSET Agent]
        /\ routing'.todo # {} => routing'.depth \in Depths
        /\ routing.depth \in Depths
    BY <1>1, Served
  <1>3. items \in Seq(Depths) /\ Len(items) <= MaxBatch /\ items # <<>>
    <2>1. /\ pending[a] \in Seq(Depths) /\ Len(pending[a]) <= MaxBatch
          /\ Len(pending[a]) \in Nat /\ MaxBatch \in Nat \ {0}
      BY BoundAssumption DEF IInv, TypeInv, LimitInv
    <2>2. CASE Len(pending[a]) >= MaxBatch
      <3>1. items = pending[a]
        BY <2>2
      <3>2. Len(pending[a]) > 0
        BY <2>1, <2>2
      <3> HIDE DEF items
      <3> QED BY <2>1, <3>1, <3>2
    <2>3. CASE ~(Len(pending[a]) >= MaxBatch)
      <3>1. items = Append(pending[a], routing.depth)
        BY <2>3
      <3>2. /\ Append(pending[a], routing.depth) \in Seq(Depths)
            /\ Len(Append(pending[a], routing.depth)) = Len(pending[a]) + 1
        BY <1>2, <2>1
      <3> HIDE DEF items
      <3> QED BY <2>1, <2>3, <3>1, <3>2
    <2> QED BY <2>2, <2>3
  <1>4. /\ pending' \in [Agent -> Seq(Depths)] /\ pending'[a] = items
        /\ \A b \in Agent : b # a => pending'[b] = pending[b]
    <2> HIDE DEF items
    <2> QED BY <1>1, <1>3 DEF IInv, TypeInv
  <1>5. LimitInv'
    <2>1. \A b \in Agent : Len(pending'[b]) <= MaxBatch
      <3> HIDE DEF items
      <3> QED BY <1>3, <1>4 DEF IInv, LimitInv
    <2> QED BY <1>1, <1>2, <2>1 DEF IInv, LimitInv
  <1>6. CASE Len(items) >= MaxBatch
    <2>1. FStart(Dispatcher, a) /\ UNCHANGED <<armed, timers>>
      BY <1>6 DEF React
    <2>2. /\ flush' \in [Flushes -> FlushRecord]
          /\ flush'[Dispatcher].pc = "look" /\ flush'[Dispatcher].agent = a
          /\ \A g \in Flushes : g # Dispatcher => flush'[g] = flush[g]
          /\ \A g \in Flushes : FlushOk(g)' /\ SlotOk(g)'
          /\ \A t \in Task : TaskOk(t)' /\ (Reacts(t) => Placed(t))'
      BY <1>1, <2>1, FlushStarts, Names, NoFlushType
    <2> HIDE DEF items
    <2>3. TypeInv' /\ TimerInv'
      BY <1>1, <1>2, <1>3, <1>4, <2>1, <2>2 DEF IInv, TypeInv, TimerInv, agentVars
    <2>4. NoBatchForgotten'
      <3> SUFFICES ASSUME NEW b \in Agent, pending'[b] # <<>>, ~(timers'[b] > 0)
                   PROVE  \E g \in Flushes :
                            /\ flush'[g].agent = b
                            /\ flush'[g].pc \in {"peek", "look", "ask", "reserve", "held", "take"}
        BY DEF NoBatchForgotten
      <3>1. CASE b = a
        BY <2>2, <3>1, Names
      <3>2. CASE b # a
        <4>1. PICK g \in Flushes :
                 /\ flush[g].agent = b
                 /\ flush[g].pc \in {"peek", "look", "ask", "reserve", "held", "take"}
          BY <1>4, <2>1, <3>2 DEF IInv, NoBatchForgotten
        <4>2. g # Dispatcher
          BY <1>1, <4>1, NoFlushType
        <4> QED BY <2>2, <4>1, <4>2
      <3> QED BY <3>1, <3>2
    <2> QED BY <1>5, <2>2, <2>3, <2>4 DEF IInv
  <1>7. CASE ~(Len(items) >= MaxBatch)
    <2>1. /\ armed' = [armed EXCEPT ![a] = TRUE]
          /\ timers' = [timers EXCEPT ![a] = @ + IF armed[a] THEN 0 ELSE 1]
          /\ UNCHANGED flush
      BY <1>7 DEF React
    <2> HIDE DEF items
    <2>2. /\ armed' \in [Agent -> BOOLEAN] /\ timers' \in [Agent -> Nat] /\ timers'[a] > 0
          /\ \A b \in Agent : b # a => armed'[b] = armed[b] /\ timers'[b] = timers[b]
      <3>1. /\ armed \in [Agent -> BOOLEAN] /\ timers \in [Agent -> Nat]
            /\ armed[a] => timers[a] > 0
        BY DEF IInv, TypeInv, TimerInv
      <3>2. CASE armed[a]
        <4>1. timers' = [timers EXCEPT ![a] = @ + 0]
          BY <2>1, <3>2
        <4> QED BY <2>1, <3>1, <3>2, <4>1
      <3>3. CASE ~armed[a]
        <4>1. timers' = [timers EXCEPT ![a] = @ + 1]
          BY <2>1, <3>3
        <4> QED BY <2>1, <3>1, <4>1
      <3> QED BY <3>2, <3>3
    <2>3. TypeInv' /\ TimerInv'
      BY <1>1, <1>2, <1>3, <1>4, <2>1, <2>2 DEF IInv, TypeInv, TimerInv, agentVars
    <2>4. NoBatchForgotten'
      BY <1>4, <2>1, <2>2 DEF IInv, NoBatchForgotten
    <2>5. \A g \in Flushes : FlushOk(g)' /\ SlotOk(g)'
      BY <1>1, <2>1 DEF IInv, FlushOk, SlotOk, Holding, LiveTasks
    <2>6. \A t \in Task : TaskOk(t)' /\ (Reacts(t) => Placed(t))'
      BY <1>1, <2>1 DEF IInv, TaskOk, Reacts, Live, LiveTasks, Placed
    <2> QED BY <1>5, <2>3, <2>4, <2>5, <2>6 DEF IInv
  <1> QED BY <1>6, <1>7

LEMMA TimerStep ==
  ASSUME IInv, NEW a \in Agent, NEW f \in Flusher, TimerFires(a, f)
  PROVE  IInv'
  <1>1. /\ timers[a] > 0 /\ flush[f].pc = "idle" /\ FStart(f, a)
        /\ timers' = [timers EXCEPT ![a] = @ - 1] /\ armed' = [armed EXCEPT ![a] = FALSE]
        /\ UNCHANGED <<channel, routing, pending, slot, task, agentVars>>
    BY DEF TimerFires, FAt
  <1>2. f \in Flushes /\ f \notin Task
    BY Names
  <1>3. /\ flush' \in [Flushes -> FlushRecord]
        /\ flush'[f].pc = "look" /\ flush'[f].agent = a
        /\ \A g \in Flushes : g # f => flush'[g] = flush[g]
        /\ \A g \in Flushes : FlushOk(g)' /\ SlotOk(g)'
        /\ \A t \in Task : TaskOk(t)' /\ (Reacts(t) => Placed(t))'
    BY <1>1, <1>2, FlushStarts
  <1>4. /\ armed' \in [Agent -> BOOLEAN] /\ timers' \in [Agent -> Nat] /\ ~armed'[a]
        /\ \A b \in Agent : b # a => armed'[b] = armed[b] /\ timers'[b] = timers[b]
    BY <1>1 DEF IInv, TypeInv
  <1>5. TypeInv' /\ LimitInv' /\ TimerInv'
    BY <1>1, <1>3, <1>4 DEF IInv, TypeInv, LimitInv, TimerInv, agentVars
  <1>6. NoBatchForgotten'
    <2> SUFFICES ASSUME NEW b \in Agent, pending'[b] # <<>>, ~(timers'[b] > 0)
                 PROVE  \E g \in Flushes :
                          /\ flush'[g].agent = b
                          /\ flush'[g].pc \in {"peek", "look", "ask", "reserve", "held", "take"}
      BY DEF NoBatchForgotten
    <2>1. CASE b = a
      BY <1>2, <1>3, <2>1
    <2>2. CASE b # a
      <3>1. PICK g \in Flushes :
               /\ flush[g].agent = b
               /\ flush[g].pc \in {"peek", "look", "ask", "reserve", "held", "take"}
        BY <1>1, <1>4, <2>2 DEF IInv, NoBatchForgotten
      <3>2. g # f
        BY <1>1, <3>1
      <3> QED BY <1>3, <3>1, <3>2
    <2> QED BY <2>1, <2>2
  <1> QED BY <1>3, <1>5, <1>6 DEF IInv

-----------------------------------------------------------------------------
(* The steps of a task.                                                    *)

LEMMA NoTaskType ==
  /\ NoTask \in TaskRecord
  /\ NoTask.state = "Absent" /\ NoTask.pc = "none" /\ NoTask.agent = None
  <1>1. 0 \in Depths
    BY BoundAssumption DEF Depths
  <1> QED BY <1>1 DEF NoTask, TaskRecord

LEMMA TaskSet ==
  ASSUME IInv, NEW t \in Task, NEW s \in {"Queued", "Running", "Over"} \cup {task[t].state},
         NEW l \in {"none", "loop", "drain", "lost", "failing"}, SetTask(t, s, l)
  PROVE  /\ task' \in [Task -> TaskRecord]
         /\ \A u \in Task : u # t => task'[u] = task[u]
         /\ s = "Over" /\ l = "none" => task'[t] = NoTask
         /\ ~(s = "Over" /\ l = "none") =>
               task'[t].state = s /\ task'[t].pc = l /\ task'[t].agent = task[t].agent
  <1> DEFINE r == IF s = "Over" /\ l = "none" THEN NoTask
                  ELSE [task[t] EXCEPT !.state = s, !.pc = l]
  <1>1. task \in [Task -> TaskRecord]
    BY DEF IInv, TypeInv
  <1>2. task' = [task EXCEPT ![t] = r]
    BY <1>1 DEF SetTask
  <1>3. CASE s = "Over" /\ l = "none"
    <2>1. r = NoTask
      BY <1>3
    <2> HIDE DEF r
    <2> QED BY <1>1, <1>2, <1>3, <2>1, NoTaskType
  <1>4. CASE ~(s = "Over" /\ l = "none")
    <2>1. r = [task[t] EXCEPT !.state = s, !.pc = l]
      BY <1>4
    <2>2. /\ r \in TaskRecord
          /\ r.state = s /\ r.pc = l /\ r.agent = task[t].agent
      BY <1>1, <2>1, TaskFields DEF TaskRecord
    <2> HIDE DEF r
    <2> QED BY <1>1, <1>2, <1>4, <2>2
  <1> QED BY <1>3, <1>4

(* An event of a task is one deeper than its trigger, and within bounds.   *)
LEMMA TaskEmitted ==
  ASSUME IInv, NEW t \in Task, EmitOf(t)
  PROVE  channel' \in Seq(Event) /\ Len(channel') <= Capacity
  <1>1. task[t].agent \in Agent \cup {None} /\ task[t].depth \in Depths
    BY TaskFields
  <1>2. EventChainDepth(t) \in Depth
    BY <1>1, BoundAssumption DEF EventChainDepth, Depth, Depths
  <1> QED BY <1>1, <1>2, Emitted DEF EmitOf

(* The execution of a task goes on to its end, and its flush has not begun.*)
LEMMA TaskGoesOn ==
  ASSUME IInv, NEW t \in Task, NEW s \in {"Queued", "Running", "Over"} \cup {task[t].state},
         NEW l \in {"none", "loop", "drain", "lost", "failing"}, SetTask(t, s, l),
         task[t].state # "Absent",
         s = "Queued" => l = "none",
         s = "Running" => l \in {"loop", "lost", "failing"},
         l = "drain" => s = "Over",
         UNCHANGED flush,
         flush[t] = NoFlush \/ l = "failing" \/ (s = "Over" /\ l = "none")
  PROVE  /\ TaskOk(t)'
         /\ task' \in [Task -> TaskRecord]
         /\ \A u \in Task : u # t => task'[u] = task[u]
         /\ Live(t)' => s \in {"Queued", "Running"}
         /\ Reacts(t)' => s \in {"Queued", "Running"} /\ l \in {"none", "loop"}
                          /\ task'[t].agent = task[t].agent
  <1>1. task[t].agent \in Agent /\ task[t].state \in {"Queued", "Running", "Over"}
    BY TaskFields DEF IInv, TaskOk
  <1>2. /\ task' \in [Task -> TaskRecord]
        /\ \A u \in Task : u # t => task'[u] = task[u]
    BY TaskSet
  <1>3. CASE s = "Over" /\ l = "none"
    <2>1. task'[t] = NoTask /\ task'[t].state = "Absent" /\ task'[t].pc = "none"
      BY <1>3, TaskSet, NoTaskType
    <2> QED BY <1>2, <2>1 DEF TaskOk, Live, LiveTasks, Reacts
  <1>4. CASE ~(s = "Over" /\ l = "none")
    <2>1. task'[t].state = s /\ task'[t].pc = l /\ task'[t].agent = task[t].agent
      BY <1>4, TaskSet
    <2> QED BY <1>1, <1>2, <1>4, <2>1 DEF TaskOk, Live, LiveTasks, Reacts
  <1> QED BY <1>3, <1>4

LEMMA StartStep == ASSUME IInv, NEW t \in Task, Start(t) PROVE IInv'
  <1>1. /\ task[t].state = "Queued" /\ SetTask(t, "Running", "loop") /\ EmitOf(t)
        /\ UNCHANGED <<routing, batchVars, slot, flush, agentVars>>
    BY DEF Start
  <1>2. TaskOk(t) /\ task[t].pc = "none"
    BY <1>1 DEF IInv, TaskOk
  <1>3. flush[t] = NoFlush
    BY <1>1, <1>2, NoTaskType DEF TaskOk
  <1>4. /\ TaskOk(t)'
        /\ task' \in [Task -> TaskRecord]
        /\ \A u \in Task : u # t => task'[u] = task[u]
        /\ Reacts(t)' => task'[t].agent = task[t].agent
    BY <1>1, <1>3, TaskGoesOn
  <1>5. TypeInv' /\ LimitInv'
    BY <1>1, <1>4, TaskEmitted DEF IInv, TypeInv, LimitInv, batchVars, agentVars
  <1>6. Live(t) /\ (Reacts(t)' => Reacts(t) /\ task'[t].agent = task[t].agent)
    BY <1>1, <1>2, <1>4 DEF Live, LiveTasks, Reacts
  <1> QED BY <1>1, <1>4, <1>5, <1>6, TaskFrame

(* The end of a task, announced or not.                                    *)
LEMMA CloseStep ==
  ASSUME IInv, NEW t \in Task, NEW l \in {"none", "drain"}, Close(t, l),
         task[t].state # "Absent", flush[t] = NoFlush \/ l = "none",
         streak' \in [Agent -> 0..StreakLimit]
  PROVE  IInv'
  <1>1. /\ SetTask(t, "Over", l)
        /\ UNCHANGED <<routing, batchVars, slot, flush, enabled, paused>>
    BY DEF Close
  <1>2. /\ TaskOk(t)'
        /\ task' \in [Task -> TaskRecord]
        /\ \A u \in Task : u # t => task'[u] = task[u]
        /\ ~Live(t)' /\ ~Reacts(t)'
    BY <1>1, TaskGoesOn
  <1>3. channel' \in Seq(Event) /\ Len(channel') <= Capacity
    <2>1. CASE Live(t)
      BY <2>1, TaskEmitted DEF Close
    <2>2. CASE ~Live(t)
      BY <2>2 DEF Close, IInv, TypeInv, LimitInv
    <2> QED BY <2>1, <2>2
  <1>4. TypeInv' /\ LimitInv'
    BY <1>1, <1>2, <1>3 DEF IInv, TypeInv, LimitInv, batchVars
  <1> QED BY <1>1, <1>2, <1>4, TaskFrame

LEMMA CompleteStep == ASSUME IInv, NEW t \in Task, Complete(t) PROVE IInv'
  <1>1. task[t].pc = "loop" /\ Close(t, "drain") /\ streak' = [streak EXCEPT ![task[t].agent] = 0]
    BY DEF Complete
  <1>2. task[t].state # "Absent" /\ flush[t] = NoFlush
    BY <1>1, NoTaskType DEF IInv, TaskOk
  <1>3. streak' \in [Agent -> 0..StreakLimit]
    <2>1. 0 \in 0..StreakLimit
      BY BoundAssumption
    <2> QED BY <1>1, <2>1 DEF IInv, TypeInv
  <1> QED BY <1>1, <1>2, <1>3, CloseStep

LEMMA FailingStep == ASSUME IInv, NEW t \in Task, Failing(t) PROVE IInv'
  <1>1. task[t].pc = "failing" /\ Close(t, "none") /\ streak' = streak
    BY DEF Failing
  <1>2. task[t].state # "Absent"
    BY <1>1, NoTaskType DEF IInv, TaskOk
  <1>3. streak' \in [Agent -> 0..StreakLimit]
    BY <1>1 DEF IInv, TypeInv
  <1> QED BY <1>1, <1>2, <1>3, CloseStep

LEMMA FailStep == ASSUME IInv, NEW t \in Task, Fail(t) PROVE IInv'
  <1> DEFINE a == task[t].agent
  <1>1. /\ task[t].pc = "loop" /\ SetTask(t, task[t].state, "lost")
        /\ UNCHANGED <<channel, routing, batchVars, slot, flush, enabled>>
    BY DEF Fail
  <1>2. /\ task[t].state \in {"Running", "Over"} /\ flush[t] = NoFlush /\ a \in Agent
    BY <1>1, NoTaskType, TaskFields DEF IInv, TaskOk
  <1>3. /\ TaskOk(t)'
        /\ task' \in [Task -> TaskRecord]
        /\ \A u \in Task : u # t => task'[u] = task[u]
        /\ Live(t)' => task[t].state \in {"Queued", "Running"}
        /\ ~Reacts(t)'
    BY <1>1, <1>2, TaskGoesOn
  <1>4. streak' \in [Agent -> 0..StreakLimit] /\ paused' \in [Agent -> BOOLEAN]
    <2>1. CASE streak' = [streak EXCEPT ![a] = 0] /\ UNCHANGED paused
      <3>1. 0 \in 0..StreakLimit
        BY BoundAssumption
      <3> QED BY <2>1, <3>1 DEF IInv, TypeInv
    <2>2. CASE /\ StreakLimit > 0
               /\ streak' = [streak EXCEPT ![a] = (@ + 1) % StreakLimit]
               /\ paused' = [paused EXCEPT ![a] = @ \/ streak[a] + 1 = StreakLimit]
      <3>1. streak \in [Agent -> 0..StreakLimit] /\ paused \in [Agent -> BOOLEAN]
        BY DEF IInv, TypeInv
      <3>2. StreakLimit \in Nat /\ streak[a] \in Nat
        BY <1>2, <3>1, BoundAssumption
      <3>3. (streak[a] + 1) % StreakLimit \in 0..StreakLimit
        BY <2>2, <3>2
      <3>4. (paused[a] \/ streak[a] + 1 = StreakLimit) \in BOOLEAN
        OBVIOUS
      <3> HIDE DEF a
      <3>5. streak' \in [Agent -> 0..StreakLimit]
        BY <2>2, <3>1, <3>3
      <3>6. paused' \in [Agent -> BOOLEAN]
        BY <2>2, <3>1, <3>4
      <3> QED BY <3>5, <3>6
    <2> QED BY <2>1, <2>2 DEF Fail
  <1>5. TypeInv' /\ LimitInv'
    BY <1>1, <1>3, <1>4 DEF IInv, TypeInv, LimitInv, batchVars
  <1>6. Live(t)' => Live(t)
    BY <1>3 DEF Live, LiveTasks
  <1> QED BY <1>1, <1>3, <1>5, <1>6, TaskFrame

LEMMA CancelStep == ASSUME IInv, NEW t \in Task, Cancel(t) PROVE IInv'
  <1>1. /\ Live(t) /\ SetTask(t, "Over", task[t].pc)
        /\ UNCHANGED <<channel, routing, batchVars, slot, flush, agentVars>>
    BY DEF Cancel
  <1>2. /\ task[t].state # "Absent" /\ task[t].pc \in {"none", "loop", "lost", "failing"}
        /\ flush[t] = NoFlush \/ task[t].pc = "failing"
    BY <1>1, NoTaskType DEF IInv, TaskOk, Live, LiveTasks
  <1>3. /\ TaskOk(t)'
        /\ task' \in [Task -> TaskRecord]
        /\ \A u \in Task : u # t => task'[u] = task[u]
        /\ ~Live(t)' /\ ~Reacts(t)'
    BY <1>1, <1>2, TaskGoesOn
  <1>4. TypeInv' /\ LimitInv'
    BY <1>1, <1>3 DEF IInv, TypeInv, LimitInv, batchVars, agentVars
  <1> QED BY <1>1, <1>3, <1>4, TaskFrame

(* The slot of a task that ended goes, if it is the task's, and what waits *)
(* is flushed.                                                             *)
LEMMA DrainStep ==
  ASSUME IInv, NEW t \in Task, NEW l \in {"none", "failing"}, Drain(t, l),
         \/ task[t].pc = "drain" /\ l = "none"
         \/ task[t].pc = "lost" /\ l = "failing"
  PROVE  IInv'
  <1> DEFINE a == task[t].agent
  <1>1. SetTask(t, task[t].state, l) /\ UNCHANGED <<channel, routing, batchVars, agentVars>>
    BY DEF Drain
  <1>2. /\ flush[t] = NoFlush /\ flush[t].pc = "idle" /\ a \in Agent /\ t \in Flushes
        /\ task[t].state \in {"Running", "Over"} /\ (l = "none" => task[t].state = "Over")
    BY NoTaskType, NoFlushType, TaskFields, Names DEF IInv, TaskOk
  <1>3. /\ task' \in [Task -> TaskRecord]
        /\ \A u \in Task : u # t => task'[u] = task[u]
        /\ l = "none" => task'[t] = NoTask
        /\ l = "failing" => /\ task'[t].state = task[t].state /\ task'[t].pc = "failing"
                            /\ task'[t].agent = a
    BY <1>1, <1>2, TaskSet
  <1>4. TaskOk(t)' /\ ~Reacts(t)' /\ (Live(t)' => Live(t))
    <2>1. CASE l = "none"
      BY <1>3, <2>1, NoTaskType DEF TaskOk, Reacts, Live, LiveTasks
    <2>2. CASE l = "failing"
      BY <1>2, <1>3, <2>2 DEF TaskOk, Reacts, Live, LiveTasks
    <2> QED BY <2>1, <2>2
  <1>5. CASE slot[a] # t
    <2>1. UNCHANGED <<slot, flush>>
      BY <1>5 DEF Drain
    <2>2. TypeInv' /\ LimitInv'
      BY <1>1, <1>3, <2>1 DEF IInv, TypeInv, LimitInv, batchVars, agentVars
    <2> QED BY <1>1, <1>3, <1>4, <2>1, <2>2, TaskFrame
  <1>6. CASE slot[a] = t
    <2>1. slot' = [slot EXCEPT ![a] = None] /\ FReset(t, a, "peek")
      BY <1>6 DEF Drain
    <2> HIDE DEF a
    <2>2. /\ flush' \in [Flushes -> FlushRecord]
          /\ flush'[t].pc = "peek" /\ flush'[t].agent = a
          /\ \A g \in Flushes : g # t => flush'[g] = flush[g]
      BY <1>2, <2>1, FlushResets DEF FlushPc
    <2>3. /\ slot' \in [Agent -> SlotValue]
          /\ \A b \in Agent : b # a => slot'[b] = slot[b]
      BY <1>2, <2>1 DEF IInv, TypeInv, SlotValue
    <2>4. TypeInv' /\ LimitInv' /\ TimerInv'
      BY <1>1, <1>3, <2>2, <2>3 DEF IInv, TypeInv, LimitInv, TimerInv, batchVars, agentVars
    <2>5. NoBatchForgotten'
      BY <1>1, <1>2, <2>2, BatchesKept
    <2>6. LiveTasks' \subseteq LiveTasks
      BY <1>3, <1>4 DEF Live, LiveTasks
    <2>7. \A g \in Flushes : FlushOk(g)'
      <3>1. FlushOk(t)'
        BY <1>2, <2>2 DEF FlushOk
      <3>2. \A g \in Flushes : g # t => FlushOk(g)'
        BY <2>2, <2>6 DEF IInv, FlushOk
      <3> QED BY <3>1, <3>2
    <2>8. \A g \in Flushes : SlotOk(g)'
      <3>1. \A g \in Flushes : Holding(g)' =>
               Holding(g) /\ flush'[g] = flush[g] /\ flush[g].agent \in Agent
        BY <2>2, FlushFields DEF Holding
      <3>2. \A g \in Flushes : Holding(g)' => flush[g].agent # a
        BY <1>6, <3>1, Names DEF IInv, SlotOk
      <3> QED BY <2>3, <3>1, <3>2 DEF IInv, SlotOk
    <2>9. ASSUME NEW u \in Task, u # t
          PROVE  TaskOk(u)' /\ (Reacts(u)' => Placed(u)')
      <3>1. task'[u] = task[u] /\ flush'[u] = flush[u] /\ u \in Flushes
        BY <1>3, <2>2, <2>9, Names
      <3>2. TaskOk(u)'
        BY <3>1 DEF IInv, TaskOk
      <3>3. Reacts(u)' => Reacts(u) /\ task[u].agent \in Agent
        BY <3>1 DEF IInv, Reacts, Live, LiveTasks, TaskOk
      <3>4. ASSUME Reacts(u)'
            PROVE  Placed(u)'
        <4>1. CASE slot[task[u].agent] = u
          BY <1>6, <2>3, <2>9, <3>1, <3>3, <3>4, <4>1 DEF Placed
        <4>2. CASE \E f \in Flushes :
                     flush[f].pc = "record" /\ flush[f].agent = task[u].agent /\ flush[f].task = u
          <5>1. PICK f \in Flushes :
                   flush[f].pc = "record" /\ flush[f].agent = task[u].agent /\ flush[f].task = u
            BY <4>2
          <5>2. flush'[f] = flush[f]
            BY <1>2, <2>2, <5>1
          <5> QED BY <3>1, <5>1, <5>2 DEF Placed
        <4> QED BY <3>3, <3>4, <4>1, <4>2 DEF IInv, Placed
      <3> QED BY <3>2, <3>4
    <2> QED BY <1>4, <2>4, <2>5, <2>7, <2>8, <2>9 DEF IInv
  <1> QED BY <1>5, <1>6

LEMMA TaskSteps == ASSUME IInv, NEW t \in Task, TaskStep(t) PROVE IInv'
  <1>1. CASE DrainWon(t)
    BY <1>1, DrainStep DEF DrainWon
  <1>2. CASE DrainLost(t)
    BY <1>2, DrainStep DEF DrainLost
  <1> QED BY <1>1, <1>2, StartStep, CompleteStep, FailStep, FailingStep DEF TaskStep

-----------------------------------------------------------------------------
(* The theorems.                                                           *)

LEMMA InitInv == Init => IInv
  <1> SUFFICES ASSUME Init PROVE IInv
    OBVIOUS
  <1>1. TypeInv
    <2>1. channel \in Seq(Event) /\ routing \in [depth : Depth, todo : SUBSET Agent]
      <3>1. 0 \in Depth
        BY BoundAssumption DEF Depth
      <3> QED BY <3>1 DEF Init
    <2>2. pending \in [Agent -> Seq(Depths)] /\ armed \in [Agent -> BOOLEAN] /\ timers \in [Agent -> Nat]
      <3>1. <<>> \in Seq(Depths)
        OBVIOUS
      <3> QED BY <3>1 DEF Init
    <2>3. slot \in [Agent -> SlotValue] /\ flush \in [Flushes -> FlushRecord]
      BY NoFlushType DEF Init, SlotValue
    <2>4. task \in [Task -> TaskRecord]
      BY NoTaskType DEF Init
    <2>5. /\ enabled \in [Agent -> BOOLEAN] /\ paused \in [Agent -> BOOLEAN]
          /\ streak \in [Agent -> 0..StreakLimit]
      <3>1. 0 \in 0..StreakLimit
        BY BoundAssumption
      <3> QED BY <3>1 DEF Init
    <2> QED BY <2>1, <2>2, <2>3, <2>4, <2>5 DEF TypeInv
  <1>2. LimitInv
    <2>1. Len(<<>>) = 0
      OBVIOUS
    <2> QED BY <2>1, BoundAssumption DEF Init, LimitInv
  <1>3. TimerInv /\ NoBatchForgotten
    BY DEF Init, TimerInv, NoBatchForgotten
  <1>4. \A f \in Flushes : FlushOk(f) /\ SlotOk(f)
    BY NoFlushType DEF Init, FlushOk, SlotOk, Holding
  <1>5. \A t \in Task : TaskOk(t) /\ ~Reacts(t)
    BY NoTaskType, Names DEF Init, TaskOk, Reacts, Live, LiveTasks
  <1> QED BY <1>1, <1>2, <1>3, <1>4, <1>5 DEF IInv

LEMMA NextInv == IInv /\ [Next]_vars => IInv'
  <1> SUFFICES ASSUME IInv, [Next]_vars PROVE IInv'
    OBVIOUS
  <1>1. CASE Outside
    BY <1>1, RootStep DEF Outside
  <1>2. CASE DispatcherStep
    BY <1>2, ReceiveStep, ReactStep, ReactNowStep DEF DispatcherStep
  <1>3. CASE \E a \in Agent, f \in Flusher : TimerFires(a, f)
    BY <1>3, TimerStep
  <1>4. CASE \E f \in Flushes : FlushStep(f)
    BY <1>4, FlushSteps
  <1>5. CASE \E t \in Task : TaskStep(t) \/ CallAgent(t) \/ Cancel(t)
    BY <1>5, TaskSteps, RootStep, CancelStep DEF CallAgent
  <1>6. CASE \E a \in Agent : SetEnabled(a) \/ SetPaused(a)
    BY <1>6, SwitchStep
  <1>7. CASE UNCHANGED vars
    <2>1. UNCHANGED <<channel, routing, batchVars, slot, flush, task, agentVars>>
      BY <1>7 DEF vars
    <2>2. TypeInv' /\ LimitInv'
      BY <2>1 DEF IInv, TypeInv, LimitInv, batchVars, agentVars
    <2> QED BY <2>1, <2>2, OuterFrame
  <1> QED BY <1>1, <1>2, <1>3, <1>4, <1>5, <1>6, <1>7 DEF Next

LEMMA Invariant == Spec => []IInv
  <1> QED BY InitInv, NextInv, PTL DEF Spec

(* Every record, batch and counter keeps its type and its limit: no batch  *)
(* outgrows reaction_batch_max_events, no channel its capacity, no task is *)
(* deeper than max_chain_depth, and a batch with a mark has events and a   *)
(* timer (enqueue_reaction, flush_reactions, process_event).               *)
THEOREM TypeCorrect == Spec => []TypeOK
  <1>1. ASSUME IInv
        PROVE  TypeOK
    <2>1. /\ channel \in Seq([by : Agent \cup {None}, depth : Depth])
          /\ Len(channel) <= Capacity
          /\ routing.depth \in Depth /\ routing.todo \subseteq Agent
      BY <1>1 DEF IInv, TypeInv, LimitInv, Event
    <2>2. ASSUME NEW a \in Agent
          PROVE  /\ Len(pending[a]) <= MaxBatch
                 /\ \A i \in 1..Len(pending[a]) : pending[a][i] \in 0..MaxChainDepth
                 /\ armed[a] => pending[a] # <<>> /\ timers[a] > 0
                 /\ slot[a] \in Task \cup {None, Reserved, Refused}
                 /\ streak[a] \in 0..StreakLimit
      <3>1. pending[a] \in Seq(Depths)
        BY <1>1 DEF IInv, TypeInv
      <3>2. \A i \in 1..Len(pending[a]) : pending[a][i] \in Depths
        BY <3>1
      <3> QED BY <1>1, <3>2 DEF IInv, TypeInv, LimitInv, TimerInv, SlotValue, Depths
    <2>3. ASSUME NEW t \in Task
          PROVE  /\ task[t].state \in {"Absent", "Queued", "Running", "Over"}
                 /\ task[t].pc \in {"none", "loop", "drain", "lost", "failing"}
                 /\ task[t].depth \in 0..MaxChainDepth
      BY <1>1, TaskFields DEF Depths
    <2> QED BY <2>1, <2>2, <2>3 DEF TypeOK
  <1>2. IInv => TypeOK
    BY <1>1
  <1> QED BY <1>2, Invariant, PTL

(* A burst of events costs an agent that batches one task at a time,       *)
(* whichever of the timers, the full batches, the ends of reactions and    *)
(* the operator's acts fall together (in_flight, in flush_reactions and    *)
(* drain_reactions_after_task).                                            *)
THEOREM OneReactionAtATime == Spec => []OneReaction
  <1>1. ASSUME IInv, NEW a \in Agent \ Urgent
        PROVE  Cardinality(Reacting(a)) <= 1
    <2>1. ASSUME NEW t \in Reacting(a)
          PROVE  t \in Task /\ Placed(t) /\ task[t].agent = a
      <3>1. t \in Task /\ Reacts(t) /\ task[t].agent = a
        BY <2>1 DEF Reacting, Reacts
      <3> QED BY <1>1, <3>1 DEF IInv
    <2>2. ASSUME NEW t \in Reacting(a), NEW u \in Reacting(a)
          PROVE  t = u
      <3>1. CASE slot[a] = t /\ slot[a] = u
        BY <3>1
      <3>2. CASE slot[a] # t \/ slot[a] # u
        <4>1. PICK f \in Flushes :
                 flush[f].pc = "record" /\ flush[f].agent = a /\ flush[f].task \in {t, u}
          BY <2>1, <2>2, <3>2 DEF Placed
        <4>2. SlotOk(f) /\ Holding(f)
          BY <1>1, <4>1 DEF IInv, Holding
        <4>3. slot[a] = Reserved
          BY <4>1, <4>2 DEF SlotOk
        <4>4. slot[a] # t /\ slot[a] # u
          BY <2>1, <2>2, <4>3, Names
        <4>5. PICK g \in Flushes :
                 flush[g].pc = "record" /\ flush[g].agent = a /\ flush[g].task = t
          BY <2>1, <2>2, <4>4 DEF Placed
        <4>6. PICK h \in Flushes :
                 flush[h].pc = "record" /\ flush[h].agent = a /\ flush[h].task = u
          BY <2>1, <2>2, <4>4 DEF Placed
        <4>7. g = f /\ h = f
          BY <4>1, <4>2, <4>5, <4>6 DEF SlotOk, Holding
        <4> QED BY <4>5, <4>6, <4>7
      <3> QED BY <3>1, <3>2
    <2>3. CASE Reacting(a) = {}
      BY <2>3, FS_EmptySet
    <2>4. CASE Reacting(a) # {}
      <3>1. PICK t : t \in Reacting(a)
        BY <2>4
      <3>2. Reacting(a) = {t}
        BY <2>2, <3>1
      <3>3. Cardinality({t}) = 1
        BY FS_Singleton
      <3> QED BY <3>2, <3>3
    <2> QED BY <2>3, <2>4
  <1>2. IInv => OneReaction
    BY <1>1 DEF OneReaction
  <1> QED BY <1>2, Invariant, PTL

(* Events that wait in a batch have a timer or a flush on its way, also    *)
(* after the slot was busy, a spawn was refused or a timer of an earlier   *)
(* batch went off (flush_reactions, drain_reactions_after_task).           *)
THEOREM BatchesAreServed == Spec => []NoBatchForgotten
  <1>1. IInv => NoBatchForgotten
    BY DEF IInv
  <1> QED BY <1>1, Invariant, PTL

=============================================================================
