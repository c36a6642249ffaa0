------------------------- MODULE EscalationsProofs -------------------------
(***************************************************************************)
(* Proofs about the operator questions: for every number of tasks,         *)
(* operators and questions, only an approval runs a tool, the first        *)
(* decision stands, and no number shown to an operator is used again.      *)
(***************************************************************************)
EXTENDS Escalations, FiniteSetTheorems, TLAPS

----------------------------------------------------------------------------
(* The inductive invariant.                                                *)

(* Where a loop has a question of its own in memory.                       *)
Numbered == {"install", "persist", "announce", "tx", "rx", "take", "wait",
             "exec", "gwait", "settle"}

(* Where a call goes on after its wakes.                                   *)
Ends == {"idle", "run", "fail", "task", "look"}

(* The watchdog's channel is in place from its creation on.                *)
Listening(c) == c.pc = "gwait" \/ (c.pc \in {"persist", "announce"} /\ c.kind = "gate")

(* What a loop that has a question knows of it.                            *)
LoopInv(p) ==
    LET c == call[p] IN
    /\ c.pc \in Numbered =>
         c.id \in Id /\ esc[c.id].task = p /\ esc[c.id].status # Nothing
    /\ c.pc = "settle" => c.verdict \in Decided
    /\ c.pc = "announce" => rows[c.id] # Nothing
    /\ c.pc = "exec" => esc[c.id].status = "approved"
    /\ c.pc = "take" /\ esc[c.id].status = "pending" => rx[c.id] = "map"
    /\ Listening(c) /\ esc[c.id].status = "pending" =>
         c.id \in tx /\ rx[c.id] = "held"

(* A soft approval's number is unused while its loop holds next_id.        *)
SoftInv(p) ==
    LET c == call[p] IN
    /\ c.pc \in {"soft", "spush"} => c.kind = "soft"
    /\ c.pc \in {"spush", "spersist"} => c.id \in Id /\ idLock = p
    /\ c.pc = "spush" => c.id + 1 = next /\ esc[c.id].status = Nothing
    /\ c.pc = "spersist" => esc[c.id].status # Nothing

(* Only decided questions are stored and woken.                            *)
WakeInv(p) ==
    LET c == call[p] IN
    /\ c.pc = "clear" => c.id \in Id /\ esc[c.id].status \in Decided
    /\ \A i \in c.todo \cup c.wakes : esc[i].status \in Decided
    /\ c.cont \in Ends

LocalInv(p) == LoopInv(p) /\ SoftInv(p) /\ WakeInv(p)

(* Numbers not handed out are nowhere; numbers shown are in the table.     *)
FreshInv ==
    /\ \A i \in Id : i >= next => esc[i] = Blank /\ rows[i] = Nothing
    /\ \A i \in announced : rows[i] # Nothing

(* A message is the decision.                                              *)
MsgInv == \A i \in Id : msg[i] # Nothing => esc[i].status = msg[i]

(* The loops that have still to take a number find one.                    *)
CountInv == IsFiniteSet(Asking) /\ next + Cardinality(Asking) <= MaxId + 1

Closing(t) == \E p \in Proc : At(p, "close") /\ call[p].task = t

Holding(c, i) == i = c.id /\ c.pc \in Numbered \cup {"park"}

(* A cancelled task's open questions are about to be closed, or its loop   *)
(* is still at them.                                                       *)
CancelInv ==
    restarts = 0 => \A t \in Task : tasks[t] = "Cancelled" =>
        \/ Closing(t)
        \/ \A i \in PendingOf(t) : esc[i].kind = "soft" \/ Holding(call[t], i)

IInv ==
    /\ TypeOK
    /\ \A p \in Proc : LocalInv(p)
    /\ FreshInv
    /\ MsgInv
    /\ CountInv
    /\ CancelInv

----------------------------------------------------------------------------
(* Frames: what a step leaves as it is.                                    *)

(* A step of p and the other calls.                                        *)
Frame(p) ==
    /\ \A q \in Proc \ {p} : call'[q] = call[q]
    /\ \A i \in Id :
         \/ esc'[i] = esc[i]
         \/ /\ esc[i].status = "pending"
            /\ esc'[i].task = esc[i].task
            /\ esc'[i].status \in Decided
         \/ esc[i].status = Nothing /\ esc'[i].status = "pending"
    /\ \A i \in Id : rows[i] # Nothing => rows'[i] # Nothing
    /\ \A i \in Id : esc[i].status = "pending" =>
         /\ i \in tx => i \in tx'
         /\ esc[i].task # p /\ rx[i] \in {"map", "held"} => rx'[i] = rx[i]
    /\ idLock \notin {None, p} =>
         /\ idLock' = idLock
         /\ next' = next
         /\ \A i \in Id : esc[i].status = Nothing => esc'[i] = esc[i]

LEMMA OthersKeep ==
    ASSUME IInv, NEW p \in Proc, Frame(p), NEW q \in Proc, q # p
    PROVE  LocalInv(q)'
<1>1. call'[q] = call[q]
  BY DEF Frame
<1>2. call[q] \in Call
  BY DEF IInv, TypeOK
<1>3. \A i \in Id : /\ esc[i].status \in Decided => esc'[i] = esc[i]
                    /\ esc[i].status # Nothing =>
                         esc'[i].status # Nothing /\ esc'[i].task = esc[i].task
                    /\ esc[i].status # Nothing /\ esc'[i].status = "pending"
                         => esc'[i] = esc[i]
  BY DEF Frame, Decided, Nothing
<1>4. LoopInv(q)'
  <2>1. LoopInv(q)
    BY DEF IInv, LocalInv
  <2> DEFINE i == call[q].id
  <2>2. CASE call[q].pc \in Numbered
    <3>1. i \in Id /\ esc[i].task = q /\ esc[i].status # Nothing
      BY <2>1, <2>2 DEF LoopInv
    <3>2. esc'[i].task = q /\ esc'[i].status # Nothing
      BY <1>3, <3>1
    <3>3. call[q].pc = "announce" => rows'[i] # Nothing
      BY <2>1, <3>1 DEF LoopInv, Frame
    <3>4. call[q].pc = "exec" => esc'[i].status = "approved"
      BY <1>3, <2>1, <3>1 DEF LoopInv, Decided
    <3>5. call[q].pc = "take" /\ esc'[i].status = "pending" => rx'[i] = "map"
      BY <1>3, <2>1, <3>1 DEF LoopInv, Frame
    <3>6. Listening(call[q]) /\ esc'[i].status = "pending" =>
            i \in tx' /\ rx'[i] = "held"
      BY <1>3, <2>1, <3>1 DEF LoopInv, Frame
    <3> QED
      BY <1>1, <2>1, <3>1, <3>2, <3>3, <3>4, <3>5, <3>6
         DEF LoopInv, Listening
  <2>3. CASE call[q].pc \notin Numbered
    BY <1>1, <2>3 DEF LoopInv, Numbered, Listening
  <2> QED
    BY <2>2, <2>3
<1>5. SoftInv(q)'
  <2>1. SoftInv(q)
    BY DEF IInv, LocalInv
  <2>2. q # None
    BY ProcessAssumption
  <2>3. CASE call[q].pc \in {"spush", "spersist"}
    <3>1. call[q].id \in Id /\ idLock = q
      BY <2>1, <2>3 DEF SoftInv
    <3>2. /\ idLock' = idLock
          /\ next' = next
          /\ \A i \in Id : esc[i].status = Nothing => esc'[i] = esc[i]
      BY <2>2, <3>1 DEF Frame
    <3> QED
      BY <1>1, <1>3, <2>1, <3>1, <3>2 DEF SoftInv
  <2>4. CASE call[q].pc \notin {"spush", "spersist"}
    BY <1>1, <2>1, <2>4 DEF SoftInv
  <2> QED
    BY <2>3, <2>4
<1>6. WakeInv(q)'
  <2>1. WakeInv(q)
    BY DEF IInv, LocalInv
  <2>2. call[q].todo \cup call[q].wakes \subseteq Id
    BY <1>2 DEF Call
  <2> QED
    BY <1>1, <1>3, <2>1, <2>2 DEF WakeInv
<1> QED
  BY <1>4, <1>5, <1>6 DEF LocalInv

LEMMA StepInductive ==
    ASSUME IInv, NEW p \in Proc, Frame(p), LocalInv(p)',
           TypeOK', FreshInv', MsgInv', CountInv', CancelInv'
    PROVE  IInv'
<1>1. \A q \in Proc : LocalInv(q)'
  BY OthersKeep
<1> QED
  BY <1>1 DEF IInv

(* A call that is not about a question it has to wait for.                 *)
Plain == {"idle", "run", "create", "alloc", "park", "fail", "close", "store",
          "task", "look", "deny"}

LEMMA PlainCall ==
    ASSUME IInv, NEW p \in Proc, NEW c \in Call, Goto(p, c),
           c.pc \in Plain, c.cont \in Ends,
           \A i \in c.todo \cup c.wakes : esc'[i].status \in Decided
    PROVE  LocalInv(p)'
<1>1. call'[p] = c
  BY DEF IInv, TypeOK, Goto
<1>2. LoopInv(p)'
  BY <1>1 DEF LoopInv, Numbered, Listening, Plain
<1>3. SoftInv(p)' /\ WakeInv(p)'
  BY <1>1 DEF SoftInv, WakeInv, Plain
<1> QED
  BY <1>2, <1>3 DEF LocalInv

(* The loops that have still to take a number: none is added.              *)
Takes == {"create", "alloc", "soft"}

LEMMA CountKeeps ==
    ASSUME IInv, next' = next,
           \A t \in Task : call'[t].pc \in Takes => call[t].pc \in Takes
    PROVE  CountInv'
<1>1. Asking' \subseteq Asking
  BY DEF Asking, Takes
<1>2. IsFiniteSet(Asking) /\ next + Cardinality(Asking) <= MaxId + 1
  BY DEF IInv, CountInv
<1>3. IsFiniteSet(Asking') /\ Cardinality(Asking') <= Cardinality(Asking)
  BY <1>1, <1>2, FS_Subset
<1>4. Cardinality(Asking) \in Nat /\ Cardinality(Asking') \in Nat
  BY <1>2, <1>3, FS_CardinalityType
<1>5. MaxId \in Nat /\ next \in Nat
  BY CountAssumption DEF IInv, TypeOK
<1> QED
  BY <1>2, <1>3, <1>4, <1>5 DEF CountInv

(* A number is there for a loop that takes one, and one loop less needs it.*)
LEMMA CountTakes ==
    ASSUME IInv, NEW t \in Task, call[t].pc \in Takes,
           call'[t].pc \notin Takes,
           \A u \in Task \ {t} : call'[u] = call[u], next' = next + 1
    PROVE  CountInv' /\ next \in Id /\ next' \in 1..MaxId + 1
<1>1. IsFiniteSet(Asking) /\ next + Cardinality(Asking) <= MaxId + 1
  BY DEF IInv, CountInv
<1>2. t \in Asking
  BY DEF Asking, Takes
<1>3. Asking' = Asking \ {t}
  BY DEF Asking, Takes
<1>4. IsFiniteSet(Asking') /\ Cardinality(Asking') = Cardinality(Asking) - 1
  BY <1>1, <1>2, <1>3, FS_RemoveElement
<1>5. Cardinality(Asking) \in Nat /\ Cardinality(Asking') \in Nat
  BY <1>1, <1>4, FS_CardinalityType
<1>6. MaxId \in Nat /\ next \in Nat /\ next >= 1
  BY CountAssumption DEF IInv, TypeOK
<1> QED
  BY <1>1, <1>4, <1>5, <1>6 DEF CountInv, Id

(* Nobody is cancelled, no closing is dropped, and what is open is held as *)
(* before.                                                                 *)
LEMMA CancelKeeps ==
    ASSUME IInv, NEW p \in Proc, NEW c \in Call, Goto(p, c),
           restarts' = restarts, call[p].pc # "close",
           \A t \in Task : tasks'[t] = "Cancelled" => tasks[t] = "Cancelled",
           \A i \in Id : esc'[i].status = "pending" =>
               \/ esc'[i] = esc[i]
               \/ esc'[i].kind = "soft"
               \/ esc'[i].task = p /\ Holding(c, i),
           \A i \in Id :
               p \in Task /\ tasks'[p] = "Cancelled" /\ Holding(call[p], i)
                 /\ esc'[i].status = "pending" => Holding(c, i)
    PROVE  CancelInv'
<1>1. /\ call'[p] = c
      /\ \A q \in Proc \ {p} : call'[q] = call[q]
  BY DEF Goto, IInv, TypeOK
<1> SUFFICES ASSUME restarts = 0, NEW t \in Task, tasks'[t] = "Cancelled"
             PROVE  \/ Closing(t)'
                    \/ \A i \in PendingOf(t)' :
                         esc'[i].kind = "soft" \/ Holding(call'[t], i)
  BY DEF CancelInv, Holding
<1>2. t \in Proc
  BY DEF Proc
<1>3. CASE Closing(t)
  <2>1. PICK q \in Proc : At(q, "close") /\ call[q].task = t
    BY <1>3 DEF Closing
  <2>2. q # p
    BY <2>1 DEF At
  <2> QED
    BY <1>1, <2>1, <2>2 DEF Closing, At
<1>4. CASE \A i \in PendingOf(t) : esc[i].kind = "soft" \/ Holding(call[t], i)
  <2> SUFFICES ASSUME NEW i \in Id, esc'[i].status = "pending",
                      esc'[i].task = t
               PROVE  esc'[i].kind = "soft" \/ Holding(call'[t], i)
    BY DEF PendingOf
  <2>1. CASE esc'[i] = esc[i]
    <3>1. esc[i].kind = "soft" \/ Holding(call[t], i)
      BY <1>4, <2>1 DEF PendingOf
    <3>2. CASE t = p
      BY <1>1, <2>1, <3>1, <3>2
    <3>3. CASE t # p
      BY <1>1, <1>2, <2>1, <3>1, <3>3
    <3> QED
      BY <3>2, <3>3
  <2>2. CASE esc'[i].kind = "soft"
    BY <2>2
  <2>3. CASE esc'[i].task = p /\ Holding(c, i)
    BY <1>1, <2>3
  <2> QED
    BY <2>1, <2>2, <2>3
<1> QED
  BY <1>3, <1>4 DEF IInv, CancelInv

(* A step that changes the state of a task and the call, and keeps all the *)
(* questions and their channels.                                           *)
LEMMA QuietStep ==
    ASSUME IInv, NEW p \in Proc, NEW c \in Call, Goto(p, c),
           UNCHANGED <<esc, rows, next, idLock, channels, announced, restarts>>,
           escLock' \in Task \cup {None}, tasks' \in [Task -> TaskState],
           LocalInv(p)', CountInv', CancelInv'
    PROVE  IInv'
<1>1. TypeOK'
  BY DEF IInv, TypeOK, Goto, channels
<1>2. Frame(p)
  BY DEF Frame, channels, Goto, IInv, TypeOK
<1>3. FreshInv' /\ MsgInv'
  BY DEF IInv, FreshInv, MsgInv, channels
<1> QED
  BY <1>1, <1>2, <1>3, StepInductive

----------------------------------------------------------------------------
(* The steps of a loop.                                                    *)

LEMMA CallType ==
    /\ Idle \in Call
    /\ Running \in Call
    /\ \A p \in Proc : TypeOK => call[p] \in Call
<1>1. Idle \in Call /\ Running \in Call
  BY DEF Idle, Running, Call, Pc
<1>2. \A p \in Proc : TypeOK => call[p] \in Call
  BY DEF TypeOK
<1> QED
  BY <1>1, <1>2

(* What a plain call needs to keep the counts and the questions held.      *)
LEMMA PlainStep ==
    ASSUME IInv, NEW p \in Proc, NEW c \in Call, Goto(p, c),
           UNCHANGED <<esc, rows, next, idLock, channels, announced, restarts>>,
           escLock' \in Task \cup {None}, tasks' \in [Task -> TaskState],
           c.pc \in Plain, c.cont \in Ends,
           \A i \in c.todo \cup c.wakes : esc[i].status \in Decided,
           c.pc \in Takes => call[p].pc \in Takes,
           call[p].pc # "close",
           \A t \in Task : tasks'[t] = "Cancelled" => tasks[t] = "Cancelled",
           \/ call[p].pc \notin Numbered \cup {"park"}
           \/ esc[call[p].id].status # "pending"
           \/ p \notin Task
           \/ tasks'[p] # "Cancelled"
    PROVE  IInv'
<1>1. LocalInv(p)'
  BY PlainCall
<1>2. CountInv'
  BY CountKeeps DEF Goto, IInv, TypeOK, Proc
<1>3. CancelInv'
  <2>1. \A i \in Id : esc'[i] = esc[i]
    OBVIOUS
  <2>2. \A i \in Id :
            p \in Task /\ tasks'[p] = "Cancelled" /\ Holding(call[p], i)
              /\ esc'[i].status = "pending" => Holding(c, i)
    <3> SUFFICES ASSUME NEW i \in Id, p \in Task, tasks'[p] = "Cancelled",
                        Holding(call[p], i), esc'[i].status = "pending"
                 PROVE  Holding(c, i)
      OBVIOUS
    <3>1. i = call[p].id /\ call[p].pc \in Numbered \cup {"park"}
      BY DEF Holding
    <3> QED
      BY <2>1, <3>1
  <2> QED
    BY <2>1, <2>2, CancelKeeps
<1> QED
  BY <1>1, <1>2, <1>3, QuietStep

(* A loop that is dispatched, parks, runs the tool, settles a question     *)
(* that is decided, or fails with nothing to close.                        *)
LEMMA LoopRests ==
    ASSUME IInv, NEW t \in Task,
           \/ Dispatch(t) \/ CapReached(t) \/ CheckCap(t) \/ RunTool(t)
           \/ Park(t) \/ Finish(t) \/ Fail(t)
    PROVE  IInv'
<1>1. t \in Proc /\ call[t] \in Call /\ TypeOK /\ LocalInv(t)
  BY DEF IInv, TypeOK, Proc
<1>2. /\ call[t].cont \in Ends
      /\ \A i \in call[t].todo \cup call[t].wakes : esc[i].status \in Decided
      /\ call[t].pc = "exec" => esc[call[t].id].status # "pending"
  BY <1>1 DEF LocalInv, LoopInv, WakeInv
<1>3. CASE Dispatch(t)
  <2>1. /\ Goto(t, Running)
        /\ tasks' \in [Task -> TaskState]
        /\ \A u \in Task : tasks'[u] = "Cancelled" => tasks[u] = "Cancelled"
    BY <1>1, <1>3 DEF Dispatch, TypeOK, TaskState
  <2> QED
    BY <1>1, <1>3, <2>1, PlainStep, CallType
       DEF Dispatch, At, locks, Running, Idle, Plain, Ends, Takes, Numbered,
           TypeOK
<1>4. CASE CapReached(t)
  <2> DEFINE c == [call[t] EXCEPT !.pc = CASE call[t].kind = "tool" -> "run"
                                           [] call[t].kind = "gate" -> "fail"
                                           [] OTHER                 -> "park"]
  <2>1. CASE call[t].kind = "tool"
    <3>1. Goto(t, Running)
      BY <1>4, <2>1 DEF CapReached, Step
    <3> QED
      BY <1>1, <1>4, <3>1, PlainStep, CallType
         DEF CapReached, At, locks, Running, Idle, Plain, Ends, Takes, Numbered,
             TypeOK
  <2>2. CASE call[t].kind # "tool"
    <3> DEFINE l == IF call[t].kind = "gate" THEN "fail" ELSE "park"
    <3>1. Goto(t, [call[t] EXCEPT !.pc = l])
      BY <1>4, <2>2 DEF CapReached, Step
    <3>2. [call[t] EXCEPT !.pc = l] \in Call
      BY <1>1 DEF Call, Pc
    <3> QED
      BY <1>1, <1>2, <1>4, <3>1, <3>2, PlainStep
         DEF CapReached, At, locks, Plain, Takes, Numbered, TypeOK, Call
  <2> QED
    BY <2>1, <2>2
<1>5. CASE CheckCap(t)
  <2>1. Goto(t, [call[t] EXCEPT !.pc = "alloc"])
    BY <1>5 DEF CheckCap, Step
  <2>2. [call[t] EXCEPT !.pc = "alloc"] \in Call
    BY <1>1 DEF Call, Pc
  <2> QED
    BY <1>1, <1>2, <1>5, <2>1, <2>2, PlainStep
       DEF CheckCap, At, Plain, Takes, Numbered, TypeOK, Call
<1>6. CASE RunTool(t)
  BY <1>1, <1>2, <1>6, PlainStep, CallType
     DEF RunTool, At, locks, Running, Idle, Plain, Ends, Takes, Numbered, TypeOK
<1>7. CASE Park(t)
  <2>1. /\ Goto(t, Idle)
        /\ tasks' \in [Task -> TaskState]
        /\ \A u \in Task : tasks'[u] = "Cancelled" => tasks[u] = "Cancelled"
        /\ tasks'[t] # "Cancelled"
    BY <1>1, <1>7 DEF Park, Step, TypeOK, TaskState
  <2> QED
    BY <1>1, <1>7, <2>1, PlainStep, CallType
       DEF Park, At, locks, Idle, Plain, Ends, Takes, Numbered, TypeOK
<1>8. CASE Finish(t) \/ Fail(t)
  <2> DEFINE c == [Idle EXCEPT !.pc = "close", !.task = t]
  <2>1. /\ tasks' \in [Task -> TaskState]
        /\ \A u \in Task : tasks'[u] = "Cancelled" => tasks[u] = "Cancelled"
    BY <1>1, <1>8 DEF Finish, Fail, TypeOK, TaskState, Terminal
  <2>2. c \in Call
    BY DEF Idle, Call, Pc
  <2>3. Goto(t, c) \/ Goto(t, Idle)
    BY <1>8 DEF Finish, Fail
  <2>4. /\ UNCHANGED <<esc, rows, next, locks, channels, announced, restarts>>
        /\ call[t].pc \in {"run", "fail"}
    BY <1>8 DEF Finish, Fail, At
  <2>5. CASE Goto(t, c)
    BY <1>1, <2>1, <2>2, <2>4, <2>5, PlainStep
       DEF locks, Idle, Plain, Ends, Takes, Numbered, TypeOK
  <2>6. CASE Goto(t, Idle)
    BY <1>1, <2>1, <2>4, <2>6, PlainStep, CallType
       DEF locks, Idle, Plain, Ends, Takes, Numbered, TypeOK
  <2> QED
    BY <2>3, <2>5, <2>6
<1> QED
  BY <1>3, <1>4, <1>5, <1>6, <1>7, <1>8

(* A loop goes on within its question, or with a new one.                  *)
LEMMA AskTypeOK ==
    ASSUME IInv, NEW t \in Task, NEW k \in Kind, NEW l \in Pc
    PROVE  /\ [call[t] EXCEPT !.pc = l] \in Call
           /\ [Running EXCEPT !.kind = k, !.pc = l] \in Call
           /\ \A i \in Id : [call[t] EXCEPT !.id = i, !.pc = l] \in Call
<1>1. t \in Proc
  BY DEF Proc
<1> QED
  BY <1>1, CallType DEF IInv, Call

(* A new question counts on a number that is left.                         *)
LEMMA AskKeeps ==
    ASSUME IInv, NEW t \in Task, NEW k \in Kinds, Ask(t, k)
    PROVE  IInv'
<1> DEFINE l == IF k = "soft" THEN "soft" ELSE "create"
<1> DEFINE c == [Running EXCEPT !.kind = k, !.pc = l]
<1>1. t \in Proc /\ k \in Kind
  BY KindAssumption DEF Proc
<1>2. l \in Pc
  BY DEF Pc
<1>3. c \in Call /\ Goto(t, c) /\ call'[t] = c
  BY <1>1, <1>2, AskTypeOK DEF Ask, Goto, IInv, TypeOK
<1>4. LocalInv(t)'
  <2>1. /\ c.pc = l /\ c.kind = k /\ c.todo = {} /\ c.wakes = {}
        /\ c.cont = "idle"
    BY DEF Running, Idle
  <2> QED
    BY <1>3, <2>1
       DEF LocalInv, LoopInv, SoftInv, WakeInv, Numbered, Listening, Ends
<1>5. CountInv'
  <2>1. Asking' = Asking \cup {t}
    <3>1. /\ call'[t].pc = l
          /\ \A u \in Task \ {t} : call'[u] = call[u]
      BY <1>1, <1>3 DEF Goto, IInv, TypeOK, Proc, Running, Idle
    <3> QED
      BY <3>1 DEF Asking
  <2>2. t \notin Asking
    BY DEF Ask, At, Asking
  <2>3. IsFiniteSet(Asking')
        /\ Cardinality(Asking') = Cardinality(Asking) + 1
    BY <2>1, <2>2, FS_AddElement DEF IInv, CountInv
  <2>4. Cardinality(Asking) \in Nat /\ next \in Nat /\ MaxId \in Nat
    BY FS_CardinalityType, CountAssumption DEF IInv, CountInv, TypeOK
  <2>5. next' = next /\ next + Cardinality(Asking) <= MaxId
    BY DEF Ask
  <2> QED
    BY <2>3, <2>4, <2>5 DEF CountInv
<1>6. CancelInv'
  <2> HIDE DEF c
  <2>1. /\ \A i \in Id : esc'[i] = esc[i]
        /\ tasks' = tasks /\ restarts' = restarts
        /\ \A i \in Id :
               t \in Task /\ tasks'[t] = "Cancelled" /\ Holding(call[t], i)
                 /\ esc'[i].status = "pending" => Holding(c, i)
        /\ call[t].pc # "close"
    BY DEF Ask, At, Holding, Numbered
  <2> QED
    BY <1>1, <1>3, <2>1, CancelKeeps
<1> QED
  BY <1>1, <1>3, <1>4, <1>5, <1>6, QuietStep DEF Ask, IInv, TypeOK, locks

(* A loop that takes a number.                                             *)
LEMMA AllocateKeeps ==
    ASSUME IInv, NEW t \in Task, Allocate(t)
    PROVE  IInv'
<1> DEFINE l == IF call[t].kind = "gate" THEN "install" ELSE "persist"
<1> DEFINE c == [call[t] EXCEPT !.id = next, !.pc = l]
<1>1. /\ t \in Proc /\ call[t] \in Call /\ TypeOK /\ LocalInv(t)
      /\ call[t].pc = "alloc" /\ idLock = None /\ next \in Nat
  BY CallType DEF IInv, Proc, Allocate, At, TypeOK
<1>2. l \in Pc
  BY DEF Pc
<1>3. next \in Id /\ next' \in 1..MaxId + 1 /\ CountInv' /\ c \in Call
  <2>1. /\ call'[t].pc \notin Takes
        /\ \A u \in Task \ {t} : call'[u] = call[u]
    BY <1>1 DEF Allocate, Goto, TypeOK, Call, Takes, Proc
  <2>2. next \in Id /\ next' \in 1..MaxId + 1 /\ CountInv'
    BY <1>1, <2>1, CountTakes DEF Allocate, Takes
  <2>3. c \in Call
    BY <1>1, <1>2, <2>2 DEF Call
  <2> QED
    BY <2>2, <2>3
<1>4. /\ esc' = [esc EXCEPT ![next] = Asked(t)]
      /\ Goto(t, c) /\ call'[t] = c
      /\ c.id = next /\ c.pc = l /\ c.kind = call[t].kind
      /\ c.todo = call[t].todo /\ c.wakes = call[t].wakes
      /\ c.cont = call[t].cont
      /\ esc[next] = Blank /\ rows[next] = Nothing
  BY <1>1, <1>3 DEF Allocate, Goto, TypeOK, Call, IInv, FreshInv
<1> HIDE DEF c
<1>5. /\ Asked(t) \in Question
      /\ Asked(t).task = t /\ Asked(t).status = "pending"
  BY <1>1 DEF Asked, Question, Call, Status
<1>6. TypeOK'
  <2>1. esc' \in [Id -> Question] /\ call' \in [Proc -> Call]
    BY <1>1, <1>3, <1>4, <1>5 DEF TypeOK, Goto
  <2> QED
    BY <1>1, <1>3, <2>1 DEF Allocate, TypeOK, channels
<1>7. \A i \in Id : esc'[i] = IF i = next THEN Asked(t) ELSE esc[i]
  BY <1>1, <1>3, <1>4 DEF TypeOK
<1>8. UNCHANGED <<tasks, rows, idLock, tx, rx, msg, announced, restarts>>
  BY DEF Allocate, channels
<1>9. Frame(t)
  <2>1. \A q \in Proc \ {t} : call'[q] = call[q]
    BY <1>1, <1>4 DEF Goto, TypeOK
  <2> QED
    BY <1>1, <1>4, <1>5, <1>7, <1>8, <2>1 DEF Frame, Blank
<1>10. LocalInv(t)'
  <2>1. /\ esc'[next] = Asked(t)
        /\ \A i \in Id : esc[i].status \in Decided => esc'[i] = esc[i]
        /\ call[t].todo \cup call[t].wakes \subseteq Id
    BY <1>1, <1>3, <1>4, <1>7 DEF Blank, Nothing, Decided, Call
  <2>2. LoopInv(t)'
    BY <1>3, <1>4, <1>5, <2>1 DEF LoopInv, Numbered, Listening, Nothing
  <2>3. SoftInv(t)'
    BY <1>4 DEF SoftInv
  <2>4. WakeInv(t)'
    BY <1>1, <1>4, <2>1 DEF LocalInv, WakeInv
  <2> QED
    BY <2>2, <2>3, <2>4 DEF LocalInv
<1>11. FreshInv' /\ MsgInv'
  <2>1. next' = next + 1
    BY DEF Allocate
  <2>2. FreshInv'
    BY <1>1, <1>3, <1>7, <1>8, <2>1 DEF IInv, FreshInv, Id
  <2>3. MsgInv'
    BY <1>3, <1>4, <1>7, <1>8 DEF IInv, MsgInv, Blank, TypeOK
  <2> QED
    BY <2>2, <2>3
<1>12. CancelInv'
  <2>1. \A i \in Id : \/ esc'[i] = esc[i]
                      \/ esc'[i].task = t /\ Holding(c, i)
    BY <1>4, <1>5, <1>7 DEF Holding, Numbered
  <2>2. \A i \in Id :
            t \in Task /\ tasks'[t] = "Cancelled" /\ Holding(call[t], i)
              /\ esc'[i].status = "pending" => Holding(c, i)
    BY <1>1 DEF Holding, Numbered
  <2> QED
    BY <1>1, <1>3, <1>4, <1>8, <2>1, <2>2, CancelKeeps
<1> QED
  BY <1>1, <1>3, <1>6, <1>9, <1>10, <1>11, <1>12, StepInductive

(* A loop changes the row, the channel or the announcement of its own      *)
(* question.                                                               *)
OwnChange(t, c) ==
    /\ Goto(t, c)
    /\ UNCHANGED <<tasks, esc, next, locks, msg, restarts>>
    /\ rows' \in [Id -> Status \cup {Nothing}]
    /\ rx' \in [Id -> {Nothing, "map", "held", "gone"}]
    /\ tx \subseteq tx' /\ tx' \subseteq Id /\ announced' \subseteq Id
    /\ \A i \in Id : i # call[t].id => rows'[i] = rows[i] /\ rx'[i] = rx[i]
    /\ rows'[call[t].id] \in {rows[call[t].id], "pending"}
    /\ \A i \in announced' : rows'[i] # Nothing
    /\ c.pc \in Numbered \cup {"park", "run"}
    /\ c.cont \in Ends
    /\ c.todo \cup c.wakes \subseteq call[t].todo \cup call[t].wakes
    /\ LoopInv(t)'
    /\ \/ c.id = call[t].id /\ c.pc # "run"
       \/ esc[call[t].id].status # "pending"

LEMMA OwnStep ==
    ASSUME IInv, NEW t \in Task, NEW c \in Call, call[t].pc \in Numbered,
           OwnChange(t, c)
    PROVE  IInv'
<1> USE DEF OwnChange
<1>1. t \in Proc /\ t # None /\ LocalInv(t) /\ call'[t] = c /\ TypeOK
  BY ProcessAssumption DEF Proc, IInv, Goto, TypeOK
<1>2. /\ call[t].id \in Id
      /\ esc[call[t].id].task = t
      /\ esc[call[t].id].status # Nothing
  BY <1>1 DEF LocalInv, LoopInv
<1>3. TypeOK'
  BY <1>1 DEF TypeOK, Goto, locks
<1>4. Frame(t)
  <2>1. \A q \in Proc \ {t} : call'[q] = call[q]
    BY <1>1 DEF Goto, TypeOK
  <2>2. \A i \in Id : rows[i] # Nothing => rows'[i] # Nothing
    BY DEF Nothing
  <2>3. \A i \in Id : esc[i].task # t => rx'[i] = rx[i]
    BY <1>2
  <2> QED
    BY <2>1, <2>2, <2>3 DEF Frame, locks
<1>5. LocalInv(t)'
  BY <1>1 DEF LocalInv, SoftInv, WakeInv, Numbered
<1>6. FreshInv'
  <2>1. \A i \in Id : i >= next => i # call[t].id
    BY <1>2 DEF IInv, FreshInv, Blank
  <2> QED
    BY <2>1 DEF IInv, FreshInv
<1>7. MsgInv'
  BY DEF IInv, MsgInv
<1>8. CountInv'
  <2>1. \A u \in Task : call'[u].pc \in Takes => call[u].pc \in Takes
    BY <1>1 DEF Goto, TypeOK, Proc, Takes, Numbered
  <2> QED
    BY <2>1, CountKeeps
<1>9. CancelInv'
  <2>1. \A i \in Id : esc'[i] = esc[i]
    OBVIOUS
  <2>2. \A i \in Id :
            t \in Task /\ tasks'[t] = "Cancelled" /\ Holding(call[t], i)
              /\ esc'[i].status = "pending" => Holding(c, i)
    BY <2>1 DEF Holding
  <2>3. call[t].pc # "close"
    BY DEF Numbered
  <2> QED
    BY <1>1, <2>1, <2>2, <2>3, CancelKeeps
<1> QED
  BY <1>1, <1>3, <1>4, <1>5, <1>6, <1>7, <1>8, <1>9, StepInductive

(* The creation after the number is taken, and the installation of a       *)
(* channel by the approval hook.                                           *)
LEMMA OwnCall ==
    ASSUME IInv, NEW t \in Task, call[t].pc \in Numbered
    PROVE  /\ t \in Proc /\ call[t] \in Call /\ TypeOK /\ LoopInv(t)
           /\ call[t].id \in Id
           /\ esc[call[t].id].task = t
           /\ esc[call[t].id].status # Nothing
           /\ call[t].cont \in Ends
           /\ \A l \in Pc : /\ [call[t] EXCEPT !.pc = l] \in Call
                            /\ [call[t] EXCEPT !.pc = l].pc = l
                            /\ [call[t] EXCEPT !.pc = l].id = call[t].id
                            /\ [call[t] EXCEPT !.pc = l].kind = call[t].kind
                            /\ [call[t] EXCEPT !.pc = l].verdict = call[t].verdict
                            /\ [call[t] EXCEPT !.pc = l].todo = call[t].todo
                            /\ [call[t] EXCEPT !.pc = l].wakes = call[t].wakes
                            /\ [call[t] EXCEPT !.pc = l].cont = call[t].cont
           /\ \A c \in Call : Goto(t, c) => call'[t] = c
<1>1. t \in Proc /\ call[t] \in Call /\ TypeOK /\ LocalInv(t)
  BY CallType DEF IInv, Proc
<1>2. /\ call[t].id \in Id
      /\ esc[call[t].id].task = t
      /\ esc[call[t].id].status # Nothing
      /\ call[t].cont \in Ends
  BY <1>1 DEF LocalInv, LoopInv, WakeInv
<1> QED
  BY <1>1, <1>2 DEF Call, LocalInv, Goto, TypeOK

LEMMA CreateKeeps ==
    ASSUME IInv, NEW t \in Task,
           \/ Install(t) \/ PersistNew(t) \/ Announce(t)
           \/ InstallSender(t) \/ InstallReceiver(t)
    PROVE  IInv'
<1>1. CASE Install(t)
  <2> DEFINE c == [call[t] EXCEPT !.pc = "persist"]
  <2>1. call[t].pc = "install" /\ Goto(t, c)
    BY <1>1 DEF Install, At, Step
  <2>2. call[t].pc \in Numbered /\ "persist" \in Pc
    BY <2>1 DEF Numbered, Pc
  <2>3. c \in Call /\ call'[t] = c
    BY <2>1, <2>2, OwnCall
  <2>4. LoopInv(t)'
    BY <1>1, <2>1, <2>2, <2>3, OwnCall
       DEF Install, LoopInv, Numbered, Listening, TypeOK
  <2>8. OwnChange(t, c)
    BY <1>1, <2>1, <2>2, <2>3, <2>4, OwnCall
       DEF OwnChange, Install, TypeOK, Holding, Numbered, IInv, FreshInv
  <2> QED
    BY <2>2, <2>3, <2>8, OwnStep
<1>2. CASE PersistNew(t)
  <2> DEFINE c == [call[t] EXCEPT !.pc = "announce"]
  <2>1. call[t].pc = "persist" /\ Goto(t, c)
    BY <1>2 DEF PersistNew, At, Step
  <2>2. call[t].pc \in Numbered /\ "announce" \in Pc
    BY <2>1 DEF Numbered, Pc
  <2>3. c \in Call /\ call'[t] = c
    BY <2>1, <2>2, OwnCall
  <2>4. LoopInv(t)'
    BY <1>2, <2>1, <2>2, <2>3, OwnCall
       DEF PersistNew, LoopInv, Numbered, Listening, TypeOK, channels, Nothing
  <2>8. OwnChange(t, c)
    BY <1>2, <2>1, <2>2, <2>3, <2>4, OwnCall
       DEF OwnChange, PersistNew, TypeOK, Holding, Numbered, IInv, FreshInv, channels,
           Status, Nothing
  <2> QED
    BY <2>2, <2>3, <2>8, OwnStep
<1>3. CASE Announce(t)
  <2> DEFINE l == CASE call[t].kind = "tool" -> "tx"
                    [] call[t].kind = "gate" -> "gwait"
                    [] OTHER                 -> "park"
  <2> DEFINE c == [call[t] EXCEPT !.pc = l]
  <2>1. call[t].pc = "announce" /\ Goto(t, c)
    BY <1>3 DEF Announce, At, Step
  <2>2. call[t].pc \in Numbered /\ l \in Pc
    BY <2>1 DEF Numbered, Pc
  <2>3. c \in Call /\ call'[t] = c
    BY <2>1, <2>2, OwnCall
  <2>4. /\ l \in {"tx", "gwait", "park"}
        /\ l = "gwait" => call[t].kind = "gate"
    OBVIOUS
  <2> HIDE DEF l
  <2>5. LoopInv(t)'
    BY <1>3, <2>1, <2>2, <2>3, <2>4, OwnCall
       DEF Announce, LoopInv, Numbered, Listening, TypeOK, channels
  <2>6. \A i \in announced' : rows[i] # Nothing
    BY <1>3, <2>1, <2>2, OwnCall DEF Announce, LoopInv, IInv, FreshInv
  <2>8. OwnChange(t, c)
    BY <1>3, <2>1, <2>2, <2>3, <2>4, <2>5, <2>6, OwnCall
       DEF OwnChange, Announce, TypeOK, Holding, Numbered, channels
  <2> QED
    BY <2>2, <2>3, <2>8, OwnStep
<1>4. CASE InstallSender(t)
  <2> DEFINE c == [call[t] EXCEPT !.pc = "rx"]
  <2>1. call[t].pc = "tx" /\ Goto(t, c)
    BY <1>4 DEF InstallSender, At, Step
  <2>2. call[t].pc \in Numbered /\ "rx" \in Pc
    BY <2>1 DEF Numbered, Pc
  <2>3. c \in Call /\ call'[t] = c
    BY <2>1, <2>2, OwnCall
  <2>4. LoopInv(t)'
    BY <1>4, <2>1, <2>2, <2>3, OwnCall
       DEF InstallSender, LoopInv, Numbered, Listening, TypeOK
  <2>8. OwnChange(t, c)
    BY <1>4, <2>1, <2>2, <2>3, <2>4, OwnCall
       DEF OwnChange, InstallSender, TypeOK, Holding, Numbered, IInv, FreshInv
  <2> QED
    BY <2>2, <2>3, <2>8, OwnStep
<1>5. CASE InstallReceiver(t)
  <2> DEFINE c == [call[t] EXCEPT !.pc = "take"]
  <2>1. call[t].pc = "rx" /\ Goto(t, c)
    BY <1>5 DEF InstallReceiver, At, Step
  <2>2. call[t].pc \in Numbered /\ "take" \in Pc
    BY <2>1 DEF Numbered, Pc
  <2>3. c \in Call /\ call'[t] = c
    BY <2>1, <2>2, OwnCall
  <2>4. LoopInv(t)'
    BY <1>5, <2>1, <2>2, <2>3, OwnCall
       DEF InstallReceiver, LoopInv, Numbered, Listening, TypeOK
  <2>8. OwnChange(t, c)
    BY <1>5, <2>1, <2>2, <2>3, <2>4, OwnCall
       DEF OwnChange, InstallReceiver, TypeOK, Holding, Numbered, IInv, FreshInv
  <2> QED
    BY <2>2, <2>3, <2>8, OwnStep
<1> QED
  BY <1>1, <1>2, <1>3, <1>4, <1>5

(* A loop lets go of its question once it is decided.                      *)
LEMMA LetGo ==
    ASSUME IInv, NEW t \in Task, call[t].pc \in Numbered, Goto(t, Running),
           UNCHANGED <<tasks, esc, rows, next, locks, tx, msg, announced, restarts>>,
           \/ UNCHANGED rx
           \/ rx' = [rx EXCEPT ![call[t].id] = "gone"],
           esc[call[t].id].status # "pending"
    PROVE  IInv'
<1>1. Running \in Call /\ call'[t] = Running
  BY CallType, OwnCall
<1>2. LoopInv(t)'
  BY <1>1 DEF LoopInv, Running, Idle, Numbered, Listening
<1>3. OwnChange(t, Running)
  BY <1>2, OwnCall
     DEF OwnChange, TypeOK, Running, Idle, Ends, IInv, FreshInv
<1> QED
  BY <1>1, <1>3, OwnStep

LEMMA WaitKeeps ==
    ASSUME IInv, NEW t \in Task,
           Take(t) \/ Hear(t) \/ WaitTimeout(t) \/ GateEnds(t)
    PROVE  IInv'
<1>0. call[t].pc \in Numbered
  BY DEF Take, Hear, WaitTimeout, GateEnds, At, Numbered
<1>1. /\ t \in Proc /\ call[t] \in Call /\ TypeOK /\ LoopInv(t) /\ call[t].id \in Id
      /\ esc[call[t].id].task = t /\ esc[call[t].id].status # Nothing
      /\ call[t].cont \in Ends
  BY <1>0, OwnCall
<1>2. CASE Take(t)
  <2> DEFINE c == [call[t] EXCEPT !.pc = "wait"]
  <2>1. call[t].pc = "take"
    BY <1>2 DEF Take, At
  <2>2. CASE rx[call[t].id] = "map"
    <3>1. Goto(t, c) /\ rx' = [rx EXCEPT ![call[t].id] = "held"]
      BY <1>2, <2>2 DEF Take, Step
    <3>2. c \in Call /\ call'[t] = c
      <4>1. "wait" \in Pc
        BY DEF Pc
      <4> QED
        BY <1>0, <3>1, <4>1, OwnCall
    <3>3. LoopInv(t)'
      BY <1>1, <1>2, <2>1, <3>1, <3>2
         DEF Take, LoopInv, Numbered, Listening, TypeOK, Call
    <3>4. OwnChange(t, c)
      BY <1>1, <1>2, <2>1, <3>1, <3>3
         DEF Take, OwnChange, Numbered, TypeOK, Call, IInv, FreshInv
    <3> QED
      BY <1>0, <3>2, <3>4, OwnStep
  <2>3. CASE rx[call[t].id] # "map"
    <3>1. esc[call[t].id].status # "pending"
      BY <1>1, <2>1, <2>3 DEF LoopInv
    <3> QED
      BY <1>0, <1>2, <2>3, <3>1, LetGo DEF Take
  <2> QED
    BY <2>2, <2>3
<1>3. CASE Hear(t)
  <2> DEFINE c == [call[t] EXCEPT !.pc = "exec"]
  <2>1. /\ call[t].pc = "wait"
        /\ msg[call[t].id] # Nothing
        /\ esc[call[t].id].status = msg[call[t].id]
        /\ rx' = [rx EXCEPT ![call[t].id] = "gone"]
    BY <1>1, <1>3 DEF Hear, At, IInv, MsgInv
  <2>2. esc[call[t].id].status # "pending"
    BY <1>1, <2>1 DEF TypeOK, Decided, Nothing
  <2>3. CASE msg[call[t].id] = "approved"
    <3>1. Goto(t, c)
      BY <1>3, <2>3 DEF Hear, Step
    <3>2. c \in Call /\ call'[t] = c
      <4>1. "exec" \in Pc
        BY DEF Pc
      <4> QED
        BY <1>0, <3>1, <4>1, OwnCall
    <3>3. LoopInv(t)'
      BY <1>1, <1>3, <2>1, <2>2, <2>3, <3>1, <3>2
         DEF Hear, LoopInv, Numbered, Listening, TypeOK, Call
    <3>4. OwnChange(t, c)
      BY <1>1, <1>3, <2>1, <2>2, <3>1, <3>3
         DEF Hear, OwnChange, Numbered, TypeOK, Call, IInv, FreshInv
    <3> QED
      BY <1>0, <3>2, <3>4, OwnStep
  <2>4. CASE msg[call[t].id] # "approved"
    BY <1>0, <1>3, <2>2, <2>4, LetGo DEF Hear
  <2> QED
    BY <2>3, <2>4
<1>4. CASE WaitTimeout(t)
  BY <1>0, <1>4, LetGo DEF WaitTimeout
<1>5. CASE GateEnds(t)
  <2> DEFINE c(v) == [call[t] EXCEPT !.pc = "settle", !.verdict = v]
  <2>1. PICK v \in {"approved", "denied"} : Goto(t, c(v))
    BY <1>5 DEF GateEnds
  <2>2. c(v) \in Call /\ call'[t] = c(v)
    BY <1>1, <2>1 DEF Call, Pc, Decided, Goto, TypeOK
  <2>3. call[t].pc = "gwait" /\ rx' = [rx EXCEPT ![call[t].id] = "gone"]
    BY <1>5 DEF GateEnds, At
  <2>4. LoopInv(t)'
    BY <1>1, <1>5, <2>2, <2>3
       DEF GateEnds, LoopInv, Numbered, Listening, TypeOK, Call, Decided
  <2>5. OwnChange(t, c(v))
    BY <1>1, <1>5, <2>1, <2>3, <2>4
       DEF GateEnds, OwnChange, Numbered, TypeOK, Call, IInv, FreshInv
  <2> QED
    BY <1>0, <2>2, <2>5, OwnStep
<1> QED
  BY <1>2, <1>3, <1>4, <1>5

(* A soft approval takes its number, is pushed, and is stored.             *)
LEMMA SoftKeeps ==
    ASSUME IInv, NEW t \in Task,
           SoftAllocate(t) \/ SoftPush(t) \/ SoftPersist(t)
    PROVE  IInv'
<1>1. /\ t \in Proc /\ t # None /\ call[t] \in Call /\ TypeOK
      /\ SoftInv(t) /\ WakeInv(t)
      /\ call[t].todo \cup call[t].wakes \subseteq Id
  BY CallType, ProcessAssumption DEF IInv, Proc, LocalInv, Call
<1>2. CASE SoftAllocate(t)
  <2> DEFINE c == [call[t] EXCEPT !.id = next, !.pc = "spush"]
  <2>1. /\ call[t].pc = "soft" /\ idLock = None /\ idLock' = t
        /\ next' = next + 1 /\ Goto(t, c)
        /\ UNCHANGED <<tasks, esc, rows, escLock, channels, announced, restarts>>
    BY <1>2 DEF SoftAllocate, At
  <2>2. next \in Id /\ next' \in 1..MaxId + 1 /\ CountInv'
    <3>1. /\ call'[t].pc \notin Takes
          /\ \A u \in Task \ {t} : call'[u] = call[u]
      BY <1>1, <2>1 DEF Goto, TypeOK, Call, Takes, Proc
    <3> QED
      BY <2>1, <3>1, CountTakes DEF Takes
  <2>3. c \in Call /\ call'[t] = c
    BY <1>1, <2>1, <2>2 DEF Call, Pc, Goto, TypeOK
  <2>4. TypeOK'
    BY <1>1, <2>1, <2>2, <2>3 DEF TypeOK, Goto, channels
  <2>5. Frame(t)
    BY <1>1, <2>1 DEF Frame, Goto, TypeOK, channels
  <2>6. /\ c.pc = "spush" /\ c.id = next /\ c.kind = call[t].kind
        /\ c.todo = call[t].todo /\ c.wakes = call[t].wakes
        /\ c.cont = call[t].cont
    BY <1>1 DEF Call
  <2> HIDE DEF c
  <2>7. LocalInv(t)'
    <3>1. LoopInv(t)'
      BY <2>3, <2>6 DEF LoopInv, Numbered, Listening
    <3>2. SoftInv(t)'
      BY <1>1, <2>1, <2>2, <2>3, <2>6
         DEF SoftInv, IInv, FreshInv, Blank, Id, TypeOK
    <3>3. WakeInv(t)'
      BY <1>1, <2>1, <2>3, <2>6 DEF WakeInv
    <3> QED
      BY <3>1, <3>2, <3>3 DEF LocalInv
  <2>8. FreshInv' /\ MsgInv'
    BY <2>1 DEF IInv, FreshInv, MsgInv, channels, Id, TypeOK
  <2>9. CancelInv'
    <3>1. \A i \in Id : esc'[i] = esc[i]
      BY <2>1
    <3>2. \A i \in Id :
              t \in Task /\ tasks'[t] = "Cancelled" /\ Holding(call[t], i)
                /\ esc'[i].status = "pending" => Holding(c, i)
      BY <2>1 DEF Holding, Numbered
    <3> QED
      BY <1>1, <2>1, <2>3, <3>1, <3>2, CancelKeeps
  <2> QED
    BY <1>1, <2>2, <2>4, <2>5, <2>7, <2>8, <2>9, StepInductive
<1>3. CASE SoftPush(t)
  <2> DEFINE c == [call[t] EXCEPT !.pc = "spersist"]
  <2> DEFINE i == call[t].id
  <2>1. /\ call[t].pc = "spush" /\ esc' = [esc EXCEPT ![i] = Asked(t)]
        /\ Goto(t, c)
        /\ UNCHANGED <<tasks, rows, next, locks, channels, announced, restarts>>
    BY <1>3 DEF SoftPush, At, Step
  <2>2. /\ i \in Id /\ idLock = t /\ i + 1 = next
        /\ esc[i].status = Nothing /\ call[t].kind = "soft"
    BY <1>1, <2>1 DEF SoftInv
  <2>3. c \in Call /\ call'[t] = c
    BY <1>1, <2>1 DEF Call, Pc, Goto, TypeOK
  <2>4. /\ Asked(t) \in Question /\ Asked(t).task = t
        /\ Asked(t).status = "pending" /\ Asked(t).kind = "soft"
    BY <1>1, <2>2 DEF Asked, Question, Call, Status
  <2>5. \A j \in Id : esc'[j] = IF j = i THEN Asked(t) ELSE esc[j]
    BY <1>1, <2>1, <2>2 DEF TypeOK
  <2>6. TypeOK'
    <3>1. esc' \in [Id -> Question]
      BY <1>1, <2>1, <2>4 DEF TypeOK
    <3> QED
      BY <1>1, <2>1, <2>3, <3>1 DEF TypeOK, Goto, channels, locks
  <2>7. Frame(t)
    <3>1. \A q \in Proc \ {t} : call'[q] = call[q]
      BY <1>1, <2>1 DEF Goto, TypeOK
    <3>2. \A j \in Id : esc[j].status = "pending" => esc'[j] = esc[j]
      BY <2>2, <2>5 DEF Nothing
    <3> QED
      BY <2>1, <2>2, <2>4, <2>5, <3>1, <3>2 DEF Frame, channels
  <2>8. LocalInv(t)'
    <3>1. LoopInv(t)'
      BY <1>1, <2>3 DEF LoopInv, Numbered, Listening, Call
    <3>2. SoftInv(t)'
      BY <1>1, <2>1, <2>2, <2>3, <2>4, <2>5 DEF SoftInv, Call, locks, Nothing
    <3>3. WakeInv(t)'
      BY <1>1, <2>2, <2>3, <2>5 DEF WakeInv, Call, Decided, Nothing
    <3> QED
      BY <3>1, <3>2, <3>3 DEF LocalInv
  <2>9. FreshInv' /\ MsgInv'
    <3>1. FreshInv'
      BY <1>1, <2>1, <2>2, <2>5 DEF IInv, FreshInv, Id, TypeOK
    <3>2. MsgInv'
      BY <1>1, <2>1, <2>2, <2>5 DEF IInv, MsgInv, channels, TypeOK
    <3> QED
      BY <3>1, <3>2
  <2>10. CountInv'
    <3>1. \A u \in Task : call'[u].pc \in Takes => call[u].pc \in Takes
      BY <1>1, <2>1, <2>3 DEF Goto, TypeOK, Proc, Takes, Call
    <3> QED
      BY <2>1, <3>1, CountKeeps
  <2>11. CancelInv'
    <3>1. \A j \in Id : esc'[j] = esc[j] \/ esc'[j].kind = "soft"
      BY <2>4, <2>5
    <3>2. \A j \in Id :
              t \in Task /\ tasks'[t] = "Cancelled" /\ Holding(call[t], j)
                /\ esc'[j].status = "pending" => Holding(c, j)
      BY <2>1 DEF Holding, Numbered
    <3> QED
      BY <1>1, <2>1, <2>3, <3>1, <3>2, CancelKeeps
  <2> QED
    BY <1>1, <2>6, <2>7, <2>8, <2>9, <2>10, <2>11, StepInductive
<1>4. CASE SoftPersist(t)
  <2> DEFINE i == call[t].id
  <2>1. /\ call[t].pc = "spersist" /\ rows' = [rows EXCEPT ![i] = "pending"]
        /\ idLock' = None /\ Goto(t, Running)
        /\ UNCHANGED <<tasks, esc, next, escLock, channels, announced, restarts>>
    BY <1>4 DEF SoftPersist, At
  <2>2. i \in Id /\ idLock = t /\ esc[i].status # Nothing
    BY <1>1, <2>1 DEF SoftInv
  <2>3. Running \in Call /\ call'[t] = Running
    BY <1>1, <2>1, CallType DEF Goto, TypeOK
  <2>4. TypeOK'
    BY <1>1, <2>1, <2>2, <2>3 DEF TypeOK, Goto, channels, Status
  <2>5. Frame(t)
    <3>1. \A q \in Proc \ {t} : call'[q] = call[q]
      BY <1>1, <2>1 DEF Goto, TypeOK
    <3>2. \A j \in Id : rows[j] # Nothing => rows'[j] # Nothing
      BY <1>1, <2>1, <2>2 DEF TypeOK, Nothing
    <3> QED
      BY <2>1, <2>2, <3>1, <3>2 DEF Frame, channels
  <2>6. LocalInv(t)'
    BY <1>1, <2>1, <2>3, PlainCall DEF Running, Idle, Plain, Ends
  <2>7. FreshInv' /\ MsgInv'
    <3>1. \A j \in Id : j >= next => j # i
      BY <2>2 DEF IInv, FreshInv, Blank
    <3>2. FreshInv'
      BY <1>1, <2>1, <2>2, <3>1 DEF IInv, FreshInv, TypeOK, Nothing
    <3>3. MsgInv'
      BY <2>1 DEF IInv, MsgInv, channels
    <3> QED
      BY <3>2, <3>3
  <2>8. CountInv'
    <3>1. \A u \in Task : call'[u].pc \in Takes => call[u].pc \in Takes
      BY <1>1, <2>1, <2>3 DEF Goto, TypeOK, Proc, Takes, Running, Idle
    <3> QED
      BY <2>1, <3>1, CountKeeps
  <2>9. CancelInv'
    <3>1. \A j \in Id : esc'[j] = esc[j]
      BY <2>1
    <3>2. \A j \in Id :
              t \in Task /\ tasks'[t] = "Cancelled" /\ Holding(call[t], j)
                /\ esc'[j].status = "pending" => Holding(Running, j)
      BY <2>1 DEF Holding, Numbered
    <3> QED
      BY <1>1, <2>1, <2>3, <3>1, <3>2, CancelKeeps
  <2> QED
    BY <1>1, <2>4, <2>5, <2>6, <2>7, <2>8, <2>9, StepInductive
<1> QED
  BY <1>2, <1>3, <1>4

----------------------------------------------------------------------------
(* The steps that decide questions, store the decisions and wake.          *)

(* Deciding open questions keeps the invariant: whoever closes a task's    *)
(* questions closes them all, and a loop that decides lets go of its own.  *)
LEMMA DecideKeeps ==
    ASSUME IInv, NEW p \in Proc, NEW S \in SUBSET Pending, NEW s,
           \A i \in S : s[i] \in Decided, Decide(S, s),
           NEW c \in Call, Goto(p, c), c.pc \in {"idle", "store"},
           c.cont \in Ends,
           c.todo \cup c.wakes \subseteq call[p].todo \cup call[p].wakes \cup S,
           UNCHANGED <<tasks, rows, next, locks, channels, announced, restarts>>,
           \/ call[p].pc = "close" /\ S = PendingOf(call[p].task)
           \/ call[p].pc \notin Numbered \cup {"park", "close"}
           \/ call[p].pc # "close" /\ call[p].id \in S
    PROVE  IInv'
<1>1. /\ TypeOK /\ call[p] \in Call /\ call'[p] = c
      /\ S \subseteq Id /\ \A i \in S : esc[i].status = "pending"
  BY CallType DEF IInv, Goto, TypeOK, Pending
<1>2. \A i \in Id : esc'[i] = IF i \in S THEN [esc[i] EXCEPT !.status = s[i]]
                              ELSE esc[i]
  BY DEF Decide
<1>3. \A i \in S : /\ esc'[i].status \in Decided
                   /\ esc'[i].task = esc[i].task
                   /\ esc'[i].kind = esc[i].kind
                   /\ esc'[i] \in Question
  <2> SUFFICES ASSUME NEW i \in S
               PROVE  /\ esc'[i].status \in Decided
                      /\ esc'[i].task = esc[i].task
                      /\ esc'[i].kind = esc[i].kind
                      /\ esc'[i] \in Question
    OBVIOUS
  <2>1. esc[i] \in Question /\ s[i] \in Status \cup {Nothing}
    BY <1>1 DEF TypeOK, Status
  <2>2. esc'[i] = [esc[i] EXCEPT !.status = s[i]]
    BY <1>1, <1>2
  <2> QED
    BY <2>1, <2>2 DEF Question
<1>4. TypeOK'
  <2>1. esc' \in [Id -> Question]
    <3>1. \A i \in Id : esc'[i] \in Question
      BY <1>1, <1>2, <1>3 DEF TypeOK
    <3> QED
      BY <3>1 DEF Decide
  <2> QED
    BY <1>1, <2>1 DEF TypeOK, Goto, locks, channels
<1>5. Frame(p)
  <2>1. \A q \in Proc \ {p} : call'[q] = call[q]
    BY <1>1 DEF Goto, TypeOK
  <2>2. \A i \in Id : \/ esc'[i] = esc[i]
                      \/ /\ esc[i].status = "pending"
                         /\ esc'[i].task = esc[i].task
                         /\ esc'[i].status \in Decided
    BY <1>1, <1>2, <1>3
  <2> QED
    BY <2>1, <2>2 DEF Frame, locks, channels, Nothing
<1>6. \A i \in Id : esc[i].status \in Decided => esc'[i] = esc[i]
  BY <1>1, <1>2 DEF Decided
<1>7. LocalInv(p)'
  <2>1. call[p].todo \cup call[p].wakes \subseteq Id /\ WakeInv(p)
    BY <1>1 DEF Call, IInv, LocalInv
  <2>2. \A i \in c.todo \cup c.wakes : esc'[i].status \in Decided
    BY <1>3, <1>6, <2>1 DEF WakeInv
  <2> QED
    BY <2>2, PlainCall DEF Plain
<1>8. FreshInv' /\ MsgInv'
  <2>1. \A i \in Id : esc[i] = Blank => esc'[i] = esc[i]
    <3>1. Blank.status # "pending"
      BY DEF Blank, Nothing
    <3> QED
      BY <1>1, <1>2, <3>1
  <2>2. FreshInv'
    BY <2>1 DEF IInv, FreshInv
  <2>3. \A i \in Id : msg[i] # Nothing => esc[i].status \in Decided
    BY <1>1 DEF IInv, MsgInv, TypeOK
  <2>4. MsgInv'
    BY <1>6, <2>3 DEF IInv, MsgInv, channels
  <2> QED
    BY <2>2, <2>4
<1>9. CountInv'
  <2>1. \A u \in Task : call'[u].pc \in Takes => call[u].pc \in Takes
    BY <1>1 DEF Goto, TypeOK, Proc, Takes
  <2> QED
    BY <2>1, CountKeeps
<1>10. CancelInv'
  <2>1. \A i \in Id : esc'[i].status = "pending" => esc'[i] = esc[i] /\ i \notin S
    BY <1>2, <1>3 DEF Decided
  <2>2. CASE call[p].pc # "close"
    <3>1. \A i \in Id :
              p \in Task /\ tasks'[p] = "Cancelled" /\ Holding(call[p], i)
                /\ esc'[i].status = "pending" => Holding(c, i)
      BY <2>1, <2>2 DEF Holding
    <3> QED
      BY <1>1, <2>1, <2>2, <3>1, CancelKeeps
  <2>3. CASE call[p].pc = "close" /\ S = PendingOf(call[p].task)
    <3> SUFFICES ASSUME restarts = 0, NEW t \in Task, tasks[t] = "Cancelled"
                 PROVE  \/ Closing(t)'
                        \/ \A i \in PendingOf(t)' :
                             esc'[i].kind = "soft" \/ Holding(call'[t], i)
      BY DEF CancelInv
    <3>1. CASE t = call[p].task
      BY <2>1, <2>3, <3>1 DEF PendingOf
    <3>2. CASE t # call[p].task /\ Closing(t)
      <4>1. PICK q \in Proc : At(q, "close") /\ call[q].task = t
        BY <3>2 DEF Closing
      <4>2. call'[q] = call[q]
        BY <1>1, <3>2, <4>1 DEF Goto, TypeOK
      <4> QED
        BY <4>1, <4>2 DEF Closing, At
    <3>3. CASE ~Closing(t)
      <4>1. \A i \in PendingOf(t) : esc[i].kind = "soft" \/ Holding(call[t], i)
        BY <3>3 DEF IInv, CancelInv
      <4>2. t # p => call'[t] = call[t]
        BY <1>1 DEF Goto, TypeOK, Proc
      <4>3. t = p => \A i \in Id : ~Holding(call[t], i)
        BY <2>3 DEF Holding, Numbered
      <4> QED
        BY <2>1, <4>1, <4>2, <4>3 DEF PendingOf, Holding
    <3> QED
      BY <3>1, <3>2, <3>3
  <2> QED
    BY <2>2, <2>3 DEF Numbered
<1> QED
  BY <1>4, <1>5, <1>7, <1>8, <1>9, <1>10, StepInductive

LEMMA StoringType ==
    ASSUME NEW c \in Call, NEW S \in SUBSET Id, NEW l \in Pc
    PROVE  /\ Storing(c, S, l) \in Call
           /\ Storing(c, S, l).pc = "store"
           /\ Storing(c, S, l).todo = S
           /\ Storing(c, S, l).wakes = c.wakes
           /\ Storing(c, S, l).cont = l
<1>1. "store" \in Pc
  BY DEF Pc
<1> QED
  BY <1>1 DEF Storing, Call

LEMMA DecisionsKeep ==
    ASSUME IInv,
           \/ \E t \in Task : GateSettles(t)
           \/ \E o \in Operator, i \in Id, v \in {"approved", "denied"},
                 s \in Surfaces : Answer(o, i, v, s)
           \/ \E p \in Proc : Close(p)
           \/ \E S \in SUBSET Pending : Sweep(S)
    PROVE  IInv'
<1>0. TypeOK /\ Idle \in Call /\ Idle.wakes = {} /\ Idle.todo = {} /\ Idle.cont = "idle" /\ Idle.pc = "idle"
  BY CallType DEF IInv, Idle
<1>1. ASSUME NEW t \in Task, GateSettles(t) PROVE IInv'
  <2> DEFINE i == call[t].id
  <2>1. call[t].pc = "settle" /\ call[t].pc \in Numbered
    BY <1>1 DEF GateSettles, At, Numbered
  <2>2. /\ t \in Proc /\ call[t] \in Call /\ LoopInv(t) /\ i \in Id
        /\ call[t].verdict \in Decided
    BY <2>1, OwnCall DEF LoopInv
  <2>3. AfterGate(t) \in {"fail", "run"}
    BY DEF AfterGate
  <2>4. CASE i \in Pending
    <3> DEFINE s == [j \in {i} |-> call[t].verdict]
    <3> DEFINE c == Storing(call[t], {i}, AfterGate(t))
    <3>1. Decide({i}, s) /\ Goto(t, c)
      BY <1>1, <2>4 DEF GateSettles
    <3>2. \A j \in {i} : s[j] \in Decided
      BY <2>2
    <3>3. /\ c \in Call /\ c.pc = "store" /\ c.todo = {i}
          /\ c.wakes = call[t].wakes /\ c.cont \in Ends
      BY <2>2, <2>3, StoringType DEF Ends, Pc
    <3>4. UNCHANGED <<tasks, rows, next, locks, channels, announced, restarts>>
      BY <1>1 DEF GateSettles
    <3> HIDE DEF c, s
    <3>5. /\ c.todo \cup c.wakes \subseteq call[t].todo \cup call[t].wakes \cup {i}
          /\ {i} \in SUBSET Pending
      BY <2>4, <3>3
    <3>6. call[t].pc # "close" /\ call[t].id \in {i}
      BY <2>1
    <3> QED
      BY <2>2, <3>1, <3>2, <3>3, <3>4, <3>5, <3>6, DecideKeeps
  <2>5. CASE i \notin Pending
    <3>1. esc[i].status # "pending"
      BY <2>2, <2>5 DEF Pending
    <3>2. Step(t, AfterGate(t)) /\ UNCHANGED esc
      BY <1>1, <2>5 DEF GateSettles
    <3>3. UNCHANGED <<tasks, rows, next, locks, channels, announced, restarts>>
      BY <1>1 DEF GateSettles
    <3>4. CASE AfterGate(t) = "run"
      <4>1. Goto(t, Running)
        BY <3>2, <3>4 DEF Step
      <4> QED
        BY <2>1, <3>1, <3>2, <3>3, <4>1, LetGo DEF channels
    <3>5. CASE AfterGate(t) = "fail"
      <4> DEFINE c == [call[t] EXCEPT !.pc = "fail"]
      <4>1. Goto(t, c)
        BY <3>2, <3>5 DEF Step
      <4>2. /\ c \in Call /\ c.pc = "fail" /\ c.todo = call[t].todo
            /\ c.wakes = call[t].wakes /\ c.cont = call[t].cont
        BY <2>2 DEF Call, Pc
      <4>3. WakeInv(t)
        BY <2>2 DEF IInv, LocalInv
      <4> HIDE DEF c
      <4> QED
        BY <1>0, <2>1, <2>2, <3>1, <3>2, <3>3, <4>1, <4>2, <4>3, PlainStep
           DEF WakeInv, Plain, Takes, locks, TypeOK
    <3> QED
      BY <2>3, <3>4, <3>5
  <2> QED
    BY <2>4, <2>5
<1>2. ASSUME NEW o \in Operator, NEW i \in Id, NEW v \in {"approved", "denied"},
             NEW s \in Surfaces, Answer(o, i, v, s)
      PROVE  IInv'
  <2> DEFINE d == [j \in {i} |-> v]
  <2> DEFINE l == IF s = "command" /\ esc[i].kind # "soft" THEN "task" ELSE "idle"
  <2> DEFINE b == [Idle EXCEPT !.id = i, !.verdict = v]
  <2> DEFINE c == Storing(b, {i}, l)
  <2>1. /\ o \in Proc /\ call[o].pc = "idle" /\ i \in Pending
        /\ Decide({i}, d) /\ Goto(o, c)
        /\ UNCHANGED <<tasks, rows, next, locks, channels, announced, restarts>>
    BY <1>2 DEF Proc, Answer, At
  <2>2. b \in Call /\ b.wakes = {} /\ l \in Ends /\ l \in Pc
    BY DEF Idle, Call, Pc, Decided, Ends
  <2> HIDE DEF b, l
  <2>3. /\ c \in Call /\ c.pc = "store" /\ c.todo = {i}
        /\ c.wakes = {} /\ c.cont \in Ends
    BY <2>2, StoringType
  <2>4. \A j \in {i} : d[j] \in Decided
    BY DEF Decided
  <2> HIDE DEF c, d
  <2>5. /\ c.todo \cup c.wakes \subseteq call[o].todo \cup call[o].wakes \cup {i}
        /\ {i} \in SUBSET Pending
        /\ call[o].pc \notin Numbered \cup {"park", "close"}
    BY <2>1, <2>3 DEF Numbered
  <2> QED
    BY <2>1, <2>3, <2>4, <2>5, DecideKeeps
<1>3. ASSUME NEW p \in Proc, Close(p) PROVE IInv'
  <2> DEFINE S == PendingOf(call[p].task)
  <2> DEFINE d == [i \in S |-> "denied"]
  <2> DEFINE c == IF S = {} THEN Idle ELSE Storing(call[p], S, "idle")
  <2>1. /\ call[p].pc = "close" /\ Decide(S, d) /\ Goto(p, c)
        /\ UNCHANGED <<tasks, rows, next, locks, channels, announced, restarts>>
    BY <1>3 DEF Close, At
  <2>2. S \in SUBSET Pending /\ S \in SUBSET Id
    BY DEF PendingOf, Pending
  <2>3. call[p] \in Call
    BY <1>0 DEF TypeOK
  <2>4. "idle" \in Pc /\ "idle" \in Ends
    BY DEF Pc, Ends
  <2>5. /\ c \in Call /\ c.pc \in {"idle", "store"} /\ c.cont \in Ends
        /\ c.todo \cup c.wakes \subseteq call[p].todo \cup call[p].wakes \cup S
    <3>1. CASE S = {}
      BY <1>0, <2>4, <3>1
    <3>2. CASE S # {}
      BY <2>2, <2>3, <2>4, <3>2, StoringType
    <3> QED
      BY <3>1, <3>2
  <2>6. \A i \in S : d[i] \in Decided
    BY DEF Decided
  <2> HIDE DEF c, d
  <2> QED
    BY <2>1, <2>2, <2>5, <2>6, DecideKeeps
<1>4. ASSUME NEW S \in SUBSET Pending, Sweep(S) PROVE IInv'
  <2> DEFINE d == [i \in S |-> IF esc[i].kind = "soft" THEN "approved" ELSE "expired"]
  <2> DEFINE A == {i \in S : esc[i].kind # "soft"}
  <2> DEFINE b == [Idle EXCEPT !.acts = A]
  <2> DEFINE c == Storing(b, S, "look")
  <2>1. /\ Sweeper \in Proc /\ call[Sweeper].pc = "idle"
        /\ Decide(S, d) /\ Goto(Sweeper, c)
        /\ UNCHANGED <<tasks, rows, next, locks, channels, announced, restarts>>
    BY <1>4 DEF Proc, Sweep, At
  <2>2. S \in SUBSET Id
    BY DEF Pending
  <2>3. b \in Call /\ b.wakes = {} /\ "look" \in Ends /\ "look" \in Pc
    BY <2>2 DEF Idle, Call, Pc, Ends
  <2> HIDE DEF b
  <2>4. /\ c \in Call /\ c.pc = "store" /\ c.todo = S
        /\ c.wakes = {} /\ c.cont \in Ends
    BY <2>2, <2>3, StoringType
  <2>5. \A j \in S : d[j] \in Decided
    BY DEF Decided
  <2> HIDE DEF c, d
  <2>6. /\ c.todo \cup c.wakes
             \subseteq call[Sweeper].todo \cup call[Sweeper].wakes \cup S
        /\ call[Sweeper].pc \notin Numbered \cup {"park", "close"}
    BY <2>1, <2>4 DEF Numbered
  <2> QED
    BY <2>1, <2>4, <2>5, <2>6, DecideKeeps
<1> QED
  BY <1>1, <1>2, <1>3, <1>4

(* What is stored is what was decided, and so is what is sent.             *)
LEMMA StoreKeeps ==
    ASSUME IInv, NEW p \in Proc, NEW i \in Id, Store(p, i)
    PROVE  IInv'
<1> DEFINE l == IF p = Sweeper /\ call[p].todo # {i} THEN "store" ELSE "wake"
<1> DEFINE c == [call[p] EXCEPT !.todo = @ \ {i}, !.wakes = @ \cup {i}, !.pc = l]
<1>1. /\ TypeOK /\ call[p] \in Call /\ WakeInv(p)
      /\ call[p].pc = "store" /\ i \in call[p].todo
      /\ rows' = [rows EXCEPT ![i] = esc[i].status] /\ Goto(p, c)
      /\ UNCHANGED <<tasks, esc, next, locks, channels, announced, restarts>>
  BY CallType DEF IInv, LocalInv, Store, At
<1>2. esc[i].status \in Decided /\ esc[i].status # Nothing
  BY <1>1 DEF WakeInv, Decided, Nothing
<1>3. l \in {"store", "wake"} /\ l \in Pc
  BY DEF Pc
<1>4. /\ c \in Call /\ call'[p] = c /\ c.pc = l
      /\ c.todo \cup c.wakes \subseteq call[p].todo \cup call[p].wakes
      /\ c.cont = call[p].cont
  <2>1. c \in Call
    BY <1>1, <1>3 DEF Call
  <2> QED
    BY <1>1, <2>1 DEF Call, Goto, TypeOK
<1> HIDE DEF c, l
<1>5. TypeOK'
  BY <1>1, <1>2, <1>4 DEF TypeOK, Goto, locks, channels, Status
<1>6. Frame(p)
  <2>1. \A q \in Proc \ {p} : call'[q] = call[q]
    BY <1>1 DEF Goto, TypeOK
  <2>2. \A j \in Id : rows[j] # Nothing => rows'[j] # Nothing
    BY <1>1, <1>2 DEF TypeOK
  <2> QED
    BY <1>1, <2>1, <2>2 DEF Frame, locks, channels
<1>7. LocalInv(p)'
  BY <1>1, <1>3, <1>4
     DEF LocalInv, LoopInv, SoftInv, WakeInv, Numbered, Listening
<1>8. FreshInv' /\ MsgInv'
  <2>1. \A j \in Id : j >= next => j # i
    BY <1>2 DEF IInv, FreshInv, Blank
  <2>2. FreshInv'
    BY <1>1, <1>2, <2>1 DEF IInv, FreshInv, TypeOK
  <2>3. MsgInv'
    BY <1>1 DEF IInv, MsgInv, channels
  <2> QED
    BY <2>2, <2>3
<1>9. CountInv'
  <2>1. \A u \in Task : call'[u].pc \in Takes => call[u].pc \in Takes
    BY <1>1, <1>3, <1>4 DEF Goto, TypeOK, Proc, Takes
  <2> QED
    BY <1>1, <2>1, CountKeeps
<1>10. CancelInv'
  <2>1. \A j \in Id : esc'[j] = esc[j]
    BY <1>1
  <2>2. \A j \in Id :
            p \in Task /\ tasks'[p] = "Cancelled" /\ Holding(call[p], j)
              /\ esc'[j].status = "pending" => Holding(c, j)
    BY <1>1 DEF Holding, Numbered
  <2> QED
    BY <1>1, <1>4, <2>1, <2>2, CancelKeeps
<1> QED
  BY <1>5, <1>6, <1>7, <1>8, <1>9, <1>10, StepInductive

LEMMA WakeKeeps ==
    ASSUME IInv, NEW p \in Proc, NEW i \in Id, Wake(p, i)
    PROVE  IInv'
<1> DEFINE c == [call[p] EXCEPT !.pc = "clear", !.wakes = @ \ {i}, !.id = i]
<1>1. /\ TypeOK /\ call[p] \in Call /\ WakeInv(p)
      /\ call[p].pc = "wake" /\ i \in call[p].wakes
      /\ tx' = tx \ {i}
      /\ msg' = IF i \in tx THEN [msg EXCEPT ![i] = esc[i].status] ELSE msg
      /\ Goto(p, c)
      /\ UNCHANGED <<tasks, esc, rows, next, locks, rx, announced, restarts>>
  BY CallType DEF IInv, LocalInv, Wake, At
<1>2. esc[i].status \in Decided /\ esc[i].status # "pending"
  BY <1>1 DEF WakeInv, Decided
<1>3. /\ c \in Call /\ call'[p] = c /\ c.pc = "clear" /\ c.id = i
      /\ c.todo \cup c.wakes \subseteq call[p].todo \cup call[p].wakes
      /\ c.cont = call[p].cont
  <2>1. "clear" \in Pc
    BY DEF Pc
  <2>2. c \in Call
    BY <1>1, <2>1 DEF Call
  <2> QED
    BY <1>1, <2>2 DEF Call, Goto, TypeOK
<1> HIDE DEF c
<1>4. TypeOK'
  BY <1>1, <1>2, <1>3 DEF TypeOK, Goto, locks
<1>5. Frame(p)
  <2>1. \A q \in Proc \ {p} : call'[q] = call[q]
    BY <1>1 DEF Goto, TypeOK
  <2> QED
    BY <1>1, <1>2, <2>1 DEF Frame, locks
<1>6. LocalInv(p)'
  BY <1>1, <1>2, <1>3
     DEF LocalInv, LoopInv, SoftInv, WakeInv, Numbered, Listening
<1>7. FreshInv' /\ MsgInv'
  BY <1>1 DEF IInv, FreshInv, MsgInv, TypeOK
<1>8. CountInv'
  <2>1. \A u \in Task : call'[u].pc \in Takes => call[u].pc \in Takes
    BY <1>1, <1>3 DEF Goto, TypeOK, Proc, Takes
  <2> QED
    BY <1>1, <2>1, CountKeeps
<1>9. CancelInv'
  <2>1. \A j \in Id : esc'[j] = esc[j]
    BY <1>1
  <2>2. \A j \in Id :
            p \in Task /\ tasks'[p] = "Cancelled" /\ Holding(call[p], j)
              /\ esc'[j].status = "pending" => Holding(c, j)
    BY <1>1 DEF Holding, Numbered
  <2> QED
    BY <1>1, <1>3, <2>1, <2>2, CancelKeeps
<1> QED
  BY <1>4, <1>5, <1>6, <1>7, <1>8, <1>9, StepInductive

LEMMA ClearKeeps ==
    ASSUME IInv, NEW p \in Proc, Clear(p)
    PROVE  IInv'
<1> DEFINE i == call[p].id
<1> DEFINE l == CASE call[p].wakes # {}                      -> "wake"
                  [] call[p].wakes = {} /\ call[p].todo # {} -> "store"
                  [] OTHER                                   -> call[p].cont
<1>1. /\ TypeOK /\ call[p] \in Call /\ WakeInv(p)
      /\ call[p].pc = "clear" /\ i \in Id /\ esc[i].status \in Decided
      /\ rx' = [rx EXCEPT ![i] = IF @ = "map" THEN "gone" ELSE @]
      /\ Step(p, l)
      /\ UNCHANGED <<tasks, esc, rows, next, locks, tx, msg, announced, restarts>>
  BY CallType DEF IInv, LocalInv, WakeInv, Clear, At
<1>2. l \in {"wake", "store"} \cup Ends
  BY <1>1 DEF WakeInv
<1> HIDE DEF l
<1>3. PICK c \in Call :
        /\ Goto(p, c) /\ c.pc = l
        /\ c.todo \cup c.wakes \subseteq call[p].todo \cup call[p].wakes
        /\ c.cont \in Ends
  <2>1. CASE l = "idle"
    <3>1. Goto(p, Idle)
      BY <1>1, <2>1 DEF Step
    <3> QED
      BY <2>1, <3>1, CallType DEF Idle, Ends
  <2>2. CASE l = "run"
    <3>1. Goto(p, Running)
      BY <1>1, <2>2 DEF Step
    <3> QED
      BY <2>2, <3>1, CallType DEF Running, Idle, Ends
  <2>3. CASE l \notin {"idle", "run"}
    <3>1. Goto(p, [call[p] EXCEPT !.pc = l])
      BY <1>1, <2>3 DEF Step
    <3>2. l \in Pc
      BY <1>2 DEF Ends, Pc
    <3>3. [call[p] EXCEPT !.pc = l] \in Call
      BY <1>1, <3>2 DEF Call
    <3> QED
      BY <1>1, <3>1, <3>3 DEF Call, WakeInv
  <2> QED
    BY <2>1, <2>2, <2>3
<1>4. call'[p] = c
  BY <1>1, <1>3 DEF Goto, TypeOK
<1>5. TypeOK'
  BY <1>1, <1>3 DEF TypeOK, Goto, locks
<1>6. Frame(p)
  <2>1. \A q \in Proc \ {p} : call'[q] = call[q]
    BY <1>1, <1>3 DEF Goto, TypeOK
  <2>2. \A j \in Id : esc[j].status = "pending" => rx'[j] = rx[j]
    BY <1>1 DEF TypeOK, Decided
  <2> QED
    BY <1>1, <2>1, <2>2 DEF Frame, locks
<1>7. LocalInv(p)'
  BY <1>1, <1>2, <1>3, <1>4
     DEF LocalInv, LoopInv, SoftInv, WakeInv, Numbered, Listening, Ends
<1>8. FreshInv' /\ MsgInv'
  BY <1>1 DEF IInv, FreshInv, MsgInv
<1>9. CountInv'
  <2>1. \A u \in Task : call'[u].pc \in Takes => call[u].pc \in Takes
    BY <1>1, <1>2, <1>3, <1>4 DEF Goto, TypeOK, Proc, Takes, Ends
  <2> QED
    BY <1>1, <2>1, CountKeeps
<1>10. CancelInv'
  <2>1. \A j \in Id : esc'[j] = esc[j]
    BY <1>1
  <2>2. \A j \in Id :
            p \in Task /\ tasks'[p] = "Cancelled" /\ Holding(call[p], j)
              /\ esc'[j].status = "pending" => Holding(c, j)
    BY <1>1 DEF Holding, Numbered
  <2> QED
    BY <1>1, <1>3, <2>1, <2>2, CancelKeeps
<1> QED
  BY <1>5, <1>6, <1>7, <1>8, <1>9, <1>10, StepInductive

(* The operators and the sweeper act on tasks.                             *)
LEMMA ActorKeeps ==
    ASSUME IInv,
           \/ \E o \in Operator : AnswerTask(o)
           \/ \E i \in Id : Look(i)
           \/ DenyExpired \/ SweepDone
    PROVE  IInv'
<1>0. /\ TypeOK /\ Idle \in Call /\ Idle.pc = "idle" /\ Idle.cont = "idle"
      /\ Idle.todo = {} /\ Idle.wakes = {} /\ Sweeper \in Proc
      /\ call[Sweeper] \in Call /\ WakeInv(Sweeper)
  BY CallType DEF IInv, LocalInv, Idle, Proc
<1>1. ASSUME NEW o \in Operator, AnswerTask(o) PROVE IInv'
  <2>1. /\ o \in Proc /\ call[o].pc = "task" /\ Goto(o, Idle)
        /\ UNCHANGED <<esc, rows, next, locks, channels, announced, restarts>>
    BY <1>1 DEF AnswerTask, At, Proc
  <2>2. /\ tasks' \in [Task -> TaskState]
        /\ \A u \in Task : tasks'[u] = "Cancelled" => tasks[u] = "Cancelled"
    BY <1>0, <1>1 DEF AnswerTask, TypeOK, TaskState, Terminal
  <2> QED
    BY <1>0, <2>1, <2>2, PlainStep
       DEF Plain, Ends, Takes, Numbered, locks, TypeOK
<1>2. ASSUME NEW i \in Id, Look(i) PROVE IInv'
  <2> DEFINE l == IF tasks[esc[i].task] \in Terminal \cup {"Running"}
                  THEN "look" ELSE "deny"
  <2> DEFINE c == [call[Sweeper] EXCEPT !.acts = @ \ {i}, !.id = i, !.pc = l]
  <2>1. /\ call[Sweeper].pc = "look" /\ Goto(Sweeper, c)
        /\ UNCHANGED <<tasks, esc, rows, next, locks, channels, announced, restarts>>
    BY <1>2 DEF Look, At
  <2>2. l \in {"look", "deny"} /\ l \in Pc
    BY DEF Pc
  <2>3. /\ c \in Call /\ c.pc = l /\ c.todo = call[Sweeper].todo
        /\ c.wakes = call[Sweeper].wakes /\ c.cont = call[Sweeper].cont
    <3>1. c \in Call
      BY <1>0, <2>2 DEF Call
    <3> QED
      BY <1>0, <3>1 DEF Call
  <2> HIDE DEF c, l
  <2> QED
    BY <1>0, <2>1, <2>2, <2>3, PlainStep
       DEF Plain, Takes, Numbered, locks, TypeOK, WakeInv
<1>3. CASE DenyExpired
  <2> DEFINE c == [call[Sweeper] EXCEPT !.pc = "look"]
  <2>1. /\ call[Sweeper].pc = "deny" /\ Goto(Sweeper, c)
        /\ UNCHANGED <<esc, rows, next, locks, channels, announced, restarts>>
    BY <1>3 DEF DenyExpired, At, Step
  <2>2. /\ tasks' \in [Task -> TaskState]
        /\ \A u \in Task : tasks'[u] = "Cancelled" => tasks[u] = "Cancelled"
    BY <1>0, <1>3 DEF DenyExpired, TypeOK, TaskState, Terminal
  <2>3. /\ c \in Call /\ c.pc = "look" /\ c.todo = call[Sweeper].todo
        /\ c.wakes = call[Sweeper].wakes /\ c.cont = call[Sweeper].cont
    BY <1>0 DEF Call, Pc
  <2> HIDE DEF c
  <2> QED
    BY <1>0, <2>1, <2>2, <2>3, PlainStep
       DEF Plain, Takes, Numbered, locks, TypeOK, WakeInv
<1>4. CASE SweepDone
  <2>1. /\ call[Sweeper].pc = "look" /\ Goto(Sweeper, Idle)
        /\ UNCHANGED <<tasks, esc, rows, next, locks, channels, announced, restarts>>
    BY <1>4 DEF SweepDone, At
  <2> QED
    BY <1>0, <2>1, PlainStep DEF Plain, Ends, Takes, Numbered, locks, TypeOK
<1> QED
  BY <1>1, <1>2, <1>3, <1>4

(* A cancellation announces that it closes the task's questions.           *)
LEMMA CancelKeepsAll ==
    ASSUME IInv, NEW o \in Operator, NEW t \in Task, Cancel(o, t)
    PROVE  IInv'
<1> DEFINE c == [Idle EXCEPT !.pc = "close", !.task = t]
<1>1. /\ TypeOK /\ o \in Proc /\ o \notin Task /\ call[o].pc = "idle"
      /\ tasks' = [tasks EXCEPT ![t] = "Cancelled"] /\ Goto(o, c)
      /\ UNCHANGED <<esc, rows, next, locks, channels, announced, restarts>>
  BY ProcessAssumption DEF IInv, Proc, Cancel, At
<1>2. /\ c \in Call /\ call'[o] = c /\ c.pc = "close" /\ c.task = t
      /\ c.todo = {} /\ c.wakes = {} /\ c.cont \in Ends
  <2>1. c \in Call
    BY DEF Idle, Call, Pc
  <2> QED
    BY <1>1, <2>1 DEF Idle, Goto, TypeOK, Ends
<1> HIDE DEF c
<1>3. tasks' \in [Task -> TaskState]
  BY <1>1 DEF TypeOK, TaskState
<1>4. \A q \in Proc : q # o => call'[q] = call[q]
  BY <1>1 DEF Goto, TypeOK
<1>5. LocalInv(o)'
  BY <1>1, <1>2, PlainCall DEF Plain
<1>6. CountInv'
  <2>1. \A u \in Task : call'[u].pc \in Takes => call[u].pc \in Takes
    BY <1>1, <1>4 DEF Proc
  <2> QED
    BY <1>1, <2>1, CountKeeps
<1>7. CancelInv'
  <2> SUFFICES ASSUME restarts = 0, NEW u \in Task, tasks'[u] = "Cancelled"
               PROVE  \/ Closing(u)'
                      \/ \A i \in PendingOf(u)' :
                           esc'[i].kind = "soft" \/ Holding(call'[u], i)
    BY <1>1 DEF CancelInv
  <2>1. CASE u = t
    BY <1>1, <1>2, <2>1 DEF Closing, At
  <2>2. CASE u # t /\ Closing(u)
    <3>1. PICK q \in Proc : At(q, "close") /\ call[q].task = u
      BY <2>2 DEF Closing
    <3>2. call'[q] = call[q]
      BY <1>1, <1>4, <3>1 DEF At
    <3> QED
      BY <3>1, <3>2 DEF Closing, At
  <2>3. CASE u # t /\ ~Closing(u)
    <3>1. tasks[u] = "Cancelled"
      BY <1>1, <2>3 DEF TypeOK
    <3>2. \A i \in PendingOf(u) : esc[i].kind = "soft" \/ Holding(call[u], i)
      BY <2>3, <3>1 DEF IInv, CancelInv
    <3>3. call'[u] = call[u] /\ PendingOf(u)' = PendingOf(u)
      BY <1>1, <1>4 DEF PendingOf, Proc
    <3> QED
      BY <1>1, <3>2, <3>3
  <2> QED
    BY <2>1, <2>2, <2>3
<1> QED
  BY <1>1, <1>2, <1>3, <1>5, <1>6, <1>7, QuietStep DEF locks, TypeOK

(* A timeout fails a task, and touches no question.                        *)
LEMMA TimeOutKeeps ==
    ASSUME IInv, NEW t \in Task, TimeOut(t)
    PROVE  IInv'
<1>1. /\ TypeOK /\ Sweeper \in Proc /\ call[Sweeper].pc = "idle"
      /\ tasks' = [tasks EXCEPT ![t] = "Failed"]
      /\ UNCHANGED <<esc, rows, next, locks, channels, announced, call, restarts>>
  BY DEF IInv, Proc, TimeOut, At
<1>2. Goto(Sweeper, call[Sweeper]) /\ call[Sweeper] \in Call
  BY <1>1 DEF Goto, TypeOK
<1>3. /\ tasks' \in [Task -> TaskState]
      /\ \A u \in Task : tasks'[u] = "Cancelled" => tasks[u] = "Cancelled"
  BY <1>1 DEF TypeOK, TaskState
<1>4. WakeInv(Sweeper)
  BY <1>1 DEF IInv, LocalInv
<1> QED
  BY <1>1, <1>2, <1>3, <1>4, PlainStep
     DEF Plain, Takes, Numbered, locks, TypeOK, WakeInv

----------------------------------------------------------------------------
(* A crash and a boot.                                                     *)

(* Everything a boot rebuilds comes from the table.                        *)
LEMMA RestartKeeps ==
    ASSUME IInv, NEW n \in 1..MaxId + 1, Restart(n)
    PROVE  IInv'
<1>1. /\ TypeOK /\ call' = [p \in Proc |-> Idle] /\ next' = n
      /\ escLock' = None /\ idLock' = None /\ tx' = {}
      /\ rx' = [i \in Id |-> Nothing] /\ msg' = [i \in Id |-> Nothing]
      /\ esc' = [i \in Id |-> IF rows[i] = Nothing THEN Blank
                              ELSE [esc[i] EXCEPT !.status = rows[i]]]
      /\ restarts' = restarts + 1 /\ restarts < MaxRestarts
      /\ rows' = rows /\ announced' = announced
      /\ \A i \in Id : i >= n => rows[i] = Nothing
  BY DEF IInv, Restart
<1>2. restarts \in Nat /\ MaxRestarts \in Nat /\ MaxId \in Nat
  BY <1>1, CountAssumption DEF TypeOK
<1>3. TypeOK'
  <2>1. esc' \in [Id -> Question]
    <3>1. Blank \in Question
      BY DEF Blank, Question
    <3>2. ASSUME NEW i \in Id PROVE [esc[i] EXCEPT !.status = rows[i]] \in Question
      BY <1>1 DEF TypeOK, Question
    <3> QED
      BY <1>1, <3>1, <3>2
  <2>2. tasks' \in [Task -> TaskState]
    BY DEF IInv, Restart, TypeOK, TaskState
  <2>3. call' \in [Proc -> Call]
    BY <1>1, CallType
  <2>4. restarts' \in 0..MaxRestarts
    BY <1>1, <1>2
  <2> QED
    BY <1>1, <2>1, <2>2, <2>3, <2>4 DEF TypeOK
<1>4. ASSUME NEW p \in Proc PROVE LocalInv(p)'
  <2>1. call'[p] = Idle
    BY <1>1
  <2> QED
    BY <2>1 DEF LocalInv, LoopInv, SoftInv, WakeInv, Idle, Numbered, Listening,
                Ends
<1>5. FreshInv' /\ MsgInv'
  BY <1>1 DEF IInv, FreshInv, MsgInv
<1>6. CountInv'
  <2>1. Asking' = {}
    BY <1>1 DEF Asking, Proc, Idle
  <2> QED
    BY <1>1, <1>2, <2>1, FS_EmptySet DEF CountInv
<1>7. CancelInv'
  BY <1>1, <1>2 DEF CancelInv
<1> QED
  BY <1>3, <1>4, <1>5, <1>6, <1>7 DEF IInv

----------------------------------------------------------------------------
(* The theorems.                                                           *)

LEMMA InitEstablishes == Init => IInv
<1> SUFFICES ASSUME Init PROVE IInv
  OBVIOUS
<1>1. MaxId \in Nat /\ MaxRestarts \in Nat
  BY CountAssumption
<1>2. TypeOK
  <2>1. Blank \in Question
    BY DEF Blank, Question
  <2>2. call \in [Proc -> Call]
    BY CallType DEF Init
  <2> QED
    BY <1>1, <2>1, <2>2 DEF Init, TypeOK, TaskState
<1>3. ASSUME NEW p \in Proc PROVE LocalInv(p)
  <2>1. call[p] = Idle
    BY DEF Init
  <2> QED
    BY <2>1 DEF LocalInv, LoopInv, SoftInv, WakeInv, Idle, Numbered, Listening,
                Ends
<1>4. FreshInv /\ MsgInv
  BY DEF Init, FreshInv, MsgInv
<1>5. CountInv
  <2>1. Asking = {}
    BY DEF Init, Asking, Proc, Idle
  <2> QED
    BY <1>1, <2>1, FS_EmptySet DEF Init, CountInv
<1>6. CancelInv
  BY DEF Init, CancelInv
<1> QED
  BY <1>2, <1>3, <1>4, <1>5, <1>6 DEF IInv

LEMMA StutterKeeps ==
    ASSUME IInv, UNCHANGED vars
    PROVE  IInv'
<1>1. \A p \in Proc : LocalInv(p)'
  BY DEF IInv, LocalInv, LoopInv, SoftInv, WakeInv, vars
<1>2. FreshInv' /\ MsgInv' /\ CountInv'
  BY DEF IInv, FreshInv, MsgInv, CountInv, Asking, vars
<1>3. CancelInv'
  BY DEF IInv, CancelInv, Closing, At, PendingOf, vars
<1>4. TypeOK'
  BY DEF IInv, TypeOK, vars
<1> QED
  BY <1>1, <1>2, <1>3, <1>4 DEF IInv

LEMMA NextKeeps ==
    ASSUME IInv, [Next]_vars
    PROVE  IInv'
<1>1. ASSUME NEW t \in Task, LoopStep(t) PROVE IInv'
  <2>1. CASE AskStep(t)
    <3>1. At(t, "fail") /\ Fail(t) => IInv'
      BY LoopRests
    <3> QED
      BY <2>1, <3>1, LoopRests, AllocateKeeps, CreateKeeps, WaitKeeps, SoftKeeps,
         DecisionsKeep DEF AskStep
  <2>2. CASE \E k \in Kinds : Ask(t, k)
    BY <2>2, AskKeeps
  <2> QED
    BY <1>1, <2>1, <2>2, LoopRests DEF LoopStep
<1>2. ASSUME NEW p \in Proc, ResolveStep(p) PROVE IInv'
  BY <1>2, DecisionsKeep, StoreKeeps, WakeKeeps, ClearKeeps DEF ResolveStep
<1>3. ASSUME NEW o \in Operator, OperatorStep(o) PROVE IInv'
  BY <1>3, DecisionsKeep, CancelKeepsAll, ActorKeeps DEF OperatorStep
<1>4. CASE SweeperStep
  BY <1>4, DecisionsKeep, ActorKeeps DEF SweeperStep
<1> QED
  BY <1>1, <1>2, <1>3, <1>4, TimeOutKeeps, RestartKeeps, StutterKeeps DEF Next

(* The invariant holds in every behaviour.                                 *)
LEMMA Invariance == Spec => []IInv
<1>1. Init => IInv
  BY InitEstablishes
<1>2. IInv /\ [Next]_vars => IInv'
  BY NextKeeps
<1> QED
  BY <1>1, <1>2, PTL DEF Spec

(* Every variable of the manager keeps its type; a loop that is told to    *)
(* wait for, settle or run a question always has a question's number       *)
(* (create_escalation_internal, create_soft_approval).                     *)
THEOREM TypeCorrect == Spec => []TypeOK
<1>1. IInv => TypeOK
  BY DEF IInv
<1> QED
  BY <1>1, Invariance, PTL

(* No denial, expiry or foreign answer ever runs a tool, whatever the      *)
(* order of answers, sweeps, timeouts and crashes (enforce_tool_pre).      *)
THEOREM ToolsRunOnApproval == Spec => []OnlyApprovalsRun
<1>1. IInv => OnlyApprovalsRun
  BY DEF IInv, LocalInv, LoopInv, OnlyApprovalsRun, At, Numbered, Proc
<1> QED
  BY <1>1, Invariance, PTL

(* No number an operator was shown is handed out twice, crashes included   *)
(* (create_escalation_internal, restore_from_store).                       *)
THEOREM NumbersAreNotReused == Spec => []AnnouncedIdsStayTaken
<1>1. IInv => AnnouncedIdsStayTaken
  BY DEF IInv, FreshInv, AnnouncedIdsStayTaken, TypeOK, Id
<1> QED
  BY <1>1, Invariance, PTL

(* A watchdog that waits on an open question can be reached by whoever     *)
(* decides it (create_escalation_with_resolution, wake_resolution).        *)
THEOREM WatchdogsListen == Spec => []GateListens
<1>1. IInv => GateListens
  BY DEF IInv, LocalInv, LoopInv, Listening, GateListens, At, Proc
<1> QED
  BY <1>1, Invariance, PTL

(* Whoever cancels a task leaves none of its questions to approve          *)
(* (cmd_cancel_task, resolve_for_task).                                    *)
THEOREM CancellationsClose == Spec => []CancelClosesQuestions
<1>1. IInv => CancelClosesQuestions
  BY DEF IInv, CancelInv, CancelClosesQuestions, Closing, Holding, At, Numbered
<1> QED
  BY <1>1, Invariance, PTL

(* No step but a boot changes a question that is decided.                  *)
LEMMA DecisionStands ==
    ASSUME IInv, Next, restarts' = restarts, NEW i \in Id,
           esc[i].status \in Decided
    PROVE  esc'[i] = esc[i]
<1>0. esc[i].status \notin {"pending", Nothing} /\ i \notin Pending
  BY DEF Decided, Nothing, Pending
<1>1. ASSUME NEW S \in SUBSET Pending, NEW s, Decide(S, s)
      PROVE  esc'[i] = esc[i]
  BY <1>0, <1>1 DEF Decide
<1>2. ASSUME NEW t \in Task, LoopStep(t) PROVE esc'[i] = esc[i]
  <2>1. CASE Allocate(t)
    <3>1. esc' = [esc EXCEPT ![next] = Asked(t)] /\ next \in Nat
      BY <2>1 DEF Allocate, IInv, TypeOK
    <3>2. i # next
      BY <1>0, <3>1 DEF IInv, FreshInv, Blank
    <3> QED
      BY <3>1, <3>2 DEF IInv, TypeOK
  <2>2. CASE SoftPush(t)
    <3>1. /\ esc' = [esc EXCEPT ![call[t].id] = Asked(t)]
          /\ esc[call[t].id].status = Nothing
      BY <2>2 DEF SoftPush, At, IInv, LocalInv, SoftInv, Proc
    <3>2. i # call[t].id
      BY <1>0, <3>1
    <3> QED
      BY <3>1, <3>2 DEF IInv, TypeOK
  <2>3. CASE GateSettles(t)
    <3>1. UNCHANGED esc \/ \E S \in SUBSET Pending, v \in {call[t].verdict} :
                             Decide(S, [j \in S |-> v])
      BY <2>3 DEF GateSettles
    <3> QED
      BY <1>1, <3>1
  <2>4. CASE Take(t) \/ Hear(t) \/ WaitTimeout(t) \/ RunTool(t) \/ GateEnds(t)
             \/ Park(t) \/ Finish(t) \/ Fail(t) \/ Dispatch(t)
    BY <2>4 DEF Take, Hear, WaitTimeout, RunTool, GateEnds, Park, Finish, Fail,
                Dispatch
  <2>5. CASE (\E k \in Kinds : Ask(t, k)) \/ CheckCap(t) \/ CapReached(t)
             \/ Install(t) \/ PersistNew(t) \/ Announce(t) \/ SoftAllocate(t)
             \/ SoftPersist(t) \/ InstallSender(t) \/ InstallReceiver(t)
    BY <2>5 DEF Ask, CheckCap, CapReached, Install, PersistNew, Announce,
                SoftAllocate, SoftPersist, InstallSender, InstallReceiver
  <2> QED
    BY <1>2, <2>1, <2>2, <2>3, <2>4, <2>5 DEF LoopStep, AskStep
<1>3. ASSUME NEW p \in Proc, ResolveStep(p) PROVE esc'[i] = esc[i]
  <2>1. CASE Close(p)
    <3>1. PendingOf(call[p].task) \in SUBSET Pending
      BY DEF PendingOf, Pending
    <3> QED
      BY <1>1, <2>1, <3>1 DEF Close
  <2>2. CASE Clear(p) \/ \E j \in Id : Store(p, j) \/ Wake(p, j)
    BY <2>2 DEF Clear, Store, Wake
  <2> QED
    BY <1>3, <2>1, <2>2 DEF ResolveStep
<1>4. ASSUME NEW o \in Operator, OperatorStep(o) PROVE esc'[i] = esc[i]
  <2>1. ASSUME NEW j \in Id, NEW v, NEW s, Answer(o, j, v, s)
        PROVE  esc'[i] = esc[i]
    <3>1. {j} \in SUBSET Pending /\ Decide({j}, [k \in {j} |-> v])
      BY <2>1 DEF Answer
    <3> QED
      BY <1>1, <3>1
  <2>2. CASE AnswerTask(o) \/ \E t \in Task : Cancel(o, t)
    BY <2>2 DEF AnswerTask, Cancel
  <2> QED
    BY <1>4, <2>1, <2>2 DEF OperatorStep
<1>5. CASE SweeperStep
  <2>1. ASSUME NEW S \in SUBSET Pending, Sweep(S) PROVE esc'[i] = esc[i]
    BY <1>1, <2>1 DEF Sweep
  <2>2. CASE DenyExpired \/ SweepDone \/ \E j \in Id : Look(j)
    BY <2>2 DEF DenyExpired, SweepDone, Look
  <2> QED
    BY <1>5, <2>1, <2>2 DEF SweeperStep
<1>6. ASSUME NEW t \in Task, TimeOut(t) PROVE esc'[i] = esc[i]
  BY <1>6 DEF TimeOut
<1>7. ASSUME NEW n, Restart(n) PROVE FALSE
  BY <1>7 DEF Restart, IInv, TypeOK
<1> QED
  BY <1>2, <1>3, <1>4, <1>5, <1>6, <1>7 DEF Next

(* Operators, the sweep, the watchdog and the end of the task race to      *)
(* decide a question; the first of them does, and the others change        *)
(* nothing (resolve, resolve_for_task, sweep_expired).                     *)
THEOREM DecisionsStand == Spec => FirstDecisionStands
<1>1. IInv /\ [Next]_vars =>
        [\A i \in Id : esc[i].status \in Decided /\ restarts' = restarts
                          => esc'[i] = esc[i]]_vars
  BY DecisionStands
<1> QED
  BY <1>1, Invariance, PTL DEF Spec, FirstDecisionStands

=============================================================================
