-------------------------- MODULE TaskLedgerProofs --------------------------
(***************************************************************************)
(* The life of tasks implements the ledger, for every number of tasks and  *)
(* executions, when a model answer has at most one tool call: every step   *)
(* of the kernel is a step of the ledger, or leaves it alone.              *)
(***************************************************************************)
EXTENDS TaskLifecycleProofs

(* t has called c and is to be told; t has yet to hear of c.               *)
Calls(s, t, c) == slot[s].pc = "await" /\ slot[s].task = t /\ slot[s].child = c
Returned(s, t, c) == slot[s].pc = "back" /\ slot[s].task = t /\ slot[s].child = c
Inlined(t, c) == \E s \in Slot : Calls(s, t, c)
Hears(t, c) == CheckerToWake(t, c) \/ \E s \in Slot : ToWake(s, t, c) \/ Returned(s, t, c)

(* The ledger, read off the state of the kernel.                           *)
Reading ==
    /\ lifeBar \in [Task -> Ledger!Life]
    /\ awaitsBar \in [Task -> SUBSET Task]
    /\ inlineBar \in [Task -> SUBSET Task]
    /\ newsBar \in [Task -> SUBSET Task]
    /\ \A t \in Task :
          /\ state[t] \in MaybeState
          /\ state[t] = Absent => lifeBar[t] = "none"
          /\ state[t] = "Queued" => lifeBar[t] = "pending"
          /\ state[t] = "Running" => lifeBar[t] = "active"
          /\ state[t] \in Parked => lifeBar[t] = "parked"
          /\ Over(t) => lifeBar[t] = "ended"
    /\ \A t, c \in Task :
          /\ c \in awaitsBar[t] <=> Edge(t, c)
          /\ c \in inlineBar[t] <=> Inlined(t, c)
          /\ c \in newsBar[t] <=> Hears(t, c)

LEMMA ReadingHolds == TypeOK /\ Core => Reading
  <1> SUFFICES ASSUME TypeOK, Core PROVE Reading
    OBVIOUS
  <1>1. ASSUME NEW t \in Task
        PROVE  /\ lifeBar[t] \in Ledger!Life
               /\ state[t] \in MaybeState
               /\ state[t] = Absent => lifeBar[t] = "none"
               /\ state[t] = "Queued" => lifeBar[t] = "pending"
               /\ state[t] = "Running" => lifeBar[t] = "active"
               /\ state[t] \in Parked => lifeBar[t] = "parked"
               /\ Over(t) => lifeBar[t] = "ended"
    <2>1. lifeBar[t] = CASE state[t] = Absent -> "none"
                         [] state[t] = "Queued" -> "pending"
                         [] state[t] = "Running" -> "active"
                         [] state[t] \in Parked -> "parked"
                         [] OTHER -> "ended"
      BY DEF lifeBar
    <2>2. state[t] \in MaybeState
      BY DEF TypeOK
    <2> QED BY <2>1, <2>2 DEF Ledger!Life, Over, Parked, Terminal, MaybeState, TaskState, Absent
  <1>2. lifeBar \in [Task -> Ledger!Life]
    <2>1. lifeBar = [t \in Task |-> lifeBar[t]]
      BY DEF lifeBar
    <2> QED BY <1>1, <2>1
  <1>3. /\ awaitsBar \in [Task -> SUBSET Task]
        /\ \A t, c \in Task : c \in awaitsBar[t] <=> Edge(t, c)
    BY DEF awaitsBar, Edge
  <1>4. /\ newsBar \in [Task -> SUBSET Task]
        /\ \A t, c \in Task : c \in newsBar[t] <=> Hears(t, c)
    BY DEF newsBar, Hears, CheckerToWake, ToWake, Returned, At
  <1>5. ASSUME NEW t \in Task
        PROVE  /\ inlineBar[t] \in SUBSET Task
               /\ \A c \in Task : c \in inlineBar[t] <=> Inlined(t, c)
    <2>1. inlineBar[t] = {slot[s].child : s \in {r \in Slot : At(r, "await") /\ slot[r].task = t}}
      BY DEF inlineBar
    <2>2. \A s \in Slot : At(s, "await") => slot[s].child \in Task
      BY DEF At, Core, ChildOk, CallingPc
    <2> QED BY <2>1, <2>2 DEF Inlined, Calls, At
  <1>6. inlineBar \in [Task -> SUBSET Task]
    <2>1. inlineBar = [t \in Task |-> inlineBar[t]]
      BY DEF inlineBar
    <2> QED BY <1>5, <2>1
  <1> QED BY <1>1, <1>2, <1>3, <1>4, <1>5, <1>6 DEF Reading

LEMMA ReadingThen ==
  ASSUME TypeOK', Core'
  PROVE  Reading'
  <1>1. (TypeOK /\ Core => Reading)'
    BY ReadingHolds, PTL
  <1> QED BY <1>1

-----------------------------------------------------------------------------
(* The parts of the ledger that a step leaves alone, or changes at one     *)
(* place.                                                                  *)

LEMMA SetFunctions ==
  ASSUME NEW f \in [Task -> SUBSET Task], NEW g \in [Task -> SUBSET Task],
         \A t, c \in Task : c \in f[t] <=> c \in g[t]
  PROVE  f = g
  <1>1. ASSUME NEW t \in Task
        PROVE  f[t] = g[t]
    <2>1. f[t] \subseteq Task /\ g[t] \subseteq Task
      OBVIOUS
    <2> QED BY <2>1
  <1> QED BY <1>1

LEMMA SameAwaits ==
  ASSUME Reading, Reading', \A t, c \in Task : Edge(t, c)' <=> Edge(t, c)
  PROVE  awaitsBar' = awaitsBar
  <1>1. /\ awaitsBar \in [Task -> SUBSET Task] /\ awaitsBar' \in [Task -> SUBSET Task]
        /\ \A t, c \in Task : c \in awaitsBar'[t] <=> c \in awaitsBar[t]
    BY DEF Reading
  <1> QED BY <1>1, SetFunctions

LEMMA SameInline ==
  ASSUME Reading, Reading', \A t, c \in Task : Inlined(t, c)' <=> Inlined(t, c)
  PROVE  inlineBar' = inlineBar
  <1>1. /\ inlineBar \in [Task -> SUBSET Task] /\ inlineBar' \in [Task -> SUBSET Task]
        /\ \A t, c \in Task : c \in inlineBar'[t] <=> c \in inlineBar[t]
    BY DEF Reading
  <1> QED BY <1>1, SetFunctions

LEMMA SameNews ==
  ASSUME Reading, Reading', \A t, c \in Task : Hears(t, c)' <=> Hears(t, c)
  PROVE  newsBar' = newsBar
  <1>1. /\ newsBar \in [Task -> SUBSET Task] /\ newsBar' \in [Task -> SUBSET Task]
        /\ \A t, c \in Task : c \in newsBar'[t] <=> c \in newsBar[t]
    BY DEF Reading
  <1> QED BY <1>1, SetFunctions

LEMMA LifeOfOne ==
  ASSUME Reading, Reading', NEW t \in Task, \A u \in Task \ {t} : state'[u] = state[u]
  PROVE  lifeBar' = [lifeBar EXCEPT ![t] = lifeBar'[t]]
  <1>1. ASSUME NEW u \in Task \ {t}
        PROVE  lifeBar'[u] = lifeBar[u]
    BY DEF Reading, Over, MaybeState, TaskState, Parked, Terminal
  <1> QED BY <1>1 DEF Reading

LEMMA SameLife ==
  ASSUME Reading, Reading', \A u \in Task : state'[u] = state[u]
  PROVE  lifeBar' = lifeBar
  <1>1. ASSUME NEW u \in Task
        PROVE  lifeBar'[u] = lifeBar[u]
    BY DEF Reading, Over, MaybeState, TaskState, Parked, Terminal
  <1> QED BY <1>1 DEF Reading

(* What the ledger sees of execution r.                                    *)
SameView(r) ==
    /\ \A l \in {"await", "back", "wake"} : slot'[r].pc = l <=> slot[r].pc = l
    /\ slot[r].pc \in {"await", "back", "wake"} =>
          slot'[r].task = slot[r].task /\ slot'[r].child = slot[r].child /\ slot'[r].todo = slot[r].todo

LEMMA SameCalls ==
  ASSUME Reading, Reading', \A r \in Slot : SameView(r), checker' = checker
  PROVE  inlineBar' = inlineBar /\ newsBar' = newsBar
  <1>1. \A r \in Slot, t, c \in Task : /\ Calls(r, t, c)' <=> Calls(r, t, c)
                                       /\ Returned(r, t, c)' <=> Returned(r, t, c)
                                       /\ ToWake(r, t, c)' <=> ToWake(r, t, c)
    BY DEF SameView, Calls, Returned, ToWake
  <1>2. \A t, c \in Task : CheckerToWake(t, c)' <=> CheckerToWake(t, c)
    BY DEF CheckerToWake
  <1>3. \A t, c \in Task : (Inlined(t, c)' <=> Inlined(t, c)) /\ (Hears(t, c)' <=> Hears(t, c))
    BY <1>1, <1>2 DEF Inlined, Hears
  <1> QED BY <1>3, SameInline, SameNews

LEMMA SameViews ==
  ASSUME Reading, Reading', \A r \in Slot : SameView(r), UNCHANGED <<waits, checker>>
  PROVE  awaitsBar' = awaitsBar /\ inlineBar' = inlineBar /\ newsBar' = newsBar
  <1>1. \A t, c \in Task : Edge(t, c)' <=> Edge(t, c)
    BY DEF Edge
  <1> QED BY <1>1, SameAwaits, SameCalls

-----------------------------------------------------------------------------
(* The steps of the ledger.                                                *)

OtherStates(t) == \A u \in Task \ {t} : state'[u] = state[u]
SameLists == awaitsBar' = awaitsBar /\ inlineBar' = inlineBar /\ newsBar' = newsBar
LedgerStep == Ledger!Next \/ UNCHANGED Ledger!ledgerVars

LEMMA Stutters ==
  ASSUME Reading, Reading', \A u \in Task : state'[u] = state[u], SameLists
  PROVE  LedgerStep
  BY SameLife DEF LedgerStep, SameLists, Ledger!ledgerVars

LEMMA Accepts ==
  ASSUME Reading, Reading', NEW t \in Task, state[t] = Absent, state'[t] \in {"Queued", "Failed"},
         OtherStates(t), SameLists
  PROVE  LedgerStep
  <1>1. lifeBar[t] = "none" /\ lifeBar'[t] \in {"pending", "ended"}
    BY DEF Reading, Over, Terminal
  <1>2. lifeBar' = [lifeBar EXCEPT ![t] = lifeBar'[t]]
    BY LifeOfOne DEF OtherStates
  <1>3. Ledger!Accept(t)
    BY <1>1, <1>2 DEF Ledger!Accept, SameLists
  <1> QED BY <1>3 DEF LedgerStep, Ledger!Next

LEMMA Starts ==
  ASSUME Reading, Reading', NEW t \in Task, state[t] = "Queued", state'[t] = "Running",
         OtherStates(t), SameLists
  PROVE  LedgerStep
  <1>1. lifeBar[t] = "pending" /\ lifeBar'[t] = "active"
    BY DEF Reading
  <1>2. lifeBar' = [lifeBar EXCEPT ![t] = lifeBar'[t]]
    BY LifeOfOne DEF OtherStates
  <1>3. Ledger!Start(t)
    BY <1>1, <1>2 DEF Ledger!Start, SameLists
  <1> QED BY <1>3 DEF LedgerStep, Ledger!Next

(* A task that parks, if it has not ended.                                 *)
Parks(t) ==
    /\ OtherStates(t)
    /\ \/ state[t] = "Running" /\ state'[t] = "Waiting"
       \/ Over(t) /\ state'[t] = state[t]

LEMMA ParksInLedger ==
  ASSUME Reading, Reading', NEW t \in Task, Parks(t)
  PROVE  Ledger!Parking(t)
  <1>1. \/ lifeBar[t] = "active" /\ lifeBar'[t] = "parked"
        \/ lifeBar[t] = "ended" /\ lifeBar'[t] = "ended"
    BY DEF Parks, Reading, Parked, Over
  <1>2. lifeBar' = [lifeBar EXCEPT ![t] = lifeBar'[t]]
    BY LifeOfOne DEF Parks, OtherStates
  <1>3. lifeBar' = [lifeBar EXCEPT ![t] = IF lifeBar[t] = "active" THEN "parked" ELSE lifeBar[t]]
    BY <1>1, <1>2
  <1> QED BY <1>1, <1>3 DEF Ledger!Parking

LEMMA Finishes ==
  ASSUME Reading, Reading', SameLists,
         \A u \in Task : state'[u] = state[u] \/ (state[u] # Absent /\ state'[u] \in Terminal)
  PROVE  LedgerStep
  <1>1. ASSUME NEW u \in Task, lifeBar'[u] # lifeBar[u]
        PROVE  lifeBar[u] # "none" /\ lifeBar'[u] = "ended"
    BY <1>1 DEF Reading, Over, MaybeState, TaskState, Parked, Terminal
  <1>2. lifeBar' \in [Task -> Ledger!Life]
    BY DEF Reading
  <1>3. Ledger!Finish
    BY <1>1, <1>2 DEF Ledger!Finish, SameLists
  <1> QED BY <1>3 DEF LedgerStep, Ledger!Next

(* Somebody hears of c, which wakes it if it is parked.                    *)
LEMMA Delivers ==
  ASSUME Reading, Reading', NEW t \in Task, NEW c \in Task, Hears(t, c), OtherStates(t),
         \/ state[t] \in Parked /\ state'[t] \in {"Queued", "Running"}
         \/ state[t] \notin Parked /\ state'[t] = state[t],
         awaitsBar' = awaitsBar, inlineBar' = inlineBar,
         \A u, d \in Task : Hears(u, d)' <=> Hears(u, d) /\ ~(u = t /\ d = c)
  PROVE  LedgerStep
  <1>1. newsBar' = [newsBar EXCEPT ![t] = @ \ {c}]
    <2> DEFINE f == [newsBar EXCEPT ![t] = @ \ {c}]
    <2>1. f \in [Task -> SUBSET Task] /\ newsBar' \in [Task -> SUBSET Task]
      BY DEF Reading
    <2>2. \A u, d \in Task : d \in newsBar'[u] <=> d \in f[u]
      BY DEF Reading
    <2> HIDE DEF f
    <2> QED BY <2>1, <2>2, SetFunctions DEF f
  <1>2. c \in newsBar[t]
    BY DEF Reading
  <1>3. lifeBar' = [lifeBar EXCEPT ![t] = lifeBar'[t]]
    BY LifeOfOne DEF OtherStates
  <1>4. \/ lifeBar[t] = "parked" /\ lifeBar'[t] \in {"pending", "active"}
        \/ lifeBar[t] # "parked" /\ lifeBar' = lifeBar
    <2>1. CASE state[t] \in Parked
      BY <2>1 DEF Reading, Parked
    <2>2. CASE state[t] \notin Parked
      <3>1. lifeBar[t] # "parked"
        BY <2>2 DEF Reading, Over, MaybeState, TaskState, Parked, Terminal
      <3>2. lifeBar' = lifeBar
        BY <2>2, SameLife DEF OtherStates
      <3> QED BY <3>1, <3>2
    <2> QED BY <2>1, <2>2
  <1>5. Ledger!Deliver(t, c)
    BY <1>1, <1>2, <1>3, <1>4 DEF Ledger!Deliver
  <1> QED BY <1>5 DEF LedgerStep, Ledger!Next

(* The end of c is taken from the graph; those who wait for it are to      *)
(* hear of it.                                                             *)
LEMMA Reports ==
  ASSUME Reading, Reading', NEW c \in Task, Over(c), \A u \in Task : state'[u] = state[u],
         waits' = RemoveEdges(waits, {c}), TypeOK, inlineBar' = inlineBar,
         \A u, d \in Task : Hears(u, d)' <=> Hears(u, d) \/ (d = c /\ Edge(u, c))
  PROVE  LedgerStep
  <1>1. \A w, d \in Task : Edge(w, d)' <=> Edge(w, d) /\ w # c /\ d # c
    BY Removed
  <1>2. awaitsBar' = [w \in Task |-> IF w = c THEN {} ELSE awaitsBar[w] \ {c}]
    <2> DEFINE f == [w \in Task |-> IF w = c THEN {} ELSE awaitsBar[w] \ {c}]
    <2>1. f \in [Task -> SUBSET Task] /\ awaitsBar' \in [Task -> SUBSET Task]
      BY DEF Reading
    <2>2. \A u, d \in Task : d \in awaitsBar'[u] <=> d \in f[u]
      BY <1>1 DEF Reading
    <2> HIDE DEF f
    <2> QED BY <2>1, <2>2, SetFunctions DEF f
  <1>3. newsBar' = [w \in Task |-> IF c \in awaitsBar[w] THEN newsBar[w] \cup {c} ELSE newsBar[w]]
    <2> DEFINE f == [w \in Task |-> IF c \in awaitsBar[w] THEN newsBar[w] \cup {c} ELSE newsBar[w]]
    <2>1. f \in [Task -> SUBSET Task] /\ newsBar' \in [Task -> SUBSET Task]
      BY DEF Reading
    <2>2. \A u, d \in Task : d \in newsBar'[u] <=> d \in f[u]
      BY DEF Reading
    <2> HIDE DEF f
    <2> QED BY <2>1, <2>2, SetFunctions DEF f
  <1>4. lifeBar[c] = "ended" /\ lifeBar' = lifeBar
    BY SameLife DEF Reading
  <1>5. Ledger!Report(c)
    BY <1>2, <1>3, <1>4 DEF Ledger!Report
  <1> QED BY <1>5 DEF LedgerStep, Ledger!Next

(* An execution ends; if another runs it inline, that call returns.        *)
LEMMA EndInLedger ==
  ASSUME TypeOK, Core, Reading, Reading', NEW s \in Slot, slot' = End(s),
         slot[s].pc \notin {"await", "back", "wake"}, slot[s].task \in Task,
         \A u \in Task : state'[u] = state[u], UNCHANGED <<waits, checker>>
  PROVE  LedgerStep
  <1>1. CASE slot[s].caller = None
    <2>1. slot'[s] = Free /\ \A r \in Slot \ {s} : slot'[r] = slot[r]
      BY <1>1, EndSlots, Names
    <2>2. \A r \in Slot : SameView(r)
      BY <2>1, FreeFields DEF SameView
    <2> QED BY <2>2, SameViews, Stutters DEF SameLists
  <1>2. CASE slot[s].caller # None
    <2> DEFINE q == slot[s].caller
               t == slot[q].task
               c == slot[s].task
    <2>1. q \in Slot /\ slot[q].pc = "await" /\ slot[q].child = c /\ t \in Task /\ q # s
      BY <1>2, SlotFields, TaskOfSlot DEF Core, CallerOk
    <2>2. /\ slot'[s] = Free /\ slot'[q].pc = "back" /\ slot'[q].task = t /\ slot'[q].child = c
          /\ \A r \in Slot \ {s, q} : slot'[r] = slot[r]
      BY <2>1, EndSlots
    <2> HIDE DEF q, t, c
    <2>3. \A r \in Slot, u, d \in Task :
             /\ Calls(r, u, d)' <=> Calls(r, u, d) /\ r # q
             /\ Returned(r, u, d)' <=> Returned(r, u, d) \/ (r = q /\ u = t /\ d = c)
             /\ ToWake(r, u, d)' <=> ToWake(r, u, d)
      BY <2>1, <2>2, FreeFields DEF Calls, Returned, ToWake
    <2>4. \A u, d \in Task : (Edge(u, d)' <=> Edge(u, d)) /\ (CheckerToWake(u, d)' <=> CheckerToWake(u, d))
      BY DEF Edge, CheckerToWake
    <2>5. Calls(q, t, c) /\ \A u, d \in Task : Calls(q, u, d) => u = t /\ d = c
      BY <2>1 DEF Calls, t, c
    <2>6. \A r \in Slot, u \in Task : Calls(r, u, c) => r = q
      <3>1. \A r \in Slot, u \in Task : Calls(r, u, c) => Holds(r, c)
        BY DEF Calls, Holds, CallingPc
      <3> QED BY <2>1, <2>5, <3>1 DEF Core, PairOk, c
    <2>7. \A u, d \in Task : Inlined(u, d)' <=> Inlined(u, d) /\ ~(u = t /\ d = c)
      BY <2>1, <2>3, <2>5, <2>6 DEF Inlined
    <2>8. \A u, d \in Task : Hears(u, d)' <=> Hears(u, d) \/ (u = t /\ d = c)
      BY <2>1, <2>3, <2>4 DEF Hears
    <2>9. c \in Task
      BY DEF c
    <2>10. inlineBar' = [inlineBar EXCEPT ![t] = @ \ {c}]
      <3> DEFINE f == [inlineBar EXCEPT ![t] = @ \ {c}]
      <3>1. f \in [Task -> SUBSET Task] /\ inlineBar' \in [Task -> SUBSET Task]
        BY <2>1 DEF Reading
      <3>2. \A u, d \in Task : d \in inlineBar'[u] <=> d \in f[u]
        BY <2>1, <2>7 DEF Reading
      <3> HIDE DEF f
      <3>3. inlineBar' = f
        BY <3>1, <3>2, SetFunctions
      <3> QED BY <3>3 DEF f
    <2>11. newsBar' = [newsBar EXCEPT ![t] = @ \cup {c}]
      <3> DEFINE f == [newsBar EXCEPT ![t] = @ \cup {c}]
      <3>1. f \in [Task -> SUBSET Task] /\ newsBar' \in [Task -> SUBSET Task]
        BY <2>1, <2>9 DEF Reading
      <3>2. \A u, d \in Task : d \in newsBar'[u] <=> d \in f[u]
        BY <2>1, <2>8 DEF Reading
      <3> HIDE DEF f
      <3>3. newsBar' = f
        BY <3>1, <3>2, SetFunctions
      <3> QED BY <3>3 DEF f
    <2>12. c \in inlineBar[t]
      BY <2>1, <2>5, <2>9 DEF Reading, Inlined
    <2>13. lifeBar' = lifeBar /\ awaitsBar' = awaitsBar
      BY <2>4, SameLife, SameAwaits
    <2>14. Ledger!Return(t, c)
      BY <2>10, <2>11, <2>12, <2>13 DEF Ledger!Return
    <2> QED BY <2>1, <2>9, <2>14 DEF LedgerStep, Ledger!Next
  <1> QED BY <1>1, <1>2

-----------------------------------------------------------------------------
(* The steps of an execution.                                              *)

LEMMA GotoView ==
  ASSUME TypeOK, NEW s \in Slot, NEW l \in Pc, Goto(s, l),
         l \notin {"await", "back", "wake"}, slot[s].pc \notin {"await", "back", "wake"}
  PROVE  \A r \in Slot : SameView(r)
  <1>1. slot' = [slot EXCEPT ![s] = [slot[s] EXCEPT !.pc = l]]
    BY DEF Goto, TypeOK
  <1>2. [slot[s] EXCEPT !.pc = l].pc = l
    BY SlotFields DEF Execution
  <1>3. slot'[s].pc = l /\ \A r \in Slot : r # s => slot'[r] = slot[r]
    BY <1>1, <1>2, SlotMove
  <1> QED BY <1>3 DEF SameView

LEMMA LoopInLedger ==
  ASSUME TypeOK, Core, Reading, Reading', NEW s \in Slot,
         \/ Setup(s) \/ Abort(s) \/ Quit(s) \/ Answer(s) \/ EndBatch(s) \/ DelegateChild(s)
         \/ SpawnAdopt(s) \/ CallChild(s) \/ CallHear(s) \/ Fail(s)
  PROVE  LedgerStep
  <1> USE DEF schedVars, ctxVars, runVars
  <1>1. UNCHANGED <<state, waits, checker>>
    BY DEF Setup, Abort, Quit, Answer, EndBatch, DelegateChild, SpawnAdopt, CallChild,
           RegisterChild, CallHear, Fail
  <1>2. \A r \in Slot : SameView(r)
    <2>1. CASE EndBatch(s)
      <3> DEFINE e == [slot[s] EXCEPT !.pc = IF slot[s].parked THEN "paused" ELSE "turn",
                                      !.left = 0, !.child = None, !.parked = FALSE]
      <3>1. e.pc \in {"paused", "turn"}
        BY SlotFields DEF Execution
      <3>2. slot' = [slot EXCEPT ![s] = e] /\ slot[s].pc = "act"
        BY <2>1, SlotFields DEF EndBatch, TypeOK, At
      <3> HIDE DEF e
      <3>3. slot'[s] = e /\ \A r \in Slot : r # s => slot'[r] = slot[r]
        BY <3>2, SlotMove
      <3> QED BY <3>1, <3>2, <3>3 DEF SameView
    <2>2. CASE ~EndBatch(s)
      <3>1. PICK l \in {"turn", "fail", "done", "park", "act", "cstart", "paused", "failing"} : Goto(s, l)
        BY <2>2 DEF Setup, Abort, Quit, Answer, DelegateChild, SpawnAdopt, CallChild,
                    RegisterChild, CallHear, Fail
      <3>2. slot[s].pc \notin {"await", "back", "wake"}
        BY <2>2 DEF Setup, Abort, Quit, Answer, DelegateChild, SpawnAdopt, CallChild, CallHear, Fail, At
      <3> QED BY <3>1, <3>2, GotoView DEF Pc
    <2> QED BY <2>1, <2>2
  <1> QED BY <1>1, <1>2, SameViews, Stutters DEF SameLists

LEMMA EndsInLedger ==
  ASSUME TypeOK, Core, Reading, Reading', NEW s \in Slot,
         Begin(s) \/ Succeed(s) \/ Failing(s) \/ Inject(s) \/ Pause(s) \/ Close(s),
         slot' = End(s)
  PROVE  LedgerStep
  <1>1. slot[s].pc \in {"begin", "done", "failing", "inject", "paused", "close"} /\ slot[s].task \in Task
    BY TaskOfSlot DEF Begin, Succeed, Failing, Inject, Pause, Close, At
  <1>2. \A u \in Task : state'[u] = state[u]
    <2>1. Over(slot[s].task) \/ UNCHANGED state
      <3>1. slot'[s] = Free
        BY EndSlots
      <3>2. CASE (Begin(s) \/ Failing(s)) /\ ~Over(slot[s].task)
        <4>1. PICK l \in {"setup", "inject"} : Goto(s, l)
          BY <3>2 DEF Begin, Failing, GotoOrEnd, Goto, Over
        <4>2. slot'[s].pc = l
          BY <4>1, SlotFields DEF Goto, TypeOK, Execution
        <4> QED BY <3>1, <4>2, FreeFields
      <3>3. CASE Succeed(s) /\ ~Over(slot[s].task)
        <4>1. slot'[s].pc = "settle"
          BY <3>3, SlotFields DEF Succeed, Over, TypeOK, Execution
        <4> QED BY <3>1, <4>1, FreeFields
      <3> QED BY <3>2, <3>3 DEF Inject, Pause, Close, schedVars
    <2> QED BY <1>1, <2>1 DEF Begin, Succeed, Failing, Inject, Pause, Close, UpdateIfNotTerminal,
                              Over, TypeOK, schedVars
  <1>3. UNCHANGED <<waits, checker>>
    BY DEF Begin, Succeed, Failing, Inject, Pause, Close, schedVars
  <1> QED BY <1>1, <1>2, <1>3, EndInLedger

LEMMA StatesInLedger ==
  ASSUME TypeOK, Core, Reading, Reading', NEW s \in Slot,
         Begin(s) \/ Succeed(s) \/ Failing(s) \/ Inject(s),
         slot' # End(s)
  PROVE  LedgerStep
  <1> DEFINE t == slot[s].task
  <1>1. /\ slot[s].pc \in {"begin", "done", "failing", "inject"} /\ t \in Task
        /\ UNCHANGED <<waits, checker>>
    BY TaskOfSlot DEF Begin, Succeed, Failing, Inject, At, schedVars
  <1>2. \A r \in Slot : SameView(r)
    <2>1. CASE Succeed(s)
      <3>1. slot'[s].pc = "settle" /\ \A r \in Slot : r # s => slot'[r] = slot[r]
        BY <2>1, SlotFields DEF Succeed, TypeOK, Execution
      <3> QED BY <1>1, <3>1 DEF SameView
    <2>2. CASE ~Succeed(s)
      <3>1. PICK l \in {"setup", "inject", "settle"} : Goto(s, l)
        BY <2>2 DEF Begin, Failing, Inject, GotoOrEnd, Goto
      <3> QED BY <1>1, <3>1, GotoView DEF Pc
    <2> QED BY <2>1, <2>2
  <1>3. SameLists
    BY <1>1, <1>2, SameViews DEF SameLists
  <1>4. CASE Begin(s)
    <2>1. slot[s].pc = "begin" /\ ~Over(t)
      BY <1>4 DEF Begin, GotoOrEnd, At, Over
    <2>2. state[t] = "Queued"
      BY <2>1, OwnedState DEF OwningPc, Expected, Over
    <2>3. state'[t] = "Running" /\ OtherStates(t)
      BY <1>1, <1>4, <2>2 DEF Begin, UpdateIfNotTerminal, Terminal, TypeOK, OtherStates
    <2> QED BY <1>1, <1>3, <2>2, <2>3, Starts
  <1>5. CASE Succeed(s) \/ Failing(s)
    <2>1. state[t] # Absent
      BY <1>1, Names DEF Core, SelfOk
    <2> QED BY <1>1, <1>3, <1>5, <2>1, Finishes DEF Succeed, Failing, UpdateIfNotTerminal, Terminal, TypeOK
  <1>6. CASE Inject(s)
    BY <1>3, <1>6, Stutters DEF Inject, schedVars
  <1> QED BY <1>4, <1>5, <1>6

LEMMA ParkInLedger ==
  ASSUME TypeOK, Core, Reading, Reading', NEW s \in Slot, ParkParent(s)
  PROVE  LedgerStep
  <1> DEFINE t == slot[s].task
             e == [slot[s] EXCEPT !.pc = "enqueue", !.parked = @ \/ state[slot[s].task] \notin Terminal]
  <1>1. /\ slot[s].pc = "park" /\ t \in Task /\ UNCHANGED <<waits, checker>>
        /\ UpdateIfNotTerminal(t, "Waiting") /\ slot' = [slot EXCEPT ![s] = e]
    BY TaskOfSlot, SlotFields DEF ParkParent, At, TypeOK
  <1>2. e.pc = "enqueue"
    BY SlotFields DEF Execution
  <1> HIDE DEF e
  <1>3. \A r \in Slot : SameView(r)
    <2>1. slot'[s] = e /\ \A r \in Slot : r # s => slot'[r] = slot[r]
      BY <1>1, SlotMove
    <2> QED BY <1>1, <1>2, <2>1 DEF SameView
  <1>4. Over(t) \/ state[t] = "Running"
    BY <1>1, OwnedState DEF OwningPc, DelegatingPc, Expected, Over
  <1>5. Parks(t)
    BY <1>1, <1>4 DEF UpdateIfNotTerminal, Over, Parks, OtherStates, Terminal, TypeOK
  <1>6. SameLists
    BY <1>1, <1>3, SameViews DEF SameLists
  <1>7. Ledger!Park(t)
    BY <1>1, <1>5, <1>6, ParksInLedger DEF Ledger!Park, SameLists
  <1> QED BY <1>1, <1>7 DEF LedgerStep, Ledger!Next

LEMMA ToolsInLedger ==
  ASSUME TypeOK, Core, MaxCalls \in {0, 1}, Reading, Reading', NEW s \in Slot, NEW c \in Task,
         Delegate(s, c) \/ Spawn(s, c) \/ CallAgent(s, c)
  PROVE  LedgerStep
  <1> DEFINE t == slot[s].task
  <1>1. PICK l \in {"child", "adopt", "cchild"} : ToolCall(s, c, l)
    BY DEF Delegate, Spawn, CallAgent
  <1>2. /\ slot[s].pc = "turn" /\ slot'[s].pc = l /\ t \in Task /\ c \in fresh
        /\ \A r \in Slot \ {s} : slot'[r] = slot[r]
    BY <1>1, ToolCallViews
  <1>3. checker' = checker
    BY <1>1 DEF ToolCall
  <1>4. \A r \in Slot : SameView(r)
    BY <1>2 DEF SameView
  <1>5. state[c] = Absent
    BY <1>2, NewTask
  <1>6. CASE Delegate(s, c)
    <2>1. \A u, d \in Task : Edge(u, d)' <=> Edge(u, d) \/ (u = t /\ d = c)
      BY <1>6 DEF Delegate, Edge
    <2>2. awaitsBar' = [awaitsBar EXCEPT ![t] = @ \cup {c}]
      <3> DEFINE f == [awaitsBar EXCEPT ![t] = @ \cup {c}]
      <3> HIDE DEF t
      <3>1. f \in [Task -> SUBSET Task] /\ awaitsBar' \in [Task -> SUBSET Task]
        BY <1>2 DEF Reading
      <3>2. \A u, d \in Task : d \in awaitsBar'[u] <=> d \in f[u]
        BY <1>2, <2>1 DEF Reading
      <3> HIDE DEF f
      <3>3. awaitsBar' = f
        BY <3>1, <3>2, SetFunctions
      <3> QED BY <3>3 DEF f
    <2>3. lifeBar[c] = "none" /\ lifeBar' = lifeBar
      BY <1>5, <1>6, SameLife DEF Delegate, Reading
    <2>4. inlineBar' = inlineBar /\ newsBar' = newsBar
      BY <1>3, <1>4, SameCalls
    <2>5. Ledger!Await(t, c)
      BY <2>2, <2>3, <2>4 DEF Ledger!Await
    <2> QED BY <1>2, <2>5 DEF LedgerStep, Ledger!Next
  <1>7. CASE Spawn(s, c)
    <2>1. state'[c] \in {"Queued", "Failed"} /\ OtherStates(c)
      BY <1>7 DEF Spawn, Enqueue, OtherStates, TypeOK
    <2>2. SameLists
      BY <1>3, <1>4, <1>7, SameViews DEF Spawn, SameLists
    <2> QED BY <1>5, <2>1, <2>2, Accepts
  <1>8. CASE CallAgent(s, c)
    <2>1. state'[c] = "Queued" /\ OtherStates(c)
      BY <1>8 DEF CallAgent, OtherStates, TypeOK
    <2>2. SameLists
      BY <1>3, <1>4, <1>8, SameViews DEF CallAgent, SameLists
    <2> QED BY <1>5, <2>1, <2>2, Accepts
  <1> QED BY <1>6, <1>7, <1>8

LEMMA ChildInLedger ==
  ASSUME TypeOK, Core, Reading, Reading', NEW s \in Slot, EnqueueChild(s) \/ CallStart(s)
  PROVE  LedgerStep
  <1> DEFINE c == slot[s].child
  <1>1. PICK l \in {"act", "cpark"} : Goto(s, l)
    BY DEF EnqueueChild, CallStart
  <1>2. \A r \in Slot : SameView(r)
    BY <1>1, GotoView DEF EnqueueChild, CallStart, At, Pc
  <1>3. SameLists
    BY <1>2, SameViews DEF EnqueueChild, CallStart, SameLists
  <1>4. CASE EnqueueChild(s)
    <2>1. c \in Task /\ state[c] = Absent
      BY <1>4 DEF EnqueueChild, At, Core, ChildOk, DelegatingPc
    <2>2. state'[c] \in {"Queued", "Failed"} /\ OtherStates(c)
      BY <1>4, <2>1 DEF EnqueueChild, Enqueue, OtherStates, TypeOK
    <2> QED BY <1>3, <2>1, <2>2, Accepts
  <1>5. CASE CallStart(s)
    <2>1. c \in Task /\ (Over(c) \/ state[c] = "Queued")
      BY <1>5 DEF CallStart, At, Core, ChildOk, BirthPc, CallingPc
    <2>2. OtherStates(c) /\ UpdateIfNotTerminal(c, "Running")
      BY <1>5, <2>1 DEF CallStart, UpdateIfNotTerminal, OtherStates, TypeOK
    <2>3. CASE Over(c)
      <3>1. state'[c] = state[c]
        BY <2>1, <2>2, <2>3 DEF UpdateIfNotTerminal, Over, TypeOK
      <3> QED BY <1>3, <2>1, <2>2, <3>1, Stutters DEF OtherStates
    <2>4. CASE state[c] = "Queued"
      <3>1. state'[c] = "Running"
        BY <2>1, <2>2, <2>4 DEF UpdateIfNotTerminal, Terminal, TypeOK
      <3> QED BY <1>3, <2>1, <2>2, <2>4, <3>1, Starts
    <2> QED BY <2>1, <2>3, <2>4
  <1> QED BY <1>4, <1>5

LEMMA CallInLedger ==
  ASSUME TypeOK, Core, Reading, Reading', NEW s \in Slot, NEW n \in Slot, CallPark(s, n)
  PROVE  LedgerStep
  <1> DEFINE t == slot[s].task
             c == slot[s].child
  <1>1. /\ slot[s].pc = "cpark" /\ slot[n].pc = "free" /\ s # n /\ UNCHANGED <<waits, checker>>
        /\ slot' = [slot EXCEPT ![s].pc = "await",
                                ![n] = [Free EXCEPT !.pc = "setup", !.caller = s,
                                                    !.task = slot[s].child]]
    BY DEF CallPark, NextSlot, At
  <1>2. t \in Task /\ c \in Task /\ state[c] # Absent
    BY <1>1, TaskOfSlot DEF Core, ChildOk, BirthPc, CallingPc
  <1>3. /\ slot'[s].pc = "await" /\ slot'[s].task = t /\ slot'[s].child = c /\ slot'[n].pc = "setup"
        /\ \A r \in Slot \ {s, n} : slot'[r] = slot[r]
    BY <1>1, SlotFields, FreeFields DEF TypeOK, Execution
  <1>4. Over(t) \/ state[t] = "Running"
    BY <1>1, OwnedState DEF OwningPc, CallingPc, BirthPc, Expected, Over
  <1>5. Parks(t)
    BY <1>2, <1>4 DEF CallPark, UpdateIfNotTerminal, Over, Parks, OtherStates, Terminal, TypeOK
  <1> HIDE DEF t, c
  <1>6. \A r \in Slot, u, d \in Task :
           /\ Calls(r, u, d)' <=> Calls(r, u, d) \/ (r = s /\ u = t /\ d = c)
           /\ Returned(r, u, d)' <=> Returned(r, u, d)
           /\ ToWake(r, u, d)' <=> ToWake(r, u, d)
    BY <1>1, <1>3 DEF Calls, Returned, ToWake
  <1>7. \A u, d \in Task : (Edge(u, d)' <=> Edge(u, d)) /\ (CheckerToWake(u, d)' <=> CheckerToWake(u, d))
    BY <1>1 DEF Edge, CheckerToWake
  <1>8. \A u, d \in Task : /\ Inlined(u, d)' <=> Inlined(u, d) \/ (u = t /\ d = c)
                           /\ Hears(u, d)' <=> Hears(u, d)
    BY <1>6, <1>7 DEF Inlined, Hears
  <1>9. inlineBar' = [inlineBar EXCEPT ![t] = @ \cup {c}]
    <2> DEFINE f == [inlineBar EXCEPT ![t] = @ \cup {c}]
    <2>1. f \in [Task -> SUBSET Task] /\ inlineBar' \in [Task -> SUBSET Task]
      BY <1>2 DEF Reading
    <2>2. \A u, d \in Task : d \in inlineBar'[u] <=> d \in f[u]
      BY <1>2, <1>8 DEF Reading
    <2> HIDE DEF f
    <2>3. inlineBar' = f
      BY <2>1, <2>2, SetFunctions
    <2> QED BY <2>3 DEF f
  <1>10. lifeBar[c] # "none"
    BY <1>2 DEF Reading, MaybeState, TaskState, Over, Parked, Terminal
  <1>11. Ledger!CallInline(t, c)
    BY <1>2, <1>5, <1>7, <1>8, <1>9, <1>10, ParksInLedger, SameAwaits, SameNews DEF Ledger!CallInline
  <1> QED BY <1>2, <1>11 DEF LedgerStep, Ledger!Next

LEMMA ReturnInLedger ==
  ASSUME TypeOK, Core, Reading, Reading', NEW s \in Slot, CallBack(s)
  PROVE  LedgerStep
  <1> DEFINE t == slot[s].task
             c == slot[s].child
  <1>1. /\ slot[s].pc = "back" /\ Goto(s, "hear") /\ UNCHANGED <<waits, checker>>
        /\ UpdateIfNotTerminal(t, "Running")
    BY DEF CallBack, At
  <1>2. t \in Task /\ c \in Task /\ rpc[c] # "none"
    BY <1>1, TaskOfSlot DEF Core, ChildOk, CallingPc
  <1>3. slot'[s].pc = "hear" /\ \A r \in Slot \ {s} : slot'[r] = slot[r]
    BY <1>1, SlotFields DEF Goto, TypeOK, Execution
  <1>4. Over(t) \/ state[t] = "Waiting"
    BY <1>1, OwnedState DEF OwningPc, CallingPc, Expected, Over
  <1>5. /\ OtherStates(t)
        /\ \/ state[t] \in Parked /\ state'[t] \in {"Queued", "Running"}
           \/ state[t] \notin Parked /\ state'[t] = state[t]
    BY <1>1, <1>2, <1>4 DEF UpdateIfNotTerminal, Over, OtherStates, Terminal, Parked, TypeOK
  <1>6. Returned(s, t, c) /\ \A u, d \in Task : Returned(s, u, d) => u = t /\ d = c
    BY <1>1 DEF Returned
  <1>7. \A r \in Slot : Returned(r, t, c) => r = s
    <2>1. Holds(s, c) /\ \A r \in Slot : Returned(r, t, c) => Holds(r, c)
      BY <1>1 DEF Returned, Holds, CallingPc
    <2> QED BY <1>2, <2>1 DEF Core, PairOk
  <1>8. ~CheckerToWake(t, c) /\ \A r \in Slot : ~ToWake(r, t, c)
    BY <1>2 DEF Core, TaskOk, Linked
  <1> HIDE DEF t, c
  <1>9. \A r \in Slot, u, d \in Task :
           /\ Calls(r, u, d)' <=> Calls(r, u, d)
           /\ Returned(r, u, d)' <=> Returned(r, u, d) /\ r # s
           /\ ToWake(r, u, d)' <=> ToWake(r, u, d)
    BY <1>1, <1>3 DEF Calls, Returned, ToWake
  <1>10. \A u, d \in Task : (Edge(u, d)' <=> Edge(u, d)) /\ (CheckerToWake(u, d)' <=> CheckerToWake(u, d))
    BY <1>1 DEF Edge, CheckerToWake
  <1>11. \A u, d \in Task : Hears(u, d)' <=> Hears(u, d) /\ ~(u = t /\ d = c)
    BY <1>6, <1>7, <1>8, <1>9, <1>10 DEF Hears
  <1>12. \A u, d \in Task : Inlined(u, d)' <=> Inlined(u, d)
    BY <1>9 DEF Inlined
  <1>13. Hears(t, c) /\ awaitsBar' = awaitsBar /\ inlineBar' = inlineBar
    BY <1>6, <1>10, <1>12, SameAwaits, SameInline DEF Hears
  <1> QED BY <1>2, <1>5, <1>11, <1>13, Delivers

LEMMA SettleInLedger ==
  ASSUME TypeOK, Core, Reading, Reading', NEW s \in Slot, Settle(s)
  PROVE  LedgerStep
  <1> DEFINE c == slot[s].task
             D == Dependents(waits, c)
             l == IF D = {} THEN AfterWake(s) ELSE "wake"
             e == [slot[s] EXCEPT !.todo = D, !.pc = l]
  <1>1. /\ slot[s].pc = "settle" /\ waits' = RemoveEdges(waits, {c}) /\ UNCHANGED <<state, checker>>
        /\ slot' = [slot EXCEPT ![s] = e]
    BY SlotFields DEF Settle, At, TypeOK
  <1>2. c \in Task /\ Over(c)
    BY <1>1, TaskOfSlot DEF Core, SelfOk, EndingPc
  <1>3. l \in {"wake", "inject", "close"} /\ (l # "wake" => D = {})
    BY DEF AfterWake
  <1> HIDE DEF l
  <1>4. e.pc = l /\ e.todo = D /\ e.task = c
    BY SlotFields DEF Execution
  <1> HIDE DEF e
  <1>5. slot'[s] = e /\ \A r \in Slot : r # s => slot'[r] = slot[r]
    BY <1>1, SlotMove
  <1>6. \A r \in Slot, u, d \in Task :
           /\ Calls(r, u, d)' <=> Calls(r, u, d)
           /\ Returned(r, u, d)' <=> Returned(r, u, d)
           /\ ToWake(r, u, d)' <=> ToWake(r, u, d) \/ (r = s /\ d = c /\ Edge(u, c))
    BY <1>1, <1>3, <1>4, <1>5 DEF Calls, Returned, ToWake, Dependents, Edge
  <1>7. \A u, d \in Task : CheckerToWake(u, d)' <=> CheckerToWake(u, d)
    BY <1>1 DEF CheckerToWake
  <1> HIDE DEF c
  <1>8. /\ \A u, d \in Task : Hears(u, d)' <=> Hears(u, d) \/ (d = c /\ Edge(u, c))
        /\ \A u, d \in Task : Inlined(u, d)' <=> Inlined(u, d)
    BY <1>6, <1>7 DEF Hears, Inlined
  <1>9. inlineBar' = inlineBar
    BY <1>8, SameInline
  <1> QED BY <1>1, <1>2, <1>8, <1>9, Reports

(* What a wake-up does to the state of a task.                             *)
LEMMA RequeueInLedger ==
  ASSUME TypeOK, NEW w \in Task, Requeue(w)
  PROVE  /\ OtherStates(w)
         /\ \/ state[w] \in Parked /\ state'[w] \in {"Queued", "Running"}
            \/ state[w] \notin Parked /\ state'[w] = state[w]
  BY DEF Requeue, OtherStates, TypeOK

(* Nobody is told twice of an end.                                         *)
LEMMA ToldOnce ==
  ASSUME TypeOK, Core, NEW w \in Task, NEW c \in Task, Linked(w, c)
  PROVE  \A r \in Slot : ~Returned(r, w, c)
  <1>1. rpc[c] = "none"
    BY DEF Core, TaskOk
  <1> QED BY <1>1 DEF Core, ChildOk, CallingPc, Returned

LEMMA WakeInLedger ==
  ASSUME TypeOK, Core, Reading, Reading', NEW s \in Slot, NEW w \in Task, Wake(s, w)
  PROVE  LedgerStep
  <1> DEFINE c == slot[s].task
             l == IF slot[s].todo = {w} THEN AfterWake(s) ELSE slot[s].pc
             e == [slot[s] EXCEPT !.todo = @ \ {w}, !.pc = l]
  <1>1. /\ slot[s].pc = "wake" /\ w \in slot[s].todo /\ UNCHANGED <<waits, checker>>
        /\ slot' = [slot EXCEPT ![s] = e] /\ Requeue(w)
    BY SlotFields DEF Wake, At, TypeOK
  <1>2. c \in Task
    BY <1>1, TaskOfSlot
  <1>3. l \in {"wake", "inject", "close"} /\ (l # "wake" => slot[s].todo = {w})
    BY <1>1 DEF AfterWake
  <1> HIDE DEF l
  <1>4. e.pc = l /\ e.todo = slot[s].todo \ {w} /\ e.task = c
    BY SlotFields DEF Execution
  <1> HIDE DEF e
  <1>5. slot'[s] = e /\ \A r \in Slot : r # s => slot'[r] = slot[r]
    BY <1>1, SlotMove
  <1>6. \A r \in Slot, u, d \in Task :
           /\ Calls(r, u, d)' <=> Calls(r, u, d)
           /\ Returned(r, u, d)' <=> Returned(r, u, d)
           /\ ToWake(r, u, d)' <=> ToWake(r, u, d) /\ ~(r = s /\ u = w)
    BY <1>1, <1>3, <1>4, <1>5 DEF Calls, Returned, ToWake
  <1>7. \A u, d \in Task : (Edge(u, d)' <=> Edge(u, d)) /\ (CheckerToWake(u, d)' <=> CheckerToWake(u, d))
    BY <1>1 DEF Edge, CheckerToWake
  <1>8. ToWake(s, w, c) /\ \A d \in Task : ToWake(s, w, d) => d = c
    BY <1>1 DEF ToWake
  <1> HIDE DEF c
  <1>9. /\ ~CheckerToWake(w, c) /\ \A r \in Slot : ToWake(r, w, c) => r = s
    BY <1>2, <1>8 DEF Core, PlaceOk
  <1>10. \A r \in Slot : ~Returned(r, w, c)
    BY <1>2, <1>8, ToldOnce DEF Linked
  <1>11. \A u, d \in Task : Hears(u, d)' <=> Hears(u, d) /\ ~(u = w /\ d = c)
    BY <1>6, <1>7, <1>8, <1>9, <1>10 DEF Hears
  <1>12. \A u, d \in Task : Inlined(u, d)' <=> Inlined(u, d)
    BY <1>6 DEF Inlined
  <1>13. Hears(w, c) /\ awaitsBar' = awaitsBar /\ inlineBar' = inlineBar
    BY <1>7, <1>8, <1>12, SameAwaits, SameInline DEF Hears
  <1> QED BY <1>1, <1>2, <1>11, <1>13, RequeueInLedger, Delivers

LEMMA ExecuteInLedger ==
  ASSUME TypeOK, Core, MaxCalls \in {0, 1}, Reading, Reading', NEW s \in Slot, Execute(s)
  PROVE  LedgerStep
  <1>1. CASE Setup(s) \/ Abort(s) \/ Quit(s) \/ Answer(s) \/ EndBatch(s) \/ DelegateChild(s)
             \/ SpawnAdopt(s) \/ CallChild(s) \/ CallHear(s) \/ Fail(s)
    BY <1>1, LoopInLedger
  <1>2. CASE Begin(s) \/ Succeed(s) \/ Failing(s) \/ Inject(s)
    BY <1>2, EndsInLedger, StatesInLedger
  <1>3. CASE Pause(s) \/ Close(s)
    BY <1>3, EndsInLedger DEF Pause, Close
  <1>4. CASE ParkParent(s) \/ EnqueueChild(s) \/ CallStart(s) \/ CallBack(s) \/ Settle(s)
    BY <1>4, ParkInLedger, ChildInLedger, ReturnInLedger, SettleInLedger
  <1>5. CASE \E c \in Task : Delegate(s, c) \/ Spawn(s, c) \/ CallAgent(s, c)
    BY <1>5, ToolsInLedger
  <1>6. CASE \E r \in Slot : CallPark(s, r)
    BY <1>6, CallInLedger
  <1>7. CASE \E w \in Task : Wake(s, w)
    BY <1>7, WakeInLedger
  <1> QED BY <1>1, <1>2, <1>3, <1>4, <1>5, <1>6, <1>7 DEF Execute

-----------------------------------------------------------------------------
(* The steps of the others.                                                *)

LEMMA StillViews ==
  ASSUME slot' = slot
  PROVE  /\ \A r \in Slot : SameView(r)
         /\ \A r \in Slot, u, d \in Task : /\ Calls(r, u, d)' <=> Calls(r, u, d)
                                           /\ Returned(r, u, d)' <=> Returned(r, u, d)
                                           /\ ToWake(r, u, d)' <=> ToWake(r, u, d)
         /\ \A u, d \in Task : Inlined(u, d)' <=> Inlined(u, d)
  BY DEF SameView, Calls, Returned, ToWake, Inlined

LEMMA CheckInLedger ==
  ASSUME TypeOK, Core, Reading, Reading', Check
  PROVE  LedgerStep
  <1> USE DEF schedVars, runVars, ctxVars
  <1>1. slot' = slot
    BY DEF Check, CheckerSettle, CheckerWake, CheckerClose
  <1>2. inlineBar' = inlineBar
    BY <1>1, StillViews, SameInline
  <1>3. CASE \E t \in Task : CheckerSettle(t)
    <2>1. PICK t \in Task : CheckerSettle(t)
      BY <1>3
    <2>2. /\ Over(t) /\ waits' = RemoveEdges(waits, {t}) /\ state' = state
          /\ checker.pc = "next" /\ checker'.pc = "wake" /\ checker'.task = t
          /\ checker'.waiters = Dependents(waits, t)
      BY <2>1 DEF CheckerSettle, Core, CheckerOk
    <2>3. \A u, d \in Task : ~CheckerToWake(u, d) /\ (CheckerToWake(u, d)' <=> d = t /\ Edge(u, t))
      BY <2>2 DEF CheckerToWake, Edge, Dependents
    <2>4. \A u, d \in Task : Hears(u, d)' <=> Hears(u, d) \/ (d = t /\ Edge(u, t))
      BY <1>1, <2>3, StillViews DEF Hears
    <2> QED BY <1>2, <2>2, <2>4, Reports
  <1>4. CASE \E w \in Task : CheckerWake(w)
    <2>1. PICK w \in Task : CheckerWake(w)
      BY <1>4
    <2> DEFINE c == checker.task
    <2>2. /\ checker.pc = "wake" /\ w \in checker.waiters /\ Requeue(w) /\ waits' = waits
          /\ checker' = [checker EXCEPT !.waiters = @ \ {w}] /\ c \in Task
      BY <2>1 DEF CheckerWake, Core, CheckerOk
    <2>3. CheckerToWake(w, c) /\ \A d \in Task : CheckerToWake(w, d) => d = c
      BY <2>2 DEF CheckerToWake
    <2>4. checker'.pc = "wake" /\ checker'.task = c /\ checker'.waiters = checker.waiters \ {w}
      BY <2>2 DEF TypeOK
    <2>5. \A u, d \in Task : CheckerToWake(u, d)' <=> CheckerToWake(u, d) /\ u # w
      BY <2>2, <2>4 DEF CheckerToWake
    <2> HIDE DEF c
    <2>6. \A r \in Slot : ~ToWake(r, w, c) /\ ~Returned(r, w, c)
      BY <2>2, <2>3, ToldOnce DEF Core, PlaceOk, Linked
    <2>7. \A u, d \in Task : Hears(u, d)' <=> Hears(u, d) /\ ~(u = w /\ d = c)
      BY <1>1, <2>3, <2>5, <2>6, StillViews DEF Hears
    <2>8. \A u, d \in Task : Edge(u, d)' <=> Edge(u, d)
      BY <2>2 DEF Edge
    <2>9. Hears(w, c) /\ awaitsBar' = awaitsBar
      BY <2>3, <2>8, SameAwaits DEF Hears
    <2> QED BY <1>2, <2>2, <2>7, <2>9, RequeueInLedger, Delivers
  <1>5. CASE CheckerClose
    <2>1. UNCHANGED <<state, waits>> /\ checker.waiters = {} /\ checker'.pc \in {"idle", "next"}
      BY <1>5 DEF CheckerClose, TypeOK
    <2>2. \A u, d \in Task : ~CheckerToWake(u, d) /\ ~CheckerToWake(u, d)'
      BY <2>1 DEF CheckerToWake
    <2>3. \A u, d \in Task : (Edge(u, d)' <=> Edge(u, d)) /\ (Hears(u, d)' <=> Hears(u, d))
      BY <1>1, <2>1, <2>2, StillViews DEF Edge, Hears
    <2> QED BY <1>2, <2>1, <2>3, SameAwaits, SameNews, Stutters DEF SameLists
  <1> QED BY <1>3, <1>4, <1>5 DEF Check

LEMMA OtherInLedger ==
  ASSUME TypeOK, Core, Reading, Reading',
         \/ \E t \in Task : Submit(t) \/ Cancel(t) \/ SweepCall(t)
         \/ Executor
         \/ \E S \in SUBSET Task : TimeOut(S)
         \/ Cascade
         \/ UNCHANGED vars
  PROVE  LedgerStep
  <1> USE DEF schedVars, ctxVars, runVars
  <1>1. CASE \E s \in Slot, t \in Task : Dispatch(s, t)
    <2>1. PICK s \in Slot, t \in Task : Dispatch(s, t)
      BY <1>1
    <2> DEFINE e == [Free EXCEPT !.pc = "begin", !.task = t]
    <2>2. e.pc = "begin" /\ slot[s].pc = "free" /\ slot' = [slot EXCEPT ![s] = e]
      BY <2>1, FreeFields DEF Dispatch, NextSlot, At, Execution
    <2> HIDE DEF e
    <2>3. slot'[s] = e /\ \A r \in Slot : r # s => slot'[r] = slot[r]
      BY <2>2, SlotMove
    <2>4. \A r \in Slot : SameView(r)
      BY <2>2, <2>3 DEF SameView
    <2> QED BY <2>1, <2>4, SameViews, Stutters DEF Dispatch, SameLists
  <1>2. CASE \E t \in Task : Submit(t)
    <2>1. PICK t \in Task : Submit(t)
      BY <1>2
    <2>2. state[t] = Absent
      BY <2>1, NewTask DEF Submit
    <2>3. state'[t] \in {"Queued", "Failed"} /\ OtherStates(t)
      BY <2>1, <2>2 DEF Submit, Enqueue, OtherStates, TypeOK
    <2>4. SameLists
      BY <2>1, StillViews, SameViews DEF Submit, SameLists
    <2> QED BY <2>2, <2>3, <2>4, Accepts
  <1>3. CASE \E t \in Task : Cancel(t)
    <2>1. SameLists
      BY <1>3, StillViews, SameViews DEF Cancel, SameLists
    <2> QED BY <1>3, <2>1, Finishes DEF Cancel, CancelTask, Terminal, TypeOK
  <1>4. CASE \E t \in Task : CancelCascade(t)
    <2>1. SameLists
      BY <1>4, StillViews, SameViews DEF CancelCascade, SameLists
    <2> QED BY <1>4, <2>1, Finishes DEF CancelCascade, CancelTask, Terminal, TypeOK
  <1>5. CASE (\E t \in Task : SweepCall(t)) \/ IdleTick \/ CancelClose \/ UNCHANGED vars
    <2>1. UNCHANGED <<state, slot, waits, checker>>
      BY <1>5 DEF SweepCall, IdleTick, CancelClose, vars
    <2> QED BY <2>1, StillViews, SameViews, Stutters DEF SameLists
  <1>6. CASE \E S \in SUBSET Task : TimeOut(S)
    <2>1. PICK S \in SUBSET Task : TimeOut(S)
      BY <1>6
    <2>2. /\ UNCHANGED <<slot, waits>> /\ checker.pc = "idle" /\ checker'.pc = "next"
      BY <2>1 DEF TimeOut, TypeOK
    <2>3. \A u, d \in Task : ~CheckerToWake(u, d) /\ ~CheckerToWake(u, d)'
      BY <2>2 DEF CheckerToWake
    <2>4. \A u, d \in Task : (Edge(u, d)' <=> Edge(u, d)) /\ (Hears(u, d)' <=> Hears(u, d))
      BY <2>2, <2>3, StillViews DEF Edge, Hears
    <2>5. SameLists
      BY <2>2, <2>4, StillViews, SameInline, SameAwaits, SameNews DEF SameLists
    <2>6. \A u \in Task : state'[u] = state[u] \/ (state[u] # Absent /\ state'[u] \in Terminal)
      BY <2>1 DEF TimeOut, Overdue, Terminal, Absent
    <2> QED BY <2>5, <2>6, Finishes
  <1> QED BY <1>1, <1>2, <1>3, <1>4, <1>5, <1>6 DEF Executor, Cascade

-----------------------------------------------------------------------------
LEMMA InitInLedger == Init => Ledger!Init
  <1> SUFFICES ASSUME Init PROVE Ledger!Init
    OBVIOUS
  <1>1. Reading
    BY InitInv, ReadingHolds DEF IInv
  <1>2. \A s \in Slot : slot[s].pc = "free"
    BY FreeFields DEF Init
  <1>3. \A t, c \in Task : ~Edge(t, c) /\ ~Inlined(t, c) /\ ~Hears(t, c)
    BY <1>2 DEF Init, Edge, Inlined, Calls, Hears, CheckerToWake, ToWake, Returned
  <1>4. \A t \in Task : lifeBar[t] = "none" /\ awaitsBar[t] = {} /\ inlineBar[t] = {} /\ newsBar[t] = {}
    BY <1>1, <1>3 DEF Reading, Init
  <1> QED BY <1>1, <1>4 DEF Ledger!Init, Reading

(* Whatever the executor, the loops, the timeout checker and an operator   *)
(* do in whatever order, a task seen from outside follows the ledger: an   *)
(* end is final, and a parked task goes on only when it hears that a task  *)
(* it waits for has ended or that an agent it called is back.              *)
THEOREM TasksFollowLedger ==
  ASSUME MaxCalls \in {0, 1}
  PROVE  Spec => FollowsLedger
  <1>1. ASSUME IInv, IInv', [Next]_vars
        PROVE  [Ledger!Next]_(Ledger!ledgerVars)
    <2>1. Reading /\ Reading' /\ TypeOK /\ Core
      BY <1>1, ReadingHolds, ReadingThen DEF IInv
    <2>2. LedgerStep
      BY <1>1, <2>1, ExecuteInLedger, CheckInLedger, OtherInLedger DEF Next
    <2> QED BY <2>2 DEF LedgerStep
  <1> QED BY <1>1, Invariant, InitInLedger, PTL DEF Spec, FollowsLedger, Ledger!Steps

=============================================================================
