----------------------------- MODULE TaskLedger -----------------------------
(***************************************************************************)
(* What the kernel promises about a task to whoever submitted it, without  *)
(* loops, queues or contexts.  A task is pending, active or parked until   *)
(* it ends, and an end is final.  A parked task goes on only on news: a    *)
(* task it waits for has ended, or an agent it called inline has come      *)
(* back.  News is always delivered.                                        *)
(***************************************************************************)
EXTENDS FiniteSets

CONSTANTS Task      \* task identifiers

VARIABLES
    life,       \* where each task is in its life
    awaits,     \* the tasks each task waits for
    inline,     \* the tasks each task has called and whose return it awaits
    news        \* the tasks whose end or return each task has yet to hear of

ledgerVars == <<life, awaits, inline, news>>

Life == {"none", "pending", "active", "parked", "ended"}

TypeOK ==
    /\ life \in [Task -> Life]
    /\ awaits \in [Task -> SUBSET Task]
    /\ inline \in [Task -> SUBSET Task]
    /\ news \in [Task -> SUBSET Task]

Init ==
    /\ life = [t \in Task |-> "none"]
    /\ awaits = [t \in Task |-> {}]
    /\ inline = [t \in Task |-> {}]
    /\ news = [t \in Task |-> {}]

(* A new task is accepted, or refused, which ends it.                      *)
Accept(t) ==
    /\ life[t] = "none"
    /\ \E l \in {"pending", "ended"} : life' = [life EXCEPT ![t] = l]
    /\ UNCHANGED <<awaits, inline, news>>

Start(t) ==
    /\ life[t] = "pending"
    /\ life' = [life EXCEPT ![t] = "active"]
    /\ UNCHANGED <<awaits, inline, news>>

(* t will wait for c, which has not begun.                                 *)
Await(t, c) ==
    /\ life[c] = "none"
    /\ awaits' = [awaits EXCEPT ![t] = @ \cup {c}]
    /\ UNCHANGED <<life, inline, news>>

(* An active task parks; one that has ended stays ended.                   *)
Parking(t) ==
    /\ life[t] \in {"active", "ended"}
    /\ life' = [life EXCEPT ![t] = IF @ = "active" THEN "parked" ELSE @]

Park(t) ==
    /\ Parking(t)
    /\ UNCHANGED <<awaits, inline, news>>

CallInline(t, c) ==
    /\ Parking(t)
    /\ life[c] # "none"
    /\ inline' = [inline EXCEPT ![t] = @ \cup {c}]
    /\ UNCHANGED <<awaits, news>>

(* Tasks end, for whatever reason.                                         *)
Finish ==
    /\ life' \in [Task -> Life]
    /\ \A t \in Task :
          life'[t] # life[t] => life[t] # "none" /\ life'[t] = "ended"
    /\ UNCHANGED <<awaits, inline, news>>

(* c has ended: whoever waits for it is to hear of it.                     *)
Report(c) ==
    /\ life[c] = "ended"
    /\ news' = [w \in Task |-> IF c \in awaits[w] THEN news[w] \cup {c}
                                                  ELSE news[w]]
    /\ awaits' = [w \in Task |-> IF w = c THEN {} ELSE awaits[w] \ {c}]
    /\ UNCHANGED <<life, inline>>

(* The call of c by t returns, whether or not c has ended.                 *)
Return(t, c) ==
    /\ c \in inline[t]
    /\ inline' = [inline EXCEPT ![t] = @ \ {c}]
    /\ news' = [news EXCEPT ![t] = @ \cup {c}]
    /\ UNCHANGED <<life, awaits>>

(* t hears of c; if it is parked it goes on.                               *)
Deliver(t, c) ==
    /\ c \in news[t]
    /\ news' = [news EXCEPT ![t] = @ \ {c}]
    /\ \/ /\ life[t] = "parked"
          /\ \E l \in {"pending", "active"} : life' = [life EXCEPT ![t] = l]
       \/ /\ life[t] # "parked"
          /\ UNCHANGED life
    /\ UNCHANGED <<awaits, inline>>

Next ==
    \/ \E t \in Task :
          \/ Accept(t) \/ Start(t) \/ Park(t) \/ Report(t)
          \/ \E c \in Task : Await(t, c) \/ CallInline(t, c) \/ Return(t, c)
                             \/ Deliver(t, c)
    \/ Finish

Fairness == \A t, c \in Task : WF_ledgerVars(Deliver(t, c))

Steps == Init /\ [][Next]_ledgerVars

Spec == Steps /\ Fairness

=============================================================================
