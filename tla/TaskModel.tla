----------------------------- MODULE TaskModel -----------------------------
(***************************************************************************)
(* What every module about the kernel's tasks shares: the life-cycle       *)
(* states, the owner and the dispatch rank of a task, the delegation       *)
(* graph, and the per-agent queue count.                                   *)
(***************************************************************************)
EXTENDS Integers, FiniteSets

CONSTANTS
    Task,               \* task identifiers the instance may ever mint
    Agent,              \* registered agents
    AgentOf,            \* the agent a task runs as
    Rank,               \* the order of dispatch: a smaller rank goes first
    MaxQueuedPerAgent   \* queue-depth cap of an agent; 0 disables it

(* A task runs as one agent for its whole life.                            *)
ASSUME AgentOfAssumption == AgentOf \in [Task -> Agent]

(* Rank folds (priority descending, created_at ascending) into one number; *)
(* timestamps make it injective.                                           *)
ASSUME RankAssumption ==
    /\ Rank \in [Task -> Nat]
    /\ \A t, u \in Task : Rank[t] = Rank[u] => t = u

ASSUME CapAssumption == MaxQueuedPerAgent \in Nat

(* The life-cycle states, and the absence of a task from a map or a table. *)
TaskState ==
    {"Queued", "Running", "Waiting", "Suspended",
     "Complete", "Failed", "Cancelled"}
Terminal == {"Complete", "Failed", "Cancelled"}
Parked   == {"Waiting", "Suspended"}
Absent   == "Absent"
MaybeState == TaskState \cup {Absent}

(* Heap order: t is popped before u.                                       *)
Ahead(t, u) == Rank[t] < Rank[u]

(* Tasks of an agent that a map m shows as Queued.                         *)
QueuedOf(m, a) == {t \in Task : m[t] = "Queued" /\ AgentOf[t] = a}

(* Whether a fresh task of agent a is refused under map m.                 *)
AtCap(m, a) ==
    /\ MaxQueuedPerAgent > 0
    /\ Cardinality(QueuedOf(m, a)) >= MaxQueuedPerAgent

----------------------------------------------------------------------------
(* The delegation graph: <<waiter, dep>> in E means waiter waits on dep.   *)

Dependents(E, t) == {w \in Task : <<w, t>> \in E}

(* Mutant: forgets the edges that lead to a removed task.                  *)
RemoveOutEdges(E, S) == {e \in E : e[1] \notin S}

RemoveEdges(E, S) == {e \in E : e[1] \notin S /\ e[2] \notin S}

(* to is reached from from: to is in every set that holds from and is      *)
(* closed under the edges.                                                 *)
Reaches(E, from, to) ==
    \A S \in SUBSET Task :
        (from \in S /\ (\A e \in E : e[1] \in S => e[2] \in S)) => to \in S

WouldCreateCycle(E, from, to) == from = to \/ Reaches(E, to, from)

=============================================================================
