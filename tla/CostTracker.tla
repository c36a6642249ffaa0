---------------------------- MODULE CostTracker ----------------------------
(***************************************************************************)
(* The daily budget of one agent: counters that concurrent calls of the    *)
(* model check, roll and add to with atomics under a read lock of the map  *)
(* of agents; the snapshots of them that are cached and written to the     *)
(* table after the lock is released; and the agent's connection, which     *)
(* takes the counters in and out of the map under the write lock.  The     *)
(* counters of tokens, cost and tools are one here, the limit is the hard  *)
(* one, and alerts are left out.  Each action touches one atomic; atomics  *)
(* are read in program order.                                              *)
(***************************************************************************)
EXTENDS Naturals, FiniteSets

CONSTANTS
    Caller,         \* bound: calls of the model at a time
    Operator,       \* who connects and disconnects the agent
    None,
    Limit,          \* max_tokens_per_day
    MaxUsage,       \* the most tokens that one call uses
    MaxVersion,     \* bound: snapshots
    MaxPeriod,      \* bound: days
    MaxConnects,    \* bound: connections between crashes
    MaxCrashes      \* bound: crashes

Snapshot == [tokens : Nat, start : Nat, version : Nat]
State == Snapshot

ASSUME NameAssumption == None \notin Snapshot /\ Operator \notin Caller
ASSUME CallerAssumption == IsFiniteSet(Caller)
ASSUME BoundAssumption ==
    /\ {Limit, MaxUsage} \subseteq Nat \ {0}
    /\ {MaxVersion, MaxPeriod, MaxConnects, MaxCrashes} \subseteq Nat

VARIABLES
    now,        \* the clock, in periods
    agent,      \* AgentCostState of the agent, None while it is not connected
    cache,      \* persisted_snapshots: the snapshot of the agent, or None
    row,        \* its row of cost_snapshots, or None
    call,       \* where each caller and the operator is
    count       \* connections since the last crash and in all, crashes

vars == <<now, agent, cache, row, call, count>>

Proc == Caller \cup {Operator}

(* why: what the roll is part of.  time, seen: the clock and the period    *)
(* that it read.  snap: what is to be persisted.                           *)
Idle == [at |-> "idle", why |-> "check", time |-> 0, seen |-> 0, rolled |-> FALSE,
         used |-> 0, snap |-> [tokens |-> 0, start |-> 0, version |-> 0]]

At(c, l) == call[c].at = l
Goto(c, l) == call' = [call EXCEPT ![c].at = l]
Return(c) == call' = [call EXCEPT ![c] = Idle]

Init ==
    /\ now = 0
    /\ agent = None
    /\ cache = None
    /\ row = None
    /\ call = [c \in Proc |-> Idle]
    /\ count = [connect |-> 0, all |-> 0, crash |-> 0]

(* Who holds the read lock of agents.                                      *)
InSection(c) == call[c].at \in {"look", "swap", "zero", "read", "add", "version", "tokens", "start"}
Unlocked == \A c \in Proc : ~InSection(c)

-----------------------------------------------------------------------------
(* maybe_roll_period.                                                      *)

(* Also a period that starts later than the time that was read is over.    *)
PeriodExpired(time, start) == time # start

Enter(c, why, used, l) ==
    call' = [call EXCEPT ![c] = [Idle EXCEPT !.at = l, !.why = why, !.used = used, !.time = now]]

AfterRoll(c) == IF call[c].why = "check" THEN "read" ELSE "add"

Look(c) ==
    /\ At(c, "look")
    /\ call' = [call EXCEPT ![c].seen = agent.start,
                            ![c].at = IF PeriodExpired(call[c].time, agent.start)
                                      THEN "swap" ELSE AfterRoll(c)]
    /\ UNCHANGED <<now, agent, cache, row, count>>

(* compare_exchange of the period's start: one caller wins.                *)
Swap(c) ==
    /\ At(c, "swap")
    /\ IF agent.start = call[c].seen
       THEN /\ agent' = [agent EXCEPT !.start = call[c].time]
            /\ call' = [call EXCEPT ![c].at = "zero", ![c].rolled = TRUE]
       ELSE /\ call' = [call EXCEPT ![c].at = AfterRoll(c), ![c].rolled = TRUE]
            /\ UNCHANGED agent
    /\ UNCHANGED <<now, cache, row, count>>

Zero(c) ==
    /\ At(c, "zero")
    /\ agent' = [agent EXCEPT !.tokens = 0]
    /\ Goto(c, AfterRoll(c))
    /\ UNCHANGED <<now, cache, row, count>>

-----------------------------------------------------------------------------
(* check_budget, before a call of the model.                               *)

(* Mutant: the period is rolled only where usage is recorded.              *)
CheckWithoutRoll(c) ==
    /\ c \in Caller /\ At(c, "idle")
    /\ agent # None
    /\ Enter(c, "check", 0, "read")
    /\ UNCHANGED <<now, agent, cache, row, count>>

Check(c) ==
    /\ c \in Caller /\ At(c, "idle")
    /\ agent # None
    /\ Enter(c, "check", 0, "look")
    /\ UNCHANGED <<now, agent, cache, row, count>>

(* Mutant: the limit is enforced only after the call.                      *)
AdmitAll(c) == TRUE

(* A caller that met the end of a period is let in without a look.         *)
Admitted(c) == call[c].rolled \/ agent.tokens < Limit

Read(c) ==
    /\ At(c, "read")
    /\ IF Admitted(c) THEN Goto(c, "infer") ELSE Return(c)
    /\ UNCHANGED <<now, agent, cache, row, count>>

(* An agent that is not tracked has no budget: its adapter is there before *)
(* it is registered, and loops keep it after a disconnection.              *)
Untracked(c) ==
    /\ c \in Caller /\ At(c, "idle")
    /\ agent = None /\ count.connect > 0
    /\ Goto(c, "infer")
    /\ UNCHANGED <<now, agent, cache, row, count>>

(* The provider fails and nothing is recorded, or the agent is gone by now. *)
InferFails(c) ==
    /\ At(c, "infer")
    /\ Return(c)
    /\ UNCHANGED <<now, agent, cache, row, count>>

-----------------------------------------------------------------------------
(* record_inference_with_cost, record_tool_call.                           *)

Record(c) == \E used \in 1..MaxUsage :
    /\ At(c, "infer")
    /\ agent # None
    /\ agent.version < MaxVersion
    /\ Enter(c, "record", used, "look")
    /\ UNCHANGED <<now, agent, cache, row, count>>

Add(c) ==
    /\ At(c, "add")
    /\ agent' = [agent EXCEPT !.tokens = @ + call[c].used]
    /\ Goto(c, "version")
    /\ UNCHANGED <<now, cache, row, count>>

(* next_persisted_snapshot: the version first, then the counters.          *)
FetchVersion(c) ==
    /\ At(c, "version")
    /\ agent' = [agent EXCEPT !.version = @ + 1]
    /\ call' = [call EXCEPT ![c].snap.version = agent.version + 1, ![c].at = "tokens"]
    /\ UNCHANGED <<now, cache, row, count>>

LoadTokens(c) ==
    /\ At(c, "tokens")
    /\ call' = [call EXCEPT ![c].snap.tokens = agent.tokens, ![c].at = "start"]
    /\ UNCHANGED <<now, agent, cache, row, count>>

(* The lock is released after it.                                          *)
LoadStart(c) ==
    /\ At(c, "start")
    /\ call' = [call EXCEPT ![c].snap.start = agent.start, ![c].at = "cache"]
    /\ UNCHANGED <<now, agent, cache, row, count>>

-----------------------------------------------------------------------------
(* persist_snapshot, by callers and by the operator.                       *)

CacheSnapshot(c) ==
    /\ At(c, "cache")
    /\ cache' = call[c].snap
    /\ Goto(c, "store")
    /\ UNCHANGED <<now, agent, row, count>>

(* Mutant: the last write wins.                                            *)
StoreAlways(c) ==
    /\ At(c, "store")
    /\ row' = call[c].snap
    /\ Return(c)
    /\ UNCHANGED <<now, agent, cache, count>>

(* upsert_cost_snapshot: an older version leaves the row alone.            *)
Store(c) ==
    /\ At(c, "store")
    /\ row' = IF row = None \/ call[c].snap.version >= row.version THEN call[c].snap ELSE row
    /\ Return(c)
    /\ UNCHANGED <<now, agent, cache, count>>

-----------------------------------------------------------------------------
(* register_agent and unregister_agent.                                    *)

(* What the cache holds leaves it; the table is asked if it holds nothing. *)
Connect ==
    /\ At(Operator, "idle")
    /\ agent = None
    /\ count.connect < MaxConnects
    /\ count' = [count EXCEPT !.connect = @ + 1, !.all = @ + 1]
    /\ IF cache # None
       THEN /\ call' = [call EXCEPT ![Operator].snap = cache, ![Operator].at = "insert"]
            /\ cache' = None
       ELSE /\ Goto(Operator, "load")
            /\ UNCHANGED cache
    /\ UNCHANGED <<now, agent, row>>

Fresh == [tokens |-> 0, start |-> now, version |-> 0]

Load ==
    /\ At(Operator, "load")
    /\ call' = [call EXCEPT ![Operator].snap = IF row = None THEN Fresh ELSE row,
                            ![Operator].at = "insert"]
    /\ UNCHANGED <<now, agent, cache, row, count>>

Insert ==
    /\ At(Operator, "insert")
    /\ Unlocked
    /\ agent' = call[Operator].snap
    /\ Return(Operator)
    /\ UNCHANGED <<now, cache, row, count>>

(* Mutant: the state is removed under those who use it.                    *)
RemovableInUse == TRUE

Removable == Unlocked

(* The state that was removed is the operator's alone.                     *)
Disconnect ==
    /\ At(Operator, "idle")
    /\ agent # None
    /\ Removable
    /\ agent' = None
    /\ call' = [call EXCEPT ![Operator].snap = [agent EXCEPT !.version = @ + 1],
                            ![Operator].at = "cache"]
    /\ UNCHANGED <<now, cache, row, count>>

-----------------------------------------------------------------------------
(* A crash, and the boot's restore_from_store.                             *)
Crash ==
    /\ count.crash < MaxCrashes
    /\ count' = [count EXCEPT !.connect = 0, !.crash = @ + 1]
    /\ agent' = None
    /\ cache' = row
    /\ call' = [c \in Proc |-> Idle]
    /\ UNCHANGED <<now, row>>

Tick ==
    /\ now < MaxPeriod
    /\ now' = now + 1
    /\ UNCHANGED <<agent, cache, row, call, count>>

CallStep(c) ==
    \/ Look(c) \/ Swap(c) \/ Zero(c) \/ Read(c)
    \/ Add(c) \/ FetchVersion(c) \/ LoadTokens(c) \/ LoadStart(c)
    \/ CacheSnapshot(c) \/ Store(c)

Next ==
    \/ \E c \in Proc : CallStep(c)
    \/ \E c \in Caller : Check(c) \/ Untracked(c) \/ InferFails(c) \/ Record(c)
    \/ Connect \/ Load \/ Insert \/ Disconnect
    \/ Crash \/ Tick

(* The runtime polls calls that are on their way, and days go by.          *)
Fairness ==
    /\ \A c \in Proc : WF_vars(CallStep(c))
    /\ WF_vars(Tick)

Spec == Init /\ [][Next]_vars

FairSpec == Spec /\ Fairness

-----------------------------------------------------------------------------
TypeOK ==
    /\ now \in 0..MaxPeriod
    /\ agent \in State \cup {None}
    /\ {cache, row} \subseteq Snapshot \cup {None}
    /\ \A c \in Proc :
          /\ call[c].at \in {"idle", "look", "swap", "zero", "read", "infer", "add", "version",
                             "tokens", "start", "cache", "store", "load", "insert"}
          /\ call[c].snap \in Snapshot
          /\ InSection(c) => agent # None
    /\ count \in [connect : 0..MaxConnects, all : Nat, crash : 0..MaxCrashes]

(* Calls that have counted their usage and not yet written a snapshot.     *)
Unsaved(c) == call[c].at \in {"version", "tokens", "start", "cache", "store"}

(* Somebody is between the swap of the period and the reset of the counter. *)
Rolling == \E c \in Caller : At(c, "zero")

(* Snapshots are made and written in any order, next to rolls of the       *)
(* period, and yet the row is never behind: once every call that counted   *)
(* has written, the row holds at least the agent's usage, under the period *)
(* it was used in, so that a crash neither loses usage nor takes it for    *)
(* yesterday's.  (Until the agent is connected a second time in a boot:    *)
(* calls of the former connection then write next to the new one's.)       *)
StoredUsageCovers ==
    agent # None /\ count.connect <= 1 /\ (\A c \in Proc : ~Unsaved(c)) =>
        \/ agent.tokens = 0
        \/ /\ row # None
           /\ agent.tokens <= row.tokens
           /\ row.start = agent.start \/ Rolling

(* The gate lets calls overshoot by what is in flight and no more.  In     *)
(* each connection of the agent each of the N callers can be in flight     *)
(* when the limit is reached.  A caller that loses the swap of the period  *)
(* is let in without a look, even while the winner has yet to reset the    *)
(* counter: that lets in N - 1 callers, then, next to a winner of another  *)
(* swap that is as slow, N - 2, and so on: N + (N-1) + ... + 1 in all.     *)
SpendBound ==
    LET N == Cardinality(Caller) IN
    agent # None =>
        2 * agent.tokens <= 2 * (Limit - 1) + (MaxUsage * (N * (N + 1))) * count.all

KeepsAsking == []<><<\E c \in Caller : Check(c)>>_vars

(* An agent that is over its limit gets a fresh budget when the period is  *)
(* over, as long as somebody asks for it, although its calls no longer get *)
(* to where usage is recorded.                                             *)
LimitLifts ==
    KeepsAsking =>
        (agent # None /\ agent.tokens >= Limit /\ now < MaxPeriod
            ~> agent = None \/ agent.tokens < Limit)
=============================================================================
