------------------------- MODULE CostTrackerProofs -------------------------
(***************************************************************************)
(* Proofs about the cost tracker, for every number of callers, every limit *)
(* and every number of days, connections and crashes.                      *)
(***************************************************************************)
EXTENDS CostTracker, FiniteSetTheorems, TLAPS

CallState == {"idle", "look", "swap", "zero", "read", "infer", "add", "version",
              "tokens", "start", "cache", "store", "load", "insert"}
CallRecord == [at : CallState, why : {"check", "record"}, time : Nat, seen : Nat,
               rolled : BOOLEAN, used : Nat, snap : Snapshot]

IInv ==
    /\ now \in 0..MaxPeriod
    /\ agent \in Snapshot \cup {None}
    /\ cache \in Snapshot \cup {None}
    /\ row \in Snapshot \cup {None}
    /\ call \in [Proc -> CallRecord]
    /\ \A c \in Proc : InSection(c) => agent # None
    /\ count \in [connect : 0..MaxConnects, all : Nat, crash : 0..MaxCrashes]

-----------------------------------------------------------------------------
(* Records.                                                                *)

LEMMA Values ==
  /\ Idle \in CallRecord /\ Idle.at = "idle" /\ None \notin Snapshot
  /\ 0 \in Nat /\ MaxPeriod \in Nat /\ MaxConnects \in Nat /\ MaxCrashes \in Nat
  <1>1. 0 \in Nat /\ [tokens |-> 0, start |-> 0, version |-> 0] \in Snapshot
    BY DEF Snapshot
  <1> QED BY <1>1, NameAssumption, BoundAssumption DEF Idle, CallRecord, CallState

LEMMA CallFields ==
  ASSUME IInv, NEW c \in Proc
  PROVE  /\ call[c] \in CallRecord /\ call[c].at \in CallState
         /\ call[c].time \in Nat /\ call[c].used \in Nat /\ call[c].snap \in Snapshot
         /\ InSection(c) => agent \in Snapshot /\ agent # None
  BY DEF IInv, CallRecord

LEMMA AgentFields ==
  ASSUME IInv, agent # None
  PROVE  agent \in Snapshot /\ agent.tokens \in Nat /\ agent.start \in Nat /\ agent.version \in Nat
  BY DEF IInv, Snapshot

(* A step of one call that keeps to the lock.                              *)
LEMMA CallFrame ==
  ASSUME IInv, NEW c \in Proc, NEW r \in CallRecord, call' = [call EXCEPT ![c] = r],
         now' \in 0..MaxPeriod, agent' \in Snapshot \cup {None},
         cache' \in Snapshot \cup {None}, row' \in Snapshot \cup {None},
         count' \in [connect : 0..MaxConnects, all : Nat, crash : 0..MaxCrashes],
         agent' # None \/ (agent' = agent /\ r.at \notin {"look", "swap", "zero", "read", "add",
                                                      "version", "tokens", "start"})
                       \/ (Unlocked /\ r.at \notin {"look", "swap", "zero", "read", "add",
                                                    "version", "tokens", "start"})
  PROVE  IInv'
  <1>1. /\ call' \in [Proc -> CallRecord] /\ call'[c] = r
        /\ \A d \in Proc : d # c => call'[d] = call[d]
    BY DEF IInv
  <1>2. ASSUME NEW d \in Proc, InSection(d)'
        PROVE  agent' # None
    <2>1. CASE d = c
      BY <1>1, <1>2, <2>1 DEF InSection
    <2>2. CASE d # c
      BY <1>1, <1>2, <2>2 DEF IInv, InSection, Unlocked
    <2> QED BY <2>1, <2>2
  <1> QED BY <1>1, <1>2 DEF IInv

(* A call that goes on with its record as it is.                           *)
LEMMA CallGoes ==
  ASSUME IInv, NEW c \in Proc, NEW l \in CallState, Goto(c, l),
         UNCHANGED <<now, count>>, agent' \in Snapshot \cup {None},
         cache' \in Snapshot \cup {None}, row' \in Snapshot \cup {None},
         (InSection(c) /\ agent' # None)
            \/ (agent' = agent /\ l \notin {"look", "swap", "zero", "read", "add",
                                            "version", "tokens", "start"})
  PROVE  IInv'
  <1> DEFINE r == [call[c] EXCEPT !.at = l]
  <1>1. call' = [call EXCEPT ![c] = r]
    BY DEF Goto
  <1>2. r \in CallRecord /\ r.at = l
    BY CallFields DEF CallRecord
  <1>3. now' \in 0..MaxPeriod /\ count' \in [connect : 0..MaxConnects, all : Nat, crash : 0..MaxCrashes]
    BY DEF IInv
  <1> HIDE DEF r
  <1> QED BY <1>1, <1>2, <1>3, CallFrame

LEMMA CallReturns ==
  ASSUME IInv, NEW c \in Proc, Return(c), UNCHANGED <<now, count>>,
         agent' = agent \/ agent' \in Snapshot,
         cache' \in Snapshot \cup {None}, row' \in Snapshot \cup {None}
  PROVE  IInv'
  <1>1. call' = [call EXCEPT ![c] = Idle]
    BY DEF Return
  <1>2. now' \in 0..MaxPeriod /\ count' \in [connect : 0..MaxConnects, all : Nat, crash : 0..MaxCrashes]
    BY DEF IInv
  <1>3. agent' \in Snapshot \cup {None} /\ (agent' # None \/ agent' = agent)
    BY Values DEF IInv
  <1> QED BY <1>1, <1>2, <1>3, CallFrame, Values

LEMMA CallEnters ==
  ASSUME IInv, NEW c \in Proc, NEW w \in {"check", "record"}, NEW u \in Nat,
         NEW l \in CallState, Enter(c, w, u, l), agent # None, UNCHANGED <<now, agent, cache, row, count>>
  PROVE  IInv'
  <1> DEFINE r == [Idle EXCEPT !.at = l, !.why = w, !.used = u, !.time = now]
  <1>1. call' = [call EXCEPT ![c] = r]
    BY DEF Enter
  <1>2. now \in Nat
    BY Values DEF IInv
  <1>3. r \in CallRecord /\ r.at = l
    BY <1>2, Values DEF CallRecord
  <1>4. /\ now' \in 0..MaxPeriod /\ agent' \in Snapshot \cup {None} /\ agent' # None
        /\ cache' \in Snapshot \cup {None} /\ row' \in Snapshot \cup {None}
        /\ count' \in [connect : 0..MaxConnects, all : Nat, crash : 0..MaxCrashes]
    BY DEF IInv
  <1> HIDE DEF r
  <1> QED BY <1>1, <1>3, <1>4, CallFrame

-----------------------------------------------------------------------------
(* The steps of a call.                                                    *)

LEMMA RollSteps ==
  ASSUME IInv, NEW c \in Proc, Look(c) \/ Swap(c) \/ Zero(c)
  PROVE  IInv'
  <1>1. InSection(c) /\ UNCHANGED <<now, cache, row, count>>
    BY DEF Look, Swap, Zero, At, InSection
  <1>2. /\ call[c] \in CallRecord /\ call[c].time \in Nat /\ agent # None /\ agent \in Snapshot
        /\ agent.start \in Nat /\ AfterRoll(c) \in CallState
    BY <1>1, CallFields, AgentFields DEF AfterRoll, CallState
  <1>3. /\ now' \in 0..MaxPeriod /\ cache' \in Snapshot \cup {None} /\ row' \in Snapshot \cup {None}
        /\ count' \in [connect : 0..MaxConnects, all : Nat, crash : 0..MaxCrashes]
    BY <1>1 DEF IInv
  <1>4. CASE Look(c)
    <2> DEFINE l == IF PeriodExpired(call[c].time, agent.start) THEN "swap" ELSE AfterRoll(c)
               r == [call[c] EXCEPT !.seen = agent.start, !.at = l]
    <2>1. call' = [call EXCEPT ![c] = r] /\ agent' = agent
      BY <1>4 DEF Look
    <2>2. l \in CallState
      BY <1>2 DEF CallState
    <2> HIDE DEF l
    <2>3. r \in CallRecord
      BY <1>2, <2>2 DEF CallRecord
    <2> HIDE DEF r
    <2> QED BY <1>2, <1>3, <2>1, <2>3, CallFrame
  <1>5. CASE Swap(c)
    <2>1. agent' = agent \/ agent' = [agent EXCEPT !.start = call[c].time]
      BY <1>5 DEF Swap
    <2>2. agent' \in Snapshot /\ agent' # None
      BY <1>2, <2>1, Values DEF Snapshot
    <2>3. PICK l \in {"zero", AfterRoll(c)} : call' = [call EXCEPT ![c].at = l, ![c].rolled = TRUE]
      BY <1>5 DEF Swap
    <2> DEFINE r == [call[c] EXCEPT !.at = l, !.rolled = TRUE]
    <2>4. call' = [call EXCEPT ![c] = r]
      BY <2>3
    <2>5. l \in CallState
      BY <1>2 DEF CallState
    <2>6. r \in CallRecord
      BY <1>2, <2>5 DEF CallRecord
    <2> HIDE DEF r
    <2> QED BY <1>3, <2>2, <2>4, <2>6, CallFrame
  <1>6. CASE Zero(c)
    <2>1. agent' = [agent EXCEPT !.tokens = 0] /\ Goto(c, AfterRoll(c))
      BY <1>6 DEF Zero
    <2>2. agent' \in Snapshot /\ agent' # None
      BY <1>2, <2>1, Values DEF Snapshot
    <2> QED BY <1>1, <1>2, <1>3, <2>1, <2>2, CallGoes
  <1> QED BY <1>4, <1>5, <1>6

LEMMA ReadStep == ASSUME IInv, NEW c \in Proc, Read(c) PROVE IInv'
  <1>1. UNCHANGED <<now, agent, cache, row, count>> /\ (Goto(c, "infer") \/ Return(c))
    BY DEF Read
  <1>2. /\ agent' = agent /\ agent' \in Snapshot \cup {None} /\ cache' \in Snapshot \cup {None}
        /\ row' \in Snapshot \cup {None} /\ "infer" \in CallState
    BY <1>1 DEF IInv, CallState
  <1> QED BY <1>1, <1>2, CallGoes, CallReturns

LEMMA CountSteps ==
  ASSUME IInv, NEW c \in Proc, Add(c) \/ FetchVersion(c) \/ LoadTokens(c) \/ LoadStart(c)
  PROVE  IInv'
  <1>1. InSection(c) /\ UNCHANGED <<now, cache, row, count>>
    BY DEF Add, FetchVersion, LoadTokens, LoadStart, At, InSection
  <1>2. /\ call[c] \in CallRecord /\ call[c].used \in Nat /\ call[c].snap \in Snapshot
        /\ agent # None /\ agent \in Snapshot
        /\ agent.tokens \in Nat /\ agent.start \in Nat /\ agent.version \in Nat
    BY <1>1, CallFields, AgentFields
  <1>3. /\ now' \in 0..MaxPeriod /\ cache' \in Snapshot \cup {None} /\ row' \in Snapshot \cup {None}
        /\ count' \in [connect : 0..MaxConnects, all : Nat, crash : 0..MaxCrashes]
    BY <1>1 DEF IInv
  <1>4. CASE Add(c)
    <2>1. agent' = [agent EXCEPT !.tokens = @ + call[c].used] /\ Goto(c, "version")
      BY <1>4 DEF Add
    <2>2. agent' \in Snapshot /\ agent' # None /\ "version" \in CallState
      BY <1>2, <2>1, Values DEF Snapshot, CallState
    <2> QED BY <1>1, <1>3, <2>1, <2>2, CallGoes
  <1>5. CASE FetchVersion(c)
    <2> DEFINE s == [call[c].snap EXCEPT !.version = agent.version + 1]
               r == [call[c] EXCEPT !.snap = s, !.at = "tokens"]
    <2>1. agent' = [agent EXCEPT !.version = @ + 1] /\ call' = [call EXCEPT ![c] = r]
      BY <1>5 DEF FetchVersion
    <2>2. agent' \in Snapshot /\ agent' # None
      BY <1>2, <2>1, Values DEF Snapshot
    <2>3. s \in Snapshot
      BY <1>2 DEF Snapshot
    <2> HIDE DEF s
    <2>4. r \in CallRecord
      BY <1>2, <2>3 DEF CallRecord, CallState
    <2> HIDE DEF r
    <2> QED BY <1>3, <2>1, <2>2, <2>4, CallFrame
  <1>6. CASE LoadTokens(c)
    <2> DEFINE s == [call[c].snap EXCEPT !.tokens = agent.tokens]
               r == [call[c] EXCEPT !.snap = s, !.at = "start"]
    <2>1. agent' = agent /\ call' = [call EXCEPT ![c] = r]
      BY <1>6 DEF LoadTokens
    <2>2. s \in Snapshot
      BY <1>2 DEF Snapshot
    <2> HIDE DEF s
    <2>3. r \in CallRecord
      BY <1>2, <2>2 DEF CallRecord, CallState
    <2> HIDE DEF r
    <2> QED BY <1>2, <1>3, <2>1, <2>3, CallFrame
  <1>7. CASE LoadStart(c)
    <2> DEFINE s == [call[c].snap EXCEPT !.start = agent.start]
               r == [call[c] EXCEPT !.snap = s, !.at = "cache"]
    <2>1. agent' = agent /\ call' = [call EXCEPT ![c] = r]
      BY <1>7 DEF LoadStart
    <2>2. s \in Snapshot
      BY <1>2 DEF Snapshot
    <2> HIDE DEF s
    <2>3. r \in CallRecord
      BY <1>2, <2>2 DEF CallRecord, CallState
    <2> HIDE DEF r
    <2> QED BY <1>2, <1>3, <2>1, <2>3, CallFrame
  <1> QED BY <1>4, <1>5, <1>6, <1>7

LEMMA PersistSteps ==
  ASSUME IInv, NEW c \in Proc, CacheSnapshot(c) \/ Store(c)
  PROVE  IInv'
  <1>1. UNCHANGED <<now, agent, count>> /\ call[c].snap \in Snapshot
    BY CallFields DEF CacheSnapshot, Store
  <1>2. /\ cache' \in Snapshot \cup {None} /\ row' \in Snapshot \cup {None}
        /\ agent' \in Snapshot \cup {None} /\ "store" \in CallState
    BY <1>1 DEF CacheSnapshot, Store, IInv, CallState
  <1>3. CASE CacheSnapshot(c)
    BY <1>1, <1>2, <1>3, CallGoes DEF CacheSnapshot
  <1>4. CASE Store(c)
    BY <1>1, <1>2, <1>4, CallReturns DEF Store
  <1> QED BY <1>3, <1>4

LEMMA CallerSteps ==
  ASSUME IInv, NEW c \in Caller, Check(c) \/ Untracked(c) \/ InferFails(c) \/ Record(c)
  PROVE  IInv'
  <1>1. c \in Proc /\ UNCHANGED <<now, agent, cache, row, count>>
    BY DEF Proc, Check, Untracked, InferFails, Record
  <1>2. /\ agent' \in Snapshot \cup {None} /\ cache' \in Snapshot \cup {None}
        /\ row' \in Snapshot \cup {None} /\ {"infer", "look"} \subseteq CallState
    BY <1>1 DEF IInv, CallState
  <1>3. CASE Check(c)
    BY <1>1, <1>2, <1>3, CallEnters, Values DEF Check
  <1>4. CASE Untracked(c)
    BY <1>1, <1>2, <1>4, CallGoes DEF Untracked
  <1>5. CASE InferFails(c)
    BY <1>1, <1>2, <1>5, CallReturns DEF InferFails
  <1>6. CASE Record(c)
    <2>1. PICK used \in 1..MaxUsage : agent # None /\ Enter(c, "record", used, "look")
      BY <1>6 DEF Record
    <2>2. used \in Nat
      BY BoundAssumption
    <2> QED BY <1>1, <1>2, <2>1, <2>2, CallEnters
  <1> QED BY <1>3, <1>4, <1>5, <1>6

-----------------------------------------------------------------------------
(* Connections, the crash and the clock.                                   *)

LEMMA ConnectStep == ASSUME IInv, Connect PROVE IInv'
  <1>1. /\ Operator \in Proc /\ call[Operator] \in CallRecord
        /\ count.connect < MaxConnects /\ UNCHANGED <<now, agent, row>>
        /\ count' = [count EXCEPT !.connect = @ + 1, !.all = @ + 1]
    BY DEF Connect, Proc, IInv
  <1>2. /\ now' \in 0..MaxPeriod /\ row' \in Snapshot \cup {None} /\ agent' \in Snapshot \cup {None}
        /\ count' \in [connect : 0..MaxConnects, all : Nat, crash : 0..MaxCrashes]
    <2>1. count \in [connect : 0..MaxConnects, all : Nat, crash : 0..MaxCrashes]
      BY DEF IInv
    <2>2. count.connect + 1 \in 0..MaxConnects /\ count.all + 1 \in Nat
      BY <1>1, <2>1, Values
    <2>3. count' \in [connect : 0..MaxConnects, all : Nat, crash : 0..MaxCrashes]
      BY <1>1, <2>1, <2>2
    <2> QED BY <1>1, <2>3 DEF IInv
  <1>3. CASE cache # None
    <2> DEFINE r == [call[Operator] EXCEPT !.snap = cache, !.at = "insert"]
    <2>1. call' = [call EXCEPT ![Operator] = r] /\ cache' = None
      BY <1>3 DEF Connect
    <2>2. r \in CallRecord /\ r.at = "insert"
      BY <1>1, <1>3 DEF IInv, CallRecord, CallState
    <2> HIDE DEF r
    <2> QED BY <1>1, <1>2, <2>1, <2>2, CallFrame
  <1>4. CASE cache = None
    <2> DEFINE r == [call[Operator] EXCEPT !.at = "load"]
    <2>1. call' = [call EXCEPT ![Operator] = r] /\ cache' = cache
      BY <1>4 DEF Connect, Goto
    <2>2. r \in CallRecord /\ r.at = "load"
      BY <1>1 DEF CallRecord, CallState
    <2> HIDE DEF r
    <2> QED BY <1>1, <1>2, <1>4, <2>1, <2>2, CallFrame
  <1> QED BY <1>3, <1>4

LEMMA LoadStep == ASSUME IInv, Load PROVE IInv'
  <1> DEFINE s == IF row = None THEN Fresh ELSE row
             r == [call[Operator] EXCEPT !.snap = s, !.at = "insert"]
  <1>1. /\ Operator \in Proc /\ call[Operator] \in CallRecord
        /\ UNCHANGED <<now, agent, cache, row, count>>
    BY DEF Load, Proc, IInv
  <1>2. call' = [call EXCEPT ![Operator] = r]
    BY DEF Load
  <1>3. s \in Snapshot
    BY Values DEF IInv, Fresh, Snapshot
  <1> HIDE DEF s
  <1>4. r \in CallRecord /\ r.at = "insert"
    BY <1>1, <1>3 DEF CallRecord, CallState
  <1> HIDE DEF r
  <1>5. /\ now' \in 0..MaxPeriod /\ row' \in Snapshot \cup {None} /\ agent' \in Snapshot \cup {None}
        /\ cache' \in Snapshot \cup {None}
        /\ count' \in [connect : 0..MaxConnects, all : Nat, crash : 0..MaxCrashes]
    BY <1>1 DEF IInv
  <1> QED BY <1>1, <1>2, <1>4, <1>5, CallFrame

LEMMA InsertStep == ASSUME IInv, Insert PROVE IInv'
  <1>1. /\ Operator \in Proc /\ Return(Operator) /\ agent' = call[Operator].snap
        /\ UNCHANGED <<now, cache, row, count>>
    BY DEF Insert, Proc
  <1>2. agent' \in Snapshot
    BY <1>1, CallFields
  <1>3. cache' \in Snapshot \cup {None} /\ row' \in Snapshot \cup {None}
    BY <1>1 DEF IInv
  <1> QED BY <1>1, <1>2, <1>3, CallReturns

(* Nobody who uses the state is left without it: the write lock waits.     *)
LEMMA DisconnectStep == ASSUME IInv, Disconnect PROVE IInv'
  <1> DEFINE s == [agent EXCEPT !.version = @ + 1]
             r == [call[Operator] EXCEPT !.snap = s, !.at = "cache"]
  <1>1. /\ Operator \in Proc /\ call[Operator] \in CallRecord
        /\ agent # None /\ Unlocked /\ agent' = None
        /\ UNCHANGED <<now, cache, row, count>>
    BY DEF Disconnect, Removable, Proc, IInv
  <1>2. call' = [call EXCEPT ![Operator] = r]
    BY DEF Disconnect
  <1>3. s \in Snapshot
    BY <1>1, AgentFields DEF Snapshot
  <1> HIDE DEF s
  <1>4. r \in CallRecord /\ r.at = "cache"
    BY <1>1, <1>3 DEF CallRecord, CallState
  <1> HIDE DEF r
  <1>5. /\ now' \in 0..MaxPeriod /\ row' \in Snapshot \cup {None} /\ agent' \in Snapshot \cup {None}
        /\ cache' \in Snapshot \cup {None}
        /\ count' \in [connect : 0..MaxConnects, all : Nat, crash : 0..MaxCrashes]
    BY <1>1 DEF IInv
  <1> QED BY <1>1, <1>2, <1>4, <1>5, CallFrame

LEMMA CrashStep == ASSUME IInv, Crash PROVE IInv'
  <1>1. /\ count.crash < MaxCrashes /\ count' = [count EXCEPT !.connect = 0, !.crash = @ + 1]
        /\ agent' = None /\ cache' = row /\ call' = [c \in Proc |-> Idle]
        /\ UNCHANGED <<now, row>>
    BY DEF Crash
  <1>2. count' \in [connect : 0..MaxConnects, all : Nat, crash : 0..MaxCrashes]
    <2>1. count \in [connect : 0..MaxConnects, all : Nat, crash : 0..MaxCrashes]
      BY DEF IInv
    <2>2. count.crash + 1 \in 0..MaxCrashes /\ 0 \in 0..MaxConnects
      BY <1>1, <2>1, Values
    <2> QED BY <1>1, <2>1, <2>2
  <1>3. call' \in [Proc -> CallRecord] /\ \A c \in Proc : ~InSection(c)'
    BY <1>1, Values DEF InSection
  <1> QED BY <1>1, <1>2, <1>3 DEF IInv

LEMMA TickStep == ASSUME IInv, Tick \/ UNCHANGED vars PROVE IInv'
  <1>1. UNCHANGED <<agent, cache, row, call, count>> /\ now' \in 0..MaxPeriod
    BY Values DEF Tick, vars, IInv
  <1> QED BY <1>1 DEF IInv, InSection

-----------------------------------------------------------------------------
(* The theorem.                                                            *)

LEMMA InitInv == Init => IInv
  BY Values DEF Init, IInv, InSection

LEMMA NextInv == IInv /\ [Next]_vars => IInv'
  <1> SUFFICES ASSUME IInv, [Next]_vars PROVE IInv'
    OBVIOUS
  <1>1. CASE \E c \in Proc : CallStep(c)
    BY <1>1, RollSteps, ReadStep, CountSteps, PersistSteps DEF CallStep
  <1>2. CASE \E c \in Caller : Check(c) \/ Untracked(c) \/ InferFails(c) \/ Record(c)
    BY <1>2, CallerSteps
  <1>3. CASE Connect \/ Load \/ Insert \/ Disconnect
    BY <1>3, ConnectStep, LoadStep, InsertStep, DisconnectStep
  <1>4. CASE Crash
    BY <1>4, CrashStep
  <1>5. CASE Tick \/ UNCHANGED vars
    BY <1>5, TickStep
  <1> QED BY <1>1, <1>2, <1>3, <1>4, <1>5 DEF Next

(* Every counter, snapshot and call keeps its type, and no call that holds *)
(* the read lock of agents finds the state of its agent gone               *)
(* (unregister_agent takes the write lock), for any number of callers,     *)
(* days, connections and crashes.                                          *)
THEOREM TypeCorrect == Spec => []TypeOK
  <1>1. ASSUME IInv
        PROVE  TypeOK
    <2>1. \A c \in Proc : call[c].at \in CallState /\ call[c].snap \in Snapshot
      BY <1>1, CallFields
    <2> QED BY <1>1, <2>1 DEF IInv, TypeOK, State, CallState
  <1>2. IInv => TypeOK
    BY <1>1
  <1> QED BY <1>2, InitInv, NextInv, PTL DEF Spec

-----------------------------------------------------------------------------
(* The overspend.  A call is committed when it will add its usage without  *)
(* looking at the limit again: it was let in, or it is about to lose the   *)
(* swap of the period.                                                     *)

Committed(c) ==
    \/ call[c].at \in {"infer", "add"}
    \/ At(c, "read") /\ call[c].rolled
    \/ call[c].why = "record" /\ call[c].at \in {"look", "swap"}
    \/ At(c, "swap") /\ call[c].seen # agent.start

CommittedCalls == {c \in Caller : Committed(c)}
ZeroingCalls   == {c \in Caller : At(c, "zero")}

(* Twice the number of calls that can still add before a counter is reset: *)
(* those in C, and, each time one more of the callers that are not in Z    *)
(* wins a swap, all the others.                                            *)
Callers == Cardinality(Caller)
OpenOf(C, Z) ==
    2 * Cardinality(C) + (Callers - Cardinality(Z)) * (Callers - Cardinality(Z) - 1)
Open == OpenOf(CommittedCalls, ZeroingCalls)

(* Twice the bound after k connections.                                    *)
PerConnection == MaxUsage * (Callers * (Callers + 1))
Ceiling(k) == 2 * (Limit - 1) + PerConnection * k

Connecting == call[Operator].at \in {"load", "insert"}

(* Connections that may have put their usage in a snapshot.                *)
Past == IF Connecting THEN count.all - 1 ELSE count.all

Places ==
    /\ call[Operator].at \in {"idle", "load", "insert", "cache", "store"}
    /\ Connecting => agent = None
    /\ agent # None \/ Connecting => count.all >= 1
    /\ \A c \in Caller : call[c].used <= MaxUsage
    /\ \A c \in Caller : At(c, "look") => ~call[c].rolled

Within(s) == 2 * s.tokens <= Ceiling(Past)

SavedInv ==
    /\ cache # None => Within(cache)
    /\ row # None => Within(row)
    /\ \A c \in Proc : Within(call[c].snap)

BudgetInv == agent # None => 2 * agent.tokens + MaxUsage * Open <= Ceiling(count.all)

Spend == Places /\ SavedInv /\ BudgetInv
SInv == IInv /\ Spend

LEMMA Constants ==
  /\ IsFiniteSet(Caller) /\ Callers \in Nat /\ PerConnection \in Nat
  /\ MaxUsage \in Nat /\ Limit \in Nat /\ Limit >= 1
  /\ Operator \in Proc /\ Operator \notin Caller /\ Caller \subseteq Proc
  <1>1. IsFiniteSet(Caller) /\ Callers \in Nat
    BY CallerAssumption, FS_CardinalityType DEF Callers
  <1>2. MaxUsage \in Nat /\ Limit \in Nat /\ Limit >= 1
    BY BoundAssumption
  <1>3. Callers * (Callers + 1) \in Nat
    BY <1>1
  <1>4. PerConnection \in Nat
    BY <1>2, <1>3 DEF PerConnection
  <1> QED BY <1>1, <1>2, <1>4, NameAssumption DEF Proc

LEMMA Ceilings ==
  ASSUME NEW k \in Nat
  PROVE  /\ Ceiling(k) \in Nat /\ 2 * (Limit - 1) <= Ceiling(k)
         /\ Ceiling(k + 1) = Ceiling(k) + PerConnection
         /\ k >= 1 => Ceiling(k) >= 2 * (Limit - 1) + PerConnection
  <1>1. PerConnection * k \in Nat /\ PerConnection * (k + 1) = PerConnection * k + PerConnection
    BY Constants
  <1>2. k >= 1 => PerConnection * k >= PerConnection
    <2>1. CASE k >= 1
      <3>1. k - 1 \in Nat
        BY <2>1
      <3>2. PerConnection * (k - 1) \in Nat
        BY <3>1, Constants
      <3>3. PerConnection * k = PerConnection * (k - 1) + PerConnection
        BY Constants
      <3> QED BY <3>2, <3>3, Constants
    <2> QED BY <2>1
  <1> QED BY <1>1, <1>2, Constants DEF Ceiling

LEMMA Scaled ==
  ASSUME NEW a \in Int, NEW b \in Int, a <= b
  PROVE  MaxUsage * a <= MaxUsage * b
  <1>1. b - a \in Nat /\ MaxUsage \in Nat
    BY Constants
  <1>2. MaxUsage * (b - a) \in Nat
    BY <1>1
  <1>3. MaxUsage * (b - a) = MaxUsage * b - MaxUsage * a
    BY <1>1
  <1> QED BY <1>1, <1>2, <1>3

LEMMA Products == \A a, b \in Int : a * b \in Int
  OBVIOUS

(* The numbers that OpenOf is built from.                                  *)
LEMMA OpenParts ==
  ASSUME NEW C \in SUBSET Caller, NEW Z \in SUBSET Caller, C \cap Z = {}
  PROVE  /\ IsFiniteSet(C) /\ IsFiniteSet(Z)
         /\ Cardinality(C) \in Nat /\ Cardinality(Z) \in Nat
         /\ Cardinality(C) + Cardinality(Z) <= Callers
         /\ OpenOf(C, Z) \in Int
  <1>1. /\ IsFiniteSet(C) /\ IsFiniteSet(Z)
        /\ Cardinality(C) \in Nat /\ Cardinality(Z) \in Nat
    BY Constants, FS_Subset, FS_CardinalityType
  <1>2. Cardinality(C \cup Z) = Cardinality(C) + Cardinality(Z) - Cardinality({})
    BY <1>1, FS_Union
  <1>3. Cardinality(C \cup Z) <= Callers
    BY Constants, FS_Subset DEF Callers
  <1>4. Cardinality(C) + Cardinality(Z) <= Callers
    BY <1>1, <1>2, <1>3, FS_EmptySet, Constants
  <1>5. OpenOf(C, Z) \in Int
    BY <1>1, Constants DEF OpenOf
  <1> QED BY <1>1, <1>4, <1>5

LEMMA OpenRange ==
  ASSUME NEW C \in SUBSET Caller, NEW Z \in SUBSET Caller, C \cap Z = {}
  PROVE  MaxUsage * OpenOf(C, Z) <= PerConnection
  <1> DEFINE m == Callers
             z == Cardinality(Z)
             k == Cardinality(C)
  <1>1. m \in Nat /\ z \in Nat /\ k \in Nat /\ k + z <= m
    BY OpenParts, Constants
  <1>2. OpenOf(C, Z) = 2 * k + (m - z) * (m - z - 1)
    BY DEF OpenOf
  <1> HIDE DEF m, z, k
  <1>3. 2 * k + (m - z) * (m - z - 1) <= (m - z) * (m - z + 1)
    BY <1>1
  <1>4. (m - z) * (m - z + 1) <= m * (m + 1)
    <2> DEFINE d == m - z
    <2>1. d \in Nat /\ d <= m
      BY <1>1
    <2> HIDE DEF d
    <2>2. m - d \in Nat /\ m + d + 1 \in Nat
      BY <1>1, <2>1
    <2>3. (m - d) * (m + d + 1) \in Nat
      BY <2>2
    <2>4. (m - d) * (m + d + 1) = m * (m + 1) - d * (d + 1)
      BY <1>1, <2>1
    <2> QED BY <1>1, <2>1, <2>3, <2>4 DEF d
  <1>5. OpenOf(C, Z) <= m * (m + 1)
    BY <1>1, <1>2, <1>3, <1>4
  <1>6. OpenOf(C, Z) \in Int /\ m * (m + 1) \in Int
    <2>1. m \in Int /\ m + 1 \in Int
      BY <1>1
    <2>2. m * (m + 1) \in Int
      BY <2>1, Products
    <2> QED BY <2>2, OpenParts
  <1>7. MaxUsage * OpenOf(C, Z) <= MaxUsage * (m * (m + 1))
    BY <1>5, <1>6, Scaled
  <1> QED BY <1>7 DEF PerConnection, m

(* A call that goes no further leaves its share.                           *)
LEMMA OpenShrinks ==
  ASSUME NEW C \in SUBSET Caller, NEW Z \in SUBSET Caller, C \cap Z = {},
         NEW D \in SUBSET C
  PROVE  MaxUsage * OpenOf(D, Z) <= MaxUsage * OpenOf(C, Z)
  <1>1. Cardinality(D) <= Cardinality(C) /\ Cardinality(D) \in Nat
    BY OpenParts, FS_Subset, FS_CardinalityType
  <1>2. OpenOf(D, Z) <= OpenOf(C, Z) /\ OpenOf(C, Z) \in Int /\ OpenOf(D, Z) \in Int
    <2>1. (Callers - Cardinality(Z)) * (Callers - Cardinality(Z) - 1) \in Int
      <3>1. Callers - Cardinality(Z) \in Int /\ Callers - Cardinality(Z) - 1 \in Int
        BY OpenParts, Constants
      <3> QED BY <3>1, Products
    <2> QED BY <1>1, <2>1, OpenParts DEF OpenOf
  <1> QED BY <1>2, Scaled

LEMMA OpenSpends ==
  ASSUME NEW C \in SUBSET Caller, NEW Z \in SUBSET Caller, C \cap Z = {},
         NEW x \in C, NEW D \in SUBSET (C \ {x})
  PROVE  MaxUsage * OpenOf(D, Z) + 2 * MaxUsage <= MaxUsage * OpenOf(C, Z)
  <1>1. Cardinality(C \ {x}) = Cardinality(C) - 1 /\ IsFiniteSet(C \ {x})
    BY OpenParts, FS_RemoveElement
  <1>2. Cardinality(D) <= Cardinality(C) - 1 /\ Cardinality(D) \in Nat
    BY <1>1, FS_Subset, FS_CardinalityType
  <1>3. OpenOf(D, Z) + 2 <= OpenOf(C, Z) /\ OpenOf(C, Z) \in Int /\ OpenOf(D, Z) \in Int
    <2>1. (Callers - Cardinality(Z)) * (Callers - Cardinality(Z) - 1) \in Int
      <3>1. Callers - Cardinality(Z) \in Int /\ Callers - Cardinality(Z) - 1 \in Int
        BY OpenParts, Constants
      <3> QED BY <3>1, Products
    <2> QED BY <1>2, <2>1, OpenParts DEF OpenOf
  <1>4. MaxUsage * (OpenOf(D, Z) + 2) <= MaxUsage * OpenOf(C, Z)
    BY <1>3, Scaled
  <1>5. MaxUsage * (OpenOf(D, Z) + 2) = MaxUsage * OpenOf(D, Z) + 2 * MaxUsage
    BY <1>3, Constants
  <1> QED BY <1>4, <1>5

(* The winner of a swap makes losers of the others, but has itself to      *)
(* reset the counter before it goes on.                                    *)
LEMMA OpenSwaps ==
  ASSUME NEW C \in SUBSET Caller, NEW Z \in SUBSET Caller, C \cap Z = {},
         NEW x \in Caller \ Z, NEW D \in SUBSET Caller, D \cap (Z \cup {x}) = {}
  PROVE  MaxUsage * OpenOf(D, Z \cup {x}) <= MaxUsage * OpenOf(C, Z)
  <1> DEFINE m == Callers
             z == Cardinality(Z)
             k == Cardinality(C)
             d == Cardinality(D)
  <1>1. m \in Nat /\ z \in Nat /\ k \in Nat
    BY OpenParts, Constants
  <1>2. Cardinality(Z \cup {x}) = z + 1
    BY OpenParts, FS_AddElement
  <1>3. d \in Nat /\ d + (z + 1) <= m /\ OpenOf(D, Z \cup {x}) \in Int
    BY <1>2, OpenParts
  <1>4. /\ OpenOf(D, Z \cup {x}) = 2 * d + (m - (z + 1)) * (m - (z + 1) - 1)
        /\ OpenOf(C, Z) = 2 * k + (m - z) * (m - z - 1)
    BY <1>2 DEF OpenOf
  <1> HIDE DEF m, z, k, d
  <1>5. (m - z) * (m - z - 1) = (m - (z + 1)) * (m - (z + 1) - 1) + 2 * (m - z - 1)
    BY <1>1
  <1>6. OpenOf(D, Z \cup {x}) <= OpenOf(C, Z)
    <2> DEFINE q == (m - (z + 1)) * (m - (z + 1) - 1)
    <2>1. q \in Int
      BY <1>1
    <2> HIDE DEF q
    <2>2. OpenOf(D, Z \cup {x}) = 2 * d + q /\ OpenOf(C, Z) = 2 * k + q + 2 * (m - z - 1)
      BY <1>1, <1>4, <1>5, <2>1 DEF q
    <2> QED BY <1>1, <1>3, <2>1, <2>2
  <1> QED BY <1>3, <1>6, OpenParts, Scaled

LEMMA CallSets ==
  /\ CommittedCalls \in SUBSET Caller /\ ZeroingCalls \in SUBSET Caller
  /\ CommittedCalls \cap ZeroingCalls = {}
  BY DEF CommittedCalls, ZeroingCalls, Committed, At

LEMMA CallSetsNext ==
  /\ CommittedCalls' \in SUBSET Caller /\ ZeroingCalls' \in SUBSET Caller
  /\ CommittedCalls' \cap ZeroingCalls' = {}
  BY DEF CommittedCalls, ZeroingCalls, Committed, At

LEMMA Numbers ==
  ASSUME SInv
  PROVE  /\ count.all \in Nat /\ Past \in Nat /\ Past <= count.all
         /\ Ceiling(Past) \in Nat /\ Ceiling(count.all) \in Nat
         /\ agent # None => agent.tokens \in Nat /\ Past = count.all
         /\ MaxUsage * Open \in Int
         /\ MaxUsage * Open <= PerConnection /\ MaxUsage * Open' <= PerConnection
         /\ MaxUsage * Open' \in Int
  <1>1. count.all \in Nat /\ (Connecting => count.all >= 1)
    BY DEF SInv, IInv, Spend, Places
  <1>2. Past \in Nat /\ Past <= count.all
    BY <1>1 DEF Past
  <1>3. agent # None => agent.tokens \in Nat /\ Past = count.all
    BY AgentFields DEF SInv, Spend, Places, Past
  <1>4. Open \in Int /\ Open' \in Int
    BY CallSets, CallSetsNext, OpenParts DEF Open, Connecting
  <1>5. MaxUsage * Open <= PerConnection /\ MaxUsage * Open' <= PerConnection
    BY CallSets, CallSetsNext, OpenRange DEF Open
  <1>6. MaxUsage * Open \in Int /\ MaxUsage * Open' \in Int
    BY <1>4, Constants, Products
  <1>7. Ceiling(Past) \in Nat /\ Ceiling(count.all) \in Nat
    BY <1>1, <1>2, Ceilings
  <1> QED BY <1>1, <1>2, <1>3, <1>5, <1>6, <1>7

(* Only call c moves.                                                      *)
OneMoves(c) == \A d \in Proc \ {c} : call'[d] = call[d]

LEMMA MovesOne ==
  ASSUME IInv, NEW c \in Proc, NEW r, call' = [call EXCEPT ![c] = r]
  PROVE  OneMoves(c) /\ call'[c] = r
  BY DEF IInv, OneMoves

(* A caller keeps its place and what it is about to persist.               *)
LEMMA CallerKeeps ==
  ASSUME SInv, NEW c \in Caller, OneMoves(c), count' = count, agent' # None <=> agent # None,
         cache' = cache \/ cache' = call[c].snap, row' = row \/ row' = call[c].snap,
         call'[c].used <= MaxUsage, call'[c].at = "look" => ~call'[c].rolled,
         2 * call'[c].snap.tokens <= Ceiling(Past)
  PROVE  Places' /\ SavedInv'
  <1>1. c \in Proc /\ Operator \in Proc /\ call'[Operator] = call[Operator]
    BY Constants DEF OneMoves
  <1>2. (Connecting' <=> Connecting) /\ Past' = Past
    BY <1>1 DEF Connecting, Past
  <1>3. Places'
    BY <1>1, <1>2, Constants DEF SInv, Spend, Places, OneMoves, At
  <1>4. SavedInv'
    BY <1>1, <1>2 DEF SInv, Spend, SavedInv, Within, OneMoves
  <1> QED BY <1>3, <1>4

(* The other calls stay committed, or not, as long as the period is left   *)
(* alone.                                                                  *)
LEMMA OthersStay ==
  ASSUME NEW c \in Caller, OneMoves(c), agent' = agent \/ agent'.start = agent.start
  PROVE  /\ CommittedCalls' \ {c} = CommittedCalls \ {c}
         /\ ZeroingCalls' \ {c} = ZeroingCalls \ {c}
  <1>1. \A d \in Caller \ {c} : (Committed(d)' <=> Committed(d)) /\ (At(d, "zero")' <=> At(d, "zero"))
    BY Constants DEF OneMoves, Committed, At
  <1> QED BY <1>1 DEF CommittedCalls, ZeroingCalls

(* A step that commits nobody and leaves the counter alone.                *)
LEMMA NobodyCommits ==
  ASSUME SInv, NEW c \in Caller, OneMoves(c), count' = count,
         agent' = agent \/ (agent' # None /\ agent # None /\ agent'.start = agent.start
                                         /\ agent'.tokens = agent.tokens),
         ~At(c, "zero"), call'[c].at # "zero", Committed(c)' => Committed(c)
  PROVE  BudgetInv'
  <1>1. /\ CommittedCalls' \ {c} = CommittedCalls \ {c}
        /\ ZeroingCalls' \ {c} = ZeroingCalls \ {c}
    BY OthersStay
  <1>2. ZeroingCalls' = ZeroingCalls
    BY <1>1 DEF ZeroingCalls, At
  <1>3. CommittedCalls' \in SUBSET CommittedCalls
    BY <1>1 DEF CommittedCalls
  <1>4. MaxUsage * Open' <= MaxUsage * Open
    BY <1>2, <1>3, CallSets, OpenShrinks DEF Open
  <1>5. CASE agent = None
    BY <1>5 DEF BudgetInv
  <1>6. CASE agent # None
    <2>1. 2 * agent.tokens + MaxUsage * Open <= Ceiling(count.all)
      BY <1>6 DEF SInv, Spend, BudgetInv
    <2>2. 2 * agent'.tokens + MaxUsage * Open' <= Ceiling(count.all)
      BY <1>4, <1>6, <2>1, Numbers
    <2> QED BY <2>2 DEF BudgetInv
  <1> QED BY <1>5, <1>6

LEMMA CallerSpends ==
  ASSUME SInv, NEW c \in Caller, OneMoves(c), count' = count,
         agent' = agent \/ (agent' # None /\ agent # None /\ agent'.start = agent.start
                                         /\ agent'.tokens = agent.tokens),
         cache' = cache \/ cache' = call[c].snap, row' = row \/ row' = call[c].snap,
         call'[c].used <= MaxUsage, call'[c].at = "look" => ~call'[c].rolled,
         2 * call'[c].snap.tokens <= Ceiling(Past),
         ~At(c, "zero"), call'[c].at # "zero", Committed(c)' => Committed(c)
  PROVE  Spend'
  BY CallerKeeps, NobodyCommits DEF Spend

LEMMA CallerHas ==
  ASSUME SInv, NEW c \in Caller
  PROVE  /\ c \in Proc /\ IInv /\ call[c] \in CallRecord
         /\ call[c].used <= MaxUsage /\ 2 * call[c].snap.tokens <= Ceiling(Past)
         /\ At(c, "look") => ~call[c].rolled
         /\ InSection(c) => agent # None /\ agent \in Snapshot
  BY Constants, CallFields DEF SInv, Spend, Places, SavedInv, Within

LEMMA LookSpend == ASSUME SInv, NEW c \in Caller, Look(c) PROVE Spend'
  <1> DEFINE l == IF PeriodExpired(call[c].time, agent.start) THEN "swap" ELSE AfterRoll(c)
             r == [call[c] EXCEPT !.seen = agent.start, !.at = l]
  <1>1. At(c, "look") /\ call' = [call EXCEPT ![c] = r] /\ UNCHANGED <<agent, cache, row, count>>
    BY DEF Look
  <1>2. OneMoves(c) /\ call'[c] = r
    BY <1>1, CallerHas, MovesOne
  <1>3. /\ r.at = l /\ r.seen = agent.start /\ r.rolled = FALSE /\ r.why = call[c].why
        /\ r.used = call[c].used /\ r.snap = call[c].snap /\ r.why \in {"check", "record"}
    BY <1>1, CallerHas DEF CallRecord
  <1>4. l = "swap" \/ (l = "read" /\ call[c].why = "check") \/ (l = "add" /\ call[c].why = "record")
    BY <1>3 DEF AfterRoll
  <1> HIDE DEF l, r
  <1>5. Committed(c)' => Committed(c)
    BY <1>1, <1>2, <1>3, <1>4 DEF Committed, At
  <1>6. /\ ~At(c, "zero") /\ call'[c].at # "zero" /\ call'[c].at # "look"
        /\ call'[c].used <= MaxUsage /\ 2 * call'[c].snap.tokens <= Ceiling(Past)
    BY <1>1, <1>2, <1>3, <1>4, CallerHas DEF At
  <1> QED BY <1>1, <1>2, <1>5, <1>6, CallerSpends

(* A loser was committed when the winner swapped; the winner takes itself  *)
(* out until it has reset the counter.                                     *)
LEMMA SwapSpend == ASSUME SInv, NEW c \in Caller, Swap(c) PROVE Spend'
  <1>1. At(c, "swap") /\ UNCHANGED <<cache, row, count>> /\ agent # None /\ agent \in Snapshot
    BY CallerHas DEF Swap, InSection, At
  <1>2. PICK l \in {"zero", AfterRoll(c)} :
           /\ call' = [call EXCEPT ![c] = [call[c] EXCEPT !.at = l, !.rolled = TRUE]]
           /\ \/ l = "zero" /\ agent' = [agent EXCEPT !.start = call[c].time]
              \/ l = AfterRoll(c) /\ agent' = agent /\ agent.start # call[c].seen
    BY DEF Swap
  <1> DEFINE r == [call[c] EXCEPT !.at = l, !.rolled = TRUE]
  <1>3. OneMoves(c) /\ call'[c] = r
    BY <1>2, CallerHas, MovesOne
  <1>4. /\ r.at = l /\ r.why = call[c].why /\ r.why \in {"check", "record"}
        /\ r.used = call[c].used /\ r.snap = call[c].snap
    BY CallerHas DEF CallRecord
  <1>5. AfterRoll(c) = "read" \/ (AfterRoll(c) = "add" /\ call[c].why = "record")
    BY <1>4 DEF AfterRoll
  <1> HIDE DEF r
  <1>6. /\ call'[c].at # "look" /\ call'[c].used <= MaxUsage
        /\ 2 * call'[c].snap.tokens <= Ceiling(Past)
    BY <1>3, <1>4, <1>5, CallerHas
  <1>7. agent' # None /\ agent'.tokens = agent.tokens
    BY <1>1, <1>2, CallFields, CallerHas, Values DEF Snapshot
  <1>8. Places' /\ SavedInv'
    BY <1>1, <1>3, <1>6, <1>7, CallerKeeps
  <1>9. BudgetInv'
    <2>1. CASE l = "zero"
      <3>1. ZeroingCalls' = ZeroingCalls \cup {c}
        BY <1>3, <1>4, <2>1, Constants DEF ZeroingCalls, At, OneMoves
      <3>2. c \in Caller \ ZeroingCalls
        BY <1>1 DEF ZeroingCalls, At
      <3>3. MaxUsage * Open' <= MaxUsage * Open
        BY <3>1, <3>2, CallSets, CallSetsNext, OpenSwaps DEF Open
      <3>4. 2 * agent.tokens + MaxUsage * Open <= Ceiling(count.all)
        BY <1>1 DEF SInv, Spend, BudgetInv
      <3>5. 2 * agent'.tokens + MaxUsage * Open' <= Ceiling(count.all)
        BY <1>1, <1>7, <3>3, <3>4, Numbers
      <3> QED BY <1>1, <3>5 DEF BudgetInv
    <2>2. CASE l # "zero"
      <3>1. agent' = agent /\ agent.start # call[c].seen /\ l = AfterRoll(c)
        BY <1>2, <2>2
      <3>2. Committed(c) /\ ~At(c, "zero") /\ call'[c].at # "zero"
        BY <1>1, <1>3, <1>4, <2>2, <3>1 DEF Committed, At
      <3> QED BY <1>1, <1>3, <3>1, <3>2, NobodyCommits
    <2> QED BY <2>1, <2>2
  <1> QED BY <1>8, <1>9 DEF Spend

LEMMA ZeroSpend == ASSUME SInv, NEW c \in Caller, Zero(c) PROVE Spend'
  <1>1. At(c, "zero") /\ UNCHANGED <<cache, row, count>> /\ agent # None /\ agent \in Snapshot
    BY CallerHas DEF Zero, InSection, At
  <1> DEFINE r == [call[c] EXCEPT !.at = AfterRoll(c)]
  <1>2. agent' = [agent EXCEPT !.tokens = 0] /\ call' = [call EXCEPT ![c] = r]
    BY DEF Zero, Goto
  <1>3. OneMoves(c) /\ call'[c] = r
    BY <1>2, CallerHas, MovesOne
  <1>4. r.used = call[c].used /\ r.snap = call[c].snap /\ r.at # "look"
    BY CallerHas DEF CallRecord, AfterRoll
  <1> HIDE DEF r
  <1>5. agent' # None /\ agent'.tokens = 0
    BY <1>1, <1>2, Values DEF Snapshot
  <1>6. Places' /\ SavedInv'
    BY <1>1, <1>3, <1>4, <1>5, CallerHas, CallerKeeps
  <1>7. count.all >= 1
    BY <1>1 DEF SInv, Spend, Places
  <1>8. 2 * agent'.tokens + MaxUsage * Open' <= Ceiling(count.all)
    BY <1>5, <1>7, Numbers, Ceilings, Constants
  <1> QED BY <1>1, <1>6, <1>8 DEF BudgetInv, Spend

(* Who is let in by a look found less than the limit.                      *)
LEMMA ReadSpend == ASSUME SInv, NEW c \in Caller, Read(c) PROVE Spend'
  <1>1. /\ At(c, "read") /\ UNCHANGED <<agent, cache, row, count>>
        /\ agent # None /\ agent \in Snapshot
    BY CallerHas DEF Read, InSection, At
  <1>2. CASE Admitted(c)
    <2> DEFINE r == [call[c] EXCEPT !.at = "infer"]
    <2>1. call' = [call EXCEPT ![c] = r]
      BY <1>2 DEF Read, Goto
    <2>2. OneMoves(c) /\ call'[c] = r
      BY <2>1, CallerHas, MovesOne
    <2>3. r.used = call[c].used /\ r.snap = call[c].snap /\ r.at = "infer"
      BY CallerHas DEF CallRecord
    <2> HIDE DEF r
    <2>4. Places' /\ SavedInv'
      BY <1>1, <2>2, <2>3, CallerHas, CallerKeeps
    <2>5. CASE call[c].rolled
      BY <1>1, <2>2, <2>3, <2>4, <2>5, NobodyCommits DEF Committed, At, Spend
    <2>6. CASE agent.tokens < Limit
      <3>1. count.all >= 1
        BY <1>1 DEF SInv, Spend, Places
      <3>2. 2 * agent'.tokens + MaxUsage * Open' <= Ceiling(count.all)
        BY <1>1, <2>6, <3>1, Numbers, Ceilings, Constants
      <3> QED BY <1>1, <2>4, <3>2 DEF BudgetInv, Spend
    <2> QED BY <1>2, <2>5, <2>6 DEF Admitted
  <1>3. CASE ~Admitted(c)
    <2>1. call' = [call EXCEPT ![c] = Idle]
      BY <1>3 DEF Read, Return
    <2>2. OneMoves(c) /\ call'[c] = Idle
      BY <2>1, CallerHas, MovesOne
    <2>3. /\ call'[c].at = "idle" /\ call'[c].used <= MaxUsage
          /\ 2 * call'[c].snap.tokens <= Ceiling(Past)
      BY <2>2, Numbers, Constants DEF Idle
    <2> QED BY <1>1, <2>2, <2>3, CallerSpends DEF Committed, At, Idle
  <1> QED BY <1>2, <1>3

LEMMA AddSpend == ASSUME SInv, NEW c \in Caller, Add(c) PROVE Spend'
  <1>1. At(c, "add") /\ UNCHANGED <<cache, row, count>> /\ agent # None /\ agent \in Snapshot
    BY CallerHas DEF Add, InSection, At
  <1> DEFINE r == [call[c] EXCEPT !.at = "version"]
  <1>2. agent' = [agent EXCEPT !.tokens = @ + call[c].used] /\ call' = [call EXCEPT ![c] = r]
    BY DEF Add, Goto
  <1>3. OneMoves(c) /\ call'[c] = r
    BY <1>2, CallerHas, MovesOne
  <1>4. r.used = call[c].used /\ r.snap = call[c].snap /\ r.at = "version"
    BY CallerHas DEF CallRecord
  <1> HIDE DEF r
  <1>5. /\ agent' # None /\ agent'.tokens = agent.tokens + call[c].used
        /\ agent'.start = agent.start
    BY <1>1, <1>2, CallerHas, CallFields, Values DEF Snapshot
  <1>6. Places' /\ SavedInv'
    BY <1>1, <1>3, <1>4, <1>5, CallerHas, CallerKeeps
  <1>7. /\ CommittedCalls' \ {c} = CommittedCalls \ {c}
        /\ ZeroingCalls' \ {c} = ZeroingCalls \ {c}
    BY <1>3, <1>5, OthersStay
  <1>8. /\ c \in CommittedCalls /\ c \notin CommittedCalls'
        /\ c \notin ZeroingCalls /\ c \notin ZeroingCalls'
    BY <1>1, <1>3, <1>4 DEF CommittedCalls, ZeroingCalls, Committed, At
  <1>9. MaxUsage * Open' + 2 * MaxUsage <= MaxUsage * Open
    <2>1. ZeroingCalls' = ZeroingCalls /\ CommittedCalls' \in SUBSET (CommittedCalls \ {c})
      BY <1>7, <1>8
    <2> QED BY <2>1, <1>8, CallSets, OpenSpends DEF Open
  <1>10. 2 * agent.tokens + MaxUsage * Open <= Ceiling(count.all)
    BY <1>1 DEF SInv, Spend, BudgetInv
  <1>11. call[c].used \in Nat /\ call[c].used <= MaxUsage
    BY CallerHas, CallFields
  <1>12. 2 * agent'.tokens + MaxUsage * Open' <= Ceiling(count.all)
    BY <1>1, <1>5, <1>9, <1>10, <1>11, Numbers, Constants
  <1> QED BY <1>1, <1>6, <1>12 DEF BudgetInv, Spend

LEMMA AgentWithin == ASSUME SInv, agent # None PROVE 2 * agent.tokens <= Ceiling(Past)
  <1> DEFINE n == Callers - Cardinality(ZeroingCalls)
  <1>1. n \in Nat /\ Cardinality(CommittedCalls) \in Nat
    BY CallSets, OpenParts, Constants
  <1>2. n * (n - 1) \in Nat
    BY <1>1
  <1>3. Open = 2 * Cardinality(CommittedCalls) + n * (n - 1)
    BY DEF Open, OpenOf
  <1> HIDE DEF n
  <1>4. Open \in Nat
    BY <1>1, <1>2, <1>3
  <1>5. MaxUsage * Open \in Nat
    BY <1>4, Constants
  <1>6. 2 * agent.tokens + MaxUsage * Open <= Ceiling(count.all)
    BY DEF SInv, Spend, BudgetInv
  <1> QED BY <1>5, <1>6, Numbers

LEMMA SnapshotSpend ==
  ASSUME SInv, NEW c \in Caller, FetchVersion(c) \/ LoadTokens(c) \/ LoadStart(c)
  PROVE  Spend'
  <1>1. /\ call[c].at \in {"version", "tokens", "start"} /\ UNCHANGED <<cache, row, count>>
        /\ agent # None /\ agent \in Snapshot
    BY CallerHas DEF FetchVersion, LoadTokens, LoadStart, InSection, At
  <1>2. PICK s \in Snapshot, l \in {"tokens", "start", "cache"} :
           /\ call' = [call EXCEPT ![c] = [call[c] EXCEPT !.snap = s, !.at = l]]
           /\ s.tokens = call[c].snap.tokens \/ s.tokens = agent.tokens
           /\ agent' = agent \/ agent' = [agent EXCEPT !.version = @ + 1]
    <2>1. call[c].snap \in Snapshot
      BY CallerHas, CallFields
    <2>2. CASE FetchVersion(c)
      <3> DEFINE s == [call[c].snap EXCEPT !.version = agent.version + 1]
      <3>1. s \in Snapshot /\ s.tokens = call[c].snap.tokens
        BY <1>1, <2>1 DEF Snapshot
      <3>2. call' = [call EXCEPT ![c] = [call[c] EXCEPT !.snap = s, !.at = "tokens"]]
        BY <2>2 DEF FetchVersion
      <3> QED BY <2>2, <3>1, <3>2 DEF FetchVersion
    <2>3. CASE LoadTokens(c)
      <3> DEFINE s == [call[c].snap EXCEPT !.tokens = agent.tokens]
      <3>1. s \in Snapshot /\ s.tokens = agent.tokens
        BY <1>1, <2>1 DEF Snapshot
      <3>2. call' = [call EXCEPT ![c] = [call[c] EXCEPT !.snap = s, !.at = "start"]]
        BY <2>3 DEF LoadTokens
      <3> QED BY <2>3, <3>1, <3>2 DEF LoadTokens
    <2>4. CASE LoadStart(c)
      <3> DEFINE s == [call[c].snap EXCEPT !.start = agent.start]
      <3>1. s \in Snapshot /\ s.tokens = call[c].snap.tokens
        BY <1>1, <2>1 DEF Snapshot
      <3>2. call' = [call EXCEPT ![c] = [call[c] EXCEPT !.snap = s, !.at = "cache"]]
        BY <2>4 DEF LoadStart
      <3> QED BY <2>4, <3>1, <3>2 DEF LoadStart
    <2> QED BY <2>2, <2>3, <2>4
  <1> DEFINE r == [call[c] EXCEPT !.snap = s, !.at = l]
  <1>3. OneMoves(c) /\ call'[c] = r
    BY <1>2, CallerHas, MovesOne
  <1>4. r.used = call[c].used /\ r.snap = s /\ r.at = l
    BY CallerHas DEF CallRecord
  <1> HIDE DEF r
  <1>5. 2 * agent.tokens <= Ceiling(Past)
    BY <1>1, AgentWithin
  <1>6. 2 * call'[c].snap.tokens <= Ceiling(Past)
    BY <1>2, <1>3, <1>4, <1>5, CallerHas
  <1>7. /\ agent' = agent \/ (agent' # None /\ agent # None /\ agent'.start = agent.start
                                             /\ agent'.tokens = agent.tokens)
    BY <1>1, <1>2, AgentFields, CallerHas, Values DEF Snapshot
  <1>8. /\ ~At(c, "zero") /\ call'[c].at # "zero" /\ call'[c].at # "look"
        /\ call'[c].used <= MaxUsage
    BY <1>1, <1>3, <1>4, CallerHas DEF At
  <1>9. Committed(c)' => Committed(c)
    BY <1>3, <1>4 DEF Committed, At
  <1> QED BY <1>1, <1>3, <1>6, <1>7, <1>8, <1>9, CallerSpends

LEMMA PersistSpend ==
  ASSUME SInv, NEW c \in Caller, CacheSnapshot(c) \/ Store(c)
  PROVE  Spend'
  <1>1. /\ call[c].at \in {"cache", "store"} /\ UNCHANGED <<agent, count>>
        /\ cache' = cache \/ cache' = call[c].snap
        /\ row' = row \/ row' = call[c].snap
    BY DEF CacheSnapshot, Store, At
  <1>2. PICK r \in {[call[c] EXCEPT !.at = "store"], Idle} : call' = [call EXCEPT ![c] = r]
    BY DEF CacheSnapshot, Store, Goto, Return
  <1>3. OneMoves(c) /\ call'[c] = r
    BY <1>2, CallerHas, MovesOne
  <1>4. /\ r.at \in {"store", "idle"} /\ r.used <= MaxUsage
        /\ 2 * r.snap.tokens <= Ceiling(Past)
    BY CallerHas, Numbers, Constants DEF CallRecord, Idle
  <1>5. ~Committed(c)' /\ ~At(c, "zero")
    BY <1>1, <1>3, <1>4 DEF Committed, At
  <1> QED BY <1>1, <1>3, <1>4, <1>5, CallerSpends

LEMMA GateSpend ==
  ASSUME SInv, NEW c \in Caller, Check(c) \/ Untracked(c) \/ InferFails(c) \/ Record(c)
  PROVE  Spend'
  <1>1. UNCHANGED <<agent, cache, row, count>>
    BY DEF Check, Untracked, InferFails, Record
  <1>2. CASE Check(c)
    <2> DEFINE r == [Idle EXCEPT !.at = "look", !.why = "check", !.used = 0, !.time = now]
    <2>1. At(c, "idle") /\ call' = [call EXCEPT ![c] = r]
      BY <1>2 DEF Check, Enter
    <2>2. OneMoves(c) /\ call'[c] = r
      BY <2>1, CallerHas, MovesOne
    <2>3. r.at = "look" /\ r.why = "check" /\ r.used = 0 /\ ~r.rolled /\ r.snap.tokens = 0
      BY DEF Idle
    <2> HIDE DEF r
    <2>4. ~Committed(c)' /\ ~At(c, "zero")
      BY <2>1, <2>2, <2>3 DEF Committed, At
    <2> QED BY <1>1, <2>2, <2>3, <2>4, Numbers, Constants, CallerSpends
  <1>3. CASE Untracked(c)
    <2> DEFINE r == [call[c] EXCEPT !.at = "infer"]
    <2>1. agent = None /\ call' = [call EXCEPT ![c] = r]
      BY <1>3 DEF Untracked, Goto
    <2>2. OneMoves(c) /\ call'[c] = r
      BY <2>1, CallerHas, MovesOne
    <2>3. r.used = call[c].used /\ r.snap = call[c].snap /\ r.at = "infer"
      BY CallerHas DEF CallRecord
    <2> HIDE DEF r
    <2>4. Places' /\ SavedInv'
      BY <1>1, <2>2, <2>3, CallerHas, CallerKeeps
    <2> QED BY <1>1, <2>1, <2>4 DEF BudgetInv, Spend
  <1>4. CASE InferFails(c)
    <2>1. At(c, "infer") /\ call' = [call EXCEPT ![c] = Idle]
      BY <1>4 DEF InferFails, Return
    <2>2. OneMoves(c) /\ call'[c] = Idle
      BY <2>1, CallerHas, MovesOne
    <2>3. Idle.at = "idle" /\ Idle.used = 0 /\ Idle.snap.tokens = 0
      BY DEF Idle
    <2>4. ~Committed(c)' /\ ~At(c, "zero")
      BY <2>1, <2>2, <2>3 DEF Committed, At
    <2> QED BY <1>1, <2>2, <2>3, <2>4, Numbers, Constants, CallerSpends
  <1>5. CASE Record(c)
    <2>1. PICK used \in 1..MaxUsage : At(c, "infer") /\ Enter(c, "record", used, "look")
      BY <1>5 DEF Record
    <2> DEFINE r == [Idle EXCEPT !.at = "look", !.why = "record", !.used = used, !.time = now]
    <2>2. call' = [call EXCEPT ![c] = r]
      BY <2>1 DEF Enter
    <2>3. OneMoves(c) /\ call'[c] = r
      BY <2>2, CallerHas, MovesOne
    <2>4. r.at = "look" /\ r.used = used /\ ~r.rolled /\ r.snap.tokens = 0
      BY DEF Idle
    <2> HIDE DEF r
    <2>5. Committed(c) /\ ~At(c, "zero") /\ used <= MaxUsage
      BY <2>1, Constants DEF Committed, At
    <2> QED BY <1>1, <2>3, <2>4, <2>5, Numbers, Constants, CallerSpends
  <1> QED BY <1>2, <1>3, <1>4, <1>5

(* A step of the operator, who adds to no counter.                         *)
LEMMA OperatorKeeps ==
  ASSUME SInv, OneMoves(Operator),
         call'[Operator].at \in {"idle", "load", "insert", "cache", "store"},
         agent' = None \/ (agent' = agent /\ count' = count /\ ~Connecting'),
         Connecting' => count'.all >= 1, Past' = Past,
         cache' \in {cache, None, call[Operator].snap}, row' \in {row, call[Operator].snap},
         2 * call'[Operator].snap.tokens <= Ceiling(Past)
  PROVE  Spend'
  <1>1. \A c \in Proc : c # Operator => call'[c] = call[c]
    BY DEF OneMoves
  <1>2. Places'
    <2>1. /\ Connecting' => agent' = None
          /\ agent' # None \/ Connecting' => count'.all >= 1
      BY DEF Connecting, SInv, Spend, Places
    <2> QED BY <1>1, <2>1, Constants DEF SInv, Spend, Places, At, Connecting
  <1>3. SavedInv'
    <2>1. Within(call[Operator].snap)
      BY Constants DEF SInv, Spend, SavedInv
    <2>2. \A c \in Proc : 2 * call'[c].snap.tokens <= Ceiling(Past)
      BY <1>1 DEF SInv, Spend, SavedInv, Within
    <2> QED BY <2>1, <2>2 DEF SInv, Spend, SavedInv, Within
  <1>4. BudgetInv'
    <2>1. CASE agent' = None
      BY <2>1 DEF BudgetInv
    <2>2. CASE agent' = agent /\ count' = count
      <3>1. CommittedCalls' = CommittedCalls /\ ZeroingCalls' = ZeroingCalls
        <4>1. \A c \in Caller : call'[c] = call[c]
          BY <1>1, Constants
        <4> QED BY <2>2, <4>1 DEF CommittedCalls, ZeroingCalls, Committed, At
      <3> QED BY <2>2, <3>1 DEF SInv, Spend, BudgetInv, Open, OpenOf
    <2> QED BY <2>1, <2>2
  <1> QED BY <1>2, <1>3, <1>4 DEF Spend

(* What the operator does while the agent is not connected, or by taking   *)
(* it away.                                                                *)
LEMMA OperatorSpend ==
  ASSUME SInv, CacheSnapshot(Operator) \/ Store(Operator) \/ Connect \/ Load \/ Disconnect
  PROVE  Spend'
  <1>1. /\ Operator \in Proc /\ call[Operator] \in CallRecord /\ IInv
        /\ 2 * call[Operator].snap.tokens <= Ceiling(Past)
    BY Constants, CallFields DEF SInv, Spend, SavedInv, Within
  <1>2. CASE CacheSnapshot(Operator) \/ Store(Operator)
    <2>1. /\ call[Operator].at \in {"cache", "store"} /\ UNCHANGED <<agent, count>>
          /\ cache' \in {cache, call[Operator].snap} /\ row' \in {row, call[Operator].snap}
      BY <1>2 DEF CacheSnapshot, Store, At
    <2>2. PICK r \in {[call[Operator] EXCEPT !.at = "store"], Idle} : call' = [call EXCEPT ![Operator] = r]
      BY <1>2 DEF CacheSnapshot, Store, Goto, Return
    <2>3. OneMoves(Operator) /\ call'[Operator] = r
      BY <1>1, <2>2, MovesOne
    <2>4. r.at \in {"store", "idle"} /\ 2 * r.snap.tokens <= Ceiling(Past)
      BY <1>1, Numbers, Constants DEF CallRecord, Idle
    <2>5. ~Connecting' /\ Past' = Past
      BY <2>1, <2>3, <2>4 DEF Connecting, Past
    <2> QED BY <2>1, <2>3, <2>4, <2>5, OperatorKeeps
  <1>3. CASE Connect
    <2>1. /\ call[Operator].at = "idle" /\ agent = None /\ UNCHANGED <<agent, row>>
          /\ count' = [count EXCEPT !.connect = @ + 1, !.all = @ + 1]
          /\ cache' \in {cache, None}
      BY <1>3 DEF Connect, At
    <2>2. count'.all = count.all + 1 /\ count.all \in Nat
      BY <1>1, <2>1 DEF IInv
    <2>3. PICK r : /\ call' = [call EXCEPT ![Operator] = r]
                   /\ \/ cache # None /\ r = [call[Operator] EXCEPT !.snap = cache, !.at = "insert"]
                      \/ r = [call[Operator] EXCEPT !.at = "load"]
      BY <1>3 DEF Connect, Goto
    <2>4. OneMoves(Operator) /\ call'[Operator] = r
      BY <1>1, <2>3, MovesOne
    <2>5. r.at \in {"load", "insert"} /\ (r.snap = call[Operator].snap \/ (cache # None /\ r.snap = cache))
      BY <1>1, <2>3 DEF CallRecord
    <2>6. 2 * r.snap.tokens <= Ceiling(Past)
      BY <1>1, <2>5 DEF SInv, Spend, SavedInv, Within
    <2>7. Connecting' /\ Past' = Past
      BY <2>1, <2>2, <2>4, <2>5 DEF Connecting, Past
    <2> QED BY <2>1, <2>2, <2>4, <2>5, <2>6, <2>7, OperatorKeeps
  <1>4. CASE Load
    <2> DEFINE s == IF row = None THEN Fresh ELSE row
               r == [call[Operator] EXCEPT !.snap = s, !.at = "insert"]
    <2>1. call[Operator].at = "load" /\ UNCHANGED <<agent, cache, row, count>>
      BY <1>4 DEF Load, At
    <2>2. call' = [call EXCEPT ![Operator] = r]
      BY <1>4 DEF Load
    <2>3. OneMoves(Operator) /\ call'[Operator] = r
      BY <1>1, <2>2, MovesOne
    <2>4. r.at = "insert" /\ r.snap = s
      BY <1>1 DEF CallRecord
    <2>5. 2 * s.tokens <= Ceiling(Past)
      <3>1. row = None => s.tokens = 0
        BY DEF Fresh
      <3>2. row # None => 2 * s.tokens <= Ceiling(Past)
        BY DEF SInv, Spend, SavedInv, Within
      <3> QED BY <3>1, <3>2, Numbers
    <2> HIDE DEF r, s
    <2>6. Connecting /\ Connecting' /\ Past' = Past
      BY <2>1, <2>3, <2>4 DEF Connecting, Past
    <2>7. agent' = None /\ count'.all >= 1
      BY <2>1, <2>6 DEF SInv, Spend, Places
    <2> QED BY <2>1, <2>3, <2>4, <2>5, <2>6, <2>7, OperatorKeeps
  <1>5. CASE Disconnect
    <2> DEFINE s == [agent EXCEPT !.version = @ + 1]
               r == [call[Operator] EXCEPT !.snap = s, !.at = "cache"]
    <2>1. /\ call[Operator].at = "idle" /\ agent # None /\ agent' = None
          /\ UNCHANGED <<cache, row, count>>
      BY <1>5 DEF Disconnect, At
    <2>2. call' = [call EXCEPT ![Operator] = r]
      BY <1>5 DEF Disconnect
    <2>3. OneMoves(Operator) /\ call'[Operator] = r
      BY <1>1, <2>2, MovesOne
    <2>4. r.at = "cache" /\ r.snap = s /\ s.tokens = agent.tokens
      BY <1>1, <2>1, AgentFields DEF CallRecord, Snapshot
    <2> HIDE DEF r, s
    <2>5. 2 * r.snap.tokens <= Ceiling(Past)
      BY <2>1, <2>4, AgentWithin
    <2>6. ~Connecting' /\ Past' = Past
      BY <2>1, <2>3, <2>4 DEF Connecting, Past
    <2> QED BY <2>1, <2>3, <2>4, <2>5, <2>6, OperatorKeeps
  <1> QED BY <1>2, <1>3, <1>4, <1>5

(* The calls that are in flight when the agent comes back are the share of *)
(* the new connection.                                                     *)
LEMMA InsertSpend == ASSUME SInv, Insert PROVE Spend'
  <1>1. /\ Operator \in Proc /\ call[Operator].at = "insert"
        /\ agent' = call[Operator].snap /\ call' = [call EXCEPT ![Operator] = Idle]
        /\ UNCHANGED <<now, cache, row, count>> /\ IInv
    BY Constants DEF Insert, Return, At, SInv
  <1>2. OneMoves(Operator) /\ call'[Operator] = Idle /\ Idle.at = "idle" /\ Idle.snap.tokens = 0
    BY <1>1, MovesOne DEF Idle
  <1>3. \A c \in Proc : c # Operator => call'[c] = call[c]
    BY <1>2 DEF OneMoves
  <1>4. /\ Connecting /\ ~Connecting' /\ count.all >= 1 /\ count.all \in Nat
        /\ Past = count.all - 1 /\ Past' = count.all
    BY <1>1, <1>2, Numbers DEF Connecting, Past, SInv, Spend, Places
  <1>5. Past \in Nat /\ Ceiling(count.all) = Ceiling(Past) + PerConnection /\ Ceiling(Past) \in Nat
    <2>1. Past \in Nat /\ count.all = Past + 1
      BY <1>4
    <2> QED BY <2>1, Ceilings
  <1>6. Places'
    BY <1>1, <1>2, <1>3, <1>4, Constants DEF SInv, Spend, Places, At, Connecting
  <1>7. SavedInv'
    <2>1. Ceiling(Past) <= Ceiling(Past') /\ Ceiling(Past') \in Nat
      BY <1>4, <1>5, Constants
    <2>2. ASSUME NEW n \in Nat, 2 * n <= Ceiling(Past)
          PROVE  2 * n <= Ceiling(Past')
      BY <1>5, <2>1, <2>2
    <2>3. \A c \in Proc : call[c].snap.tokens \in Nat /\ 2 * call[c].snap.tokens <= Ceiling(Past)
      BY <1>1, CallFields DEF SInv, Spend, SavedInv, Within, Snapshot
    <2>4. \A c \in Proc : 2 * call'[c].snap.tokens <= Ceiling(Past')
      BY <1>2, <1>3, <2>1, <2>2, <2>3
    <2>5. /\ cache # None => 2 * cache.tokens <= Ceiling(Past')
          /\ row # None => 2 * row.tokens <= Ceiling(Past')
      <3>1. /\ cache # None => cache.tokens \in Nat /\ 2 * cache.tokens <= Ceiling(Past)
            /\ row # None => row.tokens \in Nat /\ 2 * row.tokens <= Ceiling(Past)
        BY DEF SInv, IInv, Spend, SavedInv, Within, Snapshot
      <3> QED BY <2>2, <3>1
    <2> QED BY <1>1, <2>4, <2>5 DEF SavedInv, Within
  <1>8. BudgetInv'
    <2>1. agent'.tokens \in Nat /\ 2 * agent'.tokens <= Ceiling(Past)
      BY <1>1, CallFields DEF SInv, Spend, SavedInv, Within, Snapshot
    <2>2. 2 * agent'.tokens + MaxUsage * Open' <= Ceiling(count.all)
      BY <1>5, <2>1, Numbers, Constants
    <2> QED BY <1>1, <2>2 DEF BudgetInv
  <1> QED BY <1>6, <1>7, <1>8 DEF Spend

LEMMA CrashSpend == ASSUME SInv, Crash PROVE Spend'
  <1>1. /\ count'.all = count.all /\ agent' = None /\ cache' = row /\ row' = row
        /\ \A c \in Proc : call'[c] = Idle
    BY DEF Crash, SInv, IInv
  <1>2. Idle.at = "idle" /\ Idle.used = 0 /\ Idle.snap.tokens = 0
    BY DEF Idle
  <1>3. ~Connecting' /\ Past' = count.all /\ Operator \in Proc
    BY <1>1, <1>2, Constants DEF Connecting, Past
  <1>4. Places'
    BY <1>1, <1>2, <1>3, Constants DEF Places, At
  <1>5. Ceiling(Past) <= Ceiling(Past') /\ Ceiling(Past') \in Nat
    <2>1. Past = count.all \/ (Past + 1 = count.all /\ Past \in Nat)
      BY Numbers DEF Past
    <2> QED BY <1>3, <2>1, Ceilings, Numbers, Constants
  <1>6. SavedInv'
    <2>1. row # None => row.tokens \in Nat /\ 2 * row.tokens <= Ceiling(Past)
      BY DEF SInv, IInv, Spend, SavedInv, Within, Snapshot
    <2>2. row # None => 2 * row.tokens <= Ceiling(Past')
      BY <1>5, <2>1, Numbers
    <2> QED BY <1>1, <1>2, <1>5, <2>2 DEF SavedInv, Within
  <1> QED BY <1>1, <1>4, <1>6 DEF Spend, BudgetInv

LEMMA TickSpend == ASSUME SInv, Tick \/ UNCHANGED vars PROVE Spend'
  <1>1. UNCHANGED <<agent, cache, row, call, count>>
    BY DEF Tick, vars
  <1> QED BY <1>1 DEF SInv, Spend, Places, SavedInv, BudgetInv, Within, Past, Connecting, At, Open, OpenOf,
                      CommittedCalls, ZeroingCalls, Committed

LEMMA InitSpend == Init => Spend
  <1> SUFFICES ASSUME Init PROVE Spend
    OBVIOUS
  <1>1. /\ agent = None /\ cache = None /\ row = None /\ count.all = 0
        /\ \A c \in Proc : call[c] = Idle
    BY DEF Init
  <1>2. Idle.at = "idle" /\ Idle.used = 0 /\ Idle.snap.tokens = 0
    BY DEF Idle
  <1>3. ~Connecting /\ Past = 0
    BY <1>1, <1>2, Constants DEF Connecting, Past
  <1>4. Ceiling(Past) \in Nat
    BY <1>3, Ceilings
  <1> QED BY <1>1, <1>2, <1>3, <1>4, Constants DEF Spend, Places, SavedInv, BudgetInv, Within, At

LEMMA NextSpend == SInv /\ [Next]_vars => Spend'
  <1> SUFFICES ASSUME SInv, [Next]_vars PROVE Spend'
    OBVIOUS
  <1>1. CASE \E c \in Proc : CallStep(c)
    <2>1. PICK c \in Proc : CallStep(c)
      BY <1>1
    <2>2. CASE c \in Caller
      BY <2>1, <2>2, LookSpend, SwapSpend, ZeroSpend, ReadSpend, AddSpend, SnapshotSpend, PersistSpend
         DEF CallStep
    <2>3. CASE c = Operator
      <3>1. call[Operator].at \in {"idle", "load", "insert", "cache", "store"}
        BY DEF SInv, Spend, Places
      <3>2. CacheSnapshot(Operator) \/ Store(Operator)
        BY <2>1, <2>3, <3>1
           DEF CallStep, At, Look, Swap, Zero, Read, Add, FetchVersion, LoadTokens, LoadStart
      <3> QED BY <3>2, OperatorSpend
    <2> QED BY <2>2, <2>3 DEF Proc
  <1>2. CASE \E c \in Caller : Check(c) \/ Untracked(c) \/ InferFails(c) \/ Record(c)
    BY <1>2, GateSpend
  <1>3. CASE Connect \/ Load \/ Insert \/ Disconnect
    BY <1>3, OperatorSpend, InsertSpend
  <1>4. CASE Crash
    BY <1>4, CrashSpend
  <1>5. CASE Tick \/ UNCHANGED vars
    BY <1>5, TickSpend
  <1> QED BY <1>1, <1>2, <1>3, <1>4, <1>5 DEF Next

(* What an agent spends beyond its limit is bounded by the calls in        *)
(* flight: with N callers, N + (N-1) + ... + 1 calls for each connection,  *)
(* whatever the limit, the number of callers, of days, of connections and  *)
(* of crashes, and however the roll of the period interleaves with checks  *)
(* and records (check_budget, maybe_roll_period).                          *)
THEOREM SpendBounded == Spec => []SpendBound
  <1>1. Init => SInv
    BY InitInv, InitSpend DEF SInv
  <1>2. SInv /\ [Next]_vars => SInv'
    BY NextInv, NextSpend DEF SInv
  <1>3. ASSUME SInv
        PROVE  SpendBound
    <2>1. CASE agent # None
      <3>1. /\ 2 * agent.tokens <= Ceiling(Past) /\ Past = count.all
        BY <1>3, <2>1, AgentWithin, Numbers
      <3> QED BY <3>1 DEF SpendBound, Ceiling, PerConnection, Callers
    <2>2. CASE agent = None
      BY <2>2 DEF SpendBound
    <2> QED BY <2>1, <2>2
  <1>4. SInv => SpendBound
    BY <1>3
  <1> QED BY <1>1, <1>2, <1>4, PTL DEF Spec

-----------------------------------------------------------------------------
(* The stored usage.  The snapshot with the newest version covers what the *)
(* agent has used: it is in the hands of a call that has yet to store it,  *)
(* or it is in the row.                                                    *)

Fetched(c) == call[c].at \in {"tokens", "start", "cache", "store"}
Newest(c)  == Fetched(c) /\ call[c].snap.version = agent.version

Covers(s) ==
    /\ agent.tokens <= s.tokens
    /\ agent.tokens = 0 \/ s.start = agent.start \/ Rolling

Holds(c) ==
    /\ Newest(c)
    /\ \/ At(c, "tokens")
       \/ At(c, "start") /\ agent.tokens <= call[c].snap.tokens
       \/ Covers(call[c].snap)

Covered ==
    \/ \E c \in Caller : At(c, "version")
    \/ \E c \in Caller : Holds(c)
    \/ row # None /\ row.version = agent.version /\ Covers(row)
    \/ row = None /\ agent.version = 0 /\ agent.tokens = 0

(* Versions tell snapshots apart where it matters: the newest is one.      *)
Versions ==
    /\ \A c \in Caller : Fetched(c) => call[c].snap.version \in 1..agent.version
    /\ row # None => row.version <= agent.version
    /\ \A c, d \in Caller : Newest(c) /\ Newest(d) => c = d
    /\ \A c \in Caller : Newest(c) => row = None \/ row.version # agent.version

(* Up to the first connection of a boot, everything is as the last crash   *)
(* left the table.                                                         *)
StoredInv ==
    count.connect <= 1 =>
      /\ agent # None => At(Operator, "idle") /\ Versions /\ Covered
      /\ count.connect = 0 =>
            /\ agent = None /\ cache = row /\ At(Operator, "idle")
            /\ \A c \in Caller : At(c, "idle")
      /\ Connecting => \A c \in Caller : ~Unsaved(c)
      /\ At(Operator, "load") => row = None
      /\ At(Operator, "insert") =>
            IF row = None THEN call[Operator].snap.tokens = 0 /\ call[Operator].snap.version = 0
                          ELSE call[Operator].snap = row

TInv == SInv /\ StoredInv

LEMMA VersionsStay ==
  ASSUME Versions, NEW c \in Caller, OneMoves(c), agent'.version = agent.version, row' = row,
         Fetched(c)' => Fetched(c) /\ call'[c].snap.version = call[c].snap.version
  PROVE  Versions'
  <1>1. \A d \in Caller : Fetched(d)' => Fetched(d) /\ call'[d].snap.version = call[d].snap.version
    <2> SUFFICES ASSUME NEW d \in Caller, Fetched(d)'
                 PROVE  Fetched(d) /\ call'[d].snap.version = call[d].snap.version
      OBVIOUS
    <2>1. CASE d = c
      BY <2>1
    <2>2. CASE d # c
      BY <2>2, Constants DEF OneMoves, Fetched
    <2> QED BY <2>1, <2>2
  <1>2. \A d \in Caller : Newest(d)' => Newest(d)
    BY <1>1 DEF Newest
  <1> QED BY <1>1, <1>2 DEF Versions

(* A call that holds no version moves.                                     *)
LEMMA CoverStays ==
  ASSUME Covered, NEW c \in Caller, OneMoves(c), row' = row, agent'.version = agent.version,
         agent'.tokens \in Nat, \A s \in Snapshot : s.tokens \in Nat,
         row # None => row \in Snapshot, \A d \in Caller : call[d].snap \in Snapshot,
         ~Fetched(c), ~At(c, "version"),
         \/ agent' = agent /\ (Rolling => Rolling')
         \/ agent'.tokens = 0
         \/ agent'.tokens = agent.tokens /\ Rolling'
  PROVE  Covered'
  <1>1. \A s \in Snapshot : Covers(s) => s.tokens >= agent'.tokens /\ (agent'.tokens = 0 \/ s.start = agent'.start \/ Rolling')
    BY DEF Covers
  <1>2. \A d \in Caller \ {c} : call'[d] = call[d]
    BY Constants DEF OneMoves
  <1>3. CASE \E d \in Caller : At(d, "version")
    BY <1>2, <1>3 DEF Covered, At
  <1>4. CASE \E d \in Caller : Holds(d)
    <2>1. PICK d \in Caller : Holds(d)
      BY <1>4
    <2>2. d # c /\ call'[d] = call[d] /\ call[d].snap \in Snapshot
      BY <1>2, <2>1 DEF Holds, Newest
    <2>3. Newest(d)'
      BY <2>1, <2>2 DEF Holds, Newest, Fetched
    <2>4. CASE At(d, "tokens")
      BY <2>2, <2>3, <2>4 DEF Holds, Covered, At
    <2>5. CASE At(d, "start") /\ agent.tokens <= call[d].snap.tokens
      <3>1. agent'.tokens <= call[d].snap.tokens
        BY <2>2, <2>5
      <3> QED BY <2>2, <2>3, <2>5, <3>1 DEF Holds, Covered, At
    <2>6. CASE Covers(call[d].snap)
      <3>1. Covers(call[d].snap)'
        BY <1>1, <2>2, <2>6 DEF Covers
      <3> QED BY <2>3, <3>1 DEF Holds, Covered
    <2> QED BY <2>1, <2>4, <2>5, <2>6 DEF Holds
  <1>5. CASE row # None /\ row.version = agent.version /\ Covers(row)
    <2>1. Covers(row)'
      BY <1>1, <1>5 DEF Covers
    <2> QED BY <1>5, <2>1 DEF Covered
  <1>6. CASE row = None /\ agent.version = 0 /\ agent.tokens = 0
    BY <1>6 DEF Covered
  <1> QED BY <1>3, <1>4, <1>5, <1>6 DEF Covered

(* A call goes on with the version it holds.                               *)
LEMMA HolderGoes ==
  ASSUME Covered, NEW c \in Caller, OneMoves(c), row' = row, agent' = agent,
         ~At(c, "version"), Rolling => Rolling', Holds(c) => Holds(c)'
  PROVE  Covered'
  <1>1. \A d \in Caller \ {c} : call'[d] = call[d]
    BY Constants DEF OneMoves
  <1>2. \A s : Covers(s) => (agent.tokens <= s.tokens /\ (agent.tokens = 0 \/ s.start = agent.start \/ Rolling'))
    BY DEF Covers
  <1>3. CASE \E d \in Caller : At(d, "version")
    BY <1>1, <1>3 DEF Covered, At
  <1>4. CASE \E d \in Caller : Holds(d)
    <2>1. PICK d \in Caller : Holds(d)
      BY <1>4
    <2>2. CASE d = c
      BY <2>1, <2>2 DEF Covered
    <2>3. CASE d # c
      <3>1. call'[d] = call[d]
        BY <1>1, <2>3
      <3>2. Covers(call[d].snap) => Covers(call[d].snap)'
        BY <1>2, <3>1 DEF Covers
      <3>3. Holds(d)'
        BY <2>1, <3>1, <3>2 DEF Holds, Newest, Fetched, At
      <3> QED BY <3>3 DEF Covered
    <2> QED BY <2>2, <2>3
  <1>5. CASE row # None /\ row.version = agent.version /\ Covers(row)
    BY <1>2, <1>5 DEF Covered, Covers
  <1>6. CASE row = None /\ agent.version = 0 /\ agent.tokens = 0
    BY <1>6 DEF Covered
  <1> QED BY <1>3, <1>4, <1>5, <1>6 DEF Covered

LEMMA RollingStays ==
  ASSUME NEW c \in Caller, OneMoves(c), ~At(c, "zero") \/ call'[c].at = "zero"
  PROVE  Rolling => Rolling'
  <1> SUFFICES ASSUME Rolling PROVE Rolling'
    OBVIOUS
  <1>1. PICK d \in Caller : At(d, "zero")
    BY DEF Rolling
  <1>2. At(d, "zero")'
    BY <1>1, Constants DEF OneMoves, At
  <1> QED BY <1>2 DEF Rolling

(* While the agent is connected for the first time.                        *)
InUse == SInv /\ count.connect <= 1 /\ agent # None /\ Versions /\ Covered

LEMMA UseTypes ==
  ASSUME InUse
  PROVE  /\ agent \in Snapshot /\ agent.tokens \in Nat /\ agent.start \in Nat
         /\ agent.version \in Nat
         /\ \A s \in Snapshot : s.tokens \in Nat /\ s.version \in Nat
         /\ row # None => row \in Snapshot
         /\ \A d \in Caller : call[d].snap \in Snapshot
  BY AgentFields, CallFields, Constants DEF InUse, SInv, IInv, Snapshot

(* A step of a call that holds no version before or after.                 *)
LEMMA UseByOthers ==
  ASSUME InUse, NEW c \in Caller, OneMoves(c), row' = row, agent'.version = agent.version,
         agent'.tokens \in Nat, ~Fetched(c), ~Fetched(c)', ~At(c, "version"),
         \/ agent' = agent /\ (Rolling => Rolling')
         \/ agent'.tokens = 0
         \/ agent'.tokens = agent.tokens /\ Rolling'
  PROVE  Versions' /\ Covered'
  BY VersionsStay, CoverStays, UseTypes DEF InUse

LEMMA RollUse ==
  ASSUME InUse, NEW c \in Caller, Look(c) \/ Swap(c) \/ Zero(c)
  PROVE  Versions' /\ Covered'
  <1>1. /\ SInv /\ call[c] \in CallRecord /\ agent \in Snapshot
        /\ row' = row /\ call[c].at \in {"look", "swap", "zero"}
    BY UseTypes, CallerHas DEF InUse, Look, Swap, Zero, At
  <1>2. ~Fetched(c) /\ ~At(c, "version")
    BY <1>1 DEF Fetched, At
  <1>3. CASE Look(c)
    <2> DEFINE l == IF PeriodExpired(call[c].time, agent.start) THEN "swap" ELSE AfterRoll(c)
               r == [call[c] EXCEPT !.seen = agent.start, !.at = l]
    <2>1. call' = [call EXCEPT ![c] = r] /\ agent' = agent /\ At(c, "look")
      BY <1>3 DEF Look
    <2>2. OneMoves(c) /\ call'[c] = r
      BY <1>1, <2>1, CallerHas, MovesOne
    <2>3. r.at \in {"swap", "read", "add"}
      BY <1>1 DEF CallRecord, AfterRoll
    <2> HIDE DEF r, l
    <2>4. ~Fetched(c)' /\ ~At(c, "zero")
      BY <2>1, <2>2, <2>3 DEF Fetched, At
    <2> QED BY <1>1, <1>2, <2>1, <2>2, <2>4, RollingStays, UseByOthers, UseTypes
  <1>4. CASE Swap(c)
    <2>1. PICK l \in {"zero", AfterRoll(c)} :
             /\ call' = [call EXCEPT ![c] = [call[c] EXCEPT !.at = l, !.rolled = TRUE]]
             /\ \/ l = "zero" /\ agent' = [agent EXCEPT !.start = call[c].time]
                \/ l = AfterRoll(c) /\ agent' = agent
      BY <1>4 DEF Swap
    <2> DEFINE r == [call[c] EXCEPT !.at = l, !.rolled = TRUE]
    <2>2. OneMoves(c) /\ call'[c] = r
      BY <1>1, <2>1, CallerHas, MovesOne
    <2>3. r.at = l /\ l \in {"zero", "read", "add"}
      BY <1>1 DEF CallRecord, AfterRoll
    <2> HIDE DEF r
    <2>4. ~Fetched(c)' /\ ~At(c, "zero")
      BY <1>4, <2>2, <2>3 DEF Swap, Fetched, At
    <2>5. CASE l = "zero" /\ agent' = [agent EXCEPT !.start = call[c].time]
      <3>1. Rolling'
        BY <2>2, <2>3, <2>5 DEF Rolling, At
      <3>2. agent'.tokens = agent.tokens /\ agent'.version = agent.version
        BY <1>1, <2>5 DEF Snapshot
      <3> QED BY <1>1, <1>2, <2>2, <2>4, <3>1, <3>2, UseByOthers, UseTypes
    <2>6. CASE agent' = agent
      BY <1>1, <1>2, <2>2, <2>4, <2>6, RollingStays, UseByOthers, UseTypes
    <2> QED BY <2>1, <2>5, <2>6
  <1>5. CASE Zero(c)
    <2> DEFINE r == [call[c] EXCEPT !.at = AfterRoll(c)]
    <2>1. call' = [call EXCEPT ![c] = r] /\ agent' = [agent EXCEPT !.tokens = 0]
      BY <1>5 DEF Zero, Goto
    <2>2. OneMoves(c) /\ call'[c] = r
      BY <1>1, <2>1, CallerHas, MovesOne
    <2>3. r.at \in {"read", "add"}
      BY <1>1 DEF CallRecord, AfterRoll
    <2> HIDE DEF r
    <2>4. ~Fetched(c)'
      BY <2>2, <2>3 DEF Fetched
    <2>5. agent'.tokens = 0 /\ agent'.version = agent.version
      BY <1>1, <2>1 DEF Snapshot
    <2> QED BY <1>1, <1>2, <2>2, <2>4, <2>5, UseByOthers
  <1> QED BY <1>3, <1>4, <1>5

LEMMA GateUse ==
  ASSUME InUse, NEW c \in Caller, Read(c) \/ Check(c) \/ InferFails(c) \/ Record(c)
  PROVE  Versions' /\ Covered'
  <1>1. /\ SInv /\ call[c] \in CallRecord /\ agent' = agent
        /\ row' = row /\ call[c].at \in {"read", "idle", "infer"}
    BY CallerHas DEF InUse, Read, Check, InferFails, Record, At
  <1>2. PICK r : call' = [call EXCEPT ![c] = r] /\ r.at \in {"infer", "idle", "look"}
    <2>1. Idle.at = "idle" /\ [call[c] EXCEPT !.at = "infer"].at = "infer"
      BY <1>1 DEF Idle, CallRecord
    <2>2. CASE Read(c)
      BY <2>1, <2>2 DEF Read, Goto, Return
    <2>3. CASE Check(c)
      <3> DEFINE r == [Idle EXCEPT !.at = "look", !.why = "check", !.used = 0, !.time = now]
      <3>1. call' = [call EXCEPT ![c] = r] /\ r.at = "look"
        BY <2>3 DEF Check, Enter, Idle
      <3> QED BY <3>1
    <2>4. CASE InferFails(c)
      BY <2>1, <2>4 DEF InferFails, Return
    <2>5. CASE Record(c)
      <3>1. PICK used \in 1..MaxUsage : Enter(c, "record", used, "look")
        BY <2>5 DEF Record
      <3> DEFINE r == [Idle EXCEPT !.at = "look", !.why = "record", !.used = used, !.time = now]
      <3>2. call' = [call EXCEPT ![c] = r] /\ r.at = "look"
        BY <3>1 DEF Enter, Idle
      <3> QED BY <3>2
    <2> QED BY <2>2, <2>3, <2>4, <2>5
  <1>3. OneMoves(c) /\ call'[c] = r
    BY <1>1, <1>2, CallerHas, MovesOne
  <1>4. ~Fetched(c) /\ ~Fetched(c)' /\ ~At(c, "version") /\ ~At(c, "zero")
    BY <1>1, <1>2, <1>3 DEF Fetched, At
  <1> QED BY <1>1, <1>3, <1>4, RollingStays, UseByOthers, UseTypes

LEMMA AddUse == ASSUME InUse, NEW c \in Caller, Add(c) PROVE Versions' /\ Covered'
  <1> DEFINE r == [call[c] EXCEPT !.at = "version"]
  <1>1. /\ SInv /\ call[c] \in CallRecord /\ agent \in Snapshot /\ row' = row /\ At(c, "add")
        /\ agent' = [agent EXCEPT !.tokens = @ + call[c].used] /\ call' = [call EXCEPT ![c] = r]
    BY UseTypes, CallerHas DEF InUse, Add, Goto
  <1>2. OneMoves(c) /\ call'[c] = r
    BY <1>1, CallerHas, MovesOne
  <1>3. r.at = "version"
    BY <1>1 DEF CallRecord
  <1> HIDE DEF r
  <1>4. At(c, "version")' /\ ~Fetched(c)' /\ agent'.version = agent.version
    BY <1>1, <1>2, <1>3 DEF At, Fetched, Snapshot
  <1>5. Covered'
    BY <1>4 DEF Covered
  <1>6. Versions'
    BY <1>1, <1>2, <1>4, VersionsStay DEF InUse
  <1> QED BY <1>5, <1>6

(* The version that is handed out is newer than any.                       *)
LEMMA FetchUse == ASSUME InUse, NEW c \in Caller, FetchVersion(c) PROVE Versions' /\ Covered'
  <1> DEFINE s == [call[c].snap EXCEPT !.version = agent.version + 1]
             r == [call[c] EXCEPT !.snap = s, !.at = "tokens"]
  <1>1. /\ SInv /\ call[c] \in CallRecord /\ call[c].snap \in Snapshot
        /\ agent \in Snapshot /\ agent.version \in Nat /\ row' = row
        /\ agent' = [agent EXCEPT !.version = @ + 1] /\ call' = [call EXCEPT ![c] = r]
    BY UseTypes, CallerHas DEF InUse, FetchVersion
  <1>2. OneMoves(c) /\ call'[c] = r
    BY <1>1, CallerHas, MovesOne
  <1>3. r.at = "tokens" /\ r.snap.version = agent.version + 1 /\ agent'.version = agent.version + 1
    BY <1>1 DEF CallRecord, Snapshot
  <1> HIDE DEF r, s
  <1>4. Newest(c)' /\ At(c, "tokens")'
    BY <1>2, <1>3 DEF Newest, Fetched, At
  <1>5. Covered'
    BY <1>4 DEF Covered, Holds
  <1>6. ASSUME NEW d \in Caller, d # c, Fetched(d)'
        PROVE  call'[d].snap.version \in 1..agent.version
    <2>1. call'[d] = call[d]
      BY <1>2, <1>6, Constants DEF OneMoves
    <2> QED BY <1>6, <2>1 DEF InUse, Versions, Fetched
  <1>7. \A d \in Caller : Newest(d)' => d = c
    BY <1>1, <1>3, <1>6 DEF Newest
  <1>8. row # None => row.version <= agent.version /\ row.version \in Nat
    BY UseTypes DEF InUse, Versions
  <1>9. \A d \in Caller : Fetched(d)' => call'[d].snap.version \in 1..agent'.version
    BY <1>1, <1>2, <1>3, <1>6
  <1>10. row' # None => row'.version < agent'.version
    BY <1>1, <1>3, <1>8
  <1>11. row' # None => row'.version <= agent'.version /\ row'.version # agent'.version
    BY <1>1, <1>3, <1>8, <1>10
  <1>12. Versions'
    BY <1>7, <1>9, <1>11 DEF Versions
  <1> QED BY <1>5, <1>12

LEMMA LoadUse ==
  ASSUME InUse, NEW c \in Caller, LoadTokens(c) \/ LoadStart(c) \/ CacheSnapshot(c)
  PROVE  Versions' /\ Covered'
  <1>1. /\ SInv /\ call[c] \in CallRecord /\ call[c].snap \in Snapshot
        /\ agent \in Snapshot /\ agent.tokens \in Nat /\ row' = row /\ agent' = agent
        /\ call[c].at \in {"tokens", "start", "cache"}
    BY UseTypes, CallerHas DEF InUse, LoadTokens, LoadStart, CacheSnapshot, At
  <1>2. PICK s \in Snapshot, l \in {"start", "cache", "store"} :
           /\ call' = [call EXCEPT ![c] = [call[c] EXCEPT !.snap = s, !.at = l]]
           /\ s.version = call[c].snap.version
           /\ \/ l = "start" /\ s.tokens = agent.tokens
              \/ l = "cache" /\ At(c, "start") /\ s.tokens = call[c].snap.tokens /\ s.start = agent.start
              \/ l = "store" /\ At(c, "cache") /\ s = call[c].snap
    <2>1. CASE LoadTokens(c)
      <3> DEFINE s == [call[c].snap EXCEPT !.tokens = agent.tokens]
      <3>1. s \in Snapshot /\ s.tokens = agent.tokens /\ s.version = call[c].snap.version
        BY <1>1 DEF Snapshot
      <3>2. call' = [call EXCEPT ![c] = [call[c] EXCEPT !.snap = s, !.at = "start"]]
        BY <2>1 DEF LoadTokens
      <3> QED BY <3>1, <3>2
    <2>2. CASE LoadStart(c)
      <3> DEFINE s == [call[c].snap EXCEPT !.start = agent.start]
      <3>1. /\ s \in Snapshot /\ s.tokens = call[c].snap.tokens /\ s.start = agent.start
            /\ s.version = call[c].snap.version
        BY <1>1 DEF Snapshot
      <3>2. call' = [call EXCEPT ![c] = [call[c] EXCEPT !.snap = s, !.at = "cache"]]
        BY <2>2 DEF LoadStart
      <3> QED BY <2>2, <3>1, <3>2 DEF LoadStart
    <2>3. CASE CacheSnapshot(c)
      <3>1. call' = [call EXCEPT ![c] = [call[c] EXCEPT !.snap = call[c].snap, !.at = "store"]]
        <4>1. [call[c] EXCEPT !.snap = call[c].snap, !.at = "store"] = [call[c] EXCEPT !.at = "store"]
          BY <1>1 DEF CallRecord
        <4> QED BY <2>3, <4>1 DEF CacheSnapshot, Goto
      <3> QED BY <1>1, <2>3, <3>1 DEF CacheSnapshot
    <2> QED BY <2>1, <2>2, <2>3
  <1> DEFINE r == [call[c] EXCEPT !.snap = s, !.at = l]
  <1>3. OneMoves(c) /\ call'[c] = r
    BY <1>1, <1>2, CallerHas, MovesOne
  <1>4. r.at = l /\ r.snap = s
    BY <1>1 DEF CallRecord
  <1> HIDE DEF r
  <1>5. Fetched(c) /\ Fetched(c)' /\ ~At(c, "version") /\ ~At(c, "zero")
    BY <1>1, <1>3, <1>4 DEF Fetched, At
  <1>6. call'[c].snap = s /\ call'[c].at = l
    BY <1>3, <1>4
  <1>7. Rolling => Rolling'
    BY <1>3, <1>5, RollingStays
  <1>8. Holds(c) => Holds(c)'
    <2> SUFFICES ASSUME Holds(c) PROVE Holds(c)'
      OBVIOUS
    <2>1. Newest(c)'
      BY <1>1, <1>2, <1>5, <1>6 DEF Holds, Newest
    <2>2. CASE l = "start" /\ s.tokens = agent.tokens
      BY <1>1, <1>6, <2>1, <2>2 DEF Holds, At
    <2>3. CASE l = "cache" /\ At(c, "start") /\ s.tokens = call[c].snap.tokens /\ s.start = agent.start
      <3>1. agent.tokens <= call[c].snap.tokens
        BY <2>3 DEF Holds, At, Covers
      <3>2. Covers(call[c].snap)'
        BY <1>1, <1>6, <2>3, <3>1 DEF Covers
      <3> QED BY <2>1, <3>2 DEF Holds
    <2>4. CASE l = "store" /\ At(c, "cache") /\ s = call[c].snap
      <3>1. Covers(call[c].snap)
        BY <2>4 DEF Holds, At
      <3>2. Covers(call[c].snap)'
        BY <1>1, <1>6, <1>7, <2>4, <3>1 DEF Covers
      <3> QED BY <2>1, <3>2 DEF Holds
    <2> QED BY <1>2, <2>2, <2>3, <2>4
  <1>9. Covered'
    BY <1>1, <1>3, <1>5, <1>7, <1>8, HolderGoes DEF InUse
  <1>10. Versions'
    BY <1>1, <1>2, <1>3, <1>5, <1>6, VersionsStay DEF InUse
  <1> QED BY <1>9, <1>10

(* The newest snapshot reaches the row, and an older one leaves it there.  *)
LEMMA StoreUse == ASSUME InUse, NEW c \in Caller, Store(c) PROVE Versions' /\ Covered'
  <1>1. /\ SInv /\ call[c].snap \in Snapshot /\ agent' = agent /\ At(c, "store")
        /\ call' = [call EXCEPT ![c] = Idle] /\ agent.version \in Nat /\ agent.tokens \in Nat
        /\ row' = IF row = None \/ call[c].snap.version >= row.version THEN call[c].snap ELSE row
    BY UseTypes DEF InUse, Store, Return
  <1>2. OneMoves(c) /\ call'[c] = Idle /\ Idle.at = "idle"
    BY <1>1, CallerHas, MovesOne DEF Idle
  <1>3. Fetched(c) /\ ~Fetched(c)' /\ ~At(c, "version") /\ ~At(c, "zero")
    BY <1>1, <1>2 DEF Fetched, At
  <1>4. \A d \in Caller \ {c} : call'[d] = call[d]
    BY <1>2, Constants DEF OneMoves
  <1>5. Rolling => Rolling'
    BY <1>2, <1>3, RollingStays
  <1>6. call[c].snap.version \in 1..agent.version /\ (row # None => row.version \in Nat /\ row.version <= agent.version)
    BY <1>3, UseTypes DEF InUse, Versions
  <1>7. \A d \in Caller : Newest(d)' => d # c /\ Newest(d)
    BY <1>1, <1>3, <1>4 DEF Newest, Fetched
  <1>8. row' \in {row, call[c].snap} /\ row' # None
    BY <1>1, Values
  <1>9. Versions'
    <2>1. \A d \in Caller : Fetched(d)' => call'[d].snap.version \in 1..agent'.version
      <3> SUFFICES ASSUME NEW d \in Caller, Fetched(d)'
                   PROVE  call'[d].snap.version \in 1..agent'.version
        OBVIOUS
      <3>1. d # c /\ call'[d] = call[d] /\ Fetched(d)
        BY <1>3, <1>4 DEF Fetched
      <3> QED BY <1>1, <3>1 DEF InUse, Versions
    <2>2. row'.version <= agent'.version
      BY <1>1, <1>6, <1>8
    <2>3. \A d \in Caller : Newest(d)' => row'.version # agent'.version
      <3> SUFFICES ASSUME NEW d \in Caller, Newest(d)'
                   PROVE  row'.version # agent'.version
        OBVIOUS
      <3>1. d # c /\ Newest(d)
        BY <1>7
      <3>2. ~Newest(c) /\ (row = None \/ row.version # agent.version)
        BY <3>1 DEF InUse, Versions
      <3> QED BY <1>1, <1>3, <1>8, <3>2 DEF Newest
    <2> QED BY <1>7, <2>1, <2>2, <2>3 DEF InUse, Versions
  <1>10. Covered'
    <2>1. \A s : Covers(s) => (agent.tokens <= s.tokens /\ (agent.tokens = 0 \/ s.start = agent.start \/ Rolling'))
      BY <1>5 DEF Covers
    <2>2. CASE \E d \in Caller : At(d, "version")
      BY <1>1, <1>4, <2>2 DEF Covered, At
    <2>3. CASE \E d \in Caller : Holds(d)
      <3>1. PICK d \in Caller : Holds(d)
        BY <2>3
      <3>2. CASE d # c
        <4>1. call'[d] = call[d]
          BY <1>4, <3>2
        <4>2. Covers(call[d].snap) => Covers(call[d].snap)'
          BY <1>1, <2>1, <4>1 DEF Covers
        <4>3. Holds(d)'
          BY <1>1, <3>1, <4>1, <4>2 DEF Holds, Newest, Fetched, At
        <4> QED BY <4>3 DEF Covered
      <3>3. CASE d = c
        <4>1. Covers(call[c].snap) /\ call[c].snap.version = agent.version
          BY <1>1, <3>1, <3>3 DEF Holds, Newest, At
        <4>2. row' = call[c].snap
          BY <1>1, <1>6, <4>1
        <4>3. Covers(row)'
          BY <1>1, <2>1, <4>1, <4>2 DEF Covers
        <4> QED BY <1>1, <1>8, <4>1, <4>2, <4>3 DEF Covered
      <3> QED BY <3>2, <3>3
    <2>4. CASE row # None /\ row.version = agent.version /\ Covers(row)
      <3>1. call[c].snap.version # agent.version
        BY <1>3, <2>4 DEF InUse, Versions, Newest
      <3>2. row' = row
        BY <1>1, <1>6, <2>4, <3>1
      <3>3. Covers(row)'
        BY <1>1, <2>1, <2>4, <3>2 DEF Covers
      <3> QED BY <1>1, <2>4, <3>2, <3>3 DEF Covered
    <2>5. CASE row = None /\ agent.version = 0 /\ agent.tokens = 0
      BY <1>6, <2>5
    <2> QED BY <2>2, <2>3, <2>4, <2>5 DEF InUse, Covered
  <1> QED BY <1>9, <1>10

(* A step of a caller, whether the agent is connected or not.              *)
LEMMA CallerStored ==
  ASSUME TInv, NEW c \in Caller,
         CallStep(c) \/ Check(c) \/ Untracked(c) \/ InferFails(c) \/ Record(c)
  PROVE  StoredInv'
  <1>1. c \in Proc /\ IInv /\ SInv /\ call[c] \in CallRecord /\ (InSection(c) => agent # None)
    BY CallerHas DEF TInv
  <1>2. /\ count' = count /\ \E r : call' = [call EXCEPT ![c] = r]
        /\ agent' = None <=> agent = None
    <2>1. agent # None => agent \in Snapshot
      BY <1>1, AgentFields
    <2>2. \A l : Goto(c, l) \/ Return(c) => \E r : call' = [call EXCEPT ![c] = r]
      BY DEF Goto, Return
    <2>3. CASE CallStep(c)
      <3>1. CASE Look(c) \/ Read(c) \/ LoadTokens(c) \/ LoadStart(c) \/ CacheSnapshot(c) \/ Store(c)
        BY <2>2, <3>1 DEF Look, Read, LoadTokens, LoadStart, CacheSnapshot, Store
      <3>2. CASE Swap(c) \/ Zero(c) \/ Add(c) \/ FetchVersion(c)
        <4>1. agent # None /\ agent \in Snapshot
          BY <1>1, <2>1, <3>2 DEF Swap, Zero, Add, FetchVersion, At, InSection
        <4>2. agent' \in Snapshot
          BY <1>1, <3>2, <4>1, CallFields DEF Swap, Zero, Add, FetchVersion, Snapshot
        <4>3. agent' # None
          BY <4>2, Values
        <4> QED BY <2>2, <3>2, <4>1, <4>3 DEF Swap, Zero, Add, FetchVersion
      <3> QED BY <2>3, <3>1, <3>2 DEF CallStep
    <2>4. CASE Check(c) \/ Untracked(c) \/ InferFails(c) \/ Record(c)
      BY <2>2, <2>4 DEF Check, Untracked, InferFails, Record, Enter
    <2> QED BY <2>3, <2>4, <1>1
  <1>3. OneMoves(c) /\ call'[Operator] = call[Operator] /\ Operator \in Proc
    <2>1. OneMoves(c)
      BY <1>1, <1>2, MovesOne
    <2> QED BY <2>1, Constants DEF OneMoves
  <1>4. (Connecting' <=> Connecting) /\ (Connecting => agent = None)
    BY <1>1, <1>3 DEF Connecting, SInv, Spend, Places
  <1> SUFFICES ASSUME count.connect <= 1
               PROVE  StoredInv'
    BY <1>2 DEF StoredInv
  <1>5. CASE agent # None
    <2>1. InUse /\ count.connect # 0 /\ At(Operator, "idle")
      BY <1>1, <1>5 DEF InUse, TInv, StoredInv
    <2>2. Versions' /\ Covered'
      BY <1>5, <2>1, RollUse, GateUse, AddUse, FetchUse, LoadUse, StoreUse DEF CallStep, Untracked
    <2> QED BY <1>2, <1>3, <1>4, <1>5, <2>1, <2>2 DEF StoredInv, At
  <1>6. CASE agent = None
    <2>1. count.connect # 0
      <3>1. CASE count.connect = 0
        <4>1. At(c, "idle") /\ ~(count.connect > 0)
          BY <1>1, <3>1 DEF TInv, StoredInv
        <4> QED BY <1>6, <4>1 DEF CallStep, Check, Untracked, InferFails, Record, Look, Swap, Zero, Read,
                                 Add, FetchVersion, LoadTokens, LoadStart, CacheSnapshot, Store, At
      <3> QED BY <3>1
    <2>2. CASE ~Connecting
      BY <1>2, <1>3, <1>4, <1>6, <2>1, <2>2 DEF StoredInv, At, Connecting
    <2>3. CASE Connecting
      <3>1. ~Unsaved(c)
        BY <2>3 DEF TInv, StoredInv
      <3>2. Untracked(c) \/ InferFails(c)
        BY <1>1, <1>6, <3>1 DEF CallStep, Check, Untracked, InferFails, Record, Look, Swap, Zero, Read,
                           Add, FetchVersion, LoadTokens, LoadStart, CacheSnapshot, Store, At,
                           InSection, Unsaved
      <3>3. call'[c].at \in {"infer", "idle"} /\ row' = row
        <4>1. [call[c] EXCEPT !.at = "infer"].at = "infer" /\ Idle.at = "idle"
          BY <1>1 DEF CallRecord, Idle
        <4>2. call' = [call EXCEPT ![c] = Idle] \/ call' = [call EXCEPT ![c] = [call[c] EXCEPT !.at = "infer"]]
          BY <3>2 DEF Untracked, InferFails, Goto, Return
        <4> QED BY <1>1, <3>2, <4>1, <4>2, MovesOne DEF Untracked, InferFails
      <3>4. \A d \in Caller : ~Unsaved(d)'
        <4>1. \A d \in Caller \ {c} : call'[d] = call[d]
          BY <1>3, Constants DEF OneMoves
        <4>2. \A d \in Caller : ~Unsaved(d)
          BY <2>3 DEF TInv, StoredInv
        <4> QED BY <3>3, <4>1, <4>2 DEF Unsaved
      <3> QED BY <1>2, <1>3, <1>6, <2>1, <3>3, <3>4 DEF TInv, StoredInv, At
    <2> QED BY <2>2, <2>3
  <1> QED BY <1>5, <1>6

(* An operator who has taken the agent away is busy with its snapshot; the *)
(* agent does not come back in this boot.                                  *)
LEMMA OperatorStored ==
  ASSUME TInv, CacheSnapshot(Operator) \/ Store(Operator) \/ Disconnect
  PROVE  StoredInv'
  <1>1. Operator \in Proc /\ call[Operator] \in CallRecord /\ IInv /\ SInv
    BY Constants, CallFields DEF TInv, SInv
  <1>2. PICK r : call' = [call EXCEPT ![Operator] = r] /\ r.at \in {"cache", "store", "idle"}
    <2>1. CASE CacheSnapshot(Operator)
      <3>1. [call[Operator] EXCEPT !.at = "store"].at = "store"
        BY <1>1 DEF CallRecord
      <3> QED BY <2>1, <3>1 DEF CacheSnapshot, Goto
    <2>2. CASE Store(Operator)
      <3>1. Idle.at = "idle"
        BY DEF Idle
      <3> QED BY <2>2, <3>1 DEF Store, Return
    <2>3. CASE Disconnect
      <3> DEFINE r == [call[Operator] EXCEPT !.snap = [agent EXCEPT !.version = @ + 1], !.at = "cache"]
      <3>1. call' = [call EXCEPT ![Operator] = r] /\ r.at = "cache"
        BY <1>1, <2>3 DEF Disconnect, CallRecord
      <3> QED BY <3>1
    <2> QED BY <2>1, <2>2, <2>3
  <1>3. call'[Operator].at \in {"cache", "store", "idle"} /\ count' = count
    BY <1>1, <1>2, MovesOne DEF CacheSnapshot, Store, Disconnect
  <1> SUFFICES ASSUME count.connect <= 1
               PROVE  StoredInv'
    BY <1>3 DEF StoredInv
  <1>4. count.connect # 0 /\ agent' = None
    BY DEF TInv, StoredInv, CacheSnapshot, Store, Disconnect, At
  <1> QED BY <1>3, <1>4 DEF StoredInv, Connecting, At

LEMMA ConnectStored == ASSUME TInv, Connect PROVE StoredInv'
  <1>1. /\ Operator \in Proc /\ call[Operator] \in CallRecord /\ IInv
        /\ agent = None /\ UNCHANGED <<agent, row>>
        /\ count' = [count EXCEPT !.connect = @ + 1, !.all = @ + 1]
    BY Constants, CallFields DEF TInv, SInv, Connect
  <1>2. count'.connect = count.connect + 1 /\ count.connect \in Nat
    BY <1>1, Values DEF IInv
  <1> SUFFICES ASSUME count'.connect <= 1
               PROVE  StoredInv'
    BY DEF StoredInv
  <1>3. count.connect = 0 /\ cache = row /\ \A c \in Caller : At(c, "idle")
    BY <1>2 DEF TInv, StoredInv
  <1>4. PICK r : /\ call' = [call EXCEPT ![Operator] = r]
                 /\ \/ cache # None /\ r = [call[Operator] EXCEPT !.snap = cache, !.at = "insert"]
                    \/ cache = None /\ r = [call[Operator] EXCEPT !.at = "load"]
    BY DEF Connect, Goto
  <1>5. OneMoves(Operator) /\ call'[Operator] = r
    BY <1>1, <1>4, MovesOne
  <1>6. \/ r.at = "insert" /\ r.snap = row /\ row # None
        \/ r.at = "load" /\ row = None
    BY <1>1, <1>3, <1>4 DEF CallRecord
  <1>7. \A c \in Caller : ~Unsaved(c)'
    <2>1. \A c \in Caller : call'[c] = call[c]
      BY <1>5, Constants DEF OneMoves
    <2> QED BY <1>3, <2>1 DEF Unsaved, At
  <1> QED BY <1>1, <1>2, <1>3, <1>5, <1>6, <1>7 DEF StoredInv, Connecting, At

LEMMA LoadStored == ASSUME TInv, Load PROVE StoredInv'
  <1> DEFINE s == IF row = None THEN Fresh ELSE row
             r == [call[Operator] EXCEPT !.snap = s, !.at = "insert"]
  <1>1. /\ Operator \in Proc /\ call[Operator] \in CallRecord /\ SInv
        /\ At(Operator, "load") /\ UNCHANGED <<agent, cache, row, count>>
        /\ call' = [call EXCEPT ![Operator] = r]
    BY Constants, CallFields DEF TInv, SInv, Load
  <1>2. OneMoves(Operator) /\ call'[Operator] = r
    BY <1>1, MovesOne DEF SInv
  <1>3. r.at = "insert" /\ r.snap = s
    BY <1>1 DEF CallRecord
  <1>4. row = None => s.tokens = 0 /\ s.version = 0
    BY DEF Fresh
  <1>5. row # None => s = row
    OBVIOUS
  <1> HIDE DEF r, s
  <1>6. Connecting /\ agent = None
    BY <1>1 DEF Connecting, At, SInv, Spend, Places
  <1> SUFFICES ASSUME count.connect <= 1
               PROVE  StoredInv'
    BY <1>1 DEF StoredInv
  <1>7. count.connect # 0 /\ \A c \in Caller : ~Unsaved(c)
    BY <1>1, <1>6 DEF TInv, StoredInv, At
  <1>8. \A c \in Caller : ~Unsaved(c)'
    <2>1. \A c \in Caller : call'[c] = call[c]
      BY <1>2, Constants DEF OneMoves
    <2> QED BY <1>7, <2>1 DEF Unsaved
  <1> QED BY <1>1, <1>2, <1>3, <1>4, <1>5, <1>6, <1>7, <1>8 DEF StoredInv, Connecting, At

(* The connected agent starts from the row.                                *)
LEMMA InsertStored == ASSUME TInv, Insert PROVE StoredInv'
  <1>1. /\ Operator \in Proc /\ SInv /\ At(Operator, "insert")
        /\ agent' = call[Operator].snap /\ call' = [call EXCEPT ![Operator] = Idle]
        /\ UNCHANGED <<now, cache, row, count>> /\ call[Operator].snap \in Snapshot
    BY Constants, CallFields DEF TInv, SInv, Insert, Return
  <1>2. OneMoves(Operator) /\ call'[Operator] = Idle /\ Idle.at = "idle"
    BY <1>1, MovesOne DEF SInv, Idle
  <1> SUFFICES ASSUME count.connect <= 1
               PROVE  StoredInv'
    BY <1>1 DEF StoredInv
  <1>3. /\ count.connect # 0 /\ \A c \in Caller : ~Unsaved(c)
        /\ IF row = None THEN agent'.tokens = 0 /\ agent'.version = 0 ELSE agent' = row
    BY <1>1 DEF TInv, StoredInv, Connecting, At
  <1>4. \A c \in Caller : ~Fetched(c)'
    <2>1. \A c \in Caller : call'[c] = call[c]
      BY <1>2, Constants DEF OneMoves
    <2> QED BY <1>3, <2>1 DEF Unsaved, Fetched
  <1>5. Versions'
    <2>1. row # None => row.version \in Nat
      BY <1>1 DEF SInv, IInv, Snapshot
    <2> QED BY <1>1, <1>3, <1>4, <2>1 DEF Versions, Newest
  <1>6. Covered'
    <2>1. CASE row = None
      BY <1>1, <1>3, <2>1 DEF Covered
    <2>2. CASE row # None
      <3>1. row.tokens \in Nat /\ agent' = row
        BY <1>1, <1>3, <2>2 DEF SInv, IInv, Snapshot
      <3>2. Covers(row)'
        BY <1>1, <3>1 DEF Covers
      <3> QED BY <1>1, <2>2, <3>1, <3>2 DEF Covered
    <2> QED BY <2>1, <2>2
  <1> QED BY <1>1, <1>2, <1>3, <1>5, <1>6 DEF StoredInv, Connecting, At

LEMMA CrashStored == ASSUME TInv, Crash PROVE StoredInv'
  <1>1. /\ agent' = None /\ cache' = row /\ row' = row
        /\ \A c \in Proc : call'[c] = Idle
    BY DEF Crash
  <1>2. Idle.at = "idle"
    BY DEF Idle
  <1> QED BY <1>1, <1>2, Constants DEF StoredInv, Connecting, At

LEMMA TickStored == ASSUME TInv, Tick \/ UNCHANGED vars PROVE StoredInv'
  <1>1. UNCHANGED <<agent, cache, row, call, count>>
    BY DEF Tick, vars
  <1> QED BY <1>1 DEF TInv, StoredInv, Connecting, At, Versions, Covered, Newest, Fetched, Holds, Covers,
                      Rolling, Unsaved

LEMMA InitStored == Init => StoredInv
  <1> SUFFICES ASSUME Init PROVE StoredInv
    OBVIOUS
  <1>1. /\ agent = None /\ cache = None /\ row = None
        /\ \A c \in Proc : call[c] = Idle
    BY DEF Init
  <1>2. Idle.at = "idle"
    BY DEF Idle
  <1> QED BY <1>1, <1>2, Constants DEF StoredInv, Connecting, At

LEMMA NextStored == TInv /\ [Next]_vars => StoredInv'
  <1> SUFFICES ASSUME TInv, [Next]_vars PROVE StoredInv'
    OBVIOUS
  <1>1. CASE \E c \in Proc : CallStep(c)
    <2>1. PICK c \in Proc : CallStep(c)
      BY <1>1
    <2>2. CASE c \in Caller
      BY <2>1, <2>2, CallerStored
    <2>3. CASE c = Operator
      <3>1. call[Operator].at \in {"idle", "load", "insert", "cache", "store"}
        BY DEF TInv, SInv, Spend, Places
      <3>2. CacheSnapshot(Operator) \/ Store(Operator)
        BY <2>1, <2>3, <3>1
           DEF CallStep, At, Look, Swap, Zero, Read, Add, FetchVersion, LoadTokens, LoadStart
      <3> QED BY <3>2, OperatorStored
    <2> QED BY <2>2, <2>3 DEF Proc
  <1>2. CASE \E c \in Caller : Check(c) \/ Untracked(c) \/ InferFails(c) \/ Record(c)
    BY <1>2, CallerStored
  <1>3. CASE Connect \/ Load \/ Insert \/ Disconnect
    BY <1>3, ConnectStored, LoadStored, InsertStored, OperatorStored
  <1>4. CASE Crash
    BY <1>4, CrashStored
  <1>5. CASE Tick \/ UNCHANGED vars
    BY <1>5, TickStored
  <1> QED BY <1>1, <1>2, <1>3, <1>4, <1>5 DEF Next

(* Once every call that counted its usage has written, a crash loses none  *)
(* of it and does not take it for yesterday's, for any number of callers,  *)
(* days and crashes, in whatever order the snapshots reached the table     *)
(* (next_persisted_snapshot, upsert_cost_snapshot), up to the second       *)
(* connection of the agent in one boot.                                    *)
THEOREM StoredUsage == Spec => []StoredUsageCovers
  <1>1. Init => TInv
    BY InitInv, InitSpend, InitStored DEF TInv, SInv
  <1>2. TInv /\ [Next]_vars => TInv'
    BY NextInv, NextSpend, NextStored DEF TInv, SInv
  <1>3. ASSUME TInv, agent # None, count.connect <= 1, \A c \in Proc : ~Unsaved(c)
        PROVE  agent.tokens = 0 \/ (row # None /\ agent.tokens <= row.tokens /\ (row.start = agent.start \/ Rolling))
    <2>1. Covered
      BY <1>3 DEF TInv, StoredInv
    <2>2. \A c \in Caller : ~At(c, "version") /\ ~Fetched(c)
      BY <1>3, Constants DEF Unsaved, Fetched, At
    <2>3. (row # None /\ Covers(row)) \/ agent.tokens = 0
      BY <2>1, <2>2 DEF Covered, Holds, Newest
    <2> QED BY <2>3 DEF Covers
  <1>4. TInv => StoredUsageCovers
    BY <1>3 DEF StoredUsageCovers
  <1> QED BY <1>1, <1>2, <1>4, PTL DEF Spec

=============================================================================
