------------------------ MODULE BootRecoveryProofs ------------------------
(***************************************************************************)
(* Proofs about boot recovery, for every number of tasks, executions,      *)
(* calls and crashes: the poison guard counts every crash that a           *)
(* checkpointed task brings about, nothing but an operator's resume brings *)
(* back a task that has ended, and a task is in the heap at most once for  *)
(* every way in that it took.                                              *)
(***************************************************************************)
EXTENDS BootRecovery, FiniteSetTheorems, TLAPS

Resumer == [pc : {"restore", "claim", "enqueue"}, task : Task, calls : Steps, boot : BOOLEAN]

TypeInv ==
    /\ state \in [Task -> State]
    /\ cp \in [Task -> Steps \cup {None}]
    /\ strikes \in [Task -> 0..MaxBootResumes]
    /\ window \in [Task -> Steps \cup {None}]
    /\ run \in [Slot -> Execution]
    /\ phase \in {"restore", "recover", "up"}
    /\ todo \subseteq Task
    /\ resumer \in Resumer \cup {Idle}
    /\ crashes \in [Task -> Nat]

(* An execution has a task that was submitted; a free slot is blank.       *)
RunOk(r) ==
    /\ run[r].pc = "free" => run[r] = Free
    /\ run[r].pc # "free" => run[r].task \in Task /\ state[run[r].task] # "Absent"

(* Nothing runs before the boot is over, and only while it recovers are    *)
(* there checkpoints to look at.                                           *)
BootInv ==
    /\ phase # "up" => \A r \in Slot : run[r] = Free
    /\ phase # "recover" => todo = {}

(* The boot resumes only what has not ended, and until it has done so      *)
(* nobody ends it.                                                         *)
ResumeInv ==
    resumer # Idle /\ resumer.boot => phase = "recover" /\ state[resumer.task] \notin Ended

(* A crash that the boot has still to count against the task.              *)
Unstruck(t) == state[t] \notin Ended /\ (phase = "restore" \/ t \in todo)

(* Every other crash is among the strikes.                                 *)
StrikeOk(t) ==
    cp[t] # None =>
        /\ state[t] # "Absent"
        /\ crashes[t] <= strikes[t] + 1
        /\ crashes[t] <= strikes[t] \/ Unstruck(t)

IInv ==
    /\ TypeInv /\ BootInv /\ ResumeInv
    /\ \A r \in Slot : RunOk(r)
    /\ \A t \in Task : StrikeOk(t)

-----------------------------------------------------------------------------
(* What a step leaves as it was.                                           *)

(* Tasks stay submitted, and ends stay.                                    *)
Kept(t) ==
    /\ state[t] # "Absent" => state'[t] # "Absent"
    /\ state[t] \in Ended => state'[t] \in Ended

LEMMA Values ==
  /\ Free \in Execution /\ Free.pc = "free" /\ Free.inFlight = FALSE
  /\ None \notin Task /\ None \notin Steps /\ 0 \in Steps /\ 0 \in 0..MaxBootResumes
  /\ Idle \notin Resumer /\ Idle.pc = "idle"
  <1>1. 0 \in Steps /\ 0 \in 0..MaxBootResumes
    BY BoundAssumption DEF Steps
  <1>2. None \notin Task /\ None \notin Steps
    BY SlotAssumption, BoundAssumption DEF Steps
  <1>3. Free \in Execution /\ Free.pc = "free" /\ Free.inFlight = FALSE
    BY <1>1 DEF Free, Execution, Pc
  <1>4. Idle \notin Resumer /\ Idle.pc = "idle"
    BY DEF Idle, Resumer
  <1> QED BY <1>1, <1>2, <1>3, <1>4

LEMMA StateSet ==
  ASSUME IInv, NEW t \in Task, NEW s \in State \ {"Absent"},
         state' = [state EXCEPT ![t] = s], state[t] \in Ended => s \in Ended
  PROVE  state' \in [Task -> State] /\ \A u \in Task : Kept(u)
  BY DEF IInv, TypeInv, Kept, State, Ended

LEMMA StateSetUnlessEnded ==
  ASSUME IInv, NEW t \in Task, NEW s \in State \ {"Absent"}, SetUnlessEnded(t, s)
  PROVE  state' \in [Task -> State] /\ \A u \in Task : Kept(u)
  BY DEF IInv, TypeInv, Kept, State, Ended, SetUnlessEnded

LEMMA RunSet ==
  ASSUME IInv, NEW r \in Slot, NEW e \in Execution, run' = [run EXCEPT ![r] = e],
         e = Free \/ (e.pc # "free" /\ e.task \in Task /\ state'[e.task] # "Absent"),
         \A t \in Task : Kept(t)
  PROVE  run' \in [Slot -> Execution] /\ \A q \in Slot : RunOk(q)'
  <1>1. run' \in [Slot -> Execution] /\ run'[r] = e /\ \A q \in Slot : q # r => run'[q] = run[q]
    BY DEF IInv, TypeInv
  <1>2. RunOk(r)'
    BY <1>1, Values DEF RunOk
  <1>3. \A q \in Slot : q # r => RunOk(q)'
    BY <1>1 DEF IInv, RunOk, Kept
  <1> QED BY <1>1, <1>2, <1>3

(* An execution that goes on, or that leaves its slot.                     *)
LEMMA RunGoes ==
  ASSUME IInv, NEW r \in Slot, run[r].pc # "free", NEW l \in Pc \ {"free"},
         \/ run' = [run EXCEPT ![r] = Free]
         \/ run' = [run EXCEPT ![r] = [@ EXCEPT !.pc = l]]
         \/ Goto(r, l),
         \A t \in Task : Kept(t)
  PROVE  run' \in [Slot -> Execution] /\ \A q \in Slot : RunOk(q)'
  <1>1. CASE run' = [run EXCEPT ![r] = Free]
    BY <1>1, RunSet, Values
  <1>2. CASE run' = [run EXCEPT ![r] = [@ EXCEPT !.pc = l]] \/ Goto(r, l)
    <2> DEFINE e == [run[r] EXCEPT !.pc = l]
    <2>1. run' = [run EXCEPT ![r] = e]
      BY <1>2 DEF Goto
    <2>2. run[r] \in Execution /\ run[r].task \in Task /\ state'[run[r].task] # "Absent"
      BY DEF IInv, TypeInv, RunOk, Kept
    <2>3. e \in Execution /\ e.pc = l /\ e.task = run[r].task
      BY <2>2 DEF Execution
    <2> HIDE DEF e
    <2> QED BY <2>1, <2>2, <2>3, RunSet
  <1> QED BY <1>1, <1>2

(* A step between two boots, of anything but a resume.                     *)
LEMMA UpFrame ==
  ASSUME IInv, TypeInv', phase = "up", UNCHANGED <<phase, todo>>,
         resumer' = resumer \/ resumer' = Idle \/ ~resumer'.boot,
         \A r \in Slot : RunOk(r)',
         \A t \in Task : Kept(t),
         \A t \in Task : cp'[t] # None =>
            \/ cp[t] # None /\ crashes'[t] = crashes[t] /\ strikes'[t] = strikes[t]
            \/ state[t] # "Absent" /\ crashes'[t] = 0
  PROVE  IInv'
  <1>1. BootInv' /\ ResumeInv'
    BY DEF IInv, BootInv, ResumeInv
  <1>2. ASSUME NEW t \in Task
        PROVE  StrikeOk(t)'
    <2>1. ~Unstruck(t) /\ StrikeOk(t) /\ Kept(t)
      BY DEF IInv, BootInv, Unstruck
    <2>2. strikes'[t] \in Nat /\ crashes'[t] \in Nat
      BY BoundAssumption DEF TypeInv
    <2> QED BY <2>1, <2>2 DEF StrikeOk, Kept
  <1> QED BY <1>1, <1>2 DEF IInv

(* Where something runs the boot is over.                                  *)
LEMMA Running ==
  ASSUME IInv, NEW r \in Slot, run[r].pc # "free"
  PROVE  phase = "up" /\ run[r].task \in Task /\ state[run[r].task] # "Absent"
  BY Values DEF IInv, BootInv, RunOk

LEMMA AllKept ==
  ASSUME state' = state
  PROVE  \A t \in Task : Kept(t)
  BY DEF Kept

-----------------------------------------------------------------------------
(* The loop.                                                               *)

(* What all its steps have in common.                                      *)
LoopFacts ==
    /\ UNCHANGED <<phase, todo, resumer>>
    /\ TypeInv'
    /\ \A r \in Slot : RunOk(r)'
    /\ \A t \in Task : Kept(t)
    /\ \A t \in Task : cp'[t] # None =>
          \/ cp[t] # None /\ crashes'[t] = crashes[t] /\ strikes'[t] = strikes[t]
          \/ state[t] # "Absent" /\ crashes'[t] = 0

(* Steps that touch neither the state nor the checkpoint.                  *)
LEMMA QuietLoop ==
  ASSUME IInv, NEW r \in Slot,
         Claim(r) \/ Setup(r) \/ Ask(r) \/ Quit(r) \/ Effect(r) \/ Answered(r) \/ Succeed(r)
            \/ Fail(r) \/ Drop(r) \/ Die(r) \/ Reap(r)
  PROVE  LoopFacts
  <1> DEFINE t == run[r].task
  <1>1. UNCHANGED <<state, cp, strikes, phase, todo, resumer, crashes>>
    BY DEF Claim, Setup, Ask, Quit, Effect, Answered, Succeed, Fail, Drop, Die, Reap, store, boot
  <1>2. run[r].pc # "free"
    BY Values DEF IInv, RunOk, Claim, Setup, Ask, Quit, Effect, Answered, Succeed, Fail, Drop, Die, Reap, At
  <1>3. phase = "up" /\ t \in Task /\ state[t] # "Absent" /\ run[r] \in Execution
    BY <1>2, Running DEF IInv, TypeInv
  <1>4. \A u \in Task : Kept(u)
    BY <1>1, AllKept
  <1>5. run' \in [Slot -> Execution] /\ \A q \in Slot : RunOk(q)'
    <2>1. CASE Ask(r)
      <3> DEFINE e == [run[r] EXCEPT !.pc = "tool", !.calls = window[t]]
      <3>1. run' = [run EXCEPT ![r] = e]
        BY <2>1, <1>3 DEF Ask
      <3>2. window[t] \in Steps
        BY <2>1, BoundAssumption DEF Ask, Steps
      <3>3. e \in Execution /\ e.pc = "tool" /\ e.task = t
        BY <1>3, <3>2 DEF Execution, Pc
      <3> HIDE DEF e
      <3> QED BY <1>1, <1>3, <1>4, <3>1, <3>3, RunSet
    <2>2. CASE Reap(r)
      <3> DEFINE e == [run[r] EXCEPT !.pc = "fail", !.inFlight = FALSE]
      <3>1. run' = [run EXCEPT ![r] = Free] \/ run' = [run EXCEPT ![r] = e]
        BY <2>2 DEF Reap
      <3>2. e \in Execution /\ e.pc = "fail" /\ e.task = t
        BY <1>3 DEF Execution, Pc
      <3> HIDE DEF e
      <3> QED BY <1>1, <1>3, <1>4, <3>1, <3>2, RunSet, Values
    <2>3. CASE Claim(r)
      <3>1. "setup" \in Pc \ {"free"}
        BY DEF Pc
      <3> QED BY <1>2, <1>4, <2>3, <3>1, RunGoes DEF Claim
    <2>4. CASE Setup(r) \/ Effect(r)
      <3>1. "turn" \in Pc \ {"free"} /\ "save" \in Pc \ {"free"}
        BY DEF Pc
      <3> QED BY <1>2, <1>4, <2>4, <3>1, RunGoes DEF Setup, Effect
    <2>5. CASE Quit(r) \/ Answered(r) \/ Succeed(r)
      <3>1. {"fail", "succeed", "complete"} \subseteq Pc \ {"free"}
        BY DEF Pc
      <3> QED BY <1>2, <1>4, <2>5, <3>1, RunGoes DEF Quit, Answered, Succeed
    <2>6. CASE Fail(r) \/ Drop(r) \/ Die(r)
      <3>1. {"failing", "abandoned"} \subseteq Pc \ {"free"}
        BY DEF Pc
      <3> QED BY <1>2, <1>4, <2>6, <3>1, RunGoes DEF Fail, Drop, Die
    <2> QED BY <2>1, <2>2, <2>3, <2>4, <2>5, <2>6
  <1>6. window' \in [Task -> Steps \cup {None}]
    <2>1. window \in [Task -> Steps \cup {None}]
      BY DEF IInv, TypeInv
    <2>2. CASE Setup(r)
      BY <1>3, <2>1, <2>2, Values DEF Setup
    <2>3. CASE Effect(r)
      <3>1. \A c \in 0..(Calls - 1) : c + 1 \in Steps
        BY BoundAssumption DEF Steps
      <3> QED BY <1>3, <2>1, <2>3, <3>1 DEF Effect
    <2>4. CASE Answered(r) \/ Drop(r)
      BY <1>3, <2>1, <2>4 DEF Answered, Drop, RemoveWindow
    <2>5. CASE Claim(r) \/ Ask(r) \/ Quit(r) \/ Succeed(r) \/ Fail(r) \/ Die(r) \/ Reap(r)
      BY <2>1, <2>5 DEF Claim, Ask, Quit, Succeed, Fail, Die, Reap
    <2> QED BY <2>2, <2>3, <2>4, <2>5
  <1>7. TypeInv'
    BY <1>1, <1>5, <1>6 DEF IInv, TypeInv
  <1> QED BY <1>1, <1>4, <1>5, <1>7 DEF LoopFacts, IInv, StrikeOk

(* Steps that set the state, unless the task has ended.                    *)
LEMMA StateLoop ==
  ASSUME IInv, NEW r \in Slot, Begin(r) \/ Park(r) \/ Complete(r) \/ Failing(r)
  PROVE  LoopFacts
  <1>1. UNCHANGED <<cp, strikes, phase, todo, resumer, crashes, window>>
    BY DEF Begin, Park, Complete, Failing, store, boot
  <1>2. run[r].pc # "free" /\ run[r].task \in Task
    BY Running DEF Begin, Park, Complete, Failing, At
  <1>3. state' \in [Task -> State] /\ \A u \in Task : Kept(u)
    <2>1. {"Running", "Waiting", "Complete", "Failed"} \subseteq State \ {"Absent"}
      BY DEF State, Ended
    <2> QED BY <1>2, <2>1, StateSetUnlessEnded DEF Begin, Park, Complete, Failing
  <1>4. run' \in [Slot -> Execution] /\ \A q \in Slot : RunOk(q)'
    <2>1. {"setup", "drop"} \subseteq Pc \ {"free"}
      BY DEF Pc
    <2>2. CASE Begin(r)
      <3>1. \/ run' = [run EXCEPT ![r] = Free]
            \/ run' = [run EXCEPT ![r] = [@ EXCEPT !.pc = "setup"]]
        BY <2>2 DEF Begin
      <3> QED BY <1>2, <1>3, <2>1, <3>1, RunGoes
    <2>3. CASE Park(r) \/ Complete(r) \/ Failing(r)
      BY <1>2, <1>3, <2>1, <2>3, RunGoes DEF Park, Complete, Failing
    <2> QED BY <2>2, <2>3
  <1>5. TypeInv'
    BY <1>1, <1>3, <1>4 DEF IInv, TypeInv
  <1> QED BY <1>1, <1>3, <1>4, <1>5 DEF LoopFacts

LEMMA CheckpointDeleted ==
  ASSUME IInv, NEW t \in Task, DeleteCheckpoint(t)
  PROVE  /\ cp' \in [Task -> Steps \cup {None}] /\ strikes' \in [Task -> 0..MaxBootResumes]
         /\ cp'[t] = None
         /\ \A u \in Task : u # t => cp'[u] = cp[u] /\ strikes'[u] = strikes[u]
  BY Values DEF IInv, TypeInv, DeleteCheckpoint

(* Steps that write or delete the checkpoint.                              *)
LEMMA StoreLoop ==
  ASSUME IInv, NEW r \in Slot, Save(r) \/ Answer(r)
  PROVE  LoopFacts
  <1> DEFINE t == run[r].task
  <1>1. UNCHANGED <<state, phase, todo, resumer, window>>
    BY DEF Save, Answer, boot
  <1>2. run[r].pc # "free" /\ t \in Task /\ state[t] # "Absent"
    BY Running DEF Save, Answer, At
  <1>3. \A u \in Task : Kept(u)
    BY <1>1, AllKept
  <1>4. run' \in [Slot -> Execution] /\ \A q \in Slot : RunOk(q)'
    <2>1. {"turn", "answered"} \subseteq Pc \ {"free"}
      BY DEF Pc
    <2> QED BY <1>2, <1>3, <2>1, RunGoes DEF Save, Answer
  <1>5. /\ cp' \in [Task -> Steps \cup {None}] /\ strikes' \in [Task -> 0..MaxBootResumes]
        /\ crashes' \in [Task -> Nat]
        /\ \A u \in Task : cp'[u] # None =>
              \/ cp[u] # None /\ crashes'[u] = crashes[u] /\ strikes'[u] = strikes[u]
              \/ state[u] # "Absent" /\ crashes'[u] = 0
    <2> HIDE DEF t
    <2>1. CASE Answer(r)
      <3>1. DeleteCheckpoint(t) /\ crashes' = crashes
        BY <2>1 DEF Answer, t
      <3> QED BY <1>2, <3>1, CheckpointDeleted DEF IInv, TypeInv
    <2>2. CASE Save(r) /\ window[t] = None
      <3>1. UNCHANGED <<cp, strikes, crashes>>
        BY <2>2 DEF Save, t
      <3> QED BY <3>1 DEF IInv, TypeInv
    <2>3. CASE Save(r) /\ window[t] # None
      <3>1. /\ cp' = [cp EXCEPT ![t] = window[t]]
            /\ strikes' = [strikes EXCEPT ![t] = 0]
            /\ crashes' = [crashes EXCEPT ![t] = 0]
        BY <2>3 DEF Save, t
      <3> QED BY <1>2, <3>1, Values DEF IInv, TypeInv
    <2> QED BY <2>1, <2>2, <2>3
  <1>6. TypeInv'
    BY <1>1, <1>4, <1>5 DEF IInv, TypeInv
  <1> QED BY <1>1, <1>3, <1>4, <1>5, <1>6 DEF LoopFacts

LEMMA LoopSteps ==
  ASSUME IInv, NEW r \in Slot, LoopStep(r) \/ Die(r)
  PROVE  IInv' /\ \A t \in Task : Kept(t)
  <1>1. LoopFacts
    BY QuietLoop, StateLoop, StoreLoop DEF LoopStep
  <1>2. run[r].pc # "free"
    BY Values DEF LoopStep, Claim, Begin, Setup, Ask, Quit, Park, Effect, Save, Answer, Answered, Succeed,
       Complete, Fail, Failing, Drop, Reap, Die, At, IInv, RunOk
  <1>3. phase = "up"
    BY <1>2, Running
  <1> QED BY <1>1, <1>3, UpFrame DEF LoopFacts

-----------------------------------------------------------------------------
(* The other steps.                                                        *)

LEMMA QuietFrame ==
  ASSUME IInv, UNCHANGED <<state, cp, strikes, run, phase, todo, resumer, crashes>>,
         window' \in [Task -> Steps \cup {None}]
  PROVE  IInv' /\ \A t \in Task : Kept(t)
  BY AllKept DEF IInv, TypeInv, BootInv, ResumeInv, RunOk, StrikeOk, Unstruck

LEMMA QuietSteps ==
  ASSUME IInv,
         \/ \E t \in Task : DropEntries(t) \/ Lapse(t)
         \/ EndStep \/ Sweep \/ PruneRead \/ UNCHANGED vars
  PROVE  IInv' /\ \A t \in Task : Kept(t)
  <1>1. UNCHANGED <<state, cp, strikes, run, phase, todo, resumer, crashes>>
    BY DEF DropEntries, Lapse, EndStep, EndClose, EndRelease, Sweep, PruneRead, vars, store, boot
  <1>2. window' \in [Task -> Steps \cup {None}]
    <2>1. window \in [Task -> Steps \cup {None}]
      BY DEF IInv, TypeInv
    <2>2. CASE EndClose
      BY <2>1, <2>2 DEF EndClose, RemoveWindow
    <2>3. CASE \/ \E t \in Task : DropEntries(t) \/ Lapse(t)
               \/ EndRelease \/ Sweep \/ PruneRead \/ UNCHANGED vars
      BY <2>1, <2>3 DEF DropEntries, Lapse, EndRelease, Sweep, PruneRead, vars
    <2> QED BY <2>2, <2>3 DEF EndStep
  <1> QED BY <1>1, <1>2, QuietFrame

(* Submission, dispatch, approval, timeout and cancellation.               *)
LEMMA OutsideSteps ==
  ASSUME IInv, NEW t \in Task,
         Submit(t) \/ Wake(t) \/ End(t) \/ Executor(t) \/ \E r \in Slot : RunNow(r, t)
  PROVE  IInv' /\ \A u \in Task : Kept(u)
  <1>1. /\ phase = "up"
        /\ UNCHANGED <<cp, strikes, window, phase, todo, resumer, crashes>>
    BY DEF Submit, Wake, End, Executor, Dispatch, RunNow, Up, store, boot
  <1>2. /\ state' \in [Task -> State] /\ \A u \in Task : Kept(u)
        /\ state[t] = "Queued" => state'[t] # "Absent"
    <2>1. {"Queued", "Running", "Failed", "Cancelled"} \subseteq State \ {"Absent"}
      BY DEF State, Ended
    <2>2. CASE Submit(t) \/ Wake(t)
      <3>1. state' = [state EXCEPT ![t] = "Queued"] /\ state[t] \notin Ended
        BY <2>2 DEF Submit, Wake, Push, Ended
      <3> QED BY <2>1, <3>1, StateSet DEF Kept, IInv, TypeInv
    <2>3. CASE End(t)
      <3>1. /\ {"Failed", "Cancelled"} \subseteq Ended
            /\ \/ state' = [state EXCEPT ![t] = "Failed"]
               \/ state' = [state EXCEPT ![t] = "Cancelled"]
        BY <2>3 DEF End, TimeOut, Cancel, Ended
      <3> QED BY <2>1, <3>1, StateSet DEF Kept, IInv, TypeInv
    <2>4. CASE Executor(t)
      <3>1. state' = state
        BY <2>4 DEF Executor, Dispatch
      <3> QED BY <3>1, AllKept DEF IInv, TypeInv, Kept
    <2>5. CASE \E r \in Slot : RunNow(r, t)
      <3>1. state' = [state EXCEPT ![t] = "Running"] /\ state[t] \notin Ended
        BY <2>5 DEF RunNow, Ended
      <3> QED BY <2>1, <3>1, StateSet DEF Kept
    <2> QED BY <2>2, <2>3, <2>4, <2>5
  <1>3. run' \in [Slot -> Execution] /\ \A q \in Slot : RunOk(q)'
    <2>1. CASE Submit(t) \/ Wake(t) \/ End(t)
      <3>1. run' = run
        BY <2>1 DEF Submit, Wake, End
      <3> QED BY <1>2, <3>1 DEF IInv, TypeInv, RunOk, Kept
    <2>2. CASE Executor(t)
      <3>1. PICK r \in Slot : Dispatch(r, t)
        BY <2>2 DEF Executor
      <3> DEFINE e == [Free EXCEPT !.pc = "begin", !.task = t, !.inFlight = TRUE]
      <3>2. e \in Execution /\ e.pc = "begin" /\ e.task = t
        BY Values DEF Execution, Pc
      <3>3. run' = [run EXCEPT ![r] = e] /\ state[t] = "Queued"
        BY <3>1 DEF Dispatch
      <3> HIDE DEF e
      <3> QED BY <1>2, <3>2, <3>3, RunSet
    <2>3. CASE \E r \in Slot : RunNow(r, t)
      <3>1. PICK r \in Slot : RunNow(r, t)
        BY <2>3
      <3> DEFINE e == [Free EXCEPT !.pc = "claim", !.task = t]
      <3>2. e \in Execution /\ e.pc = "claim" /\ e.task = t
        BY Values DEF Execution, Pc
      <3>3. run' = [run EXCEPT ![r] = e] /\ state'[t] # "Absent"
        BY <3>1 DEF RunNow, IInv, TypeInv
      <3> HIDE DEF e
      <3> QED BY <1>2, <3>1, <3>2, <3>3, RunSet
    <2> QED BY <2>1, <2>2, <2>3
  <1>4. TypeInv'
    BY <1>1, <1>2, <1>3 DEF IInv, TypeInv
  <1>5. \A u \in Task : cp'[u] # None =>
           cp[u] # None /\ crashes'[u] = crashes[u] /\ strikes'[u] = strikes[u]
    BY <1>1
  <1> QED BY <1>1, <1>2, <1>3, <1>4, <1>5, UpFrame

(* What a resume begins with.                                              *)
LEMMA Loaded ==
  ASSUME IInv, NEW t \in Task, NEW b \in BOOLEAN, LoadResume(t, b)
  PROVE  /\ resumer' \in Resumer /\ resumer'.task = t /\ resumer'.boot = b
         /\ resumer = Idle
  <1>1. resumer' = [pc |-> "restore", task |-> t, calls |-> cp[t], boot |-> b] /\ cp[t] # None
        /\ resumer.pc = "idle"
    BY DEF LoadResume, Resumable
  <1>2. cp[t] \in Steps
    BY <1>1 DEF IInv, TypeInv
  <1>3. resumer = Idle
    BY <1>1 DEF IInv, TypeInv, Resumer
  <1> QED BY <1>1, <1>2, <1>3 DEF Resumer

LEMMA OperatorResume ==
  ASSUME IInv, NEW t \in Task, Resume(t)
  PROVE  IInv' /\ \A u \in Task : Kept(u)
  <1>1. /\ phase = "up" /\ LoadResume(t, FALSE)
        /\ UNCHANGED <<state, cp, strikes, window, run, phase, todo, crashes>>
    BY DEF Resume, Up, store, boot
  <1>2. resumer' \in Resumer /\ ~resumer'.boot
    BY <1>1, Loaded
  <1>3. \A u \in Task : Kept(u)
    BY <1>1, AllKept
  <1>4. TypeInv' /\ \A r \in Slot : RunOk(r)'
    BY <1>1, <1>2 DEF IInv, TypeInv, RunOk
  <1> QED BY <1>1, <1>2, <1>3, <1>4, UpFrame

LEMMA ResumeGoesOn ==
  ASSUME IInv, RestoreWindow \/ ClaimResume
  PROVE  IInv' /\ \A t \in Task : Kept(t)
  <1>1. UNCHANGED <<state, cp, strikes, run, phase, todo, crashes>>
    BY DEF RestoreWindow, ClaimResume, store, boot
  <1>2. resumer \in Resumer
    BY Values DEF RestoreWindow, ClaimResume, IInv, TypeInv
  <1>3. /\ resumer' \in Resumer \cup {Idle}
        /\ resumer' # Idle => resumer'.task = resumer.task /\ resumer'.boot = resumer.boot
    <2>1. CASE RestoreWindow
      <3>1. resumer' = [resumer EXCEPT !.pc = "claim"]
        BY <2>1 DEF RestoreWindow
      <3> QED BY <1>2, <3>1 DEF Resumer
    <2>2. CASE ClaimResume
      <3>1. resumer' = [resumer EXCEPT !.pc = "enqueue"] \/ resumer' = Idle
        BY <2>2 DEF ClaimResume
      <3> QED BY <1>2, <3>1 DEF Resumer
    <2> QED BY <2>1, <2>2
  <1>4. window' \in [Task -> Steps \cup {None}]
    BY <1>2 DEF RestoreWindow, ClaimResume, IInv, TypeInv, Resumer
  <1>5. ResumeInv'
    BY <1>1, <1>2, <1>3, Values DEF IInv, ResumeInv
  <1>6. TypeInv'
    BY <1>1, <1>3, <1>4 DEF IInv, TypeInv
  <1> QED BY <1>1, <1>5, <1>6, AllKept DEF IInv, BootInv, RunOk, StrikeOk, Unstruck

(* A resume that reaches the queue: the one step that may undo an end.     *)
LEMMA ResumeEnds ==
  ASSUME IInv, EnqueueResume
  PROVE  /\ IInv'
         /\ \A t \in Task : Kept(t) \/ (resumer.task = t /\ resumer.pc = "enqueue" /\ ~resumer.boot)
  <1> DEFINE t == resumer.task
  <1>1. /\ resumer.pc = "enqueue" /\ state' = [state EXCEPT ![t] = "Queued"] /\ resumer' = Idle
        /\ UNCHANGED <<cp, strikes, window, run, phase, todo, crashes>>
    BY DEF EnqueueResume, Push, store, boot
  <1>2. resumer \in Resumer /\ resumer # Idle /\ t \in Task
    BY <1>1, Values DEF IInv, TypeInv, Resumer
  <1>3. /\ state' \in [Task -> State] /\ state'[t] = "Queued"
        /\ \A u \in Task : u # t => state'[u] = state[u]
    BY <1>1, <1>2 DEF IInv, TypeInv, State
  <1>4. TypeInv' /\ BootInv' /\ ResumeInv'
    BY <1>1, <1>3 DEF IInv, TypeInv, BootInv, ResumeInv
  <1>5. \A r \in Slot : RunOk(r)'
    BY <1>1, <1>3 DEF IInv, RunOk
  <1>6. \A u \in Task : StrikeOk(u)'
    <2>1. "Queued" \notin Ended
      BY DEF Ended
    <2> QED BY <1>1, <1>3, <2>1 DEF IInv, StrikeOk, Unstruck
  <1>7. ASSUME NEW u \in Task
        PROVE  Kept(u) \/ (t = u /\ ~resumer.boot)
    <2>1. CASE u # t
      BY <1>3, <2>1 DEF Kept
    <2>2. CASE u = t
      BY <1>2, <1>3, <2>2 DEF Kept, IInv, ResumeInv
    <2> QED BY <2>1, <2>2
  <1> QED BY <1>1, <1>4, <1>5, <1>6, <1>7 DEF IInv

LEMMA PruneStep ==
  ASSUME IInv, PruneDelete
  PROVE  IInv' /\ \A t \in Task : Kept(t)
  <1>1. /\ UNCHANGED <<state, window, run, phase, todo, resumer, crashes>>
        /\ cp' = [t \in Task |-> IF t \in pruner THEN None ELSE cp[t]]
        /\ strikes' = [t \in Task |-> IF t \in pruner THEN 0 ELSE strikes[t]]
    BY DEF PruneDelete, boot
  <1>2. TypeInv'
    BY <1>1, Values DEF IInv, TypeInv
  <1>3. \A t \in Task : StrikeOk(t)'
    BY <1>1 DEF IInv, StrikeOk, Unstruck
  <1> QED BY <1>1, <1>2, <1>3, AllKept DEF IInv, BootInv, ResumeInv, RunOk

-----------------------------------------------------------------------------
(* The crash and the boot.                                                 *)

LEMMA CrashStep ==
  ASSUME IInv, Crash
  PROVE  IInv' /\ \A t \in Task : Kept(t)
  <1>1. /\ phase' = "restore" /\ todo' = {} /\ run' = [r \in Slot |-> Free] /\ resumer' = Idle
        /\ window' = [t \in Task |-> None]
        /\ crashes' = [t \in Task |-> crashes[t] +
                         IF cp[t] # None /\ Driven(t) /\ state[t] \notin Ended THEN 1 ELSE 0]
        /\ UNCHANGED <<state, cp, strikes>>
    BY DEF Crash, store
  <1>2. \A t \in Task : crashes[t] \in Nat
    BY DEF IInv, TypeInv
  <1>3. crashes' \in [Task -> Nat]
    <2>1. \A t \in Task : crashes[t] + (IF cp[t] # None /\ Driven(t) /\ state[t] \notin Ended THEN 1 ELSE 0) \in Nat
      BY <1>2
    <2> QED BY <1>1, <2>1
  <1>4. TypeInv'
    BY <1>1, <1>3, Values DEF IInv, TypeInv
  <1>5. BootInv' /\ ResumeInv' /\ \A r \in Slot : RunOk(r)'
    BY <1>1, Values DEF BootInv, ResumeInv, RunOk
  <1>6. ASSUME NEW t \in Task
        PROVE  StrikeOk(t)'
    <2>1. StrikeOk(t) /\ crashes[t] \in Nat /\ strikes[t] \in Nat
      BY <1>2, BoundAssumption DEF IInv, TypeInv
    <2>2. CASE cp[t] # None /\ Driven(t) /\ state[t] \notin Ended
      <3>1. PICK r \in Slot : run[r].task = t
        BY <2>2 DEF Driven
      <3>2. phase = "up" /\ todo = {}
        BY <3>1, Values DEF IInv, BootInv, Free
      <3>3. ~Unstruck(t)
        BY <3>2 DEF Unstruck
      <3>4. crashes[t] <= strikes[t]
        BY <2>1, <2>2, <3>3 DEF StrikeOk
      <3>5. crashes'[t] = crashes[t] + 1 /\ Unstruck(t)'
        BY <1>1, <2>2 DEF Unstruck
      <3> QED BY <1>1, <2>1, <3>4, <3>5 DEF StrikeOk
    <2>3. CASE ~(cp[t] # None /\ Driven(t) /\ state[t] \notin Ended)
      <3>1. crashes'[t] = crashes[t]
        BY <1>1, <2>1, <2>3
      <3>2. Unstruck(t) => Unstruck(t)'
        BY <1>1 DEF Unstruck
      <3> QED BY <1>1, <2>1, <3>1, <3>2 DEF StrikeOk
    <2> QED BY <2>2, <2>3
  <1> QED BY <1>1, <1>4, <1>5, <1>6, AllKept DEF IInv

LEMMA RestoreStep ==
  ASSUME IInv, Restore
  PROVE  IInv' /\ \A t \in Task : Kept(t)
  <1>1. PICK Dropped \in SUBSET {t \in Task \ Checkpointed :
                                   state[t] \in {"Queued", "Running", "Waiting"}} :
           state' = [t \in Task |-> IF t \in Dropped THEN "Cancelled" ELSE Restored(t)]
    BY DEF Restore
  <1>2. /\ phase = "restore" /\ phase' = "recover" /\ todo' = Checkpointed
        /\ UNCHANGED <<cp, strikes, window, run, resumer, crashes>>
    BY DEF Restore, store
  <1>3. state' \in [Task -> State] /\ \A t \in Task : Kept(t)
    BY <1>1 DEF IInv, TypeInv, Kept, Restored, State, Ended
  <1>4. \A t \in Task : cp[t] # None => (state'[t] \in Ended <=> state[t] \in Ended)
    BY <1>1 DEF Checkpointed, Restored, Ended
  <1>5. TypeInv'
    BY <1>2, <1>3 DEF IInv, TypeInv, Checkpointed
  <1>6. BootInv' /\ \A r \in Slot : RunOk(r)'
    BY <1>2, Values DEF IInv, BootInv, RunOk
  <1>7. ResumeInv'
    BY <1>2 DEF IInv, ResumeInv
  <1>8. ASSUME NEW t \in Task
        PROVE  StrikeOk(t)'
    <2>1. cp[t] # None => (Unstruck(t) => Unstruck(t)')
      BY <1>2, <1>4 DEF Unstruck, Checkpointed
    <2> QED BY <1>2, <1>3, <2>1 DEF IInv, StrikeOk, Kept
  <1> QED BY <1>3, <1>5, <1>6, <1>7, <1>8 DEF IInv

(* One task of the recovery.                                               *)
LEMMA RecoverStep ==
  ASSUME IInv, NEW t \in Task, Recover(t)
  PROVE  IInv' /\ \A u \in Task : Kept(u)
  <1>1. /\ phase = "recover" /\ resumer = Idle /\ t \in todo /\ todo' = todo \ {t}
        /\ UNCHANGED <<window, run, phase, crashes>>
    BY DEF Recover, IInv, TypeInv, Resumer
  <1>2. StrikeOk(t) /\ crashes[t] \in Nat /\ strikes[t] \in 0..MaxBootResumes /\ MaxBootResumes \in Nat
    BY BoundAssumption DEF IInv, TypeInv
  <1>3. ASSUME UNCHANGED state, TypeInv', ResumeInv',
               \A u \in Task : u # t => strikes'[u] = strikes[u],
               StrikeOk(t)', UNCHANGED cp
        PROVE  IInv' /\ \A u \in Task : Kept(u)
    <2>1. BootInv' /\ \A r \in Slot : RunOk(r)'
      BY <1>1, <1>3 DEF IInv, BootInv, RunOk
    <2>2. \A u \in Task : u # t => StrikeOk(u)'
      BY <1>1, <1>3 DEF IInv, StrikeOk, Unstruck
    <2> QED BY <1>3, <2>1, <2>2, AllKept DEF IInv
  <1>4. CASE ~Recoverable(t) /\ UNCHANGED <<state, cp, strikes, resumer>>
    <2>1. TypeInv' /\ ResumeInv'
      BY <1>1, <1>4 DEF IInv, TypeInv, ResumeInv
    <2>2. StrikeOk(t)'
      BY <1>1, <1>2, <1>4 DEF StrikeOk, Unstruck, Recoverable
    <2> QED BY <1>3, <1>4, <2>1, <2>2
  <1>5. CASE DeleteCheckpoint(t) /\ SetUnlessEnded(t, "Failed") /\ UNCHANGED resumer
    <2>1. state' \in [Task -> State] /\ \A u \in Task : Kept(u)
      BY <1>5, StateSetUnlessEnded DEF State, Ended
    <2>2. /\ cp' \in [Task -> Steps \cup {None}] /\ strikes' \in [Task -> 0..MaxBootResumes]
          /\ cp'[t] = None
          /\ \A u \in Task : u # t => cp'[u] = cp[u] /\ strikes'[u] = strikes[u]
      BY <1>5, CheckpointDeleted
    <2>3. TypeInv' /\ BootInv' /\ ResumeInv'
      BY <1>1, <1>5, <2>1, <2>2 DEF IInv, TypeInv, BootInv, ResumeInv
    <2>4. \A r \in Slot : RunOk(r)'
      BY <1>1, <2>1 DEF IInv, RunOk, Kept
    <2>5. \A u \in Task : u # t => state'[u] = state[u]
      BY <1>5 DEF SetUnlessEnded, IInv, TypeInv
    <2>6. \A u \in Task : StrikeOk(u)'
      BY <1>1, <2>2, <2>5 DEF IInv, StrikeOk, Unstruck
    <2> QED BY <2>1, <2>3, <2>4, <2>6 DEF IInv
  <1>6. CASE /\ Recoverable(t) /\ Strike(t) <= MaxBootResumes
             /\ strikes' = [strikes EXCEPT ![t] = Strike(t)]
             /\ LoadResume(t, TRUE) \/ UNCHANGED resumer
             /\ UNCHANGED <<state, cp>>
    <2>1. Strike(t) = strikes[t] + 1 /\ Strike(t) \in 0..MaxBootResumes
      BY <1>2, <1>6 DEF Strike
    <2>2. /\ strikes' \in [Task -> 0..MaxBootResumes] /\ strikes'[t] = strikes[t] + 1
          /\ \A u \in Task : u # t => strikes'[u] = strikes[u]
      BY <1>6, <2>1 DEF IInv, TypeInv
    <2>3. /\ resumer' \in Resumer \cup {Idle}
          /\ resumer' # Idle => resumer'.task = t
      BY <1>1, <1>6, Loaded
    <2>4. TypeInv' /\ ResumeInv'
      BY <1>1, <1>6, <2>2, <2>3 DEF IInv, TypeInv, ResumeInv, Recoverable
    <2>5. StrikeOk(t)'
      BY <1>1, <1>2, <1>6, <2>2 DEF StrikeOk
    <2> QED BY <1>3, <1>6, <2>2, <2>4, <2>5
  <1> QED BY <1>4, <1>5, <1>6 DEF Recover

LEMMA StartedStep ==
  ASSUME IInv, Started
  PROVE  IInv' /\ \A t \in Task : Kept(t)
  <1>1. /\ phase = "recover" /\ phase' = "up" /\ todo = {} /\ resumer = Idle
        /\ UNCHANGED <<state, cp, strikes, window, run, todo, resumer, crashes>>
    BY DEF Started, store, IInv, TypeInv, Resumer
  <1> QED BY <1>1, AllKept DEF IInv, TypeInv, BootInv, ResumeInv, RunOk, StrikeOk, Unstruck

-----------------------------------------------------------------------------
(* The theorems.                                                           *)

LEMMA InitInv == Init => IInv
  <1> SUFFICES ASSUME Init PROVE IInv
    OBVIOUS
  <1>1. TypeInv
    BY Values DEF Init, TypeInv, State
  <1>2. BootInv /\ ResumeInv
    BY DEF Init, BootInv, ResumeInv
  <1>3. \A r \in Slot : RunOk(r)
    BY Values DEF Init, RunOk
  <1>4. \A t \in Task : StrikeOk(t)
    BY DEF Init, StrikeOk
  <1> QED BY <1>1, <1>2, <1>3, <1>4 DEF IInv

LEMMA NextInv ==
  ASSUME IInv, [Next]_vars
  PROVE  /\ IInv'
         /\ \A t \in Task : Kept(t) \/ (resumer.task = t /\ resumer.pc = "enqueue" /\ ~resumer.boot)
  <1>1. CASE \E t \in Task : Submit(t) \/ Wake(t) \/ Resume(t) \/ End(t) \/ Lapse(t)
                             \/ Executor(t) \/ DropEntries(t)
    BY <1>1, OutsideSteps, OperatorResume, QuietSteps
  <1>2. CASE \E r \in Slot, t \in Task : RunNow(r, t)
    BY <1>2, OutsideSteps
  <1>3. CASE \E r \in Slot : LoopStep(r) \/ Die(r)
    BY <1>3, LoopSteps
  <1>4. CASE ResumeStep
    BY <1>4, ResumeGoesOn, ResumeEnds DEF ResumeStep
  <1>5. CASE BootStep
    BY <1>5, RestoreStep, RecoverStep, StartedStep DEF BootStep
  <1>6. CASE EndStep \/ Sweep \/ PruneRead \/ UNCHANGED vars
    BY <1>6, QuietSteps
  <1>7. CASE PruneDelete
    BY <1>7, PruneStep
  <1>8. CASE Crash
    BY <1>8, CrashStep
  <1> QED BY <1>1, <1>2, <1>3, <1>4, <1>5, <1>6, <1>7, <1>8 DEF Next

LEMMA Invariant == Spec => []IInv
  <1>1. IInv /\ [Next]_vars => IInv'
    BY NextInv
  <1> QED BY <1>1, InitInv, PTL DEF Spec

(* A task with a checkpoint cannot bring the kernel down more often than   *)
(* MAX_BOOT_RESUMES allows, and once more, without a checkpoint being      *)
(* written in between: each crash is counted at the next boot             *)
(* (recover_checkpointed_tasks, increment_resume_count), for any number of *)
(* tasks, executions, crashes, resumes and prunes.                         *)
THEOREM PoisonTasksStop == Spec => []PoisonStops
  <1>1. ASSUME IInv, NEW t \in Task, cp[t] # None
        PROVE  crashes[t] <= MaxBootResumes + 1
    <2>1. crashes[t] <= strikes[t] + 1
      BY <1>1 DEF IInv, StrikeOk
    <2>2. crashes[t] \in Nat /\ strikes[t] \in 0..MaxBootResumes /\ MaxBootResumes \in Nat
      BY <1>1, BoundAssumption DEF IInv, TypeInv
    <2> QED BY <2>1, <2>2
  <1>2. IInv => PoisonStops
    BY <1>1 DEF PoisonStops
  <1> QED BY <1>2, Invariant, PTL

(* Whatever a boot, an execution that outlived the end of its task, an     *)
(* approval or a timeout does, only a resume that an operator asked for    *)
(* takes a task out of a terminal state (cmd_resume_task).                 *)
THEOREM EndsAreFinal == Spec => OnlyOperatorRevives
  <1>1. ASSUME IInv, [Next]_vars
        PROVE  [\A t \in Task : state[t] \in Ended /\ state'[t] \notin Ended =>
                  resumer.pc = "enqueue" /\ resumer.task = t /\ ~resumer.boot]_vars
    <2>1. \A t \in Task : Kept(t) \/ (resumer.task = t /\ resumer.pc = "enqueue" /\ ~resumer.boot)
      BY <1>1, NextInv
    <2> QED BY <2>1 DEF Kept
  <1>2. IInv /\ [Next]_vars =>
           [\A t \in Task : state[t] \in Ended /\ state'[t] \notin Ended =>
              resumer.pc = "enqueue" /\ resumer.task = t /\ ~resumer.boot]_vars
    BY <1>1
  <1> QED BY <1>2, Invariant, PTL DEF Spec, OnlyOperatorRevives

-----------------------------------------------------------------------------
(* The shape of the variables.  What takes an argument is the bound on the *)
(* heap: a task has an entry for every way in it took (one submission, and *)
(* one per resume by an operator), and parking and waking it in turn       *)
(* brings no more, since each park uses up the execution that an entry was *)
(* spent on.  So executions, a state to be woken from and a resume under   *)
(* way all count as entries to come.                                       *)

Runs(t) == {r \in Slot : run[r].task = t}
Waits(t) == IF state[t] = "Waiting" THEN 1 ELSE 0
Pending(t) == IF resumer # Idle /\ resumer.task = t /\ ~resumer.boot THEN 1 ELSE 0

WaysIn(t) ==
    /\ state[t] = "Absent" => heap[t] = 0
    /\ IsFiniteSet(Runs(t))
    /\ heap[t] + Waits(t) + Pending(t) + Cardinality(Runs(t)) <= 1 + count.resume

Ender == [pc : {"close", "release"}, task : Task]

(* The boot resumes what waits: all else it has queued itself.             *)
RestInv ==
    /\ heap \in [Task -> Nat]
    /\ claim \in [Task -> {"none", "held", "lapsed"}]
    /\ ender \in Ender \cup {Idle}
    /\ pruner \subseteq Task
    /\ count \in [crash : 0..MaxCrashes, resume : 0..MaxResumes, end : Nat]
    /\ phase # "up" => ender = Idle /\ pruner = {}
    /\ \A t \in Task : crashes[t] <= count.crash
    /\ resumer # Idle => /\ state[resumer.task] # "Absent"
                         /\ resumer.boot => state[resumer.task] = "Waiting"
                         /\ ~resumer.boot => phase = "up"

HInv == IInv /\ RestInv /\ \A t \in Task : WaysIn(t)

LEMMA WaysAreNumbers ==
  ASSUME HInv, NEW t \in Task
  PROVE  /\ heap[t] \in Nat /\ Waits(t) \in {0, 1} /\ Pending(t) \in {0, 1}
         /\ Cardinality(Runs(t)) \in Nat /\ count.resume \in Nat
  BY FS_CardinalityType, BoundAssumption DEF HInv, RestInv, WaysIn, Waits, Pending

(* No execution is added, and entries to come are paid for.                *)
LEMMA FewerWays ==
  ASSUME HInv, NEW t \in Task, Runs(t)' \subseteq Runs(t),
         heap'[t] \in Nat, count'.resume \in Nat,
         heap'[t] + Waits(t)' + Pending(t)' + count.resume
            <= heap[t] + Waits(t) + Pending(t) + count'.resume,
         state'[t] = "Absent" => heap'[t] = 0
  PROVE  WaysIn(t)'
  <1>1. IsFiniteSet(Runs(t)') /\ Cardinality(Runs(t)') <= Cardinality(Runs(t))
    BY FS_Subset DEF HInv, WaysIn
  <1>2. Cardinality(Runs(t)') \in Nat /\ Waits(t)' \in {0, 1} /\ Pending(t)' \in {0, 1}
    BY <1>1, FS_CardinalityType DEF Waits, Pending
  <1>3. heap[t] + Waits(t) + Pending(t) + Cardinality(Runs(t)) <= 1 + count.resume
    BY DEF HInv, WaysIn
  <1>4. heap'[t] + Waits(t)' + Pending(t)' + Cardinality(Runs(t)') <= 1 + count'.resume
    BY <1>1, <1>2, <1>3, WaysAreNumbers
  <1> QED BY <1>1, <1>4 DEF WaysIn

(* An execution leaves, and one entry is to come for it.                   *)
LEMMA LoopLeaves ==
  ASSUME HInv, NEW t \in Task, NEW r \in Runs(t), Runs(t)' = Runs(t) \ {r},
         heap'[t] = heap[t], Pending(t)' = Pending(t), count' = count,
         state'[t] = "Absent" => heap'[t] = 0
  PROVE  WaysIn(t)'
  <1>1. IsFiniteSet(Runs(t)') /\ Cardinality(Runs(t)') = Cardinality(Runs(t)) - 1
    BY FS_RemoveElement DEF HInv, WaysIn
  <1>2. Waits(t)' \in {0, 1}
    BY DEF Waits
  <1>3. heap[t] + Waits(t) + Pending(t) + Cardinality(Runs(t)) <= 1 + count.resume
    BY DEF HInv, WaysIn
  <1>4. heap'[t] + Waits(t)' + Pending(t)' + Cardinality(Runs(t)') <= 1 + count'.resume
    BY <1>1, <1>2, <1>3, WaysAreNumbers
  <1> QED BY <1>1, <1>4 DEF WaysIn

(* An execution begins, and an entry is spent on it.                       *)
LEMMA LoopEnters ==
  ASSUME HInv, NEW t \in Task, NEW r \in Slot \ Runs(t), Runs(t)' = Runs(t) \cup {r},
         heap'[t] \in Nat, count' = count,
         heap'[t] + Waits(t)' + Pending(t)' + 1 <= heap[t] + Waits(t) + Pending(t),
         state'[t] = "Absent" => heap'[t] = 0
  PROVE  WaysIn(t)'
  <1>1. IsFiniteSet(Runs(t)') /\ Cardinality(Runs(t)') = Cardinality(Runs(t)) + 1
    BY FS_AddElement DEF HInv, WaysIn
  <1>2. Waits(t)' \in {0, 1} /\ Pending(t)' \in {0, 1}
    BY DEF Waits, Pending
  <1>3. heap[t] + Waits(t) + Pending(t) + Cardinality(Runs(t)) <= 1 + count.resume
    BY DEF HInv, WaysIn
  <1>4. heap'[t] + Waits(t)' + Pending(t)' + Cardinality(Runs(t)') <= 1 + count'.resume
    BY <1>1, <1>2, <1>3, WaysAreNumbers
  <1> QED BY <1>1, <1>4 DEF WaysIn

(* A task that was not submitted has taken no way in.                      *)
LEMMA NoWays ==
  ASSUME HInv, NEW t \in Task, state[t] = "Absent"
  PROVE  heap[t] = 0 /\ Waits(t) = 0 /\ Pending(t) = 0 /\ Runs(t) = {}
  <1>1. \A r \in Slot : run[r].task # t
    BY Values DEF HInv, IInv, RunOk, Free
  <1>2. Runs(t) = {}
    BY <1>1 DEF Runs
  <1> QED BY <1>2 DEF HInv, RestInv, WaysIn, Waits, Pending

(* Executions go on or leave, and no state is one to be woken from.        *)
LEMMA QuietWays ==
  ASSUME HInv, UNCHANGED <<heap, resumer, count>>,
         \A r \in Slot : run'[r].task \in {run[r].task, None},
         \A t \in Task : state'[t] = state[t] \/ state'[t] \notin {"Waiting", "Absent"}
  PROVE  \A t \in Task : WaysIn(t)'
  <1> SUFFICES ASSUME NEW t \in Task
               PROVE  WaysIn(t)'
    OBVIOUS
  <1>1. Runs(t)' \subseteq Runs(t)
    BY Values DEF Runs
  <1>2. Waits(t)' <= Waits(t) /\ Waits(t)' \in {0, 1} /\ Pending(t)' = Pending(t)
    BY DEF Waits, Pending
  <1>3. state'[t] = "Absent" => heap'[t] = 0
    BY DEF HInv, WaysIn
  <1> QED BY <1>1, <1>2, <1>3, WaysAreNumbers, FewerWays

(* Between two boots.                                                      *)
LEMMA UpRest ==
  ASSUME HInv, phase = "up", phase' = "up", IInv', \A t \in Task : Kept(t),
         resumer' = resumer \/ resumer' = Idle,
         heap' \in [Task -> Nat], claim' \in [Task -> {"none", "held", "lapsed"}],
         ender' \in Ender \cup {Idle}, pruner' \subseteq Task,
         count' \in [crash : 0..MaxCrashes, resume : 0..MaxResumes, end : Nat],
         count'.crash = count.crash,
         \A t \in Task : crashes'[t] = crashes[t] \/ crashes'[t] = 0
  PROVE  RestInv'
  <1>1. \A t \in Task : crashes'[t] <= count'.crash
    BY DEF HInv, RestInv
  <1>2. resumer' # Idle => /\ resumer' = resumer /\ resumer \in Resumer /\ ~resumer.boot
                           /\ state'[resumer.task] # "Absent"
    BY DEF HInv, RestInv, IInv, TypeInv, ResumeInv, Kept, Resumer
  <1> QED BY <1>1, <1>2 DEF RestInv

LEMMA LoopWays ==
  ASSUME HInv, NEW r \in Slot, LoopStep(r) \/ Die(r)
  PROVE  HInv'
  <1> DEFINE t == run[r].task
  <1>1. IInv' /\ \A u \in Task : Kept(u)
    BY LoopSteps DEF HInv
  <1>2. run[r].pc # "free"
    BY Values DEF LoopStep, Claim, Begin, Setup, Ask, Quit, Park, Effect, Save, Answer, Answered, Succeed,
       Complete, Fail, Failing, Drop, Reap, Die, At, HInv, IInv, RunOk
  <1>3. phase = "up" /\ t \in Task /\ state[t] # "Absent"
    BY <1>2, Running DEF HInv
  <1>4. UNCHANGED <<heap, ender, count, phase, resumer>>
    BY DEF LoopStep, Claim, Begin, Setup, Ask, Quit, Park, Effect, Save, Answer, Answered, Succeed,
       Complete, Fail, Failing, Drop, Reap, Die, boot
  <1>5. claim' \in [Task -> {"none", "held", "lapsed"}]
    <2>1. claim \in [Task -> {"none", "held", "lapsed"}]
      BY DEF HInv, RestInv
    <2>2. claim' = claim \/ \E c \in {"none", "held"} : claim' = [claim EXCEPT ![t] = c]
      BY DEF LoopStep, Claim, Begin, Setup, Ask, Quit, Park, Effect, Save, Answer, Answered, Succeed,
         Complete, Fail, Failing, Drop, Reap, Die, store, Release
    <2> QED BY <2>1, <2>2
  <1>6. pruner' \subseteq pruner
    BY DEF LoopStep, Claim, Begin, Setup, Ask, Quit, Park, Effect, Save, Answer, Answered, Succeed,
       Complete, Fail, Failing, Drop, Reap, Die
  <1>7. \A u \in Task : crashes'[u] = crashes[u] \/ crashes'[u] = 0
    <2>1. crashes' = crashes \/ crashes' = [crashes EXCEPT ![t] = 0]
      BY DEF LoopStep, Claim, Begin, Setup, Ask, Quit, Park, Effect, Save, Answer, Answered, Succeed,
         Complete, Fail, Failing, Drop, Reap, Die
    <2> QED BY <2>1 DEF HInv, IInv, TypeInv
  <1>8. RestInv'
    <2>1. /\ heap' \in [Task -> Nat] /\ ender' \in Ender \cup {Idle} /\ pruner' \subseteq Task
          /\ count' \in [crash : 0..MaxCrashes, resume : 0..MaxResumes, end : Nat]
          /\ count'.crash = count.crash
      BY <1>4, <1>6 DEF HInv, RestInv
    <2> QED BY <1>1, <1>3, <1>4, <1>5, <1>7, <2>1, UpRest
  <1>9. \A u \in Task : WaysIn(u)'
    <2>1. CASE Park(r)
      <3>1. run' = [run EXCEPT ![r] = Free] /\ SetUnlessEnded(t, "Waiting")
        BY <2>1 DEF Park
      <3>2. /\ \A q \in Slot : run'[q].task = IF q = r THEN None ELSE run[q].task
            /\ \A u \in Task : u # t => state'[u] = state[u]
        BY <3>1 DEF HInv, IInv, TypeInv, Free, SetUnlessEnded
      <3> HIDE DEF t
      <3>3. ASSUME NEW u \in Task
            PROVE  WaysIn(u)'
        <4>1. Pending(u)' = Pending(u) /\ heap'[u] = heap[u] /\ (state'[u] = "Absent" => heap'[u] = 0)
          BY <1>1, <1>4 DEF Pending, HInv, WaysIn, Kept
        <4>2. CASE u = t
          <5>1. r \in Runs(u) /\ Runs(u)' = Runs(u) \ {r}
            BY <3>2, <4>2, Values DEF Runs, t
          <5> QED BY <1>4, <4>1, <5>1, LoopLeaves
        <4>3. CASE u # t
          <5>1. Runs(u)' \subseteq Runs(u) /\ Waits(u)' = Waits(u)
            BY <3>2, <4>3, Values DEF Runs, Waits
          <5> QED BY <1>4, <4>1, <5>1, WaysAreNumbers, FewerWays
        <4> QED BY <4>2, <4>3
      <3> QED BY <3>3
    <2>2. CASE (LoopStep(r) /\ ~Park(r)) \/ Die(r)
      <3>1. \A q \in Slot : run'[q].task \in {run[q].task, None}
        <4>1. \E e \in {Free} \cup [pc : Pc, task : {t}, calls : Steps \cup {None}, inFlight : BOOLEAN] :
                 run' = [run EXCEPT ![r] = e]
          <5> DEFINE Going == [pc : Pc, task : {t}, calls : Steps \cup {None}, inFlight : BOOLEAN]
          <5>1. run[r] \in Execution
            BY DEF HInv, IInv, TypeInv
          <5>2. \A l \in Pc : [run[r] EXCEPT !.pc = l] \in Going
            BY <5>1 DEF Execution
          <5>3. CASE Ask(r)
            <6>1. run' = [run EXCEPT ![r] = [run[r] EXCEPT !.pc = "tool", !.calls = window[t]]]
              BY <5>3, <5>1 DEF Ask, HInv, IInv, TypeInv
            <6>2. [run[r] EXCEPT !.pc = "tool", !.calls = window[t]] \in Going
              BY <5>1, <1>3 DEF Execution, Pc, HInv, IInv, TypeInv
            <6> QED BY <6>1, <6>2
          <5>4. CASE Reap(r)
            <6>1. \/ run' = [run EXCEPT ![r] = Free]
                  \/ run' = [run EXCEPT ![r] = [run[r] EXCEPT !.pc = "fail", !.inFlight = FALSE]]
              BY <5>4 DEF Reap
            <6>2. [run[r] EXCEPT !.pc = "fail", !.inFlight = FALSE] \in Going
              BY <5>1 DEF Execution, Pc
            <6> QED BY <6>1, <6>2
          <5>5. CASE (LoopStep(r) /\ ~Ask(r) /\ ~Reap(r)) \/ Die(r)
            <6>1. \/ run' = [run EXCEPT ![r] = Free]
                  \/ \E l \in Pc : run' = [run EXCEPT ![r] = [run[r] EXCEPT !.pc = l]]
              BY <5>5, Z3 DEF LoopStep, Claim, Begin, Setup, Quit, Park, Effect, Save, Answer, Answered,
                 Succeed, Complete, Fail, Failing, Drop, Die, Goto, Pc
            <6> QED BY <5>2, <6>1
          <5> QED BY <2>2, <5>3, <5>4, <5>5
        <4>2. run \in [Slot -> Execution]
          BY DEF HInv, IInv, TypeInv
        <4> QED BY <4>1, <4>2 DEF Free
      <3>2. state' = state \/ \E s \in {"Running", "Complete", "Failed"} : SetUnlessEnded(t, s)
        BY <2>2 DEF LoopStep, Claim, Begin, Setup, Ask, Quit, Park, Effect, Save, Answer, Answered, Succeed,
           Complete, Fail, Failing, Drop, Reap, Die
      <3>3. \A u \in Task : state'[u] = state[u] \/ state'[u] \notin {"Waiting", "Absent"}
        BY <3>2 DEF SetUnlessEnded, HInv, IInv, TypeInv
      <3> QED BY <1>4, <3>1, <3>3, QuietWays
    <2> QED BY <2>1, <2>2
  <1> QED BY <1>1, <1>8, <1>9 DEF HInv

(* Submissions, approvals, dispatches: an entry is paid for by a state, or *)
(* pays for an execution.                                                  *)
LEMMA WaysTaken ==
  ASSUME HInv, NEW t \in Task,
         Submit(t) \/ Wake(t) \/ Executor(t) \/ \E r \in Slot : RunNow(r, t)
  PROVE  HInv'
  <1>1. IInv' /\ \A u \in Task : Kept(u)
    BY OutsideSteps DEF HInv
  <1>2. phase = "up" /\ UNCHANGED <<claim, phase, resumer, ender, pruner, crashes, count>>
    BY DEF Submit, Wake, Executor, Dispatch, RunNow, Up, store, boot
  <1>3. heap \in [Task -> Nat] /\ state \in [Task -> State] /\ run \in [Slot -> Execution]
    BY DEF HInv, RestInv, IInv, TypeInv
  <1>4. heap' \in [Task -> Nat] /\ \A u \in Task : u # t => heap'[u] = heap[u] /\ state'[u] = state[u]
    <2>1. \/ heap' = heap
          \/ heap' = [heap EXCEPT ![t] = @ + 1]
          \/ heap[t] > 0 /\ heap' = [heap EXCEPT ![t] = @ - 1]
      BY DEF Submit, Wake, Push, Executor, Dispatch, RunNow
    <2>2. state' = state \/ \E s \in State : state' = [state EXCEPT ![t] = s]
      BY DEF Submit, Wake, Push, Executor, Dispatch, RunNow, State
    <2> QED BY <1>3, <2>1, <2>2
  <1>5. RestInv'
    BY <1>1, <1>2, <1>4, UpRest DEF HInv, RestInv
  <1>6. \A u \in Task : u # t => WaysIn(u)'
    <2>1. ASSUME NEW u \in Task, u # t
          PROVE  WaysIn(u)'
      <3>1. Runs(u)' \subseteq Runs(u)
        <4>1. run' = run \/ \E r \in Slot : run'[r].task = t /\ \A q \in Slot : q # r => run'[q] = run[q]
          <5>1. CASE \E r \in Slot : Dispatch(r, t)
            <6>1. PICK r \in Slot : Dispatch(r, t)
              BY <5>1
            <6>2. [Free EXCEPT !.pc = "begin", !.task = t, !.inFlight = TRUE].task = t
              BY DEF Free
            <6> QED BY <1>3, <6>1, <6>2 DEF Dispatch
          <5>2. CASE \E r \in Slot : RunNow(r, t)
            <6>1. PICK r \in Slot : RunNow(r, t)
              BY <5>2
            <6>2. [Free EXCEPT !.pc = "claim", !.task = t].task = t
              BY DEF Free
            <6> QED BY <1>3, <6>1, <6>2 DEF RunNow
          <5>3. CASE Submit(t) \/ Wake(t)
            BY <5>3 DEF Submit, Wake
          <5> QED BY <5>1, <5>2, <5>3 DEF Executor
        <4> QED BY <2>1, <4>1 DEF Runs
      <3>2. heap'[u] = heap[u] /\ Waits(u)' = Waits(u) /\ Pending(u)' = Pending(u)
            /\ (state'[u] = "Absent" => heap'[u] = 0)
        BY <1>1, <1>2, <1>4, <2>1 DEF Waits, Pending, HInv, WaysIn
      <3> QED BY <1>2, <2>1, <3>1, <3>2, WaysAreNumbers, FewerWays
    <2> QED BY <2>1
  <1>7. WaysIn(t)'
    <2>1. Pending(t)' = Pending(t)
      BY <1>2 DEF Pending
    <2>2. CASE Submit(t) \/ Wake(t)
      <3>1. Runs(t)' = Runs(t) /\ heap'[t] = heap[t] + 1 /\ state'[t] = "Queued"
        BY <1>3, <2>2 DEF Submit, Wake, Push, Runs
      <3>2. Waits(t)' = 0
        BY <3>1 DEF Waits
      <3>3. CASE Wake(t)
        <4>1. Waits(t) = 1
          BY <3>3 DEF Wake, Waits
        <4> QED BY <1>2, <2>1, <3>1, <3>2, <4>1, WaysAreNumbers, FewerWays
      <3>4. CASE Submit(t)
        <4>1. heap[t] = 0 /\ Waits(t) = 0 /\ Pending(t) = 0 /\ Runs(t) = {}
          BY <3>4, NoWays DEF Submit
        <4> QED BY <1>2, <2>1, <3>1, <3>2, <4>1, WaysAreNumbers, FS_EmptySet DEF WaysIn
      <3> QED BY <2>2, <3>3, <3>4
    <2>3. CASE Executor(t)
      <3>1. PICK r \in Slot : Dispatch(r, t)
        BY <2>3 DEF Executor
      <3>2. heap'[t] + 1 = heap[t] /\ heap'[t] \in Nat /\ state' = state /\ state[t] = "Queued"
        BY <1>3, <3>1 DEF Dispatch
      <3>3. r \notin Runs(t)
        BY <3>1, Values DEF Dispatch, NextSlot, At, Runs, HInv, IInv, RunOk, Free
      <3>4. Runs(t)' = Runs(t) \cup {r}
        <4>1. [Free EXCEPT !.pc = "begin", !.task = t, !.inFlight = TRUE].task = t
          BY DEF Free
        <4>2. run'[r].task = t /\ \A q \in Slot : q # r => run'[q] = run[q]
          BY <1>3, <3>1, <4>1 DEF Dispatch
        <4> QED BY <4>2 DEF Runs
      <3>5. Waits(t)' = Waits(t)
        BY <3>2 DEF Waits
      <3> QED BY <1>2, <2>1, <3>2, <3>3, <3>4, <3>5, WaysAreNumbers, LoopEnters
    <2>4. CASE \E r \in Slot : RunNow(r, t)
      <3>1. PICK r \in Slot : RunNow(r, t)
        BY <2>4
      <3>2. heap[t] = 0 /\ Waits(t) = 0 /\ Pending(t) = 0 /\ Runs(t) = {}
        BY <3>1, NoWays DEF RunNow
      <3>3. Runs(t)' = {r}
        <4>1. [Free EXCEPT !.pc = "claim", !.task = t].task = t
          BY DEF Free
        <4>2. run'[r].task = t /\ \A q \in Slot : q # r => run'[q] = run[q]
          BY <1>3, <3>1, <4>1 DEF RunNow
        <4> QED BY <3>2, <4>2 DEF Runs
      <3>4. heap' = heap /\ state'[t] = "Running"
        BY <1>3, <3>1 DEF RunNow
      <3>5. Waits(t)' = 0
        BY <3>4 DEF Waits
      <3>6. IsFiniteSet(Runs(t)') /\ Cardinality(Runs(t)') = 1
        BY <3>3, FS_Singleton
      <3> QED BY <1>2, <2>1, <3>2, <3>4, <3>5, <3>6, WaysAreNumbers DEF WaysIn
    <2> QED BY <2>2, <2>3, <2>4
  <1> QED BY <1>1, <1>5, <1>6, <1>7 DEF HInv

(* An operator's resume is a way in of its own.                            *)
LEMMA ResumeWays ==
  ASSUME HInv, NEW t \in Task, Resume(t)
  PROVE  HInv'
  <1>1. IInv' /\ \A u \in Task : Kept(u)
    BY OperatorResume DEF HInv
  <1>2. /\ phase = "up" /\ count.resume < MaxResumes /\ LoadResume(t, FALSE)
        /\ count' = [count EXCEPT !.resume = @ + 1]
        /\ UNCHANGED <<state, heap, claim, run, phase, ender, pruner, crashes>>
    BY DEF Resume, Up, store, boot
  <1>3. resumer = Idle /\ resumer' \in Resumer /\ resumer'.task = t /\ ~resumer'.boot
    BY <1>2, Loaded DEF HInv
  <1>4. /\ count' \in [crash : 0..MaxCrashes, resume : 0..MaxResumes, end : Nat]
        /\ count'.resume = count.resume + 1 /\ count'.crash = count.crash
    BY <1>2, BoundAssumption DEF HInv, RestInv
  <1>5. state[t] # "Absent"
    BY <1>2 DEF LoadResume, Resumable, HInv, IInv, StrikeOk
  <1>6. RestInv'
    BY <1>2, <1>3, <1>4, <1>5 DEF HInv, RestInv
  <1>7. ASSUME NEW u \in Task
        PROVE  WaysIn(u)'
    <2>1. Runs(u)' = Runs(u) /\ Waits(u)' = Waits(u) /\ Pending(u) = 0 /\ Pending(u)' \in {0, 1}
      BY <1>2, <1>3 DEF Runs, Waits, Pending
    <2>2. state'[u] = "Absent" => heap'[u] = 0
      BY <1>2 DEF HInv, WaysIn
    <2> QED BY <1>2, <1>4, <2>1, <2>2, WaysAreNumbers, FewerWays
  <1> QED BY <1>1, <1>6, <1>7 DEF HInv

(* Timeouts, cancellations, leases and prunes.                             *)
LEMMA HousekeepingWays ==
  ASSUME HInv,
         \/ \E t \in Task : End(t) \/ Lapse(t) \/ DropEntries(t)
         \/ EndStep \/ Sweep \/ PruneRead \/ PruneDelete \/ UNCHANGED vars
  PROVE  HInv'
  <1>1. IInv' /\ \A t \in Task : Kept(t)
    BY OutsideSteps, QuietSteps, PruneStep DEF HInv
  <1>2. UNCHANGED <<run, phase, resumer, crashes>> /\ count'.resume = count.resume
    <2>1. CASE \E t \in Task : End(t)
      BY <2>1 DEF End, boot, HInv, RestInv
    <2>2. CASE \/ \E t \in Task : Lapse(t) \/ DropEntries(t)
               \/ EndStep \/ Sweep \/ PruneRead \/ PruneDelete \/ UNCHANGED vars
      BY <2>2 DEF Lapse, DropEntries, EndStep, EndClose, EndRelease, Sweep, PruneRead, PruneDelete, vars, boot
    <2> QED BY <2>1, <2>2
  <1>3. \A t \in Task : state'[t] = state[t] \/ state'[t] \in Ended
    BY DEF End, TimeOut, Cancel, Ended, HInv, IInv, TypeInv,
       Lapse, DropEntries, EndStep, EndClose, EndRelease, Sweep, PruneRead, PruneDelete, vars
  <1>4. heap' \in [Task -> Nat] /\ \A t \in Task : heap'[t] = heap[t] \/ heap'[t] = 0
    <2>1. heap \in [Task -> Nat]
      BY DEF HInv, RestInv
    <2>2. heap' = heap \/ \E t \in Task : heap' = [heap EXCEPT ![t] = 0]
      BY DEF End, Lapse, DropEntries, EndStep, EndClose, EndRelease, Sweep, PruneRead, PruneDelete, vars
    <2> QED BY <2>1, <2>2
  <1>5. claim' \in [Task -> {"none", "held", "lapsed"}]
    <2>1. claim \in [Task -> {"none", "held", "lapsed"}]
      BY DEF HInv, RestInv
    <2>2. CASE Sweep
      BY <2>1, <2>2 DEF Sweep
    <2>3. CASE \/ \E t \in Task : End(t) \/ Lapse(t) \/ DropEntries(t)
               \/ EndStep \/ PruneRead \/ PruneDelete \/ UNCHANGED vars
      BY <2>1, <2>3 DEF End, Lapse, DropEntries, EndStep, EndClose, EndRelease, PruneRead, PruneDelete,
         vars, store, Release
    <2> QED BY <2>2, <2>3
  <1>6. ender' \in Ender \cup {Idle}
    BY DEF HInv, RestInv, Ender, Idle,
       End, Lapse, DropEntries, EndStep, EndClose, EndRelease, Sweep, PruneRead, PruneDelete, vars
  <1>7. pruner' \subseteq Task
    BY DEF HInv, RestInv,
       End, Lapse, DropEntries, EndStep, EndClose, EndRelease, Sweep, PruneRead, PruneDelete, vars
  <1>8. count' \in [crash : 0..MaxCrashes, resume : 0..MaxResumes, end : Nat] /\ count'.crash = count.crash
    BY DEF HInv, RestInv,
       End, Lapse, DropEntries, EndStep, EndClose, EndRelease, Sweep, PruneRead, PruneDelete, vars
  <1>9. ASSUME phase # "up"
        PROVE  UNCHANGED <<state, ender, pruner>>
    <2>1. ender.pc = "idle" /\ pruner = {}
      BY <1>9 DEF HInv, RestInv, Idle
    <2> QED BY <1>9, <2>1 DEF End, Lapse, DropEntries, EndStep, EndClose, EndRelease, Sweep, PruneRead,
               PruneDelete, Up, vars
  <1>10. RestInv'
    <2>1. CASE phase = "up"
      BY <1>1, <1>2, <1>4, <1>5, <1>6, <1>7, <1>8, <2>1, UpRest
    <2>2. CASE phase # "up"
      BY <1>2, <1>4, <1>5, <1>6, <1>7, <1>8, <1>9, <2>2 DEF HInv, RestInv
    <2> QED BY <2>1, <2>2
  <1>11. ASSUME NEW t \in Task
         PROVE  WaysIn(t)'
    <2>1. Runs(t)' = Runs(t) /\ Pending(t)' = Pending(t)
      BY <1>2 DEF Runs, Pending
    <2>2. Waits(t)' <= Waits(t) /\ Waits(t)' \in {0, 1}
      BY <1>3 DEF Waits, Ended
    <2>3. state'[t] = "Absent" => heap'[t] = 0
      BY <1>3, <1>4 DEF HInv, WaysIn, Ended
    <2> QED BY <1>2, <1>4, <2>1, <2>2, <2>3, WaysAreNumbers, FewerWays
  <1> QED BY <1>1, <1>10, <1>11 DEF HInv

(* The rest of a resume: the operator's turns its way in into an entry,    *)
(* and the boot's does so with the state it finds.                         *)
LEMMA ResumeStepWays ==
  ASSUME HInv, ResumeStep
  PROVE  HInv'
  <1> DEFINE t == resumer.task
  <1>1. IInv'
    BY ResumeGoesOn, ResumeEnds DEF ResumeStep, HInv
  <1>2. UNCHANGED <<run, phase, ender, pruner, crashes, count>>
    BY DEF ResumeStep, RestoreWindow, ClaimResume, EnqueueResume, boot
  <1>3. resumer \in Resumer /\ resumer # Idle /\ t \in Task
    BY Values DEF ResumeStep, RestoreWindow, ClaimResume, EnqueueResume, HInv, IInv, TypeInv, Resumer
  <1>4. claim' \in [Task -> {"none", "held", "lapsed"}]
    BY DEF ResumeStep, RestoreWindow, ClaimResume, EnqueueResume, HInv, RestInv, store
  <1>5. CASE RestoreWindow \/ ClaimResume
    <2>1. UNCHANGED <<state, heap>>
      BY <1>5 DEF RestoreWindow, ClaimResume
    <2>2. resumer' = Idle \/ (resumer'.task = t /\ resumer'.boot = resumer.boot)
      <3>1. \A l \in {"claim", "enqueue"} :
               /\ [resumer EXCEPT !.pc = l].task = t
               /\ [resumer EXCEPT !.pc = l].boot = resumer.boot
        BY <1>3 DEF Resumer
      <3> QED BY <1>5, <3>1 DEF RestoreWindow, ClaimResume
    <2>3. RestInv'
      BY <1>2, <1>3, <1>4, <2>1, <2>2 DEF HInv, RestInv
    <2>4. ASSUME NEW u \in Task
          PROVE  WaysIn(u)'
      <3>1. Runs(u)' = Runs(u) /\ Waits(u)' = Waits(u)
        BY <1>2, <2>1 DEF Runs, Waits
      <3>2. Pending(u)' <= Pending(u) /\ Pending(u)' \in {0, 1}
        BY <1>3, <2>2 DEF Pending
      <3>3. state'[u] = "Absent" => heap'[u] = 0
        BY <2>1 DEF HInv, WaysIn
      <3> QED BY <1>2, <2>1, <3>1, <3>2, <3>3, WaysAreNumbers, FewerWays
    <2> QED BY <1>1, <2>3, <2>4 DEF HInv
  <1>6. CASE EnqueueResume
    <2>1. heap \in [Task -> Nat] /\ state \in [Task -> State]
      BY DEF HInv, RestInv, IInv, TypeInv
    <2>2. /\ resumer' = Idle
          /\ heap' \in [Task -> Nat] /\ heap'[t] = heap[t] + 1 /\ state'[t] = "Queued"
          /\ \A u \in Task : u # t => heap'[u] = heap[u] /\ state'[u] = state[u]
      BY <1>3, <1>6, <2>1 DEF EnqueueResume, Push
    <2>3. RestInv'
      BY <1>2, <1>4, <2>2 DEF HInv, RestInv
    <2> HIDE DEF t
    <2>4. ASSUME NEW u \in Task
          PROVE  WaysIn(u)'
      <3>1. Runs(u)' = Runs(u) /\ Pending(u)' = 0
        BY <1>2, <2>2 DEF Runs, Pending
      <3>2. CASE u # t
        <4>1. Waits(u)' = Waits(u) /\ (state'[u] = "Absent" => heap'[u] = 0)
          BY <2>2, <3>2 DEF Waits, HInv, WaysIn
        <4> QED BY <1>2, <2>2, <3>1, <3>2, <4>1, WaysAreNumbers, FewerWays
      <3>3. CASE u = t
        <4>1. Waits(u)' = 0
          BY <2>2, <3>3 DEF Waits
        <4>2. Waits(u) + Pending(u) >= 1
          <5>1. CASE resumer.boot
            BY <1>3, <3>3, <5>1, WaysAreNumbers DEF HInv, RestInv, Waits, t
          <5>2. CASE ~resumer.boot
            BY <1>3, <3>3, <5>2, WaysAreNumbers DEF Pending, t
          <5> QED BY <5>1, <5>2
        <4> QED BY <1>2, <2>2, <3>1, <3>3, <4>1, <4>2, WaysAreNumbers, FewerWays
      <3> QED BY <3>2, <3>3
    <2> QED BY <1>1, <2>3, <2>4 DEF HInv
  <1> QED BY <1>5, <1>6 DEF ResumeStep

(* Before anything runs: the entries and the tasks that wait fit in.       *)
LEMMA FreshWays ==
  ASSUME NEW t \in Task, \A r \in Slot : run'[r] = Free,
         heap'[t] \in Nat, count'.resume \in Nat, heap'[t] + Waits(t)' <= 1, Pending(t)' = 0,
         state'[t] = "Absent" => heap'[t] = 0
  PROVE  WaysIn(t)'
  <1>1. Runs(t)' = {}
    BY Values DEF Runs, Free
  <1>2. IsFiniteSet(Runs(t)') /\ Cardinality(Runs(t)') = 0
    BY <1>1, FS_EmptySet
  <1>3. Waits(t)' \in {0, 1}
    BY DEF Waits
  <1> QED BY <1>2, <1>3 DEF WaysIn

LEMMA CrashWays ==
  ASSUME HInv, Crash
  PROVE  HInv'
  <1>1. IInv'
    BY CrashStep DEF HInv
  <1>2. /\ heap' = [t \in Task |-> 0] /\ run' = [r \in Slot |-> Free] /\ resumer' = Idle
        /\ ender' = Idle /\ pruner' = {} /\ UNCHANGED <<state, claim>>
        /\ count' = [count EXCEPT !.crash = @ + 1] /\ count.crash < MaxCrashes
    BY DEF Crash, store
  <1>3. /\ count' \in [crash : 0..MaxCrashes, resume : 0..MaxResumes, end : Nat]
        /\ count'.crash = count.crash + 1 /\ count.crash \in Nat
    BY <1>2, BoundAssumption DEF HInv, RestInv
  <1>4. \A t \in Task : crashes'[t] <= count'.crash
    <2>1. ASSUME NEW t \in Task
          PROVE  crashes'[t] <= count'.crash
      <3>1. crashes[t] \in Nat /\ crashes[t] <= count.crash
        BY DEF HInv, RestInv, IInv, TypeInv
      <3>2. crashes'[t] = crashes[t] + 1 \/ crashes'[t] = crashes[t] + 0
        BY DEF Crash
      <3> QED BY <1>3, <3>1, <3>2
    <2> QED BY <2>1
  <1>5. RestInv'
    BY <1>2, <1>3, <1>4 DEF HInv, RestInv
  <1>6. ASSUME NEW t \in Task
        PROVE  WaysIn(t)'
    <2>1. heap'[t] = 0 /\ Waits(t)' <= 1 /\ Waits(t)' \in {0, 1} /\ Pending(t)' = 0
      BY <1>2 DEF Waits, Pending
    <2>2. \A r \in Slot : run'[r] = Free
      BY <1>2
    <2>3. count'.resume \in Nat
      BY <1>3, BoundAssumption
    <2> QED BY <2>1, <2>2, <2>3, FreshWays
  <1> QED BY <1>1, <1>5, <1>6 DEF HInv

LEMMA BootWays ==
  ASSUME HInv, BootStep
  PROVE  HInv'
  <1>1. IInv' /\ \A t \in Task : Kept(t)
    BY RestoreStep, RecoverStep, StartedStep DEF BootStep, HInv
  <1>2. /\ phase # "up" /\ UNCHANGED <<claim, run, ender, pruner, crashes, count>>
        /\ \A r \in Slot : run[r] = Free
    BY DEF BootStep, Restore, Recover, Started, store, HInv, IInv, BootInv
  <1>3. ender = Idle /\ pruner = {}
    BY <1>2 DEF HInv, RestInv
  <1>4. CASE Restore
    <2>1. PICK Dropped \in SUBSET {t \in Task \ Checkpointed :
                                     state[t] \in {"Queued", "Running", "Waiting"}} :
             /\ state' = [t \in Task |-> IF t \in Dropped THEN "Cancelled" ELSE Restored(t)]
             /\ heap' = [t \in Task |-> IF state'[t] = "Queued" THEN 1 ELSE 0]
      BY <1>4 DEF Restore
    <2>2. phase = "restore" /\ resumer' = resumer
      BY <1>4 DEF Restore
    <2>3. resumer = Idle
      BY <2>2 DEF HInv, RestInv, IInv, ResumeInv
    <2>4. heap' \in [Task -> Nat]
      BY <2>1
    <2>5. RestInv'
      BY <1>2, <1>3, <2>2, <2>3, <2>4 DEF HInv, RestInv
    <2>6. ASSUME NEW t \in Task
          PROVE  WaysIn(t)'
      <3>1. heap'[t] + Waits(t)' <= 1 /\ heap'[t] \in Nat /\ (state'[t] = "Absent" => heap'[t] = 0)
        BY <2>1 DEF Waits
      <3>2. Pending(t)' = 0 /\ count'.resume \in Nat
        BY <1>2, <2>2, <2>3, WaysAreNumbers DEF Pending
      <3>3. \A r \in Slot : run'[r] = Free
        BY <1>2
      <3> QED BY <3>1, <3>2, <3>3, FreshWays
    <2> QED BY <1>1, <2>5, <2>6 DEF HInv
  <1>5. ASSUME NEW t \in Task, Recover(t)
        PROVE  HInv'
    <2>1. resumer = Idle /\ phase' = phase /\ heap' = heap
      BY <1>5 DEF Recover, HInv, IInv, TypeInv, Resumer
    <2>2. \A u \in Task : state'[u] = state[u] \/ state'[u] = "Failed"
      BY <1>5 DEF Recover, SetUnlessEnded, HInv, IInv, TypeInv
    <2>3. \/ resumer' = Idle
          \/ LoadResume(t, TRUE) /\ Recoverable(t) /\ state' = state
      BY <1>5, <2>1 DEF Recover
    <2>4. resumer' # Idle => /\ resumer'.task = t /\ resumer'.boot
                             /\ state'[t] = "Waiting"
      <3>1. CASE LoadResume(t, TRUE) /\ Recoverable(t) /\ state' = state
        <4>1. resumer'.task = t /\ resumer'.boot
          BY <3>1, Loaded DEF HInv
        <4>2. state[t] = "Waiting"
          BY <3>1 DEF LoadResume, Resumable, Recoverable, HInv, IInv, TypeInv, State
        <4> QED BY <3>1, <4>1, <4>2
      <3> QED BY <2>3, <3>1
    <2>5. RestInv'
      BY <1>2, <1>3, <2>1, <2>4 DEF HInv, RestInv
    <2>6. ASSUME NEW u \in Task
          PROVE  WaysIn(u)'
      <3>1. Runs(u)' = Runs(u) /\ Pending(u) = 0 /\ Pending(u)' = 0
        BY <1>2, <2>1, <2>4 DEF Runs, Pending
      <3>2. Waits(u)' <= Waits(u) /\ Waits(u)' \in {0, 1}
        BY <2>2 DEF Waits
      <3>3. state'[u] = "Absent" => heap'[u] = 0
        BY <2>1, <2>2 DEF HInv, WaysIn
      <3> QED BY <1>2, <2>1, <3>1, <3>2, <3>3, WaysAreNumbers, FewerWays
    <2> QED BY <1>1, <2>5, <2>6 DEF HInv
  <1>6. CASE Started
    <2>1. resumer = Idle /\ UNCHANGED <<state, heap, resumer>>
      BY <1>6 DEF Started, HInv, IInv, TypeInv, Resumer
    <2>2. RestInv'
      BY <1>2, <2>1 DEF HInv, RestInv
    <2>3. ASSUME NEW u \in Task
          PROVE  WaysIn(u)'
      BY <1>2, <2>1 DEF HInv, WaysIn, Runs, Waits, Pending
    <2> QED BY <1>1, <2>2, <2>3 DEF HInv
  <1> QED BY <1>4, <1>5, <1>6 DEF BootStep

LEMMA InitWays == Init => HInv
  <1> SUFFICES ASSUME Init PROVE HInv
    OBVIOUS
  <1>1. IInv
    BY InitInv
  <1>2. RestInv
    BY BoundAssumption DEF Init, RestInv
  <1>3. ASSUME NEW t \in Task
        PROVE  WaysIn(t)
    <2>1. Runs(t) = {}
      BY Values DEF Init, Runs, Free
    <2>2. IsFiniteSet(Runs(t)) /\ Cardinality(Runs(t)) = 0
      BY <2>1, FS_EmptySet
    <2> QED BY <2>2 DEF Init, WaysIn, Waits, Pending
  <1> QED BY <1>1, <1>2, <1>3 DEF HInv

LEMMA NextWays ==
  ASSUME HInv, [Next]_vars
  PROVE  HInv'
  <1>1. CASE \E t \in Task : Submit(t) \/ Wake(t) \/ Executor(t) \/ \E r \in Slot : RunNow(r, t)
    BY <1>1, WaysTaken
  <1>2. CASE \E t \in Task : Resume(t)
    BY <1>2, ResumeWays
  <1>3. CASE \/ \E t \in Task : End(t) \/ Lapse(t) \/ DropEntries(t)
             \/ EndStep \/ Sweep \/ PruneRead \/ PruneDelete \/ UNCHANGED vars
    BY <1>3, HousekeepingWays
  <1>4. CASE \E r \in Slot : LoopStep(r) \/ Die(r)
    BY <1>4, LoopWays
  <1>5. CASE ResumeStep \/ BootStep \/ Crash
    BY <1>5, ResumeStepWays, BootWays, CrashWays
  <1> QED BY <1>1, <1>2, <1>3, <1>4, <1>5 DEF Next

(* The variables keep their shape, and a task is in the heap at most once  *)
(* for every way in that it took, however often it parks and is approved,  *)
(* times out, is resumed and restored (requeue and enqueue add an entry    *)
(* and never look for one).  With it: nothing runs, no timeout or prune is *)
(* under way before the boot is over (the loops start after it), and a     *)
(* task's history counts no more crashes than there were.                  *)
THEOREM Shape == Spec => []TypeOK
  <1>1. ASSUME HInv
        PROVE  TypeOK
    <2>1. heap \in [Task -> 0..(1 + MaxResumes)]
      <3>1. ASSUME NEW t \in Task
            PROVE  heap[t] \in 0..(1 + MaxResumes)
        <4>1. heap[t] <= 1 + count.resume
          BY <1>1, WaysAreNumbers DEF HInv, WaysIn
        <4>2. count.resume <= MaxResumes /\ MaxResumes \in Nat
          BY <1>1, BoundAssumption DEF HInv, RestInv
        <4> QED BY <1>1, <4>1, <4>2, WaysAreNumbers
      <3> QED BY <1>1, <3>1 DEF HInv, RestInv
    <2>2. crashes \in [Task -> 0..MaxCrashes]
      <3>1. ASSUME NEW t \in Task
            PROVE  crashes[t] \in 0..MaxCrashes
        <4>1. crashes[t] \in Nat /\ crashes[t] <= count.crash /\ count.crash \in 0..MaxCrashes
          BY <1>1 DEF HInv, RestInv, IInv, TypeInv
        <4> QED BY <4>1, BoundAssumption
      <3> QED BY <1>1, <3>1 DEF HInv, IInv, TypeInv
    <2>3. resumer.pc \in {"idle", "restore", "claim", "enqueue"}
      BY <1>1 DEF HInv, IInv, TypeInv, Resumer, Idle
    <2>4. ender.pc \in {"idle", "close", "release"}
      BY <1>1 DEF HInv, RestInv, Ender, Idle
    <2> QED BY <1>1, <2>1, <2>2, <2>3, <2>4 DEF TypeOK, HInv, IInv, TypeInv, BootInv, RestInv
  <1>2. HInv /\ [Next]_vars => HInv'
    BY NextWays
  <1> QED BY <1>1, <1>2, InitWays, PTL DEF Spec

=============================================================================
