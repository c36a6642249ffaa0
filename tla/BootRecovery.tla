---------------------------- MODULE BootRecovery ----------------------------
(***************************************************************************)
(* Checkpoints, checkouts and restarts: what the kernel keeps of a running *)
(* task on disk (its row in the scheduler's table, its latest checkpoint,  *)
(* its checkout claim), what a crash takes away (windows, executions), and *)
(* what the boot, an operator who resumes a task, the timeout checker and  *)
(* the pruner do with what is left.  A task makes tool calls 1, 2, ...;    *)
(* its window and its checkpoint are the number of calls they hold.        *)
(* Writes of the stores succeed, but for a claim that may find its store   *)
(* busy.                                                                   *)
(***************************************************************************)
EXTENDS Integers, FiniteSets

CONSTANTS
    Task, None,
    Slot,           \* bound: executions at a time
    MaxBootResumes, \* MAX_BOOT_RESUMES
    Calls,          \* bound: tool calls of a task
    MaxCrashes,     \* bound: crashes of the kernel
    MaxResumes,     \* bound: resumes by an operator
    MaxEnds         \* bound: tasks timed out or cancelled

ASSUME SlotAssumption == Slot \subseteq Nat /\ None \notin Task \cup Nat
ASSUME BoundAssumption ==
    {MaxBootResumes, Calls, MaxCrashes, MaxResumes, MaxEnds} \subseteq Nat

VARIABLES
    state,      \* of each task, in memory and in the scheduler's table
    heap,       \* entries of each task in the scheduler's heap
    cp,         \* checkpoint of each task: calls it holds, or None
    strikes,    \* its resume_count
    claim,      \* the task's row among the checkouts
    window,     \* the context manager's window: calls it holds, or None
    run,        \* the executions
    phase,      \* of the boot
    todo,       \* checkpoints the boot has not looked at
    resumer,    \* the cmd_resume_task in progress
    ender,      \* the timeout or cancellation in progress
    pruner,     \* checkpoints the prune in progress may delete
    crashes,    \* history: crashes during a run since the last checkpoint
    count       \* bounded events so far

store == <<cp, strikes, claim>>
boot  == <<phase, todo>>
vars  == <<state, heap, store, window, run, boot, resumer, ender, pruner, crashes, count>>

Ended == {"Complete", "Failed", "Cancelled"}
State == Ended \cup {"Absent", "Queued", "Running", "Waiting"}
Steps == 0..Calls

Pc == {"free", "claim", "begin", "setup", "turn", "tool", "save",
       "answered", "succeed", "complete", "fail", "failing", "drop", "abandoned"}

(* calls: those in the window when the model was asked; inFlight: the      *)
(* executor watches over it (not over that of cmd_run_task, nor over its   *)
(* own handling of one that died).                                         *)
Execution == [pc : Pc, task : Task \cup {None}, calls : Steps, inFlight : BOOLEAN]
Free == [pc |-> "free", task |-> None, calls |-> 0, inFlight |-> FALSE]
Idle == [pc |-> "idle", task |-> None]

At(r, l) == run[r].pc = l
Goto(r, l) == run' = [run EXCEPT ![r].pc = l]
NextSlot(r) == At(r, "free") /\ \A q \in Slot : At(q, "free") => r <= q
Driven(t) == \E r \in Slot : run[r].task = t

SetUnlessEnded(t, s) == state' = [state EXCEPT ![t] = IF @ \in Ended THEN @ ELSE s]

(* Queued, with one more entry.                                            *)
Push(t) ==
    /\ state' = [state EXCEPT ![t] = "Queued"]
    /\ heap' = [heap EXCEPT ![t] = @ + 1]

(* remove_context.                                                         *)
RemoveWindow(t) == window' = [window EXCEPT ![t] = None]

(* The row goes whichever run of the agent made it: claims carry the agent.*)
Release(t) == claim' = [claim EXCEPT ![t] = "none"]

DeleteCheckpoint(t) ==
    /\ cp' = [cp EXCEPT ![t] = None]
    /\ strikes' = [strikes EXCEPT ![t] = 0]

Init ==
    /\ state = [t \in Task |-> "Absent"]
    /\ heap = [t \in Task |-> 0]
    /\ cp = [t \in Task |-> None]
    /\ strikes = [t \in Task |-> 0]
    /\ claim = [t \in Task |-> "none"]
    /\ window = [t \in Task |-> None]
    /\ run = [r \in Slot |-> Free]
    /\ phase = "up"
    /\ todo = {}
    /\ resumer = Idle
    /\ ender = Idle
    /\ pruner = {}
    /\ crashes = [t \in Task |-> 0]
    /\ count = [crash |-> 0, resume |-> 0, end |-> 0]

----------------------------------------------------------------------------
(* Submission and dispatch.                                                *)

Up == phase = "up"

(* A task for the executor.                                                *)
Submit(t) ==
    /\ Up
    /\ state[t] = "Absent"
    /\ Push(t)
    /\ UNCHANGED <<store, window, run, boot, resumer, ender, pruner, crashes, count>>

(* A task that the command runs itself: registered Running, then claimed.  *)
RunNow(r, t) ==
    /\ Up
    /\ NextSlot(r)
    /\ state[t] = "Absent"
    /\ state' = [state EXCEPT ![t] = "Running"]
    /\ run' = [run EXCEPT ![r] = [Free EXCEPT !.pc = "claim", !.task = t]]
    /\ UNCHANGED <<heap, store, window, boot, resumer, ender, pruner, crashes, count>>

(* A store that is busy does not keep the task from running, another       *)
(* claim does.                                                             *)
Claim(r) ==
    /\ At(r, "claim")
    /\ \/ /\ claim[run[r].task] = "none"
          /\ claim' = [claim EXCEPT ![run[r].task] = "held"]
          /\ Goto(r, "setup")
       \/ /\ claim[run[r].task] # "none"
          /\ run' = [run EXCEPT ![r] = Free]
          /\ UNCHANGED claim
       \/ Goto(r, "setup") /\ UNCHANGED claim
    /\ UNCHANGED <<state, heap, cp, strikes, window, boot, resumer, ender, pruner,
                   crashes, count>>

(* The executor makes no claim, and the task stays Queued until it begins. *)
Dispatch(r, t) ==
    /\ Up
    /\ NextSlot(r)
    /\ heap[t] > 0 /\ state[t] = "Queued"
    /\ heap' = [heap EXCEPT ![t] = @ - 1]
    /\ run' = [run EXCEPT ![r] = [Free EXCEPT !.pc = "begin", !.task = t,
                                            !.inFlight = TRUE]]
    /\ UNCHANGED <<state, store, window, boot, resumer, ender, pruner, crashes, count>>

(* The executor's tick drops entries of tasks that are not Queued.         *)
DropEntries(t) ==
    /\ Up
    /\ heap[t] > 0 /\ state[t] # "Queued"
    /\ heap' = [heap EXCEPT ![t] = 0]
    /\ UNCHANGED <<state, store, window, run, boot, resumer, ender, pruner,
                   crashes, count>>

(* execute_task: a task that has ended since is not run.                   *)
Begin(r) ==
    /\ At(r, "begin")
    /\ SetUnlessEnded(run[r].task, "Running")
    /\ run' = [run EXCEPT ![r] = IF state[@.task] \in Ended THEN Free
                                 ELSE [@ EXCEPT !.pc = "setup"]]
    /\ UNCHANGED <<heap, store, window, boot, resumer, ender, pruner, crashes, count>>

----------------------------------------------------------------------------
(* The loop of a task.                                                     *)

(* create_context keeps a window that is there.                            *)
Setup(r) ==
    /\ At(r, "setup")
    /\ window' = [window EXCEPT ![run[r].task] = IF @ = None THEN 0 ELSE @]
    /\ Goto(r, "turn")
    /\ UNCHANGED <<state, heap, store, boot, resumer, ender, pruner, crashes, count>>

(* The model asks for the tool call that follows those in the window.      *)
Ask(r) ==
    /\ At(r, "turn")
    /\ window[run[r].task] \in 0..(Calls - 1)
    /\ run' = [run EXCEPT ![r].pc = "tool", ![r].calls = window[run[r].task]]
    /\ UNCHANGED <<state, heap, store, window, boot, resumer, ender, pruner, crashes, count>>

(* The window is gone, the model is unreachable, or a limit is hit.        *)
Quit(r) ==
    /\ At(r, "turn")
    /\ Goto(r, "fail")
    /\ UNCHANGED <<state, heap, store, window, boot, resumer, ender, pruner, crashes, count>>

(* The call needs an approval: the loop ends and the task waits; claim,    *)
(* window and checkpoint stay.                                             *)
Park(r) ==
    /\ At(r, "turn")
    /\ window[run[r].task] # None
    /\ SetUnlessEnded(run[r].task, "Waiting")
    /\ run' = [run EXCEPT ![r] = Free]
    /\ UNCHANGED <<heap, store, window, boot, resumer, ender, pruner, crashes, count>>

(* The approval: requeue.                                                  *)
Wake(t) ==
    /\ Up
    /\ state[t] = "Waiting"
    /\ Push(t)
    /\ UNCHANGED <<store, window, run, boot, resumer, ender, pruner, crashes, count>>

(* The call has its effect and its result is put into the window, if it is *)
(* there; several calls in one answer skip the checkpoint.                 *)
Effect(r) ==
    /\ At(r, "tool")
    /\ window' = [window EXCEPT ![run[r].task] =
                    IF @ \in 0..(Calls - 1) THEN @ + 1 ELSE @]
    /\ \E l \in {"save", "turn"} : Goto(r, l)
    /\ UNCHANGED <<state, heap, store, boot, resumer, ender, pruner, crashes, count>>

(* CheckpointStore::write.                                                 *)
Save(r) ==
    /\ At(r, "save")
    /\ LET t == run[r].task IN
       IF window[t] = None THEN UNCHANGED <<cp, strikes, crashes, pruner>>
       ELSE /\ cp' = [cp EXCEPT ![t] = window[t]]
            /\ strikes' = [strikes EXCEPT ![t] = 0]
            /\ crashes' = [crashes EXCEPT ![t] = 0]
            /\ pruner' = pruner \ {t}
    /\ Goto(r, "turn")
    /\ UNCHANGED <<state, heap, claim, window, boot, resumer, ender, count>>

(* The answer: checkpoint, window, claim and at last the state.            *)
Answer(r) ==
    /\ At(r, "turn")
    /\ window[run[r].task] # None
    /\ DeleteCheckpoint(run[r].task)
    /\ Goto(r, "answered")
    /\ UNCHANGED <<state, heap, claim, window, boot, resumer, ender, pruner, crashes, count>>

Answered(r) ==
    /\ At(r, "answered")
    /\ RemoveWindow(run[r].task)
    /\ Goto(r, "succeed")
    /\ UNCHANGED <<state, heap, store, boot, resumer, ender, pruner, crashes, count>>

Succeed(r) ==
    /\ At(r, "succeed")
    /\ Release(run[r].task)
    /\ Goto(r, "complete")
    /\ UNCHANGED <<state, heap, cp, strikes, window, boot, resumer, ender, pruner,
                   crashes, count>>

Complete(r) ==
    /\ At(r, "complete")
    /\ SetUnlessEnded(run[r].task, "Complete")
    /\ run' = [run EXCEPT ![r] = Free]
    /\ UNCHANGED <<heap, store, window, boot, resumer, ender, pruner, crashes, count>>

(* complete_task_failure: a task that waits is paused and not failed.      *)
Fail(r) ==
    /\ At(r, "fail")
    /\ IF state[run[r].task] = "Waiting"
       THEN run' = [run EXCEPT ![r] = Free] /\ UNCHANGED claim
       ELSE Goto(r, "failing") /\ Release(run[r].task)
    /\ UNCHANGED <<state, heap, cp, strikes, window, boot, resumer, ender, pruner,
                   crashes, count>>

Failing(r) ==
    /\ At(r, "failing")
    /\ SetUnlessEnded(run[r].task, "Failed")
    /\ Goto(r, "drop")
    /\ UNCHANGED <<heap, store, window, boot, resumer, ender, pruner, crashes, count>>

Drop(r) ==
    /\ At(r, "drop")
    /\ RemoveWindow(run[r].task)
    /\ run' = [run EXCEPT ![r] = Free]
    /\ UNCHANGED <<state, heap, store, boot, resumer, ender, pruner, crashes, count>>

(* An execution of the executor panics, or is aborted by a shutdown.       *)
Die(r) ==
    /\ ~At(r, "abandoned")
    /\ run[r].inFlight
    /\ Goto(r, "abandoned")
    /\ UNCHANGED <<state, heap, store, window, boot, resumer, ender, pruner, crashes, count>>

Reap(r) ==
    /\ At(r, "abandoned")
    /\ run' = [run EXCEPT ![r] = IF state[@.task] \in Ended THEN Free
                                 ELSE [@ EXCEPT !.pc = "fail", !.inFlight = FALSE]]
    /\ UNCHANGED <<state, heap, store, window, boot, resumer, ender, pruner, crashes, count>>

----------------------------------------------------------------------------
(* cmd_resume_task, by the boot (boot = TRUE) or by an operator.  It tells *)
(* the caller why it refuses and leaves things as they are, except that a  *)
(* claim is refused after the window was overwritten.                      *)

(* Mutant: resumes whatever the state.                                     *)
AnyResumable(t) == cp[t] # None

Resumable(t) == state[t] \notin {"Queued", "Running"} /\ cp[t] # None

(* State and checkpoint are read here, and the agent is looked up.         *)
LoadResume(t, byBoot) ==
    /\ resumer.pc = "idle"
    /\ Resumable(t)
    /\ resumer' = [pc |-> "restore", task |-> t, calls |-> cp[t], boot |-> byBoot]

RestoreWindow ==
    /\ resumer.pc = "restore"
    /\ window' = [window EXCEPT ![resumer.task] = resumer.calls]
    /\ resumer' = [resumer EXCEPT !.pc = "claim"]
    /\ UNCHANGED <<state, heap, store, run, boot, ender, pruner, crashes, count>>

(* Refused when there is a claim, lapsed or not, or when the store is busy.*)
ClaimResume ==
    /\ resumer.pc = "claim"
    /\ \/ /\ claim[resumer.task] = "none"
          /\ claim' = [claim EXCEPT ![resumer.task] = "held"]
          /\ resumer' = [resumer EXCEPT !.pc = "enqueue"]
       \/ resumer' = Idle /\ UNCHANGED claim
    /\ UNCHANGED <<state, heap, cp, strikes, window, run, boot, ender, pruner,
                   crashes, count>>

(* enqueue overwrites the task, whatever became of it since.               *)
EnqueueResume ==
    /\ resumer.pc = "enqueue"
    /\ Push(resumer.task)
    /\ resumer' = Idle
    /\ UNCHANGED <<store, window, run, boot, ender, pruner, crashes, count>>

Resume(t) ==
    /\ Up
    /\ count.resume < MaxResumes
    /\ count' = [count EXCEPT !.resume = @ + 1]
    /\ LoadResume(t, FALSE)
    /\ UNCHANGED <<state, heap, store, window, run, boot, ender, pruner, crashes>>

----------------------------------------------------------------------------
(* The timeout checker and an operator who cancels: state, window, claim.  *)

TimeOut(t) == state[t] \in {"Running", "Waiting"} /\ state' = [state EXCEPT ![t] = "Failed"]
(* update_state overwrites whatever the state was.                         *)
Cancel(t) == state[t] # "Absent" /\ state' = [state EXCEPT ![t] = "Cancelled"]

End(t) ==
    /\ Up
    /\ ender.pc = "idle"
    /\ count.end < MaxEnds
    /\ count' = [count EXCEPT !.end = @ + 1]
    /\ TimeOut(t) \/ Cancel(t)
    /\ ender' = [pc |-> "close", task |-> t]
    /\ UNCHANGED <<heap, store, window, run, boot, resumer, pruner, crashes>>

EndClose ==
    /\ ender.pc = "close"
    /\ RemoveWindow(ender.task)
    /\ ender' = [ender EXCEPT !.pc = "release"]
    /\ UNCHANGED <<state, heap, store, run, boot, resumer, pruner, crashes, count>>

EndRelease ==
    /\ ender.pc = "release"
    /\ Release(ender.task)
    /\ ender' = Idle
    /\ UNCHANGED <<state, heap, cp, strikes, window, run, boot, resumer, pruner,
                   crashes, count>>

(* A lease is over, and later its row is swept.                            *)
Lapse(t) ==
    /\ claim[t] = "held"
    /\ claim' = [claim EXCEPT ![t] = "lapsed"]
    /\ UNCHANGED <<state, heap, cp, strikes, window, run, boot, resumer, ender,
                   pruner, crashes, count>>

(* Mutant: a task that waits keeps its claim.                              *)
SweepEnded ==
    /\ Up
    /\ \E t \in Task : claim[t] = "lapsed" /\ state[t] \in Ended
    /\ claim' = [t \in Task |-> IF claim[t] = "lapsed" /\ state[t] \in Ended
                               THEN "none" ELSE claim[t]]
    /\ UNCHANGED <<state, heap, cp, strikes, window, run, boot, resumer, ender,
                   pruner, crashes, count>>

Sweep ==
    /\ Up
    /\ \E t \in Task : claim[t] = "lapsed"
    /\ claim' = [t \in Task |-> IF claim[t] = "lapsed" THEN "none" ELSE claim[t]]
    /\ UNCHANGED <<state, heap, cp, strikes, window, run, boot, resumer, ender,
                   pruner, crashes, count>>

(* The pruner reads which tasks are live, and later deletes checkpoints of *)
(* the others that are old and were not written since.                     *)
PruneRead ==
    /\ Up
    /\ pruner = {}
    /\ \E S \in SUBSET {t \in Task : cp[t] # None /\ state[t] \in Ended} :
          S # {} /\ pruner' = S
    /\ UNCHANGED <<state, heap, store, window, run, boot, resumer, ender, crashes, count>>

PruneDelete ==
    /\ pruner # {}
    /\ cp' = [t \in Task |-> IF t \in pruner THEN None ELSE cp[t]]
    /\ strikes' = [t \in Task |-> IF t \in pruner THEN 0 ELSE strikes[t]]
    /\ pruner' = {}
    /\ UNCHANGED <<state, heap, claim, window, run, boot, resumer, ender, crashes, count>>

----------------------------------------------------------------------------
(* A crash, and the boot that follows it.                                  *)

Crash ==
    /\ count.crash < MaxCrashes
    /\ count' = [count EXCEPT !.crash = @ + 1]
    /\ phase' = "restore"
    /\ todo' = {}
    /\ crashes' = [t \in Task |-> crashes[t] + 
                    IF cp[t] # None /\ Driven(t) /\ state[t] \notin Ended THEN 1 ELSE 0]
    /\ heap' = [t \in Task |-> 0]
    /\ window' = [t \in Task |-> None]
    /\ run' = [r \in Slot |-> Free]
    /\ resumer' = Idle
    /\ ender' = Idle
    /\ pruner' = {}
    /\ UNCHANGED <<state, store>>

Checkpointed == {t \in Task : cp[t] # None}

(* Mutant: an interrupted task is restored as it was.                      *)
RestoredAs(t) == state[t]

(* restore_from_store: running becomes queued.                             *)
Restored(t) == IF state[t] = "Running" THEN "Queued" ELSE state[t]

(* Tasks without a checkpoint may be too old or too many for their agent.  *)
Restore ==
    /\ phase = "restore"
    /\ \E Dropped \in SUBSET {t \in Task \ Checkpointed :
                              state[t] \in {"Queued", "Running", "Waiting"}} :
         LET S == [t \in Task |-> IF t \in Dropped THEN "Cancelled" ELSE Restored(t)] IN
         /\ state' = S
         /\ heap' = [t \in Task |-> IF S[t] = "Queued" THEN 1 ELSE 0]
    /\ phase' = "recover"
    /\ todo' = Checkpointed
    /\ UNCHANGED <<store, window, run, resumer, ender, pruner, crashes, count>>

(* Mutant: looks at the checkpoint only.                                   *)
AnyRecoverable(t) == TRUE

Recoverable(t) == state[t] \notin Ended \cup {"Absent"}

(* Mutant: counts the resumes that were not refused.                       *)
StrikeIfResumed(t) == strikes[t] + IF Resumable(t) THEN 1 ELSE 0

Strike(t) == strikes[t] + 1

(* recover_checkpointed_tasks, one task: it is counted, then dropped or    *)
(* resumed; the resume may be refused.                                     *)
Recover(t) ==
    /\ phase = "recover"
    /\ resumer.pc = "idle"
    /\ t \in todo
    /\ todo' = todo \ {t}
    /\ \/ /\ ~Recoverable(t)
          /\ UNCHANGED <<state, cp, strikes, resumer>>
       \/ /\ Recoverable(t) /\ Strike(t) > MaxBootResumes
          /\ DeleteCheckpoint(t)
          /\ SetUnlessEnded(t, "Failed")
          /\ UNCHANGED resumer
       \/ /\ Recoverable(t) /\ Strike(t) <= MaxBootResumes
          /\ strikes' = [strikes EXCEPT ![t] = Strike(t)]
          /\ LoadResume(t, TRUE) \/ UNCHANGED resumer
          /\ UNCHANGED <<state, cp>>
    /\ UNCHANGED <<heap, claim, window, run, phase, ender, pruner, crashes, count>>

(* The executor and the other loops start.                                 *)
Started ==
    /\ phase = "recover"
    /\ todo = {}
    /\ resumer.pc = "idle"
    /\ phase' = "up"
    /\ UNCHANGED <<state, heap, store, window, run, todo, resumer, ender, pruner,
                   crashes, count>>

----------------------------------------------------------------------------
LoopStep(r) ==
    \/ Claim(r) \/ Begin(r) \/ Setup(r) \/ Ask(r) \/ Quit(r) \/ Park(r)
    \/ Effect(r) \/ Save(r)
    \/ Answer(r) \/ Answered(r) \/ Succeed(r) \/ Complete(r)
    \/ Fail(r) \/ Failing(r) \/ Drop(r) \/ Reap(r)

Executor(t) == \E r \in Slot : Dispatch(r, t)

ResumeStep == RestoreWindow \/ ClaimResume \/ EnqueueResume

EndStep == EndClose \/ EndRelease

BootStep == Restore \/ (\E t \in Task : Recover(t)) \/ Started

Next ==
    \/ \E t \in Task : Submit(t) \/ Wake(t) \/ Resume(t) \/ End(t) \/ Lapse(t)
                       \/ Executor(t) \/ DropEntries(t)
    \/ \E r \in Slot, t \in Task : RunNow(r, t)
    \/ \E r \in Slot : LoopStep(r) \/ Die(r)
    \/ ResumeStep \/ EndStep \/ BootStep
    \/ Sweep \/ PruneRead \/ PruneDelete
    \/ Crash

(* The runtime polls every future that is ready, and time passes.  Nobody  *)
(* has to submit, approve, resume, cancel or crash.                        *)
Fairness ==
    /\ \A r \in Slot : WF_vars(LoopStep(r))
    /\ \A t \in Task : WF_vars(Executor(t)) /\ WF_vars(Lapse(t))
    /\ WF_vars(ResumeStep) /\ WF_vars(EndStep) /\ WF_vars(BootStep)
    /\ WF_vars(Sweep)

Spec == Init /\ [][Next]_vars /\ Fairness

----------------------------------------------------------------------------
(* The shape of every variable, and: nothing runs before the boot is over, *)
(* a task that waits in the heap is there at most once for every way in.   *)
TypeOK ==
    /\ state \in [Task -> State]
    /\ heap \in [Task -> 0..(1 + MaxResumes)]
    /\ cp \in [Task -> Steps \cup {None}]
    /\ strikes \in [Task -> 0..MaxBootResumes]
    /\ claim \in [Task -> {"none", "held", "lapsed"}]
    /\ window \in [Task -> Steps \cup {None}]
    /\ run \in [Slot -> Execution]
    /\ phase \in {"restore", "recover", "up"}
    /\ todo \subseteq Task
    /\ phase # "up" => /\ \A r \in Slot : run[r] = Free
                       /\ ender = Idle /\ pruner = {}
    /\ resumer.pc \in {"idle", "restore", "claim", "enqueue"}
    /\ ender.pc \in {"idle", "close", "release"}
    /\ crashes \in [Task -> 0..MaxCrashes]

(* The poison-pill guard: a task with a checkpoint cannot bring the kernel *)
(* down more often than the limit allows without making progress, however  *)
(* its crashes fall between recoveries, resumes, timeouts and prunes.      *)
PoisonStops ==
    \A t \in Task : cp[t] # None => crashes[t] <= MaxBootResumes + 1

(* A task that has ended is brought back by an operator's resume and by    *)
(* nothing else: neither by a boot that finds its checkpoint, nor by an    *)
(* execution that outlived the end, nor by a late approval.                *)
OnlyOperatorRevives ==
    [][\A t \in Task : state[t] \in Ended /\ state'[t] \notin Ended =>
          resumer.pc = "enqueue" /\ resumer.task = t /\ ~resumer.boot]_vars

(* However often the kernel crashes, and wherever, a task that was taken   *)
(* in ends, or comes to wait for somebody.                                 *)
AcceptedWorkEnds ==
    \A t \in Task : state[t] \in {"Queued", "Running"}
                    ~> state[t] \in Ended \cup {"Waiting"}

(* A checkout whose owner crashed, parked or lost its row to nobody goes   *)
(* away: the task can be resumed again.                                    *)
CheckoutsEnd == \A t \in Task : claim[t] # "none" ~> claim[t] = "none"

=============================================================================
