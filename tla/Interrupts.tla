------------------------------ MODULE Interrupts ------------------------------
(***************************************************************************)
(* interrupt() inside a node, and the answers that resume it: the tasks of *)
(* one superstep over several invocations of a thread.  A task asks its    *)
(* questions in order.  interrupt() returns an answer the task already     *)
(* has, takes the one of the invocation's Command(resume=...), or raises   *)
(* GraphInterrupt; on the next invocation the task runs from its start.    *)
(*                                                                         *)
(* What survives an invocation are the pending writes of the checkpoint:   *)
(* per task the slots INTERRUPT and RESUME and its output, and for the     *)
(* null task the answer of a bare Command.                                 *)
(*                                                                         *)
(* An answer carries the question it was given for, which the code does    *)
(* not know: only the properties and the guards of the client look at it.  *)
(***************************************************************************)
EXTENDS Naturals, Sequences, FiniteSets, SequencesExt

CONSTANTS
  Task,            \* the tasks of the step
  NullTask,        \* NULL_TASK_ID, by which a Command writes
  Asks,            \* [Task -> Nat]: how many questions each task asks
  Durabilities,    \* what the invocations may be given: "async", "exit"
  Races,           \* those with which tasks run on threads, so that one may
                   \* enter put_writes while another is in it
  MaxInvocations,  \* bound: the invocations of the thread
  MaxFailures,     \* bound: the attempts that raise
  MaxRetries,      \* RetryPolicy.max_attempts - 1, for each invocation
  MaxCrashes,      \* bound: the times the process dies
  Careful          \* what clients and nodes avoid, see MayName and Retry

ASSUME InterruptsAssumption ==
  /\ NullTask \notin Task
  /\ Asks \in [Task -> Nat]
  /\ Durabilities \subseteq {"async", "exit"} /\ Races \subseteq Durabilities
  /\ {MaxInvocations, MaxFailures, MaxRetries, MaxCrashes} \subseteq Nat
  /\ Careful \in BOOLEAN

VARIABLES
  stored,       \* the saver: the pending writes of the checkpoint, by task
  pending,      \* checkpoint_pending_writes of an invocation, by task
  offer,        \* the answer of NullTask in the list that the scratchpads of
                \* the tasks hold: at most one
  same,         \* that list still is checkpoint_pending_writes
  run,          \* [Task -> the attempt of the task]
  phase,        \* "idle", "running", "over": between, in, after the invocations
  durability,   \* of the invocation
  putting,      \* the threads in put_writes: [by, slots, list], the list of
                \* pending writes that they have read and will replace
  saving,       \* the saver's put_writes submitted and not performed: [by, slots]
  invocations, failures, crashes

memory == <<pending, offer, same>>
saves  == <<putting, saving>>
counts == <<invocations, failures, crashes>>
vars == <<stored, memory, run, phase, durability, saves, counts>>

-------------------------------------------------------------------------------
Writer  == Task \cup {NullTask}
Answer  == [no : 1..MaxInvocations, task : Task, question : Nat]

(* INTERRUPT as the number of the question, 0 for no such write; RESUME as *)
(* the answers in order, none for no such write; whether the task has      *)
(* written its output.                                                     *)
Slots   == [interrupt : Nat, resume : Seq(Answer), output : BOOLEAN]
NoSlots == [interrupt |-> 0, resume |-> <<>>, output |-> FALSE]

(* An attempt: what interrupt() has returned, PregelScratchpad.resume and  *)
(* interrupt_counter, whether task.writes holds a RESUME, the retries.     *)
Attempt == [st : {"waits", "running", "interrupted", "failed", "done"},
            got : Seq(Answer), list : Seq(Answer), count : Nat,
            wrote : BOOLEAN, retries : 0..MaxRetries]
NoAttempt == [st |-> "waits", got |-> <<>>, list |-> <<>>, count |-> 0,
              wrote |-> FALSE, retries |-> 0]

TypeOK ==
  /\ stored \in [Writer -> Slots] /\ pending \in [Writer -> Slots]
  /\ offer \in Seq(Answer) /\ same \in BOOLEAN
  /\ run \in [Task -> Attempt]
  /\ phase \in {"idle", "running", "over"} /\ durability \in Durabilities
  /\ saving \subseteq [by : Writer, slots : Slots]
  /\ \A p \in putting : p.by \in Task /\ p.slots \in Slots /\ p.list \in [Writer -> Slots]
  /\ invocations \in 0..MaxInvocations
  /\ failures \in 0..MaxFailures /\ crashes \in 0..MaxCrashes

-------------------------------------------------------------------------------
(* The saver and the client.                                               *)

\* MUTANT: a put_writes without a RESUME removes the stored one
X_Merged(old, new) ==
  [interrupt |-> IF new.interrupt # 0 THEN new.interrupt ELSE old.interrupt,
   resume    |-> new.resume,
   output    |-> old.output \/ new.output]

(* put_writes of a saver: a special slot is replaced by the new write, one *)
(* that is not written again stays.                                        *)
Merged(old, new) ==
  [interrupt |-> IF new.interrupt # 0 THEN new.interrupt ELSE old.interrupt,
   resume    |-> IF new.resume # <<>> THEN new.resume ELSE old.resume,
   output    |-> old.output \/ new.output]

Unfinished == {t \in Task : ~stored[t].output}

(* What get_state shows the client as waiting for an answer.               *)
Shown == {t \in Unfinished : stored[t].interrupt # 0}

(* _pending_interrupts: a task with a RESUME counts as resumed.            *)
Hanging == {t \in Task : stored[t].interrupt # 0 /\ stored[t].resume = <<>>}

(* The question shown is the one the next attempt asks.                    *)
Current == {t \in Shown : stored[t].interrupt = Len(stored[t].resume) + 1}

(* A Careful client answers by id only what is Current, uses a bare answer *)
(* only for the last question that is left in the step, and goes on        *)
(* without an answer only when there is nothing to answer, or the answer   *)
(* has been sent.                                                          *)
MayName(S) == S # {} /\ S \subseteq (IF Careful THEN Current ELSE Shown)
MayGoOn    == Careful => Current = {} \/ stored[NullTask].resume # <<>>
MayReply(t) ==
  /\ t \in Shown
  /\ Careful => /\ t \in Current /\ stored[t].interrupt = Asks[t]
                /\ \A u \in Unfinished \ {t} : Asks[u] = 0

-------------------------------------------------------------------------------
(* An invocation begins: get_tuple, _first and the first tick.             *)

\* MUTANT: the answers given by id are not looked up
X_Known(t, named) == stored[t].resume

(* _scratchpad: the answers stored for the task, and those given by id.    *)
Known(t, named) == stored[t].resume \o named[t]

(* The answers of a Command: of NullTask for a bare one; those given by id *)
(* stay in the config.  If a task has stored answers, the list of its      *)
(* scratchpad is the very value of the pending write.                      *)
Enter(bare, named) ==
  LET list == [t \in Task |-> Known(t, named)]
      null == Merged(stored[NullTask], [NoSlots EXCEPT !.resume = bare])
  IN  /\ phase = "idle" /\ invocations < MaxInvocations
      /\ phase' = "running"
      /\ invocations' = invocations + 1
      /\ durability' \in Durabilities
      /\ pending' = [w \in Writer |->
                       IF w = NullTask THEN null
                       ELSE IF stored[w].resume = <<>> THEN stored[w]
                       ELSE [stored[w] EXCEPT !.resume = list[w]]]
      /\ offer' = null.resume /\ same' = TRUE
      /\ saving' = IF bare = <<>> \/ durability' = "exit" THEN {}
                   ELSE {[by |-> NullTask, slots |-> null]}
      /\ run' = [t \in Task |->
                   IF stored[t].output THEN [NoAttempt EXCEPT !.st = "done"]
                   ELSE [NoAttempt EXCEPT !.st = "running", !.list = list[t]]]
      /\ UNCHANGED <<stored, putting, failures, crashes>>

NewAnswer(t) ==
  [no |-> invocations + 1, task |-> t, question |-> stored[t].interrupt]

(* The input, or None to go on.                                            *)
GoOn == MayGoOn /\ Enter(<<>>, [t \in Task |-> <<>>])

(* Command(resume={id: answer, ...})                                       *)
ResumeByIds(S) ==
  /\ MayName(S)
  /\ Enter(<<>>, [t \in Task |-> IF t \in S THEN <<NewAnswer(t)>> ELSE <<>>])

(* Command(resume=answer), which the client means for t.                   *)
ResumeBare(t) ==
  /\ MayReply(t) /\ Cardinality(Hanging) <= 1
  /\ Enter(<<NewAnswer(t)>>, [u \in Task |-> <<>>])

(* The RuntimeError that asks for ids.                                     *)
RefuseBare ==
  /\ phase = "idle" /\ Cardinality(Hanging) > 1
  /\ UNCHANGED vars

-------------------------------------------------------------------------------
(* The tasks run.                                                          *)

Asking(t) == run[t].st = "running" /\ Len(run[t].got) < Asks[t]

(* put_writes has built a list without the task's old writes, makes it     *)
(* checkpoint_pending_writes and submits the writes to the saver; with     *)
(* durability exit nothing is saved yet.                                   *)
Replace(t, slots, list) ==
  /\ pending' = [list EXCEPT ![t] = slots]
  /\ same' = FALSE
  /\ saving' = IF durability = "exit" THEN saving
               ELSE saving \cup {[by |-> t, slots |-> slots]}

(* commit calls put_writes, which begins by reading the pending writes.    *)
Commit(t, slots) ==
  /\ IF durability \in Races
     THEN /\ putting' = putting \cup {[by |-> t, slots |-> slots, list |-> pending]}
          /\ UNCHANGED <<pending, same, saving>>
     ELSE Replace(t, slots, pending) /\ UNCHANGED putting
  /\ UNCHANGED <<stored, phase, durability, invocations, crashes>>

Put(p) ==
  /\ p \in putting
  /\ putting' = putting \ {p}
  /\ Replace(p.by, p.slots, p.list)
  /\ UNCHANGED <<stored, offer, run, phase, durability, counts>>

\* MUTANT: the answers a task has used are not saved with its writes
X_Resumes(t) == <<>>

Resumes(t) == IF run[t].wrote THEN run[t].list ELSE <<>>

(* interrupt() returns an answer.                                          *)
Returned(r, answers) ==
  [r EXCEPT !.got = @ \o answers, !.count = @ + 1, !.wrote = TRUE]

\* MUTANT: interrupt_counter does not move on
X_Recall(t) ==
  LET r == run[t]
  IN  /\ Asking(t) /\ r.count < Len(r.list)
      /\ run' = [run EXCEPT ![t] = [Returned(r, <<r.list[r.count + 1]>>) EXCEPT !.count = r.count]]
      /\ UNCHANGED <<stored, memory, phase, durability, saves, counts>>

(* interrupt() finds its answer in the list.                               *)
Recall(t) ==
  LET r == run[t]
  IN  /\ Asking(t) /\ r.count < Len(r.list)
      /\ run' = [run EXCEPT ![t] = Returned(r, <<r.list[r.count + 1]>>)]
      /\ UNCHANGED <<stored, memory, phase, durability, saves, counts>>

(* The list of task t is longer by the answers: it is one object in the    *)
(* scratchpad and in every list of pending writes that has it.             *)
Longer(list, t, answers) ==
  [w \in Writer |-> IF w = t /\ list[w].resume # <<>>
                    THEN [list[w] EXCEPT !.resume = @ \o answers]
                    ELSE list[w]]

(* interrupt() takes the answer of NullTask out of the list it holds, and  *)
(* appends it to the answers of the task.                                  *)
Take(t) ==
  LET r    == run[t]
      rest == IF same THEN [pending EXCEPT ![NullTask] = [@ EXCEPT !.resume = <<>>]]
              ELSE pending
  IN  /\ Asking(t) /\ offer # <<>> /\ r.count = Len(r.list)
      /\ run' = [run EXCEPT ![t] = [Returned(r, offer) EXCEPT !.list = @ \o offer]]
      /\ offer' = <<>>
      /\ pending' = Longer(rest, t, offer)
      /\ putting' = {[p EXCEPT !.list = Longer(@, t, offer)] : p \in putting}
      /\ UNCHANGED <<stored, same, saving, phase, durability, counts>>

(* interrupt() raises GraphInterrupt; the other tasks go on.               *)
Interrupt(t) ==
  LET r == run[t]
  IN  /\ Asking(t) /\ offer = <<>> /\ r.count >= Len(r.list)
      /\ run' = [run EXCEPT ![t] = [r EXCEPT !.st = "interrupted", !.count = @ + 1]]
      /\ Commit(t, [interrupt |-> Len(r.got) + 1, resume |-> Resumes(t), output |-> FALSE])
      /\ UNCHANGED <<offer, failures>>

(* The node returns.                                                       *)
Finish(t) ==
  /\ run[t].st = "running" /\ Len(run[t].got) = Asks[t]
  /\ run' = [run EXCEPT ![t].st = "done"]
  /\ Commit(t, [interrupt |-> 0, resume |-> Resumes(t), output |-> TRUE])
  /\ UNCHANGED <<offer, failures>>

(* The node raises what is not retried, or is cancelled since another task *)
(* has failed.  ERROR is committed with the RESUME of the attempt.         *)
Fail(t) ==
  /\ run[t].st = "running" /\ failures < MaxFailures
  /\ failures' = failures + 1
  /\ run' = [run EXCEPT ![t].st = "failed"]
  /\ Commit(t, [NoSlots EXCEPT !.resume = Resumes(t)])
  /\ UNCHANGED offer

(* run_with_retry clears the writes and runs the node again, with the same *)
(* scratchpad.  A Careful node has not asked anything by then.             *)
Retry(t) ==
  LET r == run[t]
  IN  /\ r.st = "running" /\ r.retries < MaxRetries
      /\ Careful => r.got = <<>>
      /\ failures < MaxFailures
      /\ failures' = failures + 1
      /\ run' = [run EXCEPT ![t] = [r EXCEPT !.got = <<>>, !.wrote = FALSE, !.retries = @ + 1]]
      /\ UNCHANGED <<stored, memory, phase, durability, saves, invocations, crashes>>

-------------------------------------------------------------------------------
(* The executor performs a put_writes.                                     *)
Save(w) ==
  /\ w \in saving
  /\ saving' = saving \ {w}
  /\ stored' = [stored EXCEPT ![w.by] = Merged(@, w.slots)]
  /\ UNCHANGED <<memory, putting, run, phase, durability, counts>>

Forget ==
  /\ pending' = [w \in Writer |-> NoSlots] /\ offer' = <<>> /\ same' = TRUE
  /\ putting' = {}
  /\ run' = [t \in Task |-> NoAttempt]

(* The step ends when every task is committed, or one has failed, which    *)
(* abandons those still running or committing.  Without an output of every task the      *)
(* checkpoint stays, and _put_pending_writes saves the pending writes of   *)
(* an invocation with durability exit.                                     *)
Leave ==
  /\ phase = "running" /\ saving = {}
  /\ \/ putting = {} /\ \A t \in Task : run[t].st # "running"
     \/ \E t \in Task : run[t].st = "failed" /\ \A p \in putting : p.by # t
  /\ IF \A t \in Task : run[t].st = "done"
     THEN phase' = "over" /\ UNCHANGED stored
     ELSE /\ phase' = "idle"
          /\ stored' = IF durability = "exit"
                       THEN [w \in Writer |-> Merged(stored[w], pending[w])]
                       ELSE stored
  /\ Forget
  /\ UNCHANGED <<durability, saving, counts>>

(* The process dies.                                                       *)
Crash ==
  /\ phase = "running" /\ crashes < MaxCrashes
  /\ crashes' = crashes + 1
  /\ phase' = "idle" /\ saving' = {}
  /\ Forget
  /\ UNCHANGED <<stored, durability, invocations, failures>>

Over == phase = "over" /\ UNCHANGED vars

-------------------------------------------------------------------------------
Init ==
  /\ stored = [w \in Writer |-> NoSlots]
  /\ pending = stored /\ offer = <<>> /\ same = TRUE
  /\ run = [t \in Task |-> NoAttempt]
  /\ phase = "idle" /\ durability \in Durabilities
  /\ putting = {} /\ saving = {}
  /\ invocations = 0 /\ failures = 0 /\ crashes = 0

Client ==
  \/ GoOn
  \/ \E S \in SUBSET Task : ResumeByIds(S)
  \/ \E t \in Task : ResumeBare(t)

Body(t) == Recall(t) \/ Take(t) \/ Interrupt(t) \/ Finish(t)

Next ==
  \/ Client
  \/ RefuseBare
  \/ \E t \in Task : Body(t)
  \/ \E t \in Task : Fail(t)
  \/ \E t \in Task : Retry(t)
  \/ \E p \in putting : Put(p)
  \/ \E w \in saving : Save(w)
  \/ Leave
  \/ Crash
  \/ Over

Spec == Init /\ [][Next]_vars

(* Nodes run and return from put_writes, saves are performed, and the client goes on until the step   *)
(* is over.                                                                *)
FairSpec ==
  /\ Spec
  /\ WF_vars(Client)
  /\ \A t \in Task : WF_vars(Body(t))
  /\ WF_vars(\E p \in putting : Put(p))
  /\ WF_vars(\E w \in saving : Save(w))
  /\ WF_vars(Leave)

-------------------------------------------------------------------------------
(* Every answer is returned to the question it was given for, by the order *)
(* of the task's questions (interrupt(), _scratchpad).  Without Careful it *)
(* does not hold (README, section 5).                                      *)
AnswersReachTarget ==
  \A t \in Task : \A i \in DOMAIN run[t].got :
    run[t].got[i].task = t /\ run[t].got[i].question = i

(* A durable answer stays, and its question is not asked again, whatever   *)
(* failed or crashed since: commit saves what interrupt() has returned,    *)
(* and put_writes keeps it.                                                *)
NotAskedAgain ==
  [][\A t \in Task :
       /\ IsPrefix(stored[t].resume, stored'[t].resume)
       /\ run[t].st = "running" /\ run'[t].st = "interrupted" =>
            /\ Len(run[t].got) >= Len(stored[t].resume)
            /\ \A i \in DOMAIN stored[NullTask].resume :
                 stored[NullTask].resume[i].task = t =>
                   stored[NullTask].resume[i].question <= Len(run[t].got)]_vars

(* After an invocation in which nothing failed, get_state shows for every  *)
(* unfinished task the question that it will ask next: put_writes keeps    *)
(* every interrupt of the step.  With "exit" in Races it does not hold: of *)
(* two threads in put_writes one loses its writes (README, section 5).     *)
OpenIsShown ==
  phase = "idle" /\ invocations > 0 /\ failures + crashes = 0 => Unfinished \subseteq Current

(* A client that answers what is asked brings the step to its end: no      *)
(* question is asked for ever, failures and crashes notwithstanding.       *)
AnsweredStepEnds == <>(phase = "over")

(* A bare answer is accepted only when one question is open: what the      *)
(* RuntimeError of _first says.  This one does NOT hold: a task that waits *)
(* for its second answer counts as resumed (README, section 5).            *)
BareIsUnambiguous ==
  [][phase = "idle" /\ pending'[NullTask].resume # stored[NullTask].resume
       /\ phase' = "running" => Cardinality(Current) <= 1]_vars
===============================================================================
