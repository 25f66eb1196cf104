------------------------- MODULE PregelRunner_proofs -------------------------
(***************************************************************************)
(* Proofs about PregelRunner, for any set of tasks, handlers and calls.    *)
(*                                                                         *)
(* The invariant IInv of PregelRunner is shown inductive part by part: the *)
(* lemma of a part assumes IInv and a step and proves the part primed, with*)
(* one step per action.                                                    *)
(***************************************************************************)
EXTENDS PregelRunner, TLAPS, FiniteSetTheorems

-----------------------------------------------------------------------------
(* Pending tasks are tasks, so they can be counted.                        *)
LEMMA PendingFinite == IsFiniteSet(Pending) /\ Cardinality(Pending) \in Nat
<1>1. Pending \in SUBSET Task
  BY DEF Pending
<1> QED
  BY <1>1, RunnerAssumption, FS_Subset, FS_CardinalityType

(* __setitem__ adds one task that was not pending.                         *)
LEMMA PendingAdd ==
  ASSUME NEW t \in Task, TypeOK, CounterExact,
         reg[t] # "hooked", hook' = hook, hook[t] # "done",
         reg' = [reg EXCEPT ![t] = "hooked"], counter' = counter + 1
  PROVE  CounterExact'
<1>1. Pending' = Pending \cup {t} /\ t \notin Pending
  BY DEF Pending, TypeOK
<1> QED
  BY <1>1, PendingFinite, FS_AddElement DEF CounterExact

(* The second half of on_done takes one task off, and a counter of 0 means  *)
(* that none is left.                                                      *)
LEMMA PendingRemove ==
  ASSUME NEW t \in Task, TypeOK, CounterExact, t \in Pending,
         reg' = reg, hook' = [hook EXCEPT ![t] = "done"], counter' = counter - 1
  PROVE  CounterExact' /\ counter' \in Nat /\ (counter' = 0 => Pending' = {})
<1>1. Pending' = Pending \ {t}
  BY DEF Pending, TypeOK
<1>2. IsFiniteSet(Pending') /\ Cardinality(Pending') = Cardinality(Pending) - 1
  BY <1>1, PendingFinite, FS_RemoveElement
<1>3. Cardinality(Pending') \in Nat
  BY <1>2, FS_CardinalityType
<1> QED
  BY <1>2, <1>3, PendingFinite, FS_EmptySet DEF CounterExact

(* A registration leaves the dict well typed and its event cleared.        *)
LEMMA HookedType ==
  ASSUME NEW t \in Task, TypeOK, Hooked(t)
  PROVE  /\ reg' \in [Task -> {"no", "in", "hooked"}]
         /\ counter' \in Nat
         /\ event' = FALSE
<1>1. counter \in Nat /\ counter' = counter + 1
  BY DEF TypeOK, Hooked
<1>2. counter' \in Nat
  BY <1>1
<1> QED
  BY <1>2 DEF TypeOK, Hooked

(* What touches neither the counter nor the pending tasks keeps the count. *)
LEMMA PendingSame ==
  ASSUME Pending' = Pending, counter' = counter, CounterExact
  PROVE  CounterExact'
BY DEF CounterExact

-----------------------------------------------------------------------------
(* Before the step starts nothing is registered, handled or counted.       *)
LEMMA InitIInv == Init => IInv
<1> SUFFICES ASSUME Init PROVE IInv
  OBVIOUS
<1> USE RunnerAssumption
<1>1. TypeOK
  BY DEF Init, TypeOK, Ended, Results
<1>2. CounterExact
  <2>1. Pending = {}
    BY DEF Init, Pending
  <2> QED
    BY <2>1, FS_EmptySet DEF Init, CounterExact
<1>3. EventSound /\ HookOrder /\ Routing /\ Running /\ NotStarted /\ FastPath /\ Woken
  BY DEF Init, EventSound, HookOrder, Routing, Running, NotStarted, FastPath, Woken,
         Finished, Results, Pending
<1> QED
  BY <1>1, <1>2, <1>3 DEF IInv

(* Every step keeps every variable in its type; the counter stays natural  *)
(* because on_done runs only for a task that is counted.                   *)
LEMMA TypeStep == IInv /\ [Next]_vars => TypeOK'
<1> SUFFICES ASSUME IInv, [Next]_vars PROVE TypeOK'
  OBVIOUS
<1> USE RunnerAssumption DEF IInv, TypeOK, Ended, Results
<1> USE DEF main, dict, routing, store
<1>1. CASE Start
  BY <1>1 DEF Start
<1>2. ASSUME NEW t \in Task, NEW o \in Results, InlineEnds(t, o) PROVE TypeOK'
  BY <1>2 DEF InlineEnds
<1>3. CASE InlineHandler
  <2>1. handled \subseteq Routed
    BY DEF Routing
  <2> QED
    BY <1>3, <2>1 DEF InlineHandler
<1>4. CASE Submit
  <2>1. ASSUME NEW t \in todo, Submitted(t), todo' = todo \ {t},
               futures' = futures \cup {t}, UNCHANGED pc
        PROVE  TypeOK'
    <3>1. Hooked(t) /\ fut' = [fut EXCEPT ![t] = "running"] /\ t \in Task
      BY <2>1 DEF Submitted
    <3>2. /\ reg' \in [Task -> {"no", "in", "hooked"}]
          /\ counter' \in Nat /\ event' = FALSE
      BY <3>1, HookedType
    <3> QED
      BY <1>4, <2>1, <3>1, <3>2 DEF Submit
  <2> QED
    BY <1>4, <2>1 DEF Submit
<1>5. CASE Wait
  BY <1>5 DEF Wait, Ready
<1>6. ASSUME NEW t \in Task, React(t) PROVE TypeOK'
  <2>1. CASE fut[t] = "error" /\ t \in Routed
    <3>1. /\ Hooked(HandlerOf[t]) /\ HandlerOf[t] \in Task
          /\ fut' = [fut EXCEPT ![HandlerOf[t]] = "running"]
      BY <1>6, <2>1 DEF React, Submitted
    <3>2. /\ reg' \in [Task -> {"no", "in", "hooked"}]
          /\ counter' \in Nat /\ event' = FALSE
      BY <3>1, HookedType
    <3> QED
      BY <1>6, <2>1, <3>1, <3>2 DEF React
  <2> QED
    BY <1>6, <2>1 DEF React
<1>7. CASE Reacted
  BY <1>7 DEF Reacted
<1>8. CASE EventWait
  BY <1>8 DEF EventWait
<1>9. CASE PanicOrProceed
  BY <1>9 DEF PanicOrProceed, Verdict
<1>10. ASSUME NEW p \in Task, NEW c \in Task, Call(p, c) PROVE TypeOK'
  BY <1>10 DEF Call
<1>11. ASSUME NEW t \in Task, Register(t) PROVE TypeOK'
  BY <1>11, HookedType DEF Register
<1>12. ASSUME NEW t \in Task, Finish(t) PROVE TypeOK'
  BY <1>12 DEF Finish
<1>13. ASSUME NEW t \in Task, Commit(t) PROVE TypeOK'
  BY <1>13 DEF Commit
<1>14. ASSUME NEW t \in Task, OnDone(t) PROVE TypeOK'
  <2>1. t \in Pending
    BY <1>14 DEF OnDone, HookOrder, Pending
  <2>2. counter' \in Nat
    BY <1>14, <2>1, PendingRemove DEF OnDone
  <2> QED
    BY <1>14, <2>2 DEF OnDone
<1>15. ASSUME NEW t \in Task, StoreError(t) PROVE TypeOK'
  BY <1>15 DEF StoreError
<1>16. CASE TimeUp \/ WaiterFires \/ Over \/ UNCHANGED vars
  BY <1>16 DEF TimeUp, WaiterFires, Over, vars
<1> QED
  BY <1>1, <1>2, <1>3, <1>4, <1>5, <1>6, <1>7, <1>8, <1>9, <1>10, <1>11, <1>12,
     <1>13, <1>14, <1>15, <1>16 DEF Next, Main, Worker

(* What the main thread submits was never started nor registered.          *)
LEMMA SubmitFacts ==
  ASSUME IInv, NEW t \in todo, Submit, Submitted(t)
  PROVE  t \in Task /\ fut[t] = "none" /\ reg[t] = "no" /\ hook[t] = "no"
<1>1. t \in Task /\ pc = "submit"
  BY DEF Submit, IInv, TypeOK
<1>2. fut[t] = "none"
  BY <1>1 DEF IInv, NotStarted
<1> QED
  BY <1>1, <1>2 DEF IInv, HookOrder, TypeOK, Finished, Results

(* So is the handler that a failed routed task starts.                     *)
LEMMA ReactFacts ==
  ASSUME IInv, NEW t \in Task, React(t), fut[t] = "error", t \in Routed
  PROVE  /\ HandlerOf[t] \in Task /\ fut[HandlerOf[t]] = "none"
         /\ reg[HandlerOf[t]] = "no" /\ hook[HandlerOf[t]] = "no"
         /\ Submitted(HandlerOf[t])
<1>1. HandlerOf[t] \in Task /\ Submitted(HandlerOf[t])
  BY RunnerAssumption DEF React
<1>2. fut[HandlerOf[t]] = "none"
  BY DEF React, IInv, NotStarted
<1> QED
  BY <1>1, <1>2 DEF IInv, HookOrder, TypeOK, Finished, Results

(* Registrations count one up and callbacks one down; nothing else changes *)
(* who is pending.                                                         *)
LEMMA CounterStep == IInv /\ [Next]_vars => CounterExact'
<1> SUFFICES ASSUME IInv, [Next]_vars PROVE CounterExact'
  OBVIOUS
<1> USE RunnerAssumption
<1> USE DEF main, dict, routing, store
<1>0. TypeOK /\ CounterExact
  BY DEF IInv
<1>1. CASE Start
  BY <1>0, <1>1, PendingSame DEF Start, Pending
<1>2. ASSUME NEW t \in Task, NEW o \in Results, InlineEnds(t, o) PROVE CounterExact'
  <2>1. reg[t] = "no"
    BY <1>2 DEF InlineEnds, IInv, FastPath
  <2>2. Pending' = Pending /\ counter' = counter
    BY <1>0, <1>2, <2>1 DEF InlineEnds, Pending, TypeOK
  <2> QED
    BY <1>0, <2>2, PendingSame
<1>3. CASE InlineHandler
  BY <1>0, <1>3, PendingSame DEF InlineHandler, Pending
<1>4. CASE Submit
  <2>1. ASSUME NEW t \in todo, Submitted(t) PROVE CounterExact'
    <3>1. t \in Task /\ reg[t] = "no" /\ hook[t] = "no"
      BY <1>4, <2>1, SubmitFacts
    <3>2. hook' = hook
      BY <1>4 DEF Submit
    <3> QED
      BY <1>0, <2>1, <3>1, <3>2, PendingAdd DEF Submitted, Hooked
  <2>2. CASE UNCHANGED dict
    BY <1>0, <1>4, <2>2, PendingSame DEF Submit, Pending
  <2> QED
    BY <1>4, <2>1, <2>2 DEF Submit
<1>5. CASE Wait
  BY <1>0, <1>5, PendingSame DEF Wait, Pending
<1>6. ASSUME NEW t \in Task, React(t) PROVE CounterExact'
  <2>1. CASE fut[t] = "error" /\ t \in Routed
    <3>1. hook' = hook
      BY <1>6 DEF React
    <3> QED
      BY <1>0, <1>6, <2>1, <3>1, ReactFacts, PendingAdd DEF Submitted, Hooked
  <2>2. CASE ~ (fut[t] = "error" /\ t \in Routed)
    BY <1>0, <1>6, <2>2, PendingSame DEF React, Pending
  <2> QED
    BY <2>1, <2>2
<1>7. CASE Reacted
  BY <1>0, <1>7, PendingSame DEF Reacted, Pending
<1>8. CASE EventWait
  BY <1>0, <1>8, PendingSame DEF EventWait, Pending
<1>9. CASE PanicOrProceed
  BY <1>0, <1>9, PendingSame DEF PanicOrProceed, Pending
<1>10. ASSUME NEW p \in Task, NEW c \in Task, Call(p, c) PROVE CounterExact'
  <2>1. reg[c] = "no"
    BY <1>10 DEF Call, IInv, HookOrder, TypeOK
  <2>2. Pending' = Pending /\ counter' = counter
    BY <1>0, <1>10, <2>1 DEF Call, Pending, TypeOK
  <2> QED
    BY <1>0, <2>2, PendingSame
<1>11. ASSUME NEW t \in Task, Register(t) PROVE CounterExact'
  <2>1. hook[t] # "done" /\ hook' = hook
    BY <1>11 DEF Register, IInv, HookOrder
  <2> QED
    BY <1>0, <1>11, <2>1, PendingAdd DEF Register, Hooked
<1>12. ASSUME NEW t \in Task, Finish(t) PROVE CounterExact'
  BY <1>0, <1>12, PendingSame DEF Finish, Pending
<1>13. ASSUME NEW t \in Task, Commit(t) PROVE CounterExact'
  <2>1. Pending' = Pending /\ counter' = counter
    BY <1>0, <1>13 DEF Commit, Pending, TypeOK
  <2> QED
    BY <1>0, <2>1, PendingSame
<1>14. ASSUME NEW t \in Task, OnDone(t) PROVE CounterExact'
  <2>1. t \in Pending
    BY <1>14 DEF OnDone, IInv, HookOrder, Pending
  <2> QED
    BY <1>0, <1>14, <2>1, PendingRemove DEF OnDone
<1>15. ASSUME NEW t \in Task, StoreError(t) PROVE CounterExact'
  BY <1>0, <1>15, PendingSame DEF StoreError, Pending
<1>16. CASE TimeUp \/ WaiterFires \/ Over \/ UNCHANGED vars
  BY <1>0, <1>16, PendingSame DEF TimeUp, WaiterFires, Over, vars, Pending
<1> QED
  BY <1>1, <1>2, <1>3, <1>4, <1>5, <1>6, <1>7, <1>8, <1>9, <1>10, <1>11, <1>12,
     <1>13, <1>14, <1>15, <1>16 DEF Next, Main, Worker

-----------------------------------------------------------------------------
(* A fatal error that is counted stays one: its task has ended, and what is*)
(* handled or skipped later belongs to routed tasks or to new futures.     *)
LEMMA StopStays == IInv /\ [Next]_vars /\ ShouldStop(done) => ShouldStop(done)'
<1> SUFFICES ASSUME IInv, [Next]_vars, NEW w \in done, IsFatal(w)
             PROVE  ShouldStop(done)'
  BY DEF ShouldStop
<1> USE RunnerAssumption
<1> USE DEF main, dict, routing, store
<1>0. /\ TypeOK /\ w \in Task /\ hook[w] = "done" /\ fut[w] = "error"
      /\ w \notin handled /\ w \notin skip /\ w \notin Routed
  BY DEF IInv, TypeOK, Routing, IsFatal
<1>a. pc # "start"
  BY <1>0 DEF IInv, FastPath
<1> DEFINE Stays == w \in done' /\ fut'[w] = "error" /\ w \notin handled' /\ w \notin skip'
<1> SUFFICES Stays
  BY DEF ShouldStop, IsFatal
<1>1. ASSUME NEW t \in Task, NEW o \in Results, InlineEnds(t, o) PROVE Stays
  BY <1>0, <1>1 DEF InlineEnds, TypeOK
<1>2. CASE Submit
  <2>1. ASSUME NEW t \in todo, Submitted(t) PROVE Stays
    <3>1. t # w
      BY <1>0, <1>2, <2>1, SubmitFacts
    <3> QED
      BY <1>0, <1>2, <2>1, <3>1 DEF Submit, Submitted, TypeOK
  <2> QED
    BY <1>0, <1>2, <2>1 DEF Submit
<1>3. ASSUME NEW t \in Task, React(t) PROVE Stays
  <2>1. CASE fut[t] = "error" /\ t \in Routed
    <3>1. HandlerOf[t] # w /\ Submitted(HandlerOf[t])
      BY <1>0, <1>3, <2>1, ReactFacts
    <3> QED
      BY <1>0, <1>3, <2>1, <3>1 DEF React, Submitted, TypeOK
  <2> QED
    BY <1>0, <1>3, <2>1 DEF React
<1>4. CASE InlineHandler \/ Wait \/ Reacted \/ EventWait \/ PanicOrProceed
  BY <1>0, <1>4 DEF InlineHandler, Wait, Reacted, EventWait, PanicOrProceed
<1>5. ASSUME NEW p \in Task, NEW c \in Task, Call(p, c) PROVE Stays
  BY <1>0, <1>5 DEF Call, TypeOK
<1>6. ASSUME NEW t \in Task, Register(t) \/ Finish(t) \/ StoreError(t) PROVE Stays
  BY <1>0, <1>6 DEF Register, Finish, StoreError, TypeOK
<1>7. ASSUME NEW t \in Task, Commit(t) \/ OnDone(t) PROVE Stays
  BY <1>0, <1>7 DEF Commit, OnDone, TypeOK
<1>8. CASE TimeUp \/ WaiterFires \/ Over \/ UNCHANGED vars
  BY <1>0, <1>8 DEF TimeUp, WaiterFires, Over, vars
<1>9. ~ Start
  BY <1>a DEF Start
<1> QED
  BY <1>1, <1>2, <1>3, <1>4, <1>5, <1>6, <1>7, <1>8, <1>9
     DEF Next, Main, Worker

(* A registration clears the event, and on_done sets it for a reason.      *)
LEMMA EventStep == IInv /\ [Next]_vars => EventSound'
<1> SUFFICES ASSUME IInv, [Next]_vars, event' PROVE Pending' = {} \/ ShouldStop(done)'
  BY DEF EventSound
<1> USE RunnerAssumption
<1> USE DEF main, dict, routing, store
<1>0. TypeOK /\ CounterExact /\ EventSound /\ HookOrder
  BY DEF IInv
<1> DEFINE Goal == event /\ Pending' = Pending
<1>a. SUFFICES Goal \/ Pending' = {} \/ ShouldStop(done)'
  BY <1>0, StopStays DEF EventSound
<1>1. CASE Start
  BY <1>1 DEF Start, Pending
<1>2. ASSUME NEW t \in Task, NEW o \in Results, InlineEnds(t, o) PROVE Goal
  <2>1. reg[t] = "no"
    BY <1>2 DEF InlineEnds, IInv, FastPath
  <2> QED
    BY <1>0, <1>2, <2>1 DEF InlineEnds, Pending, TypeOK
<1>3. CASE InlineHandler \/ Wait \/ Reacted \/ EventWait \/ PanicOrProceed
  BY <1>3 DEF InlineHandler, Wait, Reacted, EventWait, PanicOrProceed, Pending
<1>4. CASE Submit
  BY <1>4 DEF Submit, Submitted, Hooked, Pending
<1>5. ASSUME NEW t \in Task, React(t) PROVE Goal
  BY <1>5 DEF React, Submitted, Hooked, Pending
<1>6. ASSUME NEW p \in Task, NEW c \in Task, Call(p, c) PROVE Goal
  <2>1. reg[c] = "no"
    BY <1>0, <1>6 DEF Call, HookOrder, TypeOK
  <2> QED
    BY <1>0, <1>6, <2>1 DEF Call, Pending, TypeOK
<1>7. ASSUME NEW t \in Task, Register(t) \/ Finish(t) \/ StoreError(t) PROVE Goal
  BY <1>7 DEF Register, Hooked, Finish, StoreError, Pending
<1>8. ASSUME NEW t \in Task, Commit(t) PROVE Goal
  BY <1>0, <1>8 DEF Commit, Pending, TypeOK
<1>9. ASSUME NEW t \in Task, OnDone(t) PROVE Pending' = {} \/ ShouldStop(done)'
  <2>1. t \in Pending
    BY <1>0, <1>9 DEF OnDone, HookOrder, Pending
  <2>2. counter' = 0 => Pending' = {}
    BY <1>0, <1>9, <2>1, PendingRemove DEF OnDone
  <2>3. CASE event
    BY <1>0, <2>1, <2>3, StopStays DEF EventSound
  <2>4. ShouldStop(done') => ShouldStop(done)'
    BY <1>9 DEF OnDone, ShouldStop, IsFatal
  <2> QED
    BY <1>9, <2>2, <2>3, <2>4 DEF OnDone
<1>10. CASE TimeUp \/ WaiterFires \/ Over \/ UNCHANGED vars
  BY <1>10 DEF TimeUp, WaiterFires, Over, vars, Pending
<1> QED
  BY <1>1, <1>2, <1>3, <1>4, <1>5, <1>6, <1>7, <1>8, <1>9, <1>10
     DEF Next, Main, Worker

-----------------------------------------------------------------------------
(* Callbacks run only for registered futures that have finished.           *)
LEMMA HookStep == IInv /\ [Next]_vars => HookOrder'
<1> SUFFICES ASSUME IInv, [Next]_vars, NEW u \in Task PROVE
     /\ hook'[u] # "no" => Finished(u)'
     /\ hook'[u] = "committed" => reg'[u] = "hooked"
     /\ reg'[u] = "in" => hook'[u] = "no"
     /\ reg'[u] # "no" => fut'[u] # "none"
     /\ u \in futures' => reg'[u] # "no"
     /\ Finished(u)' /\ reg'[u] = "no" => hook'[u] = "done"
  BY DEF HookOrder
<1> USE RunnerAssumption
<1> USE DEF main, dict, routing, store, Finished, Results
<1>0. TypeOK /\ HookOrder
  BY DEF IInv
<1>1. CASE Start
  BY <1>0, <1>1 DEF Start, HookOrder, IInv, FastPath
<1>2. ASSUME NEW t \in Task, NEW o \in Results, InlineEnds(t, o) PROVE HookOrder'
  <2>1. reg[t] = "no"
    BY <1>2 DEF InlineEnds, IInv, FastPath
  <2> QED
    BY <1>0, <1>2, <2>1 DEF InlineEnds, HookOrder, TypeOK
<1>3. CASE InlineHandler
  BY <1>0, <1>3 DEF InlineHandler, HookOrder
<1>4. CASE Submit
  <2>1. ASSUME NEW t \in todo, Submitted(t), futures' = futures \cup {t} PROVE HookOrder'
    <3>1. /\ t \in Task /\ hook' = hook /\ hook[t] = "no"
          /\ fut' = [fut EXCEPT ![t] = "running"] /\ reg' = [reg EXCEPT ![t] = "hooked"]
      BY <1>4, <2>1, SubmitFacts DEF Submit, Submitted, Hooked
    <3> QED
      BY <1>0, <2>1, <3>1 DEF HookOrder, TypeOK
  <2> QED
    BY <1>0, <1>4, <2>1 DEF Submit, HookOrder
<1>5. CASE Wait
  BY <1>0, <1>5 DEF Wait, HookOrder
<1>6. ASSUME NEW t \in Task, React(t) PROVE HookOrder'
  <2>1. CASE fut[t] = "error" /\ t \in Routed
    <3>1. /\ HandlerOf[t] \in Task /\ hook[HandlerOf[t]] = "no" /\ hook' = hook
          /\ fut' = [fut EXCEPT ![HandlerOf[t]] = "running"]
          /\ reg' = [reg EXCEPT ![HandlerOf[t]] = "hooked"]
          /\ futures' = (futures \ {t}) \cup {HandlerOf[t]}
      BY <1>6, <2>1, ReactFacts DEF React, Submitted, Hooked
    <3> QED
      BY <1>0, <3>1 DEF HookOrder, TypeOK
  <2> QED
    BY <1>0, <1>6, <2>1 DEF React, HookOrder
<1>7. CASE Reacted
  BY <1>0, <1>7 DEF Reacted, HookOrder
<1>8. CASE EventWait \/ PanicOrProceed
  BY <1>0, <1>8 DEF EventWait, PanicOrProceed, HookOrder
<1>9. ASSUME NEW p \in Task, NEW c \in Task, Call(p, c) PROVE HookOrder'
  BY <1>0, <1>9 DEF Call, HookOrder, TypeOK
<1>10. ASSUME NEW t \in Task, Register(t) PROVE HookOrder'
  BY <1>0, <1>10 DEF Register, Hooked, HookOrder, TypeOK
<1>11. ASSUME NEW t \in Task, Finish(t) PROVE HookOrder'
  <2>1. reg[t] # "no"
    BY <1>11 DEF Finish, IInv, Running
  <2> QED
    BY <1>0, <1>11, <2>1 DEF Finish, HookOrder, TypeOK
<1>12. ASSUME NEW t \in Task, Commit(t) PROVE HookOrder'
  BY <1>0, <1>12 DEF Commit, HookOrder, TypeOK
<1>13. ASSUME NEW t \in Task, OnDone(t) PROVE HookOrder'
  BY <1>0, <1>13 DEF OnDone, HookOrder, TypeOK
<1>14. ASSUME NEW t \in Task, StoreError(t) PROVE HookOrder'
  BY <1>0, <1>14 DEF StoreError, HookOrder
<1>15. CASE TimeUp \/ WaiterFires \/ Over \/ UNCHANGED vars
  BY <1>0, <1>15 DEF TimeUp, WaiterFires, Over, vars, HookOrder
<1> QED
  BY <1>1, <1>2, <1>3, <1>4, <1>5, <1>6, <1>7, <1>8, <1>9, <1>10, <1>11, <1>12,
     <1>13, <1>14, <1>15 DEF Next, Main, Worker, HookOrder

(* Only a routed task that failed becomes handled, so no error that was    *)
(* counted changes its standing; only a commit makes the error of a task   *)
(* count, and the commit of a routed task has made it handled.             *)
LEMMA RoutingStep == IInv /\ [Next]_vars => Routing'
<1> SUFFICES ASSUME IInv, [Next]_vars PROVE Routing'
  OBVIOUS
<1> USE RunnerAssumption
<1> USE DEF main, dict, routing, store, IsFatal, Results
<1>0. TypeOK /\ HookOrder /\ Routing
  BY DEF IInv
<1>1. CASE Start
  BY <1>0, <1>1 DEF Start, Routing, IInv, FastPath, TypeOK
<1>2. ASSUME NEW t \in Task, NEW o \in Results, InlineEnds(t, o) PROVE Routing'
  <2>1. fut' = [fut EXCEPT ![t] = o] /\ hook' = [hook EXCEPT ![t] = "done"] /\ skip' = skip
    BY <1>2 DEF InlineEnds
  <2>2. fut[t] = "running" /\ done \subseteq done' /\ done' \subseteq done \cup {t}
    BY <1>2 DEF InlineEnds
  <2>3. /\ handled \subseteq handled' /\ handled' \subseteq Routed
        /\ o = "error" /\ t \in Routed => t \in handled'
    BY <1>0, <1>2 DEF InlineEnds, Routing
  <2>4. \A u \in Routed : fut'[u] = "error" /\ hook'[u] # "no" => u \in handled'
    BY <1>0, <2>1, <2>3 DEF Routing, TypeOK
  <2>5. \A u \in done' : hook'[u] = "done"
    BY <1>0, <2>1, <2>2 DEF Routing, TypeOK
  <2>6. o = "error" /\ t \notin Routed => t \in done' \/ pc' = "raised"
    BY <1>2 DEF InlineEnds
  <2>7. pc # "raised"
    BY <1>2 DEF InlineEnds
  <2>8. \A u \in Task : hook'[u] = "done" /\ u \notin done' /\ pc' # "raised" => ~ IsFatal(u)'
    BY <1>0, <2>1, <2>2, <2>3, <2>6, <2>7 DEF Routing, TypeOK
  <2> QED
    BY <2>3, <2>4, <2>5, <2>8 DEF Routing
<1>3. CASE InlineHandler
  BY <1>0, <1>3 DEF InlineHandler, Routing
<1>4. CASE Submit
  <2>1. ASSUME NEW t \in todo, Submitted(t) PROVE Routing'
    <3>1. /\ t \in Task /\ hook' = hook /\ hook[t] = "no" /\ UNCHANGED <<done, handled, skip>>
          /\ fut' = [fut EXCEPT ![t] = "running"] /\ pc # "raised"
      BY <1>4, <2>1, SubmitFacts DEF Submit, Submitted
    <3> QED
      BY <1>0, <3>1 DEF Routing, TypeOK
  <2> QED
    BY <1>0, <1>4, <2>1 DEF Submit, Routing
<1>5. CASE Wait
  BY <1>0, <1>5 DEF Wait, Routing
<1>6. ASSUME NEW t \in Task, React(t) PROVE Routing'
  <2>1. CASE fut[t] = "error" /\ t \in Routed
    <3>1. /\ HandlerOf[t] \in Task /\ hook[HandlerOf[t]] = "no"
          /\ fut' = [fut EXCEPT ![HandlerOf[t]] = "running"]
          /\ handled' = handled \cup {t} /\ skip' = skip \cup {t}
          /\ UNCHANGED <<pc, hook, done>>
      BY <1>6, <2>1, ReactFacts DEF React, Submitted
    <3> QED
      BY <1>0, <2>1, <3>1 DEF Routing, TypeOK
  <2> QED
    BY <1>0, <1>6, <2>1 DEF React, Routing
<1>7. CASE Reacted
  BY <1>0, <1>7 DEF Reacted, Routing
<1>8. CASE EventWait
  BY <1>0, <1>8 DEF EventWait, Routing
<1>9. CASE PanicOrProceed
  BY <1>0, <1>9 DEF PanicOrProceed, Routing
<1>10. ASSUME NEW p \in Task, NEW c \in Task, Call(p, c) PROVE Routing'
  BY <1>0, <1>10 DEF Call, Routing, TypeOK
<1>11. ASSUME NEW t \in Task, Register(t) PROVE Routing'
  BY <1>0, <1>11 DEF Register, Routing
<1>12. ASSUME NEW t \in Task, Finish(t) PROVE Routing'
  <2>1. hook[t] = "no" /\ UNCHANGED <<pc, hook, done, handled, skip>>
    BY <1>0, <1>12 DEF Finish, HookOrder, Finished, TypeOK
  <2> QED
    BY <1>0, <1>12, <2>1 DEF Finish, Routing, TypeOK
<1>13. ASSUME NEW t \in Task, Commit(t) PROVE Routing'
  BY <1>0, <1>13 DEF Commit, Routing, TypeOK
<1>14. ASSUME NEW t \in Task, OnDone(t) PROVE Routing'
  BY <1>0, <1>14 DEF OnDone, Routing, TypeOK
<1>15. ASSUME NEW t \in Task, StoreError(t) PROVE Routing'
  BY <1>0, <1>15 DEF StoreError, Routing
<1>16. CASE TimeUp \/ WaiterFires \/ Over \/ UNCHANGED vars
  BY <1>0, <1>16 DEF TimeUp, WaiterFires, Over, vars, Routing
<1> QED
  BY <1>1, <1>2, <1>3, <1>4, <1>5, <1>6, <1>7, <1>8, <1>9, <1>10, <1>11, <1>12,
     <1>13, <1>14, <1>15, <1>16 DEF Next, Main, Worker

-----------------------------------------------------------------------------
(* A task that schedules another one is held up until that one is          *)
(* registered, so it is still running when the registration happens.       *)
LEMMA RunningStep == IInv /\ [Next]_vars => Running'
<1> SUFFICES ASSUME IInv, [Next]_vars PROVE Running'
  OBVIOUS
<1> USE RunnerAssumption
<1> USE DEF main, dict, routing, store, Results
<1>0. TypeOK /\ HookOrder /\ Running
  BY DEF IInv
<1>1. CASE Start
  BY <1>0, <1>1 DEF Start, Running, TypeOK
<1>2. ASSUME NEW t \in Task, NEW o \in Results, InlineEnds(t, o) PROVE Running'
  <2>1. todo = {t}
    BY <1>2 DEF InlineEnds, IInv, FastPath
  <2>2. /\ fut' = [fut EXCEPT ![t] = o] /\ UNCHANGED reg
        /\ \A c \in CallsOf[t] : reg[c] # "in"
    BY <1>2 DEF InlineEnds, Calling
  <2>3. \A c \in Task : fut'[c] = "running" => reg'[c] # "no"
    BY <1>0, <2>1, <2>2 DEF Running, TypeOK
  <2>4. \A c \in Task : reg'[c] = "in" =>
          \E p \in Task : c \in CallsOf[p] /\ fut'[p] = "running"
    BY <1>0, <2>2 DEF Running, TypeOK
  <2> QED
    BY <2>3, <2>4 DEF Running
<1>3. CASE InlineHandler
  BY <1>0, <1>3 DEF InlineHandler, Running
<1>4. CASE Submit
  <2>1. ASSUME NEW t \in todo, Submitted(t) PROVE Running'
    <3>1. /\ t \in Task /\ fut' = [fut EXCEPT ![t] = "running"] /\ pc = "submit"
          /\ reg' = [reg EXCEPT ![t] = "hooked"]
      BY <1>4, <2>1, SubmitFacts DEF Submit, Submitted, Hooked
    <3> QED
      BY <1>0, <3>1 DEF Running, TypeOK
  <2> QED
    BY <1>0, <1>4, <2>1 DEF Submit, Running
<1>5. CASE Wait
  BY <1>0, <1>5 DEF Wait, Running
<1>6. ASSUME NEW t \in Task, React(t) PROVE Running'
  <2>1. CASE fut[t] = "error" /\ t \in Routed
    <3>1. /\ HandlerOf[t] \in Task /\ fut' = [fut EXCEPT ![HandlerOf[t]] = "running"]
          /\ reg' = [reg EXCEPT ![HandlerOf[t]] = "hooked"] /\ pc = "react"
      BY <1>6, <2>1, ReactFacts DEF React, Submitted, Hooked
    <3> QED
      BY <1>0, <3>1 DEF Running, TypeOK
  <2> QED
    BY <1>0, <1>6, <2>1 DEF React, Running
<1>7. CASE Reacted
  BY <1>0, <1>7 DEF Reacted, Running
<1>8. CASE EventWait \/ PanicOrProceed
  BY <1>0, <1>8 DEF EventWait, PanicOrProceed, Running
<1>9. ASSUME NEW p \in Task, NEW c \in Task, Call(p, c) PROVE Running'
  <2>1. /\ fut' = [fut EXCEPT ![c] = "running"] /\ reg' = [reg EXCEPT ![c] = "in"]
        /\ c \in CallsOf[p] /\ fut[p] = "running" /\ UNCHANGED <<pc, todo>>
    BY <1>9 DEF Call
  <2> QED
    BY <1>0, <2>1 DEF Running, TypeOK
<1>10. ASSUME NEW t \in Task, Register(t) PROVE Running'
  BY <1>0, <1>10 DEF Register, Hooked, Running, TypeOK
<1>11. ASSUME NEW t \in Task, Finish(t) PROVE Running'
  <2>1. PICK o \in Outcomes[t] : fut' = [fut EXCEPT ![t] = o]
    BY <1>11 DEF Finish
  <2>2. o # "running" /\ (\A c \in CallsOf[t] : reg[c] # "in") /\ UNCHANGED <<pc, todo, reg>>
    BY <1>11, <2>1 DEF Finish, Calling
  <2> QED
    BY <1>0, <2>1, <2>2 DEF Running, TypeOK
<1>12. ASSUME NEW t \in Task, Commit(t) \/ OnDone(t) \/ StoreError(t) PROVE Running'
  BY <1>0, <1>12 DEF Commit, OnDone, StoreError, Running
<1>13. CASE TimeUp \/ WaiterFires \/ Over \/ UNCHANGED vars
  BY <1>0, <1>13 DEF TimeUp, WaiterFires, Over, vars, Running
<1> QED
  BY <1>1, <1>2, <1>3, <1>4, <1>5, <1>6, <1>7, <1>8, <1>9, <1>10, <1>11, <1>12,
     <1>13 DEF Next, Main, Worker

-----------------------------------------------------------------------------
(* A handler is started once, for the failure of its node, and before that *)
(* it has not been started by anybody else.                                *)
LEMMA NotStartedStep == IInv /\ [Next]_vars => NotStarted'
<1> SUFFICES ASSUME IInv, [Next]_vars PROVE NotStarted'
  OBVIOUS
<1> USE RunnerAssumption
<1> USE DEF main, dict, routing, store, Finished, Results
<1>0. TypeOK /\ NotStarted
  BY DEF IInv
<1>1. CASE Start
  <2>1. todo \subseteq Initial /\ \A t \in Task : fut[t] = "none"
    BY <1>1 DEF Start, IInv, FastPath
  <2> QED
    BY <1>0, <1>1, <2>1 DEF Start, NotStarted, TypeOK
<1>2. ASSUME NEW t \in Task, NEW o \in Results, InlineEnds(t, o) PROVE NotStarted'
  <2>1. t \in Initial /\ \A s \in Routed : HandlerOf[s] # t
    BY <1>2 DEF InlineEnds, IInv, FastPath
  <2>2. fut' = [fut EXCEPT ![t] = o] /\ todo' = {} /\ UNCHANGED <<batch, futures>>
    BY <1>2 DEF InlineEnds
  <2> QED
    BY <1>0, <2>1, <2>2 DEF NotStarted, TypeOK
<1>3. CASE InlineHandler
  <2>1. handled \subseteq Routed
    BY DEF IInv, Routing
  <2>2. \A t \in handled : fut[HandlerOf[t]] = "none" /\ t \notin futures /\ fut[t] \in Results
    BY <1>3 DEF InlineHandler, IInv, FastPath
  <2>3. /\ todo' = {HandlerOf[t] : t \in handled} /\ pc' = "submit"
        /\ UNCHANGED <<fut, futures, batch>>
    BY <1>3 DEF InlineHandler
  <2>4. \A t \in Routed : HandlerOf[t] \in todo' => t \in handled
    BY <2>1, <2>3
  <2> QED
    BY <1>0, <2>1, <2>2, <2>3, <2>4 DEF NotStarted
<1>4. CASE Submit
  <2>1. ASSUME NEW t \in todo, Submitted(t), todo' = todo \ {t},
               futures' = futures \cup {t}, UNCHANGED pc
        PROVE  NotStarted'
    <3>1. /\ t \in Task /\ fut[t] = "none" /\ pc = "submit" /\ pc' = "submit" /\ batch' = batch
          /\ fut' = [fut EXCEPT ![t] = "running"]
      BY <1>4, <2>1, SubmitFacts DEF Submit, Submitted
    <3>2. ASSUME NEW s \in Routed, HandlerOf[s] = t
          PROVE  s # t /\ s \notin futures /\ fut[s] \in Results
      BY <1>0, <3>1, <3>2 DEF NotStarted
    <3>3. batch' \subseteq futures' /\ \A u \in todo' : fut'[u] = "none" /\ u \in todo
      BY <1>0, <2>1, <3>1 DEF NotStarted, TypeOK
    <3>4. ASSUME NEW s \in Routed
          PROVE  /\ fut'[s] \in {"none", "running"} => fut'[HandlerOf[s]] = "none"
                 /\ s \in futures' => fut'[HandlerOf[s]] = "none"
      BY <1>0, <2>1, <3>1, <3>2 DEF NotStarted, TypeOK
    <3>5. ASSUME NEW s \in Routed, HandlerOf[s] \in todo'
          PROVE  s \notin futures' /\ fut'[s] \in Results
      BY <1>0, <2>1, <3>1, <3>5 DEF NotStarted, TypeOK
    <3> QED
      BY <1>0, <3>1, <3>3, <3>4, <3>5 DEF NotStarted
  <2> QED
    BY <1>0, <1>4, <2>1 DEF Submit, NotStarted
<1>5. CASE Wait
  BY <1>0, <1>5 DEF Wait, Ready, NotStarted
<1>6. ASSUME NEW t \in Task, React(t) PROVE NotStarted'
  <2>1. CASE fut[t] = "error" /\ t \in Routed
    <3>1. /\ HandlerOf[t] \in Task \ Routed /\ batch' = batch \ {t} /\ pc' = "react"
          /\ fut' = [fut EXCEPT ![HandlerOf[t]] = "running"]
          /\ futures' = (futures \ {t}) \cup {HandlerOf[t]}
      BY <1>6, <2>1, ReactFacts DEF React, Submitted
    <3>2. \A s \in Routed : HandlerOf[s] = HandlerOf[t] => s = t
      BY <2>1
    <3> QED
      BY <1>0, <2>1, <3>1, <3>2 DEF NotStarted, TypeOK
  <2> QED
    BY <1>0, <1>6, <2>1 DEF React, NotStarted
<1>7. CASE Reacted
  BY <1>0, <1>7 DEF Reacted, NotStarted
<1>8. CASE EventWait \/ PanicOrProceed
  BY <1>0, <1>8 DEF EventWait, PanicOrProceed, Verdict, NotStarted
<1>9. ASSUME NEW p \in Task, NEW c \in Task, Call(p, c) PROVE NotStarted'
  <2>1. c \notin Routed \cup Initial /\ \A s \in Routed : HandlerOf[s] # c
    BY <1>9 DEF Call
  <2>2. /\ fut' = [fut EXCEPT ![c] = "running"] /\ futures' = futures \cup {c}
        /\ UNCHANGED <<pc, todo, batch>>
    BY <1>9 DEF Call
  <2> QED
    BY <1>0, <2>1, <2>2 DEF NotStarted, TypeOK
<1>10. ASSUME NEW t \in Task, Register(t) \/ Commit(t) \/ OnDone(t) \/ StoreError(t)
       PROVE  NotStarted'
  BY <1>0, <1>10 DEF Register, Commit, OnDone, StoreError, NotStarted
<1>11. ASSUME NEW t \in Task, Finish(t) PROVE NotStarted'
  <2>1. PICK o \in Outcomes[t] : fut' = [fut EXCEPT ![t] = o]
    BY <1>11 DEF Finish
  <2>2. o \in Results /\ fut[t] = "running" /\ UNCHANGED <<pc, todo, batch, futures>>
    BY <1>11, <2>1 DEF Finish
  <2> QED
    BY <1>0, <2>1, <2>2 DEF NotStarted, TypeOK
<1>12. CASE TimeUp \/ WaiterFires \/ Over \/ UNCHANGED vars
  BY <1>0, <1>12 DEF TimeUp, WaiterFires, Over, vars, NotStarted
<1> QED
  BY <1>1, <1>2, <1>3, <1>4, <1>5, <1>6, <1>7, <1>8, <1>9, <1>10, <1>11, <1>12
     DEF Next, Main, Worker

-----------------------------------------------------------------------------
(* While the single task of the fast path runs in the main thread, it is   *)
(* not registered, and nothing else but what it calls has been started.    *)
LEMMA FastPathStep == IInv /\ [Next]_vars => FastPath'
<1> SUFFICES ASSUME IInv, [Next]_vars PROVE FastPath'
  OBVIOUS
<1> USE RunnerAssumption
<1> USE DEF main, dict, routing, store, Finished, Results
<1>0. TypeOK /\ HookOrder /\ Routing /\ FastPath
  BY DEF IInv
<1>1. CASE Start
  BY <1>0, <1>1 DEF Start, FastPath, TypeOK
<1>2. ASSUME NEW t \in Task, NEW o \in Results, InlineEnds(t, o) PROVE FastPath'
  <2>1. reg[t] = "no" /\ t \notin futures /\ handled = {} /\ \A s \in Routed : reg[s] = "no"
    BY <1>0, <1>2 DEF InlineEnds, FastPath, HookOrder
  <2>2. pc' \notin {"start", "inline"} /\ UNCHANGED <<reg, futures>>
        /\ fut' = [fut EXCEPT ![t] = o]
    BY <1>2 DEF InlineEnds, Ended
  <2>3. CASE pc' = "handler"
    <3>1. t \in Routed /\ handled' = {t}
      BY <1>2, <2>1, <2>3 DEF InlineEnds
    <3>2. fut[HandlerOf[t]] = "none" /\ HandlerOf[t] # t
      BY <1>2, <3>1 DEF InlineEnds, IInv, NotStarted
    <3> QED
      BY <1>0, <2>1, <2>2, <2>3, <3>1, <3>2 DEF FastPath, TypeOK
  <2> QED
    BY <2>2, <2>3 DEF FastPath
<1>3. CASE InlineHandler \/ Submit \/ Wait \/ Reacted \/ EventWait \/ PanicOrProceed
  BY <1>3 DEF InlineHandler, Submit, Wait, Reacted, EventWait, PanicOrProceed, Verdict,
              FastPath
<1>4. ASSUME NEW t \in Task, React(t) PROVE FastPath'
  BY <1>4 DEF React, FastPath
<1>5. ASSUME NEW p \in Task, NEW c \in Task, Call(p, c) PROVE FastPath'
  <2>1. c \notin Routed \cup Initial /\ (\A s \in Routed : HandlerOf[s] # c) /\ pc # "start"
    BY <1>0, <1>5 DEF Call, FastPath
  <2>2. /\ fut' = [fut EXCEPT ![c] = "running"] /\ reg' = [reg EXCEPT ![c] = "in"]
        /\ fut[c] = "none" /\ futures' = futures \cup {c} /\ UNCHANGED <<pc, todo, handled>>
    BY <1>5 DEF Call
  <2>3. handled \subseteq Routed
    BY <1>0 DEF Routing
  <2> QED
    BY <1>0, <2>1, <2>2, <2>3 DEF FastPath, TypeOK
<1>6. ASSUME NEW t \in Task, Register(t) PROVE FastPath'
  BY <1>0, <1>6 DEF Register, Hooked, FastPath, TypeOK
<1>7. ASSUME NEW t \in Task, Finish(t) PROVE FastPath'
  <2>1. PICK o \in Outcomes[t] : fut' = [fut EXCEPT ![t] = o]
    BY <1>7 DEF Finish
  <2>2. o \in Results /\ fut[t] = "running" /\ UNCHANGED <<pc, todo, futures, reg, handled>>
    BY <1>7, <2>1 DEF Finish
  <2>3. \A s \in handled : HandlerOf[s] \in Task
    BY <1>0 DEF Routing
  <2> QED
    BY <1>0, <2>1, <2>2, <2>3 DEF FastPath, TypeOK
<1>8. ASSUME NEW t \in Task, Commit(t) PROVE FastPath'
  <2>1. pc \in {"start", "inline", "handler"} => handled' = handled
    BY <1>0, <1>8 DEF Commit, FastPath
  <2> QED
    BY <1>0, <1>8, <2>1 DEF Commit, FastPath
<1>9. ASSUME NEW t \in Task, OnDone(t) PROVE FastPath'
  BY <1>0, <1>9 DEF OnDone, FastPath
<1>10. ASSUME NEW t \in Task, StoreError(t) PROVE FastPath'
  BY <1>0, <1>10 DEF StoreError, FastPath
<1>11. CASE TimeUp \/ WaiterFires \/ Over \/ UNCHANGED vars
  BY <1>0, <1>11 DEF TimeUp, WaiterFires, Over, vars, FastPath
<1> QED
  BY <1>1, <1>2, <1>3, <1>4, <1>5, <1>6, <1>7, <1>8, <1>9, <1>10, <1>11
     DEF Next, Main, Worker

-----------------------------------------------------------------------------
(* When nothing is pending, nothing runs: a running task would be one that *)
(* is being registered by a caller that is running too, and some running   *)
(* task is called by none of them.                                         *)
LEMMA NoneRunning ==
  ASSUME IInv, Pending = {}, pc # "inline"
  PROVE  \A t \in Task : fut[t] # "running" /\ reg[t] # "in"
<1> DEFINE R == {t \in Task : fut[t] = "running"}
<1>1. ASSUME NEW t \in R PROVE \E p \in R : t \in CallsOf[p]
  <2>1. reg[t] \in {"in", "hooked"}
    BY DEF IInv, Running, TypeOK
  <2>2. hook[t] = "no"
    BY DEF IInv, HookOrder, Finished, Results
  <2>3. reg[t] = "in"
    BY <2>1, <2>2 DEF Pending
  <2> QED
    BY <2>3 DEF IInv, Running
<1>2. R = {}
  BY <1>1, NestedCalls
<1> QED
  BY <1>2 DEF IInv, Running

(* What the main thread knew when it was woken stays true, and a step that *)
(* is over stays settled.                                                  *)
LEMMA WokenStep == IInv /\ [Next]_vars => Woken'
<1> SUFFICES ASSUME IInv, [Next]_vars PROVE Woken'
  OBVIOUS
<1> USE RunnerAssumption
<1> USE DEF main, dict, routing, store, Results
<1>0. TypeOK /\ HookOrder /\ Routing /\ FastPath /\ Woken
  BY DEF IInv
<1> DEFINE Known == Pending = {} \/ ShouldStop(done)
           Quiet == \A t \in Task : fut[t] # "none" => Settled(t)
<1>1. CASE Start
  <2>1. pc' = "returned" => Quiet'
    BY <1>0, <1>1 DEF Start, FastPath
  <2> QED
    BY <1>0, <1>1, <2>1 DEF Start, Woken
<1>2. ASSUME NEW t \in Task, NEW o \in Results, InlineEnds(t, o) PROVE Woken'
  <2>1. /\ fut' = [fut EXCEPT ![t] = o] /\ hook' = [hook EXCEPT ![t] = "done"]
        /\ late' = late /\ pc' # "panic"
    BY <1>2 DEF InlineEnds
  <2>2. CASE pc' \in {"returned", "interrupted"}
    <3>1. futures = {} /\ o # "error"
      BY <1>2, <2>2 DEF InlineEnds
    <3>2. \A u \in Task : fut[u] # "none" => u = t
      BY <1>0, <1>2, <3>1 DEF InlineEnds, FastPath
    <3>3. Quiet'
      BY <1>0, <2>1, <3>1, <3>2 DEF Settled, Finished, IsFatal, TypeOK
    <3> QED
      BY <1>0, <2>1, <3>3 DEF Woken
  <2> QED
    BY <1>0, <2>1, <2>2 DEF Woken
<1>3. CASE InlineHandler \/ Submit \/ Wait \/ Reacted
  BY <1>0, <1>3 DEF InlineHandler, Submit, Wait, Reacted, Woken
<1>4. ASSUME NEW t \in Task, React(t) PROVE Woken'
  BY <1>0, <1>4 DEF React, Woken
<1>5. CASE EventWait
  <2>1. ~ late => Known
    BY <1>5 DEF EventWait, IInv, EventSound
  <2>2. Known' = Known /\ pc' = "panic" /\ late' = late
    BY <1>5 DEF EventWait, Pending, ShouldStop, IsFatal
  <2> QED
    BY <1>0, <2>1, <2>2 DEF Woken
<1>6. CASE PanicOrProceed
  <2>1. ASSUME ~ late, Verdict \in {"returned", "interrupted"} PROVE Quiet
    <3>1. pc = "panic" /\ ~ late
      BY <1>0, <1>6, <2>1 DEF PanicOrProceed, Woken
    <3>2. ~ ShouldStop(done)
      BY <2>1 DEF Verdict, Excepted, Seen, ShouldStop, IsFatal
    <3>3. Pending = {}
      BY <1>0, <3>1, <3>2 DEF Woken
    <3>4. \A t \in Task : fut[t] # "running" /\ reg[t] # "in"
      BY <3>1, <3>3, NoneRunning
    <3>5. \A t \in Task : fut[t] # "none" => Finished(t) /\ hook[t] = "done"
      BY <1>0, <3>3, <3>4 DEF Pending, HookOrder, TypeOK, Finished
    <3>6. \A t \in Task : fut[t] # "none" => ~ IsFatal(t)
      BY <1>0, <3>1, <3>2, <3>5 DEF Routing, ShouldStop
    <3> QED
      BY <3>5, <3>6 DEF Settled
  <2>2. pc' = Verdict /\ late' = late /\ Quiet' = Quiet
    BY <1>6 DEF PanicOrProceed, Settled, Finished, IsFatal
  <2>3. Verdict # "panic"
    BY DEF Verdict
  <2> QED
    BY <1>0, <2>1, <2>2, <2>3 DEF Woken
<1>7. ASSUME NEW p \in Task, NEW c \in Task, Call(p, c) PROVE Woken'
  <2>1. /\ fut[p] = "running" /\ UNCHANGED <<pc, late>>
        /\ Pending = {} => Pending' = {}
    BY <1>0, <1>7 DEF Call, Pending, TypeOK
  <2>2. ~ (pc \in {"returned", "interrupted"} /\ ~ late)
    BY <1>0, <2>1 DEF Woken, Settled, Finished
  <2> QED
    BY <1>0, <2>1, <2>2, StopStays DEF Woken
<1>8. ASSUME NEW t \in Task, Register(t) PROVE Woken'
  <2>1. reg[t] = "in" /\ hook[t] = "no" /\ fut[t] # "none" /\ UNCHANGED <<pc, late>>
    BY <1>0, <1>8 DEF Register, HookOrder
  <2>2. pc = "panic" => Pending # {}
    BY <2>1, NoneRunning
  <2>3. ~ (pc \in {"returned", "interrupted"} /\ ~ late)
    BY <1>0, <2>1 DEF Woken, Settled
  <2> QED
    BY <1>0, <2>1, <2>2, <2>3, StopStays DEF Woken
<1>9. ASSUME NEW t \in Task, Finish(t) PROVE Woken'
  <2>1. /\ fut[t] = "running" /\ UNCHANGED <<pc, late>> /\ Pending' = Pending
    BY <1>9 DEF Finish, Pending
  <2>2. ~ (pc \in {"returned", "interrupted"} /\ ~ late)
    BY <1>0, <2>1 DEF Woken, Settled, Finished
  <2> QED
    BY <1>0, <2>1, <2>2, StopStays DEF Woken
<1>10. ASSUME NEW t \in Task, Commit(t) \/ OnDone(t) PROVE Woken'
  <2>1. /\ hook[t] # "done" /\ fut[t] # "none" /\ UNCHANGED <<pc, late>>
        /\ Pending = {} => Pending' = {}
    BY <1>0, <1>10 DEF Commit, OnDone, Pending, HookOrder, Finished, TypeOK
  <2>2. ~ (pc \in {"returned", "interrupted"} /\ ~ late)
    BY <1>0, <2>1 DEF Woken, Settled
  <2> QED
    BY <1>0, <2>1, <2>2, StopStays DEF Woken
<1>11. CASE TimeUp
  <2>1. pc' = pc /\ late' = TRUE
    BY <1>11 DEF TimeUp
  <2> QED
    BY <2>1 DEF Woken
<1>12. ASSUME UNCHANGED <<pc, late, fut, reg, hook, handled, skip, done>> PROVE Woken'
  <2>1. Known' = Known /\ Quiet' = Quiet
    BY <1>12 DEF Pending, ShouldStop, Settled, Finished, IsFatal
  <2> QED
    BY <1>0, <1>12, <2>1 DEF Woken
<1>13. CASE WaiterFires \/ Over \/ UNCHANGED vars \/ \E t \in Task : StoreError(t)
  BY <1>12, <1>13 DEF WaiterFires, Over, vars, StoreError
<1> QED
  BY <1>1, <1>2, <1>3, <1>4, <1>5, <1>6, <1>7, <1>8, <1>9, <1>10, <1>11, <1>13
     DEF Next, Main, Worker

-----------------------------------------------------------------------------
(* Every reachable state satisfies the inductive invariant, whatever the   *)
(* tasks, their handlers, their calls and the order of the callbacks.      *)
THEOREM Inductive == Spec => []IInv
<1>1. Init => IInv
  BY InitIInv
<1>2. IInv /\ [Next]_vars => IInv'
  BY TypeStep, CounterStep, EventStep, HookStep, RoutingStep, RunningStep,
     NotStartedStep, FastPathStep, WokenStep DEF IInv
<1> QED
  BY <1>1, <1>2, PTL DEF Spec

(* FuturesDict.counter is the number of registered tasks whose callback has*)
(* not returned, in every interleaving of __setitem__ and on_done.         *)
THEOREM CounterIsExact == Spec => []CounterExact
<1>1. IInv => CounterExact
  BY DEF IInv
<1> QED
  BY <1>1, Inductive, PTL

(* FuturesDict.event is set only when nothing is pending or a fatal error  *)
(* has been counted: the main thread never goes on too early.              *)
THEOREM EventIsSound == Spec => []EventSound
<1>1. IInv => EventSound
  BY DEF IInv
<1> QED
  BY <1>1, Inductive, PTL

(* When tick returns or pauses and its time is not up, every started task  *)
(* has ended, is committed, and no error is left unhandled.                *)
THEOREM StepSettles == Spec => []EndsSettled
<1>1. IInv => EndsSettled
  BY DEF IInv, Woken, EndsSettled
<1> QED
  BY <1>1, Inductive, PTL

(***************************************************************************)
(* How a step ends.  CInv goes with IInv, in parts.                        *)
(***************************************************************************)
(* The futures not to be raised again are those of called tasks and of     *)
(* routed ones.                                                            *)
Skipped == \A t \in skip : t \in Routed \/ \E p \in Task : t \in CallsOf[p]

(* The loop begins with everything submitted, and with a waiter if there is*)
(* to be one.                                                              *)
Submitting ==
  /\ pc \notin {"start", "inline", "submit"} => todo = {}
  /\ pc \in {"inline", "handler"} => ~ HasWaiter
  /\ pc = "submit" /\ HasWaiter => waiter # "absent"

(* What runs is among the futures, and what was committed is done.         *)
Kept ==
  /\ \A t \in Task : fut[t] = "running" => t \in futures \/ (pc = "inline" /\ t \in todo)
  /\ \A t \in Task : hook[t] = "done" /\ reg[t] = "hooked" => t \in done
  /\ \A t \in Routed : fut[HandlerOf[t]] # "none" => reg[HandlerOf[t]] = "hooked"

(* A routed task that failed is still to be looked at, or its handler was  *)
(* seen to.                                                                *)
Remembered ==
  \A t \in Routed : fut[t] = "error" =>
    \/ t \in futures
    \/ pc = "handler" /\ t \in handled
    \/ HandlerOf[t] \in todo
    \/ fut[HandlerOf[t]] # "none"

Doomed == \E w \in Task \ Routed : IsFatal(w)

(* The loop is left when no routed task is in flight, or for a fatal error.*)
LookedAt ==
  /\ pc # "react" => batch = {}
  /\ \A t \in batch \cup forStop : Finished(t)
  /\ \A t \in forStop : fut[t] = "error" => t \notin Routed
  /\ pc \in {"wait", "react"} /\ HasWaiter /\ waiter = "absent" =>
       Routed \cap futures \subseteq batch
  /\ pc \in {"event", "panic"} /\ ~ late => Routed \cap futures = {} \/ Doomed

Outcome == NothingForgotten /\ RaisedHasCause

CInv == Skipped /\ Submitting /\ Kept /\ Remembered /\ LookedAt /\ Outcome

LEMMA InitCInv == Init => CInv
<1> SUFFICES ASSUME Init PROVE CInv
  OBVIOUS
<1>1. Skipped /\ Submitting /\ Kept /\ Remembered
  BY RunnerAssumption DEF Init, Skipped, Submitting, Kept, Remembered
<1>2. LookedAt /\ Outcome
  BY DEF Init, LookedAt, Outcome, NothingForgotten, RaisedHasCause
<1> QED
  BY <1>1, <1>2 DEF CInv

(* Only React of a failed routed task and _call mark a future.             *)
LEMMA SkippedStep == IInv /\ CInv /\ [Next]_vars => Skipped'
<1> SUFFICES ASSUME IInv, CInv, [Next]_vars PROVE Skipped'
  OBVIOUS
<1> USE DEF main, dict, routing, store
<1>0. Skipped
  BY DEF CInv
<1>1. ASSUME NEW t \in Task, React(t) PROVE Skipped'
  <2>1. skip' = skip \/ (t \in Routed /\ skip' = skip \cup {t})
    BY <1>1 DEF React
  <2> QED
    BY <1>0, <2>1 DEF Skipped
<1>2. ASSUME NEW p \in Task, NEW c \in Task, Call(p, c) PROVE Skipped'
  BY <1>0, <1>2 DEF Call, Skipped
<1>3. ASSUME UNCHANGED skip PROVE Skipped'
  BY <1>0, <1>3 DEF Skipped
<1>4. CASE Start \/ InlineHandler \/ Submit \/ Wait \/ Reacted \/ EventWait \/ PanicOrProceed
  BY <1>3, <1>4 DEF Start, InlineHandler, Submit, Wait, Reacted, EventWait, PanicOrProceed
<1>5. ASSUME NEW t \in Task, NEW o \in Results, InlineEnds(t, o) PROVE Skipped'
  BY <1>3, <1>5 DEF InlineEnds
<1>6. ASSUME NEW t \in Task, Worker(t) PROVE Skipped'
  BY <1>3, <1>6 DEF Worker, Register, Finish, Commit, OnDone, StoreError
<1>7. CASE TimeUp \/ WaiterFires \/ Over \/ UNCHANGED vars
  BY <1>3, <1>7 DEF TimeUp, WaiterFires, Over, vars
<1> QED
  BY <1>1, <1>2, <1>4, <1>5, <1>6, <1>7 DEF Next, Main

(* The main thread alone takes from what is to be submitted.               *)
LEMMA SubmittingStep == IInv /\ CInv /\ [Next]_vars => Submitting'
<1> SUFFICES ASSUME IInv, CInv, [Next]_vars PROVE Submitting'
  OBVIOUS
<1> USE DEF main, dict, routing, store
<1>0. Submitting
  BY DEF CInv
<1>1. CASE Start
  BY <1>0, <1>1 DEF Start, Submitting
<1>2. ASSUME NEW t \in Task, NEW o \in Results, InlineEnds(t, o) PROVE Submitting'
  <2>1. pc = "inline" /\ todo' = {} /\ pc' # "inline"
    BY <1>2 DEF InlineEnds
  <2> QED
    BY <1>0, <2>1 DEF Submitting
<1>3. CASE InlineHandler \/ Submit
  BY <1>0, <1>3 DEF InlineHandler, Submit, Submitting
<1>4. CASE Wait \/ Reacted \/ EventWait \/ PanicOrProceed
  BY <1>0, <1>4 DEF Wait, Reacted, EventWait, PanicOrProceed, Verdict, Submitting
<1>5. CASE UNCHANGED <<pc, todo>> /\ (waiter # "absent" => waiter' # "absent")
  BY <1>0, <1>5 DEF Submitting
<1>6. ASSUME NEW t \in Task, React(t) \/ Worker(t) PROVE Submitting'
  BY <1>5, <1>6 DEF React, Worker, Register, Finish, Commit, OnDone, StoreError
<1>7. ASSUME NEW p \in Task, NEW c \in Task, Call(p, c) PROVE Submitting'
  BY <1>5, <1>7 DEF Call
<1>8. CASE TimeUp \/ WaiterFires \/ Over \/ UNCHANGED vars
  BY <1>5, <1>8 DEF TimeUp, WaiterFires, Over, vars
<1> QED
  BY <1>1, <1>2, <1>3, <1>4, <1>6, <1>7, <1>8 DEF Next, Main

(* A future leaves the dict only after it has finished, and on_done is run *)
(* once for each that is registered.                                       *)
LEMMA KeptStep == IInv /\ CInv /\ [Next]_vars => Kept'
<1> SUFFICES ASSUME IInv, CInv, [Next]_vars PROVE Kept'
  OBVIOUS
<1> USE RunnerAssumption
<1> USE DEF main, dict, routing, store, Results
<1>0. Kept /\ TypeOK /\ HookOrder /\ FastPath /\ NotStarted
  BY DEF CInv, IInv
<1>1. CASE Start
  <2>1. \A t \in Task : t \in todo => t \in Initial
    BY <1>0, <1>1 DEF Start, FastPath
  <2>2. \A t \in Task : fut[t] = "none" /\ reg[t] = "no" /\ hook[t] = "no"
    BY <1>0, <1>1 DEF Start, FastPath
  <2>3. UNCHANGED <<reg, hook, done, futures>>
    BY <1>1 DEF Start
  <2>4. \A t \in Task : fut'[t] # "none" => pc' = "inline" /\ t \in todo' /\ t \in Initial
    BY <1>0, <1>1, <2>1, <2>2 DEF Start, TypeOK
  <2>5. \A t \in Routed : HandlerOf[t] \in Task /\ HandlerOf[t] \notin Initial
    OBVIOUS
  <2> QED
    BY <2>2, <2>3, <2>4, <2>5 DEF Kept
<1>2. ASSUME NEW t \in Task, NEW o \in Results, InlineEnds(t, o) PROVE Kept'
  <2>1. /\ fut' = [fut EXCEPT ![t] = o] /\ hook' = [hook EXCEPT ![t] = "done"]
        /\ UNCHANGED <<reg, futures>> /\ done \subseteq done' /\ pc = "inline"
    BY <1>2 DEF InlineEnds
  <2>2. reg[t] = "no" /\ t \in Initial /\ \A s \in todo : s = t
    BY <1>0, <1>2 DEF InlineEnds, FastPath
  <2>3. \A s \in Routed : HandlerOf[s] # t
    BY <2>2
  <2> QED
    BY <1>0, <2>1, <2>2, <2>3 DEF Kept, TypeOK
<1>3. CASE Submit
  <2>1. ASSUME NEW t \in todo, Submitted(t), futures' = futures \cup {t} PROVE Kept'
    <3>1. t \in Task /\ hook[t] = "no" /\ pc' = pc /\ pc = "submit" /\ UNCHANGED <<hook, done>>
      BY <1>3, <2>1, SubmitFacts DEF Submit, Submitted, TypeOK
    <3> QED
      BY <1>0, <2>1, <3>1 DEF Submitted, Hooked, Kept, TypeOK
  <2> QED
    BY <1>0, <1>3, <2>1 DEF Submit, Kept
<1>4. ASSUME NEW t \in Task, React(t) PROVE Kept'
  <2>1. fut[t] # "running" /\ pc = "react" /\ UNCHANGED <<pc, hook, done>>
    BY <1>4 DEF React, CInv, LookedAt, Finished
  <2>2. CASE fut[t] = "error" /\ t \in Routed
    <3>1. /\ HandlerOf[t] \in Task /\ hook[HandlerOf[t]] = "no" /\ Submitted(HandlerOf[t])
          /\ futures' = (futures \ {t}) \cup {HandlerOf[t]}
      BY <1>4, <2>2, ReactFacts DEF React
    <3> QED
      BY <1>0, <2>1, <3>1 DEF Submitted, Hooked, Kept, TypeOK
  <2>3. CASE UNCHANGED <<fut, reg>> /\ futures' = futures \ {t}
    BY <1>0, <2>1, <2>3 DEF Kept
  <2> QED
    BY <1>4, <2>2, <2>3 DEF React
<1>5. ASSUME NEW p \in Task, NEW c \in Task, Call(p, c) PROVE Kept'
  <2>1. \A s \in Routed : HandlerOf[s] # c
    BY <1>5 DEF Call
  <2> QED
    BY <1>0, <1>5, <2>1 DEF Call, Kept, TypeOK
<1>6. ASSUME NEW t \in Task, Register(t) PROVE Kept'
  <2>1. hook[t] = "no" /\ reg' = [reg EXCEPT ![t] = "hooked"]
    BY <1>0, <1>6 DEF Register, Hooked, HookOrder
  <2> QED
    BY <1>0, <1>6, <2>1 DEF Register, Kept, TypeOK
<1>7. ASSUME NEW t \in Task, Finish(t) PROVE Kept'
  <2>1. PICK o \in Results : fut' = [fut EXCEPT ![t] = o]
    BY <1>7 DEF Finish
  <2>2. fut[t] = "running" /\ UNCHANGED <<pc, todo, futures, hook, reg, done>>
    BY <1>7 DEF Finish
  <2> QED
    BY <1>0, <2>1, <2>2 DEF Kept, TypeOK
<1>8. ASSUME NEW t \in Task, Commit(t) \/ OnDone(t) PROVE Kept'
  BY <1>0, <1>8 DEF Commit, OnDone, Kept, TypeOK
<1>9. CASE UNCHANGED <<fut, futures, hook, reg, done>> /\ (pc = "inline" => UNCHANGED <<pc, todo>>)
  BY <1>0, <1>9 DEF Kept
<1>10. CASE InlineHandler \/ Wait \/ Reacted \/ EventWait \/ PanicOrProceed
  BY <1>9, <1>10 DEF InlineHandler, Wait, Reacted, EventWait, PanicOrProceed
<1>11. CASE TimeUp \/ WaiterFires \/ Over \/ UNCHANGED vars \/ \E t \in Task : StoreError(t)
  BY <1>9, <1>11 DEF TimeUp, WaiterFires, Over, vars, StoreError
<1> QED
  BY <1>1, <1>2, <1>3, <1>4, <1>5, <1>6, <1>7, <1>8, <1>10, <1>11 DEF Next, Main, Worker

(* React takes a failed routed task from the dict only as it submits its   *)
(* handler; the fast path leaves it to schedule_error_handler.             *)
LEMMA RememberedStep == IInv /\ CInv /\ [Next]_vars => Remembered'
<1> SUFFICES ASSUME IInv, CInv, [Next]_vars,
                    NEW s \in Routed, fut'[s] = "error"
             PROVE  \/ s \in futures'
                    \/ pc' = "handler" /\ s \in handled'
                    \/ HandlerOf[s] \in todo'
                    \/ fut'[HandlerOf[s]] # "none"
  BY DEF Remembered
<1> USE RunnerAssumption
<1> USE DEF main, dict, routing, store, Results
<1> DEFINE Goal == \/ s \in futures'
                   \/ pc' = "handler" /\ s \in handled'
                   \/ HandlerOf[s] \in todo'
                   \/ fut'[HandlerOf[s]] # "none"
<1>0. TypeOK /\ s \in Task /\ HandlerOf[s] \in Task \ Routed
  BY DEF IInv
<1>a. ASSUME fut[s] = "error"
      PROVE  \/ s \in futures
             \/ pc = "handler" /\ s \in handled
             \/ HandlerOf[s] \in todo
             \/ fut[HandlerOf[s]] # "none"
  BY <1>a DEF CInv, Remembered
<1>1. CASE Start
  <2>1. fut[s] = "none"
    BY <1>0, <1>1 DEF Start, IInv, FastPath
  <2> QED
    BY <1>0, <1>1, <2>1 DEF Start, TypeOK
<1>2. ASSUME NEW t \in Task, NEW o \in Results, InlineEnds(t, o) PROVE Goal
  <2>1. /\ fut' = [fut EXCEPT ![t] = o] /\ futures' = futures /\ pc = "inline"
        /\ todo \subseteq Initial /\ HandlerOf[s] \notin Initial
    BY <1>2 DEF InlineEnds, IInv, FastPath
  <2>2. CASE s = t
    <3>1. o = "error"
      BY <1>0, <2>1, <2>2 DEF TypeOK
    <3> QED
      BY <1>2, <2>2, <3>1 DEF InlineEnds
  <2>3. CASE s # t
    <3>1. fut[s] = "error"
      BY <1>0, <2>1, <2>3 DEF TypeOK
    <3>2. s \in futures \/ fut[HandlerOf[s]] # "none"
      BY <1>a, <2>1, <3>1
    <3> QED
      BY <1>0, <2>1, <3>2 DEF TypeOK
  <2> QED
    BY <2>2, <2>3
<1>3. CASE InlineHandler
  BY <1>a, <1>3 DEF InlineHandler, CInv, Submitting
<1>4. CASE Submit
  <2>1. ASSUME NEW t \in todo, Submitted(t), todo' = todo \ {t}, futures' = futures \cup {t}
        PROVE  Goal
    <3>1. /\ t \in Task /\ fut' = [fut EXCEPT ![t] = "running"] /\ pc = "submit"
      BY <1>0, <1>4, <2>1 DEF Submit, Submitted, TypeOK
    <3>2. fut[s] = "error"
      BY <1>0, <3>1 DEF TypeOK
    <3> QED
      BY <1>0, <1>a, <2>1, <3>1, <3>2 DEF TypeOK
  <2>2. CASE UNCHANGED <<todo, fut, futures>>
    BY <1>4, <1>a, <2>2 DEF Submit
  <2> QED
    BY <1>4, <2>1, <2>2 DEF Submit
<1>5. ASSUME NEW t \in Task, React(t) PROVE Goal
  <2>1. pc = "react" /\ pc' = pc /\ todo' = todo
    BY <1>5 DEF React
  <2>2. CASE fut[t] = "error" /\ t \in Routed
    <3>1. /\ fut' = [fut EXCEPT ![HandlerOf[t]] = "running"]
          /\ futures' = (futures \ {t}) \cup {HandlerOf[t]}
          /\ HandlerOf[t] \in Task \ Routed
      BY <1>5, <2>2 DEF React, Submitted
    <3>2. fut[s] = "error"
      BY <1>0, <3>1 DEF TypeOK
    <3>3. CASE s = t
      BY <1>0, <3>1, <3>3 DEF TypeOK
    <3>4. CASE s # t
      BY <1>0, <1>a, <2>1, <3>1, <3>2, <3>4 DEF TypeOK
    <3> QED
      BY <3>3, <3>4
  <2>3. CASE ~ (fut[t] = "error" /\ t \in Routed)
    <3>1. fut' = fut /\ futures' = futures \ {t}
      BY <1>5, <2>3 DEF React
    <3> QED
      BY <1>a, <2>1, <2>3, <3>1
  <2> QED
    BY <2>2, <2>3
<1>6. ASSUME NEW p \in Task, NEW c \in Task, Call(p, c) PROVE Goal
  <2>1. c \notin Routed /\ fut' = [fut EXCEPT ![c] = "running"]
        /\ futures' = futures \cup {c} /\ UNCHANGED <<pc, todo, handled>>
    BY <1>6 DEF Call
  <2>2. fut[s] = "error"
    BY <1>0, <2>1 DEF TypeOK
  <2> QED
    BY <1>0, <1>a, <2>1, <2>2 DEF TypeOK
<1>7. ASSUME NEW t \in Task, Finish(t) PROVE Goal
  <2>1. PICK o \in Results : fut' = [fut EXCEPT ![t] = o]
    BY <1>7 DEF Finish
  <2>2. fut[t] = "running" /\ ~ (pc = "inline" /\ t \in todo)
        /\ UNCHANGED <<pc, todo, futures, handled>>
    BY <1>7 DEF Finish
  <2>3. CASE s = t
    BY <2>2, <2>3 DEF CInv, Kept
  <2>4. CASE s # t
    BY <1>0, <1>a, <2>1, <2>2, <2>4 DEF TypeOK
  <2> QED
    BY <2>3, <2>4
<1>8. CASE UNCHANGED <<fut, futures, todo>> /\ handled \subseteq handled'
           /\ (pc = "handler" => pc' = pc)
  BY <1>a, <1>8
<1>9. ASSUME NEW t \in Task, Register(t) \/ Commit(t) \/ OnDone(t) \/ StoreError(t)
      PROVE  Goal
  BY <1>8, <1>9 DEF Register, Commit, OnDone, StoreError
<1>10. CASE Wait \/ Reacted \/ EventWait \/ PanicOrProceed
  BY <1>8, <1>10 DEF Wait, Reacted, EventWait, PanicOrProceed
<1>11. CASE TimeUp \/ WaiterFires \/ Over \/ UNCHANGED vars
  BY <1>8, <1>11 DEF TimeUp, WaiterFires, Over, vars
<1> QED
  BY <1>1, <1>2, <1>3, <1>4, <1>5, <1>6, <1>7, <1>9, <1>10, <1>11 DEF Next, Main, Worker

(* A fatal error of a task without a handler stays fatal, and a commit of  *)
(* it stays: nobody handles it or marks it later.                          *)
LEMMA FatalStays ==
  ASSUME IInv, CInv, [Next]_vars, NEW w \in Task \ Routed, IsFatal(w)
  PROVE  IsFatal(w)' /\ (hook[w] = "done" => hook'[w] = "done")
<1> USE RunnerAssumption
<1> USE DEF main, dict, routing, store, Results
<1>0. /\ TypeOK /\ fut[w] = "error" /\ w \notin handled /\ w \notin skip
      /\ handled \subseteq Routed
  BY DEF IInv, Routing, IsFatal
<1> DEFINE Goal == /\ fut'[w] = "error" /\ w \notin handled' /\ w \notin skip'
                   /\ (hook[w] = "done" => hook'[w] = "done")
<1> SUFFICES Goal
  BY DEF IsFatal
<1>1. ASSUME NEW t \in Task, NEW o \in Results, InlineEnds(t, o) PROVE Goal
  BY <1>0, <1>1 DEF InlineEnds, TypeOK
<1>2. CASE Submit
  <2>1. ASSUME NEW t \in todo, Submitted(t) PROVE Goal
    <3>1. t # w
      BY <1>0, <1>2, <2>1, SubmitFacts
    <3> QED
      BY <1>0, <1>2, <2>1, <3>1 DEF Submit, Submitted, TypeOK
  <2> QED
    BY <1>0, <1>2, <2>1 DEF Submit
<1>3. ASSUME NEW t \in Task, React(t) PROVE Goal
  <2>1. CASE fut[t] = "error" /\ t \in Routed
    <3>1. HandlerOf[t] # w /\ Submitted(HandlerOf[t])
      BY <1>0, <1>3, <2>1, ReactFacts
    <3> QED
      BY <1>0, <1>3, <2>1, <3>1 DEF React, Submitted, TypeOK
  <2> QED
    BY <1>0, <1>3, <2>1 DEF React
<1>4. CASE InlineHandler \/ Wait \/ Reacted \/ EventWait \/ PanicOrProceed
  BY <1>0, <1>4 DEF InlineHandler, Wait, Reacted, EventWait, PanicOrProceed
<1>5. ASSUME NEW p \in Task, NEW c \in Task, Call(p, c) PROVE Goal
  BY <1>0, <1>5 DEF Call, TypeOK
<1>6. ASSUME NEW t \in Task, Register(t) \/ Finish(t) \/ StoreError(t) PROVE Goal
  BY <1>0, <1>6 DEF Register, Finish, StoreError, TypeOK
<1>7. ASSUME NEW t \in Task, Commit(t) \/ OnDone(t) PROVE Goal
  BY <1>0, <1>7 DEF Commit, OnDone, TypeOK
<1>8. CASE TimeUp \/ WaiterFires \/ Over \/ UNCHANGED vars
  BY <1>0, <1>8 DEF TimeUp, WaiterFires, Over, vars
<1>9. ~ Start
  BY <1>0 DEF Start, IInv, FastPath
<1> QED
  BY <1>1, <1>2, <1>3, <1>4, <1>5, <1>6, <1>7, <1>8, <1>9
     DEF Next, Main, Worker

(* Nothing routed comes into flight once the loop runs, and the loop is    *)
(* left only for the reasons it has.                                       *)
LEMMA LookedAtStep == IInv /\ CInv /\ [Next]_vars => LookedAt'
<1> SUFFICES ASSUME IInv, CInv, [Next]_vars PROVE LookedAt'
  OBVIOUS
<1> USE RunnerAssumption
<1> USE DEF main, dict, routing, store, Results, Finished
<1>0. TypeOK /\ LookedAt /\ NotStarted /\ Submitting
  BY DEF IInv, CInv
<1>a. Doomed => Doomed'
  BY FatalStays DEF Doomed
<1>1. CASE Start
  BY <1>0, <1>1 DEF Start, LookedAt, IInv, FastPath, TypeOK
<1>2. ASSUME NEW t \in Task, NEW o \in Results, InlineEnds(t, o) PROVE LookedAt'
  <2>1. /\ pc' \notin {"react", "wait", "event", "panic"} /\ UNCHANGED <<batch, forStop>>
        /\ fut' = [fut EXCEPT ![t] = o] /\ fut[t] = "running" /\ pc = "inline"
    BY <1>2 DEF InlineEnds
  <2> QED
    BY <1>0, <2>1 DEF LookedAt, TypeOK
<1>3. CASE InlineHandler
  BY <1>0, <1>3 DEF InlineHandler, LookedAt
<1>4. CASE Submit
  <2>1. ASSUME NEW t \in todo, Submitted(t), pc' = pc PROVE LookedAt'
    <3>1. t \in Task /\ fut[t] = "none" /\ fut' = [fut EXCEPT ![t] = "running"]
          /\ pc = "submit" /\ UNCHANGED <<batch, forStop>>
      BY <1>4, <2>1, SubmitFacts DEF Submit, Submitted
    <3> QED
      BY <1>0, <2>1, <3>1 DEF LookedAt, TypeOK
  <2>2. CASE pc' = "wait" /\ UNCHANGED <<fut, dict>>
    BY <1>0, <1>4, <2>2 DEF Submit, LookedAt, Submitting
  <2> QED
    BY <1>4, <2>1, <2>2 DEF Submit
<1>5. CASE Wait
  <2>1. UNCHANGED <<forStop, late, fut, futures>> /\ pc = "wait"
    BY <1>5 DEF Wait
  <2>2. CASE ~ Looping /\ pc' = "event" /\ UNCHANGED <<batch, waiter>>
    BY <1>0, <2>1, <2>2 DEF Looping, LookedAt
  <2>3. CASE Looping /\ pc' = "react" /\ batch' = Ready
             /\ waiter' = CASE waiter # "fired"       -> waiter
                            [] futures \ Ready # {}   -> "waiting"
                            [] OTHER                  -> "absent"
    <3>1. \A t \in batch' : Finished(t)
      BY <2>3 DEF Ready
    <3>2. waiter' = "absent" /\ HasWaiter => Routed \cap futures \subseteq Ready
      BY <1>0, <2>1, <2>3 DEF LookedAt
    <3> QED
      BY <1>0, <2>1, <2>3, <3>1, <3>2 DEF LookedAt
  <2>4. CASE late /\ pc' = "event" /\ UNCHANGED <<batch, waiter>>
    BY <1>0, <2>1, <2>4 DEF LookedAt
  <2> QED
    BY <1>5, <2>2, <2>3, <2>4 DEF Wait
<1>6. ASSUME NEW t \in Task, React(t) PROVE LookedAt'
  <2>1. /\ pc = "react" /\ UNCHANGED <<pc, late, waiter>>
        /\ t \in batch /\ batch' = batch \ {t} /\ Finished(t)
    BY <1>0, <1>6 DEF React, LookedAt
  <2>2. CASE fut[t] = "error" /\ t \in Routed
    <3>1. /\ fut' = [fut EXCEPT ![HandlerOf[t]] = "running"]
          /\ futures' = (futures \ {t}) \cup {HandlerOf[t]}
          /\ HandlerOf[t] \in Task \ Routed /\ forStop' = forStop
          /\ fut[HandlerOf[t]] = "none"
      BY <1>6, <2>2, ReactFacts DEF React, Submitted
    <3> QED
      BY <1>0, <2>1, <3>1 DEF LookedAt, TypeOK
  <2>3. CASE ~ (fut[t] = "error" /\ t \in Routed)
    <3>1. fut' = fut /\ futures' = futures \ {t} /\ forStop' = forStop \cup {t}
      BY <1>6, <2>3 DEF React
    <3> QED
      BY <1>0, <2>1, <2>3, <3>1 DEF LookedAt
  <2> QED
    BY <2>2, <2>3
<1>7. CASE Reacted
  <2>1. ShouldStop(forStop) => Doomed
    BY <1>0 DEF ShouldStop, IsFatal, LookedAt, TypeOK, Doomed
  <2> QED
    BY <1>0, <1>7, <1>a, <2>1 DEF Reacted, LookedAt
<1>8. CASE EventWait
  BY <1>0, <1>8, <1>a DEF EventWait, LookedAt
<1>9. CASE PanicOrProceed
  <2>1. pc' \in Ended
    BY <1>9 DEF PanicOrProceed, Verdict, Ended
  <2> QED
    BY <1>0, <1>9, <2>1 DEF PanicOrProceed, LookedAt, Ended
<1>10. ASSUME NEW p \in Task, NEW c \in Task, Call(p, c) PROVE LookedAt'
  <2>1. /\ c \notin Routed /\ fut[c] = "none" /\ fut' = [fut EXCEPT ![c] = "running"]
        /\ futures' = futures \cup {c} /\ UNCHANGED <<pc, batch, forStop, late, waiter>>
    BY <1>10 DEF Call
  <2> QED
    BY <1>0, <1>a, <2>1 DEF LookedAt, TypeOK
<1>11. ASSUME NEW t \in Task, Finish(t) PROVE LookedAt'
  <2>1. PICK o \in Results : fut' = [fut EXCEPT ![t] = o]
    BY <1>11 DEF Finish
  <2>2. fut[t] = "running" /\ UNCHANGED <<pc, batch, forStop, futures, late, waiter>>
    BY <1>11 DEF Finish
  <2> QED
    BY <1>0, <1>a, <2>1, <2>2 DEF LookedAt, TypeOK
<1>12. CASE /\ UNCHANGED <<pc, batch, forStop, futures, fut>>
            /\ (late => late') /\ (waiter # "absent" => waiter' # "absent")
  BY <1>0, <1>a, <1>12 DEF LookedAt
<1>13. ASSUME NEW t \in Task, Register(t) \/ Commit(t) \/ OnDone(t) \/ StoreError(t)
      PROVE  LookedAt'
  BY <1>12, <1>13 DEF Register, Commit, OnDone, StoreError
<1>14. CASE TimeUp \/ WaiterFires \/ Over \/ UNCHANGED vars
  BY <1>12, <1>14 DEF TimeUp, WaiterFires, Over, vars
<1> QED
  BY <1>1, <1>2, <1>3, <1>4, <1>5, <1>6, <1>7, <1>8, <1>9, <1>10, <1>11, <1>13, <1>14
     DEF Next, Main, Worker

(* What the main thread makes of a step that is over.                      *)
LEMMA VerdictFacts ==
  ASSUME IInv, CInv, pc = "panic", ~ late
  PROVE  /\ Verdict = "raised" => \E t \in Task \ Routed : IsFatal(t) /\ hook[t] = "done"
         /\ Verdict = "returned" =>
              \A t \in Routed : fut[t] = "error" => fut[HandlerOf[t]] = "ok"
<1> USE RunnerAssumption
<1>0. TypeOK /\ HookOrder /\ Routing /\ Kept /\ Skipped
  BY DEF IInv, CInv
<1>1. Pending = {} \/ ShouldStop(done)
  BY DEF IInv, Woken
<1>a. \A t \in Task : IsFatal(t) /\ hook[t] = "done" => t \notin Routed
  BY <1>0 DEF IsFatal, Routing
<1>2. ShouldStop(done) => \E t \in Task \ Routed : IsFatal(t) /\ hook[t] = "done"
  BY <1>0, <1>a DEF ShouldStop, Routing, TypeOK
<1>3. ASSUME Pending = {}
      PROVE  \A t \in Task : fut[t] # "none" => Finished(t) /\ hook[t] = "done"
  <2>1. \A t \in Task : fut[t] # "running" /\ reg[t] # "in"
    BY <1>3, NoneRunning
  <2> QED
    BY <1>0, <1>3, <2>1 DEF Pending, HookOrder, TypeOK, Finished
<1>4. ASSUME Verdict = "raised"
      PROVE  \E t \in Task \ Routed : IsFatal(t) /\ hook[t] = "done"
  <2>1. PICK t \in Excepted : fut[t] = "error" /\ t \notin skip
    BY <1>4 DEF Verdict
  <2>2. t \in Task /\ IsFatal(t)
    BY <1>0, <2>1 DEF Excepted, Seen, IsFatal, TypeOK
  <2> QED
    <3>1. CASE Pending = {}
      BY <1>3, <1>a, <2>1, <2>2, <3>1
    <3> QED
      BY <1>1, <1>2, <3>1
<1>5. ASSUME Verdict = "returned", NEW t \in Routed, fut[t] = "error"
      PROVE  fut[HandlerOf[t]] = "ok"
  <2> DEFINE h == HandlerOf[t]
  <2>0. h \in Task \ Routed
    OBVIOUS
  <2>1. ~ ShouldStop(done)
    BY <1>5 DEF Verdict, Excepted, Seen, ShouldStop, IsFatal
  <2>2. \A s \in Task : fut[s] # "none" => Finished(s) /\ hook[s] = "done"
    BY <1>1, <1>3, <2>1
  <2>3. ~ Doomed
    <3> SUFFICES ASSUME NEW w \in Task \ Routed, IsFatal(w) PROVE FALSE
      BY DEF Doomed
    <3>1. hook[w] = "done" /\ w \notin done
      BY <2>1, <2>2 DEF ShouldStop, IsFatal
    <3> QED
      BY <1>0, <3>1 DEF Routing
  <2>4. Routed \cap futures = {}
    BY <2>3 DEF CInv, LookedAt
  <2>5. todo = {}
    BY DEF CInv, Submitting
  <2>6. fut[h] # "none"
    BY <1>5, <2>4, <2>5 DEF CInv, Remembered
  <2>7. h \in done
    BY <1>0, <2>0, <2>2, <2>6 DEF Kept
  <2>8. h \notin handled /\ h \notin skip
    BY <1>0, <2>0 DEF Routing, Skipped
  <2>9. fut[h] # "error"
    BY <2>0, <2>1, <2>7, <2>8 DEF ShouldStop, IsFatal
  <2>10. fut[h] # "interrupt"
    <3> SUFFICES ASSUME fut[h] = "interrupt" PROVE FALSE
      OBVIOUS
    <3>1. h \in Excepted
      BY <2>7, <2>8 DEF Excepted, Seen
    <3> QED
      BY <1>5, <3>1 DEF Verdict
  <2> QED
    BY <2>0, <2>2, <2>6, <2>9, <2>10 DEF Finished, Results
<1> QED
  BY <1>4, <1>5

(* Once tick has returned, paused or raised, what was true stays true.     *)
LEMMA OutcomeStep == IInv /\ CInv /\ [Next]_vars => Outcome'
<1> SUFFICES ASSUME IInv, CInv, [Next]_vars, ~ late'
             PROVE  NothingForgotten' /\ RaisedHasCause'
  BY DEF Outcome, NothingForgotten, RaisedHasCause
<1> USE RunnerAssumption
<1> USE DEF main, dict, routing, store, Results
<1>0. TypeOK /\ Routing /\ FastPath /\ Skipped /\ Submitting
  BY DEF IInv, CInv
<1>a. CASE pc' \notin {"returned", "interrupted", "raised"}
  BY <1>a DEF NothingForgotten, RaisedHasCause
<1>1. CASE Start
  <2>1. \A t \in Task : fut[t] = "none"
    BY <1>0, <1>1 DEF Start, FastPath
  <2>2. pc' # "inline" => fut' = fut /\ pc' # "raised"
    BY <1>1 DEF Start
  <2>3. pc' \in {"returned", "interrupted"} => todo' = {}
    BY <1>1 DEF Start
  <2> QED
    BY <1>a, <2>1, <2>2, <2>3 DEF NothingForgotten, RaisedHasCause
<1>2. ASSUME NEW t \in Task, NEW o \in Results, InlineEnds(t, o),
             pc' \in {"returned", "interrupted", "raised"}
      PROVE  NothingForgotten' /\ RaisedHasCause'
  <2>1. /\ futures = {} /\ todo' = {} /\ t \in todo
        /\ fut' = [fut EXCEPT ![t] = o] /\ hook' = [hook EXCEPT ![t] = "done"]
        /\ UNCHANGED <<handled, skip>>
    BY <1>2 DEF InlineEnds
  <2>2. /\ pc' = "returned" => o = "ok"
        /\ pc' = "raised" => o = "error"
        /\ t \notin Routed \/ o # "error"
    BY <1>2 DEF InlineEnds
  <2>3. \A u \in Task : fut[u] # "none" => u = t
    BY <1>0, <1>2, <2>1 DEF InlineEnds, FastPath
  <2>4. pc = "inline" /\ t \in Initial /\ handled = {}
    BY <1>0, <1>2 DEF InlineEnds, FastPath
  <2>5. t \in Routed \/ t \notin skip
    BY <1>0, <2>4 DEF Skipped
  <2> QED
    BY <1>0, <2>1, <2>2, <2>3, <2>4, <2>5
       DEF NothingForgotten, RaisedHasCause, IsFatal, TypeOK
<1>3. CASE PanicOrProceed
  <2>1. /\ pc = "panic" /\ ~ late /\ pc' = Verdict /\ todo' = {}
        /\ UNCHANGED <<fut, hook, handled, skip>>
    BY <1>0, <1>3 DEF PanicOrProceed, Submitting
  <2> QED
    BY <2>1, VerdictFacts DEF NothingForgotten, RaisedHasCause, IsFatal
<1>4. ASSUME pc' = pc, todo' = todo, ~ late, pc \in {"returned", "interrupted"},
             [Next]_vars
      PROVE  NothingForgotten'
  <2>1. \A t \in Task : fut[t] # "running" /\ (fut[t] # "none" => Finished(t))
    BY <1>4 DEF IInv, Woken, Settled, Finished
  <2>2. NothingForgotten
    BY <1>4 DEF CInv, Outcome
  <2>3. CASE fut' = fut
    BY <1>4, <2>2, <2>3 DEF NothingForgotten
  <2>4. ASSUME NEW t \in Task, Worker(t) PROVE fut' = fut
    BY <2>1, <2>4 DEF Worker, Register, Finish, Commit, OnDone, StoreError
  <2>5. ~ \E p, c \in Task : Call(p, c)
    BY <2>1 DEF Call
  <2>6. ~ Main
    BY <1>4 DEF Main, Start, InlineEnds, InlineHandler, Submit, Wait, React, Reacted,
                EventWait, PanicOrProceed
  <2> QED
    BY <1>4, <2>3, <2>4, <2>5, <2>6 DEF Next, TimeUp, WaiterFires, Over, vars
<1>5. ASSUME pc' = pc, pc = "raised", ~ late PROVE RaisedHasCause'
  <2>1. PICK t \in Task \ Routed : IsFatal(t) /\ hook[t] = "done"
    BY <1>5 DEF CInv, Outcome, RaisedHasCause
  <2> QED
    BY <2>1, FatalStays DEF RaisedHasCause
<1>6. CASE UNCHANGED <<pc, todo, late>>
  <2>1. CASE pc \in {"returned", "interrupted"}
    BY <1>4, <1>6, <2>1 DEF RaisedHasCause
  <2>2. CASE pc = "raised"
    BY <1>5, <1>6, <2>2 DEF NothingForgotten
  <2> QED
    BY <1>a, <1>6, <2>1, <2>2
<1>7. CASE InlineHandler \/ Submit \/ Wait \/ Reacted \/ EventWait
  BY <1>a, <1>7 DEF InlineHandler, Submit, Wait, Reacted, EventWait
<1>8. ASSUME NEW t \in Task, React(t) \/ Worker(t) \/ \E c \in Task : Call(t, c)
      PROVE  NothingForgotten' /\ RaisedHasCause'
  BY <1>6, <1>8 DEF React, Worker, Register, Finish, Commit, OnDone, StoreError, Call
<1>9. CASE WaiterFires \/ Over \/ UNCHANGED vars
  BY <1>6, <1>9 DEF WaiterFires, Over, vars
<1>10. ~ TimeUp
  BY DEF TimeUp
<1>11. ASSUME NEW t \in Task, NEW o \in Results, InlineEnds(t, o)
       PROVE  NothingForgotten' /\ RaisedHasCause'
  BY <1>a, <1>2, <1>11
<1> QED
  BY <1>1, <1>3, <1>7, <1>8, <1>9, <1>10, <1>11 DEF Next, Main

(* The invariant of how a step ends, for any tasks and any order of the    *)
(* callbacks.                                                              *)
THEOREM EndsInductive == Spec => []CInv
<1>1. IInv /\ CInv /\ [Next]_vars => CInv'
  BY SkippedStep, SubmittingStep, KeptStep, RememberedStep, LookedAtStep, OutcomeStep
     DEF CInv
<1> QED
  BY InitCInv, <1>1, Inductive, PTL DEF Spec

(* While its time is not up, the handler of each routed task that failed   *)
(* has run when tick returns, and nothing it was given is left to submit.  *)
THEOREM NothingIsForgotten == Spec => []NothingForgotten
<1>1. CInv => NothingForgotten
  BY DEF CInv, Outcome
<1> QED
  BY <1>1, EndsInductive, PTL

(* While its time is not up, tick raises only when the error of a task     *)
(* without a handler was committed: the main thread waits for the done     *)
(* callbacks, and the errors of routed tasks are known as handled before   *)
(* they are counted.                                                       *)
THEOREM RaisedForCause == Spec => []RaisedHasCause
<1>1. CInv => RaisedHasCause
  BY DEF CInv, Outcome
<1> QED
  BY <1>1, EndsInductive, PTL
=============================================================================
