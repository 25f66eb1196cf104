---------------------------- MODULE PregelRunner ----------------------------
(***************************************************************************)
(* PregelRunner.tick and FuturesDict (langgraph/pregel/_runner.py): one    *)
(* superstep run on a thread pool.                                         *)
(*                                                                         *)
(* The main thread submits the tasks, waits for futures, gives a failed    *)
(* task to its error handler, stops on a fatal error, waits for the done   *)
(* callbacks and then raises, pauses or returns.  The thread of a task may *)
(* schedule further tasks through _call, and runs the callback that commits*)
(* the task.  A future is visible as finished before its callback has run: *)
(* concurrent.futures wakes the waiters first.                             *)
(***************************************************************************)
EXTENDS Naturals, FiniteSets

CONSTANTS
  Task,         \* the tasks of the step: given to tick, handlers, called
  Initial,      \* the tasks of the step: tick is given those without writes
  HandlerOf,    \* [routed tasks -> the task of their error handler]
  CallsOf,      \* [Task -> the tasks it may schedule through _call]
  Outcomes,     \* [Task -> SUBSET Results], how a task may end
  HasTimeout,   \* step_timeout is set
  HasWaiter     \* a get_waiter is given, for streaming

Results == {"ok", "error", "interrupt"}
Routed  == DOMAIN HandlerOf     \* _should_route_to_error_handler

ASSUME RunnerAssumption ==
  /\ IsFiniteSet(Task)
  /\ Initial \subseteq Task
  /\ Routed \subseteq Task /\ \A t \in Routed : HandlerOf[t] \in Task \ Routed
  /\ \A s, t \in Routed : HandlerOf[s] = HandlerOf[t] => s = t
  /\ {HandlerOf[t] : t \in Routed} \cap Initial = {}
  /\ CallsOf \in [Task -> SUBSET (Task \ (Routed \cup Initial))]
  /\ \A p \in Task : \A t \in Routed : HandlerOf[t] \notin CallsOf[p]
  /\ Outcomes \in [Task -> SUBSET Results]
  /\ HasTimeout \in BOOLEAN /\ HasWaiter \in BOOLEAN

(* Calls are nested: the path of a called task holds the path of the task  *)
(* that calls it, so among any tasks there is one that none of them calls. *)
ASSUME NestedCalls ==
  \A S \in SUBSET Task : S # {} => \E t \in S : \A p \in S : t \notin CallsOf[p]

VARIABLES
  pc,         \* the main thread
  todo,       \* tasks the main thread has still to submit
  batch,      \* finished futures of this turn of the loop, not yet looked at
  forStop,    \* done_for_stop
  late,       \* end_time has passed
  waiter,     \* the waiter future: "absent", "waiting" or "fired"
  fut,        \* [Task -> "none", "running" or a result]
  futures,    \* the keys of the FuturesDict, but for the waiter
  reg,        \* [Task -> how far __setitem__ is: "no", "in", "hooked"]
  hook,       \* [Task -> how far the commit is: "no", "committed", "done"]
  counter,    \* FuturesDict.counter
  event,      \* FuturesDict.event
  done,       \* FuturesDict.done
  handled,    \* tasks whose exception is in _handled_exception_ids
  skip,       \* tasks whose future is in SKIP_RERAISE_SET
  errPut,     \* tasks whose error write was submitted (ERROR_SOURCE_NODE)
  durable     \* those of them whose error write was performed

main     == <<pc, todo, batch, forStop>>
dict     == <<futures, reg, counter, event>>
routing  == <<handled, skip>>
store    == <<errPut, durable>>
vars == <<main, late, waiter, fut, dict, hook, done, routing, store>>

Ended == {"returned", "raised", "interrupted", "timedout"}

Finished(t) == fut[t] \in Results

(* Registered with the dict and not yet counted down.                      *)
Pending == {t \in Task : reg[t] = "hooked" /\ hook[t] # "done"}

(* _should_stop_others                                                     *)
IsFatal(t) == fut[t] = "error" /\ t \notin handled \cup skip
ShouldStop(ts) == \E t \in ts : IsFatal(t)

Init ==
  /\ pc = "start" /\ todo \in SUBSET Initial /\ batch = {} /\ forStop = {}
  /\ late = FALSE /\ waiter = "absent"
  /\ fut = [t \in Task |-> "none"]
  /\ futures = {} /\ counter = 0 /\ event = FALSE
  /\ reg = [t \in Task |-> "no"] /\ hook = [t \in Task |-> "no"]
  /\ done = {} /\ handled = {} /\ skip = {} /\ errPut = {} /\ durable = {}

-----------------------------------------------------------------------------
\* MUTANT: __setitem__ forgets to clear the event
X_Hooked(t) ==
  /\ reg' = [reg EXCEPT ![t] = "hooked"]
  /\ counter' = counter + 1
  /\ event' = event

(* FuturesDict.__setitem__ after the insertion: the lock is held for the   *)
(* event and the counter, and from then on the callback is due.            *)
Hooked(t) ==
  /\ reg' = [reg EXCEPT ![t] = "hooked"]
  /\ counter' = counter + 1
  /\ event' = FALSE

(* The main thread submits a task and registers its future.                *)
Submitted(t) ==
  /\ fut' = [fut EXCEPT ![t] = "running"]
  /\ Hooked(t)

(* Nothing to do, the fast path for a single task, or the general path.    *)
Start ==
  /\ pc = "start"
  /\ \/ /\ todo = {}
        /\ pc' = "returned"
        /\ UNCHANGED <<todo, waiter, fut>>
     \/ /\ \E t \in todo : todo = {t}
        /\ ~ HasTimeout /\ ~ HasWaiter
        /\ pc' = "inline"
        /\ fut' = [t \in Task |-> IF t \in todo THEN "running" ELSE fut[t]]
        /\ UNCHANGED <<todo, waiter>>
     \/ /\ todo # {}
        /\ (\E t \in todo : todo = {t}) => HasTimeout \/ HasWaiter
        /\ pc' = "submit"
        /\ waiter' = IF HasWaiter THEN "waiting" ELSE "absent"
        /\ UNCHANGED <<todo, fut>>
  /\ UNCHANGED <<batch, forStop, late, dict, hook, done, routing, store>>

(* A thread that is in the middle of __setitem__ for a task it called does *)
(* nothing else.                                                           *)
Calling(p) == \E c \in CallsOf[p] : reg[c] = "in"

(* The task of the fast path ends, in the main thread, which commits it.   *)
InlineEnds(t, o) ==
  /\ pc = "inline" /\ t \in todo /\ fut[t] = "running" /\ ~ Calling(t)
  /\ o \in Outcomes[t]
  /\ fut' = [fut EXCEPT ![t] = o]
  /\ hook' = [hook EXCEPT ![t] = "done"]
  /\ todo' = {}
  /\ \/ /\ o = "error" /\ t \in Routed
        /\ handled' = handled \cup {t}
        /\ errPut' = errPut \cup {t}
        /\ pc' = "handler"
        /\ UNCHANGED done
     \/ /\ o # "ok" /\ ~ (o = "error" /\ t \in Routed)
        /\ IF futures # {}
           THEN pc' = "submit" /\ done' = done \cup {t}
           ELSE pc' = (IF o = "error" THEN "raised" ELSE "interrupted") /\ UNCHANGED done
        /\ UNCHANGED <<handled, errPut>>
     \/ /\ o = "ok"
        /\ pc' = IF futures # {} THEN "submit" ELSE "returned"
        /\ UNCHANGED <<done, handled, errPut>>
  /\ UNCHANGED <<batch, forStop, late, waiter, dict, skip, durable>>

(* schedule_error_handler waits for the error writes submitted so far.     *)
HandlerMayStart == errPut \subseteq durable

InlineHandler ==
  /\ pc = "handler" /\ HandlerMayStart
  /\ todo' = {HandlerOf[t] : t \in handled}
  /\ pc' = "submit"
  /\ UNCHANGED <<batch, forStop, late, waiter, fut, dict, hook, done, routing, store>>

Submit ==
  /\ pc = "submit"
  /\ \/ \E t \in todo :
          /\ todo' = todo \ {t}
          /\ Submitted(t)
          /\ futures' = futures \cup {t}
          /\ UNCHANGED pc
     \/ /\ todo = {} /\ pc' = "wait"
        /\ UNCHANGED <<todo, fut, dict>>
  /\ UNCHANGED <<batch, forStop, late, waiter, hook, done, routing, store>>

\* MUTANT: the loop takes the last future for the waiter
X_Looping == Cardinality(futures) > 1

(* The head of the loop: len(futures) > (1 if get_waiter else 0), and      *)
(* concurrent.futures.wait(FIRST_COMPLETED).  A waiter that has fired is   *)
(* replaced while something is in flight.                                  *)
Looping == futures # {} /\ (HasWaiter /\ waiter = "absent" => Cardinality(futures) > 1)
Ready   == {t \in futures : Finished(t)}

Wait ==
  /\ pc = "wait"
  /\ \/ /\ ~ Looping
        /\ pc' = "event" /\ UNCHANGED <<batch, waiter>>
     \/ /\ Looping /\ (Ready # {} \/ waiter = "fired")
        /\ pc' = "react"
        /\ batch' = Ready
        /\ waiter' = CASE waiter # "fired"       -> waiter
                       [] futures \ Ready # {}   -> "waiting"
                       [] OTHER                  -> "absent"
     \/ /\ Looping /\ Ready = {} /\ waiter # "fired" /\ late
        /\ pc' = "event" /\ UNCHANGED <<batch, waiter>>
  /\ UNCHANGED <<todo, forStop, late, fut, dict, hook, done, routing, store>>

\* MUTANT: a future that was looked at stays among the futures
X_React(t) ==
  /\ pc = "react" /\ t \in batch
  /\ batch' = batch \ {t}
  /\ forStop' = forStop \cup {t}
  /\ UNCHANGED <<fut, dict, routing>>
  /\ UNCHANGED <<pc, todo, late, waiter, hook, done, store>>

(* One finished future: the error of a routed task starts its handler,     *)
(* anything else is left to _should_stop_others.                           *)
React(t) ==
  /\ pc = "react" /\ t \in batch
  /\ batch' = batch \ {t}
  /\ \/ /\ fut[t] = "error" /\ t \in Routed
        /\ HandlerMayStart
        /\ handled' = handled \cup {t} /\ skip' = skip \cup {t}
        /\ Submitted(HandlerOf[t])
        /\ futures' = (futures \ {t}) \cup {HandlerOf[t]}
        /\ UNCHANGED forStop
     \/ /\ ~ (fut[t] = "error" /\ t \in Routed)
        /\ futures' = futures \ {t}
        /\ forStop' = forStop \cup {t}
        /\ UNCHANGED <<fut, reg, counter, event, routing>>
  /\ UNCHANGED <<pc, todo, late, waiter, hook, done, store>>

Reacted ==
  /\ pc = "react" /\ batch = {}
  /\ pc' = IF ShouldStop(forStop) THEN "event" ELSE "wait"
  /\ forStop' = {}
  /\ UNCHANGED <<todo, batch, late, waiter, fut, dict, hook, done, routing, store>>

\* MUTANT: the done callbacks are not waited for
X_EventWait ==
  /\ pc = "event"
  /\ pc' = "panic"
  /\ UNCHANGED <<todo, batch, forStop, late, waiter, fut, dict, hook, done,
                 routing, store>>

(* futures.event.wait, until the end time if there is one.                 *)
EventWait ==
  /\ pc = "event" /\ (event \/ late)
  /\ pc' = "panic"
  /\ UNCHANGED <<todo, batch, forStop, late, waiter, fut, dict, hook, done,
                 routing, store>>

(* _panic_or_proceed.  Any exception that is not a handled one cancels what*)
(* is in flight, also one that is not raised because its future is in      *)
(* SKIP_RERAISE_SET; only what is then left in flight raises the timeout.  *)
Seen     == done \cup futures
Excepted == {t \in Seen : fut[t] \in {"error", "interrupt"} /\ t \notin handled}
Verdict ==
  CASE \E t \in Excepted : fut[t] = "error" /\ t \notin skip -> "raised"
    [] (\A t \in Excepted : fut[t] = "error" => t \in skip)
         /\ (\E t \in Excepted : fut[t] = "interrupt")        -> "interrupted"
    [] Excepted = {} /\ (\E t \in Seen : fut[t] = "running")  -> "timedout"
    [] OTHER                                                  -> "returned"

PanicOrProceed ==
  /\ pc = "panic"
  /\ pc' = Verdict
  /\ UNCHANGED <<todo, batch, forStop, late, waiter, fut, dict, hook, done,
                 routing, store>>

Main ==
  \/ Start
  \/ \E t \in Task : \E o \in Results : InlineEnds(t, o)
  \/ InlineHandler
  \/ Submit
  \/ Wait
  \/ \E t \in Task : React(t)
  \/ Reacted
  \/ EventWait
  \/ PanicOrProceed

-----------------------------------------------------------------------------
(* The threads of the tasks.                                               *)

(* _call: submit, mark the future as not to be raised again, insert it ... *)
Call(p, c) ==
  /\ fut[p] = "running" /\ c \in CallsOf[p] /\ fut[c] = "none" /\ ~ Calling(p)
  /\ fut' = [fut EXCEPT ![c] = "running"]
  /\ skip' = skip \cup {c}
  /\ futures' = futures \cup {c}
  /\ reg' = [reg EXCEPT ![c] = "in"]
  /\ UNCHANGED <<main, late, waiter, counter, event, hook, done, handled, store>>

\* MUTANT: the future of a called task is not counted
X_Register(c) ==
  /\ reg[c] = "in"
  /\ reg' = [reg EXCEPT ![c] = "hooked"]
  /\ UNCHANGED <<main, late, waiter, fut, futures, counter, event, hook, done,
                 routing, store>>

(* ... and register it.                                                    *)
Register(c) ==
  /\ reg[c] = "in"
  /\ Hooked(c)
  /\ UNCHANGED <<main, late, waiter, fut, futures, hook, done, routing, store>>

(* The body of a task ends: from here on the main thread may see it.       *)
Finish(t) ==
  /\ fut[t] = "running" /\ ~ Calling(t)
  /\ pc = "inline" => t \notin todo
  /\ \E o \in Outcomes[t] : fut' = [fut EXCEPT ![t] = o]
  /\ UNCHANGED <<main, late, waiter, dict, hook, done, routing, store>>

(* on_done, first half: commit puts the writes, of a routed task that      *)
(* failed the error and its source.                                        *)
Commit(t) ==
  /\ reg[t] = "hooked" /\ Finished(t) /\ hook[t] = "no"
  /\ hook' = [hook EXCEPT ![t] = "committed"]
  /\ \/ /\ fut[t] = "error" /\ t \in Routed
        /\ handled' = handled \cup {t} /\ errPut' = errPut \cup {t}
     \/ /\ ~ (fut[t] = "error" /\ t \in Routed)
        /\ UNCHANGED <<handled, errPut>>
  /\ UNCHANGED <<main, late, waiter, fut, dict, done, skip, durable>>

\* MUTANT: any callback sets the event
X_OnDone(t) ==
  /\ hook[t] = "committed"
  /\ hook' = [hook EXCEPT ![t] = "done"]
  /\ done' = done \cup {t}
  /\ counter' = counter - 1
  /\ event' = TRUE
  /\ UNCHANGED <<main, late, waiter, fut, futures, reg, routing, store>>

(* on_done, second half, under the lock.                                   *)
OnDone(t) ==
  /\ hook[t] = "committed"
  /\ hook' = [hook EXCEPT ![t] = "done"]
  /\ done' = done \cup {t}
  /\ counter' = counter - 1
  /\ event' = (event \/ counter' = 0 \/ ShouldStop(done'))
  /\ UNCHANGED <<main, late, waiter, fut, futures, reg, routing, store>>

(* The executor performs the put of an error write.                        *)
StoreError(t) ==
  /\ t \in errPut \ durable
  /\ durable' = durable \cup {t}
  /\ UNCHANGED <<main, late, waiter, fut, dict, hook, done, routing, errPut>>

Worker(t) == Register(t) \/ Finish(t) \/ Commit(t) \/ OnDone(t) \/ StoreError(t)

(* Time passes; something is streamed; the step is over.                   *)
TimeUp ==
  /\ HasTimeout /\ ~ late
  /\ late' = TRUE
  /\ UNCHANGED <<main, waiter, fut, dict, hook, done, routing, store>>

WaiterFires ==
  /\ waiter = "waiting"
  /\ waiter' = "fired"
  /\ UNCHANGED <<main, late, fut, dict, hook, done, routing, store>>

Over == pc \in Ended /\ UNCHANGED vars

Next ==
  \/ Main
  \/ \E p, c \in Task : Call(p, c)
  \/ \E t \in Task : Worker(t)
  \/ TimeUp
  \/ WaiterFires
  \/ Over

Spec == Init /\ [][Next]_vars

(* The main thread and the threads of the pool run, and tasks end; nothing *)
(* is assumed of calls, of the clock or of what is streamed.               *)
FairSpec == Spec /\ WF_vars(Main) /\ \A t \in Task : WF_vars(Worker(t))

(***************************************************************************)
(* Properties.                                                             *)
(***************************************************************************)
(* The types of the main thread, of the FuturesDict and of the futures.    *)
TypeOK ==
  /\ pc \in {"start", "inline", "handler", "submit", "wait", "react", "event", "panic"}
              \cup Ended
  /\ todo \subseteq Task /\ batch \subseteq Task /\ forStop \subseteq Task
  /\ late \in BOOLEAN /\ waiter \in {"absent", "waiting", "fired"}
  /\ fut \in [Task -> {"none", "running"} \cup Results]
  /\ futures \subseteq Task
  /\ reg \in [Task -> {"no", "in", "hooked"}]
  /\ hook \in [Task -> {"no", "committed", "done"}]
  /\ counter \in Nat /\ event \in BOOLEAN
  /\ done \subseteq Task /\ handled \subseteq Task /\ skip \subseteq Task
  /\ errPut \subseteq Task /\ durable \subseteq Task

(* The counter that wakes the main thread counts the registered tasks whose*)
(* commit has not returned, however registrations and callbacks interleave *)
(* (FuturesDict.__setitem__ and on_done).                                  *)
CounterExact == counter = Cardinality(Pending)

(* When the event is set, nothing is pending or a fatal error is known: the*)
(* main thread is not woken while tasks are still to commit.               *)
EventSound == event => Pending = {} \/ ShouldStop(done)

(* When tick returns, or pauses, before its time is up, every task that    *)
(* was started has ended and has been committed, and none has an error     *)
(* that nobody handles: what after_tick is about to apply is complete      *)
(* (_panic_or_proceed).                                                    *)
Settled(t) == Finished(t) /\ hook[t] = "done" /\ ~ IsFatal(t)
EndsSettled ==
  pc \in {"returned", "interrupted"} /\ ~ late =>
    \A t \in Task : fut[t] # "none" => Settled(t)

(* When tick returns before its time is up, the handler of each routed task*)
(* that failed has run, and when it returns or pauses no task it was given *)
(* is left to submit.                                                      *)
NothingForgotten ==
  ~ late =>
    /\ pc = "returned" => \A t \in Routed : fut[t] = "error" => fut[HandlerOf[t]] = "ok"
    /\ pc \in {"returned", "interrupted"} => todo = {}

(* Tick raises before its time is up only when the error of a task without *)
(* an error handler was committed: the failure of a node that has a handler*)
(* never ends the step by itself, in whatever order the main thread and the*)
(* callbacks come to know of it, and a later invocation finds an error of  *)
(* the step among the pending writes ("wait for done callbacks").  It does *)
(* not say that this is the error that is raised.                          *)
RaisedHasCause ==
  pc = "raised" /\ ~ late =>
    \E t \in Task \ Routed : IsFatal(t) /\ hook[t] = "done"

(* The error that is raised was committed itself.  This one does NOT hold: *)
(* _panic_or_proceed takes any of the fatal errors that are done, also one *)
(* whose callback is still to run, and of a routed task, whose handler then*)
(* does not start (README, section 5).                                     *)
RaisedIsCommitted ==
  pc = "panic" /\ ~ late => \A t \in Excepted : IsFatal(t) => hook[t] = "done"

(* An error handler starts when the error of its node is durable: "ensure  *)
(* error + ERROR_SOURCE_NODE writes are durable before handler runs"       *)
(* (_loop.py:1579).  This one does NOT hold: the future of the task is     *)
(* done before its callback commits it (README, section 5).                *)
HandlerAfterDurable ==
  \A t \in Routed : fut[HandlerOf[t]] # "none" => t \in durable

(* The inductive invariant behind CounterExact, EventSound and EndsSettled *)
(* (module PregelRunner_proofs), in parts.                                 *)

\* a commit is for a registered, finished task; the fast path commits by itself
HookOrder ==
  \A t \in Task : /\ hook[t] # "no" => Finished(t)
                  /\ hook[t] = "committed" => reg[t] = "hooked"
                  /\ reg[t] = "in" => hook[t] = "no"
                  /\ reg[t] # "no" => fut[t] # "none"
                  /\ t \in futures => reg[t] # "no"
                  /\ Finished(t) /\ reg[t] = "no" => hook[t] = "done"

\* the errors of routed tasks are known as handled before they are counted
Routing ==
  /\ handled \subseteq Routed
  /\ \A t \in Routed : fut[t] = "error" /\ hook[t] # "no" => t \in handled
  /\ \A t \in done : hook[t] = "done"
  /\ \A t \in Task : hook[t] = "done" /\ t \notin done /\ pc # "raised" => ~ IsFatal(t)

\* who runs is registered, is being registered, or is the fast path; and who
\* registers a task is running
Running ==
  /\ \A t \in Task : fut[t] = "running" =>
       reg[t] # "no" \/ (pc = "inline" /\ t \in todo)
  /\ \A c \in Task : reg[c] = "in" =>
       \E p \in Task : c \in CallsOf[p] /\ fut[p] = "running"

\* handlers and tasks to submit have not been started
NotStarted ==
  /\ \A t \in Routed : /\ fut[t] \in {"none", "running"} => fut[HandlerOf[t]] = "none"
                       /\ t \in futures => fut[HandlerOf[t]] = "none"
  /\ batch \subseteq futures
  /\ pc \in {"start", "submit"} =>
       \A t \in todo : /\ fut[t] = "none"
                       /\ t \in Initial \cup {HandlerOf[s] : s \in Routed}
  /\ pc = "submit" => \A t \in Routed : HandlerOf[t] \in todo =>
                        t \notin futures /\ Finished(t)

\* where the fast path is
FastPath ==
  /\ pc = "start" => \A t \in Task : fut[t] = "none" /\ reg[t] = "no" /\ hook[t] = "no"
  /\ pc \in {"start", "inline"} => todo \subseteq Initial /\ handled = {}
  /\ pc = "inline" => \A s, t \in todo : s = t
  /\ pc \in {"start", "inline"} => \A t \in Initial : reg[t] = "no"
  /\ pc \in {"start", "inline", "handler"} => \A t \in Routed : reg[t] = "no"
  /\ pc \in {"start", "inline"} => \A t \in Task : fut[t] # "none" => t \in futures \cup todo
  /\ pc = "handler" => \A t \in handled : /\ fut[HandlerOf[t]] = "none"
                                          /\ t \notin futures /\ Finished(t)

\* once the event let the main thread pass
Woken ==
  /\ pc = "panic" /\ ~ late => Pending = {} \/ ShouldStop(done)
  /\ pc \in {"returned", "interrupted"} /\ ~ late =>
       \A t \in Task : fut[t] # "none" => Settled(t)

IInv ==
  /\ TypeOK /\ CounterExact /\ EventSound
  /\ HookOrder /\ Routing /\ Running /\ NotStarted /\ FastPath /\ Woken

(* Whatever the order of callbacks and wake-ups, tick comes to an end.     *)
Terminates == <>(pc \in Ended)
=============================================================================
