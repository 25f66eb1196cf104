------------------------------ MODULE NodeRetry ------------------------------
(***************************************************************************)
(* arun_with_retry: one node task, run until an attempt succeeds, ends the *)
(* task for another reason or no retry policy allows one more.  Every      *)
(* attempt runs in a background task, raced by watchdogs for its run and   *)
(* idle timeouts; the writes it makes, also from threads, pass the guard   *)
(* of its _TimedAttemptScope.  An attempt that timed out may go on running *)
(* next to its successors, and the runner may cancel the task at any time. *)
(* One action per stretch between two awaits, and per step of a thread.    *)
(***************************************************************************)
EXTENDS Naturals, Sequences, SequencesExt

CONSTANTS
  Policies,     \* the retry policies in order: [on : errors, max : Nat]
  MaxAttempts,  \* the largest max_attempts of them, 1 without a policy
  Errors,       \* the exceptions a node may raise
  Outcomes,     \* how the node of this task may end
  Timeouts,     \* which timeouts its TimeoutPolicy sets: "run", "idle"
  RunTicks,     \* run_timeout
  IdleTicks,    \* idle_timeout
  RefreshOn,    \* TimeoutPolicy.refresh_on
  MaxSends,     \* bound: the writes of one attempt
  Cancellable   \* whether the runner cancels the task

(* "ok", "parent" (a Command for the graph the node is in), "bubble" (an   *)
(* interrupt, or a Command for a graph above), "cancel" (the node raises   *)
(* CancelledError itself), or an error.                                    *)
Endings == {"ok", "parent", "bubble", "cancel"} \cup Errors

ASSUME RetryAssumption ==
  /\ "timeout" \in Errors
  /\ Outcomes \subseteq Endings
  /\ Timeouts \subseteq {"run", "idle"} /\ Timeouts # {}
  /\ RunTicks \in Nat \ {0} /\ IdleTicks \in Nat \ {0} /\ MaxSends \in Nat
  /\ RefreshOn \in {"auto", "heartbeat"}
  /\ Cancellable \in BOOLEAN
  /\ Policies \in Seq([on : SUBSET Errors, max : Nat \ {0}])
  /\ MaxAttempts \in Nat \ {0}
  /\ \A i \in DOMAIN Policies : Policies[i].max <= MaxAttempts

Attempt == 1..MaxAttempts + 1   \* one more than there should be

VARIABLES
  pc,         \* where the coroutine is
  result,     \* how it ended
  failures,   \* its variable attempts
  n,          \* the number of the attempt it is at, node_attempt
  body,       \* what the background task of each attempt is doing
  stopped,    \* the attempts whose background task was cancelled
  active,     \* the attempts whose scope is not closed
  locked,     \* the attempts whose scope is locked by a thread that writes
  sends,      \* how many writes each attempt has tried
  writes,     \* task.writes, as the numbers of the attempts they are from
  fired,      \* the watchdogs of the attempt that have raised
  runLeft,    \* what is left of the sleep of the run watchdog
  idleLeft,   \* what is left of the sleep of the idle watchdog
  quiet,      \* the time since _last_progress
  cancelled,  \* the runner has cancelled the task
  events,     \* what the observer was told
  \* of the observer only
  kept        \* the writes of each attempt that its guard let through, of
              \* those that were not stopped for a timeout

clocks == <<runLeft, idleLeft, quiet>>
vars == <<pc, result, failures, n, body, stopped, active, locked, sends, writes,
          fired, clocks, cancelled, events, kept>>

TypeOK ==
  /\ pc \in {"start", "wait", "reap", "sleep", "done"}
  /\ result \in {"none", "ok", "bubble", "cancelled", "error"}
  /\ (result = "none") <=> (pc # "done")
  /\ failures \in 0..MaxAttempts /\ n \in 0..MaxAttempts + 1
  /\ body \in [Attempt -> {"none", "running"} \cup Endings]
  /\ stopped \cup active \cup locked \subseteq 1..n
  /\ locked \subseteq active
  /\ ToSet(writes) \subseteq 1..n
  /\ fired \subseteq Timeouts
  /\ runLeft \in 0..RunTicks /\ idleLeft \in 0..IdleTicks
  /\ quiet \in 0..IdleTicks

Init ==
  /\ pc = "start" /\ result = "none" /\ failures = 0 /\ n = 0
  /\ body = [a \in Attempt |-> "none"]
  /\ stopped = {} /\ active = {} /\ locked = {}
  /\ sends = [a \in Attempt |-> 0] /\ kept = sends
  /\ writes = <<>> /\ fired = {} /\ events = <<>> /\ cancelled = FALSE
  /\ runLeft = RunTicks /\ idleLeft = IdleTicks /\ quiet = 0

-------------------------------------------------------------------------------
(* The coroutine.                                                          *)

X_Start ==
  /\ pc = "start"
  /\ pc' = "wait" /\ n' = n + 1
  /\ body' = [body EXCEPT ![n + 1] = "running"]
  /\ active' = active \cup {n + 1}
  /\ fired' = {} /\ runLeft' = RunTicks /\ idleLeft' = IdleTicks /\ quiet' = 0
  /\ events' = Append(events, <<"start", n + 1>>)
  /\ UNCHANGED <<result, failures, stopped, locked, sends, writes, cancelled, kept>>

(* Clear the writes, tell the observer, open a scope, create the tasks of  *)
(* the node and of the watchdogs, and wait for the first of them.          *)
Start ==
  /\ pc = "start"
  /\ pc' = "wait" /\ n' = n + 1
  /\ writes' = <<>>
  /\ body' = [body EXCEPT ![n + 1] = "running"]
  /\ active' = active \cup {n + 1}
  /\ fired' = {} /\ runLeft' = RunTicks /\ idleLeft' = IdleTicks /\ quiet' = 0
  /\ events' = Append(events, <<"start", n + 1>>)
  /\ UNCHANGED <<result, failures, stopped, locked, sends, cancelled, kept>>

(* The node is done, whether a watchdog is as well or not: the watchdogs   *)
(* are cancelled and waited for.                                           *)
BodyDone ==
  /\ pc = "wait" /\ body[n] # "running"
  /\ pc' = "reap"
  /\ UNCHANGED <<result, failures, n, body, stopped, active, locked, sends, writes,
                 fired, clocks, cancelled, events, kept>>

(* What the except clauses do with an error: the first policy that covers  *)
(* it decides, and attempts counts the failures under all of them.         *)
Decides(i, e) ==
  e \in Policies[i].on /\ \A j \in 1..i - 1 : e \notin Policies[j].on

X_Retried(e) ==
  \E i \in DOMAIN Policies : Decides(i, e) /\ failures + 1 <= Policies[i].max

Retried(e) ==
  \E i \in DOMAIN Policies : Decides(i, e) /\ failures + 1 < Policies[i].max

Fail(e) ==
  /\ failures' = failures + 1
  /\ pc' = IF Retried(e) THEN "sleep" ELSE "done"
  /\ result' = IF Retried(e) THEN "none" ELSE "error"

End(r) == pc' = "done" /\ result' = r /\ UNCHANGED failures

(* _arun_with_timeout closes the scope, for which it needs the lock, and   *)
(* the observer is told before anything else happens.                      *)
Close ==
  /\ n \notin locked
  /\ active' = active \ {n}
  /\ events' = Append(events, <<"finish", n>>)

(* The node's own ending is passed on: return await bg.  A Command for     *)
(* this graph is given to the writers of the task, outside the scope; what *)
(* they raise, with or without having written, is not retried.  A          *)
(* CancelledError that the task was not sent is an error no policy covers. *)
Settle ==
  LET e == body[n] IN
  /\ pc = "reap"
  /\ Close
  /\ \/ /\ e = "parent"
        /\ writes' = Append(writes, n) /\ kept' = [kept EXCEPT ![n] = @ + 1]
     \/ UNCHANGED <<writes, kept>>
  /\ \/ e \in {"ok", "parent"} /\ End("ok")
     \/ e = "parent" /\ End("error")
     \/ e = "bubble" /\ End("bubble")
     \/ e = "cancel" /\ End(IF cancelled THEN "cancelled" ELSE "error")
     \/ e \in Errors /\ Fail(e)
  /\ UNCHANGED <<n, body, stopped, locked, sends, fired, clocks, cancelled>>

X_TimeOut ==
  /\ pc = "wait" /\ body[n] # "running" /\ fired # {}
  /\ Close
  /\ writes' = <<>>
  /\ stopped' = stopped \cup {n}
  /\ kept' = [kept EXCEPT ![n] = 0]
  /\ Fail("timeout")
  /\ UNCHANGED <<n, body, locked, sends, fired, clocks, cancelled>>

(* A watchdog is done and the node is not: the scope is closed, the writes *)
(* are dropped, the background task is cancelled but not waited for, and   *)
(* NodeTimeoutError is treated as any error.                               *)
TimeOut ==
  /\ pc = "wait" /\ body[n] = "running" /\ fired # {}
  /\ Close
  /\ writes' = <<>>
  /\ stopped' = stopped \cup {n}
  /\ kept' = [kept EXCEPT ![n] = 0]
  /\ Fail("timeout")
  /\ UNCHANGED <<n, body, locked, sends, fired, clocks, cancelled>>

(* The backoff is over.                                                    *)
Retry ==
  /\ pc = "sleep"
  /\ pc' = "start"
  /\ UNCHANGED <<result, failures, n, body, stopped, active, locked, sends, writes,
                 fired, clocks, cancelled, events, kept>>

X_Cancel ==
  /\ Cancellable /\ ~cancelled
  /\ cancelled' = TRUE
  /\ \/ /\ pc = "wait" /\ n \notin locked /\ End("cancelled")
        /\ active' = active \ {n}
        /\ stopped' = stopped \cup {n}
     \/ pc = "sleep" /\ End("cancelled") /\ UNCHANGED <<active, stopped>>
  /\ UNCHANGED <<n, body, locked, sends, writes, fired, clocks, events, kept>>

(* task.cancel() by the runner, while the coroutine waits: for the node,   *)
(* for a watchdog it has cancelled, where suppress(CancelledError) takes   *)
(* it, or for the backoff.                                                 *)
Cancel ==
  /\ Cancellable /\ ~cancelled
  /\ cancelled' = TRUE
  /\ \/ /\ pc = "wait" /\ Close /\ End("cancelled")
        /\ stopped' = stopped \cup {n}
     \/ /\ pc = "reap" /\ fired # Timeouts
        /\ UNCHANGED <<pc, result, failures, active, events, stopped>>
     \/ /\ pc = "sleep" /\ End("cancelled")
        /\ UNCHANGED <<active, events, stopped>>
  /\ UNCHANGED <<n, body, locked, sends, writes, fired, clocks, kept>>

-------------------------------------------------------------------------------
(* The node, and what an abandoned attempt of it still does.               *)

(* The node ends, or does so after bg.cancel(), when nobody asks how.      *)
Finish(a) ==
  /\ body[a] = "running"
  /\ \E e \in IF a \in stopped THEN {"cancel"} ELSE Outcomes :
        body' = [body EXCEPT ![a] = e]
  /\ UNCHANGED <<pc, result, failures, n, stopped, active, locked, sends, writes,
                 fired, clocks, cancelled, events, kept>>

(* guarded_send takes the lock and, if the scope is active, stamps the     *)
(* progress that a write is in auto mode ...                               *)
SendBegin(a) ==
  /\ body[a] # "none" /\ sends[a] < MaxSends /\ a \notin locked
  /\ sends' = [sends EXCEPT ![a] = @ + 1]
  /\ locked' = IF a \in active THEN locked \cup {a} ELSE locked
  /\ quiet' = IF a \in active /\ RefreshOn = "auto" THEN 0 ELSE quiet
  /\ UNCHANGED <<pc, result, failures, n, body, stopped, active, writes, fired,
                 runLeft, idleLeft, cancelled, events, kept>>

(* ... and then writes: the time it takes to write counts as idle.         *)
SendEnd(a) ==
  /\ a \in locked
  /\ locked' = locked \ {a}
  /\ writes' = Append(writes, a)
  /\ kept' = [kept EXCEPT ![a] = IF a \in stopped THEN @ ELSE @ + 1]
  /\ UNCHANGED <<pc, result, failures, n, body, stopped, active, sends, fired,
                 clocks, cancelled, events>>

(* touch(), without the lock: runtime.heartbeat(), and in auto mode what   *)
(* is streamed, called or reported by a callback.                          *)
Heartbeat ==
  /\ pc = "wait" /\ body[n] = "running" /\ quiet > 0
  /\ quiet' = 0
  /\ UNCHANGED <<pc, result, failures, n, body, stopped, active, locked, sends,
                 writes, fired, runLeft, idleLeft, cancelled, events, kept>>

-------------------------------------------------------------------------------
(* Time and the watchdogs.                                                 *)

Tick ==
  LET less(x) == IF x = 0 THEN 0 ELSE x - 1
      more(x) == IF x = IdleTicks THEN x ELSE x + 1
  IN
  /\ pc = "wait"
  /\ runLeft' = less(runLeft) /\ idleLeft' = less(idleLeft)
  /\ quiet' = more(quiet)
  /\ UNCHANGED <<pc, result, failures, n, body, stopped, active, locked, sends,
                 writes, fired, cancelled, events, kept>>

RunWatchdog ==
  /\ "run" \in Timeouts \ fired /\ pc = "wait" /\ runLeft = 0
  /\ fired' = fired \cup {"run"}
  /\ UNCHANGED <<pc, result, failures, n, body, stopped, active, locked, sends,
                 writes, clocks, cancelled, events, kept>>

X_IdleWatchdog ==
  /\ "idle" \in Timeouts \ fired /\ pc = "wait" /\ idleLeft = 0
  /\ n \notin locked
  /\ IF quiet >= IdleTicks
     THEN fired' = fired \cup {"idle"} /\ UNCHANGED idleLeft
     ELSE idleLeft' = IdleTicks /\ UNCHANGED fired
  /\ UNCHANGED <<pc, result, failures, n, body, stopped, active, locked, sends,
                 writes, runLeft, quiet, cancelled, events, kept>>

(* wait_for_idle_timeout: sleeps as long as the last progress it knows of  *)
(* allows, then looks again.                                               *)
IdleWatchdog ==
  /\ "idle" \in Timeouts \ fired /\ pc = "wait" /\ idleLeft = 0
  /\ n \notin locked
  /\ IF quiet >= IdleTicks
     THEN fired' = fired \cup {"idle"} /\ UNCHANGED idleLeft
     ELSE idleLeft' = IdleTicks - quiet /\ UNCHANGED fired
  /\ UNCHANGED <<pc, result, failures, n, body, stopped, active, locked, sends,
                 writes, runLeft, quiet, cancelled, events, kept>>

-------------------------------------------------------------------------------
Done == pc = "done" /\ UNCHANGED vars

Coroutine == Start \/ BodyDone \/ Settle \/ TimeOut \/ Retry

Next ==
  \/ Coroutine
  \/ Cancel
  \/ \E a \in Attempt : Finish(a) \/ SendBegin(a) \/ SendEnd(a)
  \/ Heartbeat
  \/ Tick \/ RunWatchdog \/ IdleWatchdog
  \/ Done

Spec == Init /\ [][Next]_vars

(* The event loop runs the coroutine and the watchdogs, time passes and a  *)
(* thread that holds the lock goes on.  Nothing is assumed of the node: it *)
(* need not end, nor react to its cancellation.                            *)
FairSpec ==
  /\ Spec
  /\ WF_vars(Coroutine) /\ WF_vars(Tick)
  /\ WF_vars(RunWatchdog) /\ WF_vars(IdleWatchdog)
  /\ \A a \in Attempt : WF_vars(SendEnd(a))

-------------------------------------------------------------------------------
(* What the task hands to the runner are the writes of its last attempt,   *)
(* all of those its guard let through and none of an abandoned one, and    *)
(* nothing of an attempt that timed out (writes.clear, guarded_send).      *)
OwnWritesOnly ==
  pc \in {"wait", "reap", "done"} =>
    /\ ToSet(writes) \subseteq {n}
    /\ Len(writes) = kept[n]

(* The observer sees the attempts one after the other, each started and    *)
(* finished once, the last finished when the task is.                      *)
AttemptsPaired ==
  /\ \A i \in DOMAIN events :
       events[i] = <<IF i % 2 = 1 THEN "start" ELSE "finish", (i + 1) \div 2>>
  /\ pc = "done" => Len(events) = 2 * n

(* Never more attempts than some policy allows, though the failures under  *)
(* all of them are counted together.                                       *)
AttemptsBounded == n <= MaxAttempts

(* The idle watchdog is awake, or has raised, once the attempt has gone    *)
(* idle_timeout without progress ("Maximum time a single node attempt may  *)
(* go without observable progress"), though it went to sleep by an older   *)
(* stamp and threads stamp progress while it sleeps, also in the middle of *)
(* a send.  With its guard, which lets it raise no earlier, it is on time. *)
IdleOnTime ==
  pc = "wait" /\ quiet >= IdleTicks => idleLeft = 0

(* With a run timeout the task ends, whatever the node does.               *)
Terminates == <>(pc = "done")

(* Once the runner has cancelled the task it makes no further attempt.     *)
(* This one does NOT hold: the cancellation is lost when it arrives while  *)
(* the loser of the race is drained (README, section 5).                   *)
CancelStops == [][cancelled => n' = n]_vars
===============================================================================
