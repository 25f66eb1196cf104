----------------------------- MODULE ThreadStream -----------------------------
(***************************************************************************)
(* AsyncThreadStream of the Python SDK (langgraph_sdk/_async/stream.py):   *)
(* the iterators of one thread share one event stream from the server.     *)
(* A subscription that the shared stream does not cover rotates it: a      *)
(* wider stream is opened before the old one is closed, and the server     *)
(* replays it from the cursor.  One fan-out task reads the shared stream,  *)
(* drops the events it has seen and pushes the others to the matching      *)
(* subscriptions; when the connection drops it reopens the stream.  A      *)
(* second task watches lifecycle and input events on a stream of its own.  *)
(*                                                                         *)
(* Everything runs on one event loop: an action is the code between two    *)
(* awaits.  The server's events are the positions of Script; a position is *)
(* the event's seq and its event_id.  What a stream has buffered and not   *)
(* yet handed over is not kept apart from what the server still has: a     *)
(* dropped connection hands over what arrived before the drop, a closed    *)
(* handle discards it.                                                     *)
(***************************************************************************)
EXTENDS Subscriptions, FiniteSets

CONSTANTS
  Client,       \* the application's iterators
  FilterOf,     \* [Client -> the params it subscribes with]
  Script,       \* what the run emits: [channel, namespace, kind] with kind
                \* "data", "input" (an interrupt is requested) or "done"
  Rounds,       \* how often one client may iterate (a bound)
  Attempts,     \* _shared_max_reconnect_attempts and the watcher's
  Faults,       \* of {"drop", "early", "start", "rotate", "close"}: what may
                \* fail or, with "close", cut the session short
  MaxFaults,    \* how often (a bound)
  Overlap       \* may an iterator be set up while another one is?

Seq_ == 1..Len(Script)
Lifecycle == [channels |-> {"lifecycle"}, namespaces |-> ABSENT, depth |-> ABSENT]
LifecycleInput == [Lifecycle EXCEPT !.channels = {"lifecycle", "input"}]
NoFilter == [Lifecycle EXCEPT !.channels = {}]

ASSUME StreamAssumption ==
  /\ \A c \in Client : FilterOf[c].namespaces # {}
  /\ Rounds \in Nat /\ Attempts \in Nat /\ MaxFaults \in Nat
  /\ Overlap \in BOOLEAN
  /\ Len(Script) \in Nat
  /\ \A i \in Seq_ : Script[i].kind \in {"data", "input", "done"}

VARIABLES
  emitted,       \* the server has emitted Script[1..emitted]
  answered,      \* the interrupts the server has an answer to
  streams,       \* every stream opened: [filter, at, state]; at is the last
                 \* position it has handed over or passed
  shared,        \* _shared_stream: its place in streams, 0 for None
  sharedFilter,  \* _shared_stream_filter
  cursor,        \* _cursor
  seen,          \* _seen_event_ids
  fan,           \* _fanout_task: [pc, at, await, base, tries]
  cli,           \* per client [pc, await, old, from, got, start, ended]: got is
                 \* all it was ever handed, from place start + 1 on by the
                 \* subscription it now has; ended: None is in its queue
  round,         \* per client, how often it has subscribed
  watch,         \* _lifecycle_watcher_task: [pc, at, tries]
  lcursor,       \* _lifecycle_cursor
  interrupts,    \* self.interrupts
  interrupted,   \* self.interrupted
  runDone,       \* _run_done
  gate,          \* run.start: "none", "pending" (sent), "started"
                 \* (answered) or "failed"
  asking,        \* the interrupt being answered under _interrupts_lock, or 0
  acked,         \* the highest applied_through_seq of a command response
  closing,       \* close(): "no", "begun", "over"
  faults         \* faults so far

server == <<emitted, answered>>
shares == <<streams, shared, sharedFilter, cursor, seen>>
clients == <<cli, round>>
watcher == <<watch, lcursor, interrupts, interrupted, runDone>>
commands == <<gate, asking, acked>>
vars == <<server, shares, fan, clients, watcher, commands, closing, faults>>

Closed == closing # "no"
Fault(kind) == ~Closed /\ kind \in Faults /\ faults < MaxFaults /\ faults' = faults + 1

(* ------------------------------- the server ------------------------------ *)

\* The run emits the next event; after an interrupt only once it is answered.
\* (What it emits after close() reaches nobody.)
Emit ==
  /\ ~Closed
  /\ gate = "started"
  /\ emitted < Len(Script)
  /\ emitted \in Seq_ /\ Script[emitted].kind = "input" => emitted \in answered
  /\ emitted' = emitted + 1
  /\ UNCHANGED <<answered, shares, fan, clients, watcher, commands, closing, faults>>

(* ------------------------------ one stream ------------------------------- *)

\* since is taken to be the first position that is wanted
X_Opened(filter, position) ==
  [filter |-> filter, at |-> position + 1, state |-> "connecting"]

\* open_event_stream(filter with since = position)
Opened(filter, position) ==
  [filter |-> filter, at |-> position, state |-> "connecting"]

Connect(s) ==
  /\ streams[s].state = "connecting"
  /\ streams' = [streams EXCEPT ![s].state = "open"]
  /\ UNCHANGED <<server, shared, sharedFilter, cursor, seen, fan, clients,
                 watcher, commands, closing, faults>>

\* ready is rejected and done resolved with the error (how often a reopening
\* fails is bounded by Attempts)
ConnectFails(s) ==
  /\ streams[s].state = "connecting"
  /\ \/ s \in {fan.await, watch.at} /\ ~Closed /\ UNCHANGED faults
     \/ s \notin {fan.await, watch.at} /\ Fault("rotate")
  /\ streams' = [streams EXCEPT ![s].state = "failed"]
  /\ UNCHANGED <<server, shared, sharedFilter, cursor, seen, fan, clients,
                 watcher, commands, closing>>

Matching(s) == {i \in 1..emitted : i > streams[s].at
                                   /\ matches_subscription(Script[i], streams[s].filter)}
CaughtUp(s) == Matching(s) = {}
NextOf(s) == CHOOSE i \in Matching(s) : \A j \in Matching(s) : i <= j

\* the replay of a new stream is not compared with what the old one delivered
X_Fresh(i) == TRUE

\* _dedup_iter lets event i through
Fresh(i) == i \notin seen

\* A drop is early when the fan-out has not come to the new stream of a rotation
\* yet, or the stream still owes it events that are older than the cursor.
Early(s) ==
  /\ s = shared
  /\ \/ fan.at # s
     \/ \E i \in Matching(s) : i <= cursor /\ Fresh(i)

\* the connection drops after ready: done is resolved with an error
Drop(s) ==
  /\ streams[s].state = "open"
  /\ Fault(IF Early(s) THEN "early" ELSE "drop")
  /\ streams' = [streams EXCEPT ![s].state = "dropped"]
  /\ UNCHANGED <<server, shared, sharedFilter, cursor, seen, fan, clients,
                 watcher, commands, closing>>

\* the server ends the stream once it has nothing more to say
Hangup(s) ==
  /\ streams[s].state = "open" /\ emitted = Len(Script) /\ CaughtUp(s)
  /\ streams' = [streams EXCEPT ![s].state = "eof"]
  /\ UNCHANGED <<server, shared, sharedFilter, cursor, seen, fan, clients,
                 watcher, commands, closing, faults>>

\* close() of the handles S: what they have buffered is discarded and done is
\* cancelled; a ready that is still pending never resolves
ClosedIn(strs, S) ==
  [s \in DOMAIN strs |->
     IF s \notin S \/ strs[s].state \notin {"connecting", "open"} THEN strs[s]
     ELSE [filter |-> NoFilter, at |-> 0,
           state |-> IF strs[s].state = "open" THEN "closed" ELSE "lost"]]

\* the reader's next get() returns None
Exhausted(s) == streams[s].state \in {"failed", "dropped", "eof", "closed", "lost"}
\* ready has resolved without an error
WasReady(s) == streams[s].state \in {"open", "dropped", "eof", "closed"}

(* ----------------------------- subscriptions ----------------------------- *)

Subscribed(c) == cli[c].pc \in {"gate", "ready", "iter"}
Out(got) ==
  [pc |-> "out", await |-> 0, old |-> 0, from |-> 0, start |-> 0, ended |-> FALSE, got |-> got]
Left(c) == Out(cli[c].got)

\* an iterator that is being set up is not woken
X_Signalled(clis) ==
  [c \in Client |-> IF clis[c].pc # "iter" THEN clis[c] ELSE [clis[c] EXCEPT !.ended = TRUE]]

\* _signal_paused: None into the queue of every subscription
Signalled(clis) ==
  [c \in Client |-> IF clis[c].pc = "out" THEN clis[c] ELSE [clis[c] EXCEPT !.ended = TRUE]]

\* event i into the queue of every subscription that it matches
Pushed(i) ==
  [c \in Client |->
     IF Subscribed(c) /\ ~cli[c].ended /\ matches_subscription(Script[i], FilterOf[c])
     THEN [cli[c] EXCEPT !.got = Append(@, i)] ELSE cli[c]]

(* ------------------------------ the fan-out ------------------------------ *)

\* The task returns after it has put None into every queue.
FanReturns ==
  /\ fan' = [fan EXCEPT !.pc = "over", !.await = 0]
  /\ cli' = Signalled(cli)
  /\ UNCHANGED <<streams, shared, cursor, seen>>

\* The loop's next turn reads the stream that is shared by now.
FanTurns(stream) ==
  IF Closed THEN FanReturns
  ELSE /\ fan' = [fan EXCEPT !.pc = "read", !.at = stream, !.await = 0]
       /\ shared' = stream
       /\ UNCHANGED <<streams, cursor, seen, cli>>

FanStart == fan.pc = "top" /\ FanTurns(shared)

FanRead ==
  /\ fan.pc = "read" /\ streams[fan.at].state = "open" /\ ~CaughtUp(fan.at)
  /\ LET i == NextOf(fan.at) IN
       /\ streams' = [streams EXCEPT ![fan.at].at = i]
       /\ seen' = seen \cup {i}
       /\ CASE ~Fresh(i) -> UNCHANGED <<cursor, fan, cli>>
            [] Fresh(i) /\ Closed ->
                 /\ fan' = [fan EXCEPT !.pc = IF shared = fan.at THEN "done" ELSE "over"]
                 /\ cli' = IF shared = fan.at THEN cli ELSE Signalled(cli)
                 /\ UNCHANGED cursor
            [] OTHER ->
                 /\ cursor' = IF i > cursor THEN i ELSE cursor
                 /\ cli' = IF Script[i].kind = "done" THEN Signalled(Pushed(i)) ELSE Pushed(i)
                 /\ UNCHANGED fan
  /\ UNCHANGED shared

\* one attempt of _reconnect_shared_stream, with the filter of its beginning
FanReopens(filter, attempt) ==
  IF attempt >= Attempts \/ Closed THEN FanReturns
  ELSE /\ streams' = Append(streams, Opened(filter, cursor))
       /\ fan' = [fan EXCEPT !.pc = "opening", !.await = Len(streams) + 1,
                             !.base = filter, !.tries = attempt]
       /\ UNCHANGED <<shared, cursor, seen, cli>>

\* The stream has ended: another one is shared by now, or the connection has
\* dropped and is reopened, or this is the end.
FanEnd ==
  /\ fan.pc = "read" /\ Exhausted(fan.at)
  /\ CASE shared # fan.at -> FanTurns(shared)
       [] shared = fan.at /\ streams[fan.at].state \in {"failed", "dropped"} ->
            FanReopens(sharedFilter, 0)
       [] OTHER -> FanReturns

FanReopened ==
  /\ fan.pc = "opening"
  /\ \/ WasReady(fan.await) /\ FanTurns(fan.await)
     \/ /\ streams[fan.await].state = "failed"
        /\ fan' = [fan EXCEPT !.pc = "backoff", !.await = 0]
        /\ UNCHANGED <<streams, shared, cursor, seen, cli>>

FanBackoff == fan.pc = "backoff" /\ FanReopens(fan.base, fan.tries + 1)

\* It broke out of its loop because of close() and awaits the stream's done.
FanDone == fan.pc = "done" /\ Exhausted(fan.at) /\ FanReturns

Fanout ==
  /\ FanStart \/ FanRead \/ FanEnd \/ FanReopened \/ FanBackoff \/ FanDone
  /\ UNCHANGED <<server, sharedFilter, round, watcher, commands, closing, faults>>

\* _ensure_fanout_running
Running(f) == IF f.pc \in {"none", "over", "dead"} THEN [f EXCEPT !.pc = "top"] ELSE f

(* ------------------------------- a client -------------------------------- *)

\* _reconcile_stream of client c, to its next await
Reconcile(c) ==
  LET started == [pc |-> "iter", await |-> 0, old |-> 0, from |-> cursor,
                  got |-> cli[c].got, ended |-> cli[c].ended,
                  start |-> IF cli[c].pc = "gate" THEN cli[c].start ELSE Len(cli[c].got)]
      new == Len(streams) + 1
      union == compute_union_filter(
                 {FilterOf[d] : d \in {d \in Client : Subscribed(d)} \cup {c}} \cup {Lifecycle})
  IN  \/ /\ shared # 0 /\ filter_covers(sharedFilter, FilterOf[c])
         /\ cli' = [cli EXCEPT ![c] = started]
         /\ fan' = Running(fan)
         /\ UNCHANGED <<streams, shared, sharedFilter>>
      \/ /\ shared = 0 \/ ~filter_covers(sharedFilter, FilterOf[c])
         /\ streams' = Append(streams, Opened(union, cursor))
         /\ shared' = new
         /\ sharedFilter' = union
         /\ cli' = [cli EXCEPT ![c] =
                      [started EXCEPT !.pc = "ready", !.await = new, !.old = shared]]
         /\ UNCHANGED fan

\* what the application leaves alone when Overlap is FALSE
Quiet == Overlap \/ \A c \in Client : cli[c].pc \notin {"gate", "ready"}

\* An application that sees an interrupt answers it before it iterates again.
Unanswered == interrupts \ answered

Subscribe(c) ==
  /\ cli[c].pc = "out" /\ round[c] < Rounds /\ ~Closed /\ Quiet /\ Unanswered = {}
  /\ round' = [round EXCEPT ![c] = @ + 1]
  /\ \/ /\ gate = "pending"
        /\ cli' = [cli EXCEPT ![c].pc = "gate", ![c].start = Len(cli[c].got)]
        /\ UNCHANGED <<streams, shared, sharedFilter, fan>>
     \/ gate # "pending" /\ Reconcile(c)
  /\ UNCHANGED <<server, cursor, seen, watcher, commands, closing, faults>>

\* run.start has been answered
GateOpens(c) ==
  /\ cli[c].pc = "gate" /\ gate = "started"
  /\ Reconcile(c)
  /\ UNCHANGED <<server, cursor, seen, round, watcher, commands, closing, faults>>

\* The new stream is ready: the old one is closed (by a task of its own, which
\* is taken to run at once).
Rotated(c) ==
  /\ cli[c].pc = "ready" /\ WasReady(cli[c].await)
  /\ streams' = ClosedIn(streams, {cli[c].old})
  /\ cli' = [cli EXCEPT ![c].pc = "iter", ![c].await = 0, ![c].old = 0]
  /\ fan' = Running(fan)
  /\ UNCHANGED <<server, shared, sharedFilter, cursor, seen, round, watcher,
                 commands, closing, faults>>

\* None leaves the iterator, an error of the new stream raises out of it.
Leave(c) ==
  /\ \/ cli[c].pc = "iter" /\ cli[c].ended
     \/ cli[c].pc = "ready" /\ streams[cli[c].await].state = "failed"
  /\ cli' = [cli EXCEPT ![c] = Left(c)]
  /\ UNCHANGED <<server, shares, fan, round, watcher, commands, closing, faults>>

(* ---------------------- the commands of the application ------------------- *)

\* RunModule.start: the gate is up while the command is on its way
StartRun ==
  /\ gate \in {"none", "failed"} /\ ~Closed
  /\ gate' = "pending"
  /\ UNCHANGED <<server, shares, fan, clients, watcher, asking, acked, closing, faults>>

\* the server has accepted the run and answered
StartAnswered ==
  /\ gate = "pending"
  /\ gate' = "started"
  /\ UNCHANGED <<server, shares, fan, clients, watcher, asking, acked, closing, faults>>

\* the gate rejects, and so do the iterators that wait at it
StartFails ==
  /\ gate = "pending" /\ Fault("start")
  /\ gate' = "failed"
  /\ cli' = [c \in Client |-> IF cli[c].pc = "gate" THEN Left(c) ELSE cli[c]]
  /\ UNCHANGED <<server, shares, fan, round, watcher, asking, acked, closing>>

\* RunModule.respond, once the iterators have come to an end: the snapshot of
\* the interrupts and the command are under the lock
Respond ==
  /\ asking = 0 /\ ~Closed
  /\ \A c \in Client : cli[c].pc = "out"
  /\ \E id \in Unanswered : asking' = id
  /\ UNCHANGED <<server, shares, fan, clients, watcher, gate, acked, closing, faults>>

RespondAccepted ==
  /\ asking # 0 /\ asking \notin answered
  /\ answered' = answered \cup {asking}
  /\ UNCHANGED <<emitted, shares, fan, clients, watcher, commands, closing, faults>>

\* The response says up to which event the command applies:
\* observe_applied_through_seq moves the cursor there.
RespondAnswered ==
  /\ asking # 0 /\ asking \in answered
  /\ asking' = 0
  /\ acked' = IF asking > acked THEN asking ELSE acked
  /\ cursor' = IF asking > cursor THEN asking ELSE cursor
  /\ UNCHANGED <<server, streams, shared, sharedFilter, seen, fan, clients, watcher,
                 gate, closing, faults>>

(* -------------------------- the lifecycle watcher ------------------------- *)

WatchOpens(tries) ==
  /\ streams' = Append(streams, Opened(LifecycleInput, lcursor))
  /\ watch' = [pc |-> "open", at |-> Len(streams) + 1, tries |-> tries]

WatchStarts ==
  /\ watch.pc = "open" /\ WasReady(watch.at)
  /\ watch' = [watch EXCEPT !.pc = "read"]
  /\ UNCHANGED <<streams, lcursor, interrupts, interrupted, runDone, cli>>

\* _apply_lifecycle_event, under the lock that respond() holds
WatchRead ==
  /\ watch.pc = "read" /\ streams[watch.at].state = "open" /\ ~CaughtUp(watch.at)
  /\ asking = 0
  /\ LET i == NextOf(watch.at) IN
       /\ streams' = [streams EXCEPT ![watch.at].at = i]
       /\ lcursor' = i
       /\ LET input == Script[i].kind = "input"
              done == Script[i].kind = "done"
          IN  /\ interrupts' = IF done THEN {} ELSE interrupts \cup {j \in {i} : input}
              /\ interrupted' = (input \/ (interrupted /\ ~done))
              /\ runDone' = IF done /\ runDone = "pending" THEN "completed" ELSE runDone
              /\ cli' = IF input /\ ~interrupted THEN Signalled(cli) ELSE cli
  /\ UNCHANGED watch

\* a clean end of the lifecycle stream, and a watcher that gives up, resolve
\* nothing
X_WatchEnd ==
  /\ \/ watch.pc = "open" /\ streams[watch.at].state = "failed"
     \/ watch.pc = "read" /\ Exhausted(watch.at)
  /\ LET retry == streams[watch.at].state # "eof" /\ watch.tries < Attempts IN
       watch' = IF retry THEN [watch EXCEPT !.pc = "sleep", !.tries = @ + 1]
                ELSE [watch EXCEPT !.pc = "over"]
  /\ UNCHANGED <<streams, lcursor, interrupts, interrupted, runDone, cli>>

\* Its stream has failed or ended: retried after a pause, a given number of times.
WatchEnd ==
  /\ \/ watch.pc = "open" /\ streams[watch.at].state = "failed"
     \/ watch.pc = "read" /\ Exhausted(watch.at)
  /\ LET retry == streams[watch.at].state # "eof" /\ watch.tries < Attempts IN
       /\ watch' = IF retry THEN [watch EXCEPT !.pc = "sleep", !.tries = @ + 1]
                   ELSE [watch EXCEPT !.pc = "over"]
       /\ runDone' = IF ~retry /\ runDone = "pending" THEN "errored" ELSE runDone
  /\ UNCHANGED <<streams, lcursor, interrupts, interrupted, cli>>

WatchReopens ==
  /\ watch.pc = "sleep"
  /\ WatchOpens(watch.tries)
  /\ UNCHANGED <<lcursor, interrupts, interrupted, runDone, cli>>

Watcher ==
  /\ ~Closed
  /\ WatchStarts \/ WatchRead \/ WatchEnd \/ WatchReopens
  /\ UNCHANGED <<server, shared, sharedFilter, cursor, seen, fan, round, commands,
                 closing, faults>>

(* --------------------------------- close() -------------------------------- *)

\* close() up to its first await: the watcher is cancelled
CloseBegins ==
  /\ Fault("close")
  /\ closing' = "begun"
  /\ runDone' = IF runDone = "pending" THEN "cancelled" ELSE runDone
  /\ watch' = [watch EXCEPT !.pc = "over"]
  /\ streams' = ClosedIn(streams, {watch.at})
  /\ UNCHANGED <<server, shared, sharedFilter, cursor, seen, fan, clients, lcursor,
                 interrupts, interrupted, commands>>

\* The fan-out task is cancelled where it stands, every stream is closed.
CloseEnds ==
  /\ closing = "begun"
  /\ closing' = "over"
  /\ fan' = IF fan.pc \in {"none", "over"} THEN fan ELSE [fan EXCEPT !.pc = "dead"]
  /\ streams' = ClosedIn(streams, DOMAIN streams)
  /\ UNCHANGED <<server, shared, sharedFilter, cursor, seen, clients, watcher,
                 commands, faults>>

(* ----------------------------- specification ----------------------------- *)

\* async with, and the watcher has connected
Init ==
  /\ emitted = 0 /\ answered = {}
  /\ streams = <<[Opened(LifecycleInput, 0) EXCEPT !.state = "open"]>>
  /\ shared = 0 /\ sharedFilter = NoFilter /\ cursor = 0 /\ seen = {}
  /\ fan = [pc |-> "none", at |-> 0, await |-> 0, base |-> NoFilter, tries |-> 0]
  /\ cli = [c \in Client |-> Out(<<>>)]
  /\ round = [c \in Client |-> 0]
  /\ watch = [pc |-> "read", at |-> 1, tries |-> 0]
  /\ lcursor = 0 /\ interrupts = {} /\ interrupted = FALSE /\ runDone = "pending"
  /\ gate = "none" /\ asking = 0 /\ acked = 0
  /\ closing = "no" /\ faults = 0

Streams == DOMAIN streams

Next ==
  \/ Emit
  \/ \E s \in Streams : Connect(s) \/ ConnectFails(s) \/ Drop(s) \/ Hangup(s)
  \/ Fanout
  \/ \E c \in Client : Subscribe(c) \/ GateOpens(c) \/ Rotated(c) \/ Leave(c)
  \/ StartRun \/ StartAnswered \/ StartFails
  \/ Respond \/ RespondAccepted \/ RespondAnswered
  \/ Watcher
  \/ CloseBegins \/ CloseEnds

Spec == Init /\ [][Next]_vars

\* The server goes on with the run, connects and answers; the event loop runs
\* every task that can run; the application starts a run and answers it.
\* Nothing has to fail, to end a stream, to subscribe or to close.
Fairness ==
  /\ WF_vars(Emit)
  /\ WF_vars(\E s \in Streams : Connect(s))
  /\ WF_vars(Fanout)
  /\ WF_vars(Watcher)
  /\ \A c \in Client : WF_vars(GateOpens(c) \/ Rotated(c) \/ Leave(c))
  /\ WF_vars(StartRun \/ StartAnswered
             \/ Respond \/ RespondAccepted \/ RespondAnswered)

FairSpec == Spec /\ Fairness

(* ------------------------------- properties ------------------------------ *)

Done == {i \in Seq_ : Script[i].kind = "done"}
FanStates == {"none", "top", "read", "opening", "backoff", "done", "over", "dead"}

\* The state has the shape the comments above give it (the fields that
\* AsyncThreadStream.__init__ declares).
TypeOK ==
  /\ emitted \in 0..Len(Script) /\ answered \subseteq Seq_
  /\ \A s \in Streams :
       /\ streams[s].at \in 0..Len(Script)
       /\ streams[s].state \in {"connecting", "open", "failed", "dropped", "eof",
                                "closed", "lost"}
  /\ shared \in 0..Len(streams) /\ cursor \in 0..emitted /\ lcursor \in 0..emitted
  /\ seen \subseteq 1..emitted
  /\ fan.pc \in FanStates /\ fan.at \in 0..Len(streams)
  /\ fan.pc = "opening" => fan.await \in Streams \ {shared}
  /\ \A c \in Client :
       /\ cli[c].pc \in {"out", "gate", "ready", "iter"}
       /\ cli[c].pc = "ready" => cli[c].await \in Streams
       /\ \A k \in DOMAIN cli[c].got : cli[c].got[k] \in 1..emitted
  /\ watch.pc \in {"open", "read", "sleep", "over"} /\ watch.at \in Streams
  /\ interrupts \subseteq 1..emitted /\ (interrupted <=> interrupts # {})
  /\ runDone \in {"pending", "completed", "errored", "cancelled"}
  /\ gate \in {"none", "pending", "started", "failed"}
  /\ asking \in interrupts \cup {0} \/ runDone # "pending"

\* Whatever is rotated, replayed or reconnected, and however often it iterates,
\* a client gets the events of a channel in the order of the server and none of
\* them twice (_dedup_iter: "drops any overlap").
ChannelOrder ==
  \A c \in Client : \A i, j \in DOMAIN cli[c].got :
    i < j /\ Script[cli[c].got[i]].channel = Script[cli[c].got[j]].channel
      => cli[c].got[i] < cli[c].got[j]

\* When the fan-out has read all that the shared stream has, every iterator has
\* been given all that matches it since it was set up: neither a rotation nor a
\* reconnect loses an event (_reconcile_stream: "any events buffered server-side
\* between the two opens are replayed on the new SSE").  It holds for a stream
\* that is rotated once; a second rotation may lose one (README, section 5).
Served ==
  \A c \in Client :
    /\ cli[c].pc = "iter" /\ ~cli[c].ended
    /\ fan.pc = "read" /\ fan.at = shared /\ streams[shared].filter = sharedFilter
    /\ streams[shared].state = "open" /\ CaughtUp(shared) /\ ~Closed
    => \A i \in 1..emitted :
         i > cli[c].from /\ i > acked /\ matches_subscription(Script[i], FilterOf[c])
           => \E k \in DOMAIN cli[c].got : cli[c].got[k] = i

\* An iterator that is set up before the fan-out has come to the end of the run
\* comes to an end itself, unless the application closes the stream or the
\* watcher has given up and says so (_fanout: "so projection iterators exit when
\* the run ends naturally").
RunEndReleases ==
  \A c \in Client :
    Subscribed(c) /\ Done \cap seen = {}
      ~> ~Subscribed(c) \/ Closed \/ runDone = "errored"

\* A run that was started comes to a result for thread.output, through the
\* interrupts that the application can only answer because its iterators are
\* woken (_signal_paused), connections that drop, and close().
OutputResolves == gate = "started" ~> runDone # "pending"
=============================================================================
