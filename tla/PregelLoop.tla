----------------------------- MODULE PregelLoop -----------------------------
(***************************************************************************)
(* One thread of a checkpointed graph: PregelLoop (pregel/_loop.py) driven *)
(* by Pregel.stream (pregel/main.py), the checkpointer it saves to, and the*)
(* executor that performs the saves in the background.                     *)
(*                                                                         *)
(* An invocation loads the latest checkpoint, maps its input, and iterates *)
(* supersteps: prepare tasks, run them, apply their writes, save.  It may  *)
(* fail, pause, be drained or reach its step limit, and the whole process  *)
(* may crash between any two steps; a later invocation picks up from what  *)
(* is stored.  put_writes runs here without interference from another      *)
(* put_writes, as it does on an event loop.                                *)
(***************************************************************************)
EXTENDS PregelAlgo, Integers

CONSTANTS
  START,            \* the input channel
  Outputs,          \* [node -> what a run of it may write, see Resolve]
  Partial,          \* [node -> what it may have written when it raises];
                    \*   the empty set for a node that does not fail
  Requests,         \* what clients send, a subset of RequestKinds
  COMMAND,          \* the channel Command(update=...) writes to
  LOG,              \* a reducer that every node writes to: what the
                    \*   properties read to tell which runs took effect
  Durabilities,     \* the durability an invocation may ask for, a subset of
                    \*   {"sync", "async", "exit"}
  INTERRUPT_BEFORE, \* nodes to pause before
  INTERRUPT_AFTER,  \* nodes to pause after
  RECURSION_LIMIT,  \* config["recursion_limit"]
  MayDrain,         \* whether RunControl.request_drain may be called
  MaxInvocations,   \* bound on the number of invocations
  MaxCrashes        \* bound on the number of crashes

(* invoke(x), invoke(None), invoke(Command(update=x)) and                  *)
(* invoke(Command(resume=r, update=x)).                                    *)
RequestKinds == {"input", "resume", "update", "answer"}

ASSUME LoopAssumption ==
  /\ START \in Chan \ {TASKS} /\ {COMMAND, LOG} \subseteq {c \in Chan : Kind[c] = "BinOp"}
  /\ \A c \in Chan : Kind[c] # "Delta"
  /\ \A n \in Node : Outputs[n] # {}
  /\ \A n \in Node : \A out \in Outputs[n] \cup Partial[n] :
       out \in Seq(ToSet(out)) /\ \A i \in DOMAIN out : out[i].chan \in Chan
  /\ LOG \notin {START, COMMAND}
  /\ "NULL" \notin Node
  /\ Requests \subseteq RequestKinds
  /\ Durabilities \subseteq {"sync", "async", "exit"}
  /\ RECURSION_LIMIT \in Nat \ {0} /\ MaxInvocations \in Nat /\ MaxCrashes \in Nat
  /\ MayDrain \in BOOLEAN

VARIABLES
  ckpts,    \* stored checkpoints: [ids -> checkpoint records]
  stored,   \* stored pending writes: [keys [ck, id, idx] -> writes]
  pc,       \* where the process is: "idle" when no invocation runs
  status,   \* PregelLoop.status, and "error" when an exception ended the loop
  ck,       \* self.checkpoint: [id, ver, seen]
  chans,    \* self.channels
  updated,  \* self.updated_channels, {} also for None
  tasks,    \* self.tasks, as a sequence in the order they are applied
  pend,     \* self.checkpoint_pending_writes: [task ids -> sequences of writes]
  step,     \* self.step
  stop,     \* self.stop
  source,   \* self.checkpoint_metadata["source"]
  cfg,      \* the checkpoint id in self.checkpoint_config, 0 for none
  savedId,  \* self.checkpoint_id_saved
  durability, \* self.durability, "none" when no invocation runs
  draining, \* self.control.drain_requested
  saves,    \* checkpoint saves submitted and not performed, in order
  puts,     \* put_writes calls submitted and not performed, in any order
  nextId, invocations, crashes,   \* bounded counters
  made,     \* observer: what each checkpoint held when it was created
  ran       \* observer: ids of the tasks that ran to completion

storage    == <<ckpts, stored>>
loop       == <<ck, chans, updated, tasks, pend, step, stop, source, cfg, savedId,
                durability>>
background == <<saves, puts>>
counters   == <<nextId, invocations, crashes>>
observers  == <<made, ran>>
vars == <<storage, pc, status, loop, draining, background, counters, observers>>

-----------------------------------------------------------------------------
(* Helpers.                                                                *)
With(f, k, v) == [x \in DOMAIN f \cup {k} |-> IF x = k THEN v ELSE f[x]]
NoSeen    == [n \in {} |-> NullVersions]
NullTask  == [ck |-> 0, name |-> "NULL", idx |-> 0]
Write(c, v) == [chan |-> c, val |-> v]

EmptyCheckpoint == [id |-> 0, parent |-> 0, step |-> -2, source |-> "none",
                    ver |-> NullVersions, seen |-> NoSeen, updated |-> {},
                    vals |-> [c \in Chan |-> {}]]

Latest == IF DOMAIN ckpts = {} THEN EmptyCheckpoint ELSE ckpts[Max(DOMAIN ckpts)]

(* channels_from_checkpoint *)
Restored(vals) == [c \in Chan |-> FromCheckpoint(c, vals[c])]

(* The channel_values of create_checkpoint: only channels with a version.  *)
Snapshot(chs, ver) == [c \in Chan |-> IF ver[c] > 0 THEN Checkpoint(c, chs[c]) ELSE {}]

(* The writes of a run: Outputs name channels, and this fills in what is   *)
(* written: the name of a node to TASKS, the task's own name to a barrier, *)
(* and to any other channel the id of the task, which no other run shares. *)
Resolve(id, out) ==
  [i \in DOMAIN out |-> Write(out[i].chan,
     CASE out[i].chan = TASKS                 -> out[i].to
       [] Kind[out[i].chan] \in Barriers      -> id.name
       [] OTHER                               -> id)]

(* WRITES_IDX_MAP: control channels have one slot per task, other writes   *)
(* the slot of their position.                                             *)
Slot(w, i) == CASE w.chan = "ERROR"   -> -1
                [] w.chan = INTERRUPT -> -3
                [] w.chan = "RESUME"  -> -4
                [] OTHER              -> i

(* Slots in their order, from that of RESUME to the last that is taken.    *)
Ascending(slots) ==
  Selected([i \in 1 .. 5 + Max((slots \cap Nat) \cup {0}) |-> i - 5], slots)

(* BaseCheckpointSaver.put_writes: a slot that is taken keeps its write,   *)
(* except that of a control channel.                                       *)
PutWrites(st, ckid, id, ws) ==
  LET key(i) == [ck |-> ckid, id |-> id, idx |-> Slot(ws[i], i)]
      new    == {key(i) : i \in DOMAIN ws}
  IN  [k \in DOMAIN st \cup new |->
         IF k \in DOMAIN st /\ (k \notin new \/ k.idx >= 0) THEN st[k]
         ELSE ws[Max({i \in DOMAIN ws : key(i) = k})]]

\* MUTANT: the writes of a Command are not loaded
X_PendingWrites(ckid) ==
  LET keys == {k \in DOMAIN stored : k.ck = ckid /\ k.id # NullTask}
      slots(id) == Ascending({k.idx : k \in {x \in keys : x.id = id}})
  IN  [id \in {k.id : k \in keys} |->
         [i \in DOMAIN slots(id) |->
            stored[[ck |-> ckid, id |-> id, idx |-> slots(id)[i]]]]]

(* The pending writes of a checkpoint tuple: per task, ordered by slot.    *)
PendingWrites(ckid) ==
  LET keys == {k \in DOMAIN stored : k.ck = ckid}
      slots(id) == Ascending({k.idx : k \in {x \in keys : x.id = id}})
  IN  [id \in {k.id : k \in keys} |->
         [i \in DOMAIN slots(id) |->
            stored[[ck |-> ckid, id |-> id, idx |-> slots(id)[i]]]]]

PendOf(id) == IF id \in DOMAIN pend THEN pend[id] ELSE <<>>

IsData(w) == w.chan \notin ControlChan

\* MUTANT: what a previous invocation left is not looked up
X_Reapplied(t) == t

(* _reapply_writes_to_succeeded_nodes, which passes over ERROR, INTERRUPT  *)
(* and RESUME (and not over the NO_WRITES marker).                         *)
Reapplied(t) ==
  [t EXCEPT !.writes = LET ws == PendOf(t.id)
                       IN  Selected(ws, {w \in ToSet(ws) :
                                           w.chan \notin {"ERROR", INTERRUPT, "RESUME"}})]

(* A checkpoint that waits in the queue still holds the sets and lists that*)
(* the channels update in place: apply_writes goes on changing it until the*)
(* channel lets go of its object (consume) or the save serialises it.      *)
Shared(ver) == {c \in Chan : ver[c] > 0 /\ SharedWithCheckpoint(c)}
Touched(queue, consumed, new) ==
  [q \in DOMAIN queue |->
     LET live == queue[q].shared \ consumed
     IN  [queue[q] EXCEPT
            !.shared = live,
            !.vals = [c \in Chan |-> IF c \in live
                                     THEN {[s EXCEPT !.vals = new[c].vals] : s \in @[c]}
                                     ELSE @[c]]]]
ConsumedBy(ts, chs) ==
  {c \in UNION {TriggersOf[ts[k].id.name] : k \in {j \in DOMAIN ts : ~ IsPush(ts[j])}} :
     Consumes(c, chs[c])}

(* The id that stands for what a client sends in its invocation.           *)
ClientId(n) == [ck |-> n, name |-> "client", idx |-> 0]

CommandWrites(req, n) ==
  CASE req = "update" -> <<Write(COMMAND, ClientId(n))>>
    [] req = "answer" -> <<Write("RESUME", ClientId(n)), Write(COMMAND, ClientId(n))>>
    [] OTHER          -> <<>>

(* The checkpoint record of the loop's present state.                      *)
Record(id, ver, seen, upd, chs, s, src, parent) ==
  [id |-> id, parent |-> parent, step |-> s, source |-> src, ver |-> ver,
   seen |-> seen, updated |-> upd, vals |-> Snapshot(chs, ver)]

Unsaved(rec) == With(rec, "shared", Shared(rec.ver))
StoredForm(entry) == [f \in DOMAIN entry \ {"shared"} |-> entry[f]]

Forget ==
  /\ ck' = [id |-> 0, ver |-> NullVersions, seen |-> NoSeen]
  /\ chans' = [c \in Chan |-> Fresh(c)]
  /\ updated' = {} /\ tasks' = <<>> /\ pend' = [i \in {} |-> <<>>]
  /\ step' = 0 /\ stop' = 0 /\ source' = "none" /\ cfg' = 0 /\ savedId' = 0
  /\ durability' = "none"
  /\ draining' = FALSE
  /\ saves' = <<>> /\ puts' = {}

Init ==
  /\ ckpts = [i \in {} |-> EmptyCheckpoint] /\ stored = [i \in {} |-> <<>>]
  /\ pc = "idle" /\ status = "none"
  /\ ck = [id |-> 0, ver |-> NullVersions, seen |-> NoSeen]
  /\ chans = [c \in Chan |-> Fresh(c)]
  /\ updated = {} /\ tasks = <<>> /\ pend = [i \in {} |-> <<>>]
  /\ step = 0 /\ stop = 0 /\ source = "none" /\ cfg = 0 /\ savedId = 0
  /\ durability = "none"
  /\ draining = FALSE /\ saves = <<>> /\ puts = {}
  /\ nextId = 1 /\ invocations = 0 /\ crashes = 0
  /\ made = [i \in {} |-> EmptyCheckpoint] /\ ran = {}

-----------------------------------------------------------------------------
(* Leaving the while loop of Pregel.stream with a status.                  *)
Leave(st) == pc' = "exit" /\ status' = st

(* put_writes for a task: the pending writes in memory, and the submitted  *)
(* call of the saver.                                                      *)
SubmitPut(id, ws) ==
  puts' = IF durability = "exit" THEN puts
          ELSE puts \cup {[ck |-> ck.id, id |-> id, writes |-> ws]}

\* MUTANT: a checkpoint is made under the id of the next one
X_PutCheckpoint(src, r, queue, s, prev, parent) ==
  LET rec == Record(nextId, r.ver, r.seen, r.updated, r.chans, s, src, parent)
  IN  /\ ck' = [id |-> nextId, ver |-> r.ver, seen |-> r.seen]
      /\ nextId' = nextId
      /\ source' = src
      /\ step' = s + 1
      /\ made' = With(made, nextId, [rec EXCEPT !.parent = prev])
      /\ cfg' = nextId /\ saves' = Append(queue, Unsaved(rec))

(* _put_checkpoint of a step: a new id, saved in the background under the  *)
(* previous one unless durability is "exit".                               *)
PutCheckpoint(src, r, queue, s, prev, parent) ==
  LET rec == Record(nextId, r.ver, r.seen, r.updated, r.chans, s, src, parent)
  IN  /\ ck' = [id |-> nextId, ver |-> r.ver, seen |-> r.seen]
      /\ nextId' = nextId + 1
      /\ source' = src
      /\ step' = s + 1
      /\ made' = With(made, nextId, [rec EXCEPT !.parent = prev])
      /\ IF durability' = "exit"
         THEN cfg' = parent /\ saves' = queue
         ELSE cfg' = nextId /\ saves' = Append(queue, Unsaved(rec))

(* __enter__ and _first: load the latest checkpoint, turn a Command into   *)
(* writes of the NULL task, apply these, then either go past the checkpoint*)
(* (resume) or drop its unfinished tasks and apply the input.              *)
Invoke(req, d) ==
  LET base   == Latest
      loaded == PendingWrites(base.id)
      cmd    == CommandWrites(req, invocations + 1)
      old    == IF NullTask \in DOMAIN loaded THEN loaded[NullTask] ELSE <<>>
      null   == IF cmd = <<>> THEN old ELSE Selected(old, {w \in ToSet(old) : IsData(w)}) \o cmd
      ck0    == [id |-> base.id, ver |-> base.ver, seen |-> base.seen]
      chans0 == Restored(base.vals)
      none   == [ver |-> ck0.ver, seen |-> ck0.seen, chans |-> chans0, updated |-> {}]
      r      == IF null = <<>> THEN none ELSE ApplyWrites(ck0, chans0, <<>>, null)
      upd    == IF base.updated = {} THEN {} ELSE base.updated \cup r.updated
  IN  /\ pc = "idle" /\ invocations < MaxInvocations
      /\ req # "input" => base.ver # NullVersions
      /\ pc' = "tick" /\ status' = "pending"
      /\ pend' = IF cmd = <<>> THEN loaded ELSE With(loaded, NullTask, null)
      /\ puts' = IF cmd = <<>> \/ d = "exit" THEN {}
                 ELSE {[ck |-> base.id, id |-> NullTask, writes |-> null]}
      /\ stop' = base.step + RECURSION_LIMIT + 2
      /\ savedId' = base.id /\ durability' = d
      /\ tasks' = <<>> /\ draining' = FALSE
      /\ invocations' = invocations + 1
      /\ \/ /\ req # "input"
            /\ ck' = [id |-> base.id, ver |-> r.ver,
                      seen |-> With(r.seen, INTERRUPT, r.ver)]
            /\ chans' = r.chans /\ updated' = upd
            /\ step' = base.step + 1 /\ source' = base.source
            /\ cfg' = base.id
            /\ saves' = <<>>
            /\ UNCHANGED <<nextId, made>>
         \/ /\ req = "input"
            /\ LET ck1     == [ck0 EXCEPT !.ver = r.ver, !.seen = r.seen]
                   discard == PrepareNextTasks(ck1, r.chans, {})
                   i       == ApplyWrites(ck1, r.chans, discard,
                                <<Write(START, ClientId(invocations + 1))>>)
               IN  /\ chans' = i.chans /\ updated' = i.updated
                   /\ PutCheckpoint("input", i, <<>>, base.step + 1, base.id, base.id)
      /\ UNCHANGED <<storage, crashes, ran>>

(* tick: the step limit, the tasks of the step, the end, a drain request,  *)
(* the writes a previous invocation left, a pause before a node.           *)
Tick ==
  LET ready   == PrepareNextTasks(ck, chans, updated)
      resumed == [k \in DOMAIN ready |-> Reapplied(ready[k])]
  IN  /\ pc = "tick"
      /\ \/ /\ step > stop
            /\ Leave("out_of_steps") /\ UNCHANGED tasks
         \/ /\ step <= stop /\ ready = <<>>
            /\ Leave("done") /\ tasks' = ready
         \/ /\ step <= stop /\ ready # <<>> /\ draining
            /\ Leave("draining") /\ tasks' = ready
         \/ /\ step <= stop /\ ready # <<>> /\ ~ draining
            /\ tasks' = resumed
            /\ IF ShouldInterrupt(ck, INTERRUPT_BEFORE, ready)
               THEN Leave("interrupt_before")
               ELSE pc' = "run" /\ UNCHANGED status
      /\ UNCHANGED <<storage, ck, chans, updated, pend, step, stop, source, cfg,
                     savedId, durability, draining, background, counters, observers>>

Failed(t) == \E i \in DOMAIN t.writes : t.writes[i].chan = "ERROR"

\* MUTANT: an exception is raised only when no task succeeds
X_CanPanic == pc = "run" /\ \A k \in DOMAIN tasks : Failed(tasks[k])

(* What the runner does with the tasks: run those without writes, raise    *)
(* when one has failed, return when all have finished.                     *)
CanRun(k)  == pc = "run" /\ tasks[k].writes = <<>>
CanPanic   == pc = "run" /\ \E k \in DOMAIN tasks : Failed(tasks[k])
CanProceed == pc = "run" /\ \A k \in DOMAIN tasks : /\ tasks[k].writes # <<>>
                                                    /\ ~ Failed(tasks[k])

(* A task runs, and commit puts what it wrote.                             *)
Commit(k, ws) ==
  /\ CanRun(k)
  /\ tasks' = [tasks EXCEPT ![k].writes = ws]
  /\ pend' = With(pend, tasks[k].id, ws)
  /\ SubmitPut(tasks[k].id, ws)
  /\ UNCHANGED <<storage, pc, status, ck, chans, updated, step, stop, source, cfg,
                 savedId, durability, draining, saves, counters, made>>

RunTask(k) ==
  \E out \in Outputs[tasks[k].id.name] :
    /\ Commit(k, IF out = <<>> THEN <<Write("NO_WRITES", NullTask)>>
                 ELSE Resolve(tasks[k].id, out))
    /\ ran' = ran \cup {tasks[k].id}

\* MUTANT: a task that fails keeps all of its writes
X_FailTask(k) ==
  \E out \in Outputs[tasks[k].id.name] :
    /\ Commit(k, Append(Resolve(tasks[k].id, out), Write("ERROR", NullTask)))
    /\ UNCHANGED ran

FailTask(k) ==
  \E out \in Partial[tasks[k].id.name] :
    /\ Commit(k, Append(Resolve(tasks[k].id, out), Write("ERROR", NullTask)))
    /\ UNCHANGED ran

(* _panic_or_proceed raises the exception of a failed task, whichever other*)
(* tasks have finished by then.                                            *)
Panic ==
  /\ CanPanic
  /\ Leave("error")
  /\ UNCHANGED <<storage, loop, draining, background, counters, observers>>

(* after_tick: apply the writes of the step, checkpoint, pause after a node*)
(* or wait for the save ("sync") and go on.  When a channel rejects its    *)
(* writes the exception leaves the step half applied in memory.            *)
AfterTick ==
  LET r     == ApplyWrites(ck, chans, tasks, <<>>)
      queue == Touched(saves, ConsumedBy(tasks, chans), r.chans)
  IN  /\ CanProceed
      /\ UNCHANGED durability
      /\ chans' = r.chans
      /\ \/ /\ r.invalid
            /\ ck' = [ck EXCEPT !.ver = r.ver, !.seen = r.seen]
            /\ saves' = queue
            /\ Leave("error")
            /\ UNCHANGED <<updated, pend, step, source, cfg, nextId, made>>
         \/ /\ ~ r.invalid
            /\ updated' = r.updated /\ pend' = [i \in {} |-> <<>>]
            /\ PutCheckpoint("loop", r, queue, step, ck.id, cfg)
            /\ IF ShouldInterrupt(ck', INTERRUPT_AFTER, tasks)
               THEN Leave("interrupt_after")
               ELSE /\ pc' = IF durability = "sync" THEN "flush" ELSE "tick"
                    /\ UNCHANGED status
      /\ UNCHANGED <<storage, tasks, stop, savedId, draining, puts, invocations, crashes,
                     ran>>

(* loop._put_checkpoint_fut.result(), which waits for all earlier saves.   *)
CanGoOn == pc = "flush" /\ saves = <<>>
Flushed ==
  /\ CanGoOn
  /\ pc' = "tick"
  /\ UNCHANGED <<storage, status, loop, draining, background, counters, observers>>

-----------------------------------------------------------------------------
\* MUTANT: saves do not wait for the previous one
X_SaveCheckpoint ==
  /\ saves # <<>>
  /\ ckpts' = With(ckpts, Last(saves).id, StoredForm(Last(saves)))
  /\ saves' = Front(saves)
  /\ UNCHANGED <<stored, pc, status, loop, draining, puts, counters, observers>>

(* The executor: saves one after the other, puts in any order.             *)
SaveCheckpoint ==
  /\ saves # <<>>
  /\ ckpts' = With(ckpts, Head(saves).id, StoredForm(Head(saves)))
  /\ saves' = Tail(saves)
  /\ UNCHANGED <<stored, pc, status, loop, draining, puts, counters, observers>>

SaveWrites ==
  \E p \in puts :
    /\ stored' = PutWrites(stored, p.ck, p.id, p.writes)
    /\ puts' = puts \ {p}
    /\ UNCHANGED <<ckpts, pc, status, loop, draining, saves, counters, observers>>

\* MUTANT: the last checkpoint is saved as one of the next step
X_ExitRecord == Record(ck.id, ck.ver, ck.seen, updated, chans, step, source, cfg)

(* _suppress_interrupt, on every way out: with durability "exit" the       *)
(* checkpoint, unless it is the one that was loaded, and the pending writes*)
(* are saved now.                                                          *)
ExitRecord  == Record(ck.id, ck.ver, ck.seen, updated, chans, step - 1, source, cfg)
LeaveLoop ==
  /\ pc = "exit"
  /\ pc' = "closing"
  /\ IF durability = "exit"
     THEN /\ saves' = IF ck.id = savedId THEN saves ELSE Append(saves, Unsaved(ExitRecord))
          /\ puts' = puts \cup {[ck |-> ck.id, id |-> i, writes |-> pend[i]] :
                                  i \in DOMAIN pend}
     ELSE UNCHANGED background
  /\ UNCHANGED <<storage, status, loop, draining, counters, observers>>

(* BackgroundExecutor.__exit__ waits for what was submitted.               *)
CanClose == pc = "closing" /\ saves = <<>> /\ puts = {}
Close ==
  /\ CanClose
  /\ pc' = "idle"
  /\ Forget
  /\ UNCHANGED <<storage, status, counters, observers>>

(* The process dies: what was not performed is gone.                       *)
Crash ==
  /\ pc # "idle" /\ crashes < MaxCrashes
  /\ crashes' = crashes + 1
  /\ pc' = "idle" /\ status' = "crashed"
  /\ Forget
  /\ UNCHANGED <<storage, nextId, invocations, observers>>

RequestDrain ==
  /\ MayDrain /\ pc \in {"tick", "run", "flush"} /\ ~ draining
  /\ draining' = TRUE
  /\ UNCHANGED <<storage, pc, status, loop, background, counters, observers>>

Step ==
  \/ Tick
  \/ \E k \in DOMAIN tasks : RunTask(k) \/ FailTask(k)
  \/ Panic
  \/ AfterTick
  \/ Flushed
  \/ SaveCheckpoint
  \/ SaveWrites
  \/ LeaveLoop
  \/ Close

Next ==
  \/ \E req \in Requests, d \in Durabilities : Invoke(req, d)
  \/ Step
  \/ Crash
  \/ RequestDrain

Spec == Init /\ [][Next]_vars

(* Weak fairness of Step: the event loop or the threads of the process get *)
(* to run; nothing is assumed of clients, of crashes or of drain requests. *)
(* CanStep is ENABLED <<Step>>_vars written out, which TLC evaluates in a  *)
(* small part of the time, so that Fairness is WF_vars(Step).              *)
CanStep ==
  \/ pc \in {"tick", "exit"} \/ saves # <<>> \/ puts # {}
  \/ CanPanic \/ CanProceed \/ CanGoOn \/ CanClose
  \/ \E k \in DOMAIN tasks : CanRun(k)
Fairness == []<>(~ CanStep) \/ []<><<Step>>_vars
FairSpec == Spec /\ Fairness

(***************************************************************************)
(* Properties.                                                             *)
(***************************************************************************)
TaskId(k) == tasks[k].id

(* The types, with the bound that a checkpoint is made before anything     *)
(* refers to its id (_put_checkpoint gives every step a new id).           *)
TypeOK ==
  /\ pc \in {"idle", "tick", "run", "flush", "exit", "closing"}
  /\ status \in {"none", "pending", "done", "out_of_steps", "draining", "error",
                 "interrupt_before", "interrupt_after", "crashed"}
  /\ DOMAIN ckpts \subseteq 1 .. nextId - 1 /\ DOMAIN made = 1 .. nextId - 1
  /\ ck.id \in 0 .. nextId - 1 /\ cfg \in 0 .. nextId - 1 /\ savedId \in 0 .. nextId - 1
  /\ ck.ver \in [Chan -> Nat]
  /\ \A n \in DOMAIN ck.seen : ck.seen[n] \in [Chan -> Nat]
  /\ DOMAIN ck.seen \subseteq Node \cup {INTERRUPT}
  /\ DOMAIN chans = Chan /\ updated \subseteq Chan
  /\ \A k \in DOMAIN tasks : tasks[k].id.name \in Node
  /\ \A q \in DOMAIN saves : saves[q].id \in 1 .. nextId - 1
  /\ durability \in Durabilities \cup {"none"} /\ draining \in BOOLEAN

(* What a reducer holds in a checkpoint record.                            *)
Held(rec, c) == UNION {ToSet(s.vals) : s \in rec.vals[c]}
HeldSeq(rec, c) == IF rec.vals[c] = {} THEN <<>>
                   ELSE LET s == CHOOSE x \in rec.vals[c] : TRUE IN s.vals

Origin(id) == IF id = 0 THEN EmptyCheckpoint ELSE made[id]

(* The reference definition of the tasks a checkpoint calls for: a scan of *)
(* all nodes and the pending Sends, from the record alone.                 *)
Due(rec) ==
  LET chs == Restored(rec.vals)
  IN  {PullId(rec, n) : n \in {m \in CandidatesByScan(rec) : Triggered(rec, chs, m)}}
        \cup {t.id : t \in ToSet(PushTasks(rec, chs))}

(* A step takes effect as a whole and once: the log of a checkpoint made by*)
(* a step is the log of the checkpoint before it followed by exactly one   *)
(* run of each task that checkpoint called for, and an input adds none.    *)
(* After a failure, a crash and a resume this is what keeping the pending  *)
(* writes of finished tasks has to add up to (_loop.py after_tick).        *)
StepsComplete ==
  \A id \in DOMAIN made :
    LET before == HeldSeq(Origin(made[id].parent), LOG)
        after  == HeldSeq(made[id], LOG)
        new    == SubSeq(after, Len(before) + 1, Len(after))
    IN  /\ IsPrefix(before, after)
        /\ IsInjective(new)
        /\ ToSet(new) = IF made[id].source = "loop" THEN Due(Origin(made[id].parent))
                        ELSE {}

(* Whatever a checkpoint holds was written by a task that ran to its end:  *)
(* the docstring of _reapply_writes_to_succeeded_nodes (_loop.py:737).     *)
OnlyCompletedRuns == \A id \in DOMAIN made : Held(made[id], LOG) \subseteq ran

(* A checkpoint that is stored is the one that was made: the background    *)
(* save and the way out of the loop store the state between two steps, not *)
(* a later or a half applied one (BaseChannel.checkpoint, create_checkpoint*)
(* and _suppress_interrupt).                                               *)
SnapshotExact ==
  \A id \in DOMAIN ckpts :
    \A f \in {"ver", "seen", "vals", "step", "source"} : ckpts[id][f] = made[id][f]

(* Saves are performed in the order of the steps: whatever is stored, so is*)
(* what it was derived from (_checkpointer_put_after_previous).            *)
OrderedSaves ==
  \A id \in DOMAIN ckpts : ckpts[id].parent \in DOMAIN ckpts \cup {0}

(* The update of a Command takes effect once: it is in no checkpoint twice,*)
(* and once stored under a checkpoint it is in every checkpoint that       *)
(* follows that one (put_writes for NULL_TASK_ID, _first).                 *)
StoredUpdates(id) ==
  {stored[k].val : k \in {x \in DOMAIN stored : /\ x.ck = id /\ x.id = NullTask
                                                 /\ stored[x].chan = COMMAND}}
CommandsOnce ==
  /\ \A id \in DOMAIN made : IsInjective(HeldSeq(made[id], COMMAND))
  /\ \A id \in DOMAIN ckpts :
       StoredUpdates(ckpts[id].parent) \subseteq Held(ckpts[id], COMMAND)

(* Looking only at the nodes that the updated channels trigger finds the   *)
(* tasks a scan of all nodes finds, also after a resume, whose updated     *)
(* channels come from the store (prepare_next_tasks).                      *)
OptimizedEqualsScan ==
  pc = "tick" /\ updated # {} =>
    PullTasks(ck, chans, CandidatesByTrigger(updated)) = PullTasks(ck, chans, Node)

(* A deferred node runs when nothing else does: no task of a node that is  *)
(* not deferred is in its step ("until the run is about to end", add_node  *)
(* in graph/state.py).                                                     *)
Deferred(n) == \A c \in TriggersOf[n] : Kind[c] \in AfterFinish
DeferredLast ==
  pc = "run" => \/ \A k \in DOMAIN tasks : Deferred(TaskId(k).name)
                \/ \A k \in DOMAIN tasks : ~ Deferred(TaskId(k).name)

(* Within an invocation no node of interrupt_before runs in a step the     *)
(* invocation itself prepared, and no step follows one that ran a node of  *)
(* interrupt_after: only an invocation that resumes goes past the pause    *)
(* (should_interrupt against versions_seen[INTERRUPT]).                    *)
PausesHonoured ==
  pc = "run" /\ ck.id # savedId =>
    /\ \A k \in DOMAIN tasks : TaskId(k).name \notin INTERRUPT_BEFORE
    /\ made[ck.id].source = "loop" =>
         \A id \in Held(made[ck.id], LOG) \ Held(Origin(made[ck.id].parent), LOG) :
           id.name \notin INTERRUPT_AFTER

(* A task whose writes are stored is not run again (put_writes, tick).     *)
NoRerunOfDurable ==
  [][pc = "run" /\ pc' = "run" =>
       \A k \in DOMAIN tasks :
         tasks[k].writes = <<>> /\ tasks'[k].writes # <<>> =>
           ~ \E x \in DOMAIN stored : /\ x.ck = ck.id /\ x.id = TaskId(k)
                                      /\ stored[x].chan # "ERROR"]_vars

(* A version names one value of its channel in what is stored, so that the *)
(* savers may store a value once per version (get_new_channel_versions).   *)
VersionsIdentifyValues ==
  \A i, j \in DOMAIN ckpts : \A c \in Chan :
    ckpts[i].ver[c] = ckpts[j].ver[c] => ckpts[i].vals[c] = ckpts[j].vals[c]

(* What is stored implements the abstract thread, at every step of every   *)
(* invocation and through crashes, except with durability "exit", which    *)
(* stores several supersteps as one.                                       *)
Durable == INSTANCE DurableThread WITH
             head     <- Latest.id,
             history  <- HeldSeq(Latest, LOG),
             due      <- Due(Latest),
             received <- HeldSeq(Latest, COMMAND)
ImplementsThread == Durable!DSpec

(* Every invocation comes to its end, also one whose graph has a cycle or  *)
(* whose tasks fail: Pregel.stream leaves its loop for a reason it gives,  *)
(* and the executor closes when the saves it was given are performed.      *)
ComesToRest == pc # "idle" ~> pc = "idle"
=============================================================================
