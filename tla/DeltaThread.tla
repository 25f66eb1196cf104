---------------------------- MODULE DeltaThread ----------------------------
(***************************************************************************)
(* One DeltaChannel on one thread: what the loop writes of it, what the    *)
(* savers keep and what they rebuild it from.                              *)
(*                                                                         *)
(* A delta channel is in no checkpoint.  Its value is rebuilt from the     *)
(* writes stored under the ancestors of a checkpoint, as far back as the   *)
(* nearest snapshot (channels/delta.py, pregel/_checkpoint.py, the loop's  *)
(* put_writes, _put_checkpoint and _put_exit_delta_writes, update_state,   *)
(* and get_delta_channel_history of the savers).                           *)
(*                                                                         *)
(* Data of the module:                                                     *)
(*   - a value is the sequence of the items written, an item [by, at] being*)
(*     named by its task and by the checkpoint the task ran from.  The     *)
(*     reducer concatenates, and so forgets neither items nor their order; *)
(*   - what a task wrote is a sequence of at most one write, [by, at,      *)
(*     over], over for a value wrapped in Overwrite;                       *)
(*   - a task id is [pre, ck, by], pre being the first group of the uuid:  *)
(*     Hashed, or the step in an id of exit_delta_task_id;                 *)
(*   - checkpoint ids are naturals in the order of their creation, 0 for   *)
(*     none; a version of the channel is 2 * id for the step that made     *)
(*     checkpoint id and 2 * id + 1 when create_checkpoint bumped it, which*)
(*     no other branch shares (the random part of get_next_version);       *)
(*   - the other channels appear as "due", the tasks a checkpoint calls    *)
(*     for, any plan of Plans.  due = {} is the end of the run;            *)
(*   - steps are two more than those of the code, which begin with -2.     *)
(***************************************************************************)
EXTENDS Naturals, FiniteSetsExt, SequencesExt

CONSTANTS
  TaskPath,        \* the tasks, in the order apply_writes sorts their paths
  TaskIds,         \* the tasks, in the order of their ids
  Silent,          \* the tasks that may write nothing to the channel
  Overwriters,     \* the tasks that may write an Overwrite (one at most)
  Plans,           \* the sets of tasks a checkpoint may call for
  Freq,            \* snapshot_frequency
  MaxSupersteps,   \* DELTA_MAX_SUPERSTEPS_SINCE_SNAPSHOT
  Durabilities,    \* of the invocations: "async", "exit".  "sync" is "async" with
                   \* waits between the steps, and has some of its behaviours
  Requests,        \* of the client: "input", "resume", "update", "copy"
  Threads,         \* the sync loop on a thread pool; FALSE for asyncio
  CleanOnly,       \* see Branches and Crash
  MaxId,           \* bound on checkpoints
  MaxBehind,       \* bound on the saves the loop may be ahead of the store
  MaxRequests,     \* bound on requests
  MaxCrashes       \* bound on crashes

Task == ToSet(TaskPath)
Savers == {"memory", "sqlite", "postgres"}
Hashed == MaxId + 1
Zero == [u |-> 0, s |-> 0]
NoWrites == [k \in {} |-> <<>>]
With(f, k, v) == [x \in DOMAIN f \cup {k} |-> IF x = k THEN v ELSE f[x]]

ASSUME DeltaAssumption ==
  /\ TaskPath \in Seq(Task) /\ ToSet(TaskIds) = Task /\ Plans \subseteq SUBSET Task
  /\ Silent \subseteq Task /\ Overwriters \subseteq Task /\ Cardinality(Overwriters) <= 1
  /\ Freq \in Nat \ {0} /\ MaxSupersteps \in Nat \ {0} /\ MaxId \in Nat
  /\ Durabilities \subseteq {"async", "exit"}

VARIABLES
  ckpts,     \* [id -> checkpoint row]: parent, ver, inline (the snapshot that
             \*   SQLite keeps in the row, as a sequence of at most one value),
             \*   flag (the True that Postgres keeps in its place), cnt, step,
             \*   due, src
  blobs,     \* [version -> snapshot], the blobs of memory and Postgres
  written,   \* [id -> Seq([tid, writes])], the writes tables, in their order
  pc,        \* "idle", "run", "exit", "closing"
  loop,      \* the state of the PregelLoop, see Entered
  puts,      \* put_writes calls submitted and not performed
  futs,      \* _delta_write_futs, by their calls
  saves,     \* the chain of submitted _checkpointer_put_after_previous
  nextId, requests, crashes,
  made       \* [id -> live value of the channel when id was created]

store    == <<ckpts, blobs, written>>
work     == <<puts, futs, saves>>
counters == <<nextId, requests, crashes>>
vars     == <<ckpts, blobs, written, pc, loop, puts, futs, saves, nextId, requests,
              crashes, made>>

-----------------------------------------------------------------------------
(* DeltaChannel.                                                           *)
Item(w) == [by |-> w.by, at |-> w.at]
Items(ws) == [i \in DOMAIN ws |-> Item(ws[i])]
Overwrites(ws) == {i \in DOMAIN ws : ws[i].over}

(* update: an Overwrite replaces the value and whatever else the step wrote*)
Updated(v, ws) ==
  IF Overwrites(ws) = {} THEN v \o Items(ws)
  ELSE <<Item(ws[Min(Overwrites(ws))])>>

(* replay_writes: the writes before the last Overwrite are dropped, those  *)
(* after it are not.                                                       *)
Replayed(v, ws) ==
  IF Overwrites(ws) = {} THEN v \o Items(ws)
  ELSE Items(SubSeq(ws, Max(Overwrites(ws)), Len(ws)))

-----------------------------------------------------------------------------
(* The savers.                                                             *)
Latest == Max(DOMAIN ckpts \cup {0})

(* ORDER BY task_id, idx.                                                  *)
IdRank(t) == IF t \in Task THEN CHOOSE i \in DOMAIN TaskIds : TaskIds[i] = t ELSE 0
Before(t, u) == t.pre < u.pre \/ (t.pre = u.pre /\ IdRank(t.by) < IdRank(u.by))

(* put_writes: a slot that is taken keeps its write.                       *)
PutWrites(st, p) ==
  IF \E e \in ToSet(st[p.ck]) : e.tid = p.tid THEN st
  ELSE [st EXCEPT ![p.ck] =
          InsertAt(@, 1 + Cardinality({i \in DOMAIN @ : Before(@[i].tid, p.tid)}),
                   [tid |-> p.tid, writes |-> p.writes])]

WritesAt(id) == FlattenSeq([i \in DOMAIN written[id] |-> written[id][i].writes])

BlobOf(id) == IF ckpts[id].ver \in DOMAIN blobs THEN <<blobs[ckpts[id].ver]>> ELSE <<>>

(* What a checkpoint tuple holds of the channel: in memory and in Postgres *)
(* the blob of its version, also when an ancestor stored that.             *)
Held(s, id) == IF s = "sqlite" THEN ckpts[id].inline ELSE BlobOf(id)

(* Where the walk over the ancestors stops.                                *)
Seeds(s, id) == IF s = "postgres" THEN ckpts[id].flag ELSE Held(s, id) # <<>>

(* get_delta_channel_history: the seed and the writes of the ancestors of  *)
(* a checkpoint, and the ancestors walked.                                 *)
History(s, id) ==
  LET h[i \in 0 .. MaxId] ==
        IF i \notin DOMAIN ckpts THEN [seed |-> <<>>, writes |-> <<>>, path |-> {}]
        ELSE IF Seeds(s, i) THEN [seed |-> Held(s, i), writes |-> WritesAt(i), path |-> {i}]
        ELSE LET up == h[ckpts[i].parent]
             IN  [up EXCEPT !.writes = @ \o WritesAt(i), !.path = @ \cup {i}]
  IN  h[ckpts[id].parent]

(* channels_from_checkpoint.                                               *)
ValueOf(s, id) ==
  IF Held(s, id) # <<>> THEN Held(s, id)[1]
  ELSE LET h == History(s, id)
       IN  Replayed(IF h.seed = <<>> THEN <<>> ELSE h.seed[1], h.writes)

-----------------------------------------------------------------------------
(* _put_checkpoint, create_checkpoint.                                     *)
Counted(l) == [u |-> l.cnt.u + (IF l.updated THEN 1 ELSE 0), s |-> l.cnt.s + 1]

\* MUTANT: the snapshot is one step late
X_Snapshots(cnt, over) == over \/ cnt.u > Freq \/ cnt.s > MaxSupersteps

(* delta_channels_to_snapshot, and _delta_channels_with_overwrite.         *)
Snapshots(cnt, over) == over \/ cnt.u >= Freq \/ cnt.s >= MaxSupersteps

\* MUTANT: a snapshot of a channel that was not written keeps its version
X_Version(l, id, snap) == l.ver

Version(l, id, snap) == IF snap /\ l.ver > 0 /\ ~ l.updated THEN 2 * id + 1 ELSE l.ver

(* A save in the chain: the checkpoint of the loop's state.  A snapshot is *)
(* a blob of the savers that keep blobs only under a new version.          *)
Save(l, id, parent, cnt, step, src) ==
  LET snap   == Snapshots(cnt, l.over)
      inline == IF snap /\ l.ver > 0 THEN <<l.live>> ELSE <<>>
      ver    == Version(l, id, snap)
  IN  [id |-> id, blob |-> inline # <<>> /\ ver # l.previous, drained |-> FALSE, waits |-> {},
       row |-> [parent |-> parent, ver |-> ver, inline |-> inline, flag |-> inline # <<>>,
                cnt |-> IF snap THEN Zero ELSE cnt, step |-> step, due |-> l.due,
                src |-> src]]

(* Between two steps: a new id, and a save unless durability is "exit".    *)
PutCheckpoint(l, id, src) ==
  LET save == Save(l, id, l.cfg, Counted(l), l.step, src)
      next == [l EXCEPT !.ck = id, !.step = @ + 1, !.pend = NoWrites, !.cnt = save.row.cnt]
  IN  /\ id < MaxId
      /\ nextId' = id + 1
      /\ made' = made @@ (id :> l.live) @@ (l.base :> <<>>)
      /\ IF l.durability = "exit"
         THEN loop' = [next EXCEPT !.cnt = Counted(l)] /\ saves' = saves
         ELSE /\ loop' = [next EXCEPT !.cfg = id, !.ver = save.row.ver,
                                      !.previous = save.row.ver, !.over = FALSE]
              /\ saves' = Append(saves, save)

-----------------------------------------------------------------------------
NoLoop ==
  [durability |-> "none", ck |-> 0, cfg |-> 0, base |-> 0, persisted |-> FALSE,
   live |-> <<>>, ver |-> 0, previous |-> 0, cnt |-> Zero, over |-> FALSE,
   updated |-> FALSE, step |-> 1, due |-> {}, pend |-> NoWrites, exits |-> {}]

(* __enter__ with the tuple of a checkpoint, or with an empty one.  The    *)
(* live value is rebuilt by the saver of the program, here that of memory. *)
Entered(id, d) ==
  IF id = 0 THEN [NoLoop EXCEPT !.durability = d, !.ck = nextId, !.base = nextId]
  ELSE [NoLoop EXCEPT
          !.durability = d, !.ck = id, !.cfg = id, !.base = id, !.persisted = TRUE,
          !.live = ValueOf("memory", id), !.ver = ckpts[id].ver,
          !.previous = ckpts[id].ver, !.cnt = ckpts[id].cnt,
          !.step = ckpts[id].step + 1, !.due = ckpts[id].due,
          !.pend = [t \in {e.tid : e \in ToSet(written[id])} |->
                      (CHOOSE e \in ToSet(written[id]) : e.tid = t).writes]]

(* What is stored under a checkpoint is replayed for all its children, and *)
(* a slot that is taken keeps its write.  So with CleanOnly a checkpoint   *)
(* with writes of the channel is continued only by the resume that takes   *)
(* them up, and one with any writes or a child gets no others: those of    *)
(* update_state and of a run that keeps its writes to the exit.            *)
Clean(id)  == WritesAt(id) = <<>>
Unused(id) == written[id] = <<>> /\ \A i \in DOMAIN ckpts : ckpts[i].parent # id
Branches(id, d) ==
  CleanOnly /\ id # 0 => IF d = "exit" THEN Unused(id) ELSE Clean(id)

Init ==
  /\ ckpts = [i \in {} |-> NoLoop] /\ blobs = [v \in {} |-> <<>>]
  /\ written = [id \in 1 .. MaxId |-> <<>>]
  /\ pc = "idle" /\ loop = NoLoop
  /\ puts = {} /\ futs = {} /\ saves = <<>>
  /\ nextId = 1 /\ requests = 0 /\ crashes = 0
  /\ made = [i \in {} |-> <<>>]

Request(r) ==
  /\ r \in Requests /\ pc = "idle" /\ requests < MaxRequests
  /\ requests' = requests + 1
  /\ UNCHANGED crashes

(* A new input, to another channel (__start__ of a StateGraph): unfinished *)
(* tasks of the checkpoint are discarded.  The first run of a thread takes *)
(* an id for the empty checkpoint.                                         *)
Input(id, d) ==
  /\ Request("input")
  /\ Branches(id, d)
  /\ \E plan \in Plans \ {{}} :
       PutCheckpoint([Entered(id, d) EXCEPT !.due = plan],
                     IF id = 0 THEN nextId + 1 ELSE nextId, "input")
  /\ pc' = "run"
  /\ UNCHANGED <<store, puts, futs>>

(* No input: go on from the latest checkpoint with what is stored under it.*)
Resume(d) ==
  /\ Request("resume")
  /\ Latest # 0 /\ ckpts[Latest].due # {}
  /\ d = "exit" => Branches(Latest, d)
  /\ loop' = Entered(Latest, d)
  /\ pc' = "run"
  /\ UNCHANGED <<store, work, nextId, made>>

(* update_state as a node: the writes go under the checkpoint, with the id *)
(* of a task that is due if there is one, then the new checkpoint is put,  *)
(* without counters and never as a snapshot.  A thread without checkpoints *)
(* gets a stub for the writes.                                             *)
UpdateState(id, t) ==
  LET anchor == IF id = 0 THEN nextId ELSE id
      new    == IF id = 0 THEN nextId + 1 ELSE nextId
      by     == IF id # 0 /\ t \in ckpts[id].due THEN t ELSE "update"
      ws     == <<[by |-> by, at |-> anchor, over |-> FALSE]>>
      stub   == [parent |-> 0, ver |-> 0, inline |-> <<>>, flag |-> FALSE, cnt |-> Zero,
                 step |-> 1, due |-> {}, src |-> "stub"]
      old    == IF id = 0 THEN stub ELSE ckpts[id]
      live   == IF id = 0 THEN <<>> ELSE ValueOf("memory", id)
  IN  /\ Request("update")
      /\ CleanOnly /\ id # 0 => Unused(id)
      /\ new < MaxId /\ nextId' = new + 1
      /\ written' = PutWrites(written, [ck |-> anchor, writes |-> ws,
                                       tid |-> [pre |-> Hashed, ck |-> anchor, by |-> by]])
      /\ \E plan \in Plans :
           ckpts' = With(With(ckpts, anchor, old), new,
                         [stub EXCEPT !.parent = anchor, !.ver = 2 * new,
                                      !.step = old.step + 1, !.due = plan,
                                      !.src = "update"])
      /\ made' = made @@ (new :> Updated(live, ws)) @@ (anchor :> live)
      /\ UNCHANGED <<blobs, pc, loop, work>>

(* update_state as "__copy__": a sibling that keeps the values the tuple of*)
(* the checkpoint holds, and puts no new version of any channel.           *)
Copy(id) ==
  /\ Request("copy")
  /\ nextId < MaxId /\ nextId' = nextId + 1
  /\ ckpts' = With(ckpts, nextId, [ckpts[id] EXCEPT !.flag = BlobOf(id) # <<>>, !.cnt = Zero,
                                                    !.step = @ + 1, !.src = "copy"])
  /\ made' = made @@ (nextId :> made[id])
  /\ UNCHANGED <<blobs, written, pc, loop, work>>

-----------------------------------------------------------------------------
TaskId(t) == [pre |-> Hashed, ck |-> loop.ck, by |-> t]

(* What a task may have written of the channel.                            *)
Outcomes(t) ==
  (IF t \in Silent THEN {<<>>} ELSE {})
    \cup {<<[by |-> t, at |-> loop.ck, over |-> o]>> :
            o \in IF t \in Overwriters THEN BOOLEAN ELSE {FALSE}}

(* A task of the step finishes: put_writes.                                *)
Commit(t) ==
  \E ws \in Outcomes(t) :
    LET put == [ck |-> loop.ck, tid |-> TaskId(t), writes |-> ws]
    IN  /\ pc = "run" /\ t \in loop.due /\ TaskId(t) \notin DOMAIN loop.pend
        /\ loop' = [loop EXCEPT !.pend = With(@, TaskId(t), ws)]
        /\ IF loop.durability = "exit" THEN UNCHANGED <<puts, futs>>
           ELSE puts' = puts \cup {put} /\ futs' = IF ws = <<>> THEN futs ELSE futs \cup {put}
        /\ UNCHANGED <<store, pc, saves, counters, made>>

(* Every task of the step has finished: apply their writes in the order of *)
(* the paths, take note of all pending writes when durability is "exit",   *)
(* and make the checkpoint.                                                *)
AfterTick ==
  LET ws == FlattenSeq([i \in DOMAIN TaskPath |->
              IF TaskPath[i] \in loop.due THEN loop.pend[TaskId(TaskPath[i])] ELSE <<>>])
      exits == {[step |-> loop.step, tid |-> t, writes |-> loop.pend[t]] :
                  t \in {x \in DOMAIN loop.pend : loop.pend[x] # <<>>}}
  IN  /\ pc = "run" /\ Len(saves) < MaxBehind
      /\ \A t \in loop.due : TaskId(t) \in DOMAIN loop.pend
      /\ \E plan \in Plans :
           /\ PutCheckpoint([loop EXCEPT
                !.live = Updated(@, ws),
                !.ver = IF ws = <<>> THEN @ ELSE 2 * nextId,
                !.updated = ws # <<>>,
                !.over = @ \/ Overwrites(ws) # {},
                !.due = plan,
                !.exits = IF loop.durability = "exit" THEN @ \cup exits ELSE @],
                nextId, "loop")
           /\ pc' = IF plan = {} THEN "exit" ELSE "run"
      /\ UNCHANGED <<store, puts, futs, requests, crashes>>

(* An interrupt, a drain request, the step limit, or a task that fails,    *)
(* whichever others have finished.                                         *)
Stop ==
  /\ pc = "run" /\ pc' = "exit"
  /\ UNCHANGED <<store, loop, work, counters, made>>

(* _suppress_interrupt with durability "exit": _put_exit_delta_writes with *)
(* step-prefixed ids under the checkpoint the run began from (a stub when  *)
(* none is stored), the checkpoint unless it is the one that was loaded,   *)
(* then the pending writes.                                                *)
LeaveLoop ==
  LET exits  == IF Snapshots(loop.cnt, loop.over) THEN {} ELSE loop.exits
      deltas == {[ck |-> loop.base, tid |-> [e.tid EXCEPT !.pre = e.step],
                  writes |-> e.writes] : e \in exits}
      stub   == exits # {} /\ ~ loop.persisted
      base   == Save(NoLoop, loop.base, 0, Zero, 0, "stub")
      final  == Save(loop, loop.ck, IF stub THEN loop.base ELSE loop.cfg, loop.cnt,
                     loop.step - 1, "loop")
  IN  /\ pc = "exit" /\ pc' = "closing"
      /\ IF loop.durability # "exit" THEN UNCHANGED work
         ELSE /\ puts' = puts \cup deltas \cup {[ck |-> loop.ck, tid |-> t,
                                                writes |-> loop.pend[t]] :
                                                  t \in DOMAIN loop.pend}
              /\ futs' = futs \cup deltas
              /\ saves' = saves \o (IF stub THEN <<base>> ELSE <<>>)
                               \o (IF loop.ck = loop.base THEN <<>> ELSE <<final>>)
      /\ UNCHANGED <<store, loop, counters, made>>

Forget == pc' = "idle" /\ loop' = NoLoop /\ puts' = {} /\ futs' = {} /\ saves' = <<>>

Close ==
  /\ pc = "closing" /\ puts = {} /\ saves = <<>>
  /\ Forget
  /\ UNCHANGED <<store, counters, made>>

(* The process dies.  With CleanOnly not while it leaves a run of          *)
(* durability "exit", whose writes may be stored without their checkpoint. *)
Crash ==
  /\ pc # "idle" /\ crashes < MaxCrashes
  /\ CleanOnly => loop.durability # "exit"
  /\ crashes' = crashes + 1
  /\ Forget
  /\ UNCHANGED <<store, nextId, requests, made>>

-----------------------------------------------------------------------------
(* The executor.                                                           *)
SaveWrites ==
  \E p \in puts :
    /\ written' = PutWrites(written, p)
    /\ puts' = puts \ {p}
    /\ UNCHANGED <<ckpts, blobs, pc, loop, futs, saves, counters, made>>

(* _checkpointer_put_after_previous begins: it takes the write futures.    *)
(* Tasks of an event loop begin in the order of their creation; threads    *)
(* reach this line in any order.                                           *)
Drain(q) ==
  /\ ~ saves[q].drained
  /\ Threads \/ \A p \in 1 .. q - 1 : saves[p].drained
  /\ saves' = [saves EXCEPT ![q].drained = TRUE, ![q].waits = futs]
  /\ futs' = {}
  /\ UNCHANGED <<store, pc, loop, puts, counters, made>>

\* MUTANT: a checkpoint is put without waiting for the writes
X_MayPut(save) == save.drained

MayPut(save) == save.drained /\ save.waits \cap puts = {}

(* put, when the writes it took and the previous save are done.            *)
SaveCheckpoint ==
  LET save == Head(saves)
  IN  /\ saves # <<>> /\ MayPut(save)
      /\ ckpts' = With(ckpts, save.id, save.row)
      /\ blobs' = IF save.blob THEN With(blobs, save.row.ver, save.row.inline[1]) ELSE blobs
      /\ saves' = Tail(saves)
      /\ UNCHANGED <<written, pc, loop, puts, futs, counters, made>>

Next ==
  \/ \E d \in Durabilities : \/ \E id \in DOMAIN ckpts \cup {Latest} : Input(id, d)
                            \/ Resume(d)
  \/ \E t \in Task : \E id \in DOMAIN ckpts \cup {Latest} : UpdateState(id, t)
  \/ \E id \in DOMAIN ckpts : Copy(id)
  \/ \E t \in Task : Commit(t)
  \/ AfterTick
  \/ Stop
  \/ LeaveLoop
  \/ Close
  \/ Crash
  \/ SaveWrites
  \/ \E q \in DOMAIN saves : Drain(q)
  \/ SaveCheckpoint

Spec == Init /\ [][Next]_vars

(***************************************************************************)
(* Properties.                                                             *)
(***************************************************************************)
(* Types, with the ids and versions within what was created.               *)
TypeOK ==
  /\ pc \in {"idle", "run", "exit", "closing"}
  /\ DOMAIN ckpts \subseteq 1 .. nextId - 1 /\ DOMAIN made \subseteq 1 .. nextId - 1
  /\ \A id \in DOMAIN ckpts : /\ ckpts[id].parent \in 0 .. id - 1
                              /\ ckpts[id].ver \in 0 .. 2 * id + 1
                              /\ ckpts[id].due \in Plans \cup {{}}
  /\ \A id \in DOMAIN written : written[id] # <<>> => id < nextId
  /\ \A f \in futs : f \in puts \/ \E e \in ToSet(written[f.ck]) : e.tid = f.tid

(* Two values are the same but for the order of the items of one step:     *)
(* replay sorts them by task id, apply_writes by task path.                *)
SameSteps(v, w) ==
  /\ [i \in DOMAIN v |-> v[i].at] = [i \in DOMAIN w |-> w[i].at]
  /\ ToSet(v) = ToSet(w)

(* Every stored checkpoint is rebuilt to the value the channel had when it *)
(* was made, by each saver: nothing is lost, repeated, or taken from what  *)
(* belongs to another checkpoint (DeltaChannel, delta.py:47-49).           *)
Rebuilt ==
  \A s \in Savers, id \in DOMAIN ckpts :
    SameSteps(ValueOf(s, id), made[id])

(* A rebuild walks fewer than MaxSupersteps checkpoints that have the      *)
(* channel and replays fewer than Freq steps, but for those that           *)
(* update_state made, which starts the counters anew ("bounding replay     *)
(* depth", delta.py:52-56).                                                *)
ReplayBounded ==
  \A s \in Savers, id \in DOMAIN ckpts :
    LET h      == History(s, id)
        counts == {ckpts[a].src : a \in h.path \cup {id}} \cap {"update", "copy"} = {}
    IN  Held(s, id) = <<>> /\ counts =>
          /\ Cardinality({a \in h.path : ckpts[a].ver # 0}) < MaxSupersteps
          /\ Cardinality({h.writes[i].at : i \in DOMAIN h.writes}) < Freq

(* The comment of _delta_write_futs: "a checkpoint never becomes durable   *)
(* before the writes that produced it" (_loop.py:204).  It holds for saves *)
(* that begin in their order, those of asyncio; with Threads it does not   *)
(* (README, section 5).                                                    *)
WritesFirst ==
  \A id \in DOMAIN ckpts : \A p \in puts :
    p.ck = ckpts[id].parent /\ p.writes # <<>> => ckpts[id].src # "loop"
=============================================================================
