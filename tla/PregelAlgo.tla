----------------------------- MODULE PregelAlgo -----------------------------
(***************************************************************************)
(* The pure functions of langgraph/pregel/_algo.py: which tasks a          *)
(* checkpoint makes ready (prepare_next_tasks) and what a superstep does   *)
(* to the channels and the versions (apply_writes).                        *)
(*                                                                         *)
(* Data of the module:                                                     *)
(*   - a write is a record [chan, val];                                    *)
(*   - a task is a record [id, writes], its id [ck, name, idx]: _xxhash_str*)
(*     of the checkpoint id, the namespace, the step, the name and, for a  *)
(*     PUSH task, its index, taken as injective.  idx is 0 for a PULL task *)
(*     and the position in the TASKS topic for a PUSH task;                *)
(*   - versions are naturals, 0 for a channel absent from channel_versions *)
(*     (the null version, which every real version exceeds);               *)
(*   - a checkpoint is a record with at least [id, ver, seen], where seen  *)
(*     maps each name that has an entry in versions_seen to versions.      *)
(***************************************************************************)
EXTENDS Channels

CONSTANTS
  NodeSeq,      \* the names of the nodes, sorted as prepare_next_tasks sorts
  TriggersOf,   \* [node -> channels that trigger it], PregelNode.triggers
  TASKS,        \* the Topic of pending Sends
  INTERRUPT     \* the pseudo-node of versions_seen, also a control channel

Node == ToSet(NodeSeq)

(* Channels whose writes apply_writes passes over.                         *)
ControlChan == {"NO_WRITES", "RESUME", INTERRUPT, "ERROR"}

(* The keys of trigger_to_nodes.  TASKS triggers no node by name.          *)
TriggerChan == UNION {TriggersOf[n] : n \in Node}

ASSUME AlgoAssumption ==
  /\ NodeSeq \in Seq(Node) /\ IsInjective(NodeSeq)
  /\ ControlChan \cap Chan = {}
  /\ TriggersOf \in [Node -> SUBSET Chan]
  /\ TASKS \in Chan /\ Kind[TASKS] = "Topic" /\ TASKS \notin TriggerChan
  /\ INTERRUPT \notin Node \cup Chan \cup {"NO_WRITES", "RESUME", "ERROR"}

NullVersions == [c \in Chan |-> 0]

(* [x for x in s if x in S] *)
Selected(s, S) ==
  LET f[i \in 0..Len(s)] ==
        IF i = 0 THEN <<>> ELSE IF s[i] \in S THEN Append(f[i - 1], s[i]) ELSE f[i - 1]
  IN  f[Len(s)]

\* MUTANT: the id of a PUSH task does not tell its Send from another
X_PushId(ck, n, i) == [ck |-> ck.id, name |-> n, idx |-> 1]

PullId(ck, n)    == [ck |-> ck.id, name |-> n, idx |-> 0]
PushId(ck, n, i) == [ck |-> ck.id, name |-> n, idx |-> i]
NewTask(id)      == [id |-> id, writes |-> <<>>]
IsPush(t)        == t.id.idx > 0

-----------------------------------------------------------------------------
(* _triggers: some trigger channel is available and, unless the node has no*)
(* entry in versions_seen, newer than what the node has seen of it.        *)
Triggered(ck, chans, n) ==
  \E c \in TriggersOf[n] :
    /\ IsAvailable(c, chans[c])
    /\ n \in DOMAIN ck.seen => ck.ver[c] > ck.seen[n][c]

(* The PUSH tasks: one per pending Send to a node of the graph.            *)
PushTasks(ck, chans) ==
  LET sends == chans[TASKS].vals
      known == Selected([i \in DOMAIN sends |-> i], {i \in DOMAIN sends : sends[i] \in Node})
  IN  [k \in DOMAIN known |-> NewTask(PushId(ck, sends[known[k]], known[k]))]

(* The PULL tasks among a set of candidate nodes, in the order of names.   *)
PullTasks(ck, chans, candidates) ==
  LET ready == Selected(NodeSeq, {n \in candidates : Triggered(ck, chans, n)})
  IN  [k \in DOMAIN ready |-> NewTask(PullId(ck, ready[k]))]

\* MUTANT: only nodes all of whose triggers were updated
X_CandidatesByTrigger(updated) == {n \in Node : TriggersOf[n] \subseteq updated}

(* The nodes prepare_next_tasks looks at when the channels updated by the  *)
(* previous step are known, and when they are not.  updated = {} stands for*)
(* None as well: both are false in Python.                                 *)
CandidatesByTrigger(updated) == {n \in Node : TriggersOf[n] \cap updated # {}}
CandidatesByScan(ck) == IF ck.ver = NullVersions THEN {} ELSE Node

(* prepare_next_tasks, in the order apply_writes sorts the tasks into: the *)
(* path of a PULL task sorts before that of a PUSH task, PULL tasks by     *)
(* name, PUSH tasks by index.                                              *)
PrepareNextTasks(ck, chans, updated) ==
  PullTasks(ck, chans,
            IF updated # {} THEN CandidatesByTrigger(updated)
                            ELSE CandidatesByScan(ck))
    \o PushTasks(ck, chans)

\* MUTANT: every channel must have changed since the last interrupt
X_ShouldInterrupt(ck, nodes, tasks) ==
  /\ \A c \in Chan : ck.ver[c] > (IF INTERRUPT \in DOMAIN ck.seen
                                  THEN ck.seen[INTERRUPT][c] ELSE 0)
  /\ \E k \in DOMAIN tasks : tasks[k].id.name \in nodes

(* should_interrupt: something changed since the last interrupt, and a task*)
(* of this step is one to interrupt at.                                    *)
ShouldInterrupt(ck, nodes, tasks) ==
  /\ \E c \in Chan : ck.ver[c] > (IF INTERRUPT \in DOMAIN ck.seen
                                  THEN ck.seen[INTERRUPT][c] ELSE 0)
  /\ \E k \in DOMAIN tasks : tasks[k].id.name \in nodes

-----------------------------------------------------------------------------
(* The values written to a channel, in the order of the tasks.             *)
WritesTo(c, ws) ==
  LET mine == Selected(ws, {w \in ToSet(ws) : w.chan = c})
  IN  [i \in DOMAIN mine |-> mine[i].val]

(* versions_seen after the step: every task has seen its triggers as they  *)
(* were.  A PUSH task has the trigger PUSH, which no version belongs to,   *)
(* and gets an entry all the same.                                         *)
SeenAfter(ck, tasks) ==
  LET names == {tasks[k].id.name : k \in DOMAIN tasks}
      pulls == {tasks[k].id.name : k \in {j \in DOMAIN tasks : ~ IsPush(tasks[j])}}
      old(n) == IF n \in DOMAIN ck.seen THEN ck.seen[n] ELSE NullVersions
  IN  [n \in DOMAIN ck.seen \cup names |->
         IF n \in pulls
         THEN [c \in Chan |-> IF c \in TriggersOf[n] /\ ck.ver[c] > 0
                              THEN ck.ver[c] ELSE old(n)[c]]
         ELSE old(n)]

(* A superstep changes the channels in phases, from and to a record of the *)
(* channels, of those with a new version and of those updated and available*)
(* (updated_channels).                                                     *)
Phase(s, changed, new) ==
  [chans   |-> new,
   bumped  |-> s.bumped \cup changed,
   updated |-> s.updated \cup {c \in changed : IsAvailable(c, new[c])}]

ConsumeRead(chans, read) ==
  [chans   |-> [c \in Chan |-> IF c \in read THEN Consume(c, chans[c]) ELSE chans[c]],
   bumped  |-> {c \in read : Consumes(c, chans[c])},
   updated |-> {}]

WriteAll(s, cs, to) ==
  Phase(s, {c \in cs : Updates(c, s.chans[c], to[c])},
        [c \in Chan |-> IF c \in cs THEN Update(c, s.chans[c], to[c]) ELSE s.chans[c]])

(* The other available channels are told that a step has passed.           *)
NotifyStep(s) ==
  WriteAll(s, {c \in Chan \ s.updated : IsAvailable(c, s.chans[c])}, [c \in Chan |-> <<>>])

(* When nothing that triggers a node was updated, this may be the end.     *)
NotifyFinish(s) ==
  IF s.updated \cap TriggerChan # {} THEN s
  ELSE Phase(s, {c \in Chan : Finishes(c, s.chans[c])},
             [c \in Chan |-> Finish(c, s.chans[c])])

Applied(ck, tasks, s, invalid) ==
  [ver     |-> [c \in Chan |-> IF c \in s.bumped THEN 1 + Max({ck.ver[d] : d \in Chan})
                                                ELSE ck.ver[c]],
   seen    |-> SeenAfter(ck, tasks),
   chans   |-> s.chans,
   updated |-> s.updated,
   invalid |-> invalid]

(* apply_writes(checkpoint, channels, tasks): the new versions, seen       *)
(* versions, channels and the updated channels, and whether the update of  *)
(* some channel raised InvalidUpdateError.  Channels are written in the    *)
(* order of the first write to each, up to the first that rejects its      *)
(* writes.  "extra" are the writes of a PregelTaskWrites with the empty    *)
(* path, which sorts first, and without triggers: graph input and Command  *)
(* writes; without other tasks no step has passed.                         *)
ApplyWrites(ck, chans, tasks, extra) ==
  LET ws       == extra \o FlattenSeq([k \in DOMAIN tasks |-> tasks[k].writes])
      to       == [c \in Chan |-> WritesTo(c, ws)]
      read     == UNION {TriggersOf[tasks[k].id.name] :
                           k \in {j \in DOMAIN tasks : ~ IsPush(tasks[j])}}
      first(c) == Min({i \in DOMAIN ws : ws[i].chan = c})
      bad      == {c \in Chan : to[c] # <<>> /\ Rejects(c, to[c])}
      reached  == {c \in Chan : to[c] # <<>> /\ \A b \in bad : first(c) < first(b)}
      written  == WriteAll(ConsumeRead(chans, read), reached, to)
  IN  Applied(ck, tasks,
              IF bad # {} \/ tasks = <<>> THEN written ELSE NotifyFinish(NotifyStep(written)),
              bad # {})
=============================================================================
