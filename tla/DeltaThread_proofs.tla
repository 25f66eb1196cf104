--------------------------- MODULE DeltaThread_proofs ---------------------------
(***************************************************************************)
(* Two theorems of a thread with a delta channel.  What a checkpoint rests *)
(* on is stored before it, for loops whose saves begin in the order they   *)
(* were submitted (WritesComeFirst, from the invariant DInv).  A rebuild   *)
(* is bounded, in whatever order they begin (ReplaysAreBounded): the       *)
(* counters of a row have counted its parent's steps and the writes stored *)
(* under the parent, or a snapshot stops the walk (Edges, in RInv), and    *)
(* that adds up along the ancestors (AllBounded).                          *)
(***************************************************************************)
EXTENDS DeltaThread, Facts

LoopFields ==
  {"durability", "ck", "cfg", "base", "persisted", "live", "ver", "previous", "cnt", "over",
   "updated", "step", "due", "pend", "exits"}
SaveFields == {"id", "blob", "drained", "waits", "row"}

(* Ids are taken in order, and a parent is older than its child.           *)
Rows ==
  /\ nextId \in Nat \ {0} /\ DOMAIN ckpts \subseteq 1..nextId - 1
  /\ \A id \in DOMAIN ckpts : ckpts[id].parent \in 0..id - 1
(* The loop goes on from the latest checkpoint, stored or not.             *)
Newest ==
  /\ DOMAIN loop = LoopFields
  /\ pc # "idle" =>
       /\ loop.ck \in 1..nextId - 1 /\ loop.cfg \in 0..loop.ck /\ loop.base \in 1..loop.ck
       /\ \A id \in DOMAIN ckpts : id <= loop.ck
       /\ loop.durability \in Durabilities
(* The saves, and which writes they wait for.                              *)
Chain ==
  /\ IsSeq(saves)
  /\ \A q \in DOMAIN saves :
       /\ DOMAIN saves[q] = SaveFields
       /\ saves[q].id \in 1..loop.ck /\ saves[q].row.parent \in 0..saves[q].id - 1
       /\ ~ saves[q].drained => saves[q].waits = {}
(* Nothing is under way between two invocations, and nothing before the    *)
(* end of one that keeps its writes to the exit.                           *)
Still ==
  /\ pc = "idle" => puts = {} /\ futs = {} /\ saves = <<>>
  /\ pc \in {"run", "exit"} /\ loop.durability = "exit" =>
       /\ puts = {} /\ futs = {} /\ saves = <<>>
       /\ loop.cfg <= loop.base /\ \A id \in DOMAIN ckpts : ckpts[id].parent # loop.base
(* A write of the channel is on the list, or a save waits for it.          *)
Listed ==
  pc \in {"run", "exit"} /\ loop.durability # "exit" =>
    /\ loop.cfg = loop.ck
    /\ \A p \in puts : p.writes # <<>> =>
         p \in futs \/ \E j \in DOMAIN saves : p \in saves[j].waits
(* A save waits for the writes it was made from, or will when it begins.   *)
Guarded ==
  \A q \in DOMAIN saves : \A p \in puts :
    saves[q].row.src = "loop" /\ p.ck = saves[q].row.parent /\ p.writes # <<>> =>
      \/ p \in futs /\ ~ saves[q].drained
      \/ \E j \in DOMAIN saves : j <= q /\ p \in saves[j].waits

(* For saves that begin in the order they were submitted.                  *)
Ordered == ~ Threads => Guarded /\ WritesFirst

DInv == Rows /\ Newest /\ Chain /\ Still /\ Listed /\ Ordered

-----------------------------------------------------------------------------
(* The latest checkpoint.                                                  *)
LEMMA LatestFacts ==
  ASSUME Rows
  PROVE  /\ Latest \in DOMAIN ckpts \cup {0} /\ \A id \in DOMAIN ckpts : id <= Latest
<1>1. nextId - 1 \in Int /\ DOMAIN ckpts \cup {0} \subseteq 0..nextId - 1
  BY DEF Rows
<1>2. IsFiniteSet(0..nextId - 1)
  BY <1>1, FS_Interval
<1>3. IsFiniteSet(DOMAIN ckpts \cup {0})
  BY <1>1, <1>2, FS_Subset
<1> QED
  BY <1>1, <1>3, MaxExists DEF Latest

LEMMA NoLoopFields == DOMAIN NoLoop = LoopFields
BY DEF NoLoop, LoopFields

(* A save names its checkpoint and the parent, and has taken nothing yet.  *)
Begun(s, id, parent, src) ==
  /\ DOMAIN s = SaveFields /\ s.id = id /\ s.drained = FALSE /\ s.waits = {}
  /\ s.row.parent = parent /\ s.row.src = src

LEMMA SaveFacts ==
  ASSUME NEW l, NEW id, NEW parent, NEW cnt, NEW step, NEW src
  PROVE  Begun(Save(l, id, parent, cnt, step, src), id, parent, src)
BY DEF Save, Begun, SaveFields

LEMMA PutFacts ==
  ASSUME NEW l, DOMAIN l = LoopFields, NEW id, NEW src, PutCheckpoint(l, id, src)
  PROVE  /\ DOMAIN loop' = LoopFields /\ loop'.ck = id /\ loop'.durability = l.durability
         /\ loop'.base = l.base /\ nextId' = id + 1
         /\ l.durability = "exit" => loop'.cfg = l.cfg /\ saves' = saves
         /\ l.durability # "exit" =>
              /\ loop'.cfg = id
              /\ \E s : saves' = Append(saves, s) /\ Begun(s, id, l.cfg, src)
<1>1. nextId' = id + 1
  BY DEF PutCheckpoint
<1>2. CASE l.durability = "exit"
  <2>1. PICK cnt, c2 : loop' = [[l EXCEPT !.ck = id, !.step = @ + 1, !.pend = NoWrites,
                                          !.cnt = cnt] EXCEPT !.cnt = c2]
    BY <1>2 DEF PutCheckpoint
  <2>2. saves' = saves
    BY <1>2 DEF PutCheckpoint
  <2> QED
    BY <1>1, <1>2, <2>1, <2>2 DEF LoopFields
<1>3. CASE l.durability # "exit"
  <2> DEFINE s == Save(l, id, l.cfg, Counted(l), l.step, src)
  <2>1. saves' = Append(saves, s)
    BY <1>3 DEF PutCheckpoint
  <2>2. PICK cnt, v :
          loop' = [[l EXCEPT !.ck = id, !.step = @ + 1, !.pend = NoWrites, !.cnt = cnt]
                     EXCEPT !.cfg = id, !.ver = v, !.previous = v, !.over = FALSE]
    BY <1>3 DEF PutCheckpoint
  <2>3. Begun(s, id, l.cfg, src)
    BY SaveFacts
  <2> HIDE DEF s
  <2> QED
    BY <1>1, <1>3, <2>1, <2>2, <2>3 DEF LoopFields
<1> QED
  BY <1>2, <1>3

LEMMA EnteredFacts ==
  ASSUME NEW id, NEW d
  PROVE  LET l == Entered(id, d)
         IN  /\ DOMAIN l = LoopFields /\ l.durability = d
             /\ id = 0 => l.ck = nextId /\ l.cfg = 0 /\ l.base = nextId
             /\ id # 0 => l.ck = id /\ l.cfg = id /\ l.base = id
BY NoLoopFields DEF Entered, NoLoop, LoopFields

(* A run that keeps its writes to the exit starts from a checkpoint        *)
(* without children.                                                       *)
LEMMA BranchesFacts ==
  ASSUME CleanOnly, NEW id, id # 0, Branches(id, "exit")
  PROVE  \A i \in DOMAIN ckpts : ckpts[i].parent # id
BY DEF Branches, Unused

LEMMA InitInv == Init => DInv
<1> SUFFICES ASSUME Init PROVE DInv
  OBVIOUS
<1>1. /\ DOMAIN ckpts = {} /\ pc = "idle" /\ loop = NoLoop /\ puts = {} /\ futs = {}
      /\ saves = <<>> /\ nextId = 1
  BY DEF Init
<1>2. IsSeq(<<>>) /\ DOMAIN <<>> = {}
  BY DEF IsSeq, ToSet
<1> QED
  BY <1>1, <1>2, NoLoopFields
  DEF DInv, Rows, Newest, Chain, Still, Listed, Ordered, Guarded, WritesFirst

(* A request that begins a run: input, or no input.                        *)
LEMMA InputInv ==
  ASSUME CleanOnly \/ "exit" \notin Durabilities, DInv,
         NEW d \in Durabilities, NEW id \in DOMAIN ckpts \cup {Latest}, Input(id, d)
  PROVE  DInv'
<1>1. Rows /\ Still /\ pc = "idle" /\ puts = {} /\ futs = {} /\ saves = <<>>
  BY DEF DInv, Still, Input, Request
<1>2. id \in 0..nextId - 1 /\ (id # 0 => id \in DOMAIN ckpts)
  BY <1>1, LatestFacts DEF Rows
<1>3. PICK plan \in Plans \ {{}} :
        PutCheckpoint([Entered(id, d) EXCEPT !.due = plan],
                      IF id = 0 THEN nextId + 1 ELSE nextId, "input")
  BY DEF Input
<1>4. UNCHANGED <<ckpts, blobs, written, puts, futs>> /\ pc' = "run"
  BY DEF Input, store
<1> DEFINE l == [Entered(id, d) EXCEPT !.due = plan]
           new == IF id = 0 THEN nextId + 1 ELSE nextId
<1>5. /\ DOMAIN l = LoopFields /\ l.durability = d
      /\ id = 0 => l.cfg = 0 /\ l.base = nextId
      /\ id # 0 => l.cfg = id /\ l.base = id
  BY EnteredFacts DEF LoopFields
<1>11. PutCheckpoint(l, new, "input")
  BY <1>3
<1> HIDE DEF l
<1>6. /\ DOMAIN loop' = LoopFields /\ loop'.ck = new /\ loop'.durability = d
      /\ loop'.base = l.base /\ nextId' = new + 1
      /\ d = "exit" => loop'.cfg = l.cfg /\ saves' = saves
      /\ d # "exit" =>
           /\ loop'.cfg = new
           /\ \E s : saves' = Append(saves, s) /\ Begun(s, new, l.cfg, "input")
  <2> HIDE DEF new
  <2> QED
    BY <1>5, <1>11, PutFacts
<1>7. new \in Nat /\ nextId <= new /\ new \in 1..nextId' - 1 /\ nextId' \in Nat /\ nextId < nextId'
      /\ l.base \in 1..new /\ l.cfg \in 0..new - 1 /\ l.cfg <= l.base
  BY <1>1, <1>2, <1>5, <1>6 DEF Rows
<1>8. Rows' /\ Newest'
  <2>1. nextId \in Nat \ {0} /\ DOMAIN ckpts \subseteq 1..nextId - 1
    BY <1>1 DEF Rows
  <2>2. nextId' \in Nat \ {0} /\ DOMAIN ckpts \subseteq 1..nextId' - 1
    BY <1>7, <2>1
  <2>3. Rows'
    BY <1>1, <1>4, <2>2 DEF Rows
  <2>4. \A i \in DOMAIN ckpts : i <= new
    BY <1>7, <2>1
  <2>5. loop'.ck \in 1..nextId' - 1 /\ loop'.cfg \in 0..loop'.ck /\ loop'.base \in 1..loop'.ck
    BY <1>6, <1>7
  <2>6. Newest'
    BY <1>1, <1>4, <1>6, <2>4, <2>5 DEF Newest
  <2> QED
    BY <2>3, <2>6
<1>9. CASE d = "exit"
  <2>1. \A i \in DOMAIN ckpts : ckpts[i].parent # l.base
    <3>1. CASE id = 0
      BY <1>1, <1>5, <3>1 DEF Rows
    <3>2. CASE id # 0
      BY <1>5, <1>9, <3>2, BranchesFacts DEF Input
    <3> QED
      BY <3>1, <3>2
  <2>2. saves' = <<>> /\ puts' = {} /\ futs' = {} /\ ckpts' = ckpts
    BY <1>1, <1>4, <1>6, <1>9
  <2>3. IsSeq(<<>>) /\ DOMAIN <<>> = {}
    BY <1>1 DEF DInv, Chain
  <2> QED
    BY <1>4, <1>6, <1>7, <1>8, <1>9, <2>1, <2>2, <2>3
    DEF DInv, Chain, Still, Listed, Ordered, Guarded, WritesFirst
<1>10. CASE d # "exit"
  <2>1. PICK s : saves' = Append(saves, s) /\ Begun(s, new, l.cfg, "input")
    BY <1>6, <1>10
  <2>2. IsSeq(saves') /\ DOMAIN saves' = {1} /\ saves'[1] = s
    <3>1. IsSeq(<<>>)
      BY <1>1 DEF DInv, Chain
    <3>2. saves' = Append(<<>>, s)
      BY <1>1, <2>1
    <3>3. IsSeq(saves') /\ DOMAIN saves' = 1..Len(<<>>) + 1 /\ saves'[Len(<<>>) + 1] = s
      BY <3>1, <3>2, SeqAppend
    <3> QED
      BY <3>3
  <2>3. /\ DOMAIN s = SaveFields /\ s.id = new /\ s.drained = FALSE /\ s.waits = {}
        /\ s.row.parent = l.cfg /\ s.row.src = "input"
    BY <2>1 DEF Begun
  <2>4. Chain'
    <3>1. new \in 1..loop'.ck /\ l.cfg \in 0..new - 1
      BY <1>6, <1>7
    <3>2. \A q \in DOMAIN saves' : saves'[q] = s
      BY <2>2
    <3> QED
      BY <2>2, <2>3, <3>1, <3>2 DEF Chain
  <2>5. puts' = {} /\ WritesFirst' /\ Guarded'
    BY <1>1, <1>4 DEF WritesFirst, Guarded
  <2>6. Still' /\ Listed'
    BY <1>4, <1>6, <1>10, <2>5 DEF Still, Listed
  <2> QED
    BY <1>8, <2>4, <2>5, <2>6 DEF DInv, Ordered
<1> QED
  BY <1>9, <1>10

LEMMA ResumeInv ==
  ASSUME DInv, NEW d \in Durabilities, Resume(d)
  PROVE  DInv'
<1>1. /\ pc = "idle" /\ puts = {} /\ futs = {} /\ saves = <<>> /\ pc' = "run"
      /\ Latest # 0 /\ loop' = Entered(Latest, d)
  BY DEF DInv, Still, Resume, Request
<1>2. UNCHANGED <<ckpts, puts, futs, saves, nextId>>
  BY DEF Resume, store, work
<1>3. Latest \in DOMAIN ckpts /\ (\A id \in DOMAIN ckpts : id <= Latest)
      /\ Latest \in 1..nextId - 1 /\ nextId \in Nat
  BY <1>1, LatestFacts DEF DInv, Rows
<1>4. /\ DOMAIN loop' = LoopFields /\ loop'.durability = d
      /\ loop'.ck = Latest /\ loop'.cfg = Latest /\ loop'.base = Latest
  BY <1>1, EnteredFacts
<1> HIDE DEF Latest
<1>5. Rows' /\ Newest'
  BY <1>1, <1>2, <1>3, <1>4 DEF DInv, Rows, Newest
<1>6. \A id \in DOMAIN ckpts : ckpts[id].parent # Latest
  BY <1>3 DEF DInv, Rows
<1>7. IsSeq(<<>>) /\ DOMAIN <<>> = {}
  BY <1>1 DEF DInv, Chain
<1> QED
  BY <1>1, <1>2, <1>3, <1>4, <1>5, <1>6, <1>7
  DEF DInv, Chain, Still, Listed, Ordered, Guarded, WritesFirst

(* Between invocations only the rows change.                               *)
LEMMA IdleInv ==
  ASSUME DInv, pc = "idle", Rows', UNCHANGED <<pc, loop, puts, futs, saves>>
  PROVE  DInv'
<1>1. puts = {} /\ futs = {} /\ saves = <<>>
  BY DEF DInv, Still
<1>2. IsSeq(<<>>) /\ DOMAIN <<>> = {}
  BY <1>1 DEF DInv, Chain
<1> QED
  BY <1>1, <1>2 DEF DInv, Newest, Chain, Still, Listed, Ordered, Guarded, WritesFirst

LEMMA UpdateInv ==
  ASSUME DInv, NEW t \in Task, NEW id \in DOMAIN ckpts \cup {Latest}, UpdateState(id, t)
  PROVE  DInv'
<1> DEFINE anchor == IF id = 0 THEN nextId ELSE id
           new == IF id = 0 THEN nextId + 1 ELSE nextId
<1>1. Rows /\ pc = "idle" /\ UNCHANGED <<pc, loop, puts, futs, saves>> /\ nextId' = new + 1
  BY DEF DInv, UpdateState, Request, work
<1>2. id \in 0..nextId - 1 /\ (id # 0 => id \in DOMAIN ckpts)
  BY <1>1, LatestFacts DEF Rows
<1>3. PICK old, row : /\ ckpts' = With(With(ckpts, anchor, old), new, row)
                      /\ old.parent = IF id = 0 THEN 0 ELSE ckpts[id].parent
                      /\ row.parent = anchor
  <2> DEFINE stub == [parent |-> 0, ver |-> 0, inline |-> <<>>, flag |-> FALSE,
                     cnt |-> Zero, step |-> 1, due |-> {}, src |-> "stub"]
             old == IF id = 0 THEN stub ELSE ckpts[id]
  <2>1. PICK plan \in Plans :
          ckpts' = With(With(ckpts, anchor, old), new,
                        [stub EXCEPT !.parent = anchor, !.ver = 2 * new,
                                     !.step = old.step + 1, !.due = plan, !.src = "update"])
    BY DEF UpdateState
  <2> DEFINE row == [stub EXCEPT !.parent = anchor, !.ver = 2 * new,
                                 !.step = old.step + 1, !.due = plan, !.src = "update"]
  <2>2. row.parent = anchor
    OBVIOUS
  <2>3. old.parent = IF id = 0 THEN 0 ELSE ckpts[id].parent
    OBVIOUS
  <2> HIDE DEF old, row
  <2>4. ckpts' = With(With(ckpts, anchor, old), new, row)
    BY <2>1 DEF row
  <2> QED
    BY <2>2, <2>3, <2>4
<1>4. anchor \in 1..new - 1 /\ new \in Nat /\ nextId <= new /\ anchor <= nextId
  BY <1>1, <1>2 DEF Rows
<1>5. old.parent \in 0..anchor - 1
  BY <1>1, <1>2, <1>3 DEF Rows
<1>6. /\ DOMAIN ckpts' = DOMAIN ckpts \cup {anchor, new}
      /\ ckpts'[new].parent = anchor /\ ckpts'[anchor].parent \in 0..anchor - 1
      /\ \A i \in DOMAIN ckpts \ {anchor, new} : ckpts'[i] = ckpts[i]
  <2> DEFINE half == With(ckpts, anchor, old)
  <2>1. DOMAIN half = DOMAIN ckpts \cup {anchor} /\ half[anchor] = old
        /\ \A i \in DOMAIN ckpts \ {anchor} : half[i] = ckpts[i]
    BY DEF With
  <2>2. ckpts' = With(half, new, row)
    BY <1>3
  <2> HIDE DEF half, anchor, new
  <2>3. DOMAIN ckpts' = DOMAIN half \cup {new} /\ ckpts'[new] = row
        /\ \A i \in DOMAIN half \ {new} : ckpts'[i] = half[i]
    BY <2>2 DEF With
  <2>4. anchor # new
    BY <1>4
  <2> QED
    BY <1>3, <1>5, <2>1, <2>3, <2>4
<1> HIDE DEF anchor, new
<1>7. Rows'
  BY <1>1, <1>4, <1>6 DEF Rows
<1> QED
  BY <1>1, <1>7, IdleInv

LEMMA CopyInv ==
  ASSUME DInv, NEW id \in DOMAIN ckpts, Copy(id)
  PROVE  DInv'
<1>1. Rows /\ pc = "idle" /\ UNCHANGED <<pc, loop, puts, futs, saves>> /\ nextId' = nextId + 1
  BY DEF DInv, Copy, Request, work
<1>2. PICK row : ckpts' = With(ckpts, nextId, row)
                 /\ row = [ckpts[id] EXCEPT !.flag = BlobOf(id) # <<>>, !.cnt = Zero,
                                            !.step = @ + 1, !.src = "copy"]
  BY DEF Copy
<1>3. row.parent = ckpts[id].parent
  BY <1>2
<1>4. /\ DOMAIN ckpts' = DOMAIN ckpts \cup {nextId} /\ ckpts'[nextId] = row
      /\ \A i \in DOMAIN ckpts \ {nextId} : ckpts'[i] = ckpts[i]
  BY <1>2 DEF With
<1>5. Rows'
  BY <1>1, <1>3, <1>4 DEF Rows
<1> QED
  BY <1>1, <1>5, IdleInv

(* A task finishes.                                                        *)
LEMMA CommitInv ==
  ASSUME DInv, NEW t \in Task, Commit(t)
  PROVE  DInv'
<1>1. /\ pc = "run" /\ UNCHANGED <<ckpts, pc, saves, nextId>>
      /\ \E p : loop' = [loop EXCEPT !.pend = p]
  BY DEF Commit, store, counters
<1>2. /\ DOMAIN loop' = LoopFields
      /\ \A f \in LoopFields \ {"pend"} : loop'[f] = loop[f]
  BY <1>1 DEF DInv, Newest, LoopFields
<1>3. /\ loop'.ck = loop.ck /\ loop'.cfg = loop.cfg /\ loop'.base = loop.base
      /\ loop'.durability = loop.durability
  BY <1>2 DEF LoopFields
<1>4. \/ loop.durability = "exit" /\ UNCHANGED <<puts, futs>>
      \/ \E put : /\ loop.durability # "exit" /\ put.ck = loop.ck
                  /\ puts' = puts \cup {put}
                  /\ futs' = IF put.writes = <<>> THEN futs ELSE futs \cup {put}
  <2>1. PICK ws : /\ loop.durability = "exit" => UNCHANGED <<puts, futs>>
                  /\ loop.durability # "exit" =>
                       /\ puts' = puts \cup {[ck |-> loop.ck, tid |-> TaskId(t), writes |-> ws]}
                       /\ futs' = IF ws = <<>> THEN futs
                                  ELSE futs \cup {[ck |-> loop.ck, tid |-> TaskId(t),
                                                   writes |-> ws]}
    BY DEF Commit
  <2> DEFINE put == [ck |-> loop.ck, tid |-> TaskId(t), writes |-> ws]
  <2>2. put.ck = loop.ck /\ put.writes = ws
    OBVIOUS
  <2> HIDE DEF put
  <2>3. loop.durability # "exit" =>
          puts' = puts \cup {put} /\ futs' = IF ws = <<>> THEN futs ELSE futs \cup {put}
    BY <2>1 DEF put
  <2> QED
    BY <2>1, <2>2, <2>3
<1>5. Rows' /\ Newest' /\ Chain'
  BY <1>1, <1>2, <1>3 DEF DInv, Rows, Newest, Chain
<1>6. CASE loop.durability = "exit"
  <2>1. UNCHANGED <<puts, futs>>
    BY <1>4, <1>6
  <2> QED
    BY <1>1, <1>3, <1>5, <1>6, <2>1 DEF DInv, Still, Listed, Ordered, Guarded, WritesFirst
<1>7. CASE loop.durability # "exit"
  <2>1. PICK put : /\ put.ck = loop.ck /\ puts' = puts \cup {put}
                   /\ futs' = IF put.writes = <<>> THEN futs ELSE futs \cup {put}
    BY <1>4, <1>7
  <2>2. Still' /\ Listed'
    BY <1>1, <1>3, <1>7, <2>1 DEF DInv, Still, Listed
  <2>3. \A q \in DOMAIN saves : saves[q].row.parent # loop.ck
    BY <1>1 DEF DInv, Chain, Newest, Rows
  <2>4. \A id \in DOMAIN ckpts : ckpts[id].parent # loop.ck
    BY <1>1 DEF DInv, Newest, Rows
  <2>5. ~ Threads => Guarded'
    BY <1>1, <2>1, <2>3 DEF DInv, Ordered, Guarded
  <2>6. ~ Threads => WritesFirst'
    BY <1>1, <2>1, <2>4 DEF DInv, Ordered, WritesFirst
  <2> QED
    BY <1>5, <2>2, <2>5, <2>6 DEF DInv, Ordered
<1> QED
  BY <1>6, <1>7

(* A step is applied.                                                      *)
LEMMA AfterTickInv ==
  ASSUME DInv, AfterTick
  PROVE  DInv'
<1>1. pc = "run" /\ UNCHANGED <<ckpts, puts, futs>> /\ pc' \in {"run", "exit"}
  BY DEF AfterTick, store
<1>2. PICK l : /\ DOMAIN l = LoopFields /\ l.durability = loop.durability
               /\ l.cfg = loop.cfg /\ l.base = loop.base
               /\ PutCheckpoint(l, nextId, "loop")
  <2>1. PICK ws, exits, plan :
          PutCheckpoint([loop EXCEPT
                !.live = Updated(@, ws),
                !.ver = IF ws = <<>> THEN @ ELSE 2 * nextId,
                !.updated = ws # <<>>,
                !.over = @ \/ Overwrites(ws) # {},
                !.due = plan,
                !.exits = IF loop.durability = "exit" THEN @ \cup exits ELSE @],
                nextId, "loop")
    BY DEF AfterTick
  <2> DEFINE l == [loop EXCEPT
                !.live = Updated(@, ws),
                !.ver = IF ws = <<>> THEN @ ELSE 2 * nextId,
                !.updated = ws # <<>>,
                !.over = @ \/ Overwrites(ws) # {},
                !.due = plan,
                !.exits = IF loop.durability = "exit" THEN @ \cup exits ELSE @]
  <2>2. /\ DOMAIN l = LoopFields /\ l.durability = loop.durability
        /\ l.cfg = loop.cfg /\ l.base = loop.base
    BY DEF DInv, Newest, LoopFields
  <2>3. PutCheckpoint(l, nextId, "loop")
    BY <2>1
  <2> HIDE DEF l
  <2> QED
    BY <2>2, <2>3
<1>3. /\ DOMAIN loop' = LoopFields /\ loop'.ck = nextId /\ loop'.durability = loop.durability
      /\ loop'.base = loop.base /\ nextId' = nextId + 1
      /\ loop.durability = "exit" => loop'.cfg = loop.cfg /\ saves' = saves
      /\ loop.durability # "exit" =>
           /\ loop'.cfg = nextId
           /\ \E s : saves' = Append(saves, s) /\ Begun(s, nextId, loop.cfg, "loop")
  BY <1>2, PutFacts
<1>4. /\ nextId \in Nat \ {0} /\ loop.ck \in 1..nextId - 1 /\ loop.cfg \in 0..loop.ck
      /\ loop.base \in 1..loop.ck
  BY <1>1 DEF DInv, Rows, Newest
<1>5. Rows' /\ Newest'
  BY <1>1, <1>3, <1>4 DEF DInv, Rows, Newest
<1>6. CASE loop.durability = "exit"
  BY <1>1, <1>3, <1>4, <1>5, <1>6
  DEF DInv, Chain, Still, Listed, Ordered, Guarded, WritesFirst
<1>7. CASE loop.durability # "exit"
  <2>1. PICK s : saves' = Append(saves, s) /\ Begun(s, nextId, loop.cfg, "loop")
    BY <1>3, <1>7
  <2>2. /\ DOMAIN s = SaveFields /\ s.id = nextId /\ s.drained = FALSE /\ s.waits = {}
        /\ s.row.parent = loop.cfg /\ s.row.src = "loop"
    BY <2>1 DEF Begun
  <2>3. /\ IsSeq(saves') /\ Len(saves) \in Nat /\ DOMAIN saves = 1..Len(saves)
        /\ DOMAIN saves' = 1..Len(saves) + 1 /\ saves'[Len(saves) + 1] = s
        /\ \A q \in DOMAIN saves : saves'[q] = saves[q]
    BY <2>1, SeqAppend DEF DInv, Chain
  <2>4. Chain'
    <3>1. s.id \in 1..loop'.ck /\ s.row.parent \in 0..s.id - 1
      BY <1>3, <1>4, <2>2
    <3>2. \A q \in DOMAIN saves : saves[q].id \in 1..loop'.ck
      BY <1>3, <1>4 DEF DInv, Chain
    <3>3. \A q \in DOMAIN saves' : q \in DOMAIN saves \/ q = Len(saves) + 1
      BY <2>3
    <3> QED
      BY <2>2, <2>3, <3>1, <3>2, <3>3 DEF DInv, Chain
  <2>5. \A j \in DOMAIN saves : j \in DOMAIN saves' /\ j <= Len(saves) + 1 /\ saves'[j] = saves[j]
    BY <2>3
  <2>6. Still' /\ Listed'
    BY <1>1, <1>3, <1>7, <2>5 DEF DInv, Still, Listed
  <2>7. ~ Threads => Guarded'
    <3>1. SUFFICES ASSUME ~ Threads,
                          NEW q \in DOMAIN saves', NEW p \in puts, saves'[q].row.src = "loop",
                          p.ck = saves'[q].row.parent, p.writes # <<>>
                   PROVE  \/ p \in futs /\ ~ saves'[q].drained
                          \/ \E j \in DOMAIN saves' : j <= q /\ p \in saves'[j].waits
      BY <1>1 DEF Guarded
    <3>2. CASE q \in DOMAIN saves
      BY <2>5, <3>1, <3>2 DEF DInv, Ordered, Guarded
    <3>3. CASE q = Len(saves) + 1
      BY <1>1, <1>7, <2>2, <2>3, <2>5, <3>1, <3>3 DEF DInv, Listed
    <3> QED
      BY <2>3, <3>2, <3>3
  <2>8. ~ Threads => WritesFirst'
    BY <1>1 DEF DInv, Ordered, WritesFirst
  <2> QED
    BY <1>5, <2>4, <2>6, <2>7, <2>8 DEF DInv, Ordered
<1> QED
  BY <1>6, <1>7

LEMMA StopInv == DInv /\ Stop => DInv'
<1> SUFFICES ASSUME DInv, Stop PROVE DInv'
  OBVIOUS
<1>1. pc = "run" /\ pc' = "exit" /\ UNCHANGED <<ckpts, loop, puts, futs, saves, nextId>>
  BY DEF Stop, store, work, counters
<1> QED
  BY <1>1 DEF DInv, Rows, Newest, Chain, Still, Listed, Ordered, Guarded, WritesFirst

LEMMA OneEach ==
  ASSUME NEW a, NEW b
  PROVE  /\ <<>> \o <<>> \o <<>> = <<>> /\ <<>> \o <<a>> \o <<>> = <<a>>
         /\ <<>> \o <<>> \o <<b>> = <<b>> /\ <<>> \o <<a>> \o <<b>> = <<a, b>>
<1> DEFINE E == {a, b}
<1>1. <<>> \in Seq(E) /\ <<a>> \in Seq(E) /\ <<b>> \in Seq(E) /\ <<a, b>> \in Seq(E)
  OBVIOUS
<1> HIDE DEF E
<1>2. \A s \in Seq(E) : <<>> \o s = s /\ s \o <<>> = s
  OBVIOUS
<1>3. <<a>> \o <<b>> = <<a, b>>
  <2> DEFINE s == <<a>> \o <<b>>
  <2>1. s \in Seq(E) /\ Len(s) = 2 /\ s[1] = a /\ s[2] = b
    BY <1>1
  <2> HIDE DEF s
  <2>2. \A t \in Seq(E) : Len(t) = 2 => t = <<t[1], t[2]>>
    OBVIOUS
  <2>3. s = <<s[1], s[2]>>
    BY <2>1, <2>2
  <2>4. s = <<a, b>>
    BY <2>1, <2>3
  <2> QED
    BY <2>4 DEF s
<1> QED
  BY <1>1, <1>2, <1>3

(* The end of an invocation.                                               *)
LEMMA LeaveInv ==
  ASSUME DInv, LeaveLoop
  PROVE  DInv'
<1>1. pc = "exit" /\ pc' = "closing" /\ UNCHANGED <<ckpts, loop, nextId>>
  BY DEF LeaveLoop, store, counters
<1>2. Rows' /\ Newest' /\ Still' /\ Listed'
  BY <1>1 DEF DInv, Rows, Newest, Still, Listed
<1>3. CASE loop.durability # "exit"
  <2>1. UNCHANGED <<puts, futs, saves>>
    BY <1>3 DEF LeaveLoop, work
  <2> QED
    BY <1>1, <1>2, <2>1 DEF DInv, Chain, Ordered, Guarded, WritesFirst
<1>4. CASE loop.durability = "exit"
  <2> DEFINE exits  == IF Snapshots(loop.cnt, loop.over) THEN {} ELSE loop.exits
             deltas == {[ck |-> loop.base, tid |-> [e.tid EXCEPT !.pre = e.step],
                         writes |-> e.writes] : e \in exits}
             rest   == {[ck |-> loop.ck, tid |-> t, writes |-> loop.pend[t]] :
                          t \in DOMAIN loop.pend}
             stub   == exits # {} /\ ~ loop.persisted
             base   == Save(NoLoop, loop.base, 0, Zero, 0, "stub")
             final  == Save(loop, loop.ck, IF stub THEN loop.base ELSE loop.cfg, loop.cnt,
                            loop.step - 1, "loop")
  <2>1. /\ puts' = puts \cup deltas \cup rest /\ futs' = futs \cup deltas
        /\ saves' = saves \o (IF stub THEN <<base>> ELSE <<>>)
                          \o (IF loop.ck = loop.base THEN <<>> ELSE <<final>>)
    BY <1>4 DEF LeaveLoop
  <2>2. \A p \in deltas : p.ck = loop.base
    OBVIOUS
  <2>3. \A p \in rest : p.ck = loop.ck
    OBVIOUS
  <2>4. /\ Begun(base, loop.base, 0, "stub")
        /\ Begun(final, loop.ck, IF stub THEN loop.base ELSE loop.cfg, "loop")
    BY SaveFacts
  <2> HIDE DEF deltas, rest, stub, base, final
  <2>5. /\ DOMAIN base = SaveFields /\ DOMAIN final = SaveFields
        /\ base.id = loop.base /\ base.drained = FALSE /\ base.waits = {}
        /\ base.row.parent = 0 /\ base.row.src = "stub"
        /\ final.id = loop.ck /\ final.drained = FALSE /\ final.waits = {}
        /\ final.row.parent \in {loop.base, loop.cfg} /\ final.row.src = "loop"
    BY <2>4 DEF Begun
  <2>6. /\ puts = {} /\ futs = {} /\ saves = <<>> /\ loop.cfg <= loop.base
        /\ \A id \in DOMAIN ckpts : ckpts[id].parent # loop.base
    BY <1>1, <1>4 DEF DInv, Still
  <2>7. /\ nextId \in Nat \ {0} /\ loop.ck \in 1..nextId - 1 /\ loop.cfg \in 0..loop.ck
        /\ loop.base \in 1..loop.ck /\ \A id \in DOMAIN ckpts : id <= loop.ck
    BY <1>1 DEF DInv, Rows, Newest
  <2>8. /\ IsSeq(saves')
        /\ \A q \in DOMAIN saves' : \/ saves'[q] = base
                                    \/ saves'[q] = final /\ loop.ck # loop.base
    <3>1. \/ saves' \in {<<>>, <<base>>}
          \/ saves' \in {<<final>>, <<base, final>>} /\ loop.ck # loop.base
      <4>1. /\ <<>> \o <<>> \o <<>> = <<>> /\ <<>> \o <<base>> \o <<>> = <<base>>
            /\ <<>> \o <<>> \o <<final>> = <<final>>
            /\ <<>> \o <<base>> \o <<final>> = <<base, final>>
        BY OneEach
      <4> QED
        BY <2>1, <2>6, <4>1
    <3>2. /\ IsSeq(<<>>) /\ IsSeq(<<base>>) /\ IsSeq(<<final>>) /\ IsSeq(<<base, final>>)
      <4>1. <<>> \in Seq({base}) /\ <<base>> \in Seq({base}) /\ <<final>> \in Seq({final})
            /\ <<base, final>> \in Seq({base, final})
        OBVIOUS
      <4> QED
        BY <4>1, SeqRange
    <3>3. \A q \in DOMAIN <<base, final>> : <<base, final>>[q] \in {base, final}
      OBVIOUS
    <3> QED
      BY <3>1, <3>2, <3>3
  <2>9. Chain'
    <3>1. loop.ck \in Nat \ {0} /\ loop'.ck = loop.ck /\ loop.base \in 1..loop.ck
      BY <1>1, <2>7
    <3>2. base.id \in 1..loop.ck /\ base.row.parent \in 0..base.id - 1
      BY <2>5, <3>1
    <3>3. final.id \in 1..loop.ck /\ (loop.ck # loop.base => final.row.parent \in 0..final.id - 1)
      BY <2>5, <2>6, <2>7, <3>1
    <3> QED
      BY <2>5, <2>8, <3>1, <3>2, <3>3 DEF Chain
  <2>10. \A p \in puts' : \/ p \in futs' /\ p.ck = loop.base
                          \/ p.ck = loop.ck
    BY <2>1, <2>2, <2>3, <2>6
  <2>11. Guarded'
    <3>1. SUFFICES ASSUME NEW q \in DOMAIN saves', NEW p \in puts', saves'[q].row.src = "loop",
                          p.ck = saves'[q].row.parent
                   PROVE  p \in futs' /\ ~ saves'[q].drained
      BY DEF Guarded
    <3>2. saves'[q] = final /\ loop.ck # loop.base
      BY <2>5, <2>8, <3>1
    <3>3. p.ck # loop.ck
      BY <2>5, <2>6, <2>7, <3>1, <3>2
    <3> QED
      BY <2>5, <2>10, <3>2, <3>3
  <2>12. WritesFirst'
    <3>1. \A id \in DOMAIN ckpts : ckpts[id].parent # loop.ck
      BY <2>7 DEF DInv, Rows
    <3> QED
      BY <1>1, <2>6, <2>10, <3>1 DEF WritesFirst
  <2> QED
    BY <1>2, <2>9, <2>11, <2>12 DEF DInv, Ordered
<1> QED
  BY <1>3, <1>4

LEMMA ForgetInv ==
  ASSUME DInv, Forget, UNCHANGED <<ckpts, nextId>>
  PROVE  DInv'
<1>1. /\ pc' = "idle" /\ loop' = NoLoop /\ puts' = {} /\ futs' = {} /\ saves' = <<>>
  BY DEF Forget
<1>2. IsSeq(<<>>) /\ DOMAIN <<>> = {}
  BY DEF IsSeq, ToSet
<1> QED
  BY <1>1, <1>2, NoLoopFields
  DEF DInv, Rows, Newest, Chain, Still, Listed, Ordered, Guarded, WritesFirst

LEMMA WriteInv == DInv /\ SaveWrites => DInv'
<1> SUFFICES ASSUME DInv, SaveWrites PROVE DInv'
  OBVIOUS
<1>1. /\ puts' \subseteq puts /\ puts # {}
      /\ UNCHANGED <<ckpts, pc, loop, futs, saves, nextId>>
  BY DEF SaveWrites, counters
<1> QED
  BY <1>1 DEF DInv, Rows, Newest, Chain, Still, Listed, Ordered, Guarded, WritesFirst

(* A save begins, after those before it, and takes the list.               *)
LEMMA DrainInv ==
  ASSUME DInv, NEW q \in DOMAIN saves, Drain(q)
  PROVE  DInv'
<1>1. /\ ~ saves[q].drained /\ (~ Threads => \A p \in 1 .. q - 1 : saves[p].drained)
      /\ saves' = [saves EXCEPT ![q].drained = TRUE, ![q].waits = futs]
      /\ futs' = {} /\ UNCHANGED <<ckpts, pc, loop, puts, nextId>>
  BY DEF Drain, store, counters
<1>2. IsSeq(saves) /\ saves # <<>> /\ DOMAIN saves = 1..Len(saves) /\ Len(saves) \in Nat
  BY DEF DInv, Chain, IsSeq
<1> DEFINE s == [saves[q] EXCEPT !.drained = TRUE, !.waits = futs]
<1>3. /\ DOMAIN s = SaveFields /\ s.drained = TRUE /\ s.waits = futs
      /\ s.id = saves[q].id /\ s.row = saves[q].row
  BY DEF DInv, Chain, SaveFields
<1>4. saves' = [saves EXCEPT ![q] = s]
  BY <1>1
<1> HIDE DEF s
<1>5. /\ IsSeq(saves') /\ DOMAIN saves' = DOMAIN saves /\ saves'[q] = s
      /\ \A j \in DOMAIN saves \ {q} : saves'[j] = saves[j]
  <2> DEFINE E == ToSet(saves) \cup {s}
  <2>1. saves \in Seq(E)
    BY <1>2 DEF IsSeq, ToSet
  <2>2. s \in E
    OBVIOUS
  <2> HIDE DEF E
  <2>3. saves' \in Seq(E) /\ DOMAIN saves' = DOMAIN saves /\ saves'[q] = s
        /\ \A j \in DOMAIN saves \ {q} : saves'[j] = saves[j]
    BY <1>4, <2>1, <2>2
  <2> QED
    BY <2>3, SeqRange
<1>6. Rows' /\ Newest' /\ Still' /\ (~ Threads => WritesFirst')
  BY <1>1, <1>2 DEF DInv, Rows, Newest, Still, Ordered, WritesFirst
<1>7. Chain'
  BY <1>1, <1>3, <1>5 DEF DInv, Chain
<1>8. \A p \in futs : p \in saves'[q].waits
  BY <1>3, <1>5
<1>9. \A j \in DOMAIN saves : \A p : p \in saves[j].waits => p \in saves'[j].waits
  <2>1. saves[q].waits = {}
    BY <1>1 DEF DInv, Chain
  <2> QED
    BY <1>5, <2>1
<1>10. Listed'
  BY <1>1, <1>5, <1>8, <1>9 DEF DInv, Listed
<1>11. ~ Threads => Guarded'
  <2>1. SUFFICES ASSUME ~ Threads, NEW r \in DOMAIN saves, NEW p \in puts, saves[r].row.src = "loop",
                        p.ck = saves[r].row.parent, p.writes # <<>>
                 PROVE  \E j \in DOMAIN saves : j <= r /\ p \in saves'[j].waits
    BY <1>1, <1>3, <1>5 DEF Guarded
  <2>2. \/ p \in futs /\ ~ saves[r].drained
        \/ \E j \in DOMAIN saves : j <= r /\ p \in saves[j].waits
    BY <2>1 DEF DInv, Ordered, Guarded
  <2>3. ~ saves[r].drained => q <= r
    BY <1>1, <1>2, <2>1
  <2> QED
    BY <1>8, <1>9, <2>2, <2>3
<1> QED
  BY <1>6, <1>7, <1>10, <1>11 DEF DInv, Ordered

(* The oldest save is put.                                                 *)
LEMMA SaveInv == DInv /\ SaveCheckpoint => DInv'
<1> SUFFICES ASSUME DInv, SaveCheckpoint PROVE DInv'
  OBVIOUS
<1> DEFINE save == Head(saves)
<1>1. /\ saves # <<>> /\ save.drained /\ save.waits \cap puts = {}
      /\ ckpts' = With(ckpts, save.id, save.row) /\ saves' = Tail(saves)
      /\ UNCHANGED <<pc, loop, puts, futs, nextId>>
  BY DEF SaveCheckpoint, MayPut, counters
<1>2. /\ IsSeq(saves') /\ Len(saves) \in Nat \ {0} /\ DOMAIN saves = 1..Len(saves)
      /\ save = saves[1] /\ DOMAIN saves' = 1..Len(saves) - 1
      /\ \A i \in DOMAIN saves' : saves'[i] = saves[i + 1] /\ i + 1 \in DOMAIN saves
  BY <1>1, SeqTail DEF DInv, Chain
<1> HIDE DEF save
<1>3. pc # "idle" /\ (pc \in {"run", "exit"} => loop.durability # "exit")
  BY <1>1 DEF DInv, Still
<1>4. /\ save.id \in 1..loop.ck /\ save.row.parent \in 0..save.id - 1
      /\ nextId \in Nat /\ loop.ck \in 1..nextId - 1
  BY <1>2, <1>3 DEF DInv, Chain, Newest, Rows
<1>5. /\ DOMAIN ckpts' = DOMAIN ckpts \cup {save.id} /\ ckpts'[save.id] = save.row
      /\ \A i \in DOMAIN ckpts \ {save.id} : ckpts'[i] = ckpts[i]
  BY <1>1 DEF With
<1>6. Rows' /\ Newest'
  BY <1>1, <1>4, <1>5 DEF DInv, Rows, Newest
<1>7. Chain'
  BY <1>1, <1>2 DEF DInv, Chain
<1>8. Still'
  BY <1>1, <1>3 DEF Still
<1>9. \A p \in puts : \A j \in DOMAIN saves :
        p \in saves[j].waits => \E i \in DOMAIN saves' : i + 1 = j /\ p \in saves'[i].waits
  <2>1. SUFFICES ASSUME NEW p \in puts, NEW j \in DOMAIN saves, p \in saves[j].waits
                 PROVE  \E i \in DOMAIN saves' : i + 1 = j /\ p \in saves'[i].waits
    OBVIOUS
  <2>2. j # 1
    BY <1>1, <1>2, <2>1
  <2>3. j - 1 \in DOMAIN saves' /\ (j - 1) + 1 = j
    BY <1>2, <2>2
  <2> QED
    BY <1>2, <2>1, <2>3
<1>10. Listed'
  BY <1>1, <1>9 DEF DInv, Listed
<1>11. ~ Threads => Guarded'
  <2>1. SUFFICES ASSUME ~ Threads, NEW q \in DOMAIN saves', NEW p \in puts, saves'[q].row.src = "loop",
                        p.ck = saves'[q].row.parent, p.writes # <<>>
                 PROVE  \/ p \in futs /\ ~ saves'[q].drained
                        \/ \E j \in DOMAIN saves' : j <= q /\ p \in saves'[j].waits
    BY <1>1 DEF Guarded
  <2>2. saves'[q] = saves[q + 1] /\ q + 1 \in DOMAIN saves /\ q \in Nat
    BY <1>2
  <2>3. \/ p \in futs /\ ~ saves[q + 1].drained
        \/ \E j \in DOMAIN saves : j <= q + 1 /\ p \in saves[j].waits
    BY <2>1, <2>2 DEF DInv, Ordered, Guarded
  <2>4. ASSUME NEW j \in DOMAIN saves, j <= q + 1, p \in saves[j].waits
        PROVE  \E i \in DOMAIN saves' : i <= q /\ p \in saves'[i].waits
    BY <1>2, <1>9, <2>2, <2>4
  <2> QED
    BY <2>2, <2>3, <2>4
<1>12. ~ Threads => WritesFirst'
  <2>1. ASSUME ~ Threads, NEW p \in puts, p.ck = save.row.parent, p.writes # <<>>, save.row.src = "loop"
        PROVE  FALSE
    <3>1. 1 \in DOMAIN saves
      BY <1>2
    <3>2. \/ p \in futs /\ ~ saves[1].drained
          \/ \E j \in DOMAIN saves : j <= 1 /\ p \in saves[j].waits
      BY <1>2, <2>1, <3>1 DEF DInv, Ordered, Guarded
    <3> QED
      BY <1>1, <1>2, <3>2
  <2> QED
    BY <1>1, <1>5, <2>1 DEF DInv, Ordered, WritesFirst
<1> QED
  BY <1>6, <1>7, <1>8, <1>10, <1>11, <1>12 DEF DInv, Ordered

LEMMA StepInv ==
  ASSUME CleanOnly \/ "exit" \notin Durabilities
  PROVE  DInv /\ [Next]_vars => DInv'
<1> SUFFICES ASSUME DInv, [Next]_vars PROVE DInv'
  OBVIOUS
<1>1. CASE \E d \in Durabilities : \E id \in DOMAIN ckpts \cup {Latest} : Input(id, d)
  BY <1>1, InputInv
<1>2. CASE \E d \in Durabilities : Resume(d)
  BY <1>2, ResumeInv
<1>3. CASE \E t \in Task : \E id \in DOMAIN ckpts \cup {Latest} : UpdateState(id, t)
  BY <1>3, UpdateInv
<1>4. CASE \E id \in DOMAIN ckpts : Copy(id)
  BY <1>4, CopyInv
<1>5. CASE \E t \in Task : Commit(t)
  BY <1>5, CommitInv
<1>6. CASE AfterTick
  BY <1>6, AfterTickInv
<1>7. CASE Stop
  BY <1>7, StopInv
<1>8. CASE LeaveLoop
  BY <1>8, LeaveInv
<1>9. CASE Close \/ Crash
  <2>1. Forget /\ UNCHANGED <<ckpts, nextId>>
    BY <1>9 DEF Close, Crash, store, counters
  <2> QED
    BY <2>1, ForgetInv
<1>10. CASE SaveWrites
  BY <1>10, WriteInv
<1>11. CASE \E q \in DOMAIN saves : Drain(q)
  BY <1>11, DrainInv
<1>12. CASE SaveCheckpoint
  BY <1>12, SaveInv
<1>13. CASE UNCHANGED vars
  BY <1>13 DEF vars, DInv, Rows, Newest, Chain, Still, Listed, Ordered, Guarded, WritesFirst
<1> QED
  BY <1>1, <1>2, <1>3, <1>4, <1>5, <1>6, <1>7, <1>8, <1>9, <1>10, <1>11, <1>12, <1>13 DEF Next

(* A checkpoint that a step made never becomes durable before the writes   *)
(* that produced it (_delta_write_futs), when saves begin in the order     *)
(* they were submitted, as the tasks of an event loop do, and a run that   *)
(* keeps its writes to the exit starts from a checkpoint without children. *)
THEOREM WritesComeFirst ==
  ASSUME ~ Threads, CleanOnly \/ "exit" \notin Durabilities
  PROVE  Spec => []WritesFirst
<1>1. Init => DInv
  BY InitInv
<1>2. DInv /\ [Next]_vars => DInv'
  BY StepInv
<1>3. DInv => WritesFirst
  BY DEF DInv, Ordered
<1> QED
  BY <1>1, <1>2, <1>3, PTL DEF Spec

-----------------------------------------------------------------------------
(* What bounds a replay.  The rows are those stored and those on their way *)
(* to the store, the entries of a checkpoint likewise.                     *)
KRows ==
  {[id |-> i, row |-> ckpts[i]] : i \in DOMAIN ckpts}
    \cup {[id |-> saves[q].id, row |-> saves[q].row] : q \in DOMAIN saves}
Entries(i) ==
  {[tid |-> p.tid, writes |-> p.writes] : p \in {x \in puts : x.ck = i}}
    \cup (IF i \in DOMAIN written THEN ToSet(written[i]) ELSE {})
AtsOf(es) == {w.at : w \in UNION {ToSet(e.writes) : e \in es}}
Ats(i)    == AtsOf(Entries(i))
Counters  == [u : Nat, s : Nat]

(* Entries have one task each, ids that were given out, and steps of the   *)
(* past.                                                                   *)
Stored ==
  /\ nextId <= MaxId + 1
  /\ DOMAIN written = 1..MaxId
  /\ \A i \in 1..MaxId :
       /\ IsSeq(written[i]) /\ (i >= nextId => written[i] = <<>>)
       /\ \A e, f \in ToSet(written[i]) : e.tid = f.tid => e = f
  /\ \A p \in puts : p.ck \in 1..nextId - 1
  /\ \A i \in 1..MaxId : \A e \in Entries(i) :
       IsSeq(e.writes) /\ \A w \in ToSet(e.writes) : w.at \in 1..nextId - 1

RowFields == {"parent", "ver", "inline", "flag", "cnt", "step", "due", "src"}
RowOK(k) ==
  /\ DOMAIN k.row = RowFields
  /\ k.row.ver \in 0..2 * k.id + 1 /\ k.row.cnt \in Counters /\ k.row.due \subseteq Task
  /\ k.row.inline # <<>> => k.row.flag = TRUE /\ k.row.ver # 0
(* A row with a snapshot has it wherever a saver looks for it.             *)
Seeded ==
  /\ \A k \in KRows : RowOK(k)
  /\ \A i \in DOMAIN ckpts : ckpts[i].inline # <<>> => ckpts[i].ver \in DOMAIN blobs
  /\ \A q \in DOMAIN saves : saves[q].row.inline # <<>> => saves[q].blob = TRUE

(* The counters of a row that the loop made have counted the step to it    *)
(* from its parent and the writes of the parent, or have started anew with *)
(* a snapshot; a row without the channel has no writes before it.          *)
Follows(c, p) ==
  /\ c.row.ver = 0 => p.row.ver = 0 /\ Ats(p.id) = {}
  /\ c.row.ver # 0 /\ c.row.inline = <<>> =>
       /\ c.row.cnt.s >= p.row.cnt.s + 1
       /\ c.row.cnt.u >= p.row.cnt.u + Cardinality(Ats(p.id))
Steady(c) ==
  c.row.src \notin {"update", "copy"} =>
    /\ c.row.cnt.u < Freq /\ c.row.cnt.s < MaxSupersteps
    /\ \A p \in KRows : p.id = c.row.parent => Follows(c, p)
Edges == \A c \in KRows : Steady(c)

(* Every write stored under the latest checkpoint is of a task it calls    *)
(* for, and is taken up by a resume.                                       *)
Owned(es, i, due) ==
  \A e \in es : e.writes # <<>> =>
    /\ \E t \in due : e.tid = [pre |-> Hashed, ck |-> i, by |-> t]
    /\ \A w \in ToSet(e.writes) : w.at = i
Owners ==
  /\ \A k \in KRows :
       /\ \A j \in DOMAIN ckpts : j <= k.id
       /\ pc = "idle" \/ loop.durability # "exit" \/ k.id = loop.ck
       => Owned(Entries(k.id), k.id, k.row.due)
  /\ pc = "closing" /\ loop.durability = "exit" => \E k \in KRows : k.id = loop.ck

(* The loop.                                                               *)
AtExit == AtsOf(loop.exits)
Running ==
  /\ pc # "idle" =>
       /\ loop.due \subseteq Task /\ \A k \in KRows : k.id = loop.ck => k.row.due = loop.due
  /\ pc \in {"run", "exit"} =>
       /\ loop.cnt \in Counters
       /\ loop.ver \in 0..2 * loop.ck + 1 /\ loop.previous \in 0..2 * loop.cfg + 1
       /\ loop.updated \in BOOLEAN /\ (loop.updated => loop.ver = 2 * loop.ck)
       /\ \A t \in DOMAIN loop.pend :
            /\ IsSeq(loop.pend[t])
            /\ loop.pend[t] # <<>> => /\ \E u \in loop.due : t = TaskId(u)
                                      /\ \A w \in ToSet(loop.pend[t]) : w.at = loop.ck
(* One that saves each step.                                               *)
Saving ==
  pc \in {"run", "exit"} /\ loop.durability # "exit" =>
    /\ loop.cfg = loop.ck
    /\ \A k \in KRows : k.id = loop.ck => k.row.ver = loop.ver /\ k.row.cnt = loop.cnt
    /\ \A e \in Entries(loop.ck) : e.writes # <<>> =>
         /\ e.tid \in DOMAIN loop.pend /\ loop.pend[e.tid] # <<>>
         /\ \A w \in ToSet(e.writes) : w.at = loop.ck
(* One that keeps its writes to the exit.                                  *)
Keeping ==
  pc \in {"run", "exit"} /\ loop.durability = "exit" =>
    /\ Entries(loop.base) = {} /\ Entries(loop.ck) = {}
    /\ loop.cfg = IF loop.persisted THEN loop.base ELSE 0
    /\ ~ loop.persisted => \A k \in KRows : k.id # loop.base
    /\ loop.ck = loop.base => \E k \in KRows : k.id = loop.ck
    /\ \A e \in loop.exits : /\ IsSeq(e.writes)
                             /\ \A w \in ToSet(e.writes) : w.at \in 1..nextId - 1
    /\ loop.ver = 0 \/ loop.ck = loop.base => loop.exits = {}
    /\ loop.cnt.u >= Cardinality(AtExit)
    /\ loop.ck # loop.base => loop.cnt.s >= 1
    /\ \A k \in KRows : k.id = loop.cfg =>
         /\ loop.ver = 0 => k.row.ver = 0
         /\ loop.cnt.s >= k.row.cnt.s + (IF loop.ck = loop.base THEN 0 ELSE 1)
         /\ loop.cnt.u >= k.row.cnt.u + Cardinality(AtExit)

RInv == Stored /\ Seeded /\ Edges /\ Owners /\ Running /\ Saving /\ Keeping

-----------------------------------------------------------------------------
(* Entries and their steps.                                                *)

LEMMA AtsMonotone ==
  ASSUME NEW es, NEW fs, es \subseteq fs
  PROVE  AtsOf(es) \subseteq AtsOf(fs)
BY DEF AtsOf

LEMMA AtsFinite ==
  ASSUME NEW es, NEW n \in Nat, \A e \in es : \A w \in ToSet(e.writes) : w.at \in 1..n
  PROVE  /\ AtsOf(es) \subseteq 1..n /\ IsFiniteSet(AtsOf(es))
         /\ Cardinality(AtsOf(es)) \in Nat
<1>1. AtsOf(es) \subseteq 1..n
  BY DEF AtsOf
<1>2. IsFiniteSet(1..n)
  BY FS_Interval
<1>3. IsFiniteSet(AtsOf(es))
  BY <1>1, <1>2, FS_Subset
<1> QED
  BY <1>1, <1>3, FS_CardinalityType

(* Entries that wrote nothing have no step.                                *)
LEMMA AtsEmpty ==
  ASSUME NEW es, \A e \in es : e.writes = <<>>
  PROVE  AtsOf(es) = {}
<1>1. ToSet(<<>>) = {}
  BY DEF ToSet
<1> QED
  BY <1>1 DEF AtsOf

(* Entries of one step.                                                    *)
LEMMA AtsOne ==
  ASSUME NEW es, NEW i, \A e \in es : e.writes # <<>> => \A w \in ToSet(e.writes) : w.at = i
  PROVE  AtsOf(es) \subseteq {i}
<1>1. ToSet(<<>>) = {}
  BY DEF ToSet
<1> QED
  BY <1>1 DEF AtsOf

(* One more element.                                                       *)
LEMMA OneMore ==
  ASSUME NEW S, IsFiniteSet(S), NEW T, NEW i, T \subseteq S \cup {i}
  PROVE  IsFiniteSet(T) /\ Cardinality(T) \in Nat /\ Cardinality(T) <= Cardinality(S) + 1
<1>1. /\ IsFiniteSet(S \cup {i}) /\ Cardinality(S) \in Nat
      /\ Cardinality(S \cup {i}) = Cardinality(S) \/ Cardinality(S \cup {i}) = Cardinality(S) + 1
  BY FS_AddElement, FS_CardinalityType
<1>2. IsFiniteSet(T) /\ Cardinality(T) <= Cardinality(S \cup {i})
  BY <1>1, FS_Subset
<1> QED
  BY <1>1, <1>2, FS_CardinalityType

LEMMA Fewer ==
  ASSUME NEW S, IsFiniteSet(S), NEW T \in SUBSET S
  PROVE  /\ IsFiniteSet(T) /\ Cardinality(T) \in Nat /\ Cardinality(S) \in Nat
         /\ Cardinality(T) <= Cardinality(S)
BY FS_Subset, FS_CardinalityType

(* What put_writes adds.                                                   *)
LEMMA InsertFacts ==
  ASSUME NEW s, IsSeq(s), NEW i \in 1..Len(s) + 1, NEW e
  PROVE  IsSeq(InsertAt(s, i, e)) /\ ToSet(InsertAt(s, i, e)) = ToSet(s) \cup {e}
<1> DEFINE E == ToSet(s)
           a == SubSeq(s, 1, i - 1)
           b == SubSeq(s, i, Len(s))
<1>1. s \in Seq(E) /\ Len(s) \in Nat /\ DOMAIN s = 1..Len(s)
  BY DEF IsSeq
<1> HIDE DEF E
<1>2. a \in Seq(E) /\ Len(a) = i - 1 /\ \A q \in 1..i - 1 : a[q] = s[q]
  BY <1>1
<1>3. b \in Seq(E) /\ Len(b) = Len(s) - i + 1 /\ \A q \in 1..Len(s) - i + 1 : b[q] = s[i + q - 1]
  BY <1>1
<1>4. ToSet(s) = ToSet(a) \cup ToSet(b)
  <2>1. ToSet(a) \cup ToSet(b) \subseteq ToSet(s)
    BY <1>1, <1>2, <1>3 DEF ToSet
  <2>2. ASSUME NEW q \in 1..Len(s) PROVE s[q] \in ToSet(a) \cup ToSet(b)
    <3>1. CASE q < i
      <4>1. q \in 1..i - 1 /\ q \in DOMAIN a
        BY <1>2, <3>1
      <4> QED
        BY <1>2, <4>1 DEF ToSet
    <3>2. CASE ~ q < i
      <4>1. q - i + 1 \in 1..Len(s) - i + 1 /\ i + (q - i + 1) - 1 = q /\ q - i + 1 \in DOMAIN b
        BY <1>1, <1>3, <3>2
      <4>2. b[q - i + 1] = s[q]
        BY <1>3, <4>1
      <4> QED
        BY <4>1, <4>2 DEF ToSet
    <3> QED
      BY <3>1, <3>2
  <2> QED
    BY <1>1, <2>1, <2>2 DEF ToSet
<1>5. IsSeq(a) /\ IsSeq(b)
  BY <1>2, <1>3, SeqRange
<1>6. <<e>> \in Seq({e}) /\ IsSeq(<<e>>) /\ ToSet(<<e>>) = {e}
  <2>1. <<e>> \in Seq({e}) /\ DOMAIN <<e>> = {1} /\ <<e>>[1] = e
    OBVIOUS
  <2> QED
    BY <2>1, SeqRange DEF ToSet
<1> HIDE DEF a, b
<1>7. IsSeq(a \o <<e>>) /\ ToSet(a \o <<e>>) = ToSet(a) \cup {e}
  BY <1>5, <1>6, SeqJoin
<1>8. IsSeq((a \o <<e>>) \o b) /\ ToSet((a \o <<e>>) \o b) = ToSet(a) \cup {e} \cup ToSet(b)
  BY <1>5, <1>7, SeqJoin
<1> QED
  BY <1>4, <1>8 DEF InsertAt, a, b

LEMMA PutWritesFacts ==
  ASSUME NEW st, NEW p, p.ck \in DOMAIN st, IsSeq(st[p.ck])
  PROVE  LET e  == [tid |-> p.tid, writes |-> p.writes]
             tt == PutWrites(st, p)
         IN  /\ DOMAIN tt = DOMAIN st /\ \A i \in DOMAIN st \ {p.ck} : tt[i] = st[i]
             /\ IsSeq(tt[p.ck])
             /\ \/ tt = st
                \/ /\ ToSet(tt[p.ck]) = ToSet(st[p.ck]) \cup {e}
                   /\ \A f \in ToSet(st[p.ck]) : f.tid # p.tid
<1> DEFINE e == [tid |-> p.tid, writes |-> p.writes]
           s == st[p.ck]
           k == {i \in DOMAIN s : Before(s[i].tid, p.tid)}
           n == 1 + Cardinality(k)
<1>1. CASE \E f \in ToSet(s) : f.tid = p.tid
  BY <1>1 DEF PutWrites
<1>2. CASE ~ \E f \in ToSet(s) : f.tid = p.tid
  <2>1. n \in 1..Len(s) + 1
    <3>1. IsFiniteSet(1..Len(s)) /\ Cardinality(1..Len(s)) = Len(s)
          /\ Len(s) \in Nat /\ DOMAIN s = 1..Len(s)
      <4>1. Len(s) \in Nat /\ DOMAIN s = 1..Len(s)
        BY DEF IsSeq
      <4> QED
        BY <4>1, FS_Interval
    <3>2. Cardinality(k) \in Nat /\ Cardinality(k) <= Len(s)
      <4>1. k \in SUBSET (1..Len(s))
        BY <3>1
      <4> HIDE DEF k
      <4> QED
        BY <3>1, <4>1, Fewer
    <3> HIDE DEF k
    <3> QED
      BY <3>1, <3>2
  <2>2. PutWrites(st, p) = [st EXCEPT ![p.ck] = InsertAt(s, n, e)]
    BY <1>2 DEF PutWrites
  <2> HIDE DEF n, e
  <2>3. IsSeq(InsertAt(s, n, e)) /\ ToSet(InsertAt(s, n, e)) = ToSet(s) \cup {e}
    BY <2>1, InsertFacts
  <2> DEFINE v == InsertAt(s, n, e)
  <2> HIDE DEF v
  <2>4. PutWrites(st, p) = [st EXCEPT ![p.ck] = v] /\ IsSeq(v) /\ ToSet(v) = ToSet(s) \cup {e}
    BY <2>2, <2>3 DEF v
  <2> QED
    BY <1>2, <2>4 DEF e
<1> QED
  BY <1>1, <1>2

-----------------------------------------------------------------------------
(* The walk over the ancestors.                                            *)

AllWrites == UNION {UNION {ToSet(e.writes) : e \in ToSet(written[i])} : i \in 1..MaxId}
AtsIn(ws) == {w.at : w \in ToSet(ws)}

LEMMA WritesAtFacts ==
  ASSUME Stored, NEW i \in 1..MaxId
  PROVE  WritesAt(i) \in Seq(AllWrites) /\ AtsIn(WritesAt(i)) \subseteq Ats(i)
<1> DEFINE s == written[i]
           ss == [k \in DOMAIN s |-> s[k].writes]
<1>1. IsSeq(s) /\ Len(s) \in Nat /\ DOMAIN s = 1..Len(s) /\ \A k \in DOMAIN s : s[k] \in ToSet(s)
  BY DEF Stored, IsSeq, ToSet
<1>2. \A e \in ToSet(s) : e \in Entries(i) /\ IsSeq(e.writes)
  <2>1. ToSet(s) \subseteq Entries(i)
    BY DEF Stored, Entries
  <2> QED
    BY <2>1 DEF Stored
<1>3. \A e \in ToSet(s) : ToSet(e.writes) \subseteq AllWrites
  BY DEF AllWrites
<1>4. \A k \in DOMAIN s : s[k].writes \in Seq(AllWrites)
  <2>1. ASSUME NEW k \in DOMAIN s PROVE s[k].writes \in Seq(AllWrites)
    <3>1. s[k].writes \in Seq(ToSet(s[k].writes)) /\ ToSet(s[k].writes) \subseteq AllWrites
      BY <1>1, <1>2, <1>3 DEF IsSeq
    <3> QED
      BY <3>1
  <2> QED
    BY <2>1
<1>5. ss \in Seq(Seq(AllWrites)) /\ DOMAIN ss = DOMAIN s
  BY <1>1, <1>4
<1>6. WritesAt(i) = FlattenSeq(ss)
  BY DEF WritesAt
<1>7. ToSet(WritesAt(i)) = UNION {ToSet(ss[k]) : k \in DOMAIN ss} /\ WritesAt(i) \in Seq(AllWrites)
  <2> HIDE DEF ss
  <2> QED
    BY <1>5, <1>6, FlattenFacts
<1>8. ASSUME NEW w \in ToSet(WritesAt(i)) PROVE w.at \in Ats(i)
  <2>1. PICK k \in DOMAIN s : w \in ToSet(s[k].writes)
    BY <1>5, <1>7
  <2>2. s[k] \in Entries(i)
    BY <1>1, <1>2
  <2> QED
    BY <2>1, <2>2 DEF Ats, AtsOf
<1> QED
  BY <1>7, <1>8 DEF AtsIn

(* What History computes: f[i] for the walk from i.                        *)
Walk(f, s) ==
  f = [i \in 0 .. MaxId |->
        IF i \notin DOMAIN ckpts THEN [seed |-> <<>>, writes |-> <<>>, path |-> {}]
        ELSE IF Seeds(s, i) THEN [seed |-> Held(s, i), writes |-> WritesAt(i), path |-> {i}]
        ELSE LET up == f[ckpts[i].parent]
             IN  [up EXCEPT !.writes = @ \o WritesAt(i), !.path = @ \cup {i}]]

Walks(s) == [seed : {<<>>} \cup {Held(s, i) : i \in DOMAIN ckpts}, writes : Seq(AllWrites),
             path : SUBSET Nat]

LEMMA WalkExists ==
  ASSUME DeltaAssumption, Rows, Stored, NEW s
  PROVE  \E f \in [0..MaxId -> Walks(s)] : Walk(f, s)
<1> DEFINE S == Walks(s)
           Root == {i \in 0..MaxId : i \notin DOMAIN ckpts \/ Seeds(s, i)}
           b == [i \in 0..MaxId |->
                   IF i \notin DOMAIN ckpts THEN [seed |-> <<>>, writes |-> <<>>, path |-> {}]
                   ELSE [seed |-> Held(s, i), writes |-> WritesAt(i), path |-> {i}]]
           up == [i \in 0..MaxId |-> IF i \in Root THEN 0 ELSE ckpts[i].parent]
           on(r, i) == [r EXCEPT !.writes = @ \o WritesAt(i), !.path = @ \cup {i}]
           g == [i \in 0..MaxId |-> [r \in S |-> IF i \in Root THEN r ELSE on(r, i)]]
<1>1. MaxId \in Nat /\ DOMAIN ckpts \subseteq 1..MaxId
  BY DEF DeltaAssumption, Rows, Stored
<1>2. \A i \in DOMAIN ckpts : WritesAt(i) \in Seq(AllWrites) /\ i \in Nat
  BY <1>1, WritesAtFacts
<1>3. b \in [0..MaxId -> S]
  <2>1. <<>> \in Seq(AllWrites)
    OBVIOUS
  <2>2. \A i \in 0..MaxId \ DOMAIN ckpts : b[i] \in S
    BY <2>1 DEF Walks
  <2>3. \A i \in DOMAIN ckpts : b[i] \in S
    BY <1>1, <1>2 DEF Walks
  <2> HIDE DEF S
  <2> QED
    BY <2>2, <2>3
<1>4. up \in [0..MaxId -> 0..MaxId] /\ \A i \in 0..MaxId : i \in Root \/ up[i] < i
  <2>1. ASSUME NEW i \in 0..MaxId, i \notin Root
        PROVE  ckpts[i].parent \in 0..MaxId /\ ckpts[i].parent < i
    BY <1>1, <2>1 DEF Rows
  <2> HIDE DEF Root
  <2> QED
    BY <1>1, <2>1
<1>5. g \in [0..MaxId -> [S -> S]]
  <2>1. ASSUME NEW i \in 0..MaxId, i \notin Root, NEW r \in S PROVE on(r, i) \in S
    <3>1. i \in DOMAIN ckpts
      BY <2>1
    <3>2. WritesAt(i) \in Seq(AllWrites) /\ i \in Nat
      BY <1>2, <3>1
    <3>3. r.writes \o WritesAt(i) \in Seq(AllWrites) /\ r.path \cup {i} \in SUBSET Nat
      BY <3>2 DEF Walks
    <3> QED
      BY <3>3 DEF Walks
  <2> HIDE DEF S, Root, on
  <2> QED
    BY <2>1
<1>6. Root \in SUBSET (0..MaxId)
  OBVIOUS
<1> HIDE DEF S, Root, b, up, g
<1>7. PICK f \in [0..MaxId -> S] : Descends(f, MaxId, Root, b, up, g)
  <2>1. MaxId \in Nat
    BY <1>1
  <2>2. \E f \in [0..MaxId -> S] : Descends(f, MaxId, Root, b, up, g)
    BY <1>3, <1>4, <1>5, <1>6, <2>1, TreeRecursion, Zenon
  <2> QED
    BY <2>2
<1>8. ASSUME NEW i \in 0..MaxId
      PROVE  f[i] = IF i \notin DOMAIN ckpts THEN [seed |-> <<>>, writes |-> <<>>, path |-> {}]
                    ELSE IF Seeds(s, i)
                         THEN [seed |-> Held(s, i), writes |-> WritesAt(i), path |-> {i}]
                         ELSE on(f[ckpts[i].parent], i)
  <2>1. CASE i \notin DOMAIN ckpts
    BY <1>7, <2>1 DEF Root, b, Descends
  <2>2. CASE i \in DOMAIN ckpts /\ Seeds(s, i)
    BY <1>7, <2>2 DEF Root, b, Descends
  <2>3. CASE i \in DOMAIN ckpts /\ ~ Seeds(s, i)
    <3>1. i \notin Root
      BY <2>3 DEF Root
    <3>2. up[i] \in 0..MaxId /\ up[i] = ckpts[i].parent
      BY <1>4, <3>1 DEF up
    <3>3. f[up[i]] \in S /\ f[i] = g[i][f[up[i]]]
      BY <1>7, <3>1, <3>2 DEF Descends
    <3>4. g[i][f[up[i]]] = on(f[up[i]], i)
      <4> HIDE DEF on
      <4> QED
        BY <3>1, <3>3 DEF g
    <3> QED
      BY <2>3, <3>2, <3>3, <3>4
  <2> QED
    BY <2>1, <2>2, <2>3
<1>9. Walk(f, s)
  <2>1. f = [i \in 0..MaxId |-> f[i]]
    BY <1>7
  <2> HIDE DEF on
  <2> DEFINE h == [i \in 0..MaxId |->
                     IF i \notin DOMAIN ckpts THEN [seed |-> <<>>, writes |-> <<>>, path |-> {}]
                     ELSE IF Seeds(s, i)
                          THEN [seed |-> Held(s, i), writes |-> WritesAt(i), path |-> {i}]
                          ELSE on(f[ckpts[i].parent], i)]
  <2>2. f = h
    BY <1>8, <2>1
  <2> QED
    BY <2>2 DEF Walk, on
<1> QED
  BY <1>7, <1>9 DEF S

LEMMA WalkFacts ==
  ASSUME DeltaAssumption, Rows, Stored, NEW s, NEW f \in [0..MaxId -> Walks(s)], Walk(f, s),
         NEW i \in 0..MaxId
  PROVE  /\ i \notin DOMAIN ckpts => f[i].path = {} /\ AtsIn(f[i].writes) = {}
         /\ i \in DOMAIN ckpts =>
              /\ Seeds(s, i) => f[i].path = {i} /\ AtsIn(f[i].writes) \subseteq Ats(i)
              /\ ~ Seeds(s, i) =>
                   LET p == ckpts[i].parent
                   IN  /\ p \in 0..MaxId /\ p < i /\ f[i].path = f[p].path \cup {i}
                       /\ AtsIn(f[i].writes) \subseteq AtsIn(f[p].writes) \cup Ats(i)
<1>1. MaxId \in Nat /\ DOMAIN ckpts \subseteq 1..MaxId
  BY DEF DeltaAssumption, Rows, Stored
<1>2. f[i] = IF i \notin DOMAIN ckpts THEN [seed |-> <<>>, writes |-> <<>>, path |-> {}]
             ELSE IF Seeds(s, i)
                  THEN [seed |-> Held(s, i), writes |-> WritesAt(i), path |-> {i}]
                  ELSE [f[ckpts[i].parent] EXCEPT !.writes = @ \o WritesAt(i),
                                                  !.path = @ \cup {i}]
  BY DEF Walk
<1>3. CASE i \notin DOMAIN ckpts
  <2>1. ToSet(<<>>) = {}
    BY DEF ToSet
  <2> QED
    BY <1>2, <1>3, <2>1 DEF AtsIn
<1>4. CASE i \in DOMAIN ckpts
  <2>1. WritesAt(i) \in Seq(AllWrites) /\ AtsIn(WritesAt(i)) \subseteq Ats(i)
    BY <1>1, <1>4, WritesAtFacts
  <2>2. CASE Seeds(s, i)
    BY <1>2, <1>4, <2>1, <2>2
  <2>3. CASE ~ Seeds(s, i)
    <3> DEFINE p == ckpts[i].parent
    <3>1. p \in 0..MaxId /\ p < i
      BY <1>1, <1>4 DEF Rows
    <3> HIDE DEF p
    <3>2. f[p] \in Walks(s)
      BY <3>1
    <3>3. f[i] = [f[p] EXCEPT !.writes = @ \o WritesAt(i), !.path = @ \cup {i}]
      BY <1>2, <1>4, <2>3 DEF p
    <3>4. f[p].writes \in Seq(AllWrites)
          /\ f[i].writes = f[p].writes \o WritesAt(i) /\ f[i].path = f[p].path \cup {i}
      BY <3>2, <3>3 DEF Walks
    <3>5. ToSet(f[i].writes) = ToSet(f[p].writes) \cup ToSet(WritesAt(i))
      BY <2>1, <3>4, SeqConcat
    <3>6. AtsIn(f[i].writes) \subseteq AtsIn(f[p].writes) \cup AtsIn(WritesAt(i))
      BY <3>5 DEF AtsIn
    <3> QED
      BY <1>4, <2>1, <2>3, <3>1, <3>4, <3>6 DEF p
  <2> QED
    BY <2>2, <2>3
<1> QED
  BY <1>3, <1>4

(* The ancestors with the channel, and the steps that are replayed.        *)
Held0(f, i) == {a \in f[i].path : ckpts[a].ver # 0}
Plain(f, i) == \A a \in f[i].path : ckpts[a].src \notin {"update", "copy"}
Bounded(f, i) ==
  LET k == ckpts[i]
  IN  /\ IsFiniteSet(Held0(f, i)) /\ Cardinality(Held0(f, i)) <= k.cnt.s + 1
      /\ IsFiniteSet(AtsIn(f[i].writes))
      /\ Cardinality(AtsIn(f[i].writes)) <= k.cnt.u + Cardinality(Ats(i))
      /\ k.ver = 0 => Held0(f, i) = {} /\ AtsIn(f[i].writes) \subseteq Ats(i)

LEMMA AtsOK ==
  ASSUME Rows, Stored, NEW i \in 1..MaxId
  PROVE  IsFiniteSet(Ats(i)) /\ Cardinality(Ats(i)) \in Nat /\ Ats(i) \subseteq 1..nextId - 1
<1>1. nextId - 1 \in Nat /\ \A e \in Entries(i) : \A w \in ToSet(e.writes) : w.at \in 1..nextId - 1
  BY DEF Rows, Stored
<1> QED
  BY <1>1, AtsFinite DEF Ats

LEMMA StoredRow ==
  ASSUME Seeded, Edges, NEW i \in DOMAIN ckpts
  PROVE  LET k == [id |-> i, row |-> ckpts[i]] IN k \in KRows /\ RowOK(k) /\ Steady(k)
BY DEF KRows, Seeded, Edges

(* A row with a snapshot stops the walk.                                   *)
LEMMA SnapshotSeeds ==
  ASSUME Seeded, NEW s \in Savers, NEW i \in DOMAIN ckpts, ckpts[i].inline # <<>>
  PROVE  Seeds(s, i) /\ Held(s, i) # <<>>
<1>1. [id |-> i, row |-> ckpts[i]] \in KRows
  BY DEF KRows
<1>2. ckpts[i].flag = TRUE /\ ckpts[i].ver \in DOMAIN blobs
  BY <1>1 DEF Seeded, RowOK
<1>3. BlobOf(i) # <<>>
  <2>1. BlobOf(i) = <<blobs[ckpts[i].ver]>>
    BY <1>2 DEF BlobOf
  <2>2. \A x : <<x>> # <<>>
    OBVIOUS
  <2> QED
    BY <2>1, <2>2
<1> QED
  BY <1>2, <1>3 DEF Seeds, Held, Savers

(* One step of the walk.                                                   *)
LEMMA WalkOn ==
  ASSUME DeltaAssumption, Rows, Stored, Seeded, Edges, NEW s \in Savers,
         NEW f \in [0..MaxId -> Walks(s)], Walk(f, s),
         NEW i \in DOMAIN ckpts, ckpts[i].src \notin {"update", "copy"},
         NEW p, p = ckpts[i].parent,
         p \in DOMAIN ckpts => Bounded(f, p)
  PROVE  /\ IsFiniteSet(Held0(f, p)) /\ IsFiniteSet(AtsIn(f[p].writes))
         /\ ckpts[i].ver = 0 => Held0(f, p) = {} /\ AtsIn(f[p].writes) = {}
         /\ ckpts[i].ver # 0 /\ ckpts[i].inline = <<>> =>
              /\ Cardinality(Held0(f, p)) <= ckpts[i].cnt.s
              /\ Cardinality(AtsIn(f[p].writes)) <= ckpts[i].cnt.u
<1>1. MaxId \in Nat /\ DOMAIN ckpts \subseteq 1..MaxId /\ p \in 0..MaxId
  BY DEF DeltaAssumption, Rows, Stored
<1> DEFINE k == [id |-> i, row |-> ckpts[i]]
           l == [id |-> p, row |-> ckpts[p]]
<1>2. k.id = i /\ k.row = ckpts[i] /\ l.id = p /\ l.row = ckpts[p]
  OBVIOUS
<1>3. k \in KRows /\ RowOK(k) /\ Steady(k)
  BY StoredRow
<1>4. p \in DOMAIN ckpts => l \in KRows /\ RowOK(l)
  BY StoredRow
<1> HIDE DEF k, l
<1>5. ckpts[i].cnt.s \in Nat /\ ckpts[i].cnt.u \in Nat
  BY <1>2, <1>3 DEF RowOK, Counters
<1>6. CASE p \notin DOMAIN ckpts
  <2>1. Held0(f, p) = {} /\ AtsIn(f[p].writes) = {}
    BY <1>1, <1>6, WalkFacts DEF Held0
  <2> QED
    BY <1>5, <2>1, FS_EmptySet
<1>7. CASE p \in DOMAIN ckpts
  <2>1. Follows(k, l)
    BY <1>2, <1>3, <1>4, <1>7 DEF Steady
  <2>2. ckpts[p].cnt.s \in Nat /\ ckpts[p].cnt.u \in Nat /\ Cardinality(Ats(p)) \in Nat
    BY <1>1, <1>2, <1>4, <1>7, AtsOK DEF RowOK, Counters
  <2>3. Bounded(f, p)
    BY <1>7
  <2>4. Cardinality(Held0(f, p)) \in Nat /\ Cardinality(AtsIn(f[p].writes)) \in Nat
    BY <2>3, FS_CardinalityType DEF Bounded
  <2>5. CASE ckpts[i].ver = 0
    <3>1. ckpts[p].ver = 0 /\ Ats(p) = {}
      BY <1>2, <2>1, <2>5 DEF Follows
    <3> QED
      BY <2>3, <2>5, <3>1 DEF Bounded
  <2>6. CASE ckpts[i].ver # 0
    <3>1. ckpts[i].inline = <<>> => /\ ckpts[i].cnt.s >= ckpts[p].cnt.s + 1
                                    /\ ckpts[i].cnt.u >= ckpts[p].cnt.u + Cardinality(Ats(p))
      BY <1>2, <2>1, <2>6 DEF Follows
    <3> QED
      BY <1>5, <2>2, <2>3, <2>4, <2>6, <3>1 DEF Bounded
  <2> QED
    BY <2>5, <2>6
<1> QED
  BY <1>6, <1>7

LEMMA AllBounded ==
  ASSUME DeltaAssumption, Rows, Stored, Seeded, Edges, NEW s \in Savers,
         NEW f \in [0..MaxId -> Walks(s)], Walk(f, s)
  PROVE  \A i \in DOMAIN ckpts : Plain(f, i) => Bounded(f, i)
<1> DEFINE Bad == {i \in DOMAIN ckpts : Plain(f, i) /\ ~ Bounded(f, i)}
<1>1. MaxId \in Nat /\ DOMAIN ckpts \subseteq 1..MaxId
  BY DEF DeltaAssumption, Rows, Stored
<1>2. ASSUME NEW i \in Bad, \A j \in Bad : i <= j PROVE FALSE
  <2>0. i \in DOMAIN ckpts /\ i \in 1..MaxId /\ i \in 0..MaxId /\ Plain(f, i) /\ ~ Bounded(f, i)
    BY <1>1, <1>2
  <2> DEFINE p == ckpts[i].parent
  <2>1. /\ Seeds(s, i) => f[i].path = {i} /\ AtsIn(f[i].writes) \subseteq Ats(i)
        /\ ~ Seeds(s, i) => /\ p \in 0..MaxId /\ p < i /\ f[i].path = f[p].path \cup {i}
                            /\ AtsIn(f[i].writes) \subseteq AtsIn(f[p].writes) \cup Ats(i)
    BY <2>0, WalkFacts
  <2>2. ckpts[i].src \notin {"update", "copy"}
    BY <2>0, <2>1 DEF Plain
  <2>3. IsFiniteSet(Ats(i)) /\ Cardinality(Ats(i)) \in Nat
    BY <2>0, AtsOK
  <2>4. ckpts[i].cnt.s \in Nat /\ ckpts[i].cnt.u \in Nat
    BY <2>0, StoredRow DEF RowOK, Counters
  <2>5. CASE Seeds(s, i)
    <3>1. Held0(f, i) \subseteq {i} /\ (ckpts[i].ver = 0 => Held0(f, i) = {})
      BY <2>1, <2>5 DEF Held0
    <3>2. IsFiniteSet(Held0(f, i)) /\ Cardinality(Held0(f, i)) \in Nat
          /\ Cardinality(Held0(f, i)) <= 1
      <4>1. IsFiniteSet({i}) /\ Cardinality({i}) = 1
        BY FS_Singleton
      <4> QED
        BY <3>1, <4>1, Fewer
    <3>3. /\ IsFiniteSet(AtsIn(f[i].writes)) /\ Cardinality(AtsIn(f[i].writes)) \in Nat
          /\ Cardinality(AtsIn(f[i].writes)) <= Cardinality(Ats(i))
      BY <2>1, <2>3, <2>5, Fewer
    <3>4. Bounded(f, i)
      BY <2>1, <2>3, <2>4, <2>5, <3>1, <3>2, <3>3 DEF Bounded
    <3> QED
      BY <2>0, <3>4
  <2>6. CASE ~ Seeds(s, i)
    <3>1. Plain(f, p) /\ p < i
      BY <2>0, <2>1, <2>6 DEF Plain
    <3>2. p \in DOMAIN ckpts => Bounded(f, p)
      <4>1. p \notin Bad
        <5>1. ~ i <= p
          BY <1>1, <2>0, <2>1, <2>6
        <5> HIDE DEF Bad, p
        <5> QED
          BY <1>2, <5>1
      <4> QED
        BY <3>1, <4>1
    <3>3. ckpts[i].inline = <<>>
      BY <2>0, <2>6, SnapshotSeeds
    <3>4. /\ IsFiniteSet(Held0(f, p)) /\ IsFiniteSet(AtsIn(f[p].writes))
          /\ ckpts[i].ver = 0 => Held0(f, p) = {} /\ AtsIn(f[p].writes) = {}
          /\ ckpts[i].ver # 0 /\ ckpts[i].inline = <<>> =>
               /\ Cardinality(Held0(f, p)) <= ckpts[i].cnt.s
               /\ Cardinality(AtsIn(f[p].writes)) <= ckpts[i].cnt.u
      BY <2>0, <2>2, <3>2, WalkOn
    <3>5. /\ Held0(f, i) \subseteq Held0(f, p) \cup {i}
          /\ ckpts[i].ver = 0 => Held0(f, i) \subseteq Held0(f, p)
      BY <2>1, <2>6 DEF Held0
    <3> HIDE DEF p
    <3> DEFINE a == AtsIn(f[p].writes)
               b == AtsIn(f[i].writes)
               c == Held0(f, p)
    <3>6. /\ IsFiniteSet(Held0(f, i)) /\ Cardinality(Held0(f, i)) \in Nat
          /\ Cardinality(c) \in Nat /\ Cardinality(Held0(f, i)) <= Cardinality(c) + 1
      BY <3>4, <3>5, OneMore, FS_CardinalityType
    <3>7. /\ IsFiniteSet(b) /\ Cardinality(b) \in Nat /\ Cardinality(a) \in Nat
          /\ Cardinality(b) <= Cardinality(a) + Cardinality(Ats(i))
      <4>1. /\ IsFiniteSet(a \cup Ats(i)) /\ Cardinality(a) \in Nat
            /\ Cardinality(a \cap Ats(i)) \in Nat
            /\ Cardinality(a \cup Ats(i)) = Cardinality(a) + Cardinality(Ats(i))
                                              - Cardinality(a \cap Ats(i))
        <5>1. IsFiniteSet(a \cap Ats(i))
          BY <2>3, FS_Subset
        <5> QED
          BY <2>3, <3>4, <5>1, FS_Union, FS_CardinalityType
      <4>2. b \subseteq a \cup Ats(i)
        BY <2>1, <2>6 DEF p
      <4>3. /\ IsFiniteSet(b) /\ Cardinality(b) \in Nat
            /\ Cardinality(b) <= Cardinality(a \cup Ats(i))
        BY <4>1, <4>2, Fewer
      <4> QED
        BY <2>3, <4>1, <4>3
    <3>8. CASE ckpts[i].ver = 0
      <4>1. Held0(f, i) = {} /\ b \subseteq Ats(i) /\ a = {}
        BY <2>1, <2>6, <3>4, <3>5, <3>8 DEF p
      <4>2. Cardinality({}) = 0
        BY FS_EmptySet
      <4>3. Bounded(f, i)
        <5> HIDE DEF a
        <5> QED
          BY <2>3, <2>4, <3>6, <3>7, <3>8, <4>1, <4>2 DEF Bounded
      <4> QED
        BY <2>0, <4>3
    <3>9. CASE ckpts[i].ver # 0
      <4>1. Cardinality(c) <= ckpts[i].cnt.s /\ Cardinality(a) <= ckpts[i].cnt.u
        BY <3>3, <3>4, <3>9
      <4> HIDE DEF a, c
      <4>2. Bounded(f, i)
        BY <2>3, <2>4, <3>6, <3>7, <3>9, <4>1 DEF Bounded
      <4> QED
        BY <2>0, <4>2
    <3> QED
      BY <3>8, <3>9
  <2> QED
    BY <2>5, <2>6
<1>3. Bad \in SUBSET Nat
  BY <1>1
<1>4. Bad = {}
  <2> HIDE DEF Bad
  <2> QED
    BY <1>2, <1>3, Least
<1> QED
  BY <1>4

(* Whatever walks computes walks.                                          *)
LEMMA WalkTyped ==
  ASSUME DeltaAssumption, Rows, Stored, NEW s, NEW f, Walk(f, s)
  PROVE  f \in [0..MaxId -> Walks(s)]
<1> DEFINE Bad == {i \in 0..MaxId : f[i] \notin Walks(s)}
<1>1. MaxId \in Nat /\ DOMAIN ckpts \subseteq 1..MaxId
  BY DEF DeltaAssumption, Rows, Stored
<1>2. ASSUME NEW i \in Bad, \A j \in Bad : i <= j PROVE FALSE
  <2>0. i \in 0..MaxId /\ f[i] \notin Walks(s)
    BY <1>2
  <2>1. f[i] = IF i \notin DOMAIN ckpts THEN [seed |-> <<>>, writes |-> <<>>, path |-> {}]
               ELSE IF Seeds(s, i)
                    THEN [seed |-> Held(s, i), writes |-> WritesAt(i), path |-> {i}]
                    ELSE [f[ckpts[i].parent] EXCEPT !.writes = @ \o WritesAt(i),
                                                    !.path = @ \cup {i}]
    BY <2>0 DEF Walk
  <2>2. i \in DOMAIN ckpts
    <3>1. <<>> \in Seq(AllWrites)
      OBVIOUS
    <3> QED
      BY <2>0, <2>1, <3>1 DEF Walks
  <2>3. WritesAt(i) \in Seq(AllWrites) /\ i \in Nat
    BY <1>1, <2>2, WritesAtFacts
  <2>4. ~ Seeds(s, i)
    BY <2>0, <2>1, <2>2, <2>3 DEF Walks
  <2> DEFINE p == ckpts[i].parent
  <2>5. p \in 0..MaxId /\ ~ i <= p
    BY <1>1, <2>2 DEF Rows
  <2>6. f[p] \in Walks(s)
    <3> HIDE DEF p
    <3>1. p \notin Bad
      <4> HIDE DEF Bad
      <4> QED
        BY <1>2, <2>5
    <3> QED
      BY <2>5, <3>1
  <2>7. f[p].writes \o WritesAt(i) \in Seq(AllWrites) /\ f[p].path \cup {i} \in SUBSET Nat
    <3>1. f[p].writes \in Seq(AllWrites) /\ f[p].path \in SUBSET Nat
      BY <2>6 DEF Walks
    <3> QED
      BY <2>3, <3>1
  <2>8. f[i] = [f[p] EXCEPT !.writes = @ \o WritesAt(i), !.path = @ \cup {i}]
    BY <2>1, <2>2, <2>4
  <2> HIDE DEF p
  <2>9. f[i] \in Walks(s)
    BY <2>6, <2>7, <2>8 DEF Walks
  <2> QED
    BY <2>0, <2>9
<1>3. Bad \in SUBSET Nat
  OBVIOUS
<1>4. Bad = {}
  <2> HIDE DEF Bad
  <2> QED
    BY <1>2, <1>3, Least
<1> QED
  BY <1>4 DEF Walk

(* The invariant bounds what a rebuild walks and replays.                  *)
LEMMA BoundFromInv ==
  ASSUME DeltaAssumption, Rows, Stored, Seeded, Edges
  PROVE  ReplayBounded
<1> SUFFICES ASSUME NEW s \in Savers, NEW id \in DOMAIN ckpts, Held(s, id) = <<>>,
                    {ckpts[a].src : a \in History(s, id).path \cup {id}}
                      \cap {"update", "copy"} = {}
             PROVE  LET h == History(s, id)
                    IN  /\ Cardinality({a \in h.path : ckpts[a].ver # 0}) < MaxSupersteps
                        /\ Cardinality({h.writes[i].at : i \in DOMAIN h.writes}) < Freq
  BY DEF ReplayBounded
<1> DEFINE f == CHOOSE f : Walk(f, s)
           p == ckpts[id].parent
<1>1. MaxId \in Nat /\ DOMAIN ckpts \subseteq 1..MaxId /\ p \in 0..MaxId
      /\ Freq \in Nat \ {0} /\ MaxSupersteps \in Nat \ {0}
  BY DEF DeltaAssumption, Rows, Stored
<1>2. History(s, id) = f[p]
  BY DEF History, Walk
<1> HIDE DEF f
<1>3. Walk(f, s)
  BY WalkExists DEF f
<1>4. f \in [0..MaxId -> Walks(s)]
  BY <1>3, WalkTyped
<1>5. Plain(f, p) /\ ckpts[id].src \notin {"update", "copy"}
  BY <1>2 DEF Plain
<1>6. p \in DOMAIN ckpts => Bounded(f, p)
  BY <1>3, <1>4, <1>5, AllBounded
<1>7. ckpts[id].inline = <<>>
  BY SnapshotSeeds
<1>8. /\ IsFiniteSet(Held0(f, p)) /\ IsFiniteSet(AtsIn(f[p].writes))
      /\ ckpts[id].ver = 0 => Held0(f, p) = {} /\ AtsIn(f[p].writes) = {}
      /\ ckpts[id].ver # 0 /\ ckpts[id].inline = <<>> =>
           /\ Cardinality(Held0(f, p)) <= ckpts[id].cnt.s
           /\ Cardinality(AtsIn(f[p].writes)) <= ckpts[id].cnt.u
  <2> HIDE DEF p
  <2> QED
    BY <1>3, <1>4, <1>5, <1>6, WalkOn DEF p
<1>9. /\ ckpts[id].cnt.s \in Nat /\ ckpts[id].cnt.u \in Nat
      /\ ckpts[id].cnt.s < MaxSupersteps /\ ckpts[id].cnt.u < Freq
  BY <1>5, StoredRow DEF RowOK, Counters, Steady
<1>10. /\ Cardinality(Held0(f, p)) < MaxSupersteps
       /\ Cardinality(AtsIn(f[p].writes)) < Freq
  <2>1. Cardinality({}) = 0 /\ Cardinality(Held0(f, p)) \in Nat
        /\ Cardinality(AtsIn(f[p].writes)) \in Nat
    BY <1>8, FS_EmptySet, FS_CardinalityType
  <2>2. CASE ckpts[id].ver = 0
    <3>1. Held0(f, p) = {} /\ AtsIn(f[p].writes) = {}
      BY <1>8, <2>2
    <3>2. 0 < MaxSupersteps /\ 0 < Freq
      BY <1>1
    <3> QED
      BY <2>1, <3>1, <3>2, Zenon
  <2>3. CASE ckpts[id].ver # 0
    <3> DEFINE c == Cardinality(Held0(f, p))
               u == Cardinality(AtsIn(f[p].writes))
    <3>1. c <= ckpts[id].cnt.s /\ u <= ckpts[id].cnt.u /\ c \in Nat /\ u \in Nat
      BY <1>7, <1>8, <2>1, <2>3
    <3> HIDE DEF c, u
    <3>2. c < MaxSupersteps /\ u < Freq
      BY <1>1, <1>9, <3>1
    <3> QED
      BY <3>2 DEF c, u
  <2> QED
    BY <2>2, <2>3
<1>11. {f[p].writes[i].at : i \in DOMAIN f[p].writes} = AtsIn(f[p].writes)
  BY DEF AtsIn, ToSet
<1> QED
  BY <1>2, <1>10, <1>11 DEF Held0

-----------------------------------------------------------------------------
(* The rows and what was stored with them.                                 *)

LEMMA KnownIds ==
  ASSUME DInv, Stored, NEW k \in KRows
  PROVE  /\ k.id \in 1..MaxId /\ k.id \in 1..nextId - 1 /\ k.row.parent \in 0..k.id - 1
         /\ pc = "idle" => k.id \in DOMAIN ckpts /\ k.row = ckpts[k.id]
         /\ pc # "idle" => k.id <= loop.ck
<1>1. Rows /\ Newest /\ Chain /\ nextId \in Nat \ {0} /\ nextId <= MaxId + 1
  BY DEF DInv, Rows, Stored
<1>2. CASE \E i \in DOMAIN ckpts : k = [id |-> i, row |-> ckpts[i]]
  BY <1>1, <1>2, DeltaAssumption DEF Rows, Newest, DeltaAssumption
<1>3. CASE \E q \in DOMAIN saves : k = [id |-> saves[q].id, row |-> saves[q].row]
  <2>1. PICK q \in DOMAIN saves : k = [id |-> saves[q].id, row |-> saves[q].row]
    BY <1>3
  <2>2. pc # "idle"
    BY <2>1 DEF DInv, Still
  <2>3. k.id \in 1..loop.ck /\ k.row.parent \in 0..k.id - 1 /\ loop.ck \in 1..nextId - 1
    BY <1>1, <2>1, <2>2 DEF Chain, Newest
  <2> QED
    BY <1>1, <2>2, <2>3, DeltaAssumption DEF DeltaAssumption
<1> QED
  BY <1>2, <1>3 DEF KRows

(* There is nothing yet under the ids that come next.                      *)
LEMMA Fresh ==
  ASSUME DInv, Stored, NEW i \in Nat, nextId <= i
  PROVE  Entries(i) = {} /\ \A k \in KRows : k.id # i
<1>1. nextId \in Nat \ {0}
  BY DEF DInv, Rows
<1>2. {x \in puts : x.ck = i} = {}
  BY <1>1 DEF Stored
<1>3. i \in DOMAIN written => ToSet(written[i]) = {}
  <2>1. ToSet(<<>>) = {}
    BY DEF ToSet
  <2> QED
    BY <2>1 DEF Stored
<1>4. Entries(i) = {}
  BY <1>2, <1>3 DEF Entries
<1>5. \A k \in KRows : k.id # i
  BY <1>1, KnownIds
<1> QED
  BY <1>4, <1>5

(* The counters of the rows stay right while what was stored under the     *)
(* parent of a row does not grow.                                          *)
LEMMA EdgesStep ==
  ASSUME DInv, Stored, Edges, \A k \in KRows : RowOK(k),
         \A c \in KRows' : c \in KRows \/ Steady(c)',
         \A c \in KRows : \A p \in KRows' :
           p.id = c.row.parent => p \in KRows /\ Entries(p.id)' \subseteq Entries(p.id)
  PROVE  Edges'
<1> SUFFICES ASSUME NEW c \in KRows', c \in KRows PROVE Steady(c)'
  BY DEF Edges
<1>1. Steady(c)
  BY DEF Edges
<1>2. ASSUME NEW p \in KRows', p.id = c.row.parent, c.row.src \notin {"update", "copy"}
      PROVE  Follows(c, p)'
  <2>1. p \in KRows /\ Entries(p.id)' \subseteq Entries(p.id)
    BY <1>2
  <2>2. Follows(c, p)
    BY <1>1, <1>2, <2>1 DEF Steady
  <2>3. Ats(p.id)' \subseteq Ats(p.id)
    BY <2>1, AtsMonotone DEF Ats
  <2>4. /\ Cardinality(Ats(p.id)') \in Nat /\ Cardinality(Ats(p.id)) \in Nat
        /\ Cardinality(Ats(p.id)') <= Cardinality(Ats(p.id))
    <3>1. p.id \in 1..MaxId
      BY <2>1, KnownIds
    <3>2. IsFiniteSet(Ats(p.id))
      BY <3>1, AtsOK DEF DInv
    <3> QED
      BY <2>3, <3>2, Fewer
  <2>5. p.row.cnt.u \in Nat /\ RowOK(c) /\ c.row.cnt.u \in Nat
    BY <2>1 DEF RowOK, Counters
  <2> QED
    BY <2>2, <2>3, <2>4, <2>5 DEF Follows
<1> QED
  BY <1>1, <1>2 DEF Steady

LEMMA EdgesShrink ==
  ASSUME DInv, Stored, Edges, \A k \in KRows : RowOK(k),
         KRows' \subseteq KRows, \A i : Entries(i)' \subseteq Entries(i)
  PROVE  Edges'
BY EdgesStep

(* The row of a save.                                                      *)
CanSave(l, id) ==
  /\ l.ver \in 0..2 * id + 1 /\ l.previous \in 0..2 * id - 1 /\ l.updated \in BOOLEAN
  /\ l.updated => l.ver = 2 * id
  /\ l.due \subseteq Task
Fits(s, l, id, parent, cnt, src) ==
  /\ RowOK([id |-> id, row |-> s.row]) /\ s.id = id
  /\ s.row.inline # <<>> => s.blob = TRUE
  /\ s.row.cnt.u < Freq /\ s.row.cnt.s < MaxSupersteps
  /\ s.row.ver = 0 <=> l.ver = 0
  /\ s.row.ver # 0 /\ s.row.inline = <<>> => s.row.cnt = cnt
  /\ l.updated => s.row.ver = l.ver
  /\ s.row.due = l.due /\ s.row.parent = parent /\ s.row.src = src
LEMMA NewRow ==
  ASSUME NEW l, NEW id \in Nat \ {0}, CanSave(l, id), NEW parent, NEW cnt \in Counters,
         NEW step, NEW src
  PROVE  Fits(Save(l, id, parent, cnt, step, src), l, id, parent, cnt, src)
<1> DEFINE snap == Snapshots(cnt, l.over)
           inl == IF snap /\ l.ver > 0 THEN <<l.live>> ELSE <<>>
           ver == IF snap /\ l.ver > 0 /\ ~ l.updated THEN 2 * id + 1 ELSE l.ver
           c == IF snap THEN Zero ELSE cnt
           row == [parent |-> parent, ver |-> ver, inline |-> inl, flag |-> inl # <<>>,
                   cnt |-> c, step |-> step, due |-> l.due, src |-> src]
           s == [id |-> id, blob |-> inl # <<>> /\ ver # l.previous, drained |-> FALSE,
                 waits |-> {}, row |-> row]
<1>1. Save(l, id, parent, cnt, step, src) = s
  BY DEF Save, Version
<1>2. /\ ver \in 0..2 * id + 1 /\ (ver = 0 <=> l.ver = 0) /\ (l.updated => ver = l.ver)
      /\ (snap /\ l.ver > 0 => ver # l.previous /\ ver # 0)
  <2> HIDE DEF snap
  <2> QED
    BY DEF CanSave
<1>3. inl # <<>> <=> snap /\ l.ver > 0
  <2>1. <<l.live>> # <<>>
    OBVIOUS
  <2> HIDE DEF snap
  <2> QED
    BY <2>1
<1>4. c \in Counters /\ c.u < Freq /\ c.s < MaxSupersteps /\ (~ snap => c = cnt)
  <2>1. CASE snap
    <3>1. c = [u |-> 0, s |-> 0]
      BY <2>1 DEF Zero
    <3> QED
      BY <2>1, <3>1, DeltaAssumption DEF DeltaAssumption, Counters
  <2>2. CASE ~ snap
    BY <2>2, DeltaAssumption DEF DeltaAssumption, Snapshots, Counters
  <2> QED
    BY <2>1, <2>2
<1> HIDE DEF snap, inl, ver, c
<1>5. RowOK([id |-> id, row |-> row])
  BY <1>2, <1>3, <1>4 DEF RowOK, RowFields, CanSave
<1>6. l.ver > 0 <=> l.ver # 0
  BY DEF CanSave
<1>7. /\ row.ver = ver /\ row.inline = inl /\ row.cnt = c /\ row.due = l.due
      /\ row.parent = parent /\ row.src = src
  OBVIOUS
<1>8. s.id = id /\ s.row = row /\ (inl # <<>> /\ ver # l.previous => s.blob = TRUE)
  OBVIOUS
<1> HIDE DEF row, s
<1>9. row.inline # <<>> => s.blob = TRUE
  BY <1>2, <1>3, <1>7, <1>8
<1>10. row.ver # 0 /\ row.inline = <<>> => row.cnt = cnt
  BY <1>2, <1>3, <1>4, <1>6, <1>7
<1> QED
  BY <1>1, <1>2, <1>4, <1>5, <1>7, <1>8, <1>9, <1>10 DEF Fits

-----------------------------------------------------------------------------
(* _put_checkpoint, of an input and of a step.                             *)

LEMMA PutFields ==
  ASSUME NEW l, DOMAIN l = LoopFields, NEW id, NEW src, PutCheckpoint(l, id, src)
  PROVE  LET s == Save(l, id, l.cfg, Counted(l), l.step, src)
         IN  /\ id < MaxId /\ nextId' = id + 1
             /\ loop'.durability = l.durability /\ loop'.base = l.base
             /\ loop'.persisted = l.persisted /\ loop'.due = l.due /\ loop'.exits = l.exits
             /\ loop'.updated = l.updated /\ loop'.ck = id /\ loop'.pend = NoWrites
             /\ l.durability = "exit" =>
                  /\ loop'.cfg = l.cfg /\ loop'.ver = l.ver /\ loop'.previous = l.previous
                  /\ loop'.cnt = Counted(l) /\ saves' = saves
             /\ l.durability # "exit" =>
                  /\ loop'.cfg = id /\ loop'.ver = s.row.ver /\ loop'.previous = s.row.ver
                  /\ loop'.cnt = s.row.cnt /\ saves' = Append(saves, s)
<1> DEFINE s == Save(l, id, l.cfg, Counted(l), l.step, src)
           m == [l EXCEPT !.ck = id, !.step = @ + 1, !.pend = NoWrites, !.cnt = s.row.cnt]
<1>1. /\ DOMAIN m = LoopFields /\ m.ck = id /\ m.pend = NoWrites /\ m.cnt = s.row.cnt
      /\ \A x \in LoopFields \ {"ck", "step", "pend", "cnt"} : m[x] = l[x]
  BY DEF LoopFields
<1>2. id < MaxId /\ nextId' = id + 1
  BY DEF PutCheckpoint
<1>3. CASE l.durability = "exit"
  <2>1. loop' = [m EXCEPT !.cnt = Counted(l)] /\ saves' = saves
    BY <1>3 DEF PutCheckpoint
  <2> HIDE DEF m, s
  <2> QED
    BY <1>1, <1>2, <1>3, <2>1 DEF LoopFields
<1>4. CASE l.durability # "exit"
  <2>1. /\ loop' = [m EXCEPT !.cfg = id, !.ver = s.row.ver, !.previous = s.row.ver, !.over = FALSE]
        /\ saves' = Append(saves, s)
    BY <1>4 DEF PutCheckpoint
  <2> HIDE DEF m, s
  <2>2. /\ loop'.ck = id /\ loop'.pend = NoWrites /\ loop'.cnt = s.row.cnt /\ loop'.cfg = id
        /\ loop'.ver = s.row.ver /\ loop'.previous = s.row.ver
        /\ loop'.durability = l.durability /\ loop'.base = l.base
        /\ loop'.persisted = l.persisted /\ loop'.due = l.due /\ loop'.exits = l.exits
        /\ loop'.updated = l.updated
    BY <1>1, <2>1 DEF LoopFields
  <2> QED
    BY <1>2, <1>4, <2>1, <2>2 DEF s
<1> QED
  BY <1>3, <1>4

(* What the loop has when it puts a checkpoint: the counters include the   *)
(* step, and the writes it was made from.                                  *)
PutOK(l, id) ==
  /\ DOMAIN l = LoopFields /\ l.due \subseteq Task /\ Counted(l) \in Counters
  /\ l.cfg \in 0..id - 1 /\ l.ver \in 0..2 * id + 1 /\ l.previous \in 0..2 * l.cfg + 1
  /\ l.updated \in BOOLEAN /\ (l.updated => l.ver = 2 * id)
  /\ \A p \in KRows : p.id = l.cfg => (l.ver = 0 => p.row.ver = 0)
PutSaving(l, id) ==
  l.durability # "exit" =>
    /\ \A p \in KRows : p.id = l.cfg =>
         /\ l.ver = 0 => Ats(p.id) = {}
         /\ Counted(l).s >= p.row.cnt.s + 1
         /\ Counted(l).u >= p.row.cnt.u + Cardinality(Ats(p.id))
    /\ \A k \in KRows :
         (\A j \in DOMAIN ckpts : j <= k.id) => Owned(Entries(k.id), k.id, k.row.due)
PutKeeping(l, id) ==
  l.durability = "exit" =>
    /\ Entries(l.base) = {} /\ l.cfg = IF l.persisted THEN l.base ELSE 0
    /\ ~ l.persisted => \A k \in KRows : k.id # l.base
    /\ id # l.base
    /\ \A e \in l.exits : IsSeq(e.writes) /\ \A w \in ToSet(e.writes) : w.at \in 1..nextId - 1
    /\ l.ver = 0 => l.exits = {}
    /\ Counted(l).u >= Cardinality(AtsOf(l.exits)) /\ Counted(l).s >= 1
    /\ \A p \in KRows : p.id = l.cfg =>
         /\ Counted(l).s >= p.row.cnt.s + 1
         /\ Counted(l).u >= p.row.cnt.u + Cardinality(AtsOf(l.exits))

LEMMA PutInv ==
  ASSUME DInv, DInv', Stored, Seeded, Edges,
         NEW l, NEW id \in Nat \ {0}, nextId <= id, NEW src \in {"input", "loop"},
         PutCheckpoint(l, id, src), PutOK(l, id), PutSaving(l, id), PutKeeping(l, id),
         UNCHANGED <<ckpts, blobs, written, puts>>, pc' \in {"run", "exit"}
  PROVE  RInv'
<1> DEFINE s == Save(l, id, l.cfg, Counted(l), l.step, src)
           n == [id |-> id, row |-> s.row]
<1>1. /\ id < MaxId /\ nextId' = id + 1
      /\ loop'.durability = l.durability /\ loop'.base = l.base
      /\ loop'.persisted = l.persisted /\ loop'.due = l.due /\ loop'.exits = l.exits
      /\ loop'.updated = l.updated /\ loop'.ck = id /\ loop'.pend = NoWrites
      /\ l.durability = "exit" =>
           /\ loop'.cfg = l.cfg /\ loop'.ver = l.ver /\ loop'.previous = l.previous
           /\ loop'.cnt = Counted(l) /\ saves' = saves
      /\ l.durability # "exit" =>
           /\ loop'.cfg = id /\ loop'.ver = s.row.ver /\ loop'.previous = s.row.ver
           /\ loop'.cnt = s.row.cnt /\ saves' = Append(saves, s)
  BY PutFields DEF PutOK
<1>2. /\ RowOK(n) /\ s.id = id /\ (s.row.inline # <<>> => s.blob = TRUE)
      /\ s.row.cnt.u < Freq /\ s.row.cnt.s < MaxSupersteps
      /\ (s.row.ver = 0 <=> l.ver = 0)
      /\ s.row.ver # 0 /\ s.row.inline = <<>> => s.row.cnt = Counted(l)
      /\ (l.updated => s.row.ver = l.ver)
      /\ s.row.due = l.due /\ s.row.parent = l.cfg /\ s.row.src = src
  <2>1. CanSave(l, id) /\ Counted(l) \in Counters
    BY DEF PutOK, CanSave
  <2>2. Fits(s, l, id, l.cfg, Counted(l), src)
    BY <2>1, NewRow
  <2> HIDE DEF s
  <2> QED
    BY <2>2 DEF Fits
<1>3. nextId \in Nat \ {0} /\ (\A i : Entries(i)' = Entries(i))
  BY DEF DInv, Rows, Entries
<1>4. n.id = id /\ n.row = s.row
  OBVIOUS
<1> HIDE DEF s, n
<1>5. /\ l.durability = "exit" => KRows' = KRows
      /\ l.durability # "exit" => KRows' = KRows \cup {n}
  <2>1. CASE l.durability = "exit"
    BY <1>1, <2>1 DEF KRows
  <2>2. CASE l.durability # "exit"
    <3>1. saves' = Append(saves, s) /\ IsSeq(saves)
      BY <1>1, <2>2 DEF DInv, Chain
    <3>2. /\ DOMAIN saves = 1..Len(saves) /\ Len(saves) \in Nat
          /\ DOMAIN saves' = 1..Len(saves) + 1 /\ saves'[Len(saves) + 1] = s
          /\ \A q \in DOMAIN saves : saves'[q] = saves[q]
      BY <3>1, SeqAppend
    <3>3. DOMAIN saves' = DOMAIN saves \cup {Len(saves) + 1}
      BY <3>2
    <3>4. {[id |-> saves'[q].id, row |-> saves'[q].row] : q \in DOMAIN saves'}
            = {[id |-> saves[q].id, row |-> saves[q].row] : q \in DOMAIN saves} \cup {n}
      BY <1>2, <3>2, <3>3 DEF n
    <3> QED
      BY <2>2, <3>4 DEF KRows
  <2> QED
    BY <2>1, <2>2
<1>6. Entries(id) = {} /\ \A k \in KRows : k.id # id
  BY Fresh
<1>7. Stored'
  <2>1. nextId' \in Nat /\ nextId < nextId' /\ nextId' <= MaxId + 1
    BY <1>1, <1>3, DeltaAssumption DEF DeltaAssumption
  <2>2. \A x : x \in 1..nextId - 1 => x \in 1..nextId' - 1
    BY <1>1, <1>3
  <2>3. \A i \in 1..MaxId : i >= nextId' => i >= nextId
    BY <1>3, <2>1
  <2> QED
    BY <1>3, <2>1, <2>2, <2>3 DEF Stored
<1>8. Seeded'
  <2>1. \A k \in KRows' : RowOK(k)'
    BY <1>2, <1>5 DEF Seeded, RowOK
  <2>2. \A q \in DOMAIN saves' : saves'[q].row.inline # <<>> => saves'[q].blob = TRUE
    <3>1. CASE l.durability = "exit"
      BY <1>1, <3>1 DEF Seeded
    <3>2. CASE l.durability # "exit"
      <4>1. saves' = Append(saves, s) /\ IsSeq(saves)
        BY <1>1, <3>2 DEF DInv, Chain
      <4>2. /\ DOMAIN saves = 1..Len(saves) /\ Len(saves) \in Nat
            /\ DOMAIN saves' = 1..Len(saves) + 1 /\ saves'[Len(saves) + 1] = s
            /\ \A q \in DOMAIN saves : saves'[q] = saves[q]
        BY <4>1, SeqAppend
      <4>3. \A q \in DOMAIN saves' : q \in DOMAIN saves \/ q = Len(saves) + 1
        BY <4>2
      <4> QED
        BY <1>2, <4>2, <4>3 DEF Seeded
    <3> QED
      BY <3>1, <3>2
  <2> QED
    BY <2>1, <2>2 DEF Seeded
<1>9. Edges'
  <2>1. ASSUME l.durability # "exit" PROVE Steady(n)'
    <3>1. ASSUME NEW p \in KRows', p.id = l.cfg PROVE Follows(n, p)'
      <4>1. p \in KRows
        <5>1. p.id # id
          BY <3>1 DEF PutOK
        <5> QED
          BY <1>4, <1>5, <2>1, <3>1, <5>1
      <4>2. /\ l.ver = 0 => p.row.ver = 0 /\ Ats(p.id) = {}
            /\ Counted(l).s >= p.row.cnt.s + 1
            /\ Counted(l).u >= p.row.cnt.u + Cardinality(Ats(p.id))
        BY <2>1, <3>1, <4>1 DEF PutOK, PutSaving
      <4>3. Ats(p.id)' = Ats(p.id)
        BY <1>3 DEF Ats
      <4> QED
        BY <1>2, <1>4, <4>2, <4>3 DEF Follows
    <3> QED
      BY <1>2, <1>4, <3>1 DEF Steady
  <2>2. \A c \in KRows' : c \in KRows \/ Steady(c)'
    BY <1>5, <2>1
  <2>3. ASSUME NEW c \in KRows, NEW p \in KRows', p.id = c.row.parent
        PROVE  p \in KRows /\ Entries(p.id)' \subseteq Entries(p.id)
    <3>1. p.id < nextId /\ p.id # id
      BY <1>3, <2>3, KnownIds
    <3> QED
      BY <1>3, <1>4, <1>5, <3>1
  <2>4. \A k \in KRows : RowOK(k)
    BY DEF Seeded
  <2> QED
    BY <2>2, <2>3, <2>4, EdgesStep
<1>10. Owners'
  <2>1. ASSUME NEW k \in KRows', \A j \in DOMAIN ckpts : j <= k.id,
               l.durability # "exit" \/ k.id = id
        PROVE  Owned(Entries(k.id), k.id, k.row.due)
    <3>1. CASE k.id = id
      BY <1>6, <3>1 DEF Owned
    <3>2. CASE k.id # id
      <4>1. k \in KRows /\ l.durability # "exit"
        BY <1>4, <1>5, <2>1, <3>2
      <4> QED
        BY <2>1, <4>1 DEF PutSaving
    <3> QED
      BY <3>1, <3>2
  <2>2. \A k \in KRows' : Owned(Entries(k.id), k.id, k.row.due)'
                            = Owned(Entries(k.id), k.id, k.row.due)
    BY <1>3 DEF Owned
  <2> QED
    BY <1>1, <2>1, <2>2 DEF Owners
<1>11. Running'
  <2>1. \A k \in KRows' : k.id = id => k.row.due = l.due
    BY <1>2, <1>4, <1>5, <1>6
  <2>2. DOMAIN NoWrites = {}
    BY DEF NoWrites
  <2>3. loop'.cnt \in Counters
    BY <1>1, <1>2, <1>4 DEF RowOK, PutOK
  <2>4. loop'.ver \in 0..2 * loop'.ck + 1 /\ loop'.previous \in 0..2 * loop'.cfg + 1
    <3>1. CASE l.durability = "exit"
      BY <1>1, <3>1 DEF PutOK
    <3>2. CASE l.durability # "exit"
      BY <1>1, <1>2, <1>4, <3>2 DEF RowOK
    <3> QED
      BY <3>1, <3>2
  <2>5. loop'.updated \in BOOLEAN /\ (loop'.updated => loop'.ver = 2 * loop'.ck)
    BY <1>1, <1>2 DEF PutOK
  <2>6. loop'.due \subseteq Task
    BY <1>1 DEF PutOK
  <2> QED
    BY <1>1, <2>1, <2>2, <2>3, <2>4, <2>5, <2>6 DEF Running
<1>12. Saving'
  BY <1>1, <1>3, <1>4, <1>5, <1>6 DEF Saving
<1>13. Keeping'
  <2> SUFFICES ASSUME l.durability = "exit" PROVE Keeping'
    BY <1>1 DEF Keeping
  <2>1. loop'.ck # loop'.base /\ KRows' = KRows /\ loop'.cfg = l.cfg /\ loop'.cnt = Counted(l)
        /\ loop'.ver = l.ver
    BY <1>1, <1>5 DEF PutKeeping
  <2>2. \A x : x \in 1..nextId - 1 => x \in 1..nextId' - 1
    BY <1>1, <1>3
  <2>3. AtExit' = AtsOf(l.exits)
    BY <1>1 DEF AtExit, AtsOf
  <2> QED
    BY <1>1, <1>3, <1>6, <2>1, <2>2, <2>3 DEF Keeping, PutKeeping, PutOK
<1> QED
  BY <1>7, <1>8, <1>9, <1>10, <1>11, <1>12, <1>13 DEF RInv

-----------------------------------------------------------------------------
(* Requests.                                                               *)

PendOf(id) == [t \in {e.tid : e \in ToSet(written[id])} |->
                 (CHOOSE e \in ToSet(written[id]) : e.tid = t).writes]
Taken(l, id) ==
  /\ l.exits = {} /\ l.updated = FALSE
  /\ id = 0 => /\ l.persisted = FALSE /\ l.ver = 0 /\ l.previous = 0 /\ l.cnt = Zero
               /\ l.due = {}
  /\ id # 0 => /\ l.persisted = TRUE /\ l.ver = ckpts[id].ver
               /\ l.previous = ckpts[id].ver /\ l.cnt = ckpts[id].cnt
               /\ l.due = ckpts[id].due /\ l.pend = PendOf(id)
LEMMA EnteredRow ==
  ASSUME NEW id, NEW d
  PROVE  Taken(Entered(id, d), id)
BY DEF Taken, Entered, NoLoop, PendOf

LEMMA NoSteps == AtsOf({}) = {} /\ Cardinality({}) = 0
BY FS_EmptySet DEF AtsOf

(* A checkpoint that a run may start from has no writes of the channel.    *)
LEMMA CleanFacts ==
  ASSUME Stored, puts = {}, NEW id \in 1..MaxId
  PROVE  /\ Clean(id) => Ats(id) = {}
         /\ Unused(id) => Entries(id) = {}
<1>1. Entries(id) = ToSet(written[id])
  BY DEF Stored, Entries
<1>2. ToSet(<<>>) = {}
  BY DEF ToSet
<1>3. ASSUME Clean(id) PROVE Ats(id) = {}
  <2> DEFINE s == written[id]
             ss == [k \in DOMAIN s |-> s[k].writes]
  <2>1. IsSeq(s) /\ Len(s) \in Nat /\ DOMAIN s = 1..Len(s) /\ \A k \in DOMAIN s : s[k] \in ToSet(s)
    BY DEF Stored, IsSeq, ToSet
  <2>2. \A e \in ToSet(s) : e \in Entries(id) /\ IsSeq(e.writes)
    <3>1. ToSet(s) \subseteq Entries(id)
      BY <1>1
    <3> QED
      BY <3>1 DEF Stored
  <2>3. \A e \in ToSet(s) : ToSet(e.writes) \subseteq AllWrites
    BY DEF AllWrites
  <2>4. \A k \in DOMAIN s : s[k].writes \in Seq(AllWrites)
    <3>1. ASSUME NEW k \in DOMAIN s PROVE s[k].writes \in Seq(AllWrites)
      <4>1. s[k].writes \in Seq(ToSet(s[k].writes)) /\ ToSet(s[k].writes) \subseteq AllWrites
        BY <2>1, <2>2, <2>3 DEF IsSeq
      <4> QED
        BY <4>1
    <3> QED
      BY <3>1
  <2>5. ss \in Seq(Seq(AllWrites)) /\ DOMAIN ss = DOMAIN s
    BY <2>1, <2>4
  <2>6. FlattenSeq(ss) = <<>>
    BY <1>3 DEF Clean, WritesAt
  <2>7. UNION {ToSet(ss[k]) : k \in DOMAIN ss} = {}
    <3> HIDE DEF ss
    <3> QED
      BY <1>2, <2>5, <2>6, FlattenFacts
  <2>8. \A e \in ToSet(s) : ToSet(e.writes) = {}
    <3>1. ASSUME NEW e \in ToSet(s) PROVE ToSet(e.writes) = {}
      <4>1. PICK k \in DOMAIN s : e = s[k]
        BY <3>1 DEF ToSet
      <4>2. ss[k] = e.writes /\ k \in DOMAIN ss
        BY <2>5, <4>1
      <4> HIDE DEF ss, s
      <4> QED
        BY <2>7, <4>2
    <3> QED
      BY <3>1
  <2> QED
    BY <1>1, <2>8 DEF Ats, AtsOf
<1>4. Unused(id) => Entries(id) = {}
  BY <1>1, <1>2 DEF Unused
<1> QED
  BY <1>3, <1>4

LEMMA CountedFacts ==
  ASSUME NEW l, l.cnt \in Counters, l.updated \in BOOLEAN
  PROVE  /\ Counted(l) \in Counters /\ Counted(l).s = l.cnt.s + 1
         /\ Counted(l).u = l.cnt.u + IF l.updated THEN 1 ELSE 0
BY DEF Counted, Counters

LEMMA InputR ==
  ASSUME CleanOnly, DInv, DInv', RInv,
         NEW d \in Durabilities, NEW id \in DOMAIN ckpts \cup {Latest}, Input(id, d)
  PROVE  RInv'
<1>1. pc = "idle" /\ puts = {} /\ saves = <<>> /\ nextId \in Nat \ {0}
  BY DEF DInv, Still, Rows, Input, Request
<1>2. id \in 0..nextId - 1 /\ (id # 0 => id \in DOMAIN ckpts /\ id \in 1..MaxId)
  <2>1. id \in 0..nextId - 1 /\ (id # 0 => id \in DOMAIN ckpts)
    BY LatestFacts DEF DInv, Rows
  <2> QED
    BY <1>1, <2>1, DeltaAssumption DEF RInv, Stored, DeltaAssumption
<1> DEFINE new == IF id = 0 THEN nextId + 1 ELSE nextId
<1>3. PICK plan \in Plans \ {{}} : PutCheckpoint([Entered(id, d) EXCEPT !.due = plan], new, "input")
  BY DEF Input
<1> DEFINE l == [Entered(id, d) EXCEPT !.due = plan]
<1>4. /\ DOMAIN l = LoopFields /\ l.due = plan /\ l.durability = d
      /\ l.exits = {} /\ l.updated = FALSE
      /\ id = 0 => /\ l.cfg = 0 /\ l.base = nextId /\ l.persisted = FALSE /\ l.ver = 0
                   /\ l.previous = 0 /\ l.cnt = Zero
      /\ id # 0 => /\ l.cfg = id /\ l.base = id /\ l.persisted = TRUE /\ l.ver = ckpts[id].ver
                   /\ l.previous = ckpts[id].ver /\ l.cnt = ckpts[id].cnt
  <2>1. DOMAIN Entered(id, d) = LoopFields
    BY EnteredFacts
  <2>2. \A x \in LoopFields \ {"due"} : l[x] = Entered(id, d)[x]
    BY <2>1
  <2>3. DOMAIN l = LoopFields /\ l.due = plan
    BY <2>1 DEF LoopFields
  <2> DEFINE m == Entered(id, d)
  <2>4. /\ l.durability = m.durability /\ l.exits = m.exits /\ l.updated = m.updated
        /\ l.cfg = m.cfg /\ l.base = m.base /\ l.persisted = m.persisted /\ l.ver = m.ver
        /\ l.previous = m.previous /\ l.cnt = m.cnt
    <3> HIDE DEF l
    <3> QED
      BY <2>2 DEF LoopFields
  <2>5. /\ m.durability = d /\ (id = 0 => m.cfg = 0 /\ m.base = nextId)
        /\ (id # 0 => m.cfg = id /\ m.base = id)
    BY EnteredFacts
  <2>6. /\ m.exits = {} /\ m.updated = FALSE
        /\ id = 0 => m.persisted = FALSE /\ m.ver = 0 /\ m.previous = 0 /\ m.cnt = Zero
        /\ id # 0 => /\ m.persisted = TRUE /\ m.ver = ckpts[id].ver
                     /\ m.previous = ckpts[id].ver /\ m.cnt = ckpts[id].cnt
    BY EnteredRow DEF Taken
  <2> HIDE DEF l, m
  <2> QED
    BY <2>3, <2>4, <2>5, <2>6
<1>5. PutCheckpoint(l, new, "input")
  BY <1>3
<1> HIDE DEF l
<1>6. new \in Nat \ {0} /\ nextId <= new /\ id < new /\ l.cfg = id
  BY <1>1, <1>2, <1>4
<1>7. /\ \A p \in KRows : p.id \in DOMAIN ckpts /\ p.row = ckpts[p.id] /\ p.id \in 1..nextId - 1
      /\ id # 0 => [id |-> id, row |-> ckpts[id]] \in KRows
  BY <1>1, <1>2, KnownIds DEF RInv, KRows
<1>8. id # 0 => ckpts[id].ver \in 0..2 * id + 1 /\ ckpts[id].cnt \in Counters
  BY <1>7 DEF RInv, Seeded, RowOK
<1>9. l.cnt \in Counters
  BY <1>4, <1>8 DEF Zero, Counters
<1>10. Counted(l) \in Counters /\ Counted(l).s = l.cnt.s + 1 /\ Counted(l).u = l.cnt.u
       /\ l.cnt.s \in Nat /\ l.cnt.u \in Nat
  <2>1. l.cnt.s \in Nat /\ l.cnt.u \in Nat
    BY <1>9 DEF Counters
  <2>2. l.updated = FALSE /\ l.updated \in BOOLEAN
    BY <1>4
  <2>3. /\ Counted(l) \in Counters /\ Counted(l).s = l.cnt.s + 1
        /\ Counted(l).u = l.cnt.u + IF l.updated THEN 1 ELSE 0
    BY <1>9, <2>2, CountedFacts
  <2> QED
    BY <2>1, <2>2, <2>3
<1>11. PutOK(l, new)
  <2>1. plan \subseteq Task
    BY DeltaAssumption DEF DeltaAssumption
  <2>2. l.ver \in 0..2 * new + 1 /\ l.previous \in 0..2 * l.cfg + 1
    BY <1>2, <1>4, <1>6, <1>8
  <2>3. \A p \in KRows : p.id = l.cfg => (l.ver = 0 => p.row.ver = 0)
    BY <1>4, <1>6, <1>7
  <2>4. l.cfg \in 0..new - 1
    BY <1>2, <1>6
  <2> HIDE DEF new
  <2> QED
    BY <1>4, <1>10, <2>1, <2>2, <2>3, <2>4 DEF PutOK
<1>12. PutSaving(l, new)
  <2> SUFFICES ASSUME d # "exit" PROVE PutSaving(l, new)
    BY <1>4 DEF PutSaving
  <2>1. ASSUME NEW p \in KRows, p.id = l.cfg
        PROVE  /\ Ats(p.id) = {} /\ Counted(l).s >= p.row.cnt.s + 1
               /\ Counted(l).u >= p.row.cnt.u + Cardinality(Ats(p.id))
    <3>1. id # 0 /\ p.id = id /\ p.row = ckpts[id]
      BY <1>6, <1>7, <2>1
    <3>2. Branches(id, d) => Clean(id)
      BY <3>1 DEF Branches
    <3>3. Ats(id) = {}
      BY <1>1, <1>2, <3>1, <3>2, CleanFacts DEF Input, RInv
    <3>4. l.cnt = p.row.cnt
      BY <1>4, <3>1
    <3>5. Cardinality(Ats(p.id)) = 0
      BY <3>1, <3>3, NoSteps
    <3> QED
      BY <1>10, <3>1, <3>3, <3>4, <3>5
  <2>2. \A k \in KRows : (\A j \in DOMAIN ckpts : j <= k.id)
                           => Owned(Entries(k.id), k.id, k.row.due)
    BY <1>1 DEF RInv, Owners
  <2> QED
    BY <2>1, <2>2 DEF PutSaving
<1>13. PutKeeping(l, new)
  <2> SUFFICES ASSUME d = "exit" PROVE PutKeeping(l, new)
    BY <1>4 DEF PutKeeping
  <2>1. Entries(l.base) = {} /\ new # l.base /\ (id = 0 => \A k \in KRows : k.id # l.base)
    <3>1. CASE id = 0
      BY <1>1, <1>4, <3>1, Fresh DEF RInv
    <3>2. CASE id # 0
      <4>1. Branches(id, d) => Unused(id)
        BY <3>2 DEF Branches
      <4> QED
        BY <1>1, <1>2, <1>4, <3>2, <4>1, CleanFacts DEF Input, RInv
    <3> QED
      BY <3>1, <3>2
  <2>2. AtsOf(l.exits) = {} /\ Cardinality(AtsOf(l.exits)) = 0
    BY <1>4, NoSteps
  <2>3. \A p \in KRows : p.id = l.cfg =>
          Counted(l).s >= p.row.cnt.s + 1 /\ Counted(l).u >= p.row.cnt.u
    <3>1. ASSUME NEW p \in KRows, p.id = l.cfg
          PROVE  Counted(l).s >= p.row.cnt.s + 1 /\ Counted(l).u >= p.row.cnt.u
      <4>1. id # 0 /\ p.row = ckpts[id]
        BY <1>6, <1>7, <3>1
      <4>2. l.cnt = p.row.cnt
        BY <1>4, <4>1
      <4> QED
        BY <1>10, <4>2
    <3> QED
      BY <3>1
  <2>4. \A p \in KRows : p.row.cnt.u \in Nat
    BY DEF RInv, Seeded, RowOK, Counters
  <2>5. Counted(l).s >= 1 /\ Counted(l).u >= 0
    BY <1>10
  <2> HIDE DEF new
  <2> QED
    BY <1>4, <1>6, <2>1, <2>2, <2>3, <2>4, <2>5 DEF PutKeeping
<1>14. UNCHANGED <<ckpts, blobs, written, puts>> /\ pc' \in {"run", "exit"}
  BY DEF Input, store
<1> HIDE DEF new
<1> QED
  BY <1>5, <1>6, <1>11, <1>12, <1>13, <1>14, PutInv DEF RInv

(* What is stored under the checkpoint of the loop, while none is stored.    *)
LEMMA SameEntries ==
  ASSUME puts' = puts, written' = written
  PROVE  /\ \A i : Entries(i)' = Entries(i)
         /\ Entries(loop.ck)' = Entries(loop'.ck) /\ Entries(loop.base)' = Entries(loop'.base)
BY DEF Entries

LEMMA ResumeR ==
  ASSUME CleanOnly, DInv, DInv', RInv, NEW d \in Durabilities, Resume(d)
  PROVE  RInv'
<1>1. /\ pc = "idle" /\ puts = {} /\ pc' = "run" /\ Latest # 0 /\ loop' = Entered(Latest, d)
      /\ UNCHANGED <<ckpts, blobs, written, puts, futs, saves, nextId>>
  BY DEF DInv, Still, Resume, Request, store, work
<1>2. /\ Latest \in DOMAIN ckpts /\ (\A j \in DOMAIN ckpts : j <= Latest)
      /\ Latest \in 1..nextId - 1 /\ nextId \in Nat \ {0} /\ Latest \in 1..MaxId
  <2>1. Latest \in DOMAIN ckpts /\ (\A j \in DOMAIN ckpts : j <= Latest)
        /\ Latest \in 1..nextId - 1 /\ nextId \in Nat \ {0}
    BY <1>1, LatestFacts DEF DInv, Rows
  <2> HIDE DEF Latest
  <2> QED
    BY <2>1, DeltaAssumption DEF RInv, Stored, DeltaAssumption
<1> DEFINE k0 == [id |-> Latest, row |-> ckpts[Latest]]
<1>3. k0 \in KRows /\ k0.id = Latest /\ k0.row = ckpts[Latest]
  BY <1>2 DEF KRows
<1>4. /\ DOMAIN loop' = LoopFields /\ loop'.durability = d
      /\ loop'.ck = Latest /\ loop'.cfg = Latest /\ loop'.base = Latest
  BY <1>1, EnteredFacts
<1>5. /\ loop'.exits = {} /\ loop'.updated = FALSE
      /\ loop'.persisted = TRUE /\ loop'.ver = ckpts[Latest].ver
      /\ loop'.previous = ckpts[Latest].ver /\ loop'.cnt = ckpts[Latest].cnt
      /\ loop'.due = ckpts[Latest].due
      /\ loop'.pend = PendOf(Latest)
  <2> DEFINE m == Entered(Latest, d)
  <2>1. /\ m.exits = {} /\ m.updated = FALSE
        /\ m.persisted = TRUE /\ m.ver = ckpts[Latest].ver
        /\ m.previous = ckpts[Latest].ver /\ m.cnt = ckpts[Latest].cnt
        /\ m.due = ckpts[Latest].due
        /\ m.pend = PendOf(Latest)
    <3>1. Taken(m, Latest)
      BY EnteredRow
    <3> HIDE DEF m, Latest
    <3> QED
      BY <1>1, <3>1 DEF Taken
  <2> HIDE DEF m, Latest
  <2>2. loop' = m
    BY <1>1 DEF m
  <2> QED
    BY <2>1, <2>2
<1>6. KRows' = KRows /\ \A i : Entries(i)' = Entries(i)
  BY <1>1 DEF KRows, Entries
<1>7. \A k \in KRows : k.id \in DOMAIN ckpts /\ k.row = ckpts[k.id]
  BY <1>1, KnownIds DEF RInv
<1>8. Owned(Entries(Latest), Latest, ckpts[Latest].due)
  BY <1>1, <1>2, <1>3 DEF RInv, Owners
<1>9. Entries(Latest) = ToSet(written[Latest])
  BY <1>1, <1>2 DEF RInv, Stored, Entries
<1> HIDE DEF Latest, k0
<1>10. RowOK(k0)
  BY <1>3 DEF RInv, Seeded
<1>11. \A e \in ToSet(written[Latest]) :
         /\ e.tid \in DOMAIN loop'.pend /\ loop'.pend[e.tid] = e.writes
         /\ e \in Entries(Latest) /\ IsSeq(e.writes)
  <2> SUFFICES ASSUME NEW e \in ToSet(written[Latest])
               PROVE  /\ e.tid \in DOMAIN loop'.pend /\ loop'.pend[e.tid] = e.writes
                      /\ e \in Entries(Latest) /\ IsSeq(e.writes)
    OBVIOUS
  <2>1. e.tid \in DOMAIN loop'.pend
    BY <1>5 DEF PendOf
  <2>2. loop'.pend[e.tid] = (CHOOSE f \in ToSet(written[Latest]) : f.tid = e.tid).writes
    BY <1>5 DEF PendOf
  <2>3. \A f \in ToSet(written[Latest]) : f.tid = e.tid => f = e
    BY <1>2 DEF RInv, Stored
  <2>4. (CHOOSE f \in ToSet(written[Latest]) : f.tid = e.tid) = e
    BY <2>3
  <2> QED
    BY <1>2, <1>9, <2>1, <2>2, <2>4 DEF RInv, Stored
<1>12. \A t \in DOMAIN loop'.pend : \E e \in ToSet(written[Latest]) : t = e.tid
  BY <1>5 DEF PendOf
<1>13. Stored' /\ Seeded'
  BY <1>1, <1>6 DEF RInv, Stored, Seeded, RowOK
<1>14. Edges'
  BY <1>6, EdgesShrink DEF RInv, Seeded
<1>15. Owners'
  <2>1. \A k \in KRows : (\A j \in DOMAIN ckpts : j <= k.id)
                           => Owned(Entries(k.id), k.id, k.row.due)
    BY <1>1 DEF RInv, Owners
  <2>2. \A k \in KRows' : Owned(Entries(k.id), k.id, k.row.due)'
                            = Owned(Entries(k.id), k.id, k.row.due)
    BY <1>6 DEF Owned
  <2> QED
    BY <1>1, <1>6, <2>1, <2>2 DEF Owners
<1>16. Running'
  <2>1. /\ loop'.due \subseteq Task /\ loop'.cnt \in Counters
        /\ loop'.ver \in 0..2 * loop'.ck + 1 /\ loop'.previous \in 0..2 * loop'.cfg + 1
    BY <1>3, <1>4, <1>5, <1>10 DEF RowOK
  <2>2. \A k \in KRows' : k.id = loop'.ck => k.row.due = loop'.due
    BY <1>4, <1>5, <1>6, <1>7
  <2>3. ASSUME NEW t \in DOMAIN loop'.pend
        PROVE  /\ IsSeq(loop'.pend[t])
               /\ loop'.pend[t] # <<>> => /\ \E u \in loop'.due : t = TaskId(u)'
                                          /\ \A w \in ToSet(loop'.pend[t]) : w.at = loop'.ck
    <3>1. PICK e \in ToSet(written[Latest]) : t = e.tid
      BY <1>12
    <3>2. loop'.pend[t] = e.writes /\ e \in Entries(Latest) /\ IsSeq(e.writes)
      BY <1>11, <3>1
    <3>3. e.writes # <<>> => /\ \E u \in ckpts[Latest].due :
                                  e.tid = [pre |-> Hashed, ck |-> Latest, by |-> u]
                             /\ \A w \in ToSet(e.writes) : w.at = Latest
      BY <1>8, <3>2 DEF Owned
    <3>4. \A u : TaskId(u)' = [pre |-> Hashed, ck |-> Latest, by |-> u]
      BY <1>4 DEF TaskId
    <3> QED
      BY <1>4, <1>5, <3>1, <3>2, <3>3, <3>4
  <2> QED
    BY <1>5, <2>1, <2>2, <2>3 DEF Running
<1>17. Saving'
  <2> SUFFICES ASSUME d # "exit" PROVE Saving'
    BY <1>4 DEF Saving
  <2>3. Entries(loop.ck)' = Entries(Latest)
    BY <1>1, <1>4, SameEntries
  <2>1. \A k \in KRows' : k.id = loop'.ck => k.row.ver = loop'.ver /\ k.row.cnt = loop'.cnt
    BY <1>4, <1>5, <1>6, <1>7
  <2>2. \A e \in Entries(loop.ck)' : e.writes # <<>> =>
          /\ e.tid \in DOMAIN loop'.pend /\ loop'.pend[e.tid] # <<>>
          /\ \A w \in ToSet(e.writes) : w.at = loop'.ck
    BY <1>4, <1>8, <1>9, <1>11, <2>3 DEF Owned
  <2> QED
    BY <1>4, <2>1, <2>2 DEF Saving
<1>18. Keeping'
  <2> SUFFICES ASSUME d = "exit" PROVE Keeping'
    BY <1>4 DEF Keeping
  <2>1. Entries(Latest) = {}
    <3>1. Branches(Latest, d)
      BY DEF Resume
    <3>2. Unused(Latest)
      BY <1>1, <3>1 DEF Branches
    <3> QED
      BY <1>1, <1>2, <3>2, CleanFacts DEF RInv
  <2>2. AtExit' = {} /\ Cardinality(AtExit') = 0
    <3>1. AtExit' = AtsOf({})
      BY <1>5 DEF AtExit, AtsOf
    <3> QED
      BY <3>1, NoSteps
  <2>3. loop'.cnt.u \in Nat /\ loop'.cnt.s \in Nat
    BY <1>3, <1>5, <1>10 DEF RowOK, Counters
  <2>4. \A k \in KRows' : k.id = loop'.cfg => k.row.ver = loop'.ver /\ k.row.cnt = loop'.cnt
    BY <1>4, <1>5, <1>6, <1>7
  <2>5. Entries(loop.base)' = {} /\ Entries(loop.ck)' = {}
    BY <1>1, <1>4, <2>1, SameEntries
  <2>6. \E k \in KRows' : k.id = loop'.ck
    BY <1>3, <1>4, <1>6
  <2> QED
    BY <1>4, <1>5, <2>2, <2>3, <2>4, <2>5, <2>6 DEF Keeping
<1> QED
  BY <1>13, <1>14, <1>15, <1>16, <1>17, <1>18 DEF RInv

(* A write is stored.                                                      *)
LEMMA StoredPut ==
  ASSUME Stored, NEW p, p.ck \in 1..MaxId, p.ck \in 1..nextId' - 1, IsSeq(p.writes),
         \A w \in ToSet(p.writes) : w.at \in 1..nextId' - 1,
         written' = PutWrites(written, p), puts' \subseteq puts,
         nextId \in Nat, nextId' \in Nat, nextId <= nextId', nextId' <= MaxId + 1
  PROVE  /\ Stored'
         /\ \A i : i # p.ck => Entries(i)' \subseteq Entries(i)
         /\ Entries(p.ck)' \subseteq Entries(p.ck) \cup {[tid |-> p.tid, writes |-> p.writes]}
<1> DEFINE e == [tid |-> p.tid, writes |-> p.writes]
           c == p.ck
<1>1. /\ DOMAIN written' = DOMAIN written
      /\ \A i \in DOMAIN written \ {c} : written'[i] = written[i]
      /\ IsSeq(written'[c])
      /\ \/ written' = written
         \/ /\ ToSet(written'[c]) = ToSet(written[c]) \cup {e}
            /\ \A f \in ToSet(written[c]) : f.tid # p.tid
  <2>1. c \in DOMAIN written /\ IsSeq(written[c])
    BY DEF Stored
  <2> QED
    BY <2>1, PutWritesFacts
<1>2. e.tid = p.tid /\ e.writes = p.writes
  OBVIOUS
<1>3. c \in DOMAIN written /\ DOMAIN written = 1..MaxId
  BY DEF Stored
<1> HIDE DEF e, c
<1>4. ToSet(written'[c]) \subseteq ToSet(written[c]) \cup {e}
  BY <1>1
<1>5. \A i : i # c => Entries(i)' \subseteq Entries(i)
  BY <1>1 DEF Entries
<1>6. Entries(c)' \subseteq Entries(c) \cup {e}
  BY <1>1, <1>3, <1>4 DEF Entries
<1>7. \A x : x \in 1..nextId - 1 => x \in 1..nextId' - 1
  <2>1. \A a, b \in Nat : a <= b => \A x : x \in 1..a - 1 => x \in 1..b - 1
    OBVIOUS
  <2> QED
    BY <2>1
<1>8. Stored'
  <2>1. ASSUME NEW i \in 1..MaxId
        PROVE  /\ IsSeq(written'[i]) /\ (i >= nextId' => written'[i] = <<>>)
               /\ \A x, y \in ToSet(written'[i]) : x.tid = y.tid => x = y
    <3>1. i >= nextId' => i >= nextId /\ i # c
      BY DEF c
    <3>2. CASE i = c
      <4>1. \A x, y \in ToSet(written[c]) : x.tid = y.tid => x = y
        BY <1>3 DEF Stored
      <4> QED
        BY <1>1, <1>2, <3>1, <3>2, <4>1
    <3>3. CASE i # c
      BY <1>1, <1>3, <3>1, <3>3 DEF Stored
    <3> QED
      BY <3>2, <3>3
  <2>2. ASSUME NEW i \in 1..MaxId, NEW x \in Entries(i)'
        PROVE  IsSeq(x.writes) /\ \A w \in ToSet(x.writes) : w.at \in 1..nextId' - 1
    <3>1. x \in Entries(i) \/ x = e
      BY <1>5, <1>6, <2>2
    <3>2. CASE x \in Entries(i)
      BY <1>7, <3>2 DEF Stored
    <3>3. CASE x = e
      BY <1>2, <3>3
    <3> QED
      BY <3>1, <3>2, <3>3
  <2>3. \A q \in puts' : q.ck \in 1..nextId' - 1
    BY <1>7 DEF Stored
  <2> QED
    BY <1>1, <1>3, <2>1, <2>2, <2>3 DEF Stored
<1> QED
  BY <1>5, <1>6, <1>8 DEF e, c

LEMMA StoredSame ==
  ASSUME Stored, written' = written, puts' \subseteq puts,
         nextId \in Nat, nextId' \in Nat, nextId <= nextId', nextId' <= MaxId + 1
  PROVE  Stored' /\ \A i : Entries(i)' \subseteq Entries(i)
<1>1. \A i : Entries(i)' \subseteq Entries(i)
  BY DEF Entries
<1>2. \A a, b \in Nat : a <= b => \A x : x \in 1..a - 1 => x \in 1..b - 1
  OBVIOUS
<1>3. \A x : x \in 1..nextId - 1 => x \in 1..nextId' - 1
  BY <1>2
<1>4. \A i \in 1..MaxId : i >= nextId' => i >= nextId
  OBVIOUS
<1> QED
  BY <1>1, <1>3, <1>4 DEF Stored

(* update_state adds rows, the last of them with nothing stored under it,  *)
(* and stores writes only where no row has its parent.                     *)
Added(i) ==
  /\ i >= nextId /\ RowOK([id |-> i, row |-> ckpts'[i]])
  /\ ckpts'[i].inline # <<>> => ckpts'[i].ver \in DOMAIN blobs
  /\ \/ ckpts'[i].src \in {"update", "copy"}
     \/ ckpts'[i].parent = 0 /\ ckpts'[i].cnt = Zero
LEMMA IdleR ==
  ASSUME DInv, DInv', RInv, pc = "idle", UNCHANGED <<blobs, pc, puts, saves>>, Stored',
         NEW new \in DOMAIN ckpts', \A j \in DOMAIN ckpts' : j <= new,
         \A e : e \notin Entries(new)',
         \A i \in DOMAIN ckpts' : (i \in DOMAIN ckpts /\ ckpts'[i] = ckpts[i]) \/ Added(i),
         \A j : (\E i \in DOMAIN ckpts : ckpts[i].parent = j)
                   => Entries(j)' \subseteq Entries(j)
  PROVE  RInv'
<1>1. /\ saves = <<>> /\ DOMAIN saves = {} /\ saves' = saves
      /\ nextId \in Nat \ {0} /\ DOMAIN ckpts \subseteq 1..nextId - 1
      /\ nextId' \in Nat \ {0} /\ DOMAIN ckpts' \subseteq 1..nextId' - 1
  BY DEF DInv, Still, Rows
<1>2. \A k \in KRows : k.id \in DOMAIN ckpts /\ k.row = ckpts[k.id] /\ k.id \in 1..nextId - 1
                       /\ k.row.parent \in 0..k.id - 1
  BY KnownIds DEF RInv
<1>3. KRows' = {[id |-> i, row |-> ckpts'[i]] : i \in DOMAIN ckpts'}
  BY <1>1 DEF KRows
<1>4. ASSUME NEW k \in KRows'
      PROVE  /\ k.id \in DOMAIN ckpts' /\ k = [id |-> k.id, row |-> ckpts'[k.id]]
             /\ k.row = ckpts'[k.id] /\ (k \in KRows \/ Added(k.id))
  <2>1. PICK i \in DOMAIN ckpts' : k = [id |-> i, row |-> ckpts'[i]]
    BY <1>3, <1>4
  <2>2. k.id = i /\ k.row = ckpts'[i]
    BY <2>1
  <2>3. i \in DOMAIN ckpts /\ ckpts'[i] = ckpts[i] => k \in KRows
    BY <2>1 DEF KRows
  <2> QED
    BY <2>1, <2>2, <2>3
<1>5. Seeded'
  <2>1. ASSUME NEW k \in KRows' PROVE RowOK(k)'
    <3>1. RowOK(k)
      BY <1>4 DEF RInv, Seeded, Added
    <3> QED
      BY <3>1 DEF RowOK
  <2>2. \A i \in DOMAIN ckpts' : ckpts'[i].inline # <<>> => ckpts'[i].ver \in DOMAIN blobs'
    BY DEF RInv, Seeded, Added
  <2> QED
    BY <1>1, <2>1, <2>2 DEF Seeded
<1>6. Edges'
  <2>1. ASSUME NEW c \in KRows', c \notin KRows PROVE Steady(c)'
    <3>1. Added(c.id) /\ c.row = ckpts'[c.id]
      BY <1>4, <2>1
    <3>2. CASE c.row.src \in {"update", "copy"}
      BY <3>2 DEF Steady
    <3>3. CASE c.row.parent = 0 /\ c.row.cnt = Zero
      <4>1. \A p \in KRows' : p.id # 0
        BY <1>1, <1>4
      <4>2. c.row.cnt.u < Freq /\ c.row.cnt.s < MaxSupersteps
        BY <3>3, DeltaAssumption DEF DeltaAssumption, Zero
      <4> QED
        BY <3>3, <4>1, <4>2 DEF Steady
    <3> QED
      BY <3>1, <3>2, <3>3 DEF Added
  <2>2. ASSUME NEW c \in KRows, NEW p \in KRows', p.id = c.row.parent
        PROVE  p \in KRows /\ Entries(p.id)' \subseteq Entries(p.id)
    <3>1. ~ p.id >= nextId
      BY <1>1, <1>2, <2>2
    <3>2. p \in KRows
      BY <1>4, <3>1 DEF Added
    <3>3. \E i \in DOMAIN ckpts : ckpts[i].parent = p.id
      BY <1>2, <2>2
    <3> QED
      BY <3>2, <3>3
  <2>3. \A k \in KRows : RowOK(k)
    BY DEF RInv, Seeded
  <2> QED
    BY <2>1, <2>2, <2>3, EdgesStep DEF RInv
<1>7. Owners'
  <2>1. ASSUME NEW k \in KRows', \A j \in DOMAIN ckpts' : j <= k.id
        PROVE  Owned(Entries(k.id), k.id, k.row.due)'
    <3>1. k.id = new
      BY <1>1, <1>4, <2>1
    <3>2. \A e : e \notin Entries(k.id)'
      BY <3>1
    <3> QED
      BY <3>2 DEF Owned
  <2> QED
    BY <2>1 DEF Owners
<1>8. Running' /\ Saving' /\ Keeping'
  BY DEF Running, Saving, Keeping
<1> QED
  BY <1>5, <1>6, <1>7, <1>8 DEF RInv

LEMMA CopyR ==
  ASSUME DInv, DInv', RInv, NEW id \in DOMAIN ckpts, Copy(id)
  PROVE  RInv'
<1>1. /\ pc = "idle" /\ UNCHANGED <<blobs, written, pc, puts, saves>> /\ nextId' = nextId + 1
      /\ nextId < MaxId /\ nextId \in Nat \ {0} /\ MaxId \in Nat
      /\ DOMAIN ckpts \subseteq 1..nextId - 1
  BY DeltaAssumption DEF DeltaAssumption, DInv, Rows, Copy, Request, work
<1>2. [id |-> id, row |-> ckpts[id]] \in KRows
  BY DEF KRows
<1>3. RowOK([id |-> id, row |-> ckpts[id]])
  BY <1>2 DEF RInv, Seeded
<1>4. PICK row : ckpts' = With(ckpts, nextId, row)
                 /\ row = [ckpts[id] EXCEPT !.flag = BlobOf(id) # <<>>, !.cnt = Zero,
                                            !.step = @ + 1, !.src = "copy"]
  BY DEF Copy
<1>5. /\ DOMAIN row = RowFields /\ row.flag = (BlobOf(id) # <<>>) /\ row.cnt = Zero
      /\ row.src = "copy" /\ row.ver = ckpts[id].ver /\ row.inline = ckpts[id].inline
      /\ row.due = ckpts[id].due /\ row.parent = ckpts[id].parent
  BY <1>3, <1>4 DEF RowOK, RowFields
<1>6. /\ DOMAIN ckpts' = DOMAIN ckpts \cup {nextId} /\ ckpts'[nextId] = row
      /\ \A i \in DOMAIN ckpts \ {nextId} : ckpts'[i] = ckpts[i]
  BY <1>4 DEF With
<1>7. Stored' /\ \A i : Entries(i)' \subseteq Entries(i)
  BY <1>1, StoredSame DEF RInv
<1>8. Added(nextId)
  <2>1. row.inline # <<>> => row.ver \in DOMAIN blobs /\ row.flag = TRUE
    BY <1>5 DEF RInv, Seeded, BlobOf
  <2>2. row.ver \in 0..2 * nextId + 1
    BY <1>1, <1>3, <1>5 DEF RowOK
  <2>3. row.cnt \in Counters
    BY <1>5 DEF Zero, Counters
  <2> QED
    BY <1>1, <1>3, <1>5, <1>6, <2>1, <2>2, <2>3 DEF Added, RowOK
<1>9. \A i \in DOMAIN ckpts' : (i \in DOMAIN ckpts /\ ckpts'[i] = ckpts[i]) \/ Added(i)
  BY <1>1, <1>6, <1>8
<1>10. PICK n : n = nextId
  OBVIOUS
<1>11. n \in DOMAIN ckpts' /\ (\A j \in DOMAIN ckpts' : j <= n) /\ \A e : e \notin Entries(n)'
  <2>1. Entries(n) = {} /\ Entries(n)' \subseteq Entries(n)
    BY <1>1, <1>7, <1>10, Fresh DEF RInv
  <2> QED
    BY <1>1, <1>6, <1>10, <2>1
<1> QED
  BY <1>1, <1>7, <1>9, <1>11, IdleR

LEMMA UpdateR ==
  ASSUME CleanOnly, DInv, DInv', RInv,
         NEW t \in Task, NEW id \in DOMAIN ckpts \cup {Latest}, UpdateState(id, t)
  PROVE  RInv'
<1> DEFINE anchor == IF id = 0 THEN nextId ELSE id
           new == IF id = 0 THEN nextId + 1 ELSE nextId
<1>1. /\ pc = "idle" /\ UNCHANGED <<blobs, pc, puts, saves>> /\ nextId' = new + 1
      /\ new < MaxId /\ nextId \in Nat \ {0} /\ MaxId \in Nat /\ puts = {} /\ saves = <<>>
      /\ DOMAIN ckpts \subseteq 1..nextId - 1
      /\ id # 0 => Unused(id)
  BY DeltaAssumption DEF DeltaAssumption, DInv, Rows, Still, UpdateState, Request, work
<1>2. id \in 0..nextId - 1 /\ (id # 0 => id \in DOMAIN ckpts)
  BY <1>1, LatestFacts DEF DInv, Rows
<1> DEFINE stub == [parent |-> 0, ver |-> 0, inline |-> <<>>, flag |-> FALSE,
                    cnt |-> Zero, step |-> 1, due |-> {}, src |-> "stub"]
<1>3. PICK old, row :
        /\ ckpts' = With(With(ckpts, anchor, old), new, row)
        /\ old = IF id = 0 THEN stub ELSE ckpts[id]
        /\ DOMAIN row = RowFields /\ row.ver = 2 * new /\ row.inline = <<>> /\ row.cnt = Zero
        /\ row.due \in Plans /\ row.src = "update"
  <2> DEFINE old == IF id = 0 THEN stub ELSE ckpts[id]
  <2>1. PICK plan \in Plans :
          ckpts' = With(With(ckpts, anchor, old), new,
                        [stub EXCEPT !.parent = anchor, !.ver = 2 * new,
                                     !.step = old.step + 1, !.due = plan, !.src = "update"])
    BY DEF UpdateState
  <2> DEFINE row == [stub EXCEPT !.parent = anchor, !.ver = 2 * new,
                                 !.step = old.step + 1, !.due = plan, !.src = "update"]
  <2>2. /\ DOMAIN row = RowFields /\ row.ver = 2 * new /\ row.inline = <<>> /\ row.cnt = Zero
        /\ row.due \in Plans /\ row.src = "update"
    BY DEF RowFields
  <2>3. ckpts' = With(With(ckpts, anchor, old), new, row)
    BY <2>1
  <2> HIDE DEF row
  <2> QED
    BY <2>2, <2>3
<1>4. PICK ws, tid : /\ written' = PutWrites(written, [ck |-> anchor, writes |-> ws, tid |-> tid])
                     /\ \E by : ws = <<[by |-> by, at |-> anchor, over |-> FALSE]>>
  BY DEF UpdateState
<1>5. /\ anchor \in 1..new - 1 /\ new \in Nat \ {0} /\ nextId <= new /\ anchor <= nextId
      /\ anchor \in 1..MaxId
  BY <1>1, <1>2
<1>6. id = 0 => old.ver = 0 /\ old.inline = <<>> /\ old.cnt = Zero /\ old.due = {}
                /\ old.parent = 0 /\ DOMAIN old = RowFields
  BY <1>3 DEF RowFields
<1> HIDE DEF stub
<1>7. /\ DOMAIN ckpts' = DOMAIN ckpts \cup {anchor, new}
      /\ ckpts'[new] = row /\ ckpts'[anchor] = old
      /\ \A i \in DOMAIN ckpts \ {anchor, new} : ckpts'[i] = ckpts[i]
  <2> DEFINE half == With(ckpts, anchor, old)
  <2>1. DOMAIN half = DOMAIN ckpts \cup {anchor} /\ half[anchor] = old
        /\ \A i \in DOMAIN ckpts \ {anchor} : half[i] = ckpts[i]
    BY DEF With
  <2>2. ckpts' = With(half, new, row)
    BY <1>3
  <2> HIDE DEF half, anchor, new
  <2>3. DOMAIN ckpts' = DOMAIN half \cup {new} /\ ckpts'[new] = row
        /\ \A i \in DOMAIN half \ {new} : ckpts'[i] = half[i]
    BY <2>2 DEF With
  <2>4. anchor # new
    BY <1>5
  <2> QED
    BY <2>1, <2>3, <2>4
<1>8. Stored' /\ \A i : i # anchor => Entries(i)' \subseteq Entries(i)
  <2> DEFINE p == [ck |-> anchor, writes |-> ws, tid |-> tid]
  <2>1. p.ck = anchor /\ p.writes = ws /\ p.tid = tid
    OBVIOUS
  <2>2. IsSeq(ws) /\ \A w \in ToSet(ws) : w.at = anchor
    <3>1. PICK by : ws = <<[by |-> by, at |-> anchor, over |-> FALSE]>>
      BY <1>4
    <3> DEFINE x == [by |-> by, at |-> anchor, over |-> FALSE]
    <3>2. x.at = anchor /\ ws = <<x>>
      BY <3>1
    <3> HIDE DEF x
    <3>3. <<x>> \in Seq({x}) /\ ToSet(<<x>>) = {x}
      BY DEF ToSet
    <3>4. IsSeq(<<x>>)
      BY <3>3, SeqRange
    <3> QED
      BY <3>2, <3>3, <3>4
  <2>3. written' = PutWrites(written, p)
    BY <1>4
  <2> HIDE DEF p, anchor, new
  <2>4. /\ p.ck \in 1..MaxId /\ p.ck \in 1..nextId' - 1 /\ IsSeq(p.writes)
        /\ \A w \in ToSet(p.writes) : w.at \in 1..nextId' - 1
    BY <1>1, <1>5, <2>1, <2>2
  <2>5. puts' \subseteq puts /\ nextId' \in Nat /\ nextId <= nextId' /\ nextId' <= MaxId + 1
    BY <1>1, <1>5
  <2> QED
    BY <1>1, <2>1, <2>3, <2>4, <2>5, StoredPut DEF RInv
<1>9. ASSUME NEW j, NEW i \in DOMAIN ckpts, ckpts[i].parent = j
      PROVE  Entries(j)' \subseteq Entries(j)
  <2>1. j < nextId
    BY <1>1, <1>9 DEF DInv, Rows
  <2>2. j # anchor
    BY <1>1, <1>9, <2>1 DEF Unused
  <2> QED
    BY <1>8, <2>2
<1>10. PICK n : n = new
  OBVIOUS
<1>11. n \in DOMAIN ckpts' /\ (\A j \in DOMAIN ckpts' : j <= n) /\ \A e : e \notin Entries(n)'
  <2>1. Entries(n) = {} /\ n # anchor
    <3> HIDE DEF new, anchor
    <3>1. n \in Nat /\ nextId <= n /\ n # anchor
      BY <1>5, <1>10
    <3>2. DInv /\ Stored
      BY DEF RInv
    <3> QED
      BY <3>1, <3>2, Fresh
  <2>2. \A e : e \notin Entries(n)'
    BY <1>8, <2>1
  <2> QED
    BY <1>1, <1>5, <1>7, <1>10, <2>2
<1>12. Zero \in Counters
  BY DEF Zero, Counters
<1>13. Added(new)
  <2>1. row.due \subseteq Task
    BY <1>3, DeltaAssumption DEF DeltaAssumption
  <2> HIDE DEF new
  <2> QED
    BY <1>3, <1>5, <1>7, <1>12, <2>1 DEF Added, RowOK
<1>14. ASSUME id = 0 PROVE Added(anchor)
  <2>1. anchor = nextId
    BY <1>14
  <2> HIDE DEF new, anchor
  <2> QED
    BY <1>1, <1>6, <1>7, <1>12, <1>14, <2>1 DEF Added, RowOK
<1>15. \A i \in DOMAIN ckpts' : (i \in DOMAIN ckpts /\ ckpts'[i] = ckpts[i]) \/ Added(i)
  <2>1. id # 0 => anchor \in DOMAIN ckpts /\ ckpts'[anchor] = ckpts[anchor]
    BY <1>2, <1>3, <1>7
  <2> HIDE DEF new, anchor
  <2> QED
    BY <1>7, <1>13, <1>14, <2>1
<1> HIDE DEF new, anchor
<1> QED
  BY <1>1, <1>8, <1>9, <1>10, <1>11, <1>15, IdleR

-----------------------------------------------------------------------------
(* The steps.                                                              *)

(* What a task may have written.                                           *)
LEMMA OutcomesFacts ==
  ASSUME NEW t, NEW ws \in Outcomes(t)
  PROVE  IsSeq(ws) /\ \A w \in ToSet(ws) : w.at = loop.ck
<1>1. CASE ws = <<>>
  <2>1. IsSeq(<<>>) /\ ToSet(<<>>) = {}
    BY DEF IsSeq, ToSet
  <2> QED
    BY <1>1, <2>1
<1>2. CASE \E o : ws = <<[by |-> t, at |-> loop.ck, over |-> o]>>
  <2>1. PICK o : ws = <<[by |-> t, at |-> loop.ck, over |-> o]>>
    BY <1>2
  <2> DEFINE x == [by |-> t, at |-> loop.ck, over |-> o]
  <2>2. x.at = loop.ck /\ ws = <<x>>
    BY <2>1
  <2> HIDE DEF x
  <2>3. <<x>> \in Seq({x}) /\ ToSet(<<x>>) = {x}
    BY DEF ToSet
  <2>4. IsSeq(<<x>>)
    BY <2>3, SeqRange
  <2> QED
    BY <2>2, <2>3, <2>4
<1> QED
  BY <1>1, <1>2 DEF Outcomes

LEMMA CommitR ==
  ASSUME DInv, DInv', RInv, NEW t \in Task, Commit(t)
  PROVE  RInv'
<1>1. PICK ws \in Outcomes(t) :
        /\ pc = "run" /\ t \in loop.due /\ TaskId(t) \notin DOMAIN loop.pend
        /\ loop' = [loop EXCEPT !.pend = With(@, TaskId(t), ws)]
        /\ loop.durability = "exit" => puts' = puts
        /\ loop.durability # "exit" =>
             puts' = puts \cup {[ck |-> loop.ck, tid |-> TaskId(t), writes |-> ws]}
        /\ UNCHANGED <<ckpts, blobs, written, pc, saves, nextId>>
  BY DEF Commit, store, counters
<1>2. IsSeq(ws) /\ \A w \in ToSet(ws) : w.at = loop.ck
  BY OutcomesFacts
<1>3. /\ DOMAIN loop' = LoopFields /\ loop'.pend = With(loop.pend, TaskId(t), ws)
      /\ \A f \in LoopFields \ {"pend"} : loop'[f] = loop[f]
  BY <1>1 DEF DInv, Newest, LoopFields
<1>4. /\ loop'.ck = loop.ck /\ loop'.cfg = loop.cfg /\ loop'.base = loop.base
      /\ loop'.durability = loop.durability /\ loop'.persisted = loop.persisted
      /\ loop'.ver = loop.ver /\ loop'.previous = loop.previous /\ loop'.cnt = loop.cnt
      /\ loop'.updated = loop.updated /\ loop'.due = loop.due /\ loop'.exits = loop.exits
  BY <1>3 DEF LoopFields
<1>5. PICK ck, tid : ck = loop.ck /\ tid = TaskId(t)
  OBVIOUS
<1> DEFINE e == [tid |-> tid, writes |-> ws]
           put == [ck |-> ck, tid |-> tid, writes |-> ws]
<1>6. /\ DOMAIN loop'.pend = DOMAIN loop.pend \cup {tid} /\ loop'.pend[tid] = ws
      /\ \A x \in DOMAIN loop.pend : loop'.pend[x] = loop.pend[x]
  BY <1>1, <1>3, <1>5 DEF With
<1>7. e.tid = tid /\ e.writes = ws /\ put.ck = ck /\ put.tid = tid /\ put.writes = ws
  OBVIOUS
<1>8. /\ \A i : i # ck => Entries(i)' = Entries(i)
      /\ loop.durability = "exit" => \A i : Entries(i)' = Entries(i)
      /\ Entries(ck)' \subseteq Entries(ck) \cup {e}
  <2>1. loop.durability = "exit" => \A i : Entries(i)' = Entries(i)
    BY <1>1 DEF Entries
  <2>2. ASSUME loop.durability # "exit"
        PROVE  /\ \A i : i # ck => Entries(i)' = Entries(i)
               /\ Entries(ck)' \subseteq Entries(ck) \cup {e}
    <3>1. puts' = puts \cup {put}
      BY <1>1, <1>5, <2>2
    <3> HIDE DEF put
    <3>2. \A i : i # ck => {x \in puts' : x.ck = i} = {x \in puts : x.ck = i}
      BY <1>7, <3>1
    <3>3. {[tid |-> p.tid, writes |-> p.writes] : p \in {x \in puts' : x.ck = ck}}
            \subseteq {[tid |-> p.tid, writes |-> p.writes] : p \in {x \in puts : x.ck = ck}} \cup {e}
      BY <1>7, <3>1
    <3> QED
      BY <1>1, <3>2, <3>3 DEF Entries
  <2> QED
    BY <2>1, <2>2
<1> HIDE DEF e, put
<1>9. nextId \in Nat \ {0} /\ ck \in 1..nextId - 1 /\ KRows' = KRows
  BY <1>1, <1>5 DEF DInv, Rows, Newest, KRows
<1>10. Stored'
  <2>1. ASSUME NEW i \in 1..MaxId, NEW x \in Entries(i)'
        PROVE  IsSeq(x.writes) /\ \A w \in ToSet(x.writes) : w.at \in 1..nextId' - 1
    <3>1. x \in Entries(i) \/ x = e
      BY <1>8, <2>1
    <3>2. CASE x \in Entries(i)
      BY <1>1, <3>2 DEF RInv, Stored
    <3>3. CASE x = e
      BY <1>1, <1>2, <1>5, <1>7, <1>9, <3>3
    <3> QED
      BY <3>1, <3>2, <3>3
  <2>2. \A p \in puts' : p.ck \in 1..nextId' - 1
    <3>1. \A p \in puts' : p \in puts \/ p = put
      BY <1>1, <1>5 DEF put
    <3> QED
      BY <1>1, <1>7, <1>9, <3>1 DEF RInv, Stored
  <2> QED
    BY <1>1, <2>1, <2>2 DEF RInv, Stored
<1>11. Seeded'
  BY <1>1, <1>9 DEF RInv, Seeded, RowOK
<1>12. Edges'
  <2>1. ASSUME NEW c \in KRows, NEW p \in KRows', p.id = c.row.parent
        PROVE  p \in KRows /\ Entries(p.id)' \subseteq Entries(p.id)
    <3>1. p.id # ck
      BY <1>1, <1>5, <1>9, <2>1, KnownIds DEF RInv
    <3> QED
      BY <1>8, <1>9, <3>1
  <2> QED
    BY <1>9, <2>1, EdgesStep DEF RInv, Seeded
<1>13. Owners'
  <2>1. ASSUME NEW k \in KRows', \A j \in DOMAIN ckpts' : j <= k.id,
               loop'.durability # "exit" \/ k.id = loop'.ck
        PROVE  Owned(Entries(k.id), k.id, k.row.due)'
    <3>1. Owned(Entries(k.id), k.id, k.row.due)
      BY <1>1, <1>4, <1>9, <2>1 DEF RInv, Owners
    <3>2. CASE k.id # ck \/ loop.durability = "exit"
      <4>1. Entries(k.id)' = Entries(k.id)
        BY <1>8, <3>2
      <4> QED
        BY <3>1, <4>1 DEF Owned
    <3>3. CASE k.id = ck
      <4>1. k.row.due = loop.due
        BY <1>1, <1>5, <1>9, <3>3 DEF RInv, Running
      <4>2. tid = [pre |-> Hashed, ck |-> ck, by |-> t]
        BY <1>5 DEF TaskId
      <4>3. Entries(k.id)' \subseteq Entries(k.id) \cup {e}
        BY <1>8, <3>3
      <4>4. t \in k.row.due /\ e.tid = [pre |-> Hashed, ck |-> k.id, by |-> t]
            /\ \A w \in ToSet(e.writes) : w.at = k.id
        BY <1>1, <1>2, <1>5, <1>7, <3>3, <4>1, <4>2
      <4> QED
        BY <3>1, <4>3, <4>4 DEF Owned
    <3> QED
      BY <3>2, <3>3
  <2> QED
    BY <1>1, <2>1 DEF Owners
<1>14. Running'
  <2>1. Running
    BY DEF RInv
  <2>2. ASSUME NEW x \in DOMAIN loop'.pend
        PROVE  /\ IsSeq(loop'.pend[x])
               /\ loop'.pend[x] # <<>> => /\ \E u \in loop'.due : x = TaskId(u)'
                                          /\ \A w \in ToSet(loop'.pend[x]) : w.at = loop'.ck
    <3>1. \A u : TaskId(u)' = TaskId(u)
      BY <1>4 DEF TaskId
    <3>2. CASE x = tid
      BY <1>1, <1>2, <1>4, <1>5, <1>6, <3>1, <3>2
    <3>3. CASE x # tid
      <4>1. x \in DOMAIN loop.pend /\ loop'.pend[x] = loop.pend[x]
        BY <1>6, <3>3
      <4>2. /\ IsSeq(loop.pend[x])
            /\ loop.pend[x] # <<>> => /\ \E u \in loop.due : x = TaskId(u)
                                      /\ \A w \in ToSet(loop.pend[x]) : w.at = loop.ck
        BY <1>1, <2>1, <4>1 DEF Running
      <4> QED
        BY <1>4, <3>1, <4>1, <4>2
    <3> QED
      BY <3>2, <3>3
  <2>3. /\ loop'.cnt \in Counters /\ loop'.due \subseteq Task
        /\ loop'.ver \in 0..2 * loop'.ck + 1 /\ loop'.previous \in 0..2 * loop'.cfg + 1
        /\ loop'.updated \in BOOLEAN /\ (loop'.updated => loop'.ver = 2 * loop'.ck)
        /\ \A k \in KRows' : k.id = loop'.ck => k.row.due = loop'.due
    BY <1>1, <1>4, <1>9, <2>1 DEF Running
  <2> QED
    BY <2>2, <2>3 DEF Running
<1>15. Saving'
  <2> SUFFICES ASSUME loop.durability # "exit" PROVE Saving'
    BY <1>4 DEF Saving
  <2>1. Saving
    BY DEF RInv
  <2>2. ASSUME NEW x \in Entries(ck)', x.writes # <<>>
        PROVE  /\ x.tid \in DOMAIN loop'.pend /\ loop'.pend[x.tid] # <<>>
               /\ \A w \in ToSet(x.writes) : w.at = loop'.ck
    <3>1. CASE x = e
      BY <1>2, <1>4, <1>5, <1>6, <1>7, <2>2, <3>1
    <3>2. CASE x \in Entries(ck)
      <4>1. /\ x.tid \in DOMAIN loop.pend /\ loop.pend[x.tid] # <<>>
            /\ \A w \in ToSet(x.writes) : w.at = loop.ck
        BY <1>1, <1>5, <2>1, <2>2, <3>2 DEF Saving
      <4> QED
        BY <1>4, <1>6, <4>1
    <3> QED
      BY <1>8, <2>2, <3>1, <3>2
  <2>3. Entries(loop.ck)' = Entries(ck)'
    BY <1>4, <1>5 DEF Entries
  <2>4. /\ loop'.cfg = loop'.ck
        /\ \A k \in KRows' : k.id = loop'.ck => k.row.ver = loop'.ver /\ k.row.cnt = loop'.cnt
    BY <1>1, <1>4, <1>9, <2>1 DEF Saving
  <2> QED
    BY <2>2, <2>3, <2>4 DEF Saving
<1>16. Keeping'
  <2> SUFFICES ASSUME loop.durability = "exit" PROVE Keeping'
    BY <1>4 DEF Keeping
  <2>1. Keeping
    BY DEF RInv
  <2>2. puts' = puts /\ written' = written
    BY <1>1
  <2>3. Entries(loop.ck)' = Entries(loop.ck) /\ Entries(loop.base)' = Entries(loop.base)
    BY <1>4, <2>2 DEF Entries
  <2>4. AtExit' = AtExit
    BY <1>4 DEF AtExit, AtsOf
  <2> QED
    BY <1>1, <1>4, <1>9, <2>1, <2>3, <2>4 DEF Keeping
<1> QED
  BY <1>10, <1>11, <1>12, <1>13, <1>14, <1>15, <1>16 DEF RInv

(* A step writes the channel if one of its tasks did.                      *)
StepSeq == FlattenSeq([i \in DOMAIN TaskPath |->
             IF TaskPath[i] \in loop.due THEN loop.pend[TaskId(TaskPath[i])] ELSE <<>>])
LEMMA StepWrites ==
  ASSUME Running, pc = "run", \A u \in loop.due : TaskId(u) \in DOMAIN loop.pend,
         NEW t \in DOMAIN loop.pend, loop.pend[t] # <<>>
  PROVE  StepSeq # <<>>
<1> DEFINE E == UNION {ToSet(loop.pend[TaskId(u)]) : u \in loop.due}
           ss == [i \in DOMAIN TaskPath |->
                   IF TaskPath[i] \in loop.due THEN loop.pend[TaskId(TaskPath[i])] ELSE <<>>]
<1>1. \A u \in loop.due : IsSeq(loop.pend[TaskId(u)]) /\ ToSet(loop.pend[TaskId(u)]) \subseteq E
  BY DEF Running
<1>2. \A u \in loop.due : loop.pend[TaskId(u)] \in Seq(E)
  <2>1. ASSUME NEW u \in loop.due PROVE loop.pend[TaskId(u)] \in Seq(E)
    <3>1. /\ loop.pend[TaskId(u)] \in Seq(ToSet(loop.pend[TaskId(u)]))
          /\ ToSet(loop.pend[TaskId(u)]) \subseteq E
      BY <1>1 DEF IsSeq
    <3> HIDE DEF E
    <3> QED
      BY <3>1
  <2> QED
    BY <2>1
<1>3. ss \in Seq(Seq(E)) /\ DOMAIN ss = DOMAIN TaskPath
  <2>1. TaskPath \in Seq(Task)
    BY DeltaAssumption DEF DeltaAssumption
  <2> HIDE DEF E
  <2>2. \A i \in DOMAIN TaskPath : ss[i] \in Seq(E)
    BY <1>2
  <2>3. DOMAIN TaskPath = 1..Len(TaskPath) /\ Len(TaskPath) \in Nat
    BY <2>1
  <2>4. ss \in [1..Len(TaskPath) -> Seq(E)] /\ DOMAIN ss = DOMAIN TaskPath
    BY <2>2, <2>3, Zenon
  <2> HIDE DEF ss
  <2> QED
    BY <2>3, <2>4
<1>4. PICK u \in loop.due : t = TaskId(u)
  BY DEF Running
<1>5. PICK i \in DOMAIN TaskPath : TaskPath[i] = u
  <2>1. u \in Task
    BY DEF Running
  <2> QED
    BY <2>1 DEF Task, ToSet
<1>6. ss[i] = loop.pend[t] /\ i \in DOMAIN ss
  BY <1>4, <1>5
<1>7. \E w : w \in ToSet(loop.pend[t])
  <2>1. loop.pend[t] \in Seq(ToSet(loop.pend[t]))
    BY DEF Running, IsSeq
  <2>2. \A S : \A s \in Seq(S) : s # <<>> => \E w : w \in S
    OBVIOUS
  <2> QED
    BY <2>1, <2>2
<1>8. ToSet(FlattenSeq(ss)) = UNION {ToSet(ss[k]) : k \in DOMAIN ss}
  <2> HIDE DEF ss, E
  <2> QED
    BY <1>3, FlattenFacts
<1>9. StepSeq = FlattenSeq(ss)
  BY DEF StepSeq
<1>10. ToSet(<<>>) = {}
  BY DEF ToSet
<1> HIDE DEF ss
<1> QED
  BY <1>6, <1>7, <1>8, <1>9, <1>10

LEMMA AfterTickR ==
  ASSUME DInv, DInv', RInv, AfterTick
  PROVE  RInv'
<1>1. /\ pc = "run" /\ UNCHANGED <<ckpts, blobs, written, puts>> /\ pc' \in {"run", "exit"}
      /\ \A u \in loop.due : TaskId(u) \in DOMAIN loop.pend
  BY DEF AfterTick, store
<1>2. /\ nextId \in Nat \ {0} /\ loop.ck \in 1..nextId - 1 /\ loop.cfg \in 0..loop.ck
      /\ loop.base \in 1..loop.ck
  BY <1>1 DEF DInv, Rows, Newest
<1>3. Running /\ Saving /\ Keeping /\ Owners /\ Stored /\ Seeded /\ Edges
  BY DEF RInv
<1> DEFINE exits == {[step |-> loop.step, tid |-> t, writes |-> loop.pend[t]] :
                       t \in {x \in DOMAIN loop.pend : loop.pend[x] # <<>>}}
           L(plan) == [loop EXCEPT
                        !.live = Updated(@, StepSeq),
                        !.ver = IF StepSeq = <<>> THEN @ ELSE 2 * nextId,
                        !.updated = StepSeq # <<>>,
                        !.over = @ \/ Overwrites(StepSeq) # {},
                        !.due = plan,
                        !.exits = IF loop.durability = "exit" THEN @ \cup exits ELSE @]
<1>4. PICK plan \in Plans : PutCheckpoint(L(plan), nextId, "loop")
  BY DEF AfterTick, StepSeq
<1> DEFINE l == L(plan)
<1>5. /\ DOMAIN l = LoopFields /\ l.due = plan /\ l.updated = (StepSeq # <<>>)
      /\ l.ver = IF StepSeq = <<>> THEN loop.ver ELSE 2 * nextId
      /\ l.exits = IF loop.durability = "exit" THEN loop.exits \cup exits ELSE loop.exits
      /\ l.durability = loop.durability /\ l.cfg = loop.cfg /\ l.base = loop.base
      /\ l.cnt = loop.cnt /\ l.previous = loop.previous /\ l.persisted = loop.persisted
  <2> HIDE DEF exits
  <2> QED
    BY DEF DInv, Newest, LoopFields
<1>6. PutCheckpoint(l, nextId, "loop")
  BY <1>4
<1> HIDE DEF l
<1>7. \A x \in DOMAIN loop.pend : loop.pend[x] # <<>> => StepSeq # <<>>
  BY <1>1, <1>3, StepWrites
<1>8. \A e \in exits : /\ IsSeq(e.writes) /\ \A w \in ToSet(e.writes) : w.at = loop.ck
                       /\ StepSeq # <<>>
  <2>1. ASSUME NEW t \in DOMAIN loop.pend, loop.pend[t] # <<>>
        PROVE  /\ IsSeq(loop.pend[t]) /\ \A w \in ToSet(loop.pend[t]) : w.at = loop.ck
               /\ StepSeq # <<>>
    BY <1>1, <1>3, <1>7, <2>1 DEF Running
  <2> QED
    BY <2>1
<1> HIDE DEF exits
<1>9. /\ loop.cnt \in Counters /\ loop.cnt.u \in Nat /\ loop.cnt.s \in Nat
      /\ loop.ver \in 0..2 * loop.ck + 1 /\ loop.previous \in 0..2 * loop.cfg + 1
  BY <1>1, <1>3 DEF Running, Counters
<1>10. /\ Counted(l) \in Counters /\ Counted(l).s = loop.cnt.s + 1
       /\ Counted(l).u = loop.cnt.u + IF StepSeq # <<>> THEN 1 ELSE 0
  <2>1. l.updated \in BOOLEAN /\ l.cnt \in Counters
    BY <1>5, <1>9
  <2> QED
    BY <1>5, <2>1, CountedFacts
<1>11. PutOK(l, nextId)
  <2>1. \A p \in KRows : p.id = l.cfg => (l.ver = 0 => p.row.ver = 0)
    <3>1. l.ver = 0 => loop.ver = 0
      BY <1>2, <1>5
    <3>2. CASE loop.durability = "exit"
      BY <1>1, <1>3, <1>5, <3>1, <3>2 DEF Keeping
    <3>3. CASE loop.durability # "exit"
      BY <1>1, <1>3, <1>5, <3>1, <3>3 DEF Saving
    <3> QED
      BY <3>2, <3>3
  <2>2. l.ver \in 0..2 * nextId + 1 /\ (l.updated => l.ver = 2 * nextId)
    <3>1. CASE StepSeq = <<>>
      <4>1. l.updated = FALSE /\ l.ver = loop.ver
        BY <1>5, <3>1
      <4> QED
        BY <1>2, <1>9, <4>1
    <3>2. CASE StepSeq # <<>>
      <4>1. l.ver = 2 * nextId
        BY <1>5, <3>2
      <4> QED
        BY <1>2, <4>1
    <3> QED
      BY <3>1, <3>2
  <2>3. l.due \subseteq Task /\ l.updated \in BOOLEAN
    BY <1>5, DeltaAssumption DEF DeltaAssumption
  <2>4. l.cfg \in 0..nextId - 1 /\ l.previous \in 0..2 * l.cfg + 1
    BY <1>2, <1>5, <1>9
  <2> QED
    BY <1>5, <1>10, <2>1, <2>2, <2>3, <2>4 DEF PutOK
<1>12. PutSaving(l, nextId)
  <2> SUFFICES ASSUME loop.durability # "exit" PROVE PutSaving(l, nextId)
    BY <1>5 DEF PutSaving
  <2>1. loop.cfg = loop.ck /\ \A k \in KRows : k.id = loop.ck => k.row.cnt = loop.cnt
    BY <1>1, <1>3 DEF Saving
  <2>2. \A e \in Entries(loop.ck) : e.writes # <<>> =>
          StepSeq # <<>> /\ \A w \in ToSet(e.writes) : w.at = loop.ck
    BY <1>1, <1>3, <1>7 DEF Saving
  <2>3. Ats(loop.ck) \subseteq {loop.ck}
    BY <2>2, AtsOne DEF Ats
  <2>4. StepSeq = <<>> => Ats(loop.ck) = {}
    BY <2>2, AtsEmpty DEF Ats
  <2>5. /\ Cardinality(Ats(loop.ck)) \in Nat /\ Cardinality(Ats(loop.ck)) <= 1
        /\ StepSeq = <<>> => Cardinality(Ats(loop.ck)) = 0
    <3>1. IsFiniteSet({loop.ck}) /\ Cardinality({loop.ck}) = 1 /\ Cardinality({}) = 0
      BY FS_EmptySet, FS_Singleton
    <3>2. Cardinality(Ats(loop.ck)) \in Nat /\ Cardinality(Ats(loop.ck)) <= Cardinality({loop.ck})
      BY <2>3, <3>1, Fewer
    <3> QED
      BY <2>4, <3>1, <3>2
  <2>6. \A p \in KRows : p.id = l.cfg =>
          /\ l.ver = 0 => Ats(p.id) = {}
          /\ Counted(l).s >= p.row.cnt.s + 1
          /\ Counted(l).u >= p.row.cnt.u + Cardinality(Ats(p.id))
    <3>1. l.ver = 0 => StepSeq = <<>>
      BY <1>2, <1>5
    <3>2. ASSUME NEW p \in KRows, p.id = l.cfg
          PROVE  /\ l.ver = 0 => Ats(p.id) = {}
                 /\ Counted(l).s >= p.row.cnt.s + 1
                 /\ Counted(l).u >= p.row.cnt.u + Cardinality(Ats(p.id))
      <4>1. p.id = loop.ck /\ p.row.cnt = loop.cnt
        BY <1>5, <2>1, <3>2
      <4> QED
        BY <1>9, <1>10, <2>4, <2>5, <3>1, <4>1
    <3> QED
      BY <3>2
  <2>7. \A k \in KRows : (\A j \in DOMAIN ckpts : j <= k.id)
                           => Owned(Entries(k.id), k.id, k.row.due)
    BY <1>3 DEF Owners
  <2> QED
    BY <2>6, <2>7 DEF PutSaving
<1>13. PutKeeping(l, nextId)
  <2> SUFFICES ASSUME loop.durability = "exit" PROVE PutKeeping(l, nextId)
    BY <1>5 DEF PutKeeping
  <2>1. l.exits = loop.exits \cup exits
    BY <1>5
  <2>2. \A e \in l.exits : IsSeq(e.writes) /\ \A w \in ToSet(e.writes) : w.at \in 1..nextId - 1
    BY <1>1, <1>2, <1>3, <1>8, <2>1 DEF Keeping
  <2>3. /\ AtExit \subseteq 1..nextId - 1 /\ IsFiniteSet(AtExit) /\ Cardinality(AtExit) \in Nat
    <3>1. nextId - 1 \in Nat
      BY <1>2
    <3>2. \A e \in loop.exits : \A w \in ToSet(e.writes) : w.at \in 1..nextId - 1
      BY <1>1, <1>3 DEF Keeping
    <3> QED
      BY <3>1, <3>2, AtsFinite DEF AtExit
  <2>4. AtsOf(l.exits) \subseteq AtExit \cup {loop.ck}
    BY <1>8, <2>1 DEF AtsOf, AtExit
  <2>5. StepSeq = <<>> => l.exits = loop.exits
    BY <1>8, <2>1
  <2>6. /\ Cardinality(AtsOf(l.exits)) \in Nat
        /\ Cardinality(AtsOf(l.exits)) <= Cardinality(AtExit) + IF StepSeq # <<>> THEN 1 ELSE 0
    <3>1. Cardinality(AtsOf(l.exits)) \in Nat
          /\ Cardinality(AtsOf(l.exits)) <= Cardinality(AtExit) + 1
      BY <2>3, <2>4, OneMore
    <3>2. StepSeq = <<>> => Cardinality(AtsOf(l.exits)) = Cardinality(AtExit)
      BY <2>5 DEF AtExit
    <3> QED
      BY <2>3, <3>1, <3>2
  <2>7. /\ loop.cnt.u >= Cardinality(AtExit)
        /\ Entries(loop.base) = {} /\ loop.cfg = IF loop.persisted THEN loop.base ELSE 0
        /\ ~ loop.persisted => \A k \in KRows : k.id # loop.base
        /\ loop.ver = 0 => loop.exits = {}
    BY <1>1, <1>3 DEF Keeping
  <2>8. l.ver = 0 => l.exits = {}
    BY <1>2, <1>5, <2>5, <2>7
  <2>9. \A p \in KRows : p.id = l.cfg =>
          /\ Counted(l).s >= p.row.cnt.s + 1
          /\ Counted(l).u >= p.row.cnt.u + Cardinality(AtsOf(l.exits))
    <3>1. ASSUME NEW p \in KRows, p.id = l.cfg
          PROVE  /\ Counted(l).s >= p.row.cnt.s + 1
                 /\ Counted(l).u >= p.row.cnt.u + Cardinality(AtsOf(l.exits))
      <4>1. /\ loop.cnt.s >= p.row.cnt.s + (IF loop.ck = loop.base THEN 0 ELSE 1)
            /\ loop.cnt.u >= p.row.cnt.u + Cardinality(AtExit)
        BY <1>1, <1>3, <1>5, <3>1 DEF Keeping
      <4>2. p.row.cnt.u \in Nat /\ p.row.cnt.s \in Nat
        BY <1>3 DEF Seeded, RowOK, Counters
      <4>3. loop.cnt.s >= p.row.cnt.s
        BY <1>9, <4>1, <4>2
      <4>4. PICK n \in {0, 1} : n = IF StepSeq # <<>> THEN 1 ELSE 0
        OBVIOUS
      <4>5. Counted(l).u = loop.cnt.u + n
            /\ Cardinality(AtsOf(l.exits)) <= Cardinality(AtExit) + n
        BY <1>10, <2>6, <4>4
      <4>6. Counted(l).s >= p.row.cnt.s + 1
        BY <1>9, <1>10, <4>2, <4>3
      <4>7. \A a, b, c, d \in Nat : \A k \in {0, 1} : a >= b + c /\ d <= c + k => a + k >= b + d
        OBVIOUS
      <4>8. loop.cnt.u + n >= p.row.cnt.u + Cardinality(AtsOf(l.exits))
        BY <1>9, <2>3, <2>6, <4>1, <4>2, <4>5, <4>7
      <4> QED
        BY <4>5, <4>6, <4>8
    <3> QED
      BY <3>1
  <2>10. Counted(l).u >= Cardinality(AtsOf(l.exits)) /\ Counted(l).s >= 1
    BY <1>9, <1>10, <2>3, <2>6, <2>7
  <2>11. nextId # l.base /\ l.base = loop.base /\ l.cfg = loop.cfg /\ l.persisted = loop.persisted
    BY <1>2, <1>5
  <2> QED
    BY <2>2, <2>7, <2>8, <2>9, <2>10, <2>11 DEF PutKeeping
<1> QED
  BY <1>1, <1>2, <1>3, <1>6, <1>11, <1>12, <1>13, PutInv

LEMMA StopR ==
  ASSUME DInv, RInv, Stop
  PROVE  RInv'
<1>1. /\ pc = "run" /\ pc' = "exit"
      /\ UNCHANGED <<ckpts, blobs, written, loop, puts, saves, nextId>>
  BY DEF Stop, store, work, counters
<1>2. KRows' = KRows /\ (\A i : Entries(i)' = Entries(i)) /\ Entries(loop.ck)' = Entries(loop.ck)
      /\ Entries(loop.base)' = Entries(loop.base) /\ AtExit' = AtExit
      /\ \A u : TaskId(u)' = TaskId(u)
  BY <1>1 DEF KRows, Entries, AtExit, AtsOf, TaskId
<1>3. nextId \in Nat
  BY DEF DInv, Rows
<1>4. Stored' /\ Seeded'
  BY <1>1, <1>2 DEF RInv, Stored, Seeded, RowOK
<1>5. Edges'
  BY <1>2, EdgesShrink DEF RInv, Seeded
<1>6. Owners'
  <2>1. \A k \in KRows : Owned(Entries(k.id), k.id, k.row.due)'
                           = Owned(Entries(k.id), k.id, k.row.due)
    BY <1>2 DEF Owned
  <2> QED
    BY <1>1, <1>2, <2>1 DEF RInv, Owners
<1>7. Running' /\ Saving' /\ Keeping'
  BY <1>1, <1>2 DEF RInv, Running, Saving, Keeping
<1> QED
  BY <1>4, <1>5, <1>6, <1>7 DEF RInv

-----------------------------------------------------------------------------
(* The executor, and the ends of an invocation.                            *)

LEMMA OwnedLess ==
  ASSUME NEW es, NEW fs, fs \subseteq es, NEW i, NEW due, Owned(es, i, due)
  PROVE  Owned(fs, i, due)
BY DEF Owned

(* What is stored moves, and no row and no write is new.                   *)
LEMMA ShrinkR ==
  ASSUME DInv, RInv, UNCHANGED <<pc, loop, nextId>>, Stored', Seeded',
         KRows' \subseteq KRows, \A i : Entries(i)' \subseteq Entries(i),
         DOMAIN ckpts \subseteq DOMAIN ckpts',
         \A k \in KRows : k.id = loop.ck => \E m \in KRows' : m.id = loop.ck
  PROVE  RInv'
<1>1. Edges'
  BY EdgesShrink DEF RInv, Seeded
<1>2. /\ loop' = loop /\ AtExit' = AtExit
      /\ \A u : TaskId(u)' = TaskId(u)
  BY DEF AtExit, AtsOf, TaskId
<1>3. PICK ck, base : ck = loop.ck /\ base = loop.base
  OBVIOUS
<1>4. /\ Entries(loop.ck)' = Entries(ck)' /\ Entries(loop.base)' = Entries(base)'
  BY <1>2, <1>3 DEF Entries
<1>5. Entries(ck)' \subseteq Entries(loop.ck) /\ Entries(base)' \subseteq Entries(loop.base)
  BY <1>3
<1>6. Owners'
  <2>1. ASSUME NEW k \in KRows', \A j \in DOMAIN ckpts' : j <= k.id,
               pc = "idle" \/ loop.durability # "exit" \/ k.id = loop.ck
        PROVE  Owned(Entries(k.id), k.id, k.row.due)'
    <3>1. Owned(Entries(k.id), k.id, k.row.due)
      BY <2>1 DEF RInv, Owners
    <3>2. Entries(k.id)' \subseteq Entries(k.id)
      OBVIOUS
    <3> QED
      BY <3>1, <3>2 DEF Owned
  <2>2. pc = "closing" /\ loop.durability = "exit" => \E k \in KRows' : k.id = loop.ck
    BY DEF RInv, Owners
  <2> QED
    BY <2>1, <2>2 DEF Owners
<1>7. Running'
  BY <1>2 DEF RInv, Running
<1>8. Saving'
  BY <1>2, <1>4, <1>5 DEF RInv, Saving
<1>9. Keeping'
  BY <1>2, <1>4, <1>5 DEF RInv, Keeping
<1> QED
  BY <1>1, <1>6, <1>7, <1>8, <1>9 DEF RInv

LEMMA SaveWritesR ==
  ASSUME DInv, RInv, SaveWrites
  PROVE  RInv'
<1>1. PICK p \in puts : /\ written' = PutWrites(written, p) /\ puts' = puts \ {p}
                        /\ UNCHANGED <<ckpts, blobs, pc, loop, saves, nextId>>
  BY DEF SaveWrites, counters
<1>2. nextId \in Nat \ {0} /\ nextId <= MaxId + 1 /\ p.ck \in 1..nextId - 1 /\ MaxId \in Nat
  BY DeltaAssumption DEF DeltaAssumption, DInv, Rows, RInv, Stored
<1>3. p.ck \in 1..MaxId
  BY <1>2
<1> DEFINE e == [tid |-> p.tid, writes |-> p.writes]
<1>4. e \in Entries(p.ck) /\ e.writes = p.writes
  BY DEF Entries
<1>5. IsSeq(p.writes) /\ \A w \in ToSet(p.writes) : w.at \in 1..nextId - 1
  <2> HIDE DEF e
  <2> QED
    BY <1>3, <1>4 DEF RInv, Stored
<1>6. /\ Stored' /\ \A i : i # p.ck => Entries(i)' \subseteq Entries(i)
      /\ Entries(p.ck)' \subseteq Entries(p.ck) \cup {e}
  <2>1. nextId' = nextId /\ puts' \subseteq puts
    BY <1>1
  <2> QED
    BY <1>1, <1>2, <1>3, <1>5, <2>1, StoredPut DEF RInv
<1>7. \A i : Entries(i)' \subseteq Entries(i)
  <2> HIDE DEF e
  <2> QED
    BY <1>4, <1>6
<1>8. KRows' = KRows
  BY <1>1 DEF KRows
<1>9. Seeded'
  BY <1>1, <1>8 DEF RInv, Seeded, RowOK
<1> QED
  BY <1>1, <1>6, <1>7, <1>8, <1>9, ShrinkR

LEMMA DrainR ==
  ASSUME DInv, RInv, NEW q \in DOMAIN saves, Drain(q)
  PROVE  RInv'
<1>1. /\ saves' = [saves EXCEPT ![q].drained = TRUE, ![q].waits = futs]
      /\ UNCHANGED <<ckpts, blobs, written, pc, loop, puts, nextId>>
  BY DEF Drain, store, counters
<1>2. /\ DOMAIN saves' = DOMAIN saves
      /\ \A j \in DOMAIN saves : /\ saves'[j].id = saves[j].id /\ saves'[j].row = saves[j].row
                                 /\ saves'[j].blob = saves[j].blob
  <2>1. DOMAIN saves' = DOMAIN saves
    BY <1>1
  <2>2. ASSUME NEW j \in DOMAIN saves
        PROVE  /\ saves'[j].id = saves[j].id /\ saves'[j].row = saves[j].row
               /\ saves'[j].blob = saves[j].blob
    <3>1. CASE j # q
      BY <1>1, <3>1
    <3>2. CASE j = q
      <4>1. DOMAIN saves[q] = SaveFields
        BY DEF DInv, Chain
      <4>2. saves'[q] = [[saves[q] EXCEPT !.drained = TRUE] EXCEPT !.waits = futs]
        BY <1>1
      <4> QED
        BY <3>2, <4>1, <4>2 DEF SaveFields
    <3> QED
      BY <3>1, <3>2
  <2> QED
    BY <2>1, <2>2
<1>3. KRows' = KRows
  BY <1>1, <1>2 DEF KRows
<1>4. Stored' /\ \A i : Entries(i)' \subseteq Entries(i)
  <2>1. nextId \in Nat /\ nextId <= MaxId + 1
    BY DEF DInv, Rows, RInv, Stored
  <2> QED
    BY <1>1, <2>1, StoredSame DEF RInv
<1>5. Seeded'
  BY <1>1, <1>2, <1>3 DEF RInv, Seeded, RowOK
<1> QED
  BY <1>1, <1>3, <1>4, <1>5, ShrinkR

LEMMA SaveCheckpointR ==
  ASSUME DInv, RInv, SaveCheckpoint
  PROVE  RInv'
<1> DEFINE save == Head(saves)
<1>1. /\ saves # <<>> /\ ckpts' = With(ckpts, save.id, save.row)
      /\ blobs' = IF save.blob THEN With(blobs, save.row.ver, save.row.inline[1]) ELSE blobs
      /\ saves' = Tail(saves)
      /\ UNCHANGED <<written, pc, loop, puts, nextId>>
  BY DEF SaveCheckpoint, counters
<1>2. /\ Len(saves) \in Nat \ {0} /\ DOMAIN saves = 1..Len(saves)
      /\ save = saves[1] /\ DOMAIN saves' = 1..Len(saves) - 1 /\ 1 \in DOMAIN saves
      /\ \A i \in DOMAIN saves' : saves'[i] = saves[i + 1] /\ i + 1 \in DOMAIN saves
  BY <1>1, SeqTail DEF DInv, Chain
<1>3. \A i \in DOMAIN saves : i # 1 => i - 1 \in DOMAIN saves' /\ saves'[i - 1] = saves[i]
  BY <1>2
<1> HIDE DEF save
<1>4. /\ DOMAIN ckpts' = DOMAIN ckpts \cup {save.id} /\ ckpts'[save.id] = save.row
      /\ \A i \in DOMAIN ckpts \ {save.id} : ckpts'[i] = ckpts[i]
  BY <1>1 DEF With
<1>5. KRows' \subseteq KRows
  <2>1. ASSUME NEW i \in DOMAIN ckpts' PROVE [id |-> i, row |-> ckpts'[i]] \in KRows
    <3>1. CASE i = save.id
      BY <1>2, <1>4, <3>1 DEF KRows
    <3>2. CASE i # save.id
      BY <1>4, <3>2 DEF KRows
    <3> QED
      BY <3>1, <3>2
  <2>2. ASSUME NEW i \in DOMAIN saves' PROVE [id |-> saves'[i].id, row |-> saves'[i].row] \in KRows
    BY <1>2 DEF KRows
  <2> QED
    BY <2>1, <2>2 DEF KRows
<1>6. ASSUME NEW k \in KRows PROVE \E m \in KRows' : m.id = k.id
  <2>1. CASE \E i \in DOMAIN ckpts : k = [id |-> i, row |-> ckpts[i]]
    <3>1. PICK i \in DOMAIN ckpts : k.id = i
      BY <2>1
    <3>2. [id |-> i, row |-> ckpts'[i]] \in KRows'
      BY <1>4 DEF KRows
    <3> QED
      BY <3>1, <3>2
  <2>2. CASE \E i \in DOMAIN saves : k = [id |-> saves[i].id, row |-> saves[i].row]
    <3>1. PICK i \in DOMAIN saves : k.id = saves[i].id
      BY <2>2
    <3>2. CASE i = 1
      <4>1. [id |-> save.id, row |-> ckpts'[save.id]] \in KRows'
        BY <1>4 DEF KRows
      <4> QED
        BY <1>2, <3>1, <3>2, <4>1
    <3>3. CASE i # 1
      <4>1. [id |-> saves'[i - 1].id, row |-> saves'[i - 1].row] \in KRows'
        BY <1>3, <3>3 DEF KRows
      <4>2. saves'[i - 1] = saves[i]
        BY <1>3, <3>3
      <4> QED
        BY <3>1, <4>1, <4>2
    <3> QED
      BY <3>2, <3>3
  <2> QED
    BY <2>1, <2>2 DEF KRows
<1>7. Stored' /\ \A i : Entries(i)' \subseteq Entries(i)
  <2>1. nextId \in Nat /\ nextId <= MaxId + 1
    BY DEF DInv, Rows, RInv, Stored
  <2> QED
    BY <1>1, <2>1, StoredSame DEF RInv
<1>8. Seeded'
  <2>1. DOMAIN blobs \subseteq DOMAIN blobs' /\ (save.blob = TRUE => save.row.ver \in DOMAIN blobs')
    BY <1>1 DEF With
  <2>2. save.row.inline # <<>> => save.blob = TRUE
    BY <1>2 DEF RInv, Seeded
  <2>3. \A i \in DOMAIN ckpts' : ckpts'[i].inline # <<>> => ckpts'[i].ver \in DOMAIN blobs'
    BY <1>4, <2>1, <2>2 DEF RInv, Seeded
  <2>4. \A k \in KRows' : RowOK(k)'
    BY <1>5 DEF RInv, Seeded, RowOK
  <2>5. \A i \in DOMAIN saves' : saves'[i].row.inline # <<>> => saves'[i].blob = TRUE
    BY <1>2 DEF RInv, Seeded
  <2> QED
    BY <2>3, <2>4, <2>5 DEF Seeded
<1>9. \A k \in KRows : k.id = loop.ck => \E m \in KRows' : m.id = loop.ck
  BY <1>6
<1>10. DOMAIN ckpts \subseteq DOMAIN ckpts' /\ UNCHANGED <<pc, loop, nextId>>
  BY <1>1, <1>4
<1> QED
  BY <1>5, <1>7, <1>8, <1>9, <1>10, ShrinkR

LEMMA ForgetR ==
  ASSUME DInv, RInv, Forget, UNCHANGED <<ckpts, blobs, written, nextId>>,
         pc # "idle",
         loop.durability = "exit" => pc = "closing" /\ saves = <<>>
  PROVE  RInv'
<1>1. pc' = "idle" /\ puts' = {} /\ saves' = <<>> /\ DOMAIN saves' = {}
  BY DEF Forget
<1>2. KRows' \subseteq KRows
  BY <1>1 DEF KRows
<1>3. Stored' /\ \A i : Entries(i)' \subseteq Entries(i)
  <2>1. nextId \in Nat /\ nextId <= MaxId + 1
    BY DEF DInv, Rows, RInv, Stored
  <2> QED
    BY <1>1, <2>1, StoredSame DEF RInv
<1>4. Seeded'
  BY <1>1, <1>2 DEF RInv, Seeded, RowOK
<1>5. Edges'
  BY <1>2, <1>3, EdgesShrink DEF RInv, Seeded
<1>6. Owners'
  <2>1. ASSUME NEW k \in KRows', \A j \in DOMAIN ckpts : j <= k.id
        PROVE  Owned(Entries(k.id), k.id, k.row.due)'
    <3>1. loop.durability # "exit" \/ k.id = loop.ck
      <4>1. SUFFICES ASSUME loop.durability = "exit" PROVE k.id = loop.ck
        OBVIOUS
      <4>2. pc = "closing" /\ saves = <<>> /\ DOMAIN saves = {}
        BY <4>1
      <4>3. PICK m \in KRows : m.id = loop.ck
        BY <4>1, <4>2 DEF RInv, Owners
      <4>4. loop.ck \in DOMAIN ckpts
        BY <4>2, <4>3 DEF KRows
      <4>5. loop.ck <= k.id /\ k.id <= loop.ck /\ k.id \in Int /\ loop.ck \in Int
        <5>1. k.id <= loop.ck /\ k.id \in 1..MaxId
          BY <1>2, KnownIds DEF RInv
        <5>2. m.id \in 1..MaxId
          BY KnownIds DEF RInv
        <5> QED
          BY <2>1, <4>3, <4>4, <5>1, <5>2
      <4> QED
        BY <4>5
    <3>2. Owned(Entries(k.id), k.id, k.row.due)
      BY <1>2, <2>1, <3>1 DEF RInv, Owners
    <3>3. Entries(k.id)' \subseteq Entries(k.id)
      BY <1>3
    <3> QED
      BY <3>2, <3>3 DEF Owned
  <2> QED
    BY <1>1, <2>1 DEF Owners
<1>7. Running' /\ Saving' /\ Keeping'
  BY <1>1 DEF Running, Saving, Keeping
<1> QED
  BY <1>3, <1>4, <1>5, <1>6, <1>7 DEF RInv

(* The end of an invocation.  One that kept its writes to the exit submits *)
(* them, under the checkpoint it began from and under the one it made.     *)
LeftOver == IF Snapshots(loop.cnt, loop.over) THEN {} ELSE loop.exits
Parent   == IF LeftOver # {} /\ ~ loop.persisted THEN loop.base ELSE loop.cfg
FinalRow == [id |-> loop.ck,
             row |-> Save(loop, loop.ck, Parent, loop.cnt, loop.step - 1, "loop").row]
StubRow  == [id |-> loop.base, row |-> Save(NoLoop, loop.base, 0, Zero, 0, "stub").row]
NewRows  == (IF LeftOver # {} /\ ~ loop.persisted THEN {StubRow} ELSE {})
              \cup (IF loop.ck = loop.base THEN {} ELSE {FinalRow})

LEMMA LeaveRows ==
  ASSUME DInv, RInv, LeaveLoop, loop.durability = "exit"
  PROVE  /\ KRows' = KRows \cup NewRows
         /\ \A q \in DOMAIN saves' : saves'[q].row.inline # <<>> => saves'[q].blob = TRUE
         /\ loop.ck # loop.base =>
              /\ RowOK(FinalRow) /\ FinalRow.id = loop.ck
              /\ FinalRow.row.cnt.u < Freq /\ FinalRow.row.cnt.s < MaxSupersteps
              /\ FinalRow.row.ver = 0 <=> loop.ver = 0
              /\ FinalRow.row.ver # 0 /\ FinalRow.row.inline = <<>> => FinalRow.row.cnt = loop.cnt
              /\ FinalRow.row.due = loop.due /\ FinalRow.row.parent = Parent
         /\ LeftOver # {} => loop.ck # loop.base /\ loop.ver # 0
         /\ RowOK(StubRow) /\ StubRow.id = loop.base /\ StubRow.row.parent = 0
         /\ StubRow.row.cnt = Zero /\ StubRow.row.ver = 0
<1>1. pc = "exit" /\ UNCHANGED <<ckpts, loop, nextId>>
  BY DEF LeaveLoop, store, counters
<1>2. /\ nextId \in Nat \ {0} /\ loop.ck \in 1..nextId - 1 /\ loop.base \in 1..loop.ck
      /\ saves = <<>>
  BY <1>1 DEF DInv, Rows, Newest, Still
<1>3. /\ Running /\ Keeping /\ loop.cfg = IF loop.persisted THEN loop.base ELSE 0
      /\ (loop.ver = 0 \/ loop.ck = loop.base => loop.exits = {})
  BY <1>1 DEF RInv, Keeping
<1> DEFINE stub  == LeftOver # {} /\ ~ loop.persisted
           base  == Save(NoLoop, loop.base, 0, Zero, 0, "stub")
           final == Save(loop, loop.ck, Parent, loop.cnt, loop.step - 1, "loop")
<1>4. saves' = saves \o (IF stub THEN <<base>> ELSE <<>>)
                     \o (IF loop.ck = loop.base THEN <<>> ELSE <<final>>)
  BY DEF LeaveLoop, LeftOver, Parent
<1>5. Fits(base, NoLoop, loop.base, 0, Zero, "stub")
  <2>1. CanSave(NoLoop, loop.base) /\ loop.base \in Nat \ {0} /\ Zero \in Counters
    BY <1>2 DEF CanSave, NoLoop, Zero, Counters
  <2> HIDE DEF base
  <2> QED
    BY <2>1, NewRow DEF base
<1>6. loop.ck # loop.base => Fits(final, loop, loop.ck, Parent, loop.cnt, "loop")
  <2> SUFFICES ASSUME loop.ck # loop.base
               PROVE  Fits(final, loop, loop.ck, Parent, loop.cnt, "loop")
    OBVIOUS
  <2>1. loop.previous \in 0..2 * loop.ck - 1
    <3>1. loop.previous \in 0..2 * loop.cfg + 1 /\ loop.cfg \in 0..loop.ck - 1
      BY <1>1, <1>2, <1>3 DEF Running
    <3> QED
      BY <1>2, <3>1
  <2>2. CanSave(loop, loop.ck) /\ loop.ck \in Nat \ {0} /\ loop.cnt \in Counters
    BY <1>1, <1>2, <1>3, <2>1 DEF Running, CanSave
  <2> HIDE DEF final
  <2> QED
    BY <2>2, NewRow DEF final
<1>7. base.row.cnt = Zero
  BY DEF Save
<1>8. StubRow = [id |-> loop.base, row |-> base.row]
  BY DEF StubRow
<1>9. FinalRow = [id |-> loop.ck, row |-> final.row]
  BY DEF FinalRow
<1>10. LeftOver # {} => loop.ck # loop.base /\ loop.ver # 0
  BY <1>3 DEF LeftOver
<1> HIDE DEF base, final, stub
<1>11. /\ RowOK(StubRow) /\ StubRow.id = loop.base /\ StubRow.row.parent = 0
       /\ StubRow.row.cnt = Zero /\ StubRow.row.ver = 0 /\ base.id = loop.base
       /\ (base.row.inline # <<>> => base.blob = TRUE)
  <2>1. NoLoop.ver = 0
    BY DEF NoLoop
  <2> QED
    BY <1>5, <1>7, <1>8, <2>1 DEF Fits
<1>12. loop.ck # loop.base =>
         /\ RowOK(FinalRow) /\ FinalRow.id = loop.ck /\ final.id = loop.ck
         /\ (final.row.inline # <<>> => final.blob = TRUE)
         /\ FinalRow.row.cnt.u < Freq /\ FinalRow.row.cnt.s < MaxSupersteps
         /\ FinalRow.row.ver = 0 <=> loop.ver = 0
         /\ FinalRow.row.ver # 0 /\ FinalRow.row.inline = <<>> => FinalRow.row.cnt = loop.cnt
         /\ FinalRow.row.due = loop.due /\ FinalRow.row.parent = Parent
  <2> SUFFICES ASSUME loop.ck # loop.base
               PROVE  /\ RowOK(FinalRow) /\ FinalRow.id = loop.ck /\ final.id = loop.ck
                      /\ (final.row.inline # <<>> => final.blob = TRUE)
                      /\ FinalRow.row.cnt.u < Freq /\ FinalRow.row.cnt.s < MaxSupersteps
                      /\ FinalRow.row.ver = 0 <=> loop.ver = 0
                      /\ FinalRow.row.ver # 0 /\ FinalRow.row.inline = <<>>
                           => FinalRow.row.cnt = loop.cnt
                      /\ FinalRow.row.due = loop.due /\ FinalRow.row.parent = Parent
    OBVIOUS
  <2>1. Fits(final, loop, loop.ck, Parent, loop.cnt, "loop") /\ FinalRow.row = final.row
        /\ FinalRow.id = loop.ck
    BY <1>6, <1>9
  <2> QED
    BY <1>9, <2>1 DEF Fits
<1> DEFINE Pair(q) == [id |-> saves'[q].id, row |-> saves'[q].row]
<1>13. /\ {Pair(q) : q \in DOMAIN saves'} = NewRows
       /\ \A q \in DOMAIN saves' : saves'[q].row.inline # <<>> => saves'[q].blob = TRUE
  <2>1. /\ <<>> \o <<>> \o <<>> = <<>> /\ <<>> \o <<base>> \o <<>> = <<base>>
        /\ <<>> \o <<>> \o <<final>> = <<final>>
        /\ <<>> \o <<base>> \o <<final>> = <<base, final>>
    BY OneEach
  <2>2. CASE loop.ck = loop.base
    <3>1. saves' = <<>> /\ DOMAIN saves' = {} /\ NewRows = {}
      BY <1>2, <1>4, <1>10, <2>1, <2>2 DEF stub, NewRows
    <3> QED
      BY <3>1
  <2>3. CASE loop.ck # loop.base /\ ~ stub
    <3>1. saves' = <<final>>
      BY <1>2, <1>4, <2>1, <2>3
    <3>2. DOMAIN saves' = {1} /\ saves'[1] = final /\ NewRows = {FinalRow}
      BY <2>3, <3>1 DEF stub, NewRows
    <3>3. Pair(1) = FinalRow
      BY <1>9, <1>12, <2>3, <3>2
    <3> HIDE DEF Pair
    <3> QED
      BY <1>12, <2>3, <3>2, <3>3
  <2>4. CASE loop.ck # loop.base /\ stub
    <3>1. saves' = <<base, final>>
      BY <1>2, <1>4, <2>1, <2>4
    <3>2. DOMAIN saves' = {1, 2} /\ saves'[1] = base /\ saves'[2] = final
          /\ NewRows = {StubRow, FinalRow}
      BY <2>4, <3>1 DEF stub, NewRows
    <3>3. Pair(1) = StubRow /\ Pair(2) = FinalRow
      BY <1>8, <1>9, <1>11, <1>12, <2>4, <3>2
    <3> HIDE DEF Pair
    <3> QED
      BY <1>11, <1>12, <2>4, <3>2, <3>3
  <2> QED
    BY <2>2, <2>3, <2>4
<1>14. KRows' = KRows \cup NewRows
  <2>1. DOMAIN saves = {}
    BY <1>2
  <2> QED
    BY <1>1, <1>13, <2>1 DEF KRows
<1> QED
  BY <1>10, <1>11, <1>12, <1>13, <1>14

(* What they submit.                                                       *)
NewEntries(i) ==
  (IF i = loop.base
   THEN {[tid |-> [e.tid EXCEPT !.pre = e.step], writes |-> e.writes] : e \in LeftOver}
   ELSE {})
    \cup (IF i = loop.ck THEN {[tid |-> t, writes |-> loop.pend[t]] : t \in DOMAIN loop.pend}
          ELSE {})
LEMMA LeaveEntries ==
  ASSUME DInv, RInv, LeaveLoop, loop.durability = "exit"
  PROVE  /\ \A i : Entries(i)' \subseteq Entries(i) \cup NewEntries(i)
         /\ \A i : \A e \in NewEntries(i) :
              /\ IsSeq(e.writes) /\ \A w \in ToSet(e.writes) : w.at \in 1..nextId - 1
         /\ \A p \in puts' : p.ck \in 1..nextId - 1
<1>1. /\ pc = "exit" /\ UNCHANGED <<written, loop, nextId>>
  BY DEF LeaveLoop, store, counters
<1>2. /\ nextId \in Nat \ {0} /\ loop.ck \in 1..nextId - 1 /\ loop.base \in 1..loop.ck
      /\ puts = {}
  BY <1>1 DEF DInv, Rows, Newest, Still
<1> DEFINE deltas == {[ck |-> loop.base, tid |-> [e.tid EXCEPT !.pre = e.step],
                       writes |-> e.writes] : e \in LeftOver}
           rest   == {[ck |-> loop.ck, tid |-> t, writes |-> loop.pend[t]] :
                        t \in DOMAIN loop.pend}
<1>3. puts' = deltas \cup rest
  BY <1>2 DEF LeaveLoop, LeftOver
<1> DEFINE one(p) == [tid |-> p.tid, writes |-> p.writes]
<1>4. \A p \in deltas : p.ck = loop.base /\ one(p) \in NewEntries(loop.base)
  <2>1. ASSUME NEW p \in deltas PROVE p.ck = loop.base /\ one(p) \in NewEntries(loop.base)
    <3>1. PICK e \in LeftOver : p = [ck |-> loop.base, tid |-> [e.tid EXCEPT !.pre = e.step],
                                     writes |-> e.writes]
      OBVIOUS
    <3>2. PICK t : t = [e.tid EXCEPT !.pre = e.step]
      OBVIOUS
    <3>3. p.ck = loop.base /\ one(p) = [tid |-> t, writes |-> e.writes]
      BY <3>1, <3>2
    <3> HIDE DEF one, deltas
    <3>4. [tid |-> t, writes |-> e.writes] \in NewEntries(loop.base)
      BY <3>2 DEF NewEntries
    <3> QED
      BY <3>3, <3>4
  <2> HIDE DEF deltas
  <2> QED
    BY <2>1
<1>5. \A p \in rest : p.ck = loop.ck /\ one(p) \in NewEntries(loop.ck)
  BY DEF NewEntries
<1> HIDE DEF deltas, rest
<1>6. \A p \in puts' : p.ck \in 1..nextId - 1 /\ one(p) \in NewEntries(p.ck)
  <2> HIDE DEF one
  <2>1. loop.ck \in 1..nextId - 1 /\ loop.base \in 1..nextId - 1
    BY <1>2
  <2>2. \A p \in deltas : p.ck \in 1..nextId - 1 /\ one(p) \in NewEntries(p.ck)
    BY <1>4, <2>1
  <2>3. \A p \in rest : p.ck \in 1..nextId - 1 /\ one(p) \in NewEntries(p.ck)
    BY <1>5, <2>1
  <2> QED
    BY <1>3, <2>2, <2>3
<1>7. \A i : Entries(i)' \subseteq Entries(i) \cup NewEntries(i)
  BY <1>1, <1>6 DEF Entries
<1>8. ASSUME NEW i, NEW e \in NewEntries(i)
      PROVE  IsSeq(e.writes) /\ \A w \in ToSet(e.writes) : w.at \in 1..nextId - 1
  <2>1. CASE \E x \in LeftOver : e.writes = x.writes
    <3>1. PICK x \in LeftOver : e.writes = x.writes
      BY <2>1
    <3>2. x \in loop.exits
      BY <3>1 DEF LeftOver
    <3> QED
      BY <1>1, <3>1, <3>2 DEF RInv, Keeping
  <2>2. CASE \E t \in DOMAIN loop.pend : e.writes = loop.pend[t]
    <3>1. PICK t \in DOMAIN loop.pend : e.writes = loop.pend[t]
      BY <2>2
    <3>2. IsSeq(loop.pend[t])
      BY <1>1, <3>1 DEF RInv, Running
    <3>3. \A w \in ToSet(loop.pend[t]) : w.at = loop.ck
      <4>1. loop.pend[t] # <<>> => \A w \in ToSet(loop.pend[t]) : w.at = loop.ck
        BY <1>1, <3>1 DEF RInv, Running
      <4>2. ToSet(<<>>) = {}
        BY DEF ToSet
      <4> QED
        BY <4>1, <4>2
    <3> QED
      BY <1>2, <3>1, <3>2, <3>3
  <2> QED
    BY <1>8, <2>1, <2>2 DEF NewEntries
<1> QED
  BY <1>6, <1>7, <1>8

LEMMA LeaveR ==
  ASSUME DInv, DInv', RInv, LeaveLoop
  PROVE  RInv'
<1>1. pc = "exit" /\ pc' = "closing" /\ UNCHANGED <<ckpts, blobs, written, loop, nextId>>
  BY DEF LeaveLoop, store, counters
<1>2. /\ nextId \in Nat \ {0} /\ loop.ck \in 1..nextId - 1 /\ loop.base \in 1..loop.ck
      /\ nextId <= MaxId + 1 /\ MaxId \in Nat
  BY <1>1, DeltaAssumption DEF DeltaAssumption, DInv, Rows, Newest, RInv, Stored
<1>3. Running /\ Saving /\ Keeping /\ Owners /\ Stored /\ Seeded /\ Edges
  BY DEF RInv
<1>4. Saving' /\ Keeping'
  BY <1>1 DEF Saving, Keeping
<1>5. CASE loop.durability # "exit"
  <2>1. puts' = puts /\ saves' = saves
    BY <1>5 DEF LeaveLoop, work
  <2>2. KRows' = KRows /\ \A i : Entries(i)' = Entries(i)
    BY <1>1, <2>1 DEF KRows, Entries
  <2>3. Stored' /\ Seeded'
    BY <1>1, <1>3, <2>1, <2>2 DEF Stored, Seeded, RowOK
  <2>4. Edges'
    BY <1>3, <2>2, EdgesShrink DEF Seeded
  <2>5. Owners'
    <3>1. \A k \in KRows : Owned(Entries(k.id), k.id, k.row.due)'
                             = Owned(Entries(k.id), k.id, k.row.due)
      BY <2>2 DEF Owned
    <3> QED
      BY <1>1, <1>3, <1>5, <2>2, <3>1 DEF Owners
  <2>6. Running'
    BY <1>1, <1>3, <2>2 DEF Running
  <2> QED
    BY <1>4, <2>3, <2>4, <2>5, <2>6 DEF RInv
<1>6. CASE loop.durability = "exit"
  <2>1. /\ KRows' = KRows \cup NewRows
        /\ \A q \in DOMAIN saves' : saves'[q].row.inline # <<>> => saves'[q].blob = TRUE
        /\ loop.ck # loop.base =>
             /\ RowOK(FinalRow) /\ FinalRow.id = loop.ck
             /\ FinalRow.row.cnt.u < Freq /\ FinalRow.row.cnt.s < MaxSupersteps
             /\ FinalRow.row.ver = 0 <=> loop.ver = 0
             /\ FinalRow.row.ver # 0 /\ FinalRow.row.inline = <<>> => FinalRow.row.cnt = loop.cnt
             /\ FinalRow.row.due = loop.due /\ FinalRow.row.parent = Parent
        /\ LeftOver # {} => loop.ck # loop.base /\ loop.ver # 0
        /\ RowOK(StubRow) /\ StubRow.id = loop.base /\ StubRow.row.parent = 0
        /\ StubRow.row.cnt = Zero /\ StubRow.row.ver = 0
    BY <1>6, LeaveRows
  <2>2. /\ \A i : Entries(i)' \subseteq Entries(i) \cup NewEntries(i)
        /\ \A i : \A e \in NewEntries(i) :
             /\ IsSeq(e.writes) /\ \A w \in ToSet(e.writes) : w.at \in 1..nextId - 1
        /\ \A p \in puts' : p.ck \in 1..nextId - 1
    BY <1>6, LeaveEntries
  <2>3. /\ Entries(loop.base) = {} /\ Entries(loop.ck) = {}
        /\ loop.cfg = IF loop.persisted THEN loop.base ELSE 0
        /\ ~ loop.persisted => \A k \in KRows : k.id # loop.base
        /\ loop.ck = loop.base => \E k \in KRows : k.id = loop.ck
        /\ loop.cnt.u >= Cardinality(AtExit)
        /\ loop.ck # loop.base => loop.cnt.s >= 1
        /\ \A k \in KRows : k.id = loop.cfg =>
             /\ loop.ver = 0 => k.row.ver = 0
             /\ loop.cnt.s >= k.row.cnt.s + (IF loop.ck = loop.base THEN 0 ELSE 1)
             /\ loop.cnt.u >= k.row.cnt.u + Cardinality(AtExit)
        /\ loop.cnt \in Counters /\ loop.due \subseteq Task
    BY <1>1, <1>3, <1>6 DEF Keeping, Running
  <2>4. PICK ck, base, f : ck = loop.ck /\ base = loop.base /\ f = FinalRow
    OBVIOUS
  <2>5. /\ \A i : i # ck /\ i # base => NewEntries(i) = {}
        /\ ck # base => Ats(base)' \subseteq AtExit
    <3>1. \A i : i # ck /\ i # base => NewEntries(i) = {}
      BY <2>4 DEF NewEntries
    <3>2. ASSUME ck # base PROVE Ats(base)' \subseteq AtExit
      <4>1. \A e \in NewEntries(base) : \E x \in loop.exits : e.writes = x.writes
        BY <2>4, <3>2 DEF NewEntries, LeftOver
      <4>2. Entries(base)' \subseteq NewEntries(base)
        BY <2>2, <2>3, <2>4
      <4> QED
        BY <4>1, <4>2 DEF Ats, AtsOf, AtExit
    <3> QED
      BY <3>1, <3>2
  <2>6. ASSUME NEW k \in KRows'
        PROVE  \/ k \in KRows
               \/ k = StubRow /\ LeftOver # {} /\ ~ loop.persisted /\ ck # base
               \/ k = FinalRow /\ ck # base
    BY <2>1, <2>4, <2>6 DEF NewRows
  <2>7. Stored'
    <3>1. ASSUME NEW i \in 1..MaxId, NEW x \in Entries(i)'
          PROVE  IsSeq(x.writes) /\ \A w \in ToSet(x.writes) : w.at \in 1..nextId' - 1
      <4>1. x \in Entries(i) \/ x \in NewEntries(i)
        BY <2>2, <3>1
      <4> QED
        BY <1>1, <1>3, <2>2, <4>1 DEF Stored
    <3> QED
      BY <1>1, <1>3, <2>2, <3>1 DEF Stored
  <2>8. Seeded'
    <3>1. \A k \in KRows' : RowOK(k)
      BY <1>3, <2>1, <2>4, <2>6 DEF Seeded
    <3>2. \A k \in KRows' : RowOK(k)'
      BY <3>1 DEF RowOK
    <3> QED
      BY <1>1, <1>3, <2>1, <3>2 DEF Seeded
  <2>9. AtExit \subseteq 1..nextId - 1 /\ IsFiniteSet(AtExit) /\ Cardinality(AtExit) \in Nat
    <3>1. nextId - 1 \in Nat
      BY <1>2
    <3>2. \A e \in loop.exits : \A w \in ToSet(e.writes) : w.at \in 1..nextId - 1
      BY <1>1, <1>3, <1>6 DEF Keeping
    <3> QED
      BY <3>1, <3>2, AtsFinite DEF AtExit
  <2>10. ck # base => /\ Cardinality(Ats(base)') \in Nat
                      /\ Cardinality(Ats(base)') <= Cardinality(AtExit)
    BY <2>5, <2>9, Fewer
  <2>11. Edges'
    <3>1. ASSUME ck # base, NEW p \in KRows', p.id = Parent PROVE Follows(f, p)'
      <4>1. p.id # 0 /\ p.id # loop.ck
        <5>1. p.id # 0
          BY <1>2, <1>3, <2>1, <2>4, <2>6, <3>1, KnownIds
        <5>2. Parent = loop.base \/ Parent = 0
          BY <2>3 DEF Parent
        <5> QED
          BY <2>4, <3>1, <5>1, <5>2
      <4>2. p.id = base
        BY <2>3, <2>4, <3>1, <4>1 DEF Parent
      <4>3. p # FinalRow
        BY <2>1, <2>4, <3>1, <4>1
      <4>4. /\ loop.ver = 0 => p.row.ver = 0 /\ LeftOver = {}
            /\ loop.cnt.s >= p.row.cnt.s + 1
            /\ loop.cnt.u >= p.row.cnt.u + Cardinality(AtExit)
        <5>1. CASE p = StubRow /\ LeftOver # {} /\ ~ loop.persisted
          BY <2>1, <2>3, <2>4, <2>9, <3>1, <5>1 DEF Zero, Counters
        <5>2. CASE p \in KRows
          <6>1. p.id = loop.cfg
            BY <2>3, <2>4, <4>2, <5>2
          <6> QED
            BY <2>1, <2>3, <2>4, <3>1, <5>2, <6>1
        <5> QED
          BY <2>6, <4>3, <5>1, <5>2
      <4>5. LeftOver = {} => Ats(base)' = {}
        <5>1. LeftOver = {} => NewEntries(base) = {}
          BY <2>4, <3>1 DEF NewEntries
        <5>2. Entries(base)' \subseteq NewEntries(base)
          BY <2>2, <2>3, <2>4
        <5> QED
          BY <5>1, <5>2 DEF Ats, AtsOf
      <4>6. p.row.cnt.u \in Nat /\ p.row.cnt.s \in Nat /\ loop.cnt.u \in Nat /\ loop.cnt.s \in Nat
        <5>1. RowOK(p)
          BY <1>3, <2>1, <2>4, <2>6 DEF Seeded
        <5> QED
          BY <2>3, <5>1 DEF RowOK, Counters
      <4>7. loop.cnt.u >= p.row.cnt.u + Cardinality(Ats(base)')
        BY <2>9, <2>10, <3>1, <4>4, <4>6
      <4>8. Ats(p.id)' = Ats(base)'
        BY <4>2
      <4>9. /\ f.row.ver = 0 => p.row.ver = 0 /\ Ats(base)' = {}
            /\ f.row.ver # 0 /\ f.row.inline = <<>> =>
                 /\ f.row.cnt.s >= p.row.cnt.s + 1
                 /\ f.row.cnt.u >= p.row.cnt.u + Cardinality(Ats(base)')
        BY <2>1, <2>4, <3>1, <4>4, <4>5, <4>7
      <4> QED
        BY <4>8, <4>9 DEF Follows
    <3>2. ASSUME NEW c \in KRows', c \notin KRows PROVE Steady(c)'
      <4>1. CASE c = f /\ ck # base
        <5>1. /\ f.row.cnt.u < Freq /\ f.row.cnt.s < MaxSupersteps /\ f.row.parent = Parent
          BY <2>1, <2>4, <4>1
        <5> QED
          BY <3>1, <4>1, <5>1 DEF Steady
      <4>2. CASE c = StubRow
        <5>1. \A p \in KRows' : p.id # 0
          <6>1. ck # 0 /\ base # 0 /\ \A k \in KRows : k.id # 0
            BY <1>2, <1>3, <2>4, KnownIds
          <6> QED
            BY <2>1, <2>4, <2>6, <6>1
        <5>2. c.row.parent = 0 /\ c.row.cnt.u < Freq /\ c.row.cnt.s < MaxSupersteps
          BY <2>1, <4>2, DeltaAssumption DEF DeltaAssumption, Zero
        <5> QED
          BY <5>1, <5>2 DEF Steady
      <4> QED
        BY <2>4, <2>6, <3>2, <4>1, <4>2
    <3>3. ASSUME NEW c \in KRows, NEW p \in KRows', p.id = c.row.parent
          PROVE  p \in KRows /\ Entries(p.id)' \subseteq Entries(p.id)
      <4>1. p.id # ck
        BY <1>1, <1>2, <1>3, <2>4, <3>3, KnownIds
      <4>2. p.id # base
        <5>1. DOMAIN saves = {} /\ \A i \in DOMAIN ckpts : ckpts[i].parent # loop.base
          BY <1>1, <1>6 DEF DInv, Still
        <5>2. PICK i \in DOMAIN ckpts : c = [id |-> i, row |-> ckpts[i]]
          BY <3>3, <5>1 DEF KRows
        <5>3. c.row = ckpts[i]
          BY <5>2
        <5> QED
          BY <2>4, <3>3, <5>1, <5>3
      <4>3. p \in KRows
        BY <2>1, <2>4, <2>6, <4>1, <4>2
      <4>4. NewEntries(p.id) = {}
        BY <2>5, <4>1, <4>2
      <4> QED
        BY <2>2, <4>3, <4>4
    <3>4. \A k \in KRows : RowOK(k)
      BY <1>3 DEF Seeded
    <3> QED
      BY <1>3, <3>2, <3>3, <3>4, EdgesStep
  <2>12. ASSUME NEW k \in KRows', k.id = ck PROVE k.row.due = loop.due
    <3>1. k # StubRow \/ ck = base
      BY <2>1, <2>4, <2>12
    <3>2. k \in KRows => k.row.due = loop.due
      BY <1>1, <1>3, <2>4, <2>12 DEF Running
    <3> QED
      BY <2>1, <2>4, <2>6, <3>1, <3>2
  <2>13. Running'
    BY <1>1, <1>3, <2>3, <2>4, <2>12 DEF Running
  <2>14. Owners'
    <3>1. ASSUME NEW k \in KRows', k.id = ck PROVE Owned(Entries(k.id), k.id, k.row.due)'
      <4>1. Entries(k.id)' \subseteq NewEntries(ck)
        BY <2>2, <2>3, <2>4, <3>1
      <4>2. NewEntries(ck) = {[tid |-> t, writes |-> loop.pend[t]] : t \in DOMAIN loop.pend}
        <5>1. ck = base => LeftOver = {}
          BY <2>1, <2>4
        <5> QED
          BY <2>4, <5>1 DEF NewEntries
      <4>3. ASSUME NEW e \in NewEntries(ck), e.writes # <<>>
            PROVE  /\ \E u \in k.row.due : e.tid = [pre |-> Hashed, ck |-> k.id, by |-> u]
                   /\ \A w \in ToSet(e.writes) : w.at = k.id
        <5>1. PICK t \in DOMAIN loop.pend : e = [tid |-> t, writes |-> loop.pend[t]]
          BY <4>2, <4>3
        <5>2. e.tid = t /\ e.writes = loop.pend[t]
          BY <5>1
        <5>3. /\ \E u \in loop.due : t = TaskId(u)
              /\ \A w \in ToSet(loop.pend[t]) : w.at = loop.ck
          BY <1>1, <1>3, <4>3, <5>2 DEF Running
        <5> QED
          BY <2>4, <2>12, <3>1, <5>2, <5>3 DEF TaskId
      <4> QED
        BY <4>1, <4>3 DEF Owned
    <3>2. \E k \in KRows' : k.id = ck
      <4>1. ck # base => FinalRow \in KRows'
        BY <2>1, <2>4 DEF NewRows
      <4> QED
        BY <2>1, <2>3, <2>4, <4>1
    <3> QED
      BY <1>1, <1>6, <2>4, <3>1, <3>2 DEF Owners
  <2> QED
    BY <1>4, <2>7, <2>8, <2>11, <2>13, <2>14 DEF RInv
<1> QED
  BY <1>5, <1>6

LEMMA InitR == Init => RInv
<1> SUFFICES ASSUME Init PROVE RInv
  OBVIOUS
<1>1. /\ DOMAIN ckpts = {} /\ pc = "idle" /\ puts = {} /\ saves = <<>> /\ nextId = 1
      /\ written = [i \in 1..MaxId |-> <<>>] /\ MaxId \in Nat
  BY DeltaAssumption DEF Init, DeltaAssumption
<1>2. IsSeq(<<>>) /\ ToSet(<<>>) = {} /\ DOMAIN <<>> = {}
  BY DEF IsSeq, ToSet
<1>3. KRows = {} /\ \A i : Entries(i) = {}
  BY <1>1, <1>2 DEF KRows, Entries
<1> QED
  BY <1>1, <1>2, <1>3
  DEF RInv, Stored, Seeded, Edges, Owners, Running, Saving, Keeping

LEMMA StepR ==
  ASSUME CleanOnly
  PROVE  DInv /\ RInv /\ [Next]_vars => RInv'
<1> SUFFICES ASSUME DInv, RInv, [Next]_vars PROVE RInv'
  OBVIOUS
<1>1. DInv'
  BY StepInv
<1>2. CASE \E d \in Durabilities : \E id \in DOMAIN ckpts \cup {Latest} : Input(id, d)
  BY <1>1, <1>2, InputR
<1>3. CASE \E d \in Durabilities : Resume(d)
  BY <1>1, <1>3, ResumeR
<1>4. CASE \E t \in Task : \E id \in DOMAIN ckpts \cup {Latest} : UpdateState(id, t)
  BY <1>1, <1>4, UpdateR
<1>5. CASE \E id \in DOMAIN ckpts : Copy(id)
  BY <1>1, <1>5, CopyR
<1>6. CASE \E t \in Task : Commit(t)
  BY <1>1, <1>6, CommitR
<1>7. CASE AfterTick
  BY <1>1, <1>7, AfterTickR
<1>8. CASE Stop
  BY <1>8, StopR
<1>9. CASE LeaveLoop
  BY <1>1, <1>9, LeaveR
<1>10. CASE Close \/ Crash
  <2>1. /\ Forget /\ UNCHANGED <<ckpts, blobs, written, nextId>> /\ pc # "idle"
        /\ loop.durability = "exit" => pc = "closing" /\ saves = <<>>
    BY <1>10 DEF Close, Crash, store, counters
  <2> QED
    BY <2>1, ForgetR
<1>11. CASE SaveWrites
  BY <1>11, SaveWritesR
<1>12. CASE \E q \in DOMAIN saves : Drain(q)
  BY <1>12, DrainR
<1>13. CASE SaveCheckpoint
  BY <1>13, SaveCheckpointR
<1>14. CASE UNCHANGED vars
  <2>1. KRows' = KRows /\ \A i : Entries(i)' \subseteq Entries(i)
    BY <1>14 DEF vars, KRows, Entries
  <2>2. Stored' /\ Seeded'
    <3>1. nextId \in Nat /\ nextId <= MaxId + 1
      BY DEF DInv, Rows, RInv, Stored
    <3> QED
      BY <1>14, <2>1, <3>1, StoredSame DEF vars, RInv, Seeded, RowOK
  <2> QED
    BY <1>14, <2>1, <2>2, ShrinkR DEF vars
<1> QED
  BY <1>2, <1>3, <1>4, <1>5, <1>6, <1>7, <1>8, <1>9, <1>10, <1>11, <1>12, <1>13, <1>14
  DEF Next

(* A rebuild is bounded (delta.py:52-56): it walks fewer than              *)
(* MaxSupersteps checkpoints that have the channel and replays fewer than  *)
(* Freq steps, but for those that update_state made, in every saver, for   *)
(* "async" and "exit", when saves begin in any order, whatever crashes and *)
(* however many runs, if no checkpoint is continued in a way that stores   *)
(* the writes of two futures under it (Branches, Crash).                   *)
THEOREM ReplaysAreBounded ==
  ASSUME CleanOnly
  PROVE  Spec => []ReplayBounded
<1>1. Init => DInv /\ RInv
  BY InitInv, InitR
<1>2. DInv /\ RInv /\ [Next]_vars => (DInv /\ RInv)'
  BY StepInv, StepR
<1>3. DInv /\ RInv => ReplayBounded
  BY DeltaAssumption, BoundFromInv DEF DInv, RInv
<1> QED
  BY <1>1, <1>2, <1>3, PTL DEF Spec
=============================================================================
