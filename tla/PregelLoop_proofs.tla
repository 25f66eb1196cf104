--------------------------- MODULE PregelLoop_proofs ---------------------------
(***************************************************************************)
(* Proofs about PregelLoop, for any graph, requests, failures and crashes. *)
(*                                                                         *)
(* The lemmas come first that are about prepare_next_tasks and             *)
(* apply_writes: which tasks there are, and what a superstep may put into  *)
(* a channel. The proofs after them are about what becomes of it: of the   *)
(* checkpoints in the queue of the executor, in the store and in the next  *)
(* invocation, and of the writes of its tasks that are stored before there *)
(* is a checkpoint.                                                        *)
(***************************************************************************)
EXTENDS PregelLoop, Facts

-------------------------------------------------------------------------------
(* What Selected picks.                                                    *)
LEMMA SelectedFacts ==
  ASSUME NEW E, NEW s \in Seq(E), NEW S
  PROVE  /\ Selected(s, S) \in Seq(E)
         /\ ToSet(Selected(s, S)) = S \cap ToSet(s)
         /\ IsInjective(s) => IsInjective(Selected(s, S))
<1> DEFINE f == CHOOSE f : f = [i \in 0..Len(s) |-> IF i = 0 THEN <<>>
                              ELSE IF s[i] \in S THEN Append(f[i - 1], s[i]) ELSE f[i - 1]]
<1>1. f = CHOOSE h : Picks(h, s, S)
  BY DEF Picks
<1>2. Selected(s, S) = f[Len(s)]
  BY DEF Selected
<1> HIDE DEF f
<1>3. Picks(f, s, S)
  BY <1>1, PicksExists
<1> QED
  BY <1>2, <1>3, PickedFacts

-------------------------------------------------------------------------------
(* Channels.                                                               *)

IsState(s)  == s = [vals |-> s.vals, fin |-> s.fin]
States(chs) == chs = [c \in Chan |-> chs[c]] /\ \A c \in Chan : IsState(chs[c])

(* The versions of channels have a greatest one.                           *)
LEMMA NewFinite ==
  ASSUME NEW ver \in [Chan -> Nat], NEW c \in Chan
  PROVE  LET m == Max({ver[d] : d \in Chan})
         IN  m \in Nat /\ \A d \in Chan : ver[d] <= m
<1> DEFINE S == {ver[d] : d \in Chan}
<1>1. S \subseteq Nat /\ S # {}
  OBVIOUS
<1>2. IsFiniteSet(S)
  <2>1. IsFiniteSet(Chan)
    BY ChannelAssumption
  <2>2. ver \in Surjection(Chan, S)
    BY DEF Surjection
  <2> HIDE DEF S
  <2> QED
    BY <2>1, <2>2, FS_Surjection
<1> HIDE DEF S
<1>3. Max(S) \in S /\ \A y \in S : y <= Max(S)
  BY <1>1, <1>2, MaxExists
<1>4. \A d \in Chan : ver[d] \in S
  BY DEF S
<1> QED
  BY <1>1, <1>3, <1>4 DEF S

(* A channel whose update, consume or finish returns False is as it was.   *)
LEMMA UpdateFacts ==
  ASSUME NEW c, NEW s, IsState(s), NEW ws
  PROVE  /\ IsState(Update(c, s, ws))
         /\ ~ Updates(c, s, ws) => Update(c, s, ws) = s
<1> DEFINE v == s.vals
           f == s.fin
<1>1. s = [vals |-> v, fin |-> f]
  BY DEF IsState
<1> HIDE DEF v, f
<1>2. CASE ws = <<>>
  BY <1>1, <1>2 DEF Update, Updates, IsState, Barriers, ClearedByStep
<1>3. CASE ws # <<>> /\ Kind[c] \in Barriers
  <2>1. Update(c, s, ws) = [vals |-> v \cup ToSet(ws), fin |-> f]
    BY <1>1, <1>3 DEF Update, Barriers, Reducers
  <2>2. ~ Updates(c, s, ws) => v \cup ToSet(ws) = v
    BY <1>1, <1>3 DEF Updates, ToSet
  <2> QED
    BY <1>1, <2>1, <2>2 DEF IsState
<1>4. CASE ws # <<>> /\ Kind[c] \notin Barriers
  <2>1. Updates(c, s, ws)
    BY <1>4 DEF Updates
  <2>2. \E x, y : Update(c, s, ws) = [vals |-> x, fin |-> y]
    BY <1>1, <1>4 DEF Update
  <2> QED
    BY <2>1, <2>2 DEF IsState
<1> QED
  BY <1>2, <1>3, <1>4

LEMMA ConsumeFacts ==
  ASSUME NEW c, NEW s, IsState(s)
  PROVE  /\ IsState(Consume(c, s)) /\ (~ Consumes(c, s) => Consume(c, s) = s)
         /\ IsState(Finish(c, s)) /\ (~ Finishes(c, s) => Finish(c, s) = s)
BY DEF Consume, Finish, Fresh, IsState

(* What a channel holds, except a barrier, is a sequence, and a reducer of *)
(* L holds values of R only.                                               *)
Proper(c, s, L, R) ==
  /\ IsState(s)
  /\ Kind[c] \notin Barriers => IsSeq(s.vals)
  /\ c \in L => ToSet(s.vals) \subseteq R

ReducersOnly(L) == L \subseteq {c \in Chan : Kind[c] = "BinOp"}

LEMMA FreshProper ==
  ASSUME NEW c, NEW L, c \in L => Kind[c] \notin Barriers, NEW R
  PROVE  Proper(c, Fresh(c), L, R)
<1>1. IsSeq(<<>>) /\ ToSet(<<>>) = {}
  BY DEF IsSeq, ToSet
<1> QED
  BY <1>1 DEF Proper, Fresh, IsState

LEMMA UpdateProper ==
  ASSUME NEW L, ReducersOnly(L), NEW R, NEW c, NEW s, Proper(c, s, L, R), NEW ws, IsSeq(ws),
         c \in L => ToSet(ws) \subseteq R
  PROVE  Proper(c, Update(c, s, ws), L, R)
<1> DEFINE v == s.vals
           f == s.fin
           u == Update(c, s, ws)
<1>1. s = [vals |-> v, fin |-> f] /\ (Kind[c] \notin Barriers => IsSeq(v)) /\ (c \in L => ToSet(v) \subseteq R)
  BY DEF Proper, IsState
<1>2. IsState(u)
  BY UpdateFacts DEF Proper
<1>3. c \in L => Kind[c] = "BinOp"
  BY DEF ReducersOnly
<1>4. IsSeq(<<>>) /\ ToSet(<<>>) = {}
  BY DEF IsSeq, ToSet
<1>5. \A x : IsSeq(<<x>>) /\ ToSet(<<x>>) = {x}
  <2> SUFFICES ASSUME NEW x PROVE IsSeq(<<x>>) /\ ToSet(<<x>>) = {x}
    OBVIOUS
  <2>1. <<x>> \in Seq({x}) /\ DOMAIN <<x>> = {1} /\ <<x>>[1] = x
    OBVIOUS
  <2>2. IsSeq(<<x>>)
    BY <2>1, SeqRange
  <2> QED
    BY <2>1, <2>2 DEF ToSet
<1> HIDE DEF v, f
<1>6. CASE ws = <<>>
  <2>1. u.vals = v \/ (u.vals = <<>> /\ Kind[c] \in ClearedByStep)
    BY <1>1, <1>6 DEF Update
  <2> QED
    BY <1>1, <1>2, <1>4, <2>1 DEF Proper
<1>7. CASE ws # <<>> /\ Kind[c] \in Barriers
  BY <1>2, <1>3, <1>7 DEF Proper, Barriers
<1>8. CASE ws # <<>> /\ Kind[c] = "Topic"
  <2>1. u.vals = ws
    BY <1>1, <1>8 DEF Update, Barriers, Reducers
  <2> QED
    BY <1>2, <1>3, <1>8, <2>1 DEF Proper
<1>9. CASE ws # <<>> /\ Kind[c] = "TopicAccumulate"
  <2>1. u.vals = v \o ws
    BY <1>1, <1>9 DEF Update, Barriers, Reducers
  <2>2. IsSeq(v)
    BY <1>1, <1>9 DEF Barriers
  <2> QED
    BY <1>2, <1>3, <1>9, <2>1, <2>2, SeqJoin DEF Proper
<1>10. CASE ws # <<>> /\ Kind[c] \in Reducers
  <2>1. u.vals = Reduced(v, ws)
    BY <1>1, <1>10 DEF Update, Barriers, Reducers
  <2>2. IsSeq(v)
    BY <1>1, <1>10 DEF Barriers, Reducers
  <2>3. CASE Overwrites(ws) = {}
    BY <1>1, <1>2, <1>3, <1>10, <2>1, <2>2, <2>3, SeqJoin DEF Proper, Reduced
  <2>4. CASE Overwrites(ws) # {}
    <3>1. PICK i \in DOMAIN ws : u.vals = <<ws[i]>>
      <4>1. (CHOOSE i \in Overwrites(ws) : TRUE) \in DOMAIN ws
        BY <2>4 DEF Overwrites
      <4> QED
        BY <2>1, <2>4, <4>1 DEF Reduced
    <3>2. c \in L => ws[i] \in R
      BY DEF ToSet
    <3> QED
      BY <1>2, <1>5, <3>1, <3>2 DEF Proper
  <2> QED
    BY <2>3, <2>4
<1>11. CASE ws # <<>> /\ Kind[c] \notin Barriers \cup Reducers \cup {"Topic", "TopicAccumulate"}
  <2>1. u.vals = <<Last(ws)>>
    BY <1>11 DEF Update
  <2>2. c \notin L
    BY <1>3, <1>11 DEF Reducers
  <2> QED
    BY <1>2, <1>5, <2>1, <2>2 DEF Proper
<1> QED
  BY <1>6, <1>7, <1>8, <1>9, <1>10, <1>11

LEMMA ConsumeProper ==
  ASSUME NEW L, ReducersOnly(L), NEW R, NEW c, NEW s, Proper(c, s, L, R)
  PROVE  Proper(c, Consume(c, s), L, R) /\ Proper(c, Finish(c, s), L, R)
<1>1. c \in L => Kind[c] \notin Barriers
  BY DEF ReducersOnly, Barriers
<1>2. Proper(c, Consume(c, s), L, R)
  BY <1>1, FreshProper DEF Consume
<1>3. Finish(c, s).vals = s.vals /\ IsState(Finish(c, s))
  BY ConsumeFacts DEF Finish, Proper, IsState
<1> QED
  BY <1>2, <1>3 DEF Proper

-------------------------------------------------------------------------------
(* A superstep.                                                            *)

ProperAll(chs, L, R) ==
  chs = [c \in Chan |-> chs[c]] /\ \A c \in Chan : Proper(c, chs[c], L, R)

ProperPhase(s, L, R) == ProperAll(s.chans, L, R) /\ s.updated \subseteq Chan

ProperWrites(ws, L, R) ==
  IsSeq(ws) /\ \A w \in ToSet(ws) : w.chan \in L => w.val \in R

LEMMA WritesToFacts ==
  ASSUME NEW c, NEW ws, IsSeq(ws)
  PROVE  /\ IsSeq(WritesTo(c, ws))
         /\ ToSet(WritesTo(c, ws)) = {w.val : w \in {x \in ToSet(ws) : x.chan = c}}
<1> DEFINE S    == {w \in ToSet(ws) : w.chan = c}
           mine == Selected(ws, S)
           v    == [i \in DOMAIN mine |-> mine[i].val]
<1>1. ws \in Seq(ToSet(ws))
  BY DEF IsSeq
<1>2. mine \in Seq(ToSet(ws)) /\ ToSet(mine) = S
  <2>1. S \cap ToSet(ws) = S
    OBVIOUS
  <2> HIDE DEF S
  <2> QED
    BY <1>1, <2>1, SelectedFacts
<1>3. WritesTo(c, ws) = v
  BY DEF WritesTo
<1> HIDE DEF mine, S
<1>4. DOMAIN mine = 1..Len(mine) /\ Len(mine) \in Nat
  BY <1>2
<1>5. ToSet(v) = {w.val : w \in S}
  BY <1>2 DEF ToSet
<1>6. v \in Seq(ToSet(v))
  <2>1. \A i \in 1..Len(mine) : v[i] \in ToSet(v)
    BY <1>4 DEF ToSet
  <2>2. v = [i \in 1..Len(mine) |-> v[i]]
    BY <1>4
  <2> HIDE DEF v
  <2> QED
    BY <1>4, <2>1, <2>2
<1> QED
  BY <1>3, <1>5, <1>6 DEF S, IsSeq

LEMMA WriteProper ==
  ASSUME NEW L, ReducersOnly(L), NEW R, NEW s, ProperPhase(s, L, R),
         NEW cs \in SUBSET Chan, NEW to,
         \A c \in cs : IsSeq(to[c]) /\ (c \in L => ToSet(to[c]) \subseteq R)
  PROVE  ProperPhase(WriteAll(s, cs, to), L, R)
<1> DEFINE t == WriteAll(s, cs, to)
<1>1. /\ t.chans = [c \in Chan |-> IF c \in cs THEN Update(c, s.chans[c], to[c]) ELSE s.chans[c]]
      /\ t.updated \subseteq s.updated \cup cs
  BY DEF WriteAll, Phase
<1>2. ASSUME NEW c \in Chan PROVE Proper(c, t.chans[c], L, R)
  <2>1. Proper(c, s.chans[c], L, R)
    BY DEF ProperPhase, ProperAll
  <2>2. CASE c \in cs
    BY <1>1, <2>1, <2>2, UpdateProper
  <2> QED
    BY <1>1, <2>1, <2>2
<1>3. t.chans = [c \in Chan |-> t.chans[c]]
  BY <1>1
<1> HIDE DEF t
<1> QED
  BY <1>1, <1>2, <1>3 DEF ProperPhase, ProperAll, t

LEMMA PhasesProper ==
  ASSUME NEW L, ReducersOnly(L), NEW R
  PROVE  /\ \A chs, read : ProperAll(chs, L, R) => ProperPhase(ConsumeRead(chs, read), L, R)
         /\ \A s : ProperPhase(s, L, R) => ProperPhase(NotifyStep(s), L, R)
         /\ \A s : ProperPhase(s, L, R) => ProperPhase(NotifyFinish(s), L, R)
<1>1. ASSUME NEW chs, NEW read, ProperAll(chs, L, R)
      PROVE  ProperPhase(ConsumeRead(chs, read), L, R)
  <2> DEFINE s == ConsumeRead(chs, read)
  <2>1. /\ s.chans = [c \in Chan |-> IF c \in read THEN Consume(c, chs[c]) ELSE chs[c]]
        /\ s.updated = {}
    BY DEF ConsumeRead
  <2>2. \A c \in Chan : Proper(c, chs[c], L, R)
    BY <1>1 DEF ProperAll
  <2>3. \A c \in Chan : Proper(c, s.chans[c], L, R)
    BY <2>1, <2>2, ConsumeProper
  <2>4. s.chans = [c \in Chan |-> s.chans[c]]
    BY <2>1
  <2> HIDE DEF s
  <2> QED
    BY <2>1, <2>3, <2>4 DEF ProperPhase, ProperAll, s
<1>2. ASSUME NEW s, ProperPhase(s, L, R) PROVE ProperPhase(NotifyStep(s), L, R)
  <2> DEFINE cs == {c \in Chan \ s.updated : IsAvailable(c, s.chans[c])}
             to == [c \in Chan |-> <<>>]
  <2>1. IsSeq(<<>>) /\ ToSet(<<>>) = {}
    BY DEF IsSeq, ToSet
  <2>2. cs \in SUBSET Chan /\ \A c \in cs : IsSeq(to[c]) /\ (c \in L => ToSet(to[c]) \subseteq R)
    BY <2>1
  <2>3. NotifyStep(s) = WriteAll(s, cs, to)
    BY DEF NotifyStep
  <2> HIDE DEF cs, to
  <2> QED
    BY <1>2, <2>2, <2>3, WriteProper
<1>3. ASSUME NEW s, ProperPhase(s, L, R) PROVE ProperPhase(NotifyFinish(s), L, R)
  <2> DEFINE t == Phase(s, {c \in Chan : Finishes(c, s.chans[c])},
                        [c \in Chan |-> Finish(c, s.chans[c])])
  <2>1. t.chans = [c \in Chan |-> Finish(c, s.chans[c])] /\ t.updated \subseteq s.updated \cup Chan
    BY DEF Phase
  <2>2. \A c \in Chan : Proper(c, t.chans[c], L, R)
    BY <1>3, <2>1, ConsumeProper DEF ProperPhase, ProperAll
  <2>3. t.chans = [c \in Chan |-> t.chans[c]]
    BY <2>1
  <2>4. NotifyFinish(s) = s \/ NotifyFinish(s) = t
    BY DEF NotifyFinish
  <2> HIDE DEF t
  <2>5. ProperPhase(t, L, R)
    BY <1>3, <2>1, <2>2, <2>3 DEF ProperPhase, ProperAll
  <2> QED
    BY <1>3, <2>4, <2>5
<1> QED
  BY <1>1, <1>2, <1>3

ProperSeen(seen) ==
  DOMAIN seen \subseteq Node \cup {INTERRUPT} /\ \A n \in DOMAIN seen : seen[n] \in [Chan -> Nat]

LEMMA SeenProper ==
  ASSUME NEW ck0, ck0.ver \in [Chan -> Nat], ProperSeen(ck0.seen),
         NEW ts, \A k \in DOMAIN ts : ts[k].id.name \in Node
  PROVE  ProperSeen(SeenAfter(ck0, ts))
<1> DEFINE names  == {ts[k].id.name : k \in DOMAIN ts}
           pulls  == {ts[k].id.name : k \in {j \in DOMAIN ts : ~ IsPush(ts[j])}}
           old(n) == IF n \in DOMAIN ck0.seen THEN ck0.seen[n] ELSE NullVersions
           pulled(n) == [c \in Chan |-> IF c \in TriggersOf[n] /\ ck0.ver[c] > 0
                                        THEN ck0.ver[c] ELSE old(n)[c]]
           seen   == SeenAfter(ck0, ts)
<1>1. seen = [n \in DOMAIN ck0.seen \cup names |-> IF n \in pulls THEN pulled(n) ELSE old(n)]
  BY DEF SeenAfter
<1>2. names \subseteq Node
  OBVIOUS
<1>3. \A n : old(n) \in [Chan -> Nat]
  BY DEF ProperSeen, NullVersions
<1>4. \A n : pulled(n) \in [Chan -> Nat]
  BY <1>3
<1> HIDE DEF names, pulls, old, pulled, seen
<1>5. DOMAIN seen = DOMAIN ck0.seen \cup names
  BY <1>1
<1>6. \A n \in DOMAIN seen : seen[n] \in [Chan -> Nat]
  BY <1>1, <1>3, <1>4
<1> QED
  BY <1>2, <1>5, <1>6 DEF ProperSeen, seen

(* apply_writes keeps the types, and lets a reducer of L hold only what was*)
(* written to it.                                                          *)
LEMMA ApplyProper ==
  ASSUME NEW L, ReducersOnly(L), NEW R,
         NEW ck0, ck0.ver \in [Chan -> Nat], ProperSeen(ck0.seen),
         NEW chs, ProperAll(chs, L, R),
         NEW ts, IsSeq(ts), \A k \in DOMAIN ts : ts[k].id.name \in Node /\ ProperWrites(ts[k].writes, L, R),
         NEW extra, ProperWrites(extra, L, R)
  PROVE  LET r == ApplyWrites(ck0, chs, ts, extra)
         IN  /\ r.ver \in [Chan -> Nat] /\ ProperSeen(r.seen)
             /\ ProperAll(r.chans, L, R) /\ r.updated \subseteq Chan
<1> DEFINE parts    == [k \in DOMAIN ts |-> ts[k].writes]
           ws       == extra \o FlattenSeq(parts)
           to       == [c \in Chan |-> WritesTo(c, ws)]
           read     == UNION {TriggersOf[ts[k].id.name] :
                                k \in {j \in DOMAIN ts : ~ IsPush(ts[j])}}
           first(c) == Min({i \in DOMAIN ws : ws[i].chan = c})
           bad      == {c \in Chan : to[c] # <<>> /\ Rejects(c, to[c])}
           reached  == {c \in Chan : to[c] # <<>> /\ \A b \in bad : first(c) < first(b)}
           written  == WriteAll(ConsumeRead(chs, read), reached, to)
           s        == IF bad # {} \/ ts = <<>> THEN written
                       ELSE NotifyFinish(NotifyStep(written))
           r        == ApplyWrites(ck0, chs, ts, extra)
<1>1. r = Applied(ck0, ts, s, bad # {})
  BY Zenon DEF ApplyWrites
<1>2. ProperWrites(ws, L, R)
  <2> DEFINE E == UNION {ToSet(parts[k]) : k \in DOMAIN parts}
  <2>1. DOMAIN ts = 1..Len(ts) /\ Len(ts) \in Nat
    BY DEF IsSeq
  <2>2. \A k \in DOMAIN ts : parts[k] \in Seq(E)
    <3> SUFFICES ASSUME NEW k \in DOMAIN ts PROVE parts[k] \in Seq(E)
      OBVIOUS
    <3>1. parts[k] \in Seq(ToSet(parts[k])) /\ ToSet(parts[k]) \subseteq E
      BY DEF ProperWrites, IsSeq
    <3> HIDE DEF parts, E
    <3>2. \A S, T, x : x \in Seq(S) /\ S \subseteq T => x \in Seq(T)
      OBVIOUS
    <3> QED
      BY <3>1, <3>2
  <2>3. parts \in Seq(Seq(E))
    <3> HIDE DEF E
    <3> QED
      BY <2>1, <2>2
  <2>4. \A w \in E : w.chan \in L => w.val \in R
    BY DEF ProperWrites
  <2> HIDE DEF parts
  <2>5. IsSeq(FlattenSeq(parts)) /\ ToSet(FlattenSeq(parts)) = E
    <3>1. FlattenSeq(parts) \in Seq(E) /\ ToSet(FlattenSeq(parts)) = E
      <4> USE DEF E
      <4>1. E = UNION {ToSet(parts[k]) : k \in DOMAIN parts}
        OBVIOUS
      <4> HIDE DEF E
      <4> QED
        BY <2>3, <4>1, FlattenFacts
    <3> QED
      BY <3>1, SeqRange
  <2> HIDE DEF E
  <2>6. IsSeq(ws) /\ ToSet(ws) = ToSet(extra) \cup E
    BY <2>5, SeqJoin DEF ProperWrites
  <2> QED
    BY <2>4, <2>6 DEF ProperWrites
<1> HIDE DEF ws
<1>3. \A c \in Chan : IsSeq(to[c]) /\ (c \in L => ToSet(to[c]) \subseteq R)
  BY <1>2, WritesToFacts DEF ProperWrites
<1> HIDE DEF to, bad
<1>4. reached \in SUBSET Chan
  OBVIOUS
<1> HIDE DEF reached, read
<1>5. ProperPhase(written, L, R)
  BY <1>3, <1>4, PhasesProper, WriteProper
<1> HIDE DEF written
<1>6. ProperPhase(s, L, R)
  BY <1>5, PhasesProper
<1> HIDE DEF s
<1>7. /\ r.chans = s.chans /\ r.updated = s.updated /\ r.seen = SeenAfter(ck0, ts)
      /\ r.ver = [c \in Chan |-> IF c \in s.bumped THEN 1 + Max({ck0.ver[d] : d \in Chan})
                                                   ELSE ck0.ver[c]]
  BY <1>1 DEF Applied
<1> HIDE DEF r
<1>8. r.ver \in [Chan -> Nat]
  <2> DEFINE m == Max({ck0.ver[d] : d \in Chan})
  <2>1. \A c \in Chan : m \in Nat
    BY NewFinite
  <2>2. r.ver = [c \in Chan |-> IF c \in s.bumped THEN 1 + m ELSE ck0.ver[c]]
    BY <1>7
  <2> HIDE DEF m
  <2> QED
    BY <2>1, <2>2
<1> QED
  BY <1>6, <1>7, <1>8, SeenProper DEF ProperPhase, r

-------------------------------------------------------------------------------
(* The tasks of a step.                                                    *)

ProperId(id, ckid) ==
  id = [ck |-> ckid, name |-> id.name, idx |-> id.idx] /\ id.name \in Node /\ id.idx \in Nat

(* The nodes that prepare_next_tasks looks at.                             *)
Candidates(ck0, upd) ==
  IF upd # {} THEN CandidatesByTrigger(upd) ELSE CandidatesByScan(ck0)

(* The tasks of prepare_next_tasks have not run, are of nodes of the graph *)
(* and are told apart by their ids.                                        *)
LEMMA PreparedFacts ==
  ASSUME NEW ck0, NEW chs, IsSeq(chs[TASKS].vals), NEW upd
  PROVE  LET ts == PrepareNextTasks(ck0, chs, upd)
         IN  /\ IsSeq(ts)
             /\ \A k \in DOMAIN ts : ts[k] = NewTask(ts[k].id) /\ ProperId(ts[k].id, ck0.id)
             /\ \A j, k \in DOMAIN ts : ts[j].id = ts[k].id => j = k
             /\ \A n \in Candidates(ck0, upd) :
                  Triggered(ck0, chs, n) => \E k \in DOMAIN ts : ts[k].id = PullId(ck0, n)
<1> DEFINE candidates == Candidates(ck0, upd)
           S     == {n \in candidates : Triggered(ck0, chs, n)}
           ready == Selected(NodeSeq, S)
           p     == PullTasks(ck0, chs, candidates)
           sends == chs[TASKS].vals
           D     == [i \in DOMAIN sends |-> i]
           T     == {i \in DOMAIN sends : sends[i] \in Node}
           known == Selected(D, T)
           q     == PushTasks(ck0, chs)
           ts    == PrepareNextTasks(ck0, chs, upd)
<1>1. p = [k \in DOMAIN ready |-> NewTask(PullId(ck0, ready[k]))]
  BY DEF PullTasks
<1>2. q = [k \in DOMAIN known |-> NewTask(PushId(ck0, sends[known[k]], known[k]))]
  BY DEF PushTasks
<1>3. ts = p \o q
  BY DEF PrepareNextTasks, Candidates
<1> HIDE DEF p, q, ts, candidates
<1>4. ready \in Seq(Node) /\ IsInjective(ready) /\ ToSet(ready) = S \cap Node
  <2> HIDE DEF S
  <2>1. Node = ToSet(NodeSeq)
    BY DEF Node
  <2> QED
    BY <2>1, SelectedFacts, AlgoAssumption
<1>5. DOMAIN sends = 1..Len(sends) /\ Len(sends) \in Nat
  BY DEF IsSeq
<1>6. known \in Seq(DOMAIN sends) /\ IsInjective(known) /\ ToSet(known) \subseteq T
  <2>1. D \in Seq(DOMAIN sends) /\ IsInjective(D)
    BY <1>5 DEF IsInjective
  <2> HIDE DEF D, T
  <2> QED
    BY <2>1, SelectedFacts
<1>7. \A k \in DOMAIN known : known[k] \in Nat \ {0} /\ sends[known[k]] \in Node
  <2> HIDE DEF known
  <2>1. \A k \in DOMAIN known : known[k] \in T
    BY <1>6 DEF ToSet
  <2> QED
    BY <1>5, <2>1
<1>8. DOMAIN ready = 1..Len(ready) /\ Len(ready) \in Nat /\ \A k \in DOMAIN ready : ready[k] \in Node
  <2> HIDE DEF ready
  <2> QED
    BY <1>4
<1>9. DOMAIN known = 1..Len(known) /\ Len(known) \in Nat
  BY <1>6
<1> HIDE DEF ready, known, sends
<1>10. /\ IsSeq(p) /\ IsInjective(p)
       /\ \A t \in ToSet(p) : t = NewTask(t.id) /\ ProperId(t.id, ck0.id) /\ t.id.idx = 0
  <2>1. \A k \in DOMAIN p : /\ p[k] = NewTask(p[k].id) /\ ProperId(p[k].id, ck0.id) /\ p[k].id.idx = 0
                            /\ p[k].id.name = ready[k]
    BY <1>1, <1>8 DEF NewTask, PullId, ProperId
  <2>2. DOMAIN p = DOMAIN ready
    BY <1>1
  <2>3. IsInjective(p)
    BY <1>4, <2>1, <2>2 DEF IsInjective
  <2>4. IsSeq(p)
    <3>1. \A k \in 1..Len(ready) : p[k] \in ToSet(p)
      BY <1>8, <2>2 DEF ToSet
    <3>2. p = [k \in 1..Len(ready) |-> p[k]]
      BY <1>1, <1>8
    <3> QED
      BY <1>8, <3>1, <3>2 DEF IsSeq
  <2> QED
    BY <2>1, <2>3, <2>4 DEF ToSet
<1>11. /\ IsSeq(q) /\ IsInjective(q)
       /\ \A t \in ToSet(q) : t = NewTask(t.id) /\ ProperId(t.id, ck0.id) /\ t.id.idx # 0
  <2>1. \A k \in DOMAIN q : /\ q[k] = NewTask(q[k].id) /\ ProperId(q[k].id, ck0.id) /\ q[k].id.idx # 0
                            /\ q[k].id.idx = known[k]
    BY <1>2, <1>7 DEF NewTask, PushId, ProperId
  <2>2. DOMAIN q = DOMAIN known
    BY <1>2
  <2>3. IsInjective(q)
    BY <1>6, <2>1, <2>2 DEF IsInjective
  <2>4. IsSeq(q)
    <3>1. \A k \in 1..Len(known) : q[k] \in ToSet(q)
      BY <1>9, <2>2 DEF ToSet
    <3>2. q = [k \in 1..Len(known) |-> q[k]]
      BY <1>2, <1>9
    <3> QED
      BY <1>9, <3>1, <3>2 DEF IsSeq
  <2> QED
    BY <2>1, <2>3, <2>4 DEF ToSet
<1>12. IsSeq(ts) /\ IsInjective(ts) /\ ToSet(ts) = ToSet(p) \cup ToSet(q)
  <2>1. ToSet(p) \cap ToSet(q) = {}
    BY <1>10, <1>11
  <2> QED
    BY <1>3, <1>10, <1>11, <2>1, SeqJoin, JoinInjective
<1>13. \A k \in DOMAIN ts : ts[k] = NewTask(ts[k].id) /\ ProperId(ts[k].id, ck0.id)
  BY <1>10, <1>11, <1>12 DEF ToSet
<1>14. \A j, k \in DOMAIN ts : ts[j].id = ts[k].id => j = k
  BY <1>12, <1>13 DEF IsInjective
<1>15. ASSUME NEW n \in candidates, Triggered(ck0, chs, n)
       PROVE  \E k \in DOMAIN ts : ts[k].id = PullId(ck0, n)
  <2>1. n \in Node
    BY DEF candidates, Candidates, CandidatesByTrigger, CandidatesByScan
  <2>2. PICK j \in DOMAIN ready : ready[j] = n
    BY <1>4, <1>15, <2>1 DEF ToSet
  <2>3. p[j] = NewTask(PullId(ck0, n)) /\ j \in DOMAIN p
    BY <1>1, <2>2
  <2>4. NewTask(PullId(ck0, n)).id = PullId(ck0, n)
    BY DEF NewTask
  <2>5. PICK k \in DOMAIN ts : ts[k] = p[j]
    BY <1>12, <2>3 DEF ToSet
  <2> QED
    BY <2>3, <2>4, <2>5
<1> QED
  BY <1>12, <1>13, <1>14, <1>15 DEF ts, candidates

-------------------------------------------------------------------------------
(* Which channels a superstep changes.                                     *)

(* A superstep leaves a channel without a new version as it was.           *)
Tracks(chs, s) ==
  States(s.chans) /\ \A c \in Chan : c \notin s.bumped => s.chans[c] = chs[c]

LEMMA ConsumeTracks ==
  ASSUME NEW chs, States(chs), NEW read
  PROVE  Tracks(chs, ConsumeRead(chs, read))
<1> DEFINE s == ConsumeRead(chs, read)
<1>1. /\ s.chans = [c \in Chan |-> IF c \in read THEN Consume(c, chs[c]) ELSE chs[c]]
      /\ s.bumped = {c \in read : Consumes(c, chs[c])}
  BY DEF ConsumeRead
<1>2. \A c \in Chan : IsState(chs[c])
  BY DEF States
<1>3. \A c \in Chan : /\ s.chans[c] = IF c \in read THEN Consume(c, chs[c]) ELSE chs[c]
                      /\ IsState(s.chans[c])
                      /\ c \notin s.bumped => s.chans[c] = chs[c]
  BY <1>1, <1>2, ConsumeFacts
<1>4. s.chans = [c \in Chan |-> s.chans[c]]
  BY <1>1
<1> HIDE DEF s
<1> QED
  BY <1>3, <1>4 DEF Tracks, States, s

LEMMA WriteTracks ==
  ASSUME NEW chs, NEW s, Tracks(chs, s), NEW cs \in SUBSET Chan, NEW to
  PROVE  Tracks(chs, WriteAll(s, cs, to))
<1> DEFINE t == WriteAll(s, cs, to)
<1>1. /\ t.chans = [c \in Chan |-> IF c \in cs THEN Update(c, s.chans[c], to[c]) ELSE s.chans[c]]
      /\ t.bumped = s.bumped \cup {c \in cs : Updates(c, s.chans[c], to[c])}
  BY DEF WriteAll, Phase
<1>2. \A c \in Chan : IsState(s.chans[c])
  BY DEF Tracks, States
<1>3. \A c \in Chan : /\ t.chans[c] = IF c \in cs THEN Update(c, s.chans[c], to[c]) ELSE s.chans[c]
                      /\ IsState(t.chans[c])
                      /\ c \notin t.bumped => c \notin s.bumped /\ t.chans[c] = s.chans[c]
  BY <1>1, <1>2, UpdateFacts
<1>4. t.chans = [c \in Chan |-> t.chans[c]]
  BY <1>1
<1> HIDE DEF t
<1> QED
  BY <1>3, <1>4 DEF Tracks, States, t

LEMMA FinishTracks ==
  ASSUME NEW chs, NEW s, Tracks(chs, s)
  PROVE  Tracks(chs, NotifyFinish(s))
<1> DEFINE t == Phase(s, {c \in Chan : Finishes(c, s.chans[c])},
                      [c \in Chan |-> Finish(c, s.chans[c])])
<1>1. /\ t.chans = [c \in Chan |-> Finish(c, s.chans[c])]
      /\ t.bumped = s.bumped \cup {c \in Chan : Finishes(c, s.chans[c])}
  BY DEF Phase
<1>2. \A c \in Chan : IsState(s.chans[c])
  BY DEF Tracks, States
<1>3. \A c \in Chan : /\ t.chans[c] = Finish(c, s.chans[c])
                      /\ IsState(t.chans[c])
                      /\ c \notin t.bumped => c \notin s.bumped /\ t.chans[c] = s.chans[c]
  BY <1>1, <1>2, ConsumeFacts
<1>4. t.chans = [c \in Chan |-> t.chans[c]]
  BY <1>1
<1>5. NotifyFinish(s) = s \/ NotifyFinish(s) = t
  BY DEF NotifyFinish
<1> HIDE DEF t
<1>6. Tracks(chs, t)
  BY <1>3, <1>4 DEF Tracks, States
<1> QED
  BY <1>5, <1>6

(* The channels that are not available before they are written.            *)
Silent == {c \in Chan : ~ IsAvailable(c, Fresh(c))}

(* What became available in a superstep was reported as updated.           *)
Reported(s) ==
  \A c \in Silent : c \in s.bumped /\ IsAvailable(c, s.chans[c]) => c \in s.updated

(* A channel that was consumed is empty.                                   *)
LEMMA ConsumeReports ==
  ASSUME NEW chs, NEW read
  PROVE  Reported(ConsumeRead(chs, read))
<1> DEFINE s == ConsumeRead(chs, read)
<1>1. /\ s.chans = [c \in Chan |-> IF c \in read THEN Consume(c, chs[c]) ELSE chs[c]]
      /\ s.bumped = {c \in read : Consumes(c, chs[c])}
  BY DEF ConsumeRead
<1>2. ASSUME NEW c \in Silent, c \in s.bumped PROVE ~ IsAvailable(c, s.chans[c])
  <2>1. c \in Chan /\ c \in read /\ Consumes(c, chs[c])
    BY <1>1, <1>2 DEF Silent
  <2>2. s.chans[c] = Fresh(c)
    BY <1>1, <2>1 DEF Consume
  <2> QED
    BY <2>2 DEF Silent
<1> QED
  BY <1>2 DEF Reported

(* So is one that was written, or told that a step has passed.             *)
LEMMA WriteReports ==
  ASSUME NEW chs, NEW s, Tracks(chs, s), Reported(s), NEW cs \in SUBSET Chan, NEW to
  PROVE  Reported(WriteAll(s, cs, to))
<1> DEFINE t == WriteAll(s, cs, to)
           new == [c \in Chan |-> IF c \in cs THEN Update(c, s.chans[c], to[c]) ELSE s.chans[c]]
           changed == {c \in cs : Updates(c, s.chans[c], to[c])}
<1>1. /\ t.chans = new /\ t.bumped = s.bumped \cup changed
      /\ t.updated = s.updated \cup {c \in changed : IsAvailable(c, new[c])}
  BY DEF WriteAll, Phase
<1>2. ASSUME NEW c \in Chan, c \notin changed PROVE new[c] = s.chans[c]
  <2>1. IsState(s.chans[c])
    BY DEF Tracks, States
  <2> QED
    BY <1>2, <2>1, UpdateFacts
<1> HIDE DEF t, new, changed
<1>3. ASSUME NEW c \in Silent, c \in t.bumped, IsAvailable(c, t.chans[c]) PROVE c \in t.updated
  <2>1. c \in Chan
    BY DEF Silent
  <2>2. CASE c \in changed
    BY <1>1, <1>3, <2>2
  <2>3. CASE c \notin changed
    BY <1>1, <1>2, <1>3, <2>1, <2>3 DEF Reported
  <2> QED
    BY <2>2, <2>3
<1> QED
  BY <1>3 DEF Reported, t

LEMMA FinishReports ==
  ASSUME NEW chs, NEW s, Tracks(chs, s), Reported(s)
  PROVE  Reported(NotifyFinish(s))
<1> DEFINE new == [c \in Chan |-> Finish(c, s.chans[c])]
           changed == {c \in Chan : Finishes(c, s.chans[c])}
           t == Phase(s, changed, new)
<1>1. /\ t.chans = new /\ t.bumped = s.bumped \cup changed
      /\ t.updated = s.updated \cup {c \in changed : IsAvailable(c, new[c])}
  BY DEF Phase
<1>2. ASSUME NEW c \in Chan, c \notin changed PROVE new[c] = s.chans[c]
  <2>1. IsState(s.chans[c])
    BY DEF Tracks, States
  <2> QED
    BY <1>2, <2>1, ConsumeFacts
<1>3. NotifyFinish(s) = s \/ NotifyFinish(s) = t
  BY DEF NotifyFinish
<1> HIDE DEF t, new, changed
<1>4. ASSUME NEW c \in Silent, c \in t.bumped, IsAvailable(c, t.chans[c]) PROVE c \in t.updated
  <2>1. c \in Chan
    BY DEF Silent
  <2>2. CASE c \in changed
    BY <1>1, <1>4, <2>2
  <2>3. CASE c \notin changed
    BY <1>1, <1>2, <1>4, <2>1, <2>3 DEF Reported
  <2> QED
    BY <2>2, <2>3
<1> QED
  BY <1>3, <1>4 DEF Reported

(* apply_writes gives a channel that changed a version above all others,   *)
(* leaves the rest alone, and reports what has become available.           *)
LEMMA ApplyTracks ==
  ASSUME NEW ck0, ck0.ver \in [Chan -> Nat], NEW chs, States(chs), NEW ts, NEW extra
  PROVE  LET r == ApplyWrites(ck0, chs, ts, extra)
         IN  /\ r.ver \in [Chan -> Nat] /\ States(r.chans) /\ r.seen = SeenAfter(ck0, ts)
             /\ \A c \in Chan : /\ ck0.ver[c] <= r.ver[c]
                                /\ \/ r.ver[c] = ck0.ver[c] /\ r.chans[c] = chs[c]
                                   \/ /\ \A d \in Chan : ck0.ver[d] < r.ver[c]
                                      /\ c \in Silent /\ IsAvailable(c, r.chans[c]) =>
                                           c \in r.updated
<1> DEFINE ws       == extra \o FlattenSeq([k \in DOMAIN ts |-> ts[k].writes])
           to       == [c \in Chan |-> WritesTo(c, ws)]
           read     == UNION {TriggersOf[ts[k].id.name] :
                                k \in {j \in DOMAIN ts : ~ IsPush(ts[j])}}
           first(c) == Min({i \in DOMAIN ws : ws[i].chan = c})
           bad      == {c \in Chan : to[c] # <<>> /\ Rejects(c, to[c])}
           reached  == {c \in Chan : to[c] # <<>> /\ \A b \in bad : first(c) < first(b)}
           written  == WriteAll(ConsumeRead(chs, read), reached, to)
           s        == IF bad # {} \/ ts = <<>> THEN written
                       ELSE NotifyFinish(NotifyStep(written))
           r        == ApplyWrites(ck0, chs, ts, extra)
<1>1. r = Applied(ck0, ts, s, bad # {})
  BY Zenon DEF ApplyWrites
<1> HIDE DEF to, bad
<1>2. reached \in SUBSET Chan
  OBVIOUS
<1> HIDE DEF reached, read
<1>3. Tracks(chs, written) /\ Reported(written)
  BY <1>2, ConsumeTracks, WriteTracks, ConsumeReports, WriteReports
<1> HIDE DEF written
<1>4. Tracks(chs, NotifyStep(written)) /\ Reported(NotifyStep(written))
  <2> DEFINE cs == {c \in Chan \ written.updated : IsAvailable(c, written.chans[c])}
  <2>1. cs \in SUBSET Chan
    OBVIOUS
  <2> HIDE DEF cs
  <2>2. /\ Tracks(chs, WriteAll(written, cs, [c \in Chan |-> <<>>]))
        /\ Reported(WriteAll(written, cs, [c \in Chan |-> <<>>]))
    BY <1>3, <2>1, WriteTracks, WriteReports
  <2> QED
    BY <2>2 DEF NotifyStep, cs
<1>5. Tracks(chs, s) /\ Reported(s)
  BY <1>3, <1>4, FinishTracks, FinishReports
<1> HIDE DEF s
<1>6. /\ r.chans = s.chans /\ r.updated = s.updated /\ r.seen = SeenAfter(ck0, ts)
      /\ r.ver = [c \in Chan |-> IF c \in s.bumped THEN 1 + Max({ck0.ver[d] : d \in Chan})
                                                   ELSE ck0.ver[c]]
  BY <1>1 DEF Applied
<1> HIDE DEF r
<1>7. ASSUME NEW c \in Chan
      PROVE  /\ r.ver[c] \in Nat
             /\ ck0.ver[c] <= r.ver[c]
             /\ \/ r.ver[c] = ck0.ver[c] /\ r.chans[c] = chs[c]
                \/ /\ \A d \in Chan : ck0.ver[d] < r.ver[c]
                   /\ c \in Silent /\ IsAvailable(c, r.chans[c]) => c \in r.updated
  <2> DEFINE m == Max({ck0.ver[d] : d \in Chan})
  <2>1. m \in Nat /\ ck0.ver[c] <= m /\ \A d \in Chan : ck0.ver[d] \in Nat /\ ck0.ver[d] <= m
    BY NewFinite
  <2>2. r.ver[c] = IF c \in s.bumped THEN 1 + m ELSE ck0.ver[c]
    BY <1>6
  <2> HIDE DEF m
  <2>3. CASE c \in s.bumped
    <3>1. c \in Silent /\ IsAvailable(c, r.chans[c]) => c \in r.updated
      BY <1>5, <1>6, <2>3 DEF Reported
    <3> QED
      BY <2>1, <2>2, <2>3, <3>1
  <2>4. CASE c \notin s.bumped
    <3>1. r.chans[c] = chs[c]
      BY <1>5, <1>6, <2>4 DEF Tracks
    <3> QED
      BY <2>1, <2>2, <2>4, <3>1
  <2> QED
    BY <2>3, <2>4
<1>8. r.ver \in [Chan -> Nat]
  BY <1>6, <1>7
<1>9. States(r.chans)
  BY <1>5, <1>6 DEF Tracks
<1> QED
  BY <1>6, <1>7, <1>8, <1>9 DEF r

-------------------------------------------------------------------------------
(* The index from channels to nodes, against a scan of the nodes.          *)

(* A channel without a version is not available to a trigger.              *)
Dormant(ver, chs) ==
  \A n \in Node : \A c \in TriggersOf[n] : ver[c] = 0 => ~ IsAvailable(c, chs[c])

(* The updated channels lead to every node that a scan would find.         *)
Leads(k, chs, upd) ==
  upd # {} => \A n \in Node : Triggered(k, chs, n) => TriggersOf[n] \cap upd # {}

(* Every node that is triggered has a task.                                *)
AllTriggered(k, chs, ts) ==
  \A n \in Node : Triggered(k, chs, n) =>
    \E i \in DOMAIN ts : ts[i].id.name = n /\ ~ IsPush(ts[i])

(* Nodes are triggered by what was written, not by a reducer's default.    *)
SilentTriggers == \A n \in Node : TriggersOf[n] \subseteq Silent

(* Tasks are prepared for all nodes that are triggered.                    *)
LEMMA PreparedScan ==
  ASSUME NEW k, NEW chs, IsSeq(chs[TASKS].vals), NEW upd,
         Leads(k, chs, upd), Dormant(k.ver, chs)
  PROVE  AllTriggered(k, chs, PrepareNextTasks(k, chs, upd))
<1> DEFINE ts == PrepareNextTasks(k, chs, upd)
<1> SUFFICES ASSUME NEW n \in Node, Triggered(k, chs, n)
             PROVE  \E i \in DOMAIN ts : ts[i].id.name = n /\ ~ IsPush(ts[i])
  BY DEF AllTriggered
<1>1. n \in Candidates(k, upd)
  <2>1. CASE upd # {}
    BY <2>1 DEF Leads, Candidates, CandidatesByTrigger
  <2>2. CASE upd = {}
    <3>1. PICK c \in TriggersOf[n] : IsAvailable(c, chs[c])
      BY DEF Triggered
    <3>2. c \in Chan
      BY <3>1, AlgoAssumption
    <3>3. k.ver[c] # 0
      BY <3>1 DEF Dormant
    <3>4. k.ver # NullVersions
      BY <3>2, <3>3 DEF NullVersions
    <3> QED
      BY <2>2, <3>4 DEF Candidates, CandidatesByScan
  <2> QED
    BY <2>1, <2>2
<1>2. PICK i \in DOMAIN ts : ts[i].id = PullId(k, n)
  BY <1>1, PreparedFacts
<1>3. ts[i].id.name = n /\ ts[i].id.idx = 0
  BY <1>2 DEF PullId
<1> QED
  BY <1>2, <1>3 DEF IsPush

(* After a superstep a node is triggered by a channel that the superstep   *)
(* changed, or it was triggered before and had no task.                    *)
LEMMA ApplyTriggers ==
  ASSUME SilentTriggers, NEW ck0, ck0.ver \in [Chan -> Nat], NEW chs, States(chs),
         Dormant(ck0.ver, chs), NEW ts, NEW extra
  PROVE  LET r == ApplyWrites(ck0, chs, ts, extra)
         IN  /\ Dormant(r.ver, r.chans)
             /\ \A n \in Node : Triggered(r, r.chans, n) =>
                  \/ \E c \in TriggersOf[n] \cap r.updated : \A d \in Chan : ck0.ver[d] < r.ver[c]
                  \/ /\ Triggered(ck0, chs, n)
                     /\ ~ \E i \in DOMAIN ts : ts[i].id.name = n /\ ~ IsPush(ts[i])
<1> DEFINE r == ApplyWrites(ck0, chs, ts, extra)
<1>1. /\ r.ver \in [Chan -> Nat] /\ r.seen = SeenAfter(ck0, ts)
      /\ \A c \in Chan : /\ ck0.ver[c] <= r.ver[c]
                         /\ \/ r.ver[c] = ck0.ver[c] /\ r.chans[c] = chs[c]
                            \/ /\ \A d \in Chan : ck0.ver[d] < r.ver[c]
                               /\ c \in Silent /\ IsAvailable(c, r.chans[c]) => c \in r.updated
  BY ApplyTracks
<1> HIDE DEF r
<1>2. ASSUME NEW n \in Node, NEW c \in TriggersOf[n] PROVE c \in Chan /\ c \in Silent
  BY AlgoAssumption DEF SilentTriggers
<1>3. ASSUME NEW n \in Node, NEW c \in TriggersOf[n], r.ver[c] = 0
      PROVE  ~ IsAvailable(c, r.chans[c])
  <2>1. c \in Chan /\ ck0.ver[c] \in Nat
    BY <1>2
  <2>2. ck0.ver[c] = 0 /\ r.chans[c] = chs[c]
    BY <1>1, <1>3, <2>1
  <2> QED
    BY <2>2 DEF Dormant
<1>4. ASSUME NEW n \in Node, NEW c \in TriggersOf[n], IsAvailable(c, r.chans[c]),
             n \in DOMAIN r.seen => r.ver[c] > r.seen[n][c],
             r.ver[c] = ck0.ver[c], r.chans[c] = chs[c]
      PROVE  /\ Triggered(ck0, chs, n)
             /\ ~ \E i \in DOMAIN ts : ts[i].id.name = n /\ ~ IsPush(ts[i])
  <2> DEFINE names == {ts[i].id.name : i \in DOMAIN ts}
             pulls == {ts[i].id.name : i \in {j \in DOMAIN ts : ~ IsPush(ts[j])}}
             old(m) == IF m \in DOMAIN ck0.seen THEN ck0.seen[m] ELSE NullVersions
  <2>1. r.seen = [m \in DOMAIN ck0.seen \cup names |->
           IF m \in pulls
           THEN [d \in Chan |-> IF d \in TriggersOf[m] /\ ck0.ver[d] > 0
                                THEN ck0.ver[d] ELSE old(m)[d]]
           ELSE old(m)]
    BY <1>1 DEF SeenAfter
  <2>2. c \in Chan /\ ck0.ver[c] \in Nat /\ ck0.ver[c] # 0
    BY <1>2, <1>4 DEF Dormant
  <2>3. pulls \subseteq names
    OBVIOUS
  <2>4. n \notin pulls
    <3> SUFFICES ASSUME n \in pulls PROVE FALSE
      OBVIOUS
    <3>1. n \in DOMAIN r.seen
      BY <2>1, <2>3
    <3> HIDE DEF pulls, names, old
    <3>2. r.seen[n] = [d \in Chan |-> IF d \in TriggersOf[n] /\ ck0.ver[d] > 0
                                      THEN ck0.ver[d] ELSE old(n)[d]]
      BY <2>1, <3>1
    <3>3. r.seen[n][c] = ck0.ver[c]
      BY <2>2, <3>2
    <3> QED
      BY <1>4, <2>2, <3>1, <3>3
  <2>5. ~ \E i \in DOMAIN ts : ts[i].id.name = n /\ ~ IsPush(ts[i])
    BY <2>4
  <2> HIDE DEF pulls, names
  <2>6. n \in DOMAIN ck0.seen => ck0.ver[c] > ck0.seen[n][c]
    BY <1>4, <2>1, <2>4
  <2>7. Triggered(ck0, chs, n)
    BY <1>4, <2>6 DEF Triggered
  <2> QED
    BY <2>5, <2>7
<1>5. ASSUME NEW n \in Node, Triggered(r, r.chans, n)
      PROVE  \/ \E c \in TriggersOf[n] \cap r.updated : \A d \in Chan : ck0.ver[d] < r.ver[c]
             \/ /\ Triggered(ck0, chs, n)
                /\ ~ \E i \in DOMAIN ts : ts[i].id.name = n /\ ~ IsPush(ts[i])
  <2>1. PICK c \in TriggersOf[n] : /\ IsAvailable(c, r.chans[c])
                                   /\ n \in DOMAIN r.seen => r.ver[c] > r.seen[n][c]
    BY <1>5 DEF Triggered
  <2>2. c \in Chan /\ c \in Silent
    BY <1>2
  <2>3. CASE r.ver[c] = ck0.ver[c] /\ r.chans[c] = chs[c]
    BY <1>4, <2>1, <2>3
  <2>4. CASE ~ (r.ver[c] = ck0.ver[c] /\ r.chans[c] = chs[c])
    <3>1. c \in r.updated /\ \A d \in Chan : ck0.ver[d] < r.ver[c]
      BY <1>1, <2>1, <2>2, <2>4
    <3> QED
      BY <3>1
  <2> QED
    BY <2>3, <2>4
<1>6. Dormant(r.ver, r.chans)
  BY <1>3 DEF Dormant
<1> QED
  BY <1>5, <1>6 DEF r

(* After a step that gave a task to every node that was triggered, the     *)
(* updated channels lead to the nodes of the next one.                     *)
LEMMA ApplyLeads ==
  ASSUME SilentTriggers, NEW ck0, ck0.ver \in [Chan -> Nat], NEW chs, States(chs),
         Dormant(ck0.ver, chs), NEW ts, AllTriggered(ck0, chs, ts), NEW extra
  PROVE  LET r == ApplyWrites(ck0, chs, ts, extra)
         IN  Dormant(r.ver, r.chans) /\ Leads(r, r.chans, r.updated)
<1> DEFINE r == ApplyWrites(ck0, chs, ts, extra)
<1>1. /\ Dormant(r.ver, r.chans)
      /\ \A n \in Node : Triggered(r, r.chans, n) =>
           \/ \E c \in TriggersOf[n] \cap r.updated : \A d \in Chan : ck0.ver[d] < r.ver[c]
           \/ /\ Triggered(ck0, chs, n)
              /\ ~ \E i \in DOMAIN ts : ts[i].id.name = n /\ ~ IsPush(ts[i])
  BY ApplyTriggers
<1> HIDE DEF r
<1>2. ASSUME NEW n \in Node, Triggered(r, r.chans, n) PROVE TriggersOf[n] \cap r.updated # {}
  BY <1>1, <1>2 DEF AllTriggered
<1> QED
  BY <1>1, <1>2 DEF Leads, r

(* Writes of a client add to the nodes that a checkpoint leads to.         *)
LEMMA ClientLeads ==
  ASSUME SilentTriggers, NEW ck0, ck0.ver \in [Chan -> Nat], NEW chs, States(chs),
         Dormant(ck0.ver, chs), NEW upd, Leads(ck0, chs, upd), NEW extra
  PROVE  LET r == ApplyWrites(ck0, chs, <<>>, extra)
         IN  /\ Dormant(r.ver, r.chans)
             /\ Leads(r, r.chans, IF upd = {} THEN {} ELSE upd \cup r.updated)
<1> DEFINE r == ApplyWrites(ck0, chs, <<>>, extra)
<1>1. /\ Dormant(r.ver, r.chans)
      /\ \A n \in Node : Triggered(r, r.chans, n) =>
           \/ \E c \in TriggersOf[n] \cap r.updated : \A d \in Chan : ck0.ver[d] < r.ver[c]
           \/ Triggered(ck0, chs, n)
  BY ApplyTriggers
<1> HIDE DEF r
<1>2. ASSUME upd # {}, NEW n \in Node, Triggered(r, r.chans, n)
      PROVE  TriggersOf[n] \cap (upd \cup r.updated) # {}
  BY <1>1, <1>2 DEF Leads
<1> QED
  BY <1>1, <1>2 DEF Leads, r

(* Where the updated channels lead to every node that is triggered, the    *)
(* index finds the tasks that a scan finds.                                *)
LEMMA IndexIsScan ==
  ASSUME NEW k, NEW chs, NEW upd, upd # {}, Leads(k, chs, upd)
  PROVE  PullTasks(k, chs, CandidatesByTrigger(upd)) = PullTasks(k, chs, Node)
<1>1. {n \in CandidatesByTrigger(upd) : Triggered(k, chs, n)} = {n \in Node : Triggered(k, chs, n)}
  BY DEF Leads, CandidatesByTrigger
<1> QED
  BY <1>1 DEF PullTasks

-------------------------------------------------------------------------------
(* Records.                                                                *)

Fields == {"id", "parent", "step", "source", "ver", "seen", "updated", "vals"}
Shaped(e) == DOMAIN e = Fields \cup {"shared"}

(* A save that waits is the record with the channels it shares beside it,  *)
(* and is stored as the record.                                            *)
LEMMA SaveFields ==
  ASSUME NEW id, NEW ver, NEW seen, NEW upd, NEW chs, NEW s, NEW src, NEW parent
  PROVE  LET rec == Record(id, ver, seen, upd, chs, s, src, parent)
         IN  /\ Shaped(Unsaved(rec)) /\ \A f \in Fields : Unsaved(rec)[f] = rec[f]
             /\ Unsaved(rec).shared = Shared(ver)
             /\ rec.id = id /\ rec.parent = parent /\ rec.ver = ver
             /\ rec.vals = Snapshot(chs, ver) /\ rec.seen = seen
             /\ rec.step = s /\ rec.source = src
BY DEF Record, Unsaved, Shaped, Fields, With

LEMMA StoredFields ==
  ASSUME NEW e, Shaped(e)
  PROVE  \A f \in Fields : StoredForm(e)[f] = e[f]
BY DEF StoredForm, Shaped, Fields

(* Updating channels in place leaves everything else of a waiting save.    *)
LEMMA TouchedFields ==
  ASSUME NEW queue, IsSeq(queue), NEW consumed, NEW new,
         \A q \in DOMAIN queue : Shaped(queue[q])
  PROVE  LET t == Touched(queue, consumed, new)
         IN  /\ IsSeq(t) /\ DOMAIN t = DOMAIN queue
             /\ \A q \in DOMAIN queue : /\ Shaped(t[q])
                                        /\ \A f \in Fields \ {"vals"} : t[q][f] = queue[q][f]
<1> DEFINE t == Touched(queue, consumed, new)
<1>1. DOMAIN t = DOMAIN queue
  BY DEF Touched
<1>2. IsSeq(t)
  <2>1. DOMAIN queue = 1..Len(queue) /\ Len(queue) \in Nat
    BY DEF IsSeq
  <2>2. t = [q \in 1..Len(queue) |-> t[q]]
    BY <2>1 DEF Touched
  <2>3. \A q \in 1..Len(queue) : t[q] \in ToSet(t)
    BY <1>1, <2>1 DEF ToSet
  <2> HIDE DEF t
  <2> QED
    BY <2>1, <2>2, <2>3 DEF IsSeq
<1>3. ASSUME NEW q \in DOMAIN queue
      PROVE  Shaped(t[q]) /\ \A f \in Fields \ {"vals"} : t[q][f] = queue[q][f]
  BY DEF Touched, Shaped, Fields
<1> QED
  BY <1>1, <1>2, <1>3

-------------------------------------------------------------------------------
(* The order of the saves.                                                 *)

IdsOf(queue) == {queue[q].id : q \in DOMAIN queue}

(* Everything that waits was derived from what is stored or waits before   *)
(* it; D are the ids of what is stored.                                    *)
Ordered(D, queue) ==
  \A q \in DOMAIN queue :
    queue[q].parent \in D \cup {0} \cup {queue[r].id : r \in 1..q - 1}

Ids ==
  /\ nextId \in Nat \ {0}
  /\ DOMAIN ckpts \subseteq 1..nextId - 1 /\ \A id \in DOMAIN ckpts : ckpts[id].id = id
  /\ IdsOf(saves) \subseteq 1..nextId - 1
  /\ ck.id \in 0..nextId - 1 /\ (ck.id = 0 => savedId = 0)
  /\ IsSeq(saves) /\ \A q \in DOMAIN saves : Shaped(saves[q])

(* The checkpoint the next one is derived from is stored or waits.         *)
Queue ==
  /\ Ordered(DOMAIN ckpts, saves)
  /\ cfg \in DOMAIN ckpts \cup {0} \cup IdsOf(saves)
  /\ OrderedSaves

QInv == Ids /\ Queue

LEMMA OrderedAppend ==
  ASSUME NEW D, NEW queue, IsSeq(queue), Ordered(D, queue),
         NEW e, e.parent \in D \cup {0} \cup IdsOf(queue)
  PROVE  /\ Ordered(D, Append(queue, e))
         /\ IdsOf(Append(queue, e)) = IdsOf(queue) \cup {e.id}
<1> DEFINE s == Append(queue, e)
<1>1. /\ Len(queue) \in Nat /\ DOMAIN queue = 1..Len(queue)
      /\ DOMAIN s = 1..Len(queue) + 1
      /\ \A i \in DOMAIN queue : s[i] = queue[i]
      /\ s[Len(queue) + 1] = e
  BY SeqAppend
<1> HIDE DEF s
<1>2. IdsOf(s) = IdsOf(queue) \cup {e.id}
  BY <1>1 DEF IdsOf
<1>3. ASSUME NEW q \in DOMAIN s
      PROVE  s[q].parent \in D \cup {0} \cup {s[r].id : r \in 1..q - 1}
  <2>1. CASE q \in DOMAIN queue
    <3>1. \A r \in 1..q - 1 : s[r].id = queue[r].id
      BY <1>1, <2>1
    <3> QED
      BY <1>1, <2>1, <3>1 DEF Ordered
  <2>2. CASE q = Len(queue) + 1
    <3>1. IdsOf(queue) = {s[r].id : r \in 1..q - 1}
      BY <1>1, <2>2 DEF IdsOf
    <3> QED
      BY <1>1, <2>2, <3>1
  <2> QED
    BY <1>1, <2>1, <2>2
<1> QED
  BY <1>2, <1>3 DEF Ordered, s

LEMMA OrderedTail ==
  ASSUME NEW D, NEW s, IsSeq(s), s # <<>>, Ordered(D, s)
  PROVE  /\ Ordered(D \cup {Head(s).id}, Tail(s))
         /\ IdsOf(s) = {Head(s).id} \cup IdsOf(Tail(s))
         /\ Head(s).parent \in D \cup {0}
<1> DEFINE t == Tail(s)
<1>1. /\ Len(s) \in Nat \ {0} /\ DOMAIN s = 1..Len(s)
      /\ Head(s) = s[1] /\ DOMAIN t = 1..Len(s) - 1
      /\ \A i \in DOMAIN t : t[i] = s[i + 1] /\ i + 1 \in DOMAIN s
  BY SeqTail
<1> HIDE DEF t
<1>2. IdsOf(s) = {Head(s).id} \cup IdsOf(t)
  <2>1. \A q \in DOMAIN s : q = 1 \/ (q - 1 \in DOMAIN t /\ s[q] = t[q - 1])
    BY <1>1
  <2> QED
    BY <1>1, <2>1 DEF IdsOf
<1>3. Head(s).parent \in D \cup {0}
  <2>1. 1 \in DOMAIN s /\ 1..1 - 1 = {}
    BY <1>1
  <2> QED
    BY <1>1, <2>1 DEF Ordered
<1>4. ASSUME NEW q \in DOMAIN t
      PROVE  t[q].parent \in (D \cup {Head(s).id}) \cup {0} \cup {t[r].id : r \in 1..q - 1}
  <2>1. s[q + 1].parent \in D \cup {0} \cup {s[r].id : r \in 1..(q + 1) - 1}
    BY <1>1 DEF Ordered
  <2>2. \A r \in 1..(q + 1) - 1 : s[r].id = Head(s).id \/ (r - 1 \in 1..q - 1 /\ s[r].id = t[r - 1].id)
    BY <1>1
  <2> QED
    BY <1>1, <2>1, <2>2
<1> QED
  BY <1>2, <1>3, <1>4 DEF Ordered, t

(* What the channels do in place to a queue does not concern its order.    *)
LEMMA OrderedTouched ==
  ASSUME NEW D, NEW queue, IsSeq(queue), Ordered(D, queue), NEW consumed, NEW new,
         \A q \in DOMAIN queue : Shaped(queue[q])
  PROVE  /\ Ordered(D, Touched(queue, consumed, new))
         /\ IdsOf(Touched(queue, consumed, new)) = IdsOf(queue)
<1> DEFINE t == Touched(queue, consumed, new)
<1>1. /\ DOMAIN t = DOMAIN queue /\ DOMAIN queue = 1..Len(queue) /\ Len(queue) \in Nat
      /\ \A q \in DOMAIN queue : t[q].id = queue[q].id /\ t[q].parent = queue[q].parent
  <2>1. DOMAIN queue = 1..Len(queue) /\ Len(queue) \in Nat
    BY DEF IsSeq
  <2> QED
    BY <2>1, TouchedFields DEF Fields
<1> HIDE DEF t
<1>2. \A q \in DOMAIN queue : \A r \in 1..q - 1 : r \in DOMAIN queue
  BY <1>1
<1>3. ASSUME NEW q \in DOMAIN t
      PROVE  t[q].parent \in D \cup {0} \cup {t[r].id : r \in 1..q - 1}
  <2>1. {t[r].id : r \in 1..q - 1} = {queue[r].id : r \in 1..q - 1}
    BY <1>1, <1>2
  <2> QED
    BY <1>1, <2>1 DEF Ordered
<1> QED
  BY <1>1, <1>3 DEF Ordered, IdsOf, t

(* The latest checkpoint is the stored one with the greatest id.           *)
LEMMA LatestFacts ==
  ASSUME Ids
  PROVE  \/ DOMAIN ckpts = {} /\ Latest = EmptyCheckpoint
         \/ /\ Latest.id \in DOMAIN ckpts /\ Latest = ckpts[Latest.id]
            /\ \A id \in DOMAIN ckpts : id <= Latest.id
<1>1. CASE DOMAIN ckpts = {}
  BY <1>1 DEF Latest
<1>2. CASE DOMAIN ckpts # {}
  <2>1. DOMAIN ckpts \subseteq Nat /\ IsFiniteSet(DOMAIN ckpts)
    <3>1. nextId - 1 \in Int /\ DOMAIN ckpts \subseteq 1..nextId - 1
      BY DEF Ids
    <3>2. IsFiniteSet(1..nextId - 1)
      BY <3>1, FS_Interval
    <3> QED
      BY <3>1, <3>2, FS_Subset
  <2>2. Max(DOMAIN ckpts) \in DOMAIN ckpts /\ \A id \in DOMAIN ckpts : id <= Max(DOMAIN ckpts)
    BY <1>2, <2>1, MaxExists
  <2> QED
    BY <1>2, <2>2 DEF Latest, Ids
<1> QED
  BY <1>1, <1>2

LEMMA LatestId == Ids => Latest.id \in DOMAIN ckpts \cup {0}
BY LatestFacts DEF EmptyCheckpoint

(* A new checkpoint goes to the end of the queue.                          *)
LEMMA PutKeepsOrder ==
  ASSUME QInv, NEW src, NEW r, NEW queue, NEW s, NEW prev, NEW parent,
         PutCheckpoint(src, r, queue, s, prev, parent), UNCHANGED storage,
         IsSeq(queue), \A q \in DOMAIN queue : Shaped(queue[q]),
         Ordered(DOMAIN ckpts, queue), IdsOf(queue) \subseteq 1..nextId - 1,
         parent \in DOMAIN ckpts \cup {0} \cup IdsOf(queue)
  PROVE  QInv'
<1> DEFINE e == Unsaved(Record(nextId, r.ver, r.seen, r.updated, r.chans, s, src, parent))
<1>1. /\ Shaped(e) /\ e.id = nextId /\ e.parent = parent
  BY SaveFields DEF Fields
<1>2. /\ nextId \in Nat \ {0} /\ nextId' = nextId + 1 /\ ck'.id = nextId /\ ckpts' = ckpts
      /\ \/ cfg' = parent /\ saves' = queue
         \/ cfg' = nextId /\ saves' = Append(queue, e)
  BY DEF PutCheckpoint, QInv, Ids, storage
<1> HIDE DEF e
<1>3. CASE cfg' = parent /\ saves' = queue
  <2>1. Ids'
    BY <1>2, <1>3 DEF QInv, Ids
  <2> QED
    BY <1>2, <1>3, <2>1 DEF QInv, Queue, OrderedSaves
<1>4. CASE cfg' = nextId /\ saves' = Append(queue, e)
  <2>1. /\ Ordered(DOMAIN ckpts, saves') /\ IdsOf(saves') = IdsOf(queue) \cup {nextId}
    BY <1>1, <1>4, OrderedAppend
  <2>2. IsSeq(saves') /\ \A q \in DOMAIN saves' : Shaped(saves'[q])
    BY <1>1, <1>4, SeqAppend
  <2>3. Ids'
    BY <1>2, <2>1, <2>2 DEF QInv, Ids
  <2> QED
    BY <1>2, <1>4, <2>1, <2>3 DEF QInv, Queue, OrderedSaves
<1> QED
  BY <1>2, <1>3, <1>4

(* What most steps leave alone.                                            *)
LEMMA SameOrder ==
  ASSUME QInv, UNCHANGED <<ckpts, saves, cfg, nextId, ck, savedId>>
  PROVE  QInv'
BY DEF QInv, Ids, Queue, OrderedSaves

(* An invocation derives what it makes from the latest checkpoint.         *)
LEMMA InvokeFacts ==
  ASSUME NEW req, NEW d, Invoke(req, d)
  PROVE  /\ pc = "idle" /\ pc' = "tick" /\ UNCHANGED storage
         /\ durability' = d /\ savedId' = Latest.id
         /\ \/ /\ ck'.id = Latest.id /\ cfg' = Latest.id /\ saves' = <<>>
               /\ UNCHANGED <<nextId, made>>
            \/ \E i : PutCheckpoint("input", i, <<>>, Latest.step + 1, Latest.id, Latest.id)
<1> DEFINE base    == Latest
           loaded  == PendingWrites(base.id)
           cmd     == CommandWrites(req, invocations + 1)
           old     == IF NullTask \in DOMAIN loaded THEN loaded[NullTask] ELSE <<>>
           null    == IF cmd = <<>> THEN old ELSE Selected(old, {w \in ToSet(old) : IsData(w)}) \o cmd
           ck0     == [id |-> base.id, ver |-> base.ver, seen |-> base.seen]
           chans0  == Restored(base.vals)
           none    == [ver |-> ck0.ver, seen |-> ck0.seen, chans |-> chans0, updated |-> {}]
           r       == IF null = <<>> THEN none ELSE ApplyWrites(ck0, chans0, <<>>, null)
           ck1     == [ck0 EXCEPT !.ver = r.ver, !.seen = r.seen]
           discard == PrepareNextTasks(ck1, r.chans, {})
           input   == ApplyWrites(ck1, r.chans, discard, <<Write(START, ClientId(invocations + 1))>>)
<1>1. pc = "idle" /\ pc' = "tick" /\ UNCHANGED storage /\ durability' = d /\ savedId' = Latest.id
  BY Zenon DEF Invoke
<1>2. \/ /\ ck' = [id |-> base.id, ver |-> r.ver, seen |-> With(r.seen, INTERRUPT, r.ver)]
         /\ cfg' = base.id /\ saves' = <<>> /\ chans' = r.chans
         /\ UNCHANGED <<nextId, made>>
      \/ /\ PutCheckpoint("input", input, <<>>, base.step + 1, base.id, base.id)
         /\ chans' = input.chans
  BY Zenon DEF Invoke
<1> HIDE DEF r, input
<1> QED
  BY <1>1, <1>2

LEMMA EmptyQueue ==
  /\ IsSeq(<<>>) /\ DOMAIN <<>> = {} /\ IdsOf(<<>>) = {}
  /\ \A D : Ordered(D, <<>>)
<1>1. <<>> \in Seq(ToSet(<<>>)) /\ DOMAIN <<>> = {}
  OBVIOUS
<1> QED
  BY <1>1 DEF IsSeq, IdsOf, Ordered

LEMMA InitOrder == Init => QInv
<1> SUFFICES ASSUME Init PROVE QInv
  OBVIOUS
<1>1. DOMAIN ckpts = {} /\ saves = <<>> /\ nextId = 1 /\ ck.id = 0 /\ cfg = 0 /\ savedId = 0
  BY DEF Init
<1> QED
  BY <1>1, EmptyQueue DEF QInv, Ids, Queue, OrderedSaves

(* Whatever a step does, what is stored keeps what it was derived from.    *)
LEMMA OrderStep == QInv /\ [Next]_vars => QInv'
<1> SUFFICES ASSUME QInv, [Next]_vars PROVE QInv'
  OBVIOUS
<1> USE DEF storage, loop, background, counters, observers
<1>0. Ids /\ Queue
  BY DEF QInv
<1>1. ASSUME NEW req, NEW d, Invoke(req, d) PROVE QInv'
  <2>1. CASE ck'.id = Latest.id /\ cfg' = Latest.id /\ saves' = <<>> /\ UNCHANGED nextId
    <3>1. Latest.id \in DOMAIN ckpts \cup {0} /\ savedId' = Latest.id /\ ckpts' = ckpts
      BY <1>0, <1>1, LatestId, InvokeFacts
    <3>2. Latest.id \in 0..nextId - 1
      BY <1>0, <3>1 DEF Ids
    <3> QED
      BY <1>0, <2>1, <3>1, <3>2, EmptyQueue DEF QInv, Ids, Queue, OrderedSaves
  <2>2. ASSUME NEW i, PutCheckpoint("input", i, <<>>, Latest.step + 1, Latest.id, Latest.id)
        PROVE  QInv'
    BY <1>0, <1>1, <2>2, LatestId, InvokeFacts, EmptyQueue, PutKeepsOrder
  <2> QED
    BY <1>1, <2>1, <2>2, InvokeFacts
<1>2. CASE AfterTick
  <2> DEFINE r     == ApplyWrites(ck, chans, tasks, <<>>)
             queue == Touched(saves, ConsumedBy(tasks, chans), r.chans)
  <2>1. /\ IsSeq(queue) /\ \A q \in DOMAIN queue : Shaped(queue[q])
        /\ Ordered(DOMAIN ckpts, queue) /\ IdsOf(queue) = IdsOf(saves)
    BY <1>0, TouchedFields, OrderedTouched DEF Ids, Queue
  <2>2. UNCHANGED storage
    BY <1>2 DEF AfterTick
  <2>3. CASE /\ ck' = [ck EXCEPT !.ver = r.ver, !.seen = r.seen] /\ saves' = queue
             /\ UNCHANGED <<cfg, nextId, savedId>>
    <3>1. ck'.id = ck.id
      BY <2>3
    <3> HIDE DEF queue
    <3>2. saves' = queue /\ UNCHANGED <<cfg, nextId, savedId, ckpts>>
      BY <2>2, <2>3
    <3> QED
      BY <1>0, <2>1, <3>1, <3>2 DEF QInv, Ids, Queue, OrderedSaves
  <2>4. CASE PutCheckpoint("loop", r, queue, step, ck.id, cfg)
    <3> HIDE DEF queue, r
    <3>1. IdsOf(queue) \subseteq 1..nextId - 1 /\ cfg \in DOMAIN ckpts \cup {0} \cup IdsOf(queue)
      BY <1>0, <2>1 DEF Ids, Queue
    <3> QED
      BY <2>1, <2>2, <2>4, <3>1, PutKeepsOrder
  <2> QED
    BY <1>2, <2>3, <2>4 DEF AfterTick
<1>3. CASE SaveCheckpoint
  <2> DEFINE h == Head(saves)
  <2>1. /\ saves # <<>> /\ ckpts' = With(ckpts, h.id, StoredForm(h)) /\ saves' = Tail(saves)
        /\ UNCHANGED <<cfg, nextId, ck, savedId>>
    BY <1>3 DEF SaveCheckpoint
  <2>2. /\ IsSeq(saves') /\ \A q \in DOMAIN saves' : Shaped(saves'[q])
        /\ Shaped(h)
    BY <1>0, <2>1, SeqTail DEF Ids
  <2>3. /\ Ordered(DOMAIN ckpts \cup {h.id}, saves') /\ IdsOf(saves) = {h.id} \cup IdsOf(saves')
        /\ h.parent \in DOMAIN ckpts \cup {0}
    BY <1>0, <2>1, OrderedTail DEF Ids, Queue
  <2> DEFINE k == StoredForm(h)
  <2>4. k.id = h.id /\ k.parent = h.parent
    BY <2>2, StoredFields DEF Fields
  <2> HIDE DEF h, k
  <2>5. /\ DOMAIN ckpts' = DOMAIN ckpts \cup {h.id} /\ ckpts'[h.id] = k
        /\ \A id \in DOMAIN ckpts \ {h.id} : ckpts'[id] = ckpts[id]
    BY <2>1 DEF With, k
  <2>6. Ids'
    BY <1>0, <2>1, <2>2, <2>3, <2>4, <2>5 DEF Ids
  <2>7. Queue'
    BY <1>0, <2>1, <2>3, <2>4, <2>5 DEF Queue, OrderedSaves
  <2> QED
    BY <2>6, <2>7 DEF QInv
<1>4. CASE LeaveLoop
  <2>1. UNCHANGED <<ckpts, cfg, nextId, ck, savedId>>
    BY <1>4 DEF LeaveLoop
  <2>2. CASE saves' = saves
    BY <2>1, <2>2, SameOrder
  <2>3. CASE ck.id # savedId /\ saves' = Append(saves, Unsaved(ExitRecord))
    <3> DEFINE e == Unsaved(ExitRecord)
    <3>1. Shaped(e) /\ e.id = ck.id /\ e.parent = cfg
      BY SaveFields DEF ExitRecord, Fields
    <3> HIDE DEF e
    <3>2. /\ Ordered(DOMAIN ckpts, saves') /\ IdsOf(saves') = IdsOf(saves) \cup {ck.id}
      BY <1>0, <2>3, <3>1, OrderedAppend DEF Ids, Queue, e
    <3>3. IsSeq(saves') /\ \A q \in DOMAIN saves' : Shaped(saves'[q])
      BY <1>0, <2>3, <3>1, SeqAppend DEF Ids, e
    <3>4. ck.id \in 1..nextId - 1
      BY <1>0, <2>3 DEF Ids
    <3> QED
      BY <1>0, <2>1, <3>2, <3>3, <3>4 DEF QInv, Ids, Queue, OrderedSaves
  <2> QED
    BY <1>4, <2>2, <2>3 DEF LeaveLoop
<1>5. CASE Close \/ Crash
  <2>1. Forget /\ UNCHANGED <<ckpts, nextId>>
    BY <1>5 DEF Close, Crash
  <2>2. saves' = <<>> /\ ck'.id = 0 /\ cfg' = 0 /\ savedId' = 0
    BY <2>1 DEF Forget
  <2> QED
    BY <1>0, <2>1, <2>2, EmptyQueue DEF QInv, Ids, Queue, OrderedSaves
<1>6. ASSUME NEW k \in DOMAIN tasks, RunTask(k) \/ FailTask(k) PROVE QInv'
  BY <1>6, SameOrder DEF RunTask, FailTask, Commit
<1>7. CASE Tick \/ Panic \/ Flushed \/ SaveWrites \/ RequestDrain \/ UNCHANGED vars
  BY <1>7, SameOrder DEF Tick, Panic, Flushed, SaveWrites, RequestDrain, vars
<1> QED
  BY <1>1, <1>2, <1>3, <1>4, <1>5, <1>6, <1>7 DEF Next, Step

LEMMA OrderInductive == Spec => []QInv
BY InitOrder, OrderStep, PTL DEF Spec

(* Whatever is stored, so is what it was derived from: the saves of the    *)
(* steps wait for one another (_checkpointer_put_after_previous), whatever *)
(* fails, pauses or crashes in between.                                    *)
THEOREM SavesAreOrdered == Spec => []OrderedSaves
<1>1. QInv => OrderedSaves
  BY DEF QInv, Queue
<1> QED
  BY <1>1, OrderInductive, PTL

-------------------------------------------------------------------------------
(* What the checkpoints hold.                                              *)

(* No channel hands out the object it goes on updating: graphs without     *)
(* joins and accumulating topics.                                          *)
NoneShared == \A c \in Chan : ~ SharedWithCheckpoint(c)

(* A record holds versions, and what the channels restored from it would   *)
(* store again.                                                            *)
Sound(rec) ==
  /\ rec.ver \in [Chan -> Nat]
  /\ rec.vals = Snapshot(Restored(rec.vals), rec.ver)
  /\ States(Restored(rec.vals))

(* One record follows another: no version is lower, and a channel of the   *)
(* same version has the same value.                                        *)
Follows(rec, old) ==
  \A c \in Chan : /\ old.ver[c] <= rec.ver[c]
                  /\ old.ver[c] = rec.ver[c] => old.vals[c] = rec.vals[c]

Exact(rec, m) ==
  \A f \in {"ver", "seen", "vals", "step", "source"} : rec[f] = m[rec.id][f]

Present == [ver |-> ck.ver, vals |-> Snapshot(chans, ck.ver)]

(* What waits is what was made, in the order of its ids.                   *)
Waiting(queue, m) ==
  /\ \A q \in DOMAIN queue : /\ queue[q].shared = {} /\ Exact(queue[q], m) /\ Sound(queue[q])
                             /\ \A i \in DOMAIN ckpts : /\ i < queue[q].id
                                                        /\ Follows(queue[q], ckpts[i])
  /\ \A q, r \in DOMAIN queue : q < r => /\ queue[q].id < queue[r].id
                                         /\ Follows(queue[r], queue[q])

LastOf(queue, rec) ==
  /\ \A i \in DOMAIN ckpts : Follows(rec, ckpts[i])
  /\ \A q \in DOMAIN queue : Follows(rec, queue[q])

VInv ==
  /\ durability # "exit"
  /\ DOMAIN made = 1..nextId - 1
  /\ \A i \in DOMAIN ckpts : Exact(ckpts[i], made) /\ Sound(ckpts[i])
  /\ \A i, j \in DOMAIN ckpts : i < j => Follows(ckpts[j], ckpts[i])
  /\ Waiting(saves, made)
  /\ pc \in {"tick", "run", "flush"} =>
       ck.ver \in [Chan -> Nat] /\ States(chans) /\ LastOf(saves, Present)

(* apply_writes gives a channel that changed a version above all others.   *)
LEMMA ApplyFollows ==
  ASSUME NEW ck0, ck0.ver \in [Chan -> Nat], NEW chs, States(chs), NEW ts, NEW extra
  PROVE  LET r == ApplyWrites(ck0, chs, ts, extra)
         IN  /\ r.ver \in [Chan -> Nat] /\ States(r.chans)
             /\ Follows([ver |-> r.ver, vals |-> Snapshot(r.chans, r.ver)],
                        [ver |-> ck0.ver, vals |-> Snapshot(chs, ck0.ver)])
<1> DEFINE r == ApplyWrites(ck0, chs, ts, extra)
<1>1. /\ r.ver \in [Chan -> Nat] /\ States(r.chans)
      /\ \A c \in Chan : /\ ck0.ver[c] <= r.ver[c]
                         /\ \/ r.ver[c] = ck0.ver[c] /\ r.chans[c] = chs[c]
                            \/ \A d \in Chan : ck0.ver[d] < r.ver[c]
  BY ApplyTracks
<1> HIDE DEF r
<1>2. ASSUME NEW c \in Chan
      PROVE  ck0.ver[c] <= r.ver[c] /\ (ck0.ver[c] = r.ver[c] => r.chans[c] = chs[c])
  BY <1>1
<1>3. \A c \in Chan : /\ Snapshot(r.chans, r.ver)[c]
                           = (IF r.ver[c] > 0 THEN Checkpoint(c, r.chans[c]) ELSE {})
                      /\ Snapshot(chs, ck0.ver)[c]
                           = (IF ck0.ver[c] > 0 THEN Checkpoint(c, chs[c]) ELSE {})
  BY DEF Snapshot
<1> QED
  BY <1>1, <1>2, <1>3 DEF Follows, r

LEMMA FollowsTrans ==
  ASSUME NEW a, NEW b, NEW d, Follows(b, a), Follows(d, b),
         a.ver \in [Chan -> Nat], b.ver \in [Chan -> Nat], d.ver \in [Chan -> Nat]
  PROVE  Follows(d, a)
<1> SUFFICES ASSUME NEW c \in Chan
             PROVE  /\ a.ver[c] <= d.ver[c]
                    /\ a.ver[c] = d.ver[c] => a.vals[c] = d.vals[c]
  BY DEF Follows
<1>1. a.ver[c] \in Nat /\ b.ver[c] \in Nat /\ d.ver[c] \in Nat
  OBVIOUS
<1>2. /\ a.ver[c] <= b.ver[c] /\ b.ver[c] <= d.ver[c]
      /\ a.ver[c] = b.ver[c] => a.vals[c] = b.vals[c]
      /\ b.ver[c] = d.ver[c] => b.vals[c] = d.vals[c]
  BY DEF Follows
<1> QED
  BY <1>1, <1>2

(* What is restored from a checkpoint stores the same again.               *)
LEMMA RoundTrip ==
  ASSUME NEW chs, States(chs), NEW ver \in [Chan -> Nat], NEW rec,
         rec.ver = ver, rec.vals = Snapshot(chs, ver)
  PROVE  Sound(rec)
<1> DEFINE vals == Snapshot(chs, ver)
<1>1. ASSUME NEW c \in Chan
      PROVE  /\ vals[c] = (IF ver[c] > 0 THEN Checkpoint(c, chs[c]) ELSE {})
             /\ IsState(chs[c])
             /\ Restored(vals)[c] = FromCheckpoint(c, vals[c])
  BY DEF Snapshot, States, Restored
<1>2. vals = [c \in Chan |-> vals[c]] /\ Restored(vals) = [c \in Chan |-> Restored(vals)[c]]
  BY DEF Snapshot, Restored
<1>3. Snapshot(Restored(vals), ver) = [c \in Chan |-> IF ver[c] > 0 THEN Checkpoint(c, Restored(vals)[c]) ELSE {}]
  BY DEF Snapshot
<1> HIDE DEF vals
<1>4. ASSUME NEW c \in Chan PROVE IsState(Fresh(c))
  BY DEF IsState, Fresh
<1>5. ASSUME NEW c \in Chan, NEW s
      PROVE  /\ FromCheckpoint(c, {}) = Fresh(c)
             /\ Kind[c] # "Untracked" => FromCheckpoint(c, {s}) = s
  BY DEF FromCheckpoint
<1>6. ASSUME NEW c \in Chan, ver[c] > 0
      PROVE  /\ Checkpoint(c, Restored(vals)[c]) = vals[c]
             /\ IsState(Restored(vals)[c])
  <2>1. CASE vals[c] = {}
    <3>1. Kind[c] \in {"Untracked", "Delta"} \/ Kind[c] \in SingleValue
      BY <1>1, <1>6, <2>1 DEF Checkpoint
    <3>2. Checkpoint(c, Fresh(c)) = {}
      BY <3>1 DEF Checkpoint, Fresh, SingleValue, Barriers
    <3>3. Restored(vals)[c] = Fresh(c)
      BY <1>1, <1>5, <2>1
    <3> QED
      BY <1>4, <2>1, <3>2, <3>3
  <2>2. CASE vals[c] = {chs[c]} /\ Kind[c] # "Untracked" /\ vals[c] = Checkpoint(c, chs[c])
    BY <1>1, <1>5, <2>2
  <2> QED
    BY <1>1, <1>6, <2>1, <2>2 DEF Checkpoint
<1>7. ASSUME NEW c \in Chan, ~ (ver[c] > 0)
      PROVE  vals[c] = {} /\ IsState(Restored(vals)[c])
  <2>1. vals[c] = {}
    BY <1>1, <1>7
  <2>2. Restored(vals)[c] = Fresh(c)
    BY <1>1, <1>5, <2>1
  <2> QED
    BY <1>4, <2>1, <2>2
<1>8. \A c \in Chan : /\ (IF ver[c] > 0 THEN Checkpoint(c, Restored(vals)[c]) ELSE {}) = vals[c]
                      /\ IsState(Restored(vals)[c])
  BY <1>6, <1>7
<1>9. Snapshot(Restored(vals), ver) = vals
  BY <1>2, <1>3, <1>8
<1> QED
  BY <1>2, <1>8, <1>9 DEF Sound, States, vals

(* Only versions and values matter to these.                               *)
LEMMA SameRecord ==
  ASSUME NEW a, NEW b, a.ver = b.ver, a.vals = b.vals, NEW d
  PROVE  /\ Sound(a) => Sound(b)
         /\ Follows(d, a) => Follows(d, b)
         /\ Follows(a, d) => Follows(b, d)
BY DEF Sound, Follows

(* With nothing shared, a superstep leaves what waits as it is.            *)
LEMMA WaitingTouched ==
  ASSUME NEW queue, IsSeq(queue), \A q \in DOMAIN queue : Shaped(queue[q]),
         NEW m, Waiting(queue, m), NEW consumed, NEW new
  PROVE  LET t == Touched(queue, consumed, new)
         IN  /\ Waiting(t, m)
             /\ \A rec : LastOf(queue, rec) => LastOf(t, rec)
<1> DEFINE t == Touched(queue, consumed, new)
<1>1. DOMAIN t = DOMAIN queue
  BY TouchedFields
<1>2. ASSUME NEW q \in DOMAIN queue
      PROVE  /\ \A f \in {"id", "ver", "seen", "step", "source"} : t[q][f] = queue[q][f]
             /\ t[q].shared = {} /\ t[q].vals = queue[q].vals
  <2>1. \A f \in {"id", "ver", "seen", "step", "source"} : t[q][f] = queue[q][f]
    BY TouchedFields DEF Fields
  <2>2. queue[q].shared = {} /\ queue[q].vals = [c \in Chan |-> queue[q].vals[c]]
    BY DEF Waiting, Sound, Snapshot
  <2>3. "shared" \in DOMAIN queue[q] /\ "vals" \in DOMAIN queue[q]
    BY DEF Shaped, Fields
  <2>4. t[q].shared = {} /\ t[q].vals = [c \in Chan |-> queue[q].vals[c]]
    BY <2>2, <2>3 DEF Touched
  <2> QED
    BY <2>1, <2>2, <2>4
<1> HIDE DEF t
<1>3. \A q \in DOMAIN queue :
        /\ t[q].id = queue[q].id /\ t[q].ver = queue[q].ver /\ t[q].vals = queue[q].vals
  BY <1>2
<1>4. \A q \in DOMAIN queue : Exact(t[q], m)
  BY <1>2, <1>3 DEF Waiting, Exact
<1>5. \A q \in DOMAIN queue : Sound(t[q]) /\ \A d : /\ Follows(queue[q], d) => Follows(t[q], d)
                                                    /\ Follows(d, queue[q]) => Follows(d, t[q])
  BY <1>3, SameRecord DEF Waiting
<1>6. Waiting(t, m)
  BY <1>1, <1>2, <1>3, <1>4, <1>5 DEF Waiting
<1>7. \A rec : LastOf(queue, rec) => LastOf(t, rec)
  BY <1>1, <1>5 DEF LastOf
<1> QED
  BY <1>6, <1>7 DEF t

(* What comes after the last record comes after all.                       *)
LEMMA LastTrans ==
  ASSUME VInv, NEW queue, NEW m, Waiting(queue, m), NEW a, NEW b, LastOf(queue, a), Follows(b, a),
         a.ver \in [Chan -> Nat], b.ver \in [Chan -> Nat]
  PROVE  LastOf(queue, b)
<1>1. ASSUME NEW i \in DOMAIN ckpts PROVE Follows(b, ckpts[i])
  <2>1. ckpts[i].ver \in [Chan -> Nat] /\ Follows(a, ckpts[i])
    BY DEF VInv, Sound, LastOf
  <2> QED
    BY <2>1, FollowsTrans
<1>2. ASSUME NEW q \in DOMAIN queue PROVE Follows(b, queue[q])
  <2>1. queue[q].ver \in [Chan -> Nat] /\ Follows(a, queue[q])
    BY DEF Waiting, Sound, LastOf
  <2> QED
    BY <2>1, FollowsTrans
<1> QED
  BY <1>1, <1>2 DEF LastOf

LEMMA WaitingEmpty == (\A m : Waiting(<<>>, m)) /\ \A rec : LastOf(<<>>, rec) <=> \A i \in DOMAIN ckpts : Follows(rec, ckpts[i])
BY EmptyQueue DEF Waiting, LastOf

(* Submitting the record that comes last.                                  *)
LEMMA WaitingAppend ==
  ASSUME NEW queue, IsSeq(queue), NEW m, Waiting(queue, m), NEW e, e.shared = {}, Exact(e, m), Sound(e),
         LastOf(queue, e), \A i \in DOMAIN ckpts : i < e.id,
         \A q \in DOMAIN queue : queue[q].id < e.id
  PROVE  Waiting(Append(queue, e), m) /\ \A rec : LastOf(queue, rec) /\ Follows(rec, e)
                                                 => LastOf(Append(queue, e), rec)
<1> DEFINE s == Append(queue, e)
           n == Len(queue)
<1>1. /\ n \in Nat /\ DOMAIN queue = 1..n /\ DOMAIN s = 1..n + 1
      /\ \A i \in DOMAIN queue : s[i] = queue[i]
      /\ s[n + 1] = e
  BY SeqAppend
<1> HIDE DEF s, n
<1>2. \A q \in DOMAIN s : q \in DOMAIN queue \/ q = n + 1
  BY <1>1
<1>3. \A q, r \in DOMAIN s : q < r => q \in DOMAIN queue
  BY <1>1
<1>4. \A q \in DOMAIN s : /\ s[q].shared = {} /\ Exact(s[q], m) /\ Sound(s[q])
                          /\ \A i \in DOMAIN ckpts : i < s[q].id /\ Follows(s[q], ckpts[i])
  BY <1>1, <1>2 DEF Waiting, LastOf
<1>5. \A q, r \in DOMAIN s : q < r => s[q].id < s[r].id /\ Follows(s[r], s[q])
  BY <1>1, <1>2, <1>3 DEF Waiting, LastOf
<1>6. \A rec : LastOf(queue, rec) /\ Follows(rec, e) => LastOf(s, rec)
  BY <1>1, <1>2 DEF LastOf
<1> QED
  BY <1>4, <1>5, <1>6 DEF Waiting, s

LEMMA FollowsItself == \A rec : rec.ver \in [Chan -> Nat] => Follows(rec, rec)
<1> SUFFICES ASSUME NEW rec, rec.ver \in [Chan -> Nat], NEW c \in Chan PROVE rec.ver[c] <= rec.ver[c]
  BY DEF Follows
<1>1. rec.ver[c] \in Nat
  OBVIOUS
<1> QED
  BY <1>1

(* The latest checkpoint comes after all that are stored.                  *)
LEMMA LatestSound ==
  ASSUME Ids, VInv
  PROVE  Sound(Latest) /\ \A i \in DOMAIN ckpts : Follows(Latest, ckpts[i])
<1>1. CASE DOMAIN ckpts = {} /\ Latest = EmptyCheckpoint
  <2> DEFINE rec == EmptyCheckpoint
  <2>1. rec.ver = [c \in Chan |-> 0] /\ rec.vals = [c \in Chan |-> {}]
    BY DEF EmptyCheckpoint, NullVersions
  <2> HIDE DEF rec
  <2>2. Restored(rec.vals) = [c \in Chan |-> Fresh(c)]
    BY <2>1 DEF Restored, FromCheckpoint
  <2>3. \A c \in Chan : IsState(Fresh(c))
    BY DEF IsState, Fresh
  <2>4. States(Restored(rec.vals))
    BY <2>2, <2>3 DEF States
  <2>5. Snapshot(Restored(rec.vals), rec.ver) = rec.vals
    BY <2>1 DEF Snapshot
  <2> QED
    BY <1>1, <2>1, <2>4, <2>5 DEF Sound, rec
<1>2. CASE /\ Latest.id \in DOMAIN ckpts /\ Latest = ckpts[Latest.id]
           /\ \A id \in DOMAIN ckpts : id <= Latest.id
  <2>1. Sound(Latest)
    BY <1>2 DEF VInv
  <2>2. ASSUME NEW i \in DOMAIN ckpts PROVE Follows(Latest, ckpts[i])
    <3>1. i = Latest.id \/ i < Latest.id
      <4>1. i \in Int /\ Latest.id \in Int /\ i <= Latest.id
        BY <1>2 DEF Ids
      <4> QED
        BY <4>1
    <3>2. CASE i = Latest.id
      BY <1>2, <2>1, <3>2, FollowsItself DEF Sound
    <3>3. CASE i < Latest.id
      BY <1>2, <3>3 DEF VInv
    <3> QED
      BY <3>1, <3>2, <3>3
  <2> QED
    BY <2>1, <2>2
<1> QED
  BY <1>1, <1>2, LatestFacts

(* What an invocation starts with comes after the latest checkpoint.       *)
Starts(r) ==
  /\ r.ver \in [Chan -> Nat] /\ States(r.chans)
  /\ Follows([ver |-> r.ver, vals |-> Snapshot(r.chans, r.ver)], Latest)

LEMMA InvokeStarts ==
  ASSUME NEW req, NEW d, Invoke(req, d), Sound(Latest)
  PROVE  \E r : /\ Starts(r) /\ chans' = r.chans
                /\ \/ ck'.ver = r.ver /\ saves' = <<>> /\ UNCHANGED <<nextId, made>>
                   \/ PutCheckpoint("input", r, <<>>, Latest.step + 1, Latest.id, Latest.id)
<1> DEFINE base    == Latest
           loaded  == PendingWrites(base.id)
           cmd     == CommandWrites(req, invocations + 1)
           old     == IF NullTask \in DOMAIN loaded THEN loaded[NullTask] ELSE <<>>
           null    == IF cmd = <<>> THEN old ELSE Selected(old, {w \in ToSet(old) : IsData(w)}) \o cmd
           ck0     == [id |-> base.id, ver |-> base.ver, seen |-> base.seen]
           chans0  == Restored(base.vals)
           none    == [ver |-> ck0.ver, seen |-> ck0.seen, chans |-> chans0, updated |-> {}]
           r       == IF null = <<>> THEN none ELSE ApplyWrites(ck0, chans0, <<>>, null)
           ck1     == [ck0 EXCEPT !.ver = r.ver, !.seen = r.seen]
           discard == PrepareNextTasks(ck1, r.chans, {})
           input   == ApplyWrites(ck1, r.chans, discard, <<Write(START, ClientId(invocations + 1))>>)
<1>1. \/ /\ ck' = [id |-> base.id, ver |-> r.ver, seen |-> With(r.seen, INTERRUPT, r.ver)]
         /\ cfg' = base.id /\ saves' = <<>> /\ chans' = r.chans
         /\ UNCHANGED <<nextId, made>>
      \/ /\ PutCheckpoint("input", input, <<>>, base.step + 1, base.id, base.id)
         /\ chans' = input.chans
  BY Zenon DEF Invoke
<1> HIDE DEF null
<1>2. Starts(r)
  <2>1. /\ Latest.ver \in [Chan -> Nat] /\ States(chans0)
        /\ Snapshot(chans0, Latest.ver) = Latest.vals
    BY DEF Sound
  <2>2. CASE null = <<>>
    <3>1. r.ver = Latest.ver /\ r.chans = chans0
      BY <2>2
    <3> DEFINE rec == [ver |-> r.ver, vals |-> Snapshot(r.chans, r.ver)]
    <3>2. rec.ver = Latest.ver /\ rec.vals = Latest.vals
      BY <2>1, <3>1
    <3>3. Follows(Latest, Latest)
      BY <2>1, FollowsItself
    <3> HIDE DEF rec, r
    <3>4. Follows(rec, Latest)
      BY <3>2, <3>3 DEF Follows
    <3> QED
      BY <2>1, <3>1, <3>4 DEF Starts, rec
  <2>3. CASE null # <<>>
    <3> HIDE DEF chans0
    <3>1. r = ApplyWrites(ck0, chans0, <<>>, null) /\ ck0.ver = Latest.ver
      BY <2>3
    <3> HIDE DEF ck0, r
    <3>2. /\ r.ver \in [Chan -> Nat] /\ States(r.chans)
          /\ Follows([ver |-> r.ver, vals |-> Snapshot(r.chans, r.ver)],
                     [ver |-> ck0.ver, vals |-> Snapshot(chans0, ck0.ver)])
      BY <2>1, <3>1, ApplyFollows
    <3> QED
      BY <2>1, <3>1, <3>2 DEF Starts, Follows
  <2> QED
    BY <2>2, <2>3
<1> HIDE DEF r, ck0
<1>3. Starts(input)
  <2>1. ck1.ver = r.ver
    BY DEF ck0
  <2> HIDE DEF ck1, discard
  <2>2. /\ r.ver \in [Chan -> Nat] /\ States(r.chans)
        /\ Follows([ver |-> r.ver, vals |-> Snapshot(r.chans, r.ver)], Latest)
    BY <1>2 DEF Starts
  <2>3. /\ input.ver \in [Chan -> Nat] /\ States(input.chans)
        /\ Follows([ver |-> input.ver, vals |-> Snapshot(input.chans, input.ver)],
                   [ver |-> ck1.ver, vals |-> Snapshot(r.chans, ck1.ver)])
    BY <2>1, <2>2, ApplyFollows
  <2> HIDE DEF input
  <2> DEFINE a == [ver |-> r.ver, vals |-> Snapshot(r.chans, r.ver)]
             b == [ver |-> input.ver, vals |-> Snapshot(input.chans, input.ver)]
  <2>4. Follows(a, Latest) /\ Follows(b, a) /\ a.ver = r.ver /\ b.ver = input.ver
    BY <2>1, <2>2, <2>3
  <2> HIDE DEF a, b
  <2>5. Follows(b, Latest)
    <3>1. Latest.ver \in [Chan -> Nat]
      BY DEF Sound
    <3> QED
      BY <2>2, <2>3, <2>4, <3>1, FollowsTrans
  <2> QED
    BY <2>3, <2>5 DEF Starts, b
<1> HIDE DEF input
<1> QED
  BY <1>1, <1>2, <1>3

(* A new checkpoint goes to the end of the queue, and holds what the loop  *)
(* holds.                                                                  *)
LEMMA PutFollows ==
  ASSUME NoneShared, Ids, VInv, durability' # "exit",
         NEW src, NEW r, NEW queue, NEW s, NEW prev, NEW parent,
         PutCheckpoint(src, r, queue, s, prev, parent), ckpts' = ckpts, chans' = r.chans,
         r.ver \in [Chan -> Nat], States(r.chans), IsSeq(queue),
         IdsOf(queue) \subseteq 1..nextId - 1, Waiting(queue, made),
         LastOf(queue, [ver |-> r.ver, vals |-> Snapshot(r.chans, r.ver)])
  PROVE  VInv'
<1> DEFINE rec  == Record(nextId, r.ver, r.seen, r.updated, r.chans, s, src, parent)
           e    == Unsaved(rec)
           kept == [rec EXCEPT !.parent = prev]
           now  == [ver |-> r.ver, vals |-> Snapshot(r.chans, r.ver)]
           m    == made'
<1>1. /\ nextId \in Nat \ {0} /\ nextId' = nextId + 1 /\ ck'.ver = r.ver
      /\ saves' = Append(queue, e) /\ m = With(made, nextId, kept)
  BY DEF PutCheckpoint, Ids
<1>2. /\ \A f \in Fields : e[f] = rec[f]
      /\ e.shared = Shared(r.ver) /\ rec.id = nextId /\ rec.ver = r.ver
      /\ rec.vals = Snapshot(r.chans, r.ver)
  BY SaveFields
<1>3. \A f \in {"ver", "seen", "vals", "step", "source"} : kept[f] = rec[f]
  BY DEF Record
<1>4. Shared(r.ver) = {}
  BY DEF NoneShared, Shared
<1>5. /\ now.ver = r.ver /\ now.vals = Snapshot(r.chans, r.ver)
  OBVIOUS
<1> HIDE DEF now
<1>6. Sound(now)
  BY <1>5, RoundTrip
<1> HIDE DEF rec, kept, m
<1>7. /\ DOMAIN m = 1..nextId' - 1 /\ m[nextId] = kept
      /\ \A i \in 1..nextId - 1 : m[i] = made[i]
  BY <1>1 DEF VInv, With
<1>8. /\ e.id = nextId /\ e.shared = {} /\ e.ver = now.ver /\ e.vals = now.vals
      /\ \A f \in {"ver", "seen", "vals", "step", "source"} : e[f] = kept[f]
  BY <1>2, <1>3, <1>4, <1>5 DEF Fields
<1> HIDE DEF e
<1>9. Exact(e, m)
  BY <1>7, <1>8 DEF Exact
<1>10. /\ Sound(e) /\ \A d : Follows(now, d) => Follows(e, d)
  BY <1>6, <1>8, SameRecord
<1>11. Waiting(queue, m)
  <2>1. \A q \in DOMAIN queue : queue[q].id \in 1..nextId - 1
    BY DEF IdsOf
  <2>2. \A q \in DOMAIN queue : Exact(queue[q], m)
    BY <1>7, <2>1 DEF Waiting, Exact
  <2> QED
    BY <2>2 DEF Waiting
<1>12. LastOf(queue, now) /\ LastOf(queue, e)
  BY <1>10 DEF LastOf, now
<1>13. /\ \A i \in DOMAIN ckpts : i < e.id
       /\ \A q \in DOMAIN queue : queue[q].id < e.id
  <2>1. \A i \in 1..nextId - 1 : i < nextId
    BY <1>1
  <2> QED
    BY <1>8, <2>1 DEF Ids, IdsOf
<1>14. Follows(now, e)
  <2>1. Follows(now, now)
    BY <1>6, FollowsItself DEF Sound
  <2> QED
    BY <1>8, <2>1 DEF Follows
<1>15. Waiting(Append(queue, e), m) /\ LastOf(Append(queue, e), now)
  BY <1>8, <1>9, <1>10, <1>11, <1>12, <1>13, <1>14, WaitingAppend
<1>16. \A i \in DOMAIN ckpts' : Exact(ckpts'[i], m) /\ Sound(ckpts'[i])
  <2>1. \A i \in DOMAIN ckpts : ckpts[i].id \in 1..nextId - 1
    BY DEF Ids
  <2> QED
    BY <1>7, <2>1 DEF VInv, Exact
<1>17. \A i, j \in DOMAIN ckpts' : i < j => Follows(ckpts'[j], ckpts'[i])
  BY DEF VInv
<1>18. Waiting(saves, made)'
  BY <1>1, <1>15 DEF Waiting, m
<1>19. LastOf(saves, Present)'
  BY <1>1, <1>15 DEF LastOf, Present, now
<1>20. ck'.ver \in [Chan -> Nat] /\ States(chans')
  BY <1>1
<1> QED
  BY <1>7, <1>16, <1>17, <1>18, <1>19, <1>20 DEF VInv, m

(* What most steps leave alone.                                            *)
LEMMA SameHoldings ==
  ASSUME VInv, UNCHANGED <<ckpts, saves, made, nextId, chans, durability>>, ck'.ver = ck.ver,
         pc' \in {"tick", "run", "flush"} => pc \in {"tick", "run", "flush"}
  PROVE  VInv'
BY DEF VInv, Waiting, LastOf, Present

(* A new thread.                                                           *)
LEMMA VInit == Init => VInv
<1> SUFFICES ASSUME Init PROVE VInv
  OBVIOUS
<1>1. /\ DOMAIN ckpts = {} /\ saves = <<>> /\ nextId = 1 /\ pc = "idle" /\ durability = "none"
      /\ DOMAIN made = {}
  BY DEF Init
<1>2. 1..nextId - 1 = {}
  BY <1>1
<1> QED
  BY <1>1, <1>2, WaitingEmpty DEF VInv

(* Every step of the loop.                                                 *)
LEMMA VStep ==
  ASSUME NoneShared, "exit" \notin Durabilities, QInv, VInv, [Next]_vars
  PROVE  VInv'
<1> USE DEF storage, loop, background, counters, observers
<1>0. Ids
  BY DEF QInv
<1>1. ASSUME NEW req \in Requests, NEW d \in Durabilities, Invoke(req, d) PROVE VInv'
  <2>1. Sound(Latest) /\ \A i \in DOMAIN ckpts : Follows(Latest, ckpts[i])
    BY <1>0, LatestSound
  <2>2. PICK r : /\ Starts(r) /\ chans' = r.chans
                 /\ \/ ck'.ver = r.ver /\ saves' = <<>> /\ UNCHANGED <<nextId, made>>
                    \/ PutCheckpoint("input", r, <<>>, Latest.step + 1, Latest.id, Latest.id)
    BY <1>1, <2>1, InvokeStarts
  <2>3. durability' # "exit" /\ ckpts' = ckpts
    BY <1>1, InvokeFacts
  <2> DEFINE now == [ver |-> r.ver, vals |-> Snapshot(r.chans, r.ver)]
  <2>4. r.ver \in [Chan -> Nat] /\ States(r.chans) /\ Follows(now, Latest) /\ now.ver = r.ver
    BY <2>2 DEF Starts
  <2> HIDE DEF now
  <2>5. \A i \in DOMAIN ckpts : Follows(now, ckpts[i])
    <3>1. Latest.ver \in [Chan -> Nat] /\ \A i \in DOMAIN ckpts : ckpts[i].ver \in [Chan -> Nat]
      BY <2>1 DEF VInv, Sound
    <3> QED
      BY <2>1, <2>4, <3>1, FollowsTrans
  <2>6. Waiting(<<>>, made) /\ LastOf(<<>>, now)
    BY <2>5, WaitingEmpty
  <2>7. CASE ck'.ver = r.ver /\ saves' = <<>> /\ UNCHANGED <<nextId, made>>
    <3>1. Waiting(saves, made)'
      BY <2>7, EmptyQueue DEF Waiting
    <3>2. LastOf(saves, Present)'
      BY <2>2, <2>3, <2>5, <2>7, EmptyQueue DEF LastOf, Present, now
    <3> QED
      BY <2>2, <2>3, <2>4, <2>7, <3>1, <3>2 DEF VInv
  <2>8. CASE PutCheckpoint("input", r, <<>>, Latest.step + 1, Latest.id, Latest.id)
    BY <1>0, <2>2, <2>3, <2>4, <2>6, <2>8, EmptyQueue, PutFollows DEF now
  <2> QED
    BY <2>2, <2>7, <2>8
<1>2. CASE AfterTick
  <2> DEFINE r     == ApplyWrites(ck, chans, tasks, <<>>)
             queue == Touched(saves, ConsumedBy(tasks, chans), r.chans)
             now   == [ver |-> r.ver, vals |-> Snapshot(r.chans, r.ver)]
  <2>1. /\ pc = "run" /\ ckpts' = ckpts /\ UNCHANGED durability /\ chans' = r.chans
    BY <1>2 DEF AfterTick, CanProceed
  <2>2. ck.ver \in [Chan -> Nat] /\ States(chans) /\ LastOf(saves, Present)
    BY <2>1 DEF VInv
  <2>3. r.ver \in [Chan -> Nat] /\ States(r.chans) /\ Follows(now, Present)
    BY <2>2, ApplyFollows DEF Present
  <2>4. now.ver = r.ver /\ Present.ver = ck.ver
    BY DEF Present
  <2>5. IsSeq(saves) /\ (\A q \in DOMAIN saves : Shaped(saves[q])) /\ Waiting(saves, made)
    BY <1>0 DEF VInv, Ids
  <2>6. /\ IsSeq(queue) /\ IdsOf(queue) = IdsOf(saves) /\ Waiting(queue, made)
        /\ \A rec : LastOf(saves, rec) => LastOf(queue, rec)
    <3>1. IsSeq(queue) /\ DOMAIN queue = DOMAIN saves /\ \A q \in DOMAIN saves : queue[q].id = saves[q].id
      BY <2>5, TouchedFields DEF Fields
    <3>2. IdsOf(queue) = IdsOf(saves)
      BY <3>1 DEF IdsOf
    <3> QED
      BY <2>5, <3>1, <3>2, WaitingTouched
  <2>7. CASE /\ ck' = [ck EXCEPT !.ver = r.ver, !.seen = r.seen] /\ saves' = queue
             /\ Leave("error") /\ UNCHANGED <<nextId, made>>
    <3> HIDE DEF queue, r
    <3>1. Waiting(saves, made)'
      BY <2>1, <2>6, <2>7 DEF Waiting
    <3>2. pc' = "exit"
      BY <2>7 DEF Leave
    <3> QED
      BY <2>1, <2>7, <3>1, <3>2 DEF VInv
  <2>8. CASE PutCheckpoint("loop", r, queue, step, ck.id, cfg)
    <3> HIDE DEF queue, r, now
    <3>1. LastOf(saves, now)
      BY <2>2, <2>3, <2>4, <2>5, LastTrans
    <3>2. LastOf(queue, now) /\ IdsOf(queue) \subseteq 1..nextId - 1 /\ durability' # "exit"
      BY <1>0, <2>1, <2>6, <3>1 DEF Ids, VInv
    <3> QED
      BY <1>0, <2>1, <2>3, <2>6, <2>8, <3>2, PutFollows DEF now
  <2> QED
    BY <1>2, <2>7, <2>8 DEF AfterTick
<1>3. CASE SaveCheckpoint
  <2> DEFINE h == Head(saves)
             k == StoredForm(h)
             t == Tail(saves)
  <2>1. /\ saves # <<>> /\ ckpts' = With(ckpts, h.id, k) /\ saves' = t
        /\ UNCHANGED <<nextId, ck, chans, made, durability, pc>>
    BY <1>3 DEF SaveCheckpoint
  <2>2. /\ Len(saves) \in Nat \ {0} /\ DOMAIN saves = 1..Len(saves)
        /\ h = saves[1] /\ DOMAIN t = 1..Len(saves) - 1
        /\ \A i \in DOMAIN t : t[i] = saves[i + 1] /\ i + 1 \in DOMAIN saves
    BY <1>0, <2>1, SeqTail DEF Ids
  <2>3. 1 \in DOMAIN saves /\ Shaped(h)
    BY <1>0, <2>2 DEF Ids
  <2>4. Waiting(saves, made)
    BY DEF VInv
  <2>5. /\ Exact(h, made) /\ Sound(h) /\ \A i \in DOMAIN ckpts : i < h.id /\ Follows(h, ckpts[i])
    BY <2>2, <2>3, <2>4 DEF Waiting
  <2>6. \A f \in Fields : k[f] = h[f]
    BY <2>3, StoredFields
  <2> HIDE DEF h, k, t
  <2>7. k.id = h.id /\ k.ver = h.ver /\ k.vals = h.vals /\ Exact(k, made)
    BY <2>5, <2>6 DEF Fields, Exact
  <2>8. /\ Sound(k) /\ \A d : (Follows(h, d) => Follows(k, d)) /\ (Follows(d, h) => Follows(d, k))
    BY <2>5, <2>7, SameRecord
  <2>9. h.id \in Nat /\ \A i \in DOMAIN ckpts : i \in Nat /\ i # h.id
    <3>1. h.id \in 1..nextId - 1 /\ \A i \in DOMAIN ckpts : i \in 1..nextId - 1
      BY <1>0, <2>2, <2>3 DEF Ids, IdsOf
    <3>2. nextId \in Nat
      BY <1>0 DEF Ids
    <3>3. h.id \in Nat /\ \A i \in DOMAIN ckpts : i \in Nat
      BY <3>1, <3>2
    <3> QED
      BY <2>5, <3>3
  <2>10. /\ DOMAIN ckpts' = DOMAIN ckpts \cup {h.id} /\ ckpts'[h.id] = k
         /\ \A i \in DOMAIN ckpts : ckpts'[i] = ckpts[i]
    BY <2>1, <2>9 DEF With
  <2>11. \A i \in DOMAIN ckpts' : Exact(ckpts'[i], made) /\ Sound(ckpts'[i])
    BY <2>7, <2>8, <2>10 DEF VInv
  <2>12. ASSUME NEW i \in DOMAIN ckpts', NEW j \in DOMAIN ckpts', i < j
         PROVE  Follows(ckpts'[j], ckpts'[i])
    <3>1. i \in DOMAIN ckpts
      <4>1. i \in Nat /\ j \in Nat /\ h.id \in Nat
        BY <2>9, <2>10
      <4>2. CASE i = h.id
        <5>1. j = h.id \/ j < h.id
          BY <2>5, <2>10
        <5> QED
          BY <2>12, <4>1, <4>2, <5>1
      <4> QED
        BY <2>10, <4>2
    <3>2. CASE j \in DOMAIN ckpts
      BY <2>10, <2>12, <3>1, <3>2 DEF VInv
    <3>3. CASE j = h.id
      BY <2>5, <2>8, <2>10, <3>1, <3>3
    <3> QED
      BY <2>10, <3>2, <3>3
  <2>13. ASSUME NEW q \in DOMAIN t
         PROVE  /\ t[q].shared = {} /\ Exact(t[q], made) /\ Sound(t[q])
                /\ \A i \in DOMAIN ckpts' : i < t[q].id /\ Follows(t[q], ckpts'[i])
    <3>1. t[q] = saves[q + 1] /\ q + 1 \in DOMAIN saves /\ 1 < q + 1
      BY <2>2
    <3>2. /\ t[q].shared = {} /\ Exact(t[q], made) /\ Sound(t[q])
          /\ \A i \in DOMAIN ckpts : i < t[q].id /\ Follows(t[q], ckpts[i])
      BY <2>4, <3>1 DEF Waiting
    <3>3. h.id < t[q].id /\ Follows(t[q], h)
      BY <2>2, <2>3, <2>4, <3>1 DEF Waiting
    <3> QED
      BY <2>8, <2>10, <3>2, <3>3
  <2>14. ASSUME NEW q \in DOMAIN t, NEW r \in DOMAIN t, q < r
         PROVE  t[q].id < t[r].id /\ Follows(t[r], t[q])
    <3>1. /\ t[q] = saves[q + 1] /\ q + 1 \in DOMAIN saves /\ t[r] = saves[r + 1]
          /\ r + 1 \in DOMAIN saves /\ q + 1 < r + 1
      BY <2>2, <2>14
    <3> QED
      BY <2>4, <3>1 DEF Waiting
  <2>15. Waiting(saves, made)'
    BY <2>1, <2>13, <2>14 DEF Waiting
  <2>16. ASSUME NEW rec, LastOf(saves, rec)
         PROVE  /\ \A i \in DOMAIN ckpts' : Follows(rec, ckpts'[i])
                /\ \A q \in DOMAIN t : Follows(rec, t[q])
    <3>1. /\ \A i \in DOMAIN ckpts : Follows(rec, ckpts[i])
          /\ \A q \in DOMAIN saves : Follows(rec, saves[q])
      BY <2>16 DEF LastOf
    <3> QED
      BY <2>2, <2>3, <2>8, <2>10, <3>1
  <2>17. pc \in {"tick", "run", "flush"} =>
           ck.ver \in [Chan -> Nat] /\ States(chans) /\ LastOf(saves, Present)'
    BY <2>1, <2>16 DEF VInv, LastOf, Present
  <2> QED
    BY <2>1, <2>11, <2>12, <2>15, <2>17 DEF VInv
<1>4. CASE LeaveLoop
  <2>1. durability # "exit"
    BY DEF VInv
  <2> QED
    BY <1>4, <2>1, SameHoldings DEF LeaveLoop
<1>5. CASE Close \/ Crash
  <2>1. Forget /\ UNCHANGED <<ckpts, made, nextId>> /\ pc' = "idle"
    BY <1>5 DEF Close, Crash
  <2>2. saves' = <<>> /\ durability' = "none"
    BY <2>1 DEF Forget
  <2>3. Waiting(saves, made)'
    BY <2>2, EmptyQueue DEF Waiting
  <2> QED
    BY <2>1, <2>2, <2>3 DEF VInv
<1>6. ASSUME NEW k \in DOMAIN tasks, RunTask(k) \/ FailTask(k) PROVE VInv'
  BY <1>6, SameHoldings DEF RunTask, FailTask, Commit
<1>7. CASE Tick
  BY <1>7, SameHoldings DEF Tick
<1>8. CASE Panic \/ Flushed \/ SaveWrites \/ RequestDrain \/ UNCHANGED vars
  BY <1>8, SameHoldings DEF Panic, Leave, Flushed, CanGoOn, SaveWrites, RequestDrain, vars
<1> QED
  BY <1>1, <1>2, <1>3, <1>4, <1>5, <1>6, <1>7, <1>8 DEF Next, Step

(* The invariant holds.                                                    *)
LEMMA HoldingsInductive ==
  ASSUME NoneShared, "exit" \notin Durabilities
  PROVE  Spec => []VInv
<1>1. QInv /\ VInv /\ [Next]_vars => VInv'
  BY VStep
<1> QED
  BY <1>1, VInit, OrderInductive, PTL DEF Spec

(* Where no channel hands out the object it goes on updating, every stored *)
(* checkpoint is the one that was made: no later superstep shows through a *)
(* save that is still waiting, whatever fails or crashes (create_checkpoint*)
(* and _checkpointer_put_after_previous).  Both hypotheses are needed: a   *)
(* waiting save of a join stores names of the next step, and with "exit" a *)
(* step that a channel rejected is stored half applied.                    *)
THEOREM SnapshotsAreExact ==
  ASSUME NoneShared, "exit" \notin Durabilities
  PROVE  Spec => []SnapshotExact
<1>1. Ids /\ VInv => SnapshotExact
  <2> SUFFICES ASSUME VInv, Ids, NEW i \in DOMAIN ckpts
      PROVE  \A f \in {"ver", "seen", "vals", "step", "source"} : ckpts[i][f] = made[i][f]
    BY DEF SnapshotExact
  <2> QED
    BY DEF VInv, Exact, Ids
<1> QED
  BY <1>1, HoldingsInductive, OrderInductive, PTL DEF QInv

(* A version names one value of its channel in all that is stored, so that *)
(* the savers may store a value once per version: apply_writes gives every *)
(* channel that changed a version above all others, also in the invocation *)
(* that follows a crash (get_new_channel_versions).                        *)
THEOREM VersionsNameValues ==
  ASSUME NoneShared, "exit" \notin Durabilities
  PROVE  Spec => []VersionsIdentifyValues
<1>1. Ids /\ VInv => VersionsIdentifyValues
  <2> SUFFICES ASSUME Ids, VInv, NEW i \in DOMAIN ckpts, NEW j \in DOMAIN ckpts, NEW c \in Chan,
                      ckpts[i].ver[c] = ckpts[j].ver[c]
               PROVE  ckpts[i].vals[c] = ckpts[j].vals[c]
    BY DEF VersionsIdentifyValues
  <2>1. i < j \/ j < i \/ i = j
    <3>1. i \in Int /\ j \in Int
      BY DEF Ids
    <3> QED
      BY <3>1
  <2> QED
    BY <2>1 DEF VInv, Follows
<1> QED
  BY <1>1, HoldingsInductive, OrderInductive, PTL DEF QInv
-------------------------------------------------------------------------------
(* Types: what the records, the channels and the tasks of a thread hold.   *)

(* Nodes that fail write nothing to the log before they do.                *)
Quiet == \A n \in Node : \A out \in Partial[n] : \A i \in DOMAIN out : out[i].chan # LOG

(* The reducers whose values the proofs follow.                            *)
Marked == IF Quiet THEN {LOG} ELSE {}

ProperRec(rec, R) ==
  /\ rec.ver \in [Chan -> Nat] /\ ProperSeen(rec.seen) /\ rec.updated \subseteq Chan
  /\ \A c \in Chan : \A s \in rec.vals[c] : Proper(c, s, Marked, R)

ProperSave(rec, R) == ProperRec(rec, R) /\ \A c \in rec.shared : SharedWithCheckpoint(c)

(* What is written for a task: values of R to the reducers that are        *)
(* followed, and control channels only as the runner does.                 *)
ProperWrite(id, w, R) ==
  /\ w.chan \in Marked => w.val \in R
  /\ id # NullTask => w.chan \in Chan \cup {"ERROR", "NO_WRITES"}

ProperPut(id, ws, R) == IsSeq(ws) /\ \A w \in ToSet(ws) : ProperWrite(id, w, R)

ProperTask(t, R) ==
  t = [id |-> t.id, writes |-> t.writes] /\ t.id.name \in Node /\ ProperPut(t.id, t.writes, R)

ProperKey(x) == x = [ck |-> x.ck, id |-> x.id, idx |-> x.idx] /\ x.idx \in Int /\ x.idx >= -4

ProperStore(st, n, R) ==
  /\ IsFiniteSet(DOMAIN st)
  /\ \A x \in DOMAIN st : ProperKey(x) /\ x.ck \in 0..n /\ ProperWrite(x.id, st[x], R)

Control ==
  /\ pc \in {"idle", "tick", "run", "flush", "exit", "closing"}
  /\ status \in {"none", "pending", "done", "out_of_steps", "draining", "error",
                 "interrupt_before", "interrupt_after", "crashed"}
  /\ durability \in Durabilities \cup {"none"} /\ draining \in BOOLEAN
  /\ savedId \in 0..nextId - 1 /\ DOMAIN made = 1..nextId - 1

Memory ==
  /\ ck.ver \in [Chan -> Nat] /\ ProperSeen(ck.seen)
  /\ ProperAll(chans, Marked, ran) /\ updated \subseteq Chan

Records ==
  /\ \A i \in DOMAIN ckpts : ProperRec(ckpts[i], ran)
  /\ \A i \in DOMAIN made : ProperRec(made[i], ran)
  /\ \A q \in DOMAIN saves : ProperSave(saves[q], ran)

Work ==
  /\ IsSeq(tasks) /\ \A k \in DOMAIN tasks : ProperTask(tasks[k], ran)
  /\ \A id \in DOMAIN pend : ProperPut(id, pend[id], ran)
  /\ \A p \in puts : p.ck \in 0..nextId - 1 /\ ProperPut(p.id, p.writes, ran)
  /\ ProperStore(stored, nextId - 1, ran)

TInv == Control /\ Memory /\ Records /\ Work

Reports(w) == w.chan \notin {"ERROR", INTERRUPT, "RESUME"}
Finished(id) == id \in DOMAIN pend /\ \E i \in DOMAIN pend[id] : Reports(pend[id][i])

(* What is stored of the present step is known in memory.                  *)
Known ==
  /\ pc \in {"tick", "flush"} =>
       /\ \A p \in puts : p.ck = ck.id => p.id = NullTask
       /\ \A x \in DOMAIN stored :
            x.ck = ck.id /\ x.id # NullTask /\ Reports(stored[x]) => Finished(x.id)
  /\ pc = "run" =>
       /\ \A j, k \in DOMAIN tasks : tasks[j].id = tasks[k].id => j = k
       /\ \A k \in DOMAIN tasks : tasks[k].writes = <<>> =>
            /\ \A p \in puts : ~ (p.ck = ck.id /\ p.id = tasks[k].id)
            /\ \A x \in DOMAIN stored :
                 ~ (x.ck = ck.id /\ x.id = tasks[k].id /\ Reports(stored[x]))

(* What is followed are reducers: the log, where nodes that fail are quiet.*)
LEMMA MarkedFacts == ReducersOnly(Marked) /\ (\A c \in Marked : c = LOG /\ Quiet)
BY LoopAssumption DEF Marked, ReducersOnly

(* More runs allow for more values.                                        *)
LEMMA MoreRuns ==
  ASSUME NEW R, NEW S, R \subseteq S
  PROVE  /\ \A c, s : Proper(c, s, Marked, R) => Proper(c, s, Marked, S)
         /\ \A chs : ProperAll(chs, Marked, R) => ProperAll(chs, Marked, S)
         /\ \A rec : ProperRec(rec, R) => ProperRec(rec, S)
         /\ \A rec : ProperSave(rec, R) => ProperSave(rec, S)
         /\ \A id, w : ProperWrite(id, w, R) => ProperWrite(id, w, S)
         /\ \A id, ws : ProperPut(id, ws, R) => ProperPut(id, ws, S)
         /\ \A t : ProperTask(t, R) => ProperTask(t, S)
<1>1. \A c, s : Proper(c, s, Marked, R) => Proper(c, s, Marked, S)
  BY DEF Proper
<1>2. \A chs : ProperAll(chs, Marked, R) => ProperAll(chs, Marked, S)
  BY <1>1 DEF ProperAll
<1>3. \A rec : ProperRec(rec, R) => ProperRec(rec, S)
  BY <1>1 DEF ProperRec
<1>4. \A rec : ProperSave(rec, R) => ProperSave(rec, S)
  BY <1>3 DEF ProperSave
<1>5. \A id, w : ProperWrite(id, w, R) => ProperWrite(id, w, S)
  BY DEF ProperWrite
<1>6. \A id, ws : ProperPut(id, ws, R) => ProperPut(id, ws, S)
  BY <1>5 DEF ProperPut
<1>7. \A t : ProperTask(t, R) => ProperTask(t, S)
  BY <1>6 DEF ProperTask
<1> QED
  BY <1>1, <1>2, <1>3, <1>4, <1>5, <1>6, <1>7

(* A record of proper channels is proper, and so are the channels restored *)
(* from it.                                                                *)
LEMMA RecordProper ==
  ASSUME NEW R, NEW ver \in [Chan -> Nat], NEW seen, ProperSeen(seen), NEW upd \in SUBSET Chan,
         NEW chs, ProperAll(chs, Marked, R), NEW id, NEW s, NEW src, NEW parent, NEW prev
  PROVE  LET rec == Record(id, ver, seen, upd, chs, s, src, parent)
         IN  /\ ProperRec(rec, R) /\ ProperRec([rec EXCEPT !.parent = prev], R)
             /\ ProperSave(Unsaved(rec), R)
<1> DEFINE rec  == Record(id, ver, seen, upd, chs, s, src, parent)
           kept == [rec EXCEPT !.parent = prev]
           e    == Unsaved(rec)
<1>1. \A c \in Chan : \A x \in Snapshot(chs, ver)[c] : Proper(c, x, Marked, R)
  <2>1. \A c \in Chan : \A x \in Snapshot(chs, ver)[c] : x = chs[c]
    BY DEF Snapshot, Checkpoint
  <2> QED
    BY <2>1 DEF ProperAll
<1>2. /\ rec.ver = ver /\ rec.seen = seen /\ rec.updated = upd /\ rec.vals = Snapshot(chs, ver)
      /\ kept.ver = ver /\ kept.seen = seen /\ kept.updated = upd /\ kept.vals = Snapshot(chs, ver)
  BY DEF Record
<1>3. /\ e.ver = ver /\ e.seen = seen /\ e.updated = upd /\ e.vals = Snapshot(chs, ver)
      /\ e.shared = Shared(ver)
  BY <1>2, SaveFields DEF Fields
<1>4. \A c \in Shared(ver) : SharedWithCheckpoint(c)
  BY DEF Shared
<1> HIDE DEF rec, kept, e
<1>5. ProperRec(rec, R) /\ ProperRec(kept, R) /\ ProperRec(e, R)
  BY <1>1, <1>2, <1>3 DEF ProperRec
<1> QED
  BY <1>3, <1>4, <1>5 DEF ProperSave, rec, kept, e

(* Channels rebuilt from a checkpoint are proper.                          *)
LEMMA RestoredProper ==
  ASSUME NEW R, NEW rec, ProperRec(rec, R)
  PROVE  ProperAll(Restored(rec.vals), Marked, R)
<1> DEFINE chs == Restored(rec.vals)
<1>1. chs = [c \in Chan |-> FromCheckpoint(c, rec.vals[c])]
  BY DEF Restored
<1>2. ASSUME NEW c \in Chan PROVE Proper(c, chs[c], Marked, R)
  <2>1. chs[c] = Fresh(c) \/ chs[c] \in rec.vals[c]
    BY <1>1 DEF FromCheckpoint
  <2>2. c \in Marked => Kind[c] \notin Barriers
    BY MarkedFacts DEF ReducersOnly, Barriers
  <2> QED
    BY <2>1, <2>2, FreshProper DEF ProperRec
<1>3. chs = [c \in Chan |-> chs[c]]
  BY <1>1
<1> HIDE DEF chs
<1> QED
  BY <1>2, <1>3 DEF ProperAll, chs

(* Channels of a new thread are proper.                                    *)
LEMMA FreshAllProper == \A R : ProperAll([c \in Chan |-> Fresh(c)], Marked, R)
<1>1. \A c \in Marked : Kind[c] \notin Barriers
  BY MarkedFacts DEF ReducersOnly, Barriers
<1> QED
  BY <1>1, FreshProper DEF ProperAll

(* The checkpoint that get_tuple returns is proper.                        *)
LEMMA LatestProper ==
  ASSUME Ids, Records
  PROVE  ProperRec(Latest, ran)
<1>1. CASE Latest = EmptyCheckpoint
  <2>1. /\ Latest.ver = [c \in Chan |-> 0] /\ Latest.vals = [c \in Chan |-> {}]
        /\ Latest.updated = {} /\ Latest.seen = NoSeen
    BY <1>1 DEF EmptyCheckpoint, NullVersions
  <2>2. DOMAIN NoSeen = {}
    BY DEF NoSeen
  <2> QED
    BY <2>1, <2>2 DEF ProperRec, ProperSeen
<1> QED
  BY <1>1, LatestFacts DEF Records

(* A save goes on waiting, and is stored, with proper values.              *)
LEMMA TouchedProper ==
  ASSUME NEW R, NEW queue, IsSeq(queue), \A q \in DOMAIN queue : Shaped(queue[q]) /\ ProperSave(queue[q], R),
         NEW consumed, NEW new, ProperAll(new, Marked, R)
  PROVE  \A q \in DOMAIN queue : ProperSave(Touched(queue, consumed, new)[q], R)
<1> SUFFICES ASSUME NEW q \in DOMAIN queue
             PROVE  ProperSave(Touched(queue, consumed, new)[q], R)
  OBVIOUS
<1> DEFINE old  == queue[q]
           live == old.shared \ consumed
           t    == Touched(queue, consumed, new)[q]
<1>1. \A f \in Fields \ {"vals"} : t[f] = old[f]
  BY TouchedFields
<1>2. t.ver = old.ver /\ t.seen = old.seen /\ t.updated = old.updated
  BY <1>1 DEF Fields
<1>3. /\ t.shared = live
      /\ t.vals = [c \in Chan |-> IF c \in live THEN {[s EXCEPT !.vals = new[c].vals] : s \in old.vals[c]}
                                  ELSE old.vals[c]]
  BY DEF Touched, Shaped, Fields
<1>4. ProperRec(old, R) /\ \A c \in old.shared : SharedWithCheckpoint(c)
  BY DEF ProperSave
<1>5. \A c \in live : SharedWithCheckpoint(c)
  BY <1>4
<1> HIDE DEF t, live
<1>6. ASSUME NEW c \in Chan, NEW s \in t.vals[c] PROVE Proper(c, s, Marked, R)
  <2>1. CASE c \in live
    <3>1. PICK x \in old.vals[c] : s = [x EXCEPT !.vals = new[c].vals]
      BY <1>3, <1>6, <2>1
    <3>2. Proper(c, x, Marked, R) /\ Proper(c, new[c], Marked, R)
      BY <1>4 DEF ProperRec, ProperAll
    <3>3. x = [vals |-> x.vals, fin |-> x.fin]
      BY <3>2 DEF Proper, IsState
    <3>4. s = [vals |-> new[c].vals, fin |-> x.fin]
      BY <3>1, <3>3
    <3>5. s.vals = new[c].vals /\ IsState(s)
      BY <3>4 DEF IsState
    <3> QED
      BY <3>2, <3>5 DEF Proper
  <2>2. CASE c \notin live
    BY <1>3, <1>4, <1>6, <2>2 DEF ProperRec
  <2> QED
    BY <2>1, <2>2
<1>7. ProperRec(t, R)
  BY <1>2, <1>4, <1>6 DEF ProperRec
<1> QED
  BY <1>3, <1>5, <1>7 DEF ProperSave, t

(* A save that is stored is a proper checkpoint.                           *)
LEMMA StoredProper ==
  ASSUME NEW R, NEW e, Shaped(e), ProperSave(e, R)
  PROVE  ProperRec(StoredForm(e), R)
<1> DEFINE k == StoredForm(e)
<1>1. k.ver = e.ver /\ k.seen = e.seen /\ k.updated = e.updated /\ k.vals = e.vals
  BY StoredFields DEF Fields
<1> HIDE DEF k
<1> QED
  BY <1>1 DEF ProperRec, ProperSave, k

-------------------------------------------------------------------------------
(* Pending writes.                                                         *)

(* The slots of a task, in order.                                          *)
LEMMA AscendingFacts ==
  ASSUME NEW slots, IsFiniteSet(slots), \A x \in slots : x \in Int /\ x >= -4
  PROVE  Ascending(slots) \in Seq(Int) /\ ToSet(Ascending(slots)) = slots
<1> DEFINE S == (slots \cap Nat) \cup {0}
           m == Max(S)
           B == [i \in 1..5 + m |-> i - 5]
<1>1. m \in Nat /\ \A x \in slots : x <= m
  <2>1. IsFiniteSet(S) /\ S \subseteq Nat /\ S # {}
    <3>1. IsFiniteSet(slots \cap Nat)
      BY FS_Subset
    <3>2. IsFiniteSet((slots \cap Nat) \cup {0})
      BY <3>1, FS_AddElement
    <3>3. S \subseteq Nat /\ 0 \in S
      OBVIOUS
    <3> QED
      BY <3>2, <3>3
  <2> HIDE DEF S
  <2>2. m \in S /\ \A y \in S : y <= m
    BY <2>1, MaxExists
  <2> HIDE DEF m
  <2>3. m \in Nat
    BY <2>1, <2>2
  <2>4. ASSUME NEW x \in slots PROVE x <= m
    <3>1. CASE x \in Nat
      BY <2>2, <3>1 DEF S
    <3>2. CASE x \notin Nat
      BY <2>3, <3>2
    <3> QED
      BY <3>1, <3>2
  <2> QED
    BY <2>3, <2>4
<1>2. Ascending(slots) = Selected(B, slots)
  BY DEF Ascending
<1> HIDE DEF m
<1>3. B \in Seq(Int) /\ DOMAIN B = 1..5 + m
  BY <1>1
<1>4. slots \subseteq ToSet(B)
  <2> SUFFICES ASSUME NEW x \in slots PROVE x \in ToSet(B)
    OBVIOUS
  <2>1. x + 5 \in 1..5 + m /\ (x + 5) - 5 = x
    BY <1>1
  <2>2. B[x + 5] = x
    BY <2>1
  <2> QED
    BY <1>3, <2>1, <2>2 DEF ToSet
<1>5. slots \cap ToSet(B) = slots
  BY <1>4
<1> HIDE DEF B
<1> QED
  BY <1>2, <1>3, <1>5, SelectedFacts

(* What is loaded for a checkpoint is what is stored under it.             *)
LEMMA PendingProper ==
  ASSUME Work, NEW ckid
  PROVE  LET P == PendingWrites(ckid)
         IN  /\ \A id \in DOMAIN P : ProperPut(id, P[id], ran)
             /\ \A x \in DOMAIN stored : x.ck = ckid =>
                  x.id \in DOMAIN P /\ \E i \in DOMAIN P[x.id] : P[x.id][i] = stored[x]
             /\ \A id \in DOMAIN P : \A w \in ToSet(P[id]) :
                  \E x \in DOMAIN stored : x.id = id /\ stored[x] = w
<1> DEFINE keys      == {k \in DOMAIN stored : k.ck = ckid}
           of(id)    == {k.idx : k \in {x \in keys : x.id = id}}
           slots(id) == Ascending(of(id))
           key(id, i) == [ck |-> ckid, id |-> id, idx |-> slots(id)[i]]
           P         == PendingWrites(ckid)
<1>1. P = [id \in {k.id : k \in keys} |-> [i \in DOMAIN slots(id) |-> stored[key(id, i)]]]
  BY DEF PendingWrites
<1>2. ProperStore(stored, nextId - 1, ran)
  BY DEF Work
<1>3. \A k \in DOMAIN stored : ProperKey(k) /\ ProperWrite(k.id, stored[k], ran)
  BY <1>2 DEF ProperStore
<1>4. ASSUME NEW id PROVE slots(id) \in Seq(Int) /\ ToSet(slots(id)) = of(id)
  <2> DEFINE mine == {x \in keys : x.id = id}
             idxs == [x \in mine |-> x.idx]
  <2>1. IsFiniteSet(mine)
    BY <1>2, FS_Subset DEF ProperStore
  <2>2. idxs \in Surjection(mine, of(id))
    BY DEF Surjection
  <2>3. \A y \in of(id) : y \in Int /\ y >= -4
    BY <1>3 DEF ProperKey
  <2> HIDE DEF mine, of
  <2>4. IsFiniteSet(of(id))
    BY <2>1, <2>2, FS_Surjection
  <2> QED
    BY <2>3, <2>4, AscendingFacts
<1>5. ASSUME NEW id, NEW i \in DOMAIN slots(id)
      PROVE  /\ key(id, i) \in DOMAIN stored /\ key(id, i).id = id
             /\ ProperWrite(id, stored[key(id, i)], ran)
  <2>1. slots(id)[i] \in of(id)
    <3> HIDE DEF slots, of
    <3> QED
      BY <1>4, <1>5 DEF ToSet
  <2> HIDE DEF slots
  <2>2. PICK k \in keys : k.id = id /\ k.idx = slots(id)[i]
    BY <2>1
  <2>3. k = key(id, i)
    BY <1>3, <2>2 DEF ProperKey
  <2> QED
    BY <1>3, <2>2, <2>3
<1> HIDE DEF P
<1>6. ASSUME NEW id \in DOMAIN P PROVE ProperPut(id, P[id], ran)
  <2>1. P[id] = [i \in DOMAIN slots(id) |-> stored[key(id, i)]]
    BY <1>1, <1>6
  <2>2. DOMAIN slots(id) = 1..Len(slots(id)) /\ Len(slots(id)) \in Nat
    <3> HIDE DEF slots
    <3> QED
      BY <1>4
  <2> HIDE DEF slots, key
  <2>3. IsSeq(P[id])
    <3>1. \A i \in 1..Len(slots(id)) : P[id][i] \in ToSet(P[id])
      BY <2>1, <2>2 DEF ToSet
    <3>2. P[id] = [i \in 1..Len(slots(id)) |-> P[id][i]]
      BY <2>1, <2>2
    <3> QED
      BY <2>2, <3>1, <3>2 DEF IsSeq
  <2>4. \A i \in DOMAIN P[id] : ProperWrite(id, P[id][i], ran)
    BY <1>5, <2>1
  <2> QED
    BY <2>3, <2>4 DEF ProperPut, ToSet
<1>7. ASSUME NEW x \in DOMAIN stored, x.ck = ckid
      PROVE  x.id \in DOMAIN P /\ \E i \in DOMAIN P[x.id] : P[x.id][i] = stored[x]
  <2>1. x \in keys /\ x.idx \in of(x.id) /\ x.id \in DOMAIN P
    BY <1>1, <1>7
  <2>2. PICK i \in DOMAIN slots(x.id) : slots(x.id)[i] = x.idx
    <3> HIDE DEF slots, of
    <3> QED
      BY <1>4, <2>1 DEF ToSet
  <2>3. key(x.id, i) = x
    <3> HIDE DEF slots
    <3> QED
      BY <1>3, <1>7, <2>2 DEF ProperKey
  <2> HIDE DEF slots, key
  <2>4. P[x.id][i] = stored[x] /\ i \in DOMAIN P[x.id]
    BY <1>1, <2>1, <2>2, <2>3
  <2> QED
    BY <2>1, <2>4
<1>8. ASSUME NEW id \in DOMAIN P, NEW w \in ToSet(P[id])
      PROVE  \E x \in DOMAIN stored : x.id = id /\ stored[x] = w
  <2>1. P[id] = [i \in DOMAIN slots(id) |-> stored[key(id, i)]]
    BY <1>1
  <2> HIDE DEF slots, key
  <2>2. PICK i \in DOMAIN slots(id) : w = stored[key(id, i)]
    BY <2>1 DEF ToSet
  <2> QED
    BY <1>5, <2>2
<1> QED
  BY <1>6, <1>7, <1>8 DEF P

(* put_writes adds what it is given, under the checkpoint and the task.    *)
LEMMA PutWritesProper ==
  ASSUME NEW st, NEW n, NEW R, ProperStore(st, n, R), NEW ckid \in 0..n, NEW id,
         NEW ws, ProperPut(id, ws, R)
  PROVE  LET new == PutWrites(st, ckid, id, ws)
         IN  /\ ProperStore(new, n, R)
             /\ \A x \in DOMAIN new : \/ x \in DOMAIN st /\ new[x] = st[x]
                                      \/ x.ck = ckid /\ x.id = id /\ new[x] \in ToSet(ws)
<1> DEFINE key(i) == [ck |-> ckid, id |-> id, idx |-> Slot(ws[i], i)]
           keys   == {key(i) : i \in DOMAIN ws}
           new    == PutWrites(st, ckid, id, ws)
<1>1. new = [k \in DOMAIN st \cup keys |->
               IF k \in DOMAIN st /\ (k \notin keys \/ k.idx >= 0) THEN st[k]
               ELSE ws[Max({i \in DOMAIN ws : key(i) = k})]]
  BY DEF PutWrites
<1> HIDE DEF new
<1>2. DOMAIN ws = 1..Len(ws) /\ Len(ws) \in Nat
  BY DEF ProperPut, IsSeq
<1>3. IsFiniteSet(keys)
  <2> DEFINE f == [i \in DOMAIN ws |-> key(i)]
  <2>1. IsFiniteSet(DOMAIN ws)
    <3>1. IsFiniteSet(1..Len(ws))
      BY <1>2, FS_Interval
    <3> QED
      BY <1>2, <3>1
  <2>2. f \in Surjection(DOMAIN ws, keys)
    BY DEF Surjection
  <2> HIDE DEF f, keys
  <2> QED
    BY <2>1, <2>2, FS_Surjection
<1>4. DOMAIN new = DOMAIN st \cup keys
  BY <1>1
<1>5. IsFiniteSet(DOMAIN new)
  <2> HIDE DEF keys
  <2> QED
    BY <1>3, <1>4, FS_Union DEF ProperStore
<1>6. \A k \in keys : ProperKey(k) /\ k.ck = ckid /\ k.id = id
  BY <1>2 DEF ProperKey, Slot
<1>7. ASSUME NEW k \in keys PROVE ws[Max({i \in DOMAIN ws : key(i) = k})] \in ToSet(ws)
  <2> DEFINE I == {i \in DOMAIN ws : key(i) = k}
  <2>1. I \subseteq Nat /\ I # {} /\ I \subseteq DOMAIN ws /\ IsFiniteSet(I)
    <3>1. IsFiniteSet(1..Len(ws))
      BY <1>2, FS_Interval
    <3> HIDE DEF key
    <3>2. I \subseteq 1..Len(ws) /\ I # {}
      BY <1>2
    <3> HIDE DEF I
    <3>3. IsFiniteSet(I)
      BY <3>1, <3>2, FS_Subset
    <3>4. \A i \in 1..Len(ws) : i \in Nat
      BY <1>2
    <3> QED
      BY <1>2, <3>2, <3>3, <3>4
  <2> HIDE DEF I
  <2>2. Max(I) \in I
    BY <2>1, MaxExists
  <2>3. ws[Max(I)] \in ToSet(ws)
    BY <2>1, <2>2 DEF ToSet
  <2> QED
    BY <2>3 DEF I
<1> HIDE DEF keys, key
<1>8. \A x \in DOMAIN new : \/ x \in DOMAIN st /\ new[x] = st[x]
                            \/ x \in keys /\ new[x] \in ToSet(ws)
  BY <1>1, <1>4, <1>7
<1>9. ASSUME NEW x \in DOMAIN new
      PROVE  ProperKey(x) /\ x.ck \in 0..n /\ ProperWrite(x.id, new[x], R)
  BY <1>6, <1>8 DEF ProperStore, ProperPut
<1>10. \A x \in DOMAIN new : \/ x \in DOMAIN st /\ new[x] = st[x]
                             \/ x.ck = ckid /\ x.id = id /\ new[x] \in ToSet(ws)
  BY <1>6, <1>8
<1> QED
  BY <1>5, <1>9, <1>10 DEF ProperStore, new

(* Resolving what a node returns keeps its channels, and names the run in  *)
(* what goes to the log.                                                   *)
LEMMA ResolveFacts ==
  ASSUME NEW id, NEW out, IsSeq(out), \A i \in DOMAIN out : out[i].chan \in Chan
  PROVE  LET ws == Resolve(id, out)
         IN  /\ IsSeq(ws) /\ DOMAIN ws = DOMAIN out
             /\ \A i \in DOMAIN out : /\ ws[i].chan = out[i].chan
                                      /\ out[i].chan = LOG => ws[i].val = id
<1> DEFINE ws == Resolve(id, out)
<1>1. DOMAIN out = 1..Len(out) /\ Len(out) \in Nat
  BY DEF IsSeq
<1>2. DOMAIN ws = DOMAIN out
  BY DEF Resolve
<1>3. ASSUME NEW i \in DOMAIN out
      PROVE  ws[i].chan = out[i].chan /\ (out[i].chan = LOG => ws[i].val = id)
  <2>1. LOG # TASKS /\ Kind[LOG] \notin Barriers
    BY LoopAssumption, AlgoAssumption DEF Barriers
  <2> QED
    BY <2>1 DEF Resolve, Write
<1>4. IsSeq(ws)
  <2>1. \A i \in 1..Len(out) : ws[i] \in ToSet(ws)
    BY <1>1, <1>2 DEF ToSet
  <2>2. ws = [i \in 1..Len(out) |-> ws[i]]
    BY <1>1 DEF Resolve
  <2> HIDE DEF ws
  <2> QED
    BY <1>1, <2>1, <2>2 DEF IsSeq
<1> QED
  BY <1>2, <1>3, <1>4

(* Writes of a task and of a client.                                       *)
LEMMA RunWrites ==
  ASSUME NEW id, id.name \in Node, NEW out \in Outputs[id.name], NEW R, id \in R
  PROVE  /\ ProperPut(id, IF out = <<>> THEN <<Write("NO_WRITES", NullTask)>> ELSE Resolve(id, out), R)
         /\ (IF out = <<>> THEN <<Write("NO_WRITES", NullTask)>> ELSE Resolve(id, out)) # <<>>
<1>1. CASE out = <<>>
  <2> DEFINE w == Write("NO_WRITES", NullTask)
  <2>1. w.chan = "NO_WRITES" /\ "NO_WRITES" \notin Marked
    BY MarkedFacts, LoopAssumption, AlgoAssumption DEF Write, ControlChan
  <2> HIDE DEF w
  <2>2. <<w>> \in Seq({w}) /\ DOMAIN <<w>> = {1} /\ <<w>>[1] = w /\ <<w>> # <<>>
    OBVIOUS
  <2>3. IsSeq(<<w>>) /\ ToSet(<<w>>) = {w}
    BY <2>2, SeqRange DEF ToSet
  <2> QED
    BY <1>1, <2>1, <2>2, <2>3 DEF ProperPut, ProperWrite, w
<1>2. CASE out # <<>>
  <2> DEFINE ws == Resolve(id, out)
  <2>1. IsSeq(out) /\ \A i \in DOMAIN out : out[i].chan \in Chan
    BY LoopAssumption DEF IsSeq
  <2>2. IsSeq(ws) /\ DOMAIN ws = DOMAIN out /\ \A i \in DOMAIN out : ws[i].chan = out[i].chan
    BY <2>1, ResolveFacts
  <2>3. \A i \in DOMAIN out : out[i].chan = LOG => ws[i].val = id
    BY <2>1, ResolveFacts
  <2> HIDE DEF ws
  <2>4. \A i \in DOMAIN ws : ProperWrite(id, ws[i], R)
    BY <2>1, <2>2, <2>3, MarkedFacts DEF ProperWrite
  <2>5. ws # <<>>
    BY <1>2, <2>1, <2>2 DEF IsSeq
  <2> QED
    BY <1>2, <2>2, <2>4, <2>5 DEF ProperPut, ToSet, ws
<1> QED
  BY <1>1, <1>2

(* Of a task that fails.                                                   *)
LEMMA FailWrites ==
  ASSUME NEW id, id.name \in Node, NEW out \in Partial[id.name], NEW R
  PROVE  /\ ProperPut(id, Append(Resolve(id, out), Write("ERROR", NullTask)), R)
         /\ Append(Resolve(id, out), Write("ERROR", NullTask)) # <<>>
<1> DEFINE ws == Resolve(id, out)
           w  == Write("ERROR", NullTask)
<1>1. IsSeq(out) /\ \A i \in DOMAIN out : out[i].chan \in Chan
  BY LoopAssumption DEF IsSeq
<1>2. IsSeq(ws) /\ DOMAIN ws = DOMAIN out /\ \A i \in DOMAIN out : ws[i].chan = out[i].chan
  BY <1>1, ResolveFacts
<1>3. \A i \in DOMAIN out : out[i].chan \notin Marked
  BY MarkedFacts DEF Quiet
<1>4. w.chan = "ERROR" /\ "ERROR" \notin Marked
  BY MarkedFacts, LoopAssumption, AlgoAssumption DEF Write, ControlChan
<1> HIDE DEF ws, w
<1>5. /\ IsSeq(Append(ws, w)) /\ DOMAIN Append(ws, w) = 1..Len(ws) + 1 /\ Len(ws) \in Nat
      /\ DOMAIN ws = 1..Len(ws)
      /\ \A i \in DOMAIN ws : Append(ws, w)[i] = ws[i]
      /\ Append(ws, w)[Len(ws) + 1] = w
  BY <1>2, SeqAppend
<1>6. \A i \in DOMAIN Append(ws, w) : i \in DOMAIN ws \/ i = Len(ws) + 1
  BY <1>5
<1>7. \A i \in DOMAIN Append(ws, w) : ProperWrite(id, Append(ws, w)[i], R)
  BY <1>1, <1>2, <1>3, <1>4, <1>5, <1>6 DEF ProperWrite
<1>8. Append(ws, w) # <<>>
  <2>1. Len(ws) + 1 \in DOMAIN Append(ws, w)
    BY <1>5
  <2> QED
    BY <2>1
<1> QED
  BY <1>5, <1>7, <1>8 DEF ProperPut, ToSet, ws, w

(* Of a client: a Command, and the input.                                  *)
LEMMA ClientWrites ==
  ASSUME NEW req, NEW n, NEW R
  PROVE  /\ ProperPut(NullTask, CommandWrites(req, n), R)
         /\ ProperWrites(<<Write(START, ClientId(n))>>, Marked, R)
<1> DEFINE a == Write(COMMAND, ClientId(n))
           b == Write("RESUME", ClientId(n))
           s == Write(START, ClientId(n))
<1>1. a.chan \notin Marked /\ b.chan \notin Marked /\ s.chan \notin Marked
  <2>1. a.chan = COMMAND /\ b.chan = "RESUME" /\ s.chan = START
    BY DEF Write
  <2>2. LOG \in Chan /\ "RESUME" \notin Chan
    BY LoopAssumption, AlgoAssumption DEF ControlChan
  <2> QED
    BY <2>1, <2>2, MarkedFacts, LoopAssumption
<1>2. CommandWrites(req, n) \in {<<>>, <<a>>, <<b, a>>}
  BY DEF CommandWrites
<1> HIDE DEF a, b, s
<1>3. /\ <<>> \in Seq({a, b, s}) /\ <<a>> \in Seq({a, b, s}) /\ <<b, a>> \in Seq({a, b, s})
      /\ <<s>> \in Seq({a, b, s})
  OBVIOUS
<1>4. \A x \in Seq({a, b, s}) : IsSeq(x) /\ ToSet(x) \subseteq {a, b, s}
  BY SeqRange DEF ToSet
<1>5. CommandWrites(req, n) \in Seq({a, b, s})
  BY <1>2, <1>3
<1> QED
  BY <1>1, <1>3, <1>4, <1>5 DEF ProperPut, ProperWrite, ProperWrites, s

(* What a task is given to write may be applied.                           *)
LEMMA PutIsWrites ==
  ASSUME NEW id, NEW ws, NEW R, ProperPut(id, ws, R)
  PROVE  ProperWrites(ws, Marked, R)
BY DEF ProperPut, ProperWrite, ProperWrites

(* Part of what is written is proper as well, and so are two parts joined. *)
LEMMA PutParts ==
  ASSUME NEW id, NEW ws, NEW R, ProperPut(id, ws, R)
  PROVE  /\ \A S : ProperPut(id, Selected(ws, S), R) /\ ToSet(Selected(ws, S)) = S \cap ToSet(ws)
         /\ \A x : ProperPut(id, x, R) => ProperPut(id, ws \o x, R)
<1>1. ASSUME NEW S PROVE ProperPut(id, Selected(ws, S), R) /\ ToSet(Selected(ws, S)) = S \cap ToSet(ws)
  <2>1. ws \in Seq(ToSet(ws))
    BY DEF ProperPut, IsSeq
  <2>2. Selected(ws, S) \in Seq(ToSet(ws)) /\ ToSet(Selected(ws, S)) = S \cap ToSet(ws)
    BY <2>1, SelectedFacts
  <2>3. IsSeq(Selected(ws, S))
    BY <2>2, SeqRange
  <2> QED
    BY <2>2, <2>3 DEF ProperPut
<1>2. ASSUME NEW x, ProperPut(id, x, R) PROVE ProperPut(id, ws \o x, R)
  BY <1>2, SeqJoin DEF ProperPut
<1> QED
  BY <1>1, <1>2

-------------------------------------------------------------------------------
(* Steps of the loop.                                                      *)

(* What apply_writes returns.                                              *)
ProperResult(r, R) ==
  /\ r.ver \in [Chan -> Nat] /\ ProperSeen(r.seen)
  /\ ProperAll(r.chans, Marked, R) /\ r.updated \subseteq Chan

(* A superstep of proper channels and writes.                              *)
LEMMA ApplyResult ==
  ASSUME NEW R, NEW ck0, ck0.ver \in [Chan -> Nat], ProperSeen(ck0.seen),
         NEW chs, ProperAll(chs, Marked, R),
         NEW ts, IsSeq(ts), \A k \in DOMAIN ts : ProperTask(ts[k], R),
         NEW extra, ProperWrites(extra, Marked, R)
  PROVE  ProperResult(ApplyWrites(ck0, chs, ts, extra), R)
<1>1. \A k \in DOMAIN ts : ts[k].id.name \in Node /\ ProperWrites(ts[k].writes, Marked, R)
  BY PutIsWrites DEF ProperTask
<1> QED
  BY <1>1, MarkedFacts, ApplyProper DEF ProperResult

(* A superstep of no task.                                                 *)
LEMMA NoTasks == IsSeq(<<>>) /\ ToSet(<<>>) = {} /\ DOMAIN <<>> = {}
BY EmptyQueue DEF ToSet

(* The tasks of prepare_next_tasks are tasks of the loop.                  *)
LEMMA PreparedProper ==
  ASSUME NEW R, NEW ck0, NEW chs, ProperAll(chs, Marked, R), NEW upd
  PROVE  LET ts == PrepareNextTasks(ck0, chs, upd)
         IN  /\ IsSeq(ts)
             /\ \A k \in DOMAIN ts : /\ ProperTask(ts[k], R) /\ ts[k].writes = <<>>
                                     /\ ts[k] = [id |-> ts[k].id, writes |-> <<>>]
                                     /\ ts[k].id.ck = ck0.id
             /\ \A j, k \in DOMAIN ts : ts[j].id = ts[k].id => j = k
<1> DEFINE ts == PrepareNextTasks(ck0, chs, upd)
<1>1. IsSeq(chs[TASKS].vals)
  BY AlgoAssumption DEF ProperAll, Proper, Barriers
<1>2. /\ IsSeq(ts)
      /\ \A k \in DOMAIN ts : ts[k] = NewTask(ts[k].id) /\ ProperId(ts[k].id, ck0.id)
      /\ \A j, k \in DOMAIN ts : ts[j].id = ts[k].id => j = k
  BY <1>1, PreparedFacts
<1> HIDE DEF ts
<1>3. \A k \in DOMAIN ts : /\ ts[k] = [id |-> ts[k].id, writes |-> <<>>] /\ ts[k].writes = <<>>
                           /\ ts[k].id.name \in Node /\ ts[k].id.ck = ck0.id
  <2> SUFFICES ASSUME NEW k \in DOMAIN ts
               PROVE  /\ ts[k] = [id |-> ts[k].id, writes |-> <<>>] /\ ts[k].writes = <<>>
                      /\ ts[k].id.name \in Node /\ ts[k].id.ck = ck0.id
    OBVIOUS
  <2>1. ts[k] = [id |-> ts[k].id, writes |-> <<>>]
    BY <1>2 DEF NewTask
  <2>2. ProperId(ts[k].id, ck0.id)
    BY <1>2
  <2>3. ts[k].id.name \in Node /\ ts[k].id.ck = ck0.id
    <3>1. ts[k].id = [ck |-> ck0.id, name |-> ts[k].id.name, idx |-> ts[k].id.idx]
      BY <2>2 DEF ProperId
    <3>2. ts[k].id.ck = ck0.id
      BY <3>1
    <3> QED
      BY <2>2, <3>2 DEF ProperId
  <2> QED
    BY <2>1, <2>3
<1>4. \A id : ProperPut(id, <<>>, R)
  BY NoTasks DEF ProperPut
<1>5. \A k \in DOMAIN ts : ProperTask(ts[k], R)
  BY <1>3, <1>4 DEF ProperTask
<1> QED
  BY <1>2, <1>3, <1>5 DEF ts

(* _put_checkpoint, of what apply_writes returned.                         *)
LEMMA PutProper ==
  ASSUME Ids, Control, Records, NEW src, NEW r, ProperResult(r, ran), NEW queue, IsSeq(queue),
         \A q \in DOMAIN queue : ProperSave(queue[q], ran), NEW s, NEW prev, NEW parent,
         PutCheckpoint(src, r, queue, s, prev, parent), UNCHANGED <<ckpts, ran>>
  PROVE  /\ Records' /\ DOMAIN made' = 1..nextId' - 1 /\ nextId' = nextId + 1
         /\ ck'.id = nextId /\ ck'.ver \in [Chan -> Nat] /\ ProperSeen(ck'.seen)
<1> DEFINE rec  == Record(nextId, r.ver, r.seen, r.updated, r.chans, s, src, parent)
           kept == [rec EXCEPT !.parent = prev]
           e    == Unsaved(rec)
<1>1. /\ nextId' = nextId + 1 /\ nextId \in Nat \ {0}
      /\ ck' = [id |-> nextId, ver |-> r.ver, seen |-> r.seen]
      /\ made' = With(made, nextId, kept)
      /\ saves' = queue \/ saves' = Append(queue, e)
  BY DEF PutCheckpoint, Ids
<1>2. ProperRec(kept, ran) /\ ProperSave(e, ran)
  <2>1. r.ver \in [Chan -> Nat] /\ ProperSeen(r.seen) /\ r.updated \in SUBSET Chan /\ ProperAll(r.chans, Marked, ran)
    BY DEF ProperResult
  <2> QED
    BY <2>1, RecordProper
<1> HIDE DEF rec, kept, e
<1>3. DOMAIN made' = 1..nextId' - 1 /\ \A i \in DOMAIN made' : ProperRec(made'[i], ran)
  <2>1. DOMAIN made' = (1..nextId - 1) \cup {nextId}
    BY <1>1 DEF With, Control
  <2>2. \A i \in DOMAIN made' : made'[i] = IF i = nextId THEN kept ELSE made[i]
    BY <1>1 DEF With
  <2>3. \A i \in DOMAIN made' : i = nextId \/ i \in DOMAIN made
    BY <2>1 DEF Control
  <2>4. (1..nextId - 1) \cup {nextId} = 1..nextId' - 1
    BY <1>1
  <2> QED
    BY <1>2, <2>1, <2>2, <2>3, <2>4 DEF Records
<1>4. \A q \in DOMAIN saves' : ProperSave(saves'[q], ran)
  <2>1. CASE saves' = queue
    BY <2>1
  <2>2. CASE saves' = Append(queue, e)
    <3>1. \A q \in DOMAIN saves' : (q \in DOMAIN queue /\ saves'[q] = queue[q]) \/ saves'[q] = e
      BY <2>2, SeqAppend
    <3> QED
      BY <1>2, <3>1
  <2> QED
    BY <1>1, <2>1, <2>2
<1>5. Records'
  BY <1>3, <1>4 DEF Records
<1> QED
  BY <1>1, <1>3, <1>5 DEF ProperResult

(* An invocation starts with what is stored and what the client sends.     *)
LEMMA InvokeProper ==
  ASSUME Ids, TInv, NEW req, NEW d, Invoke(req, d)
  PROVE  /\ \A id \in DOMAIN pend' : ProperPut(id, pend'[id], ran)
         /\ \A p \in puts' : p.ck = Latest.id /\ p.id = NullTask /\ ProperPut(NullTask, p.writes, ran)
         /\ \E P : /\ pend' = P \/ \E ws : pend' = With(P, NullTask, ws)
                   /\ P = PendingWrites(Latest.id)
         /\ \E r : /\ ProperResult(r, ran) /\ chans' = r.chans
                   /\ \/ /\ ck'.ver = r.ver /\ ck'.seen = With(r.seen, INTERRUPT, r.ver)
                         /\ updated' \subseteq Chan /\ saves' = <<>> /\ UNCHANGED <<nextId, made>>
                      \/ /\ updated' = r.updated
                         /\ PutCheckpoint("input", r, <<>>, Latest.step + 1, Latest.id, Latest.id)
<1> DEFINE base    == Latest
           loaded  == PendingWrites(base.id)
           cmd     == CommandWrites(req, invocations + 1)
           old     == IF NullTask \in DOMAIN loaded THEN loaded[NullTask] ELSE <<>>
           null    == IF cmd = <<>> THEN old ELSE Selected(old, {w \in ToSet(old) : IsData(w)}) \o cmd
           ck0     == [id |-> base.id, ver |-> base.ver, seen |-> base.seen]
           chans0  == Restored(base.vals)
           none    == [ver |-> ck0.ver, seen |-> ck0.seen, chans |-> chans0, updated |-> {}]
           r       == IF null = <<>> THEN none ELSE ApplyWrites(ck0, chans0, <<>>, null)
           upd     == IF base.updated = {} THEN {} ELSE base.updated \cup r.updated
           ck1     == [ck0 EXCEPT !.ver = r.ver, !.seen = r.seen]
           discard == PrepareNextTasks(ck1, r.chans, {})
           x       == <<Write(START, ClientId(invocations + 1))>>
           input   == ApplyWrites(ck1, r.chans, discard, x)
<1>1. \/ /\ ck' = [id |-> base.id, ver |-> r.ver, seen |-> With(r.seen, INTERRUPT, r.ver)]
         /\ saves' = <<>> /\ chans' = r.chans /\ updated' = upd
         /\ UNCHANGED <<nextId, made>>
      \/ /\ PutCheckpoint("input", input, <<>>, base.step + 1, base.id, base.id)
         /\ chans' = input.chans /\ updated' = input.updated
  BY Zenon DEF Invoke
<1>2. /\ pend' = IF cmd = <<>> THEN loaded ELSE With(loaded, NullTask, null)
      /\ puts' = IF cmd = <<>> \/ d = "exit" THEN {}
                 ELSE {[ck |-> base.id, id |-> NullTask, writes |-> null]}
  BY Zenon DEF Invoke
<1>3. Work /\ ProperRec(base, ran)
  BY LatestProper DEF TInv
<1> HIDE DEF loaded
<1>4. \A id \in DOMAIN loaded : ProperPut(id, loaded[id], ran)
  BY <1>3, PendingProper DEF loaded
<1>5. ProperPut(NullTask, null, ran)
  <2>1. ProperPut(NullTask, old, ran)
    <3>1. ProperPut(NullTask, <<>>, ran)
      BY NoTasks DEF ProperPut
    <3> QED
      BY <1>4, <3>1
  <2>2. ProperPut(NullTask, cmd, ran)
    BY ClientWrites
  <2> HIDE DEF old, cmd
  <2>3. ProperPut(NullTask, Selected(old, {w \in ToSet(old) : IsData(w)}), ran)
    BY <2>1, PutParts
  <2>4. ProperPut(NullTask, Selected(old, {w \in ToSet(old) : IsData(w)}) \o cmd, ran)
    BY <2>2, <2>3, PutParts
  <2> QED
    BY <2>1, <2>4
<1> HIDE DEF null, cmd
<1>6. \A id \in DOMAIN pend' : ProperPut(id, pend'[id], ran)
  BY <1>2, <1>4, <1>5 DEF With
<1>7. \A p \in puts' : p.ck = Latest.id /\ p.id = NullTask /\ ProperPut(NullTask, p.writes, ran)
  BY <1>2, <1>5
<1>8. ProperResult(r, ran)
  <2>1. /\ ck0.ver \in [Chan -> Nat] /\ ProperSeen(ck0.seen) /\ ProperAll(chans0, Marked, ran)
    BY <1>3, RestoredProper DEF ProperRec
  <2> HIDE DEF ck0, chans0
  <2>2. CASE null = <<>>
    BY <2>1, <2>2 DEF ProperResult
  <2>3. CASE null # <<>>
    <3>1. r = ApplyWrites(ck0, chans0, <<>>, null)
      BY <2>3
    <3> HIDE DEF r
    <3>2. ProperWrites(null, Marked, ran)
      BY <1>5, PutIsWrites
    <3> QED
      BY <2>1, <3>1, <3>2, NoTasks, ApplyResult
  <2> QED
    BY <2>2, <2>3
<1> HIDE DEF r
<1>9. upd \subseteq Chan
  BY <1>3, <1>8 DEF ProperRec, ProperResult
<1>10. ProperResult(input, ran)
  <2>1. ck1.ver = r.ver /\ ck1.seen = r.seen
    OBVIOUS
  <2> HIDE DEF ck1
  <2>2. ck1.ver \in [Chan -> Nat] /\ ProperSeen(ck1.seen) /\ ProperAll(r.chans, Marked, ran)
    BY <1>8, <2>1 DEF ProperResult
  <2>3. IsSeq(discard) /\ \A k \in DOMAIN discard : ProperTask(discard[k], ran)
    BY <2>2, PreparedProper
  <2>4. ProperWrites(x, Marked, ran)
    BY ClientWrites
  <2> HIDE DEF discard, x
  <2> QED
    BY <2>2, <2>3, <2>4, ApplyResult
<1>11. /\ pend' = loaded \/ \E ws : pend' = With(loaded, NullTask, ws)
       /\ loaded = PendingWrites(Latest.id)
  BY <1>2 DEF loaded
<1> HIDE DEF input, upd, ck0
<1>12. \/ /\ ck'.ver = r.ver /\ ck'.seen = With(r.seen, INTERRUPT, r.ver)
          /\ updated' \subseteq Chan /\ saves' = <<>> /\ UNCHANGED <<nextId, made>> /\ chans' = r.chans
       \/ /\ updated' = input.updated /\ chans' = input.chans
          /\ PutCheckpoint("input", input, <<>>, Latest.step + 1, Latest.id, Latest.id)
  BY <1>1, <1>9
<1> QED
  BY <1>6, <1>7, <1>8, <1>10, <1>11, <1>12

(* A task gets back what it wrote before, without the control channels.    *)
LEMMA ReappliedFacts ==
  ASSUME Work, NEW t, ProperTask(t, ran)
  PROVE  /\ ProperTask(Reapplied(t), ran) /\ Reapplied(t).id = t.id
         /\ Finished(t.id) => Reapplied(t).writes # <<>>
<1> DEFINE ws == PendOf(t.id)
           S  == {w \in ToSet(ws) : w.chan \notin {"ERROR", INTERRUPT, "RESUME"}}
           n  == Selected(ws, S)
<1>1. t = [id |-> t.id, writes |-> t.writes]
  BY DEF ProperTask
<1>2. Reapplied(t) = [id |-> t.id, writes |-> n]
  <2>1. Reapplied(t) = [t EXCEPT !.writes = n]
    BY DEF Reapplied
  <2> HIDE DEF n
  <2> QED
    BY <1>1, <2>1
<1>3. ProperPut(t.id, ws, ran)
  <2>1. ProperPut(t.id, <<>>, ran)
    BY NoTasks DEF ProperPut
  <2> QED
    BY <2>1 DEF PendOf, Work
<1> HIDE DEF ws
<1>4. ProperPut(t.id, n, ran) /\ ToSet(n) = S
  <2>1. S \cap ToSet(ws) = S
    OBVIOUS
  <2> HIDE DEF S
  <2> QED
    BY <1>3, <2>1, PutParts
<1> HIDE DEF n
<1>5. ASSUME Finished(t.id) PROVE n # <<>>
  <2>1. \E i \in DOMAIN ws : Reports(ws[i])
    BY <1>5 DEF Finished, PendOf, ws
  <2>2. \E w \in ToSet(ws) : Reports(w)
    BY <2>1 DEF ToSet
  <2>3. S # {}
    BY <2>2 DEF Reports
  <2> QED
    BY <1>4, <2>3, NoTasks
<1>6. ProperTask(Reapplied(t), ran)
  BY <1>2, <1>4 DEF ProperTask
<1> QED
  BY <1>2, <1>5, <1>6

(* A new thread.                                                           *)
LEMMA InitTypes == Init => TInv
<1> SUFFICES ASSUME Init PROVE TInv
  OBVIOUS
<1>1. /\ pc = "idle" /\ status = "none" /\ durability = "none" /\ draining = FALSE
      /\ savedId = 0 /\ nextId = 1 /\ DOMAIN made = {} /\ DOMAIN ckpts = {} /\ saves = <<>>
      /\ tasks = <<>> /\ DOMAIN pend = {} /\ puts = {} /\ DOMAIN stored = {}
      /\ ck.ver = NullVersions /\ ck.seen = NoSeen /\ updated = {}
      /\ chans = [c \in Chan |-> Fresh(c)]
  BY DEF Init
<1>2. Control
  <2>1. 1..nextId - 1 = {} /\ savedId \in 0..nextId - 1
    BY <1>1
  <2> QED
    BY <1>1, <2>1 DEF Control
<1>3. Memory
  <2>1. ProperSeen(NoSeen) /\ NullVersions \in [Chan -> Nat]
    BY DEF NoSeen, ProperSeen, NullVersions
  <2> QED
    BY <1>1, <2>1, FreshAllProper DEF Memory
<1>4. Records
  BY <1>1, NoTasks DEF Records
<1>5. Work
  <2>1. IsFiniteSet(DOMAIN stored)
    BY <1>1, FS_EmptySet
  <2> QED
    BY <1>1, <2>1, NoTasks DEF Work, ProperStore
<1> QED
  BY <1>2, <1>3, <1>4, <1>5 DEF TInv

(* A task's writes go to memory and to the queue of the executor.          *)
LEMMA CommitProper ==
  ASSUME Ids, Work, NEW k \in DOMAIN tasks, NEW ws, Commit(k, ws),
         ran \subseteq ran', ProperPut(tasks[k].id, ws, ran')
  PROVE  Work'
<1> DEFINE id == tasks[k].id
<1>1. /\ tasks' = [tasks EXCEPT ![k].writes = ws] /\ pend' = With(pend, id, ws)
      /\ puts' = puts \/ puts' = puts \cup {[ck |-> ck.id, id |-> id, writes |-> ws]}
      /\ UNCHANGED <<stored, nextId>>
  BY DEF Commit, SubmitPut, storage, counters
<1>2. /\ IsSeq(tasks) /\ \A j \in DOMAIN tasks : ProperTask(tasks[j], ran')
      /\ \A i \in DOMAIN pend : ProperPut(i, pend[i], ran')
      /\ \A p \in puts : p.ck \in 0..nextId - 1 /\ ProperPut(p.id, p.writes, ran')
      /\ ProperStore(stored, nextId - 1, ran')
  BY MoreRuns DEF Work, ProperStore
<1>3. IsSeq(tasks') /\ \A j \in DOMAIN tasks' : ProperTask(tasks'[j], ran')
  <2>1. DOMAIN tasks = 1..Len(tasks) /\ Len(tasks) \in Nat
    BY <1>2 DEF IsSeq
  <2>2. DOMAIN tasks' = DOMAIN tasks /\ \A j \in DOMAIN tasks : j # k => tasks'[j] = tasks[j]
    BY <1>1
  <2>3. tasks'[k] = [id |-> id, writes |-> ws]
    <3>1. tasks[k] = [id |-> tasks[k].id, writes |-> tasks[k].writes]
      BY <1>2 DEF ProperTask
    <3>2. tasks'[k] = [tasks[k] EXCEPT !.writes = ws]
      BY <1>1
    <3> QED
      BY <3>1, <3>2
  <2>4. ProperTask(tasks'[k], ran')
    BY <1>2, <2>3 DEF ProperTask
  <2>5. IsSeq(tasks')
    <3>1. \A i \in 1..Len(tasks) : tasks'[i] \in ToSet(tasks')
      BY <2>1, <2>2 DEF ToSet
    <3>2. tasks' = [i \in 1..Len(tasks) |-> tasks'[i]]
      BY <1>1, <2>1
    <3> QED
      BY <2>1, <3>1, <3>2 DEF IsSeq
  <2> QED
    BY <1>2, <2>2, <2>4, <2>5
<1>4. \A i \in DOMAIN pend' : ProperPut(i, pend'[i], ran')
  BY <1>1, <1>2 DEF With
<1>5. \A p \in puts' : p.ck \in 0..nextId - 1 /\ ProperPut(p.id, p.writes, ran')
  <2>1. ck.id \in 0..nextId - 1
    BY DEF Ids
  <2> QED
    BY <1>1, <1>2, <2>1
<1> QED
  BY <1>1, <1>2, <1>3, <1>4, <1>5 DEF Work

(* Every step of the loop.                                                 *)
LEMMA TypesStep == QInv /\ TInv /\ [Next]_vars => TInv'
<1> SUFFICES ASSUME QInv, TInv, [Next]_vars PROVE TInv'
  OBVIOUS
<1> USE DEF storage, loop, background, counters, observers
<1>0. Ids /\ Control /\ Memory /\ Records /\ Work /\ nextId \in Nat \ {0}
  BY DEF QInv, TInv, Ids
<1>1. ASSUME NEW req \in Requests, NEW d \in Durabilities, Invoke(req, d) PROVE TInv'
  <2>1. /\ pc' = "tick" /\ status' = "pending" /\ durability' = d /\ draining' = FALSE
        /\ savedId' = Latest.id /\ tasks' = <<>> /\ UNCHANGED <<ckpts, stored, ran>>
    BY <1>1, Zenon DEF Invoke
  <2>2. Latest.id \in 0..nextId - 1
    BY <1>0, LatestId DEF Ids
  <2>3. /\ \A id \in DOMAIN pend' : ProperPut(id, pend'[id], ran)
        /\ \A p \in puts' : p.ck = Latest.id /\ p.id = NullTask /\ ProperPut(NullTask, p.writes, ran)
    BY <1>0, <1>1, InvokeProper
  <2>4. PICK r : /\ ProperResult(r, ran) /\ chans' = r.chans
                 /\ \/ /\ ck'.ver = r.ver /\ ck'.seen = With(r.seen, INTERRUPT, r.ver)
                       /\ updated' \subseteq Chan /\ saves' = <<>> /\ UNCHANGED <<nextId, made>>
                    \/ /\ updated' = r.updated
                       /\ PutCheckpoint("input", r, <<>>, Latest.step + 1, Latest.id, Latest.id)
    BY <1>0, <1>1, InvokeProper
  <2>5. nextId' \in {nextId, nextId + 1} /\ Records' /\ DOMAIN made' = 1..nextId' - 1 /\ Memory'
    <3>1. CASE /\ ck'.ver = r.ver /\ ck'.seen = With(r.seen, INTERRUPT, r.ver)
               /\ updated' \subseteq Chan /\ saves' = <<>> /\ UNCHANGED <<nextId, made>>
      <4>1. ProperSeen(ck'.seen) /\ ck'.ver \in [Chan -> Nat] /\ ProperAll(chans', Marked, ran)
        BY <2>4, <3>1 DEF ProperResult, ProperSeen, With
      <4>2. Records'
        BY <1>0, <2>1, <3>1, NoTasks DEF Records
      <4> QED
        BY <1>0, <2>1, <3>1, <4>1, <4>2 DEF Memory, Control
    <3>2. CASE /\ updated' = r.updated
               /\ PutCheckpoint("input", r, <<>>, Latest.step + 1, Latest.id, Latest.id)
      <4>1. /\ Records' /\ DOMAIN made' = 1..nextId' - 1 /\ nextId' = nextId + 1
            /\ ck'.ver \in [Chan -> Nat] /\ ProperSeen(ck'.seen)
        BY <1>0, <2>1, <2>4, <3>2, NoTasks, PutProper
      <4> QED
        BY <2>1, <2>4, <3>2, <4>1 DEF Memory, ProperResult
    <3> QED
      BY <2>4, <3>1, <3>2
  <2>6. \A i \in 0..nextId - 1 : i \in 0..nextId' - 1
    <3>1. \A n \in Nat : \A i \in 0..n - 1 : i \in 0..(n + 1) - 1
      OBVIOUS
    <3> QED
      BY <1>0, <2>5, <3>1
  <2>7. Control'
    BY <2>1, <2>2, <2>5, <2>6 DEF Control
  <2>8. Work'
    <3>1. ProperStore(stored, nextId' - 1, ran)
      BY <1>0, <2>6 DEF Work, ProperStore
    <3> QED
      BY <2>1, <2>2, <2>3, <2>6, <3>1, NoTasks DEF Work
  <2> QED
    BY <2>5, <2>7, <2>8 DEF TInv
<1>2. CASE Tick
  <2> DEFINE ready   == PrepareNextTasks(ck, chans, updated)
             resumed == [k \in DOMAIN ready |-> Reapplied(ready[k])]
  <2>1. /\ tasks' \in {tasks, ready, resumed}
        /\ pc' \in {"exit", "run"}
        /\ status' \in {status, "out_of_steps", "done", "draining", "interrupt_before"}
        /\ UNCHANGED <<storage, ck, chans, updated, pend, savedId, durability, draining, saves, puts,
                       nextId, made, ran>>
    BY <1>2 DEF Tick, Leave
  <2>2. IsSeq(ready) /\ \A k \in DOMAIN ready : ProperTask(ready[k], ran) /\ ready[k] = [id |-> ready[k].id, writes |-> <<>>]
    BY <1>0, PreparedProper DEF Memory
  <2> HIDE DEF ready
  <2>3. IsSeq(resumed) /\ \A k \in DOMAIN resumed : ProperTask(resumed[k], ran)
    <3>1. DOMAIN ready = 1..Len(ready) /\ Len(ready) \in Nat
      BY <2>2 DEF IsSeq
    <3>2. IsSeq(resumed)
      <4>1. \A i \in 1..Len(ready) : resumed[i] \in ToSet(resumed)
        BY <3>1 DEF ToSet
      <4>2. resumed = [i \in 1..Len(ready) |-> resumed[i]]
        BY <3>1
      <4> HIDE DEF resumed
      <4> QED
        BY <3>1, <4>1, <4>2 DEF IsSeq
    <3>3. ASSUME NEW k \in DOMAIN ready PROVE ProperTask(Reapplied(ready[k]), ran)
      BY <1>0, <2>2, <3>3, ReappliedFacts
    <3> QED
      BY <3>2, <3>3
  <2> HIDE DEF resumed
  <2>4. Work'
    BY <1>0, <2>1, <2>2, <2>3 DEF Work
  <2>5. Control' /\ Memory' /\ Records'
    <3>1. pc' \in {"idle", "tick", "run", "flush", "exit", "closing"}
      BY <2>1
    <3>2. status' \in {"none", "pending", "done", "out_of_steps", "draining", "error",
                       "interrupt_before", "interrupt_after", "crashed"}
      BY <1>0, <2>1 DEF Control
    <3>3. Control'
      BY <1>0, <2>1, <3>1, <3>2 DEF Control
    <3> QED
      BY <1>0, <2>1, <3>3 DEF Memory, Records
  <2> QED
    BY <2>4, <2>5 DEF TInv
<1>3. ASSUME NEW k \in DOMAIN tasks, RunTask(k) \/ FailTask(k) PROVE TInv'
  <2>1. tasks[k].id.name \in Node
    BY <1>0 DEF Work, ProperTask
  <2>2. PICK ws : Commit(k, ws) /\ ran \subseteq ran' /\ ProperPut(tasks[k].id, ws, ran')
    <3>1. CASE RunTask(k)
      <4>1. PICK out \in Outputs[tasks[k].id.name] :
              Commit(k, IF out = <<>> THEN <<Write("NO_WRITES", NullTask)>> ELSE Resolve(tasks[k].id, out))
        BY <3>1 DEF RunTask
      <4>2. ran \subseteq ran' /\ tasks[k].id \in ran'
        BY <3>1 DEF RunTask
      <4> QED
        BY <2>1, <4>1, <4>2, RunWrites
    <3>2. CASE FailTask(k)
      <4>1. PICK out \in Partial[tasks[k].id.name] :
              Commit(k, Append(Resolve(tasks[k].id, out), Write("ERROR", NullTask)))
        BY <3>2 DEF FailTask
      <4>2. ran' = ran
        BY <3>2 DEF FailTask
      <4> QED
        BY <2>1, <4>1, <4>2, FailWrites
    <3> QED
      BY <1>3, <3>1, <3>2
  <2>3. UNCHANGED <<ckpts, pc, status, ck, chans, updated, savedId, durability, draining, saves, nextId, made>>
    BY <2>2 DEF Commit
  <2>4. Work'
    BY <1>0, <2>2, CommitProper
  <2>5. Control' /\ Memory' /\ Records'
    <3>1. Control'
      BY <1>0, <2>3 DEF Control
    <3>2. ProperAll(chans, Marked, ran')
      BY <1>0, <2>2, MoreRuns DEF Memory
    <3>3. Memory'
      BY <1>0, <2>3, <3>2 DEF Memory
    <3>4. /\ \A i \in DOMAIN ckpts : ProperRec(ckpts[i], ran')
          /\ \A i \in DOMAIN made : ProperRec(made[i], ran')
          /\ \A q \in DOMAIN saves : ProperSave(saves[q], ran')
      BY <1>0, <2>2, MoreRuns DEF Records
    <3> QED
      BY <2>3, <3>1, <3>3, <3>4 DEF Records
  <2> QED
    BY <2>4, <2>5 DEF TInv
<1>4. CASE AfterTick
  <2> DEFINE r     == ApplyWrites(ck, chans, tasks, <<>>)
             queue == Touched(saves, ConsumedBy(tasks, chans), r.chans)
  <2>1. /\ chans' = r.chans /\ UNCHANGED <<ckpts, stored, tasks, savedId, draining, puts, ran, durability>>
    BY <1>4 DEF AfterTick
  <2>2. ProperResult(r, ran)
    <3>1. ProperWrites(<<>>, Marked, ran)
      BY NoTasks DEF ProperWrites
    <3> QED
      BY <1>0, <3>1, ApplyResult DEF Memory, Work
  <2> HIDE DEF r
  <2>3. IsSeq(queue) /\ \A q \in DOMAIN queue : ProperSave(queue[q], ran)
    <3>1. /\ IsSeq(saves) /\ \A q \in DOMAIN saves : Shaped(saves[q]) /\ ProperSave(saves[q], ran)
      BY <1>0 DEF Ids, Records
    <3>2. IsSeq(queue) /\ DOMAIN queue = DOMAIN saves
      BY <3>1, TouchedFields
    <3>3. \A q \in DOMAIN saves : ProperSave(queue[q], ran)
      BY <2>2, <3>1, TouchedProper DEF ProperResult
    <3> QED
      BY <3>2, <3>3
  <2> HIDE DEF queue
  <2>4. CASE /\ ck' = [ck EXCEPT !.ver = r.ver, !.seen = r.seen] /\ saves' = queue /\ Leave("error")
             /\ UNCHANGED <<updated, pend, nextId, made>>
    <3>1. (ck'.ver = r.ver /\ ck'.seen = r.seen) \/ ck' = ck
      BY <2>4
    <3>2. Memory'
      BY <1>0, <2>1, <2>2, <2>4, <3>1 DEF Memory, ProperResult
    <3>3. Control' /\ Records' /\ Work'
      BY <1>0, <2>1, <2>3, <2>4 DEF Control, Records, Work, Leave
    <3> QED
      BY <3>2, <3>3 DEF TInv
  <2>5. CASE /\ updated' = r.updated /\ pend' = [i \in {} |-> <<>>]
             /\ PutCheckpoint("loop", r, queue, step, ck.id, cfg)
             /\ pc' \in {"exit", "flush", "tick"} /\ status' \in {status, "interrupt_after"}
    <3>1. /\ Records' /\ DOMAIN made' = 1..nextId' - 1 /\ nextId' = nextId + 1
          /\ ck'.ver \in [Chan -> Nat] /\ ProperSeen(ck'.seen)
      BY <1>0, <2>1, <2>2, <2>3, <2>5, PutProper
    <3>2. \A i \in 0..nextId - 1 : i \in 0..nextId' - 1
      BY <1>0, <3>1
    <3>3. Memory'
      BY <2>1, <2>2, <2>5, <3>1 DEF Memory, ProperResult
    <3>4. Control'
      BY <1>0, <2>1, <2>5, <3>1, <3>2 DEF Control
    <3>5. Work'
      <4>1. ProperStore(stored, nextId' - 1, ran)
        BY <1>0, <3>2 DEF Work, ProperStore
      <4>2. DOMAIN pend' = {}
        BY <2>5
      <4> QED
        BY <1>0, <2>1, <3>2, <4>1, <4>2 DEF Work
    <3> QED
      BY <3>1, <3>3, <3>4, <3>5 DEF TInv
  <2> QED
    BY <1>4, <2>4, <2>5 DEF AfterTick, Leave, r, queue
<1>5. CASE SaveCheckpoint
  <2> DEFINE h == Head(saves)
             t == Tail(saves)
             e == StoredForm(h)
  <2>1. /\ saves # <<>> /\ ckpts' = With(ckpts, h.id, e) /\ saves' = t
        /\ UNCHANGED <<stored, pc, status, ck, chans, updated, tasks, pend, savedId, durability, draining,
                       puts, nextId, made, ran>>
    BY <1>5 DEF SaveCheckpoint
  <2>2. /\ \A i \in DOMAIN t : t[i] = saves[i + 1] /\ i + 1 \in DOMAIN saves
        /\ h = saves[1] /\ 1 \in DOMAIN saves
    BY <1>0, <2>1, SeqTail DEF Ids
  <2>3. Shaped(h) /\ ProperSave(h, ran)
    BY <1>0, <2>2 DEF Ids, Records
  <2>4. ProperRec(e, ran)
    BY <2>3, StoredProper
  <2> HIDE DEF h, t, e
  <2>5. \A i \in DOMAIN ckpts' : ProperRec(ckpts'[i], ran)
    BY <1>0, <2>1, <2>4 DEF With, Records
  <2>6. \A q \in DOMAIN saves' : ProperSave(saves'[q], ran)
    BY <1>0, <2>1, <2>2 DEF Records
  <2> QED
    BY <1>0, <2>1, <2>5, <2>6 DEF TInv, Control, Memory, Records, Work
<1>6. CASE SaveWrites
  <2>1. PICK p \in puts : stored' = PutWrites(stored, p.ck, p.id, p.writes) /\ puts' = puts \ {p}
    BY <1>6 DEF SaveWrites
  <2>2. UNCHANGED <<ckpts, pc, status, ck, chans, updated, tasks, pend, savedId, durability, draining,
                    saves, nextId, made, ran>>
    BY <1>6 DEF SaveWrites
  <2>3. ProperStore(stored', nextId - 1, ran)
    BY <1>0, <2>1, PutWritesProper DEF Work
  <2>4. Work'
    BY <1>0, <2>1, <2>2, <2>3 DEF Work
  <2> QED
    BY <1>0, <2>2, <2>4 DEF TInv, Control, Memory, Records
<1>7. CASE LeaveLoop
  <2>1. /\ pc' = "closing"
        /\ UNCHANGED <<ckpts, stored, status, ck, chans, updated, tasks, pend, savedId, durability, draining,
                       nextId, made, ran>>
    BY <1>7 DEF LeaveLoop
  <2>2. \A q \in DOMAIN saves' : ProperSave(saves'[q], ran)
    <3> DEFINE e == Unsaved(ExitRecord)
    <3>1. saves' = saves \/ saves' = Append(saves, e)
      BY <1>7 DEF LeaveLoop
    <3>2. ProperSave(e, ran)
      BY <1>0, RecordProper DEF ExitRecord, Memory
    <3> HIDE DEF e
    <3>3. CASE saves' = Append(saves, e)
      <4>1. \A q \in DOMAIN saves' : (q \in DOMAIN saves /\ saves'[q] = saves[q]) \/ saves'[q] = e
        BY <1>0, <3>3, SeqAppend DEF Ids
      <4> QED
        BY <1>0, <3>2, <4>1 DEF Records
    <3> QED
      BY <1>0, <3>1, <3>3 DEF Records
  <2>3. \A p \in puts' : p.ck \in 0..nextId - 1 /\ ProperPut(p.id, p.writes, ran)
    <3>1. \A p \in puts' : p \in puts \/ \E i \in DOMAIN pend : p = [ck |-> ck.id, id |-> i, writes |-> pend[i]]
      BY <1>7 DEF LeaveLoop
    <3>2. ck.id \in 0..nextId - 1
      BY <1>0 DEF Ids
    <3> QED
      BY <1>0, <3>1, <3>2 DEF Work
  <2> QED
    BY <1>0, <2>1, <2>2, <2>3 DEF TInv, Control, Memory, Records, Work
<1>8. CASE Close \/ Crash
  <2>1. /\ Forget /\ pc' = "idle" /\ status' \in {status, "crashed"}
        /\ UNCHANGED <<ckpts, stored, nextId, made, ran>>
    BY <1>8 DEF Close, Crash
  <2>2. /\ ck'.ver = NullVersions /\ ck'.seen = NoSeen /\ chans' = [c \in Chan |-> Fresh(c)]
        /\ updated' = {} /\ tasks' = <<>> /\ DOMAIN pend' = {} /\ savedId' = 0 /\ durability' = "none"
        /\ draining' = FALSE /\ saves' = <<>> /\ puts' = {}
    BY <2>1 DEF Forget
  <2>3. Memory'
    <3>1. ProperSeen(NoSeen) /\ NullVersions \in [Chan -> Nat]
      BY DEF NoSeen, ProperSeen, NullVersions
    <3> QED
      BY <2>2, <3>1, FreshAllProper DEF Memory
  <2>4. Control'
    <3>1. 0 \in 0..nextId - 1
      BY <1>0
    <3> QED
      BY <1>0, <2>1, <2>2, <3>1 DEF Control
  <2>5. Records' /\ Work'
    BY <1>0, <2>1, <2>2, NoTasks DEF Records, Work
  <2> QED
    BY <2>3, <2>4, <2>5 DEF TInv
<1>9. CASE Panic \/ Flushed \/ RequestDrain \/ UNCHANGED vars
  <2>1. /\ UNCHANGED <<ckpts, stored, ck, chans, updated, tasks, pend, savedId, durability, saves, puts,
                       nextId, made, ran>>
        /\ pc' \in {pc, "exit", "tick"} /\ status' \in {status, "error"} /\ draining' \in {draining, TRUE}
    BY <1>9 DEF Panic, Leave, Flushed, RequestDrain, vars
  <2>2. Control'
    BY <1>0, <2>1 DEF Control
  <2> QED
    BY <1>0, <2>1, <2>2 DEF TInv, Memory, Records, Work
<1> QED
  BY <1>1, <1>2, <1>3, <1>4, <1>5, <1>6, <1>7, <1>8, <1>9 DEF Next, Step

(* The invariant holds.                                                    *)
LEMMA TypesInductive == Spec => []TInv
BY InitTypes, TypesStep, OrderInductive, PTL DEF Spec

(* Types, and that a checkpoint is made before anything refers to its id:  *)
(* the queue, the store, the loop and what it was derived from             *)
(* (_put_checkpoint), also in the invocation that follows a crash.         *)
THEOREM TypeCorrect == Spec => []TypeOK
<1>1. QInv /\ TInv => TypeOK
  <2> SUFFICES ASSUME QInv, TInv PROVE TypeOK
    OBVIOUS
  <2>1. Ids /\ Queue /\ Control /\ Memory /\ Work
    BY DEF QInv, TInv
  <2>2. cfg \in 0..nextId - 1
    <3>1. cfg \in DOMAIN ckpts \cup {0} \cup IdsOf(saves) /\ nextId \in Nat \ {0}
      BY <2>1 DEF Queue, Ids
    <3>2. cfg \in 1..nextId - 1 \/ cfg = 0
      BY <2>1, <3>1 DEF Ids
    <3> QED
      BY <3>1, <3>2
  <2>3. \A q \in DOMAIN saves : saves[q].id \in 1..nextId - 1
    BY <2>1 DEF Ids, IdsOf
  <2>4. DOMAIN chans = Chan
    <3>1. chans = [c \in Chan |-> chans[c]]
      BY <2>1 DEF Memory, ProperAll
    <3> QED
      BY <3>1
  <2>5. \A k \in DOMAIN tasks : tasks[k].id.name \in Node
    BY <2>1 DEF Work, ProperTask
  <2> QED
    BY <2>1, <2>2, <2>3, <2>4, <2>5 DEF TypeOK, Ids, Control, Memory, ProperSeen
<1> QED
  BY <1>1, TypesInductive, OrderInductive, PTL

(* Whatever a checkpoint holds was written by a task that ran to its end:  *)
(* no failure, pause, drain or crash, and no writes that were stored and   *)
(* applied by a later invocation, bring in the run of a task that did not. *)
(* The hypothesis is needed: what a node wrote before it raised is saved,  *)
(* and is applied by the invocation that resumes (FindPartialWrites).      *)
THEOREM OnlyCompletedRunsSafe ==
  ASSUME Quiet
  PROVE  Spec => []OnlyCompletedRuns
<1>1. TInv => OnlyCompletedRuns
  <2> SUFFICES ASSUME TInv, NEW id \in DOMAIN made
               PROVE  Held(made[id], LOG) \subseteq ran
    BY DEF OnlyCompletedRuns
  <2>1. LOG \in Marked /\ LOG \in Chan
    BY LoopAssumption DEF Marked
  <2>2. \A s \in made[id].vals[LOG] : Proper(LOG, s, Marked, ran)
    BY <2>1 DEF TInv, Records, ProperRec
  <2>3. \A s \in made[id].vals[LOG] : ToSet(s.vals) \subseteq ran
    BY <2>1, <2>2 DEF Proper
  <2> QED
    BY <2>3 DEF Held
<1> QED
  BY <1>1, TypesInductive, PTL

-------------------------------------------------------------------------------
(* What is stored is not run again.                                        *)

LEMMA KnownInit == Init => Known
BY DEF Init, Known

(* What most steps leave alone.                                            *)
LEMMA SameKnown ==
  ASSUME Known, UNCHANGED <<puts, stored, pend, ck, tasks>>,
         pc' = pc \/ (pc = "flush" /\ pc' = "tick") \/ pc' \notin {"tick", "run", "flush"}
  PROVE  Known'
BY DEF Known, Finished

(* A task has not the id of a client's writes.                             *)
LEMMA NullIsNoTask ==
  ASSUME Work, NEW k \in DOMAIN tasks
  PROVE  tasks[k].id # NullTask
BY LoopAssumption DEF Work, ProperTask, NullTask

(* Every step of the loop.                                                 *)
LEMMA KnownStep == QInv /\ TInv /\ Known /\ [Next]_vars => Known'
<1> SUFFICES ASSUME QInv, TInv, Known, [Next]_vars PROVE Known'
  OBVIOUS
<1> USE DEF storage, loop, background, counters, observers
<1>0. Ids /\ Memory /\ Work /\ nextId \in Nat \ {0}
  BY DEF QInv, TInv, Ids
<1>1. ASSUME NEW req \in Requests, NEW d \in Durabilities, Invoke(req, d) PROVE Known'
  <2>1. /\ pc' = "tick" /\ UNCHANGED stored
    BY <1>1, Zenon DEF Invoke
  <2>2. \A p \in puts' : p.id = NullTask
    BY <1>0, <1>1, InvokeProper
  <2>3. PICK P : (pend' = P \/ \E ws : pend' = With(P, NullTask, ws)) /\ P = PendingWrites(Latest.id)
    BY <1>0, <1>1, InvokeProper
  <2>4. ck'.id = Latest.id \/ ck'.id = nextId
    <3>1. ck'.id = Latest.id \/ \E i : PutCheckpoint("input", i, <<>>, Latest.step + 1, Latest.id, Latest.id)
      BY <1>1, InvokeFacts
    <3>2. ASSUME NEW i, PutCheckpoint("input", i, <<>>, Latest.step + 1, Latest.id, Latest.id)
          PROVE  ck'.id = nextId
      <4>1. ck' = [id |-> nextId, ver |-> i.ver, seen |-> i.seen]
        BY <3>2 DEF PutCheckpoint
      <4> QED
        BY <4>1
    <3> QED
      BY <3>1, <3>2
  <2>5. ASSUME NEW x \in DOMAIN stored, x.ck = ck'.id, x.id # NullTask, Reports(stored[x])
        PROVE  x.id \in DOMAIN pend' /\ \E i \in DOMAIN pend'[x.id] : Reports(pend'[x.id][i])
    <3>1. x.ck \in 0..nextId - 1
      BY <1>0 DEF Work, ProperStore
    <3>2. x.ck = Latest.id
      BY <1>0, <2>4, <2>5, <3>1
    <3>3. x.id \in DOMAIN P /\ \E i \in DOMAIN P[x.id] : P[x.id][i] = stored[x]
      BY <1>0, <2>3, <3>2, PendingProper
    <3>4. x.id \in DOMAIN pend' /\ pend'[x.id] = P[x.id]
      BY <2>3, <2>5, <3>3 DEF With
    <3> QED
      BY <2>5, <3>3, <3>4
  <2> QED
    BY <2>1, <2>2, <2>5 DEF Known, Finished
<1>2. CASE Tick
  <2> DEFINE ready   == PrepareNextTasks(ck, chans, updated)
             resumed == [k \in DOMAIN ready |-> Reapplied(ready[k])]
  <2>1. pc = "tick" /\ pc' \in {"exit", "run"} /\ UNCHANGED <<storage, ck, pend, puts>>
        /\ (pc' = "run" => tasks' = resumed)
    BY <1>2 DEF Tick, Leave
  <2>2. CASE pc' = "exit"
    BY <2>2 DEF Known
  <2>3. CASE pc' = "run"
    <3>1. /\ \A k \in DOMAIN ready : ProperTask(ready[k], ran)
          /\ \A j, k \in DOMAIN ready : ready[j].id = ready[k].id => j = k
      BY <1>0, PreparedProper DEF Memory
    <3> HIDE DEF ready
    <3>2. DOMAIN tasks' = DOMAIN ready
      BY <2>1, <2>3
    <3>3. \A k \in DOMAIN ready : /\ tasks'[k].id = ready[k].id /\ ready[k].id # NullTask
                                  /\ Finished(ready[k].id) => tasks'[k].writes # <<>>
      <4>1. \A k \in DOMAIN ready : tasks'[k] = Reapplied(ready[k])
        BY <2>1, <2>3
      <4>2. \A k \in DOMAIN ready : ready[k].id # NullTask
        BY <3>1, LoopAssumption DEF ProperTask, NullTask
      <4> QED
        BY <1>0, <3>1, <4>1, <4>2, ReappliedFacts
    <3>4. /\ \A p \in puts : p.ck = ck.id => p.id = NullTask
          /\ \A x \in DOMAIN stored :
               x.ck = ck.id /\ x.id # NullTask /\ Reports(stored[x]) => Finished(x.id)
      BY <2>1 DEF Known
    <3>5. ASSUME NEW k \in DOMAIN tasks', tasks'[k].writes = <<>>
          PROVE  /\ \A p \in puts : ~ (p.ck = ck.id /\ p.id = tasks'[k].id)
                 /\ \A x \in DOMAIN stored :
                      ~ (x.ck = ck.id /\ x.id = tasks'[k].id /\ Reports(stored[x]))
      BY <3>2, <3>3, <3>4, <3>5
    <3>6. \A j, k \in DOMAIN tasks' : tasks'[j].id = tasks'[k].id => j = k
      BY <3>1, <3>2, <3>3
    <3> QED
      BY <2>1, <2>3, <3>5, <3>6 DEF Known
  <2> QED
    BY <2>1, <2>2, <2>3
<1>3. ASSUME NEW k \in DOMAIN tasks, RunTask(k) \/ FailTask(k) PROVE Known'
  <2>1. PICK ws : Commit(k, ws) /\ ws # <<>>
    <3>1. tasks[k].id.name \in Node
      BY <1>0 DEF Work, ProperTask
    <3>2. CASE RunTask(k)
      <4>1. PICK out \in Outputs[tasks[k].id.name] :
              Commit(k, IF out = <<>> THEN <<Write("NO_WRITES", NullTask)>> ELSE Resolve(tasks[k].id, out))
        BY <3>2 DEF RunTask
      <4> DEFINE ws == IF out = <<>> THEN <<Write("NO_WRITES", NullTask)>> ELSE Resolve(tasks[k].id, out)
      <4>2. ws # <<>>
        <5>1. tasks[k].id \in {tasks[k].id}
          OBVIOUS
        <5> QED
          BY <3>1, <5>1, RunWrites
      <4> HIDE DEF ws
      <4> QED
        BY <4>1, <4>2 DEF ws
    <3>3. CASE FailTask(k)
      <4>1. PICK out \in Partial[tasks[k].id.name] :
              Commit(k, Append(Resolve(tasks[k].id, out), Write("ERROR", NullTask)))
        BY <3>3 DEF FailTask
      <4> QED
        BY <3>1, <4>1, FailWrites
    <3> QED
      BY <1>3, <3>2, <3>3
  <2>2. /\ pc = "run" /\ UNCHANGED <<pc, stored, ck>>
        /\ tasks' = [tasks EXCEPT ![k].writes = ws]
        /\ puts' = puts \/ puts' = puts \cup {[ck |-> ck.id, id |-> tasks[k].id, writes |-> ws]}
    BY <2>1 DEF Commit, CanRun, SubmitPut
  <2>3. /\ DOMAIN tasks' = DOMAIN tasks
        /\ \A j \in DOMAIN tasks : /\ tasks'[j].id = tasks[j].id
                                   /\ j # k => tasks'[j] = tasks[j]
        /\ tasks'[k].writes = ws
    <3>1. tasks[k] = [id |-> tasks[k].id, writes |-> tasks[k].writes]
      BY <1>0 DEF Work, ProperTask
    <3>2. DOMAIN tasks' = DOMAIN tasks /\ \A j \in DOMAIN tasks : j # k => tasks'[j] = tasks[j]
      BY <2>2
    <3>3. tasks'[k] = [tasks[k] EXCEPT !.writes = ws]
      BY <2>2
    <3>4. tasks'[k].id = tasks[k].id /\ tasks'[k].writes = ws
      BY <3>1, <3>3
    <3> QED
      BY <3>2, <3>4
  <2>4. \A j \in DOMAIN tasks' : tasks'[j].writes = <<>> =>
          j # k /\ tasks[j].writes = <<>> /\ tasks'[j].id = tasks[j].id /\ tasks[j].id # tasks[k].id
    BY <2>1, <2>2, <2>3 DEF Known
  <2>5. ASSUME NEW j \in DOMAIN tasks', tasks'[j].writes = <<>>
        PROVE  /\ \A p \in puts' : ~ (p.ck = ck.id /\ p.id = tasks'[j].id)
               /\ \A x \in DOMAIN stored :
                    ~ (x.ck = ck.id /\ x.id = tasks'[j].id /\ Reports(stored[x]))
    BY <2>2, <2>3, <2>4, <2>5 DEF Known
  <2> QED
    BY <2>2, <2>3, <2>5 DEF Known
<1>4. CASE AfterTick
  <2>1. CASE pc' = "exit"
    BY <2>1 DEF Known
  <2>2. CASE pc' # "exit"
    <3>1. /\ ck'.id = nextId /\ pc' \in {"tick", "flush"} /\ UNCHANGED <<stored, puts>>
      BY <1>4, <2>2 DEF AfterTick, PutCheckpoint, Leave
    <3>2. /\ \A p \in puts : p.ck \in 0..nextId - 1
          /\ \A x \in DOMAIN stored : x.ck \in 0..nextId - 1
      BY <1>0 DEF Work, ProperStore
    <3>3. nextId \notin 0..nextId - 1
      BY <1>0
    <3> QED
      BY <3>1, <3>2, <3>3 DEF Known
  <2> QED
    BY <2>1, <2>2
<1>5. CASE SaveWrites
  <2>1. PICK p \in puts : stored' = PutWrites(stored, p.ck, p.id, p.writes) /\ puts' = puts \ {p}
    BY <1>5 DEF SaveWrites
  <2>2. UNCHANGED <<pc, ck, tasks, pend>>
    BY <1>5 DEF SaveWrites
  <2>3. \A x \in DOMAIN stored' : \/ x \in DOMAIN stored /\ stored'[x] = stored[x]
                                  \/ x.ck = p.ck /\ x.id = p.id
    BY <1>0, <2>1, PutWritesProper DEF Work
  <2>4. CASE pc \in {"tick", "flush"}
    <3>1. \A x \in DOMAIN stored' :
            x.ck = ck.id /\ x.id # NullTask /\ Reports(stored'[x]) => Finished(x.id)
      BY <2>1, <2>3, <2>4 DEF Known
    <3> QED
      BY <2>1, <2>2, <2>4, <3>1 DEF Known, Finished
  <2>5. CASE pc = "run"
    <3>1. ASSUME NEW k \in DOMAIN tasks, tasks[k].writes = <<>>
          PROVE  /\ \A y \in puts' : ~ (y.ck = ck.id /\ y.id = tasks[k].id)
                 /\ \A x \in DOMAIN stored' :
                      ~ (x.ck = ck.id /\ x.id = tasks[k].id /\ Reports(stored'[x]))
      BY <2>1, <2>3, <2>5, <3>1 DEF Known
    <3> QED
      BY <2>2, <2>5, <3>1 DEF Known
  <2>6. CASE pc \notin {"tick", "flush", "run"}
    BY <2>2, <2>6 DEF Known
  <2> QED
    BY <2>4, <2>5, <2>6
<1>6. CASE SaveCheckpoint \/ Panic \/ Flushed \/ RequestDrain \/ UNCHANGED vars
  BY <1>6, SameKnown DEF SaveCheckpoint, Panic, Leave, Flushed, CanGoOn, RequestDrain, vars
<1>7. CASE LeaveLoop \/ Close \/ Crash
  <2>1. pc' \in {"closing", "idle"}
    BY <1>7 DEF LeaveLoop, Close, Crash
  <2> QED
    BY <2>1 DEF Known
<1> QED
  BY <1>1, <1>2, <1>3, <1>4, <1>5, <1>6, <1>7 DEF Next, Step

(* A task whose writes are stored is not run again: not by an invocation   *)
(* that resumes after a failure, a pause or a crash, whatever of the rest  *)
(* of its step was lost (put_writes, tick, _reapply_writes...).            *)
THEOREM DurableIsNotRerun == Spec => NoRerunOfDurable
<1>1. QInv /\ TInv /\ Known /\ [Next]_vars =>
        (pc = "run" /\ pc' = "run" =>
           \A k \in DOMAIN tasks :
             tasks[k].writes = <<>> /\ tasks'[k].writes # <<>> =>
               ~ \E x \in DOMAIN stored : /\ x.ck = ck.id /\ x.id = TaskId(k)
                                          /\ stored[x].chan # "ERROR")
  <2> SUFFICES ASSUME TInv, Known, pc = "run", NEW k \in DOMAIN tasks, tasks[k].writes = <<>>,
                      NEW x \in DOMAIN stored, x.ck = ck.id, x.id = tasks[k].id, stored[x].chan # "ERROR"
               PROVE  FALSE
    BY DEF TaskId
  <2>1. Work
    BY DEF TInv
  <2>2. x.id # NullTask /\ ProperWrite(x.id, stored[x], ran)
    BY <2>1, NullIsNoTask DEF Work, ProperStore
  <2>3. stored[x].chan \in Chan \cup {"NO_WRITES"}
    BY <2>2 DEF ProperWrite
  <2>4. INTERRUPT \notin Chan \cup {"NO_WRITES"} /\ "RESUME" \notin Chan
    BY AlgoAssumption DEF ControlChan
  <2>5. Reports(stored[x])
    BY <2>3, <2>4 DEF Reports
  <2> QED
    BY <2>5 DEF Known
<1>2. QInv /\ TInv /\ Known /\ [Next]_vars =>
        [pc = "run" /\ pc' = "run" =>
           \A k \in DOMAIN tasks :
             tasks[k].writes = <<>> /\ tasks'[k].writes # <<>> =>
               ~ \E x \in DOMAIN stored : /\ x.ck = ck.id /\ x.id = TaskId(k)
                                          /\ stored[x].chan # "ERROR"]_vars
  BY <1>1
<1> QED
  BY <1>2, KnownInit, KnownStep, TypesInductive, OrderInductive, PTL DEF Spec, NoRerunOfDurable

-------------------------------------------------------------------------------
(* Which nodes the updated channels of a checkpoint lead to.               *)

(* No invocation with durability "exit" writes down a step that a channel  *)
(* has rejected.                                                           *)
Accepted ==
  pc = "run" /\ durability = "exit" => ~ ApplyWrites(ck, chans, tasks, <<>>).invalid

(* What is restored from a record leads to the nodes that it triggers.     *)
Leading(rec) ==
  /\ Leads(rec, Restored(rec.vals), rec.updated)
  /\ Dormant(rec.ver, Restored(rec.vals))

LeadingSave(e) == Leading(e) /\ e.shared = {}

ScanInv ==
  /\ \A i \in DOMAIN ckpts : Leading(ckpts[i])
  /\ \A q \in DOMAIN saves : LeadingSave(saves[q])
  /\ pc \in {"tick", "run", "flush"} \/ (pc = "exit" /\ durability = "exit") =>
       Leads(ck, chans, updated) /\ Dormant(ck.ver, chans)
  /\ pc = "run" => AllTriggered(ck, chans, tasks)

(* Only versions and what the nodes have seen matter to these.             *)
LEMMA SameTriggers ==
  ASSUME NEW a, NEW b, a.ver = b.ver,
         \A n \in Node : /\ n \in DOMAIN a.seen <=> n \in DOMAIN b.seen
                         /\ n \in DOMAIN a.seen => a.seen[n] = b.seen[n]
  PROVE  \A chs, upd, ts : /\ Leads(a, chs, upd) => Leads(b, chs, upd)
                           /\ AllTriggered(a, chs, ts) => AllTriggered(b, chs, ts)
<1>1. \A chs : \A n \in Node : Triggered(b, chs, n) => Triggered(a, chs, n)
  BY DEF Triggered
<1> QED
  BY <1>1 DEF Leads, AllTriggered

(* A record leads where the channels it is made of lead.                   *)
LEMMA RestoredLeads ==
  ASSUME SilentTriggers, NEW k, NEW chs, NEW upd, Leads(k, chs, upd), Dormant(k.ver, chs),
         NEW rec, rec.ver = k.ver, rec.seen = k.seen, rec.updated = upd,
         \A c \in Chan : rec.vals[c] = Snapshot(chs, k.ver)[c]
  PROVE  Leading(rec)
<1> DEFINE new == Restored(rec.vals)
<1>1. ASSUME NEW c \in Chan PROVE new[c] \in {Fresh(c), chs[c]}
  <2>1. new[c] = FromCheckpoint(c, rec.vals[c])
    BY DEF Restored
  <2>2. rec.vals[c] = {} \/ rec.vals[c] = {chs[c]}
    BY DEF Snapshot, Checkpoint
  <2> QED
    BY <2>1, <2>2 DEF FromCheckpoint
<1> HIDE DEF new
<1>2. ASSUME NEW n \in Node, NEW c \in TriggersOf[n], IsAvailable(c, new[c])
      PROVE  new[c] = chs[c]
  <2>1. c \in Chan /\ ~ IsAvailable(c, Fresh(c))
    BY AlgoAssumption DEF SilentTriggers, Silent
  <2> QED
    BY <1>1, <1>2, <2>1
<1>3. \A n \in Node : Triggered(rec, new, n) => Triggered(k, chs, n)
  BY <1>2 DEF Triggered
<1>4. Dormant(rec.ver, new)
  BY <1>2 DEF Dormant
<1> QED
  BY <1>3, <1>4 DEF Leading, Leads, new

LEMMA SameLeading ==
  ASSUME NEW a, NEW b, a.ver = b.ver, a.seen = b.seen, a.updated = b.updated,
         \A c \in Chan : a.vals[c] = b.vals[c], Leading(a)
  PROVE  Leading(b)
<1>1. Restored(a.vals) = Restored(b.vals)
  BY DEF Restored
<1>2. Leads(b, Restored(b.vals), b.updated)
  BY <1>1, SameTriggers DEF Leading
<1> QED
  BY <1>1, <1>2 DEF Leading

(* The checkpoint that get_tuple returns.                                  *)
LEMMA LatestLeads ==
  ASSUME SilentTriggers, Ids, ScanInv
  PROVE  Leading(Latest)
<1>1. CASE Latest = EmptyCheckpoint
  <2> DEFINE rec == EmptyCheckpoint
  <2>1. rec.updated = {} /\ rec.vals = [c \in Chan |-> {}]
    BY DEF EmptyCheckpoint
  <2> HIDE DEF rec
  <2>2. Restored(rec.vals) = [c \in Chan |-> Fresh(c)]
    BY <2>1 DEF Restored, FromCheckpoint
  <2>3. \A n \in Node : \A c \in TriggersOf[n] : ~ IsAvailable(c, Restored(rec.vals)[c])
    BY <2>2, AlgoAssumption DEF SilentTriggers, Silent
  <2>4. Leading(rec)
    BY <2>1, <2>3 DEF Leading, Leads, Dormant
  <2> QED
    BY <1>1, <2>4 DEF rec
<1>2. CASE Latest.id \in DOMAIN ckpts /\ Latest = ckpts[Latest.id]
  BY <1>2 DEF ScanInv
<1> QED
  BY <1>1, <1>2, LatestFacts

(* With nothing shared, a superstep leaves what waits as it is.            *)
LEMMA TouchedLeads ==
  ASSUME NEW queue, IsSeq(queue), NEW consumed, NEW new,
         \A q \in DOMAIN queue : Shaped(queue[q]) /\ LeadingSave(queue[q])
  PROVE  LET t == Touched(queue, consumed, new)
         IN  IsSeq(t) /\ \A q \in DOMAIN t : LeadingSave(t[q])
<1> DEFINE t == Touched(queue, consumed, new)
<1>1. /\ IsSeq(t) /\ DOMAIN t = DOMAIN queue
      /\ \A q \in DOMAIN queue : \A f \in Fields \ {"vals"} : t[q][f] = queue[q][f]
  BY TouchedFields
<1>2. ASSUME NEW q \in DOMAIN queue PROVE LeadingSave(t[q])
  <2>1. t[q].ver = queue[q].ver /\ t[q].seen = queue[q].seen /\ t[q].updated = queue[q].updated
    BY <1>1 DEF Fields
  <2>2. queue[q].shared = {} /\ Leading(queue[q])
    BY DEF LeadingSave
  <2>3. "shared" \in DOMAIN queue[q] /\ "vals" \in DOMAIN queue[q]
    BY DEF Shaped, Fields
  <2>4. t[q].shared = {} /\ t[q].vals = [c \in Chan |-> queue[q].vals[c]]
    BY <2>2, <2>3 DEF Touched
  <2> HIDE DEF t
  <2>5. \A c \in Chan : t[q].vals[c] = queue[q].vals[c]
    BY <2>4
  <2> QED
    BY <2>1, <2>2, <2>4, <2>5, SameLeading DEF LeadingSave
<1> QED
  BY <1>1, <1>2

(* _put_checkpoint, of what apply_writes returned.                         *)
LEMMA PutLeads ==
  ASSUME NoneShared, SilentTriggers, NEW src, NEW r, NEW queue, NEW s, NEW prev, NEW parent,
         PutCheckpoint(src, r, queue, s, prev, parent),
         Leads(r, r.chans, r.updated), Dormant(r.ver, r.chans),
         IsSeq(queue), \A q \in DOMAIN queue : LeadingSave(queue[q])
  PROVE  /\ \A q \in DOMAIN saves' : LeadingSave(saves'[q])
         /\ Leads(ck', r.chans, r.updated) /\ Dormant(ck'.ver, r.chans)
<1> DEFINE rec == Record(nextId, r.ver, r.seen, r.updated, r.chans, s, src, parent)
           e   == Unsaved(rec)
<1>1. /\ ck' = [id |-> nextId, ver |-> r.ver, seen |-> r.seen]
      /\ saves' = queue \/ saves' = Append(queue, e)
  BY DEF PutCheckpoint
<1>2. ck'.ver = r.ver /\ ck'.seen = r.seen
  BY <1>1
<1>3. LeadingSave(e)
  <2>1. /\ rec.ver = r.ver /\ rec.seen = r.seen /\ rec.updated = r.updated
        /\ rec.vals = Snapshot(r.chans, r.ver)
    BY DEF Record
  <2>2. (\A f \in Fields : e[f] = rec[f]) /\ e.shared = Shared(r.ver)
    BY SaveFields
  <2>3. /\ e.ver = r.ver /\ e.seen = r.seen /\ e.updated = r.updated
        /\ e.vals = Snapshot(r.chans, r.ver)
    BY <2>1, <2>2 DEF Fields
  <2>4. Shared(r.ver) = {}
    BY DEF NoneShared, Shared
  <2> HIDE DEF e, rec
  <2>5. Leading(e)
    BY <2>3, RestoredLeads
  <2> QED
    BY <2>2, <2>4, <2>5 DEF LeadingSave
<1> HIDE DEF e
<1>4. \A q \in DOMAIN saves' : LeadingSave(saves'[q])
  <2>1. CASE saves' = Append(queue, e)
    <3>1. \A q \in DOMAIN saves' : (q \in DOMAIN queue /\ saves'[q] = queue[q]) \/ saves'[q] = e
      BY <2>1, SeqAppend
    <3> QED
      BY <1>3, <3>1
  <2> QED
    BY <1>1, <2>1
<1> QED
  BY <1>2, <1>4, SameTriggers

(* Channels with types are states.                                         *)
LEMMA ProperStates == \A chs, R : ProperAll(chs, Marked, R) => States(chs)
BY DEF ProperAll, Proper, States

(* An invocation that resumes adds what the client wrote to the updated    *)
(* channels of the checkpoint; one with new input first gives a task to    *)
(* every node that is triggered, and drops these tasks.                    *)
LEMMA InvokeLeads ==
  ASSUME NoneShared, SilentTriggers, Ids, TInv, ScanInv, NEW req, NEW d, Invoke(req, d)
  PROVE  /\ \A q \in DOMAIN saves' : LeadingSave(saves'[q])
         /\ Leads(ck', chans', updated') /\ Dormant(ck'.ver, chans')
<1> DEFINE base    == Latest
           loaded  == PendingWrites(base.id)
           cmd     == CommandWrites(req, invocations + 1)
           old     == IF NullTask \in DOMAIN loaded THEN loaded[NullTask] ELSE <<>>
           null    == IF cmd = <<>> THEN old ELSE Selected(old, {w \in ToSet(old) : IsData(w)}) \o cmd
           ck0     == [id |-> base.id, ver |-> base.ver, seen |-> base.seen]
           chans0  == Restored(base.vals)
           none    == [ver |-> ck0.ver, seen |-> ck0.seen, chans |-> chans0, updated |-> {}]
           r       == IF null = <<>> THEN none ELSE ApplyWrites(ck0, chans0, <<>>, null)
           upd     == IF base.updated = {} THEN {} ELSE base.updated \cup r.updated
           ck1     == [ck0 EXCEPT !.ver = r.ver, !.seen = r.seen]
           discard == PrepareNextTasks(ck1, r.chans, {})
           x       == <<Write(START, ClientId(invocations + 1))>>
           input   == ApplyWrites(ck1, r.chans, discard, x)
<1>1. \/ /\ ck' = [id |-> base.id, ver |-> r.ver, seen |-> With(r.seen, INTERRUPT, r.ver)]
         /\ saves' = <<>> /\ chans' = r.chans /\ updated' = upd
      \/ /\ PutCheckpoint("input", input, <<>>, base.step + 1, base.id, base.id)
         /\ chans' = input.chans /\ updated' = input.updated
  BY Zenon DEF Invoke
<1>0. null = <<>> \/ ProperWrites(null, Marked, ran)
  <2>1. pend' = IF cmd = <<>> THEN loaded ELSE With(loaded, NullTask, null)
    BY Zenon DEF Invoke
  <2>2. null # <<>> => NullTask \in DOMAIN pend' /\ pend'[NullTask] = null
    <3>1. cmd = <<>> => null = old
      OBVIOUS
    <3> HIDE DEF null, cmd, loaded
    <3> QED
      BY <2>1, <3>1 DEF With
  <2> HIDE DEF null
  <2> QED
    BY <2>2, InvokeProper, PutIsWrites
<1> HIDE DEF null, cmd
<1>2. ProperRec(base, ran) /\ Leading(base)
  BY LatestProper, LatestLeads DEF TInv
<1>3. /\ ck0.ver \in [Chan -> Nat] /\ ProperAll(chans0, Marked, ran)
      /\ ck0.ver = base.ver /\ ck0.seen = base.seen
  BY <1>2, RestoredProper DEF ProperRec
<1>4. States(chans0) /\ IsSeq(chans0[TASKS].vals)
  BY <1>3, ProperStates, AlgoAssumption DEF ProperAll, Proper, Barriers
<1>5. Leads(ck0, chans0, base.updated) /\ Dormant(ck0.ver, chans0)
  BY <1>2, <1>3, SameTriggers DEF Leading
<1> HIDE DEF ck0, chans0
<1>6. /\ r.ver \in [Chan -> Nat] /\ States(r.chans) /\ IsSeq(r.chans[TASKS].vals)
      /\ Dormant(r.ver, r.chans) /\ Leads(r, r.chans, upd)
  <2>1. CASE null = <<>>
    <3>1. r.ver = ck0.ver /\ r.seen = ck0.seen /\ r.chans = chans0 /\ r.updated = {}
      BY <2>1
    <3>2. upd = base.updated
      BY <3>1
    <3> HIDE DEF r, upd
    <3> QED
      BY <1>3, <1>4, <1>5, <3>1, <3>2, SameTriggers
  <2>2. CASE null # <<>>
    <3>1. r = ApplyWrites(ck0, chans0, <<>>, null)
      BY <2>2
    <3>2. upd = IF base.updated = {} THEN {} ELSE base.updated \cup r.updated
      OBVIOUS
    <3> HIDE DEF r, upd
    <3>3. r.ver \in [Chan -> Nat] /\ States(r.chans)
      BY <1>3, <1>4, <3>1, ApplyTracks
    <3>4. Dormant(r.ver, r.chans) /\ Leads(r, r.chans, upd)
      BY <1>3, <1>4, <1>5, <3>1, <3>2, ClientLeads
    <3>5. IsSeq(r.chans[TASKS].vals)
      <4>1. ProperResult(r, ran)
        <5>1. ProperSeen(ck0.seen) /\ ProperWrites(null, Marked, ran)
          BY <1>0, <1>2, <1>3, <2>2 DEF ProperRec
        <5>2. \A k \in DOMAIN <<>> : ProperTask(<<>>[k], ran)
          BY NoTasks
        <5> QED
          BY <1>3, <3>1, <5>1, <5>2, NoTasks, ApplyResult
      <4> QED
        BY <4>1, AlgoAssumption DEF ProperResult, ProperAll, Proper, Barriers
    <3> QED
      BY <3>3, <3>4, <3>5
  <2> QED
    BY <2>1, <2>2
<1> HIDE DEF r, upd
<1>7. CASE /\ ck' = [id |-> base.id, ver |-> r.ver, seen |-> With(r.seen, INTERRUPT, r.ver)]
           /\ saves' = <<>> /\ chans' = r.chans /\ updated' = upd
  <2>1. ck'.ver = r.ver /\ ck'.seen = With(r.seen, INTERRUPT, r.ver)
    BY <1>7
  <2>2. \A n \in Node : /\ n \in DOMAIN r.seen <=> n \in DOMAIN ck'.seen
                        /\ n \in DOMAIN r.seen => r.seen[n] = ck'.seen[n]
    <3>1. INTERRUPT \notin Node
      BY AlgoAssumption
    <3> QED
      BY <2>1, <3>1 DEF With
  <2>3. Leads(ck', r.chans, upd)
    BY <1>6, <2>1, <2>2, SameTriggers
  <2> QED
    BY <1>6, <1>7, <2>1, <2>3, EmptyQueue
<1>8. CASE /\ PutCheckpoint("input", input, <<>>, base.step + 1, base.id, base.id)
           /\ chans' = input.chans /\ updated' = input.updated
  <2>1. ck1.ver = r.ver /\ ck1.seen = r.seen
    BY DEF ck0
  <2> HIDE DEF ck1
  <2>2. Leads(ck1, r.chans, {}) /\ Dormant(ck1.ver, r.chans)
    BY <1>6, <2>1 DEF Leads
  <2>3. AllTriggered(ck1, r.chans, discard)
    BY <1>6, <2>2, PreparedScan
  <2> HIDE DEF discard, x
  <2>4. Dormant(input.ver, input.chans) /\ Leads(input, input.chans, input.updated)
    BY <1>6, <2>1, <2>2, <2>3, ApplyLeads
  <2> HIDE DEF input
  <2> QED
    BY <1>8, <2>4, EmptyQueue, PutLeads
<1> HIDE DEF input
<1> QED
  BY <1>1, <1>7, <1>8

LEMMA SameTasks ==
  ASSUME NEW k, NEW chs, NEW ts, NEW us, DOMAIN us = DOMAIN ts,
         \A i \in DOMAIN ts : us[i].id = ts[i].id, AllTriggered(k, chs, ts)
  PROVE  AllTriggered(k, chs, us)
BY DEF AllTriggered, IsPush

(* What most steps leave alone.                                            *)
LEMMA SameScan ==
  ASSUME ScanInv, UNCHANGED <<ckpts, saves, ck, chans, updated, durability>>,
         \/ UNCHANGED <<pc, tasks>>
         \/ pc \in {"run", "flush"} /\ pc' \in {"exit", "tick"}
  PROVE  ScanInv'
BY DEF ScanInv

LEMMA ScanInit == Init => ScanInv
<1> SUFFICES ASSUME Init PROVE ScanInv
  OBVIOUS
<1>1. DOMAIN ckpts = {} /\ DOMAIN saves = {} /\ pc = "idle"
  BY EmptyQueue DEF Init
<1> QED
  BY <1>1 DEF ScanInv

(* Every step of the loop.                                                 *)
LEMMA ScanStep ==
  ASSUME NoneShared, SilentTriggers, QInv, TInv, Accepted, ScanInv, [Next]_vars
  PROVE  ScanInv'
<1> USE DEF storage, loop, background, counters, observers
<1>0. /\ Ids /\ Memory /\ Work /\ States(chans) /\ IsSeq(chans[TASKS].vals)
      /\ ck.ver \in [Chan -> Nat]
  <2>1. Ids /\ Memory /\ Work
    BY DEF QInv, TInv
  <2> QED
    BY <2>1, ProperStates, AlgoAssumption DEF Memory, ProperAll, Proper, Barriers
<1>1. ASSUME NEW req \in Requests, NEW d \in Durabilities, Invoke(req, d) PROVE ScanInv'
  <2>1. pc' = "tick" /\ UNCHANGED ckpts
    BY <1>1, Zenon DEF Invoke
  <2>2. /\ \A q \in DOMAIN saves' : LeadingSave(saves'[q])
        /\ Leads(ck', chans', updated') /\ Dormant(ck'.ver, chans')
    BY <1>0, <1>1, InvokeLeads
  <2> QED
    BY <2>1, <2>2 DEF ScanInv
<1>2. CASE Tick
  <2> DEFINE ready   == PrepareNextTasks(ck, chans, updated)
             resumed == [k \in DOMAIN ready |-> Reapplied(ready[k])]
  <2>1. /\ pc = "tick" /\ pc' \in {"exit", "run"} /\ (pc' = "run" => tasks' = resumed)
        /\ UNCHANGED <<ckpts, saves, ck, chans, updated, durability>>
    BY <1>2 DEF Tick, Leave
  <2>2. Leads(ck, chans, updated) /\ Dormant(ck.ver, chans)
    BY <2>1 DEF ScanInv
  <2>3. AllTriggered(ck, chans, ready)
    BY <1>0, <2>2, PreparedScan
  <2>4. \A k \in DOMAIN ready : Reapplied(ready[k]).id = ready[k].id
    <3>1. \A k \in DOMAIN ready : ProperTask(ready[k], ran)
      BY <1>0, PreparedProper DEF Memory
    <3> HIDE DEF ready
    <3> QED
      BY <1>0, <3>1, ReappliedFacts
  <2> HIDE DEF ready
  <2>5. AllTriggered(ck, chans, resumed)
    BY <2>3, <2>4, SameTasks
  <2> HIDE DEF resumed
  <2> QED
    BY <2>1, <2>2, <2>5 DEF ScanInv
<1>3. ASSUME NEW k \in DOMAIN tasks, RunTask(k) \/ FailTask(k) PROVE ScanInv'
  <2>1. PICK ws : tasks' = [tasks EXCEPT ![k].writes = ws]
    BY <1>3 DEF RunTask, FailTask, Commit
  <2>2. pc = "run" /\ UNCHANGED <<pc, ckpts, saves, ck, chans, updated, durability>>
    BY <1>3 DEF RunTask, FailTask, Commit, CanRun
  <2>3. DOMAIN tasks' = DOMAIN tasks /\ \A j \in DOMAIN tasks : tasks'[j].id = tasks[j].id
    <3>1. tasks[k] = [id |-> tasks[k].id, writes |-> tasks[k].writes]
      BY <1>0 DEF Work, ProperTask
    <3>2. /\ DOMAIN tasks' = DOMAIN tasks /\ \A j \in DOMAIN tasks : j # k => tasks'[j] = tasks[j]
          /\ tasks'[k] = [tasks[k] EXCEPT !.writes = ws]
      BY <2>1
    <3>3. tasks'[k].id = tasks[k].id
      BY <3>1, <3>2
    <3> QED
      BY <3>2, <3>3
  <2>4. AllTriggered(ck, chans, tasks')
    BY <2>2, <2>3, SameTasks DEF ScanInv
  <2> QED
    BY <2>2, <2>4 DEF ScanInv
<1>4. CASE AfterTick
  <2> DEFINE r     == ApplyWrites(ck, chans, tasks, <<>>)
             queue == Touched(saves, ConsumedBy(tasks, chans), r.chans)
  <2>1. pc = "run" /\ UNCHANGED <<ckpts, durability>> /\ chans' = r.chans
    BY <1>4 DEF AfterTick, CanProceed
  <2>2. Dormant(r.ver, r.chans) /\ Leads(r, r.chans, r.updated)
    <3>1. Dormant(ck.ver, chans) /\ AllTriggered(ck, chans, tasks)
      BY <2>1 DEF ScanInv
    <3> QED
      BY <1>0, <3>1, ApplyLeads
  <2>3. IsSeq(queue) /\ \A q \in DOMAIN queue : LeadingSave(queue[q])
    BY <1>0, TouchedLeads DEF Ids, ScanInv
  <2>4. CASE r.invalid /\ saves' = queue /\ pc' = "exit"
    <3>1. durability # "exit"
      BY <2>1, <2>4 DEF Accepted
    <3> HIDE DEF queue, r
    <3> QED
      BY <2>1, <2>3, <2>4, <3>1 DEF ScanInv
  <2>5. CASE /\ updated' = r.updated /\ PutCheckpoint("loop", r, queue, step, ck.id, cfg)
             /\ pc' # "run"
    <3> HIDE DEF queue, r
    <3>1. /\ \A q \in DOMAIN saves' : LeadingSave(saves'[q])
          /\ Leads(ck', r.chans, r.updated) /\ Dormant(ck'.ver, r.chans)
      BY <2>2, <2>3, <2>5, PutLeads
    <3> QED
      BY <2>1, <2>5, <3>1 DEF ScanInv
  <2> QED
    BY <1>4, <2>4, <2>5 DEF AfterTick, Leave
<1>5. CASE SaveCheckpoint
  <2> DEFINE h == Head(saves)
             k == StoredForm(h)
             t == Tail(saves)
  <2>1. /\ saves # <<>> /\ ckpts' = With(ckpts, h.id, k) /\ saves' = t
        /\ UNCHANGED <<pc, ck, chans, updated, durability, tasks>>
    BY <1>5 DEF SaveCheckpoint
  <2>2. /\ Len(saves) \in Nat \ {0} /\ DOMAIN saves = 1..Len(saves)
        /\ h = saves[1] /\ DOMAIN t = 1..Len(saves) - 1
        /\ \A i \in DOMAIN t : t[i] = saves[i + 1] /\ i + 1 \in DOMAIN saves
    BY <1>0, <2>1, SeqTail DEF Ids
  <2>3. Shaped(h) /\ Leading(h)
    BY <1>0, <2>2 DEF Ids, ScanInv, LeadingSave
  <2>4. k.ver = h.ver /\ k.seen = h.seen /\ k.updated = h.updated /\ k.vals = h.vals
    BY <2>3, StoredFields DEF Fields
  <2> HIDE DEF h, k, t
  <2>5. Leading(k)
    BY <2>3, <2>4, SameLeading
  <2>6. \A i \in DOMAIN ckpts' : Leading(ckpts'[i])
    BY <2>1, <2>5 DEF With, ScanInv
  <2>7. \A q \in DOMAIN saves' : LeadingSave(saves'[q])
    BY <2>1, <2>2 DEF ScanInv
  <2> QED
    BY <2>1, <2>6, <2>7 DEF ScanInv
<1>6. CASE LeaveLoop
  <2> DEFINE e == Unsaved(ExitRecord)
  <2>1. pc = "exit" /\ pc' = "closing" /\ UNCHANGED ckpts
    BY <1>6 DEF LeaveLoop
  <2>2. saves' = saves \/ (durability = "exit" /\ saves' = Append(saves, e))
    BY <1>6 DEF LeaveLoop
  <2>3. ASSUME durability = "exit" PROVE LeadingSave(e)
    <3>1. Leads(ck, chans, updated) /\ Dormant(ck.ver, chans)
      BY <2>1, <2>3 DEF ScanInv
    <3>2. /\ ExitRecord.ver = ck.ver /\ ExitRecord.seen = ck.seen /\ ExitRecord.updated = updated
          /\ ExitRecord.vals = Snapshot(chans, ck.ver)
      BY DEF ExitRecord, Record
    <3>3. (\A f \in Fields : e[f] = ExitRecord[f]) /\ e.shared = Shared(ck.ver)
      BY SaveFields DEF ExitRecord
    <3>4. /\ e.ver = ck.ver /\ e.seen = ck.seen /\ e.updated = updated
          /\ e.vals = Snapshot(chans, ck.ver)
      BY <3>2, <3>3 DEF Fields
    <3>5. Shared(ck.ver) = {}
      BY DEF NoneShared, Shared
    <3> HIDE DEF e
    <3>6. Leading(e)
      BY <3>1, <3>4, RestoredLeads
    <3> QED
      BY <3>3, <3>5, <3>6 DEF LeadingSave
  <2> HIDE DEF e
  <2>4. \A q \in DOMAIN saves' : LeadingSave(saves'[q])
    <3>1. CASE saves' = Append(saves, e) /\ durability = "exit"
      <4>1. \A q \in DOMAIN saves' : (q \in DOMAIN saves /\ saves'[q] = saves[q]) \/ saves'[q] = e
        BY <1>0, <3>1, SeqAppend DEF Ids
      <4> QED
        BY <2>3, <3>1, <4>1 DEF ScanInv
    <3> QED
      BY <2>2, <3>1 DEF ScanInv
  <2> QED
    BY <2>1, <2>4 DEF ScanInv
<1>7. CASE Close \/ Crash
  <2>1. pc' = "idle" /\ saves' = <<>> /\ UNCHANGED ckpts
    BY <1>7 DEF Close, Crash, Forget
  <2> QED
    BY <2>1, EmptyQueue DEF ScanInv
<1>8. CASE Panic \/ Flushed \/ SaveWrites \/ RequestDrain \/ UNCHANGED vars
  BY <1>8, SameScan DEF Panic, CanPanic, Leave, Flushed, CanGoOn, SaveWrites, RequestDrain, vars
<1> QED
  BY <1>1, <1>2, <1>3, <1>4, <1>5, <1>6, <1>7, <1>8 DEF Next, Step

(* Where no step rejected by a channel is written down, the nodes found by *)
(* way of the updated channels are all that are triggered, also where      *)
(* these come from a stored checkpoint and from what a client added to it  *)
(* (prepare_next_tasks, _first).                                           *)
THEOREM IndexFindsAll ==
  ASSUME NoneShared, SilentTriggers
  PROVE  Spec /\ []Accepted => []OptimizedEqualsScan
<1>1. ScanInv => OptimizedEqualsScan
  BY IndexIsScan DEF ScanInv, OptimizedEqualsScan
<1>2. QInv /\ TInv /\ Accepted /\ ScanInv /\ [Next]_vars => ScanInv'
  BY ScanStep
<1> QED
  BY <1>1, <1>2, ScanInit, TypesInductive, OrderInductive, PTL DEF Spec

-------------------------------------------------------------------------------
(* Pauses: what an invocation has to see again before it stops at a node.  *)

(* What versions_seen has of the last interrupt is not of the future.      *)
Told(k) ==
  INTERRUPT \in DOMAIN k.seen => \A c \in Chan : k.seen[INTERRUPT][c] <= k.ver[c]

(* Something changed since then.                                           *)
Noticed(k) ==
  \E c \in Chan : k.ver[c] > (IF INTERRUPT \in DOMAIN k.seen THEN k.seen[INTERRUPT][c] ELSE 0)

ToldInv ==
  Told(ck) /\ (\A i \in DOMAIN ckpts : Told(ckpts[i])) /\ (\A q \in DOMAIN saves : Told(saves[q]))

(* No node sends a task.                                                   *)
SendFree == \A n \in Node : \A out \in Outputs[n] \cup Partial[n] :
              \A i \in DOMAIN out : out[i].chan # TASKS

(* Only tasks write to the log, and each its own id; clients write what a  *)
(* Command holds.                                                          *)
OwnWrite(id, w) ==
  /\ w.chan = LOG => id # NullTask /\ w.val = id
  /\ id = NullTask => w.chan \in {COMMAND, "RESUME"}
  /\ SendFree => w.chan # TASKS
Owns(id, ws) == \A w \in ToSet(ws) : OwnWrite(id, w)

OwnInv ==
  /\ \A k \in DOMAIN tasks : Owns(tasks[k].id, tasks[k].writes)
  /\ \A id \in DOMAIN pend : Owns(id, pend[id])
  /\ \A p \in puts : Owns(p.id, p.writes)
  /\ \A x \in DOMAIN stored : OwnWrite(x.id, stored[x])

(* The log in memory and in the store is the log of the checkpoint made.   *)
LogRec(rec) ==
  /\ rec.vals[LOG] = made[rec.id].vals[LOG]
  /\ rec.ver[LOG] = 0 => rec.vals[LOG] = {}
LogInv ==
  /\ \A i \in DOMAIN ckpts : LogRec(ckpts[i])
  /\ \A q \in DOMAIN saves : LogRec(saves[q])
  /\ pc \in {"tick", "run", "flush"} => ToSet(chans[LOG].vals) \subseteq Held(Origin(ck.id), LOG)
  /\ pc \in {"tick", "run", "flush"} \/ (pc = "exit" /\ durability = "exit") =>
       /\ ck.ver[LOG] = 0 => chans[LOG].vals = <<>>
       /\ ck.id # savedId => Snapshot(chans, ck.ver)[LOG] = made[ck.id].vals[LOG]

(* No step follows one that ran a node of interrupt_after.                 *)
NothingAfter ==
  made[ck.id].source = "loop" =>
    \A id \in Held(made[ck.id], LOG) \ Held(Origin(made[ck.id].parent), LOG) :
      id.name \notin INTERRUPT_AFTER

StopInv ==
  /\ pc = "run" => tasks # <<>>
  /\ pc \in {"tick", "flush"} /\ ck.id # savedId =>
       /\ PrepareNextTasks(ck, chans, updated) # <<>> => Noticed(ck)
       /\ Noticed(ck) => NothingAfter
  /\ PausesHonoured

(* What a task writes to the log is its own id, whether it fails or not.   *)
LEMMA ResolveOwn ==
  ASSUME NEW id, id # NullTask, NEW out, IsSeq(out),
         \A i \in DOMAIN out : out[i].chan \in Chan /\ (SendFree => out[i].chan # TASKS)
  PROVE  /\ Owns(id, Resolve(id, out))
         /\ Owns(id, Append(Resolve(id, out), Write("ERROR", NullTask)))
<1> DEFINE ws == Resolve(id, out)
           w  == Write("ERROR", NullTask)
<1>1. IsSeq(ws) /\ \A i \in DOMAIN ws : OwnWrite(id, ws[i])
  <2>1. /\ IsSeq(ws) /\ DOMAIN ws = DOMAIN out
        /\ \A i \in DOMAIN out : ws[i].chan = out[i].chan /\ (out[i].chan = LOG => ws[i].val = id)
    BY ResolveFacts
  <2> HIDE DEF ws
  <2> QED
    BY <2>1 DEF OwnWrite
<1>2. w.chan = "ERROR" /\ "ERROR" # LOG /\ "ERROR" # TASKS
  BY LoopAssumption, AlgoAssumption DEF Write, ControlChan
<1> HIDE DEF ws, w
<1>3. \A i \in DOMAIN Append(ws, w) : OwnWrite(id, Append(ws, w)[i])
  <2>1. \A i \in DOMAIN Append(ws, w) : (i \in DOMAIN ws /\ Append(ws, w)[i] = ws[i]) \/ Append(ws, w)[i] = w
    BY <1>1, SeqAppend
  <2> QED
    BY <1>1, <1>2, <2>1 DEF OwnWrite
<1> QED
  BY <1>1, <1>3 DEF Owns, ToSet, ws, w

LEMMA TaskOwn ==
  ASSUME NEW id, id.name \in Node, id # NullTask
  PROVE  /\ \A out \in Outputs[id.name] :
              Owns(id, IF out = <<>> THEN <<Write("NO_WRITES", NullTask)>> ELSE Resolve(id, out))
         /\ \A out \in Partial[id.name] :
              Owns(id, Append(Resolve(id, out), Write("ERROR", NullTask)))
<1>1. \A out \in Outputs[id.name] \cup Partial[id.name] :
        IsSeq(out) /\ \A i \in DOMAIN out : out[i].chan \in Chan /\ (SendFree => out[i].chan # TASKS)
  BY LoopAssumption DEF IsSeq, SendFree
<1>2. Owns(id, <<Write("NO_WRITES", NullTask)>>)
  <2> DEFINE w == Write("NO_WRITES", NullTask)
  <2>1. w.chan = "NO_WRITES" /\ "NO_WRITES" # LOG /\ "NO_WRITES" # TASKS
    BY LoopAssumption, AlgoAssumption DEF Write, ControlChan
  <2> HIDE DEF w
  <2>2. ToSet(<<w>>) = {w}
    BY DEF ToSet
  <2> QED
    BY <2>1, <2>2 DEF Owns, OwnWrite, w
<1> QED
  BY <1>1, <1>2, ResolveOwn

(* What a client writes.                                                   *)
LEMMA ClientOwn ==
  ASSUME NEW req, NEW n
  PROVE  /\ \A w \in ToSet(CommandWrites(req, n)) : w.chan \in {COMMAND, "RESUME"}
         /\ ToSet(<<Write(START, ClientId(n))>>) = {Write(START, ClientId(n))}
         /\ Write(START, ClientId(n)).chan = START
<1> DEFINE a == Write(COMMAND, ClientId(n))
           b == Write("RESUME", ClientId(n))
           x == Write(START, ClientId(n))
<1>1. a.chan = COMMAND /\ b.chan = "RESUME" /\ x.chan = START
  BY DEF Write
<1>2. CommandWrites(req, n) \in {<<a>>, <<b, a>>, <<>>}
  BY DEF CommandWrites
<1> HIDE DEF a, b, x
<1>3. ToSet(<<a>>) = {a} /\ ToSet(<<b, a>>) = {a, b} /\ ToSet(<<>>) = {} /\ ToSet(<<x>>) = {x}
  BY DEF ToSet
<1>4. \A w \in ToSet(CommandWrites(req, n)) : w.chan \in {COMMAND, "RESUME"}
  BY <1>1, <1>2, <1>3
<1> QED
  BY <1>1, <1>3, <1>4 DEF x

(* The writes of a Command, with those a crash has left: in one place what *)
(* _first loads and applies.                                               *)
NullWrites(null) ==
  /\ ProperPut(NullTask, null, ran) /\ \A w \in ToSet(null) : w.chan \in {COMMAND, "RESUME"}

LEMMA ClientChannels ==
  LOG \notin {COMMAND, "RESUME"} /\ TASKS \notin {COMMAND, "RESUME"} /\ TASKS \notin {LOG, START}
BY LoopAssumption, AlgoAssumption DEF ControlChan

(* What is loaded, and r of it with the writes applied.                    *)
Loads(null, r) ==
  \E ck0 : /\ ck0.ver = Latest.ver /\ ck0.seen = Latest.seen
           /\ \/ r.ver = ck0.ver /\ r.seen = ck0.seen /\ r.chans = Restored(Latest.vals)
              \/ r = ApplyWrites(ck0, Restored(Latest.vals), <<>>, null)

(* What new input makes of that: the tasks of the checkpoint are dropped.  *)
Inputs(r, i) ==
  \E ck1, n : /\ ck1.ver = r.ver /\ ck1.seen = r.seen
              /\ i = ApplyWrites(ck1, r.chans, PrepareNextTasks(ck1, r.chans, {}),
                                 <<Write(START, ClientId(n))>>)

LEMMA InvokeParts ==
  ASSUME Work, OwnInv, NEW req, NEW d, Invoke(req, d)
  PROVE  /\ \A id \in DOMAIN pend' : Owns(id, pend'[id])
         /\ \A p \in puts' : Owns(p.id, p.writes)
         /\ \E null, r :
              /\ NullWrites(null) /\ Loads(null, r)
              /\ \/ /\ ck' = [id |-> Latest.id, ver |-> r.ver, seen |-> With(r.seen, INTERRUPT, r.ver)]
                    /\ saves' = <<>> /\ chans' = r.chans /\ UNCHANGED <<nextId, made>>
                 \/ \E i : /\ Inputs(r, i) /\ chans' = i.chans
                           /\ PutCheckpoint("input", i, <<>>, Latest.step + 1, Latest.id, Latest.id)
<1> DEFINE base    == Latest
           loaded  == PendingWrites(base.id)
           cmd     == CommandWrites(req, invocations + 1)
           old     == IF NullTask \in DOMAIN loaded THEN loaded[NullTask] ELSE <<>>
           null    == IF cmd = <<>> THEN old ELSE Selected(old, {w \in ToSet(old) : IsData(w)}) \o cmd
           ck0     == [id |-> base.id, ver |-> base.ver, seen |-> base.seen]
           chans0  == Restored(base.vals)
           none    == [ver |-> ck0.ver, seen |-> ck0.seen, chans |-> chans0, updated |-> {}]
           r       == IF null = <<>> THEN none ELSE ApplyWrites(ck0, chans0, <<>>, null)
           ck1     == [ck0 EXCEPT !.ver = r.ver, !.seen = r.seen]
           discard == PrepareNextTasks(ck1, r.chans, {})
           x       == <<Write(START, ClientId(invocations + 1))>>
           input   == ApplyWrites(ck1, r.chans, discard, x)
<1>1. \/ /\ ck' = [id |-> base.id, ver |-> r.ver, seen |-> With(r.seen, INTERRUPT, r.ver)]
         /\ saves' = <<>> /\ chans' = r.chans /\ UNCHANGED <<nextId, made>>
      \/ /\ PutCheckpoint("input", input, <<>>, base.step + 1, base.id, base.id)
         /\ chans' = input.chans
  BY Zenon DEF Invoke
<1>2. /\ pend' = IF cmd = <<>> THEN loaded ELSE With(loaded, NullTask, null)
      /\ puts' = IF cmd = <<>> \/ d = "exit" THEN {}
                 ELSE {[ck |-> base.id, id |-> NullTask, writes |-> null]}
  BY Zenon DEF Invoke
<1> HIDE DEF loaded
<1>3. \A id \in DOMAIN loaded : ProperPut(id, loaded[id], ran) /\ Owns(id, loaded[id])
  <2>1. \A id \in DOMAIN loaded : ProperPut(id, loaded[id], ran)
    BY PendingProper DEF loaded
  <2>2. \A id \in DOMAIN loaded : \A w \in ToSet(loaded[id]) :
          \E y \in DOMAIN stored : y.id = id /\ stored[y] = w
    BY PendingProper DEF loaded
  <2> QED
    BY <2>1, <2>2 DEF Owns, OwnInv
<1>4. NullWrites(null)
  <2>1. ProperPut(NullTask, old, ran) /\ \A w \in ToSet(old) : w.chan \in {COMMAND, "RESUME"}
    <3>1. ProperPut(NullTask, <<>>, ran) /\ ToSet(<<>>) = {}
      BY NoTasks DEF ProperPut
    <3> QED
      BY <1>3, <3>1 DEF Owns, OwnWrite
  <2>2. ProperPut(NullTask, cmd, ran) /\ \A w \in ToSet(cmd) : w.chan \in {COMMAND, "RESUME"}
    BY ClientWrites, ClientOwn
  <2> HIDE DEF old, cmd
  <2> DEFINE kept == Selected(old, {w \in ToSet(old) : IsData(w)})
  <2>3. ProperPut(NullTask, kept, ran) /\ ToSet(kept) \subseteq ToSet(old)
    BY <2>1, PutParts
  <2> HIDE DEF kept
  <2>4. ProperPut(NullTask, kept \o cmd, ran) /\ ToSet(kept \o cmd) = ToSet(kept) \cup ToSet(cmd)
    BY <2>2, <2>3, PutParts, SeqJoin DEF ProperPut
  <2>5. null \in {old, kept \o cmd}
    BY DEF kept
  <2> HIDE DEF null
  <2> QED
    BY <2>1, <2>2, <2>3, <2>4, <2>5 DEF NullWrites
<1>5. Loads(null, r)
  <2>1. ck0.ver = Latest.ver /\ ck0.seen = Latest.seen
    OBVIOUS
  <2> HIDE DEF ck0, null
  <2>2. \/ r.ver = ck0.ver /\ r.seen = ck0.seen /\ r.chans = Restored(Latest.vals)
        \/ r = ApplyWrites(ck0, Restored(Latest.vals), <<>>, null)
    OBVIOUS
  <2> HIDE DEF r
  <2> QED
    BY <2>1, <2>2 DEF Loads
<1> HIDE DEF null, cmd, r
<1>6. Inputs(r, input)
  <2>1. ck1.ver = r.ver /\ ck1.seen = r.seen
    BY DEF ck0
  <2> HIDE DEF ck1
  <2> QED
    BY <2>1 DEF Inputs
<1> HIDE DEF input, ck0
<1>7. Owns(NullTask, null)
  BY <1>4, ClientChannels DEF NullWrites, Owns, OwnWrite
<1>8. \A id \in DOMAIN pend' : Owns(id, pend'[id])
  BY <1>2, <1>3, <1>7 DEF With
<1>9. \A p \in puts' : Owns(p.id, p.writes)
  BY <1>2, <1>7
<1> QED
  BY <1>1, <1>4, <1>5, <1>6, <1>8, <1>9

LEMMA OwnInit == Init => OwnInv
<1> SUFFICES ASSUME Init PROVE OwnInv
  OBVIOUS
<1>1. DOMAIN tasks = {} /\ DOMAIN pend = {} /\ puts = {} /\ DOMAIN stored = {}
  BY NoTasks DEF Init
<1> QED
  BY <1>1 DEF OwnInv

(* A task keeps its id.                                                    *)
LEMMA CommitTasks ==
  ASSUME Work, NEW k \in DOMAIN tasks, NEW ws, Commit(k, ws)
  PROVE  /\ DOMAIN tasks' = DOMAIN tasks /\ tasks'[k].id = tasks[k].id /\ tasks'[k].writes = ws
         /\ \A j \in DOMAIN tasks : j # k => tasks'[j] = tasks[j]
<1>1. tasks[k] = [id |-> tasks[k].id, writes |-> tasks[k].writes]
  BY DEF Work, ProperTask
<1>2. /\ DOMAIN tasks' = DOMAIN tasks /\ \A j \in DOMAIN tasks : j # k => tasks'[j] = tasks[j]
      /\ tasks'[k] = [tasks[k] EXCEPT !.writes = ws]
  BY DEF Commit
<1> QED
  BY <1>1, <1>2

LEMMA CommitOwn ==
  ASSUME Work, OwnInv, NEW k \in DOMAIN tasks, NEW ws, Commit(k, ws), Owns(tasks[k].id, ws)
  PROVE  OwnInv'
<1> DEFINE id == tasks[k].id
           p  == [ck |-> ck.id, id |-> id, writes |-> ws]
<1>1. /\ UNCHANGED stored /\ pend' = With(pend, id, ws) /\ puts' \subseteq puts \cup {p}
  BY DEF Commit, SubmitPut, storage
<1>2. \A j \in DOMAIN tasks' : Owns(tasks'[j].id, tasks'[j].writes)
  BY CommitTasks DEF OwnInv
<1>3. p.id = id /\ p.writes = ws
  OBVIOUS
<1> HIDE DEF id, p
<1>4. Owns(id, ws)
  BY DEF id
<1>5. \A i \in DOMAIN pend' : Owns(i, pend'[i])
  BY <1>1, <1>4 DEF With, OwnInv
<1>6. \A q \in puts' : Owns(q.id, q.writes)
  BY <1>1, <1>3, <1>4 DEF OwnInv
<1> QED
  BY <1>1, <1>2, <1>5, <1>6 DEF OwnInv

LEMMA OwnStep ==
  ASSUME Ids, TInv, OwnInv, [Next]_vars
  PROVE  OwnInv'
<1> USE DEF storage, loop, background, counters, observers
<1>0. Work
  BY DEF TInv
<1>1. ASSUME NEW req \in Requests, NEW d \in Durabilities, Invoke(req, d) PROVE OwnInv'
  <2>1. UNCHANGED stored /\ tasks' = <<>>
    BY <1>1, Zenon DEF Invoke
  <2>2. /\ \A id \in DOMAIN pend' : Owns(id, pend'[id])
        /\ \A p \in puts' : Owns(p.id, p.writes)
    BY <1>0, <1>1, InvokeParts
  <2> QED
    BY <2>1, <2>2, NoTasks DEF OwnInv
<1>2. CASE Tick
  <2> DEFINE ready   == PrepareNextTasks(ck, chans, updated)
             resumed == [k \in DOMAIN ready |-> Reapplied(ready[k])]
  <2>1. UNCHANGED <<stored, pend, puts>> /\ tasks' \in {tasks, ready, resumed}
    BY <1>2 DEF Tick
  <2>2. \A k \in DOMAIN ready : ProperTask(ready[k], ran) /\ ready[k].writes = <<>>
    BY PreparedProper DEF TInv, Memory
  <2> HIDE DEF ready
  <2>3. \A k \in DOMAIN ready : Owns(ready[k].id, ready[k].writes)
    BY <2>2, NoTasks DEF Owns
  <2>4. ASSUME NEW k \in DOMAIN ready
        PROVE  Owns(Reapplied(ready[k]).id, Reapplied(ready[k]).writes)
    <3> DEFINE t  == ready[k]
               ws == PendOf(t.id)
               S  == {w \in ToSet(ws) : w.chan \notin {"ERROR", INTERRUPT, "RESUME"}}
               n  == Selected(ws, S)
    <3>1. t = [id |-> t.id, writes |-> t.writes]
      BY <2>2 DEF ProperTask
    <3>2. Reapplied(t).id = t.id /\ Reapplied(t).writes = n
      <4>1. Reapplied(t) = [t EXCEPT !.writes = n]
        BY DEF Reapplied
      <4> HIDE DEF n, t
      <4> QED
        BY <3>1, <4>1
    <3>3. ProperPut(t.id, ws, ran) /\ Owns(t.id, ws)
      <4>1. ProperPut(t.id, <<>>, ran) /\ Owns(t.id, <<>>)
        BY NoTasks DEF ProperPut, Owns
      <4> QED
        BY <1>0, <4>1 DEF PendOf, Work, OwnInv
    <3> HIDE DEF ws
    <3>4. ToSet(n) \subseteq ToSet(ws)
      <4> HIDE DEF S
      <4> QED
        BY <3>3, PutParts
    <3> HIDE DEF n, t
    <3>5. Owns(Reapplied(t).id, Reapplied(t).writes)
      BY <3>2, <3>3, <3>4 DEF Owns
    <3> QED
      BY <3>5 DEF t
  <2> QED
    BY <2>1, <2>3, <2>4 DEF OwnInv
<1>3. ASSUME NEW k \in DOMAIN tasks, RunTask(k) \/ FailTask(k) PROVE OwnInv'
  <2>1. tasks[k].id.name \in Node /\ tasks[k].id # NullTask
    BY <1>0, NullIsNoTask DEF Work, ProperTask
  <2>2. PICK ws : Commit(k, ws) /\ Owns(tasks[k].id, ws)
    BY <1>3, <2>1, TaskOwn DEF RunTask, FailTask
  <2> QED
    BY <1>0, <2>2, CommitOwn
<1>4. CASE AfterTick
  <2>1. UNCHANGED <<stored, tasks, puts>> /\ pend' \in {pend, [i \in {} |-> <<>>]}
    BY <1>4 DEF AfterTick
  <2> QED
    BY <2>1 DEF OwnInv
<1>5. CASE SaveWrites
  <2>1. PICK p \in puts : stored' = PutWrites(stored, p.ck, p.id, p.writes) /\ puts' = puts \ {p}
    BY <1>5 DEF SaveWrites
  <2>2. UNCHANGED <<tasks, pend>>
    BY <1>5 DEF SaveWrites
  <2>3. ProperStore(stored, nextId - 1, ran) /\ p.ck \in 0..nextId - 1 /\ ProperPut(p.id, p.writes, ran)
    BY <1>0 DEF Work
  <2>4. \A x \in DOMAIN stored' : \/ x \in DOMAIN stored /\ stored'[x] = stored[x]
                                  \/ x.id = p.id /\ stored'[x] \in ToSet(p.writes)
    BY <2>1, <2>3, PutWritesProper
  <2>5. \A x \in DOMAIN stored' : OwnWrite(x.id, stored'[x])
    BY <2>4 DEF OwnInv, Owns
  <2> QED
    BY <2>1, <2>2, <2>5 DEF OwnInv
<1>6. CASE LeaveLoop
  <2>1. /\ UNCHANGED <<stored, tasks, pend>>
        /\ puts' \subseteq puts \cup {[ck |-> ck.id, id |-> i, writes |-> pend[i]] : i \in DOMAIN pend}
    BY <1>6 DEF LeaveLoop
  <2>2. \A p \in puts' : p \in puts \/ \E i \in DOMAIN pend : p.id = i /\ p.writes = pend[i]
    BY <2>1
  <2> QED
    BY <2>1, <2>2 DEF OwnInv
<1>7. CASE Close \/ Crash
  <2>1. UNCHANGED stored /\ tasks' = <<>> /\ pend' = [i \in {} |-> <<>>] /\ puts' = {}
    BY <1>7 DEF Close, Crash, Forget
  <2> QED
    BY <2>1, NoTasks DEF OwnInv
<1>8. CASE Panic \/ Flushed \/ SaveCheckpoint \/ RequestDrain \/ UNCHANGED vars
  <2>1. UNCHANGED <<stored, tasks, pend, puts>>
    BY <1>8 DEF Panic, CanPanic, Leave, Flushed, CanGoOn, SaveCheckpoint, RequestDrain, vars
  <2> QED
    BY <2>1 DEF OwnInv
<1> QED
  BY <1>1, <1>2, <1>3, <1>4, <1>5, <1>6, <1>7, <1>8 DEF Next, Step

(* What a channel that changed has, among the versions of a superstep.     *)
LEMMA BumpedVersion ==
  ASSUME NEW ck0, ck0.ver \in [Chan -> Nat], NEW ts, NEW s, NEW b, NEW c \in Chan, c \in s.bumped
  PROVE  \A d \in Chan : ck0.ver[d] < Applied(ck0, ts, s, b).ver[c]
<1> DEFINE m == Max({ck0.ver[d] : d \in Chan})
<1>1. m \in Nat /\ \A d \in Chan : ck0.ver[d] \in Nat /\ ck0.ver[d] <= m
  BY NewFinite
<1>2. Applied(ck0, ts, s, b).ver[c] = 1 + m
  BY DEF Applied
<1> HIDE DEF m
<1> QED
  BY <1>1, <1>2

LEMMA BumpedGrows ==
  ASSUME NEW s
  PROVE  s.bumped \subseteq NotifyStep(s).bumped /\ s.bumped \subseteq NotifyFinish(s).bumped
BY DEF NotifyStep, NotifyFinish, WriteAll, Phase

(* New input reaches its channel: no task that is dropped writes anything. *)
LEMMA ApplyStart ==
  ASSUME Kind[START] \notin Barriers, NEW ck0, ck0.ver \in [Chan -> Nat], NEW chs,
         NEW ts, IsSeq(ts), \A k \in DOMAIN ts : ts[k].writes = <<>>, NEW v
  PROVE  \A d \in Chan : ck0.ver[d] < ApplyWrites(ck0, chs, ts, <<Write(START, v)>>).ver[START]
<1> DEFINE w        == Write(START, v)
           extra    == <<w>>
           parts    == [k \in DOMAIN ts |-> ts[k].writes]
           ws       == extra \o FlattenSeq(parts)
           to       == [c \in Chan |-> WritesTo(c, ws)]
           read     == UNION {TriggersOf[ts[k].id.name] :
                                k \in {j \in DOMAIN ts : ~ IsPush(ts[j])}}
           first(c) == Min({i \in DOMAIN ws : ws[i].chan = c})
           bad      == {c \in Chan : to[c] # <<>> /\ Rejects(c, to[c])}
           reached  == {c \in Chan : to[c] # <<>> /\ \A b \in bad : first(c) < first(b)}
           written  == WriteAll(ConsumeRead(chs, read), reached, to)
           s        == IF bad # {} \/ ts = <<>> THEN written
                       ELSE NotifyFinish(NotifyStep(written))
           r        == ApplyWrites(ck0, chs, ts, extra)
<1>1. r = Applied(ck0, ts, s, bad # {})
  BY Zenon DEF ApplyWrites
<1>2. ws = extra
  <2>1. DOMAIN ts = 1..Len(ts) /\ Len(ts) \in Nat
    BY DEF IsSeq
  <2>2. parts \in Seq(Seq({}))
    <3>1. <<>> \in Seq({})
      OBVIOUS
    <3>2. \A k \in 1..Len(ts) : parts[k] \in Seq({})
      BY <2>1, <3>1
    <3>3. parts = [k \in 1..Len(ts) |-> parts[k]]
      BY <2>1
    <3> HIDE DEF parts
    <3> QED
      BY <2>1, <3>2, <3>3
  <2> HIDE DEF parts
  <2>3. FlattenSeq(parts) \in Seq({})
    BY <2>2, FlattenFacts
  <2>4. FlattenSeq(parts) = <<>>
    BY <2>3
  <2> HIDE DEF w
  <2> QED
    BY <2>4
<1> HIDE DEF ws
<1>3. START \in Chan /\ w.chan = START /\ w.val = v
  BY LoopAssumption DEF Write
<1> HIDE DEF w
<1>4. IsSeq(ws) /\ ToSet(ws) = {w} /\ IsInjective(ws) /\ ws \in Seq({w})
  <2>1. ws = <<w>> /\ <<w>> \in Seq({w})
    BY <1>2
  <2>2. DOMAIN <<w>> = {1} /\ <<w>>[1] = w
    OBVIOUS
  <2>3. ToSet(<<w>>) = {w} /\ IsInjective(<<w>>)
    BY <2>2 DEF ToSet, IsInjective
  <2> QED
    BY <2>1, <2>3, SeqRange
<1>5. Len(to[START]) = 1 /\ IsSeq(to[START])
  <2> DEFINE S    == {x \in ToSet(ws) : x.chan = START}
             mine == Selected(ws, S)
  <2>1. S = {w}
    BY <1>3, <1>4
  <2>2. to[START] = [i \in DOMAIN mine |-> mine[i].val]
    BY <1>3 DEF WritesTo
  <2> HIDE DEF S
  <2>3. mine \in Seq({w}) /\ ToSet(mine) = {w} /\ IsInjective(mine)
    BY <1>4, <2>1, SelectedFacts
  <2> HIDE DEF mine
  <2>4. DOMAIN mine = 1..Len(mine) /\ Len(mine) \in Nat /\ \A i \in DOMAIN mine : mine[i] = w
    BY <2>3
  <2>5. Len(mine) # 0
    BY <2>3, <2>4 DEF ToSet
  <2>6. ~ 2 <= Len(mine)
    BY <2>3, <2>4 DEF IsInjective
  <2>7. Len(mine) = 1
    BY <2>4, <2>5, <2>6
  <2>8. IsSeq(to[START])
    BY <1>3, <1>4, WritesToFacts
  <2> HIDE DEF to
  <2>9. DOMAIN to[START] = 1..1
    BY <2>2, <2>4, <2>7
  <2> DEFINE n == Len(to[START])
  <2>10. 1..n = 1..1 /\ n \in Nat
    <3>1. DOMAIN to[START] = 1..n /\ n \in Nat
      BY <2>8 DEF IsSeq
    <3> HIDE DEF n
    <3> QED
      BY <2>9, <3>1
  <2> HIDE DEF n
  <2>11. 1 \in 1..n
    BY <2>10
  <2>12. n \in 1..n
    BY <2>10, <2>11
  <2>13. n = 1
    BY <2>10, <2>12
  <2> QED
    BY <2>8, <2>13 DEF n
<1>6. ASSUME NEW c \in Chan, c # START PROVE to[c] = <<>>
  <2>1. IsSeq(to[c]) /\ ToSet(to[c]) = {x.val : x \in {y \in ToSet(ws) : y.chan = c}}
    BY <1>4, WritesToFacts
  <2> HIDE DEF to
  <2>2. ToSet(to[c]) = {}
    BY <1>3, <1>4, <1>6, <2>1
  <2>3. to[c] \in Seq({})
    BY <2>1, <2>2 DEF IsSeq
  <2> QED
    BY <2>3
<1> HIDE DEF to
<1>7. to[START] # <<>> /\ ~ Rejects(START, to[START])
  <2>1. DOMAIN to[START] = {1}
    BY <1>5 DEF IsSeq
  <2>2. Overwrites(to[START]) = {} \/ Overwrites(to[START]) = {1}
    BY <2>1 DEF Overwrites
  <2>3. Cardinality(Overwrites(to[START])) \in {0, 1}
    BY <2>2, FS_EmptySet, FS_Singleton
  <2>4. ~ Rejects(START, to[START])
    BY <1>5, <2>3 DEF Rejects
  <2> QED
    BY <1>5, <2>4
<1>8. bad = {}
  BY <1>6, <1>7
<1>9. START \in reached /\ reached \subseteq Chan
  BY <1>3, <1>7, <1>8
<1> HIDE DEF bad, reached, read
<1>10. START \in written.bumped
  <2>1. \A x : Updates(START, x, to[START])
    BY <1>7 DEF Updates
  <2> QED
    BY <1>9, <2>1 DEF WriteAll, Phase
<1> HIDE DEF written
<1>11. START \in s.bumped
  BY <1>10, BumpedGrows
<1> HIDE DEF s
<1> QED
  BY <1>1, <1>3, <1>11, BumpedVersion DEF w

(* A Send that is pending after a superstep was sent in it.                *)
LEMMA ApplyPushes ==
  ASSUME NEW ck0, ck0.ver \in [Chan -> Nat], NEW chs, States(chs), NEW ts, ts # <<>>, NEW extra,
         ~ ApplyWrites(ck0, chs, ts, extra).invalid,
         ApplyWrites(ck0, chs, ts, extra).chans[TASKS].vals # <<>>
  PROVE  \A d \in Chan : ck0.ver[d] < ApplyWrites(ck0, chs, ts, extra).ver[TASKS]
<1> DEFINE ws       == extra \o FlattenSeq([k \in DOMAIN ts |-> ts[k].writes])
           to       == [c \in Chan |-> WritesTo(c, ws)]
           read     == UNION {TriggersOf[ts[k].id.name] :
                                k \in {j \in DOMAIN ts : ~ IsPush(ts[j])}}
           first(c) == Min({i \in DOMAIN ws : ws[i].chan = c})
           bad      == {c \in Chan : to[c] # <<>> /\ Rejects(c, to[c])}
           reached  == {c \in Chan : to[c] # <<>> /\ \A b \in bad : first(c) < first(b)}
           taken    == ConsumeRead(chs, read)
           written  == WriteAll(taken, reached, to)
           noted    == NotifyStep(written)
           s        == IF bad # {} \/ ts = <<>> THEN written ELSE NotifyFinish(noted)
           r        == ApplyWrites(ck0, chs, ts, extra)
<1>1. r = Applied(ck0, ts, s, bad # {})
  BY Zenon DEF ApplyWrites
<1>2. TASKS \in Chan /\ Kind[TASKS] = "Topic"
  BY AlgoAssumption
<1>3. r.invalid = (bad # {}) /\ r.chans = s.chans
  <2> HIDE DEF s, bad, r
  <2> QED
    BY <1>1 DEF Applied
<1>4. ~ r.invalid
  OBVIOUS
<1> HIDE DEF r
<1>5. bad = {}
  BY <1>3, <1>4
<1>6. s = NotifyFinish(noted)
  BY <1>5
<1>7. TASKS \in reached <=> to[TASKS] # <<>>
  BY <1>2, <1>5
<1>8. reached \in SUBSET Chan
  OBVIOUS
<1> HIDE DEF bad, reached, read, to, s
<1>9. Tracks(chs, taken) /\ Tracks(chs, written)
  BY <1>8, ConsumeTracks, WriteTracks
<1>10. CASE to[TASKS] # <<>>
  <2>1. \A x : Updates(TASKS, x, to[TASKS])
    BY <1>2, <1>10 DEF Updates, Barriers
  <2>2. TASKS \in written.bumped
    BY <1>7, <1>8, <1>10, <2>1 DEF WriteAll, Phase
  <2> HIDE DEF written
  <2>3. TASKS \in s.bumped
    BY <1>6, <2>2, BumpedGrows
  <2> QED
    BY <1>1, <1>2, <2>3, BumpedVersion DEF r
<1>11. CASE to[TASKS] = <<>>
  <2>1. TASKS \notin written.updated
    BY <1>7, <1>11 DEF WriteAll, Phase, ConsumeRead
  <2> HIDE DEF written
  <2> DEFINE x  == written.chans[TASKS]
             cs == {c \in Chan \ written.updated : IsAvailable(c, written.chans[c])}
  <2>2. x = [vals |-> x.vals, fin |-> x.fin]
    BY <1>2, <1>9 DEF Tracks, States, IsState
  <2>3. noted.chans[TASKS] = IF TASKS \in cs THEN Update(TASKS, x, <<>>) ELSE x
    BY <1>2 DEF NotifyStep, WriteAll, Phase
  <2>4. TASKS \in cs <=> x.vals # <<>>
    BY <1>2, <2>1 DEF IsAvailable, Reducers
  <2>5. Update(TASKS, x, <<>>) = [x EXCEPT !.vals = <<>>]
    BY <1>2 DEF Update, ClearedByStep
  <2> HIDE DEF x, cs, noted
  <2>6. [x EXCEPT !.vals = <<>>].vals = <<>>
    BY <2>2
  <2>7. noted.chans[TASKS].vals = <<>>
    BY <2>3, <2>4, <2>5, <2>6
  <2>8. s.chans[TASKS] = noted.chans[TASKS]
    BY <1>2, <1>6 DEF NotifyFinish, Phase, Finish, Finishes, AfterFinish
  <2> QED
    BY <1>3, <2>7, <2>8 DEF r
<1> QED
  BY <1>10, <1>11

(* The entry of the last interrupt is no task's, and stays as it was; a    *)
(* channel that changed is newer.                                          *)
LEMMA ApplyTold ==
  ASSUME NEW ck0, ck0.ver \in [Chan -> Nat], ProperSeen(ck0.seen), Told(ck0),
         NEW chs, States(chs), NEW ts, \A k \in DOMAIN ts : ts[k].id.name \in Node, NEW extra
  PROVE  LET r == ApplyWrites(ck0, chs, ts, extra)
         IN  Told(r) /\ \A c \in Chan : (\A d \in Chan : ck0.ver[d] < r.ver[c]) => Noticed(r)
<1> DEFINE r == ApplyWrites(ck0, chs, ts, extra)
<1>1. /\ r.ver \in [Chan -> Nat] /\ r.seen = SeenAfter(ck0, ts)
      /\ \A c \in Chan : ck0.ver[c] <= r.ver[c]
  BY ApplyTracks
<1> HIDE DEF r
<1>2. /\ INTERRUPT \in DOMAIN r.seen <=> INTERRUPT \in DOMAIN ck0.seen
      /\ INTERRUPT \in DOMAIN r.seen => r.seen[INTERRUPT] = ck0.seen[INTERRUPT]
  <2>1. INTERRUPT \notin {ts[k].id.name : k \in DOMAIN ts}
    BY AlgoAssumption
  <2> QED
    BY <1>1, <2>1 DEF SeenAfter
<1>3. INTERRUPT \in DOMAIN ck0.seen =>
        /\ ck0.seen[INTERRUPT] \in [Chan -> Nat]
        /\ \A c \in Chan : ck0.seen[INTERRUPT][c] <= ck0.ver[c]
  BY DEF ProperSeen, Told
<1>4. \A c \in Chan : ck0.ver[c] \in Nat /\ r.ver[c] \in Nat
  BY <1>1
<1>5. Told(r)
  <2> SUFFICES ASSUME INTERRUPT \in DOMAIN r.seen, NEW c \in Chan
               PROVE  r.seen[INTERRUPT][c] <= r.ver[c]
    BY DEF Told
  <2>1. ck0.seen[INTERRUPT][c] \in Nat /\ ck0.seen[INTERRUPT][c] <= ck0.ver[c]
    BY <1>2, <1>3
  <2> QED
    BY <1>1, <1>2, <1>4, <2>1
<1>6. ASSUME NEW c \in Chan, \A d \in Chan : ck0.ver[d] < r.ver[c] PROVE Noticed(r)
  <2>1. ck0.ver[c] < r.ver[c]
    BY <1>6
  <2>2. CASE INTERRUPT \in DOMAIN r.seen
    <3>1. ck0.seen[INTERRUPT][c] \in Nat /\ ck0.seen[INTERRUPT][c] <= ck0.ver[c]
      BY <1>2, <1>3, <2>2
    <3>2. r.ver[c] > r.seen[INTERRUPT][c]
      BY <1>2, <1>4, <2>1, <2>2, <3>1
    <3> QED
      BY <2>2, <3>2 DEF Noticed
  <2>3. CASE INTERRUPT \notin DOMAIN r.seen
    <3>1. r.ver[c] > 0
      BY <1>4, <2>1
    <3> QED
      BY <2>3, <3>1 DEF Noticed
  <2> QED
    BY <2>2, <2>3
<1> QED
  BY <1>5, <1>6 DEF r

(* A superstep adds to the log what its tasks are.                         *)
LEMMA ApplyLog ==
  ASSUME NEW ck0, ck0.ver \in [Chan -> Nat], ProperSeen(ck0.seen),
         NEW chs, ProperAll(chs, Marked, ran),
         NEW ts, IsSeq(ts), \A k \in DOMAIN ts : ProperTask(ts[k], ran),
         NEW extra, IsSeq(extra), \A w \in ToSet(extra) : w.chan # LOG,
         NEW R, ToSet(chs[LOG].vals) \subseteq R,
         \A k \in DOMAIN ts : Owns(ts[k].id, ts[k].writes) /\ ts[k].id \in R
  PROVE  ToSet(ApplyWrites(ck0, chs, ts, extra).chans[LOG].vals) \subseteq R
<1> DEFINE L == {LOG}
<1>1. ReducersOnly(L)
  BY LoopAssumption DEF ReducersOnly
<1>2. ProperAll(chs, L, R)
  BY DEF ProperAll, Proper
<1>3. ProperWrites(extra, L, R)
  BY DEF ProperWrites
<1>4. \A k \in DOMAIN ts : ts[k].id.name \in Node /\ ProperWrites(ts[k].writes, L, R)
  <2> SUFFICES ASSUME NEW k \in DOMAIN ts
               PROVE  ts[k].id.name \in Node /\ ProperWrites(ts[k].writes, L, R)
    OBVIOUS
  <2>1. ts[k].id.name \in Node /\ IsSeq(ts[k].writes)
    BY DEF ProperTask, ProperPut
  <2>2. \A w \in ToSet(ts[k].writes) : w.chan \in L => w.val \in R
    BY DEF Owns, OwnWrite
  <2> QED
    BY <2>1, <2>2 DEF ProperWrites
<1>5. LOG \in Chan
  BY LoopAssumption
<1> DEFINE r == ApplyWrites(ck0, chs, ts, extra)
<1>6. LOG \in L
  OBVIOUS
<1> HIDE DEF L, r
<1>7. ProperAll(r.chans, L, R)
  BY <1>1, <1>2, <1>3, <1>4, ApplyProper DEF r
<1> QED
  BY <1>5, <1>6, <1>7 DEF ProperAll, Proper, r

LEMMA LogSnapshot ==
  ASSUME NEW chs, NEW ver
  PROVE  Snapshot(chs, ver)[LOG] = IF ver[LOG] > 0 THEN {chs[LOG]} ELSE {}
BY LoopAssumption DEF Snapshot, Checkpoint, SingleValue

(* What an invocation starts from.                                         *)
Loaded(r) ==
  /\ r.ver \in [Chan -> Nat] /\ ProperSeen(r.seen) /\ ProperAll(r.chans, Marked, ran)
  /\ Told(r) /\ (r.ver[LOG] = 0 => r.chans[LOG].vals = <<>>)

LEMMA LoadsFacts ==
  ASSUME Ids, Control, Records, ToldInv, \A i \in DOMAIN ckpts : LogRec(ckpts[i]),
         NEW null, NullWrites(null), NEW r, Loads(null, r)
  PROVE  Loaded(r) /\ ToSet(r.chans[LOG].vals) \subseteq Held(Origin(Latest.id), LOG)
<1> DEFINE base  == Latest
           chs   == Restored(base.vals)
<1>1. ProperRec(base, ran) /\ ProperAll(chs, Marked, ran) /\ LOG \in Chan /\ Kind[LOG] = "BinOp"
  BY LatestProper, RestoredProper, LoopAssumption
<1>2. /\ Told(base) /\ (base.ver[LOG] = 0 => base.vals[LOG] = {})
      /\ base.vals[LOG] = Origin(base.id).vals[LOG]
  <2>1. CASE DOMAIN ckpts = {} /\ Latest = EmptyCheckpoint
    <3>1. base.id = 0 /\ Origin(0) = base
      BY <2>1 DEF EmptyCheckpoint, Origin
    <3> QED
      BY <1>1, <2>1, <3>1 DEF EmptyCheckpoint, NoSeen, Told
  <2>2. CASE base.id \in DOMAIN ckpts /\ base = ckpts[base.id]
    <3>1. base.id # 0
      BY <2>2 DEF Ids
    <3>2. LogRec(base) /\ Told(base)
      BY <2>2 DEF ToldInv
    <3> HIDE DEF base
    <3> QED
      BY <3>1, <3>2 DEF LogRec, Origin
  <2> QED
    BY <2>1, <2>2, LatestFacts
<1>3. /\ chs[LOG] = FromCheckpoint(LOG, base.vals[LOG])
      /\ Held(Origin(base.id), LOG) = UNION {ToSet(s.vals) : s \in base.vals[LOG]}
  BY <1>1, <1>2 DEF Restored, Held
<1> HIDE DEF base, chs
<1>4. ToSet(chs[LOG].vals) \subseteq Held(Origin(base.id), LOG)
  <2>1. CASE base.vals[LOG] = {}
    <3>1. chs[LOG].vals = <<>>
      BY <1>1, <1>3, <2>1 DEF FromCheckpoint, Fresh, Barriers
    <3> QED
      BY <3>1, NoTasks
  <2>2. CASE base.vals[LOG] # {}
    <3>1. chs[LOG] \in base.vals[LOG]
      BY <1>1, <1>3, <2>2 DEF FromCheckpoint
    <3> QED
      BY <1>3, <3>1
  <2> QED
    BY <2>1, <2>2
<1>5. base.ver[LOG] = 0 => chs[LOG].vals = <<>>
  BY <1>1, <1>2, <1>3 DEF FromCheckpoint, Fresh, Barriers
<1>6. PICK ck0 : /\ ck0.ver = base.ver /\ ck0.seen = base.seen
                 /\ \/ r.ver = ck0.ver /\ r.seen = ck0.seen /\ r.chans = chs
                    \/ r = ApplyWrites(ck0, chs, <<>>, null)
  BY DEF Loads, base, chs
<1>7. ck0.ver \in [Chan -> Nat] /\ ProperSeen(ck0.seen) /\ Told(ck0)
  BY <1>1, <1>2, <1>6 DEF ProperRec, Told
<1>8. CASE r.ver = ck0.ver /\ r.seen = ck0.seen /\ r.chans = chs
  <2>1. Told(r)
    BY <1>7, <1>8 DEF Told
  <2> QED
    BY <1>1, <1>4, <1>5, <1>6, <1>7, <1>8, <2>1 DEF Loaded, base
<1>9. CASE r = ApplyWrites(ck0, chs, <<>>, null)
  <2>1. IsSeq(null) /\ ProperWrites(null, Marked, ran) /\ \A w \in ToSet(null) : w.chan # LOG
    BY PutIsWrites, ClientChannels DEF NullWrites, ProperPut
  <2>2. States(chs)
    BY <1>1, ProperStates
  <2>3. ProperResult(r, ran)
    BY <1>1, <1>7, <1>9, <2>1, NoTasks, ApplyResult
  <2>4. Told(r)
    BY <1>7, <1>9, <2>2, NoTasks, ApplyTold
  <2>5. ToSet(r.chans[LOG].vals) \subseteq Held(Origin(base.id), LOG)
    BY <1>1, <1>4, <1>7, <1>9, <2>1, NoTasks, ApplyLog
  <2>6. /\ ck0.ver[LOG] <= r.ver[LOG]
        /\ \/ r.ver[LOG] = ck0.ver[LOG] /\ r.chans[LOG] = chs[LOG]
           \/ ck0.ver[LOG] < r.ver[LOG]
    BY <1>1, <1>7, <1>9, <2>2, ApplyTracks
  <2>7. r.ver[LOG] = 0 => r.chans[LOG].vals = <<>>
    BY <1>1, <1>5, <1>6, <1>7, <2>6
  <2> QED
    BY <2>3, <2>4, <2>5, <2>7 DEF Loaded, ProperResult, base
<1> QED
  BY <1>6, <1>8, <1>9

(* New input is something that changed since the last interrupt.           *)
LEMMA InputsFacts ==
  ASSUME Kind[START] \notin Barriers, NEW r, Loaded(r), NEW i, Inputs(r, i)
  PROVE  Loaded(i) /\ Noticed(i)
<1>1. PICK ck1, n : /\ ck1.ver = r.ver /\ ck1.seen = r.seen
                    /\ i = ApplyWrites(ck1, r.chans, PrepareNextTasks(ck1, r.chans, {}),
                                       <<Write(START, ClientId(n))>>)
  BY DEF Inputs
<1> DEFINE ts == PrepareNextTasks(ck1, r.chans, {})
           x  == <<Write(START, ClientId(n))>>
<1>2. /\ ck1.ver \in [Chan -> Nat] /\ ProperSeen(ck1.seen) /\ Told(ck1)
      /\ ProperAll(r.chans, Marked, ran) /\ States(r.chans)
  BY <1>1, ProperStates DEF Loaded, Told
<1>3. /\ IsSeq(ts)
      /\ \A k \in DOMAIN ts : ProperTask(ts[k], ran) /\ ts[k].writes = <<>>
  BY <1>2, PreparedProper
<1>4. START \in Chan /\ LOG \in Chan
  BY LoopAssumption
<1>5. ProperWrites(x, Marked, ran)
  BY ClientWrites
<1> HIDE DEF ts
<1>6. \A d \in Chan : ck1.ver[d] < i.ver[START]
  BY <1>1, <1>2, <1>3, ApplyStart DEF ts
<1> HIDE DEF x
<1>7. i = ApplyWrites(ck1, r.chans, ts, x)
  BY <1>1 DEF ts, x
<1>8. ProperResult(i, ran)
  BY <1>2, <1>3, <1>5, <1>7, ApplyResult
<1>9. Told(i) /\ Noticed(i)
  <2>1. \A k \in DOMAIN ts : ts[k].id.name \in Node
    BY <1>3 DEF ProperTask
  <2> QED
    BY <1>2, <1>4, <1>6, <1>7, <2>1, ApplyTold
<1>10. i.ver[LOG] = 0 => i.chans[LOG].vals = <<>>
  <2>1. /\ ck1.ver[LOG] <= i.ver[LOG]
        /\ \/ i.ver[LOG] = ck1.ver[LOG] /\ i.chans[LOG] = r.chans[LOG]
           \/ ck1.ver[LOG] < i.ver[LOG]
    BY <1>2, <1>4, <1>7, ApplyTracks
  <2> QED
    BY <1>1, <1>2, <1>4, <2>1 DEF Loaded
<1> QED
  BY <1>8, <1>9, <1>10 DEF Loaded, ProperResult

(* _put_checkpoint, what it makes and what it leaves to be saved.          *)
LEMMA PutMade ==
  ASSUME Ids, Control, NEW src, NEW r, NEW queue, IsSeq(queue), NEW s, NEW prev, NEW parent,
         PutCheckpoint(src, r, queue, s, prev, parent)
  PROVE  /\ ck'.id = nextId /\ ck'.ver = r.ver /\ ck'.seen = r.seen /\ nextId \in DOMAIN made'
         /\ made'[nextId].vals = Snapshot(r.chans, r.ver)
         /\ made'[nextId].parent = prev /\ made'[nextId].source = src
         /\ nextId \notin DOMAIN made /\ \A i \in DOMAIN made : made'[i] = made[i]
         /\ \A q \in DOMAIN saves' :
              \/ q \in DOMAIN queue /\ saves'[q] = queue[q]
              \/ /\ saves'[q].id = nextId /\ saves'[q].ver = r.ver /\ saves'[q].seen = r.seen
                 /\ saves'[q].vals = Snapshot(r.chans, r.ver)
<1> DEFINE rec == Record(nextId, r.ver, r.seen, r.updated, r.chans, s, src, parent)
           e   == Unsaved(rec)
<1>1. /\ ck' = [id |-> nextId, ver |-> r.ver, seen |-> r.seen]
      /\ made' = With(made, nextId, [rec EXCEPT !.parent = prev])
      /\ saves' = queue \/ saves' = Append(queue, e)
  BY DEF PutCheckpoint
<1>2. nextId \notin DOMAIN made
  BY DEF Control, Ids
<1>3. /\ [rec EXCEPT !.parent = prev].vals = Snapshot(r.chans, r.ver)
      /\ [rec EXCEPT !.parent = prev].parent = prev /\ [rec EXCEPT !.parent = prev].source = src
  BY DEF Record
<1>4. /\ e.id = nextId /\ e.ver = r.ver /\ e.seen = r.seen /\ e.vals = Snapshot(r.chans, r.ver)
  <2>1. /\ rec.id = nextId /\ rec.ver = r.ver /\ rec.seen = r.seen
        /\ rec.vals = Snapshot(r.chans, r.ver)
    BY DEF Record
  <2>2. \A f \in Fields : e[f] = rec[f]
    BY SaveFields
  <2> HIDE DEF e, rec
  <2> QED
    BY <2>1, <2>2 DEF Fields
<1>5. /\ ck'.id = nextId /\ ck'.ver = r.ver /\ ck'.seen = r.seen
  BY <1>1
<1> HIDE DEF e
<1>6. \A q \in DOMAIN saves' : (q \in DOMAIN queue /\ saves'[q] = queue[q]) \/ saves'[q] = e
  <2>1. CASE saves' = Append(queue, e)
    BY <2>1, SeqAppend
  <2> QED
    BY <1>1, <2>1
<1>7. /\ nextId \in DOMAIN made' /\ made'[nextId] = [rec EXCEPT !.parent = prev]
      /\ \A i \in DOMAIN made : made'[i] = made[i]
  BY <1>1, <1>2 DEF With
<1> QED
  BY <1>2, <1>3, <1>4, <1>5, <1>6, <1>7

(* A save that waits keeps the log it was given.                           *)
LEMMA TouchedLog ==
  ASSUME NEW queue, IsSeq(queue), NEW consumed, NEW new,
         \A q \in DOMAIN queue : Shaped(queue[q]) /\ ProperSave(queue[q], ran)
  PROVE  LET t == Touched(queue, consumed, new)
         IN  /\ IsSeq(t) /\ DOMAIN t = DOMAIN queue
             /\ \A q \in DOMAIN queue : /\ t[q].id = queue[q].id /\ t[q].ver = queue[q].ver
                                        /\ t[q].seen = queue[q].seen
                                        /\ t[q].vals[LOG] = queue[q].vals[LOG]
<1> DEFINE t == Touched(queue, consumed, new)
<1>1. /\ IsSeq(t) /\ DOMAIN t = DOMAIN queue
      /\ \A q \in DOMAIN queue : \A f \in Fields \ {"vals"} : t[q][f] = queue[q][f]
  BY TouchedFields
<1>2. LOG \in Chan /\ ~ SharedWithCheckpoint(LOG)
  BY LoopAssumption DEF SharedWithCheckpoint, Barriers
<1>3. ASSUME NEW q \in DOMAIN queue PROVE t[q].vals[LOG] = queue[q].vals[LOG]
  <2>1. LOG \notin queue[q].shared \ consumed
    BY <1>2 DEF ProperSave
  <2>2. "shared" \in DOMAIN queue[q] /\ "vals" \in DOMAIN queue[q]
    BY DEF Shaped, Fields
  <2> QED
    BY <1>2, <2>1, <2>2 DEF Touched
<1> HIDE DEF t
<1>4. \A q \in DOMAIN queue : t[q].id = queue[q].id /\ t[q].ver = queue[q].ver /\ t[q].seen = queue[q].seen
  BY <1>1 DEF Fields
<1> QED
  BY <1>1, <1>3, <1>4 DEF t

(* What a step gives a checkpoint.                                         *)
LEMMA StepLoaded ==
  ASSUME Memory, Work, Told(ck), ck.ver[LOG] = 0 => chans[LOG].vals = <<>>
  PROVE  Loaded(ApplyWrites(ck, chans, tasks, <<>>))
<1> DEFINE r == ApplyWrites(ck, chans, tasks, <<>>)
<1>1. /\ ck.ver \in [Chan -> Nat] /\ ProperSeen(ck.seen) /\ ProperAll(chans, Marked, ran)
      /\ States(chans) /\ LOG \in Chan
  BY ProperStates, LoopAssumption DEF Memory
<1>2. IsSeq(tasks) /\ \A k \in DOMAIN tasks : ProperTask(tasks[k], ran) /\ tasks[k].id.name \in Node
  BY DEF Work, ProperTask
<1>3. ProperWrites(<<>>, Marked, ran)
  BY NoTasks DEF ProperWrites
<1>4. ProperResult(r, ran)
  BY <1>1, <1>2, <1>3, ApplyResult
<1>5. Told(r)
  BY <1>1, <1>2, ApplyTold
<1>6. /\ ck.ver[LOG] <= r.ver[LOG]
      /\ \/ r.ver[LOG] = ck.ver[LOG] /\ r.chans[LOG] = chans[LOG]
         \/ ck.ver[LOG] < r.ver[LOG]
  BY <1>1, ApplyTracks
<1> HIDE DEF r
<1>7. r.ver[LOG] = 0 => r.chans[LOG].vals = <<>>
  BY <1>1, <1>6
<1> QED
  BY <1>4, <1>5, <1>7 DEF Loaded, ProperResult, r

LEMMA ToldInit == Init => ToldInv
<1> SUFFICES ASSUME Init PROVE ToldInv
  OBVIOUS
<1>1. DOMAIN ckpts = {} /\ DOMAIN saves = {} /\ ck.seen = NoSeen
  BY NoTasks DEF Init
<1> QED
  BY <1>1 DEF ToldInv, Told, NoSeen

(* What the next invocation loads is made of what this one stored.         *)
InvokeOK == ToldInv /\ OwnInv /\ LogInv

LEMMA InvokeLoaded ==
  ASSUME Ids, TInv, InvokeOK, NEW req, NEW d, Invoke(req, d)
  PROVE  \E r : /\ Loaded(r) /\ ToSet(r.chans[LOG].vals) \subseteq Held(Origin(Latest.id), LOG)
                /\ \/ /\ ck' = [id |-> Latest.id, ver |-> r.ver, seen |-> With(r.seen, INTERRUPT, r.ver)]
                      /\ saves' = <<>> /\ chans' = r.chans /\ UNCHANGED <<nextId, made>>
                   \/ \E i : /\ Inputs(r, i) /\ chans' = i.chans
                             /\ PutCheckpoint("input", i, <<>>, Latest.step + 1, Latest.id, Latest.id)
<1>1. Work /\ Control /\ Records /\ ToldInv /\ OwnInv /\ \A i \in DOMAIN ckpts : LogRec(ckpts[i])
  BY DEF TInv, InvokeOK, LogInv
<1>2. PICK null, r :
         /\ NullWrites(null) /\ Loads(null, r)
         /\ \/ /\ ck' = [id |-> Latest.id, ver |-> r.ver, seen |-> With(r.seen, INTERRUPT, r.ver)]
               /\ saves' = <<>> /\ chans' = r.chans /\ UNCHANGED <<nextId, made>>
            \/ \E i : /\ Inputs(r, i) /\ chans' = i.chans
                      /\ PutCheckpoint("input", i, <<>>, Latest.step + 1, Latest.id, Latest.id)
  BY <1>1, InvokeParts
<1>3. Loaded(r) /\ ToSet(r.chans[LOG].vals) \subseteq Held(Origin(Latest.id), LOG)
  BY <1>1, <1>2, LoadsFacts
<1> QED
  BY <1>2, <1>3

(* _put_checkpoint leaves what is made, stored and waiting in agreement.   *)
LEMMA PutLog ==
  ASSUME Ids, Control, NEW src, NEW r, NEW queue, IsSeq(queue), NEW s, NEW prev, NEW parent,
         PutCheckpoint(src, r, queue, s, prev, parent), Loaded(r),
         chans' = r.chans, UNCHANGED ckpts,
         \A i \in DOMAIN ckpts : Told(ckpts[i]) /\ LogRec(ckpts[i]),
         \A q \in DOMAIN queue : Told(queue[q]) /\ LogRec(queue[q]) /\ queue[q].id \in DOMAIN made
  PROVE  ToldInv' /\ LogInv'
<1>1. /\ ck'.id = nextId /\ ck'.ver = r.ver /\ ck'.seen = r.seen /\ nextId \in DOMAIN made'
      /\ made'[nextId].vals = Snapshot(r.chans, r.ver)
      /\ nextId \notin DOMAIN made /\ \A i \in DOMAIN made : made'[i] = made[i]
      /\ \A q \in DOMAIN saves' :
           \/ q \in DOMAIN queue /\ saves'[q] = queue[q]
           \/ /\ saves'[q].id = nextId /\ saves'[q].ver = r.ver /\ saves'[q].seen = r.seen
              /\ saves'[q].vals = Snapshot(r.chans, r.ver)
  BY PutMade
<1>2. /\ Told(r) /\ (r.ver[LOG] = 0 => r.chans[LOG].vals = <<>>) /\ r.ver[LOG] \in Nat
      /\ Snapshot(r.chans, r.ver)[LOG] = IF r.ver[LOG] > 0 THEN {r.chans[LOG]} ELSE {}
  BY LogSnapshot, LoopAssumption DEF Loaded
<1>3. /\ \A i \in DOMAIN ckpts : ckpts[i].id \in DOMAIN made
      /\ nextId # 0
  BY DEF Ids, Control
<1>4. ToldInv'
  <2>1. Told(ck')
    BY <1>1, <1>2 DEF Told
  <2>2. \A q \in DOMAIN saves' : Told(saves'[q])
    BY <1>1, <1>2 DEF Told
  <2> QED
    BY <2>1, <2>2 DEF ToldInv
<1>5. \A i \in DOMAIN ckpts' : LogRec(ckpts[i])'
  <2> SUFFICES ASSUME NEW i \in DOMAIN ckpts PROVE LogRec(ckpts[i])'
    OBVIOUS
  <2>1. ckpts'[i] = ckpts[i] /\ LogRec(ckpts[i]) /\ made'[ckpts[i].id] = made[ckpts[i].id]
    BY <1>1, <1>3
  <2> QED
    BY <2>1 DEF LogRec
<1>6. \A q \in DOMAIN saves' : LogRec(saves[q])'
  <2> SUFFICES ASSUME NEW q \in DOMAIN saves' PROVE LogRec(saves[q])'
    OBVIOUS
  <2>1. CASE q \in DOMAIN queue /\ saves'[q] = queue[q]
    <3>1. LogRec(queue[q]) /\ made'[queue[q].id] = made[queue[q].id]
      BY <1>1, <2>1
    <3> QED
      BY <2>1, <3>1 DEF LogRec
  <2>2. CASE saves'[q].id = nextId /\ saves'[q].ver = r.ver /\ saves'[q].vals = Snapshot(r.chans, r.ver)
    BY <1>1, <1>2, <2>2 DEF LogRec
  <2> QED
    BY <1>1, <2>1, <2>2
<1>7. Held(made'[nextId], LOG) = UNION {ToSet(x.vals) : x \in Snapshot(r.chans, r.ver)[LOG]}
  BY <1>1 DEF Held
<1>8. ToSet(r.chans[LOG].vals) \subseteq Held(made'[nextId], LOG)
  <2>1. CASE r.ver[LOG] = 0
    BY <1>2, <2>1, NoTasks
  <2>2. CASE r.ver[LOG] > 0
    BY <1>2, <1>7, <2>2
  <2> QED
    BY <1>2, <2>1, <2>2
<1>9. Origin(ck.id)' = made'[nextId]
  BY <1>1, <1>3 DEF Origin
<1>10. /\ ToSet(chans'[LOG].vals) \subseteq Held(Origin(ck.id), LOG)'
       /\ ck'.ver[LOG] = 0 => chans'[LOG].vals = <<>>
       /\ Snapshot(chans', ck'.ver)[LOG] = made'[ck'.id].vals[LOG]
  BY <1>1, <1>2, <1>8, <1>9
<1> QED
  BY <1>4, <1>5, <1>6, <1>10 DEF LogInv

LEMMA InvokeKept ==
  ASSUME Kind[START] \notin Barriers, Ids, TInv, InvokeOK, NEW req, NEW d, Invoke(req, d)
  PROVE  ToldInv' /\ LogInv'
<1>1. PICK r : /\ Loaded(r) /\ ToSet(r.chans[LOG].vals) \subseteq Held(Origin(Latest.id), LOG)
               /\ \/ /\ ck' = [id |-> Latest.id, ver |-> r.ver, seen |-> With(r.seen, INTERRUPT, r.ver)]
                     /\ saves' = <<>> /\ chans' = r.chans /\ UNCHANGED <<nextId, made>>
                  \/ \E i : /\ Inputs(r, i) /\ chans' = i.chans
                            /\ PutCheckpoint("input", i, <<>>, Latest.step + 1, Latest.id, Latest.id)
  BY InvokeLoaded
<1>2. UNCHANGED ckpts /\ savedId' = Latest.id
  BY InvokeFacts DEF storage
<1>3. \A i \in DOMAIN ckpts : Told(ckpts[i]) /\ LogRec(ckpts[i])
  BY DEF InvokeOK, ToldInv, LogInv
<1>4. CASE /\ ck' = [id |-> Latest.id, ver |-> r.ver, seen |-> With(r.seen, INTERRUPT, r.ver)]
           /\ saves' = <<>> /\ chans' = r.chans /\ UNCHANGED <<nextId, made>>
  <2>1. ck'.id = Latest.id /\ ck'.ver = r.ver /\ ck'.seen = With(r.seen, INTERRUPT, r.ver)
    BY <1>4
  <2>2. ck'.seen[INTERRUPT] = r.ver
    BY <2>1 DEF With
  <2>3. \A c \in Chan : r.ver[c] <= r.ver[c]
    BY <1>1 DEF Loaded
  <2>4. Told(ck')
    BY <2>1, <2>2, <2>3 DEF Told
  <2>5. ToldInv'
    BY <1>2, <1>3, <1>4, <2>4, NoTasks DEF ToldInv
  <2>6. \A i \in DOMAIN ckpts' : LogRec(ckpts[i])'
    BY <1>2, <1>3, <1>4 DEF LogRec
  <2>7. Held(Origin(Latest.id), LOG) = Held(Origin(ck.id), LOG)'
    BY <1>4, <2>1 DEF Origin, Held
  <2>8. LogInv'
    BY <1>1, <1>2, <1>4, <2>1, <2>6, <2>7, NoTasks DEF LogInv, Loaded
  <2> QED
    BY <2>5, <2>8
<1>5. ASSUME NEW i, Inputs(r, i), chans' = i.chans,
             PutCheckpoint("input", i, <<>>, Latest.step + 1, Latest.id, Latest.id)
      PROVE  ToldInv' /\ LogInv'
  <2>1. Loaded(i)
    BY <1>1, <1>5, InputsFacts
  <2>2. Control
    BY DEF TInv
  <2> QED
    BY <1>2, <1>3, <1>5, <2>1, <2>2, NoTasks, PutLog
<1> QED
  BY <1>1, <1>4, <1>5

LEMMA AfterKept ==
  ASSUME Ids, TInv, Accepted, InvokeOK, AfterTick
  PROVE  ToldInv' /\ LogInv'
<1> DEFINE r     == ApplyWrites(ck, chans, tasks, <<>>)
           queue == Touched(saves, ConsumedBy(tasks, chans), r.chans)
<1>1. /\ pc = "run" /\ UNCHANGED <<ckpts, durability>> /\ chans' = r.chans
      /\ \/ /\ r.invalid /\ ck' = [ck EXCEPT !.ver = r.ver, !.seen = r.seen]
            /\ saves' = queue /\ pc' = "exit" /\ UNCHANGED made
         \/ PutCheckpoint("loop", r, queue, step, ck.id, cfg)
  BY DEF AfterTick, CanProceed, Leave, storage
<1>2. /\ Memory /\ Work /\ Control /\ Records
      /\ Told(ck) /\ (ck.ver[LOG] = 0 => chans[LOG].vals = <<>>)
  BY <1>1 DEF TInv, InvokeOK, ToldInv, LogInv
<1>3. Loaded(r)
  BY <1>2, StepLoaded
<1>4. \A i \in DOMAIN ckpts : Told(ckpts[i]) /\ LogRec(ckpts[i])
  BY DEF InvokeOK, ToldInv, LogInv
<1>5. /\ IsSeq(queue)
      /\ \A q \in DOMAIN queue : Told(queue[q]) /\ LogRec(queue[q]) /\ queue[q].id \in DOMAIN made
  <2>1. IsSeq(saves) /\ \A q \in DOMAIN saves : Shaped(saves[q]) /\ ProperSave(saves[q], ran)
    BY <1>2 DEF Ids, Records
  <2>2. /\ IsSeq(queue) /\ DOMAIN queue = DOMAIN saves
        /\ \A q \in DOMAIN saves : /\ queue[q].id = saves[q].id /\ queue[q].ver = saves[q].ver
                                   /\ queue[q].seen = saves[q].seen
                                   /\ queue[q].vals[LOG] = saves[q].vals[LOG]
    BY <2>1, TouchedLog
  <2> HIDE DEF queue
  <2>3. ASSUME NEW q \in DOMAIN saves
        PROVE  Told(queue[q]) /\ LogRec(queue[q]) /\ queue[q].id \in DOMAIN made
    <3>1. Told(saves[q]) /\ LogRec(saves[q]) /\ saves[q].id \in DOMAIN made
      BY <1>2 DEF InvokeOK, ToldInv, LogInv, Ids, IdsOf, Control
    <3> QED
      BY <2>2, <3>1 DEF Told, LogRec
  <2> QED
    BY <2>2, <2>3
<1> HIDE DEF queue
<1>6. CASE PutCheckpoint("loop", r, queue, step, ck.id, cfg)
  <2> HIDE DEF r
  <2> QED
    BY <1>1, <1>2, <1>3, <1>4, <1>5, <1>6, PutLog
<1>7. CASE /\ r.invalid /\ ck' = [ck EXCEPT !.ver = r.ver, !.seen = r.seen]
           /\ saves' = queue /\ pc' = "exit" /\ UNCHANGED made
  <2>1. durability # "exit"
    BY <1>1, <1>7 DEF Accepted
  <2> HIDE DEF r
  <2>2. Told(ck')
    BY <1>3, <1>7 DEF Loaded, Told
  <2>3. ToldInv'
    BY <1>1, <1>4, <1>5, <1>7, <2>2 DEF ToldInv
  <2>4. LogInv'
    BY <1>1, <1>4, <1>5, <1>7, <2>1 DEF LogInv, LogRec
  <2> QED
    BY <2>3, <2>4
<1> QED
  BY <1>1, <1>6, <1>7

LEMMA SaveKept ==
  ASSUME Ids, InvokeOK, SaveCheckpoint
  PROVE  ToldInv' /\ LogInv'
<1> USE DEF loop, counters, observers
<1> DEFINE h == Head(saves)
           k == StoredForm(h)
           t == Tail(saves)
<1>1. /\ saves # <<>> /\ ckpts' = With(ckpts, h.id, k) /\ saves' = t
      /\ UNCHANGED <<pc, ck, chans, durability, savedId, made>>
  BY DEF SaveCheckpoint
<1>2. /\ h = saves[1] /\ 1 \in DOMAIN saves
      /\ \A i \in DOMAIN t : t[i] = saves[i + 1] /\ i + 1 \in DOMAIN saves
  BY <1>1, SeqTail DEF Ids
<1>3. Shaped(h) /\ Told(h) /\ LogRec(h)
  BY <1>2 DEF Ids, InvokeOK, ToldInv, LogInv
<1>4. k.id = h.id /\ k.ver = h.ver /\ k.seen = h.seen /\ k.vals = h.vals
  BY <1>3, StoredFields DEF Fields
<1> HIDE DEF h, k, t
<1>5. Told(k) /\ LogRec(k)
  BY <1>3, <1>4 DEF Told, LogRec
<1>6. \A i \in DOMAIN ckpts' : Told(ckpts'[i]) /\ LogRec(ckpts'[i])
  BY <1>1, <1>5 DEF With, InvokeOK, ToldInv, LogInv
<1>7. \A q \in DOMAIN saves' : Told(saves'[q]) /\ LogRec(saves'[q])
  BY <1>1, <1>2 DEF InvokeOK, ToldInv, LogInv
<1>8. ToldInv'
  BY <1>1, <1>6, <1>7 DEF InvokeOK, ToldInv
<1>9. (\A i \in DOMAIN ckpts : LogRec(ckpts[i]))' /\ (\A q \in DOMAIN saves : LogRec(saves[q]))'
  BY <1>1, <1>6, <1>7 DEF LogRec
<1>10. Origin(ck.id)' = Origin(ck.id)
  BY <1>1 DEF Origin
<1>11. LogInv'
  BY <1>1, <1>9, <1>10 DEF InvokeOK, LogInv
<1> QED
  BY <1>8, <1>11

LEMMA LeaveKept ==
  ASSUME Ids, InvokeOK, LeaveLoop
  PROVE  ToldInv' /\ LogInv'
<1> USE DEF storage, loop, counters, observers
<1> DEFINE e == Unsaved(ExitRecord)
<1>1. /\ pc = "exit" /\ pc' = "closing" /\ UNCHANGED <<ckpts, ck, chans, made>>
      /\ \/ saves' = saves
         \/ durability = "exit" /\ ck.id # savedId /\ saves' = Append(saves, e)
  BY DEF LeaveLoop, background
<1>2. /\ e.id = ck.id /\ e.ver = ck.ver /\ e.seen = ck.seen /\ e.vals = Snapshot(chans, ck.ver)
  <2>1. /\ ExitRecord.id = ck.id /\ ExitRecord.ver = ck.ver /\ ExitRecord.seen = ck.seen
        /\ ExitRecord.vals = Snapshot(chans, ck.ver) /\ \A f \in Fields : e[f] = ExitRecord[f]
    BY SaveFields DEF ExitRecord
  <2> HIDE DEF e
  <2> QED
    BY <2>1 DEF Fields
<1> HIDE DEF e
<1>3. Told(e)
  BY <1>2 DEF InvokeOK, ToldInv, Told
<1>4. ASSUME durability = "exit", ck.id # savedId PROVE LogRec(e)
  <2>1. Snapshot(chans, ck.ver)[LOG] = made[ck.id].vals[LOG]
    BY <1>1, <1>4 DEF InvokeOK, LogInv
  <2>2. Snapshot(chans, ck.ver)[LOG] = IF ck.ver[LOG] > 0 THEN {chans[LOG]} ELSE {}
    BY LogSnapshot
  <2> QED
    BY <1>2, <2>1, <2>2 DEF LogRec
<1>5. \A q \in DOMAIN saves' : Told(saves'[q]) /\ LogRec(saves'[q])
  <2>1. CASE durability = "exit" /\ ck.id # savedId /\ saves' = Append(saves, e)
    <3>1. \A q \in DOMAIN saves' : (q \in DOMAIN saves /\ saves'[q] = saves[q]) \/ saves'[q] = e
      BY <2>1, SeqAppend DEF Ids
    <3> QED
      BY <1>3, <1>4, <2>1, <3>1 DEF InvokeOK, ToldInv, LogInv
  <2>2. CASE saves' = saves
    BY <2>2 DEF InvokeOK, ToldInv, LogInv
  <2> QED
    BY <1>1, <2>1, <2>2
<1>6. ToldInv'
  BY <1>1, <1>5 DEF InvokeOK, ToldInv
<1>7. LogInv'
  BY <1>1, <1>5 DEF InvokeOK, LogInv, LogRec
<1> QED
  BY <1>6, <1>7

LEMMA LogInit == Init => LogInv
<1> SUFFICES ASSUME Init PROVE LogInv
  OBVIOUS
<1>1. DOMAIN ckpts = {} /\ DOMAIN saves = {} /\ pc = "idle"
  BY NoTasks DEF Init
<1> QED
  BY <1>1 DEF LogInv

LEMMA InvokeOKStep ==
  ASSUME Kind[START] \notin Barriers, QInv, TInv, Accepted, InvokeOK, [Next]_vars
  PROVE  InvokeOK'
<1> USE DEF storage, loop, background, counters, observers
<1>0. Ids
  BY DEF QInv
<1>1. OwnInv'
  BY <1>0, OwnStep DEF InvokeOK
<1> SUFFICES ToldInv' /\ LogInv'
  BY <1>1 DEF InvokeOK
<1>2. ASSUME NEW req \in Requests, NEW d \in Durabilities, Invoke(req, d) PROVE ToldInv' /\ LogInv'
  BY <1>0, <1>2, InvokeKept
<1>3. CASE AfterTick
  BY <1>0, <1>3, AfterKept
<1>4. CASE SaveCheckpoint
  BY <1>0, <1>4, SaveKept
<1>5. CASE LeaveLoop
  BY <1>0, <1>5, LeaveKept
<1>6. CASE Close \/ Crash
  <2>1. /\ pc' = "idle" /\ saves' = <<>> /\ UNCHANGED <<ckpts, made>>
        /\ ck' = [id |-> 0, ver |-> NullVersions, seen |-> NoSeen]
    BY <1>6 DEF Close, Crash, Forget
  <2>2. Told(ck')
    BY <2>1 DEF Told, NoSeen
  <2>3. ToldInv'
    BY <2>1, <2>2, NoTasks DEF InvokeOK, ToldInv
  <2>4. LogInv'
    BY <2>1, NoTasks DEF InvokeOK, LogInv, LogRec
  <2> QED
    BY <2>3, <2>4
<1>7. CASE \/ Tick \/ (\E k \in DOMAIN tasks : RunTask(k) \/ FailTask(k)) \/ Panic \/ Flushed
           \/ SaveWrites \/ RequestDrain \/ UNCHANGED vars
  <2>1. /\ UNCHANGED <<ckpts, saves, ck, chans, made, durability, savedId>>
        /\ \/ UNCHANGED pc
           \/ pc \in {"tick", "run", "flush"} /\ pc' \in {"tick", "run", "flush", "exit"}
    BY <1>7 DEF Tick, RunTask, FailTask, Commit, Panic, CanPanic, Leave, Flushed, CanGoOn,
                SaveWrites, RequestDrain, vars
  <2>2. ToldInv'
    BY <2>1 DEF InvokeOK, ToldInv
  <2>3. Origin(ck.id)' = Origin(ck.id)
    BY <2>1 DEF Origin
  <2>4. LogInv'
    BY <2>1, <2>3 DEF InvokeOK, LogInv, LogRec
  <2> QED
    BY <2>2, <2>4
<1> QED
  BY <1>2, <1>3, <1>4, <1>5, <1>6, <1>7 DEF Next, Step

(* A step has tasks when a node is triggered or a Send is pending.         *)
LEMMA ReadyMeans ==
  ASSUME NEW k, NEW chs, IsSeq(chs[TASKS].vals), NEW upd, PrepareNextTasks(k, chs, upd) # <<>>
  PROVE  (\E n \in Node : Triggered(k, chs, n)) \/ chs[TASKS].vals # <<>>
<1> SUFFICES ASSUME \A n \in Node : ~ Triggered(k, chs, n), chs[TASKS].vals = <<>> PROVE FALSE
  OBVIOUS
<1> DEFINE C     == IF upd # {} THEN CandidatesByTrigger(upd) ELSE CandidatesByScan(k)
           S     == {n \in C : Triggered(k, chs, n)}
           ready == Selected(NodeSeq, S)
           sends == chs[TASKS].vals
           D     == [i \in DOMAIN sends |-> i]
           T     == {i \in DOMAIN sends : sends[i] \in Node}
           known == Selected(D, T)
<1>1. S = {}
  BY DEF CandidatesByTrigger, CandidatesByScan
<1>2. DOMAIN ready = {}
  <2>1. IsSeq(NodeSeq) /\ NodeSeq \in Seq(Node) /\ IsInjective(NodeSeq)
    BY AlgoAssumption DEF Node, IsSeq
  <2> HIDE DEF S
  <2>2. ready \in Seq(Node) /\ ToSet(ready) = ToSet(NodeSeq) \cap S
    BY <2>1, SelectedFacts
  <2> HIDE DEF ready
  <2> QED
    BY <1>1, <2>2 DEF ToSet
<1>3. DOMAIN known = {}
  <2>1. DOMAIN sends = {}
    BY NoTasks
  <2>2. D = <<>> /\ T = {}
    BY <2>1
  <2>3. ToSet(known) = {} /\ known \in Seq({})
    <3> HIDE DEF D, T
    <3>1. IsSeq(D) /\ ToSet(D) = {} /\ D \in Seq({}) /\ IsInjective(D)
      BY <2>2, NoTasks DEF IsInjective
    <3> QED
      BY <3>1, SelectedFacts
  <2> HIDE DEF known
  <2> QED
    BY <2>3
<1> HIDE DEF ready, known
<1>4. PullTasks(k, chs, C) = [j \in DOMAIN ready |-> NewTask(PullId(k, ready[j]))]
  BY DEF PullTasks, ready
<1>5. PushTasks(k, chs) = [j \in DOMAIN known |-> NewTask(PushId(k, sends[known[j]], known[j]))]
  BY DEF PushTasks, known
<1>6. PullTasks(k, chs, C) = <<>> /\ PushTasks(k, chs) = <<>>
  BY <1>2, <1>3, <1>4, <1>5
<1>7. PrepareNextTasks(k, chs, upd) = PullTasks(k, chs, C) \o PushTasks(k, chs)
  BY DEF PrepareNextTasks
<1> QED
  BY <1>6, <1>7

(* Only versions and what was seen matter to these.                        *)
LEMMA SameNoticed ==
  ASSUME NEW a, NEW b, a.ver = b.ver, a.seen = b.seen
  PROVE  /\ Noticed(a) => Noticed(b)
         /\ \A chs, n : Triggered(a, chs, n) => Triggered(b, chs, n)
BY DEF Noticed, Triggered

(* A pause that should happen is one that something changed before.        *)
LEMMA PauseMeans ==
  ASSUME NEW k, NEW nodes, NEW ts
  PROVE  ShouldInterrupt(k, nodes, ts) <=> Noticed(k) /\ \E j \in DOMAIN ts : ts[j].id.name \in nodes
BY DEF ShouldInterrupt, Noticed

(* A superstep that leaves tasks ready has changed something.              *)
LEMMA StepNoticed ==
  ASSUME SilentTriggers, Memory, Work, Told(ck), tasks # <<>>,
         Dormant(ck.ver, chans), AllTriggered(ck, chans, tasks),
         ~ ApplyWrites(ck, chans, tasks, <<>>).invalid, NEW upd, NEW k,
         k.ver = ApplyWrites(ck, chans, tasks, <<>>).ver,
         k.seen = ApplyWrites(ck, chans, tasks, <<>>).seen,
         PrepareNextTasks(k, ApplyWrites(ck, chans, tasks, <<>>).chans, upd) # <<>>
  PROVE  Noticed(k)
<1> DEFINE r == ApplyWrites(ck, chans, tasks, <<>>)
<1>1. /\ ck.ver \in [Chan -> Nat] /\ ProperSeen(ck.seen) /\ ProperAll(chans, Marked, ran)
      /\ States(chans) /\ TASKS \in Chan /\ Kind[TASKS] = "Topic"
      /\ TriggersOf \in [Node -> SUBSET Chan]
  BY ProperStates, AlgoAssumption DEF Memory
<1>2. IsSeq(tasks) /\ \A j \in DOMAIN tasks : ProperTask(tasks[j], ran) /\ tasks[j].id.name \in Node
  BY DEF Work, ProperTask
<1>3. IsSeq(r.chans[TASKS].vals)
  <2>1. ProperWrites(<<>>, Marked, ran)
    BY NoTasks DEF ProperWrites
  <2>2. ProperResult(r, ran)
    BY <1>1, <1>2, <2>1, ApplyResult
  <2> HIDE DEF r
  <2> QED
    BY <1>1, <2>2 DEF ProperResult, ProperAll, Proper, Barriers
<1>4. \A c \in Chan : (\A d \in Chan : ck.ver[d] < r.ver[c]) => Noticed(r)
  BY <1>1, <1>2, ApplyTold
<1>5. ASSUME NEW n \in Node, Triggered(r, r.chans, n) PROVE Noticed(r)
  <2>1. \/ \E c \in TriggersOf[n] \cap r.updated : \A d \in Chan : ck.ver[d] < r.ver[c]
        \/ /\ Triggered(ck, chans, n)
           /\ ~ \E i \in DOMAIN tasks : tasks[i].id.name = n /\ ~ IsPush(tasks[i])
    BY <1>1, <1>5, ApplyTriggers
  <2> HIDE DEF r
  <2>2. \E c \in TriggersOf[n] : \A d \in Chan : ck.ver[d] < r.ver[c]
    BY <2>1 DEF AllTriggered
  <2>3. TriggersOf[n] \subseteq Chan
    BY <1>1
  <2> QED
    BY <1>4, <2>2, <2>3
<1>6. ASSUME r.chans[TASKS].vals # <<>> PROVE Noticed(r)
  <2>1. \A d \in Chan : ck.ver[d] < r.ver[TASKS]
    BY <1>1, <1>6, ApplyPushes
  <2> HIDE DEF r
  <2> QED
    BY <1>1, <1>4, <2>1
<1> HIDE DEF r
<1>7. (\E n \in Node : Triggered(k, r.chans, n)) \/ r.chans[TASKS].vals # <<>>
  BY <1>3, ReadyMeans DEF r
<1>8. k.ver = r.ver /\ k.seen = r.seen
  BY DEF r
<1>9. Noticed(r)
  BY <1>5, <1>6, <1>7, <1>8, SameNoticed
<1> QED
  BY <1>8, <1>9, SameNoticed

(* The log of a step is that of the checkpoint before it and its tasks.    *)
LEMMA StepLog ==
  ASSUME Memory, Work, OwnInv, ToSet(chans[LOG].vals) \subseteq Held(Origin(ck.id), LOG)
  PROVE  ToSet(ApplyWrites(ck, chans, tasks, <<>>).chans[LOG].vals)
           \subseteq Held(Origin(ck.id), LOG) \cup {tasks[k].id : k \in DOMAIN tasks}
<1> DEFINE R == Held(Origin(ck.id), LOG) \cup {tasks[k].id : k \in DOMAIN tasks}
<1>1. ck.ver \in [Chan -> Nat] /\ ProperSeen(ck.seen) /\ ProperAll(chans, Marked, ran)
  BY DEF Memory
<1>2. IsSeq(tasks) /\ \A k \in DOMAIN tasks : ProperTask(tasks[k], ran)
  BY DEF Work
<1>3. /\ ToSet(chans[LOG].vals) \subseteq R
      /\ \A k \in DOMAIN tasks : Owns(tasks[k].id, tasks[k].writes) /\ tasks[k].id \in R
  BY DEF OwnInv
<1>4. IsSeq(<<>>) /\ \A w \in ToSet(<<>>) : w.chan # LOG
  BY NoTasks
<1> HIDE DEF R
<1>5. ToSet(ApplyWrites(ck, chans, tasks, <<>>).chans[LOG].vals) \subseteq R
  BY <1>1, <1>2, <1>3, <1>4, ApplyLog
<1> QED
  BY <1>5 DEF R

LEMMA StopInit == Init => StopInv
<1> SUFFICES ASSUME Init PROVE StopInv
  OBVIOUS
<1>1. pc = "idle"
  BY DEF Init
<1> QED
  BY <1>1 DEF StopInv, PausesHonoured

LEMMA AfterStops ==
  ASSUME SilentTriggers, QInv, TInv, ScanInv, InvokeOK, StopInv, AfterTick
  PROVE  StopInv'
<1> DEFINE r     == ApplyWrites(ck, chans, tasks, <<>>)
           queue == Touched(saves, ConsumedBy(tasks, chans), r.chans)
           after == Held(Origin(ck.id), LOG)
<1>1. /\ pc = "run" /\ pc' # "run" /\ chans' = r.chans /\ UNCHANGED <<tasks, savedId>>
      /\ \/ pc' = "exit"
         \/ /\ ~ r.invalid /\ updated' = r.updated
            /\ PutCheckpoint("loop", r, queue, step, ck.id, cfg)
            /\ ~ ShouldInterrupt(ck', INTERRUPT_AFTER, tasks)
  BY DEF AfterTick, CanProceed, Leave
<1>2. CASE pc' = "exit"
  BY <1>2 DEF StopInv, PausesHonoured
<1>3. CASE /\ ~ r.invalid /\ updated' = r.updated
           /\ PutCheckpoint("loop", r, queue, step, ck.id, cfg)
           /\ ~ ShouldInterrupt(ck', INTERRUPT_AFTER, tasks)
  <2>1. Ids /\ Memory /\ Work /\ Control /\ Told(ck) /\ OwnInv
    BY DEF QInv, TInv, InvokeOK, ToldInv
  <2>2. /\ tasks # <<>> /\ Dormant(ck.ver, chans) /\ AllTriggered(ck, chans, tasks)
        /\ ToSet(chans[LOG].vals) \subseteq Held(Origin(ck.id), LOG)
    BY <1>1 DEF StopInv, ScanInv, InvokeOK, LogInv
  <2>3. IsSeq(queue)
    BY <2>1, TouchedFields DEF Ids
  <2>4. ToSet(r.chans[LOG].vals) \subseteq after \cup {tasks[k].id : k \in DOMAIN tasks}
    BY <2>1, <2>2, StepLog
  <2> HIDE DEF queue
  <2>5. ck'.ver = r.ver /\ ck'.seen = r.seen
    <3> HIDE DEF r
    <3> QED
      BY <1>3, <2>1, <2>3, PutMade
  <2>6. PrepareNextTasks(ck', r.chans, r.updated) # <<>> => Noticed(ck')
    BY <1>3, <2>1, <2>2, <2>5, StepNoticed
  <2> HIDE DEF r
  <2>7. /\ ck'.id = nextId /\ nextId \notin DOMAIN made
        /\ made'[nextId].vals = Snapshot(r.chans, r.ver)
        /\ made'[nextId].parent = ck.id /\ \A i \in DOMAIN made : made'[i] = made[i]
    BY <1>3, <2>1, <2>3, PutMade
  <2>8. Held(Origin(made[ck.id].parent), LOG)' = after
    <3>1. ck.id = 0 \/ ck.id \in DOMAIN made
      BY <2>1 DEF Ids, Control
    <3>2. made'[ck'.id].parent = ck.id
      BY <2>7
    <3>3. IF ck.id = 0 THEN TRUE ELSE made'[ck.id] = made[ck.id]
      BY <2>7, <3>1
    <3> QED
      BY <3>2, <3>3 DEF Origin, Held
  <2>9. Held(made[ck.id], LOG)' \subseteq ToSet(r.chans[LOG].vals)
    <3>1. Snapshot(r.chans, r.ver)[LOG] = IF r.ver[LOG] > 0 THEN {r.chans[LOG]} ELSE {}
      BY LogSnapshot
    <3>2. made'[ck'.id].vals[LOG] \subseteq {r.chans[LOG]}
      BY <2>7, <3>1
    <3> QED
      BY <3>2 DEF Held
  <2>10. Noticed(ck') => NothingAfter'
    <3> SUFFICES ASSUME Noticed(ck'),
                        NEW id \in Held(made[ck.id], LOG)' \ Held(Origin(made[ck.id].parent), LOG)'
                 PROVE  id.name \notin INTERRUPT_AFTER
      BY DEF NothingAfter
    <3>1. PICK k \in DOMAIN tasks : id = tasks[k].id
      BY <2>4, <2>8, <2>9
    <3> QED
      BY <1>3, <3>1, PauseMeans
  <2>11. /\ pc' # "run" /\ PrepareNextTasks(ck', chans', updated') = PrepareNextTasks(ck', r.chans, r.updated)
    BY <1>1, <1>3
  <2> QED
    BY <2>6, <2>10, <2>11 DEF StopInv, PausesHonoured
<1> QED
  BY <1>1, <1>2, <1>3

LEMMA TickStops ==
  ASSUME QInv, TInv, StopInv, Tick
  PROVE  StopInv'
<1> USE DEF background, observers
<1> DEFINE ready   == PrepareNextTasks(ck, chans, updated)
           resumed == [k \in DOMAIN ready |-> Reapplied(ready[k])]
<1>1. /\ pc = "tick" /\ UNCHANGED <<ck, savedId, made>>
      /\ \/ pc' = "exit"
         \/ /\ pc' = "run" /\ ready # <<>> /\ tasks' = resumed
            /\ ~ ShouldInterrupt(ck, INTERRUPT_BEFORE, ready)
  BY DEF Tick, Leave
<1>2. /\ IsSeq(ready)
      /\ \A k \in DOMAIN ready : Reapplied(ready[k]).id = ready[k].id
  <2>1. Work /\ ProperAll(chans, Marked, ran)
    BY DEF TInv, Memory
  <2>2. IsSeq(ready) /\ \A k \in DOMAIN ready : ProperTask(ready[k], ran)
    BY <2>1, PreparedProper
  <2> HIDE DEF ready
  <2> QED
    BY <2>1, <2>2, ReappliedFacts
<1>3. ready # <<>> /\ ck.id # savedId => Noticed(ck) /\ NothingAfter
  BY <1>1 DEF StopInv
<1>4. DOMAIN resumed = DOMAIN ready /\ \A k \in DOMAIN ready : resumed[k].id = ready[k].id
  <2> HIDE DEF ready
  <2> QED
    BY <1>2
<1> HIDE DEF ready, resumed
<1>5. ready # <<>> => resumed # <<>>
  <2>1. DOMAIN ready = {} => ready = <<>>
    BY <1>2 DEF IsSeq
  <2> QED
    BY <1>4, <2>1, NoTasks
<1>6. CASE pc' = "exit"
  BY <1>6 DEF StopInv, PausesHonoured
<1>7. CASE pc' = "run" /\ ready # <<>> /\ tasks' = resumed /\ ~ ShouldInterrupt(ck, INTERRUPT_BEFORE, ready)
  <2>1. ck.id # savedId => \A k \in DOMAIN tasks' : tasks'[k].id.name \notin INTERRUPT_BEFORE
    BY <1>3, <1>4, <1>7, PauseMeans
  <2>2. PausesHonoured'
    BY <1>1, <1>3, <1>7, <2>1 DEF PausesHonoured, NothingAfter, TaskId, Origin
  <2> QED
    BY <1>5, <1>7, <2>2 DEF StopInv
<1> QED
  BY <1>1, <1>6, <1>7

LEMMA InvokeStops ==
  ASSUME Kind[START] \notin Barriers, QInv, TInv, InvokeOK, NEW req, NEW d, Invoke(req, d)
  PROVE  StopInv'
<1>0. Ids /\ Control
  BY DEF QInv, TInv
<1>1. PICK r : /\ Loaded(r)
               /\ \/ ck' = [id |-> Latest.id, ver |-> r.ver, seen |-> With(r.seen, INTERRUPT, r.ver)]
                  \/ \E i : /\ Inputs(r, i) /\ chans' = i.chans
                            /\ PutCheckpoint("input", i, <<>>, Latest.step + 1, Latest.id, Latest.id)
  BY <1>0, InvokeLoaded
<1>2. savedId' = Latest.id /\ pc' = "tick"
  BY InvokeFacts
<1>3. CASE ck' = [id |-> Latest.id, ver |-> r.ver, seen |-> With(r.seen, INTERRUPT, r.ver)]
  <2>1. ck'.id = savedId'
    BY <1>2, <1>3
  <2> QED
    BY <1>2, <2>1 DEF StopInv, PausesHonoured
<1>4. ASSUME NEW i, Inputs(r, i),
             PutCheckpoint("input", i, <<>>, Latest.step + 1, Latest.id, Latest.id)
      PROVE  StopInv'
  <2>1. Noticed(i)
    BY <1>1, <1>4, InputsFacts
  <2>2. ck'.id = nextId /\ ck'.ver = i.ver /\ ck'.seen = i.seen /\ made'[nextId].source = "input"
    BY <1>0, <1>4, NoTasks, PutMade
  <2>3. Noticed(ck')
    BY <2>1, <2>2, SameNoticed
  <2>4. NothingAfter'
    BY <2>2 DEF NothingAfter
  <2> QED
    BY <1>2, <2>3, <2>4 DEF StopInv, PausesHonoured
<1> QED
  BY <1>1, <1>3, <1>4

LEMMA StopStep ==
  ASSUME SilentTriggers, Kind[START] \notin Barriers, QInv, TInv, ScanInv, InvokeOK,
         StopInv, [Next]_vars
  PROVE  StopInv'
<1> USE DEF storage, loop, background, counters, observers
<1>1. ASSUME NEW req \in Requests, NEW d \in Durabilities, Invoke(req, d) PROVE StopInv'
  BY <1>1, InvokeStops
<1>2. CASE Tick
  BY <1>2, TickStops
<1>3. ASSUME NEW k \in DOMAIN tasks, RunTask(k) \/ FailTask(k) PROVE StopInv'
  <2>1. Work
    BY DEF TInv
  <2>2. PICK ws : Commit(k, ws)
    BY <1>3 DEF RunTask, FailTask
  <2>3. pc = "run" /\ UNCHANGED <<pc, ck, savedId, made>>
    BY <1>3 DEF RunTask, FailTask, Commit, CanRun
  <2>4. DOMAIN tasks' = DOMAIN tasks /\ \A j \in DOMAIN tasks : tasks'[j].id = tasks[j].id
    BY <2>1, <2>2, CommitTasks
  <2>5. tasks' # <<>>
    BY <2>4, NoTasks
  <2>6. PausesHonoured'
    BY <2>3, <2>4 DEF StopInv, PausesHonoured, TaskId, Origin
  <2> QED
    BY <2>3, <2>5, <2>6 DEF StopInv
<1>4. CASE AfterTick
  BY <1>4, AfterStops
<1>5. CASE Panic \/ LeaveLoop \/ Close \/ Crash
  <2>1. pc' \in {"exit", "closing", "idle"}
    BY <1>5 DEF Panic, Leave, LeaveLoop, Close, Crash
  <2> QED
    BY <2>1 DEF StopInv, PausesHonoured
<1>6. CASE Flushed \/ SaveCheckpoint \/ SaveWrites \/ RequestDrain \/ UNCHANGED vars
  <2>1. /\ UNCHANGED <<ck, chans, updated, tasks, savedId, made>>
        /\ \/ UNCHANGED pc
           \/ pc = "flush" /\ pc' = "tick"
    BY <1>6 DEF Flushed, CanGoOn, SaveCheckpoint, SaveWrites, RequestDrain, vars
  <2>2. NothingAfter => NothingAfter'
    BY <2>1 DEF NothingAfter, Origin
  <2>3. PausesHonoured'
    BY <2>1 DEF StopInv, PausesHonoured, TaskId, Origin
  <2> QED
    BY <2>1, <2>2, <2>3 DEF StopInv
<1> QED
  BY <1>1, <1>2, <1>3, <1>4, <1>5, <1>6 DEF Next, Step

(* Within an invocation nothing runs at a node of interrupt_before in a    *)
(* step it has prepared itself, and nothing follows a step that ran a node *)
(* of interrupt_after: every step that leaves tasks to run has given some  *)
(* channel a version above what the last interrupt saw, so should_interrupt*)
(* cannot pass over the pause (tick, after_tick, _first), through failures,*)
(* crashes and resumes.                                                    *)
THEOREM PausesAreHonoured ==
  ASSUME NoneShared, SilentTriggers, Kind[START] \notin Barriers
  PROVE  Spec /\ []Accepted => []PausesHonoured
<1>1. Init => InvokeOK
  BY ToldInit, OwnInit, LogInit DEF InvokeOK
<1>2. QInv /\ TInv /\ Accepted /\ ScanInv /\ [Next]_vars => ScanInv'
  BY ScanStep
<1>3. QInv /\ TInv /\ Accepted /\ InvokeOK /\ [Next]_vars => InvokeOK'
  BY InvokeOKStep
<1>4. QInv /\ TInv /\ ScanInv /\ InvokeOK /\ StopInv /\ [Next]_vars => StopInv'
  BY StopStep
<1>5. StopInv => PausesHonoured
  BY DEF StopInv
<1> QED
  BY <1>1, <1>2, <1>3, <1>4, <1>5, ScanInit, StopInit, TypesInductive, OrderInductive, PTL DEF Spec

-------------------------------------------------------------------------------
(* Deferred nodes: what is triggered at a time is deferred, or none of it. *)

(* A node is triggered by channels that wait for the end, or by others.    *)
Split == \A n \in Node : Deferred(n) \/ \A c \in TriggersOf[n] : Kind[c] \notin AfterFinish

Alike(k, chs) ==
  \/ \A n \in Node : Triggered(k, chs, n) => Deferred(n)
  \/ \A n \in Node : Triggered(k, chs, n) => ~ Deferred(n)

(* And no Send is pending beside it.                                       *)
Fit(k, chs) == Alike(k, chs) /\ chs[TASKS].vals = <<>>
FitRec(rec) == Fit(rec, Restored(rec.vals))

FitInv ==
  /\ \A i \in DOMAIN ckpts : FitRec(ckpts[i])
  /\ \A q \in DOMAIN saves : FitRec(saves[q])
  /\ pc \in {"tick", "run", "flush"} \/ (pc = "exit" /\ durability = "exit") => Fit(ck, chans)
  /\ DeferredLast

(* What a superstep reports is deferred, or none of it triggers a node: the*)
(* end is looked for when nothing else was updated.                        *)
LEMMA ApplyUpdated ==
  ASSUME NoneShared, NEW ck0, NEW chs, NEW ts, NEW extra
  PROVE  LET r == ApplyWrites(ck0, chs, ts, extra)
         IN  \/ \A c \in r.updated \cap Chan : Kind[c] \notin AfterFinish
             \/ \A c \in r.updated \cap TriggerChan : Kind[c] \in AfterFinish
<1> DEFINE ws       == extra \o FlattenSeq([k \in DOMAIN ts |-> ts[k].writes])
           to       == [c \in Chan |-> WritesTo(c, ws)]
           read     == UNION {TriggersOf[ts[k].id.name] :
                                k \in {j \in DOMAIN ts : ~ IsPush(ts[j])}}
           first(c) == Min({i \in DOMAIN ws : ws[i].chan = c})
           bad      == {c \in Chan : to[c] # <<>> /\ Rejects(c, to[c])}
           reached  == {c \in Chan : to[c] # <<>> /\ \A b \in bad : first(c) < first(b)}
           taken    == ConsumeRead(chs, read)
           written  == WriteAll(taken, reached, to)
           noted    == NotifyStep(written)
           s        == IF bad # {} \/ ts = <<>> THEN written ELSE NotifyFinish(noted)
           r        == ApplyWrites(ck0, chs, ts, extra)
           N(x)     == \A c \in x.updated \cap Chan : Kind[c] \notin AfterFinish
<1>1. r = Applied(ck0, ts, s, bad # {})
  BY Zenon DEF ApplyWrites
<1>2. \A c \in reached : c \in Chan /\ to[c] # <<>>
  OBVIOUS
<1>3. s = written \/ s = NotifyFinish(noted)
  OBVIOUS
<1>4. taken.updated = {}
  BY DEF ConsumeRead
<1>5. r.updated = s.updated
  <2> HIDE DEF s, bad, r
  <2> QED
    BY <1>1 DEF Applied
<1> HIDE DEF bad, reached, read, to, s, taken, r
<1>6. \A c \in Chan : Kind[c] \in AfterFinish => Kind[c] = "LastValueAfterFinish"
  BY DEF AfterFinish, NoneShared, SharedWithCheckpoint, Barriers
<1>7. N(written)
  <2>1. ASSUME NEW c \in written.updated \cap Chan, Kind[c] = "LastValueAfterFinish" PROVE FALSE
    <3>1. /\ c \in reached
          /\ IsAvailable(c, IF c \in reached THEN Update(c, taken.chans[c], to[c]) ELSE taken.chans[c])
      BY <1>4, <2>1 DEF WriteAll, Phase
    <3> DEFINE u == Update(c, taken.chans[c], to[c])
    <3>2. IsAvailable(c, u)
      BY <3>1
    <3>3. u = [vals |-> <<Last(to[c])>>, fin |-> FALSE]
      BY <1>2, <2>1, <3>1 DEF Update, Barriers, Reducers
    <3>4. ~ u.fin
      BY <3>3
    <3> HIDE DEF u
    <3>5. u.fin
      BY <2>1, <3>2 DEF IsAvailable, Reducers
    <3> QED
      BY <3>4, <3>5
  <2> QED
    BY <1>6, <2>1
<1> HIDE DEF written
<1>8. N(noted)
  <2>1. ASSUME NEW c \in noted.updated \cap Chan, Kind[c] = "LastValueAfterFinish" PROVE FALSE
    <3>1. c \notin written.updated
      BY <1>7, <2>1 DEF AfterFinish
    <3>2. Updates(c, written.chans[c], <<>>)
      BY <2>1, <3>1 DEF NotifyStep, WriteAll, Phase
    <3> QED
      BY <2>1, <3>2 DEF Updates, Barriers, ClearedByStep
  <2> QED
    BY <1>6, <2>1
<1> HIDE DEF noted
<1>9. CASE s = NotifyFinish(noted) /\ noted.updated \cap TriggerChan = {}
  <2>1. ASSUME NEW c \in s.updated \cap TriggerChan PROVE Kind[c] \in AfterFinish
    <3>1. c \notin noted.updated
      BY <1>9
    <3>2. c \in Chan
      BY AlgoAssumption DEF TriggerChan
    <3>3. Finishes(c, noted.chans[c])
      BY <1>9, <3>1 DEF NotifyFinish, Phase
    <3> QED
      BY <3>3 DEF Finishes
  <2> QED
    BY <1>5, <2>1 DEF r
<1>10. CASE s = written \/ (s = NotifyFinish(noted) /\ noted.updated \cap TriggerChan # {})
  <2>1. s = written \/ s = noted
    BY <1>10 DEF NotifyFinish
  <2>2. N(s)
    BY <1>7, <1>8, <2>1
  <2> QED
    BY <1>5, <2>2 DEF r
<1> QED
  BY <1>3, <1>9, <1>10

(* So what it triggers is alike, when every node that was triggered before *)
(* had its task.                                                           *)
LEMMA ApplyAlike ==
  ASSUME NoneShared, SilentTriggers, Split, NEW ck0, ck0.ver \in [Chan -> Nat],
         NEW chs, States(chs), Dormant(ck0.ver, chs), NEW ts, AllTriggered(ck0, chs, ts), NEW extra
  PROVE  LET r == ApplyWrites(ck0, chs, ts, extra) IN Alike(r, r.chans)
<1> DEFINE r == ApplyWrites(ck0, chs, ts, extra)
<1>1. \A n \in Node : Triggered(r, r.chans, n) =>
        \/ \E c \in TriggersOf[n] \cap r.updated : \A d \in Chan : ck0.ver[d] < r.ver[c]
        \/ /\ Triggered(ck0, chs, n)
           /\ ~ \E i \in DOMAIN ts : ts[i].id.name = n /\ ~ IsPush(ts[i])
  BY ApplyTriggers
<1>2. \/ \A c \in r.updated \cap Chan : Kind[c] \notin AfterFinish
      \/ \A c \in r.updated \cap TriggerChan : Kind[c] \in AfterFinish
  BY ApplyUpdated
<1> HIDE DEF r
<1>3. ASSUME NEW n \in Node, Triggered(r, r.chans, n)
      PROVE  \E c \in TriggersOf[n] \cap r.updated : c \in Chan /\ c \in TriggerChan
  <2>1. PICK c \in TriggersOf[n] : c \in r.updated
    BY <1>1, <1>3 DEF AllTriggered
  <2>2. c \in Chan /\ c \in TriggerChan
    BY <2>1, AlgoAssumption DEF TriggerChan
  <2> QED
    BY <2>1, <2>2
<1>4. CASE \A c \in r.updated \cap Chan : Kind[c] \notin AfterFinish
  <2>1. \A n \in Node : Triggered(r, r.chans, n) => ~ Deferred(n)
    BY <1>3, <1>4 DEF Deferred
  <2> QED
    BY <2>1 DEF Alike, r
<1>5. CASE \A c \in r.updated \cap TriggerChan : Kind[c] \in AfterFinish
  <2>1. \A n \in Node : Triggered(r, r.chans, n) => Deferred(n)
    BY <1>3, <1>5 DEF Split
  <2> QED
    BY <2>1 DEF Alike, r
<1> QED
  BY <1>2, <1>4, <1>5

(* A channel that nothing is written to gets no writes.                    *)
LEMMA Unwritten ==
  ASSUME NEW c, NEW ts, IsSeq(ts),
         \A k \in DOMAIN ts : IsSeq(ts[k].writes) /\ \A w \in ToSet(ts[k].writes) : w.chan # c,
         NEW extra, IsSeq(extra), \A w \in ToSet(extra) : w.chan # c
  PROVE  WritesTo(c, extra \o FlattenSeq([k \in DOMAIN ts |-> ts[k].writes])) = <<>>
<1> DEFINE parts == [k \in DOMAIN ts |-> ts[k].writes]
           ws    == extra \o FlattenSeq(parts)
           E     == UNION {ToSet(parts[k]) : k \in DOMAIN parts}
<1>1. DOMAIN ts = 1..Len(ts) /\ Len(ts) \in Nat
  BY DEF IsSeq
<1>2. ASSUME NEW k \in DOMAIN ts PROVE parts[k] \in Seq(E)
  <2>1. parts[k] \in Seq(ToSet(parts[k])) /\ ToSet(parts[k]) \subseteq E
    BY DEF IsSeq
  <2> HIDE DEF parts, E
  <2>2. \A S, T, x : x \in Seq(S) /\ S \subseteq T => x \in Seq(T)
    OBVIOUS
  <2> QED
    BY <2>1, <2>2
<1>3. parts \in Seq(Seq(E))
  <2> HIDE DEF E
  <2> QED
    BY <1>1, <1>2
<1>4. \A w \in E : w.chan # c
  OBVIOUS
<1>5. E = UNION {ToSet(parts[k]) : k \in DOMAIN parts}
  OBVIOUS
<1> HIDE DEF parts, E
<1>6. IsSeq(FlattenSeq(parts)) /\ ToSet(FlattenSeq(parts)) = E
  <2>1. FlattenSeq(parts) \in Seq(E) /\ ToSet(FlattenSeq(parts)) = E
    BY <1>3, <1>5, FlattenFacts
  <2> QED
    BY <2>1, SeqRange
<1>7. IsSeq(ws) /\ ToSet(ws) = ToSet(extra) \cup E
  BY <1>6, SeqJoin
<1> HIDE DEF ws
<1>8. IsSeq(WritesTo(c, ws)) /\ ToSet(WritesTo(c, ws)) = {w.val : w \in {x \in ToSet(ws) : x.chan = c}}
  BY <1>7, WritesToFacts
<1>9. ToSet(WritesTo(c, ws)) = {}
  BY <1>4, <1>7, <1>8
<1>10. WritesTo(c, ws) \in Seq({})
  BY <1>8, <1>9 DEF IsSeq
<1>11. WritesTo(c, ws) = <<>>
  BY <1>10
<1> QED
  BY <1>11 DEF ws, parts

(* What a client writes changes the channels it is written to.             *)
LEMMA ApplyClient ==
  ASSUME NEW ck0, ck0.ver \in [Chan -> Nat], NEW chs, States(chs),
         NEW extra, IsSeq(extra), NEW c \in Chan, \A w \in ToSet(extra) : w.chan # c
  PROVE  LET r == ApplyWrites(ck0, chs, <<>>, extra)
         IN  r.ver[c] = ck0.ver[c] /\ r.chans[c] = chs[c]
<1> DEFINE ts       == <<>>
           ws       == extra \o FlattenSeq([k \in DOMAIN ts |-> ts[k].writes])
           to       == [d \in Chan |-> WritesTo(d, ws)]
           read     == UNION {TriggersOf[ts[k].id.name] :
                                k \in {j \in DOMAIN ts : ~ IsPush(ts[j])}}
           first(d) == Min({i \in DOMAIN ws : ws[i].chan = d})
           bad      == {d \in Chan : to[d] # <<>> /\ Rejects(d, to[d])}
           reached  == {d \in Chan : to[d] # <<>> /\ \A b \in bad : first(d) < first(b)}
           written  == WriteAll(ConsumeRead(chs, read), reached, to)
           s        == IF bad # {} \/ ts = <<>> THEN written ELSE NotifyFinish(NotifyStep(written))
           r        == ApplyWrites(ck0, chs, ts, extra)
<1>1. r = Applied(ck0, ts, s, bad # {})
  BY Zenon DEF ApplyWrites
<1>2. s = written
  OBVIOUS
<1>3. read = {}
  BY NoTasks
<1>4. to[c] = <<>>
  <2>1. \A k \in DOMAIN ts : IsSeq(ts[k].writes) /\ \A w \in ToSet(ts[k].writes) : w.chan # c
    BY NoTasks
  <2>2. IsSeq(ts)
    BY NoTasks
  <2> HIDE DEF ts
  <2> QED
    BY <2>1, <2>2, Unwritten
<1>5. c \notin reached
  BY <1>4
<1> HIDE DEF reached, to, bad, read, s, ts
<1>6. c \notin s.bumped /\ s.chans[c] = chs[c]
  BY <1>2, <1>3, <1>5 DEF WriteAll, Phase, ConsumeRead
<1>7. r.ver[c] = ck0.ver[c] /\ r.chans[c] = chs[c]
  <2> HIDE DEF r
  <2> QED
    BY <1>1, <1>6 DEF Applied
<1> QED
  BY <1>7 DEF ts

(* No Send is pending where none is sent.                                  *)
LEMMA ApplySendFree ==
  ASSUME NEW ck0, NEW chs, States(chs), chs[TASKS].vals = <<>>,
         NEW ts, IsSeq(ts),
         \A k \in DOMAIN ts : /\ ts[k].id.name \in Node /\ IsSeq(ts[k].writes)
                              /\ \A w \in ToSet(ts[k].writes) : w.chan # TASKS,
         NEW extra, IsSeq(extra), \A w \in ToSet(extra) : w.chan # TASKS
  PROVE  ApplyWrites(ck0, chs, ts, extra).chans[TASKS].vals = <<>>
<1> DEFINE ws       == extra \o FlattenSeq([k \in DOMAIN ts |-> ts[k].writes])
           to       == [c \in Chan |-> WritesTo(c, ws)]
           read     == UNION {TriggersOf[ts[k].id.name] :
                                k \in {j \in DOMAIN ts : ~ IsPush(ts[j])}}
           first(c) == Min({i \in DOMAIN ws : ws[i].chan = c})
           bad      == {c \in Chan : to[c] # <<>> /\ Rejects(c, to[c])}
           reached  == {c \in Chan : to[c] # <<>> /\ \A b \in bad : first(c) < first(b)}
           taken    == ConsumeRead(chs, read)
           written  == WriteAll(taken, reached, to)
           noted    == NotifyStep(written)
           s        == IF bad # {} \/ ts = <<>> THEN written ELSE NotifyFinish(noted)
           r        == ApplyWrites(ck0, chs, ts, extra)
<1>1. r = Applied(ck0, ts, s, bad # {})
  BY Zenon DEF ApplyWrites
<1>2. TASKS \in Chan /\ Kind[TASKS] = "Topic" /\ TASKS \notin TriggerChan
  BY AlgoAssumption
<1>3. TASKS \notin reached
  <2>1. to[TASKS] = <<>>
    BY <1>2, Unwritten
  <2> QED
    BY <2>1
<1>4. TASKS \notin read
  BY <1>2 DEF TriggerChan
<1>5. s = written \/ s = NotifyFinish(noted)
  OBVIOUS
<1> DEFINE x == chs[TASKS]
<1>6. x = [vals |-> x.vals, fin |-> x.fin] /\ x.vals = <<>>
  BY <1>2 DEF States, IsState
<1>7. r.chans = s.chans
  <2> HIDE DEF s, bad, r
  <2> QED
    BY <1>1 DEF Applied
<1> HIDE DEF bad, reached, read, to, s, r
<1>8. written.chans[TASKS] = x
  BY <1>2, <1>3, <1>4 DEF WriteAll, Phase, ConsumeRead
<1> HIDE DEF written, x
<1>9. noted.chans[TASKS].vals = <<>>
  <2>1. noted.chans[TASKS] = x \/ noted.chans[TASKS] = Update(TASKS, x, <<>>)
    BY <1>2, <1>8 DEF NotifyStep, WriteAll, Phase
  <2>2. Update(TASKS, x, <<>>) = [x EXCEPT !.vals = <<>>]
    BY <1>2 DEF Update, ClearedByStep
  <2> HIDE DEF noted
  <2>3. [x EXCEPT !.vals = <<>>].vals = <<>>
    BY <1>6
  <2> QED
    BY <1>6, <2>1, <2>2, <2>3
<1> HIDE DEF noted
<1>10. NotifyFinish(noted).chans[TASKS] = noted.chans[TASKS]
  BY <1>2 DEF NotifyFinish, Phase, Finish, Finishes, AfterFinish
<1>11. s.chans[TASKS].vals = <<>>
  BY <1>5, <1>6, <1>8, <1>9, <1>10
<1> QED
  BY <1>7, <1>11 DEF r

(* Without pending Sends every task is of a node that is triggered.        *)
LEMMA PreparedAre ==
  ASSUME NEW k, NEW chs, chs[TASKS].vals = <<>>, NEW upd
  PROVE  LET ts == PrepareNextTasks(k, chs, upd)
         IN  \A i \in DOMAIN ts : ts[i].id.name \in Node /\ Triggered(k, chs, ts[i].id.name)
<1> DEFINE C     == IF upd # {} THEN CandidatesByTrigger(upd) ELSE CandidatesByScan(k)
           S     == {n \in C : Triggered(k, chs, n)}
           ready == Selected(NodeSeq, S)
           p     == PullTasks(k, chs, C)
           sends == chs[TASKS].vals
           D     == [i \in DOMAIN sends |-> i]
           T     == {i \in DOMAIN sends : sends[i] \in Node}
           known == Selected(D, T)
<1>1. S \subseteq Node /\ \A n \in S : Triggered(k, chs, n)
  BY DEF CandidatesByTrigger, CandidatesByScan
<1>2. ready \in Seq(Node) /\ ToSet(ready) \subseteq S
  <2>1. IsSeq(NodeSeq) /\ NodeSeq \in Seq(Node)
    BY AlgoAssumption DEF Node, IsSeq
  <2> HIDE DEF S
  <2> QED
    BY <2>1, SelectedFacts
<1>3. DOMAIN known = {}
  <2>1. DOMAIN sends = {}
    BY NoTasks
  <2>2. D = <<>>
    BY <2>1
  <2>3. known \in Seq({})
    <3> HIDE DEF D, T
    <3>1. D \in Seq({})
      BY <2>2
    <3> QED
      BY <3>1, SelectedFacts
  <2> HIDE DEF known
  <2> QED
    BY <2>3
<1>4. PushTasks(k, chs) = [j \in DOMAIN known |-> NewTask(PushId(k, sends[known[j]], known[j]))]
  BY DEF PushTasks
<1>5. p = [j \in DOMAIN ready |-> NewTask(PullId(k, ready[j]))]
  BY DEF PullTasks
<1> HIDE DEF ready, known, S
<1>6. PushTasks(k, chs) = <<>>
  BY <1>3, <1>4
<1>7. \A j \in DOMAIN p : j \in DOMAIN ready /\ p[j].id.name = ready[j]
  BY <1>5 DEF NewTask, PullId
<1>8. p \in Seq(ToSet(p))
  <2>1. DOMAIN ready = 1..Len(ready) /\ Len(ready) \in Nat
    BY <1>2
  <2>2. p = [j \in 1..Len(ready) |-> p[j]]
    BY <1>5, <2>1
  <2>3. \A j \in 1..Len(ready) : p[j] \in ToSet(p)
    BY <1>5, <2>1 DEF ToSet
  <2> HIDE DEF p
  <2> QED
    BY <2>1, <2>2, <2>3
<1>9. PrepareNextTasks(k, chs, upd) = p \o PushTasks(k, chs)
  BY DEF PrepareNextTasks
<1> HIDE DEF p
<1>10. PrepareNextTasks(k, chs, upd) = p
  BY <1>6, <1>8, <1>9
<1>11. \A j \in DOMAIN ready : ready[j] \in S
  BY <1>2 DEF ToSet
<1>12. \A j \in DOMAIN p : p[j].id.name \in Node /\ Triggered(k, chs, p[j].id.name)
  BY <1>1, <1>7, <1>11
<1> QED
  BY <1>10, <1>12

(* Only versions and what the nodes have seen matter.                      *)
LEMMA SameFit ==
  ASSUME NEW a, NEW b, a.ver = b.ver,
         \A n \in Node : /\ n \in DOMAIN a.seen <=> n \in DOMAIN b.seen
                         /\ n \in DOMAIN a.seen => a.seen[n] = b.seen[n],
         NEW chs, Fit(a, chs)
  PROVE  Fit(b, chs)
<1>1. \A n \in Node : Triggered(b, chs, n) => Triggered(a, chs, n)
  BY DEF Triggered
<1> QED
  BY <1>1 DEF Fit, Alike

LEMMA RestoredFit ==
  ASSUME SilentTriggers, NEW k, NEW chs, Fit(k, chs),
         NEW rec, rec.ver = k.ver, rec.seen = k.seen,
         \A c \in Chan : rec.vals[c] = Snapshot(chs, k.ver)[c]
  PROVE  FitRec(rec)
<1> DEFINE new == Restored(rec.vals)
<1>1. ASSUME NEW c \in Chan PROVE new[c] \in {Fresh(c), chs[c]}
  <2>1. new[c] = FromCheckpoint(c, rec.vals[c])
    BY DEF Restored
  <2>2. rec.vals[c] = {} \/ rec.vals[c] = {chs[c]}
    BY DEF Snapshot, Checkpoint
  <2> QED
    BY <2>1, <2>2 DEF FromCheckpoint
<1> HIDE DEF new
<1>2. ASSUME NEW n \in Node, NEW c \in TriggersOf[n], IsAvailable(c, new[c])
      PROVE  new[c] = chs[c]
  <2>1. c \in Chan /\ ~ IsAvailable(c, Fresh(c))
    BY AlgoAssumption DEF SilentTriggers, Silent
  <2> QED
    BY <1>1, <1>2, <2>1
<1>3. \A n \in Node : Triggered(rec, new, n) => Triggered(k, chs, n)
  BY <1>2 DEF Triggered
<1>4. TASKS \in Chan /\ Fresh(TASKS).vals = <<>>
  BY AlgoAssumption DEF Fresh, Barriers
<1>5. new[TASKS].vals = <<>>
  BY <1>1, <1>4 DEF Fit
<1> QED
  BY <1>3, <1>5 DEF FitRec, Fit, Alike, new

LEMMA SameFitRec ==
  ASSUME NEW a, NEW b, a.ver = b.ver, a.seen = b.seen,
         \A c \in Chan : a.vals[c] = b.vals[c], FitRec(a)
  PROVE  FitRec(b)
<1>1. Restored(a.vals) = Restored(b.vals)
  BY DEF Restored
<1> QED
  BY <1>1, SameFit DEF FitRec

LEMMA LatestFit ==
  ASSUME SilentTriggers, Ids, FitInv
  PROVE  FitRec(Latest)
<1>1. CASE Latest = EmptyCheckpoint
  <2> DEFINE rec == EmptyCheckpoint
             chs == Restored(rec.vals)
  <2>1. rec.vals = [c \in Chan |-> {}]
    BY DEF EmptyCheckpoint
  <2> HIDE DEF rec
  <2>2. chs = [c \in Chan |-> Fresh(c)]
    BY <2>1 DEF Restored, FromCheckpoint
  <2> HIDE DEF chs
  <2>3. \A n \in Node : \A c \in TriggersOf[n] : ~ IsAvailable(c, chs[c])
    BY <2>2, AlgoAssumption DEF SilentTriggers, Silent
  <2>4. chs[TASKS].vals = <<>>
    BY <2>2, AlgoAssumption DEF Fresh, Barriers
  <2>5. \A n \in Node : ~ Triggered(rec, chs, n)
    BY <2>3 DEF Triggered
  <2> QED
    BY <1>1, <2>4, <2>5 DEF FitRec, Fit, Alike, rec, chs
<1>2. CASE Latest.id \in DOMAIN ckpts /\ Latest = ckpts[Latest.id]
  BY <1>2 DEF FitInv
<1> QED
  BY <1>1, <1>2, LatestFacts

(* With nothing shared, what waits stays as it is.                         *)
LEMMA TouchedFit ==
  ASSUME NEW queue, IsSeq(queue), NEW consumed, NEW new,
         \A q \in DOMAIN queue : Shaped(queue[q]) /\ queue[q].shared = {} /\ FitRec(queue[q])
  PROVE  LET t == Touched(queue, consumed, new)
         IN  IsSeq(t) /\ \A q \in DOMAIN t : FitRec(t[q])
<1> DEFINE t == Touched(queue, consumed, new)
<1>1. /\ IsSeq(t) /\ DOMAIN t = DOMAIN queue
      /\ \A q \in DOMAIN queue : \A f \in Fields \ {"vals"} : t[q][f] = queue[q][f]
  BY TouchedFields
<1>2. ASSUME NEW q \in DOMAIN queue PROVE FitRec(t[q])
  <2>1. t[q].ver = queue[q].ver /\ t[q].seen = queue[q].seen
    BY <1>1 DEF Fields
  <2>2. "shared" \in DOMAIN queue[q] /\ "vals" \in DOMAIN queue[q]
    BY DEF Shaped, Fields
  <2>3. t[q].vals = [c \in Chan |-> queue[q].vals[c]]
    BY <2>2 DEF Touched
  <2> HIDE DEF t
  <2>4. \A c \in Chan : t[q].vals[c] = queue[q].vals[c]
    BY <2>3
  <2> QED
    BY <2>1, <2>4, SameFitRec
<1> QED
  BY <1>1, <1>2

(* _put_checkpoint, of what apply_writes returned.                         *)
LEMMA PutFit ==
  ASSUME SilentTriggers, Ids, Control, NEW src, NEW r, NEW queue, IsSeq(queue),
         NEW s, NEW prev, NEW parent, PutCheckpoint(src, r, queue, s, prev, parent),
         Fit(r, r.chans), \A q \in DOMAIN queue : FitRec(queue[q])
  PROVE  Fit(ck', r.chans) /\ \A q \in DOMAIN saves' : FitRec(saves'[q])
<1>1. ck'.ver = r.ver /\ ck'.seen = r.seen
  BY PutMade
<1>2. \A q \in DOMAIN saves' :
        \/ q \in DOMAIN queue /\ saves'[q] = queue[q]
        \/ /\ saves'[q].id = nextId /\ saves'[q].ver = r.ver /\ saves'[q].seen = r.seen
           /\ saves'[q].vals = Snapshot(r.chans, r.ver)
  BY PutMade, Zenon
<1>3. Fit(ck', r.chans)
  BY <1>1, SameFit
<1>4. ASSUME NEW q \in DOMAIN saves' PROVE FitRec(saves'[q])
  <2>1. CASE saves'[q].ver = r.ver /\ saves'[q].seen = r.seen /\ saves'[q].vals = Snapshot(r.chans, r.ver)
    BY <2>1, RestoredFit
  <2> QED
    BY <1>2, <2>1
<1> QED
  BY <1>3, <1>4

(* A Command triggers no node.                                             *)
LEMMA LoadsFit ==
  ASSUME SilentTriggers, Ids, Control, Records, ScanInv, FitInv,
         NEW null, NullWrites(null), NEW r, Loads(null, r)
  PROVE  r.ver \in [Chan -> Nat] /\ States(r.chans) /\ Dormant(r.ver, r.chans) /\ Fit(r, r.chans)
<1> DEFINE base == Latest
           chs  == Restored(base.vals)
<1>1. ProperRec(base, ran) /\ ProperAll(chs, Marked, ran) /\ Leading(base) /\ FitRec(base)
  BY LatestProper, RestoredProper, LatestLeads, LatestFit
<1>2. base.ver \in [Chan -> Nat] /\ States(chs) /\ Dormant(base.ver, chs) /\ Fit(base, chs)
  BY <1>1, ProperStates DEF ProperRec, Leading, FitRec
<1>3. PICK ck0 : /\ ck0.ver = base.ver /\ ck0.seen = base.seen
                 /\ \/ r.ver = ck0.ver /\ r.seen = ck0.seen /\ r.chans = chs
                    \/ r = ApplyWrites(ck0, chs, <<>>, null)
  BY DEF Loads
<1> HIDE DEF base, chs
<1>4. Fit(ck0, chs)
  BY <1>2, <1>3, SameFit
<1>5. CASE r.ver = ck0.ver /\ r.seen = ck0.seen /\ r.chans = chs
  <2>1. Fit(r, chs)
    BY <1>4, <1>5, SameFit
  <2> QED
    BY <1>2, <1>3, <1>5, <2>1
<1>6. CASE r = ApplyWrites(ck0, chs, <<>>, null)
  <2>1. r.ver \in [Chan -> Nat] /\ States(r.chans) /\ r.seen = SeenAfter(ck0, <<>>)
    BY <1>2, <1>3, <1>6, ApplyTracks
  <2>2. /\ Dormant(r.ver, r.chans)
        /\ \A n \in Node : Triggered(r, r.chans, n) =>
             \/ \E c \in TriggersOf[n] \cap r.updated : \A d \in Chan : ck0.ver[d] < r.ver[c]
             \/ Triggered(ck0, chs, n)
    BY <1>2, <1>3, <1>6, ApplyTriggers
  <2>3. IsSeq(null)
    BY DEF NullWrites, ProperPut
  <2>4. ASSUME NEW c \in Chan, c \notin {COMMAND, "RESUME"}
        PROVE  r.ver[c] = ck0.ver[c] /\ r.chans[c] = chs[c]
    <3>1. \A w \in ToSet(null) : w.chan # c
      BY <2>4 DEF NullWrites
    <3> QED
      BY <1>2, <1>3, <1>6, <2>3, <3>1, ApplyClient
  <2>5. ASSUME NEW n \in Node, NEW c \in TriggersOf[n] PROVE c \in Chan /\ c \notin {COMMAND, "RESUME"}
    <3>1. c \in Chan /\ ~ IsAvailable(c, Fresh(c)) /\ "RESUME" \notin Chan
      BY AlgoAssumption DEF SilentTriggers, Silent, ControlChan
    <3>2. Kind[COMMAND] = "BinOp" /\ COMMAND \in Chan
      BY LoopAssumption
    <3>3. IsAvailable(COMMAND, Fresh(COMMAND))
      BY <3>2 DEF IsAvailable, Reducers
    <3> QED
      BY <3>1, <3>3
  <2>6. ASSUME NEW n \in Node, Triggered(r, r.chans, n) PROVE Triggered(ck0, chs, n)
    <3> SUFFICES ASSUME NEW c \in TriggersOf[n], \A d \in Chan : ck0.ver[d] < r.ver[c] PROVE FALSE
      BY <2>2, <2>6
    <3>1. c \in Chan /\ r.ver[c] = ck0.ver[c] /\ ck0.ver[c] < r.ver[c]
      BY <2>4, <2>5
    <3>2. r.ver[c] \in Nat
      BY <2>1, <3>1
    <3> QED
      BY <3>1, <3>2
  <2>7. r.chans[TASKS] = chs[TASKS]
    BY <2>4, ClientChannels, AlgoAssumption
  <2> QED
    BY <1>4, <2>1, <2>2, <2>6, <2>7 DEF Fit, Alike
<1> QED
  BY <1>3, <1>5, <1>6

(* New input gives a task to every node that is triggered, and drops it.   *)
LEMMA InputsFit ==
  ASSUME NoneShared, SilentTriggers, Split, NEW r, Loaded(r), Dormant(r.ver, r.chans),
         Fit(r, r.chans), NEW i, Inputs(r, i)
  PROVE  Fit(i, i.chans)
<1>1. PICK ck1, n : /\ ck1.ver = r.ver /\ ck1.seen = r.seen
                    /\ i = ApplyWrites(ck1, r.chans, PrepareNextTasks(ck1, r.chans, {}),
                                       <<Write(START, ClientId(n))>>)
  BY DEF Inputs
<1> DEFINE ts == PrepareNextTasks(ck1, r.chans, {})
           x  == <<Write(START, ClientId(n))>>
<1>2. /\ ck1.ver \in [Chan -> Nat] /\ ProperAll(r.chans, Marked, ran) /\ States(r.chans)
      /\ Dormant(ck1.ver, r.chans) /\ r.chans[TASKS].vals = <<>> /\ IsSeq(r.chans[TASKS].vals)
  BY <1>1, ProperStates, NoTasks DEF Loaded, Fit
<1>3. IsSeq(ts) /\ \A k \in DOMAIN ts : ts[k].id.name \in Node /\ ts[k].writes = <<>>
  BY <1>2, PreparedProper DEF ProperTask
<1>4. AllTriggered(ck1, r.chans, ts)
  <2>1. Leads(ck1, r.chans, {})
    BY DEF Leads
  <2> QED
    BY <1>2, <2>1, PreparedScan
<1>5. IsSeq(x) /\ \A w \in ToSet(x) : w.chan # TASKS
  <2>1. ToSet(x) = {Write(START, ClientId(n))} /\ Write(START, ClientId(n)).chan = START
    BY ClientOwn
  <2>2. ProperWrites(x, Marked, ran)
    BY ClientWrites
  <2> HIDE DEF x
  <2> QED
    BY <2>1, <2>2, ClientChannels DEF ProperWrites
<1> HIDE DEF ts, x
<1>6. i = ApplyWrites(ck1, r.chans, ts, x)
  BY <1>1 DEF ts, x
<1>7. Alike(i, i.chans)
  BY <1>2, <1>4, <1>6, ApplyAlike
<1>8. i.chans[TASKS].vals = <<>>
  <2>1. \A k \in DOMAIN ts : /\ ts[k].id.name \in Node /\ IsSeq(ts[k].writes)
                             /\ \A w \in ToSet(ts[k].writes) : w.chan # TASKS
    BY <1>3, NoTasks
  <2> QED
    BY <1>2, <1>3, <1>5, <1>6, <2>1, ApplySendFree
<1> QED
  BY <1>7, <1>8 DEF Fit

(* A step.                                                                 *)
LEMMA StepFit ==
  ASSUME NoneShared, SilentTriggers, Split, SendFree, Memory, Work, OwnInv,
         Dormant(ck.ver, chans), AllTriggered(ck, chans, tasks), Fit(ck, chans)
  PROVE  LET r == ApplyWrites(ck, chans, tasks, <<>>) IN Fit(r, r.chans)
<1> DEFINE r == ApplyWrites(ck, chans, tasks, <<>>)
<1>1. ck.ver \in [Chan -> Nat] /\ States(chans) /\ chans[TASKS].vals = <<>>
  BY ProperStates DEF Memory, Fit
<1>2. Alike(r, r.chans)
  BY <1>1, ApplyAlike
<1>3. r.chans[TASKS].vals = <<>>
  <2>1. IsSeq(tasks)
    BY DEF Work
  <2>2. \A k \in DOMAIN tasks : /\ tasks[k].id.name \in Node /\ IsSeq(tasks[k].writes)
                                /\ \A w \in ToSet(tasks[k].writes) : w.chan # TASKS
    BY DEF Work, ProperTask, ProperPut, OwnInv, Owns, OwnWrite
  <2>3. IsSeq(<<>>) /\ \A w \in ToSet(<<>>) : w.chan # TASKS
    BY NoTasks
  <2> QED
    BY <1>1, <2>1, <2>2, <2>3, ApplySendFree
<1> HIDE DEF r
<1> QED
  BY <1>2, <1>3 DEF Fit, r

LEMMA FitInit == Init => FitInv
<1> SUFFICES ASSUME Init PROVE FitInv
  OBVIOUS
<1>1. DOMAIN ckpts = {} /\ DOMAIN saves = {} /\ pc = "idle"
  BY NoTasks DEF Init
<1> QED
  BY <1>1 DEF FitInv, DeferredLast

LEMMA InvokeFit ==
  ASSUME NoneShared, SilentTriggers, Split, Ids, TInv, ScanInv, InvokeOK, FitInv,
         NEW req, NEW d, Invoke(req, d)
  PROVE  FitInv'
<1>1. Work /\ Control /\ Records /\ ToldInv /\ OwnInv /\ \A i \in DOMAIN ckpts : LogRec(ckpts[i])
  BY DEF TInv, InvokeOK, LogInv
<1>2. pc' = "tick" /\ UNCHANGED ckpts
  BY InvokeFacts DEF storage
<1>3. PICK null, r :
         /\ NullWrites(null) /\ Loads(null, r)
         /\ \/ /\ ck' = [id |-> Latest.id, ver |-> r.ver, seen |-> With(r.seen, INTERRUPT, r.ver)]
               /\ saves' = <<>> /\ chans' = r.chans /\ UNCHANGED <<nextId, made>>
            \/ \E i : /\ Inputs(r, i) /\ chans' = i.chans
                      /\ PutCheckpoint("input", i, <<>>, Latest.step + 1, Latest.id, Latest.id)
  BY <1>1, InvokeParts
<1>4. Loaded(r)
  BY <1>1, <1>3, LoadsFacts
<1>5. Dormant(r.ver, r.chans) /\ Fit(r, r.chans)
  BY <1>1, <1>3, LoadsFit
<1>6. Fit(ck', chans') /\ \A q \in DOMAIN saves' : FitRec(saves'[q])
  <2>1. CASE /\ ck' = [id |-> Latest.id, ver |-> r.ver, seen |-> With(r.seen, INTERRUPT, r.ver)]
             /\ saves' = <<>> /\ chans' = r.chans
    <3>1. ck'.ver = r.ver /\ ck'.seen = With(r.seen, INTERRUPT, r.ver)
      BY <2>1
    <3>2. INTERRUPT \notin Node
      BY AlgoAssumption
    <3>3. \A n \in Node : /\ n \in DOMAIN r.seen <=> n \in DOMAIN ck'.seen
                          /\ n \in DOMAIN r.seen => r.seen[n] = ck'.seen[n]
      BY <3>1, <3>2 DEF With
    <3>4. Fit(ck', r.chans)
      BY <1>5, <3>1, <3>3, SameFit
    <3> QED
      BY <2>1, <3>4, NoTasks
  <2>2. ASSUME NEW i, Inputs(r, i), chans' = i.chans,
               PutCheckpoint("input", i, <<>>, Latest.step + 1, Latest.id, Latest.id)
        PROVE  Fit(ck', chans') /\ \A q \in DOMAIN saves' : FitRec(saves'[q])
    <3>1. Fit(i, i.chans)
      BY <1>4, <1>5, <2>2, InputsFit
    <3>2. Fit(ck', i.chans) /\ \A q \in DOMAIN saves' : FitRec(saves'[q])
      BY <1>1, <2>2, <3>1, NoTasks, PutFit
    <3> QED
      BY <2>2, <3>2
  <2> QED
    BY <1>3, <2>1, <2>2
<1>7. DeferredLast'
  BY <1>2 DEF DeferredLast
<1> QED
  BY <1>2, <1>6, <1>7 DEF FitInv

LEMMA TickFit ==
  ASSUME TInv, FitInv, Tick
  PROVE  FitInv'
<1> USE DEF storage, loop, background
<1> DEFINE ready   == PrepareNextTasks(ck, chans, updated)
           resumed == [k \in DOMAIN ready |-> Reapplied(ready[k])]
<1>1. /\ pc = "tick" /\ pc' \in {"exit", "run"} /\ (pc' = "run" => tasks' = resumed)
      /\ UNCHANGED <<ckpts, saves, ck, chans, durability>>
  BY DEF Tick, Leave
<1>2. Fit(ck, chans)
  BY <1>1 DEF FitInv
<1>3. \A i \in DOMAIN ready : ready[i].id.name \in Node /\ Triggered(ck, chans, ready[i].id.name)
  BY <1>2, PreparedAre DEF Fit
<1>4. \A k \in DOMAIN ready : Reapplied(ready[k]).id = ready[k].id
  <2>1. Work /\ \A k \in DOMAIN ready : ProperTask(ready[k], ran)
    BY PreparedProper DEF TInv, Memory
  <2> HIDE DEF ready
  <2> QED
    BY <2>1, ReappliedFacts
<1> HIDE DEF ready
<1>5. DOMAIN resumed = DOMAIN ready /\ \A k \in DOMAIN ready : resumed[k].id = ready[k].id
  BY <1>4
<1> HIDE DEF resumed
<1>6. DeferredLast'
  BY <1>1, <1>2, <1>3, <1>5 DEF DeferredLast, TaskId, Fit, Alike
<1> QED
  BY <1>1, <1>2, <1>6 DEF FitInv

LEMMA AfterFit ==
  ASSUME NoneShared, SilentTriggers, Split, SendFree, Ids, TInv, Accepted, ScanInv, InvokeOK,
         FitInv, AfterTick
  PROVE  FitInv'
<1> DEFINE r     == ApplyWrites(ck, chans, tasks, <<>>)
           queue == Touched(saves, ConsumedBy(tasks, chans), r.chans)
<1>1. /\ pc = "run" /\ UNCHANGED <<ckpts, durability>> /\ chans' = r.chans
      /\ \/ r.invalid /\ saves' = queue /\ pc' = "exit"
         \/ PutCheckpoint("loop", r, queue, step, ck.id, cfg) /\ pc' # "run"
  BY DEF AfterTick, CanProceed, Leave, storage
<1>2. /\ Memory /\ Work /\ Control /\ OwnInv /\ Dormant(ck.ver, chans)
      /\ AllTriggered(ck, chans, tasks) /\ Fit(ck, chans)
  BY <1>1 DEF TInv, InvokeOK, ScanInv, FitInv
<1>3. Fit(r, r.chans)
  BY <1>2, StepFit
<1>4. IsSeq(queue) /\ \A q \in DOMAIN queue : FitRec(queue[q])
  <2>1. IsSeq(saves)
    BY DEF Ids
  <2>2. \A q \in DOMAIN saves : Shaped(saves[q]) /\ saves[q].shared = {} /\ FitRec(saves[q])
    BY DEF Ids, ScanInv, LeadingSave, FitInv
  <2> QED
    BY <2>1, <2>2, TouchedFit
<1> HIDE DEF queue
<1>5. pc' # "run" => DeferredLast'
  BY DEF DeferredLast
<1>6. CASE r.invalid /\ saves' = queue /\ pc' = "exit"
  <2>1. durability # "exit"
    BY <1>1, <1>6 DEF Accepted
  <2> HIDE DEF r
  <2> QED
    BY <1>1, <1>4, <1>5, <1>6, <2>1 DEF FitInv
<1>7. CASE PutCheckpoint("loop", r, queue, step, ck.id, cfg) /\ pc' # "run"
  <2> HIDE DEF r
  <2>1. Fit(ck', r.chans) /\ \A q \in DOMAIN saves' : FitRec(saves'[q])
    BY <1>2, <1>3, <1>4, <1>7, PutFit
  <2> QED
    BY <1>1, <1>5, <1>7, <2>1 DEF FitInv
<1> QED
  BY <1>1, <1>6, <1>7

LEMMA SaveFit ==
  ASSUME Ids, FitInv, SaveCheckpoint
  PROVE  FitInv'
<1> USE DEF loop
<1> DEFINE h == Head(saves)
           k == StoredForm(h)
           t == Tail(saves)
<1>1. /\ saves # <<>> /\ ckpts' = With(ckpts, h.id, k) /\ saves' = t
      /\ UNCHANGED <<pc, ck, chans, durability, tasks>>
  BY DEF SaveCheckpoint
<1>2. /\ h = saves[1] /\ 1 \in DOMAIN saves
      /\ \A i \in DOMAIN t : t[i] = saves[i + 1] /\ i + 1 \in DOMAIN saves
  BY <1>1, SeqTail DEF Ids
<1>3. Shaped(h) /\ FitRec(h)
  BY <1>2 DEF Ids, FitInv
<1>4. k.ver = h.ver /\ k.seen = h.seen /\ k.vals = h.vals
  BY <1>3, StoredFields DEF Fields
<1> HIDE DEF h, k, t
<1>5. FitRec(k)
  BY <1>3, <1>4, SameFitRec
<1>6. \A i \in DOMAIN ckpts' : FitRec(ckpts'[i])
  BY <1>1, <1>5 DEF With, FitInv
<1>7. \A q \in DOMAIN saves' : FitRec(saves'[q])
  BY <1>1, <1>2 DEF FitInv
<1>8. DeferredLast'
  BY <1>1 DEF FitInv, DeferredLast, TaskId
<1> QED
  BY <1>1, <1>6, <1>7, <1>8 DEF FitInv

LEMMA LeaveFit ==
  ASSUME SilentTriggers, Ids, FitInv, LeaveLoop
  PROVE  FitInv'
<1> DEFINE e == Unsaved(ExitRecord)
<1>1. /\ pc = "exit" /\ pc' = "closing" /\ UNCHANGED ckpts
      /\ saves' = saves \/ (durability = "exit" /\ saves' = Append(saves, e))
  BY DEF LeaveLoop, background, storage
<1>2. e.ver = ck.ver /\ e.seen = ck.seen /\ e.vals = Snapshot(chans, ck.ver)
  <2>1. /\ ExitRecord.ver = ck.ver /\ ExitRecord.seen = ck.seen
        /\ ExitRecord.vals = Snapshot(chans, ck.ver) /\ \A f \in Fields : e[f] = ExitRecord[f]
    BY SaveFields DEF ExitRecord
  <2> HIDE DEF e
  <2> QED
    BY <2>1 DEF Fields
<1> HIDE DEF e
<1>3. durability = "exit" => FitRec(e)
  <2>1. durability = "exit" => Fit(ck, chans)
    BY <1>1 DEF FitInv
  <2> QED
    BY <1>2, <2>1, RestoredFit
<1>4. \A q \in DOMAIN saves' : FitRec(saves'[q])
  <2>1. CASE durability = "exit" /\ saves' = Append(saves, e)
    <3>1. \A q \in DOMAIN saves' : (q \in DOMAIN saves /\ saves'[q] = saves[q]) \/ saves'[q] = e
      BY <2>1, SeqAppend DEF Ids
    <3> QED
      BY <1>3, <2>1, <3>1 DEF FitInv
  <2> QED
    BY <1>1, <2>1 DEF FitInv
<1>5. DeferredLast'
  BY <1>1 DEF DeferredLast
<1> QED
  BY <1>1, <1>4, <1>5 DEF FitInv

LEMMA FitStep ==
  ASSUME NoneShared, SilentTriggers, Split, SendFree, QInv, TInv, Accepted, ScanInv, InvokeOK,
         FitInv, [Next]_vars
  PROVE  FitInv'
<1> USE DEF storage, loop, background, counters, observers
<1>0. Ids
  BY DEF QInv
<1>1. ASSUME NEW req \in Requests, NEW d \in Durabilities, Invoke(req, d) PROVE FitInv'
  BY <1>0, <1>1, InvokeFit
<1>2. CASE Tick
  BY <1>2, TickFit
<1>3. ASSUME NEW k \in DOMAIN tasks, RunTask(k) \/ FailTask(k) PROVE FitInv'
  <2>1. Work
    BY DEF TInv
  <2>2. PICK ws : Commit(k, ws)
    BY <1>3 DEF RunTask, FailTask
  <2>3. UNCHANGED <<pc, ckpts, saves, ck, chans, durability>>
    BY <2>2 DEF Commit
  <2>4. DOMAIN tasks' = DOMAIN tasks /\ \A j \in DOMAIN tasks : tasks'[j].id = tasks[j].id
    BY <2>1, <2>2, CommitTasks
  <2>5. DeferredLast'
    BY <2>3, <2>4 DEF FitInv, DeferredLast, TaskId
  <2> QED
    BY <2>3, <2>5 DEF FitInv
<1>4. CASE AfterTick
  BY <1>0, <1>4, AfterFit
<1>5. CASE SaveCheckpoint
  BY <1>0, <1>5, SaveFit
<1>6. CASE LeaveLoop
  BY <1>0, <1>6, LeaveFit
<1>7. CASE Close \/ Crash
  <2>1. pc' = "idle" /\ saves' = <<>> /\ UNCHANGED ckpts
    BY <1>7 DEF Close, Crash, Forget
  <2>2. DeferredLast'
    BY <2>1 DEF DeferredLast
  <2> QED
    BY <2>1, <2>2, NoTasks DEF FitInv
<1>8. CASE Panic \/ Flushed \/ SaveWrites \/ RequestDrain \/ UNCHANGED vars
  <2>1. /\ UNCHANGED <<ckpts, saves, ck, chans, tasks, durability>>
        /\ UNCHANGED pc \/ (pc \in {"run", "flush"} /\ pc' \in {"exit", "tick"})
    BY <1>8 DEF Panic, CanPanic, Leave, Flushed, CanGoOn, SaveWrites, RequestDrain, vars
  <2>2. DeferredLast'
    BY <2>1 DEF FitInv, DeferredLast, TaskId
  <2> QED
    BY <2>1, <2>2 DEF FitInv
<1> QED
  BY <1>1, <1>2, <1>3, <1>4, <1>5, <1>6, <1>7, <1>8 DEF Next, Step

(* In a graph whose nodes send no tasks, a deferred node runs in a step of *)
(* deferred nodes only: the channels that wait for the end become available*)
(* in a superstep that has updated nothing else (finish, apply_writes), and*)
(* a checkpoint that is saved, restored, resumed or given new input in     *)
(* between calls for the same tasks.  A pending Send is no update of a     *)
(* channel that nodes wait for, so with Sends this is not so.              *)
THEOREM DeferredNodesRunLast ==
  ASSUME NoneShared, SilentTriggers, Kind[START] \notin Barriers, Split, SendFree
  PROVE  Spec /\ []Accepted => []DeferredLast
<1>1. Init => InvokeOK
  BY ToldInit, OwnInit, LogInit DEF InvokeOK
<1>2. QInv /\ TInv /\ Accepted /\ ScanInv /\ [Next]_vars => ScanInv'
  BY ScanStep
<1>3. QInv /\ TInv /\ Accepted /\ InvokeOK /\ [Next]_vars => InvokeOK'
  BY InvokeOKStep
<1>4. QInv /\ TInv /\ Accepted /\ ScanInv /\ InvokeOK /\ FitInv /\ [Next]_vars => FitInv'
  BY FitStep
<1>5. FitInv => DeferredLast
  BY DEF FitInv
<1> QED
  BY <1>1, <1>2, <1>3, <1>4, <1>5, ScanInit, FitInit, TypesInductive, OrderInductive, PTL DEF Spec
-------------------------------------------------------------------------------
(* Commands: an update is applied once, however often it is loaded.        *)

(* Only Commands write to the channel of Commands: no node does, and new   *)
(* input goes elsewhere.                                                   *)
CommandsOnly ==
  /\ START # COMMAND
  /\ \A n \in Node : \A out \in Outputs[n] \cup Partial[n] :
       \A i \in DOMAIN out : out[i].chan # COMMAND

(* What a client sends is a value to reduce, not an Overwrite.             *)
PlainUpdates == \A n \in Nat : ~ IsOverwrite(ClientId(n))

(* What clients have sent in their first n invocations.                    *)
Clients(n) == {ClientId(i) : i \in 1..n}

(* The NULL task writes what Commands hold, and no other task does.        *)
UpdateOnly(id, w, n) == IF id = NullTask THEN w.chan = COMMAND /\ w.val \in Clients(n)
                        ELSE w.chan # COMMAND
UpdatesOnly(id, ws, n) == \A w \in ToSet(ws) : UpdateOnly(id, w, n)
UpdateWrites ==
  /\ \A k \in DOMAIN tasks : UpdatesOnly(tasks[k].id, tasks[k].writes, invocations)
  /\ \A id \in DOMAIN pend : UpdatesOnly(id, pend[id], invocations)
  /\ \A p \in puts : UpdatesOnly(p.id, p.writes, invocations)
  /\ \A x \in DOMAIN stored : UpdateOnly(x.id, stored[x], invocations)

(* The updates stored for a checkpoint take its slots from the first on,   *)
(* none two.                                                               *)
NullKey(ckid, i) == [ck |-> ckid, id |-> NullTask, idx |-> i]
Slotted(st) ==
  /\ \A x \in DOMAIN st : x.id = NullTask =>
       x.idx >= 1 /\ \A j \in 1..x.idx : NullKey(x.ck, j) \in DOMAIN st
  /\ \A x, y \in DOMAIN st :
       x.id = NullTask /\ y.id = NullTask /\ x.ck = y.ck /\ st[x].val = st[y].val =>
         x.idx = y.idx

(* What waits to be stored is in one call, and each update of it goes to   *)
(* the slot it has, if it is stored already.                               *)
Distinct(ws) == \A i, j \in DOMAIN ws : ws[i].val = ws[j].val => i = j
Fitting(st, ps) ==
  /\ \A p \in ps : p.id = NullTask =>
       /\ Distinct(p.writes)
       /\ \A i \in DOMAIN p.writes : \A x \in DOMAIN st :
            x.id = NullTask /\ x.ck = p.ck /\ st[x].val = p.writes[i].val => x.idx = i
  /\ \A p, q \in ps : p.id = NullTask /\ q.id = NullTask => p = q

(* The updates that are stored for a checkpoint or on their way.           *)
Sent(st, ps, ckid) ==
  {st[x].val : x \in {y \in DOMAIN st : y.ck = ckid /\ y.id = NullTask}}
    \cup UNION {{p.writes[i].val : i \in DOMAIN p.writes} :
                  p \in {q \in ps : q.ck = ckid /\ q.id = NullTask}}

(* A checkpoint has the updates sent to its parent, none that were sent to *)
(* itself, and none twice.                                                 *)
AtMostOne(S) == S = {} \/ \E s : S = {s}
Received(rec) == FromCheckpoint(COMMAND, rec.vals[COMMAND]).vals
Updated(rec, st, ps, n) ==
  /\ rec.parent \in 0..rec.id - 1
  /\ AtMostOne(rec.vals[COMMAND])
  /\ rec.ver[COMMAND] = 0 => rec.vals[COMMAND] = {}
  /\ IsInjective(Received(rec)) /\ ToSet(Received(rec)) \subseteq Clients(n)
  /\ Sent(st, ps, rec.id) \cap ToSet(Received(rec)) = {}
  /\ Sent(st, ps, rec.parent) \subseteq ToSet(Received(rec))

AllUpdated(recs, st, ps, n) == \A i \in DOMAIN recs : Updated(recs[i], st, ps, n)
NoneTwice(recs) == \A i \in DOMAIN recs : IsInjective(HeldSeq(recs[i], COMMAND))

(* So has the step that runs, for the checkpoint it will make.             *)
Receives(chs, ver, parent, st, ps, n) ==
  /\ IsInjective(chs[COMMAND].vals) /\ ToSet(chs[COMMAND].vals) \subseteq Clients(n)
  /\ Sent(st, ps, parent) \subseteq ToSet(chs[COMMAND].vals)
  /\ ver[COMMAND] = 0 => chs[COMMAND].vals = <<>>
UpdatedLoop == cfg = ck.id /\ Receives(chans, ck.ver, ck.id, stored, puts, invocations)

UpdateInv ==
  /\ invocations \in Nat
  /\ UpdateWrites /\ Slotted(stored) /\ Fitting(stored, puts)
  /\ AllUpdated(ckpts, stored, puts, invocations)
  /\ AllUpdated(saves, stored, puts, invocations)
  /\ NoneTwice(made)
  /\ pc \in {"tick", "run", "flush"} => UpdatedLoop
(* Selected is what is built so.                                           *)
LEMMA SelectedIs ==
  ASSUME NEW E, NEW s \in Seq(E), NEW S, NEW g, g[0] = <<>>,
         \A i \in 1..Len(s) : g[i] = IF s[i] \in S THEN Append(g[i - 1], s[i]) ELSE g[i - 1]
  PROVE  Selected(s, S) = g[Len(s)]
<1> DEFINE n == Len(s)
           f == CHOOSE f : f = [i \in 0..Len(s) |-> IF i = 0 THEN <<>>
                              ELSE IF s[i] \in S THEN Append(f[i - 1], s[i]) ELSE f[i - 1]]
           Bad == {i \in 0..n : f[i] # g[i]}
<1>1. f = [i \in 0..Len(s) |-> IF i = 0 THEN <<>>
                               ELSE IF s[i] \in S THEN Append(f[i - 1], s[i]) ELSE f[i - 1]]
  <2>1. f = CHOOSE h : Picks(h, s, S)
    BY DEF Picks
  <2>2. Picks(f, s, S)
    <3> HIDE DEF f
    <3> QED
      BY <2>1, PicksExists
  <2> QED
    BY <2>2 DEF Picks
<1>2. Selected(s, S) = f[n]
  BY DEF Selected
<1> HIDE DEF f
<1>3. n \in Nat
  OBVIOUS
<1>4. ASSUME NEW m \in Bad, \A k \in Bad : m <= k PROVE FALSE
  <2>1. m \in 0..n /\ f[m] # g[m]
    BY <1>4
  <2>2. m # 0
    <3>1. f[0] = <<>>
      BY <1>1, <1>3
    <3> QED
      BY <2>1, <3>1
  <2>3. m \in 1..n /\ m - 1 \in 0..n /\ ~ m <= m - 1
    BY <1>3, <2>1, <2>2
  <2>4. f[m - 1] = g[m - 1]
    <3> SUFFICES ASSUME f[m - 1] # g[m - 1] PROVE FALSE
      OBVIOUS
    <3>1. m - 1 \in Bad
      BY <2>3
    <3> HIDE DEF Bad
    <3> QED
      BY <1>4, <2>3, <3>1
  <2>5. f[m] = IF s[m] \in S THEN Append(f[m - 1], s[m]) ELSE f[m - 1]
    BY <1>1, <2>1, <2>2
  <2> QED
    BY <2>1, <2>3, <2>4, <2>5
<1>5. Bad \in SUBSET Nat
  BY <1>3
<1>6. Bad = {}
  <2> HIDE DEF Bad
  <2> QED
    BY <1>4, <1>5, Least
<1>7. n \in 0..n
  BY <1>3
<1> QED
  BY <1>2, <1>6, <1>7

(* A sequence is built from its elements, one after the other.             *)
UpTo(s, i) == [j \in 1..i |-> s[j]]

LEMMA SeqUpTo ==
  ASSUME NEW E, NEW s \in Seq(E)
  PROVE  /\ UpTo(s, 0) = <<>> /\ UpTo(s, Len(s)) = s
         /\ \A i \in Int : i <= 0 => UpTo(s, i) = <<>>
         /\ \A i \in 1..Len(s) : Append(UpTo(s, i - 1), s[i]) = UpTo(s, i)
<1>1. UpTo(s, 0) = <<>> /\ UpTo(s, Len(s)) = s
  BY DEF UpTo
<1>2. ASSUME NEW i \in 1..Len(s) PROVE Append(UpTo(s, i - 1), s[i]) = UpTo(s, i)
  <2> DEFINE p == [j \in 1..i - 1 |-> s[j]]
             t == [j \in 1..i |-> s[j]]
  <2>1. p \in Seq(E) /\ Len(p) = i - 1 /\ t \in Seq(E) /\ Len(t) = i
    OBVIOUS
  <2>2. \A j \in 1..i : Append(p, s[i])[j] = t[j]
    BY <2>1
  <2>3. Append(p, s[i]) \in Seq(E) /\ Len(Append(p, s[i])) = i
    BY <2>1
  <2> QED
    BY <2>1, <2>2, <2>3 DEF UpTo
<1>3. \A i \in Int : i <= 0 => UpTo(s, i) = <<>>
  BY DEF UpTo
<1> QED
  BY <1>1, <1>2, <1>3

(* All of a sequence is selected.                                          *)
LEMMA SelectedAll ==
  ASSUME NEW s, IsSeq(s), NEW S, ToSet(s) \subseteq S
  PROVE  Selected(s, S) = s
<1> DEFINE g == [i \in 0..Len(s) |-> UpTo(s, i)]
<1>1. s \in Seq(ToSet(s)) /\ Len(s) \in Nat /\ \A i \in 1..Len(s) : s[i] \in S
  BY DEF IsSeq, ToSet
<1>2. /\ UpTo(s, 0) = <<>> /\ UpTo(s, Len(s)) = s
      /\ \A i \in 1..Len(s) : Append(UpTo(s, i - 1), s[i]) = UpTo(s, i)
  BY <1>1, SeqUpTo
<1>3. g[0] = <<>> /\ g[Len(s)] = s
  BY <1>1, <1>2
<1>4. ASSUME NEW i \in 1..Len(s)
      PROVE  g[i] = IF s[i] \in S THEN Append(g[i - 1], s[i]) ELSE g[i - 1]
  <2>1. g[i] = UpTo(s, i) /\ g[i - 1] = UpTo(s, i - 1)
    BY <1>1
  <2> QED
    BY <1>1, <1>2, <2>1
<1> HIDE DEF g
<1> QED
  BY <1>1, <1>3, <1>4, SelectedIs

(* The first slots, in their order.                                        *)
LEMMA AscendingFirst ==
  ASSUME NEW m \in Nat \ {0}
  PROVE  Ascending(1..m) = [j \in 1..m |-> j]
<1> DEFINE S == ((1..m) \cap Nat) \cup {0}
           B == [i \in 1..5 + m |-> i - 5]
           s == [j \in 1..m |-> j]
           g == [i \in 0..5 + m |-> UpTo(s, i - 5)]
<1>1. Max(S) = m
  <2>1. IsFiniteSet(S) /\ S \subseteq Nat /\ S # {} /\ m \in S /\ \A y \in S : y <= m
    <3>1. S = 0..m
      OBVIOUS
    <3>2. IsFiniteSet(0..m)
      BY FS_Interval
    <3> HIDE DEF S
    <3> QED
      BY <3>1, <3>2
  <2> HIDE DEF S
  <2>2. Max(S) \in S /\ \A y \in S : y <= Max(S)
    BY <2>1, MaxExists
  <2> DEFINE x == Max(S)
  <2>3. x \in Nat /\ x <= m /\ m <= x
    BY <2>1, <2>2
  <2> HIDE DEF x
  <2>4. x = m
    BY <2>3
  <2> QED
    BY <2>4 DEF x
<1>2. Ascending(1..m) = Selected([i \in 1..5 + Max(S) |-> i - 5], 1..m)
  BY DEF Ascending
<1>3. Ascending(1..m) = Selected(B, 1..m)
  BY <1>1, <1>2
<1>4. B \in Seq(Int) /\ Len(B) = 5 + m /\ s \in Seq(Nat) /\ Len(s) = m
  OBVIOUS
<1>5. /\ UpTo(s, Len(s)) = s /\ \A i \in Int : i <= 0 => UpTo(s, i) = <<>>
      /\ \A i \in 1..Len(s) : Append(UpTo(s, i - 1), s[i]) = UpTo(s, i)
  <2> HIDE DEF s
  <2> QED
    BY <1>4, SeqUpTo
<1>6. g[0] = <<>> /\ g[Len(B)] = s
  <2>1. g[0] = UpTo(s, 0 - 5) /\ 0 - 5 \in Int /\ 0 - 5 <= 0
    OBVIOUS
  <2>2. (5 + m) - 5 = m /\ 5 + m \in 0..5 + m
    OBVIOUS
  <2> HIDE DEF s, B
  <2> QED
    BY <1>4, <1>5, <2>1, <2>2
<1>7. ASSUME NEW i \in 1..Len(B)
      PROVE  g[i] = IF B[i] \in 1..m THEN Append(g[i - 1], B[i]) ELSE g[i - 1]
  <2>1. i \in 1..5 + m /\ B[i] = i - 5 /\ i - 1 \in 0..5 + m
    BY <1>4
  <2>2. g[i] = UpTo(s, i - 5) /\ g[i - 1] = UpTo(s, (i - 1) - 5)
    BY <2>1
  <2>3. CASE i - 5 \in 1..m
    <3>1. s[i - 5] = i - 5 /\ (i - 1) - 5 = (i - 5) - 1
      BY <2>1, <2>3
    <3> HIDE DEF s, g, B
    <3> QED
      BY <1>4, <1>5, <2>1, <2>2, <2>3, <3>1
  <2>4. CASE i - 5 \notin 1..m
    <3>1. i - 5 \in Int /\ (i - 1) - 5 \in Int /\ i - 5 <= 0 /\ (i - 1) - 5 <= 0
      BY <2>1, <2>4
    <3> HIDE DEF s, g, B
    <3> QED
      BY <1>5, <2>1, <2>2, <2>4, <3>1
  <2> QED
    BY <2>3, <2>4
<1> HIDE DEF g, B
<1>8. Selected(B, 1..m) = g[Len(B)]
  BY <1>4, <1>6, <1>7, SelectedIs
<1> QED
  BY <1>3, <1>6, <1>8

(* What is loaded of the NULL task is what is stored, slot by slot.        *)
LEMMA NullLoaded ==
  ASSUME Work, Slotted(stored), NEW ckid
  PROVE  LET P   == PendingWrites(ckid)
             old == IF NullTask \in DOMAIN P THEN P[NullTask] ELSE <<>>
         IN  /\ IsSeq(old)
             /\ \A i \in DOMAIN old : /\ NullKey(ckid, i) \in DOMAIN stored
                                      /\ old[i] = stored[NullKey(ckid, i)]
             /\ \A x \in DOMAIN stored : x.ck = ckid /\ x.id = NullTask =>
                  x = NullKey(ckid, x.idx) /\ x.idx \in DOMAIN old
<1> DEFINE keys      == {k \in DOMAIN stored : k.ck = ckid}
           of(id)    == {k.idx : k \in {x \in keys : x.id = id}}
           slots(id) == Ascending(of(id))
           key(id, i) == [ck |-> ckid, id |-> id, idx |-> slots(id)[i]]
           P         == PendingWrites(ckid)
           old       == IF NullTask \in DOMAIN P THEN P[NullTask] ELSE <<>>
           N         == of(NullTask)
<1>1. P = [id \in {k.id : k \in keys} |-> [i \in DOMAIN slots(id) |-> stored[key(id, i)]]]
  BY DEF PendingWrites
<1>2. /\ NullTask \in DOMAIN P <=> N # {}
      /\ NullTask \in DOMAIN P =>
           P[NullTask] = [i \in DOMAIN Ascending(N) |-> stored[NullKey(ckid, Ascending(N)[i])]]
  <2> HIDE DEF P
  <2>1. DOMAIN P = {k.id : k \in keys}
    BY <1>1
  <2>2. NullTask \in DOMAIN P <=> N # {}
    BY <2>1
  <2>3. ASSUME NullTask \in DOMAIN P
        PROVE  P[NullTask] = [i \in DOMAIN slots(NullTask) |-> stored[key(NullTask, i)]]
    <3> HIDE DEF slots, key
    <3> QED
      BY <1>1, <2>1, <2>3
  <2> QED
    BY <2>2, <2>3 DEF NullKey
<1>3. ProperStore(stored, nextId - 1, ran) /\ \A x \in DOMAIN stored : ProperKey(x)
  BY DEF Work, ProperStore
<1>4. ASSUME NEW x \in DOMAIN stored, x.ck = ckid, x.id = NullTask
      PROVE  x = NullKey(ckid, x.idx) /\ x.idx \in N /\ x.idx \in Nat /\ x.idx >= 1
  BY <1>3, <1>4 DEF ProperKey, NullKey, Slotted
<1>5. ASSUME NEW j \in N
      PROVE  /\ j \in Nat /\ j >= 1 /\ NullKey(ckid, j) \in DOMAIN stored
             /\ \A i \in 1..j : i \in N
  <2>1. PICK x \in DOMAIN stored : x.ck = ckid /\ x.id = NullTask /\ x.idx = j
    OBVIOUS
  <2>2. x = NullKey(ckid, j) /\ j \in Nat /\ j >= 1
    BY <1>4, <2>1
  <2>3. \A i \in 1..j : NullKey(ckid, i) \in DOMAIN stored
    BY <2>1 DEF Slotted
  <2>4. \A i : NullKey(ckid, i).ck = ckid /\ NullKey(ckid, i).id = NullTask /\ NullKey(ckid, i).idx = i
    BY DEF NullKey
  <2>5. \A i \in 1..j : i \in N
    BY <2>3, <2>4
  <2> QED
    BY <2>1, <2>2, <2>5
<1>6. IsFiniteSet(N)
  <2> DEFINE mine == {x \in keys : x.id = NullTask}
             idxs == [x \in mine |-> x.idx]
  <2>1. IsFiniteSet(mine)
    BY <1>3, FS_Subset DEF ProperStore
  <2>2. idxs \in Surjection(mine, N)
    BY DEF Surjection
  <2> HIDE DEF mine, N
  <2> QED
    BY <2>1, <2>2, FS_Surjection
<1> HIDE DEF P, N
<1>7. CASE N = {}
  <2>1. old = <<>> /\ \A x \in DOMAIN stored : ~ (x.ck = ckid /\ x.id = NullTask)
    BY <1>2, <1>4, <1>7
  <2> HIDE DEF old
  <2>2. IsSeq(old) /\ DOMAIN old = {}
    BY <2>1, NoTasks
  <2> QED
    BY <2>1, <2>2 DEF old, P
<1>8. CASE N # {}
  <2> DEFINE m == Max(N)
  <2>1. m \in N /\ \A y \in N : y <= m
    <3>1. N \subseteq Nat
      BY <1>5
    <3> QED
      BY <1>6, <1>8, <3>1, MaxExists
  <2> HIDE DEF m
  <2>2. m \in Nat \ {0} /\ N = 1..m
    <3>1. m \in Nat /\ m >= 1 /\ \A i \in 1..m : i \in N
      BY <1>5, <2>1
    <3>2. \A j \in N : j \in 1..m
      BY <1>5, <2>1, <3>1
    <3>3. N = 1..m
      BY <3>1, <3>2, Zenon
    <3> QED
      BY <3>1, <3>3
  <2>3. Ascending(N) = [j \in 1..m |-> j]
    BY <2>2, AscendingFirst
  <2>4. old = [i \in 1..m |-> stored[NullKey(ckid, i)]]
    BY <1>2, <1>8, <2>3
  <2> HIDE DEF old
  <2>5. IsSeq(old)
    <3>1. \A i \in 1..m : old[i] \in ToSet(old)
      BY <2>4 DEF ToSet
    <3>2. old = [i \in 1..m |-> old[i]]
      BY <2>4
    <3> QED
      BY <2>2, <3>1, <3>2 DEF IsSeq
  <2>6. \A i \in DOMAIN old : NullKey(ckid, i) \in DOMAIN stored /\ old[i] = stored[NullKey(ckid, i)]
    BY <1>5, <2>2, <2>4
  <2>7. \A x \in DOMAIN stored : x.ck = ckid /\ x.id = NullTask =>
          x = NullKey(ckid, x.idx) /\ x.idx \in DOMAIN old
    BY <1>4, <2>2, <2>4
  <2> QED
    BY <2>5, <2>6, <2>7 DEF old, P
<1> QED
  BY <1>7, <1>8

(* Storing what waits leaves the updates of a checkpoint in its slots.     *)
LEMMA PutSlots ==
  ASSUME NEW st, NEW n, NEW R, ProperStore(st, n, R), NEW ps, NEW p \in ps,
         ProperPut(p.id, p.writes, R), Slotted(st), Fitting(st, ps),
         p.id = NullTask => \A w \in ToSet(p.writes) : w.chan = COMMAND
  PROVE  LET new == PutWrites(st, p.ck, p.id, p.writes)
         IN  Slotted(new) /\ Fitting(new, ps \ {p})
<1> DEFINE ws     == p.writes
           key(i) == [ck |-> p.ck, id |-> p.id, idx |-> Slot(ws[i], i)]
           keys   == {key(i) : i \in DOMAIN ws}
           new    == PutWrites(st, p.ck, p.id, ws)
<1>1. new = [k \in DOMAIN st \cup keys |->
               IF k \in DOMAIN st /\ (k \notin keys \/ k.idx >= 0) THEN st[k]
               ELSE ws[Max({i \in DOMAIN ws : key(i) = k})]]
  BY DEF PutWrites
<1> SUFFICES Slotted(new) /\ Fitting(new, ps \ {p})
  OBVIOUS
<1> HIDE DEF new
<1>2. /\ DOMAIN new = DOMAIN st \cup keys
      /\ \A k \in DOMAIN st : k.id = NullTask /\ k.idx >= 0 => new[k] = st[k]
      /\ \A k \in DOMAIN st : k \notin keys => new[k] = st[k]
  BY <1>1
<1>3. CASE p.id # NullTask
  <2>1. \A k \in keys : k.id # NullTask
    BY <1>3
  <2> HIDE DEF keys
  <2>2. \A x \in DOMAIN new : x.id = NullTask => x \in DOMAIN st /\ new[x] = st[x]
    BY <1>2, <2>1
  <2>3. Slotted(new)
    BY <1>2, <2>2 DEF Slotted
  <2>4. Fitting(new, ps \ {p})
    BY <2>2 DEF Fitting
  <2> QED
    BY <2>3, <2>4
<1>4. CASE p.id = NullTask
  <2> DEFINE slot(i) == NullKey(p.ck, i)
  <2>1. DOMAIN ws = 1..Len(ws) /\ Len(ws) \in Nat /\ Distinct(ws)
    BY <1>4 DEF ProperPut, IsSeq, Fitting
  <2>2. ASSUME NEW i \in DOMAIN ws PROVE key(i) = slot(i)
    <3>1. ws[i].chan = COMMAND
      BY <1>4 DEF ToSet
    <3>2. COMMAND \notin {"ERROR", INTERRUPT, "RESUME"}
      BY LoopAssumption, AlgoAssumption DEF ControlChan
    <3> QED
      BY <1>4, <3>1, <3>2 DEF Slot, NullKey
  <2>3. \A i : slot(i).ck = p.ck /\ slot(i).id = NullTask /\ slot(i).idx = i
    BY DEF NullKey
  <2>4. keys = {slot(i) : i \in DOMAIN ws}
    BY <2>2
  <2>5. ASSUME NEW i \in DOMAIN ws, slot(i) \notin DOMAIN st PROVE new[slot(i)] = ws[i]
    <3> DEFINE I == {j \in DOMAIN ws : key(j) = slot(i)}
    <3>1. I = {i}
      <4> HIDE DEF key, slot
      <4> QED
        BY <2>2, <2>3
    <3>2. Max(I) = i
      <4>1. i \in Nat
        BY <2>1
      <4>2. {i} \subseteq Nat /\ {i} # {}
        BY <4>1
      <4>3. IsFiniteSet({i})
        BY FS_Singleton
      <4> HIDE DEF I
      <4> QED
        BY <3>1, <4>2, <4>3, MaxExists
    <3>3. slot(i) \in keys
      BY <2>4
    <3>4. new[slot(i)] = ws[Max(I)]
      <4> HIDE DEF keys, key, slot
      <4> QED
        BY <1>1, <2>5, <3>3
    <3> QED
      BY <3>2, <3>4
  <2> HIDE DEF keys, key, slot
  <2>6. \A x \in DOMAIN st : x.id = NullTask => x.idx >= 1 /\ x.idx \in Int /\ new[x] = st[x]
    BY <1>2 DEF Slotted, ProperStore, ProperKey
  <2>7. ASSUME NEW x \in DOMAIN new, x.id = NullTask
        PROVE  \/ x \in DOMAIN st /\ new[x] = st[x]
               \/ \E i \in DOMAIN ws : x = slot(i) /\ new[x] = ws[i]
    BY <1>2, <2>4, <2>5, <2>6, <2>7
  <2>8. \A i \in DOMAIN ws : slot(i) \in DOMAIN new
    BY <1>2, <2>4
  <2>9. ASSUME NEW x \in DOMAIN new, x.id = NullTask
        PROVE  x.idx >= 1 /\ \A j \in 1..x.idx : NullKey(x.ck, j) \in DOMAIN new
    <3>1. CASE x \in DOMAIN st
      BY <1>2, <2>9, <3>1 DEF Slotted
    <3>2. ASSUME NEW i \in DOMAIN ws, x = slot(i)
          PROVE  x.idx >= 1 /\ \A j \in 1..x.idx : NullKey(x.ck, j) \in DOMAIN new
      <4>1. x.idx = i /\ x.ck = p.ck /\ i >= 1 /\ \A j \in 1..i : j \in DOMAIN ws
        BY <2>1, <2>3, <3>2
      <4> QED
        BY <2>8, <4>1 DEF slot
    <3> QED
      BY <2>7, <2>9, <3>1, <3>2
  <2>10. ASSUME NEW x \in DOMAIN st, x.id = NullTask, x.ck = p.ck,
                NEW i \in DOMAIN ws, st[x].val = ws[i].val
         PROVE  x.idx = i
    BY <1>4, <2>10 DEF Fitting
  <2>11. ASSUME NEW x \in DOMAIN new, NEW y \in DOMAIN new, x.id = NullTask, y.id = NullTask,
                x.ck = y.ck, new[x].val = new[y].val
         PROVE  x.idx = y.idx
    <3>1. CASE x \in DOMAIN st /\ new[x] = st[x] /\ y \in DOMAIN st /\ new[y] = st[y]
      BY <2>11, <3>1 DEF Slotted
    <3>2. ASSUME NEW i \in DOMAIN ws, y = slot(i), new[y] = ws[i], x \in DOMAIN st, new[x] = st[x]
          PROVE  x.idx = y.idx
      BY <2>3, <2>10, <2>11, <3>2
    <3>3. ASSUME NEW i \in DOMAIN ws, x = slot(i), new[x] = ws[i], y \in DOMAIN st, new[y] = st[y]
          PROVE  x.idx = y.idx
      BY <2>3, <2>10, <2>11, <3>3
    <3>4. ASSUME NEW i \in DOMAIN ws, x = slot(i), new[x] = ws[i],
                 NEW j \in DOMAIN ws, y = slot(j), new[y] = ws[j]
          PROVE  x.idx = y.idx
      BY <2>1, <2>11, <3>4 DEF Distinct
    <3> QED
      BY <2>7, <2>11, <3>1, <3>2, <3>3, <3>4
  <2>12. Slotted(new)
    BY <2>9, <2>11 DEF Slotted
  <2>13. Fitting(new, ps \ {p})
    BY <1>4 DEF Fitting
  <2> QED
    BY <2>12, <2>13
<1> QED
  BY <1>3, <1>4

(* The channel of Commands is a reducer, which no task uses up.            *)
LEMMA CommandChannel ==
  /\ COMMAND \in Chan /\ COMMAND \notin ControlChan
  /\ ~ SharedWithCheckpoint(COMMAND) /\ Fresh(COMMAND).vals = <<>>
  /\ \A s : /\ Checkpoint(COMMAND, s) = {s}
            /\ Consume(COMMAND, s) = s /\ ~ Consumes(COMMAND, s)
            /\ Finish(COMMAND, s) = s /\ ~ Finishes(COMMAND, s)
            /\ Update(COMMAND, s, <<>>) = s /\ ~ Updates(COMMAND, s, <<>>)
            /\ \A ws : ws # <<>> =>
                 /\ Updates(COMMAND, s, ws)
                 /\ Update(COMMAND, s, ws) = [s EXCEPT !.vals = Reduced(@, ws)]
  /\ \A blob : FromCheckpoint(COMMAND, blob) = IF blob = {} THEN Fresh(COMMAND)
                                               ELSE CHOOSE s \in blob : TRUE
<1>1. COMMAND \in Chan /\ Kind[COMMAND] = "BinOp" /\ COMMAND \notin ControlChan
  BY LoopAssumption, AlgoAssumption
<1>2. ~ SharedWithCheckpoint(COMMAND) /\ Fresh(COMMAND).vals = <<>>
  BY <1>1 DEF SharedWithCheckpoint, Barriers, Fresh
<1>3. ASSUME NEW s
      PROVE  /\ Checkpoint(COMMAND, s) = {s}
             /\ Consume(COMMAND, s) = s /\ ~ Consumes(COMMAND, s)
             /\ Finish(COMMAND, s) = s /\ ~ Finishes(COMMAND, s)
  BY <1>1 DEF Checkpoint, SingleValue, Consume, Consumes, Barriers, Finish, Finishes, AfterFinish
<1>4. ASSUME NEW s
      PROVE  Update(COMMAND, s, <<>>) = s /\ ~ Updates(COMMAND, s, <<>>)
  BY <1>1 DEF Update, Updates, ClearedByStep, Barriers
<1>5. ASSUME NEW s, NEW ws, ws # <<>>
      PROVE  /\ Updates(COMMAND, s, ws)
             /\ Update(COMMAND, s, ws) = [s EXCEPT !.vals = Reduced(@, ws)]
  BY <1>1, <1>5 DEF Update, Updates, Reducers, Barriers
<1>6. \A blob : FromCheckpoint(COMMAND, blob) = IF blob = {} THEN Fresh(COMMAND)
                                                ELSE CHOOSE s \in blob : TRUE
  BY <1>1 DEF FromCheckpoint
<1> QED
  BY <1>1, <1>2, <1>3, <1>4, <1>5, <1>6

(* What nodes and new input write.                                         *)
Others(ws) == IsSeq(ws) /\ \A w \in ToSet(ws) : w.chan # COMMAND

(* Commands have done as much after as before.                             *)
KeepsUpdates(r, ver, chs) == r.chans[COMMAND] = chs[COMMAND] /\ r.ver[COMMAND] = ver[COMMAND]

(* A superstep that writes to no Command leaves what Commands have done.   *)
LEMMA ApplyKeeps ==
  ASSUME NEW ck0, NEW chs, NEW ts, IsSeq(ts), \A k \in DOMAIN ts : Others(ts[k].writes),
         NEW extra, Others(extra)
  PROVE  KeepsUpdates(ApplyWrites(ck0, chs, ts, extra), ck0.ver, chs)
<1> DEFINE ws       == extra \o FlattenSeq([k \in DOMAIN ts |-> ts[k].writes])
           to       == [c \in Chan |-> WritesTo(c, ws)]
           read     == UNION {TriggersOf[ts[k].id.name] :
                                k \in {j \in DOMAIN ts : ~ IsPush(ts[j])}}
           first(c) == Min({i \in DOMAIN ws : ws[i].chan = c})
           bad      == {c \in Chan : to[c] # <<>> /\ Rejects(c, to[c])}
           reached  == {c \in Chan : to[c] # <<>> /\ \A b \in bad : first(c) < first(b)}
           taken    == ConsumeRead(chs, read)
           written  == WriteAll(taken, reached, to)
           noted    == NotifyStep(written)
           s        == IF bad # {} \/ ts = <<>> THEN written ELSE NotifyFinish(noted)
           r        == ApplyWrites(ck0, chs, ts, extra)
           x        == chs[COMMAND]
<1>1. r = Applied(ck0, ts, s, bad # {})
  BY Zenon DEF ApplyWrites
<1>2. COMMAND \in Chan
  BY CommandChannel
<1>3. COMMAND \notin reached
  <2>1. to[COMMAND] = <<>>
    BY <1>2, Unwritten DEF Others
  <2> QED
    BY <2>1
<1>4. s = written \/ s = NotifyFinish(noted)
  OBVIOUS
<1>5. r.chans = s.chans /\ (COMMAND \notin s.bumped => r.ver[COMMAND] = ck0.ver[COMMAND])
  <2> HIDE DEF s, bad, r
  <2> QED
    BY <1>1, <1>2 DEF Applied
<1> HIDE DEF bad, reached, read, to, s, r
<1>6. taken.chans[COMMAND] = x /\ COMMAND \notin taken.bumped
  BY <1>2, CommandChannel DEF ConsumeRead
<1> HIDE DEF taken, x
<1>7. written.chans[COMMAND] = x /\ COMMAND \notin written.bumped
  BY <1>2, <1>3, <1>6 DEF WriteAll, Phase
<1> HIDE DEF written
<1>8. noted.chans[COMMAND] = x /\ COMMAND \notin noted.bumped
  BY <1>2, <1>7, CommandChannel DEF NotifyStep, WriteAll, Phase
<1> HIDE DEF noted
<1>9. NotifyFinish(noted).chans[COMMAND] = x /\ COMMAND \notin NotifyFinish(noted).bumped
  BY <1>2, <1>8, CommandChannel DEF NotifyFinish, Phase
<1>10. s.chans[COMMAND] = x /\ COMMAND \notin s.bumped
  BY <1>4, <1>7, <1>9
<1> QED
  BY <1>5, <1>10 DEF r, x, KeepsUpdates

(* What the writes of a sequence hold.                                     *)
ValuesOf(ws) == {w.val : w \in ToSet(ws)}

(* After s, the sequence t has these values, each of them once.            *)
Extends(t, s, ws) ==
  \E W : t = s \o W /\ IsSeq(W) /\ IsInjective(W) /\ ToSet(W) = ValuesOf(ws)

(* Updates that are values to reduce are appended, each once.              *)
LEMMA ApplyUpdates ==
  ASSUME NEW ck0, NEW chs, States(chs), NEW null, IsSeq(null), null # <<>>, Distinct(null),
         \A w \in ToSet(null) : w.chan = COMMAND /\ ~ IsOverwrite(w.val)
  PROVE  Extends(ApplyWrites(ck0, chs, <<>>, null).chans[COMMAND].vals, chs[COMMAND].vals, null)
<1> DEFINE ts       == <<>>
           ws       == null \o FlattenSeq([k \in DOMAIN ts |-> ts[k].writes])
           to       == [c \in Chan |-> WritesTo(c, ws)]
           read     == UNION {TriggersOf[ts[k].id.name] :
                                k \in {j \in DOMAIN ts : ~ IsPush(ts[j])}}
           first(c) == Min({i \in DOMAIN ws : ws[i].chan = c})
           bad      == {c \in Chan : to[c] # <<>> /\ Rejects(c, to[c])}
           reached  == {c \in Chan : to[c] # <<>> /\ \A b \in bad : first(c) < first(b)}
           written  == WriteAll(ConsumeRead(chs, read), reached, to)
           s        == IF bad # {} \/ ts = <<>> THEN written ELSE NotifyFinish(NotifyStep(written))
           r        == ApplyWrites(ck0, chs, ts, null)
           W        == [i \in DOMAIN null |-> null[i].val]
           x        == chs[COMMAND]
<1>1. r = Applied(ck0, ts, s, bad # {})
  BY Zenon DEF ApplyWrites
<1>2. s = written /\ read = {} /\ IsSeq(ts)
  BY NoTasks
<1>3. COMMAND \in Chan /\ DOMAIN null = 1..Len(null) /\ Len(null) \in Nat \ {0} /\ 1 \in DOMAIN null
  BY CommandChannel, SeqTail
<1>4. ws = null
  <2> DEFINE parts == [k \in DOMAIN ts |-> ts[k].writes]
  <2>1. parts = <<>>
    BY NoTasks
  <2>2. parts \in Seq(Seq({})) /\ UNION {ToSet(parts[k]) : k \in DOMAIN parts} = {}
    BY <2>1, NoTasks
  <2> HIDE DEF parts
  <2>3. FlattenSeq(parts) \in Seq({})
    BY <2>2, FlattenFacts
  <2>4. FlattenSeq(parts) = <<>> /\ null \in Seq(ToSet(null))
    BY <2>3 DEF IsSeq
  <2>5. ws = null \o FlattenSeq(parts)
    BY DEF parts
  <2> HIDE DEF ws
  <2> QED
    BY <2>4, <2>5
<1>5. WritesTo(COMMAND, null) = W
  <2>1. {w \in ToSet(null) : w.chan = COMMAND} = ToSet(null)
    OBVIOUS
  <2>2. Selected(null, ToSet(null)) = null
    BY SelectedAll
  <2> QED
    BY <2>1, <2>2 DEF WritesTo
<1>6. /\ IsSeq(W) /\ W # <<>> /\ IsInjective(W)
      /\ ToSet(W) = ValuesOf(null) /\ Overwrites(W) = {}
  <2>1. DOMAIN W = DOMAIN null /\ ToSet(W) = ValuesOf(null)
    BY DEF ToSet, ValuesOf
  <2>2. IsSeq(W)
    <3>1. IsSeq(WritesTo(COMMAND, null))
      BY WritesToFacts
    <3> HIDE DEF W
    <3> QED
      BY <1>5, <3>1
  <2>3. W # <<>>
    BY <1>3, <2>1, NoTasks
  <2>4. IsInjective(W)
    BY DEF IsInjective, Distinct
  <2>5. \A i \in DOMAIN W : ~ IsOverwrite(W[i])
    BY DEF ToSet
  <2> QED
    BY <2>1, <2>2, <2>3, <2>4, <2>5 DEF Overwrites
<1>7. to[COMMAND] = W
  BY <1>3, <1>4, <1>5
<1>8. bad = {}
  <2> SUFFICES ASSUME NEW c \in Chan, to[c] # <<>>, Rejects(c, to[c]) PROVE FALSE
    OBVIOUS
  <2>1. CASE c = COMMAND
    <3>1. Kind[COMMAND] = "BinOp" /\ Cardinality(Overwrites(W)) = 0
      BY <1>6, LoopAssumption, FS_EmptySet
    <3> HIDE DEF W, to
    <3>2. ~ Rejects(COMMAND, W)
      BY <3>1 DEF Rejects, OneWritePerStep, Barriers
    <3> QED
      BY <1>7, <2>1, <3>2
  <2>2. CASE c # COMMAND
    <3>1. \A k \in DOMAIN ts : IsSeq(ts[k].writes) /\ \A w \in ToSet(ts[k].writes) : w.chan # c
      BY NoTasks
    <3> HIDE DEF ts
    <3>2. to[c] = <<>>
      BY <1>2, <2>2, <3>1, Unwritten
    <3> QED
      BY <3>2
  <2> QED
    BY <2>1, <2>2
<1>9. COMMAND \in reached
  <2> HIDE DEF to, bad, W
  <2> QED
    BY <1>3, <1>6, <1>7, <1>8
<1> HIDE DEF W, to, reached, bad, read, ts
<1>10. written.chans[COMMAND] = Update(COMMAND, x, W)
  BY <1>2, <1>3, <1>7, <1>9 DEF WriteAll, Phase, ConsumeRead
<1> HIDE DEF s, written
<1>11. Update(COMMAND, x, W).vals = x.vals \o W
  <2>1. Update(COMMAND, x, W) = [x EXCEPT !.vals = Reduced(@, W)]
    BY <1>6, CommandChannel
  <2>2. x = [vals |-> x.vals, fin |-> x.fin]
    BY <1>3 DEF States, IsState
  <2> HIDE DEF x
  <2>3. Update(COMMAND, x, W).vals = Reduced(x.vals, W)
    BY <2>1, <2>2
  <2> QED
    BY <1>6, <2>3 DEF Reduced
<1>12. r.chans = s.chans
  <2> HIDE DEF r
  <2> QED
    BY <1>1 DEF Applied
<1>13. r.chans[COMMAND].vals = x.vals \o W
  BY <1>2, <1>10, <1>11, <1>12
<1>14. ApplyWrites(ck0, chs, <<>>, null).chans[COMMAND].vals = chs[COMMAND].vals \o W
  BY <1>13 DEF ts
<1> QED
  BY <1>6, <1>14 DEF Extends

(* What is sent, element by element.                                       *)
LEMMA SentHas ==
  ASSUME NEW st, NEW ps, NEW ckid, NEW v
  PROVE  v \in Sent(st, ps, ckid) <=>
           \/ \E x \in DOMAIN st : x.ck = ckid /\ x.id = NullTask /\ st[x].val = v
           \/ \E p \in ps : /\ p.ck = ckid /\ p.id = NullTask
                            /\ \E i \in DOMAIN p.writes : p.writes[i].val = v
BY DEF Sent

(* Saving what was sent, or losing it, sends no more.                      *)
LEMMA SentFewer ==
  ASSUME NEW st, NEW ps, NEW st2, NEW ps2,
         \A p \in ps2 : p.id = NullTask => p \in ps,
         \A x \in DOMAIN st2 : x.id = NullTask =>
           \/ x \in DOMAIN st /\ st2[x] = st[x]
           \/ \E p \in ps : /\ p.ck = x.ck /\ p.id = NullTask
                            /\ \E i \in DOMAIN p.writes : st2[x] = p.writes[i]
  PROVE  \A ckid : Sent(st2, ps2, ckid) \subseteq Sent(st, ps, ckid)
<1> SUFFICES ASSUME NEW ckid, NEW v \in Sent(st2, ps2, ckid) PROVE v \in Sent(st, ps, ckid)
  OBVIOUS
<1>1. CASE \E x \in DOMAIN st2 : x.ck = ckid /\ x.id = NullTask /\ st2[x].val = v
  BY <1>1, SentHas
<1>2. CASE \E p \in ps2 : /\ p.ck = ckid /\ p.id = NullTask
                          /\ \E i \in DOMAIN p.writes : p.writes[i].val = v
  BY <1>2, SentHas
<1> QED
  BY <1>1, <1>2, SentHas

(* What clients have sent they have sent for good.                         *)
LEMMA MoreClients ==
  ASSUME NEW n \in Nat, NEW m \in Nat, n <= m
  PROVE  /\ Clients(n) \subseteq Clients(m)
         /\ \A id, w : UpdateOnly(id, w, n) => UpdateOnly(id, w, m)
         /\ \A id, ws : UpdatesOnly(id, ws, n) => UpdatesOnly(id, ws, m)
<1>1. \A i \in 1..n : i \in 1..m
  OBVIOUS
<1>2. Clients(n) \subseteq Clients(m)
  BY <1>1 DEF Clients
<1>3. \A id, w : UpdateOnly(id, w, n) => UpdateOnly(id, w, m)
  BY <1>2 DEF UpdateOnly
<1> QED
  BY <1>2, <1>3 DEF UpdatesOnly

(* A record holds its updates in one value.                                *)
LEMMA ReceivedFacts ==
  ASSUME NEW rec, AtMostOne(rec.vals[COMMAND])
  PROVE  /\ rec.vals[COMMAND] = {} => Received(rec) = <<>>
         /\ HeldSeq(rec, COMMAND) = Received(rec)
         /\ Held(rec, COMMAND) = ToSet(Received(rec))
<1>1. CASE rec.vals[COMMAND] = {}
  <2>1. Received(rec) = <<>>
    BY <1>1, CommandChannel DEF Received
  <2> QED
    BY <1>1, <2>1, NoTasks DEF HeldSeq, Held
<1>2. ASSUME NEW s, rec.vals[COMMAND] = {s}
      PROVE  /\ rec.vals[COMMAND] # {} /\ HeldSeq(rec, COMMAND) = Received(rec)
             /\ Held(rec, COMMAND) = ToSet(Received(rec))
  <2>1. (CHOOSE x \in {s} : TRUE) = s
    OBVIOUS
  <2>2. FromCheckpoint(COMMAND, {s}) = s
    BY <2>1, CommandChannel
  <2>3. Received(rec) = s.vals
    BY <1>2, <2>2 DEF Received
  <2>4. HeldSeq(rec, COMMAND) = s.vals
    BY <1>2, <2>1 DEF HeldSeq
  <2>5. Held(rec, COMMAND) = ToSet(s.vals)
    BY <1>2 DEF Held
  <2> QED
    BY <1>2, <2>3, <2>4, <2>5
<1> QED
  BY <1>1, <1>2 DEF AtMostOne

LEMMA SnapshotReceived ==
  ASSUME NEW chs, NEW ver \in [Chan -> Nat], ver[COMMAND] = 0 => chs[COMMAND].vals = <<>>,
         NEW rec, rec.vals = Snapshot(chs, ver)
  PROVE  /\ AtMostOne(rec.vals[COMMAND])
         /\ ver[COMMAND] = 0 => rec.vals[COMMAND] = {}
         /\ Received(rec) = chs[COMMAND].vals
<1>1. COMMAND \in Chan /\ ver[COMMAND] \in Nat
  BY CommandChannel
<1>2. rec.vals[COMMAND] = IF ver[COMMAND] > 0 THEN {chs[COMMAND]} ELSE {}
  BY <1>1, CommandChannel DEF Snapshot
<1>3. CASE ver[COMMAND] > 0
  <2>1. (CHOOSE x \in {chs[COMMAND]} : TRUE) = chs[COMMAND]
    OBVIOUS
  <2>2. FromCheckpoint(COMMAND, {chs[COMMAND]}) = chs[COMMAND]
    BY <2>1, CommandChannel
  <2>3. rec.vals[COMMAND] = {chs[COMMAND]}
    BY <1>1, <1>2, <1>3
  <2>4. AtMostOne(rec.vals[COMMAND])
    BY <2>3, Zenon DEF AtMostOne
  <2> QED
    BY <1>1, <1>3, <2>2, <2>3, <2>4 DEF Received
<1>4. CASE ver[COMMAND] = 0
  <2>1. rec.vals[COMMAND] = {} /\ chs[COMMAND].vals = <<>>
    BY <1>2, <1>4
  <2> QED
    BY <2>1, ReceivedFacts DEF AtMostOne
<1> QED
  BY <1>1, <1>3, <1>4

(* It stays as it is when its channel stays, and less is sent.             *)
LEMMA StillUpdated ==
  ASSUME NEW a, NEW b, b.id = a.id, b.parent = a.parent, b.ver[COMMAND] = a.ver[COMMAND],
         b.vals[COMMAND] = a.vals[COMMAND],
         NEW st, NEW ps, NEW n \in Nat, Updated(a, st, ps, n),
         NEW st2, NEW ps2, NEW m \in Nat, n <= m,
         Sent(st2, ps2, a.id) \subseteq Sent(st, ps, a.id),
         Sent(st2, ps2, a.parent) \subseteq Sent(st, ps, a.parent)
  PROVE  Updated(b, st2, ps2, m)
<1>1. Received(b) = Received(a) /\ Clients(n) \subseteq Clients(m)
  BY MoreClients DEF Received
<1> QED
  BY <1>1 DEF Updated

(* A checkpoint that is made has received what its parent was sent.        *)
LEMMA MadeUpdated ==
  ASSUME NEW chs, NEW ver \in [Chan -> Nat], NEW st, NEW ps, NEW n,
         NEW rec, rec.vals = Snapshot(chs, ver), rec.ver = ver, rec.parent \in 0..rec.id - 1,
         Receives(chs, ver, rec.parent, st, ps, n), Sent(st, ps, rec.id) = {}
  PROVE  Updated(rec, st, ps, n)
<1>1. /\ AtMostOne(rec.vals[COMMAND])
      /\ ver[COMMAND] = 0 => rec.vals[COMMAND] = {}
      /\ Received(rec) = chs[COMMAND].vals
  BY SnapshotReceived DEF Receives
<1> QED
  BY <1>1 DEF Updated, Receives

(* Nothing is sent to a checkpoint that is not made yet.                   *)
LEMMA UnmadeSent ==
  ASSUME Ids, Work, NEW ckid \in Nat, ckid >= nextId
  PROVE  Sent(stored, puts, ckid) = {}
<1>1. nextId \in Nat
  BY DEF Ids
<1>2. \A x \in DOMAIN stored : x.ck \in 0..nextId - 1
  BY DEF Work, ProperStore
<1>3. \A p \in puts : p.ck \in 0..nextId - 1
  BY DEF Work
<1>4. \A i \in 0..nextId - 1 : i # ckid
  BY <1>1
<1> QED
  BY <1>2, <1>3, <1>4, SentHas

(* What is known of the checkpoint an invocation loads, also when there is *)
(* none.                                                                   *)
LEMMA LatestUpdated ==
  ASSUME Ids, UpdateInv
  PROVE  LET base == Latest
         IN  /\ AtMostOne(base.vals[COMMAND])
             /\ base.ver[COMMAND] = 0 => Received(base) = <<>>
             /\ IsInjective(Received(base)) /\ ToSet(Received(base)) \subseteq Clients(invocations)
             /\ Sent(stored, puts, base.id) \cap ToSet(Received(base)) = {}
             /\ Restored(base.vals)[COMMAND].vals = Received(base)
<1> DEFINE base == Latest
<1>0. Restored(base.vals)[COMMAND].vals = Received(base)
  BY CommandChannel DEF Restored, Received
<1>1. CASE Latest = EmptyCheckpoint
  <2>1. COMMAND \in Chan
    BY CommandChannel
  <2>2. base.vals[COMMAND] = {}
    BY <1>1, <2>1 DEF EmptyCheckpoint
  <2> HIDE DEF base
  <2>3. Received(base) = <<>>
    BY <2>2, ReceivedFacts DEF AtMostOne
  <2>4. IsInjective(<<>>) /\ ToSet(<<>>) = {}
    BY NoTasks DEF IsInjective
  <2> QED
    BY <1>0, <2>2, <2>3, <2>4 DEF base, AtMostOne
<1>2. CASE Latest.id \in DOMAIN ckpts /\ Latest = ckpts[Latest.id]
  <2>1. Updated(base, stored, puts, invocations)
    BY <1>2 DEF UpdateInv, AllUpdated
  <2> HIDE DEF base
  <2>2. base.vals[COMMAND] = {} => Received(base) = <<>>
    BY <2>1, ReceivedFacts DEF Updated
  <2> QED
    BY <1>0, <2>1, <2>2 DEF Updated, base
<1> QED
  BY <1>1, <1>2, LatestFacts

(* A save that waits keeps the updates it was given.                       *)
LEMMA TouchedUpdates ==
  ASSUME NEW queue, IsSeq(queue), NEW consumed, NEW new,
         \A q \in DOMAIN queue : Shaped(queue[q]) /\ ProperSave(queue[q], ran)
  PROVE  LET t == Touched(queue, consumed, new)
         IN  /\ IsSeq(t) /\ DOMAIN t = DOMAIN queue
             /\ \A q \in DOMAIN queue : /\ t[q].id = queue[q].id /\ t[q].ver = queue[q].ver
                                        /\ t[q].parent = queue[q].parent
                                        /\ t[q].vals[COMMAND] = queue[q].vals[COMMAND]
<1> DEFINE t == Touched(queue, consumed, new)
<1>1. /\ IsSeq(t) /\ DOMAIN t = DOMAIN queue
      /\ \A q \in DOMAIN queue : \A f \in Fields \ {"vals"} : t[q][f] = queue[q][f]
  BY TouchedFields
<1>2. COMMAND \in Chan /\ ~ SharedWithCheckpoint(COMMAND)
  BY CommandChannel
<1>3. ASSUME NEW q \in DOMAIN queue PROVE t[q].vals[COMMAND] = queue[q].vals[COMMAND]
  <2>1. COMMAND \notin queue[q].shared \ consumed
    BY <1>2 DEF ProperSave
  <2>2. "shared" \in DOMAIN queue[q] /\ "vals" \in DOMAIN queue[q]
    BY DEF Shaped, Fields
  <2> QED
    BY <1>2, <2>1, <2>2 DEF Touched
<1> HIDE DEF t
<1>4. \A q \in DOMAIN queue : t[q].id = queue[q].id /\ t[q].ver = queue[q].ver /\ t[q].parent = queue[q].parent
  BY <1>1 DEF Fields
<1> QED
  BY <1>1, <1>3, <1>4 DEF t

(* What an invocation waits to store: all that is stored already, slot by  *)
(* slot, and what its Command adds.                                        *)
Waits(null, n) ==
  /\ IsSeq(null) /\ Distinct(null)
  /\ \A w \in ToSet(null) : w.chan = COMMAND /\ w.val \in Clients(n)
  /\ \A x \in DOMAIN stored : x.id = NullTask /\ x.ck = Latest.id =>
       x.idx \in DOMAIN null /\ null[x.idx] = stored[x]
  /\ \A w \in ToSet(null) : w.val \in Sent(stored, {}, Latest.id) \cup {ClientId(n)}

(* What it goes on with: all of that applied to what was loaded.           *)
Brings(null, r) ==
  \E ck0 : /\ ck0.ver = Latest.ver /\ ck0.seen = Latest.seen
           /\ IF null = <<>>
              THEN r.ver = ck0.ver /\ r.seen = ck0.seen /\ r.chans = Restored(Latest.vals)
              ELSE r = ApplyWrites(ck0, Restored(Latest.vals), <<>>, null)

LEMMA NewClient ==
  ASSUME NEW n \in Nat
  PROVE  ClientId(n + 1) \notin Clients(n) /\ ClientId(n + 1) \in Clients(n + 1)
<1>1. \A i \in Nat : ClientId(i).ck = i
  BY DEF ClientId
<1>2. n + 1 \in 1..n + 1 /\ \A i \in 1..n : i # n + 1 /\ i \in Nat
  OBVIOUS
<1>3. \A i \in 1..n : ClientId(i) # ClientId(n + 1)
  BY <1>1, <1>2
<1> QED
  BY <1>2, <1>3 DEF Clients

(* Without RESUME a Command is one write.                                  *)
LEMMA CommandIs ==
  ASSUME NEW req, req # "answer", NEW n
  PROVE  LET cmd == CommandWrites(req, n)
         IN  /\ IsSeq(cmd) /\ \A w \in ToSet(cmd) : w.chan = COMMAND /\ w.val = ClientId(n)
             /\ cmd # <<>> => Len(cmd) = 1 /\ DOMAIN cmd = {1}
<1> DEFINE w   == Write(COMMAND, ClientId(n))
           cmd == CommandWrites(req, n)
<1>1. w.chan = COMMAND /\ w.val = ClientId(n)
  BY DEF Write
<1>2. cmd = <<>> \/ cmd = <<w>>
  BY DEF CommandWrites
<1> HIDE DEF w, cmd
<1>3. IsSeq(<<w>>) /\ ToSet(<<w>>) = {w} /\ Len(<<w>>) = 1 /\ DOMAIN <<w>> = {1}
  <2>1. <<w>> \in Seq({w}) /\ Len(<<w>>) = 1 /\ DOMAIN <<w>> = {1} /\ <<w>>[1] = w
    OBVIOUS
  <2>2. ToSet(<<w>>) = {w}
    BY <2>1 DEF ToSet
  <2>3. IsSeq(<<w>>)
    BY <2>1, SeqRange
  <2> QED
    BY <2>1, <2>2, <2>3
<1>4. /\ IsSeq(cmd) /\ \A v \in ToSet(cmd) : v.chan = COMMAND /\ v.val = ClientId(n)
      /\ cmd # <<>> => Len(cmd) = 1 /\ DOMAIN cmd = {1}
  BY <1>1, <1>2, <1>3, NoTasks
<1> QED
  BY <1>4 DEF cmd

(* The slots of what a crash has left are those it had.                    *)
LEMMA NullWaits ==
  ASSUME Work, UpdateInv, NEW req, req # "answer"
  PROVE  LET loaded == PendingWrites(Latest.id)
             cmd    == CommandWrites(req, invocations + 1)
             old    == IF NullTask \in DOMAIN loaded THEN loaded[NullTask] ELSE <<>>
             null   == IF cmd = <<>> THEN old
                       ELSE Selected(old, {w \in ToSet(old) : IsData(w)}) \o cmd
         IN  Waits(null, invocations + 1)
<1> DEFINE ckid   == Latest.id
           n      == invocations + 1
           loaded == PendingWrites(ckid)
           cmd    == CommandWrites(req, n)
           old    == IF NullTask \in DOMAIN loaded THEN loaded[NullTask] ELSE <<>>
           kept   == Selected(old, {w \in ToSet(old) : IsData(w)})
           null   == IF cmd = <<>> THEN old ELSE kept \o cmd
<1>1. /\ IsSeq(old)
      /\ \A i \in DOMAIN old : /\ NullKey(ckid, i) \in DOMAIN stored
                               /\ old[i] = stored[NullKey(ckid, i)]
      /\ \A x \in DOMAIN stored : x.ck = ckid /\ x.id = NullTask =>
           x = NullKey(ckid, x.idx) /\ x.idx \in DOMAIN old
  BY NullLoaded DEF UpdateInv
<1> HIDE DEF old, ckid
<1>2. /\ invocations \in Nat /\ n \in Nat /\ Clients(invocations) \subseteq Clients(n)
      /\ ClientId(n) \notin Clients(invocations) /\ ClientId(n) \in Clients(n)
  <2>1. invocations \in Nat /\ invocations + 1 \in Nat /\ invocations <= invocations + 1
    BY DEF UpdateInv
  <2> QED
    BY <2>1, NewClient, MoreClients
<1>3. /\ IsSeq(cmd) /\ \A w \in ToSet(cmd) : w.chan = COMMAND /\ w.val = ClientId(n)
      /\ cmd # <<>> => Len(cmd) = 1 /\ DOMAIN cmd = {1}
  BY CommandIs
<1> HIDE DEF n, cmd
<1>4. ASSUME NEW i \in DOMAIN old
      PROVE  /\ old[i].chan = COMMAND /\ old[i].val \in Clients(invocations)
             /\ old[i].val \in Sent(stored, {}, ckid)
  <2>1. /\ NullKey(ckid, i) \in DOMAIN stored /\ old[i] = stored[NullKey(ckid, i)]
        /\ NullKey(ckid, i).id = NullTask /\ NullKey(ckid, i).ck = ckid
    BY <1>1 DEF NullKey
  <2>2. UpdateOnly(NullTask, old[i], invocations)
    BY <2>1 DEF UpdateInv, UpdateWrites
  <2>3. old[i].val \in Sent(stored, {}, ckid)
    BY <2>1, SentHas
  <2> QED
    BY <2>2, <2>3 DEF UpdateOnly
<1>5. ASSUME NEW i \in DOMAIN old, NEW j \in DOMAIN old, old[i].val = old[j].val PROVE i = j
  <2>1. /\ NullKey(ckid, i) \in DOMAIN stored /\ old[i] = stored[NullKey(ckid, i)]
        /\ NullKey(ckid, j) \in DOMAIN stored /\ old[j] = stored[NullKey(ckid, j)]
    BY <1>1
  <2>2. /\ NullKey(ckid, i).id = NullTask /\ NullKey(ckid, i).ck = ckid /\ NullKey(ckid, i).idx = i
        /\ NullKey(ckid, j).id = NullTask /\ NullKey(ckid, j).ck = ckid /\ NullKey(ckid, j).idx = j
    BY DEF NullKey
  <2> QED
    BY <1>5, <2>1, <2>2 DEF UpdateInv, Slotted
<1>6. \A x \in DOMAIN stored : x.id = NullTask /\ x.ck = ckid =>
        x.idx \in DOMAIN old /\ old[x.idx] = stored[x]
  BY <1>1
<1>7. kept = old
  <2>1. \A w \in ToSet(old) : IsData(w)
    <3>1. COMMAND \notin ControlChan
      BY CommandChannel
    <3> QED
      BY <1>4, <3>1 DEF ToSet, IsData
  <2> QED
    BY <1>1, <2>1, SelectedAll
<1> HIDE DEF kept
<1>8. CASE cmd = <<>>
  <2>1. null = old
    BY <1>8
  <2> HIDE DEF null
  <2>2. \A w \in ToSet(old) : \E i \in DOMAIN old : w = old[i]
    BY DEF ToSet
  <2>3. Waits(old, n)
    BY <1>1, <1>2, <1>4, <1>5, <1>6, <2>2 DEF Waits, Distinct, ckid
  <2> QED
    BY <2>1, <2>3 DEF null, kept, old, cmd, n, ckid
<1>9. CASE cmd # <<>>
  <2> DEFINE all == old \o cmd
             L   == Len(old)
  <2>1. null = all
    BY <1>7, <1>9
  <2> HIDE DEF null
  <2>2. /\ L \in Nat /\ DOMAIN old = 1..L /\ DOMAIN all = 1..L + 1
        /\ \A i \in 1..L : all[i] = old[i]
        /\ all[L + 1] = cmd[1] /\ cmd[1] \in ToSet(cmd)
    <3> DEFINE E == ToSet(old) \cup ToSet(cmd)
    <3>1. old \in Seq(E) /\ cmd \in Seq(E)
      BY <1>1, <1>3 DEF IsSeq
    <3>2. Len(cmd) = 1 /\ cmd[1] \in ToSet(cmd)
      BY <1>3, <1>9 DEF ToSet
    <3> HIDE DEF E
    <3>3. /\ Len(old) \in Nat /\ DOMAIN old = 1..Len(old) /\ DOMAIN all = 1..Len(old) + Len(cmd)
          /\ \A i \in 1..Len(old) : all[i] = old[i]
      BY <3>1
    <3>4. \A i \in 1..Len(old) + Len(cmd) :
            all[i] = IF i <= Len(old) THEN old[i] ELSE cmd[i - Len(old)]
      BY <3>1
    <3>5. L + 1 \in 1..L + 1 /\ ~ L + 1 <= L /\ (L + 1) - L = 1
      BY <3>3
    <3>6. all[L + 1] = cmd[1]
      BY <3>2, <3>4, <3>5
    <3> QED
      BY <3>2, <3>3, <3>6
  <2>3. IsSeq(all)
    BY <1>1, <1>3, SeqJoin
  <2> HIDE DEF all, L
  <2>4. all[L + 1].chan = COMMAND /\ all[L + 1].val = ClientId(n)
    BY <1>3, <2>2
  <2>5. ASSUME NEW i \in DOMAIN all PROVE (i \in 1..L /\ i \in DOMAIN old /\ all[i] = old[i]) \/ i = L + 1
    BY <2>2
  <2>6. ASSUME NEW i \in DOMAIN all
        PROVE  /\ all[i].chan = COMMAND /\ all[i].val \in Clients(n)
               /\ all[i].val \in Sent(stored, {}, ckid) \cup {ClientId(n)}
    BY <1>2, <1>4, <2>4, <2>5
  <2>7. ASSUME NEW i \in DOMAIN all, NEW j \in DOMAIN all, all[i].val = all[j].val PROVE i = j
    <3>1. CASE i \in DOMAIN old /\ j \in DOMAIN old /\ all[i] = old[i] /\ all[j] = old[j]
      BY <1>5, <2>7, <3>1
    <3>2. CASE i \in DOMAIN old /\ all[i] = old[i] /\ j = L + 1
      BY <1>2, <1>4, <2>4, <2>7, <3>2
    <3>3. CASE j \in DOMAIN old /\ all[j] = old[j] /\ i = L + 1
      BY <1>2, <1>4, <2>4, <2>7, <3>3
    <3> QED
      BY <2>5, <3>1, <3>2, <3>3
  <2>8. \A x \in DOMAIN stored : x.id = NullTask /\ x.ck = ckid =>
          x.idx \in DOMAIN all /\ all[x.idx] = stored[x]
    BY <1>6, <2>2
  <2>9. \A w \in ToSet(all) : \E i \in DOMAIN all : w = all[i]
    BY DEF ToSet
  <2>10. Waits(all, n)
    BY <2>3, <2>6, <2>7, <2>8, <2>9 DEF Waits, Distinct, ckid
  <2> QED
    BY <2>1, <2>10 DEF null, kept, old, cmd, n, ckid
<1> QED
  BY <1>8, <1>9

(* What an invocation makes of the updates that were sent.                 *)
LEMMA InvokeBrings ==
  ASSUME Work, UpdateInv, NEW req, req # "answer", NEW d, Invoke(req, d)
  PROVE  /\ invocations' = invocations + 1 /\ durability' = d
         /\ \A id \in DOMAIN pend' : UpdatesOnly(id, pend'[id], invocations + 1)
         /\ \E null, r :
              /\ Waits(null, invocations + 1) /\ Brings(null, r)
              /\ puts' \subseteq {[ck |-> Latest.id, id |-> NullTask, writes |-> null]}
              /\ \/ /\ ck' = [id |-> Latest.id, ver |-> r.ver, seen |-> With(r.seen, INTERRUPT, r.ver)]
                    /\ cfg' = Latest.id /\ saves' = <<>> /\ chans' = r.chans
                    /\ UNCHANGED <<nextId, made>>
                 \/ \E i : /\ Inputs(r, i) /\ chans' = i.chans
                           /\ PutCheckpoint("input", i, <<>>, Latest.step + 1, Latest.id, Latest.id)
<1> DEFINE base    == Latest
           loaded  == PendingWrites(base.id)
           cmd     == CommandWrites(req, invocations + 1)
           old     == IF NullTask \in DOMAIN loaded THEN loaded[NullTask] ELSE <<>>
           null    == IF cmd = <<>> THEN old ELSE Selected(old, {w \in ToSet(old) : IsData(w)}) \o cmd
           ck0     == [id |-> base.id, ver |-> base.ver, seen |-> base.seen]
           chans0  == Restored(base.vals)
           none    == [ver |-> ck0.ver, seen |-> ck0.seen, chans |-> chans0, updated |-> {}]
           r       == IF null = <<>> THEN none ELSE ApplyWrites(ck0, chans0, <<>>, null)
           ck1     == [ck0 EXCEPT !.ver = r.ver, !.seen = r.seen]
           discard == PrepareNextTasks(ck1, r.chans, {})
           x       == <<Write(START, ClientId(invocations + 1))>>
           input   == ApplyWrites(ck1, r.chans, discard, x)
           p       == [ck |-> base.id, id |-> NullTask, writes |-> null]
<1>1. \/ /\ ck' = [id |-> base.id, ver |-> r.ver, seen |-> With(r.seen, INTERRUPT, r.ver)]
         /\ cfg' = base.id /\ saves' = <<>> /\ chans' = r.chans /\ UNCHANGED <<nextId, made>>
      \/ /\ PutCheckpoint("input", input, <<>>, base.step + 1, base.id, base.id)
         /\ chans' = input.chans
  BY Zenon DEF Invoke
<1>2. /\ pend' = IF cmd = <<>> THEN loaded ELSE With(loaded, NullTask, null)
      /\ puts' = IF cmd = <<>> \/ d = "exit" THEN {} ELSE {p}
      /\ invocations' = invocations + 1 /\ durability' = d
  BY Zenon DEF Invoke
<1>3. Waits(null, invocations + 1)
  BY NullWaits
<1> HIDE DEF loaded
<1>4. \A id \in DOMAIN loaded : UpdatesOnly(id, loaded[id], invocations + 1)
  <2>1. \A id \in DOMAIN loaded : \A w \in ToSet(loaded[id]) :
          \E y \in DOMAIN stored : y.id = id /\ stored[y] = w
    BY PendingProper DEF loaded
  <2>2. \A id \in DOMAIN loaded : UpdatesOnly(id, loaded[id], invocations)
    BY <2>1 DEF UpdatesOnly, UpdateInv, UpdateWrites
  <2>3. invocations \in Nat /\ invocations + 1 \in Nat /\ invocations <= invocations + 1
    BY DEF UpdateInv
  <2> QED
    BY <2>2, <2>3, MoreClients
<1>5. Brings(null, r)
  <2>1. ck0.ver = Latest.ver /\ ck0.seen = Latest.seen
    OBVIOUS
  <2> HIDE DEF ck0, null
  <2>2. IF null = <<>> THEN r.ver = ck0.ver /\ r.seen = ck0.seen /\ r.chans = Restored(Latest.vals)
        ELSE r = ApplyWrites(ck0, Restored(Latest.vals), <<>>, null)
    OBVIOUS
  <2> HIDE DEF r
  <2> QED
    BY <2>1, <2>2 DEF Brings
<1> HIDE DEF null, cmd, r
<1>6. Inputs(r, input)
  <2>1. ck1.ver = r.ver /\ ck1.seen = r.seen
    BY DEF ck0
  <2> HIDE DEF ck1
  <2> QED
    BY <2>1 DEF Inputs
<1> HIDE DEF input, ck0
<1>7. UpdatesOnly(NullTask, null, invocations + 1)
  BY <1>3 DEF Waits, UpdatesOnly, UpdateOnly
<1>8. \A id \in DOMAIN pend' : UpdatesOnly(id, pend'[id], invocations + 1)
  BY <1>2, <1>4, <1>7 DEF With
<1>9. puts' \subseteq {[ck |-> Latest.id, id |-> NullTask, writes |-> null]}
  BY <1>2
<1> QED
  BY <1>1, <1>2, <1>3, <1>5, <1>6, <1>8, <1>9

(* It has all updates that were sent, and each of them once.               *)
LEMMA BroughtUpdates ==
  ASSUME PlainUpdates, Ids, Records, UpdateInv, NEW null, Waits(null, invocations + 1),
         NEW r, Brings(null, r)
  PROVE  /\ r.ver \in [Chan -> Nat] /\ ProperAll(r.chans, Marked, ran)
         /\ IsInjective(r.chans[COMMAND].vals)
         /\ ToSet(r.chans[COMMAND].vals) \subseteq Clients(invocations + 1)
         /\ r.ver[COMMAND] = 0 => r.chans[COMMAND].vals = <<>>
         /\ \A w \in ToSet(null) : /\ w.val \in ToSet(r.chans[COMMAND].vals)
                                   /\ w.val \notin ToSet(Received(Latest))
<1> DEFINE base == Latest
           chs  == Restored(base.vals)
           n    == invocations + 1
           got  == Received(base)
<1>1. ProperRec(base, ran) /\ ProperAll(chs, Marked, ran) /\ States(chs)
  BY LatestProper, RestoredProper, ProperStates
<1>2. /\ base.ver[COMMAND] = 0 => got = <<>>
      /\ IsInjective(got) /\ ToSet(got) \subseteq Clients(invocations)
      /\ Sent(stored, puts, base.id) \cap ToSet(got) = {}
      /\ chs[COMMAND].vals = got
  BY LatestUpdated
<1>3. COMMAND \in Chan /\ IsSeq(got)
  <2>1. COMMAND \in Chan /\ Kind[COMMAND] \notin Barriers
    BY CommandChannel, LoopAssumption DEF Barriers
  <2>2. IsSeq(chs[COMMAND].vals)
    BY <1>1, <2>1 DEF ProperAll, Proper
  <2> QED
    BY <1>2, <2>1, <2>2
<1> HIDE DEF base, chs, got
<1>4. /\ invocations \in Nat /\ n \in Nat /\ Clients(invocations) \subseteq Clients(n)
      /\ ClientId(n) \notin Clients(invocations)
  <2>1. invocations \in Nat /\ invocations + 1 \in Nat /\ invocations <= invocations + 1
    BY DEF UpdateInv
  <2> QED
    BY <2>1, NewClient, MoreClients
<1>5. Sent(stored, {}, base.id) \subseteq Sent(stored, puts, base.id)
  BY SentFewer
<1>6. \A w \in ToSet(null) : w.val \notin ToSet(got)
  BY <1>2, <1>4, <1>5 DEF Waits, base
<1>7. PICK ck0 : /\ ck0.ver = base.ver /\ ck0.seen = base.seen
                 /\ IF null = <<>> THEN r.ver = ck0.ver /\ r.seen = ck0.seen /\ r.chans = chs
                    ELSE r = ApplyWrites(ck0, chs, <<>>, null)
  BY DEF Brings, base, chs
<1>8. CASE null = <<>>
  <2>1. r.ver = base.ver /\ r.chans = chs
    BY <1>7, <1>8
  <2>2. r.ver \in [Chan -> Nat]
    BY <1>1, <2>1 DEF ProperRec
  <2>3. \A w \in ToSet(null) : FALSE
    BY <1>8, NoTasks
  <2> QED
    BY <1>1, <1>2, <1>4, <2>1, <2>2, <2>3 DEF base, n
<1>9. CASE null # <<>>
  <2>1. r = ApplyWrites(ck0, chs, <<>>, null)
    BY <1>7, <1>9
  <2>2. ck0.ver \in [Chan -> Nat] /\ ProperSeen(ck0.seen)
    BY <1>1, <1>7 DEF ProperRec
  <2>3. /\ IsSeq(null) /\ Distinct(null)
        /\ \A w \in ToSet(null) : w.chan = COMMAND /\ w.val \in Clients(n)
    BY DEF Waits
  <2>4. \A w \in ToSet(null) : ~ IsOverwrite(w.val)
    <3>1. \A i \in 1..n : i \in Nat
      BY <1>4
    <3> QED
      BY <2>3, <3>1 DEF Clients, PlainUpdates
  <2>5. ProperResult(r, ran)
    <3>1. COMMAND \notin Marked
      BY MarkedFacts, LoopAssumption
    <3>2. ProperWrites(null, Marked, ran)
      BY <2>3, <3>1 DEF ProperWrites
    <3> QED
      BY <1>1, <2>1, <2>2, <3>2, NoTasks, ApplyResult
  <2>6. PICK W : /\ r.chans[COMMAND].vals = chs[COMMAND].vals \o W
                 /\ IsSeq(W) /\ IsInjective(W) /\ ToSet(W) = ValuesOf(null)
    <3>1. \A w \in ToSet(null) : w.chan = COMMAND /\ ~ IsOverwrite(w.val)
      BY <2>3, <2>4
    <3>2. Extends(ApplyWrites(ck0, chs, <<>>, null).chans[COMMAND].vals, chs[COMMAND].vals, null)
      BY <1>1, <1>9, <2>3, <3>1, ApplyUpdates
    <3> QED
      BY <2>1, <3>2 DEF Extends
  <2>7. \A v : v \in ToSet(W) <=> \E w \in ToSet(null) : w.val = v
    BY <2>6 DEF ValuesOf
  <2>8. r.chans[COMMAND].vals = got \o W
    BY <1>2, <2>6
  <2>9. ToSet(got \o W) = ToSet(got) \cup ToSet(W)
    BY <1>3, <2>6, SeqJoin
  <2>10. IsInjective(got \o W)
    BY <1>2, <1>3, <1>6, <2>6, <2>7, JoinInjective
  <2>11. ToSet(got \o W) \subseteq Clients(n)
    BY <1>2, <1>4, <2>3, <2>7, <2>9
  <2>12. r.ver[COMMAND] # 0
    <3>1. /\ ck0.ver[COMMAND] <= r.ver[COMMAND] /\ r.ver[COMMAND] \in Nat /\ ck0.ver[COMMAND] \in Nat
          /\ \/ r.chans[COMMAND] = chs[COMMAND]
             \/ ck0.ver[COMMAND] < r.ver[COMMAND]
      BY <1>1, <1>3, <2>1, <2>2, ApplyTracks
    <3>2. r.chans[COMMAND] # chs[COMMAND]
      <4>1. null[1] \in ToSet(null)
        BY <1>9, <2>3, SeqTail DEF ToSet
      <4>2. null[1].val \in ToSet(got \o W) /\ null[1].val \notin ToSet(got)
        BY <1>6, <2>7, <2>9, <4>1
      <4> QED
        BY <1>2, <2>8, <4>2
    <3> QED
      BY <3>1, <3>2
  <2>13. \A w \in ToSet(null) : w.val \in ToSet(got \o W)
    BY <2>7, <2>9
  <2> QED
    BY <1>6, <2>5, <2>8, <2>10, <2>11, <2>12, <2>13 DEF ProperResult, base, n, got
<1> QED
  BY <1>8, <1>9

(* New input leaves the updates that were loaded.                          *)
LEMMA InputsKeep ==
  ASSUME CommandsOnly, NEW r, r.ver \in [Chan -> Nat], ProperAll(r.chans, Marked, ran),
         NEW i, Inputs(r, i)
  PROVE  /\ i.ver \in [Chan -> Nat] /\ i.chans[COMMAND] = r.chans[COMMAND]
         /\ i.ver[COMMAND] = r.ver[COMMAND]
<1>1. PICK ck1, n : /\ ck1.ver = r.ver /\ ck1.seen = r.seen
                    /\ i = ApplyWrites(ck1, r.chans, PrepareNextTasks(ck1, r.chans, {}),
                                       <<Write(START, ClientId(n))>>)
  BY DEF Inputs
<1> DEFINE ts == PrepareNextTasks(ck1, r.chans, {})
           x  == <<Write(START, ClientId(n))>>
<1>2. /\ IsSeq(ts)
      /\ \A k \in DOMAIN ts : ProperTask(ts[k], ran) /\ ts[k].writes = <<>>
  BY <1>1, PreparedProper
<1>3. Others(x)
  <2>1. ToSet(x) = {Write(START, ClientId(n))} /\ Write(START, ClientId(n)).chan = START
    BY ClientOwn
  <2>2. ProperWrites(x, Marked, ran)
    BY ClientWrites
  <2> HIDE DEF x
  <2> QED
    BY <2>1, <2>2 DEF ProperWrites, CommandsOnly, Others
<1> HIDE DEF ts, x
<1>4. i = ApplyWrites(ck1, r.chans, ts, x)
  BY <1>1 DEF ts, x
<1>5. i.ver \in [Chan -> Nat]
  <2>1. States(r.chans) /\ ck1.ver \in [Chan -> Nat]
    BY <1>1, ProperStates
  <2> QED
    BY <1>4, <2>1, ApplyTracks
<1>6. \A k \in DOMAIN ts : Others(ts[k].writes)
  BY <1>2, NoTasks DEF Others
<1>7. KeepsUpdates(ApplyWrites(ck1, r.chans, ts, x), ck1.ver, r.chans)
  BY <1>2, <1>3, <1>6, ApplyKeeps
<1> QED
  BY <1>1, <1>4, <1>5, <1>7 DEF KeepsUpdates

(* _put_checkpoint makes a checkpoint that has what its parent was sent.   *)
LEMMA PutUpdates ==
  ASSUME Ids, Control, durability' # "exit", NEW src, NEW r, r.ver \in [Chan -> Nat],
         NEW queue, IsSeq(queue), NEW s, NEW prev, NEW parent \in 0..nextId - 1,
         PutCheckpoint(src, r, queue, s, prev, parent), NEW st, NEW ps, NEW n,
         Receives(r.chans, r.ver, parent, st, ps, n), Sent(st, ps, nextId) = {},
         AllUpdated(queue, st, ps, n), NoneTwice(made)
  PROVE  /\ AllUpdated(saves', st, ps, n) /\ NoneTwice(made')
         /\ cfg' = nextId /\ ck'.id = nextId /\ ck'.ver = r.ver
<1> DEFINE rec  == Record(nextId, r.ver, r.seen, r.updated, r.chans, s, src, parent)
           kept == [rec EXCEPT !.parent = prev]
           e    == Unsaved(rec)
<1>1. /\ ck' = [id |-> nextId, ver |-> r.ver, seen |-> r.seen]
      /\ made' = With(made, nextId, kept) /\ cfg' = nextId /\ saves' = Append(queue, e)
  BY DEF PutCheckpoint
<1>2. /\ e.id = nextId /\ e.parent = parent /\ e.ver = r.ver /\ e.vals = Snapshot(r.chans, r.ver)
  BY SaveFields DEF Fields
<1>3. kept.vals = Snapshot(r.chans, r.ver)
  BY DEF Record
<1>4. ck'.id = nextId /\ ck'.ver = r.ver
  BY <1>1
<1> HIDE DEF rec, kept, e
<1>5. Updated(e, st, ps, n)
  BY <1>2, MadeUpdated
<1>6. AllUpdated(saves', st, ps, n)
  <2>1. \A q \in DOMAIN saves' : (q \in DOMAIN queue /\ saves'[q] = queue[q]) \/ saves'[q] = e
    BY <1>1, SeqAppend
  <2> QED
    BY <1>5, <2>1 DEF AllUpdated
<1>7. IsInjective(HeldSeq(kept, COMMAND))
  <2>1. AtMostOne(kept.vals[COMMAND]) /\ Received(kept) = r.chans[COMMAND].vals
    BY <1>3, SnapshotReceived DEF Receives
  <2>2. HeldSeq(kept, COMMAND) = Received(kept)
    BY <2>1, ReceivedFacts
  <2> QED
    BY <2>1, <2>2 DEF Receives
<1>8. NoneTwice(made')
  BY <1>1, <1>7 DEF With, NoneTwice
<1> QED
  BY <1>1, <1>4, <1>6, <1>8

(* What an invocation sends is what it has.                                *)
LEMMA WaitsSent ==
  ASSUME NEW null, NEW n, Waits(null, n), NEW ps,
         ps \subseteq {[ck |-> Latest.id, id |-> NullTask, writes |-> null]}
  PROVE  /\ \A v \in Sent(stored, ps, Latest.id) : \E w \in ToSet(null) : w.val = v
         /\ \A ckid : ckid # Latest.id => Sent(stored, ps, ckid) \subseteq Sent(stored, {}, ckid)
         /\ Slotted(stored) => Fitting(stored, ps)
         /\ \A p \in ps : UpdatesOnly(p.id, p.writes, n)
<1>1. \A p \in ps : p.ck = Latest.id /\ p.id = NullTask /\ p.writes = null
  OBVIOUS
<1>2. \A p, q \in ps : p = q
  OBVIOUS
<1>3. ASSUME NEW v \in Sent(stored, ps, Latest.id) PROVE \E w \in ToSet(null) : w.val = v
  <2>1. CASE \E x \in DOMAIN stored : x.ck = Latest.id /\ x.id = NullTask /\ stored[x].val = v
    BY <2>1 DEF Waits, ToSet
  <2>2. CASE \E p \in ps : /\ p.ck = Latest.id /\ p.id = NullTask
                           /\ \E i \in DOMAIN p.writes : p.writes[i].val = v
    BY <1>1, <2>2 DEF ToSet
  <2> QED
    BY <1>3, <2>1, <2>2, SentHas
<1>4. ASSUME NEW ckid, ckid # Latest.id, NEW v \in Sent(stored, ps, ckid)
      PROVE  v \in Sent(stored, {}, ckid)
  BY <1>1, <1>4, SentHas
<1>5. ASSUME Slotted(stored) PROVE Fitting(stored, ps)
  <2>1. ASSUME NEW i \in DOMAIN null, NEW x \in DOMAIN stored,
               x.id = NullTask, x.ck = Latest.id, stored[x].val = null[i].val
        PROVE  x.idx = i
    BY <2>1 DEF Waits, Distinct
  <2>2. Distinct(null)
    BY DEF Waits
  <2> QED
    BY <1>1, <1>2, <2>1, <2>2 DEF Fitting
<1>6. \A p \in ps : UpdatesOnly(p.id, p.writes, n)
  BY <1>1 DEF UpdatesOnly, UpdateOnly, Waits
<1> QED
  BY <1>3, <1>4, <1>5, <1>6

LEMMA InvokeUpdates ==
  ASSUME CommandsOnly, PlainUpdates, "answer" \notin Requests, "exit" \notin Durabilities,
         Ids, TInv, UpdateInv, NEW req \in Requests, NEW d \in Durabilities, Invoke(req, d)
  PROVE  UpdateInv'
<1> DEFINE n == invocations + 1
<1>1. Work /\ Control /\ Records /\ req # "answer" /\ d # "exit"
  BY DEF TInv
<1>2. /\ invocations' = n /\ durability' = d
      /\ \A id \in DOMAIN pend' : UpdatesOnly(id, pend'[id], n)
  BY <1>1, InvokeBrings
<1>3. PICK null, r :
         /\ Waits(null, n) /\ Brings(null, r)
         /\ puts' \subseteq {[ck |-> Latest.id, id |-> NullTask, writes |-> null]}
         /\ \/ /\ ck' = [id |-> Latest.id, ver |-> r.ver, seen |-> With(r.seen, INTERRUPT, r.ver)]
               /\ cfg' = Latest.id /\ saves' = <<>> /\ chans' = r.chans
               /\ UNCHANGED <<nextId, made>>
            \/ \E i : /\ Inputs(r, i) /\ chans' = i.chans
                      /\ PutCheckpoint("input", i, <<>>, Latest.step + 1, Latest.id, Latest.id)
  BY <1>1, InvokeBrings
<1>4. /\ tasks' = <<>> /\ UNCHANGED <<ckpts, stored>>
  BY Zenon DEF Invoke, storage
<1>5. /\ r.ver \in [Chan -> Nat] /\ ProperAll(r.chans, Marked, ran)
      /\ IsInjective(r.chans[COMMAND].vals) /\ ToSet(r.chans[COMMAND].vals) \subseteq Clients(n)
      /\ r.ver[COMMAND] = 0 => r.chans[COMMAND].vals = <<>>
      /\ \A w \in ToSet(null) : /\ w.val \in ToSet(r.chans[COMMAND].vals)
                                /\ w.val \notin ToSet(Received(Latest))
  BY <1>1, <1>3, BroughtUpdates
<1>6. /\ \A v \in Sent(stored, puts', Latest.id) : \E w \in ToSet(null) : w.val = v
      /\ \A ckid : ckid # Latest.id => Sent(stored, puts', ckid) \subseteq Sent(stored, {}, ckid)
      /\ Fitting(stored, puts')
      /\ \A p \in puts' : UpdatesOnly(p.id, p.writes, n)
  BY <1>3, WaitsSent DEF UpdateInv
<1>7. /\ invocations \in Nat /\ n \in Nat /\ invocations <= n
      /\ \A id, w : UpdateOnly(id, w, invocations) => UpdateOnly(id, w, n)
      /\ Clients(invocations) \subseteq Clients(n)
  <2>1. invocations \in Nat /\ n \in Nat /\ invocations <= n
    BY DEF UpdateInv
  <2> QED
    BY <2>1, MoreClients
<1> HIDE DEF n
<1>8. UpdateWrites'
  <2>1. \A k \in DOMAIN tasks' : UpdatesOnly(tasks'[k].id, tasks'[k].writes, invocations')
    BY <1>4, NoTasks
  <2>2. \A x \in DOMAIN stored' : UpdateOnly(x.id, stored'[x], invocations')
    BY <1>2, <1>4, <1>7 DEF UpdateInv, UpdateWrites
  <2> QED
    BY <1>2, <1>6, <2>1, <2>2 DEF UpdateWrites
<1>9. Slotted(stored') /\ Fitting(stored', puts')
  BY <1>4, <1>6 DEF UpdateInv
<1>10. \A ckid : Sent(stored, {}, ckid) \subseteq Sent(stored, puts, ckid)
  BY SentFewer
<1>11. AllUpdated(ckpts', stored', puts', invocations')
  <2> SUFFICES ASSUME NEW i \in DOMAIN ckpts PROVE Updated(ckpts[i], stored, puts', n)
    BY <1>2, <1>4 DEF AllUpdated
  <2> DEFINE rec == ckpts[i]
  <2>1. Updated(rec, stored, puts, invocations) /\ rec.id = i /\ i \in Nat
    BY DEF UpdateInv, AllUpdated, Ids
  <2>2. /\ Latest.id \in DOMAIN ckpts /\ Latest = ckpts[Latest.id] /\ i <= Latest.id
        /\ Latest.id \in Nat
    BY LatestFacts DEF Ids
  <2> HIDE DEF rec
  <2>3. rec.parent \in Nat /\ rec.parent < i
    BY <2>1 DEF Updated
  <2>4. Sent(stored, puts', rec.parent) \subseteq Sent(stored, puts, rec.parent)
    <3>1. rec.parent # Latest.id
      BY <2>1, <2>2, <2>3
    <3> QED
      BY <1>6, <1>10, <3>1
  <2>5. Sent(stored, puts', i) \cap ToSet(Received(rec)) = {}
    <3>1. CASE i = Latest.id
      <4>1. rec = Latest
        BY <2>2, <3>1 DEF rec
      <4> QED
        BY <1>5, <1>6, <3>1, <4>1
    <3>2. CASE i # Latest.id
      <4>1. Sent(stored, puts', i) \subseteq Sent(stored, puts, i)
        BY <1>6, <1>10, <3>2
      <4> QED
        BY <2>1, <4>1 DEF Updated
    <3> QED
      BY <3>1, <3>2
  <2>6. Updated(rec, stored, puts', n)
    BY <1>7, <2>1, <2>4, <2>5 DEF Updated
  <2> QED
    BY <2>6 DEF rec
<1>12. Latest.id \in 0..nextId - 1 /\ nextId \in Nat
  BY LatestId DEF Ids
<1>13. Receives(r.chans, r.ver, Latest.id, stored, puts', n)
  BY <1>5, <1>6 DEF Receives
<1>14. CASE /\ ck' = [id |-> Latest.id, ver |-> r.ver, seen |-> With(r.seen, INTERRUPT, r.ver)]
            /\ cfg' = Latest.id /\ saves' = <<>> /\ chans' = r.chans
            /\ UNCHANGED <<nextId, made>>
  <2>1. ck'.id = Latest.id /\ ck'.ver = r.ver
    BY <1>14
  <2>2. UpdatedLoop'
    BY <1>2, <1>4, <1>13, <1>14, <2>1 DEF UpdatedLoop
  <2>3. AllUpdated(saves', stored', puts', invocations')
    BY <1>14, NoTasks DEF AllUpdated
  <2> QED
    BY <1>2, <1>7, <1>8, <1>9, <1>11, <1>14, <2>2, <2>3 DEF UpdateInv
<1>15. ASSUME NEW i, Inputs(r, i), chans' = i.chans,
              PutCheckpoint("input", i, <<>>, Latest.step + 1, Latest.id, Latest.id)
       PROVE  UpdateInv'
  <2>1. /\ i.ver \in [Chan -> Nat] /\ i.chans[COMMAND] = r.chans[COMMAND]
        /\ i.ver[COMMAND] = r.ver[COMMAND]
    BY <1>5, <1>15, InputsKeep
  <2>2. Sent(stored, puts', nextId) = {}
    <3>1. nextId # Latest.id /\ nextId >= nextId
      BY <1>12
    <3>2. Sent(stored, puts, nextId) = {}
      BY <1>1, <1>12, <3>1, UnmadeSent
    <3> QED
      BY <1>6, <1>10, <3>1, <3>2
  <2>3. AllUpdated(<<>>, stored, puts', n) /\ NoneTwice(made) /\ IsSeq(<<>>)
    BY NoTasks DEF UpdateInv, AllUpdated
  <2>4. Receives(i.chans, i.ver, Latest.id, stored, puts', n)
    BY <1>13, <2>1 DEF Receives
  <2>5. durability' # "exit"
    BY <1>1, <1>2
  <2>6. /\ AllUpdated(saves', stored, puts', n) /\ NoneTwice(made')
        /\ cfg' = nextId /\ ck'.id = nextId /\ ck'.ver = i.ver
    BY <1>1, <1>12, <1>15, <2>1, <2>2, <2>3, <2>4, <2>5, PutUpdates
  <2>7. UpdatedLoop'
    BY <1>2, <1>4, <1>15, <2>2, <2>4, <2>6 DEF UpdatedLoop, Receives
  <2> QED
    BY <1>2, <1>4, <1>7, <1>8, <1>9, <1>11, <2>6, <2>7 DEF UpdateInv
<1> QED
  BY <1>3, <1>14, <1>15

(* What a task writes is no update, whether it fails or not.               *)
LEMMA ResolveUpdates ==
  ASSUME NEW n, NEW id, id # NullTask, NEW out, IsSeq(out),
         \A i \in DOMAIN out : out[i].chan \in Chan /\ out[i].chan # COMMAND
  PROVE  /\ UpdatesOnly(id, Resolve(id, out), n)
         /\ UpdatesOnly(id, Append(Resolve(id, out), Write("ERROR", NullTask)), n)
<1> DEFINE ws == Resolve(id, out)
           w  == Write("ERROR", NullTask)
<1>1. IsSeq(ws) /\ \A i \in DOMAIN ws : ws[i].chan # COMMAND
  <2>1. /\ IsSeq(ws) /\ DOMAIN ws = DOMAIN out
        /\ \A i \in DOMAIN out : ws[i].chan = out[i].chan
    BY ResolveFacts
  <2> HIDE DEF ws
  <2> QED
    BY <2>1
<1>2. w.chan = "ERROR" /\ "ERROR" # COMMAND
  BY LoopAssumption, AlgoAssumption DEF Write, ControlChan
<1> HIDE DEF ws, w
<1>3. \A i \in DOMAIN Append(ws, w) : Append(ws, w)[i].chan # COMMAND
  <2>1. \A i \in DOMAIN Append(ws, w) : (i \in DOMAIN ws /\ Append(ws, w)[i] = ws[i]) \/ Append(ws, w)[i] = w
    BY <1>1, SeqAppend
  <2> QED
    BY <1>1, <1>2, <2>1
<1> QED
  BY <1>1, <1>3 DEF UpdatesOnly, UpdateOnly, ToSet, ws, w

LEMMA TaskUpdates ==
  ASSUME CommandsOnly, NEW n, NEW id, id.name \in Node, id # NullTask
  PROVE  /\ \A out \in Outputs[id.name] :
              UpdatesOnly(id, IF out = <<>> THEN <<Write("NO_WRITES", NullTask)>> ELSE Resolve(id, out), n)
         /\ \A out \in Partial[id.name] :
              UpdatesOnly(id, Append(Resolve(id, out), Write("ERROR", NullTask)), n)
<1>1. \A out \in Outputs[id.name] \cup Partial[id.name] :
        IsSeq(out) /\ \A i \in DOMAIN out : out[i].chan \in Chan /\ out[i].chan # COMMAND
  BY LoopAssumption DEF IsSeq, CommandsOnly
<1>2. UpdatesOnly(id, <<Write("NO_WRITES", NullTask)>>, n)
  <2> DEFINE w == Write("NO_WRITES", NullTask)
  <2>1. w.chan = "NO_WRITES" /\ "NO_WRITES" # COMMAND
    BY LoopAssumption, AlgoAssumption DEF Write, ControlChan
  <2> HIDE DEF w
  <2>2. ToSet(<<w>>) = {w}
    BY DEF ToSet
  <2> QED
    BY <2>1, <2>2 DEF UpdatesOnly, UpdateOnly, w
<1> QED
  BY <1>1, <1>2, ResolveUpdates

LEMMA CommitUpdates ==
  ASSUME Work, UpdateWrites, NEW k \in DOMAIN tasks, NEW ws, Commit(k, ws),
         UpdatesOnly(tasks[k].id, ws, invocations)
  PROVE  UpdateWrites'
<1> DEFINE id == tasks[k].id
           p  == [ck |-> ck.id, id |-> id, writes |-> ws]
<1>1. /\ UNCHANGED <<stored, invocations>> /\ pend' = With(pend, id, ws)
      /\ puts' \subseteq puts \cup {p}
  BY DEF Commit, SubmitPut, storage, counters
<1>2. \A j \in DOMAIN tasks' : UpdatesOnly(tasks'[j].id, tasks'[j].writes, invocations)
  BY CommitTasks DEF UpdateWrites
<1>3. p.id = id /\ p.writes = ws
  OBVIOUS
<1> HIDE DEF id, p
<1>4. UpdatesOnly(id, ws, invocations)
  BY DEF id
<1>5. \A i \in DOMAIN pend' : UpdatesOnly(i, pend'[i], invocations)
  BY <1>1, <1>4 DEF With, UpdateWrites
<1>6. \A q \in puts' : UpdatesOnly(q.id, q.writes, invocations)
  BY <1>1, <1>3, <1>4 DEF UpdateWrites
<1> QED
  BY <1>1, <1>2, <1>5, <1>6 DEF UpdateWrites

(* Every step but an invocation leaves it at that.                         *)
LEMMA WritesStep ==
  ASSUME CommandsOnly, Ids, TInv, UpdateWrites, Step \/ Crash \/ RequestDrain \/ UNCHANGED vars
  PROVE  UpdateWrites' /\ UNCHANGED invocations
<1> USE DEF storage, loop, background, counters, observers
<1>0. Work
  BY DEF TInv
<1>1. UNCHANGED invocations
  BY DEF Step, Tick, RunTask, FailTask, Commit, Panic, Leave, AfterTick, Flushed, SaveCheckpoint,
         SaveWrites, LeaveLoop, Close, Crash, RequestDrain, vars
<1>2. CASE Tick
  <2> DEFINE ready   == PrepareNextTasks(ck, chans, updated)
             resumed == [k \in DOMAIN ready |-> Reapplied(ready[k])]
  <2>1. UNCHANGED <<stored, pend, puts>> /\ tasks' \in {tasks, ready, resumed}
    BY <1>2 DEF Tick
  <2>2. \A k \in DOMAIN ready : ProperTask(ready[k], ran) /\ ready[k].writes = <<>>
    BY PreparedProper DEF TInv, Memory
  <2> HIDE DEF ready
  <2>3. \A k \in DOMAIN ready : UpdatesOnly(ready[k].id, ready[k].writes, invocations)
    BY <2>2, NoTasks DEF UpdatesOnly
  <2>4. ASSUME NEW k \in DOMAIN ready
        PROVE  UpdatesOnly(Reapplied(ready[k]).id, Reapplied(ready[k]).writes, invocations)
    <3> DEFINE t  == ready[k]
               ws == PendOf(t.id)
               S  == {w \in ToSet(ws) : w.chan \notin {"ERROR", INTERRUPT, "RESUME"}}
               n  == Selected(ws, S)
    <3>1. t = [id |-> t.id, writes |-> t.writes]
      BY <2>2 DEF ProperTask
    <3>2. Reapplied(t).id = t.id /\ Reapplied(t).writes = n
      <4>1. Reapplied(t) = [t EXCEPT !.writes = n]
        BY DEF Reapplied
      <4> HIDE DEF n, t
      <4> QED
        BY <3>1, <4>1
    <3>3. ProperPut(t.id, ws, ran) /\ UpdatesOnly(t.id, ws, invocations)
      <4>1. ProperPut(t.id, <<>>, ran) /\ UpdatesOnly(t.id, <<>>, invocations)
        BY NoTasks DEF ProperPut, UpdatesOnly
      <4> QED
        BY <1>0, <4>1 DEF PendOf, Work, UpdateWrites
    <3> HIDE DEF ws
    <3>4. ToSet(n) \subseteq ToSet(ws)
      <4> HIDE DEF S
      <4> QED
        BY <3>3, PutParts
    <3> HIDE DEF n, t
    <3>5. UpdatesOnly(Reapplied(t).id, Reapplied(t).writes, invocations)
      BY <3>2, <3>3, <3>4 DEF UpdatesOnly
    <3> QED
      BY <3>5 DEF t
  <2> QED
    BY <1>1, <2>1, <2>3, <2>4 DEF UpdateWrites
<1>3. ASSUME NEW k \in DOMAIN tasks, RunTask(k) \/ FailTask(k) PROVE UpdateWrites'
  <2>1. tasks[k].id.name \in Node /\ tasks[k].id # NullTask
    BY <1>0, NullIsNoTask DEF Work, ProperTask
  <2>2. PICK ws : Commit(k, ws) /\ UpdatesOnly(tasks[k].id, ws, invocations)
    BY <1>3, <2>1, TaskUpdates DEF RunTask, FailTask
  <2> QED
    BY <1>0, <2>2, CommitUpdates
<1>4. CASE AfterTick
  <2>1. UNCHANGED <<stored, tasks, puts>> /\ pend' \in {pend, [i \in {} |-> <<>>]}
    BY <1>4 DEF AfterTick
  <2> QED
    BY <1>1, <2>1 DEF UpdateWrites
<1>5. CASE SaveWrites
  <2>1. PICK p \in puts : stored' = PutWrites(stored, p.ck, p.id, p.writes) /\ puts' = puts \ {p}
    BY <1>5 DEF SaveWrites
  <2>2. UNCHANGED <<tasks, pend>>
    BY <1>5 DEF SaveWrites
  <2>3. ProperStore(stored, nextId - 1, ran) /\ p.ck \in 0..nextId - 1 /\ ProperPut(p.id, p.writes, ran)
    BY <1>0 DEF Work
  <2>4. \A x \in DOMAIN stored' : \/ x \in DOMAIN stored /\ stored'[x] = stored[x]
                                  \/ x.id = p.id /\ stored'[x] \in ToSet(p.writes)
    BY <2>1, <2>3, PutWritesProper
  <2>5. \A x \in DOMAIN stored' : UpdateOnly(x.id, stored'[x], invocations)
    BY <2>4 DEF UpdateWrites, UpdatesOnly
  <2> QED
    BY <1>1, <2>1, <2>2, <2>5 DEF UpdateWrites
<1>6. CASE LeaveLoop
  <2>1. /\ UNCHANGED <<stored, tasks, pend>>
        /\ puts' \subseteq puts \cup {[ck |-> ck.id, id |-> i, writes |-> pend[i]] : i \in DOMAIN pend}
    BY <1>6 DEF LeaveLoop
  <2>2. \A p \in puts' : p \in puts \/ \E i \in DOMAIN pend : p.id = i /\ p.writes = pend[i]
    BY <2>1
  <2> QED
    BY <1>1, <2>1, <2>2 DEF UpdateWrites
<1>7. CASE Close \/ Crash
  <2>1. UNCHANGED stored /\ tasks' = <<>> /\ pend' = [i \in {} |-> <<>>] /\ puts' = {}
    BY <1>7 DEF Close, Crash, Forget
  <2> QED
    BY <1>1, <2>1, NoTasks DEF UpdateWrites
<1>8. CASE Panic \/ Flushed \/ SaveCheckpoint \/ RequestDrain \/ UNCHANGED vars
  <2>1. UNCHANGED <<stored, tasks, pend, puts>>
    BY <1>8 DEF Panic, CanPanic, Leave, Flushed, CanGoOn, SaveCheckpoint, RequestDrain, vars
  <2> QED
    BY <1>1, <2>1 DEF UpdateWrites
<1>9. UpdateWrites'
  BY <1>2, <1>3, <1>4, <1>5, <1>6, <1>7, <1>8 DEF Step
<1> QED
  BY <1>1, <1>9

(* What saves nothing and sends nothing leaves the updates where they are. *)
LEMMA SameUpdates ==
  ASSUME UpdateInv, UNCHANGED <<ckpts, stored, made, invocations>>,
         saves' = saves \/ saves' = <<>>,
         \A p \in puts' : p.id = NullTask => p \in puts, UpdateWrites',
         pc' \in {"tick", "run", "flush"} =>
           pc \in {"tick", "run", "flush"} /\ UNCHANGED <<ck, chans, cfg>>
  PROVE  UpdateInv'
<1>1. invocations \in Nat
  BY DEF UpdateInv
<1>2. \A ckid : Sent(stored', puts', ckid) \subseteq Sent(stored, puts, ckid)
  BY SentFewer
<1>3. Slotted(stored') /\ Fitting(stored', puts')
  BY DEF UpdateInv, Fitting
<1>4. ASSUME NEW rec, Updated(rec, stored, puts, invocations)
      PROVE  Updated(rec, stored', puts', invocations')
  BY <1>1, <1>2, <1>4, StillUpdated
<1>5. AllUpdated(ckpts', stored', puts', invocations')
  BY <1>4 DEF UpdateInv, AllUpdated
<1>6. AllUpdated(saves', stored', puts', invocations')
  BY <1>4, NoTasks DEF UpdateInv, AllUpdated
<1>7. pc' \in {"tick", "run", "flush"} => UpdatedLoop'
  BY <1>2 DEF UpdateInv, UpdatedLoop, Receives
<1> QED
  BY <1>1, <1>3, <1>5, <1>6, <1>7 DEF UpdateInv

(* after_tick hands on what the step had received.                         *)
LEMMA AfterUpdates ==
  ASSUME "exit" \notin Durabilities, Ids, TInv, UpdateInv, UpdateWrites', AfterTick
  PROVE  UpdateInv'
<1> DEFINE r     == ApplyWrites(ck, chans, tasks, <<>>)
           queue == Touched(saves, ConsumedBy(tasks, chans), r.chans)
<1>1. /\ pc = "run" /\ UNCHANGED <<ckpts, stored, puts, invocations, durability>>
      /\ chans' = r.chans
      /\ \/ saves' = queue /\ pc' = "exit" /\ UNCHANGED made
         \/ PutCheckpoint("loop", r, queue, step, ck.id, cfg)
  BY DEF AfterTick, CanProceed, Leave, storage
<1>2. /\ Memory /\ Work /\ Control /\ Records /\ durability # "exit" /\ invocations \in Nat
      /\ UpdatedLoop /\ ck.ver \in [Chan -> Nat]
  BY <1>1 DEF TInv, Control, Memory, UpdateInv
<1>3. Receives(r.chans, r.ver, ck.id, stored, puts, invocations) /\ r.ver \in [Chan -> Nat]
  <2>1. IsSeq(tasks)
    BY <1>2 DEF Work
  <2>2. ASSUME NEW k \in DOMAIN tasks PROVE Others(tasks[k].writes)
    <3>1. tasks[k].id # NullTask /\ IsSeq(tasks[k].writes)
      BY <1>2, NullIsNoTask DEF Work, ProperTask, ProperPut
    <3> QED
      BY <3>1 DEF UpdateInv, UpdateWrites, UpdatesOnly, UpdateOnly, Others
  <2>3. Others(<<>>)
    BY NoTasks DEF Others
  <2>4. KeepsUpdates(ApplyWrites(ck, chans, tasks, <<>>), ck.ver, chans)
    BY <2>1, <2>2, <2>3, ApplyKeeps
  <2>5. States(chans)
    BY <1>2, ProperStates DEF Memory
  <2>6. r.ver \in [Chan -> Nat]
    BY <1>2, <2>5, ApplyTracks
  <2> QED
    BY <1>2, <2>4, <2>6 DEF KeepsUpdates, UpdatedLoop, Receives
<1>4. IsSeq(queue) /\ AllUpdated(queue, stored, puts, invocations)
  <2>1. IsSeq(saves) /\ \A q \in DOMAIN saves : Shaped(saves[q]) /\ ProperSave(saves[q], ran)
    BY <1>2 DEF Ids, Records
  <2>2. /\ IsSeq(queue) /\ DOMAIN queue = DOMAIN saves
        /\ \A q \in DOMAIN saves : /\ queue[q].id = saves[q].id /\ queue[q].ver = saves[q].ver
                                   /\ queue[q].parent = saves[q].parent
                                   /\ queue[q].vals[COMMAND] = saves[q].vals[COMMAND]
    BY <2>1, TouchedUpdates
  <2> HIDE DEF queue
  <2>3. \A q \in DOMAIN saves : Updated(saves[q], stored, puts, invocations)
    BY DEF UpdateInv, AllUpdated
  <2>4. \A q \in DOMAIN saves : Updated(queue[q], stored, puts, invocations)
    BY <1>2, <2>2, <2>3, StillUpdated
  <2> QED
    BY <2>2, <2>4 DEF AllUpdated
<1> HIDE DEF queue
<1>5. Sent(stored, puts, nextId) = {} /\ ck.id \in 0..nextId - 1 /\ cfg = ck.id
  <2>1. nextId \in Nat /\ nextId >= nextId
    BY DEF Ids
  <2>2. Sent(stored, puts, nextId) = {}
    BY <1>2, <2>1, UnmadeSent
  <2> QED
    BY <1>2, <2>2 DEF Ids, UpdatedLoop
<1> HIDE DEF r
<1>6. CASE saves' = queue /\ pc' = "exit" /\ UNCHANGED made
  BY <1>1, <1>2, <1>4, <1>6 DEF UpdateInv
<1>7. CASE PutCheckpoint("loop", r, queue, step, ck.id, cfg)
  <2>1. /\ AllUpdated(saves', stored, puts, invocations) /\ NoneTwice(made')
        /\ cfg' = nextId /\ ck'.id = nextId /\ ck'.ver = r.ver
    <3>1. /\ durability' # "exit" /\ NoneTwice(made) /\ cfg \in 0..nextId - 1
          /\ Receives(r.chans, r.ver, cfg, stored, puts, invocations)
      BY <1>1, <1>2, <1>3, <1>5 DEF UpdateInv
    <3> QED
      BY <1>2, <1>3, <1>4, <1>5, <1>7, <3>1, PutUpdates
  <2>2. UpdatedLoop'
    BY <1>1, <1>3, <1>5, <2>1 DEF UpdatedLoop, Receives
  <2> QED
    BY <1>1, <1>2, <2>1, <2>2 DEF UpdateInv
<1> QED
  BY <1>1, <1>6, <1>7

(* A save that is performed is the record that waited.                     *)
LEMMA SaveUpdates ==
  ASSUME Ids, UpdateInv, UpdateWrites', SaveCheckpoint
  PROVE  UpdateInv'
<1> USE DEF loop, counters, observers
<1> DEFINE h == Head(saves)
           k == StoredForm(h)
           t == Tail(saves)
<1>1. /\ saves # <<>> /\ ckpts' = With(ckpts, h.id, k) /\ saves' = t
      /\ UNCHANGED <<stored, puts, made, invocations, pc, ck, chans, cfg>>
  BY DEF SaveCheckpoint
<1>2. /\ h = saves[1] /\ 1 \in DOMAIN saves
      /\ \A i \in DOMAIN t : t[i] = saves[i + 1] /\ i + 1 \in DOMAIN saves
  BY <1>1, SeqTail DEF Ids
<1>3. Shaped(h) /\ Updated(h, stored, puts, invocations) /\ invocations \in Nat
  BY <1>2 DEF Ids, UpdateInv, AllUpdated
<1>4. k.id = h.id /\ k.parent = h.parent /\ k.ver = h.ver /\ k.vals = h.vals
  BY <1>3, StoredFields DEF Fields
<1> HIDE DEF h, k, t
<1>5. Updated(k, stored, puts, invocations)
  BY <1>3, <1>4, StillUpdated
<1>6. AllUpdated(ckpts', stored, puts, invocations)
  BY <1>1, <1>5 DEF With, UpdateInv, AllUpdated
<1>7. AllUpdated(saves', stored, puts, invocations)
  BY <1>1, <1>2 DEF UpdateInv, AllUpdated
<1>8. pc' \in {"tick", "run", "flush"} => UpdatedLoop'
  BY <1>1 DEF UpdateInv, UpdatedLoop
<1> QED
  BY <1>1, <1>6, <1>7, <1>8 DEF UpdateInv

(* Writes that are stored take the slots the saver gives them.             *)
LEMMA StoreUpdates ==
  ASSUME TInv, UpdateInv, UpdateWrites', SaveWrites
  PROVE  UpdateInv'
<1> USE DEF loop, counters, observers
<1>1. PICK p \in puts : stored' = PutWrites(stored, p.ck, p.id, p.writes) /\ puts' = puts \ {p}
  BY DEF SaveWrites
<1>2. UNCHANGED <<ckpts, saves, made, invocations, pc, ck, chans, cfg>>
  BY DEF SaveWrites
<1>3. /\ ProperStore(stored, nextId - 1, ran) /\ p.ck \in 0..nextId - 1
      /\ ProperPut(p.id, p.writes, ran) /\ Slotted(stored) /\ Fitting(stored, puts)
      /\ invocations \in Nat
  BY DEF TInv, Work, UpdateInv
<1>4. p.id = NullTask => \A w \in ToSet(p.writes) : w.chan = COMMAND
  BY DEF UpdateInv, UpdateWrites, UpdatesOnly, UpdateOnly
<1>5. Slotted(stored') /\ Fitting(stored', puts')
  BY <1>1, <1>3, <1>4, PutSlots
<1>6. \A ckid : Sent(stored', puts', ckid) \subseteq Sent(stored, puts, ckid)
  <2>1. \A x \in DOMAIN stored' : \/ x \in DOMAIN stored /\ stored'[x] = stored[x]
                                  \/ /\ x.ck = p.ck /\ x.id = p.id
                                     /\ stored'[x] \in ToSet(p.writes)
    BY <1>1, <1>3, PutWritesProper
  <2>2. \A x \in DOMAIN stored' : x.id = NullTask =>
          \/ x \in DOMAIN stored /\ stored'[x] = stored[x]
          \/ \E q \in puts : /\ q.ck = x.ck /\ q.id = NullTask
                             /\ \E i \in DOMAIN q.writes : stored'[x] = q.writes[i]
    BY <2>1 DEF ToSet
  <2>3. \A q \in puts' : q.id = NullTask => q \in puts
    BY <1>1
  <2> QED
    BY <2>2, <2>3, SentFewer
<1>7. ASSUME NEW rec, Updated(rec, stored, puts, invocations)
      PROVE  Updated(rec, stored', puts', invocations)
  BY <1>3, <1>6, <1>7, StillUpdated
<1>8. /\ AllUpdated(ckpts', stored', puts', invocations)
      /\ AllUpdated(saves', stored', puts', invocations)
  BY <1>2, <1>7 DEF UpdateInv, AllUpdated
<1>9. pc' \in {"tick", "run", "flush"} => UpdatedLoop'
  BY <1>2, <1>6 DEF UpdateInv, UpdatedLoop, Receives
<1> QED
  BY <1>2, <1>3, <1>5, <1>8, <1>9 DEF UpdateInv

LEMMA UpdateInit == Init => UpdateInv
<1> SUFFICES ASSUME Init PROVE UpdateInv
  OBVIOUS
<1>1. /\ DOMAIN tasks = {} /\ DOMAIN pend = {} /\ puts = {} /\ DOMAIN stored = {}
      /\ DOMAIN ckpts = {} /\ DOMAIN saves = {} /\ DOMAIN made = {}
      /\ invocations = 0 /\ pc = "idle"
  BY NoTasks DEF Init
<1>2. UpdateWrites
  BY <1>1 DEF UpdateWrites
<1>3. Slotted(stored) /\ Fitting(stored, puts)
  BY <1>1 DEF Slotted, Fitting
<1>4. /\ AllUpdated(ckpts, stored, puts, invocations) /\ AllUpdated(saves, stored, puts, invocations)
      /\ NoneTwice(made)
  BY <1>1 DEF AllUpdated, NoneTwice
<1> QED
  BY <1>1, <1>2, <1>3, <1>4 DEF UpdateInv

LEMMA UpdateStep ==
  ASSUME CommandsOnly, PlainUpdates, "answer" \notin Requests, "exit" \notin Durabilities,
         QInv, TInv, UpdateInv, [Next]_vars
  PROVE  UpdateInv'
<1> USE DEF storage, loop, background, counters, observers
<1>0. Ids /\ Work /\ durability # "exit"
  BY DEF QInv, TInv, Control
<1>1. ASSUME NEW req \in Requests, NEW d \in Durabilities, Invoke(req, d) PROVE UpdateInv'
  BY <1>0, <1>1, InvokeUpdates
<1>2. ASSUME Step \/ Crash \/ RequestDrain \/ UNCHANGED vars
      PROVE  UpdateWrites' /\ UNCHANGED invocations
  <2>1. UpdateWrites
    BY DEF UpdateInv
  <2> QED
    BY <1>0, <1>2, <2>1, WritesStep
<1>3. ASSUME UpdateWrites', UNCHANGED invocations,
             NEW k \in DOMAIN tasks, RunTask(k) \/ FailTask(k)
      PROVE  UpdateInv'
  <2>1. PICK ws : Commit(k, ws)
    BY <1>3 DEF RunTask, FailTask
  <2>2. UNCHANGED <<pc, ckpts, stored, saves, made, ck, chans, cfg>>
    BY <2>1 DEF Commit
  <2>3. tasks[k].id # NullTask
    BY <1>0, NullIsNoTask
  <2>4. \A p \in puts' : p.id = NullTask => p \in puts
    BY <2>1, <2>3 DEF Commit, SubmitPut
  <2> QED
    BY <1>3, <2>2, <2>4, SameUpdates
<1>4. ASSUME UpdateWrites', AfterTick PROVE UpdateInv'
  BY <1>0, <1>4, AfterUpdates
<1>5. ASSUME UpdateWrites', SaveCheckpoint PROVE UpdateInv'
  BY <1>0, <1>5, SaveUpdates
<1>6. ASSUME UpdateWrites', SaveWrites PROVE UpdateInv'
  BY <1>6, StoreUpdates
<1>7. ASSUME UpdateWrites', UNCHANGED invocations,
             Tick \/ Panic \/ Flushed \/ LeaveLoop \/ Close \/ Crash \/ RequestDrain \/ UNCHANGED vars
      PROVE  UpdateInv'
  <2>1. UNCHANGED <<ckpts, stored, made>>
    BY <1>7 DEF Tick, Panic, Leave, Flushed, LeaveLoop, Close, Crash, RequestDrain, vars
  <2>2. (saves' = saves /\ puts' = puts) \/ (saves' = <<>> /\ puts' = {})
    BY <1>0, <1>7 DEF Tick, Panic, Leave, Flushed, LeaveLoop, Close, Crash, Forget, RequestDrain, vars
  <2>3. pc' \in {"tick", "run", "flush"} =>
          pc \in {"tick", "run", "flush"} /\ UNCHANGED <<ck, chans, cfg>>
    BY <1>7 DEF Tick, Panic, CanPanic, Leave, Flushed, CanGoOn, LeaveLoop, Close, Crash, Forget,
                RequestDrain, vars
  <2> QED
    BY <1>7, <2>1, <2>2, <2>3, SameUpdates
<1>8. ASSUME UpdateWrites', UNCHANGED invocations,
             Step \/ Crash \/ RequestDrain \/ UNCHANGED vars
      PROVE  UpdateInv'
  BY <1>3, <1>4, <1>5, <1>6, <1>7, <1>8 DEF Step
<1> QED
  BY <1>1, <1>2, <1>8 DEF Next

LEMMA UpdatesAreOnce == ASSUME Ids, UpdateInv PROVE CommandsOnce
<1>1. ASSUME NEW id \in DOMAIN ckpts
      PROVE  StoredUpdates(ckpts[id].parent) \subseteq Held(ckpts[id], COMMAND)
  <2> DEFINE rec == ckpts[id]
  <2>1. Updated(rec, stored, puts, invocations)
    BY DEF UpdateInv, AllUpdated
  <2>2. Held(rec, COMMAND) = ToSet(Received(rec))
    BY <2>1, ReceivedFacts DEF Updated
  <2>3. StoredUpdates(rec.parent) \subseteq Sent(stored, puts, rec.parent)
    BY DEF StoredUpdates, Sent
  <2> QED
    BY <2>1, <2>2, <2>3 DEF Updated
<1>2. \A id \in DOMAIN made : IsInjective(HeldSeq(made[id], COMMAND))
  BY DEF UpdateInv, NoneTwice
<1> QED
  BY <1>1, <1>2 DEF CommandsOnce

(* The update of a Command is applied once, whenever it is loaded again:   *)
(* each checkpoint has the updates that were stored for its parent, and no *)
(* update is stored for a checkpoint that has it (put_writes, _first).     *)
(* This needs two things of the clients.  With a value that resumes an     *)
(* interrupt, which takes a place in the list of writes, updates change    *)
(* their slots, and one is stored twice or lost.  With durability "exit"   *)
(* the updates that were loaded are stored again on the way out, under the *)
(* checkpoint that has them.                                               *)
THEOREM CommandsTakeEffectOnce ==
  ASSUME CommandsOnly, PlainUpdates, "answer" \notin Requests, "exit" \notin Durabilities
  PROVE  Spec => []CommandsOnce
<1>1. QInv /\ TInv /\ UpdateInv /\ [Next]_vars => UpdateInv'
  BY UpdateStep
<1>2. QInv /\ UpdateInv => CommandsOnce
  BY UpdatesAreOnce DEF QInv
<1> QED
  BY <1>1, <1>2, UpdateInit, TypesInductive, OrderInductive, PTL DEF Spec
===============================================================================
