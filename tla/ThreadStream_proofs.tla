-------------------------- MODULE ThreadStream_proofs --------------------------
(***************************************************************************)
(* Theorems about the thread streams of the SDK.                           *)
(*                                                                         *)
(* Filters: filter_covers is sound, and compute_union_filter covers every  *)
(* filter it is given, for filters whose list of namespaces, when there is *)
(* one, is not empty: namespace_matches takes an empty list for "all",     *)
(* filter_covers takes it for "none".                                      *)
(*                                                                         *)
(* Order: an iterator gets the events of a channel in the order of the     *)
(* server and none twice.  It holds because every stream has a flat filter *)
(* (the union always has the lifecycle channel of the whole thread), so a  *)
(* channel is on a stream with all of its events or with none of them.     *)
(***************************************************************************)
EXTENDS ThreadStream, Facts

\* A segment, a namespace, an event and a filter over the channels C, the
\* names N and the task ids I.
SegmentOf(N, I) == [name : N, id : I \cup {ABSENT}]
NamespaceOf(N, I) == Seq(SegmentOf(N, I))
FilterIn(C, N, I) ==
  [channels : SUBSET C,
   namespaces : ((SUBSET NamespaceOf(N, I)) \ {{}}) \cup {ABSENT},
   depth : Nat \cup {ABSENT}]

\* A namespace starts with itself.
LEMMA PrefixReflexive ==
  ASSUME NEW N, NEW I, NEW p \in NamespaceOf(N, I)
  PROVE  is_prefix_match(p, p)
BY DEF is_prefix_match, NamespaceOf

\* is_prefix_match is transitive, the stripping of task ids included: a prefix
\* without a task id stands for every segment of that name.
LEMMA PrefixTransitive ==
  ASSUME NEW N, NEW I,
         NEW e \in NamespaceOf(N, I), NEW tp \in NamespaceOf(N, I),
         NEW cp \in NamespaceOf(N, I),
         is_prefix_match(e, tp), is_prefix_match(tp, cp)
  PROVE  is_prefix_match(e, cp)
<1>1. Len(e) \in Nat /\ Len(tp) \in Nat /\ Len(cp) \in Nat
  BY DEF NamespaceOf
<1>2. Len(cp) <= Len(tp) /\ Len(tp) <= Len(e)
  BY DEF is_prefix_match
<1>3. ASSUME NEW i \in 1..Len(cp)
      PROVE  \/ e[i] = cp[i]
             \/ cp[i].id = ABSENT /\ normalize_segment(e[i]) = cp[i]
  <2>1. i \in 1..Len(tp) /\ i \in 1..Len(e)
    BY <1>1, <1>2
  <2>2. /\ e[i] \in SegmentOf(N, I)
        /\ tp[i] \in SegmentOf(N, I)
        /\ cp[i] \in SegmentOf(N, I)
    BY <2>1 DEF NamespaceOf
  <2>3. \/ e[i] = tp[i]
        \/ tp[i].id = ABSENT /\ normalize_segment(e[i]) = tp[i]
    BY <2>1 DEF is_prefix_match
  <2>4. \/ tp[i] = cp[i]
        \/ cp[i].id = ABSENT /\ normalize_segment(tp[i]) = cp[i]
    BY <2>1 DEF is_prefix_match
  <2>5. tp[i].id = ABSENT => normalize_segment(tp[i]) = tp[i]
    BY <2>2 DEF normalize_segment, SegmentOf
  <2> QED
    BY <2>3, <2>4, <2>5
<1> QED
  BY <1>1, <1>2, <1>3 DEF is_prefix_match

\* filter_covers is sound: what matches a filter matches every filter that
\* covers it, so a subscription that finds itself covered (_reconcile_stream
\* returns early) misses nothing on the shared stream.
THEOREM CoverIsSound ==
  ASSUME NEW C, NEW N, NEW I,
         NEW coverer \in FilterIn(C, N, I), NEW target \in FilterIn(C, N, I),
         NEW event, event.namespace \in NamespaceOf(N, I),
         filter_covers(coverer, target),
         matches_subscription(event, target)
  PROVE  matches_subscription(event, coverer)
<1>1. \/ event.channel \in coverer.channels
      \/ event.channel \in Extensions /\ CUSTOM \in coverer.channels
  BY DEF filter_covers, matches_subscription
<1>2. CASE coverer.namespaces = ABSENT
  BY <1>1, <1>2 DEF matches_subscription, namespace_matches
<1>3. CASE coverer.namespaces # ABSENT
  <2>1. /\ target.namespaces # ABSENT
        /\ target.namespaces \in (SUBSET NamespaceOf(N, I)) \ {{}}
        /\ coverer.namespaces \in (SUBSET NamespaceOf(N, I)) \ {{}}
    BY <1>3 DEF filter_covers, FilterIn
  <2>2. PICK tp \in target.namespaces :
          /\ is_prefix_match(event.namespace, tp)
          /\ target.depth # ABSENT => Len(event.namespace) - Len(tp) <= target.depth
    <3>1. target.namespaces \notin {ABSENT, {}}
      BY <2>1
    <3>2. namespace_matches(event.namespace, target.namespaces, target.depth)
      BY DEF matches_subscription
    <3> QED
      BY <3>1, <3>2 DEF namespace_matches
  <2>3. PICK cp \in coverer.namespaces :
          /\ is_prefix_match(tp, cp)
          /\ coverer.depth # ABSENT =>
               /\ target.depth # ABSENT
               /\ Len(tp) - Len(cp) + target.depth <= coverer.depth
    BY <1>3, <2>1 DEF filter_covers
  <2>4. /\ tp \in NamespaceOf(N, I)
        /\ cp \in NamespaceOf(N, I)
    BY <2>1
  <2>5. is_prefix_match(event.namespace, cp)
    BY <2>2, <2>3, <2>4, PrefixTransitive
  <2>6. coverer.depth # ABSENT => Len(event.namespace) - Len(cp) <= coverer.depth
    <3>1. /\ Len(event.namespace) \in Nat
          /\ Len(tp) \in Nat
          /\ Len(cp) \in Nat
      BY <2>4 DEF NamespaceOf
    <3>2. target.depth \in Nat \cup {ABSENT} /\ coverer.depth \in Nat \cup {ABSENT}
      BY DEF FilterIn
    <3> QED
      BY <2>2, <2>3, <3>1, <3>2
  <2>7. namespace_matches(event.namespace, coverer.namespaces, coverer.depth)
    BY <2>5, <2>6 DEF namespace_matches
  <2> QED
    BY <1>1, <2>7 DEF matches_subscription
<1> QED
  BY <1>2, <1>3

\* If the filters all bound their depth and one of them is the deepest, its
\* depth is what Deepest chooses.
LEMMA DeepestIsDeepest ==
  ASSUME NEW depths, NEW deepest \in depths, \A d \in depths : d <= deepest
  PROVE  Deepest(depths) \in depths /\ \A d \in depths : d <= Deepest(depths)
BY DEF Deepest

\* The union of filters covers each of them (compute_union_filter: "covering
\* every input"; the filters are a finite set, so one of them is the deepest), so
\* the stream that a rotation opens carries what every registered subscription
\* asked for.
THEOREM UnionCovers ==
  ASSUME NEW C, NEW N, NEW I, NEW filters \in SUBSET FilterIn(C, N, I),
         \E g \in filters : \/ g.depth = ABSENT
                            \/ \A h \in filters : h.depth <= g.depth,
         NEW f \in filters
  PROVE  filter_covers(compute_union_filter(filters), f)
<1> DEFINE union == compute_union_filter(filters)
           namespaces == {g.namespaces : g \in filters}
           depths == {g.depth : g \in filters}
<1>1. f.channels \subseteq union.channels
  BY DEF compute_union_filter
<1>2. union.depth # ABSENT => f.depth # ABSENT /\ f.depth \in Nat /\ union.depth \in Nat /\ f.depth <= union.depth
  <2>1. SUFFICES ASSUME ABSENT \notin depths
                 PROVE  /\ f.depth # ABSENT /\ f.depth \in Nat
                        /\ Deepest(depths) \in Nat /\ f.depth <= Deepest(depths)
    BY DEF compute_union_filter
  <2>2. depths \in SUBSET Nat /\ f.depth \in depths
    BY <2>1 DEF FilterIn
  <2>3. PICK g \in filters : \A h \in filters : h.depth <= g.depth
    BY <2>1
  <2>4. g.depth \in depths /\ \A d \in depths : d <= g.depth
    BY <2>3
  <2>5. /\ Deepest(depths) \in depths
        /\ \A d \in depths : d <= Deepest(depths)
    BY <2>4, DeepestIsDeepest
  <2> QED
    BY <2>1, <2>2, <2>5
<1>3. CASE union.namespaces = ABSENT
  BY <1>1, <1>2, <1>3 DEF filter_covers
<1>4. CASE union.namespaces # ABSENT
  <2>1. /\ ABSENT \notin namespaces
        /\ union.namespaces = UNION namespaces
    BY <1>4 DEF compute_union_filter
  <2>2. /\ f.namespaces # ABSENT
        /\ f.namespaces \in SUBSET NamespaceOf(N, I)
        /\ f.namespaces \subseteq union.namespaces
    BY <2>1 DEF FilterIn
  <2>3. ASSUME NEW tp \in f.namespaces
        PROVE  \E cp \in union.namespaces :
                 /\ is_prefix_match(tp, cp)
                 /\ union.depth # ABSENT =>
                      /\ f.depth # ABSENT
                      /\ Len(tp) - Len(cp) + f.depth <= union.depth
    <3>1. is_prefix_match(tp, tp)
      BY <2>2, PrefixReflexive
    <3>2. Len(tp) \in Nat
      BY <2>2 DEF NamespaceOf
    <3>3. union.depth # ABSENT => f.depth # ABSENT /\ Len(tp) - Len(tp) + f.depth <= union.depth
      BY <1>2, <3>2
    <3> QED
      BY <2>2, <3>1, <3>3
  <2> QED
    BY <1>1, <1>4, <2>2, <2>3 DEF filter_covers
<1> QED
  BY <1>3, <1>4


(* ----------------------------- the thread stream -------------------------- *)

\* The channels that somebody asks for, and the filters of streams: all of them
\* are flat, since _compute_current_union always adds the lifecycle channel
\* without namespaces or depth, which then holds of the union.
Wanted == (UNION {FilterOf[c].channels : c \in Client}) \cup {"lifecycle", "input"}
FlatFilter == [channels : SUBSET Wanted, namespaces : {ABSENT}, depth : {ABSENT}]
StreamStates == {"connecting", "open", "failed", "dropped", "eof", "closed", "lost"}
StreamRecord == [filter : FlatFilter, at : Nat, state : StreamStates]
FanRecord == [pc : FanStates, at : Nat, await : Nat, base : FlatFilter, tries : Nat]
ClientRecord ==
  [pc : {"out", "gate", "ready", "iter"}, await : Nat, old : Nat, from : Nat,
   got : Seq(Nat), start : Nat, ended : BOOLEAN]

\* The types, by the parts of the system.
ServerT == emitted \in 0..Len(Script) /\ answered \subseteq Seq_
StreamsT ==
  streams \in Seq(StreamRecord) /\ \A s \in Streams : streams[s].at \in 0..Len(Script)
SharesT ==
  /\ shared \in 0..Len(streams) /\ sharedFilter \in FlatFilter
  /\ cursor \in 0..emitted /\ seen \subseteq 1..emitted
FanT ==
  /\ fan \in FanRecord /\ fan.at \in 0..Len(streams)
  /\ fan.pc = "opening" => fan.await \in Streams \ {shared}
ClientsT ==
  /\ cli \in [Client -> ClientRecord] /\ round \in [Client -> Nat]
  /\ \A c \in Client : /\ cli[c].pc = "ready" => cli[c].await \in Streams
                       /\ \A k \in DOMAIN cli[c].got : cli[c].got[k] \in 1..emitted
WatcherT ==
  /\ watch \in [pc : {"open", "read", "sleep", "over"}, at : Nat, tries : Nat]
  /\ watch.at \in Streams /\ lcursor \in 0..emitted
  /\ interrupts \subseteq 1..emitted /\ interrupted \in BOOLEAN
  /\ interrupted <=> interrupts # {}
  /\ runDone \in {"pending", "completed", "errored", "cancelled"}
CommandsT ==
  /\ gate \in {"none", "pending", "started", "failed"}
  /\ asking \in 0..emitted /\ acked \in Nat
  /\ asking \in interrupts \cup {0} \/ runDone # "pending"
RestT == closing \in {"no", "begun", "over"} /\ faults \in Nat
\* The watcher's stream is its own, a stream that is being reopened is not the
\* one that is read, and where one is read or waited for there is one.
Apart ==
  /\ watch.at \notin {fan.at, shared}
  /\ fan.pc = "opening" => fan.await \notin {fan.at, watch.at}
  /\ fan.pc # "none" => shared # 0
  /\ fan.pc \in {"read", "done"} => fan.at # 0
  /\ \A c \in Client : cli[c].pc = "ready" => shared # 0

TInv == /\ ServerT /\ StreamsT /\ SharesT /\ FanT /\ ClientsT /\ WatcherT /\ CommandsT
        /\ RestT /\ Apart

\* The streams that the fan-out reads or may turn to.
Readable == {s \in Streams : s \in {fan.at, shared} \/ (fan.pc = "opening" /\ s = fan.await)}
Carries(s, i) == matches_subscription(Script[i], streams[s].filter)
Owed(s, i) == i > streams[s].at /\ Carries(s, i)

\* Until close(), no event seen and no stream to be read is ahead of the cursor.
Behind ==
  ~Closed => /\ \A i \in seen : i <= cursor
             /\ \A s \in Readable : streams[s].at <= cursor
\* What a client was handed has been seen.
GotSeen == \A c \in Client : \A k \in DOMAIN cli[c].got : cli[c].got[k] \in seen
\* No stream still owes an event that is older than one seen of its channel.
NoneOverdue ==
  ~Closed => \A s \in Readable : \A i \in Seq_ \ seen : \A j \in seen :
               i < j /\ Script[i].channel = Script[j].channel => ~Owed(s, i)
\* What the stream that is read has passed over, no later one hands over.
NoneRevived ==
  ~Closed => \A t \in Readable \ {fan.at} : \A i \in Seq_ \ seen :
               fan.at \in Streams /\ Carries(fan.at, i) /\ i <= streams[fan.at].at
                 => ~Owed(t, i)

OInv == Behind /\ GotSeen /\ NoneOverdue /\ NoneRevived
SInv == OInv /\ ChannelOrder

LEMMA TypesKnown == TInv => TypeOK
<1> SUFFICES ASSUME TInv PROVE TypeOK
  OBVIOUS
<1> USE DEF TInv
<1>1. \A s \in Streams : streams[s].at \in 0..Len(Script) /\ streams[s].state \in StreamStates
  <2>1. ASSUME NEW s \in Streams PROVE streams[s] \in StreamRecord
    BY DEF StreamsT, Streams
  <2> QED
    BY <2>1 DEF StreamsT, StreamRecord
<1>2. fan.pc \in FanStates /\ fan.at \in 0..Len(streams)
  BY DEF FanT, FanRecord
<1>3. \A c \in Client : cli[c].pc \in {"out", "gate", "ready", "iter"}
  BY DEF ClientsT, ClientRecord
<1>4. watch.pc \in {"open", "read", "sleep", "over"}
  BY DEF WatcherT
<1> QED
  BY <1>1, <1>2, <1>3, <1>4
  DEF TypeOK, ServerT, StreamsT, SharesT, FanT, ClientsT, WatcherT, CommandsT, StreamStates

\* A union with the lifecycle filter is flat.
LEMMA UnionFlat ==
  ASSUME NEW D \in SUBSET Client
  PROVE  compute_union_filter({FilterOf[d] : d \in D} \cup {Lifecycle}) \in FlatFilter
<1> DEFINE fs == {FilterOf[d] : d \in D} \cup {Lifecycle}
<1>1. Lifecycle \in fs /\ Lifecycle.namespaces = ABSENT /\ Lifecycle.depth = ABSENT
  BY DEF Lifecycle
<1>2. ABSENT \in {f.namespaces : f \in fs} /\ ABSENT \in {f.depth : f \in fs}
  BY <1>1
<1>3. UNION {f.channels : f \in fs} \subseteq Wanted
  BY DEF Wanted, Lifecycle
<1> QED
  BY <1>2, <1>3 DEF compute_union_filter, FlatFilter

LEMMA FlatFilters ==
  NoFilter \in FlatFilter /\ LifecycleInput \in FlatFilter
BY DEF NoFilter, LifecycleInput, Lifecycle, FlatFilter, Wanted

\* A stream that is opened takes the next place.
LEMMA OpenedFacts ==
  ASSUME NEW strs \in Seq(StreamRecord), NEW f \in FlatFilter, NEW p \in Nat
  PROVE  LET new == Append(strs, Opened(f, p))
         IN  /\ new \in Seq(StreamRecord) /\ Len(new) = Len(strs) + 1
             /\ Len(strs) \in Nat /\ DOMAIN strs = 1..Len(strs)
             /\ DOMAIN new = 1..Len(strs) + 1
             /\ \A s \in DOMAIN strs : new[s] = strs[s]
             /\ new[Len(strs) + 1] = Opened(f, p)
             /\ Opened(f, p).at = p /\ Opened(f, p).filter = f
<1>1. Opened(f, p) \in StreamRecord
  BY DEF Opened, StreamRecord, StreamStates
<1> QED
  BY <1>1 DEF Opened

\* What one stream does changes its own record only.
LEMMA StreamFacts ==
  ASSUME NEW strs \in Seq(StreamRecord), NEW s \in DOMAIN strs
  PROVE  /\ \A state \in StreamStates :
              LET new == [strs EXCEPT ![s].state = state]
              IN  /\ new \in Seq(StreamRecord) /\ DOMAIN new = DOMAIN strs
                  /\ Len(new) = Len(strs)
                  /\ \A r \in DOMAIN strs : /\ new[r].at = strs[r].at
                                            /\ new[r].filter = strs[r].filter
         /\ \A i \in Nat :
              LET new == [strs EXCEPT ![s].at = i]
              IN  /\ new \in Seq(StreamRecord) /\ DOMAIN new = DOMAIN strs
                  /\ Len(new) = Len(strs) /\ new[s].at = i
                  /\ new[s].filter = strs[s].filter
                  /\ \A r \in DOMAIN strs \ {s} : new[r] = strs[r]
<1>1. strs[s] \in StreamRecord /\ Len(strs) \in Nat /\ DOMAIN strs = 1..Len(strs)
  OBVIOUS
<1>2. \A r \in DOMAIN strs : strs[r] \in StreamRecord
  OBVIOUS
<1>3. ASSUME NEW state \in StreamStates
      PROVE  [strs EXCEPT ![s].state = state] \in Seq(StreamRecord)
  BY <1>1, <1>2 DEF StreamRecord
<1>4. ASSUME NEW i \in Nat
      PROVE  [strs EXCEPT ![s].at = i] \in Seq(StreamRecord)
  BY <1>1, <1>2 DEF StreamRecord
<1>5. ASSUME NEW state \in StreamStates, NEW r \in DOMAIN strs
      PROVE  LET new == [strs EXCEPT ![s].state = state]
             IN  new[r].at = strs[r].at /\ new[r].filter = strs[r].filter
  BY <1>1, <1>2 DEF StreamRecord
<1>6. ASSUME NEW i \in Nat
      PROVE  LET new == [strs EXCEPT ![s].at = i]
             IN  /\ new[s].at = i /\ new[s].filter = strs[s].filter
                 /\ \A r \in DOMAIN strs \ {s} : new[r] = strs[r]
  BY <1>1, <1>2 DEF StreamRecord
<1>7. /\ \A state : /\ DOMAIN [strs EXCEPT ![s].state = state] = DOMAIN strs
                    /\ [strs EXCEPT ![s].state = state] \in Seq(StreamRecord)
                         => Len([strs EXCEPT ![s].state = state]) = Len(strs)
      /\ \A i : /\ DOMAIN [strs EXCEPT ![s].at = i] = DOMAIN strs
                /\ [strs EXCEPT ![s].at = i] \in Seq(StreamRecord)
                     => Len([strs EXCEPT ![s].at = i]) = Len(strs)
  BY <1>1
<1> QED
  BY <1>3, <1>4, <1>5, <1>6, <1>7

\* A closed handle carries nothing any more.
LEMMA ClosedFacts ==
  ASSUME NEW strs \in Seq(StreamRecord), NEW S
  PROVE  LET new == ClosedIn(strs, S)
         IN  /\ new \in Seq(StreamRecord) /\ DOMAIN new = DOMAIN strs
             /\ Len(new) = Len(strs)
             /\ \A s \in DOMAIN strs : \/ new[s] = strs[s]
                                       \/ new[s].at = 0 /\ new[s].filter = NoFilter
<1> DEFINE new == ClosedIn(strs, S)
<1>1. Len(strs) \in Nat /\ DOMAIN strs = 1..Len(strs)
  OBVIOUS
<1>2. DOMAIN new = DOMAIN strs
  BY DEF ClosedIn
<1>3. ASSUME NEW s \in DOMAIN strs
      PROVE  /\ new[s] \in StreamRecord
             /\ \/ new[s] = strs[s]
                \/ new[s].at = 0 /\ new[s].filter = NoFilter
  <2> DEFINE off == [filter |-> NoFilter, at |-> 0,
                     state |-> IF strs[s].state = "open" THEN "closed" ELSE "lost"]
  <2>1. strs[s] \in StreamRecord
    OBVIOUS
  <2>2. off \in StreamRecord /\ off.at = 0 /\ off.filter = NoFilter
    BY FlatFilters DEF StreamRecord, StreamStates
  <2>3. new[s] = strs[s] \/ new[s] = off
    BY DEF ClosedIn
  <2> QED
    BY <2>1, <2>2, <2>3
<1>4. new = [s \in 1..Len(strs) |-> new[s]]
  BY <1>1 DEF ClosedIn
<1>5. new \in Seq(StreamRecord)
  BY <1>1, <1>2, <1>3, <1>4
<1> QED
  BY <1>1, <1>2, <1>3, <1>5

LEMMA NextFacts ==
  ASSUME TInv, NEW s \in Streams, ~CaughtUp(s)
  PROVE  /\ NextOf(s) \in Matching(s) /\ \A j \in Matching(s) : NextOf(s) <= j
         /\ NextOf(s) \in 1..emitted /\ NextOf(s) \in Seq_ /\ NextOf(s) \in Nat
<1>1. Matching(s) \in SUBSET Nat /\ Matching(s) # {}
  BY DEF CaughtUp, Matching, TInv, ServerT
<1>2. \E i \in Matching(s) : \A j \in Matching(s) : i <= j
  BY <1>1, Least
<1>3. NextOf(s) \in Matching(s) /\ \A j \in Matching(s) : NextOf(s) <= j
  BY <1>2 DEF NextOf
<1> QED
  BY <1>3 DEF Matching, TInv, ServerT, Seq_

LEMMA OutFacts ==
  ASSUME NEW g \in Seq(Nat)
  PROVE  Out(g) \in ClientRecord /\ Out(g).pc = "out" /\ Out(g).got = g /\ ~Out(g).ended
BY DEF Out, ClientRecord

LEMMA TypesInit == Init => TInv
<1> SUFFICES ASSUME Init PROVE TInv
  OBVIOUS
<1> USE DEF Init
<1>1. streams = <<[filter |-> LifecycleInput, at |-> 0, state |-> "open"]>>
  BY DEF Opened
<1>2. StreamsT /\ Len(streams) = 1 /\ Streams = {1}
  <2>1. streams[1] \in StreamRecord /\ streams[1].at = 0
    BY <1>1, FlatFilters DEF StreamRecord, StreamStates
  <2>2. streams \in Seq(StreamRecord) /\ Len(streams) = 1 /\ DOMAIN streams = {1}
    BY <1>1, <2>1
  <2> QED
    BY <2>1, <2>2, StreamAssumption DEF StreamsT, Streams
<1>3. FanT
  BY FlatFilters, <1>2 DEF FanT, FanRecord, FanStates
<1>4. ClientsT
  <2>1. \A c \in Client : cli[c] \in ClientRecord /\ cli[c].pc = "out" /\ cli[c].got = <<>>
    <3>1. <<>> \in Seq(Nat)
      OBVIOUS
    <3>2. \A c \in Client : cli[c] = Out(<<>>)
      OBVIOUS
    <3> QED
      BY <3>1, <3>2, OutFacts
  <2>2. \A c \in Client : DOMAIN cli[c].got = {}
    BY <2>1
  <2> QED
    BY <2>1, <2>2 DEF ClientsT
<1>5. ServerT /\ SharesT /\ CommandsT /\ RestT
  BY <1>2, FlatFilters, StreamAssumption DEF ServerT, SharesT, CommandsT, RestT
<1>6. WatcherT
  <2>1. watch \in [pc : {"open", "read", "sleep", "over"}, at : Nat, tries : Nat] /\ watch.at = 1
    OBVIOUS
  <2>2. lcursor \in 0..emitted /\ interrupts = {} /\ interrupted = FALSE
    OBVIOUS
  <2> QED
    BY <1>2, <2>1, <2>2 DEF WatcherT
<1>7. Apart
  <2>1. \A c \in Client : cli[c].pc = "out"
    BY DEF Out
  <2> QED
    BY <2>1 DEF Apart
<1> QED
  BY <1>2, <1>3, <1>4, <1>5, <1>6, <1>7 DEF TInv

LEMMA TypesEmit == TInv /\ Emit => TInv'
BY StreamAssumption
DEF TInv, ServerT, StreamsT, SharesT, FanT, ClientsT, WatcherT, CommandsT, RestT, Apart, Emit,
    shares, clients, watcher, commands, Streams, Seq_

LEMMA TypesStream ==
  ASSUME TInv, NEW s \in Streams, Connect(s) \/ ConnectFails(s) \/ Drop(s) \/ Hangup(s)
  PROVE  TInv'
<1>1. PICK state \in StreamStates : streams' = [streams EXCEPT ![s].state = state]
  BY DEF Connect, ConnectFails, Drop, Hangup, StreamStates
<1>2. /\ streams' \in Seq(StreamRecord) /\ DOMAIN streams' = DOMAIN streams
      /\ Len(streams') = Len(streams)
      /\ \A r \in DOMAIN streams : streams'[r].at = streams[r].at
  BY <1>1, StreamFacts DEF TInv, StreamsT, Streams
<1>3. faults' \in Nat
  BY DEF TInv, RestT, Connect, ConnectFails, Drop, Hangup, Fault
<1>4. UNCHANGED <<server, shared, sharedFilter, cursor, seen, fan, clients,
                  watcher, commands, closing>>
  BY DEF Connect, ConnectFails, Drop, Hangup
<1> USE DEF TInv
<1>5. ServerT' /\ SharesT' /\ CommandsT' /\ RestT'
  BY <1>2, <1>3, <1>4
  DEF ServerT, SharesT, CommandsT, RestT, server, commands, watcher
<1>6. StreamsT'
  BY <1>2 DEF StreamsT, Streams
<1>7. FanT'
  BY <1>2, <1>4 DEF FanT, Streams
<1>8. ClientsT'
  BY <1>2, <1>4 DEF ClientsT, Streams, clients, server
<1>9. WatcherT' /\ Apart'
  <2>1. UNCHANGED <<watch, lcursor, interrupts, interrupted, runDone, emitted, fan, shared, cli>>
    BY <1>4 DEF watcher, server, clients
  <2>2. WatcherT'
    BY <1>2, <2>1 DEF WatcherT, Streams
  <2>3. Apart'
    BY <2>1 DEF Apart
  <2> QED
    BY <2>2, <2>3
<1> QED
  BY <1>5, <1>6, <1>7, <1>8, <1>9

\* _signal_paused only marks clients.
LEMMA SignalledFacts ==
  ASSUME NEW clis \in [Client -> ClientRecord]
  PROVE  /\ Signalled(clis) \in [Client -> ClientRecord]
         /\ \A c \in Client : LET new == Signalled(clis)[c]
                              IN  /\ new.got = clis[c].got /\ new.pc = clis[c].pc
                                  /\ new.await = clis[c].await /\ new.from = clis[c].from
                                  /\ new.old = clis[c].old
                                  /\ new.ended \in {clis[c].ended, TRUE}
                                  /\ new.pc # "out" => new.ended
BY DEF Signalled, ClientRecord

LEMMA PushedFacts ==
  ASSUME cli \in [Client -> ClientRecord], NEW i \in Nat
  PROVE  /\ Pushed(i) \in [Client -> ClientRecord]
         /\ \A c \in Client : LET new == Pushed(i)[c]
                              IN  /\ new.pc = cli[c].pc /\ new.await = cli[c].await
                                  /\ new.from = cli[c].from /\ new.ended = cli[c].ended
                                  /\ new.old = cli[c].old
                                  /\ \/ new.got = cli[c].got
                                     \/ new.got = Append(cli[c].got, i)
                                  /\ Subscribed(c) /\ ~cli[c].ended
                                       /\ matches_subscription(Script[i], FilterOf[c])
                                     => new.got = Append(cli[c].got, i)
<1>1. \A c \in Client : cli[c].got \in Seq(Nat) /\ Append(cli[c].got, i) \in Seq(Nat)
  BY DEF ClientRecord
<1> DEFINE Gets(c) == Subscribed(c) /\ ~cli[c].ended
                        /\ matches_subscription(Script[i], FilterOf[c])
<1>2. ASSUME NEW c \in Client
      PROVE  Pushed(i)[c] = IF Gets(c) THEN [cli[c] EXCEPT !.got = Append(cli[c].got, i)]
                            ELSE cli[c]
  BY DEF Pushed
<1>3. ASSUME NEW c \in Client
      PROVE  LET new == [cli[c] EXCEPT !.got = Append(cli[c].got, i)]
             IN  /\ new \in ClientRecord /\ new.pc = cli[c].pc /\ new.await = cli[c].await
                 /\ new.from = cli[c].from /\ new.ended = cli[c].ended
                 /\ new.old = cli[c].old /\ new.got = Append(cli[c].got, i)
  BY <1>1 DEF ClientRecord
<1>4. Pushed(i) = [c \in Client |-> Pushed(i)[c]]
  BY DEF Pushed
<1>5. ASSUME NEW c \in Client PROVE cli[c] \in ClientRecord
  OBVIOUS
<1> HIDE DEF Gets
<1>6. \A c \in Client : Pushed(i)[c] \in ClientRecord
  BY <1>2, <1>3, <1>5
<1>7. Pushed(i) \in [Client -> ClientRecord]
  BY <1>4, <1>6
<1>8. ASSUME NEW c \in Client
      PROVE  LET new == Pushed(i)[c]
             IN  /\ new.pc = cli[c].pc /\ new.await = cli[c].await
                 /\ new.from = cli[c].from /\ new.ended = cli[c].ended
                 /\ new.old = cli[c].old
                 /\ IF Gets(c) THEN new.got = Append(cli[c].got, i)
                    ELSE new.got = cli[c].got
  BY <1>2, <1>3
<1> QED
  BY <1>7, <1>8 DEF Gets

\* What does not look at the streams keeps its type when there are more of them.
LEMMA TypesKept ==
  ASSUME TInv, UNCHANGED server,
         streams' \in Seq(StreamRecord), Len(streams) <= Len(streams'),
         \A s \in DOMAIN streams' : streams'[s].at \in 0..Len(Script)
  PROVE  /\ ServerT' /\ StreamsT' /\ Streams' = 1..Len(streams') /\ Streams \subseteq Streams'
         /\ Len(streams) \in Nat /\ Len(streams') \in Nat /\ Streams = 1..Len(streams)
         /\ UNCHANGED <<shared, sharedFilter, cursor, seen>> => SharesT'
         /\ UNCHANGED <<shared, fan>> => FanT'
         /\ UNCHANGED clients => ClientsT'
         /\ UNCHANGED watcher => WatcherT'
         /\ UNCHANGED <<commands, interrupts, runDone>> => CommandsT'
         /\ UNCHANGED <<closing, faults>> => RestT'
         /\ UNCHANGED <<fan, shared, watch, cli>> => Apart'
<1> USE DEF TInv
<1>1. /\ streams \in Seq(StreamRecord) /\ Len(streams) \in Nat /\ Len(streams') \in Nat
      /\ DOMAIN streams = 1..Len(streams) /\ DOMAIN streams' = 1..Len(streams')
      /\ UNCHANGED <<emitted, answered>>
  BY DEF StreamsT, server
<1>2. Streams' = 1..Len(streams') /\ Streams = 1..Len(streams) /\ Streams \subseteq Streams'
  BY <1>1 DEF Streams
<1>3. ServerT' /\ StreamsT'
  BY <1>1, <1>2 DEF ServerT, StreamsT
<1>4. UNCHANGED <<shared, sharedFilter, cursor, seen>> => SharesT'
  BY <1>1 DEF SharesT
<1>5. UNCHANGED <<shared, fan>> => FanT'
  BY <1>1, <1>2 DEF FanT
<1>6. UNCHANGED clients => ClientsT'
  BY <1>1, <1>2 DEF ClientsT, clients
<1>7. UNCHANGED watcher => WatcherT'
  BY <1>1, <1>2 DEF WatcherT, watcher
<1>8. UNCHANGED <<commands, interrupts, runDone>> => CommandsT'
  BY <1>1 DEF CommandsT, commands
<1>9. UNCHANGED <<closing, faults>> => RestT'
  BY DEF RestT
<1>10. UNCHANGED <<fan, shared, watch, cli>> => Apart'
  BY DEF Apart
<1> QED
  BY <1>1, <1>2, <1>3, <1>4, <1>5, <1>6, <1>7, <1>8, <1>9, <1>10

\* The same where the streams stay as they are.
LEMMA StreamsStay ==
  ASSUME TInv, UNCHANGED streams
  PROVE  /\ streams' \in Seq(StreamRecord) /\ Len(streams) <= Len(streams')
         /\ \A s \in DOMAIN streams' : streams'[s].at \in 0..Len(Script)
<1>1. streams \in Seq(StreamRecord) /\ Len(streams) \in Nat
  BY DEF TInv, StreamsT
<1> QED
  BY <1>1 DEF TInv, StreamsT, Streams

\* Client c gets a new record, the others keep theirs.
LEMMA OneClient ==
  ASSUME TInv, UNCHANGED emitted, Streams \subseteq Streams',
         NEW c \in Client, NEW r \in ClientRecord,
         cli' = [cli EXCEPT ![c] = r], round' \in [Client -> Nat],
         r.pc = "ready" => r.await \in Streams', r.got = cli[c].got
  PROVE  ClientsT'
BY DEF TInv, ClientsT

LEMMA FanReturnsTypes ==
  ASSUME TInv, FanReturns, fan.pc # "none",
         UNCHANGED <<server, sharedFilter, round, watcher, commands, closing, faults>>
  PROVE  TInv'
<1>1. UNCHANGED <<streams, shared, cursor, seen>>
  BY DEF FanReturns
<1>2. FanT'
  BY <1>1 DEF TInv, FanT, FanRecord, FanReturns, FanStates, Streams
<1>3. cli \in [Client -> ClientRecord] /\ cli' = Signalled(cli)
  BY DEF TInv, ClientsT, FanReturns
<1>4. ClientsT'
  BY <1>1, <1>3, SignalledFacts DEF TInv, ClientsT, server, Streams
<1>5. Apart'
  <2>1. /\ fan' = [fan EXCEPT !.pc = "over", !.await = 0] /\ fan \in FanRecord
        /\ \A c \in Client : cli'[c].pc = cli[c].pc
    BY <1>3, SignalledFacts DEF TInv, FanReturns, FanT
  <2>2. fan'.pc = "over" /\ fan'.at = fan.at
    BY <2>1 DEF FanRecord
  <2> QED
    BY <1>1, <2>1, <2>2 DEF TInv, Apart, watcher
<1> QED
  BY <1>1, <1>2, <1>4, <1>5, StreamsStay, TypesKept DEF TInv, watcher, commands

LEMMA FanTurnsTypes ==
  ASSUME TInv, NEW s \in 1..Len(streams), s # watch.at, FanTurns(s), fan.pc # "none",
         UNCHANGED <<server, sharedFilter, round, watcher, commands, closing, faults>>
  PROVE  TInv'
<1>1. CASE Closed
  BY <1>1, FanReturnsTypes DEF FanTurns
<1>2. CASE ~Closed
  <2>1. /\ fan' = [fan EXCEPT !.pc = "read", !.at = s, !.await = 0]
        /\ shared' = s /\ UNCHANGED <<streams, cursor, seen, cli>>
    BY <1>2 DEF FanTurns
  <2>2. Len(streams) \in Nat /\ s \in Nat
    BY DEF TInv, StreamsT
  <2>3. FanT' /\ fan'.pc = "read" /\ fan'.at = s
    <3>1. fan' \in FanRecord /\ fan'.pc = "read" /\ fan'.at = s
      BY <2>1, <2>2 DEF TInv, FanT, FanRecord, FanStates
    <3> QED
      BY <2>1, <2>2, <3>1 DEF FanT
  <2>4. SharesT'
    BY <2>1 DEF TInv, SharesT, server
  <2>5. Apart'
    BY <2>1, <2>2, <2>3 DEF TInv, Apart, watcher
  <2> QED
    BY <2>1, <2>3, <2>4, <2>5, StreamsStay, TypesKept DEF TInv, watcher, commands, clients
<1> QED
  BY <1>1, <1>2

LEMMA FanReopensTypes ==
  ASSUME TInv, NEW f \in FlatFilter, NEW k \in Nat, FanReopens(f, k), fan.pc # "none",
         UNCHANGED <<server, sharedFilter, round, watcher, commands, closing, faults>>
  PROVE  TInv'
<1>1. CASE k >= Attempts \/ Closed
  BY <1>1, FanReturnsTypes DEF FanReopens
<1>2. CASE ~(k >= Attempts \/ Closed)
  <2>1. /\ streams' = Append(streams, Opened(f, cursor))
        /\ fan' = [fan EXCEPT !.pc = "opening", !.await = Len(streams) + 1,
                              !.base = f, !.tries = k]
        /\ UNCHANGED <<shared, cursor, seen, cli>>
    BY <1>2 DEF FanReopens
  <2>2. cursor \in Nat /\ cursor \in 0..Len(Script) /\ streams \in Seq(StreamRecord)
    BY StreamAssumption DEF TInv, SharesT, ServerT, StreamsT
  <2>3. /\ streams' \in Seq(StreamRecord) /\ Len(streams') = Len(streams) + 1
        /\ Len(streams) \in Nat /\ DOMAIN streams = 1..Len(streams)
        /\ DOMAIN streams' = 1..Len(streams) + 1
        /\ \A s \in DOMAIN streams' : streams'[s].at \in 0..Len(Script)
    BY <2>1, <2>2, OpenedFacts DEF TInv, StreamsT, Streams
  <2>4. /\ FanT' /\ fan'.await = Len(streams) + 1 /\ fan'.at = fan.at
        /\ fan'.pc = "opening"
    <3>1. /\ fan' \in FanRecord /\ fan'.await = Len(streams) + 1 /\ fan'.at = fan.at
          /\ fan'.pc = "opening"
      <4>1. fan \in FanRecord /\ Len(streams) + 1 \in Nat /\ "opening" \in FanStates
        BY <2>3 DEF TInv, FanT, FanStates
      <4> QED
        BY <2>1, <4>1 DEF FanRecord
    <3>2. shared \in 0..Len(streams) /\ fan.at \in 0..Len(streams)
      BY DEF TInv, SharesT, FanT
    <3> QED
      BY <2>1, <2>3, <3>1, <3>2 DEF FanT, Streams
  <2>5. SharesT'
    BY <2>1, <2>3 DEF TInv, SharesT, server
  <2>6. Apart'
    BY <2>1, <2>3, <2>4 DEF TInv, Apart, watcher, WatcherT, FanT, Streams
  <2> QED
    BY <2>1, <2>3, <2>4, <2>5, <2>6, TypesKept DEF TInv, watcher, commands, clients
<1> QED
  BY <1>1, <1>2

LEMMA FanReadTypes ==
  ASSUME TInv, FanRead,
         UNCHANGED <<server, sharedFilter, round, watcher, commands, closing, faults>>
  PROVE  TInv'
<1> DEFINE i == NextOf(fan.at)
<1>1. fan.at \in Streams /\ ~CaughtUp(fan.at)
  <2>1. fan.pc = "read" /\ ~CaughtUp(fan.at)
    BY DEF FanRead
  <2>2. fan.at \in 0..Len(streams) /\ fan.at # 0 /\ Streams = 1..Len(streams)
    BY <2>1 DEF TInv, FanT, Apart, StreamsT, Streams
  <2> QED
    BY <2>1, <2>2
<1>2. i \in 1..emitted /\ i \in Seq_ /\ i \in Nat
  BY <1>1, NextFacts
<1>3. /\ streams' = [streams EXCEPT ![fan.at].at = i] /\ seen' = seen \cup {i}
      /\ UNCHANGED shared
  BY DEF FanRead
<1> HIDE DEF i
<1>4. /\ streams' \in Seq(StreamRecord) /\ Len(streams') = Len(streams)
      /\ Len(streams) \in Nat /\ DOMAIN streams' = DOMAIN streams
      /\ \A s \in DOMAIN streams' : streams'[s].at \in 0..Len(Script)
  <2>1. streams \in Seq(StreamRecord) /\ fan.at \in DOMAIN streams
    BY <1>1 DEF TInv, StreamsT, Streams
  <2>2. i \in 0..Len(Script)
    BY <1>2, StreamAssumption DEF Seq_
  <2> QED
    BY <1>2, <1>3, <2>1, <2>2, StreamFacts DEF TInv, StreamsT, Streams
<1>5. cursor' \in {cursor, i}
  BY DEF FanRead, i
<1>6. SharesT'
  BY <1>2, <1>3, <1>4, <1>5 DEF TInv, SharesT, server
<1>7. fan' = fan \/ \E pc \in {"done", "over"} : fan' = [fan EXCEPT !.pc = pc]
  BY DEF FanRead
<1>8. FanT' /\ fan'.at = fan.at /\ (fan' = fan \/ fan'.pc # "opening")
  <2>1. fan' \in FanRecord /\ fan'.at = fan.at /\ (fan' = fan \/ fan'.pc # "opening")
    BY <1>7 DEF TInv, FanT, FanRecord, FanStates
  <2> QED
    BY <1>3, <1>4, <2>1 DEF TInv, FanT, Streams
<1>10. \/ cli' = cli
       \/ cli' = Signalled(cli)
       \/ cli' = Pushed(i)
       \/ cli' = Signalled(Pushed(i))
  BY DEF FanRead, i
<1>11. /\ cli' \in [Client -> ClientRecord]
       /\ \A c \in Client : /\ cli'[c].pc = cli[c].pc /\ cli'[c].await = cli[c].await
                            /\ \/ cli'[c].got = cli[c].got
                               \/ cli'[c].got = Append(cli[c].got, i)
  <2>1. cli \in [Client -> ClientRecord]
    BY DEF TInv, ClientsT
  <2>2. CASE cli' = cli
    BY <2>1, <2>2
  <2>3. CASE cli' = Signalled(cli)
    BY <2>1, <2>3, SignalledFacts
  <2>4. /\ Pushed(i) \in [Client -> ClientRecord]
        /\ \A c \in Client : /\ Pushed(i)[c].pc = cli[c].pc
                             /\ Pushed(i)[c].await = cli[c].await
                             /\ \/ Pushed(i)[c].got = cli[c].got
                                \/ Pushed(i)[c].got = Append(cli[c].got, i)
    BY <1>2, <2>1, PushedFacts
  <2>5. CASE cli' = Pushed(i)
    BY <2>4, <2>5
  <2>6. CASE cli' = Signalled(Pushed(i))
    <3>1. /\ Signalled(Pushed(i)) \in [Client -> ClientRecord]
          /\ \A c \in Client : /\ Signalled(Pushed(i))[c].pc = Pushed(i)[c].pc
                               /\ Signalled(Pushed(i))[c].await = Pushed(i)[c].await
                               /\ Signalled(Pushed(i))[c].got = Pushed(i)[c].got
      BY <2>4, SignalledFacts
    <3> QED
      BY <2>4, <2>6, <3>1
  <2> QED
    BY <1>10, <2>2, <2>3, <2>5, <2>6
<1>9. Apart'
  <2>1. fan.pc = "read"
    BY DEF FanRead
  <2>2. shared # 0 /\ fan.at # 0 /\ watch.at \notin {fan.at, shared}
    BY <2>1 DEF TInv, Apart
  <2> QED
    BY <1>3, <1>8, <1>11, <2>1, <2>2 DEF Apart, watcher
<1>12. ClientsT'
  <2>1. ASSUME NEW c \in Client, NEW k \in DOMAIN cli'[c].got
        PROVE  cli'[c].got[k] \in 1..emitted
    <3>1. cli[c].got \in Seq(Nat) /\ \A l \in DOMAIN cli[c].got : cli[c].got[l] \in 1..emitted
      BY DEF TInv, ClientsT, ClientRecord
    <3>2. CASE cli'[c].got = cli[c].got
      BY <2>1, <3>1, <3>2
    <3>3. CASE cli'[c].got = Append(cli[c].got, i)
      BY <1>2, <2>1, <3>1, <3>3
    <3> QED
      BY <1>11, <3>2, <3>3
  <2>2. UNCHANGED <<round, emitted>> /\ Streams' = Streams
    BY <1>4 DEF server, Streams
  <2>3. \A c \in Client : cli'[c].pc = "ready" => cli'[c].await \in Streams
    BY <1>11 DEF TInv, ClientsT
  <2> QED
    BY <1>11, <2>1, <2>2, <2>3 DEF TInv, ClientsT
<1> QED
  BY <1>4, <1>6, <1>8, <1>9, <1>12, TypesKept DEF TInv, watcher, commands

LEMMA TypesFan == TInv /\ Fanout => TInv'
<1> SUFFICES ASSUME TInv, Fanout PROVE TInv'
  OBVIOUS
<1>1. UNCHANGED <<server, sharedFilter, round, watcher, commands, closing, faults>>
  BY DEF Fanout
<1>2. /\ fan.pc # "none" => shared \in 1..Len(streams)
      /\ shared # watch.at /\ sharedFilter \in FlatFilter
      /\ fan.base \in FlatFilter /\ fan.tries \in Nat /\ fan.tries + 1 \in Nat
      /\ Len(streams) \in Nat
      /\ fan.pc = "opening" => fan.await \in 1..Len(streams) /\ fan.await # watch.at
  BY DEF TInv, SharesT, Apart, FanT, FanRecord, StreamsT, Streams
<1>3. CASE FanStart
  BY <1>1, <1>2, <1>3, FanTurnsTypes DEF FanStart
<1>4. CASE FanRead
  BY <1>1, <1>4, FanReadTypes
<1>5. CASE FanEnd
  BY <1>1, <1>2, <1>5, FanTurnsTypes, FanReopensTypes, FanReturnsTypes DEF FanEnd
<1>6. CASE FanReopened
  <2>1. CASE FanTurns(fan.await)
    BY <1>1, <1>2, <1>6, <2>1, FanTurnsTypes DEF FanReopened
  <2>2. CASE /\ fan' = [fan EXCEPT !.pc = "backoff", !.await = 0]
             /\ UNCHANGED <<streams, shared, cursor, seen, cli>>
    <3>1. fan' \in FanRecord /\ fan'.pc = "backoff" /\ fan'.at = fan.at
      BY <2>2 DEF TInv, FanT, FanRecord, FanStates
    <3>2. fan.pc = "opening" /\ UNCHANGED <<streams, shared, cli, watch>>
      BY <1>1, <1>6, <2>2 DEF FanReopened, watcher
    <3>3. FanT' /\ Apart'
      BY <3>1, <3>2 DEF TInv, FanT, Apart
    <3> QED
      BY <1>1, <2>2, <3>3, StreamsStay, TypesKept DEF TInv, watcher, commands, clients
  <2> QED
    BY <1>6, <2>1, <2>2 DEF FanReopened
<1>7. CASE FanBackoff
  BY <1>1, <1>2, <1>7, FanReopensTypes DEF FanBackoff
<1>8. CASE FanDone
  BY <1>1, <1>8, FanReturnsTypes DEF FanDone
<1> QED
  BY <1>3, <1>4, <1>5, <1>6, <1>7, <1>8 DEF Fanout

LEMMA RunningFacts ==
  ASSUME FanT
  PROVE  /\ Running(fan) \in FanRecord /\ Running(fan).at = fan.at
         /\ Running(fan) = fan \/ Running(fan).pc = "top"
BY DEF Running, FanT, FanRecord, FanStates

LEMMA ReconcileTypes ==
  ASSUME TInv, NEW c \in Client, Reconcile(c), cli[c].pc \in {"out", "gate"},
         round' \in [Client -> Nat],
         UNCHANGED <<server, cursor, seen, watcher, commands, closing, faults>>
  PROVE  TInv'
<1> DEFINE start == IF cli[c].pc = "gate" THEN cli[c].start ELSE Len(cli[c].got)
           started == [pc |-> "iter", await |-> 0, old |-> 0, from |-> cursor,
                       got |-> cli[c].got, ended |-> cli[c].ended, start |-> start]
           D == {d \in Client : Subscribed(d)} \cup {c}
           union == compute_union_filter({FilterOf[d] : d \in D} \cup {Lifecycle})
           new == Len(streams) + 1
           waiting == [started EXCEPT !.pc = "ready", !.await = new, !.old = shared]
<1>1. /\ cli[c] \in ClientRecord /\ streams \in Seq(StreamRecord) /\ Len(streams) \in Nat
      /\ cursor \in Nat /\ cursor \in 0..Len(Script) /\ shared \in Nat
  BY StreamAssumption DEF TInv, ClientsT, StreamsT, SharesT, ServerT
<1>2. start \in Nat
  BY <1>1 DEF ClientRecord
<1>3. started \in ClientRecord /\ started.pc = "iter" /\ started.got = cli[c].got
  BY <1>1, <1>2 DEF ClientRecord
<1>4. /\ waiting \in ClientRecord /\ waiting.pc = "ready" /\ waiting.got = cli[c].got
      /\ waiting.await = new
  <2>1. new \in Nat /\ started \in ClientRecord /\ started.got = cli[c].got
    BY <1>1, <1>3
  <2> HIDE DEF started, new
  <2> QED
    BY <1>1, <2>1 DEF ClientRecord
<1>5. union \in FlatFilter
  BY UnionFlat
<1>6. \/ /\ shared # 0
         /\ cli' = [cli EXCEPT ![c] = started] /\ fan' = Running(fan)
         /\ UNCHANGED <<streams, shared, sharedFilter>>
      \/ /\ streams' = Append(streams, Opened(union, cursor))
         /\ shared' = new /\ sharedFilter' = union
         /\ cli' = [cli EXCEPT ![c] = waiting] /\ UNCHANGED fan
  BY Zenon DEF Reconcile
<1> HIDE DEF start, started, union, waiting
<1>7. UNCHANGED <<emitted, watch>>
  BY DEF server, watcher
<1>8. CASE /\ shared # 0
           /\ cli' = [cli EXCEPT ![c] = started] /\ fan' = Running(fan)
           /\ UNCHANGED <<streams, shared, sharedFilter>>
  <2>1. FanT'
    BY <1>8, RunningFacts DEF TInv, FanT, Streams
  <2>2. ClientsT'
    BY <1>3, <1>7, <1>8, OneClient DEF Streams
  <2>3. fan'.pc = "opening" => fan' = fan
    BY <1>8, RunningFacts DEF TInv
  <2>4. fan'.pc \in {"read", "done"} => fan' = fan
    BY <1>8, RunningFacts DEF TInv
  <2>5. fan'.at = fan.at
    BY <1>8, RunningFacts DEF TInv
  <2>6. Apart'
    BY <1>7, <1>8, <2>3, <2>4, <2>5 DEF TInv, Apart
  <2>7. SharesT'
    BY <1>7, <1>8 DEF TInv, SharesT
  <2> QED
    BY <1>8, <2>1, <2>2, <2>6, <2>7, StreamsStay, TypesKept DEF TInv, watcher
<1>9. CASE /\ streams' = Append(streams, Opened(union, cursor))
           /\ shared' = new /\ sharedFilter' = union
           /\ cli' = [cli EXCEPT ![c] = waiting] /\ UNCHANGED fan
  <2>1. /\ streams' \in Seq(StreamRecord) /\ Len(streams') = Len(streams) + 1
        /\ DOMAIN streams = 1..Len(streams) /\ DOMAIN streams' = 1..Len(streams) + 1
        /\ \A s \in DOMAIN streams' : streams'[s].at \in 0..Len(Script)
    BY <1>1, <1>5, <1>9, OpenedFacts DEF TInv, StreamsT, Streams
  <2>2. FanT'
    BY <1>1, <1>9, <2>1 DEF TInv, FanT, Streams
  <2>3. ClientsT'
    <3>1. waiting.await \in Streams' /\ Streams \subseteq Streams'
      BY <1>1, <1>4, <2>1 DEF Streams
    <3> QED
      BY <1>4, <1>7, <1>9, <3>1, OneClient
  <2>4. SharesT'
    BY <1>1, <1>5, <1>7, <1>9, <2>1 DEF TInv, SharesT
  <2>5. shared' # 0 /\ shared' # watch.at
    BY <1>1, <1>9, <2>1 DEF TInv, WatcherT, Streams
  <2>6. Apart'
    BY <1>7, <1>9, <2>5 DEF TInv, Apart
  <2> QED
    BY <1>1, <2>1, <2>2, <2>3, <2>4, <2>6, TypesKept DEF TInv, watcher
<1> QED
  BY <1>6, <1>8, <1>9

LEMMA TypesClient ==
  ASSUME TInv, NEW c \in Client, Subscribe(c) \/ GateOpens(c) \/ Rotated(c) \/ Leave(c)
  PROVE  TInv'
<1>1. cli[c] \in ClientRecord /\ cli \in [Client -> ClientRecord] /\ round \in [Client -> Nat]
  BY DEF TInv, ClientsT
<1>2. CASE Subscribe(c)
  <2>1. round' \in [Client -> Nat]
    BY <1>1, <1>2 DEF Subscribe
  <2>2. UNCHANGED <<server, cursor, seen, watcher, commands, closing, faults>> /\ cli[c].pc = "out"
    BY <1>2 DEF Subscribe
  <2>3. CASE Reconcile(c)
    BY <2>1, <2>2, <2>3, ReconcileTypes
  <2>4. CASE /\ cli' = [cli EXCEPT ![c].pc = "gate", ![c].start = Len(cli[c].got)]
             /\ UNCHANGED <<streams, shared, sharedFilter, fan>>
    <3> DEFINE r == [cli[c] EXCEPT !.pc = "gate", !.start = Len(cli[c].got)]
    <3>1. r \in ClientRecord /\ r.pc = "gate" /\ r.got = cli[c].got
      <4>1. Len(cli[c].got) \in Nat
        BY <1>1 DEF ClientRecord
      <4> QED
        BY <1>1, <4>1 DEF ClientRecord
    <3>2. cli' = [cli EXCEPT ![c] = r]
      BY <1>1, <2>4
    <3> HIDE DEF r
    <3>3. ClientsT'
      BY <2>1, <2>2, <2>4, <3>1, <3>2, OneClient DEF Streams, server
    <3>4. Apart'
      BY <1>1, <2>2, <2>4, <3>1, <3>2 DEF TInv, Apart, watcher
    <3> QED
      BY <2>2, <2>4, <3>3, <3>4, StreamsStay, TypesKept DEF TInv, watcher
  <2> QED
    BY <1>2, <2>3, <2>4 DEF Subscribe
<1>3. CASE GateOpens(c)
  BY <1>1, <1>3, ReconcileTypes DEF GateOpens
<1>4. CASE Rotated(c)
  <2> DEFINE r == [cli[c] EXCEPT !.pc = "iter", !.await = 0, !.old = 0]
  <2>1. r \in ClientRecord /\ r.pc = "iter" /\ r.got = cli[c].got
    BY <1>1 DEF ClientRecord
  <2>2. /\ cli' = [cli EXCEPT ![c] = r] /\ streams' = ClosedIn(streams, {cli[c].old})
        /\ fan' = Running(fan)
    BY <1>1, <1>4 DEF Rotated
  <2>3. UNCHANGED <<server, shared, sharedFilter, cursor, seen, round, watcher,
                    commands, closing, faults>>
    BY <1>4 DEF Rotated
  <2> HIDE DEF r
  <2>4. /\ streams' \in Seq(StreamRecord) /\ Len(streams') = Len(streams)
        /\ Len(streams) \in Nat /\ DOMAIN streams' = DOMAIN streams
        /\ \A s \in DOMAIN streams' : streams'[s].at \in 0..Len(Script)
    BY <2>2, ClosedFacts, StreamAssumption DEF TInv, StreamsT, Streams
  <2>5. ClientsT'
    BY <1>1, <2>1, <2>2, <2>3, <2>4, OneClient DEF Streams, server
  <2>6. FanT'
    BY <2>2, <2>3, <2>4, RunningFacts DEF TInv, FanT, Streams
  <2>7. shared # 0
    BY <1>4 DEF Rotated, TInv, Apart
  <2>8. /\ fan'.at = fan.at
        /\ fan'.pc = "opening" => fan' = fan
        /\ fan'.pc \in {"read", "done"} => fan' = fan
    BY <2>2, RunningFacts DEF TInv
  <2>9. Apart'
    BY <2>3, <2>7, <2>8 DEF TInv, Apart, watcher
  <2> QED
    BY <2>3, <2>4, <2>5, <2>6, <2>9, TypesKept DEF TInv, watcher
<1>5. CASE Leave(c)
  <2>1. /\ cli' = [cli EXCEPT ![c] = Out(cli[c].got)]
        /\ UNCHANGED <<server, shares, fan, round, watcher, commands, closing, faults>>
    BY <1>5 DEF Leave, Left
  <2>2. cli[c].got \in Seq(Nat)
    BY <1>1 DEF ClientRecord
  <2>3. ClientsT'
    BY <1>1, <2>1, <2>2, OutFacts, OneClient DEF Streams, server, shares
  <2>4. Apart'
    BY <1>1, <2>1, <2>2, OutFacts DEF TInv, Apart, watcher, shares
  <2> QED
    BY <2>1, <2>3, <2>4, StreamsStay, TypesKept DEF TInv, watcher, shares
<1> QED
  BY <1>2, <1>3, <1>4, <1>5

LEMMA TypesCommand ==
  ASSUME TInv, \/ StartRun \/ StartAnswered \/ StartFails
               \/ Respond \/ RespondAccepted \/ RespondAnswered
  PROVE  TInv'
<1>1. CASE StartRun \/ StartAnswered
  <2>1. UNCHANGED <<server, shares, fan, clients, watcher, asking, acked, closing, faults>>
    BY <1>1 DEF StartRun, StartAnswered
  <2>2. CommandsT'
    BY <1>1, <2>1 DEF TInv, CommandsT, StartRun, StartAnswered, server, watcher
  <2> QED
    BY <2>1, <2>2, StreamsStay, TypesKept DEF TInv, watcher, shares, clients
<1>2. CASE StartFails
  <2>1. /\ UNCHANGED <<server, shares, fan, round, watcher, asking, acked, closing>>
        /\ gate' = "failed" /\ faults' = faults + 1
        /\ cli' = [c \in Client |-> IF cli[c].pc = "gate" THEN Out(cli[c].got) ELSE cli[c]]
    BY <1>2 DEF StartFails, Fault, Left
  <2>2. ASSUME NEW c \in Client
        PROVE  /\ cli'[c] \in ClientRecord /\ cli'[c].got = cli[c].got
               /\ cli'[c] = cli[c] \/ cli'[c].pc = "out"
    <3>1. cli[c] \in ClientRecord /\ cli[c].got \in Seq(Nat)
      BY DEF TInv, ClientsT, ClientRecord
    <3> QED
      BY <2>1, <3>1, OutFacts
  <2>3. cli' \in [Client -> ClientRecord]
    BY <2>1, <2>2
  <2>4. ClientsT'
    BY <2>1, <2>2, <2>3 DEF TInv, ClientsT, server, shares, Streams
  <2>5. Apart'
    BY <2>1, <2>2 DEF TInv, Apart, shares, watcher
  <2>6. CommandsT' /\ RestT'
    BY <2>1 DEF TInv, CommandsT, RestT, server, watcher
  <2> QED
    BY <2>1, <2>4, <2>5, <2>6, StreamsStay, TypesKept DEF TInv, watcher, shares
<1>3. CASE Respond
  <2>1. /\ UNCHANGED <<server, shares, fan, clients, watcher, gate, acked, closing, faults>>
        /\ asking' \in interrupts
    BY <1>3 DEF Respond, Unanswered
  <2>2. CommandsT'
    BY <2>1 DEF TInv, CommandsT, server, watcher, WatcherT
  <2> QED
    BY <2>1, <2>2, StreamsStay, TypesKept DEF TInv, watcher, shares, clients
<1>4. CASE RespondAccepted
  <2>1. /\ UNCHANGED <<emitted, shares, fan, clients, watcher, commands, closing, faults>>
        /\ answered' = answered \cup {asking} /\ asking # 0
    BY <1>4 DEF RespondAccepted
  <2>2. asking \in Seq_
    BY <2>1, StreamAssumption DEF TInv, CommandsT, ServerT, Seq_
  <2>3. ServerT'
    BY <2>1, <2>2 DEF TInv, ServerT, Seq_
  <2>4. StreamsT' /\ SharesT' /\ FanT'
    BY <2>1 DEF TInv, StreamsT, SharesT, FanT, shares, Streams
  <2>5. ClientsT'
    BY <2>1 DEF TInv, ClientsT, shares, Streams, clients
  <2>6. WatcherT' /\ CommandsT'
    BY <2>1 DEF TInv, WatcherT, CommandsT, shares, Streams, watcher, commands
  <2>7. RestT' /\ Apart'
    BY <2>1 DEF TInv, RestT, Apart, shares, watcher, clients
  <2> QED
    BY <2>3, <2>4, <2>5, <2>6, <2>7 DEF TInv
<1>5. CASE RespondAnswered
  <2>1. /\ UNCHANGED <<server, streams, shared, sharedFilter, seen, fan, clients, watcher,
                      gate, closing, faults>>
        /\ asking' = 0 /\ acked' \in {asking, acked} /\ cursor' \in {asking, cursor}
    BY <1>5 DEF RespondAnswered
  <2>2. asking \in 0..emitted /\ emitted \in Nat
    BY StreamAssumption DEF TInv, CommandsT, ServerT
  <2>3. CommandsT' /\ SharesT'
    BY <2>1, <2>2 DEF TInv, CommandsT, SharesT, server, watcher
  <2> QED
    BY <2>1, <2>3, StreamsStay, TypesKept DEF TInv, watcher, clients
<1> QED
  BY <1>1, <1>2, <1>3, <1>4, <1>5

LEMMA TypesWatcher == TInv /\ Watcher => TInv'
<1> SUFFICES ASSUME TInv, Watcher PROVE TInv'
  OBVIOUS
<1>1. UNCHANGED <<server, shared, sharedFilter, cursor, seen, fan, round, commands,
                  closing, faults>>
  BY DEF Watcher
<1>2. /\ watch.at \in Streams /\ Len(streams) \in Nat /\ Streams = 1..Len(streams)
      /\ streams \in Seq(StreamRecord) /\ shared \in Nat /\ fan.at \in Nat
      /\ shared <= Len(streams) /\ fan.at <= Len(streams)
      /\ fan.pc = "opening" => fan.await \in Streams
  BY DEF TInv, WatcherT, StreamsT, Streams, SharesT, FanT
<1>3. CASE WatchStarts \/ WatchEnd
  <2>1. /\ UNCHANGED <<streams, lcursor, interrupts, interrupted, cli>>
        /\ watch' \in [pc : {"open", "read", "sleep", "over"}, at : Nat, tries : Nat]
        /\ watch'.at = watch.at
        /\ runDone' \in {runDone, "errored"} /\ (runDone' # runDone => runDone' # "pending")
    <3>1. watch \in [pc : {"open", "read", "sleep", "over"}, at : Nat, tries : Nat]
      BY DEF TInv, WatcherT
    <3>2. CASE WatchStarts
      BY <3>1, <3>2 DEF WatchStarts
    <3>3. CASE WatchEnd
      <4>1. \/ watch' = [watch EXCEPT !.pc = "sleep", !.tries = @ + 1]
            \/ watch' = [watch EXCEPT !.pc = "over"]
        BY <3>3 DEF WatchEnd
      <4>2. /\ UNCHANGED <<streams, lcursor, interrupts, interrupted, cli>>
            /\ runDone' \in {runDone, "errored"}
        BY <3>3 DEF WatchEnd
      <4>3. /\ watch' \in [pc : {"open", "read", "sleep", "over"}, at : Nat, tries : Nat]
            /\ watch'.at = watch.at
        <5>1. watch.tries + 1 \in Nat
          BY <3>1
        <5> HIDE DEF WatcherT
        <5> QED
          BY <3>1, <4>1, <5>1
      <4> QED
        BY <4>2, <4>3
    <3> QED
      BY <1>3, <3>2, <3>3
  <2>2. WatcherT'
    BY <1>1, <2>1 DEF TInv, WatcherT, server, Streams
  <2>3. CommandsT'
    BY <1>1, <2>1 DEF TInv, CommandsT, server, commands
  <2>4. Apart'
    BY <1>1, <2>1 DEF TInv, Apart
  <2> QED
    BY <1>1, <2>1, <2>2, <2>3, <2>4, StreamsStay, TypesKept DEF TInv, clients
<1>4. CASE WatchRead
  <2> DEFINE i == NextOf(watch.at)
  <2>1. i \in 1..emitted /\ i \in Seq_ /\ i \in Nat
    BY <1>2, <1>4, NextFacts DEF WatchRead
  <2>2. /\ streams' = [streams EXCEPT ![watch.at].at = i] /\ lcursor' = i /\ UNCHANGED watch
        /\ asking = 0
        /\ interrupts' = IF Script[i].kind = "done" THEN {}
                         ELSE interrupts \cup {j \in {i} : Script[i].kind = "input"}
        /\ interrupted' = (Script[i].kind = "input"
                             \/ (interrupted /\ ~(Script[i].kind = "done")))
        /\ runDone' \in {runDone, "completed"}
        /\ cli' \in {cli, Signalled(cli)}
    BY <1>4, Zenon DEF WatchRead
  <2> HIDE DEF i
  <2>3. /\ streams' \in Seq(StreamRecord) /\ Len(streams') = Len(streams)
        /\ DOMAIN streams' = DOMAIN streams
        /\ \A s \in DOMAIN streams' : streams'[s].at \in 0..Len(Script)
    <3>1. i \in 0..Len(Script)
      BY <2>1, StreamAssumption DEF Seq_
    <3>2. /\ streams \in Seq(StreamRecord) /\ watch.at \in DOMAIN streams
          /\ \A s \in DOMAIN streams : streams[s].at \in 0..Len(Script)
      BY <1>2 DEF TInv, StreamsT, Streams
    <3>3. /\ streams' \in Seq(StreamRecord) /\ DOMAIN streams' = DOMAIN streams
          /\ Len(streams') = Len(streams) /\ streams'[watch.at].at = i
          /\ \A s \in DOMAIN streams \ {watch.at} : streams'[s] = streams[s]
      <4> HIDE DEF TInv
      <4> QED
        BY <2>1, <2>2, <3>2, StreamFacts
    <3> QED
      BY <3>1, <3>2, <3>3
  <2>4. WatcherT'
    <3>1. interrupts' \subseteq 1..emitted /\ (interrupted' <=> interrupts' # {})
          /\ interrupted' \in BOOLEAN
      BY <2>1, <2>2, StreamAssumption DEF TInv, WatcherT
    <3>2. runDone' \in {"pending", "completed", "errored", "cancelled"}
      BY <2>2 DEF TInv, WatcherT
    <3>3. lcursor' \in 0..emitted
      BY <2>1, <2>2
    <3> QED
      BY <1>1, <2>2, <2>3, <3>1, <3>2, <3>3 DEF TInv, WatcherT, server, Streams
  <2>5. CommandsT'
    BY <1>1, <2>2 DEF TInv, CommandsT, server, commands
  <2>6. /\ cli' \in [Client -> ClientRecord]
        /\ \A c \in Client : /\ cli'[c].pc = cli[c].pc /\ cli'[c].await = cli[c].await
                             /\ cli'[c].got = cli[c].got
    <3>1. cli \in [Client -> ClientRecord]
      BY DEF TInv, ClientsT
    <3>2. CASE cli' = cli
      BY <3>1, <3>2
    <3>3. CASE cli' = Signalled(cli)
      BY <3>1, <3>3, SignalledFacts
    <3> QED
      BY <2>2, <3>2, <3>3
  <2>7. ClientsT'
    BY <1>1, <2>3, <2>6 DEF TInv, ClientsT, Streams, server
  <2>8. Apart'
    BY <1>1, <2>2, <2>6 DEF TInv, Apart
  <2> QED
    BY <1>1, <2>3, <2>4, <2>5, <2>7, <2>8, TypesKept DEF TInv
<1>5. CASE WatchReopens
  <2>1. /\ streams' = Append(streams, Opened(LifecycleInput, lcursor))
        /\ watch' = [pc |-> "open", at |-> Len(streams) + 1, tries |-> watch.tries]
        /\ UNCHANGED <<lcursor, interrupts, interrupted, runDone, cli>>
    BY <1>5 DEF WatchReopens, WatchOpens
  <2>2. lcursor \in Nat /\ lcursor \in 0..Len(Script)
    BY StreamAssumption DEF TInv, WatcherT, ServerT
  <2>3. /\ streams' \in Seq(StreamRecord) /\ Len(streams') = Len(streams) + 1
        /\ DOMAIN streams = 1..Len(streams) /\ DOMAIN streams' = 1..Len(streams) + 1
        /\ \A s \in DOMAIN streams' : streams'[s].at \in 0..Len(Script)
    BY <1>2, <2>1, <2>2, FlatFilters, OpenedFacts DEF TInv, StreamsT, Streams
  <2>4. WatcherT'
    BY <1>1, <1>2, <2>1, <2>3 DEF TInv, WatcherT, Streams, server
  <2>5. watch'.at = Len(streams) + 1
    BY <2>1
  <2>6. Apart'
    BY <1>1, <1>2, <2>1, <2>5 DEF TInv, Apart
  <2> QED
    BY <1>1, <1>2, <2>1, <2>3, <2>4, <2>6, TypesKept DEF TInv, clients
<1> QED
  BY <1>3, <1>4, <1>5 DEF Watcher

LEMMA TypesClose == TInv /\ (CloseBegins \/ CloseEnds) => TInv'
<1> SUFFICES ASSUME TInv, CloseBegins \/ CloseEnds PROVE TInv'
  OBVIOUS
<1>1. streams \in Seq(StreamRecord) /\ Len(streams) \in Nat
  BY DEF TInv, StreamsT
<1>2. \E S : streams' = ClosedIn(streams, S)
  BY DEF CloseBegins, CloseEnds
<1>3. /\ streams' \in Seq(StreamRecord) /\ Len(streams') = Len(streams)
      /\ DOMAIN streams' = DOMAIN streams
      /\ \A s \in DOMAIN streams' : streams'[s].at \in 0..Len(Script)
  BY <1>1, <1>2, ClosedFacts, StreamAssumption DEF TInv, StreamsT, Streams
<1>4. CASE CloseBegins
  <2>1. /\ closing' = "begun" /\ faults' = faults + 1
        /\ runDone' = IF runDone = "pending" THEN "cancelled" ELSE runDone
        /\ watch' = [watch EXCEPT !.pc = "over"]
        /\ UNCHANGED <<server, shared, sharedFilter, cursor, seen, fan, clients, lcursor,
                       interrupts, interrupted, commands>>
    BY <1>4 DEF CloseBegins, Fault
  <2>2. /\ watch' \in [pc : {"open", "read", "sleep", "over"}, at : Nat, tries : Nat]
        /\ watch'.at = watch.at
    BY <2>1 DEF TInv, WatcherT
  <2>3. WatcherT'
    BY <1>3, <2>1, <2>2 DEF TInv, WatcherT, Streams, server
  <2>4. CommandsT' /\ RestT'
    BY <2>1 DEF TInv, CommandsT, commands, server, RestT
  <2>5. Apart' /\ FanT'
    BY <1>3, <2>1, <2>2 DEF TInv, Apart, clients, FanT, Streams
  <2> QED
    BY <1>1, <1>3, <2>1, <2>3, <2>4, <2>5, TypesKept DEF TInv
<1>5. CASE CloseEnds
  <2>1. /\ closing' = "over"
        /\ fan' = IF fan.pc \in {"none", "over"} THEN fan ELSE [fan EXCEPT !.pc = "dead"]
        /\ UNCHANGED <<server, shared, sharedFilter, cursor, seen, clients, watcher,
                       commands, faults>>
    BY <1>5 DEF CloseEnds
  <2>2. /\ fan' \in FanRecord /\ fan'.at = fan.at
        /\ fan' = fan \/ (fan'.pc = "dead" /\ fan.pc # "none")
    BY <2>1 DEF TInv, FanT, FanRecord, FanStates
  <2>3. FanT'
    BY <1>3, <2>1, <2>2 DEF TInv, FanT, Streams
  <2>4. Apart' /\ RestT'
    BY <2>1, <2>2 DEF TInv, Apart, RestT, clients, watcher
  <2> QED
    BY <1>1, <1>3, <2>1, <2>3, <2>4, TypesKept DEF TInv, watcher, commands
<1> QED
  BY <1>4, <1>5

LEMMA TypesStep == TInv /\ [Next]_vars => TInv'
<1> SUFFICES ASSUME TInv, [Next]_vars PROVE TInv'
  OBVIOUS
<1>1. CASE Emit
  BY <1>1, TypesEmit
<1>2. CASE \E s \in Streams : Connect(s) \/ ConnectFails(s) \/ Drop(s) \/ Hangup(s)
  BY <1>2, TypesStream
<1>3. CASE Fanout
  BY <1>3, TypesFan
<1>4. CASE \E c \in Client : Subscribe(c) \/ GateOpens(c) \/ Rotated(c) \/ Leave(c)
  BY <1>4, TypesClient
<1>5. CASE StartRun \/ StartAnswered \/ StartFails \/ Respond \/ RespondAccepted \/ RespondAnswered
  BY <1>5, TypesCommand
<1>6. CASE Watcher
  BY <1>6, TypesWatcher
<1>7. CASE CloseBegins \/ CloseEnds
  BY <1>7, TypesClose
<1>8. CASE UNCHANGED vars
  <2>1. UNCHANGED <<server, streams, shared, sharedFilter, cursor, seen, fan, clients, watcher,
                    commands, closing, faults>>
    BY <1>8 DEF vars, shares
  <2> QED
    BY <2>1, StreamsStay, TypesKept DEF TInv, watcher, commands, clients
<1> QED
  BY <1>1, <1>2, <1>3, <1>4, <1>5, <1>6, <1>7, <1>8 DEF Next

\* The fields of AsyncThreadStream and of its tasks keep their types, and the
\* cursor, the ids seen and the events handed over stay within what was emitted.
THEOREM TypeCorrect == Spec => []TypeOK
<1>1. Init => TInv
  BY TypesInit
<1>2. TInv /\ [Next]_vars => TInv'
  BY TypesStep
<1>3. TInv => TypeOK
  BY TypesKnown
<1> QED
  BY <1>1, <1>2, <1>3, PTL DEF Spec

\* A step in which nobody is handed an event, streams stay as they are or are
\* closed, and a stream that the fan-out may turn to is one of before or opened
\* at the cursor.
Calm ==
  /\ seen' = seen /\ cursor' \in Nat /\ cursor <= cursor'
  /\ \A c \in Client : cli'[c].got = cli[c].got
  /\ Closed => Closed'
  /\ fan'.at = fan.at \/ Closed' \/ Readable' \subseteq {fan'.at}
  /\ Closed' \/ \A s \in Readable' :
       \/ /\ s \in Readable
          /\ \/ streams'[s].at = streams[s].at /\ streams'[s].filter = streams[s].filter
             \/ streams'[s].at = 0 /\ streams'[s].filter = NoFilter
       \/ s \notin Streams /\ streams'[s].at = cursor

LEMMA CarriesNothing ==
  ASSUME NEW e
  PROVE  ~matches_subscription(e, NoFilter)
BY DEF NoFilter, Lifecycle, matches_subscription

LEMMA CalmStep ==
  ASSUME TInv, TInv', SInv, Calm
  PROVE  SInv'
<1> USE DEF Calm
<1>1. /\ cursor \in Nat /\ seen \in SUBSET Nat /\ Streams = 1..Len(streams) /\ Len(streams) \in Nat
      /\ fan.at \in 0..Len(streams) /\ Streams' = 1..Len(streams') /\ Len(streams') \in Nat
      /\ \A s \in Streams : streams[s].at \in Nat
      /\ Seq_ \in SUBSET Nat
  BY DEF TInv, SharesT, StreamsT, FanT, ServerT, Streams, Seq_
<1>2. Readable \subseteq Streams /\ Readable' \subseteq Streams'
  BY DEF Readable
<1>3. ChannelOrder'
  BY DEF SInv, ChannelOrder
<1>4. GotSeen'
  BY DEF SInv, OInv, GotSeen
<1>5. CASE Closed'
  BY <1>3, <1>4, <1>5 DEF SInv, OInv, Behind, NoneOverdue, NoneRevived
<1>6. CASE ~Closed'
  <2>1. ~Closed
    BY <1>6
  <2>2. ASSUME NEW s \in Readable'
        PROVE  \/ /\ s \in Readable
                  /\ streams'[s].at = streams[s].at /\ streams'[s].filter = streams[s].filter
               \/ streams'[s].at = 0 /\ streams'[s].filter = NoFilter
               \/ s \notin Streams /\ streams'[s].at = cursor
    BY <1>6
  <2> HIDE DEF Calm
  <2>3. /\ seen' = seen /\ cursor' \in Nat /\ cursor <= cursor'
        /\ \/ fan'.at = fan.at
           \/ Readable' \subseteq {fan'.at}
    BY <1>6 DEF Calm
  <2>4. ASSUME NEW s \in Readable', NEW i, streams'[s].filter = NoFilter
        PROVE  ~Carries(s, i)'
    BY <2>4, CarriesNothing DEF Carries
  <2>5. Behind'
    <3>1. \A i \in seen : i <= cursor'
      BY <1>1, <2>1, <2>3 DEF SInv, OInv, Behind
    <3>2. ASSUME NEW s \in Readable' PROVE streams'[s].at <= cursor'
      BY <1>1, <1>2, <2>1, <2>2, <2>3 DEF SInv, OInv, Behind
    <3> QED
      BY <2>3, <3>1, <3>2 DEF Behind
  <2>6. NoneOverdue'
    <3>1. SUFFICES ASSUME NEW s \in Readable', NEW i \in Seq_ \ seen, NEW j \in seen,
                          i < j, Script[i].channel = Script[j].channel
                   PROVE  ~Owed(s, i)'
      BY <2>3 DEF NoneOverdue
    <3>2. CASE /\ s \in Readable
               /\ streams'[s].at = streams[s].at /\ streams'[s].filter = streams[s].filter
      BY <2>1, <3>1, <3>2 DEF SInv, OInv, NoneOverdue, Owed, Carries
    <3>3. CASE streams'[s].filter = NoFilter
      BY <2>4, <3>3 DEF Owed
    <3>4. CASE streams'[s].at = cursor
      BY <1>1, <2>1, <3>1, <3>4 DEF SInv, OInv, Behind, Owed
    <3> QED
      BY <2>2, <3>2, <3>3, <3>4
  <2>7. NoneRevived'
    <3>1. SUFFICES ASSUME NEW t \in Readable', t # fan'.at, NEW i \in Seq_ \ seen,
                          fan'.at \in Streams', Carries(fan.at, i)', i <= streams'[fan'.at].at
                   PROVE  ~Owed(t, i)'
      BY <2>3 DEF NoneRevived
    <3>2. fan'.at = fan.at
      BY <2>3, <3>1
    <3>3. fan.at \in Readable' /\ fan.at \in Streams
      BY <1>1, <3>1, <3>2 DEF Readable
    <3>4. streams'[fan.at].at = streams[fan.at].at /\ streams'[fan.at].filter = streams[fan.at].filter
      BY <2>2, <2>4, <3>1, <3>2, <3>3
    <3>5. Carries(fan.at, i) /\ i <= streams[fan.at].at /\ fan.at \in Readable
      BY <3>1, <3>2, <3>3, <3>4 DEF Carries, Readable
    <3>6. CASE /\ t \in Readable
               /\ streams'[t].at = streams[t].at /\ streams'[t].filter = streams[t].filter
      BY <2>1, <3>1, <3>2, <3>3, <3>5, <3>6 DEF SInv, OInv, NoneRevived, Owed, Carries
    <3>7. CASE streams'[t].filter = NoFilter
      BY <2>4, <3>7 DEF Owed
    <3>8. CASE streams'[t].at = cursor
      <4>1. streams[fan.at].at <= cursor
        BY <2>1, <3>5 DEF SInv, OInv, Behind
      <4>2. i \in Nat /\ streams[fan.at].at \in Nat /\ cursor \in Nat
        BY <1>1, <3>1, <3>3
      <4>3. i <= streams[fan.at].at
        BY <3>5
      <4>4. i <= cursor
        BY <4>1, <4>2, <4>3
      <4> QED
        BY <1>1, <3>8, <4>2, <4>4 DEF Owed
    <3> QED
      BY <2>2, <3>6, <3>7, <3>8
  <2> QED
    BY <1>3, <1>4, <2>5, <2>6, <2>7 DEF SInv, OInv
<1> QED
  BY <1>5, <1>6

\* Which channel an event has decides whether a flat filter lets it through.
LEMMA FlatCarries ==
  ASSUME TInv, NEW s \in Streams, NEW i, NEW j, Script[i].channel = Script[j].channel
  PROVE  Carries(s, i) <=> Carries(s, j)
<1>1. streams[s].filter \in FlatFilter
  <2>1. streams[s] \in StreamRecord
    BY DEF TInv, StreamsT, Streams
  <2> QED
    BY <2>1 DEF StreamRecord
<1>2. streams[s].filter.namespaces = ABSENT
  BY <1>1 DEF FlatFilter
<1> QED
  BY <1>2 DEF Carries, matches_subscription, namespace_matches

LEMMA OrderRead ==
  ASSUME TInv, SInv, FanRead,
         UNCHANGED <<server, sharedFilter, round, watcher, commands, closing, faults>>
  PROVE  SInv'
<1> DEFINE i == NextOf(fan.at)
           f == fan.at
<1>1. fan.pc = "read" /\ f \in Streams /\ ~CaughtUp(f)
  <2>1. fan.pc = "read" /\ ~CaughtUp(f)
    BY DEF FanRead
  <2> QED
    BY <2>1 DEF TInv, FanT, Apart, StreamsT, Streams
<1>2. /\ i \in 1..emitted /\ i \in Seq_ /\ i \in Nat
      /\ i \in Matching(f) /\ \A j \in Matching(f) : i <= j
  BY <1>1, NextFacts
<1>3. /\ streams' = [streams EXCEPT ![f].at = i] /\ seen' = seen \cup {i}
      /\ UNCHANGED shared
  BY DEF FanRead
<1>4. \/ i \in seen /\ UNCHANGED <<cursor, fan, cli>>
      \/ /\ i \notin seen /\ Closed /\ cli' \in {cli, Signalled(cli)}
         /\ \E pc \in {"done", "over"} : fan' = [fan EXCEPT !.pc = pc]
      \/ /\ i \notin seen /\ ~Closed
         /\ cursor' = IF i > cursor THEN i ELSE cursor
         /\ cli' \in {Pushed(i), Signalled(Pushed(i))} /\ UNCHANGED fan
  BY DEF FanRead, Fresh
<1> HIDE DEF i
<1>5. /\ Streams = 1..Len(streams) /\ Len(streams) \in Nat /\ emitted \in Nat /\ cursor \in Nat
      /\ seen \in SUBSET Nat /\ Seq_ \in SUBSET Nat /\ \A s \in Streams : streams[s].at \in Nat
      /\ fan \in FanRecord /\ cli \in [Client -> ClientRecord]
      /\ streams \in Seq(StreamRecord)
  BY DEF TInv, StreamsT, Streams, ServerT, SharesT, Seq_, FanT, ClientsT
<1>6. /\ Streams' = Streams /\ streams'[f].at = i /\ streams'[f].filter = streams[f].filter
      /\ \A s \in Streams \ {f} : streams'[s] = streams[s]
  BY <1>1, <1>2, <1>3, <1>5, StreamFacts DEF Streams
<1>7. streams[f].at < i /\ Carries(f, i)
  BY <1>1, <1>2, <1>5 DEF Matching, Carries
<1>8. ASSUME NEW x \in Nat, x \in Seq_, x < i, Carries(f, x)
      PROVE  x <= streams[f].at
  BY <1>1, <1>2, <1>5, <1>8 DEF Matching, Carries, Seq_
<1>9. fan'.at = f /\ fan'.pc # "opening"
  BY <1>1, <1>4, <1>5 DEF FanRecord
<1>10. Readable' = {f, shared} \cap Streams /\ Readable = {f, shared} \cap Streams
  BY <1>1, <1>3, <1>6, <1>9 DEF Readable
<1>11. \A s \in Streams : \A x : Carries(s, x)' <=> Carries(s, x)
  BY <1>6 DEF Carries
<1>12. cli' \in [Client -> ClientRecord]
       /\ \A c \in Client :
            \/ cli'[c].got = cli[c].got
            \/ i \notin seen /\ ~Closed /\ cli'[c].got = Append(cli[c].got, i)
  <2>1. CASE cli' = cli
    BY <1>5, <2>1
  <2>2. CASE cli' = Signalled(cli)
    BY <1>5, <2>2, SignalledFacts
  <2>3. /\ Pushed(i) \in [Client -> ClientRecord]
        /\ \A c \in Client : \/ Pushed(i)[c].got = cli[c].got
                             \/ Pushed(i)[c].got = Append(cli[c].got, i)
    BY <1>2, <1>5, PushedFacts
  <2>4. /\ Signalled(Pushed(i)) \in [Client -> ClientRecord]
        /\ \A c \in Client : Signalled(Pushed(i))[c].got = Pushed(i)[c].got
    BY <2>3, SignalledFacts
  <2> QED
    BY <1>4, <2>1, <2>2, <2>3, <2>4
<1>13. \A c \in Client : cli[c].got \in Seq(Nat)
  BY <1>5 DEF ClientRecord
<1>14. GotSeen'
  <2>1. SUFFICES ASSUME NEW c \in Client, NEW k \in DOMAIN cli'[c].got
                 PROVE  cli'[c].got[k] \in seen'
    BY DEF GotSeen
  <2>2. CASE cli'[c].got = cli[c].got
    BY <1>3, <2>1, <2>2 DEF SInv, OInv, GotSeen
  <2>3. CASE cli'[c].got = Append(cli[c].got, i)
    BY <1>3, <1>13, <2>1, <2>3 DEF SInv, OInv, GotSeen
  <2> QED
    BY <1>12, <2>2, <2>3
<1>15. UNCHANGED closing
  OBVIOUS
<1>16. ChannelOrder'
  <2>1. SUFFICES ASSUME NEW c \in Client, NEW k \in DOMAIN cli'[c].got, NEW l \in DOMAIN cli'[c].got,
                        k < l,
                        Script[cli'[c].got[k]].channel = Script[cli'[c].got[l]].channel
                 PROVE  cli'[c].got[k] < cli'[c].got[l]
    BY DEF ChannelOrder
  <2>2. CASE cli'[c].got = cli[c].got
    BY <2>1, <2>2 DEF SInv, ChannelOrder
  <2>3. CASE i \notin seen /\ ~Closed /\ cli'[c].got = Append(cli[c].got, i)
    <3> DEFINE g == cli[c].got
    <3>1. /\ g \in Seq(Nat) /\ Len(g) \in Nat /\ DOMAIN g = 1..Len(g)
          /\ DOMAIN cli'[c].got = 1..Len(g) + 1 /\ cli'[c].got[Len(g) + 1] = i
          /\ \A m \in DOMAIN g : cli'[c].got[m] = g[m]
      <4>1. g \in Seq(Nat) /\ Len(g) \in Nat /\ DOMAIN g = 1..Len(g)
        BY <1>13
      <4>2. i \in Nat
        BY <1>2
      <4> HIDE DEF g
      <4>3. /\ DOMAIN Append(g, i) = 1..Len(g) + 1 /\ Append(g, i)[Len(g) + 1] = i
            /\ \A m \in DOMAIN g : Append(g, i)[m] = g[m]
        BY <4>1, <4>2
      <4> QED
        BY <2>3, <4>1, <4>3 DEF g
    <3>2. k \in DOMAIN g /\ cli'[c].got[k] = g[k]
      BY <2>1, <3>1
    <3>3. CASE l \in DOMAIN g
      BY <2>1, <3>1, <3>2, <3>3 DEF SInv, ChannelOrder
    <3>4. CASE l = Len(g) + 1
      <4>1. g[k] \in seen /\ g[k] # i /\ g[k] \in Nat
        BY <1>5, <2>3, <3>2 DEF SInv, OInv, GotSeen
      <4>2. Script[g[k]].channel = Script[i].channel
        BY <2>1, <3>1, <3>2, <3>4
      <4>3. ASSUME i < g[k] PROVE FALSE
        <5>1. f \in Readable /\ Owed(f, i)
          BY <1>1, <1>2, <1>5, <1>7, <1>10 DEF Owed
        <5> QED
          BY <1>2, <2>3, <4>1, <4>2, <4>3, <5>1 DEF SInv, OInv, NoneOverdue
      <4> QED
        <5>1. i \in Nat /\ cli'[c].got[l] = i /\ cli'[c].got[k] = g[k]
          BY <1>2, <3>1, <3>2, <3>4
        <5> HIDE DEF g
        <5>2. g[k] < i
          BY <4>1, <4>3, <5>1
        <5> QED
          BY <5>1, <5>2
    <3>5. l \in DOMAIN g \/ l = Len(g) + 1
      BY <2>1, <3>1
    <3> QED
      BY <3>3, <3>4, <3>5
  <2> QED
    BY <1>12, <2>2, <2>3
<1>17. CASE Closed
  BY <1>14, <1>15, <1>16, <1>17 DEF SInv, OInv, Behind, NoneOverdue, NoneRevived, Closed
<1>18. CASE ~Closed
  <2>1. cursor' \in Nat /\ cursor <= cursor' /\ i <= cursor'
    BY <1>2, <1>4, <1>5, <1>18 DEF SInv, OInv, Behind
  <2>2. /\ \A x \in seen : x <= cursor
        /\ \A s \in Readable : streams[s].at <= cursor
    BY <1>18 DEF SInv, OInv, Behind
  <2>3. Behind'
    <3>1. \A x \in seen' : x <= cursor'
      BY <1>3, <1>5, <2>1, <2>2
    <3>2. ASSUME NEW s \in Readable' PROVE streams'[s].at <= cursor'
      BY <1>5, <1>6, <1>10, <2>1, <2>2
    <3> QED
      BY <3>1, <3>2 DEF Behind
  <2>4. NoneOverdue'
    <3>1. SUFFICES ASSUME NEW s \in Readable', NEW x \in Seq_ \ seen', NEW j \in seen',
                          x < j, Script[x].channel = Script[j].channel
                   PROVE  ~Owed(s, x)'
      BY DEF NoneOverdue
    <3>2. s \in Streams /\ s \in Readable /\ x \in Seq_ \ seen /\ x # i /\ x \in Nat
      BY <1>3, <1>5, <1>10, <3>1
    <3>3. Owed(s, x)' => Owed(s, x)
      BY <1>2, <1>5, <1>6, <1>7, <1>11, <3>2 DEF Owed
    <3>4. CASE j \in seen
      BY <1>18, <3>1, <3>2, <3>3, <3>4 DEF SInv, OInv, NoneOverdue
    <3>5. CASE j = i
      <4>1. CASE s = f
        BY <1>2, <1>6, <3>1, <3>2, <3>5, <4>1 DEF Owed
      <4>2. CASE s # f
        <5>1. Carries(f, x)
          BY <1>1, <1>7, <3>1, <3>5, FlatCarries
        <5>2. x <= streams[f].at
          BY <1>8, <3>1, <3>2, <3>5, <5>1
        <5>3. ~Owed(s, x)
          BY <1>1, <1>18, <3>2, <4>2, <5>1, <5>2 DEF SInv, OInv, NoneRevived
        <5> QED
          BY <3>3, <5>3
      <4> QED
        BY <4>1, <4>2
    <3> QED
      BY <1>3, <3>1, <3>4, <3>5
  <2>5. NoneRevived'
    <3>1. SUFFICES ASSUME NEW t \in Readable', t # f, NEW x \in Seq_ \ seen',
                          matches_subscription(Script[x], streams'[f].filter),
                          x <= streams'[f].at
                   PROVE  ~Owed(t, x)'
      BY <1>9 DEF NoneRevived, Carries
    <3>2. x \in Seq_ \ seen /\ x # i /\ x \in Nat /\ t \in Readable /\ t \in Streams
      BY <1>3, <1>5, <1>10, <3>1
    <3>3. Carries(f, x) /\ x < i
      <4>1. x <= i
        BY <1>6, <3>1
      <4>2. Carries(f, x)
        BY <1>6, <3>1 DEF Carries
      <4> QED
        BY <1>2, <3>2, <4>1, <4>2
    <3>4. x <= streams[f].at
      BY <1>8, <3>2, <3>3
    <3>5. ~Owed(t, x)
      BY <1>1, <1>18, <3>1, <3>2, <3>3, <3>4 DEF SInv, OInv, NoneRevived
    <3> QED
      BY <1>6, <1>11, <3>1, <3>2, <3>5 DEF Owed
  <2> QED
    BY <1>14, <1>16, <2>3, <2>4, <2>5 DEF SInv, OInv
<1> QED
  BY <1>17, <1>18

\* The streams are only closed, or change their state, or one is opened.
LEMMA CalmStreams ==
  ASSUME TInv, TInv', UNCHANGED <<seen, cursor>>, Closed => Closed',
         \A c \in Client : cli'[c].got = cli[c].got,
         fan'.at = fan.at \/ Closed' \/ Readable' \subseteq {fan'.at},
         \A s \in Streams : \/ /\ streams'[s].at = streams[s].at
                               /\ streams'[s].filter = streams[s].filter
                            \/ streams'[s].at = 0 /\ streams'[s].filter = NoFilter,
         \A s \in Readable' : s \in Readable \/ (s \notin Streams /\ streams'[s].at = cursor)
  PROVE  Calm
<1>1. cursor \in Nat
  BY DEF TInv, SharesT, ServerT
<1>2. \A s \in Readable : s \in Streams
  BY DEF Readable
<1> QED
  BY <1>1, <1>2 DEF Calm

LEMMA OrderInit == Init => SInv
<1> SUFFICES ASSUME Init PROVE SInv
  OBVIOUS
<1>1. seen = {} /\ Readable = {} /\ \A c \in Client : cli[c].got = <<>>
  <2>1. \A c \in Client : cli[c].got = <<>>
    BY DEF Init, Out
  <2>2. Streams = {1}
    BY DEF Init, Streams
  <2> QED
    BY <2>1, <2>2 DEF Init, Readable
<1>2. \A c \in Client : DOMAIN cli[c].got = {}
  BY <1>1
<1> QED
  BY <1>1, <1>2 DEF SInv, OInv, Behind, GotSeen, NoneOverdue, NoneRevived, ChannelOrder

\* What moves no stream and hands out nothing.
LEMMA CalmStill ==
  ASSUME TInv, TInv', UNCHANGED <<streams, shared, cursor, seen>>, Closed => Closed',
         \A c \in Client : cli'[c].got = cli[c].got,
         fan'.at = fan.at, fan'.pc = "opening" => fan' = fan
  PROVE  Calm
<1>1. Readable' \subseteq Readable
  BY DEF Readable, Streams
<1> QED
  BY <1>1, CalmStreams

LEMMA OrderStream ==
  ASSUME TInv, TInv', NEW s \in Streams, Connect(s) \/ ConnectFails(s) \/ Drop(s) \/ Hangup(s)
  PROVE  Calm
<1>1. PICK state \in StreamStates : streams' = [streams EXCEPT ![s].state = state]
  BY DEF Connect, ConnectFails, Drop, Hangup, StreamStates
<1>2. UNCHANGED <<shared, cursor, seen, fan, cli, closing>>
  BY DEF Connect, ConnectFails, Drop, Hangup, clients
<1>3. /\ Streams' = Streams
      /\ \A r \in Streams : /\ streams'[r].at = streams[r].at
                            /\ streams'[r].filter = streams[r].filter
  BY <1>1, StreamFacts DEF TInv, StreamsT, Streams
<1>4. Readable' = Readable
  BY <1>2, <1>3 DEF Readable
<1> QED
  BY <1>2, <1>3, <1>4, CalmStreams DEF Closed

LEMMA OrderFanReturns ==
  ASSUME TInv, TInv', FanReturns, UNCHANGED closing
  PROVE  Calm
<1>1. fan'.at = fan.at /\ fan'.pc = "over"
  BY DEF FanReturns, TInv, FanT, FanRecord
<1>2. \A c \in Client : cli'[c].got = cli[c].got
  BY SignalledFacts DEF FanReturns, TInv, ClientsT
<1> QED
  BY <1>1, <1>2, CalmStill DEF FanReturns, Closed

LEMMA OrderFanTurns ==
  ASSUME TInv, TInv', NEW r, r = shared \/ (fan.pc = "opening" /\ r = fan.await),
         FanTurns(r), UNCHANGED closing
  PROVE  Calm
<1>1. CASE Closed
  BY <1>1, OrderFanReturns DEF FanTurns
<1>2. CASE ~Closed
  <2>1. /\ fan' = [fan EXCEPT !.pc = "read", !.at = r, !.await = 0]
        /\ shared' = r /\ UNCHANGED <<streams, cursor, seen, cli>>
    BY <1>2 DEF FanTurns
  <2>2. fan'.pc = "read" /\ fan'.at = r
    BY <2>1 DEF TInv, FanT, FanRecord
  <2>3. Readable' \subseteq {fan'.at} /\ Readable' \subseteq Readable
    BY <2>1, <2>2 DEF Readable, Streams
  <2> QED
    BY <2>1, <2>3, CalmStreams DEF Closed
<1> QED
  BY <1>1, <1>2

LEMMA OrderFanReopens ==
  ASSUME TInv, TInv', NEW filter \in FlatFilter, NEW attempt \in Nat,
         FanReopens(filter, attempt), UNCHANGED closing
  PROVE  Calm
<1>1. CASE attempt >= Attempts \/ Closed
  BY <1>1, OrderFanReturns DEF FanReopens
<1>2. CASE ~(attempt >= Attempts \/ Closed)
  <2>1. /\ streams' = Append(streams, Opened(filter, cursor))
        /\ fan' = [fan EXCEPT !.pc = "opening", !.await = Len(streams) + 1,
                              !.base = filter, !.tries = attempt]
        /\ UNCHANGED <<shared, cursor, seen, cli>>
    BY <1>2 DEF FanReopens
  <2>2. fan'.at = fan.at /\ fan'.await = Len(streams) + 1
    BY <2>1 DEF TInv, FanT, FanRecord
  <2>3. cursor \in Nat /\ streams \in Seq(StreamRecord)
    BY DEF TInv, SharesT, ServerT, StreamsT
  <2>4. /\ Len(streams) + 1 \notin Streams /\ streams'[Len(streams) + 1].at = cursor
        /\ \A r \in Streams : streams'[r] = streams[r]
        /\ Streams' = 1..Len(streams) + 1 /\ Streams = 1..Len(streams) /\ Len(streams) \in Nat
    BY <2>1, <2>3, OpenedFacts DEF Streams
  <2>5. \A r \in Readable' : r \in Readable \/ r = Len(streams) + 1
    BY <2>1, <2>2, <2>4 DEF Readable
  <2> QED
    BY <2>1, <2>2, <2>4, <2>5, CalmStreams DEF Closed
<1> QED
  BY <1>1, <1>2

LEMMA OrderFan ==
  ASSUME TInv, TInv', SInv, Fanout
  PROVE  SInv'
<1>1. UNCHANGED <<server, sharedFilter, round, watcher, commands, closing, faults>>
  BY DEF Fanout
<1>2. CASE FanStart
  BY <1>1, <1>2, OrderFanTurns, CalmStep DEF FanStart
<1>3. CASE FanRead
  BY <1>1, <1>3, OrderRead
<1>4. sharedFilter \in FlatFilter /\ fan.base \in FlatFilter /\ fan.tries \in Nat
  BY DEF TInv, SharesT, FanT, FanRecord
<1>5. CASE FanEnd
  BY <1>1, <1>4, <1>5, OrderFanTurns, OrderFanReturns, OrderFanReopens, CalmStep DEF FanEnd
<1>6. CASE FanReopened
  <2>1. CASE FanTurns(fan.await)
    BY <1>1, <1>6, <2>1, OrderFanTurns, CalmStep DEF FanReopened
  <2>2. CASE fan' = [fan EXCEPT !.pc = "backoff", !.await = 0]
             /\ UNCHANGED <<streams, shared, cursor, seen, cli>>
    <3>1. fan'.at = fan.at /\ fan'.pc = "backoff"
      BY <2>2 DEF TInv, FanT, FanRecord
    <3> QED
      BY <1>1, <2>2, <3>1, CalmStill, CalmStep DEF Closed
  <2> QED
    BY <1>6, <2>1, <2>2 DEF FanReopened
<1>7. CASE FanBackoff
  <2>1. fan.tries + 1 \in Nat
    BY <1>4
  <2> QED
    BY <1>1, <1>4, <1>7, <2>1, OrderFanReopens, CalmStep DEF FanBackoff
<1>8. CASE FanDone
  BY <1>1, <1>8, OrderFanReturns, CalmStep DEF FanDone
<1> QED
  BY <1>2, <1>3, <1>5, <1>6, <1>7, <1>8 DEF Fanout

LEMMA OrderRunning ==
  ASSUME TInv, fan' = Running(fan)
  PROVE  fan'.at = fan.at /\ (fan'.pc = "opening" => fan' = fan)
BY DEF Running, TInv, FanT, FanRecord

LEMMA OrderReconcile ==
  ASSUME TInv, TInv', NEW c \in Client, Reconcile(c), UNCHANGED <<cursor, seen, closing>>
  PROVE  Calm
<1>1. cli \in [Client -> ClientRecord] /\ cursor \in Nat /\ streams \in Seq(StreamRecord)
  BY DEF TInv, ClientsT, SharesT, ServerT, StreamsT
<1>2. \A d \in Client : cli'[d].got = cli[d].got
  <2>1. PICK s : s.got = cli[c].got /\ cli' = [cli EXCEPT ![c] = s]
    <3> DEFINE begun == [pc |-> "iter", await |-> 0, old |-> 0, from |-> cursor,
                         got |-> cli[c].got, ended |-> cli[c].ended,
                         start |-> IF cli[c].pc = "gate" THEN cli[c].start
                                   ELSE Len(cli[c].got)]
               wait == [begun EXCEPT !.pc = "ready", !.await = Len(streams) + 1, !.old = shared]
    <3>1. cli' = [cli EXCEPT ![c] = begun] \/ cli' = [cli EXCEPT ![c] = wait]
      BY DEF Reconcile
    <3>2. begun.got = cli[c].got /\ wait.got = cli[c].got
      OBVIOUS
    <3> QED
      BY <3>1, <3>2
  <2> QED
    BY <1>1, <2>1
<1>3. CASE fan' = Running(fan) /\ UNCHANGED <<streams, shared>>
  BY <1>2, <1>3, OrderRunning, CalmStill DEF Closed
<1>4. CASE /\ \E D \in SUBSET Client :
                streams' = Append(streams, Opened(compute_union_filter(
                             {FilterOf[d] : d \in D} \cup {Lifecycle}), cursor))
           /\ shared' = Len(streams) + 1 /\ UNCHANGED fan
  <2>1. PICK D \in SUBSET Client :
                streams' = Append(streams, Opened(compute_union_filter(
                             {FilterOf[d] : d \in D} \cup {Lifecycle}), cursor))
    BY <1>4
  <2>2. compute_union_filter({FilterOf[d] : d \in D} \cup {Lifecycle}) \in FlatFilter
    BY UnionFlat
  <2>3. /\ Len(streams) + 1 \notin Streams /\ streams'[Len(streams) + 1].at = cursor
        /\ \A r \in Streams : streams'[r] = streams[r]
        /\ Streams' = 1..Len(streams) + 1 /\ Streams = 1..Len(streams) /\ Len(streams) \in Nat
    BY <1>1, <2>1, <2>2, OpenedFacts DEF Streams
  <2>4. fan.at \in 0..Len(streams) /\ (fan.pc = "opening" => fan.await \in Streams)
    BY DEF TInv, FanT
  <2>5. \A r \in Readable' : r \in Readable \/ r = Len(streams) + 1
    BY <1>4, <2>3, <2>4 DEF Readable
  <2> QED
    BY <1>2, <1>4, <2>3, <2>5, CalmStreams DEF Closed
<1>5. {d \in Client : Subscribed(d)} \cup {c} \in SUBSET Client
  OBVIOUS
<1> QED
  BY <1>3, <1>4, <1>5 DEF Reconcile

LEMMA OrderClient ==
  ASSUME TInv, TInv', NEW c \in Client, Subscribe(c) \/ GateOpens(c) \/ Rotated(c) \/ Leave(c)
  PROVE  Calm
<1>1. cli \in [Client -> ClientRecord] /\ streams \in Seq(StreamRecord)
  BY DEF TInv, ClientsT, StreamsT
<1>2. CASE (Subscribe(c) \/ GateOpens(c)) /\ Reconcile(c)
  BY <1>2, OrderReconcile DEF Subscribe, GateOpens
<1>3. CASE Subscribe(c) /\ ~Reconcile(c)
  <2>1. /\ UNCHANGED <<streams, shared, fan, cursor, seen, closing>>
        /\ cli' = [cli EXCEPT ![c].pc = "gate", ![c].start = Len(cli[c].got)]
    BY <1>3 DEF Subscribe
  <2>2. \A d \in Client : cli'[d].got = cli[d].got
    BY <1>1, <2>1 DEF ClientRecord
  <2> QED
    BY <2>1, <2>2, CalmStill DEF Closed
<1>4. CASE Rotated(c)
  <2>1. /\ UNCHANGED <<shared, cursor, seen, closing>> /\ fan' = Running(fan)
        /\ streams' = ClosedIn(streams, {cli[c].old})
        /\ cli' = [cli EXCEPT ![c].pc = "iter", ![c].await = 0, ![c].old = 0]
    BY <1>4 DEF Rotated
  <2>2. \A d \in Client : cli'[d].got = cli[d].got
    BY <1>1, <2>1 DEF ClientRecord
  <2>3. /\ Streams' = Streams
        /\ \A r \in Streams : \/ streams'[r] = streams[r]
                              \/ streams'[r].at = 0 /\ streams'[r].filter = NoFilter
    BY <1>1, <2>1, ClosedFacts DEF Streams
  <2>4. fan'.at = fan.at /\ (fan'.pc = "opening" => fan' = fan)
    BY <2>1, OrderRunning
  <2>5. Readable' \subseteq Readable
    BY <2>1, <2>3, <2>4 DEF Readable
  <2> QED
    BY <2>1, <2>2, <2>3, <2>4, <2>5, CalmStreams DEF Closed
<1>5. CASE Leave(c)
  <2>1. UNCHANGED <<streams, shared, fan, cursor, seen, closing>> /\ cli' = [cli EXCEPT ![c] = Left(c)]
    BY <1>5 DEF Leave, shares
  <2>2. \A d \in Client : cli'[d].got = cli[d].got
    BY <1>1, <2>1 DEF Left, Out, ClientRecord
  <2> QED
    BY <2>1, <2>2, CalmStill DEF Closed
<1> QED
  BY <1>2, <1>3, <1>4, <1>5 DEF GateOpens

LEMMA OrderCommand ==
  ASSUME TInv, TInv',
         StartRun \/ StartAnswered \/ StartFails \/ Respond \/ RespondAccepted \/ RespondAnswered
  PROVE  Calm
<1>1. CASE StartRun \/ StartAnswered \/ Respond \/ RespondAccepted
  <2>1. UNCHANGED <<streams, shared, fan, cursor, seen, closing, cli>>
    BY <1>1 DEF StartRun, StartAnswered, Respond, RespondAccepted, shares, clients
  <2> QED
    BY <2>1, CalmStill DEF Closed
<1>2. CASE StartFails
  <2>1. UNCHANGED <<streams, shared, fan, cursor, seen, closing>>
        /\ cli' = [c \in Client |-> IF cli[c].pc = "gate" THEN Left(c) ELSE cli[c]]
    BY <1>2 DEF StartFails, shares
  <2>2. \A d \in Client : cli'[d].got = cli[d].got
    BY <2>1 DEF Left, Out
  <2> QED
    BY <2>1, <2>2, CalmStill DEF Closed
<1>3. CASE RespondAnswered
  <2>1. /\ UNCHANGED <<streams, shared, fan, seen, cli, closing>>
        /\ cursor' = IF asking > cursor THEN asking ELSE cursor
    BY <1>3 DEF RespondAnswered, clients
  <2>2. cursor' \in Nat /\ cursor <= cursor'
    BY <2>1 DEF TInv, SharesT, ServerT, CommandsT
  <2>3. Readable' = Readable
    BY <2>1 DEF Readable, Streams
  <2> QED
    BY <2>1, <2>2, <2>3 DEF Calm, Closed
<1> QED
  BY <1>1, <1>2, <1>3

LEMMA OrderWatcher ==
  ASSUME TInv, TInv', Watcher
  PROVE  Calm
<1>1. UNCHANGED <<shared, cursor, seen, fan, closing>>
  BY DEF Watcher
<1>2. /\ streams \in Seq(StreamRecord) /\ Streams = 1..Len(streams) /\ Len(streams) \in Nat
      /\ cli \in [Client -> ClientRecord] /\ watch.at \in Streams /\ lcursor \in Nat
      /\ shared \in 0..Len(streams) /\ fan.at \in 0..Len(streams)
      /\ fan.pc = "opening" => fan.await \in Streams
  <2>1. /\ streams \in Seq(StreamRecord) /\ cli \in [Client -> ClientRecord]
        /\ watch.at \in Streams
        /\ shared \in 0..Len(streams) /\ fan.at \in 0..Len(streams)
        /\ fan.pc = "opening" => fan.await \in Streams
    BY DEF TInv, StreamsT, ClientsT, WatcherT, SharesT, FanT
  <2>2. Streams = 1..Len(streams) /\ Len(streams) \in Nat
    BY <2>1 DEF Streams
  <2>3. emitted \in Nat /\ lcursor \in 0..emitted
    BY StreamAssumption DEF TInv, ServerT, WatcherT
  <2>4. lcursor \in Nat
    BY <2>3
  <2> QED
    BY <2>1, <2>2, <2>4
<1>3. CASE WatchStarts \/ WatchEnd
  BY <1>1, <1>3, CalmStill DEF WatchStarts, WatchEnd, Closed
<1>4. CASE WatchReopens
  <2>1. streams' = Append(streams, Opened(LifecycleInput, lcursor)) /\ UNCHANGED cli
    BY <1>4 DEF WatchReopens, WatchOpens
  <2>2. /\ Streams' = 1..Len(streams) + 1
        /\ \A r \in Streams : streams'[r] = streams[r]
    BY <1>2, <2>1, FlatFilters, OpenedFacts DEF Streams
  <2>3. Readable' \subseteq Readable
    BY <1>1, <1>2, <2>2 DEF Readable
  <2> QED
    BY <1>1, <2>1, <2>2, <2>3, CalmStreams DEF Closed
<1>5. CASE WatchRead
  <2>1. ~CaughtUp(watch.at) /\ watch.pc = "read"
    BY <1>5 DEF WatchRead
  <2>2. NextOf(watch.at) \in Nat
    BY <1>2, <2>1, NextFacts
  <2>3. streams' = [streams EXCEPT ![watch.at].at = NextOf(watch.at)]
    BY <1>5 DEF WatchRead
  <2>4. Streams' = Streams /\ \A r \in Streams \ {watch.at} : streams'[r] = streams[r]
    BY <1>2, <2>2, <2>3, StreamFacts DEF Streams
  <2>5. watch.at \notin Readable
    BY DEF TInv, Apart, Readable
  <2>6. Readable' = Readable
    BY <1>1, <2>4 DEF Readable
  <2>7. \A c \in Client : cli'[c].got = cli[c].got
    <3>1. cli' = cli \/ cli' = Signalled(cli)
      BY <1>5 DEF WatchRead
    <3>2. CASE cli' = Signalled(cli)
      BY <1>2, <3>2, SignalledFacts
    <3> QED
      BY <3>1, <3>2
  <2>8. \A r \in Readable' : r \in Readable /\ r \in Streams \ {watch.at}
    BY <2>5, <2>6 DEF Readable
  <2> QED
    BY <1>1, <1>2, <2>4, <2>7, <2>8 DEF Calm, Closed, TInv, SharesT, ServerT
<1> QED
  BY <1>3, <1>4, <1>5 DEF Watcher

LEMMA OrderClose ==
  ASSUME TInv, TInv', CloseBegins \/ CloseEnds
  PROVE  Calm
<1>1. Closed' /\ UNCHANGED <<cursor, seen, cli>>
  BY DEF CloseBegins, CloseEnds, Closed, clients
<1>2. cursor \in Nat
  BY DEF TInv, SharesT, ServerT
<1> QED
  BY <1>1, <1>2 DEF Calm

LEMMA OrderStep == TInv /\ SInv /\ [Next]_vars => SInv'
<1> SUFFICES ASSUME TInv, SInv, [Next]_vars PROVE SInv'
  OBVIOUS
<1>0. TInv'
  BY TypesStep
<1>1. CASE Emit
  <2>1. UNCHANGED <<streams, shared, cursor, seen, fan, cli, closing>>
    BY <1>1 DEF Emit, shares, clients
  <2> QED
    BY <1>0, <2>1, CalmStill, CalmStep DEF Closed
<1>2. CASE \E s \in Streams : Connect(s) \/ ConnectFails(s) \/ Drop(s) \/ Hangup(s)
  BY <1>0, <1>2, OrderStream, CalmStep
<1>3. CASE Fanout
  BY <1>0, <1>3, OrderFan
<1>4. CASE \E c \in Client : Subscribe(c) \/ GateOpens(c) \/ Rotated(c) \/ Leave(c)
  BY <1>0, <1>4, OrderClient, CalmStep
<1>5. CASE StartRun \/ StartAnswered \/ StartFails \/ Respond \/ RespondAccepted \/ RespondAnswered
  BY <1>0, <1>5, OrderCommand, CalmStep
<1>6. CASE Watcher
  BY <1>0, <1>6, OrderWatcher, CalmStep
<1>7. CASE CloseBegins \/ CloseEnds
  BY <1>0, <1>7, OrderClose, CalmStep
<1>8. CASE UNCHANGED vars
  <2>1. UNCHANGED <<streams, shared, cursor, seen, fan, cli, closing>>
    BY <1>8 DEF vars, shares, clients
  <2> QED
    BY <1>0, <2>1, CalmStill, CalmStep DEF Closed
<1> QED
  BY <1>1, <1>2, <1>3, <1>4, <1>5, <1>6, <1>7, <1>8 DEF Next

\* Through rotations, replays, reconnects and close(), in whatever order the
\* tasks run, no iterator is handed two events of one channel out of order or
\* one of them twice (_dedup_iter: "drops any overlap").
THEOREM OrderIsKept == Spec => []ChannelOrder
<1>1. Init => TInv /\ SInv
  BY TypesInit, OrderInit
<1>2. TInv /\ SInv /\ [Next]_vars => (TInv /\ SInv)'
  BY TypesStep, OrderStep
<1>3. SInv => ChannelOrder
  BY DEF SInv
<1> QED
  BY <1>1, <1>2, <1>3, PTL DEF Spec
=============================================================================
