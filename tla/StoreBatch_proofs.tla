---------------------------- MODULE StoreBatch_proofs ----------------------------
(***************************************************************************)
(* Proofs about StoreBatch, for any keys, operations, numbers of calls,    *)
(* cancellations and crashes.                                              *)
(*                                                                         *)
(* The argument follows one batch through its transaction: which calls are *)
(* in it, what the connection has of it at each stage, and what the file   *)
(* holds before and after.                                                 *)
(***************************************************************************)
EXTENDS StoreBatch, Facts

-------------------------------------------------------------------------------
(* The inductive invariant.                                                *)

Numbers == 0..MaxCalls
Item    == [val : Numbers, ttl : {"none", "fresh", "expired"}]
Answers == (SUBSET (Keys \X Numbers)) \cup {Unknown}
Record  == [op : Op, via : {"queue", "direct"},
            st : {"pending", "answered", "failed", "cancelled"}, ans : Answers]
Stages  == {"free", "begin", "read", "delete", "insert", "commit", "end"}

Types ==
  /\ calls \in Seq(Record) /\ Len(calls) <= MaxCalls
  /\ \A i \in DOMAIN calls : calls[i].st = "answered" <=> calls[i].ans # Unknown
  /\ tx = [stage |-> tx.stage, results |-> tx.results, err |-> tx.err]
  /\ tx.stage \in Stages /\ tx.err \in BOOLEAN
  /\ work \in [Keys -> Item] /\ disk \in [Keys -> Item]
  /\ open \in BOOLEAN /\ crashes \in 0..MaxCrashes

(* A call of the queue is behind all that _run took before it.             *)
Queued == {i \in DOMAIN calls : calls[i].via = "queue"}
Done   == {i \in Queued : calls[i].st = "answered"}

Order ==
  /\ queue \in Seq(Nat) /\ ToSet(queue) \subseteq Queued /\ items \subseteq Queued
  /\ \A q \in ToSet(queue), i \in items \cup Done : i < q
  /\ \A i \in items : calls[i].st \in {"pending", "cancelled"}
  /\ \A i \in items, d \in Done : d < i
  /\ \A i \in Queued : calls[i].st = "pending" => i \in items \cup ToSet(queue)

(* The lock: its holder and those who wait, each once.                     *)
Held(p) == p = 1 /\ tx.stage # "free"

Locks ==
  /\ lockq \in Seq(Nat)
  /\ \A p \in DOMAIN lockq :
       \/ lockq[p] = 0
       \/ /\ lockq[p] \in DOMAIN calls /\ calls[lockq[p]].via = "direct"
          /\ \/ calls[lockq[p]].st = "pending"
             \/ calls[lockq[p]].st = "cancelled" /\ Held(p)
  /\ \A p, q \in DOMAIN lockq : lockq[p] = lockq[q] => p = q
  /\ (\E p \in DOMAIN lockq : lockq[p] = 0) <=> items # {}
  /\ tx.stage # "free" => lockq # <<>>
  /\ \A i \in DOMAIN calls : calls[i].via = "direct" /\ calls[i].st = "pending" =>
       \E p \in DOMAIN lockq : lockq[p] = i

(* What a store looks like to a caller.                                    *)
View(store) == [k \in Keys |-> [val |-> store[k].val, kept |-> store[k].ttl = "none"]]
Nothing     == [val |-> 0, kept |-> TRUE]

InTx    == Batch(Head(lockq))
To(k)   == {i \in InTx : Writes(i) /\ KeyOf(i) = k}
LastTo(k) == Max(To(k))
Put(i)  == IF calls[i].op.kind = "put" THEN [val |-> i, kept |-> ~ calls[i].op.ttl] ELSE Nothing

(* Key k in the store w of the connection, against the store d of the file:*)
(* untouched but for what a sweep removes, or what the last write left.    *)
Left(k, w, d) ==
  \/ View(w)[k] = View(d)[k]
  \/ /\ ~ View(d)[k].kept /\ View(w)[k] = Nothing
     /\ \E i \in InTx : calls[i].op.kind = "sweep"

Effect(k, w) == View(w)[k] = Put(LastTo(k))

Cancelled == Head(lockq) # 0 /\ calls[Head(lockq)].st = "cancelled"

(* The transaction, from stage to stage.                                   *)
AfterDelete(w, d) ==
  \A k \in Keys : IF To(k) # {} /\ calls[LastTo(k)].op.kind = "del"
                  THEN Effect(k, w) ELSE Left(k, w, d)
AfterInsert(w, d) ==
  \A k \in Keys : IF To(k) # {} THEN Effect(k, w) ELSE Left(k, w, d)
AfterSome(w, d) ==
  \A k \in Keys : Left(k, w, d) \/ (To(k) # {} /\ Effect(k, w))

Progress ==
  /\ tx.stage \in {"free", "begin", "read", "end"} => work = disk
  /\ tx.stage \in {"free", "begin", "read", "delete", "insert"} => ~ tx.err
  /\ tx.stage \in {"begin", "read", "delete", "insert"} => ~ Cancelled
  /\ tx.stage = "delete" => View(work) = View(disk)
  /\ tx.stage = "insert" => AfterDelete(work, disk)
  /\ tx.stage = "commit" => AfterSome(work, disk)
  /\ tx.stage = "commit" /\ ~ tx.err /\ ~ Cancelled => AfterInsert(work, disk)

(* The results a batch has ready are those of the store it began with.     *)
Ready ==
  \A i \in DOMAIN calls :
    /\ tx.stage \in {"delete", "insert", "commit", "end"} /\ ~ tx.err
    /\ i \in InTx /\ calls[i].st = "pending"
    => /\ tx.results[Listen(InTx, i)] \in SUBSET (Keys \X Numbers)
       /\ tx.stage # "end" => tx.results[Listen(InTx, i)] = Answer(i, disk)

(* The later of two writes wins, also against the batch just executed.     *)
Settled(S) ==
  \A k \in Keys : disk[k].val # 0 =>
    /\ disk[k].val \in DOMAIN calls
    /\ calls[disk[k].val].via = "queue" =>
         \A j \in S : Writes(j) /\ KeyOf(j) = k => j <= disk[k].val

Wins ==
  /\ Settled(Done)
  /\ tx.stage = "end" /\ ~ tx.err /\ Head(lockq) = 0 => Settled(items)

(* Outside of a batch the connection is in no transaction.                 *)
OpenInside == open <=> tx.stage \in {"read", "delete", "insert", "commit"}

IInv == Types /\ Order /\ Locks /\ Progress /\ Ready /\ Wins

-------------------------------------------------------------------------------
(* The calls of a batch.                                                   *)

LEMMA CallFacts ==
  ASSUME Types
  PROVE  /\ DOMAIN calls = 1..Len(calls) /\ Len(calls) \in Nat /\ IsFiniteSet(DOMAIN calls)
         /\ DOMAIN calls \subseteq Nat \ {0} /\ MaxCalls \in Nat
         /\ \A i \in DOMAIN calls : calls[i] \in Record /\ i \in Numbers
<1>1. calls \in Seq(Record) /\ Len(calls) <= MaxCalls
  BY DEF Types
<1>2. MaxCalls \in Nat
  BY StoreAssumption
<1> HIDE DEF Record
<1>3. DOMAIN calls = 1..Len(calls) /\ Len(calls) \in Nat /\ \A i \in DOMAIN calls : calls[i] \in Record
  BY <1>1
<1>4. IsFiniteSet(DOMAIN calls)
  BY <1>3, FS_Interval
<1>5. \A i \in DOMAIN calls : i \in Numbers /\ i \in Nat \ {0}
  BY <1>1, <1>2, <1>3 DEF Numbers
<1> QED
  BY <1>2, <1>3, <1>4, <1>5

LEMMA ListenFacts ==
  ASSUME Types, NEW batch, batch \subseteq DOMAIN calls, NEW i \in batch
  PROVE  /\ Listen(batch, i) \in batch /\ Same(i, Listen(batch, i))
         /\ \A j \in batch : Same(i, j) => j <= Listen(batch, i)
<1> DEFINE S == {j \in batch : Same(i, j)}
<1>1. i \in S
  BY DEF Same
<1>2. S \subseteq DOMAIN calls
  OBVIOUS
<1>3. S \subseteq Nat /\ IsFiniteSet(S)
  BY <1>2, CallFacts, FS_Subset
<1>4. Listen(batch, i) = Max(S)
  BY DEF Listen
<1> HIDE DEF S
<1>5. Max(S) \in S /\ \A y \in S : y <= Max(S)
  BY <1>1, <1>3, MaxExists
<1> QED
  BY <1>4, <1>5 DEF S

(* The batch of the transaction that runs.                                 *)
LEMMA InTxFacts ==
  ASSUME Types, Order, Locks, tx.stage # "free"
  PROVE  /\ InTx \subseteq DOMAIN calls /\ lockq # <<>> /\ 1 \in DOMAIN lockq
         /\ Head(lockq) = lockq[1]
         /\ \/ Head(lockq) = 0 /\ InTx = items /\ items # {}
            \/ /\ Head(lockq) \in DOMAIN calls /\ Head(lockq) # 0 /\ InTx = {Head(lockq)}
               /\ calls[Head(lockq)].via = "direct"
<1>1. lockq \in Seq(Nat) /\ lockq # <<>>
  BY DEF Locks
<1>2. 1 \in DOMAIN lockq /\ Head(lockq) = lockq[1]
  BY <1>1
<1>3. lockq[1] = 0 \/ (lockq[1] \in DOMAIN calls /\ calls[lockq[1]].via = "direct")
  BY <1>2 DEF Locks
<1>4. 0 \notin DOMAIN calls
  BY CallFacts
<1>5. lockq[1] = 0 => items # {}
  BY <1>2 DEF Locks
<1> QED
  BY <1>1, <1>2, <1>3, <1>4, <1>5 DEF Order, Queued, InTx, Batch

(* Of the writes of a batch to one key, the last is the one that counts.   *)
LEMMA LastFacts ==
  ASSUME Types, InTx \subseteq DOMAIN calls, NEW k, To(k) # {}
  PROVE  /\ LastTo(k) \in To(k) /\ \A j \in To(k) : j <= LastTo(k)
         /\ LastTo(k) \in Dedupped(InTx)
         /\ \A i \in Dedupped(InTx) : Writes(i) /\ KeyOf(i) = k => i = LastTo(k)
<1>1. To(k) \subseteq InTx
  BY DEF To
<1>2. To(k) \subseteq Nat /\ IsFiniteSet(To(k))
  BY <1>1, CallFacts, FS_Subset
<1>3. LastTo(k) \in To(k) /\ \A j \in To(k) : j <= LastTo(k)
  BY <1>2, MaxExists DEF LastTo
<1>4. ASSUME NEW i \in InTx, Writes(i), KeyOf(i) = k
      PROVE  Listen(InTx, i) = LastTo(k)
  <2>1. {j \in InTx : Same(i, j)} = To(k)
    BY <1>4 DEF Same, To
  <2> QED
    BY <2>1 DEF Listen, LastTo
<1>5. LastTo(k) \in InTx /\ Writes(LastTo(k)) /\ KeyOf(LastTo(k)) = k
  BY <1>3 DEF To
<1>6. LastTo(k) \in Dedupped(InTx)
  BY <1>4, <1>5 DEF Dedupped
<1>7. ASSUME NEW i \in Dedupped(InTx), Writes(i), KeyOf(i) = k PROVE i = LastTo(k)
  <2>1. PICK j \in InTx : i = Listen(InTx, j)
    BY DEF Dedupped
  <2>2. i \in InTx /\ Same(j, i)
    BY <2>1, ListenFacts
  <2>3. Writes(j) /\ KeyOf(j) = k
    BY <1>7, <2>2 DEF Same, Writes
  <2> QED
    BY <1>4, <2>1, <2>3
<1> QED
  BY <1>3, <1>6, <1>7

LEMMA DeduppedInTx ==
  ASSUME Types, InTx \subseteq DOMAIN calls
  PROVE  Dedupped(InTx) \subseteq InTx
BY ListenFacts DEF Dedupped

-------------------------------------------------------------------------------
(* What the statements of a transaction do to the items.                   *)

LEMMA RenewFacts ==
  ASSUME NEW s \in [Keys -> Item], NEW keys
  PROVE  Renew(s, keys) \in [Keys -> Item] /\ View(Renew(s, keys)) = View(s)
<1> DEFINE r == Renew(s, keys)
<1>1. ASSUME NEW k \in Keys
      PROVE  r[k] \in Item /\ r[k].val = s[k].val /\ (r[k].ttl = "none" <=> s[k].ttl = "none")
  BY DEF Renew, Item
<1>2. r \in [Keys -> Item]
  BY <1>1 DEF Renew
<1>3. View(r) = View(s)
  <2> HIDE DEF r
  <2> QED
    BY <1>1 DEF View
<1> QED
  BY <1>2, <1>3

LEMMA DeletedFacts ==
  ASSUME Types, InTx \subseteq DOMAIN calls, View(work) = View(disk)
  PROVE  Deleted \in [Keys -> Item] /\ AfterDelete(Deleted, disk)
<1> DEFINE gone  == {KeyOf(i) : i \in Ops(InTx, "del")}
           swept == IF Ops(InTx, "sweep") = {} THEN {}
                    ELSE {k \in Keys : work[k].ttl = "expired"}
<1>1. Deleted = [k \in Keys |-> IF k \in gone \cup swept THEN NoItem ELSE work[k]]
  BY DEF Deleted, InTx
<1>2. NoItem \in Item
  <2>1. 0 \in Numbers
    BY CallFacts DEF Numbers
  <2> QED
    BY <2>1 DEF NoItem, Item
<1>3. work \in [Keys -> Item]
  BY DEF Types
<1>4. Deleted \in [Keys -> Item]
  BY <1>1, <1>2, <1>3
<1>5. ASSUME NEW k \in Keys, k \in gone \cup swept PROVE View(Deleted)[k] = Nothing
  BY <1>1, <1>5 DEF View, NoItem, Nothing
<1>6. ASSUME NEW k \in Keys, k \notin gone \cup swept PROVE View(Deleted)[k] = View(disk)[k]
  BY <1>1, <1>6 DEF View
<1>7. ASSUME NEW k \in Keys, k \in swept
      PROVE  ~ View(disk)[k].kept /\ \E i \in InTx : calls[i].op.kind = "sweep"
  <2>1. work[k].ttl = "expired" /\ Ops(InTx, "sweep") # {}
    BY <1>7
  <2>2. ~ View(work)[k].kept
    BY <2>1 DEF View
  <2> QED
    BY <2>1, <2>2, DeduppedInTx DEF Ops
<1>8. ASSUME NEW k \in Keys, To(k) # {}
      PROVE  k \in gone <=> calls[LastTo(k)].op.kind = "del"
  <2>1. /\ LastTo(k) \in Dedupped(InTx) /\ LastTo(k) \in To(k)
        /\ \A i \in Dedupped(InTx) : Writes(i) /\ KeyOf(i) = k => i = LastTo(k)
    BY <1>8, LastFacts
  <2>2. KeyOf(LastTo(k)) = k
    BY <2>1 DEF To
  <2> QED
    BY <2>1, <2>2 DEF Ops, Writes
<1>9. ASSUME NEW k \in Keys, k \in gone PROVE To(k) # {}
  <2>1. PICK i \in Ops(InTx, "del") : KeyOf(i) = k
    BY <1>9
  <2>2. i \in InTx /\ Writes(i)
    BY <2>1, DeduppedInTx DEF Ops, Writes
  <2> QED
    BY <2>1, <2>2 DEF To
<1> HIDE DEF gone, swept
<1>10. ASSUME NEW k \in Keys
       PROVE  IF To(k) # {} /\ calls[LastTo(k)].op.kind = "del"
              THEN Effect(k, Deleted) ELSE Left(k, Deleted, disk)
  <2>1. CASE k \in gone
    <3>1. To(k) # {} /\ calls[LastTo(k)].op.kind = "del"
      BY <1>8, <1>9, <2>1
    <3> QED
      BY <1>5, <2>1, <3>1 DEF Effect, Put
  <2>2. CASE k \notin gone
    <3>1. ~ (To(k) # {} /\ calls[LastTo(k)].op.kind = "del")
      BY <1>8, <2>2
    <3>2. Left(k, Deleted, disk)
      BY <1>5, <1>6, <1>7, <2>2 DEF Left
    <3> QED
      BY <3>1, <3>2
  <2> QED
    BY <2>1, <2>2
<1> QED
  BY <1>4, <1>10 DEF AfterDelete

LEMMA InsertedFacts ==
  ASSUME Types, InTx \subseteq DOMAIN calls, AfterDelete(work, disk)
  PROVE  Inserted \in [Keys -> Item] /\ AfterInsert(Inserted, disk)
<1> DEFINE puts == Ops(InTx, "put")
           put(k) == CHOOSE i \in puts : KeyOf(i) = k
           New(i) == [val |-> i, ttl |-> IF calls[i].op.ttl THEN "fresh" ELSE "none"]
<1>1. Inserted = [k \in Keys |-> IF \E i \in puts : KeyOf(i) = k THEN New(put(k)) ELSE work[k]]
  BY DEF Inserted, InTx
<1>2. puts \subseteq DOMAIN calls
  BY DeduppedInTx DEF Ops
<1>3. \A i \in puts : New(i) \in Item
  BY <1>2, CallFacts DEF Item
<1>4. ASSUME NEW k \in Keys, \E i \in puts : KeyOf(i) = k PROVE put(k) \in puts /\ KeyOf(put(k)) = k
  BY <1>4
<1>5. work \in [Keys -> Item]
  BY DEF Types
<1>6. ASSUME NEW k \in Keys, \E i \in puts : KeyOf(i) = k
      PROVE  /\ To(k) # {} /\ put(k) = LastTo(k) /\ calls[LastTo(k)].op.kind = "put"
  <2>1. put(k) \in Dedupped(InTx) /\ Writes(put(k)) /\ KeyOf(put(k)) = k /\ calls[put(k)].op.kind = "put"
    BY <1>4, <1>6 DEF Ops, Writes
  <2> HIDE DEF put
  <2>2. put(k) \in To(k)
    BY <2>1, DeduppedInTx DEF To
  <2>3. put(k) = LastTo(k)
    BY <2>1, <2>2, LastFacts
  <2> QED
    BY <2>1, <2>2, <2>3
<1>7. ASSUME NEW k \in Keys, To(k) # {}, ~ \E i \in puts : KeyOf(i) = k
      PROVE  calls[LastTo(k)].op.kind = "del"
  <2>1. LastTo(k) \in Dedupped(InTx) /\ LastTo(k) \in To(k)
    BY <1>7, LastFacts
  <2> QED
    BY <1>7, <2>1 DEF To, Ops, Writes
<1> HIDE DEF puts, put
<1>8. \A k \in Keys : Inserted[k] \in Item
  BY <1>1, <1>3, <1>4, <1>5
<1>9. Inserted \in [Keys -> Item]
  <2>1. Inserted = [k \in Keys |-> Inserted[k]]
    BY <1>1
  <2> QED
    BY <1>8, <2>1
<1>10. ASSUME NEW k \in Keys
       PROVE  IF To(k) # {} THEN Effect(k, Inserted) ELSE Left(k, Inserted, disk)
  <2>1. CASE \E i \in puts : KeyOf(i) = k
    <3>1. /\ To(k) # {} /\ put(k) = LastTo(k) /\ calls[LastTo(k)].op.kind = "put"
      BY <1>6, <2>1
    <3>2. Inserted[k] = New(LastTo(k))
      BY <1>1, <2>1, <3>1
    <3>3. View(Inserted)[k] = [val |-> LastTo(k), kept |-> ~ calls[LastTo(k)].op.ttl]
      BY <3>2 DEF View
    <3> QED
      BY <3>1, <3>3 DEF Effect, Put
  <2>2. CASE ~ \E i \in puts : KeyOf(i) = k
    <3>1. Inserted[k] = work[k]
      BY <1>1, <2>2
    <3>2. View(Inserted)[k] = View(work)[k]
      BY <3>1 DEF View
    <3>3. To(k) # {} => calls[LastTo(k)].op.kind = "del"
      BY <1>7, <2>2
    <3> QED
      BY <3>2, <3>3 DEF AfterDelete, Effect, Left
  <2> QED
    BY <2>1, <2>2
<1> QED
  BY <1>9, <1>10 DEF AfterInsert

LEMMA SomeOfIt ==
  ASSUME NEW w, NEW d
  PROVE  /\ View(w) = View(d) => AfterSome(w, d)
         /\ AfterDelete(w, d) => AfterSome(w, d)
         /\ AfterInsert(w, d) => AfterSome(w, d)
BY DEF AfterSome, AfterDelete, AfterInsert, Left

-------------------------------------------------------------------------------
(* Steps that leave the transaction where it is.                           *)

Grown ==
  /\ DOMAIN calls \subseteq DOMAIN calls'
  /\ \A i \in DOMAIN calls : calls'[i].op = calls[i].op /\ calls'[i].via = calls[i].via

LEMMA BatchKept ==
  ASSUME Types, InTx \subseteq DOMAIN calls, Grown, InTx' = InTx
  PROVE  /\ \A k \in Keys : To(k)' = To(k) /\ LastTo(k)' = LastTo(k)
         /\ \A i \in InTx : /\ Put(i)' = Put(i) /\ Listen(InTx, i)' = Listen(InTx, i)
                            /\ calls'[i].op = calls[i].op
<1>1. \A i \in InTx : calls'[i].op = calls[i].op
  BY DEF Grown
<1>2. \A k \in Keys : To(k)' = To(k)
  BY <1>1 DEF To, Writes, KeyOf
<1>3. \A k \in Keys : LastTo(k)' = LastTo(k)
  BY <1>2 DEF LastTo
<1>4. \A i \in InTx : Put(i)' = Put(i)
  BY <1>1 DEF Put
<1>5. ASSUME NEW i \in InTx PROVE Listen(InTx, i)' = Listen(InTx, i)
  <2>1. {j \in InTx' : Same(i, j)'} = {j \in InTx : Same(i, j)}
    BY <1>1 DEF Same, Writes, KeyOf
  <2> QED
    BY <2>1 DEF Listen
<1> QED
  BY <1>1, <1>2, <1>3, <1>4, <1>5

LEMMA AfterKept ==
  ASSUME Types, InTx \subseteq DOMAIN calls, Grown, InTx' = InTx,
         View(work') = View(work), View(disk') = View(disk)
  PROVE  /\ AfterDelete(work, disk) => AfterDelete(work, disk)'
         /\ AfterInsert(work, disk) => AfterInsert(work, disk)'
         /\ AfterSome(work, disk) => AfterSome(work, disk)'
<1>1. ASSUME NEW k \in Keys
      PROVE  /\ To(k)' = To(k) /\ LastTo(k)' = LastTo(k)
             /\ To(k) # {} => /\ calls'[LastTo(k)].op = calls[LastTo(k)].op
                              /\ Effect(k, work)' <=> Effect(k, work)
             /\ Left(k, work, disk)' <=> Left(k, work, disk)
  <2>1. To(k)' = To(k) /\ LastTo(k)' = LastTo(k)
    BY BatchKept
  <2>2. ASSUME To(k) # {}
        PROVE  /\ calls'[LastTo(k)].op = calls[LastTo(k)].op
               /\ Put(LastTo(k))' = Put(LastTo(k))
    <3>1. LastTo(k) \in InTx
      BY <2>2, LastFacts DEF To
    <3>2. calls'[LastTo(k)].op = calls[LastTo(k)].op
      BY <3>1, BatchKept
    <3> QED
      BY <2>1, <3>2 DEF Put
  <2>3. View(work)' = View(work) /\ View(disk)' = View(disk)
    BY DEF View
  <2>4. (\E i \in InTx : calls[i].op.kind = "sweep")' <=> \E i \in InTx : calls[i].op.kind = "sweep"
    BY BatchKept
  <2>5. Left(k, work, disk)' <=> Left(k, work, disk)
    BY <2>3, <2>4 DEF Left, Nothing
  <2>6. To(k) # {} => (Effect(k, work)' <=> Effect(k, work))
    BY <2>1, <2>2, <2>3 DEF Effect
  <2> QED
    BY <2>1, <2>2, <2>5, <2>6
<1>2. AfterDelete(work, disk) => AfterDelete(work, disk)'
  BY <1>1 DEF AfterDelete
<1>3. AfterInsert(work, disk) => AfterInsert(work, disk)'
  BY <1>1 DEF AfterInsert
<1>4. AfterSome(work, disk) => AfterSome(work, disk)'
  BY <1>1 DEF AfterSome
<1> QED
  BY <1>2, <1>3, <1>4

LEMMA AnswerKept ==
  ASSUME NEW i, calls[i].op \in Op, calls'[i].op = calls[i].op, View(disk') = View(disk)
  PROVE  Answer(i, disk)' = Answer(i, disk)
<1>1. \A k \in Keys : disk'[k].val = disk[k].val
  BY DEF View
<1>2. KeyOf(i)' = KeyOf(i) /\ calls'[i].op.kind = calls[i].op.kind /\ KeyOf(i) \in Keys
  BY DEF KeyOf, Op
<1>3. Present(disk)' = Present(disk)
  BY <1>1 DEF Present
<1>4. {<<k, disk[k].val>> : k \in Present(disk)}' = {<<k, disk[k].val>> : k \in Present(disk)}
  BY <1>1, <1>3 DEF Present
<1> QED
  BY <1>1, <1>2, <1>4 DEF Answer

(* Callers that come and go change nothing for the batch that runs.        *)
LEMMA Quiet ==
  ASSUME IInv, Grown, tx' = tx, View(work') = View(work), View(disk') = View(disk),
         work = disk => work' = disk', DOMAIN calls' \subseteq Nat,
         tx.stage # "free" => /\ Head(lockq') = Head(lockq)
                              /\ Head(lockq) = 0 => items' = items,
         \A i \in DOMAIN calls : calls'[i].st = "pending" => calls[i].st = "pending",
         \A i \in DOMAIN calls : calls[i].st = "cancelled" => calls'[i].st = "cancelled",
         Done' \subseteq Done,
         tx.stage \in {"begin", "read", "delete", "insert"} /\ Cancelled' => Cancelled
  PROVE  Progress' /\ Ready' /\ Wins'
<1>0. Types /\ Order /\ Locks /\ Progress /\ Ready /\ Wins
  BY DEF IInv
<1>1. CASE tx.stage = "free"
  <2>1. Progress' /\ Ready'
    BY <1>0, <1>1 DEF Progress, Ready
  <2>2. \A k \in Keys : disk'[k].val = disk[k].val
    BY DEF View
  <2>3. Settled(Done)'
    BY <1>0, <2>2 DEF Wins, Settled, Grown, Done, Queued, Writes, KeyOf
  <2> QED
    BY <1>1, <2>1, <2>3 DEF Wins
<1>2. CASE tx.stage # "free"
  <2>1. /\ InTx \subseteq DOMAIN calls
        /\ \/ Head(lockq) = 0 /\ InTx = items /\ items # {}
           \/ /\ Head(lockq) \in DOMAIN calls /\ Head(lockq) # 0 /\ InTx = {Head(lockq)}
              /\ calls[Head(lockq)].via = "direct"
    BY <1>0, <1>2, InTxFacts
  <2>2. InTx' = InTx
    BY <1>2 DEF InTx, Batch
  <2>3. /\ AfterDelete(work, disk) => AfterDelete(work, disk)'
        /\ AfterInsert(work, disk) => AfterInsert(work, disk)'
        /\ AfterSome(work, disk) => AfterSome(work, disk)'
    BY <1>0, <2>1, <2>2, AfterKept
  <2>4. Cancelled => Cancelled'
    BY <1>2, <2>1 DEF Cancelled
  <2>5. Progress'
    BY <1>0, <2>3, <2>4 DEF Progress
  <2>6. Ready'
    <3>1. SUFFICES ASSUME NEW i \in DOMAIN calls', tx.stage \in {"delete", "insert", "commit", "end"},
                          ~ tx.err, i \in InTx, calls'[i].st = "pending"
                   PROVE  /\ tx.results[Listen(InTx, i)'] \in SUBSET (Keys \X Numbers)
                          /\ tx.stage # "end" => tx.results[Listen(InTx, i)'] = Answer(i, disk)'
      BY <2>2 DEF Ready
    <3>2. i \in DOMAIN calls /\ calls[i].st = "pending"
      BY <2>1, <3>1
    <3>3. Listen(InTx, i)' = Listen(InTx, i) /\ calls'[i].op = calls[i].op
      BY <1>0, <2>1, <2>2, <3>1, BatchKept
    <3>4. calls[i].op \in Op
      BY <1>0, <3>2, CallFacts DEF Record
    <3>5. Answer(i, disk)' = Answer(i, disk)
      BY <3>3, <3>4, AnswerKept
    <3> QED
      BY <1>0, <3>1, <3>2, <3>3, <3>5 DEF Ready
  <2>7. \A k \in Keys : disk'[k].val = disk[k].val
    BY DEF View
  <2>8. Settled(Done)'
    BY <1>0, <2>7 DEF Wins, Settled, Grown, Done, Queued, Writes, KeyOf
  <2>9. ASSUME tx.stage = "end", ~ tx.err, Head(lockq) = 0 PROVE Settled(items)'
    <3>1. items' = items /\ items \subseteq DOMAIN calls /\ Settled(items)
      BY <1>0, <1>2, <2>9 DEF Wins, Order, Queued
    <3> QED
      BY <2>7, <3>1 DEF Settled, Grown, Writes, KeyOf
  <2> QED
    BY <1>2, <2>5, <2>6, <2>8, <2>9 DEF Wins
<1> QED
  BY <1>1, <1>2

Made(op, via) == [op |-> op, via |-> via, st |-> "pending", ans |-> Unknown]

LEMMA CallMade ==
  ASSUME Types, NEW op \in Op, NEW via \in {"queue", "direct"}, Len(calls) < MaxCalls,
         calls' = Append(calls, Made(op, via)),
         UNCHANGED <<tx, work, disk, open, crashes>>
  PROVE  /\ Types' /\ Grown /\ Len(calls') = Len(calls) + 1
         /\ DOMAIN calls' = DOMAIN calls \cup {Len(calls')} /\ Len(calls') \in Nat \ {0}
         /\ \A i \in DOMAIN calls : calls'[i] = calls[i] /\ i < Len(calls')
         /\ calls'[Len(calls')] = Made(op, via)
<1> DEFINE new == Made(op, via)
<1>1. new \in Record /\ new.st = "pending" /\ new.ans = Unknown
  <2>1. Unknown \in Answers
    BY DEF Answers
  <2> QED
    BY <2>1 DEF Made, Record
<1>2. calls \in Seq(Record) /\ MaxCalls \in Nat
  BY CallFacts DEF Types
<1> HIDE DEF new, Record
<1>3. /\ calls' \in Seq(Record) /\ Len(calls') = Len(calls) + 1 /\ Len(calls) \in Nat
      /\ DOMAIN calls = 1..Len(calls) /\ DOMAIN calls' = 1..Len(calls) + 1
      /\ \A i \in 1..Len(calls) : calls'[i] = calls[i]
      /\ calls'[Len(calls) + 1] = new
  BY <1>1, <1>2 DEF new
<1>4. /\ DOMAIN calls' = DOMAIN calls \cup {Len(calls')} /\ Len(calls') \in Nat \ {0}
      /\ \A i \in DOMAIN calls : i < Len(calls')
  BY <1>3
<1>5. Len(calls') <= MaxCalls
  BY <1>2, <1>3
<1>6. \A i \in DOMAIN calls' : calls'[i].st = "answered" <=> calls'[i].ans # Unknown
  BY <1>1, <1>3, <1>4 DEF Types
<1>7. Types'
  BY <1>3, <1>5, <1>6 DEF Types
<1> QED
  BY <1>3, <1>4, <1>7 DEF Grown, new

LEMMA CallMarked ==
  ASSUME Types, NEW i \in DOMAIN calls, calls[i].st = "pending",
         calls' = [calls EXCEPT ![i].st = "cancelled"]
  PROVE  /\ calls' \in Seq(Record) /\ Len(calls') = Len(calls) /\ DOMAIN calls' = DOMAIN calls
         /\ Grown /\ \A j \in DOMAIN calls : j # i => calls'[j] = calls[j]
         /\ calls'[i] = [calls[i] EXCEPT !.st = "cancelled"] /\ calls'[i].st = "cancelled"
         /\ \A j \in DOMAIN calls' : calls'[j].st = "answered" <=> calls'[j].ans # Unknown
<1>1. calls \in Seq(Record) /\ calls[i] \in Record
  BY CallFacts DEF Types
<1> DEFINE new == [calls[i] EXCEPT !.st = "cancelled"]
<1>2. new \in Record /\ new.st = "cancelled" /\ new.op = calls[i].op /\ new.via = calls[i].via
      /\ new.ans = calls[i].ans
  BY <1>1 DEF Record
<1>3. calls' = [calls EXCEPT ![i] = new]
  OBVIOUS
<1> HIDE DEF new, Record
<1>4. /\ calls' \in Seq(Record) /\ Len(calls') = Len(calls) /\ DOMAIN calls' = DOMAIN calls
      /\ \A j \in DOMAIN calls : j # i => calls'[j] = calls[j]
      /\ calls'[i] = new
  BY <1>1, <1>2, <1>3
<1>5. calls[i].ans = Unknown
  BY DEF Types
<1>6. \A j \in DOMAIN calls' : calls'[j].st = "answered" <=> calls'[j].ans # Unknown
  BY <1>2, <1>4, <1>5 DEF Types
<1>7. Grown
  BY <1>2, <1>4 DEF Grown
<1> QED
  BY <1>2, <1>4, <1>6, <1>7 DEF new

LEMMA NatAppend ==
  ASSUME NEW s \in Seq(Nat), NEW n \in Nat
  PROVE  LET t == Append(s, n)
         IN  /\ t \in Seq(Nat) /\ ToSet(t) = ToSet(s) \cup {n} /\ t # <<>>
             /\ DOMAIN s = 1..Len(s) /\ Len(s) \in Nat /\ DOMAIN t = 1..Len(s) + 1
             /\ t[Len(s) + 1] = n /\ \A p \in DOMAIN s : t[p] = s[p]
             /\ s # <<>> => Head(t) = Head(s) /\ Head(s) = s[1]
<1> DEFINE t == Append(s, n)
<1>1. /\ t \in Seq(Nat) /\ t # <<>>
      /\ DOMAIN s = 1..Len(s) /\ Len(s) \in Nat /\ DOMAIN t = 1..Len(s) + 1
      /\ t[Len(s) + 1] = n /\ \A p \in DOMAIN s : t[p] = s[p]
      /\ s # <<>> => Head(t) = Head(s) /\ Head(s) = s[1]
  <2>1. /\ t \in Seq(Nat) /\ Len(t) = Len(s) + 1
        /\ DOMAIN s = 1..Len(s) /\ Len(s) \in Nat /\ DOMAIN t = 1..Len(s) + 1
        /\ t[Len(s) + 1] = n /\ \A p \in 1..Len(s) : t[p] = s[p]
    OBVIOUS
  <2> HIDE DEF t
  <2>2. t # <<>>
    BY <2>1
  <2>3. s # <<>> => 1 \in 1..Len(s) /\ Head(s) = s[1]
    BY <2>1
  <2>4. Head(t) = t[1]
    BY <2>1, <2>2
  <2> QED
    BY <2>1, <2>2, <2>3, <2>4
<1> HIDE DEF t
<1>2. ToSet(t) = ToSet(s) \cup {n}
  BY <1>1, SMTT(30) DEF ToSet
<1> QED
  BY <1>1, <1>2 DEF t

LEMMA EnqueueStep == ASSUME IInv, NEW op \in QueueOps, Enqueue(op) PROVE IInv'
<1> DEFINE n == Len(calls')
<1>0. Types /\ Order /\ Locks
  BY DEF IInv
<1>1. /\ calls' = Append(calls, Made(op, "queue")) /\ queue' = Append(queue, n)
      /\ Len(calls) < MaxCalls /\ op \in Op
      /\ UNCHANGED <<items, lockq, tx, work, disk, open, crashes>>
  BY StoreAssumption DEF Enqueue, Made
<1>2. /\ Types' /\ Grown /\ n \in Nat \ {0} /\ DOMAIN calls' = DOMAIN calls \cup {n}
      /\ \A i \in DOMAIN calls : calls'[i] = calls[i] /\ i < n
      /\ calls'[n] = Made(op, "queue") /\ n \notin DOMAIN calls
  <2>1. /\ Types' /\ Grown /\ n \in Nat \ {0} /\ DOMAIN calls' = DOMAIN calls \cup {n}
        /\ \A i \in DOMAIN calls : calls'[i] = calls[i] /\ i < n
        /\ calls'[n] = Made(op, "queue")
    BY <1>0, <1>1, CallMade
  <2>2. ~ n < n
    BY <2>1
  <2> QED
    BY <2>1, <2>2
<1> HIDE DEF n
<1>3. calls'[n].via = "queue" /\ calls'[n].st = "pending"
  BY <1>2 DEF Made
<1>4. Queued' = Queued \cup {n} /\ Done' = Done
  BY <1>2, <1>3 DEF Queued, Done
<1>5. queue' \in Seq(Nat) /\ ToSet(queue') = ToSet(queue) \cup {n}
  BY <1>0, <1>1, <1>2, NatAppend DEF Order
<1>6. Order'
  <2>1. ToSet(queue') \subseteq Queued' /\ items' \subseteq Queued'
    BY <1>0, <1>1, <1>4, <1>5 DEF Order
  <2>2. \A i \in items \cup Done : i < n
    BY <1>0, <1>2 DEF Order, Queued, Done
  <2>3. \A q \in ToSet(queue'), i \in items' \cup Done' : i < q
    BY <1>0, <1>1, <1>4, <1>5, <2>2 DEF Order
  <2>4. \A i \in items' : calls'[i].st \in {"pending", "cancelled"}
    BY <1>0, <1>1, <1>2 DEF Order, Queued
  <2>5. \A i \in items', d \in Done' : d < i
    BY <1>0, <1>1, <1>4 DEF Order
  <2>6. \A i \in Queued' : calls'[i].st = "pending" => i \in items' \cup ToSet(queue')
    BY <1>0, <1>1, <1>2, <1>4, <1>5 DEF Order, Queued
  <2> QED
    BY <1>5, <2>1, <2>3, <2>4, <2>5, <2>6 DEF Order
<1>7. Locks'
  BY <1>0, <1>1, <1>2, <1>3 DEF Locks, Held
<1>8. tx.stage \in {"begin", "read", "delete", "insert"} /\ Cancelled' => Cancelled
  <2> SUFFICES ASSUME tx.stage # "free", Cancelled' PROVE Cancelled
    OBVIOUS
  <2>1. Head(lockq) = 0 \/ Head(lockq) \in DOMAIN calls
    BY <1>0, InTxFacts
  <2> QED
    BY <1>1, <1>2, <2>1 DEF Cancelled
<1>9. Progress' /\ Ready' /\ Wins'
  <2>1. DOMAIN calls' \subseteq Nat
    BY <1>0, <1>2, CallFacts
  <2> QED
    BY <1>1, <1>2, <1>4, <1>8, <2>1, Quiet DEF View
<1> QED
  BY <1>2, <1>6, <1>7, <1>9 DEF IInv

LEMMA CallDirectStep == ASSUME IInv, NEW op \in DirectOps, CallDirect(op) PROVE IInv'
<1> DEFINE n == Len(calls')
<1>0. Types /\ Order /\ Locks
  BY DEF IInv
<1>1. /\ calls' = Append(calls, Made(op, "direct")) /\ lockq' = Append(lockq, n)
      /\ Len(calls) < MaxCalls /\ op \in Op
      /\ UNCHANGED <<items, queue, tx, work, disk, open, crashes>>
  BY StoreAssumption DEF CallDirect, Made
<1>2. /\ Types' /\ Grown /\ n \in Nat \ {0} /\ DOMAIN calls' = DOMAIN calls \cup {n}
      /\ \A i \in DOMAIN calls : calls'[i] = calls[i] /\ i < n
      /\ calls'[n] = Made(op, "direct") /\ n \notin DOMAIN calls
  <2>1. /\ Types' /\ Grown /\ n \in Nat \ {0} /\ DOMAIN calls' = DOMAIN calls \cup {n}
        /\ \A i \in DOMAIN calls : calls'[i] = calls[i] /\ i < n
        /\ calls'[n] = Made(op, "direct")
    BY <1>0, <1>1, CallMade
  <2>2. ~ n < n
    BY <2>1
  <2> QED
    BY <2>1, <2>2
<1> HIDE DEF n
<1>3. calls'[n].via = "direct" /\ calls'[n].st = "pending"
  BY <1>2 DEF Made
<1>4. Queued' = Queued /\ Done' = Done
  BY <1>2, <1>3 DEF Queued, Done
<1>5. Order'
  BY <1>0, <1>1, <1>2, <1>4 DEF Order, Queued
<1> DEFINE m == Len(lockq)
<1>6. /\ lockq' \in Seq(Nat) /\ lockq' # <<>>
      /\ DOMAIN lockq = 1..m /\ m \in Nat /\ DOMAIN lockq' = 1..m + 1
      /\ lockq'[m + 1] = n /\ \A p \in DOMAIN lockq : lockq'[p] = lockq[p]
      /\ lockq # <<>> => Head(lockq') = Head(lockq)
  <2>1. lockq \in Seq(Nat) /\ n \in Nat
    BY <1>0, <1>2 DEF Locks
  <2>2. lockq' = Append(lockq, n)
    BY <1>1
  <2> QED
    BY <2>1, <2>2, NatAppend
<1> HIDE DEF m
<1>7. Locks'
  <2>1. \A p \in DOMAIN lockq' : p \in DOMAIN lockq \/ p = m + 1
    BY <1>6
  <2>2. DOMAIN lockq \subseteq DOMAIN lockq' /\ m + 1 \in DOMAIN lockq'
    BY <1>6
  <2>3. \A p \in DOMAIN lockq' :
          \/ lockq'[p] = 0
          \/ /\ lockq'[p] \in DOMAIN calls' /\ calls'[lockq'[p]].via = "direct"
             /\ \/ calls'[lockq'[p]].st = "pending"
                \/ calls'[lockq'[p]].st = "cancelled" /\ Held(p)'
    BY <1>0, <1>1, <1>2, <1>3, <1>6, <2>1 DEF Locks, Held
  <2>4. \A p \in DOMAIN lockq : lockq[p] # n
    BY <1>0, <1>2 DEF Locks
  <2>5. \A p, q \in DOMAIN lockq' : lockq'[p] = lockq'[q] => p = q
    BY <1>0, <1>6, <2>1, <2>4 DEF Locks
  <2>6. (\E p \in DOMAIN lockq' : lockq'[p] = 0) <=> items' # {}
    BY <1>0, <1>1, <1>2, <1>6, <2>1, <2>2 DEF Locks
  <2>7. \A i \in DOMAIN calls' : calls'[i].via = "direct" /\ calls'[i].st = "pending" =>
          \E p \in DOMAIN lockq' : lockq'[p] = i
    BY <1>0, <1>2, <1>6, <2>2 DEF Locks
  <2> QED
    BY <1>6, <2>3, <2>5, <2>6, <2>7 DEF Locks
<1>8. tx.stage # "free" => Head(lockq') = Head(lockq)
  BY <1>0, <1>6 DEF Locks
<1>9. tx.stage \in {"begin", "read", "delete", "insert"} /\ Cancelled' => Cancelled
  <2> SUFFICES ASSUME tx.stage # "free", Cancelled' PROVE Cancelled
    OBVIOUS
  <2>1. Head(lockq) = 0 \/ Head(lockq) \in DOMAIN calls
    BY <1>0, InTxFacts
  <2> QED
    BY <1>2, <1>8, <2>1 DEF Cancelled
<1>10. Progress' /\ Ready' /\ Wins'
  <2>1. DOMAIN calls' \subseteq Nat
    BY <1>0, <1>2, CallFacts
  <2> QED
    BY <1>1, <1>2, <1>4, <1>8, <1>9, <2>1, Quiet DEF View
<1> QED
  BY <1>2, <1>5, <1>7, <1>10 DEF IInv

LEMMA CancelQueuedStep == ASSUME IInv, NEW i \in DOMAIN calls, CancelQueued(i) PROVE IInv'
<1>0. Types /\ Order /\ Locks
  BY DEF IInv
<1>1. /\ calls[i].via = "queue" /\ calls[i].st = "pending"
      /\ calls' = [calls EXCEPT ![i].st = "cancelled"]
      /\ UNCHANGED <<queue, items, lockq, tx, work, disk, open, crashes>>
  BY DEF CancelQueued
<1>2. /\ calls' \in Seq(Record) /\ Len(calls') = Len(calls) /\ DOMAIN calls' = DOMAIN calls
      /\ Grown /\ \A j \in DOMAIN calls : j # i => calls'[j] = calls[j]
      /\ calls'[i].st = "cancelled"
      /\ \A j \in DOMAIN calls' : calls'[j].st = "answered" <=> calls'[j].ans # Unknown
  BY <1>0, <1>1, CallMarked
<1>3. Types'
  BY <1>0, <1>1, <1>2 DEF Types
<1>4. Queued' = Queued /\ Done' = Done
  BY <1>1, <1>2 DEF Queued, Done, Grown
<1>5. Order'
  BY <1>0, <1>1, <1>2, <1>4 DEF Order, Queued
<1>6. \A p \in DOMAIN lockq : lockq[p] # i
  BY <1>0, <1>1, CallFacts DEF Locks
<1>7. Locks'
  BY <1>0, <1>1, <1>2, <1>6 DEF Locks, Held, Grown
<1>8. tx.stage \in {"begin", "read", "delete", "insert"} /\ Cancelled' => Cancelled
  <2> SUFFICES ASSUME tx.stage # "free", Cancelled' PROVE Cancelled
    OBVIOUS
  <2>1. Head(lockq) = 0 \/ (Head(lockq) \in DOMAIN calls /\ Head(lockq) # i)
    BY <1>0, <1>1, InTxFacts
  <2> QED
    BY <1>1, <1>2, <2>1 DEF Cancelled
<1>9. Progress' /\ Ready' /\ Wins'
  <2>1. DOMAIN calls' \subseteq Nat
    BY <1>0, <1>2, CallFacts
  <2>2. /\ \A j \in DOMAIN calls : calls'[j].st = "pending" => calls[j].st = "pending"
        /\ \A j \in DOMAIN calls : calls[j].st = "cancelled" => calls'[j].st = "cancelled"
    BY <1>1, <1>2
  <2> QED
    BY <1>1, <1>2, <1>4, <1>8, <2>1, <2>2, Quiet DEF View
<1> QED
  BY <1>3, <1>5, <1>7, <1>9 DEF IInv

(* _run takes the queue as its next batch.                                 *)
LEMMA TakeStep == ASSUME IInv, Take PROVE IInv'
<1>0. Types /\ Order /\ Locks
  BY DEF IInv
<1>1. /\ items = {} /\ queue' = <<>> /\ items' = {i \in ToSet(queue) : calls[i].st = "pending"}
      /\ lockq' = IF items' = {} THEN lockq ELSE Append(lockq, 0)
      /\ UNCHANGED <<calls, tx, work, disk, open, crashes>>
  BY DEF Take
<1>2. Types'
  BY <1>0, <1>1 DEF Types
<1>3. Queued' = Queued /\ Done' = Done
  BY <1>1 DEF Queued, Done
<1>4. Order'
  <2>1. queue' \in Seq(Nat) /\ ToSet(queue') = {}
    BY <1>1 DEF ToSet
  <2> QED
    BY <1>0, <1>1, <1>3, <2>1 DEF Order
<1>5. \A p \in DOMAIN lockq : lockq[p] # 0
  BY <1>0, <1>1 DEF Locks
<1>6. Locks' /\ (tx.stage # "free" => Head(lockq') = Head(lockq))
  <2>1. CASE items' = {}
    BY <1>0, <1>1, <1>5, <2>1 DEF Locks, Held
  <2>2. CASE items' # {}
    <3> DEFINE m == Len(lockq)
    <3>1. /\ lockq' \in Seq(Nat) /\ lockq' # <<>>
          /\ DOMAIN lockq = 1..m /\ m \in Nat /\ DOMAIN lockq' = 1..m + 1
          /\ lockq'[m + 1] = 0 /\ \A p \in DOMAIN lockq : lockq'[p] = lockq[p]
          /\ lockq # <<>> => Head(lockq') = Head(lockq)
      BY <1>0, <1>1, <2>2, NatAppend DEF Locks
    <3> HIDE DEF m
    <3>2. \A p \in DOMAIN lockq' : p \in DOMAIN lockq \/ p = m + 1
      BY <3>1
    <3>3. DOMAIN lockq \subseteq DOMAIN lockq' /\ m + 1 \in DOMAIN lockq'
      BY <3>1
    <3>4. \A p \in DOMAIN lockq' :
            \/ lockq'[p] = 0
            \/ /\ lockq'[p] \in DOMAIN calls' /\ calls'[lockq'[p]].via = "direct"
               /\ \/ calls'[lockq'[p]].st = "pending"
                  \/ calls'[lockq'[p]].st = "cancelled" /\ Held(p)'
      BY <1>0, <1>1, <3>1, <3>2 DEF Locks, Held
    <3>5. \A p, q \in DOMAIN lockq' : lockq'[p] = lockq'[q] => p = q
      BY <1>0, <1>5, <3>1, <3>2 DEF Locks
    <3>6. (\E p \in DOMAIN lockq' : lockq'[p] = 0) <=> items' # {}
      BY <2>2, <3>1, <3>3
    <3>7. \A i \in DOMAIN calls' : calls'[i].via = "direct" /\ calls'[i].st = "pending" =>
            \E p \in DOMAIN lockq' : lockq'[p] = i
      BY <1>0, <1>1, <3>1, <3>3 DEF Locks
    <3>8. tx.stage # "free" => lockq # <<>>
      BY <1>0 DEF Locks
    <3> QED
      BY <1>1, <3>1, <3>4, <3>5, <3>6, <3>7, <3>8 DEF Locks
  <2> QED
    BY <2>1, <2>2
<1>7. Progress' /\ Ready' /\ Wins'
  <2>1. tx.stage # "free" => Head(lockq) # 0
    BY <1>0, <1>1, InTxFacts
  <2>2. DOMAIN calls' \subseteq Nat /\ Grown
    BY <1>0, <1>1, CallFacts DEF Grown
  <2>3. tx.stage \in {"begin", "read", "delete", "insert"} /\ Cancelled' => Cancelled
    BY <1>1, <1>6 DEF Cancelled
  <2> QED
    BY <1>1, <1>3, <1>6, <2>1, <2>2, <2>3, Quiet DEF View
<1> QED
  BY <1>2, <1>4, <1>6, <1>7 DEF IInv

(* A time to live runs out, in the file and in the open transaction.       *)
LEMMA RunOutFacts ==
  ASSUME Types, NEW k \in Keys, RunOut(k)
  PROVE  /\ work' \in [Keys -> Item] /\ disk' \in [Keys -> Item]
         /\ View(work') = View(work) /\ View(disk') = View(disk)
         /\ work = disk => work' = disk'
         /\ UNCHANGED <<calls, queue, items, lockq, tx, open, crashes>>
<1>1. /\ work[k].ttl = "fresh" /\ work' = [work EXCEPT ![k].ttl = "expired"]
      /\ disk' = [disk EXCEPT ![k] = IF @.ttl = "fresh" THEN [@ EXCEPT !.ttl = "expired"] ELSE @]
      /\ UNCHANGED <<calls, queue, items, lockq, tx, open, crashes>>
  BY DEF RunOut
<1>2. work \in [Keys -> Item] /\ disk \in [Keys -> Item]
  BY DEF Types
<1> DEFINE gone(x) == [x EXCEPT !.ttl = "expired"]
<1>3. \A x \in Item : gone(x) \in Item /\ gone(x).val = x.val /\ gone(x).ttl = "expired"
  BY DEF Item
<1>4. /\ work' = [work EXCEPT ![k] = gone(work[k])]
      /\ disk' = [disk EXCEPT ![k] = IF disk[k].ttl = "fresh" THEN gone(disk[k]) ELSE disk[k]]
  BY <1>1
<1> HIDE DEF gone, Item
<1>5. work' \in [Keys -> Item] /\ disk' \in [Keys -> Item]
  BY <1>2, <1>3, <1>4
<1>6. \A x \in Keys : /\ work'[x].val = work[x].val /\ disk'[x].val = disk[x].val
                      /\ work'[x].ttl = "none" <=> work[x].ttl = "none"
                      /\ disk'[x].ttl = "none" <=> disk[x].ttl = "none"
  BY <1>1, <1>2, <1>3, <1>4
<1>7. View(work') = View(work) /\ View(disk') = View(disk)
  BY <1>6 DEF View
<1>8. work = disk => work' = disk'
  BY <1>1, <1>4
<1> QED
  BY <1>1, <1>5, <1>7, <1>8

LEMMA RunOutStep == ASSUME IInv, NEW k \in Keys, RunOut(k) PROVE IInv'
<1>0. Types /\ Order /\ Locks
  BY DEF IInv
<1>1. /\ work' \in [Keys -> Item] /\ disk' \in [Keys -> Item]
      /\ View(work') = View(work) /\ View(disk') = View(disk)
      /\ work = disk => work' = disk'
      /\ UNCHANGED <<calls, queue, items, lockq, tx, open, crashes>>
  BY <1>0, RunOutFacts
<1>2. Types'
  BY <1>0, <1>1 DEF Types
<1>3. Order' /\ Locks' /\ Done' = Done
  BY <1>0, <1>1 DEF Order, Locks, Held, Queued, Done
<1>4. Progress' /\ Ready' /\ Wins'
  <2>1. DOMAIN calls' \subseteq Nat /\ Grown
    BY <1>0, <1>1, CallFacts DEF Grown
  <2>2. Cancelled' => Cancelled
    BY <1>1 DEF Cancelled
  <2> QED
    BY <1>1, <1>3, <2>1, <2>2, Quiet
<1> QED
  BY <1>2, <1>3, <1>4 DEF IInv

-------------------------------------------------------------------------------
(* The stages of a transaction.                                            *)

LEMMA AfterNow ==
  ASSUME UNCHANGED <<calls, items, lockq>>
  PROVE  /\ AfterDelete(work', disk') => AfterDelete(work, disk)'
         /\ AfterInsert(work', disk') => AfterInsert(work, disk)'
         /\ AfterSome(work', disk') => AfterSome(work, disk)'
<1>1. InTx' = InTx
  BY DEF InTx, Batch
<1>2. \A k \in Keys : To(k)' = To(k)
  BY <1>1 DEF To, Writes, KeyOf
<1>3. \A k \in Keys : LastTo(k)' = LastTo(k)
  BY <1>2 DEF LastTo
<1>4. \A k \in Keys : Put(LastTo(k))' = Put(LastTo(k))
  BY <1>3 DEF Put, Nothing
<1>5. ASSUME NEW k \in Keys
      PROVE  /\ Effect(k, work)' <=> Effect(k, work')
             /\ Left(k, work, disk)' <=> Left(k, work', disk')
  BY <1>1, <1>4 DEF Effect, Left, View, Nothing
<1>6. AfterDelete(work', disk') => AfterDelete(work, disk)'
  BY <1>2, <1>3, <1>5 DEF AfterDelete
<1>7. AfterInsert(work', disk') => AfterInsert(work, disk)'
  BY <1>2, <1>5 DEF AfterInsert
<1>8. AfterSome(work', disk') => AfterSome(work, disk)'
  BY <1>2, <1>5 DEF AfterSome
<1> QED
  BY <1>6, <1>7, <1>8

LEMMA SameCalls ==
  ASSUME IInv, UNCHANGED <<calls, queue, items, lockq>>, tx'.stage # "free",
         lockq # <<>>
  PROVE  Order' /\ Locks'
<1>1. Order'
  BY DEF IInv, Order, Queued, Done
<1>2. \A p : Held(p) => Held(p)'
  BY DEF Held
<1>3. Locks'
  <2>1. \A p \in DOMAIN lockq :
       \/ lockq[p] = 0
       \/ /\ lockq[p] \in DOMAIN calls /\ calls[lockq[p]].via = "direct"
          /\ \/ calls[lockq[p]].st = "pending"
             \/ calls[lockq[p]].st = "cancelled" /\ Held(p)'
    BY <1>2 DEF IInv, Locks
  <2> QED
    BY <2>1 DEF IInv, Locks
<1> QED
  BY <1>1, <1>3

(* What the file holds wins while the file stays as it is.                 *)
LEMMA SameFile ==
  ASSUME IInv, UNCHANGED <<calls, items, lockq, disk>>, ~ tx'.stage = "end" \/ tx'.err
  PROVE  Wins'
<1>1. Settled(Done)'
  BY DEF IInv, Wins, Settled, Done, Queued, Writes, KeyOf
<1> QED
  BY <1>1 DEF Wins

LEMMA LockStep == ASSUME IInv, Lock PROVE IInv'
<1>0. Types /\ Order /\ Locks /\ Progress
  BY DEF IInv
<1>1. /\ lockq # <<>> /\ tx.stage = "free" /\ tx' = [tx EXCEPT !.stage = "begin"]
      /\ UNCHANGED <<calls, queue, items, lockq, work, disk, open, crashes>>
  BY DEF Lock
<1>2. /\ tx'.stage = "begin" /\ tx'.err = tx.err
      /\ tx' = [stage |-> tx'.stage, results |-> tx'.results, err |-> tx'.err]
  BY <1>0, <1>1 DEF Types
<1>3. Types'
  BY <1>0, <1>1, <1>2 DEF Types, Stages
<1>4. Order' /\ Locks'
  BY <1>1, <1>2, SameCalls
<1>5. ~ Cancelled
  <2>1. lockq \in Seq(Nat)
    BY <1>0 DEF Locks
  <2>2. 1 \in DOMAIN lockq /\ Head(lockq) = lockq[1]
    BY <1>1, <2>1
  <2> QED
    BY <1>0, <1>1, <2>2 DEF Locks, Held, Cancelled
<1>6. Progress' /\ Ready'
  BY <1>0, <1>1, <1>2, <1>5 DEF Progress, Ready, Cancelled
<1>7. Wins'
  BY <1>1, <1>2, SameFile
<1> QED
  BY <1>3, <1>4, <1>6, <1>7 DEF IInv

LEMMA BeginStep == ASSUME IInv, Begin PROVE IInv'
<1>0. Types /\ Order /\ Locks /\ Progress
  BY DEF IInv
<1>1. /\ tx.stage = "begin" /\ open' = TRUE
      /\ tx' = IF open THEN [tx EXCEPT !.stage = "end", !.err = TRUE]
                       ELSE [tx EXCEPT !.stage = "read"]
      /\ UNCHANGED <<calls, queue, items, lockq, work, disk, crashes>>
  BY DEF Begin
<1>2. /\ \/ tx'.stage = "end" /\ tx'.err = TRUE
         \/ tx'.stage = "read" /\ tx'.err = tx.err
      /\ tx' = [stage |-> tx'.stage, results |-> tx'.results, err |-> tx'.err]
  BY <1>0, <1>1 DEF Types
<1>3. Types'
  BY <1>0, <1>1, <1>2 DEF Types, Stages
<1>4. lockq # <<>>
  BY <1>0, <1>1 DEF Locks
<1>5. Order' /\ Locks'
  BY <1>1, <1>2, <1>4, SameCalls
<1>6. Progress' /\ Ready'
  BY <1>0, <1>1, <1>2 DEF Progress, Ready, Cancelled
<1>7. Wins'
  BY <1>1, <1>2, SameFile
<1> QED
  BY <1>3, <1>5, <1>6, <1>7 DEF IInv

LEMMA AnswerType ==
  ASSUME NEW i, calls[i].op \in Op, NEW s \in [Keys -> Item]
  PROVE  Answer(i, s) \in SUBSET (Keys \X Numbers)
<1>1. \A k \in Keys : s[k].val \in Numbers
  BY DEF Item
<1>2. KeyOf(i) \in Keys
  BY DEF KeyOf, Op
<1> QED
  BY <1>1, <1>2 DEF Answer, Present

(* A call finds its own answer where it listens.                           *)
LEMMA ListenAnswer ==
  ASSUME Types, NEW batch, batch \subseteq DOMAIN calls, NEW i \in batch, NEW s
  PROVE  Answer(Listen(batch, i), s) = Answer(i, s)
<1>1. Same(i, Listen(batch, i))
  BY ListenFacts
<1>2. CASE Writes(i) /\ Writes(Listen(batch, i))
  BY <1>2 DEF Answer, Writes
<1>3. CASE calls[i].op = calls[Listen(batch, i)].op
  BY <1>3 DEF Answer, KeyOf
<1> QED
  BY <1>1, <1>2, <1>3 DEF Same

LEMMA ReadStep == ASSUME IInv, Read PROVE IInv'
<1>0. Types /\ Order /\ Locks /\ Progress
  BY DEF IInv
<1> DEFINE gotten  == Renew(work, RenewedByGets(InTx))
           fails   == \E i \in Ops(InTx, "search") : calls[i].op.bad
<1>1. /\ tx.stage = "read" /\ \E keys : work' = Renew(gotten, keys) \/ work' = gotten
      /\ \/ tx' = [tx EXCEPT !.stage = "commit", !.err = TRUE]
         \/ tx' = [stage |-> "delete", err |-> FALSE,
                   results |-> [i \in Dedupped(InTx) |-> Answer(i, gotten)]]
      /\ UNCHANGED <<calls, queue, items, lockq, disk, open, crashes>>
  BY DEF Read, InTx
<1>2. work \in [Keys -> Item] /\ work = disk
  BY <1>0, <1>1 DEF Types, Progress
<1>3. gotten \in [Keys -> Item] /\ View(gotten) = View(disk)
  BY <1>2, RenewFacts
<1> HIDE DEF gotten
<1>4. work' \in [Keys -> Item] /\ View(work') = View(disk)
  BY <1>1, <1>3, RenewFacts
<1>5. /\ \/ tx'.stage = "commit" /\ tx'.err = TRUE
         \/ /\ tx'.stage = "delete" /\ tx'.err = FALSE
            /\ tx'.results = [i \in Dedupped(InTx) |-> Answer(i, gotten)]
      /\ tx' = [stage |-> tx'.stage, results |-> tx'.results, err |-> tx'.err]
  <2> DEFINE answers == [i \in Dedupped(InTx) |-> Answer(i, gotten)]
  <2>1. \/ tx' = [tx EXCEPT !.stage = "commit", !.err = TRUE]
        \/ tx' = [stage |-> "delete", err |-> FALSE, results |-> answers]
    BY <1>1
  <2> HIDE DEF answers
  <2>2. CASE tx' = [tx EXCEPT !.stage = "commit", !.err = TRUE]
    BY <1>0, <2>2 DEF Types
  <2>3. CASE tx' = [stage |-> "delete", err |-> FALSE, results |-> answers]
    <3>1. /\ tx'.stage = "delete" /\ tx'.err = FALSE /\ tx'.results = answers
          /\ tx' = [stage |-> tx'.stage, results |-> tx'.results, err |-> tx'.err]
      BY <2>3
    <3> QED
      BY <3>1 DEF answers
  <2> QED
    BY <2>1, <2>2, <2>3
<1>6. Types'
  BY <1>0, <1>1, <1>4, <1>5 DEF Types, Stages
<1>7. lockq # <<>> /\ InTx \subseteq DOMAIN calls
  BY <1>0, <1>1, InTxFacts
<1>8. Order' /\ Locks'
  BY <1>1, <1>5, <1>7, SameCalls
<1>9. Progress'
  <2>1. AfterSome(work', disk')
    BY <1>1, <1>4, SomeOfIt
  <2>2. AfterSome(work, disk)'
    BY <1>1, <2>1, AfterNow
  <2>3. View(work)' = View(disk)'
    BY <1>1, <1>4 DEF View
  <2>4. ~ Cancelled'
    BY <1>0, <1>1 DEF Progress, Cancelled
  <2> QED
    BY <1>5, <2>2, <2>3, <2>4 DEF Progress
<1>10. Ready'
  <2>0. InTx' = InTx
    BY <1>1 DEF InTx, Batch
  <2>1. ASSUME NEW i \in InTx, tx'.stage = "delete"
        PROVE  /\ tx'.results[Listen(InTx, i)] = Answer(i, disk)
               /\ tx'.results[Listen(InTx, i)] \in SUBSET (Keys \X Numbers)
    <3>1. Listen(InTx, i) \in Dedupped(InTx)
      BY DEF Dedupped
    <3>2. tx'.results[Listen(InTx, i)] = Answer(Listen(InTx, i), gotten)
      BY <1>5, <2>1, <3>1
    <3>3. Answer(Listen(InTx, i), gotten) = Answer(i, gotten)
      BY <1>0, <1>7, ListenAnswer
    <3>4. calls[i].op \in Op
      BY <1>0, <1>7, CallFacts DEF Record
    <3>5. Answer(i, gotten) = Answer(i, disk)
      <4>1. \A k \in Keys : gotten[k].val = disk[k].val
        BY <1>3 DEF View
      <4>2. KeyOf(i) \in Keys
        BY <3>4 DEF KeyOf, Op
      <4>3. Present(gotten) = Present(disk)
        BY <4>1 DEF Present
      <4>4. {<<k, gotten[k].val>> : k \in Present(gotten)} = {<<k, disk[k].val>> : k \in Present(disk)}
        BY <4>1, <4>3 DEF Present
      <4> QED
        BY <4>1, <4>2, <4>4 DEF Answer
    <3> QED
      BY <1>3, <3>2, <3>3, <3>4, <3>5, AnswerType
  <2>2. ASSUME NEW i \in InTx
        PROVE  Listen(InTx, i)' = Listen(InTx, i) /\ Answer(i, disk)' = Answer(i, disk)
    BY <1>1, <2>0 DEF Listen, Same, Writes, KeyOf, Answer, Present
  <2> QED
    BY <1>5, <2>0, <2>1, <2>2 DEF Ready
<1>11. Wins'
  BY <1>1, <1>5, SameFile
<1> QED
  BY <1>6, <1>8, <1>9, <1>10, <1>11 DEF IInv

(* What a batch has ready stays ready.                                     *)
LEMMA ReadyKept ==
  ASSUME IInv, UNCHANGED <<calls, items, lockq>>, tx.stage \in {"delete", "insert", "commit"},
         tx'.results = tx.results, tx.err => tx'.err, tx'.stage # "end" => disk' = disk
  PROVE  Ready'
<1>1. InTx' = InTx
  BY DEF InTx, Batch
<1>2. ASSUME NEW i \in DOMAIN calls'
      PROVE  /\ Listen(InTx, i)' = Listen(InTx, i)
             /\ disk' = disk => Answer(i, disk)' = Answer(i, disk)
  BY <1>1 DEF Listen, Same, Writes, KeyOf, Answer, Present
<1> QED
  BY <1>1, <1>2 DEF IInv, Ready

LEMMA DeleteStep == ASSUME IInv, Delete PROVE IInv'
<1>0. Types /\ Order /\ Locks /\ Progress
  BY DEF IInv
<1>1. /\ tx.stage = "delete" /\ work' = Deleted /\ tx' = [tx EXCEPT !.stage = "insert"]
      /\ UNCHANGED <<calls, queue, items, lockq, disk, open, crashes>>
  BY DEF Delete
<1>2. /\ tx'.stage = "insert" /\ tx'.err = tx.err /\ tx'.results = tx.results /\ ~ tx'.err
      /\ tx' = [stage |-> tx'.stage, results |-> tx'.results, err |-> tx'.err]
  BY <1>0, <1>1 DEF Types, Progress
<1>3. lockq # <<>> /\ InTx \subseteq DOMAIN calls
  BY <1>0, <1>1, InTxFacts
<1>4. View(work) = View(disk)
  BY <1>0, <1>1 DEF Progress
<1>5. Deleted \in [Keys -> Item] /\ AfterDelete(Deleted, disk)
  BY <1>0, <1>3, <1>4, DeletedFacts
<1>6. Types'
  BY <1>0, <1>1, <1>2, <1>5 DEF Types, Stages
<1>7. Order' /\ Locks'
  BY <1>1, <1>2, <1>3, SameCalls
<1>8. Progress'
  <2>1. AfterDelete(work, disk)'
    BY <1>1, <1>5, AfterNow
  <2>2. ~ Cancelled'
    BY <1>0, <1>1 DEF Progress, Cancelled
  <2> QED
    BY <1>2, <2>1, <2>2 DEF Progress
<1>9. Ready'
  BY <1>1, <1>2, ReadyKept
<1>10. Wins'
  BY <1>1, <1>2, SameFile
<1> QED
  BY <1>6, <1>7, <1>8, <1>9, <1>10 DEF IInv

LEMMA InsertStep == ASSUME IInv, Insert PROVE IInv'
<1>0. Types /\ Order /\ Locks /\ Progress
  BY DEF IInv
<1> DEFINE fails == \E i \in Ops(InTx, "put") : calls[i].op.bad
<1>1. /\ tx.stage = "insert" /\ work' = (IF fails THEN work ELSE Inserted)
      /\ tx' = [tx EXCEPT !.stage = "commit", !.err = fails]
      /\ UNCHANGED <<calls, queue, items, lockq, disk, open, crashes>>
  BY DEF Insert, InTx
<1> HIDE DEF fails
<1>2. fails \in BOOLEAN
  BY DEF fails
<1>3. /\ tx'.stage = "commit" /\ tx'.err = fails /\ tx'.results = tx.results /\ ~ tx.err
      /\ tx' = [stage |-> tx'.stage, results |-> tx'.results, err |-> tx'.err]
  BY <1>0, <1>1 DEF Types, Progress
<1>4. lockq # <<>> /\ InTx \subseteq DOMAIN calls
  BY <1>0, <1>1, InTxFacts
<1>5. AfterDelete(work, disk)
  BY <1>0, <1>1 DEF Progress
<1>6. Inserted \in [Keys -> Item] /\ AfterInsert(Inserted, disk)
  BY <1>0, <1>4, <1>5, InsertedFacts
<1>7. Types'
  <2>1. work' \in [Keys -> Item]
    BY <1>0, <1>1, <1>6 DEF Types
  <2>2. tx'.stage \in Stages /\ tx'.err \in BOOLEAN
    BY <1>2, <1>3 DEF Stages
  <2> QED
    BY <1>0, <1>1, <1>3, <2>1, <2>2 DEF Types
<1>8. Order' /\ Locks'
  BY <1>1, <1>3, <1>4, SameCalls
<1>9. Progress'
  <2>1. AfterSome(work', disk')
    <3>1. AfterSome(work, disk) /\ AfterSome(Inserted, disk)
      BY <1>5, <1>6, SomeOfIt
    <3> QED
      BY <1>1, <3>1
  <2>2. ~ fails => AfterInsert(work', disk')
    BY <1>1, <1>6
  <2>3. AfterSome(work, disk)' /\ (~ fails => AfterInsert(work, disk)')
    BY <1>1, <2>1, <2>2, AfterNow
  <2> QED
    BY <1>3, <2>3 DEF Progress
<1>10. Ready'
  BY <1>1, <1>3, ReadyKept
<1>11. Wins'
  BY <1>1, <1>3, SameFile
<1> QED
  BY <1>7, <1>8, <1>9, <1>10, <1>11 DEF IInv

(* What the batch has written is behind all that was answered, and the     *)
(* last of its own writes to a key is the one that stands.                 *)
LEMMA WrittenWins ==
  ASSUME IInv, tx.stage = "commit", NEW k \in Keys, work[k].val # 0
  PROVE  /\ work[k].val \in DOMAIN calls
         /\ calls[work[k].val].via = "queue" =>
              /\ \A j \in Done : Writes(j) /\ KeyOf(j) = k => j <= work[k].val
              /\ Head(lockq) = 0 /\ ~ tx.err =>
                   \A j \in items : Writes(j) /\ KeyOf(j) = k => j <= work[k].val
<1>0. Types /\ Order /\ Locks /\ Progress /\ Wins
  BY DEF IInv
<1>1. /\ InTx \subseteq DOMAIN calls
      /\ \/ Head(lockq) = 0 /\ InTx = items
         \/ /\ Head(lockq) # 0 /\ InTx = {Head(lockq)} /\ calls[Head(lockq)].via = "direct"
  BY <1>0, InTxFacts
<1>2. View(work)[k].val = work[k].val /\ View(disk)[k].val = disk[k].val
  BY DEF View
<1>3. Left(k, work, disk) \/ (To(k) # {} /\ Effect(k, work))
  BY <1>0 DEF Progress, AfterSome
<1>4. Head(lockq) = 0 /\ ~ tx.err =>
        IF To(k) # {} THEN Effect(k, work) ELSE Left(k, work, disk)
  BY <1>0 DEF Progress, Cancelled, AfterInsert
<1>5. CASE To(k) # {} /\ Effect(k, work)
  <2>1. LastTo(k) \in To(k) /\ \A j \in To(k) : j <= LastTo(k)
    BY <1>0, <1>1, <1>5, LastFacts
  <2>2. work[k].val = LastTo(k)
    BY <1>2, <1>5 DEF Effect, Put, Nothing
  <2>3. LastTo(k) \in InTx
    BY <2>1 DEF To
  <2>4. ASSUME calls[LastTo(k)].via = "queue", NEW j \in Done PROVE j <= LastTo(k)
    <3>1. LastTo(k) \in items
      BY <1>1, <2>3, <2>4
    <3>2. j < LastTo(k)
      BY <1>0, <3>1 DEF Order
    <3>3. j \in Nat /\ LastTo(k) \in Nat
      BY <1>0, <1>1, <2>3, CallFacts DEF Done, Queued
    <3> QED
      BY <3>2, <3>3
  <2>5. ASSUME Head(lockq) = 0, NEW j \in items, Writes(j), KeyOf(j) = k PROVE j <= LastTo(k)
    BY <1>1, <2>1, <2>5 DEF To
  <2> QED
    BY <1>1, <2>2, <2>3, <2>4, <2>5
<1>6. CASE Left(k, work, disk) /\ ~ (To(k) # {} /\ Effect(k, work))
  <2>1. work[k].val = disk[k].val
    BY <1>2, <1>6 DEF Left, Nothing
  <2>2. /\ disk[k].val \in DOMAIN calls
        /\ calls[disk[k].val].via = "queue" =>
             \A j \in Done : Writes(j) /\ KeyOf(j) = k => j <= disk[k].val
    BY <1>0, <2>1 DEF Wins, Settled
  <2>3. Head(lockq) = 0 /\ ~ tx.err => \A j \in items : ~ (Writes(j) /\ KeyOf(j) = k)
    BY <1>1, <1>4, <1>6 DEF To
  <2> QED
    BY <2>1, <2>2, <2>3
<1> QED
  BY <1>3, <1>5, <1>6

LEMMA CommitStep == ASSUME IInv, Commit PROVE IInv'
<1>0. Types /\ Order /\ Locks
  BY DEF IInv
<1>1. /\ tx.stage = "commit" /\ disk' = work /\ open' = FALSE /\ tx' = [tx EXCEPT !.stage = "end"]
      /\ UNCHANGED <<calls, queue, items, lockq, work, crashes>>
  BY DEF Commit
<1>2. /\ tx'.stage = "end" /\ tx'.err = tx.err /\ tx'.results = tx.results
      /\ tx' = [stage |-> tx'.stage, results |-> tx'.results, err |-> tx'.err]
  BY <1>0, <1>1 DEF Types
<1>3. lockq # <<>>
  BY <1>0, <1>1, InTxFacts
<1>4. Types'
  BY <1>0, <1>1, <1>2 DEF Types, Stages
<1>5. Order' /\ Locks'
  BY <1>1, <1>2, <1>3, SameCalls
<1>6. Progress'
  BY <1>1, <1>2 DEF Progress
<1>7. Ready'
  BY <1>1, <1>2, ReadyKept
<1>8. Wins'
  <2>1. Settled(Done)'
    BY <1>1, WrittenWins DEF Settled, Done, Queued, Writes, KeyOf
  <2>2. ~ tx.err /\ Head(lockq) = 0 => Settled(items)'
    BY <1>1, WrittenWins DEF Settled, Writes, KeyOf
  <2> QED
    BY <1>1, <1>2, <2>1, <2>2 DEF Wins
<1> QED
  BY <1>4, <1>5, <1>6, <1>7, <1>8 DEF IInv

(* The batch is answered: only its pending calls change.                   *)
LEMMA AnsweredFacts ==
  ASSUME IInv, tx.stage = "end", calls' = Answered(InTx)
  PROVE  /\ calls' \in Seq(Record) /\ Len(calls') = Len(calls) /\ DOMAIN calls' = DOMAIN calls
         /\ Grown
         /\ \A i \in DOMAIN calls :
              \/ calls'[i] = calls[i] /\ (i \notin InTx \/ calls[i].st # "pending")
              \/ /\ i \in InTx /\ calls[i].st = "pending"
                 /\ calls'[i].st = IF tx.err THEN "failed" ELSE "answered"
         /\ \A i \in DOMAIN calls' : calls'[i].st = "answered" <=> calls'[i].ans # Unknown
<1>0. Types /\ Order /\ Locks /\ Ready
  BY DEF IInv
<1>1. calls \in Seq(Record) /\ Len(calls) \in Nat /\ DOMAIN calls = 1..Len(calls)
  BY <1>0, CallFacts DEF Types
<1> DEFINE new(i) == IF i \notin InTx \/ calls[i].st # "pending" THEN calls[i]
                     ELSE IF tx.err THEN [calls[i] EXCEPT !.st = "failed"]
                     ELSE [calls[i] EXCEPT !.st = "answered",
                                           !.ans = tx.results[Listen(InTx, i)]]
<1>2. calls' = [i \in DOMAIN calls |-> new(i)]
  BY DEF Answered
<1>3. ASSUME NEW i \in DOMAIN calls
      PROVE  /\ new(i) \in Record /\ new(i).op = calls[i].op /\ new(i).via = calls[i].via
             /\ \/ new(i) = calls[i] /\ (i \notin InTx \/ calls[i].st # "pending")
                \/ /\ i \in InTx /\ calls[i].st = "pending"
                   /\ new(i).st = IF tx.err THEN "failed" ELSE "answered"
             /\ new(i).st = "answered" <=> new(i).ans # Unknown
  <2>1. calls[i] \in Record /\ (calls[i].st = "answered" <=> calls[i].ans # Unknown)
    BY <1>0, CallFacts DEF Types
  <2>2. CASE i \notin InTx \/ calls[i].st # "pending"
    <3>1. new(i) = calls[i]
      BY <2>2
    <3> QED
      BY <2>1, <2>2, <3>1
  <2>3. CASE i \in InTx /\ calls[i].st = "pending" /\ tx.err
    <3>1. new(i) = [calls[i] EXCEPT !.st = "failed"]
      BY <2>3
    <3> HIDE DEF new
    <3> QED
      BY <2>1, <2>3, <3>1 DEF Record
  <2>4. CASE i \in InTx /\ calls[i].st = "pending" /\ ~ tx.err
    <3> DEFINE a == tx.results[Listen(InTx, i)]
    <3>1. new(i) = [calls[i] EXCEPT !.st = "answered", !.ans = a]
      BY <2>4
    <3>2. a \in SUBSET (Keys \X Numbers)
      BY <1>0, <2>4 DEF Ready
    <3>3. a \in Answers /\ a # Unknown
      <4>1. ASSUME NEW x \in Keys \X Numbers PROVE x # <<>>
        <5>1. PICK k \in Keys, n \in Numbers : x = <<k, n>>
          OBVIOUS
        <5>2. Len(<<k, n>>) = 2 /\ Len(<<>>) = 0
          OBVIOUS
        <5> QED
          BY <5>1, <5>2
      <4> QED
        BY <3>2, <4>1 DEF Answers, Unknown
    <3> HIDE DEF new, a
    <3> QED
      BY <2>1, <2>4, <3>1, <3>3 DEF Record
  <2> QED
    BY <2>2, <2>3, <2>4
<1> HIDE DEF new, Record
<1>4. DOMAIN calls' = DOMAIN calls /\ \A i \in DOMAIN calls : calls'[i] = new(i)
  BY <1>2
<1>5. calls' \in Seq(Record) /\ Len(calls') = Len(calls)
  BY <1>1, <1>2, <1>3
<1>6. Grown
  BY <1>3, <1>4 DEF Grown
<1> QED
  BY <1>3, <1>4, <1>5, <1>6

(* One leaves the queue for the lock, from the place p.                    *)
Gone(p) ==
  /\ lockq' \in Seq(Nat) /\ DOMAIN lockq = 1..Len(lockq) /\ Len(lockq) \in Nat \ {0}
  /\ DOMAIN lockq' = 1..Len(lockq) - 1
  /\ \A q \in DOMAIN lockq' : lockq'[q] = IF q < p THEN lockq[q] ELSE lockq[q + 1]

LEMMA TailGone == ASSUME Locks, lockq # <<>>, lockq' = Tail(lockq) PROVE Gone(1)
<1>1. lockq \in Seq(Nat)
  BY DEF Locks
<1> QED
  BY <1>1 DEF Gone

LEMMA LocksLeft ==
  ASSUME Types, Locks, NEW p \in DOMAIN lockq, Gone(p), Grown,
         p = 1 => tx'.stage = "free", p # 1 => tx' = tx,
         items' # {} <=> items # {} /\ lockq[p] # 0,
         \A i \in DOMAIN calls :
           calls[i].via = "direct" /\ i # lockq[p] => calls'[i].st = calls[i].st,
         \A i \in DOMAIN calls' :
           calls'[i].via = "direct" /\ calls'[i].st = "pending" =>
             /\ i \in DOMAIN calls /\ i # lockq[p]
             /\ calls[i].via = "direct" /\ calls[i].st = "pending"
  PROVE  Locks'
<1> DEFINE m == Len(lockq)
           Was(q) == IF q < p THEN q ELSE q + 1
<1>1. /\ lockq' \in Seq(Nat) /\ DOMAIN lockq = 1..m /\ m \in Nat \ {0}
      /\ DOMAIN lockq' = 1..m - 1 /\ \A q \in DOMAIN lockq' : lockq'[q] = lockq[Was(q)]
  BY DEF Gone
<1> HIDE DEF m
<1>2. ASSUME NEW q \in DOMAIN lockq'
      PROVE  /\ Was(q) \in DOMAIN lockq /\ Was(q) # p /\ lockq'[q] = lockq[Was(q)]
             /\ (p # 1 => (Was(q) = 1 <=> q = 1)) /\ (p = 1 => Was(q) # 1)
  BY <1>1
<1>3. \A q, r \in DOMAIN lockq' : Was(q) = Was(r) => q = r
  BY <1>1
<1>4. ASSUME NEW r \in DOMAIN lockq, r # p PROVE \E q \in DOMAIN lockq' : lockq'[q] = lockq[r]
  <2>1. CASE r < p
    <3>1. r \in DOMAIN lockq' /\ Was(r) = r
      BY <1>1, <2>1
    <3> QED
      BY <1>1, <3>1
  <2>2. CASE ~ r < p
    <3>1. r - 1 \in DOMAIN lockq' /\ Was(r - 1) = r
      BY <1>1, <1>4, <2>2
    <3> QED
      BY <1>1, <3>1
  <2> QED
    BY <2>1, <2>2
<1> HIDE DEF Was
<1>5. ASSUME NEW q \in DOMAIN lockq'
      PROVE  \/ lockq'[q] = 0
             \/ /\ lockq'[q] \in DOMAIN calls' /\ calls'[lockq'[q]].via = "direct"
                /\ \/ calls'[lockq'[q]].st = "pending"
                   \/ calls'[lockq'[q]].st = "cancelled" /\ Held(q)'
  <2> SUFFICES ASSUME lockq'[q] # 0
               PROVE  /\ lockq'[q] \in DOMAIN calls' /\ calls'[lockq'[q]].via = "direct"
                      /\ \/ calls'[lockq'[q]].st = "pending"
                         \/ calls'[lockq'[q]].st = "cancelled" /\ Held(q)'
    OBVIOUS
  <2> DEFINE i == lockq'[q]
  <2>1. i = lockq[Was(q)] /\ Was(q) \in DOMAIN lockq /\ lockq[Was(q)] # lockq[p]
    BY <1>2 DEF Locks
  <2>2. Held(Was(q)) => Held(q)'
    BY <1>2 DEF Held
  <2>3. /\ i \in DOMAIN calls /\ calls[i].via = "direct"
        /\ \/ calls[i].st = "pending"
           \/ calls[i].st = "cancelled" /\ Held(Was(q))
    BY <2>1 DEF Locks
  <2>4. calls'[i].st = calls[i].st /\ calls'[i].via = "direct" /\ i \in DOMAIN calls'
    BY <2>1, <2>3 DEF Grown
  <2> HIDE DEF i
  <2>5. \/ calls'[i].st = "pending"
        \/ calls'[i].st = "cancelled" /\ Held(q)'
    BY <2>2, <2>3, <2>4
  <2> QED
    BY <2>4, <2>5 DEF i
<1>6. \A q, r \in DOMAIN lockq' : lockq'[q] = lockq'[r] => q = r
  BY <1>2, <1>3 DEF Locks
<1>7. (\E q \in DOMAIN lockq' : lockq'[q] = 0) <=> items' # {}
  <2>1. CASE lockq[p] = 0
    <3>1. \A q \in DOMAIN lockq' : lockq'[q] # 0
      BY <1>2, <2>1 DEF Locks
    <3> QED
      BY <2>1, <3>1
  <2>2. CASE lockq[p] # 0
    <3>1. (\E r \in DOMAIN lockq : lockq[r] = 0) <=> items # {}
      BY DEF Locks
    <3>2. (\E q \in DOMAIN lockq' : lockq'[q] = 0) => \E r \in DOMAIN lockq : lockq[r] = 0
      BY <1>2
    <3>3. (\E r \in DOMAIN lockq : lockq[r] = 0) => \E q \in DOMAIN lockq' : lockq'[q] = 0
      BY <1>4, <2>2
    <3> QED
      BY <2>2, <3>1, <3>2, <3>3
  <2> QED
    BY <2>1, <2>2
<1>8. ASSUME NEW i \in DOMAIN calls', calls'[i].via = "direct", calls'[i].st = "pending"
      PROVE  \E q \in DOMAIN lockq' : lockq'[q] = i
  <2>1. PICK r \in DOMAIN lockq : lockq[r] = i
    BY <1>8 DEF Locks
  <2>2. r # p
    BY <1>8, <2>1
  <2> QED
    BY <1>4, <2>1, <2>2
<1>9. tx'.stage # "free" => lockq' # <<>>
  <2> SUFFICES ASSUME tx'.stage # "free" PROVE lockq' # <<>>
    OBVIOUS
  <2>1. p # 1
    OBVIOUS
  <2>2. 1 \in DOMAIN lockq'
    BY <1>1, <2>1
  <2> QED
    BY <1>1, <2>2
<1> QED
  BY <1>1, <1>5, <1>6, <1>7, <1>8, <1>9 DEF Locks

LEMMA FinishStep == ASSUME IInv, Finish PROVE IInv'
<1>0. Types /\ Order /\ Locks /\ Progress /\ Wins
  BY DEF IInv
<1> DEFINE h == Head(lockq)
<1>1. /\ tx.stage = "end" /\ calls' = Answered(InTx) /\ items' = (IF h = 0 THEN {} ELSE items)
      /\ lockq' = Tail(lockq) /\ tx' = NoTx
      /\ UNCHANGED <<queue, work, disk, open, crashes>>
  BY DEF Finish, InTx
<1>2. /\ calls' \in Seq(Record) /\ Len(calls') = Len(calls) /\ DOMAIN calls' = DOMAIN calls
      /\ Grown
      /\ \A i \in DOMAIN calls :
           \/ calls'[i] = calls[i] /\ (i \notin InTx \/ calls[i].st # "pending")
           \/ /\ i \in InTx /\ calls[i].st = "pending"
              /\ calls'[i].st = IF tx.err THEN "failed" ELSE "answered"
      /\ \A i \in DOMAIN calls' : calls'[i].st = "answered" <=> calls'[i].ans # Unknown
  BY <1>1, AnsweredFacts
<1>3. /\ InTx \subseteq DOMAIN calls /\ h = lockq[1] /\ 1 \in DOMAIN lockq /\ lockq # <<>>
      /\ \/ h = 0 /\ InTx = items
         \/ /\ h \in DOMAIN calls /\ h # 0 /\ InTx = {h} /\ calls[h].via = "direct"
  BY <1>0, <1>1, InTxFacts
<1>4. /\ tx'.stage = "free" /\ tx'.err = FALSE
      /\ tx' = [stage |-> tx'.stage, results |-> tx'.results, err |-> tx'.err]
  BY <1>1 DEF NoTx
<1> HIDE DEF h
<1>5. Types'
  BY <1>0, <1>1, <1>2, <1>4 DEF Types, Stages
<1>6. Queued' = Queued /\ Done \subseteq Done'
  BY <1>2 DEF Queued, Done, Grown
<1>7. /\ h = 0 => Done' \subseteq Done \cup items
      /\ h # 0 \/ tx.err => Done' = Done
  <2>1. ASSUME NEW i \in Done', i \notin Done PROVE h = 0 /\ ~ tx.err /\ i \in items
    <3>1. i \in Queued /\ calls'[i].st = "answered" /\ calls[i].st # "answered"
      BY <1>6, <2>1 DEF Done
    <3>2. i \in DOMAIN calls /\ calls[i].via = "queue"
      BY <3>1 DEF Queued
    <3>3. i \in InTx /\ ~ tx.err
      BY <1>2, <3>1, <3>2
    <3> QED
      BY <1>3, <3>2, <3>3
  <2> QED
    BY <1>6, <2>1
<1>8. Order'
  <2>1. queue' = queue /\ queue \in Seq(Nat) /\ ToSet(queue') = ToSet(queue)
    BY <1>0, <1>1 DEF Order
  <2>2. ToSet(queue') \subseteq Queued' /\ items' \subseteq items /\ items' \subseteq Queued'
    BY <1>0, <1>1, <1>6, <2>1 DEF Order
  <2>3. items' \cup Done' \subseteq items \cup Done
    BY <1>1, <1>7
  <2>4. \A q \in ToSet(queue'), i \in items' \cup Done' : i < q
    BY <1>0, <2>1, <2>3 DEF Order
  <2>5. \A i \in items' : calls'[i] = calls[i]
    BY <1>0, <1>1, <1>2, <1>3 DEF Order, Queued
  <2>6. \A i \in items' : calls'[i].st \in {"pending", "cancelled"}
    BY <1>0, <2>2, <2>5 DEF Order
  <2>7. \A i \in items', d \in Done' : d < i
    BY <1>0, <1>1, <1>7, <2>2 DEF Order
  <2>8. ASSUME NEW i \in Queued', calls'[i].st = "pending" PROVE i \in items' \cup ToSet(queue')
    <3>1. i \in Queued /\ i \in DOMAIN calls
      BY <1>6, <2>8 DEF Queued
    <3>2. calls[i].st = "pending" /\ i \notin InTx
      BY <1>2, <2>8, <3>1
    <3>3. i \in items \cup ToSet(queue)
      BY <1>0, <3>1, <3>2 DEF Order
    <3> QED
      BY <1>1, <1>3, <2>1, <3>2, <3>3
  <2> QED
    BY <2>1, <2>2, <2>4, <2>6, <2>7, <2>8 DEF Order
<1>9. Locks'
  <2>1. Gone(1)
    BY <1>0, <1>1, <1>3, TailGone
  <2>2. items' # {} <=> items # {} /\ lockq[1] # 0
    BY <1>1, <1>3
  <2>3. \A i \in DOMAIN calls : calls[i].via = "direct" /\ i # lockq[1] => i \notin InTx
    BY <1>0, <1>3 DEF Order, Queued
  <2>4. \A i \in DOMAIN calls :
          calls[i].via = "direct" /\ i # lockq[1] => calls'[i].st = calls[i].st
    BY <1>2, <2>3
  <2>5. ASSUME NEW i \in DOMAIN calls', calls'[i].via = "direct", calls'[i].st = "pending"
        PROVE  /\ i \in DOMAIN calls /\ i # lockq[1]
               /\ calls[i].via = "direct" /\ calls[i].st = "pending"
    <3>1. i \in DOMAIN calls /\ calls[i].via = "direct" /\ calls[i].st = "pending" /\ i \notin InTx
      BY <1>2, <2>5 DEF Grown
    <3>2. i # 0
      BY <1>0, <3>1, CallFacts
    <3> QED
      BY <1>3, <3>1, <3>2
  <2> QED
    BY <1>0, <1>2, <1>3, <1>4, <2>1, <2>2, <2>4, <2>5, LocksLeft
<1>10. Progress' /\ Ready'
  BY <1>0, <1>1, <1>4 DEF Progress, Ready
<1>11. Wins'
  <2>1. Settled(Done)'
    <3>1. \A j \in Done' : j \in Done \/ (h = 0 /\ ~ tx.err /\ j \in items)
      BY <1>7
    <3>2. h = 0 /\ ~ tx.err => Settled(items)
      BY <1>0, <1>1 DEF Wins, h
    <3>3. Settled(Done) /\ items \subseteq DOMAIN calls /\ Done \subseteq DOMAIN calls
      BY <1>0 DEF Wins, Done, Order, Queued
    <3> QED
      BY <1>1, <1>2, <3>1, <3>2, <3>3 DEF Settled, Grown, Writes, KeyOf
  <2> QED
    BY <1>4, <2>1 DEF Wins
<1> QED
  BY <1>5, <1>8, <1>9, <1>10, <1>11 DEF IInv

-------------------------------------------------------------------------------
(* A direct call is cancelled: while it waits, on its BEGIN, in the middle *)
(* of the transaction, or when the transaction is through.                 *)

LEMMA SomeNow ==
  ASSUME Types, InTx \subseteq DOMAIN calls, Grown, InTx' = InTx, AfterSome(work', disk')
  PROVE  AfterSome(work, disk)'
<1>1. ASSUME NEW k \in Keys
      PROVE  /\ To(k)' = To(k)
             /\ To(k) # {} => (Effect(k, work)' <=> Effect(k, work'))
             /\ Left(k, work, disk)' <=> Left(k, work', disk')
  <2>1. To(k)' = To(k) /\ LastTo(k)' = LastTo(k)
    BY BatchKept
  <2>2. ASSUME To(k) # {} PROVE Put(LastTo(k))' = Put(LastTo(k))
    <3>1. LastTo(k) \in InTx
      BY <2>2, LastFacts DEF To
    <3>2. calls'[LastTo(k)].op = calls[LastTo(k)].op
      BY <3>1, BatchKept
    <3> QED
      BY <2>1, <3>2 DEF Put
  <2>3. (\E i \in InTx : calls[i].op.kind = "sweep")' <=> \E i \in InTx : calls[i].op.kind = "sweep"
    BY BatchKept
  <2>4. Left(k, work, disk)' <=> Left(k, work', disk')
    BY <2>3 DEF Left, Nothing, View
  <2>5. To(k) # {} => (Effect(k, work)' <=> Effect(k, work'))
    BY <2>1, <2>2 DEF Effect, View
  <2> QED
    BY <2>1, <2>4, <2>5
<1> QED
  BY <1>1 DEF AfterSome

Dropped(i) ==
  /\ calls[i].via = "direct" /\ calls[i].st = "pending"
  /\ calls' = [calls EXCEPT ![i].st = "cancelled"]
  /\ UNCHANGED <<queue, items, disk, crashes>>

LEMMA DroppedFacts ==
  ASSUME IInv, NEW i \in DOMAIN calls, Dropped(i)
  PROVE  /\ calls' \in Seq(Record) /\ Len(calls') = Len(calls) /\ DOMAIN calls' = DOMAIN calls
         /\ DOMAIN calls' \subseteq Nat /\ i # 0
         /\ Grown /\ \A j \in DOMAIN calls : j # i => calls'[j] = calls[j]
         /\ calls'[i].st = "cancelled"
         /\ \A j \in DOMAIN calls' : calls'[j].st = "answered" <=> calls'[j].ans # Unknown
         /\ Done' = Done /\ Order' /\ Settled(Done)'
<1>0. Types /\ Order /\ Wins
  BY DEF IInv
<1>1. /\ calls' \in Seq(Record) /\ Len(calls') = Len(calls) /\ DOMAIN calls' = DOMAIN calls
      /\ Grown /\ \A j \in DOMAIN calls : j # i => calls'[j] = calls[j]
      /\ calls'[i].st = "cancelled"
      /\ \A j \in DOMAIN calls' : calls'[j].st = "answered" <=> calls'[j].ans # Unknown
  BY <1>0, CallMarked DEF Dropped
<1>2. Queued' = Queued /\ Done' = Done
  BY <1>1 DEF Queued, Done, Grown, Dropped
<1>3. Order'
  BY <1>0, <1>1, <1>2 DEF Order, Queued, Dropped
<1>4. Settled(Done)'
  BY <1>0, <1>1, <1>2 DEF Wins, Settled, Grown, Done, Queued, Writes, KeyOf, Dropped
<1>5. DOMAIN calls' \subseteq Nat /\ i # 0
  BY <1>0, <1>1, CallFacts
<1> QED
  BY <1>1, <1>2, <1>3, <1>4, <1>5

(* It waits for the lock.                                                  *)
LEMMA DropWaiting ==
  ASSUME IInv, NEW i \in DOMAIN calls, Dropped(i), Head(lockq) # i \/ tx.stage = "free",
         NEW p \in DOMAIN lockq, lockq[p] = i, lockq' = RemoveAt(lockq, p),
         UNCHANGED <<tx, work, open>>
  PROVE  IInv'
<1>0. Types /\ Order /\ Locks
  BY DEF IInv
<1>1. /\ calls' \in Seq(Record) /\ Len(calls') = Len(calls) /\ DOMAIN calls' = DOMAIN calls
      /\ DOMAIN calls' \subseteq Nat /\ i # 0
      /\ Grown /\ \A j \in DOMAIN calls : j # i => calls'[j] = calls[j]
      /\ calls'[i].st = "cancelled"
      /\ \A j \in DOMAIN calls' : calls'[j].st = "answered" <=> calls'[j].ans # Unknown
      /\ Done' = Done /\ Order'
  BY DroppedFacts
<1>2. /\ UNCHANGED <<queue, items, tx, work, disk, open, crashes>>
      /\ calls[i].st = "pending" /\ calls[i].via = "direct"
  BY DEF Dropped
<1>3. Types'
  BY <1>0, <1>1, <1>2 DEF Types
<1>4. Gone(p) /\ lockq \in Seq(Nat)
  <2>1. lockq \in Seq(Nat)
    BY <1>0 DEF Locks
  <2> QED
    BY <2>1, SeqRemove DEF Gone
<1>5. tx.stage # "free" => p # 1 /\ Head(lockq) = lockq[1] /\ 1 \in DOMAIN lockq
  BY <1>0, InTxFacts
<1>6. Locks'
  <2>1. \A j \in DOMAIN calls' :
          calls'[j].via = "direct" /\ calls'[j].st = "pending" =>
            /\ j \in DOMAIN calls /\ j # lockq[p]
            /\ calls[j].via = "direct" /\ calls[j].st = "pending"
    BY <1>1
  <2> QED
    BY <1>0, <1>1, <1>2, <1>4, <1>5, <2>1, LocksLeft
<1>7. tx.stage # "free" => Head(lockq') = Head(lockq)
  <2> SUFFICES ASSUME tx.stage # "free" PROVE Head(lockq') = Head(lockq)
    OBVIOUS
  <2>1. 1 \in DOMAIN lockq' /\ 1 < p
    BY <1>4, <1>5 DEF Gone
  <2>2. lockq'[1] = lockq[1]
    BY <1>4, <2>1 DEF Gone
  <2>3. Head(lockq') = lockq'[1]
    BY <1>4, <2>1 DEF Gone
  <2> QED
    BY <1>5, <2>2, <2>3
<1>8. tx.stage \in {"begin", "read", "delete", "insert"} /\ Cancelled' => Cancelled
  <2> SUFFICES ASSUME tx.stage # "free", Cancelled' PROVE Cancelled
    OBVIOUS
  <2>1. Head(lockq) = 0 \/ (Head(lockq) \in DOMAIN calls /\ Head(lockq) # i)
    BY <1>0, InTxFacts
  <2> QED
    BY <1>1, <1>7, <2>1 DEF Cancelled
<1>9. Progress' /\ Ready' /\ Wins'
  <2>1. /\ \A j \in DOMAIN calls : calls'[j].st = "pending" => calls[j].st = "pending"
        /\ \A j \in DOMAIN calls : calls[j].st = "cancelled" => calls'[j].st = "cancelled"
    BY <1>1, <1>2
  <2> QED
    BY <1>1, <1>2, <1>7, <1>8, <2>1, Quiet DEF View
<1> QED
  BY <1>1, <1>3, <1>6, <1>9 DEF IInv

(* Its BEGIN is on the way, and is executed all the same.                  *)
LEMMA DropBegin ==
  ASSUME IInv, NEW i \in DOMAIN calls, Dropped(i), Head(lockq) = i, tx.stage = "begin",
         lockq' = Tail(lockq), tx' = NoTx, open' = TRUE, UNCHANGED work
  PROVE  IInv'
<1>0. Types /\ Order /\ Locks /\ Progress
  BY DEF IInv
<1>1. /\ calls' \in Seq(Record) /\ Len(calls') = Len(calls) /\ DOMAIN calls' = DOMAIN calls
      /\ i # 0 /\ Grown /\ \A j \in DOMAIN calls : j # i => calls'[j] = calls[j]
      /\ calls'[i].st = "cancelled"
      /\ \A j \in DOMAIN calls' : calls'[j].st = "answered" <=> calls'[j].ans # Unknown
      /\ Done' = Done /\ Order' /\ Settled(Done)'
  BY DroppedFacts
<1>2. UNCHANGED <<queue, items, work, disk, crashes>>
  BY DEF Dropped
<1>3. /\ tx'.stage = "free" /\ tx'.err = FALSE
      /\ tx' = [stage |-> tx'.stage, results |-> tx'.results, err |-> tx'.err]
  BY DEF NoTx
<1>4. Types'
  BY <1>0, <1>1, <1>2, <1>3 DEF Types, Stages
<1>5. lockq[1] = i /\ 1 \in DOMAIN lockq /\ lockq # <<>>
  BY <1>0, InTxFacts
<1>6. Locks'
  <2>1. Gone(1)
    BY <1>0, <1>5, TailGone
  <2>2. \A j \in DOMAIN calls' :
          calls'[j].via = "direct" /\ calls'[j].st = "pending" =>
            /\ j \in DOMAIN calls /\ j # lockq[1]
            /\ calls[j].via = "direct" /\ calls[j].st = "pending"
    BY <1>1, <1>5
  <2> QED
    BY <1>0, <1>1, <1>2, <1>3, <1>5, <2>1, <2>2, LocksLeft
<1>7. Progress' /\ Ready' /\ Wins'
  BY <1>0, <1>1, <1>2, <1>3 DEF Progress, Ready, Wins
<1> QED
  BY <1>1, <1>4, <1>6, <1>7 DEF IInv

(* Its transaction is on: the statement is executed, and COMMIT follows.   *)
LEMMA DropInside ==
  ASSUME IInv, NEW i \in DOMAIN calls, Dropped(i), Head(lockq) = i,
         tx.stage \in {"read", "delete", "insert"},
         tx' = [tx EXCEPT !.stage = "commit"],
         work' = CASE tx.stage = "delete" -> Deleted
                   [] tx.stage = "insert" /\ ~ calls[i].op.bad -> Inserted
                   [] OTHER -> work,
         UNCHANGED <<lockq, open>>
  PROVE  IInv'
<1>0. Types /\ Order /\ Locks /\ Progress
  BY DEF IInv
<1>1. /\ calls' \in Seq(Record) /\ Len(calls') = Len(calls) /\ DOMAIN calls' = DOMAIN calls
      /\ i # 0 /\ Grown /\ \A j \in DOMAIN calls : j # i => calls'[j] = calls[j]
      /\ calls'[i].st = "cancelled"
      /\ \A j \in DOMAIN calls' : calls'[j].st = "answered" <=> calls'[j].ans # Unknown
      /\ Done' = Done /\ Order' /\ Settled(Done)'
  BY DroppedFacts
<1>2. UNCHANGED <<queue, items, lockq, disk, open, crashes>> /\ calls[i].via = "direct"
  BY DEF Dropped
<1>3. /\ tx'.stage = "commit" /\ tx'.err = tx.err /\ ~ tx.err
      /\ tx' = [stage |-> tx'.stage, results |-> tx'.results, err |-> tx'.err]
  BY <1>0 DEF Types, Progress
<1>4. /\ InTx = {i} /\ InTx' = {i} /\ InTx \subseteq DOMAIN calls
      /\ lockq # <<>> /\ 1 \in DOMAIN lockq /\ lockq[1] = i
  <2>1. InTx = {i} /\ lockq # <<>> /\ 1 \in DOMAIN lockq /\ lockq[1] = i
    BY <1>0, <1>1, InTxFacts
  <2>2. InTx' = {i}
    BY <1>1, <1>2 DEF InTx, Batch
  <2> QED
    BY <2>1, <2>2
<1>5. work \in [Keys -> Item] /\ work' \in [Keys -> Item] /\ AfterSome(work', disk)
  <2>1. work \in [Keys -> Item]
    BY <1>0 DEF Types
  <2>2. CASE tx.stage = "read"
    <3>1. work' = work /\ View(work) = View(disk)
      BY <1>0, <2>2 DEF Progress
    <3> QED
      BY <2>1, <3>1, SomeOfIt
  <2>3. CASE tx.stage = "delete"
    <3>1. work' = Deleted /\ View(work) = View(disk)
      BY <1>0, <2>3 DEF Progress
    <3> QED
      BY <1>0, <1>4, <2>1, <3>1, DeletedFacts, SomeOfIt
  <2>4. CASE tx.stage = "insert"
    <3>1. AfterDelete(work, disk) /\ (work' = work \/ work' = Inserted)
      BY <1>0, <2>4 DEF Progress
    <3>2. Inserted \in [Keys -> Item] /\ AfterInsert(Inserted, disk)
      BY <1>0, <1>4, <3>1, InsertedFacts
    <3>3. AfterSome(work, disk) /\ AfterSome(Inserted, disk)
      BY <3>1, <3>2, SomeOfIt
    <3> QED
      BY <2>1, <3>1, <3>2, <3>3
  <2> QED
    BY <2>1, <2>2, <2>3, <2>4
<1>6. Types'
  BY <1>0, <1>1, <1>2, <1>3, <1>5 DEF Types, Stages
<1>7. Locks'
  <2>1. \A p : Held(p) => Held(p)'
    BY <1>3 DEF Held
  <2>2. Held(1)'
    BY <1>3 DEF Held
  <2>3. \A p \in DOMAIN lockq :
       \/ lockq[p] = 0
       \/ /\ lockq[p] \in DOMAIN calls /\ calls'[lockq[p]].via = "direct"
          /\ \/ calls'[lockq[p]].st = "pending"
             \/ calls'[lockq[p]].st = "cancelled" /\ Held(p)'
    <3> SUFFICES ASSUME NEW p \in DOMAIN lockq, lockq[p] # 0
                 PROVE  /\ lockq[p] \in DOMAIN calls /\ calls'[lockq[p]].via = "direct"
                        /\ \/ calls'[lockq[p]].st = "pending"
                           \/ calls'[lockq[p]].st = "cancelled" /\ Held(p)'
      OBVIOUS
    <3>1. CASE p = 1
      BY <1>1, <1>2, <1>4, <2>2, <3>1 DEF Grown
    <3>2. CASE p # 1
      <4>1. lockq[p] # i
        BY <1>0, <1>4, <3>2 DEF Locks
      <4> QED
        BY <1>0, <1>1, <2>1, <4>1 DEF Locks
    <3> QED
      BY <3>1, <3>2
  <2>4. \A j \in DOMAIN calls' : calls'[j].via = "direct" /\ calls'[j].st = "pending" =>
          \E p \in DOMAIN lockq' : lockq'[p] = j
    BY <1>0, <1>1, <1>2 DEF Locks
  <2> QED
    BY <1>0, <1>1, <1>2, <1>4, <2>3, <2>4 DEF Locks
<1>8. Progress'
  <2>1. AfterSome(work, disk)'
    BY <1>0, <1>1, <1>2, <1>4, <1>5, SomeNow
  <2>2. Cancelled'
    BY <1>1, <1>2 DEF Cancelled
  <2> QED
    BY <1>3, <2>1, <2>2 DEF Progress
<1>9. Ready'
  BY <1>1, <1>4 DEF Ready
<1>10. Wins'
  BY <1>1, <1>3 DEF Wins
<1> QED
  BY <1>1, <1>6, <1>7, <1>8, <1>9, <1>10 DEF IInv

(* Its transaction is through, or about to be.                             *)
LEMMA DropLate ==
  ASSUME IInv, NEW i \in DOMAIN calls, Dropped(i), Head(lockq) = i,
         tx.stage \in {"commit", "end"}, UNCHANGED <<lockq, tx, work, open>>
  PROVE  IInv'
<1>0. Types /\ Order /\ Locks /\ Progress
  BY DEF IInv
<1>1. /\ calls' \in Seq(Record) /\ Len(calls') = Len(calls) /\ DOMAIN calls' = DOMAIN calls
      /\ DOMAIN calls' \subseteq Nat /\ i # 0
      /\ Grown /\ \A j \in DOMAIN calls : j # i => calls'[j] = calls[j]
      /\ calls'[i].st = "cancelled"
      /\ \A j \in DOMAIN calls' : calls'[j].st = "answered" <=> calls'[j].ans # Unknown
      /\ Done' = Done /\ Order'
  BY DroppedFacts
<1>2. /\ UNCHANGED <<queue, items, lockq, tx, work, disk, open, crashes>>
      /\ calls[i].via = "direct" /\ calls[i].st = "pending"
  BY DEF Dropped
<1>3. Types'
  BY <1>0, <1>1, <1>2 DEF Types
<1>4. 1 \in DOMAIN lockq /\ lockq[1] = i
  BY <1>0, InTxFacts
<1>5. Locks'
  <2>1. \A p : Held(p)' <=> Held(p)
    BY <1>2 DEF Held
  <2>2. \A p \in DOMAIN lockq : lockq[p] = i => p = 1
    BY <1>0, <1>4 DEF Locks
  <2>3. Held(1)
    BY DEF Held
  <2>4. \A p \in DOMAIN lockq :
       \/ lockq[p] = 0
       \/ /\ lockq[p] \in DOMAIN calls /\ calls'[lockq[p]].via = "direct"
          /\ \/ calls'[lockq[p]].st = "pending"
             \/ calls'[lockq[p]].st = "cancelled" /\ Held(p)'
    <3> SUFFICES ASSUME NEW p \in DOMAIN lockq, lockq[p] # 0
                 PROVE  /\ lockq[p] \in DOMAIN calls /\ calls'[lockq[p]].via = "direct"
                        /\ \/ calls'[lockq[p]].st = "pending"
                           \/ calls'[lockq[p]].st = "cancelled" /\ Held(p)'
      OBVIOUS
    <3>1. CASE lockq[p] = i
      BY <1>1, <1>2, <2>1, <2>2, <2>3, <3>1 DEF Grown
    <3>2. CASE lockq[p] # i
      BY <1>0, <1>1, <2>1, <3>2 DEF Locks
    <3> QED
      BY <3>1, <3>2
  <2>5. \A j \in DOMAIN calls' : calls'[j].via = "direct" /\ calls'[j].st = "pending" =>
          \E p \in DOMAIN lockq' : lockq'[p] = j
    BY <1>0, <1>1, <1>2 DEF Locks
  <2> QED
    BY <1>0, <1>1, <1>2, <2>4, <2>5 DEF Locks
<1>6. Progress' /\ Ready' /\ Wins'
  <2>1. /\ \A j \in DOMAIN calls : calls'[j].st = "pending" => calls[j].st = "pending"
        /\ \A j \in DOMAIN calls : calls[j].st = "cancelled" => calls'[j].st = "cancelled"
    BY <1>1, <1>2
  <2> QED
    BY <1>1, <1>2, <2>1, Quiet DEF View
<1> QED
  BY <1>1, <1>3, <1>5, <1>6 DEF IInv

(* The four ways a direct call may be cancelled.                           *)
LEMMA DropWays ==
  ASSUME IInv, NEW i \in DOMAIN calls, CancelDirect(i)
  PROVE  /\ Dropped(i) /\ (Head(lockq) = i /\ tx.stage = "begin" => "begin" \in Cancels)
         /\ \/ /\ Head(lockq) # i \/ tx.stage = "free"
               /\ \E p \in DOMAIN lockq : lockq[p] = i /\ lockq' = RemoveAt(lockq, p)
               /\ UNCHANGED <<tx, work, open>>
            \/ /\ Head(lockq) = i /\ tx.stage = "begin" /\ lockq' = Tail(lockq)
               /\ tx' = NoTx /\ open' = TRUE /\ UNCHANGED work
            \/ /\ Head(lockq) = i /\ tx.stage \in {"read", "delete", "insert"}
               /\ tx' = [tx EXCEPT !.stage = "commit"]
               /\ work' = CASE tx.stage = "delete" -> Deleted
                            [] tx.stage = "insert" /\ ~ calls[i].op.bad -> Inserted
                            [] OTHER -> work
               /\ UNCHANGED <<lockq, open>>
            \/ /\ Head(lockq) = i /\ tx.stage \in {"commit", "end"}
               /\ UNCHANGED <<lockq, tx, work, open>>
<1>1. Dropped(i) /\ (Head(lockq) = i /\ tx.stage = "begin" => "begin" \in Cancels)
  BY DEF CancelDirect, Dropped
<1>2. CASE Head(lockq) # i \/ tx.stage = "free"
  BY <1>1, <1>2 DEF CancelDirect
<1>3. CASE Head(lockq) = i /\ tx.stage = "begin"
  BY <1>1, <1>3 DEF CancelDirect
<1>4. CASE Head(lockq) = i /\ tx.stage \in {"read", "delete", "insert"}
  BY <1>1, <1>4 DEF CancelDirect
<1>5. CASE Head(lockq) = i /\ tx.stage \in {"commit", "end"}
  BY <1>1, <1>5 DEF CancelDirect
<1>6. tx.stage \in Stages
  BY DEF IInv, Types
<1> QED
  BY <1>2, <1>3, <1>4, <1>5, <1>6 DEF Stages

LEMMA CancelDirectStep == ASSUME IInv, NEW i \in DOMAIN calls, CancelDirect(i) PROVE IInv'
<1>1. Dropped(i)
  BY DropWays
<1>2. CASE Head(lockq) # i \/ tx.stage = "free"
  BY <1>1, <1>2, DropWays, DropWaiting
<1>3. CASE Head(lockq) = i /\ tx.stage = "begin"
  BY <1>1, <1>3, DropWays, DropBegin
<1>4. CASE Head(lockq) = i /\ tx.stage \in {"read", "delete", "insert"}
  BY <1>1, <1>4, DropWays, DropInside
<1>5. CASE Head(lockq) = i /\ tx.stage \in {"commit", "end"}
  BY <1>1, <1>5, DropWays, DropLate
<1> QED
  BY <1>2, <1>3, <1>4, <1>5, DropWays

-------------------------------------------------------------------------------
(* A crash, the first state, and the theorems.                             *)

LEMMA CrashStep == ASSUME IInv, Crash PROVE IInv'
<1>0. Types /\ Wins
  BY DEF IInv
<1> DEFINE new(i) == IF calls[i].st = "pending" THEN [calls[i] EXCEPT !.st = "cancelled"]
                                                ELSE calls[i]
<1>1. /\ crashes < MaxCrashes /\ crashes' = crashes + 1
      /\ calls' = [i \in DOMAIN calls |-> new(i)]
      /\ queue' = <<>> /\ items' = {} /\ lockq' = <<>> /\ tx' = NoTx
      /\ work' = disk /\ open' = FALSE /\ disk' = disk
  BY DEF Crash
<1>2. calls \in Seq(Record) /\ Len(calls) \in Nat /\ DOMAIN calls = 1..Len(calls)
  BY <1>0, CallFacts DEF Types
<1>3. ASSUME NEW i \in DOMAIN calls
      PROVE  /\ new(i) \in Record /\ new(i).op = calls[i].op /\ new(i).via = calls[i].via
             /\ new(i).st # "pending" /\ (new(i).st = "answered" <=> calls[i].st = "answered")
             /\ new(i).ans = calls[i].ans
  <2>1. calls[i] \in Record
    BY <1>0, CallFacts
  <2> QED
    BY <2>1 DEF Record
<1> HIDE DEF new, Record
<1>4. /\ DOMAIN calls' = DOMAIN calls /\ \A i \in DOMAIN calls : calls'[i] = new(i)
      /\ calls' \in Seq(Record) /\ Len(calls') = Len(calls)
  BY <1>1, <1>2, <1>3
<1>5. /\ tx'.stage = "free" /\ tx'.err = FALSE
      /\ tx' = [stage |-> tx'.stage, results |-> tx'.results, err |-> tx'.err]
  BY <1>1 DEF NoTx
<1>6. Types'
  <2>1. crashes' \in 0..MaxCrashes
    BY <1>0, <1>1, StoreAssumption DEF Types
  <2>2. \A i \in DOMAIN calls' : calls'[i].st = "answered" <=> calls'[i].ans # Unknown
    BY <1>0, <1>3, <1>4 DEF Types
  <2> QED
    BY <1>0, <1>1, <1>4, <1>5, <2>1, <2>2 DEF Types, Stages
<1>7. Queued' = Queued /\ Done' = Done
  BY <1>3, <1>4 DEF Queued, Done
<1>8. Order'
  <2>1. queue' \in Seq(Nat) /\ ToSet(queue') = {}
    BY <1>1 DEF ToSet
  <2> QED
    BY <1>1, <1>3, <1>4, <2>1 DEF Order, Queued
<1>9. Locks'
  <2>1. lockq' \in Seq(Nat) /\ DOMAIN lockq' = {}
    BY <1>1
  <2> QED
    BY <1>1, <1>3, <1>4, <1>5, <2>1 DEF Locks
<1>10. Progress' /\ Ready'
  BY <1>1, <1>5 DEF Progress, Ready
<1>11. Wins'
  <2>1. Settled(Done)'
    BY <1>0, <1>1, <1>3, <1>4, <1>7 DEF Wins, Settled, Done, Queued, Writes, KeyOf
  <2> QED
    BY <1>5, <2>1 DEF Wins
<1> QED
  BY <1>6, <1>8, <1>9, <1>10, <1>11 DEF IInv

LEMMA Start == ASSUME Init PROVE IInv
<1>1. /\ calls = <<>> /\ queue = <<>> /\ items = {} /\ lockq = <<>> /\ tx = NoTx
      /\ work = [k \in Keys |-> NoItem] /\ disk = work /\ open = FALSE /\ crashes = 0
  BY DEF Init
<1>2. /\ tx.stage = "free" /\ tx.err = FALSE
      /\ tx = [stage |-> tx.stage, results |-> tx.results, err |-> tx.err]
  BY <1>1 DEF NoTx
<1>3. work \in [Keys -> Item] /\ disk \in [Keys -> Item]
  <2>1. NoItem \in Item
    BY StoreAssumption DEF NoItem, Item, Numbers
  <2> QED
    BY <1>1, <2>1
<1>4. DOMAIN calls = {} /\ Len(calls) = 0 /\ calls \in Seq(Record)
  BY <1>1
<1>5. Types
  <2>0. MaxCalls \in Nat /\ MaxCrashes \in Nat
    BY StoreAssumption
  <2>1. crashes \in 0..MaxCrashes /\ Len(calls) <= MaxCalls /\ open \in BOOLEAN
    <3>1. crashes = 0 /\ open = FALSE
      BY <1>1
    <3>2. crashes \in 0..MaxCrashes
      BY <2>0, <3>1
    <3>3. Len(calls) <= MaxCalls
      BY <1>4, <2>0
    <3> QED
      BY <3>1, <3>2, <3>3
  <2>2. \A i \in DOMAIN calls : calls[i].st = "answered" <=> calls[i].ans # Unknown
    BY <1>4
  <2>3. tx.stage \in Stages /\ tx.err \in BOOLEAN
    BY <1>2 DEF Stages
  <2> HIDE DEF Record
  <2> QED
    BY <1>2, <1>3, <1>4, <2>1, <2>2, <2>3 DEF Types
<1>6. Queued = {} /\ Done = {}
  BY <1>4 DEF Queued, Done
<1>7. Order
  <2>1. queue \in Seq(Nat) /\ ToSet(queue) = {}
    BY <1>1 DEF ToSet
  <2> QED
    BY <1>1, <1>6, <2>1 DEF Order
<1>8. Locks
  <2>1. lockq \in Seq(Nat) /\ DOMAIN lockq = {}
    BY <1>1
  <2> QED
    BY <1>1, <1>2, <1>4, <2>1 DEF Locks
<1>9. Progress /\ Ready
  BY <1>1, <1>2, <1>4 DEF Progress, Ready
<1>10. Wins
  <2>1. \A k \in Keys : disk[k].val = 0
    BY <1>1 DEF NoItem
  <2> QED
    BY <1>2, <2>1 DEF Wins, Settled
<1> QED
  BY <1>5, <1>7, <1>8, <1>9, <1>10 DEF IInv

LEMMA Step == ASSUME IInv, [Next]_vars PROVE IInv'
<1>1. ASSUME NEW op \in QueueOps, Enqueue(op) PROVE IInv'
  BY <1>1, EnqueueStep
<1>2. ASSUME NEW op \in DirectOps, CallDirect(op) PROVE IInv'
  BY <1>2, CallDirectStep
<1>3. ASSUME NEW i \in DOMAIN calls, CancelQueued(i) \/ CancelDirect(i) PROVE IInv'
  BY <1>3, CancelQueuedStep, CancelDirectStep
<1>4. CASE Take
  BY <1>4, TakeStep
<1>5. CASE Transaction
  BY <1>5, LockStep, BeginStep, ReadStep, DeleteStep, InsertStep, CommitStep, FinishStep
     DEF Transaction
<1>6. ASSUME NEW k \in Keys, RunOut(k) PROVE IInv'
  BY <1>6, RunOutStep
<1>7. CASE Crash
  BY <1>7, CrashStep
<1>8. CASE UNCHANGED vars
  <2>1. /\ Types' /\ Order' /\ Locks' /\ InTx' = InTx
        /\ UNCHANGED <<calls, items, lockq, tx, work, disk>>
    BY <1>8 DEF vars, IInv, Types, Order, Queued, Done, Locks, Held, InTx, Batch
  <2>2. /\ AfterDelete(work, disk) => AfterDelete(work, disk)'
        /\ AfterInsert(work, disk) => AfterInsert(work, disk)'
        /\ AfterSome(work, disk) => AfterSome(work, disk)'
    BY <2>1, AfterNow
  <2>3. Progress'
    BY <2>1, <2>2 DEF IInv, Progress, Cancelled, View
  <2>4. ASSUME NEW i \in DOMAIN calls
        PROVE  Listen(InTx, i)' = Listen(InTx, i) /\ Answer(i, disk)' = Answer(i, disk)
    BY <2>1 DEF Listen, Same, Writes, KeyOf, Answer, Present
  <2>5. Ready'
    BY <2>1, <2>4 DEF IInv, Ready
  <2>6. Wins'
    BY <2>1 DEF IInv, Wins, Settled, Done, Queued, Writes, KeyOf
  <2> QED
    BY <2>1, <2>3, <2>5, <2>6 DEF IInv
<1> QED
  BY <1>1, <1>2, <1>3, <1>4, <1>5, <1>6, <1>7, <1>8 DEF Next, Stop

(* The invariant that follows one batch from the queue to the file holds   *)
(* in every behaviour.                                                     *)
THEOREM Inductive == Spec => []IInv
<1>1. Init => IInv
  BY Start
<1>2. IInv /\ [Next]_vars => IInv'
  BY Step
<1> QED
  BY <1>1, <1>2, PTL DEF Spec

(* The variables keep their types: in particular a call has an answer if   *)
(* and only if it was answered, whatever is cancelled while _run and       *)
(* abatch are at work on it.                                               *)
THEOREM TypeCorrect == Spec => []TypeOK
<1>1. IInv => TypeOK
  <2> SUFFICES ASSUME IInv PROVE TypeOK
    OBVIOUS
  <2>0. Types /\ Order /\ Locks
    BY DEF IInv
  <2>1. ASSUME NEW i \in DOMAIN calls
        PROVE  /\ calls[i].op \in Op /\ calls[i].via \in {"queue", "direct"}
               /\ calls[i].st \in {"pending", "answered", "failed", "cancelled"}
               /\ calls[i].st = "answered" <=> calls[i].ans # Unknown
    BY <2>0, CallFacts DEF Types, Record
  <2>2. ToSet(queue) \cup items \subseteq {i \in DOMAIN calls : calls[i].via = "queue"}
    BY <2>0 DEF Order, Queued
  <2>3. ToSet(lockq) \subseteq {0} \cup DOMAIN calls
    BY <2>0 DEF Locks, ToSet
  <2>4. {work, disk} \subseteq
          [Keys -> [val : 0..MaxCalls, ttl : {"none", "fresh", "expired"}]]
    BY <2>0 DEF Types, Item, Numbers
  <2> QED
    BY <2>0, <2>1, <2>2, <2>3, <2>4 DEF TypeOK, Types, Stages
<1> QED
  BY <1>1, Inductive, PTL

(* Of two writes to one key the one enqueued later wins, in whichever      *)
(* batches _run puts them and whatever is cancelled, fails or crashes      *)
(* between the two.                                                        *)
THEOREM LaterWins == Spec => []LaterPutWins
<1>1. IInv => LaterPutWins
  BY DEF IInv, Wins, Settled, Done, Queued, LaterPutWins
<1> QED
  BY <1>1, Inductive, PTL

LEMMA OpenStep ==
  ASSUME "begin" \notin Cancels, IInv, OpenInside, [Next]_vars
  PROVE  OpenInside'
<1>0. Types
  BY DEF IInv
<1>1. CASE Transaction
  <2>0. tx = [stage |-> tx.stage, results |-> tx.results, err |-> tx.err]
    BY <1>0 DEF Types
  <2>1. CASE Lock
    BY <2>0, <2>1 DEF Lock, OpenInside
  <2>2. CASE Begin
    <3>1. tx.stage = "begin" /\ ~ open /\ open' = TRUE /\ tx' = [tx EXCEPT !.stage = "read"]
      BY <2>2 DEF Begin, OpenInside
    <3> QED
      BY <2>0, <3>1 DEF OpenInside
  <2>3. CASE Read
    <3>1. tx.stage = "read" /\ tx'.stage \in {"commit", "delete"} /\ open' = open
      BY <2>0, <2>3 DEF Read
    <3> QED
      BY <3>1 DEF OpenInside
  <2>4. CASE Delete
    BY <2>0, <2>4 DEF Delete, OpenInside
  <2>5. CASE Insert
    <3>1. tx.stage = "insert" /\ tx'.stage = "commit" /\ open' = open
      BY <2>0, <2>5 DEF Insert
    <3> QED
      BY <3>1 DEF OpenInside
  <2>6. CASE Commit
    BY <2>0, <2>6 DEF Commit, OpenInside
  <2>7. CASE Finish
    BY <2>7 DEF Finish, OpenInside, NoTx
  <2> QED
    BY <1>1, <2>1, <2>2, <2>3, <2>4, <2>5, <2>6, <2>7 DEF Transaction
<1>2. ASSUME NEW i \in DOMAIN calls, CancelDirect(i) PROVE OpenInside'
  <2>1. CASE UNCHANGED <<tx, open>>
    BY <2>1 DEF OpenInside
  <2>2. CASE tx.stage \in {"read", "delete", "insert"} /\ tx' = [tx EXCEPT !.stage = "commit"]
             /\ UNCHANGED open
    BY <1>0, <2>2 DEF OpenInside, Types
  <2> QED
    BY <1>2, <2>1, <2>2, DropWays
<1>3. CASE Crash
  BY <1>3 DEF Crash, OpenInside, NoTx
<1>4. CASE UNCHANGED <<tx, open>>
  BY <1>4 DEF OpenInside
<1> QED
  BY <1>1, <1>2, <1>3, <1>4
     DEF Next, Stop, vars, Enqueue, CallDirect, CancelQueued, Take, RunOut

(* While no call is cancelled on its BEGIN, whoever gets the lock finds    *)
(* the connection outside of a transaction, so that no batch fails for     *)
(* what an earlier one left behind (the finally of AsyncSqliteStore._cursor*)
(* commits on every way out).                                              *)
THEOREM NoTransactionFound ==
  ASSUME "begin" \notin Cancels
  PROVE  Spec => []LockFindsNoTransaction
<1>1. Init => OpenInside
  BY DEF Init, OpenInside, NoTx
<1>2. IInv /\ OpenInside /\ [Next]_vars => OpenInside'
  BY OpenStep
<1>3. OpenInside => LockFindsNoTransaction
  BY DEF OpenInside, LockFindsNoTransaction
<1> QED
  BY <1>1, <1>2, <1>3, Inductive, PTL DEF Spec

-------------------------------------------------------------------------------
(* The refinement of AtomicStore.  What the log of the abstract store says *)
(* of a call, and what each of its actions comes to.                       *)

Past(i) == Executed /\ Current(i)

Status(i) ==
  CASE calls[i].st = "pending" /\ Past(i) -> IF tx.err THEN "failing" ELSE "executed"
    [] calls[i].st = "cancelled" -> IF InBatch(i) /\ ~ Past(i) THEN "detached" ELSE "dropped"
    [] OTHER -> calls[i].st

Told(i) == IF Status(i) = "executed" THEN tx.results[Listen(InTx, i)] ELSE calls[i].ans

LEMMA LogIs ==
  /\ DOMAIN Log = DOMAIN calls
  /\ \A i \in DOMAIN calls : Log[i] = [op |-> calls[i].op, st |-> Status(i), ans |-> Told(i)]
BY DEF Log, Status, Told, Past, InTx

LEMMA LogNext ==
  /\ DOMAIN Log' = DOMAIN calls'
  /\ \A i \in DOMAIN calls' :
       Log'[i] = [op |-> calls'[i].op, st |-> Status(i)', ans |-> Told(i)']
BY DEF Log, Status, Told, Past, InTx

SameMem == View(disk') = View(disk)

(* The calls made so far stay, and what the log says of those not in S.    *)
Others(S) ==
  /\ DOMAIN calls' = DOMAIN calls
  /\ \A i \in DOMAIN calls :
       /\ calls'[i].op = calls[i].op
       /\ i \notin S => Status(i)' = Status(i) /\ Told(i)' = Told(i)

LEMMA IsStutter == ASSUME Others({}), SameMem PROVE UNCHANGED Atomic!avars
<1>1. DOMAIN Log' = DOMAIN Log /\ \A i \in DOMAIN Log : Log'[i] = Log[i]
  BY LogIs, LogNext DEF Others
<1>2. Log' = Log
  <2>1. Log = [i \in DOMAIN Log |-> Log[i]] /\ Log' = [i \in DOMAIN Log' |-> Log'[i]]
    BY DEF Log
  <2> HIDE DEF Log
  <2> QED
    BY <1>1, <2>1
<1> HIDE DEF Log
<1> QED
  BY <1>2 DEF Atomic!avars, SameMem, View

LEMMA IsLeave ==
  ASSUME NEW i \in DOMAIN calls, Others({i}), SameMem,
         Status(i) \in {"pending", "executed", "failing"},
         Status(i)' \in {"detached", "dropped"}, Told(i)' = Unknown
  PROVE  Atomic!Leave
<1>1. i \in Atomic!InState({"pending", "executed", "failing"})
  BY LogIs DEF Atomic!InState
<1>2. DOMAIN Log' = DOMAIN Log
  BY LogIs, LogNext DEF Others
<1>3. ASSUME NEW j \in DOMAIN Log
      PROVE  Log'[j] = IF j \in {i} THEN Atomic!Marked(j, Status(i)', Atomic!Unknown) ELSE Log[j]
  BY LogIs, LogNext DEF Others, Atomic!Marked, Atomic!Unknown, Unknown
<1>4. UNCHANGED [k \in Keys |-> [val |-> disk[k].val, kept |-> disk[k].ttl = "none"]]
  BY DEF View, SameMem
<1> HIDE DEF Log, Status
<1> QED
  BY <1>1, <1>2, <1>3, <1>4 DEF Atomic!Leave, Atomic!Only

LEMMA IsRespond ==
  ASSUME NEW S \in SUBSET DOMAIN calls, S # {}, Others(S), SameMem,
         \A i \in S : /\ Status(i) \in {"executed", "failing"} /\ Told(i)' = Told(i)
                      /\ Status(i)' = IF Status(i) = "executed" THEN "answered" ELSE "failed"
  PROVE  Atomic!Respond
<1>1. S \in SUBSET Atomic!InState({"executed", "failing"})
  BY LogIs DEF Atomic!InState
<1>2. DOMAIN Log' = DOMAIN Log
  BY LogIs, LogNext DEF Others
<1>3. ASSUME NEW j \in DOMAIN Log
      PROVE  Log'[j] = IF j \in S
                       THEN Atomic!Marked(j, IF Log[j].st = "executed" THEN "answered" ELSE "failed",
                                          Log[j].ans)
                       ELSE Log[j]
  BY LogIs, LogNext DEF Others, Atomic!Marked
<1>4. UNCHANGED [k \in Keys |-> [val |-> disk[k].val, kept |-> disk[k].ttl = "none"]]
  BY DEF View, SameMem
<1> HIDE DEF Log, Status
<1> QED
  BY <1>1, <1>2, <1>3, <1>4 DEF Atomic!Respond, Atomic!Only

Lost == {i \in DOMAIN calls : Status(i) \in {"pending", "detached", "executed", "failing"}}

LEMMA IsLose ==
  ASSUME Others(Lost), SameMem, \A i \in Lost : Status(i)' = "dropped" /\ Told(i)' = Unknown
  PROVE  Atomic!Lose
<1>1. Lost = Atomic!InState(Atomic!Open \cup {"executed", "failing"})
  BY LogIs DEF Lost, Atomic!InState, Atomic!Open
<1>2. DOMAIN Log' = DOMAIN Log
  BY LogIs, LogNext DEF Others
<1>3. ASSUME NEW j \in DOMAIN Log
      PROVE  Log'[j] = IF j \in Lost THEN Atomic!Marked(j, "dropped", Atomic!Unknown) ELSE Log[j]
  BY LogIs, LogNext DEF Others, Atomic!Marked, Atomic!Unknown, Unknown
<1>4. UNCHANGED [k \in Keys |-> [val |-> disk[k].val, kept |-> disk[k].ttl = "none"]]
  BY DEF View, SameMem
<1> HIDE DEF Log, Lost
<1> QED
  BY <1>1, <1>2, <1>3, <1>4 DEF Atomic!Lose, Atomic!Only

(* The calls of the batch take effect together, or fail together.          *)
LEMMA WrittenIs ==
  ASSUME InTx \subseteq DOMAIN calls, NEW k \in Keys
  PROVE  /\ To(k) = {} <=> Atomic!Written(InTx, k) = {}
         /\ \A i \in To(k) : Put(i) \in Atomic!Written(InTx, k)
<1>1. \A i \in InTx : Log[i].op = calls[i].op
  BY LogIs
<1> DEFINE Puts == {j \in InTx : Log[j].op.kind = "put" /\ Log[j].op.key = k}
           Dels == {j \in InTx : Log[j].op.kind = "del" /\ Log[j].op.key = k}
<1>2. To(k) = Puts \cup Dels
  BY <1>1 DEF To, Writes, KeyOf
<1>3. Atomic!Written(InTx, k) =
        {[val |-> i, kept |-> ~ Log[i].op.ttl] : i \in Puts} \cup {Nothing : i \in Dels}
  BY DEF Atomic!Written, Atomic!NoItem, Nothing
<1>4. \A i \in Puts : Put(i) = [val |-> i, kept |-> ~ Log[i].op.ttl]
  BY <1>1 DEF Put
<1>5. \A i \in Dels : Put(i) = Nothing
  BY <1>1 DEF Put
<1> HIDE DEF Puts, Dels
<1> QED
  BY <1>2, <1>3, <1>4, <1>5

LEMMA SweptIs ==
  ASSUME InTx \subseteq DOMAIN calls, NEW k \in Keys, NEW w, Left(k, w, disk)
  PROVE  View(w)[k] \in Atomic!Swept(InTx, k)
<1>1. \A i \in InTx : Log[i].op = calls[i].op
  BY LogIs
<1>2. Atomic!Swept(InTx, k) =
        IF View(disk)[k].kept \/ \A i \in InTx : calls[i].op.kind # "sweep" THEN {View(disk)[k]}
        ELSE {View(disk)[k], Nothing}
  BY <1>1 DEF Atomic!Swept, Atomic!NoItem, Nothing, View
<1> QED
  BY <1>2 DEF Left

LEMMA SeenIs ==
  ASSUME Types, NEW i \in DOMAIN calls
  PROVE  Answer(i, disk) = Atomic!Seen(Log[i].op,
           [k \in Keys |-> [val |-> disk[k].val, kept |-> disk[k].ttl = "none"]])
<1> DEFINE m == [k \in Keys |-> [val |-> disk[k].val, kept |-> disk[k].ttl = "none"]]
<1>1. Log[i].op = calls[i].op /\ calls[i].op \in Op
  BY LogIs, CallFacts DEF Record
<1>2. KeyOf(i) \in Keys /\ KeyOf(i) = calls[i].op.key
  BY <1>1 DEF KeyOf, Op
<1>3. \A k \in Keys : m[k].val = disk[k].val
  OBVIOUS
<1> HIDE DEF m
<1>4. {<<k, m[k].val>> : k \in {x \in Keys : m[x].val # 0}}
        = {<<k, disk[k].val>> : k \in Present(disk)}
  BY <1>3 DEF Present
<1>5. Answer(i, disk) = Atomic!Seen(calls[i].op, m)
  BY <1>2, <1>3, <1>4 DEF Answer, Atomic!Seen
<1> QED
  BY <1>1, <1>5 DEF m

LEMMA IsExecute ==
  ASSUME Types, InTx \subseteq DOMAIN calls, InTx # {}, Others(InTx), AfterInsert(disk', disk),
         \A i \in InTx :
           \/ /\ Status(i) = "detached" /\ Status(i)' = "dropped" /\ Told(i)' = Told(i)
           \/ /\ Status(i) = "pending" /\ Status(i)' = "executed"
              /\ Told(i)' = Answer(i, disk)
  PROVE  Atomic!Execute
<1> DEFINE m == [k \in Keys |-> [val |-> disk[k].val, kept |-> disk[k].ttl = "none"]]
<1>1. InTx \in SUBSET Atomic!InState(Atomic!Open)
  BY LogIs DEF Atomic!InState, Atomic!Open
<1>2. DOMAIN Log' = DOMAIN Log
  BY LogIs, LogNext DEF Others
<1>3. ASSUME NEW j \in DOMAIN Log
      PROVE  Log'[j] = IF j \in InTx
                       THEN IF Log[j].st = "detached" THEN Atomic!Marked(j, "dropped", Log[j].ans)
                            ELSE Atomic!Marked(j, "executed", Atomic!Seen(Log[j].op, m))
                       ELSE Log[j]
  <2>1. /\ j \in DOMAIN calls /\ calls'[j].op = calls[j].op
        /\ Log[j] = [op |-> calls[j].op, st |-> Status(j), ans |-> Told(j)]
        /\ Log'[j] = [op |-> calls[j].op, st |-> Status(j)', ans |-> Told(j)']
        /\ Answer(j, disk) = Atomic!Seen(Log[j].op, m)
    BY LogIs, LogNext, SeenIs DEF Others
  <2>2. CASE j \notin InTx
    <3>1. Status(j)' = Status(j) /\ Told(j)' = Told(j)
      BY <2>1, <2>2 DEF Others
    <3> HIDE DEF Log, m
    <3> QED
      BY <2>1, <2>2, <3>1
  <2>3. CASE j \in InTx /\ Status(j) = "detached"
    <3>1. Status(j)' = "dropped" /\ Told(j)' = Told(j)
      BY <2>3
    <3> HIDE DEF Log, m
    <3> QED
      BY <2>1, <2>3, <3>1 DEF Atomic!Marked
  <2>4. CASE j \in InTx /\ Status(j) = "pending"
    <3>1. Status(j)' = "executed" /\ Told(j)' = Answer(j, disk)
      BY <2>4
    <3> HIDE DEF Log, m
    <3> QED
      BY <2>1, <2>4, <3>1 DEF Atomic!Marked
  <2> QED
    BY <2>2, <2>3, <2>4
<1>4. ASSUME NEW k \in Keys
      PROVE  IF Atomic!Written(InTx, k) = {} THEN m'[k] \in Atomic!Swept(InTx, k)
                                             ELSE m'[k] \in Atomic!Written(InTx, k)
  <2>1. m'[k] = View(disk')[k]
    BY DEF View
  <2>2. IF To(k) # {} THEN Effect(k, disk') ELSE Left(k, disk', disk)
    BY DEF AfterInsert
  <2>3. To(k) # {} => LastTo(k) \in To(k)
    BY LastFacts
  <2>4. To(k) # {} => View(disk')[k] \in Atomic!Written(InTx, k)
    BY <2>2, <2>3, WrittenIs DEF Effect
  <2>5. To(k) = {} => View(disk')[k] \in Atomic!Swept(InTx, k)
    BY <2>2, SweptIs
  <2> HIDE DEF m
  <2> QED
    BY <2>1, <2>4, <2>5, WrittenIs
<1>5. m' = [k \in Keys |-> [val |-> disk'[k].val, kept |-> disk'[k].ttl = "none"]]
  OBVIOUS
<1> HIDE DEF Log
<1> QED
  BY <1>1, <1>2, <1>3, <1>4 DEF Atomic!Execute, Atomic!Only

LEMMA IsAbort ==
  ASSUME Types, InTx \subseteq DOMAIN calls, InTx # {}, Others(InTx), AfterSome(disk', disk),
         \A i \in InTx :
           /\ \/ Status(i) = "detached" /\ Status(i)' = "dropped"
              \/ Status(i) = "pending" /\ Status(i)' = "failing"
           /\ Told(i)' = Told(i)
  PROVE  Atomic!Abort
<1> DEFINE m == [k \in Keys |-> [val |-> disk[k].val, kept |-> disk[k].ttl = "none"]]
<1>1. InTx \in SUBSET Atomic!InState(Atomic!Open)
  BY LogIs DEF Atomic!InState, Atomic!Open
<1>2. DOMAIN Log' = DOMAIN Log
  BY LogIs, LogNext DEF Others
<1>3. ASSUME NEW j \in DOMAIN Log
      PROVE  Log'[j] = IF j \in InTx
                       THEN Atomic!Marked(j, IF Log[j].st = "detached" THEN "dropped" ELSE "failing",
                                          Log[j].ans)
                       ELSE Log[j]
  BY LogIs, LogNext DEF Others, Atomic!Marked
<1>4. ASSUME NEW k \in Keys
      PROVE  m'[k] \in Atomic!Written(InTx, k) \cup Atomic!Swept(InTx, k)
  <2>1. m'[k] = View(disk')[k]
    BY DEF View
  <2>2. Left(k, disk', disk) \/ (To(k) # {} /\ Effect(k, disk'))
    BY DEF AfterSome
  <2>3. To(k) # {} => LastTo(k) \in To(k)
    BY LastFacts
  <2>4. To(k) # {} /\ Effect(k, disk') => View(disk')[k] \in Atomic!Written(InTx, k)
    BY <2>3, WrittenIs DEF Effect
  <2>5. Left(k, disk', disk) => View(disk')[k] \in Atomic!Swept(InTx, k)
    BY SweptIs
  <2> HIDE DEF m
  <2> QED
    BY <2>1, <2>2, <2>4, <2>5
<1> HIDE DEF Log
<1> QED
  BY <1>1, <1>2, <1>3, <1>4 DEF Atomic!Abort, Atomic!Only

LEMMA IsCall ==
  ASSUME Types, NEW n, n = Len(calls'), n = Len(calls) + 1,
         DOMAIN calls' = DOMAIN calls \cup {n},
         \A i \in DOMAIN calls : /\ calls'[i].op = calls[i].op
                                 /\ Status(i)' = Status(i) /\ Told(i)' = Told(i),
         Status(n)' = "pending", SameMem
  PROVE  Atomic!Call
<1> DEFINE l == Log
           E == ToSet(l') \cup ToSet(l)
<1>1. Len(calls) \in Nat /\ DOMAIN calls = 1..Len(calls)
  BY CallFacts
<1>2. DOMAIN l = 1..Len(calls) /\ DOMAIN l' = 1..n
  BY <1>1, LogIs, LogNext
<1>3. l = [i \in 1..Len(calls) |-> l[i]] /\ l' = [i \in 1..n |-> l'[i]]
  <2>1. l = [i \in DOMAIN l |-> l[i]] /\ l' = [i \in DOMAIN l' |-> l'[i]]
    BY DEF Log
  <2> HIDE DEF l
  <2> QED
    BY <1>2, <2>1
<1>4. \A i \in 1..Len(calls) : l'[i] = l[i]
  BY <1>1, LogIs, LogNext
<1>5. l'[n].st = "pending"
  <2>1. n \in DOMAIN calls'
    OBVIOUS
  <2>2. Log'[n] = [op |-> calls'[n].op, st |-> Status(n)', ans |-> Told(n)']
    BY <2>1, LogNext
  <2> HIDE DEF Log
  <2> QED
    BY <2>2 DEF l
<1> HIDE DEF l
<1>6. (\A i \in 1..Len(calls) : l[i] \in E) /\ (\A i \in 1..n : l'[i] \in E)
  BY <1>2 DEF ToSet
<1> HIDE DEF E
<1>7. l \in Seq(E) /\ l' \in Seq(E) /\ Len(l) = Len(calls) /\ Len(l') = n
  BY <1>1, <1>3, <1>6
<1>8. SubSeq(l', 1, Len(l)) = l
  BY <1>1, <1>3, <1>4, <1>7
<1> QED
  BY <1>5, <1>7, <1>8 DEF Atomic!Call, l, SameMem, View

-------------------------------------------------------------------------------
(* Every step of the store is a step of AtomicStore, or none.              *)

Refined == Atomic!ANext \/ UNCHANGED Atomic!avars

(* A call that is neither cancelled nor answered, while the transaction it *)
(* may be in stays where it is, or is not through.                         *)
LEMMA Steady ==
  ASSUME IInv, IInv', tx' = tx, Grown, NEW i \in DOMAIN calls, calls'[i] = calls[i],
         tx.stage # "free" => /\ Head(lockq') = Head(lockq)
                              /\ Head(lockq) = 0 => items' = items,
         calls[i].st = "cancelled" /\ calls[i].via = "queue" => (i \in items' <=> i \in items)
  PROVE  Status(i)' = Status(i) /\ Told(i)' = Told(i)
<1>0. Types /\ Order /\ Locks /\ Locks'
  BY DEF IInv
<1>1. tx.stage # "free" => lockq # <<>> /\ lockq' # <<>> /\ InTx' = InTx /\ InTx \subseteq DOMAIN calls
  <2>1. tx.stage # "free" => lockq # <<>> /\ lockq' # <<>>
    BY <1>0 DEF Locks
  <2> QED
    BY <1>0, <2>1, InTxFacts DEF InTx, Batch
<1>2. (Past(i)' <=> Past(i)) /\ (Past(i) => tx.stage # "free" /\ i \in InTx)
  BY <1>1 DEF Past, Executed, Current, InTx
<1>3. calls[i].st = "cancelled" => (InBatch(i)' <=> InBatch(i))
  BY <1>1 DEF InBatch
<1>4. Status(i)' = Status(i)
  BY <1>2, <1>3 DEF Status
<1>5. Status(i) = "executed" => Past(i)
  <2>1. calls[i].st \in {"pending", "answered", "failed", "cancelled"}
    BY <1>0, CallFacts DEF Record
  <2> QED
    BY <2>1 DEF Status
<1>6. Status(i) = "executed" => Listen(InTx, i)' = Listen(InTx, i)
  BY <1>0, <1>1, <1>2, <1>5, BatchKept
<1> QED
  BY <1>4, <1>6 DEF Told

LEMMA Running ==
  ASSUME IInv, NEW i \in DOMAIN calls, calls'[i] = calls[i],
         tx.stage # "end", tx'.stage # "end",
         calls[i].st = "cancelled" => (InBatch(i)' <=> InBatch(i))
  PROVE  Status(i)' = Status(i) /\ Told(i)' = Told(i)
<1>1. ~ Past(i) /\ ~ Past(i)'
  BY DEF Past, Executed
<1>2. calls[i].st \in {"pending", "answered", "failed", "cancelled"}
  BY CallFacts DEF Record, IInv
<1>3. Status(i)' = Status(i) /\ Status(i) # "executed"
  BY <1>1, <1>2 DEF Status
<1> QED
  BY <1>3 DEF Told

LEMMA MadeRefines ==
  ASSUME IInv, IInv', NEW op \in Op, NEW via \in {"queue", "direct"}, Len(calls) < MaxCalls,
         calls' = Append(calls, Made(op, via)), UNCHANGED <<items, tx, work, disk, open, crashes>>,
         tx.stage # "free" => Head(lockq') = Head(lockq)
  PROVE  Refined
<1>0. Types
  BY DEF IInv
<1>1. PICK n : n = Len(calls')
  OBVIOUS
<1>2. /\ Types' /\ Grown /\ Len(calls') = Len(calls) + 1
      /\ DOMAIN calls' = DOMAIN calls \cup {Len(calls')} /\ Len(calls') \in Nat \ {0}
      /\ \A i \in DOMAIN calls : calls'[i] = calls[i] /\ i < Len(calls')
      /\ calls'[Len(calls')] = Made(op, via)
  BY <1>0, CallMade
<1>3. /\ n = Len(calls) + 1 /\ DOMAIN calls' = DOMAIN calls \cup {n}
      /\ calls'[n] = Made(op, via) /\ calls'[n].st = "pending"
  BY <1>1, <1>2 DEF Made
<1>4. \A i \in DOMAIN calls : Status(i)' = Status(i) /\ Told(i)' = Told(i)
  BY <1>2, Steady
<1>5. n \notin DOMAIN calls
  <2>1. n \in Nat /\ ~ n < n
    BY <1>1, <1>2
  <2> QED
    BY <1>1, <1>2, <2>1
<1>6. ~ Past(n)'
  <2> SUFFICES ASSUME Past(n)' PROVE FALSE
    OBVIOUS
  <2>1. tx.stage = "end" /\ n \in InTx'
    BY DEF Past, Executed, Current, InTx
  <2>2. InTx' = InTx /\ InTx \subseteq DOMAIN calls
    BY <2>1, InTxFacts DEF InTx, Batch, IInv
  <2> QED
    BY <1>5, <2>1, <2>2
<1>7. Status(n)' = "pending"
  BY <1>3, <1>6 DEF Status
<1>8. \A i \in DOMAIN calls : calls'[i].op = calls[i].op
  BY <1>2
<1>9. Atomic!Call
  BY <1>0, <1>1, <1>3, <1>4, <1>7, <1>8, IsCall DEF SameMem, View
<1> QED
  BY <1>9 DEF Refined, Atomic!ANext

LEMMA EnqueueRefines == ASSUME IInv, IInv', NEW op \in QueueOps, Enqueue(op) PROVE Refined
<1>1. /\ calls' = Append(calls, Made(op, "queue")) /\ Len(calls) < MaxCalls /\ op \in Op
      /\ UNCHANGED <<items, lockq, tx, work, disk, open, crashes>>
  BY StoreAssumption DEF Enqueue, Made
<1> QED
  BY <1>1, MadeRefines

LEMMA CallDirectRefines == ASSUME IInv, IInv', NEW op \in DirectOps, CallDirect(op) PROVE Refined
<1>1. /\ calls' = Append(calls, Made(op, "direct")) /\ lockq' = Append(lockq, Len(calls'))
      /\ Len(calls) < MaxCalls /\ op \in Op
      /\ UNCHANGED <<items, tx, work, disk, open, crashes>>
  BY StoreAssumption DEF CallDirect, Made
<1>2. Len(calls') \in Nat
  BY <1>1, CallMade DEF IInv
<1>3. lockq \in Seq(Nat) /\ (tx.stage # "free" => lockq # <<>>)
  BY DEF IInv, Locks
<1>4. tx.stage # "free" => Head(lockq') = Head(lockq)
  BY <1>1, <1>2, <1>3, NatAppend
<1> QED
  BY <1>1, <1>4, MadeRefines

(* A call that is cancelled leaves.                                        *)
LEMMA DroppedRefines ==
  ASSUME IInv, IInv', NEW i \in DOMAIN calls, calls[i].st = "pending",
         calls' = [calls EXCEPT ![i].st = "cancelled"], disk' = disk,
         \A j \in DOMAIN calls : j # i => Status(j)' = Status(j) /\ Told(j)' = Told(j)
  PROVE  Refined
<1>0. Types /\ Types'
  BY DEF IInv
<1>1. DOMAIN calls' = DOMAIN calls /\ Grown /\ calls'[i].st = "cancelled"
  BY <1>0, CallMarked
<1>2. calls'[i].ans = Unknown
  BY <1>0, <1>1 DEF Types
<1>3. Others({i})
  BY <1>1 DEF Others, Grown
<1>4. Status(i) \in {"pending", "executed", "failing"}
  BY DEF Status
<1>5. Status(i)' \in {"detached", "dropped"}
  BY <1>1 DEF Status
<1>6. Told(i)' = Unknown
  BY <1>2, <1>5 DEF Told
<1>7. Atomic!Leave
  BY <1>3, <1>4, <1>5, <1>6, IsLeave DEF SameMem, View
<1> QED
  BY <1>7 DEF Refined, Atomic!ANext

LEMMA CancelQueuedRefines ==
  ASSUME IInv, IInv', NEW i \in DOMAIN calls, CancelQueued(i)
  PROVE  Refined
<1>1. /\ calls[i].st = "pending" /\ calls' = [calls EXCEPT ![i].st = "cancelled"]
      /\ UNCHANGED <<queue, items, lockq, tx, work, disk, open, crashes>>
  BY DEF CancelQueued
<1>2. Grown /\ \A j \in DOMAIN calls : j # i => calls'[j] = calls[j]
  BY <1>1, CallMarked DEF IInv
<1>3. \A j \in DOMAIN calls : j # i => Status(j)' = Status(j) /\ Told(j)' = Told(j)
  BY <1>1, <1>2, Steady
<1> QED
  BY <1>1, <1>3, DroppedRefines

LEMMA CancelDirectRefines ==
  ASSUME IInv, IInv', NEW i \in DOMAIN calls, CancelDirect(i)
  PROVE  Refined
<1>0. Types /\ Order /\ Locks /\ Locks'
  BY DEF IInv
<1>1. /\ Dropped(i) /\ calls[i].st = "pending" /\ calls[i].via = "direct"
      /\ calls' = [calls EXCEPT ![i].st = "cancelled"]
      /\ UNCHANGED <<queue, items, disk, crashes>>
  BY DropWays DEF Dropped
<1>2. /\ Grown /\ \A j \in DOMAIN calls : j # i => calls'[j] = calls[j]
  BY <1>0, <1>1, CallMarked
<1>3. CASE Head(lockq) # i \/ tx.stage = "free"
  <2>1. /\ tx' = tx /\ \E p \in DOMAIN lockq : lockq[p] = i /\ lockq' = RemoveAt(lockq, p)
    BY <1>0, <1>3, DropWays DEF IInv
  <2>2. PICK p \in DOMAIN lockq : lockq[p] = i /\ lockq' = RemoveAt(lockq, p)
    BY <2>1
  <2>3. tx.stage # "free" => Head(lockq') = Head(lockq)
    <3> SUFFICES ASSUME tx.stage # "free" PROVE Head(lockq') = Head(lockq)
      OBVIOUS
    <3>1. lockq \in Seq(Nat) /\ Head(lockq) = lockq[1] /\ p # 1
      BY <1>0, <1>3, <2>2, InTxFacts DEF Locks
    <3>2. /\ lockq' \in Seq(Nat) /\ DOMAIN lockq' = 1..Len(lockq) - 1 /\ DOMAIN lockq = 1..Len(lockq)
          /\ \A q \in DOMAIN lockq' : lockq'[q] = IF q < p THEN lockq[q] ELSE lockq[q + 1]
          /\ Len(lockq) \in Nat
      BY <2>2, <3>1, SeqRemove
    <3>3. 1 \in DOMAIN lockq' /\ 1 < p
      BY <3>1, <3>2
    <3>4. lockq'[1] = lockq[1] /\ Head(lockq') = lockq'[1]
      BY <3>2, <3>3
    <3> QED
      BY <3>1, <3>4
  <2>4. \A j \in DOMAIN calls : j # i => Status(j)' = Status(j) /\ Told(j)' = Told(j)
    BY <1>1, <1>2, <2>1, <2>3, Steady
  <2> QED
    BY <1>1, <2>4, DroppedRefines
<1>4. CASE Head(lockq) = i /\ tx.stage \in {"begin", "read", "delete", "insert"}
  <2>1. tx'.stage \in {"free", "commit"} /\ (tx'.stage # "free" => lockq' = lockq)
    <3>1. tx = [stage |-> tx.stage, results |-> tx.results, err |-> tx.err]
      BY <1>0 DEF Types
    <3>2. CASE tx.stage = "begin"
      <4>1. tx' = NoTx
        BY <1>4, <3>2, DropWays
      <4> QED
        BY <4>1 DEF NoTx
    <3>3. CASE tx.stage \in {"read", "delete", "insert"}
      <4>1. tx' = [tx EXCEPT !.stage = "commit"] /\ lockq' = lockq
        BY <1>4, <3>3, DropWays
      <4> QED
        BY <3>1, <4>1
    <3> QED
      BY <1>4, <3>2, <3>3
  <2>2. \A j \in DOMAIN calls : j # i /\ calls[j].st = "cancelled" => (InBatch(j)' <=> InBatch(j))
    BY <1>1, <1>2, <1>4, <2>1 DEF InBatch
  <2>3. \A j \in DOMAIN calls : j # i => Status(j)' = Status(j) /\ Told(j)' = Told(j)
    BY <1>2, <1>4, <2>1, <2>2, Running
  <2> QED
    BY <1>1, <2>3, DroppedRefines
<1>5. CASE Head(lockq) = i /\ tx.stage \in {"commit", "end"}
  <2>1. UNCHANGED <<lockq, tx>>
    BY <1>5, DropWays
  <2>2. \A j \in DOMAIN calls : j # i => Status(j)' = Status(j) /\ Told(j)' = Told(j)
    BY <1>1, <1>2, <2>1, Steady
  <2> QED
    BY <1>1, <2>2, DroppedRefines
<1>6. tx.stage \in Stages
  BY <1>0 DEF Types
<1> QED
  BY <1>3, <1>4, <1>5, <1>6 DEF Stages

(* Steps that callers cannot see.                                          *)
LEMMA QuietRefines ==
  ASSUME IInv, IInv', calls' = calls, View(disk') = View(disk),
         \A i \in DOMAIN calls : Status(i)' = Status(i) /\ Told(i)' = Told(i)
  PROVE  Refined
<1>1. Others({}) /\ SameMem
  BY DEF Others, SameMem
<1> QED
  BY <1>1, IsStutter DEF Refined

LEMMA TakeRefines == ASSUME IInv, IInv', Take PROVE Refined
<1>0. Types /\ Order /\ Locks
  BY DEF IInv
<1>1. /\ items = {} /\ items' = {i \in ToSet(queue) : calls[i].st = "pending"}
      /\ lockq' = IF items' = {} THEN lockq ELSE Append(lockq, 0)
      /\ UNCHANGED <<calls, tx, work, disk, open, crashes>>
  BY DEF Take
<1>2. tx.stage # "free" => Head(lockq') = Head(lockq) /\ Head(lockq) # 0
  <2>1. lockq \in Seq(Nat) /\ (tx.stage # "free" => lockq # <<>>)
    BY <1>0 DEF Locks
  <2>2. tx.stage # "free" => Head(lockq) # 0
    BY <1>0, <1>1, InTxFacts
  <2> QED
    BY <1>1, <2>1, <2>2, NatAppend
<1>3. Grown
  BY <1>1 DEF Grown
<1>4. \A i \in DOMAIN calls : calls[i].st = "cancelled" => (i \in items' <=> i \in items)
  BY <1>1
<1>5. \A i \in DOMAIN calls : Status(i)' = Status(i) /\ Told(i)' = Told(i)
  BY <1>1, <1>2, <1>3, <1>4, Steady
<1> QED
  BY <1>1, <1>5, QuietRefines

LEMMA RunOutRefines == ASSUME IInv, IInv', NEW k \in Keys, RunOut(k) PROVE Refined
<1>1. View(disk') = View(disk) /\ UNCHANGED <<calls, queue, items, lockq, tx, open, crashes>>
  BY RunOutFacts DEF IInv
<1>2. Grown
  BY <1>1 DEF Grown
<1>3. \A i \in DOMAIN calls : Status(i)' = Status(i) /\ Told(i)' = Told(i)
  BY <1>1, <1>2, Steady
<1> QED
  BY <1>1, <1>3, QuietRefines

(* The stages before the last.                                             *)
LEMMA StageRefines ==
  ASSUME IInv, IInv', UNCHANGED <<calls, items, lockq, disk>>,
         tx.stage # "end", tx'.stage # "end",
         tx.stage = "free" => tx'.stage = "begin", tx'.stage # "free"
  PROVE  Refined
<1>1. ASSUME NEW i \in DOMAIN calls, calls[i].st = "cancelled", calls[i].via = "direct",
             lockq # <<>>, Head(lockq) = i, tx.stage = "free"
      PROVE  FALSE
  <2>1. lockq \in Seq(Nat)
    BY DEF IInv, Locks
  <2>2. 1 \in DOMAIN lockq /\ lockq[1] = i /\ i # 0
    BY <1>1, <2>1, CallFacts DEF IInv
  <2> QED
    BY <1>1, <2>2 DEF IInv, Locks, Held
<1>2. \A i \in DOMAIN calls : calls[i].st = "cancelled" => (InBatch(i)' <=> InBatch(i))
  <2> SUFFICES ASSUME NEW i \in DOMAIN calls, calls[i].st = "cancelled"
               PROVE  InBatch(i)' <=> InBatch(i)
    OBVIOUS
  <2>1. CASE calls[i].via = "queue"
    BY <2>1 DEF InBatch
  <2>2. CASE calls[i].via # "queue"
    <3>1. calls[i].via = "direct"
      BY <2>2, CallFacts DEF IInv, Record
    <3> QED
      BY <1>1, <2>2, <3>1 DEF InBatch
  <2> QED
    BY <2>1, <2>2
<1>3. \A i \in DOMAIN calls : Status(i)' = Status(i) /\ Told(i)' = Told(i)
  BY <1>2, Running
<1> QED
  BY <1>3, QuietRefines DEF View

(* A batch that runs holds the calls that are waiting for it, and those    *)
(* that were cancelled since.                                              *)
LEMMA BatchCalls ==
  ASSUME IInv, tx.stage # "free"
  PROVE  /\ InTx # {} /\ InTx \subseteq DOMAIN calls /\ lockq # <<>>
         /\ \A i \in InTx : InBatch(i) /\ Current(i) /\ calls[i].st \in {"pending", "cancelled"}
         /\ \A i \in DOMAIN calls : Current(i) <=> i \in InTx
<1>0. Types /\ Order /\ Locks
  BY DEF IInv
<1>1. /\ InTx \subseteq DOMAIN calls /\ lockq # <<>> /\ 1 \in DOMAIN lockq
      /\ Head(lockq) = lockq[1]
      /\ \/ Head(lockq) = 0 /\ InTx = items /\ items # {}
         \/ /\ Head(lockq) \in DOMAIN calls /\ Head(lockq) # 0 /\ InTx = {Head(lockq)}
            /\ calls[Head(lockq)].via = "direct"
  BY <1>0, InTxFacts
<1>2. \A i : Current(i) <=> i \in InTx
  BY <1>1 DEF Current, InTx
<1>3. CASE Head(lockq) = 0 /\ InTx = items /\ items # {}
  BY <1>0, <1>1, <1>2, <1>3 DEF InBatch, Order, Queued
<1>4. CASE /\ Head(lockq) \in DOMAIN calls /\ Head(lockq) # 0 /\ InTx = {Head(lockq)}
           /\ calls[Head(lockq)].via = "direct"
  <2>1. calls[Head(lockq)].st \in {"pending", "cancelled"}
    BY <1>0, <1>1, <1>4 DEF Locks
  <2> QED
    BY <1>1, <1>2, <1>4, <2>1 DEF InBatch
<1> QED
  BY <1>1, <1>3, <1>4

(* The step that takes a batch to its end.                                 *)
LEMMA Ending ==
  ASSUME IInv, tx.stage \in {"begin", "commit"}, tx'.stage = "end",
         UNCHANGED <<calls, items, lockq>>
  PROVE  /\ Others(InTx) /\ InTx' = InTx
         /\ \A i \in InTx :
              \/ /\ calls[i].st = "cancelled" /\ Status(i) = "detached"
                 /\ Status(i)' = "dropped" /\ Told(i)' = Told(i)
              \/ /\ calls[i].st = "pending" /\ Status(i) = "pending"
                 /\ Status(i)' = IF tx'.err THEN "failing" ELSE "executed"
                 /\ Told(i)' = IF tx'.err THEN Told(i) ELSE tx'.results[Listen(InTx, i)]
<1>0. Types /\ Order /\ Locks
  BY DEF IInv
<1>1. /\ InTx # {} /\ InTx \subseteq DOMAIN calls /\ lockq # <<>>
      /\ \A i \in InTx : InBatch(i) /\ Current(i) /\ calls[i].st \in {"pending", "cancelled"}
      /\ \A i \in DOMAIN calls : Current(i) <=> i \in InTx
  BY BatchCalls
<1>2. InTx' = InTx /\ Grown
  BY DEF InTx, Batch, Grown
<1>3. \A i \in DOMAIN calls : /\ ~ Past(i) /\ (Past(i)' <=> i \in InTx)
                              /\ InBatch(i)' <=> InBatch(i)
  <2>1. \A i \in DOMAIN calls : Current(i)' <=> Current(i)
    BY DEF Current, Batch
  <2>2. \A i \in DOMAIN calls : InBatch(i)' <=> InBatch(i)
    BY DEF InBatch
  <2> QED
    BY <1>1, <2>1, <2>2 DEF Past, Executed
<1>4. \A i \in DOMAIN calls : calls[i].st \in {"pending", "answered", "failed", "cancelled"}
  BY <1>0, CallFacts DEF Record
<1>5. \A i \in DOMAIN calls : i \notin InTx => Status(i)' = Status(i) /\ Told(i)' = Told(i)
  <2> SUFFICES ASSUME NEW i \in DOMAIN calls, i \notin InTx
               PROVE  Status(i)' = Status(i) /\ Told(i)' = Told(i)
    OBVIOUS
  <2>1. Status(i)' = Status(i) /\ Status(i) # "executed"
    BY <1>3, <1>4 DEF Status
  <2> QED
    BY <2>1 DEF Told
<1>6. ASSUME NEW i \in InTx
      PROVE  \/ /\ calls[i].st = "cancelled" /\ Status(i) = "detached"
                /\ Status(i)' = "dropped" /\ Told(i)' = Told(i)
             \/ /\ calls[i].st = "pending" /\ Status(i) = "pending"
                /\ Status(i)' = IF tx'.err THEN "failing" ELSE "executed"
                /\ Told(i)' = IF tx'.err THEN Told(i) ELSE tx'.results[Listen(InTx, i)]
  <2>1. CASE calls[i].st = "cancelled"
    <3>1. Status(i) = "detached" /\ Status(i)' = "dropped"
      BY <1>1, <1>3, <2>1 DEF Status
    <3> QED
      BY <2>1, <3>1 DEF Told
  <2>2. CASE calls[i].st = "pending"
    <3>1. Status(i) = "pending" /\ Status(i)' = IF tx'.err THEN "failing" ELSE "executed"
      BY <1>1, <1>3, <2>2 DEF Status
    <3>2. Listen(InTx, i)' = Listen(InTx, i)
      BY <1>0, <1>1, <1>2, BatchKept
    <3>3. Told(i) = calls[i].ans
      BY <3>1 DEF Told
    <3>4. Told(i)' = IF tx'.err THEN calls[i].ans ELSE tx'.results[Listen(InTx, i)]
      BY <3>1, <3>2 DEF Told
    <3> QED
      BY <2>2, <3>1, <3>3, <3>4
  <2> QED
    BY <1>1, <2>1, <2>2
<1>7. Others(InTx)
  BY <1>5 DEF Others
<1> QED
  BY <1>2, <1>6, <1>7

LEMMA BeginRefines == ASSUME IInv, IInv', Begin PROVE Refined
<1>0. Types /\ Order /\ Locks
  BY DEF IInv
<1>1. /\ tx.stage = "begin"
      /\ tx' = IF open THEN [tx EXCEPT !.stage = "end", !.err = TRUE]
                       ELSE [tx EXCEPT !.stage = "read"]
      /\ UNCHANGED <<calls, queue, items, lockq, work, disk, crashes>>
  BY DEF Begin
<1>2. \/ tx'.stage = "end" /\ tx'.err = TRUE
      \/ tx'.stage = "read"
  BY <1>0, <1>1 DEF Types
<1>3. CASE tx'.stage = "read"
  BY <1>1, <1>3, StageRefines
<1>4. CASE tx'.stage = "end" /\ tx'.err = TRUE
  <2>1. AfterSome(disk', disk)
    BY <1>1, SomeOfIt
  <2>2. InTx # {} /\ InTx \subseteq DOMAIN calls
    BY <1>1, BatchCalls
  <2>3. Others(InTx)
    BY <1>1, <1>4, Ending
  <2>4. \A i \in InTx :
          /\ \/ Status(i) = "detached" /\ Status(i)' = "dropped"
             \/ Status(i) = "pending" /\ Status(i)' = "failing"
          /\ Told(i)' = Told(i)
    BY <1>1, <1>4, Ending
  <2>5. Atomic!Abort
    BY <1>0, <2>1, <2>2, <2>3, <2>4, IsAbort
  <2> QED
    BY <2>5 DEF Refined, Atomic!ANext
<1> QED
  BY <1>2, <1>3, <1>4

LEMMA CommitRefines == ASSUME IInv, IInv', Commit PROVE Refined
<1>0. Types /\ Order /\ Locks /\ Progress /\ Ready
  BY DEF IInv
<1>1. /\ tx.stage = "commit" /\ disk' = work /\ tx' = [tx EXCEPT !.stage = "end"]
      /\ UNCHANGED <<calls, queue, items, lockq, work, crashes>>
  BY DEF Commit
<1>2. tx'.stage = "end" /\ tx'.err = tx.err /\ tx'.results = tx.results
  BY <1>0, <1>1 DEF Types
<1>3. InTx # {} /\ InTx \subseteq DOMAIN calls
  BY <1>1, BatchCalls
<1>4. /\ Others(InTx)
      /\ \A i \in InTx :
           \/ /\ calls[i].st = "cancelled" /\ Status(i) = "detached"
              /\ Status(i)' = "dropped" /\ Told(i)' = Told(i)
           \/ /\ calls[i].st = "pending" /\ Status(i) = "pending"
              /\ Status(i)' = IF tx'.err THEN "failing" ELSE "executed"
              /\ Told(i)' = IF tx'.err THEN Told(i) ELSE tx'.results[Listen(InTx, i)]
  BY <1>1, <1>2, Ending
<1>5. CASE tx.err \/ Cancelled
  <2>1. AfterSome(disk', disk)
    BY <1>0, <1>1 DEF Progress
  <2>2. \A i \in InTx : tx.err \/ calls[i].st = "cancelled"
    BY <1>0, <1>1, <1>5, InTxFacts DEF Cancelled
  <2>3. \A i \in InTx :
          /\ \/ Status(i) = "detached" /\ Status(i)' = "dropped"
             \/ Status(i) = "pending" /\ Status(i)' = "failing"
          /\ Told(i)' = Told(i)
    BY <1>2, <1>4, <2>2
  <2>4. Atomic!Abort
    BY <1>0, <1>3, <1>4, <2>1, <2>3, IsAbort
  <2> QED
    BY <2>4 DEF Refined, Atomic!ANext
<1>6. CASE ~ tx.err /\ ~ Cancelled
  <2>1. AfterInsert(disk', disk)
    BY <1>0, <1>1, <1>6 DEF Progress
  <2>2. \A i \in InTx : calls[i].st = "pending" => tx.results[Listen(InTx, i)] = Answer(i, disk)
    BY <1>0, <1>1, <1>3, <1>6 DEF Ready
  <2>3. \A i \in InTx :
           \/ /\ Status(i) = "detached" /\ Status(i)' = "dropped" /\ Told(i)' = Told(i)
           \/ /\ Status(i) = "pending" /\ Status(i)' = "executed"
              /\ Told(i)' = Answer(i, disk)
    BY <1>2, <1>4, <1>6, <2>2
  <2>4. Atomic!Execute
    BY <1>0, <1>3, <1>4, <2>1, <2>3, IsExecute
  <2> QED
    BY <2>4 DEF Refined, Atomic!ANext
<1> QED
  BY <1>5, <1>6

(* The batch is answered, unless nobody waits for it any more.             *)
LEMMA FinishRefines == ASSUME IInv, IInv', Finish PROVE Refined
<1>0. Types /\ Order /\ Locks
  BY DEF IInv
<1>1. /\ tx.stage = "end" /\ calls' = Answered(InTx)
      /\ items' = IF Head(lockq) = 0 THEN {} ELSE items
      /\ tx' = NoTx /\ UNCHANGED <<queue, work, disk, open, crashes>>
  BY DEF Finish, InTx
<1>2. tx'.stage = "free"
  BY <1>1 DEF NoTx
<1>3. /\ InTx # {} /\ InTx \subseteq DOMAIN calls /\ lockq # <<>>
      /\ \A i \in InTx : InBatch(i) /\ Current(i) /\ calls[i].st \in {"pending", "cancelled"}
      /\ \A i \in DOMAIN calls : Current(i) <=> i \in InTx
  BY <1>1, BatchCalls
<1>4. /\ DOMAIN calls' = DOMAIN calls
      /\ \A i \in DOMAIN calls : calls'[i] =
           IF i \notin InTx \/ calls[i].st # "pending" THEN calls[i]
           ELSE IF tx.err THEN [calls[i] EXCEPT !.st = "failed"]
           ELSE [calls[i] EXCEPT !.st = "answered", !.ans = tx.results[Listen(InTx, i)]]
  BY <1>1 DEF Answered
<1>5. \A i \in DOMAIN calls : calls[i].st \in {"pending", "answered", "failed", "cancelled"}
  BY <1>0, CallFacts DEF Record
<1>6. \A i \in DOMAIN calls : (Past(i) <=> i \in InTx) /\ ~ Past(i)'
  BY <1>1, <1>2, <1>3 DEF Past, Executed
<1>7. \A i \in DOMAIN calls : calls'[i].op = calls[i].op /\ calls'[i].via = calls[i].via
  BY <1>1, AnsweredFacts DEF Grown
<1> DEFINE S == {i \in InTx : calls[i].st = "pending"}
<1>8. ASSUME NEW i \in DOMAIN calls, i \notin S
      PROVE  Status(i)' = Status(i) /\ Told(i)' = Told(i)
  <2>1. calls'[i] = calls[i]
    BY <1>4, <1>8
  <2>2. CASE calls[i].st = "cancelled" /\ i \in InTx
    <3>1. ~ InBatch(i)'
      <4>1. Head(lockq) = 0 \/ (InTx = {Head(lockq)} /\ calls[Head(lockq)].via = "direct")
        BY <1>0, <1>1, InTxFacts
      <4>2. Head(lockq) = 0 => items' = {}
        BY <1>1
      <4>3. Head(lockq) = 0 \/ calls[i].via = "direct"
        BY <2>2, <4>1
      <4> QED
        BY <1>2, <2>1, <4>2, <4>3 DEF InBatch
    <3>2. Status(i)' = "dropped" /\ Status(i) = "dropped"
      BY <1>6, <2>1, <2>2, <3>1 DEF Status
    <3> QED
      BY <2>1, <3>2 DEF Told
  <2>3. CASE calls[i].st = "cancelled" /\ i \notin InTx
    <3>1. InBatch(i)' <=> InBatch(i)
      <4>1. calls[i].via = "queue" => (i \in items' <=> i \in items)
        <5>1. Head(lockq) = 0 => InTx = items
          BY DEF InTx, Batch
        <5> QED
          BY <1>1, <2>3, <5>1
      <4>2. calls[i].via # "queue" => Head(lockq) # i
        <5>1. Head(lockq) # 0 => InTx = {Head(lockq)}
          BY DEF InTx, Batch
        <5>2. i # 0
          BY <1>0, CallFacts
        <5> QED
          BY <2>3, <5>1, <5>2
      <4> QED
        BY <1>2, <2>1, <4>1, <4>2 DEF InBatch
    <3>2. Status(i)' = Status(i) /\ Status(i) # "executed"
      BY <1>6, <2>1, <2>3, <3>1 DEF Status
    <3> QED
      BY <2>1, <3>2 DEF Told
  <2>4. CASE calls[i].st # "cancelled"
    <3>1. Status(i)' = calls[i].st /\ Status(i) = calls[i].st /\ calls[i].st # "executed"
      BY <1>5, <1>6, <1>8, <2>1, <2>4 DEF Status
    <3> QED
      BY <2>1, <3>1 DEF Told
  <2> QED
    BY <2>2, <2>3, <2>4
<1>9. ASSUME NEW i \in S
      PROVE  /\ Status(i) \in {"executed", "failing"} /\ Told(i)' = Told(i)
             /\ Status(i)' = IF Status(i) = "executed" THEN "answered" ELSE "failed"
  <2>1. Status(i) = IF tx.err THEN "failing" ELSE "executed"
    BY <1>3, <1>6 DEF Status
  <2>2. calls[i] \in Record
    BY <1>0, <1>3, CallFacts
  <2>3. CASE tx.err
    <3>1. calls'[i] = [calls[i] EXCEPT !.st = "failed"]
      BY <1>3, <1>4, <2>3
    <3>2. calls'[i].st = "failed" /\ calls'[i].ans = calls[i].ans
      BY <2>2, <3>1 DEF Record
    <3>3. Status(i)' = "failed"
      BY <3>2 DEF Status
    <3> QED
      BY <2>1, <2>3, <3>2, <3>3 DEF Told
  <2>4. CASE ~ tx.err
    <3> DEFINE a == tx.results[Listen(InTx, i)]
    <3>1. calls'[i] = [calls[i] EXCEPT !.st = "answered", !.ans = a]
      BY <1>3, <1>4, <2>4
    <3>2. Told(i) = a
      BY <2>1, <2>4 DEF Told
    <3> HIDE DEF a
    <3>3. calls'[i].st = "answered" /\ calls'[i].ans = a
      BY <2>2, <3>1 DEF Record
    <3>4. Status(i)' = "answered"
      BY <3>3 DEF Status
    <3> QED
      BY <2>1, <2>4, <3>2, <3>3, <3>4 DEF Told
  <2> QED
    BY <2>1, <2>3, <2>4
<1>10. S \in SUBSET DOMAIN calls
  BY <1>3
<1> HIDE DEF S
<1>11. Others(S) /\ SameMem
  BY <1>1, <1>4, <1>7, <1>8 DEF Others, SameMem, View
<1>12. CASE S = {}
  BY <1>11, <1>12, IsStutter DEF Refined
<1>13. CASE S # {}
  <2>1. Atomic!Respond
    BY <1>9, <1>10, <1>11, <1>13, IsRespond
  <2> QED
    BY <2>1 DEF Refined, Atomic!ANext
<1> QED
  BY <1>12, <1>13

(* A crash takes every call that was not answered yet.                     *)
LEMMA CrashRefines == ASSUME IInv, IInv', Crash PROVE Refined
<1>0. Types
  BY DEF IInv
<1>1. /\ calls' = [i \in DOMAIN calls |->
           IF calls[i].st = "pending" THEN [calls[i] EXCEPT !.st = "cancelled"] ELSE calls[i]]
      /\ items' = {} /\ lockq' = <<>> /\ tx' = NoTx /\ disk' = disk
  BY DEF Crash
<1>2. ASSUME NEW i \in DOMAIN calls
      PROVE  /\ calls[i].st \in {"pending", "answered", "failed", "cancelled"}
             /\ calls[i].st \in {"pending", "cancelled"} => calls[i].ans = Unknown
             /\ calls'[i].st = IF calls[i].st = "pending" THEN "cancelled" ELSE calls[i].st
             /\ calls'[i].op = calls[i].op /\ calls'[i].ans = calls[i].ans
  <2>1. calls[i] \in Record
    BY <1>0, CallFacts
  <2>2. calls'[i] = IF calls[i].st = "pending" THEN [calls[i] EXCEPT !.st = "cancelled"]
                                               ELSE calls[i]
    BY <1>1
  <2>3. calls[i].st = "answered" <=> calls[i].ans # Unknown
    BY <1>0 DEF Types
  <2> QED
    BY <2>1, <2>2, <2>3 DEF Record
<1>3. DOMAIN calls' = DOMAIN calls
  BY <1>1
<1>4. ASSUME NEW i \in DOMAIN calls
      PROVE  /\ Told(i)' = calls[i].ans
             /\ Status(i)' = IF calls[i].st \in {"pending", "cancelled"} THEN "dropped"
                                                                        ELSE calls[i].st
  <2>1. ~ Past(i)' /\ ~ InBatch(i)'
    BY <1>1 DEF Past, Executed, InBatch, NoTx
  <2>2. Status(i)' = IF calls[i].st \in {"pending", "cancelled"} THEN "dropped"
                                                                ELSE calls[i].st
    BY <1>2, <2>1 DEF Status
  <2> QED
    BY <1>2, <2>2 DEF Told
<1>5. ASSUME NEW i \in DOMAIN calls
      PROVE  IF i \in Lost THEN Status(i)' = "dropped" /\ Told(i)' = Unknown
                           ELSE Status(i)' = Status(i) /\ Told(i)' = Told(i)
  <2>1. CASE calls[i].st = "pending"
    <3>1. Status(i) \in {"pending", "executed", "failing"}
      BY <2>1 DEF Status
    <3> QED
      BY <1>2, <1>4, <2>1, <3>1 DEF Lost
  <2>2. CASE calls[i].st = "cancelled"
    <3>1. Status(i) \in {"detached", "dropped"}
      BY <2>2 DEF Status
    <3>2. Told(i) = calls[i].ans
      BY <3>1 DEF Told
    <3> QED
      BY <1>2, <1>4, <2>2, <3>1, <3>2 DEF Lost
  <2>3. CASE calls[i].st \in {"answered", "failed"}
    <3>1. Status(i) = calls[i].st
      BY <2>3 DEF Status
    <3>2. Told(i) = calls[i].ans
      BY <2>3, <3>1 DEF Told
    <3> QED
      BY <1>4, <2>3, <3>1, <3>2 DEF Lost
  <2> QED
    BY <1>2, <2>1, <2>2, <2>3
<1>6. Others(Lost) /\ SameMem
  BY <1>1, <1>2, <1>3, <1>5 DEF Others, SameMem, View
<1>7. \A i \in Lost : Status(i)' = "dropped" /\ Told(i)' = Unknown
  BY <1>5 DEF Lost
<1>8. Atomic!Lose
  BY <1>6, <1>7, IsLose
<1> QED
  BY <1>8 DEF Refined, Atomic!ANext

LEMMA AtomicStart == ASSUME Init PROVE Atomic!AInit
<1>1. calls = <<>> /\ \A k \in Keys : disk[k] = NoItem
  BY DEF Init
<1>2. [k \in Keys |-> [val |-> disk[k].val, kept |-> disk[k].ttl = "none"]]
        = [k \in Keys |-> Atomic!NoItem]
  <2>1. \A k \in Keys : disk[k].val = 0 /\ disk[k].ttl = "none"
    BY <1>1 DEF NoItem
  <2>2. \A k \in Keys : [val |-> disk[k].val, kept |-> disk[k].ttl = "none"] = Atomic!NoItem
    BY <2>1 DEF Atomic!NoItem
  <2> QED
    BY <2>2
<1>3. Log = <<>>
  BY <1>1 DEF Log
<1> QED
  BY <1>2, <1>3 DEF Atomic!AInit

LEMMA AtomicStep == ASSUME IInv, IInv', [Next]_vars PROVE Refined
<1>1. ASSUME NEW op \in QueueOps, Enqueue(op) PROVE Refined
  BY <1>1, EnqueueRefines
<1>2. ASSUME NEW op \in DirectOps, CallDirect(op) PROVE Refined
  BY <1>2, CallDirectRefines
<1>3. ASSUME NEW i \in DOMAIN calls, CancelQueued(i) \/ CancelDirect(i) PROVE Refined
  BY <1>3, CancelQueuedRefines, CancelDirectRefines
<1>4. CASE Take
  BY <1>4, TakeRefines
<1>5. CASE Lock \/ Read \/ Delete \/ Insert
  <2>1. tx = [stage |-> tx.stage, results |-> tx.results, err |-> tx.err]
    BY DEF IInv, Types
  <2>2. UNCHANGED <<calls, items, lockq, disk>>
    BY <1>5 DEF Lock, Read, Delete, Insert
  <2>3. CASE Lock
    <3>1. tx.stage = "free" /\ tx'.stage = "begin"
      BY <2>1, <2>3 DEF Lock
    <3> QED
      BY <2>2, <3>1, StageRefines
  <2>4. CASE Read
    <3>1. tx.stage = "read" /\ tx'.stage \in {"commit", "delete"}
      BY <2>1, <2>4 DEF Read
    <3> QED
      BY <2>2, <3>1, StageRefines
  <2>5. CASE Delete
    <3>1. tx.stage = "delete" /\ tx'.stage = "insert"
      BY <2>1, <2>5 DEF Delete
    <3> QED
      BY <2>2, <3>1, StageRefines
  <2>6. CASE Insert
    <3>1. tx.stage = "insert" /\ tx'.stage = "commit"
      BY <2>1, <2>6 DEF Insert
    <3> QED
      BY <2>2, <3>1, StageRefines
  <2> QED
    BY <1>5, <2>3, <2>4, <2>5, <2>6
<1>6. CASE Begin \/ Commit \/ Finish
  BY <1>6, BeginRefines, CommitRefines, FinishRefines
<1>7. ASSUME NEW k \in Keys, RunOut(k) PROVE Refined
  BY <1>7, RunOutRefines
<1>8. CASE Crash
  BY <1>8, CrashRefines
<1>9. CASE UNCHANGED vars
  <2>1. Grown /\ tx' = tx /\ calls' = calls /\ items' = items /\ lockq' = lockq /\ disk' = disk
    BY <1>9 DEF vars, Grown
  <2>2. \A i \in DOMAIN calls : Status(i)' = Status(i) /\ Told(i)' = Told(i)
    BY <2>1, Steady
  <2> QED
    BY <2>1, <2>2, QuietRefines DEF View
<1> QED
  BY <1>1, <1>2, <1>3, <1>4, <1>5, <1>6, <1>7, <1>8, <1>9 DEF Next, Stop, Transaction

(* The store keeps the promise of AtomicStore: however _run merges the     *)
(* calls, abatch deduplicates them and its transactions fail, are          *)
(* cancelled or die with the process, each call looks as if it took effect *)
(* at one instant between its start and its answer.                        *)
THEOREM Refines == Spec => LooksAtomic
<1>1. Init => Atomic!AInit
  BY AtomicStart
<1>2. IInv /\ IInv' /\ [Next]_vars => [Atomic!ANext]_Atomic!avars
  BY AtomicStep DEF Refined
<1> QED
  BY <1>1, <1>2, Inductive, PTL DEF Spec, LooksAtomic, Atomic!ASpec

===============================================================================
