------------------------------ MODULE StoreBatch ------------------------------
(***************************************************************************)
(* The batching store over SQLite: AsyncBatchedBaseStore, whose background *)
(* task _run merges the calls of all coroutines that are waiting into one  *)
(* abatch, and AsyncSqliteStore.abatch, which runs it as one transaction   *)
(* under an asyncio lock.  Batches called directly and the sweeper of      *)
(* expired items compete for the same lock.  One action per stretch        *)
(* between two awaits.                                                     *)
(*                                                                         *)
(* A call is named by its position in calls, which is also the order of    *)
(* the queue, so a batch is the set of its calls.  The value a put writes  *)
(* is its own name.                                                        *)
(***************************************************************************)
EXTENDS Naturals, Sequences, FiniteSets, FiniteSetsExt, SequencesExt

CONSTANTS
  Keys,        \* the keys of the items
  Space,       \* [Keys -> namespaces]: the namespace of each key
  QueueOps,    \* the operations called with aget, asearch, aput, adelete
  DirectOps,   \* the ones called with abatch, or by the sweeper
  MaxCalls,    \* bound: the calls made
  MaxCrashes,  \* bound: the times the process dies
  Cancels      \* the calls that may be cancelled: "queue", "direct"; "begin"
               \* is a direct call that waits for its BEGIN

Op == [kind : {"get", "search", "put", "del", "sweep"}, key : Keys,
       refresh : BOOLEAN,   \* GetOp.refresh_ttl, SearchOp.refresh_ttl
       ttl : BOOLEAN,       \* a PutOp with a ttl
       bad : BOOLEAN]       \* preparing the search, or inserting, raises

ASSUME StoreAssumption ==
  /\ QueueOps \subseteq Op /\ DirectOps \subseteq Op
  /\ MaxCalls \in Nat /\ MaxCrashes \in Nat
  /\ Cancels \subseteq {"queue", "direct", "begin"}

VARIABLES
  calls,    \* the calls made so far: [op, via, st, ans]
  queue,    \* _aqueue
  items,    \* the calls _run has taken for its batch
  lockq,    \* the holder of self.lock and those waiting for it, in order;
            \* 0 is _run, a positive number the direct call of that name
  tx,       \* the holder's progress: [stage, results, err]
  work,     \* the items as the connection sees them
  disk,     \* the items that are committed
  open,     \* the connection is in a transaction
  crashes

vars == <<calls, queue, items, lockq, tx, work, disk, open, crashes>>

Unknown == {<<>>}
NoItem  == [val |-> 0, ttl |-> "none"]
NoTx    == [stage |-> "free", results |-> <<>>, err |-> FALSE]

TypeOK ==
  /\ \A i \in DOMAIN calls :
       /\ calls[i].op \in Op /\ calls[i].via \in {"queue", "direct"}
       /\ calls[i].st \in {"pending", "answered", "failed", "cancelled"}
       /\ calls[i].st = "answered" <=> calls[i].ans # Unknown
  /\ ToSet(queue) \cup items \subseteq {i \in DOMAIN calls : calls[i].via = "queue"}
  /\ ToSet(lockq) \subseteq {0} \cup DOMAIN calls
  /\ tx.stage \in {"free", "begin", "read", "delete", "insert", "commit", "end"}
  /\ {work, disk} \subseteq
       [Keys -> [val : 0..MaxCalls, ttl : {"none", "fresh", "expired"}]]
  /\ open \in BOOLEAN /\ crashes \in 0..MaxCrashes

-------------------------------------------------------------------------------
(* One abatch.                                                             *)

Writes(i) == calls[i].op.kind \in {"put", "del"}
KeyOf(i)  == calls[i].op.key

X_Same(i, j) == (Writes(i) <=> Writes(j)) /\ KeyOf(i) = KeyOf(j)

(* _dedupe_ops gives equal reads one place in the batch, and the writes to *)
(* one key one place, which the last of them takes.                        *)
Same(i, j) ==
  \/ Writes(i) /\ Writes(j) /\ KeyOf(i) = KeyOf(j)
  \/ ~Writes(i) /\ calls[i].op = calls[j].op

X_Listen(batch, i) == Min({j \in batch : Same(i, j)})

Listen(batch, i) == Max({j \in batch : Same(i, j)})

Dedupped(batch) == {Listen(batch, i) : i \in batch}

Batch(owner) == IF owner = 0 THEN items ELSE {owner}

Ops(batch, kind) == {i \in Dedupped(batch) : calls[i].op.kind = kind}

(* The keys whose time to live the gets of a batch renew: one UPDATE per   *)
(* namespace for all the keys read in it, if any of the gets asks for it.  *)
RenewedByGets(batch) ==
  {KeyOf(i) : i \in {g \in Ops(batch, "get") :
     \E h \in Ops(batch, "get") :
        Space[KeyOf(h)] = Space[KeyOf(g)] /\ calls[h].op.refresh}}

Renew(store, keys) ==
  [k \in Keys |-> IF k \in keys /\ store[k].ttl = "expired"
                  THEN [store[k] EXCEPT !.ttl = "fresh"] ELSE store[k]]

Present(store) == {k \in Keys : store[k].val # 0}

Answer(i, store) ==
  CASE calls[i].op.kind = "get"    -> {<<KeyOf(i), store[KeyOf(i)].val>>}
    [] calls[i].op.kind = "search" -> {<<k, store[k].val>> : k \in Present(store)}
    [] OTHER                       -> {}

-------------------------------------------------------------------------------
Init ==
  /\ calls = <<>> /\ queue = <<>> /\ items = {} /\ lockq = <<>>
  /\ tx = NoTx
  /\ work = [k \in Keys |-> NoItem] /\ disk = work
  /\ open = FALSE /\ crashes = 0

(* aget, asearch, aput, adelete: create the future, put_nowait, await it.  *)
Enqueue(op) ==
  /\ Len(calls) < MaxCalls
  /\ calls' = Append(calls, [op |-> op, via |-> "queue", st |-> "pending", ans |-> Unknown])
  /\ queue' = Append(queue, Len(calls'))
  /\ UNCHANGED <<items, lockq, tx, work, disk, open, crashes>>

(* abatch with one operation, or sweep_ttl: on to the lock.                *)
CallDirect(op) ==
  /\ Len(calls) < MaxCalls
  /\ calls' = Append(calls, [op |-> op, via |-> "direct", st |-> "pending", ans |-> Unknown])
  /\ lockq' = Append(lockq, Len(calls'))
  /\ UNCHANGED <<queue, items, tx, work, disk, open, crashes>>

(* The coroutine awaiting a future of the queue is cancelled.              *)
CancelQueued(i) ==
  /\ "queue" \in Cancels
  /\ calls[i].via = "queue" /\ calls[i].st = "pending"
  /\ calls' = [calls EXCEPT ![i].st = "cancelled"]
  /\ UNCHANGED <<queue, items, lockq, tx, work, disk, open, crashes>>

X_Take ==
  /\ items = {} /\ queue # <<>>
  /\ queue' = <<>>
  /\ items' = IF calls[Head(queue)].st = "pending"
              THEN {i \in ToSet(queue) : calls[i].st = "pending"} ELSE {}
  /\ lockq' = IF items' = {} THEN lockq ELSE Append(lockq, 0)
  /\ UNCHANGED <<calls, tx, work, disk, open, crashes>>

(* _run gets an item, drains the queue, leaves out the calls that are      *)
(* done, and calls abatch with the rest if there is any.                   *)
Take ==
  /\ items = {} /\ queue # <<>>
  /\ queue' = <<>>
  /\ items' = {i \in ToSet(queue) : calls[i].st = "pending"}
  /\ lockq' = IF items' = {} THEN lockq ELSE Append(lockq, 0)
  /\ UNCHANGED <<calls, tx, work, disk, open, crashes>>

(* The head of the queue for the lock has it, and sends BEGIN.             *)
Lock ==
  /\ lockq # <<>> /\ tx.stage = "free"
  /\ tx' = [tx EXCEPT !.stage = "begin"]
  /\ UNCHANGED <<calls, queue, items, lockq, work, disk, open, crashes>>

(* BEGIN fails inside a transaction, and then _cursor has nothing to       *)
(* commit.                                                                 *)
Begin ==
  /\ tx.stage = "begin"
  /\ open' = TRUE
  /\ tx' = IF open THEN [tx EXCEPT !.stage = "end", !.err = TRUE]
                   ELSE [tx EXCEPT !.stage = "read"]
  /\ UNCHANGED <<calls, queue, items, lockq, work, disk, crashes>>

(* The gets, then the searches.  A search whose filter cannot be prepared  *)
(* raises after the gets, before any search and any put.                   *)
Read ==
  LET batch   == Batch(Head(lockq))
      gotten  == Renew(work, RenewedByGets(batch))
      fails   == \E i \in Ops(batch, "search") : calls[i].op.bad
      refresh == \E i \in Ops(batch, "search") : calls[i].op.refresh
  IN
  /\ tx.stage = "read"
  /\ work' = IF ~fails /\ refresh THEN Renew(gotten, Present(gotten)) ELSE gotten
  /\ tx' = IF fails THEN [tx EXCEPT !.stage = "commit", !.err = TRUE]
           ELSE [stage |-> "delete", err |-> FALSE,
                 results |-> [i \in Dedupped(batch) |-> Answer(i, gotten)]]
  /\ UNCHANGED <<calls, queue, items, lockq, disk, open, crashes>>

(* _batch_put_ops, first the DELETE; or the DELETE of sweep_ttl.           *)
Deleted ==
  LET batch == Batch(Head(lockq))
      gone  == {KeyOf(i) : i \in Ops(batch, "del")}
      swept == IF Ops(batch, "sweep") = {} THEN {}
               ELSE {k \in Keys : work[k].ttl = "expired"}
  IN  [k \in Keys |-> IF k \in gone \cup swept THEN NoItem ELSE work[k]]

Delete ==
  /\ tx.stage = "delete"
  /\ work' = Deleted
  /\ tx' = [tx EXCEPT !.stage = "insert"]
  /\ UNCHANGED <<calls, queue, items, lockq, disk, open, crashes>>

(* One INSERT OR REPLACE for all puts: a value it cannot bind fails all.   *)
Inserted ==
  LET puts == Ops(Batch(Head(lockq)), "put")
      put(k) == CHOOSE i \in puts : KeyOf(i) = k
      Item(i) == [val |-> i, ttl |-> IF calls[i].op.ttl THEN "fresh" ELSE "none"]
  IN  [k \in Keys |-> IF \E i \in puts : KeyOf(i) = k THEN Item(put(k)) ELSE work[k]]

Insert ==
  LET fails == \E i \in Ops(Batch(Head(lockq)), "put") : calls[i].op.bad IN
  /\ tx.stage = "insert"
  /\ work' = IF fails THEN work ELSE Inserted
  /\ tx' = [tx EXCEPT !.stage = "commit", !.err = fails]
  /\ UNCHANGED <<calls, queue, items, lockq, disk, open, crashes>>

X_Commit ==
  /\ tx.stage = "commit"
  /\ disk' = (IF tx.err THEN disk ELSE work) /\ open' = (open /\ tx.err)
  /\ tx' = [tx EXCEPT !.stage = "end"]
  /\ UNCHANGED <<calls, queue, items, lockq, work, crashes>>

(* COMMIT, in the finally of _cursor: also what was done before an error.  *)
Commit ==
  /\ tx.stage = "commit"
  /\ disk' = work /\ open' = FALSE
  /\ tx' = [tx EXCEPT !.stage = "end"]
  /\ UNCHANGED <<calls, queue, items, lockq, work, crashes>>

(* The results go to the futures that are not done by now; an exception to *)
(* all of them.                                                            *)
Answered(batch) ==
  [i \in DOMAIN calls |->
     IF i \notin batch \/ calls[i].st # "pending" THEN calls[i]
     ELSE IF tx.err THEN [calls[i] EXCEPT !.st = "failed"]
     ELSE [calls[i] EXCEPT !.st = "answered", !.ans = tx.results[Listen(batch, i)]]]

(* The lock is released and the callers are answered without an await in   *)
(* between.                                                                *)
Finish ==
  /\ tx.stage = "end"
  /\ calls' = Answered(Batch(Head(lockq)))
  /\ items' = IF Head(lockq) = 0 THEN {} ELSE items
  /\ lockq' = Tail(lockq)
  /\ tx' = NoTx
  /\ UNCHANGED <<queue, work, disk, open, crashes>>

(* A direct call is cancelled while it waits for the lock, or at an await  *)
(* of _cursor: the statement it has sent is executed all the same, and     *)
(* COMMIT follows unless that statement is the BEGIN.                      *)
CancelDirect(i) ==
  /\ "direct" \in Cancels
  /\ calls[i].via = "direct" /\ calls[i].st = "pending"
  /\ Head(lockq) = i /\ tx.stage = "begin" => "begin" \in Cancels
  /\ calls' = [calls EXCEPT ![i].st = "cancelled"]
  /\ IF Head(lockq) # i \/ tx.stage = "free"
     THEN /\ \E p \in DOMAIN lockq : lockq[p] = i /\ lockq' = RemoveAt(lockq, p)
          /\ UNCHANGED <<tx, work, open>>
     ELSE CASE tx.stage = "begin" ->
                 lockq' = Tail(lockq) /\ tx' = NoTx /\ open' = TRUE /\ UNCHANGED work
            [] tx.stage \in {"read", "delete", "insert"} ->
                 /\ tx' = [tx EXCEPT !.stage = "commit"]
                 /\ work' = CASE tx.stage = "delete" -> Deleted
                              [] tx.stage = "insert" /\ ~calls[i].op.bad -> Inserted
                              [] OTHER -> work
                 /\ UNCHANGED <<lockq, open>>
            [] OTHER -> UNCHANGED <<lockq, tx, work, open>>
  /\ UNCHANGED <<queue, items, disk, crashes>>

(* The time to live of an item runs out.                                   *)
RunOut(k) ==
  /\ work[k].ttl = "fresh"
  /\ work' = [work EXCEPT ![k].ttl = "expired"]
  /\ disk' = [disk EXCEPT ![k] = IF @.ttl = "fresh" THEN [@ EXCEPT !.ttl = "expired"] ELSE @]
  /\ UNCHANGED <<calls, queue, items, lockq, tx, open, crashes>>

(* The process dies, and with it the transaction; another opens the file.  *)
Crash ==
  /\ crashes < MaxCrashes
  /\ crashes' = crashes + 1
  /\ calls' = [i \in DOMAIN calls |->
                 IF calls[i].st = "pending" THEN [calls[i] EXCEPT !.st = "cancelled"]
                                            ELSE calls[i]]
  /\ queue' = <<>> /\ items' = {} /\ lockq' = <<>> /\ tx' = NoTx
  /\ work' = disk /\ open' = FALSE
  /\ UNCHANGED disk

Stop ==  \* nothing left to do
  /\ Len(calls) = MaxCalls /\ queue = <<>> /\ lockq = <<>>
  /\ UNCHANGED vars

Transaction == Lock \/ Begin \/ Read \/ Delete \/ Insert \/ Commit \/ Finish

Next ==
  \/ \E op \in QueueOps : Enqueue(op)
  \/ \E op \in DirectOps : CallDirect(op)
  \/ \E i \in DOMAIN calls : CancelQueued(i)
  \/ \E i \in DOMAIN calls : CancelDirect(i)
  \/ Take
  \/ Transaction
  \/ \E k \in Keys : RunOut(k)
  \/ Crash
  \/ Stop

Spec == Init /\ [][Next]_vars

(* The event loop runs what is ready, and SQLite answers.                  *)
FairSpec == Spec /\ WF_vars(Take) /\ WF_vars(Transaction)

-------------------------------------------------------------------------------
(* The calls of an executed batch that are not answered yet.               *)
Executed == tx.stage = "end"
InBatch(i) == IF calls[i].via = "queue" THEN i \in items
              ELSE lockq # <<>> /\ Head(lockq) = i /\ tx.stage # "free"
Current(i) == lockq # <<>> /\ i \in Batch(Head(lockq))

Log ==
  [i \in DOMAIN calls |->
     LET c == calls[i]
         past == Executed /\ Current(i)
         st == CASE c.st = "pending" /\ past -> IF tx.err THEN "failing" ELSE "executed"
                 [] c.st = "cancelled" -> IF InBatch(i) /\ ~past THEN "detached" ELSE "dropped"
                 [] OTHER -> c.st
     IN  [op |-> c.op, st |-> st,
          ans |-> IF st = "executed"
                  THEN tx.results[Listen(Batch(Head(lockq)), i)] ELSE c.ans]]

Atomic == INSTANCE AtomicStore WITH
  Keys <- Keys,
  mem  <- [k \in Keys |-> [val |-> disk[k].val, kept |-> disk[k].ttl = "none"]],
  log  <- Log

(* Merged, deduplicated and run in transactions, the calls still look as   *)
(* if each took effect at one instant between its start and its answer; a  *)
(* call cancelled before _run took it never does, and what was answered    *)
(* survives a crash.                                                       *)
LooksAtomic == Atomic!ASpec

(* Of two writes to one key the one enqueued later wins, whichever batch   *)
(* each of them ends up in: no item is older than an answered put or       *)
(* delete of its key (_dedupe_ops and the order of the queue).             *)
LaterPutWins ==
  \A k \in Keys : disk[k].val # 0 /\ calls[disk[k].val].via = "queue" =>
    \A j \in DOMAIN calls :
      /\ Writes(j) /\ KeyOf(j) = k /\ calls[j].via = "queue"
      /\ calls[j].st = "answered"
      => j <= disk[k].val

(* Every call whose caller waits is answered or fails, once no new ones    *)
(* come: neither a batch that raises nor calls that are cancelled stop     *)
(* _run.                                                                   *)
NoneAbandoned == <>[](\A i \in DOMAIN calls : calls[i].st # "pending")

(* Whoever gets the lock finds the connection outside a transaction, what- *)
(* ever failed or was cancelled before.  Only while BEGIN is not cancelled *)
(* on its way: with "begin" in Cancels this does not hold, the one await   *)
(* of abatch outside the try (README, section 5).                          *)
LockFindsNoTransaction == tx.stage \in {"free", "begin"} => ~open

(* An expired item comes back to life only by a read that asked for it     *)
(* with refresh_ttl, or by a put.  This one does NOT hold: the gets of a   *)
(* namespace are merged into one query that refreshes all of their keys    *)
(* (README, section 5).                                                    *)
RenewedOnRequest ==
  [][\A k \in Keys :
       work[k].ttl = "expired" /\ work'[k] = [work[k] EXCEPT !.ttl = "fresh"] =>
         \E i \in Batch(Head(lockq)) :
            /\ calls[i].op.refresh /\ calls[i].op.kind \in {"get", "search"}
            /\ calls[i].op.kind = "get" => KeyOf(i) = k]_vars
===============================================================================
