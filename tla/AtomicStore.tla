------------------------------ MODULE AtomicStore ------------------------------
(***************************************************************************)
(* What a key-value store promises to callers whose calls overlap: every   *)
(* call that is answered took effect at one instant between its start and  *)
(* its answer.  Several calls may take effect at the same instant: the     *)
(* reads among them see the memory before it, and of the writes to one key *)
(* one is kept.  A call that fails may have had its effect or not.         *)
(***************************************************************************)
EXTENDS Naturals, Sequences, FiniteSets

CONSTANT Keys

VARIABLES
  mem,   \* [Keys -> [val, kept]]: val is the number of the put that wrote it,
         \* 0 for no item; kept is FALSE for an item with a time to live
  log    \* the calls in the order they were made: [op, st, ans]

avars == <<mem, log>>

Unknown  == {<<>>}    \* the answer of a call that has none yet
NoItem   == [val |-> 0, kept |-> TRUE]
Open     == {"pending", "detached"}
InState(S) == {i \in DOMAIN log : log[i].st \in S}

(* What the op of a call reads in the memory m.                            *)
Seen(op, m) ==
  CASE op.kind = "get"    -> {<<op.key, m[op.key].val>>}
    [] op.kind = "search" -> {<<k, m[k].val>> : k \in {x \in Keys : m[x].val # 0}}
    [] OTHER              -> {}

(* The items key k may hold once the calls of S have taken effect, those   *)
(* it may lose to a sweep included.                                        *)
Written(S, k) ==
  {[val |-> i, kept |-> ~log[i].op.ttl] :
        i \in {j \in S : log[j].op.kind = "put" /\ log[j].op.key = k}}
    \cup {NoItem : i \in {j \in S : log[j].op.kind = "del" /\ log[j].op.key = k}}

Swept(S, k) ==
  IF mem[k].kept \/ \A i \in S : log[i].op.kind # "sweep" THEN {mem[k]}
  ELSE {mem[k], NoItem}

AInit == mem = [k \in Keys |-> NoItem] /\ log = <<>>

Marked(i, st, ans) == [op |-> log[i].op, st |-> st, ans |-> ans]

Only(S, f(_)) ==  \* the calls of S change to f of their number, no others do
  /\ DOMAIN log' = DOMAIN log
  /\ \A i \in DOMAIN log : log'[i] = IF i \in S THEN f(i) ELSE log[i]

Call ==
  /\ Len(log') = Len(log) + 1 /\ SubSeq(log', 1, Len(log)) = log
  /\ log'[Len(log) + 1].st = "pending"
  /\ UNCHANGED mem

Execute ==
  \E S \in SUBSET InState(Open) :
    /\ S # {}
    /\ \A k \in Keys : IF Written(S, k) = {} THEN mem'[k] \in Swept(S, k)
                                             ELSE mem'[k] \in Written(S, k)
    /\ Only(S, LAMBDA i : IF log[i].st = "detached"
                          THEN Marked(i, "dropped", log[i].ans)
                          ELSE Marked(i, "executed", Seen(log[i].op, mem)))

Abort ==
  \E S \in SUBSET InState(Open) :
    /\ S # {}
    /\ \A k \in Keys : mem'[k] \in Written(S, k) \cup Swept(S, k)
    /\ Only(S, LAMBDA i :
          Marked(i, IF log[i].st = "detached" THEN "dropped" ELSE "failing", log[i].ans))

Respond ==
  \E S \in SUBSET InState({"executed", "failing"}) :
    /\ S # {}
    /\ Only(S, LAMBDA i :
          Marked(i, IF log[i].st = "executed" THEN "answered" ELSE "failed", log[i].ans))
    /\ UNCHANGED mem

(* A caller goes away; its call may be past recall.                        *)
Leave ==
  \E i \in InState({"pending", "executed", "failing"}), st \in {"detached", "dropped"} :
    /\ Only({i}, LAMBDA j : Marked(j, st, Unknown))
    /\ UNCHANGED mem

(* The process ends: what was executed stays, nobody is answered any more. *)
Lose ==
  /\ Only(InState(Open \cup {"executed", "failing"}),
          LAMBDA i : Marked(i, "dropped", Unknown))
  /\ UNCHANGED mem

ANext == Call \/ Execute \/ Abort \/ Respond \/ Leave \/ Lose
ASpec == AInit /\ [][ANext]_avars
================================================================================
