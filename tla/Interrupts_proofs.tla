--------------------------- MODULE Interrupts_proofs ---------------------------
(***************************************************************************)
(* Proofs about Interrupts, for any tasks, numbers of questions,           *)
(* invocations, failures, retries and crashes.                             *)
(*                                                                         *)
(* The argument follows the answers of a task through the lists they are   *)
(* kept in: the saver, the pending writes, the scratchpad, and what        *)
(* interrupt() has returned.  A list only ever grows at its end, so what   *)
(* one has to know is that each answer is appended at its place.           *)
(***************************************************************************)
EXTENDS Interrupts, Facts

-------------------------------------------------------------------------------
(* The inductive invariant.                                                *)

Lists == [Writer -> Slots]

Types ==
  /\ stored \in Lists /\ pending \in Lists
  /\ offer \in Seq(Answer) /\ same \in BOOLEAN
  /\ run \in [Task -> Attempt]
  /\ phase \in {"idle", "running", "over"} /\ durability \in Durabilities
  /\ saving \subseteq [by : Writer, slots : Slots]
  /\ putting \subseteq [by : Task, slots : Slots, list : Lists]
  /\ invocations \in 0..MaxInvocations
  /\ failures \in 0..MaxFailures /\ crashes \in 0..MaxCrashes

(* Between invocations nothing is under way; in one a task that runs has   *)
(* no output yet, and none waits.                                          *)
Rest ==
  /\ phase # "running" => /\ saving = {} /\ putting = {} /\ offer = <<>>
                          /\ run = [t \in Task |-> NoAttempt]
  /\ phase = "running" => \A t \in Task : /\ run[t].st # "waits"
                                          /\ run[t].st = "running" => ~stored[t].output
  /\ invocations = 0 => phase = "idle"

(* What commit hands to put_writes for the attempt of a task.              *)
Committed(t) ==
  [interrupt |-> IF run[t].st = "interrupted" THEN Len(run[t].got) + 1 ELSE 0,
   resume |-> Resumes(t), output |-> run[t].st = "done"]

(* Whatever is being put or saved for a task is what its attempt, which is *)
(* over, has committed.                                                    *)
Ended(t, slots) == run[t].st \in {"interrupted", "failed", "done"} /\ slots = Committed(t)

Submitted ==
  /\ \A p \in putting : Ended(p.by, p.slots)
  /\ \A w \in saving : w.by \in Task => Ended(w.by, w.slots)

(* The answers of an attempt begin with the stored ones, also in what an   *)
(* invocation with durability exit will store when it ends.                *)
Grown(old, new) == new = <<>> \/ IsPrefix(old, new)

Lengthened ==
  phase = "running" =>
    /\ \A t \in Task : \/ IsPrefix(stored[t].resume, run[t].list)
                       \/ run[t].st = "done" /\ run[t].list = <<>>
    /\ durability = "exit" =>
         /\ saving = {}
         /\ \A t \in Task :
              /\ Grown(stored[t].resume, pending[t].resume)
              /\ \A p \in putting : Grown(stored[t].resume, p.list[t].resume)

(* The list of a task that runs is the one in the pending writes, if they  *)
(* have one.                                                               *)
Shared(t, list) == list[t].resume # <<>> => list[t].resume = run[t].list

Aliased ==
  \A t \in Task : run[t].st = "running" =>
    Shared(t, pending) /\ \A p \in putting : Shared(t, p.list)

(* interrupt_counter counts what interrupt() has returned, unless a retry  *)
(* kept it.                                                                *)
Counted(t) ==
  Careful \/ run[t].retries = 0 =>
    /\ run[t].st = "running" => run[t].count = Len(run[t].got)
    /\ run[t].st \in {"running", "interrupted"} =>
         /\ Len(run[t].got) <= Len(run[t].list)
         /\ run[t].wrote <=> run[t].got # <<>>
    /\ run[t].st = "interrupted" => Len(run[t].got) = Len(run[t].list)

Paired == \A t \in Task : Counted(t)

(* NullTask has one answer at most.                                        *)
Single ==
  /\ Len(stored[NullTask].resume) <= 1 /\ Len(pending[NullTask].resume) <= 1
  /\ Len(offer) <= 1
  /\ \A p \in putting : Len(p.list[NullTask].resume) <= 1
  /\ \A w \in saving : w.by = NullTask => Len(w.slots.resume) <= 1

Structure == Types /\ Rest /\ Submitted /\ Lengthened /\ Aliased /\ Single /\ Paired

(* Each answer of a list is meant for its place.                           *)
Meant(s, t) == \A i \in DOMAIN s : s[i].task = t /\ s[i].question = i

Places ==
  /\ \A t \in Task :
       /\ Meant(stored[t].resume, t) /\ Meant(pending[t].resume, t)
       /\ Meant(run[t].list, t) /\ Meant(run[t].got, t)
  /\ \A p \in putting, t \in Task : Meant(p.list[t].resume, t)

(* The answer of NullTask is for the last question of its task, which has  *)
(* answers to the others, and no other task has a question left.           *)
LastOne(s) ==
  s # <<>> =>
    /\ s[1].question = Asks[s[1].task] /\ Asks[s[1].task] > 0
    /\ Len(stored[s[1].task].resume) + 1 >= Asks[s[1].task]
    /\ \A t \in Unfinished \ {s[1].task} : Asks[t] = 0

Offered ==
  /\ LastOne(stored[NullTask].resume) /\ LastOne(pending[NullTask].resume) /\ LastOne(offer)
  /\ \A p \in putting : LastOne(p.list[NullTask].resume)
  /\ \A w \in saving : w.by = NullTask => LastOne(w.slots.resume)

(* A durable answer of NullTask is on offer or its task has taken it.      *)
Used(s) ==
  s # <<>> /\ phase = "running" =>
    offer # <<>> \/ Len(run[s[1].task].list) >= Asks[s[1].task]

Consumed ==
  /\ Used(stored[NullTask].resume)
  /\ \A w \in saving : w.by = NullTask => Used(w.slots.resume)

Meaning == Places /\ Offered /\ Consumed

IInv == Structure /\ (Careful => Meaning)

-------------------------------------------------------------------------------
(* What is known of the step while nothing has failed.                     *)

Calm == failures + crashes = 0

(* What a task has committed is on its way or kept.                        *)
Saved(t) == stored[t] = Merged(stored[t], Committed(t))
Kept(t) ==
  \/ run[t].st = "done" /\ stored[t].output
  \/ \E p \in putting : p.by = t
  \/ durability = "exit" /\ pending[t] = Committed(t)
  \/ durability # "exit" /\ ((\E w \in saving : w.by = t) \/ Saved(t))

(* put_writes is one step with durability exit, which is not in Races.     *)
Whole == durability = "exit" => putting = {}

Fresh == Calm => \A t \in Task : run[t].retries = 0 /\ run[t].st # "failed"

Held == Calm /\ phase = "running" =>
          \A t \in Task : run[t].st \in {"interrupted", "done"} => Kept(t)

OpenInv == Whole /\ Fresh /\ Held /\ OpenIsShown

-------------------------------------------------------------------------------
(* Sequences.                                                              *)

LEMMA Prefixes_ ==
  ASSUME NEW E, NEW s \in Seq(E), NEW t \in Seq(E)
  PROVE  IsPrefix(s, t) <=> /\ Len(s) <= Len(t)
                            /\ \A i \in 1..Len(s) : s[i] = t[i]
<1>1. /\ Len(s) \in Nat /\ Len(t) \in Nat
      /\ \A i \in 1..Len(s) : i \in Nat
  OBVIOUS
<1>2. Len(s) <= Len(t) =>
        /\ SubSeq(s, 1, Len(s)) = [i \in 1..Len(s) |-> s[i]]
        /\ SubSeq(t, 1, Len(s)) = [i \in 1..Len(s) |-> t[i]]
  BY <1>1
<1> QED
  BY <1>1, <1>2 DEF IsPrefix

LEMMA PrefixFacts ==
  ASSUME NEW E, NEW s \in Seq(E), NEW t \in Seq(E), NEW u \in Seq(E)
  PROVE  /\ IsPrefix(s, s) /\ IsPrefix(s, s \o u) /\ IsPrefix(<<>>, s)
         /\ IsPrefix(s, t) => /\ IsPrefix(s, t \o u) /\ Len(s) <= Len(t)
                              /\ \A i \in DOMAIN s : i \in DOMAIN t /\ s[i] = t[i]
                              /\ t = <<>> => s = <<>>
         /\ s \o u \in Seq(E) /\ s \o <<>> = s
         /\ Len(s) \in Nat /\ DOMAIN s = 1..Len(s)
<1>1. /\ s \o u \in Seq(E) /\ t \o u \in Seq(E) /\ <<>> \in Seq(E)
      /\ Len(s) \in Nat /\ DOMAIN s = 1..Len(s) /\ DOMAIN t = 1..Len(t)
      /\ Len(t) \in Nat /\ Len(u) \in Nat /\ s \o <<>> = s
  OBVIOUS
<1>2. /\ Len(s \o u) = Len(s) + Len(u) /\ \A i \in 1..Len(s) : (s \o u)[i] = s[i]
      /\ Len(t \o u) = Len(t) + Len(u) /\ \A i \in 1..Len(t) : (t \o u)[i] = t[i]
  OBVIOUS
<1>3. IsPrefix(s, s) /\ IsPrefix(s, s \o u) /\ IsPrefix(<<>>, s)
  <2>1. IsPrefix(s, s)
    BY <1>1, Prefixes_
  <2>2. IsPrefix(s, s \o u)
    <3>1. Len(s) <= Len(s \o u) /\ \A i \in 1..Len(s) : s[i] = (s \o u)[i]
      BY <1>1, <1>2
    <3> QED
      BY <1>1, <3>1, Prefixes_
  <2>3. IsPrefix(<<>>, s)
    <3>1. Len(<<>>) = 0 /\ SubSeq(<<>>, 1, 0) = <<>> /\ SubSeq(s, 1, 0) = <<>>
      OBVIOUS
    <3> QED
      BY <1>1, <3>1 DEF IsPrefix
  <2> QED
    BY <2>1, <2>2, <2>3
<1>4. ASSUME IsPrefix(s, t)
      PROVE  /\ IsPrefix(s, t \o u) /\ Len(s) <= Len(t)
             /\ \A i \in DOMAIN s : i \in DOMAIN t /\ s[i] = t[i]
             /\ t = <<>> => s = <<>>
  <2>1. Len(s) <= Len(t) /\ \A i \in 1..Len(s) : s[i] = t[i]
    BY <1>4, Prefixes_
  <2>2. Len(s) <= Len(t \o u) /\ \A i \in 1..Len(s) : s[i] = (t \o u)[i]
    BY <1>1, <1>2, <2>1
  <2>3. IsPrefix(s, t \o u)
    BY <1>1, <2>2, Prefixes_
  <2> QED
    BY <1>1, <2>1, <2>3
<1> QED
  BY <1>1, <1>3, <1>4

-------------------------------------------------------------------------------
(* What the actions do to the variables.                                   *)

LEMMA Records ==
  /\ NoSlots \in Slots
  /\ \A s \in Slots : /\ s.interrupt \in Nat /\ s.resume \in Seq(Answer)
                      /\ s.output \in BOOLEAN
                      /\ s = [interrupt |-> s.interrupt, resume |-> s.resume,
                              output |-> s.output]
  /\ \A r \in Seq(Answer) : \A s \in Slots :
       [s EXCEPT !.resume = r] = [interrupt |-> s.interrupt, resume |-> r, output |-> s.output]
<1>1. <<>> \in Seq(Answer)
  OBVIOUS
<1> QED
  BY <1>1 DEF Slots, NoSlots

LEMMA MergedSlots ==
  ASSUME NEW old \in Slots, NEW new \in Slots
  PROVE  /\ Merged(old, new) \in Slots
         /\ Merged(old, new).resume = IF new.resume # <<>> THEN new.resume ELSE old.resume
         /\ Merged(old, new).output = (old.output \/ new.output)
         /\ Merged(old, new).interrupt = IF new.interrupt # 0 THEN new.interrupt
                                         ELSE old.interrupt
BY DEF Merged, Slots

LEMMA Attempts ==
  ASSUME InterruptsAssumption
  PROVE  /\ NoAttempt \in Attempt
         /\ \A r \in Attempt :
              /\ r.got \in Seq(Answer) /\ r.list \in Seq(Answer) /\ r.count \in Nat
              /\ r.wrote \in BOOLEAN /\ r.retries \in Nat /\ r.retries <= MaxRetries
<1>1. <<>> \in Seq(Answer) /\ MaxRetries \in Nat
  BY DEF InterruptsAssumption
<1> QED
  BY <1>1 DEF Attempt, NoAttempt

States == {"waits", "running", "interrupted", "failed", "done"}

LEMMA ListedAttempt ==
  ASSUME NEW r \in Attempt, NEW l \in Seq(Answer)
  PROVE  LET n == [r EXCEPT !.list = l]
         IN  /\ n \in Attempt
             /\ n.st = r.st /\ n.got = r.got /\ n.list = l
             /\ n.count = r.count /\ n.wrote = r.wrote /\ n.retries = r.retries
BY DEF Attempt, States

LEMMA EndedAttempt ==
  ASSUME NEW r \in Attempt, NEW s \in States
  PROVE  LET n == [r EXCEPT !.st = s]
         IN  /\ n \in Attempt
             /\ n.st = s /\ n.got = r.got /\ n.list = r.list
             /\ n.count = r.count /\ n.wrote = r.wrote /\ n.retries = r.retries
BY DEF Attempt, States

LEMMA ReturnedAttempt ==
  ASSUME NEW r \in Attempt, NEW a \in Seq(Answer)
  PROVE  LET n == Returned(r, a)
         IN  /\ n \in Attempt
             /\ n.st = r.st /\ n.got = r.got \o a /\ n.list = r.list
             /\ n.count = r.count + 1 /\ n.wrote = TRUE /\ n.retries = r.retries
<1>0. r.got \in Seq(Answer)
  BY DEF Attempt
<1>1. PICK g \in Seq(Answer) : g = r.got \o a
  <2>1. r.got \o a \in Seq(Answer)
    BY <1>0
  <2> QED
    BY <2>1
<1>2. PICK c \in Nat : c = r.count + 1
  BY DEF Attempt
<1>3. LET n == [r EXCEPT !.got = g, !.count = c, !.wrote = TRUE]
      IN  /\ n \in Attempt
          /\ n.st = r.st /\ n.got = g /\ n.list = r.list
          /\ n.count = c /\ n.wrote = TRUE /\ n.retries = r.retries
  BY DEF Attempt
<1> QED
  BY <1>1, <1>2, <1>3 DEF Returned

(* interrupt() answers from the list.                                      *)
LEMMA RecallEffect ==
  ASSUME InterruptsAssumption, Types, NEW t \in Task, Recall(t)
  PROVE  /\ run' \in [Task -> Attempt]
         /\ \A u \in Task \ {t} : run'[u] = run[u]
         /\ run[t].st = "running" /\ run[t].count < Len(run[t].list)
         /\ Len(run[t].got) < Asks[t]
         /\ run'[t].st = "running" /\ run'[t].list = run[t].list
         /\ run'[t].got = run[t].got \o <<run[t].list[run[t].count + 1]>>
         /\ run'[t].count = run[t].count + 1 /\ run'[t].wrote = TRUE
         /\ run'[t].retries = run[t].retries
         /\ UNCHANGED <<stored, memory, phase, durability, saves, counts>>
<1> DEFINE r == run[t]
           a == <<r.list[r.count + 1]>>
<1>1. r \in Attempt /\ run \in [Task -> Attempt]
  BY DEF Types
<1>2. /\ run' = [run EXCEPT ![t] = Returned(r, a)]
      /\ UNCHANGED <<stored, memory, phase, durability, saves, counts>>
      /\ r.st = "running" /\ r.count < Len(r.list) /\ Len(r.got) < Asks[t]
  BY DEF Recall, Asking
<1>3. r.count + 1 \in 1..Len(r.list) /\ r.list \in Seq(Answer)
  BY <1>1, <1>2, Attempts
<1>4. a \in Seq(Answer)
  BY <1>3
<1> DEFINE n == Returned(r, a)
<1>5. /\ n \in Attempt
      /\ n.st = r.st /\ n.got = r.got \o a /\ n.list = r.list
      /\ n.count = r.count + 1 /\ n.wrote = TRUE /\ n.retries = r.retries
  BY <1>1, <1>4, ReturnedAttempt
<1> HIDE DEF n
<1>6. run'[t] = n /\ run' \in [Task -> Attempt] /\ \A u \in Task \ {t} : run'[u] = run[u]
  BY <1>1, <1>2, <1>5 DEF n
<1> QED
  BY <1>2, <1>5, <1>6

LEMMA LongerList ==
  ASSUME NEW list \in Lists, NEW t \in Task, NEW a \in Seq(Answer)
  PROVE  LET new == Longer(list, t, a)
         IN  /\ new \in Lists
             /\ \A w \in Writer \ {t} : new[w] = list[w]
             /\ new[t].resume = IF list[t].resume # <<>> THEN list[t].resume \o a ELSE <<>>
<1>1. t \in Writer /\ \A w \in Writer : list[w] \in Slots
  BY DEF Lists, Writer
<1>2. PICK r \in Seq(Answer) : r = list[t].resume \o a
  <2>1. list[t].resume \in Seq(Answer)
    BY <1>1, Records
  <2>2. list[t].resume \o a \in Seq(Answer)
    BY <2>1
  <2> QED
    BY <2>2
<1>3. /\ [list[t] EXCEPT !.resume = @ \o a] = [list[t] EXCEPT !.resume = r]
      /\ [list[t] EXCEPT !.resume = r] \in Slots
      /\ [list[t] EXCEPT !.resume = r].resume = r
  BY <1>1, <1>2 DEF Slots
<1> DEFINE m == [list[t] EXCEPT !.resume = @ \o a]
<1>4. m \in Slots /\ m.resume = list[t].resume \o a
  BY <1>2, <1>3
<1> HIDE DEF m
<1>5. Longer(list, t, a) =
        [w \in Writer |-> IF w = t /\ list[w].resume # <<>> THEN m ELSE list[w]]
  BY DEF Longer, m
<1> QED
  BY <1>1, <1>4, <1>5 DEF Lists

(* interrupt() takes the answer of NullTask.                               *)
LEMMA TakeEffect ==
  ASSUME InterruptsAssumption, Types, NEW t \in Task, Take(t)
  PROVE  /\ run' \in [Task -> Attempt]
         /\ \A u \in Task \ {t} : run'[u] = run[u]
         /\ run[t].st = "running" /\ run[t].count = Len(run[t].list)
         /\ Len(run[t].got) < Asks[t] /\ offer # <<>>
         /\ run'[t].st = "running" /\ run'[t].list = run[t].list \o offer
         /\ run'[t].got = run[t].got \o offer
         /\ run'[t].count = run[t].count + 1 /\ run'[t].wrote = TRUE
         /\ run'[t].retries = run[t].retries
         /\ offer' = <<>>
         /\ pending' \in Lists
         /\ \A u \in Task \ {t} : pending'[u] = pending[u]
         /\ pending'[NullTask].resume \in {pending[NullTask].resume, <<>>}
         /\ pending'[t].resume =
              IF pending[t].resume # <<>> THEN pending[t].resume \o offer ELSE <<>>
         /\ putting' = {[p EXCEPT !.list = Longer(@, t, offer)] : p \in putting}
         /\ UNCHANGED <<stored, same, saving, phase, durability, counts>>
<1> DEFINE r == run[t]
           n == Returned(r, offer)
           l == r.list \o offer
           rest == IF same THEN [pending EXCEPT ![NullTask] = [@ EXCEPT !.resume = <<>>]]
                   ELSE pending
<1>1. /\ r \in Attempt /\ run \in [Task -> Attempt] /\ pending \in Lists
      /\ offer \in Seq(Answer)
  BY DEF Types
<1>2. /\ run' = [run EXCEPT ![t] = [n EXCEPT !.list = @ \o offer]]
      /\ pending' = Longer(rest, t, offer) /\ offer' = <<>>
      /\ putting' = {[p EXCEPT !.list = Longer(@, t, offer)] : p \in putting}
      /\ UNCHANGED <<stored, same, saving, phase, durability, counts>>
      /\ r.st = "running" /\ r.count = Len(r.list) /\ Len(r.got) < Asks[t] /\ offer # <<>>
  BY DEF Take, Asking
<1>3. /\ n \in Attempt
      /\ n.st = r.st /\ n.got = r.got \o offer /\ n.list = r.list
      /\ n.count = r.count + 1 /\ n.wrote = TRUE /\ n.retries = r.retries
  BY <1>1, ReturnedAttempt
<1>4. r.list \in Seq(Answer)
  BY <1>1, Attempts
<1>5. l \in Seq(Answer)
  BY <1>1, <1>4
<1> HIDE DEF n
<1> DEFINE m == [n EXCEPT !.list = l]
<1>6. /\ m \in Attempt /\ m.st = r.st /\ m.got = r.got \o offer /\ m.list = l
      /\ m.count = r.count + 1 /\ m.wrote = TRUE /\ m.retries = r.retries
  <2> HIDE DEF l, r
  <2> QED
    BY <1>3, <1>5, ListedAttempt
<1>7. [n EXCEPT !.list = @ \o offer] = m
  BY <1>3
<1> HIDE DEF m
<1>8. run'[t] = m /\ run' \in [Task -> Attempt] /\ \A u \in Task \ {t} : run'[u] = run[u]
  BY <1>1, <1>2, <1>6, <1>7
<1>9. /\ rest \in Lists /\ \A w \in Task : rest[w] = pending[w]
      /\ rest[NullTask].resume \in {pending[NullTask].resume, <<>>}
  <2>1. NullTask \in Writer /\ NullTask \notin Task /\ Task \subseteq Writer
    BY DEF Writer, InterruptsAssumption
  <2>2. pending[NullTask] \in Slots /\ <<>> \in Seq(Answer)
    BY <1>1, <2>1 DEF Lists
  <2> DEFINE z == [pending[NullTask] EXCEPT !.resume = <<>>]
  <2>3. z \in Slots /\ z.resume = <<>>
    BY <2>2 DEF Slots
  <2> HIDE DEF z
  <2>4. rest = IF same THEN [pending EXCEPT ![NullTask] = z] ELSE pending
    BY DEF z
  <2> HIDE DEF rest
  <2> QED
    BY <1>1, <2>1, <2>3, <2>4 DEF Lists
<1> HIDE DEF rest
<1>10. /\ pending' \in Lists
       /\ \A w \in Writer \ {t} : pending'[w] = rest[w]
       /\ pending'[t].resume =
            IF pending[t].resume # <<>> THEN pending[t].resume \o offer ELSE <<>>
  <2>1. LET new == Longer(rest, t, offer)
        IN  /\ new \in Lists
            /\ \A w \in Writer \ {t} : new[w] = rest[w]
            /\ new[t].resume = IF rest[t].resume # <<>> THEN rest[t].resume \o offer ELSE <<>>
    BY <1>1, <1>9, LongerList
  <2>2. rest[t] = pending[t]
    BY <1>9
  <2> QED
    BY <1>2, <2>1, <2>2
<1>11. NullTask \in Writer \ {t} /\ \A u \in Task \ {t} : u \in Writer \ {t}
  BY DEF Writer, InterruptsAssumption
<1> QED
  BY <1>2, <1>6, <1>8, <1>9, <1>10, <1>11

LEMMA TakePuts ==
  ASSUME InterruptsAssumption, Types, NEW t \in Task, Take(t)
  PROVE  /\ \A q \in putting' :
              \E p \in putting :
                /\ q.by = p.by /\ q.slots = p.slots /\ q.list \in Lists /\ p.list \in Lists
                /\ q.by \in Task /\ q.slots \in Slots
                /\ \A w \in Writer \ {t} : q.list[w] = p.list[w]
                /\ q.list[t].resume =
                     IF p.list[t].resume # <<>> THEN p.list[t].resume \o offer ELSE <<>>
         /\ putting' \subseteq [by : Task, slots : Slots, list : Lists]
         /\ \A p \in putting : \E q \in putting' : q.by = p.by
<1> DEFINE m(p) == [p EXCEPT !.list = Longer(@, t, offer)]
<1>1. /\ putting' = {m(p) : p \in putting} /\ offer \in Seq(Answer)
      /\ putting \subseteq [by : Task, slots : Slots, list : Lists]
  BY TakeEffect DEF Types
<1>2. ASSUME NEW p \in putting
      PROVE  /\ m(p).by = p.by /\ m(p).slots = p.slots /\ m(p).list \in Lists
             /\ p.list \in Lists /\ p.by \in Task /\ p.slots \in Slots
             /\ \A w \in Writer \ {t} : m(p).list[w] = p.list[w]
             /\ m(p).list[t].resume =
                  IF p.list[t].resume # <<>> THEN p.list[t].resume \o offer ELSE <<>>
             /\ m(p) \in [by : Task, slots : Slots, list : Lists]
  <2>1. /\ p \in [by : Task, slots : Slots, list : Lists] /\ p.list \in Lists
        /\ p.by \in Task /\ p.slots \in Slots
    BY <1>1
  <2> DEFINE l == Longer(p.list, t, offer)
  <2>2. /\ l \in Lists /\ \A w \in Writer \ {t} : l[w] = p.list[w]
        /\ l[t].resume = IF p.list[t].resume # <<>> THEN p.list[t].resume \o offer ELSE <<>>
    BY <1>1, <2>1, LongerList
  <2>3. m(p) = [p EXCEPT !.list = l]
    OBVIOUS
  <2> HIDE DEF l
  <2>4. /\ [p EXCEPT !.list = l].by = p.by /\ [p EXCEPT !.list = l].slots = p.slots
        /\ [p EXCEPT !.list = l].list = l
        /\ [p EXCEPT !.list = l] \in [by : Task, slots : Slots, list : Lists]
    BY <2>1, <2>2
  <2> HIDE DEF m
  <2> QED
    BY <2>1, <2>2, <2>3, <2>4
<1> HIDE DEF m
<1> QED
  BY <1>1, <1>2

(* The actions with which an attempt ends: the attempt of t, and what it   *)
(* has committed.                                                          *)
Ends(t, slots) ==
  /\ run' \in [Task -> Attempt] /\ \A u \in Task \ {t} : run'[u] = run[u]
  /\ run[t].st = "running" /\ run'[t].st \in {"interrupted", "failed", "done"}
  /\ run'[t].got = run[t].got /\ run'[t].list = run[t].list
  /\ run'[t].wrote = run[t].wrote /\ run'[t].retries = run[t].retries
  /\ run'[t].st = "interrupted" => /\ Len(run[t].got) < Asks[t] /\ offer = <<>>
                                   /\ run[t].count >= Len(run[t].list)
  /\ run'[t].st = "failed" => failures' = failures + 1
  /\ failures' \in Nat /\ failures' >= failures /\ failures' <= MaxFailures
  /\ slots \in Slots
  /\ slots.interrupt = (IF run'[t].st = "interrupted" THEN Len(run[t].got) + 1 ELSE 0)
  /\ slots.resume = Resumes(t) /\ slots.output = (run'[t].st = "done")
  /\ Commit(t, slots)
  /\ offer' = offer

LEMMA ResumesKind ==
  ASSUME InterruptsAssumption, Types, NEW t \in Task
  PROVE  Resumes(t) \in Seq(Answer) /\ Resumes(t) \in {<<>>, run[t].list}
<1>1. run[t].list \in Seq(Answer) /\ <<>> \in Seq(Answer)
  BY Attempts DEF Types
<1> QED
  BY <1>1 DEF Resumes

LEMMA EndsEffect ==
  ASSUME InterruptsAssumption, Types, NEW t \in Task,
         Interrupt(t) \/ Finish(t) \/ Fail(t)
  PROVE  \E slots \in Slots : Ends(t, slots)
<1>1. /\ run[t] \in Attempt /\ run \in [Task -> Attempt] /\ failures \in 0..MaxFailures
      /\ run[t].got \in Seq(Answer) /\ run[t].count \in Nat /\ MaxFailures \in Nat
  BY Attempts DEF Types, InterruptsAssumption
<1>2. Resumes(t) \in Seq(Answer) /\ Len(run[t].got) + 1 \in Nat /\ <<>> \in Seq(Answer)
  BY <1>1, ResumesKind
<1>3. CASE Interrupt(t)
  <2> DEFINE n == [run[t] EXCEPT !.st = "interrupted", !.count = @ + 1]
             s == [interrupt |-> Len(run[t].got) + 1, resume |-> Resumes(t), output |-> FALSE]
  <2>1. /\ run' = [run EXCEPT ![t] = n] /\ Commit(t, s) /\ UNCHANGED <<offer, failures>>
        /\ run[t].st = "running" /\ Len(run[t].got) < Asks[t] /\ offer = <<>>
        /\ run[t].count >= Len(run[t].list)
    BY <1>3 DEF Interrupt, Asking
  <2>0. "interrupted" \in States
    BY DEF States
  <2>2. PICK c \in Nat : c = run[t].count + 1
    BY <1>1
  <2>3. n = [run[t] EXCEPT !.st = "interrupted", !.count = c]
    BY <2>2
  <2> HIDE DEF n
  <2>4. /\ n \in Attempt /\ n.st = "interrupted" /\ n.got = run[t].got
        /\ n.list = run[t].list /\ n.wrote = run[t].wrote /\ n.retries = run[t].retries
    <3>1. PICK r \in Attempt : r = run[t]
      BY <1>1
    <3>2. LET m == [r EXCEPT !.st = "interrupted", !.count = c]
          IN  /\ m \in Attempt /\ m.st = "interrupted" /\ m.got = r.got
              /\ m.list = r.list /\ m.wrote = r.wrote /\ m.retries = r.retries
      BY <2>0 DEF Attempt, States
    <3>3. n = [r EXCEPT !.st = "interrupted", !.count = c]
      BY <2>3, <3>1
    <3> QED
      BY <3>1, <3>2, <3>3
  <2>5. run'[t] = n /\ run' \in [Task -> Attempt] /\ \A u \in Task \ {t} : run'[u] = run[u]
    BY <1>1, <2>1, <2>4
  <2>6. /\ s \in Slots /\ s.interrupt = Len(run[t].got) + 1 /\ s.resume = Resumes(t)
        /\ s.output = FALSE
    BY <1>2 DEF Slots
  <2> HIDE DEF s
  <2>7. Ends(t, s)
    <3>1. /\ failures' \in Nat /\ failures' >= failures /\ failures' <= MaxFailures
          /\ run'[t].st = "failed" => failures' = failures + 1
      BY <1>1, <2>1, <2>4, <2>5
    <3> QED
      BY <2>1, <2>4, <2>5, <2>6, <3>1 DEF Ends
  <2> QED
    BY <2>6, <2>7
<1>4. CASE Finish(t)
  <2> DEFINE n == [run[t] EXCEPT !.st = "done"]
             s == [interrupt |-> 0, resume |-> Resumes(t), output |-> TRUE]
  <2>1. /\ run' = [run EXCEPT ![t] = n] /\ Commit(t, s) /\ UNCHANGED <<offer, failures>>
        /\ run[t].st = "running"
    BY <1>4 DEF Finish
  <2>4. /\ n \in Attempt /\ n.st = "done" /\ n.got = run[t].got
        /\ n.list = run[t].list /\ n.wrote = run[t].wrote /\ n.retries = run[t].retries
    BY <1>1, EndedAttempt DEF States
  <2> HIDE DEF n
  <2>5. run'[t] = n /\ run' \in [Task -> Attempt] /\ \A u \in Task \ {t} : run'[u] = run[u]
    BY <1>1, <2>1, <2>4
  <2>6. s \in Slots /\ s.interrupt = 0 /\ s.resume = Resumes(t) /\ s.output = TRUE
    BY <1>2 DEF Slots
  <2> HIDE DEF s
  <2>7. Ends(t, s)
    <3>1. /\ failures' \in Nat /\ failures' >= failures /\ failures' <= MaxFailures
          /\ run'[t].st = "failed" => failures' = failures + 1
      BY <1>1, <2>1, <2>4, <2>5
    <3> QED
      BY <2>1, <2>4, <2>5, <2>6, <3>1 DEF Ends
  <2> QED
    BY <2>6, <2>7
<1>5. CASE Fail(t)
  <2> DEFINE n == [run[t] EXCEPT !.st = "failed"]
             s == [NoSlots EXCEPT !.resume = Resumes(t)]
  <2>1. /\ run' = [run EXCEPT ![t] = n] /\ Commit(t, s) /\ UNCHANGED offer
        /\ run[t].st = "running" /\ failures < MaxFailures /\ failures' = failures + 1
    BY <1>5 DEF Fail
  <2>4. /\ n \in Attempt /\ n.st = "failed" /\ n.got = run[t].got
        /\ n.list = run[t].list /\ n.wrote = run[t].wrote /\ n.retries = run[t].retries
    BY <1>1, EndedAttempt DEF States
  <2> HIDE DEF n
  <2>5. run'[t] = n /\ run' \in [Task -> Attempt] /\ \A u \in Task \ {t} : run'[u] = run[u]
    BY <1>1, <2>1, <2>4
  <2>6. s \in Slots /\ s.interrupt = 0 /\ s.resume = Resumes(t) /\ s.output = FALSE
    BY <1>2 DEF Slots, NoSlots
  <2> HIDE DEF s
  <2>7. Ends(t, s)
    <3>1. /\ failures' \in Nat /\ failures' >= failures /\ failures' <= MaxFailures
          /\ run'[t].st = "failed" => failures' = failures + 1
      BY <1>1, <2>1, <2>4, <2>5
    <3> QED
      BY <2>1, <2>4, <2>5, <2>6, <3>1 DEF Ends
  <2> QED
    BY <2>6, <2>7
<1> QED
  BY <1>3, <1>4, <1>5

LEMMA EndsCommitted ==
  ASSUME InterruptsAssumption, Types, NEW t \in Task, NEW slots \in Slots, Ends(t, slots)
  PROVE  slots = Committed(t)'
<1>1. slots = [interrupt |-> slots.interrupt, resume |-> slots.resume, output |-> slots.output]
  BY Records
<1>2. Resumes(t)' = Resumes(t)
  BY DEF Resumes, Ends
<1> QED
  BY <1>1, <1>2 DEF Ends, Committed

(* put_writes, whole or as its second half.                                *)
Puts(t, slots, list) ==
  /\ pending' = [list EXCEPT ![t] = slots]
  /\ saving' = IF durability = "exit" THEN saving
               ELSE saving \cup {[by |-> t, slots |-> slots]}

LEMMA CommitEffect ==
  ASSUME NEW t \in Task, NEW slots \in Slots, Commit(t, slots)
  PROVE  /\ stored' = stored /\ phase' = phase /\ durability' = durability
         /\ invocations' = invocations /\ crashes' = crashes
         /\ \/ /\ durability \in Races
               /\ putting' = putting \cup {[by |-> t, slots |-> slots, list |-> pending]}
               /\ UNCHANGED <<pending, same, saving>>
            \/ /\ durability \notin Races /\ putting' = putting /\ same' = FALSE
               /\ Puts(t, slots, pending)
BY DEF Commit, Replace, Puts

LEMMA PutEffect ==
  ASSUME Types, NEW p \in putting, Put(p)
  PROVE  /\ p.by \in Task /\ p.slots \in Slots /\ p.list \in Lists
         /\ putting' = putting \ {p} /\ same' = FALSE
         /\ Puts(p.by, p.slots, p.list)
         /\ UNCHANGED <<stored, offer, run, phase, durability, counts>>
BY DEF Types, Put, Replace, Puts

LEMMA PutsTypes ==
  ASSUME Types, NEW t \in Task, NEW slots \in Slots, NEW list \in Lists, Puts(t, slots, list)
  PROVE  /\ pending' \in Lists /\ pending'[t] = slots
         /\ \A w \in Writer \ {t} : pending'[w] = list[w]
         /\ saving' \subseteq [by : Writer, slots : Slots] /\ saving \subseteq saving'
         /\ \A w \in saving' : w \in saving \/ (w.by = t /\ w.slots = slots)
         /\ durability # "exit" => \E w \in saving' : w.by = t
<1> DEFINE w == [by |-> t, slots |-> slots]
<1>1. w \in [by : Writer, slots : Slots] /\ w.by = t /\ w.slots = slots /\ t \in Writer
  BY DEF Writer
<1>2. /\ pending' = [list EXCEPT ![t] = slots]
      /\ saving' = IF durability = "exit" THEN saving ELSE saving \cup {w}
      /\ saving \subseteq [by : Writer, slots : Slots]
  BY DEF Puts, Types
<1>3. /\ pending' \in Lists /\ pending'[t] = slots
      /\ \A v \in Writer \ {t} : pending'[v] = list[v]
  BY <1>1, <1>2 DEF Lists
<1> HIDE DEF w
<1> QED
  BY <1>1, <1>2, <1>3

(* The node is run again.                                                  *)
LEMMA RetryEffect ==
  ASSUME InterruptsAssumption, Types, NEW t \in Task, Retry(t)
  PROVE  /\ run' \in [Task -> Attempt] /\ \A u \in Task \ {t} : run'[u] = run[u]
         /\ run[t].st = "running" /\ run'[t].st = "running"
         /\ run'[t].got = <<>> /\ run'[t].list = run[t].list /\ run'[t].wrote = FALSE
         /\ run'[t].count = run[t].count /\ run'[t].retries = run[t].retries + 1
         /\ Careful => run[t].got = <<>>
         /\ failures' = failures + 1 /\ failures' \in 0..MaxFailures
         /\ UNCHANGED <<stored, memory, phase, durability, saves, invocations, crashes>>
<1>1. /\ run[t] \in Attempt /\ run \in [Task -> Attempt] /\ failures \in 0..MaxFailures
      /\ MaxFailures \in Nat /\ MaxRetries \in Nat /\ run[t].retries \in Nat
      /\ <<>> \in Seq(Answer)
  BY Attempts DEF Types, InterruptsAssumption
<1> DEFINE n == [run[t] EXCEPT !.got = <<>>, !.wrote = FALSE, !.retries = @ + 1]
<1>2. /\ run' = [run EXCEPT ![t] = n] /\ run[t].st = "running" /\ run[t].retries < MaxRetries
      /\ Careful => run[t].got = <<>>
      /\ failures < MaxFailures /\ failures' = failures + 1
      /\ UNCHANGED <<stored, memory, phase, durability, saves, invocations, crashes>>
  BY DEF Retry
<1>3. PICK k \in 0..MaxRetries : k = run[t].retries + 1
  BY <1>1, <1>2
<1>4. n = [run[t] EXCEPT !.got = <<>>, !.wrote = FALSE, !.retries = k]
  BY <1>3
<1> HIDE DEF n
<1>5. /\ n \in Attempt /\ n.st = "running" /\ n.got = <<>> /\ n.list = run[t].list
      /\ n.wrote = FALSE /\ n.count = run[t].count /\ n.retries = run[t].retries + 1
  <2>1. /\ n \in Attempt /\ n.st = run[t].st /\ n.got = <<>> /\ n.list = run[t].list
        /\ n.wrote = FALSE /\ n.count = run[t].count /\ n.retries = k
    <3>1. PICK r \in Attempt : r = run[t]
      BY <1>1
    <3>2. LET m == [r EXCEPT !.got = <<>>, !.wrote = FALSE, !.retries = k]
          IN  /\ m \in Attempt /\ m.st = r.st /\ m.got = <<>> /\ m.list = r.list
              /\ m.wrote = FALSE /\ m.count = r.count /\ m.retries = k
      BY <1>1 DEF Attempt
    <3>3. n = [r EXCEPT !.got = <<>>, !.wrote = FALSE, !.retries = k]
      BY <1>4, <3>1
    <3> QED
      BY <3>1, <3>2, <3>3
  <2> QED
    BY <1>2, <1>3, <2>1
<1>6. run'[t] = n /\ run' \in [Task -> Attempt] /\ \A u \in Task \ {t} : run'[u] = run[u]
  BY <1>1, <1>2, <1>5
<1> QED
  BY <1>1, <1>2, <1>5, <1>6

(* An invocation begins, with the answer of a bare Command and those given *)
(* by id.                                                                  *)
BareKind(bare) ==
  bare = <<>> \/ \E t \in Task : bare = <<NewAnswer(t)>> /\ MayReply(t)

NamedKind(named) ==
  /\ named \in [Task -> Seq(Answer)]
  /\ \A t \in Task :
       named[t] = <<>> \/ (/\ named[t] = <<NewAnswer(t)>> /\ t \in Shown
                           /\ Careful => t \in Current)

LEMMA NewAnswers ==
  ASSUME InterruptsAssumption, Types, invocations < MaxInvocations, NEW t \in Task
  PROVE  /\ NewAnswer(t) \in Answer /\ <<NewAnswer(t)>> \in Seq(Answer)
         /\ NewAnswer(t).task = t /\ NewAnswer(t).question = stored[t].interrupt
<1>1. /\ stored[t] \in Slots /\ invocations + 1 \in 1..MaxInvocations
  BY DEF Types, InterruptsAssumption, Lists, Writer
<1>2. stored[t].interrupt \in Nat
  BY <1>1, Records
<1>3. /\ NewAnswer(t) \in Answer
      /\ NewAnswer(t).task = t /\ NewAnswer(t).question = stored[t].interrupt
  BY <1>1, <1>2 DEF NewAnswer, Answer
<1> QED
  BY <1>3

LEMMA ClientEnters ==
  ASSUME InterruptsAssumption, Types, Client
  PROVE  \E bare \in Seq(Answer), named \in [Task -> Seq(Answer)] :
           Enter(bare, named) /\ BareKind(bare) /\ NamedKind(named)
<1> DEFINE none == [t \in Task |-> <<>>]
<1>1. <<>> \in Seq(Answer) /\ none \in [Task -> Seq(Answer)] /\ NamedKind(none) /\ BareKind(<<>>)
  BY DEF NamedKind, BareKind
<1>2. CASE GoOn
  <2>1. Enter(<<>>, none)
    BY <1>2 DEF GoOn
  <2> HIDE DEF none
  <2> QED
    BY <1>1, <2>1
<1>3. ASSUME NEW S \in SUBSET Task, ResumeByIds(S)
      PROVE  \E named \in [Task -> Seq(Answer)] : Enter(<<>>, named) /\ NamedKind(named)
  <2> DEFINE named == [t \in Task |-> IF t \in S THEN <<NewAnswer(t)>> ELSE <<>>]
  <2>1. Enter(<<>>, named) /\ MayName(S)
    BY <1>3 DEF ResumeByIds
  <2>2. invocations < MaxInvocations
    BY <2>1 DEF Enter
  <2>3. \A t \in Task : <<NewAnswer(t)>> \in Seq(Answer)
    BY <2>2, NewAnswers
  <2>4. named \in [Task -> Seq(Answer)]
    BY <2>3, <1>1
  <2>5. \A t \in S : t \in Shown /\ (Careful => t \in Current)
    BY <2>1 DEF MayName, Current
  <2>6. \A t \in Task : named[t] = IF t \in S THEN <<NewAnswer(t)>> ELSE <<>>
    OBVIOUS
  <2> HIDE DEF named
  <2>7. NamedKind(named)
    BY <2>4, <2>5, <2>6 DEF NamedKind
  <2> QED
    BY <2>1, <2>4, <2>7
<1>4. ASSUME NEW t \in Task, ResumeBare(t)
      PROVE  \E bare \in Seq(Answer) : Enter(bare, none) /\ BareKind(bare)
  <2>1. Enter(<<NewAnswer(t)>>, none) /\ MayReply(t)
    BY <1>4 DEF ResumeBare
  <2>2. invocations < MaxInvocations
    BY <2>1 DEF Enter
  <2>3. <<NewAnswer(t)>> \in Seq(Answer) /\ BareKind(<<NewAnswer(t)>>)
    BY <2>1, <2>2, NewAnswers DEF BareKind
  <2> HIDE DEF none
  <2> QED
    BY <2>1, <2>3
<1> HIDE DEF none
<1> QED
  BY <1>1, <1>2, <1>3, <1>4 DEF Client

(* What a task begins with.                                                *)
Begins(t, named) ==
  /\ run'[t].got = <<>> /\ run'[t].count = 0 /\ run'[t].wrote = FALSE
  /\ run'[t].retries = 0
  /\ stored[t].output => run'[t].st = "done" /\ run'[t].list = <<>>
  /\ ~ stored[t].output => /\ run'[t].st = "running"
                           /\ run'[t].list = stored[t].resume \o named[t]
  /\ pending'[t].resume = IF stored[t].resume = <<>> THEN <<>>
                          ELSE stored[t].resume \o named[t]

LEMMA EnterEffect ==
  ASSUME InterruptsAssumption, Types, NEW bare \in Seq(Answer),
         NEW named \in [Task -> Seq(Answer)], Enter(bare, named)
  PROVE  /\ phase = "idle" /\ phase' = "running" /\ invocations < MaxInvocations
         /\ invocations' = invocations + 1 /\ durability' \in Durabilities
         /\ run' \in [Task -> Attempt]
         /\ \A t \in Task : Begins(t, named)
         /\ pending' \in Lists
         /\ pending'[NullTask].resume =
              IF bare = <<>> THEN stored[NullTask].resume ELSE bare
         /\ offer' = pending'[NullTask].resume /\ same' = TRUE
         /\ saving' \subseteq [by : Writer, slots : Slots]
         /\ \A w \in saving' : /\ w.by = NullTask /\ w.slots = pending'[NullTask]
                               /\ durability' # "exit"
         /\ UNCHANGED <<stored, putting, failures, crashes>>
<1> DEFINE list  == [t \in Task |-> Known(t, named)]
           put   == [NoSlots EXCEPT !.resume = bare]
           null  == Merged(stored[NullTask], put)
           done  == [NoAttempt EXCEPT !.st = "done"]
           start(t) == [NoAttempt EXCEPT !.st = "running", !.list = list[t]]
           slots(w) == [stored[w] EXCEPT !.resume = list[w]]
<1>1. /\ phase = "idle" /\ phase' = "running" /\ invocations < MaxInvocations
      /\ invocations' = invocations + 1 /\ durability' \in Durabilities
      /\ pending' = [w \in Writer |->
                       IF w = NullTask THEN null
                       ELSE IF stored[w].resume = <<>> THEN stored[w]
                       ELSE slots(w)]
      /\ offer' = null.resume /\ same' = TRUE
      /\ saving' = IF bare = <<>> \/ durability' = "exit" THEN {}
                   ELSE {[by |-> NullTask, slots |-> null]}
      /\ run' = [t \in Task |-> IF stored[t].output THEN done ELSE start(t)]
      /\ UNCHANGED <<stored, putting, failures, crashes>>
  BY DEF Enter
<1>2. /\ stored \in Lists /\ NullTask \in Writer /\ NullTask \notin Task
      /\ Task \subseteq Writer /\ Writer \ {NullTask} \subseteq Task
  BY DEF Types, Writer, InterruptsAssumption
<1>3. \A t \in Task : list[t] = stored[t].resume \o named[t] /\ list[t] \in Seq(Answer)
  <2> SUFFICES ASSUME NEW t \in Task
               PROVE  list[t] = stored[t].resume \o named[t] /\ list[t] \in Seq(Answer)
    OBVIOUS
  <2>1. stored[t].resume \in Seq(Answer) /\ named[t] \in Seq(Answer)
    BY <1>2, Records DEF Lists
  <2>2. stored[t].resume \o named[t] \in Seq(Answer)
    BY <2>1
  <2> QED
    BY <2>2 DEF Known
<1>4. put \in Slots /\ put.resume = bare
  BY DEF Slots, NoSlots
<1>5. /\ null \in Slots
      /\ null.resume = IF bare = <<>> THEN stored[NullTask].resume ELSE bare
  <2> HIDE DEF put
  <2>1. stored[NullTask] \in Slots
    BY <1>2 DEF Lists
  <2> QED
    BY <1>4, <2>1, MergedSlots
<1>6. /\ done \in Attempt /\ done.st = "done" /\ done.got = <<>> /\ done.list = <<>>
      /\ done.count = 0 /\ done.wrote = FALSE /\ done.retries = 0
  <2>1. NoAttempt \in Attempt
    BY Attempts
  <2>2. done \in Attempt
    BY <2>1 DEF Attempt
  <2> QED
    BY <2>2 DEF NoAttempt
<1>7. \A t \in Task :
        /\ start(t) \in Attempt /\ start(t).st = "running" /\ start(t).list = list[t]
        /\ start(t).got = <<>> /\ start(t).count = 0 /\ start(t).wrote = FALSE
        /\ start(t).retries = 0
  <2> SUFFICES ASSUME NEW t \in Task
               PROVE  /\ start(t) \in Attempt /\ start(t).st = "running"
                      /\ start(t).list = list[t] /\ start(t).got = <<>>
                      /\ start(t).count = 0 /\ start(t).wrote = FALSE
                      /\ start(t).retries = 0
    OBVIOUS
  <2>1. PICK l \in Seq(Answer) : l = list[t]
    BY <1>3
  <2>2. start(t) = [NoAttempt EXCEPT !.st = "running", !.list = l]
    BY <2>1
  <2>3. NoAttempt \in Attempt /\ "running" \in States
    BY Attempts DEF States
  <2> DEFINE n == [NoAttempt EXCEPT !.st = "running", !.list = l]
  <2>4. /\ n \in Attempt /\ n.st = "running" /\ n.list = l /\ n.got = NoAttempt.got
        /\ n.count = NoAttempt.count /\ n.wrote = NoAttempt.wrote
        /\ n.retries = NoAttempt.retries
    <3>1. PICK r \in Attempt : r = NoAttempt
      BY <2>3
    <3>2. LET m == [r EXCEPT !.st = "running", !.list = l]
          IN  /\ m \in Attempt /\ m.st = "running" /\ m.list = l /\ m.got = r.got
              /\ m.count = r.count /\ m.wrote = r.wrote /\ m.retries = r.retries
      BY <2>3 DEF Attempt, States
    <3> QED
      BY <3>1, <3>2
  <2> HIDE DEF n, start
  <2>5. start(t) = n
    BY <2>2 DEF n
  <2> QED
    BY <2>1, <2>4, <2>5 DEF NoAttempt
<1>8. \A w \in Task : slots(w) \in Slots /\ slots(w).resume = list[w]
  <2> SUFFICES ASSUME NEW w \in Task PROVE slots(w) \in Slots /\ slots(w).resume = list[w]
    OBVIOUS
  <2>1. PICK l \in Seq(Answer) : l = list[w]
    BY <1>3
  <2>2. stored[w] \in Slots
    BY <1>2 DEF Lists
  <2>3. [stored[w] EXCEPT !.resume = l] \in Slots /\ [stored[w] EXCEPT !.resume = l].resume = l
    BY <2>2 DEF Slots
  <2> QED
    BY <2>1, <2>3
<1> HIDE DEF list, put, null, done, start, slots
<1>9. run' \in [Task -> Attempt] /\ \A t \in Task : run'[t] = IF stored[t].output THEN done ELSE start(t)
  BY <1>1, <1>6, <1>7
<1>10. \A t \in Task : stored[t] \in Slots
  BY <1>2 DEF Lists
<1>11. /\ pending' \in Lists /\ pending'[NullTask] = null
       /\ \A t \in Task : pending'[t] = IF stored[t].resume = <<>> THEN stored[t] ELSE slots(t)
  BY <1>1, <1>2, <1>5, <1>8, <1>10 DEF Lists
<1>12. \A w \in saving' : /\ w.by = NullTask /\ w.slots = pending'[NullTask]
                          /\ durability' # "exit"
                          /\ w \in [by : Writer, slots : Slots]
  BY <1>1, <1>2, <1>5, <1>11
<1>13. \A t \in Task :
         pending'[t].resume = IF stored[t].resume = <<>> THEN <<>>
                              ELSE stored[t].resume \o named[t]
  BY <1>3, <1>8, <1>11
<1>14. \A t \in Task :
         /\ run'[t].got = <<>> /\ run'[t].count = 0 /\ run'[t].wrote = FALSE
         /\ run'[t].retries = 0
         /\ stored[t].output => run'[t].st = "done" /\ run'[t].list = <<>>
         /\ ~ stored[t].output => /\ run'[t].st = "running"
                                  /\ run'[t].list = stored[t].resume \o named[t]
  <2> SUFFICES ASSUME NEW t \in Task
               PROVE  /\ run'[t].got = <<>> /\ run'[t].count = 0 /\ run'[t].wrote = FALSE
                      /\ run'[t].retries = 0
                      /\ stored[t].output => run'[t].st = "done" /\ run'[t].list = <<>>
                      /\ ~ stored[t].output =>
                           /\ run'[t].st = "running"
                           /\ run'[t].list = stored[t].resume \o named[t]
    OBVIOUS
  <2>1. CASE stored[t].output
    <3>1. run'[t] = done
      BY <1>9, <2>1
    <3> QED
      BY <1>6, <2>1, <3>1
  <2>2. CASE ~ stored[t].output
    <3>1. run'[t] = start(t)
      BY <1>9, <2>2
    <3> QED
      <4>1. list[t] = stored[t].resume \o named[t]
        BY <1>3
      <4>2. /\ run'[t].st = "running" /\ run'[t].list = list[t] /\ run'[t].got = <<>>
            /\ run'[t].count = 0 /\ run'[t].wrote = FALSE /\ run'[t].retries = 0
        BY <1>7, <3>1
      <4> QED
        BY <2>2, <4>1, <4>2
  <2> QED
    BY <2>1, <2>2
<1>15. pending'[NullTask].resume = (IF bare = <<>> THEN stored[NullTask].resume ELSE bare)
  BY <1>5, <1>11
<1>16. offer' = pending'[NullTask].resume
  BY <1>1, <1>11
<1>17. \A t \in Task : Begins(t, named)
  BY <1>13, <1>14 DEF Begins
<1> QED
  BY <1>1, <1>9, <1>11, <1>12, <1>15, <1>16, <1>17

LEMMA SaveEffect ==
  ASSUME InterruptsAssumption, Types, NEW w \in saving, Save(w)
  PROVE  /\ w.by \in Writer /\ w.slots \in Slots /\ saving' = saving \ {w}
         /\ stored' \in Lists /\ \A v \in Writer \ {w.by} : stored'[v] = stored[v]
         /\ stored'[w.by] = Merged(stored[w.by], w.slots)
         /\ UNCHANGED <<memory, putting, run, phase, durability, counts>>
<1>1. /\ w.by \in Writer /\ w.slots \in Slots /\ stored \in Lists
  BY DEF Types
<1> DEFINE m == Merged(stored[w.by], w.slots)
<1>2. m \in Slots
  BY <1>1, MergedSlots DEF Lists
<1>3. /\ stored' = [stored EXCEPT ![w.by] = m] /\ saving' = saving \ {w}
      /\ UNCHANGED <<memory, putting, run, phase, durability, counts>>
  BY DEF Save
<1> HIDE DEF m
<1>4. /\ stored' \in Lists /\ \A v \in Writer \ {w.by} : stored'[v] = stored[v]
      /\ stored'[w.by] = m
  BY <1>1, <1>2, <1>3 DEF Lists
<1> QED
  BY <1>1, <1>3, <1>4 DEF m

(* What the end of an invocation leaves.                                   *)
Rested ==
  /\ pending' \in Lists /\ \A w \in Writer : pending'[w] = NoSlots
  /\ offer' = <<>> /\ same' = TRUE /\ putting' = {} /\ saving' = {}
  /\ run' = [t \in Task |-> NoAttempt] /\ run' \in [Task -> Attempt]
  /\ \A t \in Task : run'[t] = NoAttempt
  /\ UNCHANGED <<durability, invocations, failures>>

LEMMA LeaveEffect ==
  ASSUME InterruptsAssumption, Types, Leave
  PROVE  /\ phase = "running" /\ phase' \in {"idle", "over"} /\ saving = {} /\ Rested
         /\ crashes' = crashes /\ stored' \in Lists
         /\ \/ stored' = stored
            \/ /\ durability = "exit"
               /\ \A w \in Writer : stored'[w] = Merged(stored[w], pending[w])
         /\ phase' = "idle" =>
              \/ durability # "exit" /\ stored' = stored
              \/ /\ durability = "exit"
                 /\ \A w \in Writer : stored'[w] = Merged(stored[w], pending[w])
         /\ \/ putting = {} /\ \A t \in Task : run[t].st # "running"
            \/ \E t \in Task : run[t].st = "failed"
<1>1. /\ phase = "running" /\ saving = {} /\ Forget /\ UNCHANGED <<durability, saving, counts>>
      /\ \/ putting = {} /\ \A t \in Task : run[t].st # "running"
         \/ \E t \in Task : run[t].st = "failed"
  BY DEF Leave
<1>2. Rested
  <2>1. NoSlots \in Slots /\ NoAttempt \in Attempt
    BY Records, Attempts
  <2> QED
    BY <1>1, <2>1 DEF Rested, Forget, Lists, counts
<1>3. \/ phase' = "over" /\ stored' = stored
      \/ /\ phase' = "idle"
         /\ stored' = IF durability = "exit"
                      THEN [w \in Writer |-> Merged(stored[w], pending[w])]
                      ELSE stored
  BY DEF Leave
<1>4. [w \in Writer |-> Merged(stored[w], pending[w])] \in Lists
  BY MergedSlots DEF Types, Lists
<1>5. stored \in Lists
  BY DEF Types
<1> QED
  BY <1>1, <1>2, <1>3, <1>4, <1>5 DEF counts

LEMMA CrashEffect ==
  ASSUME InterruptsAssumption, Types, Crash
  PROVE  /\ phase = "running" /\ phase' = "idle" /\ Rested /\ stored' = stored
         /\ crashes' = crashes + 1 /\ crashes' \in 0..MaxCrashes
<1>1. NoSlots \in Slots /\ NoAttempt \in Attempt
  BY Records, Attempts
<1>2. /\ phase = "running" /\ phase' = "idle" /\ stored' = stored
      /\ crashes' = crashes + 1 /\ crashes < MaxCrashes /\ crashes \in 0..MaxCrashes
      /\ MaxCrashes \in Nat
  BY DEF Crash, Types, InterruptsAssumption
<1>3. crashes' \in 0..MaxCrashes
  BY <1>2
<1>4. Rested
  BY <1>1 DEF Rested, Crash, Forget, Lists
<1> QED
  BY <1>2, <1>3, <1>4

-------------------------------------------------------------------------------
(* The shape of the state.                                                 *)

LEMMA TypesNext ==
  ASSUME InterruptsAssumption, Types, [Next]_vars
  PROVE  Types'
<1>1. CASE Client
  <2>1. PICK bare \in Seq(Answer), named \in [Task -> Seq(Answer)] : Enter(bare, named)
    BY <1>1, ClientEnters
  <2>2. /\ phase' = "running" /\ invocations' = invocations + 1
        /\ invocations < MaxInvocations /\ durability' \in Durabilities
        /\ run' \in [Task -> Attempt] /\ pending' \in Lists
        /\ offer' = pending'[NullTask].resume /\ same' = TRUE
        /\ saving' \subseteq [by : Writer, slots : Slots]
        /\ UNCHANGED <<stored, putting, failures, crashes>>
    BY <2>1, EnterEffect
  <2>3. offer' \in Seq(Answer)
    <3>1. pending'[NullTask] \in Slots
      BY <2>2 DEF Lists, Writer
    <3> QED
      BY <2>2, <3>1, Records
  <2>4. invocations' \in 0..MaxInvocations
    BY <2>2 DEF Types, InterruptsAssumption
  <2> QED
    BY <2>2, <2>3, <2>4 DEF Types
<1>2. ASSUME NEW t \in Task, Recall(t) PROVE Types'
  BY <1>2, RecallEffect DEF Types, memory, saves, counts
<1>3. ASSUME NEW t \in Task, Take(t) PROVE Types'
  <2>1. <<>> \in Seq(Answer)
    OBVIOUS
  <2>2. /\ run' \in [Task -> Attempt] /\ offer' = <<>> /\ pending' \in Lists
        /\ UNCHANGED <<stored, same, saving, phase, durability, counts>>
    BY <1>3, TakeEffect
  <2>3. putting' \subseteq [by : Task, slots : Slots, list : Lists]
    BY <1>3, TakePuts
  <2> QED
    BY <2>1, <2>2, <2>3 DEF Types, counts
<1>4. ASSUME NEW t \in Task, Interrupt(t) \/ Finish(t) \/ Fail(t) PROVE Types'
  <2>1. PICK slots \in Slots : Ends(t, slots)
    BY <1>4, EndsEffect
  <2>2. /\ run' \in [Task -> Attempt] /\ offer' = offer /\ failures' \in 0..MaxFailures
        /\ Commit(t, slots)
    BY <2>1 DEF Ends
  <2>3. /\ stored' = stored /\ phase' = phase /\ durability' = durability
        /\ invocations' = invocations /\ crashes' = crashes
    BY <2>2, CommitEffect
  <2>4. CASE /\ putting' = putting \cup {[by |-> t, slots |-> slots, list |-> pending]}
             /\ UNCHANGED <<pending, same, saving>>
    BY <2>2, <2>3, <2>4 DEF Types
  <2>5. CASE putting' = putting /\ same' = FALSE /\ Puts(t, slots, pending)
    <3>1. pending' \in Lists /\ saving' \subseteq [by : Writer, slots : Slots]
      BY <2>5, PutsTypes DEF Types
    <3> QED
      BY <2>2, <2>3, <2>5, <3>1 DEF Types
  <2> QED
    BY <2>2, <2>4, <2>5, CommitEffect
<1>5. ASSUME NEW t \in Task, Retry(t) PROVE Types'
  BY <1>5, RetryEffect DEF Types, memory, saves
<1>6. ASSUME NEW p \in putting, Put(p) PROVE Types'
  <2>1. /\ p.by \in Task /\ p.slots \in Slots /\ p.list \in Lists
        /\ putting' = putting \ {p} /\ same' = FALSE
        /\ Puts(p.by, p.slots, p.list)
        /\ UNCHANGED <<stored, offer, run, phase, durability, counts>>
    BY <1>6, PutEffect
  <2>2. pending' \in Lists /\ saving' \subseteq [by : Writer, slots : Slots]
    BY <2>1, PutsTypes
  <2> QED
    BY <2>1, <2>2 DEF Types, counts
<1>7. ASSUME NEW w \in saving, Save(w) PROVE Types'
  BY <1>7, SaveEffect DEF Types, memory, counts
<1>8. CASE Leave
  <2>1. <<>> \in Seq(Answer)
    OBVIOUS
  <2> QED
    BY <1>8, <2>1, LeaveEffect DEF Types, Rested
<1>9. CASE Crash
  <2>1. <<>> \in Seq(Answer)
    OBVIOUS
  <2> QED
    BY <1>9, <2>1, CrashEffect DEF Types, Rested
<1>10. CASE UNCHANGED vars
  BY <1>10 DEF vars, memory, saves, counts, Types
<1> QED
  BY <1>1, <1>2, <1>3, <1>4, <1>5, <1>6, <1>7, <1>8, <1>9, <1>10
     DEF Next, Body, RefuseBare, Over

LEMMA Active ==
  ASSUME Types, Rest
  PROVE  /\ \A t \in Task : run[t].st # "waits" => phase = "running"
         /\ saving # {} \/ putting # {} \/ offer # <<>> => phase = "running"
BY DEF Types, Rest, NoAttempt

LEMMA RestNext ==
  ASSUME InterruptsAssumption, Types, Rest, Submitted, [Next]_vars
  PROVE  Rest'
<1> DEFINE Runs == phase' = "running" /\ invocations' # 0
                   /\ \A t \in Task : /\ run'[t].st # "waits"
                                      /\ run'[t].st = "running" => ~stored'[t].output
<1>0. Runs => Rest'
  BY DEF Rest
<1> USE DEF Rest
<1>1. CASE Client
  <2>1. PICK bare \in Seq(Answer), named \in [Task -> Seq(Answer)] : Enter(bare, named)
    BY <1>1, ClientEnters
  <2>2. /\ phase' = "running" /\ invocations' = invocations + 1 /\ invocations \in Nat
        /\ \A t \in Task : /\ stored[t].output => run'[t].st = "done"
                           /\ ~ stored[t].output => run'[t].st = "running"
        /\ stored' = stored
    <3>1. invocations \in Nat
      BY DEF Types
    <3>2. \A t \in Task : Begins(t, named)
      BY <2>1, EnterEffect
    <3>3. phase' = "running" /\ invocations' = invocations + 1 /\ stored' = stored
      BY <2>1, EnterEffect
    <3> QED
      BY <3>1, <3>2, <3>3 DEF Begins
  <2> QED
    BY <1>0, <2>2
<1>2. ASSUME NEW t \in Task, Recall(t) PROVE Rest'
  <2>1. /\ \A u \in Task \ {t} : run'[u] = run[u]
        /\ run[t].st = "running" /\ run'[t].st = "running"
        /\ stored' = stored /\ phase' = phase /\ invocations' = invocations
    BY <1>2, RecallEffect DEF counts
  <2> QED
    BY <1>0, <2>1, Active
<1>3. ASSUME NEW t \in Task, Take(t) PROVE Rest'
  <2>1. /\ \A u \in Task \ {t} : run'[u] = run[u]
        /\ run[t].st = "running" /\ run'[t].st = "running"
        /\ stored' = stored /\ phase' = phase /\ invocations' = invocations
    BY <1>3, TakeEffect DEF counts
  <2> QED
    BY <1>0, <2>1, Active
<1>4. ASSUME NEW t \in Task, Interrupt(t) \/ Finish(t) \/ Fail(t) PROVE Rest'
  <2>1. PICK slots \in Slots : Ends(t, slots)
    BY <1>4, EndsEffect
  <2>2. /\ \A u \in Task \ {t} : run'[u] = run[u]
        /\ run[t].st = "running" /\ run'[t].st \in {"interrupted", "failed", "done"}
        /\ Commit(t, slots)
    BY <2>1 DEF Ends
  <2>3. stored' = stored /\ phase' = phase /\ invocations' = invocations
    BY <2>2, CommitEffect
  <2> QED
    BY <1>0, <2>2, <2>3, Active
<1>5. ASSUME NEW t \in Task, Retry(t) PROVE Rest'
  <2>1. /\ \A u \in Task \ {t} : run'[u] = run[u]
        /\ run[t].st = "running" /\ run'[t].st = "running"
        /\ stored' = stored /\ phase' = phase /\ invocations' = invocations
    BY <1>5, RetryEffect
  <2> QED
    BY <1>0, <2>1, Active
<1>6. ASSUME NEW p \in putting, Put(p) PROVE Rest'
  <2>1. UNCHANGED <<stored, offer, run, phase, invocations>>
    BY <1>6, PutEffect DEF counts
  <2> QED
    BY <1>0, <2>1, Active
<1>7. ASSUME NEW w \in saving, Save(w) PROVE Rest'
  <2>1. /\ \A v \in Writer \ {w.by} : stored'[v] = stored[v]
        /\ stored'[w.by] = Merged(stored[w.by], w.slots)
        /\ w.by \in Writer /\ w.slots \in Slots
        /\ UNCHANGED <<run, phase, invocations>>
    BY <1>7, SaveEffect DEF counts
  <2>2. stored[w.by] \in Slots
    BY <2>1 DEF Types, Lists
  <2>3. stored'[w.by].output = (stored[w.by].output \/ w.slots.output)
    BY <2>1, <2>2, MergedSlots
  <2>4. w.by \in Task /\ w.slots.output => run[w.by].st = "done"
    <3> SUFFICES ASSUME w.by \in Task, w.slots.output PROVE run[w.by].st = "done"
      OBVIOUS
    <3>1. w.slots = Committed(w.by)
      BY DEF Submitted, Ended
    <3>2. Committed(w.by).output = (run[w.by].st = "done")
      BY DEF Committed
    <3> QED
      BY <3>1, <3>2
  <2>5. \A t \in Task : t \in Writer
    BY DEF Writer
  <2>6. \A t \in Task : run'[t].st = "running" => ~stored'[t].output
    BY <2>1, <2>3, <2>4, <2>5, Active
  <2> QED
    BY <1>0, <2>1, <2>6, Active
<1>8. CASE Leave
  <2>1. phase = "running" /\ phase' # "running" /\ Rested /\ invocations' = invocations
    BY <1>8, LeaveEffect DEF Rested
  <2> QED
    BY <2>1 DEF Rested
<1>9. CASE Crash
  <2>1. phase = "running" /\ phase' # "running" /\ Rested /\ invocations' = invocations
    BY <1>9, CrashEffect DEF Rested
  <2> QED
    BY <2>1 DEF Rested
<1>10. CASE UNCHANGED vars
  BY <1>10 DEF vars, memory, saves, counts
<1> QED
  BY <1>1, <1>2, <1>3, <1>4, <1>5, <1>6, <1>7, <1>8, <1>9, <1>10
     DEF Next, Body, RefuseBare, Over

LEMMA EndedStays ==
  ASSUME NEW t \in Task, NEW slots, run'[t] = run[t], Ended(t, slots)
  PROVE  Ended(t, slots)'
BY DEF Ended, Committed, Resumes

LEMMA SubmittedNext ==
  ASSUME InterruptsAssumption, Types, Rest, Submitted, [Next]_vars
  PROVE  Submitted'
<1>0. ASSUME NEW t \in Task, run[t].st = "running",
             \A u \in Task \ {t} : run'[u] = run[u]
      PROVE  /\ \A p \in putting : p.by \in Task /\ p.by # t /\ Ended(p.by, p.slots)'
             /\ \A w \in saving : w.by \in Task => w.by # t /\ Ended(w.by, w.slots)'
  <2>1. ASSUME NEW p \in putting PROVE p.by \in Task /\ p.by # t /\ Ended(p.by, p.slots)'
    <3>1. p.by \in Task /\ p.by # t /\ Ended(p.by, p.slots)
      BY <1>0 DEF Types, Submitted, Ended
    <3>2. run'[p.by] = run[p.by]
      BY <1>0, <3>1
    <3> QED
      BY <3>1, <3>2, EndedStays
  <2>2. ASSUME NEW w \in saving, w.by \in Task PROVE w.by # t /\ Ended(w.by, w.slots)'
    <3>1. w.by # t /\ Ended(w.by, w.slots)
      BY <1>0, <2>2 DEF Submitted, Ended
    <3>2. run'[w.by] = run[w.by]
      BY <1>0, <2>2, <3>1
    <3> QED
      BY <2>2, <3>1, <3>2, EndedStays
  <2> QED
    BY <2>1, <2>2
<1>1. CASE Client
  <2>1. PICK bare \in Seq(Answer), named \in [Task -> Seq(Answer)] : Enter(bare, named)
    BY <1>1, ClientEnters
  <2>2. /\ phase = "idle" /\ putting' = putting /\ \A w \in saving' : w.by = NullTask
    BY <2>1, EnterEffect
  <2>3. putting = {}
    BY <2>2 DEF Rest
  <2> QED
    BY <2>2, <2>3 DEF Submitted, InterruptsAssumption
<1>2. ASSUME NEW t \in Task, Recall(t) PROVE Submitted'
  BY <1>0, <1>2, RecallEffect DEF Submitted, saves
<1>3. ASSUME NEW t \in Task, Take(t) PROVE Submitted'
  <2>1. /\ \A u \in Task \ {t} : run'[u] = run[u]
        /\ run[t].st = "running" /\ saving' = saving
    BY <1>3, TakeEffect
  <2>2. \A q \in putting' : \E p \in putting : q.by = p.by /\ q.slots = p.slots
    BY <1>3, TakePuts
  <2>3. \A q \in putting' : Ended(q.by, q.slots)'
    <3> TAKE q \in putting'
    <3>1. PICK p \in putting : q.by = p.by /\ q.slots = p.slots
      BY <2>2
    <3>2. Ended(p.by, p.slots)'
      BY <1>0, <2>1
    <3> QED
      BY <3>1, <3>2
  <2> QED
    BY <1>0, <2>1, <2>3 DEF Submitted
<1>4. ASSUME NEW t \in Task, Interrupt(t) \/ Finish(t) \/ Fail(t) PROVE Submitted'
  <2>1. PICK slots \in Slots : Ends(t, slots)
    BY <1>4, EndsEffect
  <2>2. /\ \A u \in Task \ {t} : run'[u] = run[u]
        /\ run[t].st = "running" /\ run'[t].st \in {"interrupted", "failed", "done"}
        /\ Commit(t, slots)
    BY <2>1 DEF Ends
  <2>3. Ended(t, slots)'
    BY <2>1, <2>2, EndsCommitted DEF Ended
  <2>4. CASE /\ putting' = putting \cup {[by |-> t, slots |-> slots, list |-> pending]}
             /\ UNCHANGED <<pending, same, saving>>
    BY <1>0, <2>2, <2>3, <2>4 DEF Submitted
  <2>5. CASE putting' = putting /\ same' = FALSE /\ Puts(t, slots, pending)
    <3>1. \A w \in saving' : w \in saving \/ (w.by = t /\ w.slots = slots)
      BY <2>5, PutsTypes DEF Types
    <3>2. \A w \in saving' : w.by \in Task => Ended(w.by, w.slots)'
      <4> TAKE w \in saving'
      <4>1. CASE w \in saving
        BY <1>0, <2>2, <4>1
      <4>2. CASE w.by = t /\ w.slots = slots
        BY <2>3, <4>2
      <4> QED
        BY <3>1, <4>1, <4>2
    <3> QED
      BY <1>0, <2>2, <2>5, <3>2 DEF Submitted
  <2> QED
    BY <2>2, <2>4, <2>5, CommitEffect
<1>5. ASSUME NEW t \in Task, Retry(t) PROVE Submitted'
  BY <1>0, <1>5, RetryEffect DEF Submitted, saves
<1>6. ASSUME NEW p \in putting, Put(p) PROVE Submitted'
  <2>1. /\ p.by \in Task /\ p.slots \in Slots /\ p.list \in Lists
        /\ putting' = putting \ {p} /\ run' = run /\ Puts(p.by, p.slots, p.list)
    BY <1>6, PutEffect
  <2>2. \A w \in saving' : w \in saving \/ (w.by = p.by /\ w.slots = p.slots)
    BY <2>1, PutsTypes
  <2>3. ASSUME NEW t \in Task, NEW s, Ended(t, s) PROVE Ended(t, s)'
    BY <2>1, <2>3, EndedStays
  <2>4. \A w \in saving' : w.by \in Task => Ended(w.by, w.slots)'
    <3> TAKE w \in saving'
    <3>1. ASSUME w.by \in Task PROVE Ended(w.by, w.slots)
      BY <2>2, <3>1 DEF Submitted
    <3> QED
      BY <2>3, <3>1
  <2>5. \A q \in putting' : Ended(q.by, q.slots)'
    <3> TAKE q \in putting'
    <3>1. q.by \in Task /\ Ended(q.by, q.slots)
      BY <2>1 DEF Submitted, Types
    <3> QED
      BY <2>3, <3>1
  <2> QED
    BY <2>4, <2>5 DEF Submitted
<1>7. ASSUME NEW w \in saving, Save(w) PROVE Submitted'
  <2>1. saving' = saving \ {w} /\ putting' = putting /\ run' = run
    BY <1>7, SaveEffect
  <2> QED
    BY <2>1 DEF Submitted, Ended, Committed, Resumes
<1>8. CASE Leave
  BY <1>8, LeaveEffect DEF Rested, Submitted
<1>9. CASE Crash
  BY <1>9, CrashEffect DEF Rested, Submitted
<1>10. CASE UNCHANGED vars
  BY <1>10 DEF vars, memory, saves, counts, Submitted, Ended, Committed, Resumes
<1> QED
  BY <1>1, <1>2, <1>3, <1>4, <1>5, <1>6, <1>7, <1>8, <1>9, <1>10
     DEF Next, Body, RefuseBare, Over

LEMMA Sequences_ ==
  ASSUME InterruptsAssumption, Types
  PROVE  /\ \A w \in Writer : /\ stored[w].resume \in Seq(Answer)
                              /\ pending[w].resume \in Seq(Answer)
                              /\ stored[w] \in Slots /\ pending[w] \in Slots
         /\ \A t \in Task : run[t].list \in Seq(Answer) /\ run[t].got \in Seq(Answer)
         /\ \A p \in putting : /\ p.by \in Task /\ p.slots \in Slots
                               /\ \A w \in Writer : p.list[w].resume \in Seq(Answer)
         /\ offer \in Seq(Answer) /\ <<>> \in Seq(Answer)
         /\ Task \subseteq Writer /\ NullTask \in Writer /\ NullTask \notin Task
<1>1. /\ \A p \in putting : p.list \in Lists /\ p.by \in Task /\ p.slots \in Slots
      /\ stored \in Lists /\ pending \in Lists
      /\ Task \subseteq Writer /\ NullTask \in Writer /\ NullTask \notin Task
      /\ offer \in Seq(Answer) /\ <<>> \in Seq(Answer)
  BY DEF Types, Writer, InterruptsAssumption
<1>2. \A list \in Lists : \A w \in Writer : list[w] \in Slots /\ list[w].resume \in Seq(Answer)
  BY Records DEF Lists
<1>3. \A t \in Task : run[t].list \in Seq(Answer) /\ run[t].got \in Seq(Answer)
  BY Attempts DEF Types
<1> QED
  BY <1>1, <1>2, <1>3

Long(t) == \/ IsPrefix(stored[t].resume, run[t].list)
           \/ run[t].st = "done" /\ run[t].list = <<>>

LEMMA LongStays ==
  ASSUME NEW t \in Task, Long(t), run'[t].list = run[t].list, stored'[t] = stored[t],
         run[t].st = "done" => run'[t].st = "done"
  PROVE  Long(t)'
BY DEF Long

LEMMA LengthenedNext ==
  ASSUME InterruptsAssumption, Types, Rest, Submitted, Lengthened, [Next]_vars
  PROVE  Lengthened'
<1> DEFINE Exits == /\ saving = {}
                    /\ \A t \in Task :
                         /\ Grown(stored[t].resume, pending[t].resume)
                         /\ \A p \in putting : Grown(stored[t].resume, p.list[t].resume)
<1>0. /\ Lengthened <=> (phase = "running" => (\A t \in Task : Long(t))
                                            /\ (durability = "exit" => Exits))
      /\ Lengthened' <=> (phase' = "running" => (\A t \in Task : Long(t)')
                                            /\ (durability' = "exit" => Exits'))
  BY DEF Lengthened, Long
<1>a. /\ \A t \in Task : run[t].st # "waits" => phase = "running"
      /\ saving # {} \/ putting # {} \/ offer # <<>> => phase = "running"
  BY Active
<1>r. \A t \in Task : Resumes(t) \in {<<>>, run[t].list}
  BY ResumesKind
<1>g. \A t \in Task : \A s : Long(t) /\ s \in {<<>>, run[t].list} => Grown(stored[t].resume, s)
  BY DEF Long, Grown
<1>1. CASE Client
  <2>1. PICK bare \in Seq(Answer), named \in [Task -> Seq(Answer)] : Enter(bare, named)
    BY <1>1, ClientEnters
  <2>2. /\ phase = "idle" /\ stored' = stored /\ putting' = putting
        /\ \A w \in saving' : durability' # "exit"
        /\ \A t \in Task :
             /\ stored[t].output => run'[t].st = "done" /\ run'[t].list = <<>>
             /\ ~ stored[t].output => run'[t].list = stored[t].resume \o named[t]
        /\ \A t \in Task :
             pending'[t].resume = IF stored[t].resume = <<>> THEN <<>>
                                  ELSE stored[t].resume \o named[t]
    <3>1. /\ phase = "idle" /\ stored' = stored /\ putting' = putting
          /\ \A w \in saving' : durability' # "exit"
      BY <2>1, EnterEffect
    <3>2. \A t \in Task : Begins(t, named)
      BY <2>1, EnterEffect
    <3> QED
      BY <3>1, <3>2 DEF Begins
  <2>3. putting = {}
    BY <2>2 DEF Rest
  <2>4. \A t \in Task : IsPrefix(stored[t].resume, stored[t].resume \o named[t])
    BY Sequences_, PrefixFacts
  <2>5. \A t \in Task : Long(t)'
    BY <2>2, <2>4 DEF Long
  <2>6. durability' = "exit" => Exits'
    BY <2>2, <2>3, <2>4 DEF Grown
  <2> QED
    BY <1>0, <2>5, <2>6
<1>2. ASSUME NEW t \in Task, Recall(t) PROVE Lengthened'
  <2>1. /\ \A u \in Task : run'[u].list = run[u].list /\ run'[u].st = run[u].st
        /\ UNCHANGED <<stored, pending, putting, saving, phase, durability>>
    BY <1>2, RecallEffect DEF memory, saves
  <2>2. \A u \in Task : Long(u) => Long(u)'
    BY <2>1, LongStays
  <2>3. Exits => Exits'
    BY <2>1
  <2> QED
    BY <1>0, <2>1, <2>2, <2>3
<1>3. ASSUME NEW t \in Task, Take(t) PROVE Lengthened'
  <2>1. /\ \A u \in Task \ {t} : run'[u] = run[u] /\ pending'[u] = pending[u]
        /\ run[t].st = "running" /\ run'[t].list = run[t].list \o offer
        /\ pending'[t].resume = IF pending[t].resume # <<>> THEN pending[t].resume \o offer
                                ELSE <<>>
        /\ UNCHANGED <<stored, saving, phase, durability>>
    BY <1>3, TakeEffect
  <2>2. \A q \in putting' : \E p \in putting :
          /\ \A w \in Writer \ {t} : q.list[w] = p.list[w]
          /\ q.list[t].resume =
               IF p.list[t].resume # <<>> THEN p.list[t].resume \o offer ELSE <<>>
    BY <1>3, TakePuts
  <2>3. ASSUME NEW s \in Seq(Answer), Grown(stored[t].resume, s)
        PROVE  Grown(stored[t].resume, IF s # <<>> THEN s \o offer ELSE <<>>)
    BY <2>3, Sequences_, PrefixFacts DEF Grown
  <2>4. ASSUME NEW u \in Task, Long(u) PROVE Long(u)'
    <3>1. CASE u = t
      <4>1. IsPrefix(stored[t].resume, run[t].list)
        BY <2>1, <2>4, <3>1 DEF Long
      <4>2. IsPrefix(stored[t].resume, run[t].list \o offer)
        BY <4>1, Sequences_, PrefixFacts
      <4> QED
        BY <2>1, <3>1, <4>2 DEF Long
    <3>2. CASE u # t
      BY <2>1, <2>4, <3>2, LongStays
    <3> QED
      BY <3>1, <3>2
  <2>5. ASSUME Exits PROVE Exits'
    <3>1. \A u \in Task : Grown(stored[u].resume, pending'[u].resume)
      BY <2>1, <2>3, <2>5, Sequences_
    <3>2. ASSUME NEW q \in putting', NEW u \in Task
          PROVE  Grown(stored[u].resume, q.list[u].resume)
      <4>1. PICK p \in putting :
              /\ \A w \in Writer \ {t} : q.list[w] = p.list[w]
              /\ q.list[t].resume =
                   IF p.list[t].resume # <<>> THEN p.list[t].resume \o offer ELSE <<>>
        BY <2>2
      <4>2. p.list[t].resume \in Seq(Answer) /\ u \in Writer
        BY Sequences_
      <4>3. Grown(stored[u].resume, p.list[u].resume)
        BY <2>5
      <4>4. CASE u = t
        BY <2>3, <4>1, <4>2, <4>3, <4>4
      <4>5. CASE u # t
        BY <4>1, <4>2, <4>3, <4>5
      <4> QED
        BY <4>4, <4>5
    <3> QED
      BY <2>1, <2>5, <3>1, <3>2
  <2> HIDE DEF Exits
  <2> QED
    BY <1>0, <2>1, <2>4, <2>5
<1>4. ASSUME NEW t \in Task, Interrupt(t) \/ Finish(t) \/ Fail(t) PROVE Lengthened'
  <2>1. PICK slots \in Slots : Ends(t, slots)
    BY <1>4, EndsEffect
  <2>2. /\ \A u \in Task \ {t} : run'[u] = run[u]
        /\ run[t].st = "running" /\ run'[t].list = run[t].list
        /\ Commit(t, slots) /\ slots.resume \in {<<>>, run[t].list}
    BY <1>r, <2>1 DEF Ends
  <2>3. stored' = stored /\ phase' = phase /\ durability' = durability
    BY <2>2, CommitEffect
  <2>4. \A u \in Task : Long(u) => Long(u)'
    BY <2>2, <2>3, LongStays
  <2>5. Long(t) => Grown(stored[t].resume, slots.resume)
    BY <1>g, <2>2
  <2>6. CASE /\ putting' = putting \cup {[by |-> t, slots |-> slots, list |-> pending]}
             /\ UNCHANGED <<pending, same, saving>>
    <3>1. Exits => Exits'
      BY <2>3, <2>6
    <3> QED
      BY <1>0, <2>3, <2>4, <3>1
  <2>7. CASE putting' = putting /\ same' = FALSE /\ Puts(t, slots, pending)
    <3>1. pending'[t] = slots /\ \A w \in Writer \ {t} : pending'[w] = pending[w]
      BY <2>7, PutsTypes DEF Types
    <3>2. durability = "exit" => saving' = saving
      BY <2>7 DEF Puts
    <3>3. Task \subseteq Writer
      BY DEF Writer
    <3>4. Long(t) /\ durability = "exit" /\ Exits => Exits'
      BY <2>3, <2>5, <2>7, <3>1, <3>2, <3>3
    <3> HIDE DEF Exits
    <3> QED
      BY <1>0, <2>3, <2>4, <3>4
  <2> QED
    BY <2>2, <2>6, <2>7, CommitEffect
<1>5. ASSUME NEW t \in Task, Retry(t) PROVE Lengthened'
  <2>1. /\ \A u \in Task : run'[u].list = run[u].list /\ run'[u].st = run[u].st
        /\ UNCHANGED <<stored, pending, putting, saving, phase, durability>>
    BY <1>5, RetryEffect DEF memory, saves
  <2>2. \A u \in Task : Long(u) => Long(u)'
    BY <2>1, LongStays
  <2>3. Exits => Exits'
    BY <2>1
  <2> QED
    BY <1>0, <2>1, <2>2, <2>3
<1>6. ASSUME NEW p \in putting, Put(p) PROVE Lengthened'
  <2>1. /\ p.by \in Task /\ p.slots \in Slots /\ p.list \in Lists
        /\ putting' = putting \ {p} /\ Puts(p.by, p.slots, p.list)
        /\ UNCHANGED <<stored, run, phase, durability>>
    BY <1>6, PutEffect
  <2>2. pending'[p.by] = p.slots /\ \A w \in Writer \ {p.by} : pending'[w] = p.list[w]
    BY <2>1, PutsTypes
  <2>3. durability = "exit" => saving' = saving
    BY <2>1 DEF Puts
  <2>4. p.slots.resume \in {<<>>, run[p.by].list}
    <3>1. p.slots = Committed(p.by)
      BY DEF Submitted, Ended
    <3> QED
      BY <1>r, <2>1, <3>1 DEF Committed
  <2>5. Long(p.by) => Grown(stored[p.by].resume, p.slots.resume)
    BY <1>g, <2>1, <2>4
  <2>6. \A u \in Task : Long(u) => Long(u)'
    BY <2>1, LongStays
  <2>7. Task \subseteq Writer
    BY DEF Writer
  <2>8. Long(p.by) /\ durability = "exit" /\ Exits => Exits'
    BY <2>1, <2>2, <2>3, <2>5, <2>7
  <2> HIDE DEF Exits
  <2> QED
    BY <1>0, <2>1, <2>6, <2>8
<1>7. ASSUME NEW w \in saving, Save(w) PROVE Lengthened'
  <2>1. /\ w.by \in Writer /\ w.slots \in Slots
        /\ \A v \in Writer \ {w.by} : stored'[v] = stored[v]
        /\ stored'[w.by] = Merged(stored[w.by], w.slots)
        /\ UNCHANGED <<run, phase, durability>>
    BY <1>7, SaveEffect
  <2>2. phase = "running" /\ durability # "exit"
    BY <1>0, <1>a
  <2>3. ASSUME NEW u \in Task, Long(u) PROVE Long(u)'
    <3>1. CASE u = w.by
      <4>1. w.slots.resume \in {<<>>, run[u].list}
        <5>1. w.slots = Committed(w.by)
          BY <3>1 DEF Submitted, Ended
        <5> QED
          BY <1>r, <3>1, <5>1 DEF Committed
      <4>2. stored'[u].resume = IF w.slots.resume # <<>> THEN w.slots.resume
                                ELSE stored[u].resume
        BY <2>1, <3>1, Sequences_, MergedSlots
      <4>3. IsPrefix(run[u].list, run[u].list)
        BY Sequences_, PrefixFacts
      <4> QED
        BY <2>1, <2>3, <4>1, <4>2, <4>3 DEF Long
    <3>2. CASE u # w.by
      BY <2>1, <2>3, <3>2, Sequences_, LongStays
    <3> QED
      BY <3>1, <3>2
  <2> QED
    BY <1>0, <2>1, <2>2, <2>3
<1>8. CASE Leave
  BY <1>0, <1>8, LeaveEffect
<1>9. CASE Crash
  BY <1>0, <1>9, CrashEffect
<1>10. CASE UNCHANGED vars
  BY <1>10 DEF vars, memory, saves, counts, Lengthened
<1> QED
  BY <1>1, <1>2, <1>3, <1>4, <1>5, <1>6, <1>7, <1>8, <1>9, <1>10
     DEF Next, Body, RefuseBare, Over

LEMMA AliasedNext ==
  ASSUME InterruptsAssumption, Types, Rest, Submitted, Aliased, [Next]_vars
  PROVE  Aliased'
<1> DEFINE Alias(t) == run[t].st = "running" =>
                         Shared(t, pending) /\ \A p \in putting : Shared(t, p.list)
<1>0. /\ Aliased <=> \A t \in Task : Alias(t)
      /\ Aliased' <=> \A t \in Task : Alias(t)'
  BY DEF Aliased
<1>1. CASE Client
  <2>1. PICK bare \in Seq(Answer), named \in [Task -> Seq(Answer)] : Enter(bare, named)
    BY <1>1, ClientEnters
  <2>2. phase = "idle" /\ putting' = putting
    BY <2>1, EnterEffect
  <2>3. \A t \in Task : Begins(t, named)
    BY <2>1, EnterEffect
  <2>5. putting' = {}
    BY <2>2 DEF Rest
  <2> QED
    BY <1>0, <2>3, <2>5 DEF Shared, Begins
<1>2. ASSUME NEW t \in Task, Recall(t) PROVE Aliased'
  <2>1. /\ \A u \in Task : run'[u].list = run[u].list /\ run'[u].st = run[u].st
        /\ UNCHANGED <<pending, putting>>
    BY <1>2, RecallEffect DEF memory, saves
  <2> QED
    BY <1>0, <2>1 DEF Shared
<1>3. ASSUME NEW t \in Task, Take(t) PROVE Aliased'
  <2>1. /\ \A u \in Task \ {t} : run'[u] = run[u] /\ pending'[u] = pending[u]
        /\ run[t].st = "running" /\ run'[t].list = run[t].list \o offer
        /\ pending'[t].resume = IF pending[t].resume # <<>> THEN pending[t].resume \o offer
                                ELSE <<>>
    BY <1>3, TakeEffect
  <2>2. \A q \in putting' : \E p \in putting :
          /\ \A w \in Writer \ {t} : q.list[w] = p.list[w]
          /\ q.list[t].resume =
               IF p.list[t].resume # <<>> THEN p.list[t].resume \o offer ELSE <<>>
    BY <1>3, TakePuts
  <2>3. Alias(t)'
    <3>1. Shared(t, pending) /\ \A p \in putting : Shared(t, p.list)
      BY <1>0, <2>1
    <3>2. Shared(t, pending)'
      BY <2>1, <3>1 DEF Shared
    <3>3. ASSUME NEW q \in putting' PROVE Shared(t, q.list)'
      <4>1. PICK p \in putting : q.list[t].resume =
              IF p.list[t].resume # <<>> THEN p.list[t].resume \o offer ELSE <<>>
        BY <2>2
      <4>2. p.list[t].resume # <<>> => p.list[t].resume = run[t].list
        BY <3>1 DEF Shared
      <4> QED
        BY <2>1, <4>1, <4>2 DEF Shared
    <3> QED
      BY <3>2, <3>3
  <2>4. ASSUME NEW u \in Task, u # t PROVE Alias(u)'
    <3>1. u \in Writer \ {t}
      BY <2>4 DEF Writer
    <3>2. \A q \in putting' : \E p \in putting : q.list[u] = p.list[u]
      BY <2>2, <3>1
    <3>3. /\ Shared(u, pending) => Shared(u, pending)'
          /\ \A p \in putting, q \in putting' :
               q.list[u] = p.list[u] /\ Shared(u, p.list) => Shared(u, q.list)'
      BY <2>1, <2>4 DEF Shared
    <3>4. run[u] = run'[u] /\ Alias(u)
      BY <1>0, <2>1, <2>4
    <3> QED
      BY <3>2, <3>3, <3>4
  <2> QED
    BY <1>0, <2>3, <2>4
<1>4. ASSUME NEW t \in Task, Interrupt(t) \/ Finish(t) \/ Fail(t) PROVE Aliased'
  <2>1. PICK slots \in Slots : Ends(t, slots)
    BY <1>4, EndsEffect
  <2>2. /\ \A u \in Task \ {t} : run'[u] = run[u]
        /\ run'[t].st # "running" /\ Commit(t, slots)
    BY <2>1 DEF Ends
  <2>3. CASE /\ putting' = putting \cup {[by |-> t, slots |-> slots, list |-> pending]}
             /\ UNCHANGED <<pending, same, saving>>
    BY <1>0, <2>2, <2>3 DEF Shared
  <2>4. CASE putting' = putting /\ same' = FALSE /\ Puts(t, slots, pending)
    <3>1. \A w \in Writer \ {t} : pending'[w] = pending[w]
      BY <2>4, PutsTypes DEF Types
    <3> QED
      BY <1>0, <2>2, <2>4, <3>1 DEF Shared, Writer
  <2> QED
    BY <2>2, <2>3, <2>4, CommitEffect
<1>5. ASSUME NEW t \in Task, Retry(t) PROVE Aliased'
  <2>1. /\ \A u \in Task : run'[u].list = run[u].list /\ run'[u].st = run[u].st
        /\ UNCHANGED <<pending, putting>>
    BY <1>5, RetryEffect DEF memory, saves
  <2> QED
    BY <1>0, <2>1 DEF Shared
<1>6. ASSUME NEW p \in putting, Put(p) PROVE Aliased'
  <2>1. /\ p.by \in Task /\ p.slots \in Slots /\ p.list \in Lists
        /\ putting' = putting \ {p} /\ Puts(p.by, p.slots, p.list) /\ run' = run
    BY <1>6, PutEffect
  <2>2. \A w \in Writer \ {p.by} : pending'[w] = p.list[w]
    BY <2>1, PutsTypes
  <2>3. run[p.by].st # "running"
    BY DEF Submitted, Ended
  <2> QED
    BY <1>0, <2>1, <2>2, <2>3 DEF Shared, Writer
<1>7. ASSUME NEW w \in saving, Save(w) PROVE Aliased'
  BY <1>7, SaveEffect DEF memory, Aliased, Shared
<1>8. CASE Leave
  <2>1. \A t \in Task : run'[t] = NoAttempt
    BY <1>8, LeaveEffect DEF Rested
  <2> QED
    BY <1>0, <2>1 DEF NoAttempt
<1>9. CASE Crash
  <2>1. \A t \in Task : run'[t] = NoAttempt
    BY <1>9, CrashEffect DEF Rested
  <2> QED
    BY <1>0, <2>1 DEF NoAttempt
<1>10. CASE UNCHANGED vars
  BY <1>10 DEF vars, memory, saves, Aliased, Shared
<1> QED
  BY <1>1, <1>2, <1>3, <1>4, <1>5, <1>6, <1>7, <1>8, <1>9, <1>10
     DEF Next, Body, RefuseBare, Over

LEMMA SingleNext ==
  ASSUME InterruptsAssumption, Types, Rest, Single, [Next]_vars
  PROVE  Single'
<1>0. /\ Len(<<>>) = 0 /\ NullTask \in Writer
      /\ NoSlots.resume = <<>> /\ stored[NullTask] \in Slots /\ pending[NullTask] \in Slots
      /\ \A t \in Task : NullTask \in Writer \ {t}
  BY Sequences_ DEF NoSlots, InterruptsAssumption
<1>1. CASE Client
  <2>1. PICK bare \in Seq(Answer), named \in [Task -> Seq(Answer)] :
          Enter(bare, named) /\ BareKind(bare)
    BY <1>1, ClientEnters
  <2>2. /\ phase = "idle" /\ stored' = stored /\ putting' = putting
        /\ offer' = pending'[NullTask].resume
        /\ pending'[NullTask].resume = IF bare = <<>> THEN stored[NullTask].resume ELSE bare
    BY <2>1, EnterEffect
  <2>3. \A w \in saving' : w.slots = pending'[NullTask]
    BY <2>1, EnterEffect
  <2>4. putting' = {}
    BY <2>2 DEF Rest
  <2>5. Len(bare) <= 1
    <3>1. CASE bare = <<>>
      BY <1>0, <3>1
    <3>2. ASSUME NEW t \in Task, bare = <<NewAnswer(t)>> PROVE Len(bare) <= 1
      BY <3>2
    <3> QED
      BY <2>1, <3>1, <3>2 DEF BareKind
  <2>6. Len(pending'[NullTask].resume) <= 1
    BY <2>2, <2>5 DEF Single
  <2> QED
    BY <2>2, <2>3, <2>4, <2>6 DEF Single
<1>2. ASSUME NEW t \in Task, Recall(t) PROVE Single'
  BY <1>2, RecallEffect DEF memory, saves, Single
<1>3. ASSUME NEW t \in Task, Take(t) PROVE Single'
  <2>1. /\ offer' = <<>> /\ stored' = stored /\ saving' = saving
        /\ pending'[NullTask].resume \in {pending[NullTask].resume, <<>>}
    BY <1>3, TakeEffect
  <2>2. \A q \in putting' : \E p \in putting : \A w \in Writer \ {t} : q.list[w] = p.list[w]
    BY <1>3, TakePuts
  <2>3. \A q \in putting' : Len(q.list[NullTask].resume) <= 1
    BY <1>0, <2>2 DEF Single
  <2> QED
    BY <1>0, <2>1, <2>3 DEF Single
<1>4. ASSUME NEW t \in Task, Interrupt(t) \/ Finish(t) \/ Fail(t) PROVE Single'
  <2>1. PICK slots \in Slots : Ends(t, slots)
    BY <1>4, EndsEffect
  <2>2. Commit(t, slots) /\ offer' = offer /\ t # NullTask
    BY <2>1 DEF Ends, InterruptsAssumption
  <2>3. stored' = stored
    BY <2>2, CommitEffect
  <2>4. CASE /\ putting' = putting \cup {[by |-> t, slots |-> slots, list |-> pending]}
             /\ UNCHANGED <<pending, same, saving>>
    BY <2>2, <2>3, <2>4 DEF Single
  <2>5. CASE putting' = putting /\ same' = FALSE /\ Puts(t, slots, pending)
    <3>1. /\ \A w \in Writer \ {t} : pending'[w] = pending[w]
          /\ \A w \in saving' : w \in saving \/ w.by = t
      BY <2>5, PutsTypes DEF Types
    <3> QED
      BY <1>0, <2>2, <2>3, <2>5, <3>1 DEF Single
  <2> QED
    BY <2>2, <2>4, <2>5, CommitEffect
<1>5. ASSUME NEW t \in Task, Retry(t) PROVE Single'
  BY <1>5, RetryEffect DEF memory, saves, Single
<1>6. ASSUME NEW p \in putting, Put(p) PROVE Single'
  <2>1. /\ p.by \in Task /\ p.slots \in Slots /\ p.list \in Lists
        /\ putting' = putting \ {p} /\ Puts(p.by, p.slots, p.list)
        /\ stored' = stored /\ offer' = offer
    BY <1>6, PutEffect
  <2>2. /\ \A w \in Writer \ {p.by} : pending'[w] = p.list[w]
        /\ \A w \in saving' : w \in saving \/ w.by = p.by
    BY <2>1, PutsTypes
  <2>3. p.by # NullTask
    BY <2>1 DEF InterruptsAssumption
  <2> QED
    BY <1>0, <2>1, <2>2, <2>3 DEF Single
<1>7. ASSUME NEW w \in saving, Save(w) PROVE Single'
  <2>1. /\ w.by \in Writer /\ w.slots \in Slots /\ saving' = saving \ {w}
        /\ \A v \in Writer \ {w.by} : stored'[v] = stored[v]
        /\ stored'[w.by] = Merged(stored[w.by], w.slots)
        /\ UNCHANGED <<pending, offer, putting>>
    BY <1>7, SaveEffect DEF memory
  <2>2. Len(stored'[NullTask].resume) <= 1
    <3>1. CASE w.by = NullTask
      BY <1>0, <2>1, <3>1, MergedSlots DEF Single
    <3>2. CASE w.by # NullTask
      BY <1>0, <2>1, <3>2 DEF Single
    <3> QED
      BY <3>1, <3>2
  <2> QED
    BY <2>1, <2>2 DEF Single
<1>8. CASE Leave
  <2>1. /\ Rested
        /\ \/ stored' = stored
           \/ \A w \in Writer : stored'[w] = Merged(stored[w], pending[w])
    BY <1>8, LeaveEffect
  <2>2. Len(stored'[NullTask].resume) <= 1
    BY <1>0, <2>1, MergedSlots DEF Single
  <2> QED
    BY <1>0, <2>1, <2>2 DEF Single, Rested
<1>9. CASE Crash
  <2>1. Rested /\ stored' = stored
    BY <1>9, CrashEffect
  <2> QED
    BY <1>0, <2>1 DEF Single, Rested
<1>10. CASE UNCHANGED vars
  BY <1>10 DEF vars, memory, saves, Single
<1> QED
  BY <1>1, <1>2, <1>3, <1>4, <1>5, <1>6, <1>7, <1>8, <1>9, <1>10
     DEF Next, Body, RefuseBare, Over

LEMMA CountedStays ==
  ASSUME NEW t \in Task, Counted(t), run'[t] = run[t]
  PROVE  Counted(t)'
BY DEF Counted

LEMMA PairedNext ==
  ASSUME InterruptsAssumption, Types, Single, Paired, [Next]_vars
  PROVE  Paired'
<1>0. ASSUME NEW t \in Task, \A u \in Task \ {t} : run'[u] = run[u], Counted(t)'
      PROVE  Paired'
  BY <1>0, CountedStays DEF Paired
<1>s. \A t \in Task : /\ run[t].list \in Seq(Answer) /\ run[t].got \in Seq(Answer)
                      /\ run[t].count \in Nat /\ Counted(t)
  BY Attempts DEF Types, Paired
<1>1. CASE Client
  <2>1. PICK bare \in Seq(Answer), named \in [Task -> Seq(Answer)] : Enter(bare, named)
    BY <1>1, ClientEnters
  <2>2. /\ \A t \in Task :
             /\ run'[t].got = <<>> /\ run'[t].count = 0 /\ run'[t].wrote = FALSE
             /\ run'[t].st \in {"done", "running"}
        /\ run' \in [Task -> Attempt]
    <3>1. \A t \in Task : Begins(t, named)
      BY <2>1, EnterEffect
    <3>2. run' \in [Task -> Attempt]
      BY <2>1, EnterEffect
    <3> QED
      BY <3>1, <3>2 DEF Begins
  <2>3. \A t \in Task : Len(run'[t].list) \in Nat
    BY <2>2, Attempts
  <2> QED
    BY <2>2, <2>3 DEF Paired, Counted
<1>2. ASSUME NEW t \in Task, Recall(t) PROVE Paired'
  <2>1. /\ \A u \in Task \ {t} : run'[u] = run[u]
        /\ run[t].st = "running" /\ run'[t].st = "running"
        /\ run[t].count < Len(run[t].list) /\ run'[t].list = run[t].list
        /\ run'[t].got = run[t].got \o <<run[t].list[run[t].count + 1]>>
        /\ run'[t].count = run[t].count + 1 /\ run'[t].wrote = TRUE
        /\ run'[t].retries = run[t].retries
    BY <1>2, RecallEffect
  <2>2. Len(run'[t].got) = Len(run[t].got) + 1 /\ Len(run[t].got) \in Nat
        /\ Len(run[t].list) \in Nat
    BY <1>s, <2>1, SMTT(30)
  <2>3. run'[t].got # <<>>
    BY <2>2
  <2>4. Counted(t)'
    <3> SUFFICES ASSUME Careful \/ run[t].retries = 0
                 PROVE  /\ run'[t].count = Len(run'[t].got)
                        /\ Len(run'[t].got) <= Len(run'[t].list)
      BY <2>1, <2>3 DEF Counted
    <3>1. run[t].count = Len(run[t].got)
      BY <1>s, <2>1 DEF Counted
    <3> QED
      BY <2>1, <2>2, <3>1, SMTT(30)
  <2> QED
    BY <1>0, <2>1, <2>4
<1>3. ASSUME NEW t \in Task, Take(t) PROVE Paired'
  <2>1. /\ \A u \in Task \ {t} : run'[u] = run[u]
        /\ run[t].st = "running" /\ run'[t].st = "running"
        /\ run[t].count = Len(run[t].list) /\ run'[t].list = run[t].list \o offer
        /\ run'[t].got = run[t].got \o offer
        /\ run'[t].count = run[t].count + 1 /\ run'[t].wrote = TRUE
        /\ run'[t].retries = run[t].retries /\ offer # <<>>
    BY <1>3, TakeEffect
  <2>2. Len(offer) = 1
    <3>1. offer \in Seq(Answer) /\ Len(offer) <= 1 /\ offer # <<>>
      BY <2>1 DEF Types, Single
    <3>2. Len(offer) \in Nat /\ Len(offer) # 0 /\ Len(offer) <= 1
      BY <3>1
    <3>3. \A n \in Nat : n # 0 /\ n <= 1 => n = 1
      OBVIOUS
    <3> QED
      BY <3>2, <3>3
  <2>3. /\ Len(run'[t].got) = Len(run[t].got) + 1 /\ Len(run[t].got) \in Nat
        /\ Len(run'[t].list) = Len(run[t].list) + 1 /\ Len(run[t].list) \in Nat
    <3>1. offer \in Seq(Answer)
      BY DEF Types
    <3> QED
      <4>1. run[t].list \in Seq(Answer) /\ run[t].got \in Seq(Answer)
        BY <1>s
      <4>2. /\ Len(run[t].got \o offer) = Len(run[t].got) + Len(offer)
            /\ Len(run[t].list \o offer) = Len(run[t].list) + Len(offer)
            /\ Len(run[t].got) \in Nat /\ Len(run[t].list) \in Nat
        BY <3>1, <4>1
      <4> QED
        BY <2>1, <2>2, <4>2
  <2>4. run'[t].got # <<>>
    BY <2>3, SMTT(30)
  <2>5. Counted(t)'
    <3> SUFFICES ASSUME Careful \/ run[t].retries = 0
                 PROVE  /\ run'[t].count = Len(run'[t].got)
                        /\ Len(run'[t].got) <= Len(run'[t].list)
      BY <2>1, <2>4 DEF Counted
    <3>1. run[t].count = Len(run[t].got)
      BY <1>s, <2>1 DEF Counted
    <3> QED
      BY <2>1, <2>3, <3>1
  <2> QED
    BY <1>0, <2>1, <2>5
<1>4. ASSUME NEW t \in Task, Interrupt(t) \/ Finish(t) \/ Fail(t) PROVE Paired'
  <2>1. PICK slots \in Slots : Ends(t, slots)
    BY <1>4, EndsEffect
  <2>2. /\ \A u \in Task \ {t} : run'[u] = run[u]
        /\ run[t].st = "running" /\ run'[t].st \in {"interrupted", "failed", "done"}
        /\ run'[t].got = run[t].got /\ run'[t].list = run[t].list
        /\ run'[t].wrote = run[t].wrote /\ run'[t].retries = run[t].retries
        /\ run'[t].st = "interrupted" => run[t].count >= Len(run[t].list)
    BY <2>1 DEF Ends
  <2>3. Len(run[t].got) \in Nat /\ Len(run[t].list) \in Nat /\ run[t].count \in Nat
    BY <1>s
  <2>4. Counted(t)'
    BY <1>s, <2>2, <2>3 DEF Counted
  <2> QED
    BY <1>0, <2>2, <2>4
<1>5. ASSUME NEW t \in Task, Retry(t) PROVE Paired'
  <2>1. /\ \A u \in Task \ {t} : run'[u] = run[u]
        /\ run[t].st = "running" /\ run'[t].st = "running"
        /\ run'[t].got = <<>> /\ run'[t].list = run[t].list /\ run'[t].wrote = FALSE
        /\ run'[t].count = run[t].count /\ run'[t].retries = run[t].retries + 1
        /\ Careful => run[t].got = <<>>
    BY <1>5, RetryEffect
  <2>2. run[t].retries \in Nat /\ Len(run[t].list) \in Nat /\ Len(<<>>) = 0
    BY <1>s, Attempts DEF Types
  <2>3. Counted(t)'
    BY <1>s, <2>1, <2>2 DEF Counted
  <2> QED
    BY <1>0, <2>1, <2>3
<1>6. ASSUME NEW p \in putting, Put(p) PROVE Paired'
  BY <1>6, PutEffect DEF Paired, Counted
<1>7. ASSUME NEW w \in saving, Save(w) PROVE Paired'
  BY <1>7, SaveEffect DEF Paired, Counted
<1>8. CASE Leave
  <2>1. \A t \in Task : run'[t] = NoAttempt
    BY <1>8, LeaveEffect DEF Rested
  <2> QED
    BY <2>1 DEF NoAttempt, Paired, Counted
<1>9. CASE Crash
  <2>1. \A t \in Task : run'[t] = NoAttempt
    BY <1>9, CrashEffect DEF Rested
  <2> QED
    BY <2>1 DEF NoAttempt, Paired, Counted
<1>10. CASE UNCHANGED vars
  BY <1>10 DEF vars, Paired, Counted
<1> QED
  BY <1>1, <1>2, <1>3, <1>4, <1>5, <1>6, <1>7, <1>8, <1>9, <1>10
     DEF Next, Body, RefuseBare, Over

-------------------------------------------------------------------------------
(* What a step does to the stored answers.                                 *)

LEMMA StoredGrows ==
  ASSUME InterruptsAssumption, Types, Rest, Submitted, Lengthened, [Next]_vars
  PROVE  \A t \in Task : /\ IsPrefix(stored[t].resume, stored'[t].resume)
                         /\ stored[t].output => stored'[t].output
<1>0. \A t \in Task : IsPrefix(stored[t].resume, stored[t].resume)
  BY Sequences_, PrefixFacts
<1>1. CASE stored' = stored
  BY <1>0, <1>1
<1>2. ASSUME NEW w \in saving, Save(w), NEW t \in Task
      PROVE  /\ IsPrefix(stored[t].resume, stored'[t].resume)
             /\ stored[t].output => stored'[t].output
  <2>1. /\ w.by \in Writer /\ w.slots \in Slots
        /\ \A v \in Writer \ {w.by} : stored'[v] = stored[v]
        /\ stored'[w.by] = Merged(stored[w.by], w.slots)
    BY <1>2, SaveEffect
  <2>2. CASE t = w.by
    <3>1. w.slots.resume \in {<<>>, run[t].list}
      <4>1. w.slots = Committed(w.by)
        BY <2>2 DEF Submitted, Ended
      <4> QED
        BY <2>2, <4>1, ResumesKind DEF Committed
    <3>2. /\ stored'[t].resume = IF w.slots.resume # <<>> THEN w.slots.resume
                                 ELSE stored[t].resume
          /\ stored'[t].output = (stored[t].output \/ w.slots.output)
      BY <2>1, <2>2, Sequences_, MergedSlots, SMTT(30)
    <3>3. Long(t)
      BY Active DEF Lengthened, Long
    <3> QED
      BY <1>0, <3>1, <3>2, <3>3 DEF Long
  <2>3. CASE t # w.by
    BY <1>0, <2>1, <2>3, Sequences_
  <2> QED
    BY <2>2, <2>3
<1>3. ASSUME Leave, NEW t \in Task
      PROVE  /\ IsPrefix(stored[t].resume, stored'[t].resume)
             /\ stored[t].output => stored'[t].output
  <2>1. CASE stored' = stored
    BY <1>0, <2>1
  <2>2. CASE /\ durability = "exit"
             /\ \A w \in Writer : stored'[w] = Merged(stored[w], pending[w])
    <3>1. /\ stored'[t].resume = IF pending[t].resume # <<>> THEN pending[t].resume
                                 ELSE stored[t].resume
          /\ stored'[t].output = (stored[t].output \/ pending[t].output)
      BY <2>2, Sequences_, MergedSlots, SMTT(30)
    <3>2. Grown(stored[t].resume, pending[t].resume)
      BY <1>3, <2>2, LeaveEffect DEF Lengthened
    <3> QED
      BY <1>0, <3>1, <3>2 DEF Grown
  <2> QED
    BY <1>3, <2>1, <2>2, LeaveEffect
<1>4. \/ stored' = stored
      \/ \E w \in saving : Save(w)
      \/ Leave
  <2>1. ASSUME NEW t \in Task, Body(t) \/ Fail(t) PROVE stored' = stored
    BY <2>1 DEF Body, Recall, Take, Interrupt, Finish, Fail, Commit
  <2>2. ASSUME NEW t \in Task, Retry(t) PROVE stored' = stored
    BY <2>2 DEF Retry
  <2>3. ASSUME NEW p \in putting, Put(p) PROVE stored' = stored
    BY <2>3 DEF Put
  <2>4. CASE Client
    BY <2>4, ClientEnters DEF Enter
  <2>5. CASE Crash
    BY <2>5 DEF Crash
  <2>6. CASE UNCHANGED vars
    BY <2>6 DEF vars
  <2> QED
    BY <2>1, <2>2, <2>3, <2>4, <2>5, <2>6 DEF Next, RefuseBare, Over
<1> QED
  BY <1>1, <1>2, <1>3, <1>4

LEMMA FirstAnswer ==
  ASSUME NEW s \in Seq(Answer), s # <<>>
  PROVE  s[1] \in Answer /\ s[1].task \in Task /\ s[1].question \in Nat
<1>1. Len(s) \in Nat /\ Len(s) # 0
  OBVIOUS
<1>2. 1 \in 1..Len(s)
  BY <1>1
<1>3. s[1] \in Answer
  BY <1>2
<1> QED
  BY <1>3 DEF Answer

LEMMA LastStays ==
  ASSUME InterruptsAssumption, Types, Types',
         \A t \in Task : /\ IsPrefix(stored[t].resume, stored'[t].resume)
                         /\ stored[t].output => stored'[t].output,
         NEW s \in Seq(Answer), LastOne(s)
  PROVE  LastOne(s)'
<1> SUFFICES ASSUME s # <<>>
             PROVE  /\ s[1].question = Asks[s[1].task] /\ Asks[s[1].task] > 0
                    /\ Len(stored'[s[1].task].resume) + 1 >= Asks[s[1].task]
                    /\ \A t \in Unfinished' \ {s[1].task} : Asks[t] = 0
  BY DEF LastOne
<1>1. s[1] \in Answer /\ s[1].task \in Task
  BY FirstAnswer
<1> DEFINE u == s[1].task
<1>2. /\ s[1].question = Asks[u] /\ Asks[u] > 0 /\ Len(stored[u].resume) + 1 >= Asks[u]
      /\ \A t \in Unfinished \ {u} : Asks[t] = 0
  BY DEF LastOne
<1>3. Unfinished' \subseteq Unfinished
  BY DEF Unfinished
<1>4. stored[u].resume \in Seq(Answer) /\ stored'[u].resume \in Seq(Answer) /\ Asks[u] \in Nat
  <2>1. stored[u] \in Slots /\ stored'[u] \in Slots
    BY <1>1 DEF Types, Lists, Writer
  <2> QED
    BY <1>1, <2>1, Records DEF InterruptsAssumption
<1>5. Len(stored[u].resume) <= Len(stored'[u].resume)
  BY <1>1, <1>4, PrefixFacts
<1>6. Len(stored[u].resume) \in Nat /\ Len(stored'[u].resume) \in Nat
  BY <1>4
<1>7. Len(stored'[u].resume) + 1 >= Asks[u]
  <2> DEFINE a == Len(stored[u].resume)
             b == Len(stored'[u].resume)
             k == Asks[u]
  <2>1. /\ a \in Nat /\ b \in Nat /\ k \in Nat
        /\ a + 1 >= k /\ a <= b
    BY <1>2, <1>4, <1>5, <1>6
  <2> HIDE DEF a, b, k
  <2>2. b + 1 >= k
    BY <2>1
  <2> QED
    BY <2>2 DEF b, k
<1> QED
  BY <1>2, <1>3, <1>7

(* Whatever was last for a task on a list is for the one that runs, and    *)
(* for its next question, once that has used up its own list.              *)
LEMMA Target ==
  ASSUME InterruptsAssumption, Types, Rest, Lengthened, Paired, Careful,
         NEW s \in Seq(Answer), s # <<>>, LastOne(s),
         NEW t \in Task, run[t].st = "running", Len(run[t].got) < Asks[t],
         run[t].count = Len(run[t].list)
  PROVE  /\ s[1] \in Answer /\ s[1].task = t /\ s[1].question = Asks[t]
         /\ Asks[t] = Len(run[t].list) + 1 /\ Len(run[t].got) = Len(run[t].list)
<1>1. /\ s[1] \in Answer /\ s[1].task \in Task
      /\ Asks[t] \in Nat /\ Len(run[t].got) \in Nat /\ Len(run[t].list) \in Nat
      /\ Len(stored[t].resume) \in Nat
  <2>1. s[1] \in Answer /\ s[1].task \in Task
    BY FirstAnswer
  <2>2. run[t].got \in Seq(Answer) /\ run[t].list \in Seq(Answer)
        /\ stored[t].resume \in Seq(Answer)
    BY Sequences_
  <2> QED
    BY <2>1, <2>2, SMTT(30) DEF InterruptsAssumption
<1>2. t \in Unfinished
  BY Active DEF Unfinished, Rest
<1>3. s[1].task = t
  <2>1. Asks[t] # 0
    BY <1>1
  <2> QED
    BY <1>2, <2>1 DEF LastOne
<1>4. s[1].question = Asks[t] /\ Len(stored[t].resume) + 1 >= Asks[t]
  BY <1>3 DEF LastOne
<1>5. run[t].count = Len(run[t].got)
  BY DEF Paired, Counted
<1>6. Len(stored[t].resume) <= Len(run[t].list)
  <2>1. IsPrefix(stored[t].resume, run[t].list)
    BY Active DEF Lengthened
  <2> QED
    BY <2>1, Sequences_, PrefixFacts
<1>7. \A k, g, l, m \in Nat :
        g < k /\ m + 1 >= k /\ g = l /\ m <= l => k = l + 1
  OBVIOUS
<1>8. Len(run[t].got) = Len(run[t].list)
  BY <1>5
<1>9. Asks[t] = Len(run[t].list) + 1
  BY <1>1, <1>4, <1>6, <1>7, <1>8
<1> QED
  BY <1>1, <1>3, <1>4, <1>8, <1>9

-------------------------------------------------------------------------------
(* What the answers mean.                                                  *)

LEMMA MeantFacts ==
  ASSUME NEW s \in Seq(Answer), NEW t \in Task
  PROVE  /\ Meant(<<>>, t)
         /\ \A a \in Answer : Meant(s, t) /\ a.task = t /\ a.question = Len(s) + 1 =>
              Meant(s \o <<a>>, t)
<1>1. Meant(<<>>, t)
  <2>1. DOMAIN <<>> = {}
    OBVIOUS
  <2> QED
    BY <2>1 DEF Meant
<1>2. ASSUME NEW a \in Answer, Meant(s, t), a.task = t, a.question = Len(s) + 1
      PROVE  Meant(s \o <<a>>, t)
  <2> DEFINE n == s \o <<a>>
  <2>1. /\ n \in Seq(Answer) /\ Len(n) = Len(s) + 1 /\ Len(s) \in Nat
        /\ DOMAIN s = 1..Len(s) /\ DOMAIN n = 1..(Len(s) + 1)
        /\ \A i \in 1..Len(s) : n[i] = s[i]
        /\ n[Len(s) + 1] = a
    OBVIOUS
  <2> HIDE DEF n
  <2>2. \A i \in 1..(Len(s) + 1) : i \in 1..Len(s) \/ i = Len(s) + 1
    BY <2>1
  <2>3. Meant(n, t)
    BY <1>2, <2>1, <2>2 DEF Meant
  <2> QED
    BY <2>3 DEF n
<1> QED
  BY <1>1, <1>2

(* The one answer on offer.                                                *)
LEMMA OneOffer ==
  ASSUME InterruptsAssumption, Types, Single, offer # <<>>
  PROVE  offer = <<offer[1]>> /\ offer[1] \in Answer
<1>1. offer \in Seq(Answer) /\ Len(offer) <= 1
  BY DEF Types, Single
<1>2. Len(offer) \in Nat /\ Len(offer) # 0
  BY <1>1
<1>3. \A n \in Nat : n # 0 /\ n <= 1 => n = 1
  OBVIOUS
<1>4. Len(offer) = 1
  BY <1>1, <1>2, <1>3
<1>5. offer[1] \in Answer
  BY <1>1, FirstAnswer
<1> QED
  BY <1>1, <1>4, <1>5

LEMMA PlacesNext ==
  ASSUME InterruptsAssumption, Careful, Structure, Places, Offered, [Next]_vars
  PROVE  Places'
<1>t. Types /\ Rest /\ Submitted /\ Lengthened /\ Aliased /\ Single /\ Paired
  BY DEF Structure
<1>s. /\ \A w \in Writer : /\ stored[w].resume \in Seq(Answer)
                           /\ pending[w].resume \in Seq(Answer)
                           /\ stored[w] \in Slots /\ pending[w] \in Slots
      /\ \A t \in Task : /\ run[t].list \in Seq(Answer) /\ run[t].got \in Seq(Answer)
                         /\ t \in Writer
      /\ Task \subseteq Writer /\ NullTask \notin Task
      /\ \A t \in Task : Meant(<<>>, t)
  BY <1>t, Sequences_, MeantFacts
<1>r. \A t \in Task : Meant(Resumes(t), t)
  BY <1>s, <1>t, ResumesKind DEF Places
<1>1. CASE Client
  <2>1. PICK bare \in Seq(Answer), named \in [Task -> Seq(Answer)] :
          Enter(bare, named) /\ NamedKind(named)
    BY <1>1, <1>t, ClientEnters
  <2>2. /\ phase = "idle" /\ stored' = stored /\ putting' = putting
        /\ invocations < MaxInvocations
    BY <1>t, <2>1, EnterEffect
  <2>3. \A t \in Task : Begins(t, named)
    BY <1>t, <2>1, EnterEffect
  <2>4. putting' = {}
    BY <1>t, <2>2 DEF Rest
  <2>5. ASSUME NEW t \in Task PROVE Meant(stored[t].resume \o named[t], t)
    <3>1. Meant(stored[t].resume, t)
      BY DEF Places
    <3>2. CASE named[t] = <<>>
      BY <1>s, <3>1, <3>2, PrefixFacts
    <3>3. CASE named[t] = <<NewAnswer(t)>> /\ t \in Current
      <4>1. stored[t].interrupt = Len(stored[t].resume) + 1
        BY <3>3 DEF Current
      <4>2. /\ NewAnswer(t) \in Answer
            /\ NewAnswer(t).task = t /\ NewAnswer(t).question = stored[t].interrupt
        BY <1>t, <2>2, NewAnswers
      <4> QED
        BY <1>s, <3>1, <3>3, <4>1, <4>2, MeantFacts
    <3> QED
      BY <2>1, <3>2, <3>3 DEF NamedKind
  <2> QED
    BY <1>s, <2>2, <2>3, <2>4, <2>5 DEF Places, Begins
<1>2. ASSUME NEW t \in Task, Recall(t) PROVE Places'
  <2>1. /\ \A u \in Task \ {t} : run'[u] = run[u]
        /\ run[t].st = "running" /\ run[t].count < Len(run[t].list)
        /\ run'[t].list = run[t].list
        /\ run'[t].got = run[t].got \o <<run[t].list[run[t].count + 1]>>
        /\ UNCHANGED <<stored, pending, putting>>
    BY <1>2, <1>t, RecallEffect DEF memory, saves
  <2>2. run[t].count = Len(run[t].got)
    BY <1>t, <2>1 DEF Paired, Counted
  <2>3. run[t].count + 1 \in 1..Len(run[t].list)
    <3>1. run[t].count \in Nat /\ Len(run[t].list) \in Nat
      BY <1>s, <2>2
    <3>2. \A c, l \in Nat : c < l => c + 1 \in 1..l
      OBVIOUS
    <3> QED
      BY <2>1, <3>1, <3>2
  <2> DEFINE a == run[t].list[run[t].count + 1]
  <2>4. a \in Answer /\ a.task = t /\ a.question = Len(run[t].got) + 1
    <3>1. /\ Meant(run[t].list, t) /\ DOMAIN run[t].list = 1..Len(run[t].list)
          /\ \A i \in 1..Len(run[t].list) : run[t].list[i] \in Answer
      BY <1>s DEF Places
    <3>2. PICK i \in 1..Len(run[t].list) : i = run[t].count + 1
      BY <2>3
    <3>3. /\ run[t].list[i] \in Answer
          /\ run[t].list[i].task = t /\ run[t].list[i].question = i
      BY <3>1 DEF Meant
    <3> QED
      BY <2>2, <3>2, <3>3
  <2>5. Meant(run[t].got \o <<a>>, t)
    <3> HIDE DEF a
    <3> QED
      BY <1>s, <2>4, MeantFacts DEF Places
  <2> QED
    BY <2>1, <2>5 DEF Places
<1>3. ASSUME NEW t \in Task, Take(t) PROVE Places'
  <2>1. /\ \A u \in Task \ {t} : run'[u] = run[u] /\ pending'[u] = pending[u]
        /\ run[t].st = "running" /\ run[t].count = Len(run[t].list)
        /\ Len(run[t].got) < Asks[t] /\ offer # <<>>
        /\ run'[t].list = run[t].list \o offer /\ run'[t].got = run[t].got \o offer
        /\ pending'[t].resume = IF pending[t].resume # <<>> THEN pending[t].resume \o offer
                                ELSE <<>>
        /\ stored' = stored
    BY <1>3, <1>t, TakeEffect
  <2>2. offer = <<offer[1]>> /\ offer[1] \in Answer /\ offer \in Seq(Answer)
    BY <1>t, <2>1, OneOffer DEF Types
  <2>3. /\ offer[1].task = t /\ offer[1].question = Asks[t]
        /\ Asks[t] = Len(run[t].list) + 1 /\ Len(run[t].got) = Len(run[t].list)
    <3>1. LastOne(offer)
      BY DEF Offered
    <3> QED
      BY <1>t, <2>1, <2>2, <3>1, Target
  <2>4. Meant(run[t].list \o offer, t) /\ Meant(run[t].got \o offer, t)
    <3>1. PICK a \in Answer : offer = <<a>> /\ a = offer[1]
      BY <2>2
    <3> QED
      BY <1>s, <2>3, <3>1, MeantFacts DEF Places
  <2>5. ASSUME NEW s, s # <<>> => s = run[t].list
        PROVE  Meant(IF s # <<>> THEN s \o offer ELSE <<>>, t)
    BY <1>s, <2>4, <2>5
  <2>6. Meant(pending'[t].resume, t)
    <3>1. pending[t].resume # <<>> => pending[t].resume = run[t].list
      BY <1>t, <2>1 DEF Aliased, Shared
    <3> QED
      BY <2>1, <2>5, <3>1
  <2>7. ASSUME NEW q \in putting', NEW u \in Task PROVE Meant(q.list[u].resume, u)
    <3>1. PICK p \in putting :
            /\ \A w \in Writer \ {t} : q.list[w] = p.list[w]
            /\ q.list[t].resume =
                 IF p.list[t].resume # <<>> THEN p.list[t].resume \o offer ELSE <<>>
      BY <1>3, <1>t, TakePuts
    <3>2. CASE u = t
      <4>1. p.list[t].resume # <<>> => p.list[t].resume = run[t].list
        BY <1>t, <2>1 DEF Aliased, Shared
      <4> QED
        BY <2>5, <3>1, <3>2, <4>1
    <3>3. CASE u # t
      BY <1>s, <3>1, <3>3 DEF Places
    <3> QED
      BY <3>2, <3>3
  <2> QED
    BY <2>1, <2>4, <2>6, <2>7 DEF Places
<1>4. ASSUME NEW t \in Task, Interrupt(t) \/ Finish(t) \/ Fail(t) PROVE Places'
  <2>1. PICK slots \in Slots : Ends(t, slots)
    BY <1>4, <1>t, EndsEffect
  <2>2. /\ \A u \in Task \ {t} : run'[u] = run[u]
        /\ run'[t].list = run[t].list /\ run'[t].got = run[t].got
        /\ Commit(t, slots) /\ Meant(slots.resume, t)
    BY <1>r, <2>1 DEF Ends
  <2>3. stored' = stored
    BY <2>2, CommitEffect
  <2>4. CASE /\ putting' = putting \cup {[by |-> t, slots |-> slots, list |-> pending]}
             /\ UNCHANGED <<pending, same, saving>>
    BY <2>2, <2>3, <2>4 DEF Places
  <2>5. CASE putting' = putting /\ same' = FALSE /\ Puts(t, slots, pending)
    <3>1. pending'[t] = slots /\ \A w \in Writer \ {t} : pending'[w] = pending[w]
      BY <1>t, <2>5, PutsTypes DEF Types
    <3> QED
      BY <1>s, <2>2, <2>3, <2>5, <3>1 DEF Places
  <2> QED
    BY <2>2, <2>4, <2>5, CommitEffect
<1>5. ASSUME NEW t \in Task, Retry(t) PROVE Places'
  <2>1. /\ \A u \in Task \ {t} : run'[u] = run[u]
        /\ run'[t].got = <<>> /\ run'[t].list = run[t].list
        /\ UNCHANGED <<stored, pending, putting>>
    BY <1>5, <1>t, RetryEffect DEF memory, saves
  <2> QED
    BY <1>s, <2>1 DEF Places
<1>6. ASSUME NEW p \in putting, Put(p) PROVE Places'
  <2>1. /\ p.by \in Task /\ p.slots \in Slots /\ p.list \in Lists
        /\ putting' = putting \ {p} /\ Puts(p.by, p.slots, p.list)
        /\ UNCHANGED <<stored, run>>
    BY <1>6, <1>t, PutEffect
  <2>2. pending'[p.by] = p.slots /\ \A w \in Writer \ {p.by} : pending'[w] = p.list[w]
    BY <1>t, <2>1, PutsTypes
  <2>3. Meant(p.slots.resume, p.by)
    <3>1. p.slots = Committed(p.by)
      BY <1>t DEF Submitted, Ended
    <3> QED
      BY <1>r, <2>1, <3>1 DEF Committed
  <2>4. ASSUME NEW u \in Task PROVE Meant(pending'[u].resume, u)
    <3>1. CASE u = p.by
      BY <2>2, <2>3, <3>1
    <3>2. CASE u # p.by
      BY <1>s, <2>2, <3>2 DEF Places
    <3> QED
      BY <3>1, <3>2
  <2> QED
    BY <2>1, <2>4 DEF Places
<1>7. ASSUME NEW w \in saving, Save(w) PROVE Places'
  <2>1. /\ w.by \in Writer /\ w.slots \in Slots
        /\ \A v \in Writer \ {w.by} : stored'[v] = stored[v]
        /\ stored'[w.by] = Merged(stored[w.by], w.slots)
        /\ UNCHANGED <<run, pending, putting>>
    BY <1>7, <1>t, SaveEffect DEF memory
  <2>2. ASSUME NEW u \in Task PROVE Meant(stored'[u].resume, u)
    <3>1. CASE u = w.by
      <4>1. w.slots = Committed(w.by)
        BY <1>t, <3>1 DEF Submitted, Ended
      <4>2. Meant(w.slots.resume, u)
        BY <1>r, <3>1, <4>1 DEF Committed
      <4>3. stored'[u].resume = IF w.slots.resume # <<>> THEN w.slots.resume
                                ELSE stored[u].resume
        BY <1>s, <2>1, <3>1, MergedSlots
      <4> QED
        BY <4>2, <4>3 DEF Places
    <3>2. CASE u # w.by
      BY <1>s, <2>1, <3>2 DEF Places
    <3> QED
      BY <3>1, <3>2
  <2> QED
    BY <2>1, <2>2 DEF Places
<1>8. ASSUME Rested, \A t \in Task : Meant(stored'[t].resume, t)
      PROVE  Places'
  <2>1. \A t \in Task : /\ run'[t].list = <<>> /\ run'[t].got = <<>>
                        /\ pending'[t].resume = <<>>
    BY <1>8, <1>s DEF Rested, NoAttempt, NoSlots
  <2>2. putting' = {}
    BY <1>8 DEF Rested
  <2> QED
    BY <1>8, <1>s, <2>1, <2>2 DEF Places
<1>9. CASE Leave
  <2>1. /\ Rested
        /\ \/ stored' = stored
           \/ \A w \in Writer : stored'[w] = Merged(stored[w], pending[w])
    BY <1>9, <1>t, LeaveEffect
  <2>2. \A t \in Task : Meant(stored'[t].resume, t)
    <3>1. CASE stored' = stored
      BY <3>1 DEF Places
    <3>2. CASE \A w \in Writer : stored'[w] = Merged(stored[w], pending[w])
      <4>1. \A t \in Task : stored'[t].resume = IF pending[t].resume # <<>>
                                                THEN pending[t].resume ELSE stored[t].resume
        BY <1>s, <3>2, MergedSlots
      <4> QED
        BY <4>1 DEF Places
    <3> QED
      BY <2>1, <3>1, <3>2
  <2> QED
    BY <1>8, <2>1, <2>2
<1>10. CASE Crash
  <2>1. Rested /\ stored' = stored
    BY <1>10, <1>t, CrashEffect
  <2> QED
    BY <1>8, <2>1 DEF Places
<1>11. CASE UNCHANGED vars
  BY <1>11 DEF vars, memory, saves, Places, Meant
<1> QED
  BY <1>1, <1>2, <1>3, <1>4, <1>5, <1>6, <1>7, <1>9, <1>10, <1>11
     DEF Next, Body, RefuseBare, Over

LEMMA OfferedNext ==
  ASSUME InterruptsAssumption, Careful, Structure, Offered, Types', [Next]_vars
  PROVE  Offered'
<1>t. Types /\ Rest /\ Submitted /\ Lengthened /\ Aliased /\ Single /\ Paired
  BY DEF Structure
<1>s. /\ \A w \in Writer : /\ stored[w].resume \in Seq(Answer)
                           /\ pending[w].resume \in Seq(Answer)
                           /\ stored[w] \in Slots /\ pending[w] \in Slots
      /\ \A p \in putting : p.list[NullTask].resume \in Seq(Answer)
      /\ \A w \in saving : w.slots \in Slots /\ w.slots.resume \in Seq(Answer)
      /\ offer \in Seq(Answer) /\ <<>> \in Seq(Answer)
      /\ Task \subseteq Writer /\ NullTask \in Writer /\ NullTask \notin Task
      /\ \A t \in Task : NullTask \in Writer \ {t}
  <2>1. \A w \in saving : w.slots \in Slots
    BY <1>t DEF Types
  <2>2. \A w \in saving : w.slots.resume \in Seq(Answer)
    BY <2>1, Records
  <2> QED
    BY <1>t, <2>1, <2>2, Sequences_
<1> DEFINE Then(s) ==
             s # <<>> =>
               /\ s[1].question = Asks[s[1].task] /\ Asks[s[1].task] > 0
               /\ Len(stored'[s[1].task].resume) + 1 >= Asks[s[1].task]
               /\ \A t \in Unfinished' \ {s[1].task} : Asks[t] = 0
<1>o. Offered' <=> /\ Then(stored'[NullTask].resume) /\ Then(pending'[NullTask].resume)
                   /\ Then(offer')
                   /\ \A p \in putting' : Then(p.list[NullTask].resume)
                   /\ \A w \in saving' : w.by = NullTask => Then(w.slots.resume)
  BY DEF Offered, LastOne
<1>a. ASSUME NEW s \in Seq(Answer), LastOne(s) PROVE Then(s)
  <2>1. LastOne(s)'
    BY <1>t, <1>a, StoredGrows, LastStays
  <2> QED
    BY <2>1 DEF LastOne
<1>n. Then(<<>>)
  OBVIOUS
<1> HIDE DEF Then
<1>k. /\ Then(stored[NullTask].resume) /\ Then(pending[NullTask].resume) /\ Then(offer)
      /\ \A p \in putting : Then(p.list[NullTask].resume)
      /\ \A w \in saving : w.by = NullTask => Then(w.slots.resume)
  BY <1>a, <1>s DEF Offered
<1>1. CASE Client
  <2>1. PICK bare \in Seq(Answer), named \in [Task -> Seq(Answer)] :
          Enter(bare, named) /\ BareKind(bare)
    BY <1>1, <1>t, ClientEnters
  <2>2. /\ phase = "idle" /\ stored' = stored /\ putting' = putting
        /\ offer' = pending'[NullTask].resume /\ invocations < MaxInvocations
        /\ pending'[NullTask].resume = IF bare = <<>> THEN stored[NullTask].resume ELSE bare
    BY <1>t, <2>1, EnterEffect
  <2>3. \A w \in saving' : w.slots = pending'[NullTask]
    BY <1>t, <2>1, EnterEffect
  <2>4. putting' = {}
    BY <1>t, <2>2 DEF Rest
  <2>5. ASSUME NEW t \in Task, bare = <<NewAnswer(t)>>, MayReply(t) PROVE LastOne(bare)
    <3>1. bare[1].task = t /\ bare[1].question = stored[t].interrupt
      BY <1>t, <2>2, <2>5, NewAnswers
    <3>2. /\ t \in Current /\ stored[t].interrupt = Asks[t]
          /\ \A u \in Unfinished \ {t} : Asks[u] = 0
      BY <2>5 DEF MayReply
    <3>3. Asks[t] = Len(stored[t].resume) + 1
      BY <3>2 DEF Current
    <3>4. Len(stored[t].resume) \in Nat
      BY <1>s
    <3> QED
      BY <3>1, <3>2, <3>3, <3>4 DEF LastOne
  <2>6. bare # <<>> => Then(bare)
    BY <1>a, <2>1, <2>5 DEF BareKind
  <2> QED
    BY <1>o, <1>k, <2>2, <2>3, <2>4, <2>6
<1>2. ASSUME NEW t \in Task, Recall(t) PROVE Offered'
  BY <1>2, <1>t, <1>o, <1>k, RecallEffect DEF memory, saves
<1>3. ASSUME NEW t \in Task, Take(t) PROVE Offered'
  <2>1. /\ offer' = <<>> /\ stored' = stored /\ saving' = saving
        /\ pending'[NullTask].resume \in {pending[NullTask].resume, <<>>}
    BY <1>3, <1>t, TakeEffect
  <2>2. \A q \in putting' : \E p \in putting : \A w \in Writer \ {t} : q.list[w] = p.list[w]
    BY <1>3, <1>t, TakePuts
  <2>3. \A q \in putting' : Then(q.list[NullTask].resume)
    BY <1>s, <1>k, <2>2
  <2>4. Then(pending'[NullTask].resume)
    BY <1>k, <1>n, <2>1
  <2> QED
    BY <1>o, <1>k, <1>n, <2>1, <2>3, <2>4
<1>4. ASSUME NEW t \in Task, Interrupt(t) \/ Finish(t) \/ Fail(t) PROVE Offered'
  <2>1. PICK slots \in Slots : Ends(t, slots)
    BY <1>4, <1>t, EndsEffect
  <2>2. Commit(t, slots) /\ offer' = offer /\ t # NullTask
    BY <2>1, <1>s DEF Ends
  <2>3. stored' = stored
    BY <2>2, CommitEffect
  <2>4. CASE /\ putting' = putting \cup {[by |-> t, slots |-> slots, list |-> pending]}
             /\ UNCHANGED <<pending, same, saving>>
    <3>1. \A p \in putting' : Then(p.list[NullTask].resume)
      BY <1>k, <2>4
    <3> QED
      BY <1>o, <1>k, <2>2, <2>3, <2>4, <3>1
  <2>5. CASE putting' = putting /\ same' = FALSE /\ Puts(t, slots, pending)
    <3>1. /\ \A w \in Writer \ {t} : pending'[w] = pending[w]
          /\ \A w \in saving' : w \in saving \/ w.by = t
      BY <1>t, <2>5, PutsTypes DEF Types
    <3> QED
      BY <1>o, <1>k, <1>s, <2>2, <2>3, <2>5, <3>1
  <2> QED
    BY <2>2, <2>4, <2>5, CommitEffect
<1>5. ASSUME NEW t \in Task, Retry(t) PROVE Offered'
  BY <1>5, <1>t, <1>o, <1>k, RetryEffect DEF memory, saves
<1>6. ASSUME NEW p \in putting, Put(p) PROVE Offered'
  <2>1. /\ p.by \in Task /\ p.slots \in Slots /\ p.list \in Lists
        /\ putting' = putting \ {p} /\ Puts(p.by, p.slots, p.list)
        /\ stored' = stored /\ offer' = offer
    BY <1>6, <1>t, PutEffect
  <2>2. /\ \A w \in Writer \ {p.by} : pending'[w] = p.list[w]
        /\ \A w \in saving' : w \in saving \/ w.by = p.by
    BY <1>t, <2>1, PutsTypes
  <2>3. p.by # NullTask /\ NullTask \in Writer \ {p.by}
    BY <1>s, <2>1
  <2> QED
    BY <1>o, <1>k, <2>1, <2>2, <2>3
<1>7. ASSUME NEW w \in saving, Save(w) PROVE Offered'
  <2>1. /\ w.by \in Writer /\ w.slots \in Slots /\ saving' = saving \ {w}
        /\ \A v \in Writer \ {w.by} : stored'[v] = stored[v]
        /\ stored'[w.by] = Merged(stored[w.by], w.slots)
        /\ UNCHANGED <<pending, offer, putting>>
    BY <1>7, <1>t, SaveEffect DEF memory
  <2>2. Then(stored'[NullTask].resume)
    <3>1. CASE w.by = NullTask
      BY <1>s, <1>k, <2>1, <3>1, MergedSlots
    <3>2. CASE w.by # NullTask
      BY <1>s, <1>k, <2>1, <3>2
    <3> QED
      BY <3>1, <3>2
  <2> QED
    BY <1>o, <1>k, <2>1, <2>2
<1>8. ASSUME Rested, Then(stored'[NullTask].resume)
      PROVE  Offered'
  <2>1. pending'[NullTask].resume = <<>>
    BY <1>8, <1>s DEF Rested, NoSlots
  <2>2. putting' = {} /\ saving' = {} /\ offer' = <<>>
    BY <1>8 DEF Rested
  <2> QED
    BY <1>8, <1>o, <1>n, <2>1, <2>2
<1>9. CASE Leave
  <2>1. /\ Rested
        /\ \/ stored' = stored
           \/ \A w \in Writer : stored'[w] = Merged(stored[w], pending[w])
    BY <1>9, <1>t, LeaveEffect
  <2>2. Then(stored'[NullTask].resume)
    <3>1. CASE stored' = stored
      BY <1>k, <3>1
    <3>2. CASE \A w \in Writer : stored'[w] = Merged(stored[w], pending[w])
      BY <1>s, <1>k, <3>2, MergedSlots, SMTT(30)
    <3> QED
      BY <2>1, <3>1, <3>2
  <2> QED
    BY <1>8, <2>1, <2>2
<1>10. CASE Crash
  <2>1. Rested /\ stored' = stored
    BY <1>10, <1>t, CrashEffect
  <2> QED
    BY <1>8, <1>k, <2>1
<1>11. CASE UNCHANGED vars
  BY <1>11, <1>o, <1>k DEF vars, memory, saves
<1> QED
  BY <1>1, <1>2, <1>3, <1>4, <1>5, <1>6, <1>7, <1>9, <1>10, <1>11
     DEF Next, Body, RefuseBare, Over

LEMMA ConsumedNext ==
  ASSUME InterruptsAssumption, Careful, Structure, Offered, Consumed, [Next]_vars
  PROVE  Consumed'
<1>t. Types /\ Rest /\ Submitted /\ Lengthened /\ Aliased /\ Single /\ Paired
  BY DEF Structure
<1>s. /\ \A w \in Writer : stored[w].resume \in Seq(Answer) /\ stored[w] \in Slots
      /\ \A t \in Task : run[t].list \in Seq(Answer) /\ Len(run[t].list) \in Nat
      /\ \A w \in saving : w.slots \in Slots /\ w.slots.resume \in Seq(Answer)
      /\ offer \in Seq(Answer)
      /\ NullTask \in Writer /\ NullTask \notin Task
  <2>1. \A w \in saving : w.slots \in Slots
    BY <1>t DEF Types
  <2>2. \A w \in saving : w.slots.resume \in Seq(Answer)
    BY <2>1, Records
  <2> QED
    BY <1>t, <2>1, <2>2, Sequences_
<1> DEFINE Then(s) ==
             s # <<>> /\ phase' = "running" =>
               offer' # <<>> \/ Len(run'[s[1].task].list) >= Asks[s[1].task]
<1>o. Consumed' <=> /\ Then(stored'[NullTask].resume)
                    /\ \A w \in saving' : w.by = NullTask => Then(w.slots.resume)
  BY DEF Consumed, Used
<1>a. ASSUME phase' = phase, offer' = offer, \A t \in Task : run'[t].list = run[t].list
      PROVE  /\ Then(stored[NullTask].resume)
             /\ \A w \in saving : w.by = NullTask => Then(w.slots.resume)
  <2>1. ASSUME NEW s \in Seq(Answer), Used(s) PROVE Then(s)
    <3>1. CASE s = <<>>
      BY <3>1
    <3>2. CASE s # <<>>
      <4>1. s[1].task \in Task
        BY <3>2, FirstAnswer
      <4> QED
        BY <1>a, <2>1, <4>1 DEF Used
    <3> QED
      BY <3>1, <3>2
  <2> HIDE DEF Then
  <2> QED
    BY <1>s, <2>1 DEF Consumed
<1>n. phase' # "running" => Consumed'
  BY <1>o
<1>1. CASE Client
  <2>1. PICK bare \in Seq(Answer), named \in [Task -> Seq(Answer)] : Enter(bare, named)
    BY <1>1, <1>t, ClientEnters
  <2>2. /\ stored' = stored /\ offer' = pending'[NullTask].resume
        /\ pending'[NullTask].resume = IF bare = <<>> THEN stored[NullTask].resume ELSE bare
    BY <1>t, <2>1, EnterEffect
  <2>3. \A w \in saving' : w.slots = pending'[NullTask]
    BY <1>t, <2>1, EnterEffect
  <2> QED
    BY <1>o, <2>2, <2>3
<1>2. ASSUME NEW t \in Task, Recall(t) PROVE Consumed'
  <2>1. /\ phase' = phase /\ offer' = offer /\ stored' = stored /\ saving' = saving
        /\ \A u \in Task : run'[u].list = run[u].list
    BY <1>2, <1>t, RecallEffect DEF memory, saves
  <2> HIDE DEF Then
  <2> QED
    BY <1>o, <1>a, <2>1
<1>3. ASSUME NEW t \in Task, Take(t) PROVE Consumed'
  <2>1. /\ run[t].st = "running" /\ run[t].count = Len(run[t].list)
        /\ Len(run[t].got) < Asks[t] /\ offer # <<>>
        /\ run'[t].list = run[t].list \o offer
        /\ stored' = stored /\ saving' = saving
    BY <1>3, <1>t, TakeEffect
  <2>2. Len(run'[t].list) = Len(run[t].list) + 1
    <3>1. PICK a \in Answer : offer = <<a>>
      BY <1>t, <2>1, OneOffer
    <3> QED
      BY <1>s, <2>1, <3>1
  <2>3. ASSUME NEW s \in Seq(Answer), LastOne(s) PROVE Then(s)
    <3> SUFFICES ASSUME s # <<>>
                 PROVE  Len(run'[s[1].task].list) >= Asks[s[1].task]
      OBVIOUS
    <3>1. s[1].task = t /\ Asks[t] = Len(run[t].list) + 1
      BY <1>t, <2>1, <2>3, Target
    <3> QED
      BY <1>s, <2>2, <3>1
  <2> HIDE DEF Then
  <2> QED
    BY <1>o, <1>s, <2>1, <2>3 DEF Offered
<1>4. ASSUME NEW t \in Task, Interrupt(t) \/ Finish(t) \/ Fail(t) PROVE Consumed'
  <2>1. PICK slots \in Slots : Ends(t, slots)
    BY <1>4, <1>t, EndsEffect
  <2>2. /\ Commit(t, slots) /\ offer' = offer /\ t # NullTask
        /\ \A u \in Task : run'[u].list = run[u].list
    BY <2>1, <1>s DEF Ends
  <2>3. stored' = stored /\ phase' = phase
    BY <2>2, CommitEffect
  <2>4. \A w \in saving' : w \in saving \/ w.by = t
    <3>1. CASE UNCHANGED <<pending, same, saving>>
      BY <3>1
    <3>2. CASE Puts(t, slots, pending)
      BY <1>t, <3>2, PutsTypes DEF Types
    <3> QED
      BY <2>2, <3>1, <3>2, CommitEffect
  <2> HIDE DEF Then
  <2> QED
    BY <1>o, <1>a, <2>2, <2>3, <2>4
<1>5. ASSUME NEW t \in Task, Retry(t) PROVE Consumed'
  <2>1. /\ phase' = phase /\ offer' = offer /\ stored' = stored /\ saving' = saving
        /\ \A u \in Task : run'[u].list = run[u].list
    BY <1>5, <1>t, RetryEffect DEF memory, saves
  <2> HIDE DEF Then
  <2> QED
    BY <1>o, <1>a, <2>1
<1>6. ASSUME NEW p \in putting, Put(p) PROVE Consumed'
  <2>1. /\ p.by \in Task /\ p.slots \in Slots /\ p.list \in Lists
        /\ Puts(p.by, p.slots, p.list)
        /\ stored' = stored /\ offer' = offer /\ run' = run /\ phase' = phase
    BY <1>6, <1>t, PutEffect
  <2>2. \A w \in saving' : w \in saving \/ w.by = p.by
    BY <1>t, <2>1, PutsTypes
  <2>3. p.by # NullTask
    BY <1>s, <2>1
  <2> HIDE DEF Then
  <2> QED
    BY <1>o, <1>a, <2>1, <2>2, <2>3
<1>7. ASSUME NEW w \in saving, Save(w) PROVE Consumed'
  <2>1. /\ w.by \in Writer /\ w.slots \in Slots /\ saving' = saving \ {w}
        /\ \A v \in Writer \ {w.by} : stored'[v] = stored[v]
        /\ stored'[w.by] = Merged(stored[w.by], w.slots)
        /\ phase' = phase /\ offer' = offer /\ run' = run
    BY <1>7, <1>t, SaveEffect DEF memory
  <2>2. /\ Then(stored[NullTask].resume)
        /\ \A v \in saving : v.by = NullTask => Then(v.slots.resume)
    BY <1>a, <2>1
  <2> HIDE DEF Then
  <2>3. Then(stored'[NullTask].resume)
    <3>1. CASE w.by = NullTask
      BY <1>s, <2>1, <2>2, <3>1, MergedSlots, SMTT(30)
    <3>2. CASE w.by # NullTask
      BY <1>s, <2>1, <2>2, <3>2
    <3> QED
      BY <3>1, <3>2
  <2> QED
    BY <1>o, <2>1, <2>2, <2>3
<1>8. CASE Leave
  BY <1>8, <1>t, <1>n, LeaveEffect
<1>9. CASE Crash
  BY <1>9, <1>t, <1>n, CrashEffect
<1>10. CASE UNCHANGED vars
  BY <1>10 DEF vars, memory, saves, Consumed, Used
<1> QED
  BY <1>1, <1>2, <1>3, <1>4, <1>5, <1>6, <1>7, <1>8, <1>9, <1>10
     DEF Next, Body, RefuseBare, Over

-------------------------------------------------------------------------------
(* The invariant.                                                          *)

LEMMA Start ==
  ASSUME InterruptsAssumption, Init
  PROVE  IInv
<1>1. /\ \A w \in Writer : stored[w] = NoSlots /\ pending[w] = NoSlots
      /\ stored \in Lists /\ pending \in Lists /\ run \in [Task -> Attempt]
      /\ \A t \in Task : run[t] = NoAttempt
      /\ run = [t \in Task |-> NoAttempt]
  BY Records, Attempts DEF Init, Lists
<1>2. /\ offer = <<>> /\ same = TRUE /\ phase = "idle" /\ durability \in Durabilities
      /\ putting = {} /\ saving = {} /\ invocations = 0 /\ failures = 0 /\ crashes = 0
      /\ {MaxInvocations, MaxFailures, MaxRetries, MaxCrashes} \subseteq Nat
  BY DEF Init, InterruptsAssumption
<1>3. NullTask \in Writer /\ Task \subseteq Writer /\ <<>> \in Seq(Answer)
  BY DEF Writer
<1>4. Types
  BY <1>1, <1>2, <1>3 DEF Types
<1>5. Structure
  BY <1>1, <1>2, <1>3, <1>4
     DEF Structure, Rest, Submitted, Lengthened, Aliased, Single, Paired, Counted,
         NoAttempt, NoSlots
<1>6. Meaning
  <2>1. \A t \in Task : Meant(<<>>, t)
    BY <1>3, MeantFacts
  <2>2. Places
    BY <1>1, <1>2, <1>3, <2>1 DEF Places, NoAttempt, NoSlots
  <2>3. Offered /\ Consumed
    BY <1>1, <1>2, <1>3 DEF Offered, LastOne, Consumed, Used, NoSlots
  <2> QED
    BY <2>2, <2>3 DEF Meaning
<1> QED
  BY <1>5, <1>6 DEF IInv

LEMMA Step ==
  ASSUME InterruptsAssumption, IInv, [Next]_vars
  PROVE  IInv'
<1>1. Structure
  BY DEF IInv
<1>2. Types /\ Rest /\ Submitted /\ Lengthened /\ Aliased /\ Single /\ Paired
  BY <1>1 DEF Structure
<1>3. Types'
  BY <1>2, TypesNext
<1>4. Structure'
  BY <1>2, <1>3, RestNext, SubmittedNext, LengthenedNext, AliasedNext, SingleNext,
     PairedNext DEF Structure
<1>5. ASSUME Careful PROVE Meaning'
  <2>1. Places /\ Offered /\ Consumed
    BY <1>5 DEF IInv, Meaning
  <2> QED
    BY <1>1, <1>3, <1>5, <2>1, PlacesNext, OfferedNext, ConsumedNext DEF Meaning
<1> QED
  BY <1>4, <1>5 DEF IInv

(* The inductive invariant: the lists of answers agree with one another,   *)
(* whatever fails, dies or overtakes in put_writes; and for Careful        *)
(* clients and nodes each answer stands where its question is asked.       *)
THEOREM Inductive == Spec => []IInv
<1>1. Init => IInv
  BY InterruptsAssumption, Start
<1>2. IInv /\ [Next]_vars => IInv'
  BY InterruptsAssumption, Step
<1> QED
  BY <1>1, <1>2, PTL DEF Spec

(* The variables keep their types: among them, what put_writes has read    *)
(* and _scratchpad holds are lists of answers, however often they grow.    *)
THEOREM TypeCorrect == Spec => []TypeOK
<1>1. IInv => TypeOK
  BY DEF IInv, Structure, Types, Lists, TypeOK
<1> QED
  BY <1>1, Inductive, PTL

(* Every answer is returned to the question it was given for, whatever is  *)
(* retried, fails or dies between the question and the answer: interrupt() *)
(* pairs by position, and the lists it reads begin with what was stored.   *)
THEOREM AnswersReach ==
  ASSUME Careful
  PROVE  Spec => []AnswersReachTarget
<1>1. IInv => AnswersReachTarget
  BY DEF IInv, Meaning, Places, Meant, AnswersReachTarget
<1> QED
  BY <1>1, Inductive, PTL

(* A step in which a task raises GraphInterrupt is its own.                *)
LEMMA Raises ==
  ASSUME InterruptsAssumption, Types, Rest, [Next]_vars,
         NEW t \in Task, run[t].st = "running", run'[t].st = "interrupted"
  PROVE  \E slots \in Slots : Ends(t, slots)
<1>0. phase = "running"
  BY Active
<1>1. CASE Client
  <2>1. PICK bare \in Seq(Answer), named \in [Task -> Seq(Answer)] : Enter(bare, named)
    BY <1>1, ClientEnters
  <2> QED
    BY <1>0, <2>1, EnterEffect
<1>2. ASSUME NEW u \in Task, Recall(u) PROVE FALSE
  BY <1>2, RecallEffect
<1>3. ASSUME NEW u \in Task, Take(u) PROVE FALSE
  BY <1>3, TakeEffect
<1>4. ASSUME NEW u \in Task, Interrupt(u) \/ Finish(u) \/ Fail(u)
      PROVE  \E slots \in Slots : Ends(t, slots)
  <2>1. PICK slots \in Slots : Ends(u, slots)
    BY <1>4, EndsEffect
  <2>2. u = t
    BY <2>1 DEF Ends
  <2> QED
    BY <2>1, <2>2
<1>5. ASSUME NEW u \in Task, Retry(u) PROVE FALSE
  BY <1>5, RetryEffect
<1>6. ASSUME NEW p \in putting, Put(p) PROVE FALSE
  BY <1>6, PutEffect
<1>7. ASSUME NEW w \in saving, Save(w) PROVE FALSE
  BY <1>7, SaveEffect
<1>8. ASSUME Leave \/ Crash PROVE FALSE
  <2>1. run'[t] = NoAttempt
    BY <1>8, LeaveEffect, CrashEffect DEF Rested
  <2> QED
    BY <2>1 DEF NoAttempt
<1>9. CASE UNCHANGED vars
  BY <1>9 DEF vars
<1> QED
  BY <1>1, <1>2, <1>3, <1>4, <1>5, <1>6, <1>7, <1>8, <1>9 DEF Next, Body, RefuseBare, Over

(* A durable answer stays, and its question is not asked again, whatever   *)
(* failed or crashed since: an attempt begins with what is stored, asks    *)
(* only when it has returned all of its list, and commit saves the list.   *)
THEOREM NotAskedTwice ==
  ASSUME Careful
  PROVE  Spec => NotAskedAgain
<1> DEFINE Durable(t) ==
             /\ IsPrefix(stored[t].resume, stored'[t].resume)
             /\ run[t].st = "running" /\ run'[t].st = "interrupted" =>
                  /\ Len(run[t].got) >= Len(stored[t].resume)
                  /\ \A i \in DOMAIN stored[NullTask].resume :
                       stored[NullTask].resume[i].task = t =>
                         stored[NullTask].resume[i].question <= Len(run[t].got)
<1>1. ASSUME IInv, Next, NEW t \in Task PROVE Durable(t)
  <2>0. /\ Types /\ Rest /\ Submitted /\ Lengthened /\ Single /\ Paired
        /\ Offered /\ Consumed
    BY <1>1 DEF IInv, Structure, Meaning
  <2>1. IsPrefix(stored[t].resume, stored'[t].resume)
    BY <1>1, <2>0, InterruptsAssumption, StoredGrows
  <2>2. ASSUME run[t].st = "running", run'[t].st = "interrupted"
        PROVE  /\ Len(run[t].got) >= Len(stored[t].resume)
               /\ \A i \in DOMAIN stored[NullTask].resume :
                    stored[NullTask].resume[i].task = t =>
                      stored[NullTask].resume[i].question <= Len(run[t].got)
    <3>1. PICK slots \in Slots : Ends(t, slots)
      BY <1>1, <2>0, <2>2, InterruptsAssumption, Raises
    <3>2. offer = <<>> /\ run[t].count >= Len(run[t].list)
      BY <2>2, <3>1 DEF Ends
    <3>3. /\ run[t].list \in Seq(Answer) /\ stored[t].resume \in Seq(Answer)
          /\ stored[NullTask].resume \in Seq(Answer)
          /\ Len(run[t].list) \in Nat /\ Len(run[t].got) \in Nat
          /\ Len(stored[t].resume) \in Nat /\ Len(stored[NullTask].resume) \in Nat
      <4>1. /\ run[t].list \in Seq(Answer) /\ run[t].got \in Seq(Answer)
            /\ stored[t].resume \in Seq(Answer) /\ stored[NullTask].resume \in Seq(Answer)
        BY <2>0, InterruptsAssumption, Sequences_
      <4> QED
        BY <4>1
    <3>4. run[t].count = Len(run[t].got) /\ Len(run[t].got) <= Len(run[t].list)
      BY <2>0, <2>2 DEF Paired, Counted
    <3>5. Len(run[t].got) = Len(run[t].list)
      BY <3>2, <3>3, <3>4
    <3>6. Len(stored[t].resume) <= Len(run[t].list)
      <4>1. phase = "running"
        BY <2>0, <2>2, InterruptsAssumption, Active
      <4>2. IsPrefix(stored[t].resume, run[t].list)
        BY <2>0, <2>2, <4>1 DEF Lengthened
      <4> QED
        BY <3>3, <4>2, PrefixFacts
    <3>7. ASSUME NEW i \in DOMAIN stored[NullTask].resume,
                 stored[NullTask].resume[i].task = t
          PROVE  stored[NullTask].resume[i].question <= Len(run[t].got)
      <4> DEFINE s == stored[NullTask].resume
      <4>1. i = 1 /\ s # <<>>
        <5>1. i \in 1..Len(s) /\ Len(s) <= 1
          BY <2>0, <3>3 DEF Single
        <5> QED
          BY <3>3, <5>1
      <4>2. phase = "running"
        BY <2>0, <2>2, InterruptsAssumption, Active
      <4>3. Len(run[t].list) >= Asks[t]
        BY <2>0, <3>2, <3>7, <4>1, <4>2 DEF Consumed, Used
      <4>4. s[1].question = Asks[t]
        BY <2>0, <3>7, <4>1 DEF Offered, LastOne
      <4> QED
        BY <3>5, <4>1, <4>3, <4>4
    <3> QED
      BY <3>3, <3>5, <3>6, <3>7
  <2> QED
    BY <2>1, <2>2
<1>2. ASSUME IInv, [Next]_vars PROVE [\A t \in Task : Durable(t)]_vars
  <2> HIDE DEF Durable
  <2> QED
    BY <1>1, <1>2
<1>3. NotAskedAgain <=> [][\A t \in Task : Durable(t)]_vars
  BY DEF NotAskedAgain
<1> HIDE DEF Durable
<1> QED
  BY <1>2, <1>3, Inductive, PTL DEF Spec

-------------------------------------------------------------------------------
(* What get_state shows.                                                   *)

LEMMA MergedTwice ==
  ASSUME NEW old \in Slots, NEW new \in Slots
  PROVE  Merged(old, new) = Merged(Merged(old, new), new)
<1>1. /\ new.interrupt \in Nat /\ old.interrupt \in Nat
      /\ old.output \in BOOLEAN /\ new.output \in BOOLEAN
  BY DEF Slots
<1> QED
  BY <1>1 DEF Merged

LEMMA CommittedSlots ==
  ASSUME InterruptsAssumption, Types, NEW t \in Task
  PROVE  /\ Committed(t) \in Slots /\ Committed(t).resume = Resumes(t)
         /\ Committed(t).output = (run[t].st = "done")
         /\ run[t].st = "interrupted" => /\ Committed(t).interrupt = Len(run[t].got) + 1
                                         /\ Committed(t).interrupt # 0
<1>1. run[t].got \in Seq(Answer) /\ Resumes(t) \in Seq(Answer)
  BY Sequences_, ResumesKind
<1>2. Len(run[t].got) + 1 \in Nat /\ 0 \in Nat /\ Len(run[t].got) + 1 # 0
  BY <1>1
<1> QED
  BY <1>1, <1>2 DEF Committed, Slots

(* What is kept of a task stays kept in a step of another one.             *)
LEMMA KeptStays ==
  ASSUME InterruptsAssumption, Types, NEW t \in Task, Kept(t),
         run'[t] = run[t], durability' = durability,
         stored[t].output => stored'[t].output,
         \A p \in putting : p.by = t => \E q \in putting' : q.by = t,
         durability = "exit" => pending'[t] = pending[t],
         durability # "exit" => /\ \A w \in saving : w.by = t => w \in saving'
                                /\ stored'[t] = stored[t]
  PROVE  Kept(t)'
<1>1. Committed(t)' = Committed(t)
  BY DEF Committed, Resumes
<1> QED
  BY <1>1 DEF Kept, Saved

(* The step in which nothing has failed.                                   *)
LEMMA CalmStays ==
  ASSUME InterruptsAssumption, Types, [Next]_vars, Calm'
  PROVE  /\ Calm
         /\ \A t \in Task : ~ Retry(t) /\ ~ Fail(t)
         /\ ~ Crash
<1>1. failures \in Nat /\ crashes \in Nat
  BY DEF Types
<1>2. failures' \in Nat /\ crashes' \in Nat
  <2>1. Types'
    BY TypesNext
  <2> QED
    BY <2>1 DEF Types
<1>3. failures' = 0 /\ crashes' = 0
  <2>1. failures' + crashes' = 0
    BY DEF Calm
  <2>2. \A m, n \in Nat : m + n = 0 => m = 0 /\ n = 0
    OBVIOUS
  <2> QED
    BY <1>2, <2>1, <2>2
<1>4. \A t \in Task : ~ Retry(t) /\ ~ Fail(t)
  BY <1>1, <1>3 DEF Retry, Fail
<1>5. ~ Crash
  BY <1>1, <1>3 DEF Crash
<1>6. failures' = failures /\ crashes' = crashes
  <2>1. CASE Client
    BY <2>1 DEF Client, GoOn, ResumeByIds, ResumeBare, Enter
  <2>2. ASSUME NEW t \in Task, Body(t) PROVE failures' = failures /\ crashes' = crashes
    BY <2>2 DEF Body, Recall, Take, Interrupt, Finish, Commit, counts
  <2>3. ASSUME NEW p \in putting, Put(p) PROVE failures' = failures /\ crashes' = crashes
    BY <2>3 DEF Put, counts
  <2>4. ASSUME NEW w \in saving, Save(w) PROVE failures' = failures /\ crashes' = crashes
    BY <2>4 DEF Save, counts
  <2>5. CASE Leave
    BY <2>5 DEF Leave, counts
  <2>6. CASE UNCHANGED vars
    BY <2>6 DEF vars, counts
  <2> QED
    BY <1>4, <1>5, <2>1, <2>2, <2>3, <2>4, <2>5, <2>6 DEF Next, RefuseBare, Over
<1> QED
  BY <1>3, <1>4, <1>5, <1>6 DEF Calm

LEMMA WholeNext ==
  ASSUME InterruptsAssumption, "exit" \notin Races, Types, Rest, Whole, [Next]_vars
  PROVE  Whole'
<1>1. CASE Client
  <2>1. PICK bare \in Seq(Answer), named \in [Task -> Seq(Answer)] : Enter(bare, named)
    BY <1>1, ClientEnters
  <2>2. phase = "idle" /\ putting' = putting
    BY <2>1, EnterEffect
  <2> QED
    BY <2>2 DEF Rest, Whole
<1>2. ASSUME NEW t \in Task, Recall(t) \/ Retry(t) PROVE Whole'
  BY <1>2, RecallEffect, RetryEffect DEF saves, Whole
<1>3. ASSUME NEW t \in Task, Take(t) PROVE Whole'
  <2>1. durability' = durability
    BY <1>3, TakeEffect
  <2>2. putting = {} => putting' = {}
    BY <1>3, TakePuts
  <2> QED
    BY <2>1, <2>2 DEF Whole
<1>4. ASSUME NEW t \in Task, Interrupt(t) \/ Finish(t) \/ Fail(t) PROVE Whole'
  <2>1. PICK slots \in Slots : Ends(t, slots)
    BY <1>4, EndsEffect
  <2>2. Commit(t, slots)
    BY <2>1 DEF Ends
  <2> QED
    BY <2>2, CommitEffect DEF Whole
<1>5. ASSUME NEW p \in putting, Put(p) PROVE Whole'
  BY <1>5, PutEffect DEF Whole
<1>6. ASSUME NEW w \in saving, Save(w) PROVE Whole'
  BY <1>6, SaveEffect DEF Whole
<1>7. CASE Leave \/ Crash
  BY <1>7, LeaveEffect, CrashEffect DEF Rested, Whole
<1>8. CASE UNCHANGED vars
  BY <1>8 DEF vars, saves, Whole
<1> QED
  BY <1>1, <1>2, <1>3, <1>4, <1>5, <1>6, <1>7, <1>8 DEF Next, Body, RefuseBare, Over

LEMMA FreshNext ==
  ASSUME InterruptsAssumption, Types, Fresh, [Next]_vars
  PROVE  Fresh'
<1> SUFFICES ASSUME Calm' PROVE \A t \in Task : run'[t].retries = 0 /\ run'[t].st # "failed"
  BY DEF Fresh
<1>0. /\ \A t \in Task : run[t].retries = 0 /\ run[t].st # "failed"
      /\ \A t \in Task : ~ Retry(t) /\ ~ Fail(t)
      /\ ~ Crash
  BY CalmStays DEF Fresh
<1>1. CASE Client
  <2>1. PICK bare \in Seq(Answer), named \in [Task -> Seq(Answer)] : Enter(bare, named)
    BY <1>1, ClientEnters
  <2>2. \A t \in Task : Begins(t, named)
    BY <2>1, EnterEffect
  <2>3. \A t \in Task : stored[t].output \/ ~ stored[t].output
    OBVIOUS
  <2> QED
    BY <2>2, <2>3 DEF Begins
<1>2. ASSUME NEW t \in Task, Recall(t) \/ Take(t)
      PROVE  \A u \in Task : run'[u].retries = 0 /\ run'[u].st # "failed"
  <2>1. /\ \A u \in Task \ {t} : run'[u] = run[u]
        /\ run'[t].st = "running" /\ run'[t].retries = run[t].retries
    BY <1>2, RecallEffect, TakeEffect
  <2> QED
    BY <1>0, <2>1
<1>3. ASSUME NEW t \in Task, Interrupt(t) \/ Finish(t)
      PROVE  \A u \in Task : run'[u].retries = 0 /\ run'[u].st # "failed"
  <2>1. PICK slots \in Slots : Ends(t, slots)
    BY <1>3, EndsEffect
  <2>2. /\ \A u \in Task \ {t} : run'[u] = run[u]
        /\ run'[t].retries = run[t].retries
        /\ run'[t].st = "failed" => failures' = failures + 1
    BY <2>1 DEF Ends
  <2>3. failures' = failures /\ failures \in Nat
    BY <1>3 DEF Interrupt, Finish, Types
  <2>4. run'[t].st # "failed"
    BY <2>2, <2>3
  <2> QED
    BY <1>0, <2>2, <2>4
<1>4. ASSUME NEW p \in putting, Put(p)
      PROVE  \A u \in Task : run'[u].retries = 0 /\ run'[u].st # "failed"
  BY <1>0, <1>4, PutEffect
<1>5. ASSUME NEW w \in saving, Save(w)
      PROVE  \A u \in Task : run'[u].retries = 0 /\ run'[u].st # "failed"
  BY <1>0, <1>5, SaveEffect
<1>6. CASE Leave
  <2>1. \A t \in Task : run'[t] = NoAttempt
    BY <1>6, LeaveEffect DEF Rested
  <2> QED
    BY <2>1 DEF NoAttempt
<1>7. CASE UNCHANGED vars
  BY <1>0, <1>7 DEF vars
<1> QED
  BY <1>0, <1>1, <1>2, <1>3, <1>4, <1>5, <1>6, <1>7 DEF Next, Body, RefuseBare, Over

LEMMA HeldNext ==
  ASSUME InterruptsAssumption, Structure, Whole, Held, [Next]_vars
  PROVE  Held'
<1>t. Types /\ Rest /\ Submitted /\ Lengthened
  BY DEF Structure
<1> SUFFICES ASSUME Calm', phase' = "running",
                    NEW t \in Task, run'[t].st \in {"interrupted", "done"}
             PROVE  Kept(t)'
  BY DEF Held
<1>c. /\ Calm /\ \A u \in Task : ~ Retry(u) /\ ~ Fail(u)
      /\ ~ Crash
  BY <1>t, CalmStays
<1>k. phase = "running" /\ run'[t] = run[t] => Kept(t)
  BY <1>c DEF Held
<1>g. stored[t].output => stored'[t].output
  BY <1>t, StoredGrows
<1>w. t \in Writer /\ NullTask \notin Task
  BY DEF Writer, InterruptsAssumption
<1>1. CASE Client
  <2>1. PICK bare \in Seq(Answer), named \in [Task -> Seq(Answer)] : Enter(bare, named)
    BY <1>1, <1>t, ClientEnters
  <2>2. Begins(t, named) /\ stored' = stored
    BY <1>t, <2>1, EnterEffect
  <2>3. run'[t].st = "done" /\ stored'[t].output
    BY <2>2 DEF Begins
  <2> QED
    BY <2>3 DEF Kept
<1>2. ASSUME NEW u \in Task, Recall(u) PROVE Kept(t)'
  <2>1. /\ \A v \in Task \ {u} : run'[v] = run[v]
        /\ run'[u].st = "running"
        /\ UNCHANGED <<stored, pending, phase, durability, putting, saving>>
    BY <1>2, <1>t, RecallEffect DEF memory, saves
  <2>2. run'[t] = run[t]
    BY <2>1
  <2> QED
    BY <1>t, <1>k, <2>1, <2>2, KeptStays
<1>3. ASSUME NEW u \in Task, Take(u) PROVE Kept(t)'
  <2>1. /\ \A v \in Task \ {u} : run'[v] = run[v] /\ pending'[v] = pending[v]
        /\ run'[u].st = "running"
        /\ UNCHANGED <<stored, phase, durability, saving>>
    BY <1>3, <1>t, TakeEffect
  <2>2. t # u
    BY <2>1
  <2>3. run'[t] = run[t] /\ pending'[t] = pending[t]
    BY <2>1, <2>2
  <2>4. \A p \in putting : \E q \in putting' : q.by = p.by
    BY <1>3, <1>t, TakePuts
  <2> QED
    BY <1>t, <1>k, <2>1, <2>3, <2>4, KeptStays
<1>4. ASSUME NEW u \in Task, Interrupt(u) \/ Finish(u) PROVE Kept(t)'
  <2>1. PICK slots \in Slots : Ends(u, slots)
    BY <1>4, <1>t, EndsEffect
  <2>2. /\ \A v \in Task \ {u} : run'[v] = run[v]
        /\ Commit(u, slots)
    BY <2>1 DEF Ends
  <2>3. slots = Committed(u)'
    BY <1>t, <2>1, EndsCommitted
  <2>4. stored' = stored /\ phase' = phase /\ durability' = durability
    BY <2>2, CommitEffect
  <2>5. CASE /\ putting' = putting \cup {[by |-> u, slots |-> slots, list |-> pending]}
             /\ UNCHANGED <<pending, same, saving>>
    <3>1. CASE t = u
      <4> DEFINE q == [by |-> u, slots |-> slots, list |-> pending]
      <4>1. q \in putting' /\ q.by = t
        BY <2>5, <3>1
      <4> HIDE DEF q
      <4> QED
        BY <4>1 DEF Kept
    <3>2. CASE t # u
      BY <1>t, <1>k, <2>2, <2>4, <2>5, <3>2, KeptStays
    <3> QED
      BY <3>1, <3>2
  <2>6. CASE putting' = putting /\ same' = FALSE /\ Puts(u, slots, pending)
    <3>1. /\ pending'[u] = slots /\ \A w \in Writer \ {u} : pending'[w] = pending[w]
          /\ saving \subseteq saving'
          /\ durability # "exit" => \E w \in saving' : w.by = u
      BY <1>t, <2>6, PutsTypes DEF Types
    <3>2. CASE t = u
      BY <2>3, <2>4, <3>1, <3>2 DEF Kept
    <3>3. CASE t # u
      BY <1>t, <1>k, <1>w, <2>2, <2>4, <2>6, <3>1, <3>3, KeptStays
    <3> QED
      BY <3>2, <3>3
  <2> QED
    BY <2>2, <2>5, <2>6, CommitEffect
<1>5. ASSUME NEW p \in putting, Put(p) PROVE Kept(t)'
  <2>1. /\ p.by \in Task /\ p.slots \in Slots /\ p.list \in Lists
        /\ putting' = putting \ {p} /\ Puts(p.by, p.slots, p.list)
        /\ UNCHANGED <<stored, run, phase, durability>>
    BY <1>5, <1>t, PutEffect
  <2>2. /\ saving \subseteq saving' /\ durability # "exit"
        /\ \E w \in saving' : w.by = p.by
    BY <1>t, <2>1, PutsTypes DEF Whole
  <2>3. CASE t = p.by
    BY <2>1, <2>2, <2>3 DEF Kept
  <2>4. CASE t # p.by
    <3>1. \A q \in putting : q.by = t => q \in putting'
      BY <2>1, <2>4
    <3> QED
      BY <1>t, <1>k, <2>1, <2>2, <3>1, KeptStays
  <2> QED
    BY <2>3, <2>4
<1>6. ASSUME NEW w \in saving, Save(w) PROVE Kept(t)'
  <2>1. /\ w.by \in Writer /\ w.slots \in Slots /\ saving' = saving \ {w}
        /\ \A v \in Writer \ {w.by} : stored'[v] = stored[v]
        /\ stored'[w.by] = Merged(stored[w.by], w.slots)
        /\ UNCHANGED <<pending, putting, run, phase, durability>>
    BY <1>6, <1>t, SaveEffect DEF memory
  <2>2. durability # "exit"
    BY <1>t, <2>1 DEF Lengthened
  <2>3. CASE t = w.by
    <3>1. w.slots = Committed(t)
      BY <1>t, <2>3 DEF Submitted, Ended
    <3>2. Committed(t)' = Committed(t)
      BY <2>1 DEF Committed, Resumes
    <3>3. stored'[t] = Merged(stored[t], w.slots) /\ stored[t] \in Slots
      BY <1>t, <2>1, <2>3, Sequences_
    <3>4. stored'[t] = Merged(stored'[t], w.slots)
      BY <2>1, <3>3, MergedTwice
    <3> QED
      BY <2>1, <2>2, <3>1, <3>2, <3>4 DEF Kept, Saved
  <2>4. CASE t # w.by
    <3>1. stored'[t] = stored[t] /\ \A v \in saving : v.by = t => v \in saving'
      BY <1>w, <2>1, <2>4
    <3> QED
      BY <1>t, <1>k, <2>1, <2>2, <3>1, KeptStays
  <2> QED
    BY <2>3, <2>4
<1>7. CASE Leave
  BY <1>7, <1>t, LeaveEffect
<1>8. CASE UNCHANGED vars
  BY <1>8, <1>k, <1>t, KeptStays DEF vars, memory, saves
<1> QED
  BY <1>c, <1>1, <1>2, <1>3, <1>4, <1>5, <1>6, <1>7, <1>8 DEF Next, Body, RefuseBare, Over

(* A task that was interrupted and is kept is shown with the question it   *)
(* asks next.                                                              *)
LEMMA KeptIsCurrent ==
  ASSUME InterruptsAssumption, Types, Lengthened, Paired, phase = "running",
         NEW t \in Task, run[t].st = "interrupted", run[t].retries = 0,
         NEW s \in Slots, s = Merged(stored[t], Committed(t))
  PROVE  s.interrupt # 0 /\ s.interrupt = Len(s.resume) + 1
<1>1. /\ stored[t] \in Slots /\ Committed(t) \in Slots
      /\ stored[t].resume \in Seq(Answer)
      /\ run[t].list \in Seq(Answer) /\ run[t].got \in Seq(Answer)
  BY Sequences_, CommittedSlots
<1>2. /\ Committed(t).interrupt = Len(run[t].got) + 1 /\ Committed(t).interrupt # 0
      /\ Committed(t).resume = IF run[t].wrote THEN run[t].list ELSE <<>>
  BY CommittedSlots DEF Resumes
<1>3. /\ s.interrupt = Len(run[t].got) + 1 /\ s.interrupt # 0
      /\ s.resume = IF Committed(t).resume # <<>> THEN Committed(t).resume
                    ELSE stored[t].resume
  BY <1>1, <1>2, MergedSlots
<1>4. /\ run[t].wrote <=> run[t].got # <<>>
      /\ Len(run[t].got) = Len(run[t].list)
  BY DEF Paired, Counted
<1>5. Len(s.resume) = Len(run[t].got)
  <2>1. CASE run[t].got = <<>>
    <3>1. Len(run[t].list) = 0
      BY <1>4, <2>1
    <3>2. run[t].list = <<>>
      BY <1>1, <3>1
    <3>3. IsPrefix(stored[t].resume, run[t].list)
      BY DEF Lengthened
    <3>4. stored[t].resume = <<>>
      <4>1. ASSUME NEW a \in Seq(Answer), NEW b \in Seq(Answer), IsPrefix(a, b), b = <<>>
            PROVE  a = <<>>
        BY <4>1, PrefixFacts
      <4> QED
        BY <1>1, <3>2, <3>3, <4>1
    <3> QED
      BY <1>2, <1>3, <1>4, <2>1, <3>4
  <2>2. CASE run[t].got # <<>>
    <3>1. Len(run[t].got) # 0
      BY <1>1, <2>2
    <3>2. run[t].list # <<>>
      BY <1>4, <3>1
    <3> QED
      BY <1>2, <1>3, <1>4, <2>2, <3>2
  <2> QED
    BY <2>1, <2>2
<1> QED
  BY <1>3, <1>5

LEMMA OpenNext ==
  ASSUME InterruptsAssumption, Structure, OpenInv, [Next]_vars
  PROVE  OpenIsShown'
<1>t. Types /\ Rest /\ Submitted /\ Lengthened /\ Paired
  BY DEF Structure
<1> SUFFICES ASSUME phase' = "idle", invocations' > 0, Calm',
                    NEW t \in Task, ~ stored'[t].output
             PROVE  stored'[t].interrupt # 0 /\ stored'[t].interrupt = Len(stored'[t].resume) + 1
  BY DEF OpenIsShown, Calm, Unfinished, Current, Shown
<1>c. /\ Calm /\ \A u \in Task : ~ Retry(u) /\ ~ Fail(u)
      /\ ~ Crash
  BY <1>t, CalmStays
<1>1. CASE Leave
  <2>1. /\ phase = "running" /\ saving = {} /\ stored' \in Lists
        /\ \/ durability # "exit" /\ stored' = stored
           \/ /\ durability = "exit"
              /\ \A w \in Writer : stored'[w] = Merged(stored[w], pending[w])
        /\ \/ putting = {} /\ \A u \in Task : run[u].st # "running"
           \/ \E u \in Task : run[u].st = "failed"
    BY <1>1, <1>t, LeaveEffect
  <2>2. \A u \in Task : run[u].retries = 0 /\ run[u].st # "failed"
    BY <1>c DEF OpenInv, Fresh
  <2>3. putting = {} /\ run[t].st # "running" /\ run[t].st # "waits"
    BY <1>t, <2>1, <2>2 DEF Rest
  <2>4. run[t].st \in {"interrupted", "done"}
    <3>1. run[t] \in Attempt
      BY <1>t DEF Types
    <3> QED
      BY <2>2, <2>3, <3>1 DEF Attempt
  <2>5. Kept(t)
    BY <1>c, <2>1, <2>4 DEF OpenInv, Held
  <2>6. t \in Writer /\ stored[t] \in Slots /\ pending[t] \in Slots /\ stored'[t] \in Slots
        /\ Committed(t) \in Slots
    BY <1>t, <2>1, Sequences_, CommittedSlots DEF Lists
  <2>a. ASSUME NEW old \in Slots, NEW new \in Slots, ~ Merged(old, new).output
        PROVE  ~ old.output /\ ~ new.output
    <3>1. Merged(old, new).output = (old.output \/ new.output)
      BY MergedSlots
    <3> QED
      BY <2>a, <3>1
  <2>7. ~ stored[t].output
    <3>1. CASE stored' = stored
      BY <3>1
    <3>2. CASE stored'[t] = Merged(stored[t], pending[t])
      <4>1. ~ Merged(stored[t], pending[t]).output
        BY <3>2
      <4> QED
        BY <2>6, <2>a, <4>1
    <3> QED
      BY <2>1, <2>6, <3>1, <3>2
  <2>8. stored'[t] = Merged(stored[t], Committed(t))
    BY <2>1, <2>3, <2>5, <2>6, <2>7 DEF Kept, Saved
  <2>9. run[t].st = "interrupted"
    <3>1. ~ Committed(t).output
      BY <2>6, <2>8, <2>a
    <3> QED
      BY <1>t, <2>4, <3>1, CommittedSlots
  <2>10. PICK s \in Slots : s = stored'[t]
    BY <2>6
  <2> QED
    BY <1>t, <2>1, <2>2, <2>8, <2>9, <2>10, KeptIsCurrent
<1>2. CASE phase = "idle" /\ UNCHANGED vars
  <2>1. stored' = stored /\ invocations' = invocations
    BY <1>2 DEF vars, counts
  <2>2. OpenIsShown
    BY DEF OpenInv
  <2> QED
    BY <1>2, <1>c, <2>1, <2>2 DEF OpenIsShown, Calm, Unfinished, Current, Shown
<1>3. \/ Leave
      \/ phase = "idle" /\ UNCHANGED vars
  <2>1. CASE Client
    <3>1. PICK bare \in Seq(Answer), named \in [Task -> Seq(Answer)] : Enter(bare, named)
      BY <1>t, <2>1, ClientEnters
    <3> QED
      BY <1>t, <3>1, EnterEffect
  <2>2. ASSUME NEW u \in Task, Body(u) PROVE FALSE
    <3>1. run[u].st = "running" /\ phase' = phase
      BY <2>2 DEF Body, Recall, Take, Interrupt, Finish, Asking, Commit
    <3> QED
      BY <1>t, <3>1, Active
  <2>3. ASSUME NEW p \in putting, Put(p) PROVE FALSE
    BY <1>t, <2>3, PutEffect, Active
  <2>4. ASSUME NEW w \in saving, Save(w) PROVE FALSE
    BY <1>t, <2>4, SaveEffect, Active
  <2>5. CASE UNCHANGED vars
    BY <2>5 DEF vars
  <2>6. ~ Over
    BY DEF Over, vars
  <2> QED
    BY <1>c, <2>1, <2>2, <2>3, <2>4, <2>5, <2>6 DEF Next, RefuseBare
<1> QED
  BY <1>1, <1>2, <1>3

(* After an invocation in which nothing failed, get_state shows for every  *)
(* unfinished task the question that it will ask next: commit hands over   *)
(* the question and the answers that an attempt has used, and put_writes   *)
(* keeps those of every task, unless two threads are in it with durability *)
(* exit.                                                                   *)
THEOREM OpenShown ==
  ASSUME "exit" \notin Races
  PROVE  Spec => []OpenIsShown
<1>1. Init => OpenInv
  <2> SUFFICES ASSUME Init PROVE OpenInv
    OBVIOUS
  <2>1. \A t \in Task : run[t] = NoAttempt
    BY DEF Init
  <2>2. putting = {} /\ phase = "idle" /\ invocations = 0
    BY DEF Init
  <2>3. Whole /\ Fresh /\ Held /\ OpenIsShown
    BY <2>1, <2>2 DEF Whole, Fresh, Held, OpenIsShown, NoAttempt
  <2> QED
    BY <2>3 DEF OpenInv
<1>2. ASSUME IInv, OpenInv, [Next]_vars PROVE OpenInv'
  <2>1. Structure /\ Types /\ Rest
    BY <1>2 DEF IInv, Structure
  <2>2. Whole /\ Fresh /\ Held
    BY <1>2 DEF OpenInv
  <2>3. Whole' /\ Fresh' /\ Held'
    BY <1>2, <2>1, <2>2, InterruptsAssumption, WholeNext, FreshNext, HeldNext
  <2>4. OpenIsShown'
    BY <1>2, <2>1, InterruptsAssumption, OpenNext
  <2> QED
    BY <2>3, <2>4 DEF OpenInv
<1>3. OpenInv => OpenIsShown
  BY DEF OpenInv
<1> QED
  BY <1>1, <1>2, <1>3, Inductive, PTL DEF Spec

=============================================================================
