--------------------------- MODULE NodeRetry_proofs ---------------------------
(***************************************************************************)
(* Proofs about NodeRetry, for any policies, timeouts and outcomes.        *)
(***************************************************************************)
EXTENDS NodeRetry, TLAPS

Event  == {"start", "finish"} \X Nat   \* what the observer is told
Inside == pc \in {"wait", "reap"}

(* The types; nothing is known of attempts to come.                        *)
Types ==
  /\ pc \in {"start", "wait", "reap", "sleep", "done"}
  /\ result \in {"none", "ok", "bubble", "cancelled", "error"}
  /\ (result = "none") <=> (pc # "done")
  /\ failures \in Nat /\ n \in Nat
  /\ body \in [Attempt -> {"none", "running"} \cup Endings]
  /\ sends \in [Attempt -> Nat] /\ kept \in [Attempt -> Nat]
  /\ \A a \in Attempt : a > n => kept[a] = 0 /\ body[a] = "none"
  /\ writes \in Seq(Nat) /\ events \in Seq(Event)
  /\ fired \subseteq Timeouts
  /\ runLeft \in 0..RunTicks /\ idleLeft \in 0..IdleTicks
  /\ quiet \in 0..IdleTicks

(* Only the attempt at hand has an open scope, and it was not stopped.     *)
OneScope ==
  /\ active = IF Inside THEN {n} ELSE {}
  /\ locked \subseteq active
  /\ stopped \subseteq 1..n /\ (Inside => n \notin stopped)

(* attempts counts the failures, and a policy allowed every one before     *)
(* the last.                                                               *)
Counted ==
  /\ n <= MaxAttempts /\ failures <= n /\ (pc # "start" => n > 0)
  /\ Inside => n = failures + 1
  /\ pc \in {"start", "sleep"} => n = failures /\ n < MaxAttempts

(* The writes are those of the attempt at hand that were let through.      *)
OwnWrites ==
  /\ ToSet(writes) \subseteq {n}
  /\ n > 0 => Len(writes) = kept[n]
  /\ n = 0 => writes = <<>>

(* The observer was told of every start, and of every finish but the next. *)
Alternate(es) ==
  \A i \in DOMAIN es :
    es[i] = <<IF i % 2 = 1 THEN "start" ELSE "finish", (i + 1) \div 2>>
Told ==
  /\ Alternate(events)
  /\ Len(events) = IF Inside THEN 2 * n - 1 ELSE 2 * n

(* The idle watchdog does not sleep past the moment at which the attempt   *)
(* has gone idle_timeout without progress, by the last stamp.              *)
Awake == idleLeft > 0 => idleLeft + quiet <= IdleTicks

IInv == Types /\ OneScope /\ Counted /\ OwnWrites /\ Told /\ Awake

-------------------------------------------------------------------------------
(* The constants that are numbers.                                         *)
LEMMA Numbers ==
  /\ MaxAttempts \in Nat \ {0} /\ MaxSends \in Nat
  /\ RunTicks \in Nat \ {0} /\ IdleTicks \in Nat \ {0}
BY RetryAssumption

(* Before the first attempt nothing is open, counted, written or told.     *)
LEMMA InitIInv == Init => IInv
<1> SUFFICES ASSUME Init PROVE IInv
  OBVIOUS
<1> USE Numbers DEF Init
<1>1. Types
  BY DEF Types, Attempt, Endings
<1>2. OneScope /\ Counted
  BY DEF OneScope, Inside, Counted
<1>3. OwnWrites /\ Told /\ Awake
  BY DEF OwnWrites, Told, Alternate, Inside, ToSet, Awake
<1> QED
  BY <1>1, <1>2, <1>3 DEF IInv

(* What a failure does to the coroutine: its number stays within the       *)
(* bound, and another attempt follows only if a policy allows it.          *)
LEMMA FailFacts ==
  ASSUME NEW e \in Errors, IInv, Inside, Fail(e)
  PROVE  /\ failures' = n
         /\ pc' \in {"sleep", "done"}
         /\ pc' = "sleep" => n < MaxAttempts
         /\ result' \in {"none", "error"} /\ (result' = "none" <=> pc' # "done")
<1>1. failures' = n /\ n \in Nat
  BY DEF Fail, IInv, Counted, Types, Inside
<1>2. Retried(e) => n < MaxAttempts
  <2> SUFFICES ASSUME NEW i \in DOMAIN Policies, failures + 1 < Policies[i].max
               PROVE  n < MaxAttempts
    BY DEF Retried
  <2>1. Policies[i].max \in Nat /\ Policies[i].max <= MaxAttempts /\ MaxAttempts \in Nat
    <3>1. Policies[i] \in [on : SUBSET Errors, max : Nat \ {0}]
      <4> DEFINE Policy == [on : SUBSET Errors, max : Nat \ {0}]
      <4>1. Policies \in Seq(Policy)
        BY RetryAssumption
      <4> HIDE DEF Policy
      <4>2. Policies[i] \in Policy
        BY <4>1
      <4> QED
        BY <4>2 DEF Policy
    <3> QED
      BY <3>1, RetryAssumption
  <2> QED
    BY <1>1, <2>1 DEF Fail
<1> QED
  BY <1>1, <1>2 DEF Fail

(* The observer is told of attempts by their numbers.                      *)
LEMMA TellType ==
  ASSUME NEW es \in Seq(Event), NEW e \in {"start", "finish"}, NEW k \in Nat
  PROVE  Append(es, <<e, k>>) \in Seq(Event)
<1>1. <<e, k>> \in Event
  BY DEF Event
<1> QED
  BY <1>1

(* Every step keeps every variable in its type.                            *)
LEMMA TypesStep == IInv /\ [Next]_vars => Types'
<1> SUFFICES ASSUME IInv, [Next]_vars PROVE Types'
  OBVIOUS
<1> USE Numbers DEF Types, Attempt, clocks
<1>0. Types
  BY DEF IInv
<1>a. /\ pc \in {"start", "sleep"} => n < MaxAttempts
      /\ Inside => n \in 1..MaxAttempts
  BY <1>0 DEF IInv, Counted
<1>b. locked \subseteq {n} /\ (locked # {} => Inside)
  BY DEF IInv, OneScope
<1>1. CASE Start
  <2>1. n' \in Nat /\ n' = n + 1 /\ n + 1 \in Attempt
    BY <1>0, <1>a, <1>1 DEF Start
  <2>2. events' \in Seq(Event)
    BY <1>0, <1>1, <2>1, TellType DEF Start
  <2>3. /\ body' \in [Attempt -> {"none", "running"} \cup Endings]
        /\ \A a \in Attempt : a > n' => kept'[a] = 0 /\ body'[a] = "none"
    BY <1>0, <1>1, <2>1, SMTT(30) DEF Start
  <2> QED
    BY <1>0, <1>1, <2>1, <2>2, <2>3, SMTT(30) DEF Start
<1>2. CASE BodyDone
  BY <1>0, <1>2 DEF BodyDone
<1>3. CASE Settle
  <2>1. Inside /\ n \in Attempt
    BY <1>a, <1>3 DEF Settle, Inside
  <2>2. events' \in Seq(Event)
    BY <1>0, <1>3, TellType DEF Settle, Close
  <2>3. writes' \in Seq(Nat)
    <3>1. writes' = writes \/ writes' = Append(writes, n)
      BY <1>3 DEF Settle
    <3>2. writes \in Seq(Nat) /\ n \in Nat
      BY <1>0
    <3> HIDE DEF Types
    <3> QED
      BY <3>1, <3>2
  <2>4. /\ kept' \in [Attempt -> Nat]
        /\ \A a \in Attempt : a > n => kept'[a] = 0
    <3>1. kept' = kept \/ kept' = [kept EXCEPT ![n] = @ + 1]
      BY <1>3 DEF Settle
    <3>2. /\ kept \in [Attempt -> Nat] /\ kept[n] + 1 \in Nat /\ n \in Nat
          /\ \A a \in Attempt : a > n => kept[a] = 0
      BY <1>0, <2>1
    <3> HIDE DEF Types
    <3> QED
      BY <2>1, <3>1, <3>2
  <2>5. /\ pc' \in {"sleep", "done"} /\ failures' \in Nat
        /\ result' \in {"none", "ok", "bubble", "cancelled", "error"}
        /\ (result' = "none") <=> (pc' # "done")
    <3>1. CASE body[n] \in Errors /\ Fail(body[n])
      BY <1>0, <2>1, <3>1, FailFacts
    <3>2. CASE \E r \in {"ok", "bubble", "cancelled", "error"} : End(r)
      BY <1>0, <3>2 DEF End
    <3> QED
      BY <1>3, <3>1, <3>2 DEF Settle
  <2> QED
    BY <1>0, <1>3, <2>2, <2>3, <2>4, <2>5 DEF Settle
<1>4. CASE TimeOut
  <2>1. Inside /\ n \in Attempt
    BY <1>a, <1>4 DEF TimeOut, Inside
  <2>2. events' \in Seq(Event)
    BY <1>0, <1>4, TellType DEF TimeOut, Close
  <2>3. /\ kept' \in [Attempt -> Nat]
        /\ \A a \in Attempt : a > n => kept'[a] = 0
    BY <1>0, <1>4, <2>1 DEF TimeOut
  <2>4. /\ pc' \in {"sleep", "done"} /\ failures' \in Nat
        /\ result' \in {"none", "error"} /\ (result' = "none" <=> pc' # "done")
    BY <1>0, <1>4, <2>1, FailFacts, RetryAssumption DEF TimeOut
  <2> QED
    BY <1>0, <1>4, <2>2, <2>3, <2>4 DEF TimeOut
<1>5. CASE Retry
  BY <1>0, <1>5 DEF Retry
<1>6. CASE Cancel
  <2>1. events' \in Seq(Event)
    <3>1. events' = events \/ events' = Append(events, <<"finish", n>>)
      BY <1>6 DEF Cancel, Close
    <3> QED
      BY <1>0, <3>1, TellType
  <2>2. /\ pc' \in {"reap", "done"} /\ failures' = failures
        /\ result' \in {"none", "cancelled"} /\ (result' = "none" <=> pc' # "done")
    BY <1>0, <1>6 DEF Cancel, End
  <2> QED
    BY <1>0, <1>6, <2>1, <2>2 DEF Cancel
<1>7. ASSUME NEW a \in Attempt, Finish(a) PROVE Types'
  <2>1. PICK e \in Endings : body' = [body EXCEPT ![a] = e]
    BY <1>7, RetryAssumption DEF Finish, Endings
  <2>2. ~ a > n
    BY <1>0, <1>7 DEF Finish
  <2> QED
    BY <1>0, <1>7, <2>1, <2>2 DEF Finish
<1>8. ASSUME NEW a \in Attempt, SendBegin(a) PROVE Types'
  <2>1. sends' \in [Attempt -> Nat]
    BY <1>0, <1>8, SMTT(30) DEF SendBegin
  <2> QED
    BY <1>0, <1>8, <2>1 DEF SendBegin
<1>9. ASSUME NEW a \in Attempt, SendEnd(a) PROVE Types'
  BY <1>0, <1>a, <1>b, <1>9 DEF SendEnd
<1>10. CASE Heartbeat
  BY <1>0, <1>10 DEF Heartbeat
<1>11. CASE Tick
  BY <1>0, <1>11 DEF Tick
<1>12. CASE RunWatchdog
  BY <1>0, <1>12 DEF RunWatchdog
<1>13. CASE IdleWatchdog
  <2>1. idleLeft' \in 0..IdleTicks
    BY <1>0, <1>13 DEF IdleWatchdog
  <2> QED
    BY <1>0, <1>13, <2>1 DEF IdleWatchdog
<1>14. CASE UNCHANGED vars
  BY <1>0, <1>14 DEF vars
<1> QED
  BY <1>1, <1>2, <1>3, <1>4, <1>5, <1>6, <1>7, <1>8, <1>9, <1>10, <1>11, <1>12,
     <1>13, <1>14 DEF Next, Coroutine, Done

(* The scope of an attempt is opened as it starts, and closed with it; a   *)
(* thread locks an open scope only, and Close waits for it.                *)
LEMMA ScopeStep == IInv /\ [Next]_vars => OneScope'
<1> SUFFICES ASSUME IInv, [Next]_vars PROVE OneScope'
  OBVIOUS
<1> USE DEF OneScope, Inside, clocks
<1>0. OneScope /\ n \in Nat /\ (Inside => n > 0)
  BY DEF IInv, Types, Counted
<1>1. CASE Start
  BY <1>0, <1>1 DEF Start
<1>2. CASE BodyDone
  BY <1>0, <1>2 DEF BodyDone
<1>3. CASE Settle
  <2>1. pc' \in {"sleep", "done"}
    BY <1>3 DEF Settle, Fail, End
  <2> QED
    BY <1>0, <1>3, <2>1 DEF Settle, Close
<1>4. CASE TimeOut
  <2>1. pc' \in {"sleep", "done"}
    BY <1>4 DEF TimeOut, Fail
  <2> QED
    BY <1>0, <1>4, <2>1 DEF TimeOut, Close
<1>5. CASE Retry
  BY <1>0, <1>5 DEF Retry
<1>6. CASE Cancel
  <2>1. CASE pc = "wait" /\ Close /\ pc' = "done" /\ stopped' = stopped \cup {n}
    BY <1>0, <1>6, <2>1 DEF Cancel, Close
  <2>2. CASE pc = "reap" /\ pc' = pc /\ active' = active /\ stopped' = stopped
    BY <1>0, <1>6, <2>2 DEF Cancel
  <2>3. CASE pc = "sleep" /\ pc' = "done" /\ active' = active /\ stopped' = stopped
    BY <1>0, <1>6, <2>3 DEF Cancel
  <2> QED
    BY <1>6, <2>1, <2>2, <2>3 DEF Cancel, End
<1>7. ASSUME NEW a \in Attempt, Finish(a) PROVE OneScope'
  BY <1>0, <1>7 DEF Finish
<1>8. ASSUME NEW a \in Attempt, SendBegin(a) PROVE OneScope'
  BY <1>0, <1>8 DEF SendBegin
<1>9. ASSUME NEW a \in Attempt, SendEnd(a) PROVE OneScope'
  BY <1>0, <1>9 DEF SendEnd
<1>10. CASE Heartbeat \/ Tick \/ RunWatchdog \/ IdleWatchdog \/ UNCHANGED vars
  BY <1>0, <1>10 DEF Heartbeat, Tick, RunWatchdog, IdleWatchdog, vars
<1> QED
  BY <1>1, <1>2, <1>3, <1>4, <1>5, <1>6, <1>7, <1>8, <1>9, <1>10
     DEF Next, Coroutine, Done

(* Every attempt but the first follows a failure that a policy allowed.    *)
LEMMA CountedStep == IInv /\ [Next]_vars => Counted'
<1> SUFFICES ASSUME IInv, [Next]_vars PROVE Counted'
  OBVIOUS
<1> USE Numbers DEF Counted, Inside, clocks
<1>0. Counted /\ n \in Nat /\ failures \in Nat
  BY DEF IInv, Types
<1>1. CASE Start
  BY <1>0, <1>1 DEF Start
<1>2. CASE Settle
  <2>1. Inside /\ n' = n
    BY <1>2 DEF Settle
  <2>2. CASE body[n] \in Errors /\ Fail(body[n])
    BY <1>0, <2>1, <2>2, FailFacts
  <2>3. CASE \E r \in {"ok", "bubble", "cancelled", "error"} : End(r)
    BY <1>0, <2>1, <2>3 DEF End
  <2> QED
    BY <1>2, <2>2, <2>3 DEF Settle
<1>3. CASE TimeOut
  <2>1. Inside /\ n' = n /\ Fail("timeout") /\ "timeout" \in Errors
    BY <1>3, RetryAssumption DEF TimeOut
  <2> QED
    BY <1>0, <2>1, FailFacts
<1>4. CASE Cancel
  BY <1>0, <1>4 DEF Cancel, End
<1>5. CASE BodyDone \/ Retry \/ Heartbeat \/ Tick \/ RunWatchdog \/ IdleWatchdog
  BY <1>0, <1>5 DEF BodyDone, Retry, Heartbeat, Tick, RunWatchdog, IdleWatchdog
<1>6. ASSUME NEW a \in Attempt, Finish(a) \/ SendBegin(a) \/ SendEnd(a)
      PROVE  Counted'
  BY <1>0, <1>6 DEF Finish, SendBegin, SendEnd
<1>7. CASE UNCHANGED vars
  BY <1>0, <1>7 DEF vars
<1> QED
  BY <1>1, <1>2, <1>3, <1>4, <1>5, <1>6, <1>7 DEF Next, Coroutine, Done

(* The elements and the length of a list of writes with one more.          *)
LEMMA OneMore ==
  ASSUME NEW s \in Seq(Nat), NEW k \in Nat, ToSet(s) \subseteq {k}
  PROVE  /\ ToSet(Append(s, k)) \subseteq {k}
         /\ Len(Append(s, k)) = Len(s) + 1
BY DEF ToSet

(* A thread that holds the lock of a scope writes for the attempt at hand; *)
(* a start and a timeout clear the list.                                   *)
LEMMA OwnWritesStep == IInv /\ [Next]_vars => OwnWrites'
<1> SUFFICES ASSUME IInv, [Next]_vars PROVE OwnWrites'
  OBVIOUS
<1> USE DEF clocks
<1>0. /\ ToSet(writes) \subseteq {n}
      /\ n > 0 => Len(writes) = kept[n]
      /\ n = 0 => writes = <<>>
      /\ writes \in Seq(Nat) /\ n \in Nat /\ kept \in [Attempt -> Nat]
      /\ \A a \in Attempt : a > n => kept[a] = 0
      /\ locked \subseteq IF Inside THEN {n} ELSE {}
      /\ Inside => n \notin stopped
  BY DEF IInv, OwnWrites, Types, OneScope
<1>a. /\ Inside => n > 0 /\ n \in Attempt
      /\ pc = "start" => n + 1 \in Attempt
  BY <1>0, Numbers DEF IInv, Counted, Attempt, Types
<1>1. CASE Start
  <2>1. kept[n + 1] = 0
    BY <1>0, <1>a, <1>1 DEF Start
  <2>2. writes' = <<>> /\ n' = n + 1 /\ kept' = kept
    BY <1>1 DEF Start
  <2> QED
    BY <1>0, <2>1, <2>2 DEF OwnWrites, ToSet
<1>2. CASE Settle
  <2>1. Inside /\ n' = n
    BY <1>2 DEF Settle, Inside
  <2>2. CASE writes' = writes /\ kept' = kept
    BY <1>0, <2>1, <2>2 DEF OwnWrites
  <2>3. CASE writes' = Append(writes, n) /\ kept' = [kept EXCEPT ![n] = @ + 1]
    <3>1. kept'[n] = kept[n] + 1
      BY <1>0, <1>a, <2>1, <2>3
    <3> QED
      BY <1>0, <1>a, <2>1, <2>3, <3>1, OneMore DEF OwnWrites
  <2> QED
    BY <1>2, <2>2, <2>3 DEF Settle
<1>3. CASE TimeOut
  <2>1. Inside /\ n' = n /\ writes' = <<>> /\ kept' = [kept EXCEPT ![n] = 0]
    BY <1>3 DEF TimeOut, Inside
  <2>2. kept'[n] = 0
    BY <1>0, <1>a, <2>1
  <2> QED
    BY <1>0, <1>a, <2>1, <2>2 DEF OwnWrites, ToSet
<1>4. ASSUME NEW a \in Attempt, SendEnd(a) PROVE OwnWrites'
  <2>1. Inside /\ a = n /\ n \notin stopped
    BY <1>0, <1>4 DEF SendEnd
  <2>2. writes' = Append(writes, n) /\ n' = n /\ kept' = [kept EXCEPT ![n] = @ + 1]
    BY <2>1, <1>4 DEF SendEnd
  <2>3. kept'[n] = kept[n] + 1
    BY <1>0, <1>a, <2>1, <2>2
  <2> QED
    BY <1>0, <1>a, <2>1, <2>2, <2>3, OneMore DEF OwnWrites
<1>5. CASE UNCHANGED <<writes, n, kept>>
  BY <1>0, <1>5 DEF OwnWrites
<1>6. CASE BodyDone \/ Retry \/ Heartbeat \/ Tick \/ RunWatchdog \/ IdleWatchdog \/ Cancel
  BY <1>5, <1>6 DEF BodyDone, Retry, Heartbeat, Tick, RunWatchdog, IdleWatchdog, Cancel
<1>7. ASSUME NEW a \in Attempt, Finish(a) \/ SendBegin(a) PROVE OwnWrites'
  BY <1>5, <1>7 DEF Finish, SendBegin
<1>8. CASE UNCHANGED vars
  BY <1>5, <1>8 DEF vars
<1> QED
  BY <1>1, <1>2, <1>3, <1>4, <1>6, <1>7, <1>8 DEF Next, Coroutine, Done

(* The next event of the alternation, an odd one for a start.              *)
LEMMA NextEvent ==
  ASSUME NEW es \in Seq(Event), NEW k \in Nat, NEW e,
         Alternate(es),
         \/ Len(es) = 2 * k /\ e = <<"start", k + 1>>
         \/ Len(es) = 2 * k + 1 /\ e = <<"finish", k + 1>>
  PROVE  /\ Alternate(Append(es, e))
         /\ Len(Append(es, e)) = Len(es) + 1
<1>1. DOMAIN Append(es, e) = 1..Len(es) + 1 /\ Len(Append(es, e)) = Len(es) + 1
  BY DEF Event
<1>2. \A i \in 1..Len(es) : Append(es, e)[i] = es[i]
  OBVIOUS
<1>3. Append(es, e)[Len(es) + 1] = e
  OBVIOUS
<1>4. /\ (2 * k + 1) % 2 = 1 /\ (2 * k + 2) \div 2 = k + 1
      /\ (2 * k + 2) % 2 = 0 /\ (2 * k + 3) \div 2 = k + 1
  OBVIOUS
<1>5. e = <<IF (Len(es) + 1) % 2 = 1 THEN "start" ELSE "finish", (Len(es) + 2) \div 2>>
  <2>1. CASE Len(es) = 2 * k /\ e = <<"start", k + 1>>
    <3>1. (Len(es) + 1) % 2 = 1 /\ (Len(es) + 2) \div 2 = k + 1
      BY <1>4, <2>1
    <3> QED
      BY <2>1, <3>1
  <2>2. CASE Len(es) = 2 * k + 1 /\ e = <<"finish", k + 1>>
    <3>1. (Len(es) + 1) % 2 # 1 /\ (Len(es) + 2) \div 2 = k + 1
      BY <1>4, <2>2
    <3> QED
      BY <2>2, <3>1
  <2> QED
    BY <2>1, <2>2
<1>6. \A i \in 1..Len(es) : i \in DOMAIN es
  OBVIOUS
<1>7. ASSUME NEW i \in 1..Len(es) + 1
      PROVE  Append(es, e)[i]
               = <<IF i % 2 = 1 THEN "start" ELSE "finish", (i + 1) \div 2>>
  <2>1. CASE i \in 1..Len(es)
    BY <1>2, <1>6, <2>1 DEF Alternate
  <2>2. CASE i = Len(es) + 1
    BY <1>3, <1>5, <2>2
  <2> QED
    BY <2>1, <2>2
<1> QED
  BY <1>1, <1>7 DEF Alternate

(* An attempt is reported as it starts, and as its scope is closed.        *)
LEMMA ToldStep == IInv /\ [Next]_vars => Told'
<1> SUFFICES ASSUME IInv, [Next]_vars PROVE Told'
  OBVIOUS
<1> USE DEF clocks
<1>0. /\ Alternate(events)
      /\ Len(events) = IF Inside THEN 2 * n - 1 ELSE 2 * n
      /\ events \in Seq(Event) /\ n \in Nat /\ (Inside => n > 0)
  BY DEF IInv, Told, Types, Counted
<1>1. CASE Start
  <2>1. /\ Len(events) = 2 * n /\ n' = n + 1 /\ Inside'
        /\ events' = Append(events, <<"start", n + 1>>)
    BY <1>0, <1>1 DEF Start, Inside
  <2> QED
    BY <1>0, <2>1, NextEvent, 2 * (n + 1) - 1 = 2 * n + 1 DEF Told
<1>2. CASE Inside /\ Close /\ n' = n /\ ~Inside'
  <2>1. /\ Len(events) = 2 * (n - 1) + 1 /\ n - 1 \in Nat
        /\ events' = Append(events, <<"finish", (n - 1) + 1>>)
    BY <1>0, <1>2 DEF Close
  <2> DEFINE k == n - 1
  <2>2. Alternate(events') /\ Len(events') = Len(events) + 1
    <3>1. k \in Nat /\ Len(events) = 2 * k + 1 /\ events' = Append(events, <<"finish", k + 1>>)
      BY <2>1
    <3> HIDE DEF k
    <3> QED
      BY <1>0, <3>1, NextEvent
  <2>3. Len(events') = 2 * n
    BY <1>0, <2>1, <2>2
  <2> QED
    BY <1>2, <2>2, <2>3 DEF Told
<1>3. CASE UNCHANGED <<events, n>> /\ Inside' = Inside
  BY <1>0, <1>3 DEF Told
<1>4. CASE Settle \/ TimeOut
  <2>1. pc' \in {"sleep", "done"}
    BY <1>4 DEF Settle, TimeOut, Fail, End
  <2>2. Inside /\ Close /\ n' = n /\ ~Inside'
    BY <1>4, <2>1 DEF Settle, TimeOut, Inside
  <2> QED
    BY <1>2, <2>2
<1>5. CASE Cancel
  <2>1. CASE Inside /\ Close /\ n' = n /\ ~Inside'
    BY <1>2, <2>1
  <2>2. CASE UNCHANGED <<events, n>> /\ Inside' = Inside
    BY <1>3, <2>2
  <2>3. \/ pc = "wait" /\ Close /\ n' = n /\ pc' = "done"
        \/ pc = "reap" /\ UNCHANGED <<events, n, pc>>
        \/ pc = "sleep" /\ UNCHANGED <<events, n>> /\ pc' = "done"
    BY <1>5 DEF Cancel, End
  <2> QED
    BY <2>1, <2>2, <2>3 DEF Inside
<1>6. CASE BodyDone \/ Retry \/ Heartbeat \/ Tick \/ RunWatchdog \/ IdleWatchdog
  <2>1. UNCHANGED <<events, n>>
    BY <1>6 DEF BodyDone, Retry, Heartbeat, Tick, RunWatchdog, IdleWatchdog
  <2>2. Inside' = Inside
    BY <1>6 DEF BodyDone, Retry, Heartbeat, Tick, RunWatchdog, IdleWatchdog, Inside
  <2> QED
    BY <1>3, <2>1, <2>2
<1>7. ASSUME NEW a \in Attempt, Finish(a) \/ SendBegin(a) \/ SendEnd(a) PROVE Told'
  <2>1. UNCHANGED <<events, n, pc>>
    BY <1>7 DEF Finish, SendBegin, SendEnd
  <2> QED
    BY <1>3, <2>1 DEF Inside
<1>8. CASE UNCHANGED vars
  BY <1>3, <1>8 DEF vars, Inside
<1> QED
  BY <1>1, <1>4, <1>5, <1>6, <1>7, <1>8 DEF Next, Coroutine, Done

(* The watchdog sleeps for what is left since the last stamp; time takes   *)
(* from the sleep what it adds to the quiet, and progress only shortens    *)
(* the quiet.                                                              *)
LEMMA AwakeStep == IInv /\ [Next]_vars => Awake'
<1> SUFFICES ASSUME IInv, [Next]_vars PROVE Awake'
  OBVIOUS
<1> USE Numbers DEF Awake, clocks
<1>0. Awake /\ idleLeft \in 0..IdleTicks /\ quiet \in 0..IdleTicks
  BY DEF IInv, Types
<1>1. CASE Start
  BY <1>0, <1>1 DEF Start
<1>2. CASE Tick
  BY <1>0, <1>2 DEF Tick
<1>3. CASE IdleWatchdog
  BY <1>0, <1>3 DEF IdleWatchdog
<1>4. CASE Heartbeat
  BY <1>0, <1>4 DEF Heartbeat
<1>5. ASSUME NEW a \in Attempt, SendBegin(a) PROVE Awake'
  BY <1>0, <1>5 DEF SendBegin
<1>6. CASE UNCHANGED <<idleLeft, quiet>>
  BY <1>0, <1>6
<1>7. CASE BodyDone \/ Settle \/ TimeOut \/ Retry \/ Cancel \/ RunWatchdog
  BY <1>6, <1>7 DEF BodyDone, Settle, TimeOut, Retry, Cancel, RunWatchdog
<1>8. ASSUME NEW a \in Attempt, Finish(a) \/ SendEnd(a) PROVE Awake'
  BY <1>6, <1>8 DEF Finish, SendEnd
<1>9. CASE UNCHANGED vars
  BY <1>6, <1>9 DEF vars
<1> QED
  BY <1>1, <1>2, <1>3, <1>4, <1>5, <1>7, <1>8, <1>9 DEF Next, Coroutine, Done

(* The invariant holds in every behaviour: the coroutine, its watchdogs,   *)
(* the threads that write and the runner's cancellation, in any order.     *)
THEOREM Inductive == Spec => []IInv
<1>1. IInv /\ [Next]_vars => IInv'
  BY TypesStep, ScopeStep, CountedStep, OwnWritesStep, ToldStep, AwakeStep
     DEF IInv
<1> QED
  BY InitIInv, <1>1, PTL DEF Spec

(* What the task hands to the runner are the writes of its last attempt    *)
(* that its guard let through: no abandoned attempt, and no thread of one, *)
(* adds to task.writes after arun_with_retry went on (guarded_send).       *)
THEOREM OwnWritesSafe == Spec => []OwnWritesOnly
<1>1. IInv => OwnWritesOnly
  BY DEF IInv, OwnWritesOnly, OwnWrites, Counted
<1> QED
  BY Inductive, <1>1, PTL

(* The observer sees the attempts one after the other, each finished       *)
(* before the next starts, however the attempt and the task end.           *)
THEOREM AttemptsPairedSafe == Spec => []AttemptsPaired
<1>1. IInv => AttemptsPaired
  BY DEF IInv, AttemptsPaired, Told, Alternate, Inside
<1> QED
  BY Inductive, <1>1, PTL

(* Though the failures under all policies are counted together, there are  *)
(* never more attempts than the most patient policy allows.                *)
THEOREM AttemptsBoundedSafe == Spec => []AttemptsBounded
<1>1. IInv => AttemptsBounded
  BY DEF IInv, AttemptsBounded, Counted
<1> QED
  BY Inductive, <1>1, PTL

(* Type correctness; a thread holds the lock of an open scope only, and    *)
(* nothing is of an attempt that was not made.                             *)
THEOREM TypeCorrect == Spec => []TypeOK
<1>1. IInv => TypeOK
  <2> SUFFICES ASSUME IInv PROVE TypeOK
    OBVIOUS
  <2>1. n \in 0..MaxAttempts + 1 /\ failures \in 0..MaxAttempts
    BY Numbers DEF IInv, Types, Counted
  <2>2. active \subseteq 1..n /\ ToSet(writes) \subseteq 1..n
    <3>1. ToSet(writes) = {} \/ n > 0
      BY DEF IInv, OwnWrites, Types, ToSet
    <3> QED
      BY <3>1, <2>1 DEF IInv, OwnWrites, OneScope, Counted, Inside
  <2> QED
    BY <2>1, <2>2 DEF IInv, Types, OneScope, TypeOK
<1> QED
  BY Inductive, <1>1, PTL

(* The idle watchdog is never asleep when idle_timeout is over since the   *)
(* last stamp, whoever stamped progress while it slept.                    *)
THEOREM IdleOnTimeSafe == Spec => []IdleOnTime
<1>1. IInv => IdleOnTime
  BY Numbers DEF IInv, Types, Awake, IdleOnTime
<1> QED
  BY Inductive, <1>1, PTL
===============================================================================
