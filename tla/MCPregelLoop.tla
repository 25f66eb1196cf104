---------------------------- MODULE MCPregelLoop ----------------------------
(***************************************************************************)
(* Small graphs for PregelLoop, laid out as StateGraph.compile does: a     *)
(* node n is triggered by branch:to:n, an EphemeralValue(guard=False) or   *)
(* for a deferred node a LastValueAfterFinish, and a join by a             *)
(* NamedBarrierValue.  The first nodes subscribe to the input channel      *)
(* themselves, as in a Pregel built by hand, which saves the step of the   *)
(* node __start__ that passes the input on.                                *)
(***************************************************************************)
EXTENDS PregelLoop

To(c)     == [chan |-> c]
Send(n)   == [chan |-> "__pregel_tasks", to |-> n]
LogWrite  == To("log")

Plain     == "__start__" :> "Ephemeral" @@ "__pregel_tasks" :> "Topic"
               @@ "log" :> "BinOp" @@ "cmd" :> "BinOp"
Never(v)  == FALSE
MCSTART   == "__start__"
MCTASKS   == "__pregel_tasks"
MCLOG     == "log"
MCCOMMAND == "cmd"
MCINTERRUPT == "__interrupt__"

(* The input triggers a and b, b leads to d, and c joins a and d: the two  *)
(* sides of the join arrive in different steps.                            *)
JoinNodes    == <<"a", "b", "c", "d">>
JoinKind     == Plain @@ "to:d" :> "EphemeralAny" @@ "join:c" :> "Barrier"
JoinChan     == DOMAIN JoinKind
JoinNames    == [c \in JoinChan |-> IF c = "join:c" THEN {"a", "d"} ELSE {}]
JoinTriggers == "a" :> {"__start__"} @@ "b" :> {"__start__"}
                  @@ "c" :> {"join:c"} @@ "d" :> {"to:d"}
JoinOutputs  == "a" :> {<<LogWrite, To("join:c")>>}
                  @@ "b" :> {<<LogWrite, To("to:d")>>}
                  @@ "c" :> {<<LogWrite>>}
                  @@ "d" :> {<<LogWrite, To("join:c")>>}
JoinPartial  == [n \in ToSet(JoinNodes) |-> IF n \in {"b", "d"} THEN {<<>>} ELSE {}]

(* a -> b -> a ..., b ending the run when it writes no branch.             *)
CycleNodes    == <<"a", "b">>
CycleKind     == Plain @@ "to:a" :> "EphemeralAny" @@ "to:b" :> "EphemeralAny"
CycleChan     == DOMAIN CycleKind
CycleNames    == [c \in CycleChan |-> {}]
CycleTriggers == "a" :> {"__start__", "to:a"} @@ "b" :> {"to:b"}
CycleOutputs  == "a" :> {<<LogWrite, To("to:b")>>}
                   @@ "b" :> {<<LogWrite>>, <<LogWrite, To("to:a")>>}
\* b writes its state and raises in its conditional edge
CyclePartialRouting == "a" :> {} @@ "b" :> {<<LogWrite>>}

(* a sends two tasks to b, or one beside an edge to b.  A run of b sends to*)
(* b again, or writes the LastValue x, which takes one write in a step.    *)
SendNodes    == <<"a", "b">>
SendKind     == Plain @@ "to:b" :> "EphemeralAny" @@ "x" :> "LastValue"
SendChan     == DOMAIN SendKind
SendNames    == [c \in SendChan |-> {}]
SendTriggers == "a" :> {"__start__"} @@ "b" :> {"to:b"}
SendOutputs  == "a" :> {<<LogWrite, Send("b"), Send("b")>>,
                        <<LogWrite, To("to:b"), Send("b")>>}
                  @@ "b" :> {<<LogWrite, Send("b")>>, <<LogWrite, To("x")>>}
SendPartial  == "a" :> {} @@ "b" :> {<<>>}

(* a leads to b and to the deferred d; b may lead to a again and to d.      *)
DeferNodes    == <<"a", "b", "d">>
DeferKind     == Plain @@ "to:a" :> "EphemeralAny" @@ "to:b" :> "EphemeralAny"
                   @@ "to:d" :> "LastValueAfterFinish"
DeferChan     == DOMAIN DeferKind
DeferNames    == [c \in DeferChan |-> {}]
DeferTriggers == "a" :> {"__start__", "to:a"} @@ "b" :> {"to:b"} @@ "d" :> {"to:d"}
DeferOutputs  == "a" :> {<<LogWrite, To("to:b"), To("to:d")>>}
                   @@ "b" :> {<<LogWrite, To("to:d")>>,
                              <<LogWrite, To("to:a")>>}
                   @@ "d" :> {<<LogWrite>>}
DeferPartial  == "a" :> {} @@ "b" :> {} @@ "d" :> {}

NoNodes             == {}
NodesB              == {"b"}
NodesD              == {"d"}
InputResume         == {"input", "resume"}
InputResumeUpdate   == {"input", "resume", "update"}
Sync                == {"sync"}
AsyncOrExit         == {"async", "exit"}
=============================================================================
