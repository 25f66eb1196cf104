---------------------------- MODULE MCThreadStream ----------------------------
(***************************************************************************)
(* Instances of ThreadStream: iterators of thread.values and of an         *)
(* interleaving of values and messages, a run that is interrupted once.    *)
(***************************************************************************)
EXTENDS ThreadStream

Ev(channel, namespace, kind) ==
  [channel |-> channel, namespace |-> namespace, kind |-> kind]
Sub == <<[name |-> "sub", id |-> "t1"]>>

\* thread.values, and thread.interleave_projections(["values", "messages"])
TwoFilters ==
  [c \in {"values", "interleave"} |->
     IF c = "values"
     THEN [channels |-> {"values"}, namespaces |-> ABSENT, depth |-> ABSENT]
     ELSE compute_union_filter(
            {[channels |-> {"values"}, namespaces |-> ABSENT, depth |-> ABSENT],
             [channels |-> {"messages"}, namespaces |-> {<<>>}, depth |-> 0]})]

InterruptedRun ==
  << Ev("values", Sub, "data"), Ev("messages", <<>>, "data"), Ev("input", <<>>, "input"),
     Ev("lifecycle", <<>>, "done") >>
=============================================================================
