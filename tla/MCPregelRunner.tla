--------------------------- MODULE MCPregelRunner ---------------------------
(***************************************************************************)
(* Small steps for PregelRunner.                                           *)
(***************************************************************************)
EXTENDS PregelRunner, TLC

(* Two nodes, together or one alone (which takes the fast path): a has the *)
(* error handler h, b calls the task c.                                    *)
PairTask     == {"a", "b", "c", "h"}
PairInitial  == {"a", "b"}
PairHandler  == "a" :> "h"
PairCalls    == [t \in PairTask |-> IF t = "b" THEN {"c"} ELSE {}]
PairOutcomes == "a" :> {"ok", "error"} @@ "b" :> Results
                  @@ "c" :> {"ok", "error"} @@ "h" :> {"ok", "error"}

(* A node with the error handler h that calls c, which calls d.            *)
NestTask     == {"a", "c", "d", "h"}
NestInitial  == {"a"}
NestHandler  == "a" :> "h"
NestCalls    == [t \in NestTask |-> CASE t = "a" -> {"c"}
                                       [] t = "c" -> {"d"}
                                       [] OTHER   -> {}]
NestOutcomes == [t \in NestTask |-> {"ok", "error"}] @@ "a" :> Results
=============================================================================
