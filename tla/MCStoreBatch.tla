---------------------------- MODULE MCStoreBatch ----------------------------
(***************************************************************************)
(* Two items of one namespace, and the operations on them that interfere.  *)
(***************************************************************************)
EXTENDS StoreBatch, TLC

OneSpace == [k \in Keys |-> "space"]

Plain(kind, key) == [kind |-> kind, key |-> key, refresh |-> FALSE,
                     ttl |-> FALSE, bad |-> FALSE]

MixedQueue ==
  {[Plain("get", "k") EXCEPT !.refresh = TRUE], Plain("put", "k"), Plain("del", "k"),
   [Plain("put", "l") EXCEPT !.bad = TRUE], Plain("search", "k")}

MixedDirect == {[Plain("put", "k") EXCEPT !.ttl = TRUE], Plain("sweep", "k")}
=============================================================================
