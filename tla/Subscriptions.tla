---------------------------- MODULE Subscriptions ----------------------------
(***************************************************************************)
(* What a subscription of the Python SDK asks for and which events match   *)
(* it (langgraph_sdk/stream/subscription.py).  A namespace is a sequence   *)
(* of segments; a segment is a name and, after a colon, a task id, or      *)
(* ABSENT where there is no colon.  A filter is                            *)
(*   [channels, namespaces, depth]                                         *)
(* where namespaces is ABSENT or a set of prefixes and depth is ABSENT or  *)
(* a natural number.  An event is [channel, namespace, ...].               *)
(***************************************************************************)
EXTENDS Integers, Sequences

CONSTANTS
  ABSENT,      \* a key the filter omits, a task id the segment lacks
  CUSTOM,      \* the channel that asks for every extension
  Extensions   \* the channels "custom:<name>"

ASSUME SubscriptionsAssumption == CUSTOM \notin Extensions /\ ABSENT \notin Int

normalize_segment(segment) == [segment EXCEPT !.id = ABSENT]

is_prefix_match(namespace, prefix) ==
  /\ Len(prefix) <= Len(namespace)
  /\ \A i \in 1..Len(prefix) :
       \/ namespace[i] = prefix[i]
       \/ /\ prefix[i].id = ABSENT
          /\ normalize_segment(namespace[i]) = prefix[i]

namespace_matches(namespace, prefixes, depth) ==
  \/ prefixes \in {ABSENT, {}}
  \/ \E prefix \in prefixes :
       /\ is_prefix_match(namespace, prefix)
       /\ depth # ABSENT => Len(namespace) - Len(prefix) <= depth

matches_subscription(event, filter) ==
  /\ \/ event.channel \in filter.channels
     \/ event.channel \in Extensions /\ CUSTOM \in filter.channels
  /\ namespace_matches(event.namespace, filter.namespaces, filter.depth)

\* the greatest of a non-empty set of depths
Deepest(depths) == CHOOSE d \in depths : \A e \in depths : e <= d

compute_union_filter(filters) ==
  LET namespaces == {f.namespaces : f \in filters}
      depths == {f.depth : f \in filters}
  IN  [channels |-> UNION {f.channels : f \in filters},
       namespaces |-> IF ABSENT \in namespaces \/ UNION namespaces = {}
                      THEN ABSENT ELSE UNION namespaces,
       depth |-> IF ABSENT \in depths THEN ABSENT ELSE Deepest(depths)]

filter_covers(coverer, target) ==
  /\ target.channels \subseteq coverer.channels
  /\ \/ /\ coverer.namespaces = ABSENT
        /\ coverer.depth # ABSENT =>
             target.depth # ABSENT /\ target.depth <= coverer.depth
     \/ /\ coverer.namespaces # ABSENT
        /\ target.namespaces # ABSENT
        /\ \A tp \in target.namespaces : \E cp \in coverer.namespaces :
             /\ is_prefix_match(tp, cp)
             /\ coverer.depth # ABSENT =>
                  /\ target.depth # ABSENT
                  /\ Len(tp) - Len(cp) + target.depth <= coverer.depth
=============================================================================
