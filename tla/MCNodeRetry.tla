----------------------------- MODULE MCNodeRetry -----------------------------
(***************************************************************************)
(* Two policies, the second more patient and for timeouts too.             *)
(***************************************************************************)
EXTENDS NodeRetry

TwoPolicies == <<[on |-> {"one"}, max |-> 2], [on |-> {"one", "timeout"}, max |-> 3]>>
TheErrors   == {"one", "two", "timeout"}
AllEndings  == {"ok", "parent", "bubble", "cancel", "one", "two"}
==============================================================================
