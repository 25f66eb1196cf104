------------------------------ MODULE Channels ------------------------------
(***************************************************************************)
(* The channels of langgraph/channels/*.py as operators on a channel state.*)
(*                                                                         *)
(* A channel state is a record [vals, fin].  "vals" is what the class      *)
(* stores: the empty sequence for MISSING or the one-element sequence for  *)
(* a value (LastValue, LastValueAfterFinish, EphemeralValue, AnyValue,     *)
(* UntrackedValue), the list of a Topic, the accumulated list of a reducer *)
(* (BinaryOperatorAggregate and DeltaChannel with list concatenation, the  *)
(* reducer that forgets nothing of what it was given), or the set of names *)
(* a NamedBarrierValue has seen.  "fin" is the "finished" flag of the two  *)
(* AfterFinish classes and FALSE elsewhere.                                *)
(*                                                                         *)
(* The module declares no variable: apply_writes and its callers (module   *)
(* PregelAlgo) drive these operators, as they drive the Python methods.    *)
(***************************************************************************)
EXTENDS Naturals, FiniteSets, SequencesExt

CONSTANTS
  Chan,             \* the channel names of a graph
  Kind,             \* [Chan -> ChannelKinds], the class of each channel
  Names,            \* [Chan -> sets of names], what a barrier waits for
  IsOverwrite(_)    \* whether a written value is wrapped in Overwrite

SingleValue  == {"LastValue", "LastValueAfterFinish", "Ephemeral",
                 "EphemeralAny", "Any", "Untracked"}
Topics       == {"Topic", "TopicAccumulate"}
Barriers     == {"Barrier", "BarrierAfterFinish"}
Reducers     == {"BinOp", "Delta"}
AfterFinish  == {"LastValueAfterFinish", "BarrierAfterFinish"}
ChannelKinds == SingleValue \cup Topics \cup Barriers \cup Reducers

(* EphemeralValue(guard=True) and UntrackedValue(guard=True) accept, like  *)
(* LastValue, one value per step; "EphemeralAny" is guard=False.           *)
OneWritePerStep == {"LastValue", "Ephemeral", "Untracked"}

(* Classes whose update(EMPTY_SEQ) forgets the value.                      *)
ClearedByStep == {"Ephemeral", "EphemeralAny", "Any", "Topic"}

ASSUME ChannelAssumption ==
  /\ IsFiniteSet(Chan)
  /\ Kind \in [Chan -> ChannelKinds]
  /\ DOMAIN Names = Chan

-----------------------------------------------------------------------------
(* The state of a channel that was never written and is not restored.      *)
Fresh(c) == [vals |-> IF Kind[c] \in Barriers THEN {} ELSE <<>>,
             fin  |-> FALSE]

\* MUTANT: a deferred value is available before finish()
X_IsAvailable(c, s) ==
  CASE Kind[c] = "Barrier"              -> s.vals = Names[c]
    [] Kind[c] = "BarrierAfterFinish"   -> s.fin /\ s.vals = Names[c]
    [] Kind[c] \in Reducers             -> TRUE
    [] OTHER                            -> s.vals # <<>>

(* is_available: whether get() returns a value.  A reducer starts from     *)
(* typ() and always has one.                                               *)
IsAvailable(c, s) ==
  CASE Kind[c] = "LastValueAfterFinish" -> s.fin /\ s.vals # <<>>
    [] Kind[c] = "Barrier"              -> s.vals = Names[c]
    [] Kind[c] = "BarrierAfterFinish"   -> s.fin /\ s.vals = Names[c]
    [] Kind[c] \in Reducers             -> TRUE
    [] OTHER                            -> s.vals # <<>>

Overwrites(ws) == {i \in DOMAIN ws : IsOverwrite(ws[i])}

(* update raises InvalidUpdateError for this batch of writes.              *)
Rejects(c, ws) ==
  \/ Kind[c] \in OneWritePerStep /\ Len(ws) > 1
  \/ Kind[c] \in Barriers /\ \E i \in DOMAIN ws : ws[i] \notin Names[c]
  \/ Kind[c] \in Reducers /\ Cardinality(Overwrites(ws)) > 1

(* What a reducer holds after a batch.  An Overwrite replaces the value,   *)
(* and in the batch it comes with everything written beside it is dropped: *)
(* BinaryOperatorAggregate reduces what precedes it only to discard it and *)
(* skips what follows, DeltaChannel does not look at the rest.             *)
Reduced(old, ws) ==
  IF Overwrites(ws) = {} THEN old \o ws
  ELSE <<ws[CHOOSE i \in Overwrites(ws) : TRUE]>>

(* The state update(ws) leaves, for a batch it does not reject.            *)
Update(c, s, ws) ==
  IF ws = <<>>
  THEN IF Kind[c] \in ClearedByStep THEN [s EXCEPT !.vals = <<>>] ELSE s
  ELSE CASE Kind[c] \in Barriers -> [s EXCEPT !.vals = @ \cup ToSet(ws)]
         [] Kind[c] = "Topic"    -> [s EXCEPT !.vals = ws]
         [] Kind[c] = "TopicAccumulate" -> [s EXCEPT !.vals = @ \o ws]
         [] Kind[c] \in Reducers -> [s EXCEPT !.vals = Reduced(@, ws)]
         [] OTHER -> [vals |-> <<Last(ws)>>, fin |-> FALSE]

\* MUTANT: clearing a value is not reported as an update
X_Updates(c, s, ws) ==
  IF Kind[c] \in Barriers THEN \E i \in DOMAIN ws : ws[i] \notin s.vals ELSE ws # <<>>

(* The boolean update(ws) returns: a barrier answers whether it saw a new  *)
(* name, a Topic whether it holds or drops something, the others whether   *)
(* there was something to write or to clear.                               *)
Updates(c, s, ws) ==
  CASE Kind[c] \in Barriers -> \E i \in DOMAIN ws : ws[i] \notin s.vals
    [] ws = <<>>            -> Kind[c] \in ClearedByStep /\ s.vals # <<>>
    [] OTHER                -> TRUE

(* consume() returns TRUE, for a channel a task was triggered by: a full   *)
(* barrier starts over, a finished value is used up.                       *)
Consumes(c, s) ==
  Kind[c] \in Barriers \cup {"LastValueAfterFinish"}
    /\ IF Kind[c] = "LastValueAfterFinish" THEN s.fin ELSE IsAvailable(c, s)

Consume(c, s) == IF Consumes(c, s) THEN Fresh(c) ELSE s

(* finish() returns TRUE: the deferred value becomes available.            *)
Finishes(c, s) ==
  /\ Kind[c] \in AfterFinish
  /\ ~ s.fin
  /\ IsAvailable(c, [s EXCEPT !.fin = TRUE])

Finish(c, s) == IF Finishes(c, s) THEN [s EXCEPT !.fin = TRUE] ELSE s

(* checkpoint(): the set of the one state to store, empty for MISSING.     *)
(* UntrackedValue and DeltaChannel never store one; barriers and topics    *)
(* always do.                                                              *)
Checkpoint(c, s) ==
  IF \/ Kind[c] \in {"Untracked", "Delta"}
     \/ Kind[c] \in SingleValue /\ s.vals = <<>>
  THEN {}
  ELSE {s}

(* from_checkpoint() of what checkpoint() stored.                          *)
FromCheckpoint(c, blob) ==
  IF blob = {} \/ Kind[c] = "Untracked" THEN Fresh(c)
  ELSE CHOOSE s \in blob : TRUE

(* checkpoint() returns the very set or list the channel goes on updating  *)
(* in place (seen.add, values.extend), not a copy of it.                   *)
SharedWithCheckpoint(c) == Kind[c] \in Barriers \cup {"TopicAccumulate"}
=============================================================================
