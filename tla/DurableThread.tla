---------------------------- MODULE DurableThread ----------------------------
(***************************************************************************)
(* What a checkpointed thread promises to a client who only ever sees what *)
(* is stored: a history of runs that grows by whole supersteps.  "due" are *)
(* the tasks the latest stored checkpoint calls for.  A superstep adds one *)
(* run of each, an input sets them aside, and whatever fails or crashes in *)
(* between leaves the thread where it was.                                 *)
(***************************************************************************)
EXTENDS Naturals, FiniteSets, SequencesExt

VARIABLES
  head,      \* the id of the latest stored checkpoint, 0 before the first
  history,   \* the runs that took effect, in order
  due,       \* the runs the latest checkpoint calls for
  received   \* the Command updates that took effect, in order

dvars == <<head, history, due, received>>

DInit == head = 0 /\ history = <<>> /\ due = {} /\ received = <<>>

(* Commands come with the step or the input that is the first to be stored *)
(* after them, each once.                                                  *)
Receive ==
  /\ IsPrefix(received, received') /\ IsInjective(received')

(* One checkpoint later than head, each due run exactly once.              *)
Superstep ==
  /\ head' > head
  /\ IsPrefix(history, history')
  /\ LET new == SubSeq(history', Len(history) + 1, Len(history'))
     IN  IsInjective(new) /\ ToSet(new) = due
  /\ due # {} /\ due' \cap due = {}
  /\ Receive

Input ==
  /\ head' > head
  /\ history' = history
  /\ due' \cap due = {}
  /\ Receive

DNext == Superstep \/ Input
DSpec == DInit /\ [][DNext]_dvars
=============================================================================
