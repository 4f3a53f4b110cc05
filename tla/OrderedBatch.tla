---------------------------- MODULE OrderedBatch ----------------------------
(***************************************************************************)
(* What a batch of calls is promised, without tasks, bounds and            *)
(* cancellation: calls start in input order, the batch ends only when none *)
(* of them is live, it returns exactly if all of them succeeded, and it    *)
(* raises only because a call failed or the caller cancelled the batch.    *)
(***************************************************************************)
EXTENDS Integers

CONSTANT N

Calls == 1..N

VARIABLES
  stage,    \* how far each call is
  ending    \* how the batch ended

vars == <<stage, ending>>

Stages == {"unstarted", "live", "succeeded", "failed"}

Init ==
  /\ stage = [i \in Calls |-> "unstarted"]
  /\ ending = "none"

Moves ==
  {<<s, s>> : s \in Stages} \union
  {<<"unstarted", "live">>, <<"unstarted", "failed">>,
   <<"live", "succeeded">>, <<"live", "failed">>}

(* Calls start in input order, and one may fail before it is live.         *)
Advance ==
  /\ \A i \in Calls : <<stage[i], stage'[i]>> \in Moves
  /\ \A i, j \in Calls : i < j /\ stage'[j] # "unstarted" => stage'[i] # "unstarted"

Quiescent(s) == \A i \in Calls : s[i] # "live"

Return == Quiescent(stage') /\ \A i \in Calls : stage'[i] = "succeeded"

Fail == Quiescent(stage') /\ \E i \in Calls : stage'[i] = "failed"

(* The batch may end in the step in which its last call does.              *)
Next ==
  /\ ending = "none"
  /\ Advance
  /\ \/ UNCHANGED ending
     \/ Return /\ ending' = "returned"
     \/ Fail /\ ending' = "failure"
     \/ Quiescent(stage') /\ ending' = "cancelled"

Spec == Init /\ [][Next]_vars
=============================================================================
