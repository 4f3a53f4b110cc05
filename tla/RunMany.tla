------------------------------- MODULE RunMany -------------------------------
(***************************************************************************)
(* run_many: calls in input order as tasks, a bounded number of them       *)
(* pending at a time, and the same with the first call made alone so that  *)
(* the provider's prompt cache is warm for the others.                     *)
(*                                                                         *)
(* The caller is one task and each call another.  A call that ends and the *)
(* caller that wakes are separate steps, so several calls may have ended,  *)
(* or failed, when the caller runs.  A cancelled call may end as it likes, *)
(* in particular it may swallow the cancellation.                          *)
(***************************************************************************)
EXTENDS Integers, FiniteSets

CONSTANTS
  N,             \* the number of calls
  MaxPending     \* max_pending

BatchAssumption == N \in Nat /\ MaxPending \in Nat \ {0}

Calls == 1..N

VARIABLES
  pc,            \* the await of the caller, or how its call ended
  state,         \* how far each call is
  pending,       \* the keys and values of pending_run_one_index_by_task
  next,          \* next_run_one_index
  results,       \* the calls whose result is stored
  failure,       \* the call whose exception propagates, 0 if none does
  interrupted,   \* the caller has a cancellation it has not received
  wasCancelled   \* the calls that were asked to cancel

vars == <<pc, state, pending, next, results, failure, interrupted, wasCancelled>>

Live == {i \in Calls : state[i] = "running"}
Done(i) == state[i] \in {"succeeded", "failed"}
(* The call, and the call with warm_cache.                                 *)
Called == {"called", "called_warm"}
Awaiting == {"warming", "waiting", "settling"}
Ended == {"returned", "raised", "cancelled"}

TypeOK ==
  /\ pc \in Called \union Awaiting \union Ended
  /\ state \in [Calls -> {"unstarted", "running", "succeeded", "failed"}]
  /\ pending \subseteq Calls
  /\ next \in 1..(N + 1)
  /\ results \subseteq Calls
  /\ failure \in 0..N
  /\ interrupted \in BOOLEAN
  /\ wasCancelled \subseteq Calls

Init ==
  /\ pc \in Called
  /\ state = [i \in Calls |-> "unstarted"]
  /\ pending = {}
  /\ next = 1
  /\ results = {}
  /\ failure = 0
  /\ interrupted = FALSE
  /\ wasCancelled = {}

(***************************************************************************)
(* The inner loop creates tasks up to the bound.  The creation of one of   *)
(* them may raise, when the callable does or does not return a coroutine.  *)
(***************************************************************************)
FillOneTooMany(waiting, from) ==  (* mutant *)
  {i \in Calls : i >= from /\ i <= from + MaxPending - Cardinality(waiting)}

Fill(waiting, from) ==
  {i \in Calls : i >= from /\ i < from + MaxPending - Cardinality(waiting)}

CancelNobody(st, rest) == wasCancelled  (* mutant *)

CancelPending(st, rest) == wasCancelled \union {i \in rest : st[i] = "running"}

RaiseAtOnce(st, rest, culprit) ==  (* mutant *)
  /\ state' = st
  /\ wasCancelled' = CancelPending(st, rest)
  /\ pending' = rest
  /\ failure' = culprit
  /\ pc' = IF culprit = 0 THEN "cancelled" ELSE "raised"

(* The except clause: cancel what is pending, and settle it first.         *)
RaiseAfterSettling(st, rest, culprit) ==
  /\ state' = st
  /\ wasCancelled' = CancelPending(st, rest)
  /\ pending' = rest
  /\ failure' = culprit
  /\ pc' = IF rest # {} THEN "settling" ELSE IF culprit = 0 THEN "cancelled" ELSE "raised"

FillAndWait(st, rest, from) ==
  LET filled == Fill(rest, from)
  IN \/ /\ state' = [i \in Calls |-> IF i \in filled THEN "running" ELSE st[i]]
        /\ pending' = rest \union filled
        /\ next' = from + Cardinality(filled)
        /\ pc' = IF pending' = {} THEN "returned" ELSE "waiting"
        /\ UNCHANGED <<failure, wasCancelled>>
     \/ \E culprit \in filled :
          LET created == {i \in filled : i < culprit}
          IN /\ next' = culprit
             /\ RaiseAfterSettling([i \in Calls |->
                                      IF i = culprit THEN "failed"
                                      ELSE IF i \in created THEN "running" ELSE st[i]],
                                   rest \union created, culprit)

-----------------------------------------------------------------------------
CallFirstAlone ==
  /\ pc = "called_warm" /\ N > 0
  /\ state' = [state EXCEPT ![1] = "running"]
  /\ next' = 2
  /\ pc' = "warming"
  /\ UNCHANGED <<pending, results, failure, interrupted, wasCancelled>>

CallAll ==
  /\ pc = "called" \/ (pc = "called_warm" /\ N = 0)
  /\ FillAndWait(state, {}, 1)
  /\ UNCHANGED <<results, interrupted>>

(* The first call is awaited directly and ends in the caller's own step.   *)
FirstSucceeds ==
  /\ pc = "warming"
  /\ results' = {1}
  /\ FillAndWait([state EXCEPT ![1] = "succeeded"], {}, 2)
  /\ interrupted' = FALSE

FirstFails ==
  /\ pc = "warming"
  /\ state' = [state EXCEPT ![1] = "failed"]
  /\ \/ pc' = "raised" /\ failure' = 1
     \/ interrupted /\ pc' = "cancelled" /\ UNCHANGED failure
  /\ interrupted' = FALSE
  /\ UNCHANGED <<pending, next, results, wasCancelled>>

CallEnds(i) ==
  /\ state[i] = "running"
  /\ pc # "warming"
  /\ \E s \in {"succeeded", "failed"} : state' = [state EXCEPT ![i] = s]
  /\ UNCHANGED <<pc, pending, next, results, failure, interrupted, wasCancelled>>

CallerCancels ==
  /\ pc \in Awaiting
  /\ ~interrupted
  /\ interrupted' = TRUE
  /\ UNCHANGED <<pc, state, pending, next, results, failure, wasCancelled>>

(* The caller takes results in input order up to the first failure.        *)
Settled == {i \in pending : Done(i)}

NoFailureSeen(settled) == {}  (* mutant *)

AnyFailure(settled) == {i \in settled : state[i] = "failed"}  (* mutant *)

FirstFailure(settled) ==
  {i \in settled : state[i] = "failed" /\ \A j \in settled : state[j] = "failed" => i <= j}

TakeResults ==
  /\ pc = "waiting"
  /\ ~interrupted
  /\ Settled # {}
  /\ IF FirstFailure(Settled) = {}
     THEN /\ results' = results \union Settled
          /\ FillAndWait(state, pending \ Settled, next)
     ELSE \E culprit \in FirstFailure(Settled) :
          LET taken == {i \in Settled : i < culprit}
          IN /\ results' = results \union taken
             /\ RaiseAfterSettling(state, pending \ (taken \union {culprit}), culprit)
             /\ UNCHANGED next
  /\ UNCHANGED interrupted

Cancelled ==
  /\ pc = "waiting"
  /\ interrupted
  /\ interrupted' = FALSE
  /\ RaiseAfterSettling(state, pending, 0)
  /\ UNCHANGED <<next, results>>

GiveUpSettling ==  (* mutant *)
  /\ pc = "settling"
  /\ interrupted
  /\ interrupted' = FALSE
  /\ pc' = "cancelled"
  /\ UNCHANGED <<state, pending, next, results, failure, wasCancelled>>

(* A further cancellation does not end the settling.                       *)
CancelledAgain ==
  /\ pc = "settling"
  /\ interrupted
  /\ interrupted' = FALSE
  /\ UNCHANGED <<pc, state, pending, next, results, failure, wasCancelled>>

SettleCancelled ==
  /\ pc = "settling"
  /\ ~interrupted
  /\ Settled # {}
  /\ pending' = pending \ Settled
  /\ pc' = IF pending' # {} THEN "settling" ELSE IF failure = 0 THEN "cancelled" ELSE "raised"
  /\ UNCHANGED <<state, next, results, failure, interrupted, wasCancelled>>

Finished == pc \in Ended /\ UNCHANGED vars

CallerRuns == TakeResults \/ Cancelled \/ CancelledAgain \/ SettleCancelled

Next ==
  \/ CallFirstAlone \/ CallAll
  \/ FirstSucceeds \/ FirstFails
  \/ \E i \in Calls : CallEnds(i)
  \/ CallerCancels
  \/ CallerRuns
  \/ Finished

(* The loop runs a caller that is ready, and a call ends once it has been  *)
(* asked to cancel; one that was not asked may take for ever.  Strong      *)
(* fairness of the settling says that the caller is not cancelled anew in  *)
(* every turn: each cancellation takes the place of a result.              *)
Fairness ==
  /\ WF_vars(CallFirstAlone \/ CallAll)
  /\ WF_vars(TakeResults)
  /\ SF_vars(SettleCancelled)
  /\ WF_vars(Cancelled \/ CancelledAgain)
  /\ \A i \in Calls : WF_vars(i \in wasCancelled /\ CallEnds(i))

Spec == Init /\ [][Next]_vars /\ Fairness

-----------------------------------------------------------------------------
(* max_pending limits tasks from creation through completion, the ones     *)
(* whose result the caller has yet to take included.                       *)
BoundIsKept == Cardinality(pending) <= MaxPending

(* Whatever ended run_many, and however often its caller cancelled it      *)
(* meanwhile, none of its tasks runs on, and each was given the time to    *)
(* settle.                                                                 *)
NothingIsLeftRunning == pc \in Ended => Live = {} /\ pending = {}

(* "Concurrent failures propagate by the lowest input index": of the calls *)
(* whose failure the caller could see when it took results.                *)
LowestFailureWins ==
  [][failure = 0 /\ failure' # 0 =>
       \A i \in pending : i < failure' => state[i] # "failed"]_vars

(* It returns only if every call succeeded, with every result in place.    *)
ReturnedIsComplete ==
  pc = "returned" => results = Calls /\ \A i \in Calls : state[i] = "succeeded"

(* A failed or cancelled batch ends although no call ends by itself: every *)
(* task left pending is asked to cancel.                                   *)
ErrorsPropagate == pc = "settling" ~> pc \in {"raised", "cancelled"}

-----------------------------------------------------------------------------
Batch == INSTANCE OrderedBatch WITH
  stage <- [i \in Calls |-> IF state[i] = "running" THEN "live" ELSE state[i]],
  ending <- CASE pc = "returned" -> "returned" [] pc = "raised" -> "failure"
              [] pc = "cancelled" -> "cancelled" [] OTHER -> "none"

(* run_many is an ordered batch.                                           *)
ImplementsBatch == Batch!Init /\ [][Batch!Next]_(Batch!vars)
=============================================================================
