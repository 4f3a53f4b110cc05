------------------------------ MODULE RetryWaits ------------------------------
(***************************************************************************)
(* The waits of several retry loops that share one rate-limit quota.       *)
(*                                                                         *)
(* A failed request is judged by RequestFailures, told to the quota and    *)
(* waited for: by the pause of the quota, or in the loop's own             *)
(* PrivateBackoff.  The quota admits as soon as its pause is over; its     *)
(* queue, permits and growing ceiling are SharedBackoff's subject.         *)
(***************************************************************************)
EXTENDS RequestFailures

CONSTANTS
  Inputs,       (* the retry loops                                         *)
  MaxRequests,  (* max_requests                                            *)
  MinCeiling,   (* min_wait_ceiling_seconds                                *)
  Multiplier,   (* wait_multiplier                                         *)
  MaxWait       (* max_wait_seconds                                        *)

ASSUME InputsAssumption == MaxRequests \in Nat \ {0}
ASSUME CeilingAssumption ==
  MinCeiling \in Nat \ {0} /\ MaxWait \in Nat /\ MaxWait >= MinCeiling /\ Multiplier \in Nat \ {0, 1}
ASSUME PowersAssumption ==
  /\ Multiplier ^ 0 = 1
  /\ \A n \in 0..MaxRequests :
       Multiplier ^ n \in Nat /\ Multiplier ^ (n + 1) = Multiplier * (Multiplier ^ n)

VARIABLES
  adapter,   (* whose adapter judges the failures                          *)
  phase,     (* where each loop stands                                     *)
  requests,  (* request_count of its ledger                                *)
  ceiling,   (* PrivateBackoff._wait_ceiling                               *)
  waitLeft,  (* what is left of its private wait                           *)
  pauseLeft, (* what is left of the shared pause                           *)
  owed,      (* what is left of the wait the provider stated to the quota  *)
  owedTo,    (* what is left of the wait it stated to one loop             *)
  unpaused   (* how often each loop failed without pausing the quota       *)

vars == <<adapter, phase, requests, ceiling, waitLeft, pauseLeft, owed, owedTo, unpaused>>

Phases == {"admission", "requesting", "backoff", "ended"}

Least(a, b) == IF a <= b THEN a ELSE b
Most(a, b) == IF a >= b THEN a ELSE b
OneLess(n) == IF n > 0 THEN n - 1 ELSE 0

(* What a failed request comes to, and the least wait that it states in    *)
(* any place, 0 for none.                                                  *)
Stated(error) == {error.headers.ms, error.headers.plain, error.retryInfo} \intersect Waits

DemandOf(error) ==
  IF Stated(error) = {} THEN 0 ELSE CHOOSE n \in Stated(error) : \A other \in Stated(error) : n <= other

FailedRequests ==
  UNION {{[adapter |-> p, failure |-> RequestFailureOf(p, error), demand |-> DemandOf(error)] :
            error \in ErrorsOf(p)} : p \in Providers}

-----------------------------------------------------------------------------
(* SharedBackoff._recorded caps the wait the provider stated.              *)
Normalized(failure) ==
  IF failure.retryAfter = None THEN failure
  ELSE [failure EXCEPT !.retryAfter = Least(failure.retryAfter, MaxWait)]

OnlyTheLastPause(failure) ==  (* mutant: pauses do not merge *)
  \/ /\ failure.pausesQuota
     /\ pauseLeft' \in (IF failure.retryAfter # None THEN {failure.retryAfter} ELSE 1..MaxWait)
  \/ ~failure.pausesQuota /\ UNCHANGED pauseLeft

(* Without a stated wait the pause is drawn under the shared ceiling.      *)
RecordPause(failure) ==
  \/ /\ failure.pausesQuota
     /\ \E wait \in IF failure.retryAfter # None THEN {failure.retryAfter} ELSE 1..MaxWait :
          pauseLeft' = Most(pauseLeft, wait)
  \/ ~failure.pausesQuota /\ UNCHANGED pauseLeft

RaisedBy(drawn, retryAfter) == IF retryAfter = None THEN drawn ELSE Most(drawn, retryAfter)

GrowEveryCeiling(i) ==  (* mutant: one PrivateBackoff serves all the loops *)
  ceiling' = [j \in Inputs |-> Least(ceiling[j] * Multiplier, MaxWait)]
GrowCeiling(i) == ceiling' = [ceiling EXCEPT ![i] = Least(@ * Multiplier, MaxWait)]

(* PrivateBackoff.next_wait_seconds                                        *)
NextWaitSeconds(i, retryAfter) ==
  /\ \E drawn \in 1..ceiling[i] :
       waitLeft' = [waitLeft EXCEPT ![i] = RaisedBy(drawn, retryAfter)]
  /\ GrowCeiling(i)

(* The top of the loop, after a request that is recorded.                  *)
LoopOrExhaust(i) ==
  phase' = [phase EXCEPT ![i] = IF requests[i] < MaxRequests THEN "admission" ELSE "ended"]

(* _settle_failed_request                                                  *)
SettleWithoutLimit(i, failure) ==  (* mutant: the last failure is waited for, too *)
  \/ /\ failure.kind # "transient"
     /\ phase' = [phase EXCEPT ![i] = "ended"]
     /\ UNCHANGED <<waitLeft, ceiling>>
  \/ /\ failure.kind = "transient"
     /\ NextWaitSeconds(i, failure.retryAfter)
     /\ phase' = [phase EXCEPT ![i] = "backoff"]

SettleFailedRequest(i, failure) ==
  \/ /\ failure.kind # "transient"
     /\ phase' = [phase EXCEPT ![i] = "ended"]
     /\ UNCHANGED <<waitLeft, ceiling>>
  \/ /\ failure.kind = "transient"
     /\ failure.pausesQuota \/ requests[i] >= MaxRequests
     /\ LoopOrExhaust(i)
     /\ UNCHANGED <<waitLeft, ceiling>>
  \/ /\ failure.kind = "transient"
     /\ ~failure.pausesQuota /\ requests[i] < MaxRequests
     /\ NextWaitSeconds(i, failure.retryAfter)
     /\ phase' = [phase EXCEPT ![i] = "backoff"]

-----------------------------------------------------------------------------
Init ==
  /\ adapter \in Providers
  /\ phase = [i \in Inputs |-> "admission"]
  /\ requests = [i \in Inputs |-> 0]
  /\ ceiling = [i \in Inputs |-> MinCeiling]
  /\ waitLeft = [i \in Inputs |-> 0]
  /\ pauseLeft = 0
  /\ owed = 0
  /\ owedTo = [i \in Inputs |-> 0]
  /\ unpaused = [i \in Inputs |-> 0]

SendUncounted(i) ==  (* mutant *)
  /\ phase[i] = "admission" /\ pauseLeft = 0
  /\ phase' = [phase EXCEPT ![i] = "requesting"]
  /\ UNCHANGED <<adapter, requests, ceiling, waitLeft, pauseLeft, owed, owedTo, unpaused>>

Send(i) ==
  /\ phase[i] = "admission" /\ pauseLeft = 0
  /\ phase' = [phase EXCEPT ![i] = "requesting"]
  /\ requests' = [requests EXCEPT ![i] = @ + 1]
  /\ UNCHANGED <<adapter, ceiling, waitLeft, pauseLeft, owed, owedTo, unpaused>>

Succeed(i) ==
  /\ phase[i] = "requesting"
  /\ phase' = [phase EXCEPT ![i] = "ended"]
  /\ UNCHANGED <<adapter, requests, ceiling, waitLeft, pauseLeft, owed, owedTo, unpaused>>

(* The failure is mapped and recorded inside the block, settled after it.  *)
Fail(i) ==
  /\ phase[i] = "requesting"
  /\ \E failed \in {request \in FailedRequests : request.adapter = adapter} :
       LET failure == Normalized(failed.failure)
           demand == Least(failed.demand, MaxWait)
       IN /\ RecordPause(failure)
          /\ SettleFailedRequest(i, failure)
          /\ owed' = IF failure.pausesQuota THEN Most(owed, demand) ELSE owed
          /\ owedTo' = [owedTo EXCEPT ![i] = IF failure.kind = "transient" THEN demand ELSE 0]
          /\ unpaused' = [unpaused EXCEPT ![i] =
               IF failure.kind = "transient" /\ ~failure.pausesQuota /\ requests[i] < MaxRequests
               THEN Least(@ + 1, MaxRequests) ELSE @]
  /\ UNCHANGED <<adapter, requests>>

WaitOver(i) ==
  /\ phase[i] = "backoff" /\ waitLeft[i] = 0
  /\ phase' = [phase EXCEPT ![i] = "admission"]
  /\ UNCHANGED <<adapter, requests, ceiling, waitLeft, pauseLeft, owed, owedTo, unpaused>>

Waiting == pauseLeft > 0 \/ owed > 0 \/ \E i \in Inputs : waitLeft[i] > 0 \/ owedTo[i] > 0

Tick ==
  /\ Waiting
  /\ pauseLeft' = OneLess(pauseLeft)
  /\ owed' = OneLess(owed)
  /\ waitLeft' = [i \in Inputs |-> OneLess(waitLeft[i])]
  /\ owedTo' = [i \in Inputs |-> OneLess(owedTo[i])]
  /\ UNCHANGED <<adapter, phase, requests, ceiling, unpaused>>

Finished == (\A i \in Inputs : phase[i] = "ended") /\ ~Waiting /\ UNCHANGED vars

Next ==
  \/ \E i \in Inputs : Send(i) \/ Succeed(i) \/ Fail(i) \/ WaitOver(i)
  \/ Tick
  \/ Finished

(* Sleeping tasks wake, an admissible request is admitted, and a provider  *)
(* answers or fails: RequestLoop shows what a deadline does if it does     *)
(* not.                                                                    *)
Fairness ==
  /\ WF_vars(Tick)
  /\ \A i \in Inputs : /\ WF_vars(WaitOver(i)) /\ SF_vars(Send(i))
                       /\ WF_vars(Succeed(i) \/ Fail(i))

Spec == Init /\ [][Next]_vars /\ Fairness

-----------------------------------------------------------------------------
TypeOK ==
  /\ adapter \in Providers
  /\ phase \in [Inputs -> Phases]
  /\ requests \in [Inputs -> 0..MaxRequests]
  /\ ceiling \in [Inputs -> MinCeiling..MaxWait]
  /\ waitLeft \in [Inputs -> 0..MaxWait]
  /\ pauseLeft \in 0..MaxWait
  /\ owed \in 0..MaxWait
  /\ owedTo \in [Inputs -> 0..MaxWait]
  /\ unpaused \in [Inputs -> 0..MaxRequests]  (* saturates there *)

(* No request starts while a wait is owed that the provider stated, to the *)
(* quota by any request or to this loop by its last one, up to the cap:    *)
(* whichever adapter judged it, in whichever place the wait was stated.    *)
NoRequestBeforeItsTime ==
  [][\A i \in Inputs : phase[i] # "requesting" /\ phase'[i] = "requesting" =>
       owed = 0 /\ owedTo[i] = 0]_vars

(* A loop's k-th private wait is drawn under a ceiling that has grown      *)
(* k - 1 times, whatever the quota and the other loops have met meanwhile. *)
CeilingFollowsOwnFailures ==
  \A i \in Inputs : ceiling[i] = Least(MinCeiling * (Multiplier ^ unpaused[i]), MaxWait)

(* A loop that has used its requests ends at once: it does not sleep for a *)
(* retry that it may not send.                                             *)
NoWaitWithoutARetry ==
  \A i \in Inputs : phase[i] \in {"backoff", "admission"} => requests[i] < MaxRequests

(* Every input ends, however often the quota is paused for it.  An input   *)
(* that has ended stays so.                                                *)
EveryInputEnds == <>(\A i \in Inputs : phase[i] = "ended")
=============================================================================
