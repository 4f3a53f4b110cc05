--------------------------- MODULE SharedBackoff ---------------------------
(***************************************************************************)
(* One SharedBackoff object and the requests that enter its admitted()     *)
(* blocks: the FIFO queue of futures, the permit counter, the shared pause *)
(* with its wait ceiling, the request-start interval and the one timer     *)
(* that wakes the front of the queue.                                      *)
(*                                                                         *)
(* Everything runs on one event loop, so a step of the model is what the   *)
(* code does between two suspension points.  Clock readings are kept as    *)
(* ages relative to now: the code only ever compares them with now and     *)
(* with each other.                                                        *)
(***************************************************************************)
EXTENDS Integers, Sequences, FiniteSets

CONSTANTS
  Requests,       (* callers of admitted(), each in at most one block      *)
  MaxConcurrent,  (* max_concurrent_requests, Unlimited for None           *)
  MinCeiling,     (* min_wait_ceiling_seconds                              *)
  MaxWait,        (* max_wait_seconds                                      *)
  Multiplier,     (* wait_multiplier                                       *)
  Quiet,          (* quiet_seconds_per_decay_step                          *)
  StepsToFloor,   (* _steps_to_floor                                       *)
  Interval,       (* _seconds_between_request_starts                       *)
  StatedWaits     (* retry_after values a provider may state               *)

Unlimited == 0

ASSUME PermitAssumption == MaxConcurrent \in Nat
ASSUME WaitAssumption ==
  /\ MinCeiling \in Nat \ {0}
  /\ MaxWait \in Nat
  /\ MaxWait >= MinCeiling
  /\ StatedWaits \subseteq Int
ASSUME DecayAssumption ==
  /\ Multiplier \in Nat \ {0, 1}
  /\ Quiet \in Nat \ {0}
  /\ StepsToFloor \in Nat
  /\ \A steps \in 0..StepsToFloor : Multiplier ^ steps \in Nat \ {0}
  /\ MinCeiling * (Multiplier ^ StepsToFloor) >= MaxWait
(* A zero interval needs a rate so high that the clock absorbs it.         *)
ASSUME IntervalAssumption == Interval \in Nat \ {0}

VARIABLES
  phase,         (* where each request stands, see Phases                  *)
  queue,         (* _queue: the futures waiting for admission              *)
  permitsHeld,   (* _permits_held                                          *)
  pauseAge,      (* now - _pause_until, negative while paused              *)
  waitCeiling,   (* _wait_ceiling                                          *)
  admissionAge,  (* now - _last_admission_at                               *)
  timer          (* _admit_timer: time until it is due, or one of the two: *)

NoTimer == -1    (* no handle                                              *)
StaleTimer == -2 (* a handle left on an event loop that has ended          *)

vars == <<phase, queue, permitsHeld, pauseAge, waitCeiling, admissionAge, timer>>

(***************************************************************************)
(* idle      not in a block                                                *)
(* pending   awaits its future in _wait_turn                               *)
(* cancelled its future was cancelled, the task has not run since          *)
(* granted   its future was resolved, the task has not run since           *)
(* revoked   granted, then cancelled before the task ran                   *)
(* admitted  inside the block                                              *)
(* drained   a stream that returned its permit and may still report        *)
(***************************************************************************)
Phases == {"idle", "pending", "cancelled", "granted", "revoked", "admitted", "drained"}

Larger(a, b) == IF a >= b THEN a ELSE b
Smaller(a, b) == IF a <= b THEN a ELSE b

(* Ages saturate here.  A pause that ended this long ago, like the _NEVER  *)
(* of a new object, restarts the ceiling from its floor.                   *)
AgeCap == Larger(Interval, Quiet * Larger(1, StepsToFloor))

Waiting == {r \in Requests : phase[r] = "pending"}
HoldersIn(ph) == {r \in Requests : ph[r] \in {"granted", "revoked", "admitted"}}
Holders == HoldersIn(phase)

Position(r) == {i \in DOMAIN queue : queue[i] = r}

PermitFree(held) == MaxConcurrent = Unlimited \/ held < MaxConcurrent

(* Time until a request may start, given the age of the pause's end.       *)
AdmissibleIn(pause) == Larger(0, Larger(-pause, Interval - admissionAge))

(* Where the run of spent futures that follows entry "from" of q ends.     *)
SpentRun(q, ph, from) ==
  {n \in from..Len(q) : /\ \A i \in (from + 1)..n : ph[q[i]] = "cancelled"
                        /\ n < Len(q) => ph[q[n + 1]] # "cancelled"}

(* The caller's own future is resolved before it is awaited: no suspension *)
(* separates that grant from the block.                                    *)
GrantedPhase(r) == IF phase[r] = "idle" THEN "admitted" ELSE "granted"

(* _arm_admit_timer, given the handle it replaces, live or not.            *)
ArmOnlyOnce(handle, delay) == IF handle = NoTimer THEN delay ELSE handle  (* mutant *)
ArmAdmitTimer(handle, delay) == delay

(***************************************************************************)
(* _admit_waiting, entered with the given queue, permit count, phases and  *)
(* timer handle, after pauseAge' is settled.  After a grant the loop meets *)
(* the request-start interval, so it grants at most once.                  *)
(***************************************************************************)
AdmitWaiting(q, held, ph, handle) ==
  \E front \in SpentRun(q, ph, 0) :
    \/ /\ front = Len(q) \/ ~PermitFree(held)
       /\ queue' = SubSeq(q, front + 1, Len(q))
       /\ permitsHeld' = held
       /\ phase' = ph
       /\ timer' = handle
       /\ UNCHANGED admissionAge
    \/ /\ front < Len(q) /\ PermitFree(held)
       /\ AdmissibleIn(pauseAge') > 0
       /\ queue' = SubSeq(q, front + 1, Len(q))
       /\ permitsHeld' = held
       /\ phase' = ph
       /\ timer' = ArmAdmitTimer(handle, AdmissibleIn(pauseAge'))
       /\ UNCHANGED admissionAge
    \/ /\ front < Len(q) /\ PermitFree(held)
       /\ AdmissibleIn(pauseAge') = 0
       /\ permitsHeld' = held + 1
       /\ phase' = [ph EXCEPT ![q[front + 1]] = GrantedPhase(q[front + 1])]
       /\ admissionAge' = 0
       /\ \E next \in SpentRun(q, ph, front + 1) :
            /\ queue' = SubSeq(q, next + 1, Len(q))
            /\ timer' = IF next < Len(q) /\ PermitFree(held + 1)
                        THEN ArmAdmitTimer(handle, Interval) ELSE handle

(* _release_permit by request r, which moves on to the phase given.        *)
ReleasePermit(r, next) ==
  AdmitWaiting(queue, permitsHeld - 1, [phase EXCEPT ![r] = next], timer)

-----------------------------------------------------------------------------
(***************************************************************************)
(* Recording a failure.                                                    *)
(***************************************************************************)
NoRetryAfter == 0
InvalidRetryAfter == -1  (* any value that is not finite and positive      *)
Failures ==
  [pausesQuota : BOOLEAN,
   retryAfter : StatedWaits \union {NoRetryAfter, InvalidRetryAfter}]

(* Invalid values count as absent; the rest are capped.                    *)
NormalizedRetryAfter(stated) ==
  IF stated <= 0 THEN NoRetryAfter ELSE Smaller(stated, MaxWait)

(* The stated wait, or a random draw under the ceiling.                    *)
ChosenWaits(failure, ceiling) ==
  LET stated == NormalizedRetryAfter(failure.retryAfter)
  IN  IF stated # NoRetryAfter THEN {stated} ELSE 1..ceiling

UncappedGrowth == waitCeiling * Multiplier  (* mutant *)
GrownCeiling == Smaller(waitCeiling * Multiplier, MaxWait)

(* _set_wait_ceiling at the start of a new pause.                          *)
GrowAtEveryPause == IF pauseAge < Quiet THEN GrownCeiling ELSE MinCeiling  (* mutant *)
NextCeiling ==
  LET steps == pauseAge \div Quiet IN
  CASE steps >= 1 /\ steps >= StepsToFloor -> MinCeiling
    [] steps >= 1 /\ steps < StepsToFloor ->
         Larger(waitCeiling \div (Multiplier ^ steps), MinCeiling)
    [] steps < 1 /\ admissionAge < pauseAge -> GrownCeiling
    [] OTHER -> waitCeiling

ReplacePause(failure) ==  (* mutant *)
  /\ pauseAge < 0
  /\ \E wait \in ChosenWaits(failure, waitCeiling) : pauseAge' = -wait
  /\ UNCHANGED waitCeiling

ExtendPause(failure) ==
  /\ pauseAge < 0
  /\ \E wait \in ChosenWaits(failure, waitCeiling) :
       pauseAge' = -Larger(-pauseAge, wait)
  /\ UNCHANGED waitCeiling

StartPause(failure) ==
  /\ pauseAge >= 0
  /\ waitCeiling' = NextCeiling
  /\ \E wait \in ChosenWaits(failure, NextCeiling) : pauseAge' = -wait

Record(failure) ==
  \/ failure.pausesQuota /\ (ExtendPause(failure) \/ StartPause(failure))
  \/ ~failure.pausesQuota /\ UNCHANGED <<pauseAge, waitCeiling>>

-----------------------------------------------------------------------------
Init ==
  /\ phase = [r \in Requests |-> "idle"]
  /\ queue = <<>>
  /\ permitsHeld = 0
  /\ pauseAge = AgeCap
  /\ waitCeiling = MinCeiling
  /\ admissionAge = AgeCap
  /\ timer = NoTimer

JoinWithFastPath(r) ==  (* mutant: a free permit is taken before queueing *)
  /\ phase[r] = "idle"
  /\ UNCHANGED <<pauseAge, waitCeiling>>
  /\ IF PermitFree(permitsHeld) /\ AdmissibleIn(pauseAge) = 0
     THEN /\ permitsHeld' = permitsHeld + 1
          /\ phase' = [phase EXCEPT ![r] = "admitted"]
          /\ admissionAge' = 0
          /\ UNCHANGED <<queue, timer>>
     ELSE AdmitWaiting(Append(queue, r), permitsHeld, [phase EXCEPT ![r] = "pending"], timer)

(* __aenter__ up to the await of the new future.                           *)
Join(r) ==
  /\ phase[r] = "idle"
  /\ UNCHANGED <<pauseAge, waitCeiling>>
  /\ AdmitWaiting(Append(queue, r), permitsHeld, [phase EXCEPT ![r] = "pending"], timer)

(* The caller's task is cancelled, or its admission budget expires, while  *)
(* it waits.  The future is cancelled now; the task runs later.            *)
Cancel(r) ==
  /\ phase[r] \in {"pending", "granted"}
  /\ phase' = [phase EXCEPT ![r] = IF @ = "pending" THEN "cancelled" ELSE "revoked"]
  /\ UNCHANGED <<queue, permitsHeld, pauseAge, waitCeiling, admissionAge, timer>>

(* The granted task runs and enters its block.                             *)
WakeGranted(r) ==
  /\ phase[r] = "granted"
  /\ phase' = [phase EXCEPT ![r] = "admitted"]
  /\ UNCHANGED <<queue, permitsHeld, pauseAge, waitCeiling, admissionAge, timer>>

(* The cancelled task runs: its entry leaves the queue unless              *)
(* _admit_waiting dropped it already.                                      *)
WakeCancelled(r) ==
  /\ phase[r] = "cancelled"
  /\ phase' = [phase EXCEPT ![r] = "idle"]
  /\ \/ Position(r) = {} /\ UNCHANGED queue
     \/ \E i \in Position(r) :
          queue' = SubSeq(queue, 1, i - 1) \o SubSeq(queue, i + 1, Len(queue))
  /\ UNCHANGED <<permitsHeld, pauseAge, waitCeiling, admissionAge, timer>>

WakeRevokedKeepingPermit(r) ==  (* mutant *)
  /\ phase[r] = "revoked"
  /\ phase' = [phase EXCEPT ![r] = "idle"]
  /\ UNCHANGED <<queue, permitsHeld, pauseAge, waitCeiling, admissionAge, timer>>

(* The task cancelled after its grant runs: it returns the permit.         *)
WakeRevoked(r) ==
  /\ phase[r] = "revoked"
  /\ UNCHANGED <<pauseAge, waitCeiling>>
  /\ ReleasePermit(r, "idle")

(* The block ends without a failure to record; a drained stream keeps its  *)
(* right to report.                                                        *)
Exit(r) ==
  /\ phase[r] = "admitted"
  /\ UNCHANGED <<pauseAge, waitCeiling>>
  /\ \E next \in {"idle", "drained"} : ReleasePermit(r, next)

(* Admission.record inside the block, then the block ends.                 *)
FailAndExit(r, failure) ==
  /\ phase[r] = "admitted"
  /\ Record(failure)
  /\ ReleasePermit(r, "idle")

(* A drained stream finishes, and may report a failure its final message   *)
(* turned out to carry.                                                    *)
ReportDrained(r, failure) ==
  /\ phase[r] = "drained"
  /\ Record(failure)
  /\ phase' = [phase EXCEPT ![r] = "idle"]
  /\ UNCHANGED <<queue, permitsHeld, admissionAge, timer>>

TimerOnlyClears ==  (* mutant *)
  /\ timer = 0
  /\ timer' = NoTimer
  /\ UNCHANGED <<phase, queue, permitsHeld, pauseAge, waitCeiling, admissionAge>>

(* _on_admit_timer                                                         *)
TimerFires ==
  /\ timer = 0
  /\ UNCHANGED <<pauseAge, waitCeiling>>
  /\ AdmitWaiting(queue, permitsHeld, phase, NoTimer)

(* The event loop ends with every task finished, and another one starts.   *)
LoopRestarts ==
  /\ \A r \in Requests : phase[r] = "idle"
  /\ timer >= 0
  /\ timer' = StaleTimer
  /\ UNCHANGED <<phase, queue, permitsHeld, pauseAge, waitCeiling, admissionAge>>

(* Time passes; a due timer may fire late.                                 *)
Tick ==
  /\ pauseAge' = Smaller(pauseAge + 1, AgeCap)
  /\ admissionAge' = Smaller(admissionAge + 1, AgeCap)
  /\ timer' = IF timer > 0 THEN timer - 1 ELSE timer
  /\ UNCHANGED <<phase, queue, permitsHeld, waitCeiling>>

Next ==
  \/ \E r \in Requests :
       \/ Join(r) \/ Cancel(r)
       \/ WakeGranted(r) \/ WakeCancelled(r) \/ WakeRevoked(r)
       \/ Exit(r)
       \/ \E failure \in Failures : FailAndExit(r, failure) \/ ReportDrained(r, failure)
  \/ TimerFires
  \/ LoopRestarts
  \/ Tick

Spec == Init /\ [][Next]_vars

(* The event loop runs every ready task and due timer, time passes, and    *)
(* every admitted request ends.                                            *)
Ends(r) == Exit(r) \/ \E failure \in Failures : FailAndExit(r, failure)

Fairness ==
  /\ WF_vars(TimerFires)
  /\ WF_vars(Tick)
  /\ \A r \in Requests :
       /\ WF_vars(WakeGranted(r))
       /\ WF_vars(WakeCancelled(r))
       /\ WF_vars(WakeRevoked(r))
       /\ WF_vars(Ends(r))

FairSpec == Spec /\ Fairness

-----------------------------------------------------------------------------
TypeOK ==
  /\ phase \in [Requests -> Phases]
  /\ queue \in Seq(Requests)
  /\ permitsHeld \in Int
  /\ pauseAge \in (-MaxWait)..AgeCap
  /\ waitCeiling \in MinCeiling..MaxWait
  /\ admissionAge \in 0..AgeCap
  /\ timer \in Int

(***************************************************************************)
(* Every permit counted is held by exactly one request between its grant   *)
(* and its release, and no more than max_concurrent_requests are out.      *)
(* A request cancelled between its grant and its wake-up still counts.     *)
(***************************************************************************)
PermitAccounting ==
  /\ permitsHeld = Cardinality(Holders)
  /\ MaxConcurrent # Unlimited => permitsHeld <= MaxConcurrent

(***************************************************************************)
(* While a request waits and a permit is free, a live timer is due no      *)
(* later than the moment the request may start.  This is what lets         *)
(* _admit_waiting return without polling, drop cancelled fronts without a  *)
(* wake-up of their own, and survive a timer lost with its event loop.     *)
(***************************************************************************)
NoLostWakeup ==
  Waiting # {} /\ PermitFree(permitsHeld) => timer \in 0..AdmissibleIn(pauseAge)

(***************************************************************************)
(* Requests are admitted in the order they joined: a waiting request stays *)
(* ahead of those behind it and of those not yet queued, until it leaves.  *)
(***************************************************************************)
Ahead(r, s) ==
  /\ phase[r] = "pending"
  /\ \/ phase[s] \in {"idle", "drained"}
     \/ phase[s] = "pending" /\ \A i \in Position(r), j \in Position(s) : i < j

FirstComeFirstServed ==
  [][\A r, s \in Requests :
       r # s /\ Ahead(r, s) /\ phase'[r] = "pending" =>
         /\ phase'[s] \notin {"granted", "admitted"}
         /\ phase'[s] = "pending" => Ahead(r, s)']_vars

(***************************************************************************)
(* A request that waits is admitted or gives up, although each admitted    *)
(* request may fail and extend the pause, and others keep joining.         *)
(***************************************************************************)
EveryWaiterLeavesTheQueue ==
  \A r \in Requests : phase[r] = "pending" ~> phase[r] # "pending"
=============================================================================
