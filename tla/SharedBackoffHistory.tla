------------------------ MODULE SharedBackoffHistory ------------------------
(***************************************************************************)
(* SharedBackoff with two history variables the code does not keep, to     *)
(* state what its docstrings promise about the past: the waits providers   *)
(* stated, and whether traffic resumed after a pause.                      *)
(***************************************************************************)
EXTENDS SharedBackoff

VARIABLES
  owed,     (* what is left of the longest wait a provider stated          *)
  resumed   (* a request was admitted since the last pause                 *)

historyVars == <<phase, queue, permitsHeld, pauseAge, waitCeiling, admissionAge,
                 timer, owed, resumed>>

HistoryInit == Init /\ owed = 0 /\ resumed = FALSE

(* An admission stamps the clock, a whole interval after the last one.      *)
Admitted == admissionAge' = 0 /\ admissionAge # 0

(* A pause that starts forgets the traffic before it, an admission is      *)
(* remembered.  No step does both: nothing is admitted during a pause.     *)
ObserveTraffic ==
  resumed' = IF pauseAge >= 0 /\ pauseAge' < 0 THEN FALSE ELSE resumed \/ Admitted

(* What the failure of this step states, zero when it states nothing the   *)
(* quota has to wait for.                                                  *)
StatedBy(failure) ==
  IF failure.pausesQuota THEN NormalizedRetryAfter(failure.retryAfter) ELSE 0

HistoryNext ==
  \/ \E r \in Requests, failure \in Failures :
       /\ FailAndExit(r, failure) \/ ReportDrained(r, failure)
       /\ owed' = Larger(owed, StatedBy(failure))
       /\ ObserveTraffic
  \/ \E r \in Requests :
       /\ \/ Join(r) \/ Cancel(r) \/ Exit(r)
          \/ WakeGranted(r) \/ WakeCancelled(r) \/ WakeRevoked(r)
       /\ UNCHANGED owed
       /\ ObserveTraffic
  \/ /\ TimerFires \/ LoopRestarts
     /\ UNCHANGED owed
     /\ ObserveTraffic
  \/ Tick /\ owed' = Larger(0, owed - 1) /\ UNCHANGED resumed

HistorySpec == HistoryInit /\ [][HistoryNext]_historyVars

FairHistorySpec == HistorySpec /\ Fairness

-----------------------------------------------------------------------------
Contract ==
  INSTANCE AdmissionContract WITH
    waiting <- Waiting,
    holders <- Holders,
    restLeft <- Larger(0, Interval - admissionAge)

(***************************************************************************)
(* SharedBackoff keeps its contract with the quota: permits bounded,       *)
(* starts spaced, and no start while a stated wait is owed, whichever      *)
(* request it was stated to, merged with whatever pause, and even when the *)
(* failing request's own exit admits the next one.                         *)
(***************************************************************************)
ImplementsContract == Contract!ContractSpec

(***************************************************************************)
(* The herd of requests that were out when a pause began raises the wait   *)
(* ceiling at most once, however many of them fail: it grows again only    *)
(* after a request was admitted since that pause.                          *)
(***************************************************************************)
CeilingGrowsOncePerHerd ==
  [][waitCeiling' > waitCeiling => resumed]_historyVars

(***************************************************************************)
(* _set_wait_ceiling's docstring: "Resumed traffic without a full quiet    *)
(* step grows _wait_ceiling by wait_multiplier", up to max_wait_seconds.   *)
(***************************************************************************)
ResumedTrafficGrowsTheCeiling ==
  [][pauseAge >= 0 /\ pauseAge' < 0 /\ resumed /\ pauseAge < Quiet
       => waitCeiling' = Smaller(waitCeiling * Multiplier, MaxWait)]_historyVars
=============================================================================
