------------------------- MODULE AdmissionContract -------------------------
(***************************************************************************)
(* What SharedBackoff promises one rate-limit quota, without its queue,    *)
(* timer, clock readings or ceiling: at most MaxConcurrent requests are    *)
(* out, request starts keep their interval, and every wait a provider      *)
(* stated is over before any request starts, the one that takes over the   *)
(* failed request's permit included.                                       *)
(***************************************************************************)
EXTENDS Integers, FiniteSets

CONSTANTS Requests, MaxConcurrent, MaxWait, Interval

Unlimited == 0

VARIABLES
  waiting,   (* requests that want to start                                *)
  holders,   (* requests that started and have not ended                   *)
  owed,      (* what is left of the longest wait a provider stated         *)
  restLeft   (* time until the request-start interval has passed           *)

contractVars == <<waiting, holders, owed, restLeft>>

Capacity(held) == MaxConcurrent = Unlimited \/ Cardinality(held) < MaxConcurrent

(* From the given waiting and holding requests, one request starts or none *)
(* does.  A start needs the wait owed after this very step to be over.     *)
Admit(queued, held) ==
  \/ /\ waiting' = queued
     /\ holders' = held
     /\ UNCHANGED restLeft
  \/ /\ Capacity(held) /\ owed' = 0 /\ restLeft = 0
     /\ \E r \in queued :
          /\ waiting' = queued \ {r}
          /\ holders' = held \union {r}
     /\ restLeft' = Interval

(* A failure that states a wait.                                           *)
Owe(stated) == owed' = IF stated > owed THEN stated ELSE owed

ContractInit ==
  /\ waiting = {}
  /\ holders = {}
  /\ owed = 0
  /\ restLeft = 0

Arrive(r) ==
  /\ r \notin waiting \union holders
  /\ UNCHANGED owed
  /\ Admit(waiting \union {r}, holders)

GiveUp(r) ==
  /\ r \in waiting
  /\ waiting' = waiting \ {r}
  /\ UNCHANGED <<holders, owed, restLeft>>

Start ==
  /\ UNCHANGED owed
  /\ Admit(waiting, holders)

Finish(r, stated) ==
  /\ r \in holders
  /\ Owe(stated)
  /\ Admit(waiting, holders \ {r})

ReportLate(stated) ==
  /\ Owe(stated)
  /\ UNCHANGED <<waiting, holders, restLeft>>

Pass ==
  /\ owed' = IF owed > 0 THEN owed - 1 ELSE 0
  /\ restLeft' = IF restLeft > 0 THEN restLeft - 1 ELSE 0
  /\ UNCHANGED <<waiting, holders>>

ContractNext ==
  \/ \E r \in Requests :
       \/ Arrive(r) \/ GiveUp(r)
       \/ \E stated \in 0..MaxWait : Finish(r, stated)
  \/ Start
  \/ \E stated \in 0..MaxWait : ReportLate(stated)
  \/ Pass

ContractSpec == ContractInit /\ [][ContractNext]_contractVars
=============================================================================
