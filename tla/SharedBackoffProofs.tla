------------------------ MODULE SharedBackoffProofs ------------------------
(***************************************************************************)
(* Safety of SharedBackoff for every set of requests, every permit limit   *)
(* and every setting of the waits, and what it promises about the past: it *)
(* implements AdmissionContract, and one herd of failures raises the wait  *)
(* ceiling once.  Last, what a batch does to its quota, for any number of  *)
(* inputs and permits, any budget and any number of spare tasks.           *)
(***************************************************************************)
EXTENDS BatchOverQuota, SharedBackoffHistory, FiniteSetTheorems, SequenceTheorems, TLAPS

(* The queue holds each waiting request once, and besides them only        *)
(* cancelled ones whose task has not run.                                  *)
Queued(q, ph) ==
  /\ \A i \in 1..Len(q) : ph[q[i]] \in {"pending", "cancelled"}
  /\ \A i, j \in 1..Len(q) : q[i] = q[j] => i = j
  /\ \A r \in Requests : ph[r] = "pending" => \E i \in 1..Len(q) : q[i] = r

Inv ==
  /\ TypeOK
  /\ Queued(queue, phase)
  /\ IsFiniteSet(Holders)
  /\ PermitAccounting
  /\ NoLostWakeup

-----------------------------------------------------------------------------
(* Constants and arithmetic.                                               *)

LEMMA LargerType ==
  \A a, b \in Int : Larger(a, b) \in {a, b} /\ Larger(a, b) >= a /\ Larger(a, b) >= b
BY DEF Larger

LEMMA AgeCapType == AgeCap \in Nat /\ AgeCap >= Interval /\ AgeCap >= Quiet
<1>1. Larger(1, StepsToFloor) \in Nat /\ Larger(1, StepsToFloor) >= 1
  BY DecayAssumption DEF Larger
<1>2. /\ Quiet * Larger(1, StepsToFloor) \in Nat
      /\ Quiet * Larger(1, StepsToFloor) >= Quiet
  BY <1>1, DecayAssumption
<1>3. QED
  BY <1>2, IntervalAssumption, DecayAssumption DEF AgeCap, Larger

(* Shrinking a ceiling never raises it.                                    *)
LEMMA QuotientBound ==
  ASSUME NEW a \in Nat, NEW b \in Nat \ {0}
  PROVE  a \div b \in Nat /\ a \div b <= a
<1>1. a \div b \in Nat
  BY Z3
<1>2. b * (a \div b) <= a
  BY Z3
<1>3. a \div b <= b * (a \div b)
  BY <1>1
<1>4. QED
  BY <1>1, <1>2, <1>3

LEMMA AdmissibleInType ==
  ASSUME NEW pause \in Int, admissionAge \in Int
  PROVE  /\ AdmissibleIn(pause) \in Nat
         /\ AdmissibleIn(pause) >= -pause
         /\ AdmissibleIn(pause) >= Interval - admissionAge
         /\ AdmissibleIn(pause) \in {0, -pause, Interval - admissionAge}
<1>1. -pause \in Int /\ Interval - admissionAge \in Int
  BY IntervalAssumption
<1>2. QED
  BY <1>1, LargerType DEF AdmissibleIn

(* A pause that ends later is not over earlier.                            *)
LEMMA AdmissibleInMonotonic ==
  ASSUME NEW before \in Int, NEW after \in Int, after <= before, admissionAge \in Int
  PROVE  AdmissibleIn(after) >= AdmissibleIn(before)
<1>1. \A a, b, c \in Int : b <= c => Larger(a, b) <= Larger(a, c) /\ Larger(b, a) <= Larger(c, a)
  BY DEF Larger
<1>2. /\ -before \in Int /\ -after \in Int /\ -before <= -after
      /\ Interval - admissionAge \in Int
  BY IntervalAssumption
<1>3. /\ Larger(-before, Interval - admissionAge) \in Int
      /\ Larger(-after, Interval - admissionAge) \in Int
  BY <1>2, LargerType
<1>4. Larger(-before, Interval - admissionAge) <= Larger(-after, Interval - admissionAge)
  BY <1>1, <1>2
<1>5. Larger(0, Larger(-before, Interval - admissionAge))
        <= Larger(0, Larger(-after, Interval - admissionAge))
  BY <1>1, <1>3, <1>4
<1>6. AdmissibleIn(after) \in Int /\ AdmissibleIn(before) \in Int
  BY AdmissibleInType
<1>7. QED
  BY <1>5, <1>6 DEF AdmissibleIn

LEMMA NextCeilingType ==
  ASSUME TypeOK, pauseAge >= 0
  PROVE  NextCeiling \in MinCeiling..MaxWait
<1> DEFINE steps == pauseAge \div Quiet
<1>1. waitCeiling \in MinCeiling..MaxWait /\ MinCeiling \in Nat /\ MaxWait \in Nat
  BY WaitAssumption DEF TypeOK
<1>2. steps \in Nat
  BY AgeCapType, DecayAssumption, WaitAssumption, QuotientBound DEF TypeOK
<1>3. ASSUME steps >= 1, steps < StepsToFloor
      PROVE  Larger(waitCeiling \div (Multiplier ^ steps), MinCeiling) \in MinCeiling..MaxWait
  <2>1. Multiplier ^ steps \in Nat \ {0}
    BY <1>2, <1>3, DecayAssumption
  <2>2. /\ waitCeiling \div (Multiplier ^ steps) \in Nat
        /\ waitCeiling \div (Multiplier ^ steps) <= waitCeiling
    BY <1>1, <2>1, QuotientBound
  <2>3. QED
    BY <1>1, <2>2 DEF Larger
<1>4. GrownCeiling \in MinCeiling..MaxWait
  <2>1. waitCeiling * Multiplier \in Nat /\ waitCeiling * Multiplier >= waitCeiling
    BY <1>1, DecayAssumption
  <2>2. QED
    BY <1>1, <2>1 DEF GrownCeiling, Smaller
<1>5. MinCeiling \in MinCeiling..MaxWait
  BY WaitAssumption
<1>6. QED
  BY <1>1, <1>2, <1>3, <1>4, <1>5, DecayAssumption DEF NextCeiling

(* A recorded failure keeps the pause and the ceiling in range, and never  *)
(* moves the pause's end closer.                                           *)
LEMMA RecordType ==
  ASSUME TypeOK, NEW failure \in Failures, Record(failure)
  PROVE  /\ pauseAge' \in (-MaxWait)..AgeCap
         /\ waitCeiling' \in MinCeiling..MaxWait
         /\ pauseAge' <= pauseAge
<1>1. /\ waitCeiling \in MinCeiling..MaxWait /\ MinCeiling \in Nat \ {0} /\ MaxWait \in Nat
      /\ pauseAge \in (-MaxWait)..AgeCap /\ AgeCap \in Nat
  BY WaitAssumption, AgeCapType DEF TypeOK
<1>2. ASSUME NEW ceiling \in MinCeiling..MaxWait,
             NEW wait \in ChosenWaits(failure, ceiling)
      PROVE  wait \in 1..MaxWait
  <2>1. failure.retryAfter \in Int
    <3>1. failure.retryAfter \in StatedWaits \union {0, -1}
      BY DEF Failures, NoRetryAfter, InvalidRetryAfter
    <3>2. StatedWaits \subseteq Int /\ 0 \in Int /\ -1 \in Int
      BY WaitAssumption
    <3>3. QED
      BY <3>1, <3>2, Zenon
  <2>2. QED
    BY <1>1, <1>2, <2>1 DEF ChosenWaits, NormalizedRetryAfter, NoRetryAfter, Smaller
<1>3. CASE ExtendPause(failure)
  <2>1. PICK wait \in ChosenWaits(failure, waitCeiling) : pauseAge' = -Larger(-pauseAge, wait)
    BY <1>3 DEF ExtendPause
  <2>2. wait \in 1..MaxWait
    BY <1>1, <1>2
  <2>3. QED
    BY <1>1, <1>3, <2>1, <2>2 DEF ExtendPause, Larger
<1>4. CASE StartPause(failure)
  <2>1. NextCeiling \in MinCeiling..MaxWait
    BY <1>4, NextCeilingType DEF StartPause
  <2>2. PICK wait \in ChosenWaits(failure, NextCeiling) : pauseAge' = -wait
    BY <1>4 DEF StartPause
  <2>3. wait \in 1..MaxWait
    BY <1>2, <2>1
  <2>4. QED
    BY <1>1, <1>4, <2>1, <2>2, <2>3 DEF StartPause
<1>5. CASE UNCHANGED <<pauseAge, waitCeiling>>
  BY <1>1, <1>5
<1>6. QED
  BY <1>3, <1>4, <1>5 DEF Record

-----------------------------------------------------------------------------
(* The queue.                                                              *)

(* Dropping the first n entries.                                           *)
LEMMA Suffix ==
  ASSUME NEW q \in Seq(Requests), NEW n \in 0..Len(q)
  PROVE  /\ SubSeq(q, n + 1, Len(q)) \in Seq(Requests)
         /\ Len(SubSeq(q, n + 1, Len(q))) = Len(q) - n
         /\ \A i \in 1..(Len(q) - n) : SubSeq(q, n + 1, Len(q))[i] = q[n + i]
<1>1. Len(q) \in Nat /\ \A i \in (n + 1)..Len(q) : q[i] \in Requests
  BY ElementOfSeq
<1>2. n + 1 \in Int /\ Len(q) \in Int
  BY <1>1
<1>3. QED
  BY <1>1, <1>2, SubSeqProperties

(* A queue is well-formed again once its first n entries, none of them     *)
(* waiting any more, are dropped.                                          *)
QueuedAfter(q, ph, n) ==
  /\ \A i \in (n + 1)..Len(q) : ph[q[i]] \in {"pending", "cancelled"}
  /\ \A i, j \in (n + 1)..Len(q) : q[i] = q[j] => i = j
  /\ \A r \in Requests : ph[r] = "pending" => \E i \in (n + 1)..Len(q) : q[i] = r

LEMMA SuffixQueued ==
  ASSUME NEW q \in Seq(Requests), NEW ph, NEW n \in 0..Len(q), QueuedAfter(q, ph, n)
  PROVE  Queued(SubSeq(q, n + 1, Len(q)), ph)
<1> DEFINE rest == SubSeq(q, n + 1, Len(q))
<1>1. /\ Len(rest) = Len(q) - n
      /\ \A i \in 1..(Len(q) - n) : rest[i] = q[n + i]
      /\ Len(q) \in Nat
  BY Suffix
<1> HIDE DEF rest
<1>2. \A i \in 1..Len(rest) : n + i \in (n + 1)..Len(q) /\ rest[i] = q[n + i]
  BY <1>1
<1>3. \A i \in 1..Len(rest) : ph[rest[i]] \in {"pending", "cancelled"}
  BY <1>2 DEF QueuedAfter
<1>4. \A i, j \in 1..Len(rest) : rest[i] = rest[j] => i = j
  <2> SUFFICES ASSUME NEW i \in 1..Len(rest), NEW j \in 1..Len(rest), rest[i] = rest[j]
               PROVE  i = j
    OBVIOUS
  <2>1. n + i = n + j
    BY <1>2 DEF QueuedAfter
  <2>2. QED
    BY <1>1, <2>1
<1>5. ASSUME NEW r \in Requests, ph[r] = "pending"
      PROVE  \E i \in 1..Len(rest) : rest[i] = r
  <2>1. PICK k \in (n + 1)..Len(q) : q[k] = r
    BY <1>5 DEF QueuedAfter
  <2>2. k - n \in 1..(Len(q) - n) /\ n + (k - n) = k
    BY <1>1, <2>1
  <2>3. QED
    BY <1>1, <2>1, <2>2
<1>6. QED
  BY <1>3, <1>4, <1>5 DEF Queued, rest

-----------------------------------------------------------------------------
(***************************************************************************)
(* _admit_waiting.                                                         *)
(***************************************************************************)

(* No request starts.                                                      *)
KeepsAll(held, ph) ==
  /\ phase' = ph
  /\ permitsHeld' = held
  /\ admissionAge' = admissionAge

(* The waiting request r starts, entitled to.                              *)
Grants(r, held, ph) ==
  /\ ph[r] = "pending"
  /\ PermitFree(held)
  /\ AdmissibleIn(pauseAge') = 0
  /\ phase' = [ph EXCEPT ![r] = GrantedPhase(r)]
  /\ permitsHeld' = held + 1
  /\ admissionAge' = 0

LEMMA AdmitWaitingEffect ==
  ASSUME NEW q \in Seq(Requests), NEW held \in Int,
         NEW ph \in [Requests -> Phases], NEW handle \in Int,
         Queued(q, ph), admissionAge \in Int, pauseAge' \in Int,
         AdmitWaiting(q, held, ph, handle)
  PROVE  /\ queue' \in Seq(Requests)
         /\ Queued(queue', phase')
         /\ KeepsAll(held, ph) \/ \E r \in Requests : Grants(r, held, ph)
         /\ timer' \in Int
         /\ NoLostWakeup'
<1> DEFINE Rest(n) == SubSeq(q, n + 1, Len(q))
<1>1. Len(q) \in Nat /\ \A i \in 1..Len(q) : q[i] \in Requests
  BY ElementOfSeq
<1>2. PICK front \in SpentRun(q, ph, 0) : AdmitWaiting(q, held, ph, handle)!(front)
  BY DEF AdmitWaiting
<1>3. /\ front \in 0..Len(q)
      /\ \A i \in 1..front : ph[q[i]] = "cancelled"
      /\ front < Len(q) => ph[q[front + 1]] # "cancelled"
  BY <1>2 DEF SpentRun
<1>4. Rest(front) \in Seq(Requests) /\ Queued(Rest(front), ph)
  <2>1. ASSUME NEW r \in Requests, ph[r] = "pending"
        PROVE  \E i \in (front + 1)..Len(q) : q[i] = r
    <3>1. PICK i \in 1..Len(q) : q[i] = r
      BY <2>1 DEF Queued
    <3>2. i \notin 1..front
      BY <1>3, <2>1, <3>1
    <3>3. QED
      BY <1>1, <1>3, <3>1, <3>2
  <2>2. \A i \in (front + 1)..Len(q) : i \in 1..Len(q)
    BY <1>1, <1>3
  <2>3. /\ \A i \in (front + 1)..Len(q) : ph[q[i]] \in {"pending", "cancelled"}
        /\ \A i, j \in (front + 1)..Len(q) : q[i] = q[j] => i = j
    BY <2>2 DEF Queued
  <2>4. Queued(Rest(front), ph)
    <3>1. QueuedAfter(q, ph, front)
      BY <2>1, <2>3, Zenon DEF QueuedAfter
    <3>2. front \in 0..Len(q)
      BY <1>3
    <3>3. QED
      BY <3>1, <3>2, SuffixQueued, Zenon
  <2>5. QED
    BY <1>3, <2>4, Suffix
<1>5. CASE front = Len(q) \/ ~PermitFree(held)
  <2>1. /\ queue' = Rest(front)
        /\ KeepsAll(held, ph)
        /\ timer' = handle
    BY <1>2, <1>5 DEF KeepsAll
  <2>2. front = Len(q) => Waiting' = {}
    BY <1>3, <2>1 DEF Queued, Waiting, KeepsAll
  <2>3. ~PermitFree(held) => ~PermitFree(permitsHeld')
    BY <2>1 DEF KeepsAll
  <2>4. NoLostWakeup'
    BY <1>5, <2>2, <2>3 DEF NoLostWakeup, PermitFree
  <2>5. QED
    BY <1>4, <2>1, <2>4 DEF KeepsAll
<1>6. CASE front < Len(q) /\ PermitFree(held) /\ AdmissibleIn(pauseAge') > 0
  <2>1. /\ queue' = Rest(front)
        /\ KeepsAll(held, ph)
        /\ timer' = AdmissibleIn(pauseAge')
    BY <1>2, <1>6 DEF KeepsAll, ArmAdmitTimer
  <2>2. timer' \in Nat /\ timer' = AdmissibleIn(pauseAge)'
    <3>1. AdmissibleIn(pauseAge') \in Nat
      BY AdmissibleInType
    <3>2. AdmissibleIn(pauseAge)' = AdmissibleIn(pauseAge')
      BY <2>1 DEF AdmissibleIn, KeepsAll
    <3>3. QED
      BY <2>1, <3>1, <3>2
  <2>3. NoLostWakeup'
    BY <2>2 DEF NoLostWakeup
  <2>4. QED
    BY <1>4, <2>1, <2>2, <2>3 DEF KeepsAll
<1>7. CASE front < Len(q) /\ PermitFree(held) /\ AdmissibleIn(pauseAge') = 0
  <2> DEFINE h == q[front + 1]
  <2>1. front + 1 \in 1..Len(q) /\ h \in Requests
    BY <1>1, <1>3, <1>7
  <2>2. ph[h] = "pending"
    BY <1>3, <1>7, <2>1 DEF Queued
  <2>3. Grants(h, held, ph)
    BY <1>2, <1>7, <2>2 DEF Grants
  <2>4. PICK next \in SpentRun(q, ph, front + 1) :
          /\ queue' = Rest(next)
          /\ timer' = IF next < Len(q) /\ PermitFree(held + 1)
                      THEN Interval ELSE handle
    BY <1>2, <1>7 DEF ArmAdmitTimer
  <2>5. /\ next \in (front + 1)..Len(q)
        /\ \A i \in (front + 2)..next : ph[q[i]] = "cancelled"
    BY <1>3, <2>4 DEF SpentRun
  <2>6. Queued(queue', phase')
    <3>1. \A i \in 1..Len(q) : phase'[q[i]] = IF q[i] = h THEN GrantedPhase(h) ELSE ph[q[i]]
      BY <1>1, <2>1, <2>3 DEF Grants
    <3>2. \A i \in 1..Len(q) : q[i] = h => i = front + 1
      BY <2>1 DEF Queued
    <3>3. \A i \in (next + 1)..Len(q) : i \in 1..Len(q) /\ i # front + 1
      BY <1>1, <1>3, <2>5
    <3>4. \A i \in (next + 1)..Len(q) : phase'[q[i]] \in {"pending", "cancelled"}
      BY <3>1, <3>2, <3>3 DEF Queued
    <3>5. \A i, j \in (next + 1)..Len(q) : q[i] = q[j] => i = j
      BY <3>3 DEF Queued
    <3>6. ASSUME NEW r \in Requests, phase'[r] = "pending"
          PROVE  \E i \in (next + 1)..Len(q) : q[i] = r
      <4>1. r # h /\ ph[r] = "pending"
        BY <2>1, <2>3, <3>6 DEF Grants, GrantedPhase
      <4>2. PICK i \in 1..Len(q) : q[i] = r
        BY <4>1 DEF Queued
      <4>3. i \notin 1..front /\ i # front + 1 /\ i \notin (front + 2)..next
        BY <1>3, <2>5, <4>1, <4>2
      <4>4. QED
        BY <1>1, <1>3, <2>5, <4>2, <4>3
    <3>7. next \in 0..Len(q)
      BY <1>3, <2>5
    <3>8. Queued(Rest(next), phase')
      <4>1. PICK now : now = phase'
        OBVIOUS
      <4> HIDE DEF h
      <4>2. QueuedAfter(q, now, next)
        <5>1. \A r \in Requests : now[r] = "pending" => \E i \in (next + 1)..Len(q) : q[i] = r
          BY <3>6, <4>1
        <5>2. \A i \in (next + 1)..Len(q) : now[q[i]] \in {"pending", "cancelled"}
          BY <3>4, <4>1
        <5>3. QED
          BY <3>5, <5>1, <5>2, Zenon DEF QueuedAfter
      <4>3. Queued(Rest(next), now)
        BY <3>7, <4>2, SuffixQueued, Zenon
      <4>4. QED
        BY <4>1, <4>3
    <3>9. QED
      BY <2>4, <3>8
  <2>7. queue' \in Seq(Requests) /\ timer' \in Int
    BY <1>3, <2>1, <2>4, <2>5, Suffix, IntervalAssumption
  <2>8. NoLostWakeup'
    <3>1. next = Len(q) => Waiting' = {}
      <4>1. next = Len(q) => Len(queue') = 0
        BY <1>1, <1>3, <2>4, <2>5, Suffix
      <4>2. QED
        BY <2>6, <4>1 DEF Queued, Waiting
    <3>2. AdmissibleIn(pauseAge)' \in Nat /\ AdmissibleIn(pauseAge)' >= Interval
      <4>1. admissionAge' = 0
        BY <2>3 DEF Grants
      <4>2. AdmissibleIn(pauseAge)' = Larger(0, Larger(-(pauseAge'), Interval - 0))
        BY <4>1 DEF AdmissibleIn
      <4>3. Interval - 0 = Interval /\ -(pauseAge') \in Int /\ Interval \in Nat
        BY IntervalAssumption
      <4>4. QED
        BY <4>2, <4>3, LargerType
    <3>3. permitsHeld' = held + 1
      BY <2>3 DEF Grants
    <3>4. SUFFICES ASSUME Waiting' # {}, PermitFree(permitsHeld)'
                   PROVE  timer' \in 0..AdmissibleIn(pauseAge)'
      BY DEF NoLostWakeup
    <3>5. timer' = Interval
      BY <1>3, <2>4, <2>5, <3>1, <3>3, <3>4 DEF PermitFree
    <3>6. QED
      BY <3>2, <3>5, IntervalAssumption
  <2>9. QED
    BY <2>1, <2>3, <2>6, <2>7, <2>8
<1>8. QED
  BY <1>2, <1>5, <1>6, <1>7

(* A call of _admit_waiting from a state in order leaves one.              *)
LEMMA AdmitWaitingInv ==
  ASSUME TypeOK,
         NEW q \in Seq(Requests), NEW held \in Int,
         NEW ph \in [Requests -> Phases], NEW handle \in Int,
         Queued(q, ph),
         IsFiniteSet(HoldersIn(ph)), held = Cardinality(HoldersIn(ph)),
         MaxConcurrent # Unlimited => held <= MaxConcurrent,
         pauseAge' \in (-MaxWait)..AgeCap, waitCeiling' \in MinCeiling..MaxWait,
         AdmitWaiting(q, held, ph, handle)
  PROVE  Inv'
<1>1. admissionAge \in 0..AgeCap /\ AgeCap \in Nat /\ pauseAge' \in Int /\ admissionAge \in Int
  BY AgeCapType, WaitAssumption DEF TypeOK
<1>2. /\ queue' \in Seq(Requests)
      /\ Queued(queue', phase')
      /\ KeepsAll(held, ph) \/ \E r \in Requests : Grants(r, held, ph)
      /\ timer' \in Int
      /\ NoLostWakeup'
  BY <1>1, AdmitWaitingEffect
<1>3. CASE KeepsAll(held, ph)
  <2>1. Holders' = HoldersIn(ph) /\ permitsHeld' = held /\ phase' = ph
        /\ admissionAge' = admissionAge
    BY <1>3 DEF KeepsAll, Holders, HoldersIn
  <2>2. IsFiniteSet(Holders)' /\ PermitAccounting'
    BY <2>1 DEF PermitAccounting
  <2>3. TypeOK'
    BY <1>1, <1>2, <2>1 DEF TypeOK
  <2>4. QED
    BY <1>2, <2>2, <2>3 DEF Inv
<1>4. ASSUME NEW r \in Requests, Grants(r, held, ph)
      PROVE  Inv'
  <2>1. /\ phase' = [ph EXCEPT ![r] = GrantedPhase(r)]
        /\ GrantedPhase(r) \in {"granted", "admitted"}
        /\ ph[r] = "pending"
        /\ permitsHeld' = held + 1
        /\ admissionAge' = 0
        /\ PermitFree(held)
    BY <1>4 DEF Grants, GrantedPhase
  <2>2. Holders' = HoldersIn(ph) \union {r} /\ r \notin HoldersIn(ph)
    BY <2>1 DEF Holders, HoldersIn
  <2>3. IsFiniteSet(Holders)' /\ Cardinality(Holders') = Cardinality(HoldersIn(ph)) + 1
    BY <2>2, FS_AddElement
  <2>4. PermitAccounting'
    BY <2>1, <2>3, PermitAssumption DEF PermitAccounting, PermitFree
  <2>5. phase' \in [Requests -> Phases]
    BY <2>1 DEF Phases
  <2>6. TypeOK'
    BY <1>1, <1>2, <2>1, <2>5 DEF TypeOK
  <2>7. QED
    BY <1>2, <2>3, <2>4, <2>6 DEF Inv
<1>5. QED
  BY <1>2, <1>3, <1>4

(* The queue and the phases with which a release enters it are in order,   *)
(* and one request less holds a permit.                                    *)
LEMMA Leaving ==
  ASSUME Inv, NEW r \in Requests, phase[r] \in {"admitted", "revoked"},
         NEW next \in {"idle", "drained"}
  PROVE  LET ph == [phase EXCEPT ![r] = next]
         IN  /\ ph \in [Requests -> Phases]
             /\ HoldersIn(ph) = Holders \ {r}
             /\ IsFiniteSet(HoldersIn(ph))
             /\ permitsHeld - 1 = Cardinality(HoldersIn(ph))
             /\ MaxConcurrent # Unlimited => permitsHeld - 1 <= MaxConcurrent
             /\ Queued(queue, ph)
<1> DEFINE ph == [phase EXCEPT ![r] = next]
<1>1. /\ TypeOK /\ queue \in Seq(Requests) /\ phase \in [Requests -> Phases]
      /\ permitsHeld \in Int /\ Queued(queue, phase)
      /\ \A i \in 1..Len(queue) : queue[i] \in Requests
  BY ElementOfSeq DEF Inv, TypeOK
<1>2. ph \in [Requests -> Phases]
  BY <1>1 DEF Phases
<1>3. HoldersIn(ph) = Holders \ {r} /\ r \in Holders
  BY <1>1 DEF HoldersIn, Holders
<1>4. /\ IsFiniteSet(HoldersIn(ph))
      /\ Cardinality(HoldersIn(ph)) = Cardinality(Holders) - 1
  BY <1>3, FS_RemoveElement DEF Inv
<1>5. /\ permitsHeld - 1 = Cardinality(HoldersIn(ph))
      /\ MaxConcurrent # Unlimited => permitsHeld - 1 <= MaxConcurrent
  BY <1>1, <1>4, PermitAssumption DEF Inv, PermitAccounting
<1>6. Queued(queue, ph)
  <2>1. \A i \in 1..Len(queue) : queue[i] # r
    BY <1>1 DEF Queued
  <2>2. \A i \in 1..Len(queue) : ph[queue[i]] = phase[queue[i]]
    BY <1>1, <2>1
  <2>3. \A s \in Requests : ph[s] = "pending" => phase[s] = "pending"
    BY <1>1
  <2>4. QED
    BY <1>1, <2>2, <2>3 DEF Queued
<1>7. QED
  BY <1>2, <1>3, <1>4, <1>5, <1>6

(* So does the release of a permit by the request that holds it.           *)
LEMMA ReleaseInv ==
  ASSUME Inv, NEW r \in Requests, phase[r] \in {"admitted", "revoked"},
         NEW next \in {"idle", "drained"}, ReleasePermit(r, next),
         pauseAge' \in (-MaxWait)..AgeCap, waitCeiling' \in MinCeiling..MaxWait
  PROVE  Inv'
<1> DEFINE ph == [phase EXCEPT ![r] = next]
<1>1. /\ TypeOK /\ queue \in Seq(Requests) /\ timer \in Int /\ permitsHeld - 1 \in Int
  BY DEF Inv, TypeOK
<1>2. AdmitWaiting(queue, permitsHeld - 1, ph, timer)
  BY DEF ReleasePermit
<1>3. /\ ph \in [Requests -> Phases] /\ Queued(queue, ph)
      /\ IsFiniteSet(HoldersIn(ph)) /\ permitsHeld - 1 = Cardinality(HoldersIn(ph))
      /\ MaxConcurrent # Unlimited => permitsHeld - 1 <= MaxConcurrent
  BY Leaving
<1> HIDE DEF ph
<1>4. QED
  BY <1>1, <1>2, <1>3, AdmitWaitingInv

-----------------------------------------------------------------------------
LEMMA InitInv == Init => Inv
<1> SUFFICES ASSUME Init PROVE Inv
  OBVIOUS
<1>1. TypeOK
  BY AgeCapType, WaitAssumption, EmptySeq DEF Init, TypeOK, Phases, NoTimer
<1>2. Queued(queue, phase)
  BY EmptySeq DEF Init, Queued
<1>3. Holders = {} /\ Waiting = {}
  BY DEF Init, Holders, HoldersIn, Waiting
<1>4. IsFiniteSet(Holders) /\ PermitAccounting
  BY <1>3, FS_EmptySet, PermitAssumption DEF Init, PermitAccounting
<1>5. QED
  BY <1>1, <1>2, <1>3, <1>4 DEF Inv, NoLostWakeup

(* So are those with which a request joins.                                *)
LEMMA Joining ==
  ASSUME Inv, NEW r \in Requests, phase[r] = "idle"
  PROVE  LET q == Append(queue, r)
             ph == [phase EXCEPT ![r] = "pending"]
         IN  /\ q \in Seq(Requests)
             /\ Len(q) = Len(queue) + 1
             /\ \A i \in 1..Len(queue) : q[i] = queue[i]
             /\ q[Len(queue) + 1] = r
             /\ ph \in [Requests -> Phases]
             /\ HoldersIn(ph) = Holders
             /\ Queued(q, ph)
<1> DEFINE q == Append(queue, r)
           ph == [phase EXCEPT ![r] = "pending"]
<1>1. /\ queue \in Seq(Requests) /\ phase \in [Requests -> Phases]
      /\ Queued(queue, phase) /\ Len(queue) \in Nat
      /\ \A i \in 1..Len(queue) : queue[i] \in Requests
  BY ElementOfSeq DEF Inv, TypeOK
<1>2. /\ q \in Seq(Requests)
      /\ Len(q) = Len(queue) + 1
      /\ \A i \in 1..Len(queue) : q[i] = queue[i]
      /\ q[Len(queue) + 1] = r
  BY <1>1, AppendProperties
<1>3. ph \in [Requests -> Phases]
  BY <1>1 DEF Phases
<1>4. HoldersIn(ph) = Holders
  BY <1>1 DEF HoldersIn, Holders
<1>5. Queued(q, ph)
  <2>1. \A i \in 1..Len(queue) : queue[i] # r /\ ph[queue[i]] = phase[queue[i]]
    BY <1>1 DEF Queued
  <2>2. ph[r] = "pending" /\ \A s \in Requests : s # r => ph[s] = phase[s]
    BY <1>1
  <2> HIDE DEF q, ph
  <2>3. \A i \in 1..Len(q) : i \in 1..Len(queue) \/ i = Len(queue) + 1
    BY <1>1, <1>2
  <2>4. \A i \in 1..Len(q) : ph[q[i]] \in {"pending", "cancelled"}
    BY <1>1, <1>2, <2>1, <2>2, <2>3 DEF Queued
  <2>5. \A i, j \in 1..Len(q) : q[i] = q[j] => i = j
    BY <1>1, <1>2, <2>1, <2>3 DEF Queued
  <2>6. \A s \in Requests : ph[s] = "pending" => \E i \in 1..Len(q) : q[i] = s
    <3> SUFFICES ASSUME NEW s \in Requests, ph[s] = "pending"
                 PROVE  \E i \in 1..Len(q) : q[i] = s
      OBVIOUS
    <3>1. CASE s = r
      BY <1>1, <1>2, <3>1
    <3>2. CASE s # r
      <4>1. PICK i \in 1..Len(queue) : queue[i] = s
        BY <1>1, <2>2, <3>2 DEF Queued
      <4>2. QED
        BY <1>1, <1>2, <4>1
    <3>3. QED
      BY <3>1, <3>2
  <2>7. QED
    BY <2>4, <2>5, <2>6 DEF Queued
<1>6. QED
  BY <1>2, <1>3, <1>4, <1>5

LEMMA JoinInv ==
  ASSUME Inv, NEW r \in Requests, Join(r)
  PROVE  Inv'
<1> DEFINE q == Append(queue, r)
           ph == [phase EXCEPT ![r] = "pending"]
<1>1. /\ TypeOK /\ timer \in Int /\ permitsHeld \in Int /\ phase[r] = "idle"
      /\ pauseAge' \in (-MaxWait)..AgeCap /\ waitCeiling' \in MinCeiling..MaxWait
  BY DEF Inv, TypeOK, Join
<1>2. AdmitWaiting(q, permitsHeld, ph, timer)
  BY DEF Join
<1>3. /\ q \in Seq(Requests) /\ ph \in [Requests -> Phases] /\ Queued(q, ph)
      /\ HoldersIn(ph) = Holders
  BY <1>1, Joining
<1>4. /\ IsFiniteSet(HoldersIn(ph)) /\ permitsHeld = Cardinality(HoldersIn(ph))
      /\ MaxConcurrent # Unlimited => permitsHeld <= MaxConcurrent
  BY <1>3 DEF Inv, PermitAccounting
<1> HIDE DEF q, ph
<1>5. QED
  BY <1>1, <1>2, <1>3, <1>4, AdmitWaitingInv

LEMMA CancelInv ==
  ASSUME Inv, NEW r \in Requests, Cancel(r)
  PROVE  Inv'
<1> DEFINE next == IF phase[r] = "pending" THEN "cancelled" ELSE "revoked"
<1>1. /\ TypeOK /\ phase \in [Requests -> Phases] /\ queue \in Seq(Requests)
      /\ Queued(queue, phase) /\ phase[r] \in {"pending", "granted"}
      /\ \A i \in 1..Len(queue) : queue[i] \in Requests
  BY ElementOfSeq DEF Inv, TypeOK, Cancel
<1>2. /\ phase' = [phase EXCEPT ![r] = next]
      /\ UNCHANGED <<queue, permitsHeld, pauseAge, waitCeiling, admissionAge, timer>>
  BY DEF Cancel
<1>3. TypeOK'
  BY <1>1, <1>2 DEF TypeOK, Phases
<1>4. Queued(queue, phase)'
  <2>1. \A s \in Requests : phase'[s] = "pending" => phase[s] = "pending"
    BY <1>1, <1>2
  <2>2. \A i \in 1..Len(queue) : phase'[queue[i]] \in {"pending", "cancelled"}
    BY <1>1, <1>2 DEF Queued
  <2>3. QED
    BY <1>1, <1>2, <2>1, <2>2 DEF Queued
<1>5. Holders' = Holders
  BY <1>1, <1>2 DEF Holders, HoldersIn
<1>6. Waiting' \subseteq Waiting
  BY <1>1, <1>2 DEF Waiting
<1>7. NoLostWakeup'
  BY <1>2, <1>6 DEF Inv, NoLostWakeup, PermitFree, AdmissibleIn
<1>8. QED
  BY <1>2, <1>3, <1>4, <1>5, <1>7 DEF Inv, PermitAccounting

LEMMA WakeGrantedInv ==
  ASSUME Inv, NEW r \in Requests, WakeGranted(r)
  PROVE  Inv'
<1>1. /\ TypeOK /\ phase \in [Requests -> Phases] /\ queue \in Seq(Requests)
      /\ Queued(queue, phase) /\ phase[r] = "granted"
      /\ \A i \in 1..Len(queue) : queue[i] \in Requests
  BY ElementOfSeq DEF Inv, TypeOK, WakeGranted
<1>2. /\ phase' = [phase EXCEPT ![r] = "admitted"]
      /\ UNCHANGED <<queue, permitsHeld, pauseAge, waitCeiling, admissionAge, timer>>
  BY DEF WakeGranted
<1>3. TypeOK'
  BY <1>1, <1>2 DEF TypeOK, Phases
<1>4. Queued(queue, phase)'
  <2>1. \A i \in 1..Len(queue) : phase'[queue[i]] = phase[queue[i]]
    BY <1>1, <1>2 DEF Queued
  <2>2. QED
    BY <1>1, <1>2, <2>1 DEF Queued
<1>5. Holders' = Holders /\ Waiting' = Waiting
  BY <1>1, <1>2 DEF Holders, HoldersIn, Waiting
<1>6. QED
  BY <1>2, <1>3, <1>4, <1>5 DEF Inv, PermitAccounting, NoLostWakeup, PermitFree, AdmissibleIn

(* Removing the entry at i.                                                *)
LEMMA RemoveEntry ==
  ASSUME NEW q \in Seq(Requests), NEW i \in 1..Len(q)
  PROVE  LET rest == SubSeq(q, 1, i - 1) \o SubSeq(q, i + 1, Len(q))
         IN  /\ rest \in Seq(Requests)
             /\ Len(rest) = Len(q) - 1
             /\ \A j \in 1..(Len(q) - 1) : rest[j] = q[IF j < i THEN j ELSE j + 1]
<1> DEFINE front == SubSeq(q, 1, i - 1)
           back == SubSeq(q, i + 1, Len(q))
<1>1. Len(q) \in Nat /\ \A j \in 1..Len(q) : q[j] \in Requests
  BY ElementOfSeq
<1>2. /\ front \in Seq(Requests)
      /\ Len(front) = i - 1
      /\ \A j \in 1..(i - 1) : front[j] = q[j]
  <2>1. i - 1 \in Int /\ 1 \in Int /\ \A j \in 1..(i - 1) : q[j] \in Requests
    BY <1>1
  <2>2. /\ front \in Seq(Requests)
        /\ Len(front) = IF 1 <= i - 1 THEN (i - 1) - 1 + 1 ELSE 0
        /\ \A j \in 1..((i - 1) - 1 + 1) : front[j] = q[1 + j - 1]
    BY <2>1, SubSeqProperties
  <2> HIDE DEF front
  <2>3. QED
    BY <1>1, <2>2
<1>3. /\ back \in Seq(Requests)
      /\ Len(back) = Len(q) - i
      /\ \A j \in 1..(Len(q) - i) : back[j] = q[i + j]
  BY <1>1, Suffix
<1> HIDE DEF front, back
<1>4. /\ front \o back \in Seq(Requests)
      /\ Len(front \o back) = Len(front) + Len(back)
      /\ \A j \in 1..(Len(front) + Len(back)) :
           (front \o back)[j] = IF j <= Len(front) THEN front[j] ELSE back[j - Len(front)]
  BY <1>2, <1>3, ConcatProperties
<1>5. Len(front) + Len(back) = Len(q) - 1
  BY <1>1, <1>2, <1>3
<1>6. ASSUME NEW j \in 1..(Len(q) - 1)
      PROVE  (front \o back)[j] = q[IF j < i THEN j ELSE j + 1]
  <2>1. (front \o back)[j] = IF j <= i - 1 THEN front[j] ELSE back[j - (i - 1)]
    BY <1>2, <1>4, <1>5
  <2>2. CASE j < i
    BY <1>1, <1>2, <2>1, <2>2
  <2>3. CASE ~(j < i)
    <3>1. j - (i - 1) \in 1..(Len(q) - i) /\ i + (j - (i - 1)) = j + 1 /\ ~(j <= i - 1)
      BY <1>1, <2>3
    <3>2. QED
      BY <1>3, <2>1, <2>3, <3>1
  <2>4. QED
    BY <2>2, <2>3
<1>7. Len(front \o back) = Len(q) - 1
  BY <1>4, <1>5
<1>8. QED
  BY <1>4, <1>6, <1>7 DEF front, back

LEMMA WakeCancelledInv ==
  ASSUME Inv, NEW r \in Requests, WakeCancelled(r)
  PROVE  Inv'
<1>1. /\ TypeOK /\ phase \in [Requests -> Phases] /\ queue \in Seq(Requests)
      /\ Queued(queue, phase) /\ phase[r] = "cancelled"
      /\ Len(queue) \in Nat /\ DOMAIN queue = 1..Len(queue)
      /\ \A i \in 1..Len(queue) : queue[i] \in Requests
  BY ElementOfSeq, LenProperties DEF Inv, TypeOK, WakeCancelled
<1>2. /\ phase' = [phase EXCEPT ![r] = "idle"]
      /\ UNCHANGED <<permitsHeld, pauseAge, waitCeiling, admissionAge, timer>>
  BY DEF WakeCancelled
<1>3. Holders' = Holders /\ Waiting' = Waiting
  BY <1>1, <1>2 DEF Holders, HoldersIn, Waiting
<1>4. queue' \in Seq(Requests) /\ Queued(queue', phase')
  <2>1. CASE Position(r) = {} /\ UNCHANGED queue
    <3>1. \A i \in 1..Len(queue) : phase'[queue[i]] = phase[queue[i]]
      BY <1>1, <1>2, <2>1 DEF Position
    <3>2. \A s \in Requests : phase'[s] = "pending" => phase[s] = "pending"
      BY <1>1, <1>2
    <3>3. QED
      BY <1>1, <2>1, <3>1, <3>2 DEF Queued
  <2>2. ASSUME NEW i \in Position(r),
               queue' = SubSeq(queue, 1, i - 1) \o SubSeq(queue, i + 1, Len(queue))
        PROVE  queue' \in Seq(Requests) /\ Queued(queue', phase')
    <3> DEFINE old(j) == IF j < i THEN j ELSE j + 1
    <3>1. i \in 1..Len(queue) /\ queue[i] = r
      BY <1>1 DEF Position
    <3>2. /\ queue' \in Seq(Requests)
          /\ Len(queue') = Len(queue) - 1
          /\ \A j \in 1..(Len(queue) - 1) : queue'[j] = queue[old(j)]
      BY <1>1, <2>2, <3>1, RemoveEntry
    <3>3. \A j \in 1..Len(queue') : old(j) \in 1..Len(queue) /\ old(j) # i
      BY <1>1, <3>1, <3>2
    <3>4. \A j, k \in 1..Len(queue') : old(j) = old(k) => j = k
      BY <1>1, <3>1, <3>2
    <3>5. \A k \in 1..Len(queue) : k # i => \E j \in 1..Len(queue') : old(j) = k
      <4> SUFFICES ASSUME NEW k \in 1..Len(queue), k # i
                   PROVE  \E j \in 1..Len(queue') : old(j) = k
        OBVIOUS
      <4>1. CASE k < i
        BY <1>1, <3>1, <3>2, <4>1
      <4>2. CASE k > i
        <5>1. k - 1 \in 1..Len(queue') /\ old(k - 1) = k
          BY <1>1, <3>1, <3>2, <4>2
        <5>2. QED
          BY <5>1
      <4>3. QED
        BY <1>1, <3>1, <4>1, <4>2
    <3> HIDE DEF old
    <3>6. \A j \in 1..Len(queue') : queue'[j] = queue[old(j)]
      BY <3>2
    <3>7. \A k \in 1..Len(queue) : k # i => queue[k] # r
      BY <3>1 DEF Queued, Inv
    <3>8. \A j \in 1..Len(queue') : phase'[queue'[j]] \in {"pending", "cancelled"}
      BY <1>1, <1>2, <3>3, <3>6, <3>7 DEF Queued
    <3>9. \A j, k \in 1..Len(queue') : queue'[j] = queue'[k] => j = k
      BY <1>1, <3>3, <3>4, <3>6 DEF Queued
    <3>10. ASSUME NEW s \in Requests, phase'[s] = "pending"
           PROVE  \E j \in 1..Len(queue') : queue'[j] = s
      <4>1. s # r /\ phase[s] = "pending"
        BY <1>1, <1>2, <3>10
      <4>2. PICK k \in 1..Len(queue) : queue[k] = s
        BY <1>1, <4>1 DEF Queued
      <4>3. QED
        BY <3>1, <3>5, <3>6, <4>1, <4>2
    <3>11. QED
      BY <3>2, <3>8, <3>9, <3>10 DEF Queued
  <2>3. QED
    BY <2>1, <2>2 DEF WakeCancelled
<1>5. TypeOK'
  BY <1>1, <1>2, <1>4 DEF TypeOK, Phases
<1>6. QED
  BY <1>2, <1>3, <1>4, <1>5 DEF Inv, PermitAccounting, NoLostWakeup, PermitFree, AdmissibleIn

LEMMA ReportDrainedInv ==
  ASSUME Inv, NEW r \in Requests, NEW failure \in Failures, ReportDrained(r, failure)
  PROVE  Inv'
<1>1. /\ TypeOK /\ phase \in [Requests -> Phases] /\ queue \in Seq(Requests)
      /\ Queued(queue, phase) /\ phase[r] = "drained"
      /\ \A i \in 1..Len(queue) : queue[i] \in Requests
  BY ElementOfSeq DEF Inv, TypeOK, ReportDrained
<1>2. /\ phase' = [phase EXCEPT ![r] = "idle"]
      /\ UNCHANGED <<queue, permitsHeld, admissionAge, timer>>
  BY DEF ReportDrained
<1>3. /\ pauseAge' \in (-MaxWait)..AgeCap
      /\ waitCeiling' \in MinCeiling..MaxWait
      /\ pauseAge' <= pauseAge
  BY <1>1, RecordType DEF ReportDrained
<1>4. TypeOK'
  BY <1>1, <1>2, <1>3 DEF TypeOK, Phases
<1>5. Queued(queue, phase)'
  <2>1. \A i \in 1..Len(queue) : phase'[queue[i]] = phase[queue[i]]
    BY <1>1, <1>2 DEF Queued
  <2>2. QED
    BY <1>1, <1>2, <2>1 DEF Queued
<1>6. Holders' = Holders /\ Waiting' = Waiting
  BY <1>1, <1>2 DEF Holders, HoldersIn, Waiting
<1>7. NoLostWakeup'
  <2>1. /\ pauseAge \in Int /\ pauseAge' \in Int /\ -pauseAge <= -(pauseAge')
        /\ admissionAge \in Int
    <3>1. /\ pauseAge \in (-MaxWait)..AgeCap /\ admissionAge \in 0..AgeCap
          /\ AgeCap \in Int /\ -MaxWait \in Int
      BY <1>1, AgeCapType, WaitAssumption DEF TypeOK
    <3>2. pauseAge \in Int /\ pauseAge' \in Int /\ admissionAge \in Int
      BY <1>3, <3>1
    <3>3. \A a, b \in Int : b <= a => -a <= -b
      OBVIOUS
    <3>4. QED
      BY <1>3, <3>2, <3>3
  <2>2. /\ AdmissibleIn(pauseAge) \in Nat
        /\ AdmissibleIn(pauseAge) \in {0, -pauseAge, Interval - admissionAge}
    BY <2>1, AdmissibleInType
  <2>3. /\ AdmissibleIn(pauseAge') \in Nat
        /\ AdmissibleIn(pauseAge') >= -(pauseAge')
        /\ AdmissibleIn(pauseAge') >= Interval - admissionAge
    BY <2>1, AdmissibleInType
  <2>4. AdmissibleIn(pauseAge') >= AdmissibleIn(pauseAge)
    BY <2>1, <1>3, AdmissibleInMonotonic
  <2>5. AdmissibleIn(pauseAge)' = AdmissibleIn(pauseAge')
    BY <1>2 DEF AdmissibleIn
  <2>6. QED
    BY <1>2, <1>6, <2>2, <2>3, <2>4, <2>5 DEF Inv, NoLostWakeup, PermitFree
<1>8. QED
  BY <1>2, <1>4, <1>5, <1>6, <1>7 DEF Inv, PermitAccounting

LEMMA TimerFiresInv ==
  ASSUME Inv, TimerFires
  PROVE  Inv'
<1>1. /\ TypeOK /\ phase \in [Requests -> Phases] /\ queue \in Seq(Requests)
      /\ Queued(queue, phase) /\ permitsHeld \in Int /\ NoTimer \in Int
  BY DEF Inv, TypeOK, NoTimer
<1>2. AdmitWaiting(queue, permitsHeld, phase, NoTimer) /\ UNCHANGED <<pauseAge, waitCeiling>>
  BY DEF TimerFires
<1>3. pauseAge' \in (-MaxWait)..AgeCap /\ waitCeiling' \in MinCeiling..MaxWait
  BY <1>1, <1>2 DEF TypeOK
<1>4. /\ IsFiniteSet(HoldersIn(phase)) /\ permitsHeld = Cardinality(HoldersIn(phase))
      /\ MaxConcurrent # Unlimited => permitsHeld <= MaxConcurrent
  BY DEF Inv, PermitAccounting, Holders
<1>5. QED
  BY <1>1, <1>2, <1>3, <1>4, AdmitWaitingInv

LEMMA LoopRestartsInv ==
  ASSUME Inv, LoopRestarts
  PROVE  Inv'
<1>1. /\ timer' = StaleTimer /\ Waiting = {}
      /\ UNCHANGED <<phase, queue, permitsHeld, pauseAge, waitCeiling, admissionAge>>
  BY DEF LoopRestarts, Waiting
<1>2. Holders' = Holders /\ Waiting' = {}
  BY <1>1 DEF Holders, HoldersIn, Waiting
<1>3. TypeOK'
  BY <1>1 DEF Inv, TypeOK, StaleTimer
<1>4. QED
  BY <1>1, <1>2, <1>3 DEF Inv, Queued, PermitAccounting, NoLostWakeup

LEMMA TickInv ==
  ASSUME Inv, Tick
  PROVE  Inv'
<1>1. /\ TypeOK /\ AgeCap \in Nat /\ AgeCap >= Interval /\ Interval \in Nat \ {0}
      /\ MaxWait \in Nat
      /\ pauseAge \in (-MaxWait)..AgeCap /\ admissionAge \in 0..AgeCap /\ timer \in Int
  BY AgeCapType, IntervalAssumption, WaitAssumption DEF Inv, TypeOK
<1>2. /\ pauseAge' = Smaller(pauseAge + 1, AgeCap)
      /\ admissionAge' = Smaller(admissionAge + 1, AgeCap)
      /\ timer' = IF timer > 0 THEN timer - 1 ELSE timer
      /\ UNCHANGED <<phase, queue, permitsHeld, waitCeiling>>
  BY DEF Tick
<1>3. pauseAge' \in (-MaxWait)..AgeCap /\ admissionAge' \in 0..AgeCap /\ timer' \in Int
  BY <1>1, <1>2 DEF Smaller
<1>4. TypeOK'
  BY <1>1, <1>2, <1>3 DEF TypeOK
<1>5. Holders' = Holders /\ Waiting' = Waiting
  BY <1>2 DEF Holders, HoldersIn, Waiting
<1>6. NoLostWakeup'
  <2>1. /\ AdmissibleIn(pauseAge) \in Nat
        /\ AdmissibleIn(pauseAge) \in {0, -pauseAge, Interval - admissionAge}
    BY <1>1, AdmissibleInType
  <2>2. AdmissibleIn(pauseAge)' = Larger(0, Larger(-(pauseAge'), Interval - admissionAge'))
    BY DEF AdmissibleIn
  <2>3. /\ AdmissibleIn(pauseAge)' \in Nat
        /\ AdmissibleIn(pauseAge)' >= -(pauseAge')
        /\ AdmissibleIn(pauseAge)' >= Interval - admissionAge'
    BY <1>1, <1>3, <2>2, LargerType
  <2>4. AdmissibleIn(pauseAge)' >= AdmissibleIn(pauseAge) - 1
    BY <1>1, <1>2, <2>1, <2>3 DEF Smaller
  <2>5. QED
    BY <1>1, <1>2, <1>5, <2>1, <2>3, <2>4 DEF Inv, NoLostWakeup, PermitFree
<1>7. QED
  BY <1>2, <1>4, <1>5, <1>6 DEF Inv, Queued, PermitAccounting

-----------------------------------------------------------------------------
LEMMA NextInv == Inv /\ [Next]_vars => Inv'
<1> SUFFICES ASSUME Inv, [Next]_vars PROVE Inv'
  OBVIOUS
<1>1. pauseAge \in (-MaxWait)..AgeCap /\ waitCeiling \in MinCeiling..MaxWait
  BY DEF Inv, TypeOK
<1>2. ASSUME NEW r \in Requests, WakeRevoked(r)
      PROVE  Inv'
  BY <1>1, <1>2, ReleaseInv DEF WakeRevoked
<1>3. ASSUME NEW r \in Requests, Exit(r)
      PROVE  Inv'
  <2>1. PICK next \in {"idle", "drained"} : ReleasePermit(r, next)
    BY <1>3 DEF Exit
  <2>2. QED
    BY <1>1, <1>3, <2>1, ReleaseInv DEF Exit
<1>4. ASSUME NEW r \in Requests, NEW failure \in Failures, FailAndExit(r, failure)
      PROVE  Inv'
  <2>1. pauseAge' \in (-MaxWait)..AgeCap /\ waitCeiling' \in MinCeiling..MaxWait
    BY <1>4, RecordType DEF FailAndExit, Inv
  <2>2. QED
    BY <1>4, <2>1, ReleaseInv DEF FailAndExit
<1>5. CASE UNCHANGED vars
  BY <1>5 DEF vars, Inv, TypeOK, Queued, Holders, HoldersIn, PermitAccounting,
              NoLostWakeup, Waiting, PermitFree, AdmissibleIn
<1>6. QED
  BY <1>2, <1>3, <1>4, <1>5, JoinInv, CancelInv, WakeGrantedInv, WakeCancelledInv,
     ReportDrainedInv, TimerFiresInv, LoopRestartsInv, TickInv DEF Next

LEMMA Invariance == Spec => []Inv
<1>1. QED
  BY InitInv, NextInv, PTL DEF Spec

(* Every variable keeps its type; in particular the ceiling stays between  *)
(* its floor and max_wait_seconds, and no pause exceeds max_wait_seconds.  *)
THEOREM TypeCorrect == Spec => []TypeOK
<1>1. Inv => TypeOK
  BY DEF Inv
<1>2. QED
  BY <1>1, Invariance, PTL

(* _permits_held counts the requests that are out, and never exceeds       *)
(* max_concurrent_requests, whatever is cancelled whenever.                *)
THEOREM PermitsAreAccountedFor == Spec => []PermitAccounting
<1>1. Inv => PermitAccounting
  BY DEF Inv
<1>2. QED
  BY <1>1, Invariance, PTL

(* A request that waits beside a free permit has a live timer due in time. *)
THEOREM NoWakeupIsLost == Spec => []NoLostWakeup
<1>1. Inv => NoLostWakeup
  BY DEF Inv
<1>2. QED
  BY <1>1, Invariance, PTL
-----------------------------------------------------------------------------
(***************************************************************************)
(* The order of admission.                                                 *)
(***************************************************************************)

(* No entry of r is behind one of s.                                       *)
InOrder(q, r, s) == \A i, j \in 1..Len(q) : q[i] = r /\ q[j] = s => i < j

LEMMA SuffixInOrder ==
  ASSUME NEW q \in Seq(Requests), NEW n \in 0..Len(q), NEW r, NEW s, InOrder(q, r, s)
  PROVE  InOrder(SubSeq(q, n + 1, Len(q)), r, s)
<1> DEFINE rest == SubSeq(q, n + 1, Len(q))
<1>1. /\ Len(rest) = Len(q) - n /\ Len(q) \in Nat
      /\ \A i \in 1..(Len(q) - n) : rest[i] = q[n + i]
  BY Suffix
<1> HIDE DEF rest
<1>2. \A i \in 1..Len(rest) : n + i \in 1..Len(q) /\ rest[i] = q[n + i]
  BY <1>1
<1>3. ASSUME NEW i \in 1..Len(rest), NEW j \in 1..Len(rest), rest[i] = r, rest[j] = s
      PROVE  i < j
  <2>1. n + i < n + j
    BY <1>2, <1>3 DEF InOrder
  <2>2. QED
    BY <1>1, <2>1
<1>4. QED
  BY <1>3 DEF InOrder, rest

(* _admit_waiting passes nobody by: while r goes on waiting, nothing that  *)
(* is behind it in the queue is granted or comes before it.                *)
LEMMA AdmitWaitingOrder ==
  ASSUME NEW q \in Seq(Requests), NEW held, NEW ph \in [Requests -> Phases], NEW handle,
         Queued(q, ph), AdmitWaiting(q, held, ph, handle),
         NEW r \in Requests, NEW s \in Requests, ph[r] = "pending", phase'[r] = "pending",
         InOrder(q, r, s)
  PROVE  phase'[s] = ph[s] /\ InOrder(queue', r, s)
<1>1. PICK front \in SpentRun(q, ph, 0) : AdmitWaiting(q, held, ph, handle)!(front)
  BY DEF AdmitWaiting
<1>2. /\ front \in 0..Len(q) /\ Len(q) \in Nat
      /\ \A i \in 1..front : ph[q[i]] = "cancelled"
  BY <1>1 DEF SpentRun
<1>3. CASE queue' = SubSeq(q, front + 1, Len(q)) /\ phase' = ph
  BY <1>2, <1>3, SuffixInOrder
<1>4. CASE /\ front < Len(q)
           /\ phase' = [ph EXCEPT ![q[front + 1]] = GrantedPhase(q[front + 1])]
           /\ \E next \in SpentRun(q, ph, front + 1) : queue' = SubSeq(q, next + 1, Len(q))
  <2>1. PICK next \in SpentRun(q, ph, front + 1) : queue' = SubSeq(q, next + 1, Len(q))
    BY <1>4
  <2>2. next \in 0..Len(q)
    BY <1>2, <2>1 DEF SpentRun
  <2>3. q[front + 1] # s
    <3> SUFFICES ASSUME q[front + 1] = s PROVE FALSE
      OBVIOUS
    <3>1. PICK i \in 1..Len(q) : q[i] = r
      BY DEF Queued
    <3>2. i < front + 1 /\ front + 1 \in 1..Len(q)
      BY <1>2, <1>4, <3>1 DEF InOrder
    <3>3. QED
      BY <1>2, <3>1, <3>2
  <2>4. phase'[s] = ph[s]
    BY <1>4, <2>3
  <2>5. QED
    BY <2>1, <2>2, <2>4, SuffixInOrder
<1>5. QED
  BY <1>1, <1>3, <1>4

(* Removing an entry moves none past another.                              *)
LEMMA RemovalInOrder ==
  ASSUME NEW q \in Seq(Requests), NEW k \in 1..Len(q), NEW r, NEW s, InOrder(q, r, s)
  PROVE  InOrder(SubSeq(q, 1, k - 1) \o SubSeq(q, k + 1, Len(q)), r, s)
<1> DEFINE rest == SubSeq(q, 1, k - 1) \o SubSeq(q, k + 1, Len(q))
           old(j) == IF j < k THEN j ELSE j + 1
<1>1. Len(q) \in Nat /\ k \in 1..Len(q)
  OBVIOUS
<1>2. Len(rest) = Len(q) - 1 /\ \A j \in 1..(Len(q) - 1) : rest[j] = q[old(j)]
  BY RemoveEntry
<1> HIDE DEF rest
<1>3. ASSUME NEW i \in 1..Len(rest), NEW j \in 1..Len(rest), rest[i] = r, rest[j] = s
      PROVE  i < j
  <2>1. old(i) \in 1..Len(q) /\ old(j) \in 1..Len(q) /\ q[old(i)] = r /\ q[old(j)] = s
    BY <1>1, <1>2, <1>3
  <2>2. old(i) < old(j)
    BY <2>1 DEF InOrder
  <2>3. QED
    BY <1>1, <1>2, <2>2
<1>4. QED
  BY <1>3 DEF InOrder, rest
LEMMA PositionsInOrder ==
  ASSUME NEW q \in Seq(Requests), NEW r, NEW s
  PROVE  InOrder(q, r, s)
           <=> \A i \in {n \in DOMAIN q : q[n] = r}, j \in {n \in DOMAIN q : q[n] = s} : i < j
BY DEF InOrder

(* A step keeps s, which is behind r or not queued at all, behind r.       *)
LEMMA OrderStep ==
  ASSUME Inv, [Next]_vars, NEW r \in Requests, NEW s \in Requests, r # s,
         phase[r] = "pending", phase'[r] = "pending",
         phase[s] \in {"idle", "drained", "pending"}, InOrder(queue, r, s)
  PROVE  /\ phase'[s] \notin {"granted", "admitted"}
         /\ phase'[s] = "pending" => InOrder(queue', r, s)
<1>1. /\ queue \in Seq(Requests) /\ phase \in [Requests -> Phases]
      /\ Queued(queue, phase) /\ Len(queue) \in Nat /\ DOMAIN queue = 1..Len(queue)
  BY LenProperties DEF Inv, TypeOK
<1>2. ASSUME NEW q \in Seq(Requests), NEW held, NEW ph \in [Requests -> Phases], NEW handle,
             Queued(q, ph), AdmitWaiting(q, held, ph, handle), InOrder(q, r, s),
             ph[r] = "pending", ph[s] \in {"idle", "drained", "pending"}
      PROVE  /\ phase'[s] \notin {"granted", "admitted"}
             /\ phase'[s] = "pending" => InOrder(queue', r, s)
  <2>1. phase'[s] = ph[s] /\ InOrder(queue', r, s)
    BY <1>2, AdmitWaitingOrder
  <2>2. QED
    BY <1>2, <2>1
<1>3. ASSUME NEW t \in Requests, Join(t)
      PROVE  /\ phase'[s] \notin {"granted", "admitted"}
             /\ phase'[s] = "pending" => InOrder(queue', r, s)
  <2> DEFINE q == Append(queue, t)
             ph == [phase EXCEPT ![t] = "pending"]
  <2>1. phase[t] = "idle" /\ AdmitWaiting(q, permitsHeld, ph, timer)
    BY <1>3 DEF Join
  <2>2. /\ q \in Seq(Requests) /\ Len(q) = Len(queue) + 1
        /\ \A i \in 1..Len(queue) : q[i] = queue[i]
        /\ q[Len(queue) + 1] = t /\ ph \in [Requests -> Phases] /\ Queued(q, ph)
    BY <2>1, Joining
  <2>3. t # r /\ ph[r] = "pending" /\ ph[s] \in {"idle", "drained", "pending"}
    BY <1>1, <2>1
  <2>4. \A i \in 1..Len(queue) : queue[i] # t
    BY <1>1, <2>1 DEF Queued
  <2> HIDE DEF q, ph
  <2>5. InOrder(q, r, s)
    <3> SUFFICES ASSUME NEW i \in 1..Len(q), NEW j \in 1..Len(q), q[i] = r, q[j] = s
                 PROVE  i < j
      BY DEF InOrder
    <3>1. i \in 1..Len(queue) /\ queue[i] = r
      BY <1>1, <2>2, <2>3
    <3>2. CASE j = Len(queue) + 1
      BY <1>1, <3>1, <3>2
    <3>3. CASE j \in 1..Len(queue)
      BY <2>2, <3>1, <3>3 DEF InOrder
    <3>4. QED
      BY <1>1, <2>2, <3>2, <3>3
  <2>6. QED
    BY <1>2, <2>1, <2>2, <2>3, <2>5
<1>4. ASSUME NEW t \in Requests, phase[t] \in {"admitted", "revoked"},
             NEW next \in {"idle", "drained"}, ReleasePermit(t, next)
      PROVE  /\ phase'[s] \notin {"granted", "admitted"}
             /\ phase'[s] = "pending" => InOrder(queue', r, s)
  <2> DEFINE ph == [phase EXCEPT ![t] = next]
  <2>1. AdmitWaiting(queue, permitsHeld - 1, ph, timer)
    BY <1>4 DEF ReleasePermit
  <2>2. ph \in [Requests -> Phases] /\ Queued(queue, ph)
    BY <1>4, Leaving
  <2>3. ph[r] = "pending" /\ ph[s] \in {"idle", "drained", "pending"}
    BY <1>1, <1>4
  <2> HIDE DEF ph
  <2>4. QED
    BY <1>1, <1>2, <2>1, <2>2, <2>3
<1>5. ASSUME NEW t \in Requests, WakeRevoked(t) \/ Exit(t)
                                  \/ \E failure \in Failures : FailAndExit(t, failure)
      PROVE  /\ phase'[s] \notin {"granted", "admitted"}
             /\ phase'[s] = "pending" => InOrder(queue', r, s)
  BY <1>4, <1>5 DEF WakeRevoked, Exit, FailAndExit
<1>6. CASE TimerFires
  BY <1>1, <1>2, <1>6 DEF TimerFires
<1>7. ASSUME NEW t \in Requests,
             \/ Cancel(t) \/ WakeGranted(t)
             \/ \E failure \in Failures : ReportDrained(t, failure)
      PROVE  /\ phase'[s] \notin {"granted", "admitted"}
             /\ phase'[s] = "pending" => InOrder(queue', r, s)
  BY <1>1, <1>7 DEF Cancel, WakeGranted, ReportDrained
<1>8. ASSUME NEW t \in Requests, WakeCancelled(t)
      PROVE  /\ phase'[s] \notin {"granted", "admitted"}
             /\ phase'[s] = "pending" => InOrder(queue', r, s)
  <2>1. phase'[s] = phase[s]
    BY <1>1, <1>8 DEF WakeCancelled
  <2>2. CASE UNCHANGED queue
    BY <2>1, <2>2
  <2>3. ASSUME NEW k \in Position(t),
               queue' = SubSeq(queue, 1, k - 1) \o SubSeq(queue, k + 1, Len(queue))
        PROVE  InOrder(queue', r, s)
    BY <1>1, <2>3, RemovalInOrder DEF Position
  <2>4. QED
    BY <1>8, <2>1, <2>2, <2>3 DEF WakeCancelled
<1>9. CASE LoopRestarts \/ Tick \/ UNCHANGED vars
  BY <1>9 DEF LoopRestarts, Tick, vars
<1>10. QED
  BY <1>3, <1>5, <1>6, <1>7, <1>8, <1>9 DEF Next

(* No request is overtaken: not by a later one, not by one that has not    *)
(* queued yet, and not through a cancellation, a release, or the timer.    *)
THEOREM AdmissionIsFair == Spec => FirstComeFirstServed
<1>1. ASSUME Inv, Inv', [Next]_vars, NEW r \in Requests, NEW s \in Requests, r # s,
             Ahead(r, s), phase'[r] = "pending"
      PROVE  /\ phase'[s] \notin {"granted", "admitted"}
             /\ phase'[s] = "pending" => Ahead(r, s)'
  <2>1. queue \in Seq(Requests) /\ queue' \in Seq(Requests) /\ Queued(queue, phase)
        /\ \A i \in 1..Len(queue) : queue[i] \in Requests
    BY <1>1, ElementOfSeq DEF Inv, TypeOK
  <2>2. phase[r] = "pending" /\ phase[s] \in {"idle", "drained", "pending"}
    BY <1>1 DEF Ahead
  <2>3. InOrder(queue, r, s)
    <3>1. CASE phase[s] \in {"idle", "drained"}
      BY <2>1, <3>1 DEF InOrder, Queued
    <3>2. CASE phase[s] = "pending"
      BY <1>1, <2>1, <3>2, PositionsInOrder DEF Ahead, Position
    <3>3. QED
      BY <2>2, <3>1, <3>2
  <2>4. /\ phase'[s] \notin {"granted", "admitted"}
        /\ phase'[s] = "pending" => InOrder(queue', r, s)
    BY <1>1, <2>2, <2>3, OrderStep
  <2>5. QED
    BY <1>1, <2>1, <2>4, PositionsInOrder DEF Ahead, Position
<1>2. Inv /\ Inv' /\ [Next]_vars =>
        [\A r, s \in Requests :
           r # s /\ Ahead(r, s) /\ phase'[r] = "pending" =>
             /\ phase'[s] \notin {"granted", "admitted"}
             /\ phase'[s] = "pending" => Ahead(r, s)']_vars
  BY <1>1
<1>3. QED
  BY <1>2, Invariance, PTL DEF Spec, FirstComeFirstServed
-----------------------------------------------------------------------------
(***************************************************************************)
(* What the module promises about the past, over its history variables.    *)
(***************************************************************************)

(* The pause outlasts every wait that is owed.                             *)
PauseCoversTheDebt ==
  /\ owed \in 0..MaxWait
  /\ owed > 0 => pauseAge <= -owed

(* Without traffic since the last pause, the last admission is no younger  *)
(* than the pause's end: this is how the code, which keeps two clock       *)
(* readings and no flag, tells the two cases apart.                        *)
StampsTellTheTraffic ==
  /\ resumed \in BOOLEAN
  /\ resumed = FALSE => admissionAge >= pauseAge

PastInv == Inv /\ PauseCoversTheDebt /\ StampsTellTheTraffic

-----------------------------------------------------------------------------
(* The steps, by what they do to the clock readings.                       *)

(* A failure is recorded.                                                  *)
Failing ==
  \E r \in Requests, failure \in Failures :
    /\ FailAndExit(r, failure) \/ ReportDrained(r, failure)
    /\ owed' = Larger(owed, StatedBy(failure))
    /\ ObserveTraffic

(* A request or the timer moves, and nothing is recorded.                  *)
Moving ==
  /\ \/ \E r \in Requests : \/ Join(r) \/ Cancel(r) \/ Exit(r)
                              \/ WakeGranted(r) \/ WakeCancelled(r) \/ WakeRevoked(r)
     \/ TimerFires \/ LoopRestarts
  /\ UNCHANGED owed
  /\ ObserveTraffic

Ticking == Tick /\ owed' = Larger(0, owed - 1) /\ UNCHANGED resumed

LEMMA HistorySteps == HistoryNext <=> Failing \/ Moving \/ Ticking
BY Zenon DEF HistoryNext, Failing, Moving, Ticking

LEMMA HistoryStep == [HistoryNext]_historyVars => [Next]_vars
<1>1. HistoryNext => Next
  BY DEF HistoryNext, Next
<1>2. QED
  BY <1>1 DEF historyVars, vars

LEMMA StatedByType ==
  ASSUME NEW failure \in Failures
  PROVE  StatedBy(failure) \in 0..MaxWait
<1>1. failure.retryAfter \in Int
  <2>1. failure.retryAfter \in StatedWaits \union {0, -1}
    BY DEF Failures, NoRetryAfter, InvalidRetryAfter
  <2>2. StatedWaits \subseteq Int /\ 0 \in Int /\ -1 \in Int
    BY WaitAssumption
  <2>3. QED
    BY <2>1, <2>2, Zenon
<1>2. NormalizedRetryAfter(failure.retryAfter) \in 0..MaxWait
  BY <1>1, WaitAssumption DEF NormalizedRetryAfter, NoRetryAfter, Smaller
<1>3. 0 \in 0..MaxWait
  BY WaitAssumption
<1>4. QED
  BY <1>2, <1>3 DEF StatedBy

(* The pause that follows a failure lasts at least as long as the wait the *)
(* failure states, and as whatever was still owed.                         *)
LEMMA RecordCoversTheDebt ==
  ASSUME PastInv, NEW failure \in Failures, Record(failure),
         owed' = Larger(owed, StatedBy(failure))
  PROVE  PauseCoversTheDebt'
<1>1. /\ owed \in 0..MaxWait /\ MaxWait \in Nat /\ TypeOK
      /\ owed > 0 => pauseAge <= -owed
      /\ StatedBy(failure) \in 0..MaxWait
  BY StatedByType, WaitAssumption DEF PastInv, Inv, PauseCoversTheDebt
<1>2. pauseAge \in Int /\ pauseAge' \in Int /\ pauseAge' <= pauseAge
  BY <1>1, RecordType, AgeCapType DEF TypeOK
<1>3. owed' \in 0..MaxWait /\ owed' \in {owed, StatedBy(failure)}
  BY <1>1 DEF Larger
<1>4. ASSUME StatedBy(failure) > 0
      PROVE  pauseAge' <= -StatedBy(failure)
  <2> DEFINE stated == NormalizedRetryAfter(failure.retryAfter)
  <2>1. failure.pausesQuota /\ StatedBy(failure) = stated /\ stated # NoRetryAfter
    BY <1>1, <1>4 DEF StatedBy, NoRetryAfter
  <2>2. \A ceiling : ChosenWaits(failure, ceiling) = {stated}
    BY <2>1 DEF ChosenWaits
  <2>3. stated \in Int
    BY <1>1, <2>1
  <2>4. ExtendPause(failure) \/ StartPause(failure)
    BY <2>1 DEF Record
  <2> HIDE DEF stated
  <2>5. pauseAge' = -Larger(-pauseAge, stated) \/ pauseAge' = -stated
    BY <2>2, <2>4 DEF ExtendPause, StartPause
  <2>6. QED
    BY <1>2, <2>1, <2>3, <2>5 DEF Larger
<1>5. QED
  BY <1>1, <1>2, <1>3, <1>4 DEF PauseCoversTheDebt

(* Apart from the clock, a step moves the pause's end no closer, and       *)
(* stamps an admission only when the quota is admissible.                  *)
LEMMA StampsOfAStep ==
  ASSUME Inv, Failing \/ Moving
  PROVE  /\ pauseAge \in Int /\ pauseAge' \in Int /\ pauseAge' <= pauseAge
         /\ admissionAge \in Nat
         /\ \/ admissionAge' = admissionAge
            \/ /\ admissionAge' = 0
               /\ AdmissibleIn(pauseAge') = 0
<1>1. /\ TypeOK /\ pauseAge \in (-MaxWait)..AgeCap /\ admissionAge \in 0..AgeCap
      /\ queue \in Seq(Requests) /\ phase \in [Requests -> Phases]
      /\ permitsHeld \in Int /\ timer \in Int /\ Queued(queue, phase)
      /\ AgeCap \in Nat /\ MaxWait \in Nat
  BY AgeCapType, WaitAssumption DEF Inv, TypeOK
<1>2. pauseAge \in Int /\ admissionAge \in Nat
  BY <1>1
<1>3. pauseAge' \in Int /\ pauseAge' <= pauseAge
  <2>1. ASSUME NEW failure \in Failures, Record(failure)
        PROVE  pauseAge' \in Int /\ pauseAge' <= pauseAge
    BY <1>1, <2>1, RecordType
  <2>2. ASSUME NEW r \in Requests, NEW failure \in Failures,
               FailAndExit(r, failure) \/ ReportDrained(r, failure)
        PROVE  pauseAge' \in Int /\ pauseAge' <= pauseAge
    BY <2>1, <2>2 DEF FailAndExit, ReportDrained
  <2>3. ASSUME NEW r \in Requests,
               \/ Join(r) \/ Cancel(r) \/ Exit(r)
               \/ WakeGranted(r) \/ WakeCancelled(r) \/ WakeRevoked(r)
        PROVE  pauseAge' = pauseAge
    BY <2>3 DEF Join, Cancel, WakeGranted, WakeCancelled, WakeRevoked, Exit
  <2>4. TimerFires \/ LoopRestarts => pauseAge' = pauseAge
    BY DEF TimerFires, LoopRestarts
  <2>5. QED
    BY <1>2, <2>2, <2>3, <2>4 DEF Failing, Moving
<1>4. ASSUME NEW q \in Seq(Requests), NEW held \in Int, NEW ph \in [Requests -> Phases],
             NEW handle \in Int, Queued(q, ph), AdmitWaiting(q, held, ph, handle)
      PROVE  \/ admissionAge' = admissionAge
             \/ admissionAge' = 0 /\ AdmissibleIn(pauseAge') = 0
  <2>1. KeepsAll(held, ph) \/ \E r \in Requests : Grants(r, held, ph)
    BY <1>2, <1>3, <1>4, AdmitWaitingEffect
  <2>2. QED
    BY <2>1 DEF KeepsAll, Grants
<1>5. ASSUME NEW r \in Requests, Join(r)
      PROVE  \/ admissionAge' = admissionAge
             \/ admissionAge' = 0 /\ AdmissibleIn(pauseAge') = 0
  <2> DEFINE q == Append(queue, r)
             ph == [phase EXCEPT ![r] = "pending"]
  <2>1. phase[r] = "idle" /\ AdmitWaiting(q, permitsHeld, ph, timer)
    BY <1>5 DEF Join
  <2>2. q \in Seq(Requests) /\ ph \in [Requests -> Phases] /\ Queued(q, ph)
    BY <2>1, Joining
  <2> HIDE DEF q, ph
  <2>3. QED
    BY <1>1, <1>4, <2>1, <2>2
<1>6. ASSUME NEW r \in Requests, phase[r] \in {"admitted", "revoked"},
             NEW next \in {"idle", "drained"}, ReleasePermit(r, next)
      PROVE  \/ admissionAge' = admissionAge
             \/ admissionAge' = 0 /\ AdmissibleIn(pauseAge') = 0
  <2> DEFINE ph == [phase EXCEPT ![r] = next]
  <2>1. AdmitWaiting(queue, permitsHeld - 1, ph, timer)
    BY <1>6 DEF ReleasePermit
  <2>2. ph \in [Requests -> Phases] /\ Queued(queue, ph)
    BY <1>6, Leaving
  <2>3. permitsHeld - 1 \in Int
    BY <1>1
  <2> HIDE DEF ph
  <2>4. QED
    BY <1>1, <1>4, <2>1, <2>2, <2>3
<1>7. ASSUME NEW r \in Requests,
             WakeRevoked(r) \/ Exit(r) \/ \E failure \in Failures : FailAndExit(r, failure)
      PROVE  \/ admissionAge' = admissionAge
             \/ admissionAge' = 0 /\ AdmissibleIn(pauseAge') = 0
  BY <1>6, <1>7 DEF WakeRevoked, Exit, FailAndExit
<1>8. CASE TimerFires
  BY <1>1, <1>4, <1>8 DEF TimerFires, NoTimer
<1>9. ASSUME NEW r \in Requests,
             \/ Cancel(r) \/ WakeGranted(r) \/ WakeCancelled(r)
             \/ \E failure \in Failures : ReportDrained(r, failure)
      PROVE  admissionAge' = admissionAge
  BY <1>9 DEF Cancel, WakeGranted, WakeCancelled, ReportDrained
<1>10. LoopRestarts => admissionAge' = admissionAge
  BY DEF LoopRestarts
<1>11. QED
  BY <1>2, <1>3, <1>5, <1>7, <1>8, <1>9, <1>10 DEF Failing, Moving

(* An admission comes at least one interval after the one before it, so    *)
(* that the stamp shows.                                                   *)
LEMMA StampShows ==
  ASSUME Inv, pauseAge' \in Int, AdmissibleIn(pauseAge') = 0
  PROVE  pauseAge' >= 0 /\ admissionAge >= Interval /\ admissionAge # 0
<1>1. admissionAge \in Int /\ Interval \in Nat \ {0}
  BY AgeCapType, IntervalAssumption DEF Inv, TypeOK
<1>2. 0 >= -(pauseAge') /\ 0 >= Interval - admissionAge
  BY <1>1, AdmissibleInType
<1>3. admissionAge >= Interval /\ admissionAge # 0
  BY <1>1, <1>2
<1>4. \A x \in Int : 0 >= -x => x >= 0
  OBVIOUS
<1>5. QED
  BY <1>2, <1>3, <1>4

-----------------------------------------------------------------------------
(* Every step but the clock's, by what it does to the two history          *)
(* variables.                                                              *)

LEMMA DebtStep ==
  ASSUME PastInv, Failing \/ Moving
  PROVE  PauseCoversTheDebt'
<1>1. /\ owed \in 0..MaxWait /\ (owed > 0 => pauseAge <= -owed)
      /\ MaxWait \in Nat
  BY WaitAssumption DEF PastInv, PauseCoversTheDebt
<1>2. /\ pauseAge \in Int /\ pauseAge' \in Int /\ pauseAge' <= pauseAge
  BY StampsOfAStep DEF PastInv
<1>3. CASE UNCHANGED owed
  BY <1>1, <1>2, <1>3 DEF PauseCoversTheDebt
<1>4. ASSUME NEW r \in Requests, NEW failure \in Failures,
             FailAndExit(r, failure) \/ ReportDrained(r, failure),
             owed' = Larger(owed, StatedBy(failure))
      PROVE  PauseCoversTheDebt'
  BY <1>4, RecordCoversTheDebt DEF FailAndExit, ReportDrained
<1>5. QED
  BY <1>3, <1>4 DEF Failing, Moving

LEMMA TrafficStep ==
  ASSUME PastInv, Failing \/ Moving
  PROVE  StampsTellTheTraffic'
<1>1. resumed \in BOOLEAN /\ (resumed = FALSE => admissionAge >= pauseAge) /\ Inv
  BY DEF PastInv, StampsTellTheTraffic
<1>2. /\ pauseAge \in Int /\ pauseAge' \in Int /\ pauseAge' <= pauseAge
      /\ admissionAge \in Nat
      /\ \/ admissionAge' = admissionAge
         \/ admissionAge' = 0 /\ AdmissibleIn(pauseAge') = 0
  BY StampsOfAStep DEF PastInv
<1>3. ObserveTraffic
  BY DEF Failing, Moving
<1>4. CASE pauseAge >= 0 /\ pauseAge' < 0
  <2>1. resumed' = FALSE
    BY <1>3, <1>4 DEF ObserveTraffic
  <2>2. admissionAge' >= pauseAge'
    BY <1>2, <1>4
  <2>3. QED
    BY <2>1, <2>2 DEF StampsTellTheTraffic
<1>5. CASE ~(pauseAge >= 0 /\ pauseAge' < 0)
  <2>1. resumed' = (resumed \/ Admitted)
    BY <1>3, <1>5 DEF ObserveTraffic
  <2>2. resumed' \in BOOLEAN
    BY <2>1 DEF Admitted
  <2>3. ASSUME resumed' = FALSE
        PROVE  admissionAge' >= pauseAge'
    <3>1. resumed = FALSE /\ ~Admitted
      BY <1>1, <2>1, <2>3
    <3>2. admissionAge' = admissionAge
      BY <1>1, <1>2, <3>1, StampShows DEF Admitted
    <3>3. QED
      BY <1>1, <1>2, <3>1, <3>2
  <2>4. QED
    BY <2>2, <2>3 DEF StampsTellTheTraffic
<1>6. QED
  BY <1>4, <1>5

(* The clock moves both stamps alike, and a debt shrinks no faster than    *)
(* the pause that covers it.                                               *)
LEMMA ClockStep ==
  ASSUME PastInv, Ticking
  PROVE  PauseCoversTheDebt' /\ StampsTellTheTraffic'
<1>1. /\ owed \in 0..MaxWait /\ (owed > 0 => pauseAge <= -owed)
      /\ resumed \in BOOLEAN /\ (resumed = FALSE => admissionAge >= pauseAge)
      /\ pauseAge \in (-MaxWait)..AgeCap /\ admissionAge \in 0..AgeCap
      /\ MaxWait \in Nat /\ AgeCap \in Nat /\ AgeCap >= Interval /\ Interval \in Nat \ {0}
      /\ Inv
  BY WaitAssumption, AgeCapType, IntervalAssumption
     DEF PastInv, PauseCoversTheDebt, StampsTellTheTraffic, Inv, TypeOK
<1>2. /\ pauseAge' = Smaller(pauseAge + 1, AgeCap)
      /\ admissionAge' = Smaller(admissionAge + 1, AgeCap)
      /\ owed' = Larger(0, owed - 1) /\ resumed' = resumed
  BY DEF Ticking, Tick
<1>3. pauseAge' <= pauseAge + 1 /\ pauseAge' \in Int
  BY <1>1, <1>2 DEF Smaller
<1>4. admissionAge >= pauseAge => admissionAge' >= pauseAge'
  BY <1>1, <1>2 DEF Smaller
<1>5. owed' \in 0..MaxWait /\ (owed' > 0 => owed > 0 /\ owed' = owed - 1)
  BY <1>1, <1>2 DEF Larger
<1>6. owed' > 0 => pauseAge' <= -(owed')
  BY <1>1, <1>3, <1>5
<1>7. resumed' \in BOOLEAN /\ (resumed' = FALSE => admissionAge' >= pauseAge')
  BY <1>1, <1>2, <1>4
<1>8. QED
  BY <1>5, <1>6, <1>7 DEF PauseCoversTheDebt, StampsTellTheTraffic

LEMMA HistoryInvariance == HistorySpec => []PastInv
<1>1. HistoryInit => PastInv
  <2> SUFFICES ASSUME HistoryInit PROVE PastInv
    OBVIOUS
  <2>1. Inv
    BY InitInv DEF HistoryInit
  <2>2. owed = 0 /\ resumed = FALSE /\ pauseAge = AgeCap /\ admissionAge = AgeCap
    BY DEF HistoryInit, Init
  <2>3. PauseCoversTheDebt
    BY <2>2, WaitAssumption DEF PauseCoversTheDebt
  <2>4. StampsTellTheTraffic
    <3>1. admissionAge >= pauseAge
      BY <2>2, AgeCapType
    <3>2. QED
      BY <2>2, <3>1, Zenon DEF StampsTellTheTraffic
  <2>5. QED
    BY <2>1, <2>3, <2>4 DEF PastInv
<1>2. ASSUME PastInv, [HistoryNext]_historyVars
      PROVE  PastInv'
  <2>1. Inv'
    BY <1>2, HistoryStep, NextInv DEF PastInv
  <2>2. CASE UNCHANGED historyVars
    BY <1>2, <2>1, <2>2 DEF historyVars, PastInv, PauseCoversTheDebt, StampsTellTheTraffic
  <2>3. CASE HistoryNext
    BY <1>2, <2>1, <2>3, HistorySteps, DebtStep, TrafficStep, ClockStep DEF PastInv
  <2>4. QED
    BY <1>2, <2>2, <2>3
<1>3. QED
  BY <1>1, <1>2, PTL DEF HistorySpec

-----------------------------------------------------------------------------
(***************************************************************************)
(* The wait ceiling.                                                       *)
(***************************************************************************)

(* Only a new pause after traffic raises it.                               *)
LEMMA GrowthNeedsTraffic ==
  ASSUME PastInv, NEW failure \in Failures, Record(failure), waitCeiling' > waitCeiling
  PROVE  resumed
<1>1. /\ TypeOK /\ waitCeiling \in MinCeiling..MaxWait /\ MinCeiling \in Nat /\ MaxWait \in Nat
      /\ resumed \in BOOLEAN /\ (resumed = FALSE => admissionAge >= pauseAge)
      /\ pauseAge \in Int /\ admissionAge \in Int
  BY WaitAssumption, AgeCapType DEF PastInv, Inv, TypeOK, StampsTellTheTraffic
<1>2. pauseAge >= 0 /\ waitCeiling' = NextCeiling
  <2>1. ~(waitCeiling' = waitCeiling)
    BY <1>1
  <2>2. QED
    BY <2>1 DEF Record, ExtendPause, StartPause
<1> DEFINE steps == pauseAge \div Quiet
<1>3. steps \in Nat
  BY <1>1, <1>2, DecayAssumption, QuotientBound
<1>4. NextCeiling > waitCeiling /\ StepsToFloor \in Nat
  BY <1>2, DecayAssumption
<1>5. ASSUME steps >= 1, steps < StepsToFloor
      PROVE  Larger(waitCeiling \div (Multiplier ^ steps), MinCeiling) <= waitCeiling
  <2>1. Multiplier ^ steps \in Nat \ {0}
    BY <1>3, <1>5, DecayAssumption
  <2>2. /\ waitCeiling \div (Multiplier ^ steps) \in Nat
        /\ waitCeiling \div (Multiplier ^ steps) <= waitCeiling
    BY <1>1, <2>1, QuotientBound
  <2>3. QED
    BY <1>1, <2>2 DEF Larger
<1>6. admissionAge < pauseAge
  <2> SUFFICES ASSUME ~(admissionAge < pauseAge) PROVE FALSE
    OBVIOUS
  <2>1. CASE steps >= 1 /\ steps >= StepsToFloor
    <3>1. NextCeiling = MinCeiling
      BY <1>3, <1>4, <2>1 DEF NextCeiling
    <3>2. QED
      BY <1>1, <1>4, <3>1
  <2>2. CASE steps >= 1 /\ steps < StepsToFloor
    <3>1. NextCeiling = Larger(waitCeiling \div (Multiplier ^ steps), MinCeiling)
      BY <1>3, <1>4, <2>2 DEF NextCeiling
    <3>2. MinCeiling \in Int /\ waitCeiling \in Int /\ waitCeiling \div (Multiplier ^ steps) \in Int
      <4>1. Multiplier ^ steps \in Nat \ {0}
        BY <1>3, <2>2, DecayAssumption
      <4>2. QED
        BY <1>1, <4>1, QuotientBound
    <3>3. NextCeiling \in Int
      BY <3>1, <3>2, LargerType
    <3>4. QED
      BY <1>4, <1>5, <2>2, <3>1, <3>2, <3>3
  <2>3. CASE steps < 1
    BY <1>1, <1>3, <1>4, <2>3 DEF NextCeiling
  <2>4. QED
    BY <1>3, <1>4, <2>1, <2>2, <2>3
<1>7. QED
  BY <1>1, <1>6

(* However many requests of one herd fail, and however their failures      *)
(* overlap, the ceiling grows at most once until a request is admitted.    *)
THEOREM OneHerdOneGrowth == HistorySpec => CeilingGrowsOncePerHerd
<1>1. ASSUME PastInv, HistoryNext, waitCeiling' > waitCeiling
      PROVE  resumed
  <2>1. ASSUME UNCHANGED waitCeiling
        PROVE  FALSE
    <3>1. waitCeiling \in Int
      BY <1>1, WaitAssumption DEF PastInv, Inv, TypeOK
    <3>2. QED
      BY <1>1, <2>1, <3>1
  <2>2. CASE Failing
    BY <1>1, <2>2, GrowthNeedsTraffic DEF Failing, FailAndExit, ReportDrained
  <2>3. CASE Moving
    BY <2>1, <2>3 DEF Moving, Join, Cancel, WakeGranted, WakeCancelled, WakeRevoked, Exit,
       TimerFires, LoopRestarts
  <2>4. CASE Ticking
    BY <2>1, <2>4 DEF Ticking, Tick
  <2>5. QED
    BY <1>1, <2>2, <2>3, <2>4, HistorySteps
<1>2. PastInv /\ [HistoryNext]_historyVars =>
        [waitCeiling' > waitCeiling => resumed]_historyVars
  BY <1>1
<1>3. QED
  BY <1>2, HistoryInvariance, PTL DEF HistorySpec, CeilingGrowsOncePerHerd

-----------------------------------------------------------------------------
(***************************************************************************)
(* The contract with the quota.                                            *)
(***************************************************************************)

WaitingIn(ph) == {r \in Requests : ph[r] = "pending"}

(* What the code hands out or keeps in _admit_waiting, the contract does   *)
(* in Admit.                                                               *)
LEMMA AdmitWaitingKeepsTheContract ==
  ASSUME NEW q \in Seq(Requests), NEW held \in Int,
         NEW ph \in [Requests -> Phases], NEW handle \in Int, Queued(q, ph),
         held = Cardinality(HoldersIn(ph)), admissionAge \in Int, pauseAge' \in Int,
         PauseCoversTheDebt', AdmitWaiting(q, held, ph, handle)
  PROVE  Contract!Admit(WaitingIn(ph), HoldersIn(ph))
<1>1. CASE KeepsAll(held, ph)
  <2>1. phase' = ph /\ admissionAge' = admissionAge
    BY <1>1 DEF KeepsAll
  <2>2. Waiting' = WaitingIn(ph) /\ Holders' = HoldersIn(ph)
    BY <2>1 DEF Waiting, WaitingIn, Holders
  <2>3. QED
    BY <2>1, <2>2 DEF Contract!Admit
<1>2. ASSUME NEW r \in Requests, Grants(r, held, ph)
      PROVE  Contract!Admit(WaitingIn(ph), HoldersIn(ph))
  <2>1. /\ ph[r] = "pending" /\ PermitFree(held) /\ AdmissibleIn(pauseAge') = 0
        /\ phase' = [ph EXCEPT ![r] = GrantedPhase(r)] /\ admissionAge' = 0
        /\ GrantedPhase(r) \in {"granted", "admitted"}
    BY <1>2 DEF Grants, GrantedPhase
  <2>2. Contract!Capacity(HoldersIn(ph))
    <3>1. Contract!Cardinality(HoldersIn(ph)) = Cardinality(HoldersIn(ph))
      BY Zenon DEF Cardinality, Contract!Cardinality
    <3>2. QED
      BY <2>1, <3>1, Zenon DEF PermitFree, Contract!Capacity, Unlimited, Contract!Unlimited
  <2>3. 0 >= -(pauseAge') /\ 0 >= Interval - admissionAge
    BY <2>1, AdmissibleInType
  <2>4. owed' = 0
    <3>1. \A x \in Int : 0 >= -x => x >= 0
      OBVIOUS
    <3>2. pauseAge' >= 0
      BY <2>3, <3>1
    <3>3. owed' \in 0..MaxWait /\ (owed' > 0 => pauseAge' <= -(owed'))
      BY DEF PauseCoversTheDebt
    <3>4. \A x \in Int, y \in 0..MaxWait : x >= 0 /\ (y > 0 => x <= -y) => y = 0
      BY WaitAssumption
    <3>5. QED
      BY <3>2, <3>3, <3>4
  <2>5. Larger(0, Interval - admissionAge) = 0
    BY <2>3, IntervalAssumption DEF Larger
  <2>6. Larger(0, Interval - admissionAge)' = Interval
    BY <2>1, IntervalAssumption DEF Larger
  <2>7. /\ r \in WaitingIn(ph)
        /\ Waiting' = WaitingIn(ph) \ {r}
        /\ Holders' = HoldersIn(ph) \union {r}
    BY <2>1 DEF Waiting, WaitingIn, Holders, HoldersIn
  <2>8. QED
    BY <2>2, <2>4, <2>5, <2>6, <2>7 DEF Contract!Admit
<1>3. KeepsAll(held, ph) \/ \E r \in Requests : Grants(r, held, ph)
  BY AdmitWaitingEffect
<1>4. QED
  BY <1>1, <1>2, <1>3

LEMMA JoinArrives ==
  ASSUME PastInv, PauseCoversTheDebt', NEW r \in Requests, Join(r), UNCHANGED owed
  PROVE  Contract!Arrive(r)
<1> DEFINE q == Append(queue, r)
           ph == [phase EXCEPT ![r] = "pending"]
<1>1. /\ phase[r] = "idle" /\ AdmitWaiting(q, permitsHeld, ph, timer)
      /\ UNCHANGED pauseAge
  BY DEF Join
<1>2. /\ phase \in [Requests -> Phases] /\ permitsHeld \in Int /\ timer \in Int
      /\ admissionAge \in Int /\ pauseAge \in Int /\ permitsHeld = Cardinality(Holders) /\ Inv
  BY AgeCapType, WaitAssumption DEF PastInv, Inv, TypeOK, PermitAccounting
<1>3. /\ q \in Seq(Requests) /\ ph \in [Requests -> Phases] /\ Queued(q, ph)
      /\ HoldersIn(ph) = Holders
  BY <1>1, <1>2, Joining
<1>4. WaitingIn(ph) = Waiting \union {r} /\ r \notin Waiting \union Holders
  BY <1>1, <1>2 DEF WaitingIn, Waiting, Holders, HoldersIn
<1> HIDE DEF q, ph
<1>5. Contract!Admit(WaitingIn(ph), HoldersIn(ph))
  BY <1>1, <1>2, <1>3, AdmitWaitingKeepsTheContract
<1>6. QED
  BY <1>3, <1>4, <1>5 DEF Contract!Arrive

LEMMA ReleaseFinishes ==
  ASSUME PastInv, PauseCoversTheDebt', pauseAge' \in Int,
         NEW r \in Requests, phase[r] \in {"admitted", "revoked"},
         NEW next \in {"idle", "drained"}, ReleasePermit(r, next),
         NEW stated \in 0..MaxWait, owed' = Larger(owed, stated)
  PROVE  Contract!Finish(r, stated)
<1> DEFINE ph == [phase EXCEPT ![r] = next]
<1>1. AdmitWaiting(queue, permitsHeld - 1, ph, timer)
  BY DEF ReleasePermit
<1>2. /\ phase \in [Requests -> Phases] /\ permitsHeld - 1 \in Int /\ timer \in Int
      /\ admissionAge \in Int /\ queue \in Seq(Requests) /\ Inv /\ owed \in Int
  BY AgeCapType, WaitAssumption DEF PastInv, PauseCoversTheDebt, Inv, TypeOK
<1>3. /\ ph \in [Requests -> Phases] /\ Queued(queue, ph)
      /\ HoldersIn(ph) = Holders \ {r} /\ permitsHeld - 1 = Cardinality(HoldersIn(ph))
  BY <1>2, Leaving
<1>4. WaitingIn(ph) = Waiting /\ r \in Holders
  BY <1>2 DEF WaitingIn, Waiting, Holders, HoldersIn
<1> HIDE DEF ph
<1>5. Contract!Admit(WaitingIn(ph), HoldersIn(ph))
  BY <1>1, <1>2, <1>3, AdmitWaitingKeepsTheContract
<1>6. Contract!Owe(stated)
  BY <1>2 DEF Contract!Owe, Larger
<1>7. QED
  BY <1>3, <1>4, <1>5, <1>6 DEF Contract!Finish

LEMMA FailingKeepsTheContract ==
  ASSUME PastInv, PauseCoversTheDebt', pauseAge' \in Int, Failing
  PROVE  Contract!ContractNext
<1>1. PICK r \in Requests, failure \in Failures :
        /\ FailAndExit(r, failure) \/ ReportDrained(r, failure)
        /\ owed' = Larger(owed, StatedBy(failure))
  BY DEF Failing
<1>2. StatedBy(failure) \in 0..MaxWait
  BY StatedByType
<1>3. CASE FailAndExit(r, failure)
  <2>1. phase[r] = "admitted" /\ ReleasePermit(r, "idle")
    BY <1>3 DEF FailAndExit
  <2>2. Contract!Finish(r, StatedBy(failure))
    BY <1>1, <1>2, <2>1, ReleaseFinishes
  <2>3. QED
    BY <1>2, <2>2 DEF Contract!ContractNext
<1>4. CASE ReportDrained(r, failure)
  <2>1. /\ phase \in [Requests -> Phases] /\ phase[r] = "drained"
        /\ phase' = [phase EXCEPT ![r] = "idle"] /\ admissionAge' = admissionAge
    BY <1>4 DEF ReportDrained, PastInv, Inv, TypeOK
  <2>2. Waiting' = Waiting /\ Holders' = Holders
    BY <2>1 DEF Waiting, Holders, HoldersIn
  <2>3. owed \in 0..MaxWait /\ MaxWait \in Nat
    BY WaitAssumption DEF PastInv, PauseCoversTheDebt
  <2>4. Contract!Owe(StatedBy(failure))
    BY <1>1, <1>2, <2>3 DEF Contract!Owe, Larger
  <2>5. Contract!ReportLate(StatedBy(failure))
    BY <2>1, <2>2, <2>4 DEF Contract!ReportLate
  <2>6. QED
    BY <1>2, <2>5 DEF Contract!ContractNext
<1>5. QED
  BY <1>1, <1>3, <1>4

LEMMA MovingKeepsTheContract ==
  ASSUME PastInv, PauseCoversTheDebt', pauseAge' \in Int, Moving
  PROVE  Contract!ContractNext \/ UNCHANGED Contract!contractVars
<1>1. /\ phase \in [Requests -> Phases] /\ queue \in Seq(Requests) /\ Queued(queue, phase)
      /\ permitsHeld \in Int /\ permitsHeld = Cardinality(Holders) /\ admissionAge \in Int
      /\ owed' = owed /\ owed \in 0..MaxWait
  BY AgeCapType DEF PastInv, Inv, TypeOK, PermitAccounting, PauseCoversTheDebt, Moving
<1>2. ASSUME NEW r \in Requests, Join(r)
      PROVE  Contract!ContractNext
  <2>1. Contract!Arrive(r)
    BY <1>1, <1>2, JoinArrives
  <2>2. QED
    BY <2>1 DEF Contract!ContractNext
<1>3. ASSUME NEW r \in Requests, phase[r] \in {"admitted", "revoked"},
             NEW next \in {"idle", "drained"}, ReleasePermit(r, next)
      PROVE  Contract!ContractNext
  <2>1. 0 \in 0..MaxWait /\ owed' = Larger(owed, 0)
    BY <1>1, WaitAssumption DEF Larger
  <2>2. Contract!Finish(r, 0)
    BY <1>3, <2>1, ReleaseFinishes
  <2>3. QED
    BY <2>1, <2>2 DEF Contract!ContractNext
<1>4. ASSUME NEW r \in Requests, WakeRevoked(r) \/ Exit(r)
      PROVE  Contract!ContractNext
  BY <1>3, <1>4 DEF WakeRevoked, Exit
<1>5. ASSUME NEW r \in Requests, Cancel(r), phase[r] = "pending"
      PROVE  Contract!ContractNext
  <2>1. phase' = [phase EXCEPT ![r] = "cancelled"] /\ admissionAge' = admissionAge
    BY <1>5 DEF Cancel
  <2>2. r \in Waiting /\ Waiting' = Waiting \ {r} /\ Holders' = Holders
    BY <1>1, <1>5, <2>1 DEF Waiting, Holders, HoldersIn
  <2>3. Contract!GiveUp(r)
    BY <1>1, <2>1, <2>2 DEF Contract!GiveUp
  <2>4. QED
    BY <2>3 DEF Contract!ContractNext
<1>6. ASSUME UNCHANGED <<Waiting, Holders, admissionAge>>
      PROVE  UNCHANGED Contract!contractVars
  BY <1>1, <1>6 DEF Contract!contractVars
<1>7. ASSUME NEW r \in Requests, Cancel(r), phase[r] # "pending"
      PROVE  UNCHANGED <<Waiting, Holders, admissionAge>>
  <2>1. /\ phase' = [phase EXCEPT ![r] = "revoked"] /\ phase[r] = "granted"
        /\ admissionAge' = admissionAge
    BY <1>7 DEF Cancel
  <2>2. Waiting' = Waiting /\ Holders' = Holders
    BY <1>1, <2>1 DEF Waiting, Holders, HoldersIn
  <2>3. QED
    BY <2>1, <2>2
<1>8. ASSUME NEW r \in Requests, WakeGranted(r) \/ WakeCancelled(r)
      PROVE  UNCHANGED <<Waiting, Holders, admissionAge>>
  <2>1. /\ \/ phase' = [phase EXCEPT ![r] = "admitted"] /\ phase[r] = "granted"
           \/ phase' = [phase EXCEPT ![r] = "idle"] /\ phase[r] = "cancelled"
        /\ admissionAge' = admissionAge
    BY <1>8 DEF WakeGranted, WakeCancelled
  <2>2. Waiting' = Waiting /\ Holders' = Holders
    BY <1>1, <2>1 DEF Waiting, Holders, HoldersIn
  <2>3. QED
    BY <2>1, <2>2
<1>9. CASE TimerFires
  <2>1. AdmitWaiting(queue, permitsHeld, phase, NoTimer) /\ NoTimer \in Int
    BY <1>9 DEF TimerFires, NoTimer
  <2>2. HoldersIn(phase) = Holders /\ WaitingIn(phase) = Waiting
    BY DEF Holders, WaitingIn, Waiting
  <2>3. Contract!Admit(Waiting, Holders)
    BY <1>1, <2>1, <2>2, AdmitWaitingKeepsTheContract
  <2>4. Contract!Start
    BY <1>1, <2>3 DEF Contract!Start
  <2>5. QED
    BY <2>4 DEF Contract!ContractNext
<1>10. LoopRestarts => UNCHANGED <<Waiting, Holders, admissionAge>>
  BY DEF LoopRestarts, Waiting, Holders, HoldersIn
<1>11. QED
  BY <1>2, <1>4, <1>5, <1>6, <1>7, <1>8, <1>9, <1>10 DEF Moving

LEMMA TickingKeepsTheContract ==
  ASSUME PastInv, Ticking
  PROVE  Contract!ContractNext
<1>1. /\ admissionAge \in 0..AgeCap /\ AgeCap \in Nat /\ AgeCap >= Interval
      /\ Interval \in Nat /\ owed \in 0..MaxWait /\ MaxWait \in Nat
  BY AgeCapType, IntervalAssumption, WaitAssumption
     DEF PastInv, Inv, TypeOK, PauseCoversTheDebt
<1>2. /\ admissionAge' = Smaller(admissionAge + 1, AgeCap)
      /\ owed' = Larger(0, owed - 1) /\ phase' = phase
  BY DEF Ticking, Tick
<1>3. owed' = IF owed > 0 THEN owed - 1 ELSE 0
  BY <1>1, <1>2 DEF Larger
<1> DEFINE rest == Larger(0, Interval - admissionAge)
<1>4. rest' = IF rest > 0 THEN rest - 1 ELSE 0
  BY <1>1, <1>2 DEF Larger, Smaller
<1>5. Waiting' = Waiting /\ Holders' = Holders
  BY <1>2 DEF Waiting, Holders, HoldersIn
<1>6. Contract!Pass
  BY <1>3, <1>4, <1>5 DEF Contract!Pass
<1>7. QED
  BY <1>6 DEF Contract!ContractNext

(* Whatever the queue, the timer, the merged pauses and the cancellations  *)
(* do, the quota sees only what AdmissionContract allows: bounded permits, *)
(* spaced starts, and no start while a stated wait is owed.                *)
THEOREM ContractIsKept == HistorySpec => ImplementsContract
<1>1. HistoryInit => Contract!ContractInit
  <2> SUFFICES ASSUME HistoryInit PROVE Contract!ContractInit
    OBVIOUS
  <2>1. Waiting = {} /\ Holders = {} /\ owed = 0 /\ admissionAge = AgeCap
    BY DEF HistoryInit, Init, Waiting, Holders, HoldersIn
  <2>2. Larger(0, Interval - admissionAge) = 0
    BY <2>1, AgeCapType, IntervalAssumption DEF Larger
  <2>3. QED
    BY <2>1, <2>2 DEF Contract!ContractInit
<1>2. ASSUME PastInv, PastInv', [HistoryNext]_historyVars
      PROVE  [Contract!ContractNext]_(Contract!contractVars)
  <2>1. PauseCoversTheDebt' /\ pauseAge' \in Int
    <3>1. pauseAge' \in (-MaxWait)..AgeCap
      BY <1>2 DEF PastInv, Inv, TypeOK
    <3>2. QED
      BY <1>2, <3>1, AgeCapType, WaitAssumption DEF PastInv
  <2>2. UNCHANGED historyVars => UNCHANGED Contract!contractVars
    BY DEF historyVars, Contract!contractVars, Waiting, Holders, HoldersIn
  <2>3. QED
    BY <1>2, <2>1, <2>2, HistorySteps, FailingKeepsTheContract, MovingKeepsTheContract,
       TickingKeepsTheContract
<1>3. QED
  BY <1>1, <1>2, HistoryInvariance, PTL
     DEF HistorySpec, ImplementsContract, Contract!ContractSpec

-----------------------------------------------------------------------------
(***************************************************************************)
(* A batch over the quota.                                                 *)
(***************************************************************************)
PendingPlaces == {"ready", "quota", "leaving", "backoff", "ended"}

(* Where an input is, where that leaves it in the quota, and whether it    *)
(* may send another request.  While the batch runs, an input leaves the    *)
(* quota on its own only from inside its block.                            *)
Standing(b, place, ph, n) ==
  /\ place \in {"unstarted", "ready", "backoff", "ended", "taken"} => ph = "idle"
  /\ place = "quota" => ph \in {"pending", "granted", "admitted"}
  /\ place = "leaving" => ph \in {"cancelled", "revoked", "admitted"}
  /\ b = "running" /\ place = "leaving" => ph = "admitted"
  /\ place \in {"unstarted", "ready", "backoff"} => n < MaxRequests
  /\ place = "quota" /\ ph # "admitted" => n < MaxRequests

InputShape ==
  /\ batch \in {"running", "settling", "over"}
  /\ at \in [Requests -> Places]
  /\ sent \in [Requests -> 0..MaxRequests]
  /\ left \in [Requests -> 0..Budget]

(* While inputs are left to start, every place among the pending is taken. *)
Filled ==
  /\ Cardinality(Pending) <= MaxPending
  /\ batch = "running" /\ Pending # {} /\ In({"unstarted"}) # {} =>
       Cardinality(Pending) = MaxPending
  /\ batch = "over" => Pending = {}

BatchInv ==
  /\ BatchAssumption
  /\ Inv
  /\ InputShape
  /\ \A i \in Requests : Standing(batch, at[i], phase[i], sent[i])
  /\ Filled

-----------------------------------------------------------------------------
(* Constants and sets.                                                     *)
LEMMA PendingCapacity ==
  ASSUME BatchAssumption
  PROVE  /\ MaxPending \in Nat \ {0}
         /\ MaxPending = MaxConcurrent + (MaxConcurrent * (TasksPerPermit - 1) + SparePending)
         /\ MaxConcurrent * (TasksPerPermit - 1) + SparePending \in Nat
         /\ MaxConcurrent \in Nat \ {0} /\ MaxRequests \in Nat \ {0}
<1>1. /\ MaxConcurrent \in Nat \ {0} /\ TasksPerPermit \in Nat \ {0}
      /\ SparePending \in Nat /\ MaxRequests \in Nat \ {0}
  BY PermitAssumption DEF BatchAssumption, Unlimited
<1>2. PICK more \in Nat : TasksPerPermit = more + 1
  <2>1. TasksPerPermit - 1 \in Nat /\ TasksPerPermit = (TasksPerPermit - 1) + 1
    BY <1>1
  <2>2. QED
    BY <2>1
<1>3. /\ MaxConcurrent * more \in Nat
      /\ MaxConcurrent * (more + 1) = MaxConcurrent * more + MaxConcurrent
  BY <1>1, <1>2
<1>4. TasksPerPermit - 1 = more
  BY <1>2
<1>5. MaxPending = (MaxConcurrent * more + MaxConcurrent) + SparePending
  BY <1>2, <1>3 DEF MaxPending
<1>6. QED
  BY <1>1, <1>3, <1>4, <1>5

LEMMA PendingIs == Pending = In(PendingPlaces)
  BY DEF Pending, Places, PendingPlaces, In

LEMMA FiniteInputs ==
  ASSUME BatchAssumption, NEW S \in SUBSET Requests
  PROVE  IsFiniteSet(S) /\ Cardinality(S) \in Nat
  BY FS_Subset, FS_CardinalityType DEF BatchAssumption

(* Pending inputs that stay pending leave the batch as full as it was.     *)
LEMMA StaysFilled ==
  ASSUME Filled, batch' \in {batch, "settling"}, batch # "over",
         \A i \in Requests :
           at'[i] = at[i] \/ (at[i] \in PendingPlaces /\ at'[i] \in PendingPlaces)
  PROVE  Filled'
<1>1. Pending' = Pending
  BY DEF Pending, In, Places, PendingPlaces
<1>2. In({"unstarted"})' = In({"unstarted"})
  BY DEF In, PendingPlaces
<1>3. QED
  BY <1>1, <1>2 DEF Filled, MaxPending

(* One input moves, and the others may be granted a permit meanwhile.      *)
LEMMA OneInputMoves ==
  ASSUME InputShape, \A j \in Requests : Standing(batch, at[j], phase[j], sent[j]),
         NEW i \in Requests, NEW place \in Places, NEW n \in 0..MaxRequests,
         at' = [at EXCEPT ![i] = place],
         sent' = [sent EXCEPT ![i] = n],
         UNCHANGED <<batch, left>>,
         Standing(batch, place, phase'[i], n),
         \A j \in Requests \ {i} :
           phase'[j] = phase[j] \/ (phase[j] = "pending" /\ phase'[j] = "granted")
  PROVE  InputShape' /\ \A j \in Requests : Standing(batch, at[j], phase[j], sent[j])'
<1>1. InputShape'
  BY DEF InputShape
<1>2. ASSUME NEW j \in Requests PROVE Standing(batch, at[j], phase[j], sent[j])'
  <2>1. CASE j = i
    BY <2>1 DEF InputShape
  <2>2. CASE j # i
    <3>1. at'[j] = at[j] /\ sent'[j] = sent[j]
      BY <2>2 DEF InputShape
    <3>2. Standing(batch, at[j], phase[j], sent[j])
      OBVIOUS
    <3>3. phase'[j] = phase[j] \/ (phase[j] = "pending" /\ phase'[j] = "granted")
      BY <2>2
    <3>4. QED
      BY <3>1, <3>2, <3>3 DEF Standing
  <2>3. QED
    BY <2>1, <2>2
<1>3. QED
  BY <1>1, <1>2

(* _admit_waiting moves nobody but the one it grants a permit.             *)
LEMMA AdmitWaitingMoves ==
  ASSUME NEW q \in Seq(Requests), NEW held \in Int,
         NEW ph \in [Requests -> Phases], NEW handle \in Int,
         Queued(q, ph), admissionAge \in Int, pauseAge' \in Int,
         AdmitWaiting(q, held, ph, handle)
  PROVE  \A j \in Requests :
           phase'[j] = ph[j] \/ (ph[j] = "pending" /\ phase'[j] = GrantedPhase(j))
<1>1. KeepsAll(held, ph) \/ \E r \in Requests : Grants(r, held, ph)
  BY AdmitWaitingEffect
<1>2. CASE KeepsAll(held, ph)
  BY <1>2 DEF KeepsAll
<1>3. ASSUME NEW r \in Requests, Grants(r, held, ph)
      PROVE  \A j \in Requests :
               phase'[j] = ph[j] \/ (ph[j] = "pending" /\ phase'[j] = GrantedPhase(j))
  BY <1>3 DEF Grants
<1>4. QED
  BY <1>1, <1>2, <1>3

LEMMA JoinMoves ==
  ASSUME Inv, NEW r \in Requests, Join(r)
  PROVE  /\ phase'[r] \in {"pending", "admitted"}
         /\ \A j \in Requests \ {r} :
              phase'[j] = phase[j] \/ (phase[j] = "pending" /\ phase'[j] = "granted")
<1> DEFINE q == Append(queue, r)
           ph == [phase EXCEPT ![r] = "pending"]
<1>1. /\ phase \in [Requests -> Phases] /\ phase[r] = "idle" /\ permitsHeld \in Int /\ timer \in Int
      /\ admissionAge \in Int /\ pauseAge' \in Int
  BY AgeCapType, WaitAssumption DEF Inv, TypeOK, Join
<1>2. q \in Seq(Requests) /\ ph \in [Requests -> Phases] /\ Queued(q, ph)
  BY <1>1, Joining
<1>3. AdmitWaiting(q, permitsHeld, ph, timer)
  BY DEF Join
<1>4. ph[r] = "pending" /\ \A j \in Requests \ {r} : ph[j] = phase[j]
  BY <1>1
<1> HIDE DEF q, ph
<1>5. \A j \in Requests :
        phase'[j] = ph[j] \/ (ph[j] = "pending" /\ phase'[j] = GrantedPhase(j))
  BY <1>1, <1>2, <1>3, AdmitWaitingMoves
<1>6. QED
  BY <1>1, <1>4, <1>5 DEF GrantedPhase

LEMMA ReleaseMoves ==
  ASSUME Inv, NEW r \in Requests, phase[r] \in {"admitted", "revoked"},
         NEW next \in {"idle", "drained"}, ReleasePermit(r, next), pauseAge' \in Int
  PROVE  /\ phase'[r] = next
         /\ \A j \in Requests \ {r} :
              phase'[j] = phase[j] \/ (phase[j] = "pending" /\ phase'[j] = "granted")
<1> DEFINE ph == [phase EXCEPT ![r] = next]
<1>1. /\ phase \in [Requests -> Phases] /\ queue \in Seq(Requests) /\ permitsHeld - 1 \in Int
      /\ timer \in Int /\ admissionAge \in Int
  BY AgeCapType DEF Inv, TypeOK
<1>2. ph \in [Requests -> Phases] /\ Queued(queue, ph)
  BY Leaving
<1>3. AdmitWaiting(queue, permitsHeld - 1, ph, timer)
  BY DEF ReleasePermit
<1>4. ph[r] = next /\ \A j \in Requests \ {r} : ph[j] = phase[j]
  BY <1>1
<1> HIDE DEF ph
<1>5. \A j \in Requests :
        phase'[j] = ph[j] \/ (ph[j] = "pending" /\ phase'[j] = GrantedPhase(j))
  BY <1>1, <1>2, <1>3, AdmitWaitingMoves
<1>6. QED
  BY <1>4, <1>5 DEF GrantedPhase

LEMMA FireMoves ==
  ASSUME Inv, TimerFires
  PROVE  \A j \in Requests :
           phase'[j] = phase[j] \/ (phase[j] = "pending" /\ phase'[j] = "granted")
<1>1. /\ phase \in [Requests -> Phases] /\ queue \in Seq(Requests) /\ permitsHeld \in Int
      /\ NoTimer \in Int /\ admissionAge \in Int /\ pauseAge' \in Int /\ Queued(queue, phase)
  BY AgeCapType, WaitAssumption DEF Inv, TypeOK, TimerFires, NoTimer
<1>2. AdmitWaiting(queue, permitsHeld, phase, NoTimer)
  BY DEF TimerFires
<1>3. \A j \in Requests :
        phase'[j] = phase[j] \/ (phase[j] = "pending" /\ phase'[j] = GrantedPhase(j))
  BY <1>1, <1>2, AdmitWaitingMoves
<1>4. QED
  BY <1>3 DEF GrantedPhase

-----------------------------------------------------------------------------
(* The steps.                                                              *)
LEMMA BatchStarts == ASSUME BatchAssumption, BatchInit PROVE BatchInv
<1>1. Inv
  BY InitInv DEF BatchInit
<1>2. InputShape
  BY PendingCapacity DEF BatchAssumption, BatchInit, InputShape, Places
<1>3. ASSUME NEW i \in Requests PROVE Standing(batch, at[i], phase[i], sent[i])
  BY PendingCapacity DEF BatchInit, Init, Standing
<1>4. Pending = {}
  BY PendingIs DEF BatchInit, In, PendingPlaces
<1>5. Filled
  BY <1>4, FS_EmptySet, PendingCapacity DEF Filled, BatchInit
<1>6. QED
  BY <1>1, <1>2, <1>3, <1>5 DEF BatchInv

LEMMA QueueKeepsInv ==
  ASSUME BatchInv, batch # "over", NEW i \in Requests, Queue(i)
  PROVE  BatchInv'
<1>1. /\ Inv /\ InputShape /\ Filled /\ at[i] = "ready" /\ Join(i)
      /\ at' = [at EXCEPT ![i] = "quota"] /\ UNCHANGED <<batch, left>>
      /\ sent[i] \in 0..MaxRequests /\ sent[i] < MaxRequests
  BY DEF BatchInv, Queue, Goes, Standing, InputShape
<1>2. Inv'
  BY <1>1, JoinInv
<1>3. /\ phase'[i] \in {"pending", "admitted"}
      /\ \A j \in Requests \ {i} :
           phase'[j] = phase[j] \/ (phase[j] = "pending" /\ phase'[j] = "granted")
  BY <1>1, JoinMoves
<1> DEFINE n == IF phase'[i] = "admitted" THEN sent[i] + 1 ELSE sent[i]
<1>4. n \in 0..MaxRequests /\ (phase'[i] # "admitted" => n < MaxRequests)
  BY <1>1, PendingCapacity DEF BatchInv
<1>5. sent' = [sent EXCEPT ![i] = n]
  BY <1>1 DEF Queue, CountStart, InputShape
<1> HIDE DEF n
<1>6. Standing(batch, "quota", phase'[i], n)
  BY <1>3, <1>4 DEF Standing
<1>7. InputShape' /\ \A j \in Requests : Standing(batch, at[j], phase[j], sent[j])'
  BY <1>1, <1>3, <1>4, <1>5, <1>6, OneInputMoves DEF BatchInv, Places
<1>8. Filled'
  BY <1>1, StaysFilled DEF PendingPlaces, InputShape
<1>9. QED
  BY <1>2, <1>7, <1>8 DEF BatchInv

LEMMA EnterKeepsInv ==
  ASSUME BatchInv, batch # "over", NEW i \in Requests, Enter(i)
  PROVE  BatchInv'
<1>1. /\ Inv /\ InputShape /\ Filled /\ at[i] = "quota" /\ WakeGranted(i)
      /\ phase' = [phase EXCEPT ![i] = "admitted"] /\ phase[i] = "granted"
      /\ UNCHANGED <<batch, at, left>> /\ phase \in [Requests -> Phases]
  BY DEF BatchInv, Enter, WakeGranted, Inv, TypeOK
<1>2. Inv'
  BY <1>1, WakeGrantedInv
<1>3. sent[i] \in 0..MaxRequests /\ sent[i] < MaxRequests
  BY <1>1 DEF BatchInv, Standing, InputShape
<1>4. sent[i] + 1 \in 0..MaxRequests
  BY <1>3, PendingCapacity DEF BatchInv
<1>5. /\ sent' = [sent EXCEPT ![i] = sent[i] + 1]
      /\ at' = [at EXCEPT ![i] = "quota"]
      /\ phase'[i] = "admitted" /\ \A j \in Requests \ {i} : phase'[j] = phase[j]
  BY <1>1 DEF Enter, CountStart, InputShape
<1>6. Standing(batch, "quota", phase'[i], sent[i] + 1)
  BY <1>5 DEF Standing
<1>7. InputShape' /\ \A j \in Requests : Standing(batch, at[j], phase[j], sent[j])'
  BY <1>1, <1>4, <1>5, <1>6, OneInputMoves DEF BatchInv, Places
<1>8. Filled'
  BY <1>1, StaysFilled
<1>9. QED
  BY <1>2, <1>7, <1>8 DEF BatchInv

(* An input gives its permit back and ends, or goes on to its next try.    *)
LEMMA LeavingTheQuota ==
  ASSUME BatchInv, batch # "over", NEW i \in Requests, at[i] \in {"quota", "leaving"},
         phase[i] \in {"admitted", "revoked"},
         NEW next \in {"idle", "drained"}, ReleasePermit(i, next), phase'[i] = "idle",
         pauseAge' \in (-MaxWait)..AgeCap, waitCeiling' \in MinCeiling..MaxWait,
         NEW place \in {"ready", "backoff", "ended"}, Goes(i, place),
         place # "ended" => sent[i] < MaxRequests,
         UNCHANGED <<batch, sent, left>>
  PROVE  BatchInv'
<1>1. Inv /\ InputShape /\ Filled /\ at' = [at EXCEPT ![i] = place]
  BY DEF BatchInv, Goes
<1>2. Inv'
  BY <1>1, ReleaseInv
<1>3. pauseAge' \in Int
  BY AgeCapType, WaitAssumption
<1>4. \A j \in Requests \ {i} :
        phase'[j] = phase[j] \/ (phase[j] = "pending" /\ phase'[j] = "granted")
  BY <1>1, <1>3, ReleaseMoves
<1>5. sent' = [sent EXCEPT ![i] = sent[i]] /\ sent[i] \in 0..MaxRequests
  BY <1>1 DEF InputShape
<1>6. Standing(batch, place, phase'[i], sent[i])
  BY DEF Standing
<1>7. InputShape' /\ \A j \in Requests : Standing(batch, at[j], phase[j], sent[j])'
  BY <1>1, <1>4, <1>5, <1>6, OneInputMoves, ZenonT(40) DEF BatchInv, Places
<1>8. Filled'
  BY <1>1, StaysFilled DEF PendingPlaces, InputShape
<1>9. QED
  BY <1>2, <1>7, <1>8 DEF BatchInv

LEMMA AnsweredKeepsInv ==
  ASSUME BatchInv, batch # "over", NEW i \in Requests, Answered(i)
  PROVE  BatchInv'
<1>1. /\ at[i] = "quota" /\ phase[i] = "admitted" /\ phase'[i] = "idle"
      /\ Goes(i, "ended") /\ UNCHANGED <<batch, sent, left>>
      /\ UNCHANGED <<pauseAge, waitCeiling>>
  BY DEF Answered, Exit
<1>2. PICK next \in {"idle", "drained"} : ReleasePermit(i, next)
  BY DEF Answered, Exit
<1>3. pauseAge' \in (-MaxWait)..AgeCap /\ waitCeiling' \in MinCeiling..MaxWait
  BY <1>1 DEF BatchInv, Inv, TypeOK
<1>4. QED
  BY <1>1, <1>2, <1>3, LeavingTheQuota

LEMMA FailsKeepsInv ==
  ASSUME BatchInv, batch # "over", NEW i \in Requests, NEW failure \in Failures, Fails(i, failure)
  PROVE  BatchInv'
<1>1. /\ at[i] = "quota" /\ phase[i] = "admitted" /\ Record(failure)
      /\ ReleasePermit(i, "idle") /\ UNCHANGED <<batch, sent, left>> /\ Inv
  BY DEF Fails, FailAndExit, BatchInv
<1>2. PICK place \in {"ready", "backoff", "ended"} :
        Goes(i, place) /\ (place # "ended" => sent[i] < MaxRequests)
  BY DEF Fails
<1>3. /\ pauseAge' \in (-MaxWait)..AgeCap /\ waitCeiling' \in MinCeiling..MaxWait
  BY <1>1, RecordType DEF Inv
<1>4. phase'[i] = "idle"
  <2>1. pauseAge' \in Int
    BY <1>3, AgeCapType, WaitAssumption
  <2>2. QED
    BY <1>1, <2>1, ReleaseMoves
<1>5. QED
  BY <1>1, <1>2, <1>3, <1>4, LeavingTheQuota

LEMMA LeaveKeepsInv ==
  ASSUME BatchInv, batch # "over", NEW i \in Requests, Leave(i)
  PROVE  BatchInv'
<1>1. /\ at[i] = "leaving" /\ Goes(i, "ended") /\ UNCHANGED <<batch, sent, left>>
      /\ Inv /\ InputShape /\ Filled
  BY DEF Leave, BatchInv
<1>2. CASE WakeRevoked(i) \/ (Exit(i) /\ phase'[i] = "idle")
  <2>1. /\ phase[i] \in {"admitted", "revoked"} /\ UNCHANGED <<pauseAge, waitCeiling>>
        /\ \E next \in {"idle", "drained"} : ReleasePermit(i, next)
        /\ WakeRevoked(i) => ReleasePermit(i, "idle")
    BY <1>2 DEF WakeRevoked, Exit
  <2>2. pauseAge' \in (-MaxWait)..AgeCap /\ waitCeiling' \in MinCeiling..MaxWait
    BY <2>1 DEF BatchInv, Inv, TypeOK
  <2>3. phase'[i] = "idle"
    <3>1. pauseAge' \in Int
      BY <2>2, AgeCapType, WaitAssumption
    <3>2. QED
      BY <1>1, <1>2, <2>1, <3>1, ReleaseMoves
  <2>4. QED
    BY <1>1, <2>1, <2>2, <2>3, LeavingTheQuota
<1>3. CASE WakeCancelled(i)
  <2>1. Inv'
    BY <1>1, <1>3, WakeCancelledInv
  <2>2. /\ phase'[i] = "idle" /\ \A j \in Requests \ {i} : phase'[j] = phase[j]
    BY <1>1, <1>3 DEF WakeCancelled, Inv, TypeOK
  <2>3. /\ at' = [at EXCEPT ![i] = "ended"]
        /\ sent' = [sent EXCEPT ![i] = sent[i]] /\ sent[i] \in 0..MaxRequests
    BY <1>1 DEF InputShape, Goes
  <2>4. Standing(batch, "ended", phase'[i], sent[i])
    BY <2>2 DEF Standing
  <2>5. InputShape' /\ \A j \in Requests : Standing(batch, at[j], phase[j], sent[j])'
    BY <1>1, <2>2, <2>3, <2>4, OneInputMoves DEF BatchInv, Places
  <2>6. Filled'
    BY <1>1, <2>3, StaysFilled DEF PendingPlaces, InputShape
  <2>7. QED
    BY <2>1, <2>5, <2>6 DEF BatchInv
<1>4. QED
  BY <1>2, <1>3 DEF Leave

(* Steps that leave the quota as it is.                                    *)
LEMMA QuotaRests == ASSUME Inv, UNCHANGED vars PROVE Inv'
  BY NextInv

LEMMA MovingAtRest ==
  ASSUME BatchInv, batch # "over", NEW i \in Requests, BackoffEnds(i) \/ Expires(i)
  PROVE  BatchInv'
<1>1. Inv /\ InputShape /\ Filled /\ Standing(batch, at[i], phase[i], sent[i])
      /\ UNCHANGED <<phase, batch, sent, left>>
  BY DEF BatchInv, BackoffEnds, Expires, vars
<1>2. Inv'
  BY QuotaRests DEF BackoffEnds, Expires, BatchInv
<1>3. PICK place \in {"ready", "ended", "leaving"} :
        /\ at' = [at EXCEPT ![i] = place]
        /\ \/ at[i] = "backoff" /\ place # "leaving"
           \/ at[i] = "quota" /\ phase[i] = "admitted" /\ place = "leaving"
  BY DEF BackoffEnds, Expires, Working, Goes
<1>4. Standing(batch, place, phase'[i], sent[i])
  BY <1>1, <1>3 DEF Standing
<1>5. sent' = [sent EXCEPT ![i] = sent[i]] /\ sent[i] \in 0..MaxRequests
  BY <1>1 DEF InputShape
<1>6. \A j \in Requests \ {i} : phase'[j] = phase[j]
  BY <1>1
<1>7. InputShape' /\ \A j \in Requests : Standing(batch, at[j], phase[j], sent[j])'
  <2>1. /\ place \in Places /\ UNCHANGED <<batch, left>> /\ sent[i] \in 0..MaxRequests
        /\ \A j \in Requests : Standing(batch, at[j], phase[j], sent[j])
        /\ \A j \in Requests \ {i} :
             phase'[j] = phase[j] \/ (phase[j] = "pending" /\ phase'[j] = "granted")
    BY <1>1, <1>3, <1>5, <1>6 DEF BatchInv, Places
  <2>2. InputShape /\ at' = [at EXCEPT ![i] = place] /\ sent' = [sent EXCEPT ![i] = sent[i]]
    BY <1>1, <1>3, <1>5
  <2>3. QED
    BY <1>4, <2>1, <2>2, OneInputMoves
<1>8. Filled'
  BY <1>1, <1>3, StaysFilled DEF PendingPlaces, InputShape
<1>9. QED
  BY <1>2, <1>7, <1>8 DEF BatchInv

(* A grant that a timer makes, and the passing of time.                    *)
LEMMA GrantsKeepStanding ==
  ASSUME BatchInv, UNCHANGED <<batch, at, sent>>,
         \A j \in Requests :
           phase'[j] = phase[j] \/ (phase[j] = "pending" /\ phase'[j] = "granted")
  PROVE  Filled' /\ \A j \in Requests : Standing(batch, at[j], phase[j], sent[j])'
<1>1. ASSUME NEW j \in Requests PROVE Standing(batch, at[j], phase[j], sent[j])'
  <2>1. Standing(batch, at[j], phase[j], sent[j])
    BY DEF BatchInv
  <2>2. QED
    BY <2>1 DEF Standing
<1>2. Filled'
  BY DEF BatchInv, Filled, Pending, In, MaxPending
<1>3. QED
  BY <1>1, <1>2

LEMMA FiresKeepsInv == ASSUME BatchInv, Fires PROVE BatchInv'
<1>1. Inv /\ InputShape /\ TimerFires /\ UNCHANGED <<batch, at, sent, left>>
  BY DEF BatchInv, Fires, inputVars
<1>2. Inv'
  BY <1>1, TimerFiresInv
<1>3. \A j \in Requests :
        phase'[j] = phase[j] \/ (phase[j] = "pending" /\ phase'[j] = "granted")
  BY <1>1, FireMoves
<1>4. Filled' /\ \A j \in Requests : Standing(batch, at[j], phase[j], sent[j])'
  BY <1>1, <1>3, GrantsKeepStanding
<1>5. InputShape'
  BY <1>1 DEF InputShape
<1>6. QED
  BY <1>2, <1>4, <1>5 DEF BatchInv

LEMMA TimePassesKeepsInv == ASSUME BatchInv, TimePasses PROVE BatchInv'
<1>1. /\ Inv /\ InputShape /\ Tick /\ UNCHANGED <<batch, at, sent>>
      /\ \A i \in Requests : Working(i) => left[i] > 0
      /\ left' = [i \in Requests |-> IF Working(i) THEN left[i] - 1 ELSE left[i]]
  BY DEF BatchInv, TimePasses
<1>2. Inv'
  BY <1>1, TickInv
<1>3. UNCHANGED phase
  BY <1>1 DEF Tick
<1>4. Filled' /\ \A j \in Requests : Standing(batch, at[j], phase[j], sent[j])'
  BY <1>1, <1>3, GrantsKeepStanding
<1>5. Budget \in Nat /\ \A i \in Requests : left[i] \in 0..Budget
  BY <1>1 DEF BatchInv, BatchAssumption, InputShape
<1> DEFINE rest(i) == IF Working(i) THEN left[i] - 1 ELSE left[i]
<1>6. ASSUME NEW i \in Requests PROVE rest(i) \in 0..Budget
  <2>1. CASE Working(i)
    BY <2>1, <1>1, <1>5
  <2>2. CASE ~Working(i)
    BY <2>2, <1>5
  <2>3. QED
    BY <2>1, <2>2
<1>7. left' = [i \in Requests |-> rest(i)]
  BY <1>1
<1> HIDE DEF rest
<1>8. left' \in [Requests -> 0..Budget]
  BY <1>6, <1>7
<1>9. InputShape'
  BY <1>1, <1>8 DEF InputShape
<1>10. QED
  BY <1>2, <1>4, <1>9 DEF BatchInv

-----------------------------------------------------------------------------
(* run_many's own steps.                                                   *)
LEMMA TakeAndFillKeepsInv ==
  ASSUME BatchInv, TakeAndFill
  PROVE  BatchInv'
<1> DEFINE going == Pending \ In({"ended"})
           unstarted == In({"unstarted"})
<1>1. /\ Inv /\ InputShape /\ Filled /\ batch = "running"
      /\ UNCHANGED <<vars, sent, left>>
  BY DEF BatchInv, TakeAndFill
<1>2. PICK new \in SUBSET unstarted :
        /\ Cardinality(new) = Smaller(MaxPending - Cardinality(going), Cardinality(unstarted))
        /\ at' = [i \in Requests |-> IF i \in new THEN "ready"
                                     ELSE IF at[i] = "ended" THEN "taken" ELSE at[i]]
        /\ batch' = IF going \union new = {} THEN "over" ELSE "running"
  BY DEF TakeAndFill
<1>3. Inv' /\ UNCHANGED phase
  BY <1>1, QuotaRests DEF vars
<1>4. /\ Pending' = going \union new
      /\ In({"unstarted"})' = unstarted \ new
      /\ going \cap new = {}
  <2>1. Pending = In(PendingPlaces) /\ Pending' = {i \in Requests : at'[i] \in PendingPlaces}
    BY DEF Pending, Places, PendingPlaces, In
  <2>2. \A i \in Requests : at'[i] = IF i \in new THEN "ready"
                                     ELSE IF at[i] = "ended" THEN "taken" ELSE at[i]
    BY <1>2
  <2>3. \A i \in new : i \in Requests /\ at[i] = "unstarted"
    BY DEF In
  <2>4. going = {i \in Requests : at[i] \in PendingPlaces /\ at[i] # "ended"}
    BY <2>1 DEF In
  <2>5. unstarted = {i \in Requests : at[i] = "unstarted"}
    BY DEF In
  <2>6. In({"unstarted"})' = {i \in Requests : at'[i] = "unstarted"}
    BY DEF In
  <2> HIDE DEF going, unstarted
  <2>7. Pending' = going \union new
    BY <2>1, <2>2, <2>3, <2>4 DEF PendingPlaces
  <2>8. In({"unstarted"})' = unstarted \ new
    BY <2>2, <2>5, <2>6
  <2>9. QED
    BY <2>3, <2>4, <2>7, <2>8 DEF PendingPlaces
<1>5. InputShape'
  BY <1>1, <1>2 DEF InputShape, Places
<1>6. ASSUME NEW j \in Requests PROVE Standing(batch, at[j], phase[j], sent[j])'
  <2>1. Standing(batch, at[j], phase[j], sent[j])
    BY DEF BatchInv
  <2>2. /\ at'[j] = IF j \in new THEN "ready" ELSE IF at[j] = "ended" THEN "taken" ELSE at[j]
        /\ j \in new => at[j] = "unstarted"
        /\ phase'[j] = phase[j] /\ sent'[j] = sent[j]
    BY <1>1, <1>2, <1>3 DEF In
  <2>3. CASE j \in new
    BY <2>1, <2>2, <2>3 DEF Standing
  <2>4. CASE j \notin new /\ at[j] = "ended"
    BY <2>1, <2>2, <2>4 DEF Standing
  <2>5. CASE j \notin new /\ at[j] # "ended"
    <3>1. at'[j] = at[j] /\ batch = "running"
      BY <1>1, <2>2, <2>5
    <3>2. QED
      BY <2>1, <2>2, <3>1 DEF Standing
  <2>6. QED
    BY <2>3, <2>4, <2>5
<1>7. /\ IsFiniteSet(going) /\ Cardinality(going) \in Nat
      /\ IsFiniteSet(new) /\ Cardinality(new) \in Nat
      /\ IsFiniteSet(unstarted) /\ Cardinality(unstarted) \in Nat
      /\ IsFiniteSet(Pending) /\ Cardinality(Pending) \in Nat
  <2>1. going \in SUBSET Requests /\ new \in SUBSET Requests
        /\ unstarted \in SUBSET Requests /\ Pending \in SUBSET Requests
    BY DEF Pending, In
  <2>2. QED
    BY <2>1, FiniteInputs DEF BatchInv
<1>8. Cardinality(going) <= MaxPending /\ MaxPending \in Nat
  <2>1. going \subseteq Pending
    OBVIOUS
  <2>2. Cardinality(going) <= Cardinality(Pending)
    BY <1>7, <2>1, FS_Subset
  <2>3. QED
    BY <1>1, <1>7, <2>2, PendingCapacity DEF BatchInv, Filled
<1>9. Cardinality(Pending') = Cardinality(going) + Cardinality(new)
  <2>1. going \cap new = {} /\ Cardinality(going \cap new) = 0
    BY <1>4, FS_EmptySet
  <2> HIDE DEF going
  <2>2. Cardinality(going \union new)
          = Cardinality(going) + Cardinality(new) - Cardinality(going \cap new)
    BY <1>7, FS_Union
  <2>3. QED
    BY <1>4, <1>7, <2>1, <2>2
<1>10. Cardinality(Pending') <= MaxPending
  BY <1>2, <1>7, <1>8, <1>9 DEF Smaller
<1>11. ASSUME In({"unstarted"})' # {} PROVE Cardinality(Pending') = MaxPending
  <2>1. new # unstarted /\ new \subseteq unstarted
    BY <1>4, <1>11
  <2> HIDE DEF unstarted
  <2>2. Cardinality(new) < Cardinality(unstarted)
    BY <1>7, <2>1, FS_Subset
  <2>3. QED
    BY <1>2, <1>7, <1>8, <1>9, <2>2 DEF Smaller
<1>12. batch' = "over" => Pending' = {}
  BY <1>2, <1>4
<1>13. Filled'
  BY <1>10, <1>11, <1>12 DEF Filled, MaxPending
<1>14. QED
  BY <1>3, <1>5, <1>6, <1>13 DEF BatchInv

LEMMA SettleKeepsInv == ASSUME BatchInv, Settle PROVE BatchInv'
<1>1. /\ Inv /\ InputShape /\ Filled /\ Pending = In({"ended"})
      /\ batch = "settling" /\ batch' = "over" /\ UNCHANGED <<vars, sent, left>>
      /\ at' = [i \in Requests |-> IF at[i] = "ended" THEN "taken" ELSE at[i]]
  BY DEF BatchInv, Settle
<1>2. Inv' /\ UNCHANGED phase
  BY <1>1, QuotaRests DEF vars
<1>3. Pending' = {}
  <2>1. \A i \in Requests : at[i] \in PendingPlaces => at[i] = "ended"
    BY <1>1, PendingIs DEF In
  <2>2. \A i \in Requests : at'[i] \notin PendingPlaces
    BY <1>1, <2>1 DEF PendingPlaces
  <2>3. Pending' = {i \in Requests : at'[i] \in PendingPlaces}
    BY DEF Pending, Places, PendingPlaces, In
  <2>4. QED
    BY <2>2, <2>3
<1>4. InputShape'
  BY <1>1 DEF InputShape, Places
<1>5. ASSUME NEW j \in Requests PROVE Standing(batch, at[j], phase[j], sent[j])'
  <2>1. Standing(batch, at[j], phase[j], sent[j])
    BY DEF BatchInv
  <2>2. /\ at'[j] = IF at[j] = "ended" THEN "taken" ELSE at[j]
        /\ phase'[j] = phase[j] /\ sent'[j] = sent[j] /\ batch' # "running"
    BY <1>1, <1>2
  <2>3. CASE at[j] = "ended"
    BY <2>1, <2>2, <2>3 DEF Standing
  <2>4. CASE at[j] # "ended"
    BY <2>1, <2>2, <2>4 DEF Standing
  <2>5. QED
    BY <2>3, <2>4
<1>6. Filled'
  <2>1. Cardinality(Pending') = 0 /\ MaxPending \in Nat
    BY <1>3, FS_EmptySet, PendingCapacity DEF BatchInv
  <2>2. QED
    BY <1>1, <1>3, <2>1 DEF Filled, MaxPending
<1>7. QED
  BY <1>2, <1>4, <1>5, <1>6 DEF BatchInv

(* Cancelling every task at once takes no permit and gives none back, and  *)
(* wakes nobody: that is left to the tasks.                                *)
LEMMA CancelBatchKeepsInv == ASSUME BatchInv, CancelBatch PROVE BatchInv'
<1>1. /\ Inv /\ InputShape /\ Filled /\ TypeOK /\ batch = "running" /\ batch' = "settling"
      /\ UNCHANGED <<queue, permitsHeld, pauseAge, waitCeiling, admissionAge, timer, sent, left>>
      /\ at' = [i \in Requests |-> IF at[i] \in {"ready", "backoff"} THEN "ended"
                                   ELSE IF at[i] = "quota" THEN "leaving" ELSE at[i]]
      /\ queue \in Seq(Requests) /\ Queued(queue, phase)
  BY DEF BatchInv, CancelBatch, Inv, TypeOK
<1>2. phase' = [i \in Requests |-> CancelledIn(i)] /\ phase \in [Requests -> Phases]
  BY DEF CancelBatch, BatchInv, Inv, TypeOK
<1>3. ASSUME NEW i \in Requests
      PROVE  /\ phase[i] = "pending" => phase'[i] = "cancelled"
             /\ phase[i] = "granted" => phase'[i] = "revoked"
             /\ phase[i] \notin {"pending", "granted"} => phase'[i] = phase[i]
  <2>1. phase'[i] = CancelledIn(i)
    BY <1>2
  <2>2. phase[i] = "pending" => CancelledIn(i) = "cancelled"
    BY Zenon DEF CancelledIn
  <2>3. phase[i] = "granted" => CancelledIn(i) = "revoked"
    <3>1. "granted" # "pending"
      OBVIOUS
    <3>2. QED
      BY <3>1, Zenon DEF CancelledIn
  <2>4. phase[i] \notin {"pending", "granted"} => CancelledIn(i) = phase[i]
    <3>1. SUFFICES ASSUME phase[i] # "pending", phase[i] # "granted"
                   PROVE  CancelledIn(i) = phase[i]
      OBVIOUS
    <3>2. QED
      BY <3>1, Zenon DEF CancelledIn
  <2>5. QED
    BY <2>1, <2>2, <2>3, <2>4
<1>4. phase' \in [Requests -> Phases]
  <2>1. \A i \in Requests : phase'[i] \in Phases
    BY <1>2, <1>3 DEF Phases
  <2>2. QED
    BY <1>2, <2>1
<1>5. Inv'
  <2>1. TypeOK'
    BY <1>1, <1>4 DEF TypeOK
  <2>2. Queued(queue, phase)'
    <3>1. \A i \in 1..Len(queue) : queue[i] \in Requests
      BY <1>1, ElementOfSeq
    <3>2. \A i \in 1..Len(queue) : phase'[queue[i]] \in {"pending", "cancelled"}
      BY <1>1, <1>3, <3>1 DEF Queued
    <3>3. \A r \in Requests : phase'[r] # "pending"
      BY <1>3
    <3>4. QED
      BY <1>1, <3>2, <3>3 DEF Queued
  <2>3. Holders' = Holders
    <3>1. \A r \in Requests : phase'[r] \in {"granted", "revoked", "admitted"}
                               <=> phase[r] \in {"granted", "revoked", "admitted"}
      BY <1>3
    <3>2. QED
      BY <3>1 DEF Holders, HoldersIn
  <2>4. Waiting' = {}
    BY <1>3 DEF Waiting
  <2>5. NoLostWakeup'
    BY <2>4 DEF NoLostWakeup
  <2>6. QED
    BY <1>1, <2>1, <2>2, <2>3, <2>5 DEF Inv, PermitAccounting
<1>6. InputShape'
  BY <1>1 DEF InputShape, Places
<1>7. ASSUME NEW j \in Requests PROVE Standing(batch, at[j], phase[j], sent[j])'
  <2>1. Standing(batch, at[j], phase[j], sent[j])
    BY DEF BatchInv
  <2>2. /\ at'[j] = IF at[j] \in {"ready", "backoff"} THEN "ended"
                    ELSE IF at[j] = "quota" THEN "leaving" ELSE at[j]
        /\ sent'[j] = sent[j] /\ batch' # "running"
    BY <1>1
  <2>3. CASE at[j] \in {"ready", "backoff"}
    BY <1>3, <2>1, <2>2, <2>3 DEF Standing
  <2>4. CASE at[j] = "quota"
    BY <1>3, <2>1, <2>2, <2>4 DEF Standing
  <2>5. CASE at[j] \in {"unstarted", "leaving", "ended", "taken"}
    <3>1. at'[j] = at[j]
      BY <2>2, <2>5
    <3>2. phase[j] \in {"idle", "cancelled", "revoked", "admitted"} /\ phase'[j] = phase[j]
      BY <1>1, <1>3, <2>1, <2>5 DEF Standing
    <3>3. QED
      BY <2>1, <2>2, <2>5, <3>1, <3>2 DEF Standing
  <2>6. QED
    BY <1>1, <2>3, <2>4, <2>5 DEF InputShape, Places
<1>8. Filled'
  <2>1. \A i \in Requests :
          at'[i] = at[i] \/ (at[i] \in PendingPlaces /\ at'[i] \in PendingPlaces)
    BY <1>1 DEF PendingPlaces
  <2>2. QED
    BY <1>1, <2>1, StaysFilled
<1>9. QED
  BY <1>5, <1>6, <1>7, <1>8 DEF BatchInv

-----------------------------------------------------------------------------
LEMMA BatchStep == BatchInv /\ [BatchNext]_batchVars => BatchInv'
<1> SUFFICES ASSUME BatchInv, [BatchNext]_batchVars PROVE BatchInv'
  OBVIOUS
<1>1. CASE UNCHANGED batchVars
  <2>1. /\ Inv /\ UNCHANGED vars /\ UNCHANGED <<phase, batch, at, sent, left>>
    BY <1>1 DEF BatchInv, batchVars, inputVars, vars
  <2>2. Inv'
    BY <2>1, QuotaRests
  <2>3. Filled' /\ \A j \in Requests : Standing(batch, at[j], phase[j], sent[j])'
    BY <2>1, GrantsKeepStanding
  <2>4. InputShape'
    BY <2>1 DEF BatchInv, InputShape
  <2>5. QED
    BY <2>2, <2>3, <2>4 DEF BatchInv
<1>2. ASSUME NEW i \in Requests,
             \/ Step(i) \/ Answered(i)
             \/ \E failure \in Failures : Fails(i, failure)
      PROVE  BatchInv'
  <2>1. at[i] \in PendingPlaces
    BY <1>2 DEF Step, Queue, Enter, Leave, BackoffEnds, Expires, Working, Answered, Fails,
                PendingPlaces
  <2>2. batch # "over"
    BY <2>1, PendingIs DEF BatchInv, Filled, In
  <2>3. QED
    BY <1>2, <2>2, QueueKeepsInv, EnterKeepsInv, LeaveKeepsInv, MovingAtRest,
       AnsweredKeepsInv, FailsKeepsInv DEF Step
<1>3. QED
  BY <1>1, <1>2, TakeAndFillKeepsInv, SettleKeepsInv, CancelBatchKeepsInv,
     FiresKeepsInv, TimePassesKeepsInv DEF BatchNext

LEMMA BatchInvariance == ASSUME BatchAssumption PROVE BatchSpec => []BatchInv
<1>1. BatchInit => BatchInv
  BY BatchStarts
<1>2. QED
  BY <1>1, BatchStep, PTL DEF BatchSpec

(* With a permit idle, nobody in its queue and nobody on the way there,    *)
(* the inputs in the quota are fewer than the permits.                     *)
LEMMA PermitsAreTaken ==
  ASSUME BatchInv, batch = "running", PermitFree(permitsHeld), Waiting = {}
  PROVE  Cardinality(In({"quota", "leaving"})) < MaxConcurrent
<1> DEFINE inside == In({"quota", "leaving"})
<1>1. inside \subseteq Holders
  <2>1. ASSUME NEW i \in inside PROVE i \in Holders
    <3>1. i \in Requests /\ at[i] \in {"quota", "leaving"}
      BY <2>1 DEF In
    <3>2. Standing(batch, at[i], phase[i], sent[i]) /\ phase[i] # "pending"
      BY <3>1 DEF BatchInv, Waiting
    <3>3. phase[i] \in {"granted", "admitted"}
      BY <3>1, <3>2 DEF Standing
    <3>4. QED
      BY <3>1, <3>3 DEF Holders, HoldersIn
  <2>2. QED
    BY <2>1
<1>2. inside \in SUBSET Requests /\ Holders \in SUBSET Requests
  BY DEF In, Holders, HoldersIn
<1>3. /\ Cardinality(inside) \in Nat /\ IsFiniteSet(Holders) /\ Cardinality(Holders) \in Nat
      /\ permitsHeld = Cardinality(Holders)
  BY <1>2, FiniteInputs DEF BatchInv, Inv, PermitAccounting
<1> HIDE DEF inside
<1>4. Cardinality(inside) <= Cardinality(Holders)
  BY <1>1, <1>3, FS_Subset
<1>5. permitsHeld < MaxConcurrent
  BY DEF BatchInv, BatchAssumption, PermitFree
<1>6. QED
  BY <1>3, <1>4, <1>5, PendingCapacity DEF BatchInv, inside

LEMMA InvSuppliesPermits == BatchInv => PermitsAreSupplied
<1> SUFFICES ASSUME BatchInv, batch = "running", Pending # {}, In({"unstarted"}) # {},
                    PermitFree(permitsHeld), Waiting = {}, In({"ready"}) = {}
             PROVE  Cardinality(In({"backoff", "ended"}))
                      > MaxConcurrent * (TasksPerPermit - 1) + SparePending
  BY DEF PermitsAreSupplied
<1> DEFINE inside == In({"quota", "leaving"})
           away == In({"backoff", "ended"})
           spare == MaxConcurrent * (TasksPerPermit - 1) + SparePending
<1>1. Pending = inside \union away /\ inside \cap away = {}
  <2>1. \A i \in Requests : at[i] # "ready"
    BY DEF In
  <2>2. QED
    BY <2>1, PendingIs DEF In, PendingPlaces
<1>2. inside \in SUBSET Requests /\ away \in SUBSET Requests
  BY DEF In
<1>3. /\ IsFiniteSet(inside) /\ Cardinality(inside) \in Nat
      /\ IsFiniteSet(away) /\ Cardinality(away) \in Nat
  BY <1>2, FiniteInputs DEF BatchInv
<1>4. Cardinality(inside) < MaxConcurrent
  BY PermitsAreTaken
<1>5. Cardinality(Pending) = MaxPending
  BY DEF BatchInv, Filled
<1>6. MaxPending = MaxConcurrent + spare /\ spare \in Nat /\ MaxConcurrent \in Nat
  BY PendingCapacity DEF BatchInv
<1> HIDE DEF inside, away, spare
<1>7. Cardinality(inside \union away)
        = Cardinality(inside) + Cardinality(away) - Cardinality(inside \cap away)
  BY <1>3, FS_Union
<1>8. Cardinality(inside \cap away) = 0
  BY <1>1, FS_EmptySet
<1>9. Cardinality(away) > spare
  BY <1>1, <1>3, <1>4, <1>5, <1>6, <1>7, <1>8
<1>10. QED
  BY <1>9 DEF away, spare

LEMMA InvFreesTheQuota == BatchInv => QuotaIsFreeAtTheEnd
<1> SUFFICES ASSUME BatchInv, batch = "over" PROVE permitsHeld = 0 /\ queue = <<>>
  BY DEF QuotaIsFreeAtTheEnd
<1>1. /\ queue \in Seq(Requests) /\ Queued(queue, phase) /\ permitsHeld = Cardinality(Holders)
      /\ InputShape /\ Pending = {}
  BY DEF BatchInv, Inv, TypeOK, PermitAccounting, Filled
<1>2. \A i \in Requests : phase[i] = "idle"
  <2>1. ASSUME NEW i \in Requests PROVE phase[i] = "idle"
    <3>1. at[i] \in {"unstarted", "taken"}
      BY <1>1, PendingIs DEF InputShape, Places, PendingPlaces, In
    <3>2. Standing(batch, at[i], phase[i], sent[i])
      BY DEF BatchInv
    <3>3. QED
      BY <3>1, <3>2 DEF Standing
  <2>2. QED
    BY <2>1
<1>3. permitsHeld = 0
  <2>1. Holders = {}
    BY <1>2 DEF Holders, HoldersIn
  <2>2. QED
    BY <1>1, <2>1, FS_EmptySet
<1>4. queue = <<>>
  <2>1. Len(queue) \in Nat /\ \A k \in 1..Len(queue) : queue[k] \in Requests
    BY <1>1, ElementOfSeq
  <2>2. \A k \in 1..Len(queue) : FALSE
    BY <1>1, <1>2, <2>1 DEF Queued
  <2>3. Len(queue) = 0
    BY <2>1, <2>2
  <2>4. QED
    BY <1>1, <2>3, EmptySeq
<1>5. QED
  BY <1>3, <1>4

(* While inputs are left to start, a permit lies idle with an empty queue  *)
(* only if more tasks are away, waiting on their own or done, than the     *)
(* spare ones; no input sends more than max_requests requests or overdraws *)
(* its budget; and when the batch is over, however it ended, every permit  *)
(* is back and nobody is left in the queue.                                *)
THEOREM PermitsComeBack ==
  ASSUME BatchAssumption PROVE BatchSpec => []PermitsAreUsedAndReturned
<1>1. BatchInv => BatchTypeOK
  BY DEF BatchInv, Inv, InputShape, Filled, BatchTypeOK
<1>2. BatchInv => PermitsAreUsedAndReturned
  BY <1>1, InvSuppliesPermits, InvFreesTheQuota DEF PermitsAreUsedAndReturned
<1>3. QED
  BY <1>2, BatchInvariance, PTL
=============================================================================
