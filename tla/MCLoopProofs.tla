---------------------------- MODULE MCLoopProofs ----------------------------
(***************************************************************************)
(* run_many, the client cache and the batches of embed, for any number of  *)
(* calls, callers and batches, and the loop of one input, for every        *)
(* max_requests, every budget and every choice of deadlines.               *)
(***************************************************************************)
EXTENDS MCLoop, RequestHistoryProofs, FiniteSetTheorems

LEMMA SameCount ==
  \A S : /\ Many!Cardinality(S) = Cardinality(S)
         /\ Cache!Cardinality(S) = Cardinality(S)
         /\ Embed!Cardinality(S) = Cardinality(S)
  BY Zenon DEF Cardinality, Many!Cardinality, Embed!Cardinality, Cache!Cardinality

(* The least element of a set of positions.                                *)
LEMMA LeastOf ==
  ASSUME NEW S \in SUBSET Nat, S # {}
  PROVE  \E x \in S : \A y \in S : x <= y
<1> DEFINE R == {pair \in Nat \X Nat : pair[1] < pair[2]}
<1>1. R = OpToRel(<, Nat)
  BY Zenon DEF OpToRel
<1>2. IsWellFoundedOn(R, Nat)
  BY <1>1, NatLessThanWellFounded, Zenon
<1> HIDE DEF R
<1>3. \E x \in S : \A y \in S : ~ (<<y, x>> \in R)
  BY <1>2, WFMin
<1>4. \A x, y \in Nat : y < x => <<y, x>> \in R
  BY DEF R
<1>5. PICK x \in S : \A y \in S : ~ (<<y, x>> \in R)
  BY <1>3
<1>6. \A y \in S : ~ (y < x)
  BY <1>4, <1>5
<1>7. QED
  BY <1>6

LEMMA UnionCount ==
  ASSUME NEW S, NEW T, IsFiniteSet(S), IsFiniteSet(T), S \intersect T = {}
  PROVE  /\ IsFiniteSet(S \union T)
         /\ Cardinality(S \union T) = Cardinality(S) + Cardinality(T)
         /\ Cardinality(S) \in Nat /\ Cardinality(T) \in Nat
<1>1. /\ IsFiniteSet(S \union T)
      /\ Cardinality(S \union T) =
           Cardinality(S) + Cardinality(T) - Cardinality(S \intersect T)
  BY FS_Union
<1>2. Cardinality(S) \in Nat /\ Cardinality(T) \in Nat
  BY FS_CardinalityType
<1>3. Cardinality(S \intersect T) = 0
  BY FS_EmptySet
<1>4. QED
  BY <1>1, <1>2, <1>3

-----------------------------------------------------------------------------
(***************************************************************************)
(* run_many.                                                               *)
(***************************************************************************)
CallStates == {"unstarted", "running", "succeeded", "failed"}

ManyInv ==
  /\ Many!TypeOK
  /\ IsFiniteSet(pending) /\ Cardinality(pending) <= Bound
  /\ \A i \in 1..N : i < next => state[i] # "unstarted"
  /\ \A i \in 1..N : i > next => state[i] = "unstarted"
  /\ many \in {"called", "called_warm", "warming", "waiting", "returned"} =>
       \A i \in 1..N : i = next => state[i] = "unstarted"
  /\ many # "warming" => \A i \in 1..N : state[i] = "running" => i \in pending
  /\ many \in {"called", "called_warm"} => next = 1
  /\ many = "warming" => N > 0 /\ next = 2 /\ state[1] = "running"
  /\ many \in {"called", "called_warm", "warming"} =>
       pending = {} /\ results = {} /\ failure = 0
  /\ many = "waiting" => pending # {} /\ failure = 0
  /\ many \in {"waiting", "returned"} =>
       /\ results \union pending = 1..(next - 1)
       /\ \A i \in results : state[i] = "succeeded"
  /\ many = "returned" => next = N + 1
  /\ many \in {"returned", "raised", "cancelled"} => pending = {}
  /\ many = "settling" => pending # {} /\ (failure # 0 => state[failure] = "failed")

(* What a batch may do with its calls in one step.                         *)
Advances(old, new) ==
  \A i \in 1..N :
    \/ new[i] = old[i]
    \/ old[i] = "unstarted" /\ new[i] \in {"running", "failed"}
    \/ old[i] = "running" /\ new[i] \in {"succeeded", "failed"}

(* The calls, as the caller leaves them to Fill: the ones before from have *)
(* begun, and only those in rest may run.                                  *)
Fillable(st, rest, from) ==
  /\ st \in [1..N -> CallStates]
  /\ rest \in SUBSET (1..N) /\ IsFiniteSet(rest) /\ Cardinality(rest) <= Bound
  /\ from \in 1..(N + 1)
  /\ \A i \in 1..N : i < from => st[i] # "unstarted"
  /\ \A i \in 1..N : i >= from => st[i] = "unstarted"
  /\ \A i \in 1..N : st[i] = "running" => i \in rest

LEMMA FillIsAnInterval ==
  ASSUME NEW waiting, IsFiniteSet(waiting), Cardinality(waiting) <= Bound,
         NEW from \in 1..(N + 1)
  PROVE  /\ IsFiniteSet(Many!Fill(waiting, from))
         /\ Cardinality(Many!Fill(waiting, from)) \in Nat
         /\ Cardinality(Many!Fill(waiting, from)) + Cardinality(waiting) <= Bound
         /\ from + Cardinality(Many!Fill(waiting, from)) <= N + 1
         /\ Many!Fill(waiting, from) = from..(from + Cardinality(Many!Fill(waiting, from)) - 1)
         /\ Many!Fill(waiting, from) = {} /\ waiting = {} => from = N + 1
<1> DEFINE room == Bound - Cardinality(waiting)
<1> DEFINE top == IF from + room - 1 <= N THEN from + room - 1 ELSE N
<1>1. Bound \in Nat \ {0} /\ N \in Nat /\ Cardinality(waiting) \in Nat
  BY ManyAssumption, FS_CardinalityType DEF Many!BatchAssumption
<1>2. room \in Nat /\ top \in Int /\ from \in Nat
  BY <1>1
<1>3. Many!Fill(waiting, from) = from..top
  BY <1>1, SameCount DEF Many!Fill, Many!Calls
<1> HIDE DEF top
<1>4. /\ IsFiniteSet(from..top)
      /\ Cardinality(from..top) = IF from > top THEN 0 ELSE top - from + 1
  <2>1. from \in Int /\ top \in Int
    BY <1>2
  <2>2. QED
    BY ONLY <2>1, FS_Interval, Zenon
<1>5. Cardinality({}) = 0
  BY FS_EmptySet
<1>6. /\ Cardinality(from..top) + Cardinality(waiting) <= Bound
      /\ from + Cardinality(from..top) <= N + 1
      /\ from..top = from..(from + Cardinality(from..top) - 1)
  BY <1>1, <1>2, <1>4 DEF top
<1>7. from..top = {} /\ waiting = {} => from = N + 1
  BY <1>1, <1>2, <1>5 DEF top
<1>8. QED
  BY <1>1, <1>3, <1>4, <1>6, <1>7, FS_CardinalityType

LEMMA SettlingKeepsInv ==
  ASSUME NEW st \in [1..N -> CallStates], NEW rest \in SUBSET (1..N),
         IsFiniteSet(rest), Cardinality(rest) <= Bound, NEW culprit \in 0..N,
         next' \in 1..(N + 1), results' \in SUBSET (1..N), interrupted' \in BOOLEAN,
         wasCancelled \in SUBSET (1..N),
         \A i \in 1..N : i < next' => st[i] # "unstarted",
         \A i \in 1..N : i > next' => st[i] = "unstarted",
         \A i \in 1..N : st[i] = "running" => i \in rest,
         culprit # 0 => st[culprit] = "failed",
         Many!RaiseAfterSettling(st, rest, culprit)
  PROVE  /\ ManyInv'
         /\ state' = st /\ failure' = culprit
         /\ many' \in {"settling", "cancelled", "raised"}
         /\ many' = "raised" => culprit # 0
<1>1. /\ state' = st /\ pending' = rest /\ failure' = culprit
      /\ wasCancelled' \in SUBSET (1..N)
      /\ many' \in {"settling", "cancelled", "raised"}
      /\ many' = "settling" <=> rest # {}
      /\ many' = "raised" => culprit # 0
  BY DEF Many!RaiseAfterSettling, Many!CancelPending
<1>2. Many!TypeOK'
  BY <1>1, ManyAssumption
     DEF Many!TypeOK, Many!Calls, Many!Called, Many!Awaiting, Many!Ended, CallStates
<1>3. QED
  BY <1>1, <1>2 DEF ManyInv

LEMMA FillingKeepsInv ==
  ASSUME NEW st, NEW rest, NEW from, Fillable(st, rest, from),
         results' \in SUBSET (1..N), interrupted' \in BOOLEAN,
         wasCancelled \in SUBSET (1..N), failure = 0,
         results' \union rest = 1..(from - 1),
         \A i \in results' : st[i] = "succeeded",
         Many!FillAndWait(st, rest, from)
  PROVE  /\ ManyInv'
         /\ Advances(st, state')
         /\ many' \in {"waiting", "returned", "settling", "raised"}
         /\ many' = "returned" => \A i \in 1..N : state'[i] = "succeeded"
         /\ many' = "raised" => failure' \in 1..N /\ state'[failure'] = "failed"
         /\ failure' # 0 => \A i \in 1..N : i < failure' => state'[i] # "failed" \/ st[i] = "failed"
<1> DEFINE filled == Many!Fill(rest, from)
           count == Cardinality(filled)
<1>1. /\ st \in [1..N -> CallStates] /\ N \in Nat /\ Bound \in Nat \ {0}
      /\ from \in Nat \ {0} /\ from <= N + 1
  BY ManyAssumption DEF Fillable, Many!BatchAssumption
<1>2. /\ IsFiniteSet(filled) /\ count \in Nat
      /\ count + Cardinality(rest) <= Bound
      /\ from + count <= N + 1
      /\ filled = from..(from + count - 1)
      /\ filled = {} /\ rest = {} => from = N + 1
  BY FillIsAnInterval DEF Fillable
<1> HIDE DEF filled, count
<1>3. CASE /\ state' = [i \in 1..N |-> IF i \in filled THEN "running" ELSE st[i]]
           /\ pending' = rest \union filled
           /\ next' = from + count
           /\ many' = IF pending' = {} THEN "returned" ELSE "waiting"
           /\ UNCHANGED <<failure, wasCancelled>>
  <2>1. IsFiniteSet(pending') /\ Cardinality(pending') <= Bound
    <3>1. filled \intersect rest = {}
      BY <1>1, <1>2 DEF Fillable
    <3>2. /\ IsFiniteSet(rest \union filled)
          /\ Cardinality(rest \union filled) = Cardinality(rest) + Cardinality(filled)
          /\ Cardinality(rest) \in Nat
      BY <1>2, <3>1, UnionCount DEF Fillable
    <3>3. Cardinality(rest \union filled) <= Bound
      BY <1>1, <1>2, <3>2 DEF count
    <3>4. QED
      BY <1>3, <3>2, <3>3
  <2>2. Many!TypeOK'
    BY <1>1, <1>2, <1>3, SMTT(30)
       DEF Fillable, Many!TypeOK, Many!Calls, Many!Called, Many!Awaiting, Many!Ended, CallStates
  <2>3. results' \union pending' = 1..(next' - 1)
    BY <1>1, <1>2, <1>3
  <2>4. \A i \in results' : state'[i] = "succeeded"
    BY <1>1, <1>2, <1>3
  <2>5. many' = "returned" => pending' = {} /\ next' = N + 1
    BY <1>1, <1>2, <1>3
  <2>6. ManyInv'
    <3>1. /\ \A i \in 1..N : i < next' => state'[i] # "unstarted"
          /\ \A i \in 1..N : i >= next' => state'[i] = "unstarted"
          /\ \A i \in 1..N : state'[i] = "running" => i \in pending'
      BY <1>1, <1>2, <1>3 DEF Fillable
    <3>2. many' \in {"waiting", "returned"} /\ (many' = "returned" <=> pending' = {})
          /\ failure' = 0
      BY <1>3
    <3>3. next' \in Nat
      BY <1>1, <1>2, <1>3
    <3>4. QED
      BY <2>1, <2>2, <2>3, <2>4, <2>5, <3>1, <3>2, <3>3 DEF ManyInv
  <2>7. Advances(st, state')
    BY <1>1, <1>2, <1>3 DEF Advances, Fillable
  <2>8. QED
    BY <1>1, <1>3, <2>3, <2>4, <2>5, <2>6, <2>7
<1>4. ASSUME NEW culprit \in filled,
             next' = culprit,
             Many!RaiseAfterSettling(
               [i \in 1..N |-> IF i = culprit THEN "failed"
                                ELSE IF i \in {j \in filled : j < culprit} THEN "running" ELSE st[i]],
               rest \union {j \in filled : j < culprit}, culprit)
      PROVE  /\ ManyInv'
             /\ Advances(st, state')
             /\ many' \in {"settling", "raised"}
             /\ many' = "raised" => failure' \in 1..N /\ state'[failure'] = "failed"
             /\ \A i \in 1..N : i < failure' => state'[i] # "failed" \/ st[i] = "failed"
  <2> DEFINE created == {j \in filled : j < culprit}
             new == [i \in 1..N |-> IF i = culprit THEN "failed"
                                     ELSE IF i \in created THEN "running" ELSE st[i]]
  <2>1. culprit \in 1..N /\ created = from..(culprit - 1) /\ culprit >= from
    BY <1>1, <1>2
  <2>2. IsFiniteSet(rest \union created) /\ Cardinality(rest \union created) <= Bound
    <3>1. created \subseteq filled /\ created \intersect rest = {}
      BY <1>1, <1>2 DEF Fillable
    <3>2. IsFiniteSet(created) /\ Cardinality(created) <= count
      BY <1>2, <3>1, FS_Subset DEF count
    <3>3. /\ IsFiniteSet(rest \union created)
          /\ Cardinality(rest \union created) = Cardinality(rest) + Cardinality(created)
          /\ Cardinality(rest) \in Nat /\ Cardinality(created) \in Nat
      BY <3>1, <3>2, UnionCount DEF Fillable
    <3>4. QED
      BY <1>1, <1>2, <3>2, <3>3
  <2> HIDE DEF created
  <2>3. new \in [1..N -> CallStates] /\ rest \union created \in SUBSET (1..N)
    BY <1>1, <2>1 DEF CallStates, Fillable
  <2>4. /\ \A i \in 1..N : i < next' => new[i] # "unstarted"
        /\ \A i \in 1..N : i > next' => new[i] = "unstarted"
        /\ \A i \in 1..N : new[i] = "running" => i \in rest \union created
        /\ new[culprit] = "failed" /\ next' \in 1..(N + 1)
    BY <1>1, <1>4, <2>1 DEF Fillable
  <2>5. Many!RaiseAfterSettling(new, rest \union created, culprit)
    BY <1>4 DEF created
  <2> HIDE DEF new
  <2>6. /\ ManyInv' /\ state' = new /\ failure' = culprit
        /\ many' \in {"settling", "cancelled", "raised"}
        /\ many' = "raised" => culprit # 0
    <3>1. culprit \in 0..N /\ culprit # 0
      BY <1>1, <2>1
    <3>2. QED
      BY <2>2, <2>3, <2>4, <2>5, <3>1, SettlingKeepsInv
  <2>7. many' # "cancelled"
    BY <1>1, <2>1, <2>5 DEF Many!RaiseAfterSettling
  <2>8. Advances(st, new)
    BY <1>1, <2>1 DEF Advances, new, Fillable
  <2>9. \A i \in 1..N : i < culprit => new[i] # "failed" \/ st[i] = "failed"
    BY <1>1, <2>1 DEF new
  <2>10. QED
    BY <2>1, <2>4, <2>6, <2>7, <2>8, <2>9
<1>5. QED
  <2>1. Many!Cardinality(filled) = count
    BY SameCount DEF count
  <2>2. QED
    BY <1>1, <1>3, <1>4, <2>1 DEF Many!FillAndWait, Many!Calls, filled

LEMMA RunManyStep ==
  ASSUME ManyInv, Many!Next
  PROVE  /\ ManyInv'
         /\ Advances(state, state')
         /\ failure = 0 /\ failure' # 0 =>
              \A i \in pending : i < failure' => state[i] # "failed"
         /\ \/ many' \notin {"returned", "raised", "cancelled"}
               /\ many \notin {"returned", "raised", "cancelled"}
            \/ UNCHANGED <<many, state>>
            \/ /\ many \notin {"returned", "raised", "cancelled"}
               /\ many' = "returned" => \A i \in 1..N : state'[i] = "succeeded"
               /\ many' = "raised" => \E i \in 1..N : state'[i] = "failed"
<1> DEFINE Goal ==
      /\ ManyInv'
      /\ Advances(state, state')
      /\ failure = 0 /\ failure' # 0 =>
           \A i \in pending : i < failure' => state[i] # "failed"
      /\ \/ many' \notin {"returned", "raised", "cancelled"}
            /\ many \notin {"returned", "raised", "cancelled"}
         \/ UNCHANGED <<many, state>>
         \/ /\ many \notin {"returned", "raised", "cancelled"}
            /\ many' = "returned" => \A i \in 1..N : state'[i] = "succeeded"
            /\ many' = "raised" => \E i \in 1..N : state'[i] = "failed"
<1>1. /\ N \in Nat /\ Bound \in Nat \ {0}
      /\ state \in [1..N -> CallStates] /\ pending \in SUBSET (1..N)
      /\ next \in 1..(N + 1) /\ results \in SUBSET (1..N) /\ failure \in 0..N
      /\ interrupted \in BOOLEAN /\ wasCancelled \in SUBSET (1..N)
      /\ many \in {"called", "called_warm", "warming", "waiting", "settling",
                    "returned", "raised", "cancelled"}
      /\ IsFiniteSet(pending) /\ Cardinality(pending) <= Bound
  BY ManyAssumption
     DEF ManyInv, Many!TypeOK, Many!Calls, Many!Called, Many!Awaiting, Many!Ended,
         CallStates, Many!BatchAssumption
<1>2. IsFiniteSet({}) /\ Cardinality({}) = 0
  BY FS_EmptySet
<1>3. ASSUME Many!CallFirstAlone PROVE Goal
  <2>1. Many!TypeOK'
    BY <1>1, <1>3 DEF Many!CallFirstAlone, Many!TypeOK, Many!Calls, Many!Awaiting, CallStates
  <2>2. ManyInv'
    BY <1>1, <1>3, <2>1 DEF Many!CallFirstAlone, ManyInv
  <2>3. Advances(state, state')
    BY <1>1, <1>3 DEF Many!CallFirstAlone, ManyInv, Advances
  <2>4. QED
    BY <1>3, <2>2, <2>3 DEF Many!CallFirstAlone
<1>4. ASSUME Many!CallAll PROVE Goal
  <2>1. /\ many \in {"called", "called_warm"} /\ Many!FillAndWait(state, {}, 1)
        /\ results' = {} /\ interrupted' = interrupted /\ failure = 0 /\ pending = {}
    BY <1>4 DEF Many!CallAll, ManyInv
  <2>2. Fillable(state, {}, 1)
    BY <1>1, <1>2, <2>1 DEF Fillable, ManyInv
  <2>3. /\ ManyInv' /\ Advances(state, state')
        /\ many' \in {"waiting", "returned", "settling", "raised"}
        /\ many' = "returned" => \A i \in 1..N : state'[i] = "succeeded"
        /\ many' = "raised" => failure' \in 1..N /\ state'[failure'] = "failed"
    <3>1. results' \union {} = 1..(1 - 1)
      BY <2>1
    <3>2. QED
      BY <1>1, <2>1, <2>2, <3>1, FillingKeepsInv
  <2>4. QED
    BY <2>1, <2>3
<1>5. ASSUME Many!FirstSucceeds PROVE Goal
  <2> DEFINE st == [state EXCEPT ![1] = "succeeded"]
  <2>1. /\ many = "warming" /\ Many!FillAndWait(st, {}, 2)
        /\ results' = {1} /\ interrupted' = FALSE /\ failure = 0 /\ pending = {}
        /\ N > 0 /\ next = 2 /\ state[1] = "running"
    BY <1>5 DEF Many!FirstSucceeds, ManyInv
  <2>2. Fillable(st, {}, 2)
    BY <1>1, <1>2, <2>1 DEF Fillable, ManyInv, CallStates
  <2>3. results' \union {} = 1..(2 - 1) /\ \A i \in results' : st[i] = "succeeded"
    BY <1>1, <2>1
  <2>4. Advances(state, st)
    BY <1>1, <2>1 DEF Advances
  <2> HIDE DEF st
  <2>5. /\ ManyInv' /\ Advances(st, state')
        /\ many' \in {"waiting", "returned", "settling", "raised"}
        /\ many' = "returned" => \A i \in 1..N : state'[i] = "succeeded"
        /\ many' = "raised" => failure' \in 1..N /\ state'[failure'] = "failed"
    <3>1. 1 \in 1..N
      BY <1>1, <2>1
    <3>2. results' \in SUBSET (1..N)
      BY <2>1, <3>1
    <3>3. interrupted' \in BOOLEAN
      BY <2>1
    <3>4. QED
      BY <1>1, <2>1, <2>2, <2>3, <3>2, <3>3, FillingKeepsInv
  <2>6. Advances(state, state')
    BY <1>1, <2>1, <2>4, <2>5 DEF Advances, st
  <2>7. QED
    BY <2>1, <2>5, <2>6
<1>6. ASSUME Many!FirstFails PROVE Goal
  <2>1. Many!TypeOK'
    <3>1. N > 0 /\ 1 \in 1..N
      BY <1>1, <1>6 DEF ManyInv, Many!FirstFails
    <3>2. /\ state' \in [1..N -> CallStates] /\ failure' \in 0..N
          /\ many' \in {"raised", "cancelled"} /\ interrupted' = FALSE
          /\ UNCHANGED <<pending, next, results, wasCancelled>>
      BY <1>1, <1>6, <3>1 DEF Many!FirstFails, CallStates
    <3>3. QED
      BY <1>1, <3>2 DEF Many!TypeOK, Many!Calls, Many!Ended, CallStates
  <2>2. ManyInv'
    BY <1>1, <1>6, <2>1 DEF Many!FirstFails, ManyInv
  <2>3. Advances(state, state') /\ state'[1] = "failed" /\ 1 \in 1..N
    BY <1>1, <1>6 DEF Many!FirstFails, ManyInv, Advances
  <2>4. QED
    BY <1>6, <2>2, <2>3 DEF Many!FirstFails, ManyInv
<1>7. ASSUME NEW i \in 1..N, Many!CallEnds(i) PROVE Goal
  <2>1. Many!TypeOK'
    BY <1>1, <1>7 DEF ManyInv, Many!CallEnds, Many!TypeOK, Many!Calls, CallStates
  <2>2. ManyInv'
    BY <1>1, <1>7, <2>1 DEF Many!CallEnds, ManyInv, CallStates
  <2>3. Advances(state, state')
    BY <1>1, <1>7 DEF Many!CallEnds, Advances
  <2>4. many \notin {"returned", "raised", "cancelled"}
    BY <1>1, <1>7 DEF Many!CallEnds, ManyInv
  <2>5. QED
    BY <1>7, <2>2, <2>3, <2>4 DEF Many!CallEnds
<1>8. ASSUME Many!CallerCancels \/ Many!CancelledAgain PROVE Goal
  <2>1. /\ UNCHANGED <<many, state, pending, next, results, failure, wasCancelled>>
        /\ interrupted' \in BOOLEAN
        /\ many \notin {"returned", "raised", "cancelled"}
    BY <1>8 DEF Many!CallerCancels, Many!CancelledAgain, Many!Awaiting
  <2>2. Many!TypeOK'
    BY <2>1 DEF ManyInv, Many!TypeOK
  <2>3. ManyInv'
    BY <2>1, <2>2 DEF ManyInv
  <2>4. QED
    BY <2>1, <2>3 DEF Advances
<1>9. ASSUME Many!TakeResults PROVE Goal
  <2> DEFINE settled == Many!Settled
             failed == {i \in settled : state[i] = "failed"}
  <2>1. /\ many = "waiting" /\ interrupted' = interrupted
        /\ failure = 0 /\ pending # {} /\ results \union pending = 1..(next - 1)
        /\ \A i \in results : state[i] = "succeeded"
    BY <1>9 DEF Many!TakeResults, ManyInv
  <2>2. settled = {i \in pending : state[i] \in {"succeeded", "failed"}}
    BY DEF Many!Settled, Many!Done
  <2>3. Many!FirstFailure(settled) = {i \in failed : \A j \in failed : i <= j}
    BY DEF Many!FirstFailure
  <2>4. failed # {} => Many!FirstFailure(settled) # {}
    <3>1. failed \in SUBSET Nat
      <4>1. pending \subseteq Nat
        BY <1>1
      <4>2. failed \subseteq pending
        BY <2>2
      <4>3. QED
        BY <4>1, <4>2
    <3>2. QED
      BY <2>3, <3>1, LeastOf
  <2>5. CASE Many!FirstFailure(settled) = {}
    <3>1. /\ results' = results \union settled
          /\ Many!FillAndWait(state, pending \ settled, next)
      BY <1>9, <2>5 DEF Many!TakeResults
    <3>2. \A i \in pending : state[i] # "failed"
      BY <2>2, <2>4, <2>5
    <3>3. IsFiniteSet(pending \ settled) /\ Cardinality(pending \ settled) <= Bound
      <4>1. /\ IsFiniteSet(pending \ settled)
            /\ Cardinality(pending \ settled) <= Cardinality(pending)
        BY <1>1, FS_Subset
      <4>2. QED
        BY <1>1, <4>1, FS_CardinalityType
    <3>4. Fillable(state, pending \ settled, next)
      BY <1>1, <2>1, <2>2, <3>3 DEF Fillable, ManyInv
    <3>5. /\ results' \in SUBSET (1..N) /\ results' \union (pending \ settled) = 1..(next - 1)
          /\ \A i \in results' : state[i] = "succeeded"
      BY <1>1, <2>1, <2>2, <3>1, <3>2
    <3>6. interrupted' \in BOOLEAN
      BY <1>1, <2>1
    <3> HIDE DEF settled
    <3>7. /\ ManyInv' /\ Advances(state, state')
          /\ many' \in {"waiting", "returned", "settling", "raised"}
          /\ many' = "returned" => \A i \in 1..N : state'[i] = "succeeded"
          /\ many' = "raised" => failure' \in 1..N /\ state'[failure'] = "failed"
      BY <1>1, <2>1, <3>1, <3>4, <3>5, <3>6, FillingKeepsInv
    <3>8. QED
      BY <2>1, <3>2, <3>7
  <2>6. ASSUME NEW culprit \in Many!FirstFailure(settled),
               results' = results \union {i \in settled : i < culprit},
               Many!RaiseAfterSettling(state,
                 pending \ ({i \in settled : i < culprit} \union {culprit}), culprit),
               next' = next
        PROVE  Goal
    <3> DEFINE rest == pending \ ({i \in settled : i < culprit} \union {culprit})
    <3>1. culprit \in failed /\ culprit \in 1..N /\ \A j \in failed : culprit <= j
      BY <1>1, <2>2, <2>3, <2>6
    <3>2. IsFiniteSet(rest) /\ Cardinality(rest) <= Bound
      <4>1. IsFiniteSet(rest) /\ Cardinality(rest) <= Cardinality(pending)
        BY <1>1, FS_Subset
      <4>2. QED
        BY <1>1, <4>1, FS_CardinalityType
    <3>3. /\ \A i \in 1..N : i < next' => state[i] # "unstarted"
          /\ \A i \in 1..N : i > next' => state[i] = "unstarted"
          /\ \A i \in 1..N : state[i] = "running" => i \in rest
      BY <1>1, <2>1, <2>2, <2>6, <3>1 DEF ManyInv
    <3>4. /\ results' \in SUBSET (1..N) /\ next' \in 1..(N + 1) /\ interrupted' \in BOOLEAN
          /\ rest \in SUBSET (1..N) /\ culprit \in 0..N /\ culprit # 0
          /\ state[culprit] = "failed"
      BY <1>1, <2>1, <2>2, <2>6, <3>1
    <3>5. Many!RaiseAfterSettling(state, rest, culprit)
      BY <2>6
    <3> HIDE DEF rest
    <3>6. /\ ManyInv' /\ state' = state /\ failure' = culprit
          /\ many' \in {"settling", "cancelled", "raised"}
      BY <1>1, <3>2, <3>3, <3>4, <3>5, SettlingKeepsInv
    <3>7. many' # "cancelled"
      BY <3>4, <3>5 DEF Many!RaiseAfterSettling
    <3>8. \A i \in pending : i < culprit => state[i] # "failed"
      BY <1>1, <2>2, <3>1
    <3>9. QED
      BY <1>1, <2>1, <3>1, <3>4, <3>6, <3>7, <3>8 DEF Advances
  <2>7. QED
    BY <1>9, <2>5, <2>6 DEF Many!TakeResults
<1>10. ASSUME Many!Cancelled PROVE Goal
  <2>1. /\ many = "waiting" /\ interrupted' = FALSE /\ next' = next /\ results' = results
        /\ Many!RaiseAfterSettling(state, pending, 0) /\ failure = 0 /\ pending # {}
    BY <1>10 DEF Many!Cancelled, ManyInv
  <2>2. /\ \A i \in 1..N : i < next' => state[i] # "unstarted"
        /\ \A i \in 1..N : i > next' => state[i] = "unstarted"
        /\ \A i \in 1..N : state[i] = "running" => i \in pending
    BY <1>1, <2>1 DEF ManyInv
  <2>3. next' \in 1..(N + 1) /\ results' \in SUBSET (1..N) /\ interrupted' \in BOOLEAN
    BY <1>1, <2>1
  <2>4. 0 \in 0..N
    BY <1>1
  <2>5. /\ ManyInv' /\ state' = state /\ failure' = 0
        /\ many' = "settling"
    <3>1. ManyInv' /\ state' = state /\ failure' = 0
      BY <1>1, <2>1, <2>2, <2>3, <2>4, SettlingKeepsInv
    <3>2. QED
      BY <2>1, <3>1 DEF Many!RaiseAfterSettling
  <2>6. QED
    BY <2>1, <2>5 DEF Advances
<1>11. ASSUME Many!SettleCancelled PROVE Goal
  <2>1. /\ many = "settling" /\ pending' = pending \ Many!Settled
        /\ many' = IF pending' # {} THEN "settling" ELSE IF failure = 0 THEN "cancelled" ELSE "raised"
        /\ UNCHANGED <<state, next, results, failure, interrupted, wasCancelled>>
        /\ failure # 0 => state[failure] = "failed"
    BY <1>11 DEF Many!SettleCancelled, ManyInv
  <2>2. /\ Many!Settled = {i \in pending : state[i] \in {"succeeded", "failed"}}
        /\ pending' \subseteq pending
    BY <2>1 DEF Many!Settled, Many!Done
  <2>3. IsFiniteSet(pending') /\ Cardinality(pending') <= Bound
    <3>1. IsFiniteSet(pending') /\ Cardinality(pending') <= Cardinality(pending)
      BY <1>1, <2>2, FS_Subset
    <3>2. QED
      BY <1>1, <3>1, FS_CardinalityType
  <2>4. Many!TypeOK'
    BY <1>1, <2>1, <2>2 DEF ManyInv, Many!TypeOK, Many!Calls, Many!Awaiting, Many!Ended
  <2>5. \A i \in 1..N : state'[i] = "running" => i \in pending'
    BY <1>1, <2>1, <2>2 DEF ManyInv
  <2>6. /\ \A i \in 1..N : i < next' => state'[i] # "unstarted"
        /\ \A i \in 1..N : i > next' => state'[i] = "unstarted"
    BY <2>1 DEF ManyInv
  <2>7. /\ many' \in {"settling", "cancelled", "raised"}
        /\ many' = "settling" <=> pending' # {}
        /\ many' = "raised" => failure # 0
    BY <2>1
  <2>8. ManyInv'
    BY <2>1, <2>3, <2>4, <2>5, <2>6, <2>7 DEF ManyInv
  <2>9. QED
    BY <1>1, <2>1, <2>7, <2>8 DEF Advances
<1>12. ASSUME Many!Finished PROVE Goal
  <2>1. UNCHANGED manyVars
    BY <1>12 DEF Many!Finished, Many!vars, manyVars
  <2>2. Many!TypeOK'
    BY <2>1 DEF ManyInv, Many!TypeOK, manyVars
  <2>3. ManyInv'
    BY <2>1, <2>2 DEF ManyInv, manyVars
  <2>4. QED
    BY <2>1, <2>3 DEF Advances, manyVars
<1> HIDE DEF Goal
<1>13. Goal
  BY <1>3, <1>4, <1>5, <1>6, <1>7, <1>8, <1>9, <1>10, <1>11, <1>12
     DEF Many!Next, Many!CallerRuns, Many!Calls
<1>14. QED
  BY <1>13 DEF Goal

LEMMA RunManyStarts == ASSUME Many!Init PROVE ManyInv
<1>1. N \in Nat /\ Bound \in Nat \ {0}
  BY ManyAssumption DEF Many!BatchAssumption
<1>2. IsFiniteSet({}) /\ Cardinality({}) = 0
  BY FS_EmptySet
<1>3. Many!TypeOK
  <2>1. interrupted = FALSE /\ next = 1 /\ failure = 0 /\ pending = {}
        /\ results = {} /\ wasCancelled = {}
    BY DEF Many!Init
  <2>2. state \in [1..N -> CallStates]
    BY DEF Many!Init, Many!Calls, CallStates
  <2>3. next \in 1..(N + 1) /\ failure \in 0..N
    BY <1>1, <2>1
  <2>4. QED
    BY <2>1, <2>2, <2>3 DEF Many!Init, Many!TypeOK, Many!Calls, Many!Called, CallStates
<1>4. QED
  BY <1>1, <1>2, <1>3 DEF Many!Init, ManyInv, Many!Calls, Many!Called

LEMMA RunManyIsWhole ==
  ASSUME ManyInv
  PROVE  /\ Many!TypeOK /\ Many!BoundIsKept /\ Many!NothingIsLeftRunning
         /\ Many!ReturnedIsComplete
<1>1. N \in Nat /\ next \in 1..(N + 1)
  BY ManyAssumption DEF Many!BatchAssumption, ManyInv, Many!TypeOK
<1>2. Many!BoundIsKept
  BY SameCount DEF ManyInv, Many!BoundIsKept
<1>3. Many!NothingIsLeftRunning
  BY DEF ManyInv, Many!NothingIsLeftRunning, Many!Ended, Many!Live, Many!Calls
<1>4. Many!ReturnedIsComplete
  <2>1. SUFFICES ASSUME many = "returned"
                 PROVE  results = 1..N /\ \A i \in 1..N : state[i] = "succeeded"
    BY DEF Many!ReturnedIsComplete, Many!Calls
  <2>2. /\ results \union pending = 1..(next - 1) /\ pending = {} /\ next = N + 1
        /\ \A i \in results : state[i] = "succeeded"
    BY <2>1 DEF ManyInv
  <2>3. results = 1..N
    BY <1>1, <2>2
  <2>4. QED
    BY <2>2, <2>3
<1>5. QED
  BY <1>2, <1>3, <1>4 DEF ManyInv

(* How a batch ended, as OrderedBatch sees it.                             *)
EndingOf(place) ==
  CASE place = "returned" -> "returned" [] place = "raised" -> "failure"
    [] place = "cancelled" -> "cancelled" [] OTHER -> "none"

LEMMA EndingsOf ==
  /\ EndingOf("returned") = "returned" /\ EndingOf("raised") = "failure"
  /\ EndingOf("cancelled") = "cancelled"
  /\ \A place : place \notin {"returned", "raised", "cancelled"} => EndingOf(place) = "none"
<1>1. EndingOf("returned") = "returned" /\ EndingOf("raised") = "failure"
  BY Zenon DEF EndingOf
<1>2. EndingOf("cancelled") = "cancelled"
  BY Zenon DEF EndingOf
<1>3. ASSUME NEW place, place \notin {"returned", "raised", "cancelled"}
      PROVE  EndingOf(place) = "none"
  BY <1>3, Zenon DEF EndingOf
<1>4. QED
  BY <1>1, <1>2, <1>3

StageOf(calls) == [i \in 1..N |-> IF calls[i] = "running" THEN "live" ELSE calls[i]]

LEMMA BatchStarts == ASSUME Many!Init PROVE Many!Batch!Init
<1>1. EndingOf(many) = "none"
  BY EndingsOf DEF Many!Init, Many!Called
<1>2. StageOf(state) = [i \in 1..N |-> "unstarted"]
  BY DEF Many!Init, Many!Calls, StageOf
<1>3. QED
  BY <1>1, <1>2, Zenon DEF Many!Batch!Init, EndingOf, StageOf, Many!Calls, Many!Batch!Calls

(* Every step of run_many is a step of the batch or leaves it as it is.    *)
LEMMA BatchSteps ==
  ASSUME ManyInv, Many!Next
  PROVE  [Many!Batch!Next]_(Many!Batch!vars)
<1> DEFINE stage == StageOf(state)
           after == StageOf(state)'
<1>1. /\ ManyInv' /\ Advances(state, state')
      /\ \/ many' \notin {"returned", "raised", "cancelled"}
            /\ many \notin {"returned", "raised", "cancelled"}
         \/ UNCHANGED <<many, state>>
         \/ /\ many \notin {"returned", "raised", "cancelled"}
            /\ many' = "returned" => \A i \in 1..N : state'[i] = "succeeded"
            /\ many' = "raised" => \E i \in 1..N : state'[i] = "failed"
  BY RunManyStep
<1>2. CASE UNCHANGED <<many, state>>
  BY <1>2, Zenon DEF Many!Batch!vars
<1>3. CASE /\ many \notin {"returned", "raised", "cancelled"}
           /\ many' = "returned" => \A i \in 1..N : state'[i] = "succeeded"
           /\ many' = "raised" => \E i \in 1..N : state'[i] = "failed"
  <2>1. EndingOf(many) = "none"
    BY <1>3, EndingsOf
  <2>2. /\ \A i \in 1..N : <<stage[i], after[i]>> \in Many!Batch!Moves
        /\ \A i, j \in 1..N : i < j /\ after[j] # "unstarted" => after[i] # "unstarted"
    <3>1. N \in Nat /\ state \in [1..N -> CallStates] /\ state' \in [1..N -> CallStates]
          /\ next' \in 1..(N + 1)
      BY <1>1, ManyAssumption
         DEF ManyInv, Many!TypeOK, Many!Calls, CallStates, Many!BatchAssumption
    <3>2. ASSUME NEW i \in 1..N PROVE <<stage[i], after[i]>> \in Many!Batch!Moves
      <4>1. /\ state[i] \in CallStates
            /\ \/ state'[i] = state[i]
               \/ state[i] = "unstarted" /\ state'[i] \in {"running", "failed"}
               \/ state[i] = "running" /\ state'[i] \in {"succeeded", "failed"}
        BY <1>1, <3>1, <3>2 DEF Advances
      <4>2. /\ stage[i] = IF state[i] = "running" THEN "live" ELSE state[i]
            /\ after[i] = IF state'[i] = "running" THEN "live" ELSE state'[i]
        BY <3>2 DEF StageOf
      <4>3. QED
        BY <4>1, <4>2 DEF CallStates, Many!Batch!Moves, Many!Batch!Stages
    <3>3. /\ \A i \in 1..N : i < next' => state'[i] # "unstarted"
          /\ \A i \in 1..N : i > next' => state'[i] = "unstarted"
      BY <1>1 DEF ManyInv
    <3>4. \A i, j \in 1..N : i < j /\ after[j] # "unstarted" => after[i] # "unstarted"
      BY <3>1, <3>3 DEF StageOf
    <3>5. QED
      BY <3>2, <3>4
  <2>3. many' \in {"returned", "raised", "cancelled"} => \A i \in 1..N : after[i] # "live"
    BY <1>1 DEF ManyInv, StageOf, Many!TypeOK, Many!Calls
  <2>4. /\ many' = "returned" => \A i \in 1..N : after[i] = "succeeded"
        /\ many' = "raised" => \E i \in 1..N : after[i] = "failed"
    BY <1>3 DEF StageOf
  <2>5. /\ many' = "returned" => EndingOf(many') = "returned"
        /\ many' = "raised" => EndingOf(many') = "failure"
        /\ many' = "cancelled" => EndingOf(many') = "cancelled"
        /\ many' \notin {"returned", "raised", "cancelled"} => EndingOf(many') = "none"
    BY EndingsOf
  <2> HIDE DEF stage, after
  <2>6. /\ EndingOf(many) = "none"
        /\ /\ \A i \in 1..N : <<stage[i], after[i]>> \in Many!Batch!Moves
           /\ \A i, j \in 1..N : i < j /\ after[j] # "unstarted" => after[i] # "unstarted"
        /\ \/ EndingOf(many') = EndingOf(many)
           \/ /\ (\A i \in 1..N : after[i] # "live") /\ \A i \in 1..N : after[i] = "succeeded"
              /\ EndingOf(many') = "returned"
           \/ /\ (\A i \in 1..N : after[i] # "live") /\ \E i \in 1..N : after[i] = "failed"
              /\ EndingOf(many') = "failure"
           \/ (\A i \in 1..N : after[i] # "live") /\ EndingOf(many') = "cancelled"
    BY <2>1, <2>2, <2>3, <2>4, <2>5
  <2>7. Many!Batch!Next
    BY <2>6, Zenon
       DEF Many!Batch!Next, Many!Batch!Advance, Many!Batch!Return, Many!Batch!Fail,
           Many!Batch!Quiescent, Many!Batch!Calls, Many!Calls, EndingOf, StageOf, stage, after
  <2>8. QED
    BY <2>7
<1>4. CASE /\ many' \notin {"returned", "raised", "cancelled"}
           /\ many \notin {"returned", "raised", "cancelled"}
  BY <1>3, <1>4
<1>5. QED
  BY <1>1, <1>2, <1>3, <1>4

-----------------------------------------------------------------------------
(***************************************************************************)
(* prepare() of the embedding models that share a client.                  *)
(***************************************************************************)
CacheShape ==
  /\ callers \in [Callers -> {"idle", "shielded", "settling", "prepared", "failed", "cancelled"}]
  /\ waitsFor \in [Callers -> 0..MaxCreations]
  /\ interruptions \subseteq {c \in Callers : callers[c] \in {"shielded", "settling"}}
  /\ creations \in Seq({"running", "created", "failed"})
  /\ Len(creations) <= MaxCreations
  /\ creationTask \in 0..Len(creations)
  /\ client \in 0..Len(creations)

CacheInv ==
  /\ CacheShape
  /\ \A k \in 1..Len(creations) : creations[k] = "running" => k = creationTask
  /\ \A c \in Callers : waitsFor[c] \in 0..Len(creations)
  /\ \A c \in Callers : callers[c] = "idle" => waitsFor[c] = 0
  /\ \A c \in Callers : callers[c] \in {"shielded", "settling"} => waitsFor[c] # 0
  /\ \A c \in Callers : callers[c] \in {"prepared", "failed", "cancelled"} /\ waitsFor[c] # 0 =>
       creations[waitsFor[c]] # "running"
  /\ creationTask # 0 /\ creations[creationTask] # "created" =>
       \E c \in Callers : callers[c] \in {"shielded", "settling"} /\ waitsFor[c] = creationTask

LEMMA CacheStarts == ASSUME Cache!Init PROVE CacheInv
<1>1. CacheShape
  BY CacheAssumption DEF Cache!Init, CacheShape, Cache!CreationsAssumption
<1>2. QED
  BY <1>1 DEF Cache!Init, CacheInv

(* A caller leaves when what it waited for has settled.                    *)
LEMMA LeavingKeepsInv ==
  ASSUME CacheInv, NEW c \in Callers, NEW how \in {"prepared", "failed", "cancelled"},
         callers[c] \in {"shielded", "settling"}, Cache!Done(waitsFor[c]), Cache!End(c, how)
  PROVE  CacheInv'
<1>1. CacheShape /\ waitsFor[c] \in 1..Len(creations)
  BY DEF CacheInv, CacheShape
<1>2. /\ callers' = [callers EXCEPT ![c] = how]
      /\ creationTask' = IF creationTask = waitsFor[c] THEN 0 ELSE creationTask
      /\ interruptions' = interruptions \ {c}
      /\ UNCHANGED <<waitsFor, creations, client>>
      /\ creations[waitsFor[c]] # "running"
  BY DEF Cache!End, Cache!Forget, Cache!Done
<1>3. CacheShape'
  BY <1>1, <1>2 DEF CacheShape
<1>4. \A k \in 1..Len(creations') : creations'[k] = "running" => k = creationTask'
  BY <1>1, <1>2 DEF CacheInv
<1>5. /\ \A d \in Callers : waitsFor'[d] \in 0..Len(creations')
      /\ \A d \in Callers : callers'[d] = "idle" => waitsFor'[d] = 0
      /\ \A d \in Callers : callers'[d] \in {"shielded", "settling"} => waitsFor'[d] # 0
      /\ \A d \in Callers : callers'[d] \in {"prepared", "failed", "cancelled"} /\ waitsFor'[d] # 0 =>
           creations'[waitsFor'[d]] # "running"
  BY <1>1, <1>2 DEF CacheInv, CacheShape
<1>6. creationTask' # 0 /\ creations'[creationTask'] # "created" =>
        \E d \in Callers : callers'[d] \in {"shielded", "settling"} /\ waitsFor'[d] = creationTask'
  <2>1. SUFFICES ASSUME creationTask' # 0, creations'[creationTask'] # "created"
                 PROVE  \E d \in Callers : callers'[d] \in {"shielded", "settling"}
                                          /\ waitsFor'[d] = creationTask'
    OBVIOUS
  <2>2. creationTask' = creationTask /\ waitsFor[c] # creationTask
    BY <1>2, <2>1
  <2>3. PICK d \in Callers : callers[d] \in {"shielded", "settling"} /\ waitsFor[d] = creationTask
    BY <1>2, <2>1, <2>2 DEF CacheInv
  <2>4. callers'[d] = callers[d] /\ waitsFor'[d] = creationTask'
    BY <1>1, <1>2, <2>2, <2>3 DEF CacheShape
  <2>5. QED
    BY <2>3, <2>4
<1>7. QED
  BY <1>3, <1>4, <1>5, <1>6 DEF CacheInv

LEMMA CreationsKeepInv ==
  ASSUME CacheInv, NEW k \in DOMAIN creations, NEW how \in {"created", "failed"},
         creations[k] = "running", creations' = [creations EXCEPT ![k] = how],
         client' \in {client, k}, UNCHANGED <<callers, waitsFor, interruptions, creationTask>>
  PROVE  CacheInv'
<1>1. CacheShape /\ k \in 1..Len(creations)
  BY DEF CacheInv, CacheShape
<1>2. /\ Len(creations') = Len(creations)
      /\ creations' \in Seq({"running", "created", "failed"})
      /\ \A j \in 1..Len(creations) : creations'[j] = IF j = k THEN how ELSE creations[j]
  BY <1>1 DEF CacheShape
<1>3. CacheShape'
  BY <1>1, <1>2 DEF CacheShape
<1>4. QED
  BY <1>1, <1>2, <1>3 DEF CacheInv, CacheShape

LEMMA CacheStep == ASSUME CacheInv, Cache!Next PROVE CacheInv'
<1>1. CacheShape /\ MaxCreations \in Nat
  BY CacheAssumption DEF CacheInv, Cache!CreationsAssumption
<1>2. ASSUME NEW c \in Callers, Cache!FindsClient(c) PROVE CacheInv'
  <2>1. /\ callers[c] = "idle" /\ callers' = [callers EXCEPT ![c] = "prepared"]
        /\ UNCHANGED <<waitsFor, interruptions, creations, creationTask, client>>
    BY <1>2 DEF Cache!FindsClient
  <2>2. waitsFor[c] = 0
    BY <2>1 DEF CacheInv
  <2>3. CacheShape'
    BY <1>1, <2>1 DEF CacheShape
  <2>4. QED
    BY <1>1, <2>1, <2>2, <2>3 DEF CacheInv, CacheShape
<1>3. ASSUME NEW c \in Callers, Cache!Creates(c) PROVE CacheInv'
  <2> DEFINE new == Len(creations) + 1
  <2>1. /\ callers[c] = "idle" /\ callers' = [callers EXCEPT ![c] = "shielded"]
        /\ creationTask = 0 /\ Len(creations) < MaxCreations
        /\ creations' = Append(creations, "running")
        /\ creationTask' = new /\ waitsFor' = [waitsFor EXCEPT ![c] = new]
        /\ Len(creations') = new /\ new \in 1..MaxCreations
        /\ UNCHANGED <<interruptions, client>>
    BY <1>1, <1>3 DEF Cache!Creates, CacheShape
  <2>2. /\ creations' \in Seq({"running", "created", "failed"})
        /\ \A k \in 1..Len(creations) : creations'[k] = creations[k] /\ creations[k] # "running"
        /\ creations'[new] = "running"
    BY <1>1, <2>1 DEF CacheInv, CacheShape
  <2> HIDE DEF new
  <2>3. CacheShape'
    BY <1>1, <2>1, <2>2 DEF CacheShape
  <2>4. \A k \in 1..Len(creations') : creations'[k] = "running" => k = creationTask'
    BY <1>1, <2>1, <2>2 DEF CacheShape, new
  <2>5. \A d \in Callers : callers'[d] \in {"prepared", "failed", "cancelled"} /\ waitsFor'[d] # 0 =>
           creations'[waitsFor'[d]] # "running"
    BY <1>1, <2>1, <2>2 DEF CacheInv, CacheShape
  <2>6. /\ \A d \in Callers : waitsFor'[d] \in 0..Len(creations')
        /\ \A d \in Callers : callers'[d] = "idle" => waitsFor'[d] = 0
        /\ \A d \in Callers : callers'[d] \in {"shielded", "settling"} => waitsFor'[d] # 0
    BY <1>1, <2>1 DEF CacheInv, CacheShape, new
  <2>7. callers'[c] = "shielded" /\ waitsFor'[c] = creationTask'
    BY <1>1, <2>1 DEF CacheShape
  <2>8. QED
    BY <2>3, <2>4, <2>5, <2>6, <2>7 DEF CacheInv
<1>4. ASSUME NEW c \in Callers, Cache!Joins(c) PROVE CacheInv'
  <2>1. /\ callers[c] = "idle" /\ waitsFor' = [waitsFor EXCEPT ![c] = creationTask]
        /\ creationTask \in 1..Len(creations)
        /\ UNCHANGED <<interruptions, creations, client>>
        /\ \/ /\ creations[creationTask] # "running" /\ creationTask' = 0
              /\ callers' = [callers EXCEPT ![c] = "failed"]
           \/ /\ creationTask' = creationTask
              /\ callers' = [callers EXCEPT ![c] = "shielded"]
    BY <1>1, <1>4 DEF Cache!Joins, Cache!Done, CacheShape
  <2>2. CacheShape'
    BY <1>1, <2>1, SMTT(20) DEF CacheShape
  <2>3. \A k \in 1..Len(creations') : creations'[k] = "running" => k = creationTask'
    BY <1>1, <2>1 DEF CacheInv, CacheShape
  <2>4. /\ \A d \in Callers : waitsFor'[d] \in 0..Len(creations')
        /\ \A d \in Callers : callers'[d] = "idle" => waitsFor'[d] = 0
        /\ \A d \in Callers : callers'[d] \in {"shielded", "settling"} => waitsFor'[d] # 0
        /\ \A d \in Callers : callers'[d] \in {"prepared", "failed", "cancelled"} /\ waitsFor'[d] # 0 =>
             creations'[waitsFor'[d]] # "running"
    BY <1>1, <2>1 DEF CacheInv, CacheShape
  <2>5. creationTask' # 0 =>
          callers'[c] = "shielded" /\ waitsFor'[c] = creationTask'
    BY <1>1, <2>1 DEF CacheShape
  <2>6. QED
    BY <2>2, <2>3, <2>4, <2>5 DEF CacheInv
<1>5. ASSUME NEW c \in Callers, Cache!Cancel(c) PROVE CacheInv'
  <2>1. /\ callers[c] \in {"shielded", "settling"}
        /\ interruptions' = interruptions \union {c}
        /\ UNCHANGED <<callers, waitsFor, creations, creationTask, client>>
    BY <1>5 DEF Cache!Cancel, Cache!Waiting
  <2>2. CacheShape'
    BY <1>1, <2>1 DEF CacheShape
  <2>3. QED
    BY <2>1, <2>2 DEF CacheInv
<1>6. ASSUME NEW c \in Callers, Cache!Wakes(c) PROVE CacheInv'
  <2>1. ASSUME NEW how \in {"prepared", "failed", "cancelled"},
               callers[c] \in {"shielded", "settling"}, Cache!Done(waitsFor[c]), Cache!End(c, how)
        PROVE  CacheInv'
    BY <2>1, LeavingKeepsInv
  <2>2. CASE Cache!WakeSettled(c)
    BY <2>1, <2>2 DEF Cache!WakeSettled
  <2>3. CASE Cache!SettlesAfterCancellation(c)
    BY <2>1, <2>3 DEF Cache!SettlesAfterCancellation
  <2>4. CASE Cache!ReceiveCancellation(c)
    <3>1. callers[c] \in {"shielded", "settling"}
      BY <1>1, <2>4 DEF Cache!ReceiveCancellation, CacheShape
    <3>2. CASE Cache!Done(waitsFor[c])
      BY <2>1, <2>4, <3>1, <3>2 DEF Cache!ReceiveCancellation
    <3>3. CASE ~Cache!Done(waitsFor[c])
      <4>1. /\ callers' = [callers EXCEPT ![c] = "settling"]
            /\ interruptions' = interruptions \ {c}
            /\ UNCHANGED <<waitsFor, creations, creationTask, client>>
        BY <2>4, <3>3 DEF Cache!ReceiveCancellation
      <4>2. CacheShape'
        BY <1>1, <4>1 DEF CacheShape
      <4>3. \A d \in Callers :
              /\ callers'[d] \in {"shielded", "settling"} <=> callers[d] \in {"shielded", "settling"}
              /\ callers'[d] = "idle" <=> callers[d] = "idle"
              /\ callers'[d] \in {"prepared", "failed", "cancelled"} <=>
                   callers[d] \in {"prepared", "failed", "cancelled"}
        BY <1>1, <3>1, <4>1 DEF CacheShape
      <4>4. QED
        BY <4>1, <4>2, <4>3 DEF CacheInv
    <3>4. QED
      BY <3>2, <3>3
  <2>5. QED
    BY <1>6, <2>2, <2>3, <2>4 DEF Cache!Wakes
<1>7. ASSUME Cache!CreationSettles PROVE CacheInv'
  BY <1>7, CreationsKeepInv
     DEF Cache!CreationSettles, Cache!CreationSucceeds, Cache!CreationFails
<1>8. ASSUME Cache!Rest PROVE CacheInv'
  BY <1>8 DEF Cache!Rest, Cache!vars, CacheInv, CacheShape
<1>9. QED
  BY <1>2, <1>3, <1>4, <1>5, <1>6, <1>7, <1>8 DEF Cache!Next

LEMMA CacheIsWhole ==
  ASSUME CacheInv
  PROVE  /\ Cache!TypeOK /\ Cache!OneCreationAtATime
         /\ Cache!NobodyLeavesARunningCreation /\ Cache!FailureIsForgotten
<1>1. Cache!TypeOK
  <2>1. {"idle"} \union Cache!Waiting \union Cache!Ended =
          {"idle", "shielded", "settling", "prepared", "failed", "cancelled"}
    BY DEF Cache!Waiting, Cache!Ended
  <2>2. QED
    BY <2>1, Zenon DEF CacheInv, Cache!TypeOK, CacheShape, Cache!Waiting
<1>2. Cache!OneCreationAtATime
  <2> DEFINE runs == {k \in DOMAIN creations : creations[k] = "running"}
  <2>1. runs \subseteq {creationTask}
    BY DEF CacheInv, CacheShape
  <2>2. Cardinality(runs) <= 1
    <3>1. IsFiniteSet({creationTask}) /\ Cardinality({creationTask}) = 1
      BY FS_Singleton
    <3>2. QED
      BY <2>1, <3>1, FS_Subset
  <2>3. QED
    BY <2>2, SameCount DEF Cache!OneCreationAtATime
<1>3. Cache!NobodyLeavesARunningCreation
  BY DEF CacheInv, Cache!NobodyLeavesARunningCreation, Cache!Ended, Cache!Done
<1>4. Cache!FailureIsForgotten
  BY DEF CacheInv, Cache!FailureIsForgotten, Cache!Waiting
<1>5. QED
  BY <1>1, <1>2, <1>3, <1>4

-----------------------------------------------------------------------------
(***************************************************************************)
(* The batches of embed.                                                   *)
(***************************************************************************)
BatchPlaces == {"unstarted", "queued", "granted", "sending", "waiting", "ended"}
Permitted == {"granted", "sending"}
Holding(places) == {b \in 1..Batches : places[b] \in Permitted}
Kinds == Embed!FailureKinds

UsageCount(seq) == Cardinality({n \in DOMAIN seq : seq[n].usage})

EmbedShape ==
  /\ batches \in [1..Batches -> BatchPlaces]
  /\ records \in [1..Batches -> Seq(Embed!RequestRecords)]
  /\ ending \in [1..Batches -> {"none", "vectors", "stopped", "raised", "cancelled"} \union Kinds]
  /\ batchSent \in [1..Batches -> Nat]
  /\ billed \in [1..Batches -> Nat]
  /\ stop \in BOOLEAN
  /\ aborting \in BOOLEAN
  /\ embedded \in [kind : {"none", "embeddings", "error", "raised"}, failure : Kinds \union {"none"}]
  /\ Cardinality(Holding(batches)) <= MaxConcurrent

(* One batch: where it is, its records, how it ended, what it has sent and *)
(* was billed for, under the event and the abort as they are.              *)
BatchTells(place, seq, how, sends, bills, stopped, aborted) ==
  /\ how = "none" <=> place # "ended"
  /\ place # "ended" => Len(seq) < BatchRequests
  /\ \/ sends = Len(seq) + (IF place = "sending" THEN 1 ELSE 0)
     \/ how \in {"raised", "cancelled"}
  /\ bills <= Len(seq) /\ Len(seq) <= sends /\ sends <= BatchRequests
  /\ UsageCount(seq) = bills
  /\ how \in {"raised", "cancelled"} => aborted
  /\ how = "stopped" => stopped

EmbedInv ==
  /\ EmbedShape
  /\ \A b \in 1..Batches :
       BatchTells(batches[b], records[b], ending[b], batchSent[b], billed[b], stop, aborting)
  /\ stop <=> \E b \in 1..Batches : ending[b] \in Kinds
  /\ embedded.kind \in {"embeddings", "error"} =>
       ~aborting /\ \A b \in 1..Batches : batches[b] = "ended"
  /\ embedded.kind = "embeddings" => \A b \in 1..Batches : ending[b] \notin Kinds

LEMMA EmbedConstants ==
  /\ Batches \in Nat /\ BatchRequests \in Nat \ {0} /\ MaxConcurrent \in Nat \ {0}
  /\ Kinds = TerminalKinds \union {"retries_exhausted", "invalid_output"}
  /\ \A kind \in Kinds : kind \notin {"none", "vectors", "stopped", "raised", "cancelled"}
  /\ Embed!Indices = 1..Batches
  /\ Embed!RequestRecords =
       [error : TerminalKinds \union {"none", "transient", "invalid_output"}, usage : BOOLEAN]
  BY EmbedAssumption
     DEF Embed!EmbedAssumption, Kinds, Embed!FailureKinds, Embed!Indices, Embed!RequestRecords

LEMMA EmbedStarts == ASSUME Embed!Init PROVE EmbedInv
<1>1. UsageCount(<< >>) = 0
  <2>1. {n \in DOMAIN << >> : (<< >>)[n].usage} = {}
    OBVIOUS
  <2>2. QED
    BY <2>1, FS_EmptySet DEF UsageCount
<1>2. /\ batches = [b \in 1..Batches |-> "unstarted"]
      /\ records = [b \in 1..Batches |-> << >>]
      /\ ending = [b \in 1..Batches |-> "none"]
      /\ batchSent = [b \in 1..Batches |-> 0] /\ billed = [b \in 1..Batches |-> 0]
      /\ stop = FALSE /\ aborting = FALSE
      /\ embedded = [kind |-> "none", failure |-> "none"]
  BY EmbedConstants DEF Embed!Init, Embed!NoOutcome
<1>3. Cardinality(Holding(batches)) = 0
  <2>1. Holding(batches) = {}
    BY <1>2 DEF Holding, Permitted
  <2>2. QED
    BY <2>1, FS_EmptySet
<1>4. EmbedShape
  <2>1. << >> \in Seq(Embed!RequestRecords)
    OBVIOUS
  <2>2. /\ batches \in [1..Batches -> BatchPlaces]
        /\ records \in [1..Batches -> Seq(Embed!RequestRecords)]
        /\ ending \in [1..Batches -> {"none", "vectors", "stopped", "raised", "cancelled"} \union Kinds]
    BY <1>2, <2>1 DEF BatchPlaces
  <2>3. /\ batchSent \in [1..Batches -> Nat] /\ billed \in [1..Batches -> Nat]
        /\ stop \in BOOLEAN /\ aborting \in BOOLEAN
    BY <1>2
  <2>4. embedded \in [kind : {"none", "embeddings", "error", "raised"}, failure : Kinds \union {"none"}]
    BY <1>2
  <2>5. Cardinality(Holding(batches)) <= MaxConcurrent
    BY <1>3, EmbedConstants
  <2>6. QED
    BY <2>2, <2>3, <2>4, <2>5, Zenon DEF EmbedShape
<1>5. ASSUME NEW b \in 1..Batches
      PROVE  BatchTells(batches[b], records[b], ending[b], batchSent[b], billed[b], stop, aborting)
  BY <1>1, <1>2, EmbedConstants DEF BatchTells
<1>6. /\ ~stop /\ \A b \in 1..Batches : ending[b] \notin Kinds
      /\ embedded.kind = "none"
  BY <1>2, EmbedConstants
<1>7. QED
  BY <1>4, <1>5, <1>6 DEF EmbedInv

LEMMA RecordsCountUsage ==
  ASSUME NEW seq \in Seq(Embed!RequestRecords), NEW error, NEW used \in BOOLEAN
  PROVE  UsageCount(Append(seq, [error |-> error, usage |-> used])) =
           UsageCount(seq) + (IF used THEN 1 ELSE 0)
<1> DEFINE new == Append(seq, [error |-> error, usage |-> used])
           old == {n \in DOMAIN seq : seq[n].usage}
<1>1. /\ DOMAIN new = 1..(Len(seq) + 1) /\ DOMAIN seq = 1..Len(seq) /\ Len(seq) \in Nat
      /\ \A n \in 1..Len(seq) : new[n] = seq[n]
      /\ new[Len(seq) + 1].usage = used
  OBVIOUS
<1>2. IsFiniteSet(old) /\ Len(seq) + 1 \notin old
  <2>1. 1 \in Int /\ Len(seq) \in Int
    BY <1>1
  <2>2. IsFiniteSet(1..Len(seq))
    BY ONLY <2>1, FS_Interval, Zenon
  <2>3. QED
    BY <1>1, <2>2, FS_Subset
<1>3. Cardinality(old) \in Nat
  BY <1>2, FS_CardinalityType
<1>4. CASE used
  <2>1. {n \in DOMAIN new : new[n].usage} = old \union {Len(seq) + 1}
    BY <1>1, <1>4
  <2>2. QED
    BY <1>2, <1>4, <2>1, FS_AddElement DEF UsageCount
<1>5. CASE ~used
  <2>1. {n \in DOMAIN new : new[n].usage} = old
    BY <1>1, <1>5
  <2>2. UsageCount(new) = Cardinality(old) /\ UsageCount(seq) = Cardinality(old)
    BY <2>1 DEF UsageCount
  <2> HIDE DEF new, old
  <2>3. UsageCount(seq) + 0 = UsageCount(seq)
    BY <1>3, <2>2
  <2>4. QED
    BY <1>5, <2>2, <2>3 DEF new
<1>6. QED
  BY <1>4, <1>5

(* A step of one batch that has not ended.                                 *)
LEMMA OneBatchMoves ==
  ASSUME EmbedInv, NEW b \in 1..Batches, batches[b] # "ended",
         NEW place \in BatchPlaces, NEW seq \in Seq(Embed!RequestRecords),
         NEW how \in {"none", "vectors", "stopped", "raised", "cancelled"} \union Kinds,
         NEW sends \in Nat, NEW bills \in Nat,
         batches' = [batches EXCEPT ![b] = place],
         records' = [records EXCEPT ![b] = seq],
         ending' = [ending EXCEPT ![b] = how],
         batchSent' = [batchSent EXCEPT ![b] = sends],
         billed' = [billed EXCEPT ![b] = bills],
         stop' \in BOOLEAN, stop' <=> stop \/ how \in Kinds,
         aborting' \in BOOLEAN, aborting => aborting',
         embedded' = embedded,
         BatchTells(place, seq, how, sends, bills, stop', aborting'),
         place \in Permitted =>
           batches[b] \in Permitted \/ Cardinality(Holding(batches)) < MaxConcurrent
  PROVE  EmbedInv'
<1>1. EmbedShape /\ ending[b] = "none" /\ embedded.kind \notin {"embeddings", "error"}
  BY DEF EmbedInv, BatchTells
<1>2. Cardinality(Holding(batches')) <= MaxConcurrent
  <2>1. IsFiniteSet(Holding(batches)) /\ Cardinality(Holding(batches)) \in Nat
    <3>1. IsFiniteSet(1..Batches)
      BY EmbedConstants, FS_Interval
    <3>2. IsFiniteSet(Holding(batches))
      BY <3>1, FS_Subset DEF Holding
    <3>3. QED
      BY <3>2, FS_CardinalityType
  <2>2. Cardinality(Holding(batches)) <= MaxConcurrent
    BY <1>1 DEF EmbedShape
  <2>3. CASE place \in Permitted /\ batches[b] \notin Permitted
    <3>1. Holding(batches') = Holding(batches) \union {b} /\ b \notin Holding(batches)
      BY <1>1, <2>3 DEF Holding, EmbedShape
    <3>2. Cardinality(Holding(batches')) = Cardinality(Holding(batches)) + 1
      BY <2>1, <3>1, FS_AddElement
    <3>3. QED
      BY <2>1, <2>3, <3>2, EmbedConstants
  <2>4. CASE ~(place \in Permitted /\ batches[b] \notin Permitted)
    <3>1. Holding(batches') \subseteq Holding(batches)
      BY <1>1, <2>4 DEF Holding, EmbedShape
    <3>2. Cardinality(Holding(batches')) <= Cardinality(Holding(batches))
      BY <2>1, <3>1, FS_Subset
    <3>3. Cardinality(Holding(batches')) \in Nat
      BY <2>1, <3>1, FS_Subset, FS_CardinalityType
    <3>4. QED
      BY <2>1, <2>2, <3>2, <3>3, EmbedConstants
  <2>5. QED
    BY <2>3, <2>4
<1>3. EmbedShape'
  BY <1>1, <1>2 DEF EmbedShape, Holding
<1>4. ASSUME NEW d \in 1..Batches
      PROVE  BatchTells(batches[d], records[d], ending[d], batchSent[d], billed[d], stop, aborting)'
  <2>1. CASE d = b
    BY <1>1, <2>1 DEF EmbedShape
  <2>2. CASE d # b
    <3>1. /\ batches'[d] = batches[d] /\ records'[d] = records[d] /\ ending'[d] = ending[d]
          /\ batchSent'[d] = batchSent[d] /\ billed'[d] = billed[d]
      BY <1>1, <2>2 DEF EmbedShape
    <3>2. BatchTells(batches[d], records[d], ending[d], batchSent[d], billed[d], stop, aborting)
      BY DEF EmbedInv
    <3>3. QED
      BY <3>1, <3>2 DEF BatchTells
  <2>3. QED
    BY <2>1, <2>2
<1>5. stop' <=> \E d \in 1..Batches : ending'[d] \in Kinds
  BY <1>1, EmbedConstants DEF EmbedInv, EmbedShape
<1>6. QED
  BY <1>1, <1>3, <1>4, <1>5 DEF EmbedInv

(* A batch that goes on, stops or is cancelled without a new record.       *)
LEMMA OneBatchPasses ==
  ASSUME EmbedInv, NEW b \in 1..Batches, batches[b] # "ended",
         NEW place \in BatchPlaces,
         NEW how \in {"none", "stopped", "raised", "cancelled"},
         NEW sends \in Nat,
         batches' = [batches EXCEPT ![b] = place],
         ending' = [ending EXCEPT ![b] = how],
         batchSent' = [batchSent EXCEPT ![b] = sends],
         UNCHANGED <<records, billed, stop, embedded>>,
         aborting' \in BOOLEAN, aborting => aborting',
         how = "none" <=> place # "ended",
         how \in {"raised", "cancelled"} => aborting' /\ sends = batchSent[b],
         how = "stopped" => stop,
         how \in {"none", "stopped"} =>
           /\ batches[b] # "sending"
           /\ sends = batchSent[b] + (IF place = "sending" THEN 1 ELSE 0),
         place \in Permitted =>
           batches[b] \in Permitted \/ Cardinality(Holding(batches)) < MaxConcurrent
  PROVE  EmbedInv'
<1>1. EmbedShape /\ ending[b] = "none"
      /\ BatchTells(batches[b], records[b], "none", batchSent[b], billed[b], stop, aborting)
  BY DEF EmbedInv, BatchTells
<1>2. /\ records[b] \in Seq(Embed!RequestRecords) /\ billed[b] \in Nat /\ batchSent[b] \in Nat
      /\ records' = [records EXCEPT ![b] = records[b]]
      /\ billed' = [billed EXCEPT ![b] = billed[b]]
      /\ Len(records[b]) \in Nat
  BY <1>1 DEF EmbedShape
<1>3. BatchTells(place, records[b], how, sends, billed[b], stop', aborting')
  <2>1. /\ Len(records[b]) < BatchRequests /\ billed[b] <= Len(records[b])
        /\ UsageCount(records[b]) = billed[b]
        /\ batchSent[b] = Len(records[b]) + (IF batches[b] = "sending" THEN 1 ELSE 0)
    BY <1>1, <1>2 DEF BatchTells
  <2>2. /\ BatchRequests \in Nat /\ batchSent[b] <= BatchRequests
        /\ Len(records[b]) <= batchSent[b]
    BY <1>1, EmbedConstants DEF BatchTells
  <2>3. ASSUME how \in {"none", "stopped"}
        PROVE  sends = Len(records[b]) + (IF place = "sending" THEN 1 ELSE 0)
    <3>1. /\ batches[b] # "sending"
          /\ sends = batchSent[b] + (IF place = "sending" THEN 1 ELSE 0)
      BY <2>3
    <3>2. batchSent[b] = Len(records[b])
      BY <1>2, <2>1, <3>1
    <3>3. QED
      BY <3>1, <3>2
  <2>4. Len(records[b]) <= sends /\ sends <= BatchRequests
    <3>1. CASE how \in {"raised", "cancelled"}
      BY <2>2, <3>1
    <3>2. CASE how \in {"none", "stopped"}
      <4> DEFINE len == Len(records[b])
      <4>1. len \in Nat /\ len < BatchRequests
        BY <1>2, <2>1
      <4>2. sends = len + (IF place = "sending" THEN 1 ELSE 0)
        BY <2>3, <3>2
      <4> HIDE DEF len
      <4>3. len <= sends /\ sends <= BatchRequests
        BY <2>2, <4>1, <4>2
      <4>4. QED
        BY <4>3 DEF len
    <3>3. QED
      BY <3>1, <3>2
  <2>5. QED
    BY <2>1, <2>3, <2>4 DEF BatchTells
<1>4. stop' \in BOOLEAN /\ (stop' <=> stop \/ how \in Kinds) /\ how \notin Kinds
  BY <1>1, EmbedConstants DEF EmbedShape
<1>5. QED
  BY <1>2, <1>3, <1>4, OneBatchMoves

(* A batch that goes to wait, or stops.                                    *)
LEMMA OneBatchWaits ==
  ASSUME EmbedInv, NEW b \in 1..Batches, batches[b] \notin {"ended", "sending"},
         NEW place \in BatchPlaces \ {"sending"},
         NEW how \in {"none", "stopped"},
         batches' = [batches EXCEPT ![b] = place],
         ending' = [ending EXCEPT ![b] = how],
         UNCHANGED <<records, batchSent, billed, stop, aborting, embedded>>,
         how = "none" <=> place # "ended",
         how = "stopped" => stop,
         place \in Permitted =>
           batches[b] \in Permitted \/ Cardinality(Holding(batches)) < MaxConcurrent
  PROVE  EmbedInv'
<1>1. EmbedShape
  BY DEF EmbedInv
<1>2. batchSent[b] \in Nat /\ batchSent' = [batchSent EXCEPT ![b] = batchSent[b]]
  BY <1>1 DEF EmbedShape
<1>3. batchSent[b] = batchSent[b] + (IF place = "sending" THEN 1 ELSE 0)
  BY <1>2
<1>4. aborting' \in BOOLEAN /\ (aborting => aborting')
  BY <1>1 DEF EmbedShape
<1>5. /\ how \in {"none", "stopped", "raised", "cancelled"}
      /\ how \notin {"raised", "cancelled"}
  OBVIOUS
<1>6. QED
  BY <1>2, <1>3, <1>4, <1>5, OneBatchPasses

(* A batch whose request is settled, with a record.                        *)
LEMMA OneBatchRecords ==
  ASSUME EmbedInv, NEW b \in 1..Batches, batches[b] = "sending",
         NEW place \in {"queued", "waiting", "ended"},
         NEW how \in {"none", "vectors", "stopped"} \union Kinds,
         NEW error \in TerminalKinds \union {"none", "transient", "invalid_output"},
         NEW used \in BOOLEAN,
         Embed!Keep(b, error, used),
         batches' = [batches EXCEPT ![b] = place],
         ending' = [ending EXCEPT ![b] = how],
         UNCHANGED <<batchSent, aborting, embedded>>,
         stop' \in BOOLEAN, stop' <=> stop \/ how \in Kinds,
         how = "none" <=> place # "ended",
         place # "ended" => batchSent[b] < BatchRequests,
         how = "stopped" => stop
  PROVE  EmbedInv'
<1> DEFINE seq == Append(records[b], [error |-> error, usage |-> used])
           bills == billed[b] + (IF used THEN 1 ELSE 0)
<1>1. EmbedShape
      /\ BatchTells("sending", records[b], ending[b], batchSent[b], billed[b], stop, aborting)
  BY DEF EmbedInv
<1>2. /\ records[b] \in Seq(Embed!RequestRecords) /\ billed[b] \in Nat /\ batchSent[b] \in Nat
      /\ batchSent' = [batchSent EXCEPT ![b] = batchSent[b]]
      /\ Len(records[b]) \in Nat
  BY <1>1 DEF EmbedShape
<1>3. /\ seq \in Seq(Embed!RequestRecords) /\ Len(seq) = Len(records[b]) + 1
  <2>1. [error |-> error, usage |-> used] \in Embed!RequestRecords
    BY EmbedConstants
  <2>2. QED
    BY <1>2, <2>1
<1>4. UsageCount(seq) = UsageCount(records[b]) + (IF used THEN 1 ELSE 0)
  BY <1>2, RecordsCountUsage
<1>5. records' = [records EXCEPT ![b] = seq] /\ billed' = [billed EXCEPT ![b] = bills]
  BY DEF Embed!Keep
<1> HIDE DEF seq
<1>6. bills \in Nat /\ UsageCount(seq) = bills /\ bills <= Len(seq)
  <2>1. UsageCount(records[b]) = billed[b] /\ billed[b] <= Len(records[b])
    BY <1>1 DEF BatchTells
  <2>2. QED
    BY <1>2, <1>3, <1>4, <2>1
<1> HIDE DEF bills
<1>7. BatchTells(place, seq, how, batchSent[b], bills, stop', aborting')
  <2>1. batchSent[b] = Len(seq) /\ batchSent[b] <= BatchRequests
    BY <1>1, <1>2, <1>3 DEF BatchTells
  <2>2. how \notin {"raised", "cancelled"} /\ place # "sending"
    BY EmbedConstants
  <2>3. QED
    BY <1>2, <1>3, <1>6, <2>1, <2>2 DEF BatchTells
<1>8. /\ place \in BatchPlaces /\ place \notin Permitted
      /\ how \in {"none", "vectors", "stopped", "raised", "cancelled"} \union Kinds
      /\ aborting' \in BOOLEAN /\ (aborting => aborting') /\ batches[b] # "ended"
  BY <1>1 DEF BatchPlaces, Permitted, EmbedShape
<1>9. QED
  BY <1>2, <1>3, <1>5, <1>6, <1>7, <1>8, OneBatchMoves

LEMMA EmbedStep ==
  ASSUME EmbedInv, Embed!Next
  PROVE  EmbedInv' /\ (Embed!Failed # {} => batchSent' = batchSent)
<1>1. EmbedShape
  BY DEF EmbedInv
<1>2. Embed!Failed # {} => stop
  BY EmbedConstants DEF EmbedInv, Embed!Failed, Kinds
<1>3. ASSUME NEW b \in 1..Batches
      PROVE  /\ batches = [batches EXCEPT ![b] = batches[b]]
             /\ ending = [ending EXCEPT ![b] = ending[b]]
             /\ batchSent = [batchSent EXCEPT ![b] = batchSent[b]]
             /\ batches[b] # "ended" => ending[b] = "none"
             /\ batchSent[b] \in Nat /\ batches[b] \in BatchPlaces
  BY <1>1 DEF EmbedShape, EmbedInv, BatchTells
<1>4. ASSUME NEW b \in 1..Batches, batches[b] \in {"unstarted", "waiting"}, Embed!SendOrStop(b),
             UNCHANGED <<records, batchSent, billed, stop, aborting, embedded>>
      PROVE  EmbedInv'
  <2>1. ending[b] = "none" /\ batches[b] \notin {"ended", "sending"}
    BY <1>3, <1>4
  <2>2. CASE stop
    <3>1. batches' = [batches EXCEPT ![b] = "ended"] /\ ending' = [ending EXCEPT ![b] = "stopped"]
      BY <1>4, <2>2 DEF Embed!SendOrStop, Embed!EndBatch
    <3>2. QED
      BY <1>4, <2>1, <2>2, <3>1, OneBatchWaits DEF BatchPlaces, Permitted
  <2>3. CASE ~stop
    <3>1. batches' = [batches EXCEPT ![b] = "queued"] /\ ending' = [ending EXCEPT ![b] = "none"]
      BY <1>3, <1>4, <2>1, <2>3 DEF Embed!SendOrStop
    <3>2. QED
      BY <1>4, <2>1, <2>3, <3>1, OneBatchWaits DEF BatchPlaces, Permitted
  <2>4. QED
    BY <2>2, <2>3
<1>5. ASSUME NEW b \in 1..Batches, Embed!Start(b) \/ Embed!WaitEnds(b)
      PROVE  EmbedInv' /\ batchSent' = batchSent
  BY <1>4, <1>5 DEF Embed!Start, Embed!WaitEnds
<1>6. ASSUME NEW b \in 1..Batches, Embed!Grant(b)
      PROVE  EmbedInv' /\ batchSent' = batchSent
  <2>1. Embed!PermitsOut = Holding(batches)
    BY EmbedConstants DEF Embed!PermitsOut, Holding, Permitted
  <2>2. /\ batches[b] = "queued" /\ batches' = [batches EXCEPT ![b] = "granted"]
        /\ Cardinality(Holding(batches)) < MaxConcurrent
        /\ UNCHANGED <<records, ending, batchSent, billed, stop, aborting, embedded>>
    BY <1>6, <2>1, SameCount DEF Embed!Grant
  <2>3. ending' = [ending EXCEPT ![b] = "none"]
    BY <1>3, <2>2
  <2>4. QED
    BY <2>2, <2>3, OneBatchWaits DEF BatchPlaces
<1>7. ASSUME NEW b \in 1..Batches, Embed!Admitted(b)
      PROVE  EmbedInv' /\ (stop => batchSent' = batchSent)
  <2>1. batches[b] = "granted" /\ ending[b] = "none" /\ batchSent[b] + 1 \in Nat
        /\ UNCHANGED <<records, billed, stop, aborting, embedded>>
    BY <1>3, <1>7 DEF Embed!Admitted
  <2>2. CASE stop
    <3>1. batches' = [batches EXCEPT ![b] = "ended"] /\ ending' = [ending EXCEPT ![b] = "stopped"]
          /\ batchSent' = batchSent
      BY <1>7, <2>2 DEF Embed!Admitted, Embed!EndBatch
    <3>2. QED
      BY <2>1, <2>2, <3>1, OneBatchWaits DEF BatchPlaces, Permitted
  <2>3. CASE ~stop
    <3>1. batches' = [batches EXCEPT ![b] = "sending"] /\ ending' = [ending EXCEPT ![b] = "none"]
          /\ batchSent' = [batchSent EXCEPT ![b] = batchSent[b] + 1]
      BY <1>3, <1>7, <2>1, <2>3 DEF Embed!Admitted
    <3>2. batchSent[b] + 1 = batchSent[b] + (IF "sending" = "sending" THEN 1 ELSE 0)
      OBVIOUS
    <3>3. aborting' \in BOOLEAN /\ (aborting => aborting')
      BY <1>1, <2>1 DEF EmbedShape
    <3>4. "sending" \in BatchPlaces /\ batches[b] \in Permitted /\ batches[b] \notin {"ended", "sending"}
      BY <2>1 DEF BatchPlaces, Permitted
    <3>5. QED
      BY <2>1, <2>3, <3>1, <3>2, <3>3, <3>4, OneBatchPasses
  <2>4. QED
    BY <2>2, <2>3
<1>8. ASSUME NEW b \in 1..Batches, Embed!Embedded(b)
      PROVE  EmbedInv' /\ batchSent' = batchSent
  <2>1. /\ batches[b] = "sending" /\ Embed!Keep(b, "none", TRUE)
        /\ batches' = [batches EXCEPT ![b] = "ended"] /\ ending' = [ending EXCEPT ![b] = "vectors"]
        /\ UNCHANGED <<batchSent, stop, aborting, embedded>>
    BY <1>8, Zenon DEF Embed!Embedded, Embed!EndBatch
  <2>2. stop' \in BOOLEAN /\ (stop' <=> stop \/ "vectors" \in Kinds)
    BY <1>1, <2>1, EmbedConstants DEF EmbedShape
  <2> DEFINE used == TRUE
  <2>3. used \in BOOLEAN /\ Embed!Keep(b, "none", used)
    BY <2>1
  <2> HIDE DEF used
  <2>4. /\ "ended" \in {"queued", "waiting", "ended"}
        /\ "vectors" \in {"none", "vectors", "stopped"} \union Kinds
        /\ "none" \in TerminalKinds \union {"none", "transient", "invalid_output"}
        /\ "vectors" = "none" <=> "ended" # "ended"
        /\ "ended" # "ended" => batchSent[b] < BatchRequests
        /\ "vectors" = "stopped" => stop
    OBVIOUS
  <2>5. QED
    BY <2>1, <2>2, <2>3, <2>4, OneBatchRecords, Zenon
<1>9. ASSUME NEW b \in 1..Batches, batches[b] = "sending", NEW kind \in Kinds,
             NEW error \in TerminalKinds \union {"transient", "invalid_output"},
             NEW used \in BOOLEAN, Embed!Keep(b, error, used), Embed!FailBatch(b, kind),
             UNCHANGED <<batchSent, aborting, embedded>>
      PROVE  EmbedInv'
  <2>1. /\ batches' = [batches EXCEPT ![b] = "ended"] /\ ending' = [ending EXCEPT ![b] = kind]
        /\ stop' = TRUE
    BY <1>9 DEF Embed!FailBatch, Embed!EndBatch
  <2>2. stop' \in BOOLEAN /\ (stop' <=> stop \/ kind \in Kinds)
        /\ kind \notin {"none", "stopped"}
    BY <2>1, EmbedConstants
  <2>3. QED
    BY <1>9, <2>1, <2>2, OneBatchRecords
<1>10. ASSUME NEW b \in 1..Batches, Embed!OutputInvalid(b) \/ Embed!TerminalFailure(b)
       PROVE  EmbedInv' /\ batchSent' = batchSent
  BY <1>9, <1>10, EmbedConstants DEF Embed!OutputInvalid, Embed!TerminalFailure
<1>11. ASSUME NEW b \in 1..Batches, Embed!TransientFailure(b)
       PROVE  EmbedInv' /\ batchSent' = batchSent
  <2>1. /\ batches[b] = "sending" /\ Embed!Keep(b, "transient", FALSE)
        /\ UNCHANGED <<batchSent, aborting, embedded>> /\ ending[b] = "none"
    BY <1>3, <1>11 DEF Embed!TransientFailure
  <2>2. CASE ~(batchSent[b] < BatchRequests)
    <3>1. Embed!FailBatch(b, "retries_exhausted") /\ "retries_exhausted" \in Kinds
      BY <1>11, <2>2, EmbedConstants DEF Embed!TransientFailure
    <3>2. QED
      BY <1>9, <2>1, <3>1
  <2>3. ASSUME batchSent[b] < BatchRequests, NEW place \in {"queued", "waiting", "ended"},
               NEW how \in {"none", "stopped"}, how = "none" <=> place # "ended",
               how = "stopped" => stop, UNCHANGED stop,
               batches' = [batches EXCEPT ![b] = place], ending' = [ending EXCEPT ![b] = how]
        PROVE  EmbedInv'
    <3>1. stop' \in BOOLEAN /\ (stop' <=> stop \/ how \in Kinds)
      BY <1>1, <2>3, EmbedConstants DEF EmbedShape
    <3>2. QED
      BY <2>1, <2>3, <3>1, OneBatchRecords
  <2>4. CASE batchSent[b] < BatchRequests
    <3>1. ending = [ending EXCEPT ![b] = "none"]
      BY <1>3, <2>1
    <3>2. \/ Embed!SendOrStop(b) /\ UNCHANGED stop
          \/ batches' = [batches EXCEPT ![b] = "waiting"] /\ UNCHANGED <<ending, stop>>
      BY <1>11, <2>4 DEF Embed!TransientFailure
    <3>3. CASE Embed!SendOrStop(b) /\ UNCHANGED stop
      <4>1. CASE stop
        BY <2>1, <2>3, <2>4, <3>3, <4>1 DEF Embed!SendOrStop, Embed!EndBatch
      <4>2. CASE ~stop
        BY <2>1, <2>3, <2>4, <3>1, <3>3, <4>2 DEF Embed!SendOrStop
      <4>3. QED
        BY <4>1, <4>2
    <3>4. CASE batches' = [batches EXCEPT ![b] = "waiting"] /\ UNCHANGED <<ending, stop>>
      BY <2>1, <2>3, <2>4, <3>1, <3>4
    <3>5. QED
      BY <3>2, <3>3, <3>4
  <2>5. QED
    BY <2>1, <2>2, <2>4
<1>12. ASSUME NEW b \in 1..Batches, Embed!Defect(b) \/ Embed!TaskCancelled(b)
       PROVE  EmbedInv' /\ batchSent' = batchSent
  <2>1. PICK how \in {"raised", "cancelled"} :
          /\ batches[b] # "ended" /\ aborting' = TRUE
          /\ batches' = [batches EXCEPT ![b] = "ended"] /\ ending' = [ending EXCEPT ![b] = how]
          /\ UNCHANGED <<records, batchSent, billed, stop, embedded>>
    BY <1>1, <1>12
       DEF Embed!Defect, Embed!TaskCancelled, Embed!EndBatch, Embed!Live, EmbedShape
  <2>2. QED
    BY <1>3, <2>1, OneBatchPasses DEF BatchPlaces, Permitted
<1>13. ASSUME Embed!CallerCancels PROVE EmbedInv' /\ batchSent' = batchSent
  <2>1. /\ embedded = [kind |-> "none", failure |-> "none"] /\ aborting' = TRUE
        /\ UNCHANGED <<batches, records, ending, batchSent, billed, stop, embedded>>
    BY <1>13 DEF Embed!CallerCancels, Embed!NoOutcome
  <2>2. ASSUME NEW b \in 1..Batches
        PROVE  BatchTells(batches[b], records[b], ending[b], batchSent[b], billed[b], stop, aborting)'
    BY <2>1, <2>2 DEF EmbedInv, BatchTells
  <2>3. EmbedShape'
    BY <1>1, <2>1 DEF EmbedShape
  <2>4. QED
    BY <2>1, <2>2, <2>3 DEF EmbedInv
<1>14. ASSUME embedded' \in [kind : {"none", "embeddings", "error", "raised"}, failure : Kinds \union {"none"}],
              UNCHANGED <<batches, records, ending, batchSent, billed, stop, aborting>>,
              embedded'.kind \in {"embeddings", "error"} =>
                ~aborting /\ \A b \in 1..Batches : batches[b] = "ended",
              embedded'.kind = "embeddings" => \A b \in 1..Batches : ending[b] \notin Kinds
       PROVE  EmbedInv' /\ batchSent' = batchSent
  <2>1. EmbedShape'
    BY <1>1, <1>14 DEF EmbedShape
  <2>2. QED
    BY <1>14, <2>1 DEF EmbedInv
<1>15. ASSUME Embed!Return PROVE EmbedInv' /\ batchSent' = batchSent
  <2>1. /\ ~aborting /\ \A b \in 1..Batches : batches[b] = "ended"
        /\ embedded' = Embed!Output
        /\ UNCHANGED <<batches, records, ending, batchSent, billed, stop, aborting>>
    BY <1>15, EmbedConstants DEF Embed!Return
  <2>2. Embed!Failed \subseteq 1..Batches /\ \A b \in Embed!Failed : ending[b] \in Kinds
    BY EmbedConstants DEF Embed!Failed, Kinds
  <2>3. CASE Embed!Failed = {}
    <3>1. embedded' = [kind |-> "embeddings", failure |-> "none"]
      BY <2>1, <2>3 DEF Embed!Output
    <3>2. \A b \in 1..Batches : ending[b] \notin Kinds
      BY <2>3, EmbedConstants DEF Embed!Failed, Kinds
    <3>3. QED
      BY <1>14, <2>1, <3>1, <3>2
  <2>4. CASE Embed!Failed # {}
    <3>1. Embed!FirstFailed # {} /\ Embed!FirstFailed \subseteq Embed!Failed
      BY <2>2, <2>4, LeastOf, EmbedConstants DEF Embed!FirstFailed
    <3> DEFINE first == CHOOSE b \in Embed!FirstFailed : TRUE
    <3>2. first \in Embed!FirstFailed
      BY <3>1
    <3>3. embedded' = [kind |-> "error", failure |-> ending[first]]
      BY <2>1, <2>4 DEF Embed!Output
    <3> HIDE DEF first
    <3>4. ending[first] \in Kinds
      BY <2>2, <3>1, <3>2
    <3>5. QED
      BY <1>14, <2>1, <3>3, <3>4
  <2>5. QED
    BY <2>3, <2>4
<1>16. ASSUME Embed!Raise \/ Embed!Finished PROVE EmbedInv' /\ batchSent' = batchSent
  <2>1. CASE Embed!Raise
    <3>1. /\ embedded' = [kind |-> "raised", failure |-> "none"]
          /\ UNCHANGED <<batches, records, ending, batchSent, billed, stop, aborting>>
      BY <2>1 DEF Embed!Raise
    <3>2. QED
      BY <1>14, <3>1
  <2>2. CASE Embed!Finished
    <3>1. UNCHANGED <<batches, records, ending, batchSent, billed, stop, aborting, embedded>>
      BY <2>2 DEF Embed!Finished, Embed!vars
    <3>2. QED
      BY <1>1, <1>14, <3>1 DEF EmbedInv, EmbedShape
  <2>3. QED
    BY <1>16, <2>1, <2>2
<1>17. QED
  BY <1>2, <1>5, <1>6, <1>7, <1>8, <1>10, <1>11, <1>12, <1>13, <1>15, <1>16, EmbedConstants
     DEF Embed!Next

LEMMA EmbedIsWhole ==
  ASSUME EmbedInv
  PROVE  /\ Embed!TypeOK /\ Embed!OutputIsWhole /\ Embed!HistoryIsComplete
         /\ Embed!StoppedForAReason
<1>1. EmbedShape /\ Embed!Indices = 1..Batches /\ BatchRequests \in Nat
  BY EmbedConstants DEF EmbedInv
<1>2. ASSUME NEW b \in 1..Batches
      PROVE  BatchTells(batches[b], records[b], ending[b], batchSent[b], billed[b], stop, aborting)
  BY DEF EmbedInv
<1>3. ASSUME NEW b \in 1..Batches
      PROVE  /\ records[b] \in Seq(Embed!RequestRecords) /\ Len(records[b]) \in Nat
             /\ batchSent[b] \in Nat /\ billed[b] \in Nat
             /\ ending[b] \in {"none", "vectors", "stopped", "raised", "cancelled"} \union Kinds
  BY <1>1 DEF EmbedShape
<1>4. Embed!TypeOK
  <2>1. ASSUME NEW b \in Embed!Indices
        PROVE  /\ records[b] \in Seq(Embed!RequestRecords)
               /\ batchSent[b] = Len(records[b]) + (IF batches[b] = "sending" THEN 1 ELSE 0)
                    \/ ending[b] \in {"raised", "cancelled"}
               /\ batchSent[b] <= BatchRequests
               /\ billed[b] <= batchSent[b]
    <3>1. b \in 1..Batches
      BY <1>1, <2>1
    <3>2. billed[b] <= Len(records[b]) /\ Len(records[b]) <= batchSent[b]
      BY <1>2, <3>1 DEF BatchTells
    <3>3. billed[b] <= batchSent[b]
      <4> DEFINE bills == billed[b]
                 len == Len(records[b])
                 sends == batchSent[b]
      <4>1. bills \in Nat /\ len \in Nat /\ sends \in Nat /\ bills <= len /\ len <= sends
        BY <1>3, <3>1, <3>2
      <4> HIDE DEF bills, len, sends
      <4>2. bills <= sends
        BY <4>1
      <4>3. QED
        BY <4>2 DEF bills, sends
    <3>4. QED
      BY <1>2, <1>3, <3>1, <3>3, Zenon DEF BatchTells
  <2>2. Cardinality(Embed!PermitsOut) <= MaxConcurrent
    BY <1>1 DEF Embed!PermitsOut, Holding, Permitted, EmbedShape
  <2>3. Embed!Cardinality(Embed!PermitsOut) <= MaxConcurrent
    BY <2>2, SameCount
  <2>4. QED
    BY <1>1, <2>1, <2>3, Zenon DEF Embed!TypeOK, EmbedShape, BatchPlaces, Kinds
<1>5. Embed!OutputIsWhole
  <2>1. SUFFICES ASSUME embedded.kind = "embeddings", NEW b \in 1..Batches
                 PROVE  ending[b] = "vectors"
    BY <1>1 DEF Embed!OutputIsWhole
  <2>2. ~aborting /\ batches[b] = "ended" /\ ending[b] \notin Kinds /\ ~stop
    BY <2>1 DEF EmbedInv
  <2>3. ending[b] \notin {"none", "raised", "cancelled", "stopped"}
    BY <1>2, <2>2 DEF BatchTells
  <2>4. QED
    BY <1>3, <2>2, <2>3
<1>6. Embed!HistoryIsComplete
  <2>1. SUFFICES ASSUME embedded.kind \in {"embeddings", "error"}, NEW b \in 1..Batches
                 PROVE  /\ Len(records[b]) = batchSent[b]
                        /\ UsageCount(records[b]) = billed[b]
    BY <1>1, SameCount, Zenon DEF Embed!HistoryIsComplete, UsageCount
  <2>2. ~aborting /\ batches[b] = "ended"
    BY <2>1 DEF EmbedInv
  <2>3. /\ batchSent[b] = Len(records[b]) + (IF batches[b] = "sending" THEN 1 ELSE 0)
        /\ UsageCount(records[b]) = billed[b]
    BY <1>2, <2>2 DEF BatchTells
  <2>4. QED
    BY <1>3, <2>2, <2>3
<1>7. Embed!StoppedForAReason
  <2>1. SUFFICES ASSUME NEW b \in 1..Batches, ending[b] = "stopped"
                 PROVE  Embed!Failed # {}
    BY <1>1 DEF Embed!StoppedForAReason
  <2>2. stop
    BY <1>2, <2>1 DEF BatchTells
  <2>3. PICK d \in 1..Batches : ending[d] \in Kinds
    BY <2>2 DEF EmbedInv
  <2>4. QED
    BY <1>1, <2>3 DEF Embed!Failed, Kinds
<1>8. QED
  BY <1>4, <1>5, <1>6, <1>7

-----------------------------------------------------------------------------
(***************************************************************************)
(* The family: one of its members steps, the others are as they began.     *)
(***************************************************************************)
FamilyInv == ManyInv /\ CacheInv /\ EmbedInv

LEMMA FamilyStarts == ASSUME FamilyInit PROVE FamilyInv
  BY RunManyStarts, CacheStarts, EmbedStarts DEF FamilyInit, FamilyInv

LEMMA ManyIdles == ASSUME ManyInv, UNCHANGED manyVars PROVE ManyInv'
  BY DEF ManyInv, Many!TypeOK, manyVars, Many!Calls, Many!Called

LEMMA CacheIdles == ASSUME CacheInv, UNCHANGED cacheVars PROVE CacheInv'
  BY DEF CacheInv, CacheShape, cacheVars

LEMMA EmbedIdles == ASSUME EmbedInv, UNCHANGED embedVars PROVE EmbedInv'
<1>1. EmbedShape'
  BY DEF EmbedInv, EmbedShape, embedVars, Holding
<1>2. ASSUME NEW b \in 1..Batches
      PROVE  BatchTells(batches[b], records[b], ending[b], batchSent[b], billed[b], stop, aborting)'
  BY DEF EmbedInv, BatchTells, embedVars
<1>3. QED
  BY <1>1, <1>2 DEF EmbedInv, embedVars

(* A step is one of one member, or leaves all of them as they are.         *)
LEMMA OneMemberSteps ==
  ASSUME [FamilyNext]_familyVars
  PROVE  /\ Many!Next \/ UNCHANGED manyVars
         /\ Cache!Next \/ UNCHANGED cacheVars
         /\ Embed!Next \/ UNCHANGED embedVars
  BY Zenon DEF FamilyNext, familyVars

LEMMA FamilySteps == ASSUME FamilyInv, [FamilyNext]_familyVars PROVE FamilyInv'
<1>1. ManyInv'
  BY OneMemberSteps, RunManyStep, ManyIdles, Zenon DEF FamilyInv
<1>2. CacheInv'
  BY OneMemberSteps, CacheStep, CacheIdles, Zenon DEF FamilyInv
<1>3. EmbedInv'
  BY OneMemberSteps, EmbedStep, EmbedIdles, Zenon DEF FamilyInv
<1>4. QED
  BY <1>1, <1>2, <1>3, Zenon DEF FamilyInv

(* FamilyInv holds of every reachable state.                               *)
LEMMA FamilyIsInvariant == FamilySpec => []FamilyInv
  BY FamilyStarts, FamilySteps, PTL DEF FamilySpec

(***************************************************************************)
(* However many callers prepare the client, whatever creations fail and    *)
(* whoever is cancelled: one creation runs at a time, nobody leaves it     *)
(* while it runs, and a failed one is not kept.                            *)
(***************************************************************************)
THEOREM CreationIsOneForAll == FamilySpec => []CreationIsShared
<1>1. FamilyInv => CreationIsShared
  BY CacheIsWhole DEF FamilyInv, CreationIsShared
<1>2. QED
  BY <1>1, FamilyIsInvariant, PTL

(***************************************************************************)
(* For any number of calls and any bound, run_many keeps to the bound and  *)
(* leaves nothing running; for any number of batches and any max_requests, *)
(* embed returns whole or raises for a failure that happened, with every   *)
(* request of every batch and its usage on the record.                     *)
(***************************************************************************)
THEOREM BatchesEndWhole == FamilySpec => []BatchesAreWhole
<1>1. FamilyInv => BatchesAreWhole
  BY RunManyIsWhole, EmbedIsWhole DEF FamilyInv, BatchesAreWhole
<1>2. QED
  BY <1>1, FamilyIsInvariant, PTL

(***************************************************************************)
(* run_many implements the ordered batch, raises for the lowest failed     *)
(* index among what it took, and no batch of embed sends once one failed.  *)
(***************************************************************************)
THEOREM BatchesEndInOrder == FamilySpec => BatchesStopInOrder
<1>1. FamilyInit => Many!Batch!Init
  BY BatchStarts DEF FamilyInit
<1>2. ASSUME FamilyInv, [FamilyNext]_familyVars
      PROVE  [Many!Batch!Next]_(Many!Batch!vars)
  <2>1. CASE Many!Next
    BY <1>2, <2>1, BatchSteps DEF FamilyInv
  <2>2. CASE UNCHANGED manyVars
    BY <2>2 DEF manyVars, Many!Batch!vars, Many!Calls
  <2>3. QED
    BY <1>2, <2>1, <2>2, OneMemberSteps, Zenon
<1>3. ASSUME FamilyInv, [FamilyNext]_familyVars
      PROVE  [failure = 0 /\ failure' # 0 =>
                \A i \in pending : i < failure' => state[i] # "failed"]_(Many!vars)
  <2>1. CASE Many!Next
    BY <1>3, <2>1, RunManyStep DEF FamilyInv
  <2>2. CASE UNCHANGED manyVars
    BY <2>2 DEF manyVars, Many!vars
  <2>3. QED
    BY <1>3, <2>1, <2>2, OneMemberSteps, Zenon
<1>4. ASSUME FamilyInv, [FamilyNext]_familyVars
      PROVE  [Embed!Failed # {} => batchSent' = batchSent]_(Embed!vars)
  <2>1. CASE Embed!Next
    BY <1>4, <2>1, EmbedStep DEF FamilyInv
  <2>2. CASE UNCHANGED embedVars
    BY <2>2 DEF embedVars, Embed!vars
  <2>3. QED
    BY <1>4, <2>1, <2>2, OneMemberSteps, Zenon
<1>5. QED
  BY <1>1, <1>2, <1>3, <1>4, FamilyIsInvariant, PTL
     DEF FamilySpec, BatchesStopInOrder, Many!ImplementsBatch, Many!LowestFailureWins,
         Embed!NoRequestAfterAFailure
-----------------------------------------------------------------------------
(***************************************************************************)
(* The loop of one input: what the quota is told, what the budget counts,  *)
(* and what the outcome says of the requests that were sent.               *)
(***************************************************************************)

-----------------------------------------------------------------------------
(***************************************************************************)
(* Places of the task between two requests and within one.                 *)
(***************************************************************************)
Between == {"start", "admission", "backoff"}

Requesting == {"opening", "streaming", "closing"}

(***************************************************************************)
(* The quota.  It is behind by one failure at most, the one whose stream   *)
(* is being closed, and only while the permit is held.                     *)
(***************************************************************************)
BeingClosed ==
  IF pc = "closing" /\ attempt.result = "failed" /\ Reported(attempt.failure)
  THEN {sent} ELSE {}

QuotaInv ==
  /\ pc \in Between \union Requesting \union {"finished"}
  /\ attempt \in Attempts
  /\ permit \in BOOLEAN /\ cancelling \in BOOLEAN
  /\ cancelledBy \subseteq {"deadline", "caller"}
  /\ permit <=> pc \in Requesting
  /\ cancelling => cancelledBy # {}
  /\ attempt.result = "cancelled" => cancelledBy # {}
  /\ cancelledBy = {} => pauses = told \union BeingClosed

(***************************************************************************)
(* The budget.  What is left of it is in the scope's deadline, or, while a *)
(* working-time deadline is suspended, in _seconds_left.                   *)
(***************************************************************************)
Left ==
  IF deadline = "working_time" /\ pc \in {"start", "admission"} THEN secondsLeft ELSE due

BudgetInv ==
  /\ pc \in Between \union Requesting \union {"finished"}
  /\ deadline \in Deadlines
  /\ due \in NoExpiry..Budget
  /\ secondsLeft \in 0..Budget
  /\ worked \in 0..Budget
  /\ "deadline" \in cancelledBy => worked = Budget
  /\ pc # "finished" =>
       /\ deadline # "none" => Left >= 0 /\ worked + Left = Budget
       /\ deadline = "none" \/ (deadline = "working_time" /\ pc \in {"start", "admission"})
            => due = NoExpiry

(***************************************************************************)
(* The history.  Between two requests the ledger has settled every one of  *)
(* them; within one it has settled all but that one.                       *)
(***************************************************************************)

(* A complete response has reported its usage, which is not noted before   *)
(* it is interpreted; that of a request that broke off is.                 *)
InFlight ==
  /\ ledger.staged = NoBilling /\ ledger.inFlight
  /\ pc = "opening" => ~attempt.opened /\ sent \notin usage
  /\ pc # "opening" => attempt.opened
  /\ pc = "closing" => attempt.result # "none"
  /\ pc = "closing" /\ attempt.result = "complete" => sent \in usage
  /\ pc = "closing" /\ attempt.result = "failed" => attempt.failure \in Failures
  /\ ledger.noted = IF pc = "closing" /\ attempt.result # "complete"
                    THEN Usage(sent, usage) ELSE NoBilling

HistoryInv ==
  /\ pc \in Between \union Requesting \union {"finished"}
  /\ attempt \in Attempts
  /\ sent \in 0..MaxRequests
  /\ usage \union pauses \union told \subseteq 1..sent
  /\ pc = "start" => sent = 0
  /\ pc \in {"admission", "backoff"} => sent < MaxRequests
  /\ pc \in Between => Settled(ledger, sent, usage, Billings) /\ AtRest(ledger)
  /\ pc \in Requesting => sent >= 1 /\ Settled(ledger, sent - 1, usage, Billings) /\ InFlight
  /\ pc # "finished" => outcome = NoEnding
  /\ pc = "finished" =>
       /\ ledger \in Ledgers(Billings)
       /\ outcome.records \in Seq(RequestRecords(Billings))
       /\ OutcomeRecordIsAccepted /\ EveryRequestIsAccounted
       /\ UsageIsRetained /\ KeptRowIsTheAnswer

-----------------------------------------------------------------------------
(***************************************************************************)
(* Where a failure, or its settlement, leaves the task.                    *)
(***************************************************************************)
LEMMA NextRequestLeaves ==
  ASSUME NEW led, NextRequest(led)
  PROVE  pc' \in {"admission", "finished"}
BY DEF NextRequest, FinishWith

LEMMA FailureLeaves ==
  ASSUME NEW cause, NEW opened, NEW led, NEW message,
         SettleFailedRequest(cause, opened, led, message)
  PROVE  pc' \in {"admission", "backoff", "finished"}
BY DEF SettleFailedRequest, SettleTransient, NextRequest, FinishWith

LEMMA EscapeLeaves ==
  ASSUME NEW led, Escape(led)
  PROVE  pc' = "finished" /\ permit' = FALSE /\ cancelling' = FALSE
BY DEF Escape, FinishWith

-----------------------------------------------------------------------------
LEMMA QuotaInit == Init => QuotaInv
<1>1. Init => attempt \in Attempts /\ attempt.result = "none"
  BY DEF Init, NewAttempt, Attempts, NoFailure
<1>2. QED
  BY <1>1 DEF Init, QuotaInv, Between, Requesting, BeingClosed

(* A failure is told before the permit passes, when nothing else is owed.  *)
LEMMA FailureIsTold ==
  ASSUME QuotaInv, NEW cause, NEW opened, NEW led, NEW message,
         FailRequest(cause, opened, led, message),
         pc \in Requesting, BeingClosed \subseteq IF Reported(cause) THEN {sent} ELSE {},
         UNCHANGED <<cancelling, cancelledBy, attempt, sent>>
  PROVE  QuotaInv'
<1>1. pc' \in {"admission", "backoff", "finished"}
  BY FailureLeaves DEF FailRequest
<1>2. permit' = FALSE
  BY DEF FailRequest
<1>3. BeingClosed' = {}
  BY <1>1 DEF BeingClosed
<1>4. cancelledBy = {} => pauses' = told'
  BY DEF FailRequest, TellQuota, QuotaInv
<1>5. QED
  BY <1>1, <1>2, <1>3, <1>4 DEF QuotaInv, Between, Requesting

LEMMA QuotaStep == QuotaInv /\ [Next]_vars => QuotaInv'
<1> SUFFICES ASSUME QuotaInv, [Next]_vars PROVE QuotaInv'
  OBVIOUS
<1> USE DEF Between, Requesting, Awaits
<1>1. CASE Begin
  <2>1. pc' \in {"admission", "finished"} /\ pc = "start"
    BY <1>1, NextRequestLeaves DEF Begin, FinishWith
  <2>2. QED
    BY <1>1, <2>1 DEF Begin, QuotaInv, BeingClosed, ghostVars
<1>2. CASE Admitted
  BY <1>2 DEF Admitted, Resumes, QuotaInv, BeingClosed, NewAttempt, Attempts, NoFailure
<1>3. CASE StreamOpens
  BY <1>3 DEF StreamOpens, Resumes, QuotaInv, BeingClosed, Attempts, ghostVars
<1>4. ASSUME NEW cause \in Failures, OpenFails(cause)
      PROVE  QuotaInv'
  <2>1. pc = "opening" /\ BeingClosed = {}
    BY <1>4 DEF OpenFails, Resumes, BeingClosed
  <2>2. QED
    BY <1>4, <2>1, FailureIsTold DEF OpenFails
<1>5. ASSUME NEW cause \in Failures, StreamFails(cause)
      PROVE  QuotaInv'
  <2>1. /\ pc = "streaming" /\ pc' = "closing"
        /\ attempt' \in Attempts /\ attempt'.result = "failed"
        /\ attempt'.failure = cause
        /\ UNCHANGED <<permit, cancelling, cancelledBy, sent, told>>
    BY <1>5 DEF StreamFails, Resumes, QuotaInv, Attempts
  <2>2. BeingClosed = {} /\ BeingClosed' = IF Reported(cause) THEN {sent} ELSE {}
    BY <2>1 DEF BeingClosed, Reported
  <2>3. pauses' = IF Reported(cause) THEN pauses \union {sent} ELSE pauses
    BY <1>5 DEF StreamFails
  <2>4. QED
    BY <2>1, <2>2, <2>3 DEF QuotaInv
<1>6. CASE UsageArrives
  BY <1>6 DEF UsageArrives, QuotaInv, BeingClosed
<1>7. CASE StreamCompletes
  BY <1>7 DEF StreamCompletes, Resumes, QuotaInv, BeingClosed, Attempts
<1>8. CASE StreamCancelled
  BY <1>8 DEF StreamCancelled, QuotaInv, BeingClosed, Attempts, ghostVars
<1>9. ASSUME NEW kind \in Answers, ResponseUsed(kind)
      PROVE  QuotaInv'
  BY <1>9 DEF ResponseUsed, FinishWith, Resumes, QuotaInv, BeingClosed, ghostVars
<1>10. ASSUME NEW cause, NEW led, NEW message,
              FailRequest(cause, TRUE, led, message),
              Resumes("closing"), attempt.result = "complete",
              UNCHANGED <<cancelling, cancelledBy, attempt, sent>>
       PROVE  QuotaInv'
  BY <1>10, FailureIsTold DEF Resumes, BeingClosed
<1>11. ASSUME NEW pausesQuota \in BOOLEAN, ResponseFailed(pausesQuota)
       PROVE  QuotaInv'
  BY <1>10, <1>11 DEF ResponseFailed
<1>12. ASSUME NEW cause \in Failures, InterpretationFails(cause)
       PROVE  QuotaInv'
  BY <1>10, <1>12 DEF InterpretationFails
<1>13. CASE StreamFailureSettles
  BY <1>13, FailureIsTold DEF StreamFailureSettles, Resumes, BeingClosed
<1>14. CASE CancelledStreamCloses
  BY <1>14, EscapeLeaves DEF CancelledStreamCloses, Resumes, QuotaInv, BeingClosed, ghostVars
<1>15. CASE Cancelled
  BY <1>15, EscapeLeaves DEF Cancelled, QuotaInv, BeingClosed, ghostVars
<1>16. CASE BackoffEnds
  <2>1. pc' \in {"admission", "finished"} /\ pc = "backoff"
    BY <1>16, NextRequestLeaves DEF BackoffEnds, Resumes
  <2>2. QED
    BY <1>16, <2>1 DEF BackoffEnds, QuotaInv, BeingClosed, ghostVars
<1>17. CASE CallerCancels \/ DeadlineExpires
  <2>1. /\ UNCHANGED <<pc, attempt, permit, sent, pauses, told>> /\ cancelling' = TRUE
        /\ \/ cancelledBy' = cancelledBy \union {"caller"}
           \/ cancelledBy' = cancelledBy \union {"deadline"}
    BY <1>17 DEF CallerCancels, DeadlineExpires, ghostVars
  <2>2. QED
    BY <2>1 DEF QuotaInv, BeingClosed
<1>18. CASE Tick \/ UNCHANGED vars
  <2>1. UNCHANGED <<pc, attempt, permit, cancelling, cancelledBy, sent, pauses, told>>
    BY <1>18 DEF Tick, vars, ghostVars
  <2>2. QED
    BY <2>1 DEF QuotaInv, BeingClosed
<1>19. QED
  BY <1>1, <1>2, <1>3, <1>4, <1>5, <1>6, <1>7, <1>8, <1>9, <1>11, <1>12, <1>13, <1>14,
     <1>15, <1>16, <1>17, <1>18 DEF Next, Closed, Finished

(* No permit passes to another request before the quota was told of every  *)
(* failure that pauses it, whichever way the failure came: the loop takes  *)
(* the report inside the admitted block on each of its paths.              *)
THEOREM QuotaIsTold == Spec => []QuotaHearsBeforeThePermitPasses
<1>1. QuotaInv => QuotaHearsBeforeThePermitPasses
  BY DEF QuotaInv, QuotaHearsBeforeThePermitPasses, BeingClosed, Requesting
<1>2. QED
  BY <1>1, QuotaInit, QuotaStep, PTL DEF Spec
-----------------------------------------------------------------------------
(***************************************************************************)
(* The budget moves between the scope and _seconds_left without loss.      *)
(***************************************************************************)
LEMMA BudgetInit == Init => BudgetInv
BY BudgetAssumption, DeadlinesAssumption DEF Init, BudgetInv, Between, Left, NoExpiry

(* The top of the loop suspends a working-time budget; what was left in    *)
(* the scope is now in _seconds_left.                                      *)
LEMMA SuspendingKeepsTheBudget ==
  ASSUME BudgetInv, NEW led, NextRequest(led), pc \notin {"admission", "finished"},
         UNCHANGED <<cancelledBy, worked>>
  PROVE  BudgetInv'
<1>1. CASE FinishWith("retries_exhausted_error", Frozen(led))
  BY <1>1, BudgetAssumption DEF FinishWith, BudgetInv, NoExpiry
<1>2. CASE SuspendUntilAdmitted /\ pc' = "admission"
  <2>1. CASE deadline = "working_time"
    BY <1>2, <2>1, BudgetAssumption
       DEF SuspendUntilAdmitted, BudgetInv, Between, Left, NoExpiry
  <2>2. CASE deadline # "working_time"
    BY <1>2, <2>2 DEF SuspendUntilAdmitted, deadlineVars, BudgetInv, Between, Left
  <2>3. QED
    BY <2>1, <2>2
<1>3. QED
  BY <1>1, <1>2 DEF NextRequest

LEMMA FinishingKeepsTheBudget ==
  ASSUME BudgetInv, pc' = "finished", due' = NoExpiry,
         UNCHANGED <<deadline, secondsLeft, cancelledBy, worked>>
  PROVE  BudgetInv'
BY BudgetAssumption DEF BudgetInv, NoExpiry

LEMMA EscapingKeepsTheBudget ==
  ASSUME BudgetInv, NEW led, Escape(led), UNCHANGED <<cancelledBy, worked>>
  PROVE  BudgetInv'
BY FinishingKeepsTheBudget DEF Escape, FinishWith

(* A step that leaves the deadline alone keeps the budget where it is.     *)
LEMMA BudgetIsKept ==
  ASSUME BudgetInv, pc \in {"opening", "streaming", "closing", "backoff"},
         pc' \in {"streaming", "closing", "backoff"},
         UNCHANGED <<deadlineVars, cancelledBy, worked>>
  PROVE  BudgetInv'
BY DEF BudgetInv, Left, deadlineVars, Between, Requesting

LEMMA FailureKeepsTheBudget ==
  ASSUME BudgetInv, NEW cause, NEW opened, NEW led, NEW message,
         FailRequest(cause, opened, led, message), pc \in Requesting,
         UNCHANGED <<cancelledBy, worked>>
  PROVE  BudgetInv'
<1>1. ASSUME NEW kind, NEW frozen, FinishWith(kind, frozen) PROVE BudgetInv'
  BY <1>1, FinishingKeepsTheBudget DEF FinishWith
<1>2. ASSUME NEW l, NextRequest(l) PROVE BudgetInv'
  BY <1>2, SuspendingKeepsTheBudget DEF Requesting
<1>3. ASSUME pc' = "backoff", UNCHANGED deadlineVars PROVE BudgetInv'
  BY <1>3, BudgetIsKept DEF Requesting
<1>4. QED
  BY <1>1, <1>2, <1>3 DEF FailRequest, SettleFailedRequest, SettleTransient

LEMMA BudgetStep == BudgetInv /\ [Next]_vars => BudgetInv'
<1> SUFFICES ASSUME BudgetInv, [Next]_vars PROVE BudgetInv'
  OBVIOUS
<1>1. CASE Begin
  <2>1. pc = "start" /\ UNCHANGED <<cancelledBy, worked>>
    BY <1>1 DEF Begin
  <2>2. CASE FinishWith("rejected_error", Frozen(ledger))
    BY <2>1, <2>2, FinishingKeepsTheBudget DEF FinishWith
  <2>3. CASE NextRequest(ledger)
    BY <2>1, <2>3, SuspendingKeepsTheBudget
  <2>4. QED
    BY <1>1, <2>2, <2>3 DEF Begin
<1>2. CASE Admitted
  <2>1. pc = "admission" /\ pc' = "opening" /\ UNCHANGED <<cancelledBy, worked>>
    BY <1>2 DEF Admitted, Resumes
  <2>2. CASE deadline = "working_time"
    <3>1. due' = secondsLeft /\ UNCHANGED <<deadline, secondsLeft>>
      BY <1>2, <2>2 DEF Admitted, ResumeOnAdmission
    <3>2. QED
      BY <2>1, <2>2, <3>1 DEF BudgetInv, Left, Requesting, NoExpiry
  <2>3. CASE deadline # "working_time"
    <3>1. UNCHANGED deadlineVars
      BY <1>2, <2>3 DEF Admitted, ResumeOnAdmission
    <3>2. QED
      BY <2>1, <2>3, <3>1 DEF BudgetInv, Left, Requesting, deadlineVars
  <2>4. QED
    BY <2>2, <2>3
<1>3. CASE StreamOpens \/ UsageArrives \/ StreamCompletes \/ StreamCancelled
  BY <1>3, BudgetIsKept
     DEF StreamOpens, UsageArrives, StreamCompletes, StreamCancelled, Resumes
<1>4. ASSUME NEW cause \in Failures, StreamFails(cause)
      PROVE  BudgetInv'
  BY <1>4, BudgetIsKept DEF StreamFails, Resumes
<1>5. ASSUME NEW cause \in Failures, OpenFails(cause) \/ InterpretationFails(cause)
      PROVE  BudgetInv'
  BY <1>5, FailureKeepsTheBudget DEF OpenFails, InterpretationFails, Resumes, Requesting
<1>6. ASSUME NEW pausesQuota \in BOOLEAN, ResponseFailed(pausesQuota)
      PROVE  BudgetInv'
  BY <1>6, FailureKeepsTheBudget DEF ResponseFailed, Resumes, Requesting
<1>7. CASE StreamFailureSettles
  BY <1>7, FailureKeepsTheBudget DEF StreamFailureSettles, Resumes, Requesting
<1>8. ASSUME NEW kind \in Answers, ResponseUsed(kind)
      PROVE  BudgetInv'
  BY <1>8, FinishingKeepsTheBudget DEF ResponseUsed, FinishWith
<1>9. CASE CancelledStreamCloses \/ Cancelled
  BY <1>9, EscapingKeepsTheBudget DEF CancelledStreamCloses, Cancelled
<1>10. CASE BackoffEnds
  BY <1>10, SuspendingKeepsTheBudget DEF BackoffEnds, Resumes
<1>11. CASE CallerCancels
  BY <1>11 DEF CallerCancels, BudgetInv, Left, deadlineVars
<1>12. CASE DeadlineExpires
  <2>1. due = 0 /\ pc \in Awaits /\ UNCHANGED <<deadlineVars, pc, worked>>
    BY <1>12 DEF DeadlineExpires
  <2>2. Left = 0 /\ deadline \in {"wall_clock", "working_time"}
    BY <2>1, DeadlinesAssumption DEF BudgetInv, Left, NoExpiry, Awaits
  <2>3. worked = Budget
    BY <2>1, <2>2, BudgetAssumption DEF BudgetInv, Awaits
  <2>4. QED
    BY <2>1, <2>3 DEF BudgetInv, Left, deadlineVars
<1>13. CASE Tick
  <2>1. /\ pc \in Awaits /\ due # 0 /\ cancelledBy = {}
        /\ due' = IF due > 0 THEN due - 1 ELSE due
        /\ worked' = IF Counts /\ worked <= Budget THEN worked + 1 ELSE worked
        /\ UNCHANGED <<deadline, secondsLeft, pc, cancelledBy>>
    BY <1>13 DEF Tick
  <2>2. CASE Counts
    <3>1. Left = due /\ due > 0 /\ worked + due = Budget
      BY <2>1, <2>2, BudgetAssumption DEF Counts, BudgetInv, Left, Awaits, NoExpiry
    <3>2. due' = due - 1 /\ worked' = worked + 1
      BY <2>1, <2>2, <3>1, BudgetAssumption DEF BudgetInv, Awaits
    <3>3. Left' = due'
      BY <2>1, <2>2 DEF Counts, Left, Awaits
    <3>4. QED
      BY <2>1, <2>2, <3>1, <3>2, <3>3, BudgetAssumption
         DEF BudgetInv, Counts, NoExpiry, Awaits
  <2>3. CASE ~Counts
    <3>1. due = NoExpiry
      BY <2>1, <2>3, DeadlinesAssumption DEF Counts, BudgetInv, Awaits
    <3>2. due' = due /\ worked' = worked
      BY <2>1, <2>3, <3>1 DEF NoExpiry
    <3>3. QED
      BY <2>1, <3>2 DEF BudgetInv, Left
  <2>4. QED
    BY <2>2, <2>3
<1>14. CASE UNCHANGED vars
  BY <1>14 DEF vars, BudgetInv, Left
<1>15. QED
  BY <1>1, <1>2, <1>3, <1>4, <1>5, <1>6, <1>7, <1>8, <1>9, <1>10, <1>11, <1>12, <1>13,
     <1>14 DEF Next, Closed, Finished

(* A deadline expires exactly when its budget is used up: no retry, and no *)
(* number of waits for admission, gives an input time back or costs it     *)
(* time that it did not use.                                               *)
THEOREM BudgetIsSpentExactly == Spec => []BudgetIsExact
<1>1. BudgetInv => BudgetIsExact
  BY BudgetAssumption DEF BudgetInv, BudgetIsExact
<1>2. QED
  BY <1>1, BudgetInit, BudgetStep, PTL DEF Spec
-----------------------------------------------------------------------------
(***************************************************************************)
(* The endings.  An input ends with its failed requests alone, or with one *)
(* more that was answered or cut off, or with an error that came before    *)
(* anything of its last request.                                           *)
(***************************************************************************)
LEMMA RowsOfAnEnding ==
  ASSUME NEW finish
  PROVE  /\ DOMAIN RequestRows(finish) = DOMAIN finish.records
         /\ \A i \in DOMAIN finish.records :
              /\ RequestRows(finish)[i].usageRaw = finish.providerData[i]
              /\ RequestRows(finish)[i].billing = finish.records[i].billing
              /\ RequestRows(finish)[i].kept
                   <=> finish.kind = "generation" /\ i = Len(finish.records)
BY Zenon DEF RequestRows

(* The row of an ending that is kept is the one that holds the answer, if  *)
(* that can be told from the records.                                      *)
Answered(finish, result, n, i) ==
  /\ finish.kind \notin {"unusable_error", "provider_failed_terminally_error"}
  /\ result = "complete" /\ i = n
  /\ finish.records[i].message /\ ~finish.records[i].error

RecordsTell(finish, result, n) ==
  \A i \in DOMAIN finish.records :
    /\ finish.providerData[i] = finish.records[i].billing
    /\ finish.kind = "generation" /\ i = Len(finish.records)
         <=> Answered(finish, result, n, i)

RowsTell(finish, result, n) ==
  LET rows == RequestRows(finish)
  IN /\ \A i \in DOMAIN rows : rows[i].usageRaw = rows[i].billing
     /\ \A i \in DOMAIN rows : rows[i].kept <=> Answered(finish, result, n, i)

LEMMA RowsTellWhatRecordsTell ==
  ASSUME NEW finish, NEW result, NEW n, RecordsTell(finish, result, n)
  PROVE  RowsTell(finish, result, n)
BY RowsOfAnEnding, Zenon DEF RecordsTell, RowsTell

LEMMA NoBillingIsBilling == NoBilling \in Billings
BY RequestsAssumption DEF NoBilling, Billings

Kept == UNCHANGED <<attempt, sent, usage>> /\ pauses' \union told' \subseteq 1..sent

LEMMA EndsWithFailures ==
  ASSUME HistoryInv, Kept, NEW led, NEW kind, FinishWith(kind, led),
         Settled(led, sent, usage, Billings),
         \/ kind = "retries_exhausted_error" /\ sent >= 1
         \/ kind = "rejected_error" /\ sent = 0
         \/ kind = "timed_out_error"
  PROVE  HistoryInv'
<1>1. /\ outcome'.kind = kind /\ outcome'.records = led.records
      /\ outcome'.providerData = led.providerData
      /\ pc' = "finished" /\ ledger' = led
  BY DEF FinishWith, Ending
<1>2. led.records \in Seq(RequestRecords(Billings)) /\ sent \in Nat
      /\ led.providerData \in Seq(Billings)
  BY RequestsAssumption DEF Settled, Ledgers, HistoryInv
<1>3. Accepted(kind, led.records)
  BY <1>2, FailuresShape, AcceptedEndings
<1>4. OutcomeRecordIsAccepted'
  BY <1>1, <1>3 DEF OutcomeRecordIsAccepted, Settled
<1>5. EveryRequestIsAccounted'
  BY <1>1 DEF EveryRequestIsAccounted, Settled, Kept
<1>6. UsageIsRetained'
  BY <1>1, <1>2 DEF UsageIsRetained, Settled, Kept, BillingOf, Usage
<1>7. KeptRowIsTheAnswer'
  <2>1. RecordsTell(outcome', attempt'.result, sent')
    BY <1>1, <1>2 DEF Settled, RecordsTell, Answered
  <2>2. RowsTell(outcome', attempt'.result, sent')
    BY <2>1, RowsTellWhatRecordsTell
  <2>3. QED
    BY <2>2, Zenon DEF KeptRowIsTheAnswer, RowsTell, Answered
<1>8. QED
  BY <1>1, <1>2, <1>4, <1>5, <1>6, <1>7
     DEF HistoryInv, Kept, Settled, Between, Requesting

LEMMA EndsWithARequest ==
  ASSUME HistoryInv, Kept, sent >= 1, NEW led, Settled(led, sent - 1, usage, Billings),
         NEW kind, NEW frozen, FinishWith(kind, frozen),
         NEW how \in {"settled", "cut_off"}, NEW message \in BOOLEAN,
         NEW billing \in Billings,
         Extends(frozen, led, Record(how, FALSE, message, billing), Billings),
         \/ billing = Usage(sent, usage)
         \/ kind = "timed_out_error" /\ attempt.result = "complete",
         kind = "unknown_exception_error" => attempt.opened \/ how = "cut_off",
         message => how = "settled" /\ kind \in Answers
                    /\ attempt.result = "complete" /\ billing = sent,
         kind \in {"generation", "unusable_error"} => message,
         how = "settled" => kind \in Answers \union {"auth_error", "rejected_error",
           "provider_failed_terminally_error", "unknown_exception_error"},
         how = "cut_off" => kind \in {"timed_out_error", "unknown_exception_error"}
  PROVE  HistoryInv'
<1> DEFINE recorded == frozen.records
<1>1. /\ outcome'.kind = kind /\ outcome'.records = recorded
      /\ outcome'.providerData = frozen.providerData
      /\ pc' = "finished" /\ ledger' = frozen
  BY DEF FinishWith, Ending
<1>2. /\ recorded \in Seq(RequestRecords(Billings)) /\ sent \in Nat \ {0}
      /\ frozen.providerData \in Seq(Billings) /\ frozen \in Ledgers(Billings)
  BY RequestsAssumption DEF Extends, Ledgers, HistoryInv
<1>3. /\ Len(recorded) = sent /\ Len(frozen.providerData) = sent
      /\ recorded[sent] = Record(how, FALSE, message, billing)
      /\ frozen.providerData[sent] = billing
      /\ \A i \in 1..(sent - 1) :
           /\ recorded[i].kind = "settled" /\ recorded[i].error
           /\ recorded[i].billing = Usage(i, usage)
           /\ frozen.providerData[i] = Usage(i, usage)
      /\ recorded # << >> /\ ~Final(recorded).error
      /\ CutOffOnlyLast(recorded)
      /\ message /\ how = "settled" /\ billing # NoBilling => FinishedMessage(recorded)
      /\ ~message /\ how = "settled" => FinalTerminalResponse(recorded)
      /\ ~message => AbandonedShape(recorded)
  <2>1. /\ Settled(led, sent - 1, usage, Billings)
        /\ Extends(frozen, led, Record(how, FALSE, message, billing), Billings)
        /\ sent \in Nat \ {0} /\ how \in {"settled", "cut_off"} /\ message \in BOOLEAN
    BY <1>2
  <2>2. EndsIn(frozen, sent, how, message, billing, usage)
    BY ONLY <2>1, LastShape DEF Record
  <2>3. QED
    BY <2>2 DEF EndsIn
<1>4. Accepted(kind, recorded)
  <2>1. CASE message
    BY <1>2, <1>3, <2>1, AcceptedEndings DEF Answers, NoBilling
  <2>2. CASE ~message /\ how = "settled"
    BY <1>3, <2>2, AcceptedEndings DEF Answers
  <2>3. CASE ~message /\ how = "cut_off"
    BY <1>3, <2>3, AcceptedEndings
  <2>4. QED
    BY <2>1, <2>2, <2>3
<1>5. OutcomeRecordIsAccepted'
  BY <1>1, <1>3, <1>4 DEF OutcomeRecordIsAccepted
<1>6. EveryRequestIsAccounted'
  BY <1>1, <1>3 DEF EveryRequestIsAccounted, Kept
<1>7. UsageIsRetained'
  <2>1. ASSUME NEW i \in 1..sent
        PROVE  /\ \/ i = sent /\ attempt.result = "complete" /\ kind = "timed_out_error"
                  \/ recorded[i].billing = IF i \in usage THEN i ELSE NoBilling
               /\ frozen.providerData[i] = recorded[i].billing
    <3>1. CASE i = sent
      BY <1>3, <3>1 DEF Record, Usage
    <3>2. CASE i # sent
      BY <1>2, <1>3, <3>2 DEF Usage
    <3>3. QED
      BY <3>1, <3>2
  <2>2. QED
    BY <1>1, <1>2, <1>3, <2>1
       DEF UsageIsRetained, ResponseDroppedByClose, BillingOf, Kept
<1>8. KeptRowIsTheAnswer'
  <2>1. ASSUME NEW i \in 1..sent
        PROVE  /\ frozen.providerData[i] = recorded[i].billing
               /\ kind = "generation" /\ i = sent
                    <=> Answered(outcome', attempt'.result, sent, i)
    <3>1. CASE i = sent
      BY <1>1, <1>3, <3>1 DEF Record, Answers, Answered, Kept
    <3>2. CASE i # sent
      BY <1>2, <1>3, <3>2 DEF Answered
    <3>3. QED
      BY <3>1, <3>2
  <2>2. RecordsTell(outcome', attempt'.result, sent')
    BY <1>1, <1>2, <1>3, <2>1 DEF RecordsTell, Kept
  <2>3. RowsTell(outcome', attempt'.result, sent')
    BY <2>2, RowsTellWhatRecordsTell
  <2>4. QED
    BY <2>3, Zenon DEF KeptRowIsTheAnswer, RowsTell, Answered
<1>9. QED
  BY <1>1, <1>2, <1>5, <1>6, <1>7, <1>8 DEF HistoryInv, Kept, Between, Requesting

LEMMA EndsBeforeTheRequest ==
  ASSUME HistoryInv, Kept, sent >= 1, NEW led, Settled(led, sent - 1, usage, Billings),
         FinishWith("unknown_exception_error", led), ~attempt.opened
  PROVE  HistoryInv'
<1>1. /\ outcome'.kind = "unknown_exception_error" /\ outcome'.records = led.records
      /\ outcome'.providerData = led.providerData
      /\ pc' = "finished" /\ ledger' = led
  BY DEF FinishWith, Ending
<1>2. led.records \in Seq(RequestRecords(Billings)) /\ sent \in Nat
      /\ led.providerData \in Seq(Billings)
  BY RequestsAssumption DEF Settled, Ledgers, HistoryInv
<1>3. OutcomeRecordIsAccepted'
  <2>1. CutOffOnlyLast(led.records)
    BY <1>2, FailuresShape
  <2>2. QED
    BY <1>1, <2>1, AcceptedEndings DEF OutcomeRecordIsAccepted, Settled
<1>4. led.records # << >> => Final(led.records).error
  BY <1>2, FailuresShape
<1>5. EveryRequestIsAccounted'
  BY <1>1, <1>4 DEF EveryRequestIsAccounted, Settled, Kept
<1>6. UsageIsRetained'
  BY <1>1, <1>2 DEF UsageIsRetained, Settled, Kept, BillingOf, Usage
<1>7. KeptRowIsTheAnswer'
  <2>1. RecordsTell(outcome', attempt'.result, sent')
    BY <1>1, <1>2 DEF Settled, RecordsTell, Answered
  <2>2. RowsTell(outcome', attempt'.result, sent')
    BY <2>1, RowsTellWhatRecordsTell
  <2>3. QED
    BY <2>2, Zenon DEF KeptRowIsTheAnswer, RowsTell, Answered
<1>8. QED
  BY <1>1, <1>2, <1>3, <1>5, <1>6, <1>7
     DEF HistoryInv, Kept, Settled, Between, Requesting
-----------------------------------------------------------------------------
LEMMA HistoryInit == Init => HistoryInv
<1> SUFFICES ASSUME Init PROVE HistoryInv
  OBVIOUS
<1>1. Settled(NewLedger, 0, {}, Billings) /\ AtRest(NewLedger)
  <2>1. NoBilling \in Billings
    BY RequestsAssumption DEF NoBilling, Billings
  <2>2. NewLedger \in Ledgers(Billings)
    BY <2>1 DEF NewLedger, Ledgers
  <2>3. QED
    BY <2>2 DEF NewLedger, Settled, AtRest
<1>2. attempt \in Attempts
  BY DEF Init, NewAttempt, Attempts, NoFailure
<1>3. QED
  BY <1>1, <1>2, RequestsAssumption DEF Init, HistoryInv, Between, Requesting

(* After settled failures alone the loop goes on or gives up.              *)
LEMMA LoopGoesOn ==
  ASSUME HistoryInv, Kept, NEW led, Settled(led, sent, usage, Billings), AtRest(led),
         pc # "finished", NextRequest(led)
  PROVE  HistoryInv'
<1>1. Len(led.records) = sent
  BY DEF Settled
<1>2. CASE sent < MaxRequests
  <2>1. pc' = "admission" /\ ledger' = led /\ outcome' = outcome
    BY <1>1, <1>2, RequestsAssumption DEF NextRequest, HistoryInv
  <2>2. QED
    BY <1>2, <2>1 DEF HistoryInv, Kept, Between, Requesting
<1>3. CASE sent >= MaxRequests
  <2>1. FinishWith("retries_exhausted_error", led)
    BY <1>1, <1>3, RequestsAssumption, FrozenAtRest DEF NextRequest, HistoryInv, AtRest
  <2>2. QED
    BY <1>3, <2>1, RequestsAssumption, EndsWithFailures DEF HistoryInv
<1>4. QED
  BY <1>2, <1>3, RequestsAssumption DEF HistoryInv

(* A request that failed while it is in flight, with the ledger that its   *)
(* failure is settled in: the response staged, or its billing noted.       *)
FailingWith(led, message) ==
  /\ pc \in Requesting /\ sent >= 1
  /\ Settled(led, sent - 1, usage, Billings) /\ led.inFlight
  /\ KnownBilling(led) = Usage(sent, usage)
  /\ message \in BOOLEAN
  /\ message => attempt.result = "complete" /\ KnownBilling(led) = sent

LEMMA FailureIsCutOff ==
  ASSUME HistoryInv, Kept, NEW led, FailingWith(led, FALSE),
         attempt.opened \/ led.staged = NoBilling,
         FinishWith("unknown_exception_error", FrozenWithCutOff(led))
  PROVE  HistoryInv'
<1>1. /\ led \in Ledgers(Billings) /\ Usage(sent, usage) \in Billings
      /\ Settled(led, sent - 1, usage, Billings) /\ sent >= 1
  BY RequestsAssumption DEF FailingWith, Settled, Usage, Billings, HistoryInv, NoBilling
<1>2. ASSUME NEW kind, NEW frozen, FinishWith(kind, frozen), kind = "unknown_exception_error",
             NEW how \in {"settled", "cut_off"}, how = "settled" => attempt.opened,
             Extends(frozen, led, Record(how, FALSE, FALSE, Usage(sent, usage)), Billings)
      PROVE  HistoryInv'
  <2>1. /\ kind \in {"timed_out_error", "unknown_exception_error"}
        /\ kind \in Answers \union {"auth_error", "rejected_error",
             "provider_failed_terminally_error", "unknown_exception_error"}
    BY <1>2
  <2>2. QED
    BY <1>1, <1>2, <2>1, EndsWithARequest DEF FailingWith
<1>3. CASE led.staged = NoBilling
  <2>1. /\ FrozenWithCutOff(led) = WithRecord(led, "cut_off", FALSE, FALSE, led.noted)
        /\ led.noted = Usage(sent, usage)
    BY <1>3 DEF FrozenWithCutOff, FailingWith, KnownBilling
  <2>2. Extends(WithRecord(led, "cut_off", FALSE, FALSE, Usage(sent, usage)), led,
                Record("cut_off", FALSE, FALSE, Usage(sent, usage)), Billings)
    BY <1>1, RecordIsAdded
  <2>3. FrozenWithCutOff(led) = WithRecord(led, "cut_off", FALSE, FALSE, Usage(sent, usage))
    BY <2>1
  <2>4. QED
    BY <1>2, <2>2, <2>3
<1>4. CASE led.staged # NoBilling
  <2>1. FrozenWithCutOff(led) = RecordRequest(led, FALSE, FALSE)
    BY <1>4 DEF FrozenWithCutOff, Frozen
  <2>2. Extends(FrozenWithCutOff(led), led,
                Record("settled", FALSE, FALSE, Usage(sent, usage)), Billings)
    BY <1>1, <2>1, RequestIsRecorded, NoBillingIsBilling DEF FailingWith
  <2>3. QED
    BY <1>2, <1>4, <2>2
<1>5. QED
  BY <1>3, <1>4

LEMMA FailureIsTerminal ==
  ASSUME HistoryInv, Kept, NEW led, FailingWith(led, FALSE), NEW cause,
         cause.kind \in AnsweredKinds \union {"unknown_exception"},
         NEW opened \in BOOLEAN, opened = attempt.opened,
         opened \/ led.staged = NoBilling,
         FinishWith(TerminalKind(cause.kind),
                    Frozen(SettledTerminally(cause, opened, led)))
  PROVE  HistoryInv'
<1> DEFINE kind == TerminalKind(cause.kind)
<1>0. kind \in {"auth_error", "rejected_error", "provider_failed_terminally_error",
               "unknown_exception_error"}
      /\ (kind = "unknown_exception_error" <=> cause.kind = "unknown_exception")
  BY DEF TerminalKind, AnsweredKinds
<1>1. led \in Ledgers(Billings) /\ Usage(sent, usage) \in Billings
  BY RequestsAssumption DEF FailingWith, Settled, Usage, Billings, HistoryInv, NoBilling
<1>2. CASE cause.kind \in AnsweredKinds \/ opened
  <2>1. Frozen(SettledTerminally(cause, opened, led)) = RecordRequest(led, FALSE, FALSE)
    BY <1>1, <1>2, RequestIsRecorded, NoBillingIsBilling, FrozenAtRest
       DEF SettledTerminally, AtRest
  <2>2. Extends(RecordRequest(led, FALSE, FALSE), led,
                Record("settled", FALSE, FALSE, Usage(sent, usage)), Billings)
    BY <1>1, RequestIsRecorded, NoBillingIsBilling DEF FailingWith
  <2>3. FinishWith(kind, RecordRequest(led, FALSE, FALSE))
    BY <2>1
  <2>4. kind = "unknown_exception_error" => attempt.opened
    BY <1>0, <1>2 DEF AnsweredKinds
  <2>5. QED
    BY <1>0, <1>1, <2>2, <2>3, <2>4, EndsWithARequest DEF FailingWith
<1>3. CASE cause.kind \notin AnsweredKinds /\ ~opened
  <2>1. Frozen(SettledTerminally(cause, opened, led)) = led
    BY <1>3, FrozenAtRest DEF SettledTerminally
  <2>2. kind = "unknown_exception_error"
    BY <1>0, <1>3
  <2>3. QED
    BY <1>3, <2>1, <2>2, EndsBeforeTheRequest DEF FailingWith
<1>4. QED
  BY <1>2, <1>3

LEMMA FailureIsTransient ==
  ASSUME HistoryInv, Kept, NEW led, NEW message, FailingWith(led, message), NEW cause,
         SettleTransient(cause, RecordRequest(led, TRUE, message))
  PROVE  HistoryInv'
<1> DEFINE new == RecordRequest(led, TRUE, message)
<1>1. /\ led \in Ledgers(Billings) /\ message \in BOOLEAN
      /\ sent \in Nat \ {0} /\ sent <= MaxRequests
  BY RequestsAssumption DEF FailingWith, Settled, HistoryInv
<1>2. /\ Extends(new, led, Record("settled", TRUE, message, Usage(sent, usage)), Billings)
      /\ AtRest(new)
  BY <1>1, RequestIsRecorded, NoBillingIsBilling DEF FailingWith
<1> HIDE DEF new
<1>3. Settled(new, sent, usage, Billings)
  BY <1>1, <1>2, FailureIsAdded DEF FailingWith
<1>4. CASE NextRequest(new)
  BY <1>2, <1>3, <1>4, LoopGoesOn DEF FailingWith, Requesting
<1>5. CASE Len(new.records) < MaxRequests /\ pc' = "backoff" /\ ledger' = new
           /\ UNCHANGED outcome
  <2>1. sent < MaxRequests
    BY <1>3, <1>5 DEF Settled
  <2>2. QED
    BY <1>2, <1>3, <1>5, <2>1 DEF HistoryInv, Kept, Between, Requesting, FailingWith
<1>6. QED
  BY <1>4, <1>5 DEF SettleTransient, new
(* The ways of a failure together.                                         *)
LEMMA FailureSettles ==
  ASSUME HistoryInv, NEW cause \in Failures, NEW opened \in BOOLEAN, NEW led,
         NEW message, FailRequest(cause, opened, led, message),
         FailingWith(led, message), UNCHANGED <<attempt, sent, usage>>,
         opened = attempt.opened, opened \/ led.staged = NoBilling,
         message => cause.kind = "transient"
  PROVE  HistoryInv'
<1>1. Kept
  BY RequestsAssumption DEF FailRequest, TellQuota, Kept, HistoryInv, FailingWith
<1>2. cause.kind # "transient" => FailingWith(led, FALSE)
  BY DEF FailingWith
<1>3. CASE cause.kind = "defect" /\ FinishWith("unknown_exception_error", FrozenWithCutOff(led))
  BY <1>1, <1>2, <1>3, FailureIsCutOff
<1>4. CASE /\ cause.kind \in AnsweredKinds \union {"unknown_exception"}
           /\ FinishWith(TerminalKind(cause.kind),
                         Frozen(SettledTerminally(cause, opened, led)))
  BY <1>1, <1>2, <1>4, FailureIsTerminal DEF AnsweredKinds
<1>5. CASE cause.kind = "transient" /\ SettleTransient(cause, RecordRequest(led, TRUE, message))
  BY <1>1, <1>5, FailureIsTransient
<1>6. QED
  BY <1>3, <1>4, <1>5 DEF FailRequest, SettleFailedRequest

LEMMA StagedResponse ==
  ASSUME HistoryInv, pc = "closing", attempt.result = "complete", NEW message \in BOOLEAN
  PROVE  /\ FailingWith(StageResponse(ledger, sent), message) /\ attempt.opened
         /\ StageResponse(ledger, sent).staged = sent /\ sent # NoBilling
<1> DEFINE led == StageResponse(ledger, sent)
<1>1. Settled(ledger, sent - 1, usage, Billings) /\ InFlight /\ sent >= 1 /\ sent \in 1..MaxRequests
  BY RequestsAssumption DEF HistoryInv, Requesting
<1>2. ledger \in Ledgers(Billings)
  BY <1>1 DEF Settled
<1>3. /\ led.records = ledger.records /\ led.providerData = ledger.providerData
      /\ led.staged = sent /\ led.inFlight = ledger.inFlight /\ led \in Ledgers(Billings)
  BY <1>1, <1>2 DEF StageResponse, Ledgers, Billings
<1>4. sent \in usage /\ attempt.opened /\ led.inFlight
  BY <1>1, <1>3 DEF InFlight
<1>5. Settled(led, sent - 1, usage, Billings)
  BY <1>1, <1>3 DEF Settled
<1>6. KnownBilling(led) = sent /\ sent # NoBilling /\ Usage(sent, usage) = sent
  BY <1>1, <1>3, <1>4 DEF KnownBilling, NoBilling, Usage
<1> HIDE DEF led
<1>7. FailingWith(led, message)
  BY <1>1, <1>4, <1>5, <1>6 DEF FailingWith, Requesting
<1>8. QED
  BY <1>3, <1>4, <1>6, <1>7 DEF led

(* A cancellation that leaves the loop: the deadline's becomes an error,   *)
(* with the request in flight cut off; a caller's has no outcome.          *)
LEMMA EscapeTells ==
  ASSUME HistoryInv, Kept, Escape(ledger),
         pc \in {"admission", "backoff", "opening", "closing"}
  PROVE  HistoryInv'
<1>1. CASE outcome' = [NoEnding EXCEPT !.kind = "cancelled"] /\ pc' = "finished" /\ ledger' = ledger
  <2>1. outcome'.kind = "cancelled" /\ outcome'.records = << >>
    BY <1>1 DEF NoEnding
  <2>2. ~Recorded'
    BY <2>1 DEF Recorded
  <2>3. ledger \in Ledgers(Billings)
    BY DEF HistoryInv, Settled, Between, Requesting
  <2>4. << >> \in Seq(RequestRecords(Billings))
    OBVIOUS
  <2>5. QED
    BY <1>1, <2>1, <2>2, <2>3, <2>4
       DEF HistoryInv, Kept, Between, Requesting, OutcomeRecordIsAccepted,
           EveryRequestIsAccounted, UsageIsRetained, KeptRowIsTheAnswer
<1>2. CASE FinishWith("timed_out_error", FrozenWithCutOff(ledger)) /\ pc \in Between
  <2>1. FrozenWithCutOff(ledger) = ledger /\ Settled(ledger, sent, usage, Billings)
    BY <1>2, FrozenAtRest DEF FrozenWithCutOff, HistoryInv, AtRest
  <2>2. QED
    BY <1>2, <2>1, EndsWithFailures
<1>3. CASE FinishWith("timed_out_error", FrozenWithCutOff(ledger)) /\ pc \in Requesting
  <2>1. Settled(ledger, sent - 1, usage, Billings) /\ InFlight /\ sent >= 1
    BY <1>3 DEF HistoryInv
  <2>2. FrozenWithCutOff(ledger) = WithRecord(ledger, "cut_off", FALSE, FALSE, ledger.noted)
    BY <2>1 DEF FrozenWithCutOff, InFlight
  <2>3. ledger \in Ledgers(Billings) /\ ledger.noted \in Billings
    BY <2>1 DEF Settled, Ledgers
  <2>4. Extends(FrozenWithCutOff(ledger), ledger,
                Record("cut_off", FALSE, FALSE, ledger.noted), Billings)
    BY <2>2, <2>3, RecordIsAdded
  <2>5. \/ ledger.noted = Usage(sent, usage)
        \/ attempt.result = "complete"
    BY <1>3, <2>1 DEF InFlight, Usage, Requesting
  <2>6. ASSUME NEW kind, NEW frozen, FinishWith(kind, frozen), kind = "timed_out_error",
               Extends(frozen, ledger, Record("cut_off", FALSE, FALSE, ledger.noted), Billings)
        PROVE  HistoryInv'
    <3>1. kind \in {"timed_out_error", "unknown_exception_error"}
          /\ kind \notin {"generation", "unusable_error", "unknown_exception_error"}
      BY <2>6
    <3>2. QED
      BY <2>1, <2>3, <2>5, <2>6, <3>1, EndsWithARequest
  <2>7. QED
    BY <1>3, <2>4, <2>6
<1>4. QED
  BY <1>1, <1>2, <1>3 DEF Escape, Between, Requesting
-----------------------------------------------------------------------------
LEMMA HistoryStep == HistoryInv /\ [Next]_vars => HistoryInv'
<1> SUFFICES ASSUME HistoryInv, [Next]_vars PROVE HistoryInv'
  OBVIOUS
<1>0. \A i : i \in 1..(sent - 1) => i # sent
  BY RequestsAssumption DEF HistoryInv
<1>1. CASE Begin
  <2>1. Kept /\ pc = "start"
    BY <1>1 DEF Begin, Kept, ghostVars, HistoryInv
  <2>2. Settled(ledger, sent, usage, Billings) /\ AtRest(ledger) /\ sent = 0
    BY <2>1 DEF HistoryInv, Between
  <2>3. CASE FinishWith("rejected_error", Frozen(ledger))
    BY <2>1, <2>2, <2>3, FrozenAtRest, EndsWithFailures DEF AtRest
  <2>4. CASE NextRequest(ledger)
    BY <2>1, <2>2, <2>4, LoopGoesOn
  <2>5. QED
    BY <1>1, <2>3, <2>4 DEF Begin
<1>2. CASE Admitted
  <2>1. /\ pc = "admission" /\ pc' = "opening" /\ attempt' = NewAttempt /\ sent' = sent + 1
        /\ ledger' = StartRequest(ledger) /\ UNCHANGED <<outcome, usage, pauses, told>>
    BY <1>2 DEF Admitted, Resumes
  <2>2. /\ Settled(ledger, sent, usage, Billings) /\ AtRest(ledger) /\ sent < MaxRequests
        /\ sent \in 0..MaxRequests /\ outcome = NoEnding
    BY <2>1 DEF HistoryInv, Between
  <2>3. /\ ledger'.records = ledger.records /\ ledger'.providerData = ledger.providerData
        /\ ledger' \in Ledgers(Billings) /\ ledger'.staged = NoBilling
        /\ ledger'.inFlight /\ ledger'.noted = NoBilling
    BY <2>1, <2>2 DEF StartRequest, Settled, Ledgers, AtRest
  <2>4. Settled(ledger', sent' - 1, usage', Billings)
    BY <2>1, <2>2, <2>3 DEF Settled
  <2>5. attempt' \in Attempts /\ ~attempt'.opened
    BY <2>1 DEF NewAttempt, Attempts, NoFailure
  <2>6. sent' \notin usage'
    BY <2>1, <2>2 DEF HistoryInv
  <2>7. InFlight'
    BY <2>1, <2>3, <2>5, <2>6 DEF InFlight
  <2>8. QED
    BY <2>1, <2>2, <2>4, <2>5, <2>7, RequestsAssumption DEF HistoryInv, Between, Requesting
<1>3. ASSUME pc \in {"opening", "streaming"}, pc' \in {"streaming", "closing"},
             UNCHANGED <<outcome, sent, told>>, attempt' \in Attempts,
             usage' \in {usage, usage \union {sent}}, pauses' \subseteq pauses \union {sent},
             ledger' \in Ledgers(Billings), ledger'.records = ledger.records,
             ledger'.providerData = ledger.providerData, InFlight'
      PROVE  HistoryInv'
  <2>1. Settled(ledger', sent' - 1, usage', Billings)
    BY <1>0, <1>3 DEF HistoryInv, Requesting, Settled, Usage
  <2>2. QED
    BY <1>3, <2>1, RequestsAssumption DEF HistoryInv, Between, Requesting
<1>4. ASSUME pc \in {"opening", "streaming"}
      PROVE  ledger \in Ledgers(Billings) /\ InFlight /\ Usage(sent, usage) \in Billings
  BY <1>4, RequestsAssumption
     DEF HistoryInv, Requesting, Settled, Usage, Billings, NoBilling
<1>5. CASE StreamOpens
  <2>1. InFlight'
    BY <1>4, <1>5 DEF StreamOpens, Resumes, InFlight, HistoryInv, Attempts, ghostVars
  <2>2. QED
    BY <1>3, <1>4, <1>5, <2>1 DEF StreamOpens, Resumes, HistoryInv, Attempts, ghostVars
<1>6. CASE UsageArrives
  <2>1. InFlight'
    BY <1>4, <1>6 DEF UsageArrives, InFlight
  <2>2. QED
    BY <1>3, <1>4, <1>6, <2>1 DEF UsageArrives, HistoryInv
<1>7. CASE StreamCompletes
  <2>1. InFlight'
    BY <1>4, <1>7 DEF StreamCompletes, Resumes, InFlight, HistoryInv, Attempts
  <2>2. QED
    BY <1>3, <1>4, <1>7, <2>1 DEF StreamCompletes, Resumes, HistoryInv, Attempts
<1>8. ASSUME pc = "streaming", pc' = "closing", UNCHANGED <<outcome, sent, usage, told>>,
             pauses' \subseteq pauses \union {sent}, attempt' \in Attempts,
             attempt'.opened = attempt.opened,
             \/ attempt'.result = "failed" /\ attempt'.failure \in Failures
             \/ attempt'.result = "cancelled",
             ledger' = NoteBilling(ledger, BillingInFlight)
      PROVE  HistoryInv'
  <2>1. BillingInFlight = Usage(sent, usage)
    BY DEF BillingInFlight, Usage
  <2>2. /\ ledger'.records = ledger.records /\ ledger'.providerData = ledger.providerData
        /\ ledger' \in Ledgers(Billings) /\ ledger'.noted = Usage(sent, usage)
        /\ ledger'.staged = ledger.staged /\ ledger'.inFlight = ledger.inFlight
    BY <1>4, <1>8, <2>1 DEF NoteBilling, Ledgers
  <2>3. InFlight'
    BY <1>4, <1>8, <2>2 DEF InFlight
  <2>4. QED
    BY <1>3, <1>8, <2>2, <2>3
<1>9. ASSUME NEW cause \in Failures, StreamFails(cause)
      PROVE  HistoryInv'
  BY <1>8, <1>9 DEF StreamFails, Resumes, HistoryInv, Attempts
<1>10. CASE StreamCancelled
  BY <1>8, <1>10 DEF StreamCancelled, HistoryInv, Attempts, ghostVars
<1>11. ASSUME pc \in {"opening", "closing"}
       PROVE  sent >= 1 /\ Settled(ledger, sent - 1, usage, Billings) /\ InFlight
  BY <1>11 DEF HistoryInv, Requesting
<1>12. ASSUME NEW cause \in Failures, OpenFails(cause)
       PROVE  HistoryInv'
  <2>1. pc = "opening"
    BY <1>12 DEF OpenFails, Resumes
  <2>2. FailingWith(ledger, FALSE) /\ ~attempt.opened /\ ledger.staged = NoBilling
    BY <1>11, <2>1 DEF FailingWith, InFlight, KnownBilling, Usage, Requesting
  <2>3. QED
    BY <1>12, <2>2, FailureSettles DEF OpenFails, HistoryInv, Attempts
<1>13. ASSUME NEW kind \in Answers, ResponseUsed(kind)
       PROVE  HistoryInv'
  <2> DEFINE led == StageResponse(ledger, sent)
             frozen == Frozen(RecordRequest(led, FALSE, TRUE))
  <2>1. Kept /\ pc = "closing" /\ attempt.result = "complete" /\ FinishWith(kind, frozen)
    BY <1>13 DEF ResponseUsed, Resumes, Kept, ghostVars, HistoryInv
  <2>2. FailingWith(led, TRUE) /\ sent \in Billings
    BY <2>1, StagedResponse, RequestsAssumption DEF HistoryInv, Billings
  <2>3. /\ led \in Ledgers(Billings) /\ Settled(led, sent - 1, usage, Billings) /\ sent >= 1
        /\ KnownBilling(led) = sent /\ Usage(sent, usage) = sent
    BY <2>2 DEF FailingWith, Settled
  <2> HIDE DEF led
  <2>4. frozen = RecordRequest(led, FALSE, TRUE)
    BY <2>3, RequestIsRecorded, NoBillingIsBilling, FrozenAtRest DEF AtRest
  <2>5. Extends(frozen, led, Record("settled", FALSE, TRUE, sent), Billings)
    BY <2>3, <2>4, RequestIsRecorded, NoBillingIsBilling
  <2> HIDE DEF frozen
  <2>6. QED
    BY <2>1, <2>2, <2>3, <2>5, EndsWithARequest DEF Answers
<1>14. ASSUME NEW pausesQuota \in BOOLEAN, ResponseFailed(pausesQuota)
       PROVE  HistoryInv'
  <2>1. [kind |-> "transient", pausesQuota |-> pausesQuota] \in Failures
    BY DEF Failures
  <2>2. QED
    BY <1>14, <2>1, StagedResponse, FailureSettles DEF ResponseFailed, Resumes
<1>15. ASSUME NEW cause \in Failures, InterpretationFails(cause)
       PROVE  HistoryInv'
  BY <1>15, StagedResponse, FailureSettles DEF InterpretationFails, Resumes
<1>16. CASE StreamFailureSettles
  <2>1. pc = "closing" /\ attempt.result = "failed"
    BY <1>16 DEF StreamFailureSettles, Resumes
  <2>2. FailingWith(ledger, FALSE) /\ attempt.opened
    BY <1>11, <2>1 DEF FailingWith, InFlight, KnownBilling, Usage, Requesting
  <2>3. attempt.failure \in Failures
    BY <1>11, <2>1 DEF InFlight
  <2>4. QED
    BY <1>16, <2>2, <2>3, FailureSettles DEF StreamFailureSettles
<1>17. CASE CancelledStreamCloses
  BY <1>17, EscapeTells DEF CancelledStreamCloses, Resumes, Kept, ghostVars, HistoryInv
<1>18. CASE Cancelled
  BY <1>18, EscapeTells DEF Cancelled, Kept, ghostVars, HistoryInv
<1>19. CASE BackoffEnds
  <2>1. Kept /\ pc = "backoff" /\ NextRequest(ledger)
    BY <1>19 DEF BackoffEnds, Resumes, Kept, ghostVars, HistoryInv
  <2>2. QED
    BY <2>1, LoopGoesOn DEF HistoryInv, Between
<1>20. CASE CallerCancels \/ DeadlineExpires \/ Tick \/ UNCHANGED vars
  <2>1. UNCHANGED <<pc, attempt, ledger, outcome, sent, usage, pauses, told>>
    BY <1>20 DEF CallerCancels, DeadlineExpires, Tick, vars, ghostVars
  <2>2. QED
    BY <2>1
       DEF HistoryInv, InFlight, OutcomeRecordIsAccepted, EveryRequestIsAccounted,
           UsageIsRetained, KeptRowIsTheAnswer, Recorded, BillingOf, ResponseDroppedByClose
<1>21. QED
  BY <1>1, <1>2, <1>5, <1>6, <1>7, <1>9, <1>10, <1>12, <1>13, <1>14, <1>15, <1>16, <1>17,
     <1>18, <1>19, <1>20 DEF Next, Closed, Finished

(* However an input ends, its outcome's history is one that its record     *)
(* accepts and tells every request sent once, with the usage that it       *)
(* reported and the row that answered: for every number of requests, every *)
(* order of failures and wherever a cancellation reaches the task.         *)
THEOREM OutcomeIsWhole == Spec => []OutcomeTellsEveryRequest
<1>1. QuotaInv /\ BudgetInv /\ HistoryInv => TypeOK
  <2> SUFFICES ASSUME QuotaInv, BudgetInv, HistoryInv PROVE TypeOK
    OBVIOUS
  <2>1. ledger \in Ledgers(Billings) /\ outcome.records \in Seq(RequestRecords(Billings))
    <3>1. NoEnding.records \in Seq(RequestRecords(Billings))
      BY DEF NoEnding
    <3>2. CASE pc = "finished"
      BY <3>2 DEF HistoryInv
    <3>3. CASE pc # "finished"
      BY <3>1, <3>3 DEF HistoryInv, Between, Requesting, Settled
    <3>4. QED
      BY <3>2, <3>3
  <2>2. QED
    BY <2>1, BudgetAssumption, RequestsAssumption
       DEF TypeOK, QuotaInv, BudgetInv, HistoryInv, Between, Requesting, Awaits
<1>2. HistoryInv => /\ OutcomeRecordIsAccepted /\ EveryRequestIsAccounted
                    /\ UsageIsRetained /\ KeptRowIsTheAnswer
  BY DEF HistoryInv, NoEnding, Recorded, OutcomeRecordIsAccepted,
         EveryRequestIsAccounted, UsageIsRetained, KeptRowIsTheAnswer
<1>3. QuotaInv /\ BudgetInv /\ HistoryInv => OutcomeTellsEveryRequest
  BY <1>1, <1>2 DEF OutcomeTellsEveryRequest
<1>4. QED
  BY <1>3, QuotaInit, QuotaStep, BudgetInit, BudgetStep, HistoryInit, HistoryStep, PTL
     DEF Spec
=============================================================================
