-------------------------- MODULE MCRequestsProofs --------------------------
(***************************************************************************)
(* What adapters send, for every limit and every conversation: embedding   *)
(* inputs cut into requests, the wire forms of OpenAI as a conversation    *)
(* grows, and the requests to Anthropic with their cache breakpoints.      *)
(***************************************************************************)
EXTENDS MCRequests, FiniteSetTheorems, SequenceTheorems, WellFoundedInduction, TLAPS

(***************************************************************************)
(* Least elements, induction over a range and functions defined by         *)
(* recursion over one.                                                     *)
(***************************************************************************)
LEMMA Least ==
  ASSUME NEW S, S \subseteq Nat, S # {}
  PROVE  \E x \in S : \A y \in S : x <= y
<1> DEFINE R == OpToRel(<, Nat)
<1>1. IsWellFoundedOn(R, Nat)
  BY NatLessThanWellFounded DEF R
<1>2. \A x, y \in Nat : <<x, y>> \in R <=> x < y
  BY DEF OpToRel
<1> HIDE DEF R
<1>3. PICK x \in S : \A y \in S : ~(<<y, x>> \in R)
  BY <1>1, WFMin
<1>4. ASSUME NEW y \in S
      PROVE  x <= y
  <2>1. x \in Nat /\ y \in Nat /\ ~(y < x)
    BY <1>2, <1>3
  <2>2. QED
    BY <2>1
<1>5. QED
  BY <1>4

LEMMA Induct ==
  ASSUME NEW n \in Nat, NEW P, 0 \in P, \A i \in 1..n : i - 1 \in P => i \in P
  PROVE  \A i \in 0..n : i \in P
<1> DEFINE bad == {i \in 0..n : i \notin P}
<1>1. SUFFICES ASSUME bad # {}
               PROVE  FALSE
  OBVIOUS
<1>2. PICK i \in bad : \A j \in bad : i <= j
  <2>1. bad \subseteq Nat
    OBVIOUS
  <2>2. QED
    BY ONLY <1>1, <2>1, Least, Zenon
<1>3. i \in 1..n /\ i - 1 \in 0..n /\ ~(i <= i - 1) /\ i \notin P
  OBVIOUS
<1>4. i - 1 \in P
  BY <1>2, <1>3
<1>5. QED
  BY <1>3, <1>4

LEMMA Greatest ==
  ASSUME NEW n \in Nat, NEW S \in SUBSET (1..n), S # {}
  PROVE  Max(S) \in S /\ \A d \in S : d <= Max(S)
<1> DEFINE bounds == {m \in 0..n : \A d \in S : d <= m}
<1>1. n \in bounds /\ bounds \subseteq Nat
  OBVIOUS
<1>2. PICK m \in bounds : \A k \in bounds : m <= k
  BY ONLY <1>1, Least, Zenon
<1>3. m \in S
  <2>1. SUFFICES ASSUME m \notin S
                 PROVE  FALSE
    OBVIOUS
  <2>2. m # 0 /\ m - 1 \in 0..n
    <3>1. PICK d \in S : TRUE
      OBVIOUS
    <3>2. d \in 1..n /\ d <= m
      OBVIOUS
    <3>3. QED
      BY <3>2
  <2>3. \A d \in S : d <= m - 1
    BY <2>1
  <2>4. m - 1 \in bounds
    BY <2>2, <2>3
  <2>5. m <= m - 1
    BY <1>2, <2>4
  <2>6. QED
    BY <2>5
<1>4. \A d \in S : d <= m
  OBVIOUS
<1>5. \E x \in S : \A d \in S : x >= d
  BY <1>3, <1>4
<1>6. Max(S) \in S /\ \A d \in S : Max(S) >= d
  BY <1>5, Zenon DEF Max
<1>7. QED
  BY <1>6

Recurs(f, n, V, start, step) ==
  f \in [0..n -> V] /\ f[0] = start /\ \A i \in 1..n : f[i] = step[<<i, f[i - 1]>>]

LEMMA Recursion ==
  ASSUME NEW n \in Nat, NEW V, NEW start \in V, NEW step \in [(1..n) \X V -> V]
  PROVE  \E f : Recurs(f, n, V, start, step)
<1> DEFINE P == {k \in 0..n : \E f \in [0..k -> V] :
                                f[0] = start /\ \A i \in 1..k : f[i] = step[<<i, f[i - 1]>>]}
<1>1. 0 \in P
  <2>1. [i \in 0..0 |-> start] \in [0..0 -> V]
    OBVIOUS
  <2>2. [i \in 0..0 |-> start][0] = start
    OBVIOUS
  <2>3. \A i \in 1..0 : FALSE
    OBVIOUS
  <2>4. \E f \in [0..0 -> V] : f[0] = start /\ \A i \in 1..0 : f[i] = step[<<i, f[i - 1]>>]
    BY ONLY <2>1, <2>2, <2>3, Zenon
  <2>5. QED
    BY <2>4
<1>2. ASSUME NEW k \in 1..n, k - 1 \in P
      PROVE  k \in P
  <2>1. PICK f \in [0..(k - 1) -> V] :
          f[0] = start /\ \A i \in 1..(k - 1) : f[i] = step[<<i, f[i - 1]>>]
    BY <1>2
  <2> DEFINE g == [i \in 0..k |-> IF i = k THEN step[<<k, f[k - 1]>>] ELSE f[i]]
  <2>2. k \in Nat /\ k - 1 \in 0..(k - 1) /\ f[k - 1] \in V
    OBVIOUS
  <2>3. step[<<k, f[k - 1]>>] \in V
    BY <2>2
  <2>4. g \in [0..k -> V]
    BY <2>3
  <2>5. g[k] = step[<<k, f[k - 1]>>] /\ \A i \in 0..(k - 1) : g[i] = f[i]
    OBVIOUS
  <2>6. g[0] = start
    BY <2>1, <2>5
  <2>7. ASSUME NEW i \in 1..k
        PROVE  g[i] = step[<<i, g[i - 1]>>]
    <3>1. i - 1 \in 0..(k - 1) /\ g[i - 1] = f[i - 1]
      BY <2>5
    <3>2. CASE i = k
      BY <2>5, <3>1, <3>2
    <3>3. CASE i # k
      <4>1. i \in 1..(k - 1) /\ i \in 0..(k - 1)
        BY <3>3
      <4>2. QED
        BY <2>1, <2>5, <3>1, <4>1
    <3>4. QED
      BY <3>2, <3>3
  <2> HIDE DEF g
  <2>8. QED
    BY <2>4, <2>6, <2>7
<1> HIDE DEF P
<1>3. \A i \in 0..n : i \in P
  BY ONLY <1>1, <1>2, Induct, n \in Nat, Zenon
<1>4. n \in P
  BY <1>3
<1>5. QED
  BY <1>4, Zenon DEF P, Recurs

-----------------------------------------------------------------------------
(***************************************************************************)
(* Sequences joined to one, and sums of the sizes in one.                  *)
(***************************************************************************)
LEMMA Joining ==
  ASSUME NEW S, NEW seqs \in Seq(Seq(S))
  PROVE  \E f \in [0..Len(seqs) -> Seq(S)] :
           /\ f[0] = << >>
           /\ \A i \in 1..Len(seqs) : f[i] = f[i - 1] \o seqs[i]
           /\ FlattenSeq(seqs) = f[Len(seqs)]
<1> DEFINE n == Len(seqs)
           step == [p \in (1..n) \X Seq(S) |-> p[2] \o seqs[p[1]]]
           Solves(e) == e = [i \in 1..n |-> IF i = 1 THEN seqs[i] ELSE e[i - 1] \o seqs[i]]
<1>1. n \in Nat /\ << >> \in Seq(S) /\ \A i \in 1..n : seqs[i] \in Seq(S)
  OBVIOUS
<1>2. step \in [(1..n) \X Seq(S) -> Seq(S)]
  BY <1>1
<1>3. \A i \in 1..n : \A v \in Seq(S) : step[<<i, v>>] = v \o seqs[i]
  OBVIOUS
<1> HIDE DEF step, n
<1>4. PICK f \in [0..n -> Seq(S)] : f[0] = << >> /\ \A i \in 1..n : f[i] = step[<<i, f[i - 1]>>]
  <2>1. n \in Nat /\ << >> \in Seq(S)
    BY <1>1
  <2>2. \E f : Recurs(f, n, Seq(S), << >>, step)
    BY <1>2, <2>1, Recursion, Zenon
  <2>3. QED
    BY <2>2, Zenon DEF Recurs
<1>5. \A i \in 1..n : i - 1 \in 0..n /\ f[i - 1] \in Seq(S) /\ f[i] = f[i - 1] \o seqs[i]
  <2>1. \A i \in 1..n : i - 1 \in 0..n
    BY <1>1
  <2>2. QED
    BY <1>3, <1>4, <2>1
<1>6. CASE n = 0
  <2>1. seqs = << >>
    BY <1>6 DEF n
  <2>2. FlattenSeq(seqs) = f[n]
    BY <1>4, <1>6, <2>1 DEF FlattenSeq, n
  <2>3. QED
    BY <1>4, <1>5, <2>2 DEF n
<1>7. CASE n # 0
  <2> DEFINE e == [i \in 1..n |-> f[i]]
  <2>1. n \in 1..n /\ 1 \in 1..n /\ \A i \in 1..n : i # 1 => i - 1 \in 1..n
    BY <1>1, <1>7
  <2>2. \A i \in 1..n : f[i] = IF i = 1 THEN seqs[i] ELSE e[i - 1] \o seqs[i]
    <3>1. f[1] = seqs[1]
      <4>1. f[1] = f[1 - 1] \o seqs[1] /\ seqs[1] \in Seq(S) /\ 1 - 1 = 0
        <5>1. f[1] = f[1 - 1] \o seqs[1] /\ seqs[1] \in Seq(S)
          BY <1>1, <1>5, <2>1, Zenon
        <5>2. QED
          BY <5>1
      <4>2. f[1] = << >> \o seqs[1]
        BY <1>4, <4>1
      <4>3. QED
        BY <4>1, <4>2
    <3>2. QED
      BY <1>5, <2>1, <3>1
  <2>3. Solves(e)
    BY <2>2
  <2>4. Solves(CHOOSE g : Solves(g))
    BY <2>3, Zenon
  <2>5. PICK g : Solves(g) /\ FlattenSeq(seqs) = g[n]
    <3>1. FlattenSeq(seqs) = (CHOOSE g : Solves(g))[n]
      BY <1>7 DEF FlattenSeq, n
    <3>2. QED
      BY <2>4, <3>1, Zenon
  <2>6. \A i \in 1..n : g[i] = IF i = 1 THEN seqs[i] ELSE g[i - 1] \o seqs[i]
    BY <2>5, Zenon
  <2> DEFINE P == {i \in 0..n : i # 0 => g[i] = f[i]}
  <2>7. 0 \in P
    BY <1>1
  <2>8. ASSUME NEW i \in 1..n, i - 1 \in P
        PROVE  i \in P
    <3>1. CASE i = 1
      <4>1. g[1] = seqs[1] /\ f[1] = seqs[1]
        BY <2>1, <2>2, <2>6
      <4>2. QED
        BY <3>1, <4>1
    <3>2. CASE i # 1
      <4>1. i - 1 # 0 /\ g[i - 1] = f[i - 1]
        BY <2>8, <3>2
      <4>2. g[i] = g[i - 1] \o seqs[i] /\ f[i] = f[i - 1] \o seqs[i]
        BY <1>5, <2>6, <3>2
      <4>3. i \in 0..n
        BY <1>1
      <4>4. QED
        BY <4>1, <4>2, <4>3
    <3>3. QED
      BY <3>1, <3>2
  <2> HIDE DEF P, Solves
  <2>9. \A i \in 0..n : i \in P
    BY ONLY <1>1, <2>7, <2>8, Induct, Zenon
  <2>10. g[n] = f[n]
    BY <1>1, <1>7, <2>9 DEF P
  <2>11. QED
    BY <1>4, <1>5, <2>5, <2>10 DEF n
<1>8. QED
  BY <1>6, <1>7

LEMMA JoinedType ==
  ASSUME NEW S, NEW seqs \in Seq(Seq(S))
  PROVE  FlattenSeq(seqs) \in Seq(S) /\ FlattenSeq(<< >>) = << >>
<1>1. FlattenSeq(seqs) \in Seq(S)
  <2>1. PICK f \in [0..Len(seqs) -> Seq(S)] : FlattenSeq(seqs) = f[Len(seqs)]
    BY Joining
  <2>2. Len(seqs) \in 0..Len(seqs)
    OBVIOUS
  <2>3. QED
    BY <2>1, <2>2
<1>2. FlattenSeq(<< >>) = << >>
  BY DEF FlattenSeq
<1>3. QED
  BY <1>1, <1>2

LEMMA JoinedEnd ==
  ASSUME NEW S, NEW seqs \in Seq(Seq(S)), NEW s \in Seq(S)
  PROVE  FlattenSeq(Append(seqs, s)) = FlattenSeq(seqs) \o s
<1> DEFINE n == Len(seqs)
           more == Append(seqs, s)
<1>1. /\ n \in Nat /\ more \in Seq(Seq(S)) /\ Len(more) = n + 1
      /\ more[n + 1] = s /\ \A i \in 1..n : more[i] = seqs[i]
  OBVIOUS
<1> HIDE DEF more
<1>2. PICK f \in [0..n -> Seq(S)] :
        /\ f[0] = << >>
        /\ \A i \in 1..n : f[i] = f[i - 1] \o seqs[i]
        /\ FlattenSeq(seqs) = f[n]
  BY Joining
<1> HIDE DEF n
<1>3. PICK g \in [0..(n + 1) -> Seq(S)] :
        /\ g[0] = << >>
        /\ \A i \in 1..(n + 1) : g[i] = g[i - 1] \o more[i]
        /\ FlattenSeq(more) = g[n + 1]
  <2>1. \E g \in [0..Len(more) -> Seq(S)] :
          /\ g[0] = << >>
          /\ \A i \in 1..Len(more) : g[i] = g[i - 1] \o more[i]
          /\ FlattenSeq(more) = g[Len(more)]
    BY ONLY <1>1, Joining
  <2>2. Len(more) = n + 1
    BY <1>1
  <2>3. QED
    BY ONLY <2>1, <2>2, Zenon
<1> DEFINE P == {i \in 0..n : g[i] = f[i]}
<1>4. 0 \in P
  BY <1>1, <1>2, <1>3
<1>5. ASSUME NEW i \in 1..n, i - 1 \in P
      PROVE  i \in P
  <2>1. i \in 1..(n + 1) /\ g[i - 1] = f[i - 1]
    BY <1>1, <1>5
  <2>2. g[i] = f[i]
    BY <1>1, <1>2, <1>3, <2>1
  <2>3. QED
    BY <2>2
<1> HIDE DEF P
<1>6. \A i \in 0..n : i \in P
  BY ONLY <1>1, <1>4, <1>5, Induct, Zenon
<1>7. g[n] = f[n]
  BY <1>1, <1>6 DEF P
<1>8. n + 1 \in 1..(n + 1) /\ (n + 1) - 1 = n
  <2>1. n \in Nat
    BY <1>1
  <2>2. QED
    BY ONLY <2>1
<1>9. g[n + 1] = g[n] \o s
  BY <1>1, <1>3, <1>8
<1>10. QED
  BY <1>2, <1>3, <1>7, <1>9 DEF more

LEMMA SumsAre ==
  ASSUME NEW s \in Seq(Nat)
  PROVE  /\ Sums(s) \in [0..Len(s) -> Nat] /\ Sums(s)[0] = 0
         /\ \A i \in 1..Len(s) : Sums(s)[i] = Sums(s)[i - 1] + s[i]
<1> DEFINE n == Len(s)
           step == [p \in (1..n) \X Nat |-> p[2] + s[p[1]]]
           Solves(e) == e = [i \in 0..n |-> IF i = 0 THEN 0 ELSE e[i - 1] + s[i]]
<1>1. n \in Nat /\ 0 \in Nat /\ \A i \in 1..n : s[i] \in Nat
  OBVIOUS
<1>2. step \in [(1..n) \X Nat -> Nat]
  BY <1>1
<1>3. \A i \in 1..n : \A v \in Nat : step[<<i, v>>] = v + s[i]
  OBVIOUS
<1>4. Sums(s) = CHOOSE e : Solves(e)
  BY DEF Sums
<1> HIDE DEF step, n
<1>5. PICK f \in [0..n -> Nat] : f[0] = 0 /\ \A i \in 1..n : f[i] = step[<<i, f[i - 1]>>]
  <2>1. \E f : Recurs(f, n, Nat, 0, step)
    BY <1>1, <1>2, Recursion, Zenon
  <2>2. QED
    BY <2>1, Zenon DEF Recurs
<1>6. \A i \in 1..n : i - 1 \in 0..n /\ i \in 0..n /\ f[i - 1] \in Nat /\ f[i] = f[i - 1] + s[i]
  <2>1. \A i \in 1..n : i - 1 \in 0..n /\ i \in 0..n
    BY <1>1
  <2>2. QED
    BY <1>3, <1>5, <2>1
<1>7. Solves(f)
  <2>1. f = [i \in 0..n |-> f[i]]
    OBVIOUS
  <2>2. \A i \in 0..n : f[i] = IF i = 0 THEN 0 ELSE f[i - 1] + s[i]
    <3>1. \A i \in 0..n : i # 0 => i \in 1..n
      BY <1>1
    <3>2. QED
      BY <1>5, <1>6, <3>1, Zenon
  <2>3. QED
    BY <2>1, <2>2, Zenon
<1>8. Solves(Sums(s))
  BY <1>4, <1>7, Zenon
<1> DEFINE g == Sums(s)
<1>9. g = [i \in 0..n |-> IF i = 0 THEN 0 ELSE g[i - 1] + s[i]]
  BY <1>8, Zenon
<1> HIDE DEF Solves, g
<1>10. g = [i \in 0..n |-> g[i]] /\ g[0] = 0 /\ \A i \in 1..n : g[i] = g[i - 1] + s[i]
  <2>1. 0 \in 0..n /\ \A i \in 1..n : i \in 0..n /\ i # 0
    BY <1>1
  <2>2. \A i \in 0..n : g[i] = IF i = 0 THEN 0 ELSE g[i - 1] + s[i]
    BY <1>9, Zenon
  <2>3. DOMAIN g = 0..n /\ g = [i \in DOMAIN g |-> g[i]]
    BY <1>9, Zenon
  <2>4. QED
    BY <2>1, <2>2, <2>3, Zenon
<1> DEFINE P == {i \in 0..n : g[i] \in Nat}
<1>11. 0 \in P
  BY <1>1, <1>10
<1>12. ASSUME NEW i \in 1..n, i - 1 \in P
       PROVE  i \in P
  <2>1. i - 1 \in 0..n /\ g[i - 1] \in Nat /\ s[i] \in Nat /\ g[i] = g[i - 1] + s[i] /\ i \in 0..n
    BY <1>1, <1>6, <1>10, <1>12
  <2>2. QED
    BY <2>1
<1> HIDE DEF P
<1>13. \A i \in 0..n : i \in P
  BY ONLY <1>1, <1>11, <1>12, Induct, Zenon
<1>14. \A i \in 0..n : g[i] \in Nat
  BY <1>13 DEF P
<1>15. g \in [0..n -> Nat]
  BY <1>10, <1>14
<1>16. QED
  BY <1>10, <1>15 DEF g, n

LEMMA SumsGrow ==
  ASSUME NEW s \in Seq(Nat), NEW j \in 0..Len(s)
  PROVE  \A i \in 0..j : Sums(s)[i] <= Sums(s)[j]
<1> DEFINE n == Len(s)
           g == Sums(s)
<1>1. /\ n \in Nat /\ g \in [0..n -> Nat] /\ \A i \in 1..n : s[i] \in Nat /\ g[i] = g[i - 1] + s[i]
  BY SumsAre
<1> DEFINE P == {k \in 0..n : \A i \in 0..k : g[i] <= g[k]}
<1> HIDE DEF g, n
<1>2. 0 \in P
  BY <1>1
<1>3. ASSUME NEW k \in 1..n, k - 1 \in P
      PROVE  k \in P
  <2>1. k \in 0..n /\ k - 1 \in 0..n /\ g[k - 1] \in Nat /\ g[k] = g[k - 1] + s[k] /\ s[k] \in Nat
    BY <1>1
  <2>2. ASSUME NEW i \in 0..k
        PROVE  g[i] <= g[k]
    <3>1. CASE i = k
      BY <1>1, <2>1, <3>1
    <3>2. CASE i # k
      <4>1. i \in 0..(k - 1) /\ i \in 0..n
        BY <1>1, <2>1, <3>2
      <4>2. g[i] <= g[k - 1] /\ g[i] \in Nat
        BY <1>1, <1>3, <4>1
      <4>3. QED
        BY <2>1, <4>2
    <3>3. QED
      BY <3>1, <3>2
  <2>3. QED
    BY <2>1, <2>2
<1> HIDE DEF P
<1>4. \A k \in 0..n : k \in P
  BY ONLY <1>1, <1>2, <1>3, Induct, Zenon
<1>5. j \in P
  BY <1>4 DEF n
<1>6. QED
  BY <1>5 DEF P, g

(* The sum of a stretch of a sequence is the difference of two sums.       *)
LEMMA SumOfStretch ==
  ASSUME NEW s \in Seq(Nat), NEW a \in 1..(Len(s) + 1), NEW b \in (a - 1)..Len(s)
  PROVE  /\ SubSeq(s, a, b) \in Seq(Nat) /\ Len(SubSeq(s, a, b)) = b - a + 1
         /\ \A i \in 1..(b - a + 1) : SubSeq(s, a, b)[i] = s[a + i - 1]
         /\ Sums(SubSeq(s, a, b))[b - a + 1] = Sums(s)[b] - Sums(s)[a - 1]
<1> DEFINE n == Len(s)
           t == SubSeq(s, a, b)
           m == b - a + 1
           g == Sums(s)
           h == Sums(t)
<1>1. n \in Nat /\ m \in Nat /\ a - 1 \in 0..n /\ b \in 0..n /\ a \in Nat /\ b \in Nat
  OBVIOUS
<1>2. t \in Seq(Nat) /\ Len(t) = m /\ \A i \in 1..m : t[i] = s[a + i - 1]
  BY SubSeqProperties
<1>3. g \in [0..n -> Nat] /\ \A i \in 1..n : g[i] = g[i - 1] + s[i] /\ s[i] \in Nat
  BY SumsAre
<1>4. h \in [0..m -> Nat] /\ h[0] = 0 /\ \A i \in 1..m : h[i] = h[i - 1] + t[i]
  <2>1. /\ h \in [0..Len(t) -> Nat] /\ h[0] = 0
        /\ \A i \in 1..Len(t) : h[i] = h[i - 1] + t[i]
    BY <1>2, SumsAre
  <2>2. Len(t) = m
    BY <1>2
  <2>3. QED
    BY ONLY <2>1, <2>2, Zenon
<1> DEFINE P == {i \in 0..m : h[i] = g[a - 1 + i] - g[a - 1]}
<1>5. m + (a - 1) = b /\ \A i \in 0..m : a - 1 + i \in 0..n
  BY <1>1
<1>6. \A i \in 1..m : i \in 0..m /\ i - 1 \in 0..m /\ a - 1 + i \in 1..n /\ a - 1 + (i - 1) = (a - 1 + i) - 1
                     /\ a + i - 1 = a - 1 + i
  BY <1>1
<1> HIDE DEF g, h, t, m, n
<1>7. 0 \in P
  BY <1>1, <1>3, <1>4
<1>8. ASSUME NEW i \in 1..m, i - 1 \in P
      PROVE  i \in P
  <2>1. h[i - 1] = g[a - 1 + (i - 1)] - g[a - 1] /\ h[i] = h[i - 1] + t[i] /\ t[i] = s[a - 1 + i]
    BY <1>2, <1>4, <1>6, <1>8
  <2>2. g[a - 1 + i] = g[a - 1 + (i - 1)] + s[a - 1 + i] /\ s[a - 1 + i] \in Nat
    BY <1>3, <1>6
  <2>3. g[a - 1] \in Nat /\ g[a - 1 + (i - 1)] \in Nat /\ g[a - 1 + i] \in Nat
    BY <1>1, <1>3, <1>5, <1>6
  <2>4. h[i] = g[a - 1 + i] - g[a - 1]
    BY <2>1, <2>2, <2>3, SMTT(20)
  <2>5. QED
    BY <1>6, <2>4
<1> HIDE DEF P
<1>9. \A i \in 0..m : i \in P
  BY ONLY <1>1, <1>7, <1>8, Induct, Zenon
<1>10. m \in P
  BY <1>1, <1>9
<1>11. h[m] = g[b] - g[a - 1]
  <2>1. h[m] = g[a - 1 + m] - g[a - 1]
    BY <1>10 DEF P
  <2>2. a - 1 + m = b
    BY <1>1, <1>5
  <2>3. QED
    BY <2>1, <2>2
<1>12. QED
  BY <1>2, <1>11 DEF g, h, t, m

-----------------------------------------------------------------------------
(***************************************************************************)
(* Requests within limits.  The limits are a record, so that the lemmas    *)
(* hold for both adapters.                                                 *)
(***************************************************************************)
LimitsOk(c) ==
  c.empty \in Nat /\ c.comma \in Nat /\ c.target \in Nat /\ c.count \in Nat \ {0}

Weight(c, s) == c.empty + Sums(s)[Len(s)] + c.comma * (Len(s) - 1)

FitsIn(c, s) ==
  /\ s # << >> /\ Len(s) <= c.count
  /\ Len(s) = 1 \/ Weight(c, s) <= c.target
  /\ \A i \in DOMAIN s : s[i] \in c.accepted

IsFull(c, s, weight, size) == s # << >> /\ (Len(s) = c.count \/ weight + c.comma + size > c.target)

From(ends, e) == IF {d \in ends : d < e} = {} THEN 1 ELSE Max({d \in ends : d < e}) + 1

CutFitsIn(c, s, ends) ==
  /\ ends \in SUBSET (1..Len(s)) /\ (s # << >> => Len(s) \in ends)
  /\ \A e \in ends : FitsIn(c, SubSeq(s, From(ends, e), e))

LEMMA FromIs ==
  ASSUME NEW n \in Nat, NEW ends \in SUBSET (1..n), NEW e \in ends
  PROVE  /\ From(ends, e) \in 1..e
         /\ \A a \in 1..n : (\A d \in ends : d < e => d < a) => From(ends, e) <= a
<1> DEFINE before == {d \in ends : d < e}
<1>1. e \in 1..n /\ e \in Nat
  OBVIOUS
<1>2. CASE before = {}
  BY <1>1, <1>2 DEF From
<1>3. CASE before # {}
  <2>1. Max(before) \in before
    BY <1>3, Greatest
  <2>2. From(ends, e) = Max(before) + 1
    BY <1>3 DEF From
  <2>3. Max(before) \in 1..n /\ Max(before) < e /\ Max(before) \in ends
    BY <2>1
  <2> HIDE DEF before
  <2>4. QED
    BY <1>1, <2>2, <2>3
<1>4. QED
  BY <1>2, <1>3

LEMMA StretchWeighs ==
  ASSUME NEW c, LimitsOk(c), NEW s \in Seq(Nat), NEW a \in 1..Len(s), NEW b \in a..Len(s)
  PROVE  /\ Len(SubSeq(s, a, b)) = b - a + 1
         /\ Weight(c, SubSeq(s, a, b)) = c.empty + (Sums(s)[b] - Sums(s)[a - 1]) + c.comma * (b - a)
         /\ Sums(s)[b] \in Nat /\ Sums(s)[a - 1] \in Nat
<1>1. a \in 1..(Len(s) + 1) /\ b \in (a - 1)..Len(s) /\ a - 1 \in 0..Len(s) /\ b \in 0..Len(s)
  OBVIOUS
<1>2. /\ Len(SubSeq(s, a, b)) = b - a + 1
      /\ Sums(SubSeq(s, a, b))[b - a + 1] = Sums(s)[b] - Sums(s)[a - 1]
  BY <1>1, SumOfStretch
<1>3. (b - a + 1) - 1 = b - a
  BY <1>1
<1>4. Weight(c, SubSeq(s, a, b)) = c.empty + (Sums(s)[b] - Sums(s)[a - 1]) + c.comma * (b - a)
  BY ONLY <1>2, <1>3, Zenon DEF Weight
<1>5. Sums(s) \in [0..Len(s) -> Nat]
  BY SumsAre
<1>6. QED
  BY <1>1, <1>2, <1>4, <1>5

LEMMA ProductGrows ==
  ASSUME NEW k \in Nat, NEW x \in Nat, NEW y \in Nat, x <= y
  PROVE  k * x <= k * y /\ k * x \in Nat /\ k * y \in Nat
<1>1. y - x \in Nat /\ y = x + (y - x)
  OBVIOUS
<1>2. k * (x + (y - x)) = k * x + k * (y - x) /\ k * (y - x) \in Nat /\ k * x \in Nat
  BY <1>1
<1>3. k * y = k * x + k * (y - x)
  BY <1>1, <1>2
<1>4. QED
  BY <1>2, <1>3

LEMMA LongerWeighsMore ==
  ASSUME NEW empty \in Nat, NEW e \in Nat, NEW f \in Nat, NEW k \in Nat, NEW a \in Nat,
         NEW x \in Int, NEW comma \in Nat, NEW z \in Nat, NEW size \in Nat, NEW target \in Nat,
         k + size <= e, f <= a, x + comma <= z, empty + (e - f) + z <= target
  PROVE  ~(empty + (k - a) + x + comma + size > target)
OBVIOUS

(* No cut that fits leaps over a full batch and the input that follows it. *)
LEMMA NoLeap ==
  ASSUME NEW c, LimitsOk(c), NEW s \in Seq(Nat), NEW a \in 1..Len(s), NEW k \in (a + 1)..Len(s),
         IsFull(c, SubSeq(s, a, k - 1), Weight(c, SubSeq(s, a, k - 1)), s[k]),
         NEW ends, CutFitsIn(c, s, ends)
  PROVE  \E e \in ends : a <= e /\ e < k
<1> DEFINE n == Len(s)
           g == Sums(s)
           late == {e \in ends : k <= e}
<1>1. n \in Nat /\ a \in 1..n /\ k \in (a + 1)..n /\ s # << >>
  OBVIOUS
<1>2. ends \in SUBSET (1..n) /\ n \in ends /\ n \in late
  BY <1>1 DEF CutFitsIn
<1>3. PICK e \in late : \A d \in late : e <= d
  <2>1. late \subseteq Nat /\ late # {}
    <3>1. \A e \in ends : e \in Nat
      BY <1>1, <1>2
    <3>2. QED
      BY <1>2, <3>1
  <2>2. QED
    BY ONLY <2>1, Least, Zenon
<1>4. e \in ends /\ e \in 1..n /\ k <= e
  BY <1>2
<1> SUFFICES ASSUME \A d \in ends : ~(a <= d /\ d < k)
             PROVE  FALSE
  BY Zenon
<1>5. \A d \in ends : d < e => d < a
  <2>1. SUFFICES ASSUME NEW d \in ends, d < e
                 PROVE  d < a
    OBVIOUS
  <2>2. d \in 1..n
    BY <1>2
  <2>3. ~(k <= d)
    BY <1>3, <1>4, <2>1, <2>2
  <2>4. ~(a <= d /\ d < k)
    OBVIOUS
  <2>5. QED
    BY <1>1, <2>2, <2>3, <2>4
<1> DEFINE f == From(ends, e)
<1>6. f \in 1..e /\ f <= a
  <2>1. /\ From(ends, e) \in 1..e
        /\ \A x \in 1..n : (\A d \in ends : d < e => d < x) => From(ends, e) <= x
    BY ONLY <1>1, <1>2, <1>4, FromIs
  <2>2. QED
    BY <1>1, <1>5, <2>1
<1>7. FitsIn(c, SubSeq(s, f, e))
  BY <1>4 DEF CutFitsIn
<1> HIDE DEF f, late, n
<1>8. f \in 1..n /\ e \in f..n /\ k - 1 \in a..n
  BY <1>1, <1>4, <1>6
<1>9. /\ Len(SubSeq(s, f, e)) = e - f + 1
      /\ Weight(c, SubSeq(s, f, e)) = c.empty + (g[e] - g[f - 1]) + c.comma * (e - f)
      /\ g[e] \in Nat /\ g[f - 1] \in Nat
  BY <1>8, StretchWeighs DEF n
<1>10. /\ Len(SubSeq(s, a, k - 1)) = (k - 1) - a + 1
       /\ Weight(c, SubSeq(s, a, k - 1)) = c.empty + (g[k - 1] - g[a - 1]) + c.comma * ((k - 1) - a)
       /\ g[k - 1] \in Nat /\ g[a - 1] \in Nat
  BY <1>8, StretchWeighs DEF n
<1>11. g[k] = g[k - 1] + s[k] /\ s[k] \in Nat /\ g[k] \in Nat
  <2>1. k \in 1..n /\ k \in 0..n
    BY <1>1
  <2>2. g \in [0..n -> Nat] /\ \A i \in 1..n : g[i] = g[i - 1] + s[i]
    BY SumsAre DEF n
  <2>3. s[k] \in Nat
    BY <2>1 DEF n
  <2> HIDE DEF g
  <2>4. QED
    BY <2>1, <2>2, <2>3
<1>12. g[k] <= g[e] /\ g[f - 1] <= g[a - 1]
  <2>1. e \in 0..n /\ k \in 0..e /\ a - 1 \in 0..n /\ f - 1 \in 0..(a - 1)
    BY <1>1, <1>4, <1>6
  <2>2. QED
    BY <2>1, SumsGrow DEF n
<1> HIDE DEF g
<1>13. /\ c.empty \in Nat /\ c.comma \in Nat /\ c.target \in Nat /\ c.count \in Nat
  BY DEF LimitsOk
<1>14. c.comma * (k - a) <= c.comma * (e - f) /\ c.comma * (k - a) \in Nat /\ c.comma * (e - f) \in Nat
  <2>1. k - a \in Nat /\ e - f \in Nat /\ k - a <= e - f
    BY <1>1, <1>4, <1>6
  <2>2. QED
    BY ONLY <1>13, <2>1, ProductGrows
<1>15. c.comma * ((k - 1) - a) + c.comma = c.comma * (k - a)
  <2>1. \A x \in Nat : \A y \in Nat : x * y + x = x * (y + 1)
    OBVIOUS
  <2>2. (k - 1) - a \in Nat /\ ((k - 1) - a) + 1 = k - a
    BY <1>1
  <2>3. QED
    BY <1>13, <2>1, <2>2
<1>16. Len(SubSeq(s, a, k - 1)) # c.count
  <2>1. e - f + 1 <= c.count
    BY <1>7, <1>9 DEF FitsIn
  <2>2. QED
    BY <1>1, <1>4, <1>6, <1>10, <1>13, <2>1
<1>17. c.empty + (g[e] - g[f - 1]) + c.comma * (e - f) <= c.target
  <2>1. e - f + 1 # 1
    BY <1>1, <1>4, <1>6
  <2>2. QED
    BY <1>7, <1>9, <2>1 DEF FitsIn
<1>18. c.empty + (g[k - 1] - g[a - 1]) + c.comma * ((k - 1) - a) + c.comma + s[k] > c.target
  BY <1>10, <1>16 DEF IsFull
<1> DEFINE x == c.comma * ((k - 1) - a)
           y == c.comma * (k - a)
           z == c.comma * (e - f)
<1>19. y <= z /\ y \in Nat /\ z \in Nat /\ x + c.comma = y
  BY <1>14, <1>15
<1>20. c.empty + (g[e] - g[f - 1]) + z <= c.target
  BY <1>17
<1>21. c.empty + (g[k - 1] - g[a - 1]) + x + c.comma + s[k] > c.target
  BY <1>18
<1>22. x \in Int
  <2>1. (k - 1) - a \in Nat
    BY <1>1
  <2>2. QED
    BY <1>13, <2>1
<1> HIDE DEF x, y, z
<1>23. /\ g[k - 1] \in Nat /\ g[a - 1] \in Nat /\ g[e] \in Nat /\ g[f - 1] \in Nat /\ g[k] \in Nat
       /\ g[k] = g[k - 1] + s[k] /\ s[k] \in Nat
  BY <1>9, <1>10, <1>11
<1>24. c.empty \in Nat /\ c.comma \in Nat /\ c.target \in Nat
  BY <1>13
<1>25. g[k - 1] + s[k] <= g[e] /\ x + c.comma <= z
  BY <1>12, <1>19, <1>23
<1>26. ~(c.empty + (g[k - 1] - g[a - 1]) + x + c.comma + s[k] > c.target)
  BY ONLY <1>12, <1>19, <1>20, <1>22, <1>23, <1>24, <1>25, LongerWeighsMore, ZenonT(40)
<1>27. QED
  BY <1>21, <1>26, Zenon

-----------------------------------------------------------------------------
(***************************************************************************)
(* The partition, step by step.                                            *)
(***************************************************************************)
Going == result = "running" /\ next <= Len(inputs)

Opens(c) ==
  /\ Going /\ inputs[next] \in c.accepted /\ IsFull(c, batch, body, inputs[next])
  /\ batches' = Append(batches, batch) /\ batch' = <<inputs[next]>>
  /\ body' = c.empty + inputs[next] /\ next' = next + 1
  /\ inputs' = inputs /\ result' = result

Extends(c) ==
  /\ Going /\ inputs[next] \in c.accepted /\ ~IsFull(c, batch, body, inputs[next])
  /\ batches' = batches /\ batch' = Append(batch, inputs[next])
  /\ body' = body + inputs[next] + (IF batch = << >> THEN 0 ELSE c.comma)
  /\ next' = next + 1 /\ inputs' = inputs /\ result' = result

Refuses ==
  /\ Going /\ result' = "raised" /\ batches' = batches /\ batch' = batch
  /\ body' = body /\ next' = next /\ inputs' = inputs

Gives(c) ==
  /\ result = "running" /\ next > Len(inputs) /\ result' = "returned"
  /\ batches' = IF batch = << >> THEN batches ELSE Append(batches, batch)
  /\ batch' = << >> /\ body' = c.empty /\ next' = next /\ inputs' = inputs

Stays ==
  /\ result' = result /\ batches' = batches /\ batch' = batch
  /\ body' = body /\ next' = next /\ inputs' = inputs

PartTypeInv ==
  /\ inputs \in Seq(Nat) /\ next \in 1..(Len(inputs) + 1)
  /\ batches \in Seq(Seq(Nat)) /\ batch \in Seq(Nat) /\ body \in Nat
  /\ result \in {"running", "raised", "returned"}

OrderInv == FlattenSeq(batches) \o batch = SubSeq(inputs, 1, next - 1)

(* The open batch holds the inputs just before the next one, and its size  *)
(* is known.  Only before the first input is there none.                   *)
OpenInv(c) ==
  /\ result # "returned" =>
       /\ Len(batch) <= next - 1
       /\ batch = SubSeq(inputs, next - Len(batch), next - 1)
       /\ batch = << >> => next = 1 /\ batches = << >>
  /\ batch = << >> => body = c.empty
  /\ batch # << >> => body = Weight(c, batch) /\ FitsIn(c, batch)

FitInv(c) == \A i \in 1..Len(batches) : FitsIn(c, batches[i])

EndsBefore(ends, k) == {e \in ends : e < k}

(* A cut that fits has ended as many requests as there are full batches.   *)
FewInv(c) ==
  \A ends : CutFitsIn(c, inputs, ends) =>
    Len(batches) <= Cardinality(EndsBefore(ends, IF result = "returned" THEN Len(inputs) + 1
                                                 ELSE next - Len(batch)))

PartInv(c) == PartTypeInv /\ OrderInv /\ OpenInv(c) /\ FitInv(c) /\ FewInv(c)

LEMMA EndsCounted ==
  ASSUME NEW n \in Nat, NEW ends \in SUBSET (1..n), NEW k \in Nat, NEW m \in Nat, k <= m
  PROVE  /\ IsFiniteSet(EndsBefore(ends, k)) /\ Cardinality(EndsBefore(ends, k)) \in Nat
         /\ (\E e \in ends : k <= e /\ e < m) =>
              Cardinality(EndsBefore(ends, k)) + 1 <= Cardinality(EndsBefore(ends, m))
<1>1. IsFiniteSet(1..n)
  <2>1. 1 \in Int /\ n \in Int
    OBVIOUS
  <2>2. QED
    BY ONLY <2>1, FS_Interval, Zenon
<1>2. EndsBefore(ends, k) \in SUBSET (1..n) /\ EndsBefore(ends, m) \in SUBSET (1..n)
  BY Zenon DEF EndsBefore
<1>3. IsFiniteSet(EndsBefore(ends, k)) /\ IsFiniteSet(EndsBefore(ends, m))
  BY <1>1, <1>2, FS_Subset
<1>4. Cardinality(EndsBefore(ends, k)) \in Nat
  BY <1>3, FS_CardinalityType
<1>5. ASSUME NEW e \in ends, k <= e, e < m
      PROVE  Cardinality(EndsBefore(ends, k)) + 1 <= Cardinality(EndsBefore(ends, m))
  <2>1. e \notin EndsBefore(ends, k) /\ e \in Nat
    BY <1>5 DEF EndsBefore
  <2>2. /\ IsFiniteSet(EndsBefore(ends, k) \cup {e})
        /\ Cardinality(EndsBefore(ends, k) \cup {e}) = Cardinality(EndsBefore(ends, k)) + 1
    BY <1>3, <2>1, FS_AddElement
  <2>3. EndsBefore(ends, k) \cup {e} \in SUBSET EndsBefore(ends, m)
    <3>1. \A d \in ends : d \in Nat
      OBVIOUS
    <3>2. \A d \in ends : d < k => d < m
      BY <3>1
    <3>3. \A d \in EndsBefore(ends, k) : d \in EndsBefore(ends, m)
      BY <3>2, Zenon DEF EndsBefore
    <3>4. e \in EndsBefore(ends, m)
      BY <1>5 DEF EndsBefore
    <3>5. QED
      BY <3>3, <3>4, Zenon
  <2>4. Cardinality(EndsBefore(ends, k) \cup {e}) <= Cardinality(EndsBefore(ends, m))
    BY <1>3, <2>3, FS_Subset
  <2>5. QED
    BY <2>2, <2>4
<1>6. QED
  BY <1>3, <1>4, <1>5

(* One more input at the end of a stretch.                                 *)
LEMMA StretchEnd ==
  ASSUME NEW s \in Seq(Nat), NEW a \in 1..Len(s), NEW k \in a..Len(s)
  PROVE  Append(SubSeq(s, a, k - 1), s[k]) = SubSeq(s, a, k)
<1>1. a \in 1..(Len(s) + 1) /\ k - 1 \in (a - 1)..Len(s) /\ k \in (a - 1)..Len(s) /\ a \in Nat /\ k \in Nat
      /\ (k - 1) - a + 1 = k - a
  OBVIOUS
<1> DEFINE t == SubSeq(s, a, k - 1)
           u == SubSeq(s, a, k)
<1>2. t \in Seq(Nat) /\ Len(t) = k - a /\ \A i \in 1..(k - a) : t[i] = s[a + i - 1]
  <2>1. /\ t \in Seq(Nat) /\ Len(t) = (k - 1) - a + 1
        /\ \A i \in 1..((k - 1) - a + 1) : t[i] = s[a + i - 1]
    BY <1>1, SumOfStretch
  <2> HIDE DEF t
  <2>2. QED
    BY <1>1, <2>1
<1>3. u \in Seq(Nat) /\ Len(u) = k - a + 1 /\ \A i \in 1..(k - a + 1) : u[i] = s[a + i - 1]
  BY <1>1, SumOfStretch
<1>4. s[k] \in Nat
  OBVIOUS
<1> HIDE DEF t, u
<1> DEFINE v == Append(t, s[k])
<1>5. /\ v \in Seq(Nat) /\ Len(v) = k - a + 1 /\ v[k - a + 1] = s[k]
      /\ \A i \in 1..(k - a) : v[i] = s[a + i - 1]
  BY <1>2, <1>4
<1> HIDE DEF v
<1>6. \A i \in 1..(k - a + 1) : v[i] = u[i]
  <2>1. ASSUME NEW i \in 1..(k - a + 1)
        PROVE  v[i] = u[i]
    <3>1. CASE i = k - a + 1
      <4>1. a + i - 1 = k
        BY <1>1, <3>1
      <4>2. QED
        BY <1>3, <1>5, <3>1, <4>1
    <3>2. CASE i # k - a + 1
      <4>1. i \in 1..(k - a)
        BY <1>1, <3>2
      <4>2. QED
        BY <1>3, <1>5, <4>1
    <3>3. QED
      BY <3>1, <3>2
  <2>2. QED
    BY <2>1
<1>7. v = u
  <2>1. Len(v) = Len(u) /\ \A i \in 1..Len(v) : v[i] = u[i]
    BY <1>3, <1>5, <1>6
  <2>2. QED
    BY <1>3, <1>5, <2>1, SeqEqual
<1>8. QED
  BY <1>7 DEF v, u, t

LEMMA AtTheStart ==
  ASSUME NEW c, LimitsOk(c), inputs \in Seq(Nat), next = 1, batches = << >>, batch = << >>,
         body = c.empty, result = "running"
  PROVE  PartInv(c)
<1>1. PartTypeInv
  BY DEF PartTypeInv, LimitsOk
<1>2. SubSeq(inputs, 1, 0) = << >>
  BY SubSeqEmpty
<1>3. OrderInv
  <2>1. FlattenSeq(batches) = << >>
    BY Zenon DEF FlattenSeq
  <2>2. FlattenSeq(batches) \o batch = << >>
    BY <2>1
  <2>3. next - 1 = 0
    OBVIOUS
  <2>4. QED
    BY <1>2, <2>2, <2>3 DEF OrderInv
<1>4. OpenInv(c)
  BY <1>2 DEF OpenInv
<1>5. FitInv(c)
  BY DEF FitInv
<1>6. FewInv(c)
  <2>1. SUFFICES ASSUME NEW ends, CutFitsIn(c, inputs, ends)
                 PROVE  Len(batches) <= Cardinality(EndsBefore(ends, 1))
    BY DEF FewInv
  <2>2. Cardinality(EndsBefore(ends, 1)) \in Nat
    <3>1. ends \in SUBSET (1..Len(inputs)) /\ Len(inputs) \in Nat
      BY <2>1 DEF CutFitsIn
    <3>2. 1 \in Nat /\ 1 <= 1
      OBVIOUS
    <3>3. QED
      BY <3>1, <3>2, EndsCounted, Zenon
  <2>3. QED
    BY <2>2
<1>7. QED
  BY <1>1, <1>3, <1>4, <1>5, <1>6 DEF PartInv

LEMMA OpeningKeeps ==
  ASSUME NEW c, LimitsOk(c), PartInv(c), Opens(c)
  PROVE  PartInv(c)'
<1> DEFINE n == Len(inputs)
           x == inputs[next]
           a == next - Len(batch)
<1>1. /\ inputs \in Seq(Nat) /\ n \in Nat /\ next \in 1..n /\ next \in Nat /\ x \in Nat
      /\ batches \in Seq(Seq(Nat)) /\ batch \in Seq(Nat) /\ result = "running"
  BY DEF PartInv, PartTypeInv, Opens, Going
<1>2. /\ batch # << >> /\ IsFull(c, batch, body, x) /\ x \in c.accepted
      /\ batches' = Append(batches, batch) /\ batch' = <<x>> /\ body' = c.empty + x
      /\ next' = next + 1 /\ inputs' = inputs /\ result' = "running"
  BY <1>1 DEF Opens, IsFull
<1>3. /\ Len(batch) <= next - 1 /\ batch = SubSeq(inputs, a, next - 1)
      /\ body = Weight(c, batch) /\ FitsIn(c, batch)
  BY <1>1, <1>2 DEF PartInv, OpenInv
<1>4. Len(batch) \in Nat /\ Len(batch) # 0 /\ a \in 1..n /\ next \in (a + 1)..n /\ a \in Nat /\ a <= next
  <2>1. Len(batch) \in Nat /\ Len(batch) # 0
    BY <1>1, <1>2, EmptySeq
  <2>2. QED
    BY <1>1, <1>3, <2>1
<1>5. c.empty \in Nat
  BY DEF LimitsOk
<1> HIDE DEF x, a, n
<1>6. /\ Len(batches) \in Nat /\ Len(batches') = Len(batches) + 1 /\ Len(batch') = 1
      /\ batches'[Len(batches) + 1] = batch
      /\ \A i \in 1..Len(batches) : batches'[i] = batches[i]
      /\ batches' \in Seq(Seq(Nat)) /\ batch' \in Seq(Nat) /\ batch' # << >>
  BY <1>1, <1>2
<1>7. PartTypeInv'
  BY <1>1, <1>2, <1>5, <1>6, SMTT(20) DEF PartTypeInv, n
<1>8. SubSeq(inputs, next, next) = <<x>>
  <2>1. SubSeq(inputs, next, next) \in Seq(Nat) /\ Len(SubSeq(inputs, next, next)) = 1
        /\ SubSeq(inputs, next, next)[1] = inputs[next]
    <3>1. next \in 1..(Len(inputs) + 1) /\ next \in (next - 1)..Len(inputs)
      BY <1>1 DEF n
    <3>2. /\ SubSeq(inputs, next, next) \in Seq(Nat) /\ Len(SubSeq(inputs, next, next)) = next - next + 1
          /\ \A i \in 1..(next - next + 1) : SubSeq(inputs, next, next)[i] = inputs[next + i - 1]
      BY <1>1, <3>1, SumOfStretch
    <3>3. next - next + 1 = 1 /\ next + 1 - 1 = next /\ 1 \in 1..1
      BY <1>1
    <3>4. QED
      BY <3>2, <3>3
  <2> DEFINE t == SubSeq(inputs, next, next)
             u == <<x>>
  <2>2. u \in Seq(Nat) /\ Len(u) = 1 /\ u[1] = x
    BY <1>1
  <2> HIDE DEF t, u
  <2>3. t \in Seq(Nat) /\ Len(t) = 1 /\ t[1] = x
    BY <2>1 DEF t, x
  <2>4. t = u
    BY <2>2, <2>3, SeqEqual
  <2>5. QED
    BY <2>4 DEF t, u
<1>9. OrderInv'
  <2>1. FlattenSeq(batches') = FlattenSeq(batches) \o batch
    BY <1>1, <1>2, JoinedEnd
  <2>2. FlattenSeq(batches') = SubSeq(inputs, 1, next - 1)
    BY <2>1 DEF PartInv, OrderInv
  <2>3. Append(SubSeq(inputs, 1, next - 1), x) = SubSeq(inputs, 1, next)
    <3>1. 1 \in 1..Len(inputs) /\ next \in 1..Len(inputs)
      BY <1>1 DEF n
    <3>2. QED
      BY <1>1, <3>1, StretchEnd DEF x
  <2>4. FlattenSeq(batches') \in Seq(Nat)
    <3>1. batches' \in Seq(Seq(Nat))
      BY <1>6, Zenon
    <3>2. QED
      BY <3>1, JoinedType, Zenon
  <2>5. FlattenSeq(batches') \o <<x>> = Append(FlattenSeq(batches'), x)
    BY <1>1, <2>4, AppendIsConcat
  <2>6. next' - 1 = next
    BY <1>1, <1>2
  <2>7. FlattenSeq(batches') \o batch' = SubSeq(inputs', 1, next' - 1)
    BY <1>2, <2>2, <2>3, <2>5, <2>6
  <2>8. QED
    BY <2>7 DEF OrderInv
<1>10. FitsIn(c, <<x>>) /\ Weight(c, <<x>>) = c.empty + x
  <2>1. FitsIn(c, <<x>>)
    <3>1. Len(<<x>>) = 1 /\ DOMAIN <<x>> = 1..1 /\ <<x>>[1] = x /\ <<x>> # << >>
      OBVIOUS
    <3>2. 1 <= c.count
      BY DEF LimitsOk
    <3>3. \A i \in DOMAIN <<x>> : <<x>>[i] \in c.accepted
      BY <1>2, <3>1
    <3>4. QED
      BY <3>1, <3>2, <3>3 DEF FitsIn
  <2> DEFINE u == <<x>>
  <2>2. u \in Seq(Nat) /\ Len(u) = 1 /\ u[1] = x
    BY <1>1
  <2> HIDE DEF u
  <2>3. Sums(u)[0] = 0 /\ Sums(u)[1] = Sums(u)[1 - 1] + u[1] /\ 1 - 1 = 0
    BY <2>2, SumsAre
  <2>4. Sums(u)[1] = x
    BY <1>1, <2>2, <2>3
  <2>5. c.comma * (1 - 1) = 0
    BY DEF LimitsOk
  <2>6. Weight(c, u) = c.empty + x
    BY <1>1, <1>5, <2>2, <2>4, <2>5 DEF Weight
  <2>7. QED
    BY <2>1, <2>6 DEF u
<1>11. OpenInv(c)'
  <2>1. next' - Len(batch') = next /\ next' - 1 = next /\ Len(batch') <= next' - 1
    <3>1. next \in Nat /\ 1 <= next
      BY <1>1
    <3>2. next' = next + 1 /\ Len(batch') = 1
      BY <1>2, <1>6
    <3>3. QED
      BY ONLY <3>1, <3>2
  <2>2. batch' = SubSeq(inputs', next' - Len(batch'), next' - 1)
    BY <1>2, <1>8, <2>1
  <2>3. body' = Weight(c, batch') /\ FitsIn(c, batch')
    BY <1>2, <1>10
  <2>4. batch' # << >>
    BY <1>6, Zenon
  <2>5. QED
    BY <2>1, <2>2, <2>3, <2>4, Zenon DEF OpenInv
<1>12. FitInv(c)'
  <2>1. \A i \in 1..Len(batches') : FitsIn(c, batches'[i])
    <3>1. \A i \in 1..(Len(batches) + 1) : i \in 1..Len(batches) \/ i = Len(batches) + 1
      BY <1>6
    <3>2. QED
      BY <1>3, <1>6, <3>1 DEF PartInv, FitInv
  <2>2. QED
    BY <2>1 DEF FitInv
<1>13. FewInv(c)'
  <2>1. ASSUME NEW ends, CutFitsIn(c, inputs, ends)
        PROVE  Len(batches) + 1 <= Cardinality(EndsBefore(ends, next))
    <3>1. Len(batches) <= Cardinality(EndsBefore(ends, a))
      BY <1>1, <2>1 DEF PartInv, FewInv, a
    <3>2. \E e \in ends : a <= e /\ e < next
      <4>1. IsFull(c, SubSeq(inputs, a, next - 1), Weight(c, SubSeq(inputs, a, next - 1)), inputs[next])
        BY <1>2, <1>3 DEF x
      <4>2. a \in 1..Len(inputs) /\ next \in (a + 1)..Len(inputs)
        BY <1>4 DEF n
      <4>3. QED
        BY <1>1, <2>1, <4>1, <4>2, NoLeap, Zenon
    <3>3. ends \in SUBSET (1..n) /\ n \in Nat
      BY <1>1, <2>1 DEF CutFitsIn, n
    <3>4. /\ Cardinality(EndsBefore(ends, a)) \in Nat
          /\ (\E e \in ends : a <= e /\ e < next) =>
               Cardinality(EndsBefore(ends, a)) + 1 <= Cardinality(EndsBefore(ends, next))
      BY <1>1, <1>4, <3>3, EndsCounted, Zenon
    <3>5. IsFiniteSet(EndsBefore(ends, next)) /\ Cardinality(EndsBefore(ends, next)) \in Nat
      <4>1. next <= next
        BY <1>1
      <4>2. QED
        BY <1>1, <3>3, <4>1, EndsCounted, Zenon
    <3>6. QED
      BY <1>6, <3>1, <3>2, <3>4, <3>5
  <2>2. next' - Len(batch') = next
    BY <1>1, <1>2, <1>6
  <2>3. (IF result' = "returned" THEN Len(inputs') + 1 ELSE next' - Len(batch')) = next
    BY <1>2, <2>2
  <2>4. QED
    BY <1>2, <1>6, <2>1, <2>3 DEF FewInv
<1>14. QED
  BY <1>7, <1>9, <1>11, <1>12, <1>13 DEF PartInv

LEMMA JoinThenAppend ==
  ASSUME NEW S, NEW s \in Seq(S), NEW t \in Seq(S), NEW x \in S
  PROVE  s \o Append(t, x) = Append(s \o t, x)
<1>1. s \o t \in Seq(S) /\ <<x>> \in Seq(S)
  OBVIOUS
<1>2. Append(t, x) = t \o <<x>> /\ Append(s \o t, x) = (s \o t) \o <<x>>
  BY <1>1, AppendIsConcat
<1>3. (s \o t) \o <<x>> = s \o (t \o <<x>>)
  BY <1>1, ConcatAssociative
<1>4. QED
  BY <1>2, <1>3

LEMMA OneMoreWeighs ==
  ASSUME NEW empty \in Nat, NEW k \in Nat, NEW l \in Nat, NEW a \in Nat, NEW p \in Int, NEW q \in Int,
         NEW x \in Nat, NEW comma \in Nat, l = k + x, p + comma = q
  PROVE  empty + (k - a) + p + x + comma = empty + (l - a) + q
OBVIOUS

LEMMA ExtendingKeeps ==
  ASSUME NEW c, LimitsOk(c), PartInv(c), Extends(c)
  PROVE  PartInv(c)'
<1> DEFINE n == Len(inputs)
           x == inputs[next]
           a == next - Len(batch)
           t == Append(batch, x)
<1>1. /\ inputs \in Seq(Nat) /\ n \in Nat /\ next \in 1..n /\ next \in Nat /\ x \in Nat
      /\ batches \in Seq(Seq(Nat)) /\ batch \in Seq(Nat) /\ result = "running" /\ body \in Nat
  BY SMTT(20) DEF PartInv, PartTypeInv, Extends, Going
<1>2. /\ ~IsFull(c, batch, body, x) /\ x \in c.accepted
      /\ batches' = batches /\ batch' = t
      /\ body' = body + x + (IF batch = << >> THEN 0 ELSE c.comma)
      /\ next' = next + 1 /\ inputs' = inputs /\ result' = "running"
  BY <1>1 DEF Extends
<1>3. /\ Len(batch) <= next - 1 /\ batch = SubSeq(inputs, a, next - 1)
      /\ batch = << >> => body = c.empty
      /\ batch # << >> => body = Weight(c, batch) /\ FitsIn(c, batch)
  BY <1>1, Zenon DEF PartInv, OpenInv
<1>4. Len(batch) \in Nat /\ (batch = << >> <=> Len(batch) = 0)
  BY <1>1, EmptySeq
<1>5. a \in 1..n /\ next \in a..n /\ a \in Nat
  BY <1>1, <1>3, <1>4
<1>6. c.empty \in Nat /\ c.comma \in Nat /\ c.target \in Nat /\ c.count \in Nat /\ c.count # 0
  BY DEF LimitsOk
<1>7. t \in Seq(Nat) /\ Len(t) = Len(batch) + 1 /\ t[Len(batch) + 1] = x
      /\ \A i \in 1..Len(batch) : t[i] = batch[i]
  BY <1>1
<1>8. t # << >>
  BY <1>4, <1>7, EmptySeq
<1> HIDE DEF a, n
<1>9. t = SubSeq(inputs, a, next)
  <2>1. a \in 1..Len(inputs) /\ next \in a..Len(inputs)
    BY <1>5 DEF n
  <2>2. Append(SubSeq(inputs, a, next - 1), inputs[next]) = SubSeq(inputs, a, next)
    BY <1>1, <2>1, StretchEnd, Zenon
  <2>3. QED
    BY <1>3, <2>2
<1> HIDE DEF x, t
<1>10. PartTypeInv'
  <2>1. body' \in Nat /\ next' \in 1..(n + 1)
    BY <1>1, <1>2, <1>6
  <2>2. QED
    BY <1>1, <1>2, <1>7, <2>1 DEF PartTypeInv, n
<1>11. OrderInv'
  <2>1. FlattenSeq(batches) \in Seq(Nat)
    BY <1>1, JoinedType, Zenon
  <2>2. FlattenSeq(batches) \o t = Append(FlattenSeq(batches) \o batch, x)
    BY <1>1, <2>1, JoinThenAppend, SMTT(20) DEF t
  <2>3. FlattenSeq(batches) \o batch = SubSeq(inputs, 1, next - 1)
    BY DEF PartInv, OrderInv
  <2>4. Append(SubSeq(inputs, 1, next - 1), x) = SubSeq(inputs, 1, next)
    <3>1. 1 \in 1..Len(inputs) /\ next \in 1..Len(inputs)
      BY <1>1 DEF n
    <3>2. QED
      BY <1>1, <3>1, StretchEnd DEF x
  <2>5. next' - 1 = next
    BY <1>1, <1>2
  <2>6. FlattenSeq(batches') \o batch' = SubSeq(inputs', 1, next' - 1)
    BY <1>2, <2>2, <2>3, <2>4, <2>5
  <2>7. QED
    BY <2>6 DEF OrderInv
<1>12. a - 1 \in Nat /\ next - a = Len(batch) /\ next' - Len(batch') = a
  <2>1. next \in Nat /\ a \in Nat /\ 1 <= a
    BY <1>1, <1>5
  <2>2. next - Len(batch) = a
    BY DEF a
  <2>3. next' = next + 1 /\ Len(batch') = Len(batch) + 1
    BY <1>2, <1>7
  <2>4. QED
    BY ONLY <1>4, <2>1, <2>2, <2>3
<1>13. body' = Weight(c, t)
  <2> DEFINE g == Sums(inputs)
  <2>1. g[next] = g[next - 1] + x /\ g[next - 1] \in Nat /\ g[next] \in Nat
    <3>1. /\ g \in [0..n -> Nat] /\ \A i \in 1..n : g[i] = g[i - 1] + inputs[i]
      BY <1>1, SumsAre DEF n
    <3>2. next \in 0..n /\ next - 1 \in 0..n
      BY <1>1
    <3> HIDE DEF g
    <3>3. QED
      BY <1>1, <3>1, <3>2 DEF x
  <2>2. /\ Weight(c, t) = c.empty + (g[next] - g[a - 1]) + c.comma * Len(batch)
        /\ g[a - 1] \in Nat
    <3>1. a \in 1..Len(inputs) /\ next \in a..Len(inputs)
      BY <1>5 DEF n
    <3>2. /\ Weight(c, SubSeq(inputs, a, next)) = c.empty + (g[next] - g[a - 1]) + c.comma * (next - a)
          /\ g[a - 1] \in Nat
      BY <1>1, <3>1, StretchWeighs
    <3>3. QED
      BY <1>9, <1>12, <3>2
  <2>3. CASE batch = << >>
    <3>1. Len(batch) = 0 /\ body' = c.empty + x
      <4>1. Len(batch) = 0 /\ body = c.empty /\ body' = body + x + 0
        BY <1>2, <1>3, <1>4, <2>3, Zenon
      <4>2. x \in Nat /\ c.empty \in Nat
        BY <1>1, <1>6
      <4>3. QED
        BY <4>1, <4>2
    <3>2. a = next
      BY <1>1, <3>1 DEF a
    <3>3. c.comma * Len(batch) = 0
      BY <1>6, <3>1
    <3> HIDE DEF g
    <3>4. QED
      BY <1>1, <1>6, <2>1, <2>2, <3>1, <3>2, <3>3, SMTT(20)
  <2>4. CASE batch # << >>
    <3>1. Len(batch) # 0 /\ body' = Weight(c, batch) + x + c.comma
      BY <1>1, <1>2, <1>3, <1>4, <2>4
    <3>2. Weight(c, batch) = c.empty + (g[next - 1] - g[a - 1]) + c.comma * (Len(batch) - 1)
      <4>1. a \in 1..Len(inputs) /\ next - 1 \in a..Len(inputs)
        <5>1. a <= next - 1
          BY <1>1, <1>4, <1>5, <1>12, <3>1
        <5>2. QED
          BY <1>1, <1>5, <5>1 DEF n
      <4>2. Weight(c, SubSeq(inputs, a, next - 1))
              = c.empty + (g[next - 1] - g[a - 1]) + c.comma * ((next - 1) - a)
        BY <1>1, <4>1, StretchWeighs
      <4>3. (next - 1) - a = Len(batch) - 1
        BY <1>1, <1>4, <1>5, <1>12
      <4>4. QED
        BY <1>3, <4>2, <4>3
    <3>3. c.comma * (Len(batch) - 1) + c.comma = c.comma * Len(batch)
      <4>1. \A k \in Nat : \A y \in Nat : k * y + k = k * (y + 1)
        OBVIOUS
      <4>2. Len(batch) - 1 \in Nat /\ (Len(batch) - 1) + 1 = Len(batch)
        BY <1>4, <3>1
      <4>3. QED
        BY <1>6, <4>1, <4>2
    <3>4. c.comma * (Len(batch) - 1) \in Int /\ c.comma * Len(batch) \in Int
      BY <1>4, <1>6
    <3> DEFINE p == c.comma * (Len(batch) - 1)
               q == c.comma * Len(batch)
    <3>5. p \in Int /\ q \in Int /\ p + c.comma = q
      BY <3>3, <3>4
    <3>6. body' = c.empty + (g[next - 1] - g[a - 1]) + p + x + c.comma
      BY <3>1, <3>2
    <3>7. Weight(c, t) = c.empty + (g[next] - g[a - 1]) + q /\ g[a - 1] \in Nat
      BY <2>2
    <3>8. x \in Nat
      BY <1>1
    <3>9. c.empty \in Nat /\ c.comma \in Nat
      BY <1>6
    <3> HIDE DEF p, q, g
    <3>10. c.empty + (g[next - 1] - g[a - 1]) + p + x + c.comma = c.empty + (g[next] - g[a - 1]) + q
      BY ONLY <2>1, <3>5, <3>7, <3>8, <3>9, OneMoreWeighs
    <3>11. QED
      BY <3>6, <3>7, <3>10
  <2>5. QED
    BY <2>3, <2>4
<1>14. FitsIn(c, t)
  <2>1. Len(t) <= c.count /\ (Len(t) = 1 \/ Weight(c, t) <= c.target)
    <3>1. CASE batch = << >>
      BY <1>4, <1>6, <1>7, <3>1
    <3>2. CASE batch # << >>
      <4>1. Len(batch) # c.count /\ ~(body + c.comma + x > c.target) /\ Len(batch) <= c.count
        BY <1>2, <1>3, <3>2 DEF IsFull, FitsIn
      <4>2. Weight(c, t) = body + x + c.comma
        BY <1>2, <1>13, <3>2
      <4>3. Len(t) <= c.count
        <5>1. Len(t) = Len(batch) + 1 /\ c.count \in Nat /\ Len(batch) \in Nat
          BY <1>4, <1>6, <1>7
        <5>2. QED
          BY ONLY <4>1, <5>1
      <4>4. Weight(c, t) <= c.target
        <5>1. body + c.comma + x \in Nat /\ body + x + c.comma = body + c.comma + x /\ c.target \in Nat
          BY <1>1, <1>6
        <5>2. QED
          BY ONLY <4>1, <4>2, <5>1
      <4>5. QED
        BY <4>3, <4>4
    <3>3. QED
      BY <3>1, <3>2
  <2>2. \A i \in DOMAIN t : t[i] \in c.accepted
    <3>1. DOMAIN t = 1..(Len(batch) + 1) /\ DOMAIN batch = 1..Len(batch)
      BY <1>1, <1>7
    <3>2. \A i \in 1..(Len(batch) + 1) : i \in 1..Len(batch) \/ i = Len(batch) + 1
      BY <1>4
    <3>3. \A i \in 1..Len(batch) : batch[i] \in c.accepted
      <4>1. batch # << >> => \A i \in DOMAIN batch : batch[i] \in c.accepted
        BY <1>3, Zenon DEF FitsIn
      <4>2. \A i \in 1..Len(batch) : batch # << >>
        BY <1>4
      <4>3. QED
        BY <3>1, <4>1, <4>2, Zenon
    <3>4. QED
      BY <1>2, <1>7, <3>1, <3>2, <3>3
  <2>3. QED
    BY <1>8, <2>1, <2>2 DEF FitsIn
<1>15. OpenInv(c)'
  <2>1. next' - 1 = next /\ Len(batch') <= next' - 1
    BY <1>1, <1>2, <1>3, <1>4, <1>7
  <2>2. batch' = SubSeq(inputs', next' - Len(batch'), next' - 1)
    BY <1>2, <1>9, <1>12, <2>1
  <2>3. batch' # << >> /\ body' = Weight(c, batch') /\ FitsIn(c, batch')
    BY <1>2, <1>8, <1>13, <1>14
  <2>4. QED
    BY <2>1, <2>2, <2>3, Zenon DEF OpenInv
<1>16. FitInv(c)'
  BY <1>2 DEF PartInv, FitInv
<1>17. FewInv(c)'
  <2>1. (IF result' = "returned" THEN Len(inputs') + 1 ELSE next' - Len(batch')) = a
    BY <1>2, <1>12
  <2>2. (IF result = "returned" THEN Len(inputs) + 1 ELSE next - Len(batch)) = a
    BY <1>1 DEF a
  <2>3. FewInv(c)
    BY DEF PartInv
  <2>4. QED
    BY <1>2, <2>1, <2>2, <2>3, Zenon DEF FewInv
<1>18. QED
  BY <1>10, <1>11, <1>15, <1>16, <1>17 DEF PartInv

LEMMA GivingKeeps ==
  ASSUME NEW c, LimitsOk(c), PartInv(c), Gives(c)
  PROVE  PartInv(c)'
<1> DEFINE n == Len(inputs)
           a == next - Len(batch)
<1>1. /\ inputs \in Seq(Nat) /\ n \in Nat /\ next = n + 1
      /\ batches \in Seq(Seq(Nat)) /\ batch \in Seq(Nat) /\ result = "running"
  BY DEF PartInv, PartTypeInv, Gives
<1>2. /\ batches' = IF batch = << >> THEN batches ELSE Append(batches, batch)
      /\ batch' = << >> /\ body' = c.empty /\ next' = next /\ inputs' = inputs /\ result' = "returned"
  BY DEF Gives
<1>3. /\ Len(batch) <= next - 1
      /\ batch = << >> => next = 1 /\ batches = << >>
      /\ batch # << >> => FitsIn(c, batch)
  BY <1>1, Zenon DEF PartInv, OpenInv
<1>4. Len(batch) \in Nat /\ (batch = << >> <=> Len(batch) = 0) /\ Len(batches) \in Nat
  BY <1>1, EmptySeq
<1>5. PartTypeInv'
  <2>1. batches' \in Seq(Seq(Nat)) /\ batch' \in Seq(Nat)
    BY <1>1, <1>2
  <2>2. c.empty \in Nat
    BY DEF LimitsOk
  <2>3. QED
    BY <1>1, <1>2, <2>1, <2>2 DEF PartTypeInv
<1>6. OrderInv'
  <2>1. FlattenSeq(batches) \o batch = SubSeq(inputs, 1, next - 1)
    BY DEF PartInv, OrderInv
  <2>2. FlattenSeq(batches) \in Seq(Nat)
    BY <1>1, JoinedType, Zenon
  <2>3. FlattenSeq(batches') \o << >> = FlattenSeq(batches) \o batch
    <3>1. CASE batch = << >>
      BY <1>2, <3>1
    <3>2. CASE batch # << >>
      <4>1. FlattenSeq(batches') = FlattenSeq(batches) \o batch
        BY <1>1, <1>2, <3>2, JoinedEnd
      <4>2. FlattenSeq(batches) \o batch \in Seq(Nat)
        BY <1>1, <2>2
      <4>3. QED
        BY <4>1, <4>2, ConcatEmptySeq
    <3>3. QED
      BY <3>1, <3>2
  <2>4. FlattenSeq(batches') \o batch' = SubSeq(inputs', 1, next' - 1)
    BY <1>2, <2>1, <2>3
  <2>5. QED
    BY <2>4 DEF OrderInv
<1>7. OpenInv(c)'
  <2>1. result' = "returned" /\ batch' = << >> /\ body' = c.empty
    BY <1>2
  <2>2. QED
    BY <2>1, Zenon DEF OpenInv
<1>8. FitInv(c)'
  <2>1. FitInv(c)
    BY DEF PartInv
  <2>2. CASE batch = << >>
    BY <1>2, <2>1, <2>2 DEF FitInv
  <2>3. CASE batch # << >>
    <3>1. Len(batches') = Len(batches) + 1 /\ batches'[Len(batches) + 1] = batch
          /\ \A i \in 1..Len(batches) : batches'[i] = batches[i]
      BY <1>1, <1>2, <2>3
    <3>2. \A i \in 1..(Len(batches) + 1) : i \in 1..Len(batches) \/ i = Len(batches) + 1
      BY <1>4
    <3>3. \A i \in 1..Len(batches') : FitsIn(c, batches'[i])
      BY <1>3, <2>1, <2>3, <3>1, <3>2 DEF FitInv
    <3>4. QED
      BY <3>3 DEF FitInv
  <2>4. QED
    BY <2>2, <2>3
<1>9. FewInv(c)'
  <2>1. ASSUME NEW ends, CutFitsIn(c, inputs, ends)
        PROVE  Len(batches') <= Cardinality(EndsBefore(ends, n + 1))
    <3>1. ends \in SUBSET (1..n) /\ n \in Nat /\ (inputs # << >> => n \in ends)
      BY <1>1, <2>1 DEF CutFitsIn
    <3>2. Cardinality(EndsBefore(ends, n + 1)) \in Nat
      <4>1. n + 1 \in Nat /\ n + 1 <= n + 1
        BY <1>1
      <4>2. QED
        BY <3>1, <4>1, EndsCounted, Zenon
    <3>3. CASE batch = << >>
      <4>1. Len(batches') = 0
        BY <1>2, <1>3, <3>3
      <4>2. QED
        BY <3>2, <4>1
    <3>4. CASE batch # << >>
      <4>1. a \in Nat /\ n + 1 \in Nat /\ a <= n /\ a <= n + 1 /\ n # 0
        BY <1>1, <1>3, <1>4, <3>4
      <4>2. inputs # << >>
        BY <4>1
      <4>3. n \in ends /\ a <= n /\ n < n + 1
        BY <1>1, <3>1, <4>1, <4>2
      <4>4. /\ Cardinality(EndsBefore(ends, a)) \in Nat
            /\ (\E e \in ends : a <= e /\ e < n + 1) =>
                 Cardinality(EndsBefore(ends, a)) + 1 <= Cardinality(EndsBefore(ends, n + 1))
        BY <3>1, <4>1, EndsCounted, Zenon
      <4>5. Len(batches) <= Cardinality(EndsBefore(ends, a))
        BY <1>1, <2>1 DEF PartInv, FewInv
      <4>6. Len(batches') = Len(batches) + 1
        BY <1>1, <1>2, <3>4
      <4>7. Cardinality(EndsBefore(ends, a)) + 1 <= Cardinality(EndsBefore(ends, n + 1))
        BY <4>3, <4>4, Zenon
      <4> HIDE DEF a, n
      <4>8. QED
        BY <1>4, <3>2, <4>4, <4>5, <4>6, <4>7
    <3>5. QED
      BY <3>3, <3>4
  <2>2. (IF result' = "returned" THEN Len(inputs') + 1 ELSE next' - Len(batch')) = n + 1
    BY <1>2
  <2>3. QED
    BY <1>2, <2>1, <2>2, Zenon DEF FewInv
<1>10. QED
  BY <1>5, <1>6, <1>7, <1>8, <1>9 DEF PartInv

LEMMA RefusingKeeps ==
  ASSUME NEW c, PartInv(c), Refuses \/ Stays
  PROVE  PartInv(c)'
<1>1. /\ batches' = batches /\ batch' = batch /\ body' = body /\ next' = next /\ inputs' = inputs
      /\ result' \in {"running", "raised", "returned"}
      /\ (result' = "returned" <=> result = "returned")
  BY DEF Refuses, Stays, Going, PartInv, PartTypeInv
<1>2. PartTypeInv' /\ OrderInv' /\ FitInv(c)'
  BY <1>1 DEF PartInv, PartTypeInv, OrderInv, FitInv
<1>3. OpenInv(c)'
  BY <1>1, Zenon DEF PartInv, OpenInv
<1>4. FewInv(c)'
  <2>1. (IF result' = "returned" THEN Len(inputs') + 1 ELSE next' - Len(batch'))
          = IF result = "returned" THEN Len(inputs) + 1 ELSE next - Len(batch)
    BY <1>1
  <2>2. QED
    BY <1>1, <2>1, Zenon DEF PartInv, FewInv
<1>5. QED
  BY <1>2, <1>3, <1>4 DEF PartInv

LEMMA PartKeeps ==
  ASSUME NEW c, LimitsOk(c), PartInv(c),
         \/ Opens(c) \/ Extends(c) \/ Gives(c) \/ Refuses \/ Stays
  PROVE  PartInv(c)' /\ inputs' = inputs
<1>1. PartInv(c)'
  BY OpeningKeeps, ExtendingKeeps, GivingKeeps, RefusingKeeps
<1>2. inputs' = inputs
  BY DEF Opens, Extends, Gives, Refuses, Stays
<1>3. QED
  BY <1>1, <1>2

-----------------------------------------------------------------------------
(***************************************************************************)
(* Cohere, and the same for OpenAI.                                        *)
(***************************************************************************)
CohereLimits ==
  [empty |-> EmptyBody, comma |-> Comma, count |-> MaxInputs, target |-> Target, accepted |-> Accepted]

LEMMA CohereFields ==
  /\ LimitsOk(CohereLimits) /\ CohereLimits.empty = EmptyBody /\ CohereLimits.comma = Comma
  /\ CohereLimits.count = MaxInputs /\ CohereLimits.target = Target /\ CohereLimits.accepted = Accepted
BY PartitionAssumption DEF CohereLimits, LimitsOk

LEMMA CohereSteps ==
  ASSUME Next \/ UNCHANGED vars
  PROVE  \/ Opens(CohereLimits) \/ Extends(CohereLimits) \/ Gives(CohereLimits)
         \/ Refuses \/ Stays
<1> USE CohereFields
<1> HIDE DEF CohereLimits
<1>1. \A size : BatchIsFull(size) <=> IsFull(CohereLimits, batch, body, size)
  BY DEF BatchIsFull, IsFull
<1>2. CASE StartBatch
  BY <1>1, <1>2, Zenon DEF StartBatch, More, Current, Opens, Going
<1>3. CASE Extend
  BY <1>1, <1>3, Zenon DEF Extend, More, Current, Extends, Going
<1>4. CASE Reject
  BY <1>4 DEF Reject, More, Refuses, Going
<1>5. CASE Return
  BY <1>5 DEF Return, Gives
<1>6. CASE Rest \/ UNCHANGED vars
  BY <1>6 DEF Rest, vars, vars, Stays
<1>7. QED
  BY <1>2, <1>3, <1>4, <1>5, <1>6 DEF Next

LEMMA CohereStarts ==
  ASSUME Init
  PROVE  inputs \in AllInputs /\ PartInv(CohereLimits)
<1>1. /\ inputs \in AllInputs /\ next = 1 /\ batches = << >> /\ batch = << >>
      /\ body = EmptyBody /\ result = "running"
  BY DEF Init
<1>2. PICK k \in 0..MaxCalled : inputs \in [1..k -> Sizes]
  BY <1>1 DEF AllInputs
<1>3. inputs \in Seq(Nat)
  <2>1. k \in Nat /\ DOMAIN inputs = 1..k /\ inputs = [i \in 1..k |-> inputs[i]]
    BY <1>2, PartitionAssumption
  <2>2. \A i \in 1..k : inputs[i] \in Nat
    <3>1. \A i \in 1..k : inputs[i] \in Sizes
      BY <1>2
    <3>2. QED
      BY <3>1, PartitionAssumption
  <2>3. inputs \in [1..k -> Nat]
    BY <2>1, <2>2
  <2>4. QED
    BY <2>1, <2>3, IsASeq
<1>4. PartInv(CohereLimits)
  BY <1>1, <1>3, CohereFields, AtTheStart
<1>5. QED
  BY <1>1, <1>4

LEMMA CohereIsBest ==
  ASSUME inputs \in AllInputs, PartInv(CohereLimits)
  PROVE  TypeOK /\ OrderIsKept /\ RequestsFit /\ FewestRequests
<1> DEFINE c == CohereLimits
<1>1. /\ LimitsOk(c) /\ c.empty = EmptyBody /\ c.comma = Comma
      /\ c.count = MaxInputs /\ c.target = Target /\ c.accepted = Accepted
  BY CohereFields
<1> HIDE DEF c
<1>2. PartTypeInv /\ OrderInv /\ OpenInv(c) /\ FitInv(c) /\ FewInv(c)
  BY DEF PartInv, c
<1>3. TypeOK
  BY <1>2 DEF TypeOK, PartTypeInv
<1>4. OrderIsKept
  BY <1>2 DEF OrderIsKept, OrderInv
<1>5. \A s : Body(s) = Weight(c, s)
  BY <1>1, Zenon DEF Body, Weight, Sums
<1>6. \A s : Fits(s) <=> FitsIn(c, s)
  BY <1>1, <1>5, Zenon DEF Fits, FitsIn
<1>7. RequestsFit
  <2>1. DOMAIN batches = 1..Len(batches)
    BY <1>2 DEF PartTypeInv
  <2>2. \A i \in DOMAIN batches : Fits(batches[i])
    BY <1>2, <1>6, <2>1, Zenon DEF FitInv
  <2>3. batch # << >> => Fits(batch) /\ body = Body(batch)
    BY <1>2, <1>5, <1>6, Zenon DEF OpenInv
  <2>4. QED
    BY <2>2, <2>3, Zenon DEF RequestsFit
<1>8. FewestRequests
  <2>1. SUFFICES ASSUME result = "returned", NEW ends \in Cuts, CutFits(ends)
                 PROVE  Len(batches) <= Cardinality(ends)
    BY DEF FewestRequests
  <2>2. \A e \in ends : Fits(SubSeq(inputs, From(ends, e), e))
    BY <2>1, Zenon DEF CutFits, From
  <2>3. ends \in SUBSET (1..Len(inputs)) /\ (inputs # << >> => Len(inputs) \in ends)
    BY DEF Cuts
  <2>4. CutFitsIn(c, inputs, ends)
    BY <1>6, <2>2, <2>3, Zenon DEF CutFitsIn
  <2>5. Len(batches) <= Cardinality(EndsBefore(ends, Len(inputs) + 1))
    BY <1>2, <2>1, <2>4 DEF FewInv
  <2>6. EndsBefore(ends, Len(inputs) + 1) = ends
    <3>1. \A e \in ends : e < Len(inputs) + 1
      BY <1>2, <2>3 DEF PartTypeInv
    <3>2. QED
      BY <3>1, Zenon DEF EndsBefore
  <2>7. QED
    BY <2>5, <2>6
<1>9. QED
  BY <1>3, <1>4, <1>7, <1>8

TextLimits ==
  [empty |-> 0, comma |-> 0, count |-> MaxTexts, target |-> Target, accepted |-> 1..TokenLimit]

LEMMA TextFields ==
  /\ LimitsOk(TextLimits) /\ TextLimits.empty = 0 /\ TextLimits.comma = 0
  /\ TextLimits.count = MaxTexts /\ TextLimits.target = Target /\ TextLimits.accepted = 1..TokenLimit
BY TextsAssumption, PartitionAssumption DEF TextLimits, LimitsOk

LEMMA TextSteps ==
  ASSUME OpenAIInputs!Next \/ UNCHANGED vars
  PROVE  \/ Opens(TextLimits) \/ Extends(TextLimits) \/ Gives(TextLimits)
         \/ Refuses \/ Stays
<1> USE TextFields
<1> HIDE DEF TextLimits
<1>1. \A size : OpenAIInputs!BatchIsFull(size) <=> IsFull(TextLimits, batch, body, size)
  BY DEF OpenAIInputs!BatchIsFull, IsFull
<1>2. CASE OpenAIInputs!StartBatch
  BY <1>1, <1>2, Zenon DEF OpenAIInputs!StartBatch, OpenAIInputs!More, OpenAIInputs!Current, Opens, Going
<1>3. CASE OpenAIInputs!Extend
  BY <1>1, <1>3, Zenon DEF OpenAIInputs!Extend, OpenAIInputs!More, OpenAIInputs!Current, Extends, Going
<1>4. CASE OpenAIInputs!Reject
  BY <1>4 DEF OpenAIInputs!Reject, OpenAIInputs!More, Refuses, Going
<1>5. CASE OpenAIInputs!Return
  BY <1>5 DEF OpenAIInputs!Return, Gives
<1>6. CASE OpenAIInputs!Rest \/ UNCHANGED vars
  BY <1>6 DEF OpenAIInputs!Rest, OpenAIInputs!vars, vars, Stays
<1>7. QED
  BY <1>2, <1>3, <1>4, <1>5, <1>6 DEF OpenAIInputs!Next

LEMMA TextStarts ==
  ASSUME OpenAIInputs!Init
  PROVE  inputs \in OpenAIInputs!AllInputs /\ PartInv(TextLimits)
<1>1. /\ inputs \in OpenAIInputs!AllInputs /\ next = 1 /\ batches = << >> /\ batch = << >>
      /\ body = 0 /\ result = "running"
  BY DEF OpenAIInputs!Init
<1>2. PICK k \in 0..MaxCalled : inputs \in [1..k -> TokenCounts]
  BY <1>1 DEF OpenAIInputs!AllInputs
<1>3. inputs \in Seq(Nat)
  <2>1. k \in Nat /\ DOMAIN inputs = 1..k /\ inputs = [i \in 1..k |-> inputs[i]]
    BY <1>2, PartitionAssumption
  <2>2. \A i \in 1..k : inputs[i] \in Nat
    <3>1. \A i \in 1..k : inputs[i] \in TokenCounts
      BY <1>2
    <3>2. QED
      BY <3>1, TextsAssumption, PartitionAssumption
  <2>3. inputs \in [1..k -> Nat]
    BY <2>1, <2>2
  <2>4. QED
    BY <2>1, <2>3, IsASeq
<1>4. PartInv(TextLimits)
  BY <1>1, <1>3, TextFields, AtTheStart
<1>5. QED
  BY <1>1, <1>4

LEMMA TextIsBest ==
  ASSUME inputs \in OpenAIInputs!AllInputs, PartInv(TextLimits)
  PROVE  OpenAIInputs!TypeOK /\ OpenAIInputs!OrderIsKept /\ OpenAIInputs!RequestsFit /\ OpenAIInputs!FewestRequests
<1> DEFINE c == TextLimits
<1>1. /\ LimitsOk(c) /\ c.empty = 0 /\ c.comma = 0
      /\ c.count = MaxTexts /\ c.target = Target /\ c.accepted = 1..TokenLimit
  BY TextFields
<1> HIDE DEF c
<1>2. PartTypeInv /\ OrderInv /\ OpenInv(c) /\ FitInv(c) /\ FewInv(c)
  BY DEF PartInv, c
<1>3. OpenAIInputs!TypeOK
  BY <1>2 DEF OpenAIInputs!TypeOK, PartTypeInv
<1>4. OpenAIInputs!OrderIsKept
  BY <1>2 DEF OpenAIInputs!OrderIsKept, OrderInv, OpenAIInputs!FlattenSeq, FlattenSeq
<1>5. \A s : OpenAIInputs!Body(s) = Weight(c, s)
  BY <1>1, Zenon DEF OpenAIInputs!Body, Weight, OpenAIInputs!Sums, Sums
<1>6. \A s : OpenAIInputs!Fits(s) <=> FitsIn(c, s)
  BY <1>1, <1>5, Zenon DEF OpenAIInputs!Fits, FitsIn
<1>7. OpenAIInputs!RequestsFit
  <2>1. DOMAIN batches = 1..Len(batches)
    BY <1>2 DEF PartTypeInv
  <2>2. \A i \in DOMAIN batches : OpenAIInputs!Fits(batches[i])
    BY <1>2, <1>6, <2>1, Zenon DEF FitInv
  <2>3. batch # << >> => OpenAIInputs!Fits(batch) /\ body = OpenAIInputs!Body(batch)
    BY <1>2, <1>5, <1>6, Zenon DEF OpenInv
  <2>4. QED
    BY <2>2, <2>3, Zenon DEF OpenAIInputs!RequestsFit
<1>8. OpenAIInputs!FewestRequests
  <2>1. SUFFICES ASSUME result = "returned", NEW ends \in OpenAIInputs!Cuts, OpenAIInputs!CutFits(ends)
                 PROVE  Len(batches) <= Cardinality(ends)
    <3>1. \A S : OpenAIInputs!Cardinality(S) = Cardinality(S)
      BY Zenon DEF OpenAIInputs!Cardinality, Cardinality
    <3>2. QED
      BY <3>1, Zenon DEF OpenAIInputs!FewestRequests
  <2>2. \A e \in ends : OpenAIInputs!Fits(SubSeq(inputs, From(ends, e), e))
    BY <2>1, Zenon DEF OpenAIInputs!CutFits, From, OpenAIInputs!Max, Max
  <2>3. ends \in SUBSET (1..Len(inputs)) /\ (inputs # << >> => Len(inputs) \in ends)
    BY DEF OpenAIInputs!Cuts
  <2>4. CutFitsIn(c, inputs, ends)
    BY <1>6, <2>2, <2>3, Zenon DEF CutFitsIn
  <2>5. Len(batches) <= Cardinality(EndsBefore(ends, Len(inputs) + 1))
    BY <1>2, <2>1, <2>4 DEF FewInv
  <2>6. EndsBefore(ends, Len(inputs) + 1) = ends
    <3>1. \A e \in ends : e < Len(inputs) + 1
      BY <1>2, <2>3 DEF PartTypeInv
    <3>2. QED
      BY <3>1, Zenon DEF EndsBefore
  <2>7. QED
    BY <2>5, <2>6
<1>9. QED
  BY <1>3, <1>4, <1>7, <1>8

-----------------------------------------------------------------------------
PartitionInv ==
  /\ running = "cohere_inputs" => inputs \in AllInputs /\ PartInv(CohereLimits)
  /\ running = "openai_inputs" => inputs \in OpenAIInputs!AllInputs /\ PartInv(TextLimits)

LEMMA PartitionStep ==
  ASSUME PartitionInv, [FamilyNext]_familyVars
  PROVE  PartitionInv'
<1>1. running' = running
  BY DEF FamilyNext, familyVars
<1>2. ASSUME running = "cohere_inputs"
      PROVE  inputs' \in AllInputs /\ PartInv(CohereLimits)'
  <2>1. Next \/ UNCHANGED vars
    BY <1>2 DEF FamilyNext, familyVars, partitionVars
  <2>2. QED
    BY <1>2, <2>1, CohereSteps, CohereFields, PartKeeps, Zenon DEF PartitionInv
<1>3. ASSUME running = "openai_inputs"
      PROVE  inputs' \in OpenAIInputs!AllInputs /\ PartInv(TextLimits)'
  <2>1. OpenAIInputs!Next \/ UNCHANGED vars
    BY <1>3 DEF FamilyNext, familyVars, partitionVars
  <2>2. QED
    BY <1>3, <2>1, TextSteps, TextFields, PartKeeps, Zenon DEF PartitionInv
<1>4. QED
  BY <1>1, <1>2, <1>3, Zenon DEF PartitionInv, AllInputs, OpenAIInputs!AllInputs

(* For every limit and every size: the inputs go out in their order, every *)
(* request keeps to the provider's count and size, and no other way to cut *)
(* them that does so needs fewer requests.                                 *)
THEOREM GreedyIsTheBest == FamilySpec => []PartitionIsTheBest
<1>1. FamilyInit => PartitionInv
  <2>1. ASSUME FamilyInit, running = "cohere_inputs"
        PROVE  inputs \in AllInputs /\ PartInv(CohereLimits)
    BY <2>1, CohereStarts DEF FamilyInit
  <2>2. ASSUME FamilyInit, running = "openai_inputs"
        PROVE  inputs \in OpenAIInputs!AllInputs /\ PartInv(TextLimits)
    BY <2>2, TextStarts DEF FamilyInit
  <2>3. QED
    BY <2>1, <2>2, Zenon DEF PartitionInv
<1>2. PartitionInv /\ [FamilyNext]_familyVars => PartitionInv'
  BY PartitionStep
<1>3. PartitionInv => PartitionIsTheBest
  BY CohereIsBest, TextIsBest, Zenon DEF PartitionInv, PartitionIsTheBest
<1>4. QED
  BY <1>1, <1>2, <1>3, PTL DEF FamilySpec

-----------------------------------------------------------------------------
(***************************************************************************)
(* Conversations, for OpenAI and for Anthropic.                            *)
(***************************************************************************)
PartKinds == {"text", "image", "wav", "ogg", "audio", "tool_call", "bad_call", "reasoning", "thinking", "raw"}

PartSet ==
  {p \in [kind : PartKinds, id : Nat, cache_breakpoint : BOOLEAN, marked : {FALSE}] :
     p.cache_breakpoint => p.kind # "thinking"}

MessageSet == [kind : {"user", "assistant", "tool"}, parts : Seq(PartSet), answers : Nat]

PartsOf(ms) == [i \in DOMAIN ms |-> ms[i].parts]

PartList(ms) == FlattenSeq([i \in DOMAIN ms |-> ms[i].parts])

(* The parts of a message go on with the numbers of a conversation.        *)
NewParts(ms, parts) ==
  /\ parts \in Seq(PartSet)
  /\ \A j \in 1..Len(parts) : parts[j].id = Len(PartList(ms)) + j

LEMMA MessageFields ==
  ASSUME NEW m \in MessageSet
  PROVE  m.kind \in {"user", "assistant", "tool"} /\ m.parts \in Seq(PartSet) /\ m.answers \in Nat
BY DEF MessageSet

LEMMA PartListType ==
  ASSUME NEW ms \in Seq(MessageSet)
  PROVE  /\ PartList(ms) \in Seq(PartSet) /\ Len(PartList(ms)) \in Nat
         /\ PartsOf(ms) \in Seq(Seq(PartSet)) /\ PartList(ms) = FlattenSeq(PartsOf(ms))
         /\ Len(PartsOf(ms)) = Len(ms)
<1>1. Len(ms) \in Nat /\ DOMAIN ms = 1..Len(ms) /\ \A i \in 1..Len(ms) : ms[i].parts \in Seq(PartSet)
  BY MessageFields
<1>2. PartsOf(ms) \in [1..Len(ms) -> Seq(PartSet)]
  BY <1>1 DEF PartsOf
<1>3. PartsOf(ms) \in Seq(Seq(PartSet)) /\ Len(PartsOf(ms)) = Len(ms)
  BY <1>1, <1>2
<1>4. PartList(ms) = FlattenSeq(PartsOf(ms))
  BY DEF PartList, PartsOf
<1>5. PartList(ms) \in Seq(PartSet)
  BY <1>3, <1>4, JoinedType
<1>6. QED
  BY <1>3, <1>4, <1>5

LEMMA OpenAIParts ==
  ASSUME conversation \in Seq(MessageSet), NEW kinds \in SUBSET PartKinds, NEW parts \in OpenAI!PartLists(kinds)
  PROVE  NewParts(conversation, parts)
<1>1. OpenAI!PartCount(conversation) = Len(PartList(conversation))
  BY Zenon DEF OpenAI!PartCount, PartList, OpenAI!FlattenSeq, FlattenSeq
<1>2. Len(PartList(conversation)) \in Nat
  BY PartListType
<1> DEFINE count == OpenAI!PartCount(conversation)
           marks == {g \in kinds \X BOOLEAN : g[2] => g[1] \in OpenAI!Breakable}
<1>3. PICK n \in 0..(3 - count) : parts \in {[j \in 1..n |-> OpenAI!NewPart(f[j][1], count + j, f[j][2])] : f \in [1..n -> marks]}
  BY DEF OpenAI!PartLists
<1>4. PICK f \in [1..n -> marks] : parts = [j \in 1..n |-> OpenAI!NewPart(f[j][1], count + j, f[j][2])]
  BY <1>3, Zenon
<1>5. n \in Nat /\ count \in Nat
  BY <1>1, <1>2, <1>3
<1>6. ASSUME NEW j \in 1..n
      PROVE  parts[j] \in PartSet /\ parts[j].id = count + j
  <2>1. f[j] \in marks
    OBVIOUS
  <2>2. f[j][1] \in PartKinds /\ f[j][2] \in BOOLEAN /\ (f[j][2] => f[j][1] # "thinking")
    BY <2>1 DEF OpenAI!Breakable
  <2>3. parts[j] = [kind |-> f[j][1], id |-> count + j, cache_breakpoint |-> f[j][2], marked |-> FALSE]
    BY <1>4 DEF OpenAI!NewPart
  <2> HIDE DEF count, marks
  <2>4. count + j \in Nat
    BY <1>5
  <2>5. QED
    BY <2>2, <2>3, <2>4 DEF PartSet
<1> HIDE DEF count, marks
<1>7. DOMAIN parts = 1..n /\ parts = [j \in 1..n |-> parts[j]]
  BY <1>4
<1>8. parts \in Seq(PartSet) /\ Len(parts) = n
  <2>1. parts \in [1..n -> PartSet]
    BY <1>6, <1>7
  <2>2. QED
    BY <1>5, <2>1
<1>9. QED
  BY <1>1, <1>6, <1>8 DEF NewParts, count

LEMMA OpenAICalls ==
  ASSUME conversation \in Seq(MessageSet), NEW call \in OpenAI!OpenCalls
  PROVE  call \in Nat
<1> DEFINE answered == {i \in DOMAIN conversation : conversation[i].kind = "assistant"}
           last == OpenAI!Max(answered)
<1>1. OpenAI!OpenCalls = IF answered = {} THEN {}
        ELSE {p.id : p \in {q \in OpenAI!ToSet(conversation[last].parts) : q.kind = "tool_call"}}
  BY DEF OpenAI!OpenCalls
<1>2. answered # {} /\ \E p \in OpenAI!ToSet(conversation[last].parts) : call = p.id
  BY <1>1, Zenon
<1>3. last \in DOMAIN conversation
  <2>1. answered \in SUBSET (1..Len(conversation)) /\ Len(conversation) \in Nat
    OBVIOUS
  <2>2. Max(answered) \in answered
    BY <1>2, <2>1, Greatest, Zenon
  <2>3. OpenAI!Max(answered) = Max(answered)
    BY Zenon DEF OpenAI!Max, Max
  <2>4. QED
    BY <2>2, <2>3
<1>4. PICK p \in OpenAI!ToSet(conversation[last].parts) : call = p.id
  BY <1>2
<1>5. PICK k \in DOMAIN conversation[last].parts : p = conversation[last].parts[k]
  BY Zenon DEF OpenAI!ToSet
<1> HIDE DEF last, answered
<1>6. conversation[last].parts \in Seq(PartSet)
  BY <1>3, MessageFields
<1>7. p \in PartSet
  BY <1>5, <1>6
<1>8. QED
  BY <1>4, <1>7 DEF PartSet

LEMMA OpenAIAdds ==
  ASSUME conversation \in Seq(MessageSet), OpenAI!AddUser \/ OpenAI!AddAssistant \/ OpenAI!AddTool
  PROVE  \E m \in MessageSet : conversation' = Append(conversation, m) /\ NewParts(conversation, m.parts)
<1>1. ASSUME NEW kinds \in SUBSET PartKinds, NEW kind \in {"user", "assistant", "tool"}, NEW answers \in Nat,
             NEW parts \in OpenAI!PartLists(kinds), OpenAI!Add(OpenAI!Message(kind, parts, answers))
      PROVE  \E m \in MessageSet : conversation' = Append(conversation, m) /\ NewParts(conversation, m.parts)
  <2> DEFINE m == OpenAI!Message(kind, parts, answers)
  <2>1. NewParts(conversation, parts)
    BY <1>1, OpenAIParts
  <2>2. m = [kind |-> kind, parts |-> parts, answers |-> answers]
    BY DEF OpenAI!Message
  <2>3. parts \in Seq(PartSet)
    BY <2>1 DEF NewParts
  <2>4. m \in MessageSet /\ m.parts = parts
    BY <2>2, <2>3 DEF MessageSet
  <2>5. conversation' = Append(conversation, m)
    BY <1>1 DEF OpenAI!Add
  <2> HIDE DEF m
  <2>6. QED
    BY <2>1, <2>4, <2>5
<1> DEFINE users == {"text", "image", "wav", "ogg"}
           assistants == {"text", "tool_call", "reasoning", "raw"}
<1>2. users \in SUBSET PartKinds /\ assistants \in SUBSET PartKinds /\ 0 \in Nat
  BY DEF PartKinds
<1>3. CASE OpenAI!AddUser
  <2>1. PICK parts \in OpenAI!PartLists(users) : OpenAI!Add(OpenAI!Message("user", parts, 0))
    BY <1>3 DEF OpenAI!AddUser
  <2> HIDE DEF users, assistants
  <2>2. QED
    BY <1>1, <1>2, <2>1
<1>4. CASE OpenAI!AddAssistant
  <2>1. PICK parts \in OpenAI!PartLists(assistants) : OpenAI!Add(OpenAI!Message("assistant", parts, 0))
    BY <1>4 DEF OpenAI!AddAssistant
  <2> HIDE DEF users, assistants
  <2>2. QED
    BY <1>1, <1>2, <2>1
<1>5. CASE OpenAI!AddTool
  <2>1. PICK parts \in OpenAI!PartLists(users), call \in OpenAI!OpenCalls : OpenAI!Add(OpenAI!Message("tool", parts, call))
    BY <1>5 DEF OpenAI!AddTool
  <2>2. call \in Nat
    BY OpenAICalls
  <2> HIDE DEF users, assistants
  <2>3. QED
    BY <1>1, <1>2, <2>1, <2>2
<1>6. QED
  BY <1>3, <1>4, <1>5

LEMMA AnthropicParts ==
  ASSUME conversation \in Seq(MessageSet), NEW kinds \in SUBSET PartKinds, NEW parts \in Anthropic!PartLists(kinds)
  PROVE  NewParts(conversation, parts)
<1>1. Anthropic!PartCount(conversation) = Len(PartList(conversation))
  BY Zenon DEF Anthropic!PartCount, PartList, Anthropic!FlattenSeq, FlattenSeq
<1>2. Len(PartList(conversation)) \in Nat
  BY PartListType
<1> DEFINE count == Anthropic!PartCount(conversation)
           marks == {g \in kinds \X BOOLEAN : g[2] => g[1] \in Anthropic!Breakable}
<1>3. PICK n \in 0..(3 - count) : parts \in {[j \in 1..n |-> Anthropic!NewPart(f[j][1], count + j, f[j][2])] : f \in [1..n -> marks]}
  BY DEF Anthropic!PartLists
<1>4. PICK f \in [1..n -> marks] : parts = [j \in 1..n |-> Anthropic!NewPart(f[j][1], count + j, f[j][2])]
  BY <1>3, Zenon
<1>5. n \in Nat /\ count \in Nat
  BY <1>1, <1>2, <1>3
<1>6. ASSUME NEW j \in 1..n
      PROVE  parts[j] \in PartSet /\ parts[j].id = count + j
  <2>1. f[j] \in marks
    OBVIOUS
  <2>2. f[j][1] \in PartKinds /\ f[j][2] \in BOOLEAN /\ (f[j][2] => f[j][1] # "thinking")
    BY <2>1 DEF Anthropic!Breakable
  <2>3. parts[j] = [kind |-> f[j][1], id |-> count + j, cache_breakpoint |-> f[j][2], marked |-> FALSE]
    BY <1>4 DEF Anthropic!NewPart
  <2> HIDE DEF count, marks
  <2>4. count + j \in Nat
    BY <1>5
  <2>5. QED
    BY <2>2, <2>3, <2>4 DEF PartSet
<1> HIDE DEF count, marks
<1>7. DOMAIN parts = 1..n /\ parts = [j \in 1..n |-> parts[j]]
  BY <1>4
<1>8. parts \in Seq(PartSet) /\ Len(parts) = n
  <2>1. parts \in [1..n -> PartSet]
    BY <1>6, <1>7
  <2>2. QED
    BY <1>5, <2>1
<1>9. QED
  BY <1>1, <1>6, <1>8 DEF NewParts, count

LEMMA AnthropicCalls ==
  ASSUME conversation \in Seq(MessageSet), NEW call \in Anthropic!OpenCalls
  PROVE  call \in Nat
<1> DEFINE answered == {i \in DOMAIN conversation : conversation[i].kind = "assistant"}
           last == Anthropic!Max(answered)
<1>1. Anthropic!OpenCalls = IF answered = {} THEN {}
        ELSE {p.id : p \in {q \in Anthropic!ToSet(conversation[last].parts) : q.kind = "tool_call"}}
  BY DEF Anthropic!OpenCalls
<1>2. answered # {} /\ \E p \in Anthropic!ToSet(conversation[last].parts) : call = p.id
  BY <1>1, Zenon
<1>3. last \in DOMAIN conversation
  <2>1. answered \in SUBSET (1..Len(conversation)) /\ Len(conversation) \in Nat
    OBVIOUS
  <2>2. Max(answered) \in answered
    BY <1>2, <2>1, Greatest, Zenon
  <2>3. Anthropic!Max(answered) = Max(answered)
    BY Zenon DEF Anthropic!Max, Max
  <2>4. QED
    BY <2>2, <2>3
<1>4. PICK p \in Anthropic!ToSet(conversation[last].parts) : call = p.id
  BY <1>2
<1>5. PICK k \in DOMAIN conversation[last].parts : p = conversation[last].parts[k]
  BY Zenon DEF Anthropic!ToSet
<1> HIDE DEF last, answered
<1>6. conversation[last].parts \in Seq(PartSet)
  BY <1>3, MessageFields
<1>7. p \in PartSet
  BY <1>5, <1>6
<1>8. QED
  BY <1>4, <1>7 DEF PartSet

LEMMA AnthropicAdds ==
  ASSUME conversation \in Seq(MessageSet), Anthropic!AddUser \/ Anthropic!AddAssistant \/ Anthropic!AddTool
  PROVE  \E m \in MessageSet : conversation' = Append(conversation, m) /\ NewParts(conversation, m.parts)
<1>1. ASSUME NEW kinds \in SUBSET PartKinds, NEW kind \in {"user", "assistant", "tool"}, NEW answers \in Nat,
             NEW parts \in Anthropic!PartLists(kinds), Anthropic!Add(Anthropic!Message(kind, parts, answers))
      PROVE  \E m \in MessageSet : conversation' = Append(conversation, m) /\ NewParts(conversation, m.parts)
  <2> DEFINE m == Anthropic!Message(kind, parts, answers)
  <2>1. NewParts(conversation, parts)
    BY <1>1, AnthropicParts
  <2>2. m = [kind |-> kind, parts |-> parts, answers |-> answers]
    BY DEF Anthropic!Message
  <2>3. parts \in Seq(PartSet)
    BY <2>1 DEF NewParts
  <2>4. m \in MessageSet /\ m.parts = parts
    BY <2>2, <2>3 DEF MessageSet
  <2>5. conversation' = Append(conversation, m)
    BY <1>1 DEF Anthropic!Add
  <2> HIDE DEF m
  <2>6. QED
    BY <2>1, <2>4, <2>5
<1> DEFINE users == {"text", "audio"}
           assistants == {"text", "tool_call", "bad_call", "thinking", "raw"}
<1>2. users \in SUBSET PartKinds /\ assistants \in SUBSET PartKinds /\ 0 \in Nat
  BY DEF PartKinds
<1>3. CASE Anthropic!AddUser
  <2>1. PICK parts \in Anthropic!PartLists(users) : Anthropic!Add(Anthropic!Message("user", parts, 0))
    BY <1>3 DEF Anthropic!AddUser
  <2> HIDE DEF users, assistants
  <2>2. QED
    BY <1>1, <1>2, <2>1
<1>4. CASE Anthropic!AddAssistant
  <2>1. PICK parts \in Anthropic!PartLists(assistants) : Anthropic!Add(Anthropic!Message("assistant", parts, 0))
    BY <1>4 DEF Anthropic!AddAssistant
  <2> HIDE DEF users, assistants
  <2>2. QED
    BY <1>1, <1>2, <2>1
<1>5. CASE Anthropic!AddTool
  <2>1. PICK parts \in Anthropic!PartLists(users), call \in Anthropic!OpenCalls : Anthropic!Add(Anthropic!Message("tool", parts, call))
    BY <1>5 DEF Anthropic!AddTool
  <2>2. call \in Nat
    BY AnthropicCalls
  <2> HIDE DEF users, assistants
  <2>3. QED
    BY <1>1, <1>2, <2>1, <2>2
<1>6. QED
  BY <1>3, <1>4, <1>5

(***************************************************************************)
(* A conversation grows at its end, and so does what is made of it.        *)
(***************************************************************************)
Image(f, ms) == [i \in DOMAIN ms |-> f[ms[i]]]

IsMap(f, M, T) == f \in [M -> T]

LEMMA FunctionIsSeq ==
  ASSUME NEW n \in Nat, NEW T, NEW f \in [1..n -> T]
  PROVE  f \in Seq(T) /\ Len(f) = n
OBVIOUS

LEMMA ImageType ==
  ASSUME NEW M, NEW T, NEW f, IsMap(f, M, T), NEW ms \in Seq(M)
  PROVE  Image(f, ms) \in Seq(T) /\ Len(Image(f, ms)) = Len(ms)
<1> DEFINE n == Len(ms)
<1>1. n \in Nat /\ DOMAIN ms = 1..n /\ \A i \in 1..n : ms[i] \in M
  OBVIOUS
<1> HIDE DEF n
<1>2. Image(f, ms) \in [1..n -> T]
  BY <1>1 DEF Image, IsMap
<1>3. QED
  BY <1>1, <1>2, FunctionIsSeq DEF n

LEMMA ImageEnd ==
  ASSUME NEW M, NEW T, NEW f, IsMap(f, M, T), NEW ms \in Seq(M), NEW m \in M
  PROVE  /\ Image(f, ms) \in Seq(T) /\ Len(Image(f, ms)) = Len(ms)
         /\ Image(f, Append(ms, m)) = Append(Image(f, ms), f[m])
<1> DEFINE n == Len(ms)
           more == Append(ms, m)
<1>1. /\ n \in Nat /\ DOMAIN ms = 1..n
      /\ DOMAIN more = 1..(n + 1) /\ more[n + 1] = m
      /\ \A i \in 1..n : more[i] = ms[i]
      /\ \A i \in 1..n : ms[i] \in M
      /\ \A i \in 1..(n + 1) : i \in 1..n \/ i = n + 1
  OBVIOUS
<1> HIDE DEF more, n
<1>2. Image(f, ms) \in Seq(T) /\ Len(Image(f, ms)) = n /\ \A i \in 1..n : Image(f, ms)[i] = f[ms[i]]
  <2>1. Image(f, ms) \in [1..n -> T] /\ \A i \in 1..n : Image(f, ms)[i] = f[ms[i]]
    BY <1>1 DEF Image, IsMap
  <2>2. QED
    BY <1>1, <2>1
<1>3. /\ Image(f, more) \in Seq(T) /\ Len(Image(f, more)) = n + 1
      /\ \A i \in 1..(n + 1) : Image(f, more)[i] = f[more[i]]
  <2>1. \A i \in 1..(n + 1) : more[i] \in M
    BY <1>1
  <2>2. Image(f, more) \in [1..(n + 1) -> T] /\ \A i \in 1..(n + 1) : Image(f, more)[i] = f[more[i]]
    BY <1>1, <2>1 DEF Image, IsMap
  <2>3. QED
    BY <1>1, <2>2
<1> DEFINE s == Image(f, more)
           t == Append(Image(f, ms), f[m])
<1>4. /\ t \in Seq(T) /\ Len(t) = n + 1 /\ t[n + 1] = f[m]
      /\ \A i \in 1..n : t[i] = f[ms[i]]
  <2>1. f[m] \in T
    BY DEF IsMap
  <2>2. QED
    BY <1>2, <2>1, AppendProperties
<1> HIDE DEF s, t
<1>5. s \in Seq(T) /\ Len(s) = n + 1 /\ \A i \in 1..(n + 1) : s[i] = f[more[i]]
  BY <1>3 DEF s
<1>6. \A i \in 1..Len(s) : s[i] = t[i]
  BY <1>1, <1>4, <1>5
<1>7. s = t
  BY <1>4, <1>5, <1>6, SeqEqual
<1>8. QED
  BY <1>2, <1>7 DEF s, t, n, more

LEMMA Regroup ==
  ASSUME NEW S
  PROVE  \A s, t, u \in Seq(S) : s \o (t \o u) = (s \o t) \o u
BY ConcatAssociative, SMTT(30)

LEMMA PrefixOfJoined ==
  ASSUME NEW S, NEW s \in Seq(S), NEW t \in Seq(S)
  PROVE  IsPrefix(s, s \o t)
<1>1. Len(s) \in Nat /\ Len(t) \in Nat /\ Len(s) <= Len(s \o t)
  OBVIOUS
<1>2. SubSeq(s, 1, Len(s)) = SubSeq(s \o t, 1, Len(s))
  <2>1. CASE Len(s) = 0
    <3>1. SubSeq(s, 1, 0) = << >> /\ SubSeq(s \o t, 1, 0) = << >>
      BY SubSeqEmpty
    <3>2. QED
      BY <2>1, <3>1
  <2>2. CASE Len(s) # 0
    <3>1. 1 \in 1..Len(s) /\ Len(s) \in 1..Len(s)
      BY <1>1, <2>2
    <3>2. QED
      BY <3>1, SubSeqOfConcat1
  <2>3. QED
    BY <2>1, <2>2
<1>3. QED
  BY <1>1, <1>2 DEF IsPrefix

ConversationInv ==
  /\ conversation \in Seq(MessageSet)
  /\ \A i \in 1..Len(PartList(conversation)) : PartList(conversation)[i].id = i

LEMMA EmptyConversation ==
  ASSUME conversation = << >>
  PROVE  ConversationInv
<1>1. << >> \in Seq(MessageSet) /\ << >> \in Seq(Seq(PartSet)) /\ PartList(<< >>) = FlattenSeq(<< >>)
  BY DEF PartList
<1>2. FlattenSeq(<< >>) = << >>
  BY <1>1, JoinedType, Zenon
<1>3. QED
  BY <1>1, <1>2 DEF ConversationInv

LEMMA PartsGrow ==
  ASSUME NEW ms \in Seq(MessageSet), NEW m \in MessageSet
  PROVE  PartList(Append(ms, m)) = PartList(ms) \o m.parts
<1> DEFINE S == Seq(PartSet)
           f == [x \in MessageSet |-> x.parts]
<1>1. IsMap(f, MessageSet, S) /\ f[m] = m.parts /\ m.parts \in S
  BY MessageFields DEF IsMap
<1>2. Append(ms, m) \in Seq(MessageSet)
  OBVIOUS
<1>3. \A xs \in Seq(MessageSet) : PartList(xs) = FlattenSeq(Image(f, xs))
  <2>1. ASSUME NEW xs \in Seq(MessageSet)
        PROVE  PartList(xs) = FlattenSeq(Image(f, xs))
    <3>1. \A i \in DOMAIN xs : f[xs[i]] = xs[i].parts
      OBVIOUS
    <3>2. QED
      BY <3>1, Zenon DEF PartList, Image
  <2>2. QED
    BY <2>1
<1> HIDE DEF f, S
<1>4. Image(f, ms) \in Seq(S) /\ Image(f, Append(ms, m)) = Append(Image(f, ms), f[m])
  <2>1. IsMap(f, MessageSet, S)
    BY <1>1
  <2>2. Image(f, Append(ms, m)) = Append(Image(f, ms), f[m])
    BY <2>1, ImageEnd
  <2>3. Image(f, ms) \in Seq(S)
    BY <2>1, ImageEnd
  <2>4. QED
    BY <2>2, <2>3
<1>5. FlattenSeq(Append(Image(f, ms), m.parts)) = FlattenSeq(Image(f, ms)) \o m.parts
  BY <1>1, <1>4, JoinedEnd DEF S
<1>6. QED
  BY <1>1, <1>2, <1>3, <1>4, <1>5

LEMMA ConversationGrows ==
  ASSUME ConversationInv, NEW m \in MessageSet,
         conversation' = Append(conversation, m), NewParts(conversation, m.parts)
  PROVE  /\ ConversationInv' /\ PartList(conversation') = PartList(conversation) \o m.parts
         /\ Len(PartList(conversation')) = Len(PartList(conversation)) + Len(m.parts)
<1> DEFINE ms == conversation
           old == PartList(conversation)
           more == PartList(Append(conversation, m))
<1>1. m.parts \in Seq(PartSet)
  BY MessageFields
<1>2. ms \in Seq(MessageSet) /\ Append(ms, m) \in Seq(MessageSet)
  BY DEF ConversationInv
<1>5. more = old \o m.parts /\ old \in Seq(PartSet)
  BY <1>2, PartsGrow, PartListType
<1>6. \A i \in 1..Len(old) : old[i].id = i
  BY DEF ConversationInv
<1>7. m.parts \in Seq(PartSet) /\ \A j \in 1..Len(m.parts) : m.parts[j].id = Len(old) + j
  BY DEF NewParts
<1> HIDE DEF old, more
<1>8. /\ Len(old) \in Nat /\ Len(m.parts) \in Nat /\ Len(more) = Len(old) + Len(m.parts)
      /\ \A i \in 1..(Len(old) + Len(m.parts)) :
           more[i] = IF i <= Len(old) THEN old[i] ELSE m.parts[i - Len(old)]
  BY <1>5, <1>7, ConcatProperties
<1>9. ASSUME NEW i \in 1..Len(more)
      PROVE  more[i].id = i
  <2>1. CASE i <= Len(old)
    BY <1>6, <1>8, <2>1
  <2>2. CASE ~(i <= Len(old))
    <3>1. i - Len(old) \in 1..Len(m.parts) /\ Len(old) + (i - Len(old)) = i
      BY <1>8, <2>2
    <3>2. QED
      BY <1>7, <1>8, <2>2, <3>1
  <2>3. QED
    BY <2>1, <2>2
<1>10. ConversationInv'
  BY <1>2, <1>9 DEF ConversationInv, more
<1>11. QED
  BY <1>5, <1>8, <1>10 DEF old, more

-----------------------------------------------------------------------------
(***************************************************************************)
(* OpenAI.                                                                 *)
(***************************************************************************)
Contents == Seq(Nat \X BOOLEAN)

ItemSet ==
  [role : {"user"}, content : Contents]
    \union [role : {"function_call_output"}, call : Nat, content : Contents]
    \union [role : {"assistant"}, phase : {"final_answer", "commentary"}, id : Nat]
    \union [role : {"function_call", "replayed"}, id : Nat]
    \union [role : {"developer"}, content : Seq(BOOLEAN)]

ItemsOf == [m \in MessageSet |-> OpenAI!Items(m)]

LEMMA ItemsType ==
  ASSUME NEW m \in MessageSet
  PROVE  OpenAI!Items(m) \in Seq(ItemSet)
<1>1. /\ m.kind \in {"user", "assistant", "tool"} /\ m.parts \in Seq(PartSet) /\ m.answers \in Nat
      /\ DOMAIN m.parts = 1..Len(m.parts) /\ Len(m.parts) \in Nat
  BY MessageFields
<1>2. \A j \in 1..Len(m.parts) : m.parts[j].id \in Nat /\ m.parts[j].cache_breakpoint \in BOOLEAN
  <2>1. \A p \in PartSet : p.id \in Nat /\ p.cache_breakpoint \in BOOLEAN
    BY DEF PartSet
  <2>2. QED
    BY <1>1, <2>1
<1>3. OpenAI!Content(m) \in Contents
  <2>1. OpenAI!Content(m) \in [1..Len(m.parts) -> Nat \X BOOLEAN]
    BY <1>1, <1>2 DEF OpenAI!Content
  <2>2. QED
    BY <1>1, <2>1 DEF Contents
<1>4. ASSUME NEW x \in ItemSet
      PROVE  <<x>> \in Seq(ItemSet)
  OBVIOUS
<1>5. CASE m.kind = "user"
  <2>1. [role |-> "user", content |-> OpenAI!Content(m)] \in ItemSet
    BY <1>3 DEF ItemSet
  <2>2. OpenAI!Items(m) = <<[role |-> "user", content |-> OpenAI!Content(m)]>>
    BY <1>5 DEF OpenAI!Items
  <2>3. QED
    BY <1>4, <2>1, <2>2
<1>6. CASE m.kind = "tool"
  <2>1. [role |-> "function_call_output", call |-> m.answers, content |-> OpenAI!Content(m)] \in ItemSet
    BY <1>1, <1>3 DEF ItemSet
  <2>2. OpenAI!Items(m) = <<[role |-> "function_call_output", call |-> m.answers, content |-> OpenAI!Content(m)]>>
    BY <1>6 DEF OpenAI!Items
  <2>3. QED
    BY <1>4, <2>1, <2>2
<1>7. CASE m.kind = "assistant"
  <2>1. ASSUME NEW j \in 1..Len(m.parts)
        PROVE  OpenAI!AssistantItem(m, j) \in ItemSet
    <3>1. OpenAI!Phase(m, j) \in {"final_answer", "commentary"}
      BY DEF OpenAI!Phase
    <3>2. m.parts[j].id \in Nat
      BY <1>2
    <3>3. /\ [role |-> "assistant", phase |-> OpenAI!Phase(m, j), id |-> m.parts[j].id] \in ItemSet
          /\ [role |-> "function_call", id |-> m.parts[j].id] \in ItemSet
          /\ [role |-> "replayed", id |-> m.parts[j].id] \in ItemSet
      BY <3>1, <3>2 DEF ItemSet
    <3>4. QED
      BY <3>3, Zenon DEF OpenAI!AssistantItem
  <2>2. OpenAI!Items(m) = [j \in DOMAIN m.parts |-> OpenAI!AssistantItem(m, j)]
    BY <1>7 DEF OpenAI!Items
  <2>3. OpenAI!Items(m) \in [1..Len(m.parts) -> ItemSet]
    BY <1>1, <2>1, <2>2
  <2>4. QED
    BY <1>1, <2>3
<1>8. QED
  BY <1>1, <1>5, <1>6, <1>7

ChatSet == {OpenAI!ChatMessage(m) : m \in MessageSet} \union [role : {"system"}, content : Seq(BOOLEAN)]

ChatOf == [m \in MessageSet |-> OpenAI!ChatMessage(m)]

LEMMA PromptPrefix ==
  ASSUME systemPrompt \in OpenAI!Prompts
  PROVE  OpenAI!InputPrefix \in Seq(ItemSet) /\ OpenAI!MessagesPrefix \in Seq(ChatSet)
<1>1. systemPrompt.parts \in Seq(BOOLEAN)
  <2>1. \/ systemPrompt.parts = << >>
        \/ systemPrompt.parts = <<FALSE>>
        \/ systemPrompt.parts = <<TRUE>>
    <3>1. CASE systemPrompt \in {OpenAI!NoPrompt, [form |-> "string", parts |-> <<FALSE>>]}
      <4>1. \/ systemPrompt = [form |-> "none", parts |-> << >>]
            \/ systemPrompt = [form |-> "string", parts |-> <<FALSE>>]
        BY <3>1, Zenon DEF OpenAI!NoPrompt
      <4>2. \A form, parts : [form |-> form, parts |-> parts].parts = parts
        OBVIOUS
      <4>3. QED
        BY <4>1, <4>2, Zenon
    <3>2. CASE systemPrompt \in [form : {"parts"}, parts : {<<FALSE>>, <<TRUE>>}]
      <4>1. systemPrompt.parts \in {<<FALSE>>, <<TRUE>>}
        BY <3>2, Zenon
      <4>2. QED
        BY <4>1, Zenon
    <3>3. QED
      BY <3>1, <3>2, Zenon DEF OpenAI!Prompts
  <2>2. << >> \in Seq(BOOLEAN) /\ <<FALSE>> \in Seq(BOOLEAN) /\ <<TRUE>> \in Seq(BOOLEAN)
    OBVIOUS
  <2>3. QED
    BY <2>1, <2>2, Zenon
<1>2. /\ [role |-> "developer", content |-> systemPrompt.parts] \in ItemSet
      /\ [role |-> "system", content |-> systemPrompt.parts] \in ChatSet
  BY <1>1 DEF ItemSet, ChatSet
<1>3. QED
  BY <1>2 DEF OpenAI!InputPrefix, OpenAI!MessagesPrefix

(* A list of parts, or one of messages, of a conversation grows at its end. *)
LEMMA JoinGrows ==
  ASSUME NEW M, NEW T, NEW f, IsMap(f, M, Seq(T)), NEW ms \in Seq(M), NEW m \in M, NEW prefix \in Seq(T)
  PROVE  IsPrefix(prefix \o FlattenSeq(Image(f, ms)), prefix \o FlattenSeq(Image(f, Append(ms, m))))
<1>1. Image(f, ms) \in Seq(Seq(T))
  BY ImageEnd
<1>2. Image(f, Append(ms, m)) = Append(Image(f, ms), f[m])
  BY ImageEnd
<1>3. f[m] \in Seq(T)
  BY DEF IsMap
<1>4. FlattenSeq(Append(Image(f, ms), f[m])) = FlattenSeq(Image(f, ms)) \o f[m]
  BY <1>1, <1>3, JoinedEnd
<1>5. FlattenSeq(Image(f, ms)) \in Seq(T)
  BY <1>1, JoinedType
<1>6. prefix \o (FlattenSeq(Image(f, ms)) \o f[m]) = (prefix \o FlattenSeq(Image(f, ms))) \o f[m]
  <2>1. \A s, t, u \in Seq(T) : s \o (t \o u) = (s \o t) \o u
    BY Regroup, SMTT(30)
  <2>2. QED
    BY <1>3, <1>5, <2>1, Zenon
<1>7. prefix \o FlattenSeq(Image(f, ms)) \in Seq(T)
  BY <1>5
<1>8. QED
  BY <1>2, <1>3, <1>4, <1>6, <1>7, PrefixOfJoined

LEMMA ListGrows ==
  ASSUME NEW M, NEW T, NEW f, IsMap(f, M, T), NEW ms \in Seq(M), NEW m \in M, NEW prefix \in Seq(T)
  PROVE  IsPrefix(prefix \o Image(f, ms), prefix \o Image(f, Append(ms, m)))
<1>1. Image(f, ms) \in Seq(T)
  BY ImageEnd
<1>2. Image(f, Append(ms, m)) = Append(Image(f, ms), f[m])
  BY ImageEnd
<1>3. f[m] \in T
  BY DEF IsMap
<1>4. <<f[m]>> \in Seq(T)
  BY <1>3
<1>5. Append(Image(f, ms), f[m]) = Image(f, ms) \o <<f[m]>>
  BY <1>1, <1>3, AppendIsConcat
<1>6. prefix \o (Image(f, ms) \o <<f[m]>>) = (prefix \o Image(f, ms)) \o <<f[m]>>
  BY <1>1, <1>4, ConcatAssociative
<1>7. prefix \o Image(f, ms) \in Seq(T)
  BY <1>1
<1>8. QED
  BY <1>2, <1>4, <1>5, <1>6, <1>7, PrefixOfJoined

(* What each adapter sends of a conversation that it can send.             *)
LEMMA InputIs ==
  ASSUME NEW ms \in Seq(MessageSet)
  PROVE  /\ [i \in DOMAIN ms |-> OpenAI!Items(ms[i])] = Image(ItemsOf, ms)
         /\ [i \in DOMAIN ms |-> OpenAI!ChatMessage(ms[i])] = Image(ChatOf, ms)
<1>1. \A i \in DOMAIN ms : ms[i] \in MessageSet
  OBVIOUS
<1>2. /\ \A i \in DOMAIN ms : ItemsOf[ms[i]] = OpenAI!Items(ms[i])
      /\ \A i \in DOMAIN ms : ChatOf[ms[i]] = OpenAI!ChatMessage(ms[i])
  BY <1>1 DEF ItemsOf, ChatOf
<1>3. QED
  BY <1>2, Zenon DEF Image

LEMMA WireGrows ==
  ASSUME conversation \in Seq(MessageSet), NEW m \in MessageSet,
         conversation' = Append(conversation, m), 
         systemPrompt \in OpenAI!Prompts, systemPrompt' = systemPrompt
  PROVE  /\ OpenAI!Input' # OpenAI!Rejected => IsPrefix(OpenAI!Input, OpenAI!Input')
         /\ OpenAI!ChatMessages' # OpenAI!Rejected => IsPrefix(OpenAI!ChatMessages, OpenAI!ChatMessages')
<1> DEFINE ms == conversation
           more == Append(conversation, m)
<1>1. /\ ms \in Seq(MessageSet) /\ more \in Seq(MessageSet) /\ conversation' = more
      /\ \A i \in DOMAIN ms : i \in DOMAIN more /\ more[i] = ms[i]
  OBVIOUS
<1>2. /\ OpenAI!InputPrefix \in Seq(ItemSet) /\ OpenAI!InputPrefix' = OpenAI!InputPrefix
      /\ OpenAI!MessagesPrefix \in Seq(ChatSet) /\ OpenAI!MessagesPrefix' = OpenAI!MessagesPrefix
  BY PromptPrefix DEF OpenAI!InputPrefix, OpenAI!MessagesPrefix
<1>3. \A seqs : OpenAI!FlattenSeq(seqs) = FlattenSeq(seqs)
  BY Zenon DEF OpenAI!FlattenSeq, FlattenSeq
<1> HIDE DEF more
<1>4. /\ OpenAI!Input = IF \E i \in DOMAIN ms : OpenAI!SendsAudio(ms[i]) THEN OpenAI!Rejected
                        ELSE OpenAI!InputPrefix \o FlattenSeq(Image(ItemsOf, ms))
      /\ OpenAI!Input' = IF \E i \in DOMAIN more : OpenAI!SendsAudio(more[i]) THEN OpenAI!Rejected
                         ELSE OpenAI!InputPrefix \o FlattenSeq(Image(ItemsOf, more))
  <2>1. OpenAI!Input = IF \E i \in DOMAIN ms : OpenAI!SendsAudio(ms[i]) THEN OpenAI!Rejected
                        ELSE OpenAI!InputPrefix \o FlattenSeq([i \in DOMAIN ms |-> OpenAI!Items(ms[i])])
    BY <1>3, Zenon DEF OpenAI!Input
  <2>2. OpenAI!Input' = IF \E i \in DOMAIN more : OpenAI!SendsAudio(more[i]) THEN OpenAI!Rejected
                        ELSE OpenAI!InputPrefix' \o FlattenSeq([i \in DOMAIN more |-> OpenAI!Items(more[i])])
    BY <1>1, <1>3, Zenon DEF OpenAI!Input
  <2>3. QED
    BY <1>1, <1>2, <2>1, <2>2, InputIs
<1>5. /\ OpenAI!ChatMessages = IF \E i \in DOMAIN ms : OpenAI!NoChatForm(ms[i]) THEN OpenAI!Rejected
                               ELSE OpenAI!MessagesPrefix \o Image(ChatOf, ms)
      /\ OpenAI!ChatMessages' = IF \E i \in DOMAIN more : OpenAI!NoChatForm(more[i]) THEN OpenAI!Rejected
                                ELSE OpenAI!MessagesPrefix \o Image(ChatOf, more)
  <2>1. OpenAI!ChatMessages = IF \E i \in DOMAIN ms : OpenAI!NoChatForm(ms[i]) THEN OpenAI!Rejected
                        ELSE OpenAI!MessagesPrefix \o [i \in DOMAIN ms |-> OpenAI!ChatMessage(ms[i])]
    BY Zenon DEF OpenAI!ChatMessages
  <2>2. OpenAI!ChatMessages' = IF \E i \in DOMAIN more : OpenAI!NoChatForm(more[i]) THEN OpenAI!Rejected
                        ELSE OpenAI!MessagesPrefix' \o [i \in DOMAIN more |-> OpenAI!ChatMessage(more[i])]
    BY <1>1, Zenon DEF OpenAI!ChatMessages
  <2>3. QED
    BY <1>1, <1>2, <2>1, <2>2, InputIs
<1>6. IsMap(ItemsOf, MessageSet, Seq(ItemSet)) /\ IsMap(ChatOf, MessageSet, ChatSet)
  BY ItemsType DEF IsMap, ItemsOf, ChatOf, ChatSet
<1>7. IsPrefix(OpenAI!InputPrefix \o FlattenSeq(Image(ItemsOf, ms)), OpenAI!InputPrefix \o FlattenSeq(Image(ItemsOf, more)))
  BY <1>1, <1>2, <1>6, JoinGrows DEF more
<1>8. IsPrefix(OpenAI!MessagesPrefix \o Image(ChatOf, ms), OpenAI!MessagesPrefix \o Image(ChatOf, more))
  BY <1>1, <1>2, <1>6, ListGrows DEF more
<1>9. QED
  BY <1>1, <1>4, <1>5, <1>7, <1>8, Zenon

OpenAIInv ==
  running = "openai" => ConversationInv /\ systemPrompt \in OpenAI!Prompts

(* For every conversation, however it goes on: what has been sent stays a  *)
(* prefix of what is sent, in both wire forms, until a turn brings what    *)
(* the form does not have.                                                 *)
THEOREM PromptsGrowAtTheirEnd == FamilySpec => SentPrefixIsStable
<1>1. FamilyInit => OpenAIInv
  <2>1. ASSUME FamilyInit, running = "openai"
        PROVE  conversation = << >> /\ systemPrompt \in OpenAI!Prompts
    BY <2>1 DEF FamilyInit, OpenAI!Init
  <2>2. QED
    BY <2>1, EmptyConversation DEF OpenAIInv
<1>2. ASSUME OpenAIInv, [FamilyNext]_familyVars, running = "openai"
      PROVE  /\ running' = "openai" /\ systemPrompt' = systemPrompt
             /\ \/ conversation' = conversation
                \/ \E m \in MessageSet : conversation' = Append(conversation, m) /\ NewParts(conversation, m.parts)
  <2>1. CASE UNCHANGED familyVars
    BY <1>2, <2>1 DEF familyVars
  <2>2. CASE FamilyNext
    <3>1. running' = running /\ OpenAI!Next
      BY <1>2, <2>2 DEF FamilyNext
    <3>2. CASE OpenAI!Full
      BY <1>2, <3>1, <3>2 DEF OpenAI!Full, OpenAI!vars
    <3>3. CASE OpenAI!Turn
      BY <1>2, <3>1, <3>3, OpenAIAdds DEF OpenAI!Turn, OpenAIInv, ConversationInv
    <3>4. QED
      BY <3>1, <3>2, <3>3 DEF OpenAI!Next
  <2>3. QED
    BY <1>2, <2>1, <2>2
<1>3. OpenAIInv /\ [FamilyNext]_familyVars => OpenAIInv'
  <2>1. ASSUME OpenAIInv, [FamilyNext]_familyVars
        PROVE  OpenAIInv'
    <3>1. running' = running
      BY <2>1 DEF FamilyNext, familyVars
    <3>2. CASE running # "openai"
      BY <3>1, <3>2 DEF OpenAIInv
    <3>3. CASE running = "openai"
      <4>1. systemPrompt' = systemPrompt /\ systemPrompt \in OpenAI!Prompts /\ ConversationInv
        BY <1>2, <2>1, <3>3 DEF OpenAIInv
      <4>2. CASE conversation' = conversation
        BY <4>1, <4>2 DEF OpenAIInv, ConversationInv
      <4>3. ASSUME NEW m \in MessageSet, conversation' = Append(conversation, m), NewParts(conversation, m.parts)
            PROVE  ConversationInv'
        BY <4>1, <4>3, ConversationGrows
      <4>4. ConversationInv'
        <5>1. CASE conversation' = conversation
          BY <4>1, <5>1 DEF ConversationInv
        <5>2. QED
          BY <1>2, <2>1, <3>3, <4>3, <5>1
      <4>5. QED
        BY <4>1, <4>4 DEF OpenAIInv
    <3>4. QED
      BY <3>2, <3>3
  <2>2. QED
    BY <2>1
<1>4. OpenAIInv /\ [FamilyNext]_familyVars =>
        [running = "openai" =>
           /\ OpenAI!Input' # OpenAI!Rejected => IsPrefix(OpenAI!Input, OpenAI!Input')
           /\ OpenAI!ChatMessages' # OpenAI!Rejected =>
                IsPrefix(OpenAI!ChatMessages, OpenAI!ChatMessages')]_conversation
  <2>1. SUFFICES ASSUME OpenAIInv, [FamilyNext]_familyVars, running = "openai", conversation' # conversation
                 PROVE  /\ OpenAI!Input' # OpenAI!Rejected => IsPrefix(OpenAI!Input, OpenAI!Input')
                        /\ OpenAI!ChatMessages' # OpenAI!Rejected =>
                             IsPrefix(OpenAI!ChatMessages, OpenAI!ChatMessages')
    BY Zenon
  <2>2. PICK m \in MessageSet : conversation' = Append(conversation, m)
    BY <1>2, <2>1
  <2>3. conversation \in Seq(MessageSet) /\ systemPrompt \in OpenAI!Prompts /\ systemPrompt' = systemPrompt
    BY <1>2, <2>1 DEF OpenAIInv, ConversationInv
  <2>4. QED
    BY <2>2, <2>3, WireGrows, Zenon
<1>5. QED
  BY <1>1, <1>3, <1>4, PTL DEF FamilySpec, SentPrefixIsStable

-----------------------------------------------------------------------------
(***************************************************************************)
(* Anthropic: the messages of a request.                                   *)
(***************************************************************************)
BlockSet ==
  {b \in [kind : PartKinds \union {"tool_result"}, id : Nat, breakpoint : BOOLEAN, marked : {FALSE}] :
     b.breakpoint => b.kind # "thinking"}

WireSet == [role : {"user", "assistant"}, results : BOOLEAN, blocks : Seq(BlockSet)]

BlockIds(blocks) == [j \in DOMAIN blocks |-> blocks[j].id]

WireIds(wire) == FlattenSeq([i \in DOMAIN wire |-> BlockIds(wire[i].blocks)])

(* No two messages of results follow each other.                           *)
Apart(wire) == \A i \in DOMAIN wire : i > 1 => ~(wire[i].results /\ wire[i - 1].results)

LEMMA WireFields ==
  ASSUME NEW x \in WireSet
  PROVE  x.role \in {"user", "assistant"} /\ x.results \in BOOLEAN /\ x.blocks \in Seq(BlockSet)
BY DEF WireSet

LEMMA PartFields ==
  ASSUME NEW p \in PartSet
  PROVE  /\ p.kind \in PartKinds /\ p.id \in Nat /\ p.cache_breakpoint \in BOOLEAN /\ p.marked = FALSE
         /\ p.cache_breakpoint => p.kind # "thinking"
BY DEF PartSet

LEMMA BlockMade ==
  ASSUME NEW kind \in PartKinds \union {"tool_result"}, NEW id \in Nat, NEW breakpoint \in BOOLEAN,
         breakpoint => kind # "thinking"
  PROVE  /\ Anthropic!Block(kind, id, breakpoint, FALSE) \in BlockSet
         /\ Anthropic!Block(kind, id, breakpoint, FALSE).id = id
<1>1. Anthropic!Block(kind, id, breakpoint, FALSE) =
        [kind |-> kind, id |-> id, breakpoint |-> breakpoint, marked |-> FALSE]
  BY DEF Anthropic!Block
<1>2. [kind |-> kind, id |-> id, breakpoint |-> breakpoint, marked |-> FALSE]
        \in [kind : PartKinds \union {"tool_result"}, id : Nat, breakpoint : BOOLEAN, marked : {FALSE}]
  OBVIOUS
<1> DEFINE b == [kind |-> kind, id |-> id, breakpoint |-> breakpoint, marked |-> FALSE]
<1>3. b.breakpoint = breakpoint /\ b.kind = kind /\ b.id = id
  OBVIOUS
<1> HIDE DEF b
<1>4. b \in BlockSet
  BY <1>2, <1>3, Zenon DEF BlockSet, b
<1>5. QED
  BY <1>1, <1>3, <1>4, Zenon DEF b

(* The ids that a message goes out with.                                   *)
SentIds(m) == IF m.kind = "tool" THEN <<m.answers>> ELSE [j \in DOMAIN m.parts |-> m.parts[j].id]

LEMMA BlocksType ==
  ASSUME NEW m \in MessageSet
  PROVE  Anthropic!Blocks(m) \in Seq(BlockSet) /\ BlockIds(Anthropic!Blocks(m)) = SentIds(m)
         /\ SentIds(m) \in Seq(Nat)
<1>1. /\ m.kind \in {"user", "assistant", "tool"} /\ m.parts \in Seq(PartSet) /\ m.answers \in Nat
      /\ DOMAIN m.parts = 1..Len(m.parts) /\ Len(m.parts) \in Nat
  BY MessageFields
<1>2. CASE m.kind = "tool"
  <2> DEFINE breakpoint == m.parts # << >> /\ Anthropic!Last(m.parts).cache_breakpoint
             block == Anthropic!Block("tool_result", m.answers, breakpoint, FALSE)
  <2>1. Anthropic!Blocks(m) = <<block>>
    BY <1>2 DEF Anthropic!Blocks
  <2>2. breakpoint \in BOOLEAN
    <3>1. CASE m.parts = << >>
      BY <3>1
    <3>2. CASE m.parts # << >>
      <4>1. Anthropic!Last(m.parts) = m.parts[Len(m.parts)]
        BY DEF Anthropic!Last
      <4>2. m.parts[Len(m.parts)] \in PartSet
        BY <1>1, <3>2
      <4>3. QED
        BY <4>1, <4>2, PartFields
    <3>3. QED
      BY <3>1, <3>2
  <2> HIDE DEF breakpoint
  <2>3. block \in BlockSet /\ block.id = m.answers
    BY <1>1, <2>2, BlockMade
  <2> HIDE DEF block
  <2>4. BlockIds(<<block>>) = <<m.answers>>
    BY <2>3 DEF BlockIds
  <2>5. QED
    BY <1>1, <1>2, <2>1, <2>3, <2>4 DEF SentIds
<1>3. CASE m.kind # "tool"
  <2> DEFINE bs == [i \in DOMAIN m.parts |->
          Anthropic!Block(m.parts[i].kind, m.parts[i].id, m.parts[i].cache_breakpoint, m.parts[i].marked)]
  <2>1. Anthropic!Blocks(m) = bs
    BY <1>3 DEF Anthropic!Blocks
  <2>2. ASSUME NEW i \in 1..Len(m.parts)
        PROVE  bs[i] \in BlockSet /\ bs[i].id = m.parts[i].id /\ m.parts[i].id \in Nat
    <3>1. m.parts[i] \in PartSet
      BY <1>1
    <3>2. bs[i] = Anthropic!Block(m.parts[i].kind, m.parts[i].id, m.parts[i].cache_breakpoint, m.parts[i].marked)
      BY <1>1
    <3>3. /\ m.parts[i].kind \in PartKinds \union {"tool_result"} /\ m.parts[i].id \in Nat
          /\ m.parts[i].cache_breakpoint \in BOOLEAN /\ m.parts[i].marked = FALSE
          /\ m.parts[i].cache_breakpoint => m.parts[i].kind # "thinking"
      BY <3>1, PartFields
    <3> HIDE DEF bs
    <3>4. /\ Anthropic!Block(m.parts[i].kind, m.parts[i].id, m.parts[i].cache_breakpoint, FALSE) \in BlockSet
          /\ Anthropic!Block(m.parts[i].kind, m.parts[i].id, m.parts[i].cache_breakpoint, FALSE).id = m.parts[i].id
      BY ONLY <3>3, BlockMade, Zenon
    <3>5. QED
      BY <3>2, <3>3, <3>4, Zenon
  <2>3. DOMAIN bs = 1..Len(m.parts) /\ bs = [i \in 1..Len(m.parts) |-> bs[i]]
    BY <1>1
  <2> HIDE DEF bs
  <2>4. bs \in [1..Len(m.parts) -> BlockSet]
    BY <2>2, <2>3
  <2>5. bs \in Seq(BlockSet)
    BY <1>1, <2>4
  <2>6. BlockIds(bs) = [j \in DOMAIN m.parts |-> m.parts[j].id]
    BY <1>1, <2>2, <2>3 DEF BlockIds
  <2>7. [j \in 1..Len(m.parts) |-> m.parts[j].id] \in [1..Len(m.parts) -> Nat]
    BY <2>2
  <2>8. [j \in DOMAIN m.parts |-> m.parts[j].id] \in Seq(Nat)
    BY <1>1, <2>7
  <2>9. QED
    BY <1>3, <2>1, <2>5, <2>6, <2>8 DEF SentIds
<1>4. QED
  BY <1>2, <1>3

LEMMA LastOf ==
  ASSUME NEW T, NEW s \in Seq(T), s # << >>, NEW v \in T
  PROVE  /\ Len(s) \in 1..Len(s) /\ SubSeq(s, 1, Len(s) - 1) \in Seq(T)
         /\ s = Append(SubSeq(s, 1, Len(s) - 1), s[Len(s)])
         /\ [s EXCEPT ![Len(s)] = v] = Append(SubSeq(s, 1, Len(s) - 1), v)
         /\ [s EXCEPT ![Len(s)] = v] \in Seq(T)
<1> DEFINE n == Len(s)
           front == SubSeq(s, 1, n - 1)
           changed == [s EXCEPT ![n] = v]
<1>1. n \in Nat /\ n # 0 /\ n \in 1..n /\ n - 1 \in Nat /\ \A i \in 1..n : s[i] \in T
  OBVIOUS
<1>2. front \in Seq(T) /\ Len(front) = n - 1 /\ \A i \in 1..(n - 1) : front[i] = s[i]
  <2>1. 1 \in 1..(n + 1) /\ n - 1 \in 0..n /\ n - 1 \in Nat
    BY <1>1
  <2> HIDE DEF n
  <2>2. n = Len(s)
    BY DEF n
  <2>3. QED
    BY <1>1, <2>1, <2>2
<1>3. changed \in [1..n -> T] /\ changed[n] = v /\ \A i \in 1..n : i # n => changed[i] = s[i]
  BY <1>1
<1>4. changed \in Seq(T) /\ Len(changed) = n
  <2> HIDE DEF changed, n
  <2>1. QED
    BY <1>1, <1>3
<1>5. ASSUME NEW w \in T
      PROVE  /\ Append(front, w) \in Seq(T) /\ Len(Append(front, w)) = n
             /\ \A i \in 1..n : Append(front, w)[i] = IF i = n THEN w ELSE s[i]
  <2> HIDE DEF front, n
  <2>1. /\ Append(front, w) \in Seq(T) /\ Len(Append(front, w)) = Len(front) + 1
        /\ \A i \in 1..Len(front) : Append(front, w)[i] = front[i]
        /\ Append(front, w)[Len(front) + 1] = w
    BY <1>2, AppendProperties
  <2>2. \A i \in 1..n : i = Len(front) + 1 \/ i \in 1..Len(front)
    BY <1>1, <1>2
  <2>3. Len(front) + 1 = n
    BY <1>1, <1>2
  <2>4. QED
    BY <1>1, <1>2, <2>1, <2>2, <2>3
<1> HIDE DEF front, changed, n
<1>6. s = Append(front, s[n])
  <2>1. /\ Append(front, s[n]) \in Seq(T) /\ Len(Append(front, s[n])) = Len(s)
        /\ \A i \in 1..Len(s) : s[i] = Append(front, s[n])[i]
    BY <1>1, <1>5 DEF n
  <2>2. QED
    BY <2>1, SeqEqual
<1>7. changed = Append(front, v)
  <2>1. /\ Append(front, v) \in Seq(T) /\ Len(Append(front, v)) = Len(changed)
        /\ \A i \in 1..Len(changed) : changed[i] = Append(front, v)[i]
    BY <1>1, <1>3, <1>4, <1>5
  <2>2. QED
    BY <1>4, <2>1, SeqEqual
<1>8. QED
  BY <1>1, <1>2, <1>4, <1>6, <1>7 DEF front, changed, n

(* Lists that are joined to one: more at the end of the last is more at    *)
(* the end of all.                                                         *)
LEMMA JoinedLonger ==
  ASSUME NEW S, NEW seqs \in Seq(Seq(S)), seqs # << >>, NEW s \in Seq(S)
  PROVE  FlattenSeq([seqs EXCEPT ![Len(seqs)] = seqs[Len(seqs)] \o s]) = FlattenSeq(seqs) \o s
<1> DEFINE T == Seq(S)
           front == SubSeq(seqs, 1, Len(seqs) - 1)
           last == seqs[Len(seqs)]
           longer == last \o s
           joined == FlattenSeq(front)
<1>1. T = Seq(S) /\ seqs \in Seq(T)
  OBVIOUS
<1>2. last \in T /\ longer \in T
  <2>1. Len(seqs) \in 1..Len(seqs)
    OBVIOUS
  <2>2. seqs[Len(seqs)] \in Seq(S)
    BY <2>1
  <2>3. QED
    BY <2>2
<1> HIDE DEF T, last, longer, front
<1>3. front \in Seq(T) /\ seqs = Append(front, last) /\ [seqs EXCEPT ![Len(seqs)] = longer] = Append(front, longer)
  BY <1>1, <1>2, LastOf DEF front, last
<1>4. FlattenSeq(Append(front, last)) = joined \o last /\ FlattenSeq(Append(front, longer)) = joined \o longer
  BY <1>1, <1>2, <1>3, JoinedEnd
<1>5. joined \in Seq(S)
  BY <1>1, <1>3, JoinedType
<1>6. joined \o longer = (joined \o last) \o s
  <2>1. \A a, b, c \in Seq(S) : a \o (b \o c) = (a \o b) \o c
    BY Regroup, SMTT(30)
  <2>2. QED
    BY <1>1, <1>2, <1>5, <2>1, Zenon DEF longer
<1>7. QED
  BY <1>3, <1>4, <1>6 DEF longer, last

(***************************************************************************)
(* A message more in a request.                                            *)
(***************************************************************************)
IdsOf == [x \in WireSet |-> BlockIds(x.blocks)]

LEMMA BlockIdsJoin ==
  ASSUME NEW a \in Seq(BlockSet), NEW b \in Seq(BlockSet)
  PROVE  /\ BlockIds(a) \in Seq(Nat) /\ a \o b \in Seq(BlockSet)
         /\ BlockIds(a \o b) = BlockIds(a) \o BlockIds(b)
<1>1. \A x \in BlockSet : x.id \in Nat
  BY DEF BlockSet
<1>2. ASSUME NEW s \in Seq(BlockSet)
      PROVE  /\ BlockIds(s) \in Seq(Nat) /\ Len(BlockIds(s)) = Len(s) /\ Len(s) \in Nat
             /\ \A i \in 1..Len(s) : BlockIds(s)[i] = s[i].id
  <2>1. \A i \in 1..Len(s) : s[i].id \in Nat
    BY <1>1
  <2>2. BlockIds(s) \in [1..Len(s) -> Nat] /\ \A i \in 1..Len(s) : BlockIds(s)[i] = s[i].id
    BY <2>1 DEF BlockIds
  <2>3. Len(s) \in Nat
    OBVIOUS
  <2>4. BlockIds(s) \in Seq(Nat) /\ Len(BlockIds(s)) = Len(s)
    BY <2>2, <2>3, FunctionIsSeq
  <2>5. QED
    BY <2>2, <2>3, <2>4
<1> DEFINE n == Len(a)
           k == Len(b)
           ab == a \o b
           ia == BlockIds(a)
           ib == BlockIds(b)
           iab == BlockIds(ab)
<1>3. /\ ab \in Seq(BlockSet) /\ Len(ab) = n + k /\ n \in Nat /\ k \in Nat
      /\ \A i \in 1..(n + k) : ab[i] = IF i <= n THEN a[i] ELSE b[i - n]
  BY ConcatProperties
<1>4. /\ ia \in Seq(Nat) /\ Len(ia) = n /\ \A i \in 1..n : ia[i] = a[i].id
      /\ ib \in Seq(Nat) /\ Len(ib) = k /\ \A i \in 1..k : ib[i] = b[i].id
  BY <1>2
<1>5. iab \in Seq(Nat) /\ Len(iab) = n + k /\ \A i \in 1..(n + k) : iab[i] = ab[i].id
  <2> HIDE DEF ab, iab
  <2>1. iab \in Seq(Nat) /\ Len(iab) = Len(ab) /\ \A i \in 1..Len(ab) : iab[i] = ab[i].id
    BY <1>2, <1>3 DEF iab
  <2>2. QED
    BY <1>3, <2>1
<1> HIDE DEF ab, ia, ib, iab, n, k
<1>6. /\ ia \o ib \in Seq(Nat) /\ Len(ia \o ib) = n + k
      /\ \A i \in 1..(n + k) : (ia \o ib)[i] = IF i <= n THEN ia[i] ELSE ib[i - n]
  BY <1>3, <1>4, ConcatProperties
<1>7. \A i \in 1..(n + k) : iab[i] = (ia \o ib)[i]
  <2>1. ASSUME NEW i \in 1..(n + k)
        PROVE  iab[i] = (ia \o ib)[i]
    <3>1. CASE i <= n
      <4>1. i \in 1..n
        BY ONLY <1>3, <3>1, i \in 1..(n + k)
      <4>2. ab[i] = a[i] /\ (ia \o ib)[i] = ia[i]
        BY <1>3, <1>6, <3>1, Zenon
      <4>3. ia[i] = a[i].id /\ iab[i] = ab[i].id
        BY <1>4, <1>5, <4>1, Zenon
      <4>4. QED
        BY <4>2, <4>3, Zenon
    <3>2. CASE ~(i <= n)
      <4>1. i - n \in 1..k
        BY ONLY <1>3, <3>2, i \in 1..(n + k)
      <4>2. ab[i] = b[i - n] /\ (ia \o ib)[i] = ib[i - n]
        BY <1>3, <1>6, <3>2, Zenon
      <4>3. ib[i - n] = b[i - n].id /\ iab[i] = ab[i].id
        BY <1>4, <1>5, <4>1, Zenon
      <4>4. QED
        BY <4>2, <4>3, Zenon
    <3>3. QED
      BY <3>1, <3>2
  <2>2. QED
    BY <2>1
<1>8. iab = ia \o ib
  <2> DEFINE joined == ia \o ib
  <2> HIDE DEF joined
  <2>1. joined \in Seq(Nat) /\ Len(iab) = Len(joined) /\ \A i \in 1..Len(iab) : iab[i] = joined[i]
    BY <1>5, <1>6, <1>7 DEF joined
  <2>2. iab = joined
    BY <1>5, <2>1, SeqEqual
  <2>3. QED
    BY <2>2 DEF joined
<1>9. QED
  BY <1>3, <1>4, <1>8 DEF ab, ia, ib, iab

LEMMA WireIdsAre ==
  ASSUME NEW wire \in Seq(WireSet)
  PROVE  /\ IsMap(IdsOf, WireSet, Seq(Nat)) /\ WireIds(wire) = FlattenSeq(Image(IdsOf, wire))
         /\ Image(IdsOf, wire) \in Seq(Seq(Nat)) /\ Len(Image(IdsOf, wire)) = Len(wire)
         /\ \A i \in 1..Len(wire) : Image(IdsOf, wire)[i] = BlockIds(wire[i].blocks)
<1>1. \A x \in WireSet : BlockIds(x.blocks) \in Seq(Nat)
  BY WireFields, BlockIdsJoin
<1>2. IsMap(IdsOf, WireSet, Seq(Nat))
  BY <1>1 DEF IsMap, IdsOf
<1>3. \A i \in DOMAIN wire : wire[i] \in WireSet
  OBVIOUS
<1>4. \A i \in DOMAIN wire : IdsOf[wire[i]] = BlockIds(wire[i].blocks)
  BY <1>3 DEF IdsOf
<1>5. [i \in DOMAIN wire |-> BlockIds(wire[i].blocks)] = Image(IdsOf, wire)
  BY <1>4, Zenon DEF Image
<1>6. Image(IdsOf, wire) \in Seq(Seq(Nat)) /\ Len(Image(IdsOf, wire)) = Len(wire)
  BY <1>2, ImageType
<1>7. \A i \in 1..Len(wire) : Image(IdsOf, wire)[i] = BlockIds(wire[i].blocks)
  <2>1. DOMAIN wire = 1..Len(wire)
    OBVIOUS
  <2>2. \A i \in DOMAIN wire : Image(IdsOf, wire)[i] = IdsOf[wire[i]]
    BY Zenon DEF Image
  <2>3. QED
    BY <1>4, <2>1, <2>2, Zenon
<1>8. WireIds(wire) = FlattenSeq(Image(IdsOf, wire))
  BY <1>5 DEF WireIds
<1>9. QED
  BY <1>2, <1>6, <1>7, <1>8

GoodWire(wire) == wire \in Seq(WireSet) /\ Apart(wire)

LEMMA LastGrows ==
  ASSUME NEW wire, GoodWire(wire), wire # << >>, NEW m \in MessageSet,
         NEW more, more = [wire EXCEPT ![Len(wire)].blocks = @ \o Anthropic!Blocks(m)]
  PROVE  GoodWire(more) /\ WireIds(more) = WireIds(wire) \o SentIds(m)
<1> DEFINE n == Len(wire)
           bs == Anthropic!Blocks(m)
           longer == wire[n].blocks \o bs
           last == [wire[n] EXCEPT !.blocks = longer]
           seqs == Image(IdsOf, wire)
           seqs2 == Image(IdsOf, more)
<1>1. wire \in Seq(WireSet) /\ Apart(wire)
  BY DEF GoodWire
<1>2. n \in Nat /\ n \in 1..n /\ DOMAIN wire = 1..n /\ \A i \in 1..n : wire[i] \in WireSet
  BY <1>1
<1>3. bs \in Seq(BlockSet) /\ BlockIds(bs) = SentIds(m) /\ SentIds(m) \in Seq(Nat)
  BY BlocksType
<1>4. wire[n] \in WireSet /\ wire[n].blocks \in Seq(BlockSet)
  BY <1>2, WireFields
<1> HIDE DEF bs
<1>5. longer \in Seq(BlockSet) /\ BlockIds(longer) = BlockIds(wire[n].blocks) \o SentIds(m)
  BY <1>3, <1>4, BlockIdsJoin
<1> HIDE DEF longer
<1>6. last \in WireSet /\ last.blocks = longer /\ last.results = wire[n].results
  BY <1>4, <1>5 DEF WireSet
<1>7. more = [wire EXCEPT ![n] = last]
  BY DEF bs, longer
<1> HIDE DEF last, n
<1>8. more \in [1..n -> WireSet] /\ more[n] = last /\ \A i \in 1..n : i # n => more[i] = wire[i]
  BY <1>1, <1>2, <1>6, <1>7
<1>9. more \in Seq(WireSet) /\ Len(more) = n /\ DOMAIN more = 1..n
  BY <1>2, <1>8, FunctionIsSeq
<1>10. \A i \in 1..n : more[i].results = wire[i].results
  BY <1>6, <1>8
<1>11. Apart(more)
  <2>1. \A i \in 1..n : i > 1 => i - 1 \in 1..n
    BY <1>2
  <2>2. QED
    BY <1>1, <1>2, <1>9, <1>10, <2>1 DEF Apart
<1>12. /\ WireIds(wire) = FlattenSeq(seqs) /\ seqs \in Seq(Seq(Nat)) /\ Len(seqs) = n
       /\ \A i \in 1..n : seqs[i] = BlockIds(wire[i].blocks)
  BY <1>1, WireIdsAre DEF n
<1>13. /\ WireIds(more) = FlattenSeq(seqs2) /\ seqs2 \in Seq(Seq(Nat)) /\ Len(seqs2) = n
       /\ \A i \in 1..n : seqs2[i] = BlockIds(more[i].blocks)
  <2>1. /\ WireIds(more) = FlattenSeq(seqs2) /\ seqs2 \in Seq(Seq(Nat)) /\ Len(seqs2) = Len(more)
        /\ \A i \in 1..Len(more) : seqs2[i] = BlockIds(more[i].blocks)
    BY <1>9, WireIdsAre
  <2>2. QED
    BY <1>9, <2>1
<1> HIDE DEF seqs, seqs2
<1> DEFINE ids == seqs[n] \o SentIds(m)
           changed == [seqs EXCEPT ![n] = ids]
           T == Seq(Nat)
<1>14. seqs[n] \in T /\ ids \in T
  BY <1>2, <1>3, <1>12
<1>15. \A i \in 1..n : seqs2[i] = IF i = n THEN ids ELSE seqs[i]
  <2>1. ASSUME NEW i \in 1..n, i = n
        PROVE  seqs2[i] = ids
    <3>1. seqs2[n] = BlockIds(longer) /\ seqs[n] = BlockIds(wire[n].blocks)
      BY <1>2, <1>6, <1>8, <1>12, <1>13
    <3>2. QED
      BY <1>5, <2>1, <3>1, Zenon DEF ids
  <2>2. ASSUME NEW i \in 1..n, i # n
        PROVE  seqs2[i] = seqs[i]
    BY <1>8, <1>12, <1>13, <2>2, Zenon
  <2>3. QED
    BY <2>1, <2>2, Zenon
<1> HIDE DEF ids, T
<1>16. changed \in Seq(T) /\ Len(changed) = n /\ \A i \in 1..n : changed[i] = IF i = n THEN ids ELSE seqs[i]
  <2>1. seqs \in Seq(T)
    BY <1>12 DEF T
  <2>2. changed \in [1..n -> T] /\ \A i \in 1..n : changed[i] = IF i = n THEN ids ELSE seqs[i]
    BY <1>2, <1>12, <1>14, <2>1
  <2> HIDE DEF changed
  <2>3. QED
    BY <1>2, <2>2, FunctionIsSeq
<1> HIDE DEF changed
<1>17. seqs2 = changed
  <2>1. seqs2 \in Seq(T) /\ \A i \in 1..Len(seqs2) : seqs2[i] = changed[i]
    BY <1>13, <1>15, <1>16 DEF T
  <2>2. QED
    BY <1>13, <1>16, <2>1, SeqEqual
<1>18. seqs # << >>
  BY <1>2, <1>12
<1>19. FlattenSeq(changed) = FlattenSeq(seqs) \o SentIds(m)
  BY <1>3, <1>12, <1>18, JoinedLonger DEF changed, ids
<1>20. QED
  BY <1>9, <1>11, <1>12, <1>13, <1>17, <1>19 DEF GoodWire

LEMMA WireAppends ==
  ASSUME NEW wire, GoodWire(wire), NEW m \in MessageSet,
         ~(m.kind = "tool" /\ wire # << >> /\ wire[Len(wire)].results),
         NEW entry, entry = [role |-> IF m.kind = "assistant" THEN "assistant" ELSE "user",
                             results |-> m.kind = "tool", blocks |-> Anthropic!Blocks(m)]
  PROVE  GoodWire(Append(wire, entry)) /\ WireIds(Append(wire, entry)) = WireIds(wire) \o SentIds(m)
<1> DEFINE n == Len(wire)
           bs == Anthropic!Blocks(m)
           more == Append(wire, entry)
<1>1. wire \in Seq(WireSet) /\ Apart(wire)
  BY DEF GoodWire
<1>2. bs \in Seq(BlockSet) /\ BlockIds(bs) = SentIds(m) /\ SentIds(m) \in Seq(Nat)
  BY BlocksType
<1> HIDE DEF bs
<1>3. entry \in WireSet /\ entry.blocks = bs /\ entry.results = (m.kind = "tool")
  BY <1>2 DEF WireSet, bs
<1>4. n \in Nat /\ DOMAIN wire = 1..n /\ (n # 0 <=> wire # << >>)
  BY <1>1
<1>5. /\ more \in Seq(WireSet) /\ DOMAIN more = 1..(n + 1) /\ more[n + 1] = entry
      /\ \A i \in 1..n : more[i] = wire[i]
  BY <1>1, <1>3
<1> HIDE DEF n, more
<1>6. Apart(more)
  <2>1. SUFFICES ASSUME NEW i \in 1..(n + 1), i > 1, more[i].results, more[i - 1].results
                 PROVE  FALSE
    BY <1>5, Zenon DEF Apart
  <2>2. i - 1 \in 1..n
    BY <1>4, <2>1
  <2>3. CASE i = n + 1
    <3>1. i - 1 = n /\ wire # << >>
      BY <1>4, <2>1, <2>2, <2>3
    <3>2. m.kind = "tool" /\ wire[Len(wire)].results
      BY <1>3, <1>5, <2>1, <2>2, <2>3, <3>1 DEF n
    <3>3. QED
      BY <3>1, <3>2
  <2>4. CASE i # n + 1
    <3>1. i \in 1..n
      BY <1>4, <2>4
    <3>2. QED
      BY <1>1, <1>4, <1>5, <2>1, <2>2, <3>1 DEF Apart
  <2>5. QED
    BY <2>3, <2>4
<1>7. IsMap(IdsOf, WireSet, Seq(Nat)) /\ WireIds(wire) = FlattenSeq(Image(IdsOf, wire)) /\ Image(IdsOf, wire) \in Seq(Seq(Nat))
  BY <1>1, WireIdsAre
<1>8. WireIds(more) = FlattenSeq(Image(IdsOf, more))
  BY <1>5, WireIdsAre
<1>9. Image(IdsOf, more) = Append(Image(IdsOf, wire), IdsOf[entry])
  BY <1>1, <1>3, <1>7, ImageEnd DEF more
<1>10. IdsOf[entry] = SentIds(m)
  BY <1>2, <1>3 DEF IdsOf
<1>11. FlattenSeq(Append(Image(IdsOf, wire), SentIds(m))) = FlattenSeq(Image(IdsOf, wire)) \o SentIds(m)
  BY <1>2, <1>7, JoinedEnd
<1>12. QED
  BY <1>5, <1>6, <1>7, <1>8, <1>9, <1>10, <1>11 DEF GoodWire, more

LEMMA OneMore ==
  ASSUME NEW wire, GoodWire(wire), NEW m \in MessageSet
  PROVE  /\ GoodWire(Anthropic!WithMessage(wire, m))
         /\ WireIds(Anthropic!WithMessage(wire, m)) = WireIds(wire) \o SentIds(m)
<1>1. CASE m.kind = "tool" /\ wire # << >> /\ wire[Len(wire)].results
  <2>1. Anthropic!WithMessage(wire, m) = [wire EXCEPT ![Len(wire)].blocks = @ \o Anthropic!Blocks(m)]
    BY <1>1, Zenon DEF Anthropic!WithMessage
  <2>2. QED
    BY <1>1, <2>1, LastGrows
<1>2. CASE ~(m.kind = "tool" /\ wire # << >> /\ wire[Len(wire)].results)
  <2> DEFINE entry == [role |-> IF m.kind = "assistant" THEN "assistant" ELSE "user",
                       results |-> m.kind = "tool", blocks |-> Anthropic!Blocks(m)]
  <2>1. Anthropic!WithMessage(wire, m) = Append(wire, entry)
    BY <1>2, Zenon DEF Anthropic!WithMessage
  <2>2. entry = [role |-> IF m.kind = "assistant" THEN "assistant" ELSE "user",
                 results |-> m.kind = "tool", blocks |-> Anthropic!Blocks(m)]
    OBVIOUS
  <2> HIDE DEF entry
  <2>3. GoodWire(Append(wire, entry)) /\ WireIds(Append(wire, entry)) = WireIds(wire) \o SentIds(m)
    BY <1>2, <2>2, WireAppends
  <2>4. QED
    BY <2>1, <2>3
<1>3. QED
  BY <1>1, <1>2

AllSentIds(ms) == [i \in DOMAIN ms |-> SentIds(ms[i])]

LEMMA WiresAre ==
  ASSUME NEW ms \in Seq(MessageSet)
  PROVE  /\ Anthropic!WireOfFirst(ms)[0] = << >>
         /\ \A i \in 1..Len(ms) :
              Anthropic!WireOfFirst(ms)[i] = Anthropic!WithMessage(Anthropic!WireOfFirst(ms)[i - 1], ms[i])
<1> DEFINE n == Len(ms)
           V == {w \in Seq(WireSet) : Apart(w)}
           step == [p \in (1..n) \X V |-> Anthropic!WithMessage(p[2], ms[p[1]])]
           Solves(e) == e = [i \in 0..n |-> IF i = 0 THEN << >> ELSE Anthropic!WithMessage(e[i - 1], ms[i])]
<1>1. n \in Nat /\ \A i \in 1..n : ms[i] \in MessageSet
  OBVIOUS
<1>2. << >> \in V
  <2>1. << >> \in Seq(WireSet) /\ DOMAIN << >> = {}
    OBVIOUS
  <2>2. Apart(<< >>)
    BY <2>1, Zenon DEF Apart
  <2>3. QED
    BY <2>1, <2>2
<1>3. \A v \in V : \A i \in 1..n : Anthropic!WithMessage(v, ms[i]) \in V
  BY <1>1, OneMore, Zenon DEF GoodWire
<1>4. step \in [(1..n) \X V -> V] /\ \A i \in 1..n : \A v \in V : step[<<i, v>>] = Anthropic!WithMessage(v, ms[i])
  <2> HIDE DEF V
  <2>1. \A p \in (1..n) \X V : p[1] \in 1..n /\ p[2] \in V
    OBVIOUS
  <2>2. \A p \in (1..n) \X V : Anthropic!WithMessage(p[2], ms[p[1]]) \in V
    BY <1>3, <2>1, Zenon
  <2>3. QED
    BY <2>2
<1>5. Anthropic!WireOfFirst(ms) = CHOOSE e : Solves(e)
  BY DEF Anthropic!WireOfFirst
<1> HIDE DEF step, n, V
<1>6. PICK f : f \in [0..n -> V] /\ f[0] = << >> /\ \A i \in 1..n : f[i] = step[<<i, f[i - 1]>>]
  <2>1. \E f : Recurs(f, n, V, << >>, step)
    BY <1>1, <1>2, <1>4, Recursion, Zenon
  <2>2. QED
    BY <2>1, Zenon DEF Recurs
<1>7. \A i \in 1..n : i - 1 \in 0..n /\ i \in 0..n /\ f[i - 1] \in V /\ f[i] = Anthropic!WithMessage(f[i - 1], ms[i])
  <2>1. \A i \in 1..n : i - 1 \in 0..n /\ i \in 0..n
    BY <1>1
  <2>2. QED
    BY <1>4, <1>6, <2>1
<1>8. Solves(f)
  <2>1. f = [i \in 0..n |-> f[i]]
    BY <1>6
  <2>2. \A i \in 0..n : f[i] = IF i = 0 THEN << >> ELSE Anthropic!WithMessage(f[i - 1], ms[i])
    <3>1. \A i \in 0..n : i # 0 => i \in 1..n
      BY <1>1
    <3>2. QED
      BY <1>6, <1>7, <3>1, Zenon
  <2>3. QED
    BY <2>1, <2>2, Zenon
<1>9. Solves(Anthropic!WireOfFirst(ms))
  BY <1>5, <1>8, Zenon
<1> DEFINE g == Anthropic!WireOfFirst(ms)
<1>10. g = [i \in 0..n |-> IF i = 0 THEN << >> ELSE Anthropic!WithMessage(g[i - 1], ms[i])]
  BY <1>9, Zenon
<1> HIDE DEF Solves, g
<1>11. 0 \in 0..n /\ \A i \in 1..n : i \in 0..n /\ i # 0
  BY <1>1
<1>12. \A i \in 0..n : g[i] = IF i = 0 THEN << >> ELSE Anthropic!WithMessage(g[i - 1], ms[i])
  BY <1>10, Zenon
<1>13. g[0] = << >> /\ \A i \in 1..n : g[i] = Anthropic!WithMessage(g[i - 1], ms[i])
  BY <1>11, <1>12, Zenon
<1>14. QED
  BY <1>13 DEF g, n

LEMMA MergedIs ==
  ASSUME NEW ms \in Seq(MessageSet)
  PROVE  GoodWire(Anthropic!Merged(ms)) /\ WireIds(Anthropic!Merged(ms)) = FlattenSeq(AllSentIds(ms))
<1> DEFINE n == Len(ms)
           W == Anthropic!WireOfFirst(ms)
           seqs == AllSentIds(ms)
<1>1. n \in Nat /\ DOMAIN ms = 1..n /\ \A i \in 1..n : ms[i] \in MessageSet
  OBVIOUS
<1>2. W[0] = << >> /\ \A i \in 1..n : W[i] = Anthropic!WithMessage(W[i - 1], ms[i])
  BY WiresAre
<1> HIDE DEF W, n
<1>3. /\ seqs \in Seq(Seq(Nat)) /\ Len(seqs) = n
      /\ \A i \in 1..n : seqs[i] = SentIds(ms[i])
  <2>1. \A i \in 1..n : SentIds(ms[i]) \in Seq(Nat)
    BY <1>1, BlocksType
  <2>2. seqs \in [1..n -> Seq(Nat)] /\ \A i \in 1..n : seqs[i] = SentIds(ms[i])
    BY <1>1, <2>1 DEF AllSentIds
  <2> HIDE DEF seqs
  <2>3. QED
    BY <1>1, <2>2, FunctionIsSeq
<1> HIDE DEF seqs
<1>4. PICK f \in [0..n -> Seq(Nat)] :
        /\ f[0] = << >>
        /\ \A i \in 1..n : f[i] = f[i - 1] \o seqs[i]
        /\ FlattenSeq(seqs) = f[n]
  <2>1. \E f \in [0..Len(seqs) -> Seq(Nat)] :
          /\ f[0] = << >>
          /\ \A i \in 1..Len(seqs) : f[i] = f[i - 1] \o seqs[i]
          /\ FlattenSeq(seqs) = f[Len(seqs)]
    BY ONLY <1>3, Joining
  <2>2. QED
    BY ONLY <1>3, <2>1, Zenon
<1> DEFINE P == {i \in 0..n : GoodWire(W[i]) /\ WireIds(W[i]) = f[i]}
<1>5. 0 \in P
  <2>1. << >> \in Seq(WireSet) /\ DOMAIN << >> = {} /\ 0 \in 0..n
    BY <1>1
  <2>2. GoodWire(<< >>)
    BY <2>1, Zenon DEF GoodWire, Apart
  <2>3. WireIds(<< >>) = << >>
    <3>1. WireIds(<< >>) = FlattenSeq(<< >>)
      BY DEF WireIds
    <3>2. << >> \in Seq(Seq(Nat))
      OBVIOUS
    <3>3. QED
      BY <3>1, <3>2, JoinedType, Zenon
  <2>4. QED
    BY <1>2, <1>4, <2>1, <2>2, <2>3
<1>6. ASSUME NEW i \in 1..n, i - 1 \in P
      PROVE  i \in P
  <2>1. i \in 0..n /\ GoodWire(W[i - 1]) /\ WireIds(W[i - 1]) = f[i - 1] /\ ms[i] \in MessageSet
    BY <1>1, <1>6
  <2>2. W[i] = Anthropic!WithMessage(W[i - 1], ms[i]) /\ f[i] = f[i - 1] \o SentIds(ms[i])
    BY <1>2, <1>3, <1>4
  <2>3. GoodWire(W[i]) /\ WireIds(W[i]) = f[i]
    BY <2>1, <2>2, OneMore
  <2>4. QED
    BY <2>1, <2>3
<1> HIDE DEF P
<1>7. \A i \in 0..n : i \in P
  BY ONLY <1>1, <1>5, <1>6, Induct, Zenon
<1>8. n \in P
  BY <1>1, <1>7
<1>9. Anthropic!Merged(ms) = W[n]
  BY DEF Anthropic!Merged, W, n
<1>10. QED
  BY <1>4, <1>8, <1>9 DEF P, seqs

-----------------------------------------------------------------------------
(***************************************************************************)
(* Places in a request, and the last of them.                              *)
(***************************************************************************)
Grid(n, k) == (1..n) \X (1..k)

After(p, R) == {q \in R : Anthropic!Before(p, q)}

LastOnes(R, b) == {p \in R : Cardinality(After(p, R)) < b}

LEMMA BeforeIsAnOrder ==
  ASSUME NEW n \in Nat, NEW k \in Nat
  PROVE  /\ \A p, q \in Grid(n, k) : p = q \/ Anthropic!Before(p, q) \/ Anthropic!Before(q, p)
         /\ \A p, q \in Grid(n, k) : ~(Anthropic!Before(p, q) /\ Anthropic!Before(q, p))
         /\ \A p, q, r \in Grid(n, k) : Anthropic!Before(p, q) /\ Anthropic!Before(q, r) => Anthropic!Before(p, r)
         /\ \A p \in Grid(n, k) : ~Anthropic!Before(p, p)
<1>1. \A p \in Grid(n, k) : p = <<p[1], p[2]>> /\ p[1] \in Int /\ p[2] \in Int
  BY DEF Grid
<1>2. \A p, q \in Grid(n, k) : Anthropic!Before(p, q) <=> p[1] < q[1] \/ (p[1] = q[1] /\ p[2] < q[2])
  BY DEF Anthropic!Before
<1>3. \A p, q \in Grid(n, k) : p[1] = q[1] /\ p[2] = q[2] => p = q
  BY <1>1, Zenon
<1>4. ASSUME NEW p \in Grid(n, k), NEW q \in Grid(n, k)
      PROVE  /\ p = q \/ Anthropic!Before(p, q) \/ Anthropic!Before(q, p)
             /\ ~(Anthropic!Before(p, q) /\ Anthropic!Before(q, p))
             /\ ~Anthropic!Before(p, p)
  <2>1. p[1] \in Int /\ p[2] \in Int /\ q[1] \in Int /\ q[2] \in Int
    BY <1>1
  <2>2. /\ Anthropic!Before(p, q) <=> p[1] < q[1] \/ (p[1] = q[1] /\ p[2] < q[2])
        /\ Anthropic!Before(q, p) <=> q[1] < p[1] \/ (q[1] = p[1] /\ q[2] < p[2])
        /\ Anthropic!Before(p, p) <=> p[1] < p[1] \/ (p[1] = p[1] /\ p[2] < p[2])
    BY <1>2, Zenon
  <2>3. p[1] = q[1] /\ p[2] = q[2] => p = q
    BY <1>3
  <2>4. QED
    BY ONLY <2>1, <2>2, <2>3
<1>5. ASSUME NEW p \in Grid(n, k), NEW q \in Grid(n, k), NEW r \in Grid(n, k),
             Anthropic!Before(p, q), Anthropic!Before(q, r)
      PROVE  Anthropic!Before(p, r)
  <2>1. /\ p[1] \in Int /\ p[2] \in Int /\ q[1] \in Int /\ q[2] \in Int /\ r[1] \in Int /\ r[2] \in Int
        /\ p[1] < q[1] \/ (p[1] = q[1] /\ p[2] < q[2])
        /\ q[1] < r[1] \/ (q[1] = r[1] /\ q[2] < r[2])
    BY <1>1, <1>2, <1>5
  <2>2. p[1] < r[1] \/ (p[1] = r[1] /\ p[2] < r[2])
    BY ONLY <2>1
  <2>3. QED
    BY <1>2, <2>2
<1>6. QED
  BY <1>4, <1>5

LEMMA LastPlace ==
  ASSUME NEW n \in Nat, NEW k \in Nat, NEW S \in SUBSET Grid(n, k), S # {}
  PROVE  \E g \in S : \A p \in S : p = g \/ Anthropic!Before(p, g)
<1> DEFINE rows == {p[1] : p \in S}
           row == Max(rows)
           columns == {p[2] : p \in {q \in S : q[1] = row}}
           column == Max(columns)
<1>1. \A p \in S : p \in Grid(n, k) /\ p = <<p[1], p[2]>> /\ p[1] \in 1..n /\ p[2] \in 1..k
  BY DEF Grid
<1>2. rows \in SUBSET (1..n) /\ rows # {}
  BY <1>1
<1>3. row \in rows /\ \A r \in rows : r <= row
  <2> HIDE DEF rows
  <2>1. QED
    BY ONLY n \in Nat, <1>2, Greatest, Zenon DEF row
<1> HIDE DEF row
<1>4. columns \in SUBSET (1..k) /\ columns # {}
  BY <1>1, <1>3
<1>5. column \in columns /\ \A c \in columns : c <= column
  <2> HIDE DEF columns
  <2>1. QED
    BY ONLY k \in Nat, <1>4, Greatest, Zenon DEF column
<1> HIDE DEF column
<1>6. PICK g \in S : g[1] = row /\ g[2] = column
  BY <1>5
<1>7. ASSUME NEW p \in S
      PROVE  p = g \/ Anthropic!Before(p, g)
  <2>1. p[1] <= row /\ (p[1] = row => p[2] <= column)
    BY <1>3, <1>5
  <2>2. p[1] \in Int /\ p[2] \in Int /\ g[1] \in Int /\ g[2] \in Int
    BY <1>1
  <2>3. p[1] < g[1] \/ (p[1] = g[1] /\ p[2] < g[2]) \/ (p[1] = g[1] /\ p[2] = g[2])
    BY ONLY <1>6, <2>1, <2>2
  <2>4. p[1] = g[1] /\ p[2] = g[2] => p = g
    BY <1>1, Zenon
  <2>5. QED
    BY <2>3, <2>4, Zenon DEF Anthropic!Before
<1>8. QED
  BY <1>7

LEMMA FirstPlace ==
  ASSUME NEW n \in Nat, NEW k \in Nat, NEW S \in SUBSET Grid(n, k), S # {}
  PROVE  \E g \in S : \A p \in S : p = g \/ Anthropic!Before(g, p)
<1> DEFINE rows == {p[1] : p \in S}
<1>1. \A p \in S : p \in Grid(n, k) /\ p = <<p[1], p[2]>> /\ p[1] \in 1..n /\ p[2] \in 1..k
  BY DEF Grid
<1>2. rows \subseteq Nat /\ rows # {}
  BY <1>1
<1>3. PICK row \in rows : \A r \in rows : row <= r
  <2> HIDE DEF rows
  <2>1. QED
    BY ONLY <1>2, Least, Zenon
<1> DEFINE columns == {p[2] : p \in {q \in S : q[1] = row}}
<1>4. columns \subseteq Nat /\ columns # {}
  BY <1>1, <1>3
<1>5. PICK column \in columns : \A c \in columns : column <= c
  <2> HIDE DEF columns
  <2>1. QED
    BY ONLY <1>4, Least, Zenon
<1>6. PICK g \in S : g[1] = row /\ g[2] = column
  BY <1>5
<1>7. ASSUME NEW p \in S
      PROVE  p = g \/ Anthropic!Before(g, p)
  <2>1. row <= p[1] /\ (p[1] = row => column <= p[2])
    BY <1>3, <1>5
  <2>2. p[1] \in Int /\ p[2] \in Int /\ g[1] \in Int /\ g[2] \in Int
    BY <1>1
  <2>3. g[1] < p[1] \/ (g[1] = p[1] /\ g[2] < p[2]) \/ (p[1] = g[1] /\ p[2] = g[2])
    BY ONLY <1>6, <2>1, <2>2
  <2>4. p[1] = g[1] /\ p[2] = g[2] => p = g
    BY <1>1, Zenon
  <2>5. QED
    BY <2>3, <2>4, Zenon DEF Anthropic!Before
<1>8. QED
  BY <1>7

(* As many as there is room for are kept, and only the last.               *)
LEMMA LastOnesAre ==
  ASSUME NEW n \in Nat, NEW k \in Nat, NEW R \in SUBSET Grid(n, k), NEW b \in Nat
  PROVE  /\ IsFiniteSet(LastOnes(R, b)) /\ Cardinality(LastOnes(R, b)) <= b
         /\ (R \ LastOnes(R, b) # {} => Cardinality(LastOnes(R, b)) >= b)
         /\ \A p \in R \ LastOnes(R, b) : \A q \in R : Anthropic!Before(q, p) => q \notin LastOnes(R, b)
<1> DEFINE A == LastOnes(R, b)
<1>1. IsFiniteSet(R)
  <2>1. IsFiniteSet(1..n) /\ IsFiniteSet(1..k)
    BY FS_Interval
  <2>2. IsFiniteSet((1..n) \X (1..k))
    BY <2>1, FS_Product
  <2>3. QED
    BY <2>2, FS_Subset DEF Grid
<1>2. ASSUME NEW S \in SUBSET R
      PROVE  IsFiniteSet(S) /\ Cardinality(S) \in Nat
  BY <1>1, FS_Subset, FS_CardinalityType
<1>3. \A p \in R : After(p, R) \in SUBSET R
  BY DEF After
<1>4. A \in SUBSET R /\ \A p \in R : p \in A <=> Cardinality(After(p, R)) < b
  BY DEF LastOnes
<1> HIDE DEF A
<1>5. Cardinality(A) <= b
  <2>1. CASE A = {}
    BY <2>1, FS_EmptySet
  <2>2. CASE A # {}
    <3>1. PICK g \in A : \A p \in A : p = g \/ Anthropic!Before(g, p)
      <4>1. A \in SUBSET Grid(n, k)
        BY <1>4
      <4>2. QED
        BY <2>2, <4>1, FirstPlace
    <3>2. A \subseteq After(g, R) \union {g}
      BY <1>4, <3>1 DEF After
    <3>3. /\ IsFiniteSet(After(g, R)) /\ Cardinality(After(g, R)) \in Nat
          /\ Cardinality(After(g, R)) < b /\ Cardinality(A) \in Nat
      BY <1>2, <1>3, <1>4, <3>1
    <3>4. IsFiniteSet(After(g, R) \union {g}) /\ Cardinality(After(g, R) \union {g}) <= Cardinality(After(g, R)) + 1
      <4> DEFINE rest == After(g, R)
      <4>1. IsFiniteSet(rest) /\ Cardinality(rest) \in Nat
        BY <3>3
      <4> HIDE DEF rest
      <4>2. /\ IsFiniteSet(rest \union {g})
            /\ Cardinality(rest \union {g}) = Cardinality(rest) \/ Cardinality(rest \union {g}) = Cardinality(rest) + 1
        BY <4>1, FS_AddElement, Zenon
      <4>3. IsFiniteSet(rest \union {g}) /\ Cardinality(rest \union {g}) <= Cardinality(rest) + 1
        BY <4>1, <4>2
      <4>4. QED
        BY <4>3 DEF rest
    <3>5. Cardinality(A) <= Cardinality(After(g, R) \union {g}) /\ Cardinality(After(g, R) \union {g}) \in Nat
      BY <3>2, <3>4, FS_Subset, FS_CardinalityType
    <3>6. QED
      BY <3>3, <3>4, <3>5
  <2>3. QED
    BY <2>1, <2>2
<1>6. ASSUME R \ A # {}
      PROVE  Cardinality(A) >= b
  <2>1. PICK g \in R \ A : \A p \in R \ A : p = g \/ Anthropic!Before(p, g)
    <3>1. R \ A \in SUBSET Grid(n, k)
      OBVIOUS
    <3>2. QED
      BY <1>6, <3>1, LastPlace
  <2>2. After(g, R) \subseteq A
    <3>1. ASSUME NEW q \in After(g, R), q \notin A
          PROVE  FALSE
      <4>1. q \in R /\ Anthropic!Before(g, q) /\ g \in Grid(n, k) /\ q \in Grid(n, k)
        BY <3>1 DEF After
      <4>2. q = g \/ Anthropic!Before(q, g)
        BY <2>1, <3>1, <4>1
      <4>3. QED
        BY <4>1, <4>2, BeforeIsAnOrder
    <3>2. QED
      BY <3>1
  <2>3. ~(Cardinality(After(g, R)) < b) /\ Cardinality(After(g, R)) \in Nat /\ Cardinality(A) \in Nat /\ IsFiniteSet(A)
    BY <1>2, <1>3, <1>4
  <2>4. Cardinality(After(g, R)) <= Cardinality(A)
    BY <2>2, <2>3, FS_Subset
  <2>5. QED
    BY <2>3, <2>4
<1>7. ASSUME NEW p \in R \ A, NEW q \in R, Anthropic!Before(q, p), q \in A
      PROVE  FALSE
  <2>1. After(p, R) \subseteq After(q, R)
    <3>1. \A r \in R : Anthropic!Before(p, r) => Anthropic!Before(q, r)
      <4>1. \A r \in R : r \in Grid(n, k)
        OBVIOUS
      <4>2. QED
        BY <1>7, <4>1, BeforeIsAnOrder
    <3>2. QED
      BY <3>1 DEF After
  <2>2. IsFiniteSet(After(q, R)) /\ Cardinality(After(p, R)) \in Nat /\ Cardinality(After(q, R)) \in Nat
    BY <1>2, <1>3
  <2>3. Cardinality(After(p, R)) <= Cardinality(After(q, R))
    BY <2>1, <2>2, FS_Subset
  <2>4. Cardinality(After(q, R)) < b /\ ~(Cardinality(After(p, R)) < b)
    BY <1>4, <1>7
  <2>5. QED
    BY <2>2, <2>3, <2>4
<1>8. IsFiniteSet(A)
  BY <1>2, <1>4
<1>9. QED
  BY <1>5, <1>6, <1>7, <1>8 DEF A

-----------------------------------------------------------------------------
(***************************************************************************)
(* What a request carries.                                                 *)
(***************************************************************************)
Marks(sent) == {p \in Anthropic!Places(sent) : sent[p[1]].blocks[p[2]].marked}

SameBlock(b, c) == b.kind = c.kind /\ b.id = c.id /\ b.breakpoint = c.breakpoint

(* The blocks of a wire, marked where they should be.                      *)
MarkedAs(wire, sent, marks) ==
  /\ DOMAIN sent = DOMAIN wire
  /\ \A i \in DOMAIN wire :
       /\ sent[i].role = wire[i].role
       /\ sent[i].results = wire[i].results
       /\ DOMAIN sent[i].blocks = DOMAIN wire[i].blocks
       /\ \A j \in DOMAIN wire[i].blocks :
            /\ SameBlock(sent[i].blocks[j], wire[i].blocks[j])
            /\ sent[i].blocks[j].marked = (<<i, j>> \in marks)

LEMMA BlockFields ==
  ASSUME NEW b \in BlockSet
  PROVE  /\ b.kind \notin {"redacted_thinking"} /\ b.id \in Nat /\ b.breakpoint \in BOOLEAN /\ b.marked = FALSE
         /\ b.breakpoint => b.kind # "thinking"
         /\ \A x \in BOOLEAN : SameBlock(Anthropic!Mark(b, x), b) /\ Anthropic!Mark(b, x).marked = x
<1>1. /\ b \in [kind : PartKinds \union {"tool_result"}, id : Nat, breakpoint : BOOLEAN, marked : {FALSE}]
      /\ b.breakpoint => b.kind # "thinking"
  BY DEF BlockSet
<1>2. b.kind \notin {"redacted_thinking"} /\ b.id \in Nat /\ b.breakpoint \in BOOLEAN /\ b.marked = FALSE
  BY <1>1 DEF PartKinds
<1>3. ASSUME NEW x \in BOOLEAN
      PROVE  SameBlock(Anthropic!Mark(b, x), b) /\ Anthropic!Mark(b, x).marked = x
  <2>1. \A y : LET c == [b EXCEPT !.marked = y] IN c.kind = b.kind /\ c.id = b.id /\ c.breakpoint = b.breakpoint /\ c.marked = y
    BY <1>1
  <2>2. (b.marked \/ x) = x
    BY <1>2, Zenon
  <2>3. Anthropic!Mark(b, x) = [b EXCEPT !.marked = x]
    BY <2>2, Zenon DEF Anthropic!Mark
  <2>4. QED
    BY <2>1, <2>3, Zenon DEF SameBlock
<1>4. QED
  BY <1>1, <1>2, <1>3

LEMMA MarkedIs ==
  ASSUME NEW wire, GoodWire(wire), NEW marks, NEW sent,
         sent = [i \in DOMAIN wire |->
           [wire[i] EXCEPT !.blocks = [j \in DOMAIN @ |-> Anthropic!Mark(@[j], <<i, j>> \in marks)]]]
  PROVE  MarkedAs(wire, sent, marks)
<1>1. \A i \in DOMAIN wire : wire[i] \in WireSet
  BY DEF GoodWire
<1>2. DOMAIN sent = DOMAIN wire
  OBVIOUS
<1>3. ASSUME NEW i \in DOMAIN wire
      PROVE  /\ sent[i].role = wire[i].role
             /\ sent[i].results = wire[i].results
             /\ DOMAIN sent[i].blocks = DOMAIN wire[i].blocks
             /\ \A j \in DOMAIN wire[i].blocks :
                  /\ SameBlock(sent[i].blocks[j], wire[i].blocks[j])
                  /\ sent[i].blocks[j].marked = (<<i, j>> \in marks)
  <2> DEFINE bs == wire[i].blocks
             marked == [j \in DOMAIN bs |-> Anthropic!Mark(bs[j], <<i, j>> \in marks)]
  <2>1. sent[i] = [wire[i] EXCEPT !.blocks = marked]
    BY Zenon
  <2>2. wire[i] \in WireSet /\ bs \in Seq(BlockSet)
    BY <1>1, WireFields
  <2> HIDE DEF marked
  <2>3. sent[i].role = wire[i].role /\ sent[i].results = wire[i].results /\ sent[i].blocks = marked
    BY <2>1, <2>2 DEF WireSet
  <2> HIDE DEF bs
  <2>4. ASSUME NEW j \in DOMAIN bs
        PROVE  SameBlock(marked[j], bs[j]) /\ marked[j].marked = (<<i, j>> \in marks)
    <3>1. bs[j] \in BlockSet
      BY <2>2
    <3>2. marked[j] = Anthropic!Mark(bs[j], <<i, j>> \in marks)
      BY Zenon DEF marked
    <3>3. (<<i, j>> \in marks) \in BOOLEAN
      OBVIOUS
    <3>4. QED
      BY <3>1, <3>2, <3>3, BlockFields, Zenon
  <2>5. DOMAIN marked = DOMAIN bs
    BY DEF marked
  <2>6. QED
    BY <2>3, <2>4, <2>5, Zenon DEF bs
<1>4. QED
  BY <1>2, <1>3, Zenon DEF MarkedAs

LEMMA PlacesAre ==
  ASSUME NEW wire, GoodWire(wire), NEW marks, NEW sent, MarkedAs(wire, sent, marks)
  PROVE  /\ Anthropic!Places(wire) \in SUBSET Grid(Len(wire), 6) /\ Len(wire) \in Nat
         /\ Anthropic!Requested(wire) \in SUBSET Anthropic!Places(wire)
         /\ Anthropic!Requested(sent) = Anthropic!Requested(wire)
         /\ Marks(sent) = {p \in Anthropic!Places(wire) : p \in marks}
         /\ \A p \in Anthropic!Places(wire) :
              /\ p[1] \in DOMAIN wire /\ p[2] \in DOMAIN wire[p[1]].blocks /\ p = <<p[1], p[2]>>
              /\ SameBlock(sent[p[1]].blocks[p[2]], wire[p[1]].blocks[p[2]])
<1>1. wire \in Seq(WireSet) /\ Len(wire) \in Nat /\ DOMAIN wire = 1..Len(wire)
  BY DEF GoodWire
<1>2. \A w : Anthropic!Places(w) = {p \in (DOMAIN w) \X (1..6) : p[2] \in DOMAIN w[p[1]].blocks}
  BY DEF Anthropic!Places
<1>3. \A p \in (DOMAIN wire) \X (1..6) : p[1] \in DOMAIN wire /\ p = <<p[1], p[2]>>
  OBVIOUS
<1>4. Anthropic!Places(sent) = Anthropic!Places(wire)
  <2>1. DOMAIN sent = DOMAIN wire /\ \A i \in DOMAIN wire : DOMAIN sent[i].blocks = DOMAIN wire[i].blocks
    BY DEF MarkedAs
  <2>2. \A p \in (DOMAIN wire) \X (1..6) : p[2] \in DOMAIN sent[p[1]].blocks <=> p[2] \in DOMAIN wire[p[1]].blocks
    BY <1>3, <2>1, Zenon
  <2>3. QED
    BY <1>2, <2>1, <2>2
<1>5. ASSUME NEW p \in Anthropic!Places(wire)
      PROVE  /\ p[1] \in DOMAIN wire /\ p[2] \in DOMAIN wire[p[1]].blocks /\ p = <<p[1], p[2]>>
             /\ SameBlock(sent[p[1]].blocks[p[2]], wire[p[1]].blocks[p[2]])
             /\ sent[p[1]].blocks[p[2]].marked = (p \in marks)
  <2>1. p[1] \in DOMAIN wire /\ p[2] \in DOMAIN wire[p[1]].blocks /\ p = <<p[1], p[2]>>
    BY <1>2, <1>3
  <2>2. /\ SameBlock(sent[p[1]].blocks[p[2]], wire[p[1]].blocks[p[2]])
        /\ sent[p[1]].blocks[p[2]].marked = (<<p[1], p[2]>> \in marks)
    BY <2>1, Zenon DEF MarkedAs
  <2>3. QED
    BY <2>1, <2>2, Zenon
<1>6. Anthropic!Places(wire) \in SUBSET Grid(Len(wire), 6)
  BY <1>1, <1>2 DEF Grid
<1>7. Anthropic!Requested(wire) \in SUBSET Anthropic!Places(wire)
  BY DEF Anthropic!Requested
<1>8. Anthropic!Requested(sent) = Anthropic!Requested(wire)
  <2>1. \A p \in Anthropic!Places(wire) : sent[p[1]].blocks[p[2]].breakpoint = wire[p[1]].blocks[p[2]].breakpoint
    BY <1>5, Zenon DEF SameBlock
  <2>2. QED
    BY <1>4, <2>1 DEF Anthropic!Requested
<1>9. Marks(sent) = {p \in Anthropic!Places(wire) : p \in marks}
  BY <1>4, <1>5 DEF Marks
<1>10. QED
  BY <1>1, <1>5, <1>6, <1>7, <1>8, <1>9

Bound(bound) == bound.automatic \in BOOLEAN /\ bound.top_level \in BOOLEAN

One(b) == IF b THEN 1 ELSE 0

(* What is sent of a conversation, by the room that the binding leaves.    *)
SentWell(sent, ms, budget, bound) ==
  /\ Cardinality(Marks(sent)) \in Nat
  /\ Cardinality(Marks(sent)) + One(bound.automatic /\ bound.top_level) <= budget + One(bound.automatic)
  /\ \A p \in Anthropic!Requested(sent) \ Marks(sent) :
       /\ \A q \in Anthropic!Requested(sent) : Anthropic!Before(q, p) => q \notin Marks(sent)
       /\ Cardinality(Anthropic!Requested(sent) \intersect Marks(sent)) >= budget
  /\ \A p \in Marks(sent) : sent[p[1]].blocks[p[2]].kind \notin Anthropic!Thinking
  /\ Apart(sent) /\ WireIds(sent) = FlattenSeq(AllSentIds(ms))

SentType(sent) ==
  \A i \in DOMAIN sent :
    /\ sent[i].role \in {"user", "assistant"}
    /\ \A j \in DOMAIN sent[i].blocks : sent[i].blocks[j].marked \in BOOLEAN

(* The automatic mark goes to the last place, if to any.                   *)
LEMMA AutomaticIsLast ==
  ASSUME NEW wire, GoodWire(wire)
  PROVE  /\ ~(boundTo.automatic /\ ~boundTo.top_level) => Anthropic!AutomaticBreakpoint(wire) = {}
         /\ IsFiniteSet(Anthropic!AutomaticBreakpoint(wire))
         /\ Cardinality(Anthropic!AutomaticBreakpoint(wire)) \in Nat
         /\ Cardinality(Anthropic!AutomaticBreakpoint(wire)) <= 1
         /\ \A g \in Anthropic!AutomaticBreakpoint(wire) :
              /\ wire[g[1]].blocks[g[2]].kind \notin Anthropic!Thinking
              /\ \A p \in Anthropic!Places(wire) : ~Anthropic!Before(g, p)
<1> DEFINE auto == Anthropic!AutomaticBreakpoint(wire)
           last == Anthropic!Last(wire)
           bs == last.blocks
           place == <<Len(wire), Len(bs)>>
<1>1. \/ auto = {}
      \/ /\ auto = {place} /\ boundTo.automatic /\ ~boundTo.top_level
         /\ wire # << >> /\ bs # << >> /\ Anthropic!Last(bs).kind \notin Anthropic!Thinking
  BY Zenon DEF Anthropic!AutomaticBreakpoint
<1>2. ~(boundTo.automatic /\ ~boundTo.top_level) => auto = {}
  BY <1>1, Zenon
<1>3. IsFiniteSet(auto) /\ Cardinality(auto) \in Nat /\ Cardinality(auto) <= 1
  <2> HIDE DEF auto, place
  <2>1. CASE auto = {}
    BY <2>1, FS_EmptySet
  <2>2. CASE auto = {place}
    <3>1. IsFiniteSet(auto) /\ Cardinality(auto) = 1
      BY <2>2, FS_Singleton, Zenon
    <3>2. QED
      BY <3>1
  <2>3. QED
    BY <1>1, <2>1, <2>2
<1>4. ASSUME NEW g \in auto
      PROVE  /\ wire[g[1]].blocks[g[2]].kind \notin Anthropic!Thinking
             /\ \A p \in Anthropic!Places(wire) : ~Anthropic!Before(g, p)
  <2> HIDE DEF auto
  <2>1. /\ g = place /\ wire # << >> /\ bs # << >> /\ Anthropic!Last(bs).kind \notin Anthropic!Thinking
    BY <1>1
  <2>2. wire \in Seq(WireSet)
    BY DEF GoodWire
  <2>3. last = wire[Len(wire)] /\ Anthropic!Last(bs) = bs[Len(bs)]
    BY Zenon DEF Anthropic!Last
  <2>4. last \in WireSet
    BY <2>1, <2>2, <2>3
  <2>5. bs \in Seq(BlockSet)
    BY <2>4, WireFields
  <2>6. g[1] = Len(wire) /\ g[2] = Len(bs)
    <3> HIDE DEF bs
    <3>1. QED
      BY <2>1
  <2>7. wire[g[1]].blocks[g[2]].kind \notin Anthropic!Thinking
    BY <2>1, <2>3, <2>6, Zenon
  <2>8. ASSUME NEW p \in Anthropic!Places(wire), Anthropic!Before(g, p)
        PROVE  FALSE
    <3>1. p \in (DOMAIN wire) \X (1..6) /\ p[2] \in DOMAIN wire[p[1]].blocks
      BY DEF Anthropic!Places
    <3>2. p[1] \in 1..Len(wire) /\ p[2] \in 1..6 /\ Len(wire) \in Nat
      BY <2>2, <3>1
    <3>3. g[1] < p[1] \/ (g[1] = p[1] /\ g[2] < p[2])
      BY <2>8 DEF Anthropic!Before
    <3> HIDE DEF last, bs
    <3>4. p[1] = Len(wire) /\ Len(bs) < p[2]
      BY <2>6, <3>2, <3>3
    <3>5. p[2] \in DOMAIN bs
      BY <2>3, <3>1, <3>4 DEF bs
    <3>6. p[2] <= Len(bs) /\ Len(bs) \in Nat
      BY <2>5, <3>5
    <3>7. QED
      BY <3>2, <3>4, <3>6
  <2>9. QED
    BY <2>7, <2>8
<1>5. QED
  BY <1>2, <1>3, <1>4

LEMMA MarkedWell ==
  ASSUME NEW ms \in Seq(MessageSet), Anthropic!MessageBudget \in Nat, Bound(boundTo)
  PROVE  /\ SentWell(Anthropic!Marked(Anthropic!Merged(ms)), ms, Anthropic!MessageBudget, boundTo)
         /\ SentType(Anthropic!Marked(Anthropic!Merged(ms)))
<1> DEFINE wire == Anthropic!Merged(ms)
           budget == Anthropic!MessageBudget
           auto == Anthropic!AutomaticBreakpoint(wire)
           kept == Anthropic!SentBreakpoints(wire)
           marks == kept \union auto
           sent == Anthropic!Marked(wire)
           R == Anthropic!Requested(wire)
           n == Len(wire)
<1>1. GoodWire(wire) /\ WireIds(wire) = FlattenSeq(AllSentIds(ms))
  BY MergedIs
<1> HIDE DEF wire
<1>2. MarkedAs(wire, sent, marks)
  <2>1. sent = [i \in DOMAIN wire |->
           [wire[i] EXCEPT !.blocks = [j \in DOMAIN @ |-> Anthropic!Mark(@[j], <<i, j>> \in marks)]]]
    BY DEF Anthropic!Marked
  <2> HIDE DEF sent, marks
  <2>2. QED
    BY <1>1, <2>1, MarkedIs
<1>3. kept = LastOnes(R, budget)
  <2>1. \A S : Anthropic!Cardinality(S) = Cardinality(S)
    BY Zenon DEF Anthropic!Cardinality, Cardinality
  <2>2. QED
    BY <2>1, Zenon DEF Anthropic!SentBreakpoints, LastOnes, After
<1> HIDE DEF sent, kept, auto, R, n, budget
<1> HIDE DEF marks
<1>4. /\ Anthropic!Places(wire) \in SUBSET Grid(n, 6) /\ n \in Nat
      /\ R \in SUBSET Anthropic!Places(wire)
      /\ Anthropic!Requested(sent) = R
      /\ Marks(sent) = {p \in Anthropic!Places(wire) : p \in marks}
      /\ \A p \in Anthropic!Places(wire) :
           /\ p[1] \in DOMAIN wire /\ p[2] \in DOMAIN wire[p[1]].blocks /\ p = <<p[1], p[2]>>
           /\ SameBlock(sent[p[1]].blocks[p[2]], wire[p[1]].blocks[p[2]])
  BY <1>1, <1>2, PlacesAre DEF n, R
<1>5. /\ IsFiniteSet(kept) /\ Cardinality(kept) <= budget
      /\ (R \ kept # {} => Cardinality(kept) >= budget)
      /\ \A p \in R \ kept : \A q \in R : Anthropic!Before(q, p) => q \notin kept
  <2>1. R \in SUBSET Grid(n, 6) /\ n \in Nat /\ 6 \in Nat /\ budget \in Nat
    BY <1>4 DEF budget
  <2>2. QED
    BY <1>3, <2>1, LastOnesAre
<1>6. kept \in SUBSET R
  BY <1>3 DEF LastOnes
<1>7. /\ ~(boundTo.automatic /\ ~boundTo.top_level) => auto = {}
      /\ IsFiniteSet(auto) /\ Cardinality(auto) \in Nat /\ Cardinality(auto) <= 1
      /\ \A g \in auto :
           /\ wire[g[1]].blocks[g[2]].kind \notin Anthropic!Thinking
           /\ \A p \in Anthropic!Places(wire) : ~Anthropic!Before(g, p)
  BY <1>1, AutomaticIsLast DEF auto
<1>8. /\ Cardinality(Marks(sent)) \in Nat
      /\ Cardinality(Marks(sent)) + One(boundTo.automatic /\ boundTo.top_level) <= budget + One(boundTo.automatic)
  <2>1. Marks(sent) \subseteq kept \union auto
    BY <1>4 DEF marks
  <2>2. Cardinality(kept) \in Nat
    BY <1>5, FS_CardinalityType
  <2>3. IsFiniteSet(kept \union auto) /\ Cardinality(kept \union auto) \in Nat
        /\ Cardinality(kept \union auto) <= Cardinality(kept) + Cardinality(auto)
    <3>1. IsFiniteSet(kept \union auto) /\ IsFiniteSet(kept \intersect auto)
      BY <1>5, <1>7, FS_Union, FS_Intersection
    <3>2. Cardinality(kept \union auto) = Cardinality(kept) + Cardinality(auto) - Cardinality(kept \intersect auto)
      BY <1>5, <1>7, FS_Union
    <3>3. Cardinality(kept \union auto) \in Nat /\ Cardinality(kept \intersect auto) \in Nat
      BY <3>1, FS_CardinalityType
    <3>4. QED
      BY <1>7, <2>2, <3>1, <3>2, <3>3
  <2>4. Cardinality(Marks(sent)) \in Nat /\ Cardinality(Marks(sent)) <= Cardinality(kept \union auto)
    BY <2>1, <2>3, FS_Subset, FS_CardinalityType
  <2>5. budget \in Nat /\ boundTo.automatic \in BOOLEAN /\ boundTo.top_level \in BOOLEAN
    BY DEF budget, Bound
  <2>6. CASE boundTo.automatic /\ ~boundTo.top_level
    <3>1. One(boundTo.automatic /\ boundTo.top_level) = 0 /\ One(boundTo.automatic) = 1
      BY <2>6, Zenon DEF One
    <3>2. QED
      BY <1>5, <1>7, <2>2, <2>3, <2>4, <2>5, <3>1
  <2>7. CASE ~(boundTo.automatic /\ ~boundTo.top_level)
    <3>1. Cardinality(auto) = 0
      BY <1>7, <2>7, FS_EmptySet
    <3>2. One(boundTo.automatic /\ boundTo.top_level) = One(boundTo.automatic) /\ One(boundTo.automatic) \in {0, 1}
      BY <2>5, <2>7, Zenon DEF One
    <3>3. QED
      BY <1>5, <2>2, <2>3, <2>4, <2>5, <3>1, <3>2
  <2>8. QED
    BY <2>6, <2>7
<1>9. ASSUME NEW p \in R \ Marks(sent)
      PROVE  /\ \A q \in R : Anthropic!Before(q, p) => q \notin Marks(sent)
             /\ Cardinality(R \intersect Marks(sent)) >= budget
  <2>1. p \in Anthropic!Places(wire) /\ p \in R \ kept
    BY <1>4 DEF marks
  <2>2. ASSUME NEW q \in R, Anthropic!Before(q, p), q \in Marks(sent)
        PROVE  FALSE
    <3>1. q \in kept \/ q \in auto
      BY <1>4, <2>2 DEF marks
    <3>2. QED
      BY <1>5, <1>7, <2>1, <2>2, <3>1
  <2>3. kept \subseteq R \intersect Marks(sent)
    BY <1>4, <1>6 DEF marks
  <2>4. IsFiniteSet(R \intersect Marks(sent))
    <3>1. R \intersect Marks(sent) \subseteq kept \union auto
      BY <1>4 DEF marks
    <3>2. QED
      BY <1>5, <1>7, <3>1, FS_Union, FS_Subset
  <2>5. /\ Cardinality(kept) <= Cardinality(R \intersect Marks(sent))
        /\ Cardinality(kept) \in Nat /\ Cardinality(R \intersect Marks(sent)) \in Nat
    BY <1>5, <2>3, <2>4, FS_Subset, FS_CardinalityType
  <2>6. Cardinality(kept) >= budget /\ budget \in Nat
    BY <1>5, <2>1 DEF budget
  <2>7. QED
    BY <2>2, <2>5, <2>6
<1>10. ASSUME NEW p \in Marks(sent)
       PROVE  sent[p[1]].blocks[p[2]].kind \notin Anthropic!Thinking
  <2>1. /\ p \in Anthropic!Places(wire) /\ p \in marks
        /\ p[1] \in DOMAIN wire /\ p[2] \in DOMAIN wire[p[1]].blocks
        /\ sent[p[1]].blocks[p[2]].kind = wire[p[1]].blocks[p[2]].kind
    BY <1>4, Zenon DEF SameBlock
  <2>2. CASE p \in auto
    BY <1>7, <2>1, <2>2
  <2>3. CASE p \in kept
    <3>1. wire[p[1]].blocks[p[2]].breakpoint
      BY <1>6, <2>3 DEF R, Anthropic!Requested
    <3>2. wire[p[1]] \in WireSet
      BY <1>1, <2>1 DEF GoodWire
    <3>3. wire[p[1]].blocks[p[2]] \in BlockSet
      BY <2>1, <3>2, WireFields
    <3>4. wire[p[1]].blocks[p[2]].kind \notin {"thinking", "redacted_thinking"}
      BY <3>1, <3>3, BlockFields
    <3>5. QED
      BY <2>1, <3>4 DEF Anthropic!Thinking
  <2>4. QED
    BY <2>1, <2>2, <2>3 DEF marks
<1>11. Apart(sent)
  <2>1. /\ DOMAIN sent = DOMAIN wire /\ \A i \in DOMAIN wire : sent[i].results = wire[i].results
    BY <1>2, Zenon DEF MarkedAs
  <2>2. \A i \in DOMAIN wire : i > 1 => i - 1 \in DOMAIN wire
    BY <1>1 DEF GoodWire
  <2>3. QED
    BY <1>1, <2>1, <2>2 DEF GoodWire, Apart
<1>12. WireIds(sent) = WireIds(wire)
  <2>1. DOMAIN sent = DOMAIN wire
    BY <1>2, Zenon DEF MarkedAs
  <2>2. ASSUME NEW i \in DOMAIN wire
        PROVE  BlockIds(sent[i].blocks) = BlockIds(wire[i].blocks)
    <3>1. DOMAIN sent[i].blocks = DOMAIN wire[i].blocks
      BY <1>2, Zenon DEF MarkedAs
    <3>2. \A j \in DOMAIN wire[i].blocks : sent[i].blocks[j].id = wire[i].blocks[j].id
      BY <1>2, Zenon DEF MarkedAs, SameBlock
    <3>3. QED
      BY <3>1, <3>2, Zenon DEF BlockIds
  <2>3. QED
    BY <2>1, <2>2, Zenon DEF WireIds
<1>13. SentType(sent)
  <2>1. \A i \in DOMAIN wire : wire[i] \in WireSet
    BY <1>1 DEF GoodWire
  <2>2. \A i \in DOMAIN wire : wire[i].role \in {"user", "assistant"}
    BY <2>1, WireFields
  <2>3. ASSUME NEW i \in DOMAIN wire
        PROVE  sent[i].role = wire[i].role /\ \A j \in DOMAIN sent[i].blocks : sent[i].blocks[j].marked \in BOOLEAN
    <3>1. /\ sent[i].role = wire[i].role /\ DOMAIN sent[i].blocks = DOMAIN wire[i].blocks
          /\ \A j \in DOMAIN wire[i].blocks : sent[i].blocks[j].marked = (<<i, j>> \in marks)
      BY <1>2, Zenon DEF MarkedAs
    <3>2. \A j : (<<i, j>> \in marks) \in BOOLEAN
      OBVIOUS
    <3>3. QED
      BY <3>1, <3>2, Zenon
  <2>4. DOMAIN sent = DOMAIN wire
    BY <1>2, Zenon DEF MarkedAs
  <2>5. QED
    BY <2>2, <2>3, <2>4, Zenon DEF SentType
<1>14. SentWell(sent, ms, budget, boundTo)
  BY <1>1, <1>4, <1>8, <1>9, <1>10, <1>11, <1>12, Zenon DEF SentWell
<1>15. QED
  BY <1>13, <1>14 DEF sent, wire, budget

-----------------------------------------------------------------------------
(***************************************************************************)
(* The steps of the Messages adapter and of its application.               *)
(***************************************************************************)
LEMMA BudgetType ==
  ASSUME boundTo \in Anthropic!Bindings
  PROVE  /\ Anthropic!BindBreakpoints \in Nat /\ Anthropic!MessageBudget \in Int /\ Bound(boundTo)
         /\ boundTo.top_level => boundTo.automatic
         /\ Anthropic!MessageBudget = 2 - Anthropic!BindBreakpoints - One(boundTo.automatic)
<1>1. /\ boundTo \in [system : Anthropic!Marks, tools : Anthropic!Marks, automatic : BOOLEAN, top_level : BOOLEAN]
      /\ boundTo.top_level => boundTo.automatic
  BY DEF Anthropic!Bindings
<1>2. /\ boundTo.system \in Anthropic!Marks /\ boundTo.tools \in Anthropic!Marks
      /\ boundTo.automatic \in BOOLEAN /\ boundTo.top_level \in BOOLEAN
  BY <1>1
<1>3. ASSUME NEW marks \in Anthropic!Marks
      PROVE  DOMAIN marks \subseteq 1..1 /\ DOMAIN Anthropic!MarkLast(marks) = DOMAIN marks
  <2>1. PICK n \in 0..1 : marks \in [1..n -> BOOLEAN]
    BY DEF Anthropic!Marks
  <2>2. DOMAIN marks \subseteq 1..1
    BY <2>1
  <2>3. DOMAIN Anthropic!MarkLast(marks) = DOMAIN marks
    BY Zenon DEF Anthropic!MarkLast
  <2>4. QED
    BY <2>2, <2>3
<1>4. ASSUME NEW marks, DOMAIN marks \subseteq 1..1
      PROVE  Anthropic!CountOf(marks) \in Nat
  <2> DEFINE S == {i \in DOMAIN marks : marks[i]}
  <2>1. IsFiniteSet(1..1) /\ S \subseteq 1..1
    <3>1. 1 \in Int
      OBVIOUS
    <3>2. IsFiniteSet(1..1)
      BY ONLY <3>1, FS_Interval, Zenon
    <3>3. QED
      BY <1>4, <3>2
  <2> HIDE DEF S
  <2>2. Cardinality(S) \in Nat
    BY <2>1, FS_Subset, FS_CardinalityType
  <2>3. Anthropic!Cardinality(S) = Cardinality(S)
    BY Zenon DEF Anthropic!Cardinality, Cardinality
  <2>4. QED
    BY <2>2, <2>3 DEF Anthropic!CountOf, S
<1>5. Anthropic!CountOf(Anthropic!SystemBlocks) \in Nat
  BY <1>2, <1>3, <1>4, Zenon DEF Anthropic!SystemBlocks
<1>6. Anthropic!CountOf(Anthropic!WireTools) \in Nat
  BY <1>2, <1>3, <1>4, Zenon DEF Anthropic!WireTools
<1>7. Anthropic!BindBreakpoints \in Nat
  BY <1>5, <1>6 DEF Anthropic!BindBreakpoints
<1>8. One(boundTo.automatic) \in {0, 1}
  BY Zenon DEF One
<1>9. Anthropic!MessageBudget = 2 - Anthropic!BindBreakpoints - One(boundTo.automatic)
  BY Zenon DEF Anthropic!MessageBudget, One
<1>10. Anthropic!MessageBudget \in Int
  BY <1>7, <1>8, <1>9
<1>11. QED
  BY <1>1, <1>2, <1>7, <1>9, <1>10 DEF Bound

RequestType(sent) ==
  sent.rejected \in BOOLEAN /\ (sent.rejected => sent.messages = << >>) /\ SentType(sent.messages)

LEMMA NothingSent ==
  SentType(<< >>)
<1>1. DOMAIN << >> = {}
  OBVIOUS
<1>2. QED
  BY <1>1, Zenon DEF SentType

AnthropicInv ==
  running = "anthropic" =>
    /\ ConversationInv /\ boundTo \in Anthropic!Bindings
    /\ buildStage \in {"unbound", "refused", "editing", "built"}
    /\ buildStage \in {"editing", "built"} => Anthropic!MessageBudget >= 0
    /\ RequestType(lastRequest)
    /\ Anthropic!Sent => SentWell(lastRequest.messages, conversation, Anthropic!MessageBudget, boundTo)

LEMMA SameBudget ==
  ASSUME boundTo' = boundTo
  PROVE  Anthropic!MessageBudget' = Anthropic!MessageBudget
BY Zenon DEF Anthropic!MessageBudget, Anthropic!BindBreakpoints, Anthropic!SystemBlocks, Anthropic!WireTools

LEMMA AnthropicStays ==
  ASSUME AnthropicInv, conversation' = conversation, boundTo' = boundTo,
         buildStage' = buildStage, lastRequest' = lastRequest, running' = running
  PROVE  AnthropicInv'
<1>1. Anthropic!MessageBudget' = Anthropic!MessageBudget
  BY SameBudget
<1>2. ConversationInv' <=> ConversationInv
  BY DEF ConversationInv
<1>3. Anthropic!Sent' <=> Anthropic!Sent
  BY DEF Anthropic!Sent
<1>4. QED
  BY <1>1, <1>2, <1>3 DEF AnthropicInv

(* What the adapter promises follows from the invariant.                   *)
LEMMA AnthropicSafe ==
  ASSUME AnthropicInv, running = "anthropic"
  PROVE  /\ Anthropic!TypeOK
         /\ Anthropic!BreakpointsAreWithinLimit /\ Anthropic!LatestBreakpointsAreKept
         /\ Anthropic!ThinkingIsUntouched /\ Anthropic!ConversationIsSent
<1> DEFINE budget == Anthropic!MessageBudget
           sent == lastRequest.messages
           ms == conversation
<1>1. /\ ConversationInv /\ boundTo \in Anthropic!Bindings
      /\ buildStage \in {"unbound", "refused", "editing", "built"}
      /\ RequestType(lastRequest)
      /\ Anthropic!Sent => SentWell(sent, ms, budget, boundTo)
  BY DEF AnthropicInv
<1>2. /\ Anthropic!BindBreakpoints \in Nat /\ budget \in Int /\ Bound(boundTo)
      /\ boundTo.top_level => boundTo.automatic
      /\ budget = 2 - Anthropic!BindBreakpoints - One(boundTo.automatic)
  BY <1>1, BudgetType
<1>3. /\ \A S : Anthropic!Cardinality(S) = Cardinality(S)
      /\ \A seqs : Anthropic!FlattenSeq(seqs) = FlattenSeq(seqs)
  BY Zenon DEF Anthropic!Cardinality, Cardinality, Anthropic!FlattenSeq, FlattenSeq
<1>4. Anthropic!AllParts = PartList(ms)
  BY <1>3, Zenon DEF Anthropic!AllParts, PartList
<1>5. /\ ms \in Seq(MessageSet) /\ PartList(ms) \in Seq(PartSet)
      /\ \A i \in DOMAIN PartList(ms) : PartList(ms)[i].id = i /\ PartList(ms)[i] \in PartSet
  <2>1. ms \in Seq(MessageSet)
    BY <1>1 DEF ConversationInv
  <2>2. PartList(ms) \in Seq(PartSet)
    BY <2>1, PartListType
  <2>3. DOMAIN PartList(ms) = 1..Len(PartList(ms)) /\ \A i \in DOMAIN PartList(ms) : PartList(ms)[i] \in PartSet
    BY <2>2
  <2>4. QED
    BY <1>1, <2>1, <2>2, <2>3 DEF ConversationInv
<1>6. Anthropic!TypeOK
  <2>1. \A i \in DOMAIN Anthropic!AllParts : Anthropic!AllParts[i].id = i
    BY <1>4, <1>5
  <2>2. QED
    BY <1>1, <2>1 DEF Anthropic!TypeOK, RequestType, SentType
<1>7. Anthropic!MarkedPlaces = Marks(sent)
  BY DEF Anthropic!MarkedPlaces, Marks
<1>8. Anthropic!Sent => SentWell(sent, ms, budget, boundTo)
  BY <1>1
<1> HIDE DEF budget, sent, ms
<1>9. Anthropic!BreakpointsAreWithinLimit
  <2>1. SUFFICES ASSUME Anthropic!Sent
                 PROVE  Anthropic!BindBreakpoints + Anthropic!Cardinality(Anthropic!MarkedPlaces)
                          + (IF boundTo.automatic /\ boundTo.top_level THEN 1 ELSE 0) <= 2
    BY DEF Anthropic!BreakpointsAreWithinLimit
  <2>2. /\ Cardinality(Marks(sent)) \in Nat
        /\ Cardinality(Marks(sent)) + One(boundTo.automatic /\ boundTo.top_level) <= budget + One(boundTo.automatic)
    BY <1>8, <2>1 DEF SentWell
  <2>3. One(boundTo.automatic /\ boundTo.top_level) \in {0, 1} /\ One(boundTo.automatic) \in {0, 1}
    BY Zenon DEF One
  <2>4. (IF boundTo.automatic /\ boundTo.top_level THEN 1 ELSE 0) = One(boundTo.automatic /\ boundTo.top_level)
    BY Zenon DEF One
  <2>5. Anthropic!Cardinality(Anthropic!MarkedPlaces) = Cardinality(Marks(sent))
    BY <1>3, <1>7, Zenon
  <2>6. Anthropic!BindBreakpoints + Cardinality(Marks(sent)) + One(boundTo.automatic /\ boundTo.top_level) <= 2
    BY <1>2, <2>2, <2>3
  <2>7. QED
    BY <2>4, <2>5, <2>6
<1>10. Anthropic!LatestBreakpointsAreKept
  <2> DEFINE requested == Anthropic!Requested(lastRequest.messages)
  <2>1. SUFFICES ASSUME Anthropic!Sent, NEW p \in requested \ Anthropic!MarkedPlaces
                 PROVE  /\ \A q \in requested : Anthropic!Before(q, p) => q \notin Anthropic!MarkedPlaces
                        /\ Anthropic!Cardinality(requested \intersect Anthropic!MarkedPlaces) >= Anthropic!MessageBudget
    BY Zenon DEF Anthropic!LatestBreakpointsAreKept
  <2>2. SentWell(sent, ms, budget, boundTo)
    BY <1>8, <2>1
  <2>3. requested = Anthropic!Requested(sent)
    BY DEF sent
  <2>4. /\ \A q \in requested : Anthropic!Before(q, p) => q \notin Marks(sent)
        /\ Cardinality(requested \intersect Marks(sent)) >= budget
    BY <1>7, <2>1, <2>2, <2>3, Zenon DEF SentWell
  <2> HIDE DEF requested
  <2>5. Anthropic!Cardinality(requested \intersect Anthropic!MarkedPlaces) >= Anthropic!MessageBudget
    BY <1>3, <1>7, <2>4, Zenon DEF budget
  <2>6. QED
    BY <1>7, <2>4, <2>5, Zenon
<1>11. Anthropic!ThinkingIsUntouched
  <2>1. Anthropic!Sent => \A p \in Anthropic!MarkedPlaces : lastRequest.messages[p[1]].blocks[p[2]].kind \notin Anthropic!Thinking
    BY <1>7, <1>8, Zenon DEF SentWell, sent
  <2>2. \A i \in DOMAIN Anthropic!AllParts : ~Anthropic!AllParts[i].marked
    BY <1>4, <1>5, PartFields
  <2>3. QED
    BY <2>1, <2>2, Zenon DEF Anthropic!ThinkingIsUntouched
<1>12. Anthropic!ConversationIsSent
  <2>1. SUFFICES ASSUME Anthropic!Sent
                 PROVE  /\ \A i \in DOMAIN sent : i > 1 => ~(sent[i].results /\ sent[i - 1].results)
                        /\ Anthropic!FlattenSeq([i \in DOMAIN sent |-> [j \in DOMAIN sent[i].blocks |-> sent[i].blocks[j].id]])
                             = Anthropic!FlattenSeq([i \in DOMAIN ms |->
                                 IF ms[i].kind = "tool" THEN <<ms[i].answers>>
                                 ELSE [j \in DOMAIN ms[i].parts |-> ms[i].parts[j].id]])
    BY Zenon DEF Anthropic!ConversationIsSent, sent, ms
  <2>2. Apart(sent) /\ WireIds(sent) = FlattenSeq(AllSentIds(ms))
    BY <1>8, <2>1, Zenon DEF SentWell
  <2>3. FlattenSeq([i \in DOMAIN sent |-> [j \in DOMAIN sent[i].blocks |-> sent[i].blocks[j].id]]) = WireIds(sent)
    BY Zenon DEF WireIds, BlockIds
  <2>4. FlattenSeq([i \in DOMAIN ms |->
                                 IF ms[i].kind = "tool" THEN <<ms[i].answers>>
                                 ELSE [j \in DOMAIN ms[i].parts |-> ms[i].parts[j].id]]) = FlattenSeq(AllSentIds(ms))
    BY Zenon DEF AllSentIds, SentIds
  <2>5. QED
    BY <1>3, <2>2, <2>3, <2>4, Zenon DEF Apart
<1>13. QED
  BY <1>6, <1>9, <1>10, <1>11, <1>12

(* Copies are what was copied.                                             *)
Copied(ms, wire) ==
  [i \in DOMAIN ms |-> [ms[i] EXCEPT !.parts = [j \in DOMAIN @ |-> Anthropic!StoredBlock(@[j], wire)]]]

LEMMA StoredAsTheyAre ==
  ASSUME NEW ms \in Seq(MessageSet), NEW wire
  PROVE  Copied(ms, wire) = ms
<1>1. ASSUME NEW i \in DOMAIN ms
      PROVE  [ms[i] EXCEPT !.parts = [j \in DOMAIN @ |-> Anthropic!StoredBlock(@[j], wire)]] = ms[i]
  <2>1. ms[i] \in MessageSet
    OBVIOUS
  <2> DEFINE m == ms[i]
             parts == [j \in DOMAIN m.parts |-> Anthropic!StoredBlock(m.parts[j], wire)]
  <2>2. m.parts \in Seq(PartSet)
    BY <2>1, MessageFields
  <2>3. parts = m.parts
    <3> DEFINE ps == m.parts
    <3>1. ps = [j \in DOMAIN ps |-> ps[j]]
      BY <2>2
    <3>2. parts = [j \in DOMAIN ps |-> ps[j]]
      BY Zenon DEF Anthropic!StoredBlock
    <3>3. QED
      BY <3>1, <3>2
  <2> HIDE DEF parts
  <2>4. [m EXCEPT !.parts = m.parts] = m
    BY <2>1 DEF MessageSet
  <2>5. [m EXCEPT !.parts = parts] = m
    BY <2>3, <2>4, Zenon
  <2>6. QED
    BY <2>5 DEF parts
<1>2. ms = [i \in DOMAIN ms |-> ms[i]]
  OBVIOUS
<1>3. QED
  BY <1>1, <1>2, Zenon DEF Copied

LEMMA AnthropicSteps ==
  ASSUME AnthropicInv, running = "anthropic", running' = running, Anthropic!Next
  PROVE  AnthropicInv'
<1>1. /\ ConversationInv /\ boundTo \in Anthropic!Bindings
      /\ buildStage \in {"unbound", "refused", "editing", "built"}
      /\ buildStage \in {"editing", "built"} => Anthropic!MessageBudget >= 0
      /\ RequestType(lastRequest)
      /\ Anthropic!Sent => SentWell(lastRequest.messages, conversation, Anthropic!MessageBudget, boundTo)
  BY DEF AnthropicInv
<1>2. Anthropic!MessageBudget \in Int /\ Bound(boundTo)
  BY <1>1, BudgetType
<1>3. boundTo' = boundTo => Anthropic!MessageBudget' = Anthropic!MessageBudget
  BY SameBudget
<1>4. CASE Anthropic!Bind
  <2>1. /\ conversation' = conversation /\ boundTo' = boundTo /\ lastRequest' = lastRequest
        /\ buildStage' = IF Anthropic!MessageBudget < 0 THEN "refused" ELSE "editing"
    BY <1>4 DEF Anthropic!Bind
  <2>2. Anthropic!MessageBudget' = Anthropic!MessageBudget
    BY <1>3, <2>1
  <2>3. ConversationInv'
    BY <1>1, <2>1 DEF ConversationInv
  <2>4. buildStage' \in {"refused", "editing"} /\ (buildStage' = "editing" => Anthropic!MessageBudget >= 0)
    BY <1>2, <2>1
  <2>5. ~Anthropic!Sent'
    BY <2>4 DEF Anthropic!Sent
  <2>6. QED
    BY <1>1, <2>1, <2>2, <2>3, <2>4, <2>5 DEF AnthropicInv
<1>5. CASE Anthropic!Build
  <2>1. /\ buildStage = "editing" /\ buildStage' = "built" /\ boundTo' = boundTo
    BY <1>5 DEF Anthropic!Build
  <2>2. Anthropic!MessageBudget' = Anthropic!MessageBudget /\ Anthropic!MessageBudget \in Nat
    BY <1>1, <1>2, <1>3, <2>1
  <2>3. CASE ~Anthropic!Sendable
    <3>1. lastRequest' = [rejected |-> TRUE, messages |-> << >>] /\ conversation' = conversation
      BY <1>5, <2>3 DEF Anthropic!Build, Anthropic!Rejected
    <3>2. lastRequest'.rejected = TRUE /\ lastRequest'.messages = << >> /\ TRUE \in BOOLEAN
      BY <3>1
    <3>3. ConversationInv'
      BY <1>1, <3>1 DEF ConversationInv
    <3>4. RequestType(lastRequest')
      <4>1. SentType(lastRequest'.messages)
        BY <3>2, NothingSent, Zenon
      <4>2. lastRequest'.rejected \in BOOLEAN /\ (lastRequest'.rejected => lastRequest'.messages = << >>)
        BY <3>2, Zenon
      <4>3. QED
        BY <4>1, <4>2, Zenon DEF RequestType
    <3>5. ~Anthropic!Sent'
      BY <3>2 DEF Anthropic!Sent
    <3>6. QED
      BY <1>1, <2>1, <2>2, <3>3, <3>4, <3>5 DEF AnthropicInv
  <2>4. CASE Anthropic!Sendable
    <3> DEFINE sent == Anthropic!Marked(Anthropic!Merged(conversation))
    <3>1. lastRequest' = [rejected |-> FALSE, messages |-> sent] /\ conversation' = Copied(conversation, lastRequest'.messages)
      BY <1>5, <2>4 DEF Anthropic!Build, Copied
    <3>2. conversation \in Seq(MessageSet)
      BY <1>1 DEF ConversationInv
    <3>3. conversation' = conversation
      BY <3>1, <3>2, StoredAsTheyAre
    <3>4. SentWell(sent, conversation, Anthropic!MessageBudget, boundTo) /\ SentType(sent)
      BY <1>2, <2>2, <3>2, MarkedWell
    <3> HIDE DEF sent
    <3>5. lastRequest'.rejected = FALSE /\ lastRequest'.messages = sent
      BY <3>1
    <3>6. ConversationInv'
      BY <1>1, <3>3 DEF ConversationInv
    <3>7. RequestType(lastRequest')
      BY <3>4, <3>5 DEF RequestType
    <3>8. SentWell(lastRequest'.messages, conversation', Anthropic!MessageBudget', boundTo')
      BY <2>1, <2>2, <3>3, <3>4, <3>5
    <3>9. QED
      BY <1>1, <2>1, <2>2, <3>6, <3>7, <3>8 DEF AnthropicInv
  <2>5. QED
    BY <2>3, <2>4
<1>6. CASE Anthropic!Continue
  <2>1. /\ buildStage \in {"editing", "built"} /\ buildStage' = "editing"
        /\ boundTo' = boundTo /\ lastRequest' = lastRequest
        /\ Anthropic!AddUser \/ Anthropic!AddAssistant \/ Anthropic!AddTool
    BY <1>6 DEF Anthropic!Continue
  <2>2. conversation \in Seq(MessageSet)
    BY <1>1 DEF ConversationInv
  <2>3. PICK m \in MessageSet : conversation' = Append(conversation, m) /\ NewParts(conversation, m.parts)
    BY <2>1, <2>2, AnthropicAdds
  <2>4. ConversationInv'
    BY <1>1, <2>3, ConversationGrows
  <2>5. ~Anthropic!Sent'
    BY <2>1 DEF Anthropic!Sent
  <2>6. Anthropic!MessageBudget' = Anthropic!MessageBudget
    BY <1>3, <2>1
  <2>7. QED
    BY <1>1, <2>1, <2>4, <2>5, <2>6 DEF AnthropicInv
<1>7. CASE Anthropic!Stopped
  <2>1. /\ conversation' = conversation /\ boundTo' = boundTo /\ buildStage' = buildStage
        /\ lastRequest' = lastRequest
    BY <1>7 DEF Anthropic!Stopped, Anthropic!vars
  <2>2. QED
    BY <2>1, AnthropicStays
<1>8. QED
  BY <1>4, <1>5, <1>6, <1>7 DEF Anthropic!Next

(* Every request to Anthropic, for every conversation and every binding,   *)
(* has the whole conversation in order, the latest of the breakpoints that *)
(* were asked for and no more than the API allows, and no thinking block   *)
(* that is not as it came.                                                 *)
THEOREM RequestsKeepTheirBreakpoints == FamilySpec => []BreakpointsAreKept
<1>1. FamilyInit => AnthropicInv
  <2>1. SUFFICES ASSUME FamilyInit, running = "anthropic"
                 PROVE  AnthropicInv
    BY DEF AnthropicInv
  <2>2. /\ conversation = << >> /\ boundTo \in Anthropic!Bindings /\ buildStage = "unbound"
        /\ lastRequest = [rejected |-> FALSE, messages |-> << >>]
    BY <2>1 DEF FamilyInit, Anthropic!Init, Anthropic!NoRequest
  <2>3. lastRequest.rejected = FALSE /\ lastRequest.messages = << >> /\ FALSE \in BOOLEAN
    BY <2>2
  <2>4. RequestType(lastRequest)
    <3>1. SentType(lastRequest.messages)
      BY <2>3, NothingSent, Zenon
    <3>2. lastRequest.rejected \in BOOLEAN /\ (lastRequest.rejected => lastRequest.messages = << >>)
      BY <2>3, Zenon
    <3>3. QED
      BY <3>1, <3>2, Zenon DEF RequestType
  <2>5. ~Anthropic!Sent
    BY <2>2 DEF Anthropic!Sent
  <2>6. QED
    BY <2>2, <2>4, <2>5, EmptyConversation DEF AnthropicInv
<1>2. AnthropicInv /\ [FamilyNext]_familyVars => AnthropicInv'
  <2>1. SUFFICES ASSUME AnthropicInv, [FamilyNext]_familyVars, running = "anthropic"
                 PROVE  AnthropicInv'
    <3>1. [FamilyNext]_familyVars => running' = running
      BY DEF FamilyNext, familyVars
    <3>2. QED
      BY <3>1 DEF AnthropicInv
  <2>2. CASE UNCHANGED familyVars
    BY <2>1, <2>2, AnthropicStays DEF familyVars, anthropicVars
  <2>3. CASE FamilyNext
    <3>1. running' = running /\ Anthropic!Next
      BY <2>1, <2>3 DEF FamilyNext
    <3>2. QED
      BY <2>1, <3>1, AnthropicSteps
  <2>4. QED
    BY <2>1, <2>2, <2>3
<1>3. AnthropicInv => BreakpointsAreKept
  BY AnthropicSafe DEF BreakpointsAreKept
<1>4. QED
  BY <1>1, <1>2, <1>3, PTL DEF FamilySpec
=============================================================================
