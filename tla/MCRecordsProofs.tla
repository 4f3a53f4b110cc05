-------------------------- MODULE MCRecordsProofs --------------------------
(***************************************************************************)
(* What outlives a call, for every set of calls an application may make    *)
(* with a resume file, any number of them, and every listing of prices.    *)
(***************************************************************************)
EXTENDS MCRecords, FiniteSetTheorems, SequenceTheorems, TLAPS

LEMMA LeastOf ==
  ASSUME NEW S \in SUBSET Nat, S # {}
  PROVE  \E x \in S : \A y \in S : x <= y
<1> DEFINE R == {pair \in Nat \X Nat : pair[1] < pair[2]}
<1>1. R = OpToRel(<, Nat)
  BY Zenon DEF OpToRel
<1>2. IsWellFoundedOn(R, Nat)
  BY <1>1, NatLessThanWellFounded, Zenon
<1> HIDE DEF R
<1>3. \E x \in S : \A y \in S : ~ (<<y, x>> \in R)
  BY <1>2, WFMin
<1>4. \A x, y \in Nat : y < x => <<y, x>> \in R
  BY DEF R
<1>5. PICK x \in S : \A y \in S : ~ (<<y, x>> \in R)
  BY <1>3
<1>6. \A y \in S : ~ (y < x)
  BY <1>4, <1>5
<1>7. QED
  BY <1>6

LEMMA GreatestOf ==
  ASSUME NEW n \in Nat, NEW S, S \subseteq 1..n, S # {}
  PROVE  \E x \in S : \A y \in S : y <= x
<1> DEFINE T == {n - x : x \in S}
<1>1. \A x \in S : x \in Int /\ n - x \in Nat
  BY SMT
<1>2. T \in SUBSET Nat /\ T # {}
  BY <1>1
<1>3. PICK t \in T : \A u \in T : t <= u
  BY <1>2, LeastOf
<1>4. PICK x \in S : t = n - x
  BY <1>3
<1>5. \A y \in S : n - x <= n - y
  BY <1>3, <1>4
<1>6. \A y \in S : y <= x
  BY <1>1, <1>5
<1>7. QED
  BY <1>6

-----------------------------------------------------------------------------
(***************************************************************************)
(* The operators of the resume file.                                       *)
(***************************************************************************)

LEMMA ResumeCount == \A S : Resume!Cardinality(S) = Cardinality(S)
BY Zenon DEF Cardinality, Resume!Cardinality

Enumerates(s, D) ==
  s \in [1..Cardinality(D) -> D] /\ \A a, b \in DOMAIN s : a < b => s[a] < s[b]

LEMMA EnumerationExists ==
  \A n \in Nat : \A D \in SUBSET (1..n) : \E s : Enumerates(s, D)
<1> DEFINE Bad == {n \in Nat : \E D \in SUBSET (1..n) : \A s : ~Enumerates(s, D)}
<1>1. SUFFICES ASSUME Bad # {}
               PROVE  FALSE
  OBVIOUS
<1>2. PICK n \in Bad : \A m \in Bad : n <= m
  <2>1. Bad \subseteq Nat
    OBVIOUS
  <2>2. QED
    BY <1>1, <2>1, LeastOf
<1>3. PICK D \in SUBSET (1..n) : \A s : ~Enumerates(s, D)
  BY <1>2
<1>4. n \in Nat /\ IsFiniteSet(1..n)
  <2>1. n \in Nat
    BY <1>2
  <2>2. 1 \in Int /\ n \in Int
    BY <2>1
  <2>3. IsFiniteSet(1..n)
    BY ONLY <2>2, FS_Interval, Zenon
  <2>4. QED
    BY <2>1, <2>3
<1>5. IsFiniteSet(D) /\ Cardinality(D) \in Nat
  <2>1. IsFiniteSet(D)
    BY <1>4, FS_Subset, Zenon
  <2>2. QED
    BY <2>1, FS_CardinalityType
<1>6. n \in D
  <2>1. SUFFICES ASSUME n \notin D
                 PROVE  FALSE
    OBVIOUS
  <2>2. CASE n = 0
    <3>1. D = {}
      BY <2>2
    <3>2. Cardinality(D) = 0
      BY <3>1, FS_EmptySet
    <3>3. Enumerates([x \in {} |-> x], D)
      BY <3>1, <3>2 DEF Enumerates
    <3>4. QED
      BY <1>3, <3>3
  <2>3. CASE n # 0
    <3>1. n - 1 \in Nat /\ D \in SUBSET (1..(n - 1))
      BY <1>4, <2>1, <2>3
    <3>2. n - 1 \in Bad
      BY <1>3, <3>1
    <3>3. n <= n - 1
      BY <1>2, <3>2
    <3>4. QED
      BY <1>4, <3>3
  <2>4. QED
    BY <2>2, <2>3
<1>7. PICK e : Enumerates(e, D \ {n})
  <2>1. n - 1 \in Nat /\ D \ {n} \in SUBSET (1..(n - 1))
    BY <1>4, <1>6
  <2>2. n - 1 \notin Bad
    <3>1. ~(n <= n - 1)
      BY <1>4
    <3>2. QED
      BY <1>2, <3>1
  <2>3. QED
    BY <2>1, <2>2
<1>8. Cardinality(D \ {n}) = Cardinality(D) - 1
  BY <1>5, <1>6, FS_RemoveElement
<1>9. Cardinality(D) # 0
  BY <1>5, <1>6, FS_EmptySet
<1> DEFINE s == [k \in 1..Cardinality(D) |-> IF k = Cardinality(D) THEN n ELSE e[k]]
<1>10. /\ e \in [1..(Cardinality(D) - 1) -> D \ {n}]
       /\ \A a, b \in 1..(Cardinality(D) - 1) : a < b => e[a] < e[b]
  BY <1>7, <1>8 DEF Enumerates
<1>11. \A k \in 1..Cardinality(D) : s[k] \in D /\ (k # Cardinality(D) => s[k] \in D \ {n} /\ s[k] = e[k])
  BY <1>5, <1>6, <1>10
<1>12. \A a, b \in 1..Cardinality(D) : a < b => s[a] < s[b]
  <2>1. SUFFICES ASSUME NEW a \in 1..Cardinality(D), NEW b \in 1..Cardinality(D), a < b
                 PROVE  s[a] < s[b]
    OBVIOUS
  <2>2. a # Cardinality(D) /\ s[a] = e[a] /\ s[a] \in D \ {n}
    BY <1>5, <1>11, <2>1
  <2>3. CASE b = Cardinality(D)
    <3>1. s[b] = n /\ \A d \in D \ {n} : d \in 1..n /\ d < n
      BY <1>4, <2>3
    <3>2. QED
      BY <2>2, <3>1
  <2>4. CASE b # Cardinality(D)
    BY <1>5, <1>10, <1>11, <2>1, <2>2, <2>4
  <2>5. QED
    BY <2>3, <2>4
<1>13. Enumerates(s, D)
  BY <1>11, <1>12 DEF Enumerates
<1>14. QED
  BY <1>3, <1>13

(* The reused records are written in the order of their inputs, each once. *)
LEMMA InIndexOrderIs ==
  ASSUME NEW n \in Nat, NEW D \in SUBSET (1..n)
  PROVE  LET order == Resume!InIndexOrder(D)
         IN /\ order \in [1..Cardinality(D) -> D] /\ Cardinality(D) \in Nat
            /\ \A a, b \in DOMAIN order : order[a] = order[b] => a = b
            /\ \A d \in D : \E a \in DOMAIN order : order[a] = d
<1> DEFINE order == Resume!InIndexOrder(D)
<1>1. Enumerates(order, D)
  <2>1. \E s \in [1..Cardinality(D) -> D] : \A a, b \in DOMAIN s : a < b => s[a] < s[b]
    BY EnumerationExists DEF Enumerates
  <2>2. order = CHOOSE s \in [1..Cardinality(D) -> D] : \A a, b \in DOMAIN s : a < b => s[a] < s[b]
    BY ResumeCount, Zenon DEF Resume!InIndexOrder
  <2>3. QED
    BY <2>1, <2>2, Zenon DEF Enumerates
<1>2. IsFiniteSet(D) /\ Cardinality(D) \in Nat
  <2>1. 1 \in Int /\ n \in Int
    OBVIOUS
  <2>2. IsFiniteSet(1..n)
    BY ONLY <2>1, FS_Interval, Zenon
  <2>3. IsFiniteSet(D)
    BY <2>2, FS_Subset, Zenon
  <2>4. QED
    BY <2>3, FS_CardinalityType
<1>3. \A a, b \in DOMAIN order : order[a] = order[b] => a = b
  <2>1. SUFFICES ASSUME NEW a \in DOMAIN order, NEW b \in DOMAIN order, a < b
                 PROVE  order[a] # order[b]
    BY <1>1, <1>2 DEF Enumerates
  <2>2. order[a] < order[b] /\ order[a] \in 1..n /\ order[b] \in 1..n
    BY <1>1, <2>1 DEF Enumerates
  <2>3. QED
    BY <2>2
<1>4. \A d \in D : \E a \in DOMAIN order : order[a] = d
  <2>1. order \in Injection(1..Cardinality(D), D)
    BY <1>1, <1>3, Zenon DEF Injection, IsInjective, Enumerates
  <2>2. Cardinality(1..Cardinality(D)) = Cardinality(D)
    <3>1. 1 \in Int /\ Cardinality(D) \in Int
      BY <1>2
    <3>2. Cardinality(1..Cardinality(D))
            = IF 1 > Cardinality(D) THEN 0 ELSE Cardinality(D) - 1 + 1
      BY ONLY <3>1, FS_Interval, Zenon
    <3>3. QED
      BY <1>2, <3>2
  <2>3. order \in Surjection(1..Cardinality(D), D)
    BY <1>2, <2>1, <2>2, FS_Injection
  <2>4. QED
    BY <1>1, <2>3, Zenon DEF Surjection, Enumerates
<1>5. QED
  BY <1>1, <1>2, <1>3, <1>4 DEF Enumerates
-----------------------------------------------------------------------------
(***************************************************************************)
(* The file of one call: every line that can be read holds a record of the *)
(* input it names, made under the call's binding.                          *)
(***************************************************************************)

RecordsOf(s, i) == {r \in Resume!Records : r.config = s.config /\ r.content = s.inputs[i]}

LinesOf(s) ==
  {l \in Resume!Lines : l.index \in DOMAIN s.inputs /\ l.record \in RecordsOf(s, l.index)}

FilesOf(s) ==
  [exists : {TRUE}, header : {s}, lines : Seq(LinesOf(s) \union {Resume!Malformed}),
   torn : BOOLEAN]

LineAt(f, n, i) == f.lines[n].valid = TRUE /\ f.lines[n].index = i

(* The last line of an input is the one of this record.                    *)
Holds(f, i, record) ==
  \E n \in DOMAIN f.lines :
    /\ f.lines[n] = Resume!LineFor(i, record)
    /\ \A m \in DOMAIN f.lines : LineAt(f, m, i) => m <= n

AllRead(f) == \A n \in DOMAIN f.lines : f.lines[n].valid = TRUE

LEMMA LineIs ==
  ASSUME NEW s, NEW l \in LinesOf(s) \union {Resume!Malformed}
  PROVE  /\ l.valid \in BOOLEAN
         /\ l.valid = TRUE => /\ l.index \in DOMAIN s.inputs
                              /\ l.record \in RecordsOf(s, l.index)
<1>1. CASE l \in LinesOf(s)
  BY <1>1 DEF LinesOf, Resume!Lines
<1>2. CASE l = Resume!Malformed
  BY <1>2 DEF Resume!Malformed
<1>3. QED
  BY <1>1, <1>2

LEMMA FileIs ==
  ASSUME NEW s, NEW f \in FilesOf(s)
  PROVE  /\ f.exists = TRUE /\ f.header = s /\ f.torn \in BOOLEAN
         /\ f.lines \in Seq(LinesOf(s) \union {Resume!Malformed})
         /\ DOMAIN f.lines = 1..Len(f.lines) /\ Len(f.lines) \in Nat
         /\ \A n \in DOMAIN f.lines : f.lines[n] \in LinesOf(s) \union {Resume!Malformed}
         /\ AllRead(f) <=> ~Resume!HasMalformedLine(f)
<1>1. /\ f.exists = TRUE /\ f.header = s /\ f.torn \in BOOLEAN
      /\ f.lines \in Seq(LinesOf(s) \union {Resume!Malformed})
  BY DEF FilesOf
<1>2. /\ DOMAIN f.lines = 1..Len(f.lines) /\ Len(f.lines) \in Nat
      /\ \A n \in DOMAIN f.lines : f.lines[n] \in LinesOf(s) \union {Resume!Malformed}
  BY <1>1
<1>3. \A n \in DOMAIN f.lines : f.lines[n].valid \in BOOLEAN
  BY <1>2, LineIs
<1>4. AllRead(f) <=> ~Resume!HasMalformedLine(f)
  BY <1>3, Zenon DEF AllRead, Resume!HasMalformedLine
<1>5. QED
  BY <1>1, <1>2, <1>4

LEMMA FileExists ==
  ASSUME NEW s, NEW f \in FilesOf(s)
  PROVE  f # Resume!Missing
<1>1. SUFFICES ASSUME f = Resume!Missing
               PROVE  FALSE
  OBVIOUS
<1>2. "lines" \in DOMAIN f
  BY DEF FilesOf
<1>3. "lines" \notin DOMAIN Resume!Missing
  BY DEF Resume!Missing
<1>4. QED
  BY <1>1, <1>2, <1>3

LEMMA LineOfRecord ==
  ASSUME NEW s \in Shapes, NEW i \in DOMAIN s.inputs, NEW r \in RecordsOf(s, i)
  PROVE  /\ Resume!LineFor(i, r) \in LinesOf(s)
         /\ Resume!LineFor(i, r).valid = TRUE /\ Resume!LineFor(i, r).index = i
         /\ Resume!LineFor(i, r).record = r
<1>1. i \in Resume!Positions /\ r \in Resume!Records
  BY DEF Resume!Positions, RecordsOf
<1>2. Resume!LineFor(i, r) \in Resume!Lines
  BY <1>1 DEF Resume!LineFor, Resume!Lines
<1>3. QED
  BY <1>2 DEF Resume!LineFor, LinesOf

LEMMA RecordIs ==
  ASSUME NEW s, NEW i, NEW r \in RecordsOf(s, i)
  PROVE  /\ r \in Resume!Records /\ r # Resume!NoRecord
         /\ r.config = s.config /\ r.content = s.inputs[i]
<1>1. r \in Resume!Records /\ r.config = s.config /\ r.content = s.inputs[i]
  BY DEF RecordsOf
<1>2. r.kind \in {"final", "retry"}
  BY <1>1 DEF Resume!Records
<1>3. QED
  BY <1>1, <1>2 DEF Resume!NoRecord

LEMMA ShapeIs ==
  ASSUME NEW s \in Shapes
  PROVE  /\ s.inputs \in Seq(Resume!Contents) /\ Len(s.inputs) \in Nat
         /\ DOMAIN s.inputs = 1..Len(s.inputs)
         /\ s.ids # << >> => \A i, j \in DOMAIN s.inputs : s.ids[i] = s.ids[j] => i = j
<1>1. s.inputs \in Seq(Resume!Contents)
  BY ResumeAssumption DEF Resume!ShapesAreValid
<1>2. s.ids # << >> => \A i, j \in DOMAIN s.inputs : s.ids[i] = s.ids[j] => i = j
  BY ResumeAssumption, Zenon DEF Resume!ShapesAreValid
<1>3. QED
  BY <1>1, <1>2

-----------------------------------------------------------------------------
(***************************************************************************)
(* Reading.                                                                *)
(***************************************************************************)

LinesAt(f, i) == {n \in DOMAIN f.lines : f.lines[n].valid /\ f.lines[n].index = i}

LEMMA StoredIs ==
  ASSUME NEW s, NEW f \in FilesOf(s), NEW i
  PROVE  /\ Resume!StoredRecord(f, i) # Resume!NoRecord =>
              /\ i \in DOMAIN s.inputs
              /\ Resume!StoredRecord(f, i) \in RecordsOf(s, i)
         /\ \A r \in RecordsOf(s, i) : Holds(f, i, r) => Resume!StoredRecord(f, i) = r
<1> DEFINE at == LinesAt(f, i)
           last == CHOOSE n \in at : \A m \in at : m <= n
<1>1. Resume!StoredRecord(f, i) = IF at = {} THEN Resume!NoRecord ELSE f.lines[last].record
  BY DEF Resume!StoredRecord, LinesAt
<1>2. \A n \in at : n \in DOMAIN f.lines /\ LineAt(f, n, i)
  <2>1. \A n \in DOMAIN f.lines : f.lines[n].valid \in BOOLEAN
    <3>1. \A n \in DOMAIN f.lines : f.lines[n] \in LinesOf(s) \union {Resume!Malformed}
      BY FileIs
    <3>2. QED
      BY <3>1, LineIs, Zenon
  <2>2. QED
    BY <2>1, Zenon DEF LineAt, LinesAt
<1>3. \A n \in DOMAIN f.lines : LineAt(f, n, i) => n \in at
  BY Zenon DEF LineAt, LinesAt
<1>4. DOMAIN f.lines = 1..Len(f.lines) /\ Len(f.lines) \in Nat
  BY FileIs
<1> HIDE DEF at
<1>5. at # {} => last \in at /\ \A m \in at : m <= last
  <2>1. ASSUME at # {}
        PROVE  \E n \in at : \A m \in at : m <= n
    <3>1. at \subseteq 1..Len(f.lines)
      BY <1>2, <1>4
    <3>2. QED
      BY <1>4, <2>1, <3>1, GreatestOf
  <2>2. QED
    BY <2>1, Zenon
<1>6. ASSUME Resume!StoredRecord(f, i) # Resume!NoRecord
      PROVE  i \in DOMAIN s.inputs /\ Resume!StoredRecord(f, i) \in RecordsOf(s, i)
  <2>1. /\ last \in DOMAIN f.lines /\ LineAt(f, last, i)
        /\ Resume!StoredRecord(f, i) = f.lines[last].record
    BY <1>1, <1>2, <1>5, <1>6
  <2>2. f.lines[last] \in LinesOf(s) \union {Resume!Malformed}
    BY <2>1, FileIs
  <2>3. QED
    BY <2>1, <2>2, LineIs DEF LineAt
<1>7. ASSUME NEW r \in RecordsOf(s, i), Holds(f, i, r)
      PROVE  Resume!StoredRecord(f, i) = r
  <2>1. PICK n \in DOMAIN f.lines :
          /\ f.lines[n] = Resume!LineFor(i, r)
          /\ \A m \in DOMAIN f.lines : LineAt(f, m, i) => m <= n
    BY <1>7 DEF Holds
  <2>2. f.lines[n].valid = TRUE /\ f.lines[n].index = i /\ f.lines[n].record = r
    BY <2>1 DEF Resume!LineFor
  <2>3. n \in at
    BY <1>3, <2>2 DEF LineAt
  <2>4. last \in at /\ n <= last /\ last <= n
    BY <1>2, <1>5, <2>1, <2>3
  <2>5. last = n
    <3>1. n \in Int /\ last \in Int
      BY <1>2, <1>4, <2>4
    <3>2. QED
      BY <2>4, <3>1
  <2>6. QED
    BY <1>1, <2>2, <2>3, <2>5
<1>8. QED
  BY <1>6, <1>7

(* An input of a call is the same as one stored input at most, and has its *)
(* content.                                                                *)
LEMMA IdentityIsUnique ==
  ASSUME NEW stored \in Shapes, NEW current \in Shapes,
         NEW i, NEW k, <<i, k>> \in Resume!StoredIndices(stored, current)
  PROVE  /\ i \in DOMAIN current.inputs /\ k \in DOMAIN stored.inputs
         /\ stored.config = current.config /\ stored.inputs[k] = current.inputs[i]
         /\ \A l : <<i, l>> \in Resume!StoredIndices(stored, current) => l = k
<1>1. \A l : <<i, l>> \in Resume!StoredIndices(stored, current) =>
         /\ i \in DOMAIN current.inputs /\ l \in DOMAIN stored.inputs
         /\ stored.config = current.config
         /\ stored.ids = << >> <=> current.ids = << >>
         /\ Resume!Identity(current, i) = Resume!Identity(stored, l)
  BY DEF Resume!StoredIndices
<1>2. CASE stored.ids = << >>
  <2>1. \A l : <<i, l>> \in Resume!StoredIndices(stored, current) =>
          i = l /\ current.inputs = stored.inputs
    BY <1>1, <1>2 DEF Resume!Identity
  <2>2. QED
    BY <1>1, <2>1
<1>3. CASE stored.ids # << >>
  <2>1. \A l : <<i, l>> \in Resume!StoredIndices(stored, current) =>
          current.ids[i] = stored.ids[l] /\ current.inputs[i] = stored.inputs[l]
    BY <1>1, <1>3 DEF Resume!Identity
  <2>2. QED
    BY <1>1, <1>3, <2>1, ShapeIs
<1>4. QED
  BY <1>2, <1>3

Usable(f, s) ==
  {p \in Resume!Matches(f, s) :
     /\ Resume!StoredRecord(f, p[2]) # Resume!NoRecord
     /\ Resume!Reuses(Resume!StoredRecord(f, p[2]))}

ReusedBy(f, U) ==
  [i \in {p[1] : p \in U} |-> Resume!StoredRecord(f, (CHOOSE p \in U : p[1] = i)[2])]

LEMMA ReusedIs ==
  ASSUME NEW f, NEW s
  PROVE  /\ Resume!ReusedRecords(f, s) = ReusedBy(f, Usable(f, s))
         /\ \A p \in Usable(f, s) : p \in Resume!Matches(f, s)
  BY DEF Resume!ReusedRecords, Usable, ReusedBy

(* What a call reuses was made for its inputs, and is final.               *)
LEMMA ReusedBelong ==
  ASSUME NEW stored \in Shapes, NEW s \in Shapes, NEW f,
         f = Resume!Missing \/ f \in FilesOf(stored)
  PROVE  LET kept == Resume!ReusedRecords(f, s)
         IN /\ DOMAIN kept \subseteq DOMAIN s.inputs /\ kept = [i \in DOMAIN kept |-> kept[i]]
            /\ \A i \in DOMAIN kept : kept[i] \in RecordsOf(s, i) /\ kept[i].kind # "retry"
            /\ \A i \in DOMAIN s.inputs, k \in DOMAIN stored.inputs : \A r \in RecordsOf(stored, k) :
                 /\ <<i, k>> \in Resume!StoredIndices(stored, s)
                 /\ f # Resume!Missing /\ Holds(f, k, r) /\ r.kind # "retry"
                 => i \in DOMAIN kept /\ kept[i] = r
<1> DEFINE kept == Resume!ReusedRecords(f, s)
           U == Usable(f, s)
<1>1. CASE f = Resume!Missing
  <2>1. Resume!Matches(f, s) = {}
    BY <1>1 DEF Resume!Matches, Resume!Missing
  <2>2. U = {}
    BY <2>1, ReusedIs
  <2>3. kept = ReusedBy(f, U)
    BY ReusedIs
  <2>4. DOMAIN kept = {} /\ kept = [i \in {} |-> kept[i]]
    BY <2>2, <2>3 DEF ReusedBy
  <2>5. QED
    BY <1>1, <2>4
<1>2. CASE f \in FilesOf(stored)
  <2>1. Resume!Matches(f, s) = Resume!StoredIndices(stored, s)
    <3>1. f.exists = TRUE /\ f.header = stored
      BY <1>2, FileIs
    <3>2. QED
      BY <3>1 DEF Resume!Matches
  <2>2. \A p \in U : /\ p = <<p[1], p[2]>> /\ <<p[1], p[2]>> \in Resume!StoredIndices(stored, s)
                     /\ Resume!StoredRecord(f, p[2]) # Resume!NoRecord
                     /\ Resume!StoredRecord(f, p[2]).kind # "retry"
    <3>1. \A p \in Resume!StoredIndices(stored, s) : p = <<p[1], p[2]>>
      BY DEF Resume!StoredIndices
    <3>2. QED
      BY <2>1, <3>1, Zenon DEF Usable, Resume!Reuses
  <2>3. \A i, k : /\ <<i, k>> \in Resume!StoredIndices(stored, s)
                  /\ Resume!StoredRecord(f, k) # Resume!NoRecord
                  /\ Resume!StoredRecord(f, k).kind # "retry"
                  => <<i, k>> \in U
    <3>1. \A i, k : <<i, k>>[2] = k
      OBVIOUS
    <3>2. QED
      BY <2>1, <3>1, Zenon DEF Usable, Resume!Reuses
  <2>12. kept = ReusedBy(f, U)
    BY ReusedIs
  <2>4. kept = [i \in {p[1] : p \in U} |->
                  Resume!StoredRecord(f, (CHOOSE p \in U : p[1] = i)[2])]
    BY <2>12, Zenon DEF ReusedBy
  <2> HIDE DEF U, kept
  <2>5. \A i \in DOMAIN kept : (CHOOSE p \in U : p[1] = i) \in U /\ (CHOOSE p \in U : p[1] = i)[1] = i
    <3>1. \A i \in DOMAIN kept : \E p \in U : p[1] = i
      BY <2>4
    <3>2. QED
      BY <3>1, Zenon
  <2>6. ASSUME NEW i \in DOMAIN kept
        PROVE  \E k : /\ <<i, k>> \in Resume!StoredIndices(stored, s)
                      /\ kept[i] = Resume!StoredRecord(f, k)
                      /\ Resume!StoredRecord(f, k) # Resume!NoRecord
                      /\ Resume!StoredRecord(f, k).kind # "retry"
    <3> DEFINE p == CHOOSE p \in U : p[1] = i
    <3>1. p \in U /\ p[1] = i
      BY <2>5
    <3>2. kept[i] = Resume!StoredRecord(f, p[2])
      BY <2>4
    <3> HIDE DEF p
    <3>3. QED
      BY <2>2, <3>1, <3>2
  <2>7. ASSUME NEW i \in DOMAIN kept
        PROVE  i \in DOMAIN s.inputs /\ kept[i] \in RecordsOf(s, i) /\ kept[i].kind # "retry"
    <3>1. PICK k : /\ <<i, k>> \in Resume!StoredIndices(stored, s)
                   /\ kept[i] = Resume!StoredRecord(f, k)
                   /\ Resume!StoredRecord(f, k) # Resume!NoRecord
                   /\ Resume!StoredRecord(f, k).kind # "retry"
      BY <2>6
    <3>2. /\ i \in DOMAIN s.inputs
          /\ stored.config = s.config /\ stored.inputs[k] = s.inputs[i]
      BY <3>1, IdentityIsUnique
    <3>3. kept[i] \in RecordsOf(stored, k)
      BY <1>2, <3>1, StoredIs
    <3>4. kept[i] \in RecordsOf(s, i)
      BY <3>2, <3>3 DEF RecordsOf
    <3>5. QED
      BY <3>1, <3>2, <3>4
  <2>8. kept = [i \in DOMAIN kept |-> kept[i]]
    BY <2>4
  <2>9. ASSUME NEW i \in DOMAIN s.inputs, NEW k \in DOMAIN stored.inputs, NEW r \in RecordsOf(stored, k),
               <<i, k>> \in Resume!StoredIndices(stored, s), Holds(f, k, r), r.kind # "retry"
        PROVE  i \in DOMAIN kept /\ kept[i] = r
    <3>1. Resume!StoredRecord(f, k) = r /\ r # Resume!NoRecord
      BY <1>2, <2>9, StoredIs, RecordIs
    <3>2. <<i, k>> \in U /\ <<i, k>>[1] = i
      BY <2>3, <2>9, <3>1
    <3>3. i \in DOMAIN kept
      BY <2>4, <3>2
    <3>4. PICK l : <<i, l>> \in Resume!StoredIndices(stored, s) /\ kept[i] = Resume!StoredRecord(f, l)
      BY <2>6, <3>3
    <3>5. l = k
      BY <2>9, <3>4, IdentityIsUnique
    <3>6. QED
      BY <3>1, <3>3, <3>4, <3>5
  <2>10. \A i \in DOMAIN kept : i \in DOMAIN s.inputs
    BY <2>7
  <2>11. QED
    BY <2>7, <2>8, <2>9, <2>10 DEF kept
<1>3. QED
  BY <1>1, <1>2
-----------------------------------------------------------------------------
(***************************************************************************)
(* Writing.                                                                *)
(***************************************************************************)

LEMMA FileWith ==
  ASSUME NEW s, NEW f, NEW lines \in Seq(LinesOf(s) \union {Resume!Malformed}), NEW torn \in BOOLEAN,
         f = [exists |-> TRUE, header |-> s, lines |-> lines, torn |-> torn]
  PROVE  f \in FilesOf(s) /\ f.lines = lines /\ f.torn = torn
  BY DEF FilesOf

(* The reused records are in the file that replaces the old one.           *)
LEMMA ReplacementIs ==
  ASSUME NEW s \in Shapes, NEW kept, DOMAIN kept \subseteq DOMAIN s.inputs,
         \A i \in DOMAIN kept : kept[i] \in RecordsOf(s, i)
  PROVE  LET f == Resume!Replacement(s, kept)
         IN /\ f \in FilesOf(s) /\ f.torn = FALSE /\ AllRead(f)
            /\ \A i \in DOMAIN kept : Holds(f, i, kept[i])
<1> DEFINE D == DOMAIN kept
           order == Resume!InIndexOrder(D)
           lines == [n \in DOMAIN order |-> Resume!LineFor(order[n], kept[order[n]])]
           f == Resume!Replacement(s, kept)
<1>1. /\ order \in [1..Cardinality(D) -> D] /\ Cardinality(D) \in Nat
      /\ \A a, b \in DOMAIN order : order[a] = order[b] => a = b
      /\ \A d \in D : \E a \in DOMAIN order : order[a] = d
  <2>1. Len(s.inputs) \in Nat /\ D \in SUBSET (1..Len(s.inputs))
    BY ShapeIs
  <2>2. QED
    BY <2>1, InIndexOrderIs
<1>2. f = [exists |-> TRUE, torn |-> FALSE, header |-> s, lines |-> lines]
  BY Zenon DEF Resume!Replacement
<1> HIDE DEF order, f
<1>3. DOMAIN order = 1..Cardinality(D) /\ \A n \in DOMAIN order : order[n] \in D
  BY <1>1
<1>4. ASSUME NEW n \in DOMAIN order
      PROVE  /\ lines[n] \in LinesOf(s) /\ lines[n].valid = TRUE /\ lines[n].index = order[n]
             /\ lines[n].record = kept[order[n]]
  <2>1. order[n] \in DOMAIN s.inputs /\ kept[order[n]] \in RecordsOf(s, order[n])
    BY <1>3
  <2>2. lines[n] = Resume!LineFor(order[n], kept[order[n]])
    OBVIOUS
  <2>3. QED
    BY <2>1, <2>2, LineOfRecord, ZenonT(40)
<1>5. DOMAIN lines = 1..Cardinality(D)
  BY <1>3
<1>6. lines \in Seq(LinesOf(s) \union {Resume!Malformed})
  <2>1. lines \in [1..Cardinality(D) -> LinesOf(s) \union {Resume!Malformed}]
    BY <1>3, <1>4
  <2>2. QED
    BY <1>1, <2>1
<1>7. f = [exists |-> TRUE, header |-> s, lines |-> lines, torn |-> FALSE]
  BY <1>2
<1>8. f \in FilesOf(s) /\ f.lines = lines /\ f.torn = FALSE
  <2> HIDE DEF lines
  <2>1. QED
    BY <1>6, <1>7, FileWith
<1>9. AllRead(f)
  BY <1>4, <1>5, <1>3, <1>8 DEF AllRead
<1>10. ASSUME NEW i \in D
       PROVE  Holds(f, i, kept[i])
  <2>1. PICK n \in DOMAIN order : order[n] = i
    BY <1>1
  <2>2. n \in DOMAIN f.lines /\ f.lines[n] = Resume!LineFor(i, kept[i])
    BY <1>3, <1>5, <1>8, <2>1
  <2>3. ASSUME NEW m \in DOMAIN f.lines, LineAt(f, m, i)
        PROVE  m <= n
    <3>1. m \in DOMAIN order /\ order[m] = i
      BY <1>3, <1>4, <1>5, <1>8, <2>3 DEF LineAt
    <3>2. m = n /\ n \in Nat
      BY <1>1, <1>3, <2>1, <3>1
    <3>3. QED
      BY <3>2
  <2>4. QED
    BY <2>2, <2>3 DEF Holds
<1>11. QED
  BY <1>8, <1>9, <1>10 DEF f

LEMMA TornIs ==
  ASSUME NEW s, NEW f \in FilesOf(s)
  PROVE  LET g == [f EXCEPT !.torn = TRUE]
         IN g \in FilesOf(s) /\ g.lines = f.lines
  BY DEF FilesOf

LEMMA AppendedIs ==
  ASSUME NEW s, NEW f \in FilesOf(s), NEW line \in LinesOf(s) \union {Resume!Malformed},
         NEW g, g = [f EXCEPT !.lines = Append(@, line), !.torn = FALSE]
  PROVE  g \in FilesOf(s) /\ g.lines = Append(f.lines, line) /\ g.torn = FALSE
<1>1. Append(f.lines, line) \in Seq(LinesOf(s) \union {Resume!Malformed})
  <2>1. f.lines \in Seq(LinesOf(s) \union {Resume!Malformed})
    BY FileIs, Zenon
  <2>2. \A T : \A q \in Seq(T), x \in T : Append(q, x) \in Seq(T)
    OBVIOUS
  <2>3. QED
    BY <2>1, <2>2, Zenon
<1>2. \A new \in Seq(LinesOf(s) \union {Resume!Malformed}) :
        /\ [f EXCEPT !.lines = new, !.torn = FALSE] \in FilesOf(s)
        /\ [f EXCEPT !.lines = new, !.torn = FALSE].lines = new
        /\ [f EXCEPT !.lines = new, !.torn = FALSE].torn = FALSE
  BY DEF FilesOf
<1>3. g = [f EXCEPT !.lines = Append(f.lines, line), !.torn = FALSE]
  OBVIOUS
<1>4. QED
  BY <1>1, <1>2, <1>3, Zenon

LEMMA HoldsByLines ==
  ASSUME NEW f, NEW g, f.lines = g.lines
  PROVE  /\ AllRead(f) <=> AllRead(g)
         /\ \A i, r : Holds(f, i, r) <=> Holds(g, i, r)
  BY Zenon DEF AllRead, Holds, LineAt

(* An append adds the last line of its input, and leaves the others' ones. *)
LEMMA WithLineIs ==
  ASSUME NEW s \in Shapes, NEW f \in FilesOf(s), NEW i \in DOMAIN s.inputs,
         NEW r \in RecordsOf(s, i)
  PROVE  LET g == Resume!WithLine(f, i, r)
         IN /\ g \in FilesOf(s) /\ g.torn = FALSE
            /\ AllRead(g) => AllRead(f) /\ f.torn = FALSE
            /\ AllRead(f) /\ f.torn = FALSE =>
                 /\ AllRead(g) /\ Holds(g, i, r)
                 /\ \A j, q : j # i /\ Holds(f, j, q) => Holds(g, j, q)
<1> DEFINE g == Resume!WithLine(f, i, r)
           line == IF f.torn THEN Resume!Malformed ELSE Resume!LineFor(i, r)
<1>1. line \in LinesOf(s) \union {Resume!Malformed}
  BY LineOfRecord
<1>2. /\ f.torn \in BOOLEAN /\ f.lines \in Seq(LinesOf(s) \union {Resume!Malformed})
      /\ DOMAIN f.lines = 1..Len(f.lines) /\ Len(f.lines) \in Nat
  BY FileIs
<1>3. g \in FilesOf(s) /\ g.torn = FALSE /\ g.lines = Append(f.lines, line)
  <2>1. g = [f EXCEPT !.lines = Append(@, line), !.torn = FALSE]
    BY Zenon DEF Resume!WithLine
  <2> HIDE DEF g, line
  <2>2. \A x \in LinesOf(s) \union {Resume!Malformed} :
          \A h : h = [f EXCEPT !.lines = Append(@, x), !.torn = FALSE] =>
            h \in FilesOf(s) /\ h.lines = Append(f.lines, x) /\ h.torn = FALSE
    BY AppendedIs, Zenon
  <2>3. \A h : h = [f EXCEPT !.lines = Append(@, line), !.torn = FALSE] =>
            h \in FilesOf(s) /\ h.lines = Append(f.lines, line) /\ h.torn = FALSE
    BY <1>1, <2>2, Zenon
  <2>4. QED
    BY <2>1, <2>3, Zenon
<1> HIDE DEF g, line
<1>4. /\ DOMAIN g.lines = 1..(Len(f.lines) + 1)
      /\ g.lines[Len(f.lines) + 1] = line
      /\ \A n \in DOMAIN f.lines : g.lines[n] = f.lines[n]
  BY <1>1, <1>2, <1>3
<1>5. ASSUME AllRead(f), f.torn = FALSE
      PROVE  /\ AllRead(g) /\ Holds(g, i, r)
             /\ \A j, q : j # i /\ Holds(f, j, q) => Holds(g, j, q)
  <2>1. /\ line = Resume!LineFor(i, r) /\ line.valid = TRUE /\ line.index = i
    BY <1>5, LineOfRecord, ZenonT(40) DEF line
  <2>2. \A n \in DOMAIN g.lines : n = Len(f.lines) + 1 \/ n \in DOMAIN f.lines
    BY <1>2, <1>4
  <2>3. AllRead(g)
    BY <1>4, <1>5, <2>1, <2>2 DEF AllRead
  <2>4. Holds(g, i, r)
    <3>1. Len(f.lines) + 1 \in DOMAIN g.lines /\ \A m \in DOMAIN g.lines : m <= Len(f.lines) + 1
      BY <1>2, <1>4
    <3>2. QED
      BY <1>4, <2>1, <3>1 DEF Holds
  <2>5. ASSUME NEW j, NEW q, j # i, Holds(f, j, q)
        PROVE  Holds(g, j, q)
    <3>1. PICK n \in DOMAIN f.lines :
            /\ f.lines[n] = Resume!LineFor(j, q)
            /\ \A m \in DOMAIN f.lines : LineAt(f, m, j) => m <= n
      BY <2>5 DEF Holds
    <3>2. n \in DOMAIN g.lines /\ g.lines[n] = Resume!LineFor(j, q)
      BY <1>2, <1>4, <3>1
    <3>3. ASSUME NEW m \in DOMAIN g.lines, LineAt(g, m, j)
          PROVE  m <= n
      <4>1. m # Len(f.lines) + 1
        BY <1>4, <2>1, <2>5, <3>3 DEF LineAt
      <4>2. m \in DOMAIN f.lines /\ LineAt(f, m, j)
        BY <1>4, <2>2, <3>3, <4>1 DEF LineAt
      <4>3. QED
        BY <3>1, <4>2
    <3>4. QED
      BY <3>2, <3>3 DEF Holds
  <2>6. QED
    BY <2>3, <2>4, <2>5
<1>6. ASSUME AllRead(g)
      PROVE  AllRead(f) /\ f.torn = FALSE
  <2>1. \A n \in DOMAIN f.lines : n \in DOMAIN g.lines
    BY <1>2, <1>4
  <2>2. AllRead(f)
    BY <1>4, <1>6, <2>1 DEF AllRead
  <2>3. line.valid = TRUE
    <3>1. Len(f.lines) + 1 \in DOMAIN g.lines
      BY <1>2, <1>4
    <3>2. QED
      BY <1>4, <1>6, <3>1 DEF AllRead
  <2>4. Resume!Malformed.valid = FALSE
    BY DEF Resume!Malformed
  <2>5. f.torn # TRUE
    BY <2>3, <2>4, Zenon DEF line
  <2>6. QED
    BY <1>2, <2>2, <2>5
<1>7. QED
  BY <1>3, <1>5, <1>6 DEF g
-----------------------------------------------------------------------------
(***************************************************************************)
(* The queue of appends.                                                   *)
(***************************************************************************)

Queued(q) == {q[k] : k \in DOMAIN q}
Distinct(q) == \A k, l \in DOMAIN q : q[k] = q[l] => k = l

LEMMA QueueHead ==
  ASSUME NEW S, NEW q \in Seq(S), q # << >>, Distinct(q)
  PROVE  /\ Head(q) \in Queued(q) /\ Head(q) \in S
         /\ Tail(q) \in Seq(S) /\ Distinct(Tail(q))
         /\ Queued(Tail(q)) = Queued(q) \ {Head(q)}
<1>1. /\ Len(q) \in Nat /\ Len(q) # 0 /\ DOMAIN q = 1..Len(q) /\ Head(q) = q[1]
      /\ \A k \in DOMAIN q : q[k] \in S
  BY EmptySeq
<1>2. /\ Tail(q) \in Seq(S) /\ DOMAIN Tail(q) = 1..(Len(q) - 1)
      /\ \A k \in 1..(Len(q) - 1) : Tail(q)[k] = q[k + 1] /\ k + 1 \in DOMAIN q /\ k + 1 # 1
  BY <1>1
<1>3. Head(q) \in Queued(q) /\ Head(q) \in S
  <2>1. 1 \in DOMAIN q
    BY <1>1
  <2>2. QED
    BY <1>1, <2>1 DEF Queued
<1>4. Distinct(Tail(q))
  <2>1. SUFFICES ASSUME NEW k \in 1..(Len(q) - 1), NEW l \in 1..(Len(q) - 1),
                        Tail(q)[k] = Tail(q)[l]
                 PROVE  k = l
    BY <1>2 DEF Distinct
  <2>2. k + 1 = l + 1
    BY <1>2, <2>1 DEF Distinct
  <2>3. QED
    BY <1>1, <2>2
<1>5. ASSUME NEW x \in Queued(Tail(q))
      PROVE  x \in Queued(q) /\ x # Head(q)
  <2>1. PICK k \in 1..(Len(q) - 1) : x = Tail(q)[k]
    BY <1>2, <1>5 DEF Queued
  <2>2. x = q[k + 1] /\ k + 1 \in DOMAIN q /\ k + 1 # 1 /\ 1 \in DOMAIN q
    BY <1>1, <1>2, <2>1
  <2>3. QED
    BY <1>1, <2>2 DEF Queued, Distinct
<1>6. ASSUME NEW x \in Queued(q), x # Head(q)
      PROVE  x \in Queued(Tail(q))
  <2>1. PICK k \in DOMAIN q : x = q[k]
    BY <1>6 DEF Queued
  <2>2. k \in 1..Len(q) /\ k # 1
    BY <1>1, <1>6, <2>1
  <2>3. k - 1 \in 1..(Len(q) - 1) /\ (k - 1) + 1 = k
    BY <1>1, <2>2
  <2>4. Tail(q)[k - 1] = x
    BY <1>2, <2>1, <2>3
  <2>5. QED
    BY <1>2, <2>3, <2>4 DEF Queued
<1>7. Queued(Tail(q)) = Queued(q) \ {Head(q)}
  BY <1>5, <1>6
<1>8. QED
  BY <1>2, <1>3, <1>4, <1>7

LEMMA QueueEnd ==
  ASSUME NEW S, NEW q \in Seq(S), NEW x \in S, x \notin Queued(q), Distinct(q)
  PROVE  /\ Append(q, x) \in Seq(S) /\ Distinct(Append(q, x))
         /\ Queued(Append(q, x)) = Queued(q) \union {x}
<1>1. /\ Append(q, x) \in Seq(S) /\ Len(q) \in Nat /\ DOMAIN q = 1..Len(q)
      /\ DOMAIN Append(q, x) = 1..(Len(q) + 1)
      /\ Append(q, x)[Len(q) + 1] = x
      /\ \A k \in 1..Len(q) : Append(q, x)[k] = q[k]
  OBVIOUS
<1>2. \A k \in 1..(Len(q) + 1) : k \in 1..Len(q) \/ k = Len(q) + 1
  BY <1>1
<1>3. Len(q) + 1 \in 1..(Len(q) + 1) /\ \A k \in 1..Len(q) : k \in 1..(Len(q) + 1)
  BY <1>1
<1>4. Queued(Append(q, x)) = Queued(q) \union {x}
  <2>1. \A k \in DOMAIN Append(q, x) : Append(q, x)[k] \in Queued(q) \union {x}
    BY <1>1, <1>2 DEF Queued
  <2>2. x \in Queued(Append(q, x)) /\ \A k \in DOMAIN q : q[k] \in Queued(Append(q, x))
    BY <1>1, <1>3 DEF Queued
  <2>3. QED
    BY <2>1, <2>2 DEF Queued
<1>5. \A k \in 1..Len(q) : q[k] # x
  BY <1>1 DEF Queued
<1>6. Distinct(Append(q, x))
  BY <1>1, <1>2, <1>5 DEF Distinct
<1>7. QED
  BY <1>1, <1>4, <1>6

-----------------------------------------------------------------------------
(***************************************************************************)
(* What every reachable state has.                                         *)
(***************************************************************************)

(* The records promised for the inputs of a call are those it reused and   *)
(* those it finished.                                                      *)
Promise(s, reused, item, made) ==
  [i \in DOMAIN reused \union {j \in DOMAIN s.inputs : item[j] = "finished"} |->
     IF i \in DOMAIN reused THEN reused[i] ELSE made[i]]

StageInv ==
  /\ stage \in {"none", "preparing", "running"}
  /\ callStops \in BOOLEAN /\ anAppendFailed \in BOOLEAN /\ callsBegun \in 0..MaxCalls

FileInv ==
  /\ callShape \in Shapes
  /\ disk = Resume!Missing \/ disk \in FilesOf(callShape)
  /\ stage = "running" => disk # Resume!Missing

ItemInv ==
  /\ itemStages \in [DOMAIN callShape.inputs -> Resume!Stages]
  /\ madeRecords \in [DOMAIN callShape.inputs -> Resume!Records \union {Resume!NoRecord}]
  /\ \A i \in DOMAIN callShape.inputs :
       itemStages[i] \in {"appending", "finished"} => madeRecords[i] \in RecordsOf(callShape, i)

ReusedInv ==
  /\ reusedRecords = [i \in DOMAIN reusedRecords |-> reusedRecords[i]]
  /\ \A i \in DOMAIN reusedRecords :
       /\ i \in DOMAIN callShape.inputs
       /\ reusedRecords[i] \in RecordsOf(callShape, i) /\ reusedRecords[i].kind # "retry"
       /\ itemStages[i] \in {"unstarted", "stopped"}

QueueInv ==
  /\ queuedAppends \in Seq(DOMAIN callShape.inputs) /\ Distinct(queuedAppends)
  /\ Queued(queuedAppends) = {i \in DOMAIN callShape.inputs : itemStages[i] = "appending"}
  /\ stage # "running" => queuedAppends = << >>

(* Unless an append failed, all of the file can be read, and while the     *)
(* call runs it can be appended to.  Whenever all of it can be read, it    *)
(* holds what is promised.                                                 *)
PromiseInv ==
  /\ promisedRecords = Promise(callShape, reusedRecords, itemStages, madeRecords)
  /\ anAppendFailed = FALSE =>
       /\ disk # Resume!Missing => AllRead(disk)
       /\ stage = "running" => disk.torn = FALSE
  /\ \A i \in DOMAIN promisedRecords :
       disk # Resume!Missing /\ (AllRead(disk) => Holds(disk, i, promisedRecords[i]))

ResumeInv == StageInv /\ FileInv /\ ItemInv /\ ReusedInv /\ QueueInv /\ PromiseInv

ResumeUnchanged ==
  /\ disk' = disk /\ stage' = stage /\ callShape' = callShape /\ reusedRecords' = reusedRecords
  /\ itemStages' = itemStages /\ madeRecords' = madeRecords /\ queuedAppends' = queuedAppends
  /\ callStops' = callStops /\ callsBegun' = callsBegun /\ promisedRecords' = promisedRecords
  /\ anAppendFailed' = anAppendFailed

LEMMA ResumeStutters == ResumeInv /\ ResumeUnchanged => ResumeInv'
BY Zenon DEF ResumeUnchanged, ResumeInv, StageInv, FileInv, ItemInv, ReusedInv, QueueInv, PromiseInv

LEMMA ResumeStarts == Resume!Init => ResumeInv
<1>1. SUFFICES ASSUME Resume!Init
               PROVE  ResumeInv
  OBVIOUS
<1>2. /\ disk = Resume!Missing /\ stage = "none" /\ callShape \in Shapes
      /\ reusedRecords = Resume!Empty /\ itemStages = Resume!FreshItems(callShape)
      /\ madeRecords = Resume!NothingMade(callShape) /\ queuedAppends = << >>
      /\ callStops = FALSE /\ callsBegun = 0 /\ promisedRecords = Resume!Empty
      /\ anAppendFailed = FALSE
  BY <1>1, Zenon DEF Resume!Init
<1>3. DOMAIN reusedRecords = {} /\ reusedRecords = [i \in {} |-> reusedRecords[i]]
  BY <1>2 DEF Resume!Empty
<1>4. /\ itemStages \in [DOMAIN callShape.inputs -> Resume!Stages]
      /\ \A i \in DOMAIN callShape.inputs : itemStages[i] = "unstarted"
  BY <1>2 DEF Resume!FreshItems, Resume!Stages
<1>5. StageInv
  <2>1. 0 \in 0..MaxCalls
    BY ResumeAssumption DEF Resume!ShapesAreValid
  <2>2. QED
    BY <1>2, <2>1, Zenon DEF StageInv
<1>6. FileInv
  BY <1>2 DEF FileInv
<1>7. ItemInv
  BY <1>2, <1>4 DEF ItemInv, Resume!NothingMade
<1>8. ReusedInv
  BY <1>3 DEF ReusedInv
<1>9. QueueInv
  BY <1>2, <1>4 DEF QueueInv, Distinct, Queued
<1>10. PromiseInv
  <2>1. promisedRecords = Promise(callShape, reusedRecords, itemStages, madeRecords)
    BY <1>2, <1>3, <1>4 DEF Promise, Resume!Empty
  <2>2. DOMAIN promisedRecords = {}
    BY <1>2 DEF Resume!Empty
  <2>3. QED
    BY <1>2, <2>1, <2>2 DEF PromiseInv
<1>11. QED
  BY <1>5, <1>6, <1>7, <1>8, <1>9, <1>10 DEF ResumeInv

LEMMA CallKeeps == ResumeInv /\ Resume!Call => ResumeInv'
<1>1. SUFFICES ASSUME ResumeInv, Resume!Call
               PROVE  ResumeInv'
  OBVIOUS
<1>2. /\ stage = "none" /\ stage' = "preparing" /\ callsBegun < MaxCalls /\ callsBegun' = callsBegun + 1
      /\ disk' = disk /\ callShape' = callShape /\ reusedRecords' = reusedRecords
      /\ itemStages' = itemStages /\ madeRecords' = madeRecords /\ queuedAppends' = queuedAppends
      /\ callStops' = callStops /\ promisedRecords' = promisedRecords
      /\ anAppendFailed' = anAppendFailed
  BY <1>1 DEF Resume!Call
<1>3. StageInv'
  BY <1>1, <1>2, ResumeAssumption DEF ResumeInv, StageInv, Resume!ShapesAreValid
<1>4. FileInv' /\ ItemInv' /\ ReusedInv'
  BY <1>1, <1>2 DEF ResumeInv, FileInv, ItemInv, ReusedInv
<1>5. QueueInv' /\ PromiseInv'
  BY <1>1, <1>2 DEF ResumeInv, QueueInv, PromiseInv
<1>6. QED
  BY <1>3, <1>4, <1>5 DEF ResumeInv
LEMMA PrepareKeeps ==
  ASSUME ResumeInv, NEW s \in Shapes, Resume!Prepare(s)
  PROVE  ResumeInv'
<1> DEFINE kept == Resume!ReusedRecords(disk, s)
<1>1. /\ stage = "preparing" /\ stage' \in {"running", "none"}
      /\ disk' = Resume!Replacement(s, kept) /\ reusedRecords' = kept /\ promisedRecords' = kept
      /\ callShape' = s /\ itemStages' = Resume!FreshItems(s)
      /\ madeRecords' = Resume!NothingMade(s) /\ queuedAppends' = << >>
      /\ callStops' = FALSE /\ anAppendFailed' = FALSE /\ callsBegun' = callsBegun
  BY Zenon DEF Resume!Prepare
<1>2. /\ DOMAIN kept \subseteq DOMAIN s.inputs /\ kept = [i \in DOMAIN kept |-> kept[i]]
      /\ \A i \in DOMAIN kept : kept[i] \in RecordsOf(s, i) /\ kept[i].kind # "retry"
  BY ReusedBelong DEF ResumeInv, FileInv
<1>3. /\ disk' \in FilesOf(s) /\ disk'.torn = FALSE /\ AllRead(disk')
      /\ \A i \in DOMAIN kept : Holds(disk', i, kept[i])
  <2> HIDE DEF kept
  <2>1. QED
    BY <1>1, <1>2, ReplacementIs
<1>4. disk' # Resume!Missing
  BY <1>3, FileExists
<1> HIDE DEF kept
<1>5. /\ itemStages' \in [DOMAIN s.inputs -> Resume!Stages]
      /\ \A i \in DOMAIN s.inputs : itemStages'[i] = "unstarted"
      /\ madeRecords' \in [DOMAIN s.inputs -> Resume!Records \union {Resume!NoRecord}]
  BY <1>1 DEF Resume!FreshItems, Resume!NothingMade, Resume!Stages
<1>6. StageInv'
  <2>1. callsBegun \in 0..MaxCalls
    BY DEF ResumeInv, StageInv
  <2>2. QED
    BY <1>1, <2>1, Zenon DEF StageInv
<1>7. FileInv'
  BY <1>1, <1>3, <1>4 DEF FileInv
<1>8. ItemInv'
  BY <1>1, <1>5 DEF ItemInv
<1>9. ReusedInv'
  BY <1>1, <1>2, <1>5 DEF ReusedInv
<1>10. QueueInv'
  <2>1. << >> \in Seq(DOMAIN s.inputs) /\ Distinct(<< >>) /\ Queued(<< >>) = {}
    BY DEF Distinct, Queued
  <2>2. {i \in DOMAIN s.inputs : itemStages'[i] = "appending"} = {}
    BY <1>5
  <2>3. QED
    BY <1>1, <2>1, <2>2 DEF QueueInv
<1>11. PromiseInv'
  <2>1. DOMAIN kept \union {j \in DOMAIN s.inputs : itemStages'[j] = "finished"} = DOMAIN kept
    BY <1>2, <1>5
  <2>2. Promise(s, kept, itemStages', madeRecords') = kept
    BY <1>2, <2>1 DEF Promise
  <2>3. QED
    BY <1>1, <1>3, <1>4, <2>2, Zenon DEF PromiseInv
<1>12. QED
  BY <1>6, <1>7, <1>8, <1>9, <1>10, <1>11 DEF ResumeInv

(* The call is over, and nothing else changes.                             *)
LEMMA EndKeeps ==
  ASSUME ResumeInv, stage' = "none", queuedAppends = << >>, UNCHANGED <<disk, Resume!callVars>>
  PROVE  ResumeInv'
<1>1. /\ disk' = disk /\ callShape' = callShape /\ reusedRecords' = reusedRecords
      /\ itemStages' = itemStages /\ madeRecords' = madeRecords /\ queuedAppends' = queuedAppends
      /\ callStops' = callStops /\ callsBegun' = callsBegun /\ promisedRecords' = promisedRecords
      /\ anAppendFailed' = anAppendFailed
  BY DEF Resume!callVars
<1>2. StageInv'
  BY <1>1, Zenon DEF ResumeInv, StageInv
<1>3. FileInv' /\ ItemInv' /\ ReusedInv'
  BY <1>1 DEF ResumeInv, FileInv, ItemInv, ReusedInv
<1>4. QueueInv' /\ PromiseInv'
  BY <1>1 DEF ResumeInv, QueueInv, PromiseInv
<1>5. QED
  BY <1>2, <1>3, <1>4 DEF ResumeInv

LEMMA PrepareFailsKeeps ==
  ASSUME ResumeInv, NEW s \in Shapes, Resume!PrepareFails(s)
  PROVE  ResumeInv'
<1>1. /\ stage = "preparing" /\ stage' = "none" /\ UNCHANGED <<disk, Resume!callVars>>
  BY DEF Resume!PrepareFails
<1>2. queuedAppends = << >>
  BY <1>1 DEF ResumeInv, QueueInv
<1>3. QED
  BY <1>1, <1>2, EndKeeps

LEMMA NothingQueued ==
  ASSUME ResumeInv, \A i \in DOMAIN callShape.inputs : itemStages[i] # "appending"
  PROVE  queuedAppends = << >>
<1>1. queuedAppends \in Seq(DOMAIN callShape.inputs) /\ Distinct(queuedAppends) /\ Queued(queuedAppends) = {}
  BY DEF ResumeInv, QueueInv
<1>2. QED
  BY <1>1, QueueHead

LEMMA ReturnsKeeps == ResumeInv /\ (Resume!Returns \/ Resume!Raises) => ResumeInv'
<1>1. SUFFICES ASSUME ResumeInv, Resume!Returns \/ Resume!Raises
               PROVE  ResumeInv'
  OBVIOUS
<1>2. stage' = "none" /\ UNCHANGED <<disk, Resume!callVars>>
  BY <1>1 DEF Resume!Returns, Resume!Raises
<1>3. \A i \in DOMAIN callShape.inputs : itemStages[i] # "appending"
  <2>1. CASE Resume!Returns
    <3>1. \A i \in DOMAIN callShape.inputs \ DOMAIN reusedRecords : itemStages[i] = "finished"
      BY <2>1 DEF Resume!Returns, Resume!Pending, Resume!Indices
    <3>2. \A i \in DOMAIN reusedRecords : itemStages[i] \in {"unstarted", "stopped"}
      BY <1>1 DEF ResumeInv, ReusedInv
    <3>3. QED
      BY <3>1, <3>2
  <2>2. CASE Resume!Raises
    BY <2>2 DEF Resume!Raises, Resume!Settled, Resume!Indices
  <2>3. QED
    BY <1>1, <2>1, <2>2
<1>4. QED
  BY <1>1, <1>2, <1>3, NothingQueued, EndKeeps

LEMMA CancelKeeps == ResumeInv /\ Resume!CallerCancels => ResumeInv'
<1>1. SUFFICES ASSUME ResumeInv, Resume!CallerCancels
               PROVE  ResumeInv'
  OBVIOUS
<1>2. /\ callStops' = TRUE
      /\ disk' = disk /\ stage' = stage /\ callShape' = callShape /\ reusedRecords' = reusedRecords
      /\ itemStages' = itemStages /\ madeRecords' = madeRecords /\ queuedAppends' = queuedAppends
      /\ callsBegun' = callsBegun /\ promisedRecords' = promisedRecords
      /\ anAppendFailed' = anAppendFailed
  BY <1>1, Zenon DEF Resume!CallerCancels
<1>3. StageInv'
  BY <1>1, <1>2, Zenon DEF ResumeInv, StageInv
<1>4. FileInv' /\ ItemInv' /\ ReusedInv'
  BY <1>1, <1>2 DEF ResumeInv, FileInv, ItemInv, ReusedInv
<1>5. QueueInv' /\ PromiseInv'
  BY <1>1, <1>2 DEF ResumeInv, QueueInv, PromiseInv
<1>6. QED
  BY <1>3, <1>4, <1>5 DEF ResumeInv
(* A step that leaves the file, the queue and what is made alone, and      *)
(* moves an input between "unstarted", "generating" and "stopped".         *)
LEMMA MoveKeeps ==
  ASSUME ResumeInv, NEW i \in DOMAIN callShape.inputs, NEW place \in {"generating", "stopped"},
         i \notin DOMAIN reusedRecords, itemStages[i] \in {"unstarted", "generating"},
         itemStages' = [itemStages EXCEPT ![i] = place], callStops' \in BOOLEAN,
         UNCHANGED <<disk, stage, callShape, reusedRecords, madeRecords, queuedAppends,
                     callsBegun, promisedRecords, anAppendFailed>>
  PROVE  ResumeInv'
<1>1. /\ disk' = disk /\ stage' = stage /\ callShape' = callShape /\ reusedRecords' = reusedRecords
      /\ madeRecords' = madeRecords /\ queuedAppends' = queuedAppends
      /\ callsBegun' = callsBegun /\ promisedRecords' = promisedRecords
      /\ anAppendFailed' = anAppendFailed
  OBVIOUS
<1>2. itemStages \in [DOMAIN callShape.inputs -> Resume!Stages]
  BY DEF ResumeInv, ItemInv
<1>3. /\ itemStages' \in [DOMAIN callShape.inputs -> Resume!Stages]
      /\ \A j \in DOMAIN callShape.inputs :
           /\ itemStages'[j] = "finished" <=> itemStages[j] = "finished"
           /\ itemStages'[j] = "appending" <=> itemStages[j] = "appending"
           /\ j # i => itemStages'[j] = itemStages[j]
  BY <1>2 DEF Resume!Stages
<1>4. StageInv'
  BY <1>1, Zenon DEF ResumeInv, StageInv
<1>5. FileInv'
  BY <1>1 DEF ResumeInv, FileInv
<1>6. ItemInv'
  BY <1>1, <1>3 DEF ResumeInv, ItemInv
<1>7. ReusedInv'
  BY <1>1, <1>3 DEF ResumeInv, ReusedInv
<1>8. QueueInv'
  <2>1. {j \in DOMAIN callShape.inputs : itemStages'[j] = "appending"}
          = {j \in DOMAIN callShape.inputs : itemStages[j] = "appending"}
    BY <1>3
  <2>2. QED
    BY <1>1, <2>1 DEF ResumeInv, QueueInv
<1>9. PromiseInv'
  <2>1. {j \in DOMAIN callShape.inputs : itemStages'[j] = "finished"}
          = {j \in DOMAIN callShape.inputs : itemStages[j] = "finished"}
    BY <1>3
  <2>2. Promise(callShape, reusedRecords, itemStages', madeRecords)
          = Promise(callShape, reusedRecords, itemStages, madeRecords)
    BY <2>1, Zenon DEF Promise
  <2>3. QED
    BY <1>1, <2>2, Zenon DEF ResumeInv, PromiseInv
<1>10. QED
  BY <1>4, <1>5, <1>6, <1>7, <1>8, <1>9 DEF ResumeInv

LEMMA StartItemKeeps ==
  ASSUME ResumeInv, NEW i \in DOMAIN callShape.inputs, Resume!StartItem(i)
  PROVE  ResumeInv'
<1>1. /\ i \notin DOMAIN reusedRecords /\ itemStages[i] = "unstarted"
      /\ itemStages' = [itemStages EXCEPT ![i] = "generating"]
      /\ UNCHANGED <<disk, stage, callShape, reusedRecords, madeRecords, queuedAppends,
                     callStops, callsBegun, promisedRecords, anAppendFailed>>
  BY DEF Resume!StartItem, Resume!Pending
<1>2. callStops' \in BOOLEAN
  BY <1>1, Zenon DEF ResumeInv, StageInv
<1>3. QED
  BY <1>1, <1>2, MoveKeeps

LEMMA ItemStopsKeeps ==
  ASSUME ResumeInv, NEW i \in DOMAIN callShape.inputs, Resume!ItemStops(i)
  PROVE  ResumeInv'
<1>1. /\ itemStages[i] = "generating" /\ callStops' = TRUE
      /\ itemStages' = [itemStages EXCEPT ![i] = "stopped"]
      /\ UNCHANGED <<disk, stage, callShape, reusedRecords, madeRecords, queuedAppends,
                     callsBegun, promisedRecords, anAppendFailed>>
  BY Zenon DEF Resume!ItemStops
<1>2. i \notin DOMAIN reusedRecords
  BY <1>1 DEF ResumeInv, ReusedInv
<1>3. callStops' \in BOOLEAN
  BY <1>1, Zenon
<1>4. QED
  BY <1>1, <1>2, <1>3, MoveKeeps

LEMMA GeneratedKeeps ==
  ASSUME ResumeInv, NEW i \in DOMAIN callShape.inputs, Resume!Generated(i)
  PROVE  ResumeInv'
<1>1. PICK kind \in {"final", "retry"} :
        madeRecords' = [madeRecords EXCEPT ![i] =
          [config |-> callShape.config, content |-> callShape.inputs[i], kind |-> kind]]
  BY DEF Resume!Generated
<1>2. /\ stage = "running" /\ itemStages[i] = "generating"
      /\ itemStages' = [itemStages EXCEPT ![i] = "appending"]
      /\ queuedAppends' = Append(queuedAppends, i)
      /\ disk' = disk /\ stage' = stage /\ callShape' = callShape /\ reusedRecords' = reusedRecords
      /\ callStops' = callStops /\ callsBegun' = callsBegun /\ promisedRecords' = promisedRecords
      /\ anAppendFailed' = anAppendFailed
  BY DEF Resume!Generated
<1> DEFINE record == [config |-> callShape.config, content |-> callShape.inputs[i], kind |-> kind]
<1>3. record \in RecordsOf(callShape, i) /\ record \in Resume!Records
  <2>1. callShape \in Shapes
    BY DEF ResumeInv, FileInv
  <2>2. callShape.config \in Resume!Configs /\ callShape.inputs[i] \in Resume!Contents
    <3>1. callShape.inputs \in Seq(Resume!Contents)
      BY <2>1, ShapeIs
    <3>2. QED
      BY <2>1, <3>1 DEF Resume!Configs
  <2>3. QED
    BY <2>2 DEF RecordsOf, Resume!Records
<1>4. /\ itemStages \in [DOMAIN callShape.inputs -> Resume!Stages]
      /\ madeRecords \in [DOMAIN callShape.inputs -> Resume!Records \union {Resume!NoRecord}]
  BY DEF ResumeInv, ItemInv
<1> HIDE DEF record
<1>5. /\ itemStages' \in [DOMAIN callShape.inputs -> Resume!Stages]
      /\ madeRecords' \in [DOMAIN callShape.inputs -> Resume!Records \union {Resume!NoRecord}]
      /\ itemStages'[i] = "appending" /\ madeRecords'[i] = record
      /\ \A j \in DOMAIN callShape.inputs \ {i} :
           itemStages'[j] = itemStages[j] /\ madeRecords'[j] = madeRecords[j]
  <2>1. madeRecords' = [madeRecords EXCEPT ![i] = record]
    BY <1>1 DEF record
  <2>2. QED
    BY <1>2, <1>3, <1>4, <2>1 DEF Resume!Stages
<1>6. StageInv'
  BY <1>2, Zenon DEF ResumeInv, StageInv
<1>7. FileInv'
  BY <1>2 DEF ResumeInv, FileInv
<1>8. ItemInv'
  BY <1>2, <1>3, <1>5 DEF ResumeInv, ItemInv
<1>9. i \notin DOMAIN reusedRecords
  BY <1>2 DEF ResumeInv, ReusedInv
<1>10. ReusedInv'
  BY <1>2, <1>5, <1>9 DEF ResumeInv, ReusedInv
<1>11. QueueInv'
  <2>1. /\ queuedAppends \in Seq(DOMAIN callShape.inputs) /\ Distinct(queuedAppends)
        /\ Queued(queuedAppends) = {j \in DOMAIN callShape.inputs : itemStages[j] = "appending"}
    BY DEF ResumeInv, QueueInv
  <2>2. i \notin Queued(queuedAppends)
    BY <1>2, <2>1
  <2>3. /\ queuedAppends' \in Seq(DOMAIN callShape.inputs) /\ Distinct(queuedAppends')
        /\ Queued(queuedAppends') = Queued(queuedAppends) \union {i}
    BY <1>2, <2>1, <2>2, QueueEnd
  <2>4. {j \in DOMAIN callShape.inputs : itemStages'[j] = "appending"}
          = {j \in DOMAIN callShape.inputs : itemStages[j] = "appending"} \union {i}
    BY <1>5
  <2>5. QED
    BY <1>2, <2>1, <2>3, <2>4 DEF QueueInv
<1>12. PromiseInv'
  <2>1. {j \in DOMAIN callShape.inputs : itemStages'[j] = "finished"}
          = {j \in DOMAIN callShape.inputs : itemStages[j] = "finished"}
    BY <1>2, <1>5
  <2>2. \A j \in {j \in DOMAIN callShape.inputs : itemStages[j] = "finished"} :
          madeRecords'[j] = madeRecords[j]
    BY <1>2, <1>5
  <2>3. Promise(callShape, reusedRecords, itemStages', madeRecords')
          = Promise(callShape, reusedRecords, itemStages, madeRecords)
    BY <2>1, <2>2 DEF Promise
  <2>4. QED
    BY <1>2, <2>3, Zenon DEF ResumeInv, PromiseInv
<1>13. QED
  BY <1>6, <1>7, <1>8, <1>10, <1>11, <1>12 DEF ResumeInv
(* The head of the queue is an input that waits for its append, with the   *)
(* record that was made for it.                                            *)
LEMMA HeadIs ==
  ASSUME ResumeInv, queuedAppends # << >>
  PROVE  /\ Head(queuedAppends) \in DOMAIN callShape.inputs
         /\ itemStages[Head(queuedAppends)] = "appending"
         /\ madeRecords[Head(queuedAppends)] \in RecordsOf(callShape, Head(queuedAppends))
         /\ Head(queuedAppends) \notin DOMAIN reusedRecords
         /\ Head(queuedAppends) \notin DOMAIN promisedRecords
         /\ stage = "running" /\ disk \in FilesOf(callShape)
<1> DEFINE i == Head(queuedAppends)
<1>1. /\ queuedAppends \in Seq(DOMAIN callShape.inputs) /\ Distinct(queuedAppends)
      /\ Queued(queuedAppends) = {j \in DOMAIN callShape.inputs : itemStages[j] = "appending"}
      /\ stage = "running"
  BY DEF ResumeInv, QueueInv
<1>2. i \in DOMAIN callShape.inputs /\ itemStages[i] = "appending"
  BY <1>1, QueueHead
<1>3. madeRecords[i] \in RecordsOf(callShape, i)
  BY <1>2 DEF ResumeInv, ItemInv
<1>4. i \notin DOMAIN reusedRecords
  BY <1>2 DEF ResumeInv, ReusedInv
<1>5. i \notin DOMAIN promisedRecords
  BY <1>2, <1>4 DEF ResumeInv, PromiseInv, Promise
<1>6. disk \in FilesOf(callShape)
  BY <1>1 DEF ResumeInv, FileInv
<1>7. QED
  BY <1>1, <1>2, <1>3, <1>4, <1>5, <1>6

(* The head of the queue leaves it, appended or not.                       *)
LEMMA HeadLeaves ==
  ASSUME ResumeInv, queuedAppends # << >>, NEW place \in {"finished", "stopped"},
         itemStages' = [itemStages EXCEPT ![Head(queuedAppends)] = place],
         queuedAppends' = Tail(queuedAppends),
         UNCHANGED <<stage, callShape, reusedRecords, madeRecords>>
  PROVE  /\ ItemInv' /\ ReusedInv' /\ QueueInv'
         /\ itemStages'[Head(queuedAppends)] = place
         /\ \A j \in DOMAIN callShape.inputs \ {Head(queuedAppends)} :
              itemStages'[j] = itemStages[j]
<1> DEFINE i == Head(queuedAppends)
<1>1. /\ i \in DOMAIN callShape.inputs /\ itemStages[i] = "appending"
      /\ madeRecords[i] \in RecordsOf(callShape, i) /\ i \notin DOMAIN reusedRecords
      /\ stage = "running"
  BY HeadIs
<1>2. itemStages \in [DOMAIN callShape.inputs -> Resume!Stages]
  BY DEF ResumeInv, ItemInv
<1> HIDE DEF i
<1>3. /\ itemStages' \in [DOMAIN callShape.inputs -> Resume!Stages] /\ itemStages'[i] = place
      /\ \A j \in DOMAIN callShape.inputs \ {i} : itemStages'[j] = itemStages[j]
  <2>1. itemStages' = [itemStages EXCEPT ![i] = place]
    BY DEF i
  <2>2. QED
    BY <1>1, <1>2, <2>1 DEF Resume!Stages
<1>4. ItemInv'
  BY <1>1, <1>3 DEF ResumeInv, ItemInv
<1>5. ReusedInv'
  BY <1>1, <1>3 DEF ResumeInv, ReusedInv
<1>6. QueueInv'
  <2>1. /\ queuedAppends \in Seq(DOMAIN callShape.inputs) /\ Distinct(queuedAppends)
        /\ Queued(queuedAppends) = {j \in DOMAIN callShape.inputs : itemStages[j] = "appending"}
    BY DEF ResumeInv, QueueInv
  <2>2. /\ queuedAppends' \in Seq(DOMAIN callShape.inputs) /\ Distinct(queuedAppends')
        /\ Queued(queuedAppends') = Queued(queuedAppends) \ {i}
    BY <2>1, QueueHead DEF i
  <2>3. {j \in DOMAIN callShape.inputs : itemStages'[j] = "appending"}
          = {j \in DOMAIN callShape.inputs : itemStages[j] = "appending"} \ {i}
    BY <1>3
  <2>4. QED
    BY <1>1, <2>1, <2>2, <2>3 DEF QueueInv
<1>7. QED
  BY <1>3, <1>4, <1>5, <1>6 DEF i

LEMMA AppendLineKeeps ==
  ASSUME ResumeInv, NEW i \in DOMAIN callShape.inputs, Resume!AppendLine(i)
  PROVE  ResumeInv'
<1>1. /\ queuedAppends # << >> /\ i = Head(queuedAppends)
      /\ disk' = Resume!WithLine(disk, i, madeRecords[i])
      /\ itemStages' = [itemStages EXCEPT ![i] = "finished"]
      /\ promisedRecords' = [j \in (DOMAIN promisedRecords) \union {i} |->
                               IF j = i THEN madeRecords[i] ELSE promisedRecords[j]]
      /\ queuedAppends' = Tail(queuedAppends)
      /\ stage' = stage /\ callShape' = callShape /\ reusedRecords' = reusedRecords
      /\ madeRecords' = madeRecords /\ callStops' = callStops /\ callsBegun' = callsBegun
      /\ anAppendFailed' = anAppendFailed
  BY DEF Resume!AppendLine
<1>2. /\ itemStages[i] = "appending" /\ madeRecords[i] \in RecordsOf(callShape, i)
      /\ i \notin DOMAIN reusedRecords /\ i \notin DOMAIN promisedRecords
      /\ stage = "running" /\ disk \in FilesOf(callShape) /\ callShape \in Shapes
  BY <1>1, HeadIs DEF ResumeInv, FileInv
<1>3. /\ ItemInv' /\ ReusedInv' /\ QueueInv'
      /\ itemStages'[i] = "finished"
      /\ \A j \in DOMAIN callShape.inputs \ {i} : itemStages'[j] = itemStages[j]
  BY <1>1, HeadLeaves
<1>4. /\ disk' \in FilesOf(callShape) /\ disk'.torn = FALSE
      /\ AllRead(disk') => AllRead(disk) /\ disk.torn = FALSE
      /\ AllRead(disk) /\ disk.torn = FALSE =>
           /\ AllRead(disk') /\ Holds(disk', i, madeRecords[i])
           /\ \A j, q : j # i /\ Holds(disk, j, q) => Holds(disk', j, q)
  <2> DEFINE f == disk
             g == Resume!WithLine(f, i, madeRecords[i])
  <2>1. f \in FilesOf(callShape) /\ disk' = g
    BY <1>1, <1>2
  <2> HIDE DEF f
  <2>2. /\ g \in FilesOf(callShape) /\ g.torn = FALSE
        /\ AllRead(g) => AllRead(f) /\ f.torn = FALSE
        /\ AllRead(f) /\ f.torn = FALSE =>
             /\ AllRead(g) /\ Holds(g, i, madeRecords[i])
             /\ \A j, q : j # i /\ Holds(f, j, q) => Holds(g, j, q)
    BY <1>2, <2>1, WithLineIs
  <2> HIDE DEF g
  <2>3. QED
    BY <2>1, <2>2 DEF f
<1>5. disk' # Resume!Missing /\ disk # Resume!Missing
  BY <1>2, <1>4, FileExists
<1>6. StageInv'
  BY <1>1, Zenon DEF ResumeInv, StageInv
<1>7. FileInv'
  BY <1>1, <1>2, <1>4, <1>5 DEF FileInv
<1>8. promisedRecords' = Promise(callShape, reusedRecords, itemStages', madeRecords)
  <2> DEFINE done == {j \in DOMAIN callShape.inputs : itemStages[j] = "finished"}
  <2>1. promisedRecords = [j \in DOMAIN reusedRecords \union done |->
                             IF j \in DOMAIN reusedRecords THEN reusedRecords[j] ELSE madeRecords[j]]
    BY Zenon DEF ResumeInv, PromiseInv, Promise
  <2>2. {j \in DOMAIN callShape.inputs : itemStages'[j] = "finished"} = done \union {i}
    BY <1>3
  <2> HIDE DEF done
  <2>3. promisedRecords' = [j \in DOMAIN reusedRecords \union (done \union {i}) |->
                              IF j \in DOMAIN reusedRecords THEN reusedRecords[j] ELSE madeRecords[j]]
    <3>1. DOMAIN promisedRecords = DOMAIN reusedRecords \union done
      BY <2>1
    <3>2. \A j \in DOMAIN reusedRecords \union done :
            promisedRecords[j]
              = IF j \in DOMAIN reusedRecords THEN reusedRecords[j] ELSE madeRecords[j]
      BY <2>1
    <3>3. QED
      BY <1>1, <1>2, <3>1, <3>2
  <2>4. QED
    BY <2>2, <2>3, Zenon DEF Promise
<1>9. anAppendFailed = FALSE => AllRead(disk')
  BY <1>1, <1>2, <1>4, <1>5 DEF ResumeInv, PromiseInv
<1>10. ASSUME AllRead(disk'), NEW j \in DOMAIN promisedRecords'
       PROVE  Holds(disk', j, promisedRecords'[j])
  <2>1. /\ AllRead(disk) /\ disk.torn = FALSE
        /\ \A k \in DOMAIN promisedRecords : Holds(disk, k, promisedRecords[k])
    BY <1>4, <1>10 DEF ResumeInv, PromiseInv
  <2>2. CASE j = i
    BY <1>1, <1>4, <2>1, <2>2
  <2>3. CASE j # i
    <3>1. j \in DOMAIN promisedRecords /\ promisedRecords'[j] = promisedRecords[j]
      BY <1>1, <1>10, <2>3
    <3>2. QED
      BY <1>4, <2>1, <2>3, <3>1
  <2>4. QED
    BY <2>2, <2>3
<1>11. PromiseInv'
  BY <1>1, <1>4, <1>5, <1>8, <1>9, <1>10, Zenon DEF PromiseInv
<1>12. QED
  BY <1>3, <1>6, <1>7, <1>11 DEF ResumeInv

(* What an append cut off leaves, torn bytes or the whole line: where all  *)
(* of it can be read, it holds what was promised.                          *)
LEMMA AppendCutOff ==
  ASSUME ResumeInv, queuedAppends # << >>,
         NEW g \in {[disk EXCEPT !.torn = TRUE],
                    Resume!WithLine(disk, Head(queuedAppends), madeRecords[Head(queuedAppends)])}
  PROVE  /\ g \in FilesOf(callShape) /\ g # Resume!Missing
         /\ anAppendFailed = FALSE => AllRead(g)
         /\ \A j \in DOMAIN promisedRecords : AllRead(g) => Holds(g, j, promisedRecords[j])
<1> DEFINE i == Head(queuedAppends)
<1>1. /\ i \in DOMAIN callShape.inputs /\ madeRecords[i] \in RecordsOf(callShape, i)
      /\ i \notin DOMAIN promisedRecords
      /\ stage = "running" /\ disk \in FilesOf(callShape)
  BY HeadIs
<1>2. callShape \in Shapes /\ disk # Resume!Missing
  BY <1>1, FileExists DEF ResumeInv, FileInv
<1>3. /\ anAppendFailed = FALSE => AllRead(disk) /\ disk.torn = FALSE
      /\ \A j \in DOMAIN promisedRecords : AllRead(disk) => Holds(disk, j, promisedRecords[j])
  BY <1>1, <1>2 DEF ResumeInv, PromiseInv
<1> HIDE DEF i
<1>4. CASE g = [disk EXCEPT !.torn = TRUE]
  <2>1. g \in FilesOf(callShape) /\ g.lines = disk.lines
    BY <1>1, <1>4, TornIs
  <2>2. /\ AllRead(disk) <=> AllRead(g)
        /\ \A j, r : Holds(disk, j, r) <=> Holds(g, j, r)
    BY <2>1, HoldsByLines
  <2>3. QED
    BY <1>3, <2>1, <2>2, FileExists
<1>5. CASE g = Resume!WithLine(disk, i, madeRecords[i])
  <2>1. /\ g \in FilesOf(callShape)
        /\ AllRead(g) => AllRead(disk) /\ disk.torn = FALSE
        /\ AllRead(disk) /\ disk.torn = FALSE =>
             /\ AllRead(g)
             /\ \A j, q : j # i /\ Holds(disk, j, q) => Holds(g, j, q)
    BY <1>1, <1>2, <1>5, WithLineIs
  <2>2. QED
    BY <1>1, <1>3, <2>1, FileExists
<1>6. QED
  BY <1>4, <1>5 DEF i

LEMMA AppendFailsKeeps ==
  ASSUME ResumeInv, NEW i \in DOMAIN callShape.inputs, Resume!AppendFails(i)
  PROVE  ResumeInv'
<1>1. /\ queuedAppends # << >> /\ i = Head(queuedAppends)
      /\ disk' \in {disk, [disk EXCEPT !.torn = TRUE], Resume!WithLine(disk, i, madeRecords[i])}
      /\ itemStages' = [itemStages EXCEPT ![i] = "stopped"]
      /\ queuedAppends' = Tail(queuedAppends)
      /\ callStops' = TRUE /\ anAppendFailed' = TRUE
      /\ stage' = stage /\ callShape' = callShape /\ reusedRecords' = reusedRecords
      /\ madeRecords' = madeRecords /\ callsBegun' = callsBegun
      /\ promisedRecords' = promisedRecords
  BY Zenon DEF Resume!AppendFails
<1>2. /\ itemStages[i] = "appending" /\ madeRecords[i] \in RecordsOf(callShape, i)
      /\ disk \in FilesOf(callShape) /\ callShape \in Shapes
  BY <1>1, HeadIs DEF ResumeInv, FileInv
<1>3. /\ ItemInv' /\ ReusedInv' /\ QueueInv'
      /\ itemStages'[i] = "stopped"
      /\ \A j \in DOMAIN callShape.inputs \ {i} : itemStages'[j] = itemStages[j]
  BY <1>1, HeadLeaves
<1>4. disk' \in FilesOf(callShape)
  <2>1. [disk EXCEPT !.torn = TRUE] \in FilesOf(callShape)
    BY <1>2, TornIs
  <2>2. Resume!WithLine(disk, i, madeRecords[i]) \in FilesOf(callShape)
    BY <1>2, WithLineIs
  <2>3. QED
    BY <1>1, <1>2, <2>1, <2>2, Zenon
<1>5. StageInv'
  BY <1>1, Zenon DEF ResumeInv, StageInv
<1>6. FileInv'
  BY <1>1, <1>2, <1>4, FileExists DEF FileInv
<1>7. PromiseInv'
  <2>1. {j \in DOMAIN callShape.inputs : itemStages'[j] = "finished"}
          = {j \in DOMAIN callShape.inputs : itemStages[j] = "finished"}
    BY <1>2, <1>3
  <2>2. Promise(callShape, reusedRecords, itemStages', madeRecords)
          = Promise(callShape, reusedRecords, itemStages, madeRecords)
    BY <2>1, Zenon DEF Promise
  <2>3. promisedRecords = Promise(callShape, reusedRecords, itemStages, madeRecords)
    BY DEF ResumeInv, PromiseInv
  <2>4. ASSUME NEW j \in DOMAIN promisedRecords
        PROVE  disk' # Resume!Missing /\ (AllRead(disk') => Holds(disk', j, promisedRecords[j]))
    <3>1. CASE disk' = disk
      BY <2>4, <3>1 DEF ResumeInv, PromiseInv
    <3>2. CASE disk' \in {[disk EXCEPT !.torn = TRUE], Resume!WithLine(disk, i, madeRecords[i])}
      <4>1. disk' \in {[disk EXCEPT !.torn = TRUE],
                       Resume!WithLine(disk, Head(queuedAppends), madeRecords[Head(queuedAppends)])}
        BY <1>1, <3>2, Zenon
      <4>2. QED
        BY <1>1, <2>4, <4>1, AppendCutOff
    <3>3. QED
      BY <1>1, <3>1, <3>2, Zenon
  <2>5. QED
    BY <1>1, <2>2, <2>3, <2>4, Zenon DEF PromiseInv
<1>8. QED
  BY <1>3, <1>5, <1>6, <1>7 DEF ResumeInv
LEMMA CrashKeeps == ResumeInv /\ Resume!Crash => ResumeInv'
<1>1. SUFFICES ASSUME ResumeInv, Resume!Crash
               PROVE  ResumeInv'
  OBVIOUS
<1>2. /\ stage' = "none" /\ queuedAppends' = << >>
      /\ itemStages' = [j \in DOMAIN callShape.inputs |->
                          IF itemStages[j] = "finished" THEN "finished" ELSE "stopped"]
      /\ callShape' = callShape /\ reusedRecords' = reusedRecords /\ madeRecords' = madeRecords
      /\ callStops' = callStops /\ callsBegun' = callsBegun
      /\ promisedRecords' = promisedRecords /\ anAppendFailed' = anAppendFailed
  BY <1>1, Zenon DEF Resume!Crash, Resume!Indices
<1>3. \/ disk' = disk
      \/ /\ queuedAppends # << >>
         /\ disk' \in {[disk EXCEPT !.torn = TRUE],
                       Resume!WithLine(disk, Head(queuedAppends), madeRecords[Head(queuedAppends)])}
  BY <1>1, Zenon DEF Resume!Crash
<1>4. callShape \in Shapes
  BY <1>1 DEF ResumeInv, FileInv
<1>5. /\ disk' = Resume!Missing \/ disk' \in FilesOf(callShape)
      /\ disk # Resume!Missing => disk' # Resume!Missing
      /\ anAppendFailed = FALSE => (disk' # Resume!Missing => AllRead(disk'))
      /\ \A j \in DOMAIN promisedRecords :
           disk' # Resume!Missing /\ (AllRead(disk') => Holds(disk', j, promisedRecords[j]))
  <2>1. CASE disk' = disk
    BY <1>1, <2>1 DEF ResumeInv, FileInv, PromiseInv
  <2>2. CASE /\ queuedAppends # << >>
             /\ disk' \in {[disk EXCEPT !.torn = TRUE],
                           Resume!WithLine(disk, Head(queuedAppends), madeRecords[Head(queuedAppends)])}
    BY <1>1, <2>2, AppendCutOff
  <2>3. QED
    BY <1>3, <2>1, <2>2
<1>6. \A j \in DOMAIN callShape.inputs :
        /\ itemStages'[j] \in {"finished", "stopped"}
        /\ itemStages'[j] = "finished" <=> itemStages[j] = "finished"
  BY <1>2
<1>7. StageInv'
  BY <1>1, <1>2, Zenon DEF ResumeInv, StageInv
<1>8. FileInv'
  BY <1>2, <1>4, <1>5 DEF FileInv
<1>9. ItemInv'
  <2>1. itemStages' \in [DOMAIN callShape.inputs -> Resume!Stages]
    BY <1>2 DEF Resume!Stages
  <2>2. QED
    BY <1>1, <1>2, <1>6, <2>1 DEF ResumeInv, ItemInv
<1>10. ReusedInv'
  <2>1. /\ reusedRecords = [i \in DOMAIN reusedRecords |-> reusedRecords[i]]
        /\ \A i \in DOMAIN reusedRecords :
             /\ i \in DOMAIN callShape.inputs
             /\ reusedRecords[i] \in RecordsOf(callShape, i) /\ reusedRecords[i].kind # "retry"
             /\ itemStages[i] # "finished"
    BY <1>1 DEF ResumeInv, ReusedInv
  <2>2. QED
    BY <1>2, <1>6, <2>1 DEF ReusedInv
<1>11. QueueInv'
  <2>1. << >> \in Seq(DOMAIN callShape.inputs) /\ Distinct(<< >>) /\ Queued(<< >>) = {}
    BY DEF Distinct, Queued
  <2>2. {i \in DOMAIN callShape.inputs : itemStages'[i] = "appending"} = {}
    BY <1>6
  <2>3. QED
    BY <1>2, <2>1, <2>2 DEF QueueInv
<1>12. PromiseInv'
  <2>1. {j \in DOMAIN callShape.inputs : itemStages'[j] = "finished"}
          = {j \in DOMAIN callShape.inputs : itemStages[j] = "finished"}
    BY <1>6
  <2>2. Promise(callShape, reusedRecords, itemStages', madeRecords)
          = Promise(callShape, reusedRecords, itemStages, madeRecords)
    BY <2>1, Zenon DEF Promise
  <2>3. promisedRecords = Promise(callShape, reusedRecords, itemStages, madeRecords)
    BY <1>1 DEF ResumeInv, PromiseInv
  <2>4. QED
    BY <1>2, <1>5, <2>2, <2>3, Zenon DEF PromiseInv
<1>13. QED
  BY <1>7, <1>8, <1>9, <1>10, <1>11, <1>12 DEF ResumeInv

LEMMA ResumeSteps == ResumeInv /\ Resume!Next => ResumeInv'
<1>1. SUFFICES ASSUME ResumeInv, Resume!Next
               PROVE  ResumeInv'
  OBVIOUS
<1>2. CASE Resume!Call
  BY <1>1, <1>2, CallKeeps
<1>3. CASE \E s \in Shapes : Resume!Prepare(s) \/ Resume!PrepareFails(s)
  BY <1>1, <1>3, PrepareKeeps, PrepareFailsKeeps
<1>4. ASSUME NEW i \in DOMAIN callShape.inputs, Resume!StartItem(i) \/ Resume!Generated(i)
      PROVE  ResumeInv'
  BY <1>1, <1>4, StartItemKeeps, GeneratedKeeps
<1>5. ASSUME NEW i \in DOMAIN callShape.inputs, Resume!ItemStops(i) \/ Resume!AppendLine(i)
      PROVE  ResumeInv'
  BY <1>1, <1>5, ItemStopsKeeps, AppendLineKeeps
<1>6. ASSUME NEW i \in DOMAIN callShape.inputs, Resume!AppendFails(i)
      PROVE  ResumeInv'
  BY <1>1, <1>6, AppendFailsKeeps
<1>7. CASE Resume!CallerCancels \/ Resume!Returns \/ Resume!Raises
  BY <1>1, <1>7, CancelKeeps, ReturnsKeeps
<1>8. CASE Resume!Crash
  BY <1>1, <1>8, CrashKeeps
<1>9. CASE Resume!Finished
  <2>1. ResumeUnchanged
    BY <1>9 DEF Resume!Finished, Resume!vars, ResumeUnchanged
  <2>2. QED
    BY <1>1, <2>1, ResumeStutters
<1>10. QED
  BY <1>1, <1>2, <1>3, <1>4, <1>5, <1>6, <1>7, <1>8, <1>9, Zenon DEF Resume!Next, Resume!Indices
LEMMA PartialMapIs ==
  ASSUME NEW S, NEW T, NEW f, f = [i \in DOMAIN f |-> f[i]],
         \A i \in DOMAIN f : i \in S /\ f[i] \in T
  PROVE  f \in Resume!PartialMaps(S, T)
<1>1. DOMAIN f \in SUBSET S /\ f \in [DOMAIN f -> T]
  OBVIOUS
<1>2. QED
  BY <1>1, Zenon DEF Resume!PartialMaps

(* What is promised is a record of the input it is promised for.           *)
LEMMA PromisesBelong ==
  ASSUME ResumeInv
  PROVE  /\ promisedRecords = [i \in DOMAIN promisedRecords |-> promisedRecords[i]]
         /\ \A i \in DOMAIN promisedRecords :
              /\ i \in DOMAIN callShape.inputs
              /\ promisedRecords[i] \in RecordsOf(callShape, i)
<1>1. promisedRecords = Promise(callShape, reusedRecords, itemStages, madeRecords)
  BY DEF ResumeInv, PromiseInv
<1>2. promisedRecords = [i \in DOMAIN promisedRecords |-> promisedRecords[i]]
  BY <1>1 DEF Promise
<1>3. ASSUME NEW i \in DOMAIN promisedRecords
      PROVE  i \in DOMAIN callShape.inputs /\ promisedRecords[i] \in RecordsOf(callShape, i)
  <2>1. CASE i \in DOMAIN reusedRecords
    <3>1. promisedRecords[i] = reusedRecords[i]
      BY <1>1, <1>3, <2>1 DEF Promise
    <3>2. QED
      BY <2>1, <3>1 DEF ResumeInv, ReusedInv
  <2>2. CASE i \notin DOMAIN reusedRecords
    <3>1. /\ i \in DOMAIN callShape.inputs /\ itemStages[i] = "finished"
          /\ promisedRecords[i] = madeRecords[i]
      BY <1>1, <1>3, <2>2 DEF Promise
    <3>2. QED
      BY <3>1 DEF ResumeInv, ItemInv
  <2>3. QED
    BY <2>1, <2>2
<1>4. QED
  BY <1>2, <1>3

LEMMA ResumeTypes == ResumeInv => Resume!TypeOK
<1>1. SUFFICES ASSUME ResumeInv
               PROVE  Resume!TypeOK
  OBVIOUS
<1>2. callShape \in Shapes
  BY <1>1 DEF ResumeInv, FileInv
<1>3. disk = Resume!Missing \/ disk \in Resume!Files
  <2>1. SUFFICES ASSUME disk \in FilesOf(callShape)
                 PROVE  disk \in Resume!Files
    BY <1>1 DEF ResumeInv, FileInv
  <2>2. \A l \in LinesOf(callShape) \union {Resume!Malformed} :
          l \in Resume!Lines \union {Resume!Malformed}
    BY Zenon DEF LinesOf
  <2>3. disk.lines \in Seq(Resume!Lines \union {Resume!Malformed})
    <3>1. /\ disk.lines \in Seq(LinesOf(callShape) \union {Resume!Malformed})
      BY <2>1, FileIs, Zenon
    <3>2. \A S, T : (\A x \in S : x \in T) => \A q \in Seq(S) : q \in Seq(T)
      OBVIOUS
    <3>3. QED
      BY <2>2, <3>1, <3>2, Zenon
  <2>4. /\ disk.exists \in {TRUE} /\ disk.header \in Shapes /\ disk.torn \in BOOLEAN
    BY <1>2, <2>1, FileIs, Zenon
  <2>5. disk = [exists |-> disk.exists, header |-> disk.header, lines |-> disk.lines,
                torn |-> disk.torn]
    BY <2>1, Zenon DEF FilesOf
  <2>6. \A e \in {TRUE}, h \in Shapes, ls \in Seq(Resume!Lines \union {Resume!Malformed}),
           t \in BOOLEAN :
          [exists |-> e, header |-> h, lines |-> ls, torn |-> t] \in Resume!Files
    BY Zenon DEF Resume!Files
  <2>7. QED
    BY <2>3, <2>4, <2>5, <2>6, Zenon
<1>4. stage \in {"none", "preparing", "running"} /\ callsBegun \in 0..MaxCalls
  BY <1>1, Zenon DEF ResumeInv, StageInv
<1>5. callStops \in BOOLEAN /\ anAppendFailed \in BOOLEAN
  BY <1>1, Zenon DEF ResumeInv, StageInv
<1>6. reusedRecords \in Resume!PartialMaps(DOMAIN callShape.inputs, Resume!Records)
  <2>1. /\ reusedRecords = [i \in DOMAIN reusedRecords |-> reusedRecords[i]]
        /\ \A i \in DOMAIN reusedRecords :
             i \in DOMAIN callShape.inputs /\ reusedRecords[i] \in Resume!Records
    BY <1>1, RecordIs DEF ResumeInv, ReusedInv
  <2>2. QED
    BY <2>1, PartialMapIs
<1>7. promisedRecords \in Resume!PartialMaps(DOMAIN callShape.inputs, Resume!Records)
  <2>1. /\ promisedRecords = [i \in DOMAIN promisedRecords |-> promisedRecords[i]]
        /\ \A i \in DOMAIN promisedRecords :
             i \in DOMAIN callShape.inputs /\ promisedRecords[i] \in Resume!Records
    BY <1>1, PromisesBelong, RecordIs
  <2>2. QED
    BY <2>1, PartialMapIs
<1>8. /\ itemStages \in [DOMAIN callShape.inputs -> Resume!Stages]
      /\ madeRecords \in [DOMAIN callShape.inputs -> Resume!Records \union {Resume!NoRecord}]
  BY <1>1 DEF ResumeInv, ItemInv
<1>9. \A i \in DOMAIN callShape.inputs :
        itemStages[i] \in {"appending", "finished"} => madeRecords[i] # Resume!NoRecord
  BY <1>1, RecordIs DEF ResumeInv, ItemInv
<1>10. queuedAppends \in Seq(DOMAIN callShape.inputs)
  BY <1>1 DEF ResumeInv, QueueInv
<1>11. {queuedAppends[k] : k \in DOMAIN queuedAppends}
         = {i \in DOMAIN callShape.inputs : itemStages[i] = "appending"}
  BY <1>1, Zenon DEF ResumeInv, QueueInv, Queued
<1>12. QED
  BY <1>2, <1>3, <1>4, <1>5, <1>6, <1>7, <1>8, <1>9, <1>10, <1>11, Zenon
     DEF Resume!TypeOK, Resume!Indices

LEMMA ResumeTells ==
  ResumeInv => /\ Resume!RecordsBelongToTheirInputs /\ Resume!RetriesAreNotReused
               /\ Resume!FinishedRecordsAreKept /\ Resume!OnlyFailedAppendsSpoilTheFile
<1>1. SUFFICES ASSUME ResumeInv
               PROVE  /\ Resume!RecordsBelongToTheirInputs /\ Resume!RetriesAreNotReused
                      /\ Resume!FinishedRecordsAreKept /\ Resume!OnlyFailedAppendsSpoilTheFile
  OBVIOUS
<1>2. \A i \in DOMAIN reusedRecords :
        /\ i \in DOMAIN callShape.inputs /\ reusedRecords[i] \in RecordsOf(callShape, i)
        /\ reusedRecords[i].kind # "retry" /\ itemStages[i] # "finished"
  BY <1>1 DEF ResumeInv, ReusedInv
<1>3. Resume!RetriesAreNotReused
  BY <1>2 DEF Resume!RetriesAreNotReused
<1>4. Resume!RecordsBelongToTheirInputs
  <2>1. SUFFICES ASSUME NEW i \in DOMAIN reusedRecords
                                    \union {j \in DOMAIN callShape.inputs : itemStages[j] = "finished"}
                 PROVE  /\ Resume!Returned[i].config = callShape.config
                        /\ Resume!Returned[i].content = callShape.inputs[i]
    BY Zenon DEF Resume!RecordsBelongToTheirInputs, Resume!Indices
  <2>2. i \in DOMAIN callShape.inputs
    BY <1>2, <2>1
  <2>3. Resume!Returned[i] = IF i \in DOMAIN reusedRecords THEN reusedRecords[i] ELSE madeRecords[i]
    BY <2>2 DEF Resume!Returned, Resume!Indices
  <2>4. Resume!Returned[i] \in RecordsOf(callShape, i)
    BY <1>1, <1>2, <2>1, <2>2, <2>3 DEF ResumeInv, ItemInv
  <2>5. QED
    BY <2>4, RecordIs
<1>5. disk = Resume!Missing \/ disk \in FilesOf(callShape)
  BY <1>1 DEF ResumeInv, FileInv
<1>6. Resume!FinishedRecordsAreKept
  <2>1. SUFFICES ASSUME ~Resume!Unloadable(disk), NEW s \in Shapes, NEW i \in DOMAIN promisedRecords,
                        NEW j \in DOMAIN s.inputs,
                        <<j, i>> \in Resume!StoredIndices(callShape, s),
                        Resume!Reuses(promisedRecords[i])
                 PROVE  /\ ~Resume!LoadFails(disk, s)
                        /\ j \in DOMAIN Resume!ReusedRecords(disk, s)
                        /\ Resume!ReusedRecords(disk, s)[j] = promisedRecords[i]
    BY Zenon DEF Resume!FinishedRecordsAreKept
  <2>2. /\ i \in DOMAIN callShape.inputs /\ promisedRecords[i] \in RecordsOf(callShape, i)
        /\ promisedRecords[i].kind # "retry"
    BY <1>1, <2>1, PromisesBelong DEF Resume!Reuses
  <2>3. disk # Resume!Missing /\ disk \in FilesOf(callShape) /\ callShape \in Shapes
    BY <1>1, <1>5, <2>1 DEF ResumeInv, FileInv, PromiseInv
  <2>4. ~Resume!HasMalformedLine(disk) /\ AllRead(disk)
    BY <2>1, <2>3, FileIs, Zenon DEF Resume!Unloadable
  <2>5. Holds(disk, i, promisedRecords[i])
    BY <1>1, <2>1, <2>4 DEF ResumeInv, PromiseInv
  <2>6. ~Resume!LoadFails(disk, s)
    BY <2>4, Zenon DEF Resume!LoadFails
  <2>7. /\ j \in DOMAIN Resume!ReusedRecords(disk, s)
        /\ Resume!ReusedRecords(disk, s)[j] = promisedRecords[i]
    BY <2>1, <2>2, <2>3, <2>4, <2>5, ReusedBelong
  <2>8. QED
    BY <2>6, <2>7
<1>7. Resume!OnlyFailedAppendsSpoilTheFile
  <2>1. SUFFICES ASSUME Resume!Unloadable(disk), anAppendFailed = FALSE
                 PROVE  FALSE
    <3>1. anAppendFailed \in BOOLEAN
      BY <1>1, Zenon DEF ResumeInv, StageInv
    <3>2. QED
      BY <2>1, <3>1, Zenon DEF Resume!OnlyFailedAppendsSpoilTheFile
  <2>2. disk # Resume!Missing
    BY <2>1 DEF Resume!Unloadable, Resume!Missing
  <2>3. disk \in FilesOf(callShape) /\ AllRead(disk)
    BY <1>1, <1>5, <2>1, <2>2 DEF ResumeInv, PromiseInv
  <2>4. QED
    BY <2>1, <2>3, FileIs, Zenon DEF Resume!Unloadable
<1>8. QED
  BY <1>3, <1>4, <1>6, <1>7
LEMMA RunningStays == [FamilyNext]_familyVars => running' = running
BY DEF FamilyNext, familyVars

LEMMA ResumeKeeps ==
  ASSUME running = "resume" => ResumeInv, [FamilyNext]_familyVars
  PROVE  running' = "resume" => ResumeInv'
<1>1. SUFFICES ASSUME running = "resume", ResumeInv
               PROVE  ResumeInv'
  BY RunningStays
<1>2. CASE Resume!Next
  BY <1>1, <1>2, ResumeSteps
<1>3. CASE UNCHANGED familyVars
  <2>1. ResumeUnchanged
    BY <1>3 DEF familyVars, resumeVars, ResumeUnchanged
  <2>2. QED
    BY <1>1, <2>1, ResumeStutters
<1>4. QED
  BY <1>1, <1>2, <1>3 DEF FamilyNext

(***************************************************************************)
(* Whatever calls a program makes with a resume file, however they end and *)
(* wherever the process dies or an append fails: an input gets a record    *)
(* made for it under its binding, an error that may end differently is not *)
(* reused, and what was finished is reused by any later call for an input  *)
(* with the same identity, unless the file has a malformed line.  It has   *)
(* one only if an append failed in the call that wrote it.                 *)
(***************************************************************************)
THEOREM FilesKeepTheirRecords == FamilySpec => []ResumeIsFaithful
<1> DEFINE Inv == running = "resume" => ResumeInv
<1>1. FamilyInit => Inv
  BY ResumeStarts DEF FamilyInit
<1>2. Inv /\ [FamilyNext]_familyVars => Inv'
  BY ResumeKeeps
<1>3. Inv => ResumeIsFaithful
  BY ResumeTypes, ResumeTells DEF ResumeIsFaithful
<1> HIDE DEF Inv
<1>4. QED
  BY <1>1, <1>2, <1>3, PTL DEF FamilySpec
-----------------------------------------------------------------------------
(***************************************************************************)
(* The price catalogue: exact ratios.                                      *)
(***************************************************************************)

LEMMA CatalogSets ==
  /\ \A S : Catalog!Cardinality(S) = Cardinality(S)
  /\ \A S : Catalog!IsFiniteSet(S) <=> IsFiniteSet(S)
<1>1. \A S : Catalog!Cardinality(S) = Cardinality(S)
  BY Zenon DEF Cardinality, Catalog!Cardinality
<1>2. \A S : Catalog!IsFiniteSet(S) <=> IsFiniteSet(S)
  BY Zenon DEF IsFiniteSet, Catalog!IsFiniteSet
<1>3. QED
  BY <1>1, <1>2

LEMMA ExactDivision ==
  ASSUME NEW a \in Nat, NEW b \in Nat \ {0}, NEW u \in Nat, u % b = 0
  PROVE  (a * u) \div b \in Nat /\ b * ((a * u) \div b) = a * u
<1> DEFINE q == u \div b
<1>1. q \in Nat /\ u = b * q
  OBVIOUS
<1> HIDE DEF q
<1>2. a * q \in Nat /\ a * u = b * (a * q)
  BY <1>1
<1>3. \A m \in Nat : (b * m) \div b = m
  OBVIOUS
<1>4. (a * u) \div b = a * q
  BY <1>2, <1>3
<1>5. QED
  BY <1>2, <1>4

LEMMA ImageIsFinite ==
  ASSUME NEW g, IsFiniteSet(DOMAIN g)
  PROVE  IsFiniteSet({g[x] : x \in DOMAIN g})
<1> DEFINE T == {g[x] : x \in DOMAIN g}
           h == [x \in DOMAIN g |-> g[x]]
<1>1. h \in Surjection(DOMAIN g, T)
  BY Zenon DEF Surjection
<1>2. QED
  BY <1>1, FS_Surjection, Zenon

LEMMA OnlyOne ==
  ASSUME NEW S, IsFiniteSet(S), Catalog!Cardinality(S) = 1
  PROVE  S # {} /\ \A x, y \in S : x = y
<1>1. \E x : S = {x}
  BY CatalogSets, FS_Singleton
<1>2. QED
  BY <1>1

LEMMA AtMostOne ==
  ASSUME NEW S, IsFiniteSet(S), Catalog!Cardinality(S) <= 1
  PROVE  \A x, y \in S : x = y
<1>1. Cardinality(S) \in Nat /\ Cardinality(S) <= 1
  BY CatalogSets, FS_CardinalityType
<1>2. Cardinality(S) = 0 \/ Cardinality(S) = 1
  BY <1>1
<1>3. QED
  BY <1>2, FS_EmptySet, FS_Singleton

(* What LiteLLM lists of one model.                                        *)
EntryOk(e) ==
  /\ IsFiniteSet(DOMAIN e.rates)
  /\ \A f \in DOMAIN e.rates :
       /\ f = <<f[1], f[2], f[3]>> /\ f[2] \in Nat /\ e.rates[f] \in Nat
       /\ f[2] = 0 /\ e.rates[f] # 0 => Unit % e.rates[f] = 0

LEMMA CatalogConstants ==
  /\ Unit \in Nat \ {0} /\ NaN \notin Nat
  /\ None \notin [above : Nat, input : Nat, output : Nat]
  /\ IsFiniteSet(BedrockKeys) /\ IsFiniteSet(CohereKeys)
  /\ \A u \in Upstreams : \A name \in DOMAIN u : EntryOk(u[name])
BY CatalogAssumption, CatalogSets DEF Catalog!RatesAssumption, Catalog!Listed, EntryOk

LEMMA BaseIs ==
  ASSUME NEW e, EntryOk(e), NEW f \in DOMAIN e.rates
  PROVE  /\ Catalog!Base(f)[1] = f[1] /\ Catalog!Base(f)[2] = 0 /\ Catalog!Base(f)[3] = f[3]
         /\ f[2] = 0 => Catalog!Base(f) = f
  BY DEF Catalog!Base, EntryOk

LEMMA RatioIs ==
  ASSUME NEW a \in Nat, NEW b \in Nat \ {0}, Unit % b = 0
  PROVE  Catalog!Ratio(a, b) \in Nat /\ b * Catalog!Ratio(a, b) = a * Unit
BY CatalogConstants, ExactDivision DEF Catalog!Ratio

(* The multiplier of a field and the price of its base rate give its price. *)
LEMMA RegularIs ==
  ASSUME NEW e, EntryOk(e), NEW tiers, Catalog!LongContextIsRegular(e, tiers),
         NEW f \in Catalog!LongContextRates(e, tiers)
  PROVE  LET long == Catalog!LongContext(e, tiers)
             m == IF f[1] = "output" THEN long.output ELSE long.input
         IN /\ long # None /\ long.above = f[2]
            /\ Catalog!Base(f) \in DOMAIN e.rates /\ e.rates[Catalog!Base(f)] \in Nat \ {0}
            /\ m = Catalog!Ratio(e.rates[f], e.rates[Catalog!Base(f)])
            /\ m \in Nat /\ e.rates[Catalog!Base(f)] * m = e.rates[f] * Unit
<1> DEFINE fields == Catalog!LongContextRates(e, tiers)
           out == Catalog!Outputs(fields)
           long == Catalog!LongContext(e, tiers)
           ratio(g) == Catalog!Ratio(e.rates[g], e.rates[Catalog!Base(g)])
<1>1. fields \subseteq DOMAIN e.rates /\ out \subseteq fields /\ \A g \in fields : g[1] = "output" <=> g \in out
  BY DEF Catalog!LongContextRates, Catalog!Listed, Catalog!Outputs
<1>2. /\ \A g \in fields : Catalog!Positive(e, Catalog!Base(g))
      /\ Catalog!Cardinality({g[2] : g \in fields}) = 1
      /\ Catalog!Cardinality(Catalog!RatiosOf(e, fields \ out)) = 1
      /\ Catalog!Cardinality(Catalog!RatiosOf(e, out)) = 1
  BY Zenon DEF Catalog!LongContextIsRegular
<1>3. IsFiniteSet(fields) /\ IsFiniteSet(out) /\ IsFiniteSet(fields \ out)
  <2>1. IsFiniteSet(DOMAIN e.rates)
    BY Zenon DEF EntryOk
  <2>2. IsFiniteSet(fields)
    BY <1>1, <2>1, FS_Subset, Zenon
  <2>3. out \in SUBSET fields /\ fields \ out \in SUBSET fields
    BY <1>1
  <2>4. QED
    BY <2>2, <2>3, FS_Subset, Zenon
<1>4. \A D \in SUBSET fields : IsFiniteSet(D) =>
        /\ IsFiniteSet(Catalog!RatiosOf(e, D))
        /\ \A g \in D : ratio(g) \in Catalog!RatiosOf(e, D)
  <2>1. SUFFICES ASSUME NEW D, IsFiniteSet(D)
                 PROVE  /\ IsFiniteSet(Catalog!RatiosOf(e, D))
                        /\ \A g \in D : ratio(g) \in Catalog!RatiosOf(e, D)
    BY Zenon
  <2> DEFINE h == [g \in D |-> ratio(g)]
  <2>2. IsFiniteSet({h[g] : g \in DOMAIN h})
    <3>1. DOMAIN h = D
      OBVIOUS
    <3> HIDE DEF h
    <3>2. QED
      BY <2>1, <3>1, ImageIsFinite, Zenon
  <2>3. {h[g] : g \in DOMAIN h} = Catalog!RatiosOf(e, D)
    BY DEF Catalog!RatiosOf
  <2>4. QED
    BY <2>2, <2>3, Zenon DEF Catalog!RatiosOf
<1>5. IsFiniteSet({g[2] : g \in fields})
  <2> DEFINE h == [g \in fields |-> g[2]]
  <2>1. IsFiniteSet({h[g] : g \in DOMAIN h})
    <3>1. DOMAIN h = fields
      OBVIOUS
    <3> HIDE DEF h
    <3>2. QED
      BY <1>3, <3>1, ImageIsFinite, Zenon
  <2>2. {h[g] : g \in DOMAIN h} = {g[2] : g \in fields}
    OBVIOUS
  <2>3. QED
    BY <2>1, <2>2, Zenon
<1> HIDE DEF fields, out, ratio
<1>6. f \in fields
  BY DEF fields
<1>7. long = [above |-> (CHOOSE g \in fields : TRUE)[2],
              input |-> CHOOSE m \in Catalog!RatiosOf(e, fields \ out) : TRUE,
              output |-> CHOOSE m \in Catalog!RatiosOf(e, out) : TRUE]
  BY <1>6, Zenon DEF Catalog!LongContext, fields, out
<1> HIDE DEF long
<1>8. long.above = f[2]
  <2>1. (CHOOSE g \in fields : TRUE) \in fields
    BY <1>6, Zenon
  <2>2. (CHOOSE g \in fields : TRUE)[2] = f[2]
    <3>1. \A x, y \in {g[2] : g \in fields} : x = y
      BY <1>2, <1>5, OnlyOne, Zenon
    <3>2. /\ (CHOOSE g \in fields : TRUE)[2] \in {g[2] : g \in fields}
          /\ f[2] \in {g[2] : g \in fields}
      BY <1>6, <2>1, Zenon
    <3>3. QED
      BY <3>1, <3>2, Zenon
  <2>3. QED
    BY <1>7, <2>2
<1>9. (IF f[1] = "output" THEN long.output ELSE long.input) = ratio(f)
  <2>1. CASE f[1] = "output"
    <3>1. f \in out
      BY <1>1, <1>6, <2>1
    <3>2. ratio(f) \in Catalog!RatiosOf(e, out) /\ IsFiniteSet(Catalog!RatiosOf(e, out))
      BY <1>1, <1>3, <1>4, <3>1, Zenon
    <3>3. (CHOOSE m \in Catalog!RatiosOf(e, out) : TRUE) = ratio(f)
      BY <1>2, <3>2, OnlyOne, Zenon
    <3>4. QED
      BY <1>7, <2>1, <3>3
  <2>2. CASE f[1] # "output"
    <3>1. f \in fields \ out
      BY <1>1, <1>6, <2>2
    <3>2. /\ ratio(f) \in Catalog!RatiosOf(e, fields \ out)
          /\ IsFiniteSet(Catalog!RatiosOf(e, fields \ out))
      BY <1>1, <1>3, <1>4, <3>1, Zenon
    <3>3. (CHOOSE m \in Catalog!RatiosOf(e, fields \ out) : TRUE) = ratio(f)
      BY <1>2, <3>2, OnlyOne, Zenon
    <3>4. QED
      BY <1>7, <2>2, <3>3
  <2>3. QED
    BY <2>1, <2>2
<1>10. \A g \in fields :
         /\ Catalog!Base(g) \in DOMAIN e.rates /\ e.rates[Catalog!Base(g)] \in Nat \ {0}
         /\ ratio(g) \in Nat /\ e.rates[Catalog!Base(g)] * ratio(g) = e.rates[g] * Unit
  <2>1. SUFFICES ASSUME NEW g \in fields
                 PROVE  /\ Catalog!Base(g) \in DOMAIN e.rates
                        /\ e.rates[Catalog!Base(g)] \in Nat \ {0}
                        /\ ratio(g) \in Nat
                        /\ e.rates[Catalog!Base(g)] * ratio(g) = e.rates[g] * Unit
    OBVIOUS
  <2>2. Catalog!Base(g) \in DOMAIN e.rates /\ e.rates[Catalog!Base(g)] # 0
    BY <1>2, <2>1, Zenon DEF Catalog!Positive, Catalog!Listed
  <2>3. Catalog!Base(g)[2] = 0 /\ e.rates[g] \in Nat
    BY <1>1, <2>1, BaseIs DEF EntryOk
  <2>4. e.rates[Catalog!Base(g)] \in Nat \ {0} /\ Unit % e.rates[Catalog!Base(g)] = 0
    BY <2>2, <2>3 DEF EntryOk
  <2>5. QED
    BY <2>2, <2>3, <2>4, RatioIs DEF ratio
<1>11. long # None
  <2>1. \E g \in fields : g \in out
    <3>1. out # {}
      <4>1. Catalog!RatiosOf(e, out) # {}
        BY <1>1, <1>2, <1>3, <1>4, OnlyOne, Zenon
      <4>2. QED
        BY <4>1 DEF Catalog!RatiosOf
    <3>2. QED
      BY <1>1, <3>1
  <2>2. \E g \in fields : g \in fields \ out
    <3>1. fields \ out # {}
      <4>1. Catalog!RatiosOf(e, fields \ out) # {}
        BY <1>1, <1>2, <1>3, <1>4, OnlyOne, Zenon
      <4>2. QED
        BY <4>1 DEF Catalog!RatiosOf
    <3>2. QED
      BY <3>1
  <2>3. \A D \in SUBSET fields :
          D # {} => (CHOOSE m \in Catalog!RatiosOf(e, D) : TRUE) \in Nat
    <3>1. SUFFICES ASSUME NEW D \in SUBSET fields, D # {}
                   PROVE  (CHOOSE m \in Catalog!RatiosOf(e, D) : TRUE) \in Nat
      OBVIOUS
    <3>2. Catalog!RatiosOf(e, D) # {}
      BY <3>1 DEF Catalog!RatiosOf
    <3>3. (CHOOSE m \in Catalog!RatiosOf(e, D) : TRUE) \in Catalog!RatiosOf(e, D)
      BY <3>2, Zenon
    <3>4. \A m \in Catalog!RatiosOf(e, D) : \E g \in D : m = ratio(g)
      BY Zenon DEF Catalog!RatiosOf, ratio
    <3>5. QED
      BY <1>10, <3>1, <3>3, <3>4
  <2>4. /\ (CHOOSE m \in Catalog!RatiosOf(e, out) : TRUE) \in Nat
        /\ (CHOOSE m \in Catalog!RatiosOf(e, fields \ out) : TRUE) \in Nat
    BY <1>1, <2>1, <2>2, <2>3
  <2>5. f[2] \in Nat
    BY <1>1, <1>6 DEF EntryOk
  <2>6. long \in [above : Nat, input : Nat, output : Nat]
    BY <1>7, <1>8, <2>4, <2>5
  <2>7. QED
    BY <2>6, CatalogConstants
<1>12. QED
  BY <1>6, <1>8, <1>9, <1>10, <1>11 DEF long, ratio
(* The price of a field, as a table of its entry gives it.                 *)
LEMMA QuoteIs ==
  ASSUME NEW e, EntryOk(e), NEW tiers, Catalog!LongContextIsRegular(e, tiers),
         NEW table, table.long = Catalog!LongContext(e, tiers),
         NEW f \in DOMAIN e.rates, f[2] # 0 => f[3] \in tiers \union {"standard"},
         Catalog!Base(f) \in DOMAIN e.rates =>
           /\ Catalog!Base(f) \in DOMAIN table.rates
           /\ table.rates[Catalog!Base(f)] = e.rates[Catalog!Base(f)] * Unit
  PROVE  /\ Catalog!Base(f) \in DOMAIN table.rates
         /\ f[2] # 0 => table.long # None /\ table.long.above = f[2]
         /\ Unit # NaN
         /\ Catalog!Price(table, f) * Unit = e.rates[f] * Unit * Unit * Unit
<1>1. Unit \in Nat \ {0} /\ Unit # NaN
  BY CatalogConstants
<1>2. e.rates[f] \in Nat
  BY DEF EntryOk
<1>3. CASE f[2] = 0
  <2>1. Catalog!Base(f) = f
    BY <1>3, BaseIs
  <2>2. Catalog!Price(table, f) = (e.rates[f] * Unit) * Unit
    BY <1>3, <2>1, Zenon DEF Catalog!Price
  <2>3. QED
    BY <1>1, <1>2, <1>3, <2>1, <2>2
<1>4. CASE f[2] # 0
  <2>1. f \in Catalog!LongContextRates(e, tiers)
    BY <1>4 DEF Catalog!LongContextRates, Catalog!Listed
  <2> DEFINE b == e.rates[Catalog!Base(f)]
             m == IF f[1] = "output" THEN table.long.output ELSE table.long.input
  <2>2. /\ table.long # None /\ table.long.above = f[2]
        /\ Catalog!Base(f) \in DOMAIN e.rates /\ b \in Nat \ {0}
        /\ m \in Nat /\ b * m = e.rates[f] * Unit
    BY <2>1, RegularIs
  <2>3. Catalog!Price(table, f) = (b * Unit) * m
    BY <1>4, <2>2, Zenon DEF Catalog!Price
  <2> HIDE DEF b, m
  <2>4. \A x, u, n, p \in Nat : n * p = x * u => ((n * u) * p) * u = x * u * u * u
    <3>1. SUFFICES ASSUME NEW x \in Nat, NEW u \in Nat, NEW n \in Nat, NEW p \in Nat, n * p = x * u
                   PROVE  ((n * u) * p) * u = x * u * u * u
      OBVIOUS
    <3>2. (n * u) * p = (n * p) * u
      OBVIOUS
    <3>3. QED
      BY <3>1, <3>2
  <2>5. QED
    BY <1>1, <1>2, <1>4, <2>2, <2>3, <2>4
<1>5. QED
  BY <1>3, <1>4

(* The price of a field under a cross-region prefix, as the table of the   *)
(* base entry and the region's multiplier give it.                         *)
LEMMA RegionalQuoteIs ==
  ASSUME NEW e, EntryOk(e), NEW base, EntryOk(base),
         Catalog!LongContextIsRegular(e, {}),
         Catalog!LongContext(e, {}) \in {None, Catalog!LongContext(base, {})},
         NEW table, table.long = Catalog!LongContext(base, {}),
         NEW r, NEW f \in DOMAIN e.rates, f[3] = "standard",
         Catalog!Base(f) \in DOMAIN e.rates =>
           /\ Catalog!Positive(base, Catalog!Base(f))
           /\ r = Catalog!Ratio(e.rates[Catalog!Base(f)], base.rates[Catalog!Base(f)])
           /\ Catalog!Base(f) \in DOMAIN table.rates
           /\ table.rates[Catalog!Base(f)] = base.rates[Catalog!Base(f)] * Unit
  PROVE  /\ Catalog!Base(f) \in DOMAIN table.rates
         /\ f[2] # 0 => table.long # None /\ table.long.above = f[2]
         /\ r # NaN
         /\ Catalog!Price(table, f) * r = e.rates[f] * Unit * Unit * Unit
<1> DEFINE g == Catalog!Base(f)
           p == e.rates[g]
           b == base.rates[g]
<1>1. Unit \in Nat \ {0} /\ NaN \notin Nat
  BY CatalogConstants
<1>2. e.rates[f] \in Nat
  BY DEF EntryOk
<1>3. g \in DOMAIN e.rates =>
        /\ p \in Nat /\ b \in Nat \ {0} /\ r \in Nat /\ b * r = p * Unit
        /\ g \in DOMAIN table.rates /\ table.rates[g] = b * Unit
  <2>1. SUFFICES ASSUME g \in DOMAIN e.rates
                 PROVE  /\ p \in Nat /\ b \in Nat \ {0} /\ r \in Nat /\ b * r = p * Unit
                        /\ g \in DOMAIN table.rates /\ table.rates[g] = b * Unit
    OBVIOUS
  <2>2. g[2] = 0 /\ p \in Nat
    BY <2>1, BaseIs DEF EntryOk
  <2>3. g \in DOMAIN base.rates /\ b # 0
    BY <2>1 DEF Catalog!Positive, Catalog!Listed
  <2>4. b \in Nat /\ Unit % b = 0
    BY <2>2, <2>3 DEF EntryOk
  <2>5. r \in Nat /\ b * r = p * Unit
    BY <2>1, <2>2, <2>3, <2>4, RatioIs
  <2>6. QED
    BY <2>1, <2>2, <2>3, <2>4, <2>5
<1>4. CASE f[2] = 0
  <2>1. g = f
    BY <1>4, BaseIs
  <2>2. Catalog!Price(table, f) = (b * Unit) * Unit
    BY <1>3, <1>4, <2>1, Zenon DEF Catalog!Price
  <2>3. p = e.rates[f] /\ f \in DOMAIN e.rates
    BY <2>1
  <2> HIDE DEF p, b, g
  <2>4. p \in Nat /\ b \in Nat \ {0} /\ r \in Nat /\ b * r = p * Unit /\ g \in DOMAIN table.rates
    BY <1>3, <2>1, <2>3
  <2>5. \A x, u, n, q \in Nat : n * q = x * u => ((n * u) * u) * q = x * u * u * u
    <3>1. SUFFICES ASSUME NEW x \in Nat, NEW u \in Nat, NEW n \in Nat, NEW q \in Nat, n * q = x * u
                   PROVE  ((n * u) * u) * q = x * u * u * u
      OBVIOUS
    <3>2. ((n * u) * u) * q = (n * q) * u * u
      OBVIOUS
    <3>3. QED
      BY <3>1, <3>2
  <2>6. Catalog!Price(table, f) * r = e.rates[f] * Unit * Unit * Unit
    BY <1>1, <2>2, <2>3, <2>4, <2>5
  <2>7. QED
    BY <1>1, <1>4, <2>4, <2>6 DEF g
<1>5. CASE f[2] # 0
  <2>1. f \in Catalog!LongContextRates(e, {})
    BY <1>5 DEF Catalog!LongContextRates, Catalog!Listed
  <2> DEFINE long == Catalog!LongContext(e, {})
             m == IF f[1] = "output" THEN long.output ELSE long.input
  <2>2. /\ long # None /\ long.above = f[2]
        /\ g \in DOMAIN e.rates /\ p \in Nat \ {0}
        /\ m \in Nat /\ p * m = e.rates[f] * Unit
    BY <2>1, RegularIs
  <2>3. table.long = long
    BY <2>2, Zenon
  <2>4. Catalog!Price(table, f) = (b * Unit) * m
    BY <1>3, <1>5, <2>2, <2>3, Zenon DEF Catalog!Price
  <2>5. b \in Nat \ {0} /\ r \in Nat /\ b * r = p * Unit /\ g \in DOMAIN table.rates
    BY <1>3, <2>2
  <2>6. table.long # None /\ table.long.above = f[2] /\ p \in Nat /\ m \in Nat /\ p * m = e.rates[f] * Unit
    BY <2>2, <2>3
  <2> HIDE DEF p, b, m, long
  <2>7. \A x, u, n, q, k, l \in Nat : n * q = k * u /\ k * l = x * u => ((n * u) * l) * q = x * u * u * u
    <3>1. SUFFICES ASSUME NEW x \in Nat, NEW u \in Nat, NEW n \in Nat, NEW q \in Nat,
                          NEW k \in Nat, NEW l \in Nat, n * q = k * u, k * l = x * u
                   PROVE  ((n * u) * l) * q = x * u * u * u
      OBVIOUS
    <3>2. ((n * u) * l) * q = (n * q) * (u * l)
      OBVIOUS
    <3>3. (k * u) * (u * l) = (k * l) * (u * u)
      OBVIOUS
    <3>4. (n * q) * (u * l) = (k * u) * (u * l) /\ (k * l) * (u * u) = (x * u) * (u * u)
      BY <3>1
    <3>5. (x * u) * (u * u) = x * u * u * u
      OBVIOUS
    <3>6. QED
      BY <3>2, <3>3, <3>4, <3>5
  <2>8. Catalog!Price(table, f) * r = e.rates[f] * Unit * Unit * Unit
    <3>1. ((b * Unit) * m) * r = e.rates[f] * Unit * Unit * Unit
      BY <1>1, <1>2, <2>5, <2>6, <2>7
    <3>2. QED
      BY <2>4, <3>1
  <2>9. QED
    BY <1>1, <2>5, <2>6, <2>8
<1>6. QED
  BY <1>4, <1>5
(* One price per search context size is the price of every size.           *)
LEMMA SearchIs ==
  ASSUME NEW e, Catalog!OneSearchPrice(e)
  PROVE  \A size \in DOMAIN e.search : Catalog!SearchPrice(e) = e.search[size]
<1>1. CASE e.search = <<>>
  BY <1>1
<1>2. CASE e.search # <<>>
  <2>1. DOMAIN e.search = {"low", "medium", "high"} /\ Catalog!Cardinality(Catalog!Range(e.search)) = 1
    BY <1>2, Zenon DEF Catalog!OneSearchPrice
  <2> DEFINE h == e.search
  <2>2. Catalog!Range(h) = {h[x] : x \in DOMAIN h}
    BY Zenon DEF Catalog!Range
  <2>3. IsFiniteSet(DOMAIN h)
    <3>1. IsFiniteSet({"low"}) /\ IsFiniteSet({"medium"}) /\ IsFiniteSet({"high"})
      BY FS_Singleton, Zenon
    <3>2. IsFiniteSet({"low"} \union {"medium"})
      BY <3>1, FS_Union, Zenon
    <3>3. IsFiniteSet(({"low"} \union {"medium"}) \union {"high"})
      BY <3>1, <3>2, FS_Union, Zenon
    <3>4. ({"low"} \union {"medium"}) \union {"high"} = DOMAIN h
      BY <2>1
    <3>5. QED
      BY <3>3, <3>4
  <2> HIDE DEF h
  <2>4. IsFiniteSet(Catalog!Range(h))
    BY <2>2, <2>3, ImageIsFinite, Zenon
  <2>5. Catalog!Cardinality(Catalog!Range(h)) = 1
    BY <2>1, Zenon DEF h
  <2>6. \A x, y \in Catalog!Range(h) : x = y
    BY <2>4, <2>5, OnlyOne, Zenon
  <2>7. \A x, y \in DOMAIN h : h[x] = h[y]
    BY <2>2, <2>6, Zenon
  <2>8. "low" \in DOMAIN h
    BY <2>1 DEF h
  <2>9. Catalog!SearchPrice(e) = e.search["low"]
    BY <1>2, Zenon DEF Catalog!SearchPrice
  <2>10. QED
    BY <2>7, <2>8, <2>9 DEF h
<1>3. QED
  BY <1>1, <1>2

LEMMA OpenAIQuotes ==
  ASSUME NEW e, EntryOk(e), Catalog!OpenAIRenders(e)
  PROVE  /\ Catalog!Quotes(e, Catalog!OpenAITable(e),
              Catalog!FieldsOf(e, Catalog!OpenAIRates, Catalog!OpenAIRenderedTiers \union {"standard"}), Unit)
         /\ \A size \in DOMAIN e.search : Catalog!OpenAITable(e).search = e.search[size]
         /\ \A f \in DOMAIN Catalog!OpenAITable(e).rates : \A r \in Catalog!OpenAIRates :
              <<r, 0, f[3]>> \in DOMAIN Catalog!OpenAITable(e).rates
<1> DEFINE tiers == Catalog!OpenAIRenderedTiers
           table == Catalog!OpenAITable(e)
           rates == Catalog!BaseRates(e, Catalog!OpenAIRates, tiers \union {"standard"})
<1>1. /\ Catalog!LongContextIsRegular(e, tiers) /\ Catalog!OneSearchPrice(e)
      /\ Catalog!Complete(e, Catalog!OpenAIRates, "standard")
      /\ \A tier \in tiers : Catalog!CompleteOrAbsent(e, tier)
  BY Zenon DEF Catalog!OpenAIRenders
<1>2. /\ table.rates = rates /\ table.long = Catalog!LongContext(e, tiers)
      /\ table.search = Catalog!SearchPrice(e)
  BY DEF Catalog!OpenAITable
<1>3. /\ \A f \in DOMAIN rates : f \in DOMAIN e.rates /\ f[1] \in Catalog!OpenAIRates
           /\ f[2] = 0 /\ f[3] \in tiers \union {"standard"}
      /\ \A f \in DOMAIN e.rates :
           f[1] \in Catalog!OpenAIRates /\ f[2] = 0 /\ f[3] \in tiers \union {"standard"} =>
             f \in DOMAIN rates /\ rates[f] = e.rates[f] * Unit
  BY DEF Catalog!BaseRates, Catalog!Listed
<1> HIDE DEF table, rates, tiers
<1>4. Catalog!Quotes(e, table, Catalog!FieldsOf(e, Catalog!OpenAIRates, tiers \union {"standard"}), Unit)
  <2>1. SUFFICES ASSUME NEW f \in Catalog!FieldsOf(e, Catalog!OpenAIRates, tiers \union {"standard"})
                                    \intersect Catalog!Listed(e)
                 PROVE  /\ Catalog!Base(f) \in DOMAIN table.rates
                        /\ f[2] # 0 => table.long # None /\ table.long.above = f[2]
                        /\ Unit # NaN
                        /\ Catalog!Price(table, f) * Unit = e.rates[f] * Unit * Unit * Unit
    BY Zenon DEF Catalog!Quotes
  <2>2. f \in DOMAIN e.rates /\ f[1] \in Catalog!OpenAIRates /\ f[3] \in tiers \union {"standard"}
    BY DEF Catalog!FieldsOf, Catalog!Listed
  <2>3. /\ Catalog!Base(f)[1] = f[1] /\ Catalog!Base(f)[2] = 0 /\ Catalog!Base(f)[3] = f[3]
    BY <2>2, BaseIs
  <2>4. Catalog!Base(f) \in DOMAIN e.rates =>
           /\ Catalog!Base(f) \in DOMAIN table.rates
           /\ table.rates[Catalog!Base(f)] = e.rates[Catalog!Base(f)] * Unit
    BY <1>2, <1>3, <2>2, <2>3
  <2>5. QED
    BY <1>1, <1>2, <2>2, <2>4, QuoteIs
<1>5. \A size \in DOMAIN e.search : table.search = e.search[size]
  BY <1>1, <1>2, SearchIs
<1>6. \A f \in DOMAIN table.rates : \A r \in Catalog!OpenAIRates : <<r, 0, f[3]>> \in DOMAIN table.rates
  <2>1. SUFFICES ASSUME NEW f \in DOMAIN rates, NEW r \in Catalog!OpenAIRates
                 PROVE  <<r, 0, f[3]>> \in DOMAIN rates
    BY <1>2
  <2>2. f \in DOMAIN e.rates /\ f[1] \in Catalog!OpenAIRates /\ f[2] = 0 /\ f[3] \in tiers \union {"standard"}
    BY <1>3
  <2>3. Catalog!Complete(e, Catalog!OpenAIRates, f[3])
    <3>1. CASE f[3] = "standard"
      BY <1>1, <3>1
    <3>2. CASE f[3] \in tiers
      <4>1. f = <<f[1], 0, f[3]>>
        BY <2>2 DEF EntryOk
      <4>2. <<f[1], 0, f[3]>> \in Catalog!Listed(e)
        BY <2>2, <4>1 DEF Catalog!Listed
      <4>3. QED
        BY <1>1, <2>2, <3>2, <4>2, Zenon DEF Catalog!CompleteOrAbsent
    <3>3. QED
      BY <2>2, <3>1, <3>2
  <2>4. <<r, 0, f[3]>> \in DOMAIN e.rates
    BY <2>3 DEF Catalog!Complete, Catalog!Listed
  <2>5. QED
    BY <1>3, <2>2, <2>4
<1>7. QED
  BY <1>4, <1>5, <1>6 DEF table, tiers

LEMMA Crosswise ==
  ASSUME NEW a \in Nat, NEW b \in Nat, NEW c \in Nat, NEW r \in Nat, NEW u \in Nat, a * r = b * u
  PROVE  (c * r) * a = (c * u) * b
<1>1. (c * r) * a = c * (a * r) /\ (c * u) * b = c * (b * u)
  OBVIOUS
<1>2. QED
  BY <1>1

(* The one-hour write of a batch is discounted as the five-minute write.   *)
LEMMA HourWriteIs ==
  ASSUME NEW e, EntryOk(e), Catalog!AnthropicRenders(e, TRUE)
  PROVE  LET rates == Catalog!AnthropicTable(e, TRUE).rates
         IN \A f \in DOMAIN rates \ Catalog!Listed(e) :
              /\ f = Catalog!HourWrite("batches")
              /\ rates[f] * e.rates[<<"write", 0, "standard">>]
                   = rates[Catalog!HourWrite("standard")] * e.rates[<<"write", 0, "batches">>]
<1> DEFINE rates == Catalog!AnthropicTable(e, TRUE).rates
           hour == <<"write_1h", 0, "standard">>
           write == <<"write", 0, "standard">>
           batch == <<"write", 0, "batches">>
<1>1. /\ Catalog!Complete(e, Catalog!AnthropicRates, "standard")
      /\ Catalog!Complete(e, Catalog!OpenAIRates, "batches") /\ Catalog!Positive(e, write)
  BY Zenon DEF Catalog!AnthropicRenders
<1>2. hour \in DOMAIN e.rates /\ write \in DOMAIN e.rates /\ batch \in DOMAIN e.rates /\ e.rates[write] # 0
  BY <1>1 DEF Catalog!Complete, Catalog!Positive, Catalog!Listed, Catalog!AnthropicRates, Catalog!OpenAIRates
<1>3. /\ Catalog!HourWrite("standard") = hour /\ Catalog!HourWrite("batches") # hour
      /\ Catalog!HourWrite("batches") = <<"write_1h", 0, "batches">>
  BY DEF Catalog!HourWrite
<1>4. /\ DOMAIN rates = Catalog!AnthropicFields(e, TRUE)
      /\ \A f \in DOMAIN rates :
           rates[f] = IF f = Catalog!HourWrite("batches") THEN Catalog!BatchHourWrite(e) ELSE e.rates[f] * Unit
  BY DEF Catalog!AnthropicTable
<1>5. /\ \A f \in Catalog!AnthropicFields(e, TRUE) : f \in DOMAIN e.rates \/ f = Catalog!HourWrite("batches")
      /\ hour \in Catalog!AnthropicFields(e, TRUE)
  BY <1>2 DEF Catalog!AnthropicFields, Catalog!BaseRates, Catalog!Listed, Catalog!AnthropicRates,
              Catalog!OpenAIRates
<1>6. Catalog!BatchHourWrite(e) = e.rates[hour] * Catalog!Ratio(e.rates[batch], e.rates[write])
  BY <1>3, Zenon DEF Catalog!BatchHourWrite
<1>7. /\ e.rates[hour] \in Nat /\ e.rates[batch] \in Nat
      /\ e.rates[write] \in Nat \ {0} /\ Unit % e.rates[write] = 0
  <2>1. write[2] = 0
    OBVIOUS
  <2>2. QED
    BY <1>2, <2>1 DEF EntryOk
<1>8. /\ Catalog!Ratio(e.rates[batch], e.rates[write]) \in Nat
      /\ e.rates[write] * Catalog!Ratio(e.rates[batch], e.rates[write]) = e.rates[batch] * Unit
  BY <1>7, RatioIs
<1> HIDE DEF rates, hour, write, batch
<1>9. SUFFICES ASSUME NEW f \in DOMAIN rates \ Catalog!Listed(e)
               PROVE  f = Catalog!HourWrite("batches") /\ rates[f] * e.rates[write] = rates[hour] * e.rates[batch]
  BY <1>3, Zenon DEF rates, write, batch
<1>10. f = Catalog!HourWrite("batches") /\ f \in DOMAIN rates
  BY <1>4, <1>5 DEF Catalog!Listed
<1>11. /\ rates[f] = e.rates[hour] * Catalog!Ratio(e.rates[batch], e.rates[write])
       /\ rates[hour] = e.rates[hour] * Unit
  BY <1>3, <1>4, <1>5, <1>6, <1>10
<1>12. (e.rates[hour] * Catalog!Ratio(e.rates[batch], e.rates[write])) * e.rates[write]
         = (e.rates[hour] * Unit) * e.rates[batch]
  BY <1>7, <1>8, CatalogConstants, Crosswise
<1>13. QED
  BY <1>10, <1>11, <1>12
LEMMA AnthropicQuotes ==
  ASSUME NEW e, EntryOk(e), NEW direct \in BOOLEAN, Catalog!AnthropicRenders(e, direct)
  PROVE  Catalog!Quotes(e, Catalog!AnthropicTable(e, direct),
           Catalog!FieldsOf(e, Catalog!AnthropicRates, {"standard"})
             \union IF direct THEN Catalog!FieldsOf(e, Catalog!OpenAIRates, {"batches"}) ELSE {}, Unit)
<1> DEFINE tiers == IF direct THEN Catalog!AnthropicKnownTiers ELSE {}
           table == Catalog!AnthropicTable(e, direct)
           fields == Catalog!FieldsOf(e, Catalog!AnthropicRates, {"standard"})
                       \union IF direct THEN Catalog!FieldsOf(e, Catalog!OpenAIRates, {"batches"}) ELSE {}
<1>1. Catalog!LongContextIsRegular(e, tiers)
  BY Zenon DEF Catalog!AnthropicRenders
<1>2. /\ table.long = Catalog!LongContext(e, tiers)
      /\ DOMAIN table.rates = Catalog!AnthropicFields(e, direct)
      /\ \A f \in Catalog!AnthropicFields(e, direct) :
           f # Catalog!HourWrite("batches") => table.rates[f] = e.rates[f] * Unit
  BY DEF Catalog!AnthropicTable
<1>3. \A f \in DOMAIN e.rates :
        /\ f[2] = 0
        /\ \/ f[1] \in Catalog!AnthropicRates /\ f[3] = "standard"
           \/ direct /\ f[1] \in Catalog!OpenAIRates /\ f[3] = "batches"
        => f \in Catalog!AnthropicFields(e, direct) /\ f # Catalog!HourWrite("batches")
  BY DEF Catalog!AnthropicFields, Catalog!BaseRates, Catalog!Listed, Catalog!HourWrite, Catalog!OpenAIRates
<1>4. tiers = IF direct THEN {"batches"} ELSE {}
  BY DEF Catalog!AnthropicKnownTiers
<1> HIDE DEF tiers, table, fields
<1>5. SUFFICES ASSUME NEW f \in fields \intersect Catalog!Listed(e)
               PROVE  /\ Catalog!Base(f) \in DOMAIN table.rates
                      /\ f[2] # 0 => table.long # None /\ table.long.above = f[2]
                      /\ Unit # NaN
                      /\ Catalog!Price(table, f) * Unit = e.rates[f] * Unit * Unit * Unit
  BY Zenon DEF Catalog!Quotes, fields, table
<1>6. /\ f \in DOMAIN e.rates
      /\ \/ f[1] \in Catalog!AnthropicRates /\ f[3] = "standard"
         \/ direct /\ f[1] \in Catalog!OpenAIRates /\ f[3] = "batches"
  BY DEF fields, Catalog!FieldsOf, Catalog!Listed
<1>7. /\ Catalog!Base(f)[1] = f[1] /\ Catalog!Base(f)[2] = 0 /\ Catalog!Base(f)[3] = f[3]
  BY <1>6, BaseIs
<1>8. Catalog!Base(f) \in DOMAIN e.rates =>
         /\ Catalog!Base(f) \in DOMAIN table.rates
         /\ table.rates[Catalog!Base(f)] = e.rates[Catalog!Base(f)] * Unit
  BY <1>2, <1>3, <1>6, <1>7
<1>9. f[3] \in tiers \union {"standard"}
  BY <1>4, <1>6
<1>10. QED
  BY <1>1, <1>2, <1>6, <1>8, <1>9, QuoteIs

(* An embedding has one field that is sent, and no long context.           *)
Sent(e) == Catalog!FieldsOf(e, Catalog!AnthropicRates, {"standard"}) \ {<<"output", 0, "standard">>}

LEMMA EmbeddingIs ==
  ASSUME NEW e, EntryOk(e), Catalog!EmbeddingRenders(e)
  PROVE  /\ Catalog!LongContextIsRegular(e, {}) /\ Catalog!LongContext(e, {}) = None
         /\ <<"input", 0, "standard">> \in DOMAIN e.rates
         /\ \A f \in Sent(e) : f = <<"input", 0, "standard">>
         /\ Catalog!EmbeddingTable(e).long = None
         /\ <<"input", 0, "standard">> \in DOMAIN Catalog!EmbeddingTable(e).rates
         /\ Catalog!EmbeddingTable(e).rates[<<"input", 0, "standard">>]
              = e.rates[<<"input", 0, "standard">>] * Unit
         /\ Catalog!BaseFields(e, {"input"}) = {<<"input", 0, "standard">>}
<1> DEFINE input == <<"input", 0, "standard">>
           rates == Catalog!BaseRates(e, {"input"}, {"standard"})
<1>1. /\ input \in DOMAIN e.rates
      /\ \A f \in DOMAIN e.rates : f[1] \in {"input", "output"} /\ f[2] = 0 /\ f[3] \in {"standard", "batches"}
  BY DEF Catalog!EmbeddingRenders, Catalog!Listed
<1>2. Catalog!LongContextRates(e, {}) = {}
  BY <1>1 DEF Catalog!LongContextRates, Catalog!Listed
<1>3. Catalog!LongContextIsRegular(e, {}) /\ Catalog!LongContext(e, {}) = None
  BY <1>2, Zenon DEF Catalog!LongContextIsRegular, Catalog!LongContext
<1>4. \A f \in DOMAIN e.rates : f = <<f[1], f[2], f[3]>>
  BY DEF EntryOk
<1>5. \A f \in Sent(e) : f = input
  BY <1>1, <1>4 DEF Sent, Catalog!FieldsOf, Catalog!Listed
<1>6. input \in DOMAIN rates /\ rates[input] = e.rates[input] * Unit
  BY <1>1 DEF Catalog!BaseRates, Catalog!Listed
<1> HIDE DEF rates
<1>7. Catalog!EmbeddingTable(e).long = None /\ Catalog!EmbeddingTable(e).rates = rates
  BY DEF Catalog!EmbeddingTable, rates
<1>8. Catalog!BaseFields(e, {"input"}) = {input}
  BY <1>1, <1>4 DEF Catalog!BaseFields, Catalog!Listed
<1>9. QED
  BY <1>1, <1>3, <1>5, <1>6, <1>7, <1>8

LEMMA EmbeddingQuotes ==
  ASSUME NEW e, EntryOk(e), Catalog!EmbeddingRenders(e)
  PROVE  Catalog!Quotes(e, Catalog!EmbeddingTable(e), Sent(e), Unit)
<1> DEFINE input == <<"input", 0, "standard">>
           table == Catalog!EmbeddingTable(e)
<1>1. SUFFICES ASSUME NEW f \in Sent(e) \intersect Catalog!Listed(e)
               PROVE  /\ Catalog!Base(f) \in DOMAIN table.rates
                      /\ f[2] # 0 => table.long # None /\ table.long.above = f[2]
                      /\ Unit # NaN
                      /\ Catalog!Price(table, f) * Unit = e.rates[f] * Unit * Unit * Unit
  BY Zenon DEF Catalog!Quotes
<1>2. f = input /\ f \in DOMAIN e.rates /\ Catalog!Base(f) = input /\ f[2] = 0
  BY EmbeddingIs DEF Catalog!Base
<1>3. /\ table.long = Catalog!LongContext(e, {}) /\ Catalog!LongContextIsRegular(e, {})
      /\ input \in DOMAIN table.rates /\ table.rates[input] = e.rates[input] * Unit
  BY EmbeddingIs
<1> HIDE DEF table, input
<1>4. QED
  BY <1>2, <1>3, QuoteIs

LEMMA RegionalEmbeddingQuotes ==
  ASSUME NEW e, EntryOk(e), NEW base, EntryOk(base), NEW r,
         Catalog!EmbeddingRenders(base), Catalog!EmbeddingRatesCompare(e, base),
         \A f \in Catalog!BaseFields(e, {"input"}) : r = Catalog!Ratio(e.rates[f], base.rates[f])
  PROVE  Catalog!Quotes(e, Catalog!EmbeddingTable(base), Sent(e), r)
<1> DEFINE input == <<"input", 0, "standard">>
           table == Catalog!EmbeddingTable(base)
<1>1. SUFFICES ASSUME NEW f \in Sent(e) \intersect Catalog!Listed(e)
               PROVE  /\ Catalog!Base(f) \in DOMAIN table.rates
                      /\ f[2] # 0 => table.long # None /\ table.long.above = f[2]
                      /\ r # NaN
                      /\ Catalog!Price(table, f) * r = e.rates[f] * Unit * Unit * Unit
  BY Zenon DEF Catalog!Quotes
<1>2. Catalog!EmbeddingRenders(e) /\ Catalog!Positive(base, input)
  BY Zenon DEF Catalog!EmbeddingRatesCompare
<1>3. f = input /\ f \in DOMAIN e.rates /\ Catalog!Base(f) = input /\ f[3] = "standard"
  BY <1>2, EmbeddingIs DEF Catalog!Base
<1>4. /\ Catalog!LongContextIsRegular(e, {}) /\ Catalog!LongContext(e, {}) = None
      /\ input \in Catalog!BaseFields(e, {"input"})
  BY <1>2, EmbeddingIs
<1>5. /\ table.long = Catalog!LongContext(base, {})
      /\ input \in DOMAIN table.rates /\ table.rates[input] = base.rates[input] * Unit
  BY EmbeddingIs
<1>6. r = Catalog!Ratio(e.rates[input], base.rates[input])
  BY <1>4, Zenon
<1> HIDE DEF table, input
<1>7. QED
  BY <1>2, <1>3, <1>4, <1>5, <1>6, RegionalQuoteIs

LEMMA RegionalAnthropicQuotes ==
  ASSUME NEW e, EntryOk(e), NEW base, EntryOk(base), NEW r, Catalog!AnthropicRatesCompare(e, base),
         \A f \in Catalog!BaseFields(e, Catalog!AnthropicRates) : r = Catalog!Ratio(e.rates[f], base.rates[f])
  PROVE  Catalog!Quotes(e, Catalog!AnthropicTable(base, FALSE),
           Catalog!FieldsOf(e, Catalog!AnthropicRates, {"standard"}), r)
<1> DEFINE table == Catalog!AnthropicTable(base, FALSE)
<1>1. /\ \A f \in Catalog!BaseFields(e, Catalog!AnthropicRates) : Catalog!Positive(base, f)
      /\ Catalog!LongContextIsRegular(e, {})
      /\ Catalog!LongContext(e, {}) \in {None, Catalog!LongContext(base, {})}
  BY Zenon DEF Catalog!AnthropicRatesCompare
<1>2. /\ table.long = Catalog!LongContext(base, {})
      /\ DOMAIN table.rates = Catalog!AnthropicFields(base, FALSE)
      /\ \A f \in Catalog!AnthropicFields(base, FALSE) :
           f # Catalog!HourWrite("batches") => table.rates[f] = base.rates[f] * Unit
  BY DEF Catalog!AnthropicTable
<1>3. \A f \in DOMAIN base.rates :
        f[2] = 0 /\ f[1] \in Catalog!AnthropicRates /\ f[3] = "standard"
        => f \in Catalog!AnthropicFields(base, FALSE) /\ f # Catalog!HourWrite("batches")
  BY DEF Catalog!AnthropicFields, Catalog!BaseRates, Catalog!Listed, Catalog!HourWrite
<1> HIDE DEF table
<1>4. SUFFICES ASSUME NEW f \in Catalog!FieldsOf(e, Catalog!AnthropicRates, {"standard"})
                                  \intersect Catalog!Listed(e)
               PROVE  /\ Catalog!Base(f) \in DOMAIN table.rates
                      /\ f[2] # 0 => table.long # None /\ table.long.above = f[2]
                      /\ r # NaN
                      /\ Catalog!Price(table, f) * r = e.rates[f] * Unit * Unit * Unit
  BY Zenon DEF Catalog!Quotes, table
<1>5. f \in DOMAIN e.rates /\ f[1] \in Catalog!AnthropicRates /\ f[3] = "standard"
  BY DEF Catalog!FieldsOf, Catalog!Listed
<1>6. /\ Catalog!Base(f)[1] = f[1] /\ Catalog!Base(f)[2] = 0 /\ Catalog!Base(f)[3] = f[3]
  BY <1>5, BaseIs
<1>7. Catalog!Base(f) \in DOMAIN e.rates => Catalog!Base(f) \in Catalog!BaseFields(e, Catalog!AnthropicRates)
  BY <1>5, <1>6 DEF Catalog!BaseFields, Catalog!Listed
<1>8. Catalog!Base(f) \in DOMAIN e.rates =>
         /\ Catalog!Positive(base, Catalog!Base(f))
         /\ r = Catalog!Ratio(e.rates[Catalog!Base(f)], base.rates[Catalog!Base(f)])
         /\ Catalog!Base(f) \in DOMAIN base.rates
  BY <1>1, <1>7, Zenon DEF Catalog!Positive, Catalog!Listed
<1>9. Catalog!Base(f) \in DOMAIN e.rates =>
         /\ Catalog!Base(f) \in DOMAIN table.rates
         /\ table.rates[Catalog!Base(f)] = base.rates[Catalog!Base(f)] * Unit
  BY <1>2, <1>3, <1>5, <1>6, <1>8
<1>10. Catalog!Base(f) \in DOMAIN e.rates =>
          /\ Catalog!Positive(base, Catalog!Base(f))
          /\ r = Catalog!Ratio(e.rates[Catalog!Base(f)], base.rates[Catalog!Base(f)])
          /\ Catalog!Base(f) \in DOMAIN table.rates
          /\ table.rates[Catalog!Base(f)] = base.rates[Catalog!Base(f)] * Unit
  BY <1>8, <1>9, Zenon
<1>11. table.long = Catalog!LongContext(base, {}) /\ f \in DOMAIN e.rates /\ f[3] = "standard"
  BY <1>2, <1>5
<1>12. /\ Catalog!LongContextIsRegular(e, {})
       /\ Catalog!LongContext(e, {}) \in {None, Catalog!LongContext(base, {})}
  BY <1>1
<1>13. QED
  BY <1>10, <1>11, <1>12, RegionalQuoteIs
(* A region's multiplier is the ratio of each rate listed for it.          *)
LEMMA MultiplierIs ==
  ASSUME listing \in Upstreams, NEW prefix, NEW keys, IsFiniteSet(keys), NEW rates,
         \A key \in Catalog!Regional(prefix, keys) :
           /\ <<"", key>> \in DOMAIN listing
           /\ \A f \in Catalog!BaseFields(listing[<<prefix, key>>], rates) :
                Catalog!Positive(listing[<<"", key>>], f),
         Catalog!OneRegionalRatio(prefix, keys, rates)
  PROVE  /\ \A key \in Catalog!Regional(prefix, keys) :
              \A f \in Catalog!BaseFields(listing[<<prefix, key>>], rates) :
                Catalog!CrossRegionMultiplier(prefix, keys, rates)
                  = Catalog!Ratio(listing[<<prefix, key>>].rates[f], listing[<<"", key>>].rates[f])
         /\ Catalog!CrossRegionMultiplier(prefix, keys, rates) = NaN <=>
              \A key \in Catalog!Regional(prefix, keys) :
                Catalog!BaseFields(listing[<<prefix, key>>], rates) = {}
<1> DEFINE regional == Catalog!Regional(prefix, keys)
           fields(key) == Catalog!BaseFields(listing[<<prefix, key>>], rates)
           ratio(key, f) == Catalog!Ratio(listing[<<prefix, key>>].rates[f], listing[<<"", key>>].rates[f])
           ratiosOf(key) == {ratio(key, f) : f \in fields(key)}
           ratios == Catalog!RegionalRatios(prefix, keys, rates)
           multiplier == Catalog!CrossRegionMultiplier(prefix, keys, rates)
<1>1. \A key \in regional : key \in keys /\ <<prefix, key>> \in DOMAIN listing
  BY DEF Catalog!Regional
<1>2. \A key \in regional : EntryOk(listing[<<prefix, key>>]) /\ EntryOk(listing[<<"", key>>])
  BY <1>1, CatalogConstants, Zenon
<1>3. ratios = UNION {ratiosOf(key) : key \in regional}
  BY Zenon DEF Catalog!RegionalRatios
<1>4. multiplier = IF ratios = {} THEN NaN ELSE CHOOSE r \in ratios : TRUE
  BY Zenon DEF Catalog!CrossRegionMultiplier
<1>5. \A key \in regional : \A f \in fields(key) :
        f \in DOMAIN listing[<<prefix, key>>].rates /\ f[2] = 0
  BY DEF Catalog!BaseFields, Catalog!Listed
<1>6. \A key \in regional : \A f \in fields(key) : ratio(key, f) \in Nat
  <2>1. SUFFICES ASSUME NEW key \in regional, NEW f \in fields(key)
                 PROVE  ratio(key, f) \in Nat
    BY Zenon
  <2> DEFINE e == listing[<<prefix, key>>]
             base == listing[<<"", key>>]
  <2>2. EntryOk(e) /\ EntryOk(base) /\ f \in DOMAIN e.rates /\ f[2] = 0
    BY <1>2, <1>5, <2>1, Zenon
  <2>3. f \in DOMAIN base.rates /\ base.rates[f] # 0
    BY <2>1, Zenon DEF Catalog!Positive, Catalog!Listed
  <2> HIDE DEF e, base
  <2>4. e.rates[f] \in Nat /\ base.rates[f] \in Nat \ {0} /\ Unit % base.rates[f] = 0
    BY <2>2, <2>3 DEF EntryOk
  <2>5. Catalog!Ratio(e.rates[f], base.rates[f]) \in Nat
    BY <2>4, RatioIs
  <2>6. QED
    BY <2>5, Zenon DEF e, base
<1>7. IsFiniteSet(ratios)
  <2>1. IsFiniteSet(regional)
    <3>1. regional \in SUBSET keys
      BY <1>1
    <3>2. QED
      BY <3>1, FS_Subset, Zenon
  <2>2. \A key \in regional : IsFiniteSet(ratiosOf(key))
    <3>1. SUFFICES ASSUME NEW key \in regional
                   PROVE  IsFiniteSet(ratiosOf(key))
      BY Zenon
    <3> DEFINE h == [f \in fields(key) |-> ratio(key, f)]
    <3>2. IsFiniteSet(fields(key))
      <4>1. IsFiniteSet(DOMAIN listing[<<prefix, key>>].rates)
        BY <1>2, <3>1, Zenon DEF EntryOk
      <4>2. fields(key) \in SUBSET DOMAIN listing[<<prefix, key>>].rates
        BY DEF Catalog!BaseFields, Catalog!Listed
      <4>3. QED
        BY <4>1, <4>2, FS_Subset, Zenon
    <3> HIDE DEF ratio, fields
    <3>3. DOMAIN h = fields(key) /\ {h[f] : f \in DOMAIN h} = ratiosOf(key)
      OBVIOUS
    <3> HIDE DEF h
    <3>4. QED
      BY <3>2, <3>3, ImageIsFinite, Zenon
  <2> DEFINE g == [key \in regional |-> ratiosOf(key)]
  <2> HIDE DEF ratio, fields, ratiosOf
  <2>3. DOMAIN g = regional /\ {g[key] : key \in DOMAIN g} = {ratiosOf(key) : key \in regional}
    OBVIOUS
  <2> HIDE DEF g
  <2>4. IsFiniteSet({ratiosOf(key) : key \in regional})
    BY <2>1, <2>3, ImageIsFinite, Zenon
  <2>5. \A R \in {ratiosOf(key) : key \in regional} : IsFiniteSet(R)
    BY <2>2, Zenon
  <2>6. QED
    BY <1>3, <2>4, <2>5, FS_UNION, Zenon
<1>8. \A x, y \in ratios : x = y
  <2>1. Catalog!Cardinality(ratios) <= 1
    BY Zenon DEF Catalog!OneRegionalRatio
  <2> HIDE DEF ratios
  <2>2. QED
    BY <1>7, <2>1, AtMostOne, Zenon
<1>9. \A key \in regional : \A f \in fields(key) : ratio(key, f) \in ratios
  <2>1. SUFFICES ASSUME NEW key \in regional, NEW f \in fields(key)
                 PROVE  ratio(key, f) \in ratios
    BY Zenon
  <2>2. ratio(key, f) \in ratiosOf(key)
    BY <2>1
  <2> HIDE DEF ratiosOf, ratio, regional
  <2>3. ratiosOf(key) \in {ratiosOf(k) : k \in regional}
    BY <2>1
  <2>4. QED
    BY <1>3, <2>2, <2>3
<1>10. \A r \in ratios : \E key \in regional : \E f \in fields(key) : r = ratio(key, f)
  BY <1>3, Zenon
<1> HIDE DEF regional, fields, ratio, ratios, multiplier
<1>11. \A key \in regional : \A f \in fields(key) : multiplier = ratio(key, f)
  <2>1. SUFFICES ASSUME NEW key \in regional, NEW f \in fields(key)
                 PROVE  multiplier = ratio(key, f)
    BY Zenon
  <2>2. ratio(key, f) \in ratios
    BY <1>9, <2>1, Zenon
  <2>3. multiplier = CHOOSE r \in ratios : TRUE
    BY <1>4, <2>2
  <2>4. (CHOOSE r \in ratios : TRUE) \in ratios
    BY <2>2, Zenon
  <2>5. QED
    BY <1>8, <2>2, <2>3, <2>4, Zenon
<1>12. multiplier = NaN <=> \A key \in regional : fields(key) = {}
  <2>1. ASSUME multiplier = NaN, NEW key \in regional
        PROVE  fields(key) = {}
    <3>1. \A f \in fields(key) : ratio(key, f) = NaN /\ ratio(key, f) \in Nat
      BY <1>6, <1>11, <2>1, Zenon
    <3>2. QED
      BY <3>1, CatalogConstants
  <2>2. ASSUME \A key \in regional : fields(key) = {}
        PROVE  multiplier = NaN
    <3>1. ratios = {}
      BY <1>10, <2>2
    <3>2. QED
      BY <1>4, <3>1
  <2>3. QED
    BY <2>1, <2>2, Zenon
<1>13. QED
  BY <1>11, <1>12, Zenon DEF regional, fields, ratio, multiplier
(* What a refresh renders quotes the listing and invents no price.         *)
Rendered == Catalog!EntriesAreSelected /\ Catalog!ModulesRender

LEMMA SelectedIs ==
  ASSUME listing \in Upstreams, Rendered
  PROVE  /\ \A key \in Catalog!SelectedKeys : <<"", key>> \in DOMAIN listing /\ EntryOk(listing[<<"", key>>])
         /\ \A key \in BedrockKeys : key \notin CohereKeys
         /\ \A key \in BedrockKeys : key \in Catalog!SelectedKeys
         /\ \A key \in CohereKeys : key \in Catalog!SelectedKeys /\ key \in Catalog!EmbeddingKeys
         /\ \A key \in Catalog!EmbeddingKeys : key \in Catalog!SelectedKeys
<1>1. \A key \in Catalog!SelectedKeys : <<"", key>> \in DOMAIN listing /\ EntryOk(listing[<<"", key>>])
  BY CatalogConstants, Zenon DEF Rendered, Catalog!EntriesAreSelected
<1>2. /\ \A key \in BedrockKeys : key \in Catalog!SelectedKeys
      /\ \A key \in CohereKeys : key \in Catalog!SelectedKeys /\ key \in Catalog!EmbeddingKeys
      /\ \A key \in Catalog!EmbeddingKeys : key \in Catalog!SelectedKeys
  BY DEF Catalog!SelectedKeys, Catalog!EmbeddingKeys
<1>3. ASSUME NEW key \in BedrockKeys, key \in CohereKeys
      PROVE  FALSE
  <2> DEFINE e == listing[<<"", key>>]
  <2>1. Catalog!AnthropicRenders(e, FALSE) /\ Catalog!EmbeddingRenders(e)
    BY <1>2, <1>3, Zenon DEF Rendered, Catalog!ModulesRender
  <2> HIDE DEF e
  <2>2. <<"read", 0, "standard">> \in Catalog!Listed(e)
    BY <2>1 DEF Catalog!AnthropicRenders, Catalog!Complete, Catalog!AnthropicRates, Catalog!OpenAIRates
  <2>3. \A f \in Catalog!Listed(e) : f[1] \in {"input", "output"}
    BY <2>1 DEF Catalog!EmbeddingRenders
  <2>4. QED
    BY <2>2, <2>3
<1>4. QED
  BY <1>1, <1>2, <1>3

LEMMA BedrockRegions ==
  ASSUME listing \in Upstreams, Rendered, NEW prefix \in Regions
  PROVE  /\ \A key \in Catalog!Regional(prefix, BedrockKeys) :
              /\ EntryOk(listing[<<prefix, key>>]) /\ EntryOk(listing[<<"", key>>])
              /\ Catalog!AnthropicRatesCompare(listing[<<prefix, key>>], listing[<<"", key>>])
              /\ \A f \in Catalog!BaseFields(listing[<<prefix, key>>], Catalog!AnthropicRates) :
                   Catalog!CrossRegionMultiplier(prefix, BedrockKeys, Catalog!AnthropicRates)
                     = Catalog!Ratio(listing[<<prefix, key>>].rates[f], listing[<<"", key>>].rates[f])
         /\ Catalog!CrossRegionMultiplier(prefix, BedrockKeys, Catalog!AnthropicRates) = NaN <=>
              \A key \in Catalog!Regional(prefix, BedrockKeys) :
                Catalog!BaseFields(listing[<<prefix, key>>], Catalog!AnthropicRates) = {}
<1>1. \A key \in Catalog!Regional(prefix, BedrockKeys) : key \in BedrockKeys /\ <<prefix, key>> \in DOMAIN listing
  BY DEF Catalog!Regional
<1>2. Catalog!RegionsRender(BedrockKeys, Catalog!AnthropicRates)
  BY Zenon DEF Rendered, Catalog!ModulesRender
<1>3. /\ \A key \in Catalog!Regional(prefix, BedrockKeys) :
           Catalog!AnthropicRatesCompare(listing[<<prefix, key>>], listing[<<"", key>>])
      /\ Catalog!OneRegionalRatio(prefix, BedrockKeys, Catalog!AnthropicRates)
  <2>1. \A key \in Catalog!Regional(prefix, BedrockKeys) : key \notin CohereKeys
    BY <1>1, SelectedIs, Zenon
  <2>2. QED
    BY <1>2, <2>1, Zenon DEF Catalog!RegionsRender, Catalog!RatesCompare
<1>4. \A key \in Catalog!Regional(prefix, BedrockKeys) :
        /\ EntryOk(listing[<<prefix, key>>]) /\ EntryOk(listing[<<"", key>>])
        /\ <<"", key>> \in DOMAIN listing
  BY <1>1, SelectedIs, CatalogConstants, Zenon
<1>5. \A key \in Catalog!Regional(prefix, BedrockKeys) :
        \A f \in Catalog!BaseFields(listing[<<prefix, key>>], Catalog!AnthropicRates) :
          Catalog!Positive(listing[<<"", key>>], f)
  BY <1>3, Zenon DEF Catalog!AnthropicRatesCompare
<1>6. IsFiniteSet(BedrockKeys)
  BY CatalogConstants, Zenon
<1>7. QED
  BY <1>3, <1>4, <1>5, <1>6, MultiplierIs, Zenon

LEMMA CohereRegions ==
  ASSUME listing \in Upstreams, Rendered, NEW prefix \in Regions
  PROVE  \A key \in Catalog!Regional(prefix, CohereKeys) :
           /\ EntryOk(listing[<<prefix, key>>]) /\ EntryOk(listing[<<"", key>>])
           /\ Catalog!EmbeddingRatesCompare(listing[<<prefix, key>>], listing[<<"", key>>])
           /\ \A f \in Catalog!BaseFields(listing[<<prefix, key>>], {"input"}) :
                Catalog!CrossRegionMultiplier(prefix, CohereKeys, {"input"})
                  = Catalog!Ratio(listing[<<prefix, key>>].rates[f], listing[<<"", key>>].rates[f])
<1>1. \A key \in Catalog!Regional(prefix, CohereKeys) : key \in CohereKeys /\ <<prefix, key>> \in DOMAIN listing
  BY DEF Catalog!Regional
<1>2. Catalog!RegionsRender(CohereKeys, {"input"})
  BY Zenon DEF Rendered, Catalog!ModulesRender
<1>3. /\ \A key \in Catalog!Regional(prefix, CohereKeys) :
           Catalog!EmbeddingRatesCompare(listing[<<prefix, key>>], listing[<<"", key>>])
      /\ Catalog!OneRegionalRatio(prefix, CohereKeys, {"input"})
  BY <1>1, <1>2, Zenon DEF Catalog!RegionsRender, Catalog!RatesCompare
<1>4. \A key \in Catalog!Regional(prefix, CohereKeys) :
        /\ EntryOk(listing[<<prefix, key>>]) /\ EntryOk(listing[<<"", key>>])
        /\ <<"", key>> \in DOMAIN listing
  BY <1>1, SelectedIs, CatalogConstants, Zenon
<1>5. \A key \in Catalog!Regional(prefix, CohereKeys) :
        \A f \in Catalog!BaseFields(listing[<<prefix, key>>], {"input"}) :
          Catalog!Positive(listing[<<"", key>>], f)
  <2>1. SUFFICES ASSUME NEW key \in Catalog!Regional(prefix, CohereKeys),
                        NEW f \in Catalog!BaseFields(listing[<<prefix, key>>], {"input"})
                 PROVE  Catalog!Positive(listing[<<"", key>>], f)
    BY Zenon
  <2> DEFINE e == listing[<<prefix, key>>]
             base == listing[<<"", key>>]
  <2>2. Catalog!EmbeddingRenders(e) /\ Catalog!Positive(base, <<"input", 0, "standard">>)
    BY <1>3, Zenon DEF Catalog!EmbeddingRatesCompare
  <2>3. EntryOk(e)
    BY <1>4, Zenon
  <2>4. f \in Catalog!BaseFields(e, {"input"})
    BY <2>1, Zenon
  <2> HIDE DEF e, base
  <2>5. f = <<"input", 0, "standard">>
    BY <2>2, <2>3, <2>4, EmbeddingIs
  <2>6. QED
    BY <2>2, <2>5 DEF base
<1>6. IsFiniteSet(CohereKeys)
  BY CatalogConstants, Zenon
<1>7. QED
  BY <1>3, <1>4, <1>5, <1>6, MultiplierIs, Zenon

LEMMA RenderedQuotes ==
  ASSUME listing \in Upstreams, Rendered
  PROVE  Catalog!QuotesAreListed
<1> DEFINE StandardOf(e) == Catalog!FieldsOf(e, Catalog!AnthropicRates, {"standard"})
<1>1. ASSUME NEW key \in OpenAIKeys
      PROVE  /\ Catalog!Quotes(listing[<<"", key>>], Catalog!OpenAITable(listing[<<"", key>>]),
                  Catalog!FieldsOf(listing[<<"", key>>], Catalog!OpenAIRates,
                    Catalog!OpenAIRenderedTiers \union {"standard"}), Unit)
             /\ \A size \in DOMAIN listing[<<"", key>>].search :
                  Catalog!OpenAITable(listing[<<"", key>>]).search = listing[<<"", key>>].search[size]
  <2>1. key \in Catalog!SelectedKeys
    BY DEF Catalog!SelectedKeys
  <2>2. EntryOk(listing[<<"", key>>]) /\ Catalog!OpenAIRenders(listing[<<"", key>>])
    BY <1>1, <2>1, SelectedIs, Zenon DEF Rendered, Catalog!ModulesRender
  <2>3. QED
    BY <2>2, OpenAIQuotes, Zenon
<1>2. ASSUME NEW key \in AnthropicKeys
      PROVE  Catalog!Quotes(listing[<<"", key>>], Catalog!AnthropicTable(listing[<<"", key>>], TRUE),
               StandardOf(listing[<<"", key>>])
                 \union Catalog!FieldsOf(listing[<<"", key>>], Catalog!OpenAIRates, {"batches"}), Unit)
  <2>1. key \in Catalog!SelectedKeys
    BY DEF Catalog!SelectedKeys
  <2>2. EntryOk(listing[<<"", key>>]) /\ Catalog!AnthropicRenders(listing[<<"", key>>], TRUE)
    BY <1>2, <2>1, SelectedIs, Zenon DEF Rendered, Catalog!ModulesRender
  <2> DEFINE direct == TRUE
  <2>3. direct \in BOOLEAN /\ Catalog!AnthropicRenders(listing[<<"", key>>], direct)
    BY <2>2
  <2>4. (IF direct THEN Catalog!FieldsOf(listing[<<"", key>>], Catalog!OpenAIRates, {"batches"}) ELSE {})
           = Catalog!FieldsOf(listing[<<"", key>>], Catalog!OpenAIRates, {"batches"})
    OBVIOUS
  <2> DEFINE chosen == IF direct THEN Catalog!FieldsOf(listing[<<"", key>>], Catalog!OpenAIRates, {"batches"}) ELSE {}
  <2>5. Catalog!Quotes(listing[<<"", key>>], Catalog!AnthropicTable(listing[<<"", key>>], direct),
               StandardOf(listing[<<"", key>>]) \union chosen, Unit)
    BY <2>2, <2>3, AnthropicQuotes
  <2>6. QED
    BY <2>4, <2>5
<1>3. ASSUME NEW key \in BedrockKeys
      PROVE  /\ Catalog!Quotes(listing[<<"", key>>], Catalog!AnthropicTable(listing[<<"", key>>], FALSE),
                  StandardOf(listing[<<"", key>>]), Unit)
             /\ \A prefix \in Regions : key \in Catalog!Regional(prefix, BedrockKeys) =>
                  Catalog!Quotes(listing[<<prefix, key>>], Catalog!AnthropicTable(listing[<<"", key>>], FALSE),
                    StandardOf(listing[<<prefix, key>>]),
                    Catalog!CrossRegionMultiplier(prefix, BedrockKeys, Catalog!AnthropicRates))
  <2>1. EntryOk(listing[<<"", key>>]) /\ Catalog!AnthropicRenders(listing[<<"", key>>], FALSE)
    BY <1>3, SelectedIs, Zenon DEF Rendered, Catalog!ModulesRender
  <2> DEFINE direct == FALSE
             chosen == IF direct THEN Catalog!FieldsOf(listing[<<"", key>>], Catalog!OpenAIRates, {"batches"}) ELSE {}
  <2>2. direct \in BOOLEAN /\ Catalog!AnthropicRenders(listing[<<"", key>>], direct)
    BY <2>1
  <2>3. StandardOf(listing[<<"", key>>]) \union chosen = StandardOf(listing[<<"", key>>])
    OBVIOUS
  <2>4. Catalog!Quotes(listing[<<"", key>>], Catalog!AnthropicTable(listing[<<"", key>>], direct),
               StandardOf(listing[<<"", key>>]) \union chosen, Unit)
    BY <2>1, <2>2, AnthropicQuotes
  <2>5. ASSUME NEW prefix \in Regions, key \in Catalog!Regional(prefix, BedrockKeys)
        PROVE  Catalog!Quotes(listing[<<prefix, key>>], Catalog!AnthropicTable(listing[<<"", key>>], FALSE),
                 StandardOf(listing[<<prefix, key>>]),
                 Catalog!CrossRegionMultiplier(prefix, BedrockKeys, Catalog!AnthropicRates))
    BY <2>5, BedrockRegions, RegionalAnthropicQuotes, Zenon
  <2>6. QED
    BY <2>3, <2>4, <2>5
<1>4. ASSUME NEW key \in Catalog!EmbeddingKeys
      PROVE  /\ Catalog!Quotes(listing[<<"", key>>], Catalog!EmbeddingTable(listing[<<"", key>>]),
                  Sent(listing[<<"", key>>]), Unit)
             /\ \A prefix \in Regions : key \in Catalog!Regional(prefix, CohereKeys) =>
                  Catalog!Quotes(listing[<<prefix, key>>], Catalog!EmbeddingTable(listing[<<"", key>>]),
                    Sent(listing[<<prefix, key>>]),
                    Catalog!CrossRegionMultiplier(prefix, CohereKeys, {"input"}))
  <2>1. EntryOk(listing[<<"", key>>]) /\ Catalog!EmbeddingRenders(listing[<<"", key>>])
    BY <1>4, SelectedIs, Zenon DEF Rendered, Catalog!ModulesRender
  <2>2. Catalog!Quotes(listing[<<"", key>>], Catalog!EmbeddingTable(listing[<<"", key>>]),
                  Sent(listing[<<"", key>>]), Unit)
    BY <2>1, EmbeddingQuotes, Zenon
  <2>3. ASSUME NEW prefix \in Regions, key \in Catalog!Regional(prefix, CohereKeys)
        PROVE  Catalog!Quotes(listing[<<prefix, key>>], Catalog!EmbeddingTable(listing[<<"", key>>]),
                 Sent(listing[<<prefix, key>>]),
                 Catalog!CrossRegionMultiplier(prefix, CohereKeys, {"input"}))
    BY <2>1, <2>3, CohereRegions, RegionalEmbeddingQuotes, Zenon
  <2>4. QED
    BY <2>2, <2>3, Zenon
<1>5. QED
  BY <1>1, <1>2, <1>3, <1>4, Zenon DEF Catalog!QuotesAreListed, Sent

LEMMA RenderedInventsNothing ==
  ASSUME listing \in Upstreams, Rendered
  PROVE  Catalog!NothingIsInvented
<1>1. ASSUME NEW key \in OpenAIKeys
      PROVE  \A f \in DOMAIN Catalog!OpenAITable(listing[<<"", key>>]).rates : \A r \in Catalog!OpenAIRates :
               <<r, 0, f[3]>> \in DOMAIN Catalog!OpenAITable(listing[<<"", key>>]).rates
  <2>1. key \in Catalog!SelectedKeys
    BY DEF Catalog!SelectedKeys
  <2>2. EntryOk(listing[<<"", key>>]) /\ Catalog!OpenAIRenders(listing[<<"", key>>])
    BY <1>1, <2>1, SelectedIs, Zenon DEF Rendered, Catalog!ModulesRender
  <2>3. QED
    BY <2>2, OpenAIQuotes, Zenon
<1>2. ASSUME NEW key \in AnthropicKeys
      PROVE  EntryOk(listing[<<"", key>>]) /\ Catalog!AnthropicRenders(listing[<<"", key>>], TRUE)
  <2>1. key \in Catalog!SelectedKeys
    BY DEF Catalog!SelectedKeys
  <2>2. QED
    BY <1>2, <2>1, SelectedIs, Zenon DEF Rendered, Catalog!ModulesRender
<1>3. \A prefix \in Regions :
        Catalog!CrossRegionMultiplier(prefix, BedrockKeys, Catalog!AnthropicRates) = NaN <=>
          \A key \in Catalog!Regional(prefix, BedrockKeys) :
            Catalog!BaseFields(listing[<<prefix, key>>], Catalog!AnthropicRates) = {}
  BY BedrockRegions, Zenon
<1>4. QED
  BY <1>1, <1>2, <1>3, HourWriteIs, Zenon DEF Catalog!NothingIsInvented
-----------------------------------------------------------------------------
(***************************************************************************)
(* The refresh: it writes the files one after the other, and only what was *)
(* rendered.                                                               *)
(***************************************************************************)
FileNames == {"snapshot", "openai", "anthropic", "cohere"}

CatalogInv ==
  /\ listing \in Upstreams
  /\ refresh \in {"downloading", "writing", "raised", "written"}
  /\ filesWritten \in 0..4 /\ (refresh = "writing" => filesWritten # 4)
  /\ catalogue \in [FileNames -> {"old", "torn", "new"}]
  /\ \A k \in 1..4 : catalogue[Catalog!Files[k]] = "new" <=> k <= filesWritten
  /\ refresh \in {"writing", "written"} => Rendered
  /\ (\E file \in FileNames : catalogue[file] # "old") => Rendered
  /\ refresh = "downloading" => \A file \in FileNames : catalogue[file] = "old"
  /\ refresh = "raised" => \/ \A file \in FileNames : catalogue[file] = "old"
                           \/ \E file \in FileNames : catalogue[file] = "torn"

LEMMA FilesAre ==
  /\ Len(Catalog!Files) = 4 /\ Catalog!ToSet(Catalog!Files) = FileNames
  /\ \A k \in 1..4 : Catalog!Files[k] \in FileNames
  /\ \A k, l \in 1..4 : Catalog!Files[k] = Catalog!Files[l] => k = l
  /\ \A file \in FileNames : \E k \in 1..4 : file = Catalog!Files[k]
<1> DEFINE names == <<"snapshot", "openai", "anthropic", "cohere">>
<1>1. /\ names[1] = "snapshot" /\ names[2] = "openai" /\ names[3] = "anthropic" /\ names[4] = "cohere"
      /\ Len(names) = 4 /\ DOMAIN names = 1..4
  OBVIOUS
<1> HIDE DEF names
<1>2. \A k \in 1..4 : k = 1 \/ k = 2 \/ k = 3 \/ k = 4
  OBVIOUS
<1>3. \A k \in 1..4 : names[k] \in FileNames
  BY <1>1, <1>2 DEF FileNames
<1>4. \A k, l \in 1..4 : names[k] = names[l] => k = l
  BY <1>1, <1>2
<1>5. \A file \in FileNames : \E k \in 1..4 : file = names[k]
  BY <1>1 DEF FileNames
<1>6. Catalog!ToSet(names) = FileNames
  BY <1>1, <1>3, <1>5 DEF Catalog!ToSet
<1>7. names = Catalog!Files
  BY DEF names, Catalog!Files
<1>8. QED
  BY <1>1, <1>3, <1>4, <1>5, <1>6, <1>7

RatiosIn(upstream, regional, prefix, rates) ==
  UNION {{Catalog!Ratio(upstream[<<prefix, key>>].rates[f], upstream[<<"", key>>].rates[f]) :
            f \in Catalog!BaseFields(upstream[<<prefix, key>>], rates)} : key \in regional}

LEMMA RenderedStays == listing' = listing /\ Rendered => Rendered'
<1>1. SUFFICES ASSUME listing' = listing, Rendered
               PROVE  Rendered'
  OBVIOUS
<1>2. Catalog!EntriesAreSelected'
  BY <1>1, Zenon DEF Rendered, Catalog!EntriesAreSelected
<1>3. \A prefix, keys : Catalog!Regional(prefix, keys)' = Catalog!Regional(prefix, keys)
  BY <1>1, Zenon DEF Catalog!Regional
<1>4. \A prefix, keys, rates : Catalog!RegionalRatios(prefix, keys, rates)' = Catalog!RegionalRatios(prefix, keys, rates)
  <2>1. SUFFICES ASSUME NEW prefix, NEW keys, NEW rates
                 PROVE  Catalog!RegionalRatios(prefix, keys, rates)' = Catalog!RegionalRatios(prefix, keys, rates)
    BY Zenon
  <2>2. Catalog!RegionalRatios(prefix, keys, rates)
           = RatiosIn(listing, Catalog!Regional(prefix, keys), prefix, rates)
    BY Zenon DEF Catalog!RegionalRatios, RatiosIn
  <2>3. Catalog!RegionalRatios(prefix, keys, rates)'
           = RatiosIn(listing', Catalog!Regional(prefix, keys)', prefix, rates)
    BY Zenon DEF Catalog!RegionalRatios, RatiosIn
  <2>4. QED
    BY <1>1, <1>3, <2>2, <2>3, Zenon
<1>5. \A keys, rates : Catalog!RegionsRender(keys, rates) => Catalog!RegionsRender(keys, rates)'
  BY <1>1, <1>3, <1>4, Zenon DEF Catalog!RegionsRender, Catalog!OneRegionalRatio
<1>6. Catalog!ModulesRender'
  BY <1>1, <1>5, Zenon DEF Rendered, Catalog!ModulesRender
<1>7. QED
  BY <1>2, <1>6, Zenon DEF Rendered

LEMMA CatalogStarts == Catalog!Init => CatalogInv
<1>1. SUFFICES ASSUME Catalog!Init
               PROVE  CatalogInv
  OBVIOUS
<1>2. /\ listing \in Upstreams /\ refresh = "downloading" /\ filesWritten = 0
      /\ catalogue = [file \in FileNames |-> "old"]
  BY <1>1, FilesAre, Zenon DEF Catalog!Init
<1>3. \A k \in 1..4 : catalogue[Catalog!Files[k]] = "old"
  BY <1>2, FilesAre
<1>4. QED
  BY <1>2, <1>3 DEF CatalogInv

(* A refresh that has written nothing yet ends or goes on to write.        *)
LEMMA DownloadKeeps == CatalogInv /\ (Catalog!DownloadFails \/ Catalog!Render) => CatalogInv'
<1>1. SUFFICES ASSUME CatalogInv, Catalog!DownloadFails \/ Catalog!Render
               PROVE  CatalogInv'
  OBVIOUS
<1>2. /\ refresh = "downloading" /\ listing' = listing /\ filesWritten' = filesWritten /\ catalogue' = catalogue
      /\ refresh' \in {"raised", "writing"} /\ (refresh' = "writing" => Rendered)
  BY <1>1 DEF Catalog!DownloadFails, Catalog!Render, Rendered
<1>3. \A file \in FileNames : catalogue[file] = "old"
  BY <1>1, <1>2 DEF CatalogInv
<1>4. filesWritten = 0
  <2>1. catalogue[Catalog!Files[1]] = "old"
    BY <1>3, FilesAre
  <2>2. ~(1 <= filesWritten) /\ filesWritten \in 0..4
    BY <1>1, <2>1 DEF CatalogInv
  <2>3. QED
    BY <2>2
<1>5. refresh' \in {"writing", "written"} => Rendered'
  <2>1. refresh' \in {"writing", "written"} => Rendered
    BY <1>2
  <2>2. QED
    BY <1>2, <2>1, RenderedStays, Zenon
<1>6. QED
  BY <1>1, <1>2, <1>3, <1>4, <1>5 DEF CatalogInv

LEMMA WriteKeeps == CatalogInv /\ (Catalog!Write \/ Catalog!WriteFails) => CatalogInv'
<1>1. SUFFICES ASSUME CatalogInv, Catalog!Write \/ Catalog!WriteFails
               PROVE  CatalogInv'
  OBVIOUS
<1> DEFINE next == Catalog!Files[filesWritten + 1]
<1>2. /\ refresh = "writing" /\ listing' = listing
      /\ \/ /\ catalogue' = [catalogue EXCEPT ![next] = "new"] /\ filesWritten' = filesWritten + 1
            /\ refresh' = IF filesWritten' = 4 THEN "written" ELSE "writing"
         \/ /\ catalogue' = [catalogue EXCEPT ![next] = "torn"] /\ filesWritten' = filesWritten
            /\ refresh' = "raised"
  BY <1>1, FilesAre DEF Catalog!Write, Catalog!WriteFails
<1>3. /\ listing \in Upstreams /\ filesWritten \in 0..4 /\ filesWritten # 4
      /\ catalogue \in [FileNames -> {"old", "torn", "new"}]
      /\ \A k \in 1..4 : catalogue[Catalog!Files[k]] = "new" <=> k <= filesWritten
      /\ Rendered
  BY <1>1, <1>2 DEF CatalogInv
<1>4. filesWritten + 1 \in 1..4
  BY <1>3
<1>5. next \in FileNames
  BY <1>4, FilesAre
<1>6. \A k \in 1..4 : Catalog!Files[k] = next <=> k = filesWritten + 1
  BY <1>4, FilesAre
<1>7. \A k \in 1..4 : Catalog!Files[k] \in FileNames
  BY FilesAre
<1> HIDE DEF next
<1>8. Rendered'
  BY <1>2, <1>3, RenderedStays, Zenon
<1>9. CASE /\ catalogue' = [catalogue EXCEPT ![next] = "new"] /\ filesWritten' = filesWritten + 1
           /\ refresh' = IF filesWritten' = 4 THEN "written" ELSE "writing"
  <2>1. \A k \in 1..4 : catalogue'[Catalog!Files[k]] = "new" <=> k <= filesWritten'
    BY <1>3, <1>5, <1>6, <1>7, <1>9
  <2>2. /\ filesWritten' \in 0..4 /\ refresh' \in {"writing", "written"}
        /\ refresh' = "writing" => filesWritten' # 4
        /\ catalogue' \in [FileNames -> {"old", "torn", "new"}]
    BY <1>3, <1>4, <1>5, <1>9
  <2>3. QED
    BY <1>2, <1>3, <1>8, <2>1, <2>2 DEF CatalogInv
<1>10. CASE /\ catalogue' = [catalogue EXCEPT ![next] = "torn"] /\ filesWritten' = filesWritten
            /\ refresh' = "raised"
  <2>1. \A k \in 1..4 : catalogue'[Catalog!Files[k]] = "new" <=> k <= filesWritten'
    BY <1>3, <1>5, <1>6, <1>7, <1>10
  <2>2. /\ catalogue' \in [FileNames -> {"old", "torn", "new"}]
        /\ \E file \in FileNames : catalogue'[file] = "torn"
    BY <1>3, <1>5, <1>10
  <2>3. QED
    BY <1>2, <1>3, <1>8, <1>10, <2>1, <2>2 DEF CatalogInv
<1>11. QED
  BY <1>2, <1>9, <1>10

LEMMA CatalogStutters == CatalogInv /\ UNCHANGED catalogVars => CatalogInv'
<1>1. SUFFICES ASSUME CatalogInv, UNCHANGED catalogVars
               PROVE  CatalogInv'
  OBVIOUS
<1>2. listing' = listing /\ refresh' = refresh /\ filesWritten' = filesWritten /\ catalogue' = catalogue
  BY <1>1 DEF catalogVars
<1>3. Rendered => Rendered'
  BY <1>2, RenderedStays
<1>4. QED
  BY <1>1, <1>2, <1>3 DEF CatalogInv

LEMMA CatalogSteps == CatalogInv /\ Catalog!Next => CatalogInv'
<1>1. SUFFICES ASSUME CatalogInv, Catalog!Next
               PROVE  CatalogInv'
  OBVIOUS
<1>2. CASE Catalog!Rest
  <2>1. UNCHANGED catalogVars
    BY <1>2 DEF Catalog!Rest, Catalog!vars, catalogVars
  <2>2. QED
    BY <1>1, <2>1, CatalogStutters
<1>3. QED
  BY <1>1, <1>2, DownloadKeeps, WriteKeeps DEF Catalog!Next

(* As many files are new as were written.                                  *)
LEMMA NewFiles ==
  ASSUME CatalogInv
  PROVE  Catalog!Cardinality({file \in FileNames : catalogue[file] = "new"}) = filesWritten
<1> DEFINE new == {file \in FileNames : catalogue[file] = "new"}
           place == [k \in 1..filesWritten |-> Catalog!Files[k]]
<1>1. /\ filesWritten \in Nat /\ filesWritten <= 4
      /\ \A k \in 1..4 : catalogue[Catalog!Files[k]] = "new" <=> k <= filesWritten
  BY DEF CatalogInv
<1>2. \A k \in 1..filesWritten : k \in 1..4 /\ Catalog!Files[k] \in new
  BY <1>1, FilesAre
<1>3. \A file \in new : \E k \in 1..filesWritten : Catalog!Files[k] = file
  <2>1. SUFFICES ASSUME NEW file \in new
                 PROVE  \E k \in 1..filesWritten : Catalog!Files[k] = file
    BY Zenon
  <2>2. PICK k \in 1..4 : file = Catalog!Files[k]
    BY <2>1, FilesAre
  <2>3. k \in 1..filesWritten
    BY <1>1, <2>1, <2>2
  <2>4. QED
    BY <2>2, <2>3
<1> HIDE DEF new
<1>4. place \in Surjection(1..filesWritten, new) /\ place \in Injection(1..filesWritten, new)
  <2>1. place \in [1..filesWritten -> new]
    BY <1>2
  <2>2. \A k, l \in 1..filesWritten : place[k] = place[l] => k = l
    <3>1. \A k \in 1..filesWritten : k \in 1..4 /\ place[k] = Catalog!Files[k]
      BY <1>2
    <3> HIDE DEF place
    <3>2. QED
      BY <3>1, FilesAre, Zenon
  <2>3. \A file \in new : \E k \in 1..filesWritten : place[k] = file
    BY <1>3
  <2> HIDE DEF place
  <2>4. QED
    BY <2>1, <2>2, <2>3 DEF Surjection, Injection, IsInjective
<1>5. IsFiniteSet(1..filesWritten) /\ Cardinality(1..filesWritten) = filesWritten
  <2>1. 1 \in Int /\ filesWritten \in Int
    BY <1>1
  <2>2. /\ IsFiniteSet(1..filesWritten)
        /\ Cardinality(1..filesWritten) = IF 1 > filesWritten THEN 0 ELSE filesWritten - 1 + 1
    BY ONLY <2>1, FS_Interval, Zenon
  <2>3. QED
    BY <1>1, <2>2
<1> HIDE DEF place
<1>6. Cardinality(new) = filesWritten
  BY <1>4, <1>5, FS_Surjection, Zenon
<1>7. QED
  BY <1>6, CatalogSets, Zenon DEF new

LEMMA CatalogTells == CatalogInv => /\ Catalog!TypeOK /\ Catalog!QuotesAreListed
                                    /\ Catalog!NothingIsInvented /\ Catalog!RefreshIsWhole
<1>1. SUFFICES ASSUME CatalogInv
               PROVE  /\ Catalog!TypeOK /\ Catalog!QuotesAreListed
                      /\ Catalog!NothingIsInvented /\ Catalog!RefreshIsWhole
  OBVIOUS
<1>2. Catalog!TypeOK
  <2>1. /\ refresh \in {"downloading", "writing", "raised", "written"} /\ filesWritten \in 0..4
        /\ catalogue \in [FileNames -> {"old", "torn", "new"}]
    BY <1>1 DEF CatalogInv
  <2>2. filesWritten \in 0..Len(Catalog!Files)
    BY <2>1, FilesAre
  <2>3. filesWritten = Catalog!Cardinality({file \in Catalog!ToSet(Catalog!Files) : catalogue[file] = "new"})
    BY <1>1, NewFiles, FilesAre
  <2>4. catalogue \in [Catalog!ToSet(Catalog!Files) -> {"old", "torn", "new"}]
    BY <2>1, FilesAre
  <2>5. QED
    BY <2>1, <2>2, <2>3, <2>4, Zenon DEF Catalog!TypeOK
<1>3. Catalog!Refreshed => listing \in Upstreams /\ Rendered
  BY <1>1 DEF CatalogInv, Catalog!Refreshed
<1>4. Catalog!QuotesAreListed
  BY <1>3, RenderedQuotes, Zenon DEF Catalog!QuotesAreListed
<1>5. Catalog!NothingIsInvented
  BY <1>3, RenderedInventsNothing, Zenon DEF Catalog!NothingIsInvented
<1>6. Catalog!RefreshIsWhole
  <2>1. DOMAIN catalogue = FileNames
    BY <1>1 DEF CatalogInv
  <2>2. QED
    BY <1>1, <2>1 DEF CatalogInv, Catalog!RefreshIsWhole, Rendered
<1>7. QED
  BY <1>2, <1>4, <1>5, <1>6

(***************************************************************************)
(* Whatever LiteLLM lists and wherever the refresh stops: the modules it   *)
(* writes bill each request, in every tier, above the long-context         *)
(* threshold and under a cross-region prefix, at exactly the listed price, *)
(* hold no price that is not derived from one, and are written only if all *)
(* of them can be rendered.                                                *)
(***************************************************************************)
THEOREM CatalogQuotesTheListing == FamilySpec => []CatalogIsTheListing
<1> DEFINE Inv == running = "catalog" => CatalogInv
<1>1. FamilyInit => Inv
  BY CatalogStarts DEF FamilyInit
<1>2. Inv /\ [FamilyNext]_familyVars => Inv'
  <2>1. SUFFICES ASSUME Inv, [FamilyNext]_familyVars, running = "catalog"
                 PROVE  CatalogInv'
    BY RunningStays
  <2>2. CASE Catalog!Next
    BY <2>1, <2>2, CatalogSteps
  <2>3. CASE UNCHANGED familyVars
    BY <2>1, <2>3, CatalogStutters DEF familyVars
  <2>4. QED
    BY <2>1, <2>2, <2>3 DEF FamilyNext
<1>3. Inv => CatalogIsTheListing
  BY CatalogTells DEF CatalogIsTheListing
<1> HIDE DEF Inv
<1>4. QED
  BY <1>1, <1>2, <1>3, PTL DEF FamilySpec
=============================================================================
