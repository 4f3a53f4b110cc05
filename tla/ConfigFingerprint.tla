-------------------------- MODULE ConfigFingerprint --------------------------
(***************************************************************************)
(* _Canonicalizer: the walk over configuration values that encodes them    *)
(* for the fingerprint of a resume file.  One canonicalizer walks several  *)
(* values in turn; the recursion of value() is a stack.                    *)
(*                                                                         *)
(* Values are objects with an identity, in a heap: shared between          *)
(* containers, perhaps cyclic.  Sets are iterated in any order, which      *)
(* differs between the processes that write and read the file.             *)
(***************************************************************************)
EXTENDS Naturals, SequencesExt

CONSTANTS
  Containers,   \* identities of containers
  Scalars,      \* identities of the other values
  Heaps,        \* the heaps: a kind and an inside for each identity
  Roots         \* the values encoded one after the other

RootAssumption == Roots \in Seq(Containers)

(* The inside of a sequence or set are identities, that of a mapping pairs *)
(* of a key and an identity, that of a scalar its text.  "other" is a type *)
(* without an encoding, a float that is not finite, or such a key.         *)
SequenceKinds == {"list", "tuple"}
SetKinds == {"set", "frozenset"}
Keys == <<"k1", "k2">>   \* in their order

VARIABLES
  heap,
  stack,     \* one frame per container being encoded
  active,    \* _active_container_ids
  codes,     \* the encodings of the roots walked so far
  result     \* "running", "returned", "raised"

vars == <<heap, stack, active, codes, result>>

Kind(o) == heap[o].kind
IsMapping(o) == Kind(o) = "mapping"
Children(o) ==
  IF o \in Scalars THEN {}
  ELSE IF IsMapping(o) THEN {heap[o].inside[i][2] : i \in DOMAIN heap[o].inside}
  ELSE ToSet(heap[o].inside)

-----------------------------------------------------------------------------
(* _sorted_string_keys.                                                    *)
SortedEntries(entries) ==
  FlattenSeq([k \in DOMAIN Keys |-> SelectSeq(entries, LAMBDA entry : entry[1] = Keys[k])])

HasOtherKey(entries) == \E i \in DOMAIN entries : entries[i][1] = "other"

(* The children in the order in which they are encoded, each with its key. *)
Orders(o) ==
  CASE IsMapping(o) -> {SortedEntries(heap[o].inside)}
    [] Kind(o) \in SequenceKinds ->
         {[i \in DOMAIN heap[o].inside |-> <<"", heap[o].inside[i]>>]}
    [] Kind(o) \in SetKinds ->
         {[i \in DOMAIN order |-> <<"", order[i]>>] :
            order \in SetToSeqs(ToSet(heap[o].inside))}

(* The texts of a set's items are sorted: what remains is which they are.  *)
AsSorted(items) == ToSet(items)

ContainerCodeUnsorted(o, items) == <<Kind(o), items>>  (* mutant *)

ContainerCode(o, items) ==
  IF Kind(o) \in SetKinds THEN <<Kind(o), AsSorted(items)>> ELSE <<Kind(o), items>>

ScalarCode(o) == <<Kind(o), heap[o].inside>>

-----------------------------------------------------------------------------
Init ==
  /\ heap \in Heaps
  /\ stack = <<>>
  /\ active = {}
  /\ codes = <<>>
  /\ result = "running"

Top == stack[Len(stack)]
NextEntry == Top.todo[1]

(* The finally clauses run on the way out.                                 *)
Raise ==
  /\ result' = "raised"
  /\ stack' = <<>> /\ active' = {}
  /\ UNCHANGED <<heap, codes>>

(* The frame of the parent waits for the item that is encoded above it.    *)
Push(o, below) ==
  \E order \in Orders(o) :
    /\ stack' = Append(below, [object |-> o, todo |-> order, items |-> <<>>])
    /\ active' = active \union {o}
    /\ UNCHANGED <<heap, codes, result>>

EnterUnchecked(o, below) ==  (* mutant *)
  IF IsMapping(o) /\ HasOtherKey(heap[o].inside) THEN Raise ELSE Push(o, below)

EnterContainer(o, below) ==
  IF o \in active \/ (IsMapping(o) /\ HasOtherKey(heap[o].inside))
  THEN Raise ELSE Push(o, below)

(* A call of value() for the next root.                                    *)
StartRoot ==
  /\ result = "running" /\ stack = <<>> /\ Len(codes) < Len(Roots)
  /\ EnterContainer(Roots[Len(codes) + 1], <<>>)

Item(entry, code) == IF entry[1] = "" THEN code ELSE <<entry[1], code>>

EncodeScalar ==
  /\ result = "running" /\ stack # <<>> /\ Top.todo # <<>>
  /\ NextEntry[2] \in Scalars
  /\ IF Kind(NextEntry[2]) = "other" THEN Raise
     ELSE /\ stack' = [stack EXCEPT ![Len(stack)].todo = Tail(@),
                                    ![Len(stack)].items =
                                       Append(@, Item(NextEntry, ScalarCode(NextEntry[2])))]
          /\ UNCHANGED <<heap, active, codes, result>>

EncodeContainer ==
  /\ result = "running" /\ stack # <<>> /\ Top.todo # <<>>
  /\ NextEntry[2] \in Containers
  /\ EnterContainer(NextEntry[2], stack)

StayActive(o) == active  (* mutant: removed on failure only *)
NoLongerActive(o) == active \ {o}

(* A container is done: its code is an item of the one below.              *)
LeaveContainer ==
  /\ result = "running" /\ stack # <<>> /\ Top.todo = <<>>
  /\ LET code == ContainerCode(Top.object, Top.items)
         below == Front(stack)
     IN IF below = <<>>
        THEN codes' = Append(codes, code) /\ stack' = <<>>
        ELSE /\ stack' = [below EXCEPT ![Len(below)].todo = Tail(@),
                                       ![Len(below)].items =
                                          Append(@, Item(below[Len(below)].todo[1], code))]
             /\ UNCHANGED codes
  /\ active' = NoLongerActive(Top.object)
  /\ UNCHANGED <<heap, result>>

Return ==
  /\ result = "running" /\ stack = <<>> /\ Len(codes) = Len(Roots)
  /\ result' = "returned"
  /\ UNCHANGED <<heap, stack, active, codes>>

Rest == result # "running" /\ UNCHANGED vars

Next == StartRoot \/ EncodeScalar \/ EncodeContainer \/ LeaveContainer \/ Return \/ Rest

Spec == Init /\ [][Next]_vars

-----------------------------------------------------------------------------
(* What is inside o at most n levels down.                                 *)
Inside(o) ==
  LET down[n \in Nat] ==
        IF n = 0 THEN Children(o)
        ELSE down[n - 1] \union UNION {Children(c) : c \in down[n - 1]}
  IN down[Cardinality(Containers)]

ReachedFrom(o) == {o} \union Inside(o)

Unencodable(o) ==
  \E c \in ReachedFrom(o) :
    \/ c \in Inside(c)
    \/ Kind(c) = "other"
    \/ IsMapping(c) /\ HasOtherKey(heap[c].inside)

ValueOf(o, key) == LET i == CHOOSE i \in DOMAIN heap[o].inside : heap[o].inside[i][1] = key
                   IN heap[o].inside[i][2]
KeysOf(o) == {heap[o].inside[i][1] : i \in DOMAIN heap[o].inside}

(* The pairs of objects that are the same value, types included, by the    *)
(* number of levels looked at.                                             *)
Same ==
  LET level[n \in Nat] ==
        {pair \in (Containers \union Scalars) \X (Containers \union Scalars) :
           LET a == pair[1]
               b == pair[2]
               likely == IF n = 0 THEN {} ELSE level[n - 1]
           IN /\ Kind(a) = Kind(b)
              /\ \/ a \in Scalars /\ heap[a].inside = heap[b].inside
                 \/ /\ Kind(a) \in SequenceKinds
                    /\ Len(heap[a].inside) = Len(heap[b].inside)
                    /\ \A i \in DOMAIN heap[a].inside :
                         <<heap[a].inside[i], heap[b].inside[i]>> \in likely
                 \/ /\ Kind(a) \in SetKinds
                    /\ \A x \in Children(a) : \E y \in Children(b) : <<x, y>> \in likely
                    /\ \A y \in Children(b) : \E x \in Children(a) : <<x, y>> \in likely
                 \/ /\ Kind(a) = "mapping"
                    /\ KeysOf(a) = KeysOf(b)
                    /\ \A key \in KeysOf(a) : <<ValueOf(a, key), ValueOf(b, key)>> \in likely}
  IN level[Cardinality(Containers) + 1]

TypeOK ==
  /\ active = {stack[i].object : i \in DOMAIN stack}
  /\ Len(codes) <= Len(Roots)
  /\ result \in {"running", "returned", "raised"}

(* The recursion is no deeper than there are containers, cyclic or not.    *)
RecursionIsBounded ==
  \A i, j \in DOMAIN stack : stack[i].object = stack[j].object => i = j

(* "Raises TypeError: A configuration value has no deterministic encoding  *)
(* or contains a cycle": then only.  A container that occurs twice, within *)
(* one value or in two, is no cycle.                                       *)
RaisesOnlyForCycles ==
  result # "running" => (result = "raised" <=> \E i \in DOMAIN Roots : Unencodable(Roots[i]))

(* Two configurations have one encoding exactly if they are the same       *)
(* value: whatever their identities, the order of insertion into mappings  *)
(* and the order in which sets are iterated.                               *)
EqualExactlyIfSame ==
  result = "returned" =>
    \A i, j \in DOMAIN Roots : codes[i] = codes[j] <=> <<Roots[i], Roots[j]>> \in Same
=============================================================================
