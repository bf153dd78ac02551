---------------------------- MODULE DedupProofs ----------------------------
(***************************************************************************)
(* Theorems about DedupRing, for every capacity and every set of ids.      *)
(***************************************************************************)
EXTENDS DedupRing, SequenceTheorems, FiniteSetTheorems, TLAPS

\* The ring holds the commands executed last, in their order.
HoldsTheLast ==
    /\ Len(order) = IF Len(executed) < Capacity THEN Len(executed) ELSE Capacity
    /\ \A i \in 1 .. Len(order) : order[i] = executed[Len(executed) - Len(order) + i]

RingInv == TypeOK /\ HoldsTheLast /\ ExecutedApart

----------------------------------------------------------------------------
\* The queue after mark, spelled out: what it keeps, what it evicts.
LEMMA MarkedOrder ==
    ASSUME TypeOK, NEW id \in Ids, Mark(id)
    PROVE  LET n == Len(order)
               x == IF n + 1 > Capacity THEN n + 1 - Capacity ELSE 0
           IN  /\ x \in 0 .. 1 /\ n + 1 - x <= Capacity
               /\ order' \in Seq(Ids)
               /\ Len(order') = n + 1 - x
               /\ \A i \in 1 .. n + 1 - x : order'[i] = IF i + x = n + 1 THEN id ELSE order[i + x]
               /\ set' = (set \cup {id}) \ {IF i = n + 1 THEN id ELSE order[i] : i \in 1 .. x}
<1> DEFINE n == Len(order)
           x == IF n + 1 > Capacity THEN n + 1 - Capacity ELSE 0
           longer == Append(order, id)
<1>1. n \in Nat /\ n <= Capacity /\ Capacity \in Nat
  BY CapacityAssumption DEF TypeOK
<1>2. x \in 0 .. 1 /\ n + 1 - x <= Capacity /\ n + 1 - x >= 0
  BY <1>1
<1>3. /\ longer \in Seq(Ids) /\ Len(longer) = n + 1
      /\ \A i \in 1 .. n + 1 : longer[i] = IF i = n + 1 THEN id ELSE order[i]
  BY DEF TypeOK
<1>4. Excess(longer) = x
  BY <1>1, <1>3 DEF Excess
<1>5. order' = SubSeq(longer, x + 1, n + 1)
  BY <1>3, <1>4 DEF Mark
<1>6. set' = (set \cup {id}) \ {longer[i] : i \in 1 .. x}
  BY <1>3, <1>4 DEF Mark
<1>7. /\ order' \in Seq(Ids) /\ Len(order') = n + 1 - x
      /\ \A i \in 1 .. n + 1 - x : order'[i] = longer[i + x]
  <2>1. SubSeq(longer, x + 1, n + 1) \in Seq(Ids)
    BY <1>1, <1>2, <1>3
  <2>2. Len(SubSeq(longer, x + 1, n + 1)) = n + 1 - x
    <3>1. \A i \in x + 1 .. n + 1 : longer[i] \in Ids
      BY <1>1, <1>2, <1>3
    <3>2. x + 1 \in Int /\ n + 1 \in Int /\ x \in 0 .. 1 /\ n \in Nat /\ n + 1 - x >= 0
      BY <1>1, <1>2
    <3> HIDE DEF n, x, longer
    <3>3. Len(SubSeq(longer, x + 1, n + 1)) = IF x + 1 <= n + 1 THEN n + 1 - (x + 1) + 1 ELSE 0
      BY <3>1, <3>2, SubSeqProperties
    <3> QED
      BY <3>2, <3>3
  <2>3. ASSUME NEW i \in 1 .. n + 1 - x
        PROVE  SubSeq(longer, x + 1, n + 1)[i] = longer[i + x]
    BY <1>1, <1>2, <1>3
  <2> QED
    BY <1>5, <2>1, <2>2, <2>3
<1>8. \A i \in 1 .. n + 1 - x : order'[i] = IF i + x = n + 1 THEN id ELSE order[i + x]
  BY <1>1, <1>2, <1>3, <1>7
<1>9. {longer[i] : i \in 1 .. x} = {IF i = n + 1 THEN id ELSE order[i] : i \in 1 .. x}
  BY <1>1, <1>2, <1>3
<1> QED
  BY <1>2, <1>6, <1>7, <1>8, <1>9

LEMMA ExecuteType ==
    ASSUME TypeOK, NEW id \in Ids, Execute(id)
    PROVE  TypeOK'
<1> DEFINE n == Len(order)
           x == IF n + 1 > Capacity THEN n + 1 - Capacity ELSE 0
<1>1. /\ x \in 0 .. 1 /\ n + 1 - x <= Capacity
      /\ order' \in Seq(Ids) /\ Len(order') = n + 1 - x
      /\ \A i \in 1 .. n + 1 - x : order'[i] = IF i + x = n + 1 THEN id ELSE order[i + x]
      /\ set' = (set \cup {id}) \ {IF i = n + 1 THEN id ELSE order[i] : i \in 1 .. x}
  BY MarkedOrder DEF Execute
<1>2. /\ n \in Nat /\ DOMAIN order = 1 .. n /\ DOMAIN order' = 1 .. n + 1 - x
      /\ \A i \in 1 .. n : order[i] \in set /\ order[i] # id
      /\ \A i, j \in 1 .. n : order[i] = order[j] => i = j
      /\ \A y \in set : \E i \in 1 .. n : y = order[i]
  <2>1. n \in Nat /\ DOMAIN order = 1 .. n
    BY DEF TypeOK
  <2>2. DOMAIN order' = 1 .. n + 1 - x
    BY <1>1
  <2>3. set = {order[i] : i \in 1 .. n} /\ id \notin set
    BY <2>1 DEF TypeOK, Elements, Execute
  <2>4. \A i, j \in 1 .. n : order[i] = order[j] => i = j
    BY <2>1 DEF TypeOK
  <2> QED
    BY <2>1, <2>2, <2>3, <2>4
<1> HIDE DEF n, x
<1>3. set' = Elements(order')
  <2>1. ASSUME NEW y \in set' PROVE y \in Elements(order')
    <3>1. CASE y = id
      <4>1. n + 1 - x \in 1 .. n + 1 - x
        BY <1>1, <1>2, <3>1, <2>1
      <4> QED
        BY <1>1, <1>2, <3>1, <4>1 DEF Elements
    <3>2. CASE y # id
      <4>1. PICK i \in 1 .. n : y = order[i] /\ i \notin 1 .. x
        BY <1>1, <1>2, <2>1, <3>2
      <4>2. i - x \in 1 .. n + 1 - x /\ order'[i - x] = y
        BY <1>1, <1>2, <4>1
      <4> QED
        BY <1>2, <4>2 DEF Elements
    <3> QED
      BY <3>1, <3>2
  <2>2. ASSUME NEW i \in 1 .. n + 1 - x PROVE order'[i] \in set'
    BY <1>1, <1>2, <2>2
  <2> QED
    BY <1>2, <2>1, <2>2 DEF Elements
<1>4. \A i, j \in DOMAIN order' : order'[i] = order'[j] => i = j
  BY <1>1, <1>2
<1>5. executed' \in Seq(Ids)
  BY DEF Execute, TypeOK
<1>6. set' \subseteq Ids
  BY <1>1 DEF TypeOK
<1> QED
  BY <1>1, <1>3, <1>4, <1>5, <1>6 DEF TypeOK

LEMMA ExecuteWindow ==
    ASSUME RingInv, NEW id \in Ids, Execute(id)
    PROVE  HoldsTheLast' /\ ExecutedApart'
<1> DEFINE n == Len(order)
           x == IF n + 1 > Capacity THEN n + 1 - Capacity ELSE 0
           e == Len(executed)
<1>1. /\ x \in 0 .. 1 /\ n + 1 - x <= Capacity
      /\ Len(order') = n + 1 - x
      /\ \A i \in 1 .. n + 1 - x : order'[i] = IF i + x = n + 1 THEN id ELSE order[i + x]
  BY MarkedOrder DEF Execute, RingInv
<1>2. /\ n \in Nat /\ e \in Nat /\ Capacity \in Nat /\ n <= Capacity
      /\ n = IF e < Capacity THEN e ELSE Capacity
      /\ \A i \in 1 .. n : order[i] = executed[e - n + i]
      /\ x = IF n + 1 > Capacity THEN n + 1 - Capacity ELSE 0
  <2>1. n \in Nat /\ e \in Nat /\ Capacity \in Nat /\ n <= Capacity
    BY CapacityAssumption DEF RingInv, TypeOK
  <2>2. n = IF e < Capacity THEN e ELSE Capacity
    BY DEF RingInv, HoldsTheLast
  <2>3. \A i \in 1 .. n : order[i] = executed[e - n + i]
    BY DEF RingInv, HoldsTheLast
  <2> QED
    BY <2>1, <2>2, <2>3
<1>3. /\ Len(executed') = e + 1 /\ DOMAIN executed' = 1 .. e + 1 /\ DOMAIN executed = 1 .. e
      /\ \A i \in 1 .. e + 1 : executed'[i] = IF i = e + 1 THEN id ELSE executed[i]
  BY DEF Execute, RingInv, TypeOK
<1>4. \A i \in 1 .. n : order[i] # id
  BY DEF Execute, RingInv, TypeOK, Elements
<1>5. \A i, j \in 1 .. e : i < j /\ executed[i] = executed[j] => j - i > Capacity
  BY <1>3 DEF RingInv, ExecutedApart
<1> HIDE DEF n, x, e
<1>6. HoldsTheLast'
  <2>1. n + 1 - x = IF e + 1 < Capacity THEN e + 1 ELSE Capacity
    BY <1>2
  <2>2. ASSUME NEW i \in 1 .. n + 1 - x
        PROVE  order'[i] = executed'[e + 1 - (n + 1 - x) + i]
    <3>1. CASE i + x = n + 1
      BY <1>1, <1>2, <1>3, <3>1
    <3>2. CASE i + x # n + 1
      <4>1. i + x \in 1 .. n /\ e - n + (i + x) \in 1 .. e
        BY <1>1, <1>2, <2>2, <3>2
      <4>2. order'[i] = executed[e - n + (i + x)]
        BY <1>1, <1>2, <3>2, <4>1
      <4>3. e + 1 - (n + 1 - x) + i = e - n + (i + x)
        BY <1>1, <1>2
      <4> QED
        BY <1>2, <1>3, <4>1, <4>2, <4>3
    <3> QED
      BY <3>1, <3>2
  <2>3. /\ Len(order') = IF Len(executed') < Capacity THEN Len(executed') ELSE Capacity
        /\ \A i \in 1 .. Len(order') :
              order'[i] = executed'[Len(executed') - Len(order') + i]
    <3>1. Len(order') = n + 1 - x /\ Len(executed') = e + 1
      BY <1>1, <1>3
    <3>2. Len(order') = IF Len(executed') < Capacity THEN Len(executed') ELSE Capacity
      BY <2>1, <3>1
    <3>3. ASSUME NEW i \in 1 .. Len(order')
          PROVE  order'[i] = executed'[Len(executed') - Len(order') + i]
      <4>1. i \in 1 .. n + 1 - x
        BY <3>1, <3>3
      <4>2. order'[i] = executed'[e + 1 - (n + 1 - x) + i]
        BY <2>2, <4>1
      <4>3. Len(executed') - Len(order') + i = e + 1 - (n + 1 - x) + i
        BY <1>1, <1>2, <3>1
      <4> QED
        BY <4>2, <4>3
    <3> QED
      BY <3>2, <3>3
  <2> QED
    BY <2>3 DEF HoldsTheLast
<1>7. ASSUME NEW i \in 1 .. e, executed[i] = id PROVE e + 1 - i > Capacity
  <2>1. CASE i > e - n
    <3>1. i - (e - n) \in 1 .. n /\ e - n + (i - (e - n)) = i
      BY <1>2, <2>1
    <3>2. order[i - (e - n)] = executed[i]
      BY <1>2, <3>1
    <3> QED
      BY <1>4, <1>7, <3>1, <3>2
  <2>2. CASE i <= e - n
    BY <1>2, <2>2
  <2> QED
    BY <1>2, <2>1, <2>2
<1>8. ExecutedApart'
  BY <1>2, <1>3, <1>5, <1>7 DEF ExecutedApart
<1> QED
  BY <1>6, <1>8

LEMMA RingInvariant == Spec => []RingInv
<1>1. Init => RingInv
  BY CapacityAssumption DEF Init, RingInv, TypeOK, HoldsTheLast, ExecutedApart, Elements
<1>2. RingInv /\ [Next]_vars => RingInv'
  <2> SUFFICES ASSUME RingInv, [Next]_vars PROVE RingInv'
    OBVIOUS
  <2>1. CASE Clear
    BY <2>1, CapacityAssumption
       DEF Clear, RingInv, TypeOK, HoldsTheLast, ExecutedApart, Elements
  <2>2. ASSUME NEW id \in Ids, Duplicate(id) PROVE RingInv'
    BY <2>2 DEF Duplicate, vars, RingInv, TypeOK, HoldsTheLast, ExecutedApart, Elements
  <2>3. ASSUME NEW id \in Ids, Execute(id) PROVE RingInv'
    BY <2>3, ExecuteType, ExecuteWindow DEF RingInv
  <2>4. CASE UNCHANGED vars
    BY <2>4 DEF vars, RingInv, TypeOK, HoldsTheLast, ExecutedApart, Elements
  <2> QED
    BY <2>1, <2>2, <2>3, <2>4 DEF Next
<1> QED
  BY <1>1, <1>2, PTL DEF Spec

\* The set and the queue of the ring agree, and stay within the capacity.
THEOREM RingTypeCorrect == Spec => []TypeOK
  BY RingInvariant, PTL DEF RingInv

\* For every capacity: between two executions of one command at least Capacity
\* others are executed.
THEOREM RingDeduplicates == Spec => []ExecutedApart
  BY RingInvariant, PTL DEF RingInv

----------------------------------------------------------------------------
(* Few commands.                                                           *)

\* Of few commands there have been few executions: among the first Capacity + 1, two
\* would be of one command, closer together than the ring lets them be.
LEMMA FewExecutions ==
    ASSUME RingInv, Cardinality(Elements(executed)) <= Capacity
    PROVE  Len(executed) <= Capacity
<1> DEFINE e == Len(executed)
           first == [i \in 1 .. Capacity + 1 |-> executed[i]]
<1>1. e \in Nat /\ DOMAIN executed = 1 .. e /\ Capacity \in Nat
  BY CapacityAssumption DEF RingInv, TypeOK
<1>2. IsFiniteSet(Elements(executed)) /\ Cardinality(Elements(executed)) \in Nat
  <2>1. executed \in Surjection(1 .. e, Elements(executed))
    BY <1>1 DEF RingInv, TypeOK, Elements, Surjection
  <2>2. IsFiniteSet(1 .. e)
    BY <1>1, FS_Interval
  <2> QED
    BY <2>1, <2>2, FS_Surjection, FS_CardinalityType
<1> SUFFICES ASSUME e > Capacity PROVE FALSE
  BY <1>1
<1>3. IsFiniteSet(1 .. Capacity + 1) /\ Cardinality(1 .. Capacity + 1) = Capacity + 1
  BY <1>1, FS_Interval
<1>4. first \in [1 .. Capacity + 1 -> Elements(executed)]
  BY <1>1 DEF Elements
<1>5. Cardinality(Elements(executed)) < Cardinality(1 .. Capacity + 1)
  BY <1>1, <1>2, <1>3
<1>6. PICK i, j \in 1 .. Capacity + 1 : i # j /\ first[i] = first[j]
  <2> HIDE DEF first
  <2> QED
    BY <1>2, <1>3, <1>4, <1>5, FS_PigeonHole
<1>7. i \in DOMAIN executed /\ j \in DOMAIN executed /\ executed[i] = executed[j]
  BY <1>1, <1>6
<1> QED
  BY <1>1, <1>6, <1>7 DEF RingInv, ExecutedApart

LEMMA FewRemembered == RingInv => RemembersFew
<1> SUFFICES ASSUME RingInv, Cardinality(Elements(executed)) <= Capacity
             PROVE  set = Elements(executed)
  BY DEF RemembersFew
<1>1. Len(order) = Len(executed) /\ \A i \in 1 .. Len(order) : order[i] = executed[i]
  <2>1. Len(executed) \in Nat /\ Capacity \in Nat /\ Len(executed) <= Capacity
    BY FewExecutions, CapacityAssumption DEF RingInv, TypeOK
  <2>2. Len(order) = Len(executed)
    BY <2>1 DEF RingInv, HoldsTheLast
  <2>3. \A i \in 1 .. Len(order) : Len(executed) - Len(order) + i = i
    BY <2>1, <2>2
  <2> QED
    BY <2>2, <2>3 DEF RingInv, HoldsTheLast
<1> QED
  BY <1>1 DEF RingInv, TypeOK, Elements

\* For every capacity: what fits in the ring is not evicted from it.
THEOREM RingRemembers == Spec => []RemembersFew
  BY RingInvariant, FewRemembered, PTL

\* With no more ids than it keeps, the ring is a plain set that only grows until it is
\* cleared: Relay and Pipeline, whose commands are few, have such a set in its place.
THEOREM PlainSetOfFew ==
    ASSUME IsFiniteSet(Ids), Cardinality(Ids) <= Capacity
    PROVE  Spec => [][set' = {} \/ \E id \in Ids \ set : set' = set \cup {id}]_set
<1>1. ASSUME RingInv, RingInv', RemembersFew, RemembersFew', [Next]_vars
      PROVE  [set' = {} \/ \E id \in Ids \ set : set' = set \cup {id}]_set
  <2>1. CASE Clear \/ UNCHANGED vars \/ \E id \in Ids : Duplicate(id)
    BY <2>1 DEF Clear, Duplicate, vars
  <2>2. ASSUME NEW id \in Ids, Execute(id)
        PROVE  id \notin set /\ set' = set \cup {id}
    <3>1. ASSUME NEW T \in SUBSET Ids PROVE Cardinality(T) <= Capacity
      BY FS_Subset, FS_CardinalityType, CapacityAssumption
    <3>2. Elements(executed) \subseteq Ids /\ Elements(executed') \subseteq Ids
      BY <1>1 DEF RingInv, TypeOK, Elements
    <3>3. set = Elements(executed) /\ set' = Elements(executed')
      BY <1>1, <3>1, <3>2 DEF RemembersFew
    <3>4. Elements(executed') = Elements(executed) \cup {id}
      <4>1. executed \in Seq(Ids) /\ executed' = Append(executed, id)
        BY <1>1, <2>2 DEF Execute, RingInv, TypeOK
      <4>2. /\ DOMAIN executed = 1 .. Len(executed) /\ DOMAIN executed' = 1 .. Len(executed) + 1
            /\ Len(executed) \in Nat
            /\ \A i \in 1 .. Len(executed) + 1 :
                  executed'[i] = IF i = Len(executed) + 1 THEN id ELSE executed[i]
        BY <4>1
      <4>3. \A y \in Elements(executed) : y \in Elements(executed')
        BY <4>2 DEF Elements
      <4>4. id \in Elements(executed')
        BY <4>2 DEF Elements
      <4>5. \A y \in Elements(executed') : y = id \/ y \in Elements(executed)
        BY <4>2 DEF Elements
      <4> QED
        BY <4>3, <4>4, <4>5
    <3> QED
      BY <2>2, <3>3, <3>4 DEF Execute
  <2> QED
    BY <1>1, <2>1, <2>2 DEF Next
<1> QED
  BY <1>1, RingInvariant, RingRemembers, PTL DEF Spec
============================================================================
