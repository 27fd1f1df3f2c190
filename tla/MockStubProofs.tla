--------------------------- MODULE MockStubProofs ---------------------------
(***************************************************************************)
(* Proofs about MockStub: for any stubs, keys, values and chaincodes.      *)
(***************************************************************************)
EXTENDS MockStub, TLAPS, WellFoundedInduction, SequenceTheorems

-----------------------------------------------------------------------------
\* Ordered lists of keys.
Elements(list) == {list[i] : i \in DOMAIN list}
Ascends(list)  == \A i, j \in DOMAIN list : i < j => list[i] < list[j]

LEMMA MinInSet ==
  ASSUME NEW S \in SUBSET Nat, S # {}
  PROVE  Min(S) \in S /\ \A n \in S : Min(S) <= n
<1>1. \A a, b \in Nat : a < b => <<a, b>> \in OpToRel(<, Nat)
  BY DEF OpToRel
<1>2. S \subseteq Nat /\ S # {}
  OBVIOUS
<1>3. PICK m \in S : \A n \in S : ~(<<n, m>> \in OpToRel(<, Nat))
  BY ONLY <1>2, WFMin, NatLessThanWellFounded
<1>4. ASSUME NEW n \in S PROVE m <= n
  <2>1. n \in Nat /\ m \in Nat
    OBVIOUS
  <2>2. ~(n < m)
    BY <1>1, <1>3, <2>1
  <2> QED
    BY <2>1, <2>2
<1> QED
  BY <1>4 DEF Min

LEMMA KeysAreNumbers == \A k \in Keys : k \in Nat \ {0}
  BY KeysAssumption

LEMMA InsertAtShape ==
  ASSUME NEW list \in Seq(Keys), NEW p \in 1..Len(list), NEW key \in Keys
  PROVE  /\ InsertAt(list, p, key) \in Seq(Keys)
         /\ Len(InsertAt(list, p, key)) = Len(list) + 1
         /\ \A i \in 1..Len(list)+1 : InsertAt(list, p, key)[i] =
              IF i < p THEN list[i] ELSE IF i = p THEN key ELSE list[i - 1]
<1> DEFINE front == SubSeq(list, 1, p - 1)
           back  == SubSeq(list, p, Len(list))
<1>1. front \in Seq(Keys) /\ Len(front) = p - 1 /\ \A i \in 1..p-1 : front[i] = list[i]
  BY SubSeqProperties
<1>2. back \in Seq(Keys) /\ Len(back) = Len(list) - p + 1
      /\ \A i \in 1..Len(list)-p+1 : back[i] = list[p + i - 1]
  BY SubSeqProperties
<1>3. InsertAt(list, p, key) = (front \o <<key>>) \o back
  BY DEF InsertAt
<1> HIDE DEF front, back
<1>4. /\ front \o <<key>> \in Seq(Keys) /\ Len(front \o <<key>>) = p
      /\ \A i \in 1..p : (front \o <<key>>)[i] = IF i < p THEN list[i] ELSE key
  BY <1>1, ConcatProperties
<1> DEFINE head == front \o <<key>>
<1> HIDE DEF head
<1>5. head \in Seq(Keys) /\ Len(head) = p /\ \A i \in 1..p : head[i] = IF i < p THEN list[i] ELSE key
  BY <1>4 DEF head
<1>6. /\ head \o back \in Seq(Keys) /\ Len(head \o back) = Len(list) + 1
      /\ \A i \in 1..Len(list)+1 : (head \o back)[i] = IF i <= p THEN head[i] ELSE back[i - p]
  <2>1. Len(list) \in Nat /\ Len(head) + Len(back) = Len(list) + 1
    BY <1>2, <1>5
  <2>2. /\ head \o back \in Seq(Keys)
        /\ Len(head \o back) = Len(head) + Len(back)
        /\ \A i \in 1..Len(head)+Len(back) :
             (head \o back)[i] = IF i <= Len(head) THEN head[i] ELSE back[i - Len(head)]
    BY <1>2, <1>5, ConcatProperties
  <2> QED
    BY <1>5, <2>1, <2>2
<1>7. \A i \in 1..Len(list)+1 : i > p => back[i - p] = list[i - 1]
  BY <1>2
<1> QED
  BY <1>3, <1>5, <1>6, <1>7 DEF head

LEMMA RemoveAtShape ==
  ASSUME NEW list \in Seq(Keys), NEW p \in 1..Len(list)
  PROVE  /\ RemoveAt(list, p) \in Seq(Keys)
         /\ Len(RemoveAt(list, p)) = Len(list) - 1
         /\ \A i \in 1..Len(list)-1 : RemoveAt(list, p)[i] = IF i < p THEN list[i] ELSE list[i + 1]
<1> DEFINE front == SubSeq(list, 1, p - 1)
           back  == SubSeq(list, p + 1, Len(list))
<1>1. front \in Seq(Keys) /\ Len(front) = p - 1 /\ \A i \in 1..p-1 : front[i] = list[i]
  BY SubSeqProperties
<1>2. back \in Seq(Keys) /\ Len(back) = Len(list) - p
      /\ \A i \in 1..Len(list)-p : back[i] = list[p + i]
  BY SubSeqProperties
<1>3. RemoveAt(list, p) = front \o back
  BY DEF RemoveAt
<1> HIDE DEF front, back
<1>4. /\ front \o back \in Seq(Keys) /\ Len(front \o back) = Len(list) - 1
      /\ \A i \in 1..Len(list)-1 : (front \o back)[i] = IF i <= p - 1 THEN front[i] ELSE back[i - (p - 1)]
  <2>1. Len(list) \in Nat /\ Len(front) + Len(back) = Len(list) - 1
    BY <1>1, <1>2
  <2>2. /\ front \o back \in Seq(Keys)
        /\ Len(front \o back) = Len(front) + Len(back)
        /\ \A i \in 1..Len(front)+Len(back) :
             (front \o back)[i] = IF i <= Len(front) THEN front[i] ELSE back[i - Len(front)]
    BY <1>1, <1>2, ConcatProperties
  <2> QED
    BY <1>1, <2>1, <2>2
<1>5. \A i \in 1..Len(list)-1 : i >= p => back[i - (p - 1)] = list[i + 1]
  BY <1>2
<1> QED
  BY <1>1, <1>3, <1>4, <1>5

\* Where a key is in a list.
LEMMA IndexOfKey ==
  ASSUME NEW list \in Seq(Keys), NEW key
  PROVE  LET i == SelectInSeq(list, LAMBDA k : k = key)
         IN  \/ key \in Elements(list) /\ i \in 1..Len(list) /\ list[i] = key
             \/ key \notin Elements(list) /\ i = 0
<1> DEFINE I == {i \in 1..Len(list) : list[i] = key}
<1>1. CASE I = {}
  <2>1. SelectInSeq(list, LAMBDA k : k = key) = 0
    BY <1>1 DEF SelectInSeq
  <2> QED
    BY <1>1, <2>1 DEF Elements
<1>2. CASE I # {}
  <2>1. I \in SUBSET Nat
    OBVIOUS
  <2>2. Min(I) \in I
    BY <1>2, <2>1, MinInSet
  <2>3. SelectInSeq(list, LAMBDA k : k = key) = Min(I)
    BY <1>2 DEF SelectInSeq
  <2> QED
    BY <2>2, <2>3 DEF Elements
<1> QED
  BY <1>1, <1>2

\* PutState keeps the list ordered and adds the key to it, DelState takes it
\* away.
LEMMA InsertKeyKeepsOrder ==
  ASSUME NEW list \in Seq(Keys), Ascends(list), NEW key \in Keys
  PROVE  /\ InsertKey(list, key) \in Seq(Keys)
         /\ Ascends(InsertKey(list, key))
         /\ Elements(InsertKey(list, key)) = Elements(list) \cup {key}
<1> DEFINE I == {j \in 1..Len(list) : key <= list[j]}
           p == SelectInSeq(list, LAMBDA k : key <= k)
<1>1. list \in [1..Len(list) -> Keys] /\ Len(list) \in Nat /\ DOMAIN list = 1..Len(list)
  BY LenProperties
<1>2. \A j \in 1..Len(list) : list[j] \in Nat
  BY <1>1, KeysAreNumbers
<1>3. key \in Nat
  BY KeysAreNumbers
<1>4. CASE I = {}
  <2>1. InsertKey(list, key) = Append(list, key)
    BY <1>4 DEF InsertKey, SelectInSeq
  <2>2. /\ Append(list, key) \in Seq(Keys) /\ Len(Append(list, key)) = Len(list) + 1
        /\ DOMAIN Append(list, key) = 1..Len(list)+1
        /\ \A i \in 1..Len(list)+1 : Append(list, key)[i] = IF i <= Len(list) THEN list[i] ELSE key
    BY <1>1
  <2>3. \A j \in 1..Len(list) : list[j] < key
    BY <1>2, <1>3, <1>4
  <2>4. Ascends(Append(list, key))
    BY <1>1, <2>2, <2>3 DEF Ascends
  <2> DEFINE new == Append(list, key)
  <2> HIDE DEF new
  <2>6. DOMAIN new = 1..Len(list)+1 /\ new[Len(list)+1] = key
        /\ \A i \in 1..Len(list) : new[i] = list[i]
    BY <1>1, <2>2 DEF new
  <2>7. 1..Len(list)+1 = 1..Len(list) \cup {Len(list)+1}
    BY <1>1
  <2>5. Elements(new) = Elements(list) \cup {key}
    BY <1>1, <2>6, <2>7 DEF Elements
  <2> QED
    BY <2>1, <2>2, <2>4, <2>5 DEF new
<1>5. CASE I # {}
  <2>1. I \in SUBSET Nat
    BY <1>1
  <2>2. p = Min(I)
    BY <1>5 DEF SelectInSeq
  <2> HIDE DEF p
  <2>3. p \in 1..Len(list) /\ key <= list[p] /\ \A j \in 1..Len(list) : key <= list[j] => p <= j
    BY <1>5, <2>1, <2>2, MinInSet
  <2>4. \A j \in 1..Len(list) : j < p => list[j] < key
    BY <1>2, <1>3, <2>3
  <2>5. CASE list[p] = key
    <3>1. InsertKey(list, key) = list
      <4>1. p # 0
        BY <2>3
      <4> QED
        BY <2>5, <4>1 DEF InsertKey, p
    <3>2. key \in Elements(list)
      BY <1>1, <2>3, <2>5 DEF Elements
    <3> QED
      BY <3>1, <3>2
  <2>6. CASE list[p] # key
    <3>1. InsertKey(list, key) = InsertAt(list, p, key)
      BY <1>1, <2>3, <2>6 DEF InsertKey, p
    <3> DEFINE new == InsertAt(list, p, key)
    <3>2. /\ new \in Seq(Keys) /\ Len(new) = Len(list) + 1
          /\ \A i \in 1..Len(list)+1 : new[i] =
               IF i < p THEN list[i] ELSE IF i = p THEN key ELSE list[i - 1]
      BY <2>3, InsertAtShape
    <3> HIDE DEF new
    <3>3. DOMAIN new = 1..Len(list)+1
      BY <3>2
    <3>4. \A j \in 1..Len(list) : p <= j => key < list[j]
      BY <1>1, <1>2, <1>3, <2>3, <2>6 DEF Ascends
    <3>5. Ascends(new)
      <4> SUFFICES ASSUME NEW i \in 1..Len(list)+1, NEW j \in 1..Len(list)+1, i < j
                   PROVE  new[i] < new[j]
        BY <3>3 DEF Ascends
      <4>1. \A m, n \in 1..Len(list) : m < n => list[m] < list[n]
        BY <1>1 DEF Ascends
      <4>2. CASE j < p
        BY <1>1, <2>3, <3>2, <4>1, <4>2
      <4>3. CASE j = p
        BY <1>1, <2>3, <2>4, <3>2, <4>3
      <4>4. CASE j > p
        <5>1. new[j] = list[j - 1] /\ j - 1 \in 1..Len(list) /\ p <= j - 1
          BY <1>1, <2>3, <3>2, <4>4
        <5>2. CASE i < p
          BY <1>1, <2>3, <3>2, <4>1, <5>1, <5>2
        <5>3. CASE i = p
          BY <1>1, <2>3, <3>2, <3>4, <5>1, <5>3
        <5>4. CASE i > p
          <6>1. new[i] = list[i - 1] /\ i - 1 \in 1..Len(list)
            BY <1>1, <2>3, <3>2, <5>4
          <6> QED
            BY <4>1, <5>1, <6>1
        <5> QED
          BY <2>3, <5>2, <5>3, <5>4
      <4> QED
        BY <2>3, <4>2, <4>3, <4>4
    <3>6. Elements(new) = Elements(list) \cup {key}
      <4>1. Elements(new) \subseteq Elements(list) \cup {key}
        <5>1. ASSUME NEW i \in 1..Len(list)+1 PROVE new[i] = key \/ \E j \in 1..Len(list) : new[i] = list[j]
          <6>1. CASE i <= p
            BY <1>1, <2>3, <3>2, <6>1
          <6>2. CASE i > p
            <7>1. i - 1 \in 1..Len(list) /\ new[i] = list[i - 1]
              BY <1>1, <2>3, <3>2, <6>2
            <7> QED
              BY <7>1
          <6> QED
            BY <2>3, <6>1, <6>2
        <5> QED
          BY <1>1, <3>3, <5>1 DEF Elements
      <4>2. key \in Elements(new)
        BY <1>1, <2>3, <3>2, <3>3 DEF Elements
      <4>3. ASSUME NEW j \in 1..Len(list) PROVE list[j] \in Elements(new)
        <5>1. CASE j < p
          BY <1>1, <2>3, <3>2, <3>3, <5>1 DEF Elements
        <5>2. CASE j >= p
          <6>1. j + 1 \in 1..Len(list)+1 /\ new[j + 1] = list[j]
            BY <1>1, <2>3, <3>2, <5>2
          <6> QED
            BY <3>3, <6>1 DEF Elements
        <5> QED
          BY <2>3, <5>1, <5>2
      <4> QED
        BY <1>1, <4>1, <4>2, <4>3 DEF Elements
    <3> QED
      BY <3>1, <3>2, <3>5, <3>6 DEF new
  <2> QED
    BY <2>5, <2>6
<1> QED
  BY <1>4, <1>5

LEMMA RemoveKeyKeepsOrder ==
  ASSUME NEW list \in Seq(Keys), Ascends(list), NEW key \in Keys
  PROVE  /\ RemoveKey(list, key) \in Seq(Keys)
         /\ Ascends(RemoveKey(list, key))
         /\ Elements(RemoveKey(list, key)) = Elements(list) \ {key}
<1> DEFINE p == SelectInSeq(list, LAMBDA k : k = key)
<1>1. list \in [1..Len(list) -> Keys] /\ Len(list) \in Nat /\ DOMAIN list = 1..Len(list)
  BY LenProperties
<1>2. \A j \in 1..Len(list) : list[j] \in Nat
  BY <1>1, KeysAreNumbers
<1>3. CASE key \notin Elements(list)
  <2>1. RemoveKey(list, key) = list
    BY <1>1, <1>3 DEF RemoveKey, RemoveFirst, Elements
  <2> QED
    BY <1>3, <2>1
<1>4. CASE key \in Elements(list)
  <2>1. p \in 1..Len(list) /\ list[p] = key
    BY <1>4, IndexOfKey
  <2>2. RemoveKey(list, key) = RemoveAt(list, p)
    BY <2>1 DEF RemoveKey, RemoveFirst
  <2> HIDE DEF p
  <2> DEFINE new == RemoveAt(list, p)
  <2>3. /\ new \in Seq(Keys) /\ Len(new) = Len(list) - 1
        /\ \A i \in 1..Len(list)-1 : new[i] = IF i < p THEN list[i] ELSE list[i + 1]
    BY <2>1, RemoveAtShape
  <2> HIDE DEF new
  <2>4. DOMAIN new = 1..Len(list)-1
    BY <2>3
  <2>5. Ascends(new)
    <3> SUFFICES ASSUME NEW i \in 1..Len(list)-1, NEW j \in 1..Len(list)-1, i < j
                 PROVE  new[i] < new[j]
      BY <2>4 DEF Ascends
    <3>1. \A m, n \in 1..Len(list) : m < n => list[m] < list[n]
      BY <1>1 DEF Ascends
    <3>2. new[i] = IF i < p THEN list[i] ELSE list[i + 1]
      BY <2>3
    <3>3. new[j] = IF j < p THEN list[j] ELSE list[j + 1]
      BY <2>3
    <3> QED
      BY <1>1, <2>1, <3>1, <3>2, <3>3
  <2>6. \A j \in 1..Len(list) : j # p => list[j] # key
    BY <1>1, <1>2, <2>1 DEF Ascends
  <2>7. Elements(new) \subseteq Elements(list) \ {key}
    <3>1. ASSUME NEW i \in 1..Len(list)-1
          PROVE  \E j \in 1..Len(list) : j # p /\ new[i] = list[j]
      BY <1>1, <2>1, <2>3
    <3> QED
      BY <1>1, <2>4, <2>6, <3>1 DEF Elements
  <2>8. ASSUME NEW j \in 1..Len(list), list[j] # key PROVE list[j] \in Elements(new)
    <3>1. CASE j < p
      BY <1>1, <2>1, <2>3, <2>4, <3>1 DEF Elements
    <3>2. CASE j > p
      <4>1. j - 1 \in 1..Len(list)-1 /\ new[j - 1] = list[j]
        BY <1>1, <2>1, <2>3, <3>2
      <4> QED
        BY <2>4, <4>1 DEF Elements
    <3> QED
      BY <2>1, <2>8, <3>1, <3>2
  <2>9. Elements(new) = Elements(list) \ {key}
    BY <1>1, <2>7, <2>8 DEF Elements
  <2> QED
    BY <2>2, <2>3, <2>5, <2>9 DEF new
<1> QED
  BY <1>3, <1>4

-----------------------------------------------------------------------------
\* Iterators, with sets in the place of lists.
Elems     == [key : Keys, linked : BOOLEAN]
Iterators == [Stub : Stubs, StartKey : Bound, EndKey : Bound, Closed : BOOLEAN,
              Current : {Nil} \cup Elems]

\* The keys an iterator can still reach.
Ahead(it) ==
  IF it.Current = Nil THEN {}
  ELSE IF it.Current.linked THEN {k \in Elements(KeyList[it.Stub]) : it.Current.key <= k}
       ELSE {it.Current.key}

\* An element that is linked is one of the list.
Linked(it) ==
  it.Current # Nil /\ it.Current.linked => it.Current.key \in Elements(KeyList[it.Stub])

Ordered == \A s \in Stubs : Ascends(KeyList[s])

LEMMA ReachIsAhead ==
  ASSUME TypeOK, Ordered, iter # Nil, Linked(iter)
  PROVE  /\ Reach(iter) \in Seq(Keys)
         /\ Ascends(Reach(iter))
         /\ Elements(Reach(iter)) = Ahead(iter)
<1> DEFINE list == KeyList[iter.Stub]
           key  == iter.Current.key
           p    == SelectInSeq(list, LAMBDA k : k = key)
<1>1. list \in Seq(Keys) /\ Ascends(list)
  BY DEF TypeOK, Ordered
<1>2. iter.Current # Nil => iter.Current \in Elems
  BY DEF TypeOK, Elems
<1>3. list \in [1..Len(list) -> Keys] /\ Len(list) \in Nat /\ DOMAIN list = 1..Len(list)
  BY <1>1, LenProperties
<1>4. \A j \in 1..Len(list) : list[j] \in Nat
  BY <1>3, KeysAreNumbers
<1>5. CASE iter.Current = Nil
  BY <1>5 DEF Reach, Ahead, Ascends, Elements
<1>6. CASE iter.Current # Nil /\ ~iter.Current.linked
  <2>1. Reach(iter) = <<key>> /\ key \in Keys /\ Ahead(iter) = {key}
    BY <1>2, <1>6 DEF Reach, Ahead, Elems
  <2>2. <<key>> \in Seq(Keys) /\ DOMAIN <<key>> = {1} /\ <<key>>[1] = key
    BY <2>1
  <2>3. Ascends(<<key>>)
    BY <2>2 DEF Ascends
  <2>4. Elements(<<key>>) = {key}
    BY <2>2 DEF Elements
  <2> QED
    BY <2>1, <2>2, <2>3, <2>4
<1>7. CASE iter.Current # Nil /\ iter.Current.linked
  <2>1. p \in 1..Len(list) /\ list[p] = key
    BY <1>1, <1>7, IndexOfKey DEF Linked
  <2>2. Reach(iter) = SubSeq(list, p, Len(list))
    BY <1>7 DEF Reach
  <2> HIDE DEF p
  <2> DEFINE reach == SubSeq(list, p, Len(list))
  <2>3. /\ reach \in Seq(Keys) /\ Len(reach) = Len(list) - p + 1
        /\ \A i \in 1..Len(list)-p+1 : reach[i] = list[p + i - 1]
    BY <1>3, <2>1, SubSeqProperties
  <2> HIDE DEF reach
  <2>4. DOMAIN reach = 1..Len(list)-p+1
    BY <2>3
  <2>5. Ascends(reach)
    <3> SUFFICES ASSUME NEW i \in 1..Len(list)-p+1, NEW j \in 1..Len(list)-p+1, i < j
                 PROVE  reach[i] < reach[j]
      BY <2>4 DEF Ascends
    <3>1. \A m, n \in 1..Len(list) : m < n => list[m] < list[n]
      BY <1>1, <1>3 DEF Ascends
    <3>2. p + i - 1 \in 1..Len(list) /\ p + j - 1 \in 1..Len(list) /\ p + i - 1 < p + j - 1
      BY <1>3, <2>1
    <3>3. reach[i] = list[p + i - 1] /\ reach[j] = list[p + j - 1]
      BY <2>3
    <3> QED
      BY <3>1, <3>2, <3>3
  <2>6. ASSUME NEW j \in 1..Len(list) PROVE (key <= list[j]) <=> (p <= j)
    <3>1. \A m, n \in 1..Len(list) : m < n => list[m] < list[n]
      BY <1>1, <1>3 DEF Ascends
    <3>2. list[j] \in Nat /\ list[p] \in Nat /\ list[p] = key
      BY <1>4, <2>1
    <3>3. j < p => list[j] < key
      BY <2>1, <3>1
    <3>4. p < j => key < list[j]
      BY <2>1, <3>1
    <3> QED
      BY <2>1, <3>2, <3>3, <3>4
  <2>7. Elements(reach) \subseteq Ahead(iter)
    <3>1. ASSUME NEW i \in 1..Len(list)-p+1
          PROVE  \E j \in 1..Len(list) : p <= j /\ reach[i] = list[j]
      <4>1. p + i - 1 \in 1..Len(list) /\ p <= p + i - 1
        BY <1>3, <2>1
      <4> QED
        BY <2>3, <4>1
    <3> QED
      BY <1>3, <1>7, <2>4, <2>6, <3>1 DEF Elements, Ahead
  <2>8. ASSUME NEW j \in 1..Len(list), key <= list[j] PROVE list[j] \in Elements(reach)
    <3>1. j - p + 1 \in 1..Len(list)-p+1 /\ reach[j - p + 1] = list[j]
      BY <1>3, <2>1, <2>3, <2>6, <2>8
    <3> QED
      BY <2>4, <3>1 DEF Elements
  <2>9. Ahead(iter) = {k \in Elements(list) : key <= k}
    BY <1>7 DEF Ahead
  <2> HIDE DEF list, key
  <2>10. Ahead(iter) \subseteq Elements(reach)
    BY <1>3, <2>8, <2>9 DEF Elements
  <2> QED
    BY <2>2, <2>3, <2>5, <2>7, <2>10 DEF reach
<1> QED
  BY <1>5, <1>6, <1>7

\* What Next returns is the first key of its range that it can reach.
LEMMA NextKeyIsFirst ==
  ASSUME TypeOK, Ordered, iter # Nil, Linked(iter), HasNext(iter)
  PROVE  /\ NextKey(iter) \in Ahead(iter) /\ NextKey(iter) \in Keys
         /\ InRange(iter, NextKey(iter))
         /\ \A k \in Ahead(iter) : k < NextKey(iter) => ~InRange(iter, k)
<1> DEFINE reach == Reach(iter)
           I     == {i \in 1..Len(reach) : iter.StartKey <= reach[i]}
           J     == {i \in 1..Len(reach) : InRange(iter, reach[i])}
<1>1. reach \in Seq(Keys) /\ Ascends(reach) /\ Elements(reach) = Ahead(iter)
  BY ReachIsAhead
<1>2. HasNext(iter) => J # {}
  <2>1. CASE I = {}
    BY <2>1 DEF HasNext, SelectInSeq
  <2>2. CASE I # {}
    <3>1. I \in SUBSET Nat
      OBVIOUS
    <3>2. Min(I) \in 1..Len(reach)
      BY <2>2, <3>1, MinInSet
    <3>3. HasNext(iter) => InRange(iter, reach[Min(I)])
      BY <2>2 DEF HasNext, SelectInSeq
    <3> QED
      BY <3>2, <3>3
  <2> QED
    BY <2>1, <2>2
<1>3. NextKey(iter) = reach[Min(J)]
  BY <1>2 DEF NextKey, SelectInSeq
<1>4. J \in SUBSET Nat
  OBVIOUS
<1>5. Min(J) \in J /\ \A j \in J : Min(J) <= j
  BY <1>2, <1>4, MinInSet
<1> DEFINE m == Min(J)
<1>6. m \in 1..Len(reach) /\ InRange(iter, reach[m])
      /\ \A j \in 1..Len(reach) : InRange(iter, reach[j]) => m <= j
  BY <1>5
<1> HIDE DEF m, reach
<1>7. DOMAIN reach = 1..Len(reach) /\ Len(reach) \in Nat /\ \A j \in 1..Len(reach) : reach[j] \in Nat
  BY <1>1, LenProperties, KeysAreNumbers
<1>8. reach[m] \in Keys /\ reach[m] \in Elements(reach)
  BY <1>1, <1>6, <1>7 DEF Elements
<1>9. \A j \in 1..Len(reach) : reach[j] < reach[m] => j < m
  BY <1>1, <1>6, <1>7 DEF Ascends
<1>10. \A j \in 1..Len(reach) : reach[j] < reach[m] => ~InRange(iter, reach[j])
  BY <1>6, <1>7, <1>9
<1>11. \A k \in Elements(reach) : k < reach[m] => ~InRange(iter, k)
  BY <1>7, <1>10 DEF Elements
<1> QED
  BY <1>1, <1>3, <1>6, <1>8, <1>11 DEF m

\* The element after one that is linked holds the next greater key.
LEMMA NextElementIsNext ==
  ASSUME TypeOK, Ordered, NEW s \in Stubs, NEW e \in Elems, e.linked, e.key \in Elements(KeyList[s])
  PROVE  \/ /\ NextElement(s, e) = Nil
            /\ \A k \in Elements(KeyList[s]) : k <= e.key
         \/ \E n \in Elements(KeyList[s]) :
              /\ NextElement(s, e) = Element(n) /\ n \in Keys
              /\ e.key < n
              /\ \A k \in Elements(KeyList[s]) : e.key < k => n <= k
<1> DEFINE list == KeyList[s]
           key  == e.key
           p    == SelectInSeq(list, LAMBDA k : k = key)
<1>1. list \in Seq(Keys) /\ Ascends(list)
  BY DEF TypeOK, Ordered
<1>2. list \in [1..Len(list) -> Keys] /\ Len(list) \in Nat /\ DOMAIN list = 1..Len(list)
  BY <1>1, LenProperties
<1>3. \A j \in 1..Len(list) : list[j] \in Nat
  BY <1>2, KeysAreNumbers
<1>4. p \in 1..Len(list) /\ list[p] = key
  BY <1>1, IndexOfKey
<1>5. NextElement(s, e) = IF p < Len(list) THEN Element(list[p + 1]) ELSE Nil
  BY DEF NextElement
<1> HIDE DEF p, list
<1>6. \A m, n \in 1..Len(list) : m < n => list[m] < list[n]
  BY <1>1, <1>2 DEF Ascends
<1>7. CASE p < Len(list)
  <2>1. p + 1 \in 1..Len(list)
    BY <1>2, <1>4, <1>7
  <2>2. key < list[p + 1]
    BY <1>4, <1>6, <2>1
  <2>3. \A j \in 1..Len(list) : key < list[j] => list[p + 1] <= list[j]
    <3> SUFFICES ASSUME NEW j \in 1..Len(list), key < list[j] PROVE list[p + 1] <= list[j]
      OBVIOUS
    <3>1. p < j
      BY <1>3, <1>4, <1>6
    <3>2. j = p + 1 \/ p + 1 < j
      BY <1>4, <3>1
    <3> QED
      BY <1>3, <1>6, <2>1, <3>2
  <2>4. list[p + 1] \in Elements(list) /\ list[p + 1] \in Keys
    BY <1>2, <2>1 DEF Elements
  <2>5. \A k \in Elements(list) : key < k => list[p + 1] <= k
    BY <1>2, <2>3 DEF Elements
  <2> QED
    BY <1>5, <1>7, <2>2, <2>4, <2>5 DEF list
<1>8. CASE p >= Len(list)
  <2>1. \A j \in 1..Len(list) : list[j] <= key
    BY <1>2, <1>3, <1>4, <1>6, <1>8
  <2> QED
    BY <1>2, <1>4, <1>5, <1>8, <2>1 DEF list, Elements
<1> QED
  BY <1>2, <1>4, <1>7, <1>8

-----------------------------------------------------------------------------
\* The inductive invariant: each list holds, in order, the keys that have a
\* value; what a scan has returned lies below what it can still reach; what it
\* owes it has returned or can reach.
ListsInOrder ==
  \A s \in Stubs : Ascends(KeyList[s]) /\ Elements(KeyList[s]) = Present(s)

ScanKnown ==
  iter # Nil =>
    /\ Linked(iter)
    /\ Ascends(seen)
    /\ \A k \in Elements(seen) : InRange(iter, k) /\ \A m \in Ahead(iter) : k < m
    /\ \A k \in owed : InRange(iter, k) /\ k \in Elements(seen) \cup Ahead(iter)

IndInv == TypeOK /\ ListsInOrder /\ ScanKnown

LEMMA IterFacts ==
  ASSUME TypeOK, iter # Nil
  PROVE  /\ iter \in Iterators /\ iter.Stub \in Stubs
         /\ iter.StartKey \in Bound /\ iter.EndKey \in Bound /\ iter.Closed \in BOOLEAN
         /\ iter.Current # Nil => /\ iter.Current \in Elems
                                  /\ iter.Current.key \in Keys /\ iter.Current.linked \in BOOLEAN
  BY DEF TypeOK, Iterators, Elems

\* What unlinking an element leaves of an iterator.
LEMMA UnlinkedShape ==
  ASSUME TypeOK, iter # Nil, NEW s, NEW key, NEW it, it = Unlinked(s, key)
  PROVE  /\ it \in Iterators /\ it.Stub = iter.Stub
         /\ it.StartKey = iter.StartKey /\ it.EndKey = iter.EndKey
         /\ iter.Stub = s /\ iter.Current # Nil /\ iter.Current.key = key =>
              it.Current \in Elems /\ it.Current.key = key /\ ~it.Current.linked
         /\ ~(iter.Stub = s /\ iter.Current # Nil /\ iter.Current.key = key) => it = iter
<1>1. CASE iter.Stub = s /\ iter.Current # Nil /\ iter.Current.key = key
  <2> DEFINE cur == [iter.Current EXCEPT !.linked = FALSE]
  <2>1. cur \in Elems /\ cur.key = key /\ ~cur.linked
    BY <1>1, IterFacts DEF Elems
  <2>2. it = [iter EXCEPT !.Current = cur]
    BY <1>1 DEF Unlinked
  <2> HIDE DEF cur
  <2>3. it \in Iterators /\ it.Stub = iter.Stub /\ it.Current = cur
        /\ it.StartKey = iter.StartKey /\ it.EndKey = iter.EndKey
    BY <2>1, <2>2, IterFacts DEF Iterators
  <2> QED
    BY <1>1, <2>1, <2>3
<1>2. CASE ~(iter.Stub = s /\ iter.Current # Nil /\ iter.Current.key = key)
  <2>1. it = iter
    BY <1>2 DEF Unlinked
  <2> QED
    BY <1>2, <2>1, IterFacts
<1> QED
  BY <1>1, <1>2

\* What a deletion does to the lists and to what can still be reached.
LEMMA DeleteKeeps ==
  ASSUME IndInv, NEW s \in Stubs, NEW key \in Keys, Delete(s, key), TypeOK'
  PROVE  ListsInOrder' /\ ScanKnown'
<1>1. TypeOK /\ ListsInOrder /\ ScanKnown
  BY DEF IndInv
<1>2. State' = [State EXCEPT ![s][key] = Nil]
      /\ KeyList' = [KeyList EXCEPT ![s] = RemoveKey(@, key)]
      /\ iter' = Unlinked(s, key) /\ seen' = seen
      /\ owed' = IF iter' # iter THEN {}
                 ELSE IF iter # Nil /\ iter.Stub = s THEN owed \ {key} ELSE owed
  BY DEF Delete
<1>3. \A t \in Stubs : KeyList'[t] = IF t = s THEN RemoveKey(KeyList[s], key) ELSE KeyList[t]
  BY <1>1, <1>2 DEF TypeOK
<1>4. KeyList[s] \in Seq(Keys) /\ Ascends(KeyList[s])
  BY <1>1 DEF TypeOK, ListsInOrder
<1>5. \A t \in Stubs : /\ Ascends(KeyList'[t])
                       /\ Elements(KeyList'[t]) = IF t = s THEN Elements(KeyList[s]) \ {key}
                                                  ELSE Elements(KeyList[t])
  BY <1>1, <1>3, <1>4, RemoveKeyKeepsOrder DEF ListsInOrder
<1>6. \A t \in Stubs : Present(t)' = IF t = s THEN Present(s) \ {key} ELSE Present(t)
  <2>1. \A t \in Stubs, k \in Keys : State'[t][k] = IF t = s /\ k = key THEN Nil ELSE State[t][k]
    BY <1>1, <1>2 DEF TypeOK
  <2> QED
    BY <2>1 DEF Present
<1>7. ListsInOrder'
  BY <1>1, <1>5, <1>6 DEF ListsInOrder
<1>8. CASE iter = Nil
  <2>1. Unlinked(s, key) = iter
    BY <1>8 DEF Unlinked
  <2>2. iter' = Nil
    BY <1>2, <1>8, <2>1
  <2> QED
    BY <1>7, <2>2 DEF ScanKnown
<1>9. CASE iter # Nil /\ iter.Stub = s /\ iter.Current # Nil /\ iter.Current.key = key
  <2>1. /\ iter'.Stub = s /\ iter'.StartKey = iter.StartKey /\ iter'.EndKey = iter.EndKey
        /\ iter'.Current \in Elems /\ iter'.Current.key = key /\ ~iter'.Current.linked
    BY <1>1, <1>2, <1>9, UnlinkedShape
  <2>2. Ahead(iter)' = {key} /\ Linked(iter)' /\ key \in Ahead(iter)
    <3>1. iter'.Current # Nil
      BY <2>1, NilAssumption DEF Elems
    <3>2. key \in Nat /\ Linked(iter)
      BY <1>1, <1>9, KeysAreNumbers DEF ScanKnown
    <3>3. Ahead(iter)' = {key} /\ Linked(iter)'
      BY <2>1, <3>1 DEF Ahead, Linked
    <3>4. key \in Ahead(iter)
      BY <1>9, <3>2 DEF Ahead, Linked
    <3> QED
      BY <3>3, <3>4
  <2>3. \A k : InRange(iter', k) <=> InRange(iter, k)
    BY <2>1 DEF InRange
  <2>4. owed' \subseteq owed /\ (iter.Current.linked => owed' = {})
    BY <1>2, <2>1
  <2>5. ~iter.Current.linked => Ahead(iter) = {key}
    BY <1>9 DEF Ahead
  <2>6. \A k \in owed' : InRange(iter, k) /\ k \in Elements(seen) \cup {key}
    BY <1>1, <1>9, <2>4, <2>5 DEF ScanKnown
  <2>7. \A k \in Elements(seen) : InRange(iter, k) /\ k < key
    BY <1>1, <1>9, <2>2 DEF ScanKnown
  <2>8. Ascends(seen)
    BY <1>1, <1>9 DEF ScanKnown
  <2> QED
    BY <1>2, <1>7, <2>2, <2>3, <2>6, <2>7, <2>8 DEF ScanKnown
<1>10. CASE iter # Nil /\ ~(iter.Stub = s /\ iter.Current # Nil /\ iter.Current.key = key)
  <2>1. iter' = iter /\ iter.Stub \in Stubs
    BY <1>1, <1>2, <1>10, UnlinkedShape, IterFacts
  <2>2. owed' = IF iter.Stub = s THEN owed \ {key} ELSE owed
    BY <1>2, <1>10, <2>1
  <2>3. Ahead(iter)' \subseteq Ahead(iter)
    BY <1>5, <2>1 DEF Ahead
  <2>4. \A k \in Ahead(iter) : k \in Ahead(iter)' \/ (iter.Stub = s /\ k = key)
    BY <1>5, <1>10, <2>1 DEF Ahead
  <2>5. Linked(iter)'
    BY <1>1, <1>5, <1>10, <2>1 DEF Linked, ScanKnown
  <2>6. /\ Ascends(seen)
        /\ \A k \in Elements(seen) : InRange(iter, k) /\ \A m \in Ahead(iter)' : k < m
    BY <1>1, <1>10, <2>3 DEF ScanKnown
  <2>7. ASSUME NEW k \in owed' PROVE InRange(iter, k) /\ k \in Elements(seen) \cup Ahead(iter)'
    <3>1. k \in owed /\ ~(iter.Stub = s /\ k = key)
      BY <2>2
    <3>2. InRange(iter, k) /\ k \in Elements(seen) \cup Ahead(iter)
      BY <1>1, <1>10, <3>1 DEF ScanKnown
    <3> QED
      BY <2>4, <3>1, <3>2
  <2> QED
    BY <1>2, <1>7, <2>1, <2>5, <2>6, <2>7 DEF ScanKnown
<1> QED
  BY <1>7, <1>8, <1>9, <1>10

LEMMA PutKeeps ==
  ASSUME IndInv, NEW s \in Stubs, NEW key \in Keys, NEW value \in Values, PutState(s, key, value)
  PROVE  ListsInOrder' /\ ScanKnown'
<1>1. TypeOK /\ ListsInOrder /\ ScanKnown
  BY DEF IndInv
<1>2. State' = [State EXCEPT ![s][key] = value]
      /\ KeyList' = [KeyList EXCEPT ![s] = InsertKey(@, key)]
      /\ UNCHANGED <<iter, seen, owed>>
  BY DEF PutState, scan
<1>3. \A t \in Stubs : KeyList'[t] = IF t = s THEN InsertKey(KeyList[s], key) ELSE KeyList[t]
  BY <1>1, <1>2 DEF TypeOK
<1>4. KeyList[s] \in Seq(Keys) /\ Ascends(KeyList[s])
  BY <1>1 DEF TypeOK, ListsInOrder
<1>5. \A t \in Stubs : /\ Ascends(KeyList'[t])
                       /\ Elements(KeyList'[t]) = IF t = s THEN Elements(KeyList[s]) \cup {key}
                                                  ELSE Elements(KeyList[t])
  BY <1>1, <1>3, <1>4, InsertKeyKeepsOrder DEF ListsInOrder
<1>6. \A t \in Stubs : Present(t)' = IF t = s THEN Present(s) \cup {key} ELSE Present(t)
  <2>1. \A t \in Stubs, k \in Keys : State'[t][k] = IF t = s /\ k = key THEN value ELSE State[t][k]
    BY <1>1, <1>2 DEF TypeOK
  <2>2. value # Nil
    BY NilAssumption
  <2> QED
    BY <2>1, <2>2 DEF Present
<1>7. ListsInOrder'
  BY <1>1, <1>5, <1>6 DEF ListsInOrder
<1>8. ASSUME iter # Nil PROVE ScanKnown'
  <2>1. iter.Stub \in Stubs
    BY <1>1, <1>8, IterFacts
  <2>2. Ahead(iter) \subseteq Ahead(iter)' /\ Linked(iter)'
    BY <1>1, <1>2, <1>5, <1>8, <2>1 DEF Ahead, Linked, ScanKnown
  <2>3. \A k \in Elements(seen), m \in Ahead(iter)' : k < m
    <3> SUFFICES ASSUME NEW k \in Elements(seen), NEW m \in Ahead(iter)', m \notin Ahead(iter)
                 PROVE  k < m
      BY <1>1, <1>8 DEF ScanKnown
    <3>1. iter.Current # Nil /\ iter.Current.linked /\ m = key /\ iter.Current.key <= key
      BY <1>2, <1>5, <2>1 DEF Ahead
    <3>2. iter.Current.key \in Ahead(iter)
      <4>1. iter.Current.key \in Nat
        BY <1>1, <1>8, <3>1, IterFacts, KeysAreNumbers
      <4> QED
        BY <1>1, <1>8, <3>1, <4>1 DEF Ahead, Linked, ScanKnown
    <3>3. k < iter.Current.key
      BY <1>1, <1>8, <3>2 DEF ScanKnown
    <3>4. k \in Nat /\ key \in Nat /\ iter.Current.key \in Nat
      BY <1>1, <1>8, <3>1, IterFacts, KeysAreNumbers, LenProperties DEF TypeOK, Elements
    <3> QED
      BY <3>1, <3>3, <3>4
  <2> QED
    BY <1>1, <1>2, <1>8, <2>2, <2>3 DEF ScanKnown, InRange
<1> QED
  BY <1>2, <1>7, <1>8 DEF ScanKnown

LEMMA OthersKeep ==
  ASSUME IndInv, UNCHANGED <<State, KeyList, iter, seen, owed>>
  PROVE  ListsInOrder' /\ ScanKnown'
<1>1. ListsInOrder'
  BY DEF IndInv, ListsInOrder, Present
<1>2. Ahead(iter)' = Ahead(iter) /\ (Linked(iter)' <=> Linked(iter))
  BY DEF Ahead, Linked
<1>3. ScanKnown'
  BY <1>2 DEF IndInv, ScanKnown, InRange
<1> QED
  BY <1>1, <1>3

LEMMA AppendAscends ==
  ASSUME NEW list \in Seq(Keys), Ascends(list), NEW key \in Keys, \A k \in Elements(list) : k < key
  PROVE  /\ Append(list, key) \in Seq(Keys)
         /\ Ascends(Append(list, key))
         /\ Elements(Append(list, key)) = Elements(list) \cup {key}
<1> DEFINE new == Append(list, key)
<1>1. Len(list) \in Nat /\ DOMAIN list = 1..Len(list)
  BY LenProperties
<1>2. /\ new \in Seq(Keys) /\ DOMAIN new = 1..Len(list)+1 /\ new[Len(list) + 1] = key
      /\ \A i \in 1..Len(list) : new[i] = list[i]
  BY <1>1
<1> HIDE DEF new
<1>3. 1..Len(list)+1 = 1..Len(list) \cup {Len(list) + 1}
  BY <1>1
<1>4. \A i \in 1..Len(list) : list[i] < key
  BY <1>1 DEF Elements
<1>5. Ascends(new)
  <2> SUFFICES ASSUME NEW i \in 1..Len(list)+1, NEW j \in 1..Len(list)+1, i < j PROVE new[i] < new[j]
    BY <1>2 DEF Ascends
  <2>1. CASE j \in 1..Len(list)
    BY <1>1, <1>2, <2>1 DEF Ascends
  <2>2. CASE j = Len(list) + 1
    BY <1>1, <1>2, <1>4, <2>2
  <2> QED
    BY <1>3, <2>1, <2>2
<1>6. Elements(new) = Elements(list) \cup {key}
  BY <1>1, <1>2, <1>3 DEF Elements
<1> QED
  BY <1>2, <1>5, <1>6 DEF new

LEMMA OpenKeeps ==
  ASSUME IndInv, NEW s \in Stubs, NEW from \in Bound, NEW to \in Bound, GetStateByRange(s, from, to)
  PROVE  ListsInOrder' /\ ScanKnown' /\ iter' \in Iterators
<1>1. TypeOK /\ ListsInOrder
  BY DEF IndInv
<1> DEFINE cur == FirstElement(s)
           list == KeyList[s]
<1>2. /\ UNCHANGED <<State, KeyList>> /\ seen' = <<>>
      /\ iter' = [Stub |-> s, StartKey |-> from, EndKey |-> to, Current |-> cur, Closed |-> FALSE]
      /\ owed' = {k \in Present(s) : InRange(iter', k)}
  BY DEF GetStateByRange, data
<1>3. ListsInOrder'
  BY <1>1, <1>2 DEF ListsInOrder, Present
<1>4. list \in Seq(Keys) /\ Ascends(list) /\ Elements(list) = Present(s)
  BY <1>1 DEF TypeOK, ListsInOrder
<1>5. Len(list) \in Nat /\ DOMAIN list = 1..Len(list) /\ \A i \in 1..Len(list) : list[i] \in Keys
  BY <1>4, LenProperties
<1>6. \/ cur = Nil /\ Elements(list) = {}
      \/ /\ cur \in Elems /\ cur.linked /\ cur.key \in Elements(list)
         /\ \A k \in Elements(list) : cur.key <= k
  <2>1. CASE list = <<>>
    BY <2>1 DEF FirstElement, Elements
  <2>2. CASE list # <<>>
    <3>1. 1 \in 1..Len(list) /\ cur = Element(list[1])
      BY <1>4, <1>5, <2>2 DEF FirstElement
    <3>2. cur \in Elems /\ cur.linked /\ cur.key = list[1]
      BY <1>5, <3>1 DEF Element, Elems
    <3>3. \A i \in 1..Len(list) : list[1] <= list[i]
      BY <1>4, <1>5, <3>1, KeysAreNumbers DEF Ascends
    <3> QED
      BY <1>5, <3>1, <3>2, <3>3 DEF Elements
  <2> QED
    BY <2>1, <2>2
<1> HIDE DEF cur
<1>7. iter'.Stub = s /\ iter'.Current = cur
  BY <1>2
<1>8. iter' \in Iterators
  BY <1>2, <1>6 DEF Iterators
<1>9. Elements(list) \subseteq Ahead(iter)' /\ Linked(iter)'
  <2>1. cur \in Elems => cur # Nil
    BY NilAssumption DEF Elems
  <2> QED
    BY <1>2, <1>6, <1>7, <2>1 DEF Ahead, Linked
<1>10. Ascends(<<>>) /\ Elements(<<>>) = {}
  BY DEF Ascends, Elements
<1>11. ScanKnown'
  <2>1. Ascends(seen') /\ Elements(seen') = {}
    BY <1>2, <1>10
  <2>2. \A k \in owed' : InRange(iter', k) /\ k \in Ahead(iter)'
    BY <1>2, <1>4, <1>9
  <2> QED
    BY <1>9, <2>1, <2>2 DEF ScanKnown
<1> QED
  BY <1>3, <1>8, <1>11

LEMMA NextKeeps ==
  ASSUME IndInv, IterNext
  PROVE  ListsInOrder' /\ ScanKnown' /\ iter' \in Iterators /\ seen' \in Seq(Keys)
<1> DEFINE nk  == NextKey(iter)
           e   == [iter.Current EXCEPT !.key = nk]
           cur == NextElement(iter.Stub, e)
           list == KeyList[iter.Stub]
<1>1. TypeOK /\ ListsInOrder /\ ScanKnown /\ Ordered /\ iter # Nil /\ HasNext(iter) /\ Linked(iter)
  BY DEF IndInv, ListsInOrder, Ordered, ScanKnown, IterNext
<1>2. /\ UNCHANGED <<State, KeyList, owed>> /\ seen' = Append(seen, nk)
      /\ iter' = [iter EXCEPT !.Current = cur]
  BY DEF IterNext, data
<1>3. ListsInOrder'
  BY <1>1, <1>2 DEF ListsInOrder, Present
<1>4. /\ nk \in Ahead(iter) /\ nk \in Keys /\ InRange(iter, nk)
      /\ \A k \in Ahead(iter) : k < nk => ~InRange(iter, k)
  BY <1>1, NextKeyIsFirst
<1> HIDE DEF nk
<1>5. iter.Current # Nil
  BY <1>4 DEF Ahead
<1>6. iter.Current \in Elems /\ iter.Stub \in Stubs /\ iter \in Iterators
  BY <1>1, <1>5, IterFacts
<1>7. e \in Elems /\ e.key = nk /\ e.linked = iter.Current.linked
  BY <1>4, <1>6 DEF Elems
<1> HIDE DEF e
<1>8. \A k \in Elements(list) : k \in Nat
  BY <1>1, <1>6, KeysAreNumbers, LenProperties DEF TypeOK, Elements
<1>9. nk \in Nat
  BY <1>4, KeysAreNumbers
<1>10. \/ cur = Nil /\ \A k \in Ahead(iter) : k <= nk
       \/ /\ cur \in Elems /\ cur.linked /\ cur.key \in Elements(list) /\ nk < cur.key
          /\ \A k \in Ahead(iter) : k <= nk \/ (k \in Elements(list) /\ cur.key <= k)
  <2>1. CASE ~iter.Current.linked
    <3>1. cur = Nil
      BY <1>7, <2>1 DEF NextElement
    <3>2. Ahead(iter) = {iter.Current.key}
      BY <1>5, <2>1 DEF Ahead
    <3> QED
      BY <1>4, <1>9, <3>1, <3>2
  <2>2. CASE iter.Current.linked
    <3>1. Ahead(iter) \subseteq Elements(list)
      BY <1>5, <2>2 DEF Ahead
    <3>2. \/ /\ cur = Nil
             /\ \A k \in Elements(list) : k <= nk
          \/ \E n \in Elements(list) :
               /\ cur = Element(n) /\ n \in Keys
               /\ nk < n
               /\ \A k \in Elements(list) : nk < k => n <= k
      BY <1>1, <1>4, <1>6, <1>7, <2>2, <3>1, NextElementIsNext
    <3>3. CASE cur = Nil /\ \A k \in Elements(list) : k <= nk
      BY <3>1, <3>3
    <3>4. ASSUME NEW n \in Elements(list), cur = Element(n), n \in Keys, nk < n,
                 \A k \in Elements(list) : nk < k => n <= k
          PROVE  /\ cur \in Elems /\ cur.linked /\ cur.key \in Elements(list) /\ nk < cur.key
                 /\ \A k \in Ahead(iter) : k <= nk \/ (k \in Elements(list) /\ cur.key <= k)
      <4>1. cur \in Elems /\ cur.linked /\ cur.key = n
        BY <3>4 DEF Element, Elems
      <4>2. \A k \in Ahead(iter) : k \in Elements(list) /\ (k <= nk \/ nk < k)
        BY <1>8, <1>9, <3>1
      <4> QED
        BY <3>4, <4>1, <4>2
    <3> QED
      BY <3>2, <3>3, <3>4
  <2> QED
    BY <1>6, <2>1, <2>2 DEF Elems
<1> HIDE DEF cur
<1>11. /\ iter' \in Iterators /\ iter'.Stub = iter.Stub /\ iter'.Current = cur
       /\ iter'.StartKey = iter.StartKey /\ iter'.EndKey = iter.EndKey
  BY <1>2, <1>6, <1>10 DEF Iterators
<1>12. \A k : InRange(iter', k) <=> InRange(iter, k)
  BY <1>11 DEF InRange
<1>13. cur \in Elems => cur # Nil
  BY NilAssumption DEF Elems
<1>14. Linked(iter)'
  BY <1>2, <1>10, <1>11, <1>13 DEF Linked
<1>15. \A k \in Ahead(iter) : k <= nk \/ k \in Ahead(iter)'
  BY <1>2, <1>10, <1>11, <1>13 DEF Ahead
<1>16. \A m \in Ahead(iter)' : nk < m /\ m \in Nat
  <2> SUFFICES ASSUME NEW m \in Ahead(iter)' PROVE nk < m /\ m \in Nat
    OBVIOUS
  <2>1. cur # Nil /\ cur \in Elems /\ cur.linked /\ cur.key \in Elements(list) /\ nk < cur.key
    BY <1>10, <1>11 DEF Ahead
  <2>2. m \in Elements(list) /\ cur.key <= m
    BY <1>2, <1>11, <2>1 DEF Ahead
  <2> QED
    BY <1>8, <1>9, <2>1, <2>2
<1>17. \A k \in Elements(seen) : k < nk /\ k \in Nat
  <2>1. \A k \in Elements(seen) : k < nk
    BY <1>1, <1>4 DEF ScanKnown
  <2>2. seen \in Seq(Keys)
    BY <1>1 DEF TypeOK
  <2>3. \A k \in Elements(seen) : k \in Nat
    BY <2>2, KeysAreNumbers, LenProperties DEF Elements
  <2> QED
    BY <2>1, <2>3
<1>18. seen' \in Seq(Keys) /\ Ascends(seen') /\ Elements(seen') = Elements(seen) \cup {nk}
  BY <1>1, <1>2, <1>4, <1>17, AppendAscends DEF TypeOK, ScanKnown
<1>19. \A k \in Elements(seen') : InRange(iter', k) /\ \A m \in Ahead(iter)' : k < m
  <2>1. \A k \in Elements(seen') : InRange(iter, k)
    BY <1>1, <1>4, <1>18 DEF ScanKnown
  <2>2. \A k \in Elements(seen') : k <= nk /\ k \in Nat
    BY <1>9, <1>17, <1>18
  <2> QED
    BY <1>9, <1>12, <1>16, <2>1, <2>2
<1>20. ASSUME NEW k \in owed' PROVE InRange(iter', k) /\ k \in Elements(seen') \cup Ahead(iter)'
  <2>1. InRange(iter, k) /\ k \in Elements(seen) \cup Ahead(iter)
    BY <1>1, <1>2 DEF ScanKnown
  <2>2. k \in Ahead(iter) => k \in Ahead(iter)' \/ k = nk
    <3> SUFFICES ASSUME k \in Ahead(iter), k \notin Ahead(iter)' PROVE k = nk
      OBVIOUS
    <3>1. k <= nk /\ ~(k < nk)
      BY <1>4, <1>15, <2>1
    <3>2. k \in Nat
      BY <1>5, <1>6, <1>8, KeysAreNumbers DEF Ahead, Elems
    <3> QED
      BY <1>9, <3>1, <3>2
  <2> QED
    BY <1>12, <1>18, <2>1, <2>2
<1>21. ScanKnown'
  BY <1>14, <1>18, <1>19, <1>20 DEF ScanKnown
<1> QED
  BY <1>3, <1>11, <1>18, <1>21

LEMMA CloseKeeps ==
  ASSUME IndInv, Close
  PROVE  ListsInOrder' /\ ScanKnown' /\ iter' \in Iterators
<1>1. TypeOK /\ ListsInOrder /\ ScanKnown /\ iter # Nil
  BY DEF IndInv, Close
<1>2. UNCHANGED <<State, KeyList, seen>> /\ iter' = [iter EXCEPT !.Closed = TRUE] /\ owed' = {}
  BY DEF Close, data
<1>3. ListsInOrder'
  BY <1>1, <1>2 DEF ListsInOrder, Present
<1>4. iter \in Iterators
  BY <1>1, IterFacts
<1>5. /\ iter' \in Iterators /\ iter'.Stub = iter.Stub /\ iter'.Current = iter.Current
      /\ iter'.StartKey = iter.StartKey /\ iter'.EndKey = iter.EndKey
  BY <1>2, <1>4 DEF Iterators
<1>6. Ahead(iter)' = Ahead(iter) /\ Linked(iter)'
  <2>1. KeyList' = KeyList /\ Linked(iter)
    BY <1>1, <1>2 DEF ScanKnown
  <2>2. Ahead(iter)' = Ahead(iter)
    BY <1>5, <2>1 DEF Ahead
  <2>3. Linked(iter)'
    BY <1>5, <2>1 DEF Linked
  <2> QED
    BY <2>2, <2>3
<1>7. \A k : InRange(iter', k) <=> InRange(iter, k)
  BY <1>5 DEF InRange
<1>8. ScanKnown'
  BY <1>1, <1>2, <1>6, <1>7 DEF ScanKnown
<1> QED
  BY <1>3, <1>5, <1>8

-----------------------------------------------------------------------------
\* Types.
LEMMA TopOfStack ==
  ASSUME TypeOK, stack # <<>>
  PROVE  /\ Last(stack).stub \in Stubs
         /\ Front(stack) \in Seq([stub : Stubs, uuid : TxIds \cup {Nil}])
<1> DEFINE Calls == [stub : Stubs, uuid : TxIds \cup {Nil}]
<1>1. stack \in Seq(Calls) /\ Len(stack) \in Nat \ {0}
  BY DEF TypeOK
<1>2. \A i \in 1..Len(stack) : stack[i] \in Calls
  BY <1>1, ElementOfSeq
<1>3. Last(stack) \in Calls
  BY <1>1, <1>2 DEF Last
<1>4. Front(stack) \in Seq(Calls)
  BY <1>1, <1>2, SubSeqProperties DEF Front
<1> QED
  BY <1>3, <1>4

LEMMA EnterKeepsType ==
  ASSUME TypeOK, NEW s \in Stubs, NEW tx \in TxIds \cup {Nil}, Enter(s, tx)
  PROVE  TypeOK'
<1>1. Append(stack, [stub |-> s, uuid |-> tx]) \in Seq([stub : Stubs, uuid : TxIds \cup {Nil}])
  BY DEF TypeOK
<1>2. TxID' \in [Stubs -> TxIds \cup {Nil}]
  BY DEF Enter, TypeOK
<1> QED
  BY <1>1, <1>2 DEF Enter, TypeOK, data, scan

LEMMA EventKeepsType ==
  ASSUME TypeOK, NEW s \in Stubs, SetEvent(s) \/ ReceiveEvent(s)
  PROVE  TypeOK'
<1>1. events[s] \in 0..EventSlots /\ EventSlots \in Nat
  BY BoundsAssumption DEF TypeOK
<1>2. UNCHANGED <<State, KeyList, TxID, stack, lost, iter, seen, owed>>
  BY DEF SetEvent, ReceiveEvent, data, control, scan
<1>3. run' \in {"running", "blocked", "panicked"}
  BY DEF SetEvent, ReceiveEvent, TypeOK
<1>4. \/ UNCHANGED events
      \/ events' = [events EXCEPT ![s] = events[s] + 1] /\ events[s] < EventSlots
      \/ events' = [events EXCEPT ![s] = events[s] - 1] /\ events[s] > 0
  BY DEF SetEvent, ReceiveEvent
<1>5. events' \in [Stubs -> 0..EventSlots]
  <2>1. ASSUME NEW n \in 0..EventSlots, events' = [events EXCEPT ![s] = n]
        PROVE  events' \in [Stubs -> 0..EventSlots]
    BY <2>1 DEF TypeOK
  <2>2. events[s] < EventSlots => events[s] + 1 \in 0..EventSlots
    BY <1>1
  <2>3. events[s] > 0 => events[s] - 1 \in 0..EventSlots
    BY <1>1
  <2> QED
    BY <1>4, <2>1, <2>2, <2>3 DEF TypeOK
<1> QED
  BY <1>2, <1>3, <1>5 DEF TypeOK

LEMMA DataKeepsType ==
  ASSUME TypeOK, NEW s \in Stubs, NEW key \in Keys, NEW value \in Values \cup {Nil},
         NEW list \in Seq(Keys),
         State' = [State EXCEPT ![s][key] = value],
         KeyList' = [KeyList EXCEPT ![s] = list],
         UNCHANGED <<TxID, stack, lost, events, seen, run>>,
         iter' = iter \/ (iter # Nil /\ iter' \in Iterators),
         owed' \subseteq owed
  PROVE  TypeOK'
<1>1. State' \in [Stubs -> [Keys -> Values \cup {Nil}]]
  BY DEF TypeOK
<1>2. KeyList' \in [Stubs -> Seq(Keys)]
  BY DEF TypeOK
<1> QED
  BY <1>1, <1>2 DEF TypeOK, Iterators, Elems

\* A deletion keeps types.
LEMMA DeleteKeepsType ==
  ASSUME TypeOK, Ordered, NEW s \in Stubs, NEW key \in Keys, Delete(s, key)
  PROVE  TypeOK'
<1>1. RemoveKey(KeyList[s], key) \in Seq(Keys)
  BY RemoveKeyKeepsOrder DEF TypeOK, Ordered
<1>2. iter' = iter \/ (iter # Nil /\ iter' \in Iterators)
  <2>1. iter' = Unlinked(s, key)
    BY DEF Delete
  <2>2. CASE iter = Nil
    BY <2>1, <2>2 DEF Unlinked
  <2>3. CASE iter # Nil
    BY <2>1, <2>3, UnlinkedShape
  <2> QED
    BY <2>2, <2>3
<1>3. owed' \subseteq owed
  BY DEF Delete
<1>4. /\ State' = [State EXCEPT ![s][key] = Nil]
      /\ KeyList' = [KeyList EXCEPT ![s] = RemoveKey(KeyList[s], key)]
      /\ UNCHANGED <<TxID, stack, lost, events, seen, run>>
  BY DEF Delete, control
<1> QED
  BY <1>1, <1>2, <1>3, <1>4, DataKeepsType

-----------------------------------------------------------------------------
LEMMA InitEstablishes == Init => IndInv
<1> SUFFICES ASSUME Init PROVE IndInv
  OBVIOUS
<1>1. TypeOK
  BY BoundsAssumption DEF Init, TypeOK
<1>2. \A s \in Stubs : KeyList[s] = <<>> /\ Present(s) = {}
  BY DEF Init, Present
<1>3. Ascends(<<>>) /\ Elements(<<>>) = {}
  BY DEF Ascends, Elements
<1>4. ListsInOrder
  BY <1>2, <1>3 DEF ListsInOrder
<1>5. ScanKnown
  BY DEF Init, ScanKnown
<1> QED
  BY <1>1, <1>4, <1>5 DEF IndInv

LEMMA Preserved == IndInv /\ [Next]_vars => IndInv'
<1> SUFFICES ASSUME IndInv, [Next]_vars PROVE IndInv'
  OBVIOUS
<1>1. TypeOK /\ ListsInOrder /\ Ordered
  BY DEF IndInv, ListsInOrder, Ordered
<1>2. ASSUME TypeOK', UNCHANGED <<State, KeyList, iter, seen, owed>> PROVE IndInv'
  BY <1>2, OthersKeep DEF IndInv
<1>3. ASSUME NEW s \in Stubs, NEW tx \in TxIds, TestStart(s, tx) PROVE IndInv'
  <2>1. TypeOK'
    BY <1>1, <1>3 DEF TestStart, TypeOK, data, scan
  <2> QED
    BY <1>2, <1>3, <2>1 DEF TestStart, data, scan
<1>4. ASSUME NEW s \in Stubs, TestEnd(s) PROVE IndInv'
  <2>1. TypeOK'
    BY <1>1, <1>4 DEF TestEnd, TypeOK, data, scan
  <2> QED
    BY <1>2, <1>4, <2>1 DEF TestEnd, data, scan
<1>5. ASSUME NEW s \in Stubs, NEW tx \in TxIds \cup {Nil}, Enter(s, tx) PROVE IndInv'
  <2>1. TypeOK'
    BY <1>1, <1>5, EnterKeepsType
  <2> QED
    BY <1>2, <1>5, <2>1 DEF Enter, data, scan
<1>6. ASSUME NEW s \in Stubs, NEW tx \in TxIds, MockInvoke(s, tx) PROVE IndInv'
  BY <1>5, <1>6 DEF MockInvoke
<1>7. ASSUME NEW s \in Stubs, NEW t \in Stubs, InvokeChaincode(s, t) PROVE IndInv'
  <2>1. TxID[s] \in TxIds \cup {Nil} /\ Enter(t, TxID[s])
    BY <1>1, <1>7 DEF InvokeChaincode, TypeOK
  <2> QED
    BY <1>5, <2>1
<1>8. ASSUME NEW s \in Stubs, InvokeUnregistered(s) PROVE IndInv'
  <2>1. TypeOK'
    BY <1>1, <1>8 DEF InvokeUnregistered, TypeOK, data, scan, control
  <2> QED
    BY <1>2, <1>8, <2>1 DEF InvokeUnregistered, data, scan
<1>9. ASSUME ReturnFromChaincode PROVE IndInv'
  <2>1. TxID' \in [Stubs -> TxIds \cup {Nil}]
    BY <1>1, <1>9, TopOfStack DEF ReturnFromChaincode, TypeOK
  <2>2. stack' \in Seq([stub : Stubs, uuid : TxIds \cup {Nil}])
    BY <1>1, <1>9, TopOfStack DEF ReturnFromChaincode
  <2>3. UNCHANGED <<State, KeyList, events, iter, seen, owed, run>>
    BY <1>9 DEF ReturnFromChaincode, data, scan
  <2>4. lost' \subseteq Nat
    BY <1>9 DEF ReturnFromChaincode
  <2>5. TypeOK'
    BY <1>1, <2>1, <2>2, <2>3, <2>4 DEF TypeOK
  <2> QED
    BY <1>2, <2>3, <2>5
<1>10. ASSUME NEW s \in Stubs, SetEvent(s) \/ ReceiveEvent(s) PROVE IndInv'
  <2>1. TypeOK'
    BY <1>1, <1>10, EventKeepsType
  <2> QED
    BY <1>2, <1>10, <2>1 DEF SetEvent, ReceiveEvent, data, scan
<1>11. ASSUME NEW s \in Stubs, NEW key \in Keys, Delete(s, key) PROVE IndInv'
  <2>1. TypeOK'
    BY <1>1, <1>11, DeleteKeepsType
  <2> QED
    BY <1>11, <2>1, DeleteKeeps DEF IndInv
<1>12. ASSUME NEW s \in Stubs, NEW key \in Keys, NEW value \in Values, PutState(s, key, value)
       PROVE  IndInv'
  <2>1. InsertKey(KeyList[s], key) \in Seq(Keys)
    BY <1>1, InsertKeyKeepsOrder DEF TypeOK, Ordered
  <2>2. TypeOK'
    BY <1>1, <1>12, <2>1, DataKeepsType DEF PutState, control, scan
  <2> QED
    BY <1>12, <2>2, PutKeeps DEF IndInv
<1>13. ASSUME NEW s \in Stubs, NEW from \in Bound, NEW to \in Bound, GetStateByRange(s, from, to)
       PROVE  IndInv'
  <2>1. ListsInOrder' /\ ScanKnown' /\ iter' \in Iterators
    BY <1>13, OpenKeeps
  <2>2. seen' = <<>> /\ owed' \subseteq Keys /\ UNCHANGED <<State, KeyList, TxID, stack, lost, events, run>>
    BY <1>13 DEF GetStateByRange, data, control, Present
  <2>3. TypeOK'
    BY <1>1, <2>1, <2>2 DEF TypeOK, Iterators, Elems
  <2> QED
    BY <2>1, <2>3 DEF IndInv
<1>14. ASSUME IterNext PROVE IndInv'
  <2>1. ListsInOrder' /\ ScanKnown' /\ iter' \in Iterators /\ seen' \in Seq(Keys)
    BY <1>14, NextKeeps
  <2>2. UNCHANGED <<State, KeyList, TxID, stack, lost, events, owed, run>>
    BY <1>14 DEF IterNext, data, control
  <2>3. TypeOK'
    BY <1>1, <2>1, <2>2 DEF TypeOK, Iterators, Elems
  <2> QED
    BY <2>1, <2>3 DEF IndInv
<1>15. ASSUME Close PROVE IndInv'
  <2>1. ListsInOrder' /\ ScanKnown' /\ iter' \in Iterators
    BY <1>15, CloseKeeps
  <2>2. UNCHANGED <<State, KeyList, TxID, stack, lost, events, seen, run>> /\ owed' = {}
    BY <1>15 DEF Close, data, control
  <2>3. TypeOK'
    BY <1>1, <2>1, <2>2 DEF TypeOK, Iterators, Elems
  <2> QED
    BY <2>1, <2>3 DEF IndInv
<1>16. CASE UNCHANGED vars
  <2>1. UNCHANGED <<State, KeyList, TxID, events, stack, lost, iter, seen, owed, run>>
    BY <1>16 DEF vars
  <2>2. TypeOK'
    BY <1>1, <2>1 DEF TypeOK
  <2> QED
    BY <1>2, <2>1, <2>2
<1> QED
  BY <1>3, <1>4, <1>6, <1>7, <1>8, <1>9, <1>10, <1>11, <1>12, <1>13, <1>14, <1>15, <1>16
     DEF Next, DelState, PutEmpty, Bound

LEMMA Inductive == Spec => []IndInv
  BY InitEstablishes, Preserved, PTL DEF Spec

\* The stub's structures have their types, the iterator in use included.
THEOREM TypeCorrect == Spec => []TypeOK
<1>1. IndInv => TypeOK
  BY DEF IndInv
<1> QED
  BY Inductive, <1>1, PTL

\* After any calls the list holds exactly the keys that have a value, each
\* once and in order (mockstub.go, lines 223-254 and 262-268).
THEOREM ListAlwaysMatches == Spec => []ListMatchesMap
<1>1. IndInv => ListMatchesMap
  <2>1. \A s \in Stubs : Listed(s) = Elements(KeyList[s])
    BY DEF Listed, Elements
  <2> QED
    BY <2>1 DEF IndInv, ListsInOrder, ListMatchesMap, Ascends
<1> QED
  BY Inductive, <1>1, PTL

\* A scan returns every key that was there from its opening on, whatever comes
\* and goes under it, unless the element it stands on is deleted (mockstub.go,
\* lines 223-254, 262-268 and 464-534).
THEOREM ScanAlwaysComplete == Spec => []ScanComplete
<1>1. IndInv => ScanComplete
  <2> SUFFICES ASSUME IndInv, iter # Nil, NEW k \in owed
               PROVE  k \in Elements(seen) \cup Elements(Reach(iter))
    BY DEF ScanComplete, Elements
  <2>1. Elements(Reach(iter)) = Ahead(iter)
    BY ReachIsAhead DEF IndInv, ListsInOrder, Ordered, ScanKnown
  <2> QED
    BY <2>1 DEF IndInv, ScanKnown
<1> QED
  BY Inductive, <1>1, PTL

\* A scan returns keys of its range in ascending order, none twice, and never
\* steps back behind one (mockstub.go, lines 464-534).
THEOREM ScanAlwaysAscends == Spec => []ScanAscends
<1>1. IndInv => ScanAscends
  <2> SUFFICES ASSUME IndInv, iter # Nil
               PROVE  /\ \A i \in DOMAIN seen : InRange(iter, seen[i])
                      /\ Ascends(seen \o Reach(iter))
    BY DEF ScanAscends, Ascends
  <2> DEFINE reach == Reach(iter)
  <2>1. /\ reach \in Seq(Keys) /\ Ascends(reach) /\ Elements(reach) = Ahead(iter)
        /\ seen \in Seq(Keys) /\ Ascends(seen)
    BY ReachIsAhead DEF IndInv, TypeOK, ListsInOrder, Ordered, ScanKnown
  <2>2. \A k \in Elements(seen) : InRange(iter, k) /\ \A m \in Elements(reach) : k < m
    BY <2>1 DEF IndInv, ScanKnown
  <2> HIDE DEF reach
  <2>3. /\ Len(seen) \in Nat /\ DOMAIN seen = 1..Len(seen)
        /\ Len(reach) \in Nat /\ DOMAIN reach = 1..Len(reach)
    BY <2>1, LenProperties
  <2>4. \A i \in 1..Len(seen) : InRange(iter, seen[i]) /\ \A j \in 1..Len(reach) : seen[i] < reach[j]
    BY <2>2, <2>3 DEF Elements
  <2> DEFINE all == seen \o reach
  <2>5. /\ all \in Seq(Keys) /\ Len(all) = Len(seen) + Len(reach)
        /\ \A i \in 1..Len(seen)+Len(reach) : all[i] = IF i <= Len(seen) THEN seen[i] ELSE reach[i - Len(seen)]
    BY <2>1, ConcatProperties
  <2> HIDE DEF all
  <2>6. DOMAIN all = 1..Len(seen)+Len(reach)
    BY <2>3, <2>5
  <2>7. Ascends(all)
    <3> SUFFICES ASSUME NEW i \in 1..Len(seen)+Len(reach), NEW j \in 1..Len(seen)+Len(reach), i < j
                 PROVE  all[i] < all[j]
      BY <2>6 DEF Ascends
    <3>1. CASE j <= Len(seen)
      BY <2>1, <2>3, <2>5, <3>1 DEF Ascends
    <3>2. CASE i <= Len(seen) /\ j > Len(seen)
      <4>1. all[i] = seen[i] /\ all[j] = reach[j - Len(seen)] /\ j - Len(seen) \in 1..Len(reach)
            /\ i \in 1..Len(seen)
        BY <2>3, <2>5, <3>2
      <4> QED
        BY <2>4, <4>1
    <3>3. CASE i > Len(seen)
      <4>1. all[i] = reach[i - Len(seen)] /\ i - Len(seen) \in 1..Len(reach)
        BY <2>3, <2>5, <3>3
      <4>2. all[j] = reach[j - Len(seen)] /\ j - Len(seen) \in 1..Len(reach)
        BY <2>3, <2>5, <3>3
      <4>3. i - Len(seen) < j - Len(seen)
        BY <2>3
      <4> QED
        BY <2>1, <2>3, <4>1, <4>2, <4>3 DEF Ascends
    <3> QED
      BY <2>3, <3>1, <3>2, <3>3
  <2>8. \A i \in DOMAIN seen : InRange(iter, seen[i])
    BY <2>3, <2>4
  <2> QED
    BY <2>7, <2>8 DEF all, reach
<1> QED
  BY Inductive, <1>1, PTL

-----------------------------------------------------------------------------
\* Calls in progress, for any links, cycles included.  A call is covered while
\* a later one of the same stub is in progress: what the stub's TxID is then
\* matters to that one.
Covered(i) == \E k \in DOMAIN stack : i < k /\ stack[k].stub = stack[i].stub

CallsKnown ==
  /\ stack # <<>> => stack[1].uuid # Nil
  /\ lost \subseteq DOMAIN stack
  /\ \A i \in DOMAIN stack : \/ TxID[stack[i].stub] = stack[1].uuid
                             \/ \E j \in lost : j <= i
                             \/ Covered(i)
  /\ \A i \in lost : TxID[stack[i].stub] = Nil \/ Covered(i)

LEMMA StackFacts ==
  ASSUME TypeOK
  PROVE  /\ Len(stack) \in Nat /\ DOMAIN stack = 1..Len(stack)
         /\ stack # <<>> => Len(stack) # 0
         /\ \A i \in 1..Len(stack) : /\ stack[i] \in [stub : Stubs, uuid : TxIds \cup {Nil}]
                                     /\ stack[i].stub \in Stubs
<1> DEFINE Calls == [stub : Stubs, uuid : TxIds \cup {Nil}]
<1>1. stack \in Seq(Calls)
  BY DEF TypeOK
<1>2. \A c \in Calls : c.stub \in Stubs
  OBVIOUS
<1> HIDE DEF Calls
<1>3. \A i \in 1..Len(stack) : stack[i] \in Calls
  BY <1>1, ElementOfSeq
<1>4. Len(stack) \in Nat /\ DOMAIN stack = 1..Len(stack) /\ (stack # <<>> => Len(stack) # 0)
  BY <1>1, LenProperties, EmptySeq
<1> QED
  BY <1>2, <1>3, <1>4 DEF Calls

\* The call that runs is the last one, which no later call covers.
LEMMA TopCall ==
  ASSUME TypeOK, CallsKnown, stack # <<>>
  PROVE  LET n == Len(stack)
         IN  /\ n \in DOMAIN stack
             /\ TxID[stack[n].stub] = stack[1].uuid \/ lost # {}
             /\ n \in lost => TxID[stack[n].stub] = Nil
<1> DEFINE n == Len(stack)
<1>1. n \in Nat \ {0} /\ DOMAIN stack = 1..n
  BY StackFacts
<1> HIDE DEF n
<1>2. n \in 1..n /\ ~\E k \in 1..n : n < k
  BY <1>1
<1>3. ~Covered(n)
  BY <1>1, <1>2 DEF Covered
<1>4. TxID[stack[n].stub] = stack[1].uuid \/ lost # {}
  BY <1>1, <1>2, <1>3 DEF CallsKnown
<1>5. n \in lost => TxID[stack[n].stub] = Nil
  BY <1>3 DEF CallsKnown
<1> QED
  BY <1>1, <1>2, <1>4, <1>5 DEF n

\* A call is entered with the transaction of the call that runs, or with the
\* test's own; calls of the same stub in progress are covered from then on.
LEMMA EnteringKeeps ==
  ASSUME TypeOK, CallsKnown, NEW s \in Stubs, NEW tx, Enter(s, tx),
         stack = <<>> => tx # Nil,
         stack # <<>> => tx = stack[1].uuid \/ lost # {}
  PROVE  CallsKnown'
<1> DEFINE call == [stub |-> s, uuid |-> tx]
           n == Len(stack)
<1>1. /\ n \in Nat /\ DOMAIN stack = 1..n
      /\ stack # <<>> => n # 0
      /\ \A i \in 1..n : stack[i].stub \in Stubs
  BY StackFacts
<1>2. stack' = Append(stack, call) /\ TxID' = [TxID EXCEPT ![s] = tx] /\ lost' = lost
  BY DEF Enter
<1>3. /\ DOMAIN stack' = 1..n+1 /\ stack'[n + 1] = call
      /\ \A i \in 1..n : stack'[i] = stack[i]
  BY <1>1, <1>2 DEF TypeOK
<1>4. call.stub = s /\ call.uuid = tx
  OBVIOUS
<1> HIDE DEF call
<1>5. TxID'[s] = tx /\ \A t \in Stubs \ {s} : TxID'[t] = TxID[t]
  BY <1>2 DEF TypeOK
<1>6. stack = <<>> => n = 0
  OBVIOUS
<1> HIDE DEF n
<1>7. /\ 1..n+1 = 1..n \cup {n + 1} /\ n + 1 \in 1..n+1
      /\ \A i \in 1..n : i < n + 1 /\ i <= n + 1 /\ 1 \in 1..n
      /\ n # 0 => 1 \in 1..n
  BY <1>1
<1>8. ASSUME NEW i \in 1..n, Covered(i) \/ stack[i].stub = s PROVE Covered(i)'
  <2>1. CASE stack[i].stub = s
    BY <1>3, <1>4, <1>7, <2>1 DEF Covered
  <2>2. CASE Covered(i)
    BY <1>1, <1>3, <1>7, <2>2 DEF Covered
  <2> QED
    BY <1>8, <2>1, <2>2
<1>9. ASSUME NEW i \in 1..n
      PROVE  \/ TxID'[stack'[i].stub] = TxID[stack[i].stub]
             \/ Covered(i)'
  BY <1>1, <1>3, <1>5, <1>8
<1>10. stack'[1].uuid # Nil /\ lost' \subseteq 1..n+1
  <2>1. CASE n = 0
    BY <1>1, <1>2, <1>3, <1>4, <1>7, <2>1 DEF CallsKnown
  <2>2. CASE n # 0
    BY <1>1, <1>2, <1>3, <1>6, <1>7, <2>2 DEF CallsKnown
  <2> QED
    BY <2>1, <2>2
<1>11. ASSUME NEW i \in 1..n+1
       PROVE  \/ TxID'[stack'[i].stub] = stack'[1].uuid
              \/ \E j \in lost' : j <= i
              \/ Covered(i)'
  <2>1. CASE i \in 1..n
    <3>1. stack'[1] = stack[1]
      BY <1>3, <1>7, <2>1
    <3>2. \/ TxID[stack[i].stub] = stack[1].uuid
          \/ \E j \in lost : j <= i
          \/ Covered(i)
      BY <1>1, <2>1 DEF CallsKnown
    <3> QED
      BY <1>2, <1>8, <1>9, <2>1, <3>1, <3>2
  <2>2. CASE i = n + 1
    <3>1. CASE n = 0
      BY <1>3, <1>4, <1>5, <2>2, <3>1
    <3>2. CASE n # 0
      <4>1. stack'[1] = stack[1] /\ stack # <<>>
        BY <1>3, <1>6, <1>7, <3>2
      <4>2. \A j \in lost : j <= i
        BY <1>1, <1>7, <2>2 DEF CallsKnown
      <4> QED
        BY <1>2, <1>3, <1>4, <1>5, <2>2, <4>1, <4>2
    <3> QED
      BY <3>1, <3>2
  <2> QED
    BY <1>7, <2>1, <2>2
<1>12. ASSUME NEW i \in lost' PROVE TxID'[stack'[i].stub] = Nil \/ Covered(i)'
  <2>1. i \in 1..n /\ (TxID[stack[i].stub] = Nil \/ Covered(i))
    BY <1>1, <1>2 DEF CallsKnown
  <2> QED
    BY <1>8, <1>9, <2>1
<1> QED
  BY <1>3, <1>10, <1>11, <1>12 DEF CallsKnown

\* A return clears the TxID of calls of its stub, which are lost from then on,
\* and of no other.
LEMMA ReturningKeeps ==
  ASSUME TypeOK, CallsKnown, ReturnFromChaincode
  PROVE  CallsKnown'
<1> DEFINE n == Len(stack)
           u == stack[n].stub
<1>1. /\ n \in Nat \ {0} /\ DOMAIN stack = 1..n
      /\ \A i \in 1..n : stack[i] \in [stub : Stubs, uuid : TxIds \cup {Nil}] /\ stack[i].stub \in Stubs
  BY StackFacts DEF ReturnFromChaincode
<1>2. /\ stack # <<>>
      /\ stack' = SubSeq(stack, 1, n - 1) /\ TxID' = [TxID EXCEPT ![u] = Nil]
      /\ lost' = {i \in 1..n-1 : i \in lost \/ stack[i].stub = u}
  BY DEF ReturnFromChaincode, Front, Last
<1> HIDE DEF n
<1>3. DOMAIN stack' = 1..n-1 /\ \A i \in 1..n-1 : stack'[i] = stack[i]
  <2>1. n - 1 \in Int /\ 1 \in Int /\ \A i \in 1..n-1 : stack[i] \in [stub : Stubs, uuid : TxIds \cup {Nil}]
    BY <1>1
  <2>2. /\ stack' \in Seq([stub : Stubs, uuid : TxIds \cup {Nil}])
        /\ Len(stack') = IF 1 <= n - 1 THEN n - 1 - 1 + 1 ELSE 0
        /\ \A i \in 1..n-1-1+1 : stack'[i] = stack[1 + i - 1]
    BY <1>2, <2>1, SubSeqProperties
  <2>3. Len(stack') = n - 1
    BY <1>1, <2>2
  <2>4. \A i \in 1..n-1 : stack'[i] = stack[i]
    BY <1>1, <2>2
  <2> QED
    BY <2>2, <2>3, <2>4
<1>4. /\ 1..n = 1..n-1 \cup {n} /\ n \in 1..n
      /\ \A i \in 1..n-1 : i \in 1..n /\ 1 \in 1..n-1
      /\ \A i \in 1..n-1 : \A j \in 1..n : j <= i => j \in 1..n-1
      /\ \A i \in Nat : i <= i
  BY <1>1
<1>5. u \in Stubs
  BY <1>1, <1>4
<1>6. TxID'[u] = Nil /\ \A t \in Stubs \ {u} : TxID'[t] = TxID[t]
  BY <1>2, <1>5 DEF TypeOK
<1> HIDE DEF u
<1>7. ASSUME NEW i \in 1..n-1, stack[i].stub # u, Covered(i) PROVE Covered(i)'
  <2>1. PICK k \in 1..n : i < k /\ stack[k].stub = stack[i].stub
    BY <1>1, <1>7 DEF Covered
  <2>2. k \in 1..n-1
    BY <1>4, <1>7, <2>1 DEF u
  <2> QED
    BY <1>3, <2>1, <2>2 DEF Covered
<1>8. ASSUME NEW i \in 1..n-1, stack[i].stub # u
      PROVE  TxID'[stack'[i].stub] = TxID[stack[i].stub]
  BY <1>1, <1>3, <1>4, <1>6, <1>8
<1>9. stack' # <<>> => stack'[1].uuid # Nil
  <2> SUFFICES ASSUME stack' # <<>> PROVE stack'[1].uuid # Nil
    OBVIOUS
  <2>1. 1 \in 1..n-1
    <3>1. stack' \in Seq([stub : Stubs, uuid : TxIds \cup {Nil}])
      BY TopOfStack DEF ReturnFromChaincode
    <3>2. Len(stack') # 0 /\ DOMAIN stack' = 1..Len(stack') /\ Len(stack') \in Nat
      BY <3>1, LenProperties, EmptySeq
    <3> QED
      BY <1>1, <1>3, <3>2
  <2> QED
    BY <1>2, <1>3, <2>1 DEF CallsKnown
<1>10. lost' \subseteq 1..n-1
  BY <1>2
<1>11. ASSUME NEW i \in 1..n-1
       PROVE  \/ TxID'[stack'[i].stub] = stack'[1].uuid
              \/ \E j \in lost' : j <= i
              \/ Covered(i)'
  <2>1. CASE stack[i].stub = u
    <3>1. i \in lost' /\ i <= i
      BY <1>2, <1>4, <2>1
    <3> QED
      BY <3>1
  <2>2. CASE stack[i].stub # u
    <3>1. \/ TxID[stack[i].stub] = stack[1].uuid
          \/ \E j \in lost : j <= i
          \/ Covered(i)
      BY <1>1, <1>4 DEF CallsKnown
    <3>2. CASE TxID[stack[i].stub] = stack[1].uuid
      BY <1>3, <1>4, <1>8, <2>2, <3>2
    <3>3. CASE \E j \in lost : j <= i
      <4>1. PICK j \in lost : j <= i
        BY <3>3
      <4>2. j \in lost'
        BY <1>1, <1>2, <1>4, <4>1 DEF CallsKnown
      <4> QED
        BY <4>1, <4>2
    <3>4. CASE Covered(i)
      BY <1>7, <2>2, <3>4
    <3> QED
      BY <3>1, <3>2, <3>3, <3>4
  <2> QED
    BY <2>1, <2>2
<1>12. ASSUME NEW i \in lost' PROVE TxID'[stack'[i].stub] = Nil \/ Covered(i)'
  <2>1. i \in 1..n-1 /\ (i \in lost \/ stack[i].stub = u)
    BY <1>2
  <2>2. CASE stack[i].stub = u
    BY <1>3, <1>6, <2>1, <2>2
  <2>3. CASE i \in lost /\ stack[i].stub # u
    <3>1. TxID[stack[i].stub] = Nil \/ Covered(i)
      BY <2>3 DEF CallsKnown
    <3> QED
      BY <1>7, <1>8, <2>1, <2>3, <3>1
  <2> QED
    BY <2>1, <2>2, <2>3
<1> QED
  BY <1>3, <1>9, <1>10, <1>11, <1>12 DEF CallsKnown

LEMMA CallsStayKnown == TypeOK /\ CallsKnown /\ [Next]_vars => CallsKnown'
<1> SUFFICES ASSUME TypeOK, CallsKnown, [Next]_vars PROVE CallsKnown'
  OBVIOUS
<1>1. ASSUME UNCHANGED <<TxID, stack, lost>> PROVE CallsKnown'
  BY <1>1 DEF CallsKnown, Covered
<1>2. ASSUME stack = <<>>, UNCHANGED <<stack, lost>> PROVE CallsKnown'
  BY <1>2 DEF CallsKnown
<1>3. ASSUME NEW s \in Stubs, NEW tx \in TxIds, MockInvoke(s, tx) PROVE CallsKnown'
  <2>1. tx # Nil /\ stack = <<>> /\ Enter(s, tx)
    BY <1>3, NilAssumption DEF MockInvoke
  <2> QED
    BY <2>1, EnteringKeeps
<1>4. ASSUME NEW s \in Stubs, NEW t \in Stubs, InvokeChaincode(s, t) PROVE CallsKnown'
  <2>1. stack # <<>> /\ stack[Len(stack)].stub = s /\ Enter(t, TxID[s])
    BY <1>4 DEF InvokeChaincode, Last
  <2>2. TxID[s] = stack[1].uuid \/ lost # {}
    BY <2>1, TopCall
  <2> QED
    BY <2>1, <2>2, EnteringKeeps
<1>5. CASE ReturnFromChaincode
  BY <1>5, ReturningKeeps
<1>6. ASSUME NEW s \in Stubs,
             \/ \E tx \in TxIds : TestStart(s, tx)
             \/ TestEnd(s)
      PROVE  CallsKnown'
  BY <1>2, <1>6 DEF TestStart, TestEnd
<1>7. ASSUME NEW s \in Stubs, InvokeUnregistered(s) \/ SetEvent(s) \/ ReceiveEvent(s)
      PROVE  CallsKnown'
  BY <1>1, <1>7 DEF InvokeUnregistered, SetEvent, ReceiveEvent, control
<1>8. ASSUME NEW s \in Stubs, NEW key \in Keys,
             Delete(s, key) \/ \E value \in Values : PutState(s, key, value)
      PROVE  CallsKnown'
  BY <1>1, <1>8 DEF Delete, PutState, control
<1>9. ASSUME NEW s \in Stubs, NEW from \in Bound, NEW to \in Bound, GetStateByRange(s, from, to)
      PROVE  CallsKnown'
  BY <1>1, <1>9 DEF GetStateByRange, control
<1>10. CASE IterNext \/ Close
  BY <1>1, <1>10 DEF IterNext, Close, control
<1>11. CASE UNCHANGED vars
  BY <1>1, <1>11 DEF vars
<1> QED
  BY <1>3, <1>4, <1>5, <1>6, <1>7, <1>8, <1>9, <1>10, <1>11 DEF Next, DelState, PutEmpty, Bound

\* Whatever chaincodes call each other, in cycles too: the one that runs is in
\* the test's transaction until a call in progress is called back into, and a
\* call that was is outside any transaction for the rest of its run
\* (mockstub.go, lines 107-120, 139-145 and 339-355).
THEOREM AlwaysInTransaction == Spec => []InTransaction
<1>1. Init => CallsKnown
  BY DEF Init, CallsKnown
<1>2. TypeOK /\ CallsKnown => InTransaction
  <2> SUFFICES ASSUME TypeOK, CallsKnown, stack # <<>>
               PROVE  /\ lost = {} => stack[1].uuid # Nil /\ TxID[Last(stack).stub] = stack[1].uuid
                      /\ Len(stack) \in lost => TxID[Last(stack).stub] = Nil
    BY DEF InTransaction
  <2> QED
    BY TopCall DEF CallsKnown, Last
<1> QED
  BY TypeCorrect, CallsStayKnown, <1>1, <1>2, PTL DEF Spec
=============================================================================
