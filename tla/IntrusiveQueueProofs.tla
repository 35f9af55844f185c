------------------------ MODULE IntrusiveQueueProofs ------------------------
(***************************************************************************)
(* Proofs about IntrusiveQueue, for any threads and any items: the lists   *)
(* in memory are what the history variables say (QueueCorrect); the        *)
(* lock-free list implements TaskPool, every step of push and pop being a  *)
(* step of the pool or leaving it alone (QueueImplementsPool); and the     *)
(* items come out in the order they went in for as long as no push goes    *)
(* ahead of a pop that moves the list (QueueInOrder, about the             *)
(* specification of IntrusiveQueueFifo).  The producers and consumers of   *)
(* test_queue.cpp pop no element twice and lose none                       *)
(* (TestMissesOnlyTheQueued, about QueueTestClients).                      *)
(***************************************************************************)
EXTENDS IntrusiveQueueFifo, QueueTestClients, SequenceTheorems, TLAPS

----------------------------------------------------------------------------
(* Facts about the lists *)

\* nullptr is in no list.
LEMMA NullNotListed ==
  ASSUME TypeOK
  PROVE  Null \notin Range(shared) /\ \A t \in Threads : Null \notin Range(private[t])
  BY NullAssumption, RangeOfSeq DEF TypeOK

\* The items of a sequence, by index.
LEMMA RangeIndex ==
  ASSUME NEW s \in Seq(Items)
  PROVE  /\ Len(s) \in Nat
         /\ s # <<>> => Len(s) \in Nat \ {0}
         /\ \A k \in 1..Len(s) : s[k] \in Items /\ s[k] \in Range(s)
         /\ \A i \in Range(s) : \E k \in 1..Len(s) : i = s[k]
  BY EmptySeq, LenProperties, ElementOfSeq DEF Range

\* The tail of a pop that looks for the last item is on its list, with a next
\* item unless the list has one item only.
LEMMA WalkTail ==
  ASSUME IInv, NEW t \in Threads, pc[t] = "walk"
  PROVE  /\ private[t] \in Seq(Items) /\ Len(private[t]) \in Nat \ {0}
         /\ \E k \in 1..Len(private[t]) :
              /\ tail[t] = private[t][k] /\ tail[t] \in Items
              /\ IF k < Len(private[t])
                 THEN next[tail[t]] = private[t][k + 1] /\ next[tail[t]] \in Items
                 ELSE k = 1 /\ next[tail[t]] = Null
<1>1. private[t] \in Seq(Items) /\ private[t] # <<>>
  BY DEF IInv, TypeOK, PrivateListInMemory, PrivateList, Holding
<1>2. Len(private[t]) \in Nat \ {0} /\ \A k \in 1..Len(private[t]) : private[t][k] \in Items
  BY <1>1, RangeIndex
<1>3. PICK k \in 1..Len(private[t]) : tail[t] = private[t][k] /\ (k = 1 \/ k < Len(private[t]))
  BY DEF IInv, PrivateListInMemory, PrivateList
<1>4. Linked(private[t], Null)
  BY DEF IInv, PrivateListInMemory, PrivateList
<1> QED
  BY <1>1, <1>2, <1>3, <1>4 DEF Linked

\* The tail of a pop that puts the list back is its last item.
LEMMA MergeTail ==
  ASSUME IInv, NEW t \in Threads, pc[t] \in {"merge", "relink"}
  PROVE  /\ private[t] \in Seq(Items) /\ Len(private[t]) \in Nat \ {0}
         /\ tail[t] = private[t][Len(private[t])] /\ tail[t] \in Items
         /\ tail[t] \in Range(private[t])
<1>1. private[t] \in Seq(Items) /\ private[t] # <<>>
  BY DEF IInv, TypeOK, PrivateListInMemory, PrivateList, Holding
<1>2. /\ Len(private[t]) \in Nat \ {0}
      /\ \A k \in 1..Len(private[t]) : private[t][k] \in Items /\ private[t][k] \in Range(private[t])
  BY <1>1, RangeIndex
<1>3. tail[t] = private[t][Len(private[t])]
  BY DEF IInv, PrivateListInMemory, PrivateList
<1> QED
  BY <1>1, <1>2, <1>3

\* The list at head_ stays as it is under a step that writes neither head_ nor
\* the link of one of its items.
LEMMA SharedFrame ==
  ASSUME SharedListInMemory, head' = head, shared' = shared,
         \A k \in 1..Len(shared) : next'[shared[k]] = next[shared[k]]
  PROVE  SharedListInMemory'
  BY DEF SharedListInMemory, Linked, Distinct

\* The list of a pop stays as it is under a step of another thread that does
\* not write the link of one of its items.
LEMMA PrivateFrame ==
  ASSUME TypeOK, NEW u \in Threads, PrivateList(u),
         pc'[u] = pc[u], localHead'[u] = localHead[u], tail'[u] = tail[u],
         seen'[u] = seen[u], private'[u] = private[u],
         \A k \in 1..Len(private[u]) : next'[private[u][k]] = next[private[u][k]]
  PROVE  PrivateList(u)'
<1>1. pc[u] \in {"merge", "relink"} =>
        Len(private[u]) \in 1..Len(private[u])
  <2>1. private[u] \in Seq(Items)
    BY DEF TypeOK
  <2> QED
    BY <2>1, RangeIndex DEF PrivateList, Holding
<1>2. pc[u] \in {"merge", "relink"} => next'[tail[u]] = next[tail[u]]
  BY <1>1 DEF PrivateList
<1> QED
  BY <1>2 DEF PrivateList, Holding, Linked, Distinct

\* A thread outside the walk and the merge of pop has no list.
LEMMA PrivateNone ==
  ASSUME NEW u \in Threads, private'[u] = <<>>, pc'[u] \notin Holding
  PROVE  PrivateList(u)'
  BY DEF PrivateList, Holding, Distinct

----------------------------------------------------------------------------
(* The invariant holds initially and is preserved by every action *)

LEMMA InitIInv == Init => IInv
<1> SUFFICES ASSUME Init PROVE IInv
  OBVIOUS
<1> USE NullAssumption
<1>1. TypeOK
  BY DEF Init, TypeOK, Labels
<1>2. SharedListInMemory
  BY DEF Init, SharedListInMemory, Linked, Distinct
<1>3. PrivateListInMemory
  BY DEF Init, PrivateListInMemory, PrivateList, Holding, Distinct
<1>4. Exclusive
  BY DEF Init, Exclusive, Range
<1>5. PopGivesItem
  BY DEF Init, PopGivesItem
<1> QED
  BY <1>1, <1>2, <1>3, <1>4, <1>5 DEF IInv

LEMMA PushLoadIInv ==
  ASSUME NEW t \in Threads, NEW i \in Items, IInv, PushLoad(t, i) PROVE IInv'
<1> USE NullAssumption DEF IInv
<1>1. TypeOK'
  BY DEF PushLoad, TypeOK, Labels
<1>2. SharedListInMemory'
  BY SharedFrame DEF PushLoad
<1>3. PrivateListInMemory'
  <2>1. ASSUME NEW u \in Threads \ {t} PROVE PrivateList(u)'
    BY PrivateFrame DEF PushLoad, TypeOK, PrivateListInMemory
  <2>2. private'[t] = <<>> /\ pc'[t] \notin Holding
    BY DEF PushLoad, TypeOK, PrivateListInMemory, PrivateList, Holding
  <2>3. PrivateList(t)'
    BY <2>2, PrivateNone
  <2> QED
    BY <2>1, <2>3 DEF PrivateListInMemory
<1>4. Exclusive'
  BY DEF PushLoad, TypeOK, Exclusive, Outside
<1>5. PopGivesItem'
  BY DEF PushLoad, TypeOK, PopGivesItem
<1> QED
  BY <1>1, <1>2, <1>3, <1>4, <1>5

LEMMA PushLinkIInv ==
  ASSUME NEW t \in Threads, IInv, PushLink(t) PROVE IInv'
<1> USE NullAssumption DEF IInv
<1>a. /\ value[t] \in Items
      /\ \A k \in 1..Len(shared) : shared[k] # value[t]
      /\ \A u \in Threads : \A k \in 1..Len(private[u]) : private[u][k] # value[t]
  BY RangeIndex DEF PushLink, TypeOK, PopGivesItem, Exclusive
<1>1. TypeOK'
  BY DEF PushLink, TypeOK, Labels, PopGivesItem
<1>2. SharedListInMemory'
  <2>1. \A k \in 1..Len(shared) : next'[shared[k]] = next[shared[k]]
    BY <1>a, RangeIndex DEF PushLink, TypeOK
  <2> QED
    BY <2>1, SharedFrame DEF PushLink
<1>3. PrivateListInMemory'
  <2>1. ASSUME NEW u \in Threads \ {t} PROVE PrivateList(u)'
    <3>1. \A k \in 1..Len(private[u]) : next'[private[u][k]] = next[private[u][k]]
      <4>1. \A k \in 1..Len(private[u]) : private[u][k] \in Items /\ private[u][k] # value[t]
        BY <1>a, RangeIndex DEF TypeOK
      <4> QED
        BY <4>1 DEF PushLink, TypeOK
    <3> QED
      BY <3>1, PrivateFrame DEF PushLink, TypeOK, PrivateListInMemory
  <2>2. private'[t] = <<>> /\ pc'[t] \notin Holding
    BY DEF PushLink, TypeOK, PrivateListInMemory, PrivateList, Holding
  <2>3. PrivateList(t)'
    BY <2>2, PrivateNone
  <2> QED
    BY <2>1, <2>3 DEF PrivateListInMemory
<1>4. Exclusive'
  BY DEF PushLink, TypeOK, Exclusive
<1>5. PopGivesItem'
  BY DEF PushLink, TypeOK, PopGivesItem, Exclusive
<1> QED
  BY <1>1, <1>2, <1>3, <1>4, <1>5

LEMMA PushRetryIInv ==
  ASSUME NEW t \in Threads, IInv, PushRetry(t) PROVE IInv'
<1> USE NullAssumption DEF IInv
<1>1. TypeOK'
  BY DEF PushRetry, TypeOK, Labels
<1>2. SharedListInMemory'
  BY SharedFrame DEF PushRetry
<1>3. PrivateListInMemory'
  <2>1. ASSUME NEW u \in Threads \ {t} PROVE PrivateList(u)'
    BY PrivateFrame DEF PushRetry, TypeOK, PrivateListInMemory
  <2>2. private'[t] = <<>> /\ pc'[t] \notin Holding
    BY DEF PushRetry, TypeOK, PrivateListInMemory, PrivateList, Holding
  <2>3. PrivateList(t)'
    BY <2>2, PrivateNone
  <2> QED
    BY <2>1, <2>3 DEF PrivateListInMemory
<1>4. Exclusive'
  BY DEF PushRetry, TypeOK, Exclusive
<1>5. PopGivesItem'
  BY DEF PushRetry, TypeOK, PopGivesItem
<1> QED
  BY <1>1, <1>2, <1>3, <1>4, <1>5

LEMMA PushCasIInv ==
  ASSUME NEW t \in Threads, IInv, PushCas(t) PROVE IInv'
<1> USE NullAssumption DEF IInv
<1>a. value[t] \in Items /\ next[value[t]] = head
  BY DEF PushCas, PopGivesItem
<1>b. /\ shared' \in Seq(Items) /\ Len(shared) \in Nat
      /\ Len(shared') = Len(shared) + 1
      /\ shared'[1] = value[t]
      /\ \A k \in 2..Len(shared) + 1 : shared'[k] = shared[k - 1]
      /\ Range(shared') = {value[t]} \cup Range(shared)
  <2>1. /\ <<value[t]>> \in Seq(Items) /\ Len(<<value[t]>>) = 1 /\ <<value[t]>>[1] = value[t]
        /\ Range(<<value[t]>>) = {value[t]}
    BY <1>a DEF Range
  <2>2. shared' = <<value[t]>> \o shared /\ shared \in Seq(Items) /\ Len(shared) \in Nat
    BY DEF PushCas, TypeOK
  <2>3. /\ shared' \in Seq(Items)
        /\ Len(shared') = 1 + Len(shared)
        /\ \A k \in 1..1 + Len(shared) :
              shared'[k] = IF k <= 1 THEN <<value[t]>>[k] ELSE shared[k - 1]
    BY <2>1, <2>2, ConcatProperties
  <2>4. Range(shared') = {value[t]} \cup Range(shared)
    <3>1. ASSUME NEW i \in Range(shared') PROVE i \in {value[t]} \cup Range(shared)
      <4>1. PICK k \in 1..Len(shared') : i = shared'[k]
        BY <2>3, RangeIndex
      <4>2. k = 1 \/ (k - 1 \in 1..Len(shared) /\ i = shared[k - 1])
        BY <2>2, <2>3, <4>1
      <4> QED
        BY <2>1, <2>2, <2>3, <4>1, <4>2, RangeIndex
    <3>2. value[t] \in Range(shared')
      <4>1. 1 \in 1..Len(shared') /\ shared'[1] = value[t]
        BY <2>1, <2>2, <2>3
      <4> QED
        BY <2>3, <4>1, RangeIndex
    <3>3. ASSUME NEW i \in Range(shared) PROVE i \in Range(shared')
      <4>1. PICK k \in 1..Len(shared) : i = shared[k]
        BY <2>2, RangeIndex
      <4>2. k + 1 \in 1..Len(shared') /\ shared'[k + 1] = i
        BY <2>2, <2>3, <4>1
      <4> QED
        BY <2>3, <4>2, RangeIndex
    <3> QED
      BY <3>1, <3>2, <3>3
  <2> QED
    BY <2>1, <2>2, <2>3, <2>4
<1>c. Range(shared') = {value[t]} \cup Range(shared)
  BY <1>b
<1>d. Null \notin Range(shared') /\ \A u \in Threads : Null \notin Range(private[u])
  BY <1>a, <1>c, NullNotListed
<1>1. TypeOK'
  BY <1>a, <1>b DEF PushCas, TypeOK, Labels
<1>2. SharedListInMemory'
  <2>1. head' = shared'[1] /\ shared' # <<>>
    BY <1>b DEF PushCas
  <2>2. ASSUME NEW k \in 1..Len(shared')
        PROVE  next'[shared'[k]] = IF k < Len(shared') THEN shared'[k + 1] ELSE Null
    <3>1. CASE k = 1
      <4>1. CASE shared = <<>>
        BY <1>a, <1>b, <3>1, <4>1 DEF PushCas, SharedListInMemory
      <4>2. CASE shared # <<>>
        BY <1>a, <1>b, <3>1, <4>2, RangeIndex DEF PushCas, TypeOK, SharedListInMemory
      <4> QED
        BY <4>1, <4>2
    <3>2. CASE k > 1
      <4>1. k - 1 \in 1..Len(shared) /\ shared'[k] = shared[k - 1]
        BY <1>b, <3>2
      <4>2. next[shared[k - 1]] = IF k - 1 < Len(shared) THEN shared[k - 1 + 1] ELSE Null
        BY <4>1 DEF SharedListInMemory, Linked
      <4>3. k < Len(shared') <=> k - 1 < Len(shared)
        BY <1>b
      <4>4. k < Len(shared') => shared'[k + 1] = shared[k - 1 + 1]
        BY <1>b
      <4> QED
        BY <4>1, <4>2, <4>3, <4>4 DEF PushCas
    <3> QED
      BY <1>b, <3>1, <3>2
  <2>3. \A k \in 1..Len(shared) : shared[k] # value[t]
    BY RangeIndex DEF TypeOK, Exclusive
  <2>4. ASSUME NEW j \in 1..Len(shared'), NEW k \in 1..Len(shared'), shared'[j] = shared'[k]
        PROVE  j = k
    <3>1. CASE j = 1 /\ k = 1
      BY <3>1
    <3>2. CASE (j = 1 /\ k > 1) \/ (k = 1 /\ j > 1)
      BY <1>b, <2>3, <2>4, <3>2
    <3>3. CASE j > 1 /\ k > 1
      <4>1. j - 1 \in 1..Len(shared) /\ k - 1 \in 1..Len(shared) /\ shared[j - 1] = shared[k - 1]
        BY <1>b, <2>4, <3>3
      <4> QED
        BY <1>b, <4>1 DEF SharedListInMemory, Distinct
    <3>4. j \in Nat /\ j >= 1 /\ k \in Nat /\ k >= 1
      BY <1>b
    <3> QED
      BY <3>1, <3>2, <3>3, <3>4
  <2> QED
    BY <2>1, <2>2, <2>4 DEF SharedListInMemory, Linked, Distinct
<1>3. PrivateListInMemory'
  <2>1. ASSUME NEW u \in Threads \ {t} PROVE PrivateList(u)'
    BY PrivateFrame DEF PushCas, TypeOK, PrivateListInMemory
  <2>2. private'[t] = <<>> /\ pc'[t] \notin Holding
    BY DEF PushCas, TypeOK, PrivateListInMemory, PrivateList, Holding
  <2>3. PrivateList(t)'
    BY <2>2, PrivateNone
  <2> QED
    BY <2>1, <2>3 DEF PrivateListInMemory
<1>4. Exclusive'
  <2>1. value[t] # Null /\ private' = private /\ value' = [value EXCEPT ![t] = Null]
    BY <1>a, NullAssumption DEF PushCas
  <2>2. ASSUME NEW u \in Threads
        PROVE  Range(shared') \cap Range(private[u]) = {} /\ value'[u] \notin Range(shared')
    BY <1>c, <1>d, <2>1 DEF Exclusive, TypeOK
  <2>3. ASSUME NEW u \in Threads, NEW w \in Threads
        PROVE  value'[u] \notin Range(private[w])
    BY <1>d, <2>1 DEF Exclusive, TypeOK
  <2>4. ASSUME NEW u \in Threads, NEW w \in Threads \ {u}
        PROVE  /\ Range(private[u]) \cap Range(private[w]) = {}
               /\ value'[u] # Null => value'[u] # value'[w]
    BY <2>1 DEF Exclusive, TypeOK
  <2> QED
    BY <2>1, <2>2, <2>3, <2>4 DEF Exclusive
<1>5. PopGivesItem'
  BY DEF PushCas, TypeOK, PopGivesItem
<1> QED
  BY <1>1, <1>2, <1>3, <1>4, <1>5

LEMMA PopExchangeIInv ==
  ASSUME NEW t \in Threads, IInv, PopExchange(t) PROVE IInv'
<1> USE NullAssumption DEF IInv
<1>a. head = Null <=> shared = <<>>
  BY RangeIndex DEF TypeOK, SharedListInMemory
<1>b. private[t] = <<>> /\ Range(<<>>) = {}
  BY DEF PopExchange, PrivateListInMemory, PrivateList, Holding, Range
<1>1. TypeOK'
  BY DEF PopExchange, TypeOK, Labels
<1>2. SharedListInMemory'
  BY <1>a DEF PopExchange, SharedListInMemory, Linked, Distinct
<1>3. PrivateListInMemory'
  <2>1. ASSUME NEW u \in Threads \ {t} PROVE PrivateList(u)'
    BY PrivateFrame DEF PopExchange, TypeOK, PrivateListInMemory
  <2>2. PrivateList(t)'
    BY <1>a, RangeIndex DEF PopExchange, TypeOK, PrivateListInMemory, PrivateList, Holding, Linked, Distinct, SharedListInMemory
  <2> QED
    BY <2>1, <2>2 DEF PrivateListInMemory
<1>4. Exclusive'
  BY <1>b DEF PopExchange, TypeOK, Exclusive
<1>5. PopGivesItem'
  BY DEF PopExchange, TypeOK, PopGivesItem
<1> QED
  BY <1>1, <1>2, <1>3, <1>4, <1>5

LEMMA PopEmptyIInv ==
  ASSUME NEW t \in Threads, IInv, PopEmpty(t) PROVE IInv'
<1> USE NullAssumption DEF IInv
<1>1. TypeOK'
  BY DEF PopEmpty, TypeOK, Labels
<1>2. SharedListInMemory'
  BY SharedFrame DEF PopEmpty
<1>3. PrivateListInMemory'
  <2>1. ASSUME NEW u \in Threads \ {t} PROVE PrivateList(u)'
    BY PrivateFrame DEF PopEmpty, TypeOK, PrivateListInMemory
  <2>2. private'[t] = <<>> /\ pc'[t] \notin Holding
    BY DEF PopEmpty, TypeOK, PrivateListInMemory, PrivateList, Holding
  <2>3. PrivateList(t)'
    BY <2>2, PrivateNone
  <2> QED
    BY <2>1, <2>3 DEF PrivateListInMemory
<1>4. Exclusive'
  BY DEF PopEmpty, TypeOK, Exclusive
<1>5. PopGivesItem'
  BY DEF PopEmpty, TypeOK, PopGivesItem
<1> QED
  BY <1>1, <1>2, <1>3, <1>4, <1>5

LEMMA PopAdvanceIInv ==
  ASSUME NEW t \in Threads, IInv, PopAdvance(t) PROVE IInv'
<1> USE NullAssumption DEF IInv
<1>a. PICK k \in 1..Len(private[t]) :
              /\ tail[t] = private[t][k] /\ tail[t] \in Items
              /\ IF k < Len(private[t])
                 THEN next[tail[t]] = private[t][k + 1] /\ next[tail[t]] \in Items
                 ELSE k = 1 /\ next[tail[t]] = Null
  BY WalkTail DEF PopAdvance
<1>b. /\ k < Len(private[t]) /\ tail'[t] = private[t][k + 1] /\ tail'[t] \in Items
      /\ Len(private[t]) \in Nat
  BY <1>a, WalkTail DEF PopAdvance, TypeOK
<1>c. k + 1 \in 1..Len(private[t]) /\ k + 1 < Len(private[t])
  BY <1>a, <1>b DEF PopAdvance, PrivateListInMemory, PrivateList, Linked
<1>1. TypeOK'
  BY <1>a, <1>b DEF PopAdvance, TypeOK, Labels
<1>2. SharedListInMemory'
  BY SharedFrame DEF PopAdvance
<1>3. PrivateListInMemory'
  <2>1. ASSUME NEW u \in Threads \ {t} PROVE PrivateList(u)'
    BY PrivateFrame DEF PopAdvance, TypeOK, PrivateListInMemory
  <2>2. PrivateList(t)'
    BY <1>b, <1>c DEF PopAdvance, TypeOK, PrivateListInMemory, PrivateList, Holding, Linked, Distinct
  <2> QED
    BY <2>1, <2>2 DEF PrivateListInMemory
<1>4. Exclusive'
  BY DEF PopAdvance, TypeOK, Exclusive
<1>5. PopGivesItem'
  BY DEF PopAdvance, TypeOK, PopGivesItem
<1> QED
  BY <1>1, <1>2, <1>3, <1>4, <1>5

LEMMA PopMergeRetryIInv ==
  ASSUME NEW t \in Threads, IInv, PopMergeRetry(t) PROVE IInv'
<1> USE NullAssumption DEF IInv
<1>1. TypeOK'
  BY DEF PopMergeRetry, TypeOK, Labels
<1>2. SharedListInMemory'
  BY SharedFrame DEF PopMergeRetry
<1>3. PrivateListInMemory'
  <2>1. ASSUME NEW u \in Threads \ {t} PROVE PrivateList(u)'
    BY PrivateFrame DEF PopMergeRetry, TypeOK, PrivateListInMemory
  <2>2. PrivateList(t)'
    BY DEF PopMergeRetry, TypeOK, PrivateListInMemory, PrivateList, Holding, Linked, Distinct
  <2> QED
    BY <2>1, <2>2 DEF PrivateListInMemory
<1>4. Exclusive'
  BY DEF PopMergeRetry, TypeOK, Exclusive
<1>5. PopGivesItem'
  BY DEF PopMergeRetry, TypeOK, PopGivesItem
<1> QED
  BY <1>1, <1>2, <1>3, <1>4, <1>5

LEMMA PopRelinkIInv ==
  ASSUME NEW t \in Threads, IInv, PopRelink(t) PROVE IInv'
<1> USE NullAssumption DEF IInv
<1>a. /\ tail[t] \in Items /\ Len(private[t]) \in Nat \ {0}
      /\ tail[t] = private[t][Len(private[t])]
      /\ \A k \in 1..Len(shared) : shared[k] # tail[t]
      /\ \A u \in Threads \ {t} : \A k \in 1..Len(private[u]) : private[u][k] # tail[t]
      /\ \A u \in Threads : value[u] # tail[t]
  BY MergeTail, RangeIndex DEF PopRelink, TypeOK, Exclusive
<1>1. TypeOK'
  BY <1>a DEF PopRelink, TypeOK, Labels
<1>2. SharedListInMemory'
  BY <1>a, SharedFrame DEF PopRelink, TypeOK
<1>3. PrivateListInMemory'
  <2>1. ASSUME NEW u \in Threads \ {t} PROVE PrivateList(u)'
    BY <1>a, PrivateFrame DEF PopRelink, TypeOK, PrivateListInMemory
  <2>2. PrivateList(t)'
    BY <1>a DEF PopRelink, TypeOK, PrivateListInMemory, PrivateList, Holding, Linked, Distinct
  <2> QED
    BY <2>1, <2>2 DEF PrivateListInMemory
<1>4. Exclusive'
  BY DEF PopRelink, TypeOK, Exclusive
<1>5. PopGivesItem'
  BY <1>a DEF PopRelink, TypeOK, PopGivesItem
<1> QED
  BY <1>1, <1>2, <1>3, <1>4, <1>5

LEMMA PopReturnIInv ==
  ASSUME NEW t \in Threads, IInv, PopReturn(t) PROVE IInv'
<1> USE NullAssumption DEF IInv
<1>1. TypeOK'
  BY DEF PopReturn, TypeOK, Labels
<1>2. SharedListInMemory'
  BY SharedFrame DEF PopReturn
<1>3. PrivateListInMemory'
  <2>1. ASSUME NEW u \in Threads \ {t} PROVE PrivateList(u)'
    BY PrivateFrame DEF PopReturn, TypeOK, PrivateListInMemory
  <2>2. private'[t] = <<>> /\ pc'[t] \notin Holding
    BY DEF PopReturn, TypeOK, PrivateListInMemory, PrivateList, Holding
  <2>3. PrivateList(t)'
    BY <2>2, PrivateNone
  <2> QED
    BY <2>1, <2>3 DEF PrivateListInMemory
<1>4. Exclusive'
  BY NullNotListed DEF PopReturn, TypeOK, Exclusive
<1>5. PopGivesItem'
  BY DEF PopReturn, TypeOK, PopGivesItem
<1> QED
  BY <1>1, <1>2, <1>3, <1>4, <1>5

LEMMA PopDetachIInv ==
  ASSUME NEW t \in Threads, IInv, PopDetach(t) PROVE IInv'
<1> USE NullAssumption DEF IInv
<1> DEFINE p == private[t]
           n == Len(p)
<1>a. /\ p \in Seq(Items) /\ n \in Nat /\ n >= 2
      /\ 1 \in 1..n - 1 /\ n - 1 \in 1..n /\ n \in 1..n
      /\ tail[t] = p[n - 1] /\ tail[t] \in Items
      /\ next[tail[t]] = p[n] /\ p[n] \in Items
      /\ value[t] = Null /\ seen[t] = Null
  <2>1. p \in Seq(Items) /\ n \in Nat \ {0} /\ value[t] = Null /\ seen[t] = Null
    BY WalkTail DEF PopDetach, PopGivesItem
  <2>2. PICK k \in 1..n :
              /\ tail[t] = p[k] /\ tail[t] \in Items
              /\ IF k < n THEN next[tail[t]] = p[k + 1] /\ next[tail[t]] \in Items
                          ELSE k = 1 /\ next[tail[t]] = Null
    BY WalkTail DEF PopDetach
  <2>3. k < n /\ k + 1 \in 1..n /\ next[p[k + 1]] = Null
    BY <2>1, <2>2 DEF PopDetach
  <2>4. ~(k + 1 < n)
    <3>1. k + 1 < n => next[p[k + 1]] = p[k + 2] /\ p[k + 2] \in Items
      BY <2>1, <2>3, RangeIndex DEF PopDetach, PrivateListInMemory, PrivateList, Linked
    <3> QED
      BY <2>3, <3>1
  <2>5. k = n - 1
    BY <2>1, <2>3, <2>4
  <2> QED
    BY <2>1, <2>2, <2>3, <2>5
<1>b. /\ private'[t] \in Seq(Items)
      /\ Len(private'[t]) = n - 1
      /\ \A k \in 1..n - 1 : private'[t][k] = p[k]
  <2>1. private'[t] = SubSeq(p, 1, n - 1)
    BY DEF PopDetach, TypeOK
  <2>2. \A k \in 1..n - 1 : p[k] \in Items
    BY <1>a, RangeIndex
  <2> QED
    BY <1>a, <2>1, <2>2, SubSeqProperties
<1>c. Distinct(p) /\ Linked(p, Null) /\ localHead[t] = p[1]
  BY DEF PopDetach, PrivateListInMemory, PrivateList, Holding
<1>d. /\ Range(private'[t]) \subseteq Range(p)
      /\ p[n] \in Range(p) /\ p[n] \notin Range(private'[t])
  <2>1. \A i \in Range(private'[t]) : \E k \in 1..n - 1 : i = p[k]
    <3>1. \A i \in Range(private'[t]) : \E k \in 1..Len(private'[t]) : i = private'[t][k]
      BY <1>b, RangeIndex
    <3> QED
      BY <1>b, <3>1
  <2>2. ASSUME NEW k \in 1..n - 1 PROVE p[k] \in Range(p) /\ p[k] # p[n]
    <3>1. k \in 1..n /\ k # n
      BY <1>a
    <3>2. p[k] \in Range(p)
      BY <1>a, <3>1, RangeIndex
    <3> QED
      BY <1>a, <1>c, <3>1, <3>2 DEF Distinct
  <2>3. p[n] \in Range(p)
    BY <1>a, RangeIndex
  <2> QED
    BY <2>1, <2>2, <2>3
<1>e. /\ tail[t] # p[n]
      /\ \A k \in 1..Len(shared) : shared[k] # tail[t]
      /\ \A u \in Threads \ {t} : \A k \in 1..Len(private[u]) : private[u][k] # tail[t]
      /\ \A u \in Threads : value[u] # tail[t]
  <2>1. tail[t] \in Range(p)
    BY <1>a, RangeIndex
  <2>2. tail[t] # p[n]
    BY <1>a, <1>c DEF Distinct
  <2> QED
    BY <2>1, <2>2, RangeIndex DEF TypeOK, Exclusive
<1>f. /\ next' = [next EXCEPT ![tail[t]] = Null]
      /\ value' = [value EXCEPT ![t] = p[n]]
      /\ next[p[n]] = Null
  BY <1>a, <1>c DEF PopDetach, Linked
<1>1. TypeOK'
  BY <1>a, <1>b, <1>f DEF PopDetach, TypeOK, Labels
<1>2. SharedListInMemory'
  BY <1>e, SharedFrame DEF PopDetach, TypeOK
<1>3. PrivateListInMemory'
  <2>1. ASSUME NEW u \in Threads \ {t} PROVE PrivateList(u)'
    BY <1>e, PrivateFrame DEF PopDetach, TypeOK, PrivateListInMemory
  <2>2. pc'[t] = "merge" /\ private'[t] # <<>> /\ localHead'[t] = private'[t][1]
    <3>1. n - 1 # 0 /\ Len(private'[t]) # 0 /\ 1 \in 1..n - 1
      BY <1>a, <1>b
    <3>2. private'[t] # <<>>
      BY <3>1
    <3> QED
      BY <1>b, <1>c, <3>1, <3>2 DEF PopDetach, TypeOK
  <2>3. tail'[t] = private'[t][Len(private'[t])] /\ next'[tail'[t]] = Null /\ seen'[t] = Null
    BY <1>a, <1>b, <1>f DEF PopDetach, TypeOK
  <2>4. ASSUME NEW j \in 1..n - 1, NEW k \in 1..n - 1, private'[t][j] = private'[t][k]
        PROVE  j = k
    <3>1. j \in 1..n /\ k \in 1..n /\ p[j] = p[k]
      BY <1>a, <1>b, <2>4
    <3> QED
      BY <1>c, <3>1 DEF Distinct
  <2>5. ASSUME NEW k \in 1..n - 1
        PROVE  next'[private'[t][k]] = IF k < n - 1 THEN private'[t][k + 1] ELSE Null
    <3>1. CASE k = n - 1
      BY <1>a, <1>b, <1>f, <3>1 DEF TypeOK
    <3>2. CASE k < n - 1
      <4>1. k \in 1..n /\ n - 1 \in 1..n /\ k + 1 \in 1..n - 1 /\ k < n /\ k # n - 1
        BY <1>a, <3>2
      <4>2. p[k] # tail[t] /\ p[k] \in Items
        BY <1>a, <1>c, <4>1, RangeIndex DEF Distinct
      <4>3. next[p[k]] = p[k + 1]
        BY <1>c, <4>1 DEF Linked
      <4> QED
        BY <1>b, <1>f, <3>2, <4>1, <4>2, <4>3 DEF TypeOK
    <3> QED
      BY <1>a, <3>1, <3>2
  <2>6. Linked(private[t], Null)'
    BY <1>b, <2>5 DEF Linked
  <2>7. Distinct(private[t])'
    BY <1>b, <2>4 DEF Distinct
  <2>8. PrivateList(t)'
    BY <2>2, <2>3, <2>6, <2>7 DEF PrivateList, Holding
  <2> QED
    BY <2>1, <2>8 DEF PrivateListInMemory
<1>4. Exclusive'
  BY <1>a, <1>d, <1>f DEF PopDetach, TypeOK, Exclusive
<1>5. PopGivesItem'
  BY <1>a, <1>e, <1>f DEF PopDetach, TypeOK, PopGivesItem, Exclusive
<1> QED
  BY <1>1, <1>2, <1>3, <1>4, <1>5

LEMMA PopSingleIInv ==
  ASSUME NEW t \in Threads, IInv, PopSingle(t) PROVE IInv'
<1> USE NullAssumption DEF IInv
<1>a. /\ Len(private[t]) = 1 /\ 1 \in 1..Len(private[t])
      /\ tail[t] = private[t][1] /\ tail[t] \in Items
      /\ tail[t] = localHead[t] /\ value[t] = Null
  <2>1. PICK k \in 1..Len(private[t]) :
              /\ tail[t] = private[t][k] /\ tail[t] \in Items
              /\ IF k < Len(private[t])
                 THEN next[tail[t]] = private[t][k + 1] /\ next[tail[t]] \in Items
                 ELSE k = 1 /\ next[tail[t]] = Null
    BY WalkTail DEF PopSingle
  <2>2. k = 1 /\ Len(private[t]) = 1
    <3>1. Len(private[t]) \in Nat
      BY WalkTail DEF PopSingle
    <3>2. ~(k < Len(private[t]))
      BY <2>1 DEF PopSingle
    <3>3. k = 1
      BY <2>1, <3>2
    <3> DEFINE n == Len(private[t])
    <3>4. n \in Nat /\ ~(k < n) /\ k \in 1..n
      BY <3>1, <3>2
    <3> HIDE DEF n
    <3>5. n = 1
      BY <3>3, <3>4
    <3> QED
      BY <3>3, <3>5 DEF n
  <2> QED
    BY <2>1, <2>2 DEF PopSingle, PrivateListInMemory, PrivateList, Holding, PopGivesItem
<1>b. /\ value' = [value EXCEPT ![t] = tail[t]]
      /\ private' = [private EXCEPT ![t] = <<>>]
      /\ pc' = [pc EXCEPT ![t] = "done"]
      /\ localHead' = [localHead EXCEPT ![t] = Null]
      /\ tail' = [tail EXCEPT ![t] = Null]
      /\ UNCHANGED <<head, next, seen, shared>>
  BY <1>a DEF PopSingle
<1>c. tail[t] \in Range(private[t]) /\ Range(<<>>) = {}
  <2>1. private[t] \in Seq(Items)
    BY DEF TypeOK
  <2>2. Range(<<>>) = {}
    BY DEF Range
  <2> QED
    BY <1>a, <2>1, <2>2, RangeIndex
<1>1. TypeOK'
  BY <1>a, <1>b DEF TypeOK, Labels
<1>2. SharedListInMemory'
  BY <1>b, SharedFrame
<1>3. PrivateListInMemory'
  <2>1. ASSUME NEW u \in Threads \ {t} PROVE PrivateList(u)'
    BY <1>b, PrivateFrame DEF TypeOK, PrivateListInMemory
  <2>2. private'[t] = <<>> /\ pc'[t] \notin Holding
    BY <1>b DEF TypeOK, Holding
  <2>3. PrivateList(t)'
    BY <2>2, PrivateNone
  <2> QED
    BY <2>1, <2>3 DEF PrivateListInMemory
<1>4. Exclusive'
  BY <1>a, <1>b, <1>c DEF TypeOK, Exclusive
<1>5. PopGivesItem'
  BY <1>a, <1>b DEF PopSingle, TypeOK, PopGivesItem
<1> QED
  BY <1>1, <1>2, <1>3, <1>4, <1>5

LEMMA PopMergeIInv ==
  ASSUME NEW t \in Threads, IInv, PopMerge(t) PROVE IInv'
<1> USE NullAssumption DEF IInv
<1> DEFINE p == private[t]
           n == Len(p)
           m == Len(shared)
<1>a. /\ p \in Seq(Items) /\ n \in Nat /\ n >= 1 /\ 1 \in 1..n /\ n \in 1..n
      /\ shared \in Seq(Items) /\ m \in Nat
      /\ localHead[t] = p[1] /\ next[p[n]] = head
      /\ Distinct(p) /\ Linked(p, head)
  <2>1. p \in Seq(Items) /\ n \in Nat \ {0} /\ tail[t] = p[n] /\ shared \in Seq(Items) /\ m \in Nat
    BY MergeTail, RangeIndex DEF PopMerge, TypeOK
  <2> QED
    BY <2>1 DEF PopMerge, PrivateListInMemory, PrivateList, Holding
<1>b. /\ shared' \in Seq(Items)
      /\ Len(shared') = n + m
      /\ \A k \in 1..n : shared'[k] = p[k]
      /\ \A k \in n + 1..n + m : shared'[k] = shared[k - n]
  <2>1. shared' = p \o shared
    BY DEF PopMerge
  <2>2. /\ p \o shared \in Seq(Items)
        /\ Len(p \o shared) = n + m
        /\ \A k \in 1..n + m : (p \o shared)[k] = IF k <= n THEN p[k] ELSE shared[k - n]
    BY <1>a, ConcatProperties
  <2> QED
    BY <1>a, <2>1, <2>2
<1>c. ASSUME NEW i \in Range(shared') PROVE i \in Range(p) \cup Range(shared)
  <2>1. PICK k \in 1..Len(shared') : i = shared'[k]
    BY <1>b, RangeIndex
  <2>2. (k \in 1..n /\ i = p[k]) \/ (k - n \in 1..m /\ i = shared[k - n])
    BY <1>a, <1>b, <2>1
  <2> QED
    BY <1>a, <2>2, RangeIndex
<1>d. ASSUME NEW j \in 1..n, NEW k \in 1..m PROVE p[j] # shared[k]
  BY <1>a, RangeIndex DEF Exclusive
<1>e. /\ private'[t] = <<>> /\ Range(<<>>) = {}
      /\ private' = [private EXCEPT ![t] = <<>>]
      /\ value' = value
  BY DEF PopMerge, TypeOK, Range
<1>1. TypeOK'
  <2>1. head' \in Items
    BY <1>a, RangeIndex DEF PopMerge
  <2> QED
    BY <1>b, <2>1 DEF PopMerge, TypeOK, Labels
<1>2. SharedListInMemory'
  <2>1. head' = shared'[1] /\ shared' # <<>>
    <3>1. Len(shared') # 0 /\ shared'[1] = p[1]
      BY <1>a, <1>b
    <3> QED
      BY <1>a, <3>1 DEF PopMerge
  <2>2. ASSUME NEW k \in 1..n + m
        PROVE  next'[shared'[k]] = IF k < n + m THEN shared'[k + 1] ELSE Null
    <3>0. next' = next
      BY DEF PopMerge
    <3>1. CASE k < n
      <4>1. k \in 1..n /\ k + 1 \in 1..n
        BY <1>a, <3>1
      <4>2. next[p[k]] = p[k + 1]
        BY <1>a, <3>1, <4>1 DEF Linked
      <4> QED
        BY <1>a, <1>b, <3>0, <3>1, <4>1, <4>2
    <3>2. CASE k = n
      <4>1. next'[shared'[k]] = head
        BY <1>a, <1>b, <3>0, <3>2
      <4>2. m = 0 => head = Null
        <5>1. m = 0 => shared = <<>>
          BY <1>a, RangeIndex
        <5> QED
          BY <5>1 DEF SharedListInMemory
      <4>3. m > 0 => head = shared[1]
        BY DEF SharedListInMemory
      <4>4. m > 0 => shared'[k + 1] = shared[1]
        <5>1. m > 0 => n + 1 \in n + 1..n + m /\ n + 1 - n = 1
          BY <1>a
        <5>2. ASSUME n + 1 \in n + 1..n + m PROVE shared'[n + 1] = shared[n + 1 - n]
          BY <1>b, <5>2
        <5> QED
          BY <3>2, <5>1, <5>2
      <4> QED
        BY <1>a, <3>2, <4>1, <4>2, <4>3, <4>4
    <3>3. CASE k > n
      <4>1. k - n \in 1..m /\ k \in n + 1..n + m
        BY <1>a, <3>3
      <4>2. next[shared[k - n]] = IF k - n < m THEN shared[k - n + 1] ELSE Null
        BY <4>1 DEF SharedListInMemory, Linked
      <4>3. k < n + m => k + 1 \in n + 1..n + m /\ k + 1 - n = k - n + 1 /\ k - n < m
        BY <1>a, <4>1
      <4>4. ~(k < n + m) => ~(k - n < m)
        BY <1>a, <4>1
      <4>5. k < n + m => shared'[k + 1] = shared[k - n + 1]
        <5>1. \A j : j \in n + 1..n + m => shared'[j] = shared[j - n]
          BY <1>b
        <5>2. k + 1 \in n + 1..n + m => shared'[k + 1] = shared[(k + 1) - n]
          <6> HIDE DEF n, m
          <6> QED
            BY <5>1, Zenon
        <5>3. (k + 1) - n = k - n + 1
          BY <1>a
        <5> QED
          BY <4>3, <5>2, <5>3
      <4> QED
        BY <1>b, <3>0, <4>1, <4>2, <4>3, <4>4, <4>5
    <3>4. k < n \/ k = n \/ k > n
      BY <1>a
    <3> QED
      BY <3>1, <3>2, <3>3, <3>4
  <2>3. ASSUME NEW j \in 1..n + m, NEW k \in 1..n + m, shared'[j] = shared'[k]
        PROVE  j = k
    <3>1. CASE j \in 1..n /\ k \in 1..n
      BY <1>a, <1>b, <2>3, <3>1 DEF Distinct
    <3>2. CASE j - n \in 1..m /\ k - n \in 1..m
      <4>1. shared[j - n] = shared[k - n]
        BY <1>a, <1>b, <2>3, <3>2
      <4>2. j - n = k - n
        BY <3>2, <4>1 DEF SharedListInMemory, Distinct
      <4> QED
        BY <1>a, <4>2
    <3>3. CASE j \in 1..n /\ k - n \in 1..m
      <4>1. k \in n + 1..n + m
        BY <1>a, <3>3
      <4>2. shared'[j] = p[j] /\ shared'[k] = shared[k - n]
        BY <1>b, <3>3, <4>1
      <4> QED
        BY <1>d, <2>3, <3>3, <4>2
    <3>4. CASE k \in 1..n /\ j - n \in 1..m
      <4>1. j \in n + 1..n + m
        BY <1>a, <3>4
      <4>2. shared'[k] = p[k] /\ shared'[j] = shared[j - n]
        BY <1>b, <3>4, <4>1
      <4> QED
        BY <1>d, <2>3, <3>4, <4>2
    <3>5. /\ j \in 1..n \/ j - n \in 1..m
          /\ k \in 1..n \/ k - n \in 1..m
      BY <1>a
    <3> QED
      BY <3>1, <3>2, <3>3, <3>4, <3>5
  <2> QED
    BY <1>b, <2>1, <2>2, <2>3 DEF SharedListInMemory, Linked, Distinct
<1>3. PrivateListInMemory'
  <2>1. ASSUME NEW u \in Threads \ {t} PROVE PrivateList(u)'
    BY PrivateFrame DEF PopMerge, TypeOK, PrivateListInMemory
  <2>2. private'[t] = <<>> /\ pc'[t] \notin Holding
    BY DEF PopMerge, TypeOK, Holding
  <2>3. PrivateList(t)'
    BY <2>2, PrivateNone
  <2> QED
    BY <2>1, <2>3 DEF PrivateListInMemory
<1>4. Exclusive'
  BY <1>c, <1>e DEF TypeOK, Exclusive
<1>5. PopGivesItem'
  BY DEF PopMerge, TypeOK, PopGivesItem
<1> QED
  BY <1>1, <1>2, <1>3, <1>4, <1>5

----------------------------------------------------------------------------
(* The invariant of the specification *)

LEMMA NextIInv == IInv /\ [Next]_vars => IInv'
<1> SUFFICES ASSUME IInv, [Next]_vars PROVE IInv'
  OBVIOUS
<1>1. CASE UNCHANGED vars
  <2>1. UNCHANGED <<head, next, pc, value, localHead, tail, seen, shared, private>>
    BY <1>1 DEF vars
  <2>2. TypeOK'
    BY <2>1 DEF IInv, TypeOK
  <2>3. SharedListInMemory'
    BY <2>1, SharedFrame DEF IInv
  <2>4. PrivateListInMemory'
    BY <2>1, PrivateFrame DEF IInv, PrivateListInMemory
  <2>5. Exclusive'
    BY <2>1 DEF IInv, Exclusive
  <2>6. PopGivesItem'
    BY <2>1 DEF IInv, PopGivesItem
  <2> QED
    BY <2>2, <2>3, <2>4, <2>5, <2>6 DEF IInv
<1>2. ASSUME NEW t \in Threads, PushStep(t) PROVE IInv'
  <2>1. ASSUME NEW i \in Items, PushLoad(t, i) PROVE IInv'
    BY <2>1, PushLoadIInv
  <2>2. CASE PushLink(t)
    BY <2>2, PushLinkIInv
  <2>3. CASE PushCas(t)
    BY <2>3, PushCasIInv
  <2>4. CASE PushRetry(t)
    BY <2>4, PushRetryIInv
  <2> QED
    BY <1>2, <2>1, <2>2, <2>3, <2>4 DEF PushStep
<1>3. ASSUME NEW t \in Threads, PopStep(t) PROVE IInv'
  <2>1. CASE PopExchange(t)
    BY <2>1, PopExchangeIInv
  <2>2. CASE PopEmpty(t)
    BY <2>2, PopEmptyIInv
  <2>3. CASE PopAdvance(t)
    BY <2>3, PopAdvanceIInv
  <2>4. CASE PopDetach(t)
    BY <2>4, PopDetachIInv
  <2>5. CASE PopSingle(t)
    BY <2>5, PopSingleIInv
  <2>6. CASE PopMerge(t)
    BY <2>6, PopMergeIInv
  <2>7. CASE PopMergeRetry(t)
    BY <2>7, PopMergeRetryIInv
  <2>8. CASE PopRelink(t)
    BY <2>8, PopRelinkIInv
  <2>9. CASE PopReturn(t)
    BY <2>9, PopReturnIInv
  <2> QED
    BY <1>3, <2>1, <2>2, <2>3, <2>4, <2>5, <2>6, <2>7, <2>8, <2>9 DEF PopStep
<1> QED
  BY <1>1, <1>2, <1>3 DEF Next

\* For any number of threads pushing and popping at the same time (push and
\* pop, intrusive_queue.h:72-129): the links in memory always form the lists of
\* the waiting items, each once, no item is in two places, and a pop that
\* returns true returns an item.
THEOREM QueueCorrect == Spec => []IInv
  BY InitIInv, NextIInv, PTL DEF Spec

\* For any number of threads, the memory reachable from head_ is the list of
\* the items pushed and not taken, in one piece and without a cycle, whatever
\* compare-and-swaps of push and pop interleave.
THEOREM QueueListInMemory == Spec => []SharedListInMemory
  BY QueueCorrect, PTL DEF IInv

\* For any number of threads, a pop's own list stays whole between local_head
\* and tail until the merge (intrusive_queue.h:98-126).
THEOREM QueuePrivateLists == Spec => []PrivateListInMemory
  BY QueueCorrect, PTL DEF IInv

\* For any number of threads, no two calls of push and pop ever work on the same
\* item, so no item is returned by two pops.
THEOREM QueueExclusive == Spec => []Exclusive
  BY QueueCorrect, PTL DEF IInv

----------------------------------------------------------------------------
(* The list implements the pool *)

poolUnchanged == PoolWaiting' = PoolWaiting /\ PoolStage' = PoolStage /\ PoolHand' = PoolHand

\* What the items in the hands of pops are.
LEMMA HandFacts ==
  ASSUME IInv, NEW u \in Threads
  PROVE  /\ pc[u] = "walk" => PoolHand[u] = private[u][Len(private[u])]
                           /\ PoolHand[u] \in Range(private[u])
         /\ pc[u] \in {"merge", "relink", "done"} => PoolHand[u] = value[u]
         /\ pc[u] \notin {"walk", "merge", "relink", "done"} => PoolHand[u] = Null
         /\ PoolHand[u] \notin Range(shared)
<1>1. pc[u] = "walk" => Len(private[u]) \in 1..Len(private[u]) /\ private[u] \in Seq(Items)
  BY WalkTail
<1>2. pc[u] = "walk" => private[u][Len(private[u])] \in Range(private[u])
  BY <1>1, RangeIndex
<1>3. Null \notin Range(shared)
  BY NullNotListed DEF IInv
<1> QED
  BY <1>2, <1>3 DEF PoolHand, IInv, Exclusive

\* Membership in the three variables of the pool.
LEMMA WaitingMember ==
  ASSUME NEW i
  PROVE  i \in PoolWaiting <=>
           /\ i \in Range(shared) \/ \E u \in Threads : i \in Range(private[u])
           /\ \A u \in Threads : PoolHand[u] # i
  BY DEF PoolWaiting, Listed

\* A step that moves no item between lists and hands leaves the pool alone.
LEMMA SameLists ==
  ASSUME shared' = shared, private' = private, PoolHand' = PoolHand, PoolStage' = PoolStage
  PROVE  poolUnchanged
  BY DEF poolUnchanged, PoolWaiting, Listed

LEMMA InitPool == Init => Pool!PoolInit
<1> SUFFICES ASSUME Init PROVE Pool!PoolInit
  OBVIOUS
<1>1. PoolHand = [t \in Threads |-> Null] /\ PoolStage = [t \in Threads |-> "out"]
  BY DEF Init, PoolHand, PoolStage, Holding
<1>2. PoolWaiting = {}
  BY DEF Init, PoolWaiting, Listed, Range
<1> QED
  BY <1>1, <1>2 DEF Pool!PoolInit

----------------------------------------------------------------------------
(* Steps that the pool does not see *)

LEMMA PushLoadPool ==
  ASSUME IInv, NEW t \in Threads, NEW i \in Items, PushLoad(t, i) PROVE poolUnchanged
<1>1. PoolHand' = PoolHand /\ PoolStage' = PoolStage
  BY DEF PushLoad, PoolHand, PoolStage, Holding, IInv, TypeOK
<1> QED
  BY <1>1, SameLists DEF PushLoad

LEMMA LocalPool ==
  ASSUME IInv, NEW t \in Threads,
         PushLink(t) \/ PushRetry(t) \/ PopAdvance(t) \/ PopMergeRetry(t) \/ PopRelink(t)
  PROVE  poolUnchanged
<1>1. shared' = shared /\ private' = private /\ value' = value
  BY DEF PushLink, PushRetry, PopAdvance, PopMergeRetry, PopRelink
<1>2. PoolHand' = PoolHand /\ PoolStage' = PoolStage
  <2>1. CASE PushLink(t)
    BY <1>1, <2>1 DEF PushLink, PoolHand, PoolStage, Holding, IInv, TypeOK
  <2>2. CASE PushRetry(t)
    BY <1>1, <2>2 DEF PushRetry, PoolHand, PoolStage, Holding, IInv, TypeOK
  <2>3. CASE PopAdvance(t)
    BY <1>1, <2>3 DEF PopAdvance, PoolHand, PoolStage, Holding, IInv, TypeOK
  <2>4. CASE PopMergeRetry(t)
    BY <1>1, <2>4 DEF PopMergeRetry, PoolHand, PoolStage, Holding, IInv, TypeOK
  <2>5. CASE PopRelink(t)
    BY <1>1, <2>5 DEF PopRelink, PoolHand, PoolStage, Holding, IInv, TypeOK
  <2> QED
    BY <2>1, <2>2, <2>3, <2>4, <2>5
<1> QED
  BY <1>1, <1>2, SameLists

----------------------------------------------------------------------------
(* push *)

LEMMA PushCasPool ==
  ASSUME IInv, NEW t \in Threads, PushCas(t) PROVE Pool!Push(value[t])
<1> DEFINE v == value[t]
<1>1. v \in Items /\ v # Null
  BY NullAssumption DEF PushCas, IInv, PopGivesItem
<1>2. PoolHand' = PoolHand /\ PoolStage' = PoolStage
  BY DEF PushCas, PoolHand, PoolStage, Holding, IInv, TypeOK
<1>3. \A u \in Threads : PoolHand[u] # v
  <2>1. ASSUME NEW u \in Threads PROVE PoolHand[u] # v
    <3>1. CASE u = t
      BY <1>1, <3>1, HandFacts DEF PushCas
    <3>2. CASE u # t
      BY <1>1, <3>2, HandFacts DEF IInv, Exclusive
    <3> QED
      BY <3>1, <3>2
  <2> QED
    BY <2>1
<1>4. v \notin Range(shared) /\ \A u \in Threads : v \notin Range(private[u])
  BY DEF IInv, Exclusive
<1>5. Range(shared') = {v} \cup Range(shared)
  <2> DEFINE w == <<v>>
  <2>1. w \in Seq(Items) /\ Range(w) = {v} /\ shared \in Seq(Items) /\ shared' = w \o shared
    BY <1>1 DEF Range, IInv, TypeOK, PushCas
  <2> HIDE DEF w
  <2> QED
    BY <2>1, RangeConcatenation
<1>6. PoolWaiting' = PoolWaiting \cup {v}
  BY <1>2, <1>3, <1>5 DEF PushCas, PoolWaiting, Listed
<1>7. v \notin PoolWaiting
  BY <1>4, WaitingMember
<1> QED
  BY <1>1, <1>2, <1>3, <1>6, <1>7 DEF Pool!Push, Pool!InHand

----------------------------------------------------------------------------
(* pop *)

\* The exchange of pop finds a list: the pop takes its oldest item.
LEMMA TakePool ==
  ASSUME IInv, NEW t \in Threads, PopExchange(t), head # Null
  PROVE  \E i \in Items : Pool!Take(t, i)
<1> DEFINE n == Len(shared)
           i == shared[n]
<1>1. shared \in Seq(Items) /\ n \in 1..n /\ i \in Items /\ i \in Range(shared)
  <2>1. shared \in Seq(Items) /\ shared # <<>>
    BY DEF IInv, TypeOK, SharedListInMemory
  <2> QED
    BY <2>1, RangeIndex
<1>2. /\ pc[t] = "idle" /\ pc' = [pc EXCEPT ![t] = "walk"]
      /\ private' = [private EXCEPT ![t] = shared] /\ shared' = <<>> /\ value' = value
      /\ private[t] = <<>>
  BY DEF PopExchange, IInv, PrivateListInMemory, PrivateList, Holding
<1>3. PoolHand' = [PoolHand EXCEPT ![t] = i]
  BY <1>2 DEF PoolHand, IInv, TypeOK
<1>4. PoolStage' = [PoolStage EXCEPT ![t] = "holding"] /\ PoolStage[t] = "out"
  BY <1>2 DEF PoolStage, Holding, IInv, TypeOK
<1>5. PoolHand[t] = Null /\ Null \notin Range(shared) /\ \A u \in Threads : Null \notin Range(private[u])
  BY <1>2, NullNotListed DEF PoolHand, IInv
<1>6. Listed' = Listed
  <2>1. Range(<<>>) = {}
    BY DEF Range
  <2>2. /\ private'[t] = shared
        /\ \A u \in Threads \ {t} : private'[u] = private[u]
    BY <1>2 DEF IInv, TypeOK
  <2> QED
    BY <1>2, <2>1, <2>2 DEF Listed
<1>7. PoolWaiting' = PoolWaiting \ {i}
  <2>1. /\ PoolHand'[t] = i
        /\ \A u \in Threads \ {t} : PoolHand'[u] = PoolHand[u]
    BY <1>3 DEF PoolHand
  <2>2. Null \notin Listed
    BY <1>5 DEF Listed
  <2> QED
    BY <1>5, <1>6, <2>1, <2>2 DEF PoolWaiting
<1>8. i \in PoolWaiting
  BY <1>1, HandFacts, WaitingMember
<1> QED
  BY <1>1, <1>3, <1>4, <1>7, <1>8 DEF Pool!Take

\* The exchange of pop finds nullptr: nothing waits, or another pop is holding.
LEMMA MissPool ==
  ASSUME IInv, NEW t \in Threads, PopExchange(t), head = Null
  PROVE  Pool!Miss(t)
<1>1. shared = <<>>
  <2>1. shared # <<>> => shared[1] \in Items
    BY RangeIndex DEF IInv, TypeOK
  <2> QED
    BY <2>1, NullAssumption DEF IInv, SharedListInMemory
<1>2. /\ pc[t] = "idle" /\ pc' = [pc EXCEPT ![t] = "empty"]
      /\ shared' = shared /\ value' = value /\ private[t] = <<>>
      /\ private' = [private EXCEPT ![t] = <<>>]
  BY <1>1 DEF PopExchange, IInv, PrivateListInMemory, PrivateList, Holding
<1>3. private' = private
  BY <1>2 DEF IInv, TypeOK
<1>4. PoolHand' = PoolHand
  BY <1>2, <1>3 DEF PoolHand, IInv, TypeOK
<1>5. PoolStage' = [PoolStage EXCEPT ![t] = "missed"] /\ PoolStage[t] = "out"
  BY <1>2 DEF PoolStage, Holding, IInv, TypeOK
<1>6. PoolWaiting' = PoolWaiting
  BY <1>2, <1>3, <1>4 DEF PoolWaiting, Listed
<1>7. (\A u \in Threads : pc[u] \notin Holding) => PoolWaiting = {}
  <2>1. ASSUME \A u \in Threads : pc[u] \notin Holding PROVE \A u \in Threads : private[u] = <<>>
    BY <2>1 DEF IInv, PrivateListInMemory, PrivateList
  <2>2. Range(<<>>) = {}
    BY DEF Range
  <2> QED
    BY <1>1, <2>1, <2>2 DEF PoolWaiting, Listed
<1>8. \A u \in Threads : pc[u] \in Holding <=> PoolStage[u] = "holding"
  BY DEF PoolStage
<1> QED
  BY <1>4, <1>5, <1>6, <1>7, <1>8 DEF Pool!Miss

LEMMA EmptyPool ==
  ASSUME IInv, NEW t \in Threads, PopEmpty(t) PROVE Pool!ReturnMissed(t)
<1>1. PoolHand' = PoolHand
  BY DEF PopEmpty, PoolHand, IInv, TypeOK
<1>2. PoolStage' = [PoolStage EXCEPT ![t] = "out"] /\ PoolStage[t] = "missed"
  BY DEF PopEmpty, PoolStage, Holding, IInv, TypeOK
<1>3. PoolWaiting' = PoolWaiting
  BY <1>1 DEF PopEmpty, PoolWaiting, Listed
<1> QED
  BY <1>1, <1>2, <1>3 DEF Pool!ReturnMissed

\* The item a pop detaches is the one the pool gave it at the exchange.
LEMMA DetachPool ==
  ASSUME IInv, NEW t \in Threads, PopDetach(t) PROVE poolUnchanged
<1> DEFINE p == private[t]
           n == Len(p)
<1>1. /\ p \in Seq(Items) /\ n \in Nat /\ n >= 2 /\ value[t] = Null /\ next[tail[t]] = p[n]
      /\ private'[t] = SubSeq(p, 1, n - 1)
      /\ \A u \in Threads \ {t} : private'[u] = private[u] /\ value'[u] = value[u] /\ pc'[u] = pc[u]
      /\ pc[t] = "walk" /\ pc'[t] = "merge" /\ value'[t] = p[n]
  <2>1. p \in Seq(Items) /\ n \in Nat \ {0} /\ value[t] = Null
    BY WalkTail DEF PopDetach, IInv, PopGivesItem
  <2>2. PICK k \in 1..n :
              /\ tail[t] = p[k] /\ tail[t] \in Items
              /\ IF k < n THEN next[tail[t]] = p[k + 1] /\ next[tail[t]] \in Items
                          ELSE k = 1 /\ next[tail[t]] = Null
    BY WalkTail DEF PopDetach
  <2>3. k < n /\ k + 1 \in 1..n /\ next[p[k + 1]] = Null
    BY <2>1, <2>2 DEF PopDetach
  <2>4. k + 1 < n => next[p[k + 1]] = p[k + 2] /\ p[k + 2] \in Items
    BY <2>1, <2>3, RangeIndex DEF PopDetach, IInv, PrivateListInMemory, PrivateList, Linked
  <2>5. k = n - 1 /\ n >= 2
    BY <2>1, <2>3, <2>4, NullAssumption
  <2>6. next[tail[t]] = p[n]
    BY <2>1, <2>2, <2>3, <2>5
  <2> QED
    BY <2>1, <2>5, <2>6 DEF PopDetach, IInv, TypeOK
<1>2. PoolHand' = PoolHand /\ PoolHand[t] = p[n]
  BY <1>1 DEF PoolHand
<1>3. PoolStage' = PoolStage
  BY <1>1 DEF PoolStage, Holding
<1>4. /\ private'[t] \in Seq(Items)
      /\ Len(private'[t]) = n - 1
      /\ \A k \in 1..n - 1 : private'[t][k] = p[k]
  <2>1. \A k \in 1..n - 1 : p[k] \in Items
    BY <1>1, RangeIndex
  <2> QED
    BY <1>1, <2>1, SubSeqProperties
<1>5. \A i : i # p[n] => (i \in Range(p) <=> i \in Range(private'[t]))
  <2>1. ASSUME NEW i \in Range(p), i # p[n] PROVE i \in Range(private'[t])
    <3>1. PICK k \in 1..n : i = p[k]
      BY <1>1, RangeIndex
    <3>2. k \in 1..n - 1
      BY <1>1, <2>1, <3>1
    <3> QED
      BY <1>4, <3>1, <3>2, RangeIndex
  <2>2. ASSUME NEW i \in Range(private'[t]) PROVE i \in Range(p)
    <3>1. PICK k \in 1..Len(private'[t]) : i = private'[t][k]
      BY <1>4, RangeIndex
    <3>2. k \in 1..n /\ i = p[k]
      BY <1>1, <1>4, <3>1
    <3> QED
      BY <1>1, <3>2, RangeIndex
  <2> QED
    BY <2>1, <2>2
<1>6. \A i : i # p[n] => (i \in Listed <=> i \in Listed')
  BY <1>1, <1>5 DEF PopDetach, Listed
<1>7. PoolWaiting' = PoolWaiting
  BY <1>2, <1>6 DEF PoolWaiting
<1> QED
  BY <1>2, <1>3, <1>7 DEF poolUnchanged

LEMMA SinglePool ==
  ASSUME IInv, NEW t \in Threads, PopSingle(t) PROVE Pool!Release(t)
<1> DEFINE p == private[t]
<1>1. p \in Seq(Items) /\ Len(p) = 1 /\ tail[t] = p[1] /\ tail[t] = localHead[t] /\ value[t] = Null
  <2>1. PICK k \in 1..Len(p) :
              /\ tail[t] = p[k] /\ tail[t] \in Items
              /\ IF k < Len(p)
                 THEN next[tail[t]] = p[k + 1] /\ next[tail[t]] \in Items
                 ELSE k = 1 /\ next[tail[t]] = Null
    BY WalkTail DEF PopSingle
  <2>2. p \in Seq(Items) /\ Len(p) \in Nat /\ ~(k < Len(p))
    BY <2>1, WalkTail, NullAssumption DEF PopSingle
  <2>3. k = 1 /\ Len(p) = 1
    <3> DEFINE n == Len(p)
    <3>1. k = 1 /\ n \in Nat /\ ~(k < n) /\ k \in 1..n
      BY <2>1, <2>2
    <3> HIDE DEF n
    <3>2. n = 1
      BY <3>1
    <3> QED
      BY <3>1, <3>2 DEF n
  <2> QED
    BY <2>1, <2>2, <2>3 DEF PopSingle, IInv, PrivateListInMemory, PrivateList, Holding, PopGivesItem
<1>2. /\ value' = [value EXCEPT ![t] = p[1]] /\ private' = [private EXCEPT ![t] = <<>>]
      /\ pc' = [pc EXCEPT ![t] = "done"] /\ shared' = shared /\ pc[t] = "walk"
  BY <1>1 DEF PopSingle
<1>3. PoolHand' = PoolHand /\ PoolHand[t] = p[1]
  BY <1>1, <1>2 DEF PoolHand, IInv, TypeOK
<1>4. PoolStage' = [PoolStage EXCEPT ![t] = "done"] /\ PoolStage[t] = "holding"
  BY <1>2 DEF PoolStage, Holding, IInv, TypeOK
<1>5. \A i \in Range(p) : i = p[1]
  <2>1. ASSUME NEW k \in 1..1 PROVE p[k] = p[1]
    OBVIOUS
  <2> QED
    BY <1>1, <2>1, RangeIndex
<1>6. \A i : i # p[1] => (i \in Listed <=> i \in Listed')
  <2>1. private'[t] = <<>> /\ Range(<<>>) = {} /\ \A u \in Threads \ {t} : private'[u] = private[u]
    BY <1>2 DEF Range, IInv, TypeOK
  <2> QED
    BY <1>2, <1>5, <2>1 DEF Listed
<1>7. PoolWaiting' = PoolWaiting
  BY <1>3, <1>6 DEF PoolWaiting
<1> QED
  BY <1>3, <1>4, <1>7 DEF Pool!Release

LEMMA MergePool ==
  ASSUME IInv, NEW t \in Threads, PopMerge(t) PROVE Pool!Release(t)
<1>1. PoolHand' = PoolHand
  BY DEF PopMerge, PoolHand, IInv, TypeOK
<1>2. PoolStage' = [PoolStage EXCEPT ![t] = "done"] /\ PoolStage[t] = "holding"
  BY DEF PopMerge, PoolStage, Holding, IInv, TypeOK
<1>3. Range(shared') = Range(private[t]) \cup Range(shared)
  BY RangeConcatenation DEF PopMerge, IInv, TypeOK
<1>4. private'[t] = <<>> /\ Range(<<>>) = {} /\ \A u \in Threads \ {t} : private'[u] = private[u]
  BY DEF PopMerge, Range, IInv, TypeOK
<1>5. Listed' = Listed
  BY <1>3, <1>4 DEF Listed
<1>6. PoolWaiting' = PoolWaiting
  BY <1>1, <1>5 DEF PoolWaiting
<1> QED
  BY <1>1, <1>2, <1>6 DEF Pool!Release

LEMMA ReturnPool ==
  ASSUME IInv, NEW t \in Threads, PopReturn(t) PROVE Pool!ReturnItem(t)
<1>1. PoolHand' = [PoolHand EXCEPT ![t] = Null] /\ PoolHand[t] = value[t]
  BY DEF PopReturn, PoolHand, IInv, TypeOK
<1>2. PoolStage' = [PoolStage EXCEPT ![t] = "out"] /\ PoolStage[t] = "done"
  BY DEF PopReturn, PoolStage, Holding, IInv, TypeOK
<1>3. Listed' = Listed /\ value[t] \notin Listed /\ Null \notin Listed
  BY NullNotListed DEF PopReturn, Listed, IInv, Exclusive
<1>4. PoolHand'[t] = Null /\ \A u \in Threads \ {t} : PoolHand'[u] = PoolHand[u]
  BY <1>1 DEF PoolHand
<1>5. PoolWaiting' = PoolWaiting
  BY <1>1, <1>3, <1>4 DEF PoolWaiting
<1> QED
  BY <1>1, <1>2, <1>5 DEF Pool!ReturnItem

----------------------------------------------------------------------------
LEMMA NextPool == IInv /\ [Next]_vars => [Pool!PoolNext]_<<PoolWaiting, PoolStage, PoolHand>>
<1> SUFFICES ASSUME IInv, [Next]_vars
             PROVE  Pool!PoolNext \/ poolUnchanged
  BY DEF poolUnchanged
<1>1. CASE UNCHANGED vars
  BY <1>1 DEF vars, poolUnchanged, PoolWaiting, PoolStage, PoolHand, Listed
<1>2. ASSUME NEW t \in Threads, PushStep(t) PROVE Pool!PoolNext \/ poolUnchanged
  <2>1. ASSUME NEW i \in Items, PushLoad(t, i) PROVE poolUnchanged
    BY <2>1, PushLoadPool
  <2>2. CASE PushLink(t) \/ PushRetry(t)
    BY <2>2, LocalPool
  <2>3. CASE PushCas(t)
    <3>1. Pool!Push(value[t]) /\ value[t] \in Items
      BY <2>3, PushCasPool DEF PushCas, IInv, PopGivesItem
    <3> QED
      BY <3>1 DEF Pool!PoolNext
  <2> QED
    BY <1>2, <2>1, <2>2, <2>3 DEF PushStep
<1>3. ASSUME NEW t \in Threads, PopStep(t) PROVE Pool!PoolNext \/ poolUnchanged
  <2>1. CASE PopExchange(t)
    <3>1. (\E i \in Items : Pool!Take(t, i)) \/ Pool!Miss(t)
      BY <2>1, TakePool, MissPool
    <3> QED
      BY <3>1 DEF Pool!PoolNext
  <2>2. CASE PopEmpty(t)
    BY <2>2, EmptyPool DEF Pool!PoolNext
  <2>3. CASE PopAdvance(t) \/ PopMergeRetry(t) \/ PopRelink(t)
    BY <2>3, LocalPool
  <2>4. CASE PopDetach(t)
    BY <2>4, DetachPool
  <2>5. CASE PopSingle(t)
    BY <2>5, SinglePool DEF Pool!PoolNext
  <2>6. CASE PopMerge(t)
    BY <2>6, MergePool DEF Pool!PoolNext
  <2>7. CASE PopReturn(t)
    BY <2>7, ReturnPool DEF Pool!PoolNext
  <2> QED
    BY <1>3, <2>1, <2>2, <2>3, <2>4, <2>5, <2>6, <2>7 DEF PopStep
<1> QED
  BY <1>1, <1>2, <1>3 DEF Next

\* For any number of threads and items, the lock-free list of
\* intrusive_queue.h:72-129 behaves as TaskPool says: no item is lost or given
\* out twice, and pop returns false only when nothing waits or while another
\* pop has the list.
THEOREM QueueImplementsPool == Spec => ImplementsPool
<1>1. Init => Pool!PoolInit
  BY InitPool
<1>2. IInv /\ [Next]_vars => [Pool!PoolNext]_(Pool!poolVars)
  BY NextPool DEF Pool!poolVars
<1>3. Spec => []IInv
  BY QueueCorrect
<1> QED
  BY <1>1, <1>2, <1>3, PTL DEF Spec, ImplementsPool, Pool!PoolSpec

----------------------------------------------------------------------------
(* First in, first out: sequences in reverse *)

LEMMA ReverseProperties ==
  ASSUME NEW S, NEW s \in Seq(S)
  PROVE  /\ Reverse(s) \in Seq(S) /\ Len(Reverse(s)) = Len(s)
         /\ \A i \in 1..Len(s) : Reverse(s)[i] = s[Len(s) - i + 1]
         /\ Reverse(s) = <<>> <=> s = <<>>
<1>1. Len(s) \in Nat /\ \A i \in 1..Len(s) : Len(s) - i + 1 \in 1..Len(s)
  OBVIOUS
<1>2. \A i \in 1..Len(s) : s[Len(s) - i + 1] \in S
  BY <1>1
<1>3. Reverse(s) \in Seq(S) /\ Len(Reverse(s)) = Len(s)
  BY <1>1, <1>2 DEF Reverse
<1> QED
  BY <1>1, <1>3 DEF Reverse

\* What is appended is first in reverse.
LEMMA ReverseAppend ==
  ASSUME NEW S, NEW s \in Seq(S), NEW e \in S
  PROVE  Reverse(Append(s, e)) = <<e>> \o Reverse(s)
<1> DEFINE a == Append(s, e)  r == Reverse(s)  n == Len(s)
<1>1. /\ a \in Seq(S) /\ Len(a) = n + 1 /\ a[n + 1] = e /\ n \in Nat
      /\ \A i \in 1..n : a[i] = s[i]
  OBVIOUS
<1>2. r \in Seq(S) /\ Len(r) = n /\ \A i \in 1..n : r[i] = s[n - i + 1]
  BY ReverseProperties
<1>3. Reverse(a) \in Seq(S) /\ Len(Reverse(a)) = n + 1 /\ \A i \in 1..n + 1 : Reverse(a)[i] = a[(n + 1) - i + 1]
  <2> HIDE DEF a
  <2>1. /\ Reverse(a) \in Seq(S) /\ Len(Reverse(a)) = Len(a)
        /\ \A i \in 1..Len(a) : Reverse(a)[i] = a[Len(a) - i + 1]
    BY <1>1, ReverseProperties
  <2> QED
    BY <1>1, <2>1
<1> HIDE DEF a, r, n
<1>4. /\ <<e>> \in Seq(S) /\ Len(<<e>>) = 1 /\ <<e>>[1] = e
  OBVIOUS
<1>5. /\ <<e>> \o r \in Seq(S) /\ Len(<<e>> \o r) = n + 1
      /\ \A i \in 1..n + 1 : (<<e>> \o r)[i] = IF i <= 1 THEN e ELSE r[i - 1]
  BY <1>1, <1>2, <1>4, ConcatProperties
<1>6. ASSUME NEW i \in 1..n + 1 PROVE Reverse(a)[i] = (<<e>> \o r)[i]
  <2>1. CASE i = 1
    BY <1>1, <1>3, <1>5, <2>1
  <2>2. CASE i # 1
    <3>1. /\ i - 1 \in 1..n /\ n - (i - 1) + 1 = (n + 1) - i + 1 /\ (n + 1) - i + 1 \in 1..n
          /\ ~(i <= 1)
      BY <1>1, <2>2
    <3>2. Reverse(a)[i] = s[(n + 1) - i + 1]
      BY <1>1, <1>3, <3>1
    <3>3. r[i - 1] = s[n - (i - 1) + 1]
      BY <1>2, <3>1
    <3>4. (<<e>> \o r)[i] = r[i - 1]
      BY <1>5, <3>1
    <3> QED
      BY <3>1, <3>2, <3>3, <3>4
  <2> QED
    BY <2>1, <2>2
<1>7. Reverse(a) = <<e>> \o r
  <2>1. ASSUME NEW p \in Seq(S), NEW q \in Seq(S), Len(p) = Len(q), \A i \in 1..Len(p) : p[i] = q[i]
        PROVE  p = q
    BY <2>1
  <2> QED
    BY <1>3, <1>5, <1>6, <2>1
<1> QED
  BY <1>7 DEF a, r

\* The first element is last in reverse.
LEMMA ReverseFirst ==
  ASSUME NEW S, NEW s \in Seq(S), s # <<>>
  PROVE  /\ Reverse(s)[Len(Reverse(s))] = s[1]
         /\ RemoveFirst(s, s[1]) = Tail(s)
         /\ Front(Reverse(s)) = Reverse(Tail(s))
         /\ Tail(s) \in Seq(S)
<1> DEFINE n == Len(s)  r == Reverse(s)  t == Tail(s)
<1>1. n \in Nat \ {0} /\ 1 \in 1..n
  OBVIOUS
<1>2. r \in Seq(S) /\ Len(r) = n /\ \A i \in 1..n : r[i] = s[n - i + 1]
  BY ReverseProperties
<1>3. t \in Seq(S) /\ Len(t) = n - 1 /\ \A i \in 1..n - 1 : t[i] = s[i + 1]
  OBVIOUS
<1>4. Reverse(t) \in Seq(S) /\ Len(Reverse(t)) = n - 1 /\ \A i \in 1..n - 1 : Reverse(t)[i] = t[(n - 1) - i + 1]
  <2> HIDE DEF t, n
  <2> QED
    BY <1>3, ReverseProperties
<1>5. RemoveFirst(s, s[1]) = t
  <2> DEFINE I == {i \in 1..Len(s) : s[i] = s[1]}
  <2>1. SelectInSeq(s, LAMBDA v : v = s[1]) = 1
    <3>1. 1 \in I /\ \A i \in I : 1 <= i /\ i \in Nat
      BY <1>1
    <3>2. Min(I) = 1
      BY <3>1 DEF Min
    <3> QED
      BY <3>1, <3>2 DEF SelectInSeq
  <2>2. SubSeq(s, 1, 1 - 1) = <<>> /\ SubSeq(s, 1 + 1, Len(s)) = t
    BY <1>1
  <2>3. RemoveAt(s, 1) = t
    BY <1>3, <2>2 DEF RemoveAt
  <2> QED
    BY <1>1, <2>1, <2>3 DEF RemoveFirst
<1> HIDE DEF n, r, t
<1>6. r[n] = s[1]
  <2>1. n \in 1..n /\ n - n + 1 = 1
    BY <1>1
  <2> QED
    BY <1>2, <2>1
<1>7. Front(r) = Reverse(t)
  <2>1. SubSeq(r, 1, n - 1) \in Seq(S) /\ Len(SubSeq(r, 1, n - 1)) = n - 1
        /\ \A i \in 1..n - 1 : SubSeq(r, 1, n - 1)[i] = r[i]
    BY <1>1, <1>2
  <2>2. ASSUME NEW i \in 1..n - 1 PROVE r[i] = Reverse(t)[i]
    <3>1. /\ i \in 1..n /\ (n - 1) - i + 1 \in 1..n - 1
          /\ ((n - 1) - i + 1) + 1 = n - i + 1
      BY <1>1
    <3> QED
      BY <1>2, <1>3, <1>4, <3>1
  <2>3. ASSUME NEW p \in Seq(S), NEW q \in Seq(S), Len(p) = Len(q), \A i \in 1..Len(p) : p[i] = q[i]
        PROVE  p = q
    BY <2>3
  <2>4. SubSeq(r, 1, n - 1) = Reverse(t)
    BY <1>4, <2>1, <2>2, <2>3
  <2> QED
    BY <1>2, <2>4 DEF Front
<1> QED
  BY <1>2, <1>3, <1>5, <1>6, <1>7 DEF n, r, t

----------------------------------------------------------------------------
(* The order *)

LEMMA InitFifo == FifoInit => FifoInv
<1> SUFFICES ASSUME FifoInit PROVE FifoInv
  OBVIOUS
<1>1. IInv /\ order = <<>> /\ order \in Seq(Items) /\ shared = <<>>
  BY InitIInv DEF FifoInit, Init
<1>2. Reverse(order) = <<>>
  BY <1>1, ReverseProperties
<1>3. \A t \in Threads : pc[t] \notin Holding
  BY DEF FifoInit, Init, Holding
<1> QED
  BY <1>1, <1>2, <1>3 DEF FifoInv, OneListInOrder, FirstInFirstOut

\* A push that nobody disturbs goes on top of the list.
LEMMA PushCasFifo ==
  ASSUME FifoInv, IInv', NEW t \in Threads, PushCas(t), order' = Append(order, value[t]),
         disturbed' = (disturbed \/ \E u \in Threads : pc[u] \in Holding)
  PROVE  FifoInv'
<1>1. value[t] \in Items
  BY DEF FifoInv, IInv, PopGivesItem, PushCas
<1>2. ASSUME ~disturbed' PROVE OneListInOrder'
  <2>1. OneListInOrder /\ Quiet /\ order \in Seq(Items) /\ order' \in Seq(Items)
    <3>1. ~disturbed /\ Quiet
      BY <1>2, Zenon DEF Quiet
    <3>2. OneListInOrder /\ order \in Seq(Items)
      BY <3>1 DEF FifoInv, OneListInOrder
    <3> QED
      BY <1>1, <3>1, <3>2
  <2>2. shared' = Reverse(order')
    BY <1>1, <2>1, ReverseAppend DEF OneListInOrder, FirstInFirstOut, PushCas
  <2>3. pc' = [pc EXCEPT ![t] = "idle"] /\ pc \in [Threads -> Labels]
    BY DEF PushCas, FifoInv, IInv, TypeOK
  <2>4. \A u \in Threads : pc'[u] \notin Holding
    BY <2>1, <2>3 DEF Quiet, Holding
  <2> QED
    BY <2>1, <2>2, <2>4 DEF OneListInOrder, FirstInFirstOut
<1> QED
  BY <1>2 DEF FifoInv

\* The pop that takes the list will give the oldest item.
LEMMA PopExchangeFifo ==
  ASSUME FifoInv, IInv', NEW t \in Threads, PopExchange(t), disturbed' = disturbed,
         order' = IF shared = <<>> THEN order ELSE RemoveFirst(order, TakenBy(t))
  PROVE  FifoInv'
<1>1. /\ pc \in [Threads -> Labels] /\ private \in [Threads -> Seq(Items)]
      /\ (head = Null <=> shared = <<>>) /\ shared \in Seq(Items)
      /\ pc[t] = "idle" /\ shared' = <<>> /\ private' = [private EXCEPT ![t] = shared]
      /\ pc' = [pc EXCEPT ![t] = IF head = Null THEN "empty" ELSE "walk"]
  <2>1. TypeOK /\ SharedListInMemory
    BY DEF FifoInv, IInv
  <2>2. head = Null <=> shared = <<>>
    BY <2>1, RangeIndex, NullAssumption DEF TypeOK, SharedListInMemory
  <2> QED
    BY <2>1, <2>2 DEF FifoInv, TypeOK, PopExchange
<1>2. ASSUME ~disturbed' PROVE OneListInOrder'
  <2>1. OneListInOrder /\ order \in Seq(Items)
    BY <1>2 DEF FifoInv, OneListInOrder
  <2>2. CASE shared = <<>>
    <3>1. /\ order' = order /\ shared' = shared /\ pc' = [pc EXCEPT ![t] = "empty"]
          /\ pc[t] \notin Holding /\ pc'[t] \notin Holding
      BY <1>1, <2>2 DEF Holding
    <3>2. \A u \in Threads : (pc'[u] \in Holding <=> pc[u] \in Holding)
                             /\ (u # t => pc'[u] = pc[u] /\ private'[u] = private[u])
      BY <1>1, <3>1
    <3> QED
      BY <2>1, <3>1, <3>2 DEF OneListInOrder, FirstInFirstOut, Quiet
  <2>3. CASE shared # <<>>
    <3>1. Quiet /\ shared = Reverse(order)
      BY <2>1, <2>3 DEF OneListInOrder, FirstInFirstOut, Quiet
    <3>2. order # <<>>
      BY <2>1, <2>3, <3>1, ReverseProperties
    <3>3. order' = Tail(order) /\ Front(shared) = Reverse(Tail(order)) /\ Tail(order) \in Seq(Items)
      BY <1>1, <2>1, <2>3, <3>1, <3>2, ReverseFirst DEF TakenBy
    <3>4. /\ pc'[t] = "walk" /\ private'[t] = shared /\ shared' = <<>>
          /\ \A u \in Threads : u # t => pc'[u] \notin Holding
      BY <1>1, <2>3, <3>1 DEF Quiet
    <3>5. ~Quiet'
      BY <3>4 DEF Quiet, Holding
    <3> QED
      BY <3>3, <3>4, <3>5 DEF OneListInOrder, FirstInFirstOut
  <2> QED
    BY <2>2, <2>3
<1> QED
  BY <1>2 DEF FifoInv

\* A step that moves no item between the lists.
LEMMA FifoSame ==
  ASSUME FifoInv, IInv', UNCHANGED <<order, disturbed, shared, private>>,
         \A u \in Threads : /\ pc'[u] \in Holding <=> pc[u] \in Holding
                            /\ pc'[u] = "walk" <=> pc[u] = "walk"
  PROVE  FifoInv'
<1>1. OneListInOrder => OneListInOrder'
  BY DEF OneListInOrder, FirstInFirstOut, Quiet
<1> QED
  BY <1>1 DEF FifoInv

\* The rest of the list is in order after the last item is cut off.
LEMMA PopDetachFifo ==
  ASSUME FifoInv, IInv', NEW t \in Threads, PopDetach(t), UNCHANGED <<order, disturbed>>
  PROVE  FifoInv'
<1>1. /\ pc[t] = "walk" /\ shared' = shared /\ pc' = [pc EXCEPT ![t] = "merge"]
      /\ private' = [private EXCEPT ![t] = Front(private[t])]
      /\ pc \in [Threads -> Labels] /\ private \in [Threads -> Seq(Items)]
  BY DEF PopDetach, FifoInv, IInv, TypeOK, Front
<1>2. /\ pc'[t] = "merge" /\ private'[t] = Front(private[t]) /\ pc[t] \in Holding /\ pc'[t] \in Holding
      /\ \A u \in Threads : u # t => pc'[u] = pc[u] /\ private'[u] = private[u]
  BY <1>1 DEF Holding
<1>3. OneListInOrder => OneListInOrder'
  BY <1>1, <1>2 DEF OneListInOrder, FirstInFirstOut, Quiet
<1> QED
  BY <1>3 DEF FifoInv

\* A list of one item: nothing waits any more.
LEMMA PopSingleFifo ==
  ASSUME FifoInv, IInv', NEW t \in Threads, PopSingle(t), UNCHANGED <<order, disturbed>>
  PROVE  FifoInv'
<1>1. pc[t] = "walk" /\ next[tail[t]] = Null /\ IInv
  BY DEF PopSingle, FifoInv
<1>2. /\ private[t] \in Seq(Items) /\ Len(private[t]) = 1
      /\ tail[t] = localHead[t] /\ value[t] = Null
  <2>1. PICK k \in 1..Len(private[t]) :
              /\ tail[t] = private[t][k] /\ tail[t] \in Items
              /\ IF k < Len(private[t])
                 THEN next[tail[t]] = private[t][k + 1] /\ next[tail[t]] \in Items
                 ELSE k = 1 /\ next[tail[t]] = Null
    BY <1>1, WalkTail
  <2>2. private[t] \in Seq(Items) /\ Len(private[t]) \in Nat \ {0}
    BY <1>1, WalkTail
  <2>3. ~(k < Len(private[t])) /\ k = 1
    BY <1>1, <2>1, NullAssumption
  <2>4. localHead[t] = private[t][1] /\ value[t] = Null
    BY <1>1 DEF IInv, PrivateListInMemory, PrivateList, Holding, PopGivesItem
  <2>5. \A n \in Nat \ {0} : ~(1 < n) => n = 1
    OBVIOUS
  <2>6. Len(private[t]) = 1
    BY <2>2, <2>3, <2>5
  <2> QED
    BY <2>1, <2>2, <2>3, <2>4, <2>6
<1>3. /\ shared' = shared /\ pc' = [pc EXCEPT ![t] = "done"] /\ pc \in [Threads -> Labels]
      /\ private' = [private EXCEPT ![t] = <<>>] /\ private \in [Threads -> Seq(Items)]
  BY <1>2 DEF PopSingle, FifoInv, IInv, TypeOK
<1>4. ASSUME OneListInOrder PROVE OneListInOrder'
  <2>1. /\ shared = <<>> /\ Reverse(order) = Front(private[t]) /\ order \in Seq(Items)
        /\ \A u \in Threads : pc[u] \in Holding => u = t
    BY <1>1, <1>4 DEF OneListInOrder, Holding
  <2>2. Front(private[t]) = <<>>
    BY <1>2 DEF Front
  <2>3. \A u \in Threads : pc'[u] \notin Holding
    BY <1>3, <2>1 DEF Holding
  <2> QED
    BY <1>3, <2>1, <2>2, <2>3 DEF OneListInOrder, FirstInFirstOut
<1> QED
  BY <1>4 DEF FifoInv

\* The rest of the list is put back; nobody has pushed meanwhile.
LEMMA PopMergeFifo ==
  ASSUME FifoInv, IInv', NEW t \in Threads, PopMerge(t), UNCHANGED <<order, disturbed>>
  PROVE  FifoInv'
<1>1. /\ pc[t] = "merge" /\ shared' = private[t] \o shared /\ pc' = [pc EXCEPT ![t] = "done"]
      /\ private' = [private EXCEPT ![t] = <<>>]
      /\ pc \in [Threads -> Labels] /\ private \in [Threads -> Seq(Items)]
  BY DEF PopMerge, FifoInv, IInv, TypeOK
<1>2. ASSUME OneListInOrder PROVE OneListInOrder'
  <2>1. /\ shared = <<>> /\ Reverse(order) = private[t] /\ order \in Seq(Items)
        /\ \A u \in Threads : pc[u] \in Holding => u = t
    BY <1>1, <1>2 DEF OneListInOrder, Holding
  <2>2. shared' = private[t]
    BY <1>1, <2>1
  <2>3. \A u \in Threads : pc'[u] \notin Holding
    BY <1>1, <2>1 DEF Holding
  <2> QED
    BY <2>1, <2>2, <2>3 DEF OneListInOrder, FirstInFirstOut
<1> QED
  BY <1>2 DEF FifoInv

\* The other steps of push and pop.
LEMMA FifoRest ==
  ASSUME FifoInv, IInv', NEW t \in Threads, UNCHANGED <<order, disturbed>>,
         \/ \E i \in Items : PushLoad(t, i)
         \/ PushLink(t) \/ PushRetry(t) \/ PopEmpty(t) \/ PopAdvance(t)
         \/ PopMergeRetry(t) \/ PopRelink(t) \/ PopReturn(t)
  PROVE  FifoInv'
<1>1. pc \in [Threads -> Labels]
  BY DEF FifoInv, IInv, TypeOK
<1>2. /\ UNCHANGED <<shared, private>>
      /\ \A u \in Threads : /\ pc'[u] \in Holding <=> pc[u] \in Holding
                            /\ pc'[u] = "walk" <=> pc[u] = "walk"
  BY <1>1 DEF PushLoad, PushLink, PushRetry, PopEmpty, PopAdvance, PopMergeRetry, PopRelink,
              PopReturn, Holding
<1> QED
  BY <1>2, FifoSame

\* Items are given back in the order of their pushes until a push takes effect while
\* a pop has the list, for any number of threads that race in push and pop.
THEOREM QueueInOrder == FifoSpec => []FifoUnlessDisturbed
<1>1. FifoInv /\ [FifoNext]_fifoVars => FifoInv'
  <2> SUFFICES ASSUME FifoInv, [FifoNext]_fifoVars PROVE FifoInv'
    OBVIOUS
  <2>1. IInv /\ [Next]_vars
    BY DEF FifoInv, FifoNext, fifoVars, Next, PushStep, PopStep
  <2>2. IInv'
    BY <2>1, NextIInv
  <2>3. CASE UNCHANGED fifoVars
    BY <2>2, <2>3, FifoSame DEF fifoVars, vars
  <2>4. ASSUME NEW t \in Threads, PushCas(t), order' = Append(order, value[t]),
               disturbed' = (disturbed \/ \E u \in Threads : pc[u] \in Holding)
        PROVE  FifoInv'
    BY <2>2, <2>4, PushCasFifo
  <2>5. ASSUME NEW t \in Threads, PopExchange(t), disturbed' = disturbed,
               order' = IF shared = <<>> THEN order ELSE RemoveFirst(order, TakenBy(t))
        PROVE  FifoInv'
    BY <2>2, <2>5, PopExchangeFifo
  <2>6. ASSUME NEW t \in Threads, PushStep(t) \/ PopStep(t), ~PushCas(t), ~PopExchange(t),
               UNCHANGED <<order, disturbed>>
        PROVE  FifoInv'
    BY <2>2, <2>6, PopDetachFifo, PopSingleFifo, PopMergeFifo, FifoRest DEF PushStep, PopStep
  <2> QED
    BY <2>3, <2>4, <2>5, <2>6 DEF FifoNext
<1>2. FifoInv => FifoUnlessDisturbed
  BY DEF FifoInv, OneListInOrder, FifoUnlessDisturbed
<1> QED
  BY <1>1, <1>2, InitFifo, PTL DEF FifoSpec


----------------------------------------------------------------------------
(* The producers and consumers of the test *)

Pushing == {"link", "cas"}

\* An item is in use if it waits in the pool, is in the hand of a pop, or is
\* being pushed.
LEMMA OutsideInPool ==
  ASSUME IInv, NEW i \in Items
  PROVE  Outside(i) <=>
           /\ i \notin PoolWaiting
           /\ \A u \in Threads : PoolHand[u] # i /\ (pc[u] \in Pushing => value[u] # i)
<1>1. \A u \in Threads : pc[u] = "walk" => PoolHand[u] \in Range(private[u]) /\ value[u] = Null
  BY HandFacts DEF IInv, PopGivesItem
<1>2. \A u \in Threads : pc[u] \in {"merge", "relink", "done"} => PoolHand[u] = value[u]
  BY HandFacts
<1>3. \A u \in Threads : pc[u] \notin {"walk", "merge", "relink", "done"} => PoolHand[u] = Null
  BY HandFacts
<1>4. \A u \in Threads : pc[u] \in {"idle", "empty"} => value[u] = Null
  BY DEF IInv, PopGivesItem
<1>5. i # Null /\ \A u \in Threads : pc[u] \in Labels
  BY NullAssumption DEF IInv, TypeOK
<1>6. ASSUME NEW u \in Threads, PoolHand[u] = i
      PROVE  ~Outside(i)
  BY <1>1, <1>2, <1>3, <1>5, <1>6 DEF Outside
<1>7. ASSUME NEW u \in Threads, value[u] = i, PoolHand[u] # i
      PROVE  pc[u] \in Pushing
  BY <1>1, <1>2, <1>4, <1>5, <1>7 DEF Labels, Pushing
<1>8. (\A u \in Threads : PoolHand[u] # i) =>
         (i \in PoolWaiting <=> i \in Range(shared) \/ \E u \in Threads : i \in Range(private[u]))
  BY WaitingMember
<1> QED
  BY <1>6, <1>7, <1>8, WaitingMember DEF Outside

InPool(i) ==
    \/ i \in PoolWaiting
    \/ \E u \in Threads : PoolHand[u] = i \/ (pc[u] \in Pushing /\ value[u] = i)

LEMMA OutsidePool == IInv => \A i \in Items : Outside(i) <=> ~InPool(i)
  BY OutsideInPool DEF InPool

LEMMA OutsidePoolNext == IInv' => (\A i \in Items : Outside(i) <=> ~InPool(i))'
  BY OutsidePool, PTL

\* Only the beginning of a push and the end of a pop change whose an item is.
LEMMA OutsideKept ==
  ASSUME IInv, IInv', NEW t \in Threads,
         \/ PushLink(t) \/ PushCas(t) \/ PushRetry(t) \/ PopExchange(t) \/ PopEmpty(t)
         \/ PopAdvance(t) \/ PopDetach(t) \/ PopSingle(t) \/ PopMerge(t)
         \/ PopMergeRetry(t) \/ PopRelink(t),
         NEW i \in Items
  PROVE  Outside(i)' <=> Outside(i)
<1>1. (Outside(i) <=> ~InPool(i)) /\ (Outside(i)' <=> ~InPool(i)')
  BY OutsidePool, OutsidePoolNext
<1>2. SUFFICES InPool(i)' <=> InPool(i)
  BY <1>1
<1>3. \A u \in Threads \ {t} : pc'[u] = pc[u] /\ value'[u] = value[u]
  BY DEF PushLink, PushCas, PushRetry, PopExchange, PopEmpty, PopAdvance, PopDetach, PopSingle,
     PopMerge, PopMergeRetry, PopRelink, IInv, TypeOK
<1>4. CASE PushLink(t) \/ PushRetry(t)
  <2>1. pc[t] \in Pushing /\ pc'[t] \in Pushing /\ value'[t] = value[t]
    BY <1>4 DEF PushLink, PushRetry, IInv, TypeOK, Pushing
  <2> QED
    BY <1>3, <1>4, <2>1, LocalPool DEF InPool, poolUnchanged
<1>5. CASE PopAdvance(t) \/ PopMergeRetry(t) \/ PopRelink(t) \/ PopDetach(t)
  <2>1. pc[t] \notin Pushing /\ pc'[t] \notin Pushing
    BY <1>5 DEF PopAdvance, PopMergeRetry, PopRelink, PopDetach, IInv, TypeOK, Pushing
  <2> QED
    BY <1>3, <1>5, <2>1, LocalPool, DetachPool DEF InPool, poolUnchanged
<1>6. CASE PushCas(t)
  <2>1. /\ PoolWaiting' = PoolWaiting \cup {value[t]} /\ PoolHand' = PoolHand
        /\ pc[t] \in Pushing /\ pc'[t] \notin Pushing
    BY <1>6, PushCasPool DEF PushCas, IInv, TypeOK, Pushing, Pool!Push
  <2> QED
    BY <1>3, <2>1 DEF InPool
<1>7. CASE PopExchange(t)
  <2>1. pc[t] \notin Pushing /\ pc'[t] \notin Pushing
    BY <1>7 DEF PopExchange, IInv, TypeOK, Pushing
  <2>2. CASE head # Null
    <3>1. PICK j \in Items : Pool!Take(t, j)
      BY <1>7, <2>2, TakePool
    <3>2. /\ PoolWaiting' = PoolWaiting \ {j} /\ PoolHand' = [PoolHand EXCEPT ![t] = j]
          /\ j \in PoolWaiting /\ PoolHand[t] = Null
      BY <3>1, <1>7 DEF Pool!Take, PoolHand, PopExchange
    <3>3. PoolHand'[t] = j /\ \A u \in Threads \ {t} : PoolHand'[u] = PoolHand[u]
      BY <3>2 DEF PoolHand
    <3> QED
      BY <1>3, <2>1, <3>2, <3>3, NullAssumption DEF InPool
  <2>3. CASE head = Null
    BY <1>3, <1>7, <2>1, <2>3, MissPool DEF InPool, Pool!Miss
  <2> QED
    BY <2>2, <2>3
<1>8. CASE PopEmpty(t)
  <2>1. pc[t] \notin Pushing /\ pc'[t] \notin Pushing
    BY <1>8 DEF PopEmpty, IInv, TypeOK, Pushing
  <2> QED
    BY <1>3, <1>8, <2>1, EmptyPool DEF InPool, Pool!ReturnMissed
<1>9. CASE PopSingle(t) \/ PopMerge(t)
  <2>1. pc[t] \notin Pushing /\ pc'[t] \notin Pushing
    BY <1>9 DEF PopSingle, PopMerge, IInv, TypeOK, Pushing
  <2> QED
    BY <1>3, <1>9, <2>1, SinglePool, MergePool DEF InPool, Pool!Release
<1> QED
  BY <1>4, <1>5, <1>6, <1>7, <1>8, <1>9

LEMMA OutsideLoaded ==
  ASSUME IInv, NEW t \in Threads, NEW i \in Items, PushLoad(t, i)
  PROVE  /\ Outside(i) /\ ~Outside(i)'
         /\ \A j \in Items \ {i} : Outside(j)' <=> Outside(j)
<1>1. value[t] = Null /\ value' = [value EXCEPT ![t] = i] /\ UNCHANGED <<shared, private>>
  BY DEF PushLoad, IInv, PopGivesItem
<1>2. value'[t] = i /\ \A u \in Threads \ {t} : value'[u] = value[u]
  BY <1>1 DEF IInv, TypeOK
<1> QED
  BY <1>1, <1>2, NullAssumption DEF PushLoad, Outside

LEMMA OutsideReturned ==
  ASSUME IInv, NEW t \in Threads, PopReturn(t), NEW i, value[t] = i
  PROVE  /\ i \in Items /\ ~Outside(i) /\ Outside(i)'
         /\ \A j \in Items \ {i} : Outside(j)' <=> Outside(j)
<1>1. i \in Items /\ value' = [value EXCEPT ![t] = Null] /\ UNCHANGED <<shared, private>>
  BY DEF PopReturn, IInv, PopGivesItem
<1>2. value'[t] = Null /\ \A u \in Threads \ {t} : value'[u] = value[u]
  BY <1>1 DEF IInv, TypeOK
<1>3. \A u \in Threads \ {t} : value[u] # i
  BY <1>1, NullAssumption DEF IInv, Exclusive
<1>4. i \notin Range(shared) /\ \A u \in Threads : i \notin Range(private[u])
  BY DEF IInv, Exclusive
<1>5. \A u \in Threads : value'[u] # i
  BY <1>1, <1>2, <1>3, NullAssumption
<1>6. ~Outside(i) /\ Outside(i)'
  BY <1>1, <1>4, <1>5 DEF Outside
<1> QED
  BY <1>1, <1>2, <1>6, NullAssumption DEF Outside

LEMMA InitClient == TestThreads /\ ClientInit => ClientInv
<1> SUFFICES ASSUME TestThreads, ClientInit PROVE ClientInv
  OBVIOUS
<1>1. IInv
  BY InitIInv DEF ClientInit
<1>2. \A i \in Items : Outside(i)
  BY NullAssumption DEF ClientInit, Init, Outside, Range
<1>3. PoppedOnce
  BY <1>2 DEF PoppedOnce, ClientInit
<1>4. ProducersFirst
  BY DEF ProducersFirst, ClientInit
<1> QED
  BY <1>1, <1>3, <1>4 DEF ClientInv

LEMMA ProduceClient ==
  ASSUME TestThreads, ClientInv, IInv', NEW t \in Producers, Produce(t) PROVE ClientInv'
<1>1. /\ t \in Threads /\ t \notin ended \cup checking /\ ~finished
      /\ UNCHANGED <<finished, checking, ended, output>>
      /\ \A u \in Threads \ {t} : pc'[u] = pc[u]
  BY DEF TestThreads, ClientInv, ProducersFirst, Produce, PushLoad, PushLink, PushCas, PushRetry, IInv, TypeOK
<1>2. PoppedOnce'
  <2>1. CASE \E i \in toPush : PushLoad(t, i) /\ toPush' = toPush \ {i}
    <3>1. PICK i \in toPush : PushLoad(t, i) /\ toPush' = toPush \ {i}
      BY <2>1
    <3>2. i \in Items /\ IInv
      BY DEF ClientInv, PoppedOnce
    <3>3. ~Outside(i)' /\ \A j \in Items \ {i} : Outside(j)' <=> Outside(j)
      BY <1>1, <3>1, <3>2, OutsideLoaded
    <3> QED
      BY <1>1, <3>1, <3>3 DEF PoppedOnce, ClientInv
  <2>2. CASE (PushLink(t) \/ PushCas(t) \/ PushRetry(t)) /\ UNCHANGED toPush
    BY <1>1, <2>2, OutsideKept DEF PoppedOnce, ClientInv
  <2> QED
    BY <2>1, <2>2 DEF Produce
<1>3. ProducersFirst'
  BY <1>1 DEF ProducersFirst, ClientInv, TestThreads
<1> QED
  BY <1>2, <1>3 DEF ClientInv

LEMMA ConsumeClient ==
  ASSUME TestThreads, ClientInv, IInv', NEW t \in Consumers, Consume(t) PROVE ClientInv'
<1>1. /\ t \in Threads /\ t \notin Producers /\ t \notin ended \cup checking
      /\ UNCHANGED <<toPush, finished, ended>> /\ PopStep(t)
      /\ \A u \in Threads \ {t} : pc'[u] = pc[u]
  BY DEF TestThreads, Consume, PopStep, PopExchange, PopEmpty, PopAdvance, PopDetach, PopSingle,
     PopMerge, PopMergeRetry, PopRelink, PopReturn, ClientInv, IInv, TypeOK
<1>2. PoppedOnce'
  <2>1. CASE PopReturn(t)
    <3>1. PICK i : value[t] = i
      OBVIOUS
    <3>2. pc[t] = "done" /\ output' = [j \in Items |-> IF i = j THEN output[j] + 1 ELSE output[j]]
      BY <2>1, <3>1 DEF PopReturn, Consume
    <3>3. i \in Items /\ ~Outside(i) /\ Outside(i)' /\ \A j \in Items \ {i} : Outside(j)' <=> Outside(j)
      BY <1>1, <2>1, <3>1, OutsideReturned DEF ClientInv
    <3>4. i \notin toPush /\ output[i] = 0
      BY <3>3 DEF PoppedOnce, ClientInv
    <3>5. output'[i] = 1 /\ \A j \in Items \ {i} : output'[j] = output[j]
      BY <3>2, <3>3, <3>4
    <3> QED
      BY <1>1, <3>3, <3>4, <3>5 DEF PoppedOnce, ClientInv
  <2>2. CASE ~PopReturn(t)
    <3>1. pc[t] # "done"
      BY <1>1, <2>2 DEF PopStep, PopExchange, PopEmpty, PopAdvance, PopDetach, PopSingle,
         PopMerge, PopMergeRetry, PopRelink
    <3>2. output' = [i \in Items |-> output[i]]
      BY <3>1 DEF Consume
    <3>3. \A i \in Items : Outside(i)' <=> Outside(i)
      BY <1>1, <2>2, OutsideKept DEF PopStep, ClientInv
    <3> QED
      BY <1>1, <3>2, <3>3 DEF PoppedOnce, ClientInv
  <2> QED
    BY <2>1, <2>2
<1>3. ProducersFirst'
  <2>1. pc[t] = "empty" => pc'[t] = "idle"
    BY <1>1 DEF PopStep, PopExchange, PopEmpty, PopAdvance, PopDetach, PopSingle,
       PopMerge, PopMergeRetry, PopRelink, PopReturn, ClientInv, IInv, TypeOK
  <2> QED
    BY <1>1, <2>1 DEF ProducersFirst, ClientInv, Consume, TestThreads
<1> QED
  BY <1>2, <1>3 DEF ClientInv

LEMMA NextClient == TestThreads /\ ClientInv /\ [ClientNext]_clientVars => ClientInv'
<1> SUFFICES ASSUME TestThreads, ClientInv, [ClientNext]_clientVars PROVE ClientInv'
  OBVIOUS
<1>1. [Next]_vars
  <2>1. ASSUME NEW t \in Producers, Produce(t) PROVE Next
    <3>1. t \in Threads /\ toPush \subseteq Items
      BY DEF TestThreads, ClientInv, PoppedOnce
    <3>2. PushStep(t)
      BY <2>1, <3>1 DEF Produce, PushStep
    <3> QED
      BY <3>1, <3>2 DEF Next
  <2>2. ASSUME NEW t \in Consumers, Consume(t) PROVE Next
    BY <2>2 DEF Consume, Next, TestThreads
  <2>3. ASSUME NEW t \in Consumers, Check(t) PROVE UNCHANGED vars
    BY <2>3 DEF Check
  <2> QED
    BY <2>1, <2>2, <2>3 DEF ClientNext, clientVars, Finish
<1>2. IInv'
  BY <1>1, NextIInv DEF ClientInv
<1>3. ASSUME UNCHANGED vars, UNCHANGED <<toPush, output>> PROVE PoppedOnce'
  BY <1>3 DEF vars, PoppedOnce, ClientInv, Outside
<1>4. CASE Finish
  BY <1>2, <1>3, <1>4 DEF Finish, ClientInv, ProducersFirst, vars
<1>5. ASSUME NEW t \in Consumers, Check(t) PROVE ClientInv'
  BY <1>2, <1>3, <1>5 DEF Check, ClientInv, ProducersFirst, vars
<1>6. CASE UNCHANGED clientVars
  BY <1>2, <1>3, <1>6 DEF clientVars, ClientInv, ProducersFirst, vars
<1> QED
  BY <1>2, <1>4, <1>5, <1>6, ProduceClient, ConsumeClient DEF ClientNext

\* For any producers and consumers: the test's push never meets an element that is
\* still in use, and when its consumers have left, what they did not pop is in the
\* list, so that it is the flag they read too late, not the queue, that fails the
\* assertions.
THEOREM TestMissesOnlyTheQueued == TestThreads => (ClientSpec => []MissingAreInQueue)
<1> SUFFICES ASSUME TestThreads PROVE ClientSpec => []MissingAreInQueue
  OBVIOUS
<1>1. ClientInv => MissingAreInQueue
  <2> SUFFICES ASSUME ClientInv, ended = Consumers, NEW i \in Items
               PROVE  output[i] = IF i \in Range(shared) THEN 0 ELSE 1
    BY DEF MissingAreInQueue
  <2>1. toPush = {} /\ \A t \in Threads : pc[t] = "idle"
    BY DEF TestThreads, ClientInv, ProducersFirst
  <2>2. \A t \in Threads : value[t] # i /\ private[t] = <<>>
    BY <2>1, NullAssumption
       DEF ClientInv, IInv, PopGivesItem, PrivateListInMemory, PrivateList, Holding
  <2>3. Outside(i) <=> i \notin Range(shared)
    BY <2>2 DEF Outside, Range
  <2> QED
    BY <2>1, <2>3 DEF ClientInv, PoppedOnce
<1>2. ClientInit => ClientInv
  BY InitClient
<1>3. ClientInv /\ [ClientNext]_clientVars => ClientInv'
  BY NextClient
<1> QED
  BY <1>1, <1>2, <1>3, PTL DEF ClientSpec
=============================================================================
