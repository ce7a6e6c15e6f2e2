--------------------------- MODULE GpuCacheProofs ---------------------------
(***************************************************************************)
(* Proofs about GpuCache, for any keys, values, threads and cache size.    *)
(***************************************************************************)
EXTENDS GpuCache, SequenceTheorems, FiniteSetTheorems, TLAPS

\* The lock is held by an inserter that has something to insert; without
\* insertions of cached keys it is a key that is not cached.
Locking ==
    /\ lock = None => key = None /\ value = None
    /\ lock # None => open /\ key \in Keys /\ value \in Fitting
    /\ lock # None /\ again = 0 => key \notin Cached

\* An item has the slabs its type stands for; more, if it was inserted again.
Sized == \A k \in Cached : Len(cached_item[k].slabs) >= pow2[cached_item[k].length_type]

\* The queue and the map have the same keys, but for the one being inserted.
Queued ==
    /\ \A i, j \in DOMAIN cached_item_queue : cached_item_queue[i] = cached_item_queue[j] => i = j
    /\ open => \A i \in DOMAIN cached_item_queue : cached_item_queue[i] \in Cached
    /\ lock # None /\ push_flag => \A i \in DOMAIN cached_item_queue : cached_item_queue[i] # key
    /\ lock # None /\ ~push_flag => \E i \in DOMAIN cached_item_queue : cached_item_queue[i] = key
    /\ \A k \in Cached : k = key \/ \E i \in DOMAIN cached_item_queue : cached_item_queue[i] = k

\* An item holds the value of its key, piece by piece.
Holds(k) ==
    LET item == cached_item[k]
    IN  /\ latest[k] \in Fitting
        /\ item.length = Length[latest[k]]
        /\ Len(item.slabs) = Need(latest[k])
        /\ \A i \in DOMAIN item.slabs : slabs[item.slabs[i]] = Piece(latest[k], i)
ContentsRight == again = 0 => \A k \in Cached : Holds(k)

IteratorsGood == \A r \in Readers : Reading(r) /\ r \notin dangling => rkey[r] \in Cached

\* One unit for each slab that the length types of the keys in S stand for.
Units(item, S) == {x \in S \X Nat : x[2] \in 1 .. pow2[item[x[1]].length_type]}
InUse == Units(cached_item, Cached \ {key})

\* What the counter does not have is in use: every slab is one or the other.
AllCounted == open => IsFiniteSet(InUse) /\ free_slab_num + Cardinality(InUse) = slab_num

IInv == /\ TypeOK /\ Locking /\ CountIsCovered /\ Sized /\ Queued
        /\ SlabsPrivate /\ ContentsRight /\ IteratorsGood
-----------------------------------------------------------------------------
\* Powers of two are positive.
LEMMA Pow2Type == \A t \in 0 .. 10 : pow2[t] \in Nat \ {0}
BY DEF pow2

\* A value that fits has a type, and needs at least one slab.
LEMMA FittingType ==
    ASSUME NEW v \in Fitting
    PROVE  /\ v \in Values /\ v # None
           /\ length_type(v) \in 0 .. MaxType /\ length_type(v) \in 0 .. 10
           /\ Need(v) \in Nat \ {0} /\ Length[v] \in Nat
<1>1. v \in Values /\ \E t \in 0 .. MaxType : HasType(v, t)
  BY DEF Fitting
<1>2. length_type(v) \in 0 .. MaxType
  BY <1>1 DEF length_type
<1>3. length_type(v) \in 0 .. 10
  BY <1>2, GpuAssumption
<1> QED
  BY <1>1, <1>2, <1>3, Pow2Type, GpuAssumption DEF Need

\* The slabs an item has.
LEMMA ItemType ==
    ASSUME TypeOK, NEW k \in Cached
    PROVE  /\ cached_item[k] \in Item /\ cached_item[k].slabs \in Seq(Ids)
           /\ pow2[cached_item[k].length_type] \in Nat \ {0}
<1>1. cached_item[k] \in Item
  BY DEF TypeOK
<1>2. cached_item[k].length_type \in 0 .. MaxType /\ cached_item[k].slabs \in Seq(Ids)
  BY <1>1 DEF Item
<1>3. \A x \in 0 .. MaxType : x \in 0 .. 10
  BY GpuAssumption
<1>4. cached_item[k].length_type \in 0 .. 10
  BY <1>2, <1>3
<1> QED
  BY <1>1, <1>2, <1>4, Pow2Type

\* The invariant holds at the start.
LEMMA InitInv == Init => IInv
<1> SUFFICES ASSUME Init PROVE IInv
  OBVIOUS
<1>1. Cached = {}
  BY DEF Init, Cached
<1>2. TypeOK
  <2>1. free_slabs \in Seq(Ids) /\ Len(free_slabs) = slab_num
    BY GpuAssumption DEF Init, Ids
  <2>2. cached_item \in [Cached -> Item] /\ Cached \subseteq Keys
    BY <1>1 DEF Init, Cached
  <2> QED
    BY <2>1, <2>2, GpuAssumption DEF Init, TypeOK
<1>3. CountIsCovered
  BY GpuAssumption DEF Init, CountIsCovered
<1>4. Locking /\ Sized /\ Queued /\ ContentsRight /\ IteratorsGood
  BY <1>1 DEF Init, Locking, Sized, Queued, ContentsRight, IteratorsGood, Reading
<1>5. SlabsPrivate
  BY <1>1, GpuAssumption DEF Init, SlabsPrivate, Ids
<1> QED
  BY <1>2, <1>3, <1>4, <1>5 DEF IInv
-----------------------------------------------------------------------------
\* The first part of insert() keeps it.
LEMMA InsertInv ==
    ASSUME IInv, NEW t \in Inserters, NEW k \in Keys, NEW v \in Fitting, Insert(t, k, v)
    PROVE  IInv'
<1>a. IInv
  OBVIOUS
<1>b. /\ t # None /\ lock = None /\ lock' = t /\ open /\ open' = open
      /\ key' = k /\ value' = v /\ push_flag' = (k \notin Cached)
      /\ cached_item' = cached_item /\ Cached' = Cached
      /\ cached_item_queue' = cached_item_queue
      /\ slabs' = slabs /\ rkey' = rkey /\ latest' = latest /\ dangling' = dangling
      /\ free_slabs' = free_slabs \o OldSlabs(k)
      /\ free_slab_num' = IF k \in Cached THEN free_slab_num + pow2[cached_item[k].length_type]
                                          ELSE free_slab_num
      /\ again' = IF k \in Cached THEN again + 1 ELSE again
  BY GpuAssumption DEF Insert, InsertWith, items, Cached
<1>c. OldSlabs(k) \in Seq(Ids)
  BY <1>a DEF IInv, TypeOK, OldSlabs, Item
<1>d. k \in Cached => /\ pow2[cached_item[k].length_type] \in Nat
                      /\ pow2[cached_item[k].length_type] <= Len(OldSlabs(k))
  BY <1>a, ItemType DEF IInv, Sized, OldSlabs
<1>1. TypeOK'
  <2>1. free_slabs' \in Seq(Ids)
    BY <1>a, <1>b, <1>c DEF IInv, TypeOK
  <2>2. free_slab_num' \in Nat /\ again' \in Nat
    BY <1>a, <1>b, <1>d DEF IInv, TypeOK
  <2> QED
    BY <1>a, <1>b, <2>1, <2>2 DEF IInv, TypeOK
<1>2. Locking'
  BY <1>a, <1>b DEF IInv, TypeOK, Locking
<1>3. CountIsCovered'
  <2>1. Len(free_slabs') = Len(free_slabs) + Len(OldSlabs(k))
    BY <1>a, <1>b, <1>c DEF IInv, TypeOK
  <2> QED
    BY <1>a, <1>b, <1>c, <1>d, <2>1 DEF IInv, TypeOK, CountIsCovered
<1>4. Sized' /\ IteratorsGood'
  BY <1>a, <1>b DEF IInv, Sized, IteratorsGood, Reading
<1>5. Queued'
  <2>1. \A i \in DOMAIN cached_item_queue : cached_item_queue[i] \in Cached
    BY <1>a, <1>b DEF IInv, Queued
  <2>2. \A c \in Cached : c # key
    BY <1>a, <1>b, GpuAssumption DEF IInv, Locking, TypeOK
  <2>3. push_flag' => \A i \in DOMAIN cached_item_queue : cached_item_queue[i] # k
    BY <1>b, <2>1
  <2>4. \A c \in Cached : \E i \in DOMAIN cached_item_queue : cached_item_queue[i] = c
    BY <1>a, <2>2 DEF IInv, Queued
  <2>5. \A i, j \in DOMAIN cached_item_queue : cached_item_queue[i] = cached_item_queue[j] => i = j
    BY <1>a DEF IInv, Queued
  <2> QED
    BY <1>b, <2>1, <2>3, <2>4, <2>5 DEF Queued
<1>6. SlabsPrivate'
  <2>1. CASE k \in Cached
    BY <1>a, <1>b, <2>1 DEF IInv, TypeOK, SlabsPrivate
  <2>2. CASE k \notin Cached
    <3>1. free_slabs' = free_slabs /\ again' = again
      BY <1>a, <1>b, <2>2 DEF IInv, TypeOK, OldSlabs
    <3> QED
      BY <1>a, <1>b, <3>1 DEF IInv, SlabsPrivate
  <2> QED
    BY <2>1, <2>2
<1>7. ContentsRight'
  BY <1>a, <1>b DEF IInv, TypeOK, ContentsRight, Holds
<1> QED
  BY <1>1, <1>2, <1>3, <1>4, <1>5, <1>6, <1>7 DEF IInv

\* A turn of the eviction loop keeps it.
LEMMA EvictInv ==
    ASSUME IInv, NEW t \in Inserters, Evict(t)
    PROVE  IInv'
<1>a. IInv
  OBVIOUS
<1> DEFINE d == Head(cached_item_queue)
<1>b. /\ t # None /\ lock = t /\ lock' = lock /\ open' = open
      /\ key' = key /\ value' = value /\ slabs' = slabs /\ rkey' = rkey
      /\ latest' = latest /\ again' = again
      /\ cached_item_queue # <<>> /\ cached_item_queue' = Tail(cached_item_queue)
  BY GpuAssumption DEF Evict, EvictTo
<1>c. /\ 1 \in DOMAIN cached_item_queue /\ d = cached_item_queue[1]
      /\ cached_item_queue' \in Seq(Keys)
      /\ \A i \in DOMAIN cached_item_queue' :
            /\ i \in Nat \ {0} /\ i + 1 \in DOMAIN cached_item_queue
            /\ cached_item_queue'[i] = cached_item_queue[i + 1]
      /\ \A i \in DOMAIN cached_item_queue :
            i = 1 \/ (i - 1 \in DOMAIN cached_item_queue'
                      /\ cached_item_queue'[i - 1] = cached_item_queue[i])
  BY <1>a, <1>b DEF IInv, TypeOK
<1>d. \A i \in DOMAIN cached_item_queue' : cached_item_queue'[i] # d
  <2> SUFFICES ASSUME NEW i \in DOMAIN cached_item_queue', cached_item_queue'[i] = d
               PROVE  FALSE
    OBVIOUS
  <2>1. i + 1 # 1 /\ cached_item_queue[i + 1] = cached_item_queue[1]
    BY <1>c
  <2> QED
    BY <1>a, <1>c, <2>1 DEF IInv, Queued
<1>e. \A i, j \in DOMAIN cached_item_queue' : cached_item_queue'[i] = cached_item_queue'[j] => i = j
  <2> SUFFICES ASSUME NEW i \in DOMAIN cached_item_queue', NEW j \in DOMAIN cached_item_queue',
                      cached_item_queue'[i] = cached_item_queue'[j]
               PROVE  i = j
    OBVIOUS
  <2>1. i + 1 = j + 1
    BY <1>a, <1>c DEF IInv, Queued
  <2> QED
    BY <1>c, <2>1
<1>1. CASE d = key
  <2>1. /\ push_flag' = TRUE /\ cached_item' = cached_item /\ Cached' = Cached
        /\ dangling' = dangling /\ free_slabs' = free_slabs /\ free_slab_num' = free_slab_num
    BY <1>1 DEF Evict, EvictTo, free, Cached
  <2>2. TypeOK'
    BY <1>a, <1>b, <1>c, <2>1 DEF IInv, TypeOK
  <2>3. Queued'
    <3>1. \A c \in Cached' : c = key' \/ \E i \in DOMAIN cached_item_queue' : cached_item_queue'[i] = c
      <4> SUFFICES ASSUME NEW c \in Cached, c # key
                   PROVE  \E i \in DOMAIN cached_item_queue' : cached_item_queue'[i] = c
        BY <1>b, <2>1
      <4>1. PICK i \in DOMAIN cached_item_queue : cached_item_queue[i] = c
        BY <1>a DEF IInv, Queued
      <4>2. i # 1
        BY <1>c, <1>1, <4>1
      <4> QED
        BY <1>c, <4>1, <4>2
    <3> QED
      BY <1>a, <1>b, <1>c, <1>d, <1>e, <1>1, <2>1, <3>1 DEF IInv, Queued
  <2>4. Locking' /\ CountIsCovered' /\ Sized' /\ IteratorsGood'
    BY <1>a, <1>b, <2>1 DEF IInv, Locking, CountIsCovered, Sized, IteratorsGood, Reading
  <2>5. SlabsPrivate' /\ ContentsRight'
    BY <1>a, <1>b, <2>1 DEF IInv, SlabsPrivate, ContentsRight, Holds
  <2> QED
    BY <2>2, <2>3, <2>4, <2>5 DEF IInv
<1>2. CASE d # key
  <2> DEFINE given == cached_item[d].slabs
  <2>1. /\ d \in Cached /\ push_flag' = push_flag
        /\ free_slab_num' = free_slab_num + pow2[cached_item[d].length_type]
        /\ free_slabs' = free_slabs \o given
        /\ Cached' = Cached \ {d}
        /\ \A k \in Cached' : cached_item'[k] = cached_item[k]
        /\ cached_item' = [k \in Cached \ {d} |-> cached_item[k]]
        /\ dangling' = dangling \cup {r \in Readers : Reading(r) /\ rkey[r] = d}
    BY <1>2 DEF Evict, EvictTo, Cached
  <2>2. /\ given \in Seq(Ids) /\ pow2[cached_item[d].length_type] \in Nat
        /\ pow2[cached_item[d].length_type] <= Len(given)
    BY <1>a, <2>1, ItemType DEF IInv, Sized
  <2>3. /\ free_slabs' \in Seq(Ids) /\ Len(free_slabs') = Len(free_slabs) + Len(given)
        /\ \A i \in DOMAIN free_slabs' :
            \/ i \in DOMAIN free_slabs /\ free_slabs'[i] = free_slabs[i]
            \/ /\ i \notin DOMAIN free_slabs /\ i - Len(free_slabs) \in DOMAIN given
               /\ free_slabs'[i] = given[i - Len(free_slabs)]
    BY <1>a, <2>1, <2>2 DEF IInv, TypeOK
  <2>4. TypeOK'
    <3>1. cached_item' \in [Cached' -> Item] /\ Cached' \subseteq Keys
      BY <1>a, <2>1 DEF IInv, TypeOK
    <3>2. free_slab_num' \in Nat
      BY <1>a, <2>1, <2>2 DEF IInv, TypeOK
    <3> QED
      BY <1>a, <1>b, <1>c, <2>1, <2>3, <3>1, <3>2 DEF IInv, TypeOK
  <2>5. Locking' /\ Sized'
    BY <1>a, <1>b, <2>1 DEF IInv, Locking, Sized
  <2>6. CountIsCovered'
    BY <1>a, <2>1, <2>2, <2>3 DEF IInv, TypeOK, CountIsCovered
  <2>7. Queued'
    <3>1. \A c \in Cached' : c = key' \/ \E i \in DOMAIN cached_item_queue' : cached_item_queue'[i] = c
      <4> SUFFICES ASSUME NEW c \in Cached, c # d, c # key
                   PROVE  \E i \in DOMAIN cached_item_queue' : cached_item_queue'[i] = c
        BY <1>b, <2>1
      <4>1. PICK i \in DOMAIN cached_item_queue : cached_item_queue[i] = c
        BY <1>a DEF IInv, Queued
      <4>2. i # 1
        BY <1>c, <4>1
      <4> QED
        BY <1>c, <4>1, <4>2
    <3>2. open' => \A i \in DOMAIN cached_item_queue' : cached_item_queue'[i] \in Cached'
      BY <1>a, <1>b, <1>c, <1>d, <2>1 DEF IInv, Queued
    <3>3. ASSUME ~push_flag
          PROVE  \E i \in DOMAIN cached_item_queue' : cached_item_queue'[i] = key
      <4>1. PICK i \in DOMAIN cached_item_queue : cached_item_queue[i] = key
        BY <1>a, <1>b, <3>3 DEF IInv, Queued
      <4>2. i # 1
        BY <1>c, <1>2, <4>1
      <4> QED
        BY <1>c, <4>1, <4>2
    <3>4. push_flag => \A i \in DOMAIN cached_item_queue' : cached_item_queue'[i] # key
      BY <1>a, <1>b, <1>c DEF IInv, Queued
    <3> QED
      BY <1>b, <1>e, <2>1, <3>1, <3>2, <3>3, <3>4 DEF Queued
  <2>8. IteratorsGood'
    BY <1>a, <1>b, <2>1 DEF IInv, IteratorsGood, Reading
  <2>9. ContentsRight'
    BY <1>a, <1>b, <2>1 DEF IInv, ContentsRight, Holds
  <2>10. SlabsPrivate'
    <3> SUFFICES ASSUME open, again = 0 PROVE
          /\ \A i, j \in DOMAIN free_slabs' : free_slabs'[i] = free_slabs'[j] => i = j
          /\ \A k \in Cached' : \A i \in DOMAIN cached_item'[k].slabs :
              /\ \A j \in DOMAIN free_slabs' : free_slabs'[j] # cached_item'[k].slabs[i]
              /\ \A l \in Cached' : \A j \in DOMAIN cached_item'[l].slabs :
                  cached_item'[l].slabs[j] = cached_item'[k].slabs[i] => l = k /\ j = i
      BY <1>b DEF SlabsPrivate
    <3>1. /\ \A i, j \in DOMAIN free_slabs : free_slabs[i] = free_slabs[j] => i = j
          /\ \A k \in Cached : \A i \in DOMAIN cached_item[k].slabs :
              /\ \A j \in DOMAIN free_slabs : free_slabs[j] # cached_item[k].slabs[i]
              /\ \A l \in Cached : \A j \in DOMAIN cached_item[l].slabs :
                  cached_item[l].slabs[j] = cached_item[k].slabs[i] => l = k /\ j = i
      BY <1>a DEF IInv, SlabsPrivate
    <3>2. ASSUME NEW i \in DOMAIN free_slabs', NEW j \in DOMAIN free_slabs',
                 free_slabs'[i] = free_slabs'[j]
          PROVE  i = j
      <4>1. i \in Nat /\ j \in Nat /\ Len(free_slabs) \in Nat
        BY <1>a, <2>3 DEF IInv, TypeOK
      <4> DEFINE n == Len(free_slabs)
      <4>2. CASE i \in DOMAIN free_slabs /\ j \in DOMAIN free_slabs
        BY <2>3, <3>1, <3>2, <4>2
      <4>3. CASE i \notin DOMAIN free_slabs /\ j \notin DOMAIN free_slabs
        <5>1. /\ i - n \in DOMAIN given /\ j - n \in DOMAIN given
              /\ given[i - n] = given[j - n]
          BY <2>3, <3>2, <4>3
        <5>2. i - n = j - n
          BY <2>1, <3>1, <5>1
        <5> QED
          BY <4>1, <5>2
      <4>4. CASE i \in DOMAIN free_slabs /\ j \notin DOMAIN free_slabs
        BY <2>1, <2>3, <3>1, <3>2, <4>4
      <4>5. CASE i \notin DOMAIN free_slabs /\ j \in DOMAIN free_slabs
        BY <2>1, <2>3, <3>1, <3>2, <4>5
      <4> QED
        BY <4>2, <4>3, <4>4, <4>5
    <3>3. ASSUME NEW k \in Cached', NEW i \in DOMAIN cached_item'[k].slabs,
                 NEW j \in DOMAIN free_slabs'
          PROVE  free_slabs'[j] # cached_item'[k].slabs[i]
      BY <2>1, <2>3, <3>1
    <3>4. ASSUME NEW k \in Cached', NEW i \in DOMAIN cached_item'[k].slabs,
                 NEW l \in Cached', NEW j \in DOMAIN cached_item'[l].slabs,
                 cached_item'[l].slabs[j] = cached_item'[k].slabs[i]
          PROVE  l = k /\ j = i
      BY <2>1, <3>1, <3>4
    <3> QED
      BY <3>2, <3>3, <3>4
  <2> QED
    BY <2>4, <2>5, <2>6, <2>7, <2>8, <2>9, <2>10 DEF IInv
<1> QED
  BY <1>1, <1>2

\* The last part of insert() keeps it.
LEMMA StoreInv ==
    ASSUME IInv, NEW t \in Inserters, Store(t)
    PROVE  IInv'
<1>a. IInv
  OBVIOUS
<1> DEFINE n == Need(value)
           new == SubSeq(free_slabs, 1, n)
           old == OldSlabs(key)
           item == [length |-> Length[value], length_type |-> length_type(value),
                    slabs  |-> old \o new]
<1>b. /\ t # None /\ lock = t /\ lock' = None /\ open' = open
      /\ ~Short /\ key' = None /\ value' = None /\ push_flag' = TRUE
      /\ cached_item' = [k \in Cached \cup {key} |-> IF k = key THEN item ELSE cached_item[k]]
      /\ slabs' = [s \in Ids |-> LastPiece(s, new)]
      /\ free_slabs' = SubSeq(free_slabs, n + 1, Len(free_slabs))
      /\ free_slab_num' = free_slab_num - n
      /\ cached_item_queue' = IF push_flag THEN Append(cached_item_queue, key)
                                           ELSE cached_item_queue
      /\ latest' = [latest EXCEPT ![key] = value]
      /\ rkey' = rkey /\ again' = again /\ dangling' = dangling
  BY GpuAssumption DEF Store, StoreAs
<1>c. /\ open /\ key \in Keys /\ key # None /\ value \in Fitting
  BY <1>a, <1>b, GpuAssumption DEF IInv, Locking
<1>d. /\ n \in Nat \ {0} /\ Length[value] \in Nat /\ value \in Values
      /\ length_type(value) \in 0 .. MaxType
      /\ n <= free_slab_num /\ free_slab_num <= Len(free_slabs)
      /\ free_slab_num \in Nat /\ Len(free_slabs) \in Nat /\ free_slabs \in Seq(Ids)
  <2>1. n \in Nat \ {0} /\ free_slab_num \in Nat /\ free_slabs \in Seq(Ids)
    BY <1>a, <1>c, FittingType DEF IInv, TypeOK
  <2> QED
    BY <1>a, <1>b, <1>c, <2>1, FittingType DEF IInv, CountIsCovered, Short
<1>e. /\ new \in Seq(Ids) /\ Len(new) = n /\ DOMAIN new = 1 .. n
      /\ \A i \in 1 .. n : i \in DOMAIN free_slabs /\ new[i] = free_slabs[i]
  BY <1>d
<1>f. /\ free_slabs' \in Seq(Ids) /\ Len(free_slabs') = Len(free_slabs) - n
      /\ \A i \in DOMAIN free_slabs' :
            i \in Nat \ {0} /\ i + n \in DOMAIN free_slabs /\ free_slabs'[i] = free_slabs[i + n]
  <2> DEFINE m == Len(free_slabs)
  <2>1. /\ free_slabs' \in Seq(Ids)
        /\ Len(free_slabs') = IF n + 1 <= m THEN m - (n + 1) + 1 ELSE 0
        /\ \A i \in 1 .. m - (n + 1) + 1 : free_slabs'[i] = free_slabs[(n + 1) + i - 1]
    <3>1. n + 1 \in 1 .. m + 1 /\ m \in 0 .. Len(free_slabs)
      BY <1>d
    <3> HIDE DEF n, m
    <3> QED
      BY <1>b, <1>d, <3>1, SubSeqProperties DEF m
  <2> HIDE DEF n
  <2>2. Len(free_slabs') = m - n /\ DOMAIN free_slabs' = 1 .. m - n
    BY <1>d, <2>1
  <2>3. \A i \in 1 .. m - n : i + n \in 1 .. m /\ (n + 1) + i - 1 = i + n
    BY <1>d
  <2>4. DOMAIN free_slabs = 1 .. m
    BY <1>d
  <2>5. ASSUME NEW i \in 1 .. m - n
        PROVE  i \in Nat \ {0} /\ i + n \in DOMAIN free_slabs /\ free_slabs'[i] = free_slabs[i + n]
    <3>1. i \in Nat \ {0} /\ i \in 1 .. m - (n + 1) + 1
      BY <1>d
    <3> QED
      BY <2>1, <2>3, <2>4, <3>1
  <2> QED
    BY <2>1, <2>2, <2>5
<1>g. /\ old \in Seq(Ids) /\ (key \notin Cached => old = <<>>)
      /\ old \o new \in Seq(Ids) /\ Len(old \o new) = Len(old) + n
  <2>1. old \in Seq(Ids)
    BY <1>a, ItemType DEF IInv, OldSlabs
  <2> QED
    BY <1>e, <2>1 DEF OldSlabs
<1>h. Cached' = Cached \cup {key} /\ cached_item'[key] = item
      /\ \A k \in Cached : k # key => cached_item'[k] = cached_item[k]
  BY <1>b DEF Cached
<1>i. item \in Item
  BY <1>d, <1>g DEF Item
<1> HIDE DEF n, new, old
<1>1. TypeOK'
  <2>1. cached_item' \in [Cached' -> Item] /\ Cached' \subseteq Keys
    <3>1. \A k \in Cached \cup {key} : (IF k = key THEN item ELSE cached_item[k]) \in Item
      BY <1>a, <1>i DEF IInv, TypeOK
    <3> QED
      BY <1>a, <1>b, <1>c, <1>h, <3>1 DEF IInv, TypeOK
  <2>2. slabs' \in [Ids -> {None} \cup (Values \X (Nat \ {0}))]
    <3> SUFFICES ASSUME NEW s \in Ids
                 PROVE  LastPiece(s, new) \in {None} \cup (Values \X (Nat \ {0}))
      BY <1>b
    <3> DEFINE last == {i \in DOMAIN new :
                            new[i] = s /\ \A j \in DOMAIN new : new[j] = s => j <= i}
    <3>1. CASE last = {}
      BY <1>a, <3>1 DEF LastPiece, IInv, TypeOK
    <3>2. CASE last # {}
      <4>1. ASSUME NEW c \in last PROVE Piece(value, c) \in Values \X (Nat \ {0})
        BY <1>d, <1>e DEF Piece
      <4> QED
        BY <3>2, <4>1 DEF LastPiece
    <3> QED
      BY <3>1, <3>2
  <2>3. free_slab_num' \in Nat
    BY <1>b, <1>d
  <2>4. cached_item_queue' \in Seq(Keys)
    BY <1>a, <1>b, <1>c DEF IInv, TypeOK
  <2>5. latest' \in [Keys -> Fitting \cup {None}]
    BY <1>a, <1>b, <1>c DEF IInv, TypeOK
  <2> QED
    BY <1>a, <1>b, <1>f, <2>1, <2>2, <2>3, <2>4, <2>5 DEF IInv, TypeOK
<1>2. Locking' /\ IteratorsGood'
  BY <1>a, <1>b, <1>h DEF IInv, Locking, IteratorsGood, Reading
<1>3. CountIsCovered'
  BY <1>b, <1>d, <1>f DEF CountIsCovered
<1>4. Sized'
  <2>1. Len(item.slabs) >= pow2[item.length_type]
    BY <1>d, <1>g DEF n, Need
  <2> QED
    BY <1>a, <1>h, <2>1 DEF IInv, Sized
<1>5. Queued'
  <2>1. /\ \A i, j \in DOMAIN cached_item_queue : cached_item_queue[i] = cached_item_queue[j] => i = j
        /\ \A i \in DOMAIN cached_item_queue : cached_item_queue[i] \in Cached
        /\ push_flag => \A i \in DOMAIN cached_item_queue : cached_item_queue[i] # key
        /\ ~push_flag => \E i \in DOMAIN cached_item_queue : cached_item_queue[i] = key
        /\ \A k \in Cached : k = key \/ \E i \in DOMAIN cached_item_queue : cached_item_queue[i] = k
    BY <1>a, <1>b, <1>c DEF IInv, Queued
  <2>2. CASE ~push_flag
    BY <1>b, <1>h, <2>1, <2>2 DEF Queued
  <2>3. CASE push_flag
    <3>1. /\ cached_item_queue' = Append(cached_item_queue, key)
          /\ Len(cached_item_queue') = Len(cached_item_queue) + 1
          /\ Len(cached_item_queue') \in DOMAIN cached_item_queue'
          /\ cached_item_queue'[Len(cached_item_queue')] = key
          /\ \A i \in DOMAIN cached_item_queue :
                i \in DOMAIN cached_item_queue' /\ cached_item_queue'[i] = cached_item_queue[i]
          /\ \A i \in DOMAIN cached_item_queue' :
                i \in DOMAIN cached_item_queue \/ i = Len(cached_item_queue')
      BY <1>a, <1>b, <1>c, <2>3 DEF IInv, TypeOK
    <3>2. \A i, j \in DOMAIN cached_item_queue' : cached_item_queue'[i] = cached_item_queue'[j] => i = j
      BY <2>1, <2>3, <3>1
    <3>3. \A i \in DOMAIN cached_item_queue' : cached_item_queue'[i] \in Cached'
      BY <1>h, <2>1, <3>1
    <3>4. \A k \in Cached' : \E i \in DOMAIN cached_item_queue' : cached_item_queue'[i] = k
      BY <1>h, <2>1, <3>1
    <3> QED
      BY <1>b, <3>2, <3>3, <3>4 DEF Queued
  <2> QED
    BY <2>2, <2>3
<1>6. ASSUME again = 0
      PROVE  /\ key \notin Cached /\ cached_item'[key].slabs = new /\ Cached' = Cached \cup {key}
             /\ \A k \in Cached : k # key /\ cached_item'[k] = cached_item[k]
             /\ \A i, j \in DOMAIN free_slabs : free_slabs[i] = free_slabs[j] => i = j
             /\ \A k \in Cached : \A i \in DOMAIN cached_item[k].slabs :
                 /\ \A j \in DOMAIN free_slabs : free_slabs[j] # cached_item[k].slabs[i]
                 /\ \A l \in Cached : \A j \in DOMAIN cached_item[l].slabs :
                     cached_item[l].slabs[j] = cached_item[k].slabs[i] => l = k /\ j = i
  <2>1. key \notin Cached
    BY <1>a, <1>b, <1>6 DEF IInv, Locking
  <2>2. old = <<>> /\ old \o new = new
    BY <1>e, <1>g, <2>1
  <2>3. cached_item'[key].slabs = new
    BY <1>h, <2>2
  <2> QED
    BY <1>a, <1>c, <1>h, <1>6, <2>1, <2>3 DEF IInv, SlabsPrivate
<1>7. SlabsPrivate'
  <2> SUFFICES ASSUME again = 0 PROVE
        /\ \A i, j \in DOMAIN free_slabs' : free_slabs'[i] = free_slabs'[j] => i = j
        /\ \A k \in Cached' : \A i \in DOMAIN cached_item'[k].slabs :
            /\ \A j \in DOMAIN free_slabs' : free_slabs'[j] # cached_item'[k].slabs[i]
            /\ \A l \in Cached' : \A j \in DOMAIN cached_item'[l].slabs :
                cached_item'[l].slabs[j] = cached_item'[k].slabs[i] => l = k /\ j = i
    BY <1>b DEF SlabsPrivate
  <2>1. ASSUME NEW i \in DOMAIN free_slabs', NEW j \in DOMAIN free_slabs',
               free_slabs'[i] = free_slabs'[j]
        PROVE  i = j
    <3>1. i + n = j + n
      BY <1>f, <1>6, <2>1
    <3> QED
      BY <1>d, <1>f, <3>1
  <2>2. ASSUME NEW k \in Cached', NEW i \in DOMAIN cached_item'[k].slabs,
               NEW j \in DOMAIN free_slabs'
        PROVE  free_slabs'[j] # cached_item'[k].slabs[i]
    <3>1. CASE k # key
      BY <1>f, <1>6, <3>1
    <3>2. CASE k = key
      <4>1. i \in 1 .. n /\ j \in Nat \ {0} /\ i # j + n
        BY <1>d, <1>e, <1>f, <1>6, <3>2
      <4> QED
        BY <1>e, <1>f, <1>6, <3>2, <4>1
    <3> QED
      BY <3>1, <3>2
  <2>3. ASSUME NEW k \in Cached', NEW i \in DOMAIN cached_item'[k].slabs,
               NEW l \in Cached', NEW j \in DOMAIN cached_item'[l].slabs,
               cached_item'[l].slabs[j] = cached_item'[k].slabs[i]
        PROVE  l = k /\ j = i
    <3>1. CASE k # key /\ l # key
      BY <1>6, <2>3, <3>1
    <3>2. CASE k = key /\ l = key
      BY <1>e, <1>6, <2>3, <3>2
    <3>3. CASE k = key /\ l # key
      BY <1>e, <1>6, <2>3, <3>3
    <3>4. CASE k # key /\ l = key
      BY <1>e, <1>6, <2>3, <3>4
    <3> QED
      BY <3>1, <3>2, <3>3, <3>4
  <2> QED
    BY <2>1, <2>2, <2>3
<1>8. ContentsRight'
  <2> SUFFICES ASSUME again = 0, NEW k \in Cached' PROVE Holds(k)'
    BY <1>b DEF ContentsRight
  <2>1. CASE k = key
    <3>1. latest'[k] = value /\ cached_item'[k].length = Length[value]
      BY <1>a, <1>b, <1>c, <1>h, <2>1 DEF IInv, TypeOK
    <3>2. ASSUME NEW i \in 1 .. n PROVE slabs'[new[i]] = Piece(value, i)
      <4>1. {l \in DOMAIN new : /\ new[l] = new[i]
                                /\ \A j \in DOMAIN new : new[j] = new[i] => j <= l} = {i}
        BY <1>e, <1>6
      <4>2. new[i] \in Ids
        BY <1>e
      <4>3. LastPiece(new[i], new) = Piece(value, i)
        BY <4>1 DEF LastPiece
      <4> QED
        BY <1>b, <4>2, <4>3
    <3>3. Len(cached_item'[k].slabs) = Need(value)
      BY <1>e, <1>6, <2>1 DEF n
    <3> QED
      BY <1>c, <1>e, <1>6, <2>1, <3>1, <3>2, <3>3 DEF Holds
  <2>2. CASE k # key
    <3>1. k \in Cached /\ cached_item'[k] = cached_item[k] /\ latest'[k] = latest[k] /\ Holds(k)
      BY <1>a, <1>b, <1>6, <2>2 DEF IInv, TypeOK, ContentsRight
    <3>2. ASSUME NEW i \in DOMAIN cached_item[k].slabs
          PROVE  slabs'[cached_item[k].slabs[i]] = slabs[cached_item[k].slabs[i]]
      <4>1. \A l \in DOMAIN new : new[l] # cached_item[k].slabs[i]
        BY <1>e, <1>6, <3>1
      <4>2. cached_item[k].slabs[i] \in Ids
        BY <1>a, <3>1, ItemType DEF IInv
      <4> QED
        BY <1>b, <4>1, <4>2 DEF LastPiece
    <3> QED
      BY <3>1, <3>2 DEF Holds
  <2> QED
    BY <2>1, <2>2
<1> QED
  BY <1>1, <1>2, <1>3, <1>4, <1>5, <1>7, <1>8 DEF IInv

\* Readers and close() keep it.
LEMMA ReaderInv ==
    ASSUME IInv, \/ \E r \in Readers : (\E k \in Keys : Find(r, k)) \/ Return(r)
                 \/ Close \/ Closed \/ UNCHANGED vars
    PROVE  IInv'
<1>a. IInv
  OBVIOUS
<1>1. ASSUME NEW r \in Readers, NEW k \in Keys, Find(r, k) PROVE IInv'
  <2>1. TypeOK' /\ Locking' /\ CountIsCovered' /\ Sized' /\ Queued'
    BY <1>a, <1>1 DEF IInv, Find, free, items, adding, TypeOK, Locking, CountIsCovered,
                      Sized, Queued, Cached
  <2>2. SlabsPrivate' /\ ContentsRight'
    BY <1>a, <1>1 DEF IInv, Find, free, items, SlabsPrivate, ContentsRight, Holds, Cached
  <2>3. IteratorsGood'
    BY <1>a, <1>1 DEF IInv, Find, items, TypeOK, IteratorsGood, Reading, Cached
  <2> QED
    BY <2>1, <2>2, <2>3 DEF IInv
<1>2. ASSUME NEW r \in Readers, Return(r) PROVE IInv'
  <2>1. TypeOK' /\ Locking' /\ CountIsCovered' /\ Sized' /\ Queued'
    BY <1>a, <1>2 DEF IInv, Return, free, items, adding, TypeOK, Locking, CountIsCovered,
                      Sized, Queued, Cached
  <2>2. SlabsPrivate' /\ ContentsRight'
    BY <1>a, <1>2 DEF IInv, Return, free, items, SlabsPrivate, ContentsRight, Holds, Cached
  <2>3. IteratorsGood'
    BY <1>a, <1>2 DEF IInv, Return, items, TypeOK, IteratorsGood, Reading, Cached
  <2> QED
    BY <2>1, <2>2, <2>3 DEF IInv
<1>3. CASE Close
  <2>1. Cached' = {} /\ open' = FALSE
    BY <1>3 DEF Close, Cached
  <2>2. TypeOK'
    <3>1. cached_item' \in [Cached' -> Item] /\ Cached' \subseteq Keys
      BY <1>3, <2>1 DEF Close, Cached
    <3> QED
      BY <1>a, <1>3, <2>1, <3>1 DEF IInv, Close, free, adding, history, TypeOK
  <2>3. Locking' /\ CountIsCovered' /\ Sized' /\ Queued'
    BY <1>a, <1>3, <2>1 DEF IInv, Close, free, adding, history, Locking, CountIsCovered,
                            Sized, Queued
  <2>4. SlabsPrivate' /\ ContentsRight' /\ IteratorsGood'
    BY <1>a, <1>3, <2>1 DEF Close, SlabsPrivate, ContentsRight, IteratorsGood, Reading
  <2> QED
    BY <2>2, <2>3, <2>4 DEF IInv
<1>4. CASE Closed \/ UNCHANGED vars
  <2>1. TypeOK' /\ Locking' /\ CountIsCovered' /\ Sized' /\ Queued'
    BY <1>a, <1>4 DEF IInv, Closed, vars, free, items, adding, history, TypeOK, Locking,
                      CountIsCovered, Sized, Queued, Cached
  <2>2. SlabsPrivate' /\ ContentsRight' /\ IteratorsGood'
    BY <1>a, <1>4 DEF IInv, Closed, vars, free, items, history, SlabsPrivate, ContentsRight,
                      Holds, IteratorsGood, Reading, Cached
  <2> QED
    BY <2>1, <2>2 DEF IInv
<1> QED
  BY <1>1, <1>2, <1>3, <1>4

\* It holds in every state.
LEMMA Invariance == Spec => []IInv
<1>1. Init => IInv
  BY InitInv
<1>2. IInv /\ [Next]_vars => IInv'
  BY InsertInv, EvictInv, StoreInv, ReaderInv DEF Next
<1> QED
  BY <1>1, <1>2, PTL DEF Spec
-----------------------------------------------------------------------------
(***************************************************************************)
(* The count of slabs                                                      *)
(***************************************************************************)

\* As many units as slabs.
LEMMA UnitsOfOne ==
    ASSUME NEW d, NEW n \in Nat
    PROVE  IsFiniteSet({d} \X (1 .. n)) /\ Cardinality({d} \X (1 .. n)) = n
<1>1. IsFiniteSet({d}) /\ Cardinality({d}) = 1
  BY FS_Singleton
<1>2. IsFiniteSet(1 .. n) /\ Cardinality(1 .. n) = n
  <2>1. Cardinality(1 .. n) = IF 1 > n THEN 0 ELSE n - 1 + 1
    BY FS_Interval
  <2>2. IsFiniteSet(1 .. n)
    BY FS_Interval
  <2> QED
    BY <2>1, <2>2
<1>3. IsFiniteSet({d} \X (1 .. n)) /\ Cardinality({d} \X (1 .. n)) = Cardinality({d}) * Cardinality(1 .. n)
  BY <1>1, <1>2, FS_Product
<1> QED
  BY <1>1, <1>2, <1>3

\* The units of one more key.
LEMMA UnitsAdd ==
    ASSUME NEW item, NEW S, NEW d, d \notin S, NEW n \in Nat, n = pow2[item[d].length_type],
           IsFiniteSet(Units(item, S))
    PROVE  /\ IsFiniteSet(Units(item, S \cup {d}))
           /\ Cardinality(Units(item, S \cup {d})) = Cardinality(Units(item, S)) + n
<1> DEFINE U == Units(item, S)
           D == {d} \X (1 .. n)
<1>1. Units(item, S \cup {d}) = U \cup D
  <2>1. ASSUME NEW x \in Units(item, S \cup {d}) PROVE x \in U \cup D
    BY <2>1 DEF Units
  <2>2. ASSUME NEW x \in U PROVE x \in Units(item, S \cup {d})
    BY <2>2 DEF Units
  <2>3. ASSUME NEW x \in D PROVE x \in Units(item, S \cup {d})
    BY <2>3 DEF Units
  <2> QED
    BY <2>1, <2>2, <2>3
<1>2. U \cap D = {}
  BY DEF Units
<1>3. IsFiniteSet(D) /\ Cardinality(D) = n
  BY UnitsOfOne
<1>4. IsFiniteSet(U) /\ Cardinality(U) \in Nat
  BY FS_CardinalityType
<1> HIDE DEF U, D
<1>5. IsFiniteSet(U \cup D) /\ Cardinality(U \cup D) = Cardinality(U) + Cardinality(D) - Cardinality(U \cap D)
  BY <1>3, <1>4, FS_Union
<1>6. Cardinality(U \cap D) = 0
  BY <1>2, FS_EmptySet
<1>7. Cardinality(U \cup D) = Cardinality(U) + n
  BY <1>3, <1>4, <1>5, <1>6
<1> QED
  BY <1>1, <1>5, <1>7 DEF U

\* The units of fewer keys.
LEMMA UnitsFewer ==
    ASSUME NEW item, NEW S, NEW T, S \subseteq T, IsFiniteSet(Units(item, T))
    PROVE  IsFiniteSet(Units(item, S))
<1>1. Units(item, S) \subseteq Units(item, T)
  BY DEF Units
<1> QED
  BY <1>1, FS_Subset

\* Units depend on the keys' types only.
LEMMA UnitsSame ==
    ASSUME NEW item1, NEW item2, NEW S, \A k \in S : item1[k] = item2[k]
    PROVE  Units(item1, S) = Units(item2, S)
<1>1. \A x \in S \X Nat : item1[x[1]] = item2[x[1]]
  OBVIOUS
<1> QED
  BY <1>1 DEF Units

\* At the start nothing is in use.
LEMMA InitCounted == Init => AllCounted
<1> SUFFICES ASSUME Init PROVE AllCounted
  OBVIOUS
<1>1. InUse = {}
  BY DEF Init, Cached, InUse, Units
<1>2. IsFiniteSet(InUse) /\ Cardinality(InUse) = 0
  BY <1>1, FS_EmptySet
<1>3. free_slab_num = slab_num
  BY DEF Init
<1> QED
  BY <1>2, <1>3, GpuAssumption DEF AllCounted

\* insert() of a cached key gives back what it has in use.
LEMMA InsertCounted ==
    ASSUME IInv, AllCounted, NEW t \in Inserters, NEW k \in Keys, NEW v \in Fitting, Insert(t, k, v)
    PROVE  AllCounted'
<1>b. /\ open /\ lock = None /\ key' = k /\ cached_item' = cached_item /\ Cached' = Cached
      /\ free_slab_num' = IF k \in Cached THEN free_slab_num + pow2[cached_item[k].length_type]
                                          ELSE free_slab_num
  BY DEF Insert, InsertWith, items, Cached
<1>1. key \notin Cached
  BY <1>b, GpuAssumption DEF IInv, Locking, TypeOK
<1>2. /\ InUse = Units(cached_item, Cached) /\ InUse' = Units(cached_item, Cached \ {k})
  BY <1>b, <1>1 DEF InUse
<1>3. IsFiniteSet(InUse) /\ free_slab_num + Cardinality(InUse) = slab_num
  BY <1>b DEF AllCounted
<1>4. CASE k \in Cached
  <2> DEFINE n == pow2[cached_item[k].length_type]
  <2>1. n \in Nat
    BY <1>4, ItemType DEF IInv
  <2>2. IsFiniteSet(InUse')
    BY <1>2, <1>3, UnitsFewer
  <2>3. (Cached \ {k}) \cup {k} = Cached /\ k \notin Cached \ {k}
    BY <1>4
  <2>4. Cardinality(InUse) = Cardinality(InUse') + n
    BY <1>2, <2>1, <2>2, <2>3, UnitsAdd
  <2>5. Cardinality(InUse') \in Nat /\ free_slab_num \in Nat
    BY <2>2, FS_CardinalityType DEF IInv, TypeOK
  <2>6. free_slab_num' = free_slab_num + n
    BY <1>b, <1>4
  <2> HIDE DEF n
  <2>7. free_slab_num' + Cardinality(InUse') = slab_num
    BY <1>3, <2>1, <2>4, <2>5, <2>6
  <2> QED
    BY <2>2, <2>7 DEF AllCounted
<1>5. CASE k \notin Cached
  <2>1. InUse' = InUse /\ free_slab_num' = free_slab_num
    BY <1>b, <1>2, <1>5
  <2> QED
    BY <1>3, <2>1 DEF AllCounted
<1> QED
  BY <1>4, <1>5

\* Eviction gives back what the item has in use.
LEMMA EvictCounted ==
    ASSUME IInv, AllCounted, NEW t \in Inserters, Evict(t)
    PROVE  AllCounted'
<1> DEFINE d == Head(cached_item_queue)
<1>b. open' = open /\ key' = key
  BY DEF Evict, EvictTo
<1>o. open
  BY GpuAssumption DEF IInv, Locking, Evict, EvictTo
<1>3. IsFiniteSet(InUse) /\ free_slab_num + Cardinality(InUse) = slab_num
  BY <1>o DEF AllCounted
<1>1. CASE d = key
  <2>1. cached_item' = cached_item /\ free_slab_num' = free_slab_num
    BY <1>1 DEF Evict, EvictTo, free
  <2>2. InUse' = InUse
    BY <1>b, <2>1 DEF InUse, Cached
  <2> QED
    BY <1>3, <2>1, <2>2 DEF AllCounted
<1>2. CASE d # key
  <2> DEFINE n == pow2[cached_item[d].length_type]
             S == (Cached \ {d}) \ {key}
  <2>1. /\ d \in Cached /\ free_slab_num' = free_slab_num + n
        /\ cached_item' = [k \in Cached \ {d} |-> cached_item[k]]
    BY <1>2 DEF Evict, EvictTo
  <2>2. n \in Nat
    BY <2>1, ItemType DEF IInv
  <2>3. Cached' = Cached \ {d}
    BY <2>1 DEF Cached
  <2>4. Cached \ {key} = S \cup {d} /\ d \notin S
    BY <1>2, <2>1
  <2>5. InUse' = Units(cached_item', S)
    BY <1>b, <2>3 DEF InUse
  <2>6. InUse' = Units(cached_item, S)
    <3>1. \A k \in S : cached_item'[k] = cached_item[k]
      BY <2>1
    <3> HIDE DEF S
    <3> QED
      BY <2>5, <3>1, UnitsSame
  <2>7. InUse = Units(cached_item, S \cup {d})
    BY <2>4 DEF InUse
  <2> HIDE DEF S
  <2>8. IsFiniteSet(InUse')
    BY <1>3, <2>6, <2>7, UnitsFewer
  <2>9. Cardinality(InUse) = Cardinality(InUse') + n
    BY <2>2, <2>4, <2>6, <2>7, <2>8, UnitsAdd
  <2>10. Cardinality(InUse') \in Nat /\ free_slab_num \in Nat
    BY <2>8, FS_CardinalityType DEF IInv, TypeOK
  <2> HIDE DEF n
  <2>11. free_slab_num' + Cardinality(InUse') = slab_num
    BY <1>3, <2>1, <2>2, <2>9, <2>10
  <2> QED
    BY <2>8, <2>11 DEF AllCounted
<1> QED
  BY <1>1, <1>2

\* The new item has in use what was taken.
LEMMA StoreCounted ==
    ASSUME IInv, AllCounted, NEW t \in Inserters, Store(t)
    PROVE  AllCounted'
<1> DEFINE n == Need(value)
           item == [length |-> Length[value], length_type |-> length_type(value),
                    slabs  |-> OldSlabs(key) \o SubSeq(free_slabs, 1, n)]
           S == Cached \ {key}
<1>b. /\ open' = open /\ key' = None /\ ~Short
      /\ cached_item' = [k \in Cached \cup {key} |-> IF k = key THEN item ELSE cached_item[k]]
      /\ free_slab_num' = free_slab_num - n
  BY DEF Store, StoreAs
<1>o. open /\ key \in Keys /\ value \in Fitting
  BY GpuAssumption DEF IInv, Locking, Store, StoreAs
<1>1. IsFiniteSet(InUse) /\ free_slab_num + Cardinality(InUse) = slab_num
  BY <1>o DEF AllCounted
<1>2. n \in Nat /\ n = pow2[length_type(value)]
  BY <1>o, FittingType DEF Need
<1>3. Cached' = S \cup {key} /\ key \notin S /\ None \notin S \cup {key}
  <2>1. Cached' = Cached \cup {key}
    BY <1>b DEF Cached
  <2>2. None \notin Cached \cup {key}
    BY <1>o, GpuAssumption DEF IInv, TypeOK
  <2> QED
    BY <2>1, <2>2
<1>4. \A k \in S : cached_item'[k] = cached_item[k]
  BY <1>b
<1>5. cached_item'[key].length_type = length_type(value)
  BY <1>b
<1> HIDE DEF item, n
<1>6. InUse' = Units(cached_item', S \cup {key})
  <2>1. Cached' \ {key'} = S \cup {key}
    BY <1>b, <1>3
  <2> QED
    BY <2>1 DEF InUse
<1>7. InUse = Units(cached_item', S)
  <2>1. InUse = Units(cached_item, S)
    BY DEF InUse
  <2> HIDE DEF S
  <2> QED
    BY <2>1, <1>4, UnitsSame
<1> HIDE DEF S
<1>8. IsFiniteSet(InUse') /\ Cardinality(InUse') = Cardinality(InUse) + n
  BY <1>1, <1>2, <1>3, <1>5, <1>6, <1>7, UnitsAdd
<1>9. Cardinality(InUse) \in Nat /\ free_slab_num \in Nat
  BY <1>1, FS_CardinalityType DEF IInv, TypeOK
<1>10. free_slab_num' + Cardinality(InUse') = slab_num
  BY <1>1, <1>2, <1>8, <1>9, <1>b
<1> QED
  BY <1>8, <1>10 DEF AllCounted

\* The count is right in every state.
LEMMA Counted == Spec => []AllCounted
<1>1. Init => AllCounted
  BY InitCounted
<1>2. IInv /\ AllCounted /\ [Next]_vars => AllCounted'
  <2> SUFFICES ASSUME IInv, AllCounted, [Next]_vars PROVE AllCounted'
    OBVIOUS
  <2>1. CASE \E r \in Readers : (\E k \in Keys : Find(r, k)) \/ Return(r)
    BY <2>1 DEF Find, Return, free, items, adding, AllCounted, InUse, Cached
  <2>2. CASE Close
    BY <2>2 DEF Close, AllCounted
  <2>3. CASE Closed \/ UNCHANGED vars
    BY <2>3 DEF Closed, vars, free, items, adding, AllCounted, InUse, Cached
  <2> QED
    BY <2>1, <2>2, <2>3, InsertCounted, EvictCounted, StoreCounted DEF Next
<1> QED
  BY <1>1, <1>2, Invariance, PTL DEF Spec

\* A larger type needs more slabs.
LEMMA Pow2Grows == \A s, t \in 0 .. 10 : s <= t => pow2[s] <= pow2[t]
BY DEF pow2
-----------------------------------------------------------------------------
(***************************************************************************)
(* Theorems                                                                *)
(***************************************************************************)

\* The state of the GPU cache keeps its types.
THEOREM GpuTypeCorrect == Spec => []TypeOK
<1>1. IInv => TypeOK
  BY DEF IInv
<1> QED
  BY <1>1, Invariance, PTL

\* insert() never takes front() of an empty queue of free slabs, even if keys
\* are inserted again.
THEOREM SlabsSuffice == Spec => []CountIsCovered
<1>1. IInv => CountIsCovered
  BY DEF IInv
<1> QED
  BY <1>1, Invariance, PTL

\* The queue of items has every cached key once, but for the one that insert()
\* is at, and no other: eviction never looks up a key that is not cached.
THEOREM QueueHoldsCachedKeys == Spec => []Queued
<1>1. IInv => Queued
  BY DEF IInv
<1> QED
  BY <1>1, Invariance, PTL

\* Each slab is either promised by the counter of free slabs or in use by the
\* length type of one cached item: insert() and eviction lose none, even if
\* keys are inserted again and items keep slabs they have given back
\* (GpuCache.cpp:77-126).
THEOREM SlabsAreCounted == Spec => []AllCounted
BY Counted

\* The eviction loop of insert() neither takes from an empty queue nor looks
\* up a key that is not cached: when the queue is empty no slab is in use, and
\* a GPU cache has room for the longest value.
THEOREM EvictionAlwaysFinds == Spec => []EvictionFindsItem
<1>1. IInv /\ AllCounted => EvictionFindsItem
  <2> SUFFICES ASSUME IInv, AllCounted PROVE EvictionFindsItem
    OBVIOUS
  <2>1. ASSUME lock # None, cached_item_queue = <<>> PROVE ~Short
    <3>1. open /\ value \in Fitting
      BY <2>1 DEF IInv, Locking
    <3>2. Cached \ {key} = {}
      BY <2>1 DEF IInv, Queued
    <3>3. InUse = {}
      BY <3>2 DEF InUse, Units
    <3>4. free_slab_num = slab_num
      <4>1. Cardinality(InUse) = 0
        BY <3>3, FS_EmptySet
      <4>2. free_slab_num \in Nat
        BY DEF IInv, TypeOK
      <4> QED
        BY <3>1, <4>1, <4>2 DEF AllCounted
    <3>5. Need(value) <= pow2[MaxType]
      <4>1. length_type(value) \in 0 .. 10 /\ length_type(value) \in 0 .. MaxType
        BY <3>1, FittingType
      <4>2. MaxType \in 0 .. 10 /\ length_type(value) <= MaxType
        BY <4>1, GpuAssumption
      <4> QED
        BY <4>1, <4>2, Pow2Grows DEF Need
    <3>6. Need(value) \in Nat /\ pow2[MaxType] \in Nat /\ slab_num \in Nat /\ slab_num >= pow2[MaxType]
      BY <3>1, FittingType, Pow2Type, GpuAssumption
    <3>7. ~(slab_num < Need(value))
      BY <3>5, <3>6
    <3> QED
      BY <3>4, <3>7 DEF Short
  <2>2. /\ \A i, j \in DOMAIN cached_item_queue : cached_item_queue[i] = cached_item_queue[j] => i = j
        /\ open => \A i \in DOMAIN cached_item_queue : cached_item_queue[i] \in Cached
    BY DEF IInv, Queued
  <2> QED
    BY <2>1, <2>2 DEF EvictionFindsItem
<1> QED
  BY <1>1, Invariance, Counted, PTL

\* Without insertions of cached keys no slab is used twice.
THEOREM SlabsArePrivate == Spec => []SlabsPrivate
<1>1. IInv => SlabsPrivate
  BY DEF IInv
<1> QED
  BY <1>1, Invariance, PTL

\* Without insertions of cached keys read() copies what was inserted last.
THEOREM ReadsAreRight == Spec => []ReadsRight
<1>1. IInv => ReadsRight
  <2> SUFFICES ASSUME IInv, NEW r \in Readers, Reading(r), again = 0, r \notin dangling
               PROVE  Copied(r) = [length |-> Length[latest[rkey[r]]],
                                   bytes |-> Content(latest[rkey[r]])]
    BY DEF ReadsRight
  <2> DEFINE k == rkey[r]
  <2>1. k \in Cached /\ Holds(k) /\ cached_item[k].slabs \in Seq(Ids)
    BY ItemType DEF IInv, IteratorsGood, ContentsRight
  <2>2. DOMAIN cached_item[k].slabs = 1 .. Need(latest[k])
    BY <2>1, FittingType DEF Holds
  <2>3. [i \in DOMAIN cached_item[k].slabs |-> slabs[cached_item[k].slabs[i]]] = Content(latest[k])
    BY <2>1, <2>2 DEF Holds, Content
  <2> QED
    BY <2>1, <2>3 DEF Holds, Copied
<1> QED
  BY <1>1, Invariance, PTL
=============================================================================
