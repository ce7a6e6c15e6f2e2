--------------------------- MODULE MogStoreProofs ---------------------------
(***************************************************************************)
(* Proofs about WriteBuffer, for any keys, contents, threads and sizes,    *)
(* and then about MogStore, which builds on it: the store drives the       *)
(* buffer as WriteBuffer's own specification allows, a file of which no    *)
(* read was cut short is replied as it is, and the files pass the HDD's    *)
(* budget by no more than one for each worker.                             *)
(***************************************************************************)
EXTENDS MogStore, FiniteSetTheorems, TLAPS

-----------------------------------------------------------------------------
(***************************************************************************)
(* Slabs                                                                   *)
(***************************************************************************)

\* The table of slab sizes, as numbers.
LEMMA SlabTable ==
    /\ slab_size \in [0 .. 10 -> Nat]
    /\ MaxLength = 1048576
    /\ \A t \in 0 .. 10 : slab_size[t] >= 1024 /\ slab_size[t] <= 1048576
    /\ \A t \in 0 .. 9 : slab_size[t] < slab_size[t + 1]
<1> DEFINE T == <<1024, 2048, 4096, 8192, 16384, 32768, 65536, 131072,
                  262144, 524288, 1048576>>
<1>1. ASSUME NEW t \in 0 .. 10
      PROVE  slab_size[t] \in Nat /\ slab_size[t] >= 1024 /\ slab_size[t] <= 1048576
  <2>1. slab_size[t] = T[t + 1]
    BY DEF slab_size
  <2>2. \/ t = 0 \/ t = 1 \/ t = 2 \/ t = 3 \/ t = 4 \/ t = 5
        \/ t = 6 \/ t = 7 \/ t = 8 \/ t = 9 \/ t = 10
    OBVIOUS
  <2>3. QED
    BY <2>1, <2>2
<1>2. slab_size[10] = 1048576
  BY DEF slab_size
<1>3. slab_size \in [0 .. 10 -> Nat]
  <2>1. slab_size = [t \in 0 .. 10 |-> slab_size[t]]
    BY DEF slab_size
  <2>2. QED
    BY <1>1, <2>1
<1>4. ASSUME NEW t \in 0 .. 9
      PROVE  slab_size[t] < slab_size[t + 1]
  <2>1. slab_size[t] = T[t + 1] /\ slab_size[t + 1] = T[t + 2]
    BY DEF slab_size
  <2>2. \/ t = 0 \/ t = 1 \/ t = 2 \/ t = 3 \/ t = 4
        \/ t = 5 \/ t = 6 \/ t = 7 \/ t = 8 \/ t = 9
    OBVIOUS
  <2>3. QED
    BY <2>1, <2>2
<1>5. QED
  BY <1>1, <1>2, <1>3, <1>4 DEF MaxLength

\* Every length that write() accepts has a slab, of 1 KB to 1 MB, and the
\* smallest that holds it.
LEMMA SlabRange ==
    ASSUME NEW length \in Nat, length <= MaxLength
    PROVE  /\ SlabType(length) \in 0 .. 10
           /\ SlabBytes(length) \in Nat
           /\ length <= SlabBytes(length)
           /\ 1024 <= SlabBytes(length)
           /\ SlabBytes(length) <= MaxLength
<1> DEFINE Fits(t) == /\ length <= slab_size[t]
                      /\ \A u \in 0 .. t - 1 : slab_size[u] < length
<1>1. \E t \in 0 .. 10 : Fits(t)
  <2> DEFINE S == slab_size
  <2>1. S[10] = MaxLength /\ \A t \in 0 .. 10 : S[t] \in Nat
    BY SlabTable DEF MaxLength
  <2>2. CASE length <= S[0]
    BY <2>2 DEF Fits
  <2>3. CASE \E t \in 0 .. 9 : S[t] < length /\ length <= S[t + 1]
    <3>1. PICK t \in 0 .. 9 : S[t] < length /\ length <= S[t + 1]
      BY <2>3
    <3>2. \A u \in 0 .. t : S[u] <= S[t]
      <4> HIDE DEF S
      <4>1. \A v \in 0 .. 9 : S[v] < S[v + 1]
        BY SlabTable DEF S
      <4>2. S[0] < S[1] /\ S[1] < S[2] /\ S[2] < S[3] /\ S[3] < S[4] /\ S[4] < S[5]
            /\ S[5] < S[6] /\ S[6] < S[7] /\ S[7] < S[8] /\ S[8] < S[9]
        BY <4>1
      <4>3. \/ t = 0 \/ t = 1 \/ t = 2 \/ t = 3 \/ t = 4
            \/ t = 5 \/ t = 6 \/ t = 7 \/ t = 8 \/ t = 9
        OBVIOUS
      <4>4. QED
        BY <2>1, <4>2, <4>3
    <3>3. Fits(t + 1)
      <4>1. ASSUME NEW u \in 0 .. (t + 1) - 1  PROVE S[u] < length
        BY <2>1, <3>1, <3>2
      <4>2. QED
        BY <3>1, <4>1 DEF Fits
    <3>4. QED
      BY <3>3 DEF Fits
  <2>4. CASE S[0] < length /\ \A t \in 0 .. 9 : ~(S[t] < length /\ length <= S[t + 1])
    <3> HIDE DEF S
    <3>1. S[1] < length /\ S[2] < length /\ S[3] < length /\ S[4] < length
          /\ S[5] < length
      BY <2>1, <2>4
    <3>2. S[6] < length /\ S[7] < length /\ S[8] < length /\ S[9] < length
          /\ S[10] < length
      BY <2>1, <2>4, <3>1
    <3>3. QED
      BY <2>1, <3>2, SlabTable
  <2>5. QED
    BY <2>1, <2>2, <2>3, <2>4
<1>2. SlabType(length) \in 0 .. 10 /\ Fits(SlabType(length))
  BY <1>1 DEF SlabType
<1>3. QED
  BY <1>2, SlabTable DEF SlabBytes
-----------------------------------------------------------------------------
(***************************************************************************)
(* Sums of a function over a finite set                                    *)
(***************************************************************************)

\* The terms of a sum, each as as many elements.
Units(f, S) == UNION {{x} \X (1 .. f[x]) : x \in S}

\* One more term.
LEMMA UnitsAdd ==
    ASSUME NEW f, NEW S, NEW d, d \notin S, f[d] \in Nat, IsFiniteSet(Units(f, S))
    PROVE  /\ IsFiniteSet(Units(f, S \cup {d}))
           /\ Cardinality(Units(f, S \cup {d})) = f[d] + Cardinality(Units(f, S))
<1> DEFINE U == Units(f, S)
           D == {d} \X (1 .. f[d])
<1>1. Units(f, S \cup {d}) = U \cup D
  BY DEF Units
<1>2. U \cap D = {}
  BY DEF Units
<1>3. IsFiniteSet(D) /\ Cardinality(D) = f[d]
  <2>1. IsFiniteSet({d}) /\ Cardinality({d}) = 1
    BY FS_Singleton
  <2>2. IsFiniteSet(1 .. f[d]) /\ Cardinality(1 .. f[d]) = IF 1 > f[d] THEN 0 ELSE f[d] - 1 + 1
    BY FS_Interval
  <2>3. IsFiniteSet(D) /\ Cardinality(D) = Cardinality({d}) * Cardinality(1 .. f[d])
    BY <2>1, <2>2, FS_Product
  <2> QED
    BY <2>1, <2>2, <2>3
<1> HIDE DEF U, D
<1>4. Cardinality(U) \in Nat
  BY FS_CardinalityType DEF U
<1>5. IsFiniteSet(U \cup D) /\ Cardinality(U \cup D) = Cardinality(U) + Cardinality(D) - Cardinality(U \cap D)
  BY <1>3, FS_Union DEF U
<1>6. Cardinality(U \cap D) = 0
  BY <1>2, FS_EmptySet
<1>7. Cardinality(U \cup D) = f[d] + Cardinality(U)
  BY <1>3, <1>4, <1>5, <1>6
<1> QED
  BY <1>1, <1>5, <1>7 DEF U

\* Units of terms that are numbers are finitely many.
LEMMA UnitsFinite ==
    ASSUME NEW S, IsFiniteSet(S), NEW f \in [S -> Nat], NEW T \in SUBSET S
    PROVE  IsFiniteSet(Units(f, T))
<1>1. IsFiniteSet(T)
  BY FS_Subset
<1> DEFINE B == {{x} \X (1 .. f[x]) : x \in T}
<1>2. IsFiniteSet(B)
  <2> DEFINE g == [x \in T |-> {x} \X (1 .. f[x])]
  <2>1. g \in Surjection(T, B)
    BY DEF Surjection
  <2> HIDE DEF g
  <2> QED
    BY <1>1, <2>1, FS_Surjection
<1>3. ASSUME NEW D \in B PROVE IsFiniteSet(D)
  <2>1. PICK x \in T : D = {x} \X (1 .. f[x])
    OBVIOUS
  <2>2. IsFiniteSet({x}) /\ f[x] \in Nat
    BY <2>1, FS_Singleton
  <2>3. IsFiniteSet(1 .. f[x])
    BY <2>2, FS_Interval
  <2> QED
    BY <2>1, <2>2, <2>3, FS_Product
<1>4. IsFiniteSet(UNION B)
  BY <1>2, <1>3, FS_UNION
<1> QED
  BY <1>4 DEF Units

\* A sum is the number of units.
LEMMA SumIsUnits ==
    ASSUME NEW S, IsFiniteSet(S), NEW f \in [S -> Nat]
    PROVE  SumFunction(f) = Cardinality(Units(f, S))
<1> DEFINE Any(T) == CHOOSE x \in T : TRUE
           Adds(g) == g = [T \in SUBSET S |-> IF T = {} THEN 0 ELSE f[Any(T)] + g[T \ {Any(T)}]]
           sum == CHOOSE g : Adds(g)
           count == [T \in SUBSET S |-> Cardinality(Units(f, T))]
<1>1. SumFunction(f) = sum[S]
  <2>1. DOMAIN f = S
    OBVIOUS
  <2>2. SumFunctionOnSet(f, S) = sum[S]
    BY Zenon DEF SumFunctionOnSet, FoldFunctionOnSet, MapThenFoldSet
  <2> QED
    BY <2>1, <2>2 DEF SumFunction
<1>2. ASSUME NEW T \in SUBSET S, T # {}
      PROVE  Any(T) \in T
  BY <1>2
<1> HIDE DEF Any
<1>3. ASSUME NEW T \in SUBSET S
      PROVE  count[T] = IF T = {} THEN 0 ELSE f[Any(T)] + count[T \ {Any(T)}]
  <2>1. CASE T = {}
    <3>1. Units(f, T) = {}
      BY <2>1 DEF Units
    <3> QED
      BY <2>1, <3>1, FS_EmptySet
  <2>2. CASE T # {}
    <3> DEFINE d == Any(T)
               R == T \ {d}
    <3>1. d \in T /\ f[d] \in Nat /\ R \in SUBSET S /\ d \notin R /\ R \cup {d} = T
      BY <2>2, <1>2
    <3>2. IsFiniteSet(Units(f, R))
      BY <3>1, UnitsFinite
    <3>3. Cardinality(Units(f, R \cup {d})) = f[d] + Cardinality(Units(f, R))
      BY <3>1, <3>2, UnitsAdd
    <3> QED
      BY <2>2, <3>1, <3>3
  <2> QED
    BY <2>1, <2>2
<1>4. Adds(count)
  <2>1. count = [T \in SUBSET S |-> count[T]]
    OBVIOUS
  <2> HIDE DEF count
  <2> QED
    BY <1>3, <2>1
<1>5. Adds(sum)
  BY <1>4
<1> HIDE DEF sum, count
<1>6. ASSUME NEW T \in SUBSET S PROVE sum[T] = count[T]
  <2> DEFINE Bad == {R \in SUBSET S : sum[R] # count[R]}
             Sizes == {Cardinality(R) : R \in Bad}
  <2>1. SUFFICES ASSUME Bad # {} PROVE FALSE
    OBVIOUS
  <2>2. ASSUME NEW R \in SUBSET S PROVE IsFiniteSet(R) /\ Cardinality(R) \in Nat
    BY FS_Subset, FS_CardinalityType
  <2>3. Sizes \subseteq Nat /\ Sizes # {}
    BY <2>1, <2>2
  <2>4. PICK n \in Sizes : \A m \in Sizes : ~ (<<m, n>> \in OpToRel(<, Nat))
    BY <2>3, NatLessThanWellFounded, WFMin
  <2>5. PICK R \in Bad : n = Cardinality(R)
    OBVIOUS
  <2>6. CASE R = {}
    BY <2>6, <1>4, <1>5
  <2>7. CASE R # {}
    <3> DEFINE Q == R \ {Any(R)}
    <3>1. Any(R) \in R /\ Q \in SUBSET S
      BY <2>7, <1>2
    <3>2. Cardinality(Q) = Cardinality(R) - 1
      BY <2>2, <3>1, FS_RemoveElement
    <3>3. sum[R] = f[Any(R)] + sum[Q] /\ count[R] = f[Any(R)] + count[Q]
      BY <2>7, <1>4, <1>5
    <3>4. Q \in Bad
      BY <2>5, <3>1, <3>3
    <3>5. Cardinality(Q) \in Nat /\ Cardinality(R) \in Nat
      BY <2>2, <3>1
    <3>6. <<Cardinality(Q), n>> \in OpToRel(<, Nat)
      BY <2>5, <3>2, <3>5 DEF OpToRel
    <3> QED
      BY <2>4, <3>4, <3>6
  <2> QED
    BY <2>6, <2>7
<1> QED
  BY <1>1, <1>6 DEF count

\* A sum is a number, and at most as many times the largest term as there are
\* terms.
LEMMA SumBounded ==
    ASSUME NEW S, IsFiniteSet(S), NEW f \in [S -> Nat]
    PROVE  /\ SumFunction(f) \in Nat
           /\ \A m \in Nat : (\A x \in S : f[x] <= m) => SumFunction(f) <= Cardinality(S) * m
<1>1. SumFunction(f) = Cardinality(Units(f, S)) /\ IsFiniteSet(Units(f, S))
  BY SumIsUnits, UnitsFinite
<1>2. SumFunction(f) \in Nat
  BY <1>1, FS_CardinalityType
<1>3. ASSUME NEW m \in Nat, \A x \in S : f[x] <= m
      PROVE  SumFunction(f) <= Cardinality(S) * m
  <2>1. Units(f, S) \subseteq S \X (1 .. m)
    BY <1>3 DEF Units
  <2>2. IsFiniteSet(1 .. m) /\ Cardinality(1 .. m) = m
    <3>1. Cardinality(1 .. m) = IF 1 > m THEN 0 ELSE m - 1 + 1
      BY FS_Interval
    <3>2. IsFiniteSet(1 .. m)
      BY FS_Interval
    <3> QED
      BY <3>1, <3>2
  <2>3. IsFiniteSet(S \X (1 .. m)) /\ Cardinality(S \X (1 .. m)) = Cardinality(S) * m
    BY <2>2, FS_Product
  <2> QED
    BY <1>1, <2>1, <2>3, FS_Subset
<1> QED
  BY <1>2, <1>3

\* A sum with one more term.
LEMMA SumAdd ==
    ASSUME NEW S, IsFiniteSet(S), NEW d, d \notin S,
           NEW f \in [S \cup {d} -> Nat], NEW g \in [S -> Nat], \A x \in S : f[x] = g[x]
    PROVE  SumFunction(f) = f[d] + SumFunction(g)
<1>1. IsFiniteSet(S \cup {d}) /\ f[d] \in Nat
  BY FS_AddElement
<1>2. Units(f, S) = Units(g, S)
  BY DEF Units
<1>3. IsFiniteSet(Units(f, S))
  BY <1>2, UnitsFinite
<1>4. Cardinality(Units(f, S \cup {d})) = f[d] + Cardinality(Units(f, S))
  BY <1>1, <1>3, UnitsAdd
<1> QED
  BY <1>1, <1>2, <1>4, SumIsUnits

\* A sum of no terms.
LEMMA SumOfNone == ASSUME NEW f \in [{} -> Nat] PROVE SumFunction(f) = 0
<1>1. IsFiniteSet({}) /\ Cardinality({}) = 0
  BY FS_EmptySet
<1>2. Units(f, {}) = {}
  BY DEF Units
<1> QED
  BY <1>1, <1>2, SumIsUnits
-----------------------------------------------------------------------------
(***************************************************************************)
(* The inductive invariant                                                 *)
(***************************************************************************)

\* Callers between the call and the insertion.
Entering == {w \in Workers : wpc[w] \in {"spin", "admitted"}}
Admitted == {w \in Workers : wpc[w] = "admitted"}
Active == {f \in Flushers : fpc[f] # "idle"}

\* The lock is held exactly by the caller that cuts or the flusher that writes.
LockHeld ==
    /\ \A w \in Workers : wpc[w] = "cutting" <=> wbuffer_lock = w
    /\ \A f \in Flushers : fpc[f] = "writing" <=> wbuffer_lock = f

\* Callers carry a legal entry; the bound leaves each of them a block.
CallersReady ==
    /\ \A w \in Entering : warg[w] \in Entries /\ Length[warg[w].value] <= MaxLength
    /\ latest_block_id + Cardinality(Entering) <= MaxBlocks

\* Entries in memory fit a slab and sit under their own hash.
StoreLegal ==
    /\ \A h \in Hashes : kv_store[h] # None =>
          Hash[kv_store[h].key] = h /\ Length[kv_store[h].value] <= MaxLength
    /\ \A b \in BlockIds : \A i \in DOMAIN blocks[b] :
          Length[blocks[b][i].value] <= MaxLength

\* A block is not yet cut, being cut, pending, held by one flusher, or closed.
BlockStages ==
    /\ \A b \in BlockIds : b > latest_block_id =>
          blocks[b] = <<>> /\ hdd[b] = <<>> /\ b \notin closed
    /\ \A b \in closed : blocks[b] = <<>>
    /\ \A i \in DOMAIN pending :
          pending[i] <= latest_block_id /\ hdd[pending[i]] = <<>> /\ pending[i] \notin closed
    /\ \A i, j \in DOMAIN pending : pending[i] = pending[j] => i = j
    /\ \A f \in Active :
          /\ fblk[f] \in 1 .. latest_block_id /\ fblk[f] \notin closed
          /\ \A i \in DOMAIN pending : pending[i] # fblk[f]
          /\ \A g \in Active : fblk[f] = fblk[g] => f = g
          /\ fpc[f] = "opened" => hdd[fblk[f]] = <<>>
    /\ \A w \in Workers : wpc[w] = "cutting" =>
          /\ latest_block_id \in BlockIds \ closed /\ hdd[latest_block_id] = <<>>
          /\ \A i \in DOMAIN pending : pending[i] # latest_block_id
          /\ \A f \in Active : fblk[f] # latest_block_id

\* NoneStranded as an inclusion each way.
StoreCovered == \A h \in Hashes : kv_store[h] # None => Queued(h) \/ InBlock(h)
QueuedNotInBlock ==
    \A j \in DOMAIN kv_list : \A b \in BlockIds : \A i \in Unwritten(b) :
        SlotHash(b, i) # kv_list[j]

\* total is the sum of the slabs of the entries that the hashes in q have in
\* store: there is a non-decreasing function of partial sums that says so.
SlabsOf(store, q, total) ==
    \E p \in [0 .. Len(q) -> Nat] :
        /\ p[0] = 0 /\ p[Len(q)] = total
        /\ \A i \in 1 .. Len(q) : p[i] = p[i - 1] + Slab(store[q[i]])
        /\ \A i, j \in 0 .. Len(q) : i <= j => p[i] <= p[j]

\* What the cutting loop keeps: what is in the block and what is in the queue
\* exceed a block together, and do not without the newest entry.
Cutting ==
    LET newest == Slab(kv_store[kv_list[Len(kv_list)]])
        sum == new_block_size + total_size_without_block
    IN  kv_list # <<>> /\ sum > BlockCap /\ sum - newest <= BlockCap

QueueSized ==
    /\ SlabsOf(kv_store, kv_list, total_size_without_block)
    /\ \A w \in Workers : wpc[w] = "cutting" => Cutting
    /\ (\A w \in Workers : wpc[w] # "cutting") => total_size_without_block <= BlockCap

\* Each admitted caller may still add one slab to a size that was within the
\* limit when it was tested.
Reserved ==
    total_size + MaxLength * Cardinality(Admitted)
        <= BufferLimit + MaxLength * Cardinality(Workers)

IInv ==
    /\ TypeOK /\ LockHeld /\ CallersReady /\ StoreLegal /\ BlockStages
    /\ FreedOnce /\ StoreCovered /\ QueuedNotInBlock /\ IndexSound
    /\ QueueSized /\ Reserved
-----------------------------------------------------------------------------
(***************************************************************************)
(* Lemmas about sizes and partial sums                                     *)
(***************************************************************************)

\* The two limits are numbers, and a block holds at least one slab.
LEMMA Limits == BlockCap \in Nat /\ MaxLength <= BlockCap /\ BufferLimit \in Int
<1>1. BlockCap \in Nat /\ MaxLength <= BlockCap
  BY SizeAssumption, SlabTable DEF BlockCap
<1>2. max_page_num \in Int
  BY SizeAssumption DEF max_page_num
<1>3. QED
  BY <1>1, <1>2 DEF BufferLimit, page_size

\* The slab of an entry that write() accepted.
LEMMA SlabOfEntry ==
    ASSUME NEW e \in Entries, Length[e.value] <= MaxLength
    PROVE  Slab(e) \in Nat /\ 1024 <= Slab(e) /\ Slab(e) <= MaxLength
<1>1. Length[e.value] \in Nat
  BY DataAssumption DEF Entries
<1>2. QED
  BY <1>1, SlabRange DEF Slab

\* A sum of slabs is a number, and at least its first term.
LEMMA SumHead ==
    ASSUME NEW store, NEW q \in Seq(Hashes), NEW n, SlabsOf(store, q, n),
           \A i \in DOMAIN q : Slab(store[q[i]]) \in Nat
    PROVE  /\ n \in Nat
           /\ q # <<>> => Slab(store[Head(q)]) <= n
           /\ Len(q) = 1 => n = Slab(store[Head(q)])
<1>1. PICK p \in [0 .. Len(q) -> Nat] :
          /\ p[0] = 0 /\ p[Len(q)] = n
          /\ \A i \in 1 .. Len(q) : p[i] = p[i - 1] + Slab(store[q[i]])
          /\ \A i, j \in 0 .. Len(q) : i <= j => p[i] <= p[j]
  BY DEF SlabsOf
<1>2. n \in Nat
  BY <1>1
<1>3. ASSUME q # <<>>
      PROVE  /\ p[1] = Slab(store[Head(q)]) /\ p[1] <= n
             /\ Len(q) = 1 => n = p[1]
  <2>1. Len(q) \in Nat /\ Len(q) >= 1 /\ Head(q) = q[1] /\ 1 \in DOMAIN q
    BY <1>3
  <2>2. p[1] = p[0] + Slab(store[q[1]])
    BY <1>1, <2>1
  <2>3. p[1] <= p[Len(q)]
    BY <1>1, <2>1
  <2>4. QED
    BY <1>1, <2>1, <2>2, <2>3
<1>4. QED
  BY <1>2, <1>3

\* More than one term: the sum is at least its first and its last term together.
LEMMA SumEnds ==
    ASSUME NEW store, NEW q \in Seq(Hashes), NEW n, SlabsOf(store, q, n), Len(q) > 1,
           \A i \in DOMAIN q : Slab(store[q[i]]) \in Nat
    PROVE  Slab(store[Head(q)]) + Slab(store[q[Len(q)]]) <= n
<1>1. PICK p \in [0 .. Len(q) -> Nat] :
          /\ p[0] = 0 /\ p[Len(q)] = n
          /\ \A i \in 1 .. Len(q) : p[i] = p[i - 1] + Slab(store[q[i]])
          /\ \A i, j \in 0 .. Len(q) : i <= j => p[i] <= p[j]
  BY DEF SlabsOf
<1>2. Len(q) \in Nat /\ Head(q) = q[1] /\ 1 \in DOMAIN q /\ Len(q) \in DOMAIN q
  OBVIOUS
<1>3. p[1] = p[0] + Slab(store[q[1]]) /\ p[Len(q)] = p[Len(q) - 1] + Slab(store[q[Len(q)]])
  BY <1>1, <1>2
<1>4. p[1] <= p[Len(q) - 1]
  BY <1>1, <1>2
<1>5. p[1] \in Nat /\ p[Len(q)] \in Nat /\ p[Len(q) - 1] \in Nat
  <2>1. 1 \in 0 .. Len(q) /\ Len(q) \in 0 .. Len(q) /\ Len(q) - 1 \in 0 .. Len(q)
    BY <1>2
  <2>2. QED
    BY <2>1
<1>6. QED
  BY <1>1, <1>2, <1>3, <1>4, <1>5

\* No entries, no bytes.
LEMMA SumEmpty == ASSUME NEW store PROVE SlabsOf(store, <<>>, 0)
<1> DEFINE p == [i \in 0 .. 0 |-> 0]
<1>1. Len(<<>>) = 0
  OBVIOUS
<1>2. p \in [0 .. 0 -> Nat] /\ p[0] = 0
  OBVIOUS
<1>3. \A i, j \in 0 .. 0 : p[i] <= p[j]
  OBVIOUS
<1> HIDE DEF p
<1>4. QED
  BY <1>1, <1>2, <1>3 DEF SlabsOf

\* The sum depends on the entries of the queue only.
LEMMA SumStore ==
    ASSUME NEW store, NEW store2, NEW q, NEW n, SlabsOf(store, q, n),
           \A i \in 1 .. Len(q) : store2[q[i]] = store[q[i]]
    PROVE  SlabsOf(store2, q, n)
<1>1. PICK p \in [0 .. Len(q) -> Nat] :
          /\ p[0] = 0 /\ p[Len(q)] = n
          /\ \A i \in 1 .. Len(q) : p[i] = p[i - 1] + Slab(store[q[i]])
          /\ \A i, j \in 0 .. Len(q) : i <= j => p[i] <= p[j]
  BY DEF SlabsOf
<1>2. \A i \in 1 .. Len(q) : p[i] = p[i - 1] + Slab(store2[q[i]])
  BY <1>1
<1>3. QED
  BY <1>1, <1>2 DEF SlabsOf

\* Appending an entry adds its slab.
LEMMA SumAppend ==
    ASSUME NEW store, NEW store2, NEW q \in Seq(Hashes), NEW n, SlabsOf(store, q, n),
           \A i \in DOMAIN q : store2[q[i]] = store[q[i]],
           NEW h \in Hashes, Slab(store2[h]) \in Nat
    PROVE  SlabsOf(store2, Append(q, h), n + Slab(store2[h]))
<1>1. PICK p \in [0 .. Len(q) -> Nat] :
          /\ p[0] = 0 /\ p[Len(q)] = n
          /\ \A i \in 1 .. Len(q) : p[i] = p[i - 1] + Slab(store[q[i]])
          /\ \A i, j \in 0 .. Len(q) : i <= j => p[i] <= p[j]
  BY DEF SlabsOf
<1> DEFINE q2 == Append(q, h)
           m == n + Slab(store2[h])
           p2 == [i \in 0 .. Len(q2) |-> IF i <= Len(q) THEN p[i] ELSE m]
<1>2. Len(q) \in Nat /\ Len(q2) = Len(q) + 1 /\ q2[Len(q2)] = h /\ n \in Nat
      /\ \A i \in 1 .. Len(q) : q2[i] = q[i] /\ i \in DOMAIN q
  BY <1>1
<1>3. m \in Nat /\ n <= m
  BY <1>2
<1>4. p2 \in [0 .. Len(q2) -> Nat] /\ p2[0] = 0 /\ p2[Len(q2)] = m
  <2> HIDE DEF q2, m
  <2>1. QED
    BY <1>1, <1>2, <1>3
<1>5. ASSUME NEW i \in 1 .. Len(q2)
      PROVE  p2[i] = p2[i - 1] + Slab(store2[q2[i]])
  <2>1. CASE i <= Len(q)
    <3>1. i \in 1 .. Len(q) /\ p2[i] = p[i] /\ p2[i - 1] = p[i - 1]
      BY <1>2, <2>1
    <3>2. store2[q2[i]] = store[q[i]]
      BY <1>2, <3>1
    <3>3. QED
      BY <1>1, <3>1, <3>2
  <2>2. CASE i = Len(q2)
    <3>1. p2[i] = m /\ q2[i] = h
      BY <1>2, <1>4, <2>2
    <3>2. i - 1 \in 0 .. Len(q2) /\ i - 1 = Len(q)
      BY <1>2, <2>2
    <3>3. p2[i - 1] = p[Len(q)]
      BY <3>2
    <3>4. QED
      BY <1>1, <3>1, <3>3
  <2>3. QED
    BY <1>2, <2>1, <2>2
<1>6. ASSUME NEW i \in 0 .. Len(q2), NEW j \in 0 .. Len(q2), i <= j
      PROVE  p2[i] <= p2[j]
  <2> HIDE DEF q2, m
  <2>1. CASE j <= Len(q)
    BY <1>1, <1>2, <1>6, <2>1
  <2>2. CASE i <= Len(q) /\ j = Len(q2)
    <3>1. p[i] <= p[Len(q)]
      BY <1>1, <1>2, <2>2
    <3>2. p[i] \in Nat /\ p2[i] = p[i] /\ p2[j] = m
      BY <1>1, <1>2, <1>4, <2>2
    <3>3. QED
      BY <1>1, <1>2, <1>3, <3>1, <3>2
  <2>3. CASE i = Len(q2) /\ j = Len(q2)
    BY <1>3, <1>4, <2>3
  <2>4. QED
    BY <1>2, <1>6, <2>1, <2>2, <2>3
<1>7. QED
  BY <1>4, <1>5, <1>6 DEF SlabsOf

\* Removing the front takes its slab away.
LEMMA SumTail ==
    ASSUME NEW store, NEW q \in Seq(Hashes), NEW n, SlabsOf(store, q, n), q # <<>>,
           \A i \in DOMAIN q : Slab(store[q[i]]) \in Nat
    PROVE  SlabsOf(store, Tail(q), n - Slab(store[Head(q)]))
<1>1. PICK p \in [0 .. Len(q) -> Nat] :
          /\ p[0] = 0 /\ p[Len(q)] = n
          /\ \A i \in 1 .. Len(q) : p[i] = p[i - 1] + Slab(store[q[i]])
          /\ \A i, j \in 0 .. Len(q) : i <= j => p[i] <= p[j]
  BY DEF SlabsOf
<1> DEFINE q2 == Tail(q)
           a == Slab(store[Head(q)])
           p2 == [i \in 0 .. Len(q2) |-> p[i + 1] - a]
<1>2. Len(q) \in Nat /\ Len(q) >= 1 /\ Len(q2) = Len(q) - 1 /\ Len(q2) \in Nat
      /\ Head(q) = q[1] /\ 1 \in DOMAIN q
      /\ \A i \in 1 .. Len(q2) : q2[i] = q[i + 1]
  OBVIOUS
<1>3. p[1] = a /\ a \in Nat
  BY <1>1, <1>2
<1> HIDE DEF q2, a
<1>4. ASSUME NEW i \in 0 .. Len(q2)
      PROVE  p[i + 1] \in Nat /\ a <= p[i + 1] /\ p2[i] = p[i + 1] - a /\ p2[i] \in Nat
  BY <1>1, <1>2, <1>3
<1>5. p2 \in [0 .. Len(q2) -> Nat] /\ p2[0] = 0 /\ p2[Len(q2)] = n - a
  BY <1>1, <1>2, <1>3, <1>4
<1>6. ASSUME NEW i \in 1 .. Len(q2)
      PROVE  p2[i] = p2[i - 1] + Slab(store[q2[i]])
  <2>1. p[i + 1] = p[i] + Slab(store[q[i + 1]]) /\ i + 1 \in DOMAIN q
    BY <1>1, <1>2
  <2>2. p2[i] = p[i + 1] - a /\ p2[i - 1] = p[i] - a /\ p[i] \in Nat
    <3>1. i \in 0 .. Len(q2) /\ i - 1 \in 0 .. Len(q2) /\ (i - 1) + 1 = i
      BY <1>2
    <3>2. QED
      BY <1>4, <3>1
  <2>3. Slab(store[q2[i]]) \in Nat /\ q2[i] = q[i + 1]
    BY <1>2, <2>1
  <2>4. QED
    BY <1>3, <2>1, <2>2, <2>3
<1>7. ASSUME NEW i \in 0 .. Len(q2), NEW j \in 0 .. Len(q2), i <= j
      PROVE  p2[i] <= p2[j]
  BY <1>1, <1>2, <1>3, <1>4, <1>7
<1>8. QED
  BY <1>5, <1>6, <1>7 DEF SlabsOf, q2, a
-----------------------------------------------------------------------------
(***************************************************************************)
(* The steps of a caller                                                   *)
(***************************************************************************)

\* The sets of callers are finite and ordered by size as by inclusion.
LEMMA CallersFinite ==
    /\ \A S, T \in SUBSET Workers : S \subseteq T => Cardinality(S) <= Cardinality(T)
    /\ \A S \in SUBSET Workers : IsFiniteSet(S) /\ Cardinality(S) \in Nat
    /\ \A S \in SUBSET Workers : \A w \in Workers :
          /\ w \notin S => Cardinality(S \cup {w}) = Cardinality(S) + 1
          /\ w \in S => Cardinality(S \ {w}) = Cardinality(S) - 1
<1>1. ASSUME NEW S \in SUBSET Workers
      PROVE  IsFiniteSet(S) /\ Cardinality(S) \in Nat
  BY ThreadAssumption, FS_Subset, FS_CardinalityType
<1>2. ASSUME NEW S \in SUBSET Workers, NEW T \in SUBSET Workers, S \subseteq T
      PROVE  Cardinality(S) <= Cardinality(T)
  BY <1>1, <1>2, FS_Subset
<1>3. ASSUME NEW S \in SUBSET Workers, NEW w \in Workers, w \notin S
      PROVE  Cardinality(S \cup {w}) = Cardinality(S) + 1
  BY <1>1, <1>3, FS_AddElement
<1>4. ASSUME NEW S \in SUBSET Workers, NEW w \in Workers, w \in S
      PROVE  Cardinality(S \ {w}) = Cardinality(S) - 1
  BY <1>1, <1>4, FS_RemoveElement
<1>5. QED
  BY <1>1, <1>2, <1>3, <1>4

\* What an entry's slot and lookups mean does not change with variables they
\* do not read.
LEMMA SameData ==
    ASSUME UNCHANGED <<kv_store, kv_list, blocks, hdd, index>>
    PROVE  /\ FreedOnce => FreedOnce'
           /\ StoreCovered => StoreCovered'
           /\ QueuedNotInBlock => QueuedNotInBlock'
           /\ IndexSound => IndexSound'
           /\ StoreLegal => StoreLegal'
<1>1. \A b \in BlockIds : Unwritten(b)' = Unwritten(b)
          /\ \A i : SlotHash(b, i)' = SlotHash(b, i)
  BY DEF Unwritten, SlotHash
<1>2. \A h : Queued(h)' = Queued(h) /\ InBlock(h)' = InBlock(h)
  BY <1>1 DEF Queued, InBlock
<1>3. QED
  BY <1>1, <1>2 DEF FreedOnce, StoreCovered, QueuedNotInBlock, IndexSound, StoreLegal

\* Reading the queue's size does not change with the rest of the state.
LEMMA SameQueue ==
    ASSUME UNCHANGED <<kv_store, kv_list, total_size_without_block, new_block_size>>,
           \A w \in Workers : wpc'[w] = "cutting" <=> wpc[w] = "cutting",
           QueueSized
    PROVE  QueueSized'
BY DEF QueueSized, SlabsOf, Cutting

\* A new call only adds a caller, whose room the bound on blocks keeps free.
LEMMA CallStep ==
    ASSUME IInv, NEW w \in Workers, NEW k \in Keys, NEW v \in Values, Call(w, k, v)
    PROVE  IInv'
<1> USE DEF IInv
<1>1. TypeOK'
  BY DEF Call, TypeOK, Entries, buffer, flushers, disk
<1>2. LockHeld' /\ BlockStages'
  BY DEF Call, TypeOK, LockHeld, BlockStages, Active, buffer, flushers, disk
<1>3. CallersReady'
  <2>1. Entering' = Entering \cup {w} /\ w \notin Entering /\ Entering \subseteq Busy
        /\ Busy \subseteq Workers
    BY DEF Call, TypeOK, Entering, Busy
  <2>2. Cardinality(Entering') = Cardinality(Entering) + 1
        /\ Cardinality(Entering) <= Cardinality(Busy)
        /\ Cardinality(Entering) \in Nat /\ Cardinality(Busy) \in Nat
    BY <2>1, CallersFinite
  <2>3. latest_block_id' + Cardinality(Entering') <= MaxBlocks
    BY <2>2, SizeAssumption DEF Call, TypeOK, buffer
  <2>4. ASSUME NEW u \in Entering'
        PROVE  warg'[u] \in Entries /\ Length[warg'[u].value] <= MaxLength
    BY <2>1 DEF Call, TypeOK, CallersReady, Entries
  <2>5. QED
    BY <2>3, <2>4 DEF CallersReady
<1>4. FreedOnce' /\ StoreCovered' /\ QueuedNotInBlock' /\ IndexSound' /\ StoreLegal'
  BY SameData DEF Call, buffer, disk
<1>5. QueueSized'
  BY SameQueue DEF Call, TypeOK, buffer
<1>6. Reserved'
  <2>1. Admitted' = Admitted
    BY DEF Call, TypeOK, Admitted
  <2>2. QED
    BY <2>1 DEF Call, Reserved, buffer
<1>7. QED
  BY <1>1, <1>2, <1>3, <1>4, <1>5, <1>6

\* A caller leaves the first spin loop of write(): the size it saw is within the
\* limit, so it may still add one slab.
LEMMA AdmitStep ==
    ASSUME IInv, NEW w \in Workers, Admit(w)
    PROVE  IInv'
<1> USE DEF IInv
<1>1. TypeOK'
  BY DEF Admit, TypeOK, buffer, flushers, disk
<1>2. LockHeld' /\ BlockStages'
  BY DEF Admit, TypeOK, LockHeld, BlockStages, Active, buffer, flushers, disk
<1>3. CallersReady'
  <2>1. Entering' = Entering
    BY DEF Admit, TypeOK, Entering
  <2>2. QED
    BY <2>1 DEF Admit, CallersReady, buffer
<1>4. FreedOnce' /\ StoreCovered' /\ QueuedNotInBlock' /\ IndexSound' /\ StoreLegal'
  BY SameData DEF Admit, buffer, disk
<1>5. QueueSized'
  BY SameQueue DEF Admit, TypeOK, buffer
<1>6. Reserved'
  <2>1. Admitted' \subseteq Workers
    BY DEF Admitted
  <2>2. Cardinality(Admitted') <= Cardinality(Workers)
        /\ Cardinality(Admitted') \in Nat /\ Cardinality(Workers) \in Nat
    BY <2>1, CallersFinite
  <2>3. total_size' <= BufferLimit /\ total_size' \in Int
    BY <1>1 DEF Admit, buffer, TypeOK
  <2>4. QED
    BY <2>2, <2>3, SlabTable, Limits, SMT DEF Reserved
<1>7. QED
  BY <1>1, <1>2, <1>3, <1>4, <1>5, <1>6

\* A call that finds its hash present changes nothing and is over.
LEMMA RejectStep ==
    ASSUME IInv, NEW w \in Workers, Reject(w)
    PROVE  IInv'
<1> USE DEF IInv
<1>1. TypeOK'
  BY DEF Reject, TypeOK, buffer, flushers, disk
<1>2. LockHeld' /\ BlockStages'
  BY DEF Reject, TypeOK, LockHeld, BlockStages, Active, buffer, flushers, disk
<1>3. Entering' = Entering \ {w} /\ w \in Entering /\ Entering \subseteq Workers
      /\ Admitted' = Admitted \ {w} /\ w \in Admitted /\ Admitted \subseteq Workers
  BY DEF Reject, TypeOK, Entering, Admitted
<1>4. CallersReady'
  <2>1. Cardinality(Entering') = Cardinality(Entering) - 1 /\ Cardinality(Entering) \in Nat
    BY <1>3, CallersFinite
  <2>2. latest_block_id' = latest_block_id /\ latest_block_id \in Nat
    BY DEF Reject, TypeOK, buffer
  <2>3. latest_block_id' + Cardinality(Entering') <= MaxBlocks
    BY <2>1, <2>2, SizeAssumption DEF CallersReady
  <2>4. QED
    BY <1>3, <2>3 DEF Reject, TypeOK, CallersReady
<1>5. FreedOnce' /\ StoreCovered' /\ QueuedNotInBlock' /\ IndexSound' /\ StoreLegal'
  BY SameData DEF Reject, buffer, disk
<1>6. QueueSized'
  BY SameQueue DEF Reject, TypeOK, buffer
<1>7. Reserved'
  <2>1. Cardinality(Admitted') = Cardinality(Admitted) - 1
        /\ Cardinality(Admitted) \in Nat /\ Cardinality(Workers) \in Nat
    BY <1>3, CallersFinite
  <2>2. total_size' = total_size /\ total_size \in Int
    BY DEF Reject, TypeOK, buffer
  <2>3. QED
    BY <2>1, <2>2, SlabTable, Limits, SMT DEF Reserved
<1>8. QED
  BY <1>1, <1>2, <1>4, <1>5, <1>6, <1>7

\* An unwritten slot holds an entry, and that entry is alive.
LEMMA SlotEntry ==
    ASSUME TypeOK, FreedOnce, NEW b \in BlockIds, NEW i \in Unwritten(b)
    PROVE  /\ i \in DOMAIN blocks[b] /\ i \in Nat \ {0}
           /\ blocks[b][i] \in Entries
           /\ SlotHash(b, i) \in Hashes
           /\ kv_store[SlotHash(b, i)] = blocks[b][i]
           /\ kv_store[SlotHash(b, i)] # None
<1>1. blocks[b] \in Seq(Entries) /\ hdd[b] \in Seq(Entries)
  BY DEF TypeOK
<1>2. i \in DOMAIN blocks[b] /\ i \in Nat \ {0}
  BY <1>1 DEF Unwritten
<1>3. blocks[b][i] \in Entries
  BY <1>1, <1>2
<1>4. blocks[b][i].key \in Keys /\ blocks[b][i] # None
  BY <1>3, NoneAssumption DEF Entries
<1>5. QED
  BY <1>2, <1>3, <1>4, DataAssumption DEF SlotHash, FreedOnce

\* Two unwritten slots hold entries of two hashes.
LEMMA SlotsDiffer ==
    ASSUME FreedOnce, NEW b \in BlockIds, NEW c \in BlockIds,
           NEW i \in Unwritten(b), NEW j \in Unwritten(c), SlotHash(b, i) = SlotHash(c, j)
    PROVE  b = c /\ i = j
BY DEF FreedOnce

\* Every queued hash has an entry, which has a slab.
LEMMA QueueEntry ==
    ASSUME TypeOK, FreedOnce, StoreLegal, NEW i \in DOMAIN kv_list
    PROVE  /\ kv_list[i] \in Hashes
           /\ kv_store[kv_list[i]] \in Entries
           /\ Slab(kv_store[kv_list[i]]) \in Nat
           /\ 1024 <= Slab(kv_store[kv_list[i]])
           /\ Slab(kv_store[kv_list[i]]) <= MaxLength
<1>1. kv_list[i] \in Hashes
  BY DEF TypeOK
<1>2. kv_store[kv_list[i]] \in Entries
  BY <1>1 DEF TypeOK, FreedOnce
<1>3. Length[kv_store[kv_list[i]].value] <= MaxLength
  BY <1>1 DEF FreedOnce, StoreLegal
<1>4. QED
  BY <1>1, <1>2, <1>3, SlabOfEntry

\* Blocks that wait for a flusher have ids within the bound.
LEMMA PendingIds ==
    ASSUME TypeOK, NEW i \in DOMAIN pending
    PROVE  pending[i] \in BlockIds /\ pending[i] \in Nat
<1>1. pending \in Seq(BlockIds)
  BY DEF TypeOK
<1>2. pending[i] \in BlockIds
  BY <1>1
<1>3. QED
  BY <1>2, SizeAssumption DEF BlockIds

\* An admitted caller spends its reserve.
LEMMA ReservedSpent ==
    ASSUME NEW t \in Int, NEW s \in Nat, s <= MaxLength, NEW c \in Nat, NEW n \in Nat,
           t + MaxLength * c <= BufferLimit + MaxLength * n
    PROVE  (t + s) + MaxLength * (c - 1) <= BufferLimit + MaxLength * n
BY SlabTable, Limits, SMT

\* An accepted call adds its entry to table, queue and both sizes, and if the
\* queue exceeds a block it starts a cut under the lock.
LEMMA InsertStep ==
    ASSUME IInv, NEW w \in Workers, Insert(w)
    PROVE  IInv'
<1> DEFINE e == warg[w]
           h == Hash[e.key]
           cut == total_size_without_block + Slab(e) > BlockCap
<1> USE DEF IInv
<1>1. /\ w \in Entering /\ Entering \subseteq Workers
      /\ w \in Admitted /\ Admitted \subseteq Workers
  BY DEF Insert, Entering, Admitted
<1>2. e \in Entries /\ Length[e.value] <= MaxLength /\ h \in Hashes /\ e # None
  <2>1. e \in Entries /\ Length[e.value] <= MaxLength
    BY <1>1 DEF CallersReady
  <2>2. QED
    BY <2>1, DataAssumption, NoneAssumption DEF Entries
<1>3. Slab(e) \in Nat /\ 1024 <= Slab(e) /\ Slab(e) <= MaxLength
  BY <1>2, SlabOfEntry
<1>4. /\ \A u \in Workers : wpc[u] # "cutting"
      /\ \A f \in Flushers : fpc[f] # "writing"
  BY ThreadAssumption DEF Insert, LockHeld
<1>5. /\ kv_store[h] = None /\ kv_store' = [kv_store EXCEPT ![h] = e]
      /\ kv_list' = Append(kv_list, h)
      /\ total_size' = total_size + Slab(e)
      /\ total_size_without_block' = total_size_without_block + Slab(e)
      /\ latest_block_id' = IF cut THEN latest_block_id + 1 ELSE latest_block_id
      /\ new_block_size' = 0
      /\ wbuffer_lock = None /\ wbuffer_lock' = IF cut THEN w ELSE None
      /\ wpc[w] = "admitted"
      /\ wpc' = [wpc EXCEPT ![w] = IF cut THEN "cutting" ELSE "idle"]
      /\ warg' = [warg EXCEPT ![w] = None]
      /\ UNCHANGED <<blocks, pending, fpc, fblk, flushed_size, hdd, closed, index>>
  BY DEF Insert, flushers, disk
<1>6. /\ Entering' = Entering \ {w} /\ Admitted' = Admitted \ {w}
      /\ Cardinality(Entering') = Cardinality(Entering) - 1
      /\ Cardinality(Entering) \in Nat /\ Cardinality(Entering') \in Nat
      /\ Cardinality(Admitted') = Cardinality(Admitted) - 1
      /\ Cardinality(Admitted) \in Nat
  <2>1. Entering' = Entering \ {w} /\ Admitted' = Admitted \ {w}
    BY <1>5 DEF TypeOK, Entering, Admitted
  <2>2. QED
    BY <1>1, <2>1, CallersFinite
<1>7. latest_block_id \in Nat /\ latest_block_id' \in 0 .. MaxBlocks
      /\ latest_block_id' + Cardinality(Entering') <= MaxBlocks
      /\ latest_block_id <= latest_block_id'
  <2>1. latest_block_id \in Nat /\ latest_block_id + Cardinality(Entering) <= MaxBlocks
    BY DEF TypeOK, CallersReady
  <2>2. QED
    BY <1>5, <1>6, <2>1, SizeAssumption
<1>8. TypeOK'
  <2>1. kv_store' \in [Hashes -> Entries \cup {None}] /\ kv_list' \in Seq(Hashes)
    BY <1>2, <1>5 DEF TypeOK
  <2>2. total_size' \in Int /\ total_size_without_block' \in Int
    BY <1>3, <1>5 DEF TypeOK
  <2>3. /\ wbuffer_lock' \in Workers \cup Flushers \cup {None}
        /\ wpc' \in [Workers -> {"idle", "spin", "admitted", "cutting"}]
        /\ warg' \in [Workers -> Entries \cup {None}]
    BY <1>5 DEF TypeOK
  <2>4. QED
    BY <1>5, <1>7, <2>1, <2>2, <2>3 DEF TypeOK
<1>9. LockHeld'
  BY <1>4, <1>5, ThreadAssumption DEF TypeOK, LockHeld
<1>10. CallersReady'
  BY <1>5, <1>6, <1>7 DEF TypeOK, CallersReady
<1>11. StoreLegal'
  BY <1>2, <1>5 DEF TypeOK, StoreLegal
<1>12. BlockStages'
  <2>1. Active' = Active
    BY <1>5 DEF Active
  <2>2. \A b \in BlockIds : b > latest_block_id' =>
            b > latest_block_id
    BY <1>7 DEF BlockIds
  <2>3. \A u \in Workers : wpc'[u] = "cutting" => cut
    BY <1>4, <1>5 DEF TypeOK
  <2>4. cut => latest_block_id' = latest_block_id + 1 /\ latest_block_id' \in BlockIds
               /\ latest_block_id' > latest_block_id
    BY <1>5, <1>7, SizeAssumption DEF BlockIds
  <2>5. /\ \A i \in DOMAIN pending' :
             /\ pending'[i] <= latest_block_id' /\ hdd'[pending'[i]] = <<>>
             /\ pending'[i] \notin closed'
        /\ \A f \in Active : fblk'[f] \in 1 .. latest_block_id'
    <3>1. \A i \in DOMAIN pending : pending[i] \in Nat
      BY PendingIds
    <3>2. QED
      BY <1>5, <1>7, <3>1 DEF BlockStages
  <2>6. cut => /\ latest_block_id' \in BlockIds \ closed' /\ hdd'[latest_block_id'] = <<>>
               /\ \A i \in DOMAIN pending' : pending'[i] # latest_block_id'
               /\ \A f \in Active' : fblk'[f] # latest_block_id'
    <3>1. \A i \in DOMAIN pending : pending[i] \in Nat /\ pending[i] <= latest_block_id
      BY PendingIds DEF BlockStages
    <3>2. \A f \in Active : fblk[f] \in 1 .. latest_block_id
      BY DEF BlockStages
    <3>3. QED
      BY <1>5, <1>7, <2>1, <2>4, <3>1, <3>2 DEF BlockStages
  <2>7. QED
    BY <1>5, <2>1, <2>2, <2>3, <2>5, <2>6 DEF BlockStages
<1>13. /\ \A b \in BlockIds : Unwritten(b)' = Unwritten(b)
       /\ \A b, i : SlotHash(b, i)' = SlotHash(b, i)
  BY <1>5 DEF Unwritten, SlotHash
<1>14. /\ Len(kv_list') = Len(kv_list) + 1 /\ Len(kv_list) \in Nat
       /\ DOMAIN kv_list' = 1 .. Len(kv_list) + 1 /\ DOMAIN kv_list = 1 .. Len(kv_list)
       /\ kv_list'[Len(kv_list) + 1] = h
       /\ \A i \in DOMAIN kv_list : kv_list'[i] = kv_list[i] /\ kv_list[i] \in Hashes
  BY <1>2, <1>5 DEF TypeOK
<1>15. \A i \in DOMAIN kv_list : kv_list[i] # h
  BY <1>5 DEF FreedOnce
<1>16. \A b \in BlockIds : \A i \in Unwritten(b) : SlotHash(b, i) # h
  BY <1>5, SlotEntry
<1>17. \A g \in Hashes : g # h => kv_store'[g] = kv_store[g]
  BY <1>5 DEF TypeOK
<1>18. kv_store'[h] = e
  BY <1>2, <1>5 DEF TypeOK
<1>19. FreedOnce'
  <2>1. ASSUME NEW i \in DOMAIN kv_list'
        PROVE  kv_store'[kv_list'[i]] # None
    BY <1>2, <1>14, <1>15, <1>17, <1>18 DEF FreedOnce
  <2>2. ASSUME NEW i \in DOMAIN kv_list', NEW j \in DOMAIN kv_list',
               kv_list'[i] = kv_list'[j]
        PROVE  i = j
    BY <1>14, <1>15, <2>2 DEF FreedOnce
  <2>3. ASSUME NEW b \in BlockIds, NEW i \in Unwritten(b)
        PROVE  kv_store'[SlotHash(b, i)] = blocks[b][i]
    BY <1>16, <1>17, SlotEntry
  <2>4. QED
    BY <1>5, <1>13, <2>1, <2>2, <2>3 DEF FreedOnce
<1>20. StoreCovered'
  <2>1. ASSUME NEW g \in Hashes, kv_store'[g] # None
        PROVE  Queued(g)' \/ InBlock(g)'
    <3>1. CASE g = h
      BY <1>14, <3>1 DEF Queued
    <3>2. CASE g # h
      <4>1. Queued(g) \/ InBlock(g)
        BY <1>17, <2>1, <3>2 DEF StoreCovered
      <4>2. QED
        BY <1>13, <1>14, <4>1 DEF Queued, InBlock
    <3>3. QED
      BY <3>1, <3>2
  <2>2. QED
    BY <2>1 DEF StoreCovered
<1>21. QueuedNotInBlock'
  BY <1>13, <1>14, <1>16 DEF QueuedNotInBlock
<1>22. IndexSound'
  BY <1>5 DEF IndexSound
<1>23. QueueSized'
  <2>1. \A i \in DOMAIN kv_list : kv_store'[kv_list[i]] = kv_store[kv_list[i]]
    BY <1>14, <1>15, <1>17
  <2>2. SlabsOf(kv_store', kv_list', total_size_without_block')
    <3>1. kv_list \in Seq(Hashes)
      BY DEF TypeOK
    <3>2. SlabsOf(kv_store, kv_list, total_size_without_block)
      BY DEF QueueSized
    <3>3. SlabsOf(kv_store', Append(kv_list, h),
                  total_size_without_block + Slab(kv_store'[h]))
      BY <1>2, <1>3, <1>18, <2>1, <3>1, <3>2, SumAppend
    <3>4. QED
      BY <1>5, <1>18, <3>3
  <2>3. total_size_without_block \in Int /\ total_size_without_block <= BlockCap
    BY <1>4 DEF TypeOK, QueueSized
  <2>4. cut => Cutting'
    <3>1. kv_store'[kv_list'[Len(kv_list')]] = e /\ kv_list' # <<>>
      BY <1>14, <1>18
    <3>2. QED
      BY <1>3, <1>5, <2>3, <3>1, Limits DEF Cutting
  <2>5. ~cut => /\ \A u \in Workers : wpc'[u] # "cutting"
                /\ total_size_without_block' <= BlockCap
    BY <1>3, <1>4, <1>5, <2>3, Limits DEF TypeOK
  <2>6. cut => wpc'[w] = "cutting"
    BY <1>5 DEF TypeOK
  <2>7. SlabsOf(kv_store, kv_list, total_size_without_block)'
    BY <2>2 DEF SlabsOf, Slab
  <2>8. QED
    BY <2>4, <2>5, <2>6, <2>7 DEF QueueSized
<1>24. Reserved'
  <2>1. total_size \in Int /\ Cardinality(Workers) \in Nat
    BY CallersFinite DEF TypeOK
  <2>2. QED
    BY <1>3, <1>5, <1>6, <2>1, ReservedSpent DEF Reserved
<1>25. QED
  BY <1>8, <1>9, <1>10, <1>11, <1>12, <1>19, <1>20, <1>21, <1>22, <1>23, <1>24

\* The cutter finds at least two entries when the front fits, exactly one when
\* it does not.
LEMMA CutterSees ==
    ASSUME IInv, NEW w \in Workers, wpc[w] = "cutting"
    PROVE  /\ kv_list # <<>> /\ kv_list \in Seq(Hashes) /\ Len(kv_list) \in Nat
           /\ FrontFits => Len(kv_list) > 1
           /\ ~FrontFits => Len(kv_list) = 1
           /\ ~FrontFits => total_size_without_block <= BlockCap
<1> DEFINE first == Slab(kv_store[Head(kv_list)])
           newest == Slab(kv_store[kv_list[Len(kv_list)]])
<1>1. kv_list \in Seq(Hashes) /\ new_block_size \in Nat /\ total_size_without_block \in Int
  BY DEF IInv, TypeOK
<1>2. /\ kv_list # <<>>
      /\ new_block_size + total_size_without_block > BlockCap
      /\ (new_block_size + total_size_without_block) - newest <= BlockCap
  BY DEF IInv, QueueSized, Cutting
<1>3. Len(kv_list) \in Nat /\ Len(kv_list) >= 1 /\ Head(kv_list) = kv_list[1]
      /\ 1 \in DOMAIN kv_list /\ Len(kv_list) \in DOMAIN kv_list
  BY <1>1, <1>2
<1>4. \A i \in DOMAIN kv_list : Slab(kv_store[kv_list[i]]) \in Nat
  BY QueueEntry DEF IInv
<1>5. first \in Nat /\ newest \in Nat /\ first <= MaxLength
  BY <1>3, QueueEntry DEF IInv
<1>6. SlabsOf(kv_store, kv_list, total_size_without_block)
  BY DEF IInv, QueueSized
<1>7. Len(kv_list) = 1 => total_size_without_block = first
  BY <1>1, <1>2, <1>4, <1>6, SumHead
<1>8. Len(kv_list) > 1 => first + newest <= total_size_without_block
  BY <1>1, <1>4, <1>6, SumEnds
<1>9. FrontFits <=> new_block_size + first <= BlockCap
  BY DEF FrontFits
<1> HIDE DEF first, newest
<1>10. MaxLength \in Nat
  BY SlabTable, SMT
<1>11. BlockCap \in Nat /\ MaxLength <= BlockCap
  BY Limits
<1>12. FrontFits => Len(kv_list) # 1
  <2>1. ASSUME FrontFits, Len(kv_list) = 1  PROVE FALSE
    <3>1. total_size_without_block = first /\ new_block_size + first <= BlockCap
      BY <1>7, <1>9, <2>1
    <3>2. QED
      BY <1>1, <1>2, <1>5, <1>11, <3>1
  <2>2. QED
    BY <2>1
<1>13. ~FrontFits => Len(kv_list) = 1
  <2>1. ASSUME ~FrontFits, Len(kv_list) > 1  PROVE FALSE
    <3>1. first + newest <= total_size_without_block /\ ~(new_block_size + first <= BlockCap)
      BY <1>8, <1>9, <2>1
    <3>2. QED
      BY <1>1, <1>2, <1>5, <1>11, <3>1
  <2>2. QED
    BY <1>3, <2>1
<1>14. ~FrontFits => total_size_without_block <= BlockCap
  BY <1>5, <1>7, <1>10, <1>11, <1>13
<1>15. Len(kv_list) # 1 => Len(kv_list) > 1
  BY <1>3
<1>16. QED
  BY <1>1, <1>2, <1>3, <1>12, <1>13, <1>14, <1>15

\* One turn of the cutting loop moves the front of the queue to the block.
LEMMA CutMoveStep ==
    ASSUME IInv, NEW w \in Workers, CutMove(w)
    PROVE  IInv'
<1> USE DEF IInv
<1>1. /\ wpc[w] = "cutting" /\ FrontFits
      /\ kv_list' = Tail(kv_list)
      /\ blocks' = [blocks EXCEPT ![latest_block_id] = Append(@, kv_store[Head(kv_list)])]
      /\ total_size_without_block'
            = total_size_without_block - Slab(kv_store[Head(kv_list)])
      /\ new_block_size' = new_block_size + Slab(kv_store[Head(kv_list)])
      /\ UNCHANGED <<kv_store, total_size, latest_block_id, wbuffer_lock, wpc, warg,
                     pending, fpc, fblk, flushed_size, hdd, closed, index>>
  BY DEF CutMove, callers, flushers, disk
<1>2. kv_list # <<>> /\ Len(kv_list) \in Nat /\ Len(kv_list) > 1 /\ kv_list \in Seq(Hashes)
  BY <1>1, CutterSees
<1>h. PICK h \in Hashes : h = Head(kv_list)
  BY <1>2
<1>3. /\ 1 \in DOMAIN kv_list /\ h = kv_list[1]
      /\ kv_list' \in Seq(Hashes) /\ Len(kv_list') = Len(kv_list) - 1
      /\ \A i \in DOMAIN kv_list' : i + 1 \in DOMAIN kv_list /\ kv_list'[i] = kv_list[i + 1]
      /\ \A i \in DOMAIN kv_list : i # 1 => i - 1 \in DOMAIN kv_list' /\ kv_list'[i - 1] = kv_list[i]
      /\ kv_list'[Len(kv_list')] = kv_list[Len(kv_list)] /\ kv_list' # <<>>
      /\ \A i \in DOMAIN kv_list : i \in Nat /\ i >= 1
      /\ \A i \in DOMAIN kv_list' : i \in Nat /\ i >= 1
  <2> DEFINE q == kv_list
             r == Tail(kv_list)
  <2>1. q \in Seq(Hashes) /\ q # <<>> /\ Len(q) > 1 /\ kv_list' = r /\ h = Head(q)
    BY <1>1, <1>2, <1>h
  <2> HIDE DEF q
  <2>2. r \in Seq(Hashes) /\ Len(r) = Len(q) - 1 /\ r = Tail(q) /\ h = q[1]
    BY <2>1 DEF q
  <2>3. DOMAIN q = 1 .. Len(q) /\ DOMAIN r = 1 .. Len(q) - 1 /\ Len(q) \in Nat
    BY <2>1, <2>2
  <2> HIDE DEF r
  <2>4. \A i \in DOMAIN r : i + 1 \in DOMAIN q /\ r[i] = q[i + 1]
    BY <2>1, <2>2, <2>3
  <2>5. \A i \in DOMAIN q : i # 1 => i - 1 \in DOMAIN r /\ r[i - 1] = q[i]
    BY <2>1, <2>2, <2>3
  <2>6. r[Len(r)] = q[Len(q)] /\ r # <<>> /\ 1 \in DOMAIN q
    <3>1. Len(r) \in DOMAIN r /\ Len(r) + 1 = Len(q) /\ Len(r) # 0
      BY <2>1, <2>2, <2>3
    <3>2. r[Len(r)] = q[Len(r) + 1]
      BY <2>4, <3>1
    <3>3. QED
      BY <2>1, <2>3, <3>1, <3>2
  <2>7. QED
    BY <2>1, <2>2, <2>3, <2>4, <2>5, <2>6 DEF q
<1>e. PICK e \in Entries : e = kv_store[h]
  BY <1>3, QueueEntry
<1>4. /\ Slab(e) \in Nat /\ Hash[e.key] = h
      /\ Length[e.value] <= MaxLength /\ kv_store[h] # None
  BY <1>3, <1>e, QueueEntry DEF FreedOnce, StoreLegal
<1>b. PICK b \in BlockIds : b = latest_block_id
  BY <1>1 DEF BlockStages
<1>5. b \notin closed /\ hdd[b] = <<>> /\ blocks[b] \in Seq(Entries)
  BY <1>1, <1>b DEF BlockStages, TypeOK
<1>n. PICK n \in Nat : n = Len(blocks[b]) + 1
  BY <1>5
<1>6. blocks'[b] = Append(blocks[b], e) /\ \A c \in BlockIds : c # b => blocks'[c] = blocks[c]
  BY <1>1, <1>b, <1>e, <1>h DEF TypeOK
<1>7. /\ n \notin Unwritten(b) /\ Unwritten(b)' = Unwritten(b) \cup {n}
      /\ \A i \in Unwritten(b) : blocks'[b][i] = blocks[b][i]
      /\ blocks'[b][n] = e
  BY <1>1, <1>5, <1>6, <1>n DEF Unwritten
<1>8. \A c \in BlockIds : c # b => Unwritten(c)' = Unwritten(c)
  BY <1>1, <1>6 DEF Unwritten
<1>9. /\ SlotHash(b, n)' = h
      /\ \A c \in BlockIds : \A i \in Unwritten(c) :
            blocks'[c][i] = blocks[c][i] /\ SlotHash(c, i)' = SlotHash(c, i)
  BY <1>4, <1>6, <1>7 DEF SlotHash
<1>10. \A c \in BlockIds : \A i \in Unwritten(c)' : i \in Unwritten(c) \/ (c = b /\ i = n)
  BY <1>7, <1>8
<1>11. TypeOK'
  <2>1. blocks' \in [BlockIds -> Seq(Entries)]
    BY <1>1, <1>b, <1>e, <1>h, <1>5 DEF TypeOK
  <2>2. total_size_without_block' \in Int /\ new_block_size' \in Nat
    BY <1>1, <1>4, <1>e, <1>h DEF TypeOK
  <2>3. QED
    BY <1>1, <1>3, <2>1, <2>2 DEF TypeOK
<1>12. LockHeld' /\ CallersReady' /\ Reserved'
  <2>1. Entering' = Entering /\ Admitted' = Admitted
    BY <1>1 DEF Entering, Admitted
  <2>2. QED
    BY <1>1, <2>1 DEF LockHeld, CallersReady, Reserved
<1>13. StoreLegal'
  <2>1. ASSUME NEW c \in BlockIds, NEW i \in DOMAIN blocks'[c]
        PROVE  Length[blocks'[c][i].value] <= MaxLength
    <3>1. CASE c = b
      <4>1. i \in DOMAIN blocks[b] \/ i = Len(blocks[b]) + 1
        BY <1>5, <1>6, <2>1, <3>1
      <4>2. CASE i \in DOMAIN blocks[b]
        <5>1. blocks'[b][i] = blocks[b][i]
          BY <1>5, <1>6, <4>2
        <5>2. QED
          BY <1>5, <3>1, <4>2, <5>1 DEF StoreLegal
      <4>3. CASE i = Len(blocks[b]) + 1
        BY <1>4, <1>7, <1>n, <3>1, <4>3
      <4>4. QED
        BY <4>1, <4>2, <4>3
    <3>2. CASE c # b
      BY <1>6, <2>1, <3>2 DEF StoreLegal
    <3>3. QED
      BY <3>1, <3>2
  <2>2. QED
    BY <1>1, <2>1 DEF StoreLegal
<1>14. BlockStages'
  <2>1. Active' = Active
    BY <1>1 DEF Active
  <2>2. \A c \in BlockIds : c > b => c # b
    BY SizeAssumption DEF BlockIds
  <2>3. \A c \in closed : c \in BlockIds /\ c # b
    BY <1>5 DEF TypeOK
  <2>4. QED
    BY <1>1, <1>6, <1>b, <2>1, <2>2, <2>3 DEF BlockStages
<1>15. FreedOnce'
  <2>1. ASSUME NEW i \in DOMAIN kv_list'
        PROVE  kv_store'[kv_list'[i]] # None
    BY <1>1, <1>3 DEF FreedOnce
  <2>2. ASSUME NEW i \in DOMAIN kv_list', NEW j \in DOMAIN kv_list',
               kv_list'[i] = kv_list'[j]
        PROVE  i = j
    <3>1. i + 1 = j + 1 /\ i \in Int /\ j \in Int
      BY <1>3, <2>2 DEF FreedOnce
    <3>2. QED
      BY <3>1
  <2>3. ASSUME NEW c \in BlockIds, NEW i \in Unwritten(c)'
        PROVE  kv_store'[SlotHash(c, i)'] = blocks'[c][i]
    <3>1. CASE i \in Unwritten(c)
      <4>1. SlotHash(c, i)' = SlotHash(c, i) /\ blocks'[c][i] = blocks[c][i]
        BY <1>9, <3>1
      <4>2. kv_store[SlotHash(c, i)] = blocks[c][i]
        BY <3>1, SlotEntry
      <4>3. QED
        BY <1>1, <4>1, <4>2
    <3>2. CASE c = b /\ i = n
      BY <1>1, <1>7, <1>9, <1>e, <3>2
    <3>3. QED
      BY <1>10, <3>1, <3>2
  <2>4. ASSUME NEW c \in BlockIds, NEW d \in BlockIds,
               NEW i \in Unwritten(c)', NEW j \in Unwritten(d)',
               SlotHash(c, i)' = SlotHash(d, j)'
        PROVE  c = d /\ i = j
    <3>1. \A x \in BlockIds : \A y \in Unwritten(x) : SlotHash(x, y) # h
      BY <1>3 DEF QueuedNotInBlock
    <3>2. CASE i \in Unwritten(c) /\ j \in Unwritten(d)
      BY <1>9, <2>4, <3>2 DEF FreedOnce
    <3>3. CASE (c = b /\ i = n) /\ j \in Unwritten(d)
      BY <1>9, <2>4, <3>1, <3>3
    <3>4. CASE i \in Unwritten(c) /\ (d = b /\ j = n)
      BY <1>9, <2>4, <3>1, <3>4
    <3>5. QED
      BY <1>10, <3>2, <3>3, <3>4
  <2>5. QED
    BY <2>1, <2>2, <2>3, <2>4 DEF FreedOnce
<1>16. StoreCovered'
  <2>1. ASSUME NEW g \in Hashes, kv_store'[g] # None
        PROVE  Queued(g)' \/ InBlock(g)'
    <3>1. Queued(g) \/ InBlock(g)
      BY <1>1, <2>1 DEF StoreCovered
    <3>2. CASE g = h
      BY <1>7, <1>9, <3>2 DEF InBlock
    <3>3. CASE Queued(g) /\ g # h
      BY <1>3, <3>3 DEF Queued
    <3>4. CASE InBlock(g)
      <4>1. PICK c \in BlockIds : \E i \in Unwritten(c) : SlotHash(c, i) = g
        BY <3>4 DEF InBlock
      <4>2. PICK i \in Unwritten(c) : SlotHash(c, i) = g
        BY <4>1
      <4>3. i \in Unwritten(c)' /\ SlotHash(c, i)' = g
        BY <1>7, <1>8, <1>9, <4>2
      <4>4. QED
        BY <4>3 DEF InBlock
    <3>5. QED
      BY <3>1, <3>2, <3>3, <3>4
  <2>2. QED
    BY <2>1 DEF StoreCovered
<1>17. QueuedNotInBlock'
  <2>1. ASSUME NEW j \in DOMAIN kv_list', NEW c \in BlockIds, NEW i \in Unwritten(c)'
        PROVE  SlotHash(c, i)' # kv_list'[j]
    <3>1. CASE i \in Unwritten(c)
      BY <1>3, <1>9, <3>1 DEF QueuedNotInBlock
    <3>2. CASE c = b /\ i = n
      <4>1. j + 1 # 1
        BY <1>2, <1>3
      <4>2. QED
        BY <1>3, <1>9, <3>2, <4>1 DEF FreedOnce
    <3>3. QED
      BY <1>10, <3>1, <3>2
  <2>2. QED
    BY <2>1 DEF QueuedNotInBlock
<1>18. IndexSound'
  BY <1>1 DEF IndexSound
<1>19. QueueSized'
  <2>1. \A i \in DOMAIN kv_list : Slab(kv_store[kv_list[i]]) \in Nat
    BY QueueEntry
  <2>2. SlabsOf(kv_store, Tail(kv_list), total_size_without_block - Slab(e))
    BY <1>2, <1>e, <1>h, <2>1, SumTail DEF QueueSized
  <2>3. SlabsOf(kv_store, kv_list, total_size_without_block)'
    BY <1>1, <1>e, <1>h, <2>2 DEF SlabsOf, Slab
  <2>4. new_block_size' + total_size_without_block' = new_block_size + total_size_without_block
    BY <1>1, <1>4, <1>e, <1>h DEF TypeOK
  <2>5. Cutting'
    BY <1>1, <1>3, <2>4 DEF QueueSized, Cutting, Slab
  <2>6. QED
    BY <1>1, <2>3, <2>5 DEF QueueSized
<1>20. QED
  BY <1>11, <1>12, <1>13, <1>14, <1>15, <1>16, <1>17, <1>18, <1>19

\* The end of the cutting loop schedules the block and releases the lock.
LEMMA CutEndStep ==
    ASSUME IInv, NEW w \in Workers, CutEnd(w)
    PROVE  IInv'
<1> USE DEF IInv
<1>1. /\ wpc[w] = "cutting" /\ ~FrontFits
      /\ pending' = Append(pending, latest_block_id)
      /\ wbuffer_lock' = None
      /\ wpc' = [wpc EXCEPT ![w] = "idle"]
      /\ UNCHANGED <<kv_store, kv_list, blocks, total_size, total_size_without_block,
                     latest_block_id, new_block_size, warg, fpc, fblk, flushed_size,
                     hdd, closed, index>>
  BY DEF CutEnd, buffer, disk
<1>2. latest_block_id \in BlockIds /\ latest_block_id \in Nat /\ pending \in Seq(BlockIds)
  BY <1>1 DEF BlockStages, TypeOK
<1>3. wbuffer_lock = w /\ \A u \in Workers : wpc'[u] # "cutting"
  BY <1>1 DEF LockHeld, TypeOK
<1>4. TypeOK'
  BY <1>1, <1>2 DEF TypeOK
<1>5. LockHeld'
  BY <1>1, <1>3, ThreadAssumption DEF LockHeld, TypeOK
<1>6. CallersReady' /\ Reserved'
  <2>1. Entering' = Entering /\ Admitted' = Admitted
    BY <1>1 DEF TypeOK, Entering, Admitted
  <2>2. QED
    BY <1>1, <2>1 DEF CallersReady, Reserved
<1>7. FreedOnce' /\ StoreCovered' /\ QueuedNotInBlock' /\ IndexSound' /\ StoreLegal'
  BY <1>1, SameData
<1>8. BlockStages'
  <2>1. Active' = Active
    BY <1>1 DEF Active
  <2>2. /\ Len(pending) \in Nat
        /\ DOMAIN pending' = DOMAIN pending \cup {Len(pending) + 1}
        /\ Len(pending) + 1 \notin DOMAIN pending
        /\ \A i \in DOMAIN pending : pending'[i] = pending[i]
        /\ pending'[Len(pending) + 1] = latest_block_id
    BY <1>1, <1>2
  <2>3. /\ latest_block_id \notin closed /\ hdd[latest_block_id] = <<>>
        /\ \A i \in DOMAIN pending : pending[i] # latest_block_id
        /\ \A f \in Active : fblk[f] # latest_block_id
    BY <1>1 DEF BlockStages
  <2>4. QED
    BY <1>1, <1>2, <1>3, <2>1, <2>2, <2>3 DEF BlockStages
<1>9. QueueSized'
  <2>1. total_size_without_block <= BlockCap
    BY <1>1, CutterSees
  <2>2. SlabsOf(kv_store, kv_list, total_size_without_block)'
    BY <1>1 DEF QueueSized, SlabsOf, Slab
  <2>3. QED
    BY <1>1, <1>3, <2>1, <2>2 DEF QueueSized
<1>10. QED
  BY <1>4, <1>5, <1>6, <1>7, <1>8, <1>9
-----------------------------------------------------------------------------
(***************************************************************************)
(* The steps of a flusher                                                  *)
(***************************************************************************)

\* What the callers count on does not change with the flushers' variables.
LEMMA SameCallers ==
    ASSUME UNCHANGED <<wpc, warg, latest_block_id>>
    PROVE  /\ CallersReady => CallersReady'
           /\ Admitted' = Admitted
<1>1. Entering' = Entering /\ Admitted' = Admitted
  BY DEF Entering, Admitted
<1>2. QED
  BY <1>1 DEF CallersReady

\* flush() takes a task that no other flusher has; its file holds nothing yet.
LEMMA FlushOpenStep ==
    ASSUME IInv, NEW f \in Flushers, FlushOpen(f)
    PROVE  IInv'
<1> USE DEF IInv
<1>1. /\ fpc[f] = "idle" /\ pending # <<>>
      /\ fblk' = [fblk EXCEPT ![f] = Head(pending)]
      /\ pending' = Tail(pending)
      /\ hdd' = [hdd EXCEPT ![Head(pending)] = <<>>]
      /\ flushed_size' = [flushed_size EXCEPT ![f] = 0]
      /\ fpc' = [fpc EXCEPT ![f] = "opened"]
      /\ UNCHANGED <<kv_store, kv_list, blocks, total_size, total_size_without_block,
                     latest_block_id, new_block_size, wbuffer_lock, wpc, warg,
                     closed, index>>
  BY DEF FlushOpen, buffer, callers
<1>2. pending \in Seq(BlockIds)
  BY DEF TypeOK
<1>b. PICK b \in BlockIds : b = Head(pending)
  BY <1>1, <1>2
<1>3. /\ 1 \in DOMAIN pending /\ b = pending[1] /\ pending' \in Seq(BlockIds)
      /\ \A i \in DOMAIN pending' :
            i + 1 \in DOMAIN pending /\ pending'[i] = pending[i + 1] /\ i \in Nat /\ i + 1 # 1
  <2> DEFINE r == Tail(pending)
  <2>1. r \in Seq(BlockIds) /\ Len(r) = Len(pending) - 1 /\ Len(pending) \in Nat
        /\ Len(pending) >= 1
    BY <1>1, <1>2
  <2>2. DOMAIN r = 1 .. Len(pending) - 1 /\ DOMAIN pending = 1 .. Len(pending)
    BY <1>2, <2>1
  <2>3. \A i \in DOMAIN r : r[i] = pending[i + 1] /\ i \in Nat /\ i + 1 # 1
    BY <1>1, <1>2, <2>1, <2>2
  <2>4. QED
    BY <1>1, <1>2, <1>b, <2>1, <2>2, <2>3
<1>4. hdd[b] = <<>> /\ b \notin closed /\ b <= latest_block_id /\ b >= 1
      /\ b \in 1 .. latest_block_id
  <2>1. hdd[b] = <<>> /\ b \notin closed /\ b <= latest_block_id
    BY <1>3 DEF BlockStages
  <2>2. QED
    BY <2>1, SizeAssumption DEF BlockIds, TypeOK
<1>5. hdd' = hdd
  <2>1. hdd = [c \in BlockIds |-> hdd[c]]
    BY DEF TypeOK
  <2>2. QED
    BY <1>1, <1>b, <1>4, <2>1
<1>6. TypeOK'
  BY <1>1, <1>3, <1>5, <1>b DEF TypeOK
<1>7. LockHeld'
  <2>1. wbuffer_lock # f
    BY <1>1 DEF LockHeld
  <2>2. QED
    BY <1>1, <2>1 DEF LockHeld, TypeOK
<1>8. CallersReady' /\ Reserved'
  BY <1>1, SameCallers DEF Reserved
<1>9. FreedOnce' /\ StoreCovered' /\ QueuedNotInBlock' /\ IndexSound' /\ StoreLegal'
  BY <1>1, <1>5, SameData
<1>10. BlockStages'
  <2>1. Active' = Active \cup {f} /\ f \notin Active
    BY <1>1 DEF Active, TypeOK
  <2>2. fblk'[f] = b /\ \A g \in Active : fblk'[g] = fblk[g] /\ g # f /\ fpc'[g] = fpc[g]
    BY <1>1, <1>b, <2>1 DEF Active, TypeOK
  <2>3. \A g \in Active : fblk[g] # b
    BY <1>3 DEF BlockStages
  <2>4. \A i \in DOMAIN pending' : pending'[i] # b
    <3>1. ASSUME NEW i \in DOMAIN pending'
          PROVE  pending'[i] # b
      BY <1>3 DEF BlockStages
    <3>2. QED
      BY <3>1
  <2>5. \A u \in Workers : wpc[u] = "cutting" => b # latest_block_id
    BY <1>3 DEF BlockStages
  <2>6. /\ \A i \in DOMAIN pending' :
             /\ pending'[i] <= latest_block_id' /\ hdd'[pending'[i]] = <<>>
             /\ pending'[i] \notin closed'
        /\ \A i, j \in DOMAIN pending' : pending'[i] = pending'[j] => i = j
    <3>1. ASSUME NEW i \in DOMAIN pending', NEW j \in DOMAIN pending', pending'[i] = pending'[j]
          PROVE  i = j
      <4>1. i + 1 = j + 1 /\ i \in Nat /\ j \in Nat
        BY <1>3, <3>1 DEF BlockStages
      <4>2. QED
        BY <4>1
    <3>2. QED
      BY <1>1, <1>3, <1>5, <3>1 DEF BlockStages
  <2>7. ASSUME NEW g \in Active'
        PROVE  /\ fblk'[g] \in 1 .. latest_block_id' /\ fblk'[g] \notin closed'
               /\ \A i \in DOMAIN pending' : pending'[i] # fblk'[g]
               /\ \A k \in Active' : fblk'[g] = fblk'[k] => g = k
               /\ fpc'[g] = "opened" => hdd'[fblk'[g]] = <<>>
    <3>1. CASE g = f
      BY <1>1, <1>4, <1>5, <2>1, <2>2, <2>3, <2>4, <3>1
    <3>2. CASE g \in Active
      <4>1. \A i \in DOMAIN pending' : pending'[i] # fblk'[g]
        BY <1>3, <2>2, <3>2 DEF BlockStages
      <4>2. \A k \in Active' : fblk'[g] = fblk'[k] => g = k
        BY <2>1, <2>2, <2>3, <3>2 DEF BlockStages
      <4>3. QED
        BY <1>1, <1>5, <2>2, <3>2, <4>1, <4>2 DEF BlockStages
    <3>3. QED
      BY <2>1, <3>1, <3>2
  <2>8. ASSUME NEW u \in Workers, wpc'[u] = "cutting"
        PROVE  /\ latest_block_id' \in BlockIds \ closed' /\ hdd'[latest_block_id'] = <<>>
               /\ \A i \in DOMAIN pending' : pending'[i] # latest_block_id'
               /\ \A g \in Active' : fblk'[g] # latest_block_id'
    BY <1>1, <1>3, <1>5, <2>1, <2>2, <2>5, <2>8 DEF BlockStages
  <2>9. QED
    BY <1>1, <1>5, <2>6, <2>7, <2>8 DEF BlockStages
<1>11. QueuedNotInBlock' /\ QueueSized'
  BY <1>1, <1>9, SameQueue
<1>12. QED
  BY <1>6, <1>7, <1>8, <1>9, <1>10, <1>11

\* flush() takes wbuffer_lock for the rest of its run.
LEMMA FlushLockStep ==
    ASSUME IInv, NEW f \in Flushers, FlushLock(f)
    PROVE  IInv'
<1> USE DEF IInv
<1>1. /\ fpc[f] = "opened" /\ wbuffer_lock = None /\ wbuffer_lock' = f
      /\ fpc' = [fpc EXCEPT ![f] = "writing"]
      /\ UNCHANGED <<kv_store, kv_list, blocks, total_size, total_size_without_block,
                     latest_block_id, new_block_size, wpc, warg, pending, fblk,
                     flushed_size, hdd, closed, index>>
  BY DEF FlushLock, buffer, callers, disk
<1>2. TypeOK'
  BY <1>1 DEF TypeOK
<1>3. LockHeld'
  BY <1>1, ThreadAssumption DEF LockHeld, TypeOK
<1>4. CallersReady' /\ Reserved'
  BY <1>1, SameCallers DEF Reserved
<1>5. FreedOnce' /\ StoreCovered' /\ QueuedNotInBlock' /\ IndexSound' /\ StoreLegal'
  BY <1>1, SameData
<1>6. BlockStages'
  <2>1. Active' = Active /\ \A g \in Active : fpc'[g] = "opened" => fpc[g] = "opened"
    BY <1>1 DEF Active, TypeOK
  <2>2. QED
    BY <1>1, <2>1 DEF BlockStages
<1>7. QueueSized'
  BY <1>1, SameQueue
<1>8. QED
  BY <1>2, <1>3, <1>4, <1>5, <1>6, <1>7

\* While a flusher writes it has the lock: nobody cuts, and its block is its own.
LEMMA WriterAlone ==
    ASSUME IInv, NEW f \in Flushers, fpc[f] = "writing"
    PROVE  /\ wbuffer_lock = f /\ f \in Active
           /\ \A w \in Workers : wpc[w] # "cutting"
           /\ \A g \in Flushers : fpc[g] = "writing" => g = f
           /\ fblk[f] \in BlockIds /\ fblk[f] \notin closed /\ fblk[f] <= latest_block_id
           /\ \A i \in DOMAIN pending : pending[i] # fblk[f]
           /\ \A g \in Active : fblk[f] = fblk[g] => f = g
<1> USE DEF IInv
<1>1. wbuffer_lock = f /\ f \in Active
  BY DEF LockHeld, Active
<1>2. \A w \in Workers : wpc[w] # "cutting"
  BY <1>1, ThreadAssumption DEF LockHeld
<1>3. \A g \in Flushers : fpc[g] = "writing" => g = f
  BY <1>1 DEF LockHeld
<1>4. /\ fblk[f] \in 1 .. latest_block_id /\ fblk[f] \notin closed
      /\ \A i \in DOMAIN pending : pending[i] # fblk[f]
      /\ \A g \in Active : fblk[f] = fblk[g] => f = g
  BY <1>1 DEF BlockStages
<1>5. fblk[f] \in BlockIds /\ fblk[f] <= latest_block_id
  BY <1>4, SizeAssumption DEF BlockIds, TypeOK
<1>6. QED
  BY <1>1, <1>2, <1>3, <1>4, <1>5

\* One turn of the loop of flush(): an entry goes to the file and the index and
\* leaves the table, and nothing else refers to it.
LEMMA FlushEntryStep ==
    ASSUME IInv, NEW f \in Flushers, FlushEntry(f)
    PROVE  IInv'
<1> USE DEF IInv
<1>1. fpc[f] = "writing"
  BY DEF FlushEntry
<1>b. PICK b \in BlockIds : b = fblk[f]
  BY <1>1, WriterAlone
<1>2. hdd[b] \in Seq(Entries) /\ blocks[b] \in Seq(Entries)
  BY DEF TypeOK
<1>n. PICK n \in Nat : n = Len(hdd[b]) + 1
  BY <1>2
<1>3. n \in Unwritten(b) /\ n \in DOMAIN blocks[b] /\ n >= 1
  BY <1>2, <1>b, <1>n DEF FlushEntry, Unwritten
<1>e. PICK e \in Entries : e = blocks[b][n]
  BY <1>2, <1>3
<1>h. PICK h \in Hashes : h = Hash[e.key]
  BY DataAssumption DEF Entries
<1>4. /\ flushed_size' = [flushed_size EXCEPT ![f] = @ + Slab(e)]
      /\ hdd' = [hdd EXCEPT ![b] = Append(@, e)]
      /\ index' = [index EXCEPT ![e.key] = [block |-> b, pos |-> n]]
      /\ kv_store' = [kv_store EXCEPT ![h] = None]
      /\ UNCHANGED <<kv_list, blocks, total_size, total_size_without_block,
                     latest_block_id, new_block_size, wbuffer_lock, wpc, warg,
                     pending, fpc, fblk, closed>>
  BY <1>b, <1>n, <1>e, <1>h DEF FlushEntry, callers
<1>5. /\ \A w \in Workers : wpc[w] # "cutting"
      /\ b \notin closed /\ b <= latest_block_id
      /\ \A i \in DOMAIN pending : pending[i] # b
      /\ \A g \in Active : fblk[g] = b => g = f
  BY <1>1, <1>b, WriterAlone
<1>6. Slab(e) \in Nat /\ Length[e.value] <= MaxLength
  <2>1. Length[e.value] <= MaxLength
    BY <1>3, <1>e DEF StoreLegal
  <2>2. QED
    BY <2>1, SlabOfEntry
<1>7. /\ hdd'[b] = Append(hdd[b], e) /\ hdd'[b] \in Seq(Entries)
      /\ Len(hdd'[b]) = n /\ hdd'[b][n] = e
      /\ \A i \in 1 .. Len(hdd[b]) : hdd'[b][i] = hdd[b][i]
      /\ \A c \in BlockIds : c # b => hdd'[c] = hdd[c]
  BY <1>2, <1>n, <1>4 DEF TypeOK
<1>8. Unwritten(b)' = Unwritten(b) \ {n}
  <2>1. Unwritten(b)' = n + 1 .. Len(blocks[b])
    BY <1>4, <1>7 DEF Unwritten
  <2>2. Unwritten(b) = n .. Len(blocks[b]) /\ Len(blocks[b]) \in Nat
    BY <1>2, <1>n DEF Unwritten
  <2>3. QED
    BY <2>1, <2>2
<1>9. \A c \in BlockIds : c # b => Unwritten(c)' = Unwritten(c)
  BY <1>4, <1>7 DEF Unwritten
<1>10. \A c \in BlockIds : \A i \in Unwritten(c)' :
          /\ i \in Unwritten(c) /\ SlotHash(c, i)' = SlotHash(c, i)
          /\ SlotHash(c, i) # h
  <2>1. ASSUME NEW c \in BlockIds, NEW i \in Unwritten(c)'
        PROVE  /\ i \in Unwritten(c) /\ SlotHash(c, i)' = SlotHash(c, i)
               /\ SlotHash(c, i) # h
    <3>1. i \in Unwritten(c) /\ ~(c = b /\ i = n)
      BY <1>8, <1>9, <2>1
    <3>2. SlotHash(c, i)' = SlotHash(c, i)
      BY <1>4 DEF SlotHash
    <3>3. SlotHash(b, n) = h
      BY <1>e, <1>h DEF SlotHash
    <3>4. SlotHash(c, i) = SlotHash(b, n) => c = b /\ i = n
      BY <1>3, <3>1, SlotsDiffer
    <3>5. QED
      BY <3>1, <3>2, <3>3, <3>4
  <2>2. QED
    BY <2>1
<1>11. \A g \in Hashes : g # h => kv_store'[g] = kv_store[g]
  BY <1>4 DEF TypeOK
<1>12. kv_store'[h] = None
  BY <1>4 DEF TypeOK
<1>13. \A i \in DOMAIN kv_list : kv_list[i] \in Hashes /\ kv_list[i] # h
  <2>1. SlotHash(b, n) = h
    BY <1>e, <1>h DEF SlotHash
  <2>2. QED
    BY <1>3, <2>1, QueueEntry DEF QueuedNotInBlock
<1>14. TypeOK'
  <2>1. kv_store' \in [Hashes -> Entries \cup {None}]
    BY <1>4 DEF TypeOK
  <2>2. flushed_size' \in [Flushers -> Nat]
    BY <1>4, <1>6 DEF TypeOK
  <2>3. hdd' \in [BlockIds -> Seq(Entries)]
    BY <1>2, <1>4 DEF TypeOK
  <2>4. index' \in [Keys -> [block : BlockIds, pos : Nat \ {0}] \cup {None}]
    <3>1. [block |-> b, pos |-> n] \in [block : BlockIds, pos : Nat \ {0}]
      BY <1>3
    <3>2. QED
      BY <1>4, <3>1 DEF TypeOK
  <2>5. QED
    BY <1>4, <2>1, <2>2, <2>3, <2>4 DEF TypeOK
<1>15. LockHeld'
  BY <1>4 DEF LockHeld
<1>16. CallersReady' /\ Reserved'
  BY <1>4, SameCallers DEF Reserved
<1>17. StoreLegal'
  BY <1>4, <1>11, <1>12 DEF StoreLegal
<1>18. BlockStages'
  <2>1. Active' = Active
    BY <1>4 DEF Active
  <2>2. \A c \in BlockIds : c > latest_block_id => c # b
    BY <1>5, SizeAssumption DEF BlockIds, TypeOK
  <2>3. \A i \in DOMAIN pending : hdd'[pending[i]] = hdd[pending[i]]
    BY <1>5, <1>7, PendingIds
  <2>4. \A g \in Active : fpc[g] = "opened" => fblk[g] \in BlockIds /\ fblk[g] # b
    <3>1. ASSUME NEW g \in Active, fpc[g] = "opened"
          PROVE  fblk[g] \in BlockIds /\ fblk[g] # b
      <4>1. fblk[g] \in 1 .. latest_block_id /\ g \in Flushers
        BY DEF BlockStages, Active
      <4>2. fblk[g] \in BlockIds
        BY <4>1, SizeAssumption DEF BlockIds, TypeOK
      <4>3. QED
        BY <1>1, <1>5, <3>1, <4>2
    <3>2. QED
      BY <3>1
  <2>5. /\ \A c \in BlockIds : c > latest_block_id' =>
              blocks'[c] = <<>> /\ hdd'[c] = <<>> /\ c \notin closed'
        /\ \A c \in closed' : blocks'[c] = <<>>
    BY <1>4, <1>7, <2>2 DEF BlockStages
  <2>6. /\ \A i \in DOMAIN pending' :
             /\ pending'[i] <= latest_block_id' /\ hdd'[pending'[i]] = <<>>
             /\ pending'[i] \notin closed'
        /\ \A i, j \in DOMAIN pending' : pending'[i] = pending'[j] => i = j
    BY <1>4, <2>3 DEF BlockStages
  <2>7. \A g \in Active' :
             /\ fblk'[g] \in 1 .. latest_block_id' /\ fblk'[g] \notin closed'
             /\ \A i \in DOMAIN pending' : pending'[i] # fblk'[g]
             /\ \A k \in Active' : fblk'[g] = fblk'[k] => g = k
             /\ fpc'[g] = "opened" => hdd'[fblk'[g]] = <<>>
    BY <1>4, <1>7, <2>1, <2>4 DEF BlockStages
  <2>8. \A w \in Workers : wpc'[w] # "cutting"
    BY <1>4, <1>5
  <2>9. QED
    BY <2>5, <2>6, <2>7, <2>8 DEF BlockStages
<1>19. FreedOnce'
  <2>1. ASSUME NEW c \in BlockIds, NEW i \in Unwritten(c)'
        PROVE  kv_store'[SlotHash(c, i)'] = blocks'[c][i]
    <3>1. i \in Unwritten(c) /\ SlotHash(c, i)' = SlotHash(c, i) /\ SlotHash(c, i) # h
      BY <1>10
    <3>2. kv_store[SlotHash(c, i)] = blocks[c][i] /\ SlotHash(c, i) \in Hashes
      BY <3>1, SlotEntry
    <3>3. QED
      BY <1>4, <1>11, <3>1, <3>2
  <2>2. ASSUME NEW c \in BlockIds, NEW d \in BlockIds,
               NEW i \in Unwritten(c)', NEW j \in Unwritten(d)',
               SlotHash(c, i)' = SlotHash(d, j)'
        PROVE  c = d /\ i = j
    BY <1>10, <2>2 DEF FreedOnce
  <2>3. \A i \in DOMAIN kv_list' : kv_store'[kv_list'[i]] # None
    BY <1>4, <1>11, <1>13 DEF FreedOnce
  <2>4. \A i, j \in DOMAIN kv_list' : kv_list'[i] = kv_list'[j] => i = j
    BY <1>4 DEF FreedOnce
  <2>5. QED
    BY <2>1, <2>2, <2>3, <2>4 DEF FreedOnce
<1>20. StoreCovered'
  <2>1. ASSUME NEW g \in Hashes, kv_store'[g] # None
        PROVE  Queued(g)' \/ InBlock(g)'
    <3>1. g # h /\ kv_store[g] # None
      BY <1>11, <1>12, <2>1
    <3>2. CASE Queued(g)
      BY <1>4, <3>2 DEF Queued
    <3>3. CASE InBlock(g)
      <4>1. PICK c \in BlockIds : \E i \in Unwritten(c) : SlotHash(c, i) = g
        BY <3>3 DEF InBlock
      <4>2. PICK i \in Unwritten(c) : SlotHash(c, i) = g
        BY <4>1
      <4>3. ~(c = b /\ i = n)
        BY <1>e, <1>h, <3>1, <4>2 DEF SlotHash
      <4>4. i \in Unwritten(c)'
        BY <1>8, <1>9, <4>2, <4>3
      <4>5. SlotHash(c, i)' = g
        BY <1>10, <4>2, <4>4
      <4>6. QED
        BY <4>4, <4>5 DEF InBlock
    <3>4. QED
      BY <3>1, <3>2, <3>3 DEF StoreCovered
  <2>2. QED
    BY <2>1 DEF StoreCovered
<1>21. QueuedNotInBlock'
  BY <1>4, <1>10 DEF QueuedNotInBlock
<1>22. IndexSound'
  <2>1. ASSUME NEW k \in Keys, index'[k] # None
        PROVE  /\ index'[k].pos <= Len(hdd'[index'[k].block])
               /\ hdd'[index'[k].block][index'[k].pos].key = k
    <3>1. CASE k = e.key
      <4>1. index'[k] = [block |-> b, pos |-> n]
        BY <1>4, <3>1 DEF TypeOK
      <4>2. QED
        BY <1>7, <3>1, <4>1
    <3>2. CASE k # e.key
      <4>1. index'[k] = index[k]
        BY <1>4, <3>2 DEF TypeOK
      <4>2. PICK c \in BlockIds, p \in Nat \ {0} : index[k] = [block |-> c, pos |-> p]
        BY <2>1, <4>1 DEF TypeOK
      <4>3. p <= Len(hdd[c]) /\ hdd[c][p].key = k
        BY <2>1, <4>1, <4>2 DEF IndexSound
      <4>4. p <= Len(hdd'[c]) /\ hdd'[c][p] = hdd[c][p]
        <5>1. CASE c = b
          BY <1>2, <1>7, <1>n, <4>3, <5>1
        <5>2. CASE c # b
          BY <1>7, <4>3, <5>2
        <5>3. QED
          BY <5>1, <5>2
      <4>5. QED
        BY <4>1, <4>2, <4>3, <4>4
    <3>3. QED
      BY <3>1, <3>2
  <2>2. QED
    BY <2>1 DEF IndexSound
<1>23. QueueSized'
  <2>1. \A i \in 1 .. Len(kv_list) : kv_store'[kv_list[i]] = kv_store[kv_list[i]]
    <3>1. DOMAIN kv_list = 1 .. Len(kv_list)
      BY DEF TypeOK
    <3>2. QED
      BY <1>11, <1>13, <3>1
  <2>2. SlabsOf(kv_store', kv_list, total_size_without_block)
    BY <2>1, SumStore DEF QueueSized
  <2>3. SlabsOf(kv_store, kv_list, total_size_without_block)'
    BY <1>4, <2>2 DEF SlabsOf, Slab
  <2>4. QED
    BY <1>4, <1>5, <2>3 DEF QueueSized
<1>24. QED
  BY <1>14, <1>15, <1>16, <1>17, <1>18, <1>19, <1>20, <1>21, <1>22, <1>23

\* The end of flush() closes the file, forgets the block and accounts for it.
LEMMA FlushCloseStep ==
    ASSUME IInv, NEW f \in Flushers, FlushClose(f)
    PROVE  IInv'
<1> USE DEF IInv
<1>1. fpc[f] = "writing"
  BY DEF FlushClose
<1>b. PICK b \in BlockIds : b = fblk[f]
  BY <1>1, WriterAlone
<1>2. /\ Len(hdd[b]) >= Len(blocks[b])
      /\ closed' = closed \cup {b}
      /\ blocks' = [blocks EXCEPT ![b] = <<>>]
      /\ total_size' = total_size - flushed_size[f]
      /\ flushed_size' = [flushed_size EXCEPT ![f] = 0]
      /\ wbuffer_lock' = None
      /\ fpc' = [fpc EXCEPT ![f] = "idle"]
      /\ UNCHANGED <<kv_store, kv_list, total_size_without_block,
                     latest_block_id, new_block_size, wpc, warg, pending, fblk,
                     hdd, index>>
  BY <1>b DEF FlushClose, callers
<1>3. /\ wbuffer_lock = f /\ f \in Active
      /\ \A w \in Workers : wpc[w] # "cutting"
      /\ b \notin closed /\ b <= latest_block_id
      /\ \A i \in DOMAIN pending : pending[i] # b
      /\ \A g \in Active : fblk[g] = b => g = f
  BY <1>1, <1>b, WriterAlone
<1>4. hdd[b] \in Seq(Entries) /\ blocks[b] \in Seq(Entries)
  BY DEF TypeOK
<1>5. /\ blocks'[b] = <<>>
      /\ \A c \in BlockIds : c # b => blocks'[c] = blocks[c]
  BY <1>2 DEF TypeOK
<1>6. Unwritten(b) = {} /\ Unwritten(b)' = {}
  BY <1>2, <1>4, <1>5 DEF Unwritten
<1>7. \A c \in BlockIds : Unwritten(c)' = Unwritten(c)
          /\ \A i \in Unwritten(c) : SlotHash(c, i)' = SlotHash(c, i)
                                     /\ blocks'[c][i] = blocks[c][i]
  <2>1. ASSUME NEW c \in BlockIds, c # b
        PROVE  Unwritten(c)' = Unwritten(c)
               /\ \A i : SlotHash(c, i)' = SlotHash(c, i) /\ blocks'[c][i] = blocks[c][i]
    BY <1>2, <1>5, <2>1 DEF Unwritten, SlotHash
  <2>2. QED
    BY <1>6, <2>1
<1>8. TypeOK'
  <2>1. total_size' \in Int
    BY <1>2 DEF TypeOK
  <2>2. QED
    BY <1>2, <2>1 DEF TypeOK
<1>9. LockHeld'
  BY <1>2, <1>3, ThreadAssumption DEF LockHeld, TypeOK
<1>10. CallersReady'
  BY <1>2, SameCallers
<1>11. Reserved'
  <2>1. Admitted' = Admitted
    BY <1>2, SameCallers
  <2>2. total_size' <= total_size /\ total_size' \in Int /\ total_size \in Int
    BY <1>2 DEF TypeOK
  <2>3. Cardinality(Admitted) \in Nat /\ Cardinality(Workers) \in Nat
    BY CallersFinite DEF Admitted
  <2>4. QED
    BY <2>1, <2>2, <2>3, SlabTable, Limits, SMT DEF Reserved
<1>12. StoreLegal'
  <2>1. ASSUME NEW c \in BlockIds, NEW i \in DOMAIN blocks'[c]
        PROVE  Length[blocks'[c][i].value] <= MaxLength
    <3>1. c # b
      BY <1>5, <2>1
    <3>2. QED
      BY <1>5, <2>1, <3>1 DEF StoreLegal
  <2>2. QED
    BY <1>2, <2>1 DEF StoreLegal
<1>13. BlockStages'
  <2>1. Active' = Active \ {f}
    BY <1>2 DEF Active, TypeOK
  <2>2. \A g \in Active' : g \in Active /\ fblk'[g] # b /\ fblk'[g] = fblk[g] /\ fpc'[g] = fpc[g]
    BY <1>2, <1>3, <2>1 DEF Active, TypeOK
  <2>3. \A c \in BlockIds : c > latest_block_id => c # b
    BY <1>3, SizeAssumption DEF BlockIds, TypeOK
  <2>4. \A c \in closed' : c \in BlockIds /\ blocks'[c] = <<>>
    BY <1>2, <1>5 DEF BlockStages, TypeOK
  <2>5. \A c \in BlockIds : c > latest_block_id' =>
            blocks'[c] = <<>> /\ hdd'[c] = <<>> /\ c \notin closed'
    BY <1>2, <1>5, <2>3 DEF BlockStages
  <2>6. /\ \A i \in DOMAIN pending' :
             /\ pending'[i] <= latest_block_id' /\ hdd'[pending'[i]] = <<>>
             /\ pending'[i] \notin closed'
        /\ \A i, j \in DOMAIN pending' : pending'[i] = pending'[j] => i = j
    BY <1>2, <1>3 DEF BlockStages
  <2>7. \A g \in Active' :
             /\ fblk'[g] \in 1 .. latest_block_id' /\ fblk'[g] \notin closed'
             /\ \A i \in DOMAIN pending' : pending'[i] # fblk'[g]
             /\ \A k \in Active' : fblk'[g] = fblk'[k] => g = k
             /\ fpc'[g] = "opened" => hdd'[fblk'[g]] = <<>>
    BY <1>2, <2>2 DEF BlockStages
  <2>8. \A w \in Workers : wpc'[w] # "cutting"
    BY <1>2, <1>3
  <2>9. QED
    BY <2>4, <2>5, <2>6, <2>7, <2>8 DEF BlockStages
<1>14. FreedOnce'
  <2>1. ASSUME NEW c \in BlockIds, NEW i \in Unwritten(c)'
        PROVE  kv_store'[SlotHash(c, i)'] = blocks'[c][i]
    <3>1. i \in Unwritten(c) /\ SlotHash(c, i)' = SlotHash(c, i) /\ blocks'[c][i] = blocks[c][i]
      BY <1>7
    <3>2. QED
      BY <1>2, <3>1, SlotEntry
  <2>2. \A c, d \in BlockIds : \A i \in Unwritten(c)', j \in Unwritten(d)' :
            SlotHash(c, i)' = SlotHash(d, j)' => c = d /\ i = j
    BY <1>7 DEF FreedOnce
  <2>3. QED
    BY <1>2, <2>1, <2>2 DEF FreedOnce
<1>15. StoreCovered'
  <2>1. \A g \in Hashes : InBlock(g) => InBlock(g)'
    BY <1>7 DEF InBlock
  <2>2. QED
    BY <1>2, <2>1 DEF StoreCovered, Queued
<1>16. QueuedNotInBlock'
  BY <1>2, <1>7 DEF QueuedNotInBlock
<1>17. IndexSound'
  BY <1>2 DEF IndexSound
<1>18. QueueSized'
  BY <1>2, SameQueue
<1>19. QED
  BY <1>8, <1>9, <1>10, <1>11, <1>12, <1>13, <1>14, <1>15, <1>16, <1>17, <1>18
-----------------------------------------------------------------------------
(***************************************************************************)
(* The theorems                                                            *)
(***************************************************************************)

\* The empty buffer satisfies the invariant.
LEMMA InitInv == Init => IInv
<1> SUFFICES ASSUME Init PROVE IInv
  OBVIOUS
<1> USE DEF Init
<1>1. TypeOK
  <2>1. 0 \in 0 .. MaxBlocks
    BY SizeAssumption
  <2>2. QED
    BY <2>1 DEF TypeOK
<1>2. LockHeld
  BY ThreadAssumption DEF LockHeld
<1>3. Entering = {} /\ Admitted = {}
  BY DEF Entering, Admitted
<1>4. Cardinality({}) = 0 /\ Cardinality(Workers) \in Nat
  BY FS_EmptySet, CallersFinite
<1>5. CallersReady
  BY <1>3, <1>4, SizeAssumption DEF CallersReady
<1>6. StoreLegal /\ FreedOnce /\ StoreCovered /\ QueuedNotInBlock /\ IndexSound
  <2>1. \A b \in BlockIds : Unwritten(b) = {}
    BY DEF Unwritten
  <2>2. QED
    BY <2>1 DEF StoreLegal, FreedOnce, StoreCovered, QueuedNotInBlock, IndexSound
<1>7. BlockStages
  BY DEF BlockStages, Active
<1>8. QueueSized
  <2>1. SlabsOf(kv_store, kv_list, 0)
    BY SumEmpty
  <2>2. QED
    BY <2>1, Limits DEF QueueSized
<1>9. Reserved
  <2>1. total_size = 0 /\ 0 <= BufferLimit /\ BufferLimit \in Int
    BY SizeAssumption, Limits DEF BufferLimit, max_page_num, page_size
  <2>2. Cardinality(Admitted) = 0
    BY <1>3, <1>4
  <2>3. ASSUME NEW n \in Nat
        PROVE  MaxLength * 0 = 0 /\ 0 <= MaxLength * n /\ MaxLength * n \in Int
    BY SlabTable, SMT
  <2>4. QED
    BY <1>4, <2>1, <2>2, <2>3 DEF Reserved
<1>10. QED
  BY <1>1, <1>2, <1>5, <1>6, <1>7, <1>8, <1>9 DEF IInv

\* So does a state that differs from one that does in nothing of the buffer.
LEMMA StutterInv == IInv /\ UNCHANGED vars => IInv'
<1> SUFFICES ASSUME IInv, UNCHANGED vars PROVE IInv'
  OBVIOUS
<1>1. UNCHANGED <<kv_store, kv_list, blocks, total_size, total_size_without_block,
                  latest_block_id, new_block_size, wbuffer_lock, wpc, warg, pending,
                  fpc, fblk, flushed_size, hdd, closed, index>>
  BY DEF vars, buffer, callers, flushers, disk
<1>2. TypeOK' /\ LockHeld' /\ BlockStages'
  BY <1>1 DEF IInv, TypeOK, LockHeld, BlockStages, Active
<1>3. CallersReady' /\ Reserved'
  BY <1>1, SameCallers DEF IInv, Reserved
<1>4. FreedOnce' /\ StoreCovered' /\ QueuedNotInBlock' /\ IndexSound' /\ StoreLegal'
  BY <1>1, SameData DEF IInv
<1>5. QueueSized'
  BY <1>1, SameQueue DEF IInv
<1>6. QED
  BY <1>2, <1>3, <1>4, <1>5 DEF IInv

\* The invariant is inductive: one step per action.
LEMMA NextInv == IInv /\ [Next]_vars => IInv'
<1> SUFFICES ASSUME IInv, [Next]_vars PROVE IInv'
  OBVIOUS
<1>1. CASE \E w \in Workers, k \in Keys, v \in Values : Call(w, k, v)
  BY <1>1, CallStep
<1>2. CASE \E w \in Workers : Admit(w)
  BY <1>2, AdmitStep
<1>3. CASE \E w \in Workers : Reject(w)
  BY <1>3, RejectStep
<1>4. CASE \E w \in Workers : Insert(w)
  BY <1>4, InsertStep
<1>5. CASE \E w \in Workers : CutMove(w)
  BY <1>5, CutMoveStep
<1>6. CASE \E w \in Workers : CutEnd(w)
  BY <1>6, CutEndStep
<1>7. CASE \E f \in Flushers : FlushOpen(f)
  BY <1>7, FlushOpenStep
<1>8. CASE \E f \in Flushers : FlushLock(f)
  BY <1>8, FlushLockStep
<1>9. CASE \E f \in Flushers : FlushEntry(f)
  BY <1>9, FlushEntryStep
<1>10. CASE \E f \in Flushers : FlushClose(f)
  BY <1>10, FlushCloseStep
<1>11. CASE AtBound \/ UNCHANGED vars
  BY <1>11, StutterInv DEF AtBound
<1>12. QED
  BY <1>1, <1>2, <1>3, <1>4, <1>5, <1>6, <1>7, <1>8, <1>9, <1>10, <1>11
     DEF Next, Write, Flush

\* IInv holds in every reachable state.
THEOREM Invariance == Spec => []IInv
BY InitInv, NextInv, PTL DEF Spec

\* The state of the buffer, of the threads and of the disk is well typed.
THEOREM TypeCorrect == Spec => []TypeOK
<1>1. IInv => TypeOK
  BY DEF IInv
<1>2. QED
  BY <1>1, Invariance, PTL

\* No value is freed twice, none that is still found, however keys hash.
THEOREM EveryValueFreedOnce == Spec => []FreedOnce
<1>1. IInv => FreedOnce
  BY DEF IInv
<1>2. QED
  BY <1>1, Invariance, PTL

\* Every entry in memory is on its way to disk, by one way.
THEOREM NoEntryStranded == Spec => []NoneStranded
<1>1. IInv => NoneStranded
  <2> SUFFICES ASSUME IInv, NEW h \in Hashes, kv_store[h] # None
               PROVE  Queued(h) <=> ~InBlock(h)
    BY DEF NoneStranded
  <2>1. Queued(h) \/ InBlock(h)
    BY DEF IInv, StoreCovered
  <2>2. ~(Queued(h) /\ InBlock(h))
    BY DEF IInv, Queued, InBlock, QueuedNotInBlock
  <2>3. QED
    BY <2>1, <2>2
<1>2. QED
  BY <1>1, Invariance, PTL

\* The cutting loop never reads the front of an empty queue.
THEOREM CutNeverFindsQueueEmpty == Spec => []CutNeverDrains
<1>1. IInv => CutNeverDrains
  BY DEF IInv, QueueSized, Cutting, CutNeverDrains
<1>2. QED
  BY <1>1, Invariance, PTL

\* A cut takes all entries but the newest, and the uncut backlog fits a block.
THEOREM CutLeavesNewestOnly == Spec => []CutTakesAllButNewest
<1>1. IInv => CutTakesAllButNewest
  <2> SUFFICES ASSUME IInv PROVE CutTakesAllButNewest
    OBVIOUS
  <2>1. (\A w \in Workers : wpc[w] # "cutting") => total_size_without_block <= BlockCap
    BY DEF IInv, QueueSized
  <2>2. ASSUME NEW w \in Workers, wpc[w] = "cutting", ~FrontFits
        PROVE  Len(kv_list) = 1
    BY <2>2, CutterSees
  <2>3. QED
    BY <2>1, <2>2 DEF CutTakesAllButNewest
<1>2. QED
  BY <1>1, Invariance, PTL

\* The buffer's memory passes its limit by at most one slab per caller.
THEOREM OvershootIsBounded == Spec => []OvershootBounded
<1>1. IInv => OvershootBounded
  <2> SUFFICES ASSUME IInv PROVE OvershootBounded
    OBVIOUS
  <2>1. total_size \in Int
    BY DEF IInv, TypeOK
  <2>2. Cardinality(Admitted) \in Nat /\ Cardinality(Workers) \in Nat
    BY CallersFinite DEF Admitted
  <2>3. total_size + MaxLength * Cardinality(Admitted)
            <= BufferLimit + MaxLength * Cardinality(Workers)
    BY DEF IInv, Reserved
  <2>4. total_size <= BufferLimit + MaxLength * Cardinality(Workers)
    BY <2>1, <2>2, <2>3, SlabTable, Limits, SMT
  <2>5. MaxLength * Cardinality(Workers) = Cardinality(Workers) * MaxLength
    BY <2>2, SlabTable, SMT
  <2>6. QED
    BY <2>4, <2>5 DEF OvershootBounded
<1>2. QED
  BY <1>1, Invariance, PTL

\* An index entry names a place that holds its key.
THEOREM IndexIsSound == Spec => []IndexSound
<1>1. IInv => IndexSound
  BY DEF IInv
<1>2. QED
  BY <1>1, Invariance, PTL

\* A block file that was closed is not touched again.
THEOREM ClosedBlocksStay == Spec => ClosedBlocksFixed
<1> DEFINE Kept == \A b \in closed : b \in closed' /\ hdd'[b] = hdd[b]
<1>1. IInv /\ [Next]_vars => [Kept]_vars
  <2> SUFFICES ASSUME IInv, Next PROVE Kept
    OBVIOUS
  <2>1. \A b \in closed : b \in BlockIds
    BY DEF IInv, TypeOK
  <2>2. CASE \E f \in Flushers : FlushOpen(f)
    <3>1. PICK f \in Flushers : FlushOpen(f)
      BY <2>2
    <3>2. pending # <<>> /\ closed' = closed /\ hdd' = [hdd EXCEPT ![Head(pending)] = <<>>]
      BY <3>1 DEF FlushOpen
    <3>3. Head(pending) \notin closed
      <4>1. pending \in Seq(BlockIds)
        BY DEF IInv, TypeOK
      <4>2. 1 \in DOMAIN pending /\ Head(pending) = pending[1]
        BY <3>2, <4>1
      <4>3. QED
        BY <4>2 DEF IInv, BlockStages
    <3>4. QED
      BY <2>1, <3>2, <3>3 DEF IInv, TypeOK
  <2>3. CASE \E f \in Flushers : FlushEntry(f)
    <3>1. PICK f \in Flushers : FlushEntry(f)
      BY <2>3
    <3>2. fblk[f] \notin closed
      BY <3>1, WriterAlone DEF FlushEntry
    <3>3. closed' = closed
          /\ hdd' = [hdd EXCEPT ![fblk[f]] = Append(@, blocks[fblk[f]][Len(hdd[fblk[f]]) + 1])]
      BY <3>1 DEF FlushEntry
    <3>4. QED
      BY <2>1, <3>2, <3>3 DEF IInv, TypeOK
  <2>4. CASE \E f \in Flushers : FlushClose(f)
    BY <2>4 DEF FlushClose
  <2>5. CASE UNCHANGED <<closed, hdd>>
    BY <2>5
  <2>6. QED
    BY <2>2, <2>3, <2>4, <2>5
       DEF Next, Write, Flush, Call, Admit, Reject, Insert, CutMove, CutEnd, FlushLock,
           AtBound, vars, disk
<1>2. QED
  BY <1>1, Invariance, PTL DEF Spec, ClosedBlocksFixed
-----------------------------------------------------------------------------
(***************************************************************************)
(* The memory the buffer holds                                             *)
(***************************************************************************)

\* The slabs of the entries in memory, and those that flush() has freed and
\* not yet subtracted.
MemorySlab == [h \in InMemory |-> Slab(kv_store[h])]
Freed == IF wbuffer_lock \in Flushers THEN flushed_size[wbuffer_lock] ELSE 0

\* total_size is the sum of the slabs.
MemoryCounted == total_size = SumFunction(MemorySlab) + Freed

MInv ==
    /\ IsFiniteSet(InMemory)
    /\ MemoryCounted
    /\ \A f \in Flushers : fpc[f] # "writing" => flushed_size[f] = 0

\* Entries have slabs of at least a kilobyte.
LEMMA SlabTerms ==
    ASSUME IInv
    PROVE  MemorySlab \in [InMemory -> Nat]
<1>1. ASSUME NEW h \in InMemory PROVE Slab(kv_store[h]) \in Nat
  BY SlabOfEntry DEF InMemory, IInv, TypeOK, StoreLegal
<1> QED
  BY <1>1 DEF MemorySlab

\* At the start no memory is held.
LEMMA MInit == Init => MInv
<1> SUFFICES ASSUME Init PROVE MInv
  OBVIOUS
<1>1. InMemory = {} /\ IsFiniteSet({})
  BY FS_EmptySet DEF Init, InMemory
<1>2. MemorySlab \in [{} -> Nat]
  BY <1>1 DEF MemorySlab
<1>3. SumFunction(MemorySlab) = 0
  BY <1>2, SumOfNone
<1>4. Freed = 0 /\ total_size = 0
  BY ThreadAssumption DEF Init, Freed
<1> QED
  BY <1>1, <1>3, <1>4 DEF Init, MInv, MemoryCounted

\* An entry more.
LEMMA InsertMemory ==
    ASSUME IInv, MInv, NEW w \in Workers, Insert(w)
    PROVE  MInv'
<1>1. w \in Entering
  BY DEF Insert, Entering
<1>e. PICK e \in Entries : e = warg[w] /\ e.key \in Keys /\ e # None /\ Slab(e) \in Nat
  BY <1>1, NoneAssumption, SlabOfEntry DEF IInv, CallersReady, Entries
<1>h. PICK h \in Hashes : h = Hash[e.key]
  BY <1>e, DataAssumption
<1>2. /\ kv_store[h] = None /\ kv_store' = [kv_store EXCEPT ![h] = e]
      /\ total_size' = total_size + Slab(e)
      /\ wbuffer_lock = None /\ wbuffer_lock' \in Workers \cup {None}
      /\ UNCHANGED <<fpc, flushed_size>>
  BY <1>e, <1>h DEF Insert, flushers
<1>3. kv_store'[h] = e /\ \A x \in Hashes : x # h => kv_store'[x] = kv_store[x]
  BY <1>2 DEF IInv, TypeOK
<1>4. h \notin InMemory /\ InMemory' = InMemory \cup {h}
  BY <1>e, <1>2, <1>3 DEF InMemory
<1>5. IsFiniteSet(InMemory) /\ IsFiniteSet(InMemory') /\ MemorySlab \in [InMemory -> Nat]
  BY <1>4, SlabTerms, FS_AddElement DEF MInv
<1>6. SumFunction(MemorySlab') = Slab(e) + SumFunction(MemorySlab)
  <2>1. MemorySlab' = [x \in InMemory \cup {h} |-> Slab(kv_store'[x])]
    BY <1>4 DEF MemorySlab
  <2>2. ASSUME NEW x \in InMemory PROVE MemorySlab'[x] = MemorySlab[x]
    BY <1>3, <1>4, <2>1 DEF MemorySlab, InMemory
  <2>3. MemorySlab'[h] = Slab(e)
    BY <1>3, <2>1
  <2>4. MemorySlab' \in [InMemory \cup {h} -> Nat]
    <3>1. \A x \in InMemory \cup {h} : MemorySlab'[x] \in Nat
      BY <1>e, <1>5, <2>2, <2>3
    <3> QED
      BY <2>1, <3>1
  <2> QED
    BY <1>4, <1>5, <2>2, <2>3, <2>4, SumAdd
<1>7. Freed = 0 /\ Freed' = 0
  BY <1>2, ThreadAssumption DEF Freed
<1>8. MemoryCounted'
  <2>1. SumFunction(MemorySlab) \in Nat
    BY <1>5, SumBounded
  <2>2. total_size = SumFunction(MemorySlab)
    BY <1>7, <2>1 DEF MInv, MemoryCounted
  <2> QED
    BY <1>e, <1>2, <1>6, <1>7, <2>1, <2>2 DEF MemoryCounted
<1> QED
  BY <1>2, <1>5, <1>8 DEF MInv

\* An entry less, of which the slab is remembered.
LEMMA FlushEntryMemory ==
    ASSUME IInv, MInv, NEW f \in Flushers, FlushEntry(f)
    PROVE  MInv'
<1>0. fpc[f] = "writing"
  BY DEF FlushEntry
<1>b. PICK b \in BlockIds : b = fblk[f]
  BY <1>0, WriterAlone
<1>1. hdd[b] \in Seq(Entries) /\ blocks[b] \in Seq(Entries)
  BY DEF IInv, TypeOK
<1>n. PICK n \in Nat : n = Len(hdd[b]) + 1
  BY <1>1
<1>2. n \in Unwritten(b)
  BY <1>1, <1>b, <1>n DEF FlushEntry, Unwritten
<1>e. PICK e \in Entries : e = blocks[b][n]
  BY <1>2, SlotEntry DEF IInv
<1>h. PICK h \in Hashes : h = Hash[e.key]
  BY DataAssumption DEF Entries
<1>3. kv_store[h] = e /\ e # None
  BY <1>2, <1>e, <1>h, SlotEntry, NoneAssumption DEF IInv, SlotHash, Entries
<1>4. /\ flushed_size' = [flushed_size EXCEPT ![f] = @ + Slab(e)]
      /\ kv_store' = [kv_store EXCEPT ![h] = None]
      /\ UNCHANGED <<fpc, wbuffer_lock, total_size>>
  BY <1>b, <1>n, <1>e, <1>h DEF FlushEntry
<1>5. kv_store'[h] = None /\ \A x \in Hashes : x # h => kv_store'[x] = kv_store[x]
  BY <1>4 DEF IInv, TypeOK
<1>6. h \in InMemory /\ InMemory' = InMemory \ {h}
  BY <1>3, <1>5 DEF InMemory
<1>7. IsFiniteSet(InMemory) /\ IsFiniteSet(InMemory') /\ MemorySlab \in [InMemory -> Nat]
  BY <1>6, SlabTerms, FS_Subset DEF MInv
<1>8. Slab(e) \in Nat
  BY <1>3, SlabOfEntry DEF IInv, StoreLegal
<1>9. SumFunction(MemorySlab) = Slab(e) + SumFunction(MemorySlab') /\ SumFunction(MemorySlab') \in Nat
  <2> DEFINE S == InMemory \ {h}
             g == [x \in S |-> Slab(kv_store'[x])]
  <2>1. MemorySlab' = g
    BY <1>6 DEF MemorySlab
  <2>2. IsFiniteSet(S) /\ h \notin S /\ S \cup {h} = InMemory
    BY <1>6, <1>7
  <2>3. \A x \in S : g[x] = MemorySlab[x]
    BY <1>5 DEF MemorySlab, InMemory
  <2>4. g \in [S -> Nat]
    <3>1. \A x \in S : g[x] \in Nat
      BY <1>7, <2>3
    <3> QED
      BY <3>1
  <2>5. MemorySlab[h] = Slab(e)
    BY <1>3, <1>6 DEF MemorySlab
  <2> HIDE DEF S, g
  <2>6. SumFunction(MemorySlab) = MemorySlab[h] + SumFunction(g)
    BY <1>7, <2>2, <2>3, <2>4, SumAdd
  <2>7. SumFunction(g) \in Nat
    BY <2>2, <2>4, SumBounded
  <2> QED
    BY <2>1, <2>5, <2>6, <2>7
<1>10. Freed' = Freed + Slab(e) /\ Freed \in Nat
  <2>1. wbuffer_lock = f
    BY <1>0, WriterAlone
  <2>2. flushed_size'[f] = flushed_size[f] + Slab(e) /\ flushed_size[f] \in Nat
    BY <1>4 DEF IInv, TypeOK
  <2> QED
    BY <1>4, <2>1, <2>2 DEF Freed
<1>11. MemoryCounted'
  BY <1>4, <1>8, <1>9, <1>10 DEF MInv, MemoryCounted
<1>12. \A g \in Flushers : fpc'[g] # "writing" => flushed_size'[g] = 0
  <2>1. \A g \in Flushers : g # f => flushed_size'[g] = flushed_size[g]
    BY <1>4 DEF IInv, TypeOK
  <2> QED
    BY <1>0, <1>4, <2>1 DEF MInv
<1> QED
  BY <1>7, <1>11, <1>12 DEF MInv

\* What was freed is subtracted.
LEMMA FlushCloseMemory ==
    ASSUME IInv, MInv, NEW f \in Flushers, FlushClose(f)
    PROVE  MInv'
<1>1. /\ fpc[f] = "writing" /\ fpc' = [fpc EXCEPT ![f] = "idle"]
      /\ total_size' = total_size - flushed_size[f]
      /\ flushed_size' = [flushed_size EXCEPT ![f] = 0]
      /\ wbuffer_lock' = None /\ kv_store' = kv_store
  BY DEF FlushClose
<1>2. wbuffer_lock = f /\ flushed_size[f] \in Nat
  BY <1>1, WriterAlone DEF IInv, TypeOK
<1>3. Freed = flushed_size[f] /\ Freed' = 0
  BY <1>1, <1>2, ThreadAssumption DEF Freed
<1>4. InMemory' = InMemory /\ MemorySlab' = MemorySlab
  BY <1>1 DEF InMemory, MemorySlab
<1>5. SumFunction(MemorySlab) \in Nat
  BY SlabTerms, SumBounded DEF MInv
<1>6. MemoryCounted'
  BY <1>1, <1>2, <1>3, <1>4, <1>5 DEF MInv, MemoryCounted
<1>7. \A g \in Flushers : fpc'[g] # "writing" => flushed_size'[g] = 0
  <2>1. flushed_size'[f] = 0 /\ \A g \in Flushers : g # f => flushed_size'[g] = flushed_size[g] /\ fpc'[g] = fpc[g]
    BY <1>1 DEF IInv, TypeOK
  <2> QED
    BY <2>1 DEF MInv
<1> QED
  BY <1>4, <1>6, <1>7 DEF MInv

\* The other steps neither take nor free memory.
LEMMA SameMemory ==
    ASSUME IInv, MInv, UNCHANGED <<kv_store, total_size>>, Freed' = Freed,
           \A f \in Flushers : fpc'[f] # "writing" => flushed_size'[f] = 0
    PROVE  MInv'
BY DEF MInv, MemoryCounted, InMemory, MemorySlab

\* Every step keeps total_size the sum of the slabs.
LEMMA MStep == IInv /\ MInv /\ [Next]_vars => MInv'
<1> SUFFICES ASSUME IInv, MInv, [Next]_vars PROVE MInv'
  OBVIOUS
<1>1. ASSUME NEW w \in Workers, NEW k \in Keys, NEW v \in Values, Call(w, k, v) PROVE MInv'
  BY <1>1, SameMemory DEF Call, buffer, flushers, Freed, MInv
<1>2. ASSUME NEW w \in Workers, Admit(w) \/ Reject(w) \/ CutMove(w) PROVE MInv'
  BY <1>2, SameMemory DEF Admit, Reject, CutMove, buffer, flushers, Freed, MInv
<1>3. ASSUME NEW w \in Workers, CutEnd(w) PROVE MInv'
  <2>1. wbuffer_lock = w /\ wbuffer_lock' = None
    BY <1>3 DEF CutEnd, IInv, LockHeld
  <2>2. Freed = 0 /\ Freed' = 0
    BY <2>1, ThreadAssumption DEF Freed
  <2> QED
    BY <1>3, <2>2, SameMemory DEF CutEnd, buffer, MInv
<1>4. ASSUME NEW f \in Flushers, FlushOpen(f) PROVE MInv'
  <2>1. /\ fpc[f] = "idle" /\ fpc' = [fpc EXCEPT ![f] = "opened"]
        /\ flushed_size' = [flushed_size EXCEPT ![f] = 0]
        /\ UNCHANGED <<kv_store, total_size, wbuffer_lock>>
    BY <1>4 DEF FlushOpen, buffer
  <2>2. /\ flushed_size'[f] = 0 /\ flushed_size[f] = 0
        /\ \A g \in Flushers : g # f => flushed_size'[g] = flushed_size[g] /\ fpc'[g] = fpc[g]
    BY <2>1 DEF IInv, TypeOK, MInv
  <2>3. Freed' = Freed
    BY <2>1, <2>2 DEF Freed
  <2> QED
    BY <2>1, <2>2, <2>3, SameMemory DEF MInv
<1>5. ASSUME NEW f \in Flushers, FlushLock(f) PROVE MInv'
  <2>1. /\ fpc[f] = "opened" /\ fpc' = [fpc EXCEPT ![f] = "writing"]
        /\ wbuffer_lock = None /\ wbuffer_lock' = f
        /\ UNCHANGED <<kv_store, total_size, flushed_size>>
    BY <1>5 DEF FlushLock, buffer
  <2>2. flushed_size[f] = 0 /\ \A g \in Flushers : g # f => fpc'[g] = fpc[g]
    BY <2>1 DEF IInv, TypeOK, MInv
  <2>3. fpc'[f] = "writing"
    BY <2>1 DEF IInv, TypeOK
  <2>4. Freed = 0 /\ Freed' = 0
    BY <2>1, <2>2, ThreadAssumption DEF Freed
  <2> QED
    BY <2>1, <2>2, <2>3, <2>4, SameMemory DEF MInv
<1>6. CASE AtBound \/ UNCHANGED vars
  BY <1>6, SameMemory DEF AtBound, vars, buffer, flushers, Freed, MInv
<1> QED
  BY <1>1, <1>2, <1>3, <1>4, <1>5, <1>6, InsertMemory, FlushEntryMemory, FlushCloseMemory
  DEF Next, Write, Flush

\* MInv holds throughout.
LEMMA MInvariance == Spec => []MInv
BY MInit, MStep, Invariance, PTL DEF Spec

\* total_size is the memory the buffer holds: the slabs of the entries there
\* are, and during a flush of those it has freed (WriteBuffer.cpp:86, 131-147).
THEOREM MemoryIsCounted == Spec => []MemoryCounted
<1>1. MInv => MemoryCounted
  BY DEF MInv
<1> QED
  BY <1>1, MInvariance, PTL

\* So what is held, and not only what is counted, passes the limit by at most
\* one slab for each caller.
THEOREM MemoryIsBounded ==
    Spec => [](SumFunction(MemorySlab) <= BufferLimit + Cardinality(Workers) * MaxLength)
<1>1. IInv /\ MInv /\ OvershootBounded => SumFunction(MemorySlab) <= BufferLimit + Cardinality(Workers) * MaxLength
  <2> SUFFICES ASSUME IInv, MInv, OvershootBounded
               PROVE  SumFunction(MemorySlab) <= BufferLimit + Cardinality(Workers) * MaxLength
    OBVIOUS
  <2>1. SumFunction(MemorySlab) \in Nat
    BY SlabTerms, SumBounded DEF MInv
  <2>2. Freed \in Nat
    BY DEF Freed, IInv, TypeOK
  <2>3. total_size = SumFunction(MemorySlab) + Freed /\ total_size <= BufferLimit + Cardinality(Workers) * MaxLength
    BY DEF MInv, MemoryCounted, OvershootBounded
  <2> DEFINE n == BufferLimit + Cardinality(Workers) * MaxLength
  <2>4. n \in Int
    <3>1. Cardinality(Workers) \in Nat
      BY ThreadAssumption, FS_CardinalityType
    <3>2. Cardinality(Workers) * MaxLength \in Int
      BY <3>1, SlabTable
    <3> QED
      BY <3>2, Limits
  <2> HIDE DEF n
  <2>5. SumFunction(MemorySlab) <= n
    BY <2>1, <2>2, <2>3, <2>4 DEF n
  <2> QED
    BY <2>5 DEF n
<1> QED
  BY <1>1, MInvariance, Invariance, OvershootIsBounded, PTL
-----------------------------------------------------------------------------
(***************************************************************************)
(* Refinement: if no two keys have one hash, the buffer, the block files   *)
(* and the index are together a map from keys to contents.                 *)
(***************************************************************************)

HashInjective == \A k, l \in Keys : Hash[k] = Hash[l] => k = l

\* A key reads the same where the state it reads is the same.
LEMMA SameLookup ==
    ASSUME UNCHANGED <<kv_store, hdd, index>>, NEW k \in Keys
    PROVE  Lookup(k)' = Lookup(k)
BY DEF Lookup

\* An accepted write changes what its key reads as, and no other key.
LEMMA InsertIsPut ==
    ASSUME IInv, HashInjective, NEW w \in Workers, Insert(w)
    PROVE  \E k \in Keys, v \in Values : KV!Put(k, v)
<1>1. w \in Entering
  BY DEF Insert, Entering
<1>2. warg[w] \in Entries
  BY <1>1 DEF IInv, CallersReady
<1>e. PICK e \in Entries : e = warg[w]
  BY <1>2
<1>3. e.key \in Keys /\ e.value \in Values /\ Hash[e.key] \in Hashes /\ e # None
  BY DataAssumption, NoneAssumption DEF Entries
<1>4. kv_store' = [kv_store EXCEPT ![Hash[e.key]] = e] /\ UNCHANGED <<hdd, index>>
  BY <1>e DEF Insert, disk
<1>5. kv_store'[Hash[e.key]] = e
  BY <1>3, <1>4 DEF IInv, TypeOK
<1>6. Lookup(e.key)' = e.value
  BY <1>3, <1>5 DEF Lookup
<1>7. ASSUME NEW k \in Keys, k # e.key
      PROVE  Lookup(k)' = Lookup(k)
  <2>1. Hash[k] # Hash[e.key] /\ Hash[k] \in Hashes
    BY <1>3, <1>7, DataAssumption DEF HashInjective
  <2>2. kv_store'[Hash[k]] = kv_store[Hash[k]]
    BY <1>4, <2>1 DEF IInv, TypeOK
  <2>3. QED
    BY <1>4, <2>2 DEF Lookup
<1>8. [k \in Keys |-> Lookup(k)]' = [[k \in Keys |-> Lookup(k)] EXCEPT ![e.key] = e.value]
  BY <1>3, <1>6, <1>7
<1>9. KV!Put(e.key, e.value)
  BY <1>8 DEF KV!Put
<1>10. QED
  BY <1>3, <1>9

\* Moving an entry from memory to its block file is not seen.
LEMMA FlushEntryNotSeen ==
    ASSUME IInv, HashInjective, NEW f \in Flushers, FlushEntry(f), NEW k \in Keys
    PROVE  Lookup(k)' = Lookup(k)
<1>1. fpc[f] = "writing"
  BY DEF FlushEntry
<1>b. PICK b \in BlockIds : b = fblk[f]
  BY <1>1, WriterAlone
<1>2. hdd[b] \in Seq(Entries) /\ blocks[b] \in Seq(Entries)
  BY DEF IInv, TypeOK
<1>n. PICK n \in Nat : n = Len(hdd[b]) + 1
  BY <1>2
<1>3. n \in Unwritten(b)
  BY <1>2, <1>b, <1>n DEF FlushEntry, Unwritten
<1>e. PICK e \in Entries : e = blocks[b][n]
  BY <1>3, SlotEntry DEF IInv
<1>4. e.key \in Keys /\ Hash[e.key] \in Hashes /\ e # None /\ Hash[k] \in Hashes
  BY DataAssumption, NoneAssumption DEF Entries
<1>5. kv_store[Hash[e.key]] = e
  BY <1>3, <1>e, SlotEntry DEF IInv, SlotHash
<1>6. /\ hdd' = [hdd EXCEPT ![b] = Append(@, e)]
      /\ index' = [index EXCEPT ![e.key] = [block |-> b, pos |-> n]]
      /\ kv_store' = [kv_store EXCEPT ![Hash[e.key]] = None]
  BY <1>b, <1>n, <1>e DEF FlushEntry
<1>7. /\ hdd'[b] = Append(hdd[b], e)
      /\ \A c \in BlockIds : c # b => hdd'[c] = hdd[c]
  BY <1>6 DEF IInv, TypeOK
<1>8. CASE k = e.key
  <2>1. kv_store'[Hash[k]] = None /\ index'[k] = [block |-> b, pos |-> n]
    BY <1>4, <1>6, <1>8 DEF IInv, TypeOK
  <2>2. hdd'[b][n] = e
    BY <1>2, <1>7, <1>n
  <2>3. index'[k] # None
    <3>1. [block |-> b, pos |-> n] \in [block : Nat, pos : Nat]
      BY SizeAssumption DEF BlockIds
    <3>2. QED
      BY <2>1, <3>1, NoneAssumption
  <2>4. Lookup(k)' = e.value
    BY <2>1, <2>2, <2>3 DEF Lookup
  <2>5. Lookup(k) = e.value
    BY <1>4, <1>5, <1>8 DEF Lookup
  <2>6. QED
    BY <2>4, <2>5
<1>9. CASE k # e.key
  <2>1. Hash[k] # Hash[e.key]
    BY <1>4, <1>9 DEF HashInjective
  <2>2. kv_store'[Hash[k]] = kv_store[Hash[k]] /\ index'[k] = index[k]
    BY <1>4, <1>6, <1>9, <2>1 DEF IInv, TypeOK
  <2>3. CASE index[k] = None
    BY <2>2, <2>3 DEF Lookup
  <2>4. CASE index[k] # None
    <3>1. PICK c \in BlockIds, p \in Nat \ {0} : index[k] = [block |-> c, pos |-> p]
      BY <2>4 DEF IInv, TypeOK
    <3>2. p <= Len(hdd[c])
      BY <2>4, <3>1 DEF IInv, IndexSound
    <3>3. hdd'[c][p] = hdd[c][p]
      <4>1. CASE c = b
        BY <1>2, <1>7, <3>2, <4>1
      <4>2. CASE c # b
        BY <1>7, <4>2
      <4>3. QED
        BY <4>1, <4>2
    <3>4. QED
      BY <2>2, <3>1, <3>3 DEF Lookup
  <2>5. QED
    BY <2>3, <2>4
<1>10. QED
  BY <1>8, <1>9

\* Creating the file of a block is not seen: the file was empty or not there.
LEMMA FlushOpenNotSeen ==
    ASSUME IInv, NEW f \in Flushers, FlushOpen(f), NEW k \in Keys
    PROVE  Lookup(k)' = Lookup(k)
<1>1. /\ pending # <<>> /\ hdd' = [hdd EXCEPT ![Head(pending)] = <<>>]
      /\ UNCHANGED <<kv_store, index>>
  BY DEF FlushOpen, buffer
<1>2. hdd[Head(pending)] = <<>>
  <2>1. pending \in Seq(BlockIds)
    BY DEF IInv, TypeOK
  <2>2. 1 \in DOMAIN pending /\ Head(pending) = pending[1]
    BY <1>1, <2>1
  <2>3. QED
    BY <2>2 DEF IInv, BlockStages
<1>3. hdd' = hdd
  <2>1. hdd = [c \in BlockIds |-> hdd[c]]
    BY DEF IInv, TypeOK
  <2>2. QED
    BY <1>1, <1>2, <2>1
<1>4. QED
  BY <1>1, <1>3, SameLookup

\* The buffer implements the map.
THEOREM Refinement == ASSUME HashInjective PROVE Spec => RefinesKVMap
<1>1. Init => KV!Init
  <2> SUFFICES ASSUME Init PROVE KV!Init
    OBVIOUS
  <2>1. ASSUME NEW k \in Keys PROVE Lookup(k) = None
    BY DataAssumption DEF Init, Lookup
  <2>2. QED
    BY <2>1 DEF KV!Init
<1>2. IInv /\ [Next]_vars => [KV!Next]_([k \in Keys |-> Lookup(k)])
  <2> SUFFICES ASSUME IInv, [Next]_vars
               PROVE  [KV!Next]_([k \in Keys |-> Lookup(k)])
    OBVIOUS
  <2>1. CASE \E w \in Workers : Insert(w)
    BY <2>1, InsertIsPut DEF KV!Next
  <2>2. ASSUME \A k \in Keys : Lookup(k)' = Lookup(k)
        PROVE  UNCHANGED [k \in Keys |-> Lookup(k)]
    BY <2>2
  <2>3. CASE \E f \in Flushers : FlushEntry(f)
    BY <2>2, <2>3, FlushEntryNotSeen
  <2>4. CASE \E f \in Flushers : FlushOpen(f)
    BY <2>2, <2>4, FlushOpenNotSeen
  <2>5. CASE UNCHANGED <<kv_store, hdd, index>>
    BY <2>2, <2>5, SameLookup
  <2>6. QED
    BY <2>1, <2>3, <2>4, <2>5
       DEF Next, Write, Flush, Call, Admit, Reject, CutMove, CutEnd, FlushLock,
           FlushClose, AtBound, vars, buffer, disk
<1>3. QED
  BY <1>1, <1>2, Invariance, PTL DEF Spec, RefinesKVMap, KV!Spec
-----------------------------------------------------------------------------
(***************************************************************************)
(* The store, MogStore                                                     *)
(***************************************************************************)

\* A worker that has a request knows its key.
KeyKnown ==
    /\ rpc \in [Workers -> {"idle", "buffer", "cache", "index", "disk", "insert",
                            "file", "write", "reply"}]
    /\ rkey \in [Workers -> Keys \cup {None}]
    /\ \A w \in Workers : rpc[w] # "idle" => rkey[w] \in Keys

\* The steps of workers that leave the buffer alone.
Aside(w) ==
    \/ \E k \in Keys : Request(w, k)
    \/ BufferRead(w) \/ CacheHit(w) \/ CacheMiss(w) \/ IndexGet(w) \/ DiskRead(w)
    \/ CacheInsert(w) \/ FileOnly(w) \/ Stored(w) \/ Reply(w)
Copying == \E b \in BlockIds : SsdCopy(b) \/ SsdEvict(b)

\* The steps of the store, sorted by what they do to the buffer.
LEMMA StoreSteps ==
    StoreNext <=> \/ \E w \in Workers : Aside(w)
                  \/ \E w \in Workers : FileStore(w)
                  \/ BufferStep
                  \/ Copying
BY DEF StoreNext, ReadLocal, Aside, Copying

\* Steps beside the buffer leave it alone.
LEMMA AsideLeavesBuffer ==
    ASSUME NEW w \in Workers, Aside(w)
    PROVE  UNCHANGED vars
BY DEF Aside, Request, BufferRead, CacheHit, CacheMiss, IndexGet, DiskRead,
       CacheInsert, FileOnly, Stored, Reply

\* Where a worker goes after the read.
LEMMA AfterReadIs == \A v : AfterRead(v) \in {"file", "reply"}
BY DEF AfterRead

\* Keys stay known.
LEMMA KeyKnownStep ==
    ASSUME KeyKnown, [StoreNext]_storeVars
    PROVE  KeyKnown'
<1>1. ASSUME NEW w \in Workers, Aside(w)
      PROVE  KeyKnown'
  <2>1. CASE \E k \in Keys : Request(w, k)
    BY <2>1 DEF KeyKnown, Request, At
  <2>2. CASE BufferRead(w)
    BY <2>2 DEF KeyKnown, BufferRead, At
  <2>3. CASE CacheHit(w)
    BY <2>3, AfterReadIs DEF KeyKnown, CacheHit, At
  <2>4. CASE CacheMiss(w) \/ IndexGet(w) \/ DiskRead(w)
    BY <2>4 DEF KeyKnown, CacheMiss, IndexGet, DiskRead, At
  <2>5. CASE CacheInsert(w)
    BY <2>5, AfterReadIs DEF KeyKnown, CacheInsert, At
  <2>6. CASE FileOnly(w) \/ Stored(w)
    BY <2>6 DEF KeyKnown, FileOnly, Stored, At
  <2>7. CASE Reply(w)
    BY <2>7 DEF KeyKnown, Reply, At
  <2>8. QED
    BY <1>1, <2>1, <2>2, <2>3, <2>4, <2>5, <2>6, <2>7 DEF Aside
<1>2. ASSUME NEW w \in Workers, FileStore(w)
      PROVE  KeyKnown'
  BY <1>2 DEF KeyKnown, FileStore, At
<1>3. CASE BufferStep \/ Copying \/ UNCHANGED storeVars
  BY <1>3 DEF KeyKnown, BufferStep, Copying, SsdCopy, SsdEvict, storeVars, reading
<1>4. QED
  BY <1>1, <1>2, <1>3, StoreSteps

\* The hashed keys in the buffer are known in every state.
LEMMA KeyKnownInvariance == StoreSpec => []KeyKnown
<1>1. StoreInit => KeyKnown
  BY DEF StoreInit, KeyKnown
<1>2. QED
  BY <1>1, KeyKnownStep, PTL DEF StoreSpec

\* Every step of the store is a step of the buffer, or none.
LEMMA StoreStepIsBufferStep ==
    ASSUME KeyKnown, [StoreNext]_storeVars
    PROVE  [Next]_vars
<1>1. CASE \E w \in Workers : Aside(w)
  BY <1>1, AsideLeavesBuffer
<1>2. ASSUME NEW w \in Workers, FileStore(w)
      PROVE  Next
  <2>1. rkey[w] \in Keys
    BY <1>2 DEF KeyKnown, FileStore, At
  <2>2. File[rkey[w]] \in Values /\ Call(w, rkey[w], File[rkey[w]])
    BY <1>2, <2>1, StoreAssumption DEF FileStore
  <2>3. QED
    BY <2>1, <2>2 DEF Next
<1>3. CASE BufferStep
  BY <1>3 DEF BufferStep, Next
<1>4. CASE Copying \/ UNCHANGED storeVars
  BY <1>4 DEF Copying, SsdCopy, SsdEvict, storeVars
<1>5. QED
  BY <1>1, <1>2, <1>3, <1>4, StoreSteps

\* mog::read_file uses the buffer as its specification allows, so that every
\* theorem about the buffer holds in the store.
THEOREM StoreImplementsBuffer == StoreSpec => Spec
<1>1. StoreInit => Init
  BY DEF StoreInit
<1>2. KeyKnown /\ [StoreNext]_storeVars => [Next]_vars
  BY StoreStepIsBufferStep
<1>3. QED
  BY <1>1, <1>2, KeyKnownInvariance, PTL DEF StoreSpec, Spec
-----------------------------------------------------------------------------
(***************************************************************************)
(* What is in memory, in block files and on its way to a reply             *)
(***************************************************************************)

\* An entry with the contents of the file of its key.
Held(e) == e.value = File[e.key] /\ Length[e.value] <= MaxLength

AllHeld ==
    /\ \A h \in Hashes : kv_store[h] # None => Held(kv_store[h])
    /\ \A b \in BlockIds : \A i \in DOMAIN blocks[b] : Held(blocks[b][i])
    /\ \A b \in BlockIds : \A i \in DOMAIN hdd[b] : Held(hdd[b][i])
    /\ \A w \in Workers : warg[w] # None => Held(warg[w])

\* A place in a block file that holds an entry of key k.
PlaceOf(loc, k) ==
    /\ loc \in [block : BlockIds, pos : Nat \ {0}]
    /\ loc.pos <= Len(hdd[loc.block])
    /\ hdd[loc.block][loc.pos].key = k

Located == \A w \in Workers : rpc[w] \in {"disk", "insert"} => PlaceOf(rloc[w], rkey[w])

\* What a worker has in its memory, for its caller: the file, if it is not empty
\* and no read of it was short.
Right(k, bytes) == FileLength(k) > 0 /\ k \notin shortRead => bytes = File[k]

ObtainedBy(w) ==
    /\ rpc[w] \in {"insert", "reply"} => Right(rkey[w], mog_data[w])
    /\ rpc[w] = "reply" => rlen[w] = FileLength(rkey[w])
    /\ rpc[w] = "write" => File[rkey[w]] # None
Obtained == \A w \in Workers : ObtainedBy(w)

\* What the RAM cache has.
CachedRight == \A k \in Keys : \A i \in DOMAIN cached_item[k] :
    /\ cached_item[k][i].length = FileLength(k)
    /\ Right(k, cached_item[k][i].bytes)

RInv == StoreTypeOK /\ KeyKnown /\ AllHeld /\ Located /\ Obtained /\ CachedRight

\* The invariant of the store holds at the start.
LEMMA StoreInitInv == StoreInit => RInv
<1> SUFFICES ASSUME StoreInit PROVE RInv
  OBVIOUS
<1>1. slab_num \in Nat
  BY StoreAssumption DEF slab_num
<1>2. StoreTypeOK
  BY <1>1 DEF StoreInit, StoreTypeOK
<1>3. AllHeld
  BY DEF StoreInit, Init, AllHeld
<1>4. KeyKnown /\ Located /\ Obtained /\ CachedRight
  BY DEF StoreInit, KeyKnown, Located, Obtained, ObtainedBy, CachedRight
<1>5. QED
  BY <1>2, <1>3, <1>4 DEF RInv

\* The steps of the buffer and the contents of entries.
LEMMA BufferHolds ==
    ASSUME IInv, AllHeld, BufferStep
    PROVE  AllHeld'
<1>1. ASSUME NEW w \in Workers, Admit(w) \/ Reject(w) \/ CutEnd(w)
      PROVE  AllHeld'
  <2>1. UNCHANGED <<kv_store, blocks, hdd>>
    BY <1>1 DEF Admit, Reject, CutEnd, buffer, disk
  <2>2. warg' = warg \/ warg' = [warg EXCEPT ![w] = None]
    BY <1>1 DEF Admit, Reject, CutEnd
  <2>3. \A v \in Workers : warg'[v] # None => warg'[v] = warg[v]
    BY <2>2 DEF IInv, TypeOK
  <2>4. QED
    BY <2>1, <2>3 DEF AllHeld, Held
<1>2. ASSUME NEW w \in Workers, Insert(w)
      PROVE  AllHeld'
  <2>1. warg[w] \in Entries /\ warg[w] # None
    BY <1>2, NoneAssumption DEF IInv, CallersReady, Entering, Insert, Entries
  <2>2. Held(warg[w])
    BY <2>1 DEF AllHeld
  <2>3. /\ kv_store' = [kv_store EXCEPT ![Hash[warg[w].key]] = warg[w]]
        /\ warg' = [warg EXCEPT ![w] = None]
        /\ UNCHANGED <<blocks, hdd>>
    BY <1>2 DEF Insert, disk
  <2>4. QED
    BY <2>2, <2>3 DEF AllHeld, Held, IInv, TypeOK
<1>3. ASSUME NEW w \in Workers, CutMove(w)
      PROVE  AllHeld'
  <2>1. wpc[w] = "cutting"
    BY <1>3 DEF CutMove
  <2>2. latest_block_id \in BlockIds /\ kv_list # <<>>
    BY <2>1 DEF IInv, BlockStages, QueueSized, Cutting
  <2>3. Head(kv_list) = kv_list[1] /\ 1 \in DOMAIN kv_list
    BY <2>2 DEF IInv, TypeOK
  <2>4. kv_store[Head(kv_list)] # None /\ Head(kv_list) \in Hashes
    BY <2>2, <2>3 DEF IInv, TypeOK, FreedOnce
  <2>e. PICK e \in Entries : e = kv_store[Head(kv_list)] /\ Held(e)
    BY <2>4 DEF IInv, TypeOK, AllHeld
  <2>5. /\ blocks' = [blocks EXCEPT ![latest_block_id] = Append(@, e)]
        /\ UNCHANGED <<kv_store, warg, hdd>>
    BY <1>3, <2>e DEF CutMove, callers, disk
  <2>6. blocks[latest_block_id] \in Seq(Entries)
    BY <2>2 DEF IInv, TypeOK
  <2>7. \A i \in DOMAIN blocks'[latest_block_id] : Held(blocks'[latest_block_id][i])
    BY <2>2, <2>e, <2>5, <2>6 DEF AllHeld, IInv, TypeOK
  <2>8. \A b \in BlockIds : b # latest_block_id => blocks'[b] = blocks[b]
    BY <2>5 DEF IInv, TypeOK
  <2>9. \A b \in BlockIds : \A i \in DOMAIN blocks'[b] : Held(blocks'[b][i])
    BY <2>7, <2>8 DEF AllHeld
  <2>10. QED
    BY <2>5, <2>9 DEF AllHeld, Held
<1>4. ASSUME NEW f \in Flushers, FlushOpen(f) \/ FlushLock(f)
      PROVE  AllHeld'
  <2>1. hdd' = hdd \/ hdd' = [hdd EXCEPT ![Head(pending)] = <<>>]
    BY <1>4 DEF FlushOpen, FlushLock, disk
  <2>2. UNCHANGED <<kv_store, blocks, warg>>
    BY <1>4 DEF FlushOpen, FlushLock, buffer, callers
  <2>3. \A b \in BlockIds : hdd'[b] = hdd[b] \/ hdd'[b] = <<>>
    BY <2>1 DEF IInv, TypeOK
  <2>4. \A b \in BlockIds : \A i \in DOMAIN hdd'[b] : Held(hdd'[b][i])
    BY <2>3 DEF AllHeld
  <2>5. QED
    BY <2>2, <2>4 DEF AllHeld, Held
<1>5. ASSUME NEW f \in Flushers, FlushEntry(f)
      PROVE  AllHeld'
  <2>1. fpc[f] = "writing"
    BY <1>5 DEF FlushEntry
  <2>b. PICK b \in BlockIds : b = fblk[f]
    BY <2>1, WriterAlone
  <2>2. hdd[b] \in Seq(Entries) /\ blocks[b] \in Seq(Entries)
    BY DEF IInv, TypeOK
  <2>n. PICK n \in Nat : n = Len(hdd[b]) + 1
    BY <2>2
  <2>3. n \in DOMAIN blocks[b]
    BY <1>5, <2>2, <2>b, <2>n DEF FlushEntry
  <2>e. PICK e \in Entries : e = blocks[b][n] /\ Held(e)
    BY <2>2, <2>3 DEF AllHeld
  <2>4. /\ hdd' = [hdd EXCEPT ![b] = Append(@, e)]
        /\ kv_store' = [kv_store EXCEPT ![Hash[e.key]] = None]
        /\ UNCHANGED <<blocks, warg>>
    BY <1>5, <2>b, <2>n, <2>e DEF FlushEntry, callers
  <2>5. \A c \in BlockIds : \A i \in DOMAIN hdd'[c] : Held(hdd'[c][i])
    <3>1. \A i \in DOMAIN hdd'[b] : Held(hdd'[b][i])
      BY <2>2, <2>4, <2>e DEF AllHeld, IInv, TypeOK
    <3>2. \A c \in BlockIds : c # b => hdd'[c] = hdd[c]
      BY <2>4 DEF IInv, TypeOK
    <3>3. QED
      BY <3>1, <3>2 DEF AllHeld
  <2>6. QED
    BY <2>4, <2>5 DEF AllHeld, Held, IInv, TypeOK
<1>6. ASSUME NEW f \in Flushers, FlushClose(f)
      PROVE  AllHeld'
  <2>1. blocks' = [blocks EXCEPT ![fblk[f]] = <<>>] /\ UNCHANGED <<kv_store, hdd, warg>>
    BY <1>6 DEF FlushClose, callers
  <2>2. \A b \in BlockIds : blocks'[b] = blocks[b] \/ blocks'[b] = <<>>
    BY <2>1 DEF IInv, TypeOK
  <2>3. \A b \in BlockIds : \A i \in DOMAIN blocks'[b] : Held(blocks'[b][i])
    BY <2>2 DEF AllHeld
  <2>4. QED
    BY <2>1, <2>3 DEF AllHeld, Held
<1>7. QED
  BY <1>1, <1>2, <1>3, <1>4, <1>5, <1>6 DEF BufferStep, Write, Flush

\* A place in a block file stays what it is.
LEMMA PlacesStay ==
    ASSUME IInv, BufferStep, NEW k \in Keys, NEW loc, PlaceOf(loc, k)
    PROVE  PlaceOf(loc, k)'
<1>1. loc.block \in BlockIds /\ loc.pos \in Nat \ {0} /\ hdd[loc.block] \in Seq(Entries)
  BY DEF PlaceOf, IInv, TypeOK
<1>2. ASSUME NEW f \in Flushers, FlushOpen(f)
      PROVE  PlaceOf(loc, k)'
  <2>1. pending # <<>> /\ hdd' = [hdd EXCEPT ![Head(pending)] = <<>>]
    BY <1>2 DEF FlushOpen
  <2>2. hdd[Head(pending)] = <<>>
    <3>1. pending \in Seq(BlockIds)
      BY DEF IInv, TypeOK
    <3>2. 1 \in DOMAIN pending /\ Head(pending) = pending[1]
      BY <2>1, <3>1
    <3>3. QED
      BY <3>2 DEF IInv, BlockStages
  <2>3. Head(pending) # loc.block
    BY <1>1, <2>2 DEF PlaceOf
  <2>4. hdd'[loc.block] = hdd[loc.block]
    BY <1>1, <2>1, <2>3 DEF IInv, TypeOK
  <2>5. QED
    BY <2>4 DEF PlaceOf
<1>3. ASSUME NEW f \in Flushers, FlushEntry(f)
      PROVE  PlaceOf(loc, k)'
  <2>b. PICK b \in BlockIds : b = fblk[f]
    BY <1>3, WriterAlone DEF FlushEntry
  <2>1. hdd' = [hdd EXCEPT ![b] = Append(@, blocks[b][Len(hdd[b]) + 1])]
    BY <1>3, <2>b DEF FlushEntry
  <2>2. CASE loc.block # b
    <3>1. hdd'[loc.block] = hdd[loc.block]
      BY <1>1, <2>1, <2>2 DEF IInv, TypeOK
    <3>2. QED
      BY <3>1 DEF PlaceOf
  <2>3. CASE loc.block = b
    <3>1. hdd'[b] = Append(hdd[b], blocks[b][Len(hdd[b]) + 1])
      BY <2>1 DEF IInv, TypeOK
    <3>2. Len(hdd'[b]) = Len(hdd[b]) + 1 /\ hdd'[b][loc.pos] = hdd[b][loc.pos]
      BY <1>1, <2>3, <3>1 DEF PlaceOf
    <3>3. QED
      BY <1>1, <2>3, <3>2 DEF PlaceOf
  <2>4. QED
    BY <2>2, <2>3
<1>4. CASE UNCHANGED hdd
  BY <1>4 DEF PlaceOf
<1>5. QED
  BY <1>2, <1>3, <1>4
     DEF BufferStep, Write, Flush, Admit, Reject, Insert, CutMove, CutEnd, FlushLock,
         FlushClose, disk

\* The steps of the buffer, what workers have and where they look.
LEMMA BufferStepInv ==
    ASSUME IInv, RInv, BufferStep
    PROVE  RInv'
<1>1. UNCHANGED <<reading, copies, caches, mog_total_size>>
  BY DEF BufferStep
<1>2. StoreTypeOK' /\ KeyKnown' /\ Obtained' /\ CachedRight'
  <2>1. StoreTypeOK' /\ KeyKnown'
    BY <1>1 DEF RInv, StoreTypeOK, KeyKnown, reading, copies, caches
  <2>2. Obtained' /\ CachedRight'
    BY <1>1 DEF RInv, Obtained, ObtainedBy, Right, CachedRight, reading, copies, caches
  <2> QED
    BY <2>1, <2>2
<1>3. ASSUME NEW w \in Workers, rpc'[w] \in {"disk", "insert"}
      PROVE  PlaceOf(rloc[w], rkey[w])' 
  <2>1. rpc[w] \in {"disk", "insert"} /\ UNCHANGED <<rloc, rkey>>
    BY <1>1, <1>3 DEF reading
  <2>2. PlaceOf(rloc[w], rkey[w]) /\ rkey[w] \in Keys
    BY <2>1 DEF RInv, Located, KeyKnown
  <2>k. PICK k \in Keys, loc \in {rloc[w]} : k = rkey[w]
    BY <2>2
  <2>3. PlaceOf(loc, k)'
    BY <2>2, <2>k, PlacesStay
  <2>4. QED
    BY <2>1, <2>3, <2>k DEF PlaceOf
<1>4. Located'
  BY <1>3 DEF Located
<1>5. QED
  BY <1>2, <1>4, BufferHolds DEF RInv

\* The entry at a place is that of the key's file, and has a slab.
LEMMA PlaceHolds ==
    ASSUME IInv, RInv, NEW k \in Keys, NEW loc, PlaceOf(loc, k)
    PROVE  /\ hdd[loc.block][loc.pos].value = File[k]
           /\ File[k] \in Values
           /\ Slabs(hdd[loc.block][loc.pos].value) \in Nat
<1>1. loc.block \in BlockIds /\ loc.pos \in DOMAIN hdd[loc.block]
  BY DEF PlaceOf, IInv, TypeOK
<1>e. PICK e \in Entries : e = hdd[loc.block][loc.pos]
  BY <1>1 DEF IInv, TypeOK
<1>2. Held(e)
  BY <1>1, <1>e DEF RInv, AllHeld
<1>3. e.key = k /\ e.value \in Values
  BY <1>e DEF PlaceOf, Entries
<1>4. Length[e.value] \in Nat /\ Length[e.value] <= MaxLength
  BY <1>2, <1>3, DataAssumption DEF Held
<1>5. SlabBytes(Length[e.value]) \in Nat
  BY <1>4, SlabRange
<1>6. Slabs(e.value) \in Nat
  BY <1>5 DEF Slabs
<1>7. QED
  BY <1>2, <1>3, <1>6, <1>e DEF Held

-----------------------------------------------------------------------------
(***************************************************************************)
(* The steps of workers outside the buffer                                 *)
(***************************************************************************)

\* Where the buffer does not change, neither do entries and places.
LEMMA BufferSame ==
    ASSUME RInv, UNCHANGED vars
    PROVE  /\ AllHeld'
           /\ \A loc, k : PlaceOf(loc, k) => PlaceOf(loc, k)'
BY DEF RInv, AllHeld, Held, PlaceOf, vars, buffer, callers, disk

\* A file has a length.
LEMMA FileLengthIs ==
    ASSUME NEW k \in Keys
    PROVE  /\ FileLength(k) \in Nat
           /\ File[k] \in Values => FileLength(k) = Length[File[k]]
BY StoreAssumption, DataAssumption DEF FileLength

\* What is copied is there, unless it has no bytes; the other memories stay.
LEMMA FillsIs ==
    ASSUME mog_data \in [Workers -> Values \cup {Garbage}],
           NEW w \in Workers, NEW v \in Values, Fills(w, v)
    PROVE  /\ mog_data' \in [Workers -> Values \cup {Garbage}]
           /\ Length[v] # 0 => mog_data'[w] = v
           /\ \A u \in Workers : u # w => mog_data'[u] = mog_data[u]
<1>1. CASE Length[v] = 0
  BY <1>1 DEF Fills
<1>2. CASE Length[v] # 0
  <2>1. mog_data' = [mog_data EXCEPT ![w] = v]
    BY <1>2 DEF Fills
  <2> QED
    BY <2>1
<1> QED
  BY <1>1, <1>2

\* A step of a worker leaves what others have obtained.
LEMMA OthersObtained ==
    ASSUME Obtained, NEW w \in Workers, shortRead \subseteq shortRead',
           \A u \in Workers : u # w =>
               /\ rpc'[u] = rpc[u] /\ rkey'[u] = rkey[u] /\ rlen'[u] = rlen[u]
               /\ mog_data'[u] = mog_data[u],
           ObtainedBy(w)'
    PROVE  Obtained'
<1>1. ASSUME NEW u \in Workers, u # w PROVE ObtainedBy(u)'
  BY <1>1 DEF Obtained, ObtainedBy, Right, FileLength
<1> QED
  BY <1>1 DEF Obtained

\* Found in the buffer: its key has the hash looked for, so it is the key.
LEMMA BufferReadInv ==
    ASSUME HashInjective, IInv, RInv, NEW w \in Workers, BufferRead(w)
    PROVE  RInv'
<1> DEFINE e == kv_store[Hash[rkey[w]]]
           k == rkey[w]
<1>1. k \in Keys /\ Hash[k] \in Hashes
  BY DataAssumption DEF RInv, KeyKnown, BufferRead
<1>2. /\ UNCHANGED <<vars, rkey, rloc, shortRead, caches, mog_total_size>>
      /\ \/ rpc' = [rpc EXCEPT ![w] = "cache"] /\ rlen' = rlen /\ mog_data' = mog_data
         \/ /\ e # None
            /\ rpc' = [rpc EXCEPT ![w] = "reply"]
            /\ rlen' = [rlen EXCEPT ![w] = Length[e.value]]
            /\ Fills(w, e.value)
  BY DEF BufferRead
<1>3. e # None => e.value = File[k] /\ e.value \in Values
  <2> SUFFICES ASSUME e # None PROVE e.value = File[k] /\ e.value \in Values
    OBVIOUS
  <2>1. e \in Entries /\ Held(e) /\ Hash[e.key] = Hash[k]
    BY <1>1 DEF IInv, TypeOK, StoreLegal, RInv, AllHeld
  <2>2. e.key \in Keys /\ e.value \in Values
    BY <2>1 DEF Entries
  <2>3. e.key = k
    BY <1>1, <2>1, <2>2 DEF HashInjective
  <2>4. QED
    BY <2>1, <2>2, <2>3 DEF Held
<1>f. FileLength(k) \in Nat /\ (File[k] \in Values => FileLength(k) = Length[File[k]])
  BY <1>1, FileLengthIs
<1>m. mog_data \in [Workers -> Values \cup {Garbage}]
  BY DEF RInv, StoreTypeOK
<1> HIDE DEF e
<1>4. /\ mog_data' \in [Workers -> Values \cup {Garbage}]
      /\ rpc'[w] = "reply" /\ FileLength(k) > 0 => mog_data'[w] = File[k]
      /\ \A u \in Workers : u # w => mog_data'[u] = mog_data[u]
  <2>1. CASE rpc' = [rpc EXCEPT ![w] = "cache"] /\ mog_data' = mog_data
    BY <2>1, <1>m DEF RInv, StoreTypeOK
  <2>2. CASE e # None /\ Fills(w, e.value)
    <3>1. PICK v \in Values : v = e.value /\ v = File[k] /\ Fills(w, v)
      BY <2>2, <1>3
    <3> QED
      BY <3>1, <1>f, <1>m, FillsIs
  <2> QED
    BY <1>2, <2>1, <2>2
<1>5. rlen' \in [Workers -> Nat] /\ (rpc'[w] = "reply" => rlen'[w] = FileLength(k))
      /\ \A u \in Workers : u # w => rlen'[u] = rlen[u]
  BY <1>2, <1>3, <1>f, DataAssumption DEF RInv, StoreTypeOK
<1>6. StoreTypeOK'
  BY <1>2, <1>4, <1>5 DEF RInv, StoreTypeOK, caches
<1>7. KeyKnown'
  BY <1>1, <1>2 DEF RInv, KeyKnown
<1>8. Located'
  BY <1>2, BufferSame DEF RInv, StoreTypeOK, Located
<1>9. ObtainedBy(w)'
  BY <1>2, <1>4, <1>5 DEF RInv, StoreTypeOK, ObtainedBy, Right, FileLength
<1>10. Obtained'
  BY <1>2, <1>4, <1>5, <1>9, OthersObtained DEF RInv, StoreTypeOK
<1>11. CachedRight'
  BY <1>2 DEF RInv, CachedRight, Right, FileLength, caches
<1>12. QED
  BY <1>2, <1>6, <1>7, <1>8, <1>10, <1>11, BufferSame DEF RInv

\* Found in the RAM cache: what was inserted for the key.
LEMMA CacheHitInv ==
    ASSUME RInv, NEW w \in Workers, CacheHit(w)
    PROVE  RInv'
<1> DEFINE k == rkey[w]
           item == cached_item[k]
<1>1. k \in Keys
  BY DEF RInv, KeyKnown, CacheHit
<1>2. /\ item[1].bytes \in Values \cup {Garbage} /\ Right(k, item[1].bytes)
      /\ item[Len(item)].length = FileLength(k)
  <2>1. item \in Seq(Insertion) /\ item # <<>>
    BY <1>1 DEF RInv, StoreTypeOK, CacheHit
  <2>2. 1 \in DOMAIN item /\ Len(item) \in DOMAIN item
    BY <2>1
  <2>3. item[1] \in Insertion
    BY <2>1, <2>2
  <2>4. Right(k, item[1].bytes) /\ item[Len(item)].length = FileLength(k)
    BY <1>1, <2>2 DEF RInv, CachedRight
  <2> QED
    BY <2>3, <2>4 DEF Insertion
<1>v. PICK v \in Values \cup {Garbage} : v = item[1].bytes
  BY <1>2
<1>n. PICK n \in Nat : n = item[Len(item)].length /\ n = FileLength(k)
  BY <1>1, <1>2, FileLengthIs
<1>3. /\ rpc' = [rpc EXCEPT ![w] = "reply"] \/ rpc' = [rpc EXCEPT ![w] = "file"]
      /\ rlen' = [rlen EXCEPT ![w] = n]
      /\ mog_data' = [mog_data EXCEPT ![w] = v]
      /\ UNCHANGED <<vars, rkey, rloc, shortRead, caches, mog_total_size>>
  BY <1>v, <1>n, AfterReadIs DEF CacheHit
<1>r. Right(k, v)
  BY <1>2, <1>v
<1> HIDE DEF item
<1>4. StoreTypeOK'
  BY <1>3 DEF RInv, StoreTypeOK, caches
<1>5. KeyKnown'
  BY <1>1, <1>3 DEF RInv, KeyKnown
<1>6. CachedRight'
  BY <1>3 DEF RInv, CachedRight, Right, FileLength, caches
<1>7. Located'
  BY <1>3, BufferSame DEF RInv, StoreTypeOK, Located
<1>8. ObtainedBy(w)'
  BY <1>3, <1>n, <1>r DEF RInv, StoreTypeOK, ObtainedBy, Right, FileLength
<1>9. Obtained'
  BY <1>3, <1>8, OthersObtained DEF RInv, StoreTypeOK
<1>10. QED
  BY <1>3, <1>4, <1>5, <1>6, <1>7, <1>9, BufferSame DEF RInv

\* The index names a place that holds the key.
LEMMA IndexGetInv ==
    ASSUME IInv, RInv, NEW w \in Workers, IndexGet(w)
    PROVE  RInv'
<1>1. rkey[w] \in Keys
  BY DEF RInv, KeyKnown, IndexGet, At
<1>2. /\ UNCHANGED <<vars, rkey, rlen, copies, caches, mog_total_size>>
      /\ rloc' = [rloc EXCEPT ![w] = index[rkey[w]]]
      /\ \/ index[rkey[w]] = None /\ rpc' = [rpc EXCEPT ![w] = "file"]
         \/ index[rkey[w]] # None /\ rpc' = [rpc EXCEPT ![w] = "disk"]
  BY DEF IndexGet, At
<1>3. index[rkey[w]] # None => PlaceOf(index[rkey[w]], rkey[w])
  BY <1>1 DEF IInv, TypeOK, IndexSound, PlaceOf
<1>4. index[rkey[w]] \in [block : BlockIds, pos : Nat \ {0}] \cup {None}
  BY <1>1 DEF IInv, TypeOK
<1>5. StoreTypeOK'
  BY <1>2, <1>4 DEF RInv, StoreTypeOK, copies, caches
<1>6. KeyKnown' /\ CachedRight'
  BY <1>1, <1>2 DEF RInv, KeyKnown, CachedRight, Right, FileLength, copies, caches
<1>7. Located'
  <2>1. ASSUME NEW v \in Workers, rpc'[v] \in {"disk", "insert"}
        PROVE  PlaceOf(rloc'[v], rkey'[v])
    BY <1>2, <1>3, <2>1 DEF RInv, StoreTypeOK, Located
  <2>2. QED
    BY <1>2, <2>1 DEF Located, PlaceOf, vars, disk
<1>8. ObtainedBy(w)'
  BY <1>2 DEF RInv, StoreTypeOK, ObtainedBy
<1>9. Obtained'
  BY <1>2, <1>8, OthersObtained DEF RInv, StoreTypeOK, copies
<1>10. QED
  BY <1>2, <1>5, <1>6, <1>7, <1>9, BufferSame DEF RInv

\* A block file gives the key's file, or the read is short and the key is among
\* those of which nothing is said from then on.
LEMMA DiskReadInv ==
    ASSUME IInv, RInv, NEW w \in Workers, DiskRead(w)
    PROVE  RInv'
<1> DEFINE k == rkey[w]
<1>1. k \in Keys /\ PlaceOf(rloc[w], k)
  BY DEF RInv, KeyKnown, Located, DiskRead, At
<1>v. PICK v \in Values : v = Placed(rloc[w]) /\ v = File[k]
  <2>1. PICK loc \in {rloc[w]} : PlaceOf(loc, k)
    BY <1>1
  <2>2. hdd[loc.block][loc.pos].value = File[k] /\ File[k] \in Values
    BY <1>1, <2>1, PlaceHolds
  <2> QED
    BY <2>2 DEF Placed
<1>2. /\ UNCHANGED <<vars, rkey, rloc, rlen, caches, mog_total_size>>
      /\ rpc[w] = "disk" /\ rpc' = [rpc EXCEPT ![w] = "insert"]
      /\ \/ Fills(w, v) /\ UNCHANGED shortRead
         \/ /\ mog_data' \in {mog_data, [mog_data EXCEPT ![w] = Garbage]}
            /\ shortRead' = shortRead \cup {k}
  BY <1>v DEF DiskRead, At
<1>m. mog_data \in [Workers -> Values \cup {Garbage}] /\ shortRead \subseteq Keys
  BY DEF RInv, StoreTypeOK
<1>f. FileLength(k) = Length[v]
  BY <1>1, <1>v, FileLengthIs
<1>3. /\ mog_data' \in [Workers -> Values \cup {Garbage}]
      /\ FileLength(k) > 0 /\ k \notin shortRead' => mog_data'[w] = File[k]
      /\ shortRead \subseteq shortRead' /\ shortRead' \subseteq Keys
      /\ \A u \in Workers : u # w => mog_data'[u] = mog_data[u]
  <2>1. CASE Fills(w, v) /\ UNCHANGED shortRead
    BY <2>1, <1>m, <1>v, <1>f, FillsIs
  <2>2. CASE /\ mog_data' \in {mog_data, [mog_data EXCEPT ![w] = Garbage]}
             /\ shortRead' = shortRead \cup {k}
    BY <2>2, <1>1, <1>m
  <2> QED
    BY <1>2, <2>1, <2>2
<1>4. StoreTypeOK'
  BY <1>2, <1>3 DEF RInv, StoreTypeOK, caches
<1>5. KeyKnown'
  BY <1>1, <1>2 DEF RInv, KeyKnown
<1>6. CachedRight'
  BY <1>2, <1>3 DEF RInv, CachedRight, Right, FileLength, caches
<1>7. Located'
  BY <1>1, <1>2, BufferSame DEF RInv, StoreTypeOK, Located
<1>8. ObtainedBy(w)'
  BY <1>2, <1>3 DEF RInv, StoreTypeOK, ObtainedBy, Right, FileLength
<1>9. Obtained'
  BY <1>2, <1>3, <1>8, OthersObtained DEF RInv, StoreTypeOK
<1>10. QED
  BY <1>2, <1>4, <1>5, <1>6, <1>7, <1>9, BufferSame DEF RInv

\* What is inserted in the RAM cache is what the worker has, if slabs allow it,
\* with the length of the index.
LEMMA CacheInsertInv ==
    ASSUME IInv, RInv, NEW w \in Workers, CacheInsert(w)
    PROVE  RInv'
<1> DEFINE k == rkey[w]
<1>1. rpc[w] = "insert" /\ k \in Keys /\ PlaceOf(rloc[w], k)
  BY DEF RInv, KeyKnown, Located, CacheInsert, At
<1>v. PICK v \in Values : v = Placed(rloc[w]) /\ v = File[k] /\ Slabs(v) \in Nat
  <2>1. PICK loc \in {rloc[w]} : PlaceOf(loc, k)
    BY <1>1
  <2>2. /\ hdd[loc.block][loc.pos].value = File[k] /\ File[k] \in Values
        /\ Slabs(hdd[loc.block][loc.pos].value) \in Nat
    BY <1>1, <2>1, PlaceHolds
  <2> QED
    BY <2>2 DEF Placed
<1>n. PICK need \in Nat : need = Slabs(v)
  BY <1>v
<1>i. PICK i \in Insertion : i = [length |-> Length[v], bytes |-> mog_data[w]]
  BY DataAssumption DEF RInv, StoreTypeOK, Insertion
<1>3. /\ UNCHANGED <<vars, rkey, rloc, copies, ssd, mog_total_size>>
      /\ rpc' = [rpc EXCEPT ![w] = "reply"] \/ rpc' = [rpc EXCEPT ![w] = "file"]
      /\ rlen' = [rlen EXCEPT ![w] = Length[v]]
      /\ \/ UNCHANGED <<cached_item, free_slab_num>>
         \/ /\ ~(free_slab_num < need)
            /\ cached_item' = [cached_item EXCEPT ![k] = Append(@, i)]
            /\ free_slab_num' = free_slab_num - need
  BY <1>v, <1>n, <1>i, AfterReadIs DEF CacheInsert, At
<1>4. FileLength(k) = Length[v] /\ Length[v] \in Nat /\ Right(k, mog_data[w])
  <2>1. FileLength(k) = Length[v] /\ Length[v] \in Nat
    BY <1>1, <1>v, FileLengthIs
  <2>2. Right(k, mog_data[w])
    BY <1>1 DEF RInv, Obtained, ObtainedBy
  <2> QED
    BY <2>1, <2>2
<1>5. cached_item \in [Keys -> Seq(Insertion)] /\ cached_item' \in [Keys -> Seq(Insertion)]
  <2>1. cached_item \in [Keys -> Seq(Insertion)]
    BY DEF RInv, StoreTypeOK
  <2>2. Append(cached_item[k], i) \in Seq(Insertion)
    BY <1>1, <2>1
  <2>3. QED
    BY <1>1, <1>3, <2>1, <2>2
<1>6. free_slab_num' \in 0 .. slab_num
  <2>1. free_slab_num \in 0 .. slab_num /\ slab_num \in Nat
    BY StoreAssumption DEF RInv, StoreTypeOK, slab_num
  <2>2. QED
    BY <1>3, <2>1
<1>7. StoreTypeOK'
  BY <1>3, <1>4, <1>5, <1>6 DEF RInv, StoreTypeOK, copies
<1>8. KeyKnown'
  BY <1>1, <1>3 DEF RInv, KeyKnown
<1>9. Located'
  BY <1>1, <1>3, BufferSame DEF RInv, StoreTypeOK, Located
<1>10. Obtained'
  <2>1. ObtainedBy(w)'
    BY <1>3, <1>4 DEF RInv, StoreTypeOK, ObtainedBy, Right, FileLength, copies
  <2> QED
    BY <1>3, <2>1, OthersObtained DEF RInv, StoreTypeOK, copies
<1>11. CachedRight'
  <2>1. ASSUME NEW j \in Keys, NEW n \in DOMAIN cached_item'[j]
        PROVE  cached_item'[j][n].length = FileLength(j) /\ Right(j, cached_item'[j][n].bytes)
    <3>1. CASE cached_item'[j] = cached_item[j]
      BY <2>1, <3>1 DEF RInv, CachedRight
    <3>2. CASE cached_item'[j] # cached_item[j]
      <4>1. j = k /\ cached_item'[j] = Append(cached_item[j], i)
        BY <1>1, <1>3, <1>5, <3>2
      <4>2. cached_item[j] \in Seq(Insertion)
        BY <1>5
      <4>3. CASE n \in DOMAIN cached_item[j]
        BY <4>1, <4>2, <4>3 DEF RInv, CachedRight
      <4>4. CASE n \notin DOMAIN cached_item[j]
        <5>1. cached_item'[j][n] = i
          BY <2>1, <4>1, <4>2, <4>4
        <5> QED
          BY <5>1, <1>4, <1>i, <4>1
      <4>5. QED
        BY <4>3, <4>4
    <3>3. QED
      BY <3>1, <3>2
  <2>2. QED
    BY <2>1, <1>3 DEF CachedRight, Right, FileLength, copies
<1>12. QED
  BY <1>3, <1>7, <1>8, <1>9, <1>10, <1>11, BufferSame DEF RInv

\* A request, a miss in the RAM cache, and a reply.
LEMMA PassingInv ==
    ASSUME RInv, NEW w \in Workers,
           (\E k \in Keys : Request(w, k)) \/ CacheMiss(w) \/ Reply(w)
    PROVE  RInv'
<1>1. /\ UNCHANGED <<vars, copies, caches, mog_total_size>>
      /\ \/ \E k \in Keys : /\ rpc' = [rpc EXCEPT ![w] = "buffer"]
                            /\ rkey' = [rkey EXCEPT ![w] = k]
                            /\ UNCHANGED <<rloc, rlen>>
         \/ rpc[w] = "cache" /\ rpc' = [rpc EXCEPT ![w] = "index"] /\ UNCHANGED <<rkey, rloc, rlen>>
         \/ /\ rpc' = [rpc EXCEPT ![w] = "idle"]
            /\ rkey' = [rkey EXCEPT ![w] = None]
            /\ rloc' = [rloc EXCEPT ![w] = None]
            /\ rlen' = [rlen EXCEPT ![w] = 0]
  BY DEF Request, CacheMiss, Reply, At
<1>2. StoreTypeOK'
  <2>1. rpc' \in [Workers -> {"idle", "buffer", "cache", "index", "disk", "insert",
                             "file", "write", "reply"}]
    BY <1>1 DEF RInv, StoreTypeOK
  <2>2. rkey' \in [Workers -> Keys \cup {None}]
    BY <1>1 DEF RInv, StoreTypeOK
  <2>3. rloc' \in [Workers -> [block : BlockIds, pos : Nat \ {0}] \cup {None}]
    BY <1>1 DEF RInv, StoreTypeOK
  <2>4. rlen' \in [Workers -> Nat]
    BY <1>1 DEF RInv, StoreTypeOK
  <2> QED
    BY <1>1, <2>1, <2>2, <2>3, <2>4 DEF RInv, StoreTypeOK, copies, caches
<1>3. KeyKnown'
  BY <1>1 DEF RInv, KeyKnown
<1>4. CachedRight'
  BY <1>1 DEF RInv, CachedRight, Right, FileLength, copies, caches
<1>5. Located'
  BY <1>1, BufferSame DEF RInv, StoreTypeOK, Located
<1>6. ObtainedBy(w)'
  BY <1>1 DEF RInv, StoreTypeOK, ObtainedBy
<1>7. Obtained'
  BY <1>1, <1>6, OthersObtained DEF RInv, StoreTypeOK, copies
<1>8. QED
  BY <1>1, <1>2, <1>3, <1>4, <1>5, <1>7, BufferSame DEF RInv

\* The file is read and not written; or write() returned and it is counted.
LEMMA FileInv ==
    ASSUME RInv, NEW w \in Workers, FileOnly(w) \/ Stored(w)
    PROVE  RInv'
<1> DEFINE k == rkey[w]
<1>1. k \in Keys /\ mog_data \in [Workers -> Values \cup {Garbage}]
  BY DEF RInv, KeyKnown, StoreTypeOK, FileOnly, Stored, At
<1>2. File[k] \in Values \cup {None} /\ None \notin Values
  BY <1>1, StoreAssumption
<1>f. /\ FileLength(k) \in Nat /\ (File[k] = None => FileLength(k) = 0)
      /\ File[k] \in Values => FileLength(k) = Length[File[k]]
  BY <1>1, FileLengthIs DEF FileLength
<1>3. /\ UNCHANGED <<vars, rkey, rloc, shortRead, caches>>
      /\ rpc' = [rpc EXCEPT ![w] = "reply"] /\ rlen' = [rlen EXCEPT ![w] = FileLength(k)]
      /\ IF File[k] = None THEN UNCHANGED mog_data ELSE Fills(w, File[k])
      /\ mog_total_size' \in Nat
  <2>1. CASE FileOnly(w)
    BY <2>1 DEF RInv, StoreTypeOK, FileOnly, At
  <2>2. CASE Stored(w)
    <3>1. File[k] \in Values
      BY <2>2, <1>2 DEF RInv, Obtained, ObtainedBy, Stored, At
    <3>2. FileLength(k) = Length[File[k]] /\ FileLength(k) \in Nat
      BY <3>1, <1>f
    <3>3. mog_total_size' \in Nat
      BY <2>2, <3>2 DEF RInv, StoreTypeOK, Stored
    <3>4. Fills(w, File[k]) /\ File[k] # None
      BY <2>2, <3>1, <1>2 DEF Stored
    <3>5. /\ UNCHANGED <<vars, rkey, rloc, shortRead, caches>>
          /\ rpc' = [rpc EXCEPT ![w] = "reply"] /\ rlen' = [rlen EXCEPT ![w] = FileLength(k)]
      BY <2>2, <3>2 DEF Stored, At
    <3> QED
      BY <3>3, <3>4, <3>5
  <2> QED
    BY <2>1, <2>2
<1>4. /\ mog_data' \in [Workers -> Values \cup {Garbage}]
      /\ FileLength(k) > 0 => mog_data'[w] = File[k]
      /\ \A u \in Workers : u # w => mog_data'[u] = mog_data[u]
  <2>1. CASE File[k] = None
    BY <2>1, <1>1, <1>3, <1>f
  <2>2. CASE File[k] # None
    <3>1. PICK v \in Values : v = File[k] /\ Fills(w, v)
      BY <2>2, <1>2, <1>3
    <3> QED
      BY <3>1, <1>1, <1>f, FillsIs
  <2> QED
    BY <2>1, <2>2
<1>5. StoreTypeOK'
  BY <1>3, <1>4, <1>f DEF RInv, StoreTypeOK, caches
<1>6. KeyKnown'
  BY <1>1, <1>3 DEF RInv, KeyKnown
<1>7. CachedRight'
  BY <1>3 DEF RInv, CachedRight, Right, FileLength, caches
<1>8. Located'
  BY <1>3, BufferSame DEF RInv, StoreTypeOK, Located
<1>9. ObtainedBy(w)'
  BY <1>3, <1>4 DEF RInv, StoreTypeOK, ObtainedBy, Right, FileLength
<1>10. Obtained'
  BY <1>3, <1>4, <1>9, OthersObtained DEF RInv, StoreTypeOK
<1>11. QED
  BY <1>3, <1>5, <1>6, <1>7, <1>8, <1>10, BufferSame DEF RInv

\* The file is read and handed to write(): the entry holds it.
LEMMA FileStoreInv ==
    ASSUME IInv, RInv, NEW w \in Workers, FileStore(w)
    PROVE  RInv'
<1>1. rkey[w] \in Keys
  BY DEF RInv, KeyKnown, FileStore, At
<1>v. PICK v \in Values : v = File[rkey[w]] /\ Length[v] <= MaxLength /\ v # None
  BY <1>1, StoreAssumption DEF FileStore, MayStore
<1>2. /\ UNCHANGED <<kv_store, blocks, hdd, rkey, rloc, rlen, copies, caches, mog_total_size>>
      /\ warg' = [warg EXCEPT ![w] = [key |-> rkey[w], value |-> v]]
      /\ rpc' = [rpc EXCEPT ![w] = "write"]
  BY <1>v DEF FileStore, Call, At, buffer, disk
<1>3. AllHeld'
  <2>1. Held([key |-> rkey[w], value |-> v])
    BY <1>v DEF Held
  <2>2. \A u \in Workers : warg'[u] # None => Held(warg'[u])
    BY <1>2, <2>1 DEF IInv, TypeOK, RInv, AllHeld
  <2>3. QED
    BY <1>2, <2>2 DEF RInv, AllHeld, Held
<1>4. StoreTypeOK' /\ KeyKnown'
  BY <1>1, <1>2 DEF RInv, StoreTypeOK, KeyKnown, copies, caches
<1>5. CachedRight'
  BY <1>2 DEF RInv, CachedRight, Right, FileLength, copies, caches
<1>6. Located'
  BY <1>2 DEF RInv, StoreTypeOK, Located, PlaceOf
<1>7. ObtainedBy(w)'
  BY <1>v, <1>2 DEF RInv, StoreTypeOK, ObtainedBy
<1>8. Obtained'
  BY <1>2, <1>7, OthersObtained DEF RInv, StoreTypeOK, copies
<1>9. QED
  BY <1>3, <1>4, <1>5, <1>6, <1>8 DEF RInv

\* Copies on the SSD come and go.
LEMMA CopyingInv ==
    ASSUME RInv, Copying \/ UNCHANGED storeVars
    PROVE  RInv'
<1>1. UNCHANGED <<vars, reading, copies, cached_item, free_slab_num, mog_total_size>>
  BY DEF Copying, SsdCopy, SsdEvict, storeVars, caches
<1>2. ssd' \in [BlockIds -> {"none", "partial", "whole"}]
  BY DEF Copying, SsdCopy, SsdEvict, storeVars, caches, RInv, StoreTypeOK
<1>3. StoreTypeOK' /\ KeyKnown'
  BY <1>1, <1>2 DEF RInv, StoreTypeOK, KeyKnown, reading, copies
<1>4. Obtained' /\ CachedRight'
  BY <1>1 DEF RInv, Obtained, ObtainedBy, CachedRight, Right, FileLength, reading, copies
<1>5. Located'
  BY <1>1, BufferSame DEF RInv, Located, reading
<1>6. QED
  BY <1>1, <1>3, <1>4, <1>5, BufferSame DEF RInv

\* Every step of the store keeps it.
LEMMA StoreNextInv ==
    ASSUME HashInjective, IInv, RInv, [StoreNext]_storeVars
    PROVE  RInv'
<1>1. ASSUME NEW w \in Workers, Aside(w)
      PROVE  RInv'
  BY <1>1, PassingInv, BufferReadInv, CacheHitInv, IndexGetInv, DiskReadInv,
     CacheInsertInv, FileInv DEF Aside
<1>2. CASE \E w \in Workers : FileStore(w)
  BY <1>2, FileStoreInv
<1>3. CASE BufferStep
  BY <1>3, BufferStepInv
<1>4. CASE Copying \/ UNCHANGED storeVars
  BY <1>4, CopyingInv
<1>5. QED
  BY <1>1, <1>2, <1>3, <1>4, StoreSteps
-----------------------------------------------------------------------------
(***************************************************************************)
(* Theorems, for keys of which no two have one hash                        *)
(***************************************************************************)

\* The invariant of the whole store, on top of the buffer's.
THEOREM StoreInvariance == ASSUME HashInjective PROVE StoreSpec => []RInv
<1>1. IInv /\ RInv /\ [StoreNext]_storeVars => RInv'
  BY StoreNextInv
<1>2. StoreSpec => []IInv
  BY StoreImplementsBuffer, Invariance, PTL
<1>3. QED
  BY <1>1, <1>2, StoreInitInv, PTL DEF StoreSpec

\* What the store adds to the buffer is well typed; free slabs in particular
\* stay between none and all.
THEOREM StoreTypeCorrect == ASSUME HashInjective PROVE StoreSpec => []StoreTypeOK
<1>1. RInv => StoreTypeOK
  BY DEF RInv
<1>2. QED
  BY <1>1, StoreInvariance, PTL

\* read_file replies with the length of the file asked for, and with its bytes
\* if no read of it was short, whatever other reads left in the memory that is
\* used again, and wherever it found them.
THEOREM RepliesAreRight == ASSUME HashInjective PROVE StoreSpec => []RepliesRight
<1>1. RInv => RepliesRight
  BY DEF RInv, Obtained, ObtainedBy, Right, RepliesRight
<1>2. QED
  BY <1>1, StoreInvariance, PTL

\* So does the RAM cache, of each insertion for a key: bytes of another file can
\* only be under a key of which a read was short.
THEOREM RamCacheIsRight == ASSUME HashInjective PROVE StoreSpec => []RamCacheRight
<1>1. RInv => RamCacheRight
  BY DEF RInv, CachedRight, Right, RamCacheRight
<1>2. QED
  BY <1>1, StoreInvariance, PTL
-----------------------------------------------------------------------------
(***************************************************************************)
(* The budget of the HDD                                                   *)
(***************************************************************************)

\* Workers between the test of the budget and the counting; and those of them
\* for which write() has stored the file or refused it.
Writing == {w \in Workers : rpc[w] = "write"}
Uncounted == {w \in Writing : wpc[w] \notin {"spin", "admitted"}}

\* The terms of what is stored, and of what is not yet counted.
MemoryLength == [h \in InMemory |-> Length[kv_store[h].value]]
DiskLength == [p \in OnDisk |-> Length[hdd[p[1]][p[2]].value]]
UncountedLength == [w \in Uncounted |-> Length[File[rkey[w]]]]

\* Who writes has tested the length, and the buffer has what it writes.
WritersFit ==
    /\ IsFiniteSet(InMemory) /\ mog_total_size \in Nat /\ DOMAIN rkey = Workers
    /\ \A w \in Workers : rpc[w] = "write" => File[rkey[w]] \in Values /\ Length[File[rkey[w]]] <= MaxLength
    /\ \A w \in Workers : wpc[w] \in {"spin", "admitted"} => rpc[w] = "write" /\ warg[w].value = File[rkey[w]]

\* What is stored is counted, or will be; and the count leaves each worker that
\* is not writing room for a file.
StoredCounted == StoredBytes <= mog_total_size + SumFunction(UncountedLength)
CountFits ==
    mog_total_size + Cardinality(Writing) * MaxLength <= HddLimit + Cardinality(Workers) * MaxLength

BInv == WritersFit /\ StoredCounted /\ CountFits

\* The sums are of finitely many numbers.
LEMMA Terms ==
    ASSUME IInv, WritersFit
    PROVE  /\ IsFiniteSet(InMemory) /\ MemoryLength \in [InMemory -> Nat]
           /\ IsFiniteSet(OnDisk) /\ DiskLength \in [OnDisk -> Nat]
           /\ IsFiniteSet(Uncounted) /\ UncountedLength \in [Uncounted -> Nat]
           /\ IsFiniteSet(Writing)
<1>1. MemoryLength \in [InMemory -> Nat]
  <2>1. ASSUME NEW h \in InMemory PROVE Length[kv_store[h].value] \in Nat
    BY DataAssumption DEF InMemory, IInv, TypeOK, Entries
  <2> QED
    BY <2>1 DEF MemoryLength
<1>2. IsFiniteSet(OnDisk)
  <2> DEFINE n == [b \in BlockIds |-> Len(hdd[b])]
  <2>1. IsFiniteSet(BlockIds) /\ n \in [BlockIds -> Nat]
    BY SizeAssumption, FS_Interval DEF BlockIds, IInv, TypeOK
  <2>2. OnDisk = Units(n, BlockIds)
    <3>1. ASSUME NEW b \in BlockIds PROVE DOMAIN hdd[b] = 1 .. n[b]
      BY DEF IInv, TypeOK
    <3> HIDE DEF n
    <3> QED
      BY <3>1 DEF OnDisk, Units
  <2> HIDE DEF n
  <2> QED
    BY <2>1, <2>2, UnitsFinite
<1>3. DiskLength \in [OnDisk -> Nat]
  <2>1. ASSUME NEW p \in OnDisk PROVE Length[hdd[p[1]][p[2]].value] \in Nat
    <3>1. PICK b \in BlockIds : \E i \in DOMAIN hdd[b] : p = <<b, i>>
      BY DEF OnDisk
    <3>i. PICK i \in DOMAIN hdd[b] : p = <<b, i>>
      BY <3>1
    <3>2. hdd[b][i] \in Entries
      BY DEF IInv, TypeOK
    <3> QED
      BY <3>i, <3>2, DataAssumption DEF Entries
  <2> QED
    BY <2>1 DEF DiskLength
<1>4. IsFiniteSet(Uncounted) /\ IsFiniteSet(Writing)
  BY ThreadAssumption, FS_Subset DEF Uncounted, Writing
<1>5. UncountedLength \in [Uncounted -> Nat]
  BY DataAssumption DEF UncountedLength, Uncounted, Writing, WritersFit
<1> QED
  BY <1>1, <1>2, <1>3, <1>4, <1>5 DEF WritersFit

\* At the start nothing is stored.
LEMMA BInit == StoreInit => BInv
<1> SUFFICES ASSUME StoreInit PROVE BInv
  OBVIOUS
<1>1. InMemory = {} /\ OnDisk = {} /\ Uncounted = {} /\ Writing = {}
  <2>1. \A b \in BlockIds : DOMAIN hdd[b] = {}
    BY DEF StoreInit, Init
  <2> QED
    BY <2>1 DEF StoreInit, Init, InMemory, OnDisk, Uncounted, Writing
<1>2. IsFiniteSet({}) /\ Cardinality({}) = 0
  BY FS_EmptySet
<1>3. WritersFit
  BY <1>1, <1>2 DEF StoreInit, Init, WritersFit
<1>4. MemoryLength \in [{} -> Nat] /\ DiskLength \in [{} -> Nat] /\ UncountedLength \in [{} -> Nat]
  BY <1>1 DEF MemoryLength, DiskLength, UncountedLength
<1>5. SumFunction(MemoryLength) = 0 /\ SumFunction(DiskLength) = 0 /\ SumFunction(UncountedLength) = 0
  BY <1>4, SumOfNone
<1>6. StoredCounted
  BY <1>5 DEF StoreInit, StoredCounted, StoredBytes, MemoryLength, DiskLength
<1>7. CountFits
  <2>1. HddLimit \in Nat /\ MaxLength \in Nat /\ Cardinality(Workers) \in Nat
    BY ThreadAssumption, StoreAssumption, SlabTable, FS_CardinalityType DEF HddLimit
  <2>2. Cardinality(Writing) = 0 /\ mog_total_size = 0
    BY <1>1, <1>2 DEF StoreInit
  <2>3. Cardinality(Workers) * MaxLength \in Nat
    BY <2>1
  <2> QED
    BY <2>1, <2>2, <2>3 DEF CountFits
<1> QED
  BY <1>3, <1>6, <1>7 DEF BInv

\* Steps that store and count nothing, of workers that go on writing, or not.
LEMMA SameBudget ==
    ASSUME IInv, BInv, UNCHANGED <<kv_store, hdd, mog_total_size>>, DOMAIN rkey' = Workers,
           Writing' = Writing, Uncounted' = Uncounted,
           \A w \in Writing : rkey'[w] = rkey[w],
           \A w \in Workers : wpc'[w] \in {"spin", "admitted"} =>
               wpc[w] \in {"spin", "admitted"} /\ warg'[w] = warg[w]
    PROVE  BInv'
<1>1. WritersFit'
  <2>1. \A w \in Workers : rpc'[w] = "write" <=> rpc[w] = "write"
    BY DEF Writing
  <2>2. InMemory' = InMemory
    BY DEF InMemory
  <2> QED
    BY <2>1, <2>2 DEF BInv, WritersFit, Writing
<1>2. StoredBytes' = StoredBytes
  BY DEF StoredBytes, InMemory, OnDisk
<1>3. UncountedLength' = UncountedLength
  <2>1. \A w \in Uncounted : rkey'[w] = rkey[w]
    BY DEF Uncounted
  <2> QED
    BY <2>1 DEF UncountedLength
<1> QED
  BY <1>1, <1>2, <1>3 DEF BInv, StoredCounted, CountFits

\* Steps beside the buffer, but for the counting.
LEMMA AsideBudget ==
    ASSUME IInv, KeyKnown, BInv, NEW w \in Workers, Aside(w), ~Stored(w)
    PROVE  BInv'
<1>1. /\ UNCHANGED <<kv_store, hdd, mog_total_size, wpc, warg>>
      /\ rpc[w] # "write"
      /\ \E there \in {"idle", "buffer", "cache", "index", "disk", "insert", "file", "reply"} :
             rpc' = [rpc EXCEPT ![w] = there]
  <2>1. UNCHANGED vars
    BY AsideLeavesBuffer
  <2>2. UNCHANGED <<kv_store, hdd, wpc, warg>>
    BY <2>1 DEF vars, buffer, disk, callers
  <2> QED
    BY <2>2, AfterReadIs DEF Aside, Request, BufferRead, CacheHit, CacheMiss, IndexGet, DiskRead,
       CacheInsert, FileOnly, Reply, At
<1>2. rkey' = rkey \/ \E k : rkey' = [rkey EXCEPT ![w] = k]
  BY DEF Aside, Request, BufferRead, CacheHit, CacheMiss, IndexGet, DiskRead,
     CacheInsert, FileOnly, Reply
<1>3. DOMAIN rkey' = Workers /\ \A x \in Workers : x # w => rkey'[x] = rkey[x]
  BY <1>2 DEF BInv, WritersFit
<1>4. \A x \in Workers : rpc'[x] = "write" <=> rpc[x] = "write"
  BY <1>1 DEF KeyKnown
<1>5. Writing' = Writing /\ Uncounted' = Uncounted
  BY <1>1, <1>4 DEF Writing, Uncounted
<1> QED
  BY <1>1, <1>3, <1>5, SameBudget DEF Writing

\* Steps of the buffer that neither store nor refuse.
LEMMA PassingBudget ==
    ASSUME IInv, BInv, BufferStep,
           \A w \in Workers : ~Insert(w) /\ ~Reject(w), \A f \in Flushers : ~FlushEntry(f)
    PROVE  BInv'
<1>1. UNCHANGED <<rpc, rkey, mog_total_size>>
  BY DEF BufferStep, reading
<1>2. UNCHANGED <<kv_store, warg>>
  BY DEF BufferStep, Write, Flush, Admit, CutMove, CutEnd, FlushOpen, FlushLock, FlushClose,
     buffer, callers
<1>3. hdd' = hdd
  <2>1. ASSUME NEW f \in Flushers, FlushOpen(f)
        PROVE  hdd' = hdd
    <3>1. pending # <<>> /\ hdd' = [hdd EXCEPT ![Head(pending)] = <<>>]
      BY <2>1 DEF FlushOpen
    <3>2. pending \in Seq(BlockIds)
      BY DEF IInv, TypeOK
    <3>3. 1 \in DOMAIN pending /\ Head(pending) = pending[1] /\ Head(pending) \in BlockIds
      BY <3>1, <3>2
    <3>4. hdd[Head(pending)] = <<>>
      BY <3>3 DEF IInv, BlockStages
    <3> QED
      BY <3>1, <3>3, <3>4 DEF IInv, TypeOK
  <2> QED
    BY <2>1 DEF BufferStep, Write, Flush, Admit, CutMove, CutEnd, FlushLock, FlushClose, disk
<1>4. \A w \in Workers : wpc'[w] \in {"spin", "admitted"} <=> wpc[w] \in {"spin", "admitted"}
  <2>1. \/ wpc' = wpc
        \/ \E w \in Workers : wpc[w] = "spin" /\ wpc' = [wpc EXCEPT ![w] = "admitted"]
        \/ \E w \in Workers : wpc[w] = "cutting" /\ wpc' = [wpc EXCEPT ![w] = "idle"]
    BY DEF BufferStep, Write, Flush, Admit, CutMove, CutEnd, FlushOpen, FlushLock, FlushClose,
       buffer, callers
  <2> QED
    BY <2>1 DEF IInv, TypeOK
<1>5. Writing' = Writing /\ Uncounted' = Uncounted
  BY <1>1, <1>4 DEF Writing, Uncounted
<1> QED
  BY <1>1, <1>2, <1>3, <1>4, <1>5, SameBudget DEF BInv, WritersFit

\* A worker starts to write within the budget.
LEMMA FileStoreBudget ==
    ASSUME IInv, KeyKnown, BInv, NEW w \in Workers, FileStore(w)
    PROVE  BInv'
<1> DEFINE v == File[rkey[w]]
<1>1. /\ v \in Values /\ Length[v] <= MaxLength /\ mog_total_size <= HddLimit
      /\ rpc[w] = "file" /\ rpc' = [rpc EXCEPT ![w] = "write"]
      /\ wpc[w] = "idle" /\ wpc' = [wpc EXCEPT ![w] = "spin"]
      /\ warg' = [warg EXCEPT ![w] = [key |-> rkey[w], value |-> v]]
      /\ UNCHANGED <<kv_store, hdd, mog_total_size, rkey>>
  <2>1. rkey[w] \in Keys
    BY DEF KeyKnown, FileStore, At
  <2> QED
    BY <2>1, StoreAssumption DEF FileStore, At, Call, MayStore, buffer, disk
<1> HIDE DEF v
<1>2. /\ rpc'[w] = "write" /\ \A x \in Workers : x # w => rpc'[x] = rpc[x]
      /\ wpc'[w] = "spin" /\ \A x \in Workers : x # w => wpc'[x] = wpc[x]
      /\ warg'[w].value = v /\ \A x \in Workers : x # w => warg'[x] = warg[x]
      /\ v = File[rkey[w]] /\ \A x \in Workers : rkey'[x] = rkey[x]
  BY <1>1 DEF KeyKnown, IInv, TypeOK, v
<1>3. WritersFit'
  <2>1. InMemory' = InMemory
    BY <1>1 DEF InMemory
  <2> QED
    BY <1>1, <1>2, <2>1 DEF BInv, WritersFit
<1>4. Uncounted' = Uncounted /\ w \notin Writing /\ Writing' = Writing \cup {w}
  BY <1>1, <1>2 DEF Uncounted, Writing
<1>5. StoredCounted'
  <2>1. StoredBytes' = StoredBytes
    BY <1>1 DEF StoredBytes, InMemory, OnDisk
  <2>2. \A x \in Uncounted : rkey'[x] = rkey[x]
    BY <1>2, <1>4 DEF Uncounted, Writing
  <2>3. UncountedLength' = UncountedLength
    BY <1>4, <2>2 DEF UncountedLength
  <2> QED
    BY <1>1, <2>1, <2>3 DEF BInv, StoredCounted
<1>6. CountFits'
  <2>1. IsFiniteSet(Writing)
    BY Terms DEF BInv
  <2>2. Cardinality(Writing \cup {w}) = Cardinality(Writing) + 1
    BY <1>4, <2>1, FS_AddElement
  <2>3. Cardinality(Writing \cup {w}) <= Cardinality(Workers) /\ Cardinality(Workers) \in Nat
    BY ThreadAssumption, FS_Subset, FS_CardinalityType DEF Writing
  <2>4. Cardinality(Writing) \in Nat
    BY <2>1, FS_CardinalityType
  <2>5. HddLimit \in Nat /\ mog_total_size \in Nat
    BY StoreAssumption DEF HddLimit, BInv, WritersFit
  <2> DEFINE m == Cardinality(Writing) + 1
             n == Cardinality(Workers)
  <2>6. m \in Nat /\ n \in Nat /\ m <= n
    BY <2>2, <2>3, <2>4
  <2>7. MaxLength = 1048576
    BY SlabTable
  <2> HIDE DEF m, n
  <2>8. m * MaxLength <= n * MaxLength
    BY <2>6, <2>7
  <2>9. mog_total_size + m * MaxLength <= HddLimit + n * MaxLength
    BY <1>1, <2>5, <2>6, <2>7, <2>8
  <2> QED
    BY <1>1, <1>4, <2>2, <2>9 DEF CountFits, m, n
<1> QED
  BY <1>3, <1>5, <1>6 DEF BInv

\* What was written is counted.
LEMMA StoredBudget ==
    ASSUME IInv, KeyKnown, BInv, NEW w \in Workers, Stored(w)
    PROVE  BInv'
<1>1. /\ rpc[w] = "write" /\ wpc[w] = "idle" /\ rpc' = [rpc EXCEPT ![w] = "reply"]
      /\ mog_total_size' = mog_total_size + Length[File[rkey[w]]]
      /\ UNCHANGED <<kv_store, hdd, wpc, warg, rkey>>
  BY DEF Stored, At, vars, buffer, callers, disk
<1>2. rpc'[w] = "reply" /\ \A x \in Workers : x # w => rpc'[x] = rpc[x]
  BY <1>1 DEF KeyKnown
<1>3. /\ File[rkey[w]] \in Values /\ Length[File[rkey[w]]] \in Nat /\ Length[File[rkey[w]]] <= MaxLength
      /\ mog_total_size \in Nat
  BY <1>1, DataAssumption DEF BInv, WritersFit
<1>4. WritersFit'
  <2>1. InMemory' = InMemory
    BY <1>1 DEF InMemory
  <2> QED
    BY <1>1, <1>2, <1>3, <2>1 DEF BInv, WritersFit
<1>5. /\ w \in Uncounted /\ Uncounted' = Uncounted \ {w}
      /\ w \in Writing /\ Writing' = Writing \ {w}
  BY <1>1, <1>2 DEF Uncounted, Writing
<1>6. /\ IsFiniteSet(Uncounted) /\ UncountedLength \in [Uncounted -> Nat] /\ IsFiniteSet(Writing)
  BY Terms DEF BInv
<1>7. StoredCounted'
  <2> DEFINE S == Uncounted \ {w}
             g == [x \in S |-> Length[File[rkey[x]]]]
  <2>1. UncountedLength' = g
    BY <1>1, <1>5 DEF UncountedLength
  <2>2. IsFiniteSet(S)
    BY <1>6, FS_Subset
  <2>3. g \in [S -> Nat] /\ \A x \in S : UncountedLength[x] = g[x]
    BY <1>6 DEF UncountedLength
  <2>4. UncountedLength[w] = Length[File[rkey[w]]] /\ S \cup {w} = Uncounted /\ w \notin S
    BY <1>5 DEF UncountedLength
  <2> HIDE DEF g, S
  <2>5. SumFunction(UncountedLength) = Length[File[rkey[w]]] + SumFunction(g)
    BY <1>6, <2>2, <2>3, <2>4, SumAdd
  <2>6. SumFunction(g) \in Nat
    BY <2>2, <2>3, SumBounded
  <2>7. StoredBytes' = StoredBytes
    BY <1>1 DEF StoredBytes, InMemory, OnDisk
  <2>8. StoredBytes <= mog_total_size + (Length[File[rkey[w]]] + SumFunction(g))
    BY <2>5 DEF BInv, StoredCounted
  <2>9. mog_total_size + (Length[File[rkey[w]]] + SumFunction(g)) = (mog_total_size + Length[File[rkey[w]]]) + SumFunction(g)
    BY <1>3, <2>6
  <2> QED
    BY <1>1, <2>1, <2>7, <2>8, <2>9 DEF StoredCounted
<1>8. CountFits'
  <2>1. Cardinality(Writing \ {w}) = Cardinality(Writing) - 1
    BY <1>5, <1>6, FS_RemoveElement
  <2>2. Cardinality(Writing) \in Nat /\ Cardinality(Workers) \in Nat
    BY <1>6, ThreadAssumption, FS_CardinalityType
  <2>3. HddLimit \in Nat /\ MaxLength = 1048576
    BY StoreAssumption, SlabTable DEF HddLimit
  <2> DEFINE m == Cardinality(Writing)
             n == Cardinality(Workers)
             l == Length[File[rkey[w]]]
  <2>4. mog_total_size + m * MaxLength <= HddLimit + n * MaxLength
    BY DEF BInv, CountFits
  <2>5. m \in Nat /\ n \in Nat /\ l \in Nat /\ l <= MaxLength
    BY <1>3, <2>2
  <2> HIDE DEF m, n, l
  <2>6. (mog_total_size + l) + (m - 1) * MaxLength <= HddLimit + n * MaxLength
    BY <1>3, <2>3, <2>4, <2>5
  <2> QED
    BY <1>1, <1>5, <2>1, <2>6 DEF CountFits, m, n, l
<1> QED
  BY <1>4, <1>7, <1>8 DEF BInv

\* One more worker for which write() has done its part.
LEMMA UncountedGrows ==
    ASSUME IInv, BInv, NEW w \in Writing \ Uncounted, Uncounted' = Uncounted \cup {w},
           UNCHANGED rkey
    PROVE  /\ SumFunction(UncountedLength)' = Length[File[rkey[w]]] + SumFunction(UncountedLength)
           /\ SumFunction(UncountedLength) \in Nat /\ Length[File[rkey[w]]] \in Nat
<1> DEFINE S == Uncounted \cup {w}
           f == [x \in S |-> Length[File[rkey[x]]]]
<1>1. IsFiniteSet(Uncounted) /\ UncountedLength \in [Uncounted -> Nat]
  BY Terms DEF BInv
<1>2. \A x \in S : Length[File[rkey[x]]] \in Nat
  BY DataAssumption DEF BInv, WritersFit, Uncounted, Writing
<1>3. UncountedLength' = f
  BY DEF UncountedLength
<1>4. /\ f \in [Uncounted \cup {w} -> Nat] /\ f[w] = Length[File[rkey[w]]] /\ w \notin Uncounted
      /\ \A x \in Uncounted : f[x] = UncountedLength[x]
  BY <1>2 DEF UncountedLength
<1> DEFINE g == UncountedLength
<1> HIDE DEF f, g, S
<1>5. SumFunction(f) = f[w] + SumFunction(UncountedLength)
  <2>1. IsFiniteSet(Uncounted) /\ g \in [Uncounted -> Nat] /\ \A x \in Uncounted : f[x] = g[x]
    BY <1>1, <1>4 DEF g
  <2>2. SumFunction(f) = f[w] + SumFunction(g)
    BY <1>4, <2>1, SumAdd
  <2> QED
    BY <2>2 DEF g
<1>6. SumFunction(UncountedLength) \in Nat
  BY <1>1, SumBounded
<1> QED
  BY <1>2, <1>3, <1>4, <1>5, <1>6

\* write() is done with the hash that is there.
LEMMA RejectBudget ==
    ASSUME IInv, BInv, NEW w \in Workers, Reject(w), UNCHANGED <<reading, mog_total_size>>
    PROVE  BInv'
<1>1. /\ wpc[w] = "admitted" /\ wpc' = [wpc EXCEPT ![w] = "idle"]
      /\ warg' = [warg EXCEPT ![w] = None]
      /\ UNCHANGED <<kv_store, hdd, rpc, rkey, mog_total_size>>
  BY DEF Reject, buffer, disk, reading
<1>2. /\ wpc'[w] = "idle" /\ \A x \in Workers : x # w => wpc'[x] = wpc[x] /\ warg'[x] = warg[x]
  BY <1>1 DEF IInv, TypeOK
<1>3. WritersFit'
  <2>1. InMemory' = InMemory
    BY <1>1 DEF InMemory
  <2> QED
    BY <1>1, <1>2, <2>1 DEF BInv, WritersFit
<1>4. w \in Writing \ Uncounted /\ Uncounted' = Uncounted \cup {w} /\ Writing' = Writing
  BY <1>1, <1>2 DEF BInv, WritersFit, Uncounted, Writing
<1>5. StoredCounted'
  <2>1. StoredBytes' = StoredBytes
    BY <1>1 DEF StoredBytes, InMemory, OnDisk
  <2>2. /\ SumFunction(UncountedLength)' = Length[File[rkey[w]]] + SumFunction(UncountedLength)
        /\ SumFunction(UncountedLength) \in Nat /\ Length[File[rkey[w]]] \in Nat
    BY <1>1, <1>4, UncountedGrows
  <2>3. StoredBytes \in Int
    <3>1. SumFunction(MemoryLength) \in Nat /\ SumFunction(DiskLength) \in Nat
      BY Terms, SumBounded DEF BInv
    <3> QED
      BY <3>1 DEF StoredBytes, MemoryLength, DiskLength
  <2>4. mog_total_size \in Nat /\ StoredBytes <= mog_total_size + SumFunction(UncountedLength)
    BY DEF BInv, WritersFit, StoredCounted
  <2>5. StoredBytes <= mog_total_size + (Length[File[rkey[w]]] + SumFunction(UncountedLength))
    BY <2>2, <2>3, <2>4
  <2> QED
    BY <1>1, <2>1, <2>2, <2>5 DEF StoredCounted
<1> QED
  BY <1>1, <1>3, <1>4, <1>5 DEF BInv, CountFits

\* The entry goes to memory.
LEMMA InsertBudget ==
    ASSUME IInv, BInv, NEW w \in Workers, Insert(w), UNCHANGED <<reading, mog_total_size>>
    PROVE  BInv'
<1>1. wpc[w] = "admitted" /\ w \in Entering
  BY DEF Insert, Entering
<1>e. PICK e \in Entries : e = warg[w] /\ e.key \in Keys /\ e # None
  BY <1>1, NoneAssumption DEF IInv, CallersReady, Entries
<1>h. PICK h \in Hashes : h = Hash[e.key]
  BY <1>e, DataAssumption
<1>2. /\ kv_store[h] = None /\ kv_store' = [kv_store EXCEPT ![h] = e]
      /\ warg' = [warg EXCEPT ![w] = None]
      /\ UNCHANGED <<hdd, rpc, rkey, mog_total_size>>
  BY <1>e, <1>h DEF Insert, disk, reading
<1>3. \E there \in {"cutting", "idle"} : wpc' = [wpc EXCEPT ![w] = there]
  BY DEF Insert
<1>4. wpc'[w] \in {"cutting", "idle"} /\ \A x \in Workers : x # w => wpc'[x] = wpc[x] /\ warg'[x] = warg[x]
  BY <1>2, <1>3 DEF IInv, TypeOK
<1>5. kv_store'[h] = e /\ \A x \in Hashes : x # h => kv_store'[x] = kv_store[x]
  BY <1>2 DEF IInv, TypeOK
<1>6. h \notin InMemory /\ InMemory' = InMemory \cup {h}
  BY <1>e, <1>2, <1>5 DEF InMemory
<1>7. IsFiniteSet(InMemory) /\ MemoryLength \in [InMemory -> Nat] /\ IsFiniteSet(OnDisk) /\ DiskLength \in [OnDisk -> Nat]
  BY Terms DEF BInv
<1>8. WritersFit'
  <2>1. IsFiniteSet(InMemory')
    BY <1>6, <1>7, FS_AddElement
  <2> QED
    BY <1>2, <1>4, <2>1 DEF BInv, WritersFit
<1>9. w \in Writing \ Uncounted /\ Uncounted' = Uncounted \cup {w} /\ Writing' = Writing
  BY <1>1, <1>2, <1>4 DEF BInv, WritersFit, Uncounted, Writing
<1>10. e.value = File[rkey[w]] /\ Length[e.value] \in Nat
  BY <1>1, <1>e, DataAssumption DEF BInv, WritersFit, Entries
<1>11. SumFunction(MemoryLength') = Length[e.value] + SumFunction(MemoryLength)
  <2>1. MemoryLength' = [x \in InMemory \cup {h} |-> Length[kv_store'[x].value]]
    BY <1>6 DEF MemoryLength
  <2>2. ASSUME NEW x \in InMemory PROVE MemoryLength'[x] = MemoryLength[x]
    BY <1>5, <1>6, <2>1 DEF MemoryLength, InMemory
  <2>3. MemoryLength'[h] = Length[e.value]
    BY <1>5, <2>1
  <2>4. MemoryLength' \in [InMemory \cup {h} -> Nat]
    <3>1. \A x \in InMemory \cup {h} : MemoryLength'[x] \in Nat
      BY <1>7, <1>10, <2>2, <2>3
    <3> QED
      BY <2>1, <3>1
  <2> QED
    BY <1>6, <1>7, <2>2, <2>3, <2>4, SumAdd
<1>12. StoredCounted'
  <2>1. DiskLength' = DiskLength
    BY <1>2 DEF DiskLength, OnDisk
  <2>2. /\ SumFunction(UncountedLength)' = Length[File[rkey[w]]] + SumFunction(UncountedLength)
        /\ SumFunction(UncountedLength) \in Nat
    BY <1>2, <1>9, UncountedGrows
  <2>3. SumFunction(MemoryLength) \in Nat /\ SumFunction(DiskLength) \in Nat
    BY <1>7, SumBounded
  <2>4. StoredBytes = SumFunction(MemoryLength) + SumFunction(DiskLength)
    BY DEF StoredBytes, MemoryLength, DiskLength
  <2>5. StoredBytes' = SumFunction(MemoryLength') + SumFunction(DiskLength')
    BY DEF StoredBytes, MemoryLength, DiskLength
  <2>6. mog_total_size \in Nat /\ StoredBytes <= mog_total_size + SumFunction(UncountedLength)
    BY DEF BInv, WritersFit, StoredCounted
  <2> DEFINE l == Length[e.value]
             a == SumFunction(MemoryLength)
             b == SumFunction(DiskLength)
             c == SumFunction(UncountedLength)
  <2>7. a + b <= mog_total_size + c
    BY <2>4, <2>6
  <2>8. l \in Nat /\ a \in Nat /\ b \in Nat /\ c \in Nat /\ mog_total_size \in Nat
    BY <1>10, <2>2, <2>3, <2>6
  <2> HIDE DEF a, b, c, l
  <2>9. (l + a) + b <= mog_total_size + (l + c)
    BY <2>7, <2>8
  <2>10. StoredBytes' = (l + a) + b
    BY <1>11, <2>1, <2>5 DEF a, b, l
  <2>11. SumFunction(UncountedLength)' = l + c
    BY <1>10, <2>2 DEF c, l
  <2> QED
    BY <1>2, <2>9, <2>10, <2>11 DEF StoredCounted
<1> QED
  BY <1>2, <1>8, <1>9, <1>12 DEF BInv, CountFits

\* An entry goes from memory to its block's file.
LEMMA FlushEntryBudget ==
    ASSUME IInv, BInv, NEW f \in Flushers, FlushEntry(f), UNCHANGED <<reading, mog_total_size>>
    PROVE  BInv'
<1>0. fpc[f] = "writing"
  BY DEF FlushEntry
<1>b. PICK b \in BlockIds : b = fblk[f]
  BY <1>0, WriterAlone
<1>1. hdd[b] \in Seq(Entries) /\ blocks[b] \in Seq(Entries)
  BY DEF IInv, TypeOK
<1>n. PICK n \in Nat : n = Len(hdd[b]) + 1
  BY <1>1
<1>2. n \in Unwritten(b)
  BY <1>1, <1>b, <1>n DEF FlushEntry, Unwritten
<1>e. PICK e \in Entries : e = blocks[b][n]
  BY <1>2, SlotEntry DEF IInv
<1>h. PICK h \in Hashes : h = Hash[e.key]
  BY DataAssumption DEF Entries
<1>3. kv_store[h] = e /\ e # None /\ Length[e.value] \in Nat
  BY <1>2, <1>e, <1>h, SlotEntry, DataAssumption, NoneAssumption DEF IInv, SlotHash, Entries
<1>4. /\ hdd' = [hdd EXCEPT ![b] = Append(@, e)]
      /\ kv_store' = [kv_store EXCEPT ![h] = None]
      /\ UNCHANGED <<wpc, warg, rpc, rkey, mog_total_size>>
  BY <1>b, <1>n, <1>e, <1>h DEF FlushEntry, callers, reading
<1>5. kv_store'[h] = None /\ \A x \in Hashes : x # h => kv_store'[x] = kv_store[x]
  BY <1>4 DEF IInv, TypeOK
<1>6. hdd'[b] = Append(hdd[b], e) /\ \A c \in BlockIds : c # b => hdd'[c] = hdd[c]
  BY <1>4 DEF IInv, TypeOK
<1>7. IsFiniteSet(InMemory) /\ MemoryLength \in [InMemory -> Nat] /\ IsFiniteSet(OnDisk) /\ DiskLength \in [OnDisk -> Nat]
  BY Terms DEF BInv
<1>8. h \in InMemory /\ InMemory' = InMemory \ {h}
  BY <1>3, <1>5 DEF InMemory
<1>9. SumFunction(MemoryLength) = Length[e.value] + SumFunction(MemoryLength') /\ SumFunction(MemoryLength') \in Nat
  <2> DEFINE S == InMemory \ {h}
             g == [x \in S |-> Length[kv_store'[x].value]]
  <2>1. MemoryLength' = g
    BY <1>8 DEF MemoryLength
  <2>2. IsFiniteSet(S) /\ h \notin S /\ S \cup {h} = InMemory
    BY <1>7, <1>8, FS_Subset
  <2>3. \A x \in S : g[x] = MemoryLength[x]
    BY <1>5 DEF MemoryLength, InMemory
  <2>4. g \in [S -> Nat]
    <3>1. \A x \in S : g[x] \in Nat
      BY <1>7, <2>3
    <3> QED
      BY <3>1
  <2>5. MemoryLength[h] = Length[e.value]
    BY <1>3, <1>8 DEF MemoryLength
  <2> HIDE DEF S, g
  <2>6. SumFunction(MemoryLength) = MemoryLength[h] + SumFunction(g)
    BY <1>7, <2>2, <2>3, <2>4, SumAdd
  <2>7. SumFunction(g) \in Nat
    BY <2>2, <2>4, SumBounded
  <2> QED
    BY <2>1, <2>5, <2>6, <2>7
<1>10. SumFunction(DiskLength') = Length[e.value] + SumFunction(DiskLength)
  <2> DEFINE d == <<b, n>>
  <2>1. OnDisk' = OnDisk \cup {d} /\ d \notin OnDisk
    <3>1. DOMAIN hdd[b] = 1 .. n - 1 /\ DOMAIN hdd'[b] = 1 .. n
      BY <1>1, <1>6, <1>n
    <3>2. DOMAIN hdd'[b] = DOMAIN hdd[b] \cup {n} /\ n \notin DOMAIN hdd[b]
      BY <1>n, <3>1
    <3> QED
      BY <1>6, <3>2 DEF OnDisk
  <2>2. DiskLength' = [p \in OnDisk \cup {d} |-> Length[hdd'[p[1]][p[2]].value]]
    BY <2>1 DEF DiskLength
  <2>3. ASSUME NEW p \in OnDisk PROVE DiskLength'[p] = DiskLength[p]
    <3>1. PICK c \in BlockIds : \E i \in DOMAIN hdd[c] : p = <<c, i>>
      BY DEF OnDisk
    <3>i. PICK i \in DOMAIN hdd[c] : p = <<c, i>>
      BY <3>1
    <3>2. hdd'[c][i] = hdd[c][i]
      <4>1. CASE c = b
        BY <1>1, <1>6, <4>1
      <4>2. CASE c # b
        BY <1>6, <4>2
      <4> QED
        BY <4>1, <4>2
    <3> QED
      BY <2>2, <3>i, <3>2 DEF DiskLength
  <2>4. DiskLength'[d] = Length[e.value]
    <3>1. hdd'[b][n] = e
      BY <1>1, <1>6, <1>n
    <3> QED
      BY <2>2, <3>1
  <2>5. DiskLength' \in [OnDisk \cup {d} -> Nat]
    <3>1. \A p \in OnDisk \cup {d} : DiskLength'[p] \in Nat
      BY <1>3, <1>7, <2>3, <2>4
    <3> QED
      BY <2>2, <3>1
  <2> HIDE DEF d
  <2> QED
    BY <1>7, <2>1, <2>3, <2>4, <2>5, SumAdd
<1>11. WritersFit'
  <2>1. IsFiniteSet(InMemory')
    BY <1>7, <1>8, FS_Subset
  <2> QED
    BY <1>4, <2>1 DEF BInv, WritersFit
<1>12. Writing' = Writing /\ Uncounted' = Uncounted /\ UncountedLength' = UncountedLength
  BY <1>4 DEF Writing, Uncounted, UncountedLength
<1>13. StoredBytes' = StoredBytes
  <2>1. SumFunction(DiskLength) \in Nat
    BY <1>7, SumBounded
  <2>2. StoredBytes = SumFunction(MemoryLength) + SumFunction(DiskLength)
    BY DEF StoredBytes, MemoryLength, DiskLength
  <2>3. StoredBytes' = SumFunction(MemoryLength') + SumFunction(DiskLength')
    BY DEF StoredBytes, MemoryLength, DiskLength
  <2> QED
    BY <1>3, <1>9, <1>10, <2>1, <2>2, <2>3
<1> QED
  BY <1>4, <1>11, <1>12, <1>13 DEF BInv, StoredCounted, CountFits

\* Every step keeps the count and what is stored together.
LEMMA BStep ==
    ASSUME IInv, KeyKnown, BInv, [StoreNext]_storeVars
    PROVE  BInv'
<1>1. CASE \E w \in Workers : Aside(w)
  BY <1>1, AsideBudget, StoredBudget
<1>2. CASE \E w \in Workers : FileStore(w)
  BY <1>2, FileStoreBudget
<1>3. CASE BufferStep
  <2>1. UNCHANGED <<reading, mog_total_size>>
    BY <1>3 DEF BufferStep
  <2> QED
    BY <1>3, <2>1, InsertBudget, RejectBudget, FlushEntryBudget, PassingBudget
<1>4. CASE Copying \/ UNCHANGED storeVars
  <2>1. UNCHANGED <<vars, reading, mog_total_size>>
    BY <1>4 DEF Copying, SsdCopy, SsdEvict, storeVars
  <2>2. UNCHANGED <<kv_store, hdd, wpc, warg, rpc, rkey, mog_total_size>>
    BY <2>1 DEF vars, buffer, disk, callers, reading
  <2> QED
    BY <2>2, SameBudget DEF Writing, Uncounted, BInv, WritersFit
<1> QED
  BY <1>1, <1>2, <1>3, <1>4, StoreSteps

\* However many workers find the budget not used up at the same time, the files
\* in memory and on the HDD pass it by at most one of the largest size for each
\* worker (mog.cpp:324-326).
THEOREM BudgetHolds == StoreSpec => []BudgetKept
<1>1. IInv /\ BInv => BudgetKept
  <2> SUFFICES ASSUME IInv, BInv PROVE BudgetKept
    OBVIOUS
  <2>1. /\ IsFiniteSet(Uncounted) /\ UncountedLength \in [Uncounted -> Nat] /\ IsFiniteSet(Writing)
        /\ MemoryLength \in [InMemory -> Nat] /\ DiskLength \in [OnDisk -> Nat]
        /\ IsFiniteSet(InMemory) /\ IsFiniteSet(OnDisk)
    BY Terms DEF BInv
  <2>2. SumFunction(UncountedLength) <= Cardinality(Uncounted) * MaxLength
    <3>1. MaxLength \in Nat /\ \A w \in Uncounted : UncountedLength[w] <= MaxLength
      BY SlabTable DEF BInv, WritersFit, UncountedLength, Uncounted, Writing
    <3> QED
      BY <2>1, <3>1, SumBounded
  <2>3. Cardinality(Uncounted) <= Cardinality(Writing)
    BY <2>1, FS_Subset DEF Uncounted
  <2>4. Cardinality(Uncounted) \in Nat /\ Cardinality(Writing) \in Nat /\ Cardinality(Workers) \in Nat
    BY <2>1, ThreadAssumption, FS_CardinalityType
  <2>5. HddLimit \in Nat /\ MaxLength = 1048576 /\ mog_total_size \in Nat
    BY StoreAssumption, SlabTable DEF HddLimit, BInv, WritersFit
  <2>6. /\ StoredBytes <= mog_total_size + SumFunction(UncountedLength)
        /\ mog_total_size + Cardinality(Writing) * MaxLength <= HddLimit + Cardinality(Workers) * MaxLength
    BY DEF BInv, StoredCounted, CountFits
  <2>7. StoredBytes \in Int /\ SumFunction(UncountedLength) \in Nat
    <3>1. SumFunction(MemoryLength) \in Nat /\ SumFunction(DiskLength) \in Nat
      BY <2>1, SumBounded
    <3>2. SumFunction(UncountedLength) \in Nat
      BY <2>1, SumBounded
    <3> QED
      BY <3>1, <3>2 DEF StoredBytes, MemoryLength, DiskLength
  <2>8. Cardinality(Uncounted) * MaxLength <= Cardinality(Writing) * MaxLength
    BY <2>3, <2>4, <2>5
  <2>9. StoredBytes <= HddLimit + Cardinality(Workers) * MaxLength
    BY <2>2, <2>4, <2>5, <2>6, <2>7, <2>8
  <2> QED
    BY <2>9 DEF BudgetKept
<1>2. StoreSpec => []IInv
  BY StoreImplementsBuffer, Invariance, PTL
<1> QED
  BY <1>1, <1>2, BInit, BStep, KeyKnownInvariance, PTL DEF StoreSpec
=============================================================================
