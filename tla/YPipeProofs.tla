---------------------------- MODULE YPipeProofs -----------------------------
(***************************************************************************)
(* Proofs about YPipe, for any granularity from 2 on, any addresses that   *)
(* malloc can return and any number of writes.                             *)
(***************************************************************************)
EXTENDS YPipe, SequenceTheorems, TLAPS

Values == 0 .. MaxWrites
Optional == Chunks \cup {Null}

\* Types of the queue, its pointers, and what its two threads have in hand.
TypeOK ==
    /\ heap \in SUBSET Chunks
    /\ values \in [Address -> Values]
    /\ prev \in [Chunks -> Optional] /\ next \in [Chunks -> Optional]
    /\ begin \in Address /\ back \in Address /\ end \in Address
    /\ spare_chunk \in Optional /\ sc \in Optional /\ o \in Optional
    /\ list \in Seq(Address)
    /\ w \in Address /\ r \in Address /\ f \in Address /\ c \in Address \cup {Null}
    /\ wpc \in {"idle", "xchg", "link", "set", "signal"} /\ incomplete \in BOOLEAN
    /\ rpc \in {"awake", "asleep", "xchg"}
    /\ taken \in Seq(Values)
    /\ signal \in BOOLEAN
    /\ writes \in Values

\* Within a chunk, the addresses of the list l ascend: none is there twice.
Ascending(l) ==
    \A i, j \in DOMAIN l : i < j /\ l[i][1] = l[j][1] => l[i][2] < l[j][2]

\* Where r, w, f and back are in the list.
Marks(ir, iw, jf, ib) ==
    /\ 1 <= ir /\ ir <= iw /\ iw <= jf /\ jf <= ib
    /\ ib = IF wpc \in {"xchg", "link"} THEN Len(list) ELSE Len(list) - 1
    /\ r = list[ir] /\ w = list[iw] /\ f = list[jf] /\ back = list[ib]
InOrder == \E ir, iw, jf, ib \in Nat : Marks(ir, iw, jf, ib)

\* c is w, or Null while the reader sleeps and nobody is going to wake it; then
\* there is nothing flushed.
Sleeping ==
    /\ c \in {w, Null}
    /\ c = Null => rpc = "asleep" /\ w = begin /\ wpc # "signal" /\ ~signal
    /\ c # Null /\ rpc = "asleep" => wpc = "signal" \/ signal
    /\ wpc = "signal" \/ signal => rpc = "asleep"
    /\ ~(wpc = "signal" /\ signal)
    /\ wpc = "set" => c = Null /\ w # f
    /\ rpc = "asleep" => r = begin

\* What the threads have in hand.
InHand ==
    /\ sc # Null <=> wpc = "link"
    /\ o # Null <=> rpc = "xchg"
    /\ wpc \in {"xchg", "link"} => FullChunk

IInv == TypeOK /\ ChunksConserved /\ Ascending(list) /\ InOrder /\ Sleeping /\ InHand
-----------------------------------------------------------------------------
\* An address of the list is at one place of it.
LEMMA Found ==
    ASSUME NEW l \in Seq(Address), Ascending(l), NEW k \in DOMAIN l
    PROVE  /\ \A i \in DOMAIN l : l[i] = l[k] => i = k
           /\ (CHOOSE i \in DOMAIN l : l[i] = l[k]) = k
<1>1. ASSUME NEW i \in DOMAIN l, l[i] = l[k] PROVE i = k
  <2>1. i \in Int /\ k \in Int
    OBVIOUS
  <2>2. l[k] \in Address
    OBVIOUS
  <2>3. l[k][2] \in Int
    BY <2>2, PipeAssumption DEF Address
  <2>4. ~(i < k) /\ ~(k < i)
    BY <1>1, <2>3 DEF Ascending
  <2> QED
    BY <2>1, <2>4
<1>2. (CHOOSE i \in DOMAIN l : l[i] = l[k]) = k
  <2> DEFINE P(i) == i \in DOMAIN l /\ l[i] = l[k]
  <2>1. P(k) /\ \A i : P(i) => i = k
    BY <1>1
  <2>2. (CHOOSE i : P(i)) = k
    BY <2>1
  <2> QED
    BY <2>2
<1> QED
  BY <1>1, <1>2

\* An address is a chunk and a place in it, and not NULL.
LEMMA AddressParts ==
    ASSUME NEW a \in Address
    PROVE  a[1] \in Chunks /\ a[2] \in 0 .. N - 1 /\ a[2] \in Int /\ a = <<a[1], a[2]>>
           /\ a # Null /\ N \in Nat /\ N > 1
BY PipeAssumption DEF Address

\* pop(), unpush() and push() leave a list that ascends.
LEMMA AscendingTail ==
    ASSUME NEW l \in Seq(Address), l # <<>>, Ascending(l)
    PROVE  Ascending(Tail(l))
<1>1. \A i \in DOMAIN Tail(l) : Tail(l)[i] = l[i + 1] /\ i + 1 \in DOMAIN l /\ i \in Int
  OBVIOUS
<1> QED
  BY <1>1 DEF Ascending

LEMMA AscendingFront ==
    ASSUME NEW l \in Seq(Address), Len(l) > 0, Ascending(l)
    PROVE  Ascending(SubSeq(l, 1, Len(l) - 1))
<1>1. \A i \in DOMAIN SubSeq(l, 1, Len(l) - 1) : SubSeq(l, 1, Len(l) - 1)[i] = l[i] /\ i \in DOMAIN l
  OBVIOUS
<1> QED
  BY <1>1 DEF Ascending

LEMMA AscendingAppend ==
    ASSUME NEW l \in Seq(Address), Ascending(l), NEW a \in Address,
           \A i \in DOMAIN l : l[i][1] = a[1] => l[i][2] < a[2]
    PROVE  Ascending(Append(l, a))
<1> DEFINE m == Append(l, a)
<1>1. Len(m) = Len(l) + 1 /\ m \in Seq(Address) /\ m[Len(l) + 1] = a
  OBVIOUS
<1>2. \A i \in DOMAIN l : m[i] = l[i]
  OBVIOUS
<1>3. \A i \in DOMAIN m : i \in Int /\ (i \in DOMAIN l \/ i = Len(l) + 1)
  OBVIOUS
<1>4. \A i \in DOMAIN l : i < Len(l) + 1
  OBVIOUS
<1> HIDE DEF m
<1>5. ASSUME NEW i \in DOMAIN m, NEW j \in DOMAIN m, i < j, m[i][1] = m[j][1]
      PROVE  m[i][2] < m[j][2]
  <2>1. i \in DOMAIN l
    BY <1>3, <1>4, <1>5
  <2>2. CASE j \in DOMAIN l
    BY <1>2, <1>5, <2>1, <2>2 DEF Ascending
  <2>3. CASE j = Len(l) + 1
    BY <1>1, <1>2, <1>5, <2>1, <2>3
  <2> QED
    BY <1>3, <2>2, <2>3
<1>6. Ascending(m)
  BY <1>5 DEF Ascending
<1> QED
  BY <1>6 DEF m
-----------------------------------------------------------------------------
\* At the start there is one chunk, and in it the terminator.
LEMMA InitInv == Init => IInv
<1> SUFFICES ASSUME Init PROVE IInv
  OBVIOUS
<1>1. PICK first \in Chunks :
        /\ heap = {first} /\ begin = <<first, 0>> /\ back = begin /\ end = <<first, 1>>
        /\ list = <<begin, end>>
        /\ values = [a \in Address |-> Unset]
        /\ prev = [k \in Chunks |-> Null] /\ next = [k \in Chunks |-> Null]
        /\ spare_chunk = Null
        /\ w = back /\ r = back /\ f = back /\ c = back
        /\ wpc = "idle" /\ sc = Null /\ incomplete = FALSE
        /\ rpc = "awake" /\ o = Null /\ taken = <<>> /\ signal = FALSE /\ writes = 0
  BY DEF Init
<1>2. begin \in Address /\ end \in Address /\ first # Null /\ N > 1 /\ N \in Nat
  BY <1>1, PipeAssumption DEF Address
<1>3. list \in Seq(Address) /\ Len(list) = 2 /\ list[1] = begin /\ list[2] = end
      /\ \A i : i \in DOMAIN list <=> i = 1 \/ i = 2
  BY <1>1, <1>2
<1>4. TypeOK
  <2>1. 0 \in Values /\ values \in [Address -> Values] /\ writes \in Values
    BY <1>1, PipeAssumption DEF Values, Unset
  <2>2. prev \in [Chunks -> Optional] /\ next \in [Chunks -> Optional]
    BY <1>1 DEF Optional
  <2>3. taken \in Seq(Values) /\ heap \in SUBSET Chunks
    BY <1>1
  <2> QED
    BY <1>1, <1>2, <1>3, <2>1, <2>2, <2>3 DEF TypeOK, Optional
<1>5. ChunksConserved
  <2>1. list[2] = After(list[1]) /\ list[1] = Before(list[2])
    BY <1>1, <1>2, <1>3 DEF After, Before
  <2>2. Linked
    BY <1>3, <2>1 DEF Linked
  <2>3. Listed = {first}
    BY <1>1, <1>3 DEF Listed
  <2>4. Held = {}
    BY <1>1 DEF Held
  <2> QED
    BY <1>1, <2>2, <2>3, <2>4 DEF ChunksConserved
<1>6. Ascending(list)
  BY <1>1, <1>3 DEF Ascending
<1>7. Marks(1, 1, 1, 1)
  BY <1>1, <1>3 DEF Marks
<1>8. Sleeping
  BY <1>1, <1>2, AddressParts DEF Sleeping
<1>9. InHand
  BY <1>1 DEF InHand
<1> QED
  BY <1>4, <1>5, <1>6, <1>7, <1>8, <1>9 DEF IInv, InOrder

\* Steps that leave the chunks alone.
LEMMA SameChunks ==
    ASSUME IInv, UNCHANGED <<yqueue, list, sc, o>>
    PROVE  ChunksConserved' /\ Ascending(list)' /\ FullChunk' = FullChunk
<1>1. Linked' = Linked
  BY DEF Linked, After, Before, yqueue
<1>2. Listed' = Listed /\ Held' = Held /\ heap' = heap
  BY DEF Listed, Held, yqueue
<1>3. FullChunk' = FullChunk
  BY DEF FullChunk, yqueue
<1> QED
  BY <1>1, <1>2, <1>3 DEF ChunksConserved, IInv, yqueue

\* The addresses of the end's chunk that are in the list come before the end.
LEMMA EndIsLast ==
    ASSUME IInv
    PROVE  /\ list \in Seq(Address) /\ Len(list) \in Nat /\ Len(list) > 0
           /\ list[Len(list)] = end /\ end \in Address
           /\ \A i \in DOMAIN list : i = Len(list) \/ (list[i][1] = end[1] => list[i][2] < end[2])
<1>1. PICK ir, iw, jf, ib \in Nat : Marks(ir, iw, jf, ib)
  BY DEF IInv, InOrder
<1>2. list \in Seq(Address) /\ Len(list) > 0 /\ list[Len(list)] = end /\ end \in Address
  BY <1>1 DEF IInv, TypeOK, ChunksConserved, Linked, Marks
<1>3. Len(list) \in DOMAIN list /\ \A i \in DOMAIN list : i = Len(list) \/ i < Len(list)
  BY <1>2
<1>4. Len(list) \in Nat
  BY <1>2
<1> QED
  BY <1>2, <1>3, <1>4 DEF IInv, Ascending

-----------------------------------------------------------------------------
(***************************************************************************)
(* What the addresses hold                                                 *)
(***************************************************************************)

\* What the values v are at the addresses l[i], ..., l[j - 1].
Slice(v, l, i, j) == [n \in 1 .. j - i |-> v[l[i + n - 1]]]
Shows(s, v, l, i, j) ==
    s \in Seq(Values) /\ Len(s) = j - i /\ \A n \in 1 .. j - i : s[n] = v[l[i + n - 1]]

\* A slice is a sequence of values.
LEMMA SliceType ==
    ASSUME NEW l \in Seq(Address), NEW v \in [Address -> Values], NEW i \in Nat, NEW j \in Nat,
           1 <= i, i <= j, j <= Len(l) + 1
    PROVE  Shows(Slice(v, l, i, j), v, l, i, j)
<1>1. ASSUME NEW n \in 1 .. j - i PROVE v[l[i + n - 1]] \in Values
  <2>1. i + n - 1 \in 1 .. Len(l)
    OBVIOUS
  <2>2. l[i + n - 1] \in Address
    BY <2>1
  <2> QED
    BY <2>2
<1>2. j - i \in Nat
  OBVIOUS
<1>3. Slice(v, l, i, j) \in [1 .. j - i -> Values]
  BY <1>1 DEF Slice
<1>4. Slice(v, l, i, j) \in Seq(Values) /\ Len(Slice(v, l, i, j)) = j - i
  BY <1>2, <1>3
<1> QED
  BY <1>4 DEF Slice, Shows

\* Sequences of values that agree are the same.
LEMMA SameSequence ==
    ASSUME NEW s \in Seq(Values), NEW t \in Seq(Values), Len(s) = Len(t),
           \A n \in 1 .. Len(s) : s[n] = t[n]
    PROVE  s = t
BY SeqEqual

\* Other values and another list, which agree from i to j.
LEMMA SliceSame ==
    ASSUME NEW l \in Seq(Address), NEW v \in [Address -> Values], NEW i \in Nat, NEW j \in Nat,
           NEW m, NEW u,
           \A n \in Nat : i <= n /\ n < j => m[n] = l[n] /\ u[l[n]] = v[l[n]]
    PROVE  Slice(u, m, i, j) = Slice(v, l, i, j)
<1>1. ASSUME NEW n \in 1 .. j - i PROVE u[m[i + n - 1]] = v[l[i + n - 1]]
  <2>1. i + n - 1 \in Nat /\ i <= i + n - 1 /\ i + n - 1 < j
    OBVIOUS
  <2> QED
    BY <2>1
<1> QED
  BY <1>1 DEF Slice

\* Slices that are empty, grow at the end, join, lose the last or the first, and shift.
LEMMA SliceNone ==
    ASSUME NEW l \in Seq(Address), NEW v \in [Address -> Values], NEW i \in Nat, 1 <= i, i <= Len(l) + 1
    PROVE  Slice(v, l, i, i) = <<>>
<1>1. Shows(Slice(v, l, i, i), v, l, i, i)
  BY SliceType
<1>2. Slice(v, l, i, i) \in Seq(Values) /\ Len(Slice(v, l, i, i)) = 0
  BY <1>1 DEF Shows
<1> QED
  BY <1>2

LEMMA SliceAppend ==
    ASSUME NEW l \in Seq(Address), NEW v \in [Address -> Values], NEW i \in Nat, NEW j \in Nat,
           1 <= i, i <= j, j <= Len(l)
    PROVE  Slice(v, l, i, j + 1) = Append(Slice(v, l, i, j), v[l[j]])
<1> DEFINE s == Slice(v, l, i, j)
           t == Slice(v, l, i, j + 1)
<1>1. s \in Seq(Values) /\ Len(s) = j - i /\ \A n \in 1 .. j - i : s[n] = v[l[i + n - 1]]
  <2>1. Shows(s, v, l, i, j)
    BY SliceType
  <2> QED
    BY <2>1 DEF Shows
<1>2. t \in Seq(Values) /\ Len(t) = j + 1 - i /\ \A n \in 1 .. j + 1 - i : t[n] = v[l[i + n - 1]]
  <2>1. j + 1 \in Nat /\ i <= j + 1 /\ j + 1 <= Len(l) + 1
    OBVIOUS
  <2>2. Shows(t, v, l, i, j + 1)
    BY <2>1, SliceType
  <2> QED
    BY <2>2 DEF Shows
<1>3. v[l[j]] \in Values
  <2>1. j \in 1 .. Len(l)
    OBVIOUS
  <2> QED
    BY <2>1
<1> DEFINE a == Append(s, v[l[j]])
<1> HIDE DEF s, t
<1>4. a \in Seq(Values) /\ Len(a) = j + 1 - i /\ a[j + 1 - i] = v[l[j]]
      /\ \A n \in 1 .. j - i : a[n] = s[n]
  BY <1>1, <1>3
<1> HIDE DEF a
<1>5. ASSUME NEW n \in 1 .. Len(t) PROVE t[n] = a[n]
  <2>1. CASE n = j + 1 - i
    <3>1. i + n - 1 = j
      BY <2>1
    <3> QED
      BY <1>2, <1>4, <2>1, <3>1
  <2>2. CASE n # j + 1 - i
    <3>1. n \in 1 .. j - i
      BY <1>2, <2>2
    <3> QED
      BY <1>1, <1>2, <1>4, <3>1
  <2> QED
    BY <2>1, <2>2
<1>6. t = a
  BY <1>2, <1>4, <1>5, SameSequence
<1> QED
  BY <1>6 DEF s, t, a

LEMMA SliceConcat ==
    ASSUME NEW l \in Seq(Address), NEW v \in [Address -> Values], NEW i \in Nat, NEW j \in Nat,
           NEW k \in Nat, 1 <= i, i <= j, j <= k, k <= Len(l) + 1
    PROVE  Slice(v, l, i, k) = Slice(v, l, i, j) \o Slice(v, l, j, k)
<1> DEFINE s == Slice(v, l, i, j)
           t == Slice(v, l, j, k)
           u == Slice(v, l, i, k)
<1>1. s \in Seq(Values) /\ Len(s) = j - i /\ \A n \in 1 .. j - i : s[n] = v[l[i + n - 1]]
  <2>1. Shows(s, v, l, i, j)
    BY SliceType
  <2> QED
    BY <2>1 DEF Shows
<1>2. t \in Seq(Values) /\ Len(t) = k - j /\ \A n \in 1 .. k - j : t[n] = v[l[j + n - 1]]
  <2>1. Shows(t, v, l, j, k)
    BY SliceType
  <2> QED
    BY <2>1 DEF Shows
<1>3. u \in Seq(Values) /\ Len(u) = k - i /\ \A n \in 1 .. k - i : u[n] = v[l[i + n - 1]]
  <2>1. Shows(u, v, l, i, k)
    BY SliceType
  <2> QED
    BY <2>1 DEF Shows
<1> DEFINE a == s \o t
<1> HIDE DEF s, t, u
<1>4. a \in Seq(Values) /\ Len(a) = k - i
      /\ \A n \in 1 .. Len(a) : a[n] = IF n <= j - i THEN s[n] ELSE t[n - (j - i)]
  <2>1. s \in Seq(Values) /\ t \in Seq(Values) /\ Len(s) + Len(t) = k - i
    BY <1>1, <1>2
  <2>2. /\ a \in Seq(Values) /\ Len(a) = Len(s) + Len(t)
        /\ \A n \in 1 .. Len(s) + Len(t) : a[n] = IF n <= Len(s) THEN s[n] ELSE t[n - Len(s)]
    BY <2>1, ConcatProperties, Zenon
  <2> QED
    BY <1>1, <2>1, <2>2
<1> HIDE DEF a
<1>5. ASSUME NEW n \in 1 .. Len(u) PROVE u[n] = a[n]
  <2>1. CASE n <= j - i
    BY <1>1, <1>3, <1>4, <2>1
  <2>2. CASE ~(n <= j - i)
    <3>1. n - (j - i) \in 1 .. k - j /\ j + (n - (j - i)) - 1 = i + n - 1
      BY <1>3, <2>2
    <3> QED
      BY <1>2, <1>3, <1>4, <2>2, <3>1
  <2> QED
    BY <2>1, <2>2
<1>6. u = a
  BY <1>3, <1>4, <1>5, SameSequence
<1> QED
  BY <1>6 DEF s, t, u, a

\* A slice and its beginning.
LEMMA SliceCut ==
    ASSUME NEW l \in Seq(Address), NEW v \in [Address -> Values], NEW i \in Nat, NEW j \in Nat,
           1 <= i, i < j, j <= Len(l)
    PROVE  /\ Slice(v, l, 1, j) = Slice(v, l, 1, i) \o Slice(v, l, i, j)
           /\ Slice(v, l, i, j) # <<>> /\ Slice(v, l, j, j) = <<>>
<1>1. 1 \in Nat /\ 1 <= 1 /\ i <= j /\ 1 <= j /\ j <= Len(l) + 1
  OBVIOUS
<1>2. Slice(v, l, 1, j) = Slice(v, l, 1, i) \o Slice(v, l, i, j)
  BY <1>1, SliceConcat
<1>3. Shows(Slice(v, l, i, j), v, l, i, j)
  BY <1>1, SliceType
<1>4. Len(Slice(v, l, i, j)) # 0
  BY <1>3 DEF Shows
<1>5. Slice(v, l, j, j) = <<>>
  BY <1>1, SliceNone
<1> QED
  BY <1>2, <1>4, <1>5

LEMMA SliceFront ==
    ASSUME NEW l \in Seq(Address), NEW v \in [Address -> Values], NEW i \in Nat, NEW j \in Nat,
           1 <= i, i <= j, j <= Len(l)
    PROVE  LET t == Slice(v, l, i, j + 1) IN t # <<>> /\ SubSeq(t, 1, Len(t) - 1) = Slice(v, l, i, j)
<1> DEFINE s == Slice(v, l, i, j)
           t == Slice(v, l, i, j + 1)
<1>1. t = Append(s, v[l[j]])
  BY SliceAppend
<1>2. s \in Seq(Values)
  <2>1. Shows(s, v, l, i, j)
    BY SliceType
  <2> QED
    BY <2>1 DEF Shows
<1>3. v[l[j]] \in Values
  <2>1. j \in 1 .. Len(l)
    OBVIOUS
  <2> QED
    BY <2>1
<1> HIDE DEF s, t
<1>4. Len(t) = Len(s) + 1 /\ t # <<>> /\ t \in Seq(Values) /\ Len(s) \in Nat
      /\ \A n \in 1 .. Len(s) : t[n] = s[n]
  BY <1>1, <1>2, <1>3
<1>5. SubSeq(t, 1, Len(s)) \in Seq(Values) /\ Len(SubSeq(t, 1, Len(s))) = Len(s)
      /\ \A n \in 1 .. Len(s) : SubSeq(t, 1, Len(s))[n] = t[n]
  BY <1>4
<1>6. SubSeq(t, 1, Len(s)) = s
  BY <1>2, <1>4, <1>5, SameSequence
<1>7. Len(t) - 1 = Len(s)
  BY <1>4
<1> QED
  BY <1>4, <1>6, <1>7 DEF s, t

\* A value is written at the address m[k], of which l up to k - 1 says nothing.
Written(l, v, m, u, i, j, k) ==
    /\ Slice(u, m, 1, i) = Slice(v, l, 1, i) /\ Slice(u, m, i, j) = Slice(v, l, i, j)
    /\ Slice(u, m, j, k + 1) = Append(Slice(v, l, j, k), u[m[k]])
    /\ Slice(u, m, i, k + 1) = Append(Slice(v, l, i, j) \o Slice(v, l, j, k), u[m[k]])
LEMMA SliceWritten ==
    ASSUME NEW l \in Seq(Address), NEW v \in [Address -> Values],
           NEW m \in Seq(Address), NEW u \in [Address -> Values],
           NEW i \in Nat, NEW j \in Nat, NEW k \in Nat,
           1 <= i, i <= j, j <= k, k <= Len(l), k <= Len(m),
           \A n \in Nat : 1 <= n /\ n < k => m[n] = l[n] /\ u[l[n]] = v[l[n]]
    PROVE  Written(l, v, m, u, i, j, k)
<1>1. ASSUME NEW a \in Nat, NEW b \in Nat, 1 <= a, b <= k
      PROVE  Slice(u, m, a, b) = Slice(v, l, a, b)
  <2>1. ASSUME NEW n \in 1 .. b - a PROVE u[m[a + n - 1]] = v[l[a + n - 1]]
    <3>1. a + n - 1 \in Nat /\ 1 <= a + n - 1 /\ a + n - 1 < k
      BY <1>1
    <3> QED
      BY <3>1
  <2> QED
    BY <2>1 DEF Slice
<1>2. 1 \in Nat /\ 1 <= 1 /\ i <= k /\ 1 <= j /\ k <= Len(l) + 1
  OBVIOUS
<1>3. Slice(u, m, j, k + 1) = Append(Slice(u, m, j, k), u[m[k]])
  BY <1>2, SliceAppend
<1>4. Slice(u, m, i, k + 1) = Append(Slice(u, m, i, k), u[m[k]])
  BY <1>2, SliceAppend
<1>5. Slice(v, l, i, k) = Slice(v, l, i, j) \o Slice(v, l, j, k)
  BY <1>2, SliceConcat
<1>6. /\ Slice(u, m, 1, i) = Slice(v, l, 1, i) /\ Slice(u, m, i, j) = Slice(v, l, i, j)
      /\ Slice(u, m, j, k) = Slice(v, l, j, k) /\ Slice(u, m, i, k) = Slice(v, l, i, k)
  BY <1>1, <1>2
<1> QED
  BY <1>3, <1>4, <1>5, <1>6 DEF Written

LEMMA SliceTail ==
    ASSUME NEW l \in Seq(Address), NEW v \in [Address -> Values], NEW j \in Nat,
           1 < j, j <= Len(l)
    PROVE  LET s == Slice(v, l, 1, j)
           IN  s # <<>> /\ Head(s) = v[l[1]] /\ Tail(s) = Slice(v, Tail(l), 1, j - 1)
<1> DEFINE s == Slice(v, l, 1, j)
           t == Slice(v, Tail(l), 1, j - 1)
<1>1. s \in Seq(Values) /\ Len(s) = j - 1 /\ \A n \in 1 .. j - 1 : s[n] = v[l[1 + n - 1]]
  <2>1. Shows(s, v, l, 1, j)
    BY SliceType
  <2> QED
    BY <2>1 DEF Shows
<1>2. /\ Tail(l) \in Seq(Address) /\ Len(Tail(l)) = Len(l) - 1
      /\ \A n \in 1 .. Len(l) - 1 : Tail(l)[n] = l[n + 1]
  BY 1 < j
<1>3. t \in Seq(Values) /\ Len(t) = j - 2 /\ \A n \in 1 .. j - 2 : t[n] = v[Tail(l)[1 + n - 1]]
  <2>1. j - 1 \in Nat /\ 1 <= j - 1 /\ j - 1 <= Len(Tail(l)) + 1 /\ j - 1 - 1 = j - 2
    BY <1>2
  <2>2. \A m \in Seq(Address), k \in Nat :
            1 <= k /\ k <= Len(m) + 1 => Shows(Slice(v, m, 1, k), v, m, 1, k)
    BY SliceType
  <2>3. Shows(t, v, Tail(l), 1, j - 1)
    BY <1>2, <2>1, <2>2
  <2> QED
    BY <2>1, <2>3 DEF Shows
<1> HIDE DEF s, t
<1>4. s # <<>> /\ Head(s) = s[1] /\ Tail(s) \in Seq(Values) /\ Len(Tail(s)) = j - 2
      /\ \A n \in 1 .. j - 2 : Tail(s)[n] = s[n + 1]
  BY <1>1
<1>5. 1 \in 1 .. j - 1 /\ 1 + 1 - 1 = 1
  OBVIOUS
<1>6. ASSUME NEW n \in 1 .. Len(t) PROVE t[n] = Tail(s)[n]
  <2>1. /\ n \in 1 .. j - 2 /\ n + 1 \in 1 .. j - 1 /\ n \in 1 .. Len(l) - 1
        /\ 1 + n - 1 = n /\ 1 + (n + 1) - 1 = n + 1
    BY <1>3
  <2>2. t[n] = v[l[n + 1]]
    BY <1>2, <1>3, <2>1
  <2>3. Tail(s)[n] = v[l[n + 1]]
    BY <1>1, <1>4, <2>1
  <2> QED
    BY <2>2, <2>3
<1>7. t = Tail(s)
  BY <1>3, <1>4, <1>6, SameSequence
<1>8. Head(s) = v[l[1]]
  BY <1>1, <1>4, <1>5
<1> QED
  BY <1>4, <1>7, <1>8 DEF s, t

LEMMA SliceShift ==
    ASSUME NEW l \in Seq(Address), NEW v \in [Address -> Values], NEW i \in Nat, NEW j \in Nat,
           1 < i, i <= j, j <= Len(l) + 1
    PROVE  Slice(v, Tail(l), i - 1, j - 1) = Slice(v, l, i, j)
<1>1. ASSUME NEW n \in 1 .. j - i PROVE Tail(l)[i - 1 + n - 1] = l[i + n - 1]
  <2>1. l # <<>> /\ i - 1 + n - 1 \in 1 .. Len(l) - 1 /\ i - 1 + n - 1 + 1 = i + n - 1
    OBVIOUS
  <2> QED
    BY <2>1
<1>2. j - 1 - (i - 1) = j - i
  OBVIOUS
<1> QED
  BY <1>1, <1>2 DEF Slice

\* What SleepyQueue's variables stand for, by the places of w, f and back.
MappedRight ==
    \A ir, iw, jf, ib \in Nat : Marks(ir, iw, jf, ib) =>
        /\ Flushed = Slice(values, list, 1, iw)
        /\ Complete = Slice(values, list, iw, IF Growing THEN ib ELSE jf)
        /\ Partial = IF Growing THEN <<>> ELSE Slice(values, list, jf, ib)

\* In every state of the invariant they stand for that.
LEMMA Mapped == IInv => MappedRight
<1> SUFFICES ASSUME IInv, NEW ir \in Nat, NEW iw \in Nat, NEW jf \in Nat, NEW ib \in Nat,
                    Marks(ir, iw, jf, ib)
             PROVE  /\ Flushed = Slice(values, list, 1, iw)
                    /\ Complete = Slice(values, list, iw, IF Growing THEN ib ELSE jf)
                    /\ Partial = IF Growing THEN <<>> ELSE Slice(values, list, jf, ib)
  BY DEF MappedRight
<1>1. /\ 1 \in DOMAIN list /\ iw \in DOMAIN list /\ jf \in DOMAIN list /\ ib \in DOMAIN list
      /\ w = list[iw] /\ f = list[jf] /\ back = list[ib] /\ begin = list[1]
  <2>1. list \in Seq(Address) /\ Len(list) > 0 /\ begin = list[1]
    BY EndIsLast DEF IInv, ChunksConserved, Linked
  <2> QED
    BY <2>1 DEF Marks
<1>2. /\ At(list[1]) = 1 /\ At(list[iw]) = iw /\ At(list[jf]) = jf /\ At(list[ib]) = ib
  <2>1. ASSUME NEW k \in DOMAIN list PROVE At(list[k]) = k
    BY <2>1, Found DEF At, IInv, TypeOK
  <2> QED
    BY <1>1, <2>1
<1>3. Flushed = Slice(values, list, 1, iw)
  BY <1>1, <1>2 DEF Flushed, Between, Slice
<1>4. Complete = Slice(values, list, iw, IF Growing THEN ib ELSE jf)
  BY <1>1, <1>2 DEF Complete, Between, Slice
<1>5. Partial = IF Growing THEN <<>> ELSE Slice(values, list, jf, ib)
  BY <1>1, <1>2 DEF Partial, Between, Slice
<1> QED
  BY <1>3, <1>4, <1>5

\* The same after a step.
LEMMA MappedNext == IInv' => MappedRight'
BY Mapped, PTL

\* A step of the queue is one of SleepyQueue, or none.
Kept == PromisedNext \/ UNCHANGED Promise!qvars

\* Nothing that SleepyQueue sees changes.
LEMMA SameQueues ==
    UNCHANGED <<list, values, begin, w, f, back, Growing>> => UNCHANGED <<Partial, Complete, Flushed>>
BY DEF Partial, Complete, Flushed, Between, At

LEMMA Silent ==
    UNCHANGED <<list, values, begin, w, f, back, Growing, Reader, taken>> => UNCHANGED Promise!qvars
BY SameQueues DEF Promise!qvars

\* w moves to f: what is complete is now flushed.
LEMMA Published ==
    ASSUME IInv, IInv', ~Growing, ~Growing', UNCHANGED <<list, values>>,
           NEW ir \in Nat, NEW iw \in Nat, NEW jf \in Nat, NEW ib \in Nat,
           Marks(ir, iw, jf, ib), Marks(ir, jf, jf, ib)', w # f
    PROVE  /\ Flushed' = Flushed \o Complete /\ Complete # <<>> /\ Complete' = <<>>
           /\ Partial' = Partial
<1>1. /\ Flushed = Slice(values, list, 1, iw) /\ Complete = Slice(values, list, iw, jf)
      /\ Partial = Slice(values, list, jf, ib)
  BY Mapped DEF MappedRight
<1>2. /\ Flushed' = Slice(values', list', 1, jf) /\ Complete' = Slice(values', list', jf, jf)
      /\ Partial' = Slice(values', list', jf, ib)
  BY MappedNext DEF MappedRight
<1>3. /\ list \in Seq(Address) /\ values \in [Address -> Values]
      /\ 1 <= iw /\ iw < jf /\ jf <= Len(list)
  BY EndIsLast DEF IInv, TypeOK, Marks
<1>4. /\ Slice(values, list, 1, jf) = Slice(values, list, 1, iw) \o Slice(values, list, iw, jf)
      /\ Slice(values, list, iw, jf) # <<>> /\ Slice(values, list, jf, jf) = <<>>
  BY <1>3, SliceCut
<1> QED
  BY <1>1, <1>2, <1>4

\* A flush that finds c as it left it publishes; one that does not has done nothing yet.
LEMMA FlushStep == IInv /\ Flush => IInv' /\ Kept
<1> SUFFICES ASSUME IInv, Flush PROVE IInv' /\ Kept
  OBVIOUS
<1>1. PICK ir, iw, jf, ib \in Nat : Marks(ir, iw, jf, ib)
  BY DEF IInv, InOrder
<1>2. /\ wpc = "idle" /\ w # f
      /\ UNCHANGED <<yqueue, list, f, sc, incomplete, rvars, signal, writes>>
      /\ \/ c = w /\ c' = f /\ w' = f /\ wpc' = wpc
         \/ c # w /\ wpc' = "set" /\ c' = c /\ w' = w
  BY DEF Flush
<1>3. w # Null /\ f # Null
  BY AddressParts DEF IInv, TypeOK
<1>4. TypeOK'
  BY <1>2 DEF IInv, TypeOK, yqueue, rvars
<1>5. ChunksConserved' /\ Ascending(list)' /\ FullChunk' = FullChunk
  BY <1>2, SameChunks DEF rvars
<1>6. InOrder'
  <2>1. CASE c = w
    <3>1. Marks(ir, jf, jf, ib)'
      BY <1>1, <1>2, <2>1 DEF Marks, yqueue, rvars
    <3> QED
      BY <3>1 DEF InOrder
  <2>2. CASE c # w
    <3>1. Marks(ir, iw, jf, ib)'
      BY <1>1, <1>2, <2>2 DEF Marks, yqueue, rvars
    <3> QED
      BY <3>1 DEF InOrder
  <2> QED
    BY <2>1, <2>2
<1>7. Sleeping'
  BY <1>2, <1>3 DEF IInv, Sleeping, yqueue, rvars
<1>8. InHand'
  BY <1>2, <1>5 DEF IInv, InHand, rvars
<1>9. IInv'
  BY <1>4, <1>5, <1>6, <1>7, <1>8 DEF IInv
<1>10. CASE c = w
  <2>1. Marks(ir, jf, jf, ib)'
    BY <1>1, <1>2, <1>10 DEF Marks, yqueue, rvars
  <2>2. ~Growing /\ ~Growing' /\ UNCHANGED <<list, values>>
    BY <1>2 DEF Growing, yqueue
  <2>3. /\ Flushed' = Flushed \o Complete /\ Complete # <<>> /\ Complete' = <<>>
        /\ Partial' = Partial
    BY <1>1, <1>2, <1>9, <2>1, <2>2, Published
  <2>4. Reader' = Reader /\ Reader # "asleep" /\ taken' = taken
    BY <1>2, <1>3, <1>10 DEF IInv, Sleeping, Reader, yqueue, rvars
  <2>5. Promise!QFlush
    BY <2>3, <2>4 DEF Promise!QFlush
  <2> QED
    BY <1>9, <2>5 DEF Kept, PromisedNext
<1>11. CASE c # w
  <2>1. UNCHANGED <<list, values, begin, w, f, back, Growing, Reader, taken>>
    BY <1>2, <1>11 DEF Growing, Reader, yqueue, rvars
  <2> QED
    BY <1>9, <2>1, Silent DEF Kept
<1> QED
  BY <1>10, <1>11

\* The flush that found the reader asleep publishes, and knows.
LEMMA SetCStep == IInv /\ SetC => IInv' /\ Kept
<1> SUFFICES ASSUME IInv, SetC PROVE IInv' /\ Kept
  OBVIOUS
<1>1. PICK ir, iw, jf, ib \in Nat : Marks(ir, iw, jf, ib)
  BY DEF IInv, InOrder
<1>2. /\ wpc = "set" /\ c' = f /\ w' = f /\ wpc' = "signal"
      /\ UNCHANGED <<yqueue, list, f, sc, incomplete, rvars, signal, writes>>
  BY DEF SetC
<1>3. f # Null
  BY AddressParts DEF IInv, TypeOK
<1>4. TypeOK'
  BY <1>2 DEF IInv, TypeOK, yqueue, rvars
<1>5. ChunksConserved' /\ Ascending(list)' /\ FullChunk' = FullChunk
  BY <1>2, SameChunks DEF rvars
<1>6. Marks(ir, jf, jf, ib)'
  BY <1>1, <1>2 DEF Marks, yqueue, rvars
<1>7. Sleeping'
  BY <1>2, <1>3 DEF IInv, Sleeping, yqueue, rvars
<1>8. InHand'
  BY <1>2, <1>5 DEF IInv, InHand, rvars
<1>9. IInv'
  BY <1>4, <1>5, <1>6, <1>7, <1>8 DEF IInv, InOrder
<1>10. ~Growing /\ ~Growing' /\ UNCHANGED <<list, values>> /\ w # f
  BY <1>2 DEF Growing, yqueue, IInv, Sleeping
<1>11. /\ Flushed' = Flushed \o Complete /\ Complete # <<>> /\ Complete' = <<>>
       /\ Partial' = Partial
  BY <1>1, <1>6, <1>9, <1>10, Published
<1>12. Reader = "asleep" /\ Reader' = "called" /\ taken' = taken
  BY <1>2 DEF IInv, Sleeping, Reader, rvars
<1>13. Promise!QFlush
  BY <1>11, <1>12 DEF Promise!QFlush
<1> QED
  BY <1>9, <1>13 DEF Kept, PromisedNext

\* The signal is on its way: the reader was called already.
LEMMA SignalStep == IInv /\ Signal => IInv' /\ Kept
<1> SUFFICES ASSUME IInv, Signal PROVE IInv' /\ Kept
  OBVIOUS
<1>1. PICK ir, iw, jf, ib \in Nat : Marks(ir, iw, jf, ib)
  BY DEF IInv, InOrder
<1>2. /\ wpc = "signal" /\ signal' = TRUE /\ wpc' = "idle"
      /\ UNCHANGED <<yqueue, list, w, f, c, sc, incomplete, rvars, writes>>
  BY DEF Signal
<1>3. TypeOK'
  BY <1>2 DEF IInv, TypeOK, yqueue, rvars
<1>4. ChunksConserved' /\ Ascending(list)' /\ FullChunk' = FullChunk
  BY <1>2, SameChunks DEF rvars
<1>5. Marks(ir, iw, jf, ib)'
  BY <1>1, <1>2 DEF Marks, yqueue, rvars
<1>6. Sleeping'
  BY <1>2 DEF IInv, Sleeping, yqueue, rvars
<1>7. InHand'
  BY <1>2, <1>4 DEF IInv, InHand, rvars
<1>8. IInv'
  BY <1>3, <1>4, <1>5, <1>6, <1>7 DEF IInv, InOrder
<1>9. UNCHANGED <<list, values, begin, w, f, back, Growing, Reader, taken>>
  BY <1>2 DEF Growing, Reader, yqueue, rvars, wvars
<1> QED
  BY <1>8, <1>9, Silent DEF Kept

\* The reader sees what is flushed, or that nothing is, and then it sleeps.
LEMMA CheckReadStep == IInv /\ CheckRead => IInv' /\ Kept
<1> SUFFICES ASSUME IInv, CheckRead PROVE IInv' /\ Kept
  OBVIOUS
<1>1. PICK ir, iw, jf, ib \in Nat : Marks(ir, iw, jf, ib)
  BY DEF IInv, InOrder
<1>2. /\ rpc = "awake" /\ r' = c
      /\ c' = IF c = begin THEN Null ELSE c
      /\ rpc' = IF c = begin \/ c = Null THEN "asleep" ELSE "awake"
      /\ UNCHANGED <<yqueue, list, wvars, o, taken, signal>>
  BY DEF CheckRead, yqueue, wvars
<1>3. c = w /\ c # Null /\ c \in Address /\ wpc # "signal" /\ wpc # "set" /\ ~signal
  BY <1>2 DEF IInv, Sleeping, TypeOK
<1>4. TypeOK'
  BY <1>2, <1>3 DEF IInv, TypeOK, yqueue, wvars
<1>5. ChunksConserved' /\ Ascending(list)' /\ FullChunk' = FullChunk
  BY <1>2, SameChunks DEF wvars
<1>6. Marks(iw, iw, jf, ib)'
  BY <1>1, <1>2, <1>3 DEF Marks, yqueue, wvars
<1>7. Sleeping'
  BY <1>2, <1>3 DEF IInv, Sleeping, yqueue, wvars
<1>8. InHand'
  BY <1>2, <1>5 DEF IInv, InHand, wvars
<1>9. IInv'
  BY <1>4, <1>5, <1>6, <1>7, <1>8 DEF IInv, InOrder
<1>10. UNCHANGED <<list, values, begin, w, f, back, Growing, taken>>
  BY <1>2 DEF Growing, yqueue, wvars
<1>11. CASE c # begin
  <2>1. Reader' = Reader
    BY <1>2, <1>3, <1>11 DEF Reader
  <2> QED
    BY <1>9, <1>10, <2>1, Silent DEF Kept
<1>12. CASE c = begin
  <2>1. Reader = "active" /\ Reader' = "asleep"
    BY <1>2, <1>3, <1>12 DEF Reader, wvars
  <2>2. list \in Seq(Address) /\ values \in [Address -> Values] /\ iw \in DOMAIN list
        /\ list[iw] = list[1] /\ 1 \in DOMAIN list
    <3>1. list \in Seq(Address) /\ Len(list) \in Nat /\ Len(list) > 0
      BY EndIsLast
    <3>2. list[iw] = list[1]
      BY <1>1, <1>3, <1>12 DEF Marks, IInv, ChunksConserved, Linked
    <3> QED
      BY <1>1, <3>1, <3>2 DEF Marks, IInv, TypeOK
  <2>3. iw = 1
    BY <2>2, Found DEF IInv
  <2>4. Flushed = <<>>
    <3>1. Flushed = Slice(values, list, 1, 1)
      BY <1>1, <2>3, Mapped DEF MappedRight
    <3>2. 1 \in Nat /\ 1 <= 1 /\ 1 <= Len(list) + 1
      BY <2>2
    <3> QED
      BY <2>2, <3>1, <3>2, SliceNone
  <2>5. Promise!QSleep
    BY <1>10, <2>1, <2>4, SameQueues DEF Promise!QSleep
  <2> QED
    BY <1>9, <2>5 DEF Kept, PromisedNext
<1> QED
  BY <1>11, <1>12

\* A reader that takes the signal was called.
LEMMA WakeStep == IInv /\ Wake => IInv' /\ Kept
<1> SUFFICES ASSUME IInv, Wake PROVE IInv' /\ Kept
  OBVIOUS
<1>1. PICK ir, iw, jf, ib \in Nat : Marks(ir, iw, jf, ib)
  BY DEF IInv, InOrder
<1>2. /\ rpc = "asleep" /\ signal /\ signal' = FALSE /\ rpc' = "awake"
      /\ UNCHANGED <<yqueue, list, r, c, wvars, o, taken>>
  BY DEF Wake
<1>3. TypeOK'
  BY <1>2 DEF IInv, TypeOK, yqueue, wvars
<1>4. ChunksConserved' /\ Ascending(list)' /\ FullChunk' = FullChunk
  BY <1>2, SameChunks DEF wvars
<1>5. Marks(ir, iw, jf, ib)'
  BY <1>1, <1>2 DEF Marks, yqueue, wvars
<1>6. Sleeping'
  BY <1>2 DEF IInv, Sleeping, yqueue, wvars
<1>7. InHand'
  BY <1>2, <1>4 DEF IInv, InHand, wvars
<1>8. IInv'
  BY <1>3, <1>4, <1>5, <1>6, <1>7 DEF IInv, InOrder
<1>9. UNCHANGED <<list, values, begin, w, f, back, Growing, taken>>
  BY <1>2 DEF Growing, yqueue, wvars
<1>10. Reader = "called" /\ Reader' = "active"
  BY <1>2 DEF Reader
<1>11. Promise!QWake
  BY <1>9, <1>10, SameQueues DEF Promise!QWake
<1> QED
  BY <1>8, <1>11 DEF Kept, PromisedNext

\* The chunk left behind becomes the spare one, whose place it takes.
LEMMA RecycleStep == IInv /\ Recycle => IInv' /\ Kept
<1> SUFFICES ASSUME IInv, Recycle PROVE IInv' /\ Kept
  OBVIOUS
<1>1. PICK ir, iw, jf, ib \in Nat : Marks(ir, iw, jf, ib)
  BY DEF IInv, InOrder
<1>2. /\ rpc = "xchg" /\ spare_chunk' = o /\ heap' = heap \ {spare_chunk} /\ o' = Null
      /\ rpc' = "awake"
      /\ UNCHANGED <<values, prev, next, begin, list, r, c, wvars, taken, signal>>
  BY DEF Recycle
<1>3. TypeOK'
  BY <1>2 DEF IInv, TypeOK, Optional, wvars
<1>4. ChunksConserved' /\ Ascending(list)' /\ FullChunk' = FullChunk
  <2>1. Linked' = Linked /\ Listed' = Listed /\ FullChunk' = FullChunk
    BY <1>2 DEF Linked, After, Before, Listed, wvars, FullChunk
  <2>2. /\ heap = Listed \cup Held /\ Listed \cap Held = {}
        /\ \A k \in Held : <<k, k>> \notin {<<spare_chunk, sc>>, <<spare_chunk, o>>, <<sc, o>>}
    BY DEF IInv, ChunksConserved
  <2>3. o # Null /\ sc' = sc
    BY <1>2 DEF IInv, InHand, wvars
  <2>4. Held' = Held \ {spare_chunk}
    BY <1>2, <2>2, <2>3 DEF Held
  <2>5. heap' = Listed \cup Held'
    <3>1. Null \notin heap
      BY PipeAssumption DEF IInv, TypeOK
    <3>2. spare_chunk \notin Listed
      BY <2>2, <3>1 DEF Held
    <3> QED
      BY <1>2, <2>2, <2>4, <3>2
  <2>6. \A k \in Held' : <<k, k>> \notin {<<o, sc>>, <<o, Null>>, <<sc, Null>>}
    BY <2>2, <2>4 DEF Held
  <2> QED
    BY <1>2, <2>1, <2>2, <2>3, <2>4, <2>5, <2>6 DEF IInv, ChunksConserved
<1>5. Marks(ir, iw, jf, ib)'
  BY <1>1, <1>2 DEF Marks, wvars
<1>6. Sleeping'
  BY <1>2 DEF IInv, Sleeping, wvars
<1>7. InHand'
  BY <1>2, <1>4 DEF IInv, InHand, wvars
<1>8. IInv'
  BY <1>3, <1>4, <1>5, <1>6, <1>7 DEF IInv, InOrder
<1>9. UNCHANGED <<list, values, begin, w, f, back, Growing, Reader, taken>>
  BY <1>2 DEF Growing, Reader, yqueue, rvars, wvars
<1> QED
  BY <1>8, <1>9, Silent DEF Kept

\* The chunk in hand is the spare one or fresh from malloc.
LEMMA NextChunkStep == IInv /\ NextChunk => IInv' /\ Kept
<1> SUFFICES ASSUME IInv, NextChunk PROVE IInv' /\ Kept
  OBVIOUS
<1>1. PICK ir, iw, jf, ib \in Nat : Marks(ir, iw, jf, ib)
  BY DEF IInv, InOrder
<1>2. /\ wpc = "xchg" /\ spare_chunk' = Null /\ wpc' = "link"
      /\ \/ spare_chunk # Null /\ sc' = spare_chunk /\ heap' = heap
         \/ \E k \in Chunks \ heap : sc' = k /\ heap' = heap \cup {k} /\ spare_chunk = Null
      /\ UNCHANGED <<values, prev, next, back, end, list, w, f, c, incomplete, rvars, signal, writes>>
  BY DEF NextChunk
<1>3. Null \notin Chunks /\ sc = Null /\ heap \subseteq Chunks /\ spare_chunk \in Optional
  BY <1>2, PipeAssumption DEF IInv, InHand, TypeOK
<1>4. sc' \in Chunks
  BY <1>2, <1>3 DEF Optional
<1>5. TypeOK'
  BY <1>2, <1>3, <1>4 DEF IInv, TypeOK, Optional, rvars
<1>6. ChunksConserved' /\ Ascending(list)' /\ FullChunk' = FullChunk
  <2>1. Linked' = Linked /\ Listed' = Listed /\ FullChunk' = FullChunk
    BY <1>2 DEF Linked, After, Before, Listed, rvars, FullChunk
  <2>2. /\ heap = Listed \cup Held /\ Listed \cap Held = {}
        /\ \A k \in Held : <<k, k>> \notin {<<spare_chunk, sc>>, <<spare_chunk, o>>, <<sc, o>>}
    BY DEF IInv, ChunksConserved
  <2>3. o' = o
    BY <1>2 DEF rvars
  <2>4. Held' = Held \cup {sc'} /\ (sc' = spare_chunk \/ sc' \notin heap)
    BY <1>2, <1>3, <1>4, <2>3 DEF Held
  <2>5. heap' = Listed \cup Held' /\ sc' \notin Listed
    BY <1>2, <1>3, <2>2, <2>4 DEF Held
  <2>6. sc' # o /\ sc' # Null
    BY <1>3, <1>4, <2>2, <2>4 DEF Held
  <2>7. \A k \in Held' : <<k, k>> \notin {<<Null, sc'>>, <<Null, o>>, <<sc', o>>}
    BY <2>6 DEF Held
  <2> QED
    BY <1>2, <2>1, <2>2, <2>3, <2>4, <2>5, <2>7 DEF IInv, ChunksConserved
<1>7. Marks(ir, iw, jf, ib)'
  BY <1>1, <1>2 DEF Marks, rvars
<1>8. Sleeping'
  BY <1>2 DEF IInv, Sleeping, rvars
<1>9. InHand'
  BY <1>2, <1>3, <1>4, <1>6 DEF IInv, InHand, rvars
<1>10. IInv'
  BY <1>5, <1>6, <1>7, <1>8, <1>9 DEF IInv, InOrder
<1>11. UNCHANGED <<list, values, begin, w, f, back, Growing, Reader, taken>>
  BY <1>2 DEF Growing, Reader, yqueue, rvars, wvars
<1> QED
  BY <1>10, <1>11, Silent DEF Kept

\* The value goes where back is, which is in no other slice.
LEMMA WriteStep == ASSUME IInv, NEW more \in BOOLEAN, Write(more) PROVE IInv' /\ Kept
<1>1. PICK ir, iw, jf, ib \in Nat : Marks(ir, iw, jf, ib)
  BY DEF IInv, InOrder
<1>2. /\ wpc = "idle" /\ writes < MaxWrites /\ writes' = writes + 1
      /\ values' = [values EXCEPT ![back] = writes + 1]
      /\ incomplete' = more /\ back' = end
      /\ UNCHANGED <<heap, prev, next, spare_chunk, w, c, sc, rvars, signal>>
      /\ \/ FullChunk /\ wpc' = "xchg" /\ UNCHANGED <<end, list, f>>
         \/ /\ ~FullChunk /\ wpc' = wpc /\ end' = <<end[1], end[2] + 1>>
            /\ list' = Append(list, end') /\ f' = IF more THEN f ELSE end
  BY DEF Write
<1>3. end[1] \in Chunks /\ end[2] \in 0 .. N - 1 /\ N \in Nat /\ N > 1 /\ end = <<end[1], end[2]>>
      /\ end \in Address
  BY AddressParts DEF IInv, TypeOK
<1>4. ~FullChunk => end' \in Address /\ end'[1] = end[1] /\ end'[2] = end[2] + 1
  BY <1>2, <1>3 DEF Address, FullChunk
<1>5. ~FullChunk => list' \in Seq(Address) /\ Len(list') = Len(list) + 1 /\ list'[Len(list) + 1] = end'
                   /\ DOMAIN list' = 1 .. Len(list) + 1 /\ \A i \in DOMAIN list : list'[i] = list[i]
  <2> SUFFICES ASSUME ~FullChunk
               PROVE  /\ list' \in Seq(Address) /\ Len(list') = Len(list) + 1
                      /\ list'[Len(list) + 1] = end' /\ DOMAIN list' = 1 .. Len(list) + 1
                      /\ \A i \in DOMAIN list : list'[i] = list[i]
    OBVIOUS
  <2>1. list \in Seq(Address) /\ end' \in Address /\ list' = Append(list, end')
    BY <1>2, <1>4 DEF IInv, TypeOK
  <2> QED
    BY <2>1
<1>6. TypeOK'
  <2>1. writes + 1 \in Values /\ writes' \in Values
    BY <1>2, PipeAssumption DEF IInv, TypeOK, Values
  <2>2. values' \in [Address -> Values]
    BY <1>2, <2>1 DEF IInv, TypeOK
  <2>3. list' \in Seq(Address) /\ end' \in Address /\ f' \in Address
    BY <1>2, <1>3, <1>4, <1>5 DEF IInv, TypeOK
  <2>4. wpc' \in {"idle", "xchg"}
    BY <1>2
  <2> QED
    BY <1>2, <1>3, <2>1, <2>2, <2>3, <2>4 DEF IInv, TypeOK, rvars, Optional
<1>7. ChunksConserved'
  <2>1. CASE FullChunk
    <3>1. Linked' = Linked /\ Listed' = Listed /\ Held' = Held
      BY <1>2, <2>1 DEF Linked, After, Before, Listed, Held, rvars
    <3> QED
      BY <1>2, <3>1 DEF IInv, ChunksConserved, rvars
  <2>2. CASE ~FullChunk
    <3>1. list'[1] = begin' /\ list'[Len(list')] = end'
      BY <1>2, <1>5, <2>2, EndIsLast DEF IInv, ChunksConserved, Linked, rvars
    <3>2. ASSUME NEW i \in 1 .. Len(list') - 1
          PROVE  list'[i + 1] = After(list[i])' /\ list'[i] = Before(list[i + 1])'
      <4>1. CASE i = Len(list)
        <5>1. list'[i] = end /\ list'[i + 1] = <<end[1], end[2] + 1>>
          BY <1>2, <1>5, <2>2, <4>1, EndIsLast
        <5>2. end[2] + 1 < N /\ end[2] + 1 > 0 /\ end[2] + 1 - 1 = end[2]
          BY <1>3, <2>2 DEF FullChunk
        <5> QED
          BY <1>3, <5>1, <5>2 DEF After, Before
      <4>2. CASE i # Len(list)
        <5>1. i \in 1 .. Len(list) - 1 /\ i \in DOMAIN list /\ i + 1 \in DOMAIN list
          BY <1>5, <2>2, <4>2, EndIsLast
        <5>2. list[i + 1] = After(list[i]) /\ list[i] = Before(list[i + 1])
          BY <5>1 DEF IInv, ChunksConserved, Linked
        <5> QED
          BY <1>2, <1>5, <2>2, <5>1, <5>2 DEF After, Before
      <4> QED
        BY <4>1, <4>2
    <3>3. Linked'
      BY <3>1, <3>2 DEF Linked
    <3>4. Listed' = Listed
      <4>1. \A i \in DOMAIN list : i \in DOMAIN list' /\ list'[i] = list[i]
        BY <1>5, <2>2, EndIsLast
      <4>2. \A i \in DOMAIN list' : i \in DOMAIN list \/ list'[i][1] = list[Len(list)][1]
        BY <1>4, <1>5, <2>2, EndIsLast
      <4>3. Len(list) \in DOMAIN list
        BY EndIsLast
      <4> QED
        BY <4>1, <4>2, <4>3 DEF Listed
    <3>5. Held' = Held
      BY <1>2 DEF Held, rvars
    <3> QED
      BY <1>2, <3>3, <3>4, <3>5 DEF IInv, ChunksConserved, rvars
  <2> QED
    BY <2>1, <2>2
<1>8. Ascending(list)'
  <2>1. CASE FullChunk
    BY <1>2, <2>1 DEF IInv
  <2>2. CASE ~FullChunk
    <3>1. ASSUME NEW i \in DOMAIN list, list[i][1] = end'[1] PROVE list[i][2] < end'[2]
      <4>1. list[i] \in Address /\ list[i][2] \in Int
        BY AddressParts, EndIsLast
      <4>2. i = Len(list) \/ list[i][2] < end[2]
        BY <1>4, <2>2, <3>1, EndIsLast
      <4> QED
        BY <1>3, <1>4, <2>2, <4>1, <4>2, EndIsLast
    <3> QED
      BY <1>2, <1>4, <2>2, <3>1, AscendingAppend DEF IInv, TypeOK
  <2> QED
    BY <2>1, <2>2
<1>9. PICK len \in Nat : len = Len(list) /\ list[len] = end
  BY EndIsLast
<1>10. /\ ib = len - 1 /\ 1 <= ir /\ ir <= iw /\ iw <= jf /\ jf <= ib
       /\ r = list[ir] /\ w = list[iw] /\ f = list[jf] /\ back = list[ib]
  BY <1>1, <1>2, <1>9 DEF Marks
<1>11. PICK n \in Nat : n = (IF FullChunk \/ more THEN jf ELSE len) /\ iw <= n /\ n <= len
  BY <1>10
<1>12. Marks(ir, iw, n, len)'
  <2>1. CASE FullChunk
    BY <1>2, <1>9, <1>10, <1>11, <2>1 DEF Marks, rvars
  <2>2. CASE ~FullChunk
    <3>1. ir \in DOMAIN list /\ iw \in DOMAIN list /\ jf \in DOMAIN list /\ len \in DOMAIN list
      BY <1>9, <1>10, EndIsLast
    <3>2. r' = list'[ir] /\ w' = list'[iw] /\ f' = list'[n] /\ back' = list'[len]
      BY <1>2, <1>5, <1>9, <1>10, <1>11, <2>2, <3>1 DEF rvars
    <3>3. len = IF wpc' \in {"xchg", "link"} THEN Len(list') ELSE Len(list') - 1
      BY <1>2, <1>5, <1>9, <2>2
    <3> QED
      BY <1>10, <1>11, <3>2, <3>3 DEF Marks
  <2> QED
    BY <2>1, <2>2
<1>13. Sleeping'
  BY <1>2 DEF IInv, Sleeping, rvars
<1>14. InHand'
  BY <1>2 DEF IInv, InHand, FullChunk, rvars
<1>15. IInv'
  BY <1>6, <1>7, <1>8, <1>12, <1>9, <1>11, <1>13, <1>14 DEF IInv, InOrder
<1>16. /\ ~Growing /\ Growing' = (FullChunk /\ ~more) /\ begin' = begin
       /\ taken' = taken /\ Reader' = Reader
  BY <1>2 DEF Growing, Reader, rvars
<1>17. /\ Flushed = Slice(values, list, 1, iw) /\ Complete = Slice(values, list, iw, jf)
       /\ Partial = Slice(values, list, jf, ib)
  BY <1>1, <1>16, Mapped DEF MappedRight
<1>18. /\ Flushed' = Slice(values', list', 1, iw)
       /\ Complete' = Slice(values', list', iw, IF Growing' THEN len ELSE n)
       /\ Partial' = IF Growing' THEN <<>> ELSE Slice(values', list', n, len)
  BY <1>12, <1>9, <1>15, MappedNext DEF MappedRight
<1>19. /\ Slice(values', list', 1, iw) = Flushed /\ Slice(values', list', iw, jf) = Complete
       /\ Slice(values', list', jf, len) = Append(Partial, writes + 1)
       /\ Slice(values', list', iw, len) = Append(Complete \o Partial, writes + 1)
       /\ Slice(values', list', len, len) = <<>>
  <2>1. /\ list \in Seq(Address) /\ values \in [Address -> Values]
        /\ list' \in Seq(Address) /\ values' \in [Address -> Values]
        /\ len <= Len(list') /\ ib <= Len(list) /\ ib <= Len(list') /\ ib + 1 = len /\ 1 <= len
        /\ 1 <= iw
    BY <1>2, <1>5, <1>6, <1>9, <1>10 DEF IInv, TypeOK
  <2>2. \A k \in Nat : 1 <= k /\ k < len => k \in DOMAIN list /\ list'[k] = list[k]
    BY <1>2, <1>5, <1>9, EndIsLast
  <2>3. ib \in DOMAIN list /\ back \in Address /\ list[ib] = back
    BY <1>9, <1>10, <2>1, <2>2 DEF IInv, TypeOK
  <2>4. values'[list'[ib]] = writes + 1
    BY <1>2, <2>1, <2>2, <2>3
  <2>5. \A k \in Nat : 1 <= k /\ k < ib => list'[k] = list[k] /\ values'[list[k]] = values[list[k]]
    <3>1. ASSUME NEW k \in Nat, 1 <= k, k < ib
          PROVE  list'[k] = list[k] /\ values'[list[k]] = values[list[k]]
      <4>1. k \in DOMAIN list /\ list'[k] = list[k] /\ k # ib
        BY <2>1, <2>2, <3>1
      <4>2. list[k] # back /\ list[k] \in Address
        BY <2>1, <2>3, <4>1, Found DEF IInv
      <4> QED
        BY <1>2, <2>1, <4>1, <4>2
    <3> QED
      BY <3>1
  <2>6. Written(list, values, list', values', iw, jf, ib)
    BY <1>10, <2>1, <2>5, SliceWritten
  <2>7. Slice(values', list', len, len) = <<>>
    BY <2>1, SliceNone
  <2> QED
    BY <1>17, <2>1, <2>4, <2>6, <2>7 DEF Written
<1>20. Promise!QWrite(writes + 1, more)
  <2>1. CASE more
    BY <1>11, <1>16, <1>18, <1>19, <2>1 DEF Promise!QWrite
  <2>2. CASE ~more
    BY <1>11, <1>16, <1>18, <1>19, <2>2 DEF Promise!QWrite
  <2> QED
    BY <2>1, <2>2
<1>21. writes + 1 \in 1 .. MaxWrites
  <2>1. writes \in 0 .. MaxWrites /\ writes < MaxWrites
    BY <1>2 DEF IInv, TypeOK, Values
  <2> QED
    BY <2>1, PipeAssumption
<1> QED
  BY <1>15, <1>20, <1>21 DEF Kept, PromisedNext

\* The new chunk is linked at the end; what a complete message adds was promised in Write.
LEMMA LinkStep == IInv /\ Link => IInv' /\ Kept
<1> SUFFICES ASSUME IInv, Link PROVE IInv' /\ Kept
  OBVIOUS
<1>1. PICK ir, iw, jf, ib \in Nat : Marks(ir, iw, jf, ib)
  BY DEF IInv, InOrder
<1>2. /\ wpc = "link"
      /\ next' = [next EXCEPT ![end[1]] = sc]
      /\ prev' = [prev EXCEPT ![sc] = end[1]]
      /\ end' = <<sc, 0>> /\ list' = Append(list, end')
      /\ f' = IF incomplete THEN f ELSE back
      /\ sc' = Null /\ wpc' = "idle"
      /\ UNCHANGED <<heap, values, back, spare_chunk, w, c, incomplete, rvars, signal, writes>>
  BY DEF Link
<1>3. /\ end[1] \in Chunks /\ end[2] \in 0 .. N - 1 /\ N \in Nat /\ N > 1 /\ end = <<end[1], end[2]>>
      /\ end[2] = N - 1 /\ sc \in Chunks /\ sc # Null
  BY <1>2, AddressParts DEF IInv, TypeOK, InHand, FullChunk, Optional
<1>4. end' \in Address /\ end'[1] = sc /\ end'[2] = 0
  BY <1>2, <1>3 DEF Address
<1>5. PICK len \in Nat : len = Len(list) /\ len > 0 /\ list[len] = end
  BY EndIsLast
<1>6. /\ list' \in Seq(Address) /\ Len(list') = len + 1 /\ list'[len + 1] = end'
      /\ DOMAIN list' = 1 .. len + 1 /\ DOMAIN list = 1 .. len
      /\ \A i \in DOMAIN list : list'[i] = list[i]
  BY <1>2, <1>4, <1>5 DEF IInv, TypeOK
<1>7. sc \in Held /\ sc \notin Listed
  BY <1>3 DEF Held, IInv, ChunksConserved
<1>8. \A i \in DOMAIN list : list[i] \in Address /\ list[i][1] \in Chunks /\ list[i][1] # sc
  BY <1>7, AddressParts DEF Listed, IInv, TypeOK
<1>9. TypeOK'
  <2>1. next' \in [Chunks -> Optional] /\ prev' \in [Chunks -> Optional]
    BY <1>2, <1>3 DEF IInv, TypeOK, Optional
  <2>2. f' \in Address
    BY <1>2 DEF IInv, TypeOK
  <2> QED
    BY <1>2, <1>4, <1>6, <2>1, <2>2 DEF IInv, TypeOK, rvars, Optional
<1>10. ChunksConserved'
  <2>1. list'[1] = begin' /\ list'[Len(list')] = end'
    BY <1>2, <1>5, <1>6 DEF IInv, ChunksConserved, Linked, rvars
  <2>2. ASSUME NEW i \in 1 .. Len(list') - 1
        PROVE  list'[i + 1] = After(list[i])' /\ list'[i] = Before(list[i + 1])'
    <3>1. i \in DOMAIN list /\ i + 1 \in DOMAIN list'
      BY <1>5, <1>6
    <3>2. CASE i = len
      <4>1. list'[i] = end /\ list[i] = end /\ list'[i + 1] = <<sc, 0>>
        BY <1>2, <1>5, <1>6, <3>1, <3>2
      <4>2. next'[end[1]] = sc /\ prev'[sc] = end[1]
        BY <1>2, <1>3 DEF IInv, TypeOK
      <4>3. After(list[i])' = <<sc, 0>>
        BY <1>3, <4>1, <4>2 DEF After
      <4>4. Before(list[i + 1])' = end
        BY <1>3, <4>1, <4>2 DEF Before
      <4> QED
        BY <4>1, <4>3, <4>4
    <3>3. CASE i # len
      <4>1. i \in 1 .. Len(list) - 1 /\ i + 1 \in DOMAIN list
        BY <1>5, <1>6, <3>1, <3>3
      <4>2. list[i + 1] = After(list[i]) /\ list[i] = Before(list[i + 1])
        BY <4>1 DEF IInv, ChunksConserved, Linked
      <4>3. list'[i] = list[i] /\ list'[i + 1] = list[i + 1]
        BY <1>6, <3>1, <4>1
      <4>4. list[i][2] \in Int /\ (list[i][1] = end[1] => list[i][2] + 1 < N)
        <5>1. list[i][2] \in Int
          BY <1>8, <3>1, AddressParts
        <5>2. list[i][1] = end[1] => list[i][2] < end[2]
          BY <1>5, <3>1, <3>3, EndIsLast
        <5> QED
          BY <1>3, <5>1, <5>2
      <4>5. list'[i + 1] = After(list[i])'
        BY <1>2, <1>8, <3>1, <4>2, <4>3, <4>4 DEF After, IInv, TypeOK
      <4>6. list'[i] = Before(list[i + 1])'
        BY <1>2, <1>8, <4>1, <4>2, <4>3 DEF Before, IInv, TypeOK
      <4> QED
        BY <4>5, <4>6
    <3> QED
      BY <3>2, <3>3
  <2>3. Linked'
    BY <2>1, <2>2 DEF Linked
  <2>4. Listed' = Listed \cup {sc}
    <3>1. \A i \in DOMAIN list : i \in DOMAIN list' /\ list'[i] = list[i]
      BY <1>5, <1>6
    <3>2. \A i \in DOMAIN list' : i \in DOMAIN list \/ list'[i][1] = sc
      BY <1>4, <1>5, <1>6
    <3>3. len + 1 \in DOMAIN list' /\ list'[len + 1][1] = sc
      BY <1>4, <1>6
    <3> QED
      BY <3>1, <3>2, <3>3 DEF Listed
  <2>5. /\ heap = Listed \cup Held /\ Listed \cap Held = {}
        /\ \A k \in Held : <<k, k>> \notin {<<spare_chunk, sc>>, <<spare_chunk, o>>, <<sc, o>>}
    BY DEF IInv, ChunksConserved
  <2>6. o' = o /\ spare_chunk' = spare_chunk /\ heap' = heap
    BY <1>2 DEF rvars
  <2>7. Held' = Held \ {sc}
    BY <1>2, <1>3, <1>7, <2>5, <2>6 DEF Held
  <2>8. heap' = Listed' \cup Held' /\ Listed' \cap Held' = {}
    BY <1>7, <2>4, <2>5, <2>6, <2>7
  <2>9. \A k \in Held' : <<k, k>> \notin {<<spare_chunk, Null>>, <<spare_chunk, o>>, <<Null, o>>}
    BY <2>5, <2>7 DEF Held
  <2> QED
    BY <1>2, <2>3, <2>6, <2>8, <2>9 DEF ChunksConserved
<1>11. Ascending(list)'
  <2>1. Ascending(Append(list, end'))
    BY <1>4, <1>8, AscendingAppend DEF IInv, TypeOK
  <2> QED
    BY <1>2, <2>1
<1>12. ib = len /\ 1 <= ir /\ ir <= iw /\ iw <= jf /\ jf <= ib
  BY <1>1, <1>2, <1>5 DEF Marks
<1>13. PICK n \in Nat : n = (IF incomplete THEN jf ELSE len) /\ iw <= n /\ n <= len
  BY <1>5, <1>12
<1>14. Marks(ir, iw, n, len)'
  <2>3. ir \in DOMAIN list /\ iw \in DOMAIN list /\ jf \in DOMAIN list /\ len \in DOMAIN list
    BY <1>5, <1>6, <1>12
  <2>4. r' = list'[ir] /\ w' = list'[iw] /\ f' = list'[n] /\ back' = list'[len]
    BY <1>1, <1>2, <1>6, <1>12, <1>13, <2>3 DEF Marks, rvars
  <2>5. len = IF wpc' \in {"xchg", "link"} THEN Len(list') ELSE Len(list') - 1
    BY <1>2, <1>5, <1>6
  <2> QED
    BY <1>12, <1>13, <2>4, <2>5 DEF Marks
<1>15. Sleeping'
  BY <1>2 DEF IInv, Sleeping, rvars
<1>16. InHand'
  BY <1>2 DEF IInv, InHand, FullChunk, rvars
<1>17. IInv'
  BY <1>9, <1>10, <1>11, <1>5, <1>14, <1>13, <1>15, <1>16 DEF IInv, InOrder
<1>18. /\ Growing = ~incomplete /\ ~Growing' /\ begin' = begin /\ values' = values
       /\ taken' = taken /\ Reader' = Reader
  BY <1>2 DEF Growing, Reader, rvars, IInv, TypeOK
<1>19. /\ Flushed = Slice(values, list, 1, iw)
       /\ Complete = Slice(values, list, iw, n)
       /\ Partial = IF incomplete THEN Slice(values, list, jf, len) ELSE <<>>
  <2>1. /\ Flushed = Slice(values, list, 1, iw)
        /\ Complete = Slice(values, list, iw, IF Growing THEN ib ELSE jf)
        /\ Partial = IF Growing THEN <<>> ELSE Slice(values, list, jf, ib)
    BY <1>1, Mapped DEF MappedRight
  <2>2. CASE incomplete
    BY <1>12, <1>13, <1>18, <2>1, <2>2
  <2>3. CASE ~incomplete
    BY <1>12, <1>13, <1>18, <2>1, <2>3
  <2> QED
    BY <2>2, <2>3
<1>20. /\ Flushed' = Slice(values, list', 1, iw)
       /\ Complete' = Slice(values, list', iw, n)
       /\ Partial' = Slice(values, list', n, len)
  BY <1>5, <1>14, <1>17, <1>18, MappedNext DEF MappedRight
<1>21. \A i, j \in Nat : 1 <= i /\ j <= len => Slice(values, list', i, j) = Slice(values, list, i, j)
  <2>1. ASSUME NEW i \in Nat, NEW j \in Nat, 1 <= i, j <= len
        PROVE  Slice(values, list', i, j) = Slice(values, list, i, j)
    <3>1. \A k \in Nat : i <= k /\ k < j => list'[k] = list[k]
      BY <1>5, <1>6, <2>1
    <3>2. list \in Seq(Address) /\ values \in [Address -> Values]
      BY DEF IInv, TypeOK
    <3> QED
      BY <3>1, <3>2, SliceSame
  <2> QED
    BY <2>1
<1>22. Slice(values, list', len, len) = <<>>
  BY <1>5, <1>6, SliceNone DEF IInv, TypeOK
<1>23. UNCHANGED Promise!qvars
  <2>1. /\ 1 <= iw /\ 1 <= jf /\ iw <= len /\ jf <= len /\ n <= len /\ 1 \in Nat
    BY <1>12, <1>13, <1>5
  <2>2. Flushed' = Flushed /\ Complete' = Complete
    BY <1>19, <1>20, <1>21, <2>1
  <2>3. Partial' = Partial
    BY <1>5, <1>13, <1>19, <1>20, <1>21, <1>22, <2>1
  <2> QED
    BY <1>18, <2>2, <2>3 DEF Promise!qvars
<1> QED
  BY <1>17, <1>23 DEF Kept

\* The part written last is gone, and maybe the chunk it had led to.
LEMMA UnwriteStep == IInv /\ Unwrite => IInv' /\ Kept
<1> SUFFICES ASSUME IInv, Unwrite PROVE IInv' /\ Kept
  OBVIOUS
<1>1. PICK ir, iw, jf, ib \in Nat : Marks(ir, iw, jf, ib)
  BY DEF IInv, InOrder
<1>2. /\ f # back /\ wpc = "idle"
      /\ back' = Before(back) /\ end' = Before(end)
      /\ list' = SubSeq(list, 1, Len(list) - 1)
      /\ \/ end[2] > 0 /\ UNCHANGED <<heap, next>>
         \/ /\ ~(end[2] > 0)
            /\ heap' = heap \ {next[prev[end[1]]]}
            /\ next' = [next EXCEPT ![prev[end[1]]] = Null]
      /\ UNCHANGED <<values, prev, spare_chunk, w, f, c, wpc, sc, incomplete, rvars, signal, writes>>
  BY DEF Unwrite, Unpush
<1>3. PICK len \in Nat : len = Len(list) /\ list[len] = end
  BY EndIsLast
<1>4. ib = len - 1 /\ 1 <= ir /\ ir <= iw /\ iw <= jf /\ jf < ib
      /\ r = list[ir] /\ w = list[iw] /\ f = list[jf] /\ back = list[ib]
  BY <1>1, <1>2, <1>3 DEF Marks
<1>5. /\ list \in Seq(Address) /\ DOMAIN list = 1 .. len /\ len >= 3
      /\ list' \in Seq(Address) /\ Len(list') = len - 1 /\ DOMAIN list' = 1 .. len - 1
      /\ \A i \in 1 .. len - 1 : list'[i] = list[i]
  BY <1>2, <1>3, <1>4 DEF IInv, TypeOK
<1>6. /\ len - 1 \in 1 .. Len(list) - 1 /\ len - 2 \in 1 .. Len(list) - 1
      /\ len - 1 + 1 = len /\ len - 2 + 1 = len - 1
  BY <1>3, <1>5
<1>7. /\ list[len - 1] = Before(list[len]) /\ list[len] = After(list[len - 1])
      /\ list[len - 2] = Before(list[len - 1])
  BY <1>6 DEF IInv, ChunksConserved, Linked
<1>8. end' = list[len - 1] /\ back' = list[len - 2]
  BY <1>2, <1>3, <1>4, <1>7
<1>9. /\ \A i \in 1 .. len : list[i] \in Address /\ list[i][1] \in Chunks /\ list[i][2] \in Int
      /\ end[2] \in 0 .. N - 1 /\ N \in Nat /\ N > 1
      /\ list[len - 1] \in Address /\ list[len - 1][1] \in Chunks /\ list[len - 1][2] \in 0 .. N - 1
      /\ list[len - 2] \in Address
  <2>1. \A i \in 1 .. len : list[i] \in Address
    BY <1>5
  <2>2. len - 1 \in 1 .. len /\ len - 2 \in 1 .. len /\ len \in 1 .. len
    BY <1>3, <1>5
  <2> QED
    BY <1>3, <2>1, <2>2, AddressParts
\* If the end is the first element of its chunk, that chunk leaves the list.
<1>10. /\ \/ Listed' = Listed /\ heap' = heap
          \/ \E k \in Listed : Listed' = Listed \ {k} /\ heap' = heap \ {k}
       /\ \/ next' = next
          \/ next' = [next EXCEPT ![list[len - 1][1]] = Null] /\ list[len - 1][2] = N - 1
  <2>1. CASE end[2] > 0
    <3>1. list[len - 1][1] = end[1]
      BY <1>3, <1>7, <2>1 DEF Before
    <3>2. Listed' = Listed
      <4>1. \A i \in DOMAIN list' : i \in DOMAIN list /\ list'[i] = list[i]
        BY <1>3, <1>5
      <4>2. \A i \in DOMAIN list : i \in DOMAIN list' \/ list[i][1] = list[len - 1][1]
        BY <1>3, <1>5, <3>1
      <4>3. len - 1 \in DOMAIN list' /\ list'[len - 1] = list[len - 1]
        BY <1>3, <1>5
      <4> QED
        BY <4>1, <4>2, <4>3 DEF Listed
    <3>3. heap' = heap /\ next' = next
      BY <1>2, <2>1
    <3> QED
      BY <3>2, <3>3
  <2>2. CASE ~(end[2] > 0)
    <3>1. end[2] = 0 /\ list[len - 1] = <<prev[end[1]], N - 1>>
      BY <1>3, <1>7, <1>9, <2>2 DEF Before
    <3>2. list[len - 1][1] = prev[end[1]] /\ list[len - 1][2] = N - 1
      BY <3>1
    <3>3. next[prev[end[1]]] = end[1]
      <4>1. list[len] = <<next[list[len - 1][1]], 0>>
        BY <1>7, <1>9, <3>2 DEF After
      <4> QED
        BY <1>3, <3>2, <4>1
    <3>4. \A i \in 1 .. len - 1 : list[i][1] # end[1]
      <4>1. ASSUME NEW i \in 1 .. len - 1, list[i][1] = end[1] PROVE FALSE
        <5>1. i \in 1 .. len /\ i # len
          BY <1>5
        <5>2. list[i][2] < 0 /\ list[i] \in Address
          BY <1>3, <1>5, <1>9, <3>1, <4>1, <5>1, EndIsLast
        <5> QED
          BY <5>2, AddressParts
      <4> QED
        BY <4>1
    <3>5. Listed' = Listed \ {end[1]}
      <4>1. \A i \in DOMAIN list' : i \in DOMAIN list /\ list'[i] = list[i] /\ list'[i][1] # end[1]
        BY <1>3, <1>5, <3>4
      <4>2. \A i \in DOMAIN list : i \in DOMAIN list' \/ list[i][1] = end[1]
        BY <1>3, <1>5
      <4> QED
        BY <4>1, <4>2 DEF Listed
    <3>6. heap' = heap \ {end[1]}
      BY <1>2, <2>2, <3>3
    <3>7. end[1] \in Listed
      BY <1>3, <1>5 DEF Listed
    <3>8. next' = [next EXCEPT ![list[len - 1][1]] = Null]
      BY <1>2, <2>2, <3>2
    <3> QED
      BY <3>2, <3>5, <3>6, <3>7, <3>8
  <2> QED
    BY <2>1, <2>2
<1>11. TypeOK'
  <2>1. next' \in [Chunks -> Optional]
    BY <1>9, <1>10 DEF IInv, TypeOK, Optional
  <2>2. heap' \in SUBSET Chunks
    BY <1>10 DEF IInv, TypeOK
  <2> QED
    BY <1>2, <1>5, <1>8, <1>9, <2>1, <2>2 DEF IInv, TypeOK, rvars, Optional
<1>12. Linked'
  <2>1. list'[1] = begin' /\ list'[Len(list')] = end'
    BY <1>2, <1>3, <1>5, <1>8 DEF IInv, ChunksConserved, Linked, rvars
  <2>2. ASSUME NEW i \in 1 .. Len(list') - 1
        PROVE  list'[i + 1] = After(list[i])' /\ list'[i] = Before(list[i + 1])'
    <3>1. /\ i \in 1 .. Len(list) - 1 /\ i \in 1 .. len /\ i # len /\ i < len - 1
          /\ i \in 1 .. len - 1 /\ i + 1 \in 1 .. len - 1 /\ len - 1 \in DOMAIN list /\ i \in DOMAIN list
      BY <1>3, <1>5
    <3>2. list[i + 1] = After(list[i]) /\ list[i] = Before(list[i + 1])
      BY <3>1 DEF IInv, ChunksConserved, Linked
    <3>3. list'[i] = list[i] /\ list'[i + 1] = list[i + 1]
      BY <1>5, <3>1
    <3>4. list[i][1] = list[len - 1][1] => list[i][2] < list[len - 1][2]
      BY <1>5, <3>1 DEF IInv, Ascending
    <3>5. list[i][2] + 1 < N \/ next'[list[i][1]] = next[list[i][1]]
      <4>1. list[i][2] \in Int /\ list[i][1] \in Chunks
        BY <1>9, <3>1
      <4>2. CASE next' = next
        BY <4>2
      <4>3. CASE next' = [next EXCEPT ![list[len - 1][1]] = Null] /\ list[len - 1][2] = N - 1
        <5>1. CASE list[i][1] = list[len - 1][1]
          BY <1>9, <3>4, <4>1, <4>3, <5>1
        <5>2. CASE list[i][1] # list[len - 1][1]
          BY <4>1, <4>3, <5>2 DEF IInv, TypeOK
        <5> QED
          BY <5>1, <5>2
      <4> QED
        BY <1>10, <4>2, <4>3
    <3>6. list'[i + 1] = After(list[i])'
      BY <3>2, <3>3, <3>5 DEF After
    <3>7. list'[i] = Before(list[i + 1])'
      BY <1>2, <3>2, <3>3 DEF Before
    <3> QED
      BY <3>6, <3>7
  <2> QED
    BY <2>1, <2>2 DEF Linked
<1>13. ChunksConserved'
  <2>1. Held' = Held
    BY <1>2 DEF Held, rvars
  <2> QED
    BY <1>2, <1>10, <1>12, <2>1 DEF IInv, ChunksConserved, rvars
<1>14. Ascending(list)'
  BY <1>2, <1>3, <1>5, AscendingFront DEF IInv
<1>15. PICK jb \in Nat : jb = len - 2
  BY <1>5
<1>16. Marks(ir, iw, jf, jb)'
  <2>1. ir \in 1 .. len - 1 /\ iw \in 1 .. len - 1 /\ jf \in 1 .. len - 1 /\ jb \in 1 .. len - 1
    BY <1>4, <1>5, <1>15
  <2>2. r' = list'[ir] /\ w' = list'[iw] /\ f' = list'[jf] /\ back' = list'[jb]
    BY <1>2, <1>4, <1>5, <1>8, <1>15, <2>1 DEF rvars
  <2>3. jb = IF wpc' \in {"xchg", "link"} THEN Len(list') ELSE Len(list') - 1
    BY <1>2, <1>5, <1>15
  <2>4. 1 <= ir /\ ir <= iw /\ iw <= jf /\ jf <= jb
    BY <1>4, <1>15
  <2> QED
    BY <2>2, <2>3, <2>4 DEF Marks
<1>17. Sleeping'
  BY <1>2 DEF IInv, Sleeping, rvars
<1>18. InHand'
  BY <1>2 DEF IInv, InHand, FullChunk, rvars
<1>19. IInv'
  BY <1>11, <1>13, <1>14, <1>15, <1>16, <1>17, <1>18 DEF IInv, InOrder
<1>20. /\ ~Growing /\ ~Growing' /\ UNCHANGED <<begin, values, taken, Reader>>
  BY <1>2 DEF Growing, Reader, rvars
<1>21. /\ Flushed = Slice(values, list, 1, iw) /\ Complete = Slice(values, list, iw, jf)
       /\ Partial = Slice(values, list, jf, ib)
  BY <1>1, <1>20, Mapped DEF MappedRight
<1>22. /\ Flushed' = Slice(values, list', 1, iw) /\ Complete' = Slice(values, list', iw, jf)
       /\ Partial' = Slice(values, list', jf, jb)
  BY <1>15, <1>16, <1>19, <1>20, MappedNext DEF MappedRight
<1>23. /\ list \in Seq(Address) /\ values \in [Address -> Values]
       /\ 1 \in Nat /\ 1 <= 1 /\ 1 <= iw /\ 1 <= jf /\ iw <= jb /\ jf <= jb /\ jb + 1 = ib /\ jb <= Len(list)
  BY <1>3, <1>4, <1>5, <1>15 DEF IInv, TypeOK
<1>24. \A i, j \in Nat : 1 <= i /\ j <= jb => Slice(values, list', i, j) = Slice(values, list, i, j)
  <2>1. ASSUME NEW i \in Nat, NEW j \in Nat, 1 <= i, j <= jb
        PROVE  Slice(values, list', i, j) = Slice(values, list, i, j)
    <3>1. \A k \in Nat : i <= k /\ k < j => list'[k] = list[k]
      BY <1>5, <1>15, <2>1
    <3> QED
      BY <1>23, <3>1, SliceSame
  <2> QED
    BY <2>1
<1>25. /\ Slice(values, list, jf, jb + 1) # <<>>
       /\ SubSeq(Slice(values, list, jf, jb + 1), 1, Len(Slice(values, list, jf, jb + 1)) - 1)
             = Slice(values, list, jf, jb)
  BY <1>23, SliceFront
<1>26. Promise!QUnwrite
  <2>1. Flushed' = Flushed /\ Complete' = Complete /\ Partial' = Slice(values, list, jf, jb)
    BY <1>21, <1>22, <1>23, <1>24
  <2> QED
    BY <1>20, <1>21, <1>23, <1>25, <2>1 DEF Promise!QUnwrite
<1> QED
  BY <1>19, <1>26 DEF Kept, PromisedNext

\* The reader takes the oldest element, and maybe leaves a chunk.
LEMMA ReadStep == IInv /\ Read => IInv' /\ Kept
<1> SUFFICES ASSUME IInv, Read PROVE IInv' /\ Kept
  OBVIOUS
<1>1. PICK ir, iw, jf, ib \in Nat : Marks(ir, iw, jf, ib)
  BY DEF IInv, InOrder
<1>2. /\ rpc = "awake" /\ begin # r
      /\ taken' = <<values[begin]>> /\ list' = Tail(list)
      /\ \/ /\ begin[2] + 1 # N
            /\ begin' = <<begin[1], begin[2] + 1>> /\ UNCHANGED <<rpc, o, prev>>
         \/ /\ begin[2] + 1 = N
            /\ begin' = <<next[begin[1]], 0>>
            /\ prev' = [prev EXCEPT ![next[begin[1]]] = Null]
            /\ o' = begin[1] /\ rpc' = "xchg"
      /\ UNCHANGED <<heap, values, next, spare_chunk, r, c, wvars, signal>>
  BY DEF Read
<1>3. PICK len \in Nat : len = Len(list) /\ list[len] = end
  BY EndIsLast
<1>4. /\ 1 < ir /\ ir <= iw /\ iw <= jf /\ jf <= ib /\ ib <= len
      /\ ib = (IF wpc \in {"xchg", "link"} THEN len ELSE len - 1)
      /\ r = list[ir] /\ w = list[iw] /\ f = list[jf] /\ back = list[ib] /\ list[1] = begin
  BY <1>1, <1>2, <1>3 DEF Marks, IInv, ChunksConserved, Linked
<1>5. /\ list \in Seq(Address) /\ DOMAIN list = 1 .. len /\ len >= 2
      /\ list' \in Seq(Address) /\ Len(list') = len - 1 /\ DOMAIN list' = 1 .. len - 1
      /\ \A i \in 1 .. len - 1 : list'[i] = list[i + 1]
  <2>1. list \in Seq(Address) /\ list # <<>> /\ len >= 2
    BY <1>3, <1>4 DEF IInv, TypeOK
  <2> QED
    BY <1>2, <1>3, <2>1
<1>6. /\ \A i \in 1 .. len : list[i] \in Address /\ list[i][1] \in Chunks /\ list[i][2] \in Int
      /\ begin[1] \in Chunks /\ begin[2] \in 0 .. N - 1 /\ N \in Nat /\ N > 1
  <2>1. \A i \in 1 .. len : list[i] \in Address
    BY <1>5
  <2>2. begin \in Address
    BY DEF IInv, TypeOK
  <2> QED
    BY <2>1, <2>2, AddressParts
<1>7. list[2] = After(begin)
  <2>1. 1 \in 1 .. Len(list) - 1 /\ 1 + 1 = 2
    BY <1>3, <1>5
  <2>2. list[1 + 1] = After(list[1])
    BY <2>1 DEF IInv, ChunksConserved, Linked
  <2> QED
    BY <1>4, <2>1, <2>2
<1>8. begin' = list[2] /\ begin' \in Address
  <2>1. begin' = list[2]
    BY <1>2, <1>6, <1>7 DEF After
  <2>2. 2 \in 1 .. len
    BY <1>5
  <2> QED
    BY <1>6, <2>1, <2>2
\* After the last element of a chunk, that chunk leaves the list.
<1>9. /\ \/ Listed' = Listed /\ o' = o /\ rpc' = "awake"
         \/ begin[1] \in Listed /\ Listed' = Listed \ {begin[1]} /\ o' = begin[1] /\ rpc' = "xchg"
      /\ \/ prev' = prev
         \/ prev' = [prev EXCEPT ![list[2][1]] = Null] /\ list[2][2] = 0
  <2>1. CASE begin[2] + 1 # N
    <3>1. list[2][1] = begin[1]
      BY <1>6, <1>7, <2>1 DEF After
    <3>2. Listed' = Listed
      <4>1. \A i \in DOMAIN list' : i + 1 \in DOMAIN list /\ list'[i] = list[i + 1]
        BY <1>5
      <4>2. \A i \in DOMAIN list : (i - 1 \in DOMAIN list' /\ list'[i - 1] = list[i]) \/ i = 1
        <5>1. ASSUME NEW i \in DOMAIN list, i # 1
              PROVE  i - 1 \in DOMAIN list' /\ list'[i - 1] = list[i]
          <6>1. i - 1 \in 1 .. len - 1 /\ i - 1 + 1 = i
            BY <1>5, <5>1
          <6> QED
            BY <1>5, <6>1
        <5> QED
          BY <5>1
      <4>3. 1 \in DOMAIN list' /\ list'[1][1] = list[1][1]
        <5>1. 1 \in 1 .. len - 1 /\ 1 + 1 = 2
          BY <1>5
        <5> QED
          BY <1>4, <1>5, <3>1, <5>1
      <4> QED
        BY <4>1, <4>2, <4>3 DEF Listed
    <3> QED
      BY <1>2, <2>1, <3>2
  <2>2. CASE begin[2] + 1 = N
    <3>1. list[2] = <<next[begin[1]], 0>>
      BY <1>6, <1>7, <2>2 DEF After
    <3>2. list[2][1] = next[begin[1]] /\ list[2][2] = 0
      BY <3>1
    <3>3. \A i \in 1 .. len : i # 1 => list[i][1] # begin[1]
      <4>1. ASSUME NEW i \in 1 .. len, i # 1, list[i][1] = begin[1] PROVE FALSE
        <5>1. 1 \in DOMAIN list /\ i \in DOMAIN list /\ 1 < i
          BY <1>5, <4>1
        <5>2. begin[2] < list[i][2]
          BY <1>4, <4>1, <5>1 DEF IInv, Ascending
        <5>3. list[i][2] \in 0 .. N - 1
          BY <1>6, AddressParts
        <5> QED
          BY <1>6, <2>2, <5>2, <5>3
      <4> QED
        BY <4>1
    <3>4. Listed' = Listed \ {begin[1]}
      <4>1. \A i \in DOMAIN list' : i + 1 \in DOMAIN list /\ list'[i] = list[i + 1] /\ list'[i][1] # begin[1]
        <5>1. ASSUME NEW i \in DOMAIN list'
              PROVE  i + 1 \in DOMAIN list /\ list'[i] = list[i + 1] /\ list'[i][1] # begin[1]
          <6>1. i \in 1 .. len - 1 /\ i + 1 \in 1 .. len /\ i + 1 # 1
            BY <1>5
          <6> QED
            BY <1>5, <3>3, <6>1
        <5> QED
          BY <5>1
      <4>2. \A i \in DOMAIN list : (i - 1 \in DOMAIN list' /\ list'[i - 1] = list[i]) \/ i = 1
        <5>1. ASSUME NEW i \in DOMAIN list, i # 1
              PROVE  i - 1 \in DOMAIN list' /\ list'[i - 1] = list[i]
          <6>1. i - 1 \in 1 .. len - 1 /\ i - 1 + 1 = i
            BY <1>5, <5>1
          <6> QED
            BY <1>5, <6>1
        <5> QED
          BY <5>1
      <4> QED
        BY <1>4, <4>1, <4>2 DEF Listed
    <3>5. begin[1] \in Listed
      <4>1. 1 \in DOMAIN list
        BY <1>5
      <4> QED
        BY <1>4, <4>1 DEF Listed
    <3>6. /\ prev' = [prev EXCEPT ![next[begin[1]]] = Null]
          /\ o' = begin[1] /\ rpc' = "xchg"
      BY <1>2, <2>2
    <3> QED
      BY <3>2, <3>4, <3>5, <3>6
  <2> QED
    BY <2>1, <2>2
<1>10. o = Null /\ c = w /\ c # Null
  BY <1>2 DEF IInv, InHand, Sleeping
<1>11. TypeOK'
  <2>1. prev' \in [Chunks -> Optional]
    BY <1>6, <1>9 DEF IInv, TypeOK, Optional
  <2>2. o' \in Optional /\ rpc' \in {"awake", "xchg"}
    BY <1>6, <1>9, <1>10 DEF Optional
  <2>3. taken' \in Seq(Values)
    BY <1>2 DEF IInv, TypeOK
  <2> QED
    BY <1>2, <1>5, <1>8, <2>1, <2>2, <2>3 DEF IInv, TypeOK, wvars
<1>12. Linked'
  <2>1. list'[1] = begin' /\ list'[Len(list')] = end'
    <3>1. 1 \in 1 .. len - 1 /\ 1 + 1 = 2 /\ len - 1 \in 1 .. len - 1 /\ len - 1 + 1 = len
      BY <1>5
    <3> QED
      BY <1>2, <1>3, <1>5, <1>8, <3>1 DEF wvars
  <2>2. ASSUME NEW i \in 1 .. Len(list') - 1
        PROVE  list'[i + 1] = After(list[i])' /\ list'[i] = Before(list[i + 1])'
    <3>1. PICK j \in 1 .. Len(list) - 1 : j = i + 1
      BY <1>3, <1>5
    <3>2. /\ list[j + 1] = After(list[j]) /\ list[j] = Before(list[j + 1])
      BY <3>1 DEF IInv, ChunksConserved, Linked
    <3>3. list'[i] = list[j] /\ list'[i + 1] = list[j + 1]
      <4>1. i \in 1 .. len - 1 /\ i + 1 \in 1 .. len - 1
        BY <1>5
      <4> QED
        BY <1>5, <3>1, <4>1
    <3>4. 2 < j + 1 /\ 2 \in DOMAIN list /\ j + 1 \in DOMAIN list /\ j + 1 \in 1 .. len
      BY <1>3, <1>5, <3>1
    <3>5. list[j + 1][1] = list[2][1] => list[2][2] < list[j + 1][2]
      BY <3>4 DEF IInv, Ascending
    <3>6. list[j + 1][2] > 0 \/ prev'[list[j + 1][1]] = prev[list[j + 1][1]]
      <4>1. list[j + 1][2] \in Int /\ list[j + 1][1] \in Chunks
        BY <1>6, <3>4
      <4>2. CASE prev' = prev
        BY <4>2
      <4>3. CASE prev' = [prev EXCEPT ![list[2][1]] = Null] /\ list[2][2] = 0
        <5>1. CASE list[j + 1][1] = list[2][1]
          BY <3>5, <4>1, <4>3, <5>1
        <5>2. CASE list[j + 1][1] # list[2][1]
          BY <4>1, <4>3, <5>2 DEF IInv, TypeOK
        <5> QED
          BY <5>1, <5>2
      <4> QED
        BY <1>9, <4>2, <4>3
    <3>7. list'[i + 1] = After(list[i])'
      BY <1>2, <3>2, <3>3 DEF After
    <3>8. list'[i] = Before(list[i + 1])'
      BY <3>2, <3>3, <3>6 DEF Before
    <3> QED
      BY <3>7, <3>8
  <2> QED
    BY <2>1, <2>2 DEF Linked
<1>13. ChunksConserved'
  <2>1. /\ heap = Listed \cup Held /\ Listed \cap Held = {}
        /\ \A k \in Held : <<k, k>> \notin {<<spare_chunk, sc>>, <<spare_chunk, o>>, <<sc, o>>}
    BY DEF IInv, ChunksConserved
  <2>2. sc' = sc /\ spare_chunk' = spare_chunk /\ heap' = heap
    BY <1>2 DEF wvars
  <2>3. CASE Listed' = Listed /\ o' = o
    <3>1. Held' = Held
      BY <2>2, <2>3 DEF Held
    <3> QED
      BY <1>12, <2>1, <2>2, <2>3, <3>1 DEF ChunksConserved
  <2>4. CASE begin[1] \in Listed /\ Listed' = Listed \ {begin[1]} /\ o' = begin[1]
    <3>1. begin[1] # Null /\ begin[1] \notin Held
      BY <1>6, <2>1, <2>4, PipeAssumption
    <3>2. Held' = Held \cup {begin[1]}
      BY <1>10, <2>2, <2>4, <3>1 DEF Held
    <3>3. heap' = Listed' \cup Held' /\ Listed' \cap Held' = {}
      BY <2>1, <2>2, <2>4, <3>1, <3>2
    <3>4. \A k \in Held' : <<k, k>> \notin {<<spare_chunk, sc>>, <<spare_chunk, begin[1]>>, <<sc, begin[1]>>}
      <4>1. begin[1] # spare_chunk /\ begin[1] # sc
        BY <3>1 DEF Held
      <4> QED
        BY <2>1, <3>2, <4>1 DEF Held
    <3> QED
      BY <1>12, <2>2, <2>4, <3>3, <3>4 DEF ChunksConserved
  <2> QED
    BY <1>9, <2>3, <2>4
<1>14. Ascending(list)'
  BY <1>2, <1>3, <1>5, AscendingTail DEF IInv
<1>15. PICK jr, jw, jg, jb \in Nat : jr = ir - 1 /\ jw = iw - 1 /\ jg = jf - 1 /\ jb = ib - 1
  BY <1>4
<1>16. Marks(jr, jw, jg, jb)'
  <2>1. /\ jr \in 1 .. len - 1 /\ jw \in 1 .. len - 1 /\ jg \in 1 .. len - 1 /\ jb \in 1 .. len - 1
        /\ jr + 1 = ir /\ jw + 1 = iw /\ jg + 1 = jf /\ jb + 1 = ib
    BY <1>4, <1>5, <1>15
  <2>2. r' = list'[jr] /\ w' = list'[jw] /\ f' = list'[jg] /\ back' = list'[jb]
    BY <1>2, <1>4, <1>5, <2>1 DEF wvars
  <2>3. jb = IF wpc' \in {"xchg", "link"} THEN Len(list') ELSE Len(list') - 1
    BY <1>2, <1>4, <1>5, <1>15 DEF wvars
  <2>4. 1 <= jr /\ jr <= jw /\ jw <= jg /\ jg <= jb
    BY <1>4, <1>15
  <2> QED
    BY <2>2, <2>3, <2>4 DEF Marks
<1>17. Sleeping'
  BY <1>2, <1>9, <1>10 DEF IInv, Sleeping, wvars
<1>18. InHand'
  <2>1. o' # Null <=> rpc' = "xchg"
    BY <1>6, <1>9, <1>10, PipeAssumption
  <2> QED
    BY <1>2, <2>1 DEF IInv, InHand, FullChunk, wvars
<1>19. IInv'
  BY <1>11, <1>13, <1>14, <1>15, <1>16, <1>17, <1>18 DEF IInv, InOrder
<1>20. /\ Growing' = Growing /\ values' = values /\ Reader = "active" /\ Reader' = "active"
  BY <1>2, <1>9 DEF Growing, Reader, wvars
<1>21. PICK top, low \in Nat : top = (IF Growing THEN ib ELSE jf) /\ low = top - 1
  BY <1>4
<1>22. /\ Flushed = Slice(values, list, 1, iw) /\ Complete = Slice(values, list, iw, top)
       /\ Partial = IF Growing THEN <<>> ELSE Slice(values, list, jf, ib)
  BY <1>1, <1>21, Mapped DEF MappedRight
<1>23. /\ Flushed' = Slice(values, list', 1, jw) /\ Complete' = Slice(values, list', jw, low)
       /\ Partial' = IF Growing THEN <<>> ELSE Slice(values, list', jg, jb)
  <2>1. /\ Flushed' = Slice(values', list', 1, jw)
        /\ Complete' = Slice(values', list', jw, IF Growing' THEN jb ELSE jg)
        /\ Partial' = IF Growing' THEN <<>> ELSE Slice(values', list', jg, jb)
    BY <1>16, <1>19, MappedNext DEF MappedRight
  <2>2. low = IF Growing' THEN jb ELSE jg
    BY <1>4, <1>15, <1>20, <1>21
  <2> QED
    BY <1>20, <2>1, <2>2
<1>24. /\ list \in Seq(Address) /\ values \in [Address -> Values] /\ list' = Tail(list)
       /\ 1 < iw /\ iw <= Len(list) /\ 1 < jf /\ iw <= top /\ top <= Len(list) + 1
       /\ jf <= ib /\ ib <= Len(list) + 1
       /\ jw = iw - 1 /\ low = top - 1 /\ jg = jf - 1 /\ jb = ib - 1
  BY <1>2, <1>3, <1>4, <1>5, <1>15, <1>21 DEF IInv, TypeOK
<1>25. Flushed # <<>> /\ taken' = <<Head(Flushed)>> /\ Flushed' = Tail(Flushed)
  <2>1. /\ Slice(values, list, 1, iw) # <<>> /\ Head(Slice(values, list, 1, iw)) = values[list[1]]
        /\ Tail(Slice(values, list, 1, iw)) = Slice(values, Tail(list), 1, iw - 1)
    BY <1>24, SliceTail
  <2> QED
    BY <1>2, <1>4, <1>22, <1>23, <1>24, <2>1
<1>26. Complete' = Complete /\ Partial' = Partial
  <2>1. /\ Slice(values, Tail(list), iw - 1, top - 1) = Slice(values, list, iw, top)
        /\ Slice(values, Tail(list), jf - 1, ib - 1) = Slice(values, list, jf, ib)
    BY <1>24, SliceShift
  <2> QED
    BY <1>22, <1>23, <1>24, <2>1
<1> QED
  <2>1. Promise!QRead
    BY <1>20, <1>25, <1>26 DEF Promise!QRead
  <2> QED
    BY <1>19, <2>1 DEF Kept, PromisedNext

-----------------------------------------------------------------------------
\* Nothing changes.
LEMMA StutterStep == IInv /\ UNCHANGED vars => IInv' /\ Kept
<1> SUFFICES ASSUME IInv, UNCHANGED vars PROVE IInv' /\ Kept
  OBVIOUS
<1>1. PICK ir, iw, jf, ib \in Nat : Marks(ir, iw, jf, ib)
  BY DEF IInv, InOrder
<1>2. ChunksConserved' /\ Ascending(list)' /\ FullChunk' = FullChunk
  BY SameChunks DEF vars
<1>3. TypeOK' /\ Marks(ir, iw, jf, ib)' /\ Sleeping' /\ InHand'
  BY <1>1, <1>2 DEF vars, yqueue, IInv, TypeOK, Marks, Sleeping, InHand
<1>4. UNCHANGED <<list, values, begin, w, f, back, Growing, Reader, taken>>
  BY DEF vars, yqueue, Growing, Reader
<1> QED
  BY <1>2, <1>3, <1>4, Silent DEF IInv, InOrder, Kept

\* Every step keeps the invariant, and is one of SleepyQueue or none.
LEMMA NextStep == IInv /\ [Next]_vars => IInv' /\ Kept
<1> SUFFICES ASSUME IInv, [Next]_vars PROVE IInv' /\ Kept
  OBVIOUS
<1>1. ASSUME NEW more \in BOOLEAN, Write(more) PROVE IInv' /\ Kept
  BY <1>1, WriteStep
<1>2. CASE NextChunk
  BY <1>2, NextChunkStep
<1>3. CASE Link
  BY <1>3, LinkStep
<1>4. CASE Unwrite
  BY <1>4, UnwriteStep
<1>5. CASE Flush
  BY <1>5, FlushStep
<1>6. CASE SetC
  BY <1>6, SetCStep
<1>7. CASE Signal
  BY <1>7, SignalStep
<1>8. CASE CheckRead
  BY <1>8, CheckReadStep
<1>9. CASE Read
  BY <1>9, ReadStep
<1>10. CASE Recycle
  BY <1>10, RecycleStep
<1>11. CASE Wake
  BY <1>11, WakeStep
<1>12. CASE Over \/ UNCHANGED vars
  BY <1>12, StutterStep DEF Over
<1> QED
  BY <1>1, <1>2, <1>3, <1>4, <1>5, <1>6, <1>7, <1>8, <1>9, <1>10, <1>11, <1>12 DEF Next

\* The invariant holds in every state.
LEMMA Invariance == Spec => []IInv
<1>1. Init => IInv
  BY InitInv
<1>2. IInv /\ [Next]_vars => IInv'
  BY NextStep
<1> QED
  BY <1>1, <1>2, PTL DEF Spec

\* Every variable has its type: the queue's pointers are addresses of elements,
\* and only c may be NULL (ypipe.hpp:76-204, yqueue.hpp:66-202).
THEOREM QueueTypeCorrect == Spec => []TypeOK
<1>1. IInv => TypeOK
  BY DEF IInv
<1> QED
  BY <1>1, Invariance, PTL

\* Whatever chunks malloc returns, and however many elements a chunk has, the
\* chunks are linked both ways from begin to end, and each is in the list, spare
\* or in one thread's hand (yqueue.hpp:96-202).
THEOREM ChunksAreConserved == Spec => []ChunksConserved
<1>1. IInv => ChunksConserved
  BY DEF IInv
<1> QED
  BY <1>1, Invariance, PTL

\* At the start everything is empty.
LEMMA InitPromised == Init => Promise!QInit
<1> SUFFICES ASSUME Init PROVE Promise!QInit
  OBVIOUS
<1>1. /\ begin = list[1] /\ w = begin /\ f = begin /\ back = begin /\ taken = <<>>
      /\ rpc = "awake" /\ wpc = "idle"
  BY DEF Init
<1>2. At(begin) \in Int
  <2>1. IInv
    BY InitInv
  <2>2. 1 \in DOMAIN list
    BY <2>1, EndIsLast
  <2>3. At(begin) = 1
    BY <1>1, <2>1, <2>2, Found DEF At, IInv, TypeOK
  <2> QED
    BY <2>3
<1>3. Between(begin, begin) = <<>>
  BY <1>2 DEF Between
<1>4. Reader = "active" /\ ~Growing
  BY <1>1 DEF Reader, Growing
<1> QED
  BY <1>1, <1>3, <1>4 DEF Promise!QInit, Flushed, Complete, Partial

\* The queue of chunks and addresses is the FIFO of SleepyQueue: comparing front,
\* r, w and c as pointers never takes one element for another, the reader sees
\* what is flushed and nothing else, in order, and flush() says that the reader
\* sleeps exactly when it found nothing (ypipe.hpp:61-204).
THEOREM QueueIsSleepyQueue == Spec => IsSleepyQueue
<1>1. Init => Promise!QInit
  BY InitPromised
<1>2. IInv /\ [Next]_vars => [PromisedNext]_(Promise!qvars)
  BY NextStep DEF Kept
<1> QED
  BY <1>1, <1>2, Invariance, PTL DEF Spec, IsSleepyQueue
=============================================================================
